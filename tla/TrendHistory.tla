----------------------------- MODULE TrendHistory -----------------------------
(***************************************************************************)
(* What a trend promises: for every line the readings on display, oldest   *)
(* first.  When every line has a reading that is not on display yet, all   *)
(* of them move on together, by one column.                                *)
(*                                                                         *)
(* A reading is told by the round of polling it was taken in; Padding      *)
(* stands where there is none yet.                                         *)
(***************************************************************************)
EXTENDS Naturals, Sequences, Functions

CONSTANTS
    Keys,     \* the registers a line may follow
    Sizes,    \* the numbers of columns the user may choose
    Rounds    \* the rounds a reading may be from

VARIABLES
    size,     \* columns
    shown,    \* line -> its readings on display
    fresh     \* line -> its reading to be shown next

historyVars == <<size, shown, fresh>>

Padding == 0
Padded(lines, n) == [k \in lines |-> [i \in 1..n |-> Padding]]

Init ==
    /\ size \in Sizes
    /\ \E lines \in SUBSET Keys :
          shown = Padded(lines, size) /\ fresh = [k \in lines |-> Padding]

Read(key, round) ==
    /\ key \in DOMAIN shown
    /\ LET now == [fresh EXCEPT ![key] = round]
       IN  IF Padding \in Range(now)
           THEN fresh' = now /\ UNCHANGED shown
           ELSE /\ fresh' = [k \in DOMAIN now |-> Padding]
                /\ shown' = [k \in DOMAIN shown |-> Append(Tail(shown[k]), now[k])]
    /\ UNCHANGED size

\* New lines start empty; those there are keep what they show.
Add(lines) ==
    /\ lines # {} /\ lines \cap DOMAIN shown = {}
    /\ shown' = [k \in lines \cup DOMAIN shown |->
                    IF k \in lines THEN [i \in 1..size |-> Padding] ELSE shown[k]]
    /\ fresh' = [k \in lines \cup DOMAIN shown |-> IF k \in lines THEN Padding ELSE fresh[k]]
    /\ UNCHANGED size

Remove(key) ==
    /\ key \in DOMAIN shown
    /\ shown' = Restrict(shown, DOMAIN shown \ {key})
    /\ fresh' = Restrict(fresh, DOMAIN shown \ {key})
    /\ UNCHANGED size

\* "Changing the history size will clear currently captured data."
Resize(n) ==
    /\ size' = n
    /\ shown' = Padded(DOMAIN shown, n)
    /\ UNCHANGED fresh

Reopen(n) ==
    /\ size' = n
    /\ shown' = <<>>
    /\ fresh' = <<>>

Next ==
    \/ \E key \in Keys, round \in Rounds : Read(key, round)
    \/ \E lines \in SUBSET Keys : Add(lines)
    \/ \E key \in Keys : Remove(key)
    \/ \E n \in Sizes : Resize(n) \/ Reopen(n)

Spec == Init /\ [][Next]_historyVars

=============================================================================
