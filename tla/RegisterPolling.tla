---------------------------- MODULE RegisterPolling ----------------------------
(***************************************************************************)
(* A register window together with the scheduler that polls for it.  Of    *)
(* the scheduler only what the window can tell is kept (Scheduler.tla has  *)
(* the rest): one request under way, writes before metadata before reads,  *)
(* every request answered or failed.  The device may answer anything.      *)
(***************************************************************************)
EXTENDS RegisterWindow

CONSTANTS
    DeviceWords,       \* the values a register of the device may have
    DeviceEncoding,    \* the encoding the device's metadata names for a register
    Node,              \* the node the window was opened for
    TypedTexts,        \* what the user may type into a row
    Starts, Counts,    \* what the user may select for Apply
    MaxClicks,         \* bound: texts typed, Returns, check boxes and Apply
    MaxSequences       \* bound: metadata sequences queued at a time

ASSUME PollingAssumption ==
    /\ DeviceWords \subseteq Words
    /\ Node \in Nodes
    /\ DeviceEncoding \in [Registers -> Encodings]
    /\ Starts \subseteq 1..LastRegister
    /\ Counts \subseteq 1..MaxCount
    /\ \A text \in TypedTexts :
          /\ text = Text(text.form, text.numbers) /\ text.numbers \in Seq(Int)
          /\ text.form \in {"dec", "hex"} => text.numbers # <<>>
    /\ {MaxClicks, MaxSequences} \subseteq Nat

VARIABLES
    win,        \* the window
    connected,  \* the scheduler polls
    flight,     \* the request under way
    sequences,  \* its queued metadata sequences, the first one being read
    unanswered, \* the window's writes that are queued or under way
    torn,       \* Apply was clicked with a metadata sequence queued, see on_refresh
    clicks      \* how many more the bound allows

linkVars == <<connected, flight, sequences, unanswered>>
vars == <<win, linkVars, torn, clicks>>

NoFlight == [kind |-> "none", first |-> 0, count |-> 0, node |-> 0]

Texts == {decode_register(v, e) : v \in DeviceWords \cup {0, 1}, e \in Encodings}
             \cup TypedTexts \cup {Blank}

Writes == [register : Registers, value : Words, by : {"user", "device"}]

\* Everything of a window that does not depend on how many rows it has.
Windows(w) ==
    [kind : Kinds, start : 1..LastRegister, count : 1..MaxCount,
     node : Nodes, node_select : Nodes,
     raw : {w.raw}, encoding : {w.encoding}, text : {w.text}, index : {w.index}, label : {w.label},
     have_metadata : BOOLEAN, meta_in_process : BOOLEAN,
     active_index : 0..MaxCount, timer : BOOLEAN, focus : 0..MaxCount,
     remote_state : [Registers -> BOOLEAN], writes : Seq(Writes), undefined : BOOLEAN]

WindowTypeOK(w) ==
    /\ w \in Windows(w)
    /\ w.raw \in [Rows(w) -> DeviceWords \cup {0}]
    /\ w.encoding \in [Rows(w) -> Encodings]
    /\ w.text \in [Rows(w) -> IF w.kind = "coils" THEN {Decimal(0), Decimal(1)} ELSE Texts]
    /\ w.index \in [Rows(w) -> 1..(MaxCount + 1)]
    /\ w.label \in [Rows(w) -> {0} \cup Registers]

Flights ==
    [kind : {"none", "meta", "read"}, first : 0..(LastRegister + MaxCount - 1),
     count : 0..MaxCount, node : Nodes \cup {0}]

LinkTypeOK ==
    /\ flight \in Flights
    /\ sequences \in Seq([next : Registers, last : Registers]) /\ Len(sequences) <= MaxSequences
    /\ unanswered \in Nat
    /\ {connected, torn} \subseteq BOOLEAN

TypeOK == WindowTypeOK(win) /\ LinkTypeOK

Init ==
    /\ \E kind \in Kinds, count \in Counts : win = NewWindow(kind, 1, count, Node)
    /\ connected = FALSE
    /\ flight = NoFlight
    /\ sequences = <<>>
    /\ unanswered = 0
    /\ torn = FALSE
    /\ clicks = MaxClicks

\* The window becomes w.  The scheduler takes the writes emitted meanwhile if
\* it polls; they stay in the record to be looked at until the next step.
Becomes(w) ==
    /\ win' = w
    /\ unanswered' = IF connected THEN unanswered + Len(w.writes) ELSE unanswered

\* The window at the start of a handler.
Now == [win EXCEPT !.writes = <<>>]

Click == clicks > 0 /\ clicks' = clicks - 1

-----------------------------------------------------------------------------
(* The user.  A click moves the keyboard focus, which ends an editing first. *)

SelectNode(node) ==
    /\ win.focus = NoRow
    /\ node # win.node_select
    /\ Becomes([Now EXCEPT !.node_select = node])
    /\ UNCHANGED <<connected, flight, sequences, torn, clicks>>

Apply(start, count) ==
    /\ win.focus = NoRow
    /\ Click
    /\ Becomes(on_apply_clicked(Now, start, count))
    /\ torn' = (torn \/ sequences # <<>>)
    /\ UNCHANGED <<connected, flight, sequences>>

\* Without a connection the scheduler ignores metadata_requested.
Refresh ==
    /\ win.focus = NoRow
    /\ Len(sequences) < MaxSequences
    /\ sequences' = IF connected /\ ~win.meta_in_process
                    THEN Append(sequences, MetadataSequence(win)) ELSE sequences
    /\ torn' = (torn /\ sequences # <<>>)
    /\ Becomes(on_refresh_clicked(Now))
    /\ UNCHANGED <<connected, flight, clicks>>

Type(i, text) ==
    /\ win.kind = "holding"
    /\ win.focus \in {NoRow, i} /\ text # win.text[i]
    /\ Click
    /\ Becomes(on_register_textEdited(Now, i, text))
    /\ UNCHANGED <<connected, flight, sequences, torn>>

Return(i) ==
    /\ win.kind = "holding"
    /\ win.focus \in {NoRow, i}
    /\ Click
    /\ \E w \in on_register_returnPressed(Now, i) : Becomes(w)
    /\ UNCHANGED <<connected, flight, sequences, torn>>

Leave ==
    /\ win.focus # NoRow
    /\ Becomes(FocusLeaves(Now))
    /\ UNCHANGED <<connected, flight, sequences, torn, clicks>>

Toggle(i) ==
    /\ win.kind = "coils"
    /\ Click
    /\ Becomes(ToggleCheckbox(Now, i))
    /\ UNCHANGED <<connected, flight, sequences, torn>>

Connect ==
    /\ ~connected
    /\ connected' = TRUE
    /\ win' = on_system_event(Now, TRUE)
    /\ UNCHANGED <<flight, sequences, unanswered, torn, clicks>>

Disconnect ==
    /\ connected
    /\ connected' = FALSE
    /\ flight' = NoFlight
    /\ sequences' = <<>>
    /\ unanswered' = 0
    /\ win' = on_system_event(Now, FALSE)
    /\ UNCHANGED <<torn, clicks>>

-----------------------------------------------------------------------------
(* The scheduler, the device and the timer.                                *)

StartMetadata ==
    /\ flight = NoFlight /\ unanswered = 0 /\ sequences # <<>>
    /\ flight' = [kind |-> "meta", first |-> Head(sequences).next, count |-> 1, node |-> win.node]
    /\ win' = Now
    /\ UNCHANGED <<connected, sequences, unanswered, torn, clicks>>

\* Once was chosen, or polling is continuous, and it is this window's turn.
StartRead ==
    /\ connected
    /\ flight = NoFlight /\ unanswered = 0 /\ sequences = <<>>
    /\ flight' = poll_register_set(win)
    /\ win' = Now
    /\ UNCHANGED <<connected, sequences, unanswered, torn, clicks>>

WriteEnds(w) ==
    /\ flight = NoFlight /\ unanswered > 0
    /\ unanswered' = unanswered - 1
    /\ win' = w
    /\ UNCHANGED <<connected, flight, sequences, torn, clicks>>

WriteAnswered == WriteEnds(Now)

WriteFails == WriteEnds(on_exception_status(Now))

\* poll_response_metadata(): current_register goes on, the sequence is popped
\* when it is past the last.
MetadataAnswered ==
    /\ flight.kind = "meta"
    /\ flight' = NoFlight
    /\ sequences' = IF Head(sequences).next = Head(sequences).last
                    THEN Tail(sequences)
                    ELSE [sequences EXCEPT ![1].next = @ + 1]
    /\ Becomes(set_metadata(Now, flight.first, flight.node, DeviceEncoding[flight.first]))
    /\ UNCHANGED <<connected, torn, clicks>>

ReadAnswered ==
    /\ flight.kind = "read"
    /\ flight' = NoFlight
    /\ \E values \in [1..flight.count -> DeviceWords] :
          Becomes(NewValues(Now, flight.first, values, flight.node))
    /\ UNCHANGED <<connected, sequences, torn, clicks>>

\* An exception or a timeout; a sequence is given up.
RequestFails ==
    /\ flight # NoFlight
    /\ flight' = NoFlight
    /\ sequences' = IF flight.kind = "meta" THEN Tail(sequences) ELSE sequences
    /\ Becomes(on_exception_status(Now))
    /\ UNCHANGED <<connected, torn, clicks>>

\* A value another window polls or a CSV file has.
OtherValue(register, value, node) ==
    /\ Becomes(on_new_value(Now, register, value, node))
    /\ UNCHANGED <<connected, flight, sequences, torn, clicks>>

IdleTimeout ==
    /\ win.timer
    /\ Becomes(on_timer_expired(Now))
    /\ UNCHANGED <<connected, flight, sequences, torn, clicks>>

-----------------------------------------------------------------------------

UserStep ==
    /\ ~win.undefined
    /\ \/ \E node \in Nodes : SelectNode(node)
       \/ \E start \in Starts, count \in Counts : Apply(start, count)
       \/ Refresh
       \/ \E i \in Rows(win) : Return(i) \/ Toggle(i) \/ \E text \in TypedTexts : Type(i, text)
       \/ Leave \/ Connect \/ Disconnect

Serve == \/ StartMetadata \/ StartRead
         \/ WriteAnswered \/ WriteFails \/ MetadataAnswered \/ ReadAnswered \/ RequestFails

SystemStep ==
    /\ ~win.undefined
    /\ \/ Serve
       \/ \E register \in Registers, value \in DeviceWords, node \in Nodes :
             OtherValue(register, value, node)
       \/ IdleTimeout

\* Beyond what the source says.
Ended == win.undefined /\ UNCHANGED vars

Next == UserStep \/ SystemStep \/ Ended

Spec == Init /\ [][Next]_vars

-----------------------------------------------------------------------------
(* Safety.                                                                 *)

\* Each row's slots are called with the row's own index ("register index in
\* window", holding_register_display.h).
RowIndex == \A i \in Rows(win) : win.index[i] = i

\* A check box that is set because the device's state changed does not write
\* that state back: every write comes from a click or from Return.
DeviceNeverWrites ==
    RowIndex => \A i \in DOMAIN win.writes : win.writes[i].by = "user"

\* While "metadata in process" makes the window ignore the Requery button, the
\* sequence for the very registers it shows is queued, so that it works again when
\* that is answered or fails.
RefreshTracked ==
    connected /\ win.meta_in_process =>
        \E i \in DOMAIN sequences : sequences[i].last = MetadataSequence(win).last

\* A description stands beside the register it describes, whatever was applied
\* while the metadata was being read.
LabelsMatch == \A i \in Rows(win) : win.label[i] \in {0, RegisterOf(win, i)}

\* The window claims to have metadata (and writes the columns to a file) when
\* every row has got it, unless Apply was clicked in the middle of a sequence.
MetadataComplete ==
    win.have_metadata /\ ~torn => \A i \in Rows(win) : win.label[i] # 0

\* The row the idle timer will leave exists, and is the one being edited.
EditedRowExists ==
    RowIndex /\ win.active_index # NoRow =>
        win.timer /\ win.active_index \in Rows(win) /\ win.focus = win.active_index

\* A value the device has just delivered and Return sends back unedited is the
\* value that was read, or is refused.
ReturnIsHarmless ==
    \A i \in Rows(win) :
        win.text[i] = decode_register(win.raw[i], win.encoding[i]) =>
            encode_register(win.text[i], win.encoding[i]) \subseteq {<<win.raw[i]>>, NotParsed}

\* What the user is typing is not overwritten by a poll, a CSV file or metadata.
EditKept ==
    [][SystemStep /\ win.timer /\ win'.timer /\ RowIndex =>
          \A i \in Rows(win) : i = win.active_index => win'.text[i] = win.text[i]]_vars

-----------------------------------------------------------------------------
(* The inductive invariant behind the safety properties.                   *)

\* Only a row of a holding register window is edited, and the row that the idle
\* timer will leave is the one its widget has told.
EditingInv ==
    /\ win.timer => win.kind = "holding"
    /\ win.focus \in {NoRow} \cup Rows(win)
    /\ win.active_index # NoRow =>
          /\ win.timer /\ win.active_index \in Rows(win)
          /\ win.focus # NoRow /\ win.active_index = win.index[win.focus]

\* The metadata request under way is the one the first sequence is at.
FlightInv ==
    flight.kind = "meta" =>
        /\ sequences # <<>> /\ flight.first = Head(sequences).next
        /\ flight.node = win.node

\* A sequence ends at its last register.  Unless Apply came in between, all are
\* about the rows shown, those behind the first have not begun, and that one has
\* got the rows before.
SequencesInv ==
    /\ \A i \in DOMAIN sequences : sequences[i].next <= sequences[i].last
    /\ ~torn =>
        /\ \A i \in DOMAIN sequences :
              /\ sequences[i].last = MetadataSequence(win).last
              /\ win.start <= sequences[i].next
              /\ i > 1 => sequences[i].next = win.start
        /\ sequences # <<>> => \A i \in Rows(win) :
              RegisterOf(win, i) < Head(sequences).next => win.label[i] # 0

MetadataInv == RefreshTracked /\ LabelsMatch /\ MetadataComplete /\ FlightInv /\ SequencesInv

RegisterInv == TypeOK /\ DeviceNeverWrites /\ EditingInv /\ MetadataInv

=============================================================================
