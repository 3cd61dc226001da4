--------------------------------- MODULE Trend ---------------------------------
(***************************************************************************)
(* The trend window, trend_window.cpp, with its lines and its dialogs      *)
(* (configure_trend.cpp, configure_trend_line.cpp), fed by a scheduler     *)
(* that polls the same registers in the same order in every round.  A poll *)
(* may fail, and then delivers nothing.                                    *)
(*                                                                         *)
(* Time is counted in rounds: a column's time is the round it is added in. *)
(* Numbers are whole and small enough to be written and read back exactly. *)
(* Positions, colours and sizes on the screen are left out.                *)
(***************************************************************************)
EXTENDS TrendLine, FiniteSets, Functions

CONSTANTS
    NumKeys,        \* registers that are polled, in the order 1, 2, ...
    InitialPoints,  \* g_num_points
    MinPoints,      \* the least history the dialog accepts: 3
    PointChoices,   \* what the user may enter as history, as limits and for a line
    LimitChoices,
    LineChoices,
    MaxRounds,      \* bound: rounds of polling
    MaxClicks       \* bound: lines added, changed and removed, dialogs, sessions

ASSUME TrendAssumption ==
    /\ {NumKeys, InitialPoints, MinPoints} \subseteq Nat \ {0}
    /\ PointChoices \subseteq Nat
    /\ LimitChoices \subseteq Int \X Int
    /\ \A c \in LineChoices : {c.mult, c.offset} \subseteq Int /\ c.signed \in BOOLEAN
    /\ {MaxRounds, MaxClicks} \subseteq Nat

VARIABLES
    data,          \* m_data: the lines by key
    timestamps,    \* m_timestamps
    graphs,        \* m_plot->graphCount()
    fixed_limits, miny, maxy,
    dialog,        \* the limits the open "Configure Graph" dialog was given
    pending,       \* the lines load_configuration() leaves to its timer
    file,          \* the trend in the saved session
    round, position,       \* the poll that is due
    lag, edited, since, clicks  \* see Aged, OncePerRound and LimitsCover

axes == <<fixed_limits, miny, maxy>>
polling == <<round, position>>
vars == <<data, timestamps, graphs, axes, dialog, pending, file, polling, lag, edited, since, clicks>>

Keys == 1..NumKeys
NoDialog == <<>>
NoFile == [points |-> 0]
Nothing == <<>>

\* What the device has in a register in a round.
Reading(key, r) == (7 * r + 5 * key) % Word

Least(a, b) == IF a < b THEN a ELSE b
Greatest(a, b) == IF a > b THEN a ELSE b

NewTimestamps(points) == [i \in 1..points |-> i - 1 - points]

\* A new window to which the user has added some lines.
Init ==
    /\ timestamps = NewTimestamps(InitialPoints)
    /\ fixed_limits = FALSE /\ miny = 0 /\ maxy = 1
    /\ \E lines \in SUBSET Keys :
          /\ data = [k \in lines |-> TrendLine(InitialPoints)]
          /\ graphs = Greatest(1, Cardinality(lines))
    /\ dialog = NoDialog /\ pending = Nothing /\ file = NoFile
    /\ round = 1 /\ position = 1
    /\ lag = 0 /\ edited = {} /\ since = 0 /\ clicks = MaxClicks

-----------------------------------------------------------------------------
(* Values.                                                                 *)

\* The limits afterwards are the least and the greatest of them and of values.
Stretch(values) ==
    /\ \E low \in values \cup {miny} : (\A v \in values \cup {miny} : low <= v) /\ miny' = low
    /\ \E high \in values \cup {maxy} : (\A v \in values \cup {maxy} : v <= high) /\ maxy' = high

\* Mutant of update_min_max: the limits follow the value before it is scaled.
update_min_max_Raw(lines) ==
    IF fixed_limits
    THEN UNCHANGED <<miny, maxy>>
    ELSE Stretch({lines[k].last_value.v : k \in DOMAIN lines})

\* For every line, each in its turn.
update_min_max(lines) ==
    IF fixed_limits
    THEN UNCHANGED <<miny, maxy>>
    ELSE Stretch({Scaled(lines[k]) : k \in DOMAIN lines})

\* Mutant of scan: a column is added for every value.
scan_Always(lines) ==
    /\ timestamps' = Append(Tail(timestamps), round)
    /\ data' = [k \in DOMAIN lines |-> IF HasValue(lines[k]) THEN update(lines[k]) ELSE lines[k]]
    /\ update_min_max(lines)

\* Nothing happens until every line has a value.
scan(lines) ==
    IF \A k \in DOMAIN lines : HasValue(lines[k])
    THEN /\ timestamps' = Append(Tail(timestamps), round)
         /\ data' = [k \in DOMAIN lines |-> update(lines[k])]
         /\ update_min_max(lines)
    ELSE data' = lines /\ UNCHANGED <<timestamps, miny, maxy>>

on_new_value(key) ==
    IF key \in DOMAIN data
    THEN scan([data EXCEPT ![key] = set_data(@, Reading(key, round), round)])
    ELSE UNCHANGED <<data, timestamps, miny, maxy>>

\* The poll that is due is over.
Polled ==
    IF position < NumKeys
    THEN position' = position + 1 /\ UNCHANGED round
    ELSE position' = 1 /\ round' = round + 1

Value ==
    /\ round <= MaxRounds
    /\ on_new_value(position)
    /\ Polled
    /\ UNCHANGED <<graphs, fixed_limits, dialog, pending, file, lag, edited, since, clicks>>

Fails ==
    /\ round <= MaxRounds
    /\ lag' = lag + 1
    /\ Polled
    /\ UNCHANGED <<data, timestamps, graphs, axes, dialog, pending, file, edited, since, clicks>>

-----------------------------------------------------------------------------
(* The user.  A dialog is modal: while it is open values still arrive.     *)

\* Nobody clicks in the 160 ms between load_configuration() and its timer.
Click ==
    /\ dialog = NoDialog /\ pending = Nothing
    /\ clicks > 0 /\ clicks' = clicks - 1

\* Lines changed in the middle of a round.
Disturb ==
    /\ lag' = IF position = 1 THEN lag ELSE Greatest(lag, 1)
    /\ edited' = edited \cup {round}

\* add_trend() for each of them.
add_trend(lines) ==
    /\ data' = [k \in DOMAIN lines \cup DOMAIN data |->
                  IF k \in DOMAIN lines THEN lines[k] ELSE data[k]]
    /\ graphs' = Greatest(graphs, Cardinality(DOMAIN data'))

\* on_add_button_clicked() and create_trend(); the dialog refuses a duplicate.
AddLine(key, choice) ==
    /\ Click
    /\ key \notin DOMAIN data
    /\ add_trend([k \in {key} |-> configure(TrendLine(Len(timestamps)), choice.mult,
                                              choice.offset, choice.signed)])
    /\ Disturb
    /\ UNCHANGED <<timestamps, axes, dialog, pending, file, polling, since>>

\* ConfigureTrendLine::on_Accept_pressed()
ConfigureLine(key, choice) ==
    /\ Click
    /\ key \in DOMAIN data
    /\ data' = [data EXCEPT ![key] = configure(@, choice.mult, choice.offset, choice.signed)]
    /\ UNCHANGED <<timestamps, graphs, axes, dialog, pending, file, polling, lag, edited, since>>

\* Mutant of remove_trend: the graph goes with the last line, too.
remove_trend_Graph(key) ==
    /\ data' = Restrict(data, DOMAIN data \ {key})
    /\ graphs' = graphs - 1

remove_trend(key) ==
    /\ data' = Restrict(data, DOMAIN data \ {key})
    /\ graphs' = IF graphs > 1 THEN graphs - 1 ELSE graphs

\* ConfigureTrendLine::on_Delete_pressed()
DeleteLine(key) ==
    /\ Click
    /\ key \in DOMAIN data
    /\ remove_trend(key)
    /\ Disturb
    /\ UNCHANGED <<timestamps, axes, dialog, pending, file, polling, since>>

\* The oldest times are dropped, or earlier ones are put before them.
ResizedTimes(times, points) ==
    LET kept == SubSeq(times, Greatest(Len(times) - points, 0) + 1, Len(times))
        missing == points - Len(kept)
    IN  [i \in 1..missing |-> kept[1] - (missing + 1 - i)] \o kept

\* The lines forget their values.
resize_history(points) ==
    /\ timestamps' = ResizedTimes(timestamps, points)
    /\ data' = [k \in DOMAIN data |-> resize(data[k], points)]

\* on_configure_triggered(): the dialog shows the limits of now.
OpenConfigure ==
    /\ Click
    /\ dialog' = <<miny, maxy>>
    /\ UNCHANGED <<data, timestamps, graphs, axes, pending, file, polling, lag, edited, since>>

\* ConfigureTrend::accept() and what on_configure_triggered() does then.
AcceptConfigure(limits, points, fixed) ==
    /\ dialog # NoDialog
    /\ limits[1] < limits[2] /\ points >= MinPoints
    /\ dialog' = NoDialog
    /\ fixed_limits' = fixed /\ miny' = limits[1] /\ maxy' = limits[2]
    /\ IF points = Len(timestamps) THEN UNCHANGED <<data, timestamps>> ELSE resize_history(points)
    /\ since' = round
    /\ UNCHANGED <<graphs, pending, file, polling, lag, edited, clicks>>

CancelConfigure ==
    /\ dialog # NoDialog
    /\ dialog' = NoDialog
    /\ UNCHANGED <<data, timestamps, graphs, axes, pending, file, polling, lag, edited, since, clicks>>

-----------------------------------------------------------------------------
(* The trend in a session.                                                 *)

save_configuration ==
    [points |-> Len(timestamps), fixed |-> fixed_limits, min |-> miny, max |-> maxy,
     lines |-> [k \in DOMAIN data |->
                   [mult |-> data[k].mult, offset |-> data[k].offset, signed |-> data[k].signed]]]

SaveSession ==
    /\ Click
    /\ file' = save_configuration
    /\ UNCHANGED <<data, timestamps, graphs, axes, dialog, pending, polling, lag, edited, since>>

\* Mutant of load_configuration: the limits are those of a new window.
load_configuration_Limits ==
    /\ Click
    /\ file # NoFile
    /\ data' = <<>> /\ graphs' = 1
    /\ timestamps' = ResizedTimes(NewTimestamps(InitialPoints), file.points)
    /\ fixed_limits' = file.fixed /\ miny' = 0 /\ maxy' = 1
    /\ pending' = <<[k \in DOMAIN file.lines |->
                        configure(TrendLine(file.points), file.lines[k].mult,
                                  file.lines[k].offset, file.lines[k].signed)]>>
    /\ since' = round
    /\ UNCHANGED <<dialog, file, polling, lag, edited>>

\* A new window takes over the saved one.  The lines are made now and wait for
\* a timer to be added.
load_configuration ==
    /\ Click
    /\ file # NoFile
    /\ data' = <<>> /\ graphs' = 1
    /\ timestamps' = ResizedTimes(NewTimestamps(InitialPoints), file.points)
    /\ fixed_limits' = file.fixed /\ miny' = file.min /\ maxy' = file.max
    /\ pending' = <<[k \in DOMAIN file.lines |->
                        configure(TrendLine(file.points), file.lines[k].mult,
                                  file.lines[k].offset, file.lines[k].signed)]>>
    /\ since' = round
    /\ UNCHANGED <<dialog, file, polling, lag, edited>>

LoadTimer ==
    /\ pending # Nothing
    /\ add_trend(pending[1])
    /\ pending' = Nothing
    /\ Disturb
    /\ UNCHANGED <<timestamps, axes, dialog, file, polling, since, clicks>>

-----------------------------------------------------------------------------

Next ==
    \/ Value \/ Fails
    \/ \E key \in Keys : DeleteLine(key) \/ \E choice \in LineChoices :
          AddLine(key, choice) \/ ConfigureLine(key, choice)
    \/ OpenConfigure \/ CancelConfigure
    \/ \E limits \in LimitChoices \cup {dialog}, points \in PointChoices, fixed \in BOOLEAN :
          AcceptConfigure(limits, points, fixed)
    \/ SaveSession \/ load_configuration \/ LoadTimer

Spec == Init /\ [][Next]_vars

-----------------------------------------------------------------------------

Lines == DOMAIN data
Columns == DOMAIN timestamps

\* What column i of line k shows, the reading and its round.
Cell(k, i) == At(data[k], i - 1)

TypeOK ==
    /\ Lines \subseteq Keys
    /\ \A k \in Lines : data[k].next_index \in 0..(data[k].num_points - 1)
    /\ graphs \in Nat
    /\ fixed_limits \in BOOLEAN
    /\ {miny, maxy} \subseteq Int /\ miny < maxy
    /\ \A i \in Columns : timestamps[i] \in Int
    /\ round \in 1..(MaxRounds + 1) /\ position \in Keys
    /\ lag \in Nat /\ since \in 0..round

\* redraw_graph() finds a value for every time of every line and a graph for
\* every line, and one more for none.
Redrawable ==
    /\ \A k \in Lines : /\ data[k].num_points = Len(timestamps)
                        /\ DOMAIN data[k].history = 0..(Len(timestamps) - 1)
    /\ graphs = Greatest(1, Cardinality(Lines))

\* "The trend will be updated once for each set of registers polled" (README.md):
\* no two columns are from one round, however polls fail, as long as the lines
\* stay the same during it.
OncePerRound ==
    \A i, j \in Columns : i < j =>
        \/ timestamps[i] < timestamps[j]
        \/ timestamps[i] = timestamps[j] /\ timestamps[i] \in edited

\* The readings of one column are of one round if no poll has failed and no line
\* came or went in the middle of a round; one round apart if only that has
\* happened; and each failed poll may add one more.
Aged ==
    \A k \in Lines, i \in Columns :
        LET r == Cell(k, i).round
        IN  r # 0 => r \in (timestamps[i] - lag)..timestamps[i]

\* The vertical axis covers what was recorded since its limits were set, unless
\* they are fixed.
LimitsCover ==
    ~fixed_limits => \A k \in Lines, i \in Columns :
        Cell(k, i).round # 0 /\ timestamps[i] > since => Cell(k, i).v \in miny..maxy

\* The window a session restores would be saved alike.
RestoresAlike == [][pending # Nothing /\ pending' = Nothing => save_configuration' = file]_vars

-----------------------------------------------------------------------------
(* The inductive invariant behind the safety properties.                   *)

Sizes == (PointChoices \cup {InitialPoints}) \ {0}

\* The lines of a trend of n columns.
Readings == [round : Nat, v : Int]

RingLines(n) ==
    {line \in [num_points : {n}, signed : BOOLEAN, mult : Int, offset : Int,
               history : [0..(n - 1) -> Readings], last_value : Readings,
               next_index : 0..(n - 1)] :
        HasValue(line) <=> line.last_value.round # 0}

SavedLines == [mult : Int, offset : Int, signed : BOOLEAN]

\* saved is what save_configuration writes.
SavedTrend(saved) ==
    /\ saved = [points |-> saved.points, fixed |-> saved.fixed, min |-> saved.min,
                max |-> saved.max, lines |-> saved.lines]
    /\ saved.points \in Sizes /\ saved.fixed \in BOOLEAN
    /\ {saved.min, saved.max} \subseteq Int /\ saved.min < saved.max
    /\ DOMAIN saved.lines \subseteq Keys
    /\ saved.lines \in [DOMAIN saved.lines -> SavedLines]

ContentsInv ==
    /\ TypeOK
    /\ timestamps \in Seq(Int) /\ Len(timestamps) \in Sizes
    /\ data \in [Lines -> RingLines(Len(timestamps))]
    /\ graphs = Greatest(1, Cardinality(Lines))
    /\ dialog = NoDialog \/ dialog \in Int \X Int
    /\ file = NoFile \/ SavedTrend(file)

\* Until the timer of load_configuration() the window is the saved one but for
\* its lines, and those wait.
PendingInv ==
    pending # Nothing =>
        /\ file # NoFile /\ Lines = {} /\ dialog = NoDialog
        /\ Len(timestamps) = file.points
        /\ fixed_limits = file.fixed /\ miny = file.min /\ maxy = file.max
        /\ pending = <<[k \in DOMAIN file.lines |->
                          configure(TrendLine(file.points), file.lines[k].mult,
                                    file.lines[k].offset, file.lines[k].signed)]>>

\* A value that waits for the others ages by at most one round for each poll
\* that failed; just polled, it is one younger.  If nothing ever went wrong the
\* lines polled so far in a round have a value until the last line has been.
WaitingInv ==
    \A k \in Lines :
        /\ HasValue(data[k]) =>
              /\ data[k].last_value.round \in (round - lag)..round
              /\ k < position => data[k].last_value.round >= round - Greatest(lag - 1, 0)
        /\ lag = 0 =>
              (HasValue(data[k]) <=> k < position /\ \E other \in Lines : position <= other)

\* After the column of a round some line has been polled and waits again, so
\* the round has no second one.
ColumnsInv ==
    \A i \in Columns :
        /\ timestamps[i] <= round
        /\ timestamps[i] = round =>
              round \in edited \/ \E k \in Lines : k < position /\ ~HasValue(data[k])

TrendInv ==
    /\ ContentsInv /\ PendingInv /\ WaitingInv /\ ColumnsInv
    /\ Aged /\ OncePerRound /\ LimitsCover

-----------------------------------------------------------------------------

\* Every line shows what a plain list of its readings would, and the ring
\* buffers of the lines turn together.
History == INSTANCE TrendHistory WITH
    Sizes <- PointChoices \cup {InitialPoints},
    Rounds <- 1..MaxRounds,
    size <- Len(timestamps),
    shown <- [k \in Lines |-> [i \in Columns |-> Cell(k, i).round]],
    fresh <- [k \in Lines |-> data[k].last_value.round]

Implements == History!Spec

=============================================================================
