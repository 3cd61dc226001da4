------------------------------- MODULE TrendLine -------------------------------
(***************************************************************************)
(* A line of a trend, trend_line.cpp: the last value received and a ring   *)
(* buffer of the values on display.  A cell of the ring holds the value    *)
(* and the round of polling it comes from.                                 *)
(***************************************************************************)
EXTENDS RegisterData

NoValue == [round |-> 0, v |-> 0]

TrendLine(points) ==
    [num_points |-> points, signed |-> TRUE, mult |-> 1, offset |-> 0,
     history |-> [i \in 0..(points - 1) |-> NoValue],
     last_value |-> NoValue, next_index |-> 0]

configure(line, m, b, set_signed) ==
    [line EXCEPT !.mult = m, !.offset = b, !.signed = set_signed]

set_data(line, value, round) ==
    [line EXCEPT !.last_value =
        [round |-> round, v |-> IF line.signed THEN Signed(value, Word) ELSE value]]

\* operator bool
HasValue(line) == line.last_value # NoValue

Scaled(line) == line.last_value.v * line.mult + line.offset

\* Mutant of update: the value stays to be recorded again.
update_Again(line) ==
    [line EXCEPT !.history[line.next_index] = [line.last_value EXCEPT !.v = Scaled(line)],
                 !.next_index = (@ + 1) % line.num_points]

\* Mutant of update: the index wraps one cell late.
update_LateWrap(line) ==
    [line EXCEPT !.history[line.next_index] = [line.last_value EXCEPT !.v = Scaled(line)],
                 !.next_index = (@ + 1) % (line.num_points + 1),
                 !.last_value = NoValue]

update(line) ==
    [line EXCEPT !.history[line.next_index] = [line.last_value EXCEPT !.v = Scaled(line)],
                 !.next_index = (@ + 1) % line.num_points,
                 !.last_value = NoValue]

\* Mutant of At: the ring is shown as it is stored.
At_AsStored(line, index) == line.history[index]

\* operator[]
At(line, index) ==
    LET array_index == line.next_index + index
    IN  line.history[IF array_index >= line.num_points
                     THEN array_index - line.num_points ELSE array_index]

\* m_last_value stays.
resize(line, new_size) ==
    [line EXCEPT !.next_index = 0, !.num_points = new_size,
                 !.history = [i \in 0..(new_size - 1) |-> [round |-> 0, v |-> line.offset]]]

=============================================================================
