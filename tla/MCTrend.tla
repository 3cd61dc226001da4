-------------------------------- MODULE MCTrend --------------------------------
(***************************************************************************)
(* Instances of Trend.tla: histories of two and three columns, so that the *)
(* rings turn, two or three polled registers, values of 16 bits cut to 4.  *)
(***************************************************************************)
EXTENDS Trend

LimitSet == {<<-1, 3>>}
LineSet == {[mult |-> 1, offset |-> 0, signed |-> TRUE],
            [mult |-> -2, offset |-> 3, signed |-> FALSE]}
=============================================================================
