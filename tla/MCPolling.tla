------------------------------ MODULE MCPolling ------------------------------
(* Instances of Polling for TLC. *)
EXTENDS Polling, TLC

CONSTANTS w1, w2, null

TwoWindows == {w1, w2}
NoWindows == {}
OneUnreadable == {w2}
OneWindow == {w1}

Careful == {"devid", "meta", "exit"}
WaitsForDeviceId == {"devid"}
Careless == {}

\* An illegal address is answered twice, so the posted signals can multiply.
ShortPosted == Len(posted) <= 3

WindowSymmetry == Permutations(TwoWindows)

=============================================================================
