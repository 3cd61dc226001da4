----------------------------- MODULE MCRegisters -----------------------------
(***************************************************************************)
(* Instances of RegisterPolling.tla: bytes of four values, windows of up   *)
(* to two rows over registers 1 to 3, an ordinary value and one with its   *)
(* sign bits set.                                                          *)
(***************************************************************************)
EXTENDS RegisterPolling, TLC

EncodingMap == (1 :> "INT16") @@ (2 :> "BITS") @@ (3 :> "BYTES")
TypedSet == {Decimal(2)}
=============================================================================
