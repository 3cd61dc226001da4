------------------------------ MODULE MCSession ------------------------------
(***************************************************************************)
(* An instance of Session.tla: windows of coils, applied up to the last    *)
(* register; a port that is none; and a file in which somebody has written *)
(* an element of no class, a register window that shows coils up to the    *)
(* last register but one, one that begins between the ranges, and a window *)
(* that is refused because it begins just before its range.                *)
(***************************************************************************)
EXTENDS Session

AppliedSet == {[start |-> 9998, count |-> 2]}
SettingsSet == {[timeout |-> 3000, port |-> 502], [timeout |-> 500, port |-> 0]}

Element(kind, start) ==
    [kind |-> kind, start |-> start, count |-> 2, node |-> 1, max |-> MaxRegs(start)]

SpoiltSet ==
    {Element("other", 1), Element("RegisterDisplay", 9997), Element("RegisterDisplay", 10000),
     Element("HoldingRegisterDisplay", 40000)}
=============================================================================
