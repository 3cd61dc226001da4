------------------------------ MODULE BaseDialog ------------------------------
(***************************************************************************)
(* The life of a dialog, base_dialog.cpp: setupUi() when it is shown first *)
(* and window_closed when it is closed, by its close button, by Escape or  *)
(* by close().  QDialog turns the close event of a visible dialog into     *)
(* reject(), and Escape rejects without a close event.                     *)
(***************************************************************************)
EXTENDS Naturals

NewDialog ==
    [first_display |-> TRUE, emit_close |-> TRUE, visible |-> FALSE,
     setups |-> 0,   \* calls of setupUi(), each with window_first_display
     closes |-> 0]   \* emissions of window_closed

showEvent(d) ==
    IF d.first_display
    THEN [d EXCEPT !.first_display = FALSE, !.setups = @ + 1, !.visible = TRUE]
    ELSE [d EXCEPT !.visible = TRUE]

EmitClosed(d) ==
    IF d.emit_close THEN [d EXCEPT !.emit_close = FALSE, !.closes = @ + 1] ELSE d

\* The slot connected to rejected.
rejected(d) == [EmitClosed(d) EXCEPT !.visible = FALSE]

\* Mutant of closeEvent: it does not look at m_emit_close.
closeEvent_Again(d) ==
    LET hidden == IF d.visible THEN rejected(d) ELSE d
    IN  [hidden EXCEPT !.closes = @ + 1]

closeEvent(d) == EmitClosed(IF d.visible THEN rejected(d) ELSE d)

=============================================================================
