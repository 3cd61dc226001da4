---------------------------- MODULE RegisterWindow ----------------------------
(***************************************************************************)
(* One register window: register_display.cpp and the three classes that    *)
(* override its widgets.  The window is a record; a handler is an operator *)
(* from the window before to the window after it.  Handlers run in the GUI *)
(* thread, so each is one step; RegisterPolling.tla makes them actions and *)
(* adds the scheduler the window talks to.                                 *)
(*                                                                         *)
(* Rows are counted from 1 where the code counts indices from 0.  A row's  *)
(* widget captures the index its slots are called with when it is created: *)
(* index[i], which setupUi() and on_apply_clicked() do not choose alike.   *)
(***************************************************************************)
EXTENDS RegisterData

CONSTANTS
    Kinds,        \* which classes the window may be of, a subset of AllKinds
    LastRegister, \* the start register's spin box goes from 1 to this
    MaxCount,     \* m_max_regs, the upper limit of the quantity's spin box
    Nodes         \* the values of the node's spin box

\* CoilsDisplay, InputsDisplay, RegisterDisplay (input registers) and
\* HoldingRegisterDisplay
AllKinds == {"coils", "inputs", "registers", "holding"}

ASSUME WindowAssumption ==
    /\ Kinds \subseteq AllKinds
    /\ {LastRegister, MaxCount} \subseteq Nat \ {0}
    /\ Nodes \subseteq Nat

\* Registers a window may show.  Numbers count from 1 inside the window's type.
Registers == 1..(LastRegister + MaxCount - 1)

NoRow == 0
Rows(w) == 1..w.count
RegisterOf(w, i) == w.start + i - 1

\* What create_value_widget() shows first: a check box is unchecked.
NewText(kind) == IF kind = "coils" THEN Decimal(0) ELSE Blank

\* The constructor and setupUi().
NewWindow(kind, start, count, node) ==
    [kind |-> kind, start |-> start, count |-> count, node |-> node,
     node_select |-> node,                              \* m_node_select->value()
     raw |-> [i \in 1..count |-> 0],                    \* m_raw_values
     encoding |-> [i \in 1..count |-> "NONE"],          \* m_register_encoding
     text |-> [i \in 1..count |-> NewText(kind)],       \* m_register_values
     index |-> [i \in 1..count |-> i],                  \* as captured by them
     label |-> [i \in 1..count |-> 0],                  \* m_register_descriptions: whose
     have_metadata |-> FALSE, meta_in_process |-> FALSE,
     active_index |-> NoRow,                            \* m_active_index
     timer |-> FALSE,                                   \* m_activity_timer is active
     focus |-> NoRow,                                   \* the row with the keyboard focus
     remote_state |-> [r \in Registers |-> FALSE],      \* m_remote_state
     writes |-> <<>>,                                   \* write_requested, emitted
     undefined |-> FALSE]                               \* an index went past the rows

-----------------------------------------------------------------------------
(* Values from the device.                                                 *)

\* Emission of write_requested; by tells what called the slot.
EmitWrite(w, i, value, by) ==
    [w EXCEPT !.writes = Append(@, [register |-> RegisterOf(w, i), value |-> value, by |-> by])]

\* Runs for every change of a check box, whoever changed it.  Asking the map
\* for an unknown register makes it FALSE there.
on_checkbox_checked(w, i, by) ==
    IF i \notin Rows(w)
    THEN [w EXCEPT !.undefined = TRUE]
    ELSE LET checked == ToInt(w.text[i])
         IN  IF w.remote_state[RegisterOf(w, i)] # (checked = 1)
             THEN EmitWrite(w, i, checked, by)
             ELSE w

\* setChecked(): the slot is called only if the state changes.
SetChecked(w, i, checked, by) ==
    IF w.text[i] = Decimal(checked)
    THEN w
    ELSE on_checkbox_checked([w EXCEPT !.text[i] = Decimal(checked)], w.index[i], by)

IsOn(value) == IF value > 0 THEN 1 ELSE 0

\* Mutant of updateRegisterValue: the check box is set before m_remote_state.
updateRegisterValue_BoxFirst(w, i) ==
    LET on == IsOn(w.raw[i])
    IN  CASE w.kind = "coils" ->
               [SetChecked(w, i, on, "device") EXCEPT !.remote_state[RegisterOf(w, i)] = (on = 1)]
          [] w.kind = "inputs" -> [w EXCEPT !.text[i] = Decimal(on)]
          [] w.kind = "holding" /\ w.timer /\ w.active_index = i -> w
          [] OTHER -> [w EXCEPT !.text[i] = decode_register(w.raw[i], w.encoding[i])]

\* Mutant of updateRegisterValue: a row being edited is overwritten.
updateRegisterValue_Overwrites(w, i) ==
    LET on == IsOn(w.raw[i])
    IN  CASE w.kind = "coils" ->
               SetChecked([w EXCEPT !.remote_state[RegisterOf(w, i)] = (on = 1)], i, on, "device")
          [] w.kind = "inputs" -> [w EXCEPT !.text[i] = Decimal(on)]
          [] OTHER -> [w EXCEPT !.text[i] = decode_register(w.raw[i], w.encoding[i])]

\* The four overrides.  CoilsDisplay notes the device's state before it sets
\* the check box; HoldingRegisterDisplay leaves a row alone that is edited.
updateRegisterValue(w, i) ==
    LET on == IsOn(w.raw[i])
    IN  CASE w.kind = "coils" ->
               SetChecked([w EXCEPT !.remote_state[RegisterOf(w, i)] = (on = 1)], i, on, "device")
          [] w.kind = "inputs" -> [w EXCEPT !.text[i] = Decimal(on)]
          [] w.kind = "holding" /\ w.timer /\ w.active_index = i -> w
          [] OTHER -> [w EXCEPT !.text[i] = decode_register(w.raw[i], w.encoding[i])]

\* on_new_value() for a register that is not the system register.
on_new_value(w, register, value, unit_id) ==
    LET i == register - w.start + 1
    IN  IF unit_id = w.node /\ i \in Rows(w)
        THEN updateRegisterValue([w EXCEPT !.raw[i] = value], i)
        ELSE w

\* modbus_on_data(): the registers of an answer, one after the other.
NewValues(w, first, values, unit_id) ==
    LET after[k \in 0..Len(values)] ==
            IF k = 0 THEN w ELSE on_new_value(after[k - 1], first + k - 1, values[k], unit_id)
    IN  after[Len(values)]

\* on_new_value() of the system register, SYSTEM_CONNECTED or _DISCONNECTED.
on_system_event(w, connected) == [w EXCEPT !.meta_in_process = FALSE]

\* The window's own request failed: m_meta_in_process is cleared whichever it was.
on_exception_status(w) == [w EXCEPT !.meta_in_process = FALSE]

\* poll_register_set(): the node asked is the one in the spin box.
poll_register_set(w) ==
    [kind |-> "read", first |-> w.start, count |-> w.count, node |-> w.node_select]

\* Mutant of set_metadata: the answer for the last row leaves the flag set.
set_metadata_NeverDone(w, register, node, encoding) ==
    LET i == register - w.start + 1
    IN  IF node = w.node /\ i \in Rows(w)
        THEN [w EXCEPT !.label[i] = register, !.encoding[i] = encoding,
                       !.have_metadata = (@ \/ i = w.count)]
        ELSE [w EXCEPT !.meta_in_process = FALSE]

\* Mutant of set_metadata: metadata is there from the first answer on.
set_metadata_AtOnce(w, register, node, encoding) ==
    LET i == register - w.start + 1
    IN  IF node = w.node /\ i \in Rows(w)
        THEN [w EXCEPT !.label[i] = register, !.encoding[i] = encoding,
                       !.meta_in_process = (@ /\ i # w.count),
                       !.have_metadata = TRUE]
        ELSE [w EXCEPT !.meta_in_process = FALSE]

set_metadata(w, register, node, encoding) ==
    LET i == register - w.start + 1
    IN  IF node = w.node /\ i \in Rows(w)
        THEN [w EXCEPT !.label[i] = register, !.encoding[i] = encoding,
                       !.meta_in_process = (@ /\ i # w.count),
                       !.have_metadata = (@ \/ i = w.count)]
        ELSE [w EXCEPT !.meta_in_process = FALSE]

-----------------------------------------------------------------------------
(* The user's clicks.                                                      *)

\* The rows of new, with what those that stay had before.
Resized(old, new) == [i \in DOMAIN new |-> IF i \in DOMAIN old THEN old[i] ELSE new[i]]

\* Mutant of on_apply_clicked: m_raw_values is not resized.
on_apply_clicked_RawKept(w, start, count) ==
    [w EXCEPT !.start = start, !.count = count,
              !.encoding = [i \in 1..count |-> "NONE"],
              !.text = Resized(@, [i \in 1..count |-> NewText(w.kind)]),
              !.index = Resized(@, [i \in 1..count |-> i + 1]),
              !.label = [i \in 1..count |-> 0],
              !.have_metadata = FALSE, !.meta_in_process = FALSE]

\* Mutant of on_apply_clicked: the descriptions stay.
on_apply_clicked_LabelsKept(w, start, count) ==
    [w EXCEPT !.start = start, !.count = count,
              !.raw = Resized(@, [i \in 1..count |-> 0]),
              !.encoding = [i \in 1..count |-> "NONE"],
              !.text = Resized(@, [i \in 1..count |-> NewText(w.kind)]),
              !.index = Resized(@, [i \in 1..count |-> i + 1]),
              !.label = Resized(@, [i \in 1..count |-> 0]),
              !.have_metadata = FALSE, !.meta_in_process = FALSE]

\* Rows are dropped from or added at the end, those that stay keep widget and
\* text.  A new widget is created when m_count has been incremented already.
\* m_node keeps its value.
on_apply_clicked(w, start, count) ==
    [w EXCEPT !.start = start, !.count = count,
              !.raw = Resized(@, [i \in 1..count |-> 0]),
              !.encoding = [i \in 1..count |-> "NONE"],
              !.text = Resized(@, [i \in 1..count |-> NewText(w.kind)]),
              !.index = Resized(@, [i \in 1..count |-> i + 1]),
              !.label = [i \in 1..count |-> 0],
              !.have_metadata = FALSE, !.meta_in_process = FALSE]

\* The sequence on_refresh_clicked() asks for, unless one is in process.
MetadataSequence(w) == [next |-> w.start, last |-> w.start + w.count - 1]

on_refresh_clicked(w) == [w EXCEPT !.have_metadata = FALSE, !.meta_in_process = TRUE]

\* The user toggles the check box of row i.
ToggleCheckbox(w, i) == SetChecked(w, i, 1 - ToInt(w.text[i]), "user")

\* Mutant of on_register_editingFinished: the idle timer is not stopped and
\* the row stays the active one.
on_register_editingFinished_Active(w, i) ==
    IF i \in Rows(w) THEN w ELSE [w EXCEPT !.undefined = TRUE]

on_register_editingFinished(w, i) ==
    IF i \in Rows(w)
    THEN [w EXCEPT !.active_index = NoRow, !.timer = FALSE]
    ELSE [w EXCEPT !.undefined = TRUE]

\* The focus leaves the row that has it.
FocusLeaves(w) == [on_register_editingFinished(w, w.index[w.focus]) EXCEPT !.focus = NoRow]

\* The user has typed text into row i: the slot gets the row's captured index.
on_register_textEdited(w, i, text) ==
    IF w.index[i] \in Rows(w)
    THEN [w EXCEPT !.text[i] = text, !.focus = i, !.active_index = w.index[i], !.timer = TRUE]
    ELSE [w EXCEPT !.undefined = TRUE]

\* Return in row i: the editing ends, then the row of the captured index is
\* read and written.  The result depends on what a text may be read as.
on_register_returnPressed(w, i) ==
    LET k == w.index[i]
        done == [on_register_editingFinished(w, k) EXCEPT !.focus = i]
    IN  IF k \notin Rows(w)
        THEN {done}
        ELSE {IF values = NotParsed THEN done ELSE EmitWrite(done, k, values[1], "user") :
                 values \in encode_register(w.text[k], w.encoding[k])}

on_timer_expired(w) ==
    LET fired == [w EXCEPT !.timer = FALSE]
    IN  IF w.active_index = NoRow THEN fired
                                  ELSE on_register_editingFinished(fired, w.active_index)

\* save_register_set()
save_register_set(w) ==
    <<ExportHeader(w.have_metadata)>> \o
    [i \in Rows(w) |->
        ExportRow(w.have_metadata, RegisterOf(w, i), w.text[i], w.node, w.raw[i], w.encoding[i])]

=============================================================================
