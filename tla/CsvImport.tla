------------------------------ MODULE CsvImport ------------------------------
(***************************************************************************)
(* Loading register data from a CSV file: the dialog that assigns roles to *)
(* columns (csv_importer.cpp) and what the main window does with the rows  *)
(* (mainwindow.cpp, load_csv_data and append_write).  Rows and columns are *)
(* counted from 1; a fixed node n is the node "column" -1 - n, as in the   *)
(* code, or a column's number.                                             *)
(***************************************************************************)
EXTENDS RegisterWindow, SequencesExt, FiniteSets

CONSTANTS
    Tables,       \* the files that may be opened: sequences of rows of texts
    ImportNodes,  \* what the user may select as fixed node
    MaxCoils,     \* the most values append_write() puts into one write: 0x7D0
    MaxHolding,   \* 127
    MaxEdits      \* bound: changes the user makes to what was found out

\* What QtCSV makes of a cell.
Cells == {c \in [form : STRING, numbers : Seq(Int)] : IsDecimal(c) => c.numbers # <<>>}

\* Register numbers are the real ones, so words are.
ASSUME ImportAssumption ==
    /\ Byte = 256
    /\ \A t \in Tables : t \in Seq(Seq(Cells)) /\ t # <<>> /\ t[1] # <<>>
    /\ ImportNodes \subseteq 0..255
    /\ {MaxCoils, MaxHolding} \subseteq Nat \ {0} /\ MaxEdits \in Nat

\* TestFields and m_options: the roles of columns, in the order of the combo
\* box, each with the header that announces it.
Roles == <<"register number", "value", "device id/node">>
RegNumber == 1
RegValue == 2
NodeId == 3
None == 0

VARIABLES
    table,     \* all_data
    phase,     \* "opened", "preview", "loaded", "cancelled" or "undefined"
    controls,  \* the dialog's check boxes, combo boxes and spin box
    edits,     \* how many changes the bound still allows
    config,    \* m_config
    emitted,   \* new_register_data, in the order of the rows
    writes     \* the requests handed to modbus_on_write_request()

vars == <<table, phase, controls, edits, config, emitted, writes>>

Columns == DOMAIN table[1]

\* m_test_text: missing cells are empty.
Cell(row, column) ==
    IF row \in DOMAIN table /\ column \in DOMAIN table[row] THEN table[row][column] ELSE Blank

Init ==
    /\ table \in Tables
    /\ phase = "opened"
    /\ controls = [headers |-> FALSE, fixed |-> FALSE, node |-> 0,
                   use |-> [c \in Columns |-> FALSE], role |-> [c \in Columns |-> RegNumber]]
    /\ edits = MaxEdits
    /\ config = <<>> /\ emitted = <<>> /\ writes = <<>>

-----------------------------------------------------------------------------
(* attempt_autoconfig(), run by a timer 160 ms after the dialog is shown.  *)

\* One to five digits.
IsNumber(text) == IsDecimal(text) /\ ToInt(text) \in 0..99999
StringsIn(row) == \E c \in Columns : ~IsNumber(Cell(row, c))
Candidates(row) == {c \in Columns : IsNumber(Cell(row, c)) /\ ToInt(Cell(row, c)) <= 65535}

FirstOf(columns) == IF columns = {} THEN None ELSE Min(columns)
LastOf(columns) == IF columns = {} THEN None ELSE Max(columns)

Titled(title) == {c \in Columns : Cell(1, c).form = title}

\* "Raw Value" takes the place of "Value", wherever it stands.
HeaderField(role) ==
    IF role = RegValue /\ Titled("raw value") # {}
    THEN LastOf(Titled("raw value"))
    ELSE FirstOf(Titled(Roles[role]))

HeadersInRow == \E role \in DOMAIN Roles : HeaderField(role) # None

\* The row whose numbers count: the first, unless it has headers or no numbers.
NumbersRow ==
    IF ~StringsIn(1) \/ (~HeadersInRow /\ Cardinality(Candidates(1)) >= 2) THEN 1 ELSE 2

\* Mutant of Fields: "Raw Value" does not take the place of "Value".
Fields_ShownValue ==
    [role \in DOMAIN Roles |-> FirstOf(Titled(Roles[role]))]

\* The column found for each role.  With three numbers the last small one is
\* the node, even if a header gave that column another role; the first numbers
\* that are left are the register and the value.
Fields ==
    LET numbers == Candidates(NumbersRow)
        int8 == LastOf({c \in numbers : ToInt(Cell(NumbersRow, c)) <= 255})
        node == IF HeaderField(NodeId) = None /\ Cardinality(numbers) > 2
                THEN int8 ELSE HeaderField(NodeId)
        free == numbers \ {HeaderField(RegNumber), HeaderField(RegValue), node}
        reg == IF HeaderField(RegNumber) = None THEN FirstOf(free) ELSE HeaderField(RegNumber)
        val == IF HeaderField(RegValue) = None THEN FirstOf(free \ {reg}) ELSE HeaderField(RegValue)
    IN  <<reg, val, node>>

\* The combo box of a column that was found for several roles shows the last.
attempt_autoconfig ==
    /\ phase = "opened"
    /\ phase' = "preview"
    /\ controls' =
          LET roles(c) == {role \in DOMAIN Roles : Fields[role] = c}
          IN  [controls EXCEPT
                  !.headers = HeadersInRow \/ NumbersRow = 2,
                  !.fixed = Fields[NodeId] = None,
                  !.use = [c \in Columns |-> roles(c) # {}],
                  !.role = [c \in Columns |-> IF roles(c) = {} THEN RegNumber ELSE Max(roles(c))]]
    /\ UNCHANGED <<table, edits, config, emitted, writes>>

-----------------------------------------------------------------------------
(* The user.                                                               *)

Edit(changed) ==
    /\ phase = "preview"
    /\ edits > 0 /\ edits' = edits - 1
    /\ controls' = changed
    /\ UNCHANGED <<table, phase, config, emitted, writes>>

CheckHeaders == Edit([controls EXCEPT !.headers = ~@])
CheckFixedNode == Edit([controls EXCEPT !.fixed = ~@])
SelectNode(node) == controls.fixed /\ Edit([controls EXCEPT !.node = node])

\* on_column_checked(): only a column in use has its combo box enabled.
on_column_checked(column) == Edit([controls EXCEPT !.use[column] = ~@])
SelectRole(column, role) ==
    controls.use[column] /\ Edit([controls EXCEPT !.role[column] = role])

Cancel ==
    /\ phase = "preview"
    /\ phase' = "cancelled"
    /\ UNCHANGED <<table, controls, edits, config, emitted, writes>>

\* append_write(): wr is the request being put together, done those before it.
NoWrite == [first |-> 0, node |-> 0, values |-> <<>>]
Limit(register) == IF register < 10000 THEN MaxCoils ELSE MaxHolding

\* Mutant of append_write: the node is not compared.
append_write_AnyNode(request, reg, value, node) ==
    LET wr == request.wr
    IN  IF \/ wr.values = <<>> \/ reg # wr.first + Len(wr.values)
           \/ Len(wr.values) >= Limit(reg)
        THEN [done |-> IF wr.values = <<>> THEN request.done ELSE Append(request.done, wr),
              wr |-> [first |-> reg, node |-> node, values |-> <<value>>]]
        ELSE [request EXCEPT !.wr.values = Append(@, value), !.wr.node = node]

\* Mutant of append_write: a full request takes one more.
append_write_OneMore(request, reg, value, node) ==
    LET wr == request.wr
    IN  IF \/ wr.values = <<>> \/ reg # wr.first + Len(wr.values) \/ node # wr.node
           \/ Len(wr.values) > Limit(reg)
        THEN [done |-> IF wr.values = <<>> THEN request.done ELSE Append(request.done, wr),
              wr |-> [first |-> reg, node |-> node, values |-> <<value>>]]
        ELSE [request EXCEPT !.wr.values = Append(@, value), !.wr.node = node]

append_write(request, reg, value, node) ==
    LET wr == request.wr
    IN  IF \/ wr.values = <<>> \/ reg # wr.first + Len(wr.values) \/ node # wr.node
           \/ Len(wr.values) >= Limit(reg)
        THEN [done |-> IF wr.values = <<>> THEN request.done ELSE Append(request.done, wr),
              wr |-> [first |-> reg, node |-> node, values |-> <<value>>]]
        ELSE [request EXCEPT !.wr.values = Append(@, value), !.wr.node = node]

Writable(regnum) == regnum \in 1..9999 \/ regnum \in 40001..49999

FixedNode(node_index) == (0 - node_index) - 1

\* Mutant of Narrowed: the numbers keep their size.
Narrowed_Not(regnum, value, node) == [register |-> regnum, value |-> value, node |-> node]

\* quint16 and quint8
Narrowed(regnum, value, node) ==
    [register |-> regnum % Word, value |-> value % Word, node |-> node % Byte]

\* load_csv_data(): a row is narrowed when it is emitted or written, but what
\* may be written is told from the number before.
DataRows(c) == IF c.skip_first_row THEN Tail(table) ELSE table

RowSays(c, row) ==
    Narrowed(ToInt(row[c.register]), ToInt(row[c.value]),
             IF c.node < 0 THEN FixedNode(c.node) ELSE ToInt(row[c.node]))

\* The requests put together from all rows: those handed over and the last.
Gathered(c) ==
    LET rows == DataRows(c)
        request[k \in 0..Len(rows)] ==
            IF k = 0 THEN [done |-> <<>>, wr |-> NoWrite]
            ELSE IF Writable(ToInt(rows[k][c.register]))
                 THEN LET row == RowSays(c, rows[k])
                      IN  append_write(request[k - 1], row.register, row.value, row.node)
                 ELSE request[k - 1]
    IN  request[Len(rows)]

load_csv_data(c) ==
    LET rows == DataRows(c)
        used == {c.register, c.value} \cup ({c.node} \cap Nat)
        request == Gathered(c)
    IN  IF \E i \in DOMAIN rows : ~(used \subseteq DOMAIN rows[i])
        THEN /\ phase' = "undefined"           \* QList::operator[] past the end
             /\ UNCHANGED <<emitted, writes>>
        ELSE /\ phase' = "loaded"
             /\ emitted' = [i \in DOMAIN rows |-> RowSays(c, rows[i])]
             /\ writes' = IF request.wr.values = <<>> THEN request.done
                                                      ELSE Append(request.done, request.wr)

\* The columns in use as role; on_ok_clicked() wants one for each, where a fixed
\* node counts as one for the node.
InUse(role) == {c \in Columns : controls.use[c] /\ controls.role[c] = role}

on_ok_clicked ==
    /\ phase = "preview"
    /\ Cardinality(InUse(RegNumber)) = 1 /\ Cardinality(InUse(RegValue)) = 1
    /\ Cardinality(InUse(NodeId)) = (IF controls.fixed THEN 0 ELSE 1)
    /\ config' = [register |-> FirstOf(InUse(RegNumber)), value |-> FirstOf(InUse(RegValue)),
                  node |-> IF controls.fixed THEN (0 - controls.node) - 1 ELSE FirstOf(InUse(NodeId)),
                  skip_first_row |-> controls.headers]
    /\ load_csv_data(config')
    /\ UNCHANGED <<table, controls, edits>>

Next ==
    \/ attempt_autoconfig
    \/ CheckHeaders \/ CheckFixedNode \/ \E node \in ImportNodes : SelectNode(node)
    \/ \E c \in Columns : on_column_checked(c) \/ \E role \in DOMAIN Roles : SelectRole(c, role)
    \/ on_ok_clicked \/ Cancel

Spec == Init /\ [][Next]_vars

=============================================================================
