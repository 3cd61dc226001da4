----------------------------- MODULE CsvRoundTrip -----------------------------
(***************************************************************************)
(* What should come of the CSV files the program itself has written, and   *)
(* of any others.                                                          *)
(***************************************************************************)
EXTENDS CsvImport

CONSTANT Windows   \* register windows whose export is among the tables

ASSUME RoundTripAssumption ==
    \A w \in Windows :
        /\ save_register_set(w) \in Tables
        /\ w.count \in Nat /\ w.start \in Nat /\ w.start + w.count <= Word
        /\ w.node \in 0..(Byte - 1)
        /\ w.raw \in [Rows(w) -> Words] /\ w.encoding \in [Rows(w) -> Encodings]

Exports == {save_register_set(w) : w \in Windows}

Controls ==
    [headers : BOOLEAN, fixed : BOOLEAN, node : {0} \cup ImportNodes,
     use : [Columns -> BOOLEAN], role : [Columns -> DOMAIN Roles]]

Phases == {"opened", "preview", "loaded", "cancelled", "undefined"}
Bytewide == 0..(Byte - 1)

TypeOK ==
    /\ table \in Tables /\ phase \in Phases /\ controls \in Controls /\ edits \in 0..MaxEdits
    /\ emitted \in Seq([register : Words, value : Words, node : Bytewide])
    /\ writes \in Seq([first : Words, node : Bytewide, values : Seq(Words)])

\* What a window shows: a value is numeric unless metadata is still arriving.
Readable(w) ==
    \A i \in Rows(w) : w.text[i] = decode_register(w.raw[i], w.encoding[i]) /\
                       (w.have_metadata \/ w.encoding[i] \in Plain)

\* Loading the file of a window as it was understood tells every window, the one
\* that wrote it included, exactly the values it had.
RoundTrip ==
    phase = "loaded" /\ edits = MaxEdits =>
        \A w \in Windows : table = save_register_set(w) /\ Readable(w) =>
            emitted = [i \in Rows(w) |->
                          [register |-> RegisterOf(w, i), value |-> w.raw[i], node |-> w.node]]

Expanded(wr) ==
    [i \in DOMAIN wr.values |->
        [register |-> wr.first + i - 1, value |-> wr.values[i], node |-> wr.node]]

\* The device is asked to write the rows whose register can be written, each to
\* the register and the node it names or to the node of the spin box, once and in
\* the order of the file.
WritesExact ==
    phase = "loaded" =>
        LET rows == IF controls.headers THEN Tail(table) ELSE table
            named(row, role) == ToInt(row[FirstOf(InUse(role))])
            node(row) == IF controls.fixed THEN controls.node ELSE named(row, NodeId)
            asked(row) ==
                IF Writable(named(row, RegNumber))
                THEN <<[register |-> named(row, RegNumber), value |-> named(row, RegValue) % Word,
                        node |-> node(row) % Byte]>>
                ELSE <<>>
        IN  FlattenSeq([i \in DOMAIN writes |-> Expanded(writes[i])]) =
                FlattenSeq([i \in DOMAIN rows |-> asked(rows[i])])

\* No write is longer than its limit, and none could have been put at the end of
\* the one before.
WritesFit ==
    /\ \A i \in DOMAIN writes : Len(writes[i].values) \in 1..Limit(writes[i].first)
    /\ \A i \in 1..(Len(writes) - 1) :
          LET wr == writes[i]
          IN  \/ Len(wr.values) = Limit(writes[i + 1].first)
              \/ <<wr.first + Len(wr.values), wr.node>> # <<writes[i + 1].first, writes[i + 1].node>>

=============================================================================
