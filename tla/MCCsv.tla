-------------------------------- MODULE MCCsv --------------------------------
(***************************************************************************)
(* Instances of CsvRoundTrip.tla: exports of windows with and without      *)
(* metadata, rows of numbers without a header, and longer lists of coils   *)
(* and holding registers on either side of what can be written.            *)
(***************************************************************************)
EXTENDS CsvRoundTrip

\* A window at 40001 polled from node 3, after the metadata of its first rows.
Polled(raw, encodings) ==
    LET w == NewValues(NewWindow("holding", 40001, Len(raw), 3), 40001, raw, 3)
        described == FoldLeft(LAMBDA v, i : set_metadata(v, 40000 + i, 3, encodings[i]), w,
                              [i \in DOMAIN encodings |-> i])
    IN  NewValues(described, 40001, raw, 3)

WindowSet ==
    {Polled(raw, encodings) :
        raw \in {<<5, 65535>>, <<40001, 0>>},
        encodings \in UNION {[1..n -> {"NONE", "INT16", "BITS", "BYTES"}] : n \in 0..2}}
    \cup {NewWindow("holding", 40001, 2, 3)}

NumberRows == {[i \in 1..3 |-> Decimal(n[i])] : n \in [1..3 -> {7, 300, 40001, 70000}]}

HeaderRow == <<Text("value", <<>>), Text("register number", <<>>), Text("other", <<>>)>>

TargetRows ==
    {<<Decimal(r), Decimal(r % 7), Decimal(n)>> :
        r \in {9998, 9999, 10000, 40001, 40002, 40003}, n \in {1, 300}}

\* More consecutive coils than one write takes, for one node or another.
CoilRows == {[i \in 1..4 |-> <<Decimal(9995 + i), Decimal(i % 2), Decimal(n[i])>>] : n \in [1..4 -> {1, 300}]}

TableSet ==
    {save_register_set(w) : w \in WindowSet}
    \cup {<<a>> : a \in NumberRows} \cup {<<HeaderRow, a>> : a \in NumberRows}
    \cup {<<HeaderRow, <<Decimal(1)>>>>, <<<<Blank, Blank>>, <<Decimal(9998), Decimal(1)>>>>}
    \cup [1..3 -> TargetRows] \cup CoilRows
=============================================================================
