----------------------------- MODULE RegisterData -----------------------------
(***************************************************************************)
(* Register values and their texts: what a register window shows, what the *)
(* user types over it and what stands in the cells of a CSV file.          *)
(*                                                                         *)
(* A text is a form and the numbers it is made of; it is never put         *)
(* together from characters.                                               *)
(***************************************************************************)
EXTENDS Integers, Sequences

CONSTANT
    Byte   \* the number of values of a byte: 256

ASSUME ByteAssumption == Byte \in Nat \ {0} /\ Byte % 2 = 0

Word == Byte * Byte
Words == 0..(Word - 1)

\* RegisterEncoding
Encodings ==
    {"NONE", "UINT16", "INT16", "SIGNED_BYTES", "BYTES", "BITS", "USER", "UNKNOWN"}

Plain == {"NONE", "UINT16", "USER", "UNKNOWN"}
Bytes == {"SIGNED_BYTES", "BYTES"}

\* "dec": a decimal number; "hex": 0x and a hexadecimal one; "pair": two
\* numbers with a comma between them; any other form is a word that is no
\* number.
Text(form, numbers) == [form |-> form, numbers |-> numbers]

Decimal(n) == Text("dec", <<n>>)
Blank == Text("", <<>>)

IsDecimal(text) == text.form = "dec"

\* QString::toInt(), 0 for what is no decimal number.
ToInt(text) == IF IsDecimal(text) THEN text.numbers[1] ELSE 0

\* A number below size as two's complement.
Signed(n, size) == IF n >= size \div 2 THEN n - size ELSE n

\* Mutant of decode_register: a signed word keeps its magnitude.
decode_register_Magnitude(value, encoding) ==
    IF encoding = "INT16" /\ value > Word \div 2
    THEN Decimal((Word \div 2) - value)
    ELSE Decimal(value)

decode_register(value, encoding) ==
    CASE encoding \in Plain -> Decimal(value)
      [] encoding = "BITS" -> Text("hex", <<value>>)
      [] encoding = "INT16" -> Decimal(Signed(value, Word))
      [] encoding = "BYTES" -> Text("pair", <<value \div Byte, value % Byte>>)
      [] encoding = "SIGNED_BYTES" ->
            Text("pair", <<Signed(value \div Byte, Byte), Signed(value % Byte, Byte)>>)

NotParsed == <<>>

\* What may come of it when the first two characters of a text that is not
\* "0x..." are dropped and the rest is read as a hexadecimal number.
Misread == {NotParsed} \cup {<<v>> : v \in Words}

\* The values that may be written for text.  Numbers are narrowed to 16 bits;
\* of the byte encodings oka and okb are never set, so nothing is accepted.
encode_register(text, encoding) ==
    CASE encoding \in Plain \cup {"INT16"} ->
            {IF IsDecimal(text) THEN <<ToInt(text) % Word>> ELSE NotParsed}
      [] encoding = "BITS" ->
            IF text.form = "hex" THEN {<<text.numbers[1] % Word>>} ELSE Misread
      [] encoding \in Bytes -> {NotParsed}

\* save_register_set(): the columns of the file and a row of it.
ExportHeader(have_metadata) ==
    LET words == IF have_metadata
                 THEN <<"register number", "label", "value", "device id/node", "raw value",
                        "encoding">>
                 ELSE <<"register number", "value", "device id/node">>
    IN  [i \in DOMAIN words |-> Text(words[i], <<>>)]

ExportRow(have_metadata, register, text, node, raw, encoding) ==
    IF have_metadata
    THEN <<Decimal(register), Text("label", <<>>), text, Decimal(node), Decimal(raw),
           Text(encoding, <<>>)>>
    ELSE <<Decimal(register), text, Decimal(node)>>

=============================================================================
