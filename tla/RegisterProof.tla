----------------------------- MODULE RegisterProof -----------------------------
(***************************************************************************)
(* Proofs about register windows, for any registers, encodings, nodes and  *)
(* typed texts, and whatever the device answers: types, who causes writes, *)
(* metadata and the registers they describe, and rows that are edited.     *)
(***************************************************************************)
EXTENDS RegisterPolling, BoundedInduction, SequenceTheorems

-----------------------------------------------------------------------------
(* Words and texts.                                                        *)

LEMMA WordsAre ==
    /\ Word \in Nat /\ Word >= 4 /\ Words = 0..(Word - 1) /\ {0, 1} \subseteq Words
    /\ Byte \in Nat /\ Byte >= 2
<1>1. Byte >= 2
  BY ByteAssumption
<1>2. Byte * Byte >= 4 /\ Byte * Byte \in Nat
  BY <1>1, ByteAssumption
<1> QED
  BY <1>1, <1>2, ByteAssumption DEF Word, Words

LEMMA Modulo ==
    ASSUME NEW a \in Int, NEW m \in Nat \ {0}
    PROVE  a % m \in 0..(m - 1)
OBVIOUS

\* Two's complement goes back to the word it was made of.
LEMMA SignedBack ==
    ASSUME NEW m \in Nat \ {0}, NEW a \in 0..(m - 1)
    PROVE  a % m = a /\ (a - m) % m = a /\ Signed(a, m) \in Int /\ Signed(a, m) % m = a
<1>1. a % m = a /\ (a - m) % m = a
  OBVIOUS
<1> QED
  BY <1>1 DEF Signed

-----------------------------------------------------------------------------
(* Polling leaves a window's shape alone.                                  *)

\* What values from the device change of w and what they leave.
Polled(w, v) ==
    /\ WindowTypeOK(v)
    /\ v.kind = w.kind /\ v.start = w.start /\ v.count = w.count
    /\ v.node = w.node /\ v.node_select = w.node_select
    /\ v.index = w.index /\ v.label = w.label /\ v.encoding = w.encoding
    /\ v.have_metadata = w.have_metadata /\ v.meta_in_process = w.meta_in_process
    /\ v.active_index = w.active_index /\ v.timer = w.timer /\ v.focus = w.focus
    /\ (\A i \in Rows(w) : w.index[i] = i) => v.writes = w.writes
    /\ \A i \in Rows(w) : w.kind = "holding" /\ w.timer /\ i = w.active_index => v.text[i] = w.text[i]

LEMMA TextsKnown ==
    ASSUME NEW value \in DeviceWords \cup {0}, NEW encoding \in Encodings
    PROVE  decode_register(value, encoding) \in Texts /\ Decimal(IsOn(value)) \in Texts
<1>1. IsOn(value) \in {0, 1}
  BY DEF IsOn
<1>2. decode_register(IsOn(value), "NONE") = Decimal(IsOn(value))
  BY DEF decode_register, Plain
<1> QED
  BY <1>1, <1>2 DEF Texts, Encodings

Boxes == {Decimal(0), Decimal(1)}

LEMMA PolledTwice ==
    ASSUME NEW u, NEW v, NEW w, WindowTypeOK(u), Polled(u, v), Polled(v, w)
    PROVE  Polled(u, w)
<1>1. Rows(u) = Rows(v)
  BY DEF Polled, Rows
<1> QED
  BY <1>1 DEF Polled

LEMMA PolledReflexive ==
    ASSUME NEW w, WindowTypeOK(w)
    PROVE  Polled(w, w)
BY DEF Polled

LEMMA TextSet ==
    ASSUME NEW w, WindowTypeOK(w), NEW i \in Rows(w), NEW text,
           text \in IF w.kind = "coils" THEN Boxes ELSE Texts,
           ~(w.kind = "holding" /\ w.timer /\ i = w.active_index)
    PROVE  Polled(w, [w EXCEPT !.text[i] = text])
<1> QED
  BY DEF Polled, WindowTypeOK, Windows, Rows, Boxes

LEMMA RawSet ==
    ASSUME NEW w, WindowTypeOK(w), NEW i \in Rows(w), NEW value \in DeviceWords
    PROVE  Polled(w, [w EXCEPT !.raw[i] = value])
<1> QED
  BY DEF Polled, WindowTypeOK, Windows, Rows

LEMMA Sizes ==
    ASSUME NEW w, WindowTypeOK(w)
    PROVE  /\ LastRegister \in Nat /\ MaxCount \in Nat
           /\ w.start \in Nat /\ 1 <= w.start /\ w.start <= LastRegister
           /\ w.count \in Nat /\ 1 <= w.count /\ w.count <= MaxCount
<1>1. w.start \in 1..LastRegister /\ w.count \in 1..MaxCount
  BY DEF WindowTypeOK, Windows
<1>2. LastRegister \in Nat /\ MaxCount \in Nat
  BY WindowAssumption
<1> QED
  BY <1>1, <1>2

LEMMA RowRegisters ==
    ASSUME NEW w, WindowTypeOK(w), NEW i \in Rows(w)
    PROVE  RegisterOf(w, i) \in Registers
BY Sizes DEF Rows, RegisterOf, Registers

LEMMA RemoteSet ==
    ASSUME NEW w, WindowTypeOK(w), NEW i \in Rows(w), NEW on \in BOOLEAN
    PROVE  /\ Polled(w, [w EXCEPT !.remote_state[RegisterOf(w, i)] = on])
           /\ [w EXCEPT !.remote_state[RegisterOf(w, i)] = on].remote_state[RegisterOf(w, i)] = on
<1> DEFINE r == RegisterOf(w, i)
           v == [w EXCEPT !.remote_state[r] = on]
<1>1. r \in Registers
  BY RowRegisters
<1> HIDE DEF r
<1>2. Polled(w, v) /\ v.remote_state[r] = on
  BY <1>1 DEF Polled, WindowTypeOK, Windows, Rows
<1> QED
  BY <1>2 DEF r

\* w with other writes, and perhaps an index past its rows.
Wrote(w, writes, undefined) == [w EXCEPT !.writes = writes, !.undefined = undefined]

LEMMA WroteIs ==
    ASSUME NEW w, WindowTypeOK(w), NEW writes \in Seq(Writes), NEW undefined \in BOOLEAN
    PROVE  /\ WindowTypeOK(Wrote(w, writes, undefined))
           /\ Wrote(w, writes, undefined).writes = writes
           /\ w = Wrote(w, w.writes, w.undefined)
           /\ w.writes \in Seq(Writes) /\ w.undefined \in BOOLEAN
BY DEF WindowTypeOK, Windows, Rows, Wrote

LEMMA WrotePolled ==
    ASSUME NEW w, WindowTypeOK(w), NEW writes \in Seq(Writes), NEW undefined \in BOOLEAN,
           (\A i \in Rows(w) : w.index[i] = i) => writes = w.writes
    PROVE  Polled(w, Wrote(w, writes, undefined))
BY DEF Polled, WindowTypeOK, Windows, Rows, Wrote

LEMMA Emitted ==
    ASSUME NEW w, WindowTypeOK(w), NEW i \in Rows(w), NEW value \in Words,
           NEW by \in {"user", "device"}
    PROVE  LET more == Append(w.writes, [register |-> RegisterOf(w, i), value |-> value, by |-> by])
           IN  more \in Seq(Writes) /\ EmitWrite(w, i, value, by) = Wrote(w, more, w.undefined)
<1> DEFINE write == [register |-> RegisterOf(w, i), value |-> value, by |-> by]
           more == Append(w.writes, write)
<1>1. write \in Writes
  BY RowRegisters DEF Writes
<1>2. w.writes \in Seq(Writes)
  BY DEF WindowTypeOK, Windows
<1>3. more \in Seq(Writes)
  BY <1>1, <1>2, AppendProperties
<1>4. EmitWrite(w, i, value, by) = Wrote(w, more, w.undefined)
  BY DEF EmitWrite, Wrote, WindowTypeOK, Windows
<1> QED
  BY <1>3, <1>4

LEMMA DecimalRead ==
    ASSUME NEW n \in Int
    PROVE  ToInt(Decimal(n)) = n /\ IsDecimal(Decimal(n)) /\ Decimal(n).numbers = <<n>>
BY DEF ToInt, Decimal, Text, IsDecimal

\* The slot of a check box emits a write or finds its index past the rows.
LEMMA CheckboxRead ==
    ASSUME NEW w, WindowTypeOK(w), w.kind = "coils", NEW i \in 1..(MaxCount + 1),
           NEW by \in {"user", "device"}
    PROVE  \E writes \in Seq(Writes), undefined \in BOOLEAN :
              /\ on_checkbox_checked(w, i, by) = Wrote(w, writes, undefined)
              /\ writes # w.writes =>
                    /\ i \in Rows(w) /\ w.remote_state[RegisterOf(w, i)] # (ToInt(w.text[i]) = 1)
                    /\ writes = Append(w.writes, [register |-> RegisterOf(w, i),
                                                  value |-> ToInt(w.text[i]), by |-> by])
<1>a. w.writes \in Seq(Writes) /\ w.undefined \in BOOLEAN
  BY DEF WindowTypeOK, Windows
<1>0. w.writes \in Seq(Writes) /\ w.undefined \in BOOLEAN /\ w = Wrote(w, w.writes, w.undefined)
  BY <1>a, WroteIs
<1>1. CASE i \notin Rows(w)
  <2>1. on_checkbox_checked(w, i, by) = Wrote(w, w.writes, TRUE)
    BY <1>1 DEF on_checkbox_checked, Wrote, WindowTypeOK, Windows
  <2> QED
    BY <1>0, <2>1, Zenon
<1>2. CASE i \in Rows(w)
  <2> DEFINE checked == ToInt(w.text[i])
             more == Append(w.writes, [register |-> RegisterOf(w, i), value |-> checked, by |-> by])
             same == w.remote_state[RegisterOf(w, i)] = (checked = 1)
  <2>1. w.text[i] \in Boxes
    BY <1>2 DEF WindowTypeOK, Boxes
  <2>2. checked \in {0, 1}
    BY <2>1, DecimalRead DEF Boxes
  <2>3. checked \in Words
    BY <2>2, WordsAre
  <2>4. on_checkbox_checked(w, i, by) = IF ~same THEN EmitWrite(w, i, checked, by) ELSE w
    BY <1>2 DEF on_checkbox_checked
  <2> HIDE DEF checked
  <2>5. more \in Seq(Writes) /\ EmitWrite(w, i, checked, by) = Wrote(w, more, w.undefined)
    BY <1>2, <2>3, Emitted
  <2> HIDE DEF more
  <2>6. CASE same
    BY <1>0, <2>4, <2>6, Zenon
  <2>7. CASE ~same
    BY <1>0, <1>2, <2>4, <2>5, <2>7, Zenon DEF checked, more
  <2> QED
    BY <2>6, <2>7
<1> QED
  BY <1>1, <1>2

\* The device's value is in m_remote_state before the check box is set.
LEMMA CheckboxFollows ==
    ASSUME NEW w, WindowTypeOK(w), w.kind = "coils", NEW i \in Rows(w), NEW on \in {0, 1},
           w.remote_state[RegisterOf(w, i)] = (on = 1)
    PROVE  Polled(w, SetChecked(w, i, on, "device"))
<1>1. CASE w.text[i] = Decimal(on)
  BY <1>1, PolledReflexive DEF SetChecked
<1>2. CASE w.text[i] # Decimal(on)
  <2> DEFINE u == [w EXCEPT !.text[i] = Decimal(on)]
             k == u.index[i]
             v == on_checkbox_checked(u, k, "device")
  <2>1. Polled(w, u)
    BY TextSet DEF Boxes
  <2>2. /\ u.text[i] = Decimal(on) /\ u.remote_state = w.remote_state /\ u.index = w.index
        /\ Rows(u) = Rows(w) /\ u.start = w.start
    BY DEF WindowTypeOK, Windows, Rows
  <2>3. SetChecked(w, i, on, "device") = v
    BY <1>2, <2>2 DEF SetChecked
  <2>4. WindowTypeOK(u) /\ u.kind = "coils" /\ k \in 1..(MaxCount + 1)
    BY <2>1, <2>2 DEF Polled, WindowTypeOK
  <2>5. u.remote_state[RegisterOf(u, i)] = (ToInt(u.text[i]) = 1)
    BY <2>2, DecimalRead DEF RegisterOf
  <2> HIDE DEF u, k
  <2>6. PICK writes \in Seq(Writes), undefined \in BOOLEAN :
           /\ v = Wrote(u, writes, undefined)
           /\ writes # u.writes => u.remote_state[RegisterOf(u, k)] # (ToInt(u.text[k]) = 1)
    BY <2>4, CheckboxRead, Zenon
  <2>7. (\A j \in Rows(u) : u.index[j] = j) => writes = u.writes
    BY <2>2, <2>5, <2>6, Zenon DEF k
  <2>8. Polled(u, v)
    BY <2>4, <2>6, <2>7, WrotePolled
  <2> QED
    BY <2>1, <2>3, <2>8, PolledTwice
<1> QED
  BY <1>1, <1>2

LEMMA ValueShown ==
    ASSUME NEW w, WindowTypeOK(w), NEW i \in Rows(w)
    PROVE  Polled(w, updateRegisterValue(w, i))
<1> DEFINE on == IsOn(w.raw[i])
           r == RegisterOf(w, i)
           text == decode_register(w.raw[i], w.encoding[i])
<1>1. on \in {0, 1} /\ w.raw[i] \in DeviceWords \cup {0} /\ w.encoding[i] \in Encodings
  BY DEF IsOn, WindowTypeOK
<1>2. text \in Texts /\ Decimal(on) \in Texts
  BY <1>1, TextsKnown
<1> HIDE DEF on, text
<1>3. CASE w.kind = "coils"
  <2> DEFINE u == [w EXCEPT !.remote_state[r] = (on = 1)]
  <2>1. (on = 1) \in BOOLEAN
    OBVIOUS
  <2>2. Polled(w, u) /\ u.remote_state[r] = (on = 1)
    BY <2>1, RemoteSet
  <2>3. u.kind = "coils" /\ Rows(u) = Rows(w) /\ RegisterOf(u, i) = r
    BY <1>3, <2>2 DEF Polled, Rows, RegisterOf
  <2>4. updateRegisterValue(w, i) = SetChecked(u, i, on, "device")
    BY <1>3 DEF updateRegisterValue, on
  <2>5. WindowTypeOK(u)
    BY <2>2 DEF Polled
  <2> HIDE DEF u
  <2>6. Polled(u, SetChecked(u, i, on, "device"))
    BY <1>1, <2>2, <2>3, <2>5, CheckboxFollows
  <2> QED
    BY <2>2, <2>4, <2>6, PolledTwice
<1>4. CASE w.kind = "inputs"
  <2>1. updateRegisterValue(w, i) = [w EXCEPT !.text[i] = Decimal(on)]
    BY <1>4 DEF updateRegisterValue, on
  <2>2. Polled(w, [w EXCEPT !.text[i] = Decimal(on)])
    BY <1>2, <1>4, TextSet
  <2> QED
    BY <2>1, <2>2
<1>5. CASE w.kind \notin {"coils", "inputs"}
  <2>1. CASE w.kind = "holding" /\ w.timer /\ w.active_index = i
    <3>1. updateRegisterValue(w, i) = w
      BY <1>5, <2>1 DEF updateRegisterValue
    <3> QED
      BY <3>1, PolledReflexive
  <2>2. CASE ~(w.kind = "holding" /\ w.timer /\ w.active_index = i)
    <3>1. updateRegisterValue(w, i) = [w EXCEPT !.text[i] = text]
      BY <1>5, <2>2 DEF updateRegisterValue, text
    <3>2. Polled(w, [w EXCEPT !.text[i] = text])
      BY <1>2, <1>5, <2>2, TextSet
    <3> QED
      BY <3>1, <3>2
  <2> QED
    BY <2>1, <2>2
<1> QED
  BY <1>3, <1>4, <1>5

LEMMA NewValue ==
    ASSUME NEW w, WindowTypeOK(w), NEW register \in Int, NEW value \in DeviceWords, NEW unit_id
    PROVE  Polled(w, on_new_value(w, register, value, unit_id))
<1> DEFINE i == register - w.start + 1
           u == [w EXCEPT !.raw[i] = value]
<1>1. CASE unit_id = w.node /\ i \in Rows(w)
  <2>1. Polled(w, u)
    BY <1>1, RawSet
  <2>2. WindowTypeOK(u) /\ i \in Rows(u)
    BY <1>1, <2>1 DEF Polled, Rows
  <2>3. on_new_value(w, register, value, unit_id) = updateRegisterValue(u, i)
    BY <1>1 DEF on_new_value
  <2> HIDE DEF u, i
  <2>4. Polled(u, updateRegisterValue(u, i))
    BY <2>2, ValueShown
  <2> QED
    BY <2>1, <2>3, <2>4, PolledTwice
<1>2. CASE ~(unit_id = w.node /\ i \in Rows(w))
  <2>1. on_new_value(w, register, value, unit_id) = w
    BY <1>2 DEF on_new_value
  <2> QED
    BY <2>1, PolledReflexive
<1> QED
  BY <1>1, <1>2

\* The registers of an answer, by induction over how many there are.
LEMMA AnswerTaken ==
    ASSUME NEW w, WindowTypeOK(w), NEW first \in Int, NEW n \in Nat,
           NEW values \in [1..n -> DeviceWords], NEW unit_id
    PROVE  Polled(w, NewValues(w, first, values, unit_id))
<1> DEFINE Taken(v, k) == on_new_value(v, first + k - 1, values[k], unit_id)
           Is(f, m) == f = [k \in 0..m |-> IF k = 0 THEN w ELSE Taken(f[k - 1], k)]
           S == {m \in 0..n : \E f : Is(f, m) /\ Polled(w, f[m])}
<1>1. 0 \in S
  <2> DEFINE g == [k \in 0..0 |-> w]
  <2>0. \A k \in 0..0 : g[k] = IF k = 0 THEN w ELSE Taken(g[k - 1], k)
    OBVIOUS
  <2>1. Is(g, 0) /\ g[0] = w
    BY <2>0
  <2> HIDE DEF g, Is
  <2> QED
    BY <2>1, PolledReflexive
<1>2. ASSUME NEW m \in 0..(n - 1), m \in S PROVE m + 1 \in S
  <2>1. PICK f : Is(f, m) /\ Polled(w, f[m])
    BY <1>2
  <2> DEFINE v == Taken(f[m], m + 1)
             g == [k \in 0..(m + 1) |-> IF k = m + 1 THEN v ELSE f[k]]
  <2>2. m \in Nat /\ m + 1 \in 1..n /\ m + 1 \in 0..n
    OBVIOUS
  <2>3. Polled(f[m], v)
    <3>1. values[m + 1] \in DeviceWords /\ first + (m + 1) - 1 \in Int
      BY <2>2
    <3>2. WindowTypeOK(f[m])
      BY <2>1 DEF Polled
    <3> QED
      BY <3>1, <3>2, NewValue
  <2>4. Is(g, m + 1)
    <3>1. ASSUME NEW k \in 0..(m + 1)
          PROVE  g[k] = IF k = 0 THEN w ELSE Taken(g[k - 1], k)
      <4>1. CASE k = m + 1
        <5>1. k # 0 /\ k - 1 = m /\ m \in 0..(m + 1) /\ m # m + 1
          BY <2>2, <4>1
        <5> HIDE DEF Taken
        <5> QED
          BY <4>1, <5>1
      <4>2. CASE k # m + 1
        <5>1. k \in 0..m /\ (k # 0 => k - 1 \in 0..m)
          BY <2>2, <4>2
        <5>2. f[k] = IF k = 0 THEN w ELSE Taken(f[k - 1], k)
          BY <2>1, <5>1
        <5>3. g[k] = f[k] /\ (k # 0 => g[k - 1] = f[k - 1])
          BY <2>2, <4>2, <5>1
        <5> HIDE DEF Taken, g
        <5> QED
          BY <5>2, <5>3
      <4> QED
        BY <4>1, <4>2
    <3>2. g = [k \in 0..(m + 1) |-> g[k]]
      OBVIOUS
    <3> HIDE DEF g, Taken
    <3> QED
      BY <3>1, <3>2
  <2>5. g[m + 1] = v
    BY <2>2
  <2>6. Polled(w, g[m + 1])
    BY <2>1, <2>3, <2>5, PolledTwice
  <2> HIDE DEF g, Is
  <2> QED
    BY <2>2, <2>4, <2>6
<1>3. n \in S
  <2> HIDE DEF S
  <2> QED
    BY <1>1, <1>2, InductionUpTo
<1>4. PICK f : Is(f, n) /\ Polled(w, f[n])
  BY <1>3
<1> DEFINE after == CHOOSE h : Is(h, n)
<1>5. NewValues(w, first, values, unit_id) = after[n]
  <2>1. Len(values) = n
    OBVIOUS
  <2> QED
    BY <2>1 DEF NewValues
<1> HIDE DEF Is
<1>6. Is(after, n)
  BY <1>4, Zenon
<1>7. after = f
  <2>1. ASSUME NEW g, Is(g, n) PROVE g = f
    <3> DEFINE T == {m \in 0..n : g[m] = f[m]}
    <3> USE DEF Is
    <3>1. 0 \in T
      BY <1>4, <2>1
    <3>2. ASSUME NEW m \in 0..(n - 1), m \in T PROVE m + 1 \in T
      <4>1. m + 1 \in 0..n /\ m + 1 # 0 /\ (m + 1) - 1 = m
        OBVIOUS
      <4> HIDE DEF Taken
      <4>2. g[m + 1] = Taken(g[m], m + 1) /\ f[m + 1] = Taken(f[m], m + 1)
        BY <1>4, <2>1, <4>1
      <4> QED
        BY <3>2, <4>1, <4>2
    <3>3. ASSUME NEW m \in 0..n PROVE m \in T
      <4>1. \A k \in 0..(m - 1) : k \in 0..(n - 1)
        OBVIOUS
      <4> HIDE DEF T
      <4> QED
        BY <3>1, <3>2, <4>1, InductionUpTo
    <3> HIDE DEF Taken
    <3>4. f = [m \in 0..n |-> f[m]] /\ g = [m \in 0..n |-> g[m]]
      BY <1>4, <2>1
    <3> QED
      BY <3>3, <3>4
  <2> QED
    BY <1>6, <2>1
<1> QED
  BY <1>4, <1>5, <1>7

-----------------------------------------------------------------------------
(* Metadata: what is queued, what is under way and what the rows have.     *)

LEMMA NowIs ==
    ASSUME WindowTypeOK(win)
    PROVE  /\ WindowTypeOK(Now) /\ Now.writes = <<>> /\ Rows(Now) = Rows(win)
           /\ Now.kind = win.kind /\ Now.start = win.start /\ Now.count = win.count
           /\ Now.node = win.node /\ Now.node_select = win.node_select
           /\ Now.raw = win.raw /\ Now.encoding = win.encoding /\ Now.text = win.text
           /\ Now.index = win.index /\ Now.label = win.label
           /\ Now.have_metadata = win.have_metadata
           /\ Now.meta_in_process = win.meta_in_process
           /\ Now.active_index = win.active_index /\ Now.timer = win.timer
           /\ Now.focus = win.focus /\ Now.remote_state = win.remote_state
           /\ Now.undefined = win.undefined
<1>1. <<>> \in Seq(Writes)
  BY EmptySeq
<1> QED
  BY <1>1 DEF Now, WindowTypeOK, Windows, Rows

\* The fields the metadata invariants are about.
MetadataKept(w, v) ==
    /\ v.start = w.start /\ v.count = w.count /\ v.node = w.node /\ v.label = w.label
    /\ v.have_metadata = w.have_metadata

LEMMA MetadataSame ==
    ASSUME MetadataInv, MetadataKept(win, win'), UNCHANGED <<sequences, torn>>,
           flight' = flight \/ flight'.kind # "meta",
           connected' /\ win'.meta_in_process => connected /\ win.meta_in_process
    PROVE  MetadataInv'
<1>1. Rows(win)' = Rows(win) /\ MetadataSequence(win)' = MetadataSequence(win)
  BY DEF MetadataKept, Rows, MetadataSequence
<1>2. \A i : RegisterOf(win, i)' = RegisterOf(win, i)
  BY DEF MetadataKept, RegisterOf
<1>3. LabelsMatch'
  BY <1>1, <1>2 DEF MetadataInv, LabelsMatch, MetadataKept
<1>4. RefreshTracked'
  BY <1>1 DEF MetadataInv, RefreshTracked
<1>5. MetadataComplete'
  BY <1>1 DEF MetadataInv, MetadataComplete, MetadataKept
<1>6. FlightInv'
  BY DEF MetadataInv, FlightInv, MetadataKept
<1>7. SequencesInv'
  BY <1>1, <1>2 DEF MetadataInv, SequencesInv, MetadataKept
<1> QED
  BY <1>3, <1>4, <1>5, <1>6, <1>7 DEF MetadataInv

Sequences == [next : Registers, last : Registers]

LEMMA MetadataAsked ==
    ASSUME WindowTypeOK(win)
    PROVE  /\ MetadataSequence(win) \in Sequences
           /\ MetadataSequence(win).next = win.start
           /\ MetadataSequence(win).last = win.start + win.count - 1
           /\ win.start <= win.start + win.count - 1
BY Sizes DEF MetadataSequence, Sequences, Registers

LEMMA TailIs ==
    ASSUME NEW S, NEW s \in Seq(S), s # <<>>
    PROVE  /\ Tail(s) \in Seq(S) /\ Len(Tail(s)) = Len(s) - 1
           /\ \A i \in DOMAIN Tail(s) : i + 1 \in DOMAIN s /\ Tail(s)[i] = s[i + 1]
           /\ Tail(s) # <<>> => Head(Tail(s)) = s[2] /\ 2 \in DOMAIN s
<1>1. Len(s) \in Nat /\ Len(s) # 0 /\ DOMAIN s = 1..Len(s)
  BY LenProperties, EmptySeq
<1>2. Tail(s) \in Seq(S) /\ Len(Tail(s)) = Len(s) - 1 /\ \A i \in 1..Len(Tail(s)) : Tail(s)[i] = s[i + 1]
  BY HeadTailProperties
<1> QED
  BY <1>1, <1>2

LEMMA AppendIs ==
    ASSUME NEW S, NEW s \in Seq(S), NEW e \in S
    PROVE  /\ Append(s, e) \in Seq(S) /\ Len(Append(s, e)) = Len(s) + 1
           /\ DOMAIN s = 1..Len(s) /\ DOMAIN Append(s, e) = 1..(Len(s) + 1)
           /\ \A i \in DOMAIN s : Append(s, e)[i] = s[i]
           /\ Append(s, e)[Len(s) + 1] = e /\ Append(s, e) # <<>>
           /\ s # <<>> => Head(Append(s, e)) = Head(s)
           /\ s = <<>> => Head(Append(s, e)) = e
<1> DEFINE more == Append(s, e)
<1>1. Len(s) \in Nat /\ DOMAIN s = 1..Len(s) /\ (s # <<>> => Len(s) # 0)
  BY LenProperties, EmptySeq
<1>2. /\ more \in Seq(S) /\ Len(more) = Len(s) + 1
      /\ \A i \in 1..Len(s) : more[i] = s[i]
      /\ more[Len(s) + 1] = e
  BY AppendProperties
<1> HIDE DEF more
<1>3. more # <<>> /\ DOMAIN more = 1..(Len(s) + 1)
  BY <1>1, <1>2
<1>4. Head(more) = more[1] /\ (s # <<>> => Head(s) = s[1])
  BY <1>2, <1>3
<1>5. s = <<>> => Len(s) + 1 = 1
  BY <1>1
<1>6. s # <<>> => 1 \in 1..Len(s)
  BY <1>1
<1> QED
  BY <1>1, <1>2, <1>3, <1>4, <1>5, <1>6 DEF more

\* A sequence is taken off, or given up.
LEMMA SequencePopped ==
    ASSUME TypeOK, SequencesInv, sequences # <<>>
    PROVE  /\ Tail(sequences) \in Seq(Sequences) /\ Len(Tail(sequences)) <= MaxSequences
           /\ \A i \in DOMAIN Tail(sequences) :
                 /\ i + 1 \in DOMAIN sequences /\ Tail(sequences)[i] = sequences[i + 1]
                 /\ Tail(sequences)[i].next <= Tail(sequences)[i].last
                 /\ ~torn => /\ Tail(sequences)[i].last = MetadataSequence(win).last
                             /\ Tail(sequences)[i].next = win.start
           /\ ~torn /\ Tail(sequences) # <<>> => Head(Tail(sequences)).next = win.start
<1>1. sequences \in Seq(Sequences) /\ Len(sequences) <= MaxSequences /\ MaxSequences \in Nat
  BY PollingAssumption DEF TypeOK, LinkTypeOK, Sequences
<1>2. Len(sequences) \in Nat /\ DOMAIN sequences = 1..Len(sequences)
  BY <1>1
<1>3. /\ Tail(sequences) \in Seq(Sequences) /\ Len(Tail(sequences)) = Len(sequences) - 1
      /\ \A i \in DOMAIN Tail(sequences) : i + 1 \in DOMAIN sequences /\ Tail(sequences)[i] = sequences[i + 1]
      /\ Tail(sequences) # <<>> => Head(Tail(sequences)) = sequences[2] /\ 2 \in DOMAIN sequences
  BY <1>1, TailIs
<1>4. Len(Tail(sequences)) <= MaxSequences
  BY <1>1, <1>2, <1>3
<1>5. ASSUME NEW i \in DOMAIN Tail(sequences) PROVE i + 1 > 1
  <2>1. i \in 1..Len(Tail(sequences))
    BY <1>3
  <2> QED
    BY <2>1, <1>2, <1>3
<1> QED
  BY <1>3, <1>4, <1>5 DEF SequencesInv

-----------------------------------------------------------------------------
(* Apply and the Requery button.                                           *)

LEMMA Applied ==
    ASSUME WindowTypeOK(win), NEW start \in Starts, NEW count \in Counts
    PROVE  LET v == on_apply_clicked(Now, start, count)
           IN  /\ WindowTypeOK(v) /\ v.start = start /\ v.count = count
               /\ v.label = [i \in 1..count |-> 0]
               /\ ~v.have_metadata /\ ~v.meta_in_process /\ v.writes = <<>>
               /\ v.node = win.node /\ v.kind = win.kind
               /\ v.active_index = win.active_index /\ v.timer = win.timer /\ v.focus = win.focus
<1> DEFINE Values == IF win.kind = "coils" THEN {Decimal(0), Decimal(1)} ELSE Texts
           raw == Resized(win.raw, [i \in 1..count |-> 0])
           text == Resized(win.text, [i \in 1..count |-> NewText(win.kind)])
           index == Resized(win.index, [i \in 1..count |-> i + 1])
           encoding == [i \in 1..count |-> "NONE"]
           label == [i \in 1..count |-> 0]
           v == on_apply_clicked(Now, start, count)
<1>1. /\ start \in 1..LastRegister /\ count \in 1..MaxCount
      /\ MaxCount \in Nat /\ count \in Nat /\ win.count \in Nat
  BY Sizes, PollingAssumption, WindowAssumption
<1>2. /\ win.raw \in [1..win.count -> DeviceWords \cup {0}]
      /\ win.text \in [1..win.count -> Values]
      /\ win.index \in [1..win.count -> 1..(MaxCount + 1)]
  BY DEF WindowTypeOK, Rows
<1>3. NewText(win.kind) \in Values
  BY DEF NewText, Texts
<1>4. raw \in [1..count -> DeviceWords \cup {0}]
  BY <1>1, <1>2 DEF Resized
<1>5. text \in [1..count -> Values]
  <2> HIDE DEF Values
  <2> QED
    BY <1>1, <1>2, <1>3 DEF Resized
<1>6. index \in [1..count -> 1..(MaxCount + 1)]
  BY <1>1, <1>2 DEF Resized
<1>7. encoding \in [1..count -> Encodings] /\ label \in [1..count -> {0} \cup Registers]
  BY DEF Encodings
<1> DEFINE w == [Now EXCEPT !.start = start, !.count = count, !.raw = raw, !.encoding = encoding,
                            !.text = text, !.index = index, !.label = label,
                            !.have_metadata = FALSE, !.meta_in_process = FALSE]
<1>8. v = w
  BY NowIs DEF on_apply_clicked, WindowTypeOK, Windows
<1> HIDE DEF raw, text, index, encoding, label, Values
<1>9. w \in Windows(w)
  BY <1>1, NowIs DEF WindowTypeOK, Windows
<1>10. /\ w.start = start /\ w.count = count /\ w.label = label
       /\ w.raw = raw /\ w.encoding = encoding /\ w.text = text /\ w.index = index
       /\ ~w.have_metadata /\ ~w.meta_in_process /\ w.writes = <<>>
       /\ w.node = win.node /\ w.kind = win.kind
       /\ w.active_index = win.active_index /\ w.timer = win.timer /\ w.focus = win.focus
  BY NowIs DEF WindowTypeOK, Windows
<1> HIDE DEF w, v
<1>11. WindowTypeOK(w)
  BY <1>4, <1>5, <1>6, <1>7, <1>9, <1>10 DEF WindowTypeOK, Rows, Values
<1> QED
  BY <1>8, <1>10, <1>11 DEF label, v

LEMMA Counted ==
    ASSUME TypeOK, NEW v, WindowTypeOK(v), Becomes(v)
    PROVE  win' = v /\ unanswered' \in Nat
<1>1. v.writes \in Seq(Writes)
  BY DEF WindowTypeOK, Windows
<1>2. Len(v.writes) \in Nat
  BY <1>1
<1> QED
  BY <1>2 DEF Becomes, TypeOK, LinkTypeOK

LEMMA NoneWritten ==
    ASSUME win'.writes = <<>>
    PROVE  DeviceNeverWrites'
BY DEF DeviceNeverWrites

LEMMA ApplyKeeps ==
    ASSUME RegisterInv, NEW start \in Starts, NEW count \in Counts, Apply(start, count)
    PROVE  RegisterInv'
<1> USE DEF RegisterInv
<1>1. /\ WindowTypeOK(win') /\ win'.start = start /\ win'.count = count
      /\ win'.label = [i \in 1..count |-> 0]
      /\ ~win'.have_metadata /\ ~win'.meta_in_process /\ win'.writes = <<>>
      /\ win'.node = win.node /\ win'.kind = win.kind
      /\ win'.active_index = win.active_index /\ win'.timer = win.timer /\ win'.focus = win.focus
  BY Applied DEF Apply, Becomes, TypeOK
<1>2. /\ win.focus = NoRow /\ UNCHANGED <<connected, flight, sequences>>
      /\ torn' = (torn \/ sequences # <<>>)
  BY DEF Apply
<1>3. LinkTypeOK'
  <2>1. unanswered' \in Nat
    BY Applied, Counted DEF Apply, TypeOK
  <2> QED
    BY <1>2, <2>1 DEF TypeOK, LinkTypeOK
<1>4. TypeOK'
  BY <1>1, <1>3 DEF TypeOK
<1>5. EditingInv'
  BY <1>1, <1>2 DEF EditingInv
<1>6. Rows(win)' = 1..count /\ \A i \in 1..count : win'.label[i] = 0
  BY <1>1 DEF Rows
<1>7. LabelsMatch'
  BY <1>6 DEF LabelsMatch
<1>8. RefreshTracked' /\ MetadataComplete' /\ FlightInv'
  BY <1>1, <1>2 DEF RefreshTracked, MetadataComplete, FlightInv, MetadataInv
<1>9. SequencesInv'
  <2>1. \A i \in DOMAIN sequences' : sequences'[i].next <= sequences'[i].last
    BY <1>2 DEF MetadataInv, SequencesInv
  <2>2. ~torn' => sequences' = <<>>
    BY <1>2
  <2> QED
    BY <2>1, <2>2 DEF SequencesInv
<1> QED
  BY <1>1, <1>4, <1>5, <1>7, <1>8, <1>9, NoneWritten DEF MetadataInv

LEMMA Requeried ==
    ASSUME WindowTypeOK(win)
    PROVE  LET v == on_refresh_clicked(Now)
           IN  /\ WindowTypeOK(v)
               /\ v.start = win.start /\ v.count = win.count /\ v.node = win.node
               /\ v.label = win.label /\ ~v.have_metadata /\ v.writes = <<>> /\ v.kind = win.kind
               /\ v.active_index = win.active_index /\ v.timer = win.timer /\ v.focus = win.focus
               /\ v.index = win.index
BY NowIs DEF on_refresh_clicked, WindowTypeOK, Windows, Rows

LEMMA RefreshKeeps ==
    ASSUME RegisterInv, Refresh
    PROVE  RegisterInv'
<1> USE DEF RegisterInv
<1> DEFINE v == on_refresh_clicked(Now)
           asked == MetadataSequence(win)
<1>0. WindowTypeOK(win) /\ Becomes(v) /\ WindowTypeOK(v)
  BY Requeried DEF TypeOK, Refresh
<1>1. /\ WindowTypeOK(win') /\ win' = v /\ unanswered' \in Nat
  BY <1>0, Counted
<1>2. /\ win'.start = win.start /\ win'.count = win.count /\ win'.node = win.node
      /\ win'.label = win.label /\ ~win'.have_metadata /\ win'.writes = <<>>
      /\ win'.kind = win.kind /\ win'.index = win.index
      /\ win'.active_index = win.active_index /\ win'.timer = win.timer /\ win'.focus = win.focus
  BY <1>0, <1>1, Requeried
<1>3. /\ UNCHANGED <<connected, flight>> /\ torn' = (torn /\ sequences # <<>>)
      /\ sequences' = IF connected /\ ~win.meta_in_process
                      THEN Append(sequences, asked) ELSE sequences
      /\ Len(sequences) < MaxSequences
  BY DEF Refresh
<1>4. asked \in Sequences /\ asked.next = win.start /\ asked.last = win.start + win.count - 1
      /\ asked.next <= asked.last
  BY <1>0, MetadataAsked
<1> HIDE DEF asked, v
<1>5. Rows(win)' = Rows(win) /\ MetadataSequence(win)' = asked
  BY <1>2 DEF Rows, MetadataSequence, asked
<1>6. \A i : RegisterOf(win, i)' = RegisterOf(win, i)
  BY <1>2 DEF RegisterOf
<1>7. sequences \in Seq(Sequences) /\ Len(sequences) \in Nat /\ MaxSequences \in Nat
  BY PollingAssumption DEF TypeOK, LinkTypeOK, Sequences
<1> DEFINE more == Append(sequences, asked)
<1>8. /\ more \in Seq(Sequences) /\ Len(more) = Len(sequences) + 1
      /\ DOMAIN sequences = 1..Len(sequences) /\ DOMAIN more = 1..(Len(sequences) + 1)
      /\ \A i \in DOMAIN sequences : more[i] = sequences[i]
      /\ more[Len(sequences) + 1] = asked /\ more # <<>>
      /\ sequences # <<>> => Head(more) = Head(sequences)
      /\ sequences = <<>> => Head(more) = asked
  BY <1>4, <1>7, AppendIs
<1> HIDE DEF more
<1>9. sequences' \in Seq(Sequences) /\ Len(sequences') <= MaxSequences
  BY <1>3, <1>7, <1>8 DEF more
<1>10. TypeOK'
  BY <1>1, <1>3, <1>9 DEF TypeOK, LinkTypeOK, Sequences
<1>11. EditingInv'
  BY <1>2, <1>5 DEF EditingInv
<1>12. LabelsMatch' /\ MetadataComplete'
  BY <1>2, <1>5, <1>6 DEF LabelsMatch, MetadataComplete, MetadataInv
<1>13. CASE connected /\ ~win.meta_in_process
  <2>1. sequences' = more
    BY <1>3, <1>13 DEF more
  <2>2. RefreshTracked'
    <3>1. Len(sequences) + 1 \in DOMAIN more
      BY <1>7, <1>8
    <3> QED
      BY <1>5, <1>8, <2>1, <3>1 DEF RefreshTracked
  <2>3. FlightInv'
    BY <1>2, <1>3, <1>8, <2>1 DEF FlightInv, MetadataInv
  <2>4. ASSUME NEW i \in DOMAIN more
        PROVE  \/ i \in DOMAIN sequences /\ more[i] = sequences[i]
               \/ i = Len(sequences) + 1 /\ more[i] = asked
    BY <1>7, <1>8
  <2>5. \A i \in DOMAIN more : more[i].next <= more[i].last
    BY <1>4, <2>4 DEF MetadataInv, SequencesInv
  <2>6. ASSUME ~torn', NEW i \in DOMAIN more
        PROVE  /\ more[i].last = asked.last /\ win.start <= more[i].next
               /\ i > 1 => more[i].next = win.start
    <3>1. win.start <= win.start
      BY <1>0, Sizes
    <3>2. CASE i = Len(sequences) + 1 /\ more[i] = asked
      BY <1>4, <3>1, <3>2
    <3>3. CASE i \in DOMAIN sequences /\ more[i] = sequences[i]
      <4>1. ~torn
        <5>1. sequences # <<>>
          BY <1>8, <3>3
        <5> QED
          BY <1>3, <2>6, <5>1, Zenon
      <4> QED
        BY <3>3, <4>1 DEF MetadataInv, SequencesInv, asked
    <3> QED
      BY <2>4, <3>2, <3>3
  <2>7. ASSUME ~torn', NEW i \in Rows(win), RegisterOf(win, i) < Head(more).next
        PROVE  win.label[i] # 0
    <3>1. CASE sequences = <<>>
      <4>1. win.start <= RegisterOf(win, i) /\ RegisterOf(win, i) \in Int /\ win.start \in Int
        BY <1>0, Sizes DEF Rows, RegisterOf
      <4> QED
        BY <1>4, <1>8, <2>7, <3>1, <4>1
    <3>2. CASE sequences # <<>>
      BY <1>3, <1>8, <2>7, <3>2 DEF MetadataInv, SequencesInv
    <3> QED
      BY <3>1, <3>2
  <2>8. SequencesInv'
    BY <1>2, <1>5, <1>6, <2>1, <2>5, <2>6, <2>7 DEF SequencesInv
  <2> QED
    BY <1>2, <1>10, <1>11, <1>12, <2>2, <2>3, <2>8, NoneWritten DEF MetadataInv
<1>14. CASE ~(connected /\ ~win.meta_in_process)
  <2>1. sequences' = sequences
    BY <1>3, <1>14
  <2>2. RefreshTracked'
    BY <1>3, <1>5, <1>14, <2>1 DEF RefreshTracked, MetadataInv, asked
  <2>3. FlightInv'
    BY <1>2, <1>3, <2>1 DEF FlightInv, MetadataInv
  <2>4. \A i \in DOMAIN sequences' : sequences'[i].next <= sequences'[i].last
    BY <2>1 DEF SequencesInv, MetadataInv
  <2>5. ~torn' => ~torn \/ sequences' = <<>>
    BY <1>3, <2>1
  <2>6. SequencesInv'
    BY <1>2, <1>5, <1>6, <2>1, <2>4, <2>5 DEF SequencesInv, MetadataInv, asked
  <2> QED
    BY <1>2, <1>10, <1>11, <1>12, <2>2, <2>3, <2>6, NoneWritten DEF MetadataInv
<1> QED
  BY <1>13, <1>14

-----------------------------------------------------------------------------
(* The scheduler's requests.                                               *)

\* The window of a step that asks or hears nothing new, or that fails.
LEMMA Quiet ==
    ASSUME RegisterInv, TypeOK', win'.writes = <<>>, MetadataInv',
           win'.kind = win.kind, win'.count = win.count, win'.index = win.index,
           win'.active_index = win.active_index, win'.timer = win.timer, win'.focus = win.focus
    PROVE  RegisterInv'
<1>1. EditingInv'
  BY DEF EditingInv, RegisterInv, Rows
<1> QED
  BY <1>1, NoneWritten DEF RegisterInv

\* m_meta_in_process is cleared.
LEMMA Cleared ==
    ASSUME WindowTypeOK(win), NEW v, v = [Now EXCEPT !.meta_in_process = FALSE]
    PROVE  /\ WindowTypeOK(v) /\ ~v.meta_in_process /\ MetadataKept(win, v) /\ v.writes = <<>>
           /\ v.kind = win.kind /\ v.index = win.index
           /\ v.active_index = win.active_index /\ v.timer = win.timer /\ v.focus = win.focus
BY NowIs DEF WindowTypeOK, Windows, Rows, MetadataKept

LEMMA NoFlightIs == NoFlight \in Flights /\ NoFlight.kind # "meta"
<1>1. LastRegister \in Nat \ {0} /\ MaxCount \in Nat \ {0}
  BY WindowAssumption
<1>2. 0 \in 0..(LastRegister + MaxCount - 1) /\ 0 \in 0..MaxCount
  BY <1>1
<1> QED
  BY <1>2 DEF NoFlight, Flights

LEMMA ConnectKeeps ==
    ASSUME RegisterInv, Connect
    PROVE  RegisterInv'
<1>1. WindowTypeOK(win) /\ win' = [Now EXCEPT !.meta_in_process = FALSE]
  BY DEF RegisterInv, TypeOK, Connect, on_system_event
<1>2. /\ WindowTypeOK(win') /\ ~win'.meta_in_process /\ MetadataKept(win, win')
      /\ win'.writes = <<>> /\ win'.kind = win.kind /\ win'.index = win.index
      /\ win'.active_index = win.active_index /\ win'.timer = win.timer /\ win'.focus = win.focus
  BY <1>1, Cleared
<1>3. connected' = TRUE /\ UNCHANGED <<flight, sequences, unanswered, torn>>
  BY DEF Connect
<1>4. TypeOK'
  BY <1>2, <1>3 DEF TypeOK, LinkTypeOK, RegisterInv
<1>5. MetadataInv'
  BY <1>2, <1>3, MetadataSame DEF RegisterInv
<1> QED
  BY <1>2, <1>4, <1>5, Quiet DEF MetadataKept

LEMMA DisconnectKeeps ==
    ASSUME RegisterInv, Disconnect
    PROVE  RegisterInv'
<1>1. WindowTypeOK(win) /\ win' = [Now EXCEPT !.meta_in_process = FALSE]
  BY DEF RegisterInv, TypeOK, Disconnect, on_system_event
<1>2. /\ WindowTypeOK(win') /\ ~win'.meta_in_process /\ MetadataKept(win, win')
      /\ win'.writes = <<>> /\ win'.kind = win.kind /\ win'.index = win.index
      /\ win'.active_index = win.active_index /\ win'.timer = win.timer /\ win'.focus = win.focus
  BY <1>1, Cleared
<1>3. /\ connected' = FALSE /\ flight' = NoFlight /\ sequences' = <<>> /\ unanswered' = 0
      /\ torn' = torn
  BY DEF Disconnect
<1>4. TypeOK'
  <2>1. <<>> \in Seq(Sequences) /\ Len(<<>>) = 0 /\ MaxSequences \in Nat
    BY EmptySeq, PollingAssumption
  <2>2. sequences' \in Seq(Sequences) /\ Len(sequences') <= MaxSequences
    BY <1>3, <2>1
  <2>3. flight' \in Flights /\ unanswered' \in Nat
    BY <1>3, NoFlightIs
  <2>4. {connected, torn}' \subseteq BOOLEAN
    BY <1>3 DEF RegisterInv, TypeOK, LinkTypeOK
  <2> QED
    BY <1>2, <2>2, <2>3, <2>4 DEF TypeOK, LinkTypeOK, Sequences
<1>5. Rows(win)' = Rows(win) /\ \A i : RegisterOf(win, i)' = RegisterOf(win, i)
  BY <1>2 DEF MetadataKept, Rows, RegisterOf
<1>6. LabelsMatch' /\ MetadataComplete'
  BY <1>2, <1>3, <1>5 DEF RegisterInv, MetadataInv, LabelsMatch, MetadataComplete, MetadataKept
<1>7. RefreshTracked' /\ FlightInv' /\ SequencesInv'
  BY <1>2, <1>3, NoFlightIs DEF RefreshTracked, FlightInv, SequencesInv
<1> QED
  BY <1>2, <1>4, <1>6, <1>7, Quiet DEF MetadataKept, MetadataInv

LEMMA Unchanged ==
    ASSUME WindowTypeOK(win), win' = Now
    PROVE  /\ WindowTypeOK(win') /\ win'.meta_in_process = win.meta_in_process
           /\ MetadataKept(win, win') /\ win'.writes = <<>>
           /\ win'.kind = win.kind /\ win'.count = win.count /\ win'.index = win.index
           /\ win'.active_index = win.active_index /\ win'.timer = win.timer
           /\ win'.focus = win.focus
BY NowIs DEF MetadataKept

LEMMA FirstSequence ==
    ASSUME TypeOK, sequences # <<>>
    PROVE  /\ sequences \in Seq(Sequences) /\ Len(sequences) \in Nat /\ 1 \in DOMAIN sequences
           /\ Head(sequences) = sequences[1] /\ sequences[1] \in Sequences
           /\ sequences[1].next \in Registers /\ sequences[1].last \in Registers
           /\ DOMAIN sequences = 1..Len(sequences)
<1>1. sequences \in Seq(Sequences)
  BY DEF TypeOK, LinkTypeOK, Sequences
<1>2. Len(sequences) \in Nat /\ Len(sequences) # 0 /\ DOMAIN sequences = 1..Len(sequences)
  BY <1>1
<1>3. 1 \in DOMAIN sequences /\ Head(sequences) = sequences[1] /\ sequences[1] \in Sequences
  BY <1>1, <1>2
<1> QED
  BY <1>1, <1>2, <1>3 DEF Sequences

LEMMA StartMetadataKeeps ==
    ASSUME RegisterInv, StartMetadata
    PROVE  RegisterInv'
<1>1. WindowTypeOK(win) /\ win' = Now /\ TypeOK
  BY DEF RegisterInv, TypeOK, StartMetadata
<1>2. /\ WindowTypeOK(win') /\ win'.meta_in_process = win.meta_in_process
      /\ MetadataKept(win, win') /\ win'.writes = <<>>
      /\ win'.kind = win.kind /\ win'.count = win.count /\ win'.index = win.index
      /\ win'.active_index = win.active_index /\ win'.timer = win.timer
      /\ win'.focus = win.focus
  BY <1>1, Unchanged
<1>3. /\ UNCHANGED <<connected, sequences, unanswered, torn>> /\ sequences # <<>>
      /\ flight' = [kind |-> "meta", first |-> Head(sequences).next, count |-> 1, node |-> win.node]
  BY DEF StartMetadata
<1>4. /\ flight'.kind = "meta" /\ flight'.first = Head(sequences).next
      /\ flight'.node = win.node
  BY <1>3
<1>5. TypeOK'
  <2>1. Head(sequences).next \in 0..(LastRegister + MaxCount - 1)
    <3>1. Head(sequences).next \in 1..(LastRegister + MaxCount - 1)
      BY <1>1, <1>3, FirstSequence DEF Registers
    <3>2. LastRegister \in Nat /\ MaxCount \in Nat
      BY WindowAssumption
    <3> QED
      BY <3>1, <3>2
  <2>2. 1 \in 0..MaxCount /\ win.node \in Nodes
    <3>1. MaxCount \in Nat \ {0}
      BY WindowAssumption
    <3>2. win.node \in Nodes
      BY <1>1 DEF WindowTypeOK, Windows
    <3> QED
      BY <3>1, <3>2
  <2>3. flight' \in Flights
    BY <1>3, <2>1, <2>2 DEF Flights
  <2> QED
    BY <1>2, <1>3, <2>3 DEF TypeOK, LinkTypeOK, RegisterInv
<1>6. Rows(win)' = Rows(win) /\ MetadataSequence(win)' = MetadataSequence(win)
  BY <1>2 DEF MetadataKept, Rows, MetadataSequence
<1>7. \A i : RegisterOf(win, i)' = RegisterOf(win, i)
  BY <1>2 DEF MetadataKept, RegisterOf
<1>8. LabelsMatch' /\ MetadataComplete' /\ RefreshTracked'
  BY <1>2, <1>3, <1>6, <1>7 DEF RegisterInv, MetadataInv, LabelsMatch, MetadataComplete,
                                MetadataKept, RefreshTracked
<1>9. FlightInv'
  BY <1>2, <1>3, <1>4 DEF FlightInv, MetadataKept
<1>10. SequencesInv'
  BY <1>2, <1>3, <1>6, <1>7 DEF SequencesInv, MetadataKept, RegisterInv, MetadataInv
<1> QED
  BY <1>2, <1>5, <1>8, <1>9, <1>10, Quiet DEF MetadataInv

LEMMA StartReadKeeps ==
    ASSUME RegisterInv, StartRead
    PROVE  RegisterInv'
<1>1. WindowTypeOK(win) /\ win' = Now
  BY DEF RegisterInv, TypeOK, StartRead
<1>2. /\ WindowTypeOK(win') /\ win'.meta_in_process = win.meta_in_process
      /\ MetadataKept(win, win') /\ win'.writes = <<>>
      /\ win'.kind = win.kind /\ win'.count = win.count /\ win'.index = win.index
      /\ win'.active_index = win.active_index /\ win'.timer = win.timer
      /\ win'.focus = win.focus
  BY <1>1, Unchanged
<1>3. UNCHANGED <<connected, sequences, unanswered, torn>> /\ flight' = poll_register_set(win)
  BY DEF StartRead
<1>4. flight' \in Flights /\ flight'.kind # "meta"
  <2>1. win.start \in 0..(LastRegister + MaxCount - 1) /\ win.count \in 0..MaxCount
    BY <1>1, Sizes
  <2>2. win.node_select \in Nodes
    BY <1>1 DEF WindowTypeOK, Windows
  <2> QED
    BY <1>3, <2>1, <2>2 DEF Flights, poll_register_set
<1>5. TypeOK'
  BY <1>2, <1>3, <1>4 DEF TypeOK, LinkTypeOK, RegisterInv
<1>6. MetadataInv'
  BY <1>2, <1>3, <1>4, MetadataSame DEF RegisterInv
<1> QED
  BY <1>2, <1>5, <1>6, Quiet

LEMMA WriteEndsKeeps ==
    ASSUME RegisterInv, WriteAnswered \/ WriteFails
    PROVE  RegisterInv'
<1>1. WindowTypeOK(win)
  BY DEF RegisterInv, TypeOK
<1>2. /\ unanswered > 0 /\ unanswered' = unanswered - 1
      /\ win' = Now \/ win' = [Now EXCEPT !.meta_in_process = FALSE]
      /\ UNCHANGED <<connected, flight, sequences, torn>>
  BY DEF WriteAnswered, WriteFails, WriteEnds, on_exception_status
<1>3. /\ WindowTypeOK(win') /\ (win'.meta_in_process => win.meta_in_process)
      /\ MetadataKept(win, win') /\ win'.writes = <<>>
      /\ win'.kind = win.kind /\ win'.count = win.count /\ win'.index = win.index
      /\ win'.active_index = win.active_index /\ win'.timer = win.timer
      /\ win'.focus = win.focus
  <2>1. CASE win' = Now
    BY <1>1, <2>1, Unchanged
  <2>2. CASE win' = [Now EXCEPT !.meta_in_process = FALSE]
    BY <1>1, <2>2, Cleared DEF MetadataKept
  <2> QED
    BY <1>2, <2>1, <2>2
<1>4. unanswered' \in Nat
  BY <1>2 DEF RegisterInv, TypeOK, LinkTypeOK
<1>5. TypeOK'
  BY <1>2, <1>3, <1>4 DEF TypeOK, LinkTypeOK, RegisterInv
<1>6. MetadataInv'
  BY <1>2, <1>3, MetadataSame DEF RegisterInv
<1> QED
  BY <1>3, <1>5, <1>6, Quiet

LEMMA FlightsType == TypeOK => flight \in Flights
BY DEF TypeOK, LinkTypeOK

LEMMA RequestFailsKeeps ==
    ASSUME RegisterInv, RequestFails
    PROVE  RegisterInv'
<1> DEFINE v == [Now EXCEPT !.meta_in_process = FALSE]
<1>1. WindowTypeOK(win) /\ Becomes(v) /\ TypeOK /\ SequencesInv
  BY DEF RegisterInv, TypeOK, RequestFails, on_exception_status, MetadataInv
<1>2. /\ WindowTypeOK(v) /\ ~v.meta_in_process /\ MetadataKept(win, v) /\ v.writes = <<>>
      /\ v.kind = win.kind /\ v.index = win.index
      /\ v.active_index = win.active_index /\ v.timer = win.timer /\ v.focus = win.focus
  BY <1>1, Cleared
<1> HIDE DEF v
<1>3. win' = v /\ unanswered' \in Nat
  BY <1>1, <1>2, Counted
<1>4. /\ UNCHANGED <<connected, torn>> /\ flight' = NoFlight
      /\ sequences' = IF flight.kind = "meta" THEN Tail(sequences) ELSE sequences
  BY DEF RequestFails
<1>5. CASE flight.kind = "meta"
  <2>1. sequences # <<>> /\ sequences' = Tail(sequences)
    BY <1>4, <1>5 DEF RegisterInv, MetadataInv, FlightInv
  <2>2. /\ sequences' \in Seq(Sequences) /\ Len(sequences') <= MaxSequences
        /\ \A i \in DOMAIN sequences' :
              /\ sequences'[i].next <= sequences'[i].last
              /\ ~torn => /\ sequences'[i].last = MetadataSequence(win).last
                          /\ sequences'[i].next = win.start
        /\ ~torn /\ sequences' # <<>> => Head(sequences').next = win.start
    BY <1>1, <2>1, SequencePopped
  <2>3. TypeOK'
    BY <1>1, <1>2, <1>3, <1>4, <2>2, NoFlightIs DEF TypeOK, LinkTypeOK, Sequences
  <2>4. Rows(win)' = Rows(win) /\ MetadataSequence(win)' = MetadataSequence(win)
    BY <1>2, <1>3 DEF MetadataKept, Rows, MetadataSequence
  <2>5. \A i : RegisterOf(win, i)' = RegisterOf(win, i)
    BY <1>2, <1>3 DEF MetadataKept, RegisterOf
  <2>6. LabelsMatch' /\ MetadataComplete'
    BY <1>2, <1>3, <1>4, <2>4, <2>5
    DEF RegisterInv, MetadataInv, LabelsMatch, MetadataComplete, MetadataKept
  <2>7. RefreshTracked' /\ FlightInv'
    BY <1>2, <1>3, <1>4, NoFlightIs DEF RefreshTracked, FlightInv
  <2>8. ASSUME NEW i \in Rows(win)
        PROVE  RegisterOf(win, i) \in Int /\ win.start <= RegisterOf(win, i) /\ win.start \in Int
    BY <1>1, Sizes DEF Rows, RegisterOf
  <2>9. SequencesInv'
    <3>1. win'.start = win.start /\ torn' = torn
      BY <1>2, <1>3, <1>4 DEF MetadataKept
    <3>2. win.start <= win.start
      BY <1>1, Sizes
    <3>3. \A i \in Rows(win) : ~(RegisterOf(win, i) < win.start)
      BY <2>8
    <3> QED
      BY <2>2, <2>4, <2>5, <3>1, <3>2, <3>3 DEF SequencesInv
  <2> QED
    BY <1>2, <1>3, <2>3, <2>6, <2>7, <2>9, Quiet DEF MetadataInv, MetadataKept
<1>6. CASE flight.kind # "meta"
  <2>1. sequences' = sequences
    BY <1>4, <1>6
  <2>2. TypeOK'
    BY <1>2, <1>3, <1>4, <2>1, <1>1, NoFlightIs DEF TypeOK, LinkTypeOK
  <2>3. MetadataInv'
    BY <1>2, <1>3, <1>4, <2>1, NoFlightIs, MetadataSame DEF RegisterInv
  <2> QED
    BY <1>2, <1>3, <2>2, <2>3, Quiet DEF MetadataKept
<1> QED
  BY <1>5, <1>6

LEMMA MetadataTaken ==
    ASSUME WindowTypeOK(win), NEW register \in Registers, NEW encoding \in Encodings,
           NEW v, v = set_metadata(Now, register, win.node, encoding),
           NEW i, i = register - win.start + 1
    PROVE  /\ WindowTypeOK(v) /\ v.writes = <<>>
           /\ v.start = win.start /\ v.count = win.count /\ v.node = win.node
           /\ v.kind = win.kind /\ v.index = win.index
           /\ v.active_index = win.active_index /\ v.timer = win.timer /\ v.focus = win.focus
           /\ i \notin Rows(win) => v.label = win.label
           /\ i \in Rows(win) => v.label = [win.label EXCEPT ![i] = register]
           /\ v.meta_in_process => win.meta_in_process /\ i \in Rows(win) /\ i # win.count
           /\ v.have_metadata => win.have_metadata \/ (i \in Rows(win) /\ i = win.count)
<1>1. CASE i \notin Rows(win)
  <2>1. v = [Now EXCEPT !.meta_in_process = FALSE]
    BY <1>1, NowIs DEF set_metadata
  <2> QED
    BY <1>1, <2>1, Cleared DEF MetadataKept
<1>2. CASE i \in Rows(win)
  <2> DEFINE label == [win.label EXCEPT ![i] = register]
             encodings == [win.encoding EXCEPT ![i] = encoding]
             in_process == win.meta_in_process /\ i # win.count
             have == win.have_metadata \/ i = win.count
             w == [Now EXCEPT !.label = label, !.encoding = encodings,
                              !.meta_in_process = in_process, !.have_metadata = have]
  <2>1. v = w
    BY <1>2, NowIs, ZenonT(60) DEF set_metadata, WindowTypeOK, Windows
  <2>2. label \in [Rows(win) -> {0} \cup Registers] /\ encodings \in [Rows(win) -> Encodings]
    BY <1>2 DEF WindowTypeOK
  <2>3. in_process \in BOOLEAN /\ have \in BOOLEAN
    BY DEF WindowTypeOK, Windows
  <2> HIDE DEF label, encodings, in_process, have
  <2>4. /\ WindowTypeOK(w) /\ w.writes = <<>>
        /\ w.start = win.start /\ w.count = win.count /\ w.node = win.node
        /\ w.kind = win.kind /\ w.index = win.index
        /\ w.active_index = win.active_index /\ w.timer = win.timer /\ w.focus = win.focus
        /\ w.label = label
        /\ w.meta_in_process = in_process /\ w.have_metadata = have
    BY <2>2, <2>3, NowIs, ZenonT(60) DEF WindowTypeOK, Windows, Rows
  <2> HIDE DEF w
  <2>5. /\ WindowTypeOK(v) /\ v.writes = <<>>
        /\ v.start = win.start /\ v.count = win.count /\ v.node = win.node
        /\ v.kind = win.kind /\ v.index = win.index
        /\ v.active_index = win.active_index /\ v.timer = win.timer /\ v.focus = win.focus
        /\ v.label = label
        /\ v.meta_in_process = in_process /\ v.have_metadata = have
    BY <2>1, <2>4
  <2> QED
    BY <1>2, <2>5 DEF label, in_process, have
<1> QED
  BY <1>1, <1>2

LEMMA MetadataAnsweredKeeps ==
    ASSUME RegisterInv, MetadataAnswered
    PROVE  RegisterInv'
<1> DEFINE register == flight.first
           v == set_metadata(Now, register, flight.node, DeviceEncoding[register])
           i == register - win.start + 1
           last == sequences[1].last
           labelled == i \in Rows(win)
<1>1. /\ WindowTypeOK(win) /\ TypeOK /\ SequencesInv /\ LabelsMatch /\ MetadataComplete
      /\ RefreshTracked /\ FlightInv
  BY DEF RegisterInv, TypeOK, MetadataInv
<1>2. /\ flight.kind = "meta" /\ flight' = NoFlight /\ Becomes(v) /\ UNCHANGED <<connected, torn>>
      /\ sequences' = IF Head(sequences).next = Head(sequences).last
                      THEN Tail(sequences) ELSE [sequences EXCEPT ![1].next = @ + 1]
  BY DEF MetadataAnswered
<1>3. sequences # <<>> /\ register = Head(sequences).next /\ flight.node = win.node
  BY <1>1, <1>2 DEF FlightInv
<1>4. /\ sequences \in Seq(Sequences) /\ Len(sequences) \in Nat /\ 1 \in DOMAIN sequences
      /\ Head(sequences) = sequences[1] /\ sequences[1] \in Sequences
      /\ DOMAIN sequences = 1..Len(sequences)
      /\ register \in Registers /\ last \in Registers /\ sequences[1].next = register
  BY <1>1, <1>3, FirstSequence
<1>5. DeviceEncoding[register] \in Encodings
  BY <1>4, PollingAssumption
<1>6. /\ register \in Nat /\ register # 0 /\ last \in Nat /\ register <= last
      /\ win.start \in Nat /\ win.count \in Nat /\ 1 <= win.start /\ 1 <= win.count
      /\ LastRegister \in Nat /\ MaxCount \in Nat
  BY <1>1, <1>4, Sizes DEF Registers, SequencesInv
<1>7. /\ WindowTypeOK(v) /\ v.writes = <<>>
      /\ v.start = win.start /\ v.count = win.count /\ v.node = win.node
      /\ v.kind = win.kind /\ v.index = win.index
      /\ v.active_index = win.active_index /\ v.timer = win.timer /\ v.focus = win.focus
      /\ i \notin Rows(win) => v.label = win.label
      /\ i \in Rows(win) => v.label = [win.label EXCEPT ![i] = register]
      /\ v.meta_in_process => win.meta_in_process /\ i \in Rows(win) /\ i # win.count
      /\ v.have_metadata => win.have_metadata \/ (i \in Rows(win) /\ i = win.count)
  BY <1>1, <1>3, <1>4, <1>5, MetadataTaken
<1> HIDE DEF v
<1>8. win' = v /\ unanswered' \in Nat
  BY <1>1, <1>2, <1>7, Counted
<1>9. Rows(win)' = Rows(win) /\ MetadataSequence(win)' = MetadataSequence(win)
  BY <1>7, <1>8 DEF Rows, MetadataSequence
<1>10. \A k : RegisterOf(win, k)' = RegisterOf(win, k)
  BY <1>7, <1>8 DEF RegisterOf
<1>11. ASSUME NEW k \in Rows(win)
       PROVE  /\ win'.label[k] = win.label[k] \/ (k = i /\ win'.label[k] = register)
              /\ k = i => win'.label[k] = register
  BY <1>1, <1>7, <1>8 DEF WindowTypeOK
<1>12. RegisterOf(win, i) = register /\ i \in Int
  BY <1>6 DEF RegisterOf
<1>13. MetadataSequence(win).last = win.start + win.count - 1
  BY DEF MetadataSequence
<1>14. LabelsMatch'
  BY <1>1, <1>9, <1>10, <1>11, <1>12 DEF LabelsMatch
<1>15. ASSUME ~torn
       PROVE  i \in Rows(win) /\ (register = last <=> i = win.count)
  <2>1. last = win.start + win.count - 1 /\ win.start <= register
    BY <1>1, <1>4, <1>13, <1>15 DEF SequencesInv
  <2> QED
    BY <1>6, <2>1 DEF Rows
<1>16. MetadataComplete'
  <2> SUFFICES ASSUME win'.have_metadata, ~torn', NEW k \in Rows(win) PROVE win'.label[k] # 0
    BY <1>9 DEF MetadataComplete
  <2>1. ~torn
    BY <1>2
  <2>2. CASE win.have_metadata
    BY <1>1, <1>6, <1>11, <2>1, <2>2 DEF MetadataComplete
  <2>3. CASE i = win.count
    <3>1. CASE k = i
      BY <1>6, <1>11, <3>1
    <3>2. CASE k # i
      <4>1. RegisterOf(win, k) < register
        BY <1>6, <2>3, <3>2 DEF Rows, RegisterOf
      <4>2. win.label[k] # 0
        BY <1>1, <1>3, <2>1, <4>1 DEF SequencesInv
      <4> QED
        BY <1>11, <3>2, <4>2
    <3> QED
      BY <3>1, <3>2
  <2> QED
    BY <1>7, <1>8, <2>2, <2>3
<1>17. FlightInv'
  BY <1>2, NoFlightIs DEF FlightInv
<1> HIDE DEF i, last, register
<1>18. CASE register = last
  <2>1. sequences' = Tail(sequences)
    BY <1>2, <1>3, <1>4, <1>18 DEF last
  <2>2. /\ Tail(sequences) \in Seq(Sequences) /\ Len(Tail(sequences)) <= MaxSequences
        /\ \A k \in DOMAIN Tail(sequences) :
              /\ Tail(sequences)[k].next <= Tail(sequences)[k].last
              /\ ~torn => /\ Tail(sequences)[k].last = MetadataSequence(win).last
                          /\ Tail(sequences)[k].next = win.start
        /\ ~torn /\ Tail(sequences) # <<>> => Head(Tail(sequences)).next = win.start
    BY <1>1, <1>3, SequencePopped
  <2>3. LinkTypeOK'
    BY <1>1, <1>2, <1>8, <2>1, <2>2, NoFlightIs DEF TypeOK, LinkTypeOK, Sequences
  <2>4. RefreshTracked'
    <3> SUFFICES ASSUME connected', win'.meta_in_process
                 PROVE  \E k \in DOMAIN Tail(sequences) :
                           Tail(sequences)[k].last = MetadataSequence(win).last
      BY <1>9, <2>1 DEF RefreshTracked
    <3>1. connected /\ win.meta_in_process /\ i \in Rows(win) /\ i # win.count
      BY <1>2, <1>7, <1>8
    <3>2. PICK k \in DOMAIN sequences : sequences[k].last = MetadataSequence(win).last
      BY <1>1, <3>1 DEF RefreshTracked
    <3>3. k # 1
      <4>1. RegisterOf(win, win.count) = MetadataSequence(win).last
        BY <1>13 DEF RegisterOf
      <4>2. register # MetadataSequence(win).last
        BY <1>6, <1>12, <1>13, <3>1 DEF RegisterOf
      <4> QED
        BY <1>18, <3>2, <4>2 DEF last
    <3>4. /\ k - 1 \in DOMAIN Tail(sequences) /\ Tail(sequences)[k - 1] = sequences[k]
      <4>1. k \in 1..Len(sequences)
        BY <1>4
      <4>2. k - 1 \in 1..(Len(sequences) - 1) /\ (k - 1) + 1 = k
        BY <1>4, <3>3, <4>1
      <4>3. /\ Tail(sequences) \in Seq(Sequences) /\ Len(Tail(sequences)) = Len(sequences) - 1
            /\ \A j \in DOMAIN Tail(sequences) : Tail(sequences)[j] = sequences[j + 1]
        BY <1>3, <1>4, TailIs
      <4>4. k - 1 \in DOMAIN Tail(sequences)
        BY <4>2, <4>3, LenProperties
      <4> QED
        BY <4>2, <4>3, <4>4
    <3> QED
      BY <3>2, <3>4
  <2>5. SequencesInv'
    <3>1. \A k \in Rows(win) : ~(RegisterOf(win, k) < win.start) /\ win.start <= win.start
      BY <1>6 DEF Rows, RegisterOf
    <3>2. win.start <= win.start
      BY <1>6
    <3>3. win'.start = win.start
      BY <1>7, <1>8
    <3> QED
      BY <1>2, <1>9, <1>10, <2>1, <2>2, <3>1, <3>2, <3>3 DEF SequencesInv
  <2>6. TypeOK'
    BY <1>7, <1>8, <2>3 DEF TypeOK
  <2> QED
    BY <1>7, <1>8, <1>14, <1>16, <1>17, <2>4, <2>5, <2>6, Quiet, SMTT(30) DEF MetadataInv
<1>19. CASE register # last
  <2> DEFINE s == [sequences EXCEPT ![1].next = @ + 1]
  <2>1. sequences' = s
    BY <1>2, <1>3, <1>4, <1>19 DEF last
  <2>2. register + 1 \in Registers /\ register + 1 <= last
    BY <1>4, <1>6, <1>19 DEF Registers
  <2>3. /\ s \in Seq(Sequences) /\ Len(s) = Len(sequences) /\ DOMAIN s = DOMAIN sequences
        /\ s # <<>> /\ Head(s) = s[1]
        /\ \A k \in DOMAIN sequences : s[k].last = sequences[k].last
        /\ \A k \in DOMAIN sequences : k # 1 => s[k].next = sequences[k].next
        /\ s[1].next = register + 1
    <3> DEFINE first == [sequences[1] EXCEPT !.next = @ + 1]
    <3>1. first \in Sequences /\ first.last = last /\ first.next = register + 1
      BY <1>4, <2>2 DEF Sequences, last
    <3>2. s = [sequences EXCEPT ![1] = first]
      OBVIOUS
    <3> HIDE DEF first
    <3>3. s \in Seq(Sequences) /\ Len(s) = Len(sequences)
      BY <1>4, <3>1, <3>2, ExceptSeq
    <3>4. DOMAIN s = DOMAIN sequences /\ \A k \in DOMAIN sequences : s[k] = IF k = 1 THEN first ELSE sequences[k]
      BY <1>4, <3>2
    <3> HIDE DEF s
    <3>5. s # <<>> /\ Head(s) = s[1]
      BY <1>4, <3>3, <3>4
    <3> QED
      BY <1>4, <3>1, <3>3, <3>4, <3>5 DEF last
  <2> HIDE DEF s
  <2>4. Len(s) <= MaxSequences
    BY <1>1, <2>3, SMTT(30) DEF TypeOK, LinkTypeOK
  <2>5. TypeOK'
    BY <1>1, <1>2, <1>7, <1>8, <2>1, <2>3, <2>4, NoFlightIs DEF TypeOK, LinkTypeOK, Sequences
  <2>6. RefreshTracked'
    <3> SUFFICES ASSUME connected', win'.meta_in_process
                 PROVE  \E k \in DOMAIN s : s[k].last = MetadataSequence(win).last
      BY <1>9, <2>1 DEF RefreshTracked
    <3>1. connected /\ win.meta_in_process
      BY <1>2, <1>7, <1>8
    <3>2. PICK k \in DOMAIN sequences : sequences[k].last = MetadataSequence(win).last
      BY <1>1, <3>1 DEF RefreshTracked
    <3> QED
      BY <2>3, <3>2
  <2>7. \A k \in DOMAIN s : s[k].next <= s[k].last
    <3>1. ASSUME NEW k \in DOMAIN s PROVE s[k].next <= s[k].last
      <4>1. CASE k = 1
        BY <1>4, <2>2, <2>3, <4>1 DEF last
      <4>2. CASE k # 1
        BY <1>1, <2>3, <4>2 DEF SequencesInv
      <4> QED
        BY <4>1, <4>2
    <3> QED
      BY <3>1
  <2>8. ASSUME ~torn, NEW k \in DOMAIN s
        PROVE  /\ s[k].last = MetadataSequence(win).last /\ win.start <= s[k].next
               /\ k > 1 => s[k].next = win.start
    <3>1. s[k].last = MetadataSequence(win).last
      BY <1>1, <2>3, <2>8 DEF SequencesInv
    <3>2. CASE k = 1
      <4>1. win.start <= register
        BY <1>1, <1>4, <2>8 DEF SequencesInv
      <4>2. win.start <= register + 1 /\ ~(k > 1)
        BY <1>6, <3>2, <4>1
      <4> QED
        BY <2>3, <3>1, <3>2, <4>2
    <3>3. CASE k # 1
      BY <1>1, <2>3, <2>8, <3>1, <3>3 DEF SequencesInv
    <3> QED
      BY <3>2, <3>3
  <2>9. ASSUME ~torn, NEW k \in Rows(win), RegisterOf(win, k) < register + 1
        PROVE  win'.label[k] # 0
    <3>1. CASE k = i
      BY <1>6, <1>11, <3>1
    <3>2. CASE k # i
      <4>1. RegisterOf(win, k) < register
        <5>1. RegisterOf(win, k) # RegisterOf(win, i) /\ RegisterOf(win, k) \in Int
          BY <1>6, <1>12, <3>2 DEF Rows, RegisterOf
        <5> QED
          BY <1>6, <1>12, <2>9, <5>1
      <4>2. win.label[k] # 0
        BY <1>1, <1>3, <2>9, <4>1 DEF SequencesInv, register
      <4> QED
        BY <1>11, <3>2, <4>2
    <3> QED
      BY <3>1, <3>2
  <2>10. SequencesInv'
    <3>1. win'.start = win.start
      BY <1>7, <1>8
    <3>2. ~torn => \A k \in DOMAIN s :
                      /\ s[k].last = MetadataSequence(win).last /\ win.start <= s[k].next
                      /\ k > 1 => s[k].next = win.start
      BY <2>8
    <3>3. ~torn => \A k \in Rows(win) : RegisterOf(win, k) < Head(s).next => win'.label[k] # 0
      BY <2>3, <2>9
    <3>4. torn' = torn
      BY <1>2
    <3> QED
      BY <1>9, <1>10, <2>1, <2>7, <3>1, <3>2, <3>3, <3>4 DEF SequencesInv
  <2> QED
    BY <1>7, <1>8, <1>14, <1>16, <1>17, <2>5, <2>6, <2>10, Quiet DEF MetadataInv
<1> QED
  BY <1>18, <1>19

-----------------------------------------------------------------------------
(* Values from the device, and the user at the rows.                       *)

\* A step of the window that is about neither metadata nor requests, except that
\* one may have been answered.
LEMMA RowsStep ==
    ASSUME RegisterInv, NEW v, WindowTypeOK(v), Becomes(v), MetadataKept(win, v),
           v.meta_in_process = win.meta_in_process,
           UNCHANGED <<connected, sequences, torn>>, flight' \in {flight, NoFlight},
           EditingInv', DeviceNeverWrites'
    PROVE  RegisterInv'
<1>1. win' = v /\ unanswered' \in Nat
  BY Counted DEF RegisterInv
<1>2. flight' \in Flights /\ (flight' = flight \/ flight'.kind # "meta")
  BY NoFlightIs DEF RegisterInv, TypeOK, LinkTypeOK
<1>3. TypeOK'
  BY <1>1, <1>2 DEF RegisterInv, TypeOK, LinkTypeOK
<1>4. MetadataInv'
  BY <1>1, <1>2, MetadataSame DEF RegisterInv
<1> QED
  BY <1>3, <1>4 DEF RegisterInv

LEMMA PolledKeeps ==
    ASSUME RegisterInv, NEW v, Polled(Now, v), Becomes(v),
           UNCHANGED <<connected, sequences, torn>>, flight' \in {flight, NoFlight}
    PROVE  RegisterInv'
<1>1. WindowTypeOK(win) /\ WindowTypeOK(v) /\ win' = v
  BY DEF RegisterInv, TypeOK, Polled, Becomes
<1>2. /\ v.kind = win.kind /\ v.start = win.start /\ v.count = win.count /\ v.node = win.node
      /\ v.index = win.index /\ v.label = win.label
      /\ v.have_metadata = win.have_metadata /\ v.meta_in_process = win.meta_in_process
      /\ v.active_index = win.active_index /\ v.timer = win.timer /\ v.focus = win.focus
  BY <1>1, NowIs DEF Polled
<1>3. (\A i \in Rows(win) : win.index[i] = i) => v.writes = <<>>
  BY <1>1, NowIs DEF Polled
<1>4. Rows(win)' = Rows(win)
  BY <1>1, <1>2 DEF Rows
<1>5. EditingInv'
  BY <1>1, <1>2, <1>4 DEF EditingInv, RegisterInv
<1>6. RowIndex' => win'.writes = <<>>
  BY <1>1, <1>2, <1>3, <1>4 DEF RowIndex
<1>7. DeviceNeverWrites'
  BY <1>6 DEF DeviceNeverWrites
<1> QED
  BY <1>1, <1>2, <1>5, <1>7, RowsStep DEF MetadataKept

LEMMA ReadAnsweredPolls ==
    ASSUME RegisterInv, ReadAnswered
    PROVE  /\ Polled(Now, win') /\ Becomes(win') /\ flight' = NoFlight
           /\ UNCHANGED <<connected, sequences, torn>>
<1>1. PICK values \in [1..flight.count -> DeviceWords] :
         Becomes(NewValues(Now, flight.first, values, flight.node))
  BY DEF ReadAnswered
<1>2. flight.count \in Nat /\ flight.first \in Int
  <2>1. /\ flight.count \in 0..MaxCount /\ flight.first \in 0..(LastRegister + MaxCount - 1)
    BY DEF RegisterInv, TypeOK, LinkTypeOK, Flights
  <2>2. MaxCount \in Nat /\ LastRegister \in Nat
    BY WindowAssumption
  <2> QED
    BY <2>1, <2>2
<1>3. WindowTypeOK(Now)
  BY NowIs DEF RegisterInv, TypeOK
<1>4. Polled(Now, NewValues(Now, flight.first, values, flight.node))
  BY <1>2, <1>3, AnswerTaken
<1> QED
  BY <1>1, <1>4 DEF ReadAnswered, Becomes

LEMMA OtherValuePolls ==
    ASSUME RegisterInv, NEW register \in Registers, NEW value \in DeviceWords, NEW node \in Nodes,
           OtherValue(register, value, node)
    PROVE  /\ Polled(Now, win') /\ Becomes(win') /\ flight' = flight
           /\ UNCHANGED <<connected, sequences, torn>>
<1>1. WindowTypeOK(Now) /\ register \in Int
  BY NowIs DEF RegisterInv, TypeOK, Registers
<1>2. Polled(Now, on_new_value(Now, register, value, node))
  BY <1>1, NewValue
<1> QED
  BY <1>2 DEF OtherValue, Becomes

LEMMA SelectNodeKeeps ==
    ASSUME RegisterInv, NEW node \in Nodes, SelectNode(node)
    PROVE  RegisterInv'
<1> DEFINE v == [Now EXCEPT !.node_select = node]
<1>1. WindowTypeOK(win) /\ Becomes(v) /\ UNCHANGED <<connected, flight, sequences, torn>>
  BY DEF RegisterInv, TypeOK, SelectNode
<1>2. /\ WindowTypeOK(v) /\ MetadataKept(win, v) /\ v.meta_in_process = win.meta_in_process
      /\ v.writes = <<>> /\ v.kind = win.kind /\ v.count = win.count /\ v.index = win.index
      /\ v.active_index = win.active_index /\ v.timer = win.timer /\ v.focus = win.focus
  BY <1>1, NowIs DEF WindowTypeOK, Windows, Rows, MetadataKept
<1> HIDE DEF v
<1>3. win' = v
  BY <1>1 DEF Becomes
<1>4. EditingInv'
  BY <1>2, <1>3 DEF EditingInv, RegisterInv, Rows
<1> QED
  BY <1>1, <1>2, <1>3, <1>4, NoneWritten, RowsStep

\* What the user's click on the check box of a row does.
LEMMA ToggleKeeps ==
    ASSUME RegisterInv, NEW i \in Rows(win), Toggle(i)
    PROVE  RegisterInv'
<1> DEFINE on == 1 - ToInt(win.text[i])
           u == [Now EXCEPT !.text[i] = Decimal(on)]
           k == win.index[i]
           v == SetChecked(Now, i, on, "user")
<1>1. /\ WindowTypeOK(win) /\ win.kind = "coils" /\ Becomes(v)
      /\ UNCHANGED <<connected, flight, sequences, torn>>
  BY NowIs DEF RegisterInv, TypeOK, Toggle, ToggleCheckbox
<1>2. on \in {0, 1} /\ Decimal(on) \in Boxes
  <2>1. win.text[i] \in Boxes
    BY <1>1 DEF WindowTypeOK, Boxes
  <2> QED
    BY <2>1, DecimalRead DEF Boxes
<1> HIDE DEF on
<1>3. /\ WindowTypeOK(u) /\ MetadataKept(win, u) /\ u.meta_in_process = win.meta_in_process
      /\ u.writes = <<>> /\ u.kind = win.kind /\ u.count = win.count /\ u.index = win.index
      /\ u.active_index = win.active_index /\ u.timer = win.timer /\ u.focus = win.focus
  BY <1>1, <1>2, NowIs DEF WindowTypeOK, Windows, Rows, MetadataKept, Boxes
<1>4. k \in 1..(MaxCount + 1)
  BY <1>1 DEF WindowTypeOK
<1>5. v = Now \/ v = on_checkbox_checked(u, k, "user")
  BY <1>1, <1>3, NowIs DEF SetChecked
<1> HIDE DEF u, k, v
<1>6. PICK writes \in Seq(Writes), undefined \in BOOLEAN :
         /\ on_checkbox_checked(u, k, "user") = Wrote(u, writes, undefined)
         /\ writes # u.writes => writes = Append(u.writes, [register |-> RegisterOf(u, k),
                                                  value |-> ToInt(u.text[k]), by |-> "user"])
  BY <1>1, <1>3, <1>4, CheckboxRead, Zenon
<1>7. \A j \in DOMAIN writes : writes[j].by = "user"
  <2>1. CASE writes = <<>>
    BY <2>1
  <2>2. CASE writes # <<>>
    <3> DEFINE write == [register |-> RegisterOf(u, k), value |-> ToInt(u.text[k]), by |-> "user"]
    <3>1. write.by = "user" /\ writes = Append(<<>>, write)
      BY <1>3, <1>6, <2>2
    <3> HIDE DEF write
    <3>2. Append(<<>>, write) = <<write>>
      OBVIOUS
    <3> QED
      BY <3>1, <3>2
  <2> QED
    BY <2>1, <2>2
<1>8. /\ WindowTypeOK(v) /\ MetadataKept(win, v) /\ v.meta_in_process = win.meta_in_process
      /\ v.kind = win.kind /\ v.count = win.count /\ v.index = win.index
      /\ v.active_index = win.active_index /\ v.timer = win.timer /\ v.focus = win.focus
      /\ \A j \in DOMAIN v.writes : v.writes[j].by = "user"
  <2>1. CASE v = Now
    BY <1>1, <2>1, NowIs DEF MetadataKept
  <2>2. CASE v = Wrote(u, writes, undefined)
    <3> DEFINE w == Wrote(u, writes, undefined)
    <3>1. WindowTypeOK(w) /\ w.writes = writes
      BY <1>3, WroteIs
    <3>2. /\ MetadataKept(u, w) /\ w.meta_in_process = u.meta_in_process
          /\ w.kind = u.kind /\ w.count = u.count /\ w.index = u.index
          /\ w.active_index = u.active_index /\ w.timer = u.timer /\ w.focus = u.focus
      BY <1>3 DEF WindowTypeOK, Windows, Wrote, MetadataKept
    <3> HIDE DEF w
    <3> QED
      BY <1>3, <1>7, <2>2, <3>1, <3>2 DEF MetadataKept, w
  <2> QED
    BY <1>5, <1>6, <2>1, <2>2
<1>9. win' = v
  BY <1>1 DEF Becomes
<1>10. EditingInv'
  BY <1>8, <1>9 DEF EditingInv, RegisterInv, Rows
<1>11. DeviceNeverWrites'
  BY <1>8, <1>9 DEF DeviceNeverWrites
<1> QED
  BY <1>1, <1>8, <1>10, <1>11, RowsStep

RowTexts(text) ==
    text \in [Rows(win) -> IF win.kind = "coils" THEN {Decimal(0), Decimal(1)} ELSE Texts]

\* The window of a handler about the row that is edited.
Edited(text, focus, active_index, timer, undefined, writes) ==
    [Now EXCEPT !.text = text, !.focus = focus, !.active_index = active_index, !.timer = timer,
                !.undefined = undefined, !.writes = writes]

LEMMA EditedIs ==
    ASSUME WindowTypeOK(win), NEW focus \in 0..MaxCount, NEW active_index \in 0..MaxCount,
           NEW timer \in BOOLEAN, NEW undefined \in BOOLEAN, NEW writes \in Seq(Writes),
           NEW text,
           RowTexts(text),
           NEW v, v = Edited(text, focus, active_index, timer, undefined, writes)
    PROVE  /\ WindowTypeOK(v) /\ MetadataKept(win, v) /\ v.meta_in_process = win.meta_in_process
           /\ v.kind = win.kind /\ v.count = win.count /\ v.index = win.index
           /\ v.active_index = active_index /\ v.timer = timer /\ v.focus = focus
           /\ v.writes = writes
<1> DEFINE w == Edited(text, focus, active_index, timer, undefined, writes)
<1>1. /\ WindowTypeOK(w) /\ MetadataKept(win, w) /\ w.meta_in_process = win.meta_in_process
      /\ w.kind = win.kind /\ w.count = win.count /\ w.index = win.index
      /\ w.active_index = active_index /\ w.timer = timer /\ w.focus = focus
      /\ w.writes = writes
  BY NowIs, ZenonT(60) DEF Edited, WindowTypeOK, Windows, Rows, MetadataKept, RowTexts
<1> QED
  BY <1>1

\* Such a handler keeps the invariant if it leaves the editing coherent.
LEMMA EditStep ==
    ASSUME RegisterInv, NEW focus \in {NoRow} \cup Rows(win), NEW active_index \in 0..MaxCount,
           NEW timer \in BOOLEAN, NEW undefined \in BOOLEAN, NEW writes \in Seq(Writes),
           NEW text,
           RowTexts(text),
           Becomes(Edited(text, focus, active_index, timer, undefined, writes)),
           UNCHANGED <<connected, flight, sequences, torn>>,
           timer => win.kind = "holding",
           active_index # NoRow =>
               /\ timer /\ active_index \in Rows(win)
               /\ focus # NoRow /\ active_index = win.index[focus],
           \A j \in DOMAIN writes : writes[j].by = "user"
    PROVE  RegisterInv'
<1> DEFINE v == Edited(text, focus, active_index, timer, undefined, writes)
<1>1. WindowTypeOK(win)
  BY DEF RegisterInv, TypeOK
<1>2. focus \in 0..MaxCount
  BY <1>1, Sizes DEF Rows, NoRow
<1>3. /\ WindowTypeOK(v) /\ MetadataKept(win, v) /\ v.meta_in_process = win.meta_in_process
      /\ v.kind = win.kind /\ v.count = win.count /\ v.index = win.index
      /\ v.active_index = active_index /\ v.timer = timer /\ v.focus = focus
      /\ v.writes = writes
  BY <1>1, <1>2, EditedIs
<1> HIDE DEF v
<1>4. win' = v
  BY DEF Becomes, v
<1>5. Rows(win)' = Rows(win)
  BY <1>3, <1>4 DEF Rows
<1>6. EditingInv'
  BY <1>3, <1>4, <1>5 DEF EditingInv
<1>7. DeviceNeverWrites'
  BY <1>3, <1>4 DEF DeviceNeverWrites
<1> QED
  BY <1>3, <1>6, <1>7, RowsStep DEF v

LEMMA QuietEdit ==
    ASSUME RegisterInv, NEW focus \in {NoRow} \cup Rows(win), NEW active_index \in 0..MaxCount,
           NEW timer \in BOOLEAN, NEW undefined \in BOOLEAN, NEW text, RowTexts(text),
           Becomes(Edited(text, focus, active_index, timer, undefined, <<>>)),
           UNCHANGED <<connected, flight, sequences, torn>>,
           timer => win.kind = "holding",
           active_index # NoRow =>
               /\ timer /\ active_index \in Rows(win)
               /\ focus # NoRow /\ active_index = win.index[focus]
    PROVE  RegisterInv'
<1>1. <<>> \in Seq(Writes) /\ DOMAIN <<>> = {}
  BY EmptySeq
<1> DEFINE none == <<>>
<1>2. none \in Seq(Writes) /\ \A j \in DOMAIN none : none[j].by = "user"
  BY <1>1
<1>3. Becomes(Edited(text, focus, active_index, timer, undefined, none))
  OBVIOUS
<1> HIDE DEF none
<1> QED
  BY <1>2, <1>3, EditStep

LEMMA WinTypes ==
    ASSUME RegisterInv
    PROVE  /\ WindowTypeOK(win) /\ WindowTypeOK(Now)
           /\ RowTexts(win.text)
           /\ win.focus \in {NoRow} \cup Rows(win)
           /\ win.active_index \in 0..MaxCount /\ win.timer \in BOOLEAN
           /\ win.undefined \in BOOLEAN /\ <<>> \in Seq(Writes)
           /\ NoRow \in 0..MaxCount /\ NoRow \notin Rows(win)
           /\ \A i \in Rows(win) : i \in 0..MaxCount /\ win.index[i] \in 1..(MaxCount + 1)
           /\ Rows(win) \subseteq 0..MaxCount
<1>1. WindowTypeOK(win)
  BY DEF RegisterInv, TypeOK
<1>2. WindowTypeOK(Now) /\ <<>> \in Seq(Writes)
  BY <1>1, NowIs, EmptySeq
<1>3. NoRow \in 0..MaxCount /\ NoRow \notin Rows(win) /\ Rows(win) \subseteq 0..MaxCount
  BY <1>1, Sizes DEF Rows, NoRow
<1>4. win.focus \in {NoRow} \cup Rows(win)
  BY DEF RegisterInv, EditingInv
<1>5. /\ RowTexts(win.text)
      /\ win.active_index \in 0..MaxCount /\ win.timer \in BOOLEAN
      /\ win.undefined \in BOOLEAN
      /\ \A i \in Rows(win) : win.index[i] \in 1..(MaxCount + 1)
  BY <1>1 DEF WindowTypeOK, Windows, RowTexts
<1> QED
  BY <1>1, <1>2, <1>3, <1>4, <1>5

LEMMA TypeKeeps ==
    ASSUME RegisterInv, NEW i \in Rows(win), NEW text \in TypedTexts, Type(i, text)
    PROVE  RegisterInv'
<1> DEFINE texts == [win.text EXCEPT ![i] = text]
           k == win.index[i]
<1>1. /\ win.kind = "holding" /\ win.focus \in {NoRow, i}
      /\ UNCHANGED <<connected, flight, sequences, torn>>
      /\ Becomes(on_register_textEdited(Now, i, text))
  BY DEF Type
<1>2. CASE k \in Rows(win)
  <2>1. on_register_textEdited(Now, i, text) = Edited(texts, i, k, TRUE, win.undefined, <<>>)
    BY <1>2, WinTypes, NowIs DEF on_register_textEdited, Edited, WindowTypeOK, Windows
  <2>2. RowTexts(texts)
    BY <1>1, WinTypes DEF Texts, RowTexts
  <2>3. k \in 0..MaxCount /\ i # NoRow
    BY <1>2, WinTypes
  <2> HIDE DEF texts, k
  <2>4. Becomes(Edited(texts, i, k, TRUE, win.undefined, <<>>))
    BY <1>1, <2>1
  <2> QED
    BY <1>1, <1>2, <2>2, <2>3, <2>4, WinTypes, QuietEdit DEF k
<1>3. CASE k \notin Rows(win)
  <2>1. on_register_textEdited(Now, i, text) =
            Edited(win.text, win.focus, win.active_index, win.timer, TRUE, <<>>)
    BY <1>3, WinTypes, NowIs DEF on_register_textEdited, Edited, WindowTypeOK, Windows
  <2>2. /\ win.timer => win.kind = "holding"
        /\ win.active_index # NoRow =>
              /\ win.timer /\ win.active_index \in Rows(win)
              /\ win.focus # NoRow /\ win.active_index = win.index[win.focus]
    BY DEF RegisterInv, EditingInv
  <2>3. Becomes(Edited(win.text, win.focus, win.active_index, win.timer, TRUE, <<>>))
    BY <1>1, <2>1
  <2> QED
    BY <1>1, <2>2, <2>3, WinTypes, QuietEdit
<1> QED
  BY <1>2, <1>3

LEMMA LeaveKeeps ==
    ASSUME RegisterInv, Leave
    PROVE  RegisterInv'
<1> DEFINE k == win.index[win.focus]
<1>1. /\ win.focus # NoRow /\ UNCHANGED <<connected, flight, sequences, torn>>
      /\ Becomes(FocusLeaves(Now))
  BY DEF Leave
<1>2. CASE k \in Rows(win)
  <2>1. FocusLeaves(Now) = Edited(win.text, NoRow, NoRow, FALSE, win.undefined, <<>>)
    BY <1>2, WinTypes, NowIs
    DEF FocusLeaves, on_register_editingFinished, Edited, WindowTypeOK, Windows
  <2>2. Becomes(Edited(win.text, NoRow, NoRow, FALSE, win.undefined, <<>>))
    BY <1>1, <2>1
  <2> QED
    BY <1>1, <2>2, WinTypes, QuietEdit
<1>3. CASE k \notin Rows(win)
  <2>1. win.active_index = NoRow
    BY <1>3 DEF RegisterInv, EditingInv
  <2>2. FocusLeaves(Now) = Edited(win.text, NoRow, NoRow, win.timer, TRUE, <<>>)
    BY <1>3, <2>1, WinTypes, NowIs
    DEF FocusLeaves, on_register_editingFinished, Edited, WindowTypeOK, Windows
  <2>3. Becomes(Edited(win.text, NoRow, NoRow, win.timer, TRUE, <<>>))
    BY <1>1, <2>2
  <2>4. win.timer => win.kind = "holding"
    BY DEF RegisterInv, EditingInv
  <2> QED
    BY <1>1, <2>3, <2>4, WinTypes, QuietEdit
<1> QED
  BY <1>2, <1>3

LEMMA IdleTimeoutKeeps ==
    ASSUME RegisterInv, IdleTimeout
    PROVE  RegisterInv'
<1>1. /\ UNCHANGED <<connected, flight, sequences, torn>> /\ Becomes(on_timer_expired(Now))
  BY DEF IdleTimeout
<1>2. win.active_index # NoRow => win.active_index \in Rows(win)
  BY DEF RegisterInv, EditingInv
<1>3. on_timer_expired(Now) = Edited(win.text, win.focus, NoRow, FALSE, win.undefined, <<>>)
  BY <1>2, WinTypes, NowIs
  DEF on_timer_expired, on_register_editingFinished, Edited, WindowTypeOK, Windows, Rows
<1>4. Becomes(Edited(win.text, win.focus, NoRow, FALSE, win.undefined, <<>>))
  BY <1>1, <1>3
<1> QED
  BY <1>1, <1>4, WinTypes, QuietEdit

-----------------------------------------------------------------------------
(* Return.                                                                 *)

LEMMA DecodedIs ==
    ASSUME NEW value \in Words, NEW encoding \in Encodings
    PROVE  LET text == decode_register(value, encoding)
           IN  /\ encoding \in Plain => text = Decimal(value)
               /\ encoding = "INT16" => text = Decimal(Signed(value, Word))
               /\ encoding = "BITS" => text = Text("hex", <<value>>)
               /\ encoding \in Bytes => text.form = "pair"
               /\ encoding \in Plain \cup {"INT16", "BITS"} \cup Bytes
<1>1. encoding \in Plain \cup {"INT16", "BITS", "BYTES", "SIGNED_BYTES"}
  BY DEF Encodings, Plain
<1>2. CASE encoding \in Plain
  BY <1>2 DEF decode_register, Plain, Bytes
<1>3. CASE encoding = "INT16"
  BY <1>3 DEF decode_register, Plain, Bytes
<1>4. CASE encoding = "BITS"
  BY <1>4 DEF decode_register, Plain, Bytes
<1>5. CASE encoding = "BYTES"
  BY <1>5 DEF decode_register, Plain, Bytes, Text
<1>6. CASE encoding = "SIGNED_BYTES"
  BY <1>6 DEF decode_register, Plain, Bytes, Text
<1> QED
  BY <1>1, <1>2, <1>3, <1>4, <1>5, <1>6

\* A decimal or hexadecimal text has a number.
LEMMA TextsHaveNumbers ==
    ASSUME NEW text \in Texts, text.form \in {"dec", "hex"}
    PROVE  text.numbers[1] \in Int
<1>1. CASE text \in TypedTexts
  <2>1. text.numbers \in Seq(Int) /\ text.numbers # <<>>
    BY <1>1, PollingAssumption
  <2> QED
    BY <2>1
<1>2. CASE text = Blank
  BY <1>2 DEF Blank, Text
<1>3. CASE text \in {decode_register(v, e) : v \in DeviceWords \cup {0, 1}, e \in Encodings}
  <2>1. PICK v \in DeviceWords \cup {0, 1}, e \in Encodings : text = decode_register(v, e)
    BY <1>3
  <2>2. v \in Words /\ v \in Int
    BY WordsAre, PollingAssumption
  <2>3. Signed(v, Word) \in Int
    BY <2>2, WordsAre DEF Signed
  <2> QED
    BY <2>1, <2>2, <2>3, DecodedIs DEF Decimal, Text
<1> QED
  BY <1>1, <1>2, <1>3 DEF Texts

\* What is written for a text is a word.
LEMMA EncodedIs ==
    ASSUME NEW text \in Texts, NEW encoding \in Encodings,
           NEW values \in encode_register(text, encoding), values # NotParsed
    PROVE  values[1] \in Words
<1>0. Words = 0..(Word - 1) /\ Word \in Nat /\ Word # 0
  BY WordsAre
<1>1. CASE encoding \in Plain \cup {"INT16"}
  <2>1. IsDecimal(text) /\ values = <<ToInt(text) % Word>>
    BY <1>1 DEF encode_register, Plain, Bytes
  <2>2. ToInt(text) \in Int
    BY <2>1, TextsHaveNumbers DEF ToInt, IsDecimal
  <2>3. ToInt(text) % Word \in Words
    BY <1>0, <2>2, Modulo
  <2> QED
    BY <2>1, <2>3
<1>2. CASE encoding = "BITS" /\ text.form = "hex"
  <2>1. values = <<text.numbers[1] % Word>>
    BY <1>2 DEF encode_register, Plain, Bytes
  <2>2. text.numbers[1] % Word \in Words
    BY <1>0, <1>2, TextsHaveNumbers, Modulo
  <2> QED
    BY <2>1, <2>2
<1>3. CASE encoding = "BITS" /\ text.form # "hex"
  <2>1. values \in Misread
    BY <1>3 DEF encode_register, Plain, Bytes
  <2>2. PICK v \in Words : values = <<v>>
    BY <2>1 DEF Misread
  <2> QED
    BY <2>2
<1>4. CASE encoding \in Bytes
  BY <1>4 DEF encode_register, Plain, Bytes
<1> QED
  BY <1>1, <1>2, <1>3, <1>4 DEF Encodings, Plain, Bytes

LEMMA ReturnKeeps ==
    ASSUME RegisterInv, NEW i \in Rows(win), Return(i)
    PROVE  RegisterInv'
<1> DEFINE k == win.index[i]
           done == [on_register_editingFinished(Now, k) EXCEPT !.focus = i]
<1>1. /\ win.kind = "holding" /\ win.focus \in {NoRow, i}
      /\ UNCHANGED <<connected, flight, sequences, torn>>
  BY DEF Return
<1>2. CASE k \notin Rows(win)
  <2>1. win.active_index = NoRow
    BY <1>1, <1>2 DEF RegisterInv, EditingInv
  <2>2. done = Edited(win.text, i, NoRow, win.timer, TRUE, <<>>)
    BY <1>2, <2>1, WinTypes, NowIs
    DEF on_register_editingFinished, Edited, WindowTypeOK, Windows
  <2>3. on_register_returnPressed(Now, i) = {done}
    BY <1>2, WinTypes, NowIs DEF on_register_returnPressed
  <2>4. Becomes(Edited(win.text, i, NoRow, win.timer, TRUE, <<>>))
    BY <2>2, <2>3 DEF Return
  <2> QED
    BY <1>1, <2>4, WinTypes, QuietEdit
<1>3. CASE k \in Rows(win)
  <2> DEFINE undefined == win.undefined
             text == win.text[k]
             encoding == win.encoding[k]
  <2>1. done = Edited(win.text, i, NoRow, FALSE, undefined, <<>>)
    BY <1>3, WinTypes, NowIs
    DEF on_register_editingFinished, Edited, WindowTypeOK, Windows
  <2>2. on_register_returnPressed(Now, i) =
            {IF values = NotParsed THEN done ELSE EmitWrite(done, k, values[1], "user") :
                 values \in encode_register(text, encoding)}
    BY <1>3, WinTypes, NowIs DEF on_register_returnPressed
  <2> HIDE DEF done, k
  <2>3. PICK values \in encode_register(text, encoding) :
            Becomes(IF values = NotParsed THEN done ELSE EmitWrite(done, k, values[1], "user"))
    BY <2>2 DEF Return
  <2>4. CASE values = NotParsed
    <3>1. Becomes(Edited(win.text, i, NoRow, FALSE, undefined, <<>>))
      BY <2>1, <2>3, <2>4
    <3> QED
      BY <1>1, <3>1, WinTypes, QuietEdit
  <2>5. CASE values # NotParsed
    <3> DEFINE write == [register |-> RegisterOf(win, k), value |-> values[1], by |-> "user"]
               one == Append(<<>>, write)
    <3>1. text \in Texts /\ encoding \in Encodings
      BY <1>1, <1>3, WinTypes DEF WindowTypeOK
    <3>2. values[1] \in Words
      BY <2>5, <3>1, EncodedIs
    <3>3. write \in Writes /\ write.by = "user"
      BY <1>3, <3>2, WinTypes, RowRegisters DEF Writes
    <3>4. EmitWrite(done, k, values[1], "user") = Edited(win.text, i, NoRow, FALSE, undefined, one)
      BY <2>1, WinTypes, NowIs DEF EmitWrite, Edited, RegisterOf, WindowTypeOK, Windows
    <3> HIDE DEF write
    <3>5. one \in Seq(Writes) /\ \A j \in DOMAIN one : one[j].by = "user"
      BY <3>3
    <3> HIDE DEF one
    <3>6. Becomes(Edited(win.text, i, NoRow, FALSE, undefined, one))
      BY <2>3, <2>5, <3>4
    <3> QED
      BY <1>1, <3>5, <3>6, WinTypes, EditStep
  <2> QED
    BY <2>4, <2>5
<1> QED
  BY <1>2, <1>3

\* A value read, shown and encoded again is the value, or nothing.
LEMMA ReadBack ==
    ASSUME NEW value \in Words, NEW encoding \in Encodings
    PROVE  encode_register(decode_register(value, encoding), encoding)
               \subseteq {<<value>>, NotParsed}
<1> DEFINE text == decode_register(value, encoding)
           result == encode_register(text, encoding)
<1>1. Word \in Nat \ {0} /\ value \in 0..(Word - 1)
  BY WordsAre
<1>2. value % Word = value /\ Signed(value, Word) \in Int /\ Signed(value, Word) % Word = value
  BY <1>1, SignedBack
<1>3. value \in Int
  BY <1>1
<1>4. CASE encoding \in Plain
  <2>1. IsDecimal(text) /\ ToInt(text) = value
    BY <1>3, <1>4, DecodedIs, DecimalRead
  <2> HIDE DEF text
  <2>2. result = {<<value>>}
    BY <1>2, <1>4, <2>1 DEF encode_register, Plain, Bytes
  <2> QED
    BY <2>2 DEF text
<1>5. CASE encoding = "INT16"
  <2>1. IsDecimal(text) /\ ToInt(text) = Signed(value, Word)
    BY <1>2, <1>5, DecodedIs, DecimalRead
  <2> HIDE DEF text
  <2>2. result = {<<value>>}
    BY <1>2, <1>5, <2>1 DEF encode_register, Plain, Bytes
  <2> QED
    BY <2>2 DEF text
<1>6. CASE encoding = "BITS"
  <2>1. text.form = "hex" /\ text.numbers[1] = value
    BY <1>6, DecodedIs DEF Text
  <2> HIDE DEF text
  <2>2. result = {<<value>>}
    BY <1>2, <1>6, <2>1 DEF encode_register, Plain, Bytes
  <2> QED
    BY <2>2 DEF text
<1>7. CASE encoding \in Bytes
  <2> HIDE DEF text
  <2>1. result = {NotParsed}
    BY <1>7 DEF encode_register, Plain, Bytes
  <2> QED
    BY <2>1 DEF text
<1> QED
  BY <1>4, <1>5, <1>6, <1>7, DecodedIs

-----------------------------------------------------------------------------
(* Theorems.                                                               *)

LEMMA InitHolds == Init => RegisterInv
<1> SUFFICES ASSUME Init PROVE RegisterInv
  OBVIOUS
<1>1. PICK kind \in Kinds, count \in Counts : win = NewWindow(kind, 1, count, Node)
  BY DEF Init
<1>2. /\ connected = FALSE /\ flight = NoFlight /\ sequences = <<>> /\ unanswered = 0
      /\ torn = FALSE
  BY DEF Init
<1>3. /\ count \in Nat /\ count \in 1..MaxCount /\ 1 \in 1..LastRegister /\ Node \in Nodes
      /\ MaxCount \in Nat /\ \A i \in 1..count : i \in 1..(MaxCount + 1)
  BY WindowAssumption, PollingAssumption
<1> DEFINE Values == IF kind = "coils" THEN {Decimal(0), Decimal(1)} ELSE Texts
           raw == [i \in 1..count |-> 0]
           encoding == [i \in 1..count |-> "NONE"]
           text == [i \in 1..count |-> NewText(kind)]
           index == [i \in 1..count |-> i]
           remote_state == [r \in Registers |-> FALSE]
<1>4. /\ raw \in [1..count -> DeviceWords \cup {0}] /\ encoding \in [1..count -> Encodings]
      /\ text \in [1..count -> Values] /\ index \in [1..count -> 1..(MaxCount + 1)]
      /\ raw \in [1..count -> {0} \cup Registers] /\ \A i \in 1..count : raw[i] = 0
  BY <1>3 DEF Encodings, NewText, Texts
<1>5. remote_state \in [Registers -> BOOLEAN] /\ <<>> \in Seq(Writes) /\ NoRow \in 0..MaxCount
  BY <1>3, EmptySeq DEF NoRow
<1>6. win = [kind |-> kind, start |-> 1, count |-> count, node |-> Node, node_select |-> Node,
             raw |-> raw, encoding |-> encoding, text |-> text, index |-> index, label |-> raw,
             have_metadata |-> FALSE, meta_in_process |-> FALSE, active_index |-> NoRow,
             timer |-> FALSE, focus |-> NoRow, remote_state |-> remote_state,
             writes |-> <<>>, undefined |-> FALSE]
  BY <1>1 DEF NewWindow
<1> HIDE DEF Values, raw, encoding, text, index, remote_state
<1>7. WindowTypeOK(win)
  <2>1. win \in Windows(win)
    BY <1>3, <1>5, <1>6 DEF Windows
  <2> QED
    BY <1>4, <1>6, <2>1 DEF WindowTypeOK, Rows, Values
<1>8. LinkTypeOK
  <2>1. <<>> \in Seq(Sequences) /\ Len(<<>>) = 0 /\ MaxSequences \in Nat
    BY EmptySeq, PollingAssumption
  <2>2. sequences \in Seq(Sequences) /\ Len(sequences) <= MaxSequences
    BY <1>2, <2>1
  <2> QED
    BY <1>2, <2>2, NoFlightIs DEF LinkTypeOK, Sequences
<1>9. DeviceNeverWrites /\ EditingInv
  BY <1>6 DEF DeviceNeverWrites, EditingInv
<1>10. \A i \in Rows(win) : win.label[i] = 0
  BY <1>4, <1>6 DEF Rows
<1>11. RefreshTracked /\ LabelsMatch /\ MetadataComplete
  BY <1>2, <1>6, <1>10 DEF RefreshTracked, LabelsMatch, MetadataComplete
<1>12. FlightInv
  BY <1>2, NoFlightIs DEF FlightInv
<1>13. SequencesInv
  <2>1. DOMAIN sequences = {}
    BY <1>2
  <2> QED
    BY <1>2, <2>1 DEF SequencesInv
<1> QED
  BY <1>7, <1>8, <1>9, <1>11, <1>12, <1>13 DEF RegisterInv, MetadataInv, TypeOK

LEMMA UserStepKeeps ==
    ASSUME RegisterInv, UserStep
    PROVE  RegisterInv'
<1>1. CASE \E node \in Nodes : SelectNode(node)
  BY <1>1, SelectNodeKeeps
<1>2. CASE \E start \in Starts, count \in Counts : Apply(start, count)
  BY <1>2, ApplyKeeps
<1>3. CASE Refresh
  BY <1>3, RefreshKeeps
<1>4. CASE \E i \in Rows(win) : Return(i) \/ Toggle(i) \/ \E text \in TypedTexts : Type(i, text)
  BY <1>4, ReturnKeeps, ToggleKeeps, TypeKeeps
<1>5. CASE Leave
  BY <1>5, LeaveKeeps
<1>6. CASE Connect
  BY <1>6, ConnectKeeps
<1>7. CASE Disconnect
  BY <1>7, DisconnectKeeps
<1> QED
  BY <1>1, <1>2, <1>3, <1>4, <1>5, <1>6, <1>7 DEF UserStep

LEMMA SystemStepKeeps ==
    ASSUME RegisterInv, SystemStep
    PROVE  RegisterInv'
<1>1. CASE StartMetadata
  BY <1>1, StartMetadataKeeps
<1>2. CASE StartRead
  BY <1>2, StartReadKeeps
<1>3. CASE WriteAnswered \/ WriteFails
  BY <1>3, WriteEndsKeeps
<1>4. CASE MetadataAnswered
  BY <1>4, MetadataAnsweredKeeps
<1>5. CASE ReadAnswered
  BY <1>5, ReadAnsweredPolls, PolledKeeps
<1>6. CASE RequestFails
  BY <1>6, RequestFailsKeeps
<1>7. CASE \E register \in Registers, value \in DeviceWords, node \in Nodes :
              OtherValue(register, value, node)
  BY <1>7, OtherValuePolls, PolledKeeps
<1>8. CASE IdleTimeout
  BY <1>8, IdleTimeoutKeeps
<1> QED
  BY <1>1, <1>2, <1>3, <1>4, <1>5, <1>6, <1>7, <1>8 DEF SystemStep, Serve

LEMMA StutterKeeps ==
    ASSUME RegisterInv, UNCHANGED vars
    PROVE  RegisterInv'
<1>1. UNCHANGED <<win, connected, flight, sequences, unanswered, torn>>
  BY DEF vars, linkVars
<1>2. Rows(win)' = Rows(win) /\ MetadataSequence(win)' = MetadataSequence(win)
  BY <1>1 DEF Rows, MetadataSequence
<1>3. TypeOK' /\ EditingInv'
  BY <1>1, <1>2 DEF RegisterInv, TypeOK, LinkTypeOK, EditingInv
<1>4. DeviceNeverWrites'
  BY <1>1, <1>2 DEF RegisterInv, DeviceNeverWrites, RowIndex
<1>5. MetadataInv'
  BY <1>1, MetadataSame DEF RegisterInv, MetadataKept
<1> QED
  BY <1>3, <1>4, <1>5 DEF RegisterInv

\* The inductive invariant holds of every step of the window and its scheduler.
THEOREM RegisterInvariant == Spec => []RegisterInv
<1>1. RegisterInv /\ [Next]_vars => RegisterInv'
  BY UserStepKeeps, SystemStepKeeps, StutterKeeps DEF Next, Ended
<1> QED
  BY <1>1, InitHolds, PTL DEF Spec

\* Whatever the user and the device do, the window's rows, its requests and the
\* queue of metadata sequences stay what their types say (register_display.h).
THEOREM RegisterTypes == Spec => []TypeOK
<1>1. RegisterInv => TypeOK
  BY DEF RegisterInv
<1> QED
  BY <1>1, RegisterInvariant, PTL

\* With the rows' own indices captured, no value that a device delivers makes
\* CoilsDisplay write it back: m_remote_state is noted before the check box is set.
THEOREM PollsNeverWrite == Spec => []DeviceNeverWrites
<1>1. RegisterInv => DeviceNeverWrites
  BY DEF RegisterInv
<1> QED
  BY <1>1, RegisterInvariant, PTL

\* m_meta_in_process is set on a polled window only while the scheduler still has a
\* sequence that ends where the window's rows do: the Requery button is not dead.
THEOREM RequeryAlive == Spec => []RefreshTracked
<1>1. RegisterInv => RefreshTracked
  BY DEF RegisterInv, MetadataInv
<1> QED
  BY <1>1, RegisterInvariant, PTL

\* A description is that of the register in its row, through Apply, answers that
\* come after it and failed sequences.
THEOREM LabelsStay == Spec => []LabelsMatch
<1>1. RegisterInv => LabelsMatch
  BY DEF RegisterInv, MetadataInv
<1> QED
  BY <1>1, RegisterInvariant, PTL

\* m_have_metadata is set when the last row is described; the rows before it are
\* by then, unless Apply was clicked while a sequence was queued.
THEOREM MetadataWhole == Spec => []MetadataComplete
<1>1. RegisterInv => MetadataComplete
  BY DEF RegisterInv, MetadataInv
<1> QED
  BY <1>1, RegisterInvariant, PTL

\* With the rows' own indices captured, m_active_index names a row that is there,
\* has the focus and whose idle timer runs.
THEOREM ActiveRowExists == Spec => []EditedRowExists
<1>1. RegisterInv => EditedRowExists
  BY DEF RegisterInv, EditingInv, EditedRowExists, RowIndex
<1> QED
  BY <1>1, RegisterInvariant, PTL

\* Pressing Return on the text of a register just read writes back its very value,
\* for every encoding and every word, or nothing.
THEOREM ReturnWritesBack == Spec => []ReturnIsHarmless
<1>1. TypeOK => ReturnIsHarmless
  <2> SUFFICES ASSUME TypeOK, NEW i \in Rows(win),
                      win.text[i] = decode_register(win.raw[i], win.encoding[i])
               PROVE  encode_register(win.text[i], win.encoding[i])
                          \subseteq {<<win.raw[i]>>, NotParsed}
    BY DEF ReturnIsHarmless
  <2>1. win.raw[i] \in Words /\ win.encoding[i] \in Encodings
    BY PollingAssumption, WordsAre DEF TypeOK, WindowTypeOK
  <2> QED
    BY <2>1, ReadBack
<1> QED
  BY <1>1, RegisterTypes, PTL

\* What is being typed into a holding register survives every step of the scheduler,
\* the device, other windows and the idle timer's expiry.
THEOREM TypingKept == Spec => EditKept
<1> DEFINE Kept == \A i \in Rows(win) : i = win.active_index => win'.text[i] = win.text[i]
<1>1. ASSUME RegisterInv, SystemStep, win.timer, win'.timer PROVE Kept
  <2>1. WindowTypeOK(win) /\ Now.text = win.text /\ win.kind = "holding"
    BY <1>1, NowIs DEF RegisterInv, TypeOK, EditingInv
  <2>2. CASE StartMetadata \/ StartRead \/ WriteAnswered \/ WriteFails
    <3>1. win' = Now \/ win' = [Now EXCEPT !.meta_in_process = FALSE]
      BY <2>2 DEF StartMetadata, StartRead, WriteAnswered, WriteFails, WriteEnds,
                  on_exception_status
    <3> QED
      BY <2>1, <3>1, NowIs DEF WindowTypeOK, Windows
  <2>3. CASE RequestFails
    <3>1. win' = [Now EXCEPT !.meta_in_process = FALSE]
      BY <2>3 DEF RequestFails, Becomes, on_exception_status
    <3> QED
      BY <2>1, <3>1, NowIs DEF WindowTypeOK, Windows
  <2>4. CASE MetadataAnswered
    <3>1. win' = set_metadata(Now, flight.first, flight.node, DeviceEncoding[flight.first])
      BY <2>4 DEF MetadataAnswered, Becomes
    <3>2. win'.text = win.text
      BY <2>1, <3>1, NowIs DEF set_metadata, WindowTypeOK, Windows
    <3> QED
      BY <3>2
  <2>5. ASSUME Polled(Now, win') PROVE Kept
    <3>1. \A i \in Rows(Now) : Now.kind = "holding" /\ Now.timer /\ i = Now.active_index
                                   => win'.text[i] = Now.text[i]
      BY <2>5 DEF Polled
    <3> QED
      BY <1>1, <2>1, <3>1, NowIs, ZenonT(60)
  <2>6. CASE ReadAnswered
    BY <1>1, <2>5, <2>6, ReadAnsweredPolls
  <2>7. CASE \E register \in Registers, value \in DeviceWords, node \in Nodes :
                OtherValue(register, value, node)
    BY <1>1, <2>5, <2>7, OtherValuePolls
  <2>8. CASE IdleTimeout
    <3>1. win' = on_timer_expired(Now)
      BY <2>8 DEF IdleTimeout, Becomes
    <3>2. win.active_index # NoRow => win.active_index \in Rows(win)
      BY <1>1 DEF RegisterInv, EditingInv
    <3>3. ~win'.timer
      BY <2>1, <3>1, <3>2, NowIs
      DEF on_timer_expired, on_register_editingFinished, WindowTypeOK, Windows, Rows
    <3> QED
      BY <1>1, <3>3
  <2> QED
    BY <1>1, <2>2, <2>3, <2>4, <2>6, <2>7, <2>8 DEF SystemStep, Serve
<1>2. RegisterInv => [SystemStep /\ win.timer /\ win'.timer /\ RowIndex => Kept]_vars
  BY <1>1
<1> QED
  BY <1>2, RegisterInvariant, PTL DEF EditKept

=============================================================================
