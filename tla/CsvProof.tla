------------------------------- MODULE CsvProof -------------------------------
(***************************************************************************)
(* Proofs about the import of CSV files, for tables of any size: what is   *)
(* written is what the rows ask for, in writes that are full, and what a   *)
(* register window has exported is read back.                              *)
(***************************************************************************)
EXTENDS CsvRoundTrip, BoundedInduction, FiniteSetTheorems, SequenceTheorems

-----------------------------------------------------------------------------
(* Sequences laid end to end.                                              *)

LEMMA FunctionIsSeq ==
    ASSUME NEW S, NEW n \in Nat, NEW f \in [1..n -> S]
    PROVE  f \in Seq(S) /\ Len(f) = n /\ DOMAIN f = 1..n
OBVIOUS

\* FlattenSeq goes through its sequences one by one.
LEMMA FlattenIs ==
    ASSUME NEW S, NEW seqs \in Seq(Seq(S))
    PROVE  \E f \in [0..Len(seqs) -> Seq(S)] :
              /\ f[0] = <<>> /\ \A i \in 1..Len(seqs) : f[i] = f[i - 1] \o seqs[i]
              /\ FlattenSeq(seqs) = f[Len(seqs)]
<1> DEFINE n == Len(seqs)
           Is(h) == h = [i \in 1..n |-> IF i = 1 THEN seqs[i] ELSE h[i - 1] \o seqs[i]]
           step == [i \in 1..n |-> [s \in Seq(S) |-> s \o seqs[i]]]
<1>1. n \in Nat /\ \A i \in 1..n : seqs[i] \in Seq(S)
  OBVIOUS
<1>2. step \in [1..n -> [Seq(S) -> Seq(S)]]
  BY <1>1
<1>3. PICK f \in [0..n -> Seq(S)] :
          f[0] = <<>> /\ \A i \in 1..n : f[i] = step[i][f[i - 1]]
  <2>1. <<>> \in Seq(S)
    OBVIOUS
  <2> DEFINE X == Seq(S)
             x == <<>>
  <2>2. x \in X /\ n \in Nat /\ step \in [1..n -> [X -> X]]
    BY <1>1, <1>2, <2>1
  <2> HIDE DEF n, step, X, x
  <2>3. \E f \in [0..n -> X] : f[0] = x /\ \A i \in 1..n : f[i] = step[i][f[i - 1]]
    BY <2>2, Iteration, SMTT(60)
  <2> QED
    BY <2>3 DEF X, x
<1>4. \A i \in 1..n : f[i] = f[i - 1] \o seqs[i]
  <2> TAKE i \in 1..n
  <2>1. i - 1 \in 0..n
    BY <1>1
  <2>2. f[i - 1] \in Seq(S)
    BY <1>3, <2>1
  <2> QED
    BY <1>3, <2>2
<1>5. CASE n = 0
  <2>1. seqs = <<>> /\ FlattenSeq(seqs) = seqs
    BY <1>5 DEF FlattenSeq
  <2> QED
    BY <1>3, <1>4, <1>5, <2>1
<1>6. CASE n # 0
  <2> DEFINE g == [i \in 1..n |-> f[i]]
             flatten == CHOOSE h : Is(h)
  <2>1. Is(g)
    <3>1. ASSUME NEW i \in 1..n PROVE f[i] = IF i = 1 THEN seqs[i] ELSE g[i - 1] \o seqs[i]
      <4>1. CASE i = 1
        <5>0. 1 \in 1..n /\ 1 - 1 = 0
          BY <1>1, <4>1
        <5>1. f[1] = <<>> \o seqs[1] /\ seqs[1] \in Seq(S)
          BY <1>1, <1>3, <1>4, <5>0
        <5> QED
          BY <4>1, <5>1, ConcatEmptySeq
      <4>2. CASE i # 1
        <5>1. i - 1 \in 1..n
          BY <1>1, <4>2
        <5> QED
          BY <1>4, <4>2, <5>1
      <4> QED
        BY <4>1, <4>2
    <3> QED
      BY <3>1
  <2>2. FlattenSeq(seqs) = flatten[n]
    BY <1>6 DEF FlattenSeq
  <2> HIDE DEF Is, g
  <2>3. Is(flatten)
    BY <2>1, Zenon
  <2> HIDE DEF flatten
  <2>4. \A i \in 1..n : flatten[i] = IF i = 1 THEN seqs[i] ELSE flatten[i - 1] \o seqs[i]
    BY <2>3 DEF Is
  <2> DEFINE U == {m \in 0..n : m = 0 \/ flatten[m] = f[m]}
  <2>5. 0 \in U
    BY <1>1
  <2>6. ASSUME NEW m \in 0..(n - 1), m \in U PROVE m + 1 \in U
    <3>1. m + 1 \in 1..n /\ (m + 1) - 1 = m /\ (m + 1 = 1 <=> m = 0)
      BY <1>1
    <3>2. f[m + 1] = f[m] \o seqs[m + 1]
      BY <1>4, <3>1
    <3>3. flatten[m + 1] = IF m = 0 THEN seqs[m + 1] ELSE flatten[m] \o seqs[m + 1]
      BY <2>4, <3>1
    <3>4. CASE m = 0
      <4>1. f[1] = <<>> \o seqs[1] /\ seqs[1] \in Seq(S)
        BY <1>1, <1>3, <3>1, <3>2, <3>4
      <4>2. f[1] = seqs[1]
        BY <4>1, ConcatEmptySeq
      <4> QED
        BY <3>1, <3>3, <3>4, <4>2
    <3>5. CASE m # 0
      <4>1. flatten[m + 1] = f[m + 1] /\ m + 1 \in 0..n
        <5>1. flatten[m] = f[m] /\ m + 1 \in 0..n
          BY <1>1, <2>6, <3>1, <3>5
        <5>2. flatten[m + 1] = flatten[m] \o seqs[m + 1]
          BY <3>3, <3>5
        <5> QED
          BY <3>2, <5>1, <5>2
      <4> QED
        BY <4>1
    <3> QED
      BY <3>4, <3>5
  <2>7. n \in U
    <3> HIDE DEF U, n
    <3> QED
      BY <1>1, <2>5, <2>6, InductionUpTo
  <2> QED
    BY <1>3, <1>4, <1>6, <2>2, <2>7
<1> QED
  BY <1>5, <1>6

LEMMA FlattenNothing == FlattenSeq(<<>>) = <<>>
BY DEF FlattenSeq

LEMMA FlattenAppend ==
    ASSUME NEW S, NEW seqs \in Seq(Seq(S)), NEW s \in Seq(S)
    PROVE  FlattenSeq(Append(seqs, s)) = FlattenSeq(seqs) \o s /\ FlattenSeq(seqs) \in Seq(S)
<1> DEFINE more == Append(seqs, s)
           n == Len(seqs)
<1>1. /\ n \in Nat /\ more \in Seq(Seq(S)) /\ Len(more) = n + 1 /\ more[n + 1] = s
      /\ \A i \in 1..n : more[i] = seqs[i]
  OBVIOUS
<1> HIDE DEF more
<1>2. PICK f \in [0..n -> Seq(S)] :
          /\ f[0] = <<>> /\ \A i \in 1..n : f[i] = f[i - 1] \o seqs[i]
          /\ FlattenSeq(seqs) = f[n]
  BY FlattenIs
<1>3. PICK g \in [0..(n + 1) -> Seq(S)] :
          /\ g[0] = <<>> /\ \A i \in 1..(n + 1) : g[i] = g[i - 1] \o more[i]
          /\ FlattenSeq(more) = g[n + 1]
  <2>1. \E g \in [0..Len(more) -> Seq(S)] :
           /\ g[0] = <<>> /\ \A i \in 1..Len(more) : g[i] = g[i - 1] \o more[i]
           /\ FlattenSeq(more) = g[Len(more)]
    BY <1>1, FlattenIs
  <2> HIDE DEF n
  <2> QED
    BY <1>1, <2>1
<1> DEFINE U == {m \in 0..n : g[m] = f[m]}
<1> HIDE DEF n
<1>4. 0 \in U
  BY <1>1, <1>2, <1>3
<1>5. ASSUME NEW m \in 0..(n - 1), m \in U PROVE m + 1 \in U
  <2>1. m + 1 \in 1..n /\ m + 1 \in 1..(n + 1) /\ (m + 1) - 1 = m
    BY <1>1
  <2>2. g[m + 1] = g[m] \o more[m + 1] /\ f[m + 1] = f[m] \o seqs[m + 1]
    BY <1>2, <1>3, <2>1
  <2>3. more[m + 1] = seqs[m + 1] /\ m + 1 \in 0..n
    BY <1>1, <2>1
  <2> QED
    BY <1>5, <2>2, <2>3
<1>6. n \in U
  <2> HIDE DEF U
  <2> QED
    BY <1>1, <1>4, <1>5, InductionUpTo
<1>7. FlattenSeq(more) = g[n] \o s
  <2>1. n \in Nat /\ more[n + 1] = s
    BY <1>1
  <2>2. n + 1 \in 1..(n + 1) /\ (n + 1) - 1 = n
    BY <2>1
  <2> QED
    BY <1>3, <2>1, <2>2
<1>8. f[n] \in Seq(S)
  BY <1>1, <1>2
<1> QED
  BY <1>2, <1>6, <1>7, <1>8 DEF more

\* A function's values up to n + 1 are those up to n and one more.
LEMMA OneMore ==
    ASSUME NEW S, NEW n \in Nat, NEW f \in [1..(n + 1) -> S]
    PROVE  /\ [i \in 1..(n + 1) |-> f[i]] = Append([i \in 1..n |-> f[i]], f[n + 1])
           /\ [i \in 1..n |-> f[i]] \in Seq(S)
<1> DEFINE s == [i \in 1..n |-> f[i]]
           t == [i \in 1..(n + 1) |-> f[i]]
<1>1. n + 1 \in 1..(n + 1) /\ n + 1 \in Nat /\ s \in [1..n -> S] /\ t \in [1..(n + 1) -> S]
  OBVIOUS
<1>2. /\ s \in Seq(S) /\ Len(s) = n /\ t \in Seq(S) /\ Len(t) = n + 1
      /\ \A i \in 1..n : s[i] = f[i] /\ t[i] = f[i]
      /\ t[n + 1] = f[n + 1] /\ f[n + 1] \in S
  BY <1>1, FunctionIsSeq
<1> HIDE DEF s, t
<1>3. t = Append(s, f[n + 1])
  <2> DEFINE u == Append(s, f[n + 1])
  <2>1. /\ u \in Seq(S) /\ Len(u) = n + 1 /\ u[n + 1] = f[n + 1]
        /\ \A i \in 1..n : u[i] = s[i]
    BY <1>2
  <2> HIDE DEF u
  <2>2. \A i \in 1..(n + 1) : t[i] = u[i]
    BY <1>2, <2>1
  <2>3. t = u
    BY <1>2, <2>1, <2>2, SeqEqual
  <2> QED
    BY <2>3 DEF u
<1> QED
  BY <1>2, <1>3 DEF s, t

-----------------------------------------------------------------------------
(* A write is put together.                                                *)

Items == [register : Words, value : Words, node : Bytewide]
Writes == [first : Words, node : Bytewide, values : Seq(Words)]
Requests == [done : Seq(Writes), wr : Writes]

\* Registers of one kind, up to their limit.
Filled(wr) ==
    /\ Len(wr.values) \in 1..Limit(wr.first)
    /\ \/ wr.first >= 1 /\ wr.first + Len(wr.values) <= 10000
       \/ wr.first >= 40001 /\ wr.first + Len(wr.values) <= 50000

\* next could not have been put at the end of wr.
Broken(wr, next) ==
    \/ Len(wr.values) = Limit(next.first)
    \/ <<wr.first + Len(wr.values), wr.node>> # <<next.first, next.node>>

GoodRequest(r) ==
    /\ r \in Requests
    /\ \A i \in DOMAIN r.done : Filled(r.done[i])
    /\ \A i \in 1..(Len(r.done) - 1) : Broken(r.done[i], r.done[i + 1])
    /\ r.wr.values = <<>> => r.done = <<>>
    /\ r.wr.values # <<>> => Filled(r.wr) /\ (r.done # <<>> => Broken(r.done[Len(r.done)], r.wr))

\* What has been asked for so far, done or still being put together.
Laid(r) == FlattenSeq([i \in DOMAIN r.done |-> Expanded(r.done[i])]) \o Expanded(r.wr)

LEMMA Numbers ==
    /\ Byte = 256 /\ Word = 65536
    /\ MaxCoils \in Nat \ {0} /\ MaxHolding \in Nat \ {0}
<1>1. 256 * 256 = 65536
  OBVIOUS
<1> QED
  BY <1>1, ImportAssumption DEF Word

LEMMA WordIs == \A x : x \in Words <=> x \in Nat /\ x < Word
<1>1. Word \in Nat
  BY Numbers
<1> QED
  BY <1>1 DEF Words

LEMMA ByteIs == \A x : x \in Bytewide <=> x \in Nat /\ x < Byte
<1>1. Byte \in Nat
  BY Numbers
<1> QED
  BY <1>1 DEF Bytewide

LEMMA ExpandedItems ==
    ASSUME NEW wr \in Writes, wr.values = <<>> \/ Filled(wr)
    PROVE  Expanded(wr) \in Seq(Items) /\ Len(Expanded(wr)) = Len(wr.values)
<1> DEFINE n == Len(wr.values)
<1>1. n \in Nat /\ DOMAIN wr.values = 1..n /\ wr.first \in Words /\ wr.node \in Bytewide
  BY DEF Writes
<1>2. ASSUME NEW i \in 1..n
      PROVE  [register |-> wr.first + i - 1, value |-> wr.values[i], node |-> wr.node] \in Items
  <2>1. wr.values[i] \in Words
    BY DEF Writes
  <2>2. n # 0 /\ wr.values # <<>>
    BY <1>1
  <2>3. wr.first >= 1 /\ wr.first + n <= 50000
    <3>1. wr.first \in Nat
      BY <1>1, WordIs
    <3> QED
      BY <1>1, <2>2, <3>1 DEF Filled
  <2> HIDE DEF n
  <2>4. wr.first + i - 1 \in Words
    BY <1>1, <2>3, WordIs, Numbers
  <2> QED
    BY <1>1, <2>1, <2>4 DEF Items
<1>3. Expanded(wr) \in [1..n -> Items]
  <2> HIDE DEF n
  <2> QED
    BY <1>1, <1>2 DEF Expanded
<1> HIDE DEF n
<1>4. Expanded(wr) \in Seq(Items) /\ Len(Expanded(wr)) = n
  BY <1>1, <1>3, FunctionIsSeq
<1> QED
  BY <1>4 DEF n

\* A value is put at the end of a write that goes on with its register.
LEMMA ExpandedMore ==
    ASSUME NEW wr \in Writes, NEW value \in Words, Len(wr.values) >= 0
    PROVE  LET more == [wr EXCEPT !.values = Append(@, value)]
           IN  Expanded(more) = Append(Expanded(wr), [register |-> wr.first + Len(wr.values),
                                                      value |-> value, node |-> wr.node])
<1> DEFINE n == Len(wr.values)
           more == [wr EXCEPT !.values = Append(@, value)]
           f == [i \in 1..(n + 1) |-> [register |-> wr.first + i - 1, value |-> more.values[i],
                                       node |-> wr.node]]
           S == {f[i] : i \in 1..(n + 1)}
<1>1. /\ n \in Nat /\ DOMAIN wr.values = 1..n
      /\ wr.first \in Int
  <2>1. n \in Nat /\ DOMAIN wr.values = 1..n /\ wr.first \in Words
    BY DEF Writes
  <2> HIDE DEF n
  <2> QED
    BY <2>1, WordIs
<1>2. /\ more.first = wr.first /\ more.node = wr.node /\ more.values = Append(wr.values, value)
      /\ DOMAIN more.values = 1..(n + 1) /\ more.values[n + 1] = value
      /\ \A i \in 1..n : more.values[i] = wr.values[i]
  BY DEF Writes
<1> HIDE DEF more
<1>3. Expanded(more) = [i \in 1..(n + 1) |-> f[i]]
  <2> HIDE DEF n
  <2> QED
    BY <1>1, <1>2 DEF Expanded
<1>4. Expanded(wr) = [i \in 1..n |-> f[i]]
  <2> HIDE DEF n
  <2>1. ASSUME NEW i \in 1..n
        PROVE  f[i] = [register |-> wr.first + i - 1, value |-> wr.values[i], node |-> wr.node]
    <3>1. i \in 1..(n + 1)
      BY <1>1
    <3> QED
      BY <1>2, <3>1
  <2> HIDE DEF f
  <2> QED
    BY <1>1, <2>1 DEF Expanded
<1>5. f[n + 1] = [register |-> wr.first + n, value |-> value, node |-> wr.node]
  <2> HIDE DEF n
  <2>1. n + 1 \in 1..(n + 1) /\ wr.first + (n + 1) - 1 = wr.first + n
    BY <1>1
  <2> QED
    BY <1>2, <2>1
<1>6. f \in [1..(n + 1) -> S]
  OBVIOUS
<1> HIDE DEF f, n, S
<1>7. Expanded(more) = Append(Expanded(wr), f[n + 1])
  BY <1>1, <1>3, <1>4, <1>6, OneMore
<1> QED
  BY <1>5, <1>7 DEF more, n

LEMMA WritableIs ==
    ASSUME NEW reg \in Int, Writable(reg)
    PROVE  (reg >= 1 /\ reg <= 9999) \/ (reg >= 40001 /\ reg <= 49999)
BY DEF Writable

LEMMA LimitIs ==
    ASSUME NEW register
    PROVE  Limit(register) \in Nat /\ Limit(register) >= 1
BY Numbers DEF Limit

Item(reg, value, node) == [register |-> reg, value |-> value, node |-> node]
Started(reg, value, node) == [first |-> reg, node |-> node, values |-> <<value>>]

LEMMA WriteStarted ==
    ASSUME NEW reg \in Int, Writable(reg), NEW value \in Words, NEW node \in Bytewide
    PROVE  LET wr == Started(reg, value, node)
           IN  /\ wr \in Writes /\ Filled(wr) /\ wr.values # <<>>
               /\ Expanded(wr) = <<Item(reg, value, node)>> /\ Item(reg, value, node) \in Items
<1> DEFINE wr == Started(reg, value, node)
           item == Item(reg, value, node)
<1>1. (reg >= 1 /\ reg <= 9999) \/ (reg >= 40001 /\ reg <= 49999)
  BY WritableIs
<1>2. reg \in Words
  BY <1>1, WordIs, Numbers
<1>3. wr.first = reg /\ wr.node = node /\ wr.values = <<value>> /\ Len(wr.values) = 1
      /\ DOMAIN wr.values = {1}
  <2>1. DOMAIN <<value>> = {1}
    <3>1. DOMAIN <<value>> = 1..1 /\ 1..1 = {1}
      OBVIOUS
    <3> QED
      BY <3>1
  <2> QED
    BY <2>1 DEF Started
<1>4. wr \in Writes
  BY <1>2 DEF Started, Writes
<1>5. item \in Items
  BY <1>2 DEF Item, Items
<1>6. Filled(wr)
  <2> HIDE DEF wr
  <2>1. 1 \in 1..Limit(reg)
    BY LimitIs
  <2> QED
    BY <1>1, <1>3, <2>1 DEF Filled
<1>7. Expanded(wr) = <<item>>
  <2>1. Expanded(wr) = [i \in {1} |-> Item(reg + i - 1, wr.values[i], node)]
    BY <1>3 DEF Expanded, Item
  <2>2. reg + 1 - 1 = reg /\ wr.values[1] = value
    BY <1>3
  <2>3. Expanded(wr) \in Seq(Items) /\ Len(Expanded(wr)) = 1 /\ Expanded(wr)[1] = item
    <3>1. Expanded(wr) \in Seq(Items) /\ Len(Expanded(wr)) = 1
      BY <1>3, <1>4, <1>6, ExpandedItems
    <3>2. Expanded(wr)[1] = Item(reg + 1 - 1, wr.values[1], node)
      BY <2>1
    <3> QED
      BY <2>2, <3>1, <3>2
  <2>4. <<item>> \in Seq(Items) /\ Len(<<item>>) = 1 /\ <<item>>[1] = item
    BY <1>5
  <2> DEFINE s == Expanded(wr)
             u == <<item>>
  <2>5. s \in Seq(Items) /\ u \in Seq(Items) /\ Len(s) = 1 /\ Len(u) = 1 /\ s[1] = u[1]
    BY <2>3, <2>4
  <2> HIDE DEF s, u
  <2>6. \A i \in 1..Len(s) : s[i] = u[i]
    BY <2>5
  <2>7. s = u
    BY <2>5, <2>6, SeqEqual
  <2> QED
    BY <2>7 DEF s, u
<1> QED
  BY <1>3, <1>4, <1>5, <1>6, <1>7

\* The register after those of a write is one of theirs or of no write.
LEMMA SameLimit ==
    ASSUME NEW wr \in Writes, Filled(wr), NEW reg \in Int, Writable(reg),
           reg = wr.first + Len(wr.values)
    PROVE  /\ Limit(reg) = Limit(wr.first) /\ Limit(reg) \in Nat
           /\ (wr.first >= 1 /\ reg < 10000) \/ (wr.first >= 40001 /\ reg < 50000)
<1> DEFINE n == Len(wr.values)
<1>1. n \in Nat /\ wr.first \in Words
  BY DEF Writes
<1>2. wr.first \in Nat
  BY <1>1, WordIs
<1>3. (reg >= 1 /\ reg <= 9999) \/ (reg >= 40001 /\ reg <= 49999)
  BY WritableIs
<1>4. /\ n >= 1
      /\ (wr.first >= 1 /\ wr.first + n <= 10000) \/ (wr.first >= 40001 /\ wr.first + n <= 50000)
  <2>1. Limit(wr.first) \in Nat
    BY LimitIs
  <2>2. n \in 1..Limit(wr.first)
    BY DEF Filled
  <2>3. (wr.first >= 1 /\ wr.first + n <= 10000) \/ (wr.first >= 40001 /\ wr.first + n <= 50000)
    BY DEF Filled
  <2> HIDE DEF n
  <2> QED
    BY <2>1, <2>2, <2>3
<1> HIDE DEF n
<1>5. (wr.first >= 1 /\ reg < 10000) \/ (wr.first >= 40001 /\ reg < 50000)
  BY <1>1, <1>2, <1>3, <1>4 DEF n
<1>6. Limit(reg) = Limit(wr.first)
  BY <1>1, <1>2, <1>3, <1>5, <1>4 DEF Limit, n
<1> QED
  BY <1>5, <1>6, LimitIs

\* A write that was not put aside for its limit or its end goes on.
LEMMA WriteExtended ==
    ASSUME NEW wr \in Writes, Filled(wr), NEW reg \in Int, Writable(reg), NEW value \in Words,
           reg = wr.first + Len(wr.values), Len(wr.values) < Limit(reg)
    PROVE  LET more == [wr EXCEPT !.values = Append(@, value), !.node = wr.node]
           IN  /\ more \in Writes /\ Filled(more) /\ more.values # <<>>
               /\ more.first = wr.first /\ more.node = wr.node
               /\ Expanded(more) = Append(Expanded(wr), Item(reg, value, wr.node))
<1> DEFINE more == [wr EXCEPT !.values = Append(@, value)]
           n == Len(wr.values)
<1>1. [wr EXCEPT !.values = Append(@, value), !.node = wr.node] = more
  BY DEF Writes
<1>2. /\ more \in Writes /\ more.first = wr.first /\ more.node = wr.node
      /\ Len(more.values) = n + 1 /\ n \in Nat /\ more.values # <<>> /\ wr.first \in Words
  BY DEF Writes
<1>3. Expanded(more) = Append(Expanded(wr), Item(reg, value, wr.node))
  <2>1. Len(wr.values) >= 0
    BY <1>2
  <2>2. Expanded(more) = Append(Expanded(wr), [register |-> wr.first + n, value |-> value,
                                               node |-> wr.node])
    BY <2>1, ExpandedMore
  <2>3. Item(reg, value, wr.node) = [register |-> wr.first + n, value |-> value,
                                     node |-> wr.node]
    BY DEF Item
  <2> HIDE DEF more, n
  <2> QED
    BY <2>2, <2>3
<1>4. wr.first \in Nat
  BY <1>2, WordIs
<1>5. /\ Limit(reg) = Limit(wr.first) /\ Limit(reg) \in Nat
      /\ (wr.first >= 1 /\ reg < 10000) \/ (wr.first >= 40001 /\ reg < 50000)
  BY SameLimit
<1>6. Filled(more)
  <2> HIDE DEF more
  <2>1. n + 1 \in 1..Limit(wr.first)
    BY <1>2, <1>5
  <2>2. \/ wr.first >= 1 /\ wr.first + (n + 1) <= 10000
        \/ wr.first >= 40001 /\ wr.first + (n + 1) <= 50000
    BY <1>2, <1>4, <1>5
  <2> QED
    BY <1>2, <2>1, <2>2 DEF Filled
<1> HIDE DEF more, n
<1> QED
  BY <1>1, <1>2, <1>3, <1>6

Done(done) == [i \in DOMAIN done |-> Expanded(done[i])]

LEMMA DoneItems ==
    ASSUME NEW done \in Seq(Writes), \A i \in DOMAIN done : Filled(done[i])
    PROVE  Done(done) \in Seq(Seq(Items)) /\ Len(Done(done)) = Len(done)
<1> DEFINE n == Len(done)
<1>1. n \in Nat /\ DOMAIN done = 1..n /\ \A i \in 1..n : done[i] \in Writes
  OBVIOUS
<1>2. \A i \in 1..n : Expanded(done[i]) \in Seq(Items)
  BY <1>1, ExpandedItems
<1> HIDE DEF n
<1>3. Done(done) \in [1..n -> Seq(Items)]
  BY <1>1, <1>2 DEF Done
<1>4. Done(done) \in Seq(Seq(Items)) /\ Len(Done(done)) = n
  BY <1>1, <1>3, FunctionIsSeq
<1> QED
  BY <1>4 DEF n

LEMMA DoneNothing == Done(<<>>) = <<>>
<1>1. DOMAIN <<>> = {}
  <2>1. DOMAIN <<>> = 1..0 /\ 1..0 = {}
    OBVIOUS
  <2> QED
    BY <2>1
<1>2. <<>> = [i \in {} |-> Expanded(<<>>[i])]
  OBVIOUS
<1> QED
  BY <1>1, <1>2 DEF Done

LEMMA DoneMore ==
    ASSUME NEW done \in Seq(Writes), NEW wr \in Writes
    PROVE  Done(Append(done, wr)) = Append(Done(done), Expanded(wr))
<1> DEFINE n == Len(done)
           more == Append(done, wr)
           f == [i \in 1..(n + 1) |-> Expanded(more[i])]
           S == {f[i] : i \in 1..(n + 1)}
<1>1. /\ n \in Nat /\ DOMAIN done = 1..n /\ DOMAIN more = 1..(n + 1) /\ more[n + 1] = wr
      /\ \A i \in 1..n : more[i] = done[i]
  OBVIOUS
<1> HIDE DEF n, more
<1>2. Done(more) = [i \in 1..(n + 1) |-> f[i]]
  BY <1>1 DEF Done
<1>3. Done(done) = [i \in 1..n |-> f[i]]
  <2>1. ASSUME NEW i \in 1..n PROVE f[i] = Expanded(done[i])
    <3>1. i \in 1..(n + 1)
      BY <1>1
    <3> QED
      BY <1>1, <3>1
  <2> HIDE DEF f
  <2> QED
    BY <1>1, <2>1 DEF Done
<1>4. f[n + 1] = Expanded(wr)
  <2>1. n + 1 \in 1..(n + 1)
    BY <1>1
  <2> QED
    BY <1>1, <2>1
<1>5. f \in [1..(n + 1) -> S]
  OBVIOUS
<1> HIDE DEF f, S
<1>6. Done(more) = Append(Done(done), f[n + 1])
  BY <1>1, <1>2, <1>3, <1>5, OneMore
<1> QED
  BY <1>4, <1>6 DEF more

LEMMA AppendConcat ==
    ASSUME NEW S, NEW s \in Seq(S), NEW x \in S
    PROVE  Append(s, x) = s \o <<x>> /\ <<x>> \in Seq(S) /\ Append(s, x) \in Seq(S)
OBVIOUS

LEMMA LaidItems ==
    ASSUME NEW r, GoodRequest(r)
    PROVE  /\ Laid(r) = FlattenSeq(Done(r.done)) \o Expanded(r.wr) /\ Laid(r) \in Seq(Items)
           /\ FlattenSeq(Done(r.done)) \in Seq(Items) /\ Expanded(r.wr) \in Seq(Items)
           /\ Done(r.done) \in Seq(Seq(Items))
<1>1. r.done \in Seq(Writes) /\ r.wr \in Writes
  BY DEF GoodRequest, Requests
<1>2. Done(r.done) \in Seq(Seq(Items))
  BY <1>1, DoneItems DEF GoodRequest
<1>3. Expanded(r.wr) \in Seq(Items)
  BY <1>1, ExpandedItems DEF GoodRequest
<1>4. <<>> \in Seq(Items)
  OBVIOUS
<1>5. FlattenSeq(Done(r.done)) \in Seq(Items)
  BY <1>2, <1>4, FlattenAppend
<1>6. Laid(r) = FlattenSeq(Done(r.done)) \o Expanded(r.wr)
  BY DEF Laid, Done
<1>7. Laid(r) \in Seq(Items)
  BY <1>3, <1>5, <1>6, ConcatProperties
<1> QED
  BY <1>2, <1>3, <1>5, <1>6, <1>7

\* The next write begins, the first of all.
LEMMA FirstBegins ==
    ASSUME NEW r, GoodRequest(r), r.wr.values = <<>>,
           NEW reg \in Int, Writable(reg), NEW value \in Words, NEW node \in Bytewide
    PROVE  LET q == [done |-> r.done, wr |-> Started(reg, value, node)]
           IN  GoodRequest(q) /\ Laid(q) = Append(Laid(r), Item(reg, value, node))
<1> DEFINE wr == Started(reg, value, node)
           item == Item(reg, value, node)
           q == [done |-> r.done, wr |-> wr]
<1>1. /\ wr \in Writes /\ Filled(wr) /\ wr.values # <<>>
      /\ Expanded(wr) = <<item>> /\ item \in Items
  BY WriteStarted
<1>2. r.done = <<>> /\ r.done \in Seq(Writes)
  BY DEF GoodRequest, Requests
<1> HIDE DEF wr, item
<1>3. q.done = <<>> /\ q.wr = wr /\ q \in Requests
  BY <1>1, <1>2 DEF Requests
<1>4. GoodRequest(q)
  <2> HIDE DEF q
  <2> QED
    BY <1>1, <1>3 DEF GoodRequest
<1>5. Laid(r) = <<>>
  <2>1. DOMAIN r.wr.values = {}
    <3>1. DOMAIN <<>> = {}
      OBVIOUS
    <3> QED
      BY <3>1
  <2>2. Len(Expanded(r.wr)) = 0 /\ Expanded(r.wr) \in Seq(Items)
    <3>1. Len(r.wr.values) = 0 /\ r.wr \in Writes
      BY DEF GoodRequest, Requests
    <3> QED
      BY <3>1, ExpandedItems
  <2>3. Done(r.done) = <<>>
    BY <1>2, DoneNothing
  <2>4. Expanded(r.wr) = <<>>
    BY <2>2
  <2>5. <<>> \o <<>> = <<>>
    OBVIOUS
  <2> QED
    BY <2>3, <2>4, <2>5, LaidItems, FlattenNothing
<1>6. Laid(q) = <<item>>
  <2> HIDE DEF q
  <2>1. Laid(q) = FlattenSeq(Done(r.done)) \o Expanded(wr)
    <3>1. Laid(q) = FlattenSeq(Done(q.done)) \o Expanded(q.wr)
      BY <1>4, LaidItems
    <3>2. q.done = r.done /\ q.wr = wr
      BY <1>2, <1>3
    <3> QED
      BY <3>1, <3>2
  <2>2. Done(r.done) = <<>>
    BY <1>2, DoneNothing
  <2>3. FlattenSeq(Done(r.done)) = <<>>
    BY <2>2, FlattenNothing
  <2>4. <<>> \o <<item>> = <<item>>
    BY <1>1
  <2> QED
    BY <1>1, <2>1, <2>3, <2>4
<1>7. Append(<<>>, item) = <<item>>
  BY <1>1
<1> HIDE DEF q
<1> QED
  BY <1>4, <1>5, <1>6, <1>7 DEF q, wr, item

\* A write is put aside and another begins.
LEMMA NextBegins ==
    ASSUME NEW r, GoodRequest(r), r.wr.values # <<>>,
           NEW reg \in Int, Writable(reg), NEW value \in Words, NEW node \in Bytewide,
           Broken(r.wr, Started(reg, value, node))
    PROVE  LET q == [done |-> Append(r.done, r.wr), wr |-> Started(reg, value, node)]
           IN  GoodRequest(q) /\ Laid(q) = Append(Laid(r), Item(reg, value, node))
<1> DEFINE wr == Started(reg, value, node)
           item == Item(reg, value, node)
           q == [done |-> Append(r.done, r.wr), wr |-> wr]
           n == Len(r.done)
<1>1. /\ wr \in Writes /\ Filled(wr) /\ wr.values # <<>>
      /\ Expanded(wr) = <<item>> /\ item \in Items
  BY WriteStarted
<1>2. /\ r.done \in Seq(Writes) /\ r.wr \in Writes /\ Filled(r.wr)
      /\ \A i \in DOMAIN r.done : Filled(r.done[i])
      /\ \A i \in 1..(n - 1) : Broken(r.done[i], r.done[i + 1])
      /\ r.done # <<>> => Broken(r.done[n], r.wr)
  BY DEF GoodRequest, Requests
<1>3. Broken(r.wr, wr)
  OBVIOUS
<1> HIDE DEF wr, item
<1>4. q.done = Append(r.done, r.wr) /\ q.wr = wr /\ q \in Requests
  BY <1>1, <1>2 DEF Requests
<1>5. /\ n \in Nat /\ DOMAIN r.done = 1..n /\ DOMAIN q.done = 1..(n + 1) /\ Len(q.done) = n + 1
      /\ \A i \in 1..n : q.done[i] = r.done[i]
      /\ q.done[n + 1] = r.wr /\ (n # 0 => r.done # <<>>)
  BY <1>2, <1>4
<1>6. GoodRequest(q)
  <2> HIDE DEF q, n
  <2>1. ASSUME NEW i \in DOMAIN q.done PROVE Filled(q.done[i])
    <3>1. i \in 1..n \/ i = n + 1
      BY <1>5
    <3> QED
      BY <1>2, <1>5, <3>1
  <2>2. ASSUME NEW i \in 1..(Len(q.done) - 1) PROVE Broken(q.done[i], q.done[i + 1])
    <3>1. CASE i = n
      <4>1. n # 0 /\ i \in 1..n /\ i + 1 = n + 1
        BY <1>5, <3>1
      <4>2. q.done[i] = r.done[n] /\ q.done[i + 1] = r.wr
        BY <1>5, <3>1, <4>1
      <4> QED
        BY <1>2, <1>5, <4>1, <4>2
    <3>2. CASE i # n
      <4>1. i \in 1..(n - 1) /\ i \in 1..n /\ i + 1 \in 1..n
        BY <1>5, <3>2
      <4> QED
        BY <1>2, <1>5, <4>1
    <3> QED
      BY <3>1, <3>2
  <2>3. Broken(q.done[Len(q.done)], q.wr)
    BY <1>3, <1>4, <1>5
  <2> QED
    BY <1>1, <1>4, <2>1, <2>2, <2>3 DEF GoodRequest
<1>7. Laid(q) = Append(Laid(r), item)
  <2>1. Done(q.done) = Append(Done(r.done), Expanded(r.wr))
    BY <1>2, <1>4, DoneMore
  <2>2. /\ Done(r.done) \in Seq(Seq(Items)) /\ Expanded(r.wr) \in Seq(Items)
        /\ Laid(r) = FlattenSeq(Done(r.done)) \o Expanded(r.wr) /\ Laid(r) \in Seq(Items)
    BY LaidItems
  <2>3. FlattenSeq(Done(q.done)) = Laid(r)
    BY <2>1, <2>2, FlattenAppend
  <2>4. Laid(q) = Laid(r) \o <<item>>
    BY <1>1, <1>4, <1>6, <2>3, LaidItems
  <2> QED
    BY <1>1, <2>2, <2>4, AppendConcat
<1> HIDE DEF q
<1> QED
  BY <1>6, <1>7 DEF q, wr, item

Extended(r, value, node) ==
    [done |-> r.done, wr |-> [r.wr EXCEPT !.values = Append(@, value), !.node = node]]

\* A write goes on.
LEMMA GoesOn ==
    ASSUME NEW r, GoodRequest(r), r.wr.values # <<>>,
           NEW reg \in Int, Writable(reg), NEW value \in Words, NEW node,
           reg = r.wr.first + Len(r.wr.values), node = r.wr.node, Len(r.wr.values) < Limit(reg)
    PROVE  LET q == Extended(r, value, node)
           IN  GoodRequest(q) /\ Laid(q) = Append(Laid(r), Item(reg, value, node))
<1> DEFINE wr == [r.wr EXCEPT !.values = Append(@, value), !.node = node]
           item == Item(reg, value, node)
           q == Extended(r, value, node)
<1>1. /\ r.done \in Seq(Writes) /\ r.wr \in Writes /\ Filled(r.wr)
      /\ r.done # <<>> => Broken(r.done[Len(r.done)], r.wr)
  BY DEF GoodRequest, Requests
<1>2. /\ wr \in Writes /\ Filled(wr) /\ wr.values # <<>> /\ wr.first = r.wr.first /\ wr.node = node
      /\ Expanded(wr) = Append(Expanded(r.wr), item)
  <2> DEFINE more == [r.wr EXCEPT !.values = Append(@, value), !.node = r.wr.node]
  <2>1. /\ more \in Writes /\ Filled(more) /\ more.values # <<>>
        /\ more.first = r.wr.first /\ more.node = r.wr.node
        /\ Expanded(more) = Append(Expanded(r.wr), Item(reg, value, r.wr.node))
    BY <1>1, WriteExtended
  <2>2. wr = more
    OBVIOUS
  <2> HIDE DEF wr, more
  <2> QED
    BY <2>1, <2>2
<1>3. item \in Items
  BY <1>1, WriteStarted DEF Writes
<1>4. q = [done |-> r.done, wr |-> wr]
  BY DEF Extended
<1> HIDE DEF wr, item
<1>5. q.done = r.done /\ q.wr = wr /\ q \in Requests
  BY <1>1, <1>2, <1>4 DEF Requests
<1>6. r.done # <<>> => Broken(r.done[Len(r.done)], wr)
  BY <1>1, <1>2 DEF Broken
<1>7. GoodRequest(q)
  <2> HIDE DEF q
  <2> QED
    BY <1>2, <1>5, <1>6 DEF GoodRequest
<1>8. Laid(q) = Append(Laid(r), item)
  <2> DEFINE f == FlattenSeq(Done(r.done))
             e == Expanded(r.wr)
  <2>1. Laid(r) = f \o e /\ Laid(r) \in Seq(Items) /\ f \in Seq(Items) /\ e \in Seq(Items)
    BY LaidItems
  <2>2. Laid(q) = f \o Append(e, item)
    BY <1>2, <1>5, <1>7, LaidItems
  <2> HIDE DEF f, e, q
  <2>3. Append(e, item) = e \o <<item>> /\ <<item>> \in Seq(Items)
    BY <1>3, <2>1, AppendConcat
  <2>4. f \o (e \o <<item>>) = (f \o e) \o <<item>>
    BY <2>1, <2>3, ConcatAssociative
  <2>5. Append(Laid(r), item) = Laid(r) \o <<item>>
    BY <1>3, <2>1, AppendConcat
  <2> QED
    BY <2>1, <2>2, <2>3, <2>4, <2>5
<1> HIDE DEF q
<1> QED
  BY <1>7, <1>8 DEF q, wr, item

LEMMA Appended ==
    ASSUME NEW r, GoodRequest(r),
           NEW reg \in Int, Writable(reg), NEW value \in Words, NEW node \in Bytewide
    PROVE  LET q == append_write(r, reg, value, node)
           IN  GoodRequest(q) /\ Laid(q) = Append(Laid(r), Item(reg, value, node))
<1> DEFINE wr == r.wr
           q == append_write(r, reg, value, node)
           begins == \/ wr.values = <<>> \/ reg # wr.first + Len(wr.values) \/ node # wr.node
                     \/ Len(wr.values) >= Limit(reg)
<1>1. r = [done |-> r.done, wr |-> wr] /\ wr \in Writes
  BY DEF GoodRequest, Requests
<1>2. CASE wr.values = <<>>
  <2>1. q = [done |-> r.done, wr |-> Started(reg, value, node)]
    BY <1>2 DEF append_write, Started
  <2> QED
    BY <1>2, <2>1, FirstBegins
<1>3. CASE wr.values # <<>> /\ begins
  <2>1. q = [done |-> Append(r.done, wr), wr |-> Started(reg, value, node)]
    BY <1>3 DEF append_write, Started
  <2>2. Broken(wr, Started(reg, value, node))
    <3>1. Started(reg, value, node).first = reg /\ Started(reg, value, node).node = node
      BY DEF Started
    <3>2. CASE reg # wr.first + Len(wr.values) \/ node # wr.node
      BY <3>1, <3>2 DEF Broken
    <3>3. CASE reg = wr.first + Len(wr.values) /\ Len(wr.values) >= Limit(reg)
      <4>1. Filled(wr)
        BY <1>3 DEF GoodRequest
      <4>2. Limit(reg) = Limit(wr.first) /\ Limit(reg) \in Nat
        BY <1>1, <3>3, <4>1, SameLimit
      <4>3. Len(wr.values) \in 1..Limit(reg)
        BY <4>1, <4>2 DEF Filled
      <4>4. Len(wr.values) = Limit(reg)
        BY <3>3, <4>2, <4>3
      <4> QED
        BY <3>1, <4>4 DEF Broken
    <3> QED
      BY <1>3, <3>2, <3>3
  <2> QED
    BY <1>3, <2>1, <2>2, NextBegins
<1>4. CASE wr.values # <<>> /\ ~begins
  <2>1. q = [r EXCEPT !.wr.values = Append(@, value), !.wr.node = node]
    BY <1>4 DEF append_write
  <2>2. q = Extended(r, value, node)
    BY <1>1, <2>1 DEF Extended
  <2>3. Len(wr.values) < Limit(reg)
    <3>1. Len(wr.values) \in Nat
      BY <1>1 DEF Writes
    <3>2. Limit(reg) \in Nat /\ ~(Len(wr.values) >= Limit(reg))
      BY <1>4, LimitIs
    <3> HIDE DEF wr
    <3> QED
      BY <3>1, <3>2
  <2>4. r.wr.values # <<>> /\ reg = r.wr.first + Len(r.wr.values) /\ node = r.wr.node
    BY <1>4
  <2> QED
    BY <2>2, <2>3, <2>4, GoesOn
<1> QED
  BY <1>2, <1>3, <1>4

-----------------------------------------------------------------------------
(* The requests put together from the rows.                                *)

NodeOf(c, row) == IF c.node < 0 THEN FixedNode(c.node) ELSE ToInt(row[c.node])

\* A row with numbers, or what QtCSV takes for some, where they are looked for.
Numeric(c, row) ==
    ToInt(row[c.register]) \in Int /\ ToInt(row[c.value]) \in Int /\ NodeOf(c, row) \in Int

LEMMA CellNumber ==
    ASSUME NEW cell \in Cells
    PROVE  ToInt(cell) \in Int
<1>1. CASE IsDecimal(cell)
  <2>1. cell.numbers \in Seq(Int) /\ cell.numbers # <<>>
    BY <1>1 DEF Cells
  <2>2. cell.numbers[1] \in Int
    BY <2>1
  <2> QED
    BY <1>1, <2>2 DEF ToInt
<1>2. CASE ~IsDecimal(cell)
  BY <1>2 DEF ToInt
<1> QED
  BY <1>1, <1>2

\* A register that can be written is not changed by being narrowed.
LEMMA RowItem ==
    ASSUME NEW c, NEW row, Numeric(c, row)
    PROVE  LET item == RowSays(c, row)
           IN  /\ item = Item(item.register, item.value, item.node)
               /\ item \in Items
               /\ item.value = ToInt(row[c.value]) % Word /\ item.node = NodeOf(c, row) % Byte
               /\ Writable(ToInt(row[c.register])) => item.register = ToInt(row[c.register])
<1> DEFINE reg == ToInt(row[c.register])
           value == ToInt(row[c.value])
           node == NodeOf(c, row)
<1>1. RowSays(c, row) = Item(reg % Word, value % Word, node % Byte)
  BY DEF RowSays, Narrowed, NodeOf, Item
<1>2. reg \in Int /\ value \in Int /\ node \in Int
  BY DEF Numeric
<1> HIDE DEF reg, value, node
<1>3. reg % Word \in Words /\ value % Word \in Words /\ node % Byte \in Bytewide
  <2>1. \A x \in Int : x % Word \in Nat /\ x % Word < Word /\ x % Byte \in Nat /\ x % Byte < Byte
    BY Numbers
  <2> QED
    BY <1>2, <2>1, WordIs, ByteIs
<1>4. ASSUME Writable(reg) PROVE reg % Word = reg
  <2>1. (reg >= 1 /\ reg <= 9999) \/ (reg >= 40001 /\ reg <= 49999)
    BY <1>2, <1>4, WritableIs
  <2> QED
    BY <1>2, <2>1, Numbers
<1> DEFINE r == reg % Word
           v == value % Word
           m == node % Byte
<1>5. RowSays(c, row) = Item(r, v, m) /\ r \in Words /\ v \in Words /\ m \in Bytewide
  BY <1>1, <1>3
<1> HIDE DEF r, v, m
<1>6. LET item == RowSays(c, row)
      IN  item.register = r /\ item.value = v /\ item.node = m /\ item \in Items
  BY <1>5 DEF Item, Items
<1> QED
  BY <1>4, <1>5, <1>6 DEF r, v, m, reg, value, node

\* What a row asks for.
Asks(c, row) == IF Writable(ToInt(row[c.register])) THEN <<RowSays(c, row)>> ELSE <<>>

Requested(c, row, request) ==
    IF Writable(ToInt(row[c.register]))
    THEN append_write(request, RowSays(c, row).register, RowSays(c, row).value,
                      RowSays(c, row).node)
    ELSE request

NoRequest == [done |-> <<>>, wr |-> NoWrite]

LEMMA Nothing == GoodRequest(NoRequest) /\ Laid(NoRequest) = <<>>
<1> DEFINE r == NoRequest
<1>1. r.done = <<>> /\ r.wr = NoWrite /\ r.wr.values = <<>> /\ NoWrite \in Writes
  <2>1. 0 \in Words /\ 0 \in Bytewide
    BY WordIs, ByteIs, Numbers
  <2>2. <<>> \in Seq(Words)
    OBVIOUS
  <2> QED
    BY <2>1, <2>2 DEF NoRequest, NoWrite, Writes
<1>2. r \in Requests
  <2>1. <<>> \in Seq(Writes)
    OBVIOUS
  <2> QED
    BY <1>1, <2>1 DEF NoRequest, Requests
<1> HIDE DEF r
<1>3. DOMAIN r.done = {} /\ Len(r.done) = 0 /\ 1..(0 - 1) = {}
  BY <1>1
<1>4. GoodRequest(r)
  BY <1>1, <1>2, <1>3 DEF GoodRequest
<1>5. Expanded(r.wr) = <<>>
  <2>1. Expanded(r.wr) \in Seq(Items) /\ Len(Expanded(r.wr)) = Len(r.wr.values)
    BY <1>1, ExpandedItems
  <2>2. Len(Expanded(r.wr)) = 0
    BY <1>1, <2>1
  <2> QED
    BY <2>1, <2>2
<1>6. Laid(r) = <<>> \o <<>>
  <2>1. Laid(r) = FlattenSeq(Done(r.done)) \o Expanded(r.wr)
    BY <1>4, LaidItems
  <2> QED
    BY <1>1, <1>5, <2>1, DoneNothing, FlattenNothing
<1>7. <<>> \o <<>> = <<>>
  OBVIOUS
<1> QED
  BY <1>4, <1>6, <1>7 DEF r

LEMMA RequestedLaid ==
    ASSUME NEW c, NEW row, Numeric(c, row), NEW r, GoodRequest(r)
    PROVE  LET q == Requested(c, row, r)
           IN  /\ GoodRequest(q) /\ Laid(q) = Laid(r) \o Asks(c, row)
               /\ Asks(c, row) \in Seq(Items)
<1> DEFINE item == RowSays(c, row)
           reg == ToInt(row[c.register])
           q == Requested(c, row, r)
<1>1. Laid(r) \in Seq(Items)
  BY LaidItems
<1>2. CASE Writable(reg)
  <2>1. item = Item(item.register, item.value, item.node) /\ item \in Items /\ item.register = reg
    BY <1>2, RowItem
  <2>2. item.register \in Int /\ Writable(item.register) /\ item.value \in Words /\ item.node \in Bytewide
    BY <1>2, <2>1 DEF Numeric, Items
  <2>3. q = append_write(r, item.register, item.value, item.node) /\ Asks(c, row) = <<item>>
    BY <1>2 DEF Requested, Asks
  <2> HIDE DEF item, q
  <2>4. GoodRequest(q) /\ Laid(q) = Append(Laid(r), Item(item.register, item.value, item.node))
    BY <2>2, <2>3, Appended
  <2>5. Laid(q) = Append(Laid(r), item)
    BY <2>1, <2>4
  <2>6. Append(Laid(r), item) = Laid(r) \o <<item>> /\ <<item>> \in Seq(Items)
    BY <1>1, <2>1, AppendConcat
  <2> QED
    BY <2>3, <2>4, <2>5, <2>6 DEF q
<1>3. CASE ~Writable(reg)
  <2>1. q = r /\ Asks(c, row) = <<>>
    BY <1>3 DEF Requested, Asks
  <2>2. <<>> \in Seq(Items)
    OBVIOUS
  <2>3. Laid(r) \o <<>> = Laid(r)
    BY <1>1, ConcatEmptySeq
  <2> HIDE DEF q
  <2> QED
    BY <2>1, <2>2, <2>3 DEF q
<1> QED
  BY <1>2, <1>3

\* The requests after each row: the recursive function of Gathered has a value.
LEMMA GatheredIs ==
    ASSUME NEW c, NEW X, DataRows(c) \in Seq(X),
           \A i \in 1..Len(DataRows(c)) : Numeric(c, DataRows(c)[i])
    PROVE  LET rows == DataRows(c)
           IN  \E f \in [0..Len(rows) -> {r \in Requests : GoodRequest(r)}] :
                   /\ f[0] = NoRequest
                   /\ \A i \in 1..Len(rows) : f[i] = Requested(c, rows[i], f[i - 1])
                   /\ Gathered(c) = f[Len(rows)]
<1> DEFINE rows == DataRows(c)
           n == Len(rows)
           Goods == {r \in Requests : GoodRequest(r)}
           step == [i \in 1..n |-> [r \in Goods |-> Requested(c, rows[i], r)]]
           Is(f) == f = [k \in 0..n |-> IF k = 0 THEN NoRequest
                                                 ELSE Requested(c, rows[k], f[k - 1])]
           request == CHOOSE f : Is(f)
<1>1. n \in Nat /\ \A i \in 1..n : Numeric(c, rows[i])
  OBVIOUS
<1>2. Gathered(c) = request[n]
  BY Zenon DEF Gathered, Requested, NoRequest
<1> HIDE DEF rows, n
<1>3. ASSUME NEW i \in 1..n, NEW r \in Goods PROVE Requested(c, rows[i], r) \in Goods
  <2>1. GoodRequest(r) /\ Numeric(c, rows[i])
    BY <1>1
  <2>2. GoodRequest(Requested(c, rows[i], r))
    BY <2>1, RequestedLaid
  <2> QED
    BY <2>2 DEF GoodRequest
<1>4. NoRequest \in Goods
  BY Nothing DEF GoodRequest
<1> HIDE DEF Goods
<1>5. step \in [1..n -> [Goods -> Goods]]
  BY <1>3
<1> HIDE DEF step
<1>6. PICK f \in [0..n -> Goods] : f[0] = NoRequest /\ \A i \in 1..n : f[i] = step[i][f[i - 1]]
  <2> DEFINE x == NoRequest
  <2>1. n \in Nat /\ x \in Goods
    BY <1>1, <1>4
  <2> HIDE DEF Is, request, x
  <2>2. \E f \in [0..n -> Goods] : f[0] = x /\ \A i \in 1..n : f[i] = step[i][f[i - 1]]
    BY <1>5, <2>1, Iteration, SMTT(60)
  <2> QED
    BY <2>2 DEF x
<1>7. \A i \in 1..n : f[i] = Requested(c, rows[i], f[i - 1])
  <2> TAKE i \in 1..n
  <2>1. i - 1 \in 0..n /\ f[i - 1] \in Goods
    BY <1>1, <1>6
  <2> QED
    BY <1>6, <2>1 DEF step
<1>8. Is(f)
  <2>1. \A k \in 0..n : f[k] = IF k = 0 THEN NoRequest ELSE Requested(c, rows[k], f[k - 1])
    <3>1. \A k \in 0..n : k # 0 => k \in 1..n
      BY <1>1
    <3> QED
      BY <1>6, <1>7, <3>1
  <2> QED
    BY <1>6, <2>1
<1> HIDE DEF Is
<1>9. Is(request)
  BY <1>8, Zenon
<1> HIDE DEF request
<1>10. \A k \in 0..n : request[k] = IF k = 0 THEN NoRequest ELSE Requested(c, rows[k], request[k - 1])
  BY <1>9 DEF Is
<1> DEFINE U == {m \in 0..n : request[m] = f[m]}
<1>11. 0 \in U
  BY <1>1, <1>6, <1>10
<1>12. ASSUME NEW m \in 0..(n - 1), m \in U PROVE m + 1 \in U
  <2>1. m + 1 \in 1..n /\ m + 1 \in 0..n /\ (m + 1) - 1 = m /\ m + 1 # 0
    BY <1>1
  <2>2. request[m + 1] = Requested(c, rows[m + 1], request[m])
    BY <1>10, <2>1
  <2>3. f[m + 1] = Requested(c, rows[m + 1], f[m])
    BY <1>7, <2>1
  <2> QED
    BY <1>12, <2>1, <2>2, <2>3
<1>13. n \in U
  <2> HIDE DEF U
  <2> QED
    BY <1>1, <1>11, <1>12, InductionUpTo
<1>14. Gathered(c) = f[n]
  BY <1>2, <1>13
<1> QED
  BY <1>6, <1>7, <1>14 DEF rows, n, Goods

\* What the requests of all rows ask for is what the rows ask for.
LEMMA GatheredLaid ==
    ASSUME NEW c, NEW X, DataRows(c) \in Seq(X),
           \A i \in 1..Len(DataRows(c)) : Numeric(c, DataRows(c)[i])
    PROVE  LET rows == DataRows(c)
           IN  /\ GoodRequest(Gathered(c))
               /\ Laid(Gathered(c)) = FlattenSeq([i \in DOMAIN rows |-> Asks(c, rows[i])])
<1> DEFINE rows == DataRows(c)
           n == Len(rows)
           Goods == {r \in Requests : GoodRequest(r)}
           asks == [i \in 1..n |-> Asks(c, rows[i])]
           Prefix(m) == [i \in 1..m |-> asks[i]]
<1>1. n \in Nat /\ DOMAIN rows = 1..n /\ \A i \in 1..n : Numeric(c, rows[i])
  OBVIOUS
<1>2. PICK f \in [0..n -> Goods] :
          /\ f[0] = NoRequest
          /\ \A i \in 1..n : f[i] = Requested(c, rows[i], f[i - 1])
          /\ Gathered(c) = f[n]
  BY GatheredIs
<1> HIDE DEF rows, n
<1>3. \A i \in 1..n : asks[i] \in Seq(Items)
  BY <1>1, Nothing, RequestedLaid
<1>4. ASSUME NEW i \in 1..n
      PROVE  GoodRequest(f[i - 1]) /\ GoodRequest(f[i]) /\ Laid(f[i]) = Laid(f[i - 1]) \o asks[i]
  <2>1. i - 1 \in 0..n /\ i \in 0..n /\ f[i - 1] \in Goods
    BY <1>1, <1>2
  <2>2. GoodRequest(f[i - 1]) /\ Numeric(c, rows[i]) /\ asks[i] = Asks(c, rows[i])
    BY <1>1, <2>1
  <2>3. f[i] = Requested(c, rows[i], f[i - 1])
    BY <1>2
  <2> QED
    BY <2>2, <2>3, RequestedLaid
<1>5. asks \in [1..n -> Seq(Items)]
  BY <1>3
<1> HIDE DEF asks
<1> DEFINE U == {m \in 0..n : Laid(f[m]) = FlattenSeq(Prefix(m)) /\ Prefix(m) \in Seq(Seq(Items))}
<1>6. 0 \in U
  <2>1. Prefix(0) = <<>> /\ <<>> \in Seq(Seq(Items)) /\ 0 \in 0..n
    BY <1>1
  <2> HIDE DEF Prefix
  <2> QED
    BY <1>2, <2>1, Nothing, FlattenNothing
<1>7. ASSUME NEW m \in 0..(n - 1), m \in U PROVE m + 1 \in U
  <2>1. m + 1 \in 1..n /\ m + 1 \in 0..n /\ (m + 1) - 1 = m /\ m \in Nat
    BY <1>1
  <2>2. Prefix(m + 1) = Append(Prefix(m), asks[m + 1]) /\ Prefix(m) \in Seq(Seq(Items))
    <3> DEFINE g == [i \in 1..(m + 1) |-> asks[i]]
               S == Seq(Items)
    <3>1. g \in [1..(m + 1) -> S] /\ g[m + 1] = asks[m + 1]
      <4>1. \A i \in 1..(m + 1) : i \in 1..n
        BY <1>1, <2>1
      <4>2. m + 1 \in 1..(m + 1)
        BY <2>1
      <4> QED
        BY <1>5, <4>1, <4>2
    <3>2. Prefix(m + 1) = [i \in 1..(m + 1) |-> g[i]] /\ Prefix(m) = [i \in 1..m |-> g[i]]
      <4>1. \A i \in 1..m : i \in 1..(m + 1)
        BY <2>1
      <4> QED
        BY <4>1
    <3> HIDE DEF g, S, Prefix
    <3>3. /\ [i \in 1..(m + 1) |-> g[i]] = Append([i \in 1..m |-> g[i]], g[m + 1])
          /\ [i \in 1..m |-> g[i]] \in Seq(S)
      BY <2>1, <3>1, OneMore
    <3> QED
      BY <3>1, <3>2, <3>3 DEF S
  <2> HIDE DEF Prefix
  <2>3. asks[m + 1] \in Seq(Items)
    BY <1>5, <2>1
  <2>4. FlattenSeq(Prefix(m + 1)) = FlattenSeq(Prefix(m)) \o asks[m + 1]
    BY <2>2, <2>3, FlattenAppend
  <2>5. Prefix(m + 1) \in Seq(Seq(Items))
    <3> DEFINE S == Seq(Items)
               p == Prefix(m)
               a == asks[m + 1]
    <3>1. p \in Seq(S) /\ a \in S
      BY <2>2, <2>3
    <3> HIDE DEF p, a, S
    <3>2. Append(p, a) \in Seq(S)
      BY <3>1
    <3> QED
      BY <2>2, <3>2 DEF p, a, S
  <2>6. Laid(f[m + 1]) = Laid(f[m]) \o asks[m + 1]
    BY <1>4, <2>1
  <2> QED
    BY <1>7, <2>1, <2>4, <2>5, <2>6
<1>8. n \in U
  <2> HIDE DEF U
  <2> QED
    BY <1>1, <1>6, <1>7, InductionUpTo
<1>9. GoodRequest(f[n])
  BY <1>1, <1>2
<1>10. Prefix(n) = [i \in DOMAIN rows |-> Asks(c, rows[i])]
  BY <1>1 DEF asks
<1> HIDE DEF Prefix
<1> QED
  BY <1>2, <1>8, <1>9, <1>10 DEF rows

-----------------------------------------------------------------------------
(* The choices of the dialog are in place when the file is loaded.         *)

LEMMA OneOf ==
    ASSUME NEW x \in Int
    PROVE  FirstOf({x}) = x /\ LastOf({x}) = x
<1>1. {x} # {}
  OBVIOUS
<1>2. Min({x}) = x
  <2>1. \E y \in {x} : \A z \in {x} : y <= z
    OBVIOUS
  <2>2. Min({x}) \in {x}
    BY <2>1 DEF Min
  <2> QED
    BY <2>2
<1>3. Max({x}) = x
  <2>1. \E y \in {x} : \A z \in {x} : y >= z
    OBVIOUS
  <2>2. Max({x}) \in {x}
    BY <2>1 DEF Max
  <2> QED
    BY <2>2
<1> QED
  BY <1>1, <1>2, <1>3 DEF FirstOf, LastOf

LEMMA RolesAre == DOMAIN Roles = 1..3 /\ RegNumber = 1 /\ RegValue = 2 /\ NodeId = 3 /\ None = 0
BY DEF Roles, RegNumber, RegValue, NodeId, None

LEMMA LastRole ==
    ASSUME NEW roles \in SUBSET DOMAIN Roles, roles # {}
    PROVE  Max(roles) \in DOMAIN Roles
<1>1. \A role \in roles : role = 1 \/ role = 2 \/ role = 3
  BY RolesAre
<1>2. \E x \in roles : \A y \in roles : x >= y
  <2>1. CASE 3 \in roles
    BY <1>1, <2>1
  <2>2. CASE 3 \notin roles /\ 2 \in roles
    BY <1>1, <2>2
  <2>3. CASE 3 \notin roles /\ 2 \notin roles
    BY <1>1, <2>3
  <2> QED
    BY <2>1, <2>2, <2>3
<1>3. Max(roles) \in roles
  BY <1>2 DEF Max
<1> QED
  BY <1>3

LEMMA TableIs ==
    ASSUME table \in Tables
    PROVE  /\ table \in Seq(Seq(Cells)) /\ table # <<>> /\ Tail(table) \in Seq(Seq(Cells))
           /\ Len(table) >= 1 /\ Len(Tail(table)) = Len(table) - 1
           /\ \E n \in Nat : n >= 1 /\ Columns = 1..n
<1> DEFINE S == Seq(Cells)
<1>1. table \in Seq(S) /\ table # <<>> /\ table[1] # <<>>
  BY ImportAssumption
<1> HIDE DEF S
<1>2. Tail(table) \in Seq(S) /\ Len(table) \in Nat /\ Len(table) >= 1 /\ Len(Tail(table)) = Len(table) - 1
      /\ table[1] \in S
  BY <1>1
<1>3. \E n \in Nat : n >= 1 /\ Columns = 1..n
  <2> DEFINE row == table[1]
  <2>1. row \in Seq(Cells) /\ row # <<>>
    BY <1>1, <1>2 DEF S
  <2>2. Len(row) \in Nat /\ DOMAIN row = 1..Len(row) /\ Len(row) >= 1
    BY <2>1
  <2> QED
    BY <2>2 DEF Columns
<1> QED
  BY <1>1, <1>2, <1>3 DEF S

\* One column has the role.
LEMMA TheColumn ==
    ASSUME table \in Tables, NEW role, Cardinality(InUse(role)) = 1
    PROVE  FirstOf(InUse(role)) \in Columns /\ FirstOf(InUse(role)) \in Nat
           /\ FirstOf(InUse(role)) >= 1 /\ InUse(role) = {FirstOf(InUse(role))}
<1>1. PICK n \in Nat : n >= 1 /\ Columns = 1..n
  BY TableIs
<1>2. IsFiniteSet(Columns)
  BY <1>1, FS_Interval
<1>3. InUse(role) \in SUBSET Columns
  BY DEF InUse
<1>4. IsFiniteSet(InUse(role))
  BY <1>2, <1>3, FS_Subset
<1>5. PICK x : InUse(role) = {x}
  BY <1>4, FS_Singleton
<1>6. x \in Columns /\ x \in Nat /\ x >= 1
  BY <1>1, <1>3, <1>5
<1> QED
  BY <1>5, <1>6, OneOf

\* The node a row is written to, as the user chose it.
Named(row, role) == ToInt(row[FirstOf(InUse(role))])
ChosenNode(row) == IF controls.fixed THEN controls.node ELSE Named(row, NodeId)

LEMMA SpinBox ==
    ASSUME controls \in Controls
    PROVE  controls.node \in Nat
<1>1. ImportNodes \subseteq Nat
  <2>1. ImportNodes \subseteq 0..255
    BY ImportAssumption, Zenon
  <2> QED
    BY <2>1
<1>2. controls.node \in {0} \cup ImportNodes
  BY DEF Controls
<1>3. CASE controls.node = 0
  BY <1>3
<1>4. CASE controls.node \in ImportNodes
  BY <1>1, <1>4
<1> QED
  BY <1>2, <1>3, <1>4

\* What load_csv_data() is given when it does not go past the end of a row.
LEMMA Chosen ==
    ASSUME table \in Tables, controls \in Controls, on_ok_clicked, phase' = "loaded"
    PROVE  LET rows == DataRows(config')
           IN  /\ rows = IF controls.headers THEN Tail(table) ELSE table
               /\ rows \in Seq(Seq(Cells))
               /\ \A i \in 1..Len(rows) :
                     /\ Numeric(config', rows[i])
                     /\ NodeOf(config', rows[i]) = ChosenNode(rows[i])
                     /\ rows[i][config'.register] = rows[i][FirstOf(InUse(RegNumber))]
                     /\ rows[i][config'.value] = rows[i][FirstOf(InUse(RegValue))]
               /\ emitted' = [i \in DOMAIN rows |-> RowSays(config', rows[i])]
               /\ writes' = LET request == Gathered(config')
                            IN  IF request.wr.values = <<>> THEN request.done
                                ELSE Append(request.done, request.wr)
<1> DEFINE c == [register |-> FirstOf(InUse(RegNumber)), value |-> FirstOf(InUse(RegValue)),
                 node |-> IF controls.fixed THEN (0 - controls.node) - 1 ELSE FirstOf(InUse(NodeId)),
                 skip_first_row |-> controls.headers]
           rows == DataRows(c)
           used == {c.register, c.value} \cup ({c.node} \cap Nat)
<1>1. config' = c /\ load_csv_data(c)
  BY Zenon DEF on_ok_clicked
<1>2. /\ Cardinality(InUse(RegNumber)) = 1 /\ Cardinality(InUse(RegValue)) = 1
      /\ ~controls.fixed => Cardinality(InUse(NodeId)) = 1
  BY DEF on_ok_clicked
<1>3. /\ \A i \in DOMAIN rows : used \subseteq DOMAIN rows[i]
      /\ emitted' = [i \in DOMAIN rows |-> RowSays(c, rows[i])]
      /\ writes' = LET request == Gathered(c)
                   IN  IF request.wr.values = <<>> THEN request.done
                       ELSE Append(request.done, request.wr)
  <2>1. "loaded" # "undefined"
    OBVIOUS
  <2> QED
    BY <1>1, <2>1 DEF load_csv_data
<1>4. c.register = FirstOf(InUse(RegNumber)) /\ c.value = FirstOf(InUse(RegValue))
      /\ c.skip_first_row = controls.headers
      /\ c.node = IF controls.fixed THEN (0 - controls.node) - 1 ELSE FirstOf(InUse(NodeId))
  OBVIOUS
<1>5. controls.node \in Nat
  BY SpinBox
<1> HIDE DEF c
<1>6. rows = (IF controls.headers THEN Tail(table) ELSE table) /\ rows \in Seq(Seq(Cells))
  <2>1. rows = IF controls.headers THEN Tail(table) ELSE table
    BY <1>4 DEF DataRows
  <2> QED
    BY <2>1, TableIs
<1>7. ~controls.fixed => c.node \in Nat /\ c.node >= 1
  BY <1>2, <1>4, TheColumn
<1> HIDE DEF rows
<1>8. ASSUME NEW i \in 1..Len(rows)
      PROVE  Numeric(c, rows[i]) /\ NodeOf(c, rows[i]) = ChosenNode(rows[i])
  <2> DEFINE row == rows[i]
  <2>1. row \in Seq(Cells) /\ i \in DOMAIN rows
    <3> DEFINE S == Seq(Cells)
    <3>1. rows \in Seq(S)
      BY <1>6
    <3> HIDE DEF S
    <3>2. row \in S /\ i \in DOMAIN rows
      BY <3>1
    <3> QED
      BY <3>2 DEF S
  <2>2. used \subseteq DOMAIN row
    BY <1>3, <2>1
  <2> HIDE DEF row
  <2>3. \A k \in DOMAIN row : ToInt(row[k]) \in Int
    <3>1. \A k \in DOMAIN row : row[k] \in Cells
      BY <2>1
    <3> QED
      BY <3>1, CellNumber
  <2>4. ToInt(row[c.register]) \in Int /\ ToInt(row[c.value]) \in Int
    BY <2>2, <2>3
  <2>5. CASE controls.fixed
    <3>1. c.node = (0 - controls.node) - 1 /\ c.node < 0 /\ FixedNode(c.node) = controls.node
      BY <1>4, <1>5, <2>5 DEF FixedNode
    <3>2. NodeOf(c, row) = controls.node /\ ChosenNode(row) = controls.node
      BY <2>5, <3>1 DEF NodeOf, ChosenNode
    <3> QED
      BY <1>5, <2>4, <3>2 DEF Numeric, row
  <2>6. CASE ~controls.fixed
    <3>1. c.node \in DOMAIN row /\ ~(c.node < 0)
      BY <1>7, <2>2, <2>6
    <3>2. NodeOf(c, row) = ToInt(row[c.node]) /\ ChosenNode(row) = ToInt(row[c.node])
      BY <1>4, <2>6, <3>1 DEF NodeOf, ChosenNode, Named
    <3> QED
      BY <2>3, <2>4, <3>1, <3>2 DEF Numeric, row
  <2> QED
    BY <2>5, <2>6
<1> QED
  BY <1>1, <1>3, <1>4, <1>6, <1>8 DEF rows

-----------------------------------------------------------------------------
(* What has been loaded.                                                   *)

HandedOver(r) == IF r.wr.values = <<>> THEN r.done ELSE Append(r.done, r.wr)

LEMMA AllHandedOver ==
    ASSUME NEW r, GoodRequest(r)
    PROVE  LET w == HandedOver(r)
           IN  /\ w \in Seq(Writes) /\ FlattenSeq(Done(w)) = Laid(r)
               /\ \A i \in DOMAIN w : Filled(w[i])
               /\ \A i \in 1..(Len(w) - 1) : Broken(w[i], w[i + 1])
<1> DEFINE w == HandedOver(r)
           n == Len(r.done)
<1>1. /\ r.done \in Seq(Writes) /\ r.wr \in Writes
      /\ \A i \in DOMAIN r.done : Filled(r.done[i])
      /\ \A i \in 1..(n - 1) : Broken(r.done[i], r.done[i + 1])
  BY DEF GoodRequest, Requests
<1>2. /\ Laid(r) = FlattenSeq(Done(r.done)) \o Expanded(r.wr)
      /\ FlattenSeq(Done(r.done)) \in Seq(Items) /\ Expanded(r.wr) \in Seq(Items)
      /\ Done(r.done) \in Seq(Seq(Items))
  BY LaidItems
<1>3. CASE r.wr.values = <<>>
  <2>1. w = r.done
    BY <1>3 DEF HandedOver
  <2>2. Expanded(r.wr) = <<>>
    <3>1. Len(Expanded(r.wr)) = 0
      BY <1>1, <1>3, ExpandedItems
    <3> QED
      BY <1>2, <3>1
  <2>3. Laid(r) = FlattenSeq(Done(r.done))
    BY <1>2, <2>2, ConcatEmptySeq
  <2> HIDE DEF w
  <2> QED
    BY <1>1, <2>1, <2>3 DEF w
<1>4. CASE r.wr.values # <<>>
  <2>1. w = Append(r.done, r.wr)
    BY <1>4 DEF HandedOver
  <2>2. Filled(r.wr) /\ (r.done # <<>> => Broken(r.done[n], r.wr))
    BY <1>4 DEF GoodRequest
  <2>3. FlattenSeq(Done(w)) = Laid(r)
    BY <1>1, <1>2, <2>1, DoneMore, FlattenAppend
  <2>4. /\ n \in Nat /\ DOMAIN r.done = 1..n /\ DOMAIN w = 1..(n + 1) /\ Len(w) = n + 1
        /\ \A i \in 1..n : w[i] = r.done[i]
        /\ w[n + 1] = r.wr /\ (n # 0 => r.done # <<>>) /\ w \in Seq(Writes)
    BY <1>1, <2>1
  <2> HIDE DEF w, n
  <2>5. ASSUME NEW i \in DOMAIN w PROVE Filled(w[i])
    <3>1. i \in 1..n \/ i = n + 1
      BY <2>4
    <3> QED
      BY <1>1, <2>2, <2>4, <3>1
  <2>6. ASSUME NEW i \in 1..(Len(w) - 1) PROVE Broken(w[i], w[i + 1])
    <3>1. CASE i = n
      <4>1. n # 0 /\ i \in 1..n /\ i + 1 = n + 1
        BY <2>4, <3>1
      <4>2. w[i] = r.done[n] /\ w[i + 1] = r.wr
        BY <2>4, <3>1, <4>1
      <4> QED
        BY <2>2, <2>4, <4>1, <4>2
    <3>2. CASE i # n
      <4>1. i \in 1..(n - 1) /\ i \in 1..n /\ i + 1 \in 1..n
        BY <2>4, <3>2
      <4> QED
        BY <1>1, <2>4, <4>1
    <3> QED
      BY <3>1, <3>2
  <2> QED
    BY <2>3, <2>4, <2>5, <2>6 DEF w
<1> QED
  BY <1>3, <1>4

\* The rows of data and what one of them asks for, as the user chose.
ChosenRows == IF controls.headers THEN Tail(table) ELSE table
ChosenItem(row) ==
    [register |-> Named(row, RegNumber), value |-> Named(row, RegValue) % Word,
     node |-> ChosenNode(row) % Byte]
Asked(row) == IF Writable(Named(row, RegNumber)) THEN <<ChosenItem(row)>> ELSE <<>>

LEMMA WritesExactIs ==
    WritesExact <=>
        (phase = "loaded" =>
            FlattenSeq(Done(writes)) =
                FlattenSeq([i \in DOMAIN ChosenRows |-> Asked(ChosenRows[i])]))
BY Zenon DEF WritesExact, ChosenRows, Asked, ChosenItem, ChosenNode, Named, Done

LEMMA WritesFitIs ==
    ASSUME \A i \in DOMAIN writes : Filled(writes[i]),
           \A i \in 1..(Len(writes) - 1) : Broken(writes[i], writes[i + 1])
    PROVE  WritesFit
BY DEF WritesFit, Filled, Broken

\* The whole handler: what is emitted and written, where it does not end in
\* undefined behaviour.
LEMMA Loaded ==
    ASSUME table \in Tables, controls \in Controls, on_ok_clicked, phase' = "loaded"
    PROVE  /\ emitted' \in Seq(Items) /\ writes' \in Seq(Writes)
           /\ \A i \in DOMAIN writes' : Filled(writes'[i])
           /\ \A i \in 1..(Len(writes') - 1) : Broken(writes'[i], writes'[i + 1])
           /\ FlattenSeq(Done(writes')) =
                  FlattenSeq([i \in DOMAIN ChosenRows |-> Asked(ChosenRows[i])])
<1> DEFINE c == config'
           rows == DataRows(c)
           n == Len(rows)
<1>1. /\ rows = ChosenRows /\ rows \in Seq(Seq(Cells))
      /\ \A i \in 1..n :
            /\ Numeric(c, rows[i]) /\ NodeOf(c, rows[i]) = ChosenNode(rows[i])
            /\ rows[i][c.register] = rows[i][FirstOf(InUse(RegNumber))]
            /\ rows[i][c.value] = rows[i][FirstOf(InUse(RegValue))]
      /\ emitted' = [i \in DOMAIN rows |-> RowSays(c, rows[i])]
      /\ writes' = HandedOver(Gathered(c))
  BY Chosen DEF HandedOver, ChosenRows
<1>2. n \in Nat /\ DOMAIN rows = 1..n
  BY <1>1
<1>3. /\ GoodRequest(Gathered(c))
      /\ Laid(Gathered(c)) = FlattenSeq([i \in DOMAIN rows |-> Asks(c, rows[i])])
  BY <1>1, GatheredLaid
<1> HIDE DEF c, rows, n
<1>4. \A i \in 1..n : RowSays(c, rows[i]) \in Items
  BY <1>1, RowItem
<1>5. emitted' \in Seq(Items)
  <2>1. emitted' \in [1..n -> Items]
    BY <1>1, <1>2, <1>4
  <2> QED
    BY <1>2, <2>1, FunctionIsSeq
<1>6. ASSUME NEW i \in 1..n PROVE Asks(c, rows[i]) = Asked(rows[i])
  <2> DEFINE row == rows[i]
             item == RowSays(c, row)
  <2>1. /\ Numeric(c, row) /\ NodeOf(c, row) = ChosenNode(row)
        /\ ToInt(row[c.register]) = Named(row, RegNumber) /\ ToInt(row[c.value]) = Named(row, RegValue)
    BY <1>1 DEF Named
  <2> HIDE DEF row
  <2>2. CASE Writable(Named(row, RegNumber))
    <3>1. /\ item = Item(item.register, item.value, item.node)
          /\ item.value = Named(row, RegValue) % Word /\ item.node = ChosenNode(row) % Byte
          /\ item.register = Named(row, RegNumber)
      BY <2>1, <2>2, RowItem
    <3> HIDE DEF item
    <3>2. item = ChosenItem(row)
      BY <3>1 DEF Item, ChosenItem
    <3> QED
      BY <2>1, <2>2, <3>2 DEF Asks, Asked, item, row
  <2>3. CASE ~Writable(Named(row, RegNumber))
    BY <2>1, <2>3 DEF Asks, Asked, row
  <2> QED
    BY <2>2, <2>3
<1>7. [i \in DOMAIN rows |-> Asks(c, rows[i])] = [i \in DOMAIN rows |-> Asked(rows[i])]
  BY <1>2, <1>6
<1> QED
  BY <1>1, <1>3, <1>5, <1>7, AllHandedOver

-----------------------------------------------------------------------------
(* The files the program has written.                                      *)

ValueColumn(w) == IF w.have_metadata THEN 5 ELSE 2
NodeColumn(w) == IF w.have_metadata THEN 4 ELSE 3

LEMMA ExportIs ==
    ASSUME NEW w \in Windows, table = save_register_set(w)
    PROVE  /\ table[1] = ExportHeader(w.have_metadata) /\ 1 \in DOMAIN table
           /\ w.count \in Nat
           /\ Tail(table) = [i \in 1..w.count |->
                  ExportRow(w.have_metadata, RegisterOf(w, i), w.text[i], w.node, w.raw[i],
                            w.encoding[i])]
<1> DEFINE row == [i \in 1..w.count |->
                      ExportRow(w.have_metadata, RegisterOf(w, i), w.text[i], w.node, w.raw[i],
                                w.encoding[i])]
           head == ExportHeader(w.have_metadata)
           S == {head} \cup {row[i] : i \in 1..w.count}
<1>1. w.count \in Nat
  BY RoundTripAssumption
<1>2. table = <<head>> \o row
  BY DEF save_register_set, Rows
<1>3. row \in [1..w.count -> S] /\ head \in S
  OBVIOUS
<1> HIDE DEF row, head, S
<1>4. row \in Seq(S)
  BY <1>1, <1>3, FunctionIsSeq
<1>5. table[1] = head /\ 1 \in DOMAIN table /\ Tail(table) = row
  <2>1. <<head>> \in Seq(S) /\ Len(<<head>>) = 1 /\ <<head>>[1] = head
    BY <1>3
  <2> DEFINE t == <<head>> \o row
             n == Len(row)
  <2>2. n \in Nat /\ t \in Seq(S) /\ Len(t) = 1 + n /\ t[1] = head
        /\ \A i \in 1..n : t[i + 1] = row[i]
    BY <1>4, <2>1
  <2> HIDE DEF t, n
  <2>3. t # <<>> /\ Tail(t) \in Seq(S) /\ Len(Tail(t)) = n /\ \A i \in 1..n : Tail(t)[i] = t[i + 1]
    BY <2>2
  <2>4. Tail(t) = row
    <3> DEFINE u == Tail(t)
    <3>1. u \in Seq(S) /\ Len(u) = Len(row) /\ \A i \in 1..Len(u) : u[i] = row[i]
      BY <2>2, <2>3 DEF n
    <3> HIDE DEF u
    <3>2. u = row
      BY <1>4, <3>1, SeqEqual
    <3> QED
      BY <3>2 DEF u
  <2>5. 1 \in DOMAIN t
    BY <2>2
  <2> QED
    BY <1>2, <2>2, <2>4, <2>5 DEF t
<1> QED
  BY <1>1, <1>5 DEF row, head

\* The titles of the columns, for a window that has metadata and for one that
\* has not.
DescribedWords ==
    <<"register number", "label", "value", "device id/node", "raw value", "encoding">>
PlainWords == <<"register number", "value", "device id/node">>
DescribedHeader == [i \in DOMAIN DescribedWords |-> Text(DescribedWords[i], <<>>)]
PlainHeader == [i \in DOMAIN PlainWords |-> Text(PlainWords[i], <<>>)]

LEMMA DescribedTitles ==
    /\ DOMAIN DescribedHeader = 1..6
    /\ {c \in DOMAIN DescribedHeader : DescribedHeader[c].form = "register number"} = {1}
    /\ {c \in DOMAIN DescribedHeader : DescribedHeader[c].form = "raw value"} = {5}
    /\ {c \in DOMAIN DescribedHeader : DescribedHeader[c].form = "device id/node"} = {4}
<1>1. DOMAIN DescribedWords = 1..6
  BY DEF DescribedWords
<1>2. /\ DescribedWords[1] = "register number" /\ DescribedWords[2] = "label"
      /\ DescribedWords[3] = "value" /\ DescribedWords[4] = "device id/node"
      /\ DescribedWords[5] = "raw value" /\ DescribedWords[6] = "encoding"
  BY DEF DescribedWords
<1>3. DOMAIN DescribedHeader = 1..6 /\ \A c \in 1..6 : DescribedHeader[c].form = DescribedWords[c]
  BY <1>1 DEF DescribedHeader, Text
<1>4. \A c \in 1..6 : c = 1 \/ c = 2 \/ c = 3 \/ c = 4 \/ c = 5 \/ c = 6
  OBVIOUS
<1>5. /\ \A c \in 1..6 : DescribedWords[c] = "register number" <=> c = 1
      /\ \A c \in 1..6 : DescribedWords[c] = "raw value" <=> c = 5
      /\ \A c \in 1..6 : DescribedWords[c] = "device id/node" <=> c = 4
  BY <1>2, <1>4
<1>6. 1 \in 1..6 /\ 4 \in 1..6 /\ 5 \in 1..6
  OBVIOUS
<1> DEFINE H == DescribedHeader
           W == DescribedWords
<1>7. DOMAIN H = 1..6 /\ \A c \in 1..6 : H[c].form = W[c]
  BY <1>3
<1> HIDE DEF H, W
<1>8. {c \in DOMAIN H : H[c].form = "register number"} = {1}
  <2>1. \A c \in DOMAIN H : H[c].form = "register number" <=> c = 1
    BY <1>5, <1>7, Zenon DEF W
  <2> QED
    BY <1>6, <1>7, <2>1
<1>9. {c \in DOMAIN H : H[c].form = "raw value"} = {5}
  <2>1. \A c \in DOMAIN H : H[c].form = "raw value" <=> c = 5
    BY <1>5, <1>7, Zenon DEF W
  <2> QED
    BY <1>6, <1>7, <2>1
<1>10. {c \in DOMAIN H : H[c].form = "device id/node"} = {4}
  <2>1. \A c \in DOMAIN H : H[c].form = "device id/node" <=> c = 4
    BY <1>5, <1>7, Zenon DEF W
  <2> QED
    BY <1>6, <1>7, <2>1
<1> QED
  BY <1>7, <1>8, <1>9, <1>10 DEF H

LEMMA PlainTitles ==
    /\ DOMAIN PlainHeader = 1..3
    /\ {c \in DOMAIN PlainHeader : PlainHeader[c].form = "register number"} = {1}
    /\ {c \in DOMAIN PlainHeader : PlainHeader[c].form = "value"} = {2}
    /\ {c \in DOMAIN PlainHeader : PlainHeader[c].form = "raw value"} = {}
    /\ {c \in DOMAIN PlainHeader : PlainHeader[c].form = "device id/node"} = {3}
<1>1. DOMAIN PlainWords = 1..3
  BY DEF PlainWords
<1>2. /\ PlainWords[1] = "register number" /\ PlainWords[2] = "value"
      /\ PlainWords[3] = "device id/node"
  BY DEF PlainWords
<1>3. DOMAIN PlainHeader = 1..3 /\ \A c \in 1..3 : PlainHeader[c].form = PlainWords[c]
  BY <1>1 DEF PlainHeader, Text
<1>4. \A c \in 1..3 : c = 1 \/ c = 2 \/ c = 3
  OBVIOUS
<1>5. /\ \A c \in 1..3 : PlainWords[c] = "register number" <=> c = 1
      /\ \A c \in 1..3 : PlainWords[c] = "value" <=> c = 2
      /\ \A c \in 1..3 : PlainWords[c] # "raw value"
      /\ \A c \in 1..3 : PlainWords[c] = "device id/node" <=> c = 3
  BY <1>2, <1>4
<1>6. 1 \in 1..3 /\ 2 \in 1..3 /\ 3 \in 1..3
  OBVIOUS
<1> DEFINE H == PlainHeader
           W == PlainWords
<1>7. DOMAIN H = 1..3 /\ \A c \in 1..3 : H[c].form = W[c]
  BY <1>3
<1> HIDE DEF H, W
<1>8. {c \in DOMAIN H : H[c].form = "register number"} = {1}
  <2>1. \A c \in DOMAIN H : H[c].form = "register number" <=> c = 1
    BY <1>5, <1>7, Zenon DEF W
  <2> QED
    BY <1>6, <1>7, <2>1
<1>9. {c \in DOMAIN H : H[c].form = "value"} = {2}
  <2>1. \A c \in DOMAIN H : H[c].form = "value" <=> c = 2
    BY <1>5, <1>7, Zenon DEF W
  <2> QED
    BY <1>6, <1>7, <2>1
<1>10. {c \in DOMAIN H : H[c].form = "raw value"} = {}
  <2>1. \A c \in DOMAIN H : H[c].form # "raw value"
    BY <1>5, <1>7, Zenon DEF W
  <2> QED
    BY <1>6, <1>7, <2>1
<1>11. {c \in DOMAIN H : H[c].form = "device id/node"} = {3}
  <2>1. \A c \in DOMAIN H : H[c].form = "device id/node" <=> c = 3
    BY <1>5, <1>7, Zenon DEF W
  <2> QED
    BY <1>6, <1>7, <2>1
<1> QED
  BY <1>7, <1>8, <1>9, <1>10, <1>11 DEF H

\* The columns of an export are found by their titles.
LEMMA ExportTitles ==
    ASSUME NEW w \in Windows, table = save_register_set(w)
    PROVE  /\ HeaderField(RegNumber) = 1 /\ HeaderField(RegValue) = ValueColumn(w)
           /\ HeaderField(NodeId) = NodeColumn(w)
           /\ {1, ValueColumn(w), NodeColumn(w)} \subseteq Columns
<1> DEFINE H == ExportHeader(w.have_metadata)
<1>1. table[1] = H /\ 1 \in DOMAIN table
  BY ExportIs
<1>2. \/ H = DescribedHeader /\ ValueColumn(w) = 5 /\ NodeColumn(w) = 4
      \/ H = PlainHeader /\ ValueColumn(w) = 2 /\ NodeColumn(w) = 3
  <2>1. CASE w.have_metadata
    <3>1. H = DescribedHeader
      BY <2>1, Zenon DEF ExportHeader, DescribedHeader, DescribedWords
    <3> QED
      BY <2>1, <3>1, Zenon DEF ValueColumn, NodeColumn
  <2>2. CASE ~w.have_metadata
    <3>1. H = PlainHeader
      BY <2>2, Zenon DEF ExportHeader, PlainHeader, PlainWords
    <3> QED
      BY <2>2, <3>1, Zenon DEF ValueColumn, NodeColumn
  <2> QED
    BY <2>1, <2>2
<1> HIDE DEF H
<1>3. Columns = DOMAIN H /\ \A c \in Columns : Cell(1, c) = H[c]
  BY <1>1 DEF Columns, Cell
<1>4. \A title : Titled(title) = {c \in DOMAIN H : H[c].form = title}
  BY <1>3 DEF Titled
<1>5. CASE H = DescribedHeader /\ ValueColumn(w) = 5 /\ NodeColumn(w) = 4
  <2>1. Titled("register number") = {1} /\ Titled("raw value") = {5} /\ Titled("device id/node") = {4}
    BY <1>4, <1>5, DescribedTitles
  <2>2. FirstOf({1}) = 1 /\ LastOf({5}) = 5 /\ FirstOf({4}) = 4
    BY OneOf
  <2>3. {1, 5, 4} \subseteq Columns
    BY <1>3, <1>5, DescribedTitles
  <2> QED
    BY <1>5, <2>1, <2>2, <2>3 DEF HeaderField, Roles, RegNumber, RegValue, NodeId
<1>6. CASE H = PlainHeader /\ ValueColumn(w) = 2 /\ NodeColumn(w) = 3
  <2>1. Titled("register number") = {1} /\ Titled("raw value") = {} /\ Titled("value") = {2}
        /\ Titled("device id/node") = {3}
    BY <1>4, <1>6, PlainTitles
  <2>2. FirstOf({1}) = 1 /\ FirstOf({2}) = 2 /\ FirstOf({3}) = 3
    BY OneOf
  <2>3. {1, 2, 3} \subseteq Columns
    BY <1>3, <1>6, PlainTitles
  <2> QED
    BY <1>6, <2>1, <2>2, <2>3 DEF HeaderField, Roles, RegNumber, RegValue, NodeId
<1> QED
  BY <1>2, <1>5, <1>6

\* The dialog as attempt_autoconfig() leaves it for the file of window w.
FoundFor(w) ==
    /\ controls.headers /\ ~controls.fixed
    /\ InUse(RegNumber) = {1} /\ InUse(RegValue) = {ValueColumn(w)}
    /\ InUse(NodeId) = {NodeColumn(w)}

LEMMA AutoconfigExport ==
    ASSUME NEW w \in Windows, table = save_register_set(w), attempt_autoconfig,
           controls \in Controls
    PROVE  FoundFor(w)'
<1> DEFINE roles(c) == {role \in DOMAIN Roles : Fields[role] = c}
           v == ValueColumn(w)
           m == NodeColumn(w)
<1>1. /\ HeaderField(RegNumber) = 1 /\ HeaderField(RegValue) = v /\ HeaderField(NodeId) = m
      /\ {1, v, m} \subseteq Columns
  BY ExportTitles
<1>2. (v = 5 /\ m = 4) \/ (v = 2 /\ m = 3)
  BY DEF ValueColumn, NodeColumn
<1> HIDE DEF v, m
<1>3. Fields = <<1, v, m>>
  BY <1>1, <1>2 DEF Fields, None
<1>4. HeadersInRow
  <2>1. RegNumber \in DOMAIN Roles /\ HeaderField(RegNumber) # None
    BY <1>1, RolesAre
  <2> QED
    BY <2>1 DEF HeadersInRow
<1>5. Fields[1] = 1 /\ Fields[2] = v /\ Fields[3] = m
  BY <1>3
<1>6. \A c \in Columns :
         roles(c) = IF c = 1 THEN {1} ELSE IF c = v THEN {2} ELSE IF c = m THEN {3} ELSE {}
  <2> TAKE c \in Columns
  <2>1. \A role : role \in DOMAIN Roles <=> role = 1 \/ role = 2 \/ role = 3
    BY RolesAre
  <2> QED
    BY <1>2, <1>5, <2>1
<1>7. controls' = [controls EXCEPT
                      !.headers = HeadersInRow \/ NumbersRow = 2,
                      !.fixed = Fields[NodeId] = None,
                      !.use = [c \in Columns |-> roles(c) # {}],
                      !.role = [c \in Columns |-> IF roles(c) = {} THEN RegNumber ELSE Max(roles(c))]]
      /\ table' = table
  BY DEF attempt_autoconfig
<1> HIDE DEF roles
<1>8. /\ controls'.headers = (HeadersInRow \/ NumbersRow = 2)
      /\ controls'.fixed = (Fields[NodeId] = None)
      /\ controls'.use = [c \in Columns |-> roles(c) # {}]
      /\ controls'.role = [c \in Columns |-> IF roles(c) = {} THEN RegNumber ELSE Max(roles(c))]
  BY <1>7 DEF Controls
<1>9. controls'.headers /\ ~controls'.fixed
  <2>1. controls'.headers
    BY <1>4, <1>8, Zenon
  <2>2. Fields[NodeId] # None
    BY <1>2, <1>5, RolesAre
  <2>3. ~controls'.fixed
    BY <1>8, <2>2, Zenon
  <2> QED
    BY <2>1, <2>3
<1>10. \A c \in Columns : controls'.use[c] <=> c \in {1, v, m}
  BY <1>2, <1>6, <1>8
<1>11. controls'.role[1] = 1 /\ controls'.role[v] = 2 /\ controls'.role[m] = 3
  <2>1. Max({1}) = 1 /\ Max({2}) = 2 /\ Max({3}) = 3
    BY OneOf DEF LastOf
  <2>2. roles(1) = {1} /\ roles(v) = {2} /\ roles(m) = {3}
    BY <1>1, <1>2, <1>6
  <2>3. \A c \in Columns :
           controls'.role[c] = IF roles(c) = {} THEN RegNumber ELSE Max(roles(c))
    BY <1>8
  <2>4. 1 \in Columns /\ v \in Columns /\ m \in Columns
    BY <1>1
  <2>5. {1} # {} /\ {2} # {} /\ {3} # {}
    OBVIOUS
  <2> QED
    BY <2>1, <2>2, <2>3, <2>4, <2>5
<1>12. /\ InUse(RegNumber)' = {1} /\ InUse(RegValue)' = {v} /\ InUse(NodeId)' = {m}
  <2>1. \A role : InUse(role)' = {c \in Columns : controls'.use[c] /\ controls'.role[c] = role}
    BY <1>7 DEF InUse, Columns
  <2> QED
    BY <1>1, <1>10, <1>11, <2>1, RolesAre
<1> QED
  BY <1>9, <1>12 DEF FoundFor, v, m

\* What is to be read back.
Shown(w) ==
    [i \in Rows(w) |-> [register |-> RegisterOf(w, i), value |-> w.raw[i], node |-> w.node]]

LEMMA ExportLoaded ==
    ASSUME table \in Tables, controls \in Controls, on_ok_clicked, phase' = "loaded",
           NEW w \in Windows, table = save_register_set(w), Readable(w), FoundFor(w)
    PROVE  emitted' = Shown(w)
<1> DEFINE c == config'
           rows == DataRows(c)
           v == ValueColumn(w)
           m == NodeColumn(w)
<1>1. /\ rows = Tail(table)
      /\ \A i \in 1..Len(rows) :
            /\ Numeric(c, rows[i]) /\ NodeOf(c, rows[i]) = ChosenNode(rows[i])
            /\ rows[i][c.register] = rows[i][FirstOf(InUse(RegNumber))]
            /\ rows[i][c.value] = rows[i][FirstOf(InUse(RegValue))]
      /\ emitted' = [i \in DOMAIN rows |-> RowSays(c, rows[i])]
  BY Chosen DEF FoundFor
<1>2. /\ w.count \in Nat
      /\ rows = [i \in 1..w.count |->
                    ExportRow(w.have_metadata, RegisterOf(w, i), w.text[i], w.node, w.raw[i],
                              w.encoding[i])]
  BY <1>1, ExportIs
<1>3. v \in Int /\ m \in Int
  BY DEF ValueColumn, NodeColumn
<1>4. FirstOf(InUse(RegNumber)) = 1 /\ FirstOf(InUse(RegValue)) = v /\ FirstOf(InUse(NodeId)) = m
  BY <1>3, OneOf DEF FoundFor
<1>5. /\ w.start \in Nat /\ w.start + w.count <= Word /\ w.node \in Bytewide
      /\ w.raw \in [1..w.count -> Words]
  BY RoundTripAssumption DEF Rows, Bytewide
<1> HIDE DEF c, rows
<1>6. Len(rows) = w.count /\ DOMAIN rows = 1..w.count
  <2>1. DOMAIN rows = 1..w.count
    BY <1>2
  <2>2. rows \in Seq(Seq(Cells))
    BY <1>1, TableIs
  <2> QED
    BY <1>2, <2>1, <2>2
<1>7. ASSUME NEW i \in 1..w.count
      PROVE  RowSays(c, rows[i]) = [register |-> RegisterOf(w, i), value |-> w.raw[i],
                                    node |-> w.node]
  <2> DEFINE row == rows[i]
             item == RowSays(c, row)
  <2>1. row = ExportRow(w.have_metadata, RegisterOf(w, i), w.text[i], w.node, w.raw[i],
                        w.encoding[i])
    BY <1>2
  <2>2. /\ Numeric(c, row) /\ NodeOf(c, row) = ToInt(row[m])
        /\ row[c.register] = row[1] /\ row[c.value] = row[v]
    BY <1>1, <1>4, <1>6 DEF ChosenNode, Named, FoundFor
  <2> HIDE DEF row
  <2>3. row[1] = Decimal(RegisterOf(w, i)) /\ row[m] = Decimal(w.node)
    BY <2>1 DEF ExportRow, NodeColumn
  <2>4. row[v] = Decimal(w.raw[i])
    <3>1. CASE w.have_metadata
      BY <2>1, <3>1 DEF ExportRow, ValueColumn
    <3>2. CASE ~w.have_metadata
      <4>1. w.text[i] = decode_register(w.raw[i], w.encoding[i]) /\ w.encoding[i] \in Plain
        BY <3>2 DEF Readable, Rows
      <4>2. w.text[i] = Decimal(w.raw[i])
        BY <4>1 DEF decode_register, Plain
      <4> QED
        BY <2>1, <3>2, <4>2 DEF ExportRow, ValueColumn
    <3> QED
      BY <3>1, <3>2
  <2>5. \A x : ToInt(Decimal(x)) = x
    BY DEF ToInt, Decimal, Text, IsDecimal
  <2>6. RowSays(c, row) = Narrowed(RegisterOf(w, i), w.raw[i], w.node)
    BY <2>2, <2>3, <2>4, <2>5 DEF RowSays, NodeOf
  <2>7. RegisterOf(w, i) % Word = RegisterOf(w, i)
    <3>1. RegisterOf(w, i) \in Nat /\ RegisterOf(w, i) < Word /\ Word \in Nat
      BY <1>2, <1>5, Numbers DEF RegisterOf
    <3> QED
      BY <3>1
  <2>8. w.raw[i] % Word = w.raw[i] /\ w.node % Byte = w.node
    <3>1. w.raw[i] \in Words /\ w.node \in Bytewide
      BY <1>5
    <3>2. w.raw[i] \in Nat /\ w.raw[i] < Word /\ w.node \in Nat /\ w.node < Byte
      BY <3>1, WordIs, ByteIs
    <3>3. Word \in Nat /\ Byte \in Nat
      BY Numbers
    <3> QED
      BY <3>2, <3>3
  <2> QED
    BY <2>6, <2>7, <2>8 DEF Narrowed, row
<1> QED
  BY <1>1, <1>6, <1>7 DEF Shown, Rows

-----------------------------------------------------------------------------
(* The invariant.                                                          *)

\* Until the user changes something, the dialog of an export shows its columns.
Exported ==
    phase = "preview" /\ edits = MaxEdits =>
        \A w \in Windows : table = save_register_set(w) => FoundFor(w)

\* Nothing is emitted or written before the file is loaded, and then everything.
ImportInv ==
    /\ TypeOK
    /\ phase # "loaded" => emitted = <<>> /\ writes = <<>>
    /\ WritesFit /\ WritesExact
    /\ Exported /\ RoundTrip

LEMMA BoundIs == MaxEdits \in Nat /\ 0 \in 0..MaxEdits /\ MaxEdits \in 0..MaxEdits
<1>1. MaxEdits \in Nat
  BY ImportAssumption, Zenon
<1> QED
  BY <1>1

LEMMA NothingYet == <<>> \in Seq(Items) /\ <<>> \in Seq(Writes)
OBVIOUS

LEMMA TypesAre ==
    TypeOK <=>
        /\ table \in Tables /\ phase \in Phases /\ controls \in Controls /\ edits \in 0..MaxEdits
        /\ emitted \in Seq(Items) /\ writes \in Seq(Writes)
BY Zenon DEF TypeOK, Items, Writes

LEMMA ImportInit == Init => ImportInv
<1> SUFFICES ASSUME Init PROVE ImportInv
  OBVIOUS
<1>1. /\ table \in Tables /\ phase = "opened" /\ edits = MaxEdits
      /\ emitted = <<>> /\ writes = <<>>
  BY DEF Init
<1>2. controls \in Controls
  <2>1. controls = [headers |-> FALSE, fixed |-> FALSE, node |-> 0,
                    use |-> [c \in Columns |-> FALSE], role |-> [c \in Columns |-> RegNumber]]
    BY DEF Init
  <2>2. 0 \in {0} \cup ImportNodes /\ RegNumber \in DOMAIN Roles
    BY RolesAre
  <2> QED
    BY <2>1, <2>2 DEF Controls
<1>3. phase \in Phases /\ phase # "loaded" /\ phase # "preview"
  BY <1>1 DEF Phases
<1>4. TypeOK
  BY <1>1, <1>2, <1>3, BoundIs, NothingYet, TypesAre
<1>5. WritesFit
  <2>1. DOMAIN writes = {} /\ 1..(Len(writes) - 1) = {}
    BY <1>1
  <2> QED
    BY <2>1 DEF WritesFit
<1>6. WritesExact /\ RoundTrip /\ Exported
  BY <1>3 DEF WritesExact, RoundTrip, Exported
<1> QED
  BY <1>1, <1>4, <1>5, <1>6 DEF ImportInv

\* A step that does not load the file.
LEMMA NotLoaded ==
    ASSUME ImportInv, phase # "loaded", phase' \in Phases, phase' # "loaded",
           UNCHANGED <<table, emitted, writes>>, controls' \in Controls, edits' \in 0..MaxEdits,
           Exported'
    PROVE  ImportInv'
<1>1. /\ table' \in Tables /\ emitted' = <<>> /\ writes' = <<>> /\ writes' = writes /\ WritesFit
  BY TypesAre DEF ImportInv
<1>2. TypeOK'
  <2>1. emitted' \in Seq(Items) /\ writes' \in Seq(Writes)
    BY <1>1, NothingYet
  <2>2. Controls' = Controls
    BY DEF Controls, Columns
  <2> QED
    BY <1>1, <2>1, <2>2, Zenon DEF TypeOK, Items, Writes
<1>3. WritesFit'
  BY <1>1 DEF WritesFit
<1>4. WritesExact' /\ RoundTrip'
  BY DEF WritesExact, RoundTrip
<1> QED
  BY <1>1, <1>2, <1>3, <1>4 DEF ImportInv

LEMMA AutoconfigStep ==
    ASSUME ImportInv, attempt_autoconfig
    PROVE  ImportInv'
<1> DEFINE roles(c) == {role \in DOMAIN Roles : Fields[role] = c}
<1>1. table \in Tables /\ controls \in Controls /\ edits \in 0..MaxEdits
  BY TypesAre DEF ImportInv
<1>2. /\ phase = "opened" /\ phase' = "preview"
      /\ UNCHANGED <<table, edits, emitted, writes>>
      /\ controls' = [controls EXCEPT
             !.headers = HeadersInRow \/ NumbersRow = 2,
             !.fixed = Fields[NodeId] = None,
             !.use = [c \in Columns |-> roles(c) # {}],
             !.role = [c \in Columns |-> IF roles(c) = {} THEN RegNumber ELSE Max(roles(c))]]
  BY DEF attempt_autoconfig
<1>3. \A c \in Columns : (IF roles(c) = {} THEN RegNumber ELSE Max(roles(c))) \in DOMAIN Roles
  <2> TAKE c \in Columns
  <2>1. roles(c) \in SUBSET DOMAIN Roles /\ RegNumber \in DOMAIN Roles
    BY RolesAre
  <2> HIDE DEF roles
  <2> QED
    BY <2>1, LastRole
<1> HIDE DEF roles
<1>4. controls' \in Controls
  <2> DEFINE headers == HeadersInRow \/ NumbersRow = 2
             fixed == Fields[NodeId] = None
             use == [c \in Columns |-> roles(c) # {}]
             role == [c \in Columns |-> IF roles(c) = {} THEN RegNumber ELSE Max(roles(c))]
  <2>1. headers \in BOOLEAN /\ fixed \in BOOLEAN /\ use \in [Columns -> BOOLEAN]
    BY Zenon
  <2>2. role \in [Columns -> DOMAIN Roles]
    BY <1>3
  <2>3. controls' = [controls EXCEPT !.headers = headers, !.fixed = fixed, !.use = use,
                                     !.role = role] /\ Columns' = Columns
    BY <1>2 DEF Columns
  <2> HIDE DEF headers, fixed, use, role
  <2> QED
    BY <1>1, <1>2, <2>1, <2>2, <2>3 DEF Controls
<1>5. Exported'
  <2>1. \A w \in Windows : table = save_register_set(w) => FoundFor(w)'
    BY <1>1, AutoconfigExport
  <2> QED
    BY <1>2, <2>1 DEF Exported
<1>6. phase' \in Phases /\ phase' # "loaded" /\ phase # "loaded"
  BY <1>2 DEF Phases
<1> QED
  BY <1>1, <1>2, <1>4, <1>5, <1>6, NotLoaded

LEMMA EditStep ==
    ASSUME ImportInv, NEW changed \in Controls, Edit(changed)
    PROVE  ImportInv'
<1>1. edits \in 0..MaxEdits
  BY TypesAre DEF ImportInv
<1>2. /\ phase = "preview" /\ edits > 0 /\ edits' = edits - 1 /\ controls' = changed
      /\ UNCHANGED <<table, phase, emitted, writes>>
  BY DEF Edit
<1>3. edits' \in 0..MaxEdits /\ edits' # MaxEdits
  BY <1>1, <1>2, BoundIs
<1>4. Exported'
  BY <1>3 DEF Exported
<1>5. phase' \in Phases /\ phase' # "loaded" /\ phase # "loaded"
  BY <1>2 DEF Phases
<1>6. Columns' = Columns
  BY <1>2 DEF Columns
<1>7. controls' \in Controls'
  BY <1>2, <1>6 DEF Controls
<1> QED
  BY <1>2, <1>3, <1>4, <1>5, NotLoaded

\* WritesExact is about the writes once the table and the choices stay.
LEMMA ExactAgain ==
    ASSUME UNCHANGED <<table, controls>>,
           phase' = "loaded" =>
               FlattenSeq(Done(writes')) =
                   FlattenSeq([i \in DOMAIN ChosenRows |-> Asked(ChosenRows[i])])
    PROVE  WritesExact'
<1>1. /\ ChosenRows' = ChosenRows
      /\ \A row : Asked(row)' = Asked(row)
  BY DEF ChosenRows, Asked, ChosenItem, ChosenNode, Named, InUse, Columns
<1>2. [i \in DOMAIN ChosenRows' |-> Asked(ChosenRows[i])'] =
          [i \in DOMAIN ChosenRows |-> Asked(ChosenRows[i])]
  BY <1>1
<1>3. phase' = "loaded" =>
          FlattenSeq(Done(writes')) =
              FlattenSeq([i \in DOMAIN ChosenRows' |-> Asked(ChosenRows[i])'])
  BY <1>2
<1>4. WritesExact' <=>
          (phase' = "loaded" =>
              FlattenSeq(Done(writes')) =
                  FlattenSeq([i \in DOMAIN ChosenRows' |-> Asked(ChosenRows[i])']))
  BY Zenon DEF WritesExact, ChosenRows, Asked, ChosenItem, ChosenNode, Named, Done
<1> QED
  BY <1>3, <1>4

LEMMA LoadStep ==
    ASSUME ImportInv, on_ok_clicked
    PROVE  ImportInv'
<1>1. /\ table \in Tables /\ controls \in Controls /\ edits \in 0..MaxEdits
  BY TypesAre DEF ImportInv
<1>2. /\ phase = "preview" /\ UNCHANGED <<table, controls, edits>>
      /\ \/ phase' = "undefined" /\ UNCHANGED <<emitted, writes>>
         \/ phase' = "loaded"
  BY DEF on_ok_clicked, load_csv_data
<1>3. CASE phase' = "undefined" /\ UNCHANGED <<emitted, writes>>
  <2>1. phase' \in Phases /\ phase' # "loaded" /\ phase # "loaded" /\ phase' # "preview"
    BY <1>2, <1>3 DEF Phases
  <2>2. Exported'
    BY <2>1 DEF Exported
  <2> QED
    BY <1>1, <1>2, <1>3, <2>1, <2>2, NotLoaded
<1>4. CASE phase' = "loaded"
  <2>1. /\ emitted' \in Seq(Items) /\ writes' \in Seq(Writes)
        /\ \A i \in DOMAIN writes' : Filled(writes'[i])
        /\ \A i \in 1..(Len(writes') - 1) : Broken(writes'[i], writes'[i + 1])
        /\ FlattenSeq(Done(writes')) =
               FlattenSeq([i \in DOMAIN ChosenRows |-> Asked(ChosenRows[i])])
    BY <1>1, <1>4, Loaded
  <2>2. phase' \in Phases /\ phase' # "preview"
    BY <1>4 DEF Phases
  <2>3. Controls' = Controls
    BY <1>2 DEF Controls, Columns
  <2>4. TypeOK'
    BY <1>1, <1>2, <2>1, <2>2, <2>3, Zenon DEF TypeOK, Items, Writes
  <2>5. WritesFit'
    <3>1. /\ \A i \in DOMAIN writes' : Filled(writes'[i])
          /\ \A i \in 1..(Len(writes') - 1) : Broken(writes'[i], writes'[i + 1])
      BY <2>1
    <3>2. ASSUME NEW i \in DOMAIN writes'
          PROVE  Len(writes'[i].values) \in 1..Limit(writes'[i].first)
      <4>1. Filled(writes'[i])
        BY <3>1
      <4> QED
        BY <4>1 DEF Filled
    <3>3. ASSUME NEW i \in 1..(Len(writes') - 1)
          PROVE  \/ Len(writes'[i].values) = Limit(writes'[i + 1].first)
                 \/ <<writes'[i].first + Len(writes'[i].values), writes'[i].node>> #
                        <<writes'[i + 1].first, writes'[i + 1].node>>
      <4>1. Broken(writes'[i], writes'[i + 1])
        BY <3>1
      <4> QED
        BY <4>1, Zenon DEF Broken
    <3> QED
      BY <3>2, <3>3, Zenon DEF WritesFit
  <2>6. WritesExact'
    <3>1. UNCHANGED <<table, controls>>
      BY <1>2
    <3> QED
      BY <2>1, <3>1, ExactAgain
  <2>7. Exported'
    BY <2>2 DEF Exported
  <2>8. RoundTrip'
    <3> SUFFICES ASSUME edits = MaxEdits, NEW w \in Windows, table = save_register_set(w),
                        Readable(w)
                 PROVE  emitted' = Shown(w)
      BY <1>2, Zenon DEF RoundTrip, Shown
    <3>1. FoundFor(w)
      BY <1>2 DEF ImportInv, Exported
    <3> QED
      BY <1>1, <1>4, <3>1, ExportLoaded
  <2> QED
    BY <1>4, <2>4, <2>5, <2>6, <2>7, <2>8 DEF ImportInv
<1> QED
  BY <1>2, <1>3, <1>4

LEMMA ImportNext == ImportInv /\ [Next]_vars => ImportInv'
<1> SUFFICES ASSUME ImportInv, [Next]_vars PROVE ImportInv'
  OBVIOUS
<1>1. controls \in Controls /\ edits \in 0..MaxEdits
  BY TypesAre DEF ImportInv
<1>2. CASE attempt_autoconfig
  BY <1>2, AutoconfigStep
<1>3. CASE CheckHeaders
  <2>1. [controls EXCEPT !.headers = ~@] \in Controls
    BY <1>1 DEF Controls
  <2> QED
    BY <1>3, <2>1, EditStep DEF CheckHeaders
<1>4. CASE CheckFixedNode
  <2>1. [controls EXCEPT !.fixed = ~@] \in Controls
    BY <1>1 DEF Controls
  <2> QED
    BY <1>4, <2>1, EditStep DEF CheckFixedNode
<1>5. CASE \E node \in ImportNodes : SelectNode(node)
  <2>1. PICK node \in ImportNodes : SelectNode(node)
    BY <1>5
  <2>2. [controls EXCEPT !.node = node] \in Controls
    BY <1>1 DEF Controls
  <2> QED
    BY <2>1, <2>2, EditStep DEF SelectNode
<1>6. ASSUME NEW c \in Columns, on_column_checked(c) PROVE ImportInv'
  <2>1. [controls EXCEPT !.use[c] = ~@] \in Controls
    BY <1>1 DEF Controls
  <2> QED
    BY <1>6, <2>1, EditStep DEF on_column_checked
<1>7. ASSUME NEW c \in Columns, NEW role \in DOMAIN Roles, SelectRole(c, role) PROVE ImportInv'
  <2>1. [controls EXCEPT !.role[c] = role] \in Controls
    BY <1>1 DEF Controls
  <2> QED
    BY <1>7, <2>1, EditStep DEF SelectRole
<1>8. CASE on_ok_clicked
  BY <1>8, LoadStep
<1>9. CASE Cancel
  <2>1. /\ phase = "preview" /\ phase' = "cancelled"
        /\ UNCHANGED <<table, controls, edits, emitted, writes>>
    BY <1>9 DEF Cancel
  <2>2. phase' \in Phases /\ phase' # "loaded" /\ phase # "loaded" /\ phase' # "preview"
    BY <2>1 DEF Phases
  <2>3. Exported'
    BY <2>2 DEF Exported
  <2> QED
    BY <1>1, <2>1, <2>2, <2>3, NotLoaded
<1>10. CASE UNCHANGED vars
  <2>1. UNCHANGED <<table, phase, controls, edits, config, emitted, writes>>
    BY <1>10 DEF vars
  <2>2. TypeOK'
    <3>1. TypeOK /\ Controls' = Controls
      BY <2>1 DEF ImportInv, Controls, Columns
    <3> QED
      BY <2>1, <3>1, Zenon DEF TypeOK
  <2>3. WritesFit'
    BY <2>1 DEF ImportInv, WritesFit
  <2>4. WritesExact'
    <3>1. phase = "loaded" =>
              FlattenSeq(Done(writes)) =
                  FlattenSeq([i \in DOMAIN ChosenRows |-> Asked(ChosenRows[i])])
      BY WritesExactIs DEF ImportInv
    <3>2. UNCHANGED <<table, controls>> /\ phase' = phase /\ writes' = writes
      BY <2>1
    <3> QED
      BY <3>1, <3>2, ExactAgain
  <2>5. Exported'
    BY <2>1 DEF ImportInv, Exported, FoundFor, InUse, Columns
  <2>6. RoundTrip'
    BY <2>1 DEF ImportInv, RoundTrip
  <2> QED
    BY <2>1, <2>2, <2>3, <2>4, <2>5, <2>6 DEF ImportInv
<1> QED
  BY <1>2, <1>3, <1>4, <1>5, <1>6, <1>7, <1>8, <1>9, <1>10 DEF Next

\* The inductive invariant of the import: what is known of the dialog, what has
\* been emitted and what has been written, at every moment.
THEOREM ImportInvariant == Spec => []ImportInv
<1>1. Init => ImportInv
  BY ImportInit
<1>2. ImportInv /\ [Next]_vars => ImportInv'
  BY ImportNext
<1> QED
  BY <1>1, <1>2, PTL DEF Spec

\* CsvImport keeps its types: what load_csv_data() emits and append_write() hands
\* over are words and bytes, whatever numbers stand in the cells.
THEOREM ImportTypes == Spec => []TypeOK
<1>1. ImportInv => TypeOK
  BY DEF ImportInv
<1> QED
  BY <1>1, ImportInvariant, PTL

\* append_write(): for a table of any length and any limits, no write is empty or
\* longer than its limit, and no two that follow each other could have been one.
THEOREM WritesAreFit == Spec => []WritesFit
<1>1. ImportInv => WritesFit
  BY DEF ImportInv
<1> QED
  BY <1>1, ImportInvariant, PTL

\* load_csv_data() and append_write(): for a table of any length and any choices of
\* the user, the requests write the rows that can be written, each once, to the
\* register and node it names, in the order of the file.
THEOREM WritesAreExact == Spec => []WritesExact
<1>1. ImportInv => WritesExact
  BY DEF ImportInv
<1> QED
  BY <1>1, ImportInvariant, PTL

\* save_register_set(), attempt_autoconfig() and load_csv_data(): the file of any
\* register window, loaded as it was understood, says what the window showed.
THEOREM ExportReadBack == Spec => []RoundTrip
<1>1. ImportInv => RoundTrip
  BY DEF ImportInv
<1> QED
  BY <1>1, ImportInvariant, PTL

=============================================================================
