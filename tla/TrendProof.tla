------------------------------ MODULE TrendProof ------------------------------
(***************************************************************************)
(* Proofs about the trend window, for any number of registers, any         *)
(* histories, limits and lines the user may choose, and any polls that     *)
(* fail: its types, that a round of polling adds one column at most, how   *)
(* old the readings of a column may be, that the axis covers them, and     *)
(* that the ring buffers implement the plain lists of TrendHistory.tla.    *)
(***************************************************************************)
EXTENDS Trend, FiniteSetTheorems, SequenceTheorems, TLAPS

USE TrendAssumption, ByteAssumption

-----------------------------------------------------------------------------
(* Lines.                                                                  *)

LEMMA SizesArePositive == Sizes \subseteq Nat \ {0} /\ InitialPoints \in Sizes
BY DEF Sizes

\* The index of a ring goes round.
LEMMA Turns ==
    ASSUME NEW n \in Nat \ {0}, NEW a \in 0..(n - 1)
    PROVE  (a + 1) % n = IF a + 1 = n THEN 0 ELSE a + 1
OBVIOUS

LEMMA AtReadings ==
    ASSUME NEW n \in Nat \ {0}, NEW line \in RingLines(n), NEW i \in 0..(n - 1)
    PROVE  At(line, i) \in Readings
<1>1. /\ line.next_index \in 0..(n - 1) /\ line.num_points = n
      /\ line.history \in [0..(n - 1) -> Readings]
  BY DEF RingLines
<1> DEFINE array_index == line.next_index + i
           place == IF array_index >= n THEN array_index - n ELSE array_index
<1>2. place \in 0..(n - 1)
  BY <1>1
<1> HIDE DEF place
<1>3. line.history[place] \in Readings
  BY <1>1, <1>2
<1> QED
  BY <1>1, <1>3 DEF At, place

\* A new line has no value and nothing on display.
LEMMA NewLine ==
    ASSUME NEW n \in Nat \ {0}
    PROVE  /\ TrendLine(n) \in RingLines(n) /\ ~HasValue(TrendLine(n))
           /\ \A i \in 0..(n - 1) : At(TrendLine(n), i) = NoValue
<1>1. NoValue \in Readings /\ NoValue.round = 0
  BY DEF NoValue, Readings
<1>2. [i \in 0..(n - 1) |-> NoValue] \in [0..(n - 1) -> Readings]
  BY <1>1
<1>3. TrendLine(n) \in RingLines(n) /\ ~HasValue(TrendLine(n))
  BY <1>1, <1>2 DEF TrendLine, RingLines, HasValue
<1>4. ASSUME NEW i \in 0..(n - 1) PROVE At(TrendLine(n), i) = NoValue
  BY DEF At, TrendLine
<1> QED
  BY <1>3, <1>4

LEMMA ConfigureLineKeeps ==
    ASSUME NEW n \in Nat \ {0}, NEW line \in RingLines(n),
           NEW mult \in Int, NEW offset \in Int, NEW signed \in BOOLEAN
    PROVE  /\ configure(line, mult, offset, signed) \in RingLines(n)
           /\ configure(line, mult, offset, signed).last_value = line.last_value
           /\ \A i : At(configure(line, mult, offset, signed), i) = At(line, i)
           /\ /\ configure(line, mult, offset, signed).mult = mult
              /\ configure(line, mult, offset, signed).offset = offset
              /\ configure(line, mult, offset, signed).signed = signed
BY DEF configure, RingLines, HasValue, At

LEMMA SetDataKeeps ==
    ASSUME NEW n \in Nat \ {0}, NEW line \in RingLines(n), NEW value \in Int, NEW r \in Nat \ {0}
    PROVE  /\ set_data(line, value, r) \in RingLines(n)
           /\ HasValue(set_data(line, value, r))
           /\ set_data(line, value, r).last_value.round = r
           /\ \A i : At(set_data(line, value, r), i) = At(line, i)
<1> DEFINE v == IF line.signed THEN Signed(value, Word) ELSE value
<1>1. v \in Int
  BY DEF Signed, Word
<1> HIDE DEF v
<1>2. [round |-> r, v |-> v] \in Readings /\ [round |-> r, v |-> v] # NoValue
  BY <1>1 DEF Readings, NoValue
<1>3. set_data(line, value, r) = [line EXCEPT !.last_value = [round |-> r, v |-> v]]
  BY DEF set_data, v
<1> DEFINE new == [round |-> r, v |-> v]
<1>4. new \in Readings /\ new # NoValue /\ new.round = r
  BY <1>2
<1> HIDE DEF new
<1>5. line \in [num_points : {n}, signed : BOOLEAN, mult : Int, offset : Int,
                history : [0..(n - 1) -> Readings], last_value : Readings,
                next_index : 0..(n - 1)]
  BY DEF RingLines
<1>6. /\ set_data(line, value, r).last_value = new
      /\ set_data(line, value, r) \in
            [num_points : {n}, signed : BOOLEAN, mult : Int, offset : Int,
             history : [0..(n - 1) -> Readings], last_value : Readings, next_index : 0..(n - 1)]
      /\ \A i : At(set_data(line, value, r), i) = At(line, i)
  BY <1>3, <1>4, <1>5 DEF At, new
<1> QED
  BY <1>4, <1>6 DEF RingLines, HasValue

\* What is on display moves on by one column.
LEMMA UpdateTurns ==
    ASSUME NEW n \in Nat \ {0}, NEW line \in RingLines(n)
    PROVE  /\ update(line) \in RingLines(n) /\ ~HasValue(update(line))
           /\ Scaled(line) \in Int
           /\ \A i \in 0..(n - 2) : At(update(line), i) = At(line, i + 1)
           /\ At(update(line), n - 1) = [round |-> line.last_value.round, v |-> Scaled(line)]
<1> DEFINE next == line.next_index
           cell == [round |-> line.last_value.round, v |-> Scaled(line)]
<1>1. /\ line.num_points = n /\ line.history \in [0..(n - 1) -> Readings]
      /\ next \in 0..(n - 1) /\ line.last_value \in Readings
      /\ line.mult \in Int /\ line.offset \in Int
      /\ line \in [num_points : {n}, signed : BOOLEAN, mult : Int, offset : Int,
                   history : [0..(n - 1) -> Readings], last_value : Readings,
                   next_index : 0..(n - 1)]
  BY DEF RingLines
<1>2. Scaled(line) \in Int
  BY <1>1 DEF Scaled, Readings
<1>3. cell \in Readings /\ cell = [line.last_value EXCEPT !.v = Scaled(line)]
  BY <1>1, <1>2 DEF Readings
<1>4. /\ (next + 1) % n = IF next + 1 = n THEN 0 ELSE next + 1
      /\ (next + 1) % n \in 0..(n - 1)
  BY <1>1, Turns
<1> HIDE DEF cell
<1> DEFINE turned == [line.history EXCEPT ![next] = cell]
<1>5. turned \in [0..(n - 1) -> Readings] /\ turned[next] = cell
      /\ \A i \in 0..(n - 1) : i # next => turned[i] = line.history[i]
  BY <1>1, <1>3
<1> HIDE DEF turned
<1>6. update(line) = [line EXCEPT !.history = turned, !.next_index = (next + 1) % n,
                                  !.last_value = NoValue]
  BY <1>1, <1>3 DEF update, turned
<1>7. NoValue \in Readings /\ NoValue.round = 0
  BY DEF NoValue, Readings
<1>8. /\ update(line).num_points = n /\ update(line).history = turned
      /\ update(line).next_index = (IF next + 1 = n THEN 0 ELSE next + 1)
      /\ update(line).last_value = NoValue
      /\ update(line) \in [num_points : {n}, signed : BOOLEAN, mult : Int, offset : Int,
                           history : [0..(n - 1) -> Readings], last_value : Readings,
                           next_index : 0..(n - 1)]
  BY <1>1, <1>4, <1>5, <1>6, <1>7
<1>9. update(line) \in RingLines(n) /\ ~HasValue(update(line))
  BY <1>7, <1>8 DEF RingLines, HasValue
<1>10. ASSUME NEW i \in 0..(n - 2) PROVE At(update(line), i) = At(line, i + 1)
  <2> DEFINE place == IF next + i + 1 >= n THEN next + i + 1 - n ELSE next + i + 1
  <2>1. place \in 0..(n - 1) /\ place # next
    BY <1>1, SMTT(30)
  <2>2. At(line, i + 1) = line.history[place]
    BY <1>1, SMTT(30) DEF At
  <2>3. At(update(line), i) = turned[place]
    BY <1>1, <1>8, SMTT(30) DEF At
  <2> QED
    BY <1>5, <2>1, <2>2, <2>3
<1>11. At(update(line), n - 1) = cell
  BY <1>1, <1>5, <1>8, SMTT(30) DEF At
<1> QED
  BY <1>2, <1>9, <1>10, <1>11 DEF cell

\* What is on display is forgotten.
LEMMA ResizeClears ==
    ASSUME NEW n \in Nat \ {0}, NEW line \in RingLines(n), NEW m \in Nat \ {0}
    PROVE  /\ resize(line, m) \in RingLines(m)
           /\ resize(line, m).last_value = line.last_value
           /\ \A i \in 0..(m - 1) : At(resize(line, m), i).round = 0
<1>1. /\ line.offset \in Int
      /\ line \in [num_points : {n}, signed : BOOLEAN, mult : Int, offset : Int,
                   history : [0..(n - 1) -> Readings], last_value : Readings,
                   next_index : 0..(n - 1)]
  BY DEF RingLines
<1> DEFINE empty == [i \in 0..(m - 1) |-> [round |-> 0, v |-> line.offset]]
<1>2. empty \in [0..(m - 1) -> Readings]
  BY <1>1 DEF Readings
<1>3. /\ resize(line, m) = [line EXCEPT !.next_index = 0, !.num_points = m, !.history = empty]
      /\ \A i \in 0..(m - 1) : empty[i].round = 0
  BY DEF resize
<1> HIDE DEF empty
<1>4. resize(line, m) \in RingLines(m) /\ resize(line, m).last_value = line.last_value
  <2>1. 0 \in 0..(m - 1) /\ line.last_value \in Readings
    BY <1>1
  <2>2. /\ resize(line, m) \in
              [num_points : {m}, signed : BOOLEAN, mult : Int, offset : Int,
               history : [0..(m - 1) -> Readings], last_value : Readings,
               next_index : 0..(m - 1)]
        /\ resize(line, m).last_value = line.last_value
    BY <1>1, <1>2, <1>3, <2>1
  <2> QED
    BY <2>2 DEF RingLines, HasValue
<1>5. ASSUME NEW i \in 0..(m - 1) PROVE At(resize(line, m), i) = empty[i]
  BY <1>1, <1>3 DEF At
<1> QED
  BY <1>3, <1>4, <1>5

-----------------------------------------------------------------------------
(* Times.                                                                  *)

\* A function on an initial segment of the naturals is a sequence.
LEMMA FunctionIsSeq ==
    ASSUME NEW S, NEW n \in Nat, NEW f \in [1..n -> S]
    PROVE  f \in Seq(S)
BY SeqDef

LEMMA NewTimes ==
    ASSUME NEW n \in Nat \ {0}
    PROVE  /\ NewTimestamps(n) \in Seq(Int) /\ Len(NewTimestamps(n)) = n
           /\ \A i \in 1..n : NewTimestamps(n)[i] = i - 1 - n
<1>1. NewTimestamps(n) \in [1..n -> Int]
  BY DEF NewTimestamps
<1>2. NewTimestamps(n) \in Seq(Int)
  BY <1>1, SeqDef
<1>3. DOMAIN NewTimestamps(n) = 1..n
  BY DEF NewTimestamps
<1>4. Len(NewTimestamps(n)) = n
  BY <1>2, <1>3, LenProperties
<1> QED
  BY <1>2, <1>4 DEF NewTimestamps

\* A new column at the end, the oldest one dropped.
LEMMA NextTimes ==
    ASSUME NEW times \in Seq(Int), times # <<>>, NEW t \in Int
    PROVE  LET n == Len(times)
               moved == Append(Tail(times), t)
           IN  /\ moved \in Seq(Int) /\ Len(moved) = n
               /\ n \in Nat \ {0}
               /\ \A i \in 1..(n - 1) : moved[i] = times[i + 1]
               /\ moved[n] = t
<1>1. Len(times) \in Nat \ {0}
  BY EmptySeq, LenProperties
<1>2. /\ Tail(times) \in Seq(Int) /\ Len(Tail(times)) = Len(times) - 1
      /\ \A i \in 1..(Len(times) - 1) : Tail(times)[i] = times[i + 1]
  BY HeadTailProperties
<1> QED
  BY <1>1, <1>2, AppendProperties

\* The newest times stay; before them come earlier and earlier ones.
LEMMA ResizedTimesShape ==
    ASSUME NEW times \in Seq(Int), times # <<>>, NEW points \in Nat \ {0}
    PROVE  LET n == Len(times)
               resized == ResizedTimes(times, points)
           IN  /\ resized \in Seq(Int) /\ Len(resized) = points
               /\ n \in Nat \ {0}
               /\ \A i \in 1..points :
                     resized[i] = IF n - points + i >= 1 THEN times[n - points + i]
                                  ELSE times[1] - (points - n + 1 - i)
<1> DEFINE n == Len(times)
           first == Greatest(n - points, 0) + 1
           kept == SubSeq(times, first, n)
           missing == points - Len(kept)
           before == [i \in 1..missing |-> kept[1] - (missing + 1 - i)]
<1>1. n \in Nat \ {0} /\ \A i \in 1..n : times[i] \in Int
  BY EmptySeq, ElementOfSeq
<1>2. ResizedTimes(times, points) = before \o kept
  BY DEF ResizedTimes
<1> HIDE DEF n
<1>3. first \in 1..n /\ first = (IF n > points THEN n - points + 1 ELSE 1)
  BY <1>1 DEF Greatest
<1> HIDE DEF first
<1>4. /\ kept \in Seq(Int) /\ Len(kept) = n - first + 1
      /\ \A i \in 1..(n - first + 1) : kept[i] = times[first + i - 1]
  <2>1. first \in Int /\ n \in Int /\ first <= n /\ \A i \in first..n : times[i] \in Int
    BY <1>1, <1>3
  <2> QED
    BY <2>1, SubSeqProperties
<1> HIDE DEF kept
<1>5. kept[1] = times[first] /\ kept[1] \in Int
  BY <1>1, <1>3, <1>4
<1>6. missing = (IF n > points THEN 0 ELSE points - n) /\ missing \in Nat
  BY <1>1, <1>3, <1>4
<1> HIDE DEF missing
<1>7. before \in Seq(Int) /\ Len(before) = missing
  <2>1. before \in [1..missing -> Int]
    BY <1>5, <1>6, SMTT(30)
  <2>2. before \in Seq(Int) /\ DOMAIN before = 1..missing
    BY <1>6, <2>1, FunctionIsSeq
  <2> QED
    BY <1>6, <2>2, LenProperties
<1>8. \A i \in 1..missing : before[i] = kept[1] - (missing + 1 - i)
  OBVIOUS
<1> HIDE DEF before
<1>9. /\ before \o kept \in Seq(Int) /\ Len(before \o kept) = missing + Len(kept)
      /\ \A i \in 1..(missing + Len(kept)) : (before \o kept)[i] =
            IF i <= missing THEN before[i] ELSE kept[i - missing]
  BY <1>4, <1>7, ConcatProperties
<1>10. missing + Len(kept) = points
  BY <1>1, <1>3, <1>4, <1>6
<1>11. ASSUME NEW i \in 1..points
       PROVE  (before \o kept)[i] = IF n - points + i >= 1 THEN times[n - points + i]
                                    ELSE times[1] - (points - n + 1 - i)
  <2>1. CASE i <= missing
    <3>1. (before \o kept)[i] = kept[1] - (missing + 1 - i)
      <4>1. i \in 1..missing /\ i \in 1..(missing + Len(kept))
        BY <1>6, <1>10, <2>1
      <4> QED
        BY <1>8, <1>9, <2>1, <4>1
    <3> QED
      BY <1>1, <1>3, <1>5, <1>6, <2>1, <3>1
  <2>2. CASE i > missing
    <3>1. i - missing \in 1..(n - first + 1)
      BY <1>1, <1>4, <1>6, <1>10, <2>2
    <3>2. (before \o kept)[i] = times[first + (i - missing) - 1]
      <4>1. i \in 1..(missing + Len(kept)) /\ ~(i <= missing)
        BY <1>6, <1>10, <2>2
      <4> QED
        BY <1>4, <1>9, <3>1, <4>1
    <3>3. first + (i - missing) - 1 = n - points + i /\ n - points + i >= 1
      BY <1>1, <1>3, <1>6, <2>2
    <3> QED
      BY <3>2, <3>3
  <2>3. i <= missing \/ i > missing
    BY <1>6
  <2> QED
    BY <2>1, <2>2, <2>3
<1> QED
  BY <1>1, <1>2, <1>9, <1>10, <1>11 DEF n

-----------------------------------------------------------------------------
(* The state, as the proofs use it.                                        *)

LEMMA KeysAreFinite ==
    \A lines \in SUBSET Keys : IsFiniteSet(lines) /\ Cardinality(lines) \in Nat
<1>1. IsFiniteSet(Keys)
  BY FS_Interval DEF Keys
<1> QED
  BY <1>1, FS_Subset, FS_CardinalityType

LEMMA Contents ==
    ASSUME ContentsInv
    PROVE  /\ timestamps \in Seq(Int) /\ timestamps # <<>> /\ Len(timestamps) \in Nat \ {0}
           /\ Columns = 1..Len(timestamps) /\ \A i \in Columns : timestamps[i] \in Int
           /\ Lines \subseteq Keys /\ Keys \subseteq Nat \ {0}
           /\ \A k \in Lines : /\ data[k] \in RingLines(Len(timestamps))
                               /\ data[k].last_value.round \in Nat
                               /\ HasValue(data[k]) <=> data[k].last_value.round # 0
           /\ \A k \in Lines, i \in Columns : Cell(k, i) \in Readings
           /\ round \in Nat \ {0} /\ position \in Keys /\ lag \in Nat /\ since \in 0..round
           /\ {miny, maxy} \subseteq Int /\ miny < maxy
<1>1. timestamps \in Seq(Int) /\ Len(timestamps) \in Nat \ {0}
  BY SizesArePositive DEF ContentsInv
<1>2. DOMAIN timestamps = 1..Len(timestamps) /\ timestamps # <<>>
  BY <1>1, LenProperties, EmptySeq
<1>3. \A i \in 1..Len(timestamps) : timestamps[i] \in Int
  BY <1>1, ElementOfSeq
<1>4. \A k \in Lines : data[k] \in RingLines(Len(timestamps))
  BY DEF ContentsInv
<1>5. ASSUME NEW k \in Lines
      PROVE  /\ data[k].last_value.round \in Nat
             /\ HasValue(data[k]) <=> data[k].last_value.round # 0
  BY <1>4 DEF RingLines, Readings
<1>6. ASSUME NEW k \in Lines, NEW i \in Columns PROVE Cell(k, i) \in Readings
  <2>1. i - 1 \in 0..(Len(timestamps) - 1)
    BY <1>1, <1>2 DEF Columns
  <2> QED
    BY <1>1, <1>4, <2>1, AtReadings DEF Cell
<1>7. Lines \subseteq Keys /\ Keys \subseteq Nat \ {0} /\ MaxRounds \in Nat
  BY DEF ContentsInv, TypeOK, Keys
<1>8. /\ round \in Nat \ {0} /\ position \in Keys /\ lag \in Nat /\ since \in 0..round
      /\ {miny, maxy} \subseteq Int /\ miny < maxy
  BY <1>7 DEF ContentsInv, TypeOK
<1> QED
  BY <1>1, <1>2, <1>3, <1>4, <1>5, <1>6, <1>7, <1>8 DEF Columns

\* The types of the next state, from the types of what it is made of.
LEMMA ContentsFrom ==
    ASSUME timestamps' \in Seq(Int), Len(timestamps') \in Sizes,
           Lines' \subseteq Keys, data' \in [Lines' -> RingLines(Len(timestamps'))],
           graphs' = Greatest(1, Cardinality(Lines')),
           dialog' = NoDialog \/ dialog' \in Int \X Int,
           file' = NoFile \/ SavedTrend(file'),
           fixed_limits' \in BOOLEAN, {miny', maxy'} \subseteq Int, miny' < maxy',
           round' \in 1..(MaxRounds + 1), position' \in Keys, lag' \in Nat,
           since' \in 0..round'
    PROVE  ContentsInv'
<1>1. Len(timestamps') \in Nat \ {0} /\ DOMAIN timestamps' = 1..Len(timestamps')
  BY SizesArePositive, LenProperties
<1>2. \A i \in Columns' : timestamps'[i] \in Int
  BY <1>1, ElementOfSeq DEF Columns
<1>3. \A k \in Lines' : data'[k].next_index \in 0..(data'[k].num_points - 1)
  BY <1>1 DEF RingLines
<1>4. graphs' \in Nat
  BY KeysAreFinite DEF Greatest
<1> QED
  BY <1>2, <1>3, <1>4 DEF ContentsInv, TypeOK

-----------------------------------------------------------------------------
(* Steps that move neither the polls nor the times.                        *)

LEMMA LagGrows ==
    ASSUME NEW a \in Nat, NEW b \in Nat, a <= b
    PROVE  /\ Greatest(a - 1, 0) \in Nat /\ Greatest(b - 1, 0) \in Nat
           /\ Greatest(a - 1, 0) <= Greatest(b - 1, 0) /\ Greatest(b - 1, 0) <= b
BY DEF Greatest

SameLine(k) ==
    /\ k \in Lines
    /\ data'[k].last_value = data[k].last_value
    /\ \A i : At(data'[k], i) = At(data[k], i)

FreshLine(k) ==
    /\ ~HasValue(data'[k])
    /\ \A i \in Columns : At(data'[k], i - 1).round = 0

LinesKept ==
    \/ /\ Lines' = Lines /\ \A k \in Lines : SameLine(k)
       /\ UNCHANGED <<lag, edited>>
    \/ /\ \A k \in Lines' : SameLine(k) \/ FreshLine(k)
       /\ Disturb

LEMMA LinesKeptKeeps ==
    ASSUME TrendInv, LinesKept, UNCHANGED <<timestamps, axes, round, position, since>>,
           Lines' \subseteq Keys
    PROVE  WaitingInv' /\ ColumnsInv' /\ Aged' /\ OncePerRound' /\ LimitsCover'
<1> USE DEF TrendInv
<1>1. \A k \in Lines' : SameLine(k) \/ FreshLine(k)
  BY DEF LinesKept
<1>2. lag' \in Nat /\ lag <= lag' /\ lag \in Nat /\ edited \subseteq edited'
  BY Contents DEF LinesKept, Disturb, Greatest
<1>3. Columns' = Columns /\ \A i \in Columns : timestamps'[i] = timestamps[i]
  BY DEF Columns
<1>4. \A k \in Lines', i \in Columns :
        \/ Cell(k, i)'.round = 0
        \/ k \in Lines /\ Cell(k, i)' = Cell(k, i)
  BY <1>1, <1>3 DEF Cell, SameLine, FreshLine
<1>5. ASSUME NEW k \in Lines', k \in Lines, SameLine(k)
      PROVE  HasValue(data'[k]) <=> HasValue(data[k])
  BY <1>5 DEF SameLine, HasValue
<1>6. WaitingInv'
  <2>1. CASE Lines' = Lines /\ (\A k \in Lines : SameLine(k)) /\ UNCHANGED <<lag, edited>>
    BY <1>5, <2>1 DEF WaitingInv, SameLine
  <2>2. CASE Disturb
    <3> SUFFICES ASSUME NEW k \in Lines'
                 PROVE  /\ HasValue(data'[k]) =>
                             /\ data'[k].last_value.round \in (round - lag')..round
                             /\ k < position =>
                                   data'[k].last_value.round >= round - Greatest(lag' - 1, 0)
                        /\ lag' = 0 => (HasValue(data'[k]) <=>
                                           k < position /\ \E other \in Lines' : position <= other)
      BY DEF WaitingInv
    <3>1. lag' = 0 => position = 1 /\ lag = 0
      BY <1>2, <2>2 DEF Disturb, Greatest
    <3>2. k \in Nat \ {0}
      BY Contents
    <3>3. CASE FreshLine(k)
      BY <3>1, <3>2, <3>3 DEF FreshLine
    <3>4. CASE SameLine(k)
      <4>1. /\ k \in Lines /\ data'[k].last_value = data[k].last_value
            /\ HasValue(data'[k]) <=> HasValue(data[k])
        BY <1>5, <3>4 DEF SameLine
      <4>2. /\ HasValue(data[k]) =>
                 /\ data[k].last_value.round \in (round - lag)..round
                 /\ k < position => data[k].last_value.round >= round - Greatest(lag - 1, 0)
            /\ lag = 0 /\ position = 1 => ~HasValue(data[k])
        BY <3>2, <4>1 DEF WaitingInv
      <4>3. data[k].last_value.round \in Nat /\ round \in Nat
        BY <4>1, Contents
      <4>4. data[k].last_value.round >= round - Greatest(lag - 1, 0) =>
              data[k].last_value.round >= round - Greatest(lag' - 1, 0)
        BY <1>2, <4>3, LagGrows
      <4>5. data[k].last_value.round \in (round - lag)..round =>
              data[k].last_value.round \in (round - lag')..round
        BY <1>2, <4>3
      <4>6. lag' = 0 => ~HasValue(data'[k]) /\ ~(k < position)
        BY <3>1, <3>2, <4>1, <4>2
      <4>7. HasValue(data'[k]) =>
              /\ data'[k].last_value.round \in (round - lag')..round
              /\ k < position => data'[k].last_value.round >= round - Greatest(lag' - 1, 0)
        BY <4>1, <4>2, <4>4, <4>5
      <4> QED
        BY <4>6, <4>7
    <3> QED
      BY <1>1, <3>3, <3>4
  <2> QED
    BY <2>1, <2>2 DEF LinesKept
<1>7. ColumnsInv'
  <2>1. CASE Lines' = Lines /\ (\A k \in Lines : SameLine(k)) /\ UNCHANGED <<lag, edited>>
    BY <1>3, <1>5, <2>1 DEF ColumnsInv
  <2>2. CASE Disturb
    BY <1>3, <2>2 DEF ColumnsInv, Disturb
  <2> QED
    BY <2>1, <2>2 DEF LinesKept
<1>8. Aged'
  <2> SUFFICES ASSUME NEW k \in Lines', NEW i \in Columns', Cell(k, i)'.round # 0
               PROVE  Cell(k, i)'.round \in (timestamps[i] - lag')..timestamps[i]
    BY DEF Aged
  <2>1. k \in Lines /\ i \in Columns /\ Cell(k, i)' = Cell(k, i)
    BY <1>3, <1>4
  <2>2. /\ Cell(k, i).round \in (timestamps[i] - lag)..timestamps[i]
        /\ Cell(k, i).round \in Nat /\ timestamps[i] \in Int
    BY <2>1, Contents DEF Aged, Readings
  <2> QED
    BY <1>2, <2>1, <2>2
<1>9. OncePerRound'
  BY <1>2, <1>3 DEF OncePerRound
<1>10. LimitsCover'
  BY <1>3, <1>4 DEF LimitsCover, axes
<1> QED
  BY <1>6, <1>7, <1>8, <1>9, <1>10


-----------------------------------------------------------------------------
(* The user's steps.                                                       *)

\* What stays of the types when only the lines and their graphs change.
LEMMA LinesTyped ==
    ASSUME ContentsInv, UNCHANGED <<timestamps, axes, dialog, round, position, since>>,
           lag' \in {lag, Greatest(lag, 1)}, file' = file,
           Lines' \subseteq Keys, data' \in [Lines' -> RingLines(Len(timestamps))],
           graphs' = Greatest(1, Cardinality(Lines'))
    PROVE  ContentsInv'
<1>1. lag' \in Nat
  BY Contents DEF Greatest
<1>2. Len(timestamps') = Len(timestamps)
  OBVIOUS
<1>3. /\ timestamps \in Seq(Int) /\ Len(timestamps) \in Sizes /\ fixed_limits \in BOOLEAN
      /\ {miny, maxy} \subseteq Int /\ miny < maxy
      /\ dialog = NoDialog \/ dialog \in Int \X Int
      /\ file = NoFile \/ SavedTrend(file)
      /\ round \in 1..(MaxRounds + 1) /\ position \in Keys /\ since \in 0..round
  BY DEF ContentsInv, TypeOK
<1> QED
  BY <1>1, <1>2, <1>3, ContentsFrom DEF axes

\* More lines have as many graphs.
LEMMA AddedGraphs ==
    ASSUME ContentsInv, Lines \subseteq Lines', Lines' \subseteq Keys,
           graphs' = Greatest(graphs, Cardinality(Lines'))
    PROVE  graphs' = Greatest(1, Cardinality(Lines'))
<1>1. Cardinality(Lines) <= Cardinality(Lines')
  BY KeysAreFinite, FS_Subset
<1>2. Cardinality(Lines) \in Nat /\ Cardinality(Lines') \in Nat
  BY KeysAreFinite
<1>3. graphs = Greatest(1, Cardinality(Lines))
  BY DEF ContentsInv
<1> QED
  BY <1>1, <1>2, <1>3 DEF Greatest

LEMMA AddLineKeeps ==
    ASSUME TrendInv, NEW key \in Keys, NEW choice \in LineChoices, AddLine(key, choice)
    PROVE  TrendInv'
<1> DEFINE n == Len(timestamps)
           line == configure(TrendLine(n), choice.mult, choice.offset, choice.signed)
<1>1. n \in Nat \ {0} /\ Lines \subseteq Keys /\ \A k \in Lines : data[k] \in RingLines(n)
  BY Contents DEF TrendInv
<1>2. choice.mult \in Int /\ choice.offset \in Int /\ choice.signed \in BOOLEAN
  OBVIOUS
<1>3. /\ line \in RingLines(n) /\ ~HasValue(line)
      /\ \A i \in 0..(n - 1) : At(line, i).round = 0
  BY <1>1, <1>2, NewLine, ConfigureLineKeeps DEF HasValue, NoValue
<1>4. data' = [k \in {key} \cup Lines |-> IF k \in {key} THEN line ELSE data[k]]
  BY DEF AddLine, add_trend, Lines
<1>5. /\ key \notin Lines /\ Disturb
      /\ graphs' = Greatest(graphs, Cardinality(Lines'))
      /\ UNCHANGED <<timestamps, axes, dialog, pending, file, polling, since>>
      /\ pending = Nothing
  BY DEF AddLine, add_trend, Lines, Click
<1> HIDE DEF n, line
<1>6. /\ Lines' = {key} \cup Lines /\ data'[key] = line
      /\ \A k \in Lines : data'[k] = data[k]
  BY <1>4, <1>5 DEF Lines
<1>7. ContentsInv'
  <2>1. data' \in [Lines' -> RingLines(n)] /\ Lines' \subseteq Keys
    BY <1>1, <1>3, <1>4, <1>6
  <2>2. graphs' = Greatest(1, Cardinality(Lines'))
    BY <1>5, <1>6, <2>1, AddedGraphs DEF TrendInv
  <2> QED
    BY <1>5, <2>1, <2>2, LinesTyped DEF TrendInv, Disturb, polling, n
<1>8. LinesKept
  <2>1. FreshLine(key)
    <3>1. \A i \in Columns : i - 1 \in 0..(n - 1)
      BY <1>1, Contents, SMTT(30) DEF TrendInv, n
    <3> QED
      BY <1>3, <1>6, <3>1 DEF FreshLine
  <2>2. \A k \in Lines : SameLine(k)
    BY <1>6 DEF SameLine
  <2> QED
    BY <1>5, <1>6, <2>1, <2>2 DEF LinesKept
<1>9. PendingInv'
  BY <1>5 DEF PendingInv
<1>10. UNCHANGED <<timestamps, axes, round, position, since>> /\ Lines' \subseteq Keys
  BY <1>1, <1>5, <1>6 DEF polling
<1> QED
  BY <1>7, <1>8, <1>9, <1>10, LinesKeptKeeps DEF TrendInv

LEMMA ConfigureLineKeepsInv ==
    ASSUME TrendInv, NEW key \in Keys, NEW choice \in LineChoices, ConfigureLine(key, choice)
    PROVE  TrendInv'
<1> DEFINE n == Len(timestamps)
           line == configure(data[key], choice.mult, choice.offset, choice.signed)
<1>1. /\ n \in Nat \ {0} /\ Lines \subseteq Keys /\ \A k \in Lines : data[k] \in RingLines(n)
      /\ data \in [Lines -> RingLines(n)]
  BY Contents DEF TrendInv, ContentsInv
<1>2. choice.mult \in Int /\ choice.offset \in Int /\ choice.signed \in BOOLEAN
  OBVIOUS
<1>3. /\ key \in Lines /\ pending = Nothing /\ data' = [data EXCEPT ![key] = line]
      /\ UNCHANGED <<timestamps, graphs, axes, dialog, pending, file, polling, lag, edited, since>>
  BY DEF ConfigureLine, Lines, Click
<1>4. /\ line \in RingLines(n) /\ line.last_value = data[key].last_value
      /\ \A i : At(line, i) = At(data[key], i)
  BY <1>1, <1>2, <1>3, ConfigureLineKeeps
<1> HIDE DEF n, line
<1>5. /\ Lines' = Lines /\ data' \in [Lines -> RingLines(n)]
      /\ \A k \in Lines : data'[k] = IF k = key THEN line ELSE data[k]
  BY <1>1, <1>3, <1>4 DEF Lines
<1>6. ContentsInv'
  BY <1>1, <1>3, <1>5, LinesTyped DEF TrendInv, ContentsInv, polling, n
<1>7. LinesKept
  BY <1>3, <1>4, <1>5 DEF LinesKept, SameLine
<1>8. PendingInv'
  BY <1>3 DEF PendingInv
<1> QED
  BY <1>1, <1>3, <1>5, <1>6, <1>7, <1>8, LinesKeptKeeps DEF TrendInv, polling

LEMMA DeleteLineKeeps ==
    ASSUME TrendInv, NEW key \in Keys, DeleteLine(key)
    PROVE  TrendInv'
<1> DEFINE n == Len(timestamps)
<1>1. n \in Nat \ {0} /\ Lines \subseteq Keys /\ data \in [Lines -> RingLines(n)]
  BY Contents DEF TrendInv, ContentsInv
<1>2. /\ key \in Lines /\ pending = Nothing /\ Disturb
      /\ data' = [k \in Lines \ {key} |-> data[k]]
      /\ graphs' = IF graphs > 1 THEN graphs - 1 ELSE graphs
      /\ UNCHANGED <<timestamps, axes, dialog, pending, file, polling, since>>
  BY DEF DeleteLine, remove_trend, Restrict, Lines, Click
<1> HIDE DEF n
<1>3. /\ Lines' = Lines \ {key} /\ data' \in [Lines' -> RingLines(n)]
      /\ \A k \in Lines' : data'[k] = data[k]
  BY <1>1, <1>2 DEF Lines
<1>4. graphs' = Greatest(1, Cardinality(Lines'))
  <2>1. /\ IsFiniteSet(Lines) /\ Cardinality(Lines) \in Nat
        /\ Cardinality(Lines') \in Nat
    BY <1>1, <1>3, KeysAreFinite
  <2>2. Cardinality(Lines') = Cardinality(Lines) - 1
    BY <1>2, <1>3, <2>1, FS_RemoveElement
  <2>3. graphs = Greatest(1, Cardinality(Lines))
    BY DEF TrendInv, ContentsInv
  <2> QED
    BY <1>2, <2>1, <2>2, <2>3 DEF Greatest
<1>5. ContentsInv'
  BY <1>1, <1>2, <1>3, <1>4, LinesTyped DEF TrendInv, Disturb, polling, n
<1>6. LinesKept
  BY <1>2, <1>3 DEF LinesKept, SameLine
<1>7. PendingInv'
  BY <1>2 DEF PendingInv
<1> QED
  BY <1>1, <1>2, <1>3, <1>5, <1>6, <1>7, LinesKeptKeeps DEF TrendInv, polling


\* The lines that wait for the timer.
LEMMA WaitingLines ==
    ASSUME TrendInv, pending # Nothing, NEW k \in DOMAIN file.lines
    PROVE  LET line == configure(TrendLine(file.points), file.lines[k].mult,
                                 file.lines[k].offset, file.lines[k].signed)
           IN  /\ line \in RingLines(Len(timestamps)) /\ ~HasValue(line)
               /\ \A i \in Columns : At(line, i - 1).round = 0
               /\ line.mult = file.lines[k].mult /\ line.offset = file.lines[k].offset
               /\ line.signed = file.lines[k].signed
<1> DEFINE n == Len(timestamps)
           new == TrendLine(n)
<1>1. file.points = n /\ SavedTrend(file)
  BY DEF TrendInv, PendingInv, ContentsInv
<1>2. n \in Nat \ {0} /\ \A i \in Columns : i - 1 \in 0..(n - 1)
  BY Contents DEF TrendInv
<1>3. /\ file.lines[k].mult \in Int /\ file.lines[k].offset \in Int
      /\ file.lines[k].signed \in BOOLEAN
  BY <1>1 DEF SavedTrend, SavedLines
<1> HIDE DEF n
<1>4. /\ new \in RingLines(n) /\ ~HasValue(new)
      /\ \A i \in 0..(n - 1) : At(new, i).round = 0
  BY <1>2, NewLine DEF NoValue
<1> HIDE DEF new
<1> QED
  BY <1>1, <1>2, <1>3, <1>4, ConfigureLineKeeps DEF HasValue, n, new

LEMMA LoadTimerKeeps ==
    ASSUME TrendInv, LoadTimer
    PROVE  TrendInv'
<1> DEFINE lines == pending[1]
<1>1. /\ pending # Nothing /\ pending' = Nothing /\ Disturb
      /\ data' = [k \in DOMAIN lines \cup Lines |->
                    IF k \in DOMAIN lines THEN lines[k] ELSE data[k]]
      /\ graphs' = Greatest(graphs, Cardinality(Lines'))
      /\ UNCHANGED <<timestamps, axes, dialog, file, polling, since, clicks>>
  BY DEF LoadTimer, add_trend, Lines
<1>2. /\ Lines = {} /\ SavedTrend(file)
      /\ lines = [k \in DOMAIN file.lines |->
                    configure(TrendLine(file.points), file.lines[k].mult,
                              file.lines[k].offset, file.lines[k].signed)]
  BY <1>1 DEF TrendInv, PendingInv, ContentsInv
<1> HIDE DEF lines
<1>3. DOMAIN lines = DOMAIN file.lines /\ DOMAIN lines \subseteq Keys
  BY <1>2 DEF SavedTrend
<1>4. ASSUME NEW k \in DOMAIN lines
      PROVE  /\ lines[k] \in RingLines(Len(timestamps)) /\ ~HasValue(lines[k])
             /\ \A i \in Columns : At(lines[k], i - 1).round = 0
  BY <1>1, <1>2, <1>3, WaitingLines
<1>5. /\ Lines' = DOMAIN lines /\ \A k \in Lines' : data'[k] = lines[k]
      /\ data' \in [Lines' -> RingLines(Len(timestamps))]
  <2>1. data' = [k \in DOMAIN lines |-> lines[k]]
    BY <1>1, <1>2
  <2> QED
    BY <1>4, <2>1 DEF Lines
<1>6. ContentsInv'
  <2>1. graphs' = Greatest(1, Cardinality(Lines'))
    BY <1>1, <1>2, <1>3, <1>5, AddedGraphs DEF TrendInv
  <2> QED
    BY <1>1, <1>3, <1>5, <2>1, LinesTyped DEF TrendInv, Disturb, polling
<1>7. LinesKept
  BY <1>1, <1>4, <1>5 DEF LinesKept, FreshLine
<1>8. PendingInv'
  BY <1>1 DEF PendingInv
<1> QED
  BY <1>1, <1>3, <1>5, <1>6, <1>7, <1>8, LinesKeptKeeps DEF TrendInv, polling

\* Steps that touch a dialog or the file only.
LEMMA DialogsKeep ==
    ASSUME TrendInv, OpenConfigure \/ CancelConfigure \/ SaveSession
    PROVE  TrendInv'
<1>1. /\ UNCHANGED <<data, timestamps, graphs, axes, pending, polling, lag, edited, since>>
      /\ pending = Nothing
  BY DEF OpenConfigure, CancelConfigure, SaveSession, Click, TrendInv, PendingInv
<1>2. LinesKept /\ Lines' = Lines
  BY <1>1 DEF LinesKept, SameLine, Lines
<1>3. dialog' = NoDialog \/ dialog' \in Int \X Int
  <2>1. {miny, maxy} \subseteq Int
    BY Contents DEF TrendInv
  <2> QED
    BY <2>1 DEF OpenConfigure, CancelConfigure, SaveSession, TrendInv, ContentsInv
<1>4. file' = NoFile \/ SavedTrend(file')
  <2>1. CASE SaveSession
    <3>1. /\ Len(timestamps) \in Sizes /\ fixed_limits \in BOOLEAN
          /\ {miny, maxy} \subseteq Int /\ miny < maxy /\ Lines \subseteq Keys
      BY DEF TrendInv, ContentsInv, TypeOK
    <3>2. \A k \in Lines : [mult |-> data[k].mult, offset |-> data[k].offset,
                            signed |-> data[k].signed] \in SavedLines
      BY DEF TrendInv, ContentsInv, RingLines, SavedLines
    <3> DEFINE lines == [k \in Lines |-> [mult |-> data[k].mult, offset |-> data[k].offset,
                                          signed |-> data[k].signed]]
    <3>3. lines \in [Lines -> SavedLines] /\ DOMAIN lines = Lines
      BY <3>2
    <3>4. file' = [points |-> Len(timestamps), fixed |-> fixed_limits, min |-> miny,
                   max |-> maxy, lines |-> lines]
      BY <2>1 DEF SaveSession, save_configuration, Lines
    <3> HIDE DEF lines
    <3> QED
      BY <3>1, <3>3, <3>4 DEF SavedTrend
  <2>2. CASE file' = file
    BY <2>2 DEF TrendInv, ContentsInv
  <2> QED
    BY <2>1, <2>2 DEF OpenConfigure, CancelConfigure
<1>5. ContentsInv'
  <2>1. /\ timestamps \in Seq(Int) /\ Len(timestamps) \in Sizes /\ fixed_limits \in BOOLEAN
        /\ {miny, maxy} \subseteq Int /\ miny < maxy
        /\ Lines \subseteq Keys /\ data \in [Lines -> RingLines(Len(timestamps))]
        /\ graphs = Greatest(1, Cardinality(Lines))
        /\ round \in 1..(MaxRounds + 1) /\ position \in Keys /\ since \in 0..round
        /\ lag \in Nat
    BY DEF TrendInv, ContentsInv, TypeOK
  <2> QED
    BY <1>1, <1>2, <1>3, <1>4, <2>1, ContentsFrom DEF axes, polling
<1>6. PendingInv'
  BY <1>1 DEF PendingInv
<1>7. Lines' \subseteq Keys
  BY <1>2, Contents DEF TrendInv
<1> QED
  BY <1>1, <1>2, <1>5, <1>6, <1>7, LinesKeptKeeps DEF TrendInv, polling

\* Other limits, and perhaps another history.
LEMMA AcceptConfigureKeeps ==
    ASSUME TrendInv, NEW limits \in LimitChoices \cup {dialog}, NEW points \in PointChoices,
           NEW fixed \in BOOLEAN, AcceptConfigure(limits, points, fixed)
    PROVE  TrendInv'
<1> DEFINE n == Len(timestamps)
<1>1. /\ dialog # NoDialog /\ limits[1] < limits[2] /\ points >= MinPoints
      /\ dialog' = NoDialog /\ fixed_limits' = fixed /\ miny' = limits[1] /\ maxy' = limits[2]
      /\ since' = round
      /\ IF points = n THEN UNCHANGED <<data, timestamps>>
         ELSE /\ timestamps' = ResizedTimes(timestamps, points)
              /\ data' = [k \in Lines |-> resize(data[k], points)]
      /\ UNCHANGED <<graphs, pending, file, round, position, lag, edited, clicks>>
  BY DEF AcceptConfigure, resize_history, Lines, polling
<1>2. /\ timestamps \in Seq(Int) /\ timestamps # <<>> /\ n \in Nat \ {0}
      /\ Columns = 1..n /\ \A i \in Columns : timestamps[i] \in Int
      /\ Lines \subseteq Keys /\ data \in [Lines -> RingLines(n)]
      /\ round \in Nat \ {0} /\ lag \in Nat
  BY Contents DEF TrendInv, ContentsInv
<1>3. limits[1] \in Int /\ limits[2] \in Int
  <2>1. limits \in Int \X Int
    BY <1>1 DEF TrendInv, ContentsInv
  <2> QED
    BY <2>1
<1>4. /\ points \in Sizes /\ points \in Nat \ {0}
      /\ \A i \in 1..points :
            ResizedTimes(timestamps, points)[i] =
                IF n - points + i >= 1 THEN timestamps[n - points + i]
                ELSE timestamps[1] - (points - n + 1 - i)
  <2>1. points \in Sizes /\ points \in Nat \ {0}
    BY <1>1 DEF Sizes
  <2> QED
    BY <1>2, <2>1, ResizedTimesShape
<1> HIDE DEF n
<1>5. /\ timestamps' \in Seq(Int) /\ Len(timestamps') = points
      /\ Lines' = Lines /\ data' \in [Lines -> RingLines(points)]
      /\ \A k \in Lines : data'[k].last_value = data[k].last_value
      /\ \A k \in Lines : \A i \in 1..points :
            points = n \/ At(data'[k], i - 1).round = 0
  <2>1. CASE points = n
    BY <1>1, <1>2, <2>1 DEF Lines, n
  <2>2. CASE points # n
    <3>1. timestamps' \in Seq(Int) /\ Len(timestamps') = points
      BY <1>1, <1>2, <1>4, <2>2, ResizedTimesShape
    <3>2. ASSUME NEW k \in Lines
          PROVE  /\ resize(data[k], points) \in RingLines(points)
                 /\ resize(data[k], points).last_value = data[k].last_value
                 /\ \A i \in 0..(points - 1) : At(resize(data[k], points), i).round = 0
      BY <1>2, <1>4, ResizeClears
    <3>3. \A i \in 1..points : i - 1 \in 0..(points - 1)
      BY <1>4
    <3>4. Lines' = Lines /\ \A k \in Lines : data'[k] = resize(data[k], points)
      BY <1>1, <2>2 DEF Lines
    <3> QED
      BY <1>1, <2>2, <3>1, <3>2, <3>3, <3>4
  <2> QED
    BY <2>1, <2>2
<1>6. /\ Columns' = 1..points
      /\ \A i \in Columns' : timestamps'[i] \in Int
      /\ points = n => timestamps' = timestamps
      /\ points # n => \A i \in Columns' :
            timestamps'[i] = IF n - points + i >= 1 THEN timestamps[n - points + i]
                             ELSE timestamps[1] - (points - n + 1 - i)
  <2>1. Columns' = 1..points
    BY <1>5, LenProperties DEF Columns
  <2>2. \A i \in Columns' : timestamps'[i] \in Int
    BY <1>5, <2>1, ElementOfSeq
  <2>3. points # n => \A i \in 1..points :
            timestamps'[i] = IF n - points + i >= 1 THEN timestamps[n - points + i]
                             ELSE timestamps[1] - (points - n + 1 - i)
    BY <1>1, <1>4
  <2> QED
    BY <1>1, <2>1, <2>2, <2>3
<1>7. ContentsInv'
  <2>1. /\ graphs = Greatest(1, Cardinality(Lines))
        /\ file = NoFile \/ SavedTrend(file)
        /\ round \in 1..(MaxRounds + 1) /\ position \in Keys
    BY DEF TrendInv, ContentsInv, TypeOK
  <2>2. round' \in 1..(MaxRounds + 1) /\ since' \in 0..round'
    BY <1>1, <1>2, <2>1
  <2>3. /\ timestamps' \in Seq(Int) /\ Len(timestamps') \in Sizes
        /\ Lines' \subseteq Keys /\ data' \in [Lines' -> RingLines(Len(timestamps'))]
    BY <1>2, <1>4, <1>5
  <2>4. fixed_limits' \in BOOLEAN /\ {miny', maxy'} \subseteq Int /\ miny' < maxy'
    BY <1>1, <1>3
  <2>5. /\ graphs' = Greatest(1, Cardinality(Lines')) /\ dialog' = NoDialog
        /\ position' \in Keys /\ lag' \in Nat
    BY <1>1, <1>2, <1>5, <2>1
  <2>6. file' = NoFile \/ SavedTrend(file')
    BY <1>1, <2>1
  <2> QED
    BY <2>1, <2>2, <2>3, <2>4, <2>5, <2>6, ContentsFrom
<1>8. PendingInv'
  BY <1>1 DEF TrendInv, PendingInv
<1>9. WaitingInv'
  BY <1>1, <1>5 DEF TrendInv, WaitingInv, HasValue
\* A time is one of before, or earlier than all of those.
<1>10. ASSUME NEW i \in Columns'
       PROVE  \/ \E j \in Columns : timestamps'[i] = timestamps[j]
              \/ timestamps'[i] < timestamps[1]
  <2>1. CASE points = n
    BY <1>2, <1>6, <2>1
  <2>2. CASE points # n /\ n - points + i >= 1
    <3>1. n - points + i \in Columns
      BY <1>2, <1>4, <1>6, <2>2
    <3> QED
      BY <1>6, <2>2, <3>1
  <2>3. CASE points # n /\ ~(n - points + i >= 1)
    <3>1. points - n + 1 - i >= 1 /\ timestamps[1] \in Int
      BY <1>2, <1>4, <1>6, <2>3
    <3> QED
      BY <1>2, <1>4, <1>6, <2>3, <3>1
  <2> QED
    BY <2>1, <2>2, <2>3
<1>11. ColumnsInv'
  <2> SUFFICES ASSUME NEW i \in Columns'
               PROVE  /\ timestamps'[i] <= round
                      /\ timestamps'[i] = round =>
                            round \in edited \/ \E k \in Lines : k < position /\ ~HasValue(data'[k])
    BY <1>1, <1>5 DEF ColumnsInv
  <2>1. 1 \in Columns /\ timestamps[1] <= round
    BY <1>2 DEF TrendInv, ColumnsInv
  <2>2. CASE timestamps'[i] < timestamps[1]
    BY <1>2, <1>6, <2>1, <2>2
  <2>3. ASSUME NEW j \in Columns, timestamps'[i] = timestamps[j]
        PROVE  /\ timestamps'[i] <= round
               /\ timestamps'[i] = round =>
                     round \in edited \/ \E k \in Lines : k < position /\ ~HasValue(data'[k])
    BY <1>5, <2>3 DEF TrendInv, ColumnsInv, HasValue
  <2> QED
    BY <1>10, <2>2, <2>3
<1>12. Aged'
  <2>1. CASE points = n
    BY <1>1, <2>1 DEF TrendInv, Aged, Lines, Columns, Cell
  <2>2. CASE points # n
    BY <1>5, <1>6, <2>2 DEF Aged, Cell
  <2> QED
    BY <2>1, <2>2
<1>13. OncePerRound'
  <2>1. CASE points = n
    BY <1>1, <2>1 DEF TrendInv, OncePerRound, Columns
  <2>2. CASE points # n
    <3> SUFFICES ASSUME NEW i \in Columns', NEW j \in Columns', i < j
                 PROVE  \/ timestamps'[i] < timestamps'[j]
                        \/ timestamps'[i] = timestamps'[j] /\ timestamps'[i] \in edited
      BY <1>1 DEF OncePerRound
    <3> DEFINE a == n - points + i
               b == n - points + j
    <3>1. a \in Int /\ b \in Int /\ a < b /\ a <= n /\ b <= n
      BY <1>2, <1>4, <1>6
    <3>2. /\ a >= 1 => timestamps'[i] = timestamps[a]
          /\ ~(a >= 1) => timestamps'[i] = timestamps[1] - (1 - a)
          /\ b >= 1 => timestamps'[j] = timestamps[b]
          /\ ~(b >= 1) => timestamps'[j] = timestamps[1] - (1 - b)
      <4>1. points - n + 1 - i = 1 - a /\ points - n + 1 - j = 1 - b
        BY <1>2, <1>4, <1>6
      <4> QED
        BY <1>6, <2>2, <4>1
    <3> HIDE DEF a, b
    <3>3. CASE a >= 1
      BY <1>2, <3>1, <3>2, <3>3, SMTT(30) DEF TrendInv, OncePerRound
    <3>4. CASE ~(a >= 1) /\ b >= 1
      <4>1. 1 \in Columns /\ b \in Columns
        BY <1>2, <3>1, <3>4
      <4>2. timestamps[1] <= timestamps[b]
        <5>1. timestamps[1] \in Int /\ timestamps[b] \in Int
          BY <1>2, <4>1
        <5>2. CASE b = 1
          BY <5>1, <5>2
        <5>3. CASE 1 < b
          BY <4>1, <5>1, <5>3 DEF TrendInv, OncePerRound
        <5> QED
          BY <3>1, <3>4, <5>2, <5>3
      <4> QED
        BY <1>2, <3>1, <3>2, <3>4, <4>1, <4>2
    <3>5. CASE ~(a >= 1) /\ ~(b >= 1)
      <4>1. timestamps[1] \in Int
        BY <1>2
      <4> QED
        BY <3>1, <3>2, <3>5, <4>1
    <3> QED
      BY <3>1, <3>3, <3>4, <3>5
  <2> QED
    BY <2>1, <2>2
<1>14. LimitsCover'
  <2>1. \A i \in Columns' : timestamps'[i] <= round
    BY <1>1, <1>11 DEF ColumnsInv
  <2>2. \A i \in Columns' : ~(timestamps'[i] > since')
    BY <1>1, <1>2, <1>6, <2>1
  <2> QED
    BY <2>2 DEF LimitsCover
<1> QED
  BY <1>7, <1>8, <1>9, <1>11, <1>12, <1>13, <1>14 DEF TrendInv


\* A window that a session restores, before its timer.
LEMMA load_configurationKeeps ==
    ASSUME TrendInv, load_configuration
    PROVE  TrendInv'
<1> DEFINE new == NewTimestamps(InitialPoints)
           points == file.points
<1>1. /\ file # NoFile /\ dialog = NoDialog /\ data' = <<>> /\ graphs' = 1
      /\ timestamps' = ResizedTimes(new, points)
      /\ fixed_limits' = file.fixed /\ miny' = file.min /\ maxy' = file.max
      /\ pending' = <<[k \in DOMAIN file.lines |->
                          configure(TrendLine(file.points), file.lines[k].mult,
                                    file.lines[k].offset, file.lines[k].signed)]>>
      /\ since' = round
      /\ UNCHANGED <<dialog, file, round, position, lag, edited>>
  BY DEF load_configuration, Click, polling
<1>2. /\ SavedTrend(file) /\ round \in 1..(MaxRounds + 1) /\ round \in Nat \ {0}
      /\ position \in Keys /\ lag \in Nat
  BY <1>1, Contents DEF TrendInv, ContentsInv, TypeOK
<1>3. points \in Sizes /\ points \in Nat \ {0}
  BY <1>2, SizesArePositive DEF SavedTrend
<1>4. /\ new \in Seq(Int) /\ Len(new) = InitialPoints /\ new # <<>> /\ InitialPoints \in Nat \ {0}
      /\ \A i \in 1..InitialPoints : new[i] = i - 1 - InitialPoints
  <2>1. new \in Seq(Int) /\ Len(new) = InitialPoints /\ InitialPoints \in Nat \ {0}
        /\ \A i \in 1..InitialPoints : new[i] = i - 1 - InitialPoints
    BY NewTimes
  <2> QED
    BY <2>1, EmptySeq
<1> HIDE DEF new
<1>5. /\ timestamps' \in Seq(Int) /\ Len(timestamps') = points
      /\ \A i \in 1..points :
            timestamps'[i] = IF InitialPoints - points + i >= 1 THEN new[InitialPoints - points + i]
                             ELSE new[1] - (points - InitialPoints + 1 - i)
  BY <1>1, <1>3, <1>4, ResizedTimesShape
<1> HIDE DEF points
<1>6. \A i \in 1..points : timestamps'[i] = i - 1 - points
  <2> SUFFICES ASSUME NEW i \in 1..points
               PROVE  timestamps'[i] = i - 1 - points
    OBVIOUS
  <2>1. CASE InitialPoints - points + i >= 1
    <3>1. InitialPoints - points + i \in 1..InitialPoints
      BY <1>3, <1>4, <2>1
    <3> QED
      BY <1>3, <1>4, <1>5, <2>1, <3>1
  <2>2. CASE ~(InitialPoints - points + i >= 1)
    <3>1. new[1] = 0 - InitialPoints
      BY <1>4
    <3> QED
      BY <1>3, <1>4, <1>5, <2>2, <3>1
  <2> QED
    BY <2>1, <2>2
<1>7. Columns' = 1..points
  BY <1>5, LenProperties DEF Columns
<1>8. Lines' = {}
  BY <1>1 DEF Lines
<1>9. ContentsInv'
  <2>1. /\ timestamps' \in Seq(Int) /\ Len(timestamps') \in Sizes
        /\ Lines' \subseteq Keys /\ data' \in [Lines' -> RingLines(Len(timestamps'))]
    <3>1. data' = [k \in {} |-> {}] /\ DOMAIN data' = {}
      BY <1>1
    <3> QED
      BY <1>3, <1>5, <1>8, <3>1
  <2>2. /\ fixed_limits' \in BOOLEAN /\ {miny', maxy'} \subseteq Int /\ miny' < maxy'
        /\ file' = NoFile \/ SavedTrend(file')
    BY <1>1, <1>2 DEF SavedTrend
  <2>3. graphs' = Greatest(1, Cardinality(Lines'))
    BY <1>1, <1>8, FS_EmptySet DEF Greatest
  <2>4. /\ round' \in 1..(MaxRounds + 1) /\ since' \in 0..round'
        /\ dialog' = NoDialog /\ position' \in Keys /\ lag' \in Nat
    BY <1>1, <1>2
  <2> QED
    BY <2>1, <2>2, <2>3, <2>4, ContentsFrom
<1>10. PendingInv'
  BY <1>1, <1>5, <1>8 DEF PendingInv, points
<1>11. \A i \in Columns' : timestamps'[i] < round'
  BY <1>1, <1>2, <1>3, <1>6, <1>7
<1>12. ColumnsInv'
  BY <1>1, <1>2, <1>3, <1>6, <1>7, <1>11 DEF ColumnsInv
<1>13. OncePerRound'
  BY <1>3, <1>6, <1>7 DEF OncePerRound
<1> QED
  BY <1>8, <1>9, <1>10, <1>12, <1>13 DEF TrendInv, WaitingInv, Aged, LimitsCover

-----------------------------------------------------------------------------
(* The polls.                                                              *)

LEMMA PolledMoves ==
    ASSUME ContentsInv, Polled, round <= MaxRounds
    PROVE  /\ round' \in 1..(MaxRounds + 1) /\ round' \in Nat \ {0} /\ position' \in Keys
           /\ since \in 0..round'
           /\ \/ round' = round /\ position' = position + 1 /\ position < NumKeys
              \/ round' = round + 1 /\ position' = 1 /\ position = NumKeys
           /\ \A k \in Keys : k \in Nat /\ 1 <= k /\ k <= NumKeys
<1>1. round \in Nat \ {0} /\ position \in 1..NumKeys /\ since \in 0..round
  BY Contents DEF Keys
<1> QED
  BY <1>1 DEF Polled, Keys

\* A poll that brings no value to any line.
LEMMA FailsKeeps ==
    ASSUME TrendInv, Fails
    PROVE  TrendInv'
<1>1. /\ round <= MaxRounds /\ Polled /\ lag' = lag + 1
      /\ UNCHANGED <<data, timestamps, graphs, axes, dialog, pending, file, edited, since>>
  BY DEF Fails
<1>2. lag \in Nat /\ round \in Nat \ {0} /\ Lines \subseteq Keys /\ Lines' = Lines
  BY <1>1, Contents DEF TrendInv, Lines
<1>3. ContentsInv'
  <2>1. /\ timestamps \in Seq(Int) /\ Len(timestamps) \in Sizes /\ fixed_limits \in BOOLEAN
        /\ {miny, maxy} \subseteq Int /\ miny < maxy
        /\ Lines \subseteq Keys /\ data \in [Lines -> RingLines(Len(timestamps))]
        /\ graphs = Greatest(1, Cardinality(Lines))
        /\ dialog = NoDialog \/ dialog \in Int \X Int
        /\ file = NoFile \/ SavedTrend(file)
    BY DEF TrendInv, ContentsInv, TypeOK
  <2>2. round' \in 1..(MaxRounds + 1) /\ position' \in Keys /\ lag' \in Nat /\ since' \in 0..round'
    BY <1>1, <1>2, PolledMoves DEF TrendInv
  <2> QED
    BY <1>1, <1>2, <2>1, <2>2, ContentsFrom DEF axes
<1>4. PendingInv'
  BY <1>1, <1>2 DEF TrendInv, PendingInv, axes
<1>5. WaitingInv'
  <2> SUFFICES ASSUME NEW k \in Lines, HasValue(data[k])
               PROVE  /\ data[k].last_value.round \in (round' - lag')..round'
                      /\ k < position' =>
                            data[k].last_value.round >= round' - Greatest(lag' - 1, 0)
    BY <1>1, <1>2 DEF WaitingInv
  <2>1. /\ data[k].last_value.round \in (round - lag)..round
        /\ data[k].last_value.round \in Nat
    BY Contents DEF TrendInv, WaitingInv
  <2>2. Greatest(lag' - 1, 0) = lag
    BY <1>1, <1>2 DEF Greatest
  <2>3. k \in Nat /\ 1 <= k
    BY <1>1, <1>2, PolledMoves DEF TrendInv
  <2>4. CASE round' = round
    BY <1>1, <1>2, <2>1, <2>2, <2>4
  <2>5. CASE round' = round + 1 /\ position' = 1
    BY <1>1, <1>2, <2>1, <2>3, <2>5
  <2> QED
    BY <1>1, <2>4, <2>5, PolledMoves DEF TrendInv
<1>6. Columns' = Columns /\ \A i \in Columns : timestamps[i] \in Int /\ timestamps[i] <= round
  BY <1>1, Contents DEF TrendInv, Columns, ColumnsInv
<1>7. ColumnsInv'
  <2>1. CASE round' = round /\ position' = position + 1
    <3>1. \A k \in Lines : k < position => k < position'
      BY <1>1, <1>2, <2>1, Contents, PolledMoves DEF TrendInv
    <3> QED
      BY <1>1, <1>2, <1>6, <2>1, <3>1 DEF TrendInv, ColumnsInv
  <2>2. CASE round' = round + 1
    BY <1>1, <1>2, <1>6, <2>2 DEF ColumnsInv
  <2> QED
    BY <1>1, <2>1, <2>2, PolledMoves DEF TrendInv
<1>8. Aged'
  <2> SUFFICES ASSUME NEW k \in Lines, NEW i \in Columns, Cell(k, i).round # 0
               PROVE  Cell(k, i).round \in (timestamps[i] - lag')..timestamps[i]
    BY <1>1, <1>2, <1>6 DEF Aged, Cell
  <2>1. Cell(k, i).round \in Nat /\ Cell(k, i).round \in (timestamps[i] - lag)..timestamps[i]
    BY Contents DEF TrendInv, Aged, Readings
  <2> QED
    BY <1>1, <1>2, <1>6, <2>1
<1>9. OncePerRound' /\ LimitsCover'
  BY <1>1, <1>2, <1>6 DEF TrendInv, OncePerRound, LimitsCover, Cell, axes
<1> QED
  BY <1>3, <1>4, <1>5, <1>7, <1>8, <1>9 DEF TrendInv


LEMMA ReadingIsInt == \A key \in Keys : Reading(key, round) \in Int \/ round \notin Int
<1>1. Word \in Nat \ {0}
  BY DEF Word
<1> QED
  BY <1>1 DEF Reading, Keys

\* The lines once the value that arrived is taken over.
Now == [data EXCEPT ![position] = set_data(@, Reading(position, round), round)]

LEMMA NowLines ==
    ASSUME ContentsInv, position \in Lines
    PROVE  /\ DOMAIN Now = Lines /\ \A k \in Lines : Now[k] \in RingLines(Len(timestamps))
           /\ HasValue(Now[position]) /\ Now[position].last_value.round = round
           /\ \A k \in Lines : \A i : At(Now[k], i) = At(data[k], i)
           /\ \A k \in Lines : k # position => Now[k] = data[k]
<1> DEFINE n == Len(timestamps)
           line == set_data(data[position], Reading(position, round), round)
<1>1. /\ n \in Nat \ {0} /\ round \in Nat \ {0} /\ position \in Keys
      /\ data \in [Lines -> RingLines(n)]
  BY Contents DEF ContentsInv
<1>2. Reading(position, round) \in Int
  BY <1>1, ReadingIsInt
<1>3. /\ line \in RingLines(n) /\ HasValue(line) /\ line.last_value.round = round
      /\ \A i : At(line, i) = At(data[position], i)
  BY <1>1, <1>2, SetDataKeeps
<1>4. Now = [data EXCEPT ![position] = line]
  BY DEF Now
<1> HIDE DEF n, line
<1> QED
  BY <1>1, <1>3, <1>4 DEF Lines, n

\* What a value may bring about: nothing, a value that waits, or a column.
Ignored == position \notin Lines /\ UNCHANGED <<data, timestamps, miny, maxy>>

Stored ==
    /\ position \in Lines /\ \E k \in Lines : k # position /\ ~HasValue(data[k])
    /\ data' = Now /\ UNCHANGED <<timestamps, miny, maxy>>

Scanned ==
    /\ position \in Lines /\ \A k \in Lines : k # position => HasValue(data[k])
    /\ timestamps' = Append(Tail(timestamps), round)
    /\ data' = [k \in Lines |-> update(Now[k])]
    /\ update_min_max(Now)

LEMMA ValueOutcome ==
    ASSUME ContentsInv, Value
    PROVE  /\ round <= MaxRounds /\ Polled
           /\ UNCHANGED <<graphs, fixed_limits, dialog, pending, file, lag, edited, since, clicks>>
           /\ Ignored \/ Stored \/ Scanned
<1>1. CASE position \notin Lines
  BY <1>1 DEF Value, on_new_value, Ignored, Lines
<1>2. CASE position \in Lines
  <2>1. scan(Now)
    BY <1>2 DEF Value, on_new_value, Now, Lines
  <2>2. DOMAIN Now = Lines /\ HasValue(Now[position])
        /\ \A k \in Lines : k # position => Now[k] = data[k]
    BY <1>2, NowLines
  <2>3. Stored \/ Scanned
    BY <1>2, <2>1, <2>2 DEF scan, Stored, Scanned
  <2> QED
    BY <2>3 DEF Value
<1> QED
  BY <1>1, <1>2

LEMMA IgnoredKeeps ==
    ASSUME TrendInv, Value, Ignored
    PROVE  TrendInv'
<1>1. /\ round <= MaxRounds /\ Polled
      /\ UNCHANGED <<data, timestamps, graphs, axes, dialog, pending, file, lag, edited, since>>
  BY ValueOutcome DEF Ignored, axes, TrendInv
<1>2. lag \in Nat /\ round \in Nat \ {0} /\ Lines \subseteq Keys /\ Lines' = Lines
  BY <1>1, Contents DEF TrendInv, Lines
<1>3. ContentsInv'
  <2>1. /\ timestamps \in Seq(Int) /\ Len(timestamps) \in Sizes /\ fixed_limits \in BOOLEAN
        /\ {miny, maxy} \subseteq Int /\ miny < maxy
        /\ Lines \subseteq Keys /\ data \in [Lines -> RingLines(Len(timestamps))]
        /\ graphs = Greatest(1, Cardinality(Lines))
        /\ dialog = NoDialog \/ dialog \in Int \X Int
        /\ file = NoFile \/ SavedTrend(file)
    BY DEF TrendInv, ContentsInv, TypeOK
  <2>2. round' \in 1..(MaxRounds + 1) /\ position' \in Keys /\ lag' \in Nat /\ since' \in 0..round'
    BY <1>1, <1>2, PolledMoves DEF TrendInv
  <2> QED
    BY <1>1, <1>2, <2>1, <2>2, ContentsFrom DEF axes
<1>4. PendingInv'
  BY <1>1, <1>2 DEF TrendInv, PendingInv, axes
<1>5. /\ \A k \in Lines : /\ k \in Nat /\ 1 <= k /\ k <= NumKeys /\ k # position
      /\ position \in Nat /\ NumKeys \in Nat
  BY <1>1, <1>2, PolledMoves, Contents DEF TrendInv, Ignored
<1>6. WaitingInv'
  <2> SUFFICES ASSUME NEW k \in Lines
               PROVE  /\ HasValue(data[k]) =>
                           /\ data[k].last_value.round \in (round' - lag)..round'
                           /\ k < position' =>
                                 data[k].last_value.round >= round' - Greatest(lag - 1, 0)
                      /\ lag = 0 => (HasValue(data[k]) <=>
                            k < position' /\ \E other \in Lines : position' <= other)
    BY <1>1, <1>2 DEF WaitingInv
  <2>1. /\ HasValue(data[k]) =>
             /\ data[k].last_value.round \in (round - lag)..round
             /\ k < position => data[k].last_value.round >= round - Greatest(lag - 1, 0)
        /\ lag = 0 => (HasValue(data[k]) <=>
              k < position /\ \E other \in Lines : position <= other)
        /\ data[k].last_value.round \in Nat
    BY Contents DEF TrendInv, WaitingInv
  <2>2. CASE round' = round /\ position' = position + 1
    <3>1. \A other \in Lines : /\ other < position' <=> other < position
                               /\ position' <= other <=> position <= other
      BY <1>5, <2>2
    <3> QED
      BY <2>1, <2>2, <3>1
  <2>3. CASE round' = round + 1 /\ position' = 1 /\ position = NumKeys
    <3>1. k < position /\ ~(k < position') /\ ~(\E other \in Lines : position <= other)
      BY <1>5, <2>3
    <3>2. lag = 0 => ~HasValue(data[k])
      BY <2>1, <3>1
    <3>3. HasValue(data[k]) => data[k].last_value.round \in (round' - lag)..round'
      <4> SUFFICES ASSUME HasValue(data[k])
                   PROVE  data[k].last_value.round \in (round' - lag)..round'
        OBVIOUS
      <4>1. lag # 0 /\ Greatest(lag - 1, 0) = lag - 1
        BY <1>2, <3>2 DEF Greatest
      <4>2. data[k].last_value.round >= round - (lag - 1) /\ data[k].last_value.round <= round
        BY <1>2, <2>1, <3>1, <4>1
      <4> QED
        BY <1>2, <2>1, <2>3, <4>2
    <3> QED
      BY <3>1, <3>2, <3>3
  <2> QED
    BY <1>1, <2>2, <2>3, PolledMoves DEF TrendInv
<1>7. Columns' = Columns /\ \A i \in Columns : timestamps[i] \in Int /\ timestamps[i] <= round
  BY <1>1, Contents DEF TrendInv, Columns, ColumnsInv
<1>8. ColumnsInv'
  <2>1. CASE round' = round /\ position' = position + 1
    <3>1. \A k \in Lines : k < position => k < position'
      BY <1>5, <2>1
    <3> QED
      BY <1>1, <1>2, <1>7, <2>1, <3>1 DEF TrendInv, ColumnsInv
  <2>2. CASE round' = round + 1
    BY <1>1, <1>2, <1>7, <2>2 DEF ColumnsInv
  <2> QED
    BY <1>1, <2>1, <2>2, PolledMoves DEF TrendInv
<1>9. Aged' /\ OncePerRound' /\ LimitsCover'
  BY <1>1, <1>2, <1>7 DEF TrendInv, Aged, OncePerRound, LimitsCover, Cell, axes
<1> QED
  BY <1>3, <1>4, <1>6, <1>8, <1>9 DEF TrendInv

LEMMA StoredKeeps ==
    ASSUME TrendInv, Value, Stored
    PROVE  TrendInv'
<1>1. /\ round <= MaxRounds /\ Polled /\ data' = Now
      /\ UNCHANGED <<timestamps, graphs, axes, dialog, pending, file, lag, edited, since>>
  BY ValueOutcome DEF Stored, axes, TrendInv
<1>2. lag \in Nat /\ round \in Nat \ {0} /\ Lines \subseteq Keys
  BY Contents DEF TrendInv
<1>3. /\ position \in Lines /\ Lines' = Lines
      /\ \A k \in Lines : data'[k] \in RingLines(Len(timestamps))
      /\ HasValue(data'[position]) /\ data'[position].last_value.round = round
      /\ \A k \in Lines : \A i : At(data'[k], i) = At(data[k], i)
      /\ \A k \in Lines : k # position => data'[k] = data[k]
  BY <1>1, NowLines DEF Stored, TrendInv, Lines
<1>4. PICK waits \in Lines : waits # position /\ ~HasValue(data[waits])
  BY DEF Stored
<1>5. ContentsInv'
  <2>1. /\ timestamps \in Seq(Int) /\ Len(timestamps) \in Sizes /\ fixed_limits \in BOOLEAN
        /\ {miny, maxy} \subseteq Int /\ miny < maxy
        /\ graphs = Greatest(1, Cardinality(Lines))
        /\ dialog = NoDialog \/ dialog \in Int \X Int
        /\ file = NoFile \/ SavedTrend(file)
    BY DEF TrendInv, ContentsInv, TypeOK
  <2>2. round' \in 1..(MaxRounds + 1) /\ position' \in Keys /\ lag' \in Nat /\ since' \in 0..round'
    BY <1>1, <1>2, PolledMoves DEF TrendInv
  <2>3. data' \in [Lines' -> RingLines(Len(timestamps'))]
    <3>1. data' = [k \in Lines |-> data'[k]]
      BY <1>1 DEF Now, Lines
    <3> QED
      BY <1>1, <1>3, <3>1
  <2> QED
    BY <1>1, <1>2, <1>3, <2>1, <2>2, <2>3, ContentsFrom DEF axes
<1>6. PendingInv'
  BY <1>1, <1>3 DEF TrendInv, PendingInv
<1>7. /\ \A k \in Lines : k \in Nat /\ 1 <= k /\ k <= NumKeys
      /\ position \in Nat /\ NumKeys \in Nat
  BY <1>1, <1>2, <1>3, PolledMoves DEF TrendInv
<1>8. lag = 0 => /\ \A k \in Lines : HasValue(data[k]) <=> k < position
                 /\ position < waits
  <2>1. lag = 0 => \A k \in Lines : HasValue(data[k]) <=> k < position
    <3>1. \E other \in Lines : position <= other
      BY <1>3, <1>7
    <3> QED
      BY <3>1 DEF TrendInv, WaitingInv
  <2> QED
    BY <1>4, <1>7, <2>1
<1>9. WaitingInv'
  <2> SUFFICES ASSUME NEW k \in Lines
               PROVE  /\ HasValue(data'[k]) =>
                           /\ data'[k].last_value.round \in (round' - lag)..round'
                           /\ k < position' =>
                                 data'[k].last_value.round >= round' - Greatest(lag - 1, 0)
                      /\ lag = 0 => (HasValue(data'[k]) <=>
                            k < position' /\ \E other \in Lines : position' <= other)
    BY <1>1, <1>3 DEF WaitingInv
  <2>1. /\ HasValue(data[k]) =>
             /\ data[k].last_value.round \in (round - lag)..round
             /\ k < position => data[k].last_value.round >= round - Greatest(lag - 1, 0)
        /\ data[k].last_value.round \in Nat
    BY Contents DEF TrendInv, WaitingInv
  <2>2. CASE round' = round /\ position' = position + 1
    <3>1. k < position' <=> k < position \/ k = position
      BY <1>7, <2>2
    <3>2. CASE k = position
      <4>1. Greatest(lag - 1, 0) \in Nat
        BY <1>2 DEF Greatest
      <4>2. /\ data'[k].last_value.round \in (round' - lag)..round'
            /\ data'[k].last_value.round >= round' - Greatest(lag - 1, 0)
        BY <1>2, <1>3, <2>2, <3>2, <4>1
      <4>3. lag = 0 => position' <= waits
        BY <1>7, <1>8, <2>2
      <4> QED
        BY <1>3, <3>1, <3>2, <4>2, <4>3
    <3>3. CASE k # position
      <4>1. data'[k] = data[k]
        BY <1>3, <3>3
      <4>2. lag = 0 => position' <= waits
        BY <1>7, <1>8, <2>2
      <4> QED
        BY <1>8, <2>1, <2>2, <3>1, <3>3, <4>1, <4>2
    <3> QED
      BY <3>2, <3>3
  <2>3. CASE round' = round + 1 /\ position' = 1 /\ position = NumKeys
    <3>1. lag # 0
      BY <1>7, <1>8, <2>3
    <3>2. Greatest(lag - 1, 0) = lag - 1
      BY <1>2, <3>1 DEF Greatest
    <3>3. ~(k < position')
      BY <1>7, <2>3
    <3>4. HasValue(data'[k]) => data'[k].last_value.round \in (round' - lag)..round'
      <4>1. CASE k = position
        BY <1>2, <1>3, <2>3, <3>1, <4>1
      <4>2. CASE k # position
        <5>1. data'[k] = data[k] /\ k < position
          <6>1. k \in Nat /\ k <= position /\ position \in Nat
            BY <1>7, <2>3
          <6> QED
            BY <1>3, <4>2, <6>1
        <5> SUFFICES ASSUME HasValue(data[k])
                     PROVE  data[k].last_value.round \in (round' - lag)..round'
          BY <5>1
        <5>2. data[k].last_value.round >= round - (lag - 1) /\ data[k].last_value.round <= round
          BY <1>2, <2>1, <3>2, <5>1
        <5> QED
          BY <1>2, <2>1, <2>3, <5>2
      <4> QED
        BY <4>1, <4>2
    <3> QED
      BY <3>1, <3>3, <3>4
  <2> QED
    BY <1>1, <2>2, <2>3, PolledMoves DEF TrendInv
<1>10. Columns' = Columns /\ \A i \in Columns : timestamps[i] \in Int /\ timestamps[i] <= round
  BY <1>1, Contents DEF TrendInv, Columns, ColumnsInv
<1>11. ColumnsInv'
  <2>1. CASE round' = round /\ position' = position + 1
    <3>1. \A k \in Lines : k < position => k < position' /\ data'[k] = data[k]
      BY <1>3, <1>7, <2>1
    <3> QED
      BY <1>1, <1>3, <1>10, <2>1, <3>1 DEF TrendInv, ColumnsInv
  <2>2. CASE round' = round + 1
    BY <1>1, <1>2, <1>10, <2>2 DEF ColumnsInv
  <2> QED
    BY <1>1, <2>1, <2>2, PolledMoves DEF TrendInv
<1>12. \A k \in Lines, i \in Columns : Cell(k, i)' = Cell(k, i)
  BY <1>3 DEF Cell
<1>13. Aged' /\ OncePerRound' /\ LimitsCover'
  BY <1>1, <1>3, <1>10, <1>12 DEF TrendInv, Aged, OncePerRound, LimitsCover, axes
<1> QED
  BY <1>5, <1>6, <1>9, <1>11, <1>13 DEF TrendInv


\* The limits only move apart, as far as they must.
LEMMA Stretched ==
    ASSUME NEW lines, update_min_max(lines), {miny, maxy} \subseteq Int, miny < maxy,
           \A k \in DOMAIN lines : Scaled(lines[k]) \in Int
    PROVE  /\ {miny', maxy'} \subseteq Int /\ miny' < maxy'
           /\ miny' <= miny /\ maxy <= maxy'
           /\ ~fixed_limits => \A k \in DOMAIN lines :
                 miny' <= Scaled(lines[k]) /\ Scaled(lines[k]) <= maxy'
<1>1. CASE fixed_limits
  BY <1>1 DEF update_min_max
<1>2. CASE ~fixed_limits
  <2> DEFINE values == {Scaled(lines[k]) : k \in DOMAIN lines}
  <2>1. Stretch(values) /\ values \subseteq Int /\ \A k \in DOMAIN lines : Scaled(lines[k]) \in values
    BY <1>2 DEF update_min_max
  <2> HIDE DEF values
  <2>2. /\ miny' \in values \cup {miny} /\ \A v \in values \cup {miny} : miny' <= v
        /\ maxy' \in values \cup {maxy} /\ \A v \in values \cup {maxy} : v <= maxy'
    BY <2>1 DEF Stretch
  <2>3. miny' \in Int /\ maxy' \in Int /\ miny' <= miny /\ maxy <= maxy'
    BY <2>1, <2>2
  <2>4. miny' < maxy'
    BY <2>3
  <2> QED
    BY <2>1, <2>2, <2>3, <2>4
<1> QED
  BY <1>1, <1>2

\* A column: what was on display moves on, and the values that waited join it.
LEMMA ScannedColumns ==
    ASSUME TrendInv, Value, Scanned
    PROVE  LET n == Len(timestamps) IN
           /\ Columns = 1..n /\ Columns' = 1..n /\ n \in Nat \ {0}
           /\ timestamps' \in Seq(Int) /\ Len(timestamps') = n
           /\ \A i \in 1..(n - 1) : timestamps'[i] = timestamps[i + 1]
           /\ timestamps'[n] = round
           /\ Lines' = Lines /\ data' \in [Lines -> RingLines(n)]
           /\ \A k \in Lines :
                 /\ ~HasValue(data'[k]) /\ Scaled(Now[k]) \in Int
                 /\ \A i \in 1..(n - 1) : Cell(k, i)' = Cell(k, i + 1)
                 /\ \A i \in 1..n : i = n => Cell(k, i)' =
                       [round |-> Now[k].last_value.round, v |-> Scaled(Now[k])]
<1> DEFINE n == Len(timestamps)
<1>1. /\ timestamps' = Append(Tail(timestamps), round)
      /\ data' = [k \in Lines |-> update(Now[k])]
      /\ position \in Lines
  BY DEF Scanned
<1>2. /\ timestamps \in Seq(Int) /\ timestamps # <<>> /\ n \in Nat \ {0}
      /\ Columns = 1..n /\ round \in Nat \ {0}
  BY Contents DEF TrendInv
<1>3. /\ timestamps' \in Seq(Int) /\ Len(timestamps') = n
      /\ \A i \in 1..(n - 1) : timestamps'[i] = timestamps[i + 1]
      /\ timestamps'[n] = round
  BY <1>1, <1>2, NextTimes
<1>4. Columns' = 1..n
  BY <1>3, LenProperties DEF Columns
<1>5. /\ DOMAIN Now = Lines /\ \A k \in Lines : Now[k] \in RingLines(n)
      /\ \A k \in Lines : \A i : At(Now[k], i) = At(data[k], i)
  BY <1>1, NowLines DEF TrendInv
<1> HIDE DEF n
<1>6. ASSUME NEW k \in Lines
      PROVE  /\ data'[k] = update(Now[k]) /\ data'[k] \in RingLines(n)
             /\ ~HasValue(data'[k]) /\ Scaled(Now[k]) \in Int
             /\ \A i \in 0..(n - 2) : At(data'[k], i) = At(data[k], i + 1)
             /\ At(data'[k], n - 1) =
                   [round |-> Now[k].last_value.round, v |-> Scaled(Now[k])]
  <2>1. data'[k] = update(Now[k]) /\ Now[k] \in RingLines(n)
    BY <1>1, <1>5
  <2> QED
    BY <1>2, <1>5, <2>1, UpdateTurns
<1>7. Lines' = Lines /\ data' \in [Lines -> RingLines(n)]
  BY <1>1, <1>6 DEF Lines
<1>8. ASSUME NEW k \in Lines, NEW i \in 1..(n - 1)
      PROVE  Cell(k, i)' = Cell(k, i + 1)
  <2>1. i - 1 \in 0..(n - 2) /\ (i - 1) + 1 = (i + 1) - 1
    BY <1>2
  <2>2. At(data'[k], i - 1) = At(data[k], (i + 1) - 1)
    BY <1>6, <2>1
  <2> QED
    BY <2>2 DEF Cell
<1>9. ASSUME NEW k \in Lines, NEW i \in 1..n, i = n
      PROVE  Cell(k, i)' = [round |-> Now[k].last_value.round, v |-> Scaled(Now[k])]
  BY <1>6, <1>9 DEF Cell
<1> QED
  BY <1>2, <1>3, <1>4, <1>6, <1>7, <1>8, <1>9 DEF n

LEMMA ScannedKeeps ==
    ASSUME TrendInv, Value, Scanned
    PROVE  TrendInv'
<1> DEFINE n == Len(timestamps)
<1>1. /\ round <= MaxRounds /\ Polled /\ position \in Lines
      /\ \A k \in Lines : k # position => HasValue(data[k])
      /\ UNCHANGED <<graphs, fixed_limits, dialog, pending, file, lag, edited, since>>
      /\ update_min_max(Now)
  BY ValueOutcome DEF Scanned, TrendInv
<1>2. /\ lag \in Nat /\ round \in Nat \ {0} /\ Lines \subseteq Keys
      /\ {miny, maxy} \subseteq Int /\ miny < maxy
  BY Contents DEF TrendInv
<1>3. /\ Columns = 1..n /\ Columns' = 1..n /\ n \in Nat \ {0}
      /\ timestamps' \in Seq(Int) /\ Len(timestamps') = n
      /\ \A i \in 1..(n - 1) : timestamps'[i] = timestamps[i + 1]
      /\ timestamps'[n] = round
      /\ Lines' = Lines /\ data' \in [Lines -> RingLines(n)]
      /\ \A k \in Lines : ~HasValue(data'[k]) /\ Scaled(Now[k]) \in Int
  BY ScannedColumns
<1>4. \A k \in Lines :
        /\ \A i \in 1..(n - 1) : Cell(k, i)' = Cell(k, i + 1)
        /\ \A i \in 1..n : i = n => Cell(k, i)' =
              [round |-> Now[k].last_value.round, v |-> Scaled(Now[k])]
  BY ScannedColumns
<1>5. n \in Sizes
  BY DEF TrendInv, ContentsInv
<1>6. \A i \in 1..n : timestamps[i] \in Int /\ timestamps[i] <= round
  BY <1>3, Contents DEF TrendInv, ColumnsInv
<1> HIDE DEF n
<1>7. /\ {miny', maxy'} \subseteq Int /\ miny' < maxy'
      /\ miny' <= miny /\ maxy <= maxy'
      /\ ~fixed_limits => \A k \in Lines :
            miny' <= Scaled(Now[k]) /\ Scaled(Now[k]) <= maxy'
  <2>1. DOMAIN Now = Lines
    BY <1>1, NowLines DEF TrendInv
  <2> QED
    BY <1>1, <1>2, <1>3, <2>1, Stretched
<1>8. ContentsInv'
  <2>1. /\ fixed_limits \in BOOLEAN /\ graphs = Greatest(1, Cardinality(Lines))
        /\ dialog = NoDialog \/ dialog \in Int \X Int
        /\ file = NoFile \/ SavedTrend(file)
    BY DEF TrendInv, ContentsInv, TypeOK
  <2>2. round' \in 1..(MaxRounds + 1) /\ position' \in Keys /\ lag' \in Nat /\ since' \in 0..round'
    BY <1>1, <1>2, PolledMoves DEF TrendInv
  <2>3. Lines' \subseteq Keys /\ data' \in [Lines' -> RingLines(Len(timestamps'))]
    BY <1>2, <1>3
  <2>4. graphs' = Greatest(1, Cardinality(Lines'))
    BY <1>1, <1>3, <2>1
  <2>5. dialog' = NoDialog \/ dialog' \in Int \X Int
    BY <1>1, <2>1
  <2>6. file' = NoFile \/ SavedTrend(file')
    BY <1>1, <2>1
  <2>7. /\ timestamps' \in Seq(Int) /\ Len(timestamps') \in Sizes
        /\ fixed_limits' \in BOOLEAN
    BY <1>1, <1>3, <1>5, <2>1
  <2> QED
    BY <1>7, <2>2, <2>3, <2>4, <2>5, <2>6, <2>7, ContentsFrom
<1>9. PendingInv'
  BY <1>1 DEF TrendInv, PendingInv
<1>10. /\ \A k \in Lines : k \in Nat /\ 1 <= k /\ k <= NumKeys
       /\ position \in Nat /\ NumKeys \in Nat
  BY <1>1, <1>2, PolledMoves DEF TrendInv
<1>11. \/ round' = round /\ position' = position + 1 /\ position < NumKeys
       \/ round' = round + 1 /\ position' = 1 /\ position = NumKeys
  BY <1>1, PolledMoves DEF TrendInv
\* If nothing ever went wrong, this was the last line of the round.
<1>12. lag = 0 => \A k \in Lines : k <= position
  BY <1>1, <1>10 DEF TrendInv, WaitingInv
<1>13. WaitingInv'
  <2> SUFFICES ASSUME NEW k \in Lines, lag = 0, k < position',
                      NEW other \in Lines, position' <= other
               PROVE  FALSE
    BY <1>1, <1>3 DEF WaitingInv
  <2>1. other <= position /\ other \in Nat /\ position \in Nat
    BY <1>10, <1>12
  <2> QED
    BY <1>10, <1>11, <2>1
<1>14. ColumnsInv'
  <2> SUFFICES ASSUME NEW i \in 1..n
               PROVE  /\ timestamps'[i] <= round'
                      /\ timestamps'[i] = round' =>
                            \E k \in Lines : k < position' /\ ~HasValue(data'[k])
    BY <1>1, <1>3 DEF ColumnsInv
  <2>1. timestamps'[i] \in Int /\ timestamps'[i] <= round
    <3>1. CASE i = n
      BY <1>2, <1>3, <3>1
    <3>2. CASE i # n
      <4>1. i \in 1..(n - 1) /\ i + 1 \in 1..n
        BY <1>3, <3>2
      <4> QED
        BY <1>3, <1>6, <4>1
    <3> QED
      BY <3>1, <3>2
  <2>2. CASE round' = round /\ position' = position + 1
    BY <1>1, <1>3, <1>10, <2>1, <2>2
  <2>3. CASE round' = round + 1
    BY <1>2, <2>1, <2>3
  <2> QED
    BY <1>11, <2>2, <2>3
<1>15. ASSUME NEW k \in Lines
       PROVE  Now[k].last_value.round \in Nat /\ Now[k].last_value.round \in (round - lag)..round
  <2>1. CASE k = position
    <3>1. Now[k].last_value.round = round
      BY <1>1, <2>1, NowLines DEF TrendInv
    <3> QED
      BY <1>2, <3>1
  <2>2. CASE k # position
    <3>1. Now[k] = data[k] /\ HasValue(data[k])
      BY <1>1, <2>2, NowLines DEF TrendInv
    <3> QED
      BY <3>1, Contents DEF TrendInv, WaitingInv
  <2> QED
    BY <2>1, <2>2
<1>16. Aged'
  <2> SUFFICES ASSUME NEW k \in Lines, NEW i \in 1..n, Cell(k, i)'.round # 0
               PROVE  Cell(k, i)'.round \in (timestamps'[i] - lag)..timestamps'[i]
    BY <1>1, <1>3 DEF Aged
  <2>1. CASE i = n
    <3>1. Cell(k, i)'.round = Now[k].last_value.round /\ timestamps'[i] = round
      BY <1>3, <1>4, <2>1
    <3> QED
      BY <1>15, <3>1
  <2>2. CASE i # n
    <3>1. i \in 1..(n - 1) /\ i + 1 \in Columns
      BY <1>3, <2>2
    <3>2. Cell(k, i)' = Cell(k, i + 1) /\ timestamps'[i] = timestamps[i + 1]
      BY <1>3, <1>4, <3>1
    <3> QED
      BY <3>1, <3>2 DEF TrendInv, Aged
  <2> QED
    BY <2>1, <2>2
<1>17. OncePerRound'
  <2> SUFFICES ASSUME NEW i \in 1..n, NEW j \in 1..n, i < j
               PROVE  \/ timestamps'[i] < timestamps'[j]
                      \/ timestamps'[i] = timestamps'[j] /\ timestamps'[i] \in edited
    BY <1>1, <1>3 DEF OncePerRound
  <2>1. i \in 1..(n - 1) /\ i + 1 \in Columns /\ timestamps'[i] = timestamps[i + 1]
    <3>1. i \in 1..(n - 1) /\ i + 1 \in 1..n
      BY <1>3
    <3> QED
      BY <1>3, <3>1
  <2>2. CASE j = n
    <3>1. timestamps'[j] = round /\ timestamps[i + 1] \in Int /\ timestamps[i + 1] <= round
      BY <1>3, <1>6, <2>1, <2>2
    <3>2. timestamps[i + 1] = round => round \in edited
      <4>1. \A k \in Lines : k < position => HasValue(data[k])
        BY <1>1, <1>10
      <4> QED
        BY <2>1, <4>1 DEF TrendInv, ColumnsInv
    <3> QED
      BY <1>2, <2>1, <3>1, <3>2
  <2>3. CASE j # n
    <3>1. /\ j \in 1..(n - 1) /\ j + 1 \in Columns /\ i + 1 < j + 1
          /\ timestamps'[j] = timestamps[j + 1]
      BY <1>3, <2>3
    <3> QED
      BY <2>1, <3>1 DEF TrendInv, OncePerRound
  <2> QED
    BY <2>2, <2>3
<1>18. LimitsCover'
  <2> SUFFICES ASSUME ~fixed_limits, NEW k \in Lines, NEW i \in 1..n,
                      Cell(k, i)'.round # 0, timestamps'[i] > since
               PROVE  Cell(k, i)'.v \in miny'..maxy'
    BY <1>1, <1>3 DEF LimitsCover
  <2>1. CASE i = n
    <3>1. Cell(k, i)'.v = Scaled(Now[k])
      BY <1>3, <1>4, <2>1
    <3> QED
      BY <1>3, <1>7, <3>1
  <2>2. CASE i # n
    <3>1. i \in 1..(n - 1) /\ i + 1 \in Columns
      BY <1>3, <2>2
    <3>2. Cell(k, i)' = Cell(k, i + 1) /\ timestamps'[i] = timestamps[i + 1]
      BY <1>3, <1>4, <3>1
    <3>3. Cell(k, i + 1).v \in miny..maxy
      BY <3>1, <3>2 DEF TrendInv, LimitsCover
    <3> QED
      BY <1>2, <1>7, <3>2, <3>3
  <2> QED
    BY <2>1, <2>2
<1> QED
  BY <1>8, <1>9, <1>13, <1>14, <1>16, <1>17, <1>18 DEF TrendInv

-----------------------------------------------------------------------------
(* The invariant.                                                          *)

LEMMA TrendInit ==
    ASSUME Init
    PROVE  TrendInv
<1> DEFINE n == InitialPoints
           new == NewTimestamps(n)
<1>1. /\ timestamps = new /\ fixed_limits = FALSE /\ miny = 0 /\ maxy = 1
      /\ dialog = NoDialog /\ pending = Nothing /\ file = NoFile
      /\ round = 1 /\ position = 1 /\ lag = 0 /\ since = 0
  BY DEF Init
<1>2. PICK lines \in SUBSET Keys :
        data = [k \in lines |-> TrendLine(n)] /\ graphs = Greatest(1, Cardinality(lines))
  BY DEF Init
<1>3. /\ new \in Seq(Int) /\ Len(new) = n /\ n \in Nat \ {0} /\ n \in Sizes
      /\ \A i \in 1..n : new[i] = i - 1 - n
  BY NewTimes, SizesArePositive
<1> HIDE DEF n, new
<1>4. Columns = 1..n /\ \A i \in Columns : timestamps[i] = i - 1 - n
  BY <1>1, <1>3, LenProperties DEF Columns
<1>5. /\ Lines = lines
      /\ \A k \in Lines : /\ data[k] \in RingLines(n) /\ ~HasValue(data[k])
                          /\ \A i \in 0..(n - 1) : At(data[k], i).round = 0
  BY <1>2, <1>3, NewLine DEF Lines, NoValue
<1>6. data \in [Lines -> RingLines(n)] /\ data = [k \in Lines |-> data[k]]
  BY <1>2, <1>5
<1>7. position \in Keys /\ round \in 1..(MaxRounds + 1) /\ since \in 0..round
  BY <1>1 DEF Keys
<1>8. ContentsInv
  <2>1. \A i \in Columns : timestamps[i] \in Int
    BY <1>3, <1>4
  <2>2. \A k \in Lines : data[k].next_index \in 0..(data[k].num_points - 1)
    BY <1>5 DEF RingLines
  <2>3. graphs \in Nat /\ graphs = Greatest(1, Cardinality(Lines))
    BY <1>2, <1>5, KeysAreFinite DEF Greatest
  <2>4. /\ Lines \subseteq Keys /\ lag \in Nat
        /\ {miny, maxy} \subseteq Int /\ miny < maxy
    <3>1. miny = 0 /\ maxy = 1 /\ lag = 0
      BY <1>1
    <3> QED
      BY <1>2, <1>5, <3>1
  <2>5. fixed_limits \in BOOLEAN
    BY <1>1
  <2>6. TypeOK
    BY <1>7, <2>1, <2>2, <2>3, <2>4, <2>5 DEF TypeOK
  <2> QED
    BY <1>1, <1>3, <1>6, <2>3, <2>6 DEF ContentsInv
<1>9. PendingInv
  BY <1>1 DEF PendingInv
<1>10. WaitingInv
  <2>1. \A k \in Lines : k \in Nat /\ k >= 1
    BY <1>5 DEF Keys
  <2> QED
    BY <1>1, <1>5, <2>1 DEF WaitingInv
<1>11. ColumnsInv
  BY <1>1, <1>3, <1>4 DEF ColumnsInv
<1>12. \A k \in Lines, i \in Columns : Cell(k, i).round = 0
  <2>1. \A i \in Columns : i - 1 \in 0..(n - 1)
    BY <1>3, <1>4
  <2> QED
    BY <1>5, <2>1 DEF Cell
<1>13. Aged /\ LimitsCover
  BY <1>12 DEF Aged, LimitsCover
<1>14. OncePerRound
  BY <1>3, <1>4 DEF OncePerRound
<1> QED
  BY <1>8, <1>9, <1>10, <1>11, <1>13, <1>14 DEF TrendInv

LEMMA TrendStep ==
    ASSUME TrendInv, [Next]_vars
    PROVE  TrendInv'
<1>1. CASE Value
  BY <1>1, ValueOutcome, IgnoredKeeps, StoredKeeps, ScannedKeeps DEF TrendInv
<1>2. CASE Fails
  BY <1>2, FailsKeeps
<1>3. ASSUME NEW key \in Keys, DeleteLine(key) PROVE TrendInv'
  BY <1>3, DeleteLineKeeps
<1>4. ASSUME NEW key \in Keys, NEW choice \in LineChoices, AddLine(key, choice) PROVE TrendInv'
  BY <1>4, AddLineKeeps
<1>5. ASSUME NEW key \in Keys, NEW choice \in LineChoices, ConfigureLine(key, choice)
      PROVE  TrendInv'
  BY <1>5, ConfigureLineKeepsInv
<1>6. CASE OpenConfigure \/ CancelConfigure \/ SaveSession
  BY <1>6, DialogsKeep
<1>7. ASSUME NEW limits \in LimitChoices \cup {dialog}, NEW points \in PointChoices,
             NEW fixed \in BOOLEAN, AcceptConfigure(limits, points, fixed)
      PROVE  TrendInv'
  BY <1>7, AcceptConfigureKeeps
<1>8. CASE load_configuration
  BY <1>8, load_configurationKeeps
<1>9. CASE LoadTimer
  BY <1>9, LoadTimerKeeps
<1>10. CASE UNCHANGED vars
  <2>1. /\ UNCHANGED <<data, timestamps, graphs, axes, dialog, pending, file, lag, edited, since>>
        /\ round' = round /\ position' = position
    BY <1>10 DEF vars, polling
  <2>2. Lines' = Lines /\ Columns' = Columns
    BY <2>1 DEF Lines, Columns
  <2>3. ContentsInv' /\ PendingInv'
    BY <2>1, <2>2 DEF TrendInv, ContentsInv, PendingInv, TypeOK, axes
  <2>4. WaitingInv' /\ ColumnsInv' /\ Aged' /\ OncePerRound' /\ LimitsCover'
    BY <2>1, <2>2
       DEF TrendInv, WaitingInv, ColumnsInv, Aged, OncePerRound, LimitsCover, Cell, axes
  <2> QED
    BY <2>3, <2>4 DEF TrendInv
<1> QED
  BY <1>1, <1>2, <1>3, <1>4, <1>5, <1>6, <1>7, <1>8, <1>9, <1>10 DEF Next

\* Every state a trend reaches satisfies the inductive invariant.
THEOREM TrendInvariant == Spec => []TrendInv
<1>1. Init => TrendInv
  BY TrendInit
<1>2. TrendInv /\ [Next]_vars => TrendInv'
  BY TrendStep
<1> QED
  BY <1>1, <1>2, PTL DEF Spec

\* The indices of the ring buffers stay inside them, the limits stay in order.
THEOREM TrendTypes == Spec => []TypeOK
<1>1. TrendInv => TypeOK
  BY DEF TrendInv, ContentsInv
<1> QED
  BY <1>1, TrendInvariant, PTL

\* redraw_graph() finds a value for every time of every line and a graph for
\* every line, whatever the user adds, removes, resizes and restores.
THEOREM AlwaysRedrawable == Spec => []Redrawable
<1>1. ASSUME TrendInv PROVE Redrawable
  <2>1. \A k \in Lines : data[k] \in RingLines(Len(timestamps))
    BY <1>1, Contents DEF TrendInv
  <2> QED
    BY <1>1, <2>1 DEF TrendInv, ContentsInv, Redrawable, RingLines
<1> QED
  BY <1>1, TrendInvariant, PTL

\* A round of polling adds one column at most, whichever of its polls fail, as
\* long as the lines stay the same during it.
THEOREM OneColumnPerRound == Spec => []OncePerRound
<1>1. TrendInv => OncePerRound
  BY DEF TrendInv
<1> QED
  BY <1>1, TrendInvariant, PTL

\* A reading on display is as old as its column, but for one round for each
\* poll that failed.
THEOREM ReadingsAge == Spec => []Aged
<1>1. TrendInv => Aged
  BY DEF TrendInv
<1> QED
  BY <1>1, TrendInvariant, PTL

\* The vertical axis covers everything recorded since its limits were set.
THEOREM AxisCovers == Spec => []LimitsCover
<1>1. TrendInv => LimitsCover
  BY DEF TrendInv
<1> QED
  BY <1>1, TrendInvariant, PTL

-----------------------------------------------------------------------------
(* What a session restores.                                                *)

\* A record of a saved line is its three fields.
LEMMA SavedLineFields ==
    ASSUME NEW saved \in SavedLines
    PROVE  saved = [mult |-> saved.mult, offset |-> saved.offset, signed |-> saved.signed]
BY DEF SavedLines

LEMMA LoadTimerRestores ==
    ASSUME TrendInv, LoadTimer
    PROVE  save_configuration' = file
<1> DEFINE lines == [k \in DOMAIN file.lines |->
                        configure(TrendLine(file.points), file.lines[k].mult,
                                  file.lines[k].offset, file.lines[k].signed)]
<1>1. /\ pending # Nothing /\ UNCHANGED <<timestamps, fixed_limits, miny, maxy, file>>
      /\ data' = [k \in DOMAIN pending[1] \cup Lines |->
                    IF k \in DOMAIN pending[1] THEN pending[1][k] ELSE data[k]]
  BY DEF LoadTimer, add_trend, Lines, axes
<1>2. /\ SavedTrend(file) /\ Lines = {} /\ pending[1] = lines
      /\ Len(timestamps) = file.points
      /\ fixed_limits = file.fixed /\ miny = file.min /\ maxy = file.max
  BY <1>1 DEF TrendInv, PendingInv, ContentsInv
<1>3. data' = [k \in DOMAIN file.lines |-> lines[k]]
  BY <1>1, <1>2
<1>4. \A k \in DOMAIN file.lines :
        /\ data'[k].mult = file.lines[k].mult /\ data'[k].offset = file.lines[k].offset
        /\ data'[k].signed = file.lines[k].signed
  BY <1>1, <1>3, WaitingLines
<1> HIDE DEF lines
<1>5. [k \in DOMAIN data' |->
          [mult |-> data'[k].mult, offset |-> data'[k].offset, signed |-> data'[k].signed]]
        = file.lines
  <2>1. /\ file.lines \in [DOMAIN file.lines -> SavedLines] /\ DOMAIN data' = DOMAIN file.lines
    BY <1>2, <1>3 DEF SavedTrend
  <2>2. ASSUME NEW k \in DOMAIN file.lines
        PROVE  [mult |-> data'[k].mult, offset |-> data'[k].offset, signed |-> data'[k].signed]
                 = file.lines[k]
    <3>1. file.lines[k] \in SavedLines
      BY <2>1
    <3> QED
      BY <1>4, <3>1, SavedLineFields
  <2> DEFINE saved == file.lines
  <2> HIDE DEF saved
  <2>3. /\ saved = [k \in DOMAIN saved |-> saved[k]]
        /\ \A k \in DOMAIN saved :
              [mult |-> data'[k].mult, offset |-> data'[k].offset, signed |-> data'[k].signed]
                = saved[k]
        /\ DOMAIN data' = DOMAIN saved
    BY <2>1, <2>2 DEF saved
  <2>4. [k \in DOMAIN saved |->
          [mult |-> data'[k].mult, offset |-> data'[k].offset, signed |-> data'[k].signed]]
        = saved
    BY <2>3
  <2> QED
    BY <2>3, <2>4 DEF saved
<1>6. save_configuration' =
        [points |-> file.points, fixed |-> file.fixed, min |-> file.min, max |-> file.max,
         lines |-> file.lines]
  BY <1>1, <1>2, <1>5 DEF save_configuration
<1> QED
  BY <1>2, <1>6 DEF SavedTrend

\* The window a session restores would be saved alike.
THEOREM SessionsRestoreAlike == Spec => RestoresAlike
<1> DEFINE Restored == pending # Nothing /\ pending' = Nothing => save_configuration' = file
<1>1. ASSUME TrendInv, [Next]_vars
      PROVE  [Restored]_vars
  <2>1. CASE LoadTimer
    BY <1>1, <2>1, LoadTimerRestores
  <2>2. CASE load_configuration
    BY <2>2 DEF load_configuration, Click, Nothing
  <2>3. CASE UNCHANGED vars
    BY <2>3
  <2>4. CASE ~LoadTimer /\ ~load_configuration /\ ~UNCHANGED vars
    <3>1. pending' = pending
      BY <1>1, <2>4
         DEF Next, Value, Fails, DeleteLine, AddLine, ConfigureLine, OpenConfigure,
             CancelConfigure, AcceptConfigure, SaveSession
    <3> QED
      BY <3>1
  <2> QED
    BY <2>1, <2>2, <2>3, <2>4
<1>2. TrendInv /\ [Next]_vars => [Restored]_vars
  BY <1>1
<1> QED
  BY <1>2, TrendInvariant, PTL DEF Spec, RestoresAlike

-----------------------------------------------------------------------------
(* The ring buffers implement the plain lists of TrendHistory.             *)

Shown == [k \in Lines |-> [i \in Columns |-> Cell(k, i).round]]
Fresh == [k \in Lines |-> data[k].last_value.round]
Size == Len(timestamps)

\* A step of the window is one of the history, or none.
HistoryStep == [History!Next]_(History!historyVars)

\* What is on display and what waits, after a step that keeps the times.
LEMMA ShownKept ==
    ASSUME TrendInv, timestamps' = timestamps, Lines' = Lines, \A k \in Lines : SameLine(k)
    PROVE  Size' = Size /\ Shown' = Shown /\ Fresh' = Fresh
<1>1. Columns' = Columns
  BY DEF Columns
<1>2. \A k \in Lines, i \in Columns : Cell(k, i)' = Cell(k, i)
  BY DEF SameLine, Cell
<1>3. Size' = Size /\ Fresh' = Fresh
  BY DEF SameLine, Fresh, Size
<1> QED
  BY <1>1, <1>2, <1>3 DEF Shown

LEMMA StutterSteps ==
    ASSUME Size' = Size, Shown' = Shown, Fresh' = Fresh
    PROVE  HistoryStep
BY DEF HistoryStep, History!historyVars, Size, Shown, Fresh

LEMMA HistoryInit ==
    ASSUME Init
    PROVE  History!Init
<1> DEFINE n == InitialPoints
           new == NewTimestamps(n)
<1>1. PICK lines \in SUBSET Keys : data = [k \in lines |-> TrendLine(n)]
  BY DEF Init
<1>2. timestamps = new
  BY DEF Init
<1>3. new \in Seq(Int) /\ Len(new) = n /\ n \in Nat \ {0}
  BY NewTimes
<1> HIDE DEF n, new
<1>4. Columns = 1..n /\ Lines = lines /\ Size = n
  BY <1>1, <1>2, <1>3, LenProperties DEF Columns, Lines, Size
<1>5. \A k \in lines, i \in 1..n : Cell(k, i).round = 0 /\ data[k].last_value.round = 0
  <2>1. \A i \in 1..n : i - 1 \in 0..(n - 1)
    BY <1>3
  <2>2. TrendLine(n).last_value.round = 0
    BY DEF TrendLine, NoValue
  <2>3. \A i \in 0..(n - 1) : At(TrendLine(n), i).round = 0
    BY <1>3, NewLine DEF NoValue
  <2> QED
    BY <1>1, <2>1, <2>2, <2>3 DEF Cell
<1>6. /\ Shown = [k \in lines |-> [i \in 1..n |-> 0]] /\ Fresh = [k \in lines |-> 0]
  <2>1. 1 \in 1..n
    BY <1>3
  <2> QED
    BY <1>4, <1>5, <2>1 DEF Shown, Fresh
<1> QED
  BY <1>4, <1>6 DEF History!Init, History!Padded, History!Padding, Shown, Fresh, Size, n

\* A value that waits for others.
LEMMA StoredReads ==
    ASSUME TrendInv, Value, Stored
    PROVE  HistoryStep
<1> PICK key \in Keys, r \in 1..MaxRounds : key = position /\ r = round
  <2>1. position \in Keys /\ round \in 1..MaxRounds
    BY ValueOutcome, Contents DEF TrendInv
  <2> QED
    BY <2>1
<1>1. data' = Now /\ timestamps' = timestamps /\ key \in Lines
  BY DEF Stored
<1>2. /\ DOMAIN Now = Lines /\ Now[key].last_value.round = r
      /\ \A k \in Lines : \A i : At(Now[k], i) = At(data[k], i)
      /\ \A k \in Lines : k # key => Now[k] = data[k]
  BY <1>1, NowLines DEF TrendInv
<1>3. Lines' = Lines /\ Columns' = Columns /\ Size' = Size
  BY <1>1, <1>2 DEF Lines, Columns, Size
<1>4. Shown' = Shown
  BY <1>1, <1>2, <1>3 DEF Shown, Cell
<1>5. Fresh' = [Fresh EXCEPT ![key] = r]
  BY <1>1, <1>2, <1>3 DEF Fresh
<1>6. 0 \in {[Fresh EXCEPT ![key] = r][k] : k \in Lines}
  <2>1. PICK waits \in Lines : waits # key /\ ~HasValue(data[waits])
    BY DEF Stored
  <2>2. Fresh[waits] = 0
    BY <2>1, Contents DEF TrendInv, Fresh
  <2> QED
    BY <2>1, <2>2 DEF Fresh
<1>7. History!Read(key, r)
  <2>1. DOMAIN Shown = Lines /\ DOMAIN [Fresh EXCEPT ![key] = r] = Lines
    BY DEF Shown, Fresh
  <2> QED
    BY <1>1, <1>3, <1>4, <1>5, <1>6, <2>1
       DEF History!Read, History!Padding, History!Range, Shown, Fresh, Size
<1> QED
  BY <1>1, <1>7 DEF HistoryStep, History!Next

\* A value that all lines have waited for.
LEMMA ScannedReads ==
    ASSUME TrendInv, Value, Scanned
    PROVE  HistoryStep
<1> DEFINE n == Len(timestamps)
<1> PICK key \in Keys, r \in 1..MaxRounds : key = position /\ r = round
  <2>1. position \in Keys /\ round \in 1..MaxRounds
    BY ValueOutcome, Contents DEF TrendInv
  <2> QED
    BY <2>1
<1>1. /\ key \in Lines /\ \A k \in Lines : k # key => HasValue(data[k])
      /\ data' = [k \in Lines |-> update(Now[k])]
  BY DEF Scanned
<1>2. /\ Columns = 1..n /\ Columns' = 1..n /\ n \in Nat \ {0} /\ Len(timestamps') = n
      /\ Lines' = Lines /\ data' \in [Lines -> RingLines(n)]
      /\ \A k \in Lines : ~HasValue(data'[k])
  BY ScannedColumns
<1>3. \A k \in Lines :
         /\ \A i \in 1..(n - 1) : Cell(k, i)' = Cell(k, i + 1)
         /\ \A i \in 1..n : i = n => Cell(k, i)' =
               [round |-> Now[k].last_value.round, v |-> Scaled(Now[k])]
  BY ScannedColumns
<1>4. /\ \A k \in Lines : k # key => Now[k] = data[k]
      /\ Now[key].last_value.round = r
  BY <1>1, NowLines DEF TrendInv
<1>5. \A k \in Lines : /\ data[k].last_value.round \in Nat
                       /\ HasValue(data[k]) <=> data[k].last_value.round # 0
  BY Contents DEF TrendInv
<1>6. \A k \in Lines, i \in 1..n : Cell(k, i).round \in Int
  BY <1>2, Contents DEF TrendInv, Readings
<1>7. Size' = Size
  BY <1>2 DEF Size, n
<1> HIDE DEF n
<1> DEFINE now == [Fresh EXCEPT ![key] = r]
<1>8. \A k \in Lines : now[k] = Now[k].last_value.round /\ now[k] \in Int /\ now[k] # 0
  BY <1>1, <1>4, <1>5 DEF Fresh
<1>9. DOMAIN now = Lines /\ DOMAIN Shown = Lines
  BY DEF Fresh, Shown
<1> HIDE DEF now
<1>10. Fresh' = [k \in DOMAIN now |-> 0]
  <2>1. \A k \in Lines : data'[k].last_value.round = 0
    BY <1>2 DEF HasValue, NoValue
  <2> QED
    BY <1>2, <1>9, <2>1 DEF Fresh
<1>11. ASSUME NEW k \in Lines
       PROVE  Shown'[k] = Append(Tail(Shown[k]), now[k])
  <2> DEFINE old == [i \in 1..n |-> Cell(k, i).round]
             moved == Append(Tail(old), now[k])
  <2>1. Shown[k] = old /\ Shown'[k] = [i \in 1..n |-> Cell(k, i)'.round]
    BY <1>2 DEF Shown
  <2>2. old \in Seq(Int) /\ Len(old) = n /\ old # <<>>
    <3>1. old \in [1..n -> Int] /\ DOMAIN old = 1..n
      BY <1>6
    <3>2. old \in Seq(Int)
      BY <1>2, <3>1, FunctionIsSeq
    <3>3. Len(old) = n
      BY <1>2, <3>1, <3>2, LenProperties
    <3> QED
      BY <1>2, <3>2, <3>3, EmptySeq
  <2>3. \A i \in 1..n : old[i] = Cell(k, i).round
    OBVIOUS
  <2> HIDE DEF old
  <2>4. /\ moved \in Seq(Int) /\ Len(moved) = n
        /\ \A i \in 1..(n - 1) : moved[i] = old[i + 1]
        /\ moved[n] = now[k]
    BY <1>8, <2>2, NextTimes
  <2> HIDE DEF moved
  <2>5. DOMAIN moved = 1..n
    BY <2>4, LenProperties
  <2>6. ASSUME NEW i \in 1..n PROVE Cell(k, i)'.round = moved[i]
    <3>1. CASE i = n
      BY <1>3, <1>8, <2>4, <3>1
    <3>2. CASE i # n
      <4>1. i \in 1..(n - 1) /\ i + 1 \in 1..n
        BY <1>2, <3>2
      <4> QED
        BY <1>3, <2>3, <2>4, <4>1
    <3> QED
      BY <3>1, <3>2
  <2>7. moved = [i \in 1..n |-> Cell(k, i)'.round]
    <3>1. moved = [i \in 1..n |-> moved[i]]
      BY <2>4, <2>5, SeqDef
    <3> QED
      BY <2>6, <3>1
  <2> QED
    BY <2>1, <2>7 DEF moved
<1>12. Shown' = [k \in DOMAIN Shown |-> Append(Tail(Shown[k]), now[k])]
  <2>1. Shown' = [k \in Lines |-> Shown'[k]]
    BY <1>2 DEF Shown
  <2> QED
    BY <1>9, <1>11, <2>1
<1>13. 0 \notin {now[k] : k \in DOMAIN now}
  BY <1>8, <1>9
<1>14. History!Read(key, r)
  BY <1>1, <1>7, <1>9, <1>10, <1>12, <1>13
     DEF History!Read, History!Padding, History!Range, Shown, Fresh, Size, now
<1> QED
  BY <1>14 DEF HistoryStep, History!Next

\* New lines show nothing, those that are there what they did.
LEMMA AddsLines ==
    ASSUME TrendInv, NEW lines \in SUBSET Keys, lines # {}, lines \cap Lines = {},
           timestamps' = timestamps, Lines' = lines \cup Lines,
           \A k \in lines : FreshLine(k), \A k \in Lines : SameLine(k),
           ContentsInv'
    PROVE  HistoryStep
<1>1. Columns' = Columns /\ Columns = 1..Size /\ Size' = Size
  BY Contents DEF TrendInv, Columns, Size
<1>2. /\ \A k \in lines, i \in Columns : Cell(k, i)'.round = 0
      /\ \A k \in Lines, i \in Columns : Cell(k, i)'.round = Cell(k, i).round
  BY <1>1 DEF FreshLine, SameLine, Cell
<1>3. /\ \A k \in lines : data'[k].last_value.round = 0
      /\ \A k \in Lines : data'[k].last_value.round = data[k].last_value.round
  BY DEF FreshLine, SameLine, HasValue, NoValue
<1>4. Shown' = [k \in lines \cup Lines |->
                  IF k \in lines THEN [i \in 1..Size |-> 0] ELSE Shown[k]]
  BY <1>1, <1>2 DEF Shown
<1>5. Fresh' = [k \in lines \cup Lines |-> IF k \in lines THEN 0 ELSE Fresh[k]]
  BY <1>3 DEF Fresh
<1>6. DOMAIN Shown = Lines
  BY DEF Shown
<1>7. History!Add(lines)
  BY <1>1, <1>4, <1>5, <1>6 DEF History!Add, History!Padding, Shown, Fresh, Size
<1> QED
  BY <1>7 DEF HistoryStep, History!Next

\* The line a user adds.
LEMMA AddLineAdds ==
    ASSUME TrendInv, NEW key \in Keys, NEW choice \in LineChoices, AddLine(key, choice)
    PROVE  HistoryStep
<1> DEFINE n == Len(timestamps)
           line == configure(TrendLine(n), choice.mult, choice.offset, choice.signed)
<1>1. n \in Nat \ {0} /\ \A i \in Columns : i - 1 \in 0..(n - 1)
  BY Contents, SMTT(30) DEF TrendInv
<1>2. choice.mult \in Int /\ choice.offset \in Int /\ choice.signed \in BOOLEAN
  OBVIOUS
<1>3. /\ ~HasValue(line) /\ \A i \in 0..(n - 1) : At(line, i).round = 0
  BY <1>1, <1>2, NewLine, ConfigureLineKeeps DEF HasValue, NoValue
<1>4. /\ data' = [k \in {key} \cup Lines |-> IF k \in {key} THEN line ELSE data[k]]
      /\ timestamps' = timestamps /\ key \notin Lines
  BY DEF AddLine, add_trend, Lines
<1> HIDE DEF line, n
<1>5. /\ Lines' = {key} \cup Lines /\ FreshLine(key) /\ \A k \in Lines : SameLine(k)
  BY <1>1, <1>3, <1>4 DEF Lines, FreshLine, SameLine
<1> DEFINE lines == {key}
<1>6. /\ lines \in SUBSET Keys /\ lines # {} /\ lines \cap Lines = {}
      /\ Lines' = lines \cup Lines /\ \A k \in lines : FreshLine(k)
  BY <1>4, <1>5
<1>7. ContentsInv'
  BY AddLineKeeps DEF TrendInv
<1> HIDE DEF lines
<1> QED
  BY <1>4, <1>5, <1>6, <1>7, AddsLines

\* The lines a session restores, if there are any.
LEMMA LoadTimerAdds ==
    ASSUME TrendInv, LoadTimer
    PROVE  HistoryStep
<1> PICK lines \in SUBSET Keys : lines = DOMAIN file.lines
  BY DEF LoadTimer, TrendInv, PendingInv, ContentsInv, SavedTrend
<1>1. /\ Lines = {} /\ pending # Nothing
      /\ pending[1] = [k \in lines |->
                          configure(TrendLine(file.points), file.lines[k].mult,
                                    file.lines[k].offset, file.lines[k].signed)]
  BY DEF LoadTimer, TrendInv, PendingInv
<1>2. data' = [k \in lines |-> pending[1][k]] /\ timestamps' = timestamps
  BY <1>1 DEF LoadTimer, add_trend, Lines
<1>3. \A k \in lines : FreshLine(k)
  BY <1>1, <1>2, WaitingLines DEF FreshLine
<1>4. Lines' = lines
  BY <1>2 DEF Lines
<1>5. CASE lines = {}
  BY <1>1, <1>2, <1>4, <1>5, ShownKept, StutterSteps
<1>6. CASE lines # {}
  BY <1>1, <1>2, <1>3, <1>4, <1>6, LoadTimerKeeps, AddsLines DEF TrendInv
<1> QED
  BY <1>5, <1>6

LEMMA DeleteLineRemoves ==
    ASSUME TrendInv, NEW key \in Keys, DeleteLine(key)
    PROVE  HistoryStep
<1>1. /\ key \in Lines /\ data' = [k \in Lines \ {key} |-> data[k]]
      /\ timestamps' = timestamps
  BY DEF DeleteLine, remove_trend, Restrict, Lines
<1>2. /\ Lines' = Lines \ {key} /\ Columns' = Columns /\ Size' = Size
  BY <1>1 DEF Lines, Columns, Size
<1>3. /\ Shown' = [k \in Lines \ {key} |-> Shown[k]]
      /\ Fresh' = [k \in Lines \ {key} |-> Fresh[k]]
      /\ DOMAIN Shown = Lines
  BY <1>1, <1>2 DEF Shown, Fresh, Cell
<1>4. History!Remove(key)
  BY <1>1, <1>2, <1>3 DEF History!Remove, History!Restrict, Shown, Fresh, Size
<1> QED
  BY <1>4 DEF HistoryStep, History!Next

LEMMA ConfigureLineStutters ==
    ASSUME TrendInv, NEW key \in Keys, NEW choice \in LineChoices, ConfigureLine(key, choice)
    PROVE  HistoryStep
<1> DEFINE line == configure(data[key], choice.mult, choice.offset, choice.signed)
<1>1. /\ key \in Lines /\ data' = [data EXCEPT ![key] = line] /\ timestamps' = timestamps
      /\ data \in [Lines -> RingLines(Len(timestamps))]
  BY DEF ConfigureLine, Lines, TrendInv, ContentsInv
<1>2. choice.mult \in Int /\ choice.offset \in Int /\ choice.signed \in BOOLEAN
  OBVIOUS
<1>3. line.last_value = data[key].last_value /\ \A i : At(line, i) = At(data[key], i)
  BY <1>1, <1>2, Contents, ConfigureLineKeeps DEF TrendInv
<1> HIDE DEF line
<1>4. Lines' = Lines /\ \A k \in Lines : SameLine(k)
  BY <1>1, <1>3 DEF Lines, SameLine
<1> QED
  BY <1>1, <1>4, ShownKept, StutterSteps

\* Another history forgets what was shown, and keeps what waits.
LEMMA AcceptConfigureResizes ==
    ASSUME TrendInv, NEW limits \in LimitChoices \cup {dialog}, NEW points \in PointChoices,
           NEW fixed \in BOOLEAN, AcceptConfigure(limits, points, fixed)
    PROVE  HistoryStep
<1>1. /\ points >= MinPoints
      /\ IF points = Len(timestamps) THEN UNCHANGED <<data, timestamps>>
         ELSE /\ timestamps' = ResizedTimes(timestamps, points)
              /\ data' = [k \in Lines |-> resize(data[k], points)]
  BY DEF AcceptConfigure, resize_history, Lines
<1>2. CASE points = Len(timestamps)
  <2>1. timestamps' = timestamps /\ Lines' = Lines /\ \A k \in Lines : SameLine(k)
    BY <1>1, <1>2 DEF Lines, SameLine
  <2> QED
    BY <2>1, ShownKept, StutterSteps
<1>3. CASE points # Len(timestamps)
  <2>1. points \in Nat \ {0} /\ points \in PointChoices \cup {InitialPoints}
    BY <1>1
  <2>2. /\ timestamps \in Seq(Int) /\ timestamps # <<>> /\ Len(timestamps) \in Nat \ {0}
        /\ \A k \in Lines : data[k] \in RingLines(Len(timestamps))
    BY Contents DEF TrendInv
  <2>3. timestamps' \in Seq(Int) /\ Len(timestamps') = points
    BY <1>1, <1>3, <2>1, <2>2, ResizedTimesShape
  <2>4. Columns' = 1..points /\ Size' = points
    BY <2>3, LenProperties DEF Columns, Size
  <2>5. Lines' = Lines /\ \A k \in Lines : data'[k] = resize(data[k], points)
    BY <1>1, <1>3 DEF Lines
  <2>6. \A k \in Lines : /\ data'[k].last_value = data[k].last_value
                         /\ \A i \in 0..(points - 1) : At(data'[k], i).round = 0
    <3> SUFFICES ASSUME NEW k \in Lines
                 PROVE  /\ resize(data[k], points).last_value = data[k].last_value
                        /\ \A i \in 0..(points - 1) : At(resize(data[k], points), i).round = 0
      BY <2>5
    <3> QED
      BY <2>1, <2>2, ResizeClears
  <2>7. \A k \in Lines, i \in 1..points : Cell(k, i)'.round = 0
    <3>1. \A i \in 1..points : i - 1 \in 0..(points - 1)
      BY <2>1
    <3> QED
      BY <2>6, <3>1 DEF Cell
  <2>8. Shown' = [k \in Lines |-> [i \in 1..points |-> 0]] /\ Fresh' = Fresh /\ DOMAIN Shown = Lines
    BY <2>4, <2>5, <2>6, <2>7 DEF Shown, Fresh
  <2>9. Shown' = History!Padded(DOMAIN Shown, points)
    BY <2>8 DEF History!Padded, History!Padding
  <2>10. History!Resize(points)
    BY <2>4, <2>8, <2>9 DEF History!Resize, Shown, Fresh, Size
  <2> QED
    BY <2>1, <2>10 DEF HistoryStep, History!Next
<1> QED
  BY <1>2, <1>3

LEMMA load_configurationReopens ==
    ASSUME TrendInv, load_configuration
    PROVE  HistoryStep
<1> DEFINE new == NewTimestamps(InitialPoints)
<1> PICK points \in PointChoices \cup {InitialPoints} : points = file.points /\ points \in Nat \ {0}
  BY SizesArePositive DEF load_configuration, TrendInv, ContentsInv, SavedTrend, Sizes
<1>1. timestamps' = ResizedTimes(new, points) /\ data' = <<>>
  BY DEF load_configuration
<1>2. new \in Seq(Int) /\ new # <<>>
  <2>1. new \in Seq(Int) /\ Len(new) = InitialPoints /\ InitialPoints \in Nat \ {0}
    BY NewTimes
  <2> QED
    BY <2>1, EmptySeq
<1> HIDE DEF new
<1>3. Size' = points
  BY <1>1, <1>2, ResizedTimesShape DEF Size
<1>4. Lines' = {}
  BY <1>1 DEF Lines
<1>5. Shown' = <<>> /\ Fresh' = <<>>
  BY <1>4 DEF Shown, Fresh
<1>6. History!Reopen(points)
  BY <1>3, <1>5 DEF History!Reopen, Shown, Fresh, Size
<1> QED
  BY <1>6 DEF HistoryStep, History!Next

LEMMA HistorySteps ==
    ASSUME TrendInv, [Next]_vars
    PROVE  HistoryStep
<1>1. CASE Value /\ Ignored
  <2>1. UNCHANGED <<data, timestamps>>
    BY <1>1 DEF Ignored
  <2>2. Lines' = Lines /\ \A k \in Lines : SameLine(k)
    BY <2>1 DEF Lines, SameLine
  <2> QED
    BY <2>1, <2>2, ShownKept, StutterSteps
<1>2. CASE Value
  BY <1>1, <1>2, ValueOutcome, StoredReads, ScannedReads DEF TrendInv
<1>3. ASSUME NEW key \in Keys, DeleteLine(key) PROVE HistoryStep
  BY <1>3, DeleteLineRemoves
<1>4. ASSUME NEW key \in Keys, NEW choice \in LineChoices, AddLine(key, choice) PROVE HistoryStep
  BY <1>4, AddLineAdds
<1>5. ASSUME NEW key \in Keys, NEW choice \in LineChoices, ConfigureLine(key, choice)
      PROVE  HistoryStep
  BY <1>5, ConfigureLineStutters
<1>6. CASE Fails \/ OpenConfigure \/ CancelConfigure \/ SaveSession \/ UNCHANGED vars
  <2>1. UNCHANGED <<data, timestamps>>
    BY <1>6 DEF Fails, OpenConfigure, CancelConfigure, SaveSession, vars
  <2>2. Lines' = Lines /\ \A k \in Lines : SameLine(k)
    BY <2>1 DEF Lines, SameLine
  <2> QED
    BY <2>1, <2>2, ShownKept, StutterSteps
<1>7. ASSUME NEW limits \in LimitChoices \cup {dialog}, NEW points \in PointChoices,
             NEW fixed \in BOOLEAN, AcceptConfigure(limits, points, fixed)
      PROVE  HistoryStep
  BY <1>7, AcceptConfigureResizes
<1>8. CASE load_configuration
  BY <1>8, load_configurationReopens
<1>9. CASE LoadTimer
  BY <1>9, LoadTimerAdds
<1> QED
  BY <1>2, <1>3, <1>4, <1>5, <1>6, <1>7, <1>8, <1>9 DEF Next

\* The lines' ring buffers show what plain lists of their readings would: what
\* is on display moves on for all lines at once, by the readings that waited.
THEOREM TrendImplementsHistory == Spec => Implements
<1>1. Init => History!Init
  BY HistoryInit
<1>2. TrendInv /\ [Next]_vars => [History!Next]_(History!historyVars)
  BY HistorySteps DEF HistoryStep
<1> QED
  BY <1>1, <1>2, TrendInvariant, PTL DEF Spec, History!Spec, Implements

=============================================================================
