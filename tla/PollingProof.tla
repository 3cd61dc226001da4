---------------------------- MODULE PollingProof ----------------------------
(***************************************************************************)
(* Proofs about the polling core, for any windows, any bounds and any      *)
(* user: its types, that no deleted window is referred to, and that the    *)
(* scheduler only rests when its queues are empty.                         *)
(***************************************************************************)
EXTENDS Polling, TLAPS, SequenceTheorems, FiniteSetTheorems

USE WindowsAssumption, PluginAssumption, BoundsAssumption

-----------------------------------------------------------------------------
(* The data operators.                                                     *)

\* A sequence without positions is empty.
LEMMA EmptyDomain ==
    ASSUME NEW S, NEW s \in Seq(S), DOMAIN s = {}
    PROVE  s = <<>>
<1>1. Len(s) \in Nat /\ DOMAIN s = 1..Len(s)
  BY LenProperties
<1>2. Len(s) = 0
  BY <1>1
<1> QED
  BY <1>2, EmptySeq

\* A function on an initial segment of the naturals is a sequence.
LEMMA FunctionIsSeq ==
    ASSUME NEW S, NEW n \in Nat, NEW f \in [1..n -> S]
    PROVE  f \in Seq(S)
BY SeqDef

\* A walk over a set of windows enumerates windows of that set.
LEMMA OrdersType ==
    ASSUME NEW W \in SUBSET Windows, NEW order \in Orders(W)
    PROVE  order \in Seq(W)
<1>1. IsFiniteSet(W)
  BY FS_Subset, BoundsAssumption
<1>2. Cardinality(W) \in Nat
  BY <1>1, FS_CardinalityType
<1> QED
  BY <1>2, FunctionIsSeq DEF Orders

\* What polling_on_complete() enqueues are windows of the set it walks.
LEMMA RefillsType ==
    ASSUME NEW W \in SUBSET Windows, NEW refill \in Refills(W)
    PROVE  refill \in Seq(W)
<1>1. CASE connected /\ continuous
  BY <1>1, OrdersType DEF Refills
<1>2. CASE ~(connected /\ continuous)
  BY <1>2, EmptySeq DEF Refills
<1> QED
  BY <1>1, <1>2

\* Disowning a window leaves references to the other windows only.
LEMMA DisownedWrites ==
    ASSUME NEW W \in SUBSET Windows, NEW w \in W, NEW q \in Seq(Writes(W))
    PROVE  /\ Disowned(q, w) \in Seq(Writes(W \ {w}))
           /\ q = <<>> => Disowned(q, w) = <<>>
<1>1. \A i \in DOMAIN q : Disowned(q, w)[i] \in Writes(W \ {w})
  <2> SUFFICES ASSUME NEW i \in DOMAIN q
               PROVE  Disowned(q, w)[i] \in Writes(W \ {w})
    OBVIOUS
  <2>1. q[i] \in Writes(W)
    BY ElementOfSeq, LenProperties
  <2> QED
    BY <2>1 DEF Disowned, Writes
<1>2. Disowned(q, w) \in [1..Len(q) -> Writes(W \ {w})]
  BY <1>1, LenProperties DEF Disowned
<1>3. Len(q) \in Nat
  BY LenProperties
<1>4. Disowned(q, w) \in Seq(Writes(W \ {w}))
  BY <1>2, <1>3, FunctionIsSeq
<1>5. ASSUME q = <<>> PROVE Disowned(q, w) = <<>>
  BY <1>4, <1>5, EmptyDomain DEF Disowned
<1> QED
  BY <1>4, <1>5

LEMMA DisownedSequences ==
    ASSUME NEW W \in SUBSET Windows, NEW w \in W, NEW q \in Seq(MetaSequences(W))
    PROVE  /\ Disowned(q, w) \in Seq(MetaSequences(W \ {w}))
           /\ q = <<>> => Disowned(q, w) = <<>>
<1>1. \A i \in DOMAIN q : Disowned(q, w)[i] \in MetaSequences(W \ {w})
  <2> SUFFICES ASSUME NEW i \in DOMAIN q
               PROVE  Disowned(q, w)[i] \in MetaSequences(W \ {w})
    OBVIOUS
  <2>1. q[i] \in MetaSequences(W)
    BY ElementOfSeq, LenProperties
  <2> QED
    BY <2>1 DEF Disowned, MetaSequences
<1>2. Disowned(q, w) \in [1..Len(q) -> MetaSequences(W \ {w})]
  BY <1>1, LenProperties DEF Disowned
<1>3. Len(q) \in Nat
  BY LenProperties
<1>4. Disowned(q, w) \in Seq(MetaSequences(W \ {w}))
  BY <1>2, <1>3, FunctionIsSeq
<1>5. ASSUME q = <<>> PROVE Disowned(q, w) = <<>>
  BY <1>4, <1>5, EmptyDomain DEF Disowned
<1> QED
  BY <1>4, <1>5

\* The read queue without the positions of w.
LEMMA KeptType ==
    ASSUME NEW W \in SUBSET Windows, NEW w, NEW q \in Seq(W),
           NEW kept \in Increasing({i \in DOMAIN q : q[i] # w})
    PROVE  /\ Entries(q, kept) \in Seq(W \ {w})
           /\ q = <<>> => Entries(q, kept) = <<>>
<1> DEFINE K == {i \in DOMAIN q : q[i] # w}
           rest == Entries(q, kept)
<1>1. Len(q) \in Nat /\ DOMAIN q = 1..Len(q)
  BY LenProperties
<1>2. IsFiniteSet(K)
  <2>1. IsFiniteSet(1..Len(q))
    BY <1>1, FS_Interval
  <2> QED
    BY <1>1, <2>1, FS_Subset
<1>3. Cardinality(K) \in Nat
  BY <1>2, FS_CardinalityType
<1>4. kept \in [1..Cardinality(K) -> K]
  BY DEF Increasing
<1>5. \A i \in 1..Cardinality(K) : q[kept[i]] \in W \ {w}
  <2> TAKE i \in 1..Cardinality(K)
  <2>1. kept[i] \in 1..Len(q) /\ q[kept[i]] # w
    BY <1>1, <1>4
  <2> QED
    BY <2>1, ElementOfSeq
<1>6. rest \in [1..Cardinality(K) -> W \ {w}]
  BY <1>4, <1>5 DEF Entries
<1>7. rest \in Seq(W \ {w})
  BY <1>3, <1>6, FunctionIsSeq
<1>8. ASSUME q = <<>> PROVE rest = <<>>
  <2>1. K = {}
    BY <1>8
  <2>2. Cardinality(K) = 0
    BY <2>1, FS_EmptySet
  <2>3. DOMAIN rest = {}
    BY <1>4, <2>2 DEF Entries
  <2> QED
    BY <1>7, <2>3, EmptyDomain
<1> QED
  BY <1>7, <1>8

-----------------------------------------------------------------------------
(* figure_next().                                                          *)

\* A request handed over leaves the thread's fields well typed.
LEMMA modbus_requestType ==
    ASSUME EngineTypeOK, NEW r \in Requests, modbus_request(r)
    PROVE  EngineTypeOK'
BY DEF EngineTypeOK, modbus_request, Notified, WorkerStates, Contents

\* Whatever is queued for windows of W, figure_next() picks something for a
\* window of W and keeps the rest; it rests only when nothing is queued.
LEMMA pick_nextType ==
    ASSUME EngineTypeOK,
           NEW W \in SUBSET Windows,
           NEW wq \in Seq(Writes(W)), NEW mq \in Seq(MetaSequences(W)), NEW sq \in Seq(W),
           NEW refill \in Seq(W), NEW after \in Seq(W),
           pick_next(wq, mq, sq, refill, after)
    PROVE  /\ EngineTypeOK'
           /\ write_requests' \in Seq(Writes(W))
           /\ meta_requests' \in Seq(MetaSequences(W))
           /\ standard_requests' \in Seq(W)
           /\ current_request' \in W \cup {NoWindow}
           /\ current_action' \in Actions
           /\ active' \in BOOLEAN
           /\ ~active' => QueuesEmpty'
<1> USE DEF Actions
<1>1. sq \o after \in Seq(W)
  BY ConcatProperties
<1>2. CASE poll_write_request(wq, mq, sq \o after)
  <2>1. Head(wq) \in Writes(W) /\ Tail(wq) \in Seq(Writes(W))
    BY <1>2, HeadTailProperties DEF poll_write_request
  <2>2. [kind |-> "write", win |-> Head(wq).requester, id |-> Head(wq).id] \in Requests
    BY <2>1 DEF Writes, Requests, Requesters
  <2>3. EngineTypeOK'
    BY <1>2, <2>2, modbus_requestType DEF poll_write_request
  <2>4. Head(wq).requester \in W \cup {NoWindow}
    BY <2>1 DEF Writes
  <2> QED
    BY <1>1, <1>2, <2>1, <2>3, <2>4 DEF poll_write_request
<1>3. ASSUME NEW k \in 0..Len(mq), poll_below_writes(k, mq, sq, refill, after)
      PROVE  /\ EngineTypeOK'
             /\ write_requests' \in Seq(Writes(W))
             /\ meta_requests' \in Seq(MetaSequences(W))
             /\ standard_requests' \in Seq(W)
             /\ current_request' \in W \cup {NoWindow}
             /\ current_action' \in Actions
             /\ active' \in BOOLEAN
             /\ ~active' => QueuesEmpty'
  <2> DEFINE rest == SubSeq(mq, k + 1, Len(mq))
  <2>1. rest \in Seq(MetaSequences(W))
    <3>1. Len(mq) \in Nat
      BY LenProperties
    <3>2. \A i \in k + 1 .. Len(mq) : mq[i] \in MetaSequences(W)
      BY <3>1, ElementOfSeq
    <3> QED
      BY <3>1, <3>2, SubSeqProperties
  <2> HIDE DEF rest
  <2>2. CASE poll_meta_request(rest, sq \o after)
    <3>1. Head(rest) \in MetaSequences(W) /\ rest # <<>>
      BY <2>1, <2>2, HeadTailProperties DEF poll_meta_request
    <3>2. [kind |-> "meta", win |-> Head(rest).requester, id |-> 0] \in Requests
      BY <3>1 DEF MetaSequences, Requests, Requesters
    <3>3. EngineTypeOK'
      BY <2>2, <3>2, modbus_requestType DEF poll_meta_request
    <3>4. Head(rest).requester \in W \cup {NoWindow}
      BY <3>1 DEF MetaSequences
    <3>5. [rest EXCEPT ![1].sent = TRUE] \in Seq(MetaSequences(W))
      <4>1. 1 \in 1..Len(rest)
        BY <2>1, <3>1, EmptySeq
      <4>2. rest[1] \in MetaSequences(W)
        BY <2>1, <4>1, ElementOfSeq
      <4>3. [rest[1] EXCEPT !.sent = TRUE] \in MetaSequences(W)
        BY <4>2 DEF MetaSequences
      <4> QED
        BY <2>1, <4>1, <4>3, ExceptSeq
    <3>6. <<>> \in Seq(Writes(W))
      BY EmptySeq
    <3> QED
      BY <1>1, <2>2, <3>3, <3>4, <3>5, <3>6 DEF poll_meta_request
  <2>3. CASE poll_read_request(rest, sq, refill, after)
    <3>1. Head(sq) \in W /\ Tail(sq) \in Seq(W)
      BY <2>3, HeadTailProperties DEF poll_read_request
    <3>2. [kind |-> "read", win |-> Head(sq), id |-> 0] \in Requests
      BY <3>1 DEF Requests, Requesters
    <3>3. EngineTypeOK'
      BY <2>3, <3>2, modbus_requestType DEF poll_read_request
    <3>4. (IF Tail(sq) = <<>> THEN refill ELSE Tail(sq)) \o after \in Seq(W)
      BY <3>1, ConcatProperties
    <3>5. <<>> \in Seq(Writes(W))
      BY EmptySeq
    <3> QED
      BY <2>1, <2>3, <3>1, <3>3, <3>4, <3>5 DEF poll_read_request
  <2>4. CASE nothing_to_poll
    <3>1. EngineTypeOK'
      BY <2>4 DEF nothing_to_poll, EngineTypeOK, engineVars
    <3>2. <<>> \in Seq(Writes(W)) /\ <<>> \in Seq(MetaSequences(W)) /\ <<>> \in Seq(W)
      BY EmptySeq
    <3> QED
      BY <2>4, <3>1, <3>2 DEF nothing_to_poll, QueuesEmpty
  <2> QED
    BY <1>3, <2>2, <2>3, <2>4 DEF poll_below_writes, rest
<1> QED
  BY <1>2, <1>3 DEF pick_next

-----------------------------------------------------------------------------
(* How the handlers preserve PollingInv.                                   *)

\* The types of what is neither the thread's, nor the scheduler's, nor a set of
\* windows, after a step.
FrameTypeOK ==
    /\ posted \in Seq(Events)
    /\ gui \in GuiStates
    /\ connecting \in BOOLEAN
    /\ connecting2 \in BOOLEAN
    /\ continuous \in BOOLEAN
    /\ budget \in Budgets

\* Taking the head off the posted signals leaves signals.
LEMMA PostedType ==
    ASSUME posted \in Seq(Events), posted # <<>>
    PROVE  Tail(posted) \in Seq(Events) /\ Head(posted) \in Events
BY HeadTailProperties

\* A step that leaves the scheduler and the windows alone.
LEMMA SchedulerUntouched ==
    ASSUME PollingInv, EngineTypeOK', FrameTypeOK',
           UNCHANGED <<polling, schedulerVars, connected, windowVars>>,
           gui = "figure_next" => gui' = "figure_next"
    PROVE  PollingInv'
BY DEF PollingInv, TypeOK, ThreadTypeOK, SchedulerTypeOK, FrameTypeOK, RefersOnlyTo, QueuesEmpty,
       schedulerVars, queues, windowVars, Budgets

\* A request is only appended to a queue, because another one is active.
LEMMA RequestQueued ==
    ASSUME PollingInv, FrameTypeOK', polling, active,
           write_requests' \in Seq(Writes(windows)),
           meta_requests' \in Seq(MetaSequences(windows)),
           standard_requests' \in Seq(windows),
           UNCHANGED <<polling, current_action, active, current_request, connected, windowVars,
                       engineVars>>
    PROVE  PollingInv'
<1>1. EngineTypeOK'
  BY DEF PollingInv, TypeOK, ThreadTypeOK, EngineTypeOK, engineVars
<1>2. /\ write_requests' \in Seq(Writes(Windows))
      /\ meta_requests' \in Seq(MetaSequences(Windows))
      /\ standard_requests' \in Seq(Windows)
  <2>1. windows \subseteq Windows
    BY DEF PollingInv, TypeOK
  <2>2. /\ Writes(windows) \subseteq Writes(Windows)
        /\ MetaSequences(windows) \subseteq MetaSequences(Windows)
    BY <2>1 DEF Writes, MetaSequences
  <2> QED
    BY <2>1, <2>2, SeqMonotonic
<1> QED
  BY <1>1, <1>2 DEF PollingInv, TypeOK, ThreadTypeOK, SchedulerTypeOK, FrameTypeOK, RefersOnlyTo,
                    windowVars, Budgets

\* figure_next() picked the next request.
LEMMA RequestPicked ==
    ASSUME PollingInv, FrameTypeOK', polling,
           NEW wq \in Seq(Writes(windows)), NEW mq \in Seq(MetaSequences(windows)),
           NEW sq \in Seq(windows), NEW refill \in Seq(windows), NEW after \in Seq(windows),
           pick_next(wq, mq, sq, refill, after),
           UNCHANGED <<polling, connected, windowVars>>
    PROVE  PollingInv'
<1>1. windows \in SUBSET Windows /\ EngineTypeOK
  BY DEF PollingInv, TypeOK, ThreadTypeOK
<1>2. /\ EngineTypeOK'
      /\ write_requests' \in Seq(Writes(windows))
      /\ meta_requests' \in Seq(MetaSequences(windows))
      /\ standard_requests' \in Seq(windows)
      /\ current_request' \in windows \cup {NoWindow}
      /\ current_action' \in Actions
      /\ active' \in BOOLEAN
      /\ ~active' => QueuesEmpty'
  BY <1>1, pick_nextType
<1>3. /\ write_requests' \in Seq(Writes(Windows))
      /\ meta_requests' \in Seq(MetaSequences(Windows))
      /\ standard_requests' \in Seq(Windows)
  <2>1. /\ Writes(windows) \subseteq Writes(Windows)
        /\ MetaSequences(windows) \subseteq MetaSequences(Windows)
    BY <1>1 DEF Writes, MetaSequences
  <2> QED
    BY <1>1, <1>2, <2>1, SeqMonotonic
<1> QED
  BY <1>1, <1>2, <1>3 DEF PollingInv, TypeOK, ThreadTypeOK, SchedulerTypeOK, FrameTypeOK,
                          RefersOnlyTo, windowVars, Budgets

\* After a step that leaves nothing queued, the scheduler refers to nothing.
LEMMA SchedulerEmpty ==
    ASSUME EngineTypeOK', FrameTypeOK', QueuesEmpty', current_request' = NoWindow,
           current_action' \in Actions, active' \in BOOLEAN,
           polling' \in BOOLEAN, connected' = polling',
           windows' \subseteq Windows, closed' \subseteq Windows, windows' \cap closed' = {}
    PROVE  PollingInv'
<1>1. \A W : <<>> \in Seq(Writes(W)) /\ <<>> \in Seq(MetaSequences(W)) /\ <<>> \in Seq(W)
  BY EmptySeq
<1>2. RefersOnlyTo(Windows)' /\ RefersOnlyTo(windows)'
  BY <1>1 DEF RefersOnlyTo, QueuesEmpty
<1> QED
  BY <1>2 DEF PollingInv, TypeOK, ThreadTypeOK, SchedulerTypeOK, FrameTypeOK, Budgets

\* The scheduler stops, or had not been started.
LEMMA SchedulerStopped ==
    ASSUME PollingInv, EngineTypeOK', FrameTypeOK', stop_modbus, connected' = FALSE,
           windows' \subseteq Windows, closed' \subseteq Windows, windows' \cap closed' = {}
    PROVE  PollingInv'
<1>1. QueuesEmpty' /\ current_request' = NoWindow /\ active' \in BOOLEAN
  BY DEF stop_modbus, PollingInv, TypeOK, SchedulerTypeOK, QueuesEmpty, queues
<1>2. polling' = FALSE /\ current_action' \in Actions
  BY DEF stop_modbus, PollingInv, TypeOK, SchedulerTypeOK
<1> QED
  BY <1>1, <1>2, SchedulerEmpty

\* The worker's steps.
LEMMA WorkerPreserves ==
    ASSUME PollingInv, WorkerStep
    PROVE  PollingInv'
<1>1. /\ EngineTypeOK /\ posted \in Seq(Events)
      /\ FrameTypeOK
  BY DEF PollingInv, TypeOK, ThreadTypeOK, FrameTypeOK, Budgets
<1>2. \A sig \in {"complete", "error"}, r \in Requests \cup {NoRequest} :
        posted \o Emission(sig, r) \in Seq(Events)
  <2> TAKE sig \in {"complete", "error"}, r \in Requests \cup {NoRequest}
  <2>1. \A to \in {"main", "scheduler"} : Event(to, sig, r) \in Events
    BY DEF Event, Events
  <2>2. Emission(sig, r) \in Seq(Events)
    BY <2>1 DEF Emission
  <2> QED
    BY <1>1, <2>2, ConcatProperties
<1>3. EngineTypeOK' /\ posted' \in Seq(Events)
  <2>1. CASE ConnectSucceeds
    BY <1>1, <1>2, <2>1 DEF ConnectSucceeds, EngineTypeOK, WorkerStates
  <2>2. CASE ConnectFails
    BY <1>1, <1>2, <2>2 DEF ConnectFails, EngineTypeOK, WorkerStates
  <2>3. CASE Wait
    BY <1>1, <2>3 DEF Wait, EngineTypeOK, WorkerStates
  <2>4. CASE Wake
    BY <1>1, <2>4 DEF Wake, EngineTypeOK, WorkerStates, Contents
  <2>5. CASE Quit
    BY <1>1, <2>5 DEF Quit, EngineTypeOK, WorkerStates
  <2>6. CASE Succeed
    <3>1. request \in Requests \cup {NoRequest} /\ regs \in Contents /\ device \in Seq(Contents)
      BY <1>1 DEF EngineTypeOK
    <3>2. device' \in Seq(Contents) /\ regs' \in Contents
      <4>1. do_custom_request_tcp \/ do_write_request \/ read_registers
        BY <2>6 DEF Succeed
      <4>2. Append(device, regs) \in Seq(Contents)
        BY <3>1, AppendProperties
      <4>3. request \in Contents
        BY <3>1 DEF Contents
      <4> QED
        BY <3>1, <4>1, <4>2, <4>3
           DEF do_custom_request_tcp, do_write_request, read_registers
    <3> QED
      BY <1>1, <1>2, <2>6, <3>1, <3>2 DEF Succeed, EngineTypeOK, WorkerStates
  <2>7. CASE Fail
    <3>1. request \in Requests \cup {NoRequest} /\ regs \in Contents /\ device \in Seq(Contents)
      BY <1>1 DEF EngineTypeOK
    <3>2. Append(device, regs) \in Seq(Contents)
      BY <3>1, AppendProperties
    <3>3. device' \in Seq(Contents) /\ regs' \in Contents
      BY <2>7, <3>1, <3>2 DEF Fail, do_write_request
    <3> QED
      BY <1>1, <1>2, <2>7, <3>1, <3>3 DEF Fail, EngineTypeOK, WorkerStates
  <2>8. CASE IllegalAddress
    <3>1. request \in Requests \cup {NoRequest}
      BY <1>1 DEF EngineTypeOK
    <3>2. posted' \in Seq(Events)
      <4>1. \A to \in {"main", "scheduler"}, sig \in {"complete", "error"} :
              Event(to, sig, request) \in Events
        BY <3>1 DEF Event, Events
      <4>2. Emission("complete", request) \in Seq(Events)
        BY <4>1 DEF Emission
      <4>3. posted \o Emission("error", request) \in Seq(Events)
        BY <1>2, <3>1
      <4> QED
        BY <2>8, <4>2, <4>3, ConcatProperties DEF IllegalAddress
    <3> QED
      BY <1>1, <2>8, <3>2 DEF IllegalAddress, EngineTypeOK, WorkerStates
  <2> QED
    BY <2>1, <2>2, <2>3, <2>4, <2>5, <2>6, <2>7, <2>8 DEF WorkerStep, ThreadStep
<1>4. FrameTypeOK'
  BY <1>1, <1>3 DEF WorkerStep, FrameTypeOK, mainVars
<1> QED
  BY <1>3, <1>4, SchedulerUntouched DEF WorkerStep, mainVars

\* on_actionOnce_triggered() enqueues windows of the set, or none.
LEMMA OncePreserves ==
    ASSUME PollingInv, FrameTypeOK', Once, gui = "idle",
           UNCHANGED <<connected, windowVars>>
    PROVE  PollingInv'
<1>1. windows \in SUBSET Windows /\ RefersOnlyTo(windows) /\ EngineTypeOK
  BY DEF PollingInv, TypeOK, ThreadTypeOK
<1>2. CASE windows = {}
  <2>1. EngineTypeOK'
    BY <1>1, <1>2 DEF Once, EngineTypeOK, engineVars
  <2> QED
    BY <1>2, <2>1, SchedulerUntouched DEF Once
<1>3. CASE windows # {}
  <2>1. PICK order \in Orders(windows), refill \in Orders(windows) \cup {<<>>} :
          enqueue_requests(order, refill)
    BY <1>3 DEF Once
  <2>2. order \in Seq(windows) /\ refill \in Seq(windows)
    BY <1>1, <2>1, OrdersType, EmptySeq
  <2>3. Head(order) \in windows /\ Tail(order) \in Seq(windows)
    BY <2>1, <2>2, HeadTailProperties DEF enqueue_requests
  <2>4. CASE active
    <3>1. standard_requests \o order \in Seq(windows)
      BY <1>1, <2>2, ConcatProperties DEF RefersOnlyTo
    <3> QED
      BY <1>1, <2>1, <2>4, <3>1, RequestQueued DEF enqueue_requests, RefersOnlyTo
  <2>5. CASE ~active
    <3>1. Append(standard_requests, Head(order)) \in Seq(windows)
      BY <1>1, <2>3, AppendProperties DEF RefersOnlyTo
    <3>2. pick_next(write_requests, meta_requests, Append(standard_requests, Head(order)),
                    refill, Tail(order))
      BY <2>1, <2>5 DEF enqueue_requests
    <3> QED
      BY <1>1, <2>1, <2>2, <2>3, <3>1, <3>2, RequestPicked DEF enqueue_requests, RefersOnlyTo
  <2> QED
    BY <2>4, <2>5
<1> QED
  BY <1>2, <1>3

\* register_window_destroyed(): after it, only open windows are referred to.
LEMMA WindowDestroyedPreserves ==
    ASSUME PollingInv, NEW w \in Windows, register_window_destroyed(w)
    PROVE  PollingInv'
<1>1. /\ windows \in SUBSET Windows /\ closed \subseteq Windows /\ w \in windows
      /\ windows' = windows \ {w} /\ closed' = closed \cup {w}
      /\ RefersOnlyTo(windows) /\ EngineTypeOK
  BY DEF PollingInv, TypeOK, ThreadTypeOK, register_window_destroyed
<1>2. PICK refill \in Refills(windows') : remove_reference(w, refill)
  BY DEF register_window_destroyed
<1>3. refill \in Seq(windows')
  BY <1>1, <1>2, RefillsType
<1>4. EngineTypeOK' /\ UNCHANGED <<current_action, active, polling>>
  BY <1>1, <1>2 DEF remove_reference, EngineTypeOK, engineVars
<1>5. FrameTypeOK'
  BY DEF register_window_destroyed, PollingInv, TypeOK, ThreadTypeOK, FrameTypeOK, Budgets
<1>6. \E rest \in Seq(windows \ {w}) :
         /\ standard_requests = <<>> => rest = <<>>
         /\ standard_requests' = IF rest = <<>> /\ standard_requests # <<>> THEN refill ELSE rest
  <2>1. PICK kept \in Increasing({i \in DOMAIN standard_requests : standard_requests[i] # w}) :
          standard_requests' = IF /\ Entries(standard_requests, kept) = <<>>
                                  /\ standard_requests # <<>>
                               THEN refill ELSE Entries(standard_requests, kept)
    BY <1>2 DEF remove_reference
  <2>2. standard_requests \in Seq(windows)
    BY <1>1 DEF RefersOnlyTo
  <2>3. /\ Entries(standard_requests, kept) \in Seq(windows \ {w})
        /\ standard_requests = <<>> => Entries(standard_requests, kept) = <<>>
    BY <1>1, <2>1, <2>2, KeptType
  <2> QED
    BY <2>1, <2>3
<1>7. RefersOnlyTo(windows)'
  <2>1. /\ write_requests' = Disowned(write_requests, w)
        /\ meta_requests' = Disowned(meta_requests, w)
        /\ current_request' = IF current_request = w THEN NoWindow ELSE current_request
    BY <1>2 DEF remove_reference
  <2>2. write_requests' \in Seq(Writes(windows'))
    BY <1>1, <2>1, DisownedWrites DEF RefersOnlyTo
  <2>3. meta_requests' \in Seq(MetaSequences(windows'))
    BY <1>1, <2>1, DisownedSequences DEF RefersOnlyTo
  <2>4. standard_requests' \in Seq(windows')
    BY <1>1, <1>3, <1>6
  <2>5. current_request' \in windows' \cup {NoWindow}
    BY <1>1, <2>1 DEF RefersOnlyTo
  <2> QED
    BY <2>2, <2>3, <2>4, <2>5 DEF RefersOnlyTo
<1>8. RefersOnlyTo(Windows)'
  <2>1. windows' \subseteq Windows
    BY <1>1
  <2>2. /\ Writes(windows') \subseteq Writes(Windows)
        /\ MetaSequences(windows') \subseteq MetaSequences(Windows)
    BY <2>1 DEF Writes, MetaSequences
  <2> QED
    BY <1>7, <2>1, <2>2, SeqMonotonic DEF RefersOnlyTo
<1>9. QueuesEmpty => QueuesEmpty'
  <2> SUFFICES ASSUME QueuesEmpty
               PROVE  QueuesEmpty'
    OBVIOUS
  <2>1. write_requests' = <<>> /\ meta_requests' = <<>>
    BY <1>1, <1>2, DisownedWrites, DisownedSequences
       DEF remove_reference, QueuesEmpty, RefersOnlyTo
  <2>2. standard_requests' = <<>>
    BY <1>6 DEF QueuesEmpty
  <2> QED
    BY <2>1, <2>2 DEF QueuesEmpty
<1>10. current_request = NoWindow => current_request' = NoWindow
  BY <1>1, <1>2 DEF remove_reference
<1>11. UNCHANGED <<gui, connected>>
  BY DEF register_window_destroyed
<1>12. current_action' \in Actions /\ active' \in BOOLEAN /\ polling' \in BOOLEAN
  BY <1>4 DEF PollingInv, TypeOK, ThreadTypeOK, SchedulerTypeOK
<1>13. /\ connected' = polling' /\ connected' \in BOOLEAN
       /\ ~polling' => QueuesEmpty' /\ current_request' = NoWindow
       /\ polling' /\ gui' # "figure_next" /\ ~active' => QueuesEmpty'
  BY <1>4, <1>9, <1>10, <1>11 DEF PollingInv, TypeOK
<1>14. windows' \cap closed' = {} /\ windows' \subseteq Windows /\ closed' \subseteq Windows
  BY <1>1 DEF PollingInv
<1> QED
  BY <1>4, <1>5, <1>7, <1>8, <1>12, <1>13, <1>14
     DEF PollingInv, TypeOK, ThreadTypeOK, SchedulerTypeOK, FrameTypeOK, Budgets

\* The clicks of the user.
LEMMA UserPreserves ==
    ASSUME PollingInv, UserStep
    PROVE  PollingInv'
<1>1. /\ windows \in SUBSET Windows /\ closed \in SUBSET Windows /\ windows \cap closed = {}
      /\ RefersOnlyTo(windows) /\ EngineTypeOK /\ FrameTypeOK /\ SchedulerTypeOK
      /\ polling \in BOOLEAN /\ connected = polling
  BY DEF PollingInv, TypeOK, ThreadTypeOK, FrameTypeOK, Budgets
<1>2. CASE on_actionOnce_triggered
  <2>1. continuous' \in BOOLEAN
    BY <1>1, <1>2 DEF on_actionOnce_triggered, Once, FrameTypeOK
  <2>2. FrameTypeOK'
    BY <1>1, <1>2, <2>1 DEF on_actionOnce_triggered, FrameTypeOK
  <2> QED
    BY <1>2, <2>2, OncePreserves DEF on_actionOnce_triggered
<1>3. CASE on_actionContinuous_triggered
  <2>1. continuous' \in BOOLEAN
    BY <1>3 DEF on_actionContinuous_triggered, Once
  <2>2. FrameTypeOK'
    BY <1>1, <1>3, <2>1 DEF on_actionContinuous_triggered, FrameTypeOK
  <2>3. CASE Once
    BY <1>3, <2>2, <2>3, OncePreserves DEF on_actionContinuous_triggered
  <2>4. CASE UNCHANGED <<engineVars, polling, schedulerVars>>
    <3>1. EngineTypeOK'
      BY <1>1, <2>4 DEF EngineTypeOK, engineVars
    <3> QED
      BY <1>3, <2>2, <2>4, <3>1, SchedulerUntouched DEF on_actionContinuous_triggered
  <2> QED
    BY <1>3, <2>3, <2>4 DEF on_actionContinuous_triggered
<1>4. CASE \E w \in Windows : add_window(w)
  <2>1. PICK w \in Windows : add_window(w)
    BY <1>4
  <2>2. /\ windows' = windows \cup {w} /\ closed' = closed /\ w \notin closed
        /\ UNCHANGED <<polling, schedulerVars, connected, gui>>
    BY <2>1 DEF add_window, mainVars
  <2>3. EngineTypeOK' /\ FrameTypeOK'
    BY <1>1, <2>1 DEF add_window, EngineTypeOK, FrameTypeOK, engineVars, mainVars
  <2>4. RefersOnlyTo(windows)'
    <3>1. windows \subseteq windows'
      BY <2>2
    <3>2. /\ Writes(windows) \subseteq Writes(windows')
          /\ MetaSequences(windows) \subseteq MetaSequences(windows')
      BY <3>1 DEF Writes, MetaSequences
    <3>3. RefersOnlyTo(windows')
      BY <1>1, <3>1, <3>2, SeqMonotonic DEF RefersOnlyTo
    <3> QED
      BY <2>2, <3>3 DEF RefersOnlyTo, schedulerVars, queues
  <2> QED
    BY <1>1, <2>1, <2>2, <2>3, <2>4
       DEF PollingInv, TypeOK, ThreadTypeOK, SchedulerTypeOK, FrameTypeOK, RefersOnlyTo,
           QueuesEmpty, schedulerVars, queues, Budgets
<1>5. CASE \E w \in Windows : register_window_destroyed(w)
  BY <1>5, WindowDestroyedPreserves
<1>6. CASE \E w \in Requesters : RequestWrite(w)
  <2>1. PICK w \in Requesters : RequestWrite(w)
    BY <1>6
  <2>2. FrameTypeOK'
    BY <1>1, <2>1 DEF RequestWrite, FrameTypeOK, mainVars, Budgets
  <2> DEFINE write == [requester |-> w, id |-> MaxWrites + 1 - budget.writes]
  <2>3. write \in Writes(windows)
    <3>1. budget.writes \in 1..MaxWrites
      BY <1>1, <2>1 DEF RequestWrite, FrameTypeOK, Budgets
    <3>2. MaxWrites + 1 - budget.writes \in Nat
      BY <3>1
    <3>3. w \in windows \cup {NoWindow}
      BY <2>1 DEF RequestWrite
    <3> QED
      BY <3>2, <3>3 DEF Writes
  <2>4. Append(write_requests, write) \in Seq(Writes(windows))
    BY <1>1, <2>3, AppendProperties DEF RefersOnlyTo
  <2> HIDE DEF write
  <2>5. PICK refill \in Refills(windows) : modbus_on_write_request(write, refill)
    BY <2>1 DEF RequestWrite, write
  <2>6. refill \in Seq(windows) /\ <<>> \in Seq(windows)
    BY <1>1, RefillsType, EmptySeq
  <2>7. UNCHANGED <<connected, windowVars>>
    BY <2>1 DEF RequestWrite, mainVars
  <2>8. CASE active
    BY <1>1, <2>2, <2>4, <2>5, <2>7, <2>8, RequestQueued
       DEF modbus_on_write_request, RefersOnlyTo
  <2>9. CASE ~active
    BY <1>1, <2>2, <2>4, <2>5, <2>6, <2>7, <2>9, RequestPicked
       DEF modbus_on_write_request, RefersOnlyTo
  <2> QED
    BY <2>8, <2>9
<1>7. CASE \E w \in Windows, length \in 1..MaxLength : RequestMetadata(w, length)
  <2>1. PICK w \in Windows, length \in 1..MaxLength : RequestMetadata(w, length)
    BY <1>7
  <2>2. FrameTypeOK'
    BY <1>1, <2>1 DEF RequestMetadata, FrameTypeOK, mainVars, Budgets
  <2> DEFINE sequence == [requester |-> w, left |-> length, sent |-> FALSE]
  <2>3. sequence \in MetaSequences(windows)
    BY <2>1 DEF RequestMetadata, MetaSequences
  <2>4. Append(meta_requests, sequence) \in Seq(MetaSequences(windows))
    BY <1>1, <2>3, AppendProperties DEF RefersOnlyTo
  <2> HIDE DEF sequence
  <2>5. PICK refill \in Refills(windows) : modbus_on_poll_meta(sequence, refill)
    BY <2>1 DEF RequestMetadata, sequence
  <2>6. refill \in Seq(windows) /\ <<>> \in Seq(windows)
    BY <1>1, RefillsType, EmptySeq
  <2>7. UNCHANGED <<connected, windowVars>>
    BY <2>1 DEF RequestMetadata, mainVars
  <2>8. CASE active
    BY <1>1, <2>2, <2>4, <2>5, <2>7, <2>8, RequestQueued DEF modbus_on_poll_meta, RefersOnlyTo
  <2>9. CASE ~active
    BY <1>1, <2>2, <2>4, <2>5, <2>6, <2>7, <2>9, RequestPicked
       DEF modbus_on_poll_meta, RefersOnlyTo
  <2> QED
    BY <2>8, <2>9
<1>8. CASE ClickConnect
  <2>1. EngineTypeOK'
    BY <1>1, <1>8 DEF ClickConnect, StartThread, EngineTypeOK, WorkerStates, Contents
  <2>2. FrameTypeOK'
    <3>1. budget' \in Budgets
      BY <1>1, <1>8 DEF ClickConnect, FrameTypeOK, Budgets
    <3>2. UNCHANGED <<posted, gui>> /\ <<connecting', connecting2', continuous'>> = <<TRUE, FALSE, FALSE>>
      BY <1>8 DEF ClickConnect
    <3> QED
      BY <1>1, <3>1, <3>2 DEF FrameTypeOK
  <2> QED
    BY <1>8, <2>1, <2>2, SchedulerUntouched DEF ClickConnect
<1>9. CASE ClickDisconnect
  <2>1. EngineTypeOK'
    BY <1>1, <1>9 DEF ClickDisconnect, RequestQuit, Notified, EngineTypeOK, WorkerStates
  <2>2. FrameTypeOK'
    BY <1>1, <1>9 DEF ClickDisconnect, FrameTypeOK, GuiStates
  <2> QED
    BY <1>9, <2>1, <2>2, SchedulerUntouched DEF ClickDisconnect
<1>10. CASE closeEvent
  <2>1. EngineTypeOK'
    BY <1>1, <1>10 DEF closeEvent, RequestQuit, Notified, EngineTypeOK, WorkerStates, engineVars
  <2>2. FrameTypeOK'
    BY <1>1, <1>10 DEF closeEvent, FrameTypeOK, GuiStates, mainVars
  <2>3. CASE connected
    BY <1>10, <2>1, <2>2, <2>3, SchedulerUntouched DEF closeEvent, mainVars
  <2>4. CASE ~connected
    <3>1. /\ windows' = {} /\ closed' = closed \cup windows
          /\ UNCHANGED <<polling, schedulerVars, connected>>
      BY <1>10, <2>4 DEF closeEvent, mainVars
    <3>2. QueuesEmpty /\ current_request = NoWindow
      BY <1>1, <2>4 DEF PollingInv
    <3>3. QueuesEmpty' /\ current_request' = NoWindow
      BY <3>1, <3>2 DEF QueuesEmpty, schedulerVars, queues
    <3>4. \A W : <<>> \in Seq(Writes(W)) /\ <<>> \in Seq(MetaSequences(W)) /\ <<>> \in Seq(W)
      BY EmptySeq
    <3>5. RefersOnlyTo(windows)' /\ RefersOnlyTo(Windows)'
      BY <3>3, <3>4 DEF RefersOnlyTo, QueuesEmpty
    <3> QED
      BY <1>1, <2>1, <2>2, <2>4, <3>1, <3>3, <3>5
         DEF PollingInv, TypeOK, ThreadTypeOK, SchedulerTypeOK, FrameTypeOK, schedulerVars, Budgets
  <2> QED
    BY <2>3, <2>4
<1> QED
  BY <1>2, <1>3, <1>4, <1>5, <1>6, <1>7, <1>8, <1>9, <1>10 DEF UserStep

\* The delivery of the worker's signals, and the rest of the handlers that wait
\* for the mutex or for the thread's end.
LEMMA GuiPreserves ==
    ASSUME PollingInv, GuiStep
    PROVE  PollingInv'
<1>1. /\ windows \in SUBSET Windows /\ closed \in SUBSET Windows /\ windows \cap closed = {}
      /\ RefersOnlyTo(windows) /\ EngineTypeOK /\ FrameTypeOK /\ SchedulerTypeOK
      /\ polling \in BOOLEAN /\ connected = polling
      /\ ~polling => QueuesEmpty /\ current_request = NoWindow
  BY DEF PollingInv, TypeOK, ThreadTypeOK, FrameTypeOK, Budgets
<1>2. ASSUME NEW to, NEW sig, Delivered(to, sig)
      PROVE  gui = "idle" /\ posted' \in Seq(Events)
  BY <1>1, <1>2, PostedType DEF Delivered, FrameTypeOK
<1>3. <<>> \in Seq(windows)
  BY EmptySeq
<1>4. CASE MainConnected
  <2>1. gui = "idle" /\ posted' \in Seq(Events)
    BY <1>2, <1>4 DEF MainConnected
  <2>2. FrameTypeOK'
    BY <1>1, <1>4, <2>1 DEF MainConnected, FrameTypeOK, GuiStates
  <2>3. DevIdRequest \in Requests
    BY DEF DevIdRequest, Requests, Requesters
  <2>4. EngineTypeOK'
    BY <1>1, <1>4, <2>3, modbus_requestType DEF MainConnected
  <2> QED
    BY <1>4, <2>1, <2>2, <2>4, SchedulerUntouched DEF MainConnected
<1>5. CASE MainDeviceId
  <2>1. gui = "idle" /\ posted' \in Seq(Events)
    BY <1>2, <1>5 DEF MainDeviceId
  <2>2. FrameTypeOK'
    BY <1>1, <1>5, <2>1 DEF MainDeviceId, FrameTypeOK
  <2>3. EngineTypeOK'
    BY <1>1, <1>5 DEF MainDeviceId, modbus_result, EngineTypeOK, Contents
  <2> QED
    BY <1>5, <2>1, <2>2, <2>3, SchedulerUntouched DEF MainDeviceId
<1>6. CASE MainConnectFailed
  <2>1. gui = "idle" /\ posted' \in Seq(Events)
    BY <1>2, <1>6 DEF MainConnectFailed
  <2>2. FrameTypeOK'
    BY <1>1, <1>6, <2>1 DEF MainConnectFailed, post_disconnected, FrameTypeOK
  <2>3. EngineTypeOK'
    BY <1>1, <1>6 DEF MainConnectFailed, post_disconnected, EngineTypeOK, WorkerStates
  <2>4. stop_modbus /\ connected' = FALSE /\ UNCHANGED windowVars
    BY <1>6 DEF MainConnectFailed, post_disconnected
  <2> QED
    BY <1>1, <2>2, <2>3, <2>4, SchedulerStopped DEF windowVars
<1>7. CASE MainNoDeviceId
  <2>1. gui = "idle" /\ posted' \in Seq(Events)
    BY <1>2, <1>7 DEF MainNoDeviceId
  <2>2. FrameTypeOK' /\ EngineTypeOK'
    BY <1>1, <1>7, <2>1 DEF MainNoDeviceId, FrameTypeOK, EngineTypeOK, engineVars
  <2> QED
    BY <1>7, <2>1, <2>2, SchedulerUntouched DEF MainNoDeviceId
<1>8. CASE MainIgnores
  <2>1. gui = "idle" /\ posted' \in Seq(Events)
    BY <1>2, <1>8 DEF MainIgnores
  <2>2. FrameTypeOK' /\ EngineTypeOK'
    BY <1>1, <1>8, <2>1 DEF MainIgnores, FrameTypeOK, EngineTypeOK, engineVars, mainVars
  <2> QED
    BY <1>8, <2>1, <2>2, SchedulerUntouched DEF MainIgnores, mainVars
<1>9. CASE SchedulerDataLate
  <2>1. gui = "idle" /\ posted' \in Seq(Events)
    BY <1>2, <1>9 DEF SchedulerDataLate
  <2>2. FrameTypeOK' /\ EngineTypeOK'
    BY <1>1, <1>9, <2>1 DEF SchedulerDataLate, FrameTypeOK, EngineTypeOK, engineVars, mainVars
  <2>3. /\ QueuesEmpty' /\ current_request' = NoWindow
        /\ active' = FALSE /\ current_action' \in Actions
    BY <1>1, <1>9 DEF SchedulerDataLate, QueuesEmpty, SchedulerTypeOK, queues
  <2>4. UNCHANGED <<polling, connected, windows, closed>>
    BY <1>9 DEF SchedulerDataLate, mainVars, windowVars
  <2> QED
    BY <1>1, <2>2, <2>3, <2>4, SchedulerEmpty
<1>10. CASE SchedulerData
  <2>1. gui = "idle" /\ posted' \in Seq(Events)
    BY <1>2, <1>10 DEF SchedulerData
  <2>2. FrameTypeOK'
    BY <1>1, <1>10, <2>1 DEF SchedulerData, FrameTypeOK, GuiStates, mainVars
  <2>3. EngineTypeOK'
    BY <1>1, <1>10
       DEF SchedulerData, modbus_on_data_deliver, modbus_result, EngineTypeOK, Contents
  <2>4. ASSUME NEW W, meta_requests \in Seq(MetaSequences(W))
        PROVE  meta_requests' \in Seq(MetaSequences(W))
    <3>1. CASE current_action # "METADATA"
      BY <1>10, <2>4, <3>1 DEF SchedulerData, modbus_on_data_deliver
    <3>2. CASE current_action = "METADATA"
      <4>1. meta_requests # <<>> /\ meta_requests' = AfterMetaAnswer
        BY <1>10, <3>2 DEF SchedulerData, modbus_on_data_deliver, MetaAnswerUndefined
      <4>2. 1 \in 1..Len(meta_requests)
        BY <2>4, <4>1, EmptySeq
      <4>3. meta_requests[1] \in MetaSequences(W)
        BY <2>4, <4>2, ElementOfSeq
      <4> DEFINE head == [meta_requests[1] EXCEPT !.left = IF @ > 0 THEN @ - 1 ELSE 0]
      <4>4. head \in MetaSequences(W)
        BY <4>3 DEF MetaSequences
      <4>5. AfterMetaAnswer = [meta_requests EXCEPT ![1] = head]
        BY DEF AfterMetaAnswer
      <4> HIDE DEF head
      <4> QED
        BY <2>4, <4>1, <4>2, <4>4, <4>5, ExceptSeq
    <3> QED
      BY <3>1, <3>2
  <2>5. /\ polling = TRUE /\ active' = FALSE /\ gui' = "figure_next"
        /\ UNCHANGED <<write_requests, standard_requests, current_action, current_request,
                       polling, connected, windows, closed>>
    BY <1>10 DEF SchedulerData, modbus_on_data_deliver, mainVars, windowVars
  <2>6. RefersOnlyTo(Windows)' /\ RefersOnlyTo(windows)'
    BY <1>1, <2>4, <2>5 DEF RefersOnlyTo, SchedulerTypeOK
  <2> QED
    BY <1>1, <2>2, <2>3, <2>5, <2>6
       DEF PollingInv, TypeOK, ThreadTypeOK, SchedulerTypeOK, FrameTypeOK, Budgets
<1>11. CASE modbus_on_error
  <2>1. gui = "idle" /\ posted' \in Seq(Events)
    BY <1>2, <1>11 DEF modbus_on_error
  <2>2. FrameTypeOK'
    BY <1>1, <1>11, <2>1 DEF modbus_on_error, FrameTypeOK, mainVars
  <2>3. UNCHANGED <<connected, windows, closed>>
    BY <1>11 DEF modbus_on_error, mainVars, windowVars
  <2>4. CASE polling
    <3>1. PICK refill \in Refills(windows) :
            pick_next(write_requests, AfterMetaError, standard_requests, refill, <<>>)
      BY <1>11, <2>4 DEF modbus_on_error
    <3>2. refill \in Seq(windows)
      BY <1>1, RefillsType
    <3>3. AfterMetaError \in Seq(MetaSequences(windows))
      <4>1. current_action = "METADATA" => meta_requests # <<>>
        BY <1>11 DEF modbus_on_error, MetaErrorUndefined
      <4> QED
        BY <1>1, <4>1, HeadTailProperties DEF AfterMetaError, RefersOnlyTo
    <3>4. UNCHANGED polling
      BY <1>11, <2>4 DEF modbus_on_error
    <3> QED
      BY <1>1, <1>3, <2>2, <2>3, <2>4, <3>1, <3>2, <3>3, <3>4, RequestPicked
         DEF RefersOnlyTo, windowVars
  <2>5. CASE ~polling
    <3>1. /\ active' = FALSE /\ meta_requests' = AfterMetaError
          /\ UNCHANGED <<engineVars, polling, write_requests, standard_requests,
                         current_action, current_request>>
      BY <1>11, <2>5 DEF modbus_on_error
    <3>2. current_action # "METADATA"
      BY <1>1, <1>11, <2>5 DEF modbus_on_error, MetaErrorUndefined, QueuesEmpty
    <3>3. QueuesEmpty' /\ current_request' = NoWindow
      BY <1>1, <2>5, <3>1, <3>2 DEF AfterMetaError, QueuesEmpty
    <3>4. EngineTypeOK' /\ current_action' \in Actions
      BY <1>1, <3>1 DEF EngineTypeOK, engineVars, SchedulerTypeOK
    <3> QED
      BY <1>1, <2>2, <2>3, <3>1, <3>3, <3>4, SchedulerEmpty
  <2> QED
    BY <2>4, <2>5
<1>12. CASE UndefinedBehaviour
  <2>1. gui = "idle" /\ posted' \in Seq(Events)
    BY <1>2, <1>12 DEF UndefinedBehaviour
  <2>2. FrameTypeOK' /\ EngineTypeOK'
    BY <1>1, <1>12, <2>1
       DEF UndefinedBehaviour, FrameTypeOK, EngineTypeOK, GuiStates, engineVars, mainVars
  <2> QED
    BY <1>12, <2>1, <2>2, SchedulerUntouched DEF UndefinedBehaviour, mainVars
<1>13. CASE post_connected
  <2>1. FrameTypeOK' /\ EngineTypeOK'
    BY <1>1, <1>13 DEF post_connected, FrameTypeOK, EngineTypeOK, GuiStates, engineVars
  <2>2. /\ QueuesEmpty' /\ current_request' = NoWindow /\ active' = FALSE
        /\ current_action' \in Actions /\ polling' = TRUE /\ connected' = TRUE
        /\ UNCHANGED <<windows, closed>>
    BY <1>1, <1>13 DEF post_connected, start_modbus, QueuesEmpty, SchedulerTypeOK, windowVars
  <2> QED
    BY <1>1, <2>1, <2>2, SchedulerEmpty
<1>14. CASE SchedulerContinue
  <2>1. PICK refill \in Refills(windows) : modbus_on_data_continue(refill)
    BY <1>14 DEF SchedulerContinue
  <2>2. refill \in Seq(windows)
    BY <1>1, RefillsType
  <2>3. FrameTypeOK' /\ UNCHANGED <<connected, windowVars>>
    BY <1>1, <1>14 DEF SchedulerContinue, FrameTypeOK, GuiStates, mainVars
  <2>4. CASE polling
    BY <1>1, <1>3, <2>1, <2>2, <2>3, <2>4, RequestPicked
       DEF modbus_on_data_continue, RefersOnlyTo
  <2>5. CASE ~polling
    <3>1. pick_next(<<>>, <<>>, <<>>, refill, <<>>)
      BY <1>1, <2>1, <2>5 DEF modbus_on_data_continue, QueuesEmpty
    <3>2. <<>> \o <<>> = <<>> /\ Len(<<>>) = 0
      OBVIOUS
    <3>3. PICK k \in 0..0 : poll_below_writes(k, <<>>, <<>>, refill, <<>>)
      BY <3>1, <3>2 DEF pick_next, poll_write_request
    <3>4. SubSeq(<<>>, k + 1, 0) = <<>>
      BY <3>3
    <3>5. nothing_to_poll
      BY <3>2, <3>3, <3>4 DEF poll_below_writes, poll_meta_request, poll_read_request
    <3>6. /\ QueuesEmpty' /\ current_request' = NoWindow /\ active' = FALSE
          /\ current_action' \in Actions /\ EngineTypeOK'
      BY <1>1, <3>5 DEF nothing_to_poll, QueuesEmpty, Actions, EngineTypeOK, engineVars
    <3>7. UNCHANGED polling
      BY <2>1 DEF modbus_on_data_continue
    <3> QED
      BY <1>1, <2>3, <3>6, <3>7, SchedulerEmpty DEF windowVars
  <2> QED
    BY <2>4, <2>5
<1>15. CASE Disconnected
  <2>1. FrameTypeOK' /\ EngineTypeOK'
    BY <1>1, <1>15
       DEF Disconnected, post_disconnected, FrameTypeOK, EngineTypeOK, GuiStates, WorkerStates
  <2>2. stop_modbus /\ connected' = FALSE /\ UNCHANGED windowVars
    BY <1>15 DEF Disconnected, post_disconnected
  <2> QED
    BY <1>1, <2>1, <2>2, SchedulerStopped DEF windowVars
<1>16. CASE Exited
  <2>1. FrameTypeOK' /\ EngineTypeOK'
    BY <1>1, <1>16
       DEF Exited, post_disconnected, FrameTypeOK, EngineTypeOK, GuiStates, WorkerStates
  <2>2. stop_modbus /\ connected' = FALSE /\ windows' = {} /\ closed' = closed \cup windows
    BY <1>16 DEF Exited, post_disconnected
  <2> QED
    BY <1>1, <2>1, <2>2, SchedulerStopped
<1> QED
  BY <1>4, <1>5, <1>6, <1>7, <1>8, <1>9, <1>10, <1>11, <1>12, <1>13, <1>14, <1>15, <1>16
     DEF GuiStep, Deliver

-----------------------------------------------------------------------------
(* The theorems.                                                           *)

\* The program starts without a thread, without windows and with nothing queued.
LEMMA InitEstablishes ==
    ASSUME Init
    PROVE  PollingInv
<1>1. \A S : <<>> \in Seq(S)
  BY EmptySeq
<1>2. EngineTypeOK /\ posted \in Seq(Events) /\ polling = FALSE
  BY <1>1 DEF Init, ThreadInit, EngineTypeOK, WorkerStates, Contents
<1>3. SchedulerTypeOK /\ RefersOnlyTo(windows) /\ QueuesEmpty /\ current_request = NoWindow
  BY <1>1 DEF Init, SchedulerInit, SchedulerTypeOK, RefersOnlyTo, QueuesEmpty, Actions
<1>4. budget \in Budgets
  BY DEF Init, Budgets
<1> QED
  BY <1>2, <1>3, <1>4 DEF Init, PollingInv, TypeOK, ThreadTypeOK, GuiStates

\* Every step of the thread, of the GUI and of the user keeps the scheduler's
\* references inside the set of open windows and its rest free of requests.
THEOREM PollingInvariant == Spec => []PollingInv
<1>1. Init => PollingInv
  BY InitEstablishes
<1>2. PollingInv /\ [Next]_vars => PollingInv'
  <2> SUFFICES ASSUME PollingInv, [Next]_vars
               PROVE  PollingInv'
    OBVIOUS
  <2>1. CASE WorkerStep
    BY <2>1, WorkerPreserves
  <2>2. CASE GuiStep
    BY <2>2, GuiPreserves
  <2>3. CASE UserStep
    BY <2>3, UserPreserves
  <2>4. CASE UNCHANGED vars
    <3>1. EngineTypeOK'
      BY <2>4 DEF vars, engineVars, PollingInv, TypeOK, ThreadTypeOK, EngineTypeOK
    <3>2. FrameTypeOK'
      BY <2>4 DEF vars, mainVars, PollingInv, TypeOK, ThreadTypeOK, FrameTypeOK, Budgets
    <3>3. UNCHANGED <<polling, schedulerVars, connected, windowVars, gui>>
      BY <2>4 DEF vars, mainVars
    <3> QED
      BY <3>1, <3>2, <3>3, SchedulerUntouched
  <2> QED
    BY <2>1, <2>2, <2>3, <2>4 DEF Next, Ended
<1> QED
  BY <1>1, <1>2, PTL DEF Spec

\* Every variable keeps its type: in particular no null window ever stands in
\* the read queue, which poll_read_request() would dereference.
THEOREM TypeCorrect == Spec => []TypeOK
<1>1. PollingInv => TypeOK
  BY DEF PollingInv
<1> QED
  BY <1>1, PollingInvariant, PTL

\* register_window_destroyed() and remove_reference() leave no pointer to a
\* deleted window in the scheduler, whatever is queued or under way.
THEOREM NoDanglingReferences == Spec => []NoDangling
<1>1. PollingInv => NoDangling
  <2> SUFFICES ASSUME PollingInv, NEW w \in closed
               PROVE  /\ current_request # w
                      /\ \A i \in DOMAIN write_requests : write_requests[i].requester # w
                      /\ \A i \in DOMAIN meta_requests : meta_requests[i].requester # w
                      /\ \A i \in DOMAIN standard_requests : standard_requests[i] # w
    BY DEF NoDangling
  <2>1. w \notin windows \cup {NoWindow}
    BY DEF PollingInv, TypeOK
  <2>2. RefersOnlyTo(windows)
    BY DEF PollingInv
  <2>3. current_request # w
    BY <2>1, <2>2 DEF RefersOnlyTo
  <2>4. \A i \in DOMAIN write_requests : write_requests[i].requester # w
    <3> TAKE i \in DOMAIN write_requests
    <3>1. write_requests[i] \in Writes(windows)
      BY <2>2, ElementOfSeq, LenProperties DEF RefersOnlyTo
    <3> QED
      BY <2>1, <3>1 DEF Writes
  <2>5. \A i \in DOMAIN meta_requests : meta_requests[i].requester # w
    <3> TAKE i \in DOMAIN meta_requests
    <3>1. meta_requests[i] \in MetaSequences(windows)
      BY <2>2, ElementOfSeq, LenProperties DEF RefersOnlyTo
    <3> QED
      BY <2>1, <3>1 DEF MetaSequences
  <2>6. \A i \in DOMAIN standard_requests : standard_requests[i] # w
    BY <2>1, <2>2, ElementOfSeq, LenProperties DEF RefersOnlyTo
  <2> QED
    BY <2>3, <2>4, <2>5, <2>6
<1> QED
  BY <1>1, PollingInvariant, PTL

\* Between two handlers the scheduler never rests on a request: figure_next()
\* runs after every answer and every error and takes all three queues into
\* account.
THEOREM SchedulerWorkConserving == Spec => []WorkConserving
<1>1. PollingInv => WorkConserving
  BY DEF PollingInv, WorkConserving, QueuesEmpty
<1> QED
  BY <1>1, PollingInvariant, PTL

=============================================================================
