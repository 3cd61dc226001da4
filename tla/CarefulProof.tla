----------------------------- MODULE CarefulProof -----------------------------
(***************************************************************************)
(* Proofs about the polling core under a user who waits (CarefulUser of    *)
(* Polling.tla), for any windows and any bounds: one request at a time,    *)
(* every answer dispatched to the request it answers, no undefined         *)
(* behaviour, and writes performed once, in order and with their values.   *)
(***************************************************************************)
EXTENDS PollingProof

USE WindowsAssumption, PluginAssumption, BoundsAssumption

-----------------------------------------------------------------------------
(* The posted signals.                                                     *)

\* What is on the way is told apart by its first signal and its length.
LEMMA PostedShapes ==
    ASSUME NEW sig \in Signals
    PROVE  /\ ToMain(sig) # <<>> /\ Head(ToMain(sig)) = Event("main", sig, request)
           /\ Tail(ToMain(sig)) = <<>>
           /\ ToBoth(sig) # <<>> /\ Head(ToBoth(sig)) = Event("main", sig, request)
           /\ Tail(ToBoth(sig)) = ToScheduler(sig)
           /\ ToScheduler(sig) # <<>> /\ Head(ToScheduler(sig)) = Event("scheduler", sig, request)
           /\ Tail(ToScheduler(sig)) = <<>>
BY DEF ToMain, ToBoth, ToScheduler

LEMMA ShapesDiffer ==
    ASSUME NEW s \in Signals, NEW t \in Signals
    PROVE  /\ ToMain(s) # ToBoth(t)
           /\ ToMain(s) # ToScheduler(t)
           /\ ToBoth(s) # ToScheduler(t)
           /\ ToMain(s) = ToMain(t) => s = t
           /\ ToBoth(s) = ToBoth(t) => s = t
           /\ ToScheduler(s) = ToScheduler(t) => s = t
BY DEF ToMain, ToBoth, ToScheduler, Event

\* A delivery takes the only answer that is on the way one step further.
LEMMA DeliveredAnswer ==
    ASSUME HandoverInv, NEW to, NEW sig, Delivered(to, sig)
    PROVE  /\ gui = "idle" /\ asked = NoRequest /\ sig \in Signals /\ posted # <<>>
           /\ Head(posted) = Event(to, sig, request)
           /\ \/ to = "main" /\ posted = ToMain(sig) /\ posted' = <<>>
              \/ to = "main" /\ posted = ToBoth(sig) /\ posted' = ToScheduler(sig)
              \/ to = "scheduler" /\ posted = ToScheduler(sig) /\ posted' = <<>>
<1>1. gui = "idle" /\ posted # <<>> /\ asked = NoRequest
  BY DEF Delivered, HandoverInv
<1>2. PICK s \in Signals : posted \in {ToMain(s), ToBoth(s), ToScheduler(s)}
  BY <1>1 DEF HandoverInv
<1>3. Head(posted).sig = sig /\ Head(posted).to = to /\ posted' = Tail(posted)
  BY DEF Delivered
<1>4. CASE posted = ToMain(s)
  BY <1>1, <1>2, <1>3, <1>4, PostedShapes DEF Event
<1>5. CASE posted = ToBoth(s)
  BY <1>1, <1>2, <1>3, <1>5, PostedShapes, SMTT(30) DEF Event
<1>6. CASE posted = ToScheduler(s)
  BY <1>1, <1>2, <1>3, <1>6, PostedShapes DEF Event
<1> QED
  BY <1>2, <1>4, <1>5, <1>6

-----------------------------------------------------------------------------
(* The scheduler's operations, by their outcome.                           *)

\* What figure_next() does, given the write queue on entry: it hands over one
\* request that its fields describe, or rests.
HandsOver(wq) ==
    /\ active' = TRUE
    /\ worker # "busy" /\ worker' = Notified
    /\ request' \in Requests /\ asked' = request'
    /\ request'.kind \in ScheduledKinds
    /\ current_action' = ActionFor[request'.kind]
    /\ current_request' = request'.win
    /\ request'.kind = "meta" => meta_requests' # <<>> /\ Head(meta_requests').sent
    /\ request'.kind = "write" =>
          wq # <<>> /\ regs' = request' /\ request'.id = Head(wq).id /\ write_requests' = Tail(wq)
    /\ request'.kind # "write" => wq = <<>> /\ write_requests' = <<>>
    /\ UNCHANGED <<quit, device>>

Rests(wq) ==
    /\ active' = FALSE /\ current_action' = "INACTIVE"
    /\ wq = <<>> /\ write_requests' = <<>>
    /\ UNCHANGED engineVars

Picks(wq) == HandsOver(wq) \/ Rests(wq)

LEMMA pick_nextPicks ==
    ASSUME NEW W \in SUBSET Windows,
           NEW wq \in Seq(Writes(W)), NEW mq \in Seq(MetaSequences(W)), NEW sq \in Seq(W),
           NEW refill \in Seq(W), NEW after \in Seq(W),
           pick_next(wq, mq, sq, refill, after)
    PROVE  Picks(wq)
<1> USE DEF ScheduledKinds, ActionFor
<1>1. CASE poll_write_request(wq, mq, sq \o after)
  <2>1. Head(wq) \in Writes(W)
    BY <1>1, HeadTailProperties DEF poll_write_request
  <2>2. [kind |-> "write", win |-> Head(wq).requester, id |-> Head(wq).id] \in Requests
    BY <2>1 DEF Writes, Requests, Requesters
  <2> QED
    BY <1>1, <2>2 DEF poll_write_request, modbus_request, Picks, HandsOver
<1>2. ASSUME wq = <<>>, NEW k \in 0..Len(mq), poll_below_writes(k, mq, sq, refill, after)
      PROVE  Picks(wq)
  <2> DEFINE rest == SubSeq(mq, k + 1, Len(mq))
  <2>1. rest \in Seq(MetaSequences(W))
    <3>1. Len(mq) \in Nat
      BY LenProperties
    <3>2. \A i \in k + 1 .. Len(mq) : mq[i] \in MetaSequences(W)
      BY <3>1, ElementOfSeq
    <3> QED
      BY <3>1, <3>2, SubSeqProperties
  <2> HIDE DEF rest
  <2>2. CASE poll_meta_request(rest, sq \o after)
    <3>1. Head(rest) \in MetaSequences(W) /\ rest # <<>>
      BY <2>1, <2>2, HeadTailProperties DEF poll_meta_request
    <3>2. [kind |-> "meta", win |-> Head(rest).requester, id |-> 0] \in Requests
      BY <3>1 DEF MetaSequences, Requests, Requesters
    <3>3. 1 \in 1..Len(rest) /\ rest[1] \in MetaSequences(W)
      BY <2>1, <3>1, EmptySeq, ElementOfSeq
    <3> DEFINE sent == [rest[1] EXCEPT !.sent = TRUE]
    <3>4. sent \in MetaSequences(W) /\ sent.sent
      BY <3>3 DEF MetaSequences
    <3>5. meta_requests' = [rest EXCEPT ![1] = sent]
      BY <2>2 DEF poll_meta_request
    <3> HIDE DEF sent
    <3>6. /\ meta_requests' \in Seq(MetaSequences(W)) /\ Len(meta_requests') = Len(rest)
          /\ meta_requests'[1] = sent
      BY <2>1, <3>3, <3>4, <3>5, ExceptSeq
    <3>7. meta_requests' # <<>> /\ Head(meta_requests').sent
      BY <3>3, <3>4, <3>6, EmptySeq, HeadTailProperties
    <3> QED
      BY <1>2, <2>2, <3>2, <3>7 DEF poll_meta_request, modbus_request, Picks, HandsOver
  <2>3. CASE poll_read_request(rest, sq, refill, after)
    <3>1. Head(sq) \in W
      BY <2>3, HeadTailProperties DEF poll_read_request
    <3>2. [kind |-> "read", win |-> Head(sq), id |-> 0] \in Requests
      BY <3>1 DEF Requests, Requesters
    <3> QED
      BY <1>2, <2>3, <3>2 DEF poll_read_request, modbus_request, Picks, HandsOver
  <2>4. CASE nothing_to_poll
    BY <1>2, <2>4 DEF nothing_to_poll, Picks, Rests
  <2> QED
    BY <1>2, <2>2, <2>3, <2>4 DEF poll_below_writes, rest
<1> QED
  BY <1>1, <1>2 DEF pick_next

-----------------------------------------------------------------------------
(* The user's requests and windows, by their outcome.                      *)

\* The request under way and what describes it stay.
Unmoved ==
    /\ UNCHANGED <<engineVars, current_action, active>>
    /\ current_request' \in {current_request, NoWindow}
    /\ meta_requests # <<>> =>
          meta_requests' # <<>> /\ Head(meta_requests').sent = Head(meta_requests).sent

\* The write queue with what the step adds to it.
Offered(wq) ==
    \/ wq = write_requests /\ budget'.writes = budget.writes
    \/ /\ budget.writes > 0 /\ budget'.writes = budget.writes - 1
       /\ \E w \in windows \cup {NoWindow} :
             wq = Append(write_requests, [requester |-> w, id |-> MaxWrites + 1 - budget.writes])

\* The queue afterwards holds the writes of wq, some of them disowned.
Queues(wq) ==
    /\ DOMAIN write_requests' = DOMAIN wq
    /\ \A i \in DOMAIN wq : write_requests'[i].id = wq[i].id

\* Nothing is under way, as far as the scheduler knows.
MayStart == polling /\ ~active

UserRequest ==
    \/ on_actionOnce_triggered \/ on_actionContinuous_triggered
    \/ \E w \in Windows : add_window(w) \/ register_window_destroyed(w)
    \/ \E w \in Requesters : RequestWrite(w)
    \/ \E w \in Windows, length \in 1..MaxLength : RequestMetadata(w, length)

LEMMA OnceOutcome ==
    ASSUME PollingInv, Once
    PROVE  /\ UNCHANGED polling
           /\ \/ Unmoved /\ write_requests' = write_requests
              \/ MayStart /\ Picks(write_requests)
<1> USE DEF MayStart
<1>1. windows \in SUBSET Windows /\ RefersOnlyTo(windows)
  BY DEF PollingInv, TypeOK
<1>2. CASE windows = {}
  BY <1>2 DEF Once, Unmoved, schedulerVars, queues
<1>3. CASE windows # {}
  <2>1. PICK order \in Orders(windows), refill \in Orders(windows) \cup {<<>>} :
          enqueue_requests(order, refill)
    BY <1>3 DEF Once
  <2>2. order \in Seq(windows) /\ refill \in Seq(windows)
    BY <1>1, <2>1, OrdersType, EmptySeq
  <2>3. Head(order) \in windows /\ Tail(order) \in Seq(windows)
    BY <2>1, <2>2, HeadTailProperties DEF enqueue_requests
  <2>4. CASE active
    BY <2>1, <2>4 DEF enqueue_requests, Unmoved
  <2>5. CASE ~active
    <3>1. Append(standard_requests, Head(order)) \in Seq(windows)
      BY <1>1, <2>3, AppendProperties DEF RefersOnlyTo
    <3>2. pick_next(write_requests, meta_requests, Append(standard_requests, Head(order)),
                    refill, Tail(order))
      BY <2>1, <2>5 DEF enqueue_requests
    <3>3. Picks(write_requests)
      BY <1>1, <2>2, <2>3, <3>1, <3>2, pick_nextPicks DEF RefersOnlyTo
    <3> QED
      BY <2>1, <2>5, <3>3 DEF enqueue_requests
  <2> QED
    BY <2>4, <2>5
<1> QED
  BY <1>2, <1>3

\* The head of a queue keeps all but its requester.
LEMMA DisownedHead ==
    ASSUME NEW W \in SUBSET Windows, NEW w \in W, NEW q \in Seq(MetaSequences(W)), q # <<>>
    PROVE  Disowned(q, w) # <<>> /\ Head(Disowned(q, w)).sent = Head(q).sent
<1>1. Disowned(q, w) \in Seq(MetaSequences(W \ {w}))
  BY DisownedSequences
<1>2. 1 \in DOMAIN q /\ Head(q) = q[1] /\ q[1] \in MetaSequences(W)
  BY EmptySeq, LenProperties, HeadTailProperties, ElementOfSeq
<1>3. DOMAIN Disowned(q, w) = DOMAIN q /\ Disowned(q, w)[1].sent = q[1].sent
  BY <1>2 DEF Disowned, MetaSequences
<1>4. Disowned(q, w) # <<>>
  BY <1>1, <1>2, <1>3, EmptySeq
<1> QED
  BY <1>1, <1>3, <1>4, HeadTailProperties

LEMMA UserRequestOutcome ==
    ASSUME PollingInv, UserRequest
    PROVE  /\ UNCHANGED <<posted, polling, gui, connected, connecting, connecting2>>
           /\ \E wq \in Seq(Writes(windows)) :
                 /\ Offered(wq)
                 /\ \/ Unmoved /\ Queues(wq)
                    \/ gui = "idle" /\ MayRequest /\ MayStart /\ Picks(wq)
<1> DEFINE Same == UNCHANGED <<posted, polling, gui, connected, connecting, connecting2>>
           Result(wq) == /\ Offered(wq)
                         /\ \/ Unmoved /\ Queues(wq)
                            \/ gui = "idle" /\ MayRequest /\ MayStart /\ Picks(wq)
<1>1. windows \in SUBSET Windows /\ RefersOnlyTo(windows) /\ budget \in Budgets
  BY DEF PollingInv, TypeOK
<1>2. <<>> \in Seq(windows)
  BY EmptySeq
<1>3. CASE on_actionOnce_triggered
  <2>1. Once /\ gui = "idle" /\ MayRequest
    BY <1>3 DEF on_actionOnce_triggered
  <2>2. UNCHANGED <<posted, gui, connected, connecting, connecting2>> /\ Offered(write_requests)
    BY <1>3 DEF on_actionOnce_triggered, Offered
  <2>3. Same /\ Result(write_requests)
    BY <2>1, <2>2, OnceOutcome DEF Queues
  <2> QED
    BY <1>1, <2>3 DEF RefersOnlyTo
<1>4. CASE on_actionContinuous_triggered
  <2>1. /\ UNCHANGED <<posted, gui, connected, connecting, connecting2>> /\ gui = "idle"
        /\ MayRequest /\ Offered(write_requests)
    BY <1>4 DEF on_actionContinuous_triggered, Offered
  <2>2. Same /\ Result(write_requests)
    <3>1. CASE Once
      BY <2>1, <3>1, OnceOutcome DEF Queues
    <3>2. CASE UNCHANGED <<engineVars, polling, schedulerVars>>
      BY <2>1, <3>2 DEF Unmoved, schedulerVars, queues, Queues
    <3> QED
      BY <1>4, <3>1, <3>2 DEF on_actionContinuous_triggered
  <2> QED
    BY <1>1, <2>2 DEF RefersOnlyTo
<1>5. CASE \E w \in Windows : add_window(w)
  <2>1. Same /\ Result(write_requests)
    BY <1>5 DEF add_window, mainVars, Unmoved, schedulerVars, queues, Offered, Queues
  <2> QED
    BY <1>1, <2>1 DEF RefersOnlyTo
<1>6. CASE \E w \in Windows : register_window_destroyed(w)
  <2>1. PICK w \in Windows : register_window_destroyed(w)
    BY <1>6
  <2>2. PICK refill : remove_reference(w, refill)
    BY <2>1 DEF register_window_destroyed
  <2>3. w \in windows /\ Same /\ Offered(write_requests)
    BY <2>1, <2>2 DEF register_window_destroyed, remove_reference, Offered
  <2>4. meta_requests # <<>> =>
          meta_requests' # <<>> /\ Head(meta_requests').sent = Head(meta_requests).sent
    BY <1>1, <2>2, <2>3, DisownedHead DEF remove_reference, RefersOnlyTo
  <2>5. Unmoved
    BY <2>2, <2>4 DEF remove_reference, Unmoved
  <2>6. Queues(write_requests)
    <3>1. \A i \in DOMAIN write_requests : write_requests[i] \in Writes(windows)
      BY <1>1, ElementOfSeq, LenProperties DEF RefersOnlyTo
    <3> QED
      BY <2>2, <3>1 DEF remove_reference, Disowned, Writes, Queues
  <2> QED
    BY <1>1, <2>3, <2>5, <2>6 DEF RefersOnlyTo
<1>7. CASE \E w \in Requesters : RequestWrite(w)
  <2>1. PICK w \in Requesters : RequestWrite(w)
    BY <1>7
  <2> DEFINE write == [requester |-> w, id |-> MaxWrites + 1 - budget.writes]
             wq == Append(write_requests, write)
  <2>2. write \in Writes(windows) /\ w \in windows \cup {NoWindow}
    <3>1. budget.writes \in 1..MaxWrites
      BY <1>1, <2>1 DEF RequestWrite, Budgets
    <3>2. MaxWrites + 1 - budget.writes \in Nat
      BY <3>1
    <3> QED
      BY <2>1, <3>2 DEF RequestWrite, Writes
  <2>3. Offered(wq)
    BY <1>1, <2>1, <2>2 DEF RequestWrite, Offered, Budgets
  <2> HIDE DEF write
  <2>4. PICK refill \in Refills(windows) : modbus_on_write_request(write, refill)
    BY <2>1 DEF RequestWrite, write
  <2>5. refill \in Seq(windows) /\ wq \in Seq(Writes(windows))
    BY <1>1, <2>2, RefillsType, AppendProperties DEF RefersOnlyTo
  <2>6. Same /\ gui = "idle" /\ polling /\ MayRequest
    BY <2>1, <2>4 DEF RequestWrite, mainVars, modbus_on_write_request
  <2>7. CASE active
    BY <2>3, <2>4, <2>5, <2>6, <2>7 DEF modbus_on_write_request, Unmoved, Queues
  <2>8. CASE ~active
    <3>1. Picks(wq)
      BY <1>1, <1>2, <2>4, <2>5, <2>8, pick_nextPicks DEF modbus_on_write_request, RefersOnlyTo
    <3> QED
      BY <2>3, <2>5, <2>6, <2>8, <3>1 DEF MayStart
  <2> QED
    BY <2>7, <2>8
<1>8. CASE \E w \in Windows, length \in 1..MaxLength : RequestMetadata(w, length)
  <2>1. PICK w \in Windows, length \in 1..MaxLength : RequestMetadata(w, length)
    BY <1>8
  <2> DEFINE sequence == [requester |-> w, left |-> length, sent |-> FALSE]
  <2>2. sequence \in MetaSequences(windows) /\ Offered(write_requests)
    BY <1>1, <2>1 DEF RequestMetadata, MetaSequences, Offered, Budgets
  <2> HIDE DEF sequence
  <2>3. PICK refill \in Refills(windows) : modbus_on_poll_meta(sequence, refill)
    BY <2>1 DEF RequestMetadata, sequence
  <2>4. refill \in Seq(windows) /\ Append(meta_requests, sequence) \in Seq(MetaSequences(windows))
    BY <1>1, <2>2, RefillsType, AppendProperties DEF RefersOnlyTo
  <2>5. Same /\ gui = "idle" /\ polling /\ MayRequest
    BY <2>1, <2>3 DEF RequestMetadata, mainVars, modbus_on_poll_meta
  <2>6. Result(write_requests)
    <3>1. CASE active
      <4>1. meta_requests' = Append(meta_requests, sequence)
        BY <2>3, <3>1 DEF modbus_on_poll_meta
      <4>2. meta_requests # <<>> =>
              meta_requests' # <<>> /\ Head(meta_requests') = Head(meta_requests)
        BY <1>1, <2>2, <2>4, <4>1, AppendProperties, HeadTailProperties, EmptySeq DEF RefersOnlyTo
      <4> QED
        BY <2>2, <2>3, <3>1, <4>2 DEF modbus_on_poll_meta, Unmoved, Queues
    <3>2. CASE ~active
      <4>1. Picks(write_requests)
        BY <1>1, <1>2, <2>3, <2>4, <3>2, pick_nextPicks DEF modbus_on_poll_meta, RefersOnlyTo
      <4> QED
        BY <2>2, <2>5, <3>2, <4>1 DEF MayStart
    <3> QED
      BY <3>1, <3>2
  <2> QED
    BY <1>1, <2>5, <2>6 DEF RefersOnlyTo
<1> QED
  BY <1>3, <1>4, <1>5, <1>6, <1>7, <1>8 DEF UserRequest

-----------------------------------------------------------------------------
(* Whose thread it is.  Of the user only "exit" is needed.                 *)

LEMMA ConnectionInit ==
    ASSUME Init
    PROVE  ConnectionInv
BY DEF Init, ThreadInit, ConnectionInv

LEMMA ConnectionStep ==
    ASSUME PollingInv, ConnectionInv, "exit" \in Patience, [Next]_vars
    PROVE  ConnectionInv'
<1> USE DEF ConnectionInv
<1>1. gui \in GuiStates /\ worker \in WorkerStates
  BY DEF PollingInv, TypeOK, ThreadTypeOK, EngineTypeOK
<1> USE DEF GuiStates, WorkerStates
<1>2. CASE WorkerStep
  <2>1. worker # "none" /\ worker' # "none"
    BY <1>2 DEF WorkerStep, ThreadStep, ConnectSucceeds, ConnectFails, Wait, Wake, Quit, Succeed,
                Fail, IllegalAddress
  <2> QED
    BY <1>2, <2>1 DEF WorkerStep, mainVars
<1>3. CASE UserRequest
  <2>1. worker' = "none" <=> worker = "none"
    <3>1. CASE Unmoved
      BY <3>1 DEF Unmoved, engineVars
    <3>2. CASE \E wq : Picks(wq)
      BY <3>2 DEF Picks, HandsOver, Rests, Notified, engineVars
    <3> QED
      BY <1>3, <3>1, <3>2, UserRequestOutcome
  <2> QED
    BY <1>3, <2>1, UserRequestOutcome
<1>4. CASE ClickConnect
  BY <1>4 DEF ClickConnect, StartThread
<1>5. CASE ClickDisconnect
  BY <1>5 DEF ClickDisconnect, RequestQuit, Notified
<1>6. CASE closeEvent
  <2>1. ~connecting
    BY <1>6 DEF closeEvent, MayExit
  <2> QED
    BY <1>6, <2>1 DEF closeEvent, RequestQuit, Notified, mainVars, engineVars
<1>7. CASE GuiStep
  <2>1. CASE MainConnected
    BY <2>1 DEF MainConnected, Delivered, modbus_request, Notified
  <2>2. CASE MainConnectFailed
    BY <2>2 DEF MainConnectFailed, Delivered, post_disconnected, stop_modbus
  <2>3. CASE MainDeviceId
    BY <2>3 DEF MainDeviceId, Delivered, modbus_result
  <2>4. CASE MainNoDeviceId \/ MainIgnores \/ SchedulerDataLate
    BY <2>4 DEF MainNoDeviceId, MainIgnores, SchedulerDataLate, engineVars, mainVars
  <2>5. CASE SchedulerData
    BY <2>5 DEF SchedulerData, Delivered, modbus_on_data_deliver, modbus_result, mainVars
  <2>6. CASE modbus_on_error
    <3>1. UNCHANGED <<polling, gui, mainVars>>
      BY <2>6 DEF modbus_on_error
    <3>2. worker' = "none" <=> worker = "none"
      <4>1. CASE polling
        <5>1. PICK refill \in Refills(windows) :
                pick_next(write_requests, AfterMetaError, standard_requests, refill, <<>>)
          BY <2>6, <4>1 DEF modbus_on_error
        <5>2. worker' \in {worker, Notified}
          BY <5>1 DEF pick_next, poll_below_writes, poll_write_request, poll_meta_request,
                      poll_read_request, nothing_to_poll, modbus_request, engineVars
        <5> QED
          BY <5>2 DEF Notified
      <4>2. CASE ~polling
        BY <2>6, <4>2 DEF modbus_on_error, engineVars
      <4> QED
        BY <4>1, <4>2
    <3> QED
      BY <3>1, <3>2 DEF mainVars
  <2>7. CASE UndefinedBehaviour
    BY <2>7 DEF UndefinedBehaviour, Delivered, engineVars, mainVars
  <2>8. CASE post_connected
    BY <2>8 DEF post_connected, start_modbus, engineVars
  <2>9. CASE SchedulerContinue
    <3>1. PICK refill : modbus_on_data_continue(refill)
      BY <2>9 DEF SchedulerContinue
    <3>2. worker' \in {worker, Notified} /\ UNCHANGED polling
      BY <3>1 DEF modbus_on_data_continue, pick_next, poll_below_writes, poll_write_request,
                  poll_meta_request, poll_read_request, nothing_to_poll, modbus_request, engineVars
    <3> QED
      BY <2>9, <3>2 DEF SchedulerContinue, Notified, mainVars
  <2>10. CASE Disconnected \/ Exited
    BY <2>10 DEF Disconnected, Exited, post_disconnected, stop_modbus
  <2> QED
    BY <1>7, <2>1, <2>2, <2>3, <2>4, <2>5, <2>6, <2>7, <2>8, <2>9, <2>10 DEF GuiStep, Deliver
<1>8. CASE UNCHANGED vars
  BY <1>8 DEF vars, engineVars, mainVars
<1> QED
  BY <1>2, <1>3, <1>4, <1>5, <1>6, <1>7, <1>8 DEF Next, UserStep, UserRequest, Ended

\* There is a thread exactly while the program connects, is connected, or is
\* between the two.
THEOREM ConnectionInvariant == ASSUME "exit" \in Patience PROVE Spec => []ConnectionInv
<1>1. Init => ConnectionInv
  BY ConnectionInit
<1>2. PollingInv /\ ConnectionInv /\ [Next]_vars => ConnectionInv'
  BY ConnectionStep
<1> QED
  BY <1>1, <1>2, PollingInvariant, PTL DEF Spec

\* closeEvent() waits for the thread it owns, unless it is called while the
\* thread connects: then it closes the window over a running thread.
THEOREM NoThreadOutlivesWindow == ASSUME "exit" \in Patience PROVE Spec => []NoThreadAfterExit
<1>1. ConnectionInv => NoThreadAfterExit
  BY DEF ConnectionInv, NoThreadAfterExit
<1> QED
  BY <1>1, ConnectionInvariant, PTL


-----------------------------------------------------------------------------
(* One request at a time.                                                  *)

RequestInv == HandoverInv /\ DeviceIdInv /\ ExchangeInv

\* The answer on the way does not change with the thread's request unchanged.
LEMMA ShapesKept ==
    ASSUME request' = request, NEW sig
    PROVE  /\ ToMain(sig)' = ToMain(sig)
           /\ ToBoth(sig)' = ToBoth(sig)
           /\ ToScheduler(sig)' = ToScheduler(sig)
BY DEF ToMain, ToBoth, ToScheduler

\* What an emission adds when nothing is on the way.
LEMMA EmissionShape ==
    ASSUME NEW sig \in Signals, posted = <<>>, posted' = posted \o Emission(sig, request)
    PROVE  /\ posted' = IF polling THEN ToBoth(sig) ELSE ToMain(sig)
           /\ posted' # <<>> /\ Head(posted') = Event("main", sig, request)
<1>1. posted' = Emission(sig, request)
  <2>1. Emission(sig, request) \in Seq({Event("main", sig, request), Event("scheduler", sig, request)})
    BY DEF Emission
  <2> QED
    BY <2>1, ConcatEmptySeq
<1>2. posted' = IF polling THEN ToBoth(sig) ELSE ToMain(sig)
  BY <1>1 DEF Emission, ToBoth, ToMain
<1> QED
  BY <1>2, PostedShapes

\* The distinct records behind the kinds.
LEMMA Kinds ==
    /\ NoRequest.kind = "none" /\ DevIdRequest.kind = "devid"
    /\ NoRequest # DevIdRequest
    /\ \A r \in Requests \cup {NoRequest} :
          /\ r.kind \in ScheduledKinds \cup {"none", "devid"}
          /\ r = NoRequest <=> r.kind = "none"
BY DEF NoRequest, DevIdRequest, Requests, ScheduledKinds

\* A step that leaves the thread's request and the place of all alone, and the
\* head of the metadata queue, too.
LEMMA UnmovedKeeps ==
    ASSUME RequestInv, Unmoved,
           UNCHANGED <<posted, polling, gui, connected, connecting, connecting2>>
    PROVE  RequestInv'
<1>1. UNCHANGED <<worker, quit, request, regs, asked>>
  BY DEF Unmoved, engineVars
<1>2. \A sig : /\ ToMain(sig)' = ToMain(sig) /\ ToBoth(sig)' = ToBoth(sig)
               /\ ToScheduler(sig)' = ToScheduler(sig)
  BY <1>1, ShapesKept
<1>3. HandoverInv'
  BY <1>1, <1>2 DEF RequestInv, HandoverInv
<1>4. DeviceIdInv'
  BY <1>1, <1>2 DEF RequestInv, DeviceIdInv
<1>5. ExchangeInv'
  BY <1>1, <1>2 DEF RequestInv, ExchangeInv, Unmoved
<1> QED
  BY <1>3, <1>4, <1>5 DEF RequestInv

\* figure_next(), called when nothing is under way.
LEMMA PicksKeeps ==
    ASSUME PollingInv, ConnectionInv, RequestInv,
           polling, ~connecting2, asked = NoRequest, posted' = <<>>,
           NEW wq, Picks(wq), gui' = "idle",
           UNCHANGED <<polling, connected, connecting, connecting2>>
    PROVE  RequestInv'
<1>1. ~connecting /\ worker # "starting"
  BY DEF ConnectionInv, RequestInv, HandoverInv
<1>2. worker' # "starting"
  BY <1>1 DEF Picks, HandsOver, Rests, Notified, engineVars
<1>3. CASE HandsOver(wq)
  <2>1. request' # NoRequest /\ request'.kind # "devid"
    BY <1>3, Kinds DEF HandsOver, ScheduledKinds
  <2>2. worker' # "busy"
    BY <1>3 DEF HandsOver, Notified
  <2>3. HandoverInv'
    BY <1>2, <1>3, <2>1, <2>2 DEF HandsOver, HandoverInv
  <2>4. DeviceIdInv'
    BY <1>1, <1>3, <2>1 DEF HandsOver, DeviceIdInv
  <2>5. ExchangeInv'
    BY <1>1, <1>3, <2>1 DEF HandsOver, ExchangeInv
  <2> QED
    BY <2>3, <2>4, <2>5 DEF RequestInv
<1>4. CASE Rests(wq)
  <2>1. UNCHANGED <<worker, quit, request, regs, asked>>
    BY <1>4 DEF Rests, engineVars
  <2>2. HandoverInv'
    BY <1>2, <2>1, Kinds DEF HandoverInv, RequestInv
  <2>3. DeviceIdInv'
    BY <1>1, <2>1, Kinds DEF DeviceIdInv
  <2>4. ExchangeInv'
    BY <1>4, <2>1 DEF Rests, ExchangeInv
  <2> QED
    BY <2>2, <2>3, <2>4 DEF RequestInv
<1> QED
  BY <1>3, <1>4 DEF Picks

\* A user who waits for the device id only starts something when nothing at all
\* is under way.
LEMMA StartsFree ==
    ASSUME RequestInv, CarefulUser, MayRequest, MayStart
    PROVE  asked = NoRequest /\ posted = <<>> /\ ~connecting2
<1>1. ~DeviceIdUnderWay
  BY DEF MayRequest, CarefulUser
<1> SUFFICES ASSUME request = DevIdRequest
             PROVE  asked = NoRequest /\ posted = <<>>
  BY <1>1 DEF MayStart, RequestInv, ExchangeInv, DeviceIdUnderWay
<1>2. asked = NoRequest
  BY <1>1, Kinds DEF MayStart, RequestInv, HandoverInv, DeviceIdInv, DeviceIdUnderWay
<1>3. ASSUME posted # <<>> PROVE FALSE
  <2>1. PICK sig \in Signals : posted \in {ToMain(sig), ToBoth(sig), ToScheduler(sig)}
    BY <1>3 DEF RequestInv, HandoverInv
  <2>2. 1 \in DOMAIN posted /\ posted[1].req = DevIdRequest
    BY <2>1 DEF ToMain, ToBoth, ToScheduler, Event
  <2> QED
    BY <1>1, <2>2, Kinds DEF DeviceIdUnderWay
<1> QED
  BY <1>2, <1>3

LEMMA UserRequestKeeps ==
    ASSUME PollingInv, ConnectionInv, RequestInv, CarefulUser, UserRequest
    PROVE  RequestInv'
<1>1. UNCHANGED <<posted, polling, gui, connected, connecting, connecting2>>
  BY UserRequestOutcome
<1>2. CASE Unmoved
  BY <1>1, <1>2, UnmovedKeeps
<1>3. CASE gui = "idle" /\ MayRequest /\ MayStart /\ \E wq : Picks(wq)
  BY <1>1, <1>3, StartsFree, PicksKeeps DEF MayStart
<1> QED
  BY <1>2, <1>3, UserRequestOutcome

\* The worker's steps: it only answers what it was asked, once.
LEMMA WorkerKeeps ==
    ASSUME PollingInv, ConnectionInv, RequestInv, CarefulUser, WorkerStep
    PROVE  RequestInv'
<1> USE DEF RequestInv
<1>1. UNCHANGED <<polling, schedulerVars, gui, connected, connecting, connecting2>>
  BY DEF WorkerStep, mainVars
<1>2. /\ request \in Requests \cup {NoRequest} /\ worker \in WorkerStates
      /\ connected = polling
  BY DEF PollingInv, TypeOK, ThreadTypeOK, EngineTypeOK
<1>3. ASSUME UNCHANGED <<request, asked, posted>>, worker' \in {"waiting", "exited"},
             regs' = regs
      PROVE  RequestInv'
  <2>1. \A sig : /\ ToMain(sig)' = ToMain(sig) /\ ToBoth(sig)' = ToBoth(sig)
                 /\ ToScheduler(sig)' = ToScheduler(sig)
    BY <1>3, ShapesKept
  <2> QED
    BY <1>1, <1>3, <2>1 DEF HandoverInv, DeviceIdInv, ExchangeInv, schedulerVars, queues
<1>4. ASSUME NEW sig \in Signals, posted = <<>>, request' = request, asked' = NoRequest,
             worker' \in {"top", "exited"},
             posted' = posted \o Emission(sig, request),
             \/ worker = "starting"
             \/ asked # NoRequest /\ (sig = "complete" => regs' = request)
      PROVE  RequestInv'
  <2>1. /\ posted' = IF polling THEN ToBoth(sig)' ELSE ToMain(sig)'
        /\ posted' # <<>> /\ Head(posted') = Event("main", sig, request)
    BY <1>4, EmissionShape, ShapesKept
  <2>2. worker = "starting" => connecting /\ ~polling /\ ~connecting2 /\ request = NoRequest
    BY <1>2 DEF HandoverInv, DeviceIdInv, ConnectionInv
  <2>3. asked # NoRequest => asked = request
    BY DEF HandoverInv
  <2>4. HandoverInv'
    <3>1. Head(posted').sig = sig
      BY <2>1 DEF Event
    <3>2. Head(posted').sig = "complete" /\ (connecting2' \/ request'.kind \in ScheduledKinds)
            => regs' = request'
      BY <1>1, <1>4, <2>2, <3>1, Kinds DEF ScheduledKinds
    <3> QED
      BY <1>4, <2>1, <3>2, Kinds DEF HandoverInv
  <2>5. DeviceIdInv'
    <3>1. asked # NoRequest => ~connecting
      BY <2>3 DEF DeviceIdInv
    <3>2. Head(posted').to = "main"
      BY <2>1 DEF Event
    <3>3. gui = "post_connected" => ~polling
      BY <1>2 DEF ConnectionInv
    <3>4. connecting' => posted' = ToMain(sig)'
      BY <1>1, <1>2, <2>1 DEF ConnectionInv
    <3>5. polling' /\ asked'.kind = "devid" => connecting2'
      BY <1>4, Kinds
    <3> QED
      BY <1>1, <1>2, <1>4, <2>1, <2>2, <3>1, <3>2, <3>3, <3>4, <3>5 DEF DeviceIdInv, ConnectionInv
  <2>6. ExchangeInv'
    <3>1. polling /\ active => request.kind \in ScheduledKinds /\ posted' = ToBoth(sig)'
      BY <2>1 DEF ExchangeInv
    <3>2. polling /\ ~active => request = DevIdRequest
      BY <1>4, <2>2, <2>3 DEF ExchangeInv
    <3>3. gui # "figure_next"
      BY <1>2, <1>4, <2>2 DEF ExchangeInv, ConnectionInv
    <3> QED
      BY <1>1, <1>4, <3>1, <3>2, <3>3 DEF ExchangeInv, schedulerVars, queues
  <2> QED
    BY <2>4, <2>5, <2>6
<1>5. CASE ConnectSucceeds \/ ConnectFails
  <2>1. posted = <<>> /\ request = NoRequest /\ worker = "starting" /\ asked = NoRequest
    BY <1>5 DEF ConnectSucceeds, ConnectFails, HandoverInv, DeviceIdInv
  <2>2. \E sig \in Signals : posted' = posted \o Emission(sig, request)
    BY <1>5, <2>1 DEF ConnectSucceeds, ConnectFails, Signals
  <2>3. UNCHANGED <<request, asked>> /\ worker' \in {"top", "exited"}
    BY <1>5 DEF ConnectSucceeds, ConnectFails
  <2> QED
    BY <1>4, <2>1, <2>2, <2>3
<1>6. CASE Wait \/ Quit
  BY <1>3, <1>6 DEF Wait, Quit
<1>7. CASE Wake
  <2>1. asked # NoRequest /\ asked = request /\ posted = <<>>
    BY <1>7 DEF Wake, HandoverInv
  <2>2. UNCHANGED <<request, asked, posted>> /\ worker' = "busy"
    BY <1>7 DEF Wake
  <2>3. asked.kind = "write" => regs' = regs
    BY <1>7, <2>1, Kinds DEF Wake, HandoverInv
  <2>4. HandoverInv'
    BY <2>1, <2>2, <2>3 DEF HandoverInv
  <2> QED
    BY <1>1, <2>1, <2>2, <2>4 DEF DeviceIdInv, ExchangeInv, schedulerVars, queues
<1>8. CASE Succeed
  <2>1. asked # NoRequest /\ asked = request /\ posted = <<>>
    BY <1>8 DEF Succeed, HandoverInv
  <2>2. regs' = request
    <3>1. CASE request.kind = "write"
      BY <1>8, <2>1, <3>1 DEF Succeed, do_write_request, HandoverInv
    <3>2. CASE request.kind = "meta"
      BY <1>8, <3>2 DEF Succeed, do_custom_request_tcp
    <3>3. CASE request.kind \notin {"write", "meta"}
      BY <1>8, <3>3 DEF Succeed, read_registers
    <3> QED
      BY <3>1, <3>2, <3>3
  <2>3. /\ posted' = posted \o Emission("complete", request) /\ asked' = NoRequest
        /\ worker' = "top" /\ request' = request
    BY <1>8 DEF Succeed
  <2> QED
    BY <1>4, <2>1, <2>2, <2>3 DEF Signals
<1>9. CASE Fail
  <2>1. asked # NoRequest /\ asked = request /\ posted = <<>>
    BY <1>9 DEF Fail, HandoverInv
  <2>2. /\ posted' = posted \o Emission("error", request) /\ asked' = NoRequest
        /\ worker' = "top" /\ request' = request
    BY <1>9 DEF Fail
  <2> QED
    BY <1>4, <2>1, <2>2 DEF Signals
<1>10. CASE IllegalAddress
  BY <1>10 DEF IllegalAddress, NoRangeMatches, CarefulUser
<1> QED
  BY <1>5, <1>6, <1>7, <1>8, <1>9, <1>10 DEF WorkerStep, ThreadStep


\* Connecting, disconnecting and leaving.
LEMMA UserConnectionKeeps ==
    ASSUME PollingInv, ConnectionInv, RequestInv, CarefulUser,
           ClickConnect \/ ClickDisconnect \/ closeEvent
    PROVE  RequestInv'
<1> USE DEF RequestInv
<1>1. CASE ClickConnect
  <2>1. /\ posted' = <<>> /\ request' = NoRequest /\ asked' = NoRequest /\ worker' = "starting"
        /\ connecting' /\ ~connecting2' /\ gui' = "idle"
        /\ UNCHANGED <<polling, schedulerVars, connected>> /\ ~connected
    BY <1>1 DEF ClickConnect, StartThread
  <2>2. ~polling
    BY <2>1 DEF ConnectionInv
  <2> QED
    BY <2>1, <2>2, Kinds DEF HandoverInv, DeviceIdInv, ExchangeInv, schedulerVars, queues
<1>2. ASSUME RequestQuit, connected, gui = "idle", MayDisconnect,
             gui' \in {"join_disconnect", "join_exit"},
             UNCHANGED <<posted, polling, schedulerVars, connected, connecting, connecting2>>
      PROVE  RequestInv'
  <2>1. UNCHANGED <<request, asked, regs>> /\ quit' /\ worker' = Notified /\ worker # "busy"
    BY <1>2 DEF RequestQuit
  <2>2. worker' # "busy" /\ (worker' = "starting" => worker = "starting")
    BY <2>1 DEF Notified
  <2>3. \A sig : /\ ToMain(sig)' = ToMain(sig) /\ ToBoth(sig)' = ToBoth(sig)
                 /\ ToScheduler(sig)' = ToScheduler(sig)
    BY <2>1, ShapesKept
  <2>4. ~(active /\ current_action = "METADATA")
    BY <1>2 DEF MayDisconnect, CarefulUser
  <2>5. HandoverInv'
    BY <1>2, <2>1, <2>2, <2>3 DEF HandoverInv
  <2>6. DeviceIdInv'
    BY <1>2, <2>1, <2>3 DEF DeviceIdInv
  <2>7. ExchangeInv'
    BY <1>2, <2>1, <2>3, <2>4 DEF ExchangeInv, schedulerVars, queues
  <2> QED
    BY <2>5, <2>6, <2>7
<1>3. CASE ClickDisconnect
  BY <1>2, <1>3 DEF ClickDisconnect
<1>4. CASE closeEvent /\ connected
  BY <1>2, <1>4 DEF closeEvent, MayExit, mainVars
<1>5. CASE closeEvent /\ ~connected
  <2>1. /\ gui = "idle" /\ gui' = "closed" /\ ~polling
        /\ UNCHANGED <<engineVars, posted, polling, schedulerVars, connected, connecting,
                       connecting2>>
    BY <1>5 DEF closeEvent, mainVars, ConnectionInv
  <2>2. \A sig : /\ ToMain(sig)' = ToMain(sig) /\ ToBoth(sig)' = ToBoth(sig)
                 /\ ToScheduler(sig)' = ToScheduler(sig)
    BY <2>1, ShapesKept DEF engineVars
  <2> QED
    BY <2>1, <2>2 DEF HandoverInv, DeviceIdInv, ExchangeInv, engineVars, schedulerVars, queues
<1> QED
  BY <1>1, <1>3, <1>4, <1>5

\* The main window's slots.
LEMMA MainSlotsKeep ==
    ASSUME PollingInv, ConnectionInv, RequestInv, CarefulUser,
           MainConnected \/ MainDeviceId \/ MainConnectFailed \/ MainNoDeviceId \/ MainIgnores
    PROVE  RequestInv'
<1> USE DEF RequestInv
<1>1. PICK sig : Delivered("main", sig)
  BY DEF MainConnected, MainDeviceId, MainConnectFailed, MainNoDeviceId, MainIgnores
<1>2. /\ gui = "idle" /\ asked = NoRequest /\ sig \in Signals /\ posted # <<>>
      /\ Head(posted).req = request /\ Head(posted).sig = sig
      /\ \/ posted = ToMain(sig) /\ posted' = <<>>
         \/ posted = ToBoth(sig) /\ posted' = ToScheduler(sig)
  BY <1>1, DeliveredAnswer DEF Event
<1>3. \A s \in Signals : /\ ToMain(s) # ToBoth(sig) /\ (ToMain(s) = ToMain(sig) => s = sig)
  BY <1>2, ShapesDiffer
<1>4. CASE MainConnected
  <2>1. /\ connecting /\ ~connecting' /\ connecting2' /\ gui' = "post_connected"
        /\ request' = DevIdRequest /\ asked' = DevIdRequest
        /\ worker # "busy" /\ worker' = Notified
        /\ UNCHANGED <<polling, schedulerVars>>
    BY <1>4 DEF MainConnected, modbus_request
  <2>2. posted' = <<>> /\ ~polling
    BY <1>2, <1>3, <2>1 DEF DeviceIdInv, ConnectionInv
  <2>3. worker # "starting"
    BY <1>2 DEF HandoverInv
  <2>4. worker' \notin {"busy", "starting"}
    BY <2>1, <2>3 DEF Notified
  <2> QED
    BY <2>1, <2>2, <2>4, Kinds DEF HandoverInv, DeviceIdInv, ExchangeInv, schedulerVars, queues
\* The others leave the request as it is.
<1>5. ASSUME UNCHANGED <<request, asked>>, worker' \in {worker, "none"}, quit' = quit,
             regs' = regs \/ request = DevIdRequest,
             ~connecting2', ~connecting', gui' = "idle",
             \/ UNCHANGED <<polling, schedulerVars>>
             \/ stop_modbus /\ ~polling
      PROVE  RequestInv'
  <2>1. \A s : /\ ToMain(s)' = ToMain(s) /\ ToBoth(s)' = ToBoth(s)
               /\ ToScheduler(s)' = ToScheduler(s)
    BY <1>5, ShapesKept
  <2>2. UNCHANGED <<polling, meta_requests, current_action, active, current_request>>
    BY <1>5 DEF stop_modbus, schedulerVars, queues, PollingInv, TypeOK, ThreadTypeOK
  <2>3. posted' # <<>> => Head(posted').sig = sig
    BY <1>2, PostedShapes DEF Event
  <2>4. HandoverInv'
    <3>1. worker' # "starting"
      BY <1>2, <1>5 DEF HandoverInv
    <3>2. posted' # <<>> => posted' = ToScheduler(sig)'
      BY <1>2, <2>1
    <3>3. posted' # <<>> /\ Head(posted').sig = "complete" /\ request.kind \in ScheduledKinds
            => regs' = request
      BY <1>2, <1>5, <2>3, Kinds DEF HandoverInv, ScheduledKinds
    <3>4. worker' = "busy" => FALSE
      BY <1>2, <1>5 DEF HandoverInv
    <3> QED
      BY <1>2, <1>5, <3>1, <3>2, <3>3, <3>4, Kinds DEF HandoverInv
  <2>5. DeviceIdInv'
    BY <1>2, <1>5, Kinds DEF DeviceIdInv
  <2>6. ExchangeInv'
    <3>1. polling /\ active => posted' = ToScheduler(sig)'
      <4> SUFFICES ASSUME polling, active
                   PROVE  posted' = ToScheduler(sig)'
        OBVIOUS
      <4>1. request.kind \in ScheduledKinds /\ asked # request
        BY <1>2, Kinds DEF ExchangeInv, ScheduledKinds
      <4>2. PICK s \in Signals : posted \in {ToBoth(s), ToScheduler(s)}
        BY <4>1 DEF ExchangeInv
      <4>3. posted = ToBoth(sig)
        BY <1>2, <4>2, ShapesDiffer
      <4> QED
        BY <1>2, <2>1, <4>3, ShapesDiffer
    <3> QED
      BY <1>2, <1>5, <2>1, <2>2, <3>1 DEF ExchangeInv
  <2> QED
    BY <2>4, <2>5, <2>6
<1>6. CASE MainConnectFailed
  <2>1. ~polling
    BY <1>6 DEF MainConnectFailed, ConnectionInv
  <2> QED
    BY <1>2, <1>5, <1>6, <2>1 DEF MainConnectFailed, post_disconnected
<1>7. CASE MainDeviceId
  <2>1. request = DevIdRequest
    BY <1>7 DEF MainDeviceId, DeviceIdInv
  <2> QED
    BY <1>2, <1>5, <1>7, <2>1 DEF MainDeviceId, modbus_result
<1>8. CASE MainNoDeviceId \/ MainIgnores
  BY <1>2, <1>5, <1>8 DEF MainNoDeviceId, MainIgnores, engineVars, mainVars
<1> QED
  BY <1>4, <1>6, <1>7, <1>8


\* The scheduler's slots and the handlers that wait.  That no slot reaches into
\* an empty queue is part of it.
LEMMA SchedulerSlotsKeep ==
    ASSUME PollingInv, ConnectionInv, RequestInv, CarefulUser,
           SchedulerDataLate \/ SchedulerData \/ modbus_on_error \/ UndefinedBehaviour
    PROVE  RequestInv'
<1> USE DEF RequestInv
<1>1. PICK sig : Delivered("scheduler", sig)
  BY DEF SchedulerDataLate, SchedulerData, modbus_on_error, UndefinedBehaviour
<1>2. /\ gui = "idle" /\ asked = NoRequest /\ sig \in Signals
      /\ Head(posted).to = "scheduler" /\ posted = ToScheduler(sig) /\ posted' = <<>>
      /\ posted # <<>>
  BY <1>1, DeliveredAnswer DEF Event
<1>3. ~connecting2 /\ ~connecting
  <2>1. \A s \in Signals : posted # ToMain(s)
    BY <1>2, ShapesDiffer
  <2> QED
    BY <1>2, <2>1 DEF DeviceIdInv
<1>4. current_action = "METADATA" => polling /\ meta_requests # <<>> /\ Head(meta_requests).sent
  <2> SUFFICES ASSUME current_action = "METADATA"
               PROVE  polling /\ meta_requests # <<>> /\ Head(meta_requests).sent
    OBVIOUS
  <2>1. polling /\ active
    BY <1>2 DEF ExchangeInv
  <2>2. request.kind \in ScheduledKinds /\ ActionFor[request.kind] = "METADATA"
    BY <2>1 DEF ExchangeInv
  <2>3. request.kind = "meta"
    BY <2>2 DEF ScheduledKinds, ActionFor
  <2> QED
    BY <2>1, <2>3 DEF ExchangeInv
<1>5. worker \notin {"busy", "starting"}
  BY <1>2 DEF HandoverInv
<1>6. CASE SchedulerDataLate \/ (modbus_on_error /\ ~polling)
  <2>1. /\ ~polling /\ active' = FALSE
        /\ UNCHANGED <<engineVars, polling, current_action, gui, mainVars>>
    BY <1>6 DEF SchedulerDataLate, modbus_on_error
  <2> QED
    BY <1>2, <1>3, <1>4, <1>5, <2>1, Kinds
       DEF HandoverInv, DeviceIdInv, ExchangeInv, engineVars, mainVars
<1>7. CASE SchedulerData
  <2>1. /\ active' = FALSE /\ gui' = "figure_next" /\ polling
        /\ UNCHANGED <<worker, quit, request, asked, current_action, polling, mainVars>>
    BY <1>7 DEF SchedulerData, modbus_on_data_deliver, modbus_result
  <2> QED
    BY <1>2, <1>3, <1>5, <2>1, Kinds DEF HandoverInv, DeviceIdInv, ExchangeInv, mainVars
<1>8. CASE modbus_on_error /\ polling
  <2>1. PICK refill \in Refills(windows) :
          pick_next(write_requests, AfterMetaError, standard_requests, refill, <<>>)
    BY <1>8 DEF modbus_on_error
  <2>2. windows \in SUBSET Windows /\ RefersOnlyTo(windows)
    BY DEF PollingInv, TypeOK
  <2>3. refill \in Seq(windows) /\ <<>> \in Seq(windows)
    BY <2>1, <2>2, RefillsType, EmptySeq
  <2>4. AfterMetaError \in Seq(MetaSequences(windows))
    BY <1>4, <2>2, HeadTailProperties DEF AfterMetaError, RefersOnlyTo
  <2>5. Picks(write_requests)
    BY <2>1, <2>2, <2>3, <2>4, pick_nextPicks DEF RefersOnlyTo
  <2>6. UNCHANGED <<polling, gui, connected, connecting, connecting2>>
    BY <1>8 DEF modbus_on_error, mainVars
  <2> QED
    BY <1>2, <1>3, <1>8, <2>5, <2>6, PicksKeeps
<1>9. CASE UndefinedBehaviour
  BY <1>4, <1>9 DEF UndefinedBehaviour, MetaAnswerUndefined, MetaErrorUndefined
<1> QED
  BY <1>6, <1>7, <1>8, <1>9 DEF SchedulerDataLate

LEMMA WaitingHandlersKeep ==
    ASSUME PollingInv, ConnectionInv, RequestInv, CarefulUser,
           post_connected \/ SchedulerContinue \/ Disconnected \/ Exited
    PROVE  RequestInv'
<1> USE DEF RequestInv
<1>1. CASE post_connected
  <2>1. /\ gui = "post_connected" /\ gui' = "idle" /\ polling' = TRUE /\ active' = FALSE
        /\ ~polling
        /\ UNCHANGED <<engineVars, posted, current_action, connecting, connecting2>>
    BY <1>1 DEF post_connected, start_modbus
  <2>2. connecting2 /\ request = DevIdRequest /\ current_action # "METADATA" /\ ~connecting
    BY <2>1 DEF DeviceIdInv, ExchangeInv
  <2>3. \A sig : /\ ToMain(sig)' = ToMain(sig) /\ ToBoth(sig)' = ToBoth(sig)
                 /\ ToScheduler(sig)' = ToScheduler(sig)
    BY <2>1, ShapesKept DEF engineVars
  <2> QED
    BY <2>1, <2>2, <2>3, Kinds DEF HandoverInv, DeviceIdInv, ExchangeInv, engineVars
<1>2. CASE SchedulerContinue
  <2>1. PICK refill \in Refills(windows) : modbus_on_data_continue(refill)
    BY <1>2 DEF SchedulerContinue
  <2>2. windows \in SUBSET Windows /\ RefersOnlyTo(windows)
    BY DEF PollingInv, TypeOK
  <2>3. refill \in Seq(windows) /\ <<>> \in Seq(windows)
    BY <2>1, <2>2, RefillsType, EmptySeq
  <2>4. Picks(write_requests) /\ UNCHANGED polling
    BY <2>1, <2>2, <2>3, pick_nextPicks DEF modbus_on_data_continue, RefersOnlyTo
  <2>5. gui' = "idle" /\ UNCHANGED <<posted, connected, connecting, connecting2>>
    BY <1>2 DEF SchedulerContinue, mainVars
  <2>6. polling /\ ~connecting2 /\ asked = NoRequest /\ posted = <<>>
    BY <1>2 DEF SchedulerContinue, ConnectionInv, DeviceIdInv, ExchangeInv
  <2> QED
    BY <2>4, <2>5, <2>6, PicksKeeps
<1>3. CASE Disconnected \/ Exited
  <2>1. /\ gui \in {"join_disconnect", "join_exit"} /\ gui' \in {"idle", "closed"}
        /\ worker' = "none" /\ ~polling' /\ ~connecting' /\ ~connecting2'
        /\ UNCHANGED <<quit, request, regs, asked, posted, current_action>>
    BY <1>3 DEF Disconnected, Exited, post_disconnected, stop_modbus
  <2>2. current_action # "METADATA"
    BY <2>1 DEF ExchangeInv
  <2>3. \A sig : /\ ToMain(sig)' = ToMain(sig) /\ ToBoth(sig)' = ToBoth(sig)
                 /\ ToScheduler(sig)' = ToScheduler(sig)
    BY <2>1, ShapesKept
  <2> QED
    BY <2>1, <2>2, <2>3 DEF HandoverInv, DeviceIdInv, ExchangeInv
<1> QED
  BY <1>1, <1>2, <1>3

LEMMA RequestInit ==
    ASSUME Init
    PROVE  RequestInv
BY Kinds DEF Init, ThreadInit, SchedulerInit, RequestInv, HandoverInv, DeviceIdInv, ExchangeInv

LEMMA RequestStep ==
    ASSUME PollingInv, ConnectionInv, RequestInv, CarefulUser, [Next]_vars
    PROVE  RequestInv'
<1>1. CASE WorkerStep
  BY <1>1, WorkerKeeps
<1>2. CASE GuiStep
  BY <1>2, MainSlotsKeep, SchedulerSlotsKeep, WaitingHandlersKeep DEF GuiStep, Deliver
<1>3. CASE UserStep
  BY <1>3, UserRequestKeeps, UserConnectionKeeps DEF UserStep, UserRequest
<1>4. CASE UNCHANGED vars
  <2>1. Unmoved /\ UNCHANGED <<posted, polling, gui, connected, connecting, connecting2>>
    BY <1>4 DEF vars, Unmoved, schedulerVars, queues, mainVars
  <2> QED
    BY <2>1, UnmovedKeeps
<1> QED
  BY <1>1, <1>2, <1>3, <1>4 DEF Next, Ended

\* The worker, the main window and the scheduler agree at every moment on which
\* request is under way and where it is.
THEOREM CarefulInvariant == ASSUME CarefulUser PROVE Spec => [](PollingInv /\ CarefulInv)
<1>1. Init => RequestInv
  BY RequestInit
<1>2. PollingInv /\ ConnectionInv /\ RequestInv /\ [Next]_vars => RequestInv'
  BY RequestStep
<1>3. Spec => []ConnectionInv
  BY ConnectionInvariant DEF CarefulUser
<1>4. PollingInv /\ ConnectionInv /\ RequestInv => PollingInv /\ CarefulInv
  BY DEF CarefulInv, RequestInv
<1> QED
  BY <1>1, <1>2, <1>3, <1>4, PollingInvariant, PTL DEF Spec


-----------------------------------------------------------------------------
(* What follows from it.                                                   *)

\* Only the scheduler's copy of an answer counts as one under way.
LEMMA AnswersCounted ==
    ASSUME PollingInv, CarefulInv
    PROVE  /\ \A sig \in Signals : posted \in {ToBoth(sig), ToScheduler(sig)}
                /\ request.kind \in ScheduledKinds => \E i \in Nat : AnswersUnderWay = {i}
           /\ posted = <<>> \/ request.kind \notin ScheduledKinds => AnswersUnderWay = {}
<1>1. ASSUME NEW sig \in Signals, posted = ToBoth(sig), request.kind \in ScheduledKinds
      PROVE  AnswersUnderWay = {2}
  BY <1>1 DEF AnswersUnderWay, ToBoth, Event
<1>2. ASSUME NEW sig \in Signals, posted = ToScheduler(sig), request.kind \in ScheduledKinds
      PROVE  AnswersUnderWay = {1}
  BY <1>2 DEF AnswersUnderWay, ToScheduler, Event
<1>3. ASSUME posted = <<>> PROVE AnswersUnderWay = {}
  BY <1>3 DEF AnswersUnderWay
<1>4. ASSUME posted # <<>>, request.kind \notin ScheduledKinds PROVE AnswersUnderWay = {}
  <2>1. PICK sig \in Signals : posted \in {ToMain(sig), ToBoth(sig), ToScheduler(sig)}
    BY <1>4 DEF CarefulInv, HandoverInv
  <2>2. \A i \in DOMAIN posted : posted[i].req = request
    BY <2>1 DEF ToMain, ToBoth, ToScheduler, Event
  <2> QED
    BY <1>4, <2>2 DEF AnswersUnderWay
<1> QED
  BY <1>1, <1>2, <1>3, <1>4

\* The Scheduler is a single request-response mechanism: modbus_request() is
\* only called when the last request has been answered and dispatched.
THEOREM OneRequestAtATime == ASSUME CarefulUser PROVE Spec => []SingleRequestResponse
<1>1. PollingInv /\ CarefulInv => SingleRequestResponse
  <2> SUFFICES ASSUME PollingInv, CarefulInv, polling
               PROVE  Cardinality(AnswersUnderWay) + (IF asked.kind \in ScheduledKinds THEN 1 ELSE 0)
                        = (IF active THEN 1 ELSE 0)
    BY DEF SingleRequestResponse
  <2>1. Cardinality({}) = 0 /\ \A i \in Nat : Cardinality({i}) = 1
    BY FS_EmptySet, FS_Singleton
  <2>2. asked \in {NoRequest, request} /\ (posted # <<>> => asked = NoRequest)
    BY DEF CarefulInv, HandoverInv
  <2>3. NoRequest.kind \notin ScheduledKinds /\ DevIdRequest.kind \notin ScheduledKinds
    BY Kinds DEF ScheduledKinds
  <2>4. CASE active
    <3>1. request.kind \in ScheduledKinds
      BY <2>4 DEF CarefulInv, ExchangeInv
    <3>2. CASE asked = request
      <4>1. posted = <<>>
        BY <2>2, <2>3, <3>1, <3>2
      <4>2. Cardinality(AnswersUnderWay) = 0
        BY <2>1, <4>1, AnswersCounted
      <4> QED
        BY <2>4, <3>1, <3>2, <4>2
    <3>3. CASE asked # request
      <4>1. PICK sig \in Signals : posted \in {ToBoth(sig), ToScheduler(sig)}
        BY <2>4, <3>3 DEF CarefulInv, ExchangeInv
      <4>2. PICK i \in Nat : AnswersUnderWay = {i}
        BY <3>1, <4>1, AnswersCounted
      <4> QED
        BY <2>1, <2>2, <2>3, <2>4, <3>3, <4>2
    <3> QED
      BY <3>2, <3>3
  <2>5. CASE ~active
    <3>1. (asked = NoRequest /\ posted = <<>>) \/ request = DevIdRequest
      BY <2>5 DEF CarefulInv, ExchangeInv
    <3>2. asked.kind \notin ScheduledKinds /\ AnswersUnderWay = {}
      BY <2>2, <2>3, <3>1, AnswersCounted
    <3> QED
      BY <2>1, <2>5, <3>2
  <2> QED
    BY <2>4, <2>5
<1> QED
  BY <1>1, CarefulInvariant, PTL

\* modbus_on_data() and modbus_on_error(), which are not told what they answer,
\* find the fields of the request that is answered, and its data in m_regs.
THEOREM RepliesAttributed == ASSUME CarefulUser PROVE Spec => []ReplyAttribution
<1>1. PollingInv /\ CarefulInv => ReplyAttribution
  <2> SUFFICES ASSUME PollingInv, CarefulInv, NEW i \in AnswersUnderWay, polling, gui = "idle"
               PROVE  /\ request = posted[i].req
                      /\ current_action = ActionFor[posted[i].req.kind]
                      /\ current_request \in {posted[i].req.win, NoWindow}
                      /\ posted[i].sig = "complete" => regs = posted[i].req
    BY DEF ReplyAttribution
  <2>1. posted # <<>>
    BY DEF AnswersUnderWay
  <2>2. PICK sig \in Signals : posted \in {ToMain(sig), ToBoth(sig), ToScheduler(sig)}
    BY <2>1 DEF CarefulInv, HandoverInv
  <2>3. posted[i].req = request /\ posted[i].sig = sig /\ Head(posted).sig = sig
    BY <2>2 DEF AnswersUnderWay, ToMain, ToBoth, ToScheduler, Event
  <2>4. request.kind \in ScheduledKinds
    BY <2>3 DEF AnswersUnderWay
  <2>5. active
    BY <2>1, <2>4, Kinds DEF CarefulInv, ExchangeInv, ScheduledKinds
  <2> QED
    BY <2>1, <2>3, <2>4, <2>5 DEF CarefulInv, ExchangeInv, HandoverInv
<1> QED
  BY <1>1, CarefulInvariant, PTL

\* The main window shows as the device id what was read as the device id.
THEOREM DeviceIdAttributed == ASSUME CarefulUser PROVE Spec => []DeviceIdAttribution
<1>1. PollingInv /\ CarefulInv => DeviceIdAttribution
  <2> SUFFICES ASSUME PollingInv, CarefulInv, posted # <<>>, connecting2
               PROVE  /\ Head(posted).req = DevIdRequest
                      /\ Head(posted).sig = "complete" => regs = DevIdRequest
    BY DEF DeviceIdAttribution
  <2>1. request = DevIdRequest
    BY DEF CarefulInv, DeviceIdInv
  <2>2. PICK sig \in Signals : posted \in {ToMain(sig), ToBoth(sig), ToScheduler(sig)}
    BY DEF CarefulInv, HandoverInv
  <2>3. Head(posted).req = request
    BY <2>2, PostedShapes DEF Event
  <2> QED
    BY <2>1, <2>3 DEF CarefulInv, HandoverInv
<1> QED
  BY <1>1, CarefulInvariant, PTL

\* While the worker may be sending a raw PDU, the sequence that owns its memory
\* stays at the head of the metadata queue.
THEOREM PduOwned == ASSUME CarefulUser PROVE Spec => []RawPduOwned
<1>1. PollingInv /\ CarefulInv => RawPduOwned
  <2> SUFFICES ASSUME PollingInv, CarefulInv, asked.kind = "meta", polling
               PROVE  meta_requests # <<>> /\ Head(meta_requests).sent /\ gui # "figure_next"
    BY DEF RawPduOwned
  <2>1. asked # NoRequest /\ asked # DevIdRequest
    BY Kinds
  <2>2. asked = request
    BY <2>1 DEF CarefulInv, HandoverInv
  <2>3. active
    BY <2>1, <2>2 DEF CarefulInv, ExchangeInv
  <2> QED
    BY <2>1, <2>2, <2>3 DEF CarefulInv, ExchangeInv
<1> QED
  BY <1>1, CarefulInvariant, PTL

\* No slot reaches into an empty deque or decodes an answer nobody asked for.
THEOREM NoSlotUndefined == ASSUME CarefulUser PROVE Spec => []NoUndefinedBehaviour
<1>1. PollingInv /\ CarefulInv => NoUndefinedBehaviour
  BY DEF CarefulInv, ExchangeInv, NoUndefinedBehaviour
<1> QED
  BY <1>1, CarefulInvariant, PTL


-----------------------------------------------------------------------------
(* The writes.                                                             *)

\* The ids are numbers, and those given only become more.
LEMMA GivenGrows ==
    ASSUME budget \in Budgets, budget' \in Budgets, budget'.writes <= budget.writes
    PROVE  Given \subseteq Given' /\ Given \subseteq Int /\ Given' \subseteq Int
BY DEF Given, Budgets

\* A write that is asked for comes after all others.
LEMMA OfferedInOrder ==
    ASSUME PollingInv, PollingInv', WritesInv, NEW wq, Offered(wq)
    PROVE  QueuedInOrder(wq, Given') /\ Given \subseteq Given'
<1>1. budget \in Budgets /\ budget' \in Budgets /\ write_requests \in Seq(Writes(Windows))
  BY DEF PollingInv, TypeOK, SchedulerTypeOK, RefersOnlyTo
<1>2. Given \subseteq Given' /\ Given \subseteq Int /\ Given' \subseteq Int
  BY <1>1, GivenGrows DEF Offered, Budgets
<1>3. CASE wq = write_requests
  BY <1>2, <1>3 DEF WritesInv, QueuedInOrder
<1>4. ASSUME budget'.writes = budget.writes - 1, NEW w \in windows \cup {NoWindow},
             wq = Append(write_requests, [requester |-> w, id |-> MaxWrites + 1 - budget.writes])
      PROVE  QueuedInOrder(wq, Given')
  <2> DEFINE write == [requester |-> w, id |-> MaxWrites + 1 - budget.writes]
  <2>1. windows \subseteq Windows
    BY DEF PollingInv, TypeOK
  <2>2. /\ write.id \in Given' /\ \A id \in Given : id < write.id
        /\ write \in Writes(Windows)
    BY <1>1, <1>4, <2>1, SMTT(30) DEF Given, Budgets, Writes
  <2> HIDE DEF write
  <2>3. /\ wq = Append(write_requests, write) /\ Len(write_requests) \in Nat
        /\ DOMAIN write_requests = 1..Len(write_requests)
        /\ DOMAIN wq = 1..(Len(write_requests) + 1)
        /\ wq[Len(write_requests) + 1] = write
        /\ \A i \in 1..Len(write_requests) : wq[i] = write_requests[i]
    BY <1>1, <1>4, <2>2, AppendProperties, LenProperties DEF write
  <2>4. \A i \in DOMAIN write_requests : write_requests[i].id < write.id
    BY <2>2 DEF WritesInv, QueuedInOrder
  <2>5. \A j \in DOMAIN device : device[j].id < write.id
    BY <2>2 DEF WritesInv, DeviceInOrder
  <2>6. asked.kind = "write" => asked.id < write.id
    BY <2>2 DEF WritesInv, AskedInOrder
  <2> SUFFICES ASSUME NEW i \in DOMAIN wq
               PROVE  /\ wq[i].id \in Given'
                      /\ \A j \in DOMAIN wq : i < j => wq[i].id < wq[j].id
                      /\ \A j \in DOMAIN device : device[j].id < wq[i].id
                      /\ asked.kind = "write" => asked.id < wq[i].id
    BY DEF QueuedInOrder
  <2>7. CASE i \in DOMAIN write_requests
    <3>1. /\ wq[i].id \in Given' /\ wq[i] = write_requests[i]
          /\ \A j \in DOMAIN device : device[j].id < wq[i].id
          /\ asked.kind = "write" => asked.id < wq[i].id
      BY <1>2, <2>3, <2>7 DEF WritesInv, QueuedInOrder
    <3>2. ASSUME NEW j \in DOMAIN wq, i < j PROVE wq[i].id < wq[j].id
      <4>1. CASE j \in DOMAIN write_requests
        BY <2>3, <2>7, <3>2, <4>1 DEF WritesInv, QueuedInOrder
      <4>2. CASE j = Len(write_requests) + 1
        BY <2>3, <2>4, <2>7, <4>2
      <4> QED
        BY <2>3, <4>1, <4>2
    <3> QED
      BY <3>1, <3>2
  <2>8. CASE i = Len(write_requests) + 1
    BY <2>2, <2>3, <2>5, <2>6, <2>8
  <2> QED
    BY <2>3, <2>7, <2>8
<1> QED
  BY <1>2, <1>3, <1>4 DEF Offered

\* A step that performs no write and takes none from the queue.
LEMMA WritesQueued ==
    ASSUME PollingInv, PollingInv', WritesInv, NEW wq, QueuedInOrder(wq, Given'),
           Given \subseteq Given', device' = device,
           asked' \in {asked, NoRequest, DevIdRequest},
           DOMAIN write_requests' \subseteq DOMAIN wq,
           \A i \in DOMAIN write_requests' : write_requests'[i].id = wq[i].id
    PROVE  WritesInv'
<1>1. asked'.kind = "write" => asked' = asked
  BY Kinds
<1>2. DeviceInOrder'
  BY DEF WritesInv, DeviceInOrder
<1>3. AskedInOrder'
  BY <1>1 DEF WritesInv, AskedInOrder
<1>4. QueuedInOrder(write_requests, Given)'
  <2>1. ASSUME NEW i \in DOMAIN write_requests'
        PROVE  /\ i \in DOMAIN wq /\ write_requests'[i].id = wq[i].id
               /\ wq[i].id \in Given'
               /\ \A j \in DOMAIN wq : i < j => wq[i].id < wq[j].id
               /\ \A j \in DOMAIN device : device[j].id < wq[i].id
               /\ asked.kind = "write" => asked.id < wq[i].id
    BY <2>1 DEF QueuedInOrder
  <2> QED
    BY <1>1, <2>1 DEF QueuedInOrder
<1> QED
  BY <1>2, <1>3, <1>4 DEF WritesInv

\* figure_next() takes the first write of the queue.
LEMMA PicksInOrder ==
    ASSUME PollingInv, PollingInv', WritesInv, asked = NoRequest,
           NEW wq \in Seq(Writes(Windows)), QueuedInOrder(wq, Given'), Given \subseteq Given',
           Picks(wq)
    PROVE  WritesInv'
<1>1. device' = device
  BY DEF Picks, HandsOver, Rests, engineVars
<1>2. CASE HandsOver(wq) /\ request'.kind = "write"
  <2>1. /\ wq # <<>> /\ asked'.kind = "write" /\ asked'.id = Head(wq).id
        /\ write_requests' = Tail(wq)
    BY <1>2 DEF HandsOver
  <2>2. /\ Len(wq) \in Nat /\ DOMAIN wq = 1..Len(wq) /\ 1 \in DOMAIN wq
        /\ Head(wq) = wq[1] /\ DOMAIN Tail(wq) = 1..(Len(wq) - 1)
        /\ \A i \in 1..(Len(wq) - 1) : Tail(wq)[i] = wq[i + 1]
    BY <2>1, HeadTailProperties, LenProperties, EmptySeq
  <2>3. DeviceInOrder'
    BY <1>1 DEF WritesInv, DeviceInOrder
  <2>4. AskedInOrder'
    BY <1>1, <2>1, <2>2 DEF AskedInOrder, QueuedInOrder
  <2>5. QueuedInOrder(write_requests, Given)'
    <3> SUFFICES ASSUME NEW i \in 1..(Len(wq) - 1)
                 PROVE  /\ wq[i + 1].id \in Given'
                        /\ \A j \in 1..(Len(wq) - 1) : i < j => wq[i + 1].id < wq[j + 1].id
                        /\ \A j \in DOMAIN device : device[j].id < wq[i + 1].id
                        /\ wq[1].id < wq[i + 1].id
      BY <1>1, <2>1, <2>2 DEF QueuedInOrder
    <3>1. i + 1 \in DOMAIN wq /\ 1 < i + 1
      BY <2>2
    <3> QED
      BY <2>2, <3>1 DEF QueuedInOrder
  <2> QED
    BY <2>3, <2>4, <2>5 DEF WritesInv
<1>3. CASE \/ HandsOver(wq) /\ request'.kind # "write"
           \/ Rests(wq)
  <2>1. asked'.kind # "write" /\ write_requests' = <<>>
    BY <1>3, Kinds DEF HandsOver, Rests, engineVars
  <2>2. DeviceInOrder'
    BY <1>1 DEF WritesInv, DeviceInOrder
  <2> QED
    BY <2>1, <2>2 DEF WritesInv, AskedInOrder, QueuedInOrder
<1> QED
  BY <1>2, <1>3 DEF Picks



\* The device performs the write that was asked for, with its values.
LEMMA PerformedInOrder ==
    ASSUME PollingInv, WritesInv, asked.kind = "write",
           device' = Append(device, asked), asked' = NoRequest,
           UNCHANGED <<write_requests, budget>>
    PROVE  WritesInv'
<1>1. device \in Seq(Contents) /\ asked \in Requests \cup {NoRequest}
  BY DEF PollingInv, TypeOK, ThreadTypeOK, EngineTypeOK
<1>2. Given' = Given /\ asked'.kind # "write"
  BY Kinds DEF Given
<1>3. /\ Len(device) \in Nat /\ DOMAIN device = 1..Len(device)
      /\ DOMAIN device' = 1..(Len(device) + 1)
      /\ device'[Len(device) + 1] = asked
      /\ \A i \in 1..Len(device) : device'[i] = device[i]
  <2>1. asked \in Contents
    BY <1>1 DEF Contents
  <2> QED
    BY <1>1, <2>1, AppendProperties, LenProperties
<1>4. asked.id \in Given /\ \A i \in DOMAIN device : device[i].id < asked.id
  BY DEF WritesInv, AskedInOrder
<1>5. DeviceInOrder'
  <2> SUFFICES ASSUME NEW i \in DOMAIN device'
               PROVE  /\ device'[i].kind = "write" /\ device'[i].id \in Given
                      /\ \A j \in DOMAIN device' : i < j => device'[i].id < device'[j].id
    BY <1>2 DEF DeviceInOrder
  <2>1. CASE i \in DOMAIN device
    <3>1. device'[i] = device[i] /\ device[i].kind = "write" /\ device[i].id \in Given
      BY <1>3, <2>1 DEF WritesInv, DeviceInOrder
    <3>2. ASSUME NEW j \in DOMAIN device', i < j PROVE device'[i].id < device'[j].id
      <4>1. CASE j \in DOMAIN device
        BY <1>3, <2>1, <3>2, <4>1 DEF WritesInv, DeviceInOrder
      <4>2. CASE j = Len(device) + 1
        BY <1>3, <1>4, <2>1, <4>2
      <4> QED
        BY <1>3, <4>1, <4>2
    <3> QED
      BY <3>1, <3>2
  <2>2. CASE i = Len(device) + 1
    BY <1>3, <1>4, <2>2
  <2> QED
    BY <1>3, <2>1, <2>2
<1>6. QueuedInOrder(write_requests, Given)'
  <2> SUFFICES ASSUME NEW i \in DOMAIN write_requests
               PROVE  /\ write_requests[i].id \in Given
                      /\ \A j \in DOMAIN write_requests :
                            i < j => write_requests[i].id < write_requests[j].id
                      /\ \A j \in DOMAIN device' : device'[j].id < write_requests[i].id
    BY <1>2 DEF QueuedInOrder
  <2>1. /\ write_requests[i].id \in Given
        /\ \A j \in DOMAIN write_requests : i < j => write_requests[i].id < write_requests[j].id
        /\ \A j \in DOMAIN device : device[j].id < write_requests[i].id
        /\ asked.id < write_requests[i].id
    BY DEF WritesInv, QueuedInOrder
  <2> QED
    BY <1>3, <2>1
<1> QED
  BY <1>2, <1>5, <1>6 DEF WritesInv, AskedInOrder

\* A step that asks for no write and takes none from the queue, or drops them all.
LEMMA WritesUntouched ==
    ASSUME PollingInv, PollingInv', WritesInv,
           UNCHANGED <<device, budget>>, asked' \in {asked, NoRequest, DevIdRequest},
           write_requests' \in {write_requests, <<>>}
    PROVE  WritesInv'
<1>1. Given' = Given /\ QueuedInOrder(write_requests, Given')
  BY DEF Given, WritesInv
<1>2. /\ DOMAIN write_requests' \subseteq DOMAIN write_requests
      /\ \A i \in DOMAIN write_requests' : write_requests'[i].id = write_requests[i].id
  OBVIOUS
<1> QED
  BY <1>1, <1>2, WritesQueued

\* figure_next() with the queue as it stands.
LEMMA WritesPicked ==
    ASSUME PollingInv, PollingInv', WritesInv, asked = NoRequest,
           Picks(write_requests), budget' = budget
    PROVE  WritesInv'
<1>1. Given' = Given /\ QueuedInOrder(write_requests, Given')
  BY DEF Given, WritesInv
<1>2. write_requests \in Seq(Writes(Windows))
  BY DEF PollingInv, TypeOK, SchedulerTypeOK, RefersOnlyTo
<1> QED
  BY <1>1, <1>2, PicksInOrder

LEMMA WritesInit ==
    ASSUME Init
    PROVE  WritesInv
BY Kinds DEF Init, ThreadInit, SchedulerInit, WritesInv, DeviceInOrder, AskedInOrder, QueuedInOrder

LEMMA WritesStep ==
    ASSUME PollingInv, PollingInv', CarefulInv, WritesInv, CarefulUser, [Next]_vars
    PROVE  WritesInv'
<1> USE DEF CarefulInv
<1>1. CASE UserRequest
  <2>1. PICK wq \in Seq(Writes(windows)) :
          /\ Offered(wq)
          /\ \/ Unmoved /\ Queues(wq)
             \/ MayRequest /\ MayStart /\ Picks(wq)
    BY <1>1, UserRequestOutcome
  <2>2. QueuedInOrder(wq, Given') /\ Given \subseteq Given'
    BY <2>1, OfferedInOrder
  <2>3. CASE Unmoved /\ Queues(wq)
    BY <2>2, <2>3, WritesQueued DEF Unmoved, Queues, engineVars
  <2>4. CASE MayRequest /\ MayStart /\ Picks(wq)
    <3>1. asked = NoRequest
      BY <2>4, StartsFree DEF RequestInv
    <3>2. wq \in Seq(Writes(Windows))
      <4>1. Writes(windows) \subseteq Writes(Windows)
        BY DEF PollingInv, TypeOK, Writes
      <4> QED
        BY <2>1, <4>1
    <3> QED
      BY <2>2, <2>4, <3>1, <3>2, PicksInOrder
  <2> QED
    BY <2>1, <2>3, <2>4
<1>2. CASE WorkerStep
  <2>1. UNCHANGED <<write_requests, budget>>
    BY <1>2 DEF WorkerStep, schedulerVars, queues
  <2>2. ASSUME worker = "busy", request.kind = "write", do_write_request, asked' = NoRequest
        PROVE  WritesInv'
    <3>1. asked = request /\ regs = asked
      BY <2>2 DEF HandoverInv
    <3> QED
      BY <2>1, <2>2, <3>1, PerformedInOrder DEF do_write_request
  <2>3. CASE Succeed
    <3>1. CASE request.kind = "write"
      BY <2>2, <2>3, <3>1 DEF Succeed
    <3>2. CASE request.kind # "write"
      BY <2>1, <2>3, <3>2, WritesUntouched DEF Succeed, do_custom_request_tcp, read_registers
    <3> QED
      BY <3>1, <3>2
  <2>4. CASE Fail
    <3>1. asked' = NoRequest /\ worker = "busy"
      BY <2>4 DEF Fail
    <3> QED
      BY <2>1, <2>2, <2>4, <3>1, WritesUntouched DEF Fail
  <2>5. CASE IllegalAddress \/ ConnectSucceeds \/ ConnectFails \/ Wait \/ Wake \/ Quit
    <3>1. UNCHANGED device /\ asked' \in {asked, NoRequest}
      BY <2>5 DEF IllegalAddress, ConnectSucceeds, ConnectFails, Wait, Wake, Quit
    <3> QED
      BY <2>1, <3>1, WritesUntouched
  <2> QED
    BY <1>2, <2>3, <2>4, <2>5 DEF WorkerStep, ThreadStep
<1>3. CASE ClickConnect \/ ClickDisconnect \/ closeEvent
  <2>1. /\ device' = device /\ asked' \in {asked, NoRequest}
        /\ write_requests' = write_requests
        /\ budget'.writes = budget.writes
    BY <1>3 DEF ClickConnect, ClickDisconnect, closeEvent, StartThread, RequestQuit, engineVars,
                schedulerVars, queues, PollingInv, TypeOK, Budgets
  <2>2. Given' = Given /\ QueuedInOrder(write_requests, Given')
    BY <2>1 DEF Given, WritesInv
  <2> QED
    BY <2>1, <2>2, WritesQueued
<1>4. CASE GuiStep
  <2>1. budget' = budget
    BY <1>4 DEF GuiStep, Deliver, MainConnected, MainDeviceId, MainConnectFailed, MainNoDeviceId,
                MainIgnores, SchedulerDataLate, SchedulerData, modbus_on_error,
                UndefinedBehaviour, post_connected, SchedulerContinue, Disconnected, Exited
  <2>2. windows \in SUBSET Windows /\ RefersOnlyTo(windows)
    BY DEF PollingInv, TypeOK
  <2>3. CASE modbus_on_error /\ polling
    <3>1. asked = NoRequest
      BY <2>3, DeliveredAnswer DEF modbus_on_error
    <3>2. Picks(write_requests)
      <4>1. PICK refill \in Refills(windows) :
              pick_next(write_requests, AfterMetaError, standard_requests, refill, <<>>)
        BY <2>3 DEF modbus_on_error
      <4>2. refill \in Seq(windows) /\ <<>> \in Seq(windows)
        BY <2>2, <4>1, RefillsType, EmptySeq
      <4>3. AfterMetaError \in Seq(MetaSequences(windows))
        <5>1. current_action = "METADATA" => meta_requests # <<>>
          BY <2>3 DEF modbus_on_error, MetaErrorUndefined
        <5> QED
          BY <2>2, <5>1, HeadTailProperties DEF AfterMetaError, RefersOnlyTo
      <4> QED
        BY <2>2, <4>1, <4>2, <4>3, pick_nextPicks DEF RefersOnlyTo
    <3> QED
      BY <2>1, <3>1, <3>2, WritesPicked
  <2>4. CASE SchedulerContinue
    <3>1. asked = NoRequest
      BY <2>4 DEF SchedulerContinue, ExchangeInv
    <3>2. Picks(write_requests)
      <4>1. PICK refill \in Refills(windows) : modbus_on_data_continue(refill)
        BY <2>4 DEF SchedulerContinue
      <4>2. refill \in Seq(windows) /\ <<>> \in Seq(windows)
        BY <2>2, <4>1, RefillsType, EmptySeq
      <4> QED
        BY <2>2, <4>1, <4>2, pick_nextPicks DEF modbus_on_data_continue, RefersOnlyTo
    <3> QED
      BY <2>1, <3>1, <3>2, WritesPicked
  <2>5. CASE MainConnected \/ MainDeviceId \/ MainNoDeviceId \/ MainIgnores
    <3>1. device' = device /\ asked' \in {asked, DevIdRequest} /\ write_requests' = write_requests
      BY <2>5 DEF MainConnected, MainDeviceId, MainNoDeviceId, MainIgnores, modbus_request,
                  modbus_result, engineVars, schedulerVars, queues
    <3> QED
      BY <2>1, <3>1, WritesUntouched
  <2>6. CASE MainConnectFailed \/ Disconnected \/ Exited \/ post_connected
    <3>1. device' = device /\ asked' = asked /\ write_requests' \in {write_requests, <<>>}
      BY <2>6 DEF MainConnectFailed, Disconnected, Exited, post_connected, post_disconnected,
                  stop_modbus, start_modbus, engineVars, queues
    <3> QED
      BY <2>1, <3>1, WritesUntouched
  <2>7. CASE SchedulerDataLate \/ SchedulerData \/ UndefinedBehaviour
             \/ (modbus_on_error /\ ~polling)
    <3>1. device' = device /\ asked' = asked /\ write_requests' = write_requests
      BY <2>7 DEF SchedulerDataLate, SchedulerData, modbus_on_error, UndefinedBehaviour,
                  modbus_on_data_deliver, modbus_result, engineVars, schedulerVars, queues
    <3> QED
      BY <2>1, <3>1, WritesUntouched
  <2> QED
    BY <1>4, <2>3, <2>4, <2>5, <2>6, <2>7 DEF GuiStep, Deliver
<1>5. CASE UNCHANGED vars
  BY <1>5, WritesUntouched DEF vars, engineVars, schedulerVars, queues
<1> QED
  BY <1>1, <1>2, <1>3, <1>4, <1>5 DEF Next, UserStep, UserRequest, Ended

\* A write goes through the queue, the thread and m_regs to the device, and
\* none overtakes another on the way.
THEOREM WritesInvariant == ASSUME CarefulUser PROVE Spec => []WritesInv
<1>1. Init => WritesInv
  BY WritesInit
<1>2. /\ PollingInv /\ PollingInv' /\ CarefulInv /\ WritesInv /\ [Next]_vars => WritesInv'
  BY WritesStep
<1> QED
  BY <1>1, <1>2, CarefulInvariant, PTL DEF Spec

\* The device performs each write once, in the order of the requests and with
\* the values that were to be written.
THEOREM WritesPerformed == ASSUME CarefulUser PROVE Spec => []WritesFaithful
<1>1. WritesInv => WritesFaithful
  BY DEF WritesInv, DeviceInOrder, WritesFaithful
<1> QED
  BY <1>1, WritesInvariant, PTL


=============================================================================
