------------------------------ MODULE Scheduler ------------------------------
(***************************************************************************)
(* The poll scheduler of scheduler.cpp: three queues of requests (writes   *)
(* before metadata before register reads), at most one of them handed to   *)
(* the ModbusThread, the next one picked by figure_next() when it has been *)
(* answered.                                                               *)
(*                                                                         *)
(* Every operator here is a handler, or the part of one between two uses   *)
(* of the thread's mutex, that MainWindow.tla makes an action of the GUI   *)
(* thread.  polling_complete is a direct call: the parameter "refill" is   *)
(* what the slot connected to it enqueues while the signal is being        *)
(* emitted.                                                                *)
(***************************************************************************)
EXTENDS ModbusThread, FiniteSets

CONSTANT
    PluginLoaded   \* MetadataWrapper::loaded()

ASSUME PluginAssumption == PluginLoaded \in BOOLEAN

VARIABLES
    write_requests,     \* m_write_requests
    meta_requests,      \* m_meta_requests
    standard_requests,  \* m_standard_requests
    current_action,     \* m_current_action
    active,             \* m_active
    current_request     \* m_current_request

queues == <<write_requests, meta_requests, standard_requests>>
schedulerVars == <<queues, current_action, active, current_request>>

\* The entries of the write and metadata queues that name windows of W only.
Writes(W) == [requester : W \cup {NoWindow}, id : Nat]

\* left: registers from current_register to last_register; sent: cur.request
\* has been created.
MetaSequences(W) == [requester : W \cup {NoWindow}, left : Nat, sent : BOOLEAN]

Actions == {"INACTIVE", "WRITE", "METADATA", "READ"}

\* Every window the scheduler refers to is one of W.
RefersOnlyTo(W) ==
    /\ write_requests \in Seq(Writes(W))
    /\ meta_requests \in Seq(MetaSequences(W))
    /\ standard_requests \in Seq(W)
    /\ current_request \in W \cup {NoWindow}

SchedulerTypeOK ==
    /\ RefersOnlyTo(Windows)
    /\ current_action \in Actions
    /\ active \in BOOLEAN

SchedulerInit ==
    /\ write_requests = <<>>
    /\ meta_requests = <<>>
    /\ standard_requests = <<>>
    /\ current_action = "INACTIVE"
    /\ active = FALSE
    /\ current_request = NoWindow

-----------------------------------------------------------------------------
(* figure_next(), for the queues wq, mq and sq found on entry.             *)

\* poll_meta_request() polls the head, or pops it when it is dead.
Live(m) == PluginLoaded /\ m.left > 0 /\ m.requester # NoWindow

\* Mutant of poll_write_request: the request is not popped.
poll_write_request_Kept(wq, mq, sq) ==
    /\ wq # <<>>
    /\ modbus_request([kind |-> "write", win |-> Head(wq).requester, id |-> Head(wq).id])
    /\ write_requests' = wq
    /\ meta_requests' = mq
    /\ standard_requests' = sq
    /\ current_action' = "WRITE"
    /\ active' = TRUE
    /\ current_request' = Head(wq).requester

\* Mutant of poll_write_request: m_current_request is not set.
poll_write_request_Anonymous(wq, mq, sq) ==
    /\ wq # <<>>
    /\ modbus_request([kind |-> "write", win |-> Head(wq).requester, id |-> Head(wq).id])
    /\ write_requests' = Tail(wq)
    /\ meta_requests' = mq
    /\ standard_requests' = sq
    /\ current_action' = "WRITE"
    /\ active' = TRUE
    /\ UNCHANGED current_request

poll_write_request(wq, mq, sq) ==
    /\ wq # <<>>
    /\ modbus_request([kind |-> "write", win |-> Head(wq).requester, id |-> Head(wq).id])
    /\ write_requests' = Tail(wq)
    /\ meta_requests' = mq
    /\ standard_requests' = sq
    /\ current_action' = "WRITE"
    /\ active' = TRUE
    /\ current_request' = Head(wq).requester

\* Mutant of poll_meta_request: the head is popped when it is sent.
poll_meta_request_Popped(mq, sq) ==
    /\ mq # <<>>
    /\ Live(Head(mq))
    /\ modbus_request([kind |-> "meta", win |-> Head(mq).requester, id |-> 0])
    /\ write_requests' = <<>>
    /\ meta_requests' = Tail(mq)
    /\ standard_requests' = sq
    /\ current_action' = "METADATA"
    /\ active' = TRUE
    /\ current_request' = Head(mq).requester

\* The head of mq stays queued until its answer has been decoded: the raw PDU
\* the worker sends is owned by it.
poll_meta_request(mq, sq) ==
    /\ mq # <<>>
    /\ Live(Head(mq))
    /\ modbus_request([kind |-> "meta", win |-> Head(mq).requester, id |-> 0])
    /\ write_requests' = <<>>
    /\ meta_requests' = [mq EXCEPT ![1].sent = TRUE]
    /\ standard_requests' = sq
    /\ current_action' = "METADATA"
    /\ active' = TRUE
    /\ current_request' = Head(mq).requester

\* polling_complete is emitted when the read takes the last window, after the
\* request is out: what its slot enqueues comes next, then whatever the caller
\* still enqueues.
poll_read_request(mq, sq, refill, after) ==
    /\ sq # <<>>
    /\ modbus_request([kind |-> "read", win |-> Head(sq), id |-> 0])
    /\ write_requests' = <<>>
    /\ meta_requests' = mq
    /\ standard_requests' = (IF Tail(sq) = <<>> THEN refill ELSE Tail(sq)) \o after
    /\ current_action' = "READ"
    /\ active' = TRUE
    /\ current_request' = Head(sq)

nothing_to_poll ==
    /\ write_requests' = <<>>
    /\ meta_requests' = <<>>
    /\ standard_requests' = <<>>
    /\ current_action' = "INACTIVE"
    /\ active' = FALSE
    /\ current_request' = NoWindow
    /\ UNCHANGED engineVars

\* k dead metadata sequences are popped.  With a read waiting the loop pops at
\* most one and lets the read through, otherwise it pops until one is live.
poll_below_writes(k, mq, sq, refill, after) ==
    LET rest == SubSeq(mq, k + 1, Len(mq))
    IN  /\ \A i \in 1..k : ~Live(mq[i])
        /\ \/ (sq = <<>> \/ k = 0) /\ poll_meta_request(rest, sq \o after)
           \/ (mq = <<>> \/ k = 1) /\ poll_read_request(rest, sq, refill, after)
           \/ sq = <<>> /\ rest = <<>> /\ nothing_to_poll

\* The body of figure_next(), past the test of m_active.
pick_next(wq, mq, sq, refill, after) ==
    \/ poll_write_request(wq, mq, sq \o after)
    \/ wq = <<>> /\ \E k \in 0..Len(mq) : poll_below_writes(k, mq, sq, refill, after)

-----------------------------------------------------------------------------
(* Operations called by the main window and its children.                  *)

start_modbus ==
    /\ ~polling
    /\ polling' = TRUE
    /\ write_requests' = <<>>
    /\ meta_requests' = <<>>
    /\ standard_requests' = <<>>
    /\ current_request' = NoWindow
    /\ active' = FALSE
    /\ UNCHANGED current_action

\* polling_complete, emitted with m_polling_thread already null, has no effect:
\* enqueue_request() ignores the slot's requests.
stop_modbus ==
    /\ polling' = FALSE
    /\ UNCHANGED current_action
    /\ IF polling
       THEN /\ write_requests' = <<>>
            /\ meta_requests' = <<>>
            /\ standard_requests' = <<>>
            /\ current_request' = NoWindow
            /\ active' = FALSE
       ELSE UNCHANGED <<queues, active, current_request>>

\* enqueue_request() for the windows of order, one after the other: if nothing
\* is active the first call starts a request, the others only append.
enqueue_requests(order, refill) ==
    /\ polling
    /\ order # <<>>
    /\ IF active
       THEN /\ standard_requests' = standard_requests \o order
            /\ UNCHANGED <<write_requests, meta_requests, current_action, active,
                           current_request, engineVars>>
       ELSE pick_next(write_requests, meta_requests, Append(standard_requests, Head(order)),
                      refill, Tail(order))
    /\ UNCHANGED polling

\* Mutant of modbus_on_write_request: the write is sent at once.
modbus_on_write_request_AtOnce(write, refill) ==
    /\ polling
    /\ pick_next(Append(write_requests, write), meta_requests, standard_requests, refill, <<>>)
    /\ UNCHANGED polling

modbus_on_write_request(write, refill) ==
    /\ polling
    /\ IF active
       THEN /\ write_requests' = Append(write_requests, write)
            /\ UNCHANGED <<meta_requests, standard_requests, current_action, active,
                           current_request, engineVars>>
       ELSE pick_next(Append(write_requests, write), meta_requests, standard_requests, refill, <<>>)
    /\ UNCHANGED polling

modbus_on_poll_meta(sequence, refill) ==
    /\ polling
    /\ IF active
       THEN /\ meta_requests' = Append(meta_requests, sequence)
            /\ UNCHANGED <<write_requests, standard_requests, current_action, active,
                           current_request, engineVars>>
       ELSE pick_next(write_requests, Append(meta_requests, sequence), standard_requests, refill, <<>>)
    /\ UNCHANGED polling

\* queue with the requester of every entry of screen made null.
Disowned(queue, screen) ==
    [i \in DOMAIN queue |-> IF queue[i].requester = screen
                            THEN [queue[i] EXCEPT !.requester = NoWindow]
                            ELSE queue[i]]

\* The enumerations of a set of positions in increasing order (there is one).
Increasing(positions) ==
    {f \in [1..Cardinality(positions) -> positions] :
        \A i, j \in DOMAIN f : i < j => f[i] < f[j]}

\* The entries of queue at the positions that kept enumerates.
Entries(queue, kept) == [i \in DOMAIN kept |-> queue[kept[i]]]

\* Mutant of remove_reference: the read queue is treated like the others.
remove_reference_ReadsNull(screen, refill) ==
    /\ write_requests' = Disowned(write_requests, screen)
    /\ meta_requests' = Disowned(meta_requests, screen)
    /\ standard_requests' = [i \in DOMAIN standard_requests |->
                                IF standard_requests[i] = screen THEN NoWindow
                                                                 ELSE standard_requests[i]]
    /\ current_request' = IF current_request = screen THEN NoWindow ELSE current_request
    /\ UNCHANGED <<current_action, active, polling, engineVars>>

\* Mutant of remove_reference: the sequences of the window are erased.
remove_reference_MetaErased(screen, refill) ==
    /\ write_requests' = Disowned(write_requests, screen)
    /\ meta_requests' = SelectSeq(meta_requests, LAMBDA m : m.requester # screen)
    /\ standard_requests' = SelectSeq(standard_requests, LAMBDA w : w # screen)
    /\ current_request' = IF current_request = screen THEN NoWindow ELSE current_request
    /\ UNCHANGED <<current_action, active, polling, engineVars>>

\* Mutant of remove_reference: m_current_request is forgotten.
remove_reference_CurrentKept(screen, refill) ==
    /\ write_requests' = Disowned(write_requests, screen)
    /\ meta_requests' = Disowned(meta_requests, screen)
    /\ standard_requests' = SelectSeq(standard_requests, LAMBDA w : w # screen)
    /\ UNCHANGED <<current_request, current_action, active, polling, engineVars>>

\* Every reference of the three queues and of the current request is dropped.
\* polling_complete is emitted if that emptied the read queue; a window is only
\* queued while a request is active, so what the slot enqueues is appended.
remove_reference(screen, refill) ==
    /\ write_requests' = Disowned(write_requests, screen)
    /\ meta_requests' = Disowned(meta_requests, screen)
    /\ \E kept \in Increasing({i \in DOMAIN standard_requests : standard_requests[i] # screen}) :
         LET rest == Entries(standard_requests, kept)
         IN  standard_requests' = IF rest = <<>> /\ standard_requests # <<>> THEN refill ELSE rest
    /\ current_request' = IF current_request = screen THEN NoWindow ELSE current_request
    /\ UNCHANGED <<current_action, active, polling, engineVars>>

-----------------------------------------------------------------------------
(* Slots of the thread's signals.                                          *)

\* m_meta_requests.front() and pop_front() on an empty deque, or decoding an
\* answer for a request that was never created: undefined behaviour.
MetaAnswerUndefined == ~(meta_requests # <<>> /\ Head(meta_requests).sent)
MetaErrorUndefined == meta_requests = <<>>

\* modbus_result(): the values are moved out of m_regs.
modbus_result ==
    /\ worker # "busy"
    /\ regs' = NoRequest
    /\ UNCHANGED <<worker, quit, request, asked, device>>

\* poll_response_metadata(): the register after this one is next.
AfterMetaAnswer ==
    [meta_requests EXCEPT ![1].left = IF @ > 0 THEN @ - 1 ELSE 0]

\* modbus_on_data() up to the call of figure_next(), while polling.  The
\* answers of modbus_result(), get_unit_id() and get_start_reg() are taken
\* together: only the GUI thread changes what they read.
modbus_on_data_deliver ==
    /\ polling
    /\ active' = FALSE
    /\ IF current_action \in {"METADATA", "READ"}
       THEN modbus_result
       ELSE worker # "busy" /\ UNCHANGED <<worker, quit, request, regs, asked, device>>
    /\ meta_requests' = IF current_action = "METADATA" THEN AfterMetaAnswer ELSE meta_requests
    /\ UNCHANGED <<write_requests, standard_requests, current_action, current_request, polling>>

\* The rest of modbus_on_data(), which leaves m_active false.
modbus_on_data_continue(refill) ==
    /\ pick_next(write_requests, meta_requests, standard_requests, refill, <<>>)
    /\ UNCHANGED polling

\* modbus_on_error(): the sequence of a refused metadata request is given up.
AfterMetaError ==
    IF current_action = "METADATA" THEN Tail(meta_requests) ELSE meta_requests

=============================================================================
