------------------------------- MODULE Polling -------------------------------
(***************************************************************************)
(* What the polling core of MainWindow.tla is supposed to guarantee.       *)
(***************************************************************************)
EXTENDS MainWindow

\* A request the worker will not look at before something else wakes it: it
\* was handed over while the worker was not in wait, and there is no test for
\* it in run().
Lost == worker = "waiting" /\ asked # NoRequest

ScheduledKinds == {"read", "write", "meta"}

AnswersUnderWay ==
    {i \in DOMAIN posted : posted[i].to = "scheduler" /\ posted[i].req.kind \in ScheduledKinds}

-----------------------------------------------------------------------------
(* Safety.                                                                 *)

\* The Scheduler is a single request-response mechanism (scheduler.h): exactly
\* while it is active there is one request with the worker or one answer on its
\* way back, never two.
SingleRequestResponse ==
    polling =>
        Cardinality(AnswersUnderWay) + (IF asked.kind \in ScheduledKinds THEN 1 ELSE 0)
            = (IF active THEN 1 ELSE 0)

\* The action an answer of kind k has to be dispatched under.
ActionFor == [read |-> "READ", write |-> "WRITE", meta |-> "METADATA"]

\* modbus_on_data() and modbus_on_error() do not say which request they answer:
\* when they run, current_action, current_request and the thread's request
\* fields and m_regs are still those of that request.
ReplyAttribution ==
    \A i \in AnswersUnderWay : polling /\ gui = "idle" =>
        LET answer == posted[i]
        IN  /\ request = answer.req
            /\ current_action = ActionFor[answer.req.kind]
            /\ current_request \in {answer.req.win, NoWindow}
            /\ answer.sig = "complete" => regs = answer.req

\* What MainWindow shows as the device id is the answer to its own request.
DeviceIdAttribution ==
    posted # <<>> /\ Head(posted).to = "main" /\ connecting2 =>
        /\ Head(posted).req = DevIdRequest
        /\ Head(posted).sig = "complete" => regs = DevIdRequest

\* The scheduler only rests when all three queues are empty.
WorkConserving ==
    polling /\ gui = "idle" /\ ~active =>
        write_requests = <<>> /\ meta_requests = <<>> /\ standard_requests = <<>>

\* No queue and no current request refers to a window that was deleted.
NoDangling ==
    \A w \in closed :
        /\ current_request # w
        /\ \A i \in DOMAIN write_requests : write_requests[i].requester # w
        /\ \A i \in DOMAIN meta_requests : meta_requests[i].requester # w
        /\ \A i \in DOMAIN standard_requests : standard_requests[i] # w

\* The device performs writes in the order they were requested, none of them
\* twice, and each with the values that were to be written.
WritesFaithful ==
    /\ \A i \in DOMAIN device : device[i].kind = "write"
    /\ \A i, j \in DOMAIN device : i < j => device[i].id < device[j].id

\* The worker sends a raw PDU from memory owned by the head of m_meta_requests:
\* until it has been answered the head stays, and figure_next() is not about
\* to replace the PDU.
RawPduOwned ==
    asked.kind = "meta" /\ polling =>
        meta_requests # <<>> /\ Head(meta_requests).sent /\ gui # "figure_next"

\* No slot reaches into an empty or unfit deque.
NoUndefinedBehaviour == gui # "crashed"

\* Once the main window is closed no thread runs that it still owns.
NoThreadAfterExit == gui = "closed" => worker = "none"

-----------------------------------------------------------------------------
(* The inductive invariant behind TypeOK, NoDangling and WorkConserving.   *)

QueuesEmpty ==
    write_requests = <<>> /\ meta_requests = <<>> /\ standard_requests = <<>>

\* NoDangling needs that the scheduler knows open windows only, which needs that
\* it knows none at all while it does not poll: closeEvent() empties the set of
\* windows without telling the scheduler.  WorkConserving only fails inside
\* modbus_on_data(), before it calls figure_next().
PollingInv ==
    /\ TypeOK
    /\ connected = polling
    /\ windows \cap closed = {}
    /\ RefersOnlyTo(windows)
    /\ ~polling => QueuesEmpty /\ current_request = NoWindow
    /\ polling /\ gui # "figure_next" /\ ~active => QueuesEmpty

-----------------------------------------------------------------------------
(* The inductive invariants behind the other safety properties.            *)

\* Whose thread it is: there is one exactly from the click on Connect to the
\* disconnect or the failure, whatever handler the GUI thread stands in.
ConnectionInv ==
    /\ connected = polling
    /\ connecting => ~connected /\ gui \in {"idle", "crashed"}
    /\ gui \in {"post_connected", "closed"} => ~connected /\ ~connecting
    /\ gui \in {"figure_next", "join_disconnect", "join_exit"} => connected
    /\ worker = "none" <=> ~connected /\ ~connecting /\ gui # "post_connected"

Signals == {"complete", "error"}

\* The answer to the thread's request on its way to the main window only, to
\* both, and when the main window has seen it.
ToMain(sig) == <<Event("main", sig, request)>>
ToBoth(sig) == <<Event("main", sig, request), Event("scheduler", sig, request)>>
ToScheduler(sig) == <<Event("scheduler", sig, request)>>

\* One request at a time: it is with the worker, or its answer is on the way.
HandoverInv ==
    /\ asked \in {NoRequest, request}
    /\ worker = "busy" => asked # NoRequest
    /\ worker = "notified" /\ ~quit => asked # NoRequest
    /\ worker = "starting" => connecting /\ posted = <<>>
    /\ asked.kind = "write" => regs = asked
    /\ posted # <<>> =>
          /\ asked = NoRequest
          /\ \E sig \in Signals : posted \in {ToMain(sig), ToBoth(sig), ToScheduler(sig)}
          /\ Head(posted).sig = "complete" /\ (connecting2 \/ request.kind \in ScheduledKinds)
                => regs = request

\* What may be on the way between Connect and the device id.
DeviceIdInv ==
    /\ connecting =>
          /\ ~connecting2 /\ request = NoRequest
          /\ posted # <<>> => \E sig \in Signals : posted = ToMain(sig)
    /\ connecting2 => request = DevIdRequest /\ (posted # <<>> => Head(posted).to = "main")
    /\ gui = "post_connected" =>
          connecting2 /\ (posted # <<>> => \E sig \in Signals : posted = ToMain(sig))
    /\ polling /\ asked.kind = "devid" => connecting2
    /\ gui = "figure_next" => ~connecting2

\* While the scheduler is active the thread's request is the one its fields
\* describe; otherwise at most the device id is under way.
ExchangeInv ==
    /\ polling /\ active =>
          /\ request.kind \in ScheduledKinds
          /\ asked = request \/ \E sig \in Signals : posted \in {ToBoth(sig), ToScheduler(sig)}
          /\ current_action = ActionFor[request.kind]
          /\ current_request \in {request.win, NoWindow}
          /\ request.kind = "meta" => meta_requests # <<>> /\ Head(meta_requests).sent
    /\ polling /\ ~active => (asked = NoRequest /\ posted = <<>>) \/ request = DevIdRequest
    /\ gui = "figure_next" => ~active /\ asked = NoRequest /\ posted = <<>>
    /\ current_action = "METADATA" => polling /\ (active \/ gui = "figure_next")
    /\ gui \in {"join_disconnect", "join_exit"} => ~(active /\ current_action = "METADATA")
    /\ gui # "crashed"

\* The assumption under which they hold: the user waits, and every window can
\* be polled.
CarefulUser == {"devid", "meta", "exit"} \subseteq Patience /\ Unreadable = {}

CarefulInv == ConnectionInv /\ HandoverInv /\ DeviceIdInv /\ ExchangeInv

\* The ids given to writes so far.
Given == 1..(MaxWrites - budget.writes)

\* Every write is on its way from the queue through the thread to the device, and
\* none overtakes another.
DeviceInOrder ==
    \A i \in DOMAIN device :
        /\ device[i].kind = "write" /\ device[i].id \in Given
        /\ \A j \in DOMAIN device : i < j => device[i].id < device[j].id

AskedInOrder ==
    asked.kind = "write" =>
        asked.id \in Given /\ \A i \in DOMAIN device : device[i].id < asked.id

QueuedInOrder(queue, given) ==
    \A i \in DOMAIN queue :
        /\ queue[i].id \in given
        /\ \A j \in DOMAIN queue : i < j => queue[i].id < queue[j].id
        /\ \A j \in DOMAIN device : device[j].id < queue[i].id
        /\ asked.kind = "write" => asked.id < queue[i].id

WritesInv == DeviceInOrder /\ AskedInOrder /\ QueuedInOrder(write_requests, Given)

-----------------------------------------------------------------------------
(* Liveness.                                                               *)

\* The worker's steps end: libmodbus has time limits for connecting and for
\* answers.  Qt's event loop delivers what is posted.  The user may stop.
Fairness == WF_vars(WorkerStep) /\ WF_vars(GuiStep)

FairSpec == Spec /\ Fairness

\* ModbusThread::close() joins a thread that may be anywhere in its loop; it
\* returns, whether or not the notification was heard.
CloseReturns ==
    gui \in {"join_disconnect", "join_exit"} ~> gui \notin {"join_disconnect", "join_exit"}

\* A window waiting in the read queue is polled in the end, whatever the writes,
\* the metadata and the errors ahead of it, unless it is closed, the connection
\* ends or a wakeup is lost.
PollStarts ==
    \A w \in Windows :
        (\E i \in DOMAIN standard_requests : standard_requests[i] = w)
            ~> (current_request = w \/ w \notin windows \/ ~polling \/ Lost)

\* A request handed to the worker is answered, or timed out by the Scheduler's
\* timer (README.md: "a local timeout to wait for a response"), or withdrawn by
\* a disconnect.
RequestsEnd == asked.kind \in ScheduledKinds ~> (asked.kind \notin ScheduledKinds \/ ~polling)

=============================================================================
