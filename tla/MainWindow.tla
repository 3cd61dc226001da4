------------------------------ MODULE MainWindow ------------------------------
(***************************************************************************)
(* The whole polling core: the worker thread, the Scheduler and the main   *)
(* window of mainwindow.cpp, which owns the connection, the set of         *)
(* register windows and the slots the user's clicks reach.                 *)
(*                                                                         *)
(* The GUI thread runs one handler at a time; a handler that uses the      *)
(* worker's mutex twice is two actions, with the GUI thread's place in     *)
(* between in gui.  Signals of the worker wait in posted and are delivered *)
(* in order.  Clicks come from the user in any order Patience allows.      *)
(***************************************************************************)
EXTENDS Scheduler

CONSTANTS
    Patience,     \* what the user waits for, see below
    MaxSessions,  \* bound: clicks on Connect
    MaxWrites,    \* bound: write requests
    MaxSequences, \* bound: metadata sequences
    MaxLength,    \* bound: registers in a metadata sequence
    MaxQueue      \* bound: clicks on Once stop when this many reads wait

\* "devid": no request while the device id exchange of a new connection is
\*          under way
\* "meta":  no disconnect while a metadata request is under way
\* "exit":  the application is not closed while it connects
ASSUME BoundsAssumption ==
    /\ Patience \subseteq {"devid", "meta", "exit"}
    /\ IsFiniteSet(Windows)
    /\ {MaxSessions, MaxWrites, MaxSequences, MaxLength, MaxQueue} \subseteq Nat

VARIABLES
    gui,         \* where the GUI thread stands, see GuiStates
    connected,   \* m_connected
    connecting,  \* m_connecting
    connecting2, \* m_connecting2
    continuous,  \* actionContinuous is checked
    windows,     \* m_register_windows
    closed,      \* windows that were closed and deleted
    budget       \* the clicks the bounds still allow

mainVars == <<connected, connecting, connecting2, continuous>>
windowVars == <<windows, closed>>
vars == <<engineVars, posted, polling, schedulerVars, gui, mainVars, windowVars, budget>>

\* "idle"             in the event loop
\* "post_connected"   in modbus_on_data, the device id request is out
\* "figure_next"      in Scheduler::modbus_on_data, the answer is dispatched
\* "join_disconnect"  in ModbusThread::wait, called by the Disconnect click
\* "join_exit"        the same, called by closeEvent
\* "closed"           the main window is closed
\* "crashed"          the program ran into undefined behaviour
GuiStates == {"idle", "post_connected", "figure_next", "join_disconnect", "join_exit",
              "closed", "crashed"}

Budgets ==
    [sessions : 0..MaxSessions, writes : 0..MaxWrites, sequences : 0..MaxSequences]

TypeOK ==
    /\ ThreadTypeOK
    /\ SchedulerTypeOK
    /\ gui \in GuiStates
    /\ connected \in BOOLEAN
    /\ connecting \in BOOLEAN
    /\ connecting2 \in BOOLEAN
    /\ continuous \in BOOLEAN
    /\ windows \subseteq Windows
    /\ closed \subseteq Windows
    /\ budget \in Budgets

Init ==
    /\ ThreadInit
    /\ SchedulerInit
    /\ gui = "idle"
    /\ connected = FALSE
    /\ connecting = FALSE
    /\ connecting2 = FALSE
    /\ continuous = FALSE
    /\ windows = {}
    /\ closed = {}
    /\ budget = [sessions |-> MaxSessions, writes |-> MaxWrites, sequences |-> MaxSequences]

-----------------------------------------------------------------------------
(* What the environment is assumed to do.                                  *)

DeviceIdUnderWay ==
    \/ connecting2
    \/ \E i \in DOMAIN posted : posted[i].req.kind = "devid"

MayRequest == "devid" \in Patience => ~DeviceIdUnderWay

MayDisconnect == "meta" \in Patience => ~(active /\ current_action = "METADATA")

MayExit == MayDisconnect /\ ("exit" \in Patience => ~connecting)

-----------------------------------------------------------------------------
(* Slots of polling_complete and of the menu.                              *)

\* The orders in which an unordered set may be walked.
Orders(S) ==
    {order \in [1..Cardinality(S) -> S] :
        \A i, j \in DOMAIN order : order[i] = order[j] => i = j}

\* polling_on_complete(): a continuous poll enqueues every window of W again.
Refills(W) == IF connected /\ continuous THEN Orders(W) ELSE {<<>>}

\* on_actionOnce_triggered()
Once ==
    IF windows = {}
    THEN /\ continuous' = FALSE
         /\ UNCHANGED <<engineVars, polling, schedulerVars>>
    ELSE \E order \in Orders(windows) :
            IF connected /\ continuous'
            THEN \E refill \in Orders(windows) : enqueue_requests(order, refill)
            ELSE enqueue_requests(order, <<>>)

on_actionOnce_triggered ==
    /\ gui = "idle" /\ connected /\ MayRequest
    /\ Len(standard_requests) <= MaxQueue
    /\ windows # {} => continuous' = continuous
    /\ Once
    /\ UNCHANGED <<posted, gui, connected, connecting, connecting2, windowVars, budget>>

on_actionContinuous_triggered ==
    /\ gui = "idle" /\ connected /\ MayRequest
    /\ \/ /\ continuous
          /\ continuous' = FALSE
          /\ UNCHANGED <<engineVars, polling, schedulerVars>>
       \/ /\ ~continuous
          /\ Len(standard_requests) <= MaxQueue
          /\ windows # {} => continuous' = TRUE
          /\ Once
    /\ UNCHANGED <<posted, gui, connected, connecting, connecting2, windowVars, budget>>

-----------------------------------------------------------------------------
(* Register windows.                                                       *)

add_window(w) ==
    /\ gui = "idle"
    /\ w \notin windows \cup closed
    /\ windows' = windows \cup {w}
    /\ UNCHANGED <<engineVars, posted, polling, schedulerVars, gui, mainVars, closed, budget>>

\* Mutant of register_window_destroyed: out of the scheduler first.
register_window_destroyed_ErasedLast(w) ==
    /\ gui = "idle"
    /\ w \in windows
    /\ windows' = windows \ {w}
    /\ closed' = closed \cup {w}
    /\ \E refill \in Refills(windows) : remove_reference(w, refill)
    /\ UNCHANGED <<posted, gui, mainVars, budget>>

\* register_window_destroyed(): out of the set first, then out of the
\* scheduler, whose polling_complete walks the set.
register_window_destroyed(w) ==
    /\ gui = "idle"
    /\ w \in windows
    /\ windows' = windows \ {w}
    /\ closed' = closed \cup {w}
    /\ \E refill \in Refills(windows') : remove_reference(w, refill)
    /\ LET emptied == /\ standard_requests # <<>>
                      /\ \A i \in DOMAIN standard_requests : standard_requests[i] = w
       IN  continuous' = (continuous /\ ~(connected /\ emptied /\ windows' = {}))
    /\ UNCHANGED <<posted, gui, connected, connecting, connecting2, budget>>

\* A window or a CSV file (no requester) asks for a write.  Without a
\* connection the scheduler ignores it.
RequestWrite(w) ==
    /\ gui = "idle" /\ polling /\ MayRequest
    /\ w \in windows \cup {NoWindow}
    /\ budget.writes > 0
    /\ budget' = [budget EXCEPT !.writes = @ - 1]
    /\ \E refill \in Refills(windows) :
         modbus_on_write_request([requester |-> w, id |-> MaxWrites + 1 - budget.writes], refill)
    /\ UNCHANGED <<posted, gui, mainVars, windowVars>>

\* A window asks for the metadata of its registers.
RequestMetadata(w, length) ==
    /\ gui = "idle" /\ polling /\ MayRequest /\ PluginLoaded
    /\ w \in windows
    /\ budget.sequences > 0
    /\ budget' = [budget EXCEPT !.sequences = @ - 1]
    /\ \E refill \in Refills(windows) :
         modbus_on_poll_meta([requester |-> w, left |-> length, sent |-> FALSE], refill)
    /\ UNCHANGED <<posted, gui, mainVars, windowVars>>

-----------------------------------------------------------------------------
(* Connecting, disconnecting, leaving.                                     *)

\* on_actionConnect_triggered(), not connected.  Qt delivers what is posted
\* before it looks at the next click, so nothing of an old thread is left.
ClickConnect ==
    /\ gui = "idle" /\ ~connected /\ ~connecting
    /\ posted = <<>>
    /\ budget.sessions > 0
    /\ budget' = [budget EXCEPT !.sessions = @ - 1]
    /\ connecting' = TRUE
    /\ connecting2' = FALSE
    /\ continuous' = FALSE
    /\ StartThread
    /\ UNCHANGED <<posted, polling, schedulerVars, gui, connected, windowVars>>

\* on_actionConnect_triggered(), connected, up to the join.
ClickDisconnect ==
    /\ gui = "idle" /\ connected /\ MayDisconnect
    /\ continuous' = FALSE
    /\ RequestQuit
    /\ gui' = "join_disconnect"
    /\ UNCHANGED <<posted, polling, schedulerVars, connected, connecting, connecting2,
                   windowVars, budget>>

\* post_disconnected()
post_disconnected ==
    /\ stop_modbus
    /\ connecting' = FALSE
    /\ connecting2' = FALSE
    /\ continuous' = FALSE
    /\ connected' = FALSE
    /\ worker' = "none"
    /\ UNCHANGED <<quit, request, regs, asked, device>>

\* The join returns.
Disconnected ==
    /\ gui = "join_disconnect"
    /\ worker = "exited"
    /\ post_disconnected
    /\ gui' = "idle"
    /\ UNCHANGED <<posted, windowVars, budget>>

\* Mutant of closeEvent: the engine is not closed.
closeEvent_NoJoin ==
    /\ gui = "idle" /\ MayExit
    /\ gui' = "closed"
    /\ closed' = closed \cup windows
    /\ windows' = {}
    /\ UNCHANGED <<engineVars, posted, polling, schedulerVars, mainVars, budget>>

\* closeEvent(), up to the join when connected.
closeEvent ==
    /\ gui = "idle" /\ MayExit
    /\ IF connected
       THEN /\ RequestQuit
            /\ gui' = "join_exit"
            /\ UNCHANGED windowVars
       ELSE /\ gui' = "closed"
            /\ closed' = closed \cup windows
            /\ windows' = {}
            /\ UNCHANGED engineVars
    /\ UNCHANGED <<posted, polling, schedulerVars, mainVars, budget>>

\* The rest of closeEvent(): the windows leave the set before they are closed,
\* so nothing is removed from the scheduler for them.
Exited ==
    /\ gui = "join_exit"
    /\ worker = "exited"
    /\ post_disconnected
    /\ gui' = "closed"
    /\ closed' = closed \cup windows
    /\ windows' = {}
    /\ UNCHANGED <<posted, budget>>

-----------------------------------------------------------------------------
(* Delivery of the posted signals.                                         *)

Delivered(to, sig) ==
    /\ gui = "idle"
    /\ posted # <<>>
    /\ Head(posted).to = to
    /\ Head(posted).sig = sig
    /\ posted' = Tail(posted)

\* modbus_on_data(): the connection is up, ask for the device id ...
MainConnected ==
    /\ Delivered("main", "complete")
    /\ connecting
    /\ connecting' = FALSE
    /\ connecting2' = TRUE
    /\ modbus_request(DevIdRequest)
    /\ gui' = "post_connected"
    /\ UNCHANGED <<polling, schedulerVars, connected, continuous, windowVars, budget>>

\* ... then start the scheduler: post_connected().
post_connected ==
    /\ gui = "post_connected"
    /\ start_modbus
    /\ connected' = TRUE
    /\ gui' = "idle"
    /\ UNCHANGED <<engineVars, posted, connecting, connecting2, continuous, windowVars, budget>>

\* modbus_on_data(): the first answer after that is taken for the device id.
MainDeviceId ==
    /\ Delivered("main", "complete")
    /\ ~connecting /\ connecting2
    /\ modbus_result
    /\ connecting2' = FALSE
    /\ UNCHANGED <<polling, schedulerVars, gui, connected, connecting, continuous,
                   windowVars, budget>>

\* modbus_on_error_protocol(): the connection failed.
MainConnectFailed ==
    /\ Delivered("main", "error")
    /\ connecting
    /\ post_disconnected
    /\ UNCHANGED <<gui, windowVars, budget>>

\* modbus_on_error_protocol(): the device id is not supported.
MainNoDeviceId ==
    /\ Delivered("main", "error")
    /\ ~connecting /\ connecting2
    /\ connecting2' = FALSE
    /\ UNCHANGED <<engineVars, polling, schedulerVars, gui, connected, connecting, continuous,
                   windowVars, budget>>

\* Both slots, for every other signal.
MainIgnores ==
    /\ \E sig \in {"complete", "error"} : Delivered("main", sig)
    /\ ~connecting /\ ~connecting2
    /\ UNCHANGED <<engineVars, polling, schedulerVars, gui, mainVars, windowVars, budget>>

\* Scheduler::modbus_on_data() with the connection gone (a queued call).
SchedulerDataLate ==
    /\ Delivered("scheduler", "complete")
    /\ ~polling
    /\ active' = FALSE
    /\ UNCHANGED <<engineVars, polling, queues, current_action, current_request, gui,
                   mainVars, windowVars, budget>>

\* Scheduler::modbus_on_data() up to figure_next() ...
SchedulerData ==
    /\ Delivered("scheduler", "complete")
    /\ current_action = "METADATA" => ~MetaAnswerUndefined
    /\ modbus_on_data_deliver
    /\ gui' = "figure_next"
    /\ UNCHANGED <<mainVars, windowVars, budget>>

\* ... and figure_next().
SchedulerContinue ==
    /\ gui = "figure_next"
    /\ \E refill \in Refills(windows) : modbus_on_data_continue(refill)
    /\ gui' = "idle"
    /\ UNCHANGED <<posted, mainVars, windowVars, budget>>

\* Mutant of modbus_on_error: figure_next() is not called.
modbus_on_error_Stops ==
    /\ Delivered("scheduler", "error")
    /\ current_action = "METADATA" => ~MetaErrorUndefined
    /\ active' = FALSE
    /\ meta_requests' = AfterMetaError
    /\ UNCHANGED <<engineVars, polling, write_requests, standard_requests, current_action,
                   current_request, gui, mainVars, windowVars, budget>>

\* Scheduler::modbus_on_error().  It does not ask whether it is connected.
modbus_on_error ==
    /\ Delivered("scheduler", "error")
    /\ current_action = "METADATA" => ~MetaErrorUndefined
    /\ IF polling
       THEN /\ \E refill \in Refills(windows) :
                 pick_next(write_requests, AfterMetaError, standard_requests, refill, <<>>)
            /\ UNCHANGED polling
       ELSE /\ active' = FALSE
            /\ meta_requests' = AfterMetaError
            /\ UNCHANGED <<engineVars, polling, write_requests, standard_requests,
                           current_action, current_request>>
    /\ UNCHANGED <<gui, mainVars, windowVars, budget>>

\* Either slot reaches into an empty or unfit m_meta_requests.
UndefinedBehaviour ==
    /\ current_action = "METADATA"
    /\ \/ Delivered("scheduler", "complete") /\ polling /\ MetaAnswerUndefined
       \/ Delivered("scheduler", "error") /\ MetaErrorUndefined
    /\ gui' = "crashed"
    /\ UNCHANGED <<engineVars, polling, schedulerVars, mainVars, windowVars, budget>>

-----------------------------------------------------------------------------

Deliver ==
    \/ MainConnected \/ MainDeviceId \/ MainConnectFailed \/ MainNoDeviceId \/ MainIgnores
    \/ SchedulerDataLate \/ SchedulerData \/ modbus_on_error \/ UndefinedBehaviour

\* What the GUI thread does without the user.
GuiStep == Deliver \/ post_connected \/ SchedulerContinue \/ Disconnected \/ Exited

UserStep ==
    \/ on_actionOnce_triggered \/ on_actionContinuous_triggered
    \/ \E w \in Windows : add_window(w) \/ register_window_destroyed(w)
    \/ \E w \in Requesters : RequestWrite(w)
    \/ \E w \in Windows, length \in 1..MaxLength : RequestMetadata(w, length)
    \/ ClickConnect \/ ClickDisconnect \/ closeEvent

WorkerStep ==
    /\ ThreadStep
    /\ UNCHANGED <<polling, schedulerVars, gui, mainVars, windowVars, budget>>

\* The program has ended, or is beyond what its source says.
Ended ==
    /\ gui = "crashed" \/ (gui = "closed" /\ worker \in {"none", "waiting", "exited"})
    /\ UNCHANGED vars

Next == WorkerStep \/ GuiStep \/ UserStep \/ Ended

Spec == Init /\ [][Next]_vars

=============================================================================
