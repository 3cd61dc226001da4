---------------------------- MODULE ModbusThread ----------------------------
(***************************************************************************)
(* The worker thread of modbusthread.cpp: one blocking libmodbus           *)
(* transaction at a time, handed over through a mutex (m_mx) and a         *)
(* condition variable (m_cond), answered by signals that Qt queues for the *)
(* GUI thread.                                                             *)
(*                                                                         *)
(* The worker holds m_mx from the moment it wakes until it has emitted the *)
(* answer, so every GUI operation that locks m_mx is disabled while the    *)
(* worker is "busy".  A transaction together with its emissions and the    *)
(* unlock is one step: whatever the GUI does with an emitted signal before *)
(* the unlock, it either does not need the mutex or waits for it.          *)
(***************************************************************************)
EXTENDS Naturals, Sequences

CONSTANTS
    Windows,     \* the register windows (RegisterDisplay objects)
    NoWindow,    \* the null BaseDialog pointer
    Unreadable   \* windows whose start register no branch of run() serves

ASSUME WindowsAssumption == NoWindow \notin Windows /\ Unreadable \subseteq Windows

VARIABLES
    worker,   \* where the thread stands, see WorkerStates
    quit,     \* m_quit
    request,  \* m_reg_number, m_count, m_node, m_write_request, m_raw_request
    regs,     \* m_regs: the request whose data it holds, NoRequest when moved out
    asked,    \* the request that was handed over and is not answered yet (history)
    posted,   \* queued signal deliveries of the GUI thread's event loop
    polling,  \* Scheduler::m_polling_thread is set and its slots are connected
    device    \* the writes the device performed, in order (history)

engineVars == <<worker, quit, request, regs, asked, device>>

-----------------------------------------------------------------------------

Requesters == Windows \cup {NoWindow}

\* What the three modbus_request overloads can be asked for.  id tells one
\* write from another.
Requests == [kind : {"devid", "read", "write", "meta"}, win : Requesters, id : Nat]

NoRequest == [kind |-> "none", win |-> NoWindow, id |-> 0]

\* m_regs resized up from empty: register values nobody asked for.
ZeroFill == [kind |-> "zeros", win |-> NoWindow, id |-> 0]

Contents == Requests \cup {NoRequest, ZeroFill}

DevIdRequest == [kind |-> "devid", win |-> NoWindow, id |-> 0]

\* "none"      no thread object (m_engine is null)
\* "starting"  in modbus_new_tcp / modbus_connect
\* "top"       at the head of the loop, m_mx not held
\* "waiting"   in m_cond.wait
\* "notified"  woken, not holding m_mx again yet
\* "busy"      holding m_mx, in the libmodbus call
\* "exited"    run() has returned
WorkerStates == {"none", "starting", "top", "waiting", "notified", "busy", "exited"}

Events == [to : {"main", "scheduler"}, sig : {"complete", "error"},
           req : Requests \cup {NoRequest}]

Event(to, sig, r) == [to |-> to, sig |-> sig, req |-> r]

\* One emission: MainWindow connected its slots first, the Scheduler connects
\* its own only while it polls, and Qt delivers in the order of connection.
Emission(sig, r) ==
    IF polling THEN <<Event("main", sig, r), Event("scheduler", sig, r)>>
               ELSE <<Event("main", sig, r)>>

EngineTypeOK ==
    /\ worker \in WorkerStates
    /\ quit \in BOOLEAN
    /\ request \in Requests \cup {NoRequest}
    /\ regs \in Contents
    /\ asked \in Requests \cup {NoRequest}
    /\ device \in Seq(Contents)

ThreadTypeOK ==
    /\ EngineTypeOK
    /\ posted \in Seq(Events)
    /\ polling \in BOOLEAN

ThreadInit ==
    /\ worker = "none"
    /\ quit = FALSE
    /\ request = NoRequest
    /\ regs = NoRequest
    /\ asked = NoRequest
    /\ posted = <<>>
    /\ polling = FALSE
    /\ device = <<>>

-----------------------------------------------------------------------------
(* Operations called by the GUI thread.  They post nothing: what becomes of *)
(* posted is up to the handler that calls them.                            *)

\* new ModbusThread(...); start()
StartThread ==
    /\ worker' = "starting"
    /\ quit' = FALSE
    /\ request' = NoRequest
    /\ regs' = NoRequest
    /\ asked' = NoRequest
    /\ UNCHANGED device

\* m_cond.notify_one(): nobody hears it unless the worker is in wait.
Notified == IF worker = "waiting" THEN "notified" ELSE worker

\* The modbus_request overload for r: a write moves its values into m_regs, a
\* raw PDU empties it, a read leaves it.
modbus_request(r) ==
    /\ worker # "busy"
    /\ request' = r
    /\ asked' = r
    /\ regs' = CASE r.kind = "write" -> r
                 [] r.kind = "meta" -> NoRequest
                 [] OTHER -> regs
    /\ worker' = Notified
    /\ UNCHANGED <<quit, device>>

\* close() up to the join.
RequestQuit ==
    /\ worker # "busy"
    /\ quit' = TRUE
    /\ worker' = Notified
    /\ UNCHANGED <<request, regs, asked, device>>

-----------------------------------------------------------------------------
(* Steps of the worker thread, run().                                      *)

ConnectSucceeds ==
    /\ worker = "starting"
    /\ worker' = "top"
    /\ posted' = posted \o Emission("complete", NoRequest)
    /\ UNCHANGED <<quit, request, regs, asked, device>>

ConnectFails ==
    /\ worker = "starting"
    /\ worker' = "exited"
    /\ quit' = TRUE
    /\ posted' = posted \o Emission("error", NoRequest)
    /\ UNCHANGED <<request, regs, asked, device>>

\* Mutant of Wait: m_quit is not looked at before waiting.
Wait_Unconditional ==
    /\ worker = "top"
    /\ worker' = "waiting"
    /\ UNCHANGED <<quit, request, regs, asked, posted, device>>

\* Lock, find m_quit clear, wait.  Whether a request was handed over in the
\* meantime is not looked at.
Wait ==
    /\ worker = "top"
    /\ ~quit
    /\ worker' = "waiting"
    /\ UNCHANGED <<quit, request, regs, asked, posted, device>>

\* Hold the mutex again; m_regs.resize(m_count) fills it if it was empty, and
\* empties it for the device id, whose count is 0.
Wake ==
    /\ worker = "notified"
    /\ ~quit
    /\ worker' = "busy"
    /\ regs' = CASE request.kind = "devid" -> NoRequest
                 [] request.kind # "devid" /\ regs = NoRequest -> ZeroFill
                 [] OTHER -> regs
    /\ UNCHANGED <<quit, request, asked, posted, device>>

\* m_quit seen, with or without a wait: no transaction, no signal, return.
Quit ==
    /\ worker \in {"top", "notified"}
    /\ quit
    /\ worker' = "exited"
    /\ UNCHANGED <<quit, request, regs, asked, posted, device>>

NoRangeMatches == request.kind = "read" /\ request.win \in Unreadable

\* A write sends what m_regs holds by now.
do_write_request == device' = Append(device, regs) /\ regs' = regs

\* The bytes of the response to a raw PDU, promoted to registers.
do_custom_request_tcp == device' = device /\ regs' = request

\* Mutant of read_registers: the device id is not copied from bits to m_regs.
read_registers_BitsDropped ==
    /\ device' = device
    /\ regs' = IF request.kind = "devid" THEN regs ELSE request

\* The five libmodbus reads: the device id, coils, inputs and the registers,
\* the first three through bits.
read_registers == device' = device /\ regs' = request

Succeed ==
    /\ worker = "busy"
    /\ ~NoRangeMatches
    /\ CASE request.kind = "meta" -> do_custom_request_tcp
         [] request.kind = "write" -> do_write_request
         [] OTHER -> read_registers
    /\ posted' = posted \o Emission("complete", request)
    /\ asked' = NoRequest
    /\ worker' = "top"
    /\ UNCHANGED <<quit, request>>

\* libmodbus reports an exception, a timeout or a broken connection.  A write
\* may have been performed all the same.
Fail ==
    /\ worker = "busy"
    /\ ~NoRangeMatches
    /\ \/ UNCHANGED <<regs, device>>
       \/ request.kind = "write" /\ do_write_request
    /\ posted' = posted \o Emission("error", request)
    /\ asked' = NoRequest
    /\ worker' = "top"
    /\ UNCHANGED <<quit, request>>

\* No branch serves the register number: error 2 is emitted, result is still 0,
\* and the code after the branches emits complete as well.
IllegalAddress ==
    /\ worker = "busy"
    /\ NoRangeMatches
    /\ posted' = posted \o Emission("error", request) \o Emission("complete", request)
    /\ asked' = NoRequest
    /\ worker' = "top"
    /\ UNCHANGED <<quit, request, regs, device>>

ThreadStep ==
    \/ ConnectSucceeds \/ ConnectFails
    \/ Wait \/ Wake \/ Quit
    \/ Succeed \/ Fail \/ IllegalAddress

=============================================================================
