--------------------------- MODULE StreamingServer ---------------------------
(***************************************************************************)
(* The streaming server as its owner sees it: streaming::Server            *)
(* (LibCarla/source/carla/streaming/Server.h) and low_level::Server        *)
(* (streaming/low_level/Server.h), which put the accept loop of module     *)
(* TcpServer on the io_service and the workers of module WorkerPool.       *)
(*                                                                         *)
(* Every step of the accept loop is a handler that a worker runs, so the   *)
(* loop is at rest before AsyncRun and after Stop.  The dispatcher has no  *)
(* part in this: module Dispatcher.                                        *)
(***************************************************************************)
EXTENDS TcpServer, WorkerPool

serverVars == <<vars, poolVars>>

(* A handler is queued, or an accept is under way. *)
HasWork(loop, all) ==
    \/ loop = "posted"
    \/ \E n \in DOMAIN all : all[n].at \in {"accepting", "done", "posted"}

(* The constructor calls Listen. *)
ServerInit ==
    /\ timeout = DefaultTimeout
    /\ listening = "posted"
    /\ sessions = <<>> /\ backlog = <<>> /\ attempted = {}
    /\ PoolInit

-----------------------------------------------------------------------------
(* A worker runs a handler of the accept loop. *)
RunsInWorker(handler) == handler /\ RunsHandler(HasWork(listening', sessions'))

WorkerListens == RunsInWorker(RunListen)

WorkerAccepts == \E n \in Numbers : RunsInWorker(HandleAccept(n))

WorkerHandlesQuery == \E n \in Numbers : RunsInWorker(HandleQuery(n))

(* What does not need the workers, while there is a server. *)
FromOutside ==
    /\ \/ caller = "free" /\ \E t \in Timeouts : SetTimeout(t)
       \/ caller # "gone" /\ \E c \in Connections : Connect(c)
       \/ caller # "gone" /\ \E n \in Numbers : AcceptCompletes(n) \/ AcceptFails(n)
    /\ UNCHANGED poolVars

(* The acceptor is closed, what is queued is dropped with the io_service.  *)
DestroyServer ==
    /\ Destroy
    /\ listening' = "no" /\ sessions' = <<>> /\ backlog' = <<>>
    /\ UNCHANGED <<timeout, attempted>>

Workers == PoolOnly(HasWork(listening, sessions)) /\ UNCHANGED vars

ServerNext ==
    \/ WorkerListens \/ WorkerAccepts \/ WorkerHandlesQuery
    \/ FromOutside
    \/ Workers
    \/ DestroyServer

ServerSpec == ServerInit /\ [][ServerNext]_serverVars

(* Threads run, and run what is queued; accepts complete. *)
ServerFairness ==
    /\ WF_serverVars((CallRun(HasWork(listening, sessions)) \/ ReturnFromRun)
                     /\ UNCHANGED vars)
    /\ WF_serverVars(JoinAll /\ UNCHANGED vars)
    /\ WF_serverVars(DestroyServer)
    /\ WF_serverVars(WorkerListens) /\ WF_serverVars(WorkerAccepts)
    /\ WF_serverVars(WorkerHandlesQuery)
    /\ WF_serverVars(caller # "gone"
                     /\ (\E n \in Numbers : AcceptCompletes(n)) /\ UNCHANGED poolVars)

FairServerSpec == ServerSpec /\ ServerFairness

-----------------------------------------------------------------------------
(* Properties.                                                             *)

ServerTypeOK == TypeOK /\ PoolTypeOK

(* The io_service of a server never runs out of work, however the accepts  *)
(* end: a worker that calls run stays until Stop (streaming/Server.h:42-53,*)
(* low_level/Server.h:32, tcp/Server.h:61-65).                             *)
NeverDry == io # "dry"

(* The clients that wait to be accepted, and those that were.              *)
Waiting == {backlog[i] : i \in 1..Len(backlog)}
Accepted == {sessions[n].conn : n \in Numbers} \ {NoConnection}

(* As long as there is a server, every client that connected waits for an  *)
(* accept or has one session: accepts that fail lose none, and no session  *)
(* takes the client of another, whatever the workers run first             *)
(* (tcp/Server.h:47-66).                                                   *)
ClientsKept ==
    caller # "gone" =>
        /\ attempted = Waiting \cup Accepted /\ Waiting \cap Accepted = {}
        /\ \A i, j \in 1..Len(backlog) : backlog[i] = backlog[j] => i = j
        /\ \A m, n \in Numbers :
              sessions[m].conn = sessions[n].conn /\ sessions[m].conn # NoConnection
                  => m = n

(* Every client that connects gets its session opened, also after accepts  *)
(* that failed and whatever number of workers there are, unless the server *)
(* is stopped first.                                                       *)
ConnectionsAreServed ==
    \A c \in Connections :
        running > 0 /\ c \in attempted ~>
            \/ io = "stopped"
            \/ \E n \in Numbers : sessions[n].conn = c /\ sessions[n].at = "opened"
=============================================================================
