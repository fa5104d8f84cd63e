----------------------------- MODULE WorkerPool -----------------------------
(***************************************************************************)
(* An io_service and the threads that run it, as streaming::Client and     *)
(* streaming::Server own them (LibCarla/source/carla/streaming/Client.h,   *)
(* Server.h, ThreadGroup.h): AsyncRun creates workers, Stop stops the      *)
(* io_service and joins them, the destructor calls Stop.                   *)
(*                                                                         *)
(* The io_service stops when it is told to, or when a worker finds no work *)
(* at all; nothing resets it.  What its work is, is up to the module that  *)
(* extends this one.                                                       *)
(***************************************************************************)
EXTENDS Naturals

CONSTANT MaxWorkers     \* bound on the workers created

ASSUME WorkersAssumption == MaxWorkers \in Nat

VARIABLES
    io,         \* "ready" | "dry" | "stopped": _io_service
    starting,   \* workers that were created and did not call run yet
    running,    \* workers inside _io_service.run()
    caller      \* "free" | "stopping" | "destroying" | "gone": the owner

poolVars == <<io, starting, running, caller>>

PoolTypeOK ==
    /\ io \in {"ready", "dry", "stopped"}
    /\ starting \in 0..MaxWorkers
    /\ running \in 0..MaxWorkers
    /\ starting + running <= MaxWorkers
    /\ caller \in {"free", "stopping", "destroying", "gone"}

PoolInit == io = "ready" /\ starting = 0 /\ running = 0 /\ caller = "free"

-----------------------------------------------------------------------------
(* AsyncRun, one thread at a time. *)
CreateWorker ==
    /\ caller = "free"
    /\ starting + running < MaxWorkers
    /\ starting' = starting + 1
    /\ UNCHANGED <<io, running, caller>>

(* run returns at once if the io_service is stopped; without work, it      *)
(* stops it.                                                               *)
CallRun(work) ==
    /\ starting > 0
    /\ starting' = starting - 1
    /\ running' = IF io = "ready" /\ work THEN running + 1 ELSE running
    /\ io' = IF io = "ready" /\ ~work THEN "dry" ELSE io
    /\ UNCHANGED caller

CanRun == running > 0 /\ io = "ready"

(* A worker has run a handler, which left work to do or not. *)
RunsHandler(workLeft) ==
    /\ CanRun
    /\ io' = IF workLeft THEN io ELSE "dry"
    /\ UNCHANGED <<starting, running, caller>>

(* A worker returns from run. *)
ReturnFromRun ==
    /\ running > 0 /\ io # "ready"
    /\ running' = running - 1
    /\ UNCHANGED <<io, starting, caller>>

\* Mutated: the workers are joined and the io_service is not stopped.
JoinsOnly ==
    /\ caller = "free"
    /\ caller' \in {"stopping", "destroying"}
    /\ UNCHANGED <<io, starting, running>>

(* Stop stops the io_service ...  The destructor calls it too.  An owner   *)
(* that was given back its Stop can use the pool again: nothing restarts   *)
(* the io_service, and the destructor will stop it once more.              *)
Stop ==
    /\ caller = "free"
    /\ caller' \in {"stopping", "destroying"}
    /\ io' = "stopped"
    /\ UNCHANGED <<starting, running>>

(* ... and JoinAll waits for all the workers.                              *)
JoinAll ==
    /\ caller = "stopping" /\ starting = 0 /\ running = 0
    /\ caller' = "free"
    /\ UNCHANGED <<io, starting, running>>

(* The destructor has joined the workers: the members are destroyed.       *)
Destroy ==
    /\ caller = "destroying" /\ starting = 0 /\ running = 0
    /\ caller' = "gone"
    /\ UNCHANGED <<io, starting, running>>

(* What changes the pool and nothing else. *)
PoolOnly(work) ==
    CreateWorker \/ CallRun(work) \/ ReturnFromRun \/ Stop \/ JoinAll

-----------------------------------------------------------------------------
(* Stop and the destructor, not called by a worker, return: every worker   *)
(* leaves run, and one that was only just created does not stay in it      *)
(* (streaming/Client.h:41, streaming/Server.h:50, ThreadGroup.h:39).       *)
StopReturns ==
    /\ caller = "stopping" ~> caller = "free"
    /\ caller = "destroying" ~> caller = "gone"
=============================================================================
