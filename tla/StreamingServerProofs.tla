----------------------- MODULE StreamingServerProofs -----------------------
(***************************************************************************)
(* What holds of the streaming server for every number of workers and      *)
(* clients and however accepts fail: one accept is under way as long as    *)
(* there is a server, hence its io_service always has work, hence workers  *)
(* stay until Stop.  The three depend on each other (LoopInv): the accept  *)
(* is what keeps the workers, who run the handler that starts the next.    *)
(***************************************************************************)
EXTENDS StreamingServer, FiniteSetTheorems, SequenceTheorems, TLAPS

Stages == {"accepting", "done", "posted", "opened", "dropped"}

(* Session n, and no other, is in the accept loop of the sessions all. *)
OnlyLoop(all, n) ==
    /\ n \in 1..Len(all) /\ all[n].at \in {"accepting", "done"}
    /\ \A m \in 1..Len(all) : all[m].at \in {"accepting", "done"} => m = n

LoopInv ==
    /\ ServerTypeOK
    /\ IF listening = "yes"
         THEN \E n \in Numbers : OnlyLoop(sessions, n)
         ELSE sessions = <<>>
    /\ listening = "no" <=> caller = "gone"
    /\ caller = "gone" => starting = 0 /\ running = 0
    /\ NeverDry

-----------------------------------------------------------------------------
(* Sequences of sessions.                                                  *)

(* A session moves on. *)
LEMMA SessionMoves ==
    ASSUME NEW all \in Seq(Session), NEW n \in 1..Len(all), NEW x \in Stages
    PROVE  LET s == [all EXCEPT ![n].at = x] IN
           /\ s \in Seq(Session) /\ Len(s) = Len(all)
           /\ s[n].at = x
           /\ \A m \in 1..Len(all) : m # n => s[m] = all[m]
<1> DEFINE r == [all[n] EXCEPT !.at = x]
           s == [all EXCEPT ![n] = r]
<1>1. all[n] \in Session
    OBVIOUS
<1>2. r \in Session /\ r.at = x
    BY <1>1 DEF Session, Stages
<1> HIDE DEF r
<1>3. /\ s \in Seq(Session) /\ Len(s) = Len(all) /\ s[n] = r
      /\ \A m \in 1..Len(all) : m # n => s[m] = all[m]
    BY <1>2
<1>4. s = [all EXCEPT ![n].at = x]
    BY DEF r
<1> QED BY <1>2, <1>3, <1>4, Zenon

(* A session that accepts is put at the end. *)
LEMMA SessionStarts ==
    ASSUME NEW all \in Seq(Session), NEW t \in TimeoutType
    PROVE  LET s == Append(all, NewSession(t)) IN
           /\ s \in Seq(Session) /\ Len(s) = Len(all) + 1
           /\ s[Len(s)].at = "accepting"
           /\ \A m \in 1..Len(all) : s[m] = all[m]
<1> DEFINE r == NewSession(t)
<1>1. r \in Session /\ r.at = "accepting"
    BY DEF NewSession, Session
<1> HIDE DEF r
<1> QED BY <1>1 DEF r

LEMMA TimeoutOf ==
    ASSUME NEW all \in Seq(Session), NEW n \in 1..Len(all)
    PROVE  all[n].timeout \in TimeoutType
<1>1. all[n] \in Session
    OBVIOUS
<1> QED BY <1>1 DEF Session

(* The loop goes on with session n, with the next session, or elsewhere. *)
LEMMA LoopStays ==
    ASSUME NEW all \in Seq(Session), NEW n \in 1..Len(all), NEW m \in 1..Len(all),
           NEW x \in Stages, OnlyLoop(all, m),
           (n = m) <=> (x \in {"accepting", "done"})
    PROVE  OnlyLoop([all EXCEPT ![n].at = x], m)
<1> DEFINE s == [all EXCEPT ![n].at = x]
<1>1. /\ Len(s) = Len(all) /\ s[n].at = x
      /\ \A i \in 1..Len(all) : i # n => s[i] = all[i]
    BY SessionMoves
<1> HIDE DEF s
<1>2. OnlyLoop(s, m)
    <2>1. \A i \in 1..Len(all) : i # n => s[i].at = all[i].at
        BY <1>1
    <2>2. s[m].at \in {"accepting", "done"}
        BY <1>1, <2>1 DEF OnlyLoop
    <2>3. ASSUME NEW i \in 1..Len(all), s[i].at \in {"accepting", "done"}
          PROVE  i = m
        BY <1>1, <2>1, <2>3 DEF OnlyLoop
    <2> QED BY <1>1, <2>2, <2>3 DEF OnlyLoop
<1> QED BY <1>2 DEF s

LEMMA LoopMovesOn ==
    ASSUME NEW all \in Seq(Session), NEW n \in 1..Len(all), NEW t \in TimeoutType,
           OnlyLoop(all, n)
    PROVE  LET s == Append([all EXCEPT ![n].at = "posted"], NewSession(t)) IN
           /\ s \in Seq(Session) /\ Len(s) = Len(all) + 1
           /\ OnlyLoop(s, Len(all) + 1)
<1> DEFINE mid == [all EXCEPT ![n].at = "posted"]
           s == Append(mid, NewSession(t))
<1>0. "posted" \in Stages
    BY DEF Stages
<1>1. /\ mid \in Seq(Session) /\ Len(mid) = Len(all) /\ mid[n].at = "posted"
      /\ \A i \in 1..Len(all) : i # n => mid[i] = all[i]
    BY <1>0, SessionMoves
<1> HIDE DEF mid
<1>2. /\ s \in Seq(Session) /\ Len(s) = Len(mid) + 1
      /\ s[Len(s)].at = "accepting"
      /\ \A i \in 1..Len(mid) : s[i] = mid[i]
    BY <1>1, SessionStarts
<1> HIDE DEF s
<1>3. Len(s) = Len(all) + 1 /\ Len(all) \in Nat
    BY <1>1, <1>2
<1>4. ASSUME NEW i \in 1..Len(s), s[i].at \in {"accepting", "done"}
      PROVE  i = Len(s)
    <2> SUFFICES ASSUME i # Len(s) PROVE FALSE
        OBVIOUS
    <2>1. i \in 1..Len(all) /\ s[i] = mid[i]
        BY <1>1, <1>2, <1>3
    <2>2. i # n
        BY <1>1, <1>4, <2>1
    <2>3. all[i].at \in {"accepting", "done"}
        BY <1>1, <1>4, <2>1, <2>2
    <2> QED BY <2>1, <2>2, <2>3 DEF OnlyLoop
<1>5. OnlyLoop(s, Len(s))
    BY <1>2, <1>3, <1>4 DEF OnlyLoop
<1> QED BY <1>2, <1>3, <1>5 DEF s, mid

(* A loop is work, and so is a Listen that is posted. *)
LEMMA LoopIsWork ==
    ASSUME NEW all \in Seq(Session), NEW n \in 1..Len(all), NEW loop, OnlyLoop(all, n)
    PROVE  HasWork(loop, all)
<1>1. n \in DOMAIN all
    OBVIOUS
<1> QED BY <1>1 DEF OnlyLoop, HasWork

LEMMA AlwaysWork ==
    ASSUME LoopInv, caller # "gone"
    PROVE  HasWork(listening, sessions)
<1>1. CASE listening = "yes"
    BY <1>1, LoopIsWork DEF LoopInv, ServerTypeOK, TypeOK, Numbers
<1>2. CASE listening = "posted"
    BY <1>2 DEF HasWork
<1> QED BY <1>1, <1>2 DEF LoopInv, ServerTypeOK, TypeOK

-----------------------------------------------------------------------------
LEMMA TimeoutTyped ==
    /\ DefaultTimeout \in TimeoutType
    /\ \A t \in Timeouts : Milliseconds(t) \in TimeoutType
BY DEF TimeoutType

(* The server starts with its Listen posted. *)
THEOREM InitLoopInv == ServerInit => LoopInv
<1> SUFFICES ASSUME ServerInit PROVE LoopInv
    OBVIOUS
<1>1. TypeOK
    BY TimeoutTyped DEF ServerInit, TypeOK
<1>2. PoolTypeOK /\ NeverDry
    BY WorkersAssumption DEF ServerInit, PoolInit, PoolTypeOK, NeverDry
<1> QED BY <1>1, <1>2 DEF LoopInv, ServerInit, PoolInit, ServerTypeOK

(* A worker runs a handler after which there is work. *)
LEMMA HandlerStep ==
    ASSUME LoopInv, NEW work, work, RunsHandler(work), TypeOK',
           listening' = "yes", \E n \in 1..Len(sessions') : OnlyLoop(sessions', n)
    PROVE  LoopInv'
<1>1. /\ io' = io /\ starting' = starting /\ running' = running /\ caller' = caller
      /\ running > 0
    BY DEF RunsHandler, CanRun
<1>2. PoolTypeOK'
    BY <1>1 DEF LoopInv, ServerTypeOK, PoolTypeOK
<1>3. caller # "gone"
    BY <1>1 DEF LoopInv, ServerTypeOK, PoolTypeOK
<1>4. \E n \in Numbers' : OnlyLoop(sessions, n)'
    BY DEF Numbers, OnlyLoop
<1> QED BY <1>1, <1>2, <1>3, <1>4 DEF LoopInv, ServerTypeOK, NeverDry

LEMMA WorkerListensKeeps == LoopInv /\ WorkerListens => LoopInv'
<1> SUFFICES ASSUME LoopInv, WorkerListens PROVE LoopInv'
    OBVIOUS
<1>1. /\ listening = "posted" /\ listening' = "yes"
      /\ sessions' = Append(sessions, NewSession(timeout))
      /\ UNCHANGED <<timeout, backlog, attempted>>
      /\ RunsHandler(HasWork(listening', sessions'))
    BY DEF WorkerListens, RunsInWorker, RunListen
<1>2. sessions = <<>> /\ sessions \in Seq(Session) /\ timeout \in TimeoutType
    BY <1>1 DEF LoopInv, ServerTypeOK, TypeOK
<1>3. /\ sessions' \in Seq(Session) /\ Len(sessions') = 1
      /\ sessions'[1].at = "accepting"
    <2>1. Len(sessions) = 0 /\ 0 + 1 = 1
        BY <1>2
    <2>2. /\ sessions' \in Seq(Session) /\ Len(sessions') = Len(sessions) + 1
          /\ sessions'[Len(sessions')].at = "accepting"
        BY <1>1, <1>2, SessionStarts
    <2>3. Len(sessions') = 1
        BY <2>1, <2>2
    <2> QED BY <2>2, <2>3, Zenon
<1>4. OnlyLoop(sessions', 1) /\ 1 \in 1..Len(sessions')
    BY <1>3 DEF OnlyLoop
<1>5. HasWork(listening', sessions')
    BY <1>3, <1>4, LoopIsWork
<1>6. TypeOK'
    BY <1>1, <1>3 DEF LoopInv, ServerTypeOK, TypeOK
<1> QED BY <1>1, <1>4, <1>5, <1>6, HandlerStep

LEMMA WorkerAcceptsKeeps == LoopInv /\ WorkerAccepts => LoopInv'
<1> SUFFICES ASSUME LoopInv, WorkerAccepts PROVE LoopInv'
    OBVIOUS
<1>1. PICK n \in Numbers :
          /\ sessions[n].at = "done"
          /\ sessions' = Append([sessions EXCEPT ![n].at = "posted"],
                                NewSession(sessions[n].timeout))
          /\ UNCHANGED <<timeout, listening, backlog, attempted>>
          /\ RunsHandler(HasWork(listening', sessions'))
    BY DEF WorkerAccepts, RunsInWorker, HandleAccept
<1>2. /\ sessions \in Seq(Session) /\ n \in 1..Len(sessions)
      /\ sessions[n].timeout \in TimeoutType
    BY TimeoutOf DEF LoopInv, ServerTypeOK, TypeOK, Numbers
<1>3. listening = "yes" /\ OnlyLoop(sessions, n)
    BY <1>1, <1>2 DEF LoopInv, Numbers, OnlyLoop
<1>4. /\ sessions' \in Seq(Session) /\ Len(sessions') = Len(sessions) + 1
      /\ OnlyLoop(sessions', Len(sessions) + 1)
    BY <1>1, <1>2, <1>3, LoopMovesOn
<1>5. Len(sessions) + 1 \in 1..Len(sessions')
    BY <1>4 DEF OnlyLoop
<1>6. HasWork(listening', sessions')
    BY <1>4, <1>5, LoopIsWork
<1>7. TypeOK'
    BY <1>1, <1>4 DEF LoopInv, ServerTypeOK, TypeOK
<1> QED BY <1>1, <1>3, <1>4, <1>5, <1>6, <1>7, HandlerStep

(* A session outside the loop moves on, or the one inside within it. *)
LEMMA SessionStep ==
    ASSUME LoopInv, NEW n \in Numbers, NEW x \in Stages,
           sessions' = [sessions EXCEPT ![n].at = x],
           sessions[n].at \in {"accepting", "done"} <=> x \in {"accepting", "done"},
           backlog' = backlog, UNCHANGED <<timeout, listening, attempted>>
    PROVE  /\ TypeOK'
           /\ listening' = "yes"
           /\ \E m \in 1..Len(sessions') : OnlyLoop(sessions', m)
<1>1. sessions \in Seq(Session) /\ n \in 1..Len(sessions)
    BY DEF LoopInv, ServerTypeOK, TypeOK, Numbers
<1>2. listening = "yes"
    BY <1>1 DEF LoopInv
<1>3. PICK m \in 1..Len(sessions) : OnlyLoop(sessions, m)
    BY <1>2 DEF LoopInv, Numbers
<1>4. sessions' \in Seq(Session) /\ Len(sessions') = Len(sessions)
    BY <1>1, SessionMoves
<1>5. (n = m) <=> (x \in {"accepting", "done"})
    BY <1>1, <1>3 DEF OnlyLoop
<1>6. OnlyLoop(sessions', m)
    BY <1>1, <1>3, <1>5, LoopStays
<1>7. TypeOK'
    BY <1>4 DEF LoopInv, ServerTypeOK, TypeOK
<1> QED BY <1>2, <1>4, <1>6, <1>7

LEMMA WorkerHandlesQueryKeeps == LoopInv /\ WorkerHandlesQuery => LoopInv'
<1> SUFFICES ASSUME LoopInv, WorkerHandlesQuery PROVE LoopInv'
    OBVIOUS
<1>1. PICK n \in Numbers :
          /\ sessions[n].at = "posted"
          /\ sessions' = [sessions EXCEPT ![n].at =
                            IF sessions[n].conn # NoConnection
                              THEN "opened" ELSE "dropped"]
          /\ UNCHANGED <<timeout, listening, backlog, attempted>>
          /\ RunsHandler(HasWork(listening', sessions'))
    BY DEF WorkerHandlesQuery, RunsInWorker, HandleQuery
<1>2. PICK x \in {"opened", "dropped"} :
          sessions' = [sessions EXCEPT ![n].at = x]
    BY <1>1
<1>3. x \in Stages /\ x \notin {"accepting", "done"}
    BY DEF Stages
<1>4. /\ TypeOK' /\ listening' = "yes"
      /\ \E m \in 1..Len(sessions') : OnlyLoop(sessions', m)
    BY <1>1, <1>2, <1>3, SessionStep
<1>5. HasWork(listening', sessions')
    <2>1. sessions' \in Seq(Session)
        BY <1>4 DEF TypeOK
    <2> QED BY <1>4, <2>1, LoopIsWork
<1> QED BY <1>1, <1>4, <1>5, HandlerStep

(* An accept completes: two fields of the session change. *)
LEMMA AcceptCompletesLoop ==
    ASSUME LoopInv, NEW n \in Numbers, AcceptCompletes(n)
    PROVE  /\ TypeOK' /\ listening' = listening /\ listening = "yes"
           /\ \E m \in 1..Len(sessions') : OnlyLoop(sessions', m)
<1> DEFINE c == Head(backlog)
           r == [sessions[n] EXCEPT !.at = "done", !.conn = c]
<1>1. /\ sessions \in Seq(Session) /\ n \in 1..Len(sessions)
      /\ backlog \in Seq(Connections) /\ backlog # <<>>
      /\ sessions[n].at = "accepting" /\ backlog' = Tail(backlog)
      /\ UNCHANGED <<timeout, listening, attempted>>
    BY DEF LoopInv, ServerTypeOK, TypeOK, Numbers, AcceptCompletes
<1>2. c \in Connections /\ backlog' \in Seq(Connections)
    BY <1>1
<1>3. sessions[n] \in Session
    BY <1>1
<1>4. sessions' = [sessions EXCEPT ![n] = r]
    <2>1. sessions' = [sessions EXCEPT ![n].at = "done", ![n].conn = c]
        BY DEF AcceptCompletes
    <2> QED BY <1>1, <2>1
<1>5. r \in Session /\ r.at = "done"
    <2> HIDE DEF c
    <2> QED BY <1>2, <1>3 DEF Session
<1> HIDE DEF r, c
<1>6. /\ sessions' \in Seq(Session) /\ Len(sessions') = Len(sessions)
      /\ sessions'[n] = r
      /\ \A m \in 1..Len(sessions) : m # n => sessions'[m] = sessions[m]
    BY <1>1, <1>4, <1>5
<1>7. listening = "yes" /\ OnlyLoop(sessions, n)
    BY <1>1 DEF LoopInv, Numbers, OnlyLoop
<1>8. OnlyLoop(sessions', n)
    BY <1>5, <1>6, <1>7 DEF OnlyLoop
<1>9. TypeOK'
    BY <1>1, <1>2, <1>6 DEF LoopInv, ServerTypeOK, TypeOK
<1> QED BY <1>1, <1>6, <1>7, <1>8, <1>9

LEMMA FromOutsideKeeps == LoopInv /\ FromOutside => LoopInv'
<1> SUFFICES ASSUME LoopInv, FromOutside PROVE LoopInv'
    OBVIOUS
<1>1. UNCHANGED <<io, starting, running, caller>>
    BY DEF FromOutside, poolVars
<1>2. PoolTypeOK' /\ NeverDry'
    BY <1>1 DEF LoopInv, ServerTypeOK, PoolTypeOK, NeverDry
<1>3. CASE \E t \in Timeouts : SetTimeout(t)
    <2>1. UNCHANGED <<listening, sessions, backlog, attempted>> /\ timeout' \in TimeoutType
        BY <1>3, TimeoutTyped DEF SetTimeout
    <2>2. TypeOK'
        BY <2>1 DEF LoopInv, ServerTypeOK, TypeOK
    <2> QED BY <1>1, <1>2, <2>1, <2>2 DEF LoopInv, ServerTypeOK, Numbers
<1>4. CASE \E c \in Connections : Connect(c)
    <2>1. PICK c \in Connections : Connect(c)
        BY <1>4
    <2>2. /\ UNCHANGED <<timeout, listening, sessions>>
          /\ backlog' = Append(backlog, c) /\ attempted' = attempted \cup {c}
        BY <2>1 DEF Connect
    <2>3. TypeOK'
        BY <2>2 DEF LoopInv, ServerTypeOK, TypeOK
    <2> QED BY <1>1, <1>2, <2>2, <2>3 DEF LoopInv, ServerTypeOK, Numbers
<1>5. CASE \E n \in Numbers : AcceptCompletes(n) \/ AcceptFails(n)
    <2>1. PICK n \in Numbers : AcceptCompletes(n) \/ AcceptFails(n)
        BY <1>5
    <2>2. /\ TypeOK' /\ listening' = listening /\ listening = "yes"
          /\ \E m \in 1..Len(sessions') : OnlyLoop(sessions', m)
        <3>1. CASE AcceptFails(n)
            <4>1. listening' = "yes" /\ TypeOK'
                  /\ \E m \in 1..Len(sessions') : OnlyLoop(sessions', m)
                BY <3>1, SessionStep DEF AcceptFails, Stages
            <4> QED BY <3>1, <4>1 DEF AcceptFails
        <3>2. CASE AcceptCompletes(n)
            BY <3>2, AcceptCompletesLoop
        <3> QED BY <2>1, <3>1, <3>2
    <2>3. \E m \in Numbers' : OnlyLoop(sessions, m)'
        BY <2>2 DEF Numbers, OnlyLoop
    <2>4. caller # "gone"
        BY <2>2 DEF LoopInv
    <2> QED BY <1>1, <1>2, <2>2, <2>3, <2>4 DEF LoopInv, ServerTypeOK
<1> QED BY <1>3, <1>4, <1>5 DEF FromOutside

(* Creating, stopping and joining workers leaves the accept loop alone. *)
LEMMA WorkersKeep == LoopInv /\ Workers => LoopInv'
<1> SUFFICES ASSUME LoopInv, Workers PROVE LoopInv'
    OBVIOUS
<1>1. UNCHANGED <<timeout, listening, sessions, backlog, attempted>>
    BY DEF Workers, vars
<1>2. TypeOK' /\ Numbers' = Numbers
    BY <1>1 DEF LoopInv, ServerTypeOK, TypeOK, Numbers
<1>3. PoolOnly(HasWork(listening, sessions))
    BY DEF Workers
<1>4. caller # "gone" /\ caller' # "gone"
    BY <1>3 DEF PoolOnly, CreateWorker, CallRun, ReturnFromRun, Stop, JoinAll,
                LoopInv, ServerTypeOK, PoolTypeOK
<1>5. HasWork(listening, sessions)
    BY <1>4, AlwaysWork
<1>6. PoolTypeOK' /\ NeverDry'
    <2>1. CASE CreateWorker
        BY <2>1, WorkersAssumption
        DEF CreateWorker, LoopInv, ServerTypeOK, PoolTypeOK, NeverDry
    <2>2. CASE CallRun(HasWork(listening, sessions))
        BY <1>5, <2>2, WorkersAssumption
        DEF CallRun, LoopInv, ServerTypeOK, PoolTypeOK, NeverDry
    <2>3. CASE ReturnFromRun
        BY <2>3, WorkersAssumption
        DEF ReturnFromRun, LoopInv, ServerTypeOK, PoolTypeOK, NeverDry
    <2>4. CASE Stop \/ JoinAll
        BY <2>4, WorkersAssumption
        DEF Stop, JoinAll, LoopInv, ServerTypeOK, PoolTypeOK, NeverDry
    <2> QED BY <1>3, <2>1, <2>2, <2>3, <2>4 DEF PoolOnly
<1> QED BY <1>1, <1>2, <1>4, <1>6 DEF LoopInv, ServerTypeOK, OnlyLoop

LEMMA DestroyServerKeeps == LoopInv /\ DestroyServer => LoopInv'
<1> SUFFICES ASSUME LoopInv, DestroyServer PROVE LoopInv'
    OBVIOUS
<1>1. /\ caller' = "gone" /\ starting = 0 /\ running = 0
      /\ UNCHANGED <<io, starting, running>>
      /\ listening' = "no" /\ sessions' = <<>> /\ backlog' = <<>>
      /\ UNCHANGED <<timeout, attempted>>
    BY DEF DestroyServer, Destroy
<1>2. TypeOK' /\ PoolTypeOK' /\ NeverDry'
    BY <1>1 DEF LoopInv, ServerTypeOK, TypeOK, PoolTypeOK, NeverDry
<1> QED BY <1>1, <1>2 DEF LoopInv, ServerTypeOK

(* Every step of the server keeps the loop, the work and the workers. *)
THEOREM NextLoopInv == LoopInv /\ [ServerNext]_serverVars => LoopInv'
<1> SUFFICES ASSUME LoopInv, [ServerNext]_serverVars PROVE LoopInv'
    OBVIOUS
<1>1. CASE UNCHANGED serverVars
    <2>1. /\ UNCHANGED <<timeout, listening, sessions, backlog, attempted>>
          /\ UNCHANGED <<io, starting, running, caller>>
        BY <1>1 DEF serverVars, vars, poolVars
    <2>2. TypeOK' /\ PoolTypeOK' /\ NeverDry' /\ Numbers' = Numbers
        BY <2>1 DEF LoopInv, ServerTypeOK, TypeOK, PoolTypeOK, NeverDry, Numbers
    <2> QED BY <2>1, <2>2 DEF LoopInv, ServerTypeOK
<1> QED BY <1>1, WorkerListensKeeps, WorkerAcceptsKeeps, WorkerHandlesQueryKeeps,
           FromOutsideKeeps, WorkersKeep, DestroyServerKeeps DEF ServerNext

(* A server that listens is at one place of its accept loop, and its       *)
(* io_service has work (tcp/Server.h:61-65, streaming/Server.h:42-53).     *)
THEOREM LoopInvariant == ServerSpec => []LoopInv
BY InitLoopInv, NextLoopInv, PTL DEF ServerSpec

-----------------------------------------------------------------------------
(* The state keeps its types. *)
THEOREM ServerTypeCorrect == ServerSpec => []ServerTypeOK
<1>1. LoopInv => ServerTypeOK
    BY DEF LoopInv
<1> QED BY <1>1, LoopInvariant, PTL

(* One accept at a time, as soon as the loop runs (Server.h:61-65).        *)
THEOREM AlwaysOneAcceptor == ServerSpec => []OneAcceptor
<1>1. LoopInv => OneAcceptor
    <2> SUFFICES ASSUME LoopInv PROVE OneAcceptor
        OBVIOUS
    <2>1. CASE listening = "yes"
        <3>1. PICK n \in Numbers : OnlyLoop(sessions, n)
            BY <2>1 DEF LoopInv
        <3>2. {m \in Numbers : InLoop(m)} = {n}
            BY <3>1 DEF OnlyLoop, InLoop, Numbers
        <3> QED BY <2>1, <3>2, FS_Singleton DEF OneAcceptor
    <2>2. CASE listening # "yes"
        <3>1. Len(sessions) = 0
            BY <2>2 DEF LoopInv
        <3>2. {m \in Numbers : InLoop(m)} = {}
            BY <3>1 DEF Numbers
        <3> QED BY <2>2, <3>2, FS_EmptySet DEF OneAcceptor
    <2> QED BY <2>1, <2>2
<1> QED BY <1>1, LoopInvariant, PTL

(* The io_service never runs dry: no worker leaves before Stop             *)
(* (streaming/Server.h:42-53, tcp/Server.h:61-65).                         *)
THEOREM AlwaysNeverDry == ServerSpec => []NeverDry
<1>1. LoopInv => NeverDry
    BY DEF LoopInv
<1> QED BY <1>1, LoopInvariant, PTL

-----------------------------------------------------------------------------
(* No client is lost.                                                      *)

(* A session has a client once its accept has completed.                   *)
AcceptInv == \A n \in Numbers : sessions[n].at = "accepting" => sessions[n].conn = NoConnection

ClientsInv == AcceptInv /\ ClientsKept

(* A session that moves on keeps its client.                               *)
LEMMA MoveKeepsClient ==
    ASSUME NEW all \in Seq(Session), NEW n \in 1..Len(all), NEW x \in Stages
    PROVE  \A m \in 1..Len(all) : [all EXCEPT ![n].at = x][m].conn = all[m].conn
<1> DEFINE r == [all[n] EXCEPT !.at = x]
           s == [all EXCEPT ![n] = r]
<1>1. all[n] \in Session
    OBVIOUS
<1>2. r.conn = all[n].conn
    BY <1>1 DEF Session
<1> HIDE DEF r
<1>3. \A m \in 1..Len(all) : s[m] = IF m = n THEN r ELSE all[m]
    OBVIOUS
<1>4. \A m \in 1..Len(all) : s[m].conn = all[m].conn
    BY <1>2, <1>3
<1>5. s = [all EXCEPT ![n].at = x]
    BY DEF r
<1> QED BY <1>4, <1>5, Zenon

(* The next session has none.                                              *)
LEMMA NewHasNoClient ==
    ASSUME NEW all \in Seq(Session), NEW t \in TimeoutType
    PROVE  LET s == Append(all, NewSession(t)) IN
           /\ Len(s) = Len(all) + 1 /\ s[Len(all) + 1].conn = NoConnection
           /\ \A m \in 1..Len(all) : s[m] = all[m]
<1> DEFINE r == NewSession(t)
<1>1. r \in Session /\ r.conn = NoConnection
    BY DEF NewSession, Session
<1> HIDE DEF r
<1> QED BY <1>1 DEF r

(* Sessions keep their clients, and one that is new has none.              *)
SessionsKept ==
    /\ \A m \in Numbers : m \in Numbers' /\ sessions'[m].conn = sessions[m].conn
    /\ \A m \in Numbers' : m \in Numbers \/ sessions'[m].conn = NoConnection
    /\ \A m \in Numbers' : sessions'[m].at = "accepting" =>
                              m \notin Numbers \/ sessions[m].at = "accepting"

LEMMA SessionsKeptIs ==
    ASSUME ClientsInv, SessionsKept, UNCHANGED <<backlog, attempted, caller>>
    PROVE  ClientsInv'
<1>1. Waiting' = Waiting
    BY DEF Waiting
<1>2. Accepted' = Accepted
    BY DEF Accepted, SessionsKept
<1>3. AcceptInv'
    BY DEF ClientsInv, AcceptInv, SessionsKept
<1>4. ASSUME caller # "gone", NEW m \in Numbers', NEW n \in Numbers',
             sessions'[m].conn = sessions'[n].conn, sessions'[m].conn # NoConnection
      PROVE  m = n
    BY <1>4 DEF ClientsInv, ClientsKept, SessionsKept
<1> QED BY <1>1, <1>2, <1>3, <1>4 DEF ClientsInv, ClientsKept

LEMMA AcceptKeepsClients ==
    ASSUME LoopInv, ClientsInv, NEW n \in Numbers, AcceptCompletes(n),
           caller # "gone", caller' = caller
    PROVE  ClientsInv'
<1> DEFINE c == Head(backlog)
           r == [sessions[n] EXCEPT !.at = "done", !.conn = c]
<1>1. /\ sessions \in Seq(Session) /\ n \in 1..Len(sessions)
      /\ backlog \in Seq(Connections) /\ backlog # <<>>
      /\ sessions[n].at = "accepting" /\ backlog' = Tail(backlog)
      /\ UNCHANGED attempted
    BY DEF LoopInv, ServerTypeOK, TypeOK, Numbers, AcceptCompletes
<1>2. sessions[n] \in Session
    BY <1>1
<1>3. sessions' = [sessions EXCEPT ![n] = r]
    <2>1. sessions' = [sessions EXCEPT ![n].at = "done", ![n].conn = c]
        BY DEF AcceptCompletes
    <2> QED BY <1>1, <2>1
<1>4. r.at = "done" /\ r.conn = c
    <2> HIDE DEF c
    <2> QED BY <1>2 DEF Session
<1>5. /\ c = backlog[1] /\ 1 \in 1..Len(backlog) /\ c \in Connections
      /\ Len(backlog') = Len(backlog) - 1 /\ Len(backlog) \in Nat
      /\ \A i \in 1..Len(backlog') : i + 1 \in 1..Len(backlog) /\ backlog'[i] = backlog[i + 1]
    BY <1>1
<1> HIDE DEF r, c
<1>6. /\ Numbers' = Numbers
      /\ \A m \in Numbers : sessions'[m] = IF m = n THEN r ELSE sessions[m]
    BY <1>1, <1>3 DEF Numbers
<1>7. /\ attempted = Waiting \cup Accepted /\ Waiting \cap Accepted = {}
      /\ \A i, j \in 1..Len(backlog) : backlog[i] = backlog[j] => i = j
      /\ \A m, k \in Numbers :
              sessions[m].conn = sessions[k].conn /\ sessions[m].conn # NoConnection
                  => m = k
    BY DEF ClientsInv, ClientsKept
<1>8. sessions[n].conn = NoConnection /\ c # NoConnection
    BY <1>1, <1>5, ConnectionsAssumption DEF ClientsInv, AcceptInv
<1>9. c \in Waiting /\ c \notin Accepted
    BY <1>5, <1>7 DEF Waiting
<1>10. Accepted' = Accepted \cup {c}
    <2>1. \A m \in Numbers : sessions'[m].conn = IF m = n THEN c ELSE sessions[m].conn
        BY <1>4, <1>6
    <2> QED BY <1>6, <1>8, <2>1 DEF Accepted
<1>11. Waiting' = Waiting \ {c}
    <2>1. ASSUME NEW x \in Waiting' PROVE x \in Waiting \ {c}
        <3>1. PICK i \in 1..Len(backlog') : x = backlog'[i]
            BY <2>1 DEF Waiting
        <3>2. i + 1 \in 1..Len(backlog) /\ x = backlog[i + 1] /\ i + 1 # 1
            BY <1>5, <3>1
        <3>3. x # backlog[1]
            BY <1>5, <1>7, <3>2
        <3> QED BY <1>5, <3>2, <3>3 DEF Waiting
    <2>2. ASSUME NEW x \in Waiting, x # c PROVE x \in Waiting'
        <3>1. PICK i \in 1..Len(backlog) : x = backlog[i]
            BY DEF Waiting
        <3>2. i # 1
            BY <1>5, <2>2, <3>1
        <3>3. i - 1 \in 1..Len(backlog') /\ (i - 1) + 1 = i
            BY <1>5, <3>2
        <3>4. backlog'[i - 1] = backlog[i]
            BY <1>5, <3>3
        <3> QED BY <3>1, <3>3, <3>4 DEF Waiting
    <2> QED BY <2>1, <2>2
<1>12. ASSUME NEW i \in 1..Len(backlog'), NEW j \in 1..Len(backlog'), backlog'[i] = backlog'[j]
       PROVE  i = j
    <2>1. i + 1 \in 1..Len(backlog) /\ j + 1 \in 1..Len(backlog) /\ backlog[i + 1] = backlog[j + 1]
        BY <1>5, <1>12
    <2>2. i + 1 = j + 1
        BY <1>7, <2>1
    <2> QED BY <2>2
<1>13. ASSUME NEW m \in Numbers, NEW k \in Numbers,
              sessions'[m].conn = sessions'[k].conn, sessions'[m].conn # NoConnection
       PROVE  m = k
    <2>1. \A i \in Numbers : i # n => sessions'[i].conn = sessions[i].conn
        BY <1>6
    <2>2. \A i \in Numbers : sessions[i].conn # c
        BY <1>8, <1>9 DEF Accepted
    <2>3. sessions'[n].conn = c
        BY <1>4, <1>6
    <2> QED BY <1>7, <1>13, <2>1, <2>2, <2>3
<1>14. AcceptInv'
    BY <1>4, <1>6 DEF ClientsInv, AcceptInv
<1>15. attempted' = Waiting' \cup Accepted' /\ Waiting' \cap Accepted' = {}
    BY <1>1, <1>7, <1>9, <1>10, <1>11
<1> QED BY <1>6, <1>12, <1>13, <1>14, <1>15 DEF ClientsInv, ClientsKept

LEMMA ConnectKeepsClients ==
    ASSUME LoopInv, ClientsInv, NEW c \in Connections, Connect(c), caller' = caller
    PROVE  ClientsInv'
<1>1. /\ c \notin attempted /\ attempted' = attempted \cup {c}
      /\ backlog' = Append(backlog, c) /\ UNCHANGED sessions
    BY DEF Connect
<1>2. /\ Len(backlog') = Len(backlog) + 1 /\ Len(backlog) \in Nat
      /\ backlog'[Len(backlog) + 1] = c
      /\ \A i \in 1..Len(backlog) : backlog'[i] = backlog[i]
      /\ \A i \in 1..Len(backlog') : i \in 1..Len(backlog) \/ i = Len(backlog) + 1
      /\ \A i \in 1..Len(backlog) : i \in 1..Len(backlog')
      /\ Len(backlog) + 1 \in 1..Len(backlog')
    <2>1. backlog \in Seq(Connections)
        BY DEF LoopInv, ServerTypeOK, TypeOK
    <2> QED BY <1>1, <2>1
<1>3. Numbers' = Numbers /\ Accepted' = Accepted /\ AcceptInv'
    BY <1>1 DEF Numbers, Accepted, ClientsInv, AcceptInv
<1>4. Waiting' = Waiting \cup {c}
    <2>1. \A x \in Waiting' : x \in Waiting \/ x = c
        BY <1>2 DEF Waiting
    <2>2. \A x \in Waiting : x \in Waiting'
        BY <1>2 DEF Waiting
    <2>3. c \in Waiting'
        BY <1>2 DEF Waiting
    <2> QED BY <2>1, <2>2, <2>3
<1>5. ASSUME caller # "gone" PROVE ClientsKept'
    <2>1. attempted = Waiting \cup Accepted /\ Waiting \cap Accepted = {}
        BY <1>5 DEF ClientsInv, ClientsKept
    <2>2. attempted' = Waiting' \cup Accepted' /\ Waiting' \cap Accepted' = {}
        BY <1>1, <1>3, <1>4, <2>1
    <2>3. \A i \in 1..Len(backlog) : backlog[i] # c
        BY <1>1, <2>1 DEF Waiting
    <2>4. ASSUME NEW i \in 1..Len(backlog'), NEW j \in 1..Len(backlog'), backlog'[i] = backlog'[j]
          PROVE  i = j
        BY <1>2, <1>5, <2>3, <2>4 DEF ClientsInv, ClientsKept
    <2>5. \A m, n \in Numbers' :
              sessions'[m].conn = sessions'[n].conn /\ sessions'[m].conn # NoConnection
                  => m = n
        BY <1>1, <1>3, <1>5 DEF ClientsInv, ClientsKept
    <2> QED BY <2>2, <2>4, <2>5 DEF ClientsKept
<1>6. ClientsKept'
    BY <1>5 DEF ClientsKept
<1> QED BY <1>3, <1>6 DEF ClientsInv

(* A handler of the loop appends a session, moves one, or both.            *)
LEMMA HandlersKeepClients ==
    ASSUME LoopInv,
           \/ RunListen
           \/ \E n \in Numbers : HandleAccept(n) \/ HandleQuery(n) \/ AcceptFails(n)
    PROVE  SessionsKept
<1>1. sessions \in Seq(Session) /\ Numbers = 1..Len(sessions) /\ timeout \in TimeoutType
    BY DEF LoopInv, ServerTypeOK, TypeOK, Numbers
<1>2. CASE RunListen
    <2>1. sessions' = Append(sessions, NewSession(timeout))
        BY <1>2 DEF RunListen
    <2>2. /\ Len(sessions') = Len(sessions) + 1
          /\ sessions'[Len(sessions) + 1].conn = NoConnection
          /\ \A m \in 1..Len(sessions) : sessions'[m] = sessions[m]
        BY <1>1, <2>1, NewHasNoClient
    <2>3. Len(sessions) \in Nat /\ Numbers' = 1..(Len(sessions) + 1)
        BY <1>1, <2>2 DEF Numbers
    <2> QED BY <1>1, <2>2, <2>3 DEF SessionsKept
<1>3. CASE \E n \in Numbers : HandleAccept(n)
    <2>1. PICK n \in 1..Len(sessions) :
              sessions' = Append([sessions EXCEPT ![n].at = "posted"],
                                 NewSession(sessions[n].timeout))
        BY <1>1, <1>3 DEF HandleAccept
    <2> DEFINE mid == [sessions EXCEPT ![n].at = "posted"]
    <2>2. "posted" \in Stages /\ sessions[n].timeout \in TimeoutType
        BY <1>1, TimeoutOf DEF Stages
    <2>3. /\ mid \in Seq(Session) /\ Len(mid) = Len(sessions) /\ mid[n].at = "posted"
          /\ \A m \in 1..Len(sessions) : m # n => mid[m] = sessions[m]
        BY <1>1, <2>2, SessionMoves
    <2>4. \A m \in 1..Len(sessions) : mid[m].conn = sessions[m].conn
        BY <1>1, <2>2, MoveKeepsClient
    <2> HIDE DEF mid
    <2>5. /\ Len(sessions') = Len(mid) + 1 /\ sessions'[Len(mid) + 1].conn = NoConnection
          /\ \A m \in 1..Len(mid) : sessions'[m] = mid[m]
        BY <2>1, <2>2, <2>3, NewHasNoClient DEF mid
    <2>6. Len(sessions) \in Nat /\ Numbers' = 1..(Len(sessions) + 1)
        BY <1>1, <2>3, <2>5 DEF Numbers
    <2> QED BY <1>1, <2>3, <2>4, <2>5, <2>6 DEF SessionsKept
<1>4. CASE \E n \in Numbers : HandleQuery(n) \/ AcceptFails(n)
    <2>1. PICK n \in 1..Len(sessions), x \in {"opened", "dropped", "done"} :
              sessions' = [sessions EXCEPT ![n].at = x]
        BY <1>1, <1>4 DEF HandleQuery, AcceptFails
    <2>2. x \in Stages /\ x # "accepting"
        BY DEF Stages
    <2>3. /\ Len(sessions') = Len(sessions) /\ sessions'[n].at = x
          /\ \A m \in 1..Len(sessions) : m # n => sessions'[m] = sessions[m]
        BY <1>1, <2>1, <2>2, SessionMoves
    <2>4. \A m \in 1..Len(sessions) : sessions'[m].conn = sessions[m].conn
        BY <1>1, <2>1, <2>2, MoveKeepsClient
    <2>5. Numbers' = Numbers
        BY <2>3 DEF Numbers
    <2> QED BY <1>1, <2>2, <2>3, <2>4, <2>5 DEF SessionsKept
<1> QED BY <1>2, <1>3, <1>4

LEMMA NextClientsInv == LoopInv /\ ClientsInv /\ [ServerNext]_serverVars => ClientsInv'
<1> SUFFICES ASSUME LoopInv, ClientsInv, [ServerNext]_serverVars PROVE ClientsInv'
    OBVIOUS
<1>1. ASSUME UNCHANGED <<sessions, backlog, attempted>>, caller' # "gone" => caller # "gone"
      PROVE  ClientsInv'
    <2>1. Numbers' = Numbers /\ Waiting' = Waiting /\ Accepted' = Accepted
        BY <1>1 DEF Numbers, Waiting, Accepted
    <2> QED BY <1>1, <2>1 DEF ClientsInv, AcceptInv, ClientsKept
<1>2. CASE WorkerListens \/ WorkerAccepts \/ WorkerHandlesQuery
    <2>1. /\ RunListen \/ \E n \in Numbers : HandleAccept(n) \/ HandleQuery(n)
          /\ caller' = caller
        BY <1>2 DEF WorkerListens, WorkerAccepts, WorkerHandlesQuery, RunsInWorker, RunsHandler
    <2>2. UNCHANGED <<backlog, attempted>>
        BY <2>1 DEF RunListen, HandleAccept, HandleQuery
    <2> QED BY <2>1, <2>2, HandlersKeepClients, SessionsKeptIs
<1>3. CASE FromOutside
    <2>1. caller' = caller
        BY <1>3 DEF FromOutside, poolVars
    <2>2. CASE \E t \in Timeouts : SetTimeout(t)
        BY <1>1, <2>1, <2>2 DEF SetTimeout
    <2>3. CASE \E c \in Connections : Connect(c)
        BY <2>1, <2>3, ConnectKeepsClients
    <2>4. ASSUME caller # "gone", NEW n \in Numbers, AcceptCompletes(n) PROVE ClientsInv'
        BY <2>1, <2>4, AcceptKeepsClients
    <2>5. ASSUME NEW n \in Numbers, AcceptFails(n) PROVE ClientsInv'
        <3>1. UNCHANGED <<backlog, attempted>>
            BY <2>5 DEF AcceptFails
        <3> QED BY <2>1, <2>5, <3>1, HandlersKeepClients, SessionsKeptIs
    <2> QED BY <1>3, <2>2, <2>3, <2>4, <2>5 DEF FromOutside
<1>4. CASE Workers
    <2>1. UNCHANGED <<sessions, backlog, attempted>>
        BY <1>4 DEF Workers, vars
    <2>2. caller' # "gone" => caller # "gone"
        BY <1>4 DEF Workers, PoolOnly, CreateWorker, CallRun, ReturnFromRun, Stop, JoinAll
    <2> QED BY <1>1, <2>1, <2>2
<1>5. CASE DestroyServer
    <2>1. caller' = "gone" /\ sessions' = <<>>
        BY <1>5 DEF DestroyServer, Destroy
    <2>2. Numbers' = {}
        BY <2>1 DEF Numbers
    <2> QED BY <2>1, <2>2 DEF ClientsInv, AcceptInv, ClientsKept
<1>6. CASE UNCHANGED serverVars
    BY <1>1, <1>6 DEF serverVars, vars, poolVars
<1> QED BY <1>2, <1>3, <1>4, <1>5, <1>6 DEF ServerNext

(* No client that connected is lost and none has two sessions, however     *)
(* many accepts fail and in whatever order workers run the handlers        *)
(* (tcp/Server.h:47-66).                                                   *)
THEOREM ClientsAlwaysKept == ServerSpec => []ClientsKept
<1>1. ServerInit => ClientsInv
    <2> SUFFICES ASSUME ServerInit PROVE ClientsInv
        OBVIOUS
    <2>1. Numbers = {} /\ 1..Len(backlog) = {} /\ attempted = {}
        BY DEF ServerInit, Numbers
    <2>2. Waiting = {} /\ Accepted = {}
        BY <2>1 DEF Waiting, Accepted
    <2> QED BY <2>1, <2>2 DEF ClientsInv, AcceptInv, ClientsKept
<1>2. ClientsInv => ClientsKept
    BY DEF ClientsInv
<1> QED BY <1>1, <1>2, NextClientsInv, LoopInvariant, PTL DEF ServerSpec
=============================================================================
