------------------------------ MODULE TcpServer ------------------------------
(***************************************************************************)
(* The accept loop of the streaming server                                 *)
(* (LibCarla/source/carla/streaming/low_level/tcp/Server.h).               *)
(*                                                                         *)
(* OpenSession constructs a session and waits for a connection on its      *)
(* socket; the handler of the accept posts the session's own handling to   *)
(* the io_service and calls OpenSession again.  The timeout of the         *)
(* sessions is an argument that OpenSession hands on to itself.            *)
(***************************************************************************)
EXTENDS Naturals, Sequences, FiniteSets

CONSTANTS
    Connections,    \* connection attempts, each made at most once
    Timeouts,       \* durations given to set_timeout, in microseconds
    DefaultTimeout, \* the value set by the constructor, in milliseconds
    MaxErrors       \* bound on failed accepts

ASSUME ErrorsAssumption == MaxErrors \in Nat /\ Timeouts \subseteq Nat

NoConnection == <<>>

ASSUME ConnectionsAssumption == NoConnection \notin Connections

VARIABLES
    timeout,    \* _timeout
    listening,  \* "no" | "posted" | "yes": Listen was called / has run
    sessions,   \* the sessions constructed so far, oldest first
    backlog,    \* connections the system established and nobody accepted
    attempted   \* connections that were made

vars == <<timeout, listening, sessions, backlog, attempted>>

(* timeout_type keeps a duration in milliseconds; what is left is cut off. *)
Milliseconds(duration) == duration \div 1000

TimeoutType == {DefaultTimeout} \cup {Milliseconds(t) : t \in Timeouts}

(* A session waits in async_accept ("accepting"), its accept has completed *)
(* ("done"), its handle_query is posted ("posted"), or has run: Open was   *)
(* called ("opened") or the session was dropped with an error ("dropped"). *)
Session == [timeout : TimeoutType,
            conn : Connections \cup {NoConnection},
            at : {"accepting", "done", "posted", "opened", "dropped"}]

NewSession(t) == [timeout |-> t, conn |-> NoConnection, at |-> "accepting"]

Numbers == 1..Len(sessions)
InLoop(n) == sessions[n].at \in {"accepting", "done"}

TypeOK ==
    /\ timeout \in TimeoutType
    /\ listening \in {"no", "posted", "yes"}
    /\ sessions \in Seq(Session)
    /\ backlog \in Seq(Connections)
    /\ attempted \subseteq Connections

Init ==
    /\ timeout = DefaultTimeout
    /\ listening = "no"
    /\ sessions = <<>>
    /\ backlog = <<>>
    /\ attempted = {}

-----------------------------------------------------------------------------
SetTimeout(t) ==
    /\ timeout' = Milliseconds(t)
    /\ UNCHANGED <<listening, sessions, backlog, attempted>>

Listen ==
    /\ listening = "no"
    /\ listening' = "posted"
    /\ UNCHANGED <<timeout, sessions, backlog, attempted>>

(* The posted task reads _timeout and starts the loop. *)
RunListen ==
    /\ listening = "posted"
    /\ listening' = "yes"
    /\ sessions' = Append(sessions, NewSession(timeout))
    /\ UNCHANGED <<timeout, backlog, attempted>>

(* The acceptor is bound and listens since it was constructed: clients     *)
(* connect at any time.                                                    *)
Connect(c) ==
    /\ c \notin attempted
    /\ attempted' = attempted \cup {c}
    /\ backlog' = Append(backlog, c)
    /\ UNCHANGED <<timeout, listening, sessions>>

AcceptCompletes(n) ==
    /\ n \in Numbers
    /\ sessions[n].at = "accepting"
    /\ backlog # <<>>
    /\ sessions' = [sessions EXCEPT ![n].at = "done", ![n].conn = Head(backlog)]
    /\ backlog' = Tail(backlog)
    /\ UNCHANGED <<timeout, listening, attempted>>

Errors == {n \in Numbers : sessions[n].at # "accepting" /\ sessions[n].conn = NoConnection}

AcceptFails(n) ==
    /\ n \in Numbers
    /\ sessions[n].at = "accepting"
    /\ Cardinality(Errors) < MaxErrors
    /\ sessions' = [sessions EXCEPT ![n].at = "done"]
    /\ UNCHANGED <<timeout, listening, backlog, attempted>>

\* Mutated: only a successful accept goes round again.
StopsOnError(n) ==
    /\ n \in Numbers
    /\ sessions[n].at = "done"
    /\ sessions' = LET done == [sessions EXCEPT ![n].at = "posted"]
                   IN  IF sessions[n].conn = NoConnection
                         THEN done
                         ELSE Append(done, NewSession(sessions[n].timeout))
    /\ UNCHANGED <<timeout, listening, backlog, attempted>>

\* Mutated: every accept is on the socket of the first session.
ReusesSession(n) ==
    /\ n \in Numbers
    /\ sessions[n].at = "done"
    /\ sessions' = [sessions EXCEPT ![n].at = "accepting"]
    /\ UNCHANGED <<timeout, listening, backlog, attempted>>

(* The handler of the accept: post handle_query and open a new session     *)
(* immediately, error or not.                                              *)
HandleAccept(n) ==
    /\ n \in Numbers
    /\ sessions[n].at = "done"
    /\ sessions' = Append([sessions EXCEPT ![n].at = "posted"],
                          NewSession(sessions[n].timeout))
    /\ UNCHANGED <<timeout, listening, backlog, attempted>>

\* Mutated: the query starts another accept itself.
QueryAccepts(n) ==
    /\ n \in Numbers
    /\ sessions[n].at = "posted"
    /\ sessions' = LET run == [sessions EXCEPT ![n].at =
                                 IF sessions[n].conn # NoConnection
                                   THEN "opened" ELSE "dropped"]
                   IN  IF sessions[n].conn = NoConnection
                         THEN Append(run, NewSession(sessions[n].timeout))
                         ELSE run
    /\ UNCHANGED <<timeout, listening, backlog, attempted>>

(* The posted handle_query; the workers run them in any order.             *)
HandleQuery(n) ==
    /\ n \in Numbers
    /\ sessions[n].at = "posted"
    /\ sessions' = [sessions EXCEPT ![n].at =
                      IF sessions[n].conn # NoConnection THEN "opened" ELSE "dropped"]
    /\ UNCHANGED <<timeout, listening, backlog, attempted>>

AcceptLoop ==
    \E n \in Numbers : AcceptCompletes(n) \/ HandleAccept(n)

Queries == \E n \in Numbers : HandleQuery(n)

Next ==
    \/ \E t \in Timeouts : SetTimeout(t)
    \/ Listen
    \/ RunListen
    \/ \E c \in Connections : Connect(c)
    \/ AcceptLoop
    \/ \E n \in Numbers : AcceptFails(n)
    \/ Queries

Spec == Init /\ [][Next]_vars

(* The workers of the io_service run what is posted and what completes.    *)
Fairness == WF_vars(RunListen) /\ WF_vars(AcceptLoop) /\ WF_vars(Queries)

FairSpec == Spec /\ Fairness

-----------------------------------------------------------------------------
(* Properties.                                                             *)

(* Once the loop runs there is one accept at a time, whatever fails and in *)
(* whatever order the queries run (Server.h:61-65): never none, which would*)
(* leave clients in the backlog, never two.                                *)
OneAcceptor ==
    Cardinality({n \in Numbers : InLoop(n)}) = IF listening = "yes" THEN 1 ELSE 0

(* "Set session time-out. Applies only to newly created sessions."         *)
(* (Server.h:34): a session created after set_timeout has that time-out.   *)
NewSessionsGetTimeout ==
    [][\A n \in 1..Len(sessions') :
          n \notin Numbers => sessions'[n].timeout = timeout]_vars
=============================================================================
