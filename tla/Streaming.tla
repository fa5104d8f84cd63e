------------------------------ MODULE Streaming ------------------------------
(***************************************************************************)
(* One stream from its writer to the clients that subscribed to it:        *)
(* Stream, StreamState and the callback that registers sessions on the     *)
(* side of the server (streaming/Stream.h, low_level/StreamState.h,        *)
(* low_level/Server.h), put together with the sessions and the clients     *)
(* that the modules ServerSession, TcpServer and TcpClient model in        *)
(* detail.  Of a session this module keeps what those show of it: its      *)
(* callback is posted once, to run at any time; it closes itself when      *)
(* nothing is written to it for long enough; it reads nothing after the    *)
(* id, so it does not learn that its client is gone.  Of a client it keeps *)
(* that it subscribes again whenever its connection fails.                 *)
(*                                                                         *)
(* A stream has at most one session: the one whose callback ran last.      *)
(***************************************************************************)
EXTENDS Naturals, FiniteSets

CONSTANTS
    Clients,    \* subscribers of the stream
    Sessions,   \* pool of session objects, used again when released
    None        \* no session, no client

ASSUME NoneAssumption == None \notin Sessions \cup Clients

VARIABLES
    owner,      \* the client of each session
    up,         \* sessions with an open socket
    posted,     \* sessions whose callback is posted and did not run
    registered, \* _session of the StreamState
    writer,     \* the session a writer got and did not write to yet
    link        \* the session at the other end of a client's connection

vars == <<owner, up, posted, registered, writer, link>>

TypeOK ==
    /\ owner \in [Sessions -> Clients \cup {None}]
    /\ up \subseteq Sessions
    /\ posted \subseteq Sessions
    /\ registered \in Sessions \cup {None}
    /\ writer \in Sessions \cup {None}
    /\ link \in [Clients -> Sessions \cup {None}]
    /\ \A c \in Clients : link[c] # None => owner[link[c]] = c
    /\ \A s \in up \cup posted \cup ({registered, writer} \ {None}) :
           owner[s] # None

(* A session lives as long as its socket, its callback, the StreamState or *)
(* a writer refers to it.                                                  *)
Released(s) ==
    /\ s \notin up /\ s \notin posted
    /\ s # registered /\ s # writer

Init ==
    /\ owner = [s \in Sessions |-> None]
    /\ up = {} /\ posted = {}
    /\ registered = None /\ writer = None
    /\ link = [c \in Clients |-> None]

-----------------------------------------------------------------------------
(* A client connects, a session is opened for it and reads the id of the   *)
(* stream; it posts its callback.                                          *)
Subscribe(c) ==
    /\ link[c] = None
    /\ \E s \in Sessions :
        /\ Released(s) /\ \A d \in Clients : link[d] # s
        /\ owner' = [owner EXCEPT ![s] = c]
        /\ up' = up \cup {s}
        /\ posted' = posted \cup {s}
        /\ link' = [link EXCEPT ![c] = s]
    /\ UNCHANGED <<registered, writer>>

\* Mutated: a stream keeps its first session.
KeepsFirst(s) ==
    /\ s \in posted
    /\ posted' = posted \ {s}
    /\ registered' = IF registered = None THEN s ELSE registered
    /\ UNCHANGED <<owner, up, writer, link>>

(* A worker runs the callback, of a session that may be closed by now, and *)
(* after the callback of a session that was opened later.                  *)
RunCallback(s) ==
    /\ s \in posted
    /\ posted' = posted \ {s}
    /\ registered' = s
    /\ UNCHANGED <<owner, up, writer, link>>

(* StreamState::Write looks up the session ...                             *)
GetSession ==
    /\ writer = None /\ registered # None
    /\ writer' = registered
    /\ UNCHANGED <<owner, up, posted, registered, link>>

(* ... and writes to it without the lock.  The message reaches the client  *)
(* if it is still at the other end.                                        *)
WriteToSession ==
    /\ writer # None
    /\ writer' = None
    /\ UNCHANGED <<owner, up, posted, registered, link>>

\* Mutated: only a session of the stream is watched.
ExpiresRegistered(s) ==
    /\ s \in up /\ s = registered
    /\ up' = up \ {s}
    /\ UNCHANGED <<owner, posted, registered, writer, link>>

(* The deadline of a session passes and it closes its socket. *)
Expire(s) ==
    /\ s \in up
    /\ up' = up \ {s}
    /\ UNCHANGED <<owner, posted, registered, writer, link>>

(* The client sees that its session closed the connection. *)
NoticeClosed(c) ==
    /\ link[c] # None /\ link[c] \notin up
    /\ link' = [link EXCEPT ![c] = None]
    /\ UNCHANGED <<owner, up, posted, registered, writer>>

(* The connection fails, and only the client notices. *)
LoseConnection(c) ==
    /\ link[c] \in up
    /\ link' = [link EXCEPT ![c] = None]
    /\ UNCHANGED <<owner, up, posted, registered, writer>>

Next ==
    \/ \E c \in Clients : Subscribe(c) \/ NoticeClosed(c) \/ LoseConnection(c)
    \/ \E s \in Sessions : RunCallback(s) \/ Expire(s)
    \/ GetSession \/ WriteToSession

Spec == Init /\ [][Next]_vars

(* The workers run what is posted, clients try again, the writer goes on   *)
(* writing, and a session that is not written to runs into its deadline.   *)
Fairness ==
    /\ \A c \in Clients : WF_vars(Subscribe(c)) /\ WF_vars(NoticeClosed(c))
    /\ \A s \in Sessions :
        /\ WF_vars(RunCallback(s))
        /\ WF_vars(s # registered /\ s # writer /\ Expire(s))
    /\ WF_vars(GetSession \/ WriteToSession)

FairSpec == Spec /\ Fairness

-----------------------------------------------------------------------------
(* Properties.                                                             *)

(* The client can be fed: the stream's session is the one it is linked to. *)
Served(c) == registered # None /\ link[c] = registered /\ registered \in up

(* Excluded by a good network, by callbacks that run and messages that     *)
(* come within the time-out: the session of a connected client expires     *)
(* before its callback ran, or while it has, or is about to have, the      *)
(* messages of the stream.                                                 *)
Misfortune ==
    \/ \E c \in Clients : LoseConnection(c)
    \/ \E s \in up :
        /\ link[owner[s]] = s
        /\ s \in posted \cup {registered, writer}
        /\ Expire(s)

Delivery == WriteToSession /\ writer \in up /\ link[owner[writer]] = writer

(* However connections failed before, and in whatever order the callbacks  *)
(* ran: once the network behaves, messages get through to a subscriber     *)
(* again and again.  A stream whose latest session is a stale one heals,   *)
(* because the session that should have its place gets no messages, runs   *)
(* into its deadline, and its client subscribes anew (ServerSession.h:75,  *)
(* StreamState.h:26-29, 60-65).                                            *)
StreamIsFed == <>[][~Misfortune]_vars => []<><<Delivery>>_vars

(* Subscribers of one stream take it from each other, and each has it      *)
(* again and again (Dispatcher.h:41-51).                                   *)
EachGetsItsTurn ==
    <>[][~Misfortune]_vars => \A c \in Clients : []<>Served(c)

=============================================================================
