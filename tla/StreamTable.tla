---------------------------- MODULE StreamTable ----------------------------
(***************************************************************************)
(* What the dispatcher promises to those who make streams, to those who    *)
(* subscribe and to those who write, without its counter, its locks, the   *)
(* callbacks it waits for and the two halves of a write.                   *)
(*                                                                         *)
(* A stream gets an id that no stream had before, and none is refused      *)
(* while there is one left.  A session asks for one stream, and gets it    *)
(* at most once, some time later, if there is such a stream then; it has   *)
(* it until another session does.  A message goes to the session that has  *)
(* the stream when it is written, or nowhere.                              *)
(***************************************************************************)
EXTENDS Integers

CONSTANTS
    Ids,        \* ids of streams
    Sessions,   \* sessions of clients
    NoSession   \* in place of a session where there is none

VARIABLES
    subscriber, \* stream |-> the session that has it
    exhausted,  \* a stream was refused
    asked,      \* the stream that each session asked for, -1 before
    answered,   \* sessions that got what they asked for, or never will
    sent        \* the streams of the messages that each session is sent

vars == <<subscriber, exhausted, asked, answered, sent>>

Streams == DOMAIN subscriber

Init ==
    /\ subscriber = [id \in {} |-> NoSession]
    /\ exhausted = FALSE
    /\ asked = [s \in Sessions |-> -1]
    /\ answered = {}
    /\ sent = [s \in Sessions |-> {}]

Make(id) ==
    /\ id \notin Streams
    /\ subscriber' = [i \in Streams \cup {id} |->
                        IF i = id THEN NoSession ELSE subscriber[i]]
    /\ UNCHANGED <<exhausted, asked, answered, sent>>

Exhaust ==
    /\ Streams = Ids
    /\ exhausted' = TRUE
    /\ UNCHANGED <<subscriber, asked, answered, sent>>

Ask(s, id) ==
    /\ asked[s] = -1
    /\ asked' = [asked EXCEPT ![s] = id]
    /\ UNCHANGED <<subscriber, exhausted, answered, sent>>

Waits(s) == asked[s] # -1 /\ s \notin answered

Subscribe(s) ==
    /\ Waits(s) /\ asked[s] \in Streams
    /\ subscriber' = [subscriber EXCEPT ![asked[s]] = s]
    /\ answered' = answered \cup {s}
    /\ UNCHANGED <<exhausted, asked, sent>>

Ignore(s) ==
    /\ Waits(s) /\ asked[s] \notin Streams
    /\ answered' = answered \cup {s}
    /\ UNCHANGED <<subscriber, exhausted, asked, sent>>

Write(id) ==
    /\ id \in Streams /\ subscriber[id] # NoSession
    /\ sent' = [sent EXCEPT ![subscriber[id]] = @ \cup {id}]
    /\ UNCHANGED <<subscriber, exhausted, asked, answered>>

Next ==
    \/ Exhaust
    \/ \E id \in Ids : Make(id) \/ Write(id) \/ \E s \in Sessions : Ask(s, id)
    \/ \E s \in Sessions : Subscribe(s) \/ Ignore(s)

Spec == Init /\ [][Next]_vars
=============================================================================
