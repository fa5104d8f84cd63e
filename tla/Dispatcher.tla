----------------------------- MODULE Dispatcher -----------------------------
(***************************************************************************)
(* The table of streams of a streaming server and the writes through it    *)
(* (LibCarla/source/carla/streaming/low_level/Dispatcher.h, StreamState.h).*)
(*                                                                         *)
(* MakeStream and RegisterSession hold the mutex of the dispatcher and are *)
(* one step each.  A write is two: StreamState::Write takes a copy of the  *)
(* session pointer under the mutex of the SessionHolder and calls          *)
(* session->Write after the lock is gone.  Sessions reach RegisterSession  *)
(* through callbacks posted to an io_service with several workers, in any  *)
(* order.                                                                  *)
(***************************************************************************)
EXTENDS Integers, Sequences

CONSTANTS
    IdModulus,  \* stream_id_type counts modulo this (2^32 in the code)
    Sessions,   \* sessions whose stream id was or will be read
    NoSession,  \* the null session pointer
    Writers     \* threads that write to streams

ASSUME ModulusAssumption == IdModulus \in Nat \ {0, 1}
ASSUME NoSessionAssumption == NoSession \notin Sessions

Ids == 0 .. IdModulus - 1

VARIABLES
    cached_id,   \* _cached_token._token.stream_id
    stream_map,  \* _stream_map: the session of every stream made
    tokens,      \* history: ids of the streams returned, in order
    threw,       \* history: some MakeStream threw
    asked,       \* what each session read as stream id, -1 before
    callback,    \* "none" | "posted" | "run": the callback of each session
    holding,     \* the session a writer got and did not write to yet
    given        \* history: streams of the messages each session was given

vars == <<cached_id, stream_map, tokens, threw, asked, callback, holding, given>>

tableVars == <<cached_id, tokens, threw>>
sessionVars == <<asked, callback>>
writeVars == <<holding, given>>

Idle == [stream |-> -1, session |-> NoSession]

TypeOK ==
    /\ cached_id \in Ids
    /\ DOMAIN stream_map \subseteq Ids
    /\ \A id \in DOMAIN stream_map : stream_map[id] \in Sessions \cup {NoSession}
    /\ tokens \in Seq(Ids)
    /\ threw \in BOOLEAN
    /\ asked \in [Sessions -> Ids \cup {-1}]
    /\ callback \in [Sessions -> {"none", "posted", "run"}]
    /\ holding \in [Writers -> {Idle} \cup [stream : Ids, session : Sessions]]
    /\ given \in [Sessions -> SUBSET Ids]

Init ==
    /\ cached_id = 0
    /\ stream_map = [id \in {} |-> NoSession]
    /\ tokens = <<>>
    /\ threw = FALSE
    /\ asked = [s \in Sessions |-> -1]
    /\ callback = [s \in Sessions |-> "none"]
    /\ holding = [w \in Writers |-> Idle]
    /\ given = [s \in Sessions |-> {}]

-----------------------------------------------------------------------------
\* Mutated: the ids wrap around one short of their width.
WrapsEarly == (cached_id + 1) % (IdModulus - 1)

(* ++stream_id, on the width of stream_id_type. *)
NextId == (cached_id + 1) % IdModulus

AddStream(id) ==
    [i \in DOMAIN stream_map \cup {id} |->
        IF i = id THEN NoSession ELSE stream_map[i]]

\* Mutated: operator[] instead of emplace.
OverwritesStream ==
    /\ cached_id' = NextId
    /\ stream_map' = AddStream(NextId)
    /\ tokens' = Append(tokens, NextId)
    /\ UNCHANGED <<threw, sessionVars, writeVars>>

(* The id is incremented first and stays so when emplace finds it taken.   *)
MakeStream ==
    /\ cached_id' = NextId
    /\ IF NextId \in DOMAIN stream_map
         THEN /\ threw' = TRUE
              /\ UNCHANGED <<stream_map, tokens>>
         ELSE /\ stream_map' = AddStream(NextId)
              /\ tokens' = Append(tokens, NextId)
              /\ UNCHANGED threw
    /\ UNCHANGED <<sessionVars, writeVars>>

(* A client subscribes to what it likes, streams that do not exist too.    *)
ReadStreamId(s, id) ==
    /\ callback[s] = "none"
    /\ asked' = [asked EXCEPT ![s] = id]
    /\ callback' = [callback EXCEPT ![s] = "posted"]
    /\ UNCHANGED <<stream_map, tableVars, writeVars>>

\* Mutated: the session goes to the newest stream.
RegistersAtNewest(s) ==
    /\ callback[s] = "posted"
    /\ callback' = [callback EXCEPT ![s] = "run"]
    /\ stream_map' = IF cached_id \in DOMAIN stream_map
                       THEN [stream_map EXCEPT ![cached_id] = s]
                       ELSE stream_map
    /\ UNCHANGED <<asked, tableVars, writeVars>>

\* Mutated: the callback is posted again by what the session does later.
RegistersAgain(s) ==
    /\ callback[s] # "none"
    /\ callback' = [callback EXCEPT ![s] = "run"]
    /\ stream_map' = IF asked[s] \in DOMAIN stream_map
                       THEN [stream_map EXCEPT ![asked[s]] = s]
                       ELSE stream_map
    /\ UNCHANGED <<asked, tableVars, writeVars>>

(* The last session to be registered gets the stream, whoever had it.  A   *)
(* session for no stream is logged and dropped.                            *)
RegisterSession(s) ==
    /\ callback[s] = "posted"
    /\ callback' = [callback EXCEPT ![s] = "run"]
    /\ stream_map' = IF asked[s] \in DOMAIN stream_map
                       THEN [stream_map EXCEPT ![asked[s]] = s]
                       ELSE stream_map
    /\ UNCHANGED <<asked, tableVars, writeVars>>

(* Write, first half: no session, no message.                              *)
GetSession(w, id) ==
    /\ holding[w] = Idle
    /\ id \in DOMAIN stream_map
    /\ stream_map[id] # NoSession
    /\ holding' = [holding EXCEPT ![w] =
                     [stream |-> id, session |-> stream_map[id]]]
    /\ UNCHANGED <<stream_map, tableVars, sessionVars, given>>

(* Write, second half: to the session that was there, which may have been  *)
(* replaced by now.                                                        *)
WriteToSession(w) ==
    /\ holding[w] # Idle
    /\ given' = [given EXCEPT ![holding[w].session] = @ \cup {holding[w].stream}]
    /\ holding' = [holding EXCEPT ![w] = Idle]
    /\ UNCHANGED <<stream_map, tableVars, sessionVars>>

Next ==
    \/ MakeStream
    \/ \E s \in Sessions, id \in Ids : ReadStreamId(s, id)
    \/ \E s \in Sessions : RegisterSession(s)
    \/ \E w \in Writers, id \in Ids : GetSession(w, id)
    \/ \E w \in Writers : WriteToSession(w)

Spec == Init /\ [][Next]_vars

-----------------------------------------------------------------------------
(* Properties.                                                             *)

(* No two streams have the same token, even after the ids wrap around      *)
(* (Dispatcher.h:32-37): a client never gets the data of another stream    *)
(* because its token was given out twice.                                  *)
TokensUnique ==
    \A i, j \in 1..Len(tokens) : tokens[i] = tokens[j] => i = j

(* "id zero only happens in overflow" (Dispatcher.h:32): a stream with id  *)
(* zero exists only once every other id has been given out.                *)
ZeroOnlyInOverflow ==
    0 \in DOMAIN stream_map => DOMAIN stream_map = Ids

(* MakeStream throws (Dispatcher.h:36) only when no id is left, although   *)
(* it tries a single one and loses it when it fails.                       *)
ThrowsOnlyWhenFull ==
    threw => DOMAIN stream_map = Ids

(* Sessions are registered, replaced and written to by different threads,  *)
(* with stale pointers: a session is only ever given messages of the       *)
(* stream its client asked for (Dispatcher.h:41-51, StreamState.h:60-65).  *)
OwnStreamOnly ==
    \A s \in Sessions : given[s] \subseteq {asked[s]}

(* What a session is sent: what it was given, and what writers are about   *)
(* to give it.                                                             *)
Sent ==
    [s \in Sessions |->
        given[s] \cup {holding[w].stream : w \in {v \in Writers : holding[v].session = s}}]

Registered == {s \in Sessions : callback[s] = "run"}

Table == INSTANCE StreamTable
            WITH subscriber <- stream_map, exhausted <- threw,
                 answered <- Registered, sent <- Sent

(* Ids that wrap around, callbacks that run late and in any order, and     *)
(* writers that hold a session while it is replaced never show: it is as   *)
(* if a message went to the subscriber at the moment it is written, and as *)
(* if nobody took a stream twice (Dispatcher.h:30-51, StreamState.h:35-65).*)
ImplementsTable == Table!Spec
=============================================================================
