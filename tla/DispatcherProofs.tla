-------------------------- MODULE DispatcherProofs --------------------------
(***************************************************************************)
(* What holds of the dispatcher for every width of the stream id and every *)
(* set of sessions and writers.                                            *)
(*                                                                         *)
(* The ids in use are 1..cached_id until the counter wraps around and all  *)
(* the ids from then on (IdsInUse); that gives the three properties of     *)
(* tokens.  OwnStreamOnly needs that a session found in the table, or held *)
(* by a writer, asked for the stream it was found under (Settled).  With   *)
(* both, the dispatcher implements StreamTable: a message is sent when its *)
(* writer takes the session, and what the writer does with it is no step.  *)
(***************************************************************************)
EXTENDS Dispatcher, SequenceTheorems, TLAPS

IdsInUse ==
    /\ DOMAIN stream_map = 1..cached_id \/ DOMAIN stream_map = Ids
    /\ \A i \in 1..Len(tokens) : tokens[i] \in DOMAIN stream_map

IdInv == TypeOK /\ IdsInUse /\ TokensUnique /\ ThrowsOnlyWhenFull

Settled ==
    /\ \A id \in DOMAIN stream_map : stream_map[id] # NoSession =>
          asked[stream_map[id]] = id /\ callback[stream_map[id]] = "run"
    /\ \A w \in Writers : holding[w] # Idle =>
          /\ asked[holding[w].session] = holding[w].stream
          /\ callback[holding[w].session] = "run"
    /\ \A s \in Sessions : given[s] # {} => callback[s] = "run"

OwnInv == TypeOK /\ Settled /\ OwnStreamOnly

-----------------------------------------------------------------------------
LEMMA NextIdIs ==
    ASSUME NEW c \in Ids
    PROVE  /\ c + 1 < IdModulus => (c + 1) % IdModulus = c + 1
           /\ c + 1 = IdModulus => (c + 1) % IdModulus = 0
           /\ c + 1 < IdModulus \/ c + 1 = IdModulus
BY ModulusAssumption DEF Ids

LEMMA NextIdTyped == TypeOK => NextId \in Ids
BY NextIdIs, ModulusAssumption DEF TypeOK, NextId, Ids

LEMMA InitDispatcher == Init => IdInv /\ OwnInv
<1> SUFFICES ASSUME Init PROVE IdInv /\ OwnInv
  OBVIOUS
<1>1. tokens \in Seq(Ids) /\ Len(tokens) = 0
  BY EmptySeq DEF Init
<1>2. DOMAIN stream_map = {} /\ 0 \in Ids /\ 1..0 = {}
  BY ModulusAssumption DEF Init, Ids
<1>3. TypeOK
  BY <1>1, <1>2 DEF Init, TypeOK
<1>4. IdsInUse /\ TokensUnique /\ ThrowsOnlyWhenFull
  BY <1>1, <1>2 DEF Init, IdsInUse, TokensUnique, ThrowsOnlyWhenFull
<1>5. Settled /\ OwnStreamOnly
  BY <1>2 DEF Init, Settled, OwnStreamOnly
<1> QED
  BY <1>3, <1>4, <1>5 DEF IdInv, OwnInv

LEMMA StepType == TypeOK /\ [Next]_vars => TypeOK'
<1> SUFFICES ASSUME TypeOK, [Next]_vars PROVE TypeOK'
  OBVIOUS
<1> USE DEF tableVars, sessionVars, writeVars
<1>1. CASE MakeStream
  <2>1. NextId \in Ids
    BY NextIdTyped
  <2>2. Append(tokens, NextId) \in Seq(Ids)
    BY <2>1, AppendProperties DEF TypeOK
  <2>3. CASE NextId \in DOMAIN stream_map
    BY <1>1, <2>1, <2>3 DEF MakeStream, TypeOK
  <2>4. CASE NextId \notin DOMAIN stream_map
    <3>1. /\ stream_map' = AddStream(NextId)
          /\ tokens' = Append(tokens, NextId)
          /\ UNCHANGED <<threw, sessionVars, writeVars>>
          /\ cached_id' = NextId
      BY <1>1, <2>4 DEF MakeStream
    <3>2. DOMAIN stream_map' \subseteq Ids
      BY <2>1, <3>1 DEF AddStream, TypeOK
    <3>3. \A id \in DOMAIN stream_map' : stream_map'[id] \in Sessions \cup {NoSession}
      BY <3>1 DEF AddStream, TypeOK
    <3> QED
      BY <2>1, <2>2, <3>1, <3>2, <3>3 DEF TypeOK
  <2> QED
    BY <2>3, <2>4
<1>2. ASSUME NEW s \in Sessions, NEW id \in Ids, ReadStreamId(s, id) PROVE TypeOK'
  BY <1>2 DEF ReadStreamId, TypeOK
<1>3. ASSUME NEW s \in Sessions, RegisterSession(s) PROVE TypeOK'
  BY <1>3 DEF RegisterSession, TypeOK
<1>4. ASSUME NEW w \in Writers, NEW id \in Ids, GetSession(w, id) PROVE TypeOK'
  BY <1>4 DEF GetSession, TypeOK
<1>5. ASSUME NEW w \in Writers, WriteToSession(w) PROVE TypeOK'
  <2>1. holding[w].session \in Sessions /\ holding[w].stream \in Ids
    BY <1>5 DEF WriteToSession, TypeOK
  <2> QED
    BY <1>5, <2>1 DEF WriteToSession, TypeOK
<1>6. CASE UNCHANGED vars
  BY <1>6 DEF vars, TypeOK
<1> QED
  BY <1>1, <1>2, <1>3, <1>4, <1>5, <1>6 DEF Next

LEMMA StepIds == IdInv /\ [Next]_vars => IdInv'
<1> SUFFICES ASSUME IdInv, [Next]_vars PROVE IdInv'
  OBVIOUS
<1> USE DEF tableVars, sessionVars, writeVars
<1>0. TypeOK /\ TypeOK' /\ IdsInUse /\ TokensUnique /\ ThrowsOnlyWhenFull
  BY StepType DEF IdInv
<1>1. CASE MakeStream
  <2>1. NextId \in Ids /\ cached_id \in Ids /\ cached_id' = NextId
    BY <1>0, <1>1, NextIdTyped DEF TypeOK, MakeStream
  <2>2. CASE NextId \in DOMAIN stream_map
    <3>1. DOMAIN stream_map = Ids
      BY <1>0, <2>1, <2>2, NextIdIs, ModulusAssumption DEF IdsInUse, NextId, Ids
    <3> QED
      BY <1>0, <1>1, <2>2, <3>1
      DEF MakeStream, IdInv, IdsInUse, TokensUnique, ThrowsOnlyWhenFull
  <2>3. CASE NextId \notin DOMAIN stream_map
    <3>1. /\ stream_map' = AddStream(NextId)
          /\ tokens' = Append(tokens, NextId)
          /\ threw' = threw
      BY <1>1, <2>3 DEF MakeStream
    <3>2. DOMAIN stream_map' = DOMAIN stream_map \cup {NextId}
      BY <3>1 DEF AddStream
    <3>3. DOMAIN stream_map = 1..cached_id
      BY <1>0, <2>1, <2>3 DEF IdsInUse
    <3>4. DOMAIN stream_map' = 1..cached_id' \/ DOMAIN stream_map' = Ids
      <4>1. CASE cached_id + 1 < IdModulus
        BY <2>1, <3>2, <3>3, <4>1, NextIdIs, ModulusAssumption DEF NextId, Ids
      <4>2. CASE cached_id + 1 = IdModulus
        BY <2>1, <3>2, <3>3, <4>2, NextIdIs, ModulusAssumption DEF NextId, Ids
      <4> QED
        BY <2>1, <4>1, <4>2, NextIdIs
    <3>5. /\ Len(tokens) \in Nat /\ Len(tokens') = Len(tokens) + 1
          /\ \A i \in 1..Len(tokens) : tokens'[i] = tokens[i]
          /\ tokens'[Len(tokens) + 1] = NextId
      BY <1>0, <2>1, <3>1, AppendProperties, LenProperties DEF TypeOK
    <3>6. \A i \in 1..Len(tokens) : tokens[i] # NextId
      BY <1>0, <2>3 DEF IdsInUse
    <3>7. \A i \in 1..Len(tokens') : i \in 1..Len(tokens) \/ i = Len(tokens) + 1
      BY <3>5
    <3>8. TokensUnique'
      BY <1>0, <3>5, <3>6, <3>7 DEF TokensUnique
    <3>9. IdsInUse'
      BY <1>0, <3>2, <3>4, <3>5, <3>7 DEF IdsInUse
    <3>10. ThrowsOnlyWhenFull'
      BY <1>0, <2>1, <2>3, <3>1 DEF ThrowsOnlyWhenFull
    <3> QED
      BY <1>0, <3>8, <3>9, <3>10 DEF IdInv
  <2> QED
    BY <2>2, <2>3
<1>2. ASSUME NEW s \in Sessions, RegisterSession(s) PROVE IdInv'
  BY <1>0, <1>2
  DEF RegisterSession, IdInv, IdsInUse, TokensUnique, ThrowsOnlyWhenFull
<1>3. CASE UNCHANGED <<stream_map, tableVars>>
  BY <1>0, <1>3 DEF IdInv, IdsInUse, TokensUnique, ThrowsOnlyWhenFull
<1> QED
  BY <1>1, <1>2, <1>3
  DEF Next, ReadStreamId, GetSession, WriteToSession, vars

LEMMA StepOwn == OwnInv /\ [Next]_vars => OwnInv'
<1> SUFFICES ASSUME OwnInv, [Next]_vars PROVE OwnInv'
  OBVIOUS
<1> USE DEF tableVars, sessionVars, writeVars
<1>0. TypeOK /\ TypeOK' /\ Settled /\ OwnStreamOnly
  BY StepType DEF OwnInv
<1>1. CASE MakeStream
  <2>1. UNCHANGED <<sessionVars, writeVars>>
    BY <1>1 DEF MakeStream
  <2>2. \A id \in DOMAIN stream_map' : stream_map'[id] # NoSession =>
            id \in DOMAIN stream_map /\ stream_map'[id] = stream_map[id]
    BY <1>1 DEF MakeStream, AddStream
  <2> QED
    BY <1>0, <2>1, <2>2 DEF OwnInv, Settled, OwnStreamOnly
<1>2. ASSUME NEW s \in Sessions, NEW id \in Ids, ReadStreamId(s, id) PROVE OwnInv'
  <2>1. /\ callback[s] = "none" /\ callback'[s] = "posted" /\ asked'[s] = id
        /\ \A r \in Sessions : r # s => asked'[r] = asked[r] /\ callback'[r] = callback[r]
        /\ UNCHANGED <<stream_map, writeVars>>
    BY <1>0, <1>2 DEF ReadStreamId, TypeOK
  <2>2. \A w \in Writers : holding[w] # Idle => holding[w].session \in Sessions \ {s}
    BY <1>0, <2>1 DEF TypeOK, Settled
  <2>3. \A i \in DOMAIN stream_map : stream_map[i] # NoSession =>
            stream_map[i] \in Sessions \ {s}
    BY <1>0, <2>1 DEF TypeOK, Settled
  <2>4. given[s] = {}
    BY <1>0, <2>1 DEF Settled
  <2>5. Settled'
    BY <1>0, <2>1, <2>2, <2>3, <2>4 DEF Settled
  <2>6. OwnStreamOnly'
    BY <1>0, <2>1, <2>4 DEF OwnStreamOnly
  <2> QED
    BY <1>0, <2>5, <2>6 DEF OwnInv
<1>3. ASSUME NEW s \in Sessions, RegisterSession(s) PROVE OwnInv'
  <2>1. /\ callback'[s] = "run"
        /\ \A r \in Sessions : r # s => callback'[r] = callback[r]
        /\ UNCHANGED <<asked, writeVars>>
    BY <1>0, <1>3 DEF RegisterSession, TypeOK
  <2>2. \A i \in DOMAIN stream_map' :
            /\ i \in DOMAIN stream_map
            /\ stream_map'[i] = stream_map[i] \/ (stream_map'[i] = s /\ asked[s] = i)
    BY <1>3 DEF RegisterSession
  <2>3. \A r \in Sessions : callback[r] = "run" => callback'[r] = "run"
    BY <2>1
  <2>4. \A w \in Writers : holding[w] # Idle => holding[w].session \in Sessions
    BY <1>0 DEF TypeOK
  <2>5. \A i \in DOMAIN stream_map : stream_map[i] # NoSession => stream_map[i] \in Sessions
    BY <1>0 DEF TypeOK
  <2>6. Settled'
    BY <1>0, <2>1, <2>2, <2>3, <2>4, <2>5 DEF Settled
  <2> QED
    BY <1>0, <2>1, <2>6 DEF OwnInv, OwnStreamOnly
<1>4. ASSUME NEW w \in Writers, NEW id \in Ids, GetSession(w, id) PROVE OwnInv'
  <2>1. /\ holding'[w] = [stream |-> id, session |-> stream_map[id]]
        /\ \A v \in Writers : v # w => holding'[v] = holding[v]
        /\ UNCHANGED <<stream_map, sessionVars, given>>
        /\ id \in DOMAIN stream_map /\ stream_map[id] # NoSession
    BY <1>0, <1>4 DEF GetSession, TypeOK
  <2>2. asked[stream_map[id]] = id /\ callback[stream_map[id]] = "run"
    BY <1>0, <2>1 DEF Settled
  <2>3. Settled'
    BY <1>0, <2>1, <2>2 DEF Settled
  <2> QED
    BY <1>0, <2>1, <2>3 DEF OwnInv, OwnStreamOnly
<1>5. ASSUME NEW w \in Writers, WriteToSession(w) PROVE OwnInv'
  <2> DEFINE h == holding[w]
  <2>1. h.session \in Sessions /\ h.stream \in Ids
    BY <1>0, <1>5 DEF WriteToSession, TypeOK
  <2>2. /\ given'[h.session] = given[h.session] \cup {h.stream}
        /\ \A r \in Sessions : r # h.session => given'[r] = given[r]
        /\ holding'[w] = Idle
        /\ \A v \in Writers : v # w => holding'[v] = holding[v]
        /\ UNCHANGED <<stream_map, sessionVars>>
    BY <1>0, <1>5, <2>1 DEF WriteToSession, TypeOK
  <2>3. asked[h.session] = h.stream /\ callback[h.session] = "run"
    BY <1>0, <1>5 DEF WriteToSession, Settled
  <2> HIDE DEF h
  <2>4. Settled'
    BY <1>0, <2>1, <2>2, <2>3 DEF Settled
  <2>5. OwnStreamOnly'
    BY <1>0, <2>1, <2>2, <2>3 DEF OwnStreamOnly
  <2> QED
    BY <1>0, <2>4, <2>5 DEF OwnInv
<1>6. CASE UNCHANGED vars
  BY <1>0, <1>6 DEF vars, OwnInv, Settled, OwnStreamOnly
<1> QED
  BY <1>1, <1>2, <1>3, <1>4, <1>5, <1>6 DEF Next

-----------------------------------------------------------------------------
LEMMA IdInvariant == Spec => []IdInv
BY InitDispatcher, StepIds, PTL DEF Spec

(* The tokens handed out are pairwise different, whatever the width of the *)
(* stream id and however often it wraps around.                            *)
THEOREM TokensAlwaysUnique == Spec => []TokensUnique
<1>1. IdInv => TokensUnique
  BY DEF IdInv
<1> QED
  BY <1>1, IdInvariant, PTL

(* A stream with id zero is the last one ever made: the comment in         *)
(* MakeStream is right.                                                    *)
THEOREM ZeroIsLast == Spec => []ZeroOnlyInOverflow
<1>1. IdInv => ZeroOnlyInOverflow
  <2> SUFFICES ASSUME IdInv, 0 \in DOMAIN stream_map PROVE DOMAIN stream_map = Ids
    BY DEF ZeroOnlyInOverflow
  <2>1. cached_id \in Int
    BY ModulusAssumption DEF IdInv, TypeOK, Ids
  <2>2. 0 \notin 1..cached_id
    BY <2>1
  <2> QED
    BY <2>2 DEF IdInv, IdsInUse
<1> QED
  BY <1>1, IdInvariant, PTL

(* MakeStream fails only when every id is in use. *)
THEOREM ThrowsAlwaysFull == Spec => []ThrowsOnlyWhenFull
<1>1. IdInv => ThrowsOnlyWhenFull
  BY DEF IdInv
<1> QED
  BY <1>1, IdInvariant, PTL

(* However registrations and two-step writes interleave, a session is only *)
(* given messages of the stream its client asked for.                      *)
THEOREM AlwaysOwnStream == Spec => []OwnStreamOnly
<1>1. Init => OwnInv
  BY InitDispatcher
<1>2. OwnInv => OwnStreamOnly
  BY DEF OwnInv
<1> QED
  BY <1>1, <1>2, StepOwn, PTL DEF Spec
-----------------------------------------------------------------------------
(* The dispatcher implements StreamTable.                                  *)

(* Who asked for a stream has its callback posted.                         *)
PostedInv == \A s \in Sessions : asked[s] = -1 <=> callback[s] = "none"

TableInv == IdInv /\ OwnInv /\ PostedInv

LEMMA StepTableInv == TableInv /\ [Next]_vars => TableInv'
<1> SUFFICES ASSUME TableInv, [Next]_vars PROVE TableInv'
  OBVIOUS
<1> USE DEF tableVars, sessionVars, writeVars
<1>1. TypeOK /\ PostedInv /\ IdInv' /\ OwnInv'
  BY StepIds, StepOwn DEF TableInv, IdInv
<1>2. ASSUME NEW s \in Sessions, NEW id \in Ids, ReadStreamId(s, id) PROVE PostedInv'
  <2>1. id # -1
    BY ModulusAssumption DEF Ids
  <2> QED
    BY <1>1, <1>2, <2>1 DEF ReadStreamId, TypeOK, PostedInv
<1>3. ASSUME NEW s \in Sessions, RegisterSession(s) PROVE PostedInv'
  BY <1>1, <1>3 DEF RegisterSession, TypeOK, PostedInv
<1>4. ASSUME UNCHANGED <<asked, callback>> PROVE PostedInv'
  BY <1>1, <1>4 DEF PostedInv
<1>5. PostedInv'
  BY <1>2, <1>3, <1>4 DEF Next, MakeStream, GetSession, WriteToSession, vars
<1> QED
  BY <1>1, <1>5 DEF TableInv

(* Writers that hold the session s.                                        *)
Holders(s) == {v \in Writers : holding[v].session = s}

LEMMA SameSent == UNCHANGED <<given, holding>> => Sent' = Sent
BY DEF Sent

LEMMA SameRegistered == UNCHANGED callback => Registered' = Registered
BY DEF Registered

LEMMA MakeShows ==
  ASSUME TableInv, TableInv', MakeStream
  PROVE  Table!Exhaust \/ Table!Make(NextId)
<1>1. UNCHANGED <<asked, Registered, Sent>>
  BY SameSent, SameRegistered DEF MakeStream, sessionVars, writeVars
<1>2. CASE NextId \in DOMAIN stream_map
  <2>1. threw' = TRUE /\ stream_map' = stream_map
    BY <1>2 DEF MakeStream
  <2>2. DOMAIN stream_map = Ids
    BY <2>1 DEF TableInv, IdInv, ThrowsOnlyWhenFull
  <2> QED
    BY <1>1, <2>1, <2>2 DEF Table!Exhaust, Table!Streams
<1>3. CASE NextId \notin DOMAIN stream_map
  <2>1. stream_map' = AddStream(NextId) /\ threw' = threw
    BY <1>3 DEF MakeStream
  <2> QED
    BY <1>1, <1>3, <2>1 DEF AddStream, Table!Make, Table!Streams
<1> QED
  BY <1>2, <1>3

LEMMA AskShows ==
  ASSUME TableInv, NEW s \in Sessions, NEW id \in Ids, ReadStreamId(s, id)
  PROVE  Table!Ask(s, id)
<1>1. UNCHANGED <<stream_map, threw, Sent>>
  BY SameSent DEF ReadStreamId, tableVars, writeVars
<1>2. asked[s] = -1 /\ asked' = [asked EXCEPT ![s] = id]
  BY DEF ReadStreamId, TableInv, PostedInv
<1>3. /\ callback[s] = "none" /\ callback'[s] = "posted"
      /\ \A r \in Sessions : r # s => callback'[r] = callback[r]
  BY DEF ReadStreamId, TableInv, IdInv, TypeOK
<1>4. Registered' = Registered
  BY <1>3 DEF Registered
<1> QED
  BY <1>1, <1>2, <1>4 DEF Table!Ask

LEMMA RegisterShows ==
  ASSUME TableInv, NEW s \in Sessions, RegisterSession(s)
  PROVE  Table!Subscribe(s) \/ Table!Ignore(s)
<1>1. UNCHANGED <<asked, threw, Sent>>
  BY SameSent DEF RegisterSession, tableVars, writeVars
<1>2. /\ callback[s] = "posted" /\ callback'[s] = "run"
      /\ \A r \in Sessions : r # s => callback'[r] = callback[r]
  BY DEF RegisterSession, TableInv, IdInv, TypeOK
<1>3. Registered' = Registered \cup {s} /\ s \notin Registered
  BY <1>2 DEF Registered
<1>4. Table!Waits(s)
  BY <1>2, <1>3 DEF Table!Waits, TableInv, PostedInv
<1>5. CASE asked[s] \in DOMAIN stream_map
  BY <1>1, <1>3, <1>4, <1>5 DEF RegisterSession, Table!Subscribe, Table!Streams
<1>6. CASE asked[s] \notin DOMAIN stream_map
  BY <1>1, <1>3, <1>4, <1>6 DEF RegisterSession, Table!Ignore, Table!Streams
<1> QED
  BY <1>5, <1>6

(* A write takes place when the writer takes the session ...               *)
LEMMA GetShows ==
  ASSUME TableInv, NEW w \in Writers, NEW id \in Ids, GetSession(w, id)
  PROVE  Table!Write(id)
<1> DEFINE s == stream_map[id]
<1>1. UNCHANGED <<stream_map, asked, threw, given, Registered>>
  BY SameRegistered DEF GetSession, tableVars, sessionVars
<1>2. id \in DOMAIN stream_map /\ s # NoSession /\ s \in Sessions
  BY DEF GetSession, TableInv, IdInv, TypeOK
<1>3. /\ holding[w].session \notin Sessions
      /\ holding'[w].session = s /\ holding'[w].stream = id
      /\ \A v \in Writers : v # w => holding'[v] = holding[v]
  BY NoSessionAssumption DEF GetSession, Idle, TableInv, IdInv, TypeOK
<1> HIDE DEF s
<1>4. ASSUME NEW r \in Sessions
      PROVE  Sent'[r] = IF r = s THEN Sent[s] \cup {id} ELSE Sent[r]
  <2>1. Holders(r)' = IF r = s THEN Holders(r) \cup {w} ELSE Holders(r)
    BY <1>3, <1>4 DEF Holders
  <2>2. w \notin Holders(r)
    BY <1>3, <1>4 DEF Holders
  <2>3. Sent[r] = given[r] \cup {holding[v].stream : v \in Holders(r)}
    BY <1>4 DEF Sent, Holders
  <2>4. Sent'[r] = given[r] \cup {holding'[v].stream : v \in Holders(r)'}
    BY <1>1, <1>4 DEF Sent, Holders
  <2>5. {holding'[v].stream : v \in Holders(r)} = {holding[v].stream : v \in Holders(r)}
    BY <1>3, <2>2 DEF Holders
  <2>6. {holding'[v].stream : v \in Holders(r) \cup {w}}
            = {holding'[v].stream : v \in Holders(r)} \cup {id}
    BY <1>3
  <2> QED
    BY <2>1, <2>3, <2>4, <2>5, <2>6
<1>5. Sent' = [Sent EXCEPT ![s] = @ \cup {id}]
  BY <1>2, <1>4 DEF Sent
<1> QED
  BY <1>1, <1>2, <1>5 DEF Table!Write, Table!Streams, s

(* ... and what it does with the session does not show.                    *)
LEMMA WriteShows ==
  ASSUME TableInv, NEW w \in Writers, WriteToSession(w)
  PROVE  UNCHANGED Table!vars
<1> DEFINE h == holding[w]
<1>1. UNCHANGED <<stream_map, asked, threw, Registered>>
  BY SameRegistered DEF WriteToSession, tableVars, sessionVars
<1>2. h.session \in Sessions
  BY DEF WriteToSession, TableInv, IdInv, TypeOK
<1>3. /\ holding'[w].session \notin Sessions
      /\ \A v \in Writers : v # w => holding'[v] = holding[v]
      /\ given'[h.session] = given[h.session] \cup {h.stream}
      /\ \A r \in Sessions : r # h.session => given'[r] = given[r]
  BY <1>2, NoSessionAssumption DEF WriteToSession, Idle, TableInv, IdInv, TypeOK
<1>4. ASSUME NEW r \in Sessions PROVE Sent'[r] = Sent[r]
  <2>1. Holders(r)' = Holders(r) \ {w} /\ (w \in Holders(r) <=> r = h.session)
    BY <1>3, <1>4 DEF Holders
  <2>2. Sent[r] = given[r] \cup {holding[v].stream : v \in Holders(r)}
    BY <1>4 DEF Sent, Holders
  <2>3. Sent'[r] = given'[r] \cup {holding'[v].stream : v \in Holders(r)'}
    BY <1>4 DEF Sent, Holders
  <2>4. {holding'[v].stream : v \in Holders(r) \ {w}}
            = {holding[v].stream : v \in Holders(r) \ {w}}
    BY <1>3 DEF Holders
  <2> HIDE DEF h
  <2>5. CASE r = h.session
    <3>1. {holding[v].stream : v \in Holders(r)}
              = {holding[v].stream : v \in Holders(r) \ {w}} \cup {h.stream}
      BY <2>1, <2>5 DEF h
    <3> QED
      BY <1>3, <2>1, <2>2, <2>3, <2>4, <2>5, <3>1
  <2>6. CASE r # h.session
    <3>1. Holders(r) \ {w} = Holders(r)
      BY <2>1, <2>6
    <3> QED
      BY <1>3, <1>4, <2>1, <2>2, <2>3, <2>4, <2>6, <3>1
  <2> QED
    BY <2>5, <2>6
<1>5. Sent' = Sent
  BY <1>4 DEF Sent
<1> QED
  BY <1>1, <1>5 DEF Table!vars

(* To makers of streams, clients and writers the dispatcher is the table   *)
(* it promises to be: a message goes to the subscriber at the moment it is *)
(* written, although the writer holds the session while another takes its  *)
(* place (Dispatcher.h:30-51, StreamState.h:35-65).                        *)
THEOREM DispatcherImplementsTable == Spec => ImplementsTable
<1>1. Init => TableInv /\ Table!Init
  <2> SUFFICES ASSUME Init PROVE TableInv /\ Table!Init
    OBVIOUS
  <2>1. TableInv
    BY InitDispatcher DEF TableInv, PostedInv, Init
  <2>2. \A s \in Sessions : {v \in Writers : holding[v].session = s} = {}
    BY NoSessionAssumption DEF Init, Idle
  <2>3. Sent = [s \in Sessions |-> {}]
    BY <2>2 DEF Init, Sent
  <2>4. Registered = {}
    BY DEF Init, Registered
  <2> QED
    BY <2>1, <2>3, <2>4 DEF Init, Table!Init
<1>2. TableInv /\ [Next]_vars => TableInv' /\ [Table!Next]_(Table!vars)
  <2> SUFFICES ASSUME TableInv, [Next]_vars
               PROVE  TableInv' /\ [Table!Next]_(Table!vars)
    OBVIOUS
  <2>1. TableInv'
    BY StepTableInv
  <2>2. NextId \in Ids
    BY NextIdTyped DEF TableInv, IdInv
  <2>3. CASE MakeStream
    BY <2>1, <2>2, <2>3, MakeShows DEF Table!Next
  <2>4. ASSUME NEW s \in Sessions, NEW id \in Ids, ReadStreamId(s, id) PROVE Table!Next
    BY <2>4, AskShows DEF Table!Next
  <2>5. ASSUME NEW s \in Sessions, RegisterSession(s) PROVE Table!Next
    BY <2>5, RegisterShows DEF Table!Next
  <2>6. ASSUME NEW w \in Writers, NEW id \in Ids, GetSession(w, id) PROVE Table!Next
    BY <2>6, GetShows DEF Table!Next
  <2>7. ASSUME NEW w \in Writers, WriteToSession(w) PROVE UNCHANGED Table!vars
    BY <2>7, WriteShows
  <2>8. ASSUME UNCHANGED vars PROVE UNCHANGED Table!vars
    <3>1. UNCHANGED <<stream_map, threw, asked, callback, given, holding>>
      BY <2>8 DEF vars
    <3> QED
      BY <3>1, SameSent, SameRegistered DEF Table!vars
  <2> QED
    BY <2>1, <2>3, <2>4, <2>5, <2>6, <2>7, <2>8 DEF Next
<1> QED
  BY <1>1, <1>2, PTL DEF Spec, ImplementsTable, Table!Spec
=============================================================================
