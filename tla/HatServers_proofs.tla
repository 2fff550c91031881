-------------------------- MODULE HatServers_proofs --------------------------
(* Proofs about HatServers, for any number of HATs, requests and pools.    *)
EXTENDS HatServers, FiniteSetTheorems, SequenceTheorems, TLAPS

Notice == {"started", "stopped"}

(* Notices of a HAT alternate, and the last one tells how its actor is.    *)
Alternate(s) == \A i \in 1..Len(s) - 1 : s[i] # s[i + 1]
NoticesAlternate == \A h \in Hats :
    /\ Alternate(notices[h])
    /\ notices[h] # <<>> =>
         (notices[h][Len(notices[h])] = "started" <=> behaviour[h] = "connected")

IInv == TypeOK /\ NoticesAlternate /\ CounterExact

(* No two actors share a pool.                                             *)
ServersApart == \A g, h \in Hats : server[g] = server[h] /\ server[g] # NoDatabase => g = h
PoolInv == OpenOwned /\ ServersApart
-----------------------------------------------------------------------------
(* The kinds of steps.                                                     *)
CallerStep(c) == Request(c) \/ Resolve(c) \/ Create(c) \/ RetrieveReceived(c)
HatStep(h) == \/ CacheExpires(h) \/ CountNotice(h)
              \/ \E outcome \in Outcomes : ConnectEnds(h, outcome)
              \/ ConnectReceived(h) \/ TimerFires(h) \/ TimeoutReceived(h)

LEMMA Steps == Next => (\E c \in Callers : CallerStep(c)) \/ (\E h \in Hats : HatStep(h))
BY DEF Next, CallerStep, HatStep

LEMMA FreshDatabase ==
    ASSUME NEW db \in Fresh
    PROVE  db \in Databases /\ db \notin open /\ db # NoDatabase
BY ConstantsAssumption DEF Fresh, Forgotten, Databases, NoDatabase

LEMMA SeqAppend ==
    ASSUME NEW s \in Seq(Notice), NEW n \in Notice, Alternate(s),
           s # <<>> => s[Len(s)] # n
    PROVE  /\ Append(s, n) \in Seq(Notice) /\ Append(s, n) # <<>>
           /\ Alternate(Append(s, n))
           /\ Append(s, n)[Len(Append(s, n))] = n
           /\ Head(Append(s, n)) = IF s = <<>> THEN n ELSE Head(s)
<1> DEFINE t == Append(s, n)
<1>1. /\ t \in Seq(Notice) /\ t # <<>> /\ Len(t) = Len(s) + 1
      /\ \A i \in 1..Len(s) : t[i] = s[i]
      /\ t[Len(s) + 1] = n
  BY AppendProperties
<1>2. Len(s) \in Nat /\ (s = <<>> <=> Len(s) = 0)
  OBVIOUS
<1>3. Head(t) = IF s = <<>> THEN n ELSE Head(s)
  BY HeadTailAppend
<1>4. ASSUME NEW i \in 1..Len(t) - 1
      PROVE  t[i] # t[i + 1]
  <2>1. CASE i = Len(s)
    BY <2>1, <1>1, <1>2, <1>4
  <2>2. CASE i # Len(s)
    <3>1. i \in 1..Len(s) - 1 /\ i \in 1..Len(s) /\ i + 1 \in 1..Len(s)
      BY <2>2, <1>1, <1>2, <1>4
    <3>2. s[i] # s[i + 1]
      BY <3>1 DEF Alternate
    <3> QED  BY <3>1, <3>2, <1>1
  <2> QED  BY <2>1, <2>2
<1> HIDE DEF t
<1>5. Alternate(t)
  BY <1>4 DEF Alternate
<1> QED  BY <1>1, <1>3, <1>5 DEF t

LEMMA SeqTail ==
    ASSUME NEW s \in Seq(Notice), s # <<>>, Alternate(s)
    PROVE  /\ Tail(s) \in Seq(Notice) /\ Alternate(Tail(s))
           /\ Head(s) \in Notice
           /\ Tail(s) = <<>> => s[Len(s)] = Head(s)
           /\ Tail(s) # <<>> => /\ Tail(s)[Len(Tail(s))] = s[Len(s)]
                                /\ Head(Tail(s)) \in Notice
                                /\ Head(Tail(s)) # Head(s)
<1> DEFINE t == Tail(s)
<1>1. /\ t \in Seq(Notice) /\ Len(t) = Len(s) - 1 /\ Head(s) \in Notice
      /\ \A i \in 1..Len(t) : t[i] = s[i + 1]
  BY HeadTailProperties
<1>2. Len(s) \in Nat /\ Len(s) > 0 /\ Head(s) = s[1] /\ (t = <<>> <=> Len(t) = 0)
  BY <1>1
<1>3. t # <<>> => Head(t) = t[1] /\ Head(t) \in Notice
  BY <1>1
<1> HIDE DEF t
<1>4. Alternate(t)
  <2> SUFFICES ASSUME NEW i \in 1..Len(t) - 1 PROVE t[i] # t[i + 1]
    BY DEF Alternate
  <2>1. i \in 1..Len(t) /\ i + 1 \in 1..Len(t) /\ i + 1 \in 1..Len(s) - 1
    BY <1>1, <1>2
  <2>2. t[i] = s[i + 1] /\ t[i + 1] = s[i + 1 + 1]
    BY <2>1, <1>1
  <2> QED  BY <2>1, <2>2 DEF Alternate
<1>5. t = <<>> => s[Len(s)] = Head(s)
  <2>1. t = <<>> => Len(s) = 1
    BY <1>1, <1>2
  <2> QED  BY <2>1, <1>2
<1>6. t # <<>> => t[Len(t)] = s[Len(s)] /\ Head(t) # Head(s)
  <2> HAVE t # <<>>
  <2>1. Len(t) \in 1..Len(t) /\ 1 \in 1..Len(t) /\ 1 \in 1..Len(s) - 1 /\ Len(t) + 1 = Len(s)
    BY <1>1, <1>2
  <2>2. t[Len(t)] = s[Len(t) + 1] /\ t[1] = s[1 + 1]
    BY <2>1, <1>1
  <2>3. s[1] # s[1 + 1]
    BY <2>1 DEF Alternate
  <2> QED  BY <2>1, <2>2, <2>3, <1>2, <1>3
<1> QED  BY <1>1, <1>3, <1>4, <1>5, <1>6 DEF t
-----------------------------------------------------------------------------
(* Type correctness.                                                       *)
LEMMA TypeInit == Init => TypeOK /\ NoticesAlternate
<1> SUFFICES ASSUME Init PROVE TypeOK /\ NoticesAlternate
  OBVIOUS
<1>1. TypeOK
  BY DEF Init, TypeOK, Timers, Behaviours, Progress, Places, DatabaseOrNone, NoDatabase
<1>2. \A h \in Hats : notices[h] = <<>>
  BY DEF Init
<1>3. Alternate(<<>>)
  BY DEF Alternate
<1> QED  BY <1>1, <1>2, <1>3 DEF NoticesAlternate

LEMMA NoneIsNone == NoDatabase \in DatabaseOrNone /\ Databases \subseteq DatabaseOrNone
BY DEF DatabaseOrNone

(* The parts of the type invariant that relate variables.                  *)
HoldsOK == \A c \in Callers : caller[c] \in {"replied", "using"} <=> holds[c] # NoDatabase
StashOK == \A c \in Callers : message[c] = "stash" => behaviour[address[c]] = "connecting"
ConnectOK == \A h \in Hats : behaviour[h] = "connecting" <=> connect[h] # "none"

TypeFacts ==
    /\ behaviour \in [Hats -> Behaviours]
    /\ server \in [Hats -> DatabaseOrNone]
    /\ connect \in [Hats -> {"none", "pending"} \cup Outcomes]
    /\ timer \in [Hats -> Timers]
    /\ cache \in [Hats -> DatabaseOrNone]
    /\ open \subseteq Databases /\ leaked \subseteq Databases /\ active \in Int
    /\ notices \in [Hats -> Seq(Notice)]
    /\ caller \in [Callers -> Progress]
    /\ address \in [Callers -> Hats]
    /\ holds \in [Callers -> DatabaseOrNone]
    /\ message \in [Callers -> Places]
    /\ HoldsOK /\ StashOK /\ ConnectOK

LEMMA TypeParts == (TypeOK <=> TypeFacts) /\ (TypeOK' <=> TypeFacts')
BY DEF TypeOK, HoldsOK, StashOK, ConnectOK, Notice, TypeFacts

(* A message moves.                                                        *)
LEMMA Moved ==
    ASSUME TypeOK, NEW c \in Callers, NEW place \in Places, Moves(c, place)
    PROVE  /\ message' \in [Callers -> Places] /\ message'[c] = place
           /\ \A d \in Callers : d # c => message'[d] = message[d]
<1>1. message \in [Callers -> Places]
  BY TypeParts DEF TypeFacts
<1> QED  BY <1>1 DEF Moves

(* An actor changes.                                                       *)
LEMMA Changed ==
    ASSUME TypeOK, NEW h \in Hats, NEW b \in Behaviours, behaviour' = [behaviour EXCEPT ![h] = b]
    PROVE  /\ behaviour' \in [Hats -> Behaviours] /\ behaviour'[h] = b
           /\ \A g \in Hats : g # h => behaviour'[g] = behaviour[g]
<1>1. behaviour \in [Hats -> Behaviours]
  BY TypeParts DEF TypeFacts
<1> QED  BY <1>1

LEMMA ConnectChanged ==
    ASSUME TypeOK, NEW h \in Hats, NEW o \in {"none", "pending"} \cup Outcomes,
           connect' = [connect EXCEPT ![h] = o]
    PROVE  /\ connect' \in [Hats -> {"none", "pending"} \cup Outcomes] /\ connect'[h] = o
           /\ \A g \in Hats : g # h => connect'[g] = connect[g]
<1> DEFINE O == {"none", "pending"} \cup Outcomes
<1>1. connect \in [Hats -> O] /\ o \in O
  BY TypeParts DEF TypeFacts
<1> HIDE DEF O
<1>2. connect' \in [Hats -> O] /\ connect'[h] = o /\ \A g \in Hats : g # h => connect'[g] = connect[g]
  BY <1>1
<1> QED  BY <1>2 DEF O

LEMMA Notified ==
    ASSUME TypeOK, NEW h \in Hats, NEW n \in Notice,
           notices' = [notices EXCEPT ![h] = Append(@, n)] \/ notices' = notices
    PROVE  notices' \in [Hats -> Seq(Notice)]
<1> DEFINE N == Seq(Notice)
<1>1. notices \in [Hats -> N]
  BY TypeParts DEF TypeFacts
<1>2. Append(notices[h], n) \in N
  BY <1>1
<1> HIDE DEF N
<1>3. notices' \in [Hats -> N]
  BY <1>1, <1>2
<1> QED  BY <1>3 DEF N

(* The steps of a request outside the actors.                              *)
LEMMA RequestTypes ==
    ASSUME TypeOK, NEW c \in Callers, Request(c)
    PROVE  TypeOK'
<1> USE NoneIsNone DEF TypeOK, Becomes, Moves, Takes, actors, Behaviours, Progress, Places
<1>1. ASSUME NEW h \in Hats, RetrieveCached(c, h)
      PROVE  TypeOK'
  BY <1>1 DEF RetrieveCached
<1>2. ASSUME NEW h \in Hats, RetrieveAsk(c, h)
      PROVE  TypeOK'
  BY <1>2 DEF RetrieveAsk
<1>3. CASE RetrieveAnswered(c)
  BY <1>3 DEF RetrieveAnswered
<1>4. CASE RetrieveTimeout(c)
  BY <1>4 DEF RetrieveTimeout
<1>5. CASE Finish(c)
  BY <1>5 DEF Finish
<1> QED  BY <1>1, <1>2, <1>3, <1>4, <1>5 DEF Request

LEMMA ResolveTypes ==
    ASSUME TypeOK, NEW c \in Callers, Resolve(c) \/ Create(c)
    PROVE  TypeOK'
<1> DEFINE h == address[c]
<1>1. h \in Hats /\ StashOK /\ ConnectOK /\ message \in [Callers -> Places]
  BY TypeParts DEF TypeFacts
<1>2. PICK place \in {"inbox", "notFound", "resolving", "nowhere"} : Moves(c, place)
  BY DEF Resolve, Create
<1>3. /\ message' \in [Callers -> Places] /\ message'[c] # "stash"
      /\ \A d \in Callers : d # c => message'[d] = message[d]
  BY <1>2, Moved DEF Places
<1>4. UNCHANGED <<server, connect, timer, cache, open, leaked, active, notices, caller,
                  address, holds>>
  BY DEF Resolve, Create, actors
<1>5. CASE behaviour' = behaviour
  BY <1>1, <1>3, <1>4, <1>5, TypeParts DEF TypeFacts, HoldsOK, StashOK, ConnectOK
<1>6. CASE behaviour[h] = "none" /\ behaviour' = [behaviour EXCEPT ![h] = "receive"]
  <2>1. /\ behaviour' \in [Hats -> Behaviours] /\ behaviour'[h] = "receive"
        /\ \A g \in Hats : g # h => behaviour'[g] = behaviour[g]
    BY <1>1, <1>6, Changed DEF Behaviours
  <2>2. StashOK' /\ ConnectOK'
    <3>1. address \in [Callers -> Hats]
      BY TypeParts DEF TypeFacts
    <3> QED  BY <1>1, <1>3, <1>4, <1>6, <2>1, <3>1 DEF StashOK, ConnectOK
  <2>3. HoldsOK'
    BY <1>4, TypeParts DEF TypeFacts, HoldsOK
  <2> QED  BY <1>3, <1>4, <2>1, <2>2, <2>3, TypeParts DEF TypeFacts
<1> QED  BY <1>5, <1>6 DEF Resolve, Create, actors

LEMMA ReceivedTypes ==
    ASSUME TypeOK, NEW c \in Callers, RetrieveReceived(c)
    PROVE  TypeOK'
<1> DEFINE h == address[c]
<1>0. /\ h \in Hats /\ HoldsOK /\ StashOK /\ ConnectOK
      /\ address \in [Callers -> Hats] /\ message \in [Callers -> Places]
      /\ message[c] \in {"inbox", "unstashed"}
  BY TypeParts DEF TypeFacts, RetrieveReceived
<1>1. UNCHANGED <<server, cache, open, leaked, active, notices, address>>
  BY DEF RetrieveReceived
<1>2. CASE behaviour[h] \in {"receive", "connecting"}
  <2>1. Moves(c, "stash") /\ UNCHANGED <<caller, holds>>
    BY <1>2 DEF RetrieveReceived
  <2>2. /\ message' \in [Callers -> Places] /\ message'[c] = "stash"
        /\ \A d \in Callers : d # c => message'[d] = message[d]
    BY <2>1, Moved DEF Places
  <2>3. /\ behaviour' \in [Hats -> Behaviours] /\ behaviour'[h] = "connecting"
        /\ \A g \in Hats : g # h => behaviour'[g] = behaviour[g]
    <3>1. CASE behaviour[h] = "receive"
      <4>1. behaviour' = [behaviour EXCEPT ![h] = "connecting"]
        BY <3>1 DEF RetrieveReceived
      <4> QED  BY <1>0, <4>1, Changed DEF Behaviours
    <3>2. CASE behaviour[h] = "connecting"
      BY <3>2, TypeParts DEF TypeFacts, RetrieveReceived
    <3> QED  BY <1>2, <3>1, <3>2
  <2>4. /\ connect' \in [Hats -> {"none", "pending"} \cup Outcomes] /\ connect'[h] # "none"
        /\ \A g \in Hats : g # h => connect'[g] = connect[g]
    <3>1. CASE behaviour[h] = "receive"
      <4>1. connect' = [connect EXCEPT ![h] = "pending"]
        BY <3>1 DEF RetrieveReceived
      <4> QED  BY <1>0, <4>1, ConnectChanged
    <3>2. CASE behaviour[h] = "connecting"
      <4>1. connect' = connect /\ connect[h] # "none"
        BY <1>0, <3>2 DEF RetrieveReceived, ConnectOK
      <4> QED  BY <4>1, TypeParts DEF TypeFacts
    <3> QED  BY <1>2, <3>1, <3>2
  <2>5. StashOK' /\ ConnectOK' /\ HoldsOK'
    BY <1>0, <1>1, <2>1, <2>2, <2>3, <2>4 DEF StashOK, ConnectOK, HoldsOK
  <2>6. timer' \in [Hats -> Timers]
    BY <1>0, <1>2, TypeParts DEF TypeFacts, Timers, RetrieveReceived
  <2> QED  BY <1>1, <2>1, <2>2, <2>3, <2>4, <2>5, <2>6, TypeParts DEF TypeFacts
<1>3. CASE behaviour[h] \in {"connected", "failed"}
  <2>1. Answer(c, server[h]) /\ UNCHANGED <<behaviour, connect, timer>>
    BY <1>3 DEF RetrieveReceived
  <2>2. /\ message' \in [Callers -> Places] /\ message'[c] = "nowhere"
        /\ \A d \in Callers : d # c => message'[d] = message[d]
    BY <2>1, Moved DEF Places, Answer
  <2>3. /\ caller \in [Callers -> Progress] /\ holds \in [Callers -> DatabaseOrNone]
        /\ server[h] \in DatabaseOrNone
    BY <1>0, TypeParts DEF TypeFacts
  <2>4. caller' \in [Callers -> Progress] /\ holds' \in [Callers -> DatabaseOrNone] /\ HoldsOK'
    <3>1. CASE caller[c] # "asked"
      BY <1>0, <2>1, <2>3, <3>1 DEF Answer, HoldsOK
    <3>2. CASE caller[c] = "asked" /\ server[h] = NoDatabase
      BY <1>0, <2>1, <2>3, <3>2 DEF Answer, HoldsOK, Becomes, Progress
    <3>3. CASE caller[c] = "asked" /\ server[h] # NoDatabase
      BY <1>0, <2>1, <2>3, <3>3 DEF Answer, HoldsOK, Becomes, Takes, Progress
    <3> QED  BY <3>1, <3>2, <3>3
  <2>5. StashOK' /\ ConnectOK'
    BY <1>0, <1>1, <2>1, <2>2 DEF StashOK, ConnectOK
  <2> QED  BY <1>1, <2>1, <2>2, <2>4, <2>5, TypeParts DEF TypeFacts
<1> QED  BY <1>2, <1>3 DEF RetrieveReceived

LEMMA CallerTypes ==
    ASSUME TypeOK, NEW c \in Callers, CallerStep(c)
    PROVE  TypeOK'
BY RequestTypes, ResolveTypes, ReceivedTypes DEF CallerStep

LEMMA ConnectReceivedTypes ==
    ASSUME TypeOK, NEW h \in Hats, ConnectReceived(h)
    PROVE  TypeOK'
<1>0. /\ HoldsOK /\ StashOK /\ ConnectOK
      /\ address \in [Callers -> Hats] /\ message \in [Callers -> Places]
  BY TypeParts DEF TypeFacts
<1>1. UNCHANGED <<server, timer, cache, open, leaked, active, caller, address, holds>>
  BY DEF ConnectReceived
<1>2. notices' \in [Hats -> Seq(Notice)]
  <2>1. notices' = [notices EXCEPT ![h] = Append(@, "started")] \/ notices' = notices
    BY DEF ConnectReceived
  <2> QED  BY <2>1, Notified DEF Notice
<1>3. PICK b \in {"connected", "failed"} : behaviour' = [behaviour EXCEPT ![h] = b]
  BY DEF ConnectReceived
<1>4. /\ behaviour' \in [Hats -> Behaviours] /\ behaviour'[h] = b
      /\ \A g \in Hats : g # h => behaviour'[g] = behaviour[g]
  BY <1>3, Changed DEF Behaviours
<1>5. /\ connect' \in [Hats -> {"none", "pending"} \cup Outcomes] /\ connect'[h] = "none"
      /\ \A g \in Hats : g # h => connect'[g] = connect[g]
  <2>1. connect' = [connect EXCEPT ![h] = "none"]
    BY DEF ConnectReceived
  <2> QED  BY <2>1, ConnectChanged
<1>6. /\ message' \in [Callers -> Places]
      /\ \A c \in Callers : message'[c] = "stash" => message[c] = "stash" /\ address[c] # h
  <2>1. UnstashAll(h)
    BY DEF ConnectReceived
  <2> QED  BY <1>0, <2>1 DEF UnstashAll, At, Places
<1>7. HoldsOK' /\ StashOK' /\ ConnectOK'
  BY <1>0, <1>1, <1>4, <1>5, <1>6 DEF HoldsOK, StashOK, ConnectOK
<1> QED  BY <1>1, <1>2, <1>4, <1>5, <1>6, <1>7, TypeParts DEF TypeFacts

LEMMA TimeoutReceivedTypes ==
    ASSUME TypeOK, NEW h \in Hats, TimeoutReceived(h)
    PROVE  TypeOK'
<1>0. /\ HoldsOK /\ StashOK /\ ConnectOK /\ address \in [Callers -> Hats]
      /\ timer \in [Hats -> Timers] /\ server \in [Hats -> DatabaseOrNone]
      /\ open \subseteq Databases /\ behaviour \in [Hats -> Behaviours]
  BY TypeParts DEF TypeFacts
<1>1. UNCHANGED <<connect, leaked, cache, active, caller, address, holds, message>>
  BY DEF TimeoutReceived, TimeoutReceivedBy
<1>2. notices' \in [Hats -> Seq(Notice)]
  <2>1. notices' = [notices EXCEPT ![h] = Append(@, "stopped")] \/ notices' = notices
    BY DEF TimeoutReceived, TimeoutReceivedBy
  <2> QED  BY <2>1, Notified DEF Notice
<1>3. /\ behaviour' \in [Hats -> Behaviours]
      /\ \A g \in Hats : \/ behaviour'[g] = behaviour[g]
                         \/ behaviour[g] \in Heeds /\ behaviour'[g] = "receive"
  <2>1. CASE behaviour' = behaviour
    BY <1>0, <2>1
  <2>2. CASE behaviour[h] \in Heeds /\ behaviour' = [behaviour EXCEPT ![h] = "receive"]
    BY <2>2, Changed DEF Behaviours
  <2> QED  BY <2>1, <2>2 DEF TimeoutReceived, TimeoutReceivedBy
<1>4. timer' \in [Hats -> Timers]
  BY <1>0 DEF TimeoutReceived, TimeoutReceivedBy, Timers
<1>5. server' \in [Hats -> DatabaseOrNone] /\ open' \subseteq Databases
  BY <1>0, NoneIsNone DEF TimeoutReceived, TimeoutReceivedBy
<1>6. HoldsOK' /\ StashOK' /\ ConnectOK'
  BY <1>0, <1>1, <1>3 DEF HoldsOK, StashOK, ConnectOK, Heeds
<1> QED  BY <1>1, <1>2, <1>3, <1>4, <1>5, <1>6, TypeParts DEF TypeFacts

LEMMA HatTypes ==
    ASSUME TypeOK, NoticesAlternate, NEW h \in Hats, HatStep(h)
    PROVE  TypeOK'
<1> USE NoneIsNone DEF TypeOK, Timers, Behaviours, Progress, Places
<1>1. CASE CacheExpires(h)
  BY <1>1 DEF CacheExpires, actors
<1>2. CASE CountNotice(h)
  <2>1. notices[h] \in Seq(Notice) /\ notices[h] # <<>>
    BY <1>2 DEF CountNotice, Notice
  <2>2. Tail(notices[h]) \in Seq(Notice)
    BY <2>1
  <2>3. active' \in Int
    BY <1>2 DEF CountNotice
  <2> QED  BY <1>2, <2>2, <2>3 DEF CountNotice, Notice
<1>3. ASSUME NEW outcome \in Outcomes, ConnectEnds(h, outcome)
      PROVE  TypeOK'
  <2>1. outcome \in Outcomes /\ outcome # "none"
    BY <1>3 DEF Outcomes
  <2>2. CASE outcome \in {"ok", "late"}
    <3>1. PICK db \in Fresh :
             /\ open' = open \cup {db}
             /\ server' = [server EXCEPT ![h] = db] \/ server' = server
             /\ leaked' = leaked \cup {db} \/ leaked' = leaked
      BY <1>3, <2>2 DEF ConnectEnds
    <3>2. db \in Databases
      BY FreshDatabase
    <3>3. server' \in [Hats -> DatabaseOrNone]
      <4>1. server \in [Hats -> DatabaseOrNone] /\ db \in DatabaseOrNone
        BY <3>2 DEF DatabaseOrNone
      <4>2. CASE server' = [server EXCEPT ![h] = db]
        BY <4>1, <4>2
      <4> QED  BY <3>1, <4>1, <4>2
    <3>4. open' \subseteq Databases /\ leaked' \subseteq Databases
      BY <3>1, <3>2
    <3> QED  BY <1>3, <2>1, <3>3, <3>4 DEF ConnectEnds
  <2>3. CASE outcome \notin {"ok", "late"}
    BY <1>3, <2>1, <2>3 DEF ConnectEnds
  <2> QED  BY <2>2, <2>3
<1>4. CASE TimerFires(h)
  BY <1>4 DEF TimerFires
<1> QED  BY <1>1, <1>2, <1>3, <1>4, ConnectReceivedTypes, TimeoutReceivedTypes DEF HatStep
-----------------------------------------------------------------------------
(* The counter.                                                            *)
(* A step that counts the same HATs.                                       *)
SameCount == active' = active /\ \A h \in Hats : Counted(h)' <=> Counted(h)

LEMMA SameCountKeeps ==
    ASSUME CounterExact, SameCount
    PROVE  CounterExact'
<1>1. {h \in Hats : Counted(h)}' = {h \in Hats : Counted(h)}
  BY DEF SameCount
<1> QED  BY <1>1 DEF CounterExact, SameCount

LEMMA CallerCounts ==
    ASSUME TypeOK, NoticesAlternate, NEW c \in Callers, CallerStep(c)
    PROVE  SameCount /\ NoticesAlternate'
<1>1. notices' = notices /\ active' = active
  BY DEF CallerStep, Request, RetrieveCached, RetrieveAsk, RetrieveAnswered, RetrieveTimeout,
         Finish, Resolve, Create, RetrieveReceived, actors
<1>2. \A h \in Hats : behaviour'[h] = "connected" <=> behaviour[h] = "connected"
  BY DEF CallerStep, Request, RetrieveCached, RetrieveAsk, RetrieveAnswered, RetrieveTimeout,
         Finish, Resolve, Create, RetrieveReceived, actors, TypeOK
<1> QED  BY <1>1, <1>2 DEF SameCount, Counted, NoticesAlternate

(* A notice is sent when the actor becomes connected, or stops being so.   *)
LEMMA NoticeSent ==
    ASSUME TypeOK, NoticesAlternate, NEW h \in Hats, NEW n \in Notice,
           notices' = [notices EXCEPT ![h] = Append(@, n)], active' = active,
           n = "started" <=> behaviour[h] # "connected",
           n = "started" <=> behaviour'[h] = "connected",
           \A g \in Hats : g # h => behaviour'[g] = behaviour[g]
    PROVE  SameCount /\ NoticesAlternate'
<1> DEFINE s == notices[h]
<1>1. s \in Seq(Notice) /\ Alternate(s)
  BY DEF TypeOK, NoticesAlternate, Notice
<1>2. s # <<>> => s[Len(s)] # n
  <2>1. s # <<>> => s[Len(s)] \in Notice
    BY <1>1
  <2>2. s # <<>> => (s[Len(s)] = "started" <=> behaviour[h] = "connected")
    BY DEF NoticesAlternate
  <2> QED  BY <2>1, <2>2 DEF Notice
<1>3. /\ Append(s, n) # <<>> /\ Alternate(Append(s, n))
      /\ Append(s, n)[Len(Append(s, n))] = n
      /\ Head(Append(s, n)) = IF s = <<>> THEN n ELSE Head(s)
  BY <1>1, <1>2, SeqAppend
<1>4. notices'[h] = Append(s, n) /\ \A g \in Hats : g # h => notices'[g] = notices[g]
  BY DEF TypeOK
<1> HIDE DEF s
<1>5. NoticesAlternate'
  <2>1. /\ Alternate(notices'[h])
        /\ notices'[h][Len(notices'[h])] = "started" <=> behaviour'[h] = "connected"
    BY <1>3, <1>4
  <2>2. \A g \in Hats : g # h => notices'[g] = notices[g] /\ behaviour'[g] = behaviour[g]
    BY <1>4
  <2> QED  BY <2>1, <2>2 DEF NoticesAlternate
<1>6. Counted(h)' <=> Counted(h)
  BY <1>3, <1>4 DEF Counted, s, Notice
<1>7. \A g \in Hats : g # h => (Counted(g)' <=> Counted(g))
  BY <1>4 DEF Counted
<1> QED  BY <1>5, <1>6, <1>7 DEF SameCount

(* A notice is counted.                                                    *)
LEMMA NoticeCounted ==
    ASSUME TypeOK, NoticesAlternate, CounterExact, NEW h \in Hats, CountNotice(h)
    PROVE  CounterExact' /\ NoticesAlternate'
<1> DEFINE s == notices[h]
           Before == {g \in Hats : Counted(g)}
           After == {g \in Hats : Counted(g)'}
<1>1. s \in Seq(Notice) /\ s # <<>> /\ Alternate(s)
  BY DEF TypeOK, NoticesAlternate, Notice, CountNotice
<1>2. /\ Alternate(Tail(s)) /\ Head(s) \in Notice
      /\ Tail(s) = <<>> => s[Len(s)] = Head(s)
      /\ Tail(s) # <<>> => /\ Tail(s)[Len(Tail(s))] = s[Len(s)]
                           /\ Head(Tail(s)) \in Notice /\ Head(Tail(s)) # Head(s)
  BY <1>1, SeqTail
<1>3. /\ notices'[h] = Tail(s) /\ behaviour' = behaviour
      /\ \A g \in Hats : g # h => notices'[g] = notices[g]
      /\ active' = IF Head(s) = "started" THEN active + 1 ELSE active - 1
  BY DEF CountNotice, TypeOK
<1>4. s[Len(s)] = "started" <=> behaviour[h] = "connected"
  BY <1>1 DEF NoticesAlternate
<1>5. Counted(h) <=> Head(s) = "stopped"
  BY <1>1 DEF Counted
<1>6. Counted(h)' <=> Head(s) = "started"
  <2>1. CASE Tail(s) = <<>>
    BY <2>1, <1>2, <1>3, <1>4 DEF Counted
  <2>2. CASE Tail(s) # <<>>
    BY <2>2, <1>2, <1>3 DEF Counted, Notice
  <2> QED  BY <2>1, <2>2
<1> HIDE DEF s
<1>7. NoticesAlternate'
  <2>1. /\ Alternate(notices'[h])
        /\ notices'[h] # <<>> =>
             (notices'[h][Len(notices'[h])] = "started" <=> behaviour'[h] = "connected")
    BY <1>2, <1>3, <1>4
  <2>2. \A g \in Hats : g # h => notices'[g] = notices[g] /\ behaviour'[g] = behaviour[g]
    BY <1>3
  <2> QED  BY <2>1, <2>2 DEF NoticesAlternate
<1>8. \A g \in Hats : g # h => (Counted(g)' <=> Counted(g))
  BY <1>3 DEF Counted
<1>9. IsFiniteSet(Before) /\ active = Cardinality(Before) /\ active \in Int
  BY ConstantsAssumption, FS_Subset DEF CounterExact, TypeOK
<1>10. CASE Head(s) = "started"
  <2>1. h \notin Before /\ After = Before \cup {h}
    BY <1>10, <1>5, <1>6, <1>8
  <2>2. Cardinality(After) = Cardinality(Before) + 1
    BY <2>1, <1>9, FS_AddElement
  <2> QED  BY <2>2, <1>3, <1>7, <1>9, <1>10 DEF CounterExact
<1>11. CASE Head(s) # "started"
  <2>1. h \in Before /\ After = Before \ {h}
    BY <1>11, <1>2, <1>5, <1>6, <1>8 DEF Notice
  <2>2. Cardinality(After) = Cardinality(Before) - 1
    BY <2>1, <1>9, FS_RemoveElement
  <2> QED  BY <2>2, <1>3, <1>7, <1>9, <1>11 DEF CounterExact
<1> QED  BY <1>10, <1>11

LEMMA HatCounts ==
    ASSUME TypeOK, NoticesAlternate, CounterExact, NEW h \in Hats, HatStep(h)
    PROVE  CounterExact' /\ NoticesAlternate'
<1>1. CASE CountNotice(h)
  BY <1>1, NoticeCounted
<1>2. CASE ConnectReceived(h)
  <2>1. behaviour[h] = "connecting" /\ behaviour \in [Hats -> Behaviours]
    BY <1>2 DEF ConnectReceived, TypeOK
  <2>2. CASE connect[h] = "ok"
    <3>1. /\ notices' = [notices EXCEPT ![h] = Append(@, "started")]
          /\ active' = active /\ behaviour'[h] = "connected"
          /\ \A g \in Hats : g # h => behaviour'[g] = behaviour[g]
      BY <1>2, <2>1, <2>2 DEF ConnectReceived
    <3> QED  BY <2>1, <3>1, NoticeSent, SameCountKeeps DEF Notice
  <2>3. CASE connect[h] # "ok"
    <3>1. /\ notices' = notices /\ active' = active /\ behaviour'[h] = "failed"
          /\ \A g \in Hats : g # h => behaviour'[g] = behaviour[g]
      BY <1>2, <2>1, <2>3 DEF ConnectReceived
    <3>2. SameCount /\ NoticesAlternate'
      BY <2>1, <3>1 DEF SameCount, Counted, NoticesAlternate
    <3> QED  BY <3>2, SameCountKeeps
  <2> QED  BY <2>2, <2>3
<1>3. CASE TimeoutReceived(h)
  <2>1. behaviour \in [Hats -> Behaviours] /\ active' = active
    BY <1>3 DEF TimeoutReceived, TimeoutReceivedBy, TypeOK
  <2>2. CASE behaviour[h] \in Heeds
    <3>1. /\ behaviour'[h] = "receive"
          /\ \A g \in Hats : g # h => behaviour'[g] = behaviour[g]
      BY <1>3, <2>1, <2>2 DEF TimeoutReceived, TimeoutReceivedBy
    <3>2. CASE behaviour[h] = "connected"
      <4>1. notices' = [notices EXCEPT ![h] = Append(@, "stopped")]
        BY <1>3, <3>2 DEF TimeoutReceived, TimeoutReceivedBy
      <4> QED  BY <2>1, <3>1, <3>2, <4>1, NoticeSent, SameCountKeeps DEF Notice
    <3>3. CASE behaviour[h] = "failed"
      <4>1. notices' = notices
        BY <1>3, <3>3 DEF TimeoutReceived, TimeoutReceivedBy
      <4>2. SameCount /\ NoticesAlternate'
        BY <2>1, <3>1, <3>3, <4>1 DEF SameCount, Counted, NoticesAlternate
      <4> QED  BY <4>2, SameCountKeeps
    <3> QED  BY <2>2, <3>2, <3>3 DEF Heeds
  <2>3. CASE behaviour[h] \notin Heeds
    <3>1. behaviour' = behaviour /\ notices' = notices
      BY <1>3, <2>3 DEF TimeoutReceived, TimeoutReceivedBy, Heeds
    <3>2. SameCount /\ NoticesAlternate'
      BY <2>1, <3>1 DEF SameCount, Counted, NoticesAlternate
    <3> QED  BY <3>2, SameCountKeeps
  <2> QED  BY <2>2, <2>3
<1>4. CASE CacheExpires(h) \/ TimerFires(h) \/ \E outcome \in Outcomes : ConnectEnds(h, outcome)
  <2>1. UNCHANGED <<behaviour, active, notices>>
    BY <1>4 DEF CacheExpires, TimerFires, ConnectEnds, actors
  <2>2. SameCount /\ NoticesAlternate'
    BY <2>1 DEF SameCount, Counted, NoticesAlternate
  <2> QED  BY <2>2, SameCountKeeps
<1> QED  BY <1>1, <1>2, <1>3, <1>4 DEF HatStep

LEMMA Invariance ==
    /\ Init => IInv
    /\ IInv /\ [Next]_vars => IInv'
<1>1. Init => IInv
  <2> SUFFICES ASSUME Init PROVE IInv
    OBVIOUS
  <2>1. {h \in Hats : Counted(h)} = {} /\ active = 0
    BY DEF Init, Counted
  <2>2. CounterExact
    BY <2>1, FS_EmptySet DEF CounterExact
  <2> QED  BY <2>2, TypeInit DEF IInv
<1>2. ASSUME IInv, [Next]_vars PROVE IInv'
  <2>1. ASSUME NEW c \in Callers, CallerStep(c) PROVE IInv'
    BY <1>2, <2>1, CallerTypes, CallerCounts, SameCountKeeps DEF IInv
  <2>2. ASSUME NEW h \in Hats, HatStep(h) PROVE IInv'
    BY <1>2, <2>2, HatTypes, HatCounts DEF IInv
  <2>3. CASE UNCHANGED vars
    <3>1. TypeOK' /\ NoticesAlternate'
      BY <1>2, <2>3 DEF IInv, TypeOK, NoticesAlternate, vars
    <3>2. SameCount
      BY <2>3 DEF SameCount, Counted, vars
    <3> QED  BY <1>2, <3>1, <3>2, SameCountKeeps DEF IInv
  <2> QED  BY <1>2, <2>1, <2>2, <2>3, Steps
<1> QED  BY <1>1, <1>2

(* The variables have their types in every state; a retrieval is stashed   *)
(* only by an actor that is connecting.                                    *)
THEOREM TypesOK == Spec => []TypeOK
<1>1. IInv => TypeOK
  BY DEF IInv
<1> QED  BY <1>1, Invariance, PTL DEF Spec

(* However notices are delayed, the counter is the number of HATs that     *)
(* were connected when the next notice was sent.                           *)
THEOREM CounterIsExact == Spec => []CounterExact
<1>1. IInv => CounterExact
  BY DEF IInv
<1> QED  BY <1>1, Invariance, PTL DEF Spec
-----------------------------------------------------------------------------
(* The pools of connections.                                               *)
LEMMA CallerPools ==
    ASSUME TypeOK, PoolInv, NEW c \in Callers, CallerStep(c)
    PROVE  PoolInv'
<1>1. open' = open /\ leaked' = leaked /\ server' = server
  BY DEF CallerStep, Request, RetrieveCached, RetrieveAsk, RetrieveAnswered, RetrieveTimeout,
         Finish, Resolve, Create, RetrieveReceived, actors
<1>2. \A h \in Hats : /\ behaviour'[h] = "connected" <=> behaviour[h] = "connected"
                      /\ connect'[h] = "ok" <=> connect[h] = "ok"
  BY DEF CallerStep, Request, RetrieveCached, RetrieveAsk, RetrieveAnswered, RetrieveTimeout,
         Finish, Resolve, Create, RetrieveReceived, actors, TypeOK
<1> QED  BY <1>1, <1>2 DEF PoolInv, OpenOwned, ServersApart

LEMMA HatPools ==
    ASSUME TypeOK, PoolInv, NEW h \in Hats, HatStep(h)
    PROVE  PoolInv'
<1> USE DEF TypeOK
<1>1. ASSUME NEW outcome \in Outcomes, ConnectEnds(h, outcome)
      PROVE  PoolInv'
  <2>1. server[h] = NoDatabase /\ behaviour[h] = "connecting"
    BY <1>1 DEF ConnectEnds, PoolInv, OpenOwned
  <2>2. /\ behaviour' = behaviour /\ connect'[h] = outcome
        /\ \A g \in Hats : g # h => connect'[g] = connect[g]
    BY <1>1 DEF ConnectEnds
  <2>3. CASE outcome = "ok"
    <3>1. PICK db \in Fresh : /\ open' = open \cup {db} /\ leaked' = leaked
                              /\ server' = [server EXCEPT ![h] = db]
      BY <1>1, <2>3 DEF ConnectEnds
    <3>2. db \notin open /\ db # NoDatabase
      BY FreshDatabase
    <3>3. server'[h] = db /\ \A g \in Hats : g # h => server'[g] = server[g]
      BY <3>1
    <3>4. \A g \in Hats : server[g] # NoDatabase => server[g] \in open
      BY DEF PoolInv, OpenOwned
    <3>5. leaked' \subseteq open' /\ open' \ leaked' = {server'[g] : g \in Hats} \ {NoDatabase}
      <4>1. leaked \subseteq open /\ open' \ leaked' = (open \ leaked) \cup {db}
        BY <3>1, <3>2 DEF PoolInv, OpenOwned
      <4>2. open \ leaked = {server[g] : g \in Hats} \ {NoDatabase}
        BY DEF PoolInv, OpenOwned
      <4>3. {server'[g] : g \in Hats} \ {NoDatabase}
              = ({server[g] : g \in Hats} \ {NoDatabase}) \cup {db}
        <5> DEFINE before == {server[g] : g \in Hats}
                   after == {server'[g] : g \in Hats}
        <5>1. \A g \in Hats : server[g] # NoDatabase => g # h
          BY <2>1
        <5>2. ASSUME NEW d \in after, d # db
              PROVE  d \in before
          BY <3>3, <5>2
        <5>3. ASSUME NEW d \in before, d # NoDatabase
              PROVE  d \in after
          <6>1. PICK g \in Hats : d = server[g]
            BY <5>3
          <6>2. d = server'[g]
            BY <3>3, <5>1, <5>3, <6>1
          <6> QED  BY <6>2
        <5>4. db \in after
          BY <3>3
        <5> HIDE DEF before, after
        <5>5. after \ {NoDatabase} = (before \ {NoDatabase}) \cup {db}
          BY <3>2, <5>2, <5>3, <5>4
        <5> QED  BY <5>5 DEF before, after
      <4> QED  BY <3>1, <4>1, <4>2, <4>3
    <3>6. \A g \in Hats : g # h => server[g] # db \/ server[g] = NoDatabase
      BY <3>2, <3>4
    <3>7. ASSUME NEW f \in Hats, NEW g \in Hats, server'[f] = server'[g], server'[f] # NoDatabase
          PROVE  f = g
      <4>1. CASE f # h /\ g # h
        BY <3>3, <3>7, <4>1 DEF PoolInv, ServersApart
      <4>2. CASE f = h \/ g = h
        BY <3>2, <3>3, <3>6, <3>7, <4>2
      <4> QED  BY <4>1, <4>2
    <3>8. ServersApart'
      BY <3>7 DEF ServersApart
    <3>9. \A g \in Hats : server'[g] # NoDatabase <=> behaviour'[g] = "connected" \/ connect'[g] = "ok"
      <4>1. TAKE g \in Hats
      <4>2. CASE g = h
        BY <2>1, <2>2, <2>3, <3>2, <3>3, <4>2
      <4>3. CASE g # h
        BY <2>2, <3>3, <4>3 DEF PoolInv, OpenOwned
      <4> QED  BY <4>2, <4>3
    <3> QED  BY <3>5, <3>8, <3>9 DEF PoolInv, OpenOwned
  <2>4. CASE outcome # "ok"
    <3>1. server' = server
      BY <1>1, <2>4 DEF ConnectEnds
    <3>2. leaked' \subseteq open' /\ open' \ leaked' = open \ leaked
      <4>1. leaked \subseteq open
        BY DEF PoolInv, OpenOwned
      <4>2. CASE outcome = "late"
        <5>1. PICK db \in Fresh : open' = open \cup {db} /\ leaked' = leaked \cup {db}
          BY <1>1, <4>2 DEF ConnectEnds
        <5>2. db \notin open
          BY FreshDatabase
        <5> QED  BY <4>1, <5>1, <5>2
      <4>3. CASE outcome # "late"
        BY <1>1, <2>4, <4>1, <4>3 DEF ConnectEnds
      <4> QED  BY <4>2, <4>3
    <3>3. \A g \in Hats : server'[g] # NoDatabase <=> behaviour'[g] = "connected" \/ connect'[g] = "ok"
      <4>1. TAKE g \in Hats
      <4>2. CASE g = h
        BY <2>1, <2>2, <2>4, <3>1, <4>2
      <4>3. CASE g # h
        BY <2>2, <3>1, <4>3 DEF PoolInv, OpenOwned
      <4> QED  BY <4>2, <4>3
    <3>4. open' \ leaked' = {server'[g] : g \in Hats} \ {NoDatabase}
      <4>1. open \ leaked = {server[g] : g \in Hats} \ {NoDatabase}
        BY DEF PoolInv, OpenOwned
      <4> QED  BY <3>1, <3>2, <4>1
    <3>5. ServersApart'
      BY <3>1 DEF PoolInv, ServersApart
    <3> QED  BY <3>2, <3>3, <3>4, <3>5 DEF PoolInv, OpenOwned
  <2> QED  BY <2>3, <2>4
<1>2. CASE ConnectReceived(h)
  <2>1. /\ open' = open /\ leaked' = leaked /\ server' = server
        /\ behaviour[h] = "connecting"
    BY <1>2 DEF ConnectReceived
  <2>2. /\ behaviour'[h] = (IF connect[h] = "ok" THEN "connected" ELSE "failed")
        /\ connect'[h] = "none"
        /\ \A g \in Hats : g # h => behaviour'[g] = behaviour[g] /\ connect'[g] = connect[g]
    BY <1>2 DEF ConnectReceived
  <2>3. \A g \in Hats : server'[g] # NoDatabase <=> behaviour'[g] = "connected" \/ connect'[g] = "ok"
    <3>1. TAKE g \in Hats
    <3>2. CASE g = h
      BY <2>1, <2>2, <3>2 DEF PoolInv, OpenOwned
    <3>3. CASE g # h
      BY <2>1, <2>2, <3>3 DEF PoolInv, OpenOwned
    <3> QED  BY <3>2, <3>3
  <2> QED  BY <2>1, <2>3 DEF PoolInv, OpenOwned, ServersApart
<1>3. CASE TimeoutReceived(h)
  <2>1. /\ connect' = connect /\ leaked' = leaked
        /\ behaviour[h] \in Heeds => connect[h] = "none" /\ behaviour'[h] = "receive"
        /\ \A g \in Hats : g # h => behaviour'[g] = behaviour[g]
    BY <1>3 DEF TimeoutReceived, TimeoutReceivedBy, Heeds
  <2>2. CASE behaviour[h] = "connected"
    <3>1. /\ open' = open \ {server[h]} /\ server'[h] = NoDatabase
          /\ \A g \in Hats : g # h => server'[g] = server[g]
      BY <1>3, <2>2 DEF TimeoutReceived, TimeoutReceivedBy
    <3>2. server[h] # NoDatabase
      BY <2>2 DEF PoolInv, OpenOwned
    <3>3. \A g \in Hats : g # h => server[g] # server[h]
      BY <3>2 DEF PoolInv, ServersApart
    <3>4. leaked' \subseteq open' /\ open' \ leaked' = {server'[g] : g \in Hats} \ {NoDatabase}
      <4> DEFINE kept == open' \ leaked'
      <4>0. /\ leaked \subseteq open /\ server[h] \notin leaked
            /\ open \ leaked = {server[g] : g \in Hats} \ {NoDatabase}
        BY <3>2 DEF PoolInv, OpenOwned
      <4>1. ASSUME NEW db \in kept
            PROVE  db \in {server'[g] : g \in Hats} \ {NoDatabase}
        <5>1. db \in open \ leaked /\ db # server[h]
          BY <2>1, <3>1, <4>1
        <5>2. PICK g \in Hats : server[g] = db
          BY <4>0, <5>1
        <5>3. g # h /\ db # NoDatabase
          BY <4>0, <5>1, <5>2
        <5> QED  BY <3>1, <5>2, <5>3
      <4>2. ASSUME NEW g \in Hats, server'[g] # NoDatabase
            PROVE  server'[g] \in kept
        <5>1. g # h /\ server'[g] = server[g]
          BY <3>1, <4>2
        <5>2. server[g] \in open \ leaked /\ server[g] # server[h]
          BY <3>3, <4>0, <4>2, <5>1
        <5> QED  BY <2>1, <3>1, <5>1, <5>2
      <4>3. NoDatabase \notin kept
        BY <2>1, <3>1, <4>0
      <4>4. leaked' \subseteq open'
        BY <2>1, <3>1, <4>0
      <4> QED  BY <4>1, <4>2, <4>3, <4>4
    <3>5. ASSUME NEW f \in Hats, NEW g \in Hats, server'[f] = server'[g], server'[f] # NoDatabase
          PROVE  f = g
      <4>1. f # h /\ g # h
        BY <3>1, <3>5
      <4> QED  BY <3>1, <3>5, <4>1 DEF PoolInv, ServersApart
    <3>6. ServersApart'
      BY <3>5 DEF ServersApart
    <3>7. \A g \in Hats : server'[g] # NoDatabase <=> behaviour'[g] = "connected" \/ connect'[g] = "ok"
      <4>1. TAKE g \in Hats
      <4>2. CASE g = h
        BY <2>1, <2>2, <3>1, <4>2 DEF Heeds
      <4>3. CASE g # h
        BY <2>1, <3>1, <4>3 DEF PoolInv, OpenOwned
      <4> QED  BY <4>2, <4>3
    <3> QED  BY <3>4, <3>6, <3>7 DEF PoolInv, OpenOwned
  <2>3. CASE behaviour[h] # "connected"
    <3>1. open' = open /\ server' = server
      BY <1>3, <2>3 DEF TimeoutReceived, TimeoutReceivedBy
    <3>2. \A g \in Hats : behaviour'[g] = "connected" <=> behaviour[g] = "connected"
      BY <1>3, <2>3 DEF TimeoutReceived, TimeoutReceivedBy
    <3> QED  BY <2>1, <3>1, <3>2 DEF PoolInv, OpenOwned, ServersApart
  <2> QED  BY <2>2, <2>3
<1>4. CASE CacheExpires(h) \/ TimerFires(h) \/ CountNotice(h)
  <2>1. UNCHANGED <<behaviour, server, connect, open, leaked>>
    BY <1>4 DEF CacheExpires, TimerFires, CountNotice, actors
  <2> QED  BY <2>1 DEF PoolInv, OpenOwned, ServersApart
<1> QED  BY <1>1, <1>2, <1>3, <1>4 DEF HatStep

LEMMA PoolInvariance ==
    /\ Init => PoolInv
    /\ IInv /\ PoolInv /\ [Next]_vars => PoolInv'
<1>1. Init => PoolInv
  <2> SUFFICES ASSUME Init PROVE PoolInv
    OBVIOUS
  <2>1. /\ \A h \in Hats : server[h] = NoDatabase /\ behaviour[h] = "none" /\ connect[h] = "none"
        /\ open = {} /\ leaked = {}
    BY DEF Init
  <2> QED  BY <2>1 DEF PoolInv, OpenOwned, ServersApart
<1>2. ASSUME IInv, PoolInv, [Next]_vars PROVE PoolInv'
  <2>1. ASSUME NEW c \in Callers, CallerStep(c) PROVE PoolInv'
    BY <1>2, <2>1, CallerPools DEF IInv
  <2>2. ASSUME NEW h \in Hats, HatStep(h) PROVE PoolInv'
    BY <1>2, <2>2, HatPools DEF IInv
  <2>3. CASE UNCHANGED vars
    BY <1>2, <2>3 DEF PoolInv, OpenOwned, ServersApart, vars
  <2> QED  BY <1>2, <2>1, <2>2, <2>3, Steps
<1> QED  BY <1>1, <1>2

(* No pool leaks but those of connections that fail after they opened one: *)
(* what else is open belongs to a connected server, or to one on its way.  *)
THEOREM PoolsOwned == Spec => []OpenOwned
<1>1. PoolInv => OpenOwned
  BY DEF PoolInv
<1> QED  BY <1>1, Invariance, PoolInvariance, PTL DEF Spec
=============================================================================
