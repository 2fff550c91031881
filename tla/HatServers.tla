----------------------------- MODULE HatServers -----------------------------
(***************************************************************************)
(* How a request to a HAT finds that HAT's server, i.e. its keys and its   *)
(* pool of database connections (resourceManagement): HatServerProvider    *)
(* looks in a cache and asks the HatServerProviderActor, which resolves or *)
(* creates the child HatServerActor of the HAT, which connects the server, *)
(* answers with it, and shuts it down when it has been idle.               *)
(*                                                                         *)
(* A mailbox is a set of messages, with those that unstashAll puts at its  *)
(* front apart: one sender's two messages are never in it together, and no *)
(* property depends on the order of the rest.  Time is left out: an ask, a *)
(* resolution or a cache entry may expire at any time, and a receive       *)
(* timeout that was once set may be enqueued at any time, in whatever state*)
(* the actor is and before, between or behind other messages.  So a server *)
(* that was answered, cached or in use may be one of a pool shut down.     *)
(***************************************************************************)
EXTENDS Integers, FiniteSets, Sequences

CONSTANTS Hats,        \* addresses of HATs
          Callers,     \* slots for requests
          MaxDatabases,\* bound on the connection pools in use at a time
          SlowResolves,\* TRUE: resolving an actor that exists may take too long
          MaxNotices   \* bound on the notices of one HAT on their way

(* How a connection may end.  "refused" and "late" are failures with a     *)
(* HatServerDiscoveryException, the latter when the pool has been opened   *)
(* already (ownerEmail comes last); "crash" is any other exception.        *)
Outcomes == {"ok", "refused", "late", "crash"}
ASSUME ConstantsAssumption ==
    /\ MaxNotices \in Nat /\ MaxDatabases \in Nat /\ SlowResolves \in BOOLEAN
    /\ IsFiniteSet(Hats)

VARIABLES behaviour,  \* hat -> the Receive of its HatServerActor
          server,     \* hat -> the database of the connected server
          connect,    \* hat -> the future of connect()
          timer,      \* hat -> its receive timeout
          cache,      \* hat -> the database of the server in the cache
          open,       \* databases not shut down
          leaked,     \* history: opened by a connection that failed then
          active,     \* ActiveHatCounter
          notices,    \* hat -> HatServerStarted/Stopped on their way, in order
          caller,     \* request -> its progress
          address,    \* request -> the HAT it is for
          holds,      \* request -> the database it was given
          message     \* request -> where its HatRetrieve is

vars == <<behaviour, server, connect, timer, cache, open, leaked, active,
          notices, caller, address, holds, message>>
actors == <<behaviour, server, connect, timer, open, leaked, active, notices>>

Behaviours == {"none", "receive", "connecting", "connected", "failed"}
Progress == {"idle", "asked", "replied", "using"}
Places == {"nowhere", "resolving", "notFound", "inbox", "stash", "unstashed"}
Timers == {"off", "set", "enqueued"}  \* enqueued: a ReceiveTimeout is in the mailbox
Databases == 1..MaxDatabases
NoDatabase == 0
DatabaseOrNone == Databases \cup {NoDatabase}

At(h, place) == {c \in Callers : address[c] = h /\ message[c] = place}
(* Each connection opens a pool of its own: the names of those that nobody *)
(* refers to any more are used again, the lowest first.                    *)
Forgotten == Databases \ (open \cup {cache[h] : h \in Hats}
                               \cup {holds[c] : c \in Callers})
Fresh == {db \in Forgotten : \A other \in Forgotten : db <= other}
-----------------------------------------------------------------------------
Init == /\ behaviour = [h \in Hats |-> "none"]
        /\ server = [h \in Hats |-> NoDatabase]
        /\ connect = [h \in Hats |-> "none"]
        /\ timer = [h \in Hats |-> "off"]
        /\ cache = [h \in Hats |-> NoDatabase]
        /\ open = {} /\ leaked = {} /\ active = 0
        /\ notices = [h \in Hats |-> <<>>]
        /\ caller = [c \in Callers |-> "idle"]
        /\ address \in [Callers -> Hats]
        /\ holds = [c \in Callers |-> NoDatabase]
        /\ message = [c \in Callers |-> "nowhere"]

Becomes(c, progress) == caller' = [caller EXCEPT ![c] = progress]
Moves(c, place) == message' = [message EXCEPT ![c] = place]
Takes(c, db) == holds' = [holds EXCEPT ![c] = db]
-----------------------------------------------------------------------------
(* HatServerProviderImpl.retrieve: the cached server, or an ask.           *)
RetrieveCached(c, h) ==
    /\ caller[c] = "idle" /\ message[c] = "nowhere" /\ cache[h] # NoDatabase
    /\ Becomes(c, "using") /\ Takes(c, cache[h])
    /\ address' = [address EXCEPT ![c] = h]
    /\ UNCHANGED <<actors, cache, message>>

RetrieveAsk(c, h) ==
    /\ caller[c] = "idle" /\ message[c] = "nowhere" /\ cache[h] = NoDatabase
    /\ Becomes(c, "asked") /\ Moves(c, "resolving")
    /\ address' = [address EXCEPT ![c] = h]
    /\ UNCHANGED <<actors, cache, holds>>

(* A server came back: it is cached before the request goes on.            *)
RetrieveAnswered(c) ==
    /\ caller[c] = "replied"
    /\ cache' = [cache EXCEPT ![address[c]] = holds[c]]
    /\ Becomes(c, "using")
    /\ UNCHANGED <<actors, address, holds, message>>

(* serverProvisioningTimeout: the request fails, its message stays.        *)
RetrieveTimeout(c) ==
    /\ caller[c] = "asked"
    /\ Becomes(c, "idle")
    /\ UNCHANGED <<actors, cache, address, holds, message>>

Finish(c) ==
    /\ caller[c] = "using"
    /\ Becomes(c, "idle") /\ Takes(c, NoDatabase)
    /\ UNCHANGED <<actors, cache, address, message>>

CacheExpires(h) ==
    /\ cache[h] # NoDatabase
    /\ cache' = [cache EXCEPT ![h] = NoDatabase]
    /\ UNCHANGED <<actors, caller, address, holds, message>>
-----------------------------------------------------------------------------
(* HatServerProviderActor.doFindOrCreate, in futures outside the actor:    *)
(* resolveOne finds the child, or fails with ActorNotFound when there is   *)
(* none or when it takes too long; injectedChild fails when the name is    *)
(* taken, and then nobody answers.  maxAttempts is never reached: the      *)
(* second creation already fails.                                          *)
Resolve(c) ==
    /\ message[c] = "resolving"
    /\ \/ behaviour[address[c]] # "none" /\ Moves(c, "inbox")
       \/ (behaviour[address[c]] = "none" \/ SlowResolves) /\ Moves(c, "notFound")
    /\ UNCHANGED <<actors, cache, caller, address, holds>>

Create(c) ==
    LET h == address[c]
    IN  /\ message[c] = "notFound"
        /\ IF behaviour[h] = "none"
             THEN /\ behaviour' = [behaviour EXCEPT ![h] = "receive"]
                  /\ Moves(c, "resolving")
             ELSE UNCHANGED behaviour /\ Moves(c, "nowhere")
        /\ UNCHANGED <<server, connect, timer, cache, open, leaked, active,
                       notices, caller, address, holds>>

CountStarts(h) ==  \* mutant: HatServerStopped is not counted
    /\ notices[h] # <<>>
    /\ active' = IF Head(notices[h]) = "started" THEN active + 1 ELSE active
    /\ notices' = [notices EXCEPT ![h] = Tail(@)]
    /\ UNCHANGED <<behaviour, server, connect, timer, cache, open, leaked,
                   caller, address, holds, message>>
CountNotice(h) ==
    /\ notices[h] # <<>>
    /\ active' = IF Head(notices[h]) = "started" THEN active + 1 ELSE active - 1
    /\ notices' = [notices EXCEPT ![h] = Tail(@)]
    /\ UNCHANGED <<behaviour, server, connect, timer, cache, open, leaked,
                   caller, address, holds, message>>
-----------------------------------------------------------------------------
(* HatServerActor takes a HatRetrieve.                                     *)
AnswerAlike(c, db) ==  \* mutant: an error is taken for a server
    /\ Moves(c, "nowhere")
    /\ IF caller[c] # "asked" THEN UNCHANGED <<caller, holds>>
       ELSE Becomes(c, "replied") /\ Takes(c, db)
Answer(c, db) ==
    /\ Moves(c, "nowhere")
    /\ IF caller[c] # "asked" THEN UNCHANGED <<caller, holds>>
       ELSE IF db = NoDatabase THEN Becomes(c, "idle") /\ UNCHANGED holds
       ELSE Becomes(c, "replied") /\ Takes(c, db)

(* Messages that unstashAll put at the front of the mailbox come first.    *)
FrontTaken(h) == At(h, "unstashed") = {}

RetrieveReceived(c) ==
    LET h == address[c]
    IN  /\ \/ message[c] = "unstashed"
           \/ message[c] = "inbox" /\ FrontTaken(h)
        /\ \/ /\ behaviour[h] = "receive"
              /\ behaviour' = [behaviour EXCEPT ![h] = "connecting"]
              /\ connect' = [connect EXCEPT ![h] = "pending"]
              /\ timer' = [timer EXCEPT ![h] = IF @ = "off" THEN "set" ELSE @]
              /\ Moves(c, "stash") /\ UNCHANGED <<caller, holds>>
           \/ /\ behaviour[h] = "connecting"
              /\ Moves(c, "stash")
              /\ UNCHANGED <<behaviour, connect, timer, caller, holds>>
           \/ /\ behaviour[h] \in {"connected", "failed"}
              /\ Answer(c, server[h])
              /\ UNCHANGED <<behaviour, connect, timer>>
        /\ UNCHANGED <<server, cache, open, leaked, active, notices, address>>

(* connect() ends, and pipes its result to the actor.                      *)
ConnectEnds(h, outcome) ==
    /\ connect[h] = "pending"
    /\ connect' = [connect EXCEPT ![h] = outcome]
    /\ IF outcome \in {"ok", "late"}
         THEN \E db \in Fresh :
                 /\ open' = open \cup {db}
                 /\ IF outcome = "ok"
                      THEN server' = [server EXCEPT ![h] = db] /\ UNCHANGED leaked
                      ELSE leaked' = leaked \cup {db} /\ UNCHANGED server
         ELSE UNCHANGED <<open, leaked, server>>
    /\ UNCHANGED <<behaviour, timer, cache, active, notices, caller, address,
                   holds, message>>

(* connecting takes HatConnected or HatFailed; the Status.Failure of a     *)
(* crash no case of it takes.                                              *)
UnstashNone(h) == UNCHANGED message  \* mutant: unstashAll() forgotten
UnstashAll(h) == message' = [c \in Callers |-> IF c \in At(h, "stash") THEN "unstashed"
                                                ELSE message[c]]
ConnectReceived(h) ==
    /\ connect[h] \in {"ok", "refused", "late"}
    /\ connect' = [connect EXCEPT ![h] = "none"]
    /\ UnstashAll(h)
    /\ IF connect[h] = "ok"
         THEN /\ behaviour' = [behaviour EXCEPT ![h] = "connected"]
              /\ notices' = [notices EXCEPT ![h] = Append(@, "started")]
         ELSE /\ behaviour' = [behaviour EXCEPT ![h] = "failed"]
              /\ UNCHANGED notices
    /\ UNCHANGED <<server, timer, cache, open, leaked, active, caller, address,
                   holds>>

(* The receive timeout passes.  It is set anew by every message taken, and *)
(* never cancelled: not by a shutdown, either.                             *)
TimerFires(h) ==
    /\ timer[h] = "set"
    /\ timer' = [timer EXCEPT ![h] = "enqueued"]
    /\ UNCHANGED <<behaviour, server, connect, cache, open, leaked, active,
                   notices, caller, address, holds, message>>

(* The actor takes a ReceiveTimeout, which only connected (the server is   *)
(* shut down) and failed heed: receive logs it and connecting has no case  *)
(* for it.  cacheApi.remove("hatServer:..") names neither the cache nor the*)
(* key ("server:..") of the provider's entry.                              *)
Heeds == {"connected", "failed"}
TimeoutReceivedBy(h, heeding) ==
    /\ timer[h] = "enqueued" /\ FrontTaken(h)
    /\ timer' = [timer EXCEPT ![h] = "set"]
    /\ behaviour' = IF behaviour[h] \in heeding
                      THEN [behaviour EXCEPT ![h] = "receive"] ELSE behaviour
    /\ IF behaviour[h] = "connected"
         THEN /\ Len(notices[h]) < MaxNotices
              /\ open' = open \ {server[h]}
              /\ server' = [server EXCEPT ![h] = NoDatabase]
              /\ notices' = [notices EXCEPT ![h] = Append(@, "stopped")]
         ELSE UNCHANGED <<open, server, notices>>
    /\ UNCHANGED <<connect, leaked, cache, active, caller, address, holds, message>>
TimeoutReceivedAnywhere(h) ==  \* mutant: it ends connecting, too
    TimeoutReceivedBy(h, Heeds \cup {"connecting"})
TimeoutReceived(h) == TimeoutReceivedBy(h, Heeds)

Request(c) == \/ \E h \in Hats : RetrieveCached(c, h) \/ RetrieveAsk(c, h)
              \/ RetrieveAnswered(c) \/ RetrieveTimeout(c) \/ Finish(c)
Next == \/ \E c \in Callers :
             Request(c) \/ Resolve(c) \/ Create(c) \/ RetrieveReceived(c)
        \/ \E h \in Hats :
             \/ CacheExpires(h) \/ CountNotice(h)
             \/ \E outcome \in Outcomes : ConnectEnds(h, outcome)
             \/ ConnectReceived(h) \/ TimerFires(h) \/ TimeoutReceived(h)

(* Dispatchers run every actor that has messages, a mailbox is first come  *)
(* first served (others overtake a message a bounded number of times),     *)
(* resolveOne has a timeout, and so have the calls and connections that    *)
(* connect() makes.  Nothing is asked of requests, caches or receive       *)
(* timeouts.                                                               *)
Fairness ==
    /\ \A c \in Callers :
         WF_vars(Resolve(c)) /\ WF_vars(Create(c)) /\ SF_vars(RetrieveReceived(c))
    /\ \A h \in Hats :
         /\ WF_vars(\E outcome \in Outcomes : ConnectEnds(h, outcome))
         /\ WF_vars(ConnectReceived(h))
         /\ WF_vars(CountNotice(h))

Spec == Init /\ [][Next]_vars
FairSpec == Spec /\ Fairness
-----------------------------------------------------------------------------
TypeOK ==
    /\ behaviour \in [Hats -> Behaviours]
    /\ server \in [Hats -> DatabaseOrNone]
    /\ connect \in [Hats -> {"none", "pending"} \cup Outcomes]
    /\ timer \in [Hats -> Timers]
    /\ cache \in [Hats -> DatabaseOrNone]
    /\ open \subseteq Databases /\ leaked \subseteq Databases /\ active \in Int
    /\ notices \in [Hats -> Seq({"started", "stopped"})]
    /\ caller \in [Callers -> Progress]
    /\ address \in [Callers -> Hats]
    /\ holds \in [Callers -> DatabaseOrNone]
    /\ message \in [Callers -> Places]
    /\ \A c \in Callers :
         /\ caller[c] \in {"replied", "using"} <=> holds[c] # NoDatabase
         /\ message[c] = "stash" => behaviour[address[c]] = "connecting"
    /\ \A h \in Hats : behaviour[h] = "connecting" <=> connect[h] # "none"

(* No pool of connections leaks but when its connection fails after it was *)
(* opened: however connections, failures and idle shutdowns alternate, and *)
(* in whatever state and among whatever messages a ReceiveTimeout finds the*)
(* actor, the other open databases are those of the connected servers, or  *)
(* of a HatConnected on its way.                                           *)
OpenOwned ==
    /\ leaked \subseteq open
    /\ open \ leaked = {server[h] : h \in Hats} \ {NoDatabase}
    /\ \A h \in Hats : server[h] # NoDatabase
                         <=> behaviour[h] = "connected" \/ connect[h] = "ok"

(* ActiveHatCounter is exact: it is the number of the HATs that were        *)
(* connected when the next notice on its way was sent, or are so now when  *)
(* none is on its way.                                                     *)
Counted(h) == IF notices[h] = <<>> THEN behaviour[h] = "connected"
                                   ELSE Head(notices[h]) = "stopped"
CounterExact == active = Cardinality({h \in Hats : Counted(h)})

(* A message that reached the HatServerActor is taken, in whatever state   *)
(* it finds the actor, and not left in its stash, unless the actor's       *)
(* connection failed in a way that nothing tells the actor of.             *)
Consumed ==
    \A c \in Callers :
       message[c] \in {"inbox", "stash", "unstashed"}
         ~> message[c] = "nowhere" \/ connect[address[c]] = "crash"
=============================================================================
