------------------------------- MODULE Users -------------------------------
(***************************************************************************)
(* The accounts of one HAT (UserServiceImpl), their roles, and the cache   *)
(* that holds a copy of an account under its id and another under its      *)
(* email.  Requests create, update, enable, disable and delete accounts    *)
(* (the Users controller), change the owner's password (the Authentication *)
(* controller through PasswordInfoService), and give the role of a data    *)
(* debit to the client that made it (DataDebitService).                    *)
(*                                                                         *)
(* A step is one call of the cache or one statement of the database that   *)
(* the others can tell apart: saving deletes the roles that its snapshot   *)
(* shows, then writes the account, inserts the roles and commits.  Calls   *)
(* of the cache that nobody waits for are in "pending", in the order they  *)
(* were made.  The name of a user is left out.                             *)
(***************************************************************************)
EXTENDS Naturals, Sequences

CONSTANTS UserIds, Emails, Passes, Roles, Requests, NoUser,
          Owner,        \* the role Owner()
          Privileged,   \* the roles Owner() and Platform()
          ContractRoles,\* what legacy data debit contracts add to an account
          Accounts0,    \* the accounts of a HAT when it is made
          Bodies,       \* the accounts that clients send
          Kinds         \* the kinds of requests that arrive

HatUser == [userId : UserIds, email : Emails, pass : Passes,
            roles : SUBSET Roles, enabled : BOOLEAN]
IsPrivileged(user) == user.roles \cap Privileged # {}
Keys == UserIds \cup Emails

ASSUME ConstantsAssumption ==
    /\ UserIds \subseteq Nat /\ UserIds # {} /\ UserIds \cap Emails = {}
    /\ NoUser \notin HatUser
    /\ Owner \in Privileged /\ Privileged \subseteq Roles
    /\ ContractRoles \in [UserIds -> SUBSET (Roles \ Privileged)]
    /\ Accounts0 \in [UserIds -> HatUser \cup {NoUser}]
    /\ \A u \in UserIds : Accounts0[u] # NoUser => Accounts0[u].userId = u
    /\ Bodies \subseteq HatUser
    /\ Kinds \subseteq {"create", "update", "enable", "disable", "delete",
                        "read", "password", "grant"}

VARIABLES accounts,   \* tables user_user and user_role
          cache,      \* "<domain>:user:<id>" and "<domain>:user:<email>"
          requests,   \* the requests under way
          pending,    \* calls of the cache that were made and not yet done
          disturbed,  \* history: two requests overlapped, or one was lost
          replaced    \* history: the ids of privileged accounts over which
                      \* another was created

vars == <<accounts, cache, requests, pending, disturbed, replaced>>

(* A request, and the key by which it looks an account up.                 *)
Calls == [kind : {"create"}, key : Emails, body : Bodies]
           \cup [kind : {"update"}, key : UserIds, body : Bodies]
           \cup [kind : {"enable", "disable", "delete"}, key : UserIds]
           \cup [kind : {"read"}, key : Keys]
           \cup [kind : {"password"}, key : Emails, old : Passes, new : Passes]
           \cup [kind : {"grant"}, key : UserIds, role : Roles \ Privileged]
AnyCall == [kind |-> "read", key |-> CHOOSE u \in UserIds : TRUE]

(* round counts the look-ups; dropped are the roles a save has deleted.    *)
Request == [call : Calls, at : {"idle", "get", "query", "begin", "commit"},
            round : 1..3, user : HatUser \cup {NoUser}, dropped : SUBSET Roles]
Idle == [call |-> AnyCall, at |-> "idle", round |-> 1, user |-> NoUser, dropped |-> {}]

Commands == [key : Keys, value : HatUser \cup {NoUser}]
Fills(user) == <<[key |-> user.userId, value |-> user], [key |-> user.email, value |-> user]>>
RemovalsByEmail(user) == <<[key |-> user.email, value |-> NoUser]>>  \* mutant
Removals(user) == <<[key |-> user.userId, value |-> NoUser], [key |-> user.email, value |-> NoUser]>>

Init == /\ accounts = Accounts0
        /\ cache = [k \in Keys |-> NoUser]
        /\ requests = [r \in Requests |-> Idle]
        /\ pending = [r \in Requests |-> <<>>]
        /\ disturbed = FALSE /\ replaced = {}

At(r, step) == requests[r].at = step
Become(r, q) == requests' = [requests EXCEPT ![r] = q]
EndForgetfully(r) == Become(r, [requests[r] EXCEPT !.at = "end"])  \* mutant
End(r) == Become(r, Idle)
Submit(r, commands) == pending' = [pending EXCEPT ![r] = @ \o commands]
Free(r) == At(r, "idle") /\ pending[r] = <<>>
Quiet == \A r \in Requests : Free(r)
-----------------------------------------------------------------------------
(* A request arrives.  Privileged accounts are not created; the id of a    *)
(* new account is what the client sends, and only its email is looked up.  *)
Call(r, call) ==
    /\ Free(r) /\ call.kind \in Kinds
    /\ call.kind = "create" => call.key = call.body.email /\ ~IsPrivileged(call.body)
    /\ Become(r, [Idle EXCEPT !.call = call, !.at = "get"])
    /\ disturbed' = (disturbed \/ ~Quiet)
    /\ UNCHANGED <<accounts, cache, pending, replaced>>

WrongOfExisting(q, user) ==  \* mutant: an update does not ask for an account
    q.call.kind # "update" /\ (q.call.kind = "create") = (user # NoUser)
(* A new account must not exist, any other must.                           *)
Wrong(q, user) == (q.call.kind = "create") = (user # NoUser)

ForbiddenByOld(q, user) ==  \* mutant: an update looks at the old roles only
    \/ q.call.kind \in {"update", "delete"} /\ IsPrivileged(user)
    \/ q.call.kind \in {"enable", "disable"} /\ q.round = 1 /\ IsPrivileged(user)
(* Privileged accounts are not changed, nor made out of others.            *)
Forbidden(q, user) ==
    \/ q.call.kind \in {"update", "delete"} /\ IsPrivileged(user)
    \/ q.call.kind = "update" /\ IsPrivileged(q.call.body)
    \/ q.call.kind \in {"enable", "disable"} /\ q.round = 1 /\ IsPrivileged(user)

(* A request that found user (or nobody) and goes no further.              *)
Refuses(q, user) ==
    \/ q.call.kind = "read" \/ Wrong(q, user)
    \/ user # NoUser /\ Forbidden(q, user)
    \/ user # NoUser /\ q.call.kind = "update" /\ user.userId # q.call.body.userId
    \/ user # NoUser /\ q.call.kind = "password"
         /\ \/ q.round = 1 /\ Owner \notin user.roles
            \/ q.round = 2 /\ user.pass # q.call.old

(* The controller looks an account up and the service does so again; a     *)
(* password is changed for an identity, checked, and changed.              *)
LooksAgain(q) == \/ q.call.kind \in {"enable", "disable", "delete"} /\ q.round = 1
                 \/ q.call.kind = "password" /\ q.round < 3

(* What is saved.  disableUser, too, calls changeUserState with enabled =  *)
(* true; a new or updated account is enabled.                              *)
ToSave(call, user) ==
    CASE call.kind \in {"create", "update"} -> [call.body EXCEPT !.enabled = TRUE]
      [] call.kind \in {"enable", "disable"} -> [user EXCEPT !.enabled = TRUE]
      [] call.kind = "grant" -> [user EXCEPT !.roles = @ \cup {call.role}]
      [] call.kind = "password" -> [user EXCEPT !.pass = call.new]
      [] call.kind = "delete" -> user

(* A request goes on with the user it found.                               *)
Continue(r, user) ==
    LET q == requests[r]
    IN IF Refuses(q, user) THEN End(r)
       ELSE IF LooksAgain(q) THEN Become(r, [q EXCEPT !.at = "get", !.round = @ + 1])
       ELSE Become(r, [q EXCEPT !.at = "begin", !.user = ToSave(q.call, user)])

(* getUser asks the cache first ...                                        *)
Get(r) ==
    /\ At(r, "get")
    /\ LET found == cache[requests[r].call.key]
       IN IF found # NoUser
          THEN Continue(r, found)
          ELSE Become(r, [requests[r] EXCEPT !.at = "query"])
    /\ UNCHANGED <<accounts, cache, pending, disturbed, replaced>>

Matching(key) == {u \in UserIds : accounts[u] # NoUser /\ key \in {u, accounts[u].email}}
AsRead(u) == [accounts[u] EXCEPT !.roles = @ \cup ContractRoles[u]]

(* ... then the database: the first by id of those that match, which is    *)
(* put in the cache while the request goes on.                             *)
Query(r) ==
    /\ At(r, "query")
    /\ LET found == Matching(requests[r].call.key)
       IN \/ found = {} /\ Continue(r, NoUser) /\ UNCHANGED pending
          \/ \E u \in found : /\ \A v \in found : u <= v
                              /\ Continue(r, AsRead(u))
                              /\ Submit(r, Fills(AsRead(u)))
    /\ UNCHANGED <<accounts, cache, disturbed, replaced>>
-----------------------------------------------------------------------------
(* The first statement of saveUser and of deleteUser: delete the roles     *)
(* that are there.                                                         *)
Begin(r) ==
    /\ At(r, "begin")
    /\ LET row == accounts[requests[r].user.userId]
       IN Become(r, [requests[r] EXCEPT !.at = "commit",
                                        !.dropped = IF row = NoUser THEN {} ELSE row.roles])
    /\ UNCHANGED <<accounts, cache, pending, disturbed, replaced>>

(* The roles that remain of an account when request r has deleted its own. *)
Remaining(r) ==
    LET row == accounts[requests[r].user.userId]
    IN IF row = NoUser THEN {} ELSE row.roles \ requests[r].dropped

(* Roles that user now has are rows that other transactions have not       *)
(* deleted, whichever rows they deleted before.                            *)
Inserted(r, user) ==
    requests' = [q \in Requests |->
        IF q = r THEN Idle
        ELSE IF requests[q].at = "commit" /\ requests[q].user.userId = user.userId
             THEN [requests[q] EXCEPT !.dropped = @ \ user.roles]
             ELSE requests[q]]

CreatesOverPrivileged(q) ==
    /\ q.call.kind = "create" /\ accounts[q.user.userId] # NoUser
    /\ IsPrivileged(accounts[q.user.userId])

(* saveUser writes the account under its id, whether there is one or not,  *)
(* and its roles, and commits; both cached copies are then replaced.       *)
Save(r) ==
    LET user == requests[r].user
    IN /\ At(r, "commit") /\ requests[r].call.kind # "delete"
       /\ accounts' = [accounts EXCEPT ![user.userId] =
                          [user EXCEPT !.roles = @ \cup Remaining(r)]]
       /\ Inserted(r, user)
       /\ Submit(r, Fills(user))
       /\ replaced' = replaced \cup {u \in {user.userId} : CreatesOverPrivileged(requests[r])}
       /\ UNCHANGED <<cache, disturbed>>

(* deleteUser deletes the account, unless roles inserted by another        *)
(* transaction still refer to it, and then removes the cached copies.      *)
Delete(r) ==
    LET user == requests[r].user
    IN /\ At(r, "commit") /\ requests[r].call.kind = "delete"
       /\ End(r)
       /\ IF Remaining(r) = {}
          THEN accounts' = [accounts EXCEPT ![user.userId] = NoUser] /\ Submit(r, Removals(user))
          ELSE UNCHANGED <<accounts, pending>>
       /\ UNCHANGED <<cache, disturbed, replaced>>
-----------------------------------------------------------------------------
(* The cache does the next call of a request.                              *)
Flush(r) ==
    /\ pending[r] # <<>>
    /\ cache' = [cache EXCEPT ![Head(pending[r]).key] = Head(pending[r]).value]
    /\ pending' = [pending EXCEPT ![r] = Tail(@)]
    /\ UNCHANGED <<accounts, requests, disturbed, replaced>>

(* The cache loses an entry.                                               *)
Evict(k) == /\ cache[k] # NoUser
            /\ cache' = [cache EXCEPT ![k] = NoUser]
            /\ UNCHANGED <<accounts, requests, pending, disturbed, replaced>>

(* A statement fails, or the process ends: the request and its calls of    *)
(* the cache are lost.                                                     *)
Lose(r) == /\ ~Free(r)
           /\ End(r)
           /\ pending' = [pending EXCEPT ![r] = <<>>]
           /\ disturbed' = TRUE
           /\ UNCHANGED <<accounts, cache, replaced>>

Next == \/ \E r \in Requests : \/ \E call \in Calls : Call(r, call)
                               \/ Get(r) \/ Query(r) \/ Begin(r) \/ Save(r) \/ Delete(r)
                               \/ Flush(r) \/ Lose(r)
        \/ \E k \in Keys : Evict(k)

Spec == Init /\ [][Next]_vars
-----------------------------------------------------------------------------
TypeOK == /\ accounts \in [UserIds -> HatUser \cup {NoUser}]
          /\ cache \in [Keys -> HatUser \cup {NoUser}]
          /\ requests \in [Requests -> Request]
          /\ pending \in [Requests -> Seq(Commands)]
          /\ disturbed \in BOOLEAN /\ replaced \subseteq UserIds

(* The privileged roles an account was made with, which it still has and   *)
(* no others; one that another was created over has none or some of them.  *)
Given(u) == IF Accounts0[u] = NoUser THEN {} ELSE Accounts0[u].roles \cap Privileged
Entitled(user, over) ==
    LET held == user.roles \cap Privileged
    IN IF user.userId \in over THEN held \subseteq Given(user.userId)
       ELSE held = Given(user.userId)

(* However requests interleave, fail or read stale copies, no account      *)
(* gains a privileged role, neither in the database nor in the cached      *)
(* copies that authorisation goes by, and the owner's and the platform's   *)
(* accounts are never deleted and keep their roles, unless a client has    *)
(* created another account over one of them, with its id and an email that *)
(* nobody has.  The checks that ensure it are made on copies, some steps   *)
(* before what they guard is written.                                      *)
PrivilegesFixed ==
    /\ \A u \in UserIds : IF accounts[u] # NoUser THEN Entitled(accounts[u], replaced)
                          ELSE u \in replaced \/ Given(u) = {}
    /\ \A k \in Keys : cache[k] # NoUser => Entitled(cache[k], replaced)

(* With one request at a time and none lost, the copies under the id and   *)
(* under the present email of an account are what the database holds, but  *)
(* for the roles of contracts, and nothing is cached for the id of a       *)
(* deleted account.  (Under an email it no longer has, an old copy stays.) *)
Merged(user) == [user EXCEPT !.roles = @ \cup ContractRoles[user.userId]]
CachesAgree ==
    Quiet /\ ~disturbed =>
      /\ \A u \in UserIds : accounts[u] = NoUser => cache[u] = NoUser
      /\ \A k \in Keys : cache[k] # NoUser =>
           LET row == accounts[cache[k].userId]
           IN row # NoUser /\ k \in {cache[k].userId, row.email} => Merged(cache[k]) = Merged(row)

(* With one request at a time, an account that was deleted comes back only *)
(* when a client creates it again: no grant of a role, change of state or  *)
(* change of a password writes an old copy of it.  The one exception is    *)
(* the owner's account, when another was created over it and deleted: its  *)
(* copy under the owner's email stays, and a change of password saves it.  *)
StaysDeleted ==
    [][\A u \in UserIds : accounts[u] = NoUser /\ accounts'[u] # NoUser =>
          disturbed \/ u \in replaced \/ \E r \in Requests : At(r, "commit") /\ requests[r].call.kind = "create"]_vars
-----------------------------------------------------------------------------
(***************************************************************************)
(* What makes PrivilegesFixed inductive (Users_proofs): every copy of an   *)
(* account that is still to be written is as entitled as the account, but  *)
(* for those to be created, which have no privileged roles.                *)
(***************************************************************************)
OwnRows == \A u \in UserIds : accounts[u] # NoUser => accounts[u].userId = u

PendingEntitled ==
    \A r \in Requests : \A i \in 1..Len(pending[r]) :
       pending[r][i].value # NoUser => Entitled(pending[r][i].value, replaced)

RequestOK(q, over) ==
    /\ q.call.kind = "create" => ~IsPrivileged(q.call.body)
    /\ q.at \in {"begin", "commit"} =>
         /\ q.user # NoUser /\ (q.call.kind # "create" => Entitled(q.user, over))
         /\ q.call.kind \in {"create", "delete"} => ~IsPrivileged(q.user)
RequestsEntitled == \A r \in Requests : RequestOK(requests[r], replaced)

IInv == TypeOK /\ OwnRows /\ PendingEntitled /\ RequestsEntitled /\ PrivilegesFixed
=============================================================================
