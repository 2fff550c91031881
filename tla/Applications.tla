---------------------------- MODULE Applications ----------------------------
(***************************************************************************)
(* The applications of one HAT (ApplicationsService): the owner sets them  *)
(* up and disables them, which also enables and disables their data debits *)
(* and sets up the applications and tools they depend on; anyone           *)
(* authorised through an application asks for its status, which is cached  *)
(* for each application and for the list of all of them.                   *)
(*                                                                         *)
(* A step is one call of the database, the cache or another service, in    *)
(* the order of the for-comprehensions.  Requests interleave, and within a *)
(* request what Future.sequence starts runs in parallel, as tasks: when    *)
(* one fails the others go on.  Every call may fail, or be lost in a       *)
(* restart.  A call nobody waits for takes effect whenever it does.  The   *)
(* controllers ask for a status before they set up or disable: that is a   *)
(* request of its own.  Enabling a debit stands for the calls that         *)
(* DataDebits models one by one.                                           *)
(***************************************************************************)
CONSTANTS Apps, Tools, Requests,
          DebitApps,      \* applications that have a data debit
          Dependencies    \* application -> the applications and tools it needs

Things == Apps \cup Tools

ASSUME ConstantsAssumption ==
    /\ Apps # {} /\ DebitApps \subseteq Apps /\ Apps \cap Tools = {}
    /\ Dependencies \in [Apps -> SUBSET Things]
    /\ \A a \in Apps : a \notin Dependencies[a]

VARIABLES row,        \* the application_status row of an application
          debit,      \* is a bundle of the application's data debit active
          tool,       \* is the function enabled
          cached,     \* the cache, "apps:<domain>:<id>"
          list,       \* the cache, "apps:<domain>"
          app, pc,    \* request -> its application, and what it is at
          at,         \* request -> thing -> its task for that
          seen,       \* request -> application -> the status it is making
          storing,    \* statuses being stored by calls that nobody awaits
          abandoned,  \* history: changes of an application lost at a step
          missed,     \* history: changes that a copy of a status missed
          apart,      \* history: debits enabled apart from their application
          since,      \* history: things enabled since a set-up began
          misled      \* history: dependencies enabled in a copy only

requests == <<app, pc, at, seen>>
vars == <<row, debit, tool, cached, list, requests, storing, abandoned, missed, apart,
          since, misled>>

Rows == {"none", "enabled", "disabled"}
(* certain: generated, and not the default after a time-out (history).     *)
HatApplication == [row : Rows, active : BOOLEAN, certain : BOOLEAN]
Miss == [row |-> "none", active |-> TRUE, certain |-> FALSE]
OfRow(x) == [row |-> x, active |-> FALSE, certain |-> FALSE]

Columns == {"row", "debit"}  \* what may change of an application

(* What a request is at: it waits for its task in status and setup, for    *)
(* those of the dependencies in a stage, for all in listCollect.           *)
Stages == {"check", "depend", "tools", "enableTools"}
SettingUp == {"enableDebit", "setup"} \cup Stages
Mains == {"idle", "status", "revert", "disableDebit", "disableRow",
          "listGet", "listCollect"} \cup SettingUp

(* What a task is at.  bust and renew drop the copies of a status, the     *)
(* latter of one that has changed.                                         *)
Making == {"collect", "fill", "gather"}
Running == {"enableRow", "bust", "renew", "get", "row", "toolGet", "toolSave"} \cup Making
Ended == {"ready", "unready", "failed"}
Tasks == {"none"} \cup Running \cup Ended

AnyApp == CHOOSE a \in Apps : TRUE
NoTasks == [x \in Things |-> "none"]
Nothing == [a \in Apps |-> Miss]

Init == /\ row = [a \in Apps |-> "none"]
        /\ debit = [a \in Apps |-> FALSE]
        /\ tool = [t \in Tools |-> FALSE]
        /\ cached = Nothing /\ list = <<>> /\ storing = {}
        /\ app = [r \in Requests |-> AnyApp]
        /\ pc = [r \in Requests |-> "idle"]
        /\ at = [r \in Requests |-> NoTasks]
        /\ seen = [r \in Requests |-> Nothing]
        /\ abandoned = {} /\ missed = {} /\ apart = {}
        /\ since = {} /\ misled = {}

trail == <<since, misled>>
database == <<row, debit, tool>>
mishaps == <<abandoned, missed, apart>>
caches == <<cached, list, storing>>

Goto(r, main) == pc' = [pc EXCEPT ![r] = main]
Task(r, x, step) == at' = [at EXCEPT ![r][x] = step]
Store(a, s) == cached' = [cached EXCEPT ![a] = s]
Sees(r, a, s) == seen' = [seen EXCEPT ![r][a] = s]
Forgets(r) == /\ since' = {p \in since : p[1] # r}
              /\ misled' = {p \in misled : p[1] # r}

Awaited(r, x) == \/ pc[r] \in {"status", "setup"} /\ x = app[r]
                 \/ pc[r] \in Stages /\ x \in Dependencies[app[r]]
                 \/ pc[r] = "listCollect" /\ x \in Apps
Finish(r, x, end) == Task(r, x, IF Awaited(r, x) THEN end ELSE "none")
ResultOnceSetUp(s) ==  \* mutant: without looking at enabled
    IF s.row = "none" THEN "unready" ELSE "ready"
(* What a status says of the application, to who set it up or needs it.    *)
Result(s) == IF s.row = "enabled" THEN "ready" ELSE "unready"

(* The request goes on without the tasks that have ended.                  *)
Without(r) == [x \in Things |-> IF at[r][x] \in Ended THEN "none" ELSE at[r][x]]
EndForgetfully(r) ==  \* mutant: the slot keeps its application and tasks
    /\ Goto(r, "idle") /\ Forgets(r)
    /\ UNCHANGED <<app, at, seen>>
(* Its result is out, or it has failed; tasks that are running go on.      *)
End(r) == /\ Goto(r, "idle") /\ Forgets(r)
          /\ app' = [app EXCEPT ![r] = AnyApp]
          /\ at' = [at EXCEPT ![r] = Without(r)]
          /\ seen' = [seen EXCEPT ![r] =
                        [a \in Apps |-> IF at[r][a] \in Making THEN @[a] ELSE Miss]]

(* A slot is free when nothing is left of its last request.                *)
Free(r) == pc[r] = "idle" /\ at[r] = NoTasks /\ \A p \in storing : p[1] # r

(* Somebody is making a copy of the status of a, of what it has read.      *)
Reads(r, a) == \/ at[r][a] \in Making
               \/ pc[r] = "listCollect"
               \/ \E s \in HatApplication : <<r, a, s>> \in storing
BeingRead(a) == \E r \in Requests : Reads(r, a)
Copied(a) == cached[a] # Miss \/ list # <<>> \/ BeingRead(a)
(* A change of a that copies of its status do not get to know.             *)
Missing(a, change, copies) ==
    missed' = IF copies THEN missed \cup {<<a, change>>} ELSE missed

(* A set-up under way finds that x is enabled.                             *)
Enabled(x) == since' = since \cup {<<r, x>> : r \in {q \in Requests : pc[q] \in SettingUp}}
-----------------------------------------------------------------------------
CollectedEither(x, a) ==  \* mutant: active when the debit or the remote status is
    IF x = "enabled"
      THEN {[row |-> x, active |-> TRUE, certain |-> TRUE],
            [row |-> x, active |-> FALSE, certain |-> TRUE], OfRow(x)}
      ELSE {[row |-> x, active |-> FALSE, certain |-> TRUE]}
(* collectStatus: of an enabled application, whether its debit is active   *)
(* and the remote status is fine, or the default if that takes too long.   *)
Collected(x, a) ==
    IF x = "enabled"
      THEN {[row |-> x, active |-> debit[a] \/ a \notin DebitApps, certain |-> TRUE],
            [row |-> x, active |-> FALSE, certain |-> TRUE], OfRow(x)}
      ELSE {[row |-> x, active |-> FALSE, certain |-> TRUE]}

(* refetchApplicationsStatus stores a status that is certain: the call is  *)
(* made in andThen, and not waited for.                                    *)
Refetch(r, a, s) ==
    storing' = IF s.certain THEN storing \cup {<<r, a, s>>} ELSE storing

(* Such a call takes effect, or fails.                                     *)
Stored(r, a, s) ==
    /\ <<r, a, s>> \in storing
    /\ storing' = storing \ {<<r, a, s>>}
    /\ Store(a, s) \/ UNCHANGED cached
    /\ UNCHANGED <<database, list, requests, mishaps, trail>>
-----------------------------------------------------------------------------
(* applicationStatus(id, bustCache), of a request or within one            *)
StatusCall(r, a, step) ==
    /\ Free(r)
    /\ Goto(r, "status") /\ app' = [app EXCEPT ![r] = a] /\ Task(r, a, step)
    /\ UNCHANGED <<database, caches, seen, mishaps, trail>>

Halfway == Things \X {"enableRow", "disableRow", "renew"}

(* Both copies are removed.  They are the last when nobody is about to     *)
(* store one.                                                              *)
Bust(r, a) ==
    /\ at[r][a] \in {"bust", "renew"}
    /\ Store(a, Miss) /\ list' = <<>>
    /\ Task(r, a, "get")
    /\ IF BeingRead(a)
         THEN UNCHANGED <<abandoned, missed>>
         ELSE /\ abandoned' = abandoned \ ({a} \X {"disableRow", "renew"})
              /\ missed' = missed \ ({a} \X Columns)
    /\ UNCHANGED <<database, storing, app, pc, seen, apart, trail>>

(* A missing entry drops the list, too, in a call that nobody waits for:   *)
(* see ExpireList.                                                         *)
Get(r, a) ==
    /\ at[r][a] = "get"
    /\ IF cached[a] # Miss THEN Finish(r, a, Result(cached[a])) ELSE Task(r, a, "row")
    /\ misled' = IF cached[a] # Miss /\ pc[r] \in SettingUp /\ <<r, a>> \notin since
                   THEN misled \cup {<<r, a>>} ELSE misled
    /\ UNCHANGED <<database, caches, app, pc, seen, mishaps, since>>

ReadRow(r, a) ==
    /\ at[r][a] = "row"
    /\ Task(r, a, "collect") /\ Sees(r, a, OfRow(row[a]))
    /\ UNCHANGED <<database, caches, app, pc, mishaps, trail>>

Collect(r, a) ==
    /\ at[r][a] = "collect"
    /\ \E s \in Collected(seen[r][a].row, a) : Refetch(r, a, s) /\ Sees(r, a, s)
    /\ Task(r, a, "fill")
    /\ UNCHANGED <<database, cached, list, app, pc, mishaps, trail>>

Fill(r, a) == /\ at[r][a] = "fill"
              /\ Store(a, seen[r][a]) /\ Sees(r, a, Miss)
              /\ Finish(r, a, Result(seen[r][a]))
              /\ UNCHANGED <<database, list, storing, app, pc, mishaps, trail>>

StatusAnswered(r) ==
    /\ pc[r] = "status" /\ at[r][app[r]] \in Ended
    /\ End(r)
    /\ UNCHANGED <<database, caches, mishaps>>
-----------------------------------------------------------------------------
(* applicationStatus(), of all applications                                *)
ListCall(r) ==
    /\ Free(r)
    /\ Goto(r, "listGet")
    /\ UNCHANGED <<database, caches, app, at, seen, mishaps, trail>>

ListGet(r) ==
    /\ pc[r] = "listGet"
    /\ \/ list # <<>> /\ End(r)
       \/ /\ list = <<>>
          /\ Goto(r, "listCollect")
          /\ at' = [at EXCEPT ![r] = [x \in Things |-> IF x \in Apps THEN "gather" ELSE "none"]]
          /\ seen' = [seen EXCEPT ![r] = [a \in Apps |-> OfRow(row[a])]]
          /\ UNCHANGED <<app, trail>>
    /\ UNCHANGED <<database, caches, mishaps>>

ListCollect(r, a) ==
    /\ at[r][a] = "gather"
    /\ \E s \in Collected(seen[r][a].row, a) :
         Refetch(r, a, s) /\ Sees(r, a, IF pc[r] = "listCollect" THEN s ELSE Miss)
    /\ Task(r, a, "none")
    /\ UNCHANGED <<database, cached, list, app, pc, mishaps, trail>>

ListFill(r) ==
    /\ pc[r] = "listCollect" /\ at[r] = NoTasks
    /\ list' = IF \A a \in Apps : seen[r][a].certain THEN seen[r] ELSE list
    /\ End(r)
    /\ UNCHANGED <<database, cached, storing, mishaps>>
-----------------------------------------------------------------------------
OwnerCall(r, main, a) ==
    /\ Free(r)
    /\ Goto(r, main) /\ app' = [app EXCEPT ![r] = a]
    /\ since' = IF main # "enableDebit" THEN since
                ELSE since \cup ({r} \X ({b \in Apps : row[b] = "enabled"}
                                           \cup {t \in Tools : tool[t]}))
    /\ UNCHANGED <<database, caches, at, seen, mishaps, misled>>

(* Between the two changes of a disabling of a.                            *)
HalfDisabled(a) == \E r \in Requests : pc[r] = "disableRow" /\ app[r] = a

(* setup: enableAssociatedDataDebit, of an application with a data debit   *)
EnableDebit(r) ==
    LET a == app[r]
    IN  /\ pc[r] = "enableDebit"
        /\ debit' = [debit EXCEPT ![a] = a \in DebitApps]
        /\ apart' = IF HalfDisabled(a) THEN apart \cup {a} ELSE apart
        /\ Goto(r, "setup") /\ Task(r, a, "enableRow")
        /\ UNCHANGED <<row, tool, caches, app, seen, abandoned, missed, trail>>

EnableRowKeeping(r, a) ==  \* mutant: the status is fetched without bustCache
    /\ at[r][a] = "enableRow"
    /\ row' = [row EXCEPT ![a] = "enabled"]
    /\ Task(r, a, "get")
    /\ Missing(a, "row", BeingRead(a)) /\ Enabled(a)
    /\ UNCHANGED <<debit, tool, caches, app, pc, seen, abandoned, apart, misled>>
(* setupApplication, of the application itself or a dependency: the status *)
(* is fetched anew after the change.                                       *)
EnableRow(r, a) ==
    /\ at[r][a] = "enableRow"
    /\ row' = [row EXCEPT ![a] = "enabled"]
    /\ Task(r, a, "renew")
    /\ Missing(a, "row", BeingRead(a)) /\ Enabled(a)
    /\ UNCHANGED <<debit, tool, caches, app, pc, seen, abandoned, apart, misled>>

(* The application is set up: all its dependencies' statuses are asked for.*)
IsSetUp(r) ==
    /\ pc[r] = "setup" /\ at[r][app[r]] \in {"ready", "unready"}
    /\ IF Dependencies[app[r]] = {} THEN End(r)
       ELSE /\ Goto(r, "check")
            /\ at' = [at EXCEPT ![r] = [x \in Things |->
                         IF x \in Dependencies[app[r]] \cap Apps THEN "get" ELSE "none"]]
            /\ UNCHANGED <<app, seen, trail>>
    /\ UNCHANGED <<database, caches, mishaps>>

(* setupDependencies: a stage begins when all tasks of the one before are  *)
(* done, those of the applications and then those of the tools.            *)
Succeeded(r, things) == \A x \in Dependencies[app[r]] \cap things : at[r][x] \in {"ready", "unready"}
Begin(r, things, from, step) ==
    at' = [at EXCEPT ![r] = [x \in Things |->
             IF x \in Dependencies[app[r]] \cap things /\ at[r][x] = from THEN step ELSE at[r][x]]]
NextStage(r) ==
    /\ \/ /\ pc[r] = "check" /\ Succeeded(r, Apps)
          /\ Goto(r, "depend") /\ Begin(r, Apps, "unready", "enableRow")
       \/ /\ pc[r] = "depend" /\ Succeeded(r, Apps)
          /\ Goto(r, "tools") /\ Begin(r, Tools, "none", "toolGet")
       \/ /\ pc[r] = "tools" /\ Succeeded(r, Tools)
          /\ Goto(r, "enableTools") /\ Begin(r, Tools, "unready", "toolSave")
    /\ UNCHANGED <<database, caches, app, seen, mishaps, trail>>

(* functionService.get, and save with enabled set, which then gets again.  *)
ToolGet(r, t) ==
    /\ at[r][t] = "toolGet"
    /\ Finish(r, t, IF tool[t] THEN "ready" ELSE "unready")
    /\ UNCHANGED <<database, caches, app, pc, seen, mishaps, trail>>
ToolSave(r, t) ==
    /\ at[r][t] = "toolSave"
    /\ tool' = [tool EXCEPT ![t] = TRUE]
    /\ Task(r, t, "toolGet") /\ Enabled(t)
    /\ UNCHANGED <<row, debit, caches, app, pc, seen, mishaps, misled>>

Reported(r) == pc[r] = "enableTools" /\ Succeeded(r, Things)
DependenciesSetUp(r) == /\ Reported(r) /\ End(r)
                        /\ UNCHANGED <<database, caches, mishaps>>

(* A dependency is not known, or could not be set up: the application's    *)
(* status is fetched anew.                                                 *)
DependencyFailed(r) ==
    /\ pc[r] \in Stages /\ \E x \in Dependencies[app[r]] : at[r][x] = "failed"
    /\ Goto(r, "status")
    /\ at' = [at EXCEPT ![r] = [Without(r) EXCEPT ![app[r]] = "bust"]]
    /\ Forgets(r)
    /\ UNCHANGED <<database, caches, app, seen, mishaps>>

(* The debit goes off; copies says whether there are any that stay.        *)
DisableDebitOf(a, copies) ==
    /\ debit' = [debit EXCEPT ![a] = FALSE]
    /\ Missing(a, "debit", copies)
    /\ abandoned' = abandoned \ {<<a, "enableRow">>}
    /\ apart' = apart \ {a}

(* recoverWith of a HatApplicationSetupException                           *)
SetupFailed(r) ==
    /\ pc[r] = "setup" /\ at[r][app[r]] = "failed"
    /\ Goto(r, "revert") /\ Task(r, app[r], "none")
    /\ Forgets(r)
    /\ UNCHANGED <<database, caches, app, seen, mishaps>>
Revert(r) == /\ pc[r] = "revert"
             /\ DisableDebitOf(app[r], Copied(app[r]))
             /\ End(r)
             /\ UNCHANGED <<row, tool, caches>>

DisableDebitLater(r) ==  \* mutant: cancelAtPeriodEnd = true
    /\ pc[r] = "disableDebit"
    /\ Goto(r, "disableRow")
    /\ UNCHANGED <<database, caches, app, at, seen, mishaps, trail>>
(* disable: the debit first, then the row.                                 *)
DisableDebit(r) ==
    /\ pc[r] = "disableDebit"
    /\ DisableDebitOf(app[r], BeingRead(app[r]))
    /\ Goto(r, "disableRow")
    /\ UNCHANGED <<row, tool, caches, app, at, seen, trail>>

DisableRow(r) ==
    LET a == app[r]
    IN  /\ pc[r] = "disableRow"
        /\ row' = [row EXCEPT ![a] = "disabled"]
        /\ Missing(a, "row", BeingRead(a))
        /\ Goto(r, "status") /\ Task(r, a, "renew")
        /\ UNCHANGED <<debit, tool, caches, app, seen, abandoned, apart, trail>>
-----------------------------------------------------------------------------
(* A call of a task fails, or is lost, or the application is not known.    *)
TaskFails(r, x) ==
    /\ at[r][x] \in Running
    /\ Finish(r, x, "failed")
    /\ seen' = [seen EXCEPT ![r] = [a \in Apps |-> IF a = x THEN Miss ELSE @[a]]]
    /\ abandoned' =
         IF at[r][x] = "renew" \/ (at[r][x] = "enableRow" /\ pc[r] = "setup")
           THEN abandoned \cup {<<x, at[r][x]>>} ELSE abandoned
    /\ UNCHANGED <<database, caches, app, pc, missed, apart, trail>>

(* A call of the request itself is, or what it waited for has failed in    *)
(* any other way; the calls of its tasks go on.                            *)
Fails(r) ==
    /\ \/ pc[r] \in {"enableDebit", "revert", "disableDebit", "disableRow", "listGet"}
       \/ \E x \in Things : at[r][x] = "failed"
       \/ pc[r] = "listCollect" /\ at[r] = NoTasks
    /\ End(r)
    /\ abandoned' = IF pc[r] = "disableRow" THEN abandoned \cup {<<app[r], "disableRow">>}
                    ELSE abandoned
    /\ UNCHANGED <<database, caches, missed, apart>>
-----------------------------------------------------------------------------
(* The owner enables and disables a data debit through the data debits'    *)
(* own API, and a tool through the functions'.                             *)
DirectEnable(a) ==
    /\ a \in DebitApps
    /\ debit' = [debit EXCEPT ![a] = TRUE] /\ apart' = apart \cup {a}
    /\ UNCHANGED <<row, tool, caches, requests, abandoned, missed, trail>>
DirectDisable(a) ==
    /\ debit[a]
    /\ DisableDebitOf(a, Copied(a))
    /\ UNCHANGED <<row, tool, caches, requests, trail>>
ToolSwitch(t) ==
    /\ tool' = [tool EXCEPT ![t] = ~tool[t]]
    /\ IF tool[t] THEN UNCHANGED since ELSE Enabled(t)
    /\ UNCHANGED <<row, debit, caches, requests, mishaps, misled>>

(* application-cache-ttl                                                   *)
Expire(a) == /\ cached[a] # Miss
             /\ Store(a, Miss)
             /\ UNCHANGED <<database, list, storing, requests, mishaps, trail>>
ExpireListNever ==  \* mutant: the list is cached without a duration
    FALSE /\ UNCHANGED vars
(* Likewise, or the removal that Get does not wait for takes effect.       *)
ExpireList == /\ list # <<>>
              /\ list' = <<>>
              /\ UNCHANGED <<database, cached, storing, requests, mishaps, trail>>

Call(r) == \/ ListCall(r)
           \/ \E a \in Apps : \/ StatusCall(r, a, "get") \/ StatusCall(r, a, "bust")
                              \/ OwnerCall(r, "enableDebit", a)
                              \/ OwnerCall(r, "disableDebit", a)
AppTask(r, a) == \/ Bust(r, a) \/ Get(r, a) \/ ReadRow(r, a) \/ Collect(r, a) \/ Fill(r, a)
                 \/ ListCollect(r, a) \/ EnableRow(r, a)
ToolTask(r, t) == ToolGet(r, t) \/ ToolSave(r, t)
Main(r) == \/ StatusAnswered(r) \/ ListGet(r) \/ ListFill(r)
           \/ EnableDebit(r) \/ IsSetUp(r) \/ NextStage(r) \/ DependenciesSetUp(r)
           \/ DependencyFailed(r) \/ SetupFailed(r) \/ Revert(r)
           \/ DisableDebit(r) \/ DisableRow(r)
Step(r) == \/ Main(r)
           \/ \E a \in Apps : AppTask(r, a)
           \/ \E t \in Tools : ToolTask(r, t)

Next == \/ \E r \in Requests :
             \/ Call(r) \/ Step(r) \/ Fails(r)
             \/ \E x \in Things : TaskFails(r, x)
        \/ \E p \in storing : Stored(p[1], p[2], p[3])
        \/ \E a \in Apps : DirectEnable(a) \/ DirectDisable(a) \/ Expire(a)
        \/ \E t \in Tools : ToolSwitch(t)
        \/ ExpireList

Spec == Init /\ [][Next]_vars

(* A request that is under way gets on, and cached items expire.           *)
FairSpec == /\ Spec
            /\ \A r \in Requests : WF_vars(Step(r))
            /\ \A a \in Apps : WF_vars(Expire(a))
            /\ WF_vars(ExpireList)
-----------------------------------------------------------------------------
TypeOK ==
    /\ row \in [Apps -> Rows]
    /\ debit \in [Apps -> BOOLEAN] /\ \A a \in Apps : debit[a] => a \in DebitApps
    /\ tool \in [Tools -> BOOLEAN]
    /\ cached \in [Apps -> HatApplication]
    /\ list = <<>> \/ list \in [Apps -> HatApplication]
    /\ storing \subseteq Requests \X Apps \X HatApplication
    /\ app \in [Requests -> Apps] /\ pc \in [Requests -> Mains]
    /\ at \in [Requests -> [Things -> Tasks]]
    /\ seen \in [Requests -> [Apps -> HatApplication]]
    /\ abandoned \subseteq Halfway /\ missed \subseteq Apps \X Columns /\ apart \subseteq Apps
    /\ since \subseteq Requests \X Things /\ misled \subseteq Requests \X Things
    /\ \A r \in Requests :
         /\ pc[r] = "idle" => app[r] = AnyApp
         /\ \A x \in Things : at[r][x] \in Ended => Awaited(r, x)
         /\ \A a \in Apps : seen[r][a] # Miss => at[r][a] \in Making \/ pc[r] = "listCollect"

(* A data debit shares data for an application that is not enabled only    *)
(* while the application is being set up, after a set-up that was lost     *)
(* half-way, or when the debit was enabled apart from the application: by  *)
(* itself, or by a set-up when a disabling was between debit and row.      *)
DebitFollowsStatus ==
    \A a \in Apps :
       debit[a] /\ row[a] # "enabled" =>
         \/ <<a, "enableRow">> \in abandoned
         \/ a \in apart
         \/ \E r \in Requests : pc[r] = "setup" /\ app[r] = a /\ at[r][a] = "enableRow"

(* With nothing under way, no cached status contradicts the database about *)
(* whether an application is set up and enabled: authorisation by          *)
(* ContainsApplicationRole trusts it.  Two things can leave one that does: *)
(* a change lost before it dropped the copies, and a change that came when *)
(* a request had read the row and its status was to be stored afterwards,  *)
(* by a call it waits for or by one that it does not.                      *)
Quiet == \A r \in Requests : Free(r)
CachesAgree ==
    Quiet => \A a \in Apps :
               \/ <<a, "renew">> \in abandoned \/ <<a, "row">> \in missed
               \/ /\ cached[a] # Miss => cached[a].row = row[a]
                  /\ list # <<>> => list[a].row = row[a]

(* A set-up that reports its dependencies set up found each of them enabled*)
(* or made it so since it began, whatever fails, goes on in parallel or is *)
(* disabled meanwhile; or it was misled by a cached copy that said so.     *)
DependenciesReady ==
    \A r \in Requests :
       Reported(r) /\ (\A x \in Dependencies[app[r]] : at[r][x] = "ready") =>
         \A x \in Dependencies[app[r]] : <<r, x>> \in since \cup misled

(* Whatever stale status the caches hold, they come to agree with a row    *)
(* that stays disabled.                                                    *)
TruthReturns ==
    \A a \in Apps :
       <>[](row[a] = "disabled") =>
          <>[](/\ cached[a] # Miss => cached[a].row = "disabled"
               /\ list # <<>> => list[a].row = "disabled")

(* With nothing under way, an application reported as active has an active *)
(* data debit ("Return active=false status for apps where data debit has   *)
(* been disabled", a test), unless copies of the status missed that it was *)
(* disabled (they were being made or stored, or it was disabled by itself  *)
(* or by a set-up that is undone), or a change was lost half-way.          *)
ActiveHasDebit ==
    Quiet => \A a \in DebitApps :
               \/ debit[a] \/ <<a, "debit">> \in missed
               \/ ({a} \X {"disableRow", "renew"}) \cap abandoned # {}
               \/ /\ cached[a] # Miss => ~cached[a].active
                  /\ list # <<>> => ~list[a].active
=============================================================================
