------------------------ MODULE Applications_proofs -------------------------
(***************************************************************************)
(* Proofs about Applications, for every set of applications, tools,        *)
(* dependencies and requests that overlap in any way.                      *)
(***************************************************************************)
EXTENDS Applications, TLAPS

(* The type invariant in two parts.                                        *)
DataOK ==
    /\ row \in [Apps -> Rows]
    /\ debit \in [Apps -> BOOLEAN] /\ \A a \in Apps : debit[a] => a \in DebitApps
    /\ tool \in [Tools -> BOOLEAN]
    /\ cached \in [Apps -> HatApplication]
    /\ list = <<>> \/ list \in [Apps -> HatApplication]
    /\ storing \subseteq Requests \X Apps \X HatApplication
    /\ abandoned \subseteq Halfway /\ missed \subseteq Apps \X Columns /\ apart \subseteq Apps
    /\ since \subseteq Requests \X Things /\ misled \subseteq Requests \X Things
ControlOK ==
    /\ app \in [Requests -> Apps] /\ pc \in [Requests -> Mains]
    /\ at \in [Requests -> [Things -> Tasks]]
    /\ seen \in [Requests -> [Apps -> HatApplication]]
    /\ \A r \in Requests :
         /\ pc[r] = "idle" => app[r] = AnyApp
         /\ \A x \in Things : at[r][x] \in Ended => Awaited(r, x)
         /\ \A a \in Apps : seen[r][a] # Miss => at[r][a] \in Making \/ pc[r] = "listCollect"

(* What a request at a step of its own has no tasks for.                   *)
Alone == {"enableDebit", "revert", "disableDebit", "disableRow", "listGet"}
Orderly ==
    \A r \in Requests, x \in Things :
      \/ pc[r] \in Alone
      \/ pc[r] = "setup" /\ x # app[r]
      \/ pc[r] \in Stages /\ x = app[r]
      => at[r][x] = "none"
TInv == DataOK /\ ControlOK /\ Orderly

LEMMA TypeParts == TypeOK <=> DataOK /\ ControlOK
BY DEF TypeOK, DataOK, ControlOK

LEMMA AnyAppOK == AnyApp \in Apps
BY ConstantsAssumption DEF AnyApp

LEMMA AppThings == Apps \subseteq Things /\ Tools \subseteq Things
BY DEF Things

LEMMA StatusTypes ==
  /\ Miss \in HatApplication
  /\ \A x \in Rows : OfRow(x) \in HatApplication
BY DEF Miss, OfRow, HatApplication, Rows

(* What is collected has the row it was collected for.                     *)
LEMMA CollectedType ==
  ASSUME DataOK, NEW x \in Rows, NEW a \in Apps, NEW s \in Collected(x, a)
  PROVE  /\ s \in HatApplication /\ s.row = x
         /\ a \in DebitApps /\ s.active => debit[a]
<1>1. \A b \in BOOLEAN, c \in BOOLEAN : [row |-> x, active |-> b, certain |-> c] \in HatApplication
  BY DEF HatApplication
<1>2. (debit[a] \/ a \notin DebitApps) \in BOOLEAN
  BY Zenon
<1>3. s \in HatApplication
  BY <1>1, <1>2 DEF Collected, OfRow
<1>4. s.row = x
  BY DEF Collected, OfRow
<1>5. a \in DebitApps /\ s.active => debit[a]
  BY DEF Collected, OfRow, DataOK
<1> QED
  BY <1>3, <1>4, <1>5

LEMMA StoringParts ==
  ASSUME DataOK, NEW p \in storing
  PROVE  /\ p[1] \in Requests /\ p[2] \in Apps /\ p[3] \in HatApplication
         /\ p = <<p[1], p[2], p[3]>>
BY DEF DataOK
LEMMA SeesIs ==
  ASSUME ControlOK, NEW r \in Requests, NEW a \in Apps, NEW s, Sees(r, a, s)
  PROVE  \A q \in Requests, b \in Apps :
            seen'[q][b] = IF q = r /\ b = a THEN s ELSE seen[q][b]
<1>1. \A q \in Requests : q # r => seen'[q] = seen[q]
  BY DEF Sees, ControlOK
<1>2. seen'[r] = [seen[r] EXCEPT ![a] = s] /\ seen[r] \in [Apps -> HatApplication]
  BY DEF Sees, ControlOK
<1> QED
  BY <1>1, <1>2
-----------------------------------------------------------------------------
(* A task gets on.                                                         *)
LEMMA TaskKeeps ==
  ASSUME ControlOK, Orderly, NEW r \in Requests, NEW x \in Things, NEW step \in Tasks,
         at[r][x] # "none", Task(r, x, step), UNCHANGED <<app, pc>>,
         step \in Ended => Awaited(r, x),
         seen' \in [Requests -> [Apps -> HatApplication]],
         \A q \in Requests, a \in Apps :
           seen'[q][a] # Miss => \/ q = r /\ a = x /\ (step \in Making \/ pc[r] = "listCollect")
                                 \/ (q # r \/ a # x) /\ seen[q][a] # Miss
  PROVE  ControlOK' /\ Orderly'
<1>1. /\ at' \in [Requests -> [Things -> Tasks]]
      /\ at'[r][x] = step
      /\ \A q \in Requests, y \in Things : q # r \/ y # x => at'[q][y] = at[q][y]
  BY DEF ControlOK, Task
<1>2. \A q \in Requests, y \in Things : Awaited(q, y)' = Awaited(q, y)
  BY DEF Awaited
<1>3. Orderly'
  BY <1>1 DEF Orderly
<1>4. ASSUME NEW q \in Requests
      PROVE  /\ pc'[q] = "idle" => app'[q] = AnyApp
             /\ \A y \in Things : at'[q][y] \in Ended => Awaited(q, y)'
             /\ \A a \in Apps : seen'[q][a] # Miss => at'[q][a] \in Making \/ pc'[q] = "listCollect"
  <2>1. pc'[q] = "idle" => app'[q] = AnyApp
    BY DEF ControlOK
  <2>2. \A y \in Things : at'[q][y] \in Ended => Awaited(q, y)'
    BY <1>1, <1>2 DEF ControlOK
  <2>3. \A a \in Apps : seen'[q][a] # Miss => at'[q][a] \in Making \/ pc'[q] = "listCollect"
    BY <1>1, AppThings DEF ControlOK
  <2> QED
    BY <2>1, <2>2, <2>3
<1> QED
  BY <1>1, <1>3, <1>4 DEF ControlOK

(* A task gets on that makes no status.                                    *)
LEMMA TaskGoes ==
  ASSUME ControlOK, Orderly, NEW r \in Requests, NEW x \in Things, NEW step \in Tasks,
         at[r][x] # "none", at[r][x] \notin Making, Task(r, x, step), UNCHANGED <<app, pc, seen>>,
         step \in Ended => Awaited(r, x)
  PROVE  ControlOK' /\ Orderly'
<1>1. seen' \in [Requests -> [Apps -> HatApplication]]
  BY DEF ControlOK
<1>2. \A q \in Requests, a \in Apps :
        seen'[q][a] # Miss => \/ q = r /\ a = x /\ (step \in Making \/ pc[r] = "listCollect")
                              \/ (q # r \/ a # x) /\ seen[q][a] # Miss
  BY DEF ControlOK
<1> QED
  BY <1>1, <1>2, TaskKeeps

(* A request ends.                                                         *)
LEMMA EndKeeps ==
  ASSUME ControlOK, Orderly, NEW r \in Requests, End(r)
  PROVE  ControlOK' /\ Orderly'
<1>1. /\ app' \in [Requests -> Apps] /\ pc' \in [Requests -> Mains]
      /\ at' \in [Requests -> [Things -> Tasks]]
      /\ pc'[r] = "idle" /\ app'[r] = AnyApp
      /\ \A x \in Things : at'[r][x] = IF at[r][x] \in Ended THEN "none" ELSE at[r][x]
      /\ \A q \in Requests : q # r => app'[q] = app[q] /\ pc'[q] = pc[q] /\ at'[q] = at[q]
  BY AnyAppOK DEF End, Goto, Without, ControlOK, Mains, Tasks
<1>2. /\ seen' \in [Requests -> [Apps -> HatApplication]]
      /\ \A a \in Apps : seen'[r][a] = IF at[r][a] \in Making THEN seen[r][a] ELSE Miss
      /\ \A q \in Requests : q # r => seen'[q] = seen[q]
  BY StatusTypes, AppThings DEF End, ControlOK
<1>3. Orderly'
  BY <1>1 DEF Orderly, Alone, Stages
<1>4. ASSUME NEW q \in Requests
      PROVE  /\ pc'[q] = "idle" => app'[q] = AnyApp
             /\ \A y \in Things : at'[q][y] \in Ended => Awaited(q, y)'
             /\ \A a \in Apps : seen'[q][a] # Miss => at'[q][a] \in Making \/ pc'[q] = "listCollect"
  <2>1. pc'[q] = "idle" => app'[q] = AnyApp
    BY <1>1 DEF ControlOK
  <2>2. \A y \in Things : at'[q][y] \in Ended => Awaited(q, y)'
    BY <1>1 DEF ControlOK, Awaited, Ended
  <2>3. ASSUME NEW a \in Apps, seen'[q][a] # Miss
        PROVE  at'[q][a] \in Making \/ pc'[q] = "listCollect"
    <3>1. CASE q = r
      <4>1. at[r][a] \in Making
        BY <1>2, <2>3, <3>1
      <4>2. at'[r][a] = at[r][a]
        BY <1>1, <4>1, AppThings DEF Making, Ended
      <4> QED
        BY <3>1, <4>1, <4>2
    <3>2. CASE q # r
      BY <1>1, <1>2, <2>3, <3>2 DEF ControlOK
    <3> QED
      BY <3>1, <3>2
  <2> QED
    BY <2>1, <2>2, <2>3
<1> QED
  BY <1>1, <1>2, <1>3, <1>4 DEF ControlOK

(* A request goes from one step of its own to another.                     *)
LEMMA GoKeeps ==
  ASSUME ControlOK, Orderly, NEW r \in Requests, NEW main \in Mains \ {"idle"},
         NEW a \in Apps, NEW step \in Tasks \ Ended,
         Goto(r, main), app' = [app EXCEPT ![r] = a], Task(r, a, step), UNCHANGED seen,
         \A x \in Things : x # a => at[r][x] = "none", at[r][a] \notin Making,
         pc[r] # "listCollect",
         main \in Alone \cup Stages => step = "none"
  PROVE  ControlOK' /\ Orderly'
<1>1. /\ app' \in [Requests -> Apps] /\ pc' \in [Requests -> Mains]
      /\ at' \in [Requests -> [Things -> Tasks]]
      /\ pc'[r] = main /\ app'[r] = a /\ at'[r][a] = step
      /\ \A x \in Things : x # a => at'[r][x] = "none"
      /\ \A q \in Requests : q # r => app'[q] = app[q] /\ pc'[q] = pc[q] /\ at'[q] = at[q]
  BY AppThings DEF Goto, Task, ControlOK
<1>2. Orderly'
  BY <1>1 DEF Orderly, Alone, Stages
<1>3. ASSUME NEW q \in Requests
      PROVE  /\ pc'[q] = "idle" => app'[q] = AnyApp
             /\ \A y \in Things : at'[q][y] \in Ended => Awaited(q, y)'
             /\ \A b \in Apps : seen'[q][b] # Miss => at'[q][b] \in Making \/ pc'[q] = "listCollect"
  <2>1. pc'[q] = "idle" => app'[q] = AnyApp
    BY <1>1 DEF ControlOK
  <2>2. \A y \in Things : at'[q][y] \in Ended => Awaited(q, y)'
    BY <1>1 DEF ControlOK, Awaited, Ended
  <2>3. \A b \in Apps : seen'[q][b] # Miss => at'[q][b] \in Making \/ pc'[q] = "listCollect"
    BY <1>1, AppThings DEF ControlOK, Making, Ended
  <2> QED
    BY <2>1, <2>2, <2>3
<1> QED
  BY <1>1, <1>2, <1>3 DEF ControlOK
-----------------------------------------------------------------------------
(* Every step keeps the requests in order.                                 *)
LEMMA ControlStep ==
  ASSUME TInv, [Next]_vars
  PROVE  ControlOK' /\ Orderly'
<1> USE DEF TInv
<1>1. ASSUME NEW r \in Requests, NEW a \in Apps, Bust(r, a)
      PROVE  ControlOK' /\ Orderly'
  BY <1>1, TaskGoes, AppThings DEF Bust, Tasks, Running, Making, Ended
<1>2. ASSUME NEW r \in Requests, NEW a \in Apps, Get(r, a)
      PROVE  ControlOK' /\ Orderly'
  <2>1. PICK step \in Tasks : Task(r, a, step) /\ (step \in Ended => Awaited(r, a))
    BY <1>2 DEF Get, Finish, Result, Tasks, Running, Ended
  <2> QED
    BY <1>2, <2>1, TaskGoes, AppThings DEF Get, Making
<1>3. ASSUME NEW r \in Requests, NEW a \in Apps, ReadRow(r, a)
      PROVE  ControlOK' /\ Orderly'
  <2>1. seen' \in [Requests -> [Apps -> HatApplication]]
    BY <1>3, StatusTypes DEF ReadRow, Sees, ControlOK, DataOK
  <2> QED
    <3>1. /\ at[r][a] # "none" /\ Task(r, a, "collect") /\ UNCHANGED <<app, pc>> /\ a \in Things
          /\ "collect" \in Tasks /\ "collect" \notin Ended
      BY <1>3, AppThings DEF ReadRow, Tasks, Running, Making, Ended
    <3>2. \A q \in Requests, b \in Apps :
            seen'[q][b] # Miss => \/ q = r /\ b = a /\ ("collect" \in Making \/ pc[r] = "listCollect")
                                  \/ (q # r \/ b # a) /\ seen[q][b] # Miss
      <4>1. PICK v : Sees(r, a, v)
        BY <1>3 DEF ReadRow
      <4> QED
        <5>1. \A q \in Requests, b \in Apps :
                 seen'[q][b] = IF q = r /\ b = a THEN v ELSE seen[q][b]
          BY <4>1, SeesIs
        <5> QED
          BY <4>1, <5>1 DEF Making
    <3> QED
      BY <3>1, <3>2, <2>1, TaskKeeps
<1>4. ASSUME NEW r \in Requests, NEW a \in Apps, Collect(r, a)
      PROVE  ControlOK' /\ Orderly'
  <2>1. PICK s \in Collected(seen[r][a].row, a) : Sees(r, a, s)
    BY <1>4 DEF Collect
  <2>2. seen[r][a].row \in Rows
    BY DEF ControlOK, HatApplication
  <2>3. seen' \in [Requests -> [Apps -> HatApplication]]
    BY <2>1, <2>2, CollectedType DEF Sees, ControlOK
  <2> QED
    <3>1. /\ at[r][a] # "none" /\ Task(r, a, "fill") /\ UNCHANGED <<app, pc>> /\ a \in Things
          /\ "fill" \in Tasks /\ "fill" \notin Ended
      BY <1>4, AppThings DEF Collect, Tasks, Running, Making, Ended
    <3>2. \A q \in Requests, b \in Apps :
            seen'[q][b] # Miss => \/ q = r /\ b = a /\ ("fill" \in Making \/ pc[r] = "listCollect")
                                  \/ (q # r \/ b # a) /\ seen[q][b] # Miss
      <4>1. PICK v : Sees(r, a, v)
        BY <2>1 DEF Collect
      <4> QED
        <5>1. \A q \in Requests, b \in Apps :
                 seen'[q][b] = IF q = r /\ b = a THEN v ELSE seen[q][b]
          BY <4>1, SeesIs
        <5> QED
          BY <4>1, <5>1 DEF Making
    <3> QED
      BY <3>1, <3>2, <2>3, TaskKeeps
<1>5. ASSUME NEW r \in Requests, NEW a \in Apps, Fill(r, a)
      PROVE  ControlOK' /\ Orderly'
  <2>1. PICK step \in Tasks : Task(r, a, step) /\ (step \in Ended => Awaited(r, a))
    BY <1>5 DEF Fill, Finish, Result, Tasks, Running, Ended
  <2>2. seen' \in [Requests -> [Apps -> HatApplication]]
    BY <1>5, StatusTypes DEF Fill, Sees, ControlOK
  <2> QED
    <3>1. /\ \A q \in Requests, b \in Apps :
               seen'[q][b] = IF q = r /\ b = a THEN Miss ELSE seen[q][b]
          /\ at[r][a] # "none" /\ UNCHANGED <<app, pc>>
      BY <1>5, SeesIs DEF Fill
    <3>2. \A q \in Requests, b \in Apps :
            seen'[q][b] # Miss => (q # r \/ b # a) /\ seen[q][b] # Miss
      BY <3>1
    <3> QED
      BY <2>1, <2>2, <3>1, <3>2, TaskKeeps, AppThings
<1>6. ASSUME NEW r \in Requests, NEW a \in Apps, ListCollect(r, a)
      PROVE  ControlOK' /\ Orderly'
  <2>1. PICK s \in Collected(seen[r][a].row, a) :
           Sees(r, a, IF pc[r] = "listCollect" THEN s ELSE Miss)
    BY <1>6 DEF ListCollect
  <2>2. seen[r][a].row \in Rows
    BY DEF ControlOK, HatApplication
  <2>3. seen' \in [Requests -> [Apps -> HatApplication]]
    BY <2>1, <2>2, CollectedType, StatusTypes DEF Sees, ControlOK
  <2> QED
    <3>1. /\ at[r][a] # "none" /\ Task(r, a, "none") /\ UNCHANGED <<app, pc>> /\ a \in Things
          /\ "none" \in Tasks /\ "none" \notin Ended
      BY <1>6, AppThings DEF ListCollect, Tasks, Running, Making, Ended
    <3>2. \A q \in Requests, b \in Apps :
            seen'[q][b] # Miss => \/ q = r /\ b = a /\ ("none" \in Making \/ pc[r] = "listCollect")
                                  \/ (q # r \/ b # a) /\ seen[q][b] # Miss
      <4>1. PICK v : Sees(r, a, v) /\ (v # Miss => pc[r] = "listCollect")
        BY <2>1
      <4> QED
        <5>1. \A q \in Requests, b \in Apps :
                 seen'[q][b] = IF q = r /\ b = a THEN v ELSE seen[q][b]
          BY <4>1, SeesIs
        <5> QED
          BY <4>1, <5>1 DEF Making
    <3> QED
      BY <3>1, <3>2, <2>3, TaskKeeps
<1>7. ASSUME NEW r \in Requests, NEW a \in Apps, EnableRow(r, a)
      PROVE  ControlOK' /\ Orderly'
  BY <1>7, TaskGoes, AppThings DEF EnableRow, Tasks, Running, Making, Ended
<1>8. ASSUME NEW r \in Requests, NEW t \in Tools, ToolGet(r, t)
      PROVE  ControlOK' /\ Orderly'
  <2>1. PICK step \in Tasks : Task(r, t, step) /\ (step \in Ended => Awaited(r, t))
    BY <1>8 DEF ToolGet, Finish, Tasks, Running, Ended
  <2> QED
    BY <1>8, <2>1, TaskGoes, AppThings DEF ToolGet, Making
<1>9. ASSUME NEW r \in Requests, NEW t \in Tools, ToolSave(r, t)
      PROVE  ControlOK' /\ Orderly'
  BY <1>9, TaskGoes, AppThings DEF ToolSave, Tasks, Running, Making, Ended
<1>10. ASSUME NEW r \in Requests, StatusAnswered(r) \/ ListFill(r) \/ DependenciesSetUp(r)
              \/ Revert(r) \/ Fails(r)
      PROVE  ControlOK' /\ Orderly'
  BY <1>10, EndKeeps DEF StatusAnswered, ListFill, DependenciesSetUp, Revert, Fails
<1>11. ASSUME NEW r \in Requests, ListGet(r)
      PROVE  ControlOK' /\ Orderly'
  <2>1. CASE End(r)
    BY <2>1, EndKeeps
  <2>2. CASE ~End(r)
    <3>1. /\ Goto(r, "listCollect") /\ UNCHANGED app
          /\ at' = [at EXCEPT ![r] = [x \in Things |-> IF x \in Apps THEN "gather" ELSE "none"]]
          /\ seen' = [seen EXCEPT ![r] = [a \in Apps |-> OfRow(row[a])]]
      BY <1>11, <2>2 DEF ListGet
    <3>2. at' \in [Requests -> [Things -> Tasks]]
      BY <3>1 DEF ControlOK, Tasks, Running, Making
    <3>3. seen' \in [Requests -> [Apps -> HatApplication]]
      BY <3>1, StatusTypes DEF ControlOK, DataOK
    <3>4. /\ pc' \in [Requests -> Mains] /\ pc'[r] = "listCollect"
          /\ \A x \in Things : at'[r][x] \notin Ended
          /\ \A q \in Requests : q # r => pc'[q] = pc[q] /\ at'[q] = at[q] /\ seen'[q] = seen[q]
      BY <3>1 DEF Goto, ControlOK, Mains, Ended
    <3>5. Orderly'
      BY <3>1, <3>4 DEF Orderly, Alone, Stages
    <3> QED
      BY <3>1, <3>2, <3>3, <3>4, <3>5 DEF ControlOK, Awaited
  <2> QED
    BY <2>1, <2>2
<1>12. ASSUME NEW r \in Requests, EnableDebit(r)
      PROVE  ControlOK' /\ Orderly'
  <2>1. app' = [app EXCEPT ![r] = app[r]] /\ app[r] \in Apps
    BY <1>12 DEF EnableDebit, ControlOK
  <2>2. \A x \in Things : at[r][x] = "none"
    BY <1>12 DEF EnableDebit, Orderly, Alone
  <2> QED
    BY <1>12, <2>1, <2>2, GoKeeps, AppThings
    DEF EnableDebit, Mains, SettingUp, Stages, Tasks, Running, Making, Ended, Alone
<1>13. ASSUME NEW r \in Requests, IsSetUp(r)
      PROVE  ControlOK' /\ Orderly'
  <2>1. CASE End(r)
    BY <2>1, EndKeeps
  <2>2. CASE ~End(r)
    <3>1. /\ Goto(r, "check") /\ UNCHANGED <<app, seen>> /\ pc[r] = "setup"
          /\ at' = [at EXCEPT ![r] = [x \in Things |->
                       IF x \in Dependencies[app[r]] \cap Apps THEN "get" ELSE "none"]]
          /\ at[r][app[r]] \in {"ready", "unready"}
      BY <1>13, <2>2 DEF IsSetUp
    <3>2. at' \in [Requests -> [Things -> Tasks]]
      BY <3>1 DEF ControlOK, Tasks, Running
    <3>3. \A a \in Apps : seen[r][a] = Miss
      BY <3>1, AppThings DEF ControlOK, Orderly, Making
    <3>4. /\ pc' \in [Requests -> Mains] /\ pc'[r] = "check"
          /\ \A x \in Things : at'[r][x] \notin Ended
          /\ \A q \in Requests : q # r => pc'[q] = pc[q] /\ at'[q] = at[q]
      BY <3>1 DEF Goto, ControlOK, Mains, SettingUp, Stages, Ended
    <3>5. app[r] \in Things /\ app[r] \notin Dependencies[app[r]] /\ at'[r][app[r]] = "none"
      BY <3>1, AppThings, ConstantsAssumption DEF ControlOK
    <3>6. Orderly'
      BY <3>1, <3>4, <3>5 DEF Orderly, Alone, Stages
    <3> QED
      BY <3>1, <3>2, <3>3, <3>4, <3>6 DEF ControlOK, Awaited
  <2> QED
    BY <2>1, <2>2
<1>14. ASSUME NEW r \in Requests, NextStage(r)
      PROVE  ControlOK' /\ Orderly'
  <2>1. PICK things \in {Apps, Tools}, from \in {"unready", "none"},
             step \in {"enableRow", "toolGet", "toolSave"}, main \in Stages :
               Begin(r, things, from, step) /\ Goto(r, main) /\ pc[r] \in Stages
    BY <1>14 DEF NextStage, Stages
  <2>2. /\ UNCHANGED <<app, seen>> /\ pc' \in [Requests -> Mains] /\ pc'[r] \in Stages
        /\ \A q \in Requests : q # r => pc'[q] = pc[q] /\ at'[q] = at[q]
    BY <1>14, <2>1 DEF NextStage, Goto, Begin, ControlOK, Mains, SettingUp
  <2>3. /\ at' \in [Requests -> [Things -> Tasks]]
        /\ \A x \in Things : \/ at'[r][x] = at[r][x]
                             \/ /\ x \in Dependencies[app[r]] /\ at[r][x] = from
                                /\ at'[r][x] = step
    BY <2>1 DEF Begin, ControlOK, Tasks, Running
  <2>4. app[r] \notin Dependencies[app[r]]
    BY ConstantsAssumption DEF ControlOK
  <2>5. Orderly'
    BY <2>1, <2>2, <2>3, <2>4 DEF Orderly, Alone, Stages
  <2>6. ASSUME NEW q \in Requests
        PROVE  /\ pc'[q] = "idle" => app'[q] = AnyApp
               /\ \A y \in Things : at'[q][y] \in Ended => Awaited(q, y)'
               /\ \A a \in Apps : seen'[q][a] # Miss => at'[q][a] \in Making \/ pc'[q] = "listCollect"
    <3>1. pc'[q] = "idle" => app'[q] = AnyApp
      BY <2>1, <2>2 DEF ControlOK, Stages
    <3>2. \A y \in Things : at'[q][y] \in Ended => Awaited(q, y)'
      BY <2>1, <2>2, <2>3 DEF ControlOK, Awaited, Ended, Stages
    <3>3. \A a \in Apps : seen'[q][a] # Miss => at'[q][a] \in Making \/ pc'[q] = "listCollect"
      BY <2>1, <2>2, <2>3, AppThings DEF ControlOK, Making, Stages
    <3> QED
      BY <3>1, <3>2, <3>3
  <2> QED
    BY <2>2, <2>3, <2>5, <2>6 DEF ControlOK
<1>15. ASSUME NEW r \in Requests, DependencyFailed(r)
      PROVE  ControlOK' /\ Orderly'
  <2>1. /\ pc[r] \in Stages /\ Goto(r, "status") /\ UNCHANGED <<app, seen>>
        /\ at' = [at EXCEPT ![r] = [Without(r) EXCEPT ![app[r]] = "bust"]]
    BY <1>15 DEF DependencyFailed
  <2>2. app[r] \in Things /\ at[r][app[r]] = "none"
    BY <2>1, AppThings DEF Orderly, ControlOK
  <2>3. /\ pc' \in [Requests -> Mains] /\ pc'[r] = "status"
        /\ at' \in [Requests -> [Things -> Tasks]]
        /\ \A x \in Things : x # app[r] =>
              at'[r][x] = IF at[r][x] \in Ended THEN "none" ELSE at[r][x]
        /\ at'[r][app[r]] = "bust"
        /\ \A q \in Requests : q # r => pc'[q] = pc[q] /\ at'[q] = at[q]
    BY <2>1, <2>2 DEF Goto, Without, ControlOK, Mains, Tasks, Running
  <2>4. Orderly'
    BY <2>1, <2>3 DEF Orderly, Alone, Stages
  <2>5. ASSUME NEW q \in Requests
        PROVE  /\ pc'[q] = "idle" => app'[q] = AnyApp
               /\ \A y \in Things : at'[q][y] \in Ended => Awaited(q, y)'
               /\ \A a \in Apps : seen'[q][a] # Miss => at'[q][a] \in Making \/ pc'[q] = "listCollect"
    <3>1. pc'[q] = "idle" => app'[q] = AnyApp
      BY <2>1, <2>3 DEF ControlOK
    <3>2. \A y \in Things : at'[q][y] \in Ended => Awaited(q, y)'
      BY <2>1, <2>2, <2>3 DEF ControlOK, Awaited, Ended
    <3>3. ASSUME NEW a \in Apps, seen'[q][a] # Miss
          PROVE  at'[q][a] \in Making \/ pc'[q] = "listCollect"
      <4>1. CASE q = r
        <5>1. at[r][a] \in Making
          BY <2>1, <3>3, <4>1 DEF ControlOK, Stages
        <5>2. at'[r][a] = at[r][a]
          BY <2>2, <2>3, <5>1, AppThings DEF Making, Ended
        <5> QED
          BY <4>1, <5>1, <5>2
      <4>2. CASE q # r
        BY <2>1, <2>3, <3>3, <4>2 DEF ControlOK
      <4> QED
        BY <4>1, <4>2
    <3> QED
      BY <3>1, <3>2, <3>3
  <2> QED
    BY <2>1, <2>3, <2>4, <2>5 DEF ControlOK
<1>16. ASSUME NEW r \in Requests, SetupFailed(r)
      PROVE  ControlOK' /\ Orderly'
  <2>1. app' = [app EXCEPT ![r] = app[r]] /\ app[r] \in Apps
    BY <1>16 DEF SetupFailed, ControlOK
  <2>2. \A x \in Things : x # app[r] => at[r][x] = "none"
    BY <1>16 DEF SetupFailed, Orderly
  <2> QED
    BY <1>16, <2>1, <2>2, GoKeeps
    DEF SetupFailed, Mains, SettingUp, Tasks, Running, Making, Ended
<1>17. ASSUME NEW r \in Requests, DisableDebit(r)
      PROVE  ControlOK' /\ Orderly'
  <2>1. app' = [app EXCEPT ![r] = app[r]] /\ app[r] \in Apps
    BY <1>17 DEF DisableDebit, ControlOK
  <2>2. \A x \in Things : at[r][x] = "none"
    BY <1>17 DEF DisableDebit, Orderly, Alone
  <2>3. Task(r, app[r], "none")
    BY <1>17, <2>1, <2>2, AppThings DEF DisableDebit, Task, ControlOK
  <2> QED
    BY <1>17, <2>1, <2>2, <2>3, GoKeeps, AppThings
    DEF DisableDebit, Mains, Tasks, Running, Making, Ended
<1>18. ASSUME NEW r \in Requests, DisableRow(r)
      PROVE  ControlOK' /\ Orderly'
  <2>1. app' = [app EXCEPT ![r] = app[r]] /\ app[r] \in Apps
    BY <1>18 DEF DisableRow, ControlOK
  <2>2. \A x \in Things : at[r][x] = "none"
    BY <1>18 DEF DisableRow, Orderly, Alone
  <2> QED
    BY <1>18, <2>1, <2>2, GoKeeps, AppThings
    DEF DisableRow, Mains, Tasks, Running, Making, Ended, Alone, Stages
<1>19. ASSUME NEW r \in Requests, ListCall(r)
      PROVE  ControlOK' /\ Orderly'
  <2>1. app' = [app EXCEPT ![r] = app[r]] /\ app[r] \in Apps
    BY <1>19 DEF ListCall, ControlOK
  <2>2. \A x \in Things : at[r][x] = "none"
    BY <1>19 DEF ListCall, Free, NoTasks
  <2>3. Task(r, app[r], "none")
    BY <1>19, <2>1, <2>2, AppThings DEF ListCall, Task, ControlOK
  <2> QED
    BY <1>19, <2>1, <2>2, <2>3, GoKeeps, AppThings
    DEF ListCall, Free, Mains, Tasks, Running, Making, Ended
<1>20. ASSUME NEW r \in Requests, NEW a \in Apps, NEW step \in {"get", "bust"}, StatusCall(r, a, step)
      PROVE  ControlOK' /\ Orderly'
  <2>2. \A x \in Things : at[r][x] = "none"
    BY <1>20 DEF StatusCall, Free, NoTasks
  <2> QED
    BY <1>20, <2>2, GoKeeps, AppThings
    DEF StatusCall, Free, Mains, Tasks, Running, Making, Ended, Alone, Stages
<1>21. ASSUME NEW r \in Requests, NEW a \in Apps, NEW main \in {"enableDebit", "disableDebit"}, OwnerCall(r, main, a)
      PROVE  ControlOK' /\ Orderly'
  <2>2. \A x \in Things : at[r][x] = "none"
    BY <1>21 DEF OwnerCall, Free, NoTasks
  <2>3. Task(r, a, "none")
    BY <1>21, <2>2, AppThings DEF OwnerCall, Task, ControlOK
  <2> QED
    BY <1>21, <2>2, <2>3, GoKeeps, AppThings
    DEF OwnerCall, Free, Mains, SettingUp, Tasks, Running, Making, Ended, Alone, Stages
<1>22. ASSUME NEW r \in Requests, NEW x \in Things, TaskFails(r, x)
      PROVE  ControlOK' /\ Orderly'
  <2>1. PICK step \in {"failed", "none"} : Task(r, x, step) /\ (step \in Ended => Awaited(r, x))
    BY <1>22 DEF TaskFails, Finish, Ended
  <2>2. /\ seen' \in [Requests -> [Apps -> HatApplication]]
        /\ \A b \in Apps : seen'[r][b] = IF b = x THEN Miss ELSE seen[r][b]
        /\ \A q \in Requests : q # r => seen'[q] = seen[q]
    BY <1>22, StatusTypes DEF TaskFails, ControlOK
  <2> QED
    BY <1>22, <2>1, <2>2, TaskKeeps DEF TaskFails, Tasks, Running, Making, Ended
<1>23. ASSUME NEW r \in Requests, NEW a \in Apps, NEW s \in HatApplication, Stored(r, a, s)
      PROVE  ControlOK' /\ Orderly'
  BY <1>23 DEF Stored, requests, ControlOK, Orderly, Awaited
<1>24. ASSUME NEW a \in Apps, DirectEnable(a) \/ DirectDisable(a) \/ Expire(a)
      PROVE  ControlOK' /\ Orderly'
  BY <1>24 DEF DirectEnable, DirectDisable, Expire, requests, ControlOK, Orderly, Awaited
<1>25. ASSUME NEW t \in Tools, ToolSwitch(t)
      PROVE  ControlOK' /\ Orderly'
  BY <1>25 DEF ToolSwitch, requests, ControlOK, Orderly, Awaited
<1>26. CASE ExpireList \/ UNCHANGED vars
  BY <1>26 DEF ExpireList, vars, requests, ControlOK, Orderly, Awaited
<1>27. ASSUME NEW p \in storing, Stored(p[1], p[2], p[3])
      PROVE  ControlOK' /\ Orderly'
  <2>1. p[1] \in Requests /\ p[2] \in Apps /\ p[3] \in HatApplication
    BY StoringParts DEF TInv
  <2> QED
    BY <1>27, <1>23, <2>1
<1> QED
  BY <1>1, <1>2, <1>3, <1>4, <1>5, <1>6, <1>7, <1>8, <1>9, <1>10, <1>11, <1>12, <1>13,
     <1>14, <1>15, <1>16, <1>17, <1>18, <1>19, <1>20, <1>21, <1>22, <1>23, <1>24,
     <1>25, <1>26, <1>27
     DEF Next, Call, Step, AppTask, ToolTask, Main
-----------------------------------------------------------------------------
LEMMA DisablesType ==
  ASSUME DataOK, NEW a \in Apps, NEW copies, DisableDebitOf(a, copies)
  PROVE  /\ debit' \in [Apps -> BOOLEAN] /\ \A b \in Apps : debit'[b] => debit[b]
         /\ abandoned' \subseteq Halfway /\ missed' \subseteq Apps \X Columns /\ apart' \subseteq Apps
<1>1. debit' \in [Apps -> BOOLEAN] /\ \A b \in Apps : debit'[b] => debit[b]
  BY DEF DisableDebitOf, DataOK
<1>2. <<a, "debit">> \in Apps \X Columns
  BY DEF Columns
<1>3. abandoned' \subseteq Halfway /\ missed' \subseteq Apps \X Columns /\ apart' \subseteq Apps
  BY <1>2 DEF DisableDebitOf, Missing, DataOK
<1> QED
  BY <1>1, <1>3

LEMMA MissingType ==
  ASSUME DataOK, NEW a \in Apps, NEW copies, Missing(a, "row", copies)
  PROVE  missed' \subseteq Apps \X Columns
<1>1. <<a, "row">> \in Apps \X Columns
  BY DEF Columns
<1> QED
  BY <1>1 DEF Missing, DataOK
LEMMA ForgetsType ==
  ASSUME DataOK, NEW r \in Requests, Forgets(r)
  PROVE  since' \subseteq Requests \X Things /\ misled' \subseteq Requests \X Things
BY DEF DataOK, Forgets

LEMMA EnabledType ==
  ASSUME DataOK, NEW x \in Things, Enabled(x)
  PROVE  since' \subseteq Requests \X Things
<1>1. \A r \in Requests : <<r, x>> \in Requests \X Things
  OBVIOUS
<1> QED
  BY <1>1 DEF DataOK, Enabled

LEMMA RefetchType ==
  ASSUME DataOK, NEW r \in Requests, NEW a \in Apps, NEW s \in HatApplication, Refetch(r, a, s)
  PROVE  storing' \subseteq Requests \X Apps \X HatApplication
<1>1. <<r, a, s>> \in Requests \X Apps \X HatApplication
  OBVIOUS
<1> QED
  BY <1>1 DEF Refetch, DataOK

(* Every step keeps the types of the tables, the caches and the histories. *)
LEMMA DataStep ==
  ASSUME TInv, [Next]_vars
  PROVE  DataOK'
<1> USE DEF TInv
<1>1. ASSUME NEW r \in Requests, NEW a \in Apps, Bust(r, a)
      PROVE  DataOK'
  BY <1>1, StatusTypes DEF Bust, Store, DataOK, database, trail
<1>2. ASSUME NEW r \in Requests, NEW a \in Apps, Get(r, a)
      PROVE  DataOK'
  <2>1. <<r, a>> \in Requests \X Things
    BY AppThings
  <2> QED
    BY <1>2, <2>1 DEF Get, DataOK, database, caches, mishaps
<1>3. ASSUME NEW r \in Requests, NEW a \in Apps, ReadRow(r, a)
      PROVE  DataOK'
  BY <1>3 DEF ReadRow, DataOK, database, caches, mishaps, trail
<1>4. ASSUME NEW r \in Requests, NEW a \in Apps, Collect(r, a) \/ ListCollect(r, a)
      PROVE  DataOK'
  <2>1. PICK s \in Collected(seen[r][a].row, a) : Refetch(r, a, s)
    BY <1>4 DEF Collect, ListCollect
  <2>2. seen[r][a].row \in Rows
    BY DEF ControlOK, HatApplication
  <2>3. storing' \subseteq Requests \X Apps \X HatApplication
    BY <2>1, <2>2, CollectedType, RefetchType
  <2> QED
    BY <1>4, <2>3 DEF Collect, ListCollect, DataOK, database, mishaps, trail
<1>5. ASSUME NEW r \in Requests, NEW a \in Apps, Fill(r, a)
      PROVE  DataOK'
  <2>1. seen[r][a] \in HatApplication
    BY DEF ControlOK
  <2> QED
    BY <1>5, <2>1 DEF Fill, Store, DataOK, database, mishaps, trail
<1>6. ASSUME NEW r \in Requests, NEW a \in Apps, EnableRow(r, a)
      PROVE  DataOK'
  <2>1. missed' \subseteq Apps \X Columns /\ since' \subseteq Requests \X Things
    BY <1>6, MissingType, EnabledType, AppThings DEF EnableRow
  <2>2. row' \in [Apps -> Rows]
    BY <1>6 DEF EnableRow, DataOK, Rows
  <2> QED
    BY <1>6, <2>1, <2>2 DEF EnableRow, DataOK, caches
<1>7. ASSUME NEW r \in Requests, NEW t \in Tools, ToolGet(r, t)
      PROVE  DataOK'
  BY <1>7 DEF ToolGet, DataOK, database, caches, mishaps, trail
<1>8. ASSUME NEW r \in Requests, NEW t \in Tools, ToolSave(r, t)
      PROVE  DataOK'
  <2>1. since' \subseteq Requests \X Things
    BY <1>8, EnabledType, AppThings DEF ToolSave
  <2> QED
    BY <1>8, <2>1 DEF ToolSave, DataOK, caches, mishaps
<1>9. ASSUME NEW r \in Requests, StatusAnswered(r) \/ DependenciesSetUp(r)
      PROVE  DataOK'
  BY <1>9, ForgetsType DEF StatusAnswered, DependenciesSetUp, End, DataOK, database, caches, mishaps
<1>10. ASSUME NEW r \in Requests, DependencyFailed(r) \/ SetupFailed(r)
      PROVE  DataOK'
  BY <1>10, ForgetsType DEF DependencyFailed, SetupFailed, DataOK, database, caches, mishaps
<1>11. ASSUME NEW r \in Requests, ListGet(r)
      PROVE  DataOK'
  BY <1>11, ForgetsType DEF ListGet, End, DataOK, database, caches, mishaps, trail
<1>12. ASSUME NEW r \in Requests, ListFill(r)
      PROVE  DataOK'
  <2>1. list' = <<>> \/ list' \in [Apps -> HatApplication]
    BY <1>12 DEF ListFill, DataOK, ControlOK
  <2> QED
    BY <1>12, <2>1, ForgetsType DEF ListFill, End, DataOK, database, mishaps
<1>13. ASSUME NEW r \in Requests, EnableDebit(r)
      PROVE  DataOK'
  <2>1. app[r] \in Apps
    BY DEF ControlOK
  <2>2. apart' \subseteq Apps
    BY <1>13, <2>1 DEF EnableDebit, DataOK
  <2> QED
    BY <1>13, <2>1, <2>2 DEF EnableDebit, DataOK, caches, trail
<1>14. ASSUME NEW r \in Requests, IsSetUp(r)
      PROVE  DataOK'
  BY <1>14, ForgetsType DEF IsSetUp, End, DataOK, database, caches, mishaps, trail
<1>15. ASSUME NEW r \in Requests, NextStage(r)
      PROVE  DataOK'
  BY <1>15 DEF NextStage, DataOK, database, caches, mishaps, trail
<1>16. ASSUME NEW r \in Requests, Revert(r)
      PROVE  DataOK'
  <2>1. app[r] \in Apps
    BY DEF ControlOK
  <2> QED
    BY <1>16, <2>1, DisablesType, ForgetsType DEF Revert, End, DataOK, caches
<1>17. ASSUME NEW r \in Requests, DisableDebit(r)
      PROVE  DataOK'
  <2>1. app[r] \in Apps
    BY DEF ControlOK
  <2> QED
    BY <1>17, <2>1, DisablesType DEF DisableDebit, DataOK, caches, trail
<1>18. ASSUME NEW r \in Requests, DisableRow(r)
      PROVE  DataOK'
  <2>1. app[r] \in Apps
    BY DEF ControlOK
  <2>2. missed' \subseteq Apps \X Columns
    BY <1>18, <2>1, MissingType DEF DisableRow
  <2>3. row' \in [Apps -> Rows]
    BY <1>18 DEF DisableRow, DataOK, Rows
  <2> QED
    BY <1>18, <2>2, <2>3 DEF DisableRow, DataOK, caches, trail
<1>19. ASSUME NEW r \in Requests, Fails(r)
      PROVE  DataOK'
  <2>1. <<app[r], "disableRow">> \in Halfway
    BY AppThings DEF Halfway, ControlOK
  <2> QED
    BY <1>19, <2>1, ForgetsType DEF Fails, End, DataOK, database, caches
<1>20. ASSUME NEW r \in Requests, ListCall(r)
      PROVE  DataOK'
  BY <1>20 DEF ListCall, DataOK, database, caches, mishaps, trail
<1>21. ASSUME NEW r \in Requests, NEW a \in Apps, NEW step \in {"get", "bust"}, StatusCall(r, a, step)
      PROVE  DataOK'
  BY <1>21 DEF StatusCall, DataOK, database, caches, mishaps, trail
<1>22. ASSUME NEW r \in Requests, NEW a \in Apps, NEW main \in {"enableDebit", "disableDebit"}, OwnerCall(r, main, a)
      PROVE  DataOK'
  <2>1. since' \subseteq Requests \X Things
    BY <1>22, AppThings DEF OwnerCall, DataOK
  <2> QED
    BY <1>22, <2>1 DEF OwnerCall, DataOK, database, caches, mishaps
<1>23. ASSUME NEW r \in Requests, NEW x \in Things, TaskFails(r, x)
      PROVE  DataOK'
  <2>1. abandoned' \subseteq Halfway
    BY <1>23 DEF TaskFails, Halfway, DataOK
  <2> QED
    BY <1>23, <2>1 DEF TaskFails, DataOK, database, caches, trail
<1>24. ASSUME NEW r \in Requests, NEW a \in Apps, NEW s \in HatApplication, Stored(r, a, s)
      PROVE  DataOK'
  BY <1>24 DEF Stored, Store, DataOK, database, mishaps, trail
<1>25. ASSUME NEW a \in Apps, DirectEnable(a)
      PROVE  DataOK'
  BY <1>25 DEF DirectEnable, DataOK, caches, requests, trail
<1>26. ASSUME NEW a \in Apps, DirectDisable(a)
      PROVE  DataOK'
  BY <1>26, DisablesType DEF DirectDisable, DataOK, caches, requests, trail
<1>27. ASSUME NEW a \in Apps, Expire(a)
      PROVE  DataOK'
  BY <1>27, StatusTypes DEF Expire, Store, DataOK, database, requests, mishaps, trail
<1>28. ASSUME NEW t \in Tools, ToolSwitch(t)
      PROVE  DataOK'
  <2>1. since' \subseteq Requests \X Things
    BY <1>28, EnabledType, AppThings DEF ToolSwitch, DataOK
  <2>2. tool' \in [Tools -> BOOLEAN]
    BY <1>28 DEF ToolSwitch, DataOK
  <2> QED
    BY <1>28, <2>1, <2>2 DEF ToolSwitch, DataOK, caches, requests, mishaps
<1>29. CASE ExpireList \/ UNCHANGED vars
  BY <1>29 DEF ExpireList, vars, DataOK, database, requests, mishaps, trail
<1>30. ASSUME NEW p \in storing, Stored(p[1], p[2], p[3])
      PROVE  DataOK'
  <2>1. p[1] \in Requests /\ p[2] \in Apps /\ p[3] \in HatApplication
    BY StoringParts DEF TInv
  <2> QED
    BY <1>30, <1>24, <2>1
<1> QED
  BY <1>1, <1>2, <1>3, <1>4, <1>5, <1>6, <1>7, <1>8, <1>9, <1>10, <1>11, <1>12, <1>13,
     <1>14, <1>15, <1>16, <1>17, <1>18, <1>19, <1>20, <1>21, <1>22, <1>23, <1>24,
     <1>25, <1>26, <1>27, <1>28, <1>29, <1>30
     DEF Next, Call, Step, AppTask, ToolTask, Main

LEMMA TypeInit == Init => TInv
<1> SUFFICES ASSUME Init PROVE TInv
  OBVIOUS
<1>1. DataOK
  BY StatusTypes DEF Init, DataOK, Nothing, Rows
<1>2. ControlOK
  BY StatusTypes, AnyAppOK DEF Init, ControlOK, Nothing, NoTasks, Mains, Tasks, Ended
<1>3. Orderly
  BY DEF Init, Orderly, NoTasks
<1> QED
  BY <1>1, <1>2, <1>3 DEF TInv

LEMMA TypeHolds == Spec => []TInv
<1>1. TInv /\ [Next]_vars => TInv'
  BY DataStep, ControlStep DEF TInv
<1> QED
  BY <1>1, TypeInit, PTL DEF Spec

(* The tables, caches, requests and tasks have their types; a task has     *)
(* ended only for a request that waits for it, and only one that makes a   *)
(* status has seen one, whatever fails or goes on without its request.     *)
THEOREM TypeCorrect == Spec => []TypeOK
<1>1. TInv => TypeOK
  BY TypeParts DEF TInv
<1> QED
  BY <1>1, TypeHolds, PTL
-----------------------------------------------------------------------------
LEMMA TaskIs ==
  ASSUME ControlOK, NEW r \in Requests, NEW x \in Things, NEW step, Task(r, x, step)
  PROVE  \A q \in Requests, y \in Things :
            at'[q][y] = IF q = r /\ y = x THEN step ELSE at[q][y]
<1>1. \A q \in Requests : q # r => at'[q] = at[q]
  BY DEF Task, ControlOK
<1>2. at'[r] = [at[r] EXCEPT ![x] = step] /\ at[r] \in [Things -> Tasks]
  BY DEF Task, ControlOK
<1> QED
  BY <1>1, <1>2

LEMMA GotoIs ==
  ASSUME ControlOK, NEW r \in Requests, NEW main, Goto(r, main)
  PROVE  \A q \in Requests : pc'[q] = IF q = r THEN main ELSE pc[q]
BY DEF Goto, ControlOK

LEMMA EndIs ==
  ASSUME ControlOK, NEW r \in Requests, End(r)
  PROVE  /\ pc'[r] = "idle" /\ app'[r] = AnyApp
         /\ \A x \in Things : at'[r][x] = IF at[r][x] \in Ended THEN "none" ELSE at[r][x]
         /\ \A a \in Apps : seen'[r][a] = IF at[r][a] \in Making THEN seen[r][a] ELSE Miss
         /\ \A q \in Requests : q # r => /\ app'[q] = app[q] /\ pc'[q] = pc[q]
                                         /\ at'[q] = at[q] /\ seen'[q] = seen[q]
BY DEF End, Goto, Without, ControlOK

(* A disabling between its two changes has a debit that is off, or that    *)
(* was enabled apart.                                                      *)
DInv == /\ DebitFollowsStatus
        /\ \A r \in Requests : pc[r] = "disableRow" => ~debit[app[r]] \/ app[r] \in apart

(* A set-up of a that has enabled its debit and not its row.               *)
Enabling(r) == pc[r] = "setup" /\ at[r][app[r]] = "enableRow"
(* A step that changes neither, and begins no disabling.                   *)
Quietly ==
    /\ UNCHANGED <<row, debit>> /\ apart \subseteq apart'
    /\ \A a \in Apps : <<a, "enableRow">> \in abandoned => <<a, "enableRow">> \in abandoned'
    /\ \A q \in Requests : Enabling(q) => Enabling(q)' /\ app'[q] = app[q]
    /\ \A q \in Requests : pc'[q] = "disableRow" => pc[q] = "disableRow" /\ app'[q] = app[q]

LEMMA QuietlyFollows == ASSUME TInv, DInv, Quietly PROVE DInv'
<1>1. ASSUME NEW r \in Requests, pc'[r] = "disableRow"
      PROVE  ~debit'[app'[r]] \/ app'[r] \in apart'
  BY <1>1 DEF DInv, Quietly
<1>2. ASSUME NEW a \in Apps, debit'[a] /\ row'[a] # "enabled"
      PROVE  \/ <<a, "enableRow">> \in abandoned'
             \/ a \in apart'
             \/ \E r \in Requests : pc'[r] = "setup" /\ app'[r] = a /\ at'[r][a] = "enableRow"
  <2>1. \/ <<a, "enableRow">> \in abandoned
        \/ a \in apart
        \/ \E r \in Requests : Enabling(r) /\ app[r] = a
    BY <1>2 DEF DInv, DebitFollowsStatus, Quietly, Enabling
  <2> QED
    BY <2>1 DEF Quietly, Enabling
<1> QED
  BY <1>1, <1>2 DEF DInv, DebitFollowsStatus

LEMMA TaskQuietly ==
  ASSUME TInv, NEW r \in Requests, NEW x \in Things, NEW step, Task(r, x, step),
         at[r][x] # "enableRow", UNCHANGED <<app, pc, row, debit, apart>>,
         \A a \in Apps : <<a, "enableRow">> \in abandoned => <<a, "enableRow">> \in abandoned'
  PROVE  Quietly
<1>1. \A q \in Requests : Enabling(q) => Enabling(q)'
  BY TaskIs, AppThings DEF TInv, ControlOK, Enabling
<1> QED
  BY <1>1 DEF Quietly

LEMMA EndQuietly ==
  ASSUME TInv, NEW r \in Requests, End(r), ~Enabling(r), UNCHANGED <<row, debit, apart>>,
         \A a \in Apps : <<a, "enableRow">> \in abandoned => <<a, "enableRow">> \in abandoned'
  PROVE  Quietly
<1>1. \A q \in Requests : q # r => Enabling(q)' = Enabling(q)
  BY EndIs DEF TInv, Enabling
<1>2. \A q \in Requests : q # r => pc'[q] = pc[q] /\ app'[q] = app[q]
  BY EndIs DEF TInv
<1>3. pc'[r] = "idle"
  BY EndIs DEF TInv
<1> QED
  BY <1>1, <1>2, <1>3 DEF Quietly

LEMMA GoQuietly ==
  ASSUME TInv, NEW r \in Requests, ~Enabling(r), NEW main, main # "disableRow", Goto(r, main),
         \A q \in Requests : q # r => at'[q] = at[q] /\ app'[q] = app[q],
         UNCHANGED <<row, debit, apart, abandoned>>
  PROVE  Quietly
<1>1. \A q \in Requests : pc'[q] = IF q = r THEN main ELSE pc[q]
  BY GotoIs DEF TInv
<1>2. \A q \in Requests : q # r => Enabling(q)' = Enabling(q)
  BY <1>1 DEF Enabling
<1> QED
  BY <1>1, <1>2 DEF Quietly

(* The debit goes off: what is said of the others stays.                   *)
LEMMA DisablingFollows ==
  ASSUME TInv, DInv, NEW a \in Apps, NEW copies, DisableDebitOf(a, copies), UNCHANGED row,
         \A q \in Requests : Enabling(q) => Enabling(q)' /\ app'[q] = app[q],
         \A q \in Requests : pc'[q] = "disableRow" =>
            app'[q] = app[q] /\ (pc[q] = "disableRow" \/ app[q] = a)
  PROVE  DInv'
<1>1. /\ ~debit'[a] /\ \A b \in Apps : b # a => debit'[b] = debit[b]
      /\ apart' = apart \ {a}
      /\ \A b \in Apps : b # a /\ <<b, "enableRow">> \in abandoned => <<b, "enableRow">> \in abandoned'
  BY DEF DisableDebitOf, TInv, DataOK
<1>2. ASSUME NEW r \in Requests, pc'[r] = "disableRow"
      PROVE  ~debit'[app'[r]] \/ app'[r] \in apart'
  <2>1. app[r] \in Apps /\ app'[r] = app[r]
    BY <1>2 DEF TInv, ControlOK
  <2> QED
    BY <1>1, <1>2, <2>1 DEF DInv
<1>3. ASSUME NEW b \in Apps, debit'[b] /\ row'[b] # "enabled"
      PROVE  \/ <<b, "enableRow">> \in abandoned'
             \/ b \in apart'
             \/ \E r \in Requests : pc'[r] = "setup" /\ app'[r] = b /\ at'[r][b] = "enableRow"
  <2>1. b # a /\ debit[b] /\ row[b] # "enabled"
    BY <1>1, <1>3
  <2>2. \/ <<b, "enableRow">> \in abandoned
        \/ b \in apart
        \/ \E r \in Requests : Enabling(r) /\ app[r] = b
    BY <2>1 DEF DInv, DebitFollowsStatus, Enabling
  <2> QED
    BY <1>1, <2>1, <2>2 DEF Enabling
<1> QED
  BY <1>2, <1>3 DEF DInv, DebitFollowsStatus

LEMMA DebitStep ==
  ASSUME TInv, DInv, [Next]_vars
  PROVE  DInv'
<1>0. DataOK
  BY DEF TInv
<1>1. ASSUME NEW r \in Requests, NEW a \in Apps, Bust(r, a)
      PROVE  DInv'
  <2>1. \A b \in Apps : <<b, "enableRow">> \in abandoned => <<b, "enableRow">> \in abandoned'
    BY <1>1 DEF Bust
  <2>2. Quietly
    BY <1>1, <2>1, TaskQuietly, AppThings DEF Bust, database
  <2> QED
    BY <2>2, QuietlyFollows
<1>2. ASSUME NEW r \in Requests, NEW a \in Apps, Get(r, a)
      PROVE  DInv'
  <2>1. PICK step : Task(r, a, step)
    BY <1>2 DEF Get, Finish
  <2>2. Quietly
    BY <1>2, <2>1, TaskQuietly, AppThings DEF Get, database, mishaps
  <2> QED
    BY <2>2, QuietlyFollows
<1>3. ASSUME NEW r \in Requests, NEW a \in Apps, ReadRow(r, a)
      PROVE  DInv'
  <2>1. Quietly
    BY <1>3, TaskQuietly, AppThings DEF ReadRow, database, mishaps
  <2> QED
    BY <2>1, QuietlyFollows
<1>4. ASSUME NEW r \in Requests, NEW a \in Apps, Collect(r, a) \/ ListCollect(r, a)
      PROVE  DInv'
  <2>1. Quietly
    BY <1>4, TaskQuietly, AppThings
    DEF Collect, ListCollect, Making, database, mishaps
  <2> QED
    BY <2>1, QuietlyFollows
<1>5. ASSUME NEW r \in Requests, NEW a \in Apps, Fill(r, a)
      PROVE  DInv'
  <2>1. Quietly
    BY <1>5, TaskQuietly, AppThings DEF Fill, Finish, database, mishaps
  <2> QED
    BY <2>1, QuietlyFollows
<1>6. ASSUME NEW r \in Requests, NEW a \in Apps, EnableRow(r, a)
      PROVE  DInv'
  <2>1. row'[a] = "enabled" /\ \A b \in Apps : b # a => row'[b] = row[b]
    BY <1>6 DEF EnableRow, DataOK, TInv
  <2>2. \A q \in Requests : \A y \in Things \ {a} : at'[q][y] = at[q][y]
    BY <1>6, TaskIs, AppThings DEF EnableRow, TInv
  <2>3. UNCHANGED <<debit, abandoned, apart, app, pc>>
    BY <1>6 DEF EnableRow
  <2>4. ASSUME NEW b \in Apps, debit'[b] /\ row'[b] # "enabled"
        PROVE  \/ <<b, "enableRow">> \in abandoned'
               \/ b \in apart'
               \/ \E q \in Requests : pc'[q] = "setup" /\ app'[q] = b /\ at'[q][b] = "enableRow"
    <3>1. b # a /\ debit[b] /\ row[b] # "enabled" /\ b \in Things
      BY <2>1, <2>3, <2>4, AppThings
    <3> QED
      BY <2>2, <2>3, <3>1 DEF DInv, DebitFollowsStatus
  <2> QED
    BY <2>3, <2>4 DEF DInv, DebitFollowsStatus
<1>7. ASSUME NEW r \in Requests, NEW t \in Tools, ToolGet(r, t)
      PROVE  DInv'
  <2>1. Quietly
    BY <1>7, TaskQuietly, AppThings DEF ToolGet, Finish, database, mishaps
  <2> QED
    BY <2>1, QuietlyFollows
<1>8. ASSUME NEW r \in Requests, NEW t \in Tools, ToolSave(r, t)
      PROVE  DInv'
  <2>1. Quietly
    BY <1>8, TaskQuietly, AppThings DEF ToolSave, mishaps
  <2> QED
    BY <2>1, QuietlyFollows
<1>9. ASSUME NEW r \in Requests, StatusAnswered(r) \/ ListFill(r) \/ DependenciesSetUp(r)
      PROVE  DInv'
  <2>1. Quietly
    BY <1>9, EndQuietly DEF StatusAnswered, ListFill, DependenciesSetUp, Reported,
       Enabling, database, mishaps
  <2> QED
    BY <2>1, QuietlyFollows
<1>10. ASSUME NEW r \in Requests, ListGet(r)
      PROVE  DInv'
  <2>1. CASE End(r)
    <3>1. Quietly
      BY <1>10, <2>1, EndQuietly DEF ListGet, Enabling, database, mishaps
    <3> QED
      BY <3>1, QuietlyFollows
  <2>2. CASE ~End(r)
    <3>1. Goto(r, "listCollect") /\ ~Enabling(r) /\ UNCHANGED <<row, debit, apart, abandoned>>
      BY <1>10, <2>2 DEF ListGet, Enabling, database, mishaps
    <3>2. \A q \in Requests : q # r => at'[q] = at[q] /\ app'[q] = app[q]
      BY <1>10, <2>2 DEF ListGet, TInv, ControlOK
    <3> QED
      BY <3>1, <3>2, GoQuietly, QuietlyFollows
  <2> QED
    BY <2>1, <2>2
<1>11. ASSUME NEW r \in Requests, EnableDebit(r)
      PROVE  DInv'
  <2> DEFINE a == app[r]
  <2>1. a \in Apps /\ a \in Things /\ pc[r] = "enableDebit" /\ UNCHANGED <<row, app, abandoned>>
    BY <1>11, AppThings DEF EnableDebit, TInv, ControlOK
  <2>2. /\ \A b \in Apps : b # a => debit'[b] = debit[b]
        /\ apart \subseteq apart'
        /\ HalfDisabled(a) => a \in apart'
    BY <1>11 DEF EnableDebit, TInv, DataOK
  <2>3. /\ pc'[r] = "setup" /\ \A q \in Requests : q # r => pc'[q] = pc[q]
        /\ at'[r][a] = "enableRow"
        /\ \A q \in Requests : q # r => at'[q] = at[q]
    <3>1. Goto(r, "setup") /\ Task(r, a, "enableRow")
      BY <1>11 DEF EnableDebit
    <3> QED
      BY <2>1, <3>1, GotoIs DEF TInv, ControlOK, Task
  <2>4. ASSUME NEW q \in Requests, pc'[q] = "disableRow"
        PROVE  ~debit'[app'[q]] \/ app'[q] \in apart'
    <3>1. pc[q] = "disableRow" /\ app[q] \in Apps
      BY <2>3, <2>4 DEF TInv, ControlOK
    <3>2. CASE app[q] = a
      BY <2>1, <2>2, <3>1, <3>2 DEF HalfDisabled
    <3>3. CASE app[q] # a
      BY <2>1, <2>2, <3>1, <3>3 DEF DInv
    <3> QED
      BY <3>2, <3>3
  <2>5. ASSUME NEW b \in Apps, debit'[b] /\ row'[b] # "enabled"
        PROVE  \/ <<b, "enableRow">> \in abandoned'
               \/ b \in apart'
               \/ \E q \in Requests : pc'[q] = "setup" /\ app'[q] = b /\ at'[q][b] = "enableRow"
    <3>1. CASE b = a
      BY <2>1, <2>3, <3>1
    <3>2. CASE b # a
      <4>1. \/ <<b, "enableRow">> \in abandoned
            \/ b \in apart
            \/ \E q \in Requests : pc[q] = "setup" /\ app[q] = b /\ at[q][b] = "enableRow"
        BY <2>1, <2>2, <2>5, <3>2 DEF DInv, DebitFollowsStatus
      <4> QED
        BY <2>1, <2>2, <2>3, <4>1
    <3> QED
      BY <3>1, <3>2
  <2> QED
    BY <2>4, <2>5 DEF DInv, DebitFollowsStatus
<1>12. ASSUME NEW r \in Requests, IsSetUp(r)
      PROVE  DInv'
  <2>0. ~Enabling(r)
    BY <1>12 DEF IsSetUp, Enabling
  <2>1. CASE End(r)
    <3>1. Quietly
      BY <1>12, <2>0, <2>1, EndQuietly DEF IsSetUp, database, mishaps
    <3> QED
      BY <3>1, QuietlyFollows
  <2>2. CASE ~End(r)
    <3>1. Goto(r, "check") /\ UNCHANGED <<row, debit, apart, abandoned>>
      BY <1>12, <2>2 DEF IsSetUp, database, mishaps
    <3>2. \A q \in Requests : q # r => at'[q] = at[q] /\ app'[q] = app[q]
      BY <1>12, <2>2 DEF IsSetUp, TInv, ControlOK
    <3> QED
      BY <2>0, <3>1, <3>2, GoQuietly, QuietlyFollows
  <2> QED
    BY <2>1, <2>2
<1>13. ASSUME NEW r \in Requests, NextStage(r)
      PROVE  DInv'
  <2>1. PICK main \in Stages : Goto(r, main) /\ pc[r] \in Stages
    BY <1>13 DEF NextStage, Stages
  <2>2. \A q \in Requests : q # r => at'[q] = at[q] /\ app'[q] = app[q]
    BY <1>13 DEF NextStage, Begin, TInv, ControlOK
  <2>3. ~Enabling(r) /\ main # "disableRow"
    BY <2>1 DEF Enabling, Stages
  <2>4. UNCHANGED <<row, debit, apart, abandoned>>
    BY <1>13 DEF NextStage, database, mishaps
  <2> QED
    BY <2>1, <2>2, <2>3, <2>4, GoQuietly, QuietlyFollows
<1>14. ASSUME NEW r \in Requests, DependencyFailed(r) \/ SetupFailed(r)
      PROVE  DInv'
  <2>1. \A q \in Requests : q # r => at'[q] = at[q] /\ app'[q] = app[q]
    BY <1>14 DEF DependencyFailed, SetupFailed, Task, TInv, ControlOK
  <2>2. ~Enabling(r)
    BY <1>14 DEF DependencyFailed, SetupFailed, Enabling, Stages
  <2>3. UNCHANGED <<row, debit, apart, abandoned>>
    BY <1>14 DEF DependencyFailed, SetupFailed, database, mishaps
  <2> QED
    BY <1>14, <2>1, <2>2, <2>3, GoQuietly, QuietlyFollows DEF DependencyFailed, SetupFailed
<1>15. ASSUME NEW r \in Requests, Revert(r)
      PROVE  DInv'
  <2>1. app[r] \in Apps /\ pc[r] = "revert" /\ End(r) /\ UNCHANGED row
    BY <1>15 DEF Revert, TInv, ControlOK
  <2>2. \A q \in Requests : Enabling(q) => Enabling(q)' /\ app'[q] = app[q]
    BY <2>1, EndIs DEF TInv, Enabling
  <2>3. \A q \in Requests : pc'[q] = "disableRow" => app'[q] = app[q] /\ pc[q] = "disableRow"
    BY <2>1, EndIs DEF TInv
  <2> QED
    BY <1>15, <2>1, <2>2, <2>3, DisablingFollows DEF Revert
<1>16. ASSUME NEW r \in Requests, DisableDebit(r)
      PROVE  DInv'
  <2>1. app[r] \in Apps /\ pc[r] = "disableDebit" /\ UNCHANGED <<row, app, at>>
    BY <1>16 DEF DisableDebit, TInv, ControlOK
  <2>2. \A q \in Requests : pc'[q] = IF q = r THEN "disableRow" ELSE pc[q]
    BY <1>16, GotoIs DEF DisableDebit, TInv
  <2>3. \A q \in Requests : Enabling(q) => Enabling(q)' /\ app'[q] = app[q]
    BY <2>1, <2>2 DEF Enabling
  <2>4. \A q \in Requests : pc'[q] = "disableRow" =>
           app'[q] = app[q] /\ (pc[q] = "disableRow" \/ app[q] = app[r])
    BY <2>1, <2>2
  <2> QED
    BY <1>16, <2>1, <2>3, <2>4, DisablingFollows DEF DisableDebit
<1>17. ASSUME NEW r \in Requests, DisableRow(r)
      PROVE  DInv'
  <2>1. /\ app[r] \in Apps /\ pc[r] = "disableRow" /\ UNCHANGED <<debit, app, abandoned, apart>>
        /\ \A b \in Apps : b # app[r] => row'[b] = row[b]
    BY <1>17 DEF DisableRow, TInv, ControlOK, DataOK
  <2>2. \A q \in Requests : pc'[q] = IF q = r THEN "status" ELSE pc[q]
    BY <1>17, GotoIs DEF DisableRow, TInv
  <2>3. \A q \in Requests : q # r => at'[q] = at[q]
    BY <1>17 DEF DisableRow, Task, TInv, ControlOK
  <2>4. ASSUME NEW b \in Apps, debit'[b] /\ row'[b] # "enabled"
        PROVE  \/ <<b, "enableRow">> \in abandoned'
               \/ b \in apart'
               \/ \E q \in Requests : pc'[q] = "setup" /\ app'[q] = b /\ at'[q][b] = "enableRow"
    <3>1. CASE b = app[r]
      BY <2>1, <2>4, <3>1 DEF DInv
    <3>2. CASE b # app[r]
      <4>1. \/ <<b, "enableRow">> \in abandoned
            \/ b \in apart
            \/ \E q \in Requests : pc[q] = "setup" /\ app[q] = b /\ at[q][b] = "enableRow"
        BY <2>1, <2>4, <3>2 DEF DInv, DebitFollowsStatus
      <4> QED
        BY <2>1, <2>2, <2>3, <4>1
    <3> QED
      BY <3>1, <3>2
  <2>5. \A q \in Requests : pc'[q] = "disableRow" => ~debit'[app'[q]] \/ app'[q] \in apart'
    BY <2>1, <2>2 DEF DInv
  <2> QED
    BY <2>4, <2>5 DEF DInv, DebitFollowsStatus
<1>18. ASSUME NEW r \in Requests, Fails(r)
      PROVE  DInv'
  <2>1. ~Enabling(r)
    <3>1. ASSUME Enabling(r), NEW x \in Things, at[r][x] = "failed"
          PROVE  FALSE
      BY <3>1 DEF Enabling, TInv, Orderly
    <3>2. ASSUME Enabling(r) PROVE pc[r] = "setup"
      BY <3>2 DEF Enabling
    <3> QED
      BY <1>18, <3>1, <3>2 DEF Fails
  <2>2. \A a \in Apps : <<a, "enableRow">> \in abandoned => <<a, "enableRow">> \in abandoned'
    BY <1>18 DEF Fails
  <2>3. Quietly
    BY <1>18, <2>1, <2>2, EndQuietly DEF Fails, database
  <2> QED
    BY <2>3, QuietlyFollows
<1>19. ASSUME NEW r \in Requests, ListCall(r)
      PROVE  DInv'
  <2>1. \A q \in Requests : q # r => at'[q] = at[q] /\ app'[q] = app[q]
    BY <1>19 DEF ListCall
  <2> QED
    BY <1>19, <2>1, GoQuietly, QuietlyFollows DEF ListCall, Free, Enabling, database, mishaps
<1>20. ASSUME NEW r \in Requests, NEW a \in Apps, NEW step \in {"get", "bust"}, StatusCall(r, a, step)
      PROVE  DInv'
  <2>1. \A q \in Requests : q # r => at'[q] = at[q] /\ app'[q] = app[q]
    BY <1>20 DEF StatusCall, Task, TInv, ControlOK
  <2> QED
    BY <1>20, <2>1, GoQuietly, QuietlyFollows DEF StatusCall, Free, Enabling, database, mishaps
<1>21. ASSUME NEW r \in Requests, NEW a \in Apps, NEW main \in {"enableDebit", "disableDebit"}, OwnerCall(r, main, a)
      PROVE  DInv'
  <2>1. \A q \in Requests : q # r => at'[q] = at[q] /\ app'[q] = app[q]
    BY <1>21 DEF OwnerCall, TInv, ControlOK
  <2> QED
    BY <1>21, <2>1, GoQuietly, QuietlyFollows DEF OwnerCall, Free, Enabling, database, mishaps
<1>22. ASSUME NEW r \in Requests, NEW x \in Things, TaskFails(r, x)
      PROVE  DInv'
  <2>1. PICK step : Task(r, x, step)
    BY <1>22 DEF TaskFails, Finish
  <2>2. UNCHANGED <<row, debit, apart, app, pc>> /\ abandoned \subseteq abandoned'
    BY <1>22 DEF TaskFails, database
  <2>3. CASE ~(Enabling(r) /\ x = app[r])
    <3>1. \A q \in Requests : Enabling(q) => Enabling(q)'
      BY <2>1, <2>2, <2>3, TaskIs, AppThings DEF TInv, ControlOK, Enabling
    <3> QED
      BY <2>2, <3>1, QuietlyFollows DEF Quietly
  <2>4. CASE Enabling(r) /\ x = app[r]
    <3>1. <<x, "enableRow">> \in abandoned'
      BY <1>22, <2>4 DEF TaskFails, Enabling
    <3>2. \A q \in Requests : \A y \in Things \ {x} : at'[q][y] = at[q][y]
      BY <2>1, TaskIs DEF TInv
    <3>3. ASSUME NEW b \in Apps, debit'[b] /\ row'[b] # "enabled"
          PROVE  \/ <<b, "enableRow">> \in abandoned'
                 \/ b \in apart'
                 \/ \E q \in Requests : pc'[q] = "setup" /\ app'[q] = b /\ at'[q][b] = "enableRow"
      <4>1. CASE b = x
        BY <3>1, <4>1
      <4>2. CASE b # x
        BY <2>2, <3>2, <3>3, <4>2, AppThings DEF DInv, DebitFollowsStatus
      <4> QED
        BY <4>1, <4>2
    <3> QED
      BY <2>2, <3>3 DEF DInv, DebitFollowsStatus
  <2> QED
    BY <2>3, <2>4
<1>23. ASSUME NEW r \in Requests, NEW a \in Apps, NEW s \in HatApplication, Stored(r, a, s)
      PROVE  DInv'
  <2>1. Quietly
    BY <1>23 DEF Stored, Quietly, Enabling, database, requests, mishaps
  <2> QED
    BY <2>1, QuietlyFollows
<1>24. ASSUME NEW a \in Apps, DirectEnable(a)
      PROVE  DInv'
  <2>1. /\ UNCHANGED <<row, app, pc, at, abandoned>> /\ apart' = apart \cup {a}
        /\ \A b \in Apps : b # a => debit'[b] = debit[b]
    BY <1>24 DEF DirectEnable, requests, TInv, DataOK
  <2>2. \A q \in Requests : app[q] \in Apps
    BY DEF TInv, ControlOK
  <2> QED
    BY <2>1, <2>2 DEF DInv, DebitFollowsStatus
<1>25. ASSUME NEW a \in Apps, DirectDisable(a)
      PROVE  DInv'
  <2>1. UNCHANGED <<row, app, pc, at>>
    BY <1>25 DEF DirectDisable, requests
  <2> QED
    BY <1>25, <2>1, DisablingFollows DEF DirectDisable, Enabling
<1>26. ASSUME NEW a \in Apps, Expire(a)
      PROVE  DInv'
  <2>1. Quietly
    BY <1>26 DEF Expire, Quietly, Enabling, database, requests, mishaps
  <2> QED
    BY <2>1, QuietlyFollows
<1>27. ASSUME NEW t \in Tools, ToolSwitch(t)
      PROVE  DInv'
  <2>1. Quietly
    BY <1>27 DEF ToolSwitch, Quietly, Enabling, requests, mishaps
  <2> QED
    BY <2>1, QuietlyFollows
<1>28. CASE ExpireList \/ UNCHANGED vars
  <2>1. Quietly
    BY <1>28 DEF ExpireList, vars, Quietly, Enabling, database, requests, mishaps
  <2> QED
    BY <2>1, QuietlyFollows
<1>29. ASSUME NEW p \in storing, Stored(p[1], p[2], p[3])
      PROVE  DInv'
  <2>1. p[1] \in Requests /\ p[2] \in Apps /\ p[3] \in HatApplication
    BY StoringParts DEF TInv
  <2> QED
    BY <1>29, <1>23, <2>1
<1> QED
  BY <1>1, <1>2, <1>3, <1>4, <1>5, <1>6, <1>7, <1>8, <1>9, <1>10, <1>11, <1>12, <1>13,
     <1>14, <1>15, <1>16, <1>17, <1>18, <1>19, <1>20, <1>21, <1>22, <1>23, <1>24,
     <1>25, <1>26, <1>27, <1>28, <1>29
     DEF Next, Call, Step, AppTask, ToolTask, Main

(* DebitFollowsStatus: the debit of an application shares data while the   *)
(* application is not enabled only in a set-up between its two changes,    *)
(* after one lost there, or when it was enabled apart from the application,*)
(* however set-ups, disablings and calls of the debit itself overlap.      *)
THEOREM DebitFollows == Spec => []DebitFollowsStatus
<1>1. Init => DInv
  BY DEF Init, DInv, DebitFollowsStatus
<1>2. TInv /\ DInv /\ [Next]_vars => DInv'
  BY DebitStep
<1>3. DInv => DebitFollowsStatus
  BY DEF DInv
<1> QED
  BY <1>1, <1>2, <1>3, TypeHolds, PTL DEF Spec
-----------------------------------------------------------------------------
(* Request r has a status of a in the making; s is one in the making or    *)
(* being stored; s is one that is cached.                                  *)
Reading(r, a) == at[r][a] \in Making \/ (pc[r] = "listCollect" /\ at[r][a] = "none")
Made(a, s) == \E r \in Requests : \/ Reading(r, a) /\ seen[r][a] = s
                                  \/ <<r, a, s>> \in storing
Kept(a, s) == \/ cached[a] = s /\ s # Miss
              \/ list # <<>> /\ list[a] = s

(* Where the copies after a step come from.                                *)
MadeTraced ==
    \A a \in Apps, s \in HatApplication :
      Made(a, s)' => \/ Made(a, s)
                     \/ /\ UNCHANGED <<row, debit>>
                        /\ \/ s = OfRow(row[a])
                           \/ \E o \in HatApplication : Made(a, o) /\ s \in Collected(o.row, a)
KeptTraced ==
    \A a \in Apps, s \in HatApplication : Kept(a, s)' => Kept(a, s) \/ Made(a, s)

(* A step that begins to make no copies.                                   *)
NoNews ==
    /\ storing' \subseteq storing
    /\ \A q \in Requests, b \in Apps :
         Reading(q, b)' => Reading(q, b) /\ seen'[q][b] = seen[q][b]

LEMMA NoNewsTraced == ASSUME NoNews PROVE MadeTraced
BY DEF NoNews, MadeTraced, Made

LEMMA KeptStays == ASSUME UNCHANGED <<cached, list>> PROVE KeptTraced
BY DEF KeptTraced, Kept

LEMMA TaskNoNews ==
  ASSUME TInv, NEW r \in Requests, NEW x \in Things, NEW step, Task(r, x, step),
         step \notin Making, step # "none" \/ pc[r] # "listCollect" \/ x \notin Apps,
         UNCHANGED <<pc, storing>>,
         \A q \in Requests, b \in Apps : q # r \/ b # x => seen'[q][b] = seen[q][b]
  PROVE  NoNews
<1>1. \A q \in Requests, y \in Things : at'[q][y] = IF q = r /\ y = x THEN step ELSE at[q][y]
  BY TaskIs DEF TInv
<1>2. ASSUME NEW q \in Requests, NEW b \in Apps, Reading(q, b)'
      PROVE  Reading(q, b) /\ seen'[q][b] = seen[q][b]
  BY <1>1, <1>2, AppThings DEF Reading
<1> QED
  BY <1>2 DEF NoNews

LEMMA EndNoNews ==
  ASSUME TInv, NEW r \in Requests, End(r), UNCHANGED storing
  PROVE  NoNews
<1>1. ASSUME NEW q \in Requests, NEW b \in Apps, Reading(q, b)'
      PROVE  Reading(q, b) /\ seen'[q][b] = seen[q][b]
  <2>1. CASE q = r
    <3>1. at'[r][b] \in Making
      BY <1>1, <2>1, EndIs DEF Reading, TInv
    <3>2. at[r][b] \in Making /\ seen'[r][b] = seen[r][b]
      BY <3>1, EndIs, AppThings DEF TInv, Making
    <3> QED
      BY <2>1, <3>2 DEF Reading
  <2>2. CASE q # r
    BY <1>1, <2>2, EndIs DEF Reading, TInv
  <2> QED
    BY <2>1, <2>2
<1> QED
  BY <1>1 DEF NoNews

(* A request goes on to a step that is not listCollect.                    *)
LEMMA GoNoNews ==
  ASSUME TInv, NEW r \in Requests, NEW main, main # "listCollect", Goto(r, main),
         UNCHANGED <<seen, storing>>,
         \A q \in Requests : q # r => at'[q] = at[q],
         \A b \in Apps : at'[r][b] \in Making => at[r][b] \in Making
  PROVE  NoNews
<1>1. \A q \in Requests : pc'[q] = IF q = r THEN main ELSE pc[q]
  BY GotoIs DEF TInv
<1> QED
  BY <1>1 DEF NoNews, Reading

LEMMA CopiesTraced ==
  ASSUME TInv, [Next]_vars
  PROVE  MadeTraced /\ KeptTraced
<1>1. ASSUME NEW r \in Requests, NEW a \in Apps, Bust(r, a)
      PROVE  MadeTraced /\ KeptTraced
  <2>1. NoNews
    BY <1>1, TaskNoNews, AppThings DEF Bust, Making
  <2>2. list' = <<>> /\ \A b \in Apps : cached'[b] = cached[b] \/ cached'[b] = Miss
    BY <1>1 DEF Bust, Store, TInv, DataOK
  <2>3. KeptTraced
    BY <2>2 DEF KeptTraced, Kept
  <2> QED
    BY <2>1, <2>3, NoNewsTraced
<1>2. ASSUME NEW r \in Requests, NEW a \in Apps, Get(r, a)
      PROVE  MadeTraced /\ KeptTraced
  <2>1. PICK step : Task(r, a, step) /\ step \notin Making /\ (step = "none" => ~Awaited(r, a))
    BY <1>2 DEF Get, Finish, Result, Making
  <2>2. NoNews
    BY <1>2, <2>1, TaskNoNews, AppThings DEF Get, caches, Awaited
  <2>3. KeptTraced
    BY <1>2, KeptStays DEF Get, caches
  <2> QED
    BY <2>2, <2>3, NoNewsTraced
<1>3. ASSUME NEW r \in Requests, NEW a \in Apps, ReadRow(r, a)
      PROVE  MadeTraced /\ KeptTraced
  <2>1. \A q \in Requests, y \in Things : at'[q][y] = IF q = r /\ y = a THEN "collect" ELSE at[q][y]
    BY <1>3, TaskIs, AppThings DEF ReadRow, TInv
  <2>2. \A q \in Requests, b \in Apps :
           seen'[q][b] = IF q = r /\ b = a THEN OfRow(row[a]) ELSE seen[q][b]
    BY <1>3, SeesIs DEF ReadRow, TInv
  <2>3. UNCHANGED <<pc, storing, row, debit, cached, list>>
    BY <1>3 DEF ReadRow, caches, database
  <2>4. MadeTraced
    BY <2>1, <2>2, <2>3, AppThings DEF MadeTraced, Made, Reading
  <2> QED
    BY <2>3, <2>4, KeptStays
<1>4. ASSUME NEW r \in Requests, NEW a \in Apps, Collect(r, a)
      PROVE  MadeTraced /\ KeptTraced
  <2>1. PICK s \in Collected(seen[r][a].row, a) : Refetch(r, a, s) /\ Sees(r, a, s)
    BY <1>4 DEF Collect
  <2>2. \A q \in Requests, y \in Things : at'[q][y] = IF q = r /\ y = a THEN "fill" ELSE at[q][y]
    BY <1>4, TaskIs, AppThings DEF Collect, TInv
  <2>3. \A q \in Requests, b \in Apps : seen'[q][b] = IF q = r /\ b = a THEN s ELSE seen[q][b]
    BY <2>1, SeesIs DEF TInv
  <2>4. UNCHANGED <<pc, row, debit, cached, list>> /\ storing' \subseteq storing \cup {<<r, a, s>>}
    BY <1>4, <2>1 DEF Collect, Refetch, database
  <2>5. Made(a, seen[r][a]) /\ seen[r][a] \in HatApplication
    BY <1>4 DEF Collect, Made, Reading, Making, TInv, ControlOK
  <2>6. ASSUME NEW b \in Apps, NEW v \in HatApplication, Made(b, v)'
        PROVE  Made(b, v) \/ (b = a /\ v = s)
    BY <2>2, <2>3, <2>4, <2>6, AppThings DEF Made, Reading
  <2>7. MadeTraced
    BY <2>1, <2>4, <2>5, <2>6 DEF MadeTraced
  <2> QED
    BY <2>4, <2>7, KeptStays
<1>5. ASSUME NEW r \in Requests, NEW a \in Apps, Fill(r, a)
      PROVE  MadeTraced /\ KeptTraced
  <2>1. PICK step : Task(r, a, step) /\ step \notin Making /\ (step = "none" => ~Awaited(r, a))
    BY <1>5 DEF Fill, Finish, Result, Making
  <2>2. \A q \in Requests, b \in Apps : q # r \/ b # a => seen'[q][b] = seen[q][b]
    BY <1>5, SeesIs DEF Fill, TInv
  <2>3. NoNews
    BY <1>5, <2>1, <2>2, TaskNoNews, AppThings DEF Fill, Awaited
  <2>4. UNCHANGED list /\ \A b \in Apps : cached'[b] = IF b = a THEN seen[r][a] ELSE cached[b]
    BY <1>5 DEF Fill, Store, TInv, DataOK
  <2>5. Made(a, seen[r][a])
    BY <1>5 DEF Fill, Made, Reading, Making
  <2>6. KeptTraced
    BY <2>4, <2>5 DEF KeptTraced, Kept
  <2> QED
    BY <2>3, <2>6, NoNewsTraced
<1>6. ASSUME NEW r \in Requests, NEW a \in Apps, ListCollect(r, a)
      PROVE  MadeTraced /\ KeptTraced
  <2>1. PICK s \in Collected(seen[r][a].row, a) :
          Refetch(r, a, s) /\ Sees(r, a, IF pc[r] = "listCollect" THEN s ELSE Miss)
    BY <1>6 DEF ListCollect
  <2>2. \A q \in Requests, y \in Things : at'[q][y] = IF q = r /\ y = a THEN "none" ELSE at[q][y]
    BY <1>6, TaskIs, AppThings DEF ListCollect, TInv
  <2>3. \A q \in Requests, b \in Apps :
           seen'[q][b] = IF q = r /\ b = a THEN IF pc[r] = "listCollect" THEN s ELSE Miss
                         ELSE seen[q][b]
    BY <2>1, SeesIs DEF TInv
  <2>4. UNCHANGED <<pc, row, debit, cached, list>> /\ storing' \subseteq storing \cup {<<r, a, s>>}
    BY <1>6, <2>1 DEF ListCollect, Refetch, database
  <2>5. Made(a, seen[r][a]) /\ seen[r][a] \in HatApplication
    BY <1>6 DEF ListCollect, Made, Reading, Making, TInv, ControlOK
  <2>6. ASSUME NEW b \in Apps, NEW v \in HatApplication, Made(b, v)'
        PROVE  Made(b, v) \/ (b = a /\ v = s)
    BY <2>2, <2>3, <2>4, <2>6, AppThings DEF Made, Reading, Making
  <2>7. MadeTraced
    BY <2>1, <2>4, <2>5, <2>6 DEF MadeTraced
  <2> QED
    BY <2>4, <2>7, KeptStays
<1>7. ASSUME NEW r \in Requests, NEW a \in Apps, EnableRow(r, a)
      PROVE  MadeTraced /\ KeptTraced
  <2>1. NoNews
    BY <1>7, TaskNoNews, AppThings DEF EnableRow, caches, Making
  <2>2. KeptTraced
    BY <1>7, KeptStays DEF EnableRow, caches
  <2> QED
    BY <2>1, <2>2, NoNewsTraced
<1>8. ASSUME NEW r \in Requests, NEW t \in Tools, ToolGet(r, t)
      PROVE  MadeTraced /\ KeptTraced
  <2>1. NoNews
    BY <1>8, TaskNoNews, AppThings, ConstantsAssumption DEF ToolGet, Finish, caches, Making
  <2>2. KeptTraced
    BY <1>8, KeptStays DEF ToolGet, caches
  <2> QED
    BY <2>1, <2>2, NoNewsTraced
<1>9. ASSUME NEW r \in Requests, NEW t \in Tools, ToolSave(r, t)
      PROVE  MadeTraced /\ KeptTraced
  <2>1. NoNews
    BY <1>9, TaskNoNews, AppThings DEF ToolSave, caches, Making
  <2>2. KeptTraced
    BY <1>9, KeptStays DEF ToolSave, caches
  <2> QED
    BY <2>1, <2>2, NoNewsTraced
<1>10. ASSUME NEW r \in Requests, StatusAnswered(r) \/ DependenciesSetUp(r) \/ Revert(r) \/ Fails(r)
      PROVE  MadeTraced /\ KeptTraced
  <2>1. NoNews
    BY <1>10, EndNoNews DEF StatusAnswered, DependenciesSetUp, Revert, Fails, caches
  <2>2. KeptTraced
    BY <1>10, KeptStays DEF StatusAnswered, DependenciesSetUp, Revert, Fails, caches
  <2> QED
    BY <2>1, <2>2, NoNewsTraced
<1>11. ASSUME NEW r \in Requests, ListGet(r)
      PROVE  MadeTraced /\ KeptTraced
  <2>1. UNCHANGED <<row, debit, cached, list, storing>>
    BY <1>11 DEF ListGet, database, caches
  <2>2. CASE End(r)
    BY <2>1, <2>2, EndNoNews, NoNewsTraced, KeptStays
  <2>3. CASE ~End(r)
    <3>1. /\ seen' = [seen EXCEPT ![r] = [a \in Apps |-> OfRow(row[a])]]
          /\ Goto(r, "listCollect")
          /\ at' = [at EXCEPT ![r] = [x \in Things |-> IF x \in Apps THEN "gather" ELSE "none"]]
      BY <1>11, <2>3 DEF ListGet
    <3>2. /\ \A b \in Apps : seen'[r][b] = OfRow(row[b])
          /\ \A q \in Requests : q # r => seen'[q] = seen[q] /\ at'[q] = at[q]
          /\ \A q \in Requests : pc'[q] = IF q = r THEN "listCollect" ELSE pc[q]
      BY <3>1, GotoIs DEF TInv, ControlOK
    <3>3. MadeTraced
      BY <2>1, <3>2 DEF MadeTraced, Made, Reading
    <3> QED
      BY <2>1, <3>3, KeptStays
  <2> QED
    BY <2>2, <2>3
<1>12. ASSUME NEW r \in Requests, ListFill(r)
      PROVE  MadeTraced /\ KeptTraced
  <2>1. NoNews
    BY <1>12, EndNoNews DEF ListFill
  <2>2. \A b \in Apps : Made(b, seen[r][b])
    BY <1>12, AppThings DEF ListFill, Made, Reading, NoTasks
  <2>3. UNCHANGED cached /\ (list' = seen[r] \/ list' = list)
    BY <1>12 DEF ListFill
  <2>4. KeptTraced
    BY <2>2, <2>3 DEF KeptTraced, Kept
  <2> QED
    BY <2>1, <2>4, NoNewsTraced
<1>13. ASSUME NEW r \in Requests, EnableDebit(r)
      PROVE  MadeTraced /\ KeptTraced
  <2>1. NoNews
    <3>1. \A q \in Requests : q # r => at'[q] = at[q]
      BY <1>13 DEF EnableDebit, Task, TInv, ControlOK
    <3>2. \A b \in Apps : at'[r][b] \in Making => at[r][b] \in Making
      <4>1. app[r] \in Things
        BY AppThings DEF TInv, ControlOK
      <4> QED
        BY <1>13, <4>1, TaskIs, AppThings DEF EnableDebit, Making, TInv
    <3> QED
      BY <1>13, <3>1, <3>2, GoNoNews DEF EnableDebit, caches
  <2>2. KeptTraced
    BY <1>13, KeptStays DEF EnableDebit, caches
  <2> QED
    BY <2>1, <2>2, NoNewsTraced
<1>14. ASSUME NEW r \in Requests, IsSetUp(r)
      PROVE  MadeTraced /\ KeptTraced
  <2>1. KeptTraced
    BY <1>14, KeptStays DEF IsSetUp, caches
  <2>2. NoNews
    <3>1. CASE End(r)
      BY <1>14, <3>1, EndNoNews DEF IsSetUp, caches
    <3>2. CASE ~End(r)
      <4>1. /\ Goto(r, "check") /\ UNCHANGED <<seen, storing>>
            /\ at' = [at EXCEPT ![r] = [x \in Things |->
                         IF x \in Dependencies[app[r]] \cap Apps THEN "get" ELSE "none"]]
        BY <1>14, <3>2 DEF IsSetUp, caches
      <4>2. \A q \in Requests : q # r => at'[q] = at[q]
        BY <4>1 DEF TInv, ControlOK
      <4>3. \A b \in Apps : at'[r][b] \notin Making
        BY <4>1, AppThings DEF TInv, ControlOK, Making
      <4> QED
        BY <4>1, <4>2, <4>3, GoNoNews
    <3> QED
      BY <3>1, <3>2
  <2> QED
    BY <2>1, <2>2, NoNewsTraced
<1>15. ASSUME NEW r \in Requests, NextStage(r)
      PROVE  MadeTraced /\ KeptTraced
  <2>1. KeptTraced
    BY <1>15, KeptStays DEF NextStage, caches
  <2>2. PICK things \in {Apps, Tools}, from \in {"unready", "none"},
             step \in {"enableRow", "toolGet", "toolSave"}, main \in Stages :
               Begin(r, things, from, step) /\ Goto(r, main)
    BY <1>15 DEF NextStage, Stages
  <2>3. \A q \in Requests : q # r => at'[q] = at[q]
    BY <2>2 DEF Begin, TInv, ControlOK
  <2>4. \A b \in Apps : at'[r][b] \in Making => at[r][b] \in Making
    BY <2>2, AppThings DEF Begin, Making, TInv, ControlOK
  <2>5. main # "listCollect" /\ UNCHANGED <<seen, storing>>
    BY <1>15, <2>2 DEF Stages, NextStage, caches
  <2>6. NoNews
    BY <2>2, <2>3, <2>4, <2>5, GoNoNews
  <2> QED
    BY <2>1, <2>6, NoNewsTraced
<1>16. ASSUME NEW r \in Requests, DependencyFailed(r)
      PROVE  MadeTraced /\ KeptTraced
  <2>1. KeptTraced
    BY <1>16, KeptStays DEF DependencyFailed, caches
  <2>2. /\ Goto(r, "status") /\ UNCHANGED <<seen, storing>>
        /\ at' = [at EXCEPT ![r] = [Without(r) EXCEPT ![app[r]] = "bust"]]
    BY <1>16 DEF DependencyFailed, caches
  <2>3. \A q \in Requests : q # r => at'[q] = at[q]
    BY <2>2 DEF TInv, ControlOK
  <2>4. at'[r] = [Without(r) EXCEPT ![app[r]] = "bust"]
    BY <2>2 DEF TInv, ControlOK
  <2>5. \A b \in Apps : at'[r][b] \in Making => at[r][b] \in Making
    BY <2>4, AppThings DEF Without, Making
  <2>6. NoNews
    BY <2>2, <2>3, <2>5, GoNoNews
  <2> QED
    BY <2>1, <2>6, NoNewsTraced
<1>17. ASSUME NEW r \in Requests, SetupFailed(r) \/ DisableRow(r)
      PROVE  MadeTraced /\ KeptTraced
  <2>1. app[r] \in Things
    BY AppThings DEF TInv, ControlOK
  <2>2. \A q \in Requests : q # r => at'[q] = at[q]
    BY <1>17 DEF SetupFailed, DisableRow, Task, TInv, ControlOK
  <2>3. \A b \in Apps : at'[r][b] \in Making => at[r][b] \in Making
    BY <1>17, <2>1, TaskIs, AppThings DEF SetupFailed, DisableRow, Making, TInv
  <2>4. NoNews
    BY <1>17, <2>2, <2>3, GoNoNews DEF SetupFailed, DisableRow, caches
  <2>5. KeptTraced
    BY <1>17, KeptStays DEF SetupFailed, DisableRow, caches
  <2> QED
    BY <2>4, <2>5, NoNewsTraced
<1>18. ASSUME NEW r \in Requests, DisableDebit(r) \/ ListCall(r)
      PROVE  MadeTraced /\ KeptTraced
  <2>1. NoNews
    BY <1>18, GoNoNews DEF DisableDebit, ListCall, caches
  <2>2. KeptTraced
    BY <1>18, KeptStays DEF DisableDebit, ListCall, caches
  <2> QED
    BY <2>1, <2>2, NoNewsTraced
<1>19. ASSUME NEW r \in Requests, NEW a \in Apps, NEW step \in {"get", "bust"}, StatusCall(r, a, step)
      PROVE  MadeTraced /\ KeptTraced
  <2>1. \A q \in Requests : q # r => at'[q] = at[q]
    BY <1>19 DEF StatusCall, Task, TInv, ControlOK
  <2>2. \A b \in Apps : at'[r][b] \in Making => at[r][b] \in Making
    BY <1>19, TaskIs, AppThings DEF StatusCall, Making, TInv
  <2>3. NoNews
    BY <1>19, <2>1, <2>2, GoNoNews DEF StatusCall, caches
  <2>4. KeptTraced
    BY <1>19, KeptStays DEF StatusCall, caches
  <2> QED
    BY <2>3, <2>4, NoNewsTraced
<1>20. ASSUME NEW r \in Requests, NEW a \in Apps, NEW main \in {"enableDebit", "disableDebit"}, OwnerCall(r, main, a)
      PROVE  MadeTraced /\ KeptTraced
  <2>1. NoNews
    BY <1>20, GoNoNews DEF OwnerCall, caches
  <2>2. KeptTraced
    BY <1>20, KeptStays DEF OwnerCall, caches
  <2> QED
    BY <2>1, <2>2, NoNewsTraced
<1>21. ASSUME NEW r \in Requests, NEW x \in Things, TaskFails(r, x)
      PROVE  MadeTraced /\ KeptTraced
  <2>1. PICK step : Task(r, x, step) /\ step \notin Making /\ (step = "none" => ~Awaited(r, x))
    BY <1>21 DEF TaskFails, Finish, Making
  <2>2. \A q \in Requests, b \in Apps : q # r \/ b # x => seen'[q][b] = seen[q][b]
    BY <1>21 DEF TaskFails, TInv, ControlOK
  <2>3. NoNews
    BY <1>21, <2>1, <2>2, TaskNoNews DEF TaskFails, caches, Awaited
  <2>4. KeptTraced
    BY <1>21, KeptStays DEF TaskFails, caches
  <2> QED
    BY <2>3, <2>4, NoNewsTraced
<1>22. ASSUME NEW r \in Requests, NEW a \in Apps, NEW s \in HatApplication, Stored(r, a, s)
      PROVE  MadeTraced /\ KeptTraced
  <2>1. NoNews
    BY <1>22 DEF Stored, requests, NoNews, Reading
  <2>2. Made(a, s)
    BY <1>22 DEF Stored, Made
  <2>3. UNCHANGED list /\ \A b \in Apps : cached'[b] = cached[b] \/ (b = a /\ cached'[b] = s)
    BY <1>22 DEF Stored, Store, TInv, DataOK
  <2>4. KeptTraced
    BY <2>2, <2>3 DEF KeptTraced, Kept
  <2> QED
    BY <2>1, <2>4, NoNewsTraced
<1>23. ASSUME NEW a \in Apps, DirectEnable(a) \/ DirectDisable(a)
      PROVE  MadeTraced /\ KeptTraced
  <2>1. NoNews
    BY <1>23 DEF DirectEnable, DirectDisable, caches, requests, NoNews, Reading
  <2>2. KeptTraced
    BY <1>23, KeptStays DEF DirectEnable, DirectDisable, caches
  <2> QED
    BY <2>1, <2>2, NoNewsTraced
<1>24. ASSUME NEW a \in Apps, Expire(a)
      PROVE  MadeTraced /\ KeptTraced
  <2>1. NoNews
    BY <1>24 DEF Expire, requests, NoNews, Reading
  <2>2. UNCHANGED list /\ \A b \in Apps : cached'[b] = cached[b] \/ cached'[b] = Miss
    BY <1>24 DEF Expire, Store, TInv, DataOK
  <2>3. KeptTraced
    BY <2>2 DEF KeptTraced, Kept
  <2> QED
    BY <2>1, <2>3, NoNewsTraced
<1>25. ASSUME NEW t \in Tools, ToolSwitch(t)
      PROVE  MadeTraced /\ KeptTraced
  <2>1. NoNews
    BY <1>25 DEF ToolSwitch, caches, requests, NoNews, Reading
  <2>2. KeptTraced
    BY <1>25, KeptStays DEF ToolSwitch, caches
  <2> QED
    BY <2>1, <2>2, NoNewsTraced
<1>26. CASE ExpireList \/ UNCHANGED vars
  <2>1. NoNews
    BY <1>26 DEF ExpireList, vars, requests, NoNews, Reading
  <2>2. UNCHANGED cached /\ (list' = list \/ list' = <<>>)
    BY <1>26 DEF ExpireList, vars
  <2>3. KeptTraced
    BY <2>2 DEF KeptTraced, Kept
  <2> QED
    BY <2>1, <2>3, NoNewsTraced
<1>27. ASSUME NEW p \in storing, Stored(p[1], p[2], p[3])
      PROVE  MadeTraced /\ KeptTraced
  <2>1. p[1] \in Requests /\ p[2] \in Apps /\ p[3] \in HatApplication
    BY StoringParts DEF TInv
  <2> QED
    BY <1>27, <1>22, <2>1
<1> QED
  BY <1>1, <1>2, <1>3, <1>4, <1>5, <1>6, <1>7, <1>8, <1>9, <1>10, <1>11, <1>12, <1>13,
     <1>14, <1>15, <1>16, <1>17, <1>18, <1>19, <1>20, <1>21, <1>22, <1>23, <1>24,
     <1>25, <1>26, <1>27
     DEF Next, Call, Step, AppTask, ToolTask, Main
-----------------------------------------------------------------------------
RowMissed(a) == <<a, "row">> \in missed
DebitMissed(a) == <<a, "debit">> \in missed
(* The copies of a are yet to be dropped, or that was lost; a disabling of *)
(* it has changed the debit and not the row, or was lost there.            *)
Renewing(a) == \E r \in Requests : at[r][a] = "renew"
Pending(a) == <<a, "renew">> \in abandoned \/ Renewing(a)
Disabling(a) == \E r \in Requests : pc[r] = "disableRow" /\ app[r] = a
Halved(a) == <<a, "disableRow">> \in abandoned \/ Disabling(a)

NoneMade(a) == \A s \in HatApplication : ~Made(a, s)
NoneKept(a) == \A s \in HatApplication : ~Kept(a, s)

(* What a step does to a is told to the histories, or there is no copy.    *)
RowTold(a) == row'[a] # row[a] => Renewing(a)' /\ (RowMissed(a)' \/ NoneMade(a))
DebitTold(a) == debit[a] /\ ~debit'[a] => /\ DebitMissed(a)' \/ NoneMade(a)
                                          /\ DebitMissed(a)' \/ NoneKept(a) \/ Halved(a)'
Gone(a) == NoneMade(a)' /\ NoneKept(a)'
MissedStays(a) == /\ RowMissed(a) => RowMissed(a)' \/ Gone(a)
                  /\ DebitMissed(a) => DebitMissed(a)' \/ Gone(a)
PendingStays(a) == /\ Pending(a) => Pending(a)' \/ NoneKept(a)'
                   /\ Halved(a) => Halved(a)' \/ Pending(a)' \/ NoneKept(a)'
Told(a) == RowTold(a) /\ DebitTold(a) /\ MissedStays(a) /\ PendingStays(a)

(* A step that changes no row and no active debit, and drops nothing.      *)
Calm == /\ UNCHANGED row /\ \A a \in Apps : debit[a] => debit'[a]
        /\ missed \subseteq missed' /\ abandoned \subseteq abandoned'
        /\ \A q \in Requests, a \in Apps : at[q][a] = "renew" => at'[q][a] = "renew"
        /\ \A q \in Requests : pc[q] = "disableRow" => pc'[q] = "disableRow" /\ app'[q] = app[q]

LEMMA CalmTold == ASSUME Calm PROVE \A a \in Apps : Told(a)
BY DEF Calm, Told, RowTold, DebitTold, MissedStays, PendingStays, RowMissed, DebitMissed,
       Pending, Renewing, Halved, Disabling

LEMMA TaskCalm ==
  ASSUME TInv, NEW r \in Requests, NEW x \in Things, NEW step, Task(r, x, step),
         at[r][x] # "renew", UNCHANGED <<app, pc, row, debit, missed, abandoned>>
  PROVE  Calm
<1>1. \A q \in Requests, y \in Things : at'[q][y] = IF q = r /\ y = x THEN step ELSE at[q][y]
  BY TaskIs DEF TInv
<1> QED
  BY <1>1, AppThings DEF Calm

LEMMA EndCalm ==
  ASSUME TInv, NEW r \in Requests, End(r), pc[r] # "disableRow",
         UNCHANGED <<row, debit, missed, abandoned>>
  PROVE  Calm
<1>1. \A q \in Requests, a \in Apps : at[q][a] = "renew" => at'[q][a] = "renew"
  BY EndIs, AppThings DEF TInv, Ended
<1>2. \A q \in Requests : pc[q] = "disableRow" => pc'[q] = "disableRow" /\ app'[q] = app[q]
  BY EndIs DEF TInv
<1> QED
  BY <1>1, <1>2 DEF Calm

LEMMA GoCalm ==
  ASSUME TInv, NEW r \in Requests, NEW main, Goto(r, main), pc[r] # "disableRow",
         UNCHANGED <<row, missed, abandoned>>, \A a \in Apps : debit[a] => debit'[a],
         \A q \in Requests : q # r => at'[q] = at[q] /\ app'[q] = app[q],
         \A a \in Apps : at[r][a] = "renew" => at'[r][a] = "renew"
  PROVE  Calm
<1>1. \A q \in Requests : pc'[q] = IF q = r THEN main ELSE pc[q]
  BY GotoIs DEF TInv
<1> QED
  BY <1>1 DEF Calm

LEMMA BeingReadMade == \A a \in Apps : ~BeingRead(a) => NoneMade(a)
BY DEF BeingRead, Reads, NoneMade, Made, Reading

LEMMA CopiedKept == \A a \in Apps : ~Copied(a) => NoneMade(a) /\ NoneKept(a)
BY BeingReadMade DEF Copied, NoneKept, Kept

(* The debit of a goes off while nothing else changes.                     *)
LEMMA DisablesTold ==
  ASSUME TInv, NEW a \in Apps, NEW copies, DisableDebitOf(a, copies), UNCHANGED row,
         ~copies => NoneMade(a) /\ (NoneKept(a) \/ Halved(a)'),
         copies \/ ~copies,
         \A q \in Requests, b \in Apps : at[q][b] = "renew" => at'[q][b] = "renew",
         \A q \in Requests : pc[q] = "disableRow" => pc'[q] = "disableRow" /\ app'[q] = app[q]
  PROVE  \A b \in Apps : Told(b)
<1>1. /\ \A b \in Apps : b # a => debit'[b] = debit[b]
      /\ abandoned' = abandoned \ {<<a, "enableRow">>}
      /\ missed' = missed \/ missed' = missed \cup {<<a, "debit">>}
      /\ copies => <<a, "debit">> \in missed'
  BY DEF DisableDebitOf, Missing, TInv, DataOK
<1>2. ASSUME NEW b \in Apps
      PROVE  Told(b)
  <2>1. RowTold(b)
    BY DEF RowTold
  <2>2. DebitTold(b)
    BY <1>1 DEF DebitTold, DebitMissed
  <2>3. MissedStays(b)
    BY <1>1 DEF MissedStays, RowMissed, DebitMissed
  <2>4. PendingStays(b)
    BY <1>1 DEF PendingStays, Pending, Renewing, Halved, Disabling
  <2> QED
    BY <2>1, <2>2, <2>3, <2>4 DEF Told
<1> QED
  BY <1>2

LEMMA ChangesTold ==
  ASSUME TInv, [Next]_vars
  PROVE  \A b \in Apps : Told(b)
<1>1. ASSUME NEW r \in Requests, NEW a \in Apps, Bust(r, a)
      PROVE  \A b \in Apps : Told(b)
  <2>1. /\ at[r][a] \in {"bust", "renew"} /\ UNCHANGED <<row, debit, pc, app, seen, storing>>
        /\ list' = <<>> /\ cached' = [cached EXCEPT ![a] = Miss]
    BY <1>1 DEF Bust, Store, database
  <2>2. \A q \in Requests, y \in Things : at'[q][y] = IF q = r /\ y = a THEN "get" ELSE at[q][y]
    BY <1>1, TaskIs, AppThings DEF Bust, TInv
  <2>3. NoneKept(a)'
    BY <2>1 DEF NoneKept, Kept, TInv, DataOK
  <2>4. NoneMade(a) => NoneMade(a)'
    BY <2>1, <2>2, AppThings DEF NoneMade, Made, Reading, Making
  <2>5. /\ BeingRead(a) => UNCHANGED <<abandoned, missed>>
        /\ ~BeingRead(a) => /\ abandoned' = abandoned \ ({a} \X {"disableRow", "renew"})
                            /\ missed' = missed \ ({a} \X Columns)
    BY <1>1 DEF Bust
  <2>6. ASSUME NEW b \in Apps
        PROVE  Told(b)
    <3>1. RowTold(b) /\ DebitTold(b)
      BY <2>1 DEF RowTold, DebitTold
    <3>2. CASE b = a
      <4>1. MissedStays(a)
        <5>1. CASE BeingRead(a)
          BY <2>5, <5>1 DEF MissedStays, RowMissed, DebitMissed
        <5>2. CASE ~BeingRead(a)
          BY <2>3, <2>4, <5>2, BeingReadMade DEF MissedStays, Gone
        <5> QED
          BY <5>1, <5>2
      <4>2. PendingStays(a)
        BY <2>3 DEF PendingStays
      <4> QED
        BY <3>1, <3>2, <4>1, <4>2 DEF Told
    <3>3. CASE b # a
      <4>1. /\ \A c \in Columns : <<b, c>> \in missed => <<b, c>> \in missed'
            /\ \A c \in {"disableRow", "renew"} : <<b, c>> \in abandoned => <<b, c>> \in abandoned'
        BY <2>5, <3>3
      <4>2. MissedStays(b)
        BY <4>1 DEF MissedStays, RowMissed, DebitMissed, Columns
      <4>3. Renewing(b) => Renewing(b)'
        BY <2>2, <3>3, AppThings DEF Renewing
      <4>4. PendingStays(b)
        BY <2>1, <4>1, <4>3 DEF PendingStays, Pending, Halved, Disabling
      <4> QED
        BY <3>1, <4>2, <4>4 DEF Told
    <3> QED
      BY <3>2, <3>3
  <2> QED
    BY <2>6
<1>2. ASSUME NEW r \in Requests, NEW a \in Apps, Get(r, a) \/ Fill(r, a)
      PROVE  \A b \in Apps : Told(b)
  <2>1. PICK step : Task(r, a, step)
    BY <1>2 DEF Get, Fill, Finish
  <2>2. Calm
    BY <1>2, <2>1, TaskCalm, AppThings DEF Get, Fill, database, mishaps
  <2> QED
    BY <2>2, CalmTold
<1>3. ASSUME NEW r \in Requests, NEW a \in Apps, ReadRow(r, a) \/ Collect(r, a) \/ ListCollect(r, a)
      PROVE  \A b \in Apps : Told(b)
  <2>1. Calm
    BY <1>3, TaskCalm, AppThings DEF ReadRow, Collect, ListCollect, database, mishaps
  <2> QED
    BY <2>1, CalmTold
<1>4. ASSUME NEW r \in Requests, NEW a \in Apps, EnableRow(r, a)
      PROVE  \A b \in Apps : Told(b)
  <2>1. /\ UNCHANGED <<debit, app, pc, abandoned>>
        /\ \A b \in Apps : b # a => row'[b] = row[b]
    BY <1>4 DEF EnableRow, TInv, DataOK
  <2>2. \A q \in Requests, y \in Apps : at[q][y] = "renew" => at'[q][y] = "renew"
    BY <1>4, TaskIs, AppThings DEF EnableRow, TInv
  <2>3. Missing(a, "row", BeingRead(a)) /\ (BeingRead(a) \/ ~BeingRead(a))
    BY <1>4 DEF EnableRow
  <2>4. at'[r][a] = "renew"
    BY <1>4, TaskIs, AppThings DEF EnableRow, TInv
  <2>5. ASSUME NEW b \in Apps
        PROVE  Told(b)
    <3>1. RowTold(b)
      BY <2>1, <2>2, <2>3, <2>4, BeingReadMade DEF RowTold, Renewing, RowMissed, Missing
    <3>2. DebitTold(b)
      BY <2>1 DEF DebitTold
    <3>3. MissedStays(b)
      BY <2>3 DEF MissedStays, RowMissed, DebitMissed, Missing
    <3>4. PendingStays(b)
      BY <2>1, <2>2, <2>4 DEF PendingStays, Pending, Renewing, Halved, Disabling
    <3> QED
      BY <3>1, <3>2, <3>3, <3>4 DEF Told
  <2> QED
    BY <2>5
<1>5. ASSUME NEW r \in Requests, NEW t \in Tools, ToolGet(r, t) \/ ToolSave(r, t)
      PROVE  \A b \in Apps : Told(b)
  <2>1. PICK step : Task(r, t, step)
    BY <1>5 DEF ToolGet, ToolSave, Finish
  <2>2. Calm
    BY <1>5, <2>1, TaskCalm, AppThings DEF ToolGet, ToolSave, database, mishaps
  <2> QED
    BY <2>2, CalmTold
<1>6. ASSUME NEW r \in Requests, StatusAnswered(r) \/ DependenciesSetUp(r) \/ ListFill(r)
      PROVE  \A b \in Apps : Told(b)
  <2>1. Calm
    BY <1>6, EndCalm
    DEF StatusAnswered, DependenciesSetUp, ListFill, Reported, database, mishaps
  <2> QED
    BY <2>1, CalmTold
<1>7. ASSUME NEW r \in Requests, ListGet(r)
      PROVE  \A b \in Apps : Told(b)
  <2>1. pc[r] = "listGet" /\ UNCHANGED <<row, debit, missed, abandoned>>
    BY <1>7 DEF ListGet, database, mishaps
  <2>2. CASE End(r)
    BY <2>1, <2>2, EndCalm, CalmTold
  <2>3. CASE ~End(r)
    <3>1. Goto(r, "listCollect") /\ \A q \in Requests : q # r => at'[q] = at[q] /\ app'[q] = app[q]
      BY <1>7, <2>3 DEF ListGet, TInv, ControlOK
    <3>2. \A a \in Apps : at[r][a] # "renew"
      BY <2>1, AppThings DEF TInv, Orderly, Alone
    <3> QED
      BY <2>1, <3>1, <3>2, GoCalm, CalmTold
  <2> QED
    BY <2>2, <2>3
<1>8. ASSUME NEW r \in Requests, EnableDebit(r)
      PROVE  \A b \in Apps : Told(b)
  <2>1. app[r] \in Things
    BY AppThings DEF TInv, ControlOK
  <2>2. \A q \in Requests : q # r => at'[q] = at[q] /\ app'[q] = app[q]
    BY <1>8 DEF EnableDebit, Task, TInv, ControlOK
  <2>3. \A a \in Apps : at[r][a] # "renew"
    BY <1>8, AppThings DEF EnableDebit, TInv, Orderly, Alone
  <2>4. \A a \in Apps : debit[a] => debit'[a]
    BY <1>8 DEF EnableDebit, TInv, DataOK
  <2>5. Calm
    BY <1>8, <2>2, <2>3, <2>4, GoCalm DEF EnableDebit
  <2> QED
    BY <2>5, CalmTold
<1>9. ASSUME NEW r \in Requests, IsSetUp(r)
      PROVE  \A b \in Apps : Told(b)
  <2>1. /\ pc[r] = "setup" /\ UNCHANGED <<row, debit, missed, abandoned>>
        /\ at[r][app[r]] \in {"ready", "unready"}
    BY <1>9 DEF IsSetUp, database, mishaps
  <2>2. CASE End(r)
    BY <2>1, <2>2, EndCalm, CalmTold
  <2>3. CASE ~End(r)
    <3>1. Goto(r, "check") /\ \A q \in Requests : q # r => at'[q] = at[q] /\ app'[q] = app[q]
      BY <1>9, <2>3 DEF IsSetUp, TInv, ControlOK
    <3>2. \A a \in Apps : at[r][a] # "renew"
      BY <2>1, AppThings DEF TInv, Orderly
    <3> QED
      BY <2>1, <3>1, <3>2, GoCalm, CalmTold
  <2> QED
    BY <2>2, <2>3
<1>10. ASSUME NEW r \in Requests, NextStage(r)
      PROVE  \A b \in Apps : Told(b)
  <2>1. PICK things \in {Apps, Tools}, from \in {"unready", "none"},
             step \in {"enableRow", "toolGet", "toolSave"}, main \in Stages :
               Begin(r, things, from, step) /\ Goto(r, main) /\ pc[r] \in Stages
    BY <1>10 DEF NextStage, Stages
  <2>2. \A q \in Requests : q # r => at'[q] = at[q] /\ app'[q] = app[q]
    BY <1>10, <2>1 DEF NextStage, Begin, TInv, ControlOK
  <2>3. \A a \in Apps : at[r][a] = "renew" => at'[r][a] = "renew"
    BY <2>1, AppThings DEF Begin, TInv, ControlOK
  <2>4. pc[r] # "disableRow" /\ UNCHANGED <<row, debit, missed, abandoned>>
    BY <1>10, <2>1 DEF NextStage, Stages, database, mishaps
  <2> QED
    BY <2>1, <2>2, <2>3, <2>4, GoCalm, CalmTold
<1>11. ASSUME NEW r \in Requests, DependencyFailed(r)
      PROVE  \A b \in Apps : Told(b)
  <2>1. pc[r] \in Stages /\ UNCHANGED <<row, debit, missed, abandoned, app>>
    BY <1>11 DEF DependencyFailed, database, mishaps
  <2>2. /\ \A q \in Requests : q # r => at'[q] = at[q]
        /\ at'[r] = [Without(r) EXCEPT ![app[r]] = "bust"]
    BY <1>11 DEF DependencyFailed, TInv, ControlOK
  <2>3. \A a \in Apps : at[r][a] = "renew" => at'[r][a] = "renew"
    <3>1. app[r] \in Things /\ at[r][app[r]] = "none"
      BY <2>1, AppThings DEF Orderly, TInv, ControlOK
    <3> QED
      BY <2>2, <3>1, AppThings DEF Without, Ended
  <2>4. pc[r] # "disableRow" /\ Goto(r, "status")
    BY <1>11, <2>1 DEF DependencyFailed, Stages
  <2> QED
    BY <2>1, <2>2, <2>3, <2>4, GoCalm, CalmTold
<1>12. ASSUME NEW r \in Requests, SetupFailed(r)
      PROVE  \A b \in Apps : Told(b)
  <2>1. app[r] \in Things
    BY AppThings DEF TInv, ControlOK
  <2>2. \A q \in Requests : q # r => at'[q] = at[q] /\ app'[q] = app[q]
    BY <1>12 DEF SetupFailed, Task, TInv, ControlOK
  <2>3. \A a \in Apps : at[r][a] # "renew"
    BY <1>12, AppThings DEF SetupFailed, TInv, Orderly
  <2>4. Calm
    BY <1>12, <2>2, <2>3, GoCalm DEF SetupFailed, database, mishaps
  <2> QED
    BY <2>4, CalmTold
<1>13. ASSUME NEW r \in Requests, Revert(r)
      PROVE  \A b \in Apps : Told(b)
  <2>1. app[r] \in Apps /\ pc[r] = "revert" /\ End(r) /\ UNCHANGED row
    BY <1>13 DEF Revert, TInv, ControlOK
  <2>2. \A q \in Requests, a \in Apps : at[q][a] = "renew" => at'[q][a] = "renew"
    BY <2>1, EndIs, AppThings DEF TInv, Ended
  <2>3. \A q \in Requests : pc[q] = "disableRow" => pc'[q] = "disableRow" /\ app'[q] = app[q]
    BY <2>1, EndIs DEF TInv
  <2>4. ~Copied(app[r]) => NoneMade(app[r]) /\ NoneKept(app[r])
    BY <2>1, CopiedKept
  <2> QED
    BY <1>13, <2>1, <2>2, <2>3, <2>4, DisablesTold DEF Revert
<1>14. ASSUME NEW r \in Requests, DisableDebit(r)
      PROVE  \A b \in Apps : Told(b)
  <2>1. app[r] \in Apps /\ pc[r] = "disableDebit" /\ UNCHANGED <<row, app, at>>
    BY <1>14 DEF DisableDebit, TInv, ControlOK
  <2>2. \A q \in Requests : pc'[q] = IF q = r THEN "disableRow" ELSE pc[q]
    BY <1>14, GotoIs DEF DisableDebit, TInv
  <2>3. Halved(app[r])'
    BY <2>1, <2>2 DEF Halved, Disabling
  <2>4. ~BeingRead(app[r]) => NoneMade(app[r])
    BY <2>1, BeingReadMade
  <2>5. ~BeingRead(app[r]) => NoneMade(app[r]) /\ (NoneKept(app[r]) \/ (Halved(app[r]))')
    BY <2>3, <2>4
  <2> QED
    BY <1>14, <2>1, <2>2, <2>3, <2>4, DisablesTold DEF DisableDebit, Halved, Disabling
<1>15. ASSUME NEW r \in Requests, DisableRow(r)
      PROVE  \A b \in Apps : Told(b)
  <2> DEFINE a == app[r]
  <2>0. a \in Apps /\ pc[r] = "disableRow" /\ \A x \in Things : at[r][x] = "none"
    BY <1>15 DEF DisableRow, TInv, ControlOK, Orderly, Alone
  <2>1. /\ UNCHANGED <<debit, app, abandoned>>
        /\ \A b \in Apps : b # a => row'[b] = row[b]
    BY <1>15 DEF DisableRow, TInv, DataOK
  <2>2. \A q \in Requests, y \in Apps : at[q][y] = "renew" => at'[q][y] = "renew"
    BY <1>15, <2>0, TaskIs, AppThings DEF DisableRow, TInv
  <2>3. Missing(a, "row", BeingRead(a)) /\ (BeingRead(a) \/ ~BeingRead(a))
    BY <1>15 DEF DisableRow
  <2>4. at'[r][a] = "renew"
    BY <1>15, <2>0, TaskIs, AppThings DEF DisableRow, TInv
  <2>5. \A q \in Requests : q # r /\ pc[q] = "disableRow" => pc'[q] = "disableRow"
    BY <1>15, GotoIs DEF DisableRow, TInv
  <2>6. ASSUME NEW b \in Apps
        PROVE  Told(b)
    <3>1. RowTold(b)
      BY <2>1, <2>2, <2>3, <2>4, BeingReadMade DEF RowTold, Renewing, RowMissed, Missing
    <3>2. DebitTold(b)
      BY <2>1 DEF DebitTold
    <3>3. MissedStays(b)
      BY <2>3 DEF MissedStays, RowMissed, DebitMissed, Missing
    <3>4. PendingStays(b)
      BY <2>1, <2>2, <2>4, <2>5 DEF PendingStays, Pending, Renewing, Halved, Disabling
    <3> QED
      BY <3>1, <3>2, <3>3, <3>4 DEF Told
  <2> QED
    BY <2>6
<1>16. ASSUME NEW r \in Requests, Fails(r)
      PROVE  \A b \in Apps : Told(b)
  <2>1. End(r) /\ UNCHANGED <<row, debit, missed>> /\ abandoned \subseteq abandoned'
    BY <1>16 DEF Fails, database
  <2>2. \A q \in Requests, a \in Apps : at[q][a] = "renew" => at'[q][a] = "renew"
    BY <2>1, EndIs, AppThings DEF TInv, Ended
  <2>3. \A q \in Requests : q # r => pc'[q] = pc[q] /\ app'[q] = app[q]
    BY <2>1, EndIs DEF TInv
  <2>4. pc[r] = "disableRow" => <<app[r], "disableRow">> \in abandoned'
    BY <1>16 DEF Fails
  <2>5. ASSUME NEW b \in Apps
        PROVE  Told(b)
    <3>1. RowTold(b) /\ DebitTold(b) /\ MissedStays(b)
      BY <2>1 DEF RowTold, DebitTold, MissedStays, RowMissed, DebitMissed
    <3>2. PendingStays(b)
      BY <2>1, <2>2, <2>3, <2>4 DEF PendingStays, Pending, Renewing, Halved, Disabling
    <3> QED
      BY <3>1, <3>2 DEF Told
  <2> QED
    BY <2>5
<1>17. ASSUME NEW r \in Requests, ListCall(r)
      PROVE  \A b \in Apps : Told(b)
  <2>1. Calm
    BY <1>17, GoCalm DEF ListCall, Free, database, mishaps
  <2> QED
    BY <2>1, CalmTold
<1>18. ASSUME NEW r \in Requests, NEW a \in Apps, NEW step \in {"get", "bust"}, StatusCall(r, a, step)
      PROVE  \A b \in Apps : Told(b)
  <2>1. \A q \in Requests : q # r => at'[q] = at[q] /\ app'[q] = app[q]
    BY <1>18 DEF StatusCall, Task, TInv, ControlOK
  <2>2. \A b \in Apps : at[r][b] # "renew"
    BY <1>18, AppThings DEF StatusCall, Free, NoTasks
  <2>3. Calm
    BY <1>18, <2>1, <2>2, GoCalm DEF StatusCall, Free, database, mishaps
  <2> QED
    BY <2>3, CalmTold
<1>19. ASSUME NEW r \in Requests, NEW a \in Apps, NEW main \in {"enableDebit", "disableDebit"}, OwnerCall(r, main, a)
      PROVE  \A b \in Apps : Told(b)
  <2>1. \A q \in Requests : q # r => at'[q] = at[q] /\ app'[q] = app[q]
    BY <1>19 DEF OwnerCall, TInv, ControlOK
  <2>2. Calm
    BY <1>19, <2>1, GoCalm DEF OwnerCall, Free, database, mishaps
  <2> QED
    BY <2>2, CalmTold
<1>20. ASSUME NEW r \in Requests, NEW x \in Things, TaskFails(r, x)
      PROVE  \A b \in Apps : Told(b)
  <2>1. PICK step : Task(r, x, step)
    BY <1>20 DEF TaskFails, Finish
  <2>2. /\ UNCHANGED <<row, debit, missed, app, pc>> /\ abandoned \subseteq abandoned'
        /\ at[r][x] = "renew" => <<x, "renew">> \in abandoned'
    BY <1>20 DEF TaskFails, database
  <2>3. \A q \in Requests, y \in Things : at'[q][y] = IF q = r /\ y = x THEN step ELSE at[q][y]
    BY <2>1, TaskIs DEF TInv
  <2>4. ASSUME NEW b \in Apps
        PROVE  Told(b)
    <3>1. RowTold(b) /\ DebitTold(b) /\ MissedStays(b)
      BY <2>2 DEF RowTold, DebitTold, MissedStays, RowMissed, DebitMissed
    <3>2. PendingStays(b)
      BY <2>2, <2>3, AppThings DEF PendingStays, Pending, Renewing, Halved, Disabling
    <3> QED
      BY <3>1, <3>2 DEF Told
  <2> QED
    BY <2>4
<1>21. ASSUME NEW r \in Requests, NEW a \in Apps, NEW s \in HatApplication, Stored(r, a, s)
      PROVE  \A b \in Apps : Told(b)
  <2>1. Calm
    BY <1>21 DEF Stored, Calm, database, requests, mishaps
  <2> QED
    BY <2>1, CalmTold
<1>22. ASSUME NEW a \in Apps, DirectEnable(a)
      PROVE  \A b \in Apps : Told(b)
  <2>1. \A b \in Apps : debit[b] => debit'[b]
    BY <1>22 DEF DirectEnable, TInv, DataOK
  <2>2. Calm
    BY <1>22, <2>1 DEF DirectEnable, Calm, requests
  <2> QED
    BY <2>2, CalmTold
<1>23. ASSUME NEW a \in Apps, DirectDisable(a)
      PROVE  \A b \in Apps : Told(b)
  <2>1. UNCHANGED <<row, app, pc, at>>
    BY <1>23 DEF DirectDisable, requests
  <2> QED
    BY <1>23, <2>1, CopiedKept, DisablesTold DEF DirectDisable
<1>24. ASSUME NEW a \in Apps, Expire(a)
      PROVE  \A b \in Apps : Told(b)
  <2>1. Calm
    BY <1>24 DEF Expire, Calm, database, requests, mishaps
  <2> QED
    BY <2>1, CalmTold
<1>25. ASSUME NEW t \in Tools, ToolSwitch(t)
      PROVE  \A b \in Apps : Told(b)
  <2>1. Calm
    BY <1>25 DEF ToolSwitch, Calm, requests, mishaps
  <2> QED
    BY <2>1, CalmTold
<1>26. CASE ExpireList \/ UNCHANGED vars
  <2>1. Calm
    BY <1>26 DEF ExpireList, vars, Calm, database, requests, mishaps
  <2> QED
    BY <2>1, CalmTold
<1>27. ASSUME NEW p \in storing, Stored(p[1], p[2], p[3])
      PROVE  \A b \in Apps : Told(b)
  <2>1. p[1] \in Requests /\ p[2] \in Apps /\ p[3] \in HatApplication
    BY StoringParts DEF TInv
  <2> QED
    BY <1>27, <1>21, <2>1
<1> QED
  BY <1>1, <1>2, <1>3, <1>4, <1>5, <1>6, <1>7, <1>8, <1>9, <1>10, <1>11, <1>12, <1>13,
     <1>14, <1>15, <1>16, <1>17, <1>18, <1>19, <1>20, <1>21, <1>22, <1>23, <1>24,
     <1>25, <1>26, <1>27
     DEF Next, Call, Step, AppTask, ToolTask, Main

(* Copies in the making agree with the row, and with the debit if active,  *)
(* or have missed a change; cached ones may have one yet to drop them.     *)
RowsAgree ==
    \A a \in Apps, s \in HatApplication :
      /\ Made(a, s) => s.row = row[a] \/ RowMissed(a)
      /\ Kept(a, s) => s.row = row[a] \/ RowMissed(a) \/ Pending(a)
ActiveAgree ==
    \A a \in DebitApps, s \in HatApplication :
      /\ Made(a, s) /\ s.active => debit[a] \/ DebitMissed(a)
      /\ Kept(a, s) /\ s.active => debit[a] \/ DebitMissed(a) \/ Pending(a) \/ Halved(a)

LEMMA CopiesInit == Init => RowsAgree /\ ActiveAgree
<1>1. Init => \A a \in Apps, s \in HatApplication : ~Made(a, s) /\ ~Kept(a, s)
  BY DEF Init, Made, Kept, Reading, Nothing, NoTasks, Making, Things
<1> QED
  BY <1>1, ConstantsAssumption DEF RowsAgree, ActiveAgree

LEMMA RowsStep == ASSUME TInv, RowsAgree, [Next]_vars PROVE RowsAgree'
<1>1. MadeTraced /\ KeptTraced /\ \A a \in Apps : Told(a)
  BY CopiesTraced, ChangesTold
<1>2. ASSUME NEW a \in Apps, NEW s \in HatApplication
      PROVE  /\ Made(a, s)' => s.row = row'[a] \/ RowMissed(a)'
             /\ Kept(a, s)' => s.row = row'[a] \/ RowMissed(a)' \/ Pending(a)'
  <2>1. /\ row'[a] # row[a] => Renewing(a)' /\ (RowMissed(a)' \/ NoneMade(a))
        /\ RowMissed(a) => RowMissed(a)' \/ Gone(a)
        /\ Pending(a) => Pending(a)' \/ NoneKept(a)'
        /\ Renewing(a)' => Pending(a)'
    BY <1>1 DEF Told, RowTold, MissedStays, PendingStays, Pending
  <2>2. ASSUME Made(a, s)'
        PROVE  s.row = row'[a] \/ RowMissed(a)'
    <3>1. CASE Made(a, s)
      BY <2>1, <2>2, <3>1 DEF RowsAgree, NoneMade, Gone
    <3>2. CASE UNCHANGED <<row, debit>> /\ s = OfRow(row[a])
      BY <3>2 DEF OfRow
    <3>3. ASSUME UNCHANGED <<row, debit>>, NEW o \in HatApplication, Made(a, o),
                 s \in Collected(o.row, a)
          PROVE  s.row = row'[a] \/ RowMissed(a)'
      <4>1. o.row \in Rows
        BY DEF HatApplication
      <4>2. s.row = o.row
        BY <3>3, <4>1, CollectedType DEF TInv
      <4> QED
        BY <2>1, <2>2, <3>3, <4>2 DEF RowsAgree, NoneMade, Gone
    <3> QED
      BY <1>1, <2>2, <3>1, <3>2, <3>3 DEF MadeTraced
  <2>3. ASSUME Kept(a, s)'
        PROVE  s.row = row'[a] \/ RowMissed(a)' \/ Pending(a)'
    <3>1. CASE Kept(a, s)
      BY <2>1, <2>3, <3>1 DEF RowsAgree, NoneKept, Gone
    <3>2. CASE Made(a, s)
      BY <2>1, <2>3, <3>2 DEF RowsAgree, NoneKept, Gone
    <3> QED
      BY <1>1, <2>3, <3>1, <3>2 DEF KeptTraced
  <2> QED
    BY <2>2, <2>3
<1> QED
  BY <1>2 DEF RowsAgree

LEMMA ActiveStep == ASSUME TInv, ActiveAgree, [Next]_vars PROVE ActiveAgree'
<1>1. MadeTraced /\ KeptTraced /\ \A a \in Apps : Told(a)
  BY CopiesTraced, ChangesTold
<1>2. ASSUME NEW a \in DebitApps, NEW s \in HatApplication
      PROVE  /\ Made(a, s)' /\ s.active => debit'[a] \/ DebitMissed(a)'
             /\ Kept(a, s)' /\ s.active =>
                  debit'[a] \/ DebitMissed(a)' \/ Pending(a)' \/ Halved(a)'
  <2>0. a \in Apps
    BY ConstantsAssumption
  <2>1. /\ debit[a] /\ ~debit'[a] => /\ DebitMissed(a)' \/ NoneMade(a)
                                     /\ DebitMissed(a)' \/ NoneKept(a) \/ Halved(a)'
        /\ DebitMissed(a) => DebitMissed(a)' \/ Gone(a)
        /\ Pending(a) => Pending(a)' \/ NoneKept(a)'
        /\ Halved(a) => Halved(a)' \/ Pending(a)' \/ NoneKept(a)'
    BY <1>1, <2>0 DEF Told, DebitTold, MissedStays, PendingStays
  <2>2. ASSUME Made(a, s)', s.active
        PROVE  debit'[a] \/ DebitMissed(a)'
    <3>1. CASE Made(a, s)
      BY <2>1, <2>2, <3>1 DEF ActiveAgree, NoneMade, Gone
    <3>2. CASE UNCHANGED <<row, debit>> /\ s = OfRow(row[a])
      BY <2>2, <3>2 DEF OfRow
    <3>3. ASSUME UNCHANGED <<row, debit>>, NEW o \in HatApplication, s \in Collected(o.row, a)
          PROVE  debit'[a]
      <4>1. o.row \in Rows
        BY DEF HatApplication
      <4> QED
        BY <2>0, <2>2, <3>3, <4>1, CollectedType DEF TInv
    <3> QED
      BY <1>1, <2>0, <2>2, <3>1, <3>2, <3>3 DEF MadeTraced
  <2>3. ASSUME Kept(a, s)', s.active
        PROVE  debit'[a] \/ DebitMissed(a)' \/ Pending(a)' \/ Halved(a)'
    <3>1. CASE Kept(a, s)
      BY <2>1, <2>3, <3>1 DEF ActiveAgree, NoneKept, Gone
    <3>2. CASE Made(a, s)
      BY <2>1, <2>3, <3>2 DEF ActiveAgree, NoneKept, NoneMade, Gone
    <3> QED
      BY <1>1, <2>0, <2>3, <3>1, <3>2 DEF KeptTraced
  <2> QED
    BY <2>2, <2>3
<1> QED
  BY <1>2 DEF ActiveAgree

LEMMA CopiesHold == Spec => [](RowsAgree /\ ActiveAgree)
<1>1. TInv /\ RowsAgree /\ ActiveAgree /\ [Next]_vars => (RowsAgree /\ ActiveAgree)'
  BY RowsStep, ActiveStep
<1> QED
  BY <1>1, CopiesInit, TypeHolds, PTL DEF Spec

LEMMA KeptCopies ==
  ASSUME TInv, NEW a \in Apps
  PROVE  /\ cached[a] # Miss => cached[a] \in HatApplication /\ Kept(a, cached[a])
         /\ list # <<>> => list[a] \in HatApplication /\ Kept(a, list[a])
BY DEF TInv, DataOK, Kept

LEMMA QuietTasks ==
  ASSUME Quiet, NEW a \in Apps
  PROVE  ~Renewing(a) /\ ~Disabling(a)
BY AppThings DEF Quiet, Free, NoTasks, Renewing, Disabling

(* CachesAgree: at rest, a cached status has the row of its application,   *)
(* unless a change was lost before it dropped the copies or came while a   *)
(* status was being made or stored.  The status may be stored late, by a   *)
(* call that nobody waits for.                                             *)
THEOREM CachesRight == Spec => []CachesAgree
<1>1. ASSUME TInv, RowsAgree PROVE CachesAgree
  <2>1. SUFFICES ASSUME Quiet, NEW a \in Apps, <<a, "renew">> \notin abandoned, ~RowMissed(a)
                 PROVE  /\ cached[a] # Miss => cached[a].row = row[a]
                        /\ list # <<>> => list[a].row = row[a]
    BY DEF CachesAgree, RowMissed
  <2>2. ~Pending(a)
    BY <2>1, QuietTasks DEF Pending
  <2> QED
    BY <1>1, <2>1, <2>2, KeptCopies DEF RowsAgree
<1> QED
  BY <1>1, TypeHolds, CopiesHold, PTL

(* ActiveHasDebit: at rest, an application cached as active has an active  *)
(* debit, unless a copy missed that it was disabled or a change was lost   *)
(* half-way, however status requests, set-ups, disablings and calls of the *)
(* debit itself overlap and whenever statuses are stored.                  *)
THEOREM ActiveWithDebit == Spec => []ActiveHasDebit
<1>1. ASSUME TInv, ActiveAgree PROVE ActiveHasDebit
  <2>1. SUFFICES ASSUME Quiet, NEW a \in DebitApps, ~debit[a], ~DebitMissed(a),
                        ({a} \X {"disableRow", "renew"}) \cap abandoned = {}
                 PROVE  /\ cached[a] # Miss => ~cached[a].active
                        /\ list # <<>> => ~list[a].active
    BY DEF ActiveHasDebit, DebitMissed
  <2>2. a \in Apps
    BY ConstantsAssumption
  <2>3. <<a, "renew">> \notin abandoned /\ <<a, "disableRow">> \notin abandoned
    BY <2>1
  <2>4. ~Pending(a) /\ ~Halved(a)
    BY <2>1, <2>2, <2>3, QuietTasks DEF Pending, Halved
  <2> QED
    BY <1>1, <2>1, <2>2, <2>4, KeptCopies DEF ActiveAgree
<1> QED
  BY <1>1, TypeHolds, CopiesHold, PTL
-----------------------------------------------------------------------------
IsOn(x) == (x \in Apps /\ row[x] = "enabled") \/ (x \in Tools /\ tool[x])

(* What a set-up knows of x: that it is enabled is noted, a status in the  *)
(* making that says so was right at some time since, and x is ready for a  *)
(* reason.                                                                 *)
Known(r, x) ==
    pc[r] \in SettingUp =>
      /\ IsOn(x) => <<r, x>> \in since
      /\ x \in Apps /\ at[r][x] \in Making /\ seen[r][x].row = "enabled" => <<r, x>> \in since
      /\ at[r][x] = "ready" => <<r, x>> \in since \cup misled
SInv == \A r \in Requests, x \in Things : Known(r, x)

(* A step that tells a set-up what is enabled, and makes it know no more.  *)
TellsOn == \A x \in Things : IsOn(x)' =>
              IsOn(x) \/ \A q \in Requests : pc[q] \in SettingUp => <<q, x>> \in since'
Remembers(q) == /\ pc'[q] \in SettingUp => pc[q] \in SettingUp
                /\ pc'[q] \in SettingUp => \A x \in Things :
                     /\ <<q, x>> \in since => <<q, x>> \in since'
                     /\ <<q, x>> \in misled => <<q, x>> \in misled'
LearnsNothing(q, x) ==
    pc'[q] \in SettingUp =>
      /\ at'[q][x] = "ready" => at[q][x] = "ready"
      /\ x \in Apps /\ at'[q][x] \in Making => at[q][x] \in Making /\ seen'[q][x] = seen[q][x]

LEMMA KnownStays ==
  ASSUME NEW q \in Requests, NEW x \in Things, SInv, TellsOn, Remembers(q), LearnsNothing(q, x)
  PROVE  Known(q, x)'
<1>1. CASE pc'[q] \notin SettingUp
  BY <1>1 DEF Known
<1>2. CASE pc'[q] \in SettingUp
  <2>1. pc[q] \in SettingUp /\ Known(q, x)
    BY <1>2 DEF Remembers, SInv
  <2>2. IsOn(x)' => <<q, x>> \in since'
    BY <1>2, <2>1 DEF TellsOn, Remembers, Known
  <2>3. x \in Apps /\ at'[q][x] \in Making /\ seen'[q][x].row = "enabled" => <<q, x>> \in since'
    BY <1>2, <2>1 DEF LearnsNothing, Remembers, Known
  <2>4. at'[q][x] = "ready" => <<q, x>> \in since' \cup misled'
    BY <1>2, <2>1 DEF LearnsNothing, Remembers, Known
  <2> QED
    BY <2>2, <2>3, <2>4 DEF Known
<1> QED
  BY <1>1, <1>2

LEMMA AllKnownStay ==
  ASSUME SInv, TellsOn, \A q \in Requests : Remembers(q),
         \A q \in Requests, x \in Things : LearnsNothing(q, x)
  PROVE  SInv'
<1>1. \A q \in Requests, x \in Things : Known(q, x)'
  BY KnownStays
<1> QED
  BY <1>1 DEF SInv

LEMMA SameOn == ASSUME UNCHANGED <<row, tool>> PROVE TellsOn
BY DEF TellsOn, IsOn

LEMMA SameTrail ==
  ASSUME UNCHANGED <<since, misled>>, NEW q \in Requests, pc'[q] \in SettingUp => pc[q] \in SettingUp
  PROVE  Remembers(q)
BY DEF Remembers

LEMMA EnabledTells ==
  ASSUME NEW x \in Things, Enabled(x), \A y \in Things : y # x => (IsOn(y)' => IsOn(y))
  PROVE  TellsOn
BY DEF TellsOn, Enabled

(* A task that makes no status gets on, and does not end as ready.         *)
LEMMA TaskLearns ==
  ASSUME TInv, NEW r \in Requests, NEW x \in Things, NEW step, Task(r, x, step),
         step # "ready", step \notin Making, UNCHANGED pc,
         \A q \in Requests, b \in Apps : q # r \/ b # x => seen'[q][b] = seen[q][b]
  PROVE  \A q \in Requests, y \in Things : LearnsNothing(q, y)
<1>1. \A q \in Requests, y \in Things : at'[q][y] = IF q = r /\ y = x THEN step ELSE at[q][y]
  BY TaskIs DEF TInv
<1> QED
  BY <1>1 DEF LearnsNothing

LEMMA EndLearns ==
  ASSUME TInv, SInv, NEW r \in Requests, End(r), UNCHANGED <<row, tool>>
  PROVE  SInv'
<1>1. /\ pc'[r] = "idle"
      /\ \A q \in Requests : q # r => pc'[q] = pc[q] /\ at'[q] = at[q] /\ seen'[q] = seen[q]
  BY EndIs DEF TInv
<1>2. \A q \in Requests : Remembers(q)
  BY <1>1 DEF End, Forgets, Remembers, SettingUp, Stages
<1>3. \A q \in Requests, x \in Things : LearnsNothing(q, x)
  BY <1>1 DEF LearnsNothing, SettingUp, Stages
<1> QED
  BY <1>2, <1>3, SameOn, AllKnownStay

(* A request goes on to a step of its own.                                 *)
LEMMA GoLearns ==
  ASSUME TInv, SInv, NEW r \in Requests, NEW main, Goto(r, main), UNCHANGED <<row, tool, seen>>,
         main \in SettingUp => pc[r] \in SettingUp,
         main \in SettingUp => UNCHANGED <<since, misled>>,
         UNCHANGED <<since, misled>> \/ Forgets(r),
         \A q \in Requests : q # r => at'[q] = at[q],
         main \in SettingUp => \A x \in Things : /\ at'[r][x] = "ready" => at[r][x] = "ready"
                                                 /\ at'[r][x] \in Making => at[r][x] \in Making
  PROVE  SInv'
<1>1. \A q \in Requests : pc'[q] = IF q = r THEN main ELSE pc[q]
  BY GotoIs DEF TInv
<1>2. \A q \in Requests : Remembers(q)
  BY <1>1 DEF Forgets, Remembers
<1>3. \A q \in Requests, x \in Things : LearnsNothing(q, x)
  BY <1>1 DEF LearnsNothing
<1> QED
  BY <1>2, <1>3, SameOn, AllKnownStay

(* Task x of r learns something, and all else stays known.                 *)
LEMMA OneLearns ==
  ASSUME TInv, SInv, NEW r \in Requests, NEW x \in Things, NEW step, Task(r, x, step),
         UNCHANGED <<row, tool, pc, since>>, misled \subseteq misled',
         \A q \in Requests, b \in Apps : q # r \/ b # x => seen'[q][b] = seen[q][b],
         pc[r] \in SettingUp =>
           /\ x \in Apps /\ step \in Making /\ seen'[r][x].row = "enabled" => <<r, x>> \in since
           /\ step = "ready" => <<r, x>> \in since \cup misled'
  PROVE  SInv'
<1>1. \A q \in Requests, y \in Things : at'[q][y] = IF q = r /\ y = x THEN step ELSE at[q][y]
  BY TaskIs DEF TInv
<1>2. TellsOn /\ \A q \in Requests : Remembers(q)
  BY SameOn DEF Remembers
<1>3. ASSUME NEW q \in Requests, NEW y \in Things
      PROVE  Known(q, y)'
  <2>1. CASE q = r /\ y = x
    <3>1. IsOn(x)' = IsOn(x)
      BY DEF IsOn
    <3> QED
      BY <1>1, <2>1, <3>1 DEF SInv, Known
  <2>2. CASE q # r \/ y # x
    <3>1. LearnsNothing(q, y)
      BY <1>1, <2>2 DEF LearnsNothing
    <3> QED
      BY <1>2, <3>1, KnownStays
  <2> QED
    BY <2>1, <2>2
<1> QED
  BY <1>3 DEF SInv

LEMMA SameLearns ==
  ASSUME SInv, TellsOn, UNCHANGED <<pc, at, seen, misled>>, since \subseteq since'
  PROVE  SInv'
<1>1. \A q \in Requests : Remembers(q)
  BY DEF Remembers
<1>2. \A q \in Requests, x \in Things : LearnsNothing(q, x)
  BY DEF LearnsNothing
<1> QED
  BY <1>1, <1>2, AllKnownStay

LEMMA TrailStep ==
  ASSUME TInv, SInv, [Next]_vars
  PROVE  SInv'
<1>1. ASSUME NEW r \in Requests, NEW a \in Apps, Bust(r, a)
      PROVE  SInv'
  BY <1>1, OneLearns, AppThings DEF Bust, Making, database, trail
<1>2. ASSUME NEW r \in Requests, NEW a \in Apps, Get(r, a)
      PROVE  SInv'
  <2>1. PICK step : Task(r, a, step) /\ step \notin Making /\ (step = "ready" => cached[a] # Miss)
    BY <1>2 DEF Get, Finish, Result, Making
  <2>2. UNCHANGED <<row, tool, pc, since, seen>> /\ misled \subseteq misled'
    BY <1>2 DEF Get, database
  <2>3. pc[r] \in SettingUp /\ step = "ready" => <<r, a>> \in since \cup misled'
    BY <1>2, <2>1 DEF Get
  <2> QED
    BY <2>1, <2>2, <2>3, OneLearns, AppThings
<1>3. ASSUME NEW r \in Requests, NEW a \in Apps, ReadRow(r, a)
      PROVE  SInv'
  <2>1. Task(r, a, "collect") /\ UNCHANGED <<row, tool, pc, since, misled>>
    BY <1>3 DEF ReadRow, database, trail
  <2>2. \A q \in Requests, b \in Apps :
           seen'[q][b] = IF q = r /\ b = a THEN OfRow(row[a]) ELSE seen[q][b]
    BY <1>3, SeesIs DEF ReadRow, TInv
  <2>3. pc[r] \in SettingUp /\ row[a] = "enabled" => <<r, a>> \in since
    BY AppThings DEF SInv, Known, IsOn
  <2>4. seen'[r][a].row = row[a]
    BY <2>2 DEF OfRow
  <2> QED
    BY <2>1, <2>2, <2>3, <2>4, OneLearns, AppThings
<1>4. ASSUME NEW r \in Requests, NEW a \in Apps, Collect(r, a)
      PROVE  SInv'
  <2>1. PICK s \in Collected(seen[r][a].row, a) : Sees(r, a, s)
    BY <1>4 DEF Collect
  <2>2. \A q \in Requests, b \in Apps : seen'[q][b] = IF q = r /\ b = a THEN s ELSE seen[q][b]
    BY <2>1, SeesIs DEF TInv
  <2>3. s.row = seen[r][a].row
    BY <2>1, CollectedType DEF TInv, ControlOK, HatApplication
  <2>4. /\ Task(r, a, "fill") /\ UNCHANGED <<row, tool, pc, since, misled>> /\ at[r][a] \in Making
    BY <1>4 DEF Collect, database, trail, Making
  <2>5. pc[r] \in SettingUp /\ s.row = "enabled" => <<r, a>> \in since
    BY <2>3, <2>4, AppThings DEF SInv, Known
  <2>6. seen'[r][a] = s
    BY <2>2
  <2> QED
    BY <2>2, <2>4, <2>5, <2>6, OneLearns, AppThings
<1>5. ASSUME NEW r \in Requests, NEW a \in Apps, Fill(r, a)
      PROVE  SInv'
  <2>1. PICK step : /\ Task(r, a, step) /\ step \notin Making
                    /\ step = "ready" => seen[r][a].row = "enabled"
    BY <1>5 DEF Fill, Finish, Result, Making
  <2>2. UNCHANGED <<row, tool, pc, since, misled>> /\ at[r][a] \in Making
    BY <1>5 DEF Fill, database, trail, Making
  <2>3. \A q \in Requests, b \in Apps : q # r \/ b # a => seen'[q][b] = seen[q][b]
    BY <1>5, SeesIs DEF Fill, TInv
  <2>4. pc[r] \in SettingUp /\ step = "ready" => <<r, a>> \in since \cup misled'
    BY <2>1, <2>2, AppThings DEF SInv, Known
  <2> QED
    BY <2>1, <2>2, <2>3, <2>4, OneLearns, AppThings
<1>6. ASSUME NEW r \in Requests, NEW a \in Apps, ListCollect(r, a)
      PROVE  SInv'
  <2>1. PICK s : Sees(r, a, s)
    BY <1>6 DEF ListCollect
  <2>2. \A q \in Requests, b \in Apps : q # r \/ b # a => seen'[q][b] = seen[q][b]
    BY <2>1, SeesIs DEF TInv
  <2> QED
    BY <1>6, <2>2, OneLearns, AppThings DEF ListCollect, Making, database, trail
<1>7. ASSUME NEW r \in Requests, NEW a \in Apps, EnableRow(r, a)
      PROVE  SInv'
  <2>1. \A y \in Things : y # a => (IsOn(y)' => IsOn(y))
    BY <1>7 DEF EnableRow, IsOn, TInv, DataOK
  <2>2. TellsOn
    BY <1>7, <2>1, EnabledTells, AppThings DEF EnableRow
  <2>3. \A q \in Requests : Remembers(q)
    BY <1>7 DEF EnableRow, Enabled, Remembers
  <2>4. \A q \in Requests, x \in Things : LearnsNothing(q, x)
    BY <1>7, TaskLearns, AppThings DEF EnableRow, Making
  <2> QED
    BY <2>2, <2>3, <2>4, AllKnownStay
<1>8. ASSUME NEW r \in Requests, NEW t \in Tools, ToolGet(r, t)
      PROVE  SInv'
  <2>1. PICK step : Task(r, t, step) /\ step \notin Making /\ (step = "ready" => tool[t])
    BY <1>8 DEF ToolGet, Finish, Making
  <2>2. UNCHANGED <<row, tool, pc, since, misled, seen>>
    BY <1>8 DEF ToolGet, database, trail
  <2>3. pc[r] \in SettingUp /\ step = "ready" => <<r, t>> \in since \cup misled'
    BY <2>1, AppThings DEF SInv, Known, IsOn
  <2> QED
    BY <2>1, <2>2, <2>3, OneLearns, AppThings
<1>9. ASSUME NEW r \in Requests, NEW t \in Tools, ToolSave(r, t)
      PROVE  SInv'
  <2>1. \A y \in Things : y # t => (IsOn(y)' => IsOn(y))
    BY <1>9 DEF ToolSave, IsOn, TInv, DataOK
  <2>2. TellsOn
    BY <1>9, <2>1, EnabledTells, AppThings DEF ToolSave
  <2>3. \A q \in Requests : Remembers(q)
    BY <1>9 DEF ToolSave, Enabled, Remembers
  <2>4. \A q \in Requests, x \in Things : LearnsNothing(q, x)
    BY <1>9, TaskLearns, AppThings DEF ToolSave, Making
  <2> QED
    BY <2>2, <2>3, <2>4, AllKnownStay
<1>10. ASSUME NEW r \in Requests, StatusAnswered(r) \/ DependenciesSetUp(r) \/ ListFill(r)
              \/ Revert(r) \/ Fails(r)
      PROVE  SInv'
  BY <1>10, EndLearns DEF StatusAnswered, DependenciesSetUp, ListFill, Revert, Fails, database
<1>11. ASSUME NEW r \in Requests, ListGet(r)
      PROVE  SInv'
  <2>1. UNCHANGED <<row, tool>>
    BY <1>11 DEF ListGet, database
  <2>2. CASE End(r)
    BY <2>1, <2>2, EndLearns
  <2>3. CASE ~End(r)
    <3>1. /\ Goto(r, "listCollect") /\ UNCHANGED <<since, misled>>
          /\ \A q \in Requests : q # r => at'[q] = at[q] /\ seen'[q] = seen[q]
      BY <1>11, <2>3 DEF ListGet, trail, TInv, ControlOK
    <3>2. \A q \in Requests : pc'[q] = IF q = r THEN "listCollect" ELSE pc[q]
      BY <3>1, GotoIs DEF TInv
    <3>3. \A q \in Requests : Remembers(q)
      BY <3>1, <3>2 DEF Remembers, SettingUp, Stages
    <3>4. \A q \in Requests, x \in Things : LearnsNothing(q, x)
      BY <3>1, <3>2 DEF LearnsNothing, SettingUp, Stages
    <3> QED
      BY <2>1, <3>3, <3>4, SameOn, AllKnownStay
  <2> QED
    BY <2>2, <2>3
<1>12. ASSUME NEW r \in Requests, EnableDebit(r)
      PROVE  SInv'
  <2>1. app[r] \in Things
    BY AppThings DEF TInv, ControlOK
  <2>2. \A q \in Requests : q # r => at'[q] = at[q]
    BY <1>12 DEF EnableDebit, Task, TInv, ControlOK
  <2>3. \A x \in Things : at'[r][x] \in {at[r][x], "enableRow"}
    BY <1>12, <2>1, TaskIs DEF EnableDebit, TInv
  <2>4. pc[r] \in SettingUp /\ UNCHANGED <<row, tool, seen, since, misled>> /\ Goto(r, "setup")
    BY <1>12 DEF EnableDebit, trail, SettingUp
  <2> QED
    BY <2>2, <2>3, <2>4, GoLearns DEF Making
<1>13. ASSUME NEW r \in Requests, IsSetUp(r)
      PROVE  SInv'
  <2>1. UNCHANGED <<row, tool>> /\ pc[r] \in SettingUp
    BY <1>13 DEF IsSetUp, database, SettingUp
  <2>2. CASE End(r)
    BY <2>1, <2>2, EndLearns
  <2>3. CASE ~End(r)
    <3>1. /\ Goto(r, "check") /\ UNCHANGED <<since, misled, seen>>
          /\ at' = [at EXCEPT ![r] = [x \in Things |->
                       IF x \in Dependencies[app[r]] \cap Apps THEN "get" ELSE "none"]]
      BY <1>13, <2>3 DEF IsSetUp, trail
    <3>2. \A q \in Requests : q # r => at'[q] = at[q]
      BY <3>1 DEF TInv, ControlOK
    <3>3. \A x \in Things : at'[r][x] # "ready" /\ at'[r][x] \notin Making
      BY <3>1 DEF TInv, ControlOK, Making
    <3> QED
      BY <2>1, <3>1, <3>2, <3>3, GoLearns
  <2> QED
    BY <2>2, <2>3
<1>14. ASSUME NEW r \in Requests, NextStage(r)
      PROVE  SInv'
  <2>1. PICK things \in {Apps, Tools}, from \in {"unready", "none"},
             step \in {"enableRow", "toolGet", "toolSave"}, main \in Stages :
               Begin(r, things, from, step) /\ Goto(r, main) /\ pc[r] \in Stages
    BY <1>14 DEF NextStage, Stages
  <2>2. \A q \in Requests : q # r => at'[q] = at[q]
    BY <2>1 DEF Begin, TInv, ControlOK
  <2>3. \A x \in Things : at'[r][x] \in {at[r][x], step}
    BY <2>1 DEF Begin, TInv, ControlOK
  <2>4. pc[r] \in SettingUp /\ UNCHANGED <<row, tool, seen, since, misled>>
    BY <1>14, <2>1 DEF NextStage, database, trail, SettingUp
  <2>5. step # "ready" /\ step \notin Making
    BY <2>1 DEF Making
  <2> QED
    BY <2>1, <2>2, <2>3, <2>4, <2>5, GoLearns
<1>15. ASSUME NEW r \in Requests, DependencyFailed(r) \/ SetupFailed(r)
      PROVE  SInv'
  <2>1. \A q \in Requests : q # r => at'[q] = at[q]
    BY <1>15 DEF DependencyFailed, SetupFailed, Task, TInv, ControlOK
  <2>2. PICK main \in {"status", "revert"} : Goto(r, main)
    BY <1>15 DEF DependencyFailed, SetupFailed
  <2>3. main \notin SettingUp
    BY <2>2 DEF SettingUp, Stages
  <2> QED
    BY <1>15, <2>1, <2>2, <2>3, GoLearns DEF DependencyFailed, SetupFailed, database
<1>16. ASSUME NEW r \in Requests, DisableDebit(r) \/ ListCall(r)
      PROVE  SInv'
  <2>1. PICK main \in {"disableRow", "listGet"} : Goto(r, main)
    BY <1>16 DEF DisableDebit, ListCall
  <2>2. main \notin SettingUp
    BY <2>1 DEF SettingUp, Stages
  <2> QED
    BY <1>16, <2>1, <2>2, GoLearns DEF DisableDebit, ListCall, database, trail
<1>17. ASSUME NEW r \in Requests, DisableRow(r)
      PROVE  SInv'
  <2>1. \A q \in Requests : q # r => at'[q] = at[q]
    BY <1>17 DEF DisableRow, Task, TInv, ControlOK
  <2>2. \A q \in Requests : pc'[q] = IF q = r THEN "status" ELSE pc[q]
    BY <1>17, GotoIs DEF DisableRow, TInv
  <2>3. TellsOn
    BY <1>17 DEF DisableRow, TellsOn, IsOn, TInv, DataOK
  <2>4. \A q \in Requests : Remembers(q)
    BY <1>17, <2>2 DEF DisableRow, trail, Remembers, SettingUp, Stages
  <2>5. \A q \in Requests, x \in Things : LearnsNothing(q, x)
    BY <1>17, <2>1, <2>2 DEF DisableRow, LearnsNothing, SettingUp, Stages
  <2> QED
    BY <2>3, <2>4, <2>5, AllKnownStay
<1>18. ASSUME NEW r \in Requests, NEW a \in Apps, NEW step \in {"get", "bust"}, StatusCall(r, a, step)
      PROVE  SInv'
  <2>1. \A q \in Requests : q # r => at'[q] = at[q]
    BY <1>18 DEF StatusCall, Task, TInv, ControlOK
  <2> QED
    BY <1>18, <2>1, GoLearns DEF StatusCall, database, trail, SettingUp, Stages
<1>19. ASSUME NEW r \in Requests, NEW a \in Apps, NEW main \in {"enableDebit", "disableDebit"}, OwnerCall(r, main, a)
      PROVE  SInv'
  <2>1. /\ UNCHANGED <<row, tool, at, seen, misled>> /\ since \subseteq since'
        /\ Goto(r, main) /\ \A x \in Things : at[r][x] = "none"
    BY <1>19 DEF OwnerCall, database, Free, NoTasks
  <2>2. \A q \in Requests : pc'[q] = IF q = r THEN main ELSE pc[q]
    BY <2>1, GotoIs DEF TInv
  <2>3. main = "enableDebit" => \A x \in Things : IsOn(x)' => <<r, x>> \in since'
    BY <1>19, <2>1 DEF OwnerCall, IsOn
  <2>4. main = "disableDebit" => main \notin SettingUp
    BY DEF SettingUp, Stages
  <2>5. ASSUME NEW q \in Requests, NEW x \in Things
        PROVE  Known(q, x)'
    <3>1. CASE q = r
      BY <2>1, <2>2, <2>3, <2>4, <3>1 DEF Known, Making
    <3>2. CASE q # r
      <4>1. Remembers(q) /\ LearnsNothing(q, x)
        BY <2>1, <2>2, <3>2 DEF Remembers, LearnsNothing
      <4> QED
        BY <2>1, <4>1, SameOn, KnownStays
    <3> QED
      BY <3>1, <3>2
  <2> QED
    BY <2>5 DEF SInv
<1>20. ASSUME NEW r \in Requests, NEW x \in Things, TaskFails(r, x)
      PROVE  SInv'
  <2>1. PICK step \in {"failed", "none"} : Task(r, x, step)
    BY <1>20 DEF TaskFails, Finish
  <2>2. \A q \in Requests, b \in Apps : q # r \/ b # x => seen'[q][b] = seen[q][b]
    BY <1>20 DEF TaskFails, TInv, ControlOK
  <2>3. UNCHANGED <<row, tool, pc, since, misled>>
    BY <1>20 DEF TaskFails, database, trail
  <2> QED
    BY <2>1, <2>2, <2>3, OneLearns DEF Making
<1>21. ASSUME NEW r \in Requests, NEW a \in Apps, NEW s \in HatApplication, Stored(r, a, s)
      PROVE  SInv'
  BY <1>21, SameOn, SameLearns DEF Stored, database, requests, trail
<1>22. ASSUME NEW a \in Apps, DirectEnable(a) \/ DirectDisable(a)
      PROVE  SInv'
  BY <1>22, SameOn, SameLearns DEF DirectEnable, DirectDisable, requests, trail
<1>23. ASSUME NEW a \in Apps, Expire(a)
      PROVE  SInv'
  BY <1>23, SameOn, SameLearns DEF Expire, database, requests, trail
<1>24. ASSUME NEW t \in Tools, ToolSwitch(t)
      PROVE  SInv'
  <2>1. /\ UNCHANGED <<row, pc, at, seen, misled>> /\ since \subseteq since'
        /\ tool[t] \/ Enabled(t)
    BY <1>24 DEF ToolSwitch, requests, Enabled
  <2>2. \A y \in Things : y # t => (IsOn(y)' => IsOn(y))
    BY <1>24 DEF ToolSwitch, IsOn, TInv, DataOK
  <2>3. TellsOn
    <3>1. CASE tool[t]
      BY <1>24, <2>2, <3>1 DEF ToolSwitch, TellsOn, IsOn, TInv, DataOK
    <3>2. CASE Enabled(t)
      BY <2>2, <3>2, EnabledTells, AppThings
    <3> QED
      BY <2>1, <3>1, <3>2
  <2> QED
    BY <2>1, <2>3, SameLearns
<1>25. CASE ExpireList \/ UNCHANGED vars
  BY <1>25, SameOn, SameLearns DEF ExpireList, vars, database, requests, trail
<1>26. ASSUME NEW p \in storing, Stored(p[1], p[2], p[3])
      PROVE  SInv'
  <2>1. p[1] \in Requests /\ p[2] \in Apps /\ p[3] \in HatApplication
    BY StoringParts DEF TInv
  <2> QED
    BY <1>26, <1>21, <2>1
<1> QED
  BY <1>1, <1>2, <1>3, <1>4, <1>5, <1>6, <1>7, <1>8, <1>9, <1>10, <1>11, <1>12, <1>13,
     <1>14, <1>15, <1>16, <1>17, <1>18, <1>19, <1>20, <1>21, <1>22, <1>23, <1>24,
     <1>25, <1>26
     DEF Next, Call, Step, AppTask, ToolTask, Main

(* DependenciesReady: a set-up reports that its dependencies are set up    *)
(* only if each was enabled at some time since it began, or a cached copy  *)
(* said so, whatever tasks fail, go on or are overtaken.                   *)
THEOREM DependenciesHold == Spec => []DependenciesReady
<1>1. Init => SInv
  BY DEF Init, SInv, Known, SettingUp, Stages
<1>2. TInv /\ SInv /\ [Next]_vars => SInv'
  BY TrailStep
<1>3. TInv /\ SInv => DependenciesReady
  <2>1. ASSUME TInv, SInv, NEW r \in Requests, Reported(r),
               \A x \in Dependencies[app[r]] : at[r][x] = "ready"
        PROVE  \A x \in Dependencies[app[r]] : <<r, x>> \in since \cup misled
    <3>1. pc[r] \in SettingUp
      BY <2>1 DEF Reported, SettingUp, Stages
    <3>2. Dependencies[app[r]] \subseteq Things
      BY <2>1, ConstantsAssumption DEF TInv, ControlOK
    <3> QED
      BY <2>1, <3>1, <3>2 DEF SInv, Known
  <2> QED
    BY <2>1 DEF DependenciesReady
<1> QED
  BY <1>1, <1>2, <1>3, TypeHolds, PTL DEF Spec
=============================================================================
