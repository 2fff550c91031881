------------------------ MODULE SheFunctions_proofs -------------------------
(***************************************************************************)
(* Proofs about SheFunctions, for every number of runs and requests, every    *)
(* period and timeout, and unbounded time (MaxTime is arbitrary).          *)
(***************************************************************************)
EXTENDS SheFunctions, TLAPS

(* The steps that leave records, outputs and what is known of them alone.  *)
DataFrame == UNCHANGED <<records, processed, ended, late, unsaved>>

LEMMA NoStatusType == now \in Nat => NoStatus \in Status
BY DEF NoStatus, Status, Times, Never

(* What a call leaves behind when it ends is well-typed.                   *)
CallsOK ==
    /\ pc \in [Calls -> Steps]
    /\ conf \in [Calls -> Status]
    /\ got \in [Calls -> SUBSET records]
    /\ \A c \in Calls : pc[c] = "idle" => conf[c] = NoStatus /\ got[c] = {}

LEMMA EndsType ==
  ASSUME NEW c \in Calls, TypeOK, Ends(c), UNCHANGED records,
         now' \in {now, now + 1}
  PROVE  CallsOK'
<1>1. now' \in Nat /\ Times \subseteq Times'
  BY DEF TypeOK, Times, Never
<1>2. NoStatus \in Status'
  BY <1>1 DEF NoStatus, Status, Times, Never
<1>3. Status \subseteq Status'
  BY <1>1 DEF Status
<1>4. conf' \in [Calls -> Status']
  BY <1>2, <1>3 DEF Ends, TypeOK
<1> QED
  BY <1>4 DEF CallsOK, Ends, Goto, TypeOK, Steps

(* The type invariant is inductive by itself.                              *)
LEMMA TypeStep == TypeOK /\ [Next]_vars => TypeOK'
<1> SUFFICES ASSUME TypeOK, [Next]_vars PROVE TypeOK'
  OBVIOUS
<1>1. CASE Tick \/ DataStamped
  <2>1. /\ now' = now + 1 /\ coming' \subseteq coming \cup {now + 1}
        /\ UNCHANGED <<status, records, processed, events, pc, conf, got, ended, late, unsaved>>
    BY <1>1 DEF Tick, DataStamped, Later, history
  <2>2. /\ now' \in Nat /\ now' >= 1 /\ Times \subseteq Times'
        /\ 1..now \subseteq 1..now' /\ now + 1 \in 1..now'
    BY <2>1 DEF TypeOK, Times, Never
  <2>3. Status \subseteq Status'
    BY <2>2 DEF Status
  <2>4. conf' \in [Calls -> Status'] /\ status' \in Status' /\ ended' \in Times'
    BY <2>1, <2>2, <2>3 DEF TypeOK
  <2>5. coming' \subseteq 1..now' /\ records' \subseteq 1..now'
    BY <2>1, <2>2 DEF TypeOK
  <2> QED
    BY <2>1, <2>2, <2>4, <2>5 DEF TypeOK
<1>2. ASSUME NEW d \in coming, DataCreated(d) \/ DataLost(d) PROVE TypeOK'
  <2>1. /\ UNCHANGED <<now, status, processed, pc, conf, got, ended, unsaved>>
        /\ coming' \subseteq coming /\ events' \in BOOLEAN
    BY <1>2 DEF DataCreated, DataLost, history, TypeOK
  <2>2. /\ records \subseteq records' /\ records' \subseteq 1..now
        /\ late' \subseteq records'
    BY <1>2 DEF DataCreated, DataLost, history, TypeOK
  <2> QED
    BY <2>1, <2>2 DEF TypeOK, Status, Times
<1>3. ASSUME NEW c \in Calls, Dispatch(c) PROVE TypeOK'
  BY <1>3 DEF Dispatch, Goto, Reads, history,
       TypeOK, Status, Times, Never, Steps, Marked, NoStatus
<1>4. ASSUME NEW c \in Calls, NEW step \in {"triggered", "triggeredAll"},
             TriggerByOwner(c, step)
      PROVE  TypeOK'
  BY <1>4 DEF TriggerByOwner, Goto, Reads, history,
       TypeOK, Status, Times, Never, Steps, Marked, NoStatus
<1>5. ASSUME NEW c \in Calls, MarkExecuting(c) PROVE TypeOK'
  <2>1. CASE Ends(c) /\ UNCHANGED status
    BY <1>5, <2>1, EndsType DEF MarkExecuting, history, CallsOK, TypeOK, Status, Times
  <2>2. ASSUME NEW step \in {"marked", "markedAll"}, Goto(c, step), UNCHANGED <<conf, got>>,
               status' = [status EXCEPT !.executionStarted = now]
        PROVE  TypeOK'
    BY <1>5, <2>2 DEF MarkExecuting, history, Goto, TypeOK, Status, Times, Never, Steps, Marked
  <2> QED
    BY <1>5, <2>1, <2>2 DEF MarkExecuting
<1>6. ASSUME NEW c \in Calls, ReadBundle(c) PROVE TypeOK'
  BY <1>6 DEF ReadBundle, Goto, history,
       TypeOK, Status, Times, Never, Steps, Marked, NoStatus
<1>7. ASSUME NEW c \in Calls, NEW saved \in SUBSET got[c], SaveOutput(c, saved) PROVE TypeOK'
  <2>1. got[c] \subseteq records
    BY DEF TypeOK
  <2> QED
    BY <1>7, <2>1 DEF SaveOutput, Goto, history,
       TypeOK, Status, Times, Never, Steps, Marked, NoStatus
<1>8. ASSUME NEW c \in Calls, MarkCompleted(c) PROVE TypeOK'
  <2>1. CallsOK'
    BY <1>8, EndsType DEF MarkCompleted, Later
  <2>2. now' = now + 1 /\ UNCHANGED <<coming, records, processed, events, late>>
    BY <1>8 DEF MarkCompleted, Later
  <2>3. Never \in Times' /\ now + 1 \in Times'
    BY <2>2 DEF TypeOK, Times, Never
  <2>4. status' \in Status'
    <3>1. status.enabled \in BOOLEAN
      BY DEF TypeOK, Status
    <3>2. status' = [enabled |-> status.enabled, lastExecution |-> now + 1,
                     executionStarted |-> Never]
      BY <1>8 DEF MarkCompleted, TypeOK, Status
    <3> QED
      BY <2>3, <3>1, <3>2 DEF Status
  <2>5. unsaved' \subseteq records' /\ ended' \in Times'
    BY <1>8, <2>2, <2>3 DEF MarkCompleted, TypeOK
  <2>6. coming' \subseteq 1..now' /\ records' \subseteq 1..now' /\ now' \in Nat /\ now' >= 1
    BY <2>2 DEF TypeOK
  <2> QED
    BY <2>1, <2>2, <2>4, <2>5, <2>6 DEF TypeOK, CallsOK
<1>9. ASSUME NEW c \in Calls, Fail(c) PROVE TypeOK'
  BY <1>9, EndsType DEF Fail, history, CallsOK, TypeOK, Status, Times
<1>10. ASSUME NEW c \in Calls, ToggleRead(c) PROVE TypeOK'
  BY <1>10 DEF ToggleRead, Goto, Reads, history,
       TypeOK, Status, Times, Never, Steps, Marked, NoStatus
<1>11. ASSUME NEW c \in Calls, NEW enabled \in BOOLEAN, ToggleSave(c, enabled)
       PROVE  TypeOK'
  <2>1. status' \in Status
    BY <1>11 DEF ToggleSave, TypeOK, Status
  <2> QED
    BY <1>11, <2>1, EndsType DEF ToggleSave, history, CallsOK, TypeOK, Status, Times
<1>12. CASE UNCHANGED vars
  BY <1>12 DEF vars,
       TypeOK, Status, Times, Never, Steps, Marked, NoStatus
<1> QED
  BY <1>1, <1>2, <1>3, <1>4, <1>5, <1>6, <1>7, <1>8, <1>9, <1>10, <1>11, <1>12
     DEF Next, Run

(* The statements about skipped records, together.                         *)
NoneSkipped == SkippedOnlyLateOrUnsaved /\ ConfCovered /\ EndedLast /\ ReadersCovered
-----------------------------------------------------------------------------
(* A call that ends, having changed neither data nor status.               *)
LEMMA EndsKeepsReaders ==
  ASSUME NEW c \in Calls, TypeOK, ReadersCovered, Ends(c), UNCHANGED records,
         Covered \subseteq Covered'
  PROVE  ReadersCovered'
BY DEF ReadersCovered, Ends, Goto, TypeOK

LEMMA EndsKeepsConf ==
  ASSUME NEW c \in Calls, TypeOK, ConfCovered, Ends(c), UNCHANGED records,
         Covered \subseteq Covered'
  PROVE  ConfCovered'
<1>1. CoveredUntil(Never)'
  BY DEF CoveredUntil, Never, TypeOK
<1>2. \A q \in Calls : conf'[q] = IF q = c THEN NoStatus ELSE conf[q]
  BY DEF Ends, TypeOK
<1> QED
  BY <1>1, <1>2 DEF ConfCovered, CoveredUntil, NoStatus

LEMMA EndsKeepsEnded ==
  ASSUME NEW c \in Calls, TypeOK, EndedLast, Ends(c), ended' \in Nat, ended <= ended'
  PROVE  \A q \in Calls : conf'[q].lastExecution <= ended'
<1>1. ended \in Nat /\ \A q \in Calls : conf[q].lastExecution \in Nat
  BY DEF TypeOK, Status, Times, Never
<1>2. \A q \in Calls : conf'[q] = IF q = c THEN NoStatus ELSE conf[q]
  BY DEF Ends, TypeOK
<1> QED
  BY <1>1, <1>2 DEF EndedLast, NoStatus, Never

(* A call that begins by reading the status.                               *)
LEMMA BeginKeepsCovered ==
  ASSUME NEW c \in Calls, TypeOK, NoneSkipped, NEW step, Goto(c, step), Reads(c),
         step \notin {"read", "saved"}, DataFrame, UNCHANGED <<status, got>>
  PROVE  NoneSkipped'
<1>1. \A q \in Calls : conf'[q] = IF q = c THEN status ELSE conf[q]
  BY DEF Reads, TypeOK
<1>2. \A q \in Calls : pc'[q] = IF q = c THEN step ELSE pc[q]
  BY DEF Goto, TypeOK
<1>3. Covered' = Covered
  BY DEF Covered, DataFrame
<1>4. ConfCovered' /\ EndedLast'
  BY <1>1, <1>3 DEF ConfCovered, EndedLast, CoveredUntil, NoneSkipped, SkippedOnlyLateOrUnsaved,
                    DataFrame
<1>5. ReadersCovered' /\ SkippedOnlyLateOrUnsaved'
  BY <1>2, <1>3 DEF ReadersCovered, SkippedOnlyLateOrUnsaved, CoveredUntil, NoneSkipped, DataFrame
<1> QED
  BY <1>4, <1>5 DEF NoneSkipped

(* A step of no call, after which no less is covered.                      *)
LEMMA FrameKeepsCovered ==
  ASSUME NoneSkipped, DataFrame, UNCHANGED <<status, pc, conf, got>>
  PROVE  NoneSkipped'
<1>1. Covered' = Covered
  BY DEF Covered, DataFrame
<1> QED
  BY <1>1 DEF NoneSkipped, SkippedOnlyLateOrUnsaved, ConfCovered, EndedLast, ReadersCovered,
              CoveredUntil, DataFrame
-----------------------------------------------------------------------------
LEMMA CoveredStep == TypeOK /\ NoneSkipped /\ [Next]_vars => NoneSkipped'
<1> SUFFICES ASSUME TypeOK, NoneSkipped, [Next]_vars PROVE NoneSkipped'
  OBVIOUS
<1>s. /\ ended \in Nat /\ now \in Nat /\ status.lastExecution \in Nat
      /\ \A q \in Calls : conf[q].lastExecution \in Nat
      /\ \A d \in records \cup coming : d \in Nat
      /\ ended <= now
  BY DEF TypeOK, Status, Times, Never
<1>1. CASE Tick \/ DataStamped \/ \E d \in coming : DataLost(d)
  BY <1>1, FrameKeepsCovered DEF Tick, DataStamped, DataLost, history, DataFrame
<1>2. ASSUME NEW d \in coming, DataCreated(d) PROVE NoneSkipped'
  <2>1. /\ records' = records \cup {d}
        /\ late' = IF Late(d) THEN late \cup {d} ELSE late
        /\ UNCHANGED <<status, processed, pc, conf, got, ended, unsaved>>
    BY <1>2 DEF DataCreated
  <2>2. Covered \subseteq Covered' /\ (Late(d) => d \in Covered')
    BY <2>1 DEF Covered
  <2>3. ASSUME NEW t \in Nat, t <= ended, CoveredUntil(t) PROVE CoveredUntil(t)'
    <3>1. d <= t => Late(d)
      BY <1>s, <2>3 DEF Late
    <3> QED
      BY <2>1, <2>2, <2>3, <3>1 DEF CoveredUntil
  <2>4. SkippedOnlyLateOrUnsaved' /\ ConfCovered' /\ EndedLast'
    <3>1. CoveredUntil(status.lastExecution)'
      BY <1>s, <2>1, <2>3 DEF NoneSkipped, SkippedOnlyLateOrUnsaved, EndedLast, CoveredUntil
    <3>2. \A q \in Calls : CoveredUntil(conf[q].lastExecution)'
      BY <1>s, <2>1, <2>3 DEF NoneSkipped, ConfCovered, EndedLast, CoveredUntil
    <3> QED
      BY <2>1, <3>1, <3>2 DEF NoneSkipped, SkippedOnlyLateOrUnsaved, ConfCovered, EndedLast,
                              CoveredUntil
  <2>5. ReadersCovered'
    <3> SUFFICES ASSUME NEW q \in Calls, pc[q] \in {"read", "saved"}
                 PROVE  records' \subseteq Covered' \cup got[q]
      BY <2>1 DEF ReadersCovered
    <3>1. Late(d)
      BY DEF Late
    <3> QED
      BY <2>1, <2>2, <3>1 DEF NoneSkipped, ReadersCovered
  <2> QED
    BY <2>4, <2>5 DEF NoneSkipped
<1>3. ASSUME NEW c \in Calls, Dispatch(c) PROVE NoneSkipped'
  <2>1. CASE Matching
    BY <1>3, <2>1, BeginKeepsCovered DEF Dispatch, DataFrame, history
  <2>2. CASE ~Matching
    BY <1>3, <2>2, FrameKeepsCovered DEF Dispatch, DataFrame, history
  <2> QED
    BY <2>1, <2>2
<1>4. ASSUME NEW c \in Calls, NEW step \in {"triggered", "triggeredAll"},
             TriggerByOwner(c, step)
      PROVE  NoneSkipped'
  BY <1>4, BeginKeepsCovered DEF TriggerByOwner, DataFrame, history
<1>5. ASSUME NEW c \in Calls, MarkExecuting(c) PROVE NoneSkipped'
  <2>1. UNCHANGED <<records, ended>> /\ Covered' = Covered
    BY <1>5 DEF MarkExecuting, history, Covered
  <2>2. status'.lastExecution = status.lastExecution
    BY <1>5 DEF MarkExecuting, TypeOK, Status
  <2>3. SkippedOnlyLateOrUnsaved' /\ status'.lastExecution <= ended'
    BY <2>1, <2>2 DEF NoneSkipped, SkippedOnlyLateOrUnsaved, EndedLast, CoveredUntil
  <2>4. CASE Ends(c)
    BY <1>s, <2>1, <2>3, <2>4, EndsKeepsReaders, EndsKeepsConf, EndsKeepsEnded
       DEF NoneSkipped, EndedLast
  <2>5. ASSUME NEW step \in {"marked", "markedAll"}, Goto(c, step), UNCHANGED <<conf, got>>
        PROVE  NoneSkipped'
    <3>1. ConfCovered' /\ EndedLast'
      BY <2>1, <2>3, <2>5 DEF NoneSkipped, ConfCovered, EndedLast, CoveredUntil
    <3>2. ReadersCovered'
      BY <2>1, <2>5 DEF NoneSkipped, Goto, TypeOK, ReadersCovered
    <3> QED
      BY <2>3, <3>1, <3>2 DEF NoneSkipped
  <2> QED
    BY <1>5, <2>4, <2>5 DEF MarkExecuting
<1>6. ASSUME NEW c \in Calls, ReadBundle(c) PROVE NoneSkipped'
  <2>1. /\ UNCHANGED <<status, records, conf, ended>> /\ Covered' = Covered
        /\ Goto(c, "read")
    BY <1>6 DEF ReadBundle, history, Covered
  <2>2. SkippedOnlyLateOrUnsaved' /\ ConfCovered' /\ EndedLast'
    BY <2>1 DEF NoneSkipped, SkippedOnlyLateOrUnsaved, ConfCovered, EndedLast, CoveredUntil
  <2>3. records \subseteq Covered \cup got'[c]
    <3> SUFFICES ASSUME NEW d \in records, d \notin got'[c]
                 PROVE  d \in Covered
      OBVIOUS
    <3>1. ~(d > conf[c].lastExecution)
      BY <1>6 DEF ReadBundle, TypeOK
    <3>2. d <= conf[c].lastExecution
      BY <1>s, <3>1
    <3> QED
      BY <3>2 DEF NoneSkipped, ConfCovered, CoveredUntil
  <2>4. \A q \in Calls : q # c => pc'[q] = pc[q] /\ got'[q] = got[q]
    BY <1>6 DEF ReadBundle, Goto, TypeOK
  <2>5. pc'[c] = "read"
    BY <2>1 DEF Goto, TypeOK
  <2>6. ReadersCovered'
    BY <2>1, <2>3, <2>4, <2>5 DEF NoneSkipped, ReadersCovered
  <2> QED
    BY <2>2, <2>6 DEF NoneSkipped
<1>7. ASSUME NEW c \in Calls, NEW saved \in SUBSET got[c], SaveOutput(c, saved) PROVE NoneSkipped'
  <2>1. /\ UNCHANGED <<status, records, conf, ended>> /\ Covered' = Covered \cup saved
        /\ Goto(c, "saved") /\ pc[c] = "read" /\ got' = [got EXCEPT ![c] = @ \ saved]
    BY <1>7 DEF SaveOutput, history, Covered
  <2>2. SkippedOnlyLateOrUnsaved' /\ ConfCovered' /\ EndedLast'
    BY <2>1 DEF NoneSkipped, SkippedOnlyLateOrUnsaved, ConfCovered, EndedLast, CoveredUntil
  <2>3. \A q \in Calls : /\ pc'[q] = IF q = c THEN "saved" ELSE pc[q]
                         /\ got'[q] = IF q = c THEN got[c] \ saved ELSE got[q]
    BY <2>1 DEF Goto, TypeOK
  <2>4. ReadersCovered'
    BY <2>1, <2>3 DEF NoneSkipped, ReadersCovered
  <2> QED
    BY <2>2, <2>4 DEF NoneSkipped
<1>8. ASSUME NEW c \in Calls, MarkCompleted(c) PROVE NoneSkipped'
  <2>1. /\ UNCHANGED <<records, processed, late>> /\ Ends(c) /\ pc[c] = "saved"
        /\ unsaved' = unsaved \cup got[c] /\ ended' = now + 1
        /\ status'.lastExecution = now + 1
    BY <1>8 DEF MarkCompleted, TypeOK, Status
  <2>2. Covered \subseteq Covered' /\ records \subseteq Covered'
    BY <2>1 DEF NoneSkipped, ReadersCovered, Covered
  <2>3. SkippedOnlyLateOrUnsaved'
    BY <2>1, <2>2 DEF SkippedOnlyLateOrUnsaved, CoveredUntil
  <2>4. EndedLast'
    BY <1>s, <2>1, EndsKeepsEnded DEF NoneSkipped, EndedLast
  <2> QED
    BY <2>1, <2>2, <2>3, <2>4, EndsKeepsReaders, EndsKeepsConf DEF NoneSkipped
<1>9. ASSUME NEW c \in Calls, Fail(c) PROVE NoneSkipped'
  <2>1. UNCHANGED <<status, records, ended>> /\ Covered' = Covered /\ Ends(c)
    BY <1>9 DEF Fail, history, Covered
  <2>2. SkippedOnlyLateOrUnsaved'
    BY <2>1 DEF NoneSkipped, SkippedOnlyLateOrUnsaved, CoveredUntil
  <2> QED
    BY <1>s, <2>1, <2>2, EndsKeepsReaders, EndsKeepsConf, EndsKeepsEnded
       DEF NoneSkipped, EndedLast
<1>10. ASSUME NEW c \in Calls, ToggleRead(c) PROVE NoneSkipped'
  BY <1>10, BeginKeepsCovered DEF ToggleRead, DataFrame, history
<1>11. ASSUME NEW c \in Calls, NEW enabled \in BOOLEAN, ToggleSave(c, enabled)
       PROVE  NoneSkipped'
  <2>1. UNCHANGED <<records, ended>> /\ Covered' = Covered /\ Ends(c)
    BY <1>11 DEF ToggleSave, history, Covered
  <2>2. status'.lastExecution = conf[c].lastExecution
    BY <1>11 DEF ToggleSave, TypeOK, Status
  <2>3. SkippedOnlyLateOrUnsaved' /\ status'.lastExecution <= ended'
    BY <2>1, <2>2 DEF NoneSkipped, ConfCovered, EndedLast, SkippedOnlyLateOrUnsaved, CoveredUntil
  <2> QED
    BY <1>s, <2>1, <2>3, EndsKeepsReaders, EndsKeepsConf, EndsKeepsEnded
       DEF NoneSkipped, EndedLast
<1>12. CASE UNCHANGED vars
  BY <1>12, FrameKeepsCovered DEF vars, DataFrame
<1> QED
  BY <1>1, <1>2, <1>3, <1>4, <1>5, <1>6, <1>7, <1>8, <1>9, <1>10, <1>11, <1>12
     DEF Next, Run
-----------------------------------------------------------------------------
(* The inductive invariant of a function's runs holds in every state.      *)
THEOREM Inductive == Spec => []IInv
<1>1. Init => IInv
  <2> SUFFICES ASSUME Init PROVE IInv
    OBVIOUS
  <2>1. TypeOK
    <3>1. now = 1 /\ NoStatus \in Status
      BY NoStatusType DEF Init
    <3>2. conf \in [Calls -> Status] /\ status \in Status
      BY <3>1 DEF Init
    <3>3. /\ now >= 1 /\ coming = {} /\ records = {} /\ processed = {}
          /\ late = {} /\ unsaved = {} /\ ended \in Times
      BY DEF Init, Times, Never
    <3>4. /\ pc \in [Calls -> Steps] /\ got \in [Calls -> SUBSET records]
          /\ \A c \in Calls : conf[c] = NoStatus /\ got[c] = {}
      BY DEF Init, Steps
    <3>5. events \in BOOLEAN
      BY DEF Init
    <3>6. now \in Nat
      BY <3>1
    <3> QED
      BY <3>2, <3>3, <3>4, <3>5, <3>6, Zenon DEF TypeOK
  <2>2. SkippedOnlyLateOrUnsaved /\ ConfCovered /\ EndedLast
    BY DEF Init, SkippedOnlyLateOrUnsaved, ConfCovered, EndedLast, CoveredUntil, NoStatus, Never
  <2>3. ReadersCovered
    BY DEF Init, ReadersCovered
  <2> QED
    BY <2>1, <2>2, <2>3 DEF IInv
<1>2. IInv /\ [Next]_vars => IInv'
  BY TypeStep, CoveredStep DEF IInv, NoneSkipped
<1> QED
  BY <1>1, <1>2, PTL DEF Spec

(* The status row, the runs and the records keep their types.              *)
THEOREM TypeCorrect == Spec => []TypeOK
<1>1. IInv => TypeOK
  BY DEF IInv
<1> QED
  BY <1>1, Inductive, PTL

(* However runs overlap, fail and race with the owner's switch, a record   *)
(* older than the last execution was processed; or its insert committed    *)
(* when some run had read the bundle and was not at its end, or had been   *)
(* completed after the record was stamped; or a run that read it could not *)
(* save its output and was completed all the same.                         *)
THEOREM SkippedHolds == Spec => []SkippedOnlyLateOrUnsaved
<1>1. IInv => SkippedOnlyLateOrUnsaved
  BY DEF IInv
<1> QED
  BY <1>1, Inductive, PTL
=============================================================================
