---------------------------- MODULE SheFunctions ----------------------------
(***************************************************************************)
(* One smart HAT engine (SHE) function of one HAT: its row in              *)
(* she_function_status, the runs that data events and the owner trigger    *)
(* (FunctionExecutionTriggerHandler, FunctionService.run), and the owner   *)
(* who enables and disables it (FunctionManager).                          *)
(*                                                                         *)
(* Every call to the database is a step of its own: a run works with the   *)
(* configuration read when it was triggered, and a record gets its time    *)
(* stamp before it is inserted.  Records and completions get increasing    *)
(* time stamps; time is bounded by MaxTime.  What a function computes is   *)
(* left out: a record is processed once its output is saved, or was there  *)
(* already.  The bundle's window of dates, months wide, is left out too.   *)
(***************************************************************************)
EXTENDS Naturals, FiniteSets

CONSTANTS Calls,       \* slots for runs and for requests of the owner
          MaxTime,     \* bound on time
          MaxRecords,  \* bound on the records saved or to be saved
          Period,      \* of FunctionTrigger.TriggerPeriodic; 0: TriggerIndividual
          Timeout      \* functionExecutionTimeout

ASSUME ConstantsAssumption ==
    MaxTime \in Nat /\ MaxRecords \in Nat /\ Period \in Nat /\ Timeout \in Nat

VARIABLES now,
          status,      \* the row: enabled, lastExecution, executionStarted
          coming,      \* time stamps of records to be inserted
          records,     \* time stamps of the records the bundle asks for
          processed,   \* records whose output is saved
          events,      \* data events wait in the dispatcher's stream
          pc, conf,    \* call -> its next step, and the status it read
          got,         \* run -> the records it read and whose output it did not save
          ended,       \* history: when the latest run was marked completed
          late,        \* history: records inserted late for a run
          unsaved      \* history: records a completed run failed to save the output of

vars == <<now, status, coming, records, processed, events, pc, conf, got,
          ended, late, unsaved>>
history == <<ended, late, unsaved>>

Never == 0
Times == Never..now
Status == [enabled: BOOLEAN, lastExecution: Times, executionStarted: Times]
Marked == {"marked", "read", "saved"}
Steps == {"idle", "triggered", "triggeredAll", "markedAll", "toggle"} \cup Marked

NoStatus == [enabled |-> FALSE, lastExecution |-> Never, executionStarted |-> Never]

(* A time stamp is more than d ago.                                        *)
Before(t, d) == t + d < now

(* findMatchingFunctions, the cases of the status; without a period the    *)
(* trigger is TriggerIndividual.                                           *)
Matching ==
    /\ status.enabled
    /\ Period > 0 =>
         /\ status.lastExecution = Never \/ Before(status.lastExecution, Period)
         /\ status.executionStarted = Never
              \/ Before(status.executionStarted, Timeout)
-----------------------------------------------------------------------------
Init == /\ now = 1
        /\ status = NoStatus
        /\ coming = {} /\ records = {} /\ processed = {}
        /\ late = {} /\ unsaved = {} /\ ended = Never
        /\ events = FALSE
        /\ pc = [c \in Calls |-> "idle"]
        /\ conf = [c \in Calls |-> NoStatus]
        /\ got = [c \in Calls |-> {}]

Goto(c, step) == pc' = [pc EXCEPT ![c] = step]
Reads(c) == conf' = [conf EXCEPT ![c] = status]
EndsForgetfully(c) ==  \* mutant: the records read stay with the slot
    Goto(c, "idle") /\ conf' = [conf EXCEPT ![c] = NoStatus] /\ UNCHANGED got
Ends(c) == /\ Goto(c, "idle")
           /\ conf' = [conf EXCEPT ![c] = NoStatus]
           /\ got' = [got EXCEPT ![c] = {}]
Later == now < MaxTime /\ now' = now + 1

Tick == Later /\ UNCHANGED <<status, coming, records, processed, events, pc, conf, got, history>>

(* dbDataRow: a record that the bundle asks for is stamped.                *)
DataStamped ==
    /\ Later /\ Cardinality(coming \cup records) < MaxRecords
    /\ coming' = coming \cup {now + 1}
    /\ UNCHANGED <<status, records, processed, events, pc, conf, got, history>>

(* Its insert commits, and its event is published.  It is late for a run   *)
(* that has read its records, or was completed since the record's stamp.   *)
Late(d) == d <= ended \/ \E c \in Calls : pc[c] \in {"read", "saved"}
DataCreated(d) ==
    /\ d \in coming
    /\ coming' = coming \ {d}
    /\ records' = records \cup {d}
    /\ events' = TRUE
    /\ late' = IF Late(d) THEN late \cup {d} ELSE late
    /\ UNCHANGED <<now, status, processed, pc, conf, got, ended, unsaved>>

(* The insert fails, or the process stops before it.                       *)
DataLost(d) ==
    /\ d \in coming
    /\ coming' = coming \ {d}
    /\ UNCHANGED <<now, status, records, processed, events, pc, conf, got, history>>
-----------------------------------------------------------------------------
(* The dispatcher takes a batch of events, and triggers the function if    *)
(* its status matches; otherwise the events are gone.                      *)
Dispatch(c) ==
    /\ pc[c] = "idle" /\ events
    /\ events' = FALSE
    /\ IF Matching THEN Goto(c, "triggered") /\ Reads(c)
                   ELSE UNCHANGED <<pc, conf>>
    /\ UNCHANGED <<now, status, coming, records, processed, got, history>>

(* functionTrigger, useAll or not, of an enabled function.                 *)
TriggerByOwner(c, step) ==
    /\ pc[c] = "idle" /\ status.enabled
    /\ Goto(c, step) /\ Reads(c)
    /\ UNCHANGED <<now, status, coming, records, processed, events, got, history>>

(* markExecuting: fails when the last execution ended within the timeout.  *)
MarkExecuting(c) ==
    /\ pc[c] \in {"triggered", "triggeredAll"}
    /\ IF status.lastExecution # Never /\ status.lastExecution + Timeout > now
         THEN Ends(c) /\ UNCHANGED status
         ELSE /\ status' = [status EXCEPT !.executionStarted = now]
              /\ Goto(c, IF pc[c] = "triggered" THEN "marked" ELSE "markedAll")
              /\ UNCHANGED <<conf, got>>
    /\ UNCHANGED <<now, coming, records, processed, events, history>>

(* dataService.bundleData(bundle, createdAfter = lastExecution as read).   *)
ReadBundle(c) ==
    /\ pc[c] \in {"marked", "markedAll"}
    /\ got' = [got EXCEPT ![c] =
                 {d \in records : pc[c] = "markedAll" \/ d > conf[c].lastExecution}]
    /\ Goto(c, "read")
    /\ UNCHANGED <<now, status, coming, records, processed, events, conf, history>>

(* saveDataGroups, skipErrors = true: inserts one by one, not in a         *)
(* transaction, and whatever makes one of them fail is swallowed.          *)
SaveOutput(c, saved) ==
    /\ pc[c] = "read"
    /\ processed' = processed \cup saved
    /\ got' = [got EXCEPT ![c] = @ \ saved]
    /\ Goto(c, "saved")
    /\ UNCHANGED <<now, status, coming, records, events, conf, history>>

(* markCompleted                                                           *)
MarkCompleted(c) ==
    /\ pc[c] = "saved"
    /\ Later
    /\ status' = [status EXCEPT !.executionStarted = Never, !.lastExecution = now + 1]
    /\ ended' = now + 1
    /\ unsaved' = unsaved \cup got[c]
    /\ Ends(c)
    /\ UNCHANGED <<coming, records, processed, events, late>>

(* The function's own failure, or a restart: the mark stays.               *)
FailCompleting(c) ==  \* mutant: a failed run is marked completed, too
    /\ pc[c] \in {"triggered", "triggeredAll", "markedAll"} \cup Marked
    /\ Later
    /\ status' = [status EXCEPT !.executionStarted = Never, !.lastExecution = now + 1]
    /\ ended' = now + 1
    /\ Ends(c)
    /\ UNCHANGED <<coming, records, processed, events, late, unsaved>>
Fail(c) ==
    /\ pc[c] \in {"triggered", "triggeredAll", "markedAll"} \cup Marked
    /\ Ends(c)
    /\ UNCHANGED <<now, status, coming, records, processed, events, history>>

(* functionSetEnabled: reads the configuration, and saves it, status and   *)
(* all, with enabled changed.                                              *)
ToggleRead(c) ==
    /\ pc[c] = "idle"
    /\ Goto(c, "toggle") /\ Reads(c)
    /\ UNCHANGED <<now, status, coming, records, processed, events, got, history>>

ToggleSave(c, enabled) ==
    /\ pc[c] = "toggle"
    /\ status' = [conf[c] EXCEPT !.enabled = enabled]
    /\ Ends(c)
    /\ UNCHANGED <<now, coming, records, processed, events, history>>

Run(c) == \/ MarkExecuting(c) \/ ReadBundle(c)
          \/ \E saved \in SUBSET got[c] : SaveOutput(c, saved)
          \/ MarkCompleted(c) \/ Fail(c)
Next == \/ Tick \/ DataStamped
        \/ \E d \in coming : DataCreated(d) \/ DataLost(d)
        \/ \E c \in Calls :
             \/ Dispatch(c) \/ Run(c) \/ ToggleRead(c)
             \/ \E step \in {"triggered", "triggeredAll"} : TriggerByOwner(c, step)
             \/ \E enabled \in BOOLEAN : ToggleSave(c, enabled)

Spec == Init /\ [][Next]_vars
-----------------------------------------------------------------------------
TypeOK ==
    /\ now \in Nat /\ now >= 1
    /\ status \in Status
    /\ coming \subseteq 1..now /\ records \subseteq 1..now
    /\ processed \subseteq records
    /\ late \subseteq records /\ unsaved \subseteq records /\ ended \in Times
    /\ events \in BOOLEAN
    /\ pc \in [Calls -> Steps]
    /\ conf \in [Calls -> Status]
    /\ got \in [Calls -> SUBSET records]
    /\ \A c \in Calls : pc[c] = "idle" => conf[c] = NoStatus /\ got[c] = {}

(* Reading only what is newer than the last execution skips a record for   *)
(* two reasons only: it was late, i.e. its insert committed while some run *)
(* was between its reading and its end, or after a run had been marked     *)
(* completed later than the record's stamp; or a run that read it failed   *)
(* to save its output and was completed all the same.  That is so whatever *)
(* runs overlap or fail and whatever stale status the owner's switch       *)
(* writes back.                                                            *)
Covered == processed \cup late \cup unsaved
CoveredUntil(t) == \A d \in records : d <= t => d \in Covered
SkippedOnlyLateOrUnsaved == CoveredUntil(status.lastExecution)
-----------------------------------------------------------------------------
(***************************************************************************)
(* What makes SkippedOnlyLateOrUnsaved inductive (SheFunctions_proofs).    *)
(***************************************************************************)

(* A status once read may be written back, or tell a run where to start.   *)
ConfCovered == \A c \in Calls : CoveredUntil(conf[c].lastExecution)

(* No status, read or stored, is of a later time than the latest end.      *)
EndedLast == /\ status.lastExecution <= ended
             /\ \A c \in Calls : conf[c].lastExecution <= ended

(* A run that has read its records has read all that are not covered.      *)
ReadersCovered ==
    \A c \in Calls : pc[c] \in {"read", "saved"} => records \subseteq Covered \cup got[c]

IInv == TypeOK /\ SkippedOnlyLateOrUnsaved /\ ConfCovered /\ EndedLast /\ ReadersCovered
=============================================================================
