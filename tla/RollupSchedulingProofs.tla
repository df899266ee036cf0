----------------------- MODULE RollupSchedulingProofs -----------------------
(***************************************************************************)
(* Proofs about RollupScheduling: type correctness, and that a scheduler   *)
(* that has seen the times of both tables runs the jobs it should.  The    *)
(* inductive invariant follows one change of one task through the tables,  *)
(* the times and the caches.                                               *)
(***************************************************************************)
EXTENDS RollupScheduling, TLAPS

Applying == pc \in {"apply", "remember"}
Checking == pc \in {"check", "update", "rememberAgain"}

(* The tasks whose jobs are as the caches say: in the first half of a check *)
(* those it has not taken away yet and those it has made.                   *)
Active(t) == IF Applying THEN t \in toCancel \cup (newIds \ toSchedule) ELSE t \in cached

(* No time or version that was read lies ahead of the table it is of, a     *)
(* deletion nobody has announced has taken effect, and an assignment has    *)
(* been announced at least once.                                            *)
TimesInv ==
    /\ seenAssign <= assignTime /\ readAssign <= assignTime
    /\ seenTasks <= taskTime /\ readTasks <= taskTime
    /\ \A t \in Tasks : /\ changedAt[t] <= taskTime /\ assignedAt[t] <= assignTime
                        /\ stored[t] <= taskTime /\ taskCache[t] <= taskTime /\ jobs[t] <= taskTime
                        /\ t \in deleted => stored[t] = 0
                        /\ t \in assigned => assignedAt[t] > 0

(* Where the check is.                                                      *)
PlaceInv ==
    /\ \A s, t \in current : s = t
    /\ pc \notin {"ids", "apply", "remember"} => newIds = {}
    /\ newIds \cap unread = {}
    /\ pc # "ids" => unread = {}
    /\ pc \notin {"apply", "remember"} => toCancel = {} /\ toSchedule = {}
    /\ toCheck \subseteq cached
    /\ toCheck # {} => pc \in {"check", "update", "rememberAgain"}
    /\ pc = "remember" => toCancel = {} /\ current \subseteq (newIds \ cached) \ toSchedule
    /\ pc \in {"update", "rememberAgain"} => current \subseteq cached /\ current \cap toCheck = {}
    /\ pc = "update" => \A t \in current : jobs[t] = 0

(* A change of an assignment that was announced by the time remembered is   *)
(* in m_cachedAssignments; one announced by the time read is in what was    *)
(* read.                                                                    *)
AssignInv ==
    \A t \in Tasks \ removed :
        /\ assignedAt[t] <= seenAssign => (t \in cached <=> t \in assigned)
        /\ pc \in {"ids", "apply", "remember"} /\ t \notin unread /\ assignedAt[t] <= readAssign
               => (t \in newIds <=> t \in assigned)

(* Only tasks that are cached, or are just being scheduled, have a job.     *)
JobInv ==
    /\ \A t \in Tasks \ torn :
           jobs[t] # 0 => t \in cached \/ (Applying /\ t \in newIds \ toSchedule)
    /\ Applying => \A t \in (cached \ newIds) \ toCancel : jobs[t] = 0

(* A task m_tasksCache has in its latest version has a job of that version. *)
CacheInv ==
    \A t \in Tasks \ (torn \cup missed) :
        Active(t) /\ stored[t] # 0 /\ taskCache[t] = stored[t] => jobs[t] = stored[t]

(* A change of a task that was announced by the time remembered is in its   *)
(* job and in the cache.                                                    *)
SeenInv ==
    \A t \in Tasks \ (torn \cup missed \cup deleted) :
        Active(t) /\ changedAt[t] <= seenTasks
            => /\ jobs[t] = stored[t]
               /\ stored[t] # 0 => taskCache[t] = stored[t] \/ (pc = "remember" /\ t \in current)

(* And so is one announced by the time read, once the task was looked at.   *)
CheckedInv ==
    Checking =>
        \A t \in (cached \ (toCheck \cup current)) \ (torn \cup missed \cup deleted) :
            changedAt[t] <= readTasks => /\ jobs[t] = stored[t]
                                         /\ stored[t] # 0 => taskCache[t] = stored[t]

(* A task being scheduled again has changed since the time remembered; a    *)
(* job just made has the latest version or one that will be noticed.        *)
CurrentInv ==
    \A t \in current \ deleted :
        /\ pc \in {"update", "rememberAgain"} /\ t \notin torn \cup missed => changedAt[t] > seenTasks
        /\ pc \in {"remember", "rememberAgain"}
               => jobs[t] = stored[t] \/ (changedAt[t] > seenTasks /\ changedAt[t] > readTasks)

Inv ==
    /\ TypeOK /\ TimesInv /\ PlaceInv
    /\ AssignInv /\ JobInv /\ CacheInv /\ SeenInv /\ CheckedInv /\ CurrentInv

USE SchedulingAssumption

LEMMA InitInv == Init => Inv
<1> SUFFICES ASSUME Init PROVE Inv
  OBVIOUS
<1> USE DEF Init, None, Applying, Checking, Active
<1>1. TypeOK
  BY DEF TypeOK, Locations
<1>2. TimesInv
  BY DEF TimesInv
<1>3. PlaceInv
  BY DEF PlaceInv
<1>4. AssignInv
  BY DEF AssignInv
<1>5. JobInv
  BY DEF JobInv
<1>6. CacheInv
  BY DEF CacheInv
<1>7. SeenInv
  BY DEF SeenInv
<1>8. CheckedInv
  BY DEF CheckedInv
<1>9. CurrentInv
  BY DEF CurrentInv
<1> QED
  BY <1>1, <1>2, <1>3, <1>4, <1>5, <1>6, <1>7, <1>8, <1>9 DEF Inv

-----------------------------------------------------------------------------
(* Changes of the tables                                                   *)

LEMMA WriteTaskInv == ASSUME NEW t \in Tasks, Inv, WriteTask(t) PROVE Inv'
<1> USE DEF Inv, WriteTask, Changed, Manager, taskTable, assignTable, seenVars, localVars
<1>1. TypeOK'
  BY DEF TypeOK
<1>2. TimesInv'
  BY DEF TypeOK, TimesInv
<1>3. PlaceInv'
  BY DEF PlaceInv
<1>4. AssignInv'
  BY DEF AssignInv
<1>5. JobInv'
  BY DEF JobInv, Applying
<1>6. CacheInv'
  BY DEF TypeOK, CacheInv, Applying, Active, TimesInv
<1>7. SeenInv'
  BY DEF TypeOK, SeenInv, Applying, Active, TimesInv
<1>8. CheckedInv'
  BY DEF TypeOK, CheckedInv, Checking, TimesInv
<1>9. CurrentInv'
  BY DEF TypeOK, CurrentInv, TimesInv
<1> QED
  BY <1>1, <1>2, <1>3, <1>4, <1>5, <1>6, <1>7, <1>8, <1>9

LEMMA DeleteTaskInv == ASSUME NEW t \in Tasks, Inv, DeleteTask(t) PROVE Inv'
<1> USE DEF Inv, DeleteTask, Changed, Manager, taskTable, assignTable, seenVars, localVars
<1>1. TypeOK'
  BY DEF TypeOK
<1>2. TimesInv'
  BY DEF TypeOK, TimesInv
<1>3. PlaceInv'
  BY DEF PlaceInv
<1>4. AssignInv'
  BY DEF AssignInv
<1>5. JobInv'
  BY DEF JobInv, Applying
<1>6. CacheInv'
  BY DEF CacheInv, Applying, Active
<1>7. SeenInv'
  BY DEF SeenInv, Applying, Active
<1>8. CheckedInv'
  BY DEF CheckedInv, Checking
<1>9. CurrentInv'
  BY DEF CurrentInv
<1> QED
  BY <1>1, <1>2, <1>3, <1>4, <1>5, <1>6, <1>7, <1>8, <1>9

LEMMA AnnounceDeleteInv == ASSUME NEW t \in Tasks, Inv, AnnounceDelete(t) PROVE Inv'
<1> USE DEF Inv, AnnounceDelete, Manager, taskTable, assignTable, seenVars, localVars
<1>1. TypeOK'
  BY DEF TypeOK
<1>2. TimesInv'
  BY DEF TypeOK, TimesInv
<1>3. PlaceInv'
  BY DEF PlaceInv
<1>4. AssignInv'
  BY DEF AssignInv
<1>5. JobInv'
  BY DEF JobInv, Applying
<1>6. CacheInv'
  BY DEF CacheInv, Applying, Active
<1>7. SeenInv'
  BY DEF TypeOK, SeenInv, Applying, Active, TimesInv
<1>8. CheckedInv'
  BY DEF TypeOK, CheckedInv, Checking, TimesInv
<1>9. CurrentInv'
  BY DEF TypeOK, CurrentInv, TimesInv
<1> QED
  BY <1>1, <1>2, <1>3, <1>4, <1>5, <1>6, <1>7, <1>8, <1>9

LEMMA SetAssignmentInv == ASSUME NEW t \in Tasks, NEW mine \in BOOLEAN, Inv, SetAssignment(t, mine) PROVE Inv'
<1> USE DEF Inv, SetAssignment, Changed, Manager, taskTable, assignTable, seenVars, localVars
<1>1. TypeOK'
  BY DEF TypeOK
<1>2. TimesInv'
  BY DEF TypeOK, TimesInv
<1>3. PlaceInv'
  BY DEF PlaceInv
<1>4. AssignInv'
  BY DEF TypeOK, AssignInv, TimesInv
<1>5. JobInv'
  BY DEF JobInv, Applying
<1>6. CacheInv'
  BY DEF CacheInv, Applying, Active
<1>7. SeenInv'
  BY DEF SeenInv, Applying, Active
<1>8. CheckedInv'
  BY DEF CheckedInv, Checking
<1>9. CurrentInv'
  BY DEF CurrentInv
<1> QED
  BY <1>1, <1>2, <1>3, <1>4, <1>5, <1>6, <1>7, <1>8, <1>9

LEMMA RemoveAssignmentInv == ASSUME NEW t \in Tasks, Inv, RemoveAssignment(t) PROVE Inv'
<1> USE DEF Inv, RemoveAssignment, Changed, Manager, taskTable, assignTable, seenVars, localVars
<1>1. TypeOK'
  BY DEF TypeOK
<1>2. TimesInv'
  BY DEF TimesInv
<1>3. PlaceInv'
  BY DEF PlaceInv
<1>4. AssignInv'
  BY DEF AssignInv
<1>5. JobInv'
  BY DEF JobInv, Applying
<1>6. CacheInv'
  BY DEF CacheInv, Applying, Active
<1>7. SeenInv'
  BY DEF SeenInv, Applying, Active
<1>8. CheckedInv'
  BY DEF CheckedInv, Checking
<1>9. CurrentInv'
  BY DEF CurrentInv
<1> QED
  BY <1>1, <1>2, <1>3, <1>4, <1>5, <1>6, <1>7, <1>8, <1>9

LEMMA AnnounceRemoveInv == ASSUME NEW t \in Tasks, Inv, AnnounceRemove(t) PROVE Inv'
<1> USE DEF Inv, AnnounceRemove, Manager, taskTable, assignTable, seenVars, localVars
<1>1. TypeOK'
  BY DEF TypeOK
<1>2. TimesInv'
  BY DEF TypeOK, TimesInv
<1>3. PlaceInv'
  BY DEF PlaceInv
<1>4. AssignInv'
  BY DEF TypeOK, AssignInv, TimesInv
<1>5. JobInv'
  BY DEF JobInv, Applying
<1>6. CacheInv'
  BY DEF CacheInv, Applying, Active
<1>7. SeenInv'
  BY DEF SeenInv, Applying, Active
<1>8. CheckedInv'
  BY DEF CheckedInv, Checking
<1>9. CurrentInv'
  BY DEF CurrentInv
<1> QED
  BY <1>1, <1>2, <1>3, <1>4, <1>5, <1>6, <1>7, <1>8, <1>9

-----------------------------------------------------------------------------
(* The first half of a check                                               *)

LEMMA StartCheckInv == ASSUME Inv, StartCheck PROVE Inv'
<1> USE DEF Inv, StartCheck, Tables, taskTable, assignTable, seenVars, localVars
<1>1. TypeOK'
  BY DEF TypeOK, Locations
<1>2. TimesInv'
  BY DEF TypeOK, TimesInv
<1>3. PlaceInv'
  BY DEF PlaceInv
<1>4. AssignInv'
  BY DEF AssignInv
<1>5. JobInv'
  BY DEF JobInv, Applying
<1>6. CacheInv'
  BY DEF CacheInv, Applying, Active
<1>7. SeenInv'
  BY DEF SeenInv, Applying, Active
<1>8. CheckedInv'
  BY DEF CheckedInv, Checking
<1>9. CurrentInv'
  BY DEF CurrentInv
<1> QED
  BY <1>1, <1>2, <1>3, <1>4, <1>5, <1>6, <1>7, <1>8, <1>9

LEMMA ReadIdInv == ASSUME NEW t \in Tasks, Inv, ReadId(t) PROVE Inv'
<1> USE DEF Inv, ReadId, Tables, taskTable, assignTable, seenVars, localVars
<1>1. TypeOK'
  BY DEF TypeOK, PlaceInv
<1>2. TimesInv'
  BY DEF TimesInv
<1>3. PlaceInv'
  BY DEF PlaceInv
<1>4. AssignInv'
  BY DEF AssignInv, PlaceInv
<1>5. JobInv'
  BY DEF JobInv, Applying
<1>6. CacheInv'
  BY DEF CacheInv, Applying, Active
<1>7. SeenInv'
  BY DEF SeenInv, Applying, Active
<1>8. CheckedInv'
  BY DEF CheckedInv, Checking
<1>9. CurrentInv'
  BY DEF CurrentInv
<1> QED
  BY <1>1, <1>2, <1>3, <1>4, <1>5, <1>6, <1>7, <1>8, <1>9

LEMMA StartApplyInv == ASSUME Inv, StartApply PROVE Inv'
<1> USE DEF Inv, StartApply, Tables, taskTable, assignTable, seenVars, localVars
<1>1. TypeOK'
  BY DEF TypeOK, Locations
<1>2. TimesInv'
  BY DEF TimesInv
<1>3. PlaceInv'
  BY DEF PlaceInv
<1>4. AssignInv'
  BY DEF AssignInv
<1>5. JobInv'
  BY DEF JobInv, Applying
<1>6. CacheInv'
  BY DEF CacheInv, Applying, Active
<1>7. SeenInv'
  BY DEF SeenInv, Applying, Active
<1>8. CheckedInv'
  BY DEF CheckedInv, Checking
<1>9. CurrentInv'
  BY DEF CurrentInv
<1> QED
  BY <1>1, <1>2, <1>3, <1>4, <1>5, <1>6, <1>7, <1>8, <1>9

LEMMA CancelJobInv == ASSUME NEW t \in Tasks, Inv, CancelJob(t) PROVE Inv'
<1> USE DEF Inv, CancelJob, Tables, taskTable, assignTable, seenVars, localVars
<1>1. TypeOK'
  BY DEF TypeOK
<1>2. TimesInv'
  BY DEF TypeOK, TimesInv
<1>3. PlaceInv'
  BY DEF PlaceInv
<1>4. AssignInv'
  BY DEF AssignInv
<1>5. JobInv'
  BY DEF TypeOK, JobInv, Applying
<1>6. CacheInv'
  BY DEF TypeOK, CacheInv, Applying, Active
<1>7. SeenInv'
  BY DEF TypeOK, SeenInv, Applying, Active
<1>8. CheckedInv'
  BY DEF CheckedInv, Checking
<1>9. CurrentInv'
  BY DEF CurrentInv
<1> QED
  BY <1>1, <1>2, <1>3, <1>4, <1>5, <1>6, <1>7, <1>8, <1>9

LEMMA ScheduleNewInv == ASSUME NEW t \in Tasks, Inv, ScheduleNew(t) PROVE Inv'
<1> USE DEF Inv, ScheduleNew, Tables, taskTable, assignTable, seenVars, localVars, MakeJob
<1>1. TypeOK'
  BY DEF TypeOK, Locations
<1>2. TimesInv'
  BY DEF TypeOK, TimesInv
<1>3. PlaceInv'
  BY DEF TypeOK, PlaceInv
<1>4. AssignInv'
  BY DEF AssignInv
<1>5. JobInv'
  BY DEF TypeOK, JobInv, Applying
<1>6. CacheInv'
  BY DEF TypeOK, CacheInv, Applying, Active, JobInv
<1>7. SeenInv'
  BY DEF TypeOK, SeenInv, Applying, Active, JobInv
<1>8. CheckedInv'
  BY DEF CheckedInv, Checking
<1>9. CurrentInv'
  BY DEF TypeOK, CurrentInv
<1> QED
  BY <1>1, <1>2, <1>3, <1>4, <1>5, <1>6, <1>7, <1>8, <1>9

LEMMA RememberTaskInv == ASSUME NEW t \in Tasks, Inv, RememberTask(t) PROVE Inv'
<1> USE DEF Inv, RememberTask, Tables, taskTable, assignTable, seenVars, localVars
<1>1. TypeOK'
  BY DEF TypeOK, Locations
<1>2. TimesInv'
  BY DEF TimesInv
<1>3. PlaceInv'
  BY DEF PlaceInv
<1>4. AssignInv'
  BY DEF AssignInv
<1>5. JobInv'
  BY DEF JobInv, Applying, PlaceInv
<1>6. CacheInv'
  BY DEF TypeOK, CacheInv, Applying, Active
<1>7. SeenInv'
  BY DEF TypeOK, SeenInv, Applying, Active, PlaceInv, CurrentInv
<1>8. CheckedInv'
  BY DEF TypeOK, CheckedInv, Checking, PlaceInv, CurrentInv
<1>9. CurrentInv'
  BY DEF CurrentInv
<1> QED
  BY <1>1, <1>2, <1>3, <1>4, <1>5, <1>6, <1>7, <1>8, <1>9

LEMMA EndApplyInv == ASSUME Inv, EndApply PROVE Inv'
<1> USE DEF Inv, EndApply, Tables, taskTable, assignTable, seenVars, localVars
<1>1. TypeOK'
  BY DEF TypeOK, Locations
<1>2. TimesInv'
  BY DEF TimesInv
<1>3. PlaceInv'
  BY DEF PlaceInv
<1>4. AssignInv'
  BY DEF AssignInv, PlaceInv
<1>5. JobInv'
  BY DEF JobInv, Applying
<1>6. CacheInv'
  BY DEF CacheInv, Applying, Active
<1>7. SeenInv'
  BY DEF SeenInv, Applying, Active
<1>8. CheckedInv'
  BY DEF CheckedInv, Checking
<1>9. CurrentInv'
  BY DEF CurrentInv
<1> QED
  BY <1>1, <1>2, <1>3, <1>4, <1>5, <1>6, <1>7, <1>8, <1>9

-----------------------------------------------------------------------------
(* The second half                                                         *)

LEMMA ReadTaskTimeInv == ASSUME Inv, ReadTaskTime PROVE Inv'
<1> USE DEF Inv, ReadTaskTime, Tables, taskTable, assignTable, seenVars, localVars
<1>1. TypeOK'
  BY DEF TypeOK, Locations
<1>2. TimesInv'
  BY DEF TypeOK, TimesInv
<1>3. PlaceInv'
  BY DEF PlaceInv
<1>4. AssignInv'
  BY DEF AssignInv
<1>5. JobInv'
  BY DEF JobInv, Applying
<1>6. CacheInv'
  BY DEF CacheInv, Applying, Active
<1>7. SeenInv'
  BY DEF SeenInv, Applying, Active
<1>8. CheckedInv'
  BY DEF CheckedInv, Checking
<1>9. CurrentInv'
  BY DEF CurrentInv
<1> QED
  BY <1>1, <1>2, <1>3, <1>4, <1>5, <1>6, <1>7, <1>8, <1>9

LEMMA CheckTaskInv == ASSUME NEW t \in Tasks, Inv, CheckTask(t) PROVE Inv'
<1> USE DEF Inv, CheckTask, Tables, taskTable, assignTable, seenVars, localVars
<1>1. TypeOK'
  BY DEF TypeOK, Locations
<1>2. TimesInv'
  BY DEF TypeOK, TimesInv
<1>3. PlaceInv'
  BY DEF TypeOK, PlaceInv
<1>4. AssignInv'
  BY DEF AssignInv
<1>5. JobInv'
  BY DEF JobInv, Applying
<1>6. CacheInv'
  BY DEF CacheInv, Applying, Active
<1>7. SeenInv'
  BY DEF SeenInv, Applying, Active
<1>8. CheckedInv'
  BY DEF TypeOK, CheckedInv, Applying, Checking, Active, CacheInv
<1>9. CurrentInv'
  BY DEF TypeOK, CurrentInv, Applying, Active, PlaceInv, SeenInv
<1> QED
  BY <1>1, <1>2, <1>3, <1>4, <1>5, <1>6, <1>7, <1>8, <1>9

LEMMA ScheduleAgainInv == ASSUME NEW t \in Tasks, Inv, ScheduleAgain(t) PROVE Inv'
<1> USE DEF Inv, ScheduleAgain, Tables, taskTable, assignTable, seenVars, localVars, MakeJob
<1>1. TypeOK'
  BY DEF TypeOK, Locations
<1>2. TimesInv'
  BY DEF TypeOK, TimesInv
<1>3. PlaceInv'
  BY DEF PlaceInv
<1>4. AssignInv'
  BY DEF AssignInv
<1>5. JobInv'
  BY DEF TypeOK, JobInv, Applying, PlaceInv
<1>6. CacheInv'
  BY DEF TypeOK, CacheInv, Applying, Active
<1>7. SeenInv'
  BY DEF TypeOK, SeenInv, Applying, Active
<1>8. CheckedInv'
  BY DEF TypeOK, CheckedInv, Checking, PlaceInv
<1>9. CurrentInv'
  BY DEF TypeOK, CurrentInv
<1> QED
  BY <1>1, <1>2, <1>3, <1>4, <1>5, <1>6, <1>7, <1>8, <1>9

LEMMA EndCheckInv == ASSUME Inv, EndCheck PROVE Inv'
<1> USE DEF Inv, EndCheck, Tables, taskTable, assignTable, seenVars, localVars
<1>1. TypeOK'
  BY DEF TypeOK, Locations
<1>2. TimesInv'
  BY DEF TypeOK, TimesInv
<1>3. PlaceInv'
  BY DEF PlaceInv
<1>4. AssignInv'
  BY DEF AssignInv
<1>5. JobInv'
  BY DEF JobInv, Applying
<1>6. CacheInv'
  BY DEF CacheInv, Applying, Active
<1>7. SeenInv'
  BY DEF TypeOK, SeenInv, Applying, Checking, Active, CheckedInv
<1>8. CheckedInv'
  BY DEF CheckedInv, Checking
<1>9. CurrentInv'
  BY DEF CurrentInv
<1> QED
  BY <1>1, <1>2, <1>3, <1>4, <1>5, <1>6, <1>7, <1>8, <1>9

-----------------------------------------------------------------------------
(* Failures                                                                *)

LEMMA SkipNewInv == ASSUME NEW t \in Tasks, Inv, SkipNew(t) PROVE Inv'
<1> USE DEF Inv, SkipNew, Fail, Tables, taskTable, assignTable, seenVars, localVars
<1>1. TypeOK'
  BY DEF TypeOK
<1>2. TimesInv'
  BY DEF TimesInv
<1>3. PlaceInv'
  BY DEF PlaceInv
<1>4. AssignInv'
  BY DEF AssignInv
<1>5. JobInv'
  BY DEF JobInv, Applying
<1>6. CacheInv'
  BY DEF CacheInv, Applying, Active
<1>7. SeenInv'
  BY DEF SeenInv, Applying, Active
<1>8. CheckedInv'
  BY DEF CheckedInv, Checking
<1>9. CurrentInv'
  BY DEF CurrentInv
<1> QED
  BY <1>1, <1>2, <1>3, <1>4, <1>5, <1>6, <1>7, <1>8, <1>9

LEMMA SkipAgainInv == ASSUME NEW t \in Tasks, Inv, SkipAgain(t) PROVE Inv'
<1> USE DEF Inv, SkipAgain, Fail, Tables, taskTable, assignTable, seenVars, localVars
<1>1. TypeOK'
  BY DEF TypeOK, Locations
<1>2. TimesInv'
  BY DEF TimesInv
<1>3. PlaceInv'
  BY DEF PlaceInv
<1>4. AssignInv'
  BY DEF AssignInv
<1>5. JobInv'
  BY DEF JobInv, Applying
<1>6. CacheInv'
  BY DEF CacheInv, Applying, Active
<1>7. SeenInv'
  BY DEF SeenInv, Applying, Active
<1>8. CheckedInv'
  BY DEF CheckedInv, Checking, PlaceInv
<1>9. CurrentInv'
  BY DEF CurrentInv
<1> QED
  BY <1>1, <1>2, <1>3, <1>4, <1>5, <1>6, <1>7, <1>8, <1>9

LEMMA AbortInv == ASSUME Inv, Abort PROVE Inv'
<1> USE DEF Inv, Abort, Fail, Tables, taskTable, assignTable, seenVars, localVars, NoLocals, Handled
<1>1. TypeOK'
  BY DEF TypeOK, Locations
<1>2. TimesInv'
  BY DEF TimesInv
<1>3. PlaceInv'
  BY DEF PlaceInv
<1>4. AssignInv'
  BY DEF AssignInv
<1>5. JobInv'
  BY DEF JobInv, Applying
<1>6. CacheInv'
  BY DEF TypeOK, CacheInv, Applying, Active
<1>7. SeenInv'
  BY DEF TypeOK, SeenInv, Applying, Active, PlaceInv
<1>8. CheckedInv'
  BY DEF CheckedInv, Checking
<1>9. CurrentInv'
  BY DEF CurrentInv
<1> QED
  BY <1>1, <1>2, <1>3, <1>4, <1>5, <1>6, <1>7, <1>8, <1>9

LEMMA RestartInv == ASSUME Inv, Restart PROVE Inv'
<1> USE DEF Inv, Restart, Tables, taskTable, assignTable, seenVars, localVars, NoLocals, None
<1>1. TypeOK'
  BY DEF TypeOK, Locations
<1>2. TimesInv'
  BY DEF TypeOK, TimesInv
<1>3. PlaceInv'
  BY DEF PlaceInv
<1>4. AssignInv'
  BY DEF TypeOK, AssignInv, TimesInv
<1>5. JobInv'
  BY DEF JobInv
<1>6. CacheInv'
  BY DEF CacheInv
<1>7. SeenInv'
  BY DEF SeenInv, Active
<1>8. CheckedInv'
  BY DEF CheckedInv
<1>9. CurrentInv'
  BY DEF CurrentInv
<1> QED
  BY <1>1, <1>2, <1>3, <1>4, <1>5, <1>6, <1>7, <1>8, <1>9

-----------------------------------------------------------------------------
(* The theorems                                                            *)

LEMMA NextInv == Inv /\ [Next]_vars => Inv'
<1> SUFFICES ASSUME Inv, [Next]_vars PROVE Inv'
  OBVIOUS
<1>1. CASE \E t \in Tasks : WriteTask(t)
  BY <1>1, WriteTaskInv
<1>2. CASE \E t \in Tasks : DeleteTask(t)
  BY <1>2, DeleteTaskInv
<1>3. CASE \E t \in Tasks : AnnounceDelete(t)
  BY <1>3, AnnounceDeleteInv
<1>4. CASE \E t \in Tasks, mine \in BOOLEAN : SetAssignment(t, mine)
  BY <1>4, SetAssignmentInv
<1>5. CASE \E t \in Tasks : RemoveAssignment(t)
  BY <1>5, RemoveAssignmentInv
<1>6. CASE \E t \in Tasks : AnnounceRemove(t)
  BY <1>6, AnnounceRemoveInv
<1>7. CASE StartCheck
  BY <1>7, StartCheckInv
<1>8. CASE \E t \in Tasks : ReadId(t)
  BY <1>8, ReadIdInv
<1>9. CASE StartApply
  BY <1>9, StartApplyInv
<1>10. CASE \E t \in Tasks : CancelJob(t)
  BY <1>10, CancelJobInv
<1>11. CASE \E t \in Tasks : ScheduleNew(t)
  BY <1>11, ScheduleNewInv
<1>12. CASE \E t \in Tasks : RememberTask(t)
  BY <1>12, RememberTaskInv
<1>13. CASE EndApply
  BY <1>13, EndApplyInv
<1>14. CASE ReadTaskTime
  BY <1>14, ReadTaskTimeInv
<1>15. CASE \E t \in Tasks : CheckTask(t)
  BY <1>15, CheckTaskInv
<1>16. CASE \E t \in Tasks : ScheduleAgain(t)
  BY <1>16, ScheduleAgainInv
<1>17. CASE EndCheck
  BY <1>17, EndCheckInv
<1>18. CASE \E t \in Tasks : SkipNew(t)
  BY <1>18, SkipNewInv
<1>19. CASE \E t \in Tasks : SkipAgain(t)
  BY <1>19, SkipAgainInv
<1>20. CASE Abort
  BY <1>20, AbortInv
<1>21. CASE Restart
  BY <1>21, RestartInv
<1>22. CASE UNCHANGED vars
  BY <1>22 DEF Inv, TypeOK, TimesInv, PlaceInv, AssignInv, JobInv, CacheInv, SeenInv, CheckedInv,
               CurrentInv, Applying, Checking, Active, vars, taskTable, assignTable, seenVars, localVars
<1> QED
  BY <1>1, <1>2, <1>3, <1>4, <1>5, <1>6, <1>7, <1>8, <1>9, <1>10, <1>11, <1>12, <1>13, <1>14, <1>15, <1>16, <1>17, <1>18, <1>19, <1>20, <1>21, <1>22
     DEF Next, Check

(* Every behaviour keeps the inductive invariant.                           *)
THEOREM InvCorrect == Spec => []Inv
<1>1. Init => Inv
  BY InitInv
<1>2. Inv /\ [Next]_vars => Inv'
  BY NextInv
<1> QED
  BY <1>1, <1>2, PTL DEF Spec

(* Type correctness of SchedulingManager and the tables, for any tasks and  *)
(* any number of changes, failures and restarts.                            *)
THEOREM TypeCorrect == Spec => []TypeOK
<1>1. Inv => TypeOK
  BY DEF Inv
<1> QED
  BY <1>1, InvCorrect, PTL

(* A scheduler that has seen the times of both tables has a job for exactly *)
(* the tasks assigned to its server, in their latest versions.              *)
THEOREM JobsMatchCorrect == Spec => []JobsMatch
<1>1. Inv => JobsMatch
  <2> SUFFICES ASSUME Inv, pc = "idle", seenAssign = assignTime, seenTasks = taskTime,
                      NEW t \in Sound
               PROVE  jobs[t] = Wanted(t)
    BY DEF JobsMatch
  <2>1. t \in cached <=> t \in assigned
    BY DEF Inv, TimesInv, AssignInv, Sound
  <2>2. CASE t \in assigned
    <3>1. Active(t) /\ changedAt[t] <= seenTasks
      BY <2>1, <2>2 DEF Inv, TimesInv, Active, Applying, Sound
    <3> QED
      BY <2>2, <3>1 DEF Inv, SeenInv, Sound, Wanted
  <2>3. CASE t \notin assigned
    BY <2>1, <2>3 DEF Inv, JobInv, Applying, Sound, Wanted
  <2> QED
    BY <2>2, <2>3
<1> QED
  BY <1>1, InvCorrect, PTL
=============================================================================
