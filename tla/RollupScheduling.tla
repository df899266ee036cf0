-------------------------- MODULE RollupScheduling --------------------------
(***************************************************************************)
(* SchedulingManager: the thread of one server that keeps the Quartz jobs  *)
(* for roll-up tasks in step with two tables of the service key store, the *)
(* tasks and their assignment to servers.  Users change the first and the  *)
(* coordinator the second at any time.  The thread sees a change only by   *)
(* the modification time of the whole table; it reads the time first, the  *)
(* keys one after the other, and remembers the time only when all is done. *)
(*                                                                         *)
(* The key store of CassandraDatastore: setValue writes a value and the    *)
(* time of the table in one statement, deleteKey in two.  Modification     *)
(* times grow with each change (no two in the same millisecond); the       *)
(* version of a task is the time of its last write, 0 when there is none.  *)
(***************************************************************************)
EXTENDS Integers, FiniteSets

CONSTANTS
    Tasks,       \* ids of roll-up tasks
    MaxChanges,  \* bound: changes of the two tables
    MaxFaults,   \* bound: failures of the store
    MaxRestarts  \* bound: restarts of the server

ASSUME SchedulingAssumption == {MaxChanges, MaxFaults, MaxRestarts} \subseteq Nat

VARIABLES
    \* the key store
    stored,      \* the version of each task
    changedAt,   \* the time with which the last change of a task was announced
    taskTime,    \* modification time of the table of tasks
    deleted,     \* deleteKey of a task between its two statements
    assigned,    \* tasks assigned to this server
    assignedAt,  \* the time with which the last change of that was announced
    assignTime,  \* modification time of the table of assignments
    removed,     \* deleteKey of an assignment between its two statements
    \* SchedulingManager
    seenAssign,  \* m_assignmentsLastModified
    seenTasks,   \* m_rollupsLastModified
    cached,      \* m_cachedAssignments
    taskCache,   \* m_tasksCache: the version of a task, 0 when there is none
    jobs,        \* the version of the task in the job Quartz has for it, or 0
    \* a check under way
    pc,
    readAssign,  \* assignmentTime
    unread,      \* keys of assignments not read yet
    newIds,      \* newAssignedTaskIds
    toCancel, toSchedule,  \* what is left of delTasks and newTasks
    readTasks,   \* taskStoreTime
    toCheck,     \* assignments rescheduleModifiedTasks has not looked at
    current,     \* the task being scheduled, a set of at most one
    \* history and bounds
    torn,        \* tasks a check has handled before it was cut short
    missed,      \* tasks whose job was not made because the read failed
    changes, faults, restarts

taskTable == <<stored, changedAt, taskTime, deleted>>
assignTable == <<assigned, assignedAt, assignTime, removed>>
seenVars == <<seenAssign, seenTasks, cached, taskCache, jobs>>
localVars == <<readAssign, unread, newIds, toCancel, toSchedule, readTasks, toCheck, current>>
vars == <<taskTable, assignTable, seenVars, pc, localVars, torn, missed, changes, faults, restarts>>

None == [t \in Tasks |-> 0]

Init ==
    /\ stored = None /\ changedAt = None /\ taskTime = 0 /\ deleted = {}
    /\ assigned = {} /\ assignedAt = None /\ assignTime = 0 /\ removed = {}
    /\ seenAssign = 0 /\ seenTasks = 0 /\ cached = {} /\ taskCache = None /\ jobs = None
    /\ pc = "idle"
    /\ readAssign = 0 /\ unread = {} /\ newIds = {} /\ toCancel = {} /\ toSchedule = {}
    /\ readTasks = 0 /\ toCheck = {} /\ current = {}
    /\ torn = {} /\ missed = {}
    /\ changes = 0 /\ faults = 0 /\ restarts = 0

-----------------------------------------------------------------------------
(* Changes of the two tables                                               *)

Changed == changes < MaxChanges /\ changes' = changes + 1
Manager == <<seenVars, pc, localVars, torn, missed, faults, restarts>>

(* RollUpTasksStoreImpl.write: a task is created or updated.                *)
WriteTask(t) ==
    /\ Changed
    /\ taskTime' = taskTime + 1
    /\ stored' = [stored EXCEPT ![t] = taskTime']
    /\ changedAt' = [changedAt EXCEPT ![t] = taskTime']
    /\ deleted' = deleted \ {t}
    /\ UNCHANGED <<assignTable, Manager>>

(* RollUpTasksStoreImpl.remove, its first statement ...                     *)
DeleteTask(t) ==
    /\ Changed
    /\ stored[t] # 0
    /\ stored' = [stored EXCEPT ![t] = 0]
    /\ deleted' = deleted \cup {t}
    /\ UNCHANGED <<changedAt, taskTime, assignTable, Manager>>

(* ... and its second, which may be late or never come.                     *)
AnnounceDelete(t) ==
    /\ t \in deleted
    /\ taskTime' = taskTime + 1
    /\ changedAt' = [changedAt EXCEPT ![t] = taskTime']
    /\ deleted' = deleted \ {t}
    /\ UNCHANGED <<stored, assignTable, Manager, changes>>

(* setAssignment to this server, or to another over an assignment to it.    *)
SetAssignment(t, mine) ==
    /\ Changed
    /\ assigned' = IF mine THEN assigned \cup {t} ELSE assigned \ {t}
    /\ assignTime' = assignTime + 1
    /\ assignedAt' = [assignedAt EXCEPT ![t] = assignTime']
    /\ removed' = removed \ {t}
    /\ UNCHANGED <<taskTable, Manager>>

(* removeAssignment, in two statements as well.                             *)
RemoveAssignment(t) ==
    /\ Changed
    /\ t \in assigned
    /\ assigned' = assigned \ {t}
    /\ removed' = removed \cup {t}
    /\ UNCHANGED <<assignedAt, assignTime, taskTable, Manager>>

AnnounceRemove(t) ==
    /\ t \in removed
    /\ assignTime' = assignTime + 1
    /\ assignedAt' = [assignedAt EXCEPT ![t] = assignTime']
    /\ removed' = removed \ {t}
    /\ UNCHANGED <<assigned, taskTable, Manager, changes>>

-----------------------------------------------------------------------------
(* checkSchedulingChanges, first half: the assignments                     *)

Tables == <<taskTable, assignTable, changes>>

StartCheck ==
    /\ pc = "idle"
    /\ readAssign' = assignTime
    /\ IF assignTime = seenAssign
       THEN pc' = "tasks" /\ UNCHANGED unread
       ELSE pc' = "ids" /\ unread' = Tasks
    /\ UNCHANGED <<Tables, seenVars, newIds, toCancel, toSchedule, readTasks, toCheck, current,
                   torn, missed, faults, restarts>>

(* getAssignedIds reads one key after the other.                            *)
ReadId(t) ==
    /\ pc = "ids" /\ t \in unread
    /\ unread' = unread \ {t}
    /\ newIds' = IF t \in assigned THEN newIds \cup {t} ELSE newIds
    /\ UNCHANGED <<Tables, seenVars, pc, readAssign, toCancel, toSchedule, readTasks, toCheck,
                   current, torn, missed, faults, restarts>>

(* Mutant of StartApply: every assigned task is scheduled anew.             *)
StartApplyAll ==
    /\ pc = "ids" /\ unread = {}
    /\ pc' = "apply"
    /\ toCancel' = cached \ newIds
    /\ toSchedule' = newIds
    /\ UNCHANGED <<Tables, seenVars, readAssign, unread, newIds, readTasks, toCheck, current,
                   torn, missed, faults, restarts>>

StartApply ==
    /\ pc = "ids" /\ unread = {}
    /\ pc' = "apply"
    /\ toCancel' = cached \ newIds
    /\ toSchedule' = newIds \ cached
    /\ UNCHANGED <<Tables, seenVars, readAssign, unread, newIds, readTasks, toCheck, current,
                   torn, missed, faults, restarts>>

(* removeScheduledTask                                                      *)
CancelJob(t) ==
    /\ pc = "apply" /\ t \in toCancel
    /\ toCancel' = toCancel \ {t}
    /\ jobs' = [jobs EXCEPT ![t] = 0]
    /\ torn' = torn \ {t}
    /\ UNCHANGED <<Tables, seenAssign, seenTasks, cached, taskCache, pc, readAssign, unread, newIds,
                   toSchedule, readTasks, toCheck, current, missed, faults, restarts>>

(* scheduleNewTask up to the call of Quartz: nothing when the task is not   *)
(* there, and an exception that is only logged when Quartz has the job.     *)
MakeJob(t, skipped, made) ==
    IF stored[t] = 0 \/ jobs[t] # 0
    THEN /\ pc' = skipped /\ current' = {} /\ UNCHANGED jobs
    ELSE /\ pc' = made /\ current' = {t} /\ jobs' = [jobs EXCEPT ![t] = stored[t]]

ScheduleNew(t) ==
    /\ pc = "apply" /\ toCancel = {} /\ t \in toSchedule
    /\ toSchedule' = toSchedule \ {t}
    /\ MakeJob(t, "apply", "remember")
    /\ UNCHANGED <<Tables, seenAssign, seenTasks, cached, taskCache, readAssign, unread, newIds,
                   toCancel, readTasks, toCheck, torn, missed, faults, restarts>>

(* scheduleNewTask after updateStatus: m_tasksCache.put.                    *)
RememberTask(t) ==
    /\ pc \in {"remember", "rememberAgain"} /\ t \in current
    /\ pc' = IF pc = "remember" THEN "apply" ELSE "check"
    /\ current' = {}
    /\ taskCache' = [taskCache EXCEPT ![t] = jobs[t]]
    /\ torn' = torn \ {t} /\ missed' = missed \ {t}
    /\ UNCHANGED <<Tables, seenAssign, seenTasks, cached, jobs, readAssign, unread, newIds, toCancel,
                   toSchedule, readTasks, toCheck, faults, restarts>>

EndApply ==
    /\ pc = "apply" /\ toCancel = {} /\ toSchedule = {}
    /\ pc' = "tasks"
    /\ cached' = newIds /\ newIds' = {}
    /\ seenAssign' = readAssign
    /\ UNCHANGED <<Tables, seenTasks, taskCache, jobs, readAssign, unread, toCancel, toSchedule,
                   readTasks, toCheck, current, torn, missed, faults, restarts>>

-----------------------------------------------------------------------------
(* checkSchedulingChanges, second half: the tasks                          *)

ReadTaskTime ==
    /\ pc = "tasks"
    /\ readTasks' = taskTime
    /\ IF taskTime = seenTasks
       THEN pc' = "idle" /\ UNCHANGED toCheck
       ELSE pc' = "check" /\ toCheck' = cached
    /\ UNCHANGED <<Tables, seenVars, readAssign, unread, newIds, toCancel, toSchedule, current,
                   torn, missed, faults, restarts>>

(* rescheduleModifiedTasks for one task: the job of a task that is gone or  *)
(* has changed is removed.                                                  *)
CheckTask(t) ==
    /\ pc = "check" /\ t \in toCheck
    /\ toCheck' = toCheck \ {t}
    /\ jobs' = IF stored[t] # taskCache[t] \/ stored[t] = 0 THEN [jobs EXCEPT ![t] = 0] ELSE jobs
    /\ IF stored[t] # 0 /\ stored[t] # taskCache[t]
       THEN pc' = "update" /\ current' = {t}
       ELSE UNCHANGED <<pc, current>>
    /\ UNCHANGED <<Tables, seenAssign, seenTasks, cached, taskCache, readAssign, unread, newIds,
                   toCancel, toSchedule, readTasks, torn, missed, faults, restarts>>

(* updateScheduledTask reads the task once more.                            *)
ScheduleAgain(t) ==
    /\ pc = "update" /\ t \in current
    /\ MakeJob(t, "check", "rememberAgain")
    /\ UNCHANGED <<Tables, seenAssign, seenTasks, cached, taskCache, readAssign, unread, newIds,
                   toCancel, toSchedule, readTasks, toCheck, torn, missed, faults, restarts>>

(* Mutant of EndCheck: the time is read after the tasks.                    *)
EndCheckLate ==
    /\ pc = "check" /\ toCheck = {}
    /\ pc' = "idle"
    /\ taskCache' = [t \in Tasks |-> IF t \in cached THEN taskCache[t] ELSE 0]
    /\ seenTasks' = taskTime
    /\ UNCHANGED <<Tables, seenAssign, cached, jobs, readAssign, unread, newIds, toCancel,
                   toSchedule, readTasks, toCheck, current, torn, missed, faults, restarts>>

EndCheck ==
    /\ pc = "check" /\ toCheck = {}
    /\ pc' = "idle"
    /\ taskCache' = [t \in Tasks |-> IF t \in cached THEN taskCache[t] ELSE 0]
    /\ seenTasks' = readTasks
    /\ UNCHANGED <<Tables, seenAssign, cached, jobs, readAssign, unread, newIds, toCancel,
                   toSchedule, readTasks, toCheck, current, torn, missed, faults, restarts>>

-----------------------------------------------------------------------------
(* Failures                                                                *)

Fail == faults < MaxFaults /\ faults' = faults + 1

(* RollUpException when scheduleNewTask reads the task: logged, no job.     *)
SkipNew(t) ==
    /\ Fail
    /\ pc = "apply" /\ toCancel = {} /\ t \in toSchedule
    /\ toSchedule' = toSchedule \ {t}
    /\ missed' = missed \cup {t}
    /\ UNCHANGED <<Tables, seenVars, pc, readAssign, unread, newIds, toCancel, readTasks, toCheck,
                   current, torn, restarts>>

SkipAgain(t) ==
    /\ Fail
    /\ pc = "update" /\ t \in current
    /\ pc' = "check" /\ current' = {}
    /\ missed' = missed \cup {t}
    /\ UNCHANGED <<Tables, seenVars, readAssign, unread, newIds, toCancel, toSchedule, readTasks,
                   toCheck, torn, restarts>>

NoLocals ==
    /\ pc' = "idle"
    /\ unread' = {} /\ newIds' = {} /\ toCancel' = {} /\ toSchedule' = {} /\ toCheck' = {}
    /\ current' = {}
    /\ UNCHANGED <<readAssign, readTasks>>

(* What this check has done of the difference of assignments so far.        *)
Handled ==
    IF pc \in {"apply", "remember"}
    THEN ((cached \ newIds) \ toCancel) \cup ((newIds \ cached) \ toSchedule)
    ELSE {}

(* Mutant of Abort: the time is remembered although the check failed.       *)
AbortSeen ==
    /\ pc # "idle" /\ Fail
    /\ torn' = torn \cup Handled
    /\ seenAssign' = readAssign
    /\ NoLocals
    /\ UNCHANGED <<Tables, seenTasks, cached, taskCache, jobs, missed, restarts>>

(* Any other exception ends the check, which starts over after the delay:   *)
(* all reads and the write of the status throw those of the Cassandra       *)
(* driver, and getAssignedIds a NullPointerException for a key removed      *)
(* after it was listed.                                                     *)
Abort ==
    /\ pc # "idle" /\ Fail
    /\ torn' = torn \cup Handled
    /\ NoLocals
    /\ UNCHANGED <<Tables, seenVars, missed, restarts>>

(* The server stops and starts: jobs and caches are in memory.              *)
Restart ==
    /\ restarts < MaxRestarts /\ restarts' = restarts + 1
    /\ seenAssign' = 0 /\ seenTasks' = 0 /\ cached' = {} /\ taskCache' = None /\ jobs' = None
    /\ torn' = {} /\ missed' = {}
    /\ NoLocals
    /\ UNCHANGED <<Tables, faults>>

Check ==
    \/ StartCheck \/ StartApply \/ EndApply \/ ReadTaskTime \/ EndCheck
    \/ \E t \in Tasks : \/ ReadId(t) \/ CancelJob(t) \/ ScheduleNew(t) \/ RememberTask(t)
                        \/ CheckTask(t) \/ ScheduleAgain(t)

Next ==
    \/ Check
    \/ \E t \in Tasks : \/ WriteTask(t) \/ DeleteTask(t) \/ AnnounceDelete(t)
                        \/ RemoveAssignment(t) \/ AnnounceRemove(t)
                        \/ SkipNew(t) \/ SkipAgain(t)
    \/ \E t \in Tasks, mine \in BOOLEAN : SetAssignment(t, mine)
    \/ Abort \/ Restart

Spec == Init /\ [][Next]_vars

(* scheduleWithFixedDelay runs the check again and again: it catches every  *)
(* Throwable.                                                               *)
FairSpec == Spec /\ WF_vars(Check)

-----------------------------------------------------------------------------
(* Properties                                                              *)

Times == 0 .. 2 * MaxChanges
Locations == {"idle", "ids", "apply", "remember", "tasks", "check", "update", "rememberAgain"}

(* Every variable is what the code keeps in it; what is left to cancel is   *)
(* cached, what is left to schedule is not, and one task is scheduled at a  *)
(* time.                                                                    *)
TypeOK ==
    /\ stored \in [Tasks -> Nat] /\ changedAt \in [Tasks -> Nat] /\ taskTime \in Nat
    /\ assignedAt \in [Tasks -> Nat] /\ assignTime \in Nat
    /\ taskCache \in [Tasks -> Nat] /\ jobs \in [Tasks -> Nat]
    /\ {seenAssign, seenTasks, readAssign, readTasks, changes, faults, restarts} \subseteq Nat
    /\ {deleted, assigned, removed, cached, unread, newIds, toCheck, torn, missed} \subseteq SUBSET Tasks
    /\ toCancel \subseteq cached \ newIds /\ toSchedule \subseteq newIds \ cached
    /\ pc \in Locations
    /\ current \subseteq Tasks
    /\ current # {} <=> pc \in {"remember", "update", "rememberAgain"}

(* The job this server should have for a task.                              *)
Wanted(t) == IF t \in assigned THEN stored[t] ELSE 0

(* Tasks whose changes were announced and met no failure.                   *)
Sound == Tasks \ (torn \cup missed \cup deleted \cup removed)

(* Once the thread has seen the times of both tables it has a job for       *)
(* exactly the tasks assigned to this server that exist, each in its latest *)
(* version, whatever changed while it was reading.  Excepted are tasks that *)
(* a check had handled when it was cut short (taken away before the next    *)
(* check such a task keeps its job, given back it gets none), that could    *)
(* not be read when they were to be scheduled, and changes nobody announced.*)
JobsMatch ==
    pc = "idle" /\ seenAssign = assignTime /\ seenTasks = taskTime
        => \A t \in Sound : jobs[t] = Wanted(t)

(* When the tables are left alone the thread comes to rest in that state.   *)
JobsSettle == <>[](\A t \in Sound : jobs[t] = Wanted(t))
=============================================================================
