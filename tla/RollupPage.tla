----------------------------- MODULE RollupPage -----------------------------
(***************************************************************************)
(* The page that manages roll-up tasks (rollupController.js) and the REST  *)
(* resource it calls (RollUpResource).  The page keeps an object for each  *)
(* task it shows, saves a task whenever the user leaves a field of it and  *)
(* learns the id of a new task from the answer to its first save.  Nothing *)
(* keeps the user from editing or deleting a task while a request for it   *)
(* is under way, requests overtake each other, and others (another page, a *)
(* script) change the same tasks.                                          *)
(*                                                                         *)
(* What a task says is reduced to the revision the user gave it last and   *)
(* to its number of roll-ups: the page shows only the first and saves a    *)
(* task with exactly one.                                                  *)
(***************************************************************************)
EXTENDS Integers, Sequences, FiniteSets, Functions, SequencesExt

CONSTANTS
    Tasks,      \* the objects in $scope.tasks
    Ids,        \* ids of tasks on the server
    NoTask, NoId, \* "no task", "no id yet"
    MaxEdits,   \* bound: changes of a task by the user
    MaxCalls,   \* bound: requests the page sends for tasks
    MaxFaults,  \* bound: requests that fail
    MaxForeign  \* bound: ids that others touch

ASSUME NoTaskAssumption == NoTask \notin Tasks /\ NoId \notin Ids
ASSUME IdsAssumption == IsFiniteSet(Ids)
ASSUME PageBoundsAssumption == {MaxEdits, MaxCalls, MaxFaults, MaxForeign} \subseteq Nat

Content == [rev : 0 .. MaxEdits, rollups : 1 .. 2]
Absent == [rev |-> -1, rollups |-> 0]   \* no such task

VARIABLES
    store,      \* the tasks on the server
    page,       \* $scope.tasks, in the order shown
    task,       \* the objects: id, revision, more than one roll-up, not yet complete
    calls,      \* requests for tasks that are under way
    loading,    \* progress of init()
    list,       \* the server's answer to the list request: roll-ups of each task
    owner,      \* history: the object a task was created from or loaded into
    saved,      \* history: what the last successful save of an object carried
    asked,      \* history: objects the user asked to delete
    overlapped, \* history: objects saved or deleted with a request under way
    dropped,    \* history: objects a request of which was cut off, or refused in doubt
    early,      \* history: objects saved before the list was read
    foreign,    \* history: ids that others touched
    edits, sent, faults  \* bounds: changes, requests and failures so far

history == <<owner, saved, asked, overlapped, dropped, early, foreign>>
bounds == <<edits, sent, faults>>
vars == <<store, page, task, calls, loading, list, history, bounds>>

Calls == [n : 1 .. MaxCalls, kind : {"save", "delete"}, of : Tasks, id : Ids \cup {NoId},
          rev : 0 .. MaxEdits, state : {"sent", "ok", "refused", "ghost"}]

Shown == ToSet(page)
Unused == {t \in Tasks : task[t].rev = -1}
UnderWay(t) == {c \in calls : c.of = t /\ c.state # "ghost"}
Bare == [id |-> NoId, rev |-> -1, complex |-> FALSE, incomplete |-> TRUE]   \* not in use

Init ==
    /\ store \in [Ids -> {Absent} \cup [rev : {0}, rollups : 1 .. 2]]
    /\ Cardinality({i \in Ids : store[i] # Absent}) <= 1
    /\ page = <<>>
    /\ task = [t \in Tasks |-> Bare]
    /\ calls = {}
    /\ loading = "descriptors" /\ list = [i \in {} |-> 0]
    /\ owner = [i \in Ids |-> NoTask]
    /\ saved = [t \in Tasks |-> Absent]
    /\ asked = {} /\ overlapped = {} /\ dropped = {} /\ early = {} /\ foreign = {}
    /\ edits = 0 /\ sent = 0 /\ faults = 0

-----------------------------------------------------------------------------
(* init(): the descriptors of the aggregators, then the list of tasks.     *)

DescriptorsAnswered ==
    /\ loading = "descriptors"
    /\ loading' = "list"
    /\ UNCHANGED <<store, page, task, calls, list, history, bounds>>

ListServed ==
    /\ loading = "list"
    /\ loading' = "listed"
    /\ list' = [i \in {j \in Ids : store[j] # Absent} |-> store[i].rollups]
    /\ UNCHANGED <<store, page, task, calls, history, bounds>>

(* Mutant of ListAnswered: the answer takes the place of what is shown.    *)
ListAnsweredReplaces ==
    /\ loading = "listed"
    /\ loading' = "done"
    /\ \E new \in Injection(DOMAIN list, Unused) :
         /\ page' \in SetToSeqs(Range(new))
         /\ task' = [t \in Tasks |->
                IF \E i \in DOMAIN list : new[i] = t
                THEN [Bare EXCEPT !.id = CHOOSE i \in DOMAIN list : new[i] = t, !.rev = 0, !.incomplete = FALSE]
                ELSE task[t]]
         /\ owner' = [i \in Ids |-> IF i \in DOMAIN list /\ owner[i] = NoTask THEN new[i] ELSE owner[i]]
    /\ UNCHANGED <<store, calls, list, saved, asked, overlapped, dropped, early, foreign, bounds>>

(* toSimpleTask and push for each task of the answer, then orderByFilter.  *)
ListAnswered ==
    /\ loading = "listed"
    /\ loading' = "done"
    /\ \E new \in Injection(DOMAIN list, Unused) :
       LET loaded == Range(new)
           idOf(t) == CHOOSE i \in DOMAIN list : new[i] = t
       IN  /\ page' \in SetToSeqs(Shown \cup loaded)
           /\ task' = [t \in Tasks |->
                IF t \in loaded
                THEN [id |-> idOf(t), rev |-> 0, complex |-> list[idOf(t)] > 1, incomplete |-> FALSE]
                ELSE task[t]]
           /\ owner' = [i \in Ids |-> IF i \in DOMAIN list /\ owner[i] = NoTask THEN new[i] ELSE owner[i]]
    /\ UNCHANGED <<store, calls, list, saved, asked, overlapped, dropped, early, foreign, bounds>>

(* Either request of init() fails: the page starts without tasks.          *)
LoadFails ==
    /\ loading \in {"descriptors", "list", "listed"} /\ faults < MaxFaults
    /\ loading' = "failed" /\ faults' = faults + 1
    /\ UNCHANGED <<store, page, task, calls, list, history, edits, sent>>

-----------------------------------------------------------------------------
(* The user                                                                *)

(* addTask: the new object is incomplete and has no id.                    *)
AddTask(t) ==
    /\ t \in Unused
    /\ task' = [task EXCEPT ![t] = [Bare EXCEPT !.rev = 0]]
    /\ page' = Append(page, t)
    /\ UNCHANGED <<store, calls, loading, list, history, bounds>>

(* $http for each of the objects ts, in this order.                        *)
Send(kind, ts) ==
    /\ sent + Len(ts) <= MaxCalls
    /\ sent' = sent + Len(ts)
    /\ calls' = calls \cup {[n |-> sent + k, kind |-> kind, of |-> ts[k], id |-> task'[ts[k]].id,
                             rev |-> task'[ts[k]].rev, state |-> "sent"] : k \in DOMAIN ts}

ActOn(ts) == overlapped' = overlapped \cup {t \in ts : UnderWay(t) # {}}

(* saveTask: toRealTask builds a task of one roll-up from the object.      *)
SaveTask(t) ==
    /\ Send("save", <<t>>)
    /\ ActOn({t})
    /\ early' = IF loading \in {"descriptors", "list"} THEN early \cup {t} ELSE early

Change(t, incomplete) ==
    /\ t \in Shown /\ edits < MaxEdits
    /\ edits' = edits + 1
    /\ task' = [task EXCEPT ![t].rev = edits', ![t].incomplete = incomplete]

(* onBlur of a complete task without errors, whether it was changed or     *)
(* not.                                                                    *)
Blur(t) ==
    /\ \/ Change(t, FALSE)
       \/ t \in Shown /\ ~task[t].incomplete /\ UNCHANGED <<task, edits>>
    /\ SaveTask(t)
    /\ UNCHANGED <<store, page, loading, list, owner, saved, asked, dropped, foreign, faults>>

(* A change without a save: onBlur finds the task incomplete or in error;  *)
(* or the edit of an aggregator is cancelled, which restores the copy that *)
(* is shown and not the one in the task.                                   *)
ChangeUnsaved(t, incomplete) ==
    /\ Change(t, incomplete)
    /\ incomplete \/ ~task[t].incomplete
    /\ UNCHANGED <<store, page, calls, loading, list, history, sent, faults>>

(* deleteTask, confirmed; a complex task has no button for it.             *)
DeleteTask(t) ==
    /\ t \in Shown /\ ~task[t].complex
    /\ asked' = asked \cup {t}
    /\ ActOn({t})
    /\ UNCHANGED task
    /\ IF task[t].id = NoId
       THEN page' = RemoveFirst(page, t) /\ UNCHANGED <<calls, sent>>
       ELSE Send("delete", <<t>>) /\ UNCHANGED page
    /\ UNCHANGED <<store, loading, list, owner, saved, dropped, early, foreign, edits, faults>>

(* The loop of deleteSelected: its length is taken before it starts, while *)
(* deleteTask takes objects without id out of the array it runs over.  The *)
(* object after such a one is passed over, and past the end of the shorter *)
(* array the loop throws.                                                  *)
DeleteOne(selected, w, k) ==
    IF k > Len(w.page) \/ w.page[k] \notin selected THEN w
    ELSE IF task[w.page[k]].id = NoId THEN [w EXCEPT !.page = RemoveAt(@, k)]
    ELSE [w EXCEPT !.sent = Append(@, w.page[k])]

DeleteLoop(selected) ==
    LET walk[k \in 0 .. Len(page)] ==
            IF k = 0 THEN [page |-> page, sent |-> <<>>] ELSE DeleteOne(selected, walk[k - 1], k)
    IN  walk

(* deleteSelected, confirmed.                                              *)
DeleteSelected(selected) ==
    LET walk == DeleteLoop(selected)[Len(page)]
    IN  /\ selected # {} /\ selected \subseteq Shown
        /\ asked' = asked \cup selected
        /\ UNCHANGED task
        /\ page' = walk.page
        /\ Send("delete", walk.sent)
        /\ ActOn(ToSet(walk.sent) \cup (Shown \ ToSet(walk.page)))
        /\ UNCHANGED <<store, loading, list, owner, saved, dropped, early, foreign, edits, faults>>

-----------------------------------------------------------------------------
(* The server.  A request that the page has given up, or that was refused  *)
(* in doubt, may still be served.                                          *)

Fresh(i) == store[i] = Absent /\ owner[i] = NoTask /\ i \notin foreign

Serve(c, state, id) ==
    calls' = (calls \ {c}) \cup
             (IF c.state = "ghost" THEN {} ELSE {[c EXCEPT !.state = state, !.id = id]})

(* Mutant of ServeSave: create leaves a task alone that exists already.    *)
ServeSaveOnce(c) ==
    /\ c.kind = "save" /\ c.state \in {"sent", "ghost"}
    /\ \E i \in Ids :
         /\ IF c.id = NoId THEN Fresh(i) ELSE i = c.id
         /\ store' = [store EXCEPT ![i] = IF @ = Absent THEN [rev |-> c.rev, rollups |-> 1] ELSE @]
         /\ owner' = [owner EXCEPT ![i] = IF @ = NoTask THEN c.of ELSE @]
         /\ Serve(c, "ok", i)
    /\ UNCHANGED <<page, task, loading, list, saved, asked, overlapped, dropped, early, foreign, bounds>>

(* create: a task without id gets a new one; one with an id is written at  *)
(* this id, whether there is a task with it or not.                        *)
ServeSave(c) ==
    /\ c.kind = "save" /\ c.state \in {"sent", "ghost"}
    /\ \E i \in Ids :
         /\ IF c.id = NoId THEN Fresh(i) ELSE i = c.id
         /\ store' = [store EXCEPT ![i] = [rev |-> c.rev, rollups |-> 1]]
         /\ owner' = [owner EXCEPT ![i] = IF @ = NoTask THEN c.of ELSE @]
         /\ Serve(c, "ok", i)
    /\ UNCHANGED <<page, task, loading, list, saved, asked, overlapped, dropped, early, foreign, bounds>>

(* delete: NOT_FOUND unless there is such a task.  (The new time of the    *)
(* table, a statement of its own, is of no use to the page; that it fails  *)
(* is one case of RefuseInDoubt.)                                          *)
ServeDelete(c) ==
    /\ c.kind = "delete" /\ c.state \in {"sent", "ghost"}
    /\ Serve(c, IF store[c.id] = Absent THEN "refused" ELSE "ok", c.id)
    /\ store' = [store EXCEPT ![c.id] = Absent]
    /\ UNCHANGED <<page, task, loading, list, history, bounds>>

(* The server answers with an error and has done nothing.                  *)
Refuse(c) ==
    /\ c.state = "sent" /\ faults < MaxFaults
    /\ faults' = faults + 1
    /\ Serve(c, "refused", c.id)
    /\ UNCHANGED <<store, page, task, loading, list, history, edits, sent>>

(* The server answers with an error although what it sent to the store has *)
(* taken effect or still will: a write timed out, or a delete went through *)
(* and the statement after it did not.                                     *)
RefuseInDoubt(c) ==
    /\ c.state = "sent" /\ faults < MaxFaults
    /\ faults' = faults + 1
    /\ dropped' = dropped \cup {c.of}
    /\ calls' = (calls \ {c}) \cup {[c EXCEPT !.state = "refused"], [c EXCEPT !.state = "ghost"]}
    /\ UNCHANGED <<store, page, task, loading, list, owner, saved, asked, overlapped, early, foreign,
                   edits, sent>>

(* The connection is cut off before or after the server has served the     *)
(* request; the page shows an alert.                                       *)
Drop(c) ==
    /\ c.state \in {"sent", "ok"} /\ faults < MaxFaults
    /\ faults' = faults + 1
    /\ dropped' = dropped \cup {c.of}
    /\ calls' = (calls \ {c}) \cup (IF c.state = "sent" THEN {[c EXCEPT !.state = "ghost"]} ELSE {})
    /\ UNCHANGED <<store, page, task, loading, list, owner, saved, asked, overlapped, early, foreign,
                   edits, sent>>

(* Others delete a task or write it with any contents.                     *)
Foreign(i, content) ==
    /\ Cardinality(foreign \cup {i}) <= MaxForeign
    /\ store[i] # Absent /\ content # store[i]
    /\ store' = [store EXCEPT ![i] = content]
    /\ foreign' = foreign \cup {i}
    /\ UNCHANGED <<page, task, calls, loading, list, owner, saved, asked, overlapped, dropped, early, bounds>>

-----------------------------------------------------------------------------
(* The answers                                                             *)

(* Mutant of SaveAnswered: the page does not keep the id.                  *)
SaveAnsweredNoId(c) ==
    /\ c.kind = "save" /\ c.state = "ok"
    /\ UNCHANGED task
    /\ saved' = [saved EXCEPT ![c.of] = [rev |-> c.rev, rollups |-> 1]]
    /\ calls' = calls \ {c}
    /\ UNCHANGED <<store, page, loading, list, owner, asked, overlapped, dropped, early, foreign, bounds>>

SaveAnswered(c) ==
    /\ c.kind = "save" /\ c.state = "ok"
    /\ task' = [task EXCEPT ![c.of].id = c.id]
    /\ saved' = [saved EXCEPT ![c.of] = [rev |-> c.rev, rollups |-> 1]]
    /\ calls' = calls \ {c}
    /\ UNCHANGED <<store, page, loading, list, owner, asked, overlapped, dropped, early, foreign, bounds>>

(* removeTaskFromTasks                                                     *)
DeleteAnswered(c) ==
    /\ c.kind = "delete" /\ c.state = "ok"
    /\ page' = RemoveFirst(page, c.of)
    /\ calls' = calls \ {c}
    /\ UNCHANGED <<store, task, loading, list, history, bounds>>

Alert(c) ==
    /\ c.state = "refused"
    /\ calls' = calls \ {c}
    /\ UNCHANGED <<store, page, task, loading, list, history, bounds>>

User ==
    \/ \E t \in Tasks : AddTask(t) \/ Blur(t) \/ DeleteTask(t)
    \/ \E t \in Tasks, incomplete \in BOOLEAN : ChangeUnsaved(t, incomplete)
    \/ \E selected \in SUBSET Shown : DeleteSelected(selected)

Server ==
    \/ \E c \in calls : ServeSave(c) \/ ServeDelete(c) \/ Refuse(c) \/ RefuseInDoubt(c)
    \/ \E i \in Ids : \E content \in {Absent, [rev |-> 0, rollups |-> 2]} : Foreign(i, content)

Next ==
    \/ DescriptorsAnswered \/ ListServed \/ ListAnswered \/ LoadFails
    \/ User \/ Server
    \/ \E c \in calls : Drop(c) \/ SaveAnswered(c) \/ DeleteAnswered(c) \/ Alert(c)

Spec == Init /\ [][Next]_vars

-----------------------------------------------------------------------------
(* Properties                                                              *)

(* Objects the user handled one request at a time, after the list was      *)
(* read, and whose requests were all answered, with an error only if the   *)
(* server did nothing.                                                     *)
Calm(t) == t \in Tasks \ (overlapped \cup dropped \cup early) /\ UnderWay(t) = {}

(* Once its requests are answered, a task made by the page or loaded into  *)
(* it is on the server exactly when the page shows it under its id: no     *)
(* forgotten copy that goes on being executed, no task that only the page  *)
(* has, no second object for it.  What breaks it in the real page is in    *)
(* Calm: a field left again before the first save has answered creates a   *)
(* second task, a save that overtakes a delete brings the task back, an    *)
(* error in doubt leaves the page with a task that is gone, or without one *)
(* that goes on being executed.                                            *)
PageMirrorsStore ==
    \A i \in Ids \ foreign :
        Calm(owner[i]) =>
            /\ store[i] # Absent <=> owner[i] \in Shown /\ task[owner[i]].id = i
            /\ \A t \in Shown : task[t].id = i => t = owner[i]

(* What the server keeps of a task the page has saved is what the last     *)
(* successful save carried, whatever was refused before or after it,       *)
(* unless what the server refused took effect all the same (Calm).         *)
ShownIsStored ==
    \A i \in Ids \ foreign :
        Calm(owner[i]) /\ owner[i] \in Shown /\ saved[owner[i]] # Absent
            => store[i] = saved[owner[i]]

(* Only what the user asked to delete, alone or as part of a selection, is *)
(* taken off the page or, unless others did it, off the server; also while *)
(* requests overlap and fail.  (A task saved before the list was read has  *)
(* two objects.)                                                           *)
OnlyAskedGone ==
    /\ Tasks \ (Unused \cup Shown) \subseteq asked
    /\ \A i \in Ids \ foreign : store[i] = Absent /\ owner[i] # NoTask => owner[i] \in asked \cup early
=============================================================================
