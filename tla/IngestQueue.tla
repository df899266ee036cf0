----------------------------- MODULE IngestQueue -----------------------------
(***************************************************************************)
(* What a persistent ingest queue promises its clients, without batches,   *)
(* threads, memory queues or checkpoints.  Events are numbered in the      *)
(* order they were accepted.  Within one run of the process they are       *)
(* handed out in that order and each one once; an event is forgotten only  *)
(* after it was settled; after a restart everything that was not forgotten *)
(* is handed out again.  So every event is delivered at least once.        *)
(***************************************************************************)
EXTENDS Integers

VARIABLES
    kept,      \* the oldest event that is still kept
    accepted,  \* the number of events accepted
    next,      \* the next event to hand out
    held,      \* the events handed out and not yet answered
    settled    \* the events answered for good

vars == <<kept, accepted, next, held, settled>>

Init ==
    /\ kept = 0 /\ accepted = 0 /\ next = 0
    /\ held = {} /\ settled = {}

Accept ==
    /\ accepted' = accepted + 1
    /\ UNCHANGED <<kept, next, held, settled>>

(* Events leave the queue one at a time, in order.                         *)
HandOut ==
    /\ next < accepted
    /\ held' = held \cup {next}
    /\ next' = next + 1
    /\ UNCHANGED <<kept, accepted, settled>>

(* An event nobody can read counts as answered.                            *)
PassOver ==
    /\ next < accepted
    /\ settled' = settled \cup {next}
    /\ next' = next + 1
    /\ UNCHANGED <<kept, accepted, held>>

Settle ==
    \E events \in SUBSET held :
        /\ settled' = settled \cup events
        /\ held' = held \ events
        /\ UNCHANGED <<kept, accepted, next>>

(* The answer is lost: the events come again only after a restart.         *)
Abandon ==
    \E events \in SUBSET held :
        /\ held' = held \ events
        /\ UNCHANGED <<kept, accepted, next, settled>>

Forget ==
    \E i \in 0 .. accepted :
        /\ \A j \in 0 .. (i - 1) : j \in settled
        /\ kept' = i
        /\ UNCHANGED <<accepted, next, held, settled>>

Restart ==
    /\ held' = {}
    /\ next' = kept
    /\ UNCHANGED <<kept, accepted, settled>>

Next ==
    \/ Accept
    \/ HandOut
    \/ PassOver
    \/ Settle
    \/ Abandon
    \/ Forget
    \/ Restart

Spec == Init /\ [][Next]_vars

=============================================================================
