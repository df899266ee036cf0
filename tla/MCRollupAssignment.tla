------------------------- MODULE MCRollupAssignment -------------------------
(* An instance of RollupAssignment for TLC: two servers, and tasks that    *)
(* score 2, -29 and nothing at all.                                        *)
EXTENDS RollupAssignment, Sequences, SequencesExt

Minutes(n) == [unit |-> "minutes", value |-> n]

MCInterval == [t \in Tasks |-> CASE t = 1 -> Minutes(59)
                                [] t = 2 -> Minutes(90)
                                [] OTHER -> [unit |-> "milliseconds", value |-> 500]]

(* The balancing as the list that ScoreBalancingAlgorithm sorts.           *)
ListBalance(hosts, tasks, score) ==
    LET Sorted(set) == SetToSortSeq(set, <)
        Share(state, t) ==
            LET top == [Head(state.list) EXCEPT !.load = @ + score[t]]
                less(e) == e.load < top.load
                notLess(e) == e.load >= top.load
                rest == Tail(state.list)
            IN  [list |-> SelectSeq(rest, less) \o <<top>> \o SelectSeq(rest, notLess),
                 map |-> [state.map EXCEPT ![t] = top.host]]
        start == [list |-> [k \in DOMAIN Sorted(hosts) |-> [host |-> Sorted(hosts)[k], load |-> 0]],
                  map |-> [t \in DOMAIN score |-> NoHost]]
    IN  FoldLeft(Share, start, Sorted(tasks)).map

Balance(interval) == INSTANCE RollupAssignment
                     WITH Hosts <- 1 .. 3, NumTasks <- 4, Stored <- {}, Interval <- interval

(* Rebalance gives each task the host that the sorted list gives it, for   *)
(* three hosts, four tasks and all scores from -1 to 2.                    *)
ASSUME BalancesAsListed ==
    \A minutes \in [1 .. 4 -> 59 .. 62], hosts \in (SUBSET (1 .. 3)) \ {{}}, tasks \in SUBSET (1 .. 4) :
        Balance([t \in 1 .. 4 |-> Minutes(minutes[t])])!Rebalance(hosts, tasks)
            = ListBalance(hosts, tasks, [t \in 1 .. 4 |-> 61 - minutes[t]])
=============================================================================
