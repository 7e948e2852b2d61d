----------------------------- MODULE QueueLanes -----------------------------
(***************************************************************************)
(* queue.BuildLanes: the lanes of GET /api/queue as a pure function of the *)
(* listed workflows and the lock keys.                                     *)
(*                                                                         *)
(* A workflow is a record [id, phase, priority, created, holding, waiting] *)
(* where holding and waiting are the sequences of semaphores that its      *)
(* status.synchronization names, each a record [map, key] (the ConfigMap   *)
(* and the key in it).  An entry of a lane is the workflow it stands for;  *)
(* until the lane is sorted it is the place of the workflow in the list.   *)
(***************************************************************************)
EXTENDS Integers, Sequences, FiniteSets

CONSTANT NoPriority  \* spec.priority is not set

\* prioVal
PrioVal(w) == IF w.priority = NoPriority THEN 0 ELSE w.priority

Older(v, w) == v.created < w.created

OlderOnly(v, w) == Older(v, w)  \* broken variant: first come, first served
\* The order of pending entries: priority descending, then oldest first.
Precedes(v, w) ==
    \/ PrioVal(v) > PrioVal(w)
    \/ PrioVal(v) = PrioVal(w) /\ Older(v, w)

\* lockKey keeps the last segment of a semaphore's name.
LockKey(semaphore) == semaphore.key

\* isTerminal is skipped.
LiveWf(w) == w.phase # "Done"

\* The semaphores of a status name key k.
Names(semaphores, k) == \E i \in DOMAIN semaphores : LockKey(semaphores[i]) = k

\* addEntry: a workflow that has its entry gets no second one.
Distinct(wfs, I) == {i \in I : \A j \in I : wfs[j].id = wfs[i].id => i <= j}

\* The entries under key k.
Holders(wfs, k) ==
    Distinct(wfs, {i \in DOMAIN wfs : LiveWf(wfs[i]) /\ Names(wfs[i].holding, k)})
Waiters(wfs, k) ==
    Distinct(wfs, {i \in DOMAIN wfs : LiveWf(wfs[i]) /\ Names(wfs[i].waiting, k)})

\* A finite set in the ascending order of R, a strict total order on it.
Ascending(I, R) ==
    LET Place(i) == Cardinality({j \in I : <<j, i>> \in R}) + 1
    IN  [n \in 1..Cardinality(I) |-> CHOOSE i \in I : Place(i) = n]

\* sort.SliceStable: entries that Less does not tell apart stay in list order.
StableOrder(wfs, I, Less(_, _)) ==
    {p \in I \X I :
        \/ Less(wfs[p[1]], wfs[p[2]])
        \/ ~Less(wfs[p[2]], wfs[p[1]]) /\ p[1] < p[2]}

InOrder(wfs, I, R) == [n \in 1..Cardinality(I) |-> wfs[Ascending(I, R)[n]]]

BuildLane(wfs, k) ==
    LET H == Holders(wfs, k)
        W == Waiters(wfs, k)
    IN  [key |-> k,
         running |-> InOrder(wfs, H, StableOrder(wfs, H, Older)),
         pending |-> InOrder(wfs, W, StableOrder(wfs, W, Precedes))]

\* One lane per key, in the order of the keys.
BuildLanes(wfs, keys) == [i \in DOMAIN keys |-> BuildLane(wfs, keys[i])]

=============================================================================
