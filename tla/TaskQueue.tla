------------------------------ MODULE TaskQueue ------------------------------
(***************************************************************************)
(* What the task manager promises the rest of the backend: a set of block  *)
(* heights waiting to be indexed, one task at most on its way from the set *)
(* to the consumer, the lowest height leaving first, and a gate that, once *)
(* shut by Pause, lets nothing out and has nothing on the way.             *)
(*                                                                         *)
(* TaskManager implements this module with a redis sorted set, a feeder    *)
(* and a popper goroutine and two unbuffered channels; Indexer uses it as  *)
(* its queue.                                                              *)
(***************************************************************************)
EXTENDS Integers

CONSTANT Heights   \* the block heights that can be queued

VARIABLES
  pending,   \* members of the redis sorted set (a re-added member is kept once)
  slot,      \* the task popped from redis and not yet received by the consumer
  gate       \* "open", or "shut" while the manager is paused

qvars == <<pending, slot, gate>>

NoTask == -2   \* no task in this place

TypeOK ==
  /\ pending \in SUBSET Heights
  /\ slot \in Heights \cup {NoTask}
  /\ gate \in {"open", "shut"}

Init ==
  /\ pending \in SUBSET Heights   \* redis outlives the process
  /\ slot = NoTask
  /\ gate = "open"

IsLowest(t, S) == t \in S /\ \A u \in S : t <= u

\* ZADD: queueing a height that already waits changes nothing.
Add(S) ==
  /\ pending' = pending \cup S
  /\ UNCHANGED <<slot, gate>>

\* DEL of the whole list.
Clear ==
  /\ pending' = {}
  /\ UNCHANGED <<slot, gate>>

\* BZPOPMIN: the lowest waiting height, and only through an open gate.
Take ==
  /\ gate = "open"
  /\ slot = NoTask
  /\ \E t \in pending :
       /\ IsLowest(t, pending)
       /\ slot' = t
       /\ pending' = pending \ {t}
  /\ UNCHANGED gate

\* BZPOPMIN whose reply is lost with the connection: nobody gets the task.
Mislay ==
  /\ gate = "open"
  /\ slot = NoTask
  /\ \E t \in pending : IsLowest(t, pending) /\ pending' = pending \ {t}
  /\ UNCHANGED <<slot, gate>>

\* The consumer receives the task.
Hand ==
  /\ slot # NoTask
  /\ slot' = NoTask
  /\ UNCHANGED <<pending, gate>>

Shut ==
  /\ gate = "open"
  /\ slot = NoTask
  /\ gate' = "shut"
  /\ UNCHANGED <<pending, slot>>

Open ==
  /\ gate = "shut"
  /\ gate' = "open"
  /\ UNCHANGED <<pending, slot>>

Next ==
  \/ \E t \in Heights : Add({t})
  \/ Clear
  \/ Take
  \/ Mislay
  \/ Hand
  \/ Shut
  \/ Open

Spec == Init /\ [][Next]_qvars

\* A task that waits behind an open gate is eventually taken, and a task that
\* was taken eventually reaches the consumer.
FairSpec == Spec /\ WF_qvars(Take) /\ WF_qvars(Hand)
==============================================================================
