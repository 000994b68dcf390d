----------------------------- MODULE ConsumerProofs ----------------------------
(***************************************************************************)
(* TypeOK, TasksAccounted and BatchQueuesAll for every range, batch size   *)
(* and number of ends.  The invariant adds to them how far the command is  *)
(* when it ends: past its last batch, or on the empty one.                 *)
(***************************************************************************)
EXTENDS Consumer, FiniteSetTheorems, TLAPS

EndsLate == /\ cmd = "done" => batch = Batches
            /\ cmd = "panicked" => BatchSize * batch >= Members

DroppedFinite == IsFiniteSet(dropped) /\ Cardinality(dropped) <= 2 * ends

Everywhere == queue \cup stored \cup OnTheWay \cup dropped

\* The consumer has a task exactly while it is away from the channel.
HasTask == task # NoTask <=> alive /\ consumer # "range"

IInv == TypeOK /\ HasTask /\ EndsLate /\ DroppedFinite /\ Added \subseteq Everywhere

USE ConsumerAssumption

-----------------------------------------------------------------------------

LEMMA DivMod ==
  ASSUME NEW m \in Nat, NEW n \in Nat \ {0}
  PROVE  m \div n \in Nat /\ m < n * (m \div n) + n
<1>1. m = n * (m \div n) + (m % n) /\ m \div n \in Int
  BY SMTT(30)
<1>2. m % n \in 0 .. n - 1
  BY SMTT(30)
<1> DEFINE q == m \div n
           r == m % n
<1>3. q \in Int /\ r \in 0 .. n - 1 /\ m = n * q + r
  BY <1>1, <1>2
<1> HIDE DEF q, r
<1>4. q \in Nat /\ m < n * q + n
  BY <1>3, SMTT(30)
<1> QED  BY <1>4 DEF q

LEMMA BatchesType ==
  ASSUME to \in From - 1 .. MaxTo
  PROVE  Members \in Nat /\ Batches \in Nat
<1>1. Members \in Nat
  BY DEF Members
<1>2. Members \div BatchSize \in Nat
  BY <1>1, DivMod
<1> QED  BY <1>1, <1>2 DEF Batches

\* The batches together are longer than the range.
LEMMA BatchesCover ==
  ASSUME to \in From - 1 .. MaxTo
  PROVE  BatchSize * Batches > Members
<1> DEFINE q == Members \div BatchSize
<1>1. Members \in Nat /\ q \in Nat /\ Members < BatchSize * q + BatchSize
  BY BatchesType, DivMod
<1>2. Batches = q + 1
  BY DEF Batches
<1> HIDE DEF q
<1>3. BatchSize * (q + 1) = BatchSize * q + BatchSize
  BY <1>1
<1> QED  BY <1>1, <1>2, <1>3

LEMMA InitInv == Init => IInv
<1> SUFFICES ASSUME Init PROVE IInv
  OBVIOUS
<1>1. TypeOK
  BY BatchesType DEF Init, TypeOK, Task
<1>2. EndsLate /\ HasTask
  BY DEF Init, EndsLate, HasTask
<1>3. DroppedFinite
  BY FS_EmptySet DEF Init, DroppedFinite
<1>4. Added \subseteq Everywhere
  <2>1. ASSUME NEW h \in Added PROVE FALSE
    BY <2>1 DEF Added, Init, Heights
  <2> QED  BY <2>1
<1> QED  BY <1>1, <1>2, <1>3, <1>4 DEF IInv

\* An end of the process drops what was on its way, two tasks at most.
LEMMA EndDrops ==
  ASSUME IInv, End
  PROVE  DroppedFinite' /\ dropped' \subseteq Heights /\ dropped \cup OnTheWay \subseteq dropped'
<1> DEFINE D1 == dropped \cup {hand}
           D2 == D1 \cup {task}
<1>1. IsFiniteSet(dropped) /\ Cardinality(dropped) <= 2 * ends /\ ends \in Nat
  BY DEF IInv, DroppedFinite, TypeOK
<1>c. \A S : IsFiniteSet(S) => Cardinality(S) \in Nat
  BY FS_CardinalityType
<1>2. IsFiniteSet(D1) /\ Cardinality(D1) <= Cardinality(dropped) + 1
  <2>1. IsFiniteSet(D1) /\ Cardinality(D1) \in {Cardinality(dropped), Cardinality(dropped) + 1}
    BY <1>1, FS_AddElement
  <2> QED  BY <1>1, <1>c, <2>1
<1>3. IsFiniteSet(D2) /\ Cardinality(D2) <= Cardinality(D1) + 1
  <2>1. IsFiniteSet(D2) /\ Cardinality(D2) \in {Cardinality(D1), Cardinality(D1) + 1}
    BY <1>2, FS_AddElement
  <2> QED  BY <1>2, <1>c, <2>1
<1>4. dropped' = dropped \cup OnTheWay /\ ends' = ends + 1
  BY DEF End, OnTheWay
<1>5. IsFiniteSet(dropped') /\ Cardinality(dropped') <= Cardinality(D2)
  <2>1. dropped' \subseteq D2
    BY <1>4 DEF OnTheWay
  <2> QED  BY <1>3, <2>1, FS_Subset
<1>6. /\ Cardinality(dropped) \in Nat /\ Cardinality(D1) \in Nat /\ Cardinality(D2) \in Nat
      /\ Cardinality(dropped') \in Nat
  BY <1>1, <1>2, <1>3, <1>5, <1>c
<1> HIDE DEF D1, D2
<1>7. Cardinality(dropped') <= 2 * ends'
  BY <1>1, <1>2, <1>3, <1>4, <1>5, <1>6
<1>8. dropped' \subseteq Heights
  BY <1>4 DEF IInv, TypeOK, OnTheWay, Task
<1> QED  BY <1>4, <1>5, <1>7, <1>8 DEF DroppedFinite

\* A step that leaves the command alone and loses nothing keeps everything that was added.
LEMMA AddedStays ==
  ASSUME UNCHANGED <<batch, to>>, Added \subseteq Everywhere, Everywhere \subseteq Everywhere'
  PROVE  (Added \subseteq Everywhere)'
  BY DEF Added

LEMMA StepInv == IInv /\ [Next]_vars => IInv'
<1> SUFFICES ASSUME IInv, [Next]_vars PROVE IInv'
  OBVIOUS
<1>t. TypeOK /\ HasTask /\ EndsLate /\ DroppedFinite /\ Added \subseteq Everywhere
  BY DEF IInv
<1>b. Members \in Nat /\ Batches \in Nat
  BY <1>t, BatchesType DEF TypeOK
<1>1. CASE AddBatch
  <2> USE <1>1 DEF AddBatch, process
  <2>1. CASE BatchSize * batch >= Members
    <3>1. TypeOK' /\ HasTask' /\ EndsLate' /\ DroppedFinite'
      BY <2>1, <1>t DEF TypeOK, HasTask, EndsLate, DroppedFinite, Batches, Members
    <3>2. UNCHANGED <<batch, to>> /\ Everywhere \subseteq Everywhere'
      BY <2>1 DEF Everywhere, OnTheWay
    <3> QED  BY <1>t, <3>1, <3>2, AddedStays DEF IInv
  <2>2. CASE ~ (BatchSize * batch >= Members)
    <3> DEFINE New == {h \in Heights : From + BatchSize * batch <= h
                                       /\ h < From + BatchSize * (batch + 1) /\ h <= to}
    <3>1. queue' = queue \cup New /\ batch' = batch + 1 /\ UNCHANGED <<cmd, stored, process, to>>
      BY <2>2
    <3>2. TypeOK'
      BY <3>1, <1>t, <1>b DEF TypeOK, Batches, Members
    <3>3. HasTask' /\ EndsLate' /\ DroppedFinite'
      BY <3>1, <1>t DEF HasTask, EndsLate, DroppedFinite
    <3>4. Added' \subseteq Added \cup New
      <4>1. BatchSize * batch \in Int /\ BatchSize * (batch + 1) \in Int
        BY <1>t DEF TypeOK
      <4> QED  BY <3>1, <4>1 DEF Added, Heights
    <3>5. Everywhere \cup New \subseteq Everywhere'
      BY <3>1 DEF Everywhere, OnTheWay
    <3>6. (Added \subseteq Everywhere)'
      BY <1>t, <3>4, <3>5
    <3> QED  BY <3>2, <3>3, <3>6 DEF IInv
  <2> QED  BY <2>1, <2>2
<1>2. CASE AddBatchFails
  <2>1. TypeOK' /\ HasTask' /\ EndsLate' /\ DroppedFinite'
    BY <1>2, <1>t DEF AddBatchFails, Fault, process, TypeOK, HasTask, EndsLate, DroppedFinite, Batches, Members
  <2>2. UNCHANGED <<batch, to>> /\ Everywhere \subseteq Everywhere'
    BY <1>2 DEF AddBatchFails, process, Everywhere, OnTheWay
  <2> QED  BY <1>t, <2>1, <2>2, AddedStays DEF IInv
<1>3. CASE AddDone
  <2>1. TypeOK' /\ HasTask' /\ EndsLate' /\ DroppedFinite'
    BY <1>3, <1>t DEF AddDone, process, TypeOK, HasTask, EndsLate, DroppedFinite, Batches, Members
  <2>2. UNCHANGED <<batch, to>> /\ Everywhere \subseteq Everywhere'
    BY <1>3 DEF AddDone, process, Everywhere, OnTheWay
  <2> QED  BY <1>t, <2>1, <2>2, AddedStays DEF IInv
<1>4. ASSUME UNCHANGED command, TypeOK', HasTask', DroppedFinite', Everywhere \subseteq Everywhere'
      PROVE  IInv'
  <2>1. EndsLate'
    BY <1>4, <1>t DEF command, EndsLate, Batches, Members
  <2> QED  BY <1>4, <1>t, <2>1, AddedStays DEF IInv, command
<1>n. NoTask \notin Heights
  BY DEF NoTask, Heights
<1> USE <1>n DEF Everywhere, OnTheWay, TypeOK, HasTask, DroppedFinite, Batches, Members, Task, command
<1>5. ASSUME NEW h \in Heights, Feed(h) PROVE IInv'
  BY <1>t, <1>4, <1>5 DEF Feed
<1>6. CASE Deliver
  BY <1>t, <1>4, <1>6 DEF Deliver
<1>7. CASE Lock
  BY <1>t, <1>4, <1>7 DEF Lock
<1>8. CASE Work
  BY <1>t, <1>4, <1>8 DEF Work
<1>9. CASE WorkFails
  BY <1>t, <1>4, <1>9 DEF WorkFails, Fault
<1>10. CASE Requeue
  BY <1>t, <1>4, <1>10 DEF Requeue
<1>e. ASSUME End, UNCHANGED <<queue, stored, command>>, faults' \in Nat PROVE IInv'
  <2>1. DroppedFinite' /\ dropped' \subseteq Heights /\ dropped \cup OnTheWay \subseteq dropped'
    BY <1>e, EndDrops
  <2>2. TypeOK'
    <3>1. ends' = ends + 1 /\ ends \in Nat
      BY <1>t, <1>e DEF End
    <3>2. alive' = FALSE /\ hand' = NoTask /\ task' = NoTask
      BY <1>e DEF End
    <3>3. UNCHANGED <<queue, stored, consumer, stopMu, closer, cmd, to, batch>>
      BY <1>e DEF End
    <3>4. (to \in From - 1 .. MaxTo /\ batch \in 0 .. Batches)'
      BY <1>t, <3>3
    <3>5. (queue \subseteq Heights /\ stored \subseteq Heights /\ dropped \subseteq Heights)'
      BY <1>t, <2>1, <1>e
    <3>6. (hand \in Task /\ task \in Task /\ ends \in Nat)'
      BY <3>1, <3>2
    <3>8. (alive \in BOOLEAN)'
      BY <3>2
    <3>7. (/\ consumer \in {"range", "lock", "work", "requeue"}
           /\ stopMu \in {"free", "consumer", "close"}
           /\ closer \in {"none", "lock", "closing", "closed"}
           /\ cmd \in {"running", "panicked", "failed", "done"})'
      BY <1>t, <3>3
    <3> QED  BY <1>e, <3>4, <3>5, <3>6, <3>7, <3>8
  <2>3. HasTask'
    BY <1>e DEF End
  <2>4. Everywhere \subseteq Everywhere'
    BY <1>e, <2>1
  <2> QED  BY <1>4, <1>e, <2>1, <2>2, <2>3, <2>4
<1>11. CASE RequeueFails
  BY <1>t, <1>e, <1>11 DEF RequeueFails, Fault
<1>12. CASE Stop
  BY <1>t, <1>4, <1>12 DEF Stop
<1>13. CASE CloseLock
  BY <1>t, <1>4, <1>13 DEF CloseLock
<1>14. CASE CloseAll
  BY <1>t, <1>4, <1>14 DEF CloseAll
<1>15. CASE Exit
  BY <1>t, <1>e, <1>15 DEF Exit
<1>16. CASE Start
  BY <1>t, <1>4, <1>16 DEF Start
<1>17. CASE UNCHANGED vars
  BY <1>t, <1>4, <1>17 DEF vars, process
<1> QED
  BY <1>1, <1>2, <1>3, <1>5, <1>6, <1>7, <1>8, <1>9, <1>10, <1>11, <1>12, <1>13, <1>14,
     <1>15, <1>16, <1>17 DEF Next

-----------------------------------------------------------------------------

LEMMA InvHolds == Spec => []IInv
  BY InitInv, StepInv, PTL DEF Spec

\* The consumer's slots, the lock and the command's counter keep their types.
THEOREM ConsumerTypes == Spec => []TypeOK
<1>1. IInv => TypeOK
  BY DEF IInv
<1> QED  BY <1>1, InvHolds, PTL

\* No failure, stop or fatal error costs more than the two tasks on their way.
THEOREM StopCostsTwo == Spec => []TasksAccounted
<1>1. IInv => TasksAccounted
  BY DEF IInv, DroppedFinite, TasksAccounted, Everywhere
<1> QED  BY <1>1, InvHolds, PTL

\* Every range is queued whatever its length and the size of a batch, the lengths at which
\* the last round panics included.
THEOREM BatchesQueueRange == Spec => []BatchQueuesAll
<1>1. IInv => BatchQueuesAll
  <2> SUFFICES ASSUME IInv, cmd \in {"done", "panicked"}, NEW h \in Heights, h <= to
               PROVE  h \in Everywhere
    BY DEF BatchQueuesAll, Everywhere
  <2>1. BatchSize * batch >= Members
    <3>1. to \in From - 1 .. MaxTo
      BY DEF IInv, TypeOK
    <3>2. BatchSize * Batches >= Members
      BY <3>1, BatchesCover, BatchesType
    <3> QED  BY <3>2 DEF IInv, EndsLate
  <2>2. h < From + BatchSize * batch
    <3>1. BatchSize * batch \in Int /\ Members \in Nat
      BY BatchesType DEF IInv, TypeOK
    <3> QED  BY <2>1, <3>1 DEF Members, Heights, IInv, TypeOK
  <2> QED  BY <2>2 DEF IInv, Added
<1> QED  BY <1>1, InvHolds, PTL
===============================================================================
