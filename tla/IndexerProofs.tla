----------------------------- MODULE IndexerProofs -----------------------------
(* Theorems about Indexer, for every value of its constants: any chain, lag  *)
(* and lookback, and any number of branch switches, crashes and failures.    *)
EXTENDS Indexer, TLAPS

(* The bounds that keep every computed height within the chain.              *)
RangeInv ==
  /\ tip >= StartTip
  /\ switched > Final
  /\ up => seen >= StartTip - 1 /\ seen <= tip
  /\ ~up => bfNext > bfEnd

(* What the place of the consumer says of its locals and of the row it works *)
(* on: nobody else writes the table between its queries.                     *)
ConsumerInv ==
  /\ (stage = "idle") <=> (working = NoTask)
  /\ stage \in {"exists", "reorged", "delete", "store"} => raw \in Version
  /\ stage \in {"reorged", "delete"} => db[working] # raw
  /\ stage = "store" => db[working] = NoRow

(* During a lifecycle the checkpoint is the one it read, and every height it *)
(* looked at and did not report is accounted for ever since.                 *)
CheckerInv ==
  /\ check # "idle" => checkpoint \in {cp, NoCheckpoint}
  /\ check \in {"broken", "queue", "save"} =>
       /\ \A n \in found : n <= hi
       /\ \A n \in cp .. hi : n \in found \/ Accounted(n)
  /\ checkpoint = NoCheckpoint => base > MaxHeight

IInv == TypeOK /\ RangeInv /\ ConsumerInv /\ CheckerInv /\ NoForgottenHole

-----------------------------------------------------------------------------

LEMMA InitIInv == Init => IInv
<1> SUFFICES ASSUME Init PROVE IInv
  OBVIOUS
<1> USE IndexerAssumption DEF Init, Heights, NoTask, NoRow, NoCheckpoint
<1>1. chain \in [0 .. tip -> Version]
  BY DEF Version
<1>2. db \in [Heights -> Version \cup {NoRow}]
  OBVIOUS
<1>3. /\ stage \in Stages /\ check \in Checks
      /\ working \in Task /\ slot \in Task
  BY DEF Stages, Checks, Task
<1>4. tip \in Heights /\ fork \in 0 .. MaxFork
  OBVIOUS
<1>v. fresh \in BOOLEAN /\ up \in BOOLEAN
  OBVIOUS
<1>w. lastAdded \in -1 .. MaxHeight /\ seen \in Heights /\ skip \in 0 .. Lag
  OBVIOUS
<1>5. /\ switched \in 0 .. MaxHeight + 1
      /\ bfNext \in 0 .. MaxHeight + 1 /\ bfEnd \in Heights
  OBVIOUS
<1>6. checkpoint \in -1 .. MaxHeight \cup {NoCheckpoint} /\ cp \in Heights /\ hi \in Heights
  OBVIOUS
<1>7. /\ crashes \in 0 .. MaxCrashes /\ failures \in 0 .. MaxFailures
      /\ base \in 0 .. MaxHeight + 1
  OBVIOUS
<1>8. TypeOK
  BY <1>1, <1>2, <1>3, <1>4, <1>5, <1>6, <1>7, <1>v, <1>w DEF TypeOK
<1>9. RangeInv /\ NoForgottenHole
  BY DEF RangeInv, NoForgottenHole
<1>10. ConsumerInv /\ CheckerInv
  BY DEF ConsumerInv, CheckerInv
<1> QED
  BY <1>8, <1>9, <1>10 DEF IInv

(* A step that leaves the checker alone and forgets no height keeps what the *)
(* checker relies on.                                                        *)
LEMMA Carry ==
  ASSUME IInv, UNCHANGED <<checkpoint, checker, base>>,
         \A n \in Heights : Accounted(n) => Accounted(n)'
  PROVE  CheckerInv' /\ NoForgottenHole'
<1>1. CheckerInv'
  <2>1. ASSUME NEW n \in cp .. hi PROVE n \in Heights
    BY IndexerAssumption DEF IInv, TypeOK, Heights
  <2> QED
    BY <2>1 DEF IInv, CheckerInv, checker, NoCheckpoint
<1>2. NoForgottenHole'
  BY DEF IInv, NoForgottenHole
<1> QED
  BY <1>1, <1>2

-----------------------------------------------------------------------------
(* The node                                                                  *)

LEMMA MineIInv == IInv /\ Mine => IInv'
<1> SUFFICES ASSUME IInv, Mine PROVE IInv'
  OBVIOUS
<1>1. /\ tip \in Nat /\ tip < MaxHeight /\ tip' = tip + 1
      /\ chain \in [0 .. tip -> Version] /\ fork \in 0 .. MaxFork
      /\ UNCHANGED <<fork, up, watch, backfill, queue, consumer, db, checkpoint, checker,
                     faults, history>>
  BY IndexerAssumption DEF IInv, TypeOK, Mine, Heights
<1>2. fresh' \in BOOLEAN
  BY DEF Mine
<1>3. chain' \in [0 .. tip' -> Version]
  <2>1. [hash |-> fork, parent |-> chain[tip].hash] \in Version
    BY <1>1 DEF Version
  <2> QED
    BY <1>1, <2>1 DEF Mine
<1>4. tip' \in Heights
  BY <1>1, IndexerAssumption DEF Heights
<1>5. TypeOK'
  BY <1>1, <1>2, <1>3, <1>4 DEF IInv, TypeOK, Task, watch, backfill, queue, consumer, checker,
     faults, history
<1>6. RangeInv'
  <2>1. tip' >= StartTip
    BY <1>1, IndexerAssumption DEF IInv, RangeInv
  <2>2. up => seen \in Nat /\ seen <= tip'
    BY <1>1 DEF IInv, RangeInv, TypeOK, Heights
  <2> QED
    BY <1>1, <2>1, <2>2 DEF IInv, RangeInv, watch, backfill
<1>7. ConsumerInv'
  BY <1>1 DEF IInv, ConsumerInv, consumer
<1>8. \A n \in Heights : Accounted(n) => Accounted(n)'
  BY <1>1 DEF Accounted, Stored, backfill, queue, consumer, history
<1> QED
  BY <1>1, <1>5, <1>6, <1>7, <1>8, Carry DEF IInv, history

LEMMA ReorgIInv ==
  ASSUME IInv, NEW k \in Heights, Reorg(k)
  PROVE  IInv'
<1>a. /\ tip' = tip /\ fresh' = FALSE
      /\ k \in Final + 1 .. tip
      /\ fork < MaxFork /\ fork' = fork + 1
      /\ switched' \in {switched, IF k < switched THEN k ELSE switched}
      /\ UNCHANGED <<up, lastAdded, seen, skip, backfill, queue, consumer, db, checkpoint,
                     checker, faults, history>>
  BY DEF Reorg
<1>b. tip \in Nat /\ tip <= MaxHeight /\ fork \in Nat /\ chain \in [0 .. tip -> Version]
  BY IndexerAssumption DEF IInv, TypeOK, Heights
<1>1. /\ tip \in Nat /\ tip' = tip /\ fresh' = FALSE
      /\ k \in Nat /\ 0 < k /\ Final < k /\ k <= tip /\ k <= MaxHeight
      /\ fork \in Nat /\ fork < MaxFork /\ fork' = fork + 1
      /\ chain \in [0 .. tip -> Version]
      /\ switched' \in {switched, IF k < switched THEN k ELSE switched}
      /\ UNCHANGED <<up, lastAdded, seen, skip, backfill, queue, consumer, db, checkpoint,
                     checker, faults, history>>
  BY <1>a, <1>b, IndexerAssumption
<1>2. chain' \in [0 .. tip' -> Version]
  <2>1. ASSUME NEW h \in 0 .. tip, ~(h < k)
        PROVE  [hash |-> fork + 1, parent |-> IF h = k THEN chain[h - 1].hash ELSE fork + 1]
                 \in Version
    <3>1. fork + 1 \in 0 .. MaxFork
      BY <1>1, IndexerAssumption
    <3>2. CASE h = k
      <4>1. h - 1 \in 0 .. tip
        BY <1>1, <3>2
      <4>2. chain[h - 1].hash \in -1 .. MaxFork
        BY <1>1, <4>1, IndexerAssumption DEF Version
      <4> QED
        BY <3>1, <3>2, <4>2 DEF Version
    <3>3. CASE h # k
      BY <3>1, <3>3, IndexerAssumption DEF Version
    <3> QED
      BY <3>2, <3>3
  <2> QED
    BY <1>1, <2>1 DEF Reorg
<1>3. switched' \in 0 .. MaxHeight + 1 /\ switched' > Final
  BY <1>1, IndexerAssumption DEF IInv, TypeOK, RangeInv
<1>4. fork' \in 0 .. MaxFork
  BY <1>1, IndexerAssumption
<1>f. fresh' \in BOOLEAN
  BY <1>1
<1>5. TypeOK'
  BY <1>1, <1>2, <1>3, <1>4, <1>f DEF IInv, TypeOK, Task, backfill, queue, consumer,
     checker, faults, history
<1>6. RangeInv'
  BY <1>1, <1>3 DEF IInv, RangeInv, backfill
<1>7. ConsumerInv'
  BY <1>1 DEF IInv, ConsumerInv, consumer
<1>8. \A n \in Heights : Accounted(n) => Accounted(n)'
  BY <1>1 DEF Accounted, Stored, backfill, queue, consumer, history
<1> QED
  BY <1>1, <1>5, <1>6, <1>7, <1>8, Carry DEF IInv, history

-----------------------------------------------------------------------------
(* Start, backfill, watcher and crash                                        *)

LEMMA StartIInv == IInv /\ Start => IInv'
<1> SUFFICES ASSUME IInv, Start PROVE IInv'
  OBVIOUS
<1>1. /\ up = FALSE /\ up' = TRUE
      /\ seen' \in {tip - 1, tip} /\ lastAdded' = seen' - Lag /\ skip' = Lag
      /\ switched' = MaxHeight + 1
      /\ UNCHANGED <<node, queue, consumer, db, checkpoint, checker, faults, history>>
  BY DEF Start, IInv, TypeOK
<1>2. tip \in Nat /\ tip <= MaxHeight /\ tip >= StartTip
  BY IndexerAssumption DEF IInv, TypeOK, RangeInv, Heights
<1>3. /\ lastAdded' \in -1 .. MaxHeight /\ seen' \in Heights /\ skip' \in 0 .. Lag
      /\ switched' \in 0 .. MaxHeight + 1 /\ switched' > Final
      /\ seen' >= StartTip - 1 /\ seen' <= tip
  <2>1. /\ seen' \in Nat /\ seen' >= StartTip - 1 /\ seen' <= tip
        /\ lastAdded' = seen' - Lag
    BY <1>1, <1>2, IndexerAssumption
  <2>2. lastAdded' \in -1 .. MaxHeight /\ seen' \in Heights
    <3>1. Lag \in Nat /\ StartTip \in Nat /\ MaxHeight \in Nat /\ Lag < StartTip
      BY IndexerAssumption
    <3>2. ASSUME NEW b \in Nat, b >= StartTip - 1, b <= tip
          PROVE  b - Lag \in -1 .. MaxHeight /\ b \in 0 .. MaxHeight
      BY <1>2, <3>1, <3>2
    <3> QED
      BY <2>1, <3>2 DEF Heights
  <2>3. skip' \in 0 .. Lag /\ switched' \in 0 .. MaxHeight + 1 /\ switched' > Final
    BY <1>1, IndexerAssumption
  <2> QED
    BY <2>1, <2>2, <2>3
<1>4. bfNext' \in 0 .. MaxHeight + 1 /\ bfEnd' \in Heights
  <2>1. PICK highest \in Heights :
          IF Backfill /\ highest + 1 < tip - Lag
          THEN bfNext' = highest /\ bfEnd' = tip - Lag
          ELSE bfNext' = 1 /\ bfEnd' = 0
    BY DEF Start
  <2>2. CASE bfNext' = highest /\ bfEnd' = tip - Lag
    BY <1>2, <2>2, IndexerAssumption DEF Heights
  <2>3. CASE bfNext' = 1 /\ bfEnd' = 0
    BY <2>3, IndexerAssumption DEF Heights
  <2> QED
    BY <2>1, <2>2, <2>3
<1>5. TypeOK'
  BY <1>1, <1>3, <1>4 DEF IInv, TypeOK, Task, node, queue, consumer, checker, faults, history
<1>6. RangeInv'
  BY <1>1, <1>2, <1>3 DEF IInv, RangeInv, node
<1>7. ConsumerInv'
  BY <1>1 DEF IInv, ConsumerInv, consumer
<1>8. \A n \in Heights : Accounted(n) => Accounted(n)'
  <2>1. bfNext .. bfEnd = {}
    BY <1>1 DEF IInv, RangeInv, TypeOK, Heights
  <2> QED
    BY <1>1, <2>1 DEF Accounted, Stored, queue, consumer, history
<1> QED
  BY <1>1, <1>5, <1>6, <1>7, <1>8, Carry DEF IInv, history

LEMMA BackfillIInv == IInv /\ BackfillOne => IInv'
<1> SUFFICES ASSUME IInv, BackfillOne PROVE IInv'
  OBVIOUS
<1>1. /\ up /\ bfNext <= bfEnd /\ bfNext' = bfNext + 1
      /\ pending' = pending \cup {bfNext} /\ slot' = slot
      /\ UNCHANGED <<node, up, watch, bfEnd, consumer, db, checkpoint, checker, faults, history>>
  BY DEF BackfillOne, Queue!Add
<1>2. bfNext \in Heights /\ bfNext' \in 0 .. MaxHeight + 1
  BY <1>1, IndexerAssumption DEF IInv, TypeOK, Heights
<1>3. TypeOK'
  BY <1>1, <1>2 DEF IInv, TypeOK, Task, node, watch, consumer, checker, faults, history
<1>4. RangeInv'
  BY <1>1 DEF IInv, RangeInv, node, watch
<1>5. ConsumerInv'
  BY <1>1 DEF IInv, ConsumerInv, consumer
<1>6. \A n \in Heights : Accounted(n) => Accounted(n)'
  <2>1. ASSUME NEW n \in bfNext .. bfEnd PROVE n \in pending' \cup bfNext' .. bfEnd'
    BY <1>1, <1>2, IndexerAssumption DEF IInv, TypeOK, Heights
  <2> QED
    BY <1>1, <2>1 DEF Accounted, Stored, consumer, history
<1> QED
  BY <1>1, <1>3, <1>4, <1>5, <1>6, Carry DEF IInv, history

LEMMA AnnounceIInv == IInv /\ Announce => IInv'
<1> SUFFICES ASSUME IInv, Announce PROVE IInv'
  OBVIOUS
<1> DEFINE next == IF switched - Lag <= lastAdded THEN switched - Lag ELSE lastAdded + 1
<1>1. /\ up /\ slot' = slot /\ pending \subseteq pending'
      /\ seen' = tip /\ switched' = MaxHeight + 1
      /\ skip' = (IF tip - seen < skip THEN skip - (tip - seen) ELSE 0)
      /\ UNCHANGED <<node, up, backfill, consumer, db, checkpoint, checker, faults, history>>
  BY DEF Announce, Queue!Add, queue
<1>2. /\ tip \in Nat /\ tip <= MaxHeight /\ tip >= StartTip
      /\ switched \in Nat /\ switched > Final /\ lastAdded \in Int /\ lastAdded >= -1
      /\ lastAdded <= MaxHeight
      /\ seen \in Nat /\ seen >= StartTip - 1 /\ seen <= tip
      /\ skip \in Nat /\ skip <= Lag
  BY <1>1, IndexerAssumption DEF IInv, TypeOK, RangeInv, Heights
<1>3. next \in Nat /\ next - 1 <= MaxHeight
  BY <1>2, IndexerAssumption
<1>4. lastAdded' \in -1 .. MaxHeight
  <2>1. lastAdded' = next - 1 \/ lastAdded' = tip - Lag
    BY DEF Announce
  <2> QED
    BY <1>2, <1>3, <2>1, IndexerAssumption
<1>5. pending' \subseteq Heights
  <2>1. next .. tip - Lag \subseteq Heights
    BY <1>2, <1>3, IndexerAssumption DEF Heights
  <2>2. \A b \in Announced : b - Lag \in Heights
    BY <1>2, IndexerAssumption DEF Announced, Heights
  <2>3. pending \subseteq Heights
    BY DEF IInv, TypeOK
  <2>4. \/ pending' = pending
        \/ pending' = pending \cup next .. tip - Lag
        \/ pending' = pending \cup {b - Lag : b \in Announced}
    BY DEF Announce, Queue!Add, queue
  <2> QED
    BY <2>1, <2>2, <2>3, <2>4
<1>6. skip' \in 0 .. Lag /\ seen' \in Heights /\ switched' \in 0 .. MaxHeight + 1
  BY <1>1, <1>2, IndexerAssumption DEF Heights
<1>7. TypeOK'
  BY <1>1, <1>4, <1>5, <1>6 DEF IInv, TypeOK, Task, node, backfill, consumer, checker, faults,
     history
<1>8. RangeInv'
  BY <1>1, <1>2, IndexerAssumption DEF IInv, RangeInv, node, backfill
<1>9. ConsumerInv'
  BY <1>1 DEF IInv, ConsumerInv, consumer
<1>10. \A n \in Heights : Accounted(n) => Accounted(n)'
  BY <1>1 DEF Accounted, Stored, backfill, consumer, history
<1> QED
  BY <1>1, <1>7, <1>8, <1>9, <1>10, Carry DEF IInv, history

LEMMA CrashIInv == IInv /\ Crash => IInv'
<1> SUFFICES ASSUME IInv, Crash PROVE IInv'
  OBVIOUS
<1>1. /\ crashes < MaxCrashes /\ crashes' = crashes + 1 /\ up' = FALSE
      /\ lost' = lost \cup ({slot, working} \ {NoTask}) \cup bfNext .. bfEnd
      /\ slot' = NoTask /\ working' = NoTask /\ stage' = "idle" /\ raw' = NoRow
      /\ check' = "idle" /\ cp' = 0 /\ hi' = 0 /\ found' = {} /\ left' = {}
      /\ bfNext' = 1 /\ bfEnd' = 0
      /\ UNCHANGED <<node, watch, pending, db, checkpoint, failures, base>>
  BY DEF Crash, ConsumerIdle, CheckerIdle
<1>2. lost' \subseteq Heights
  <2>1. bfNext .. bfEnd \subseteq Heights
    BY IndexerAssumption DEF IInv, TypeOK, Heights
  <2> QED
    BY <1>1, <2>1 DEF IInv, TypeOK, Task
<1>3. crashes' \in 0 .. MaxCrashes
  BY <1>1, IndexerAssumption DEF IInv, TypeOK
<1>4. 0 \in Heights /\ 1 \in 0 .. MaxHeight + 1
  BY IndexerAssumption DEF Heights
<1>5. TypeOK'
  BY <1>1, <1>2, <1>3, <1>4 DEF IInv, TypeOK, Task, Stages, Checks, node, watch
<1>6. RangeInv' /\ ConsumerInv'
  BY <1>1 DEF IInv, RangeInv, ConsumerInv, node, watch
<1>7. \A n \in Heights : Accounted(n) => Accounted(n)'
  <2>1. NoTask \notin Heights
    BY IndexerAssumption DEF Heights, NoTask
  <2> QED
    BY <1>1, <2>1 DEF Accounted, Stored
<1>8. CheckerInv' /\ NoForgottenHole'
  BY <1>1, <1>7 DEF IInv, CheckerInv, NoForgottenHole
<1> QED
  BY <1>5, <1>6, <1>8 DEF IInv

LEMMA FeedIInv == IInv /\ Feed => IInv'
<1> SUFFICES ASSUME IInv, Feed PROVE IInv'
  OBVIOUS
<1>1. PICK t \in pending : slot' = t /\ pending' = pending \ {t}
  BY DEF Feed, Queue!Take
<1>2. /\ slot = -2
      /\ UNCHANGED <<node, up, watch, backfill, consumer, db, checkpoint, checker, faults,
                     history>>
  BY DEF Feed, Queue!Take, Queue!NoTask
<1>3. TypeOK'
  BY <1>1, <1>2 DEF IInv, TypeOK, Task, node, watch, backfill, consumer, checker, faults, history
<1>4. RangeInv'
  BY <1>2 DEF IInv, RangeInv, node, watch, backfill
<1>5. ConsumerInv'
  BY <1>2 DEF IInv, ConsumerInv, consumer
<1>6. \A n \in Heights : Accounted(n) => Accounted(n)'
  <2>1. -2 \notin Heights
    BY IndexerAssumption DEF Heights
  <2> QED
    BY <1>1, <1>2, <2>1 DEF Accounted, Stored, backfill, consumer, history
<1> QED
  BY <1>2, <1>3, <1>4, <1>5, <1>6, Carry DEF IInv, history

-----------------------------------------------------------------------------
(* The consumer                                                              *)

LEMMA ConsumerIInv == IInv /\ Consumer => IInv'
<1> SUFFICES ASSUME IInv, Consumer PROVE IInv'
  OBVIOUS
<1>0. -2 \notin Heights /\ NoRow \notin Version
  BY IndexerAssumption DEF Heights, NoRow, Version
<1>1. /\ UNCHANGED <<node, up, watch, backfill, checkpoint, checker, crashes, history>>
      /\ stage' \in Stages
  BY DEF Consumer, Receive, Scrape, ScrapeFails, CheckExists, CheckReorged, DeleteBlock,
     StoreBlock, StoreFails, Requeue, ConsumerRest, ConsumerIdle, Stages, faults
<1>2. RangeInv'
  BY <1>1 DEF IInv, RangeInv, node, watch, backfill
<1>3. SUFFICES /\ TypeOK' /\ ConsumerInv'
               /\ \A n \in Heights : Accounted(n) => Accounted(n)'
  BY <1>1, <1>2, Carry DEF IInv, history
<1>4. failures' \in 0 .. MaxFailures
  BY IndexerAssumption DEF Consumer, Receive, Scrape, ScrapeFails, CheckExists, CheckReorged,
     DeleteBlock, StoreBlock, StoreFails, Requeue, Fails, faults, IInv, TypeOK
<1>5. CASE Receive
  <2>1. /\ stage = "idle" /\ stage' = "scrape" /\ slot # -2 /\ working' = slot /\ slot' = -2
        /\ UNCHANGED <<raw, db, pending>>
    BY <1>5 DEF Receive, Queue!Hand, Queue!NoTask
  <2>2. slot \in Heights /\ working = NoTask
    BY <2>1 DEF IInv, TypeOK, Task, ConsumerInv, NoTask
  <2>3. TypeOK'
    BY <1>1, <1>4, <2>1, <2>2 DEF IInv, TypeOK, Task, NoTask, node, watch, backfill, checker,
       history
  <2>4. ConsumerInv'
    BY <1>0, <2>1, <2>2 DEF ConsumerInv, NoTask
  <2>5. \A n \in Heights : Accounted(n) => Accounted(n)'
    BY <1>0, <1>1, <2>1, <2>2 DEF Accounted, Stored, backfill, history, NoTask
  <2> QED
    BY <2>3, <2>4, <2>5
<1>6. CASE Scrape
  <2>1. /\ stage = "scrape" /\ stage' = "exists" /\ working <= tip /\ raw' = chain[working]
        /\ UNCHANGED <<pending, slot, working, db>>
    BY <1>6 DEF Scrape, queue
  <2>2. working \in Heights
    BY <2>1 DEF IInv, TypeOK, Task, ConsumerInv
  <2>3. raw' \in Version
    BY <2>1, <2>2, IndexerAssumption DEF IInv, TypeOK, Heights
  <2>4. TypeOK'
    BY <1>1, <1>4, <2>1, <2>3 DEF IInv, TypeOK, node, watch, backfill, checker, history
  <2>5. ConsumerInv'
    BY <2>1, <2>3 DEF IInv, ConsumerInv
  <2>6. \A n \in Heights : Accounted(n) => Accounted(n)'
    BY <1>1, <2>1 DEF Accounted, Stored, backfill, history
  <2> QED
    BY <2>4, <2>5, <2>6
<1>7. CASE ScrapeFails \/ StoreFails
  <2>1. /\ stage # "idle" /\ stage' = "requeue"
        /\ UNCHANGED <<pending, slot, working, raw, db>>
    BY <1>7 DEF ScrapeFails, StoreFails, queue
  <2>2. TypeOK'
    BY <1>1, <1>4, <2>1 DEF IInv, TypeOK, node, watch, backfill, checker, history
  <2>3. ConsumerInv'
    BY <2>1 DEF IInv, ConsumerInv
  <2>4. \A n \in Heights : Accounted(n) => Accounted(n)'
    BY <1>1, <2>1 DEF Accounted, Stored, backfill, history
  <2> QED
    BY <2>2, <2>3, <2>4
<1>8. CASE CheckExists
  <2>1. /\ stage = "exists" /\ working \in Heights /\ raw \in Version
        /\ UNCHANGED <<pending, slot, db>>
    BY <1>8 DEF CheckExists, queue, IInv, ConsumerInv, TypeOK, Task
  <2>2. CASE db[working] = raw
    <3>1. working' = NoTask /\ stage' = "idle" /\ raw' = NoRow
      BY <1>8, <2>2 DEF CheckExists, ConsumerIdle
    <3>2. TypeOK'
      BY <1>1, <1>4, <2>1, <3>1 DEF IInv, TypeOK, Task, node, watch, backfill, checker, history
    <3>3. ConsumerInv'
      BY <3>1 DEF ConsumerInv
    <3>4. \A n \in Heights : Accounted(n) => Accounted(n)'
      BY <1>0, <1>1, <2>1, <2>2, <3>1 DEF Accounted, Stored, backfill, history
    <3> QED
      BY <3>2, <3>3, <3>4
  <2>3. CASE db[working] # raw
    <3>1. stage' = "reorged" /\ UNCHANGED <<working, raw>>
      BY <1>8, <2>3 DEF CheckExists
    <3>2. TypeOK'
      BY <1>1, <1>4, <2>1, <3>1 DEF IInv, TypeOK, Task, node, watch, backfill, checker, history
    <3>3. ConsumerInv'
      BY <2>1, <2>3, <3>1 DEF IInv, ConsumerInv
    <3>4. \A n \in Heights : Accounted(n) => Accounted(n)'
      BY <1>1, <2>1, <3>1 DEF Accounted, Stored, backfill, history
    <3> QED
      BY <3>2, <3>3, <3>4
  <2> QED
    BY <2>2, <2>3
<1>9. CASE CheckReorged
  <2>1. /\ stage = "reorged" /\ stage' = (IF Stored(working) THEN "delete" ELSE "store")
        /\ UNCHANGED <<pending, slot, working, raw, db>>
    BY <1>9 DEF CheckReorged, queue
  <2>2. TypeOK'
    BY <1>1, <1>4, <2>1 DEF IInv, TypeOK, node, watch, backfill, checker, history
  <2>3. ConsumerInv'
    BY <2>1 DEF IInv, ConsumerInv, Stored
  <2>4. \A n \in Heights : Accounted(n) => Accounted(n)'
    BY <1>1, <2>1 DEF Accounted, Stored, backfill, history
  <2> QED
    BY <2>2, <2>3, <2>4
<1>10. CASE DeleteBlock
  <2>1. /\ stage = "delete" /\ working \in Heights /\ raw \in Version
        /\ UNCHANGED <<pending, slot, working, raw>>
    BY <1>10 DEF DeleteBlock, queue, IInv, ConsumerInv, TypeOK, Task
  <2>2. \/ db' = [db EXCEPT ![working] = NoRow] /\ stage' = "store"
        \/ db' = db /\ stage' = "requeue"
    BY <1>10 DEF DeleteBlock
  <2>3. TypeOK'
    BY <1>1, <1>4, <2>1, <2>2 DEF IInv, TypeOK, node, watch, backfill, checker, history
  <2>4. ConsumerInv'
    BY <2>1, <2>2 DEF IInv, ConsumerInv, TypeOK
  <2>5. \A n \in Heights : Accounted(n) => Accounted(n)'
    BY <1>1, <2>1, <2>2 DEF Accounted, Stored, backfill, history, IInv, TypeOK
  <2> QED
    BY <2>3, <2>4, <2>5
<1>11. CASE StoreBlock
  <2>1. /\ stage = "store" /\ working \in Heights /\ raw \in Version
        /\ db' = [db EXCEPT ![working] = raw]
        /\ working' = NoTask /\ stage' = "idle" /\ raw' = NoRow
        /\ UNCHANGED <<pending, slot>>
    BY <1>11 DEF StoreBlock, ConsumerIdle, queue, IInv, ConsumerInv, TypeOK, Task
  <2>2. TypeOK'
    BY <1>1, <1>4, <2>1 DEF IInv, TypeOK, Task, node, watch, backfill, checker, history
  <2>3. ConsumerInv'
    BY <2>1 DEF ConsumerInv
  <2>4. \A n \in Heights : Accounted(n) => Accounted(n)'
    BY <1>0, <1>1, <2>1 DEF Accounted, Stored, backfill, history, IInv, TypeOK
  <2> QED
    BY <2>2, <2>3, <2>4
<1>12. CASE Requeue
  <2>1. /\ stage = "requeue" /\ working \in Heights
        /\ pending' = pending \cup {working} /\ slot' = slot
        /\ working' = NoTask /\ stage' = "idle" /\ raw' = NoRow
        /\ db' = db
    BY <1>12 DEF Requeue, Queue!Add, ConsumerIdle, IInv, ConsumerInv, TypeOK, Task
  <2>2. TypeOK'
    BY <1>1, <1>4, <2>1 DEF IInv, TypeOK, Task, node, watch, backfill, checker, history
  <2>3. ConsumerInv'
    BY <2>1 DEF ConsumerInv
  <2>4. \A n \in Heights : Accounted(n) => Accounted(n)'
    BY <1>1, <2>1 DEF Accounted, Stored, backfill, history
  <2> QED
    BY <2>2, <2>3, <2>4
<1> QED
  BY <1>5, <1>6, <1>7, <1>8, <1>9, <1>10, <1>11, <1>12 DEF Consumer

-----------------------------------------------------------------------------
(* The integrity checker                                                     *)

LEMMA CheckerIInv == IInv /\ Checker => IInv'
<1> SUFFICES ASSUME IInv, Checker PROVE IInv'
  OBVIOUS
<1>1. /\ UNCHANGED <<node, up, watch, backfill, consumer, db, crashes, lost, slot>>
      /\ pending \subseteq pending'
  BY DEF Checker, ReadCheckpoint, ReadHighest, CheckMissing, CheckBroken, QueueFound,
     SaveCheckpoint, CheckFails, CheckerRest, Queue!Add, queue
<1>2. RangeInv' /\ ConsumerInv'
  BY <1>1 DEF IInv, RangeInv, ConsumerInv, node, watch, backfill, consumer
<1>3. \A n \in Heights : Accounted(n) => Accounted(n)'
  BY <1>1 DEF Accounted, Stored, backfill, consumer
<1>4. failures' \in 0 .. MaxFailures
  BY IndexerAssumption DEF Checker, ReadCheckpoint, ReadHighest, CheckMissing, CheckBroken,
     QueueFound, SaveCheckpoint, CheckFails, Fails, IInv, TypeOK
<1>5. \A n \in cp .. hi : n \in Heights
  BY IndexerAssumption DEF IInv, TypeOK, Heights
<1>6. SUFFICES /\ pending' \subseteq Heights
               /\ checkpoint' \in -1 .. MaxHeight \cup {NoCheckpoint}
               /\ check' \in Checks /\ cp' \in Heights /\ hi' \in Heights
               /\ found' \in SUBSET Heights /\ left' \in SUBSET Heights
               /\ base' \in 0 .. MaxHeight + 1
               /\ CheckerInv' /\ NoForgottenHole'
  BY <1>1, <1>2, <1>4 DEF IInv, TypeOK, node, watch, backfill, consumer
<1>7. ASSUME UNCHANGED <<checkpoint, base>> PROVE NoForgottenHole'
  BY <1>3, <1>7 DEF IInv, NoForgottenHole
<1>8. ASSUME CheckerIdle, UNCHANGED <<checkpoint, base>> PROVE CheckerInv'
  BY <1>8 DEF CheckerIdle, CheckerInv, IInv
<1>9. 0 \in Heights
  BY IndexerAssumption DEF Heights
<1> USE DEF IInv, TypeOK, CheckerRest, queue, Checks
<1>10. CASE ReadCheckpoint
  <2>1. /\ cp' \in Heights /\ (checkpoint = cp' \/ checkpoint = NoCheckpoint)
        /\ check' = "highest"
        /\ UNCHANGED <<pending, checkpoint, hi, found, left, base>>
    BY <1>10 DEF ReadCheckpoint
  <2>2. CheckerInv'
    BY <2>1 DEF CheckerInv
  <2> QED
    BY <1>7, <2>1, <2>2
<1>11. CASE ReadHighest
  <2>1. UNCHANGED <<pending, checkpoint, base>> /\ check = "highest"
    BY <1>11 DEF ReadHighest
  <2>2. CASE CheckerIdle
    BY <1>7, <1>8, <1>9, <2>1, <2>2 DEF CheckerIdle
  <2>3. CASE hi' \in Heights /\ check' = "missing" /\ UNCHANGED <<cp, found, left>>
    <3>1. CheckerInv'
      BY <2>1, <2>3 DEF CheckerInv
    <3> QED
      BY <1>7, <2>1, <2>3, <3>1
  <2> QED
    BY <1>11, <2>2, <2>3 DEF ReadHighest
<1>12. CASE CheckMissing
  <2>1. /\ check = "missing" /\ check' = "broken"
        /\ found' = {n \in cp .. hi : ~Stored(n)}
        /\ UNCHANGED <<pending, checkpoint, cp, hi, left, base>>
    BY <1>12 DEF CheckMissing
  <2>2. CheckerInv'
    <3>1. ASSUME NEW n \in cp .. hi PROVE n \in found' \/ Accounted(n)'
      BY <1>3, <1>5, <2>1 DEF Accounted
    <3> QED
      BY <2>1, <3>1 DEF CheckerInv
  <2> QED
    BY <1>5, <1>7, <2>1, <2>2
<1>13. CASE CheckBroken
  <2>1. /\ check = "broken" /\ check' \in {"save", "queue"} /\ left' = found'
        /\ found \subseteq found'
        /\ UNCHANGED <<pending, checkpoint, cp, hi, base>>
    BY <1>13 DEF CheckBroken
  <2>2. found' \subseteq Heights
    BY <1>13 DEF CheckBroken, Broken
  <2>3. CheckerInv'
    <3>1. \A n \in found' : n <= hi
      <4> DEFINE broken == {n \in Heights : cp - Lookback <= n /\ n <= hi /\ Broken(n)}
      <4>1. found' = found \cup broken \cup {n - 1 : n \in broken}
        BY <1>13 DEF CheckBroken
      <4>2. \A n \in broken : n <= hi /\ n - 1 <= hi
        BY IndexerAssumption DEF Heights
      <4>3. \A n \in found : n <= hi
        BY <2>1 DEF CheckerInv
      <4> QED
        BY <4>1, <4>2, <4>3
    <3>2. \A n \in cp .. hi : n \in found' \/ Accounted(n)'
      BY <1>3, <1>5, <2>1 DEF CheckerInv
    <3> QED
      BY <2>1, <3>1, <3>2 DEF CheckerInv
  <2> QED
    BY <1>7, <2>1, <2>2, <2>3
<1>14. CASE QueueFound
  <2>1. /\ check = "queue" /\ check' \in {"save", "queue"}
        /\ pending' \subseteq pending \cup left /\ left' \subseteq left
        /\ UNCHANGED <<checkpoint, cp, hi, found, base>>
    BY <1>14 DEF QueueFound, Queue!Add
  <2>2. CheckerInv'
    BY <1>3, <1>5, <2>1 DEF CheckerInv
  <2> QED
    BY <1>7, <2>1, <2>2
<1>15. CASE SaveCheckpoint
  <2>1. /\ check = "save" /\ CheckerIdle /\ pending' = pending
        /\ base' = (IF cp < base THEN cp ELSE base)
        /\ \/ found = {} /\ checkpoint' = hi
           \/ \E n \in found : IsLowest(n, found) /\ checkpoint' = n - 1
    BY <1>15 DEF SaveCheckpoint
  <2>2. /\ \A n \in found : n \in Int /\ 0 <= n /\ n <= MaxHeight
        /\ cp \in Nat /\ hi \in Nat /\ hi <= MaxHeight /\ cp <= MaxHeight
        /\ base \in Nat /\ base <= MaxHeight + 1
    BY IndexerAssumption DEF Heights
  <2>3. checkpoint' \in -1 .. MaxHeight
    BY <2>1, <2>2, IndexerAssumption
  <2>4. base' \in 0 .. MaxHeight + 1
    BY <2>1, <2>2, IndexerAssumption
  <2>5. ASSUME NEW n \in Heights, base' <= n, n <= checkpoint'
        PROVE  Accounted(n)
    <3>1. n \in Nat
      BY IndexerAssumption DEF Heights
    <3>2. CASE cp <= n
      <4>1. CASE found = {}
        BY <2>1, <2>2, <2>5, <3>1, <3>2, <4>1 DEF CheckerInv
      <4>2. CASE found # {}
        <5>1. PICK k \in found : IsLowest(k, found) /\ checkpoint' = k - 1
          BY <2>1, <4>2
        <5>2. n \notin found /\ n < k
          BY <2>2, <2>5, <3>1, <5>1 DEF IsLowest
        <5>3. CASE n <= hi
          BY <2>1, <2>2, <3>1, <3>2, <5>2, <5>3 DEF CheckerInv
        <5>4. k <= hi + 1
          <6>1. k \in found /\ \A j \in found : j <= hi
            BY <2>1, <5>1 DEF IsLowest, CheckerInv
          <6> QED
            BY <2>2, <6>1
        <5> QED
          BY <2>2, <3>1, <5>2, <5>3, <5>4
      <4> QED
        BY <4>1, <4>2
    <3>3. CASE ~(cp <= n)
      <4>1. base <= n /\ n < cp
        BY <2>1, <2>2, <2>5, <3>1, <3>3
      <4>2. CASE checkpoint = cp
        BY <2>2, <3>1, <4>1, <4>2 DEF NoForgottenHole
      <4>3. CASE checkpoint = NoCheckpoint
        <5>1. base > MaxHeight
          BY <4>3 DEF CheckerInv
        <5> QED
          BY <2>2, <4>1, <5>1, IndexerAssumption
      <4> QED
        BY <2>1, <4>2, <4>3 DEF CheckerInv
    <3> QED
      BY <3>2, <3>3
  <2>6. NoForgottenHole'
    BY <1>3, <2>5 DEF NoForgottenHole
  <2>7. CheckerInv'
    <3>1. checkpoint' # NoCheckpoint
      BY <2>3, IndexerAssumption DEF NoCheckpoint
    <3> QED
      BY <2>1, <3>1 DEF CheckerIdle, CheckerInv
  <2> QED
    BY <1>9, <2>1, <2>3, <2>4, <2>6, <2>7 DEF CheckerIdle
<1>16. CASE CheckFails
  <2>1. CheckerIdle /\ UNCHANGED <<pending, checkpoint, base>>
    BY <1>16 DEF CheckFails
  <2> QED
    BY <1>7, <1>8, <1>9, <2>1 DEF CheckerIdle
<1> QED
  BY <1>10, <1>11, <1>12, <1>13, <1>14, <1>15, <1>16 DEF Checker

-----------------------------------------------------------------------------

LEMMA NextIInv == IInv /\ [Next]_vars => IInv'
<1> SUFFICES ASSUME IInv, [Next]_vars PROVE IInv'
  OBVIOUS
<1>1. CASE UNCHANGED vars
  <2>1. UNCHANGED <<node, up, watch, backfill, queue, consumer, db, checkpoint, checker, faults,
                    history>>
    BY <1>1 DEF vars
  <2>2. TypeOK' /\ RangeInv' /\ ConsumerInv'
    BY <2>1 DEF IInv, TypeOK, Task, RangeInv, ConsumerInv, node, watch, backfill, queue,
       consumer, checker, faults, history
  <2>3. \A n \in Heights : Accounted(n) => Accounted(n)'
    BY <2>1 DEF Accounted, Stored, queue, consumer, backfill, history
  <2> QED
    BY <2>1, <2>2, <2>3, Carry DEF IInv, history
<1>2. CASE Next
  BY <1>2, MineIInv, ReorgIInv, StartIInv, BackfillIInv, AnnounceIInv, CrashIInv, FeedIInv,
     ConsumerIInv, CheckerIInv DEF Next
<1> QED
  BY <1>1, <1>2

THEOREM Invariance == Spec => []IInv
BY InitIInv, NextIInv, PTL DEF Spec

(* Every height the watcher, the backfill and the checker compute lies on    *)
(* the chain, and a scraped block is always one the node has.                *)
THEOREM TypeCorrect == Spec => []TypeOK
BY Invariance, PTL DEF IInv

(* Whatever crashes, fails, switches or is deleted between the checker's     *)
(* queries, no height between its lowest start and its checkpoint is without *)
(* a row, a task or a crash that took the task.                              *)
THEOREM HolesAreKnown == Spec => []NoForgottenHole
BY Invariance, PTL DEF IInv

(* Store takes a row away only to put another version of it in its place.    *)
THEOREM DeletesOnlyToReplace == Spec => DeletedOnlyToReplace
<1> DEFINE Kept == \A n \in Heights :
                     (Stored(n) /\ db'[n] # db[n]) => (working = n /\ raw # db[n])
<1>1. IInv /\ [Next]_vars => [Kept]_vars
  <2> SUFFICES ASSUME IInv, [Next]_vars PROVE Kept
    OBVIOUS
  <2>1. CASE db' = db
    BY <2>1
  <2>2. CASE DeleteBlock
    BY <2>2 DEF DeleteBlock, IInv, TypeOK, ConsumerInv
  <2>3. CASE StoreBlock
    BY <2>3 DEF StoreBlock, Stored, IInv, TypeOK, ConsumerInv
  <2>4. CASE Consumer /\ ~DeleteBlock /\ ~StoreBlock
    BY <2>1, <2>4 DEF Consumer, Receive, Scrape, ScrapeFails, CheckExists, CheckReorged,
       StoreFails, Requeue
  <2>5. CASE Checker
    BY <2>1, <2>5 DEF Checker, ReadCheckpoint, ReadHighest, CheckMissing, CheckBroken,
       QueueFound, SaveCheckpoint, CheckFails, CheckerRest
  <2>6. CASE UNCHANGED vars
    BY <2>1, <2>6 DEF vars
  <2> QED
    BY <2>1, <2>2, <2>3, <2>4, <2>5, <2>6 DEF Next, Mine, Reorg, Start, BackfillOne, Announce,
       Crash, Feed
<1> QED
  BY <1>1, Invariance, PTL DEF Spec, DeletedOnlyToReplace

==============================================================================
