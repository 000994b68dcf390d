------------------------------- MODULE Indexer -------------------------------
(***************************************************************************)
(* How a block gets into the database and stays right there: the consumer  *)
(* loop of Core.Run with processor.Store, the backfill at start, the       *)
(* integrity checker that compares the rows among themselves and queues    *)
(* what is missing or does not chain, all over the abstract TaskQueue that *)
(* TaskManager implements; and the node's chain, which grows and switches  *)
(* branches while they work.  The process can crash at any step and is     *)
(* restarted; redis (pending) and Postgres (db, checkpoint) survive.       *)
(***************************************************************************)
EXTENDS Integers

CONSTANTS
  Lag,                  \* config features.lag.value, 0 when the feature is off
  Backfill,             \* config features.backfill.enabled
  DeleteEntityDefined,  \* the database has the function that delete_block calls
  Lookback,             \* how far below the checkpoint the hash chain is checked
  StartTip,             \* the node's height when the backend is first started
  Final,                \* the node never replaces a block at or below this height
  MaxHeight,            \* bound: the highest block of the chain
  MaxFork,              \* bound: branch switches of the node
  MaxCrashes,           \* bound: crashes of the process
  MaxFailures           \* bound: failing node, database and redis calls

ASSUME IndexerAssumption ==
  /\ Lag \in Nat
  /\ Lookback \in Nat
  /\ StartTip \in Nat
  /\ Final \in Nat
  /\ MaxHeight \in Nat
  /\ Lag < StartTip
  /\ Lag <= Final + 1
  /\ Final <= MaxHeight
  /\ StartTip <= MaxHeight
  /\ Backfill \in BOOLEAN
  /\ DeleteEntityDefined \in BOOLEAN
  /\ {MaxFork, MaxCrashes, MaxFailures} \subseteq Nat

Heights == 0 .. MaxHeight
NoTask == -2
NoCheckpoint == -2    \* integrity_checkpoints is empty

\* A block is known by its hash and its parent's; within one height a hash is
\* the number of the branch the block was mined on.
Version == [hash : 0 .. MaxFork, parent : -1 .. MaxFork]
NoRow == [hash |-> -1, parent |-> -1]

VARIABLES
  tip, chain, fork,          \* the node: its height, its chain, its branch
  fresh,                     \* the tip was mined after the last branch switch
  up,                        \* the process runs
  lastAdded, seen, skip,     \* the watcher: the last height it queued, the
                             \* highest it was told, how many it still postpones
  switched,                  \* lowest height switched and not yet announced
  bfNext, bfEnd,             \* the heights the backfill has still to queue
  pending, slot,             \* the task queue
  working, stage, raw,       \* the consumer: its block, where it is, what it scraped
  db,                        \* table blocks
  checkpoint,                \* the latest row of integrity_checkpoints
  check, cp, hi, found, left,  \* the checker: where it is, its locals
  crashes, failures,         \* spent of the bounds
  lost,                      \* history: tasks that died with the process
  base                       \* history: the lowest cp of a completed lifecycle

node == <<tip, chain, fork, fresh>>
watch == <<lastAdded, seen, skip, switched>>
backfill == <<bfNext, bfEnd>>
queue == <<pending, slot>>
consumer == <<working, stage, raw>>
checker == <<check, cp, hi, found, left>>
history == <<lost, base>>
faults == <<crashes, failures>>
vars == <<node, up, watch, backfill, queue, consumer, db, checkpoint, checker, faults, history>>

Queue == INSTANCE TaskQueue WITH gate <- "open"

Stages == {"idle", "scrape", "exists", "reorged", "delete", "store", "requeue"}
Checks == {"idle", "highest", "missing", "broken", "queue", "save"}

Stored(n) == db[n] # NoRow
StoredHeights == {n \in Heights : Stored(n)}
IsLowest(n, S) == n \in S /\ \A m \in S : n <= m
IsHighest(n, S) == n \in S /\ \A m \in S : m <= n

\* The locals of a loop iteration, and of a lifecycle, end with it.
ConsumerIdle == working' = NoTask /\ stage' = "idle" /\ raw' = NoRow
CheckerIdle == check' = "idle" /\ cp' = 0 /\ hi' = 0 /\ found' = {} /\ left' = {}

Init ==
  /\ tip = StartTip
  /\ chain = [h \in 0 .. StartTip |-> [hash |-> 0, parent |-> IF h = 0 THEN -1 ELSE 0]]
  /\ fork = 0
  /\ fresh = TRUE
  /\ up = FALSE
  /\ lastAdded = 0 /\ seen = 0 /\ skip = 0 /\ switched = MaxHeight + 1
  /\ bfNext = 1 /\ bfEnd = 0
  /\ pending = {} /\ slot = NoTask
  /\ working = NoTask /\ stage = "idle" /\ raw = NoRow
  /\ db = [n \in Heights |-> NoRow]
  /\ checkpoint = NoCheckpoint
  /\ check = "idle" /\ cp = 0 /\ hi = 0 /\ found = {} /\ left = {}
  /\ crashes = 0 /\ failures = 0
  /\ lost = {} /\ base = MaxHeight + 1

-----------------------------------------------------------------------------
(* The node                                                                *)

Mine ==
  /\ tip < MaxHeight
  /\ tip' = tip + 1
  /\ chain' = [h \in 0 .. tip + 1 |->
                 IF h <= tip THEN chain[h] ELSE [hash |-> fork, parent |-> chain[tip].hash]]
  /\ fresh' = TRUE
  /\ UNCHANGED <<fork, up, watch, backfill, queue, consumer, db, checkpoint, checker,
                 faults, history>>

\* The node switches to another branch, of the same height, from height k on.
\* A websocket tells the tracker; polling over HTTP does not notice.
Reorg(k) ==
  /\ k \in Final + 1 .. tip
  /\ fork < MaxFork
  /\ fork' = fork + 1
  /\ chain' = [h \in 0 .. tip |->
                 IF h < k THEN chain[h]
                 ELSE [hash |-> fork + 1,
                       parent |-> IF h = k THEN chain[h - 1].hash ELSE fork + 1]]
  /\ fresh' = FALSE
  /\ switched' \in {switched, IF k < switched THEN k ELSE switched}
  /\ UNCHANGED <<tip, up, lastAdded, seen, skip, backfill, queue, consumer, db, checkpoint,
                 checker, faults, history>>

-----------------------------------------------------------------------------
(* Start: Core.New and Core.Run                                            *)

\* The tracker publishes the tip, before or after the watcher has subscribed.
Start ==
  /\ ~up
  /\ up' = TRUE
  /\ seen' \in {tip - 1, tip}
  /\ lastAdded' = seen' - Lag
  /\ skip' = Lag
  /\ switched' = MaxHeight + 1
  /\ \E highest \in Heights :
       /\ IF StoredHeights = {} THEN highest = 0 ELSE IsHighest(highest, StoredHeights)
       /\ IF Backfill /\ highest + 1 < tip - Lag
          THEN bfNext' = highest /\ bfEnd' = tip - Lag
          ELSE bfNext' = 1 /\ bfEnd' = 0
  /\ UNCHANGED <<node, queue, consumer, db, checkpoint, checker, faults, history>>

\* Mutant: the backfill loop runs one past its target.
BackfillOne_past ==
  /\ up /\ bfNext <= bfEnd + 1
  /\ Queue!Add({bfNext})
  /\ bfNext' = bfNext + 1
  /\ UNCHANGED <<node, up, watch, bfEnd, consumer, db, checkpoint, checker, faults, history>>

BackfillOne ==
  /\ up /\ bfNext <= bfEnd
  /\ Queue!Add({bfNext})
  /\ bfNext' = bfNext + 1
  /\ UNCHANGED <<node, up, watch, bfEnd, consumer, db, checkpoint, checker, faults, history>>

\* The announced blocks that the watcher does not postpone.
Announced ==
  IF skip > 0 THEN seen + skip + 1 .. tip
  ELSE (IF switched <= seen THEN switched ELSE seen + 1) .. tip

\* The tracker publishes what is new or switched, and the watcher queues the
\* heights Lag below; with backfill on, also those between lastAdded (moved back
\* by a switched block) and them.
Announce ==
  /\ up
  /\ seen < tip \/ switched <= tip
  /\ LET next == IF switched - Lag <= lastAdded THEN switched - Lag ELSE lastAdded + 1
     IN \/ /\ Announced = {}
           /\ lastAdded' = next - 1
           /\ UNCHANGED queue
        \/ /\ Announced # {}
           /\ lastAdded' = tip - Lag
           /\ Queue!Add(IF Backfill THEN next .. tip - Lag ELSE {b - Lag : b \in Announced})
  /\ skip' = IF tip - seen < skip THEN skip - (tip - seen) ELSE 0
  /\ seen' = tip
  /\ switched' = MaxHeight + 1
  /\ UNCHANGED <<node, up, backfill, consumer, db, checkpoint, checker, faults, history>>

\* Everything in memory is gone; an open transaction is rolled back.
Crash ==
  /\ up /\ crashes < MaxCrashes
  /\ crashes' = crashes + 1
  /\ up' = FALSE
  /\ lost' = lost \cup ({slot, working} \ {NoTask}) \cup bfNext .. bfEnd
  /\ slot' = NoTask
  /\ ConsumerIdle
  /\ CheckerIdle
  /\ bfNext' = 1 /\ bfEnd' = 0
  /\ UNCHANGED <<node, watch, pending, db, checkpoint, failures, base>>

-----------------------------------------------------------------------------
(* The consumer                                                            *)

Feed ==
  /\ up
  /\ Queue!Take
  /\ UNCHANGED <<node, up, watch, backfill, consumer, db, checkpoint, checker, faults, history>>

Receive ==
  /\ up /\ stage = "idle"
  /\ Queue!Hand
  /\ working' = slot
  /\ stage' = "scrape"
  /\ UNCHANGED <<node, up, watch, backfill, raw, db, checkpoint, checker, faults, history>>

ConsumerRest == <<node, up, watch, backfill, checkpoint, checker, crashes, history>>

Fails == failures < MaxFailures /\ failures' = failures + 1

\* scraper.Exec, then the validator and processor.New accept the block.
Scrape ==
  /\ stage = "scrape" /\ working <= tip
  /\ raw' = chain[working]
  /\ stage' = "exists"
  /\ UNCHANGED <<ConsumerRest, queue, working, db, failures>>

\* The node has no such block, or scraping, validating or preparing it fails.
ScrapeFails ==
  /\ stage = "scrape"
  /\ IF working > tip THEN UNCHANGED failures ELSE Fails
  /\ stage' = "requeue"
  /\ UNCHANGED <<ConsumerRest, queue, working, raw, db>>

\* Mutant: a row with the right number is taken for the block itself.
CheckExists_byNumber ==
  /\ stage = "exists"
  /\ IF Stored(working)
     THEN ConsumerIdle
     ELSE stage' = "reorged" /\ UNCHANGED <<working, raw>>
  /\ UNCHANGED <<ConsumerRest, queue, db, failures>>

\* Mutant: Store replaces a row without looking whether it is the same block.
CheckExists_never ==
  /\ stage = "exists"
  /\ stage' = "reorged"
  /\ UNCHANGED <<ConsumerRest, queue, working, raw, db, failures>>

\* checkBlockExists, by hash: nothing to do for a block that is there.
CheckExists ==
  /\ stage = "exists"
  /\ IF db[working] = raw
     THEN ConsumerIdle
     ELSE stage' = "reorged" /\ UNCHANGED <<working, raw>>
  /\ UNCHANGED <<ConsumerRest, queue, db, failures>>

\* checkBlockReorged, by number.
CheckReorged ==
  /\ stage = "reorged"
  /\ stage' = IF Stored(working) THEN "delete" ELSE "store"
  /\ UNCHANGED <<ConsumerRest, queue, working, raw, db, failures>>

\* select delete_block(number, dbTables): a transaction of its own.
DeleteBlock ==
  /\ stage = "delete"
  /\ IF DeleteEntityDefined
     THEN db' = [db EXCEPT ![working] = NoRow] /\ stage' = "store"
     ELSE stage' = "requeue" /\ UNCHANGED db
  /\ UNCHANGED <<ConsumerRest, queue, working, raw, failures>>

\* All storables in one transaction, committed.
StoreBlock ==
  /\ stage = "store"
  /\ db' = [db EXCEPT ![working] = raw]
  /\ ConsumerIdle
  /\ UNCHANGED <<ConsumerRest, queue, failures>>

\* A query of Store fails, or a storable does and the transaction is rolled back.
StoreFails ==
  /\ stage \in {"exists", "reorged", "delete", "store"}
  /\ Fails
  /\ stage' = "requeue"
  /\ UNCHANGED <<ConsumerRest, queue, working, raw, db>>

\* Mutant: the error path logs and goes on with the next task.
Requeue_forgets ==
  /\ stage = "requeue"
  /\ ConsumerIdle
  /\ UNCHANGED <<ConsumerRest, queue, db, failures>>

\* The error paths of the loop end in Todo(b).
Requeue ==
  /\ stage = "requeue"
  /\ Queue!Add({working})
  /\ ConsumerIdle
  /\ UNCHANGED <<ConsumerRest, db, failures>>

-----------------------------------------------------------------------------
(* The integrity checker: lifecycle, one query per step                    *)

CheckerRest == <<node, up, watch, backfill, consumer, db, crashes, lost>>

\* getLastCheckpoint.  On an empty table min(number) is NULL and the scan fails;
\* at checkpoint -1 the lifecycle returns at once.
ReadCheckpoint ==
  /\ up /\ check = "idle"
  /\ \E n \in Heights :
       /\ \/ checkpoint = n
          \/ checkpoint = NoCheckpoint /\ IsLowest(n, StoredHeights)
       /\ cp' = n
  /\ check' = "highest"
  /\ UNCHANGED <<CheckerRest, queue, checkpoint, hi, found, left, failures, base>>

\* select max(number): an empty table is an error here as well.
ReadHighest ==
  /\ check = "highest"
  /\ \/ /\ StoredHeights = {}
        /\ CheckerIdle
     \/ \E n \in Heights :
          /\ IsHighest(n, StoredHeights)
          /\ IF cp >= n
             THEN CheckerIdle
             ELSE hi' = n /\ check' = "missing" /\ UNCHANGED <<cp, found, left>>
  /\ UNCHANGED <<CheckerRest, queue, checkpoint, failures, base>>

CheckMissing ==
  /\ check = "missing"
  /\ found' = {n \in cp .. hi : ~Stored(n)}
  /\ check' = "broken"
  /\ UNCHANGED <<CheckerRest, queue, checkpoint, cp, hi, left, failures, base>>

\* A row whose parent hash is not the hash of the row below; without a row
\* below the comparison is NULL and the row is not reported.
Broken(n) == /\ Stored(n)
             /\ n - 1 \in Heights /\ Stored(n - 1)
             /\ db[n - 1].hash # db[n].parent

CheckBroken ==
  /\ check = "broken"
  /\ LET broken == {n \in Heights : cp - Lookback <= n /\ n <= hi /\ Broken(n)}
     IN found' = found \cup broken \cup {n - 1 : n \in broken}
  /\ left' = found'
  /\ check' = IF found' = {} THEN "save" ELSE "queue"
  /\ UNCHANGED <<CheckerRest, queue, checkpoint, cp, hi, failures, base>>

QueueFound ==
  /\ check = "queue"
  /\ \E n \in left :
       /\ IsLowest(n, left)
       /\ Queue!Add({n})
       /\ left' = left \ {n}
  /\ check' = IF left' = {} THEN "save" ELSE "queue"
  /\ UNCHANGED <<CheckerRest, checkpoint, cp, hi, found, failures, base>>

\* The new checkpoint: the highest row if all is well, else below the first
\* height that was queued.
SaveCheckpoint ==
  /\ check = "save"
  /\ \/ found = {} /\ checkpoint' = hi
     \/ \E n \in found : IsLowest(n, found) /\ checkpoint' = n - 1
  /\ base' = IF cp < base THEN cp ELSE base
  /\ CheckerIdle
  /\ UNCHANGED <<CheckerRest, queue, failures>>

\* Any query or Todo of the lifecycle fails: it returns, what is queued stays.
CheckFails ==
  /\ check # "idle"
  /\ Fails
  /\ CheckerIdle
  /\ UNCHANGED <<CheckerRest, queue, checkpoint, base>>

-----------------------------------------------------------------------------

Consumer ==
  \/ Receive
  \/ Scrape
  \/ ScrapeFails
  \/ CheckExists
  \/ CheckReorged
  \/ DeleteBlock
  \/ StoreBlock
  \/ StoreFails
  \/ Requeue

Checker ==
  \/ ReadCheckpoint
  \/ ReadHighest
  \/ CheckMissing
  \/ CheckBroken
  \/ QueueFound
  \/ SaveCheckpoint
  \/ CheckFails

Next ==
  \/ Mine
  \/ \E k \in Heights : Reorg(k)
  \/ Start
  \/ BackfillOne
  \/ Announce
  \/ Crash
  \/ Feed
  \/ Consumer
  \/ Checker

Spec == Init /\ [][Next]_vars

\* Docker restarts the process, the ticker fires every minute, the goroutines
\* run and the tracker keeps polling.  The chain need not grow, and nothing
\* has to fail.
Fairness ==
  /\ WF_vars(Start)
  /\ WF_vars(BackfillOne)
  /\ WF_vars(Announce)
  /\ WF_vars(Feed)
  /\ WF_vars(Consumer)
  /\ WF_vars(Checker)

FairSpec == Spec /\ Fairness

-----------------------------------------------------------------------------
(* Properties                                                              *)

Task == Heights \cup {NoTask}

TypeOK ==
  /\ tip \in Heights
  /\ chain \in [0 .. tip -> Version]
  /\ fork \in 0 .. MaxFork
  /\ fresh \in BOOLEAN /\ up \in BOOLEAN
  /\ lastAdded \in -1 .. MaxHeight /\ seen \in Heights /\ skip \in 0 .. Lag
  /\ switched \in 0 .. MaxHeight + 1
  /\ bfNext \in 0 .. MaxHeight + 1 /\ bfEnd \in Heights
  /\ pending \in SUBSET Heights /\ slot \in Task
  /\ working \in Task /\ stage \in Stages /\ raw \in Version \cup {NoRow}
  /\ db \in [Heights -> Version \cup {NoRow}]
  /\ checkpoint \in -1 .. MaxHeight \cup {NoCheckpoint}
  /\ check \in Checks
  /\ cp \in Heights /\ hi \in Heights
  /\ found \in SUBSET Heights /\ left \in SUBSET Heights
  /\ crashes \in 0 .. MaxCrashes /\ failures \in 0 .. MaxFailures
  /\ lost \in SUBSET Heights /\ base \in 0 .. MaxHeight + 1

\* The height is in the database, or something still has it to do, or a crash
\* took its task away.
Accounted(n) ==
  \/ Stored(n)
  \/ n \in pending \cup {slot, working} \cup bfNext .. bfEnd
  \/ n \in lost

(* The checker never looks below its checkpoint for missing blocks again.  *)
(* So no height between the lowest it ever started from and the checkpoint *)
(* may be missing for good: it is stored, queued, or in the consumer's     *)
(* hands - even while Store deletes rows between the checker's queries -   *)
(* unless its task died in a crash.                                        *)
NoForgottenHole ==
  \A n \in Heights : (base <= n /\ n <= checkpoint) => Accounted(n)

(* With the chain quiet and no task lost in a crash, the database ends up  *)
(* equal to the node's chain, from the lowest row to the tip less the lag: *)
(* the checker finds what a branch switch has left behind, once one block  *)
(* has been mined on the new branch.                                       *)
Agrees ==
  \A m, n \in Heights : (Stored(m) /\ m <= n /\ n <= tip - Lag) => db[n] = chain[n]

Converges == <>[](fresh /\ lost = {}) => <>[]Agrees

(* A row only leaves the table to make room for another version of it that *)
(* the consumer has already scraped.                                       *)
DeletedOnlyToReplace ==
  [][\A n \in Heights :
       (Stored(n) /\ db'[n] # db[n]) => (working = n /\ raw # db[n])]_vars

(* Store's own log line: a block found under another hash is removed and   *)
(* "will be replaced with new version".                                    *)
ReorgedBlockReplaced ==
  \A n \in Heights :
     (stage = "delete" /\ working = n) ~> (\E r \in Version : db[n] = r /\ db[n] = chain[n])
==============================================================================
