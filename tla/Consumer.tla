------------------------------- MODULE Consumer --------------------------------
(***************************************************************************)
(* The consumer loop of Core.Run with its lock and its retries, the feeder *)
(* that has the next task in its hand while a block is processed, Close    *)
(* with the end of the process, and the `queue` command that fills the     *)
(* list from another process.  What processing a block does is the         *)
(* business of Indexer, Storables and Governance, and the feeder's         *)
(* channels that of TaskManager.                                           *)
(***************************************************************************)
EXTENDS Integers, FiniteSets

CONSTANTS
  From,            \* the --from of the command
  MaxTo,           \* bound: its --to
  BatchSize,       \* 500
  Bad,             \* the blocks that fail whenever they are tried
  MaxEnds,         \* bound: after so many ends of the process nobody stops it
  MaxFaults        \* bound: failing ZADDs and failures of other blocks

ASSUME ConsumerAssumption ==
  /\ From \in Nat \ {0} /\ MaxTo \in Nat
  /\ BatchSize \in Nat \ {0}
  /\ MaxEnds \in Nat /\ MaxFaults \in Nat

NoTask == -2
Heights == From .. MaxTo

VARIABLES
  queue,           \* the sorted set in redis
  stored,          \* the blocks in the database
  hand,            \* the task FeedToChan has popped and not yet delivered
  task,            \* the task of the consumer
  consumer,        \* where the consumer is
  stopMu,          \* who holds stopMu
  closer,          \* where Close is
  alive,           \* the process runs
  ends,            \* bound: how often it has ended
  faults,          \* bound
  dropped,         \* history: the tasks that ended with the process
  cmd, to, batch   \* the command: where it is, its --to, its next batch

process == <<hand, task, consumer, stopMu, closer, alive, ends, dropped>>
command == <<cmd, to, batch>>
vars == <<queue, stored, process, faults, command>>

Init ==
  /\ queue = {} /\ stored = {}
  /\ hand = NoTask /\ task = NoTask /\ consumer = "range" /\ stopMu = "free"
  /\ closer = "none" /\ alive = TRUE /\ ends = 0 /\ faults = 0 /\ dropped = {}
  /\ cmd = "running" /\ batch = 0
  /\ to \in From - 1 .. MaxTo

Fault == faults < MaxFaults /\ faults' = faults + 1

-----------------------------------------------------------------------------
(* cmd/queue.go, batchAdd                                                  *)

Members == to - From + 1                \* len(members)
\* Mutant: no round for the last, incomplete batch.
Batches_whole == Members \div BatchSize

Batches == Members \div BatchSize + 1

\* One round of the loop: members[batchSize*i] of an empty last batch panics.
AddBatch ==
  /\ cmd = "running" /\ batch < Batches
  /\ IF BatchSize * batch >= Members
     THEN cmd' = "panicked" /\ UNCHANGED <<queue, batch>>
     ELSE /\ queue' = queue \cup
               {h \in Heights : From + BatchSize * batch <= h
                                /\ h < From + BatchSize * (batch + 1) /\ h <= to}
          /\ batch' = batch + 1
          /\ UNCHANGED cmd
  /\ UNCHANGED <<stored, process, faults, to>>

AddBatchFails ==
  /\ cmd = "running" /\ batch < Batches /\ BatchSize * batch < Members
  /\ Fault
  /\ cmd' = "failed"
  /\ UNCHANGED <<queue, stored, process, to, batch>>

AddDone ==
  /\ cmd = "running" /\ batch = Batches
  /\ cmd' = "done"
  /\ UNCHANGED <<queue, stored, process, faults, to, batch>>

-----------------------------------------------------------------------------
(* The feeder and the consumer                                             *)

\* Mutant: the next task is popped only when the consumer is done with its block.
Feed_noPrefetch(h) ==
  /\ alive /\ closer # "closed" /\ hand = NoTask /\ task = NoTask
  /\ h \in queue /\ \A k \in queue : h <= k
  /\ hand' = h
  /\ queue' = queue \ {h}
  /\ UNCHANGED <<stored, task, consumer, stopMu, closer, alive, ends, dropped, faults, command>>

\* BZPopMin, until Close has closed the connection.
Feed(h) ==
  /\ alive /\ closer # "closed" /\ hand = NoTask
  /\ h \in queue /\ \A k \in queue : h <= k
  /\ hand' = h
  /\ queue' = queue \ {h}
  /\ UNCHANGED <<stored, task, consumer, stopMu, closer, alive, ends, dropped, faults, command>>

\* for b := range blockChan
Deliver ==
  /\ alive /\ consumer = "range" /\ hand # NoTask
  /\ task' = hand /\ hand' = NoTask
  /\ consumer' = "lock"
  /\ UNCHANGED <<queue, stored, stopMu, closer, alive, ends, dropped, faults, command>>

Lock ==
  /\ alive /\ consumer = "lock" /\ stopMu = "free"
  /\ consumer' = "work" /\ stopMu' = "consumer"
  /\ UNCHANGED <<queue, stored, hand, task, closer, alive, ends, dropped, faults, command>>

\* Scraping, validating and storing: all of them need the connections Close has closed.
Work ==
  /\ alive /\ consumer = "work" /\ task \notin Bad /\ closer # "closed"
  /\ stored' = stored \cup {task}
  /\ task' = NoTask /\ consumer' = "range" /\ stopMu' = "free"
  /\ UNCHANGED <<queue, hand, closer, alive, ends, dropped, faults, command>>

\* Mutant: a failed block is not queued again.
WorkFails_forgets ==
  /\ alive /\ consumer = "work"
  /\ IF task \in Bad \/ closer = "closed" THEN UNCHANGED faults ELSE Fault
  /\ consumer' = "range" /\ task' = NoTask /\ stopMu' = "free"
  /\ UNCHANGED <<queue, stored, hand, closer, alive, ends, dropped, command>>

\* Mutant: one of the ways to fail forgets the lock.
WorkFails_keepsLock ==
  /\ alive /\ consumer = "work"
  /\ IF task \in Bad \/ closer = "closed" THEN UNCHANGED faults ELSE Fault
  /\ consumer' = "requeue"
  /\ UNCHANGED <<queue, stored, hand, task, stopMu, closer, alive, ends, dropped, command>>

\* Every way to fail gives the lock back before the block.
WorkFails ==
  /\ alive /\ consumer = "work"
  /\ IF task \in Bad \/ closer = "closed" THEN UNCHANGED faults ELSE Fault
  /\ consumer' = "requeue" /\ stopMu' = "free"
  /\ UNCHANGED <<queue, stored, hand, task, closer, alive, ends, dropped, command>>

\* Mutant: the task that waits is put back, not the one that failed.
Requeue_wrongTask ==
  /\ alive /\ consumer = "requeue" /\ closer # "closed"
  /\ queue' = queue \cup {hand}
  /\ task' = NoTask /\ consumer' = "range"
  /\ UNCHANGED <<stored, hand, stopMu, closer, alive, ends, dropped, faults, command>>

Requeue ==
  /\ alive /\ consumer = "requeue" /\ closer # "closed"
  /\ queue' = queue \cup {task}
  /\ task' = NoTask /\ consumer' = "range"
  /\ UNCHANGED <<stored, hand, stopMu, closer, alive, ends, dropped, faults, command>>

\* The process is gone, with whatever was on its way.
End ==
  /\ alive' = FALSE
  /\ ends' = ends + 1
  /\ dropped' = dropped \cup ({hand, task} \ {NoTask})
  /\ hand' = NoTask /\ task' = NoTask
  /\ UNCHANGED <<consumer, stopMu, closer>>

\* log.Fatal
RequeueFails ==
  /\ alive /\ consumer = "requeue"
  /\ IF closer = "closed" THEN UNCHANGED faults ELSE Fault
  /\ End
  /\ UNCHANGED <<queue, stored, command>>

-----------------------------------------------------------------------------
(* Core.Close, and the process that runs it                                *)

\* SIGINT or SIGTERM.
Stop ==
  /\ alive /\ closer = "none" /\ ends < MaxEnds
  /\ closer' = "lock"
  /\ UNCHANGED <<queue, stored, hand, task, consumer, stopMu, alive, ends, dropped, faults, command>>

CloseLock ==
  /\ alive /\ closer = "lock" /\ stopMu = "free"
  /\ closer' = "closing" /\ stopMu' = "close"
  /\ UNCHANGED <<queue, stored, hand, task, consumer, alive, ends, dropped, faults, command>>

\* The tracker, the database and the task manager, the last within five seconds.
CloseAll ==
  /\ alive /\ closer = "closing"
  /\ closer' = "closed" /\ stopMu' = "free"
  /\ UNCHANGED <<queue, stored, hand, task, consumer, alive, ends, dropped, faults, command>>

Exit ==
  /\ alive /\ closer = "closed"
  /\ End
  /\ UNCHANGED <<queue, stored, faults, command>>

\* Whoever looks after the process starts it again.
Start ==
  /\ ~ alive
  /\ alive' = TRUE
  /\ consumer' = "range" /\ stopMu' = "free" /\ closer' = "none"
  /\ UNCHANGED <<queue, stored, hand, task, ends, dropped, faults, command>>

Next ==
  \/ AddBatch \/ AddBatchFails \/ AddDone
  \/ \E h \in Heights : Feed(h)
  \/ Deliver \/ Lock \/ Work \/ WorkFails \/ Requeue \/ RequeueFails
  \/ Stop \/ CloseLock \/ CloseAll \/ Exit \/ Start

Spec == Init /\ [][Next]_vars

\* A pop takes less than the round trips of a block, so a task that is first in the list
\* each time the consumer has another one is popped in the end; Go's mutex hands itself
\* to whoever has waited a millisecond, and the rest are steps of running goroutines.
Fairness ==
  /\ \A h \in Heights : SF_vars(Feed(h))
  /\ WF_vars(Deliver) /\ SF_vars(Lock) /\ WF_vars(Work \/ WorkFails)
  /\ WF_vars(Requeue \/ RequeueFails)
  /\ SF_vars(CloseLock) /\ WF_vars(CloseAll) /\ WF_vars(Exit) /\ WF_vars(Start)

FairSpec == Spec /\ Fairness

-----------------------------------------------------------------------------
(* Properties                                                              *)

Task == Heights \cup {NoTask}

TypeOK ==
  /\ queue \subseteq Heights /\ stored \subseteq Heights /\ dropped \subseteq Heights
  /\ hand \in Task /\ task \in Task
  /\ consumer \in {"range", "lock", "work", "requeue"}
  /\ stopMu \in {"free", "consumer", "close"}
  /\ closer \in {"none", "lock", "closing", "closed"}
  /\ alive \in BOOLEAN /\ ends \in Nat /\ faults \in Nat
  /\ cmd \in {"running", "panicked", "failed", "done"}
  /\ to \in From - 1 .. MaxTo /\ batch \in 0 .. Batches

OnTheWay == {hand, task} \ {NoTask}

\* What the command's first batches have queued.
Added == {h \in Heights : h <= to /\ h < From + BatchSize * batch}

\* A block that was queued is in the list, in the database, on its way, or it ended with
\* the process; and each end of the process takes two of them at most, whether it was
\* asked to stop or a block could not be put back.
TasksAccounted ==
  /\ Added \subseteq queue \cup stored \cup OnTheWay \cup dropped
  /\ Cardinality(dropped) <= 2 * ends

\* The command that ends without a failing ZADD has queued the whole range, and so has the
\* one that panics on its empty last batch.
BatchQueuesAll ==
  cmd \in {"done", "panicked"} =>
    {h \in Heights : h <= to} \subseteq queue \cup stored \cup OnTheWay \cup dropped

\* A block that fails for good is put back in front of all the others, but as the feeder
\* has the next one in its hand by then the others are processed all the same.  (With two
\* such blocks they are not: the two take turns.)
OneBadBlockStarvesNobody ==
  \A h \in Heights \ Bad : h \in queue ~> h \in stored \cup dropped

\* Close waits for the block in work and no longer.
StopReturns == closer = "lock" ~> ~ alive
===============================================================================
