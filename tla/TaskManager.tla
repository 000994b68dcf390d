----------------------------- MODULE TaskManager -----------------------------
(***************************************************************************)
(* taskmanager.Manager: the redis todo list, the goroutine that feeds the  *)
(* consumer from it (FeedToChan, with one popper goroutine per pop), the   *)
(* goroutine that watches the best block tracker (watchNewBlocks), and the *)
(* dashboard's handler goroutines that call Pause, Resume, Reset, AddTodo  *)
(* and Close on it.  One action is one step of one goroutine between two   *)
(* points where another goroutine can be seen: a redis call, a channel     *)
(* operation, or a shared field (paused, closed, lastBlockAdded), none of  *)
(* which the code protects with a lock.                                    *)
(***************************************************************************)
EXTENDS Integers, FiniteSets

CONSTANTS
  FirstBest,         \* tracker's best block when the watcher subscribes
  MaxBlock,          \* bound: highest block announced
  Lag,               \* config features.lag.value, 0 when the feature is off
  BackfillEnabled,   \* config features.backfill.enabled
  Handlers,          \* goroutines the HTTP server runs handlers on
  Ops,               \* the requests made in this instance
  NapSuffices,       \* the sleeps (100ms, 2s) are long enough for what they wait for
  MaxAnnounce,       \* bound: headers received from the node
  MaxRequests,       \* bound: requests of the operators
  MaxFaults,         \* bound: redis commands that fail
  MaxRequeues        \* bound: tasks the consumer fails and queues again

AllOps == {"toggle", "reset", "exit", "stop", "todo"}

ASSUME ManagerAssumption ==
  /\ Lag \in Nat
  /\ FirstBest \in Nat
  /\ MaxBlock \in Nat
  /\ Lag < FirstBest
  /\ FirstBest <= MaxBlock
  /\ BackfillEnabled \in BOOLEAN
  /\ NapSuffices \in BOOLEAN
  /\ Ops \subseteq AllOps
  /\ {MaxAnnounce, MaxRequests, MaxFaults, MaxRequeues} \subseteq Nat

Heights == 0 .. MaxBlock
Sentinel == -1        \* the member Pause adds to wake the popper up
NoTask == -2          \* no task in this place

VARIABLES
  todo,             \* the redis sorted set
  redisOpen,        \* the client is not closed
  paused,           \* m.paused
  closed,           \* m.closed
  lastBlockAdded,   \* m.lastBlockAdded
  feeder,           \* where FeedToChan is
  held,             \* the task FeedToChan is sending
  popper,           \* where the popper goroutine of this iteration is
  popped,           \* the task it has popped
  working,          \* the task the consumer has received
  watcher,          \* where watchNewBlocks is
  wb, wi,           \* its loop variables b and i
  started, skip, lastBlock,   \* its locals started, skipBlocks, lastBlock
  inflight,         \* publish goroutines blocked on the watcher's channel
  best,             \* the tracker's best block
  hpc, hop,         \* where each handler is, and the request it serves
  budget,           \* what is left of the bounds
  covered, from,    \* history: heights the watcher has queued, and since which
  stale, pauser     \* history: Resume calls of an earlier pause; who paused

manager == <<todo, redisOpen, paused, closed, lastBlockAdded>>
feeding == <<feeder, held, popper, popped, working>>
watching == <<watcher, wb, wi, started, skip, lastBlock>>
tracking == <<inflight, best>>
handling == <<hpc, hop>>
history == <<covered, from, stale, pauser>>
vars == <<manager, feeding, watching, tracking, handling, budget, history>>

FeederPC == {"top", "pausing", "paused", "resuming", "wait", "send", "nap", "done"}
PopperPC == {"none", "popping", "have", "failed"}
WatcherPC == {"recv", "rewind", "gate", "loop", "mark"}
HandlerPC == {"idle", "toggle", "pause", "added", "signal", "resuming", "resume",
              "del", "setlast", "close", "stop", "disconnect"}

Bounded == {"announce", "request", "fault", "requeue"}

Init ==
  /\ todo \in {{}, {FirstBest - Lag}}
  /\ redisOpen = TRUE
  /\ paused = FALSE
  /\ closed = FALSE
  /\ lastBlockAdded = 0
  /\ feeder = "top" /\ held = NoTask
  /\ popper = "none" /\ popped = NoTask
  /\ working = NoTask
  /\ watcher = "recv" /\ wb = 0 /\ wi = 0
  /\ started = FALSE /\ skip = Lag /\ lastBlock = 0
  /\ inflight = [b \in Heights |-> 0]
  /\ best = FirstBest
  /\ hpc = [h \in Handlers |-> "idle"]
  /\ hop = [h \in Handlers |-> "toggle"]
  /\ budget = [what \in Bounded |-> CASE what = "announce" -> MaxAnnounce
                                      [] what = "request" -> MaxRequests
                                      [] what = "fault" -> MaxFaults
                                      [] what = "requeue" -> MaxRequeues]
  /\ covered = {} /\ from = MaxBlock + 1
  /\ stale = {} /\ pauser = "none"

Spend(what) ==
  /\ budget[what] > 0
  /\ budget' = [budget EXCEPT ![what] = @ - 1]

IsLowest(t, S) == t \in S /\ \A u \in S : t <= u

At(h, pc) == hpc[h] = pc
Goto(h, pc) == hpc' = [hpc EXCEPT ![h] = pc]

\* What a handler does once its call of Pause has returned.
AfterPause(op) ==
  CASE op = "reset" -> "del"
    [] op = "exit" -> "close"
    [] OTHER -> "idle"

-----------------------------------------------------------------------------
(* The tracker, as the watcher sees it: a header announces every height    *)
(* from the old best to the new one, or, when the node moved to another    *)
(* branch, every height from the header to the old best; each goes out on  *)
(* a goroutine of its own, so they can be received in any order.           *)

Announce(n) ==
  /\ Spend("announce")
  /\ best' = n
  /\ LET news == IF n <= best THEN n .. best ELSE best + 1 .. n
     IN inflight' = [b \in Heights |-> IF b \in news THEN inflight[b] + 1 ELSE inflight[b]]
  /\ UNCHANGED <<manager, feeding, watching, handling, history>>

-----------------------------------------------------------------------------
(* watchNewBlocks                                                          *)

WatcherReceive(b) ==
  /\ watcher = "recv"
  /\ inflight[b] > 0
  /\ inflight' = [inflight EXCEPT ![b] = @ - 1]
  /\ wb' = b
  /\ watcher' = IF ~started \/ ~BackfillEnabled \/ b - Lag <= lastBlockAdded
                THEN "rewind" ELSE "gate"
  /\ UNCHANGED <<manager, feeding, wi, started, skip, lastBlock, best, handling,
                 budget, history>>

\* Mutant: the rewind goes to the block itself instead of the one below it.
WatcherRewind_toTheBlock ==
  /\ watcher = "rewind"
  /\ started' = TRUE
  /\ lastBlockAdded' = wb - Lag
  /\ from' = IF started THEN from ELSE wb - Lag
  /\ watcher' = "gate"
  /\ UNCHANGED <<todo, redisOpen, paused, closed, feeding, wb, wi, skip, lastBlock,
                 tracking, handling, budget, covered, stale, pauser>>

WatcherRewind ==
  /\ watcher = "rewind"
  /\ started' = TRUE
  /\ lastBlockAdded' = wb - Lag - 1
  /\ from' = IF started THEN from ELSE wb - Lag
  /\ watcher' = "gate"
  /\ UNCHANGED <<todo, redisOpen, paused, closed, feeding, wb, wi, skip, lastBlock,
                 tracking, handling, budget, covered, stale, pauser>>

\* The first Lag distinct heights are postponed; a paused manager drops the block.
WatcherGate ==
  /\ watcher = "gate"
  /\ \/ /\ skip > 0
        /\ IF wb > lastBlock
           THEN lastBlock' = wb /\ skip' = skip - 1
           ELSE UNCHANGED <<lastBlock, skip>>
        /\ watcher' = "recv"
        /\ UNCHANGED wi
     \/ /\ skip = 0
        /\ watcher' = IF paused THEN "recv" ELSE "loop"
        /\ wi' = lastBlockAdded + 1
        /\ UNCHANGED <<lastBlock, skip>>
  /\ UNCHANGED <<manager, feeding, wb, started, tracking, handling, budget, history>>

\* m.Todo(i) succeeds; lastBlockAdded is written in the next step.
WatcherTodo ==
  /\ watcher = "loop" /\ wi <= wb - Lag
  /\ redisOpen
  /\ todo' = todo \cup {wi}
  /\ covered' = covered \cup {wi}
  /\ watcher' = "mark"
  /\ UNCHANGED <<redisOpen, paused, closed, lastBlockAdded, feeding, wb, wi, started,
                 skip, lastBlock, tracking, handling, budget, from, stale, pauser>>

WatcherMark ==
  /\ watcher = "mark"
  /\ lastBlockAdded' = wi
  /\ wi' = wi + 1
  /\ watcher' = "loop"
  /\ UNCHANGED <<todo, redisOpen, paused, closed, feeding, wb, started, skip, lastBlock,
                 tracking, handling, budget, history>>

\* m.Todo(i) fails: it is logged and the loop goes on with the next height.
WatcherTodoFails ==
  /\ watcher = "loop" /\ wi <= wb - Lag
  /\ IF redisOpen THEN Spend("fault") ELSE UNCHANGED budget
  /\ covered' = covered \cup {wi}
  /\ wi' = wi + 1
  /\ UNCHANGED <<manager, feeding, watcher, wb, started, skip, lastBlock, tracking,
                 handling, from, stale, pauser>>

WatcherDone ==
  /\ watcher = "loop" /\ wi > wb - Lag
  /\ watcher' = "recv"
  /\ UNCHANGED <<manager, feeding, wb, wi, started, skip, lastBlock, tracking, handling,
                 budget, history>>

-----------------------------------------------------------------------------
(* FeedToChan and its popper                                               *)

\* The top of the loop on a closed manager.
FeederSeesClosed ==
  /\ feeder = "top" /\ closed
  /\ feeder' = "done"
  /\ UNCHANGED <<manager, held, popper, popped, working, watching, tracking, handling,
                 budget, history>>

\* Mutant: the pause signal is also received where the pop's result is awaited.
FeederPauses_duringPop(h) ==
  /\ feeder \in {"top", "wait"} /\ ~closed
  /\ At(h, "signal")
  /\ feeder' = "pausing"
  /\ Goto(h, AfterPause(hop[h]))
  /\ pauser' = hop[h]
  /\ UNCHANGED <<manager, held, popper, popped, working, watching, tracking, hop,
                 budget, covered, from, stale>>

\* case <-m.pause
FeederPauses(h) ==
  /\ feeder = "top" /\ ~closed
  /\ At(h, "signal")
  /\ feeder' = "pausing"
  /\ Goto(h, AfterPause(hop[h]))
  /\ pauser' = hop[h]
  /\ UNCHANGED <<manager, held, popper, popped, working, watching, tracking, hop,
                 budget, covered, from, stale>>

FeederSetsPaused ==
  /\ feeder = "pausing"
  /\ paused' = TRUE
  /\ feeder' = "paused"
  /\ UNCHANGED <<todo, redisOpen, closed, lastBlockAdded, held, popper, popped, working,
                 watching, tracking, handling, budget, history>>

\* <-m.resume
FeederResumes(h) ==
  /\ feeder = "paused"
  /\ At(h, "resume")
  /\ feeder' = "resuming"
  /\ Goto(h, "idle")
  /\ stale' = stale \ {h}
  /\ UNCHANGED <<manager, held, popper, popped, working, watching, tracking, hop,
                 budget, covered, from, pauser>>

\* m.paused = false, and on to the pop of the same iteration.
FeederClearsPaused ==
  /\ feeder = "resuming"
  /\ paused' = FALSE
  /\ feeder' = "wait" /\ popper' = "popping"
  /\ stale' = stale \cup {h \in Handlers : At(h, "resume")}
  /\ UNCHANGED <<todo, redisOpen, closed, lastBlockAdded, held, popped, working,
                 watching, tracking, handling, budget, covered, from, pauser>>

\* default: nobody is sending a pause signal, start the popper.
FeederStartsPop ==
  /\ feeder = "top" /\ ~closed
  /\ \A h \in Handlers : ~At(h, "signal")
  /\ feeder' = "wait" /\ popper' = "popping"
  /\ UNCHANGED <<manager, held, popped, working, watching, tracking, handling, budget,
                 history>>

\* Mutant: the lowest member is read and not removed.
Pop_peeks ==
  /\ popper = "popping" /\ redisOpen
  /\ \E t \in todo : IsLowest(t, todo) /\ popped' = t
  /\ popper' = "have"
  /\ UNCHANGED <<manager, feeder, held, working, watching, tracking, handling, budget,
                 history>>

\* Mutant: BZPopMax.
Pop_highest ==
  /\ popper = "popping" /\ redisOpen
  /\ \E t \in todo :
       /\ \A u \in todo : u <= t
       /\ popped' = t
       /\ todo' = todo \ {t}
  /\ popper' = "have"
  /\ UNCHANGED <<redisOpen, paused, closed, lastBlockAdded, feeder, held, working,
                 watching, tracking, handling, budget, history>>

\* BZPopMin returns the member with the lowest score.
Pop ==
  /\ popper = "popping" /\ redisOpen
  /\ \E t \in todo :
       /\ IsLowest(t, todo)
       /\ popped' = t
       /\ todo' = todo \ {t}
  /\ popper' = "have"
  /\ UNCHANGED <<redisOpen, paused, closed, lastBlockAdded, feeder, held, working,
                 watching, tracking, handling, budget, history>>

\* BZPopMin returns an error: the connection broke before redis popped, or
\* between its pop and the reply; or the client is closed.
PopFails ==
  /\ popper = "popping"
  /\ IF redisOpen
     THEN /\ Spend("fault")
          /\ \/ UNCHANGED todo
             \/ \E t \in todo : IsLowest(t, todo) /\ todo' = todo \ {t}
     ELSE UNCHANGED <<budget, todo>>
  /\ popper' = IF closed THEN "none" ELSE "failed"
  /\ UNCHANGED <<redisOpen, paused, closed, lastBlockAdded, feeder, held, popped, working,
                 watching, tracking, handling, history>>

\* Mutant: the sentinel is not told from a block.
FeederGetsTask_sentinelIsTask ==
  /\ feeder = "wait"
  /\ \/ popper = "have" /\ feeder' = "send" /\ held' = popped
     \/ popper = "failed" /\ feeder' = "top" /\ UNCHANGED held
  /\ popper' = "none" /\ popped' = NoTask
  /\ UNCHANGED <<manager, working, watching, tracking, handling, budget, history>>

\* Mutant: the sentinel ends FeedToChan instead of the wait for the popper.
FeederGetsTask_returns ==
  /\ feeder = "wait"
  /\ \/ popper = "have" /\ popped = Sentinel /\ feeder' = "done" /\ UNCHANGED held
     \/ popper = "have" /\ popped # Sentinel /\ feeder' = "send" /\ held' = popped
     \/ popper = "failed" /\ feeder' = "top" /\ UNCHANGED held
  /\ popper' = "none" /\ popped' = NoTask
  /\ UNCHANGED <<manager, working, watching, tracking, handling, budget, history>>

\* res := <-doneChan
FeederGetsTask ==
  /\ feeder = "wait"
  /\ \/ popper = "have" /\ popped = Sentinel /\ feeder' = "nap" /\ UNCHANGED held
     \/ popper = "have" /\ popped # Sentinel /\ feeder' = "send" /\ held' = popped
     \/ popper = "failed" /\ feeder' = "top" /\ UNCHANGED held
  /\ popper' = "none" /\ popped' = NoTask
  /\ UNCHANGED <<manager, working, watching, tracking, handling, budget, history>>

\* The end of the 100ms sleep that lets Pause reach its send.
FeederWakes ==
  /\ feeder = "nap"
  /\ NapSuffices => \A h \in Handlers : ~At(h, "added")
  /\ feeder' = "top"
  /\ UNCHANGED <<manager, held, popper, popped, working, watching, tracking, handling,
                 budget, history>>

\* c <- taskInt, received by the loop in Core.Run
Deliver ==
  /\ feeder = "send" /\ working = NoTask
  /\ working' = held
  /\ held' = NoTask
  /\ feeder' = "top"
  /\ UNCHANGED <<manager, popper, popped, watching, tracking, handling, budget, history>>

\* case <-m.stopChan
FeederStops(h) ==
  /\ feeder = "wait"
  /\ At(h, "stop")
  /\ feeder' = "done"
  /\ Goto(h, "disconnect")
  /\ UNCHANGED <<manager, held, popper, popped, working, watching, tracking, hop,
                 budget, history>>

\* The consumer is done with its block, or failed and put it back.
ConsumerDone ==
  /\ working # NoTask
  /\ working' = NoTask
  /\ \/ UNCHANGED <<todo, budget>>
     \/ /\ redisOpen /\ Spend("requeue")
        /\ todo' = todo \cup {working}
  /\ UNCHANGED <<redisOpen, paused, closed, lastBlockAdded, feeder, held, popper, popped,
                 watching, tracking, handling, history>>

-----------------------------------------------------------------------------
(* The dashboard's handlers, ExitDelayed and the signal handler            *)

Request(h, op) ==
  /\ At(h, "idle") /\ op \in Ops \ {"todo"}
  /\ op \in {"exit", "stop"} => ~closed
  /\ Spend("request")
  /\ hop' = [hop EXCEPT ![h] = op]
  /\ Goto(h, CASE op = "toggle" -> "toggle"
               [] op = "stop" -> "close"
               [] OTHER -> "pause")
  /\ UNCHANGED <<manager, feeding, watching, tracking, history>>

\* AddTodo from the queue page.
QueueBlock(b) ==
  /\ "todo" \in Ops /\ redisOpen
  /\ Spend("request")
  /\ todo' = todo \cup {b}
  /\ UNCHANGED <<redisOpen, paused, closed, lastBlockAdded, feeding, watching, tracking,
                 handling, history>>

\* PausePostHandler: IsPaused decides between Resume and Pause.
Toggle(h) ==
  /\ At(h, "toggle")
  /\ Goto(h, IF paused THEN "resuming" ELSE "pause")
  /\ UNCHANGED <<manager, feeding, watching, tracking, hop, budget, history>>

\* Resume: the check of m.paused; the handler then blocks in m.resume <- true.
Resume(h) ==
  /\ At(h, "resuming")
  /\ Goto(h, IF paused THEN "resume" ELSE "idle")
  /\ UNCHANGED <<manager, feeding, watching, tracking, hop, budget, history>>

\* Mutant: Pause does not wake the popper up.
Pause_noSentinel(h) ==
  /\ At(h, "pause")
  /\ \/ /\ paused
        /\ Goto(h, AfterPause(hop[h]))
     \/ /\ ~paused /\ redisOpen
        /\ Goto(h, "added")
  /\ UNCHANGED <<manager, feeding, watching, tracking, hop, budget, history>>

\* Pause: the check of m.paused and the ZADD of the sentinel.
Pause(h) ==
  /\ At(h, "pause")
  /\ \/ /\ paused
        /\ Goto(h, AfterPause(hop[h]))
        /\ UNCHANGED <<todo, budget>>
     \/ /\ ~paused /\ redisOpen
        /\ todo' = todo \cup {Sentinel}
        /\ Goto(h, "added")
        /\ UNCHANGED budget
     \/ /\ ~paused
        /\ IF redisOpen THEN Spend("fault") ELSE UNCHANGED budget
        /\ Goto(h, AfterPause(hop[h]))
        /\ UNCHANGED todo
  /\ UNCHANGED <<redisOpen, paused, closed, lastBlockAdded, feeding, watching, tracking,
                 hop, history>>

\* The reply of the ZADD arrives; the handler blocks in m.pause <- true.
PauseSignals(h) ==
  /\ At(h, "added")
  /\ Goto(h, "signal")
  /\ UNCHANGED <<manager, feeding, watching, tracking, hop, budget, history>>

\* Reset: DEL of the list ...
ResetDel(h) ==
  /\ At(h, "del")
  /\ \/ /\ redisOpen
        /\ todo' = {}
        /\ covered' = {} /\ from' = MaxBlock + 1
        /\ Goto(h, "setlast")
        /\ UNCHANGED budget
     \/ /\ IF redisOpen THEN Spend("fault") ELSE UNCHANGED budget
        /\ Goto(h, "idle")
        /\ UNCHANGED <<todo, covered, from>>
  /\ UNCHANGED <<redisOpen, paused, closed, lastBlockAdded, feeding, watching, tracking,
                 hop, stale, pauser>>

\* ... then m.lastBlockAdded = -1, with no lock against watchNewBlocks.
ResetSetLast(h) ==
  /\ At(h, "setlast")
  /\ lastBlockAdded' = -1
  /\ from' = 0
  /\ Goto(h, "idle")
  /\ UNCHANGED <<todo, redisOpen, paused, closed, feeding, watching, tracking, hop,
                 budget, covered, stale, pauser>>

\* Close: m.closed, then the stop signal unless the manager is paused.
\* ExitDelayed has slept for two seconds since its Pause.
Close(h) ==
  /\ At(h, "close")
  /\ (NapSuffices /\ hop[h] = "exit") => feeder # "pausing"
  /\ closed' = TRUE
  /\ Goto(h, IF paused THEN "disconnect" ELSE "stop")
  /\ UNCHANGED <<todo, redisOpen, paused, lastBlockAdded, feeding, watching, tracking,
                 hop, budget, history>>

\* m.redis.Close()
Disconnect(h) ==
  /\ At(h, "disconnect")
  /\ redisOpen' = FALSE
  /\ Goto(h, "idle")
  /\ UNCHANGED <<todo, paused, closed, lastBlockAdded, feeding, watching, tracking, hop,
                 budget, history>>

-----------------------------------------------------------------------------

Watcher ==
  \/ \E b \in Heights : WatcherReceive(b)
  \/ WatcherRewind
  \/ WatcherGate
  \/ WatcherTodo
  \/ WatcherMark
  \/ WatcherTodoFails
  \/ WatcherDone

Feeder ==
  \/ FeederSeesClosed
  \/ \E h \in Handlers : FeederPauses(h)
  \/ FeederSetsPaused
  \/ \E h \in Handlers : FeederResumes(h)
  \/ FeederClearsPaused
  \/ FeederStartsPop
  \/ FeederGetsTask
  \/ FeederWakes
  \/ Deliver
  \/ \E h \in Handlers : FeederStops(h)

Popper == Pop \/ PopFails

Handler(h) ==
  \/ Toggle(h)
  \/ Resume(h)
  \/ Pause(h)
  \/ PauseSignals(h)
  \/ ResetDel(h)
  \/ ResetSetLast(h)
  \/ Close(h)
  \/ Disconnect(h)

Next ==
  \/ \E n \in FirstBest .. MaxBlock : Announce(n)
  \/ Watcher
  \/ Feeder
  \/ Popper
  \/ ConsumerDone
  \/ \E h \in Handlers, op \in Ops : Request(h, op)
  \/ \E b \in Heights : QueueBlock(b)
  \/ \E h \in Handlers : Handler(h)

Spec == Init /\ [][Next]_vars

\* The Go scheduler runs every goroutine that can run, redis answers, and the
\* consumer finishes its block.  Nothing obliges the node to announce a block or
\* an operator to make a request.
Fairness ==
  /\ WF_vars(Watcher)
  /\ WF_vars(Feeder)
  /\ WF_vars(Popper)
  /\ WF_vars(ConsumerDone)
  /\ \A h \in Handlers : WF_vars(Handler(h))

FairSpec == Spec /\ Fairness

-----------------------------------------------------------------------------
(* Properties                                                              *)

Task == Heights \cup {NoTask}

TypeOK ==
  /\ todo \subseteq Heights \cup {Sentinel}
  /\ redisOpen \in BOOLEAN /\ paused \in BOOLEAN
  /\ closed \in BOOLEAN /\ started \in BOOLEAN
  /\ lastBlockAdded \in -1 .. MaxBlock
  /\ feeder \in FeederPC /\ held \in Task
  /\ popper \in PopperPC /\ popped \in Task \cup {Sentinel}
  /\ working \in Task
  /\ watcher \in WatcherPC
  /\ wb \in Heights /\ wi \in 0 .. MaxBlock + 1
  /\ skip \in 0 .. Lag /\ lastBlock \in Heights
  /\ inflight \in [Heights -> Nat]
  /\ best \in Heights
  /\ hpc \in [Handlers -> HandlerPC] /\ hop \in [Handlers -> AllOps]
  /\ budget \in [Bounded -> Nat]
  /\ covered \subseteq Heights /\ from \in 0 .. MaxBlock + 1
  /\ stale \subseteq Handlers /\ pauser \in AllOps \cup {"none"}

\* The task between redis and the consumer: popped, or held by FeedToChan.
OnTheWay == IF popped \in Heights THEN popped ELSE held

\* FeedToChan is between receiving a pause signal and clearing m.paused.
Gate == IF feeder \in {"pausing", "paused", "resuming"} THEN "shut" ELSE "open"

(* The manager implements the abstract queue: whatever the interleaving of *)
(* feeder, popper, watcher and handlers, a queued task leaves redis only   *)
(* for the single place on the way to the consumer (or in a broken reply), *)
(* reaches the consumer from there, is never dropped, doubled or overtaken *)
(* by one queued above it, and nothing moves between Pause and Resume.     *)
Queue == INSTANCE TaskQueue WITH
  pending <- todo \ {Sentinel}, slot <- OnTheWay, gate <- Gate

ImplementsQueue == Queue!Spec

\* With no close the abstract queue's fairness is implemented as well: the
\* sentinel, the pauses and the failing pops never keep a task in the queue.
ImplementsFairQueue == Queue!FairSpec

(* IsPaused never answers true while a task is being popped or handed     *)
(* over: a dashboard that shows "Paused", and an ExitDelayed that skips    *)
(* the stop signal because of it, can count on FeedToChan standing still.  *)
PausedHoldsNothing ==
  paused => popper = "none" /\ popped = NoTask /\ held = NoTask

(* With backfill on, watchNewBlocks leaves no height behind lastBlockAdded *)
(* that it has not queued (or tried to): however the announcements are     *)
(* reordered, repeated by a reorg, postponed by the lag or dropped by a    *)
(* pause, every height since the first is covered.                         *)
WatcherLeavesNoGap ==
  BackfillEnabled => from .. lastBlockAdded \subseteq covered

(* The comment in Reset and the dashboard's reset page: with backfill on,  *)
(* a Reset makes a watcher that is already running queue the whole chain.  *)
ResetBackfillsChain ==
  (BackfillEnabled /\ from = 0) => 0 .. lastBlockAdded \subseteq covered

(* The reset page: the service is paused by a Reset and "you have to       *)
(* manually resume it": no Resume that was called during an earlier pause  *)
(* ends the pause of a Reset.                                              *)
ResetStaysPaused ==
  [][\A h \in Handlers :
       (At(h, "resume") /\ hpc'[h] = "idle" /\ pauser = "reset") => h \notin stale]_vars

(* A process that exits through ExitDelayed (its Pause reached redis) has  *)
(* no task on the way when the redis client is closed: none is lost.       *)
ExitDelayedLosesNothing ==
  (~redisOpen /\ pauser = "exit") => OnTheWay = NoTask

(* A Pause that is waiting for FeedToChan takes effect: it is received, or *)
(* the manager is paused already (the signal of a second Pause, called     *)
(* before m.paused was set, stays pending behind the first).               *)
PauseTakesEffect ==
  \A h \in Handlers : At(h, "signal") ~> (paused \/ ~At(h, "signal"))

(* Whatever is queued reaches the consumer, unless the manager ends up     *)
(* paused or closed.                                                       *)
Drains ==
  <>[]paused \/ <>[]closed \/ <>[](todo = {} /\ OnTheWay = NoTask /\ working = NoTask)
==============================================================================
