--------------------------- MODULE TaskManagerProofs ---------------------------
(* Theorems about TaskManager, for every value of its constants: whatever the *)
(* heights, the lag, the handlers and their requests, and however many        *)
(* commands fail.                                                             *)
EXTENDS TaskManager, TLAPS

(* What is announced is never below the first best block, so that the        *)
(* watcher's arithmetic stays within the chain.                              *)
HeadersInv ==
  /\ best >= FirstBest
  /\ \A b \in Heights : inflight[b] > 0 => b >= FirstBest
  /\ watcher # "recv" => wb >= FirstBest
  /\ watcher = "mark" => wi <= MaxBlock

(* Where FeedToChan is says what it and its popper hold.                     *)
FeedInv ==
  /\ popper # "none" => feeder \in {"wait", "done"}
  /\ popper # "have" => popped = NoTask
  /\ feeder # "send" => held = NoTask
  /\ paused => feeder \in {"paused", "resuming"}

IInv == TypeOK /\ HeadersInv /\ FeedInv

LEMMA InitIInv == Init => IInv
<1> SUFFICES ASSUME Init PROVE IInv
  OBVIOUS
<1> USE ManagerAssumption DEF Init, Heights, NoTask, Sentinel, Task
<1>1. budget \in [Bounded -> Nat]
  BY DEF Bounded
<1>2. hpc \in [Handlers -> HandlerPC] /\ hop \in [Handlers -> AllOps]
  BY DEF HandlerPC, AllOps
<1>3. /\ feeder \in FeederPC /\ held \in Task
      /\ popper \in PopperPC /\ popped \in Task \cup {Sentinel}
      /\ watcher \in WatcherPC
  BY DEF FeederPC, PopperPC, WatcherPC
<1>4. todo \subseteq Heights \cup {Sentinel} /\ lastBlockAdded \in -1 .. MaxBlock
  OBVIOUS
<1>5. /\ wb \in Heights /\ wi \in 0 .. MaxBlock + 1
      /\ skip \in 0 .. Lag /\ lastBlock \in Heights
  OBVIOUS
<1>6. inflight \in [Heights -> Nat] /\ best \in Heights
  OBVIOUS
<1>8. covered \subseteq Heights /\ from \in 0 .. MaxBlock + 1
  OBVIOUS
<1>9. TypeOK
  BY <1>1, <1>2, <1>3, <1>4, <1>5, <1>6, <1>8 DEF TypeOK
<1>7. HeadersInv /\ FeedInv
  BY DEF HeadersInv, FeedInv
<1> QED
  BY <1>7, <1>9 DEF IInv

LEMMA SpendType ==
  ASSUME budget \in [Bounded -> Nat], NEW what \in Bounded, Spend(what)
  PROVE  budget' \in [Bounded -> Nat]
BY DEF Spend

LEMMA AnnounceIInv ==
  ASSUME IInv, NEW n \in FirstBest .. MaxBlock, Announce(n)
  PROVE  IInv'
<1> USE ManagerAssumption DEF IInv, Heights, manager, feeding, watching, handling, history
<1> DEFINE news == IF n <= best THEN n .. best ELSE best + 1 .. n
<1>1. \A b \in news : b \in Heights /\ b >= FirstBest
  BY DEF TypeOK, HeadersInv
<1>2. HeadersInv'
  BY <1>1 DEF Announce, TypeOK, HeadersInv
<1>3. TypeOK'
  <2>1. budget' \in [Bounded -> Nat]
    BY SpendType DEF Announce, TypeOK, Bounded
  <2>2. inflight' \in [Heights -> Nat] /\ best' \in Heights
    BY DEF Announce, TypeOK
  <2> QED
    BY <2>1, <2>2 DEF Announce, TypeOK, Task
<1>4. FeedInv'
  BY DEF Announce, FeedInv
<1> QED
  BY <1>2, <1>3, <1>4

LEMMA WatcherIInv == IInv /\ Watcher => IInv'
<1> SUFFICES ASSUME IInv, Watcher PROVE IInv'
  OBVIOUS
<1> USE ManagerAssumption DEF IInv, TypeOK, HeadersInv, FeedInv, Heights, NoTask, Sentinel,
     Task, WatcherPC, manager, feeding, tracking, handling, history
<1>1. ASSUME NEW b \in Heights, WatcherReceive(b) PROVE IInv'
  BY <1>1 DEF WatcherReceive
<1>2. CASE WatcherRewind
  BY <1>2 DEF WatcherRewind
<1>3. CASE WatcherGate
  <2>1. HeadersInv'
    BY <1>3 DEF WatcherGate
  <2>2. TypeOK'
    <3>1. skip' \in 0 .. Lag
      BY <1>3 DEF WatcherGate
    <3>2. lastBlock' \in Heights
      BY <1>3 DEF WatcherGate
    <3>3. watcher' \in WatcherPC /\ wi' \in 0 .. MaxBlock + 1
      BY <1>3 DEF WatcherGate
    <3> QED
      BY <1>3, <3>1, <3>2, <3>3 DEF WatcherGate
  <2>3. FeedInv'
    BY <1>3 DEF WatcherGate
  <2> QED
    BY <2>1, <2>2, <2>3
<1>4. CASE WatcherTodo
  BY <1>4 DEF WatcherTodo
<1>5. CASE WatcherMark
  BY <1>5 DEF WatcherMark
<1>6. CASE WatcherTodoFails
  BY <1>6 DEF WatcherTodoFails, Spend, Bounded
<1>7. CASE WatcherDone
  BY <1>7 DEF WatcherDone
<1> QED
  BY <1>1, <1>2, <1>3, <1>4, <1>5, <1>6, <1>7 DEF Watcher

LEMMA FeederIInv == IInv /\ Feeder => IInv'
<1> SUFFICES ASSUME IInv, Feeder PROVE IInv'
  OBVIOUS
<1> USE ManagerAssumption DEF IInv, TypeOK, HeadersInv, FeedInv, Heights, NoTask, Sentinel,
     Task, FeederPC, PopperPC, manager, watching, tracking, handling, history
<1>1. CASE FeederSeesClosed
  BY <1>1 DEF FeederSeesClosed
<1>2. ASSUME NEW h \in Handlers, FeederPauses(h) PROVE IInv'
  BY <1>2 DEF FeederPauses, Goto, At, AfterPause, HandlerPC, AllOps
<1>3. CASE FeederSetsPaused
  BY <1>3 DEF FeederSetsPaused
<1>4. ASSUME NEW h \in Handlers, FeederResumes(h) PROVE IInv'
  BY <1>4 DEF FeederResumes, Goto, At, HandlerPC
<1>5. CASE FeederClearsPaused
  BY <1>5 DEF FeederClearsPaused
<1>6. CASE FeederStartsPop
  BY <1>6 DEF FeederStartsPop
<1>7. CASE FeederGetsTask
  BY <1>7 DEF FeederGetsTask
<1>8. CASE FeederWakes
  BY <1>8 DEF FeederWakes
<1>9. CASE Deliver
  BY <1>9 DEF Deliver
<1>10. ASSUME NEW h \in Handlers, FeederStops(h) PROVE IInv'
  BY <1>10 DEF FeederStops, Goto, At, HandlerPC
<1> QED
  BY <1>1, <1>2, <1>3, <1>4, <1>5, <1>6, <1>7, <1>8, <1>9, <1>10 DEF Feeder

LEMMA PopperIInv == IInv /\ Popper => IInv'
<1> SUFFICES ASSUME IInv, Popper PROVE IInv'
  OBVIOUS
<1> USE ManagerAssumption DEF IInv, TypeOK, HeadersInv, FeedInv, Heights, NoTask, Sentinel,
     Task, FeederPC, PopperPC, watching, tracking, handling, history
<1>1. CASE Pop
  BY <1>1 DEF Pop
<1>2. CASE PopFails
  <2>1. budget' \in [Bounded -> Nat]
    BY <1>2, SpendType DEF PopFails, Bounded
  <2>2. todo' \subseteq Heights \cup {Sentinel}
    BY <1>2 DEF PopFails
  <2> QED
    BY <1>2, <2>1, <2>2 DEF PopFails
<1> QED
  BY <1>1, <1>2 DEF Popper

LEMMA ConsumerIInv == IInv /\ ConsumerDone => IInv'
<1> SUFFICES ASSUME IInv, ConsumerDone PROVE IInv'
  OBVIOUS
<1> USE ManagerAssumption DEF IInv, TypeOK, HeadersInv, FeedInv, Heights, NoTask, Sentinel,
     Task, watching, tracking, handling, history
<1>1. budget' \in [Bounded -> Nat]
  BY SpendType DEF ConsumerDone, Bounded
<1>2. todo' \subseteq Heights \cup {Sentinel}
  BY DEF ConsumerDone
<1> QED
  BY <1>1, <1>2 DEF ConsumerDone

LEMMA RequestIInv ==
  ASSUME IInv, NEW h \in Handlers, NEW op \in Ops, Request(h, op)
  PROVE  IInv'
<1> USE ManagerAssumption DEF IInv, TypeOK, HeadersInv, FeedInv, Heights, NoTask, Sentinel,
     Task, manager, feeding, watching, tracking, history
<1>1. budget' \in [Bounded -> Nat]
  BY SpendType DEF Request, Bounded
<1>2. hpc' \in [Handlers -> HandlerPC] /\ hop' \in [Handlers -> AllOps]
  BY DEF Request, Goto, HandlerPC
<1> QED
  BY <1>1, <1>2 DEF Request

LEMMA QueueBlockIInv ==
  ASSUME IInv, NEW b \in Heights, QueueBlock(b)
  PROVE  IInv'
<1> USE ManagerAssumption DEF IInv, TypeOK, HeadersInv, FeedInv, Heights, NoTask, Sentinel,
     Task, feeding, watching, tracking, handling, history
<1>1. budget' \in [Bounded -> Nat]
  BY SpendType DEF QueueBlock, Bounded
<1> QED
  BY <1>1 DEF QueueBlock

LEMMA HandlerIInv ==
  ASSUME IInv, NEW h \in Handlers, Handler(h)
  PROVE  IInv'
<1> USE ManagerAssumption DEF IInv, TypeOK, HeadersInv, FeedInv, Heights, NoTask, Sentinel,
     Task, manager, feeding, watching, tracking, history
<1>b. budget' \in [Bounded -> Nat]
  BY SpendType DEF Handler, Toggle, Resume, Pause, PauseSignals, ResetDel, ResetSetLast,
     Close, Disconnect, Bounded
<1>h. hpc' \in [Handlers -> HandlerPC]
  BY DEF Handler, Toggle, Resume, Pause, PauseSignals, ResetDel, ResetSetLast, Close,
     Disconnect, Goto, AfterPause, HandlerPC, AllOps
<1>1. CASE Toggle(h)
  BY <1>b, <1>h, <1>1 DEF Toggle
<1>2. CASE Resume(h)
  BY <1>b, <1>h, <1>2 DEF Resume
<1>3. CASE Pause(h)
  BY <1>b, <1>h, <1>3 DEF Pause
<1>4. CASE PauseSignals(h)
  BY <1>b, <1>h, <1>4 DEF PauseSignals
<1>5. CASE ResetDel(h)
  <2>1. todo' \subseteq Heights \cup {Sentinel}
    BY <1>5 DEF ResetDel
  <2>2. covered' \subseteq Heights
    BY <1>5 DEF ResetDel
  <2>3. from' \in 0 .. MaxBlock + 1
    <3>1. CASE from' = from
      BY <3>1
    <3>2. CASE from' = MaxBlock + 1
      BY <3>2
    <3> QED
      BY <1>5, <3>1, <3>2 DEF ResetDel
  <2> QED
    BY <1>b, <1>h, <1>5, <2>1, <2>2, <2>3 DEF ResetDel
<1>6. CASE ResetSetLast(h)
  BY <1>b, <1>h, <1>6 DEF ResetSetLast
<1>7. CASE Close(h)
  BY <1>b, <1>h, <1>7 DEF Close
<1>8. CASE Disconnect(h)
  BY <1>b, <1>h, <1>8 DEF Disconnect
<1> QED
  BY <1>1, <1>2, <1>3, <1>4, <1>5, <1>6, <1>7, <1>8 DEF Handler

LEMMA NextIInv == IInv /\ [Next]_vars => IInv'
<1> SUFFICES ASSUME IInv, [Next]_vars PROVE IInv'
  OBVIOUS
<1>1. CASE UNCHANGED vars
  BY <1>1 DEF IInv, TypeOK, HeadersInv, FeedInv, vars, manager, feeding, watching, tracking,
     handling, history, Task
<1>2. CASE Next
  BY <1>2, AnnounceIInv, WatcherIInv, FeederIInv, PopperIInv, ConsumerIInv, RequestIInv,
     QueueBlockIInv, HandlerIInv DEF Next
<1> QED
  BY <1>1, <1>2

THEOREM Invariance == Spec => []IInv
BY InitIInv, NextIInv, PTL DEF Spec

(* Every variable keeps its type; in particular the watcher never asks redis *)
(* for a height below zero or above the highest announced one.               *)
THEOREM TypeCorrect == Spec => []TypeOK
BY Invariance, PTL DEF IInv

(* m.paused is only true while FeedToChan stands in its pause select, with   *)
(* nothing popped and nothing to hand over.                                  *)
THEOREM PauseIsQuiet == Spec => []PausedHoldsNothing
<1>1. IInv => PausedHoldsNothing
  BY DEF IInv, FeedInv, PausedHoldsNothing
<1> QED
  BY <1>1, Invariance, PTL

-----------------------------------------------------------------------------
(* The watcher leaves no gap, as long as no Reset empties the list under it.  *)

(* What the loop of watchNewBlocks has done so far.  A block that makes it    *)
(* rewind lies at or below the last one added, unless it is the very first.   *)
CoveredTo(top) == \A n \in Int : (from <= n /\ n <= top) => n \in covered

GapInv ==
  /\ CoveredTo(lastBlockAdded)
  /\ watcher = "loop" => CoveredTo(wi - 1)
  /\ watcher = "mark" => CoveredTo(wi)
  /\ watcher = "rewind" => ~started \/ wb - Lag <= lastBlockAdded

(* Nobody resets.                                                            *)
QuietInv == \A h \in Handlers : hop[h] # "reset" /\ hpc[h] \notin {"del", "setlast"}

LEMMA GapStep ==
  ASSUME BackfillEnabled, "reset" \notin Ops, IInv, GapInv, QuietInv, [Next]_vars
  PROVE  GapInv' /\ QuietInv'
<1>t. /\ lastBlockAdded \in Int /\ wi \in Int /\ wb \in Int /\ from \in Int
  BY ManagerAssumption DEF IInv, TypeOK, Heights
<1>l. Lag \in Int
  BY ManagerAssumption
<1>1. ASSUME UNCHANGED <<lastBlockAdded, watcher, wi, wb, started, covered, from>>
      PROVE  GapInv'
  BY <1>1 DEF GapInv, CoveredTo
<1>2. ASSUME UNCHANGED handling PROVE QuietInv'
  BY <1>2 DEF QuietInv, handling
<1>3. CASE Watcher
  <2> USE <1>t, <1>l DEF GapInv, CoveredTo, manager
  <2>1. ASSUME NEW b \in Heights, WatcherReceive(b) PROVE GapInv'
    BY <2>1 DEF WatcherReceive, history
  <2>2. ASSUME WatcherRewind PROVE GapInv'
    <3>1. lastBlockAdded' = wb - Lag - 1
      BY <2>2 DEF WatcherRewind
    <3>2. CASE started
      BY <2>2, <3>1, <3>2 DEF WatcherRewind
    <3>3. CASE ~started
      BY <2>2, <3>1, <3>3 DEF WatcherRewind
    <3> QED
      BY <3>2, <3>3
  <2>3. ASSUME WatcherGate PROVE GapInv'
    BY <2>3 DEF WatcherGate, history
  <2>4. ASSUME WatcherTodo PROVE GapInv'
    BY <2>4 DEF WatcherTodo
  <2>5. ASSUME WatcherMark PROVE GapInv'
    BY <2>5 DEF WatcherMark, history
  <2>6. ASSUME WatcherTodoFails PROVE GapInv'
    BY <2>6 DEF WatcherTodoFails
  <2>7. ASSUME WatcherDone PROVE GapInv'
    BY <2>7 DEF WatcherDone, history
  <2>8. UNCHANGED handling
    BY <1>3 DEF Watcher, WatcherReceive, WatcherRewind, WatcherGate, WatcherTodo, WatcherMark,
       WatcherTodoFails, WatcherDone
  <2> QED
    BY <1>2, <1>3, <2>1, <2>2, <2>3, <2>4, <2>5, <2>6, <2>7, <2>8 DEF Watcher
<1>4. CASE Feeder
  <2>1. GapInv'
    BY <1>1, <1>4 DEF Feeder, FeederSeesClosed, FeederPauses, FeederSetsPaused, FeederResumes,
       FeederClearsPaused, FeederStartsPop, FeederGetsTask, FeederWakes, Deliver, FeederStops,
       manager, watching, history
  <2>2. ASSUME NEW h \in Handlers, FeederPauses(h) PROVE QuietInv'
    BY <2>2 DEF FeederPauses, Goto, AfterPause, QuietInv, IInv, TypeOK, AllOps
  <2>3. ASSUME NEW h \in Handlers, FeederResumes(h) \/ FeederStops(h) PROVE QuietInv'
    BY <2>3 DEF FeederResumes, FeederStops, Goto, QuietInv, IInv, TypeOK
  <2> QED
    BY <1>2, <1>4, <2>1, <2>2, <2>3 DEF Feeder, FeederSeesClosed, FeederSetsPaused,
       FeederClearsPaused, FeederStartsPop, FeederGetsTask, FeederWakes, Deliver
<1>5. CASE Popper \/ ConsumerDone
  BY <1>1, <1>2, <1>5 DEF Popper, Pop, PopFails, ConsumerDone, watching, history
<1>6. ASSUME NEW h \in Handlers, NEW op \in Ops, Request(h, op) PROVE GapInv' /\ QuietInv'
  <2>1. QuietInv'
    BY <1>6 DEF Request, Goto, QuietInv, IInv, TypeOK
  <2> QED
    BY <1>1, <1>6, <2>1 DEF Request, manager, watching, history
<1>7. ASSUME NEW h \in Handlers, Handler(h) PROVE GapInv' /\ QuietInv'
  <2>1. ~ResetDel(h) /\ ~ResetSetLast(h)
    BY DEF ResetDel, ResetSetLast, At, QuietInv
  <2>2. GapInv'
    BY <1>1, <1>7, <2>1 DEF Handler, Toggle, Resume, Pause, PauseSignals, Close, Disconnect,
       manager, watching, history
  <2>3. QuietInv'
    BY <1>7, <2>1 DEF Handler, Toggle, Resume, Pause, PauseSignals, Close, Disconnect, Goto,
       AfterPause, QuietInv, IInv, TypeOK, AllOps
  <2> QED
    BY <2>2, <2>3
<1>8. ASSUME \/ \E n \in FirstBest .. MaxBlock : Announce(n)
             \/ \E b \in Heights : QueueBlock(b)
             \/ UNCHANGED vars
      PROVE  GapInv' /\ QuietInv'
  BY <1>1, <1>2, <1>8 DEF Announce, QueueBlock, vars, manager, watching, history
<1> QED
  BY <1>3, <1>4, <1>5, <1>6, <1>7, <1>8 DEF Next

(* With backfill on and no Reset, whatever the order in which announced       *)
(* blocks arrive and whatever a pause drops, every height between the first   *)
(* block and m.lastBlockAdded has been given to redis.                        *)
THEOREM NoGap ==
  ASSUME "reset" \notin Ops
  PROVE  Spec => []WatcherLeavesNoGap
<1>1. CASE BackfillEnabled
  <2>1. Init => GapInv /\ QuietInv
    BY ManagerAssumption DEF Init, GapInv, CoveredTo, QuietInv
  <2>2. IInv /\ (GapInv /\ QuietInv) /\ [Next]_vars => (GapInv /\ QuietInv)'
    BY <1>1, GapStep
  <2>3. GapInv => WatcherLeavesNoGap
    BY DEF GapInv, CoveredTo, WatcherLeavesNoGap
  <2> QED
    BY <2>1, <2>2, <2>3, Invariance, PTL DEF Spec
<1>2. CASE ~BackfillEnabled
  <2>1. WatcherLeavesNoGap
    BY <1>2 DEF WatcherLeavesNoGap
  <2> QED
    BY <2>1, PTL
<1> QED
  BY <1>1, <1>2

-----------------------------------------------------------------------------
(* A process that exits loses no task.                                        *)

(* The client is only closed behind m.closed, and nobody resumes who is not   *)
(* asked to.                                                                  *)
ClosingInv ==
  /\ ~redisOpen => closed
  /\ \A h \in Handlers : hpc[h] \in {"stop", "disconnect"} => closed
  /\ "toggle" \notin Ops => \A h \in Handlers : hpc[h] \notin {"toggle", "resuming", "resume"}

(* From the pause of ExitDelayed to the close of the client FeedToChan stands *)
(* still, and after it there is nothing to pop.                               *)
ExitInv ==
  pauser = "exit" =>
    IF redisOpen
    THEN /\ feeder \in {"pausing", "paused"}
         /\ "toggle" \in Ops => \A h \in Handlers : hpc[h] \in {"close", "stop", "disconnect"}
    ELSE popper # "have" /\ held = NoTask

ByOne == "toggle" \notin Ops \/ \E h : Handlers = {h}

LEMMA ExitStep == ByOne /\ IInv /\ ClosingInv /\ ExitInv /\ [Next]_vars => ClosingInv' /\ ExitInv'
<1> SUFFICES ASSUME ByOne, IInv, ClosingInv, ExitInv, [Next]_vars
             PROVE  ClosingInv' /\ ExitInv'
  OBVIOUS
<1>t. hpc \in [Handlers -> HandlerPC] /\ hop \in [Handlers -> AllOps]
  BY DEF IInv, TypeOK
<1>1. ASSUME UNCHANGED <<redisOpen, closed, hpc, feeder, popper, held, pauser>>
      PROVE  ClosingInv' /\ ExitInv'
  BY <1>1 DEF ClosingInv, ExitInv
<1>2. CASE Feeder
  <2>1. ASSUME NEW h \in Handlers, FeederPauses(h) PROVE ClosingInv' /\ ExitInv'
    <3>1. hpc' = [hpc EXCEPT ![h] = AfterPause(hop[h])] /\ UNCHANGED <<redisOpen, closed>>
      BY <2>1 DEF FeederPauses, Goto, manager
    <3>2. /\ AfterPause(hop[h]) \in {"del", "close", "idle"}
          /\ hop[h] = "exit" => AfterPause(hop[h]) = "close"
      BY <1>t DEF AfterPause, AllOps
    <3>3. ClosingInv'
      BY <1>t, <3>1, <3>2 DEF ClosingInv
    <3>4. pauser' = "exit" /\ "toggle" \in Ops =>
            \A g \in Handlers : hpc'[g] \in {"close", "stop", "disconnect"}
      BY <1>t, <2>1, <3>1, <3>2 DEF FeederPauses, ByOne
    <3>5. redisOpen /\ feeder' = "pausing"
      BY <2>1 DEF FeederPauses, ClosingInv
    <3> QED
      BY <3>1, <3>3, <3>4, <3>5 DEF ExitInv
  <2>2. ASSUME NEW h \in Handlers, FeederResumes(h) PROVE ClosingInv' /\ ExitInv'
    BY <1>t, <2>2 DEF FeederResumes, At, Goto, manager, ClosingInv, ExitInv
  <2>3. ASSUME NEW h \in Handlers, FeederStops(h) PROVE ClosingInv' /\ ExitInv'
    BY <1>t, <2>3 DEF FeederStops, At, Goto, manager, history, ClosingInv, ExitInv
  <2>4. CASE FeederSetsPaused \/ FeederClearsPaused \/ FeederGetsTask \/ FeederWakes
    BY <2>4 DEF FeederSetsPaused, FeederClearsPaused, FeederGetsTask, FeederWakes, ClosingInv,
       ExitInv, manager, handling, history
  <2>5. CASE FeederSeesClosed \/ FeederStartsPop \/ Deliver
    BY <2>5 DEF FeederSeesClosed, FeederStartsPop, Deliver, ClosingInv, ExitInv, manager,
       handling, history
  <2> QED
    BY <1>2, <2>1, <2>2, <2>3, <2>4, <2>5 DEF Feeder
<1>3. CASE Popper
  BY <1>3 DEF Popper, Pop, PopFails, ClosingInv, ExitInv, handling, history, IInv, FeedInv
<1>4. ASSUME NEW h \in Handlers, NEW op \in Ops, Request(h, op) PROVE ClosingInv' /\ ExitInv'
  BY <1>t, <1>4 DEF Request, At, Goto, manager, feeding, history, ClosingInv, ExitInv
<1>5. ASSUME NEW h \in Handlers, Handler(h) PROVE ClosingInv' /\ ExitInv'
  <2>1. CASE Toggle(h)
    BY <1>t, <2>1 DEF Toggle, At, Goto, manager, feeding, history, ClosingInv, ExitInv
  <2>2. CASE Resume(h)
    BY <1>t, <2>2 DEF Resume, At, Goto, manager, feeding, history, ClosingInv, ExitInv
  <2>3. CASE Pause(h)
    <3>1. /\ At(h, "pause") /\ hpc' \in {[hpc EXCEPT ![h] = "added"],
                                        [hpc EXCEPT ![h] = AfterPause(hop[h])]}
          /\ AfterPause(hop[h]) \in {"del", "close", "idle"}
          /\ UNCHANGED <<redisOpen, closed, feeder, popper, held, pauser>>
      BY <1>t, <2>3 DEF Pause, Goto, feeding, history, AfterPause, AllOps
    <3> QED
      BY <1>t, <3>1 DEF At, ClosingInv, ExitInv
  <2>4. CASE PauseSignals(h) \/ ResetDel(h) \/ ResetSetLast(h)
    BY <1>t, <2>4 DEF PauseSignals, ResetDel, ResetSetLast, At, Goto, manager, feeding, history,
       ClosingInv, ExitInv
  <2>5. CASE Close(h)
    BY <1>t, <2>5 DEF Close, At, Goto, feeding, history, ClosingInv, ExitInv
  <2>6. CASE Disconnect(h)
    BY <1>t, <2>6 DEF Disconnect, At, Goto, feeding, history, ClosingInv, ExitInv, IInv, FeedInv
  <2> QED
    BY <1>5, <2>1, <2>2, <2>3, <2>4, <2>5, <2>6 DEF Handler
<1>6. CASE Watcher
  <2>1. UNCHANGED <<feeding, handling, redisOpen, closed, pauser>>
    BY <1>6 DEF Watcher, WatcherReceive, WatcherRewind, WatcherGate, WatcherTodo, WatcherMark,
       WatcherTodoFails, WatcherDone, manager, history
  <2> QED
    BY <1>1, <2>1 DEF feeding, handling
<1>7. ASSUME \/ \E n \in FirstBest .. MaxBlock : Announce(n)
             \/ ConsumerDone
             \/ \E b \in Heights : QueueBlock(b)
             \/ UNCHANGED vars
      PROVE  ClosingInv' /\ ExitInv'
  BY <1>1, <1>7 DEF Announce, ConsumerDone, QueueBlock, vars, manager, feeding, handling, history
<1> QED
  BY <1>2, <1>3, <1>4, <1>5, <1>6, <1>7 DEF Next

(* An exit through ExitDelayed closes redis with no task on the way, however  *)
(* pauses, resumes, resets and stops came before it and whatever fails,       *)
(* unless another handler resumes the manager during its two seconds: nobody  *)
(* resumes at all, or there is one handler.                                   *)
THEOREM ExitLosesNothing ==
  ASSUME ByOne
  PROVE  Spec => []ExitDelayedLosesNothing
<1>1. Init => ClosingInv /\ ExitInv
  BY DEF Init, ClosingInv, ExitInv
<1>2. IInv /\ (ClosingInv /\ ExitInv) /\ [Next]_vars => (ClosingInv /\ ExitInv)'
  BY ExitStep
<1>3. IInv /\ ExitInv => ExitDelayedLosesNothing
  BY ManagerAssumption DEF IInv, FeedInv, ExitInv, ExitDelayedLosesNothing, OnTheWay, NoTask,
     Heights
<1> QED
  BY <1>1, <1>2, <1>3, Invariance, PTL DEF Spec

-----------------------------------------------------------------------------
(* TaskManager implements TaskQueue.  The refinement mapping forgets the      *)
(* sentinel, reads the task on the way out of popped or held, and the gate    *)
(* out of FeedToChan's place.                                                 *)

Mapping == Queue!Next \/ UNCHANGED Queue!qvars

LEMMA InitMaps == Init => Queue!Init
BY ManagerAssumption DEF Init, Queue!Init, OnTheWay, Gate, Heights, Sentinel, NoTask, Queue!NoTask

LEMMA StutterMaps ==
  ASSUME UNCHANGED <<todo, feeder, held, popped>>
  PROVE  UNCHANGED Queue!qvars
BY DEF Queue!qvars, OnTheWay, Gate

LEMMA AddMaps ==
  ASSUME NEW t \in Heights, todo' = todo \cup {t}, UNCHANGED <<feeder, held, popped>>
  PROVE  Mapping
<1>1. todo' \ {Sentinel} = (todo \ {Sentinel}) \cup {t}
  BY ManagerAssumption DEF Heights, Sentinel
<1>2. UNCHANGED <<OnTheWay, Gate>>
  BY DEF OnTheWay, Gate
<1>3. Queue!Add({t})
  BY <1>1, <1>2 DEF Queue!Add
<1> QED
  BY <1>3 DEF Mapping, Queue!Next

LEMMA WatcherMaps == IInv /\ Watcher => Mapping
<1> SUFFICES ASSUME IInv, Watcher PROVE Mapping
  OBVIOUS
<1>1. CASE WatcherTodo
  <2>1. wi \in Heights
    BY <1>1, ManagerAssumption DEF WatcherTodo, IInv, TypeOK, Heights
  <2> QED
    BY <1>1, <2>1, AddMaps DEF WatcherTodo, feeding
<1>2. CASE ~WatcherTodo
  BY <1>2, StutterMaps DEF Watcher, WatcherReceive, WatcherRewind, WatcherGate, WatcherMark,
     WatcherTodoFails, WatcherDone, manager, feeding, Mapping
<1> QED
  BY <1>1, <1>2

LEMMA FeederMaps == IInv /\ Feeder => Mapping
<1> SUFFICES ASSUME IInv, Feeder PROVE Mapping
  OBVIOUS
<1> USE DEF Mapping, Queue!Next, Queue!NoTask, Gate, NoTask, manager
<1>0. -1 \notin Heights /\ -2 \notin Heights
  BY ManagerAssumption DEF Heights
<1>1. CASE FeederSeesClosed
  BY <1>1 DEF FeederSeesClosed, Queue!qvars, OnTheWay
<1>2. ASSUME NEW h \in Handlers, FeederPauses(h) PROVE Queue!Shut
  BY <1>0, <1>2 DEF FeederPauses, IInv, FeedInv, Queue!Shut, OnTheWay
<1>3. CASE FeederSetsPaused
  BY <1>3 DEF FeederSetsPaused, Queue!qvars, OnTheWay
<1>4. ASSUME NEW h \in Handlers, FeederResumes(h) PROVE UNCHANGED Queue!qvars
  BY <1>4 DEF FeederResumes, Queue!qvars, OnTheWay
<1>5. ASSUME FeederClearsPaused PROVE Queue!Open
  BY <1>5 DEF FeederClearsPaused, Queue!Open, OnTheWay
<1>6. CASE FeederStartsPop
  BY <1>6 DEF FeederStartsPop, Queue!qvars, OnTheWay
<1>7. CASE FeederGetsTask
  <2>1. UNCHANGED <<todo, Gate>>
    BY <1>7 DEF FeederGetsTask
  <2>2. UNCHANGED OnTheWay
    BY <1>0, <1>7 DEF FeederGetsTask, IInv, FeedInv, TypeOK, Task, OnTheWay, Sentinel
  <2> QED
    BY <2>1, <2>2 DEF Queue!qvars
<1>8. CASE FeederWakes
  BY <1>8 DEF FeederWakes, Queue!qvars, OnTheWay
<1>9. CASE Deliver
  <2>1. popped = NoTask
    BY <1>9 DEF Deliver, IInv, FeedInv
  <2>2. held # NoTask => Queue!Hand
    BY <1>0, <1>9, <2>1 DEF Deliver, Queue!Hand, OnTheWay
  <2>3. held = NoTask => UNCHANGED Queue!qvars
    BY <1>0, <1>9, <2>1 DEF Deliver, Queue!qvars, OnTheWay
  <2> QED
    BY <2>2, <2>3
<1>10. ASSUME NEW h \in Handlers, FeederStops(h) PROVE UNCHANGED Queue!qvars
  BY <1>10 DEF FeederStops, Queue!qvars, OnTheWay
<1> QED
  BY <1>1, <1>2, <1>3, <1>4, <1>5, <1>6, <1>7, <1>8, <1>9, <1>10 DEF Feeder

LEMMA LowestIsLowest ==
  ASSUME todo \subseteq Heights \cup {Sentinel}, NEW t \in todo, IsLowest(t, todo),
         t # Sentinel
  PROVE  /\ t \in Heights
         /\ Queue!IsLowest(t, todo \ {Sentinel})
         /\ (todo \ {t}) \ {Sentinel} = (todo \ {Sentinel}) \ {t}
BY DEF IsLowest, Queue!IsLowest

LEMMA PopperMaps == IInv /\ Popper => Mapping
<1> SUFFICES ASSUME IInv, Popper PROVE Mapping
  OBVIOUS
<1>0. -1 \notin Heights /\ -2 \notin Heights
  BY ManagerAssumption DEF Heights
<1>1. /\ todo \subseteq Heights \cup {Sentinel}
      /\ popped = NoTask /\ held = NoTask
      /\ UNCHANGED <<feeder, held>>
      /\ feeder \in {"wait", "done"}
  BY DEF Popper, Pop, PopFails, IInv, TypeOK, FeedInv
<1>2. Gate = "open" /\ Gate' = "open" /\ OnTheWay = -2
  BY <1>0, <1>1 DEF Gate, OnTheWay, NoTask
<1>3. CASE Pop
  <2> PICK t \in todo : IsLowest(t, todo) /\ popped' = t /\ todo' = todo \ {t}
    BY <1>3 DEF Pop
  <2>1. CASE t = Sentinel
    <3>1. todo' \ {Sentinel} = todo \ {Sentinel} /\ OnTheWay' = -2
      BY <1>0, <1>1, <2>1 DEF OnTheWay, Sentinel, NoTask
    <3> QED
      BY <1>2, <3>1 DEF Mapping, Queue!qvars
  <2>2. CASE t # Sentinel
    <3>1. /\ t \in Heights
          /\ Queue!IsLowest(t, todo \ {Sentinel})
          /\ (todo \ {t}) \ {Sentinel} = (todo \ {Sentinel}) \ {t}
      BY <1>1, <2>2, LowestIsLowest
    <3>2. OnTheWay' = t
      BY <3>1 DEF OnTheWay
    <3>3. Queue!Take
      BY <1>2, <2>2, <3>1, <3>2 DEF Queue!Take, Queue!NoTask
    <3> QED
      BY <3>3 DEF Mapping, Queue!Next
  <2> QED
    BY <2>1, <2>2
<1>4. CASE PopFails
  <2>1. OnTheWay' = -2
    BY <1>0, <1>1, <1>4 DEF PopFails, OnTheWay, NoTask
  <2>2. CASE UNCHANGED todo
    BY <1>2, <2>1, <2>2 DEF Mapping, Queue!qvars
  <2>3. CASE \E t \in todo : IsLowest(t, todo) /\ todo' = todo \ {t}
    <3> PICK t \in todo : IsLowest(t, todo) /\ todo' = todo \ {t}
      BY <2>3
    <3>1. CASE t = Sentinel
      BY <1>2, <2>1, <3>1 DEF Mapping, Queue!qvars
    <3>2. CASE t # Sentinel
      <4>1. /\ t \in Heights
            /\ Queue!IsLowest(t, todo \ {Sentinel})
            /\ (todo \ {t}) \ {Sentinel} = (todo \ {Sentinel}) \ {t}
        BY <1>1, <3>2, LowestIsLowest
      <4>2. Queue!Mislay
        BY <1>2, <2>1, <3>2, <4>1 DEF Queue!Mislay, Queue!NoTask
      <4> QED
        BY <4>2 DEF Mapping, Queue!Next
    <3> QED
      BY <3>1, <3>2
  <2> QED
    BY <1>4, <2>2, <2>3 DEF PopFails
<1> QED
  BY <1>3, <1>4 DEF Popper

LEMMA ConsumerMaps == IInv /\ ConsumerDone => Mapping
<1> SUFFICES ASSUME IInv, ConsumerDone PROVE Mapping
  OBVIOUS
<1>1. working \in Heights /\ UNCHANGED <<feeder, held, popped>>
  BY DEF ConsumerDone, IInv, TypeOK, Task
<1>2. CASE UNCHANGED todo
  BY <1>1, <1>2, StutterMaps DEF Mapping
<1>3. CASE todo' = todo \cup {working}
  BY <1>1, <1>3, AddMaps
<1> QED
  BY <1>2, <1>3 DEF ConsumerDone

LEMMA HandlerMaps ==
  ASSUME IInv, NEW h \in Handlers, Handler(h)
  PROVE  Mapping
<1>1. UNCHANGED <<feeder, held, popped>>
  BY DEF Handler, Toggle, Resume, Pause, PauseSignals, ResetDel, ResetSetLast, Close,
     Disconnect, feeding
<1>2. CASE UNCHANGED todo
  BY <1>1, <1>2, StutterMaps DEF Mapping
<1>3. CASE Pause(h) /\ todo' = todo \cup {Sentinel}
  <2>1. todo' \ {Sentinel} = todo \ {Sentinel}
    BY <1>3
  <2> QED
    BY <1>1, <2>1 DEF Mapping, Queue!qvars, OnTheWay, Gate
<1>4. CASE ResetDel(h) /\ todo' = {}
  <2>1. todo' \ {Sentinel} = {} /\ UNCHANGED <<OnTheWay, Gate>>
    BY <1>1, <1>4 DEF OnTheWay, Gate
  <2>2. Queue!Clear
    BY <2>1 DEF Queue!Clear
  <2> QED
    BY <2>2 DEF Mapping, Queue!Next
<1> QED
  BY <1>2, <1>3, <1>4 DEF Handler, Toggle, Resume, Pause, PauseSignals, ResetDel, ResetSetLast,
     Close, Disconnect, manager

LEMMA NextMaps == IInv /\ [Next]_vars => [Queue!Next]_Queue!qvars
<1> SUFFICES ASSUME IInv, [Next]_vars PROVE Mapping
  BY DEF Mapping
<1>1. CASE UNCHANGED vars
  BY <1>1, StutterMaps DEF vars, manager, feeding, Mapping
<1>2. ASSUME NEW n \in FirstBest .. MaxBlock, Announce(n) PROVE Mapping
  BY <1>2, StutterMaps DEF Announce, manager, feeding, Mapping
<1>3. ASSUME NEW h \in Handlers, NEW op \in Ops, Request(h, op) PROVE Mapping
  BY <1>3, StutterMaps DEF Request, manager, feeding, Mapping
<1>4. ASSUME NEW b \in Heights, QueueBlock(b) PROVE Mapping
  BY <1>4, AddMaps DEF QueueBlock, feeding
<1> QED
  BY <1>1, <1>2, <1>3, <1>4, WatcherMaps, FeederMaps, PopperMaps, ConsumerMaps, HandlerMaps
  DEF Next

(* Whatever the goroutines, the operators and the failing commands do, the    *)
(* rest of the backend sees the abstract queue: lowest height first, one task *)
(* on the way, nothing dropped but in a broken reply, doubled or let out      *)
(* through a shut gate.                                                       *)
THEOREM Refinement == Spec => ImplementsQueue
<1>1. Init => Queue!Init
  BY InitMaps
<1>2. IInv /\ [Next]_vars => [Queue!Next]_Queue!qvars
  BY NextMaps
<1> QED
  BY <1>1, <1>2, Invariance, PTL DEF Spec, ImplementsQueue, Queue!Spec
==============================================================================
