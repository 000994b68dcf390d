---------------------------- MODULE BestBlockProofs ----------------------------
(***************************************************************************)
(* Theorems about BestBlock, for every chain, every number of clients, of  *)
(* branch switches and of failures.                                        *)
(***************************************************************************)
EXTENDS BestBlock, TLAPS

\* Nobody subscribes before the first best block; Run's place says what its loop will do.
RunInv ==
  /\ pc = "first" => ~started
  /\ ~started => clients = {}
  /\ pc = "poll" => then # "setbest"
  /\ pc = "announce" => IF then = "setbest" THEN header <= last ELSE last = best
  /\ pc = "setbest" => header < next

\* A client has been told everything up to top.
ToldTo(s, top) == \A n \in Int : since[s] <= n /\ n <= top => n \in sent[s]

\* Where a loop is under way, up to the height it has reached.
ToldInv ==
  \A s \in clients :
    IF pc = "publish" THEN best <= since[s]
    ELSE IF pc \in {"announce", "setbest"} THEN ToldTo(s, next - 1)
    ELSE ToldTo(s, best)

Coming(h) == \E i \in 1 .. Len(heads) : heads[i] = h

\* The header of a switched block is on its way, or the loop it started has yet to get there.
OwedInv ==
  /\ listening => /\ pc \in {"ws", "announce", "setbest"}
                  /\ pc = "announce" => then = "setbest"
                  /\ ~Coming(Closed)
                  /\ \A h \in owed : Coming(h) \/ (pc = "announce" /\ next <= h /\ h <= last)
  /\ ~listening => owed = {} \/ pc = "stopped"

IInv == TypeOK /\ RunInv /\ ToldInv /\ OwedInv

USE TrackerAssumption DEF Heights, Closed

-----------------------------------------------------------------------------

LEMMA InitInv == Init => IInv
<1> SUFFICES ASSUME Init PROVE IInv
  OBVIOUS
<1>1. TypeOK
  <2>1. heads \in Seq(Heights \cup {Closed})
    BY DEF Init
  <2>2. /\ sent \in [Subscribers -> SUBSET Heights]
        /\ since \in [Subscribers -> 0 .. MaxTip + 1]
    BY DEF Init
  <2>3. pc \in Place /\ then \in {"attach", "http", "setbest"} /\ useWS \in Modes
    BY DEF Init, Place
  <2>4. /\ tip \in Heights /\ best \in Heights /\ last \in Heights /\ header \in Heights
        /\ next \in 0 .. MaxTip + 1 /\ reorgs \in 0 .. MaxReorgs /\ faults \in 0 .. MaxFaults
    BY DEF Init
  <2>5. /\ listening \in BOOLEAN /\ started \in BOOLEAN /\ stopped \in BOOLEAN
        /\ subscribed \in BOOLEAN /\ closer \in {"idle", "sending", "returned"}
        /\ clients \in SUBSET Subscribers /\ owed \in SUBSET Heights
    BY DEF Init
  <2> QED  BY <2>1, <2>2, <2>3, <2>4, <2>5 DEF TypeOK
<1>2. RunInv /\ ToldInv /\ OwedInv
  BY DEF Init, RunInv, ToldInv, OwedInv
<1> QED  BY <1>1, <1>2 DEF IInv

\* What the node adds to the headers on their way.
LEMMA TellHeads ==
  ASSUME TypeOK, NEW news \in Seq(Heights \cup {Closed}), Tell(news)
  PROVE  /\ heads' \in Seq(Heights \cup {Closed})
         /\ \A h : Coming(h) => Coming(h)'
         /\ listening => \A h : Coming(h)' => Coming(h) \/ \E i \in 1 .. Len(news) : news[i] = h
         /\ listening => \A i \in 1 .. Len(news) : Coming(news[i])'
         /\ ~listening => heads' = heads
<1> USE DEF TypeOK, Tell
<1>1. CASE ~listening
  BY <1>1 DEF Coming
<1>2. CASE listening
  <2> DEFINE all == heads \o news
  <2>1. heads' = all /\ all \in Seq(Heights \cup {Closed})
    BY <1>2
  <2>2. /\ Len(heads) \in Nat /\ Len(news) \in Nat /\ Len(all) = Len(heads) + Len(news)
        /\ \A i \in 1 .. Len(heads) : all[i] = heads[i]
        /\ \A i \in 1 .. Len(news) : all[Len(heads) + i] = news[i]
    OBVIOUS
  <2> HIDE DEF all
  <2>3. \A h : Coming(h) => Coming(h)'
    BY <2>1, <2>2 DEF Coming
  <2>4. \A h : Coming(h)' => Coming(h) \/ \E i \in 1 .. Len(news) : news[i] = h
    <3> SUFFICES ASSUME NEW h, NEW i \in 1 .. Len(all), all[i] = h, ~Coming(h)
                 PROVE  \E j \in 1 .. Len(news) : news[j] = h
      BY <2>1 DEF Coming
    <3>1. i - Len(heads) \in 1 .. Len(news)
      BY <2>2 DEF Coming
    <3>2. all[Len(heads) + (i - Len(heads))] = news[i - Len(heads)]
      BY <2>2, <3>1
    <3>3. Len(heads) + (i - Len(heads)) = i
      BY <2>2
    <3> QED  BY <3>1, <3>2, <3>3
  <2>5. \A i \in 1 .. Len(news) : Coming(news[i])'
    <3> SUFFICES ASSUME NEW i \in 1 .. Len(news) PROVE Coming(news[i])'
      OBVIOUS
    <3>1. Len(heads) + i \in 1 .. Len(all) /\ all[Len(heads) + i] = news[i]
      BY <2>2
    <3> QED  BY <2>1, <3>1 DEF Coming
  <2> QED  BY <1>2, <2>1, <2>3, <2>4, <2>5
<1> QED  BY <1>1, <1>2

-----------------------------------------------------------------------------
(* The node                                                                *)

\* A step of the node leaves Run and its clients alone.
LEMMA NodeStep ==
  ASSUME IInv, UNCHANGED <<pc, best, loop, header, flags, clients, closer, told>>
  PROVE  RunInv' /\ ToldInv'
BY DEF IInv, RunInv, ToldInv, ToldTo, loop, flags, told

LEMMA MineInv == IInv /\ Mine => IInv'
<1> SUFFICES ASSUME IInv, Mine PROVE IInv'
  OBVIOUS
<1>1. RunInv' /\ ToldInv'
  BY NodeStep DEF Mine
<1>2. <<tip + 1>> \in Seq(Heights \cup {Closed})
  BY DEF IInv, TypeOK, Mine
<1>3. Tell(<<tip + 1>>)
  BY DEF Mine
<1>4. TypeOK'
  <2>1. heads' \in Seq(Heights \cup {Closed})
    BY <1>2, <1>3, TellHeads DEF IInv
  <2> QED  BY <2>1 DEF IInv, TypeOK, Mine, loop, flags, told
<1>5. OwedInv'
  <2>1. \A h : (\E i \in 1 .. Len(<<tip + 1>>) : <<tip + 1>>[i] = h) => h # Closed
    BY DEF IInv, TypeOK
  <2> QED  BY <1>2, <1>3, <2>1, TellHeads DEF IInv, OwedInv, Mine, loop
<1> QED  BY <1>1, <1>4, <1>5 DEF IInv

LEMMA ReorgInv == ASSUME IInv, NEW k \in Heights, Reorg(k) PROVE IInv'
<1> DEFINE news == [i \in 1 .. tip - k + 1 |-> k + i - 1]
<1>1. RunInv' /\ ToldInv'
  BY NodeStep DEF Reorg
<1>2. /\ news \in Seq(Heights \cup {Closed}) /\ Len(news) = tip - k + 1
      /\ \A i \in 1 .. Len(news) : news[i] = k + i - 1
  BY DEF IInv, TypeOK, Reorg
<1>3. Tell(news)
  BY DEF Reorg
<1> HIDE DEF news
<1>4. TypeOK'
  <2>1. heads' \in Seq(Heights \cup {Closed})
    BY <1>2, <1>3, TellHeads DEF IInv
  <2>2. reorgs' \in 0 .. MaxReorgs /\ owed' \in SUBSET Heights
    BY DEF IInv, TypeOK, Reorg
  <2> QED  BY <2>1, <2>2 DEF IInv, TypeOK, Reorg, loop, flags, told
<1>5. OwedInv'
  <2>1. CASE ~listening
    BY <1>2, <1>3, <2>1, TellHeads DEF IInv, OwedInv, Reorg, loop
  <2>2. CASE listening
    <3>1. \A h \in k .. tip : h - k + 1 \in 1 .. Len(news) /\ news[h - k + 1] = h
      BY <1>2 DEF IInv, TypeOK
    <3>2. \A h \in k .. tip : Coming(h)'
      BY <1>2, <1>3, <2>2, <3>1, TellHeads DEF IInv
    <3>3. \A i \in 1 .. Len(news) : news[i] # Closed
      BY <1>2 DEF IInv, TypeOK
    <3> QED  BY <1>2, <1>3, <2>2, <3>2, <3>3, TellHeads DEF IInv, OwedInv, Reorg, loop
  <2> QED  BY <2>1, <2>2
<1> QED  BY <1>1, <1>4, <1>5 DEF IInv

LEMMA BreakInv == IInv /\ Break => IInv'
<1> SUFFICES ASSUME IInv, Break PROVE IInv'
  OBVIOUS
<1>1. RunInv' /\ ToldInv'
  BY NodeStep DEF Break
<1>2. heads' \in Seq(Heights \cup {Closed})
  BY DEF IInv, TypeOK, Break
<1>3. TypeOK'
  <2>1. faults' \in 0 .. MaxFaults /\ owed' \in SUBSET Heights
    BY DEF IInv, TypeOK, Break, Fails
  <2> QED  BY <1>2, <2>1 DEF IInv, TypeOK, Break, loop, flags, told
<1>4. OwedInv'
  BY DEF OwedInv, Break
<1> QED  BY <1>1, <1>3, <1>4 DEF IInv

-----------------------------------------------------------------------------
(* Run                                                                     *)

LEMMA DialInv == IInv /\ Dial => IInv'
BY DEF IInv, Dial, TypeOK, Place, RunInv, ToldInv, ToldTo, OwedInv, Coming, node, flags, told

LEMMA FirstInv == IInv /\ First => IInv'
<1> SUFFICES ASSUME IInv, First PROVE IInv'
  OBVIOUS
<1>1. TypeOK'
  <2>1. best' \in Heights /\ pc' \in Place /\ started' \in BOOLEAN
    BY DEF IInv, First, TypeOK, Place
  <2>2. faults' \in 0 .. MaxFaults
    BY DEF IInv, First, Fails, TypeOK
  <2> QED  BY <2>1, <2>2 DEF IInv, First, TypeOK, node, loop, told
<1>2. RunInv' /\ ToldInv' /\ OwedInv'
  BY DEF IInv, First, RunInv, ToldInv, OwedInv, Coming, node, loop, told
<1> QED  BY <1>1, <1>2 DEF IInv

LEMMA PublishInv ==
  ASSUME TypeOK, NEW b \in Heights, Publish(b)
  PROVE  /\ sent' \in [Subscribers -> SUBSET Heights] /\ owed' \in SUBSET Heights
         /\ \A s \in clients : sent'[s] = sent[s] \cup {b}
BY DEF TypeOK, Publish

LEMMA PublishFirstInv == IInv /\ PublishFirst => IInv'
<1> SUFFICES ASSUME IInv, PublishFirst PROVE IInv'
  OBVIOUS
<1>1. TypeOK'
  BY PublishInv DEF IInv, PublishFirst, TypeOK, Place, node, loop, flags
<1>2. ToldInv'
  BY PublishInv DEF IInv, PublishFirst, TypeOK, ToldInv, ToldTo
<1>3. RunInv' /\ OwedInv'
  BY DEF IInv, PublishFirst, RunInv, OwedInv, Coming, Publish, node, loop, flags
<1> QED  BY <1>1, <1>2, <1>3 DEF IInv

LEMMA PollInv == IInv /\ Poll => IInv'
<1> SUFFICES ASSUME IInv, Poll PROVE IInv'
  OBVIOUS
<1>1. TypeOK'
  BY DEF IInv, Poll, Fails, TypeOK, Place, node, flags, told
<1>2. ToldInv'
  BY DEF IInv, Poll, RunInv, TypeOK, ToldInv, ToldTo, told
<1>3. RunInv' /\ OwedInv'
  BY DEF IInv, Poll, RunInv, TypeOK, OwedInv, Coming, node, flags
<1> QED  BY <1>1, <1>2, <1>3 DEF IInv

LEMMA AnnounceInv == IInv /\ Announce => IInv'
<1> SUFFICES ASSUME IInv, Announce PROVE IInv'
  OBVIOUS
<1>1. CASE next <= last
  <2>1. next \in Heights /\ Publish(next) /\ next' = next + 1 /\ pc' = "announce"
    BY <1>1 DEF IInv, TypeOK, Announce
  <2>2. TypeOK'
    BY <2>1, PublishInv DEF IInv, Announce, TypeOK, node, flags
  <2>3. ToldInv'
    BY <2>1, PublishInv DEF IInv, Announce, TypeOK, ToldInv, ToldTo
  <2>4. RunInv' /\ OwedInv'
    BY <2>1 DEF IInv, Announce, TypeOK, RunInv, OwedInv, Coming, Publish, node, flags
  <2> QED  BY <2>2, <2>3, <2>4 DEF IInv
<1>2. CASE ~(next <= last)
  <2>1. last < next /\ pc' = then /\ UNCHANGED <<next, sent, owed>>
    BY <1>2 DEF IInv, TypeOK, Announce
  <2>2. TypeOK'
    BY <2>1 DEF IInv, Announce, TypeOK, Place, node, flags
  <2>3. ToldInv'
    BY <2>1 DEF IInv, Announce, TypeOK, RunInv, ToldInv, ToldTo
  <2>4. RunInv' /\ OwedInv'
    BY <2>1 DEF IInv, Announce, TypeOK, RunInv, OwedInv, Coming, node, flags
  <2> QED  BY <2>2, <2>3, <2>4 DEF IInv
<1> QED  BY <1>1, <1>2

LEMMA AttachInv == IInv /\ Attach => IInv'
<1> SUFFICES ASSUME IInv, Attach PROVE IInv'
  OBVIOUS
<1>1. heads' \in Seq(Heights \cup {Closed})
  <2>1. heads' = << >> \/ heads' = heads
    BY DEF Attach
  <2>2. << >> \in Seq(Heights \cup {Closed})
    OBVIOUS
  <2> QED  BY <2>1, <2>2 DEF IInv, TypeOK
<1>2. TypeOK'
  <2>1. pc' \in Place /\ subscribed' \in BOOLEAN /\ listening' \in BOOLEAN
    BY DEF IInv, TypeOK, Place, Attach
  <2>2. faults' \in 0 .. MaxFaults
    BY DEF IInv, TypeOK, Attach, Fails
  <2> QED  BY <1>1, <2>1, <2>2 DEF IInv, TypeOK, Attach, loop, told
<1>3. RunInv' /\ ToldInv'
  BY DEF IInv, Attach, RunInv, ToldInv, ToldTo, loop, told
<1>4. OwedInv'
  BY DEF IInv, Attach, OwedInv, Coming, loop
<1> QED  BY <1>2, <1>3, <1>4 DEF IInv

LEMMA TickInv == IInv /\ Tick => IInv'
BY DEF IInv, Tick, TypeOK, Place, RunInv, ToldInv, ToldTo, OwedInv, Coming, node, flags, told

\* Of the headers on their way the first is gone; a loop that starts includes it.
LEMMA ReceiveInv == IInv /\ Receive => IInv'
<1> SUFFICES ASSUME IInv, Receive PROVE IInv'
  OBVIOUS
<1> DEFINE first == Head(heads)
<1>1. /\ heads' \in Seq(Heights \cup {Closed}) /\ first \in Heights \cup {Closed}
      /\ Len(heads') = Len(heads) - 1 /\ Len(heads) \in Nat
      /\ \A i \in 1 .. Len(heads') : heads'[i] = heads[i + 1]
      /\ first = heads[1]
  BY DEF IInv, TypeOK, Receive
<1>2. \A h : Coming(h)' => Coming(h)
  BY <1>1 DEF Coming
<1>3. \A h : Coming(h) => Coming(h)' \/ h = first
  <2> SUFFICES ASSUME NEW h, NEW i \in 1 .. Len(heads), heads[i] = h, h # first
               PROVE  \E j \in 1 .. Len(heads') : heads'[j] = h
    BY DEF Coming
  <2>1. i - 1 \in 1 .. Len(heads') /\ (i - 1) + 1 = i
    BY <1>1
  <2>2. heads'[i - 1] = h
    BY <1>1, <2>1
  <2> QED  BY <2>1, <2>2
<1>4. CASE first = Closed
  <2>1. ~listening
    <3>1. Coming(Closed)
      BY <1>1, <1>4 DEF Receive, Coming, IInv, TypeOK
    <3> QED  BY <3>1 DEF IInv, OwedInv
  <2>2. /\ subscribed' = FALSE /\ pc' = "dial" /\ pc = "ws"
        /\ UNCHANGED <<next, last, then, header, best, started, clients, told, listening, owed>>
    BY <1>4 DEF Receive
  <2>3. TypeOK'
    BY <1>1, <2>2 DEF IInv, TypeOK, Place, Receive, told
  <2>4. RunInv' /\ ToldInv' /\ OwedInv'
    BY <2>1, <2>2 DEF IInv, RunInv, ToldInv, ToldTo, OwedInv, told
  <2> QED  BY <2>3, <2>4 DEF IInv
<1>5. CASE first # Closed
  <2>1. /\ header' = first /\ first \in Heights /\ then' = "setbest"
        /\ pc' = "announce" /\ pc = "ws"
        /\ next' = (IF best >= first THEN first ELSE best + 1)
        /\ last' = (IF best >= first THEN best ELSE first)
        /\ UNCHANGED <<best, started, clients, told, listening, owed, subscribed>>
    BY <1>1, <1>5 DEF Receive
  <2>2. TypeOK'
    BY <1>1, <2>1 DEF IInv, TypeOK, Place, Receive, told
  <2>3. next' \in Int /\ last' \in Int /\ next' <= first /\ first <= last'
    BY <2>1 DEF IInv, TypeOK
  <2>4. RunInv' /\ ToldInv'
    <3>1. next' - 1 <= best
      BY <2>1 DEF IInv, TypeOK
    <3> QED  BY <2>1, <2>3, <3>1 DEF IInv, TypeOK, RunInv, ToldInv, ToldTo, told
  <2>5. OwedInv'
    BY <1>2, <1>3, <2>1, <2>3 DEF IInv, OwedInv
  <2> QED  BY <2>2, <2>4, <2>5 DEF IInv
<1> QED  BY <1>4, <1>5

LEMMA SetBestInv == IInv /\ SetBest => IInv'
<1> SUFFICES ASSUME IInv, SetBest PROVE IInv'
  OBVIOUS
<1>1. TypeOK' /\ RunInv' /\ OwedInv'
  BY DEF IInv, SetBest, TypeOK, Place, RunInv, OwedInv, Coming, node, loop, flags, told
<1>2. ToldInv'
  BY DEF IInv, SetBest, TypeOK, RunInv, ToldInv, ToldTo, told
<1> QED  BY <1>1, <1>2 DEF IInv

LEMMA StopInv == IInv /\ Stop => IInv'
<1> SUFFICES ASSUME IInv, Stop PROVE IInv'
  OBVIOUS
<1>1. TypeOK'
  BY DEF IInv, Stop, TypeOK, Place, loop, told
<1>2. RunInv' /\ ToldInv'
  BY DEF IInv, Stop, RunInv, ToldInv, ToldTo, loop, told
<1>3. OwedInv'
  BY DEF Stop, OwedInv
<1> QED  BY <1>1, <1>2, <1>3 DEF IInv

LEMMA SubscribeInv == ASSUME IInv, NEW s \in Subscribers, Subscribe(s) PROVE IInv'
<1>1. since' = [since EXCEPT ![s] = since'[s]] /\ since'[s] \in 0 .. MaxTip + 1
  BY DEF IInv, TypeOK, Subscribe
<1>2. TypeOK'
  BY <1>1 DEF IInv, TypeOK, Subscribe, node, loop, flags
<1>3. ToldInv'
  BY DEF IInv, TypeOK, Subscribe, ToldInv, ToldTo, loop
<1>4. RunInv' /\ OwedInv'
  BY DEF IInv, Subscribe, RunInv, OwedInv, Coming, node, loop, flags
<1> QED  BY <1>2, <1>3, <1>4 DEF IInv

LEMMA CloseInv == IInv /\ Close => IInv'
BY DEF IInv, Close, TypeOK, RunInv, ToldInv, ToldTo, OwedInv, Coming, node, loop, flags, told

-----------------------------------------------------------------------------

LEMMA StepInv == IInv /\ [Next]_vars => IInv'
<1> SUFFICES ASSUME IInv, [Next]_vars PROVE IInv'
  OBVIOUS
<1>1. CASE UNCHANGED vars
  BY <1>1 DEF IInv, TypeOK, RunInv, ToldInv, ToldTo, OwedInv, Coming, vars, node, loop, flags,
     told
<1>2. CASE Next
  BY <1>2, MineInv, ReorgInv, BreakInv, DialInv, FirstInv, PublishFirstInv, PollInv, AnnounceInv,
     AttachInv, TickInv, ReceiveInv, SetBestInv, StopInv, SubscribeInv, CloseInv DEF Next, Run
<1> QED  BY <1>1, <1>2

LEMMA Invariance == Spec => []IInv
BY InitInv, StepInv, PTL DEF Spec

\* The tracker never leaves the heights of the chain, whatever headers it is sent.
THEOREM TypeCorrect == Spec => []TypeOK
BY Invariance, PTL DEF IInv

\* Run's loops leave no gap: between two of them every client knows every height from its
\* subscription to the best block, through reconnections, switches and lost headers.
THEOREM NoGaps == Spec => []NoSkippedHeight
<1>1. IInv => NoSkippedHeight
  BY DEF IInv, TypeOK, ToldInv, ToldTo, NoSkippedHeight
<1> QED  BY <1>1, Invariance, PTL

\* Once an unbroken subscription has no header left, every switched block was published anew.
THEOREM SwitchesArePublished == Spec => []ReorgRepublished
<1>1. IInv => ReorgRepublished
  BY DEF IInv, TypeOK, OwedInv, Coming, ReorgRepublished
<1> QED  BY <1>1, Invariance, PTL
===============================================================================
