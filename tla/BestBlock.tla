------------------------------- MODULE BestBlock -------------------------------
(***************************************************************************)
(* bestblock.Tracker: it follows the node's best block, over a websocket   *)
(* subscription that it renews when it breaks, or by polling over HTTP,    *)
(* and publishes every height to its subscribers; Close is called by       *)
(* Core.Close.  Publishing starts a goroutine per subscriber, so a height  *)
(* counts as sent as soon as publish ran (TaskManager models the order in  *)
(* which the goroutines get through).                                      *)
(***************************************************************************)
EXTENDS Integers, Sequences

CONSTANTS
  Modes,         \* the configurations: TRUE with a websocket url, FALSE without
  Subscribers,   \* the clients: the task manager, Core.Run's metrics loop
  StartTip,      \* the node's height when the tracker starts
  MaxTip,        \* bound: the node's highest block
  MaxReorgs,     \* bound: branch switches of the node
  MaxFaults      \* bound: failing calls and broken connections

ASSUME TrackerAssumption ==
  /\ Modes \subseteq BOOLEAN
  /\ StartTip \in Nat /\ 0 < StartTip
  /\ MaxTip \in Nat /\ StartTip <= MaxTip
  /\ MaxReorgs \in Nat
  /\ MaxFaults \in Nat

Heights == 0 .. MaxTip
Closed == -1      \* what a closed header channel yields: nil

VARIABLES
  tip,             \* the node's best block
  listening,       \* the node sends us its headers
  heads,           \* headers on their way to us
  pc,              \* where Run is
  best,            \* b.bestBlockNumber
  next, last,      \* the publish loop: i and its bound
  then,            \* where Run goes after the loop
  header,          \* newBlockNumber of consumeWSSubscription
  useWS,           \* a websocket url is configured
  started, stopped, subscribed,   \* the flags of those names
  clients,         \* b.subscribers
  closer,          \* where the goroutine in Close is
  reorgs, faults,  \* spent of the bounds
  sent,            \* history: heights published to each client
  since,           \* history: the first height a client had to be told
  owed             \* history: switched heights, not yet published again

node == <<tip, listening, heads, reorgs>>
loop == <<next, last, then>>
flags == <<useWS, started, stopped, subscribed>>
told == <<sent, since>>
vars == <<node, pc, best, loop, header, flags, clients, closer, faults, told, owed>>

Init ==
  /\ tip = StartTip
  /\ listening = FALSE /\ heads = << >>
  /\ pc = "dial" /\ best = 0
  /\ next = 1 /\ last = 0 /\ then = "attach"
  /\ header = 0
  /\ useWS \in Modes
  /\ started = FALSE /\ stopped = FALSE /\ subscribed = FALSE
  /\ clients = {}
  /\ closer = "idle"
  /\ reorgs = 0 /\ faults = 0
  /\ sent = [s \in Subscribers |-> {}]
  /\ since = [s \in Subscribers |-> 0]
  /\ owed = {}

Fails == faults < MaxFaults /\ faults' = faults + 1

-----------------------------------------------------------------------------
(* The node                                                                *)

Tell(news) == heads' = IF listening THEN heads \o news ELSE heads

Mine ==
  /\ tip < MaxTip
  /\ tip' = tip + 1
  /\ Tell(<<tip + 1>>)
  /\ UNCHANGED <<listening, reorgs, pc, best, loop, header, flags, clients, closer, faults,
                 told, owed>>

\* A switch to another branch of the same height, header by header.
Reorg(k) ==
  /\ k \in 1 .. tip /\ reorgs < MaxReorgs
  /\ reorgs' = reorgs + 1
  /\ Tell([i \in 1 .. tip - k + 1 |-> k + i - 1])
  /\ owed' = IF listening THEN owed \cup k .. tip ELSE owed
  /\ UNCHANGED <<tip, listening, pc, best, loop, header, flags, clients, closer, faults, told>>

\* The connection breaks: headers are lost and the channel is closed.
Break ==
  /\ listening
  /\ Fails
  /\ listening' = FALSE
  /\ \E n \in 0 .. Len(heads) : heads' = SubSeq(heads, 1, n) \o <<Closed>>
  /\ owed' = {}
  /\ UNCHANGED <<tip, reorgs, pc, best, loop, header, flags, clients, closer, told>>

-----------------------------------------------------------------------------
(* Run                                                                     *)

\* A connection was made; on the first the best block is just asked for.
Dial ==
  /\ pc = "dial"
  /\ pc' = IF started THEN "poll" ELSE "first"
  /\ then' = "attach"
  /\ UNCHANGED <<node, best, next, last, header, flags, clients, closer, faults, told, owed>>

\* getBlockNumber on the way up: its nil on errChan lets Core.New go on, and an
\* error there ends the process.
First ==
  /\ pc = "first"
  /\ \/ /\ best' = tip
        /\ started' = TRUE
        /\ pc' = "publish"
        /\ UNCHANGED faults
     \/ /\ Fails
        /\ pc' = "exited"
        /\ UNCHANGED <<best, started>>
  /\ UNCHANGED <<node, loop, header, useWS, stopped, subscribed, clients, closer, told, owed>>

Publish(b) ==
  /\ sent' = [s \in Subscribers |-> IF s \in clients THEN sent[s] \cup {b} ELSE sent[s]]
  /\ owed' = owed \ {b}

PublishFirst ==
  /\ pc = "publish"
  /\ Publish(best)
  /\ pc' = "attach"
  /\ UNCHANGED <<node, best, loop, header, flags, clients, closer, faults, since>>

\* Mutant: a failing poll ends the goroutine.
Poll_returns ==
  /\ pc = "poll"
  /\ \/ /\ best' = tip /\ next' = best + 1 /\ last' = tip
        /\ pc' = "announce"
        /\ UNCHANGED faults
     \/ /\ Fails
        /\ pc' = "stopped"
        /\ UNCHANGED <<best, next, last>>
  /\ UNCHANGED <<node, then, header, flags, clients, closer, told, owed>>

\* getBestHTTP: the loop from the old best block to the new one follows.
Poll ==
  /\ pc = "poll"
  /\ \/ /\ best' = tip /\ next' = best + 1 /\ last' = tip
        /\ pc' = "announce"
        /\ UNCHANGED faults
     \/ /\ Fails
        /\ pc' = then
        /\ UNCHANGED <<best, next, last>>
  /\ UNCHANGED <<node, then, header, flags, clients, closer, told, owed>>

\* Mutant: the loop runs one past its bound.
Announce_past ==
  /\ pc = "announce"
  /\ \/ /\ next <= last + 1
        /\ Publish(next)
        /\ next' = next + 1
        /\ UNCHANGED pc
     \/ /\ next > last + 1
        /\ pc' = then
        /\ UNCHANGED <<next, sent, owed>>
  /\ UNCHANGED <<node, best, last, then, header, flags, clients, closer, faults, since>>

\* The publish loops of getBestHTTP and consumeWSSubscription.
Announce ==
  /\ pc = "announce"
  /\ \/ /\ next <= last
        /\ Publish(next)
        /\ next' = next + 1
        /\ UNCHANGED pc
     \/ /\ next > last
        /\ pc' = then
        /\ UNCHANGED <<next, sent, owed>>
  /\ UNCHANGED <<node, best, last, then, header, flags, clients, closer, faults, since>>

\* Mutant: a failing subscription ends Run.
Attach_givesUp ==
  /\ pc = "attach"
  /\ \/ useWS /\ pc' = "ws" /\ subscribed' = TRUE /\ listening' = TRUE /\ heads' = << >>
        /\ UNCHANGED faults
     \/ useWS /\ Fails /\ pc' = "stopped" /\ UNCHANGED <<subscribed, listening, heads>>
     \/ ~useWS /\ pc' = "http" /\ UNCHANGED <<subscribed, listening, heads, faults>>
  /\ UNCHANGED <<tip, reorgs, best, loop, header, useWS, started, stopped, clients, closer, told, owed>>

\* runWS subscribes, or returns to Run's loop after a sleep; runHTTP just waits.
Attach ==
  /\ pc = "attach"
  /\ \/ useWS /\ pc' = "ws" /\ subscribed' = TRUE /\ listening' = TRUE /\ heads' = << >>
        /\ UNCHANGED faults
     \/ useWS /\ Fails /\ pc' = "dial" /\ UNCHANGED <<subscribed, listening, heads>>
     \/ ~useWS /\ pc' = "http" /\ UNCHANGED <<subscribed, listening, heads, faults>>
  /\ UNCHANGED <<tip, reorgs, best, loop, header, useWS, started, stopped, clients, closer, told, owed>>

Tick ==
  /\ pc = "http"
  /\ pc' = "poll" /\ then' = "http"
  /\ UNCHANGED <<node, best, next, last, header, flags, clients, closer, faults, told, owed>>

\* Mutant: a header at the known height is taken for the next block.
Receive_strict ==
  /\ pc = "ws" /\ heads # << >>
  /\ heads' = Tail(heads)
  /\ \/ /\ Head(heads) = Closed
        /\ subscribed' = FALSE
        /\ pc' = "dial"
        /\ UNCHANGED <<next, last, then, header>>
     \/ /\ Head(heads) # Closed
        /\ header' = Head(heads)
        /\ next' = (IF best > header' THEN header' ELSE best + 1)
        /\ last' = (IF best > header' THEN best ELSE header')
        /\ then' = "setbest"
        /\ pc' = "announce"
        /\ UNCHANGED subscribed
  /\ UNCHANGED <<tip, listening, reorgs, best, useWS, started, stopped, clients, closer, faults,
                 told, owed>>

\* Mutant: only the received header is published.
Receive_alone ==
  /\ pc = "ws" /\ heads # << >>
  /\ heads' = Tail(heads)
  /\ \/ /\ Head(heads) = Closed
        /\ subscribed' = FALSE
        /\ pc' = "dial"
        /\ UNCHANGED <<next, last, then, header>>
     \/ /\ Head(heads) # Closed
        /\ header' = Head(heads)
        /\ next' = header' /\ last' = header'
        /\ then' = "setbest"
        /\ pc' = "announce"
        /\ UNCHANGED subscribed
  /\ UNCHANGED <<tip, listening, reorgs, best, useWS, started, stopped, clients, closer, faults,
                 told, owed>>

\* consumeWSSubscription: a header at or below the best block starts a loop from
\* it, a higher one a loop up to it; nil ends the subscription.
Receive ==
  /\ pc = "ws" /\ heads # << >>
  /\ heads' = Tail(heads)
  /\ \/ /\ Head(heads) = Closed
        /\ subscribed' = FALSE
        /\ pc' = "dial"
        /\ UNCHANGED <<next, last, then, header>>
     \/ /\ Head(heads) # Closed
        /\ header' = Head(heads)
        /\ next' = (IF best >= header' THEN header' ELSE best + 1)
        /\ last' = (IF best >= header' THEN best ELSE header')
        /\ then' = "setbest"
        /\ pc' = "announce"
        /\ UNCHANGED subscribed
  /\ UNCHANGED <<tip, listening, reorgs, best, useWS, started, stopped, clients, closer, faults,
                 told, owed>>

SetBest ==
  /\ pc = "setbest"
  /\ best' = header
  /\ pc' = "ws"
  /\ UNCHANGED <<node, loop, header, flags, clients, closer, faults, told, owed>>

\* case <-b.stopChan.  runHTTP has the same case, but Close never sends to it.
Stop ==
  /\ pc = "ws" /\ closer = "sending"
  /\ stopped' = TRUE /\ subscribed' = FALSE
  /\ listening' = FALSE
  /\ closer' = "returned"
  /\ pc' = "stopped"
  /\ UNCHANGED <<tip, heads, reorgs, best, loop, header, useWS, started, clients, faults, told, owed>>

-----------------------------------------------------------------------------
(* The tracker's clients                                                   *)

\* Core.New has waited for the first best block.  The client is told what is
\* published from now on.
Subscribe(s) ==
  /\ started /\ s \notin clients
  /\ clients' = clients \cup {s}
  /\ since' = [since EXCEPT ![s] = IF pc \in {"announce", "setbest"} THEN next
                                   ELSE IF pc = "publish" THEN best
                                   ELSE best + 1]
  /\ UNCHANGED <<node, pc, best, loop, header, flags, closer, faults, sent, owed>>

Close ==
  /\ started /\ closer = "idle"
  /\ closer' = IF subscribed THEN "sending" ELSE "returned"
  /\ UNCHANGED <<node, pc, best, loop, header, flags, clients, faults, told, owed>>

-----------------------------------------------------------------------------

Run ==
  \/ Dial
  \/ First
  \/ PublishFirst
  \/ Poll
  \/ Announce
  \/ Attach
  \/ Tick
  \/ Receive
  \/ SetBest

Next ==
  \/ Mine
  \/ \E k \in Heights : Reorg(k)
  \/ Break
  \/ Run
  \/ Stop
  \/ \E s \in Subscribers : Subscribe(s)
  \/ Close

Spec == Init /\ [][Next]_vars

\* Run's goroutine runs, the node answers and accepts connections but for the
\* MaxFaults that break, and select chooses stopChan if it can choose it for ever.
FairSpec == Spec /\ WF_vars(Run) /\ SF_vars(Stop)

-----------------------------------------------------------------------------
(* Properties                                                              *)

Place == {"dial", "first", "publish", "poll", "announce", "attach", "ws", "http", "setbest",
          "stopped", "exited"}

TypeOK ==
  /\ tip \in Heights /\ listening \in BOOLEAN /\ heads \in Seq(Heights \cup {Closed})
  /\ reorgs \in 0 .. MaxReorgs
  /\ pc \in Place
  /\ best \in Heights
  /\ next \in 0 .. MaxTip + 1 /\ last \in Heights /\ then \in {"attach", "http", "setbest"}
  /\ header \in Heights
  /\ useWS \in Modes
  /\ started \in BOOLEAN /\ stopped \in BOOLEAN /\ subscribed \in BOOLEAN
  /\ clients \in SUBSET Subscribers
  /\ closer \in {"idle", "sending", "returned"}
  /\ faults \in 0 .. MaxFaults
  /\ sent \in [Subscribers -> SUBSET Heights]
  /\ since \in [Subscribers -> 0 .. MaxTip + 1]
  /\ owed \in SUBSET Heights

(* Run's comment, "we do this to avoid gaps": between two loops a client   *)
(* has been told every height from its subscription to the best block,     *)
(* through reconnections, switches, failing polls and lost headers.        *)
NoSkippedHeight ==
  pc \notin {"publish", "announce", "setbest"} =>
    \A s \in clients : since[s] .. best \subseteq sent[s]

(* Over an unbroken subscription every block the node has replaced is      *)
(* published again once its headers are consumed.                          *)
ReorgRepublished == (pc = "ws" /\ heads = << >>) => owed = {}

(* Close returns even when the subscription breaks after Close has looked  *)
(* at b.subscribed, and while Run reconnects.                              *)
CloseReturns == (closer = "sending") ~> (closer = "returned")

(* Polling catches up with the node.                                       *)
CatchesUp == ~useWS => <>[](best = tip \/ pc = "exited")

(* Close's comment: "Close stops the tracker".                             *)
CloseStops == (closer = "returned") ~> (pc \in {"stopped", "exited"})
==============================================================================
