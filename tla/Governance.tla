------------------------------- MODULE Governance ------------------------------
(***************************************************************************)
(* The life of a proposal as the backend follows it: the contract's logs   *)
(* in blocks that a reorg may replace, the storables that turn a block     *)
(* into rows and notifications, delete_block, and the notification worker  *)
(* that runs the jobs they leave behind.  One proposal: no query or job    *)
(* looks at another's rows.                                                *)
(***************************************************************************)
EXTENDS Proposals

CONSTANTS
  Soon,            \* the 300 seconds an "ending soon" comes early
  Safety,          \* the 180 seconds a final announcement waits
  MaxTime,         \* bound: the clock
  MaxBlocks,       \* bound: blocks with a log of the proposal
  MaxReorgs,       \* bound: replaced blocks
  ReorgAge,        \* how old a block is at most when it is replaced
  StoreDelay,      \* how long a block waits at most until it is stored
  MaxLate          \* bound: clock ticks that do not wait for the worker

ASSUME GovernanceAssumption ==
  /\ {Soon, Safety, MaxBlocks, MaxReorgs, ReorgAge, StoreDelay, MaxLate} \subseteq Nat
  /\ MaxTime \in Nat /\ 0 < MaxTime

Times == 1 .. MaxTime

VARIABLES
  now,
  chain,           \* [Times -> log]: the node's blocks; at most one log in each
  forks,           \* [Times -> how often the block of that time was replaced]
  news,            \* [Times -> when the block got its present form]
  db,              \* [Times -> stored block]: the tables' rows by included_in_block
  jobs,            \* notification_jobs, without the soft-deleted ones
  notifs,          \* notifications
  worker,          \* where the worker's transaction is
  txNow,           \* its NOW()
  todo,            \* the jobs it has read and still has to execute
  done,            \* those it has executed
  written,         \* the rows it has inserted, not committed: [notifs, jobs]
  reorgs,          \* bound: blocks replaced so far
  late,            \* history and bound: ticks that overtook a due job
  raced,           \* history: delete_block took rows the worker was working on
  gaveUp           \* history: when, and in which state, jobs found nothing to announce

node == <<chain, forks, news, reorgs>>
tx == <<txNow, todo, done, written>>
history == <<raced, gaveUp>>
vars == <<now, node, db, jobs, notifs, worker, tx, late, history>>

NothingWritten == [notifs |-> {}, jobs |-> {}]

State == ContractState(chain, now)

Init ==
  /\ now = 1
  /\ chain = [t \in Times |-> NoLog]
  /\ forks = [t \in Times |-> 0]
  /\ news = [t \in Times |-> 0]
  /\ db = [t \in Times |-> NotStored]
  /\ jobs = {} /\ notifs = {}
  /\ worker = "idle" /\ txNow = 0 /\ todo = {} /\ done = {} /\ written = NothingWritten
  /\ reorgs = 0 /\ late = 0 /\ raced = FALSE /\ gaveUp = {}

-----------------------------------------------------------------------------
(* The contract's logs (external)                                          *)

LogsAt == {t \in Times : chain[t] # NoLog}

Voting(c, vote, unvote) ==
  (UNION {{Voted(vote, u, TRUE), Voted(vote, u, FALSE)} : u \in Voters})
  \cup {Voted(unvote, u, FALSE) : u \in Supporters(c, vote, unvote, TRUE)
                                      \cup Supporters(c, vote, unvote, FALSE)}

\* The log a block of time t may bring on top of the chain c: one call.
Calls(c, t) ==
  LET state == ContractState(c, t)
  IN CASE state = "NONE"     -> {Plain("created")}
       [] state = "WARMUP"   -> {Plain("canceled")}
       [] state = "ACTIVE"   -> {Plain("canceled")} \cup Voting(c, "vote", "unvote")
       [] state = "ACCEPTED" -> {Plain("queued")}
       [] state = "QUEUED"   -> IF Logged(c, "abrogation") = {} THEN {Plain("abrogation")}
                                ELSE Voting(c, "abVote", "abUnvote")
       [] state = "GRACE"    -> {Plain("executed")}
       [] state \in {"CANCELED", "EXECUTED", "FAILED", "ABROGATED", "EXPIRED"} -> {}

Call ==
  /\ chain[now] = NoLog /\ forks[now] = 0
  /\ Cardinality(LogsAt) < MaxBlocks
  /\ \E log \in Calls(chain, now) : chain' = [chain EXCEPT ![now] = log]
  /\ news' = [news EXCEPT ![now] = now]
  /\ UNCHANGED <<now, forks, reorgs, db, jobs, notifs, worker, tx, late, history>>

\* The newest block with a log is replaced by one with another log or none.
Reorg(t) ==
  /\ chain[t] # NoLog /\ \A u \in LogsAt : u <= t
  /\ now - t <= ReorgAge
  /\ reorgs < MaxReorgs /\ reorgs' = reorgs + 1
  /\ LET below == [chain EXCEPT ![t] = NoLog]
     IN \E log \in ({NoLog} \cup Calls(below, t)) \ {chain[t]} :
          chain' = [chain EXCEPT ![t] = log]
  /\ forks' = [forks EXCEPT ![t] = @ + 1]
  /\ news' = [news EXCEPT ![t] = now]
  /\ UNCHANGED <<now, db, jobs, notifs, worker, tx, late, history>>

-----------------------------------------------------------------------------
(* Jobs and notifications: each job's constructor and what it does, given  *)
(* the proposal's state s.  A job that is due at a time announces itself   *)
(* from that time on.                                                      *)

Day == 2 * MaxTime   \* longer than what the bound lets us see

\* A job and a notification belong to the block they come from, in the form it had.
Job(type, on, p, from) ==
  [type |-> type, on |-> on, p |-> p, block |-> from.block, fork |-> from.fork]
Notif(type, starts, expires, from) ==
  [type |-> type, starts |-> starts, expires |-> expires,
   block |-> from.block, fork |-> from.fork, copy |-> 1]

\* A table is a bag: the same row can be inserted a second time.
Insert(rows) == notifs \cup {IF r \in notifs THEN [r EXCEPT !.copy = 2] ELSE r : r \in rows}

\* In the state it wants a job tells, and schedules the next; in another one it does
\* nothing, and its chain ends.
Announce(j, s, wanted, type, expires, next) ==
  IF s # wanted THEN NothingWritten
  ELSE [notifs |-> {Notif(type, j.on, expires, j)}, jobs |-> next]

NewQueueEnding(p, from) == Job("queueEnding", Eta(p) - Soon, p, from)
QueueEnding(j, s) == Announce(j, s, "ACCEPTED", "queueEnding", Eta(j.p), {})

\* Mutant: the outcome is announced without the safety delay.
NewOutcome_noDelay(p, from) == Job("outcome", VotingEnd(p), p, from)

\* Mutant: an accepted proposal is shown as such for another day.
Outcome_longAccepted(j, s) ==
  LET Tell(wanted, type, expires, next) == Announce(j, s, wanted, type, expires, next)
  IN IF s = "ACCEPTED"
     THEN Tell("ACCEPTED", "accepted", Eta(j.p) + Day, {NewQueueEnding(j.p, j)})
     ELSE Tell("FAILED", IF BelowQuorum(db, j.p) THEN "failedQuorum" ELSE "failedVotes",
               VotingEnd(j.p) + Day, {})

NewOutcome(p, from) == Job("outcome", VotingEnd(p) + Safety, p, from)
Outcome(j, s) ==
  LET Tell(wanted, type, expires, next) == Announce(j, s, wanted, type, expires, next)
  IN IF s = "ACCEPTED"
     THEN Tell("ACCEPTED", "accepted", Eta(j.p), {NewQueueEnding(j.p, j)})
     ELSE Tell("FAILED", IF BelowQuorum(db, j.p) THEN "failedQuorum" ELSE "failedVotes",
               VotingEnd(j.p) + Day, {})

NewVotingEnding(p, from) == Job("votingEnding", VotingEnd(p) - Soon, p, from)
VotingEnding(j, s) ==
  Announce(j, s, "ACTIVE", "votingEnding", VotingEnd(j.p), {NewOutcome(j.p, j)})

\* Mutant: nothing follows the opening of the vote.
VotingOpen_last(j, s) ==
  Announce(j, s, "ACTIVE", "votingOpen", VotingEnd(j.p) - Soon, {})

NewVotingOpen(p, from) == Job("votingOpen", WarmUpEnd(p), p, from)
VotingOpen(j, s) ==
  Announce(j, s, "ACTIVE", "votingOpen", VotingEnd(j.p) - Soon, {NewVotingEnding(j.p, j)})

NewActivating(p, from) == Job("activating", WarmUpEnd(p) - Soon, p, from)
Activating(j, s) ==
  Announce(j, s, "WARMUP", "activating", WarmUpEnd(j.p), {NewVotingOpen(j.p, j)})

NewExpired(p, from) == Job("expired", GraceEnd(p) + Safety, p, from)
Expired(j, s) == Announce(j, s, "EXPIRED", "expired", GraceEnd(j.p) + Day, {})

NewExpires(p, from) == Job("expires", GraceEnd(p) - Soon, p, from)
Expires(j, s) == Announce(j, s, "GRACE", "expires", GraceEnd(j.p), {NewExpired(j.p, j)})

NewGracePeriod(p, from) == Job("grace", Eta(p), p, from)
GracePeriod(j, s) == Announce(j, s, "GRACE", "grace", GraceEnd(j.p), {NewExpires(j.p, j)})

NewAbrogated(p, from) == Job("abrogated", Eta(p) + Safety, p, from)
Abrogated(j, s) == Announce(j, s, "ABROGATED", "abrogated", Eta(j.p) + Day, {})

\* ExecuteJobsWithTx
Execution(j, s) ==
  CASE j.type = "activating"   -> Activating(j, s)
    [] j.type = "votingOpen"   -> VotingOpen(j, s)
    [] j.type = "votingEnding" -> VotingEnding(j, s)
    [] j.type = "outcome"      -> Outcome(j, s)
    [] j.type = "queueEnding"  -> QueueEnding(j, s)
    [] j.type = "grace"        -> GracePeriod(j, s)
    [] j.type = "expires"      -> Expires(j, s)
    [] j.type = "expired"      -> Expired(j, s)
    [] j.type = "abrogated"    -> Abrogated(j, s)

\* The jobs of a block's event, which the storables execute at once: on is the block's
\* time.  row holds the proposal as the database has it, if it has.
Event(type, t) == Job(type, t, UnknownParams, [block |-> t, fork |-> forks[t]])

Created(e, p) ==
  [notifs |-> {Notif("created", p.create, WarmUpEnd(p) - Soon, e)},
   jobs |-> {NewActivating(p, e)}]

WhileQueued(e, row) == {Notif(e.type, e.on, Eta(p), e) : p \in {q \in row : Eta(q) > now}}

Queued(e, s, row) ==
  IF s # "QUEUED" THEN NothingWritten
  ELSE [notifs |-> WhileQueued(e, row), jobs |-> {NewGracePeriod(p, e) : p \in row}]

AbrogationCreated(e, row) ==
  [notifs |-> WhileQueued(e, row), jobs |-> {NewAbrogated(p, e) : p \in row}]

CanceledJob(e, s) ==
  IF s # "CANCELED" THEN NothingWritten
  ELSE [notifs |-> {Notif("canceled", e.on + Safety, e.on + Day, e)}, jobs |-> {}]

ExecutedJob(e, s) ==
  IF s # "EXECUTED" THEN NothingWritten
  ELSE [notifs |-> {Notif("executed", e.on + Safety, e.on + Day, e)}, jobs |-> {}]

Ballot == {"vote", "unvote", "abVote", "abUnvote"}

\* What the event of block t writes; db2 are the tables with the block's own rows.
FromBlock(t, db2, row) ==
  LET type == chain[t].type
      e == Event(type, t)
      s == ProposalState(db2, row, now)
  IN CASE type = "created"    -> Created(e, db2[t].params)
       [] type = "queued"     -> Queued(e, s, row)
       [] type = "abrogation" -> AbrogationCreated(e, row)
       [] type = "canceled"   -> CanceledJob(e, s)
       [] type = "executed"   -> ExecutedJob(e, s)
       [] type \in Ballot    -> NothingWritten

-----------------------------------------------------------------------------
(* The indexer                                                             *)

Outdated(t) == db[t] # NotStored /\ db[t].fork # forks[t]
Behind(t) == Outdated(t) \/ (db[t] = NotStored /\ chain[t] # NoLog)
Synced == \A t \in Times : ~Behind(t)

\* handleProposals asks the node's latest state for the proposal, not the block's.
LatestParams ==
  IF Logged(chain, "created") = {} THEN UnknownParams
  ELSE Params(CHOOSE t \in Times : \E l \in Logged(chain, "created") : l.at = t)

\* Mutant: dbTables lacks notification_jobs.
DeleteBlock_keepsJobs(t) ==
  /\ Outdated(t)
  /\ db' = [db EXCEPT ![t] = NotStored]
  /\ notifs' = {n \in notifs : n.block # t}
  /\ raced' = (raced \/ \E j \in todo \cup done : j.block = t)
  /\ UNCHANGED <<now, node, jobs, worker, tx, late, gaveUp>>

\* Mutant: dbTables lacks notifications.
DeleteBlock_keepsNotifs(t) ==
  /\ Outdated(t)
  /\ db' = [db EXCEPT ![t] = NotStored]
  /\ jobs' = {j \in jobs : j.block # t}
  /\ raced' = (raced \/ \E j \in todo \cup done : j.block = t)
  /\ UNCHANGED <<now, node, notifs, worker, tx, late, gaveUp>>

\* delete_block, which commits on its own: every table row of the block.
DeleteBlock(t) ==
  /\ Outdated(t)
  /\ db' = [db EXCEPT ![t] = NotStored]
  /\ jobs' = {j \in jobs : j.block # t}
  /\ notifs' = {n \in notifs : n.block # t}
  /\ raced' = (raced \/ \E j \in todo \cup done : j.block = t)
  /\ UNCHANGED <<now, node, worker, tx, late, gaveUp>>

\* The transaction over all storables: rows, then the jobs of the block's events.
StoreBlock(t) ==
  /\ db[t] = NotStored /\ chain[t] # NoLog
  /\ db' = [db EXCEPT ![t] =
              [log |-> chain[t], fork |-> forks[t],
               params |-> IF chain[t].type = "created" THEN LatestParams
                          ELSE UnknownParams]]
  /\ \E row \in OneOf(ProposalRows(db')) :
       LET new == FromBlock(t, db', row)
       IN jobs' = jobs \cup new.jobs /\ notifs' = Insert(new.notifs)
  /\ UNCHANGED <<now, node, worker, tx, late, history>>

-----------------------------------------------------------------------------
(* The notification worker                                                 *)

Due == {j \in jobs : j.on < now}

Fetch ==
  /\ worker = "idle" /\ Due # {}
  /\ worker' = "running"
  /\ txNow' = now
  /\ todo' = Due
  /\ UNCHANGED <<now, node, db, jobs, notifs, done, written, late, history>>

\* Its reads see what others have committed meanwhile.  A job of the outcome whose
\* proposal's row is gone is an error, and the end of the process.
Execute(j) ==
  /\ j \in todo
  /\ \E row \in OneOf(ProposalRows(db)) :
       LET s == ProposalState(db, row, txNow)
           new == Execution(j, s) IN
       /\ written' = [notifs |-> written.notifs \cup new.notifs,
                      jobs |-> written.jobs \cup new.jobs]
       /\ gaveUp' = IF new = NothingWritten
                    THEN gaveUp \cup {[at |-> txNow, state |-> s]}
                    ELSE gaveUp
  /\ todo' = todo \ {j} /\ done' = done \cup {j}
  /\ UNCHANGED <<now, node, db, jobs, notifs, worker, txNow, late, raced>>

\* Mutant: what was written survives the transaction.
EndTx_keepsWritten ==
  worker' = "idle" /\ txNow' = 0 /\ todo' = {} /\ done' = {} /\ UNCHANGED written

EndTx ==
  worker' = "idle" /\ txNow' = 0 /\ todo' = {} /\ done' = {} /\ written' = NothingWritten

\* Mutant: the jobs are not deleted.
Commit_keepsJobs ==
  /\ worker = "running" /\ todo = {}
  /\ jobs' = jobs \cup written.jobs
  /\ notifs' = Insert(written.notifs)
  /\ EndTx
  /\ UNCHANGED <<now, node, db, late, history>>

Commit ==
  /\ worker = "running" /\ todo = {}
  /\ jobs' = (jobs \ done) \cup written.jobs
  /\ notifs' = Insert(written.notifs)
  /\ EndTx
  /\ UNCHANGED <<now, node, db, late, history>>

\* A signal or an error rolls the transaction back; the process is started again.
Crash ==
  /\ worker = "running" /\ late < MaxLate
  /\ late' = late + 1
  /\ EndTx
  /\ UNCHANGED <<now, node, db, jobs, notifs, history>>

-----------------------------------------------------------------------------

\* Blocks are stored in time, and the worker, polling every second, runs what is due
\* before the clock moves on, but for MaxLate times.
Tick ==
  /\ now < MaxTime
  /\ news # [t \in Times |-> 0]     \* the clock starts with the proposal
  /\ \A t \in Times : Behind(t) => now - news[t] < StoreDelay
  /\ \/ worker = "idle" /\ Due = {} /\ UNCHANGED late
     \/ ~(worker = "idle" /\ Due = {}) /\ late < MaxLate /\ late' = late + 1
  /\ now' = now + 1
  /\ UNCHANGED <<node, db, jobs, notifs, worker, tx, history>>

Worker == Fetch \/ (\E j \in todo : Execute(j)) \/ Commit

Next ==
  \/ Call
  \/ \E t \in Times : Reorg(t) \/ DeleteBlock(t) \/ StoreBlock(t)
  \/ Worker
  \/ Crash
  \/ Tick

Spec == Init /\ [][Next]_vars
FairSpec == Spec /\ WF_vars(Worker)

-----------------------------------------------------------------------------
(* Properties                                                              *)

JobTypes == {"activating", "votingOpen", "votingEnding", "outcome", "queueEnding",
             "grace", "abrogated", "expires", "expired"}
Blocks == [block : Times, fork : Nat]
Once == {"created", "queued", "canceled", "executed", "abrogation"}
Logs == {NoLog} \cup [type : Once \cup Ballot, user : Voters \cup {Nobody}, support : BOOLEAN]
AllParams == {UnknownParams} \cup {Params(t) : t \in Times}
StoredBlocks == [log : Logs, fork : -1 .. MaxReorgs, params : AllParams]
IsJob(j) ==
  /\ j.type \in JobTypes /\ [block |-> j.block, fork |-> j.fork] \in Blocks
  /\ j.on \in Int /\ j.p \in AllParams

TypeOK ==
  /\ now \in Times
  /\ chain \in [Times -> Logs] /\ db \in [Times -> StoredBlocks]
  /\ reorgs \in 0 .. MaxReorgs
  /\ forks \in [Times -> 0 .. MaxReorgs] /\ news \in [Times -> 0 .. MaxTime]
  /\ \A j \in jobs \cup todo \cup done \cup written.jobs : IsJob(j)
  /\ \A n \in notifs \cup written.notifs : n.block \in Times /\ n.copy \in 1 .. 2
  /\ worker \in {"idle", "running"} /\ txNow \in 0 .. MaxTime
  /\ worker = "idle" => todo = {} /\ done = {} /\ written = NothingWritten
  /\ late \in 0 .. MaxLate /\ raced \in BOOLEAN
  /\ \A g \in gaveUp : g.at \in Times

(* With every block stored, the SQL function gives the contract's state,   *)
(* whatever was voted, canceled, replaced and in whatever order it was     *)
(* stored.                                                                 *)
SqlMatchesContract ==
  Synced /\ State # "NONE" => ProposalState(db, ProposalRows(db), now) = State

\* Where the two ways to compute the state part: the last second of a phase, the first one
\* of the vote, whose entry starts when a cancellation's does, and a vote or an abrogation
\* that is just carried or just not.
Edge(p) ==
  \/ now = Eta(p)
  \/ \E e \in EventRows(db) :
       e.type = "canceled" /\ e.at \in {WarmUpEnd(p), WarmUpEnd(p) + 1, VotingEnd(p)}
  \/ \E e \in EventRows(db) : e.type = "executed" /\ e.at = Eta(p)
  \/ ~BelowQuorum(db, p) /\ 100 * ForVotes(db) = p.threshold * AllVotes(db)
  \/ AbrogationRows(db) # {} /\ 2 * Tally(AbrogationVotes(db), TRUE) = Staked

\* The entries after which buildHistory returns because nothing can follow.
Final == {"CANCELED", "FAILED", "ABROGATED", "EXECUTED", "EXPIRED"}

(* The first entry of the API's history is the state proposal_state gives, *)
(* the end shown for it is at most one second off its time left, and the   *)
(* list of active proposals has it exactly while its history can grow.     *)
HistoryAgrees ==
  \A p \in ProposalRows(db) :
    Synced /\ ~Edge(p) =>
      LET page == Details(db, now, p) IN
      \E e \in page.shown :
        /\ page.shown = {e} /\ e.name = page.state
        /\ page.timeLeft # -1 => ShownEnd(e, p) - now - page.timeLeft \in {0, 1}
        /\ page.state \in Listed("ACTIVE") <=> e.name \notin Final

(* buildHistory's comment: "if the proposal was not canceled during the    *)
(* ACTIVE period, that means it reached one of ACCEPTED/FAILED".           *)
CanceledShown ==
  \A p \in ProposalRows(db) :
    Canceled(db) /\ (\A e \in EventRows(db) : e.type = "canceled" => e.at > p.create)
      => \A e \in Shown(db, now, p) : e.name = "CANCELED"

\* What a notification claims of the chain for good.
True(n) ==
  /\ n.type = "accepted" => ContractCarried(chain)
  /\ n.type \in {"failedQuorum", "failedVotes"} => State = "FAILED"
  /\ n.type = "expired" => State = "EXPIRED"
  /\ n.type = "abrogated" => State = "ABROGATED"
  /\ n.type = "canceled" => State = "CANCELED"
  /\ n.type = "executed" => State = "EXECUTED"

(* The comment on the delays, "to make sure we are free of reorgs": what   *)
(* is announced as final is what the contract ends up with.  (Not of a     *)
(* notification whose transaction overlapped a delete_block.)              *)
FinalIsFinal ==
  Synced /\ ~raced => \A n \in notifs : True(n)

(* Replacing a block leaves none of its jobs and notifications behind,     *)
(* unless delete_block ran while the worker worked on them.                *)
NoOrphanRows ==
  ~raced => \A r \in jobs \cup notifs : db[r.block] # NotStored /\ db[r.block].fork = r.fork

(* Nothing is announced twice, whatever is replaced and stored again, and  *)
(* however often the worker dies.                                          *)
AnnouncedOnce ==
  Synced /\ ~raced => \A m, n \in notifs : m.type = n.type => m = n

Announced(types) == \E n \in notifs : n.type \in types

\* A job gave up over a state the proposal, as the chain is now, was not in.
Misled ==
  \E g \in gaveUp :
    ContractState([t \in Times |-> IF t <= g.at THEN chain[t] ELSE NoLog], g.at) # g.state

(* With a worker that runs in time each phase the proposal enters is       *)
(* announced.  A job that gives up has no successor, so this holds only    *)
(* while none was misled by rows that a reorg took back.                   *)
PhasesAnnounced ==
  \A p \in ProposalRows(db) :
    Synced /\ late = 0 /\ worker = "idle" /\ Due = {} /\ ~Misled =>
      LET state == ProposalState(db, {p}, now) IN
      /\ state = "ACTIVE" /\ now > WarmUpEnd(p) + 1 => Announced({"votingOpen"})
      /\ state \in {"ACCEPTED", "FAILED"} /\ now > VotingEnd(p) + Safety =>
           Announced({"accepted", "failedQuorum", "failedVotes"})
      /\ state = "EXPIRED" /\ Announced({"queued"}) /\ now > GraceEnd(p) + Safety =>
           Announced({"expired"})
      /\ state = "ABROGATED" /\ now > Eta(p) + Safety => Announced({"abrogated"})

\* handleNotifications
Visible == {n \in notifs : n.starts < now /\ now < n.expires}

(* A notification the API shows does not speak of a phase that is over,    *)
(* unless a cancellation or an execution ended it early.  The grace period *)
(* is announced without the safety delay, so the vote that abrogates the   *)
(* proposal may still be missing then.                                     *)
ShownInItsPhase ==
  Synced /\ ~raced =>
    \A n \in Visible :
      LET Says(types, states) == n.type \in types => State \in states IN
      /\ Says({"activating", "created"}, {"WARMUP", "CANCELED"})
      /\ Says({"votingOpen", "votingEnding"}, {"ACTIVE", "CANCELED"})
      /\ Says({"queueEnding", "accepted"}, {"ACCEPTED", "QUEUED"})
      /\ Says({"queued", "abrogation"}, {"QUEUED"})
      /\ Says({"grace", "expires"}, {"GRACE", "EXECUTED", "ABROGATED"})

(* Whatever is due is executed and leaves the queue.                       *)
Settles == <>[](Due = {})
================================================================================
