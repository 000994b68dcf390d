---------------------------- MODULE GovernanceProofs ----------------------------
(***************************************************************************)
(* Theorems about Governance, for all voters and powers, durations,        *)
(* thresholds and bounds.                                                  *)
(***************************************************************************)
EXTENDS Governance, Sums, TLAPS

LEMMA ConstantTypes ==
  /\ Soon \in Nat /\ Safety \in Nat /\ MaxBlocks \in Nat /\ MaxReorgs \in Nat
  /\ ReorgAge \in Nat /\ StoreDelay \in Nat /\ MaxLate \in Nat /\ MaxTime \in Nat /\ 0 < MaxTime
  /\ WarmUp \in Nat /\ Active \in Nat /\ Queue \in Nat /\ Grace \in Nat
  /\ Threshold \in Nat /\ MinQuorum \in Nat /\ Staked \in Nat
  /\ IsFiniteSet(Voters) /\ Power \in [Voters -> Nat]
BY GovernanceAssumption, ProposalAssumption

LEMMA ParamsTypes ==
  ASSUME NEW p \in AllParams
  PROVE  /\ p.create \in Nat /\ p.warm \in Nat /\ p.active \in Nat /\ p.queue \in Nat
         /\ p.grace \in Nat /\ p.threshold \in Nat /\ p.quorum \in Nat
         /\ WarmUpEnd(p) \in Nat /\ VotingEnd(p) \in Nat /\ Eta(p) \in Nat /\ GraceEnd(p) \in Nat
<1>1. /\ p.create \in Nat /\ p.warm \in Nat /\ p.active \in Nat /\ p.queue \in Nat
      /\ p.grace \in Nat /\ p.threshold \in Nat /\ p.quorum \in Nat
  BY ConstantTypes DEF AllParams, UnknownParams, Params, Times
<1> QED  BY <1>1 DEF WarmUpEnd, VotingEnd, Eta, GraceEnd

-----------------------------------------------------------------------------
(* What a job or an event writes: rows of its block, a notification of its *)
(* own stage, and at most one job, of a later stage.                       *)

Stage(type) ==
  IF type \in Once THEN 0
  ELSE IF type \in {"activating", "grace", "abrogated"} THEN 1
  ELSE IF type \in {"votingOpen", "expires"} THEN 2
  ELSE IF type \in {"votingEnding", "expired"} THEN 3
  ELSE IF type = "queueEnding" THEN 5
  ELSE 4    \* the outcome, under its three names

\* The log that a row of this type goes back to.
Source(type) ==
  IF type \in {"queued", "grace", "expires", "expired"} THEN "queued"
  ELSE IF type \in {"abrogation", "abrogated"} THEN "abrogation"
  ELSE IF type \in {"canceled", "executed"} THEN type
  ELSE "created"

Of(r, from) == r.block = from.block /\ r.fork = from.fork

LEMMA ExecutionRows ==
  ASSUME NEW j, IsJob(j), NEW s
  PROVE  LET new == Execution(j, s) IN
         /\ \A k \in new.jobs : /\ IsJob(k) /\ Of(k, j) /\ Source(k.type) = Source(j.type)
                                /\ Stage(j.type) < Stage(k.type)
         /\ \A n \in new.notifs : /\ n.copy = 1 /\ Of(n, j) /\ Source(n.type) = Source(j.type)
                                  /\ Stage(n.type) = Stage(j.type)
         /\ \A k, l \in new.jobs : k = l
         /\ \A n, m \in new.notifs : n = m
<1> USE ConstantTypes, ParamsTypes DEF IsJob, Blocks, JobTypes, Once, Of, Stage, Source, Announce,
    NothingWritten, Notif, Job
<1>1. CASE j.type = "activating"
  BY <1>1 DEF Execution, Activating, NewVotingOpen
<1>2. CASE j.type = "votingOpen"
  BY <1>2 DEF Execution, VotingOpen, NewVotingEnding
<1>3. CASE j.type = "votingEnding"
  BY <1>3 DEF Execution, VotingEnding, NewOutcome
<1>4. CASE j.type = "outcome"
  BY <1>4 DEF Execution, Outcome, NewQueueEnding
<1>5. CASE j.type = "queueEnding"
  BY <1>5 DEF Execution, QueueEnding
<1>6. CASE j.type = "grace"
  BY <1>6 DEF Execution, GracePeriod, NewExpires
<1>7. CASE j.type = "expires"
  BY <1>7 DEF Execution, Expires, NewExpired
<1>8. CASE j.type = "expired" \/ j.type = "abrogated"
  BY <1>8 DEF Execution, Expired, Abrogated
<1> QED  BY <1>1, <1>2, <1>3, <1>4, <1>5, <1>6, <1>7, <1>8

(* The tables.  A query for the proposal returns at most one row.          *)

LEMMA TableTypes ==
  ASSUME NEW tables \in [Times -> StoredBlocks]
  PROVE  /\ StoredLogs(tables) \in [Times -> Logs]
         /\ ProposalRows(tables) \subseteq AllParams
<1>1. DOMAIN tables = Times /\ \A t \in Times : tables[t].log \in Logs /\ tables[t].params \in AllParams
  BY DEF StoredBlocks
<1>2. StoredLogs(tables) = [t \in Times |-> tables[t].log]
  BY <1>1 DEF StoredLogs
<1>3. \A r \in Rows(tables, "created") : r.at \in Times
  BY <1>2 DEF Rows, Logged
<1> QED  BY <1>1, <1>2, <1>3 DEF ProposalRows

LEMMA OneRow ==
  ASSUME NEW rows \in SUBSET AllParams, NEW row \in OneOf(rows)
  PROVE  row \subseteq AllParams /\ \A p, q \in row : p = q
BY DEF OneOf

LEMMA LogTypes ==
  ASSUME NEW log \in Logs, log # NoLog
  PROVE  log.type \in Once \cup Ballot /\ log.user \in Voters \cup {Nobody} /\ log.support \in BOOLEAN
BY DEF Logs

\* What the event of block t may write.
EventWrites(new, t) ==
  LET Here(r) == r.block = t /\ r.fork = forks[t] /\ Source(r.type) = chain[t].type
  IN /\ \A k \in new.jobs : IsJob(k) /\ Here(k) /\ 0 < Stage(k.type)
     /\ \A n \in new.notifs : Here(n) /\ n.copy = 1 /\ Stage(n.type) = 0
     /\ \A k, l \in new.jobs : k = l
     /\ \A n, m \in new.notifs : n = m

LEMMA FromBlockRows ==
  ASSUME NEW t \in Times, chain[t] \in Logs, chain[t] # NoLog, forks[t] \in Nat,
         NEW tables \in [Times -> StoredBlocks], NEW row \in SUBSET AllParams,
         \A p, q \in row : p = q
  PROVE  EventWrites(FromBlock(t, tables, row), t)
<1> USE ConstantTypes, ParamsTypes DEF EventWrites, Source, Stage, Once, Ballot, Event, Job, Notif,
    IsJob, Blocks, JobTypes, NothingWritten
<1>1. chain[t].type \in Once \cup Ballot
  BY LogTypes
<1>2. t \in Nat /\ tables[t].params \in AllParams
  BY DEF Times, StoredBlocks
<1>3. CASE chain[t].type = "created"
  BY <1>2, <1>3 DEF FromBlock, Created, NewActivating
<1>4. CASE chain[t].type = "queued"
  BY <1>2, <1>4 DEF FromBlock, Queued, WhileQueued, NewGracePeriod
<1>5. CASE chain[t].type = "abrogation"
  BY <1>2, <1>5 DEF FromBlock, AbrogationCreated, WhileQueued, NewAbrogated
<1>6. CASE chain[t].type \in {"canceled", "executed"}
  BY <1>2, <1>6 DEF FromBlock, CanceledJob, ExecutedJob
<1>7. CASE chain[t].type \in Ballot
  BY <1>7 DEF FromBlock
<1> QED  BY <1>1, <1>3, <1>4, <1>5, <1>6, <1>7
-----------------------------------------------------------------------------
(* Types                                                                   *)

States == {"NONE", "CANCELED", "EXECUTED", "WARMUP", "ACTIVE", "FAILED", "ACCEPTED", "QUEUED",
           "ABROGATED", "EXPIRED", "GRACE"}

LEMMA StateTypes == \A c, t : ContractState(c, t) \in States
BY DEF ContractState, States

LEMMA VotingLogs ==
  ASSUME NEW c, NEW vote, NEW unvote, NEW log \in Voting(c, vote, unvote)
  PROVE  \E u \in Voters, s \in BOOLEAN : log \in {Voted(vote, u, s), Voted(unvote, u, s)}
<1>1. \A s : Supporters(c, vote, unvote, s) \subseteq Voters
  BY DEF Supporters
<1>2. CASE log \in UNION {{Voted(vote, u, TRUE), Voted(vote, u, FALSE)} : u \in Voters}
  BY <1>2
<1>3. CASE log \in {Voted(unvote, u, FALSE) : u \in Supporters(c, vote, unvote, TRUE)
                                      \cup Supporters(c, vote, unvote, FALSE)}
  <2>1. PICK u \in Voters : log = Voted(unvote, u, FALSE)
    BY <1>1, <1>3
  <2> QED  BY <2>1
<1> QED  BY <1>2, <1>3 DEF Voting

LEMMA CallsTypes ==
  ASSUME NEW c, NEW t, NEW log \in Calls(c, t)
  PROVE  log \in Logs /\ log # NoLog /\ (log.type \in Ballot => log.user \in Voters)
<1>1. ContractState(c, t) \in States
  BY StateTypes
<1>2. \A type \in Once : Plain(type) \in Logs /\ Plain(type).type = type
  BY DEF Plain, Logs
<1>3. \A type \in Ballot, u \in Voters, s \in BOOLEAN :
        Voted(type, u, s) \in Logs /\ Voted(type, u, s).type = type /\ Voted(type, u, s).user = u
  BY DEF Voted, Logs
<1>4. CASE log \in Voting(c, "vote", "unvote")
  <2>1. PICK u \in Voters, s \in BOOLEAN : log \in {Voted("vote", u, s), Voted("unvote", u, s)}
    BY <1>4, VotingLogs
  <2> QED  BY <2>1, <1>3 DEF Ballot, NoLog, Plain
<1>5. CASE log \in Voting(c, "abVote", "abUnvote")
  <2>1. PICK u \in Voters, s \in BOOLEAN : log \in {Voted("abVote", u, s), Voted("abUnvote", u, s)}
    BY <1>5, VotingLogs
  <2> QED  BY <2>1, <1>3 DEF Ballot, NoLog, Plain
<1>6. CASE \E type \in Once : log = Plain(type)
  <2>1. NoLog.type = "none"
    BY DEF NoLog, Plain
  <2> QED  BY <1>6, <1>2, <2>1 DEF Once, Ballot
<1>7. \/ \E type \in Once : log = Plain(type)
      \/ log \in Voting(c, "vote", "unvote")
      \/ log \in Voting(c, "abVote", "abUnvote")
  BY <1>1 DEF Calls, States, Once
<1> QED  BY <1>4, <1>5, <1>6, <1>7

\* A replaced block is counted, and a transaction has begun.
BoundsInv ==
  /\ \A t \in Times : forks[t] <= reorgs
  /\ worker = "running" => txNow \in Times
  /\ todo # {} => worker = "running"

LEMMA InitTypes == Init => TypeOK /\ BoundsInv
<1> SUFFICES ASSUME Init PROVE TypeOK /\ BoundsInv
  OBVIOUS
<1> USE ConstantTypes DEF Init, Times
<1>1. chain \in [Times -> Logs] /\ db \in [Times -> StoredBlocks]
  BY DEF Logs, StoredBlocks, NotStored, AllParams
<1>2. /\ now \in Times /\ reorgs \in 0 .. MaxReorgs /\ late \in 0 .. MaxLate
      /\ forks \in [Times -> 0 .. MaxReorgs] /\ news \in [Times -> 0 .. MaxTime]
      /\ txNow \in 0 .. MaxTime
  OBVIOUS
<1>3. /\ worker \in {"idle", "running"} /\ todo = {} /\ done = {} /\ written = NothingWritten
      /\ raced \in BOOLEAN
  OBVIOUS
<1>4. /\ \A j \in jobs \cup todo \cup done \cup written.jobs : IsJob(j)
      /\ \A n \in notifs \cup written.notifs : n.block \in Times /\ n.copy \in 1 .. 2
      /\ \A g \in gaveUp : g.at \in Times
  BY DEF NothingWritten
<1> QED  BY <1>1, <1>2, <1>3, <1>4 DEF TypeOK, BoundsInv

LEMMA InsertTypes ==
  ASSUME NEW rows, \A n \in notifs \cup rows : n.block \in Times /\ n.copy \in 1 .. 2
  PROVE  \A n \in Insert(rows) : n.block \in Times /\ n.copy \in 1 .. 2
<1> SUFFICES ASSUME NEW n \in Insert(rows) PROVE n.block \in Times /\ n.copy \in 1 .. 2
  OBVIOUS
<1>1. ASSUME NEW r \in rows, n = IF r \in notifs THEN [r EXCEPT !.copy = 2] ELSE r
      PROVE  n.block \in Times /\ n.copy \in 1 .. 2
  BY <1>1
<1> QED  BY <1>1 DEF Insert

LEMMA CallTypes == TypeOK /\ Call => TypeOK'
<1> SUFFICES ASSUME TypeOK, Call PROVE TypeOK'
  OBVIOUS
<1>1. chain' \in [Times -> Logs]
  BY CallsTypes DEF TypeOK, Call
<1>2. news' \in [Times -> 0 .. MaxTime]
  BY ConstantTypes DEF TypeOK, Call, Times
<1> QED  BY <1>1, <1>2 DEF TypeOK, Call, tx, history, IsJob

LEMMA ReorgTypes == ASSUME TypeOK, BoundsInv, NEW t \in Times, Reorg(t) PROVE TypeOK' /\ BoundsInv'
<1>1. chain' \in [Times -> Logs]
  BY CallsTypes DEF TypeOK, Reorg, Logs
<1>2. news' \in [Times -> 0 .. MaxTime]
  BY ConstantTypes DEF TypeOK, Reorg, Times
<1>3. reorgs' \in 0 .. MaxReorgs /\ forks' \in [Times -> 0 .. MaxReorgs] /\ BoundsInv'
  BY ConstantTypes DEF TypeOK, Reorg, BoundsInv, tx
<1> QED  BY <1>1, <1>2, <1>3 DEF TypeOK, Reorg, tx, history, IsJob
LEMMA DeleteBlockTypes == ASSUME TypeOK, NEW t \in Times, DeleteBlock(t) PROVE TypeOK'
<1>1. db' \in [Times -> StoredBlocks]
  BY ConstantTypes DEF TypeOK, DeleteBlock, NotStored, StoredBlocks, Logs, AllParams
<1>2. raced' \in BOOLEAN
  BY DEF DeleteBlock
<1> QED  BY <1>1, <1>2 DEF TypeOK, DeleteBlock, node, tx, IsJob

\* The new row, and what its event is given.
LEMMA StoredTypes ==
  ASSUME TypeOK, NEW t \in Times, StoreBlock(t)
  PROVE  /\ db' \in [Times -> StoredBlocks]
         /\ \E row \in SUBSET AllParams :
              /\ \A p, q \in row : p = q
              /\ jobs' = jobs \cup FromBlock(t, db', row).jobs
              /\ notifs' = Insert(FromBlock(t, db', row).notifs)
              /\ EventWrites(FromBlock(t, db', row), t)
<1>1. LatestParams \in AllParams
  <2>1. CASE Logged(chain, "created") = {}
    BY <2>1 DEF LatestParams, AllParams
  <2>2. CASE Logged(chain, "created") # {}
    <3>1. \E u \in Times : \E l \in Logged(chain, "created") : l.at = u
      BY <2>2 DEF TypeOK, Logged
    <3> DEFINE u == CHOOSE u \in Times : \E l \in Logged(chain, "created") : l.at = u
    <3>2. u \in Times
      BY <3>1
    <3>3. LatestParams = Params(u)
      BY <2>2 DEF LatestParams
    <3> HIDE DEF u
    <3> QED  BY <3>2, <3>3 DEF AllParams
  <2> QED  BY <2>1, <2>2
<1>2. db' \in [Times -> StoredBlocks]
  <2> DEFINE new == [log |-> chain[t], fork |-> forks[t],
                     params |-> IF chain[t].type = "created" THEN LatestParams ELSE UnknownParams]
  <2>1. new \in StoredBlocks
    BY <1>1, ConstantTypes DEF TypeOK, StoredBlocks, AllParams
  <2>2. db' = [db EXCEPT ![t] = new]
    BY DEF StoreBlock
  <2> HIDE DEF new
  <2> QED  BY <2>1, <2>2 DEF TypeOK
<1>3. PICK row \in OneOf(ProposalRows(db')) :
        jobs' = jobs \cup FromBlock(t, db', row).jobs /\ notifs' = Insert(FromBlock(t, db', row).notifs)
  BY DEF StoreBlock
<1>4. row \in SUBSET AllParams /\ \A p, q \in row : p = q
  BY <1>2, <1>3, TableTypes, OneRow
<1>5. EventWrites(FromBlock(t, db', row), t)
  <2>1. chain[t] \in Logs /\ chain[t] # NoLog /\ forks[t] \in Nat
    BY ConstantTypes DEF TypeOK, StoreBlock
  <2> QED  BY <1>2, <1>4, <2>1, FromBlockRows
<1> QED  BY <1>2, <1>3, <1>4, <1>5

LEMMA StoreBlockTypes == ASSUME TypeOK, NEW t \in Times, StoreBlock(t) PROVE TypeOK'
<1> PICK row \in SUBSET AllParams :
      /\ jobs' = jobs \cup FromBlock(t, db', row).jobs
      /\ notifs' = Insert(FromBlock(t, db', row).notifs)
      /\ EventWrites(FromBlock(t, db', row), t)
  BY StoredTypes
<1> DEFINE new == FromBlock(t, db', row)
<1>1. (\A k \in new.jobs : IsJob(k)) /\ \A n \in new.notifs : n.block \in Times /\ n.copy \in 1 .. 2
  BY DEF EventWrites
<1>2. (\A j \in jobs' : IsJob(j)) /\ \A n \in notifs' : n.block \in Times /\ n.copy \in 1 .. 2
  <2> HIDE DEF new
  <2>1. \A n \in Insert(new.notifs) : n.block \in Times /\ n.copy \in 1 .. 2
    BY <1>1, InsertTypes DEF TypeOK
  <2>2. jobs' = jobs \cup new.jobs /\ notifs' = Insert(new.notifs)
    BY DEF new
  <2> QED  BY <1>1, <2>1, <2>2 DEF TypeOK
<1>3. db' \in [Times -> StoredBlocks]
  BY StoredTypes
<1> QED  BY <1>2, <1>3 DEF TypeOK, StoreBlock, node, tx, history, IsJob

LEMMA FetchTypes == TypeOK /\ Fetch => TypeOK'
BY DEF TypeOK, Fetch, Due, Times, node, history, IsJob

\* The job that is executed, the state it is told and what it writes.
LEMMA Executes ==
  ASSUME TypeOK, NEW j, Execute(j)
  PROVE  \E s :
           /\ written' = [notifs |-> written.notifs \cup Execution(j, s).notifs,
                          jobs |-> written.jobs \cup Execution(j, s).jobs]
           /\ \E row \in OneOf(ProposalRows(db)) : s = ProposalState(db, row, txNow)
BY DEF Execute

LEMMA ExecuteTypes == ASSUME TypeOK, BoundsInv, NEW j, Execute(j) PROVE TypeOK'
<1> PICK s : written' = [notifs |-> written.notifs \cup Execution(j, s).notifs,
                         jobs |-> written.jobs \cup Execution(j, s).jobs]
  BY Executes
<1>1. j \in todo /\ IsJob(j) /\ j.block \in Times
  BY DEF Execute, TypeOK, IsJob, Blocks
<1> DEFINE new == Execution(j, s)
<1>2. (\A k \in new.jobs : IsJob(k)) /\ \A n \in new.notifs : n.block \in Times /\ n.copy \in 1 .. 2
  BY <1>1, ExecutionRows DEF Of
<1> HIDE DEF new
<1>3. /\ \A k \in written'.jobs : IsJob(k)
      /\ \A n \in written'.notifs : n.block \in Times /\ n.copy \in 1 .. 2
  BY <1>2 DEF TypeOK, new
<1>4. \A g \in gaveUp' : g.at \in Times
  BY <1>1 DEF Execute, TypeOK, BoundsInv
<1> QED  BY <1>1, <1>3, <1>4 DEF TypeOK, Execute, node, IsJob

LEMMA CommitTypes == TypeOK /\ Commit => TypeOK'
<1> SUFFICES ASSUME TypeOK, Commit PROVE TypeOK'
  OBVIOUS
<1>1. \A n \in notifs' : n.block \in Times /\ n.copy \in 1 .. 2
  BY InsertTypes DEF Commit, TypeOK
<1> QED  BY <1>1, ConstantTypes DEF TypeOK, Commit, EndTx, NothingWritten, node, history, IsJob

LEMMA CrashTypes == TypeOK /\ Crash => TypeOK'
BY ConstantTypes DEF TypeOK, Crash, EndTx, NothingWritten, node, history, IsJob

LEMMA TickTypes == TypeOK /\ Tick => TypeOK'
BY ConstantTypes DEF TypeOK, Tick, Times, node, tx, history, IsJob
TypeInv == TypeOK /\ BoundsInv

LEMMA TypeStep == TypeInv /\ [Next]_vars => TypeInv'
<1> SUFFICES ASSUME TypeInv, [Next]_vars PROVE TypeInv'
  OBVIOUS
<1> USE DEF TypeInv
<1>1. ASSUME NEW t \in Times, Reorg(t) PROVE TypeInv'
  BY <1>1, ReorgTypes
<1>2. CASE Call \/ \E t \in Times : DeleteBlock(t) \/ StoreBlock(t)
  <2>1. BoundsInv'
    BY <1>2 DEF BoundsInv, Call, DeleteBlock, StoreBlock, node, tx
  <2> QED  BY <1>2, <2>1, CallTypes, DeleteBlockTypes, StoreBlockTypes
<1>3. CASE Fetch
  BY <1>3, FetchTypes DEF TypeOK, BoundsInv, Fetch, node
<1>4. ASSUME NEW j, Execute(j) PROVE TypeInv'
  BY <1>4, ExecuteTypes DEF BoundsInv, Execute, node
<1>5. CASE Commit \/ Crash
  BY <1>5, CommitTypes, CrashTypes DEF BoundsInv, Commit, Crash, EndTx, node
<1>6. CASE Tick
  BY <1>6, TickTypes DEF BoundsInv, Tick, node, tx
<1>7. CASE UNCHANGED vars
  BY <1>7 DEF TypeOK, BoundsInv, IsJob, vars, node, tx, history
<1> QED  BY <1>1, <1>2, <1>3, <1>4, <1>5, <1>6, <1>7 DEF Next, Worker

\* Every variable keeps its type: jobs belong to a block and are due at a time, whatever the
\* parameters a replaced block had, and between transactions nothing is left of one.
THEOREM TypeCorrect == Spec => []TypeOK
<1>1. Init => TypeInv
  BY InitTypes DEF TypeInv
<1> QED  BY <1>1, TypeStep, PTL DEF Spec, TypeInv

-----------------------------------------------------------------------------
(* The rows of a block                                                     *)

\* The row goes back to the block as it is stored.
Owned(r) ==
  /\ db[r.block] # NotStored /\ db[r.block].fork = r.fork
  /\ db[r.block].log.type = Source(r.type)

SameBlock(r, q) == r.block = q.block

\* A block has one job at a time, of a stage none of its notifications has reached.
BlockRows ==
  /\ \A r \in jobs \cup notifs : Owned(r)
  /\ \A i, j \in jobs : SameBlock(i, j) => i = j
  /\ \A n \in notifs : n.copy = 1
  /\ \A m, n \in notifs : SameBlock(m, n) /\ m.type = n.type => m = n
  /\ \A j \in jobs, n \in notifs : SameBlock(j, n) => Stage(n.type) < Stage(j.type)

Heir(r, d) == Of(r, d) /\ Source(r.type) = Source(d.type)

\* The worker's transaction is about jobs that are still there, and has written for each it
\* executed at most its own notification and its successor.
TxRows ==
  /\ todo \cup done \subseteq jobs /\ todo \cap done = {}
  /\ \A n \in written.notifs : /\ n.copy = 1
                              /\ \E d \in done : Heir(n, d) /\ Stage(n.type) = Stage(d.type)
  /\ \A k \in written.jobs : \E d \in done : Heir(k, d) /\ Stage(d.type) < Stage(k.type)
  /\ \A m, n \in written.notifs : SameBlock(m, n) => m = n
  /\ \A k, l \in written.jobs : SameBlock(k, l) => k = l

RowsInv == ~raced => BlockRows /\ TxRows

LEMMA BlocksOfRows == TypeOK => \A r \in jobs \cup notifs : r.block \in Times
BY DEF TypeOK, IsJob, Blocks

LEMMA DeleteBlockRows == ASSUME TypeInv, RowsInv, NEW t \in Times, DeleteBlock(t) PROVE RowsInv'
<1> SUFFICES ASSUME ~raced' PROVE BlockRows' /\ TxRows'
  BY DEF RowsInv
<1>1. /\ BlockRows /\ TxRows
      /\ \A j \in todo \cup done : j.block # t
  BY DEF DeleteBlock, RowsInv
<1>2. /\ db' = [db EXCEPT ![t] = NotStored]
      /\ jobs' = {j \in jobs : j.block # t}
      /\ notifs' = {n \in notifs : n.block # t}
      /\ UNCHANGED <<todo, done, written>>
  BY DEF DeleteBlock, tx
<1>3. \A r \in jobs \cup notifs : r.block # t => db'[r.block] = db[r.block]
  BY <1>2, BlocksOfRows DEF TypeInv, TypeOK
<1>4. BlockRows'
  BY <1>1, <1>2, <1>3 DEF BlockRows, Owned, SameBlock
<1>5. TxRows'
  BY <1>1, <1>2 DEF TxRows, SameBlock, Heir, Of
<1> QED  BY <1>4, <1>5

LEMMA StoreBlockRows == ASSUME TypeInv, RowsInv, NEW t \in Times, StoreBlock(t) PROVE RowsInv'
<1> SUFFICES ASSUME ~raced PROVE BlockRows' /\ TxRows'
  BY DEF RowsInv, StoreBlock, history
<1>1. BlockRows /\ TxRows
  BY DEF RowsInv
<1> PICK row \in SUBSET AllParams :
      /\ jobs' = jobs \cup FromBlock(t, db', row).jobs
      /\ notifs' = Insert(FromBlock(t, db', row).notifs)
      /\ EventWrites(FromBlock(t, db', row), t)
  BY StoredTypes DEF TypeInv
<1> DEFINE new == FromBlock(t, db', row)
<1>2. /\ db[t] = NotStored
      /\ db'[t].log = chain[t] /\ db'[t].fork = forks[t] /\ db'[t] # NotStored
      /\ \A u \in Times : u # t => db'[u] = db[u]
      /\ UNCHANGED <<todo, done, written>>
  <2>1. forks[t] # -1
    BY DEF TypeInv, TypeOK
  <2> QED  BY <2>1 DEF StoreBlock, TypeInv, TypeOK, NotStored, tx
<1>3. \A r \in jobs \cup notifs : r.block # t
  BY <1>1, <1>2 DEF BlockRows, Owned
<1>4. notifs' = notifs \cup new.notifs
  <2>1. \A n \in new.notifs : n \notin notifs
    BY <1>3 DEF EventWrites
  <2> HIDE DEF new
  <2>2. notifs' = Insert(new.notifs)
    BY DEF new
  <2> QED  BY <2>1, <2>2 DEF Insert
<1>5. /\ \A k \in new.jobs : Owned(k)' /\ k.block = t /\ 0 < Stage(k.type)
      /\ \A n \in new.notifs : Owned(n)' /\ n.block = t /\ n.copy = 1 /\ Stage(n.type) = 0
      /\ \A k, l \in new.jobs : k = l
      /\ \A n, m \in new.notifs : n = m
      /\ jobs' = jobs \cup new.jobs
  BY <1>2 DEF EventWrites, Owned
<1> HIDE DEF new
<1>6. BlockRows'
  BY <1>1, <1>2, <1>3, <1>4, <1>5, BlocksOfRows DEF TypeInv, BlockRows, Owned, SameBlock
<1>7. TxRows'
  BY <1>1, <1>2, <1>5 DEF TxRows, SameBlock, Heir, Of
<1> QED  BY <1>6, <1>7
LEMMA ExecuteRows == ASSUME TypeInv, RowsInv, NEW j, Execute(j) PROVE RowsInv'
<1> SUFFICES ASSUME ~raced PROVE BlockRows' /\ TxRows'
  BY DEF RowsInv, Execute
<1>1. BlockRows /\ TxRows
  BY DEF RowsInv
<1> PICK s : written' = [notifs |-> written.notifs \cup Execution(j, s).notifs,
                         jobs |-> written.jobs \cup Execution(j, s).jobs]
  BY Executes DEF TypeInv
<1> DEFINE new == Execution(j, s)
<1>2. /\ j \in todo /\ todo' = todo \ {j} /\ done' = done \cup {j}
      /\ UNCHANGED <<db, jobs, notifs>>
  BY DEF Execute
<1>3. /\ \A k \in new.jobs : Heir(k, j) /\ Stage(j.type) < Stage(k.type)
      /\ \A n \in new.notifs : n.copy = 1 /\ Heir(n, j) /\ Stage(n.type) = Stage(j.type)
      /\ \A k, l \in new.jobs : k = l
      /\ \A n, m \in new.notifs : n = m
  BY <1>2, ExecutionRows DEF TypeInv, TypeOK, Heir
<1>4. written'.notifs = written.notifs \cup new.notifs /\ written'.jobs = written.jobs \cup new.jobs
  OBVIOUS
<1> HIDE DEF new
<1>5. \A r \in written.notifs \cup written.jobs : r.block # j.block
  BY <1>1, <1>2 DEF BlockRows, TxRows, SameBlock, Heir, Of
<1>6. BlockRows'
  BY <1>1, <1>2 DEF BlockRows, Owned, SameBlock
<1>7. TxRows'
  <2>1. /\ todo' \cup done' \subseteq jobs' /\ todo' \cap done' = {}
    BY <1>1, <1>2 DEF TxRows
  <2>2. \A n \in written'.notifs : n.copy = 1 /\ \E d \in done' : Heir(n, d) /\ Stage(n.type) = Stage(d.type)
    BY <1>1, <1>2, <1>3, <1>4 DEF TxRows
  <2>3. \A k \in written'.jobs : \E d \in done' : Heir(k, d) /\ Stage(d.type) < Stage(k.type)
    BY <1>1, <1>2, <1>3, <1>4 DEF TxRows
  <2>4. /\ \A m, n \in written'.notifs : SameBlock(m, n) => m = n
        /\ \A k, l \in written'.jobs : SameBlock(k, l) => k = l
    BY <1>1, <1>3, <1>4, <1>5 DEF TxRows, SameBlock, Heir, Of
  <2> QED  BY <2>1, <2>2, <2>3, <2>4 DEF TxRows
<1> QED  BY <1>6, <1>7

LEMMA StageTypes == \A type : Stage(type) \in Nat
BY DEF Stage

LEMMA CommitRows == TypeInv /\ RowsInv /\ Commit => RowsInv'
<1> SUFFICES ASSUME TypeInv, RowsInv, Commit, ~raced PROVE BlockRows' /\ TxRows'
  BY DEF RowsInv, Commit, history
<1>1. BlockRows /\ TxRows
  BY DEF RowsInv
<1>2. /\ jobs' = (jobs \ done) \cup written.jobs
      /\ notifs' = Insert(written.notifs)
      /\ todo' = {} /\ done' = {} /\ written' = NothingWritten /\ db' = db
  BY DEF Commit, EndTx
<1>3. \A n \in written.notifs, m \in notifs : SameBlock(n, m) => Stage(m.type) < Stage(n.type)
  BY <1>1 DEF BlockRows, TxRows, SameBlock, Heir, Of
<1>4. notifs' = notifs \cup written.notifs
  <2>1. \A n \in written.notifs : n \notin notifs
    BY <1>3, StageTypes DEF SameBlock
  <2> QED  BY <1>2, <2>1 DEF Insert
<1>5. \A r \in written.notifs \cup written.jobs : Owned(r)
  BY <1>1 DEF BlockRows, TxRows, Owned, Heir, Of
<1>6. BlockRows'
  <2>1. \A r \in jobs' \cup notifs' : Owned(r)'
    BY <1>1, <1>2, <1>4, <1>5 DEF BlockRows, Owned
  <2>2. \A i, j \in jobs' : SameBlock(i, j) => i = j
    BY <1>1, <1>2 DEF BlockRows, TxRows, SameBlock, Heir, Of
  <2>3. \A n \in notifs' : n.copy = 1
    BY <1>1, <1>4 DEF BlockRows, TxRows
  <2>4. \A m, n \in notifs' : SameBlock(m, n) /\ m.type = n.type => m = n
    BY <1>1, <1>3, <1>4, StageTypes DEF BlockRows, TxRows, SameBlock
  <2>5. \A j \in jobs', n \in notifs' : SameBlock(j, n) => Stage(n.type) < Stage(j.type)
    <3> SUFFICES ASSUME NEW j \in jobs', NEW n \in notifs', SameBlock(j, n)
                 PROVE  Stage(n.type) < Stage(j.type)
      OBVIOUS
    <3>1. CASE j \in jobs \ done /\ n \in notifs
      BY <1>1, <3>1 DEF BlockRows
    <3>2. CASE j \in jobs \ done /\ n \in written.notifs
      BY <1>1, <3>2 DEF BlockRows, TxRows, SameBlock, Heir, Of
    <3>3. CASE j \in written.jobs
      <4>1. PICK d \in done : Heir(j, d) /\ Stage(d.type) < Stage(j.type)
        BY <1>1, <3>3 DEF TxRows
      <4>2. d \in jobs /\ SameBlock(d, n)
        BY <1>1, <4>1 DEF TxRows, SameBlock, Heir, Of
      <4>3. CASE n \in notifs
        BY <1>1, <4>1, <4>2, <4>3, StageTypes DEF BlockRows
      <4>4. CASE n \in written.notifs
        <5>1. PICK e \in done : Heir(n, e) /\ Stage(n.type) = Stage(e.type)
          BY <1>1, <4>4 DEF TxRows
        <5>2. e = d
          BY <1>1, <4>2, <5>1 DEF BlockRows, TxRows, SameBlock, Heir, Of
        <5> QED  BY <4>1, <5>1, <5>2
      <4> QED  BY <1>4, <4>3, <4>4
    <3> QED  BY <1>2, <1>4, <3>1, <3>2, <3>3
  <2> QED  BY <2>1, <2>2, <2>3, <2>4, <2>5 DEF BlockRows
<1>7. TxRows'
  BY <1>2 DEF TxRows, NothingWritten
<1> QED  BY <1>6, <1>7

LEMMA RowsStep == TypeInv /\ RowsInv /\ [Next]_vars => RowsInv'
<1> SUFFICES ASSUME TypeInv, RowsInv, [Next]_vars PROVE RowsInv'
  OBVIOUS
<1>1. ASSUME UNCHANGED <<db, jobs, notifs, todo, done, written, raced>> PROVE RowsInv'
  BY <1>1 DEF RowsInv, BlockRows, TxRows, Owned, SameBlock, Heir, Of
<1>2. ASSUME Call \/ (\E t \in Times : Reorg(t)) \/ Tick \/ UNCHANGED vars PROVE RowsInv'
  BY <1>1, <1>2 DEF Call, Reorg, Tick, vars, tx, history
<1>3. CASE Fetch
  <2>1. UNCHANGED <<db, jobs, notifs, written, done, raced>> /\ todo' = Due /\ done = {}
    BY <1>3 DEF Fetch, history, TypeInv, TypeOK
  <2>2. Due \subseteq jobs
    BY DEF Due
  <2> QED  BY <2>1, <2>2 DEF RowsInv, BlockRows, TxRows, Owned, SameBlock, Heir, Of
<1>4. CASE Crash
  <2>1. /\ UNCHANGED <<db, jobs, notifs, raced>>
        /\ todo' = {} /\ done' = {} /\ written' = NothingWritten
    BY <1>4 DEF Crash, EndTx, history
  <2> QED  BY <2>1 DEF RowsInv, BlockRows, TxRows, Owned, SameBlock, NothingWritten
<1> QED  BY <1>2, <1>3, <1>4, DeleteBlockRows, StoreBlockRows, ExecuteRows, CommitRows
         DEF Next, Worker
\* However blocks are replaced, stored again and worked on, a job or a notification never
\* outlives the form of the block it comes from, unless delete_block ran in the middle of
\* the worker's transaction about it.
THEOREM NoRowOutlivesItsBlock == Spec => []NoOrphanRows
<1>1. Init => TypeInv /\ RowsInv
  BY InitTypes DEF Init, TypeInv, RowsInv, BlockRows, TxRows, NothingWritten
<1>2. (TypeInv /\ RowsInv) /\ [Next]_vars => (TypeInv /\ RowsInv)'
  BY TypeStep, RowsStep
<1>3. RowsInv => NoOrphanRows
  BY DEF RowsInv, BlockRows, Owned, NoOrphanRows
<1> QED  BY <1>1, <1>2, <1>3, PTL DEF Spec

-----------------------------------------------------------------------------
(* The chain                                                               *)

Until(c, t) == [u \in Times |-> IF u < t THEN c[u] ELSE NoLog]

\* Each log is one the contract lets happen on top of the earlier ones.
ChainInv ==
  \A t \in Times : chain[t] # NoLog => t <= now /\ chain[t] \in Calls(Until(chain, t), t)

\* A block stored in its present form has its present log; what the getter returned for a
\* new proposal are its parameters.
StoredInv ==
  \A t \in Times : db[t] # NotStored =>
    /\ db[t].log # NoLog /\ db[t].fork <= forks[t]
    /\ db[t].fork = forks[t] => db[t].log = chain[t]
    /\ db[t].log.type = "created" => db[t].params = Params(t)

\* What the contract accepts once it refuses from then on.
LEMMA CallsOnce ==
  ASSUME NEW c, NEW t, NEW log \in Calls(c, t), log.type \in Once
  PROVE  Logged(c, log.type) = {}
<1>1. ContractState(c, t) \in States
  BY StateTypes
<1>2. ASSUME log \in Voting(c, "vote", "unvote") \/ log \in Voting(c, "abVote", "abUnvote") PROVE FALSE
  BY <1>2, VotingLogs DEF Voted, Once
<1>3. \A type : Plain(type).type = type
  BY DEF Plain
<1>4. CASE ContractState(c, t) \in {"NONE", "WARMUP", "ACTIVE"}
  BY <1>2, <1>3, <1>4 DEF Calls, ContractState
<1>5. CASE ContractState(c, t) \in {"ACCEPTED", "QUEUED", "GRACE"}
  BY <1>2, <1>3, <1>5 DEF Calls, ContractState
<1>6. CASE ContractState(c, t) \in {"CANCELED", "EXECUTED", "FAILED", "ABROGATED", "EXPIRED"}
  BY <1>6 DEF Calls
<1> QED  BY <1>1, <1>4, <1>5, <1>6 DEF States

\* What is logged once: a second log of the type would have to be a call on top of the first.
LEMMA OnceLogged ==
  ASSUME TypeOK, ChainInv, NEW t \in Times, NEW u \in Times,
         chain[t].type \in Once, chain[u].type = chain[t].type
  PROVE  t = u
<1>1. ASSUME NEW v \in Times, NEW w \in Times, v < w, chain[w].type = chain[v].type,
             chain[v].type \in Once
      PROVE  FALSE
  <2> DEFINE c == Until(chain, w)
             type == chain[v].type
  <2>1. chain[w] # NoLog /\ chain[w] \in Calls(c, w)
    BY <1>1 DEF ChainInv, NoLog, Plain, Once
  <2>2. Logged(c, type) # {}
    <3>1. v \in {x \in DOMAIN c : c[x].type = type}
      BY <1>1 DEF Until, Times
    <3> QED  BY <3>1 DEF Logged
  <2> HIDE DEF c
  <2> QED  BY <1>1, <2>1, <2>2, CallsOnce
<1> QED  BY <1>1 DEF Times
\* What the tables tell of a type of log, and what the chain does.
LEMMA LoggedAt ==
  ASSUME NEW c \in [Times -> Logs], NEW type
  PROVE  /\ \A r \in Logged(c, type) : r.at \in Times /\ c[r.at].type = type
                                      /\ r.user = c[r.at].user /\ r.support = c[r.at].support
         /\ \A t \in Times : c[t].type = type => \E r \in Logged(c, type) : r.at = t
<1> DEFINE row(t) == [at |-> t, user |-> c[t].user, support |-> c[t].support]
           times == {t \in DOMAIN c : c[t].type = type}
<1>1. Logged(c, type) = {row(t) : t \in times}
  BY DEF Logged
<1>2. times = {t \in Times : c[t].type = type}
  BY DOMAIN c = Times
<1>3. \A t : row(t).at = t /\ row(t).user = c[t].user /\ row(t).support = c[t].support
  OBVIOUS
<1> HIDE DEF row
<1> QED  BY <1>1, <1>2, <1>3

LEMMA LatestIsOwn ==
  ASSUME TypeOK, ChainInv, NEW t \in Times, chain[t].type = "created"
  PROVE  LatestParams = Params(t)
<1>1. \E l \in Logged(chain, "created") : l.at = t
  BY LoggedAt DEF TypeOK
<1>2. \A u \in Times : (\E l \in Logged(chain, "created") : l.at = u) => u = t
  BY LoggedAt, OnceLogged DEF TypeOK, Once
<1>3. (CHOOSE u \in Times : \E l \in Logged(chain, "created") : l.at = u) = t
  BY <1>1, <1>2
<1> QED  BY <1>1, <1>3 DEF LatestParams

LEMMA ChainStep == TypeOK /\ ChainInv /\ [Next]_vars => ChainInv'
<1> SUFFICES ASSUME TypeOK, ChainInv, [Next]_vars PROVE ChainInv'
  OBVIOUS
<1>t. chain \in [Times -> Logs] /\ now \in Times /\ \A t \in Times : t \in Int
  BY DEF TypeOK, Times
<1>1. ASSUME UNCHANGED chain, now' = now \/ now' = now + 1 PROVE ChainInv'
  BY <1>t, <1>1 DEF ChainInv
<1>2. ASSUME NEW at \in Times, at <= now, now' = now, NEW log, NEW c,
             chain' = [chain EXCEPT ![at] = log],
             c = [chain EXCEPT ![at] = NoLog],
             \A u \in Times : chain[u] # NoLog => u <= at,
             log = NoLog \/ log \in Calls(c, at)
      PROVE  ChainInv'
  <2> SUFFICES ASSUME NEW t \in Times, chain'[t] # NoLog
               PROVE  t <= now /\ chain'[t] \in Calls(Until(chain', t), t)
    BY <1>2 DEF ChainInv
  <2>1. CASE t = at
    <3>1. \A u \in Times : (IF u < t THEN chain'[u] ELSE NoLog) = c[u]
      BY <1>t, <1>2, <2>1
    <3>2. c = [u \in Times |-> c[u]]
      BY <1>t, <1>2
    <3>3. Until(chain', t) = c
      BY <3>1, <3>2 DEF Until
    <3> QED  BY <1>t, <1>2, <2>1, <3>3
  <2>2. CASE t # at
    <3>1. chain'[t] = chain[t] /\ chain[t] # NoLog /\ t < at
      BY <1>t, <1>2, <2>2
    <3>2. Until(chain', t) = Until(chain, t)
      BY <1>t, <1>2, <3>1 DEF Until
    <3> QED  BY <3>1, <3>2 DEF ChainInv
  <2> QED  BY <2>1, <2>2
<1>3. CASE Call
  <2>1. PICK log \in Calls(chain, now) : chain' = [chain EXCEPT ![now] = log]
    BY <1>3 DEF Call
  <2>2. chain = [chain EXCEPT ![now] = NoLog]
    BY <1>3, <1>t DEF Call
  <2>3. \A u \in Times : chain[u] # NoLog => u <= now
    BY DEF ChainInv
  <2>4. now' = now /\ now <= now
    BY <1>3, <1>t DEF Call
  <2>5. log \in Calls([chain EXCEPT ![now] = NoLog], now)
    BY <2>1, <2>2
  <2> QED  BY <1>t, <1>2, <2>1, <2>3, <2>4, <2>5
<1>4. ASSUME NEW t \in Times, Reorg(t) PROVE ChainInv'
  <2> DEFINE below == [chain EXCEPT ![t] = NoLog]
  <2>1. PICK log \in {NoLog} \cup Calls(below, t) : chain' = [chain EXCEPT ![t] = log]
    BY <1>4 DEF Reorg
  <2>2. t <= now /\ now' = now /\ \A u \in Times : chain[u] # NoLog => u <= t
    BY <1>4 DEF Reorg, LogsAt, ChainInv
  <2> QED  BY <1>2, <2>1, <2>2
<1>5. ASSUME \/ \E t \in Times : DeleteBlock(t) \/ StoreBlock(t)
             \/ Worker \/ Crash \/ Tick \/ UNCHANGED vars
      PROVE  UNCHANGED chain /\ (now' = now \/ now' = now + 1)
  BY <1>5 DEF DeleteBlock, StoreBlock, Worker, Fetch, Execute, Commit, Crash, Tick, vars, node
<1> QED  BY <1>1, <1>3, <1>4, <1>5 DEF Next

LEMMA StoredStep == TypeOK /\ ChainInv /\ StoredInv /\ [Next]_vars => StoredInv'
<1> SUFFICES ASSUME TypeOK, ChainInv, StoredInv, [Next]_vars PROVE StoredInv'
  OBVIOUS
<1>t. /\ db \in [Times -> StoredBlocks] /\ forks \in [Times -> 0 .. MaxReorgs]
      /\ chain \in [Times -> Logs] /\ now \in Times /\ MaxReorgs \in Nat
      /\ \A t \in Times : db[t].fork \in Int
  BY ConstantTypes DEF TypeOK, StoredBlocks
<1>1. ASSUME UNCHANGED <<db, forks, chain>> PROVE StoredInv'
  BY <1>1 DEF StoredInv
<1>2. CASE Call
  <2>1. /\ chain[now] = NoLog /\ forks[now] = 0 /\ UNCHANGED <<db, forks>>
        /\ \A t \in Times : t # now => chain'[t] = chain[t]
    BY <1>2, <1>t DEF Call
  <2> QED  BY <1>t, <2>1 DEF StoredInv
<1>3. ASSUME NEW t \in Times, Reorg(t) PROVE StoredInv'
  <2>1. /\ UNCHANGED db /\ forks'[t] = forks[t] + 1
        /\ \A u \in Times : u # t => chain'[u] = chain[u] /\ forks'[u] = forks[u]
    BY <1>3, <1>t DEF Reorg
  <2> QED  BY <1>t, <2>1 DEF StoredInv
<1>4. ASSUME NEW t \in Times, DeleteBlock(t) PROVE StoredInv'
  BY <1>t, <1>4 DEF DeleteBlock, node, StoredInv
<1>5. ASSUME NEW t \in Times, StoreBlock(t) PROVE StoredInv'
  <2>1. /\ chain[t] # NoLog /\ UNCHANGED <<chain, forks>>
        /\ db'[t].log = chain[t] /\ db'[t].fork = forks[t]
        /\ chain[t].type = "created" => db'[t].params = LatestParams
        /\ \A u \in Times : u # t => db'[u] = db[u]
    BY <1>5, <1>t DEF StoreBlock, node
  <2> QED  BY <1>t, <2>1, LatestIsOwn DEF StoredInv
<1>6. ASSUME Worker \/ Crash \/ Tick \/ UNCHANGED vars PROVE UNCHANGED <<db, forks, chain>>
  BY <1>6 DEF Worker, Fetch, Execute, Commit, Crash, Tick, vars, node
<1> QED  BY <1>1, <1>2, <1>3, <1>4, <1>5, <1>6 DEF Next

IInv == TypeInv /\ RowsInv /\ ChainInv /\ StoredInv

LEMMA Invariance == Spec => []IInv
<1>1. Init => IInv
  <2>1. Init => TypeInv /\ RowsInv
    BY InitTypes DEF Init, TypeInv, RowsInv, BlockRows, TxRows, NothingWritten
  <2>2. Init => ChainInv /\ StoredInv
    BY DEF Init, ChainInv, StoredInv
  <2> QED  BY <2>1, <2>2 DEF IInv
<1>2. IInv /\ [Next]_vars => IInv'
  BY TypeStep, RowsStep, ChainStep, StoredStep DEF IInv, TypeInv
<1> QED  BY <1>1, <1>2, PTL DEF Spec

\* Stored in its present form, every block's log is in the tables and nothing else is.
LEMMA SyncedLogs == TypeOK /\ StoredInv /\ Synced => StoredLogs(db) = chain
<1> SUFFICES ASSUME TypeOK, StoredInv, Synced PROVE StoredLogs(db) = chain
  OBVIOUS
<1>1. \A t \in Times : db[t].log = chain[t]
  BY DEF Synced, Behind, Outdated, StoredInv, NotStored, TypeOK
<1> QED  BY <1>1 DEF StoredLogs, TypeOK

\* Over a chain that is wholly stored no notification is repeated: not by replaced blocks,
\* whose rows are gone, not by a transaction that is rolled back, and not by two of the
\* jobs that follow each other from one block.
THEOREM NothingAnnouncedTwice == Spec => []AnnouncedOnce
<1>1. IInv => AnnouncedOnce
  <2> SUFFICES ASSUME IInv, Synced, ~raced, NEW m \in notifs, NEW n \in notifs, m.type = n.type
               PROVE  m = n
    BY DEF AnnouncedOnce
  <2>1. BlockRows /\ m.block \in Times /\ n.block \in Times
    BY BlocksOfRows DEF IInv, RowsInv, TypeInv
  <2>2. \A r \in {m, n} : chain[r.block].type = Source(r.type)
    BY <2>1 DEF BlockRows, Owned, IInv, TypeInv, Synced, Behind, Outdated, StoredInv
  <2>3. Source(m.type) \in Once
    BY DEF Source, Once
  <2>4. m.block = n.block
    BY <2>1, <2>2, <2>3, OnceLogged DEF IInv, TypeInv
  <2> QED  BY <2>1, <2>4 DEF BlockRows, SameBlock
<1> QED  BY <1>1, Invariance, PTL
-----------------------------------------------------------------------------
(* The state from SQL and the state of the contract                        *)

LEMMA VotersOf ==
  ASSUME TypeOK, ChainInv, NEW type \in Ballot, NEW r \in Logged(chain, type)
  PROVE  r.user \in Voters /\ r.at \in Int
<1>1. r.at \in Times /\ chain[r.at].type = type /\ r.user = chain[r.at].user
  BY LoggedAt DEF TypeOK
<1>2. chain[r.at] # NoLog
  BY <1>1 DEF Ballot, NoLog, Plain
<1>3. chain[r.at] \in Calls(Until(chain, r.at), r.at)
  BY <1>1, <1>2 DEF ChainInv
<1> QED  BY <1>1, <1>3, CallsTypes DEF Times

\* The latest vote that no later cancellation follows is the vote that neither a later vote
\* nor a later cancellation follows.
LEMMA BallotsOfSupporters ==
  ASSUME NEW c, NEW vote, NEW unvote, NEW support,
         \A r \in Logged(c, vote) \cup Logged(c, unvote) : r.user \in Voters /\ r.at \in Int
  PROVE  {v.user : v \in {b \in Ballots(Logged(c, vote), Logged(c, unvote)) : b.support = support}}
           = Supporters(c, vote, unvote, support)
<1> DEFINE votes == Logged(c, vote)
           cancels == Logged(c, unvote)
           Last(v) == \A w \in votes \cup cancels : w.user = v.user => w.at <= v.at
<1> HIDE DEF votes, cancels
<1>1. \A r \in votes \cup cancels : r.user \in Voters /\ r.at \in Int
  BY DEF votes, cancels
<1>2. \A v \in votes : v \in Ballots(votes, cancels) <=> Last(v)
  <2> SUFFICES ASSUME NEW v \in votes PROVE v \in Ballots(votes, cancels) <=> Last(v)
    OBVIOUS
  <2> DEFINE kept == {w \in votes : ~\E x \in cancels : x.user = w.user /\ x.at > w.at}
  <2>1. v \in Ballots(votes, cancels)
          <=> v \in kept /\ \A w \in kept : w.user = v.user => w.at <= v.at
    BY DEF Ballots
  <2>2. ASSUME Last(v) PROVE v \in kept /\ \A w \in kept : w.user = v.user => w.at <= v.at
    BY <1>1, <2>2
  <2>3. ASSUME v \in kept, \A w \in kept : w.user = v.user => w.at <= v.at PROVE Last(v)
    <3>1. \A x \in cancels : x.user = v.user => x.at <= v.at
      BY <1>1, <2>3
    <3>2. \A w \in votes : w.user = v.user => w.at <= v.at
      BY <1>1, <2>3
    <3> QED  BY <3>1, <3>2
  <2> QED  BY <2>1, <2>2, <2>3
<1>3. Supporters(c, vote, unvote, support)
        = {u \in Voters : \E v \in votes : v.user = u /\ v.support = support /\ Last(v)}
  BY DEF Supporters, votes, cancels
<1>4. Ballots(votes, cancels) \subseteq votes
  BY DEF Ballots
<1> HIDE DEF Last
<1>5. {v.user : v \in {b \in Ballots(votes, cancels) : b.support = support}}
        = Supporters(c, vote, unvote, support)
  BY <1>1, <1>2, <1>3, <1>4
<1> QED  BY <1>5 DEF votes, cancels

LEMMA PowerIsNat ==
  ASSUME NEW users \in SUBSET Voters
  PROVE  PowerOf(users) \in Nat
<1>1. IsFiniteSet(users) /\ \A u \in users : Power[u] \in Nat
  BY ConstantTypes, FS_Subset
<1>2. PowerOf(users) = SumOver(Power, users)
  BY DEF PowerOf, SumOver
<1> QED  BY <1>1, <1>2, SumsAreNat

LEMMA EventsOf ==
  ASSUME NEW type \in EventTypes
  PROVE  (\E e \in EventRows(db) : e.type = type) <=> Rows(db, type) # {}
<1>1. \A e : e \in EventRows(db)
         <=> \E t \in EventTypes : \E r \in Rows(db, t) : e = [at |-> r.at, type |-> t]
  BY DEF EventRows
<1>2. \A at, t : [at |-> at, type |-> t].type = t
  OBVIOUS
<1>3. ASSUME NEW r \in Rows(db, type) PROVE \E e \in EventRows(db) : e.type = type
  <2>1. [at |-> r.at, type |-> type] \in EventRows(db)
    BY <1>1
  <2> QED  BY <1>2, <2>1
<1>4. ASSUME NEW e \in EventRows(db), e.type = type PROVE Rows(db, type) # {}
  BY <1>1, <1>2, <1>4
<1> QED  BY <1>3, <1>4

LEMMA TallyOf ==
  ASSUME TypeOK, ChainInv, NEW vote \in Ballot, NEW unvote \in Ballot, NEW support,
         Rows(db, vote) = Logged(chain, vote), Rows(db, unvote) = Logged(chain, unvote)
  PROVE  Tally(Ballots(Rows(db, vote), Rows(db, unvote)), support)
           = PowerOf(Supporters(chain, vote, unvote, support))
<1>1. \A r \in Logged(chain, vote) \cup Logged(chain, unvote) : r.user \in Voters /\ r.at \in Int
  BY VotersOf
<1>2. {v.user : v \in {b \in Ballots(Rows(db, vote), Rows(db, unvote)) : b.support = support}}
        = Supporters(chain, vote, unvote, support)
  BY <1>1, BallotsOfSupporters
<1> QED  BY <1>2 DEF Tally

\* The percentages of the SQL function are those of the contract.
LEMMA CarriedInTables ==
  ASSUME TypeOK, ChainInv, NEW t,
         Rows(db, "vote") = Logged(chain, "vote"), Rows(db, "unvote") = Logged(chain, "unvote")
  PROVE  LET p == Params(t) IN
         ContractCarried(chain) <=>
           ~BelowQuorum(db, p) /\ ~(100 * ForVotes(db) < p.threshold * AllVotes(db))
<1> DEFINE p == Params(t)
           for == PowerOf(Supporters(chain, "vote", "unvote", TRUE))
           against == PowerOf(Supporters(chain, "vote", "unvote", FALSE))
<1>1. for \in Nat /\ against \in Nat
  <2>1. \A support : Supporters(chain, "vote", "unvote", support) \in SUBSET Voters
    BY DEF Supporters
  <2> QED  BY <2>1, PowerIsNat
<1>2. ForVotes(db) = for /\ AllVotes(db) = for + against
  <2>1. Tally(ProposalVotes(db), TRUE) = for /\ Tally(ProposalVotes(db), FALSE) = against
    BY TallyOf DEF ProposalVotes, VoteRows, CanceledVoteRows, Ballot
  <2> QED  BY <2>1 DEF ForVotes, AgainstVotes, AllVotes
<1>3. p.threshold = Threshold /\ p.quorum = MinQuorum
  BY DEF Params
<1>4. /\ 100 * (for + against) \in Int /\ MinQuorum * Staked \in Int
      /\ 100 * for \in Int /\ Threshold * (for + against) \in Int
  <2> HIDE DEF for, against
  <2> QED  BY <1>1, ConstantTypes
<1>5. ContractCarried(chain) <=> /\ 100 * (for + against) >= MinQuorum * Staked
                                 /\ 100 * for >= Threshold * (for + against)
  BY DEF ContractCarried
<1>6. \A m, n \in Int : m >= n <=> ~(m < n)
  OBVIOUS
<1> HIDE DEF p, for, against
<1>7. ContractCarried(chain) <=>
        ~BelowQuorum(db, p) /\ ~(100 * ForVotes(db) < p.threshold * AllVotes(db))
  BY <1>2, <1>3, <1>4, <1>5, <1>6 DEF BelowQuorum
<1> QED  BY <1>7 DEF p

\* Half of what is staked, rounded up, is what no whole number of votes less than half is.
LEMMA AbrogatedInTables ==
  ASSUME TypeOK, ChainInv, Rows(db, "abrogation") = Logged(chain, "abrogation"),
         Rows(db, "abVote") = Logged(chain, "abVote"), Rows(db, "abUnvote") = Logged(chain, "abUnvote")
  PROVE  ContractAbrogated(chain) <=>
           AbrogationRows(db) # {} /\ Tally(AbrogationVotes(db), TRUE) >= AbrogationQuorum
<1> DEFINE abrogating == PowerOf(Supporters(chain, "abVote", "abUnvote", TRUE))
<1>1. Tally(AbrogationVotes(db), TRUE) = abrogating
  BY TallyOf DEF AbrogationVotes, AbrogationVoteRows, CanceledAbrogationVoteRows, Ballot
<1>2. abrogating \in Nat
  BY PowerIsNat DEF Supporters
<1>3. 2 * abrogating >= Staked <=> abrogating >= AbrogationQuorum
  <2> HIDE DEF abrogating
  <2> QED  BY <1>2, ConstantTypes DEF AbrogationQuorum
<1> QED  BY <1>1, <1>3 DEF ContractAbrogated, AbrogationRows

\* With every block stored the tables have the contract's logs.
LEMMA SyncedTables ==
  ASSUME IInv, Synced
  PROVE  \A type : Rows(db, type) = Logged(chain, type)
BY SyncedLogs DEF IInv, TypeInv, Rows

\* The row of the proposal, and the parameters the contract has for it.
LEMMA TheProposal ==
  ASSUME IInv, Synced, State # "NONE"
  PROVE  \E t \in Times :
           /\ Logged(chain, "created") # {}
           /\ ProposalRows(db) = {Params(t)}
           /\ (CHOOSE u \in DOMAIN chain : \E l \in Logged(chain, "created") : l.at = u) = t
<1>t. TypeOK /\ ChainInv /\ StoredInv /\ chain \in [Times -> Logs]
  BY DEF IInv, TypeInv, TypeOK
<1>1. Logged(chain, "created") # {}
  BY DEF State, ContractState
<1>2. PICK t \in Times : chain[t].type = "created"
  BY <1>t, <1>1, LoggedAt
<1>3. \A r \in Logged(chain, "created") : r.at = t
  BY <1>t, <1>2, LoggedAt, OnceLogged DEF Once
<1>4. \E r \in Logged(chain, "created") : r.at = t
  BY <1>t, <1>2, LoggedAt
<1>5. db[t].params = Params(t)
  <2>1. chain[t] # NoLog
    BY <1>2 DEF NoLog, Plain
  <2>2. db[t] # NotStored /\ db[t].fork = forks[t]
    BY <2>1 DEF Synced, Behind, Outdated
  <2> QED  BY <1>t, <1>2, <2>2 DEF StoredInv
<1>6. ProposalRows(db) = {db[r.at].params : r \in Logged(chain, "created")}
  BY SyncedTables DEF ProposalRows
<1>7. ProposalRows(db) = {Params(t)}
  BY <1>3, <1>4, <1>5, <1>6
<1>8. (CHOOSE u \in DOMAIN chain : \E l \in Logged(chain, "created") : l.at = u) = t
  <2>1. t \in DOMAIN chain
    BY <1>t
  <2> QED  BY <1>3, <1>4, <2>1
<1> QED  BY <1>1, <1>7, <1>8

LEMMA SqlAgrees == IInv => SqlMatchesContract
<1> SUFFICES ASSUME IInv, Synced, State # "NONE"
             PROVE  ProposalState(db, ProposalRows(db), now) = State
  BY DEF SqlMatchesContract
<1>1. PICK t \in Times :
        /\ Logged(chain, "created") # {}
        /\ ProposalRows(db) = {Params(t)}
        /\ (CHOOSE u \in DOMAIN chain : \E l \in Logged(chain, "created") : l.at = u) = t
  BY TheProposal
<1> DEFINE p == Params(t)
<1>2. TypeOK /\ ChainInv /\ \A type : Rows(db, type) = Logged(chain, type)
  BY SyncedTables DEF IInv, TypeInv
<1>3. /\ Canceled(db) <=> Logged(chain, "canceled") # {}
      /\ Executed(db) <=> Logged(chain, "executed") # {}
      /\ QueuedRows(db) = {} <=> Logged(chain, "queued") = {}
  BY <1>2, EventsOf DEF Canceled, Executed, QueuedRows, EventTypes
<1>4. now \in Int /\ GraceEnd(p) \in Int
  <2>1. p \in AllParams /\ now \in Int
    BY DEF AllParams, IInv, TypeInv, TypeOK, Times
  <2> QED  BY <2>1, ParamsTypes
<1>5. ContractCarried(chain) <=>
        ~BelowQuorum(db, p) /\ ~(100 * ForVotes(db) < p.threshold * AllVotes(db))
  BY <1>2, CarriedInTables
<1>6. ContractAbrogated(chain) <=>
        AbrogationRows(db) # {} /\ Tally(AbrogationVotes(db), TRUE) >= AbrogationQuorum
  BY <1>2, AbrogatedInTables
<1>7. ProposalState(db, {p}, now) =
        IF Canceled(db) THEN "CANCELED"
        ELSE IF Executed(db) THEN "EXECUTED"
        ELSE IF now <= WarmUpEnd(p) THEN "WARMUP"
        ELSE IF now <= VotingEnd(p) THEN "ACTIVE"
        ELSE IF ~ContractCarried(chain) THEN "FAILED"
        ELSE IF QueuedRows(db) = {} THEN "ACCEPTED"
        ELSE IF now < Eta(p) THEN "QUEUED"
        ELSE IF ContractAbrogated(chain) THEN "ABROGATED"
        ELSE IF now <= GraceEnd(p) THEN "GRACE" ELSE "EXPIRED"
  <2> HIDE DEF p
  <2> QED  BY <1>5, <1>6 DEF ProposalState
<1>8. State =
        IF Logged(chain, "canceled") # {} THEN "CANCELED"
        ELSE IF Logged(chain, "executed") # {} THEN "EXECUTED"
        ELSE IF now <= WarmUpEnd(p) THEN "WARMUP"
        ELSE IF now <= VotingEnd(p) THEN "ACTIVE"
        ELSE IF ~ContractCarried(chain) THEN "FAILED"
        ELSE IF Logged(chain, "queued") = {} THEN "ACCEPTED"
        ELSE IF now < Eta(p) THEN "QUEUED"
        ELSE IF ContractAbrogated(chain) THEN "ABROGATED"
        ELSE IF now > GraceEnd(p) THEN "EXPIRED" ELSE "GRACE"
  BY <1>1 DEF State, ContractState
<1>9. now > GraceEnd(p) <=> ~(now <= GraceEnd(p))
  BY <1>4
<1> HIDE DEF p
<1> QED  BY <1>1, <1>3, <1>7, <1>8, <1>9 DEF p

\* However the blocks were stored and replaced: once every block is stored, proposal_state
\* returns what the contract's state() returns.
THEOREM SqlIsTheContract == Spec => []SqlMatchesContract
BY SqlAgrees, Invariance, PTL
===============================================================================
