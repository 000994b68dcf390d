------------------------------- MODULE Proposals -------------------------------
(***************************************************************************)
(* What one proposal's logs mean.  The logs are scraped into the tables    *)
(* governance_proposals, _events, _votes, ...; the SQL function            *)
(* proposal_state computes the proposal's state from them and the API's    *)
(* history computes it a second time.  The contract, which is the judge of *)
(* both, is external: ContractState is its state().                        *)
(***************************************************************************)
EXTENDS Integers, Sequences, FiniteSets, FiniteSetsExt

CONSTANTS
  Voters, Power,             \* the voters, and the voting power of each
  Staked,                    \* kek_staked_at_ts: what is staked in all
  WarmUp, Active, Queue, Grace,   \* the durations fixed when a proposal is created
  Threshold, MinQuorum       \* percentages

ASSUME ProposalAssumption ==
  /\ IsFiniteSet(Voters) /\ Power \in [Voters -> Nat]
  /\ Staked \in Nat
  /\ {WarmUp, Active, Queue, Grace} \subseteq Nat
  /\ {Threshold, MinQuorum} \subseteq 0 .. 100

\* A log of the governance contract; one without a voter has nobody's.
Nobody == "nobody"
Plain(type) == [type |-> type, user |-> Nobody, support |-> FALSE]
Voted(type, user, support) == [type |-> type, user |-> user, support |-> support]

NoLog == Plain("none")

EventTypes == {"created", "queued", "canceled", "executed"}

\* The contract's getter: the parameters of a proposal, zeros for an unknown id.
Params(createTime) ==
  [create |-> createTime, warm |-> WarmUp, active |-> Active, queue |-> Queue,
   grace |-> Grace, threshold |-> Threshold, quorum |-> MinQuorum]
UnknownParams ==
  [create |-> 0, warm |-> 0, active |-> 0, queue |-> 0, grace |-> 0, threshold |-> 0,
   quorum |-> 0]

WarmUpEnd(p) == p.create + p.warm
VotingEnd(p) == WarmUpEnd(p) + p.active
Eta(p) == VotingEnd(p) + p.queue
GraceEnd(p) == Eta(p) + p.grace

\* The logs of one type in a chain: a log, or none, for each block time.
Logged(chain, type) ==
  {[at |-> t, user |-> chain[t].user, support |-> chain[t].support] :
     t \in {u \in DOMAIN chain : chain[u].type = type}}

PowerOf(users) == MapThenSumSet(LAMBDA u : Power[u], users)

-----------------------------------------------------------------------------
(* The contract                                                            *)

\* castVote replaces a ballot and cancelVote withdraws it.
Supporters(chain, vote, unvote, support) ==
  {u \in Voters : \E v \in Logged(chain, vote) :
     /\ v.user = u /\ v.support = support
     /\ \A w \in Logged(chain, vote) \cup Logged(chain, unvote) : w.user = u => w.at <= v.at}

ContractCarried(chain) ==
  LET for == PowerOf(Supporters(chain, "vote", "unvote", TRUE))
      against == PowerOf(Supporters(chain, "vote", "unvote", FALSE))
  IN /\ 100 * (for + against) >= MinQuorum * Staked
     /\ 100 * for >= Threshold * (for + against)

ContractAbrogated(chain) ==
  /\ Logged(chain, "abrogation") # {}
  /\ 2 * PowerOf(Supporters(chain, "abVote", "abUnvote", TRUE)) >= Staked

ContractState(chain, now) ==
  LET p == Params(CHOOSE t \in DOMAIN chain : \E l \in Logged(chain, "created") : l.at = t)
      Has(type) == Logged(chain, type) # {}
  IN IF ~Has("created") THEN "NONE"
     ELSE IF Has("canceled") THEN "CANCELED"
     ELSE IF Has("executed") THEN "EXECUTED"
     ELSE IF now <= WarmUpEnd(p) THEN "WARMUP"
     ELSE IF now <= VotingEnd(p) THEN "ACTIVE"
     ELSE IF ~ContractCarried(chain) THEN "FAILED"
     ELSE IF ~Has("queued") THEN "ACCEPTED"
     ELSE IF now < Eta(p) THEN "QUEUED"
     ELSE IF ContractAbrogated(chain) THEN "ABROGATED"
     ELSE IF now > GraceEnd(p) THEN "EXPIRED"
     ELSE "GRACE"

-----------------------------------------------------------------------------
(* The tables: what the storables made of the blocks that are stored.  A   *)
(* stored block is [log, fork, params]; params  is what the getter returned*)
(* when the block was stored.                                              *)

NotStored == [log |-> NoLog, fork |-> -1, params |-> UnknownParams]

StoredLogs(db) == [t \in DOMAIN db |-> db[t].log]
Rows(db, type) == Logged(StoredLogs(db), type)

\* handleProposals, into governance_proposals
ProposalRows(db) == {db[r.at].params : r \in Rows(db, "created")}

\* The row a query for the proposal returns, if there is one: the tables have no key
\* that keeps a replaced block and a new one from both having one for a while.
OneOf(rows) == IF rows = {} THEN {{}} ELSE {{p} : p \in rows}

\* handleEvents, into governance_events
EventRows(db) ==
  UNION {{[at |-> r.at, type |-> type] : r \in Rows(db, type)} : type \in EventTypes}

\* handleVotes, into governance_votes and governance_votes_canceled
VoteRows(db) == Rows(db, "vote")
CanceledVoteRows(db) == Rows(db, "unvote")

\* handleAbrogationProposal and handleAbrogationProposalVotes
AbrogationRows(db) == Rows(db, "abrogation")
AbrogationVoteRows(db) == Rows(db, "abVote")
CanceledAbrogationVoteRows(db) == Rows(db, "abUnvote")

Canceled(db) == \E e \in EventRows(db) : e.type = "canceled"
Executed(db) == \E e \in EventRows(db) : e.type = "executed"
QueuedRows(db) == {e \in EventRows(db) : e.type = "queued"}

\* Mutant: a vote that was canceled still counts.
Ballots_kept(votes, cancels) ==
  {v \in votes : \A w \in votes : w.user = v.user => w.at <= v.at}

\* proposal_votes and abrogation_proposal_votes: each voter's latest vote, unless the
\* voter canceled in a later block.
Ballots(votes, cancels) ==
  LET kept == {v \in votes : ~\E c \in cancels : c.user = v.user /\ c.at > v.at}
  IN {v \in kept : \A w \in kept : w.user = v.user => w.at <= v.at}

Tally(ballots, support) == PowerOf({v.user : v \in {b \in ballots : b.support = support}})

ProposalVotes(db) == Ballots(VoteRows(db), CanceledVoteRows(db))
AbrogationVotes(db) == Ballots(AbrogationVoteRows(db), CanceledAbrogationVoteRows(db))
ForVotes(db) == Tally(ProposalVotes(db), TRUE)
AgainstVotes(db) == Tally(ProposalVotes(db), FALSE)
AllVotes(db) == ForVotes(db) + AgainstVotes(db)

\* The quotient is a numeric(78): rounded, a half away from zero.
AbrogationQuorum == (Staked + 1) \div 2

BelowQuorum(db, p) == 100 * AllVotes(db) < p.quorum * Staked

\* proposal_state, with the row it found.  Without one every comparison is NULL, and
\* so no state that depends on one is returned.  (The eta of the QUEUED event is the
\* one the contract computed from the same parameters.)
ProposalState(db, rows, now) ==
  IF Canceled(db) THEN "CANCELED"
  ELSE IF Executed(db) THEN "EXECUTED"
  ELSE IF \E p \in rows : now <= WarmUpEnd(p) THEN "WARMUP"
  ELSE IF \E p \in rows : now <= VotingEnd(p) THEN "ACTIVE"
  ELSE IF \E p \in rows : BelowQuorum(db, p) THEN "FAILED"
  ELSE IF \E p \in rows : 100 * ForVotes(db) < p.threshold * AllVotes(db) THEN "FAILED"
  ELSE IF QueuedRows(db) = {} THEN "ACCEPTED"
  ELSE IF \E p \in rows : now < Eta(p) THEN "QUEUED"
  ELSE IF /\ AbrogationRows(db) # {}
          /\ Tally(AbrogationVotes(db), TRUE) >= AbrogationQuorum THEN "ABROGATED"
  ELSE IF \E p \in rows : now <= GraceEnd(p) THEN "GRACE"
  ELSE "EXPIRED"

-----------------------------------------------------------------------------
(* The API's history of a proposal                                         *)

\* Mutant: the quorum is not looked at.
HistoryFailed_noQuorum(db, p) ==
  100 * ForVotes(db) <= p.threshold * AllVotes(db)

\* isFailedProposal
HistoryFailed(db, p) ==
  \/ BelowQuorum(db, p)
  \/ 100 * ForVotes(db) <= p.threshold * AllVotes(db)

\* abrogationProposalExists, abrogationProposalData, abrogationProposalPassed
HistoryAbrogated(db) ==
  AbrogationRows(db) # {} /\ 2 * Tally(AbrogationVotes(db), TRUE) > Staked

Entry(name, start) == [name |-> name, start |-> start]

\* getProposalEvents, without the first, which created the proposal
LaterEvents(db) == {e \in EventRows(db) : e.type # "created"}

\* buildHistory, for the row p: the entries up to the one the proposal is in.
BuildHistory(db, now, p) ==
  LET later == LaterEvents(db)
      First(type, events) ==
        {e \in events : e.type = type /\ \A f \in events : e.at <= f.at}
      CanceledBefore(deadline) == \E e \in First("canceled", later) : e.at < deadline
      cancel == {Entry("CANCELED", e.at) : e \in First("canceled", later)}
      queued == First("queued", later)
      executed == {e \in First("executed", later \ queued) : e.at <= GraceEnd(p)}
      fromEta ==
        IF Eta(p) >= now THEN {}
        ELSE IF HistoryAbrogated(db) THEN {Entry("ABROGATED", Eta(p))}
        ELSE {Entry("GRACE", Eta(p))} \cup
             (IF executed # {} THEN {Entry("EXECUTED", e.at) : e \in executed}
              ELSE IF GraceEnd(p) >= now THEN {}
              ELSE {Entry("EXPIRED", GraceEnd(p))})
      fromVotingEnd ==
        IF CanceledBefore(VotingEnd(p)) THEN cancel
        ELSE IF VotingEnd(p) >= now THEN {}
        ELSE IF HistoryFailed(db, p) THEN {Entry("FAILED", VotingEnd(p) + 1)}
        ELSE {Entry("ACCEPTED", VotingEnd(p) + 1)} \cup
             (IF queued = {} THEN {} ELSE {Entry("QUEUED", VotingEnd(p) + 1)} \cup fromEta)
      fromWarmUpEnd ==
        IF CanceledBefore(WarmUpEnd(p)) THEN cancel
        ELSE IF WarmUpEnd(p) >= now THEN {}
        ELSE {Entry("ACTIVE", WarmUpEnd(p) + 1)} \cup fromVotingEnd
  IN {Entry("CREATED", p.create), Entry("WARMUP", p.create)} \cup fromWarmUpEnd

\* history sorts the entries; what comes first is the state the page shows.
Before(a, b) ==
  IF {a.name, b.name} = {"CREATED", "WARMUP"} THEN a.name = "WARMUP"
  ELSE IF {a.name, b.name} = {"ACCEPTED", "QUEUED"} THEN a.name = "QUEUED"
  ELSE a.start > b.start

Shown(db, now, p) ==
  LET entries == BuildHistory(db, now, p)
  IN {e \in entries : \A f \in entries : ~Before(f, e)}

\* latestEventEndAt, and getTimeLeft of the details; 0 and -1 stand for no answer.
ShownEnd(e, p) ==
  CASE e.name = "WARMUP" -> e.start + p.warm
    [] e.name = "ACTIVE" -> e.start + p.active
    [] e.name = "QUEUED" -> e.start + p.queue
    [] e.name = "GRACE"  -> e.start + p.grace
    [] OTHER -> 0

TimeLeft(state, now, p) ==
  CASE state = "WARMUP" -> WarmUpEnd(p) - now
    [] state = "ACTIVE" -> VotingEnd(p) - now
    [] state = "QUEUED" -> Eta(p) - now
    [] state = "GRACE"  -> GraceEnd(p) - now
    [] OTHER -> -1

\* ProposalDetailsHandler, for the row p: the state from SQL, the history from Go.
Details(db, now, p) ==
  LET state == ProposalState(db, {p}, now)
  IN [state |-> state, timeLeft |-> TimeLeft(state, now, p),
      shown |-> Shown(db, now, p)]

\* AllProposalHandler: the states a filter lists.
Listed(filter) ==
  CASE filter = "ACTIVE" -> {"WARMUP", "ACTIVE", "ACCEPTED", "QUEUED", "GRACE"}
    [] filter = "FAILED" -> {"CANCELED", "FAILED", "ABROGATED", "EXPIRED"}
    [] OTHER -> {filter}
================================================================================
