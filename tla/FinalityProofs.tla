----------------------------- MODULE FinalityProofs -----------------------------
(***************************************************************************)
(* What the notifications say of the contract, and for how long it is true.*)
(* The delays of a block and of its storing bound how far back the tables  *)
(* can still be wrong; what the contract refuses after a phase bounds how  *)
(* late a log about the phase can come.  Then what the proposal's page     *)
(* says of it, and that each phase is announced: how the jobs follow each  *)
(* other from the block they come from to the notification.                *)
(***************************************************************************)
EXTENDS GovernanceProofs

\* For how long after its time a block can still change, or not be stored as it is.
Delay == ReorgAge + StoreDelay

\* The safety delay of the final announcements, and the phases before a proposal can be
\* queued, are longer.
DelaysSuffice == Delay <= Safety /\ Delay <= WarmUp + Active

CreatedAt(b) == chain[b].type = "created"

Timed == {"created", "canceled", "executed", "abrogation"} \cup Ballot

\* The last time at which the contract accepts a call of a proposal with the parameters p.
Deadline(type, p) ==
  IF type = "created" THEN p.create
  ELSE IF type \in {"canceled", "vote", "unvote"} THEN VotingEnd(p)
  ELSE IF type = "executed" THEN GraceEnd(p)
  ELSE Eta(p)

TimeInv ==
  \A t \in Times : /\ news[t] <= t + ReorgAge
                   /\ db[t] # NotStored => t <= now
                   /\ Behind(t) => now <= news[t] + StoreDelay

\* A row of a replaced block does not come later than the proposal lets it.
StaleInv ==
  \A b, t \in Times : CreatedAt(b) /\ db[t].log.type \in Timed =>
                        t <= Deadline(db[t].log.type, Params(b))

Present(r) == forks[r.block] = r.fork

\* The block of a row, in the form it had, is on the chain or was replaced.
Rooted(r) ==
  /\ r.fork \in 0 .. forks[r.block]
  /\ Present(r) => chain[r.block].type = Source(r.type)

AllJobs == jobs \cup todo \cup written.jobs
AllNotifs == notifs \cup written.notifs

\* A job of a block that was not replaced has the parameters of the contract.
OnTime(j) ==
  /\ j.type = "votingOpen" => j.on = WarmUpEnd(j.p)
  /\ j.type = "votingEnding" => WarmUpEnd(j.p) < now
  /\ j.type = "outcome" => j.on = VotingEnd(j.p) + Safety
  /\ j.type = "queueEnding" => VotingEnd(j.p) + Safety < now
  /\ j.type = "grace" => j.on = Eta(j.p)
  /\ j.type = "expires" => Eta(j.p) < now
  /\ j.type = "expired" => j.on = GraceEnd(j.p) + Safety
  /\ j.type = "abrogated" => j.on = Eta(j.p) + Safety

GoodJob(j) ==
  /\ Rooted(j) /\ OnTime(j)
  /\ Present(j) => \E b \in Times : CreatedAt(b) /\ j.p = Params(b)

JobInv ==
  /\ \A j \in AllJobs : GoodJob(j)
  /\ \A j \in todo : j.on < txNow
  /\ txNow <= now

NotCanceled == Logged(chain, "canceled") = {}

Ends(n, at) == n.expires \in Int /\ n.expires <= at

\* What is true of the proposal with the parameters p once the notification is there.
Holds(n, p) ==
  /\ n.type \in {"created", "activating"} => Ends(n, WarmUpEnd(p))
  /\ n.type \in {"votingOpen", "votingEnding"} => WarmUpEnd(p) < now /\ Ends(n, VotingEnd(p))
  /\ n.type \in {"accepted", "queueEnding"} =>
       /\ VotingEnd(p) + Safety < now /\ Ends(n, Eta(p))
       /\ NotCanceled /\ ContractCarried(chain)
  /\ n.type \in {"failedQuorum", "failedVotes"} =>
       VotingEnd(p) + Safety < now /\ NotCanceled /\ ~ContractCarried(chain)
  /\ n.type \in {"queued", "abrogation"} => Ends(n, Eta(p))
  /\ n.type \in {"grace", "expires"} => Eta(p) < now /\ Ends(n, GraceEnd(p))
  /\ n.type = "abrogated" =>
       Eta(p) + Safety < now /\ NotCanceled /\ ContractCarried(chain) /\ ContractAbrogated(chain)
  /\ n.type = "expired" =>
       /\ GraceEnd(p) + Safety < now /\ NotCanceled /\ ContractCarried(chain)
       /\ ~ContractAbrogated(chain) /\ Logged(chain, "executed") = {}

GoodNotif(n) ==
  /\ Rooted(n)
  /\ Present(n) => \E b \in Times : CreatedAt(b) /\ Holds(n, Params(b))

NotifInv == \A n \in AllNotifs : GoodNotif(n)

FInv == TimeInv /\ StaleInv /\ JobInv /\ NotifInv

-----------------------------------------------------------------------------
(* What the contract accepts when                                          *)

LEMMA LoggedSame ==
  ASSUME NEW c \in [Times -> Logs], NEW d \in [Times -> Logs], NEW type,
         \A t \in Times : c[t].type = type \/ d[t].type = type => c[t] = d[t]
  PROVE  Logged(c, type) = Logged(d, type)
<1>1. {t \in DOMAIN c : c[t].type = type} = {t \in DOMAIN d : d[t].type = type}
  OBVIOUS
<1>2. \A t \in {u \in DOMAIN d : d[u].type = type} :
        [at |-> t, user |-> c[t].user, support |-> c[t].support]
          = [at |-> t, user |-> d[t].user, support |-> d[t].support]
  OBVIOUS
<1> QED  BY <1>1, <1>2 DEF Logged

LEMMA CarriedSame ==
  ASSUME NEW c, NEW d, Logged(c, "vote") = Logged(d, "vote"), Logged(c, "unvote") = Logged(d, "unvote")
  PROVE  ContractCarried(c) = ContractCarried(d)
BY DEF ContractCarried, Supporters

LEMMA AbrogatedSame ==
  ASSUME NEW c, NEW d, Logged(c, "abVote") = Logged(d, "abVote"),
         Logged(c, "abUnvote") = Logged(d, "abUnvote"), Logged(c, "abrogation") = Logged(d, "abrogation")
  PROVE  ContractAbrogated(c) = ContractAbrogated(d)
BY DEF ContractAbrogated, Supporters

\* The state, of a proposal with the parameters p.
Phase(c, at, p) ==
  IF Logged(c, "canceled") # {} THEN "CANCELED"
  ELSE IF Logged(c, "executed") # {} THEN "EXECUTED"
  ELSE IF at <= WarmUpEnd(p) THEN "WARMUP"
  ELSE IF at <= VotingEnd(p) THEN "ACTIVE"
  ELSE IF ~ContractCarried(c) THEN "FAILED"
  ELSE IF Logged(c, "queued") = {} THEN "ACCEPTED"
  ELSE IF at < Eta(p) THEN "QUEUED"
  ELSE IF ContractAbrogated(c) THEN "ABROGATED"
  ELSE IF at > GraceEnd(p) THEN "EXPIRED"
  ELSE "GRACE"

LEMMA PhaseOf ==
  ASSUME NEW c \in [Times -> Logs], NEW b \in Times, c[b].type = "created",
         \A t \in Times : c[t].type = "created" => t = b, NEW at
  PROVE  ContractState(c, at) = Phase(c, at, Params(b))
<1>1. \E r \in Logged(c, "created") : r.at = b
  BY LoggedAt
<1>2. \A r \in Logged(c, "created") : r.at = b
  BY LoggedAt
<1>3. (CHOOSE t \in DOMAIN c : \E r \in Logged(c, "created") : r.at = t) = b
  BY <1>1, <1>2
<1> QED  BY <1>1, <1>3 DEF ContractState, Phase

LEMMA CallsByState ==
  ASSUME NEW c, NEW t, NEW log \in Calls(c, t)
  PROVE  LET state == ContractState(c, t) IN
         /\ log.type = "created" => state = "NONE"
         /\ log.type = "canceled" => state \in {"WARMUP", "ACTIVE"}
         /\ log.type \in {"vote", "unvote"} => state = "ACTIVE"
         /\ log.type = "queued" => state = "ACCEPTED"
         /\ log.type \in {"abrogation", "abVote", "abUnvote"} => state = "QUEUED"
         /\ log.type = "executed" => state = "GRACE"
<1>1. ContractState(c, t) \in States
  BY StateTypes
<1>2. /\ log \in Voting(c, "vote", "unvote") => log.type \in {"vote", "unvote"}
      /\ log \in Voting(c, "abVote", "abUnvote") => log.type \in {"abVote", "abUnvote"}
  BY VotingLogs DEF Voted
<1>3. \A type : Plain(type).type = type
  BY DEF Plain
<1> QED  BY <1>1, <1>2, <1>3 DEF Calls, States

LEMMA UntilType ==
  ASSUME TypeOK, NEW t \in Times
  PROVE  /\ Until(chain, t) \in [Times -> Logs]
         /\ \A u \in Times : u < t => Until(chain, t)[u] = chain[u]
         /\ \A u \in Times : ~(u < t) => Until(chain, t)[u] = NoLog
<1>1. NoLog \in Logs
  BY DEF Logs
<1> QED  BY <1>1 DEF Until, TypeOK

LEMMA HasCreated ==
  ASSUME TypeOK, ChainInv, NEW t \in Times, chain[t] # NoLog
  PROVE  \E b \in Times : CreatedAt(b) /\ b <= t
<1> DEFINE c == Until(chain, t)
<1>1. chain[t] \in Calls(c, t) /\ t \in Int
  BY DEF ChainInv, Times
<1>2. CASE ContractState(c, t) = "NONE"
  <2>1. chain[t].type = "created"
    BY <1>1, <1>2 DEF Calls, Plain
  <2> QED  BY <1>1, <2>1 DEF CreatedAt
<1>3. CASE ContractState(c, t) # "NONE"
  <2>1. Logged(c, "created") # {}
    BY <1>3 DEF ContractState
  <2>2. PICK b \in Times : c[b].type = "created"
    BY <2>1, UntilType, LoggedAt
  <2>3. b < t
    BY <2>2, UntilType DEF NoLog, Plain
  <2> QED  BY <2>2, <2>3, UntilType DEF CreatedAt, Times
<1> QED  BY <1>2, <1>3

LEMMA LegalCalls ==
  ASSUME TypeOK, ChainInv, NEW b \in Times, CreatedAt(b), NEW t \in Times, chain[t] # NoLog, t # b
  PROVE  LET p == Params(b)
             c == Until(chain, t)
             type == chain[t].type
         IN /\ b < t /\ type # "created" /\ chain[t] \in Calls(c, t)
            /\ Logged(c, "canceled") = {} /\ Logged(c, "executed") = {}
            /\ \/ type \in {"canceled", "vote", "unvote"} /\ t <= VotingEnd(p)
               \/ type = "queued" /\ VotingEnd(p) < t /\ ContractCarried(c)
               \/ /\ type \in {"abrogation", "abVote", "abUnvote"}
                  /\ VotingEnd(p) < t /\ t < Eta(p)
                  /\ ContractCarried(c) /\ Logged(c, "queued") # {}
               \/ /\ type = "executed"
                  /\ VotingEnd(p) < t /\ Eta(p) <= t /\ t <= GraceEnd(p)
                  /\ ContractCarried(c) /\ Logged(c, "queued") # {} /\ ~ContractAbrogated(c)
<1> DEFINE p == Params(b)
           c == Until(chain, t)
           type == chain[t].type
<1>1. \A u \in Times : chain[u].type = "created" => u = b
  BY OnceLogged DEF CreatedAt, Once
<1>2. type # "created" /\ chain[t] \in Calls(c, t) /\ type \in Once \cup Ballot
  BY <1>1, LogTypes DEF ChainInv, TypeOK
<1>3. b < t
  <2>1. PICK u \in Times : CreatedAt(u) /\ u <= t
    BY HasCreated
  <2> QED  BY <1>1, <2>1 DEF CreatedAt, Times
<1>4. ContractState(c, t) = Phase(c, t, p)
  <2>1. c \in [Times -> Logs] /\ c[b].type = "created"
    BY <1>3, UntilType DEF CreatedAt
  <2>2. \A u \in Times : c[u].type = "created" => u = b
    BY <1>1, UntilType DEF NoLog, Plain
  <2> QED  BY <2>1, <2>2, PhaseOf
<1>5. /\ WarmUpEnd(p) \in Int /\ VotingEnd(p) \in Int /\ Eta(p) \in Int /\ GraceEnd(p) \in Int /\ t \in Int
      /\ WarmUpEnd(p) <= VotingEnd(p) /\ VotingEnd(p) <= Eta(p) /\ Eta(p) <= GraceEnd(p)
  <2>1. p \in AllParams /\ t \in Int /\ p.active \in Nat /\ p.queue \in Nat /\ p.grace \in Nat
    BY ParamsTypes DEF AllParams, Times
  <2> QED  BY <2>1, ParamsTypes DEF GraceEnd, Eta, VotingEnd
<1> HIDE DEF p, c, type
<1>6. CASE type \in {"canceled", "vote", "unvote"}
  <2>1. Phase(c, t, p) \in {"WARMUP", "ACTIVE"}
    BY <1>2, <1>4, <1>6, CallsByState DEF type
  <2> QED  BY <1>2, <1>3, <1>5, <1>6, <2>1 DEF Phase, p, c, type
<1>7. CASE type = "queued"
  <2>1. Phase(c, t, p) = "ACCEPTED"
    BY <1>2, <1>4, <1>7, CallsByState DEF type
  <2> QED  BY <1>2, <1>3, <1>5, <1>7, <2>1 DEF Phase, p, c, type
<1>8. CASE type \in {"abrogation", "abVote", "abUnvote"}
  <2>1. Phase(c, t, p) = "QUEUED"
    BY <1>2, <1>4, <1>8, CallsByState DEF type
  <2> QED  BY <1>2, <1>3, <1>5, <1>8, <2>1 DEF Phase, p, c, type
<1>9. CASE type = "executed"
  <2>1. Phase(c, t, p) = "GRACE"
    BY <1>2, <1>4, <1>9, CallsByState DEF type
  <2> QED  BY <1>2, <1>3, <1>5, <1>9, <2>1 DEF Phase, p, c, type
<1> QED  BY <1>2, <1>6, <1>7, <1>8, <1>9 DEF Once, Ballot, type

LEMMA ParamsOrder ==
  ASSUME NEW b \in Times
  PROVE  LET p == Params(b) IN
         /\ p.create = b /\ b \in Nat
         /\ WarmUpEnd(p) \in Nat /\ VotingEnd(p) \in Nat /\ Eta(p) \in Nat /\ GraceEnd(p) \in Nat
         /\ b <= WarmUpEnd(p) /\ WarmUpEnd(p) <= VotingEnd(p)
         /\ VotingEnd(p) <= Eta(p) /\ Eta(p) <= GraceEnd(p)
         /\ VotingEnd(p) = b + WarmUp + Active
         /\ \A type : Deadline(type, p) \in Nat /\ b <= Deadline(type, p)
BY ConstantTypes DEF Params, Times, WarmUpEnd, VotingEnd, Eta, GraceEnd, Deadline

LEMMA InTime ==
  ASSUME TypeOK, ChainInv, NEW b \in Times, CreatedAt(b), NEW t \in Times, chain[t].type \in Timed
  PROVE  t <= Deadline(chain[t].type, Params(b))
<1>1. chain[t] # NoLog
  BY DEF Timed, Ballot, NoLog, Plain
<1>2. CASE t = b
  BY <1>2, ParamsOrder
<1>3. CASE t # b
  BY <1>1, <1>3, LegalCalls, ParamsOrder DEF Deadline, Timed, Ballot, Times
<1> QED  BY <1>2, <1>3

LEMMA WholeUntil ==
  ASSUME TypeOK, NEW t \in Times, NEW type, type # "none",
         \A u \in Times : chain[u].type = type => u < t
  PROVE  Logged(Until(chain, t), type) = Logged(chain, type)
<1>1. \A u \in Times : Until(chain, t)[u].type = type \/ chain[u].type = type => Until(chain, t)[u] = chain[u]
  BY UntilType DEF NoLog, Plain
<1> QED  BY <1>1, UntilType, LoggedSame DEF TypeOK

\* What a log that only a carried proposal can have says of the chain.
LEMMA CarriedBy ==
  ASSUME TypeOK, ChainInv, NEW b \in Times, CreatedAt(b), NEW t \in Times,
         chain[t].type \in {"queued", "abrogation", "executed"}
  PROVE  /\ VotingEnd(Params(b)) < t /\ NotCanceled /\ ContractCarried(chain)
         /\ Logged(chain, "queued") # {}
         /\ chain[t].type = "executed" => Eta(Params(b)) <= t /\ ~ContractAbrogated(chain)
<1> DEFINE p == Params(b)
           c == Until(chain, t)
<1>1. chain[t] # NoLog /\ t # b
  BY DEF NoLog, Plain, CreatedAt
<1>2. /\ Logged(c, "canceled") = {} /\ VotingEnd(p) < t /\ ContractCarried(c)
      /\ chain[t].type # "queued" => Logged(c, "queued") # {}
      /\ chain[t].type = "executed" => Eta(p) <= t /\ ~ContractAbrogated(c)
  BY <1>1, LegalCalls
<1>3. t \in Int /\ VotingEnd(p) \in Int /\ Eta(p) \in Int
  BY ParamsOrder DEF Times
<1>4. \A u \in Times : chain[u].type \in {"canceled", "vote", "unvote"} => u < t
  BY <1>2, <1>3, InTime DEF Deadline, Timed, Ballot, Times
<1>5. NotCanceled /\ ContractCarried(chain)
  BY <1>2, <1>4, WholeUntil, CarriedSame DEF NotCanceled
<1>6. Logged(chain, "queued") # {}
  <2>1. ASSUME NEW u \in Times, chain[u].type = "queued" PROVE Logged(chain, "queued") # {}
    BY <2>1, LoggedAt DEF TypeOK
  <2>2. CASE chain[t].type # "queued"
    <3>1. PICK u \in Times : c[u].type = "queued"
      BY <1>2, <2>2, UntilType, LoggedAt
    <3> QED  BY <2>1, <3>1, UntilType DEF NoLog, Plain
  <2> QED  BY <2>1, <2>2
<1>7. ASSUME chain[t].type = "executed" PROVE ~ContractAbrogated(chain)
  <2>1. \A u \in Times : chain[u].type \in {"abrogation", "abVote", "abUnvote"} => u < Eta(p)
    <3> SUFFICES ASSUME NEW u \in Times, chain[u].type \in {"abrogation", "abVote", "abUnvote"}
                 PROVE  u < Eta(p)
      OBVIOUS
    <3>1. chain[u] # NoLog /\ u # b
      BY DEF NoLog, Plain, CreatedAt
    <3> QED  BY <3>1, LegalCalls
  <2>2. \A u \in Times : chain[u].type \in {"abrogation", "abVote", "abUnvote"} => u < t
    BY <1>2, <1>3, <1>7, <2>1 DEF Times
  <2>3. ContractAbrogated(c) = ContractAbrogated(chain)
    BY <2>2, WholeUntil, AbrogatedSame
  <2> QED  BY <1>2, <1>7, <2>3
<1> QED  BY <1>2, <1>5, <1>6, <1>7

-----------------------------------------------------------------------------
(* How old what is wrong in the tables can be                              *)

LEMMA TimeStep == TypeOK /\ ChainInv /\ TimeInv /\ [Next]_vars => TimeInv'
<1> SUFFICES ASSUME TypeOK, ChainInv, TimeInv, [Next]_vars PROVE TimeInv'
  OBVIOUS
<1>t. /\ chain \in [Times -> Logs] /\ db \in [Times -> StoredBlocks] /\ now \in Times
      /\ forks \in [Times -> 0 .. MaxReorgs] /\ news \in [Times -> 0 .. MaxTime]
      /\ \A t \in Times : t \in Nat
      /\ ReorgAge \in Nat /\ StoreDelay \in Nat /\ MaxTime \in Nat
  BY ConstantTypes DEF TypeOK, Times
<1>n. \A t \in Times : news[t] \in Nat
  BY <1>t
<1>1. ASSUME UNCHANGED <<now, chain, forks, news, db>> PROVE TimeInv'
  BY <1>1 DEF TimeInv, Behind, Outdated
<1>2. CASE Call
  <2>1. /\ news' = [news EXCEPT ![now] = now] /\ UNCHANGED <<now, forks, db>>
        /\ \A t \in Times : t # now => chain'[t] = chain[t]
    BY <1>2, <1>t DEF Call
  <2> QED  BY <1>t, <1>n, <2>1 DEF TimeInv, Behind, Outdated
<1>3. ASSUME NEW t \in Times, Reorg(t) PROVE TimeInv'
  <2>1. /\ news' = [news EXCEPT ![t] = now] /\ UNCHANGED <<now, db>> /\ now - t <= ReorgAge
        /\ \A u \in Times : u # t => chain'[u] = chain[u] /\ forks'[u] = forks[u]
    BY <1>3, <1>t DEF Reorg
  <2> QED  BY <1>t, <1>n, <2>1 DEF TimeInv, Behind, Outdated
<1>4. ASSUME NEW t \in Times, DeleteBlock(t) PROVE TimeInv'
  <2>1. /\ db' = [db EXCEPT ![t] = NotStored] /\ UNCHANGED <<now, chain, forks, news>> /\ Behind(t)
    BY <1>4 DEF DeleteBlock, node, Behind
  <2> QED  BY <1>t, <1>n, <2>1 DEF TimeInv, Behind, Outdated
<1>5. ASSUME NEW t \in Times, StoreBlock(t) PROVE TimeInv'
  <2>1. /\ UNCHANGED <<now, chain, forks, news>> /\ Behind(t)
        /\ db'[t].fork = forks[t] /\ db'[t] # NotStored
        /\ \A u \in Times : u # t => db'[u] = db[u]
        /\ chain[t] # NoLog
    <3>1. forks[t] # -1
      BY <1>t
    <3> QED  BY <1>5, <1>t, <3>1 DEF StoreBlock, node, Behind, NotStored
  <2>2. t <= now
    BY <2>1 DEF ChainInv
  <2> QED  BY <1>t, <1>n, <2>1, <2>2 DEF TimeInv, Behind, Outdated
<1>6. CASE Tick
  <2>1. /\ now' = now + 1 /\ UNCHANGED <<chain, forks, news, db>>
        /\ \A t \in Times : Behind(t) => now - news[t] < StoreDelay
    BY <1>6 DEF Tick, node
  <2> QED  BY <1>t, <1>n, <2>1 DEF TimeInv, Behind, Outdated
<1>7. ASSUME Worker \/ Crash \/ UNCHANGED vars PROVE UNCHANGED <<now, chain, forks, news, db>>
  BY <1>7 DEF Worker, Fetch, Execute, Commit, Crash, vars, node
<1> QED  BY <1>1, <1>2, <1>3, <1>4, <1>5, <1>6, <1>7 DEF Next

\* A proposal that was replaced does not come back at the time of another log.
LEMMA ReorgCreatesNothing ==
  ASSUME TypeOK, ChainInv, NEW t \in Times, Reorg(t)
  PROVE  chain'[t].type # "created"
<1> SUFFICES ASSUME chain'[t].type = "created" PROVE FALSE
  OBVIOUS
<1> DEFINE below == [chain EXCEPT ![t] = NoLog]
<1>1. chain[t] # NoLog /\ chain'[t] \in Calls(below, t) /\ chain'[t] # chain[t]
  BY DEF Reorg, TypeOK, NoLog, Plain
<1>2. below \in [Times -> Logs] /\ \A u \in Times : u # t => below[u] = chain[u]
  BY DEF TypeOK, Logs
<1>3. ContractState(below, t) = "NONE" /\ chain'[t] = Plain("created")
  <2>1. ContractState(below, t) = "NONE"
    BY <1>1, CallsByState
  <2> QED  BY <1>1, <2>1 DEF Calls
<1>4. Logged(below, "created") = {}
  <2> HIDE DEF below
  <2> QED  BY <1>3 DEF ContractState
<1>5. PICK b \in Times : CreatedAt(b)
  BY <1>1, HasCreated
<1>6. b = t
  <2> SUFFICES ASSUME b # t PROVE FALSE
    OBVIOUS
  <2>1. below[b].type = "created"
    BY <1>2, <1>5 DEF CreatedAt
  <2> HIDE DEF below
  <2> QED  BY <1>2, <1>4, <2>1, LoggedAt
<1>7. chain[t] \in Calls(Until(chain, t), t)
  BY <1>1 DEF ChainInv
<1>8. ContractState(Until(chain, t), t) = "NONE"
  BY <1>5, <1>6, <1>7, CallsByState DEF CreatedAt
<1>9. chain[t] = Plain("created")
  BY <1>7, <1>8 DEF Calls
<1> QED  BY <1>1, <1>3, <1>9

LEMMA StaleStep == TypeOK /\ ChainInv /\ TimeInv /\ StaleInv /\ [Next]_vars => StaleInv'
<1> SUFFICES ASSUME TypeOK, ChainInv, TimeInv, StaleInv, [Next]_vars PROVE StaleInv'
  OBVIOUS
<1>t. chain \in [Times -> Logs] /\ db \in [Times -> StoredBlocks] /\ now \in Times
  BY DEF TypeOK
<1>n. NotStored.log.type \notin Timed
  BY DEF NotStored, NoLog, Plain, Timed, Ballot
<1>1. ASSUME UNCHANGED <<chain, db>> PROVE StaleInv'
  BY <1>1 DEF StaleInv, CreatedAt
<1>2. CASE Call
  <2>1. UNCHANGED db /\ \A b \in Times : b # now => chain'[b] = chain[b]
    BY <1>2, <1>t DEF Call
  <2>2. \A t \in Times : db[t].log.type \in Timed => t <= Deadline(db[t].log.type, Params(now))
    <3> SUFFICES ASSUME NEW t \in Times, db[t].log.type \in Timed
                 PROVE  t <= Deadline(db[t].log.type, Params(now))
      OBVIOUS
    <3>1. t <= now
      BY <1>n DEF TimeInv
    <3> QED  BY <1>t, <3>1, ParamsOrder DEF Times
  <2> QED  BY <2>1, <2>2 DEF StaleInv, CreatedAt
<1>3. ASSUME NEW t \in Times, Reorg(t) PROVE StaleInv'
  <2>1. UNCHANGED db /\ \A b \in Times : b # t => chain'[b] = chain[b]
    BY <1>3, <1>t DEF Reorg
  <2> QED  BY <1>3, <2>1, ReorgCreatesNothing DEF StaleInv, CreatedAt
<1>4. ASSUME NEW t \in Times, DeleteBlock(t) PROVE StaleInv'
  <2>1. db' = [db EXCEPT ![t] = NotStored] /\ UNCHANGED chain
    BY <1>4 DEF DeleteBlock, node
  <2> QED  BY <1>t, <1>n, <2>1 DEF StaleInv, CreatedAt
<1>5. ASSUME NEW t \in Times, StoreBlock(t) PROVE StaleInv'
  <2>1. /\ UNCHANGED chain /\ db'[t].log = chain[t]
        /\ \A u \in Times : u # t => db'[u] = db[u]
    BY <1>5, <1>t DEF StoreBlock, node
  <2> QED  BY <2>1, InTime DEF StaleInv, CreatedAt
<1>6. ASSUME Worker \/ Crash \/ Tick \/ UNCHANGED vars PROVE UNCHANGED <<chain, db>>
  BY <1>6 DEF Worker, Fetch, Execute, Commit, Crash, Tick, vars, node
<1> QED  BY <1>1, <1>2, <1>3, <1>4, <1>5, <1>6 DEF Next

\* Rows older than the delay are those of the chain.
LEMMA Settled ==
  ASSUME TypeOK, StoredInv, TimeInv, NEW t \in Times, t + Delay < now
  PROVE  db[t].log = chain[t] /\ (chain[t] # NoLog => db[t] # NotStored)
<1>1. news[t] <= t + ReorgAge /\ (Behind(t) => now <= news[t] + StoreDelay)
  BY DEF TimeInv
<1>2. /\ t \in Int /\ now \in Int /\ news[t] \in Int /\ ReorgAge \in Int /\ StoreDelay \in Int
      /\ db[t] \in StoredBlocks
  BY ConstantTypes DEF TypeOK, Times
<1>3. ~Behind(t)
  BY <1>1, <1>2 DEF Delay
<1> QED  BY <1>3 DEF Behind, Outdated, StoredInv, NotStored

\* Once a type's deadline is older, the tables have the contract's logs of that type.
LEMMA SettledRows ==
  ASSUME IInv, TimeInv, StaleInv, NEW b \in Times, CreatedAt(b), NEW type \in Timed,
         Deadline(type, Params(b)) + Delay < now
  PROVE  Rows(db, type) = Logged(chain, type)
<1>t. /\ TypeOK /\ StoredInv /\ ChainInv /\ chain \in [Times -> Logs]
      /\ DOMAIN db = Times /\ StoredLogs(db) \in [Times -> Logs]
  BY TableTypes DEF IInv, TypeInv, TypeOK
<1>1. \A t \in Times : StoredLogs(db)[t] = db[t].log
  BY <1>t DEF StoredLogs
<1>2. ASSUME NEW t \in Times, db[t].log.type = type \/ chain[t].type = type PROVE db[t].log = chain[t]
  <2>1. t <= Deadline(type, Params(b))
    BY <1>t, <1>2, InTime DEF StaleInv
  <2>2. /\ t \in Int /\ now \in Int /\ Delay \in Int
        /\ Deadline(type, Params(b)) \in Int
    BY <1>t, ParamsOrder, ConstantTypes DEF TypeOK, Times, Delay
  <2>3. t + Delay < now
    BY <2>1, <2>2
  <2> QED  BY <1>t, <2>3, Settled
<1> QED  BY <1>t, <1>1, <1>2, LoggedSame DEF Rows

\* A proposal older than that has one row, with the contract's parameters.
LEMMA SettledProposal ==
  ASSUME IInv, TimeInv, StaleInv, NEW b \in Times, CreatedAt(b), b + Delay < now
  PROVE  ProposalRows(db) = {Params(b)}
<1>t. TypeOK /\ StoredInv /\ ChainInv /\ chain \in [Times -> Logs]
  BY DEF IInv, TypeInv, TypeOK
<1>1. Rows(db, "created") = Logged(chain, "created")
  <2>1. Deadline("created", Params(b)) = b /\ "created" \in Timed
    BY ParamsOrder DEF Deadline, Timed
  <2> QED  BY <2>1, SettledRows
<1>2. \A r \in Logged(chain, "created") : r.at = b
  BY <1>t, LoggedAt, OnceLogged DEF CreatedAt, Once
<1>3. \E r \in Logged(chain, "created") : r.at = b
  BY <1>t, LoggedAt DEF CreatedAt
<1>4. db[b].params = Params(b)
  <2>1. chain[b] # NoLog
    BY DEF CreatedAt, NoLog, Plain
  <2>2. db[b].log = chain[b] /\ db[b] # NotStored
    BY <1>t, <2>1, Settled
  <2> QED  BY <1>t, <2>2 DEF StoredInv, CreatedAt
<1> QED  BY <1>1, <1>2, <1>3, <1>4 DEF ProposalRows

\* What proposal_state says of phases that are over for longer than the delay.
LEMMA SettledState ==
  ASSUME IInv, TimeInv, StaleInv, DelaysSuffice, NEW b \in Times, CreatedAt(b),
         NEW row \in OneOf(ProposalRows(db)), NEW at, NEW s, s = ProposalState(db, row, at),
         VotingEnd(Params(b)) + Safety < now
  PROVE  LET p == Params(b) IN
         /\ s \in {"ACCEPTED", "ABROGATED", "EXPIRED"} => NotCanceled /\ ContractCarried(chain)
         /\ s = "FAILED" => NotCanceled /\ ~ContractCarried(chain)
         /\ s = "ABROGATED" /\ Eta(p) + Safety < now => ContractAbrogated(chain)
         /\ s = "EXPIRED" /\ GraceEnd(p) + Safety < now =>
              ~ContractAbrogated(chain) /\ Logged(chain, "executed") = {}
<1> DEFINE p == Params(b)
<1>t. /\ TypeOK /\ ChainInv /\ now \in Int /\ Delay \in Int /\ Safety \in Int /\ Delay <= Safety
      /\ b \in Int /\ VotingEnd(p) \in Int /\ Eta(p) \in Int /\ GraceEnd(p) \in Int
      /\ b <= VotingEnd(p) /\ VotingEnd(p) <= Eta(p) /\ Eta(p) <= GraceEnd(p)
  <2>1. /\ b \in Int /\ VotingEnd(p) \in Int /\ Eta(p) \in Int /\ GraceEnd(p) \in Int
        /\ b <= VotingEnd(p) /\ VotingEnd(p) <= Eta(p) /\ Eta(p) <= GraceEnd(p)
    <3>1. /\ b \in Nat /\ WarmUpEnd(p) \in Nat /\ VotingEnd(p) \in Nat
          /\ Eta(p) \in Nat /\ GraceEnd(p) \in Nat
          /\ b <= WarmUpEnd(p) /\ WarmUpEnd(p) <= VotingEnd(p)
          /\ VotingEnd(p) <= Eta(p) /\ Eta(p) <= GraceEnd(p)
      BY ParamsOrder
    <3> HIDE DEF p
    <3> QED  BY <3>1
  <2>2. Delay \in Int /\ Safety \in Int /\ Delay <= Safety
    BY ConstantTypes DEF Delay, DelaysSuffice
  <2>3. TypeOK /\ ChainInv /\ now \in Int
    BY DEF IInv, TypeInv, TypeOK, Times
  <2> QED  BY <2>1, <2>2, <2>3
<1>1. row = {p}
  <2>1. b + Delay < now
    BY <1>t
  <2> QED  BY <2>1, SettledProposal DEF OneOf
<1>2. \A type \in {"canceled", "vote", "unvote"} : Rows(db, type) = Logged(chain, type)
  <2>1. VotingEnd(p) + Delay < now
    BY <1>t
  <2>2. \A type \in {"canceled", "vote", "unvote"} : type \in Timed /\ Deadline(type, p) = VotingEnd(p)
    BY DEF Timed, Ballot, Deadline
  <2> QED  BY <2>1, <2>2, SettledRows
<1>3. Canceled(db) <=> ~NotCanceled
  BY <1>2, EventsOf DEF Canceled, NotCanceled, EventTypes
<1>4. ContractCarried(chain) <=>
        ~BelowQuorum(db, p) /\ ~(100 * ForVotes(db) < p.threshold * AllVotes(db))
  BY <1>t, <1>2, CarriedInTables
<1>5. ASSUME Eta(p) + Safety < now
      PROVE  ContractAbrogated(chain) <=>
               AbrogationRows(db) # {} /\ Tally(AbrogationVotes(db), TRUE) >= AbrogationQuorum
  <2>1. Eta(p) + Delay < now
    BY <1>t, <1>5
  <2>2. \A type \in {"abrogation", "abVote", "abUnvote"} : type \in Timed /\ Deadline(type, p) = Eta(p)
    BY DEF Timed, Ballot, Deadline
  <2>3. \A type \in {"abrogation", "abVote", "abUnvote"} : Rows(db, type) = Logged(chain, type)
    BY <2>1, <2>2, SettledRows
  <2> QED  BY <1>t, <2>3, AbrogatedInTables
<1>6. ASSUME GraceEnd(p) + Safety < now PROVE Executed(db) <=> Logged(chain, "executed") # {}
  <2>1. GraceEnd(p) + Delay < now
    BY <1>t, <1>6
  <2>2. "executed" \in Timed /\ Deadline("executed", p) = GraceEnd(p)
    BY DEF Timed, Deadline
  <2>3. Rows(db, "executed") = Logged(chain, "executed")
    BY <2>1, <2>2, SettledRows
  <2> QED  BY <2>3, EventsOf DEF Executed, EventTypes
<1>7. GraceEnd(p) + Safety < now => Eta(p) + Safety < now
  BY <1>t
<1> HIDE DEF p
<1>8. /\ s \in {"ACCEPTED", "ABROGATED", "EXPIRED"} => NotCanceled /\ ContractCarried(chain)
      /\ s = "FAILED" => NotCanceled /\ ~ContractCarried(chain)
  BY <1>1, <1>3, <1>4 DEF ProposalState
<1>9. s = "ABROGATED" /\ Eta(p) + Safety < now => ContractAbrogated(chain)
  BY <1>5 DEF ProposalState
<1>10. s = "EXPIRED" /\ GraceEnd(p) + Safety < now =>
         ~ContractAbrogated(chain) /\ Logged(chain, "executed") = {}
  BY <1>5, <1>6, <1>7 DEF ProposalState
<1> QED  BY <1>8, <1>9, <1>10 DEF p

-----------------------------------------------------------------------------
(* The step of a job                                                       *)

LEMMA ExecutionJobs ==
  ASSUME NEW j, IsJob(j), OnTime(j), now \in Int, j.on < now, NEW s, NEW k \in Execution(j, s).jobs
  PROVE  k.p = j.p /\ OnTime(k)
<1> USE DEF IsJob, JobTypes, OnTime, Announce, NothingWritten, Job
<1>1. CASE j.type \in {"activating", "votingOpen", "votingEnding"}
  BY <1>1 DEF Execution, Activating, VotingOpen, VotingEnding, NewVotingOpen, NewVotingEnding, NewOutcome
<1>2. CASE j.type = "outcome"
  BY <1>2 DEF Execution, Outcome, NewQueueEnding
<1>3. CASE j.type \in {"grace", "expires"}
  BY <1>3 DEF Execution, GracePeriod, Expires, NewExpires, NewExpired
<1>4. CASE j.type \in {"queueEnding", "expired", "abrogated"}
  BY <1>4 DEF Execution, QueueEnding, Expired, Abrogated
<1> QED  BY <1>1, <1>2, <1>3, <1>4

LEMMA ExecutionNotifs ==
  ASSUME NEW j, IsJob(j), OnTime(j), now \in Int, j.on < now, NEW s, NEW n \in Execution(j, s).notifs
  PROVE  LET p == j.p IN
         \/ n.type = "activating" /\ n.expires = WarmUpEnd(p)
         \/ n.type = "votingOpen" /\ WarmUpEnd(p) < now /\ n.expires = VotingEnd(p) - Soon
         \/ n.type = "votingEnding" /\ WarmUpEnd(p) < now /\ n.expires = VotingEnd(p)
         \/ /\ n.type \in {"accepted", "queueEnding"} /\ s = "ACCEPTED"
            /\ VotingEnd(p) + Safety < now /\ n.expires = Eta(p)
         \/ /\ n.type \in {"failedQuorum", "failedVotes"} /\ s = "FAILED"
            /\ VotingEnd(p) + Safety < now
         \/ n.type \in {"grace", "expires"} /\ Eta(p) < now /\ n.expires = GraceEnd(p)
         \/ n.type = "abrogated" /\ s = "ABROGATED" /\ Eta(p) + Safety < now
         \/ n.type = "expired" /\ s = "EXPIRED" /\ GraceEnd(p) + Safety < now
<1> USE DEF IsJob, JobTypes, OnTime, Announce, NothingWritten, Notif
<1>1. CASE j.type \in {"activating", "votingOpen", "votingEnding"}
  BY <1>1 DEF Execution, Activating, VotingOpen, VotingEnding
<1>2. CASE j.type = "outcome"
  BY <1>2 DEF Execution, Outcome
<1>3. CASE j.type \in {"grace", "expires"}
  BY <1>3 DEF Execution, GracePeriod, Expires
<1>4. CASE j.type \in {"queueEnding", "expired", "abrogated"}
  BY <1>4 DEF Execution, QueueEnding, Expired, Abrogated
<1> QED  BY <1>1, <1>2, <1>3, <1>4

\* A notification is only written when what it says is settled.
LEMMA ExecutionHolds ==
  ASSUME IInv, FInv, DelaysSuffice, NEW j \in todo, NEW row \in OneOf(ProposalRows(db)), NEW s,
         s = ProposalState(db, row, txNow), NEW n \in Execution(j, s).notifs,
         NEW b \in Times, CreatedAt(b), j.p = Params(b)
  PROVE  Holds(n, Params(b))
<1> DEFINE p == Params(b)
<1>t. /\ IsJob(j) /\ OnTime(j) /\ now \in Int /\ j.on < now /\ Soon \in Nat /\ Safety \in Nat
      /\ VotingEnd(p) \in Int /\ Eta(p) \in Int /\ GraceEnd(p) \in Int
      /\ VotingEnd(p) <= Eta(p) /\ Eta(p) <= GraceEnd(p)
  <2>1. j \in AllJobs /\ txNow \in Int /\ now \in Int /\ IsJob(j) /\ j.on \in Int
    BY DEF AllJobs, IInv, TypeInv, TypeOK, IsJob, Times
  <2>2. j.on < txNow /\ txNow <= now /\ OnTime(j)
    BY <2>1 DEF FInv, JobInv, GoodJob
  <2>3. j.on < now
    BY <2>1, <2>2
  <2> QED  BY <2>1, <2>2, <2>3, ConstantTypes, ParamsOrder
<1>1. VotingEnd(p) + Safety < now =>
        /\ s \in {"ACCEPTED", "ABROGATED", "EXPIRED"} => NotCanceled /\ ContractCarried(chain)
        /\ s = "FAILED" => NotCanceled /\ ~ContractCarried(chain)
        /\ s = "ABROGATED" /\ Eta(p) + Safety < now => ContractAbrogated(chain)
        /\ s = "EXPIRED" /\ GraceEnd(p) + Safety < now =>
             ~ContractAbrogated(chain) /\ Logged(chain, "executed") = {}
  BY SettledState DEF FInv
<1>2. (Eta(p) + Safety < now \/ GraceEnd(p) + Safety < now) => VotingEnd(p) + Safety < now
  BY <1>t
<1>3. VotingEnd(p) - Soon <= VotingEnd(p)
  BY <1>t
<1> HIDE DEF p
<1>4. \/ n.type = "activating" /\ n.expires = WarmUpEnd(p)
      \/ n.type = "votingOpen" /\ WarmUpEnd(p) < now /\ n.expires = VotingEnd(p) - Soon
      \/ n.type = "votingEnding" /\ WarmUpEnd(p) < now /\ n.expires = VotingEnd(p)
      \/ /\ n.type \in {"accepted", "queueEnding"} /\ s = "ACCEPTED"
         /\ VotingEnd(p) + Safety < now /\ n.expires = Eta(p)
      \/ /\ n.type \in {"failedQuorum", "failedVotes"} /\ s = "FAILED"
         /\ VotingEnd(p) + Safety < now
      \/ n.type \in {"grace", "expires"} /\ Eta(p) < now /\ n.expires = GraceEnd(p)
      \/ n.type = "abrogated" /\ s = "ABROGATED" /\ Eta(p) + Safety < now
      \/ n.type = "expired" /\ s = "EXPIRED" /\ GraceEnd(p) + Safety < now
  BY <1>t, ExecutionNotifs DEF p
<1>5. WarmUpEnd(p) \in Int
  BY ParamsOrder DEF p
<1>6. Holds(n, p)
  BY <1>t, <1>1, <1>2, <1>3, <1>4, <1>5 DEF Holds, Ends
<1> QED  BY <1>6 DEF p

-----------------------------------------------------------------------------
(* The event of a block                                                    *)

LEMMA QueuedParams ==
  ASSUME IInv, FInv, DelaysSuffice, NEW t \in Times, StoreBlock(t),
         chain[t].type \in {"queued", "abrogation"},
         NEW b \in Times, CreatedAt(b), NEW p \in ProposalRows(db')
  PROVE  p = Params(b)
<1>t. /\ TypeOK /\ ChainInv /\ StoredInv /\ TimeInv /\ StaleInv
      /\ db \in [Times -> StoredBlocks] /\ chain[t] \in Logs
  BY DEF IInv, TypeInv, FInv, TypeOK
<1>1. /\ db'[t].log = chain[t] /\ \A u \in Times : u # t => db'[u] = db[u]
      /\ db' \in [Times -> StoredBlocks]
  BY <1>t, StoredTypes DEF StoreBlock
<1>2. PICK u \in Times : p = db'[u].params /\ db'[u].log.type = "created"
  <2>1. PICK r \in Rows(db', "created") : p = db'[r.at].params
    BY DEF ProposalRows
  <2>2. StoredLogs(db') \in [Times -> Logs] /\ \A v \in Times : StoredLogs(db')[v] = db'[v].log
    BY <1>1, TableTypes DEF StoredLogs
  <2>3. r.at \in Times /\ StoredLogs(db')[r.at].type = "created"
    BY <2>2, LoggedAt DEF Rows
  <2> QED  BY <2>1, <2>2, <2>3
<1>3. u # t /\ db[u] = db'[u]
  BY <1>1, <1>2
<1>4. p = Params(u)
  <2>1. db[u] # NotStored
    BY <1>2, <1>3 DEF NotStored, NoLog, Plain
  <2> QED  BY <1>t, <1>2, <1>3, <2>1 DEF StoredInv
<1>5. u <= b
  <2>1. u <= Deadline("created", Params(b))
    BY <1>t, <1>2, <1>3 DEF StaleInv, Timed
  <2> QED  BY <2>1, ParamsOrder DEF Deadline
<1>6. CASE u < b
  <2>1. VotingEnd(Params(b)) < t /\ t <= now
    <3>1. chain[t] # NoLog
      BY DEF StoreBlock
    <3> QED  BY <1>t, <3>1, CarriedBy DEF ChainInv
  <2>2. /\ VotingEnd(Params(b)) = b + WarmUp + Active /\ Delay <= WarmUp + Active
        /\ u \in Int /\ b \in Int /\ t \in Int /\ now \in Int
        /\ WarmUp \in Int /\ Active \in Int /\ Delay \in Int
    BY <1>t, ConstantTypes, ParamsOrder DEF DelaysSuffice, Delay, Times, TypeOK
  <2>3. u + Delay < now
    BY <1>6, <2>1, <2>2
  <2>4. chain[u].type = "created"
    BY <1>t, <1>2, <1>3, <2>3, Settled
  <2> QED  BY <1>t, <1>4, <2>4, OnceLogged DEF CreatedAt, Once
<1> QED  BY <1>4, <1>5, <1>6 DEF Times

\* The jobs a block leaves behind have the contract's parameters, and its notifications end
\* with the phase they are about.
LEMMA EventHolds ==
  ASSUME IInv, FInv, DelaysSuffice, NEW t \in Times, StoreBlock(t),
         NEW row \in OneOf(ProposalRows(db')), NEW b \in Times, CreatedAt(b)
  PROVE  LET new == FromBlock(t, db', row) IN
         /\ \A k \in new.jobs : k.p = Params(b) /\ OnTime(k)
         /\ \A n \in new.notifs : Holds(n, Params(b))
<1> DEFINE p == Params(b)
<1>t. TypeOK /\ ChainInv /\ chain[t] \in Logs /\ chain[t] # NoLog /\ db \in [Times -> StoredBlocks]
  BY DEF IInv, TypeInv, TypeOK, StoreBlock
<1>1. chain[t].type \in Once \cup Ballot
  BY <1>t, LogTypes
<1>2. WarmUpEnd(p) \in Int /\ Eta(p) \in Int /\ Soon \in Nat
  BY ParamsOrder, ConstantTypes
<1>3. CASE chain[t].type = "created"
  <2>1. t = b
    BY <1>t, <1>3, OnceLogged DEF CreatedAt, Once
  <2>2. db'[t].params = LatestParams
    BY <1>t, <1>3 DEF StoreBlock
  <2>3. db'[t].params = p
    BY <1>t, <1>3, <2>1, <2>2, LatestIsOwn
  <2>4. WarmUpEnd(p) - Soon <= WarmUpEnd(p)
    BY <1>2
  <2> HIDE DEF p
  <2>5. /\ \A k \in FromBlock(t, db', row).jobs : k.p = p /\ k.type = "activating"
        /\ \A n \in FromBlock(t, db', row).notifs :
             n.type = "created" /\ n.expires = WarmUpEnd(p) - Soon
    BY <1>3, <2>3 DEF FromBlock, Created, Event, NewActivating, Job, Notif,
       NothingWritten
  <2> QED  BY <1>2, <2>4, <2>5 DEF OnTime, Holds, Ends, p
<1>4. CASE chain[t].type \in {"queued", "abrogation"}
  <2>1. row \subseteq {p}
    BY <1>4, QueuedParams DEF OneOf
  <2> HIDE DEF p
  <2>2. /\ \A k \in FromBlock(t, db', row).jobs :
             /\ k.p = p
             /\ \/ k.type = "grace" /\ k.on = Eta(p)
                \/ k.type = "abrogated" /\ k.on = Eta(p) + Safety
        /\ \A n \in FromBlock(t, db', row).notifs :
             n.type \in {"queued", "abrogation"} /\ n.expires = Eta(p)
    <3>1. CASE chain[t].type = "queued"
      BY <2>1, <3>1 DEF FromBlock, Queued, WhileQueued, NewGracePeriod, Event, Job, Notif, NothingWritten
    <3>2. CASE chain[t].type = "abrogation"
      BY <2>1, <3>2 DEF FromBlock, AbrogationCreated, WhileQueued, NewAbrogated, Event, Job, Notif,
         NothingWritten
    <3> QED  BY <1>4, <3>1, <3>2
  <2>3. \A k \in FromBlock(t, db', row).jobs : k.p = p /\ OnTime(k)
    BY <2>2 DEF OnTime
  <2>4. \A n \in FromBlock(t, db', row).notifs : Holds(n, p)
    BY <1>2, <2>2 DEF Holds, Ends, p
  <2> QED  BY <2>3, <2>4 DEF p
<1>5. CASE chain[t].type \in {"canceled", "executed"}
  <2>1. /\ FromBlock(t, db', row).jobs = {}
        /\ \A n \in FromBlock(t, db', row).notifs : n.type \in {"canceled", "executed"}
    BY <1>5 DEF FromBlock, CanceledJob, ExecutedJob, NothingWritten, Notif
  <2> QED  BY <2>1 DEF Holds
<1>6. CASE chain[t].type \in Ballot
  BY <1>6 DEF FromBlock, NothingWritten, Ballot
<1> QED  BY <1>1, <1>3, <1>4, <1>5, <1>6 DEF Once

-----------------------------------------------------------------------------
(* A block that comes or is replaced                                       *)

ChainTimed ==
  \A b, t \in Times : CreatedAt(b) /\ chain[t].type \in Timed =>
                        t <= Deadline(chain[t].type, Params(b))

LEMMA AllInTime == TypeOK /\ ChainInv => ChainTimed
BY InTime DEF ChainTimed

\* The block of time at changes; what was recorded about the form it had is outdated.
Changes(at) ==
  /\ now - at <= ReorgAge
  /\ \A u \in Times : u # at => chain'[u] = chain[u] /\ forks'[u] = forks[u]
  /\ \/ chain[at] = NoLog /\ forks'[at] = forks[at]
     \/ forks'[at] = forks[at] + 1 /\ \A u \in Times : chain[u] # NoLog => u <= at
  /\ UNCHANGED <<now, jobs, notifs, worker, tx>>

LEMMA ChainChanges ==
  ASSUME TypeOK, Call \/ \E t \in Times : Reorg(t)
  PROVE  \E at \in Times : Changes(at)
<1>t. chain \in [Times -> Logs] /\ forks \in [Times -> 0 .. MaxReorgs] /\ now \in Times /\ ReorgAge \in Nat
  BY ConstantTypes DEF TypeOK
<1>1. CASE Call
  <2>1. now - now <= ReorgAge
    BY <1>t DEF Times
  <2> QED  BY <1>1, <1>t, <2>1 DEF Call, Changes
<1>2. ASSUME NEW t \in Times, Reorg(t) PROVE Changes(t)
  BY <1>2, <1>t DEF Reorg, Changes, LogsAt
<1> QED  BY <1>1, <1>2

LEMMA RootedStays ==
  ASSUME TypeOK, ChainInv, NEW at \in Times, Changes(at), NEW r, r.block \in Times, Rooted(r)
  PROVE  /\ Rooted(r)'
         /\ Present(r)' => /\ Present(r)
                           /\ \A b \in Times : CreatedAt(b) => b # at /\ CreatedAt(b)'
<1>t. \A t \in Times : forks[t] \in Int /\ t \in Int
  BY DEF TypeOK, Times
<1>1. Present(r) => chain[r.block] # NoLog
  BY DEF Rooted, Source, NoLog, Plain
<1>2. CASE r.block = at
  <2>1. r.fork \in 0 .. forks'[at] /\ ~Present(r)'
    BY <1>t, <1>1, <1>2 DEF Changes, Rooted, Present
  <2> QED  BY <1>2, <2>1 DEF Rooted
<1>3. CASE r.block # at
  <2>1. Rooted(r)' /\ (Present(r)' => Present(r))
    BY <1>3 DEF Changes, Rooted, Present
  <2>2. ASSUME Present(r), NEW b \in Times, CreatedAt(b) PROVE b # at /\ CreatedAt(b)'
    <3>1. b <= r.block
      <4>1. PICK u \in Times : CreatedAt(u) /\ u <= r.block
        BY <1>1, <2>2, HasCreated
      <4> QED  BY <2>2, <4>1, OnceLogged DEF CreatedAt, Once
    <3>2. b # at
      <4> SUFFICES ASSUME b = at PROVE FALSE
        OBVIOUS
      <4>1. chain[at] # NoLog
        BY <2>2 DEF CreatedAt, NoLog, Plain
      <4>2. r.block <= at
        BY <1>1, <2>2, <4>1 DEF Changes
      <4> QED  BY <1>t, <1>3, <3>1, <4>2
    <3> QED  BY <2>2, <3>2 DEF Changes, CreatedAt
  <2> QED  BY <2>1, <2>2
<1> QED  BY <1>2, <1>3

\* The logs of a type whose deadline lies too far back do not change.
LEMMA OldLogsStay ==
  ASSUME TypeOK, TypeOK', ChainTimed, ChainTimed', NEW at \in Times, Changes(at),
         NEW b \in Times, CreatedAt(b), CreatedAt(b)', NEW type \in Timed,
         Deadline(type, Params(b)) + ReorgAge < now
  PROVE  Logged(chain', type) = Logged(chain, type)
<1>1. /\ now \in Int /\ ReorgAge \in Int /\ now - at <= ReorgAge
      /\ Deadline(type, Params(b)) \in Int /\ \A t \in Times : t \in Int
  BY ConstantTypes, ParamsOrder DEF TypeOK, Times, Changes
<1>2. ASSUME NEW t \in Times, chain[t].type = type \/ chain'[t].type = type PROVE chain'[t] = chain[t]
  <2>1. t <= Deadline(type, Params(b))
    BY <1>2 DEF ChainTimed
  <2>2. t # at
    BY <1>1, <2>1
  <2> QED  BY <2>2 DEF Changes
<1> QED  BY <1>2, LoggedSame DEF TypeOK

LEMMA HoldsStays ==
  ASSUME TypeOK, TypeOK', ChainTimed, ChainTimed', DelaysSuffice, NEW at \in Times, Changes(at),
         NEW b \in Times, CreatedAt(b), CreatedAt(b)', NEW n, Holds(n, Params(b))
  PROVE  Holds(n, Params(b))'
<1> DEFINE p == Params(b)
<1>1. /\ now' = now /\ now \in Int /\ ReorgAge \in Nat /\ Safety \in Nat /\ ReorgAge <= Safety
      /\ VotingEnd(p) \in Int /\ Eta(p) \in Int /\ GraceEnd(p) \in Int
      /\ VotingEnd(p) <= Eta(p) /\ Eta(p) <= GraceEnd(p)
  <2>1. ReorgAge \in Nat /\ Safety \in Nat /\ ReorgAge <= Safety
    BY ConstantTypes DEF DelaysSuffice, Delay
  <2>2. now' = now /\ now \in Int
    BY DEF TypeOK, Times, Changes
  <2> QED  BY <2>1, <2>2, ParamsOrder
<1>2. ASSUME VotingEnd(p) + Safety < now
      PROVE  NotCanceled' = NotCanceled /\ ContractCarried(chain') = ContractCarried(chain)
  <2>1. VotingEnd(p) + ReorgAge < now
    BY <1>1, <1>2
  <2>2. \A type \in {"canceled", "vote", "unvote"} : type \in Timed /\ Deadline(type, p) = VotingEnd(p)
    BY DEF Timed, Ballot, Deadline
  <2>3. \A type \in {"canceled", "vote", "unvote"} : Logged(chain', type) = Logged(chain, type)
    BY <2>1, <2>2, OldLogsStay
  <2> QED  BY <2>3, CarriedSame DEF NotCanceled
<1>3. ASSUME Eta(p) + Safety < now PROVE ContractAbrogated(chain') = ContractAbrogated(chain)
  <2>1. Eta(p) + ReorgAge < now
    BY <1>1, <1>3
  <2>2. \A type \in {"abrogation", "abVote", "abUnvote"} : type \in Timed /\ Deadline(type, p) = Eta(p)
    BY DEF Timed, Ballot, Deadline
  <2>3. \A type \in {"abrogation", "abVote", "abUnvote"} : Logged(chain', type) = Logged(chain, type)
    BY <2>1, <2>2, OldLogsStay
  <2> QED  BY <2>3, AbrogatedSame
<1>4. ASSUME GraceEnd(p) + Safety < now PROVE Logged(chain', "executed") = Logged(chain, "executed")
  <2>1. GraceEnd(p) + ReorgAge < now
    BY <1>1, <1>4
  <2>2. "executed" \in Timed /\ Deadline("executed", p) = GraceEnd(p)
    BY DEF Timed, Deadline
  <2> QED  BY <2>1, <2>2, OldLogsStay
<1>5. (Eta(p) + Safety < now \/ GraceEnd(p) + Safety < now) => VotingEnd(p) + Safety < now
  BY <1>1
<1>6. GraceEnd(p) + Safety < now => Eta(p) + Safety < now
  BY <1>1
<1> HIDE DEF p
<1>7. Holds(n, p) => Holds(n, p)'
  BY <1>1, <1>2, <1>3, <1>4, <1>5, <1>6 DEF Holds
<1> QED  BY <1>7 DEF p

\* Jobs and notifications are what they were when a block changes, ...
LEMMA GoodThroughChange ==
  ASSUME TypeOK, TypeOK', ChainInv, ChainTimed, ChainTimed', DelaysSuffice,
         NEW at \in Times, Changes(at), NEW r, r.block \in Times
  PROVE  (GoodJob(r) => GoodJob(r)') /\ (GoodNotif(r) => GoodNotif(r)')
<1>1. GoodJob(r) => GoodJob(r)'
  BY RootedStays DEF GoodJob, OnTime, Changes
<1>2. GoodNotif(r) => GoodNotif(r)'
  BY RootedStays, HoldsStays DEF GoodNotif
<1> QED  BY <1>1, <1>2

\* ... and while only time passes.
LEMMA GoodThroughTime ==
  ASSUME TypeOK, UNCHANGED <<chain, forks>>, now' = now \/ now' = now + 1, NEW r
  PROVE  /\ IsJob(r) /\ GoodJob(r) => GoodJob(r)'
         /\ GoodNotif(r) => GoodNotif(r)'
<1>1. now \in Int /\ Safety \in Nat
  BY ConstantTypes DEF TypeOK, Times
<1>2. Rooted(r)' = Rooted(r) /\ Present(r)' = Present(r) /\ \A b : CreatedAt(b)' = CreatedAt(b)
  BY DEF Rooted, Present, CreatedAt
<1>3. IsJob(r) /\ OnTime(r) => OnTime(r)'
  <2>1. IsJob(r) => /\ WarmUpEnd(r.p) \in Int /\ VotingEnd(r.p) \in Int /\ Eta(r.p) \in Int
    BY ParamsTypes DEF IsJob
  <2> QED  BY <1>1, <2>1 DEF OnTime
<1>4. ASSUME NEW b \in Times, Holds(r, Params(b)) PROVE Holds(r, Params(b))'
  <2> DEFINE p == Params(b)
  <2>1. /\ WarmUpEnd(p) \in Int /\ VotingEnd(p) \in Int /\ Eta(p) \in Int /\ GraceEnd(p) \in Int
    BY ParamsOrder
  <2>2. NotCanceled' = NotCanceled
    BY DEF NotCanceled
  <2> HIDE DEF p
  <2>3. Holds(r, p) => Holds(r, p)'
    BY <1>1, <2>1, <2>2 DEF Holds
  <2> QED  BY <1>4, <2>3 DEF p
<1>5. IsJob(r) /\ GoodJob(r) => GoodJob(r)'
  BY <1>2, <1>3 DEF GoodJob
<1>6. GoodNotif(r) => GoodNotif(r)'
  BY <1>2, <1>4 DEF GoodNotif
<1> QED  BY <1>5, <1>6

-----------------------------------------------------------------------------
(* The invariant                                                           *)

\* A row that is inserted a second time says what it said the first time.
LEMMA InsertGood ==
  ASSUME NEW rows, \A n \in notifs \cup rows : GoodNotif(n)'
  PROVE  \A n \in Insert(rows) : GoodNotif(n)'
<1> SUFFICES ASSUME NEW r \in rows PROVE GoodNotif([r EXCEPT !.copy = 2])'
  BY DEF Insert
<1>1. GoodNotif(r)'
  OBVIOUS
<1> QED  BY <1>1 DEF GoodNotif, Rooted, Present, Holds, Ends

LEMMA StoreBlockGood ==
  ASSUME IInv, FInv, DelaysSuffice, NEW t \in Times, StoreBlock(t)
  PROVE  JobInv' /\ NotifInv'
<1>t. TypeOK /\ ChainInv /\ UNCHANGED <<now, chain, forks, todo, written, txNow>>
  BY DEF IInv, TypeInv, StoreBlock, node, tx
<1>1. PICK row \in OneOf(ProposalRows(db')) :
        /\ jobs' = jobs \cup FromBlock(t, db', row).jobs
        /\ notifs' = Insert(FromBlock(t, db', row).notifs)
  BY DEF StoreBlock
<1> DEFINE new == FromBlock(t, db', row)
<1>2. PICK b \in Times : CreatedAt(b)
  BY <1>t, HasCreated DEF StoreBlock
<1>3. /\ \A k \in new.jobs : k.p = Params(b) /\ OnTime(k)
      /\ \A n \in new.notifs : Holds(n, Params(b))
  BY <1>1, <1>2, EventHolds
<1>4. /\ \A k \in new.jobs : k.block = t /\ k.fork = forks[t] /\ Source(k.type) = chain[t].type
      /\ \A n \in new.notifs : n.block = t /\ n.fork = forks[t] /\ Source(n.type) = chain[t].type
  <2>1. db' \in [Times -> StoredBlocks]
    BY <1>t, StoredTypes
  <2>2. row \in SUBSET AllParams /\ \A p, q \in row : p = q
    BY <1>1, <2>1, TableTypes, OneRow
  <2>3. chain[t] \in Logs /\ chain[t] # NoLog /\ forks[t] \in Nat
    BY <1>t DEF TypeOK, StoreBlock
  <2>4. EventWrites(new, t)
    BY <2>1, <2>2, <2>3, FromBlockRows
  <2> QED  BY <2>4 DEF EventWrites
<1>5. forks[t] \in 0 .. forks[t]
  BY <1>t DEF TypeOK
<1> HIDE DEF new
<1>6. /\ \A k \in new.jobs : GoodJob(k)
      /\ \A n \in new.notifs : GoodNotif(n)
  BY <1>2, <1>3, <1>4, <1>5 DEF GoodJob, GoodNotif, Rooted, Present
<1>7. \A j \in AllJobs \cup new.jobs : GoodJob(j)'
  <2>1. \A j \in AllJobs \cup new.jobs : GoodJob(j)
    BY <1>6 DEF FInv, JobInv
  <2> QED  BY <1>t, <2>1 DEF GoodJob, OnTime, Rooted, Present, CreatedAt
<1>8. \A n \in AllNotifs \cup new.notifs : GoodNotif(n)'
  <2>1. \A n \in AllNotifs \cup new.notifs : GoodNotif(n)
    BY <1>6 DEF FInv, NotifInv
  <2> QED  BY <1>t, <2>1, GoodThroughTime
<1>9. JobInv'
  <2>1. \A j \in AllJobs' : GoodJob(j)'
    BY <1>t, <1>1, <1>7 DEF AllJobs, new
  <2> QED  BY <1>t, <2>1 DEF JobInv, FInv
<1>10. NotifInv'
  <2>1. \A n \in Insert(new.notifs) : GoodNotif(n)'
    BY <1>8, InsertGood DEF AllNotifs
  <2> QED  BY <1>t, <1>1, <1>8, <2>1 DEF NotifInv, AllNotifs, new
<1> QED  BY <1>9, <1>10

LEMMA ExecuteGood ==
  ASSUME IInv, FInv, DelaysSuffice, NEW j, Execute(j)
  PROVE  JobInv' /\ NotifInv'
<1>t. /\ TypeOK /\ j \in todo /\ todo' \subseteq todo /\ IsJob(j) /\ j \in AllJobs
      /\ UNCHANGED <<now, chain, forks, jobs, notifs, txNow>>
  BY DEF IInv, TypeInv, TypeOK, Execute, node, AllJobs
<1>1. PICK row \in OneOf(ProposalRows(db)) :
        LET new == Execution(j, ProposalState(db, row, txNow)) IN
        written' = [notifs |-> written.notifs \cup new.notifs, jobs |-> written.jobs \cup new.jobs]
  BY DEF Execute
<1> DEFINE s == ProposalState(db, row, txNow)
           new == Execution(j, s)
<1>2. GoodJob(j) /\ j.on < now /\ now \in Int
  <2>1. txNow \in Int /\ now \in Int /\ j.on \in Int
    BY <1>t DEF TypeOK, IsJob, Times
  <2>2. GoodJob(j) /\ j.on < txNow /\ txNow <= now
    BY <1>t DEF FInv, JobInv
  <2> QED  BY <2>1, <2>2
<1>3. \A k \in new.jobs : k.p = j.p /\ OnTime(k) /\ Of(k, j) /\ Source(k.type) = Source(j.type)
  <2>1. OnTime(j)
    BY <1>2 DEF GoodJob
  <2> QED  BY <1>t, <1>2, <2>1, ExecutionJobs, ExecutionRows
<1>4. \A n \in new.notifs : Of(n, j) /\ Source(n.type) = Source(j.type)
  BY <1>t, ExecutionRows
<1>5. ASSUME NEW b \in Times, CreatedAt(b), j.p = Params(b) PROVE \A n \in new.notifs : Holds(n, Params(b))
  BY <1>t, <1>1, <1>5, ExecutionHolds
<1> HIDE DEF new, s
<1>6. \A k \in new.jobs : GoodJob(k)
  BY <1>2, <1>3 DEF GoodJob, Rooted, Present, Of
<1>7. \A n \in new.notifs : GoodNotif(n)
  <2> SUFFICES ASSUME NEW n \in new.notifs PROVE GoodNotif(n)
    OBVIOUS
  <2>1. Rooted(n) /\ Present(n) = Present(j)
    BY <1>2, <1>4 DEF GoodJob, Rooted, Present, Of
  <2> QED  BY <1>2, <1>5, <2>1 DEF GoodJob, GoodNotif
<1>8. /\ written'.jobs = written.jobs \cup new.jobs
      /\ written'.notifs = written.notifs \cup new.notifs
  BY <1>1 DEF new, s
<1>9. \A k \in AllJobs' : GoodJob(k)'
  <2>1. \A k \in AllJobs' : GoodJob(k)
    BY <1>t, <1>6, <1>8 DEF AllJobs, FInv, JobInv
  <2> QED  BY <1>t, <2>1 DEF GoodJob, OnTime, Rooted, Present, CreatedAt
<1>10. \A n \in AllNotifs' : GoodNotif(n)'
  <2>1. \A n \in AllNotifs' : GoodNotif(n)
    BY <1>t, <1>7, <1>8 DEF AllNotifs, FInv, NotifInv
  <2> QED  BY <1>t, <2>1, GoodThroughTime
<1>11. (\A k \in todo' : k.on < txNow') /\ txNow' <= now'
  BY <1>t DEF FInv, JobInv
<1> QED  BY <1>9, <1>10, <1>11 DEF JobInv, NotifInv

LEMMA FStep == DelaysSuffice => (IInv /\ IInv' /\ FInv /\ [Next]_vars => FInv')
<1> SUFFICES ASSUME DelaysSuffice, IInv, IInv', FInv, [Next]_vars PROVE FInv'
  OBVIOUS
<1>t. TypeOK /\ TypeOK' /\ ChainInv /\ ChainInv'
  BY DEF IInv, TypeInv
<1>j. \A j \in AllJobs : IsJob(j) /\ j.block \in Times
  BY <1>t DEF TypeOK, AllJobs, IsJob, Blocks
<1>n. \A n \in AllNotifs : n.block \in Times
  BY <1>t DEF TypeOK, AllNotifs
<1>1. TimeInv' /\ StaleInv'
  BY <1>t, TimeStep, StaleStep DEF FInv
<1>2. CASE Call \/ \E t \in Times : Reorg(t)
  <2>1. PICK at \in Times : Changes(at)
    BY <1>t, <1>2, ChainChanges
  <2>2. ChainTimed /\ ChainTimed'
    BY <1>t, AllInTime, PTL
  <2>3. AllJobs' = AllJobs /\ AllNotifs' = AllNotifs /\ UNCHANGED <<now, todo, txNow>>
    BY <2>1 DEF Changes, AllJobs, AllNotifs, tx
  <2>4. \A j \in AllJobs : GoodJob(j) => GoodJob(j)'
    BY <1>t, <1>j, <2>1, <2>2, GoodThroughChange
  <2>5. \A n \in AllNotifs : GoodNotif(n) => GoodNotif(n)'
    BY <1>t, <1>n, <2>1, <2>2, GoodThroughChange
  <2> QED  BY <1>1, <2>3, <2>4, <2>5 DEF FInv, JobInv, NotifInv
<1>3. ASSUME UNCHANGED <<chain, forks>>, now' = now \/ now' = now + 1,
             AllJobs' \subseteq AllJobs, AllNotifs' \subseteq AllNotifs
      PROVE  (\A j \in AllJobs' : GoodJob(j)') /\ NotifInv'
  BY <1>t, <1>j, <1>3, GoodThroughTime DEF FInv, JobInv, NotifInv
<1>4. ASSUME NEW t \in Times, DeleteBlock(t) PROVE JobInv' /\ NotifInv'
  <2>1. /\ UNCHANGED <<now, chain, forks, todo, txNow>>
        /\ AllJobs' \subseteq AllJobs /\ AllNotifs' \subseteq AllNotifs
    BY <1>4 DEF DeleteBlock, node, tx, AllJobs, AllNotifs
  <2> QED  BY <1>3, <2>1 DEF FInv, JobInv
<1>5. CASE Fetch
  <2>1. /\ UNCHANGED <<now, chain, forks>> /\ todo' = Due /\ txNow' = now
        /\ AllJobs' \subseteq AllJobs /\ AllNotifs' \subseteq AllNotifs
    BY <1>5 DEF Fetch, node, AllJobs, AllNotifs, Due
  <2>2. now \in Int
    BY <1>t DEF TypeOK, Times
  <2> QED  BY <1>1, <1>3, <2>1, <2>2 DEF FInv, JobInv, Due
<1>6. CASE Commit
  <2>1. /\ UNCHANGED <<now, chain, forks>> /\ todo' = {} /\ txNow' = 0
        /\ written' = NothingWritten
        /\ jobs' = (jobs \ done) \cup written.jobs /\ notifs' = Insert(written.notifs)
    BY <1>6 DEF Commit, EndTx, node
  <2>2. AllJobs' \subseteq AllJobs
    BY <2>1 DEF AllJobs, NothingWritten
  <2>3. \A j \in AllJobs' : GoodJob(j)'
    BY <1>t, <1>j, <2>1, <2>2, GoodThroughTime DEF FInv, JobInv
  <2>4. \A n \in notifs \cup written.notifs : GoodNotif(n)'
    BY <1>t, <2>1, GoodThroughTime DEF FInv, NotifInv, AllNotifs
  <2>5. \A n \in Insert(written.notifs) : GoodNotif(n)'
    BY <2>4, InsertGood
  <2>6. NotifInv'
    BY <2>1, <2>5 DEF NotifInv, AllNotifs, NothingWritten
  <2>7. 0 <= now
    BY <1>t DEF TypeOK, Times
  <2> QED  BY <1>1, <2>1, <2>3, <2>6, <2>7 DEF FInv, JobInv
<1>7. CASE Crash
  <2>1. /\ UNCHANGED <<now, chain, forks>> /\ todo' = {} /\ txNow' = 0
        /\ AllJobs' \subseteq AllJobs /\ AllNotifs' \subseteq AllNotifs
    BY <1>7 DEF Crash, EndTx, node, AllJobs, AllNotifs, NothingWritten
  <2>2. 0 <= now
    BY <1>t DEF TypeOK, Times
  <2> QED  BY <1>1, <1>3, <2>1, <2>2 DEF FInv, JobInv
<1>8. CASE Tick
  <2>1. /\ UNCHANGED <<chain, forks, todo, txNow>> /\ now' = now + 1
        /\ AllJobs' \subseteq AllJobs /\ AllNotifs' \subseteq AllNotifs
    BY <1>8 DEF Tick, node, tx, AllJobs, AllNotifs
  <2>2. txNow \in Int /\ now \in Int
    BY <1>t DEF TypeOK, Times
  <2> QED  BY <1>1, <1>3, <2>1, <2>2 DEF FInv, JobInv
<1>9. CASE UNCHANGED vars
  <2>1. /\ UNCHANGED <<now, chain, forks, todo, txNow>>
        /\ AllJobs' \subseteq AllJobs /\ AllNotifs' \subseteq AllNotifs
    BY <1>9 DEF vars, node, tx, AllJobs, AllNotifs
  <2> QED  BY <1>1, <1>3, <2>1 DEF FInv, JobInv
<1> QED  BY <1>1, <1>2, <1>4, <1>5, <1>6, <1>7, <1>8, <1>9, StoreBlockGood, ExecuteGood
         DEF Next, Worker, FInv

LEMMA FInit == Init => FInv
<1> SUFFICES ASSUME Init PROVE FInv
  OBVIOUS
<1>1. TimeInv
  BY ConstantTypes DEF Init, TimeInv, Behind, Outdated, Times
<1>2. StaleInv
  BY DEF Init, StaleInv, NotStored, NoLog, Plain, Timed, Ballot
<1>3. AllJobs = {} /\ AllNotifs = {} /\ todo = {} /\ txNow = 0 /\ now = 1
  BY DEF Init, AllJobs, AllNotifs, NothingWritten
<1> QED  BY <1>1, <1>2, <1>3 DEF FInv, JobInv, NotifInv

LEMMA Finality == DelaysSuffice => (Spec => [](IInv /\ FInv))
<1> SUFFICES ASSUME DelaysSuffice PROVE Spec => [](IInv /\ FInv)
  OBVIOUS
<1>1. IInv /\ IInv' /\ FInv /\ [Next]_vars => FInv'
  BY FStep
<1> QED  BY <1>1, FInit, Invariance, PTL DEF Spec

-----------------------------------------------------------------------------
(* What is shown is true                                                   *)

\* A notification over a wholly stored chain, and the proposal it is about.
LEMMA AboutTheProposal ==
  ASSUME IInv, FInv, Synced, ~raced, NEW n \in notifs
  PROVE  \E b \in Times :
           /\ CreatedAt(b) /\ Holds(n, Params(b)) /\ State = Phase(chain, now, Params(b))
           /\ n.block \in Times /\ chain[n.block].type = Source(n.type) /\ n.block <= now
<1>1. TypeOK /\ ChainInv /\ n.block \in Times /\ GoodNotif(n)
  BY DEF IInv, TypeInv, TypeOK, FInv, NotifInv, AllNotifs
<1>2. Present(n)
  BY <1>1 DEF IInv, RowsInv, BlockRows, Owned, Synced, Behind, Outdated, Present
<1>3. PICK b \in Times : CreatedAt(b) /\ Holds(n, Params(b))
  BY <1>1, <1>2 DEF GoodNotif
<1>4. chain[n.block].type = Source(n.type)
  BY <1>1, <1>2 DEF GoodNotif, Rooted
<1>5. n.block <= now
  BY <1>1, <1>4 DEF ChainInv, Source, NoLog, Plain
<1>6. State = Phase(chain, now, Params(b))
  BY <1>1, <1>3, PhaseOf, OnceLogged DEF CreatedAt, Once, State, TypeOK
<1> QED  BY <1>1, <1>3, <1>4, <1>5, <1>6

LEMMA ExecutedMeans ==
  ASSUME TypeOK, ChainInv, NEW b \in Times, CreatedAt(b), Logged(chain, "executed") # {}
  PROVE  /\ NotCanceled /\ ContractCarried(chain) /\ ~ContractAbrogated(chain)
         /\ Eta(Params(b)) <= now
<1>1. PICK t \in Times : chain[t].type = "executed"
  BY LoggedAt DEF TypeOK
<1>2. t <= now
  BY <1>1 DEF ChainInv, NoLog, Plain
<1>3. /\ NotCanceled /\ ContractCarried(chain) /\ ~ContractAbrogated(chain)
      /\ Eta(Params(b)) <= t
  BY <1>1, CarriedBy
<1>4. t \in Int /\ now \in Int /\ Eta(Params(b)) \in Int
  BY ParamsOrder DEF TypeOK, Times
<1> QED  BY <1>2, <1>3, <1>4

\* What was announced as final is final: where blocks that change do so soon and are stored
\* soon, the safety delay of the announcements suffices, whatever is voted, replaced and
\* stored, and whenever the worker runs and dies.
THEOREM AnnouncedIsFinal == DelaysSuffice => (Spec => []FinalIsFinal)
<1> SUFFICES ASSUME DelaysSuffice PROVE Spec => []FinalIsFinal
  OBVIOUS
<1>1. IInv /\ FInv => FinalIsFinal
  <2> SUFFICES ASSUME IInv, FInv, Synced, ~raced, NEW n \in notifs PROVE True(n)
    BY DEF FinalIsFinal
  <2>1. PICK b \in Times :
          /\ CreatedAt(b) /\ Holds(n, Params(b)) /\ State = Phase(chain, now, Params(b))
          /\ n.block \in Times /\ chain[n.block].type = Source(n.type) /\ n.block <= now
    BY AboutTheProposal
  <2> DEFINE p == Params(b)
             block == n.block
  <2>2. TypeOK /\ ChainInv /\ now \in Int /\ Safety \in Nat
    BY ConstantTypes DEF IInv, TypeInv, TypeOK, Times
  <2>3. /\ WarmUpEnd(p) \in Int /\ VotingEnd(p) \in Int /\ Eta(p) \in Int /\ GraceEnd(p) \in Int
        /\ WarmUpEnd(p) <= VotingEnd(p) /\ VotingEnd(p) <= Eta(p) /\ Eta(p) <= GraceEnd(p)
    BY ParamsOrder
  <2>4. Logged(chain, "executed") # {} => ContractCarried(chain) /\ ~ContractAbrogated(chain)
    BY <2>1, <2>2, ExecutedMeans
  <2>5. chain[block].type \in {"queued", "abrogation", "executed"} =>
          NotCanceled /\ Logged(chain, "queued") # {}
    BY <2>1, <2>2, CarriedBy
  <2>6. \A type : chain[block].type = type => Logged(chain, type) # {}
    BY <2>1, <2>2, LoggedAt DEF TypeOK
  <2> HIDE DEF p, block
  <2>7. Holds(n, p) /\ State = Phase(chain, now, p) /\ chain[block].type = Source(n.type)
    BY <2>1 DEF p, block
  <2>8. CASE n.type \in {"failedQuorum", "failedVotes"}
    <3>1. NotCanceled /\ ~ContractCarried(chain) /\ VotingEnd(p) + Safety < now
      BY <2>7, <2>8 DEF Holds
    <3> QED  BY <2>2, <2>3, <2>4, <2>7, <2>8, <3>1 DEF Phase, NotCanceled, True
  <2>9. CASE n.type = "expired"
    <3>1. /\ NotCanceled /\ ContractCarried(chain) /\ GraceEnd(p) + Safety < now
          /\ ~ContractAbrogated(chain) /\ Logged(chain, "executed") = {}
      BY <2>7, <2>9 DEF Holds
    <3>2. Logged(chain, "queued") # {}
      BY <2>5, <2>7, <2>9 DEF Source
    <3> QED  BY <2>2, <2>3, <2>7, <2>9, <3>1, <3>2 DEF Phase, NotCanceled, True
  <2>10. CASE n.type = "abrogated"
    <3>1. /\ NotCanceled /\ ContractCarried(chain) /\ Eta(p) + Safety < now
          /\ ContractAbrogated(chain)
      BY <2>7, <2>10 DEF Holds
    <3>2. Logged(chain, "queued") # {}
      BY <2>5, <2>7, <2>10 DEF Source
    <3> QED  BY <2>2, <2>3, <2>4, <2>7, <2>10, <3>1, <3>2 DEF Phase, NotCanceled, True
  <2>11. CASE n.type = "canceled"
    BY <2>6, <2>7, <2>11 DEF Source, Phase, True
  <2>12. CASE n.type = "executed"
    BY <2>5, <2>6, <2>7, <2>12 DEF Source, Phase, NotCanceled, True
  <2>13. CASE n.type = "accepted"
    BY <2>7, <2>13 DEF Holds, True
  <2> QED  BY <2>8, <2>9, <2>10, <2>11, <2>12, <2>13 DEF True
<1> QED  BY <1>1, Finality, PTL

\* No notification the API shows speaks of a phase that is over.
THEOREM NothingStaleIsShown == DelaysSuffice => (Spec => []ShownInItsPhase)
<1> SUFFICES ASSUME DelaysSuffice PROVE Spec => []ShownInItsPhase
  OBVIOUS
<1>1. IInv /\ FInv => ShownInItsPhase
  <2> SUFFICES ASSUME IInv, FInv, Synced, ~raced, NEW n \in Visible
               PROVE  LET Says(types, states) == n.type \in types => State \in states IN
                      /\ Says({"activating", "created"}, {"WARMUP", "CANCELED"})
                      /\ Says({"votingOpen", "votingEnding"}, {"ACTIVE", "CANCELED"})
                      /\ Says({"queueEnding", "accepted"}, {"ACCEPTED", "QUEUED"})
                      /\ Says({"queued", "abrogation"}, {"QUEUED"})
                      /\ Says({"grace", "expires"}, {"GRACE", "EXECUTED", "ABROGATED"})
    BY DEF ShownInItsPhase
  <2>1. PICK b \in Times :
          /\ CreatedAt(b) /\ Holds(n, Params(b)) /\ State = Phase(chain, now, Params(b))
          /\ n.block \in Times /\ chain[n.block].type = Source(n.type) /\ n.block <= now
    BY AboutTheProposal DEF Visible
  <2> DEFINE p == Params(b)
             block == n.block
  <2>2. TypeOK /\ ChainInv /\ now \in Int /\ Safety \in Nat /\ now < n.expires
    BY ConstantTypes DEF IInv, TypeInv, TypeOK, Times, Visible
  <2>3. /\ WarmUpEnd(p) \in Int /\ VotingEnd(p) \in Int /\ Eta(p) \in Int /\ GraceEnd(p) \in Int
        /\ WarmUpEnd(p) <= VotingEnd(p) /\ VotingEnd(p) <= Eta(p) /\ Eta(p) <= GraceEnd(p)
    BY ParamsOrder
  <2>4. Logged(chain, "executed") # {} => Eta(p) <= now
    BY <2>1, <2>2, ExecutedMeans
  <2>5. chain[block].type \in {"queued", "abrogation"} =>
          /\ VotingEnd(p) < now /\ NotCanceled /\ ContractCarried(chain)
          /\ Logged(chain, "queued") # {}
    <3> SUFFICES ASSUME chain[block].type \in {"queued", "abrogation"}
                 PROVE  /\ VotingEnd(p) < now /\ NotCanceled /\ ContractCarried(chain)
                        /\ Logged(chain, "queued") # {}
      OBVIOUS
    <3>1. /\ VotingEnd(p) < block /\ NotCanceled /\ ContractCarried(chain)
          /\ Logged(chain, "queued") # {}
      BY <2>1, <2>2, CarriedBy
    <3> QED  BY <2>1, <2>2, <2>3, <3>1 DEF Times
  <2> HIDE DEF p, block
  <2>6. Holds(n, p) /\ State = Phase(chain, now, p) /\ chain[block].type = Source(n.type)
    BY <2>1 DEF p, block
  <2>7. CASE n.type \in {"activating", "created"}
    <3>1. Ends(n, WarmUpEnd(p))
      BY <2>6, <2>7 DEF Holds
    <3>2. now <= WarmUpEnd(p) /\ Logged(chain, "executed") = {}
      BY <2>2, <2>3, <2>4, <3>1 DEF Ends
    <3> QED  BY <2>6, <2>7, <3>2 DEF Phase
  <2>8. CASE n.type \in {"votingOpen", "votingEnding"}
    <3>1. WarmUpEnd(p) < now /\ Ends(n, VotingEnd(p))
      BY <2>6, <2>8 DEF Holds
    <3>2. now <= VotingEnd(p) /\ ~(now <= WarmUpEnd(p)) /\ Logged(chain, "executed") = {}
      BY <2>2, <2>3, <2>4, <3>1 DEF Ends
    <3> QED  BY <2>6, <2>8, <3>2 DEF Phase
  <2>9. CASE n.type \in {"queueEnding", "accepted"}
    <3>1. /\ VotingEnd(p) + Safety < now /\ Ends(n, Eta(p))
          /\ NotCanceled /\ ContractCarried(chain)
      BY <2>6, <2>9 DEF Holds
    <3>2. /\ now < Eta(p) /\ ~(now <= VotingEnd(p)) /\ ~(now <= WarmUpEnd(p))
          /\ Logged(chain, "executed") = {}
      BY <2>2, <2>3, <2>4, <3>1 DEF Ends
    <3> QED  BY <2>6, <2>9, <3>1, <3>2 DEF Phase, NotCanceled
  <2>10. CASE n.type \in {"queued", "abrogation"}
    <3>1. Ends(n, Eta(p))
      BY <2>6, <2>10 DEF Holds
    <3>2. /\ VotingEnd(p) < now /\ NotCanceled /\ ContractCarried(chain)
          /\ Logged(chain, "queued") # {}
      BY <2>5, <2>6, <2>10 DEF Source
    <3>3. /\ now < Eta(p) /\ ~(now <= VotingEnd(p)) /\ ~(now <= WarmUpEnd(p))
          /\ Logged(chain, "executed") = {}
      BY <2>2, <2>3, <2>4, <3>1, <3>2 DEF Ends
    <3> QED  BY <2>6, <2>10, <3>2, <3>3 DEF Phase, NotCanceled
  <2>11. CASE n.type \in {"grace", "expires"}
    <3>1. Eta(p) < now /\ Ends(n, GraceEnd(p))
      BY <2>6, <2>11 DEF Holds
    <3>2. /\ NotCanceled /\ ContractCarried(chain) /\ Logged(chain, "queued") # {}
      BY <2>5, <2>6, <2>11 DEF Source
    <3>3. /\ ~(now > GraceEnd(p)) /\ ~(now < Eta(p)) /\ ~(now <= VotingEnd(p)) /\ ~(now <= WarmUpEnd(p))
      BY <2>2, <2>3, <3>1 DEF Ends
    <3> QED  BY <2>6, <2>11, <3>2, <3>3 DEF Phase, NotCanceled
  <2> QED  BY <2>7, <2>8, <2>9, <2>10, <2>11
<1> QED  BY <1>1, Finality, PTL

-----------------------------------------------------------------------------
(* The entries of the proposal's page, of which the newest is shown        *)

\* The first of some events, if it has the type: what buildHistory looks at next.
FirstEvent(type, events) ==
  {e \in events : e.type = type /\ \A f \in events : e.at <= f.at}

\* buildHistory, from what it finds: the events, and whether the vote and the abrogation failed.
History(p, canceled, queued, executed, failed, abrogated) ==
  LET CanceledBefore(deadline) == \E e \in canceled : e.at < deadline
      cancel == {Entry("CANCELED", e.at) : e \in canceled}
      fromEta ==
        IF Eta(p) >= now THEN {}
        ELSE IF abrogated THEN {Entry("ABROGATED", Eta(p))}
        ELSE {Entry("GRACE", Eta(p))} \cup
             (IF executed # {} THEN {Entry("EXECUTED", e.at) : e \in executed}
              ELSE IF GraceEnd(p) >= now THEN {}
              ELSE {Entry("EXPIRED", GraceEnd(p))})
      fromVotingEnd ==
        IF CanceledBefore(VotingEnd(p)) THEN cancel
        ELSE IF VotingEnd(p) >= now THEN {}
        ELSE IF failed THEN {Entry("FAILED", VotingEnd(p) + 1)}
        ELSE {Entry("ACCEPTED", VotingEnd(p) + 1)} \cup
             (IF queued = {} THEN {} ELSE {Entry("QUEUED", VotingEnd(p) + 1)} \cup fromEta)
      fromWarmUpEnd ==
        IF CanceledBefore(WarmUpEnd(p)) THEN cancel
        ELSE IF WarmUpEnd(p) >= now THEN {}
        ELSE {Entry("ACTIVE", WarmUpEnd(p) + 1)} \cup fromVotingEnd
  IN {Entry("CREATED", p.create), Entry("WARMUP", p.create)} \cup fromWarmUpEnd

LEMMA HistoryOf ==
  ASSUME NEW p
  PROVE  LET queued == FirstEvent("queued", LaterEvents(db))
         IN BuildHistory(db, now, p) =
              History(p, FirstEvent("canceled", LaterEvents(db)), queued,
                      {e \in FirstEvent("executed", LaterEvents(db) \ queued) : e.at <= GraceEnd(p)},
                      HistoryFailed(db, p), HistoryAbrogated(db))
BY DEF BuildHistory, History, FirstEvent


ShownOf(entries) == {e \in entries : \A f \in entries : ~Before(f, e)}

\* Two entries of which neither has to give way to the other are sorted by their starts.
Tied(m, n) == {m, n} = {"CREATED", "WARMUP"} \/ {m, n} = {"ACCEPTED", "QUEUED"}

LEMMA LaterFirst ==
  ASSUME NEW m, NEW n, NEW s \in Int, NEW t \in Int, ~Tied(m, n), t < s
  PROVE  Before(Entry(m, s), Entry(n, t)) /\ ~Before(Entry(n, t), Entry(m, s))
<1>1. {m, n} = {n, m}
  OBVIOUS
<1>2. Entry(m, s).name = m /\ Entry(m, s).start = s /\ Entry(n, t).name = n /\ Entry(n, t).start = t
  BY DEF Entry
<1> QED  BY <1>1, <1>2 DEF Before, Tied

\* The entry of which nothing comes first is alone.
LEMMA ShownAlone ==
  ASSUME NEW entries, NEW e \in entries, NEW name, NEW start \in Int, e = Entry(name, start),
         \A f \in entries : f # e => Before(e, f) /\ ~Before(f, e)
  PROVE  ShownOf(entries) = {e}
<1>1. ~Before(e, e)
  <2>1. e.name = name /\ e.start = start
    BY DEF Entry
  <2>2. {e.name, e.name} # {"CREATED", "WARMUP"} /\ {e.name, e.name} # {"ACCEPTED", "QUEUED"}
    OBVIOUS
  <2> QED  BY <2>1, <2>2 DEF Before
<1> QED  BY <1>1 DEF ShownOf

LEMMA TiedNames ==
  ASSUME NEW m, NEW n, Tied(m, n)
  PROVE  {m, n} \subseteq {"CREATED", "WARMUP"} \/ {m, n} \subseteq {"ACCEPTED", "QUEUED"}
BY DEF Tied

Older(name, start, entries) ==
  \A e \in entries : \E n, s : e = Entry(n, s) /\ s \in Int /\ s < start /\ ~Tied(name, n)

LEMMA OlderAdded ==
  ASSUME NEW name, NEW start, NEW entries, Older(name, start, entries),
         NEW n, NEW s \in Int, s < start, ~Tied(name, n)
  PROVE  Older(name, start, entries \cup {Entry(n, s)})
BY DEF Older

\* An entry that starts after all others.
LEMMA ShownLast ==
  ASSUME NEW older, NEW name, NEW start \in Int, Older(name, start, older)
  PROVE  ShownOf(older \cup {Entry(name, start)}) = {Entry(name, start)}
<1> DEFINE e == Entry(name, start)
           entries == older \cup {e}
<1>1. ASSUME NEW f \in entries, f # e PROVE Before(e, f) /\ ~Before(f, e)
  <2>1. PICK n, s : f = Entry(n, s) /\ s \in Int /\ s < start /\ ~Tied(name, n)
    BY <1>1 DEF Older
  <2> QED  BY <2>1, LaterFirst
<1>2. e \in entries
  OBVIOUS
<1> HIDE DEF e, entries
<1>3. ShownOf(entries) = {e}
  BY <1>1, <1>2, ShownAlone DEF e
<1> QED  BY <1>3 DEF e, entries

\* What every state's entries are, and which of them is shown.
LEMMA HistoryShows ==
  ASSUME NEW p, NEW canceled, NEW queued, NEW executed, NEW failed, NEW abrogated,
         now \in Int, p.create \in Int, WarmUpEnd(p) \in Int, VotingEnd(p) \in Int,
         Eta(p) \in Int, GraceEnd(p) \in Int,
         p.create <= WarmUpEnd(p), WarmUpEnd(p) < VotingEnd(p), VotingEnd(p) + 1 < Eta(p),
         Eta(p) < GraceEnd(p),
         \A e \in canceled :
           /\ e.at \in Int /\ p.create < e.at /\ e.at <= now /\ e.at < VotingEnd(p)
           /\ e.at \notin {WarmUpEnd(p), WarmUpEnd(p) + 1},
         \A e, f \in canceled : e.at = f.at,
         \A e \in executed : e.at \in Int /\ Eta(p) < e.at /\ e.at <= now,
         \A e, f \in executed : e.at = f.at
  PROVE  LET shown == ShownOf(History(p, canceled, queued, executed, failed, abrogated))
         IN IF canceled # {} THEN \E e \in canceled : shown = {Entry("CANCELED", e.at)}
            ELSE IF now <= WarmUpEnd(p) THEN shown = {Entry("WARMUP", p.create)}
            ELSE IF now <= VotingEnd(p) THEN shown = {Entry("ACTIVE", WarmUpEnd(p) + 1)}
            ELSE IF failed THEN shown = {Entry("FAILED", VotingEnd(p) + 1)}
            ELSE IF queued = {} THEN shown = {Entry("ACCEPTED", VotingEnd(p) + 1)}
            ELSE IF now <= Eta(p) THEN shown = {Entry("QUEUED", VotingEnd(p) + 1)}
            ELSE IF abrogated THEN shown = {Entry("ABROGATED", Eta(p))}
            ELSE IF executed # {} THEN \E e \in executed : shown = {Entry("EXECUTED", e.at)}
            ELSE IF now <= GraceEnd(p) THEN shown = {Entry("GRACE", Eta(p))}
            ELSE shown = {Entry("EXPIRED", GraceEnd(p))}
<1> DEFINE C == p.create
           W == WarmUpEnd(p)
           V == VotingEnd(p)
           entries == History(p, canceled, queued, executed, failed, abrogated)
           shown == ShownOf(entries)
           begun == {Entry("CREATED", C), Entry("WARMUP", C)}
           opened == begun \cup {Entry("ACTIVE", W + 1)}
           accepted == opened \cup {Entry("ACCEPTED", V + 1)}
           enqueued == accepted \cup {Entry("QUEUED", V + 1)}
           inGrace == enqueued \cup {Entry("GRACE", Eta(p))}
\* The sets of entries that the later ones are added to.
<1>1. ASSUME NEW name, name \notin {"CREATED", "WARMUP"}, NEW start \in Int, C < start
      PROVE  Older(name, start, begun)
  <2>1. ~Tied(name, "CREATED") /\ ~Tied(name, "WARMUP")
    BY <1>1, TiedNames
  <2> QED  BY <1>1, <2>1 DEF Older
<1>2. ASSUME NEW name, name \notin {"CREATED", "WARMUP"}, NEW start \in Int, W + 1 < start
      PROVE  Older(name, start, opened)
  <2>1. ~Tied(name, "ACTIVE")
    BY TiedNames
  <2>2. W + 1 \in Int /\ C < start
    BY <1>2
  <2>3. Older(name, start, begun)
    BY <1>1, <1>2, <2>2
  <2> HIDE DEF W, begun
  <2> QED  BY <1>2, <2>1, <2>2, <2>3, OlderAdded
<1>3. ASSUME NEW name \in {"ABROGATED", "GRACE", "EXECUTED", "EXPIRED"}, NEW start \in Int, V + 1 < start
      PROVE  Older(name, start, enqueued)
  <2>1. ~Tied(name, "ACCEPTED") /\ ~Tied(name, "QUEUED")
    BY TiedNames
  <2>2. V + 1 \in Int /\ W + 1 < start
    BY <1>3
  <2>3. Older(name, start, opened)
    BY <1>2, <1>3, <2>2
  <2> HIDE DEF V, opened
  <2>4. Older(name, start, accepted)
    BY <1>3, <2>1, <2>2, <2>3, OlderAdded
  <2> HIDE DEF accepted
  <2> QED  BY <1>3, <2>1, <2>2, <2>4, OlderAdded
<1>4. ASSUME NEW name \in {"EXECUTED", "EXPIRED"}, NEW start \in Int, Eta(p) < start
      PROVE  Older(name, start, inGrace)
  <2>1. ~Tied(name, "GRACE")
    BY TiedNames
  <2> HIDE DEF enqueued
  <2> QED  BY <1>3, <1>4, <2>1, OlderAdded
<1>5. ASSUME NEW name, NEW start \in Int, NEW older, Older(name, start, older),
             entries = older \cup {Entry(name, start)}
      PROVE  shown = {Entry(name, start)}
  <2> HIDE DEF entries
  <2> QED  BY <1>5, ShownLast
<1>6. ASSUME canceled # {} PROVE \E e \in canceled : shown = {Entry("CANCELED", e.at)}
  <2>1. PICK e \in canceled : TRUE
    BY <1>6
  <2>2. {Entry("CANCELED", f.at) : f \in canceled} = {Entry("CANCELED", e.at)}
    BY <2>1
  <2>3. CASE e.at < W
    <3>1. entries = begun \cup {Entry("CANCELED", e.at)}
      BY <2>1, <2>2, <2>3 DEF History
    <3> HIDE DEF entries, begun
    <3> QED  BY <1>1, <1>5, <2>1, <3>1
  <2>4. CASE ~(e.at < W)
    <3>1. e.at \in Int /\ W + 1 < e.at /\ e.at < V /\ e.at <= now
      BY <2>1, <2>4
    <3>2. /\ ~\E f \in canceled : f.at < W
          /\ \E f \in canceled : f.at < V
          /\ ~(W >= now)
      BY <2>1, <2>4, <3>1
    <3>3. entries = opened \cup {Entry("CANCELED", e.at)}
      BY <2>2, <3>2 DEF History
    <3> HIDE DEF entries, opened
    <3> QED  BY <1>2, <1>5, <3>1, <3>3
  <2> QED  BY <2>3, <2>4
<1>7. ASSUME canceled = {}, now <= W PROVE shown = {Entry("WARMUP", C)}
  <2>1. entries = begun
    BY <1>7 DEF History
  <2> DEFINE e == Entry("WARMUP", C)
  <2>2. \A f \in begun : f # e => Before(e, f) /\ ~Before(f, e)
    BY DEF Before, Entry
  <2> QED  BY <2>1, <2>2, ShownAlone
<1> SUFFICES ASSUME canceled = {}, ~(now <= W)
             PROVE  IF now <= V THEN shown = {Entry("ACTIVE", W + 1)}
                    ELSE IF failed THEN shown = {Entry("FAILED", V + 1)}
                    ELSE IF queued = {} THEN shown = {Entry("ACCEPTED", V + 1)}
                    ELSE IF now <= Eta(p) THEN shown = {Entry("QUEUED", V + 1)}
                    ELSE IF abrogated THEN shown = {Entry("ABROGATED", Eta(p))}
                    ELSE IF executed # {} THEN \E e \in executed : shown = {Entry("EXECUTED", e.at)}
                    ELSE IF now <= GraceEnd(p) THEN shown = {Entry("GRACE", Eta(p))}
                    ELSE shown = {Entry("EXPIRED", GraceEnd(p))}
  BY <1>6, <1>7
<1>8. CASE now <= V
  <2>1. entries = opened
    BY <1>8 DEF History
  <2>2. W + 1 \in Int /\ C < W + 1
    OBVIOUS
  <2>3. Older("ACTIVE", W + 1, begun)
    BY <1>1, <2>2
  <2> HIDE DEF entries, begun, W
  <2> QED  BY <1>5, <1>8, <2>1, <2>2, <2>3
<1>9. CASE ~(now <= V) /\ failed
  <2>1. entries = opened \cup {Entry("FAILED", V + 1)}
    BY <1>9 DEF History
  <2>2. V + 1 \in Int /\ W + 1 < V + 1
    OBVIOUS
  <2>3. Older("FAILED", V + 1, opened)
    BY <1>2, <2>2
  <2> HIDE DEF entries, opened, V
  <2> QED  BY <1>5, <1>9, <2>1, <2>2, <2>3
<1>10. CASE ~(now <= V) /\ ~failed /\ queued = {}
  <2>1. entries = accepted
    BY <1>10 DEF History
  <2>2. V + 1 \in Int /\ W + 1 < V + 1
    OBVIOUS
  <2>3. Older("ACCEPTED", V + 1, opened)
    BY <1>2, <2>2
  <2> HIDE DEF entries, opened, V
  <2> QED  BY <1>5, <1>10, <2>1, <2>2, <2>3
<1>11. CASE ~(now <= V) /\ ~failed /\ queued # {} /\ now <= Eta(p)
  <2>1. entries = enqueued
    BY <1>11 DEF History
  <2> DEFINE e == Entry("QUEUED", V + 1)
  <2>2. Older("QUEUED", V + 1, opened)
    BY <1>2
  <2>3. \A f \in opened : Before(e, f) /\ ~Before(f, e)
    BY <2>2, LaterFirst DEF Older
  <2>4. Before(e, Entry("ACCEPTED", V + 1)) /\ ~Before(Entry("ACCEPTED", V + 1), e)
    BY DEF Before, Entry
  <2>5. \A f \in entries : f # e => Before(e, f) /\ ~Before(f, e)
    <3> HIDE DEF opened, e
    <3> QED  BY <2>1, <2>3, <2>4 DEF e
  <2>6. e \in entries
    BY <2>1
  <2> HIDE DEF entries
  <2> QED  BY <1>11, <2>5, <2>6, ShownAlone
<1> SUFFICES ASSUME ~failed, queued # {}, ~(now <= V), ~(now <= Eta(p))
             PROVE  IF abrogated THEN shown = {Entry("ABROGATED", Eta(p))}
                    ELSE IF executed # {} THEN \E e \in executed : shown = {Entry("EXECUTED", e.at)}
                    ELSE IF now <= GraceEnd(p) THEN shown = {Entry("GRACE", Eta(p))}
                    ELSE shown = {Entry("EXPIRED", GraceEnd(p))}
  BY <1>8, <1>9, <1>10, <1>11
<1>12. CASE abrogated
  <2>1. entries = enqueued \cup {Entry("ABROGATED", Eta(p))}
    BY <1>12 DEF History
  <2> HIDE DEF entries, enqueued
  <2> QED  BY <1>3, <1>5, <1>12, <2>1
<1>13. CASE ~abrogated /\ executed # {}
  <2>1. PICK e \in executed : TRUE
    BY <1>13
  <2>2. {Entry("EXECUTED", f.at) : f \in executed} = {Entry("EXECUTED", e.at)}
    BY <2>1
  <2>3. entries = inGrace \cup {Entry("EXECUTED", e.at)}
    BY <1>13, <2>2 DEF History
  <2> HIDE DEF entries, inGrace
  <2> QED  BY <1>4, <1>5, <1>13, <2>1, <2>3
<1>14. CASE ~abrogated /\ executed = {} /\ now <= GraceEnd(p)
  <2>1. entries = inGrace
    BY <1>14 DEF History
  <2> HIDE DEF entries, enqueued
  <2> QED  BY <1>3, <1>5, <1>14, <2>1
<1>15. CASE ~abrogated /\ executed = {} /\ ~(now <= GraceEnd(p))
  <2>1. entries = inGrace \cup {Entry("EXPIRED", GraceEnd(p))}
    BY <1>15 DEF History
  <2> HIDE DEF entries, inGrace
  <2> QED  BY <1>4, <1>5, <1>15, <2>1
<1> QED  BY <1>12, <1>13, <1>14, <1>15

LEMMA LaterOf ==
  ASSUME IInv, Synced
  PROVE  /\ \A e \in LaterEvents(db) :
              /\ e \in EventRows(db) /\ e.type \in {"queued", "canceled", "executed"}
              /\ e.at \in Times /\ chain[e.at].type = e.type
         /\ \A t \in Times : chain[t].type \in {"queued", "canceled", "executed"} =>
              \E e \in LaterEvents(db) : e.at = t /\ e.type = chain[t].type
<1>1. \A e : e \in EventRows(db)
         <=> \E type \in EventTypes : \E r \in Logged(chain, type) : e = [at |-> r.at, type |-> type]
  <2>1. \A type : Rows(db, type) = Logged(chain, type)
    BY SyncedTables
  <2> QED  BY <2>1 DEF EventRows
<1>2. \A at, type : [at |-> at, type |-> type].type = type /\ [at |-> at, type |-> type].at = at
  OBVIOUS
<1>3. \A type : \A r \in Logged(chain, type) : r.at \in Times /\ chain[r.at].type = type
  BY LoggedAt DEF IInv, TypeInv, TypeOK
<1>4. ASSUME NEW e \in LaterEvents(db)
      PROVE  /\ e \in EventRows(db) /\ e.type \in {"queued", "canceled", "executed"}
             /\ e.at \in Times /\ chain[e.at].type = e.type
  <2>1. e \in EventRows(db) /\ e.type # "created"
    BY DEF LaterEvents
  <2>2. PICK type \in EventTypes : \E r \in Logged(chain, type) : e = [at |-> r.at, type |-> type]
    BY <1>1, <2>1
  <2> QED  BY <1>2, <1>3, <2>1, <2>2 DEF EventTypes
<1>5. ASSUME NEW t \in Times, chain[t].type \in {"queued", "canceled", "executed"}
      PROVE  \E e \in LaterEvents(db) : e.at = t /\ e.type = chain[t].type
  <2> DEFINE e == [at |-> t, type |-> chain[t].type]
  <2>1. \E r \in Logged(chain, chain[t].type) : r.at = t
    BY LoggedAt DEF IInv, TypeInv, TypeOK
  <2>2. e \in EventRows(db)
    BY <1>1, <1>5, <2>1 DEF EventTypes
  <2> QED  BY <1>5, <2>2 DEF LaterEvents
<1> QED  BY <1>4, <1>5

\* The events the history starts from: at most one of a type, in the order of the contract.
LEMMA EventFacts ==
  ASSUME IInv, Synced, NEW b \in Times, CreatedAt(b)
  PROVE  LET p == Params(b)
             canceled == FirstEvent("canceled", LaterEvents(db))
             queued == FirstEvent("queued", LaterEvents(db))
             executed == {e \in FirstEvent("executed", LaterEvents(db) \ queued) : e.at <= GraceEnd(p)}
         IN /\ canceled # {} <=> Logged(chain, "canceled") # {}
            /\ queued # {} <=> Logged(chain, "queued") # {}
            /\ executed # {} <=> Logged(chain, "executed") # {}
            /\ \A e \in canceled : /\ e \in EventRows(db) /\ e.type = "canceled"
                                   /\ e.at \in Int /\ b < e.at /\ e.at <= now /\ e.at <= VotingEnd(p)
            /\ \A e \in executed : /\ e \in EventRows(db) /\ e.type = "executed"
                                   /\ e.at \in Int /\ Eta(p) <= e.at /\ e.at <= now
            /\ \A e, f \in canceled : e.at = f.at
            /\ \A e, f \in executed : e.at = f.at
<1> DEFINE p == Params(b)
           later == LaterEvents(db)
           canceled == FirstEvent("canceled", later)
           queued == FirstEvent("queued", later)
           executed == {e \in FirstEvent("executed", later \ queued) : e.at <= GraceEnd(p)}
<1>t. /\ TypeOK /\ ChainInv /\ chain \in [Times -> Logs] /\ Times \subseteq Int
  BY DEF IInv, TypeInv, TypeOK, Times
<1>1. \A e \in later : /\ e \in EventRows(db) /\ e.type \in {"queued", "canceled", "executed"}
                       /\ e.at \in Times /\ chain[e.at].type = e.type /\ e.at <= now
  <2>1. \A t \in Times : chain[t].type \in {"queued", "canceled", "executed"} => t <= now
    BY <1>t DEF ChainInv, NoLog, Plain
  <2>2. \A e \in later : /\ e \in EventRows(db) /\ e.type \in {"queued", "canceled", "executed"}
                         /\ e.at \in Times /\ chain[e.at].type = e.type
    BY LaterOf
  <2> HIDE DEF later
  <2> QED  BY <2>1, <2>2
<1>2. \A type \in {"queued", "canceled", "executed"} :
        Logged(chain, type) # {} <=> \E e \in later : e.type = type
  <2> SUFFICES ASSUME NEW type \in {"queued", "canceled", "executed"}
               PROVE  Logged(chain, type) # {} <=> \E e \in later : e.type = type
    OBVIOUS
  <2>1. /\ \A r \in Logged(chain, type) : r.at \in Times /\ chain[r.at].type = type
        /\ \A t \in Times : chain[t].type = type => \E r \in Logged(chain, type) : r.at = t
    <3>1. chain \in [Times -> Logs]
      BY <1>t
    <3> QED  BY <3>1, LoggedAt
  <2> QED  BY <1>1, <2>1, LaterOf
<1>3. \A e, f \in later : e.type = f.type => e.at = f.at
  <2> SUFFICES ASSUME NEW e \in later, NEW f \in later, e.type = f.type PROVE e.at = f.at
    OBVIOUS
  <2> HIDE DEF later
  <2>1. e.at \in Times /\ f.at \in Times /\ chain[e.at].type \in Once /\ chain[f.at].type = chain[e.at].type
    BY <1>1 DEF Once
  <2> QED  BY <1>t, <2>1, OnceLogged
<1>4. \A e, f \in later : e.type \in {"queued", "executed"} => f.type # "canceled"
  <2> SUFFICES ASSUME NEW e \in later, NEW f \in later, e.type \in {"queued", "executed"},
                      f.type = "canceled"
               PROVE  FALSE
    OBVIOUS
  <2>1. NotCanceled
    BY <1>t, <1>1, CarriedBy
  <2> QED  BY <1>2, <2>1 DEF NotCanceled
<1>5. \A e \in later : e.type = "executed" =>
        /\ Eta(p) <= e.at /\ e.at <= GraceEnd(p)
        /\ \E f \in later : f.type = "queued"
        /\ \A f \in later : f.type = "queued" => f.at < e.at
  <2> SUFFICES ASSUME NEW e \in later, e.type = "executed"
               PROVE  /\ Eta(p) <= e.at /\ e.at <= GraceEnd(p)
                      /\ \E f \in later : f.type = "queued"
                      /\ \A f \in later : f.type = "queued" => f.at < e.at
    OBVIOUS
  <2> DEFINE t == e.at
             c == Until(chain, t)
  <2>1. t \in Times /\ chain[t].type = "executed" /\ chain[t] # NoLog /\ t # b
    BY <1>1 DEF NoLog, Plain, CreatedAt
  <2>2. Eta(p) <= t /\ t <= GraceEnd(p) /\ Logged(c, "queued") # {}
    BY <1>t, <2>1, LegalCalls
  <2>3. PICK u \in Times : c[u].type = "queued"
    BY <1>t, <2>1, <2>2, UntilType, LoggedAt
  <2>4. u < t /\ chain[u].type = "queued"
    <3>1. c[u] # NoLog
      BY <2>3 DEF NoLog, Plain
    <3>2. u < t => c[u] = chain[u]
      BY <1>t, <2>1, UntilType
    <3>3. ~(u < t) => c[u] = NoLog
      BY <1>t, <2>1, UntilType
    <3> QED  BY <2>3, <3>1, <3>2, <3>3
  <2>5. PICK f \in later : f.at = u /\ f.type = "queued"
    BY <2>4, LaterOf
  <2> QED  BY <1>3, <2>2, <2>4, <2>5
<1>6. \A e \in later : e.type = "canceled" => b < e.at /\ e.at <= VotingEnd(p)
  <2> SUFFICES ASSUME NEW e \in later, e.type = "canceled"
               PROVE  b < e.at /\ e.at <= VotingEnd(p)
    OBVIOUS
  <2>1. e.at \in Times /\ chain[e.at].type = "canceled" /\ chain[e.at] # NoLog /\ e.at # b
    BY <1>1 DEF NoLog, Plain, CreatedAt
  <2> QED  BY <1>t, <2>1, LegalCalls
<1> HIDE DEF p, later
<1>7. \A e \in later : e.at \in Int
  BY <1>t, <1>1
<1>8. canceled = {e \in later : e.type = "canceled"}
  <2>1. \A e, f \in later : e.type = "canceled" => f.type = "canceled"
    BY <1>1, <1>4
  <2>2. \A e, f \in later : e.type = "canceled" => e.at <= f.at
    BY <1>3, <1>7, <2>1
  <2> QED  BY <2>2 DEF FirstEvent
<1>9. queued = {e \in later : e.type = "queued"}
  <2>1. \A e, f \in later : e.type = "queued" => f.type \in {"queued", "executed"}
    BY <1>1, <1>4
  <2>2. \A e, f \in later : e.type = "queued" => e.at <= f.at
    BY <1>3, <1>5, <1>7, <2>1
  <2> QED  BY <2>2 DEF FirstEvent
<1>10. executed = {e \in later : e.type = "executed"}
  <2>1. \A e \in later, f \in later \ queued : e.type = "executed" => f.type = "executed"
    BY <1>1, <1>4, <1>9
  <2>2. \A e \in later, f \in later \ queued : e.type = "executed" => e.at <= f.at
    BY <1>3, <1>7, <2>1
  <2>3. \A e \in later : e.type = "executed" => e \in later \ queued
    BY <1>9
  <2> HIDE DEF queued
  <2>4. FirstEvent("executed", later \ queued) = {e \in later : e.type = "executed"}
    BY <2>2, <2>3 DEF FirstEvent
  <2> QED  BY <1>5, <2>4
<1> HIDE DEF canceled, queued, executed
<1>11. /\ canceled # {} <=> Logged(chain, "canceled") # {}
       /\ queued # {} <=> Logged(chain, "queued") # {}
       /\ executed # {} <=> Logged(chain, "executed") # {}
  BY <1>2, <1>8, <1>9, <1>10
<1>12. \A e \in canceled : /\ e \in EventRows(db) /\ e.type = "canceled"
                           /\ e.at \in Int /\ b < e.at /\ e.at <= now /\ e.at <= VotingEnd(p)
  BY <1>t, <1>1, <1>6, <1>8
<1>13. \A e \in executed : /\ e \in EventRows(db) /\ e.type = "executed"
                           /\ e.at \in Int /\ Eta(p) <= e.at /\ e.at <= now
  BY <1>t, <1>1, <1>5, <1>10
<1>14. (\A e, f \in canceled : e.at = f.at) /\ (\A e, f \in executed : e.at = f.at)
  BY <1>3, <1>8, <1>10
<1> QED  BY <1>11, <1>12, <1>13, <1>14 DEF p, later, canceled, queued, executed

\* What the page and SQL take from the votes, but for the exact thresholds.
LEMMA HistoryVotes ==
  ASSUME IInv, Synced, NEW b \in Times, ~Edge(Params(b))
  PROVE  /\ HistoryFailed(db, Params(b)) <=> ~ContractCarried(chain)
         /\ HistoryAbrogated(db) <=> ContractAbrogated(chain)
<1> DEFINE p == Params(b)
           for == 100 * ForVotes(db)
           needed == p.threshold * AllVotes(db)
           tally == Tally(AbrogationVotes(db), TRUE)
<1>1. TypeOK /\ ChainInv /\ \A type : Rows(db, type) = Logged(chain, type)
  BY SyncedTables DEF IInv, TypeInv
<1>2. /\ Tally(ProposalVotes(db), TRUE) \in Nat /\ Tally(ProposalVotes(db), FALSE) \in Nat
      /\ tally \in Nat
  <2>1. \A vote, unvote, support : PowerOf(Supporters(chain, vote, unvote, support)) \in Nat
    <3>1. \A vote, unvote, support : Supporters(chain, vote, unvote, support) \in SUBSET Voters
      BY DEF Supporters
    <3> QED  BY <3>1, PowerIsNat
  <2>2. \A support : Tally(ProposalVotes(db), support)
                       = PowerOf(Supporters(chain, "vote", "unvote", support))
    BY <1>1, TallyOf DEF ProposalVotes, VoteRows, CanceledVoteRows, Ballot
  <2>3. tally = PowerOf(Supporters(chain, "abVote", "abUnvote", TRUE))
    <3>1. /\ Rows(db, "abVote") = Logged(chain, "abVote") /\ "abVote" \in Ballot
          /\ Rows(db, "abUnvote") = Logged(chain, "abUnvote") /\ "abUnvote" \in Ballot
      BY <1>1 DEF Ballot
    <3>2. Tally(Ballots(Rows(db, "abVote"), Rows(db, "abUnvote")), TRUE)
            = PowerOf(Supporters(chain, "abVote", "abUnvote", TRUE))
      BY <1>1, <3>1, TallyOf
    <3> QED  BY <3>2 DEF AbrogationVotes, AbrogationVoteRows, CanceledAbrogationVoteRows
  <2> QED  BY <2>1, <2>2, <2>3
<1>3. for \in Int /\ needed \in Int
  <2>1. ForVotes(db) \in Nat /\ AllVotes(db) \in Nat
    <3>1. ForVotes(db) \in Nat /\ AgainstVotes(db) \in Nat
      BY <1>2 DEF ForVotes, AgainstVotes
    <3> QED  BY <3>1 DEF AllVotes
  <2>2. p.threshold \in Nat
    BY ConstantTypes DEF Params
  <2> HIDE DEF p
  <2> QED  BY <2>1, <2>2
<1>4. ContractCarried(chain) <=> ~BelowQuorum(db, p) /\ ~(for < needed)
  BY <1>1, CarriedInTables
<1>5. HistoryFailed(db, p) <=> BelowQuorum(db, p) \/ for <= needed
  BY DEF HistoryFailed
<1>6. ~(~BelowQuorum(db, p) /\ for = needed)
  BY DEF Edge
<1>7. ContractAbrogated(chain) <=> AbrogationRows(db) # {} /\ tally >= AbrogationQuorum
  BY <1>1, AbrogatedInTables
<1>8. HistoryAbrogated(db) <=> AbrogationRows(db) # {} /\ 2 * tally > Staked
  BY DEF HistoryAbrogated
<1>9. ~(AbrogationRows(db) # {} /\ 2 * tally = Staked)
  BY DEF Edge
<1> HIDE DEF for, needed, tally
<1>10. 2 * tally > Staked \/ 2 * tally = Staked <=> tally >= AbrogationQuorum
  BY <1>2, ConstantTypes DEF AbrogationQuorum
<1> QED  BY <1>3, <1>4, <1>5, <1>6, <1>7, <1>8, <1>9, <1>10 DEF p

LEMMA TimeLeftOf ==
  ASSUME NEW s, NEW p
  PROVE  /\ s = "WARMUP" => TimeLeft(s, now, p) = WarmUpEnd(p) - now
         /\ s = "ACTIVE" => TimeLeft(s, now, p) = VotingEnd(p) - now
         /\ s = "QUEUED" => TimeLeft(s, now, p) = Eta(p) - now
         /\ s = "GRACE" => TimeLeft(s, now, p) = GraceEnd(p) - now
         /\ s \notin {"WARMUP", "ACTIVE", "QUEUED", "GRACE"} => TimeLeft(s, now, p) = -1
BY Zenon DEF TimeLeft

LEMMA ShownEndOf ==
  ASSUME NEW e, NEW p
  PROVE  /\ e.name = "WARMUP" => ShownEnd(e, p) = e.start + p.warm
         /\ e.name = "ACTIVE" => ShownEnd(e, p) = e.start + p.active
         /\ e.name = "QUEUED" => ShownEnd(e, p) = e.start + p.queue
         /\ e.name = "GRACE" => ShownEnd(e, p) = e.start + p.grace
BY Zenon DEF ShownEnd

LEMMA ListedActive == Listed("ACTIVE") = {"WARMUP", "ACTIVE", "ACCEPTED", "QUEUED", "GRACE"}
BY Zenon DEF Listed

Agrees(p) ==
  LET page == Details(db, now, p) IN
  \E e \in page.shown :
    /\ page.shown = {e} /\ e.name = page.state
    /\ page.timeLeft # -1 => ShownEnd(e, p) - now - page.timeLeft \in {0, 1}
    /\ page.state \in Listed("ACTIVE") <=> e.name \notin Final

\* A page that shows one entry, which starts where the phase of that name does.
LEMMA PageAgrees ==
  ASSUME IInv, NEW b \in Times, NEW state \in States, NEW start,
         LET p == Params(b) IN
         /\ ProposalState(db, {p}, now) = state /\ state # "NONE"
         /\ Shown(db, now, p) = {Entry(state, start)}
         /\ state = "WARMUP" => start = p.create
         /\ state = "ACTIVE" => start = WarmUpEnd(p) + 1
         /\ state = "QUEUED" => start = VotingEnd(p) + 1
         /\ state = "GRACE" => start = Eta(p)
  PROVE  Agrees(Params(b))
<1> DEFINE p == Params(b)
           page == Details(db, now, p)
           e == Entry(state, start)
<1>1. page.shown = {e} /\ page.state = state /\ page.timeLeft = TimeLeft(state, now, p)
  BY DEF Details
<1>2. e.name = state /\ e.start = start
  BY DEF Entry
<1>3. /\ p.create \in Int /\ p.warm \in Int /\ p.active \in Int /\ p.queue \in Int /\ p.grace \in Int
      /\ now \in Int
  BY ConstantTypes DEF Params, IInv, TypeInv, TypeOK, Times
<1> HIDE DEF p, page, e
<1>4. CASE state \in {"WARMUP", "ACTIVE", "QUEUED", "GRACE"}
  <2>1. ShownEnd(e, p) - now - TimeLeft(state, now, p) \in {0, 1}
    BY <1>2, <1>3, <1>4, TimeLeftOf, ShownEndOf DEF p, WarmUpEnd, VotingEnd, Eta, GraceEnd
  <2> QED  BY <1>1, <1>2, <1>4, <2>1, ListedActive DEF Agrees, Final, page, p
<1>5. CASE state \notin {"WARMUP", "ACTIVE", "QUEUED", "GRACE"}
  <2>1. TimeLeft(state, now, p) = -1
    BY <1>5, TimeLeftOf
  <2> QED  BY <1>1, <1>2, <1>5, <2>1, ListedActive DEF Agrees, Final, States, page, p
<1> QED  BY <1>4, <1>5

\* The row of the proposal, over which SQL gives the state.
LEMMA RowOfProposal ==
  ASSUME IInv, Synced, NEW p \in ProposalRows(db)
  PROVE  /\ \E b \in Times : CreatedAt(b) /\ p = Params(b)
         /\ \A b \in Times : CreatedAt(b) /\ p = Params(b) =>
              ProposalState(db, {p}, now) = Phase(chain, now, p)
<1>t. TypeOK /\ ChainInv /\ chain \in [Times -> Logs]
  BY DEF IInv, TypeInv, TypeOK
<1>1. State # "NONE"
  <2>1. Logged(chain, "created") # {}
    BY SyncedTables DEF ProposalRows
  <2> QED  BY <2>1 DEF State, ContractState
<1>2. PICK t \in Times : Logged(chain, "created") # {} /\ ProposalRows(db) = {Params(t)}
                          /\ (CHOOSE u \in DOMAIN chain : \E l \in Logged(chain, "created") : l.at = u) = t
  BY <1>1, TheProposal
<1>3. CreatedAt(t)
  <2>1. PICK l \in Logged(chain, "created") : TRUE
    BY <1>2
  <2>2. l.at \in DOMAIN chain /\ \E m \in Logged(chain, "created") : m.at = l.at
    BY <1>t, LoggedAt
  <2>3. \E m \in Logged(chain, "created") : m.at = t
    BY <1>2, <2>2
  <2> QED  BY <1>t, <2>3, LoggedAt DEF CreatedAt
<1>4. State = Phase(chain, now, Params(t))
  BY <1>t, <1>3, PhaseOf, OnceLogged DEF CreatedAt, Once, State
<1>5. ProposalState(db, ProposalRows(db), now) = State
  BY <1>1, SqlAgrees DEF SqlMatchesContract
<1> QED  BY <1>2, <1>3, <1>4, <1>5

\* Phases of which each begins later than the one before: buildHistory starts the entries of
\* the vote and of the queue a second late, and that of the grace period not.
DistinctPhases == 0 < Active /\ 1 < Queue /\ 0 < Grace

\* The page's history and the state that SQL puts beside it are computed apart from each
\* other, and agree but for the seconds and votes of Edge: whatever was voted, replaced and
\* stored, the first entry is the state, and its end is the time left, at most a second off.
THEOREM PageTellsTheState == DistinctPhases => (Spec => []HistoryAgrees)
<1> SUFFICES ASSUME DistinctPhases PROVE Spec => []HistoryAgrees
  OBVIOUS
<1>1. IInv => HistoryAgrees
  <2> SUFFICES ASSUME IInv, Synced, NEW p \in ProposalRows(db), ~Edge(p) PROVE Agrees(p)
    BY DEF HistoryAgrees, Agrees
  <2>t. TypeOK /\ ChainInv /\ chain \in [Times -> Logs] /\ now \in Int
    BY DEF IInv, TypeInv, TypeOK, Times
  <2>1. PICK b \in Times : CreatedAt(b) /\ p = Params(b)
    BY <2>t, RowOfProposal
  <2>2. ProposalState(db, {p}, now) = Phase(chain, now, p)
    BY <2>1, RowOfProposal
  <2> DEFINE canceled == FirstEvent("canceled", LaterEvents(db))
             queued == FirstEvent("queued", LaterEvents(db))
             executed == {e \in FirstEvent("executed", LaterEvents(db) \ queued) : e.at <= GraceEnd(p)}
             failed == HistoryFailed(db, p)
             abrogated == HistoryAbrogated(db)
  <2>3. /\ canceled # {} <=> Logged(chain, "canceled") # {}
        /\ queued # {} <=> Logged(chain, "queued") # {}
        /\ executed # {} <=> Logged(chain, "executed") # {}
        /\ \A e \in canceled : /\ e \in EventRows(db) /\ e.type = "canceled"
                               /\ e.at \in Int /\ b < e.at /\ e.at <= now /\ e.at <= VotingEnd(p)
        /\ \A e \in executed : /\ e \in EventRows(db) /\ e.type = "executed"
                               /\ e.at \in Int /\ Eta(p) <= e.at /\ e.at <= now
        /\ \A e, f \in canceled : e.at = f.at
        /\ \A e, f \in executed : e.at = f.at
    BY <2>1, EventFacts
  <2>4. (failed <=> ~ContractCarried(chain)) /\ (abrogated <=> ContractAbrogated(chain))
    BY <2>1, HistoryVotes
  <2>5. /\ p.create \in Int /\ WarmUpEnd(p) \in Int /\ VotingEnd(p) \in Int
        /\ Eta(p) \in Int /\ GraceEnd(p) \in Int /\ p.create = b
        /\ p.create <= WarmUpEnd(p) /\ WarmUpEnd(p) < VotingEnd(p)
        /\ VotingEnd(p) + 1 < Eta(p) /\ Eta(p) < GraceEnd(p)
    BY <2>1, ConstantTypes DEF Params, Times, WarmUpEnd, VotingEnd, Eta, GraceEnd, DistinctPhases
  <2>6. Shown(db, now, p) = ShownOf(History(p, canceled, queued, executed, failed, abrogated))
    <3>1. BuildHistory(db, now, p) = History(p, canceled, queued, executed, failed, abrogated)
      BY HistoryOf
    <3>2. Shown(db, now, p) = ShownOf(BuildHistory(db, now, p))
      BY DEF Shown, ShownOf
    <3> QED  BY <3>1, <3>2
  <2>7. /\ now # Eta(p)
        /\ \A e \in canceled : /\ e.at # VotingEnd(p)
                               /\ e.at \notin {WarmUpEnd(p), WarmUpEnd(p) + 1}
        /\ \A e \in executed : e.at # Eta(p)
    BY <2>3 DEF Edge
  <2>8. Logged(chain, "executed") # {} =>
          /\ NotCanceled /\ ContractCarried(chain) /\ ~ContractAbrogated(chain)
          /\ Eta(p) <= now /\ Logged(chain, "queued") # {}
    <3>1. ASSUME Logged(chain, "executed") # {} PROVE Logged(chain, "queued") # {}
      <4>1. PICK t \in Times : chain[t].type = "executed"
        BY <2>t, <3>1, LoggedAt
      <4> QED  BY <2>t, <2>1, <4>1, CarriedBy
    <3> QED  BY <2>t, <2>1, <3>1, ExecutedMeans
  <2> HIDE DEF canceled, queued, executed, failed, abrogated
  <2>9. IF canceled # {} THEN \E e \in canceled : Shown(db, now, p) = {Entry("CANCELED", e.at)}
        ELSE IF now <= WarmUpEnd(p) THEN Shown(db, now, p) = {Entry("WARMUP", p.create)}
        ELSE IF now <= VotingEnd(p) THEN Shown(db, now, p) = {Entry("ACTIVE", WarmUpEnd(p) + 1)}
        ELSE IF failed THEN Shown(db, now, p) = {Entry("FAILED", VotingEnd(p) + 1)}
        ELSE IF queued = {} THEN Shown(db, now, p) = {Entry("ACCEPTED", VotingEnd(p) + 1)}
        ELSE IF now <= Eta(p) THEN Shown(db, now, p) = {Entry("QUEUED", VotingEnd(p) + 1)}
        ELSE IF abrogated THEN Shown(db, now, p) = {Entry("ABROGATED", Eta(p))}
        ELSE IF executed # {} THEN \E e \in executed : Shown(db, now, p) = {Entry("EXECUTED", e.at)}
        ELSE IF now <= GraceEnd(p) THEN Shown(db, now, p) = {Entry("GRACE", Eta(p))}
        ELSE Shown(db, now, p) = {Entry("EXPIRED", GraceEnd(p))}
    <3>1. \A e \in canceled :
            /\ e.at \in Int /\ p.create < e.at /\ e.at <= now /\ e.at < VotingEnd(p)
            /\ e.at \notin {WarmUpEnd(p), WarmUpEnd(p) + 1}
      BY <2>3, <2>5, <2>7
    <3>2. \A e \in executed : e.at \in Int /\ Eta(p) < e.at /\ e.at <= now
      BY <2>3, <2>5, <2>7
    <3> QED  BY <2>t, <2>3, <2>5, <2>6, <3>1, <3>2, HistoryShows
  <2>11. Eta(p) <= now => ~(now <= Eta(p)) /\ ~(now <= VotingEnd(p)) /\ ~(now <= WarmUpEnd(p))
    BY <2>t, <2>5, <2>7
  <2>12. now <= Eta(p) <=> now < Eta(p)
    BY <2>t, <2>5, <2>7
  <2>13. now > GraceEnd(p) <=> ~(now <= GraceEnd(p))
    BY <2>t, <2>5
  <2>14. \E start :
           /\ Shown(db, now, p) = {Entry(Phase(chain, now, p), start)}
           /\ Phase(chain, now, p) = "WARMUP" => start = p.create
           /\ Phase(chain, now, p) = "ACTIVE" => start = WarmUpEnd(p) + 1
           /\ Phase(chain, now, p) = "QUEUED" => start = VotingEnd(p) + 1
           /\ Phase(chain, now, p) = "GRACE" => start = Eta(p)
    BY <2>3, <2>4, <2>8, <2>9, <2>11, <2>12, <2>13 DEF Phase, NotCanceled
  <2>15. Phase(chain, now, p) \in States \ {"NONE"}
    BY DEF Phase, States
  <2> QED  BY <2>1, <2>2, <2>14, <2>15, PageAgrees
<1> QED  BY <1>1, Invariance, PTL

-----------------------------------------------------------------------------
(* The chains of jobs with which each phase is announced                   *)

\* The phases can be told apart, and a block is stored before the first is over.
PhasesLongEnough ==
  Delay <= WarmUp /\ 0 < Soon /\ 0 < Active /\ 0 < Grace

\* The jobs that announce something while a phase lasts, ...
Short == {"activating", "votingOpen", "votingEnding", "grace", "expires"}

\* ... and those that follow the chains to their ends.
Announcing == Short \cup {"outcome", "expired", "abrogated"}

\* What the announced phase begins after, and when it ends.
Opens(type, p) ==
  IF type = "activating" THEN 0
  ELSE IF type \in {"votingOpen", "votingEnding"} THEN WarmUpEnd(p)
  ELSE IF type = "outcome" THEN VotingEnd(p)
  ELSE IF type = "expired" THEN GraceEnd(p)
  ELSE Eta(p)

Closes(type, p) ==
  IF type = "activating" THEN WarmUpEnd(p)
  ELSE IF type \in {"votingOpen", "votingEnding"} THEN VotingEnd(p)
  ELSE GraceEnd(p)

Wanted(type) ==
  IF type = "activating" THEN {"WARMUP"}
  ELSE IF type \in {"votingOpen", "votingEnding"} THEN {"ACTIVE"}
  ELSE IF type = "outcome" THEN {"ACCEPTED", "FAILED"}
  ELSE IF type = "expired" THEN {"EXPIRED"}
  ELSE IF type = "abrogated" THEN {"ABROGATED"}
  ELSE {"GRACE"}

Names(type) == IF type = "outcome" THEN {"accepted", "failedQuorum", "failedVotes"} ELSE {type}

\* The job that is left behind with a notification of this type.
After(type) ==
  IF type = "queued" THEN "grace"
  ELSE IF type = "activating" THEN "votingOpen"
  ELSE IF type = "votingOpen" THEN "votingEnding"
  ELSE IF type = "votingEnding" THEN "outcome"
  ELSE IF type = "grace" THEN "expires"
  ELSE "expired"

Leads == Short \cup {"queued"}

\* A worker that is never late has such a job done before the phase is over.
Prompt(j) ==
  Present(j) /\ j.type \in Short => j.on < Closes(j.type, j.p) /\ now <= Closes(j.type, j.p)

PromptInv ==
  late = 0 => /\ worker = "running" => txNow = now
              /\ \A j \in AllJobs : Prompt(j)

\* The rows of a block that was not replaced are those it was stored with.
Attached(r) == r.fork \in 0 .. forks[r.block] /\ (Present(r) => db[r.block].fork = r.fork)

AttachedInv ==
  /\ \A r \in AllJobs \cup done \cup AllNotifs : Attached(r)
  /\ \A n \in notifs : n.type = "queued" => db[n.block].fork = n.fork
  /\ \A n \in written.notifs : n.type # "queued"

Current(t) == db[t].fork = forks[t]
From(r, t) == r.block = t /\ r.fork = forks[t]

\* The jobs there will be when the transaction commits.
Live == (jobs \ done) \cup written.jobs

Pending(type, t) == \E j \in Live : j.type = type /\ From(j, t)
Told(types, t) == \E n \in AllNotifs : n.type \in types /\ From(n, t)
Refused(type, t, p) ==
  \E g \in gaveUp : /\ t <= g.at /\ g.state \notin Wanted(type)
                    /\ Opens(type, p) < g.at
                    /\ type \in Short => g.at <= Closes(type, p)

Reached(type, t, p) == Pending(type, t) \/ Refused(type, t, p) \/ Told(Names(type), t)

\* The jobs that follow each other from the block of time t: the chain they form is only
\* broken by a job that found another state than the one it announces.
Chained(t, p) ==
  /\ chain[t].type = "created" => Reached("activating", t, p)
  /\ chain[t].type = "abrogation" => Reached("abrogated", t, p)
  /\ \A type \in Leads : Told({type}, t) => Reached(After(type), t, p)

ChainsInv ==
  late = 0 => \A b, t \in Times : CreatedAt(b) /\ Current(t) => Chained(t, Params(b))

\* The phases of a proposal follow each other, and its block is settled before the first ends.
LEMMA ClosesOrder ==
  ASSUME PhasesLongEnough, NEW b \in Times
  PROVE  LET p == Params(b) IN
         /\ b \in Int /\ WarmUpEnd(p) \in Int /\ VotingEnd(p) \in Int
         /\ Eta(p) \in Int /\ GraceEnd(p) \in Int
         /\ b + Delay <= WarmUpEnd(p) /\ WarmUpEnd(p) < VotingEnd(p)
         /\ VotingEnd(p) <= Eta(p) /\ Eta(p) < GraceEnd(p)
         /\ \A type : Closes(type, p) \in Int /\ Opens(type, p) \in Int
<1>1. /\ Delay \in Int /\ b \in Int
      /\ WarmUp \in Int /\ Active \in Int /\ Queue \in Nat /\ Grace \in Int
      /\ Delay <= WarmUp /\ 0 < Active /\ 0 < Grace
  BY ConstantTypes DEF Delay, Times, PhasesLongEnough
<1> QED  BY <1>1 DEF Params, WarmUpEnd, VotingEnd, Eta, GraceEnd, Closes, Opens

\* Announce writes something in the wanted state only, and then its notification and next jobs.
LEMMA AnnounceTells ==
  ASSUME NEW j, NEW s, NEW wanted, NEW type, NEW expires, NEW next,
         NEW new, new = Announce(j, s, wanted, type, expires, next)
  PROVE  /\ s # wanted => new = NothingWritten
         /\ s = wanted => (\E n \in new.notifs : n.type = type) /\ new.jobs = next
         /\ \A n \in new.notifs : n.type = type
         /\ new.notifs # {} => s = wanted
<1>1. CASE s # wanted
  BY <1>1 DEF Announce, NothingWritten
<1>2. CASE s = wanted
  <2> DEFINE n == Notif(type, j.on, expires, j)
  <2>1. n.type = type
    BY DEF Notif
  <2> HIDE DEF n
  <2>2. new = [notifs |-> {n}, jobs |-> next]
    BY <1>2 DEF Announce, n
  <2> QED  BY <1>2, <2>1, <2>2
<1> QED  BY <1>1, <1>2

\* What a job does in the state it wants, and in another.
LEMMA ExecutionTells ==
  ASSUME NEW j, NEW s, NEW new, new = Execution(j, s), j.type \in Announcing
  PROVE  /\ s \notin Wanted(j.type) => new = NothingWritten
         /\ s \in Wanted(j.type) => \E n \in new.notifs : n.type \in Names(j.type)
         /\ \A n \in new.notifs : n.type \in Names(j.type)
         /\ j.type \in Short /\ new.notifs # {} => \E k \in new.jobs : k.type = After(j.type)
<1> USE DEF Short, Wanted, Names, After
<1>n. NothingWritten.notifs = {}
  BY DEF NothingWritten
<1>j. /\ \A p : /\ NewVotingOpen(p, j).type = "votingOpen"
                /\ NewVotingEnding(p, j).type = "votingEnding"
                /\ NewOutcome(p, j).type = "outcome"
                /\ NewExpires(p, j).type = "expires"
                /\ NewExpired(p, j).type = "expired"
  BY DEF NewVotingOpen, NewVotingEnding, NewOutcome, NewExpires, NewExpired, Job
<1>1. CASE j.type = "activating"
  <2>1. new = Announce(j, s, "WARMUP", "activating", WarmUpEnd(j.p), {NewVotingOpen(j.p, j)})
    BY <1>1, Zenon DEF Execution, Activating
  <2> QED  BY <1>1, <1>n, <1>j, <2>1, AnnounceTells
<1>2. CASE j.type = "votingOpen"
  <2>1. new = Announce(j, s, "ACTIVE", "votingOpen", VotingEnd(j.p) - Soon,
                       {NewVotingEnding(j.p, j)})
    BY <1>2, Zenon DEF Execution, VotingOpen
  <2> QED  BY <1>2, <1>n, <1>j, <2>1, AnnounceTells
<1>3. CASE j.type = "votingEnding"
  <2>1. new = Announce(j, s, "ACTIVE", "votingEnding", VotingEnd(j.p), {NewOutcome(j.p, j)})
    BY <1>3, Zenon DEF Execution, VotingEnding
  <2> QED  BY <1>3, <1>n, <1>j, <2>1, AnnounceTells
<1>4. CASE j.type = "outcome"
  <2>1. new = Outcome(j, s)
    BY <1>4, Zenon DEF Execution
  <2>2. CASE s = "ACCEPTED"
    <3>1. new = Announce(j, s, "ACCEPTED", "accepted", Eta(j.p), {NewQueueEnding(j.p, j)})
      BY <2>1, <2>2 DEF Outcome
    <3> QED  BY <1>4, <1>n, <2>2, <3>1, AnnounceTells
  <2>3. CASE s # "ACCEPTED"
    <3> DEFINE type == IF BelowQuorum(db, j.p) THEN "failedQuorum" ELSE "failedVotes"
    <3>1. new = Announce(j, s, "FAILED", type, VotingEnd(j.p) + Day, {})
      BY <2>1, <2>3 DEF Outcome
    <3>2. type \in {"failedQuorum", "failedVotes"}
      OBVIOUS
    <3> HIDE DEF type
    <3> QED  BY <1>4, <1>n, <2>3, <3>1, <3>2, AnnounceTells
  <2> QED  BY <2>2, <2>3
<1>5. CASE j.type = "grace"
  <2>1. new = Announce(j, s, "GRACE", "grace", GraceEnd(j.p), {NewExpires(j.p, j)})
    BY <1>5, Zenon DEF Execution, GracePeriod
  <2> QED  BY <1>5, <1>n, <1>j, <2>1, AnnounceTells
<1>6. CASE j.type = "expires"
  <2>1. new = Announce(j, s, "GRACE", "expires", GraceEnd(j.p), {NewExpired(j.p, j)})
    BY <1>6, Zenon DEF Execution, Expires
  <2> QED  BY <1>6, <1>n, <1>j, <2>1, AnnounceTells
<1>7. CASE j.type = "expired"
  <2>1. new = Announce(j, s, "EXPIRED", "expired", GraceEnd(j.p) + Day, {})
    BY <1>7, Zenon DEF Execution, Expired
  <2> QED  BY <1>7, <1>n, <2>1, AnnounceTells
<1>8. CASE j.type = "abrogated"
  <2>1. new = Announce(j, s, "ABROGATED", "abrogated", Eta(j.p) + Day, {})
    BY <1>8, Zenon DEF Execution, Abrogated
  <2> QED  BY <1>8, <1>n, <2>1, AnnounceTells
<1> QED  BY <1>1, <1>2, <1>3, <1>4, <1>5, <1>6, <1>7, <1>8 DEF Announcing

\* The job that ends the queue tells of nothing else.
LEMMA QueueEndingTells ==
  ASSUME NEW j, NEW s, j.type = "queueEnding", NEW n \in Execution(j, s).notifs
  PROVE  n.type = "queueEnding"
BY DEF Execution, QueueEnding, Announce, NothingWritten, Notif

\* The job it leaves behind is due before the next phase is over.
LEMMA ExecutionPrompt ==
  ASSUME PhasesLongEnough, NEW b \in Times, NEW j, IsJob(j), j.p = Params(b), NEW s,
         NEW k \in Execution(j, s).jobs, k.type \in Short, now \in Int,
         j.type \in Short => now <= Closes(j.type, j.p)
  PROVE  k.on < Closes(k.type, k.p) /\ now <= Closes(k.type, k.p)
<1> DEFINE p == Params(b)
<1>1. /\ Soon \in Int /\ 0 < Soon
      /\ WarmUpEnd(p) \in Int /\ VotingEnd(p) \in Int /\ Eta(p) \in Int /\ GraceEnd(p) \in Int
      /\ WarmUpEnd(p) < VotingEnd(p) /\ VotingEnd(p) <= Eta(p) /\ Eta(p) < GraceEnd(p)
  BY ClosesOrder, ConstantTypes DEF PhasesLongEnough
<1> HIDE DEF p
<1>2. j.p = p /\ j.type \in JobTypes
  BY DEF IsJob, p
<1> USE DEF Short, Closes, Announce, NothingWritten, Notif, Job, JobTypes
<1>3. CASE j.type = "activating"
  BY <1>1, <1>2, <1>3 DEF Execution, Activating, NewVotingOpen
<1>4. CASE j.type = "votingOpen"
  BY <1>1, <1>2, <1>4 DEF Execution, VotingOpen, NewVotingEnding
<1>5. CASE j.type = "votingEnding"
  BY <1>5 DEF Execution, VotingEnding, NewOutcome
<1>6. CASE j.type = "outcome"
  BY <1>6 DEF Execution, Outcome, NewQueueEnding
<1>7. CASE j.type = "grace"
  BY <1>1, <1>2, <1>7 DEF Execution, GracePeriod, NewExpires
<1>8. CASE j.type = "expires"
  BY <1>8 DEF Execution, Expires, NewExpired
<1>9. CASE j.type \in {"queueEnding", "expired", "abrogated"}
  BY <1>9 DEF Execution, QueueEnding, Expired, Abrogated
<1> QED  BY <1>2, <1>3, <1>4, <1>5, <1>6, <1>7, <1>8, <1>9

\* A block that is stored, or stored again, was not there for a delay at most.
LEMMA StoredSoon ==
  ASSUME TypeOK, TimeInv, NEW t \in Times, StoreBlock(t)
  PROVE  now <= t + Delay
<1>1. Behind(t) /\ news[t] <= t + ReorgAge
  BY DEF StoreBlock, Behind, TimeInv
<1>2. now <= news[t] + StoreDelay
  BY <1>1 DEF TimeInv
<1>3. now \in Int /\ t \in Int /\ news[t] \in Int /\ ReorgAge \in Int /\ StoreDelay \in Int
  BY ConstantTypes DEF TypeOK, Times
<1> QED  BY <1>1, <1>2, <1>3 DEF Delay

\* The rows a block leaves behind, when it is stored.
LEMMA EventLeaves ==
  ASSUME IInv, FInv, DelaysSuffice, PhasesLongEnough, NEW t \in Times, StoreBlock(t),
         NEW row \in OneOf(ProposalRows(db')), NEW b \in Times, CreatedAt(b),
         NEW new, new = FromBlock(t, db', row)
  PROVE  /\ \A k \in new.jobs : k.type \in Short =>
              k.on < Closes(k.type, k.p) /\ now <= Closes(k.type, k.p)
         /\ \A n \in new.notifs : n.type \in Once
         /\ chain[t].type = "created" => \E k \in new.jobs : k.type = "activating"
         /\ chain[t].type = "abrogation" => \E k \in new.jobs : k.type = "abrogated"
         /\ \A n \in new.notifs : n.type = "queued" => \E k \in new.jobs : k.type = "grace"
<1> DEFINE p == Params(b)
<1>t. /\ TypeOK /\ ChainInv /\ chain[t] \in Logs /\ chain[t] # NoLog
      /\ db \in [Times -> StoredBlocks]
      /\ TimeInv /\ StaleInv /\ now \in Int
  <2>1. TypeOK /\ ChainInv /\ TimeInv /\ StaleInv /\ chain[t] # NoLog
    BY DEF IInv, TypeInv, StoreBlock, FInv
  <2> QED  BY <2>1 DEF TypeOK, Times
<1>1. chain[t].type \in Once \cup Ballot
  BY <1>t, LogTypes
<1>2. /\ WarmUpEnd(p) \in Int /\ VotingEnd(p) \in Int /\ Eta(p) \in Int /\ GraceEnd(p) \in Int
      /\ b \in Int /\ Soon \in Int /\ 0 < Soon /\ Delay \in Int
      /\ b + Delay <= WarmUpEnd(p) /\ Eta(p) < GraceEnd(p) /\ WarmUpEnd(p) < VotingEnd(p)
  BY ClosesOrder, ConstantTypes DEF PhasesLongEnough, Delay
<1>3. CASE chain[t].type = "created"
  <2>1. t = b
    BY <1>t, <1>3, OnceLogged DEF CreatedAt, Once
  <2>2. db'[t].params = LatestParams
    BY <1>t, <1>3 DEF StoreBlock
  <2>3. db'[t].params = p
    BY <1>t, <1>3, <2>1, <2>2, LatestIsOwn
  <2>4. now <= WarmUpEnd(p)
    BY <1>t, <1>2, <2>1, StoredSoon
  <2> HIDE DEF p
  <2>5. WarmUpEnd(p) - Soon < WarmUpEnd(p)
    BY <1>2
  <2>6. new = Created(Event("created", t), p)
    BY <1>3, <2>3, Zenon DEF FromBlock, Ballot
  <2>7. /\ new.jobs = {NewActivating(p, Event("created", t))}
        /\ \A n \in new.notifs : n.type = "created"
    BY <2>6 DEF Created, Notif
  <2>8. LET k == NewActivating(p, Event("created", t)) IN
        k.type = "activating" /\ k.on = WarmUpEnd(p) - Soon /\ k.p = p
    BY DEF NewActivating, Job
  <2> QED  BY <1>3, <2>4, <2>5, <2>7, <2>8 DEF Closes, Once
<1>4. CASE chain[t].type = "queued"
  <2>1. row \subseteq {p}
    BY <1>4, QueuedParams DEF OneOf
  <2> HIDE DEF p
  <2> DEFINE e == Event("queued", t)
             s == ProposalState(db', row, now)
  <2>2. new = Queued(e, s, row)
    BY <1>4, Zenon DEF FromBlock, Ballot
  <2>3. CASE s # "QUEUED"
    BY <1>4, <2>2, <2>3 DEF Queued, NothingWritten
  <2>4. CASE s = "QUEUED"
    <3>1. \E q \in row : now < Eta(q)
      BY <2>4 DEF ProposalState
    <3>2. row = {p} /\ now < Eta(p)
      BY <2>1, <3>1
    <3>3. new.jobs = {NewGracePeriod(p, e)} /\ new.notifs = WhileQueued(e, row)
      BY <2>2, <2>4, <3>2 DEF Queued
    <3>4. LET k == NewGracePeriod(p, e) IN k.type = "grace" /\ k.on = Eta(p) /\ k.p = p
      BY DEF NewGracePeriod, Job
    <3>5. \A n \in new.notifs : n.type = "queued"
      BY <3>3 DEF WhileQueued, Notif, Event, Job
    <3> QED  BY <1>2, <1>4, <1>t, <3>2, <3>3, <3>4, <3>5 DEF Closes, Once
  <2> QED  BY <2>3, <2>4
<1>5. CASE chain[t].type = "abrogation"
  <2>1. row = {p}
    <3>1. VotingEnd(p) < t /\ t <= now
      BY <1>t, <1>5, CarriedBy DEF ChainInv
    <3>2. b + Delay < now
      BY <1>t, <1>2, <3>1 DEF Times
    <3>3. ProposalRows(db) = {p}
      BY <1>t, <3>2, SettledProposal
    <3>4. ProposalRows(db) \subseteq ProposalRows(db')
      <4>0. db[t] = NotStored /\ NotStored.log = NoLog
        BY DEF StoreBlock, NotStored
      <4>1. /\ \A u \in Times : u # t => db'[u] = db[u]
            /\ db' \in [Times -> StoredBlocks] /\ db[t].log = NoLog
        BY <1>t, <4>0, StoredTypes DEF StoreBlock
      <4>2. /\ StoredLogs(db) \in [Times -> Logs] /\ StoredLogs(db') \in [Times -> Logs]
            /\ \A u \in Times : StoredLogs(db)[u] = db[u].log /\ StoredLogs(db')[u] = db'[u].log
        BY <1>t, <4>1, TableTypes DEF StoredLogs
      <4>3. ASSUME NEW q \in ProposalRows(db) PROVE q \in ProposalRows(db')
        <5>1. PICK r \in Rows(db, "created") : q = db[r.at].params
          BY DEF ProposalRows
        <5>2. r.at \in Times /\ db[r.at].log.type = "created"
          BY <4>2, <5>1, LoggedAt DEF Rows
        <5>3. r.at # t
          BY <4>1, <5>2 DEF NoLog, Plain
        <5>4. db'[r.at] = db[r.at]
          BY <4>1, <5>2, <5>3
        <5>5. PICK x \in Rows(db', "created") : x.at = r.at
          BY <4>2, <5>2, <5>4, LoggedAt DEF Rows
        <5> QED  BY <5>1, <5>4, <5>5 DEF ProposalRows
      <4> QED  BY <4>3
    <3>5. row \subseteq {p}
      BY <1>5, QueuedParams DEF OneOf
    <3> QED  BY <3>3, <3>4, <3>5 DEF OneOf
  <2> HIDE DEF p
  <2> DEFINE e == Event("abrogation", t)
  <2>2. new = AbrogationCreated(e, row)
    BY <1>5, Zenon DEF FromBlock, Ballot
  <2>3. new.jobs = {NewAbrogated(p, e)} /\ new.notifs = WhileQueued(e, row)
    BY <2>1, <2>2 DEF AbrogationCreated
  <2>4. NewAbrogated(p, e).type = "abrogated"
    BY DEF NewAbrogated, Job
  <2>5. \A n \in new.notifs : n.type = "abrogation"
    BY <2>3 DEF WhileQueued, Notif, Event, Job
  <2> QED  BY <1>5, <2>3, <2>4, <2>5 DEF Short, Once
<1>6. CASE chain[t].type \in {"canceled", "executed"}
  <2>1. new.jobs = {} /\ \A n \in new.notifs : n.type \in {"canceled", "executed"}
    BY <1>6 DEF FromBlock, CanceledJob, ExecutedJob, NothingWritten, Notif
  <2> QED  BY <1>6, <2>1 DEF Once
<1>7. CASE chain[t].type \in Ballot
  BY <1>7 DEF FromBlock, NothingWritten, Ballot
<1> QED  BY <1>1, <1>3, <1>4, <1>5, <1>6, <1>7 DEF Once

-----------------------------------------------------------------------------
(* Prompt jobs, and rows attached to their blocks                          *)

\* A worker that is not late has not been late.
LEMMA LateGrows == TypeOK /\ [Next]_vars /\ late' = 0 => late = 0
<1> SUFFICES ASSUME TypeOK, [Next]_vars, late' = 0 PROVE late = 0
  OBVIOUS
<1>1. late \in Nat
  BY ConstantTypes DEF TypeOK
<1>2. late' = late \/ late' = late + 1
  BY DEF Next, Call, Reorg, DeleteBlock, StoreBlock, Worker, Fetch, Execute, Commit, Crash, Tick,
         vars
<1> QED  BY <1>1, <1>2

\* While the worker is not late, each job runs before the phase it announces is over.
LEMMA PromptStep ==
  DelaysSuffice /\ PhasesLongEnough => (IInv /\ FInv /\ PromptInv /\ [Next]_vars => PromptInv')
<1> SUFFICES ASSUME DelaysSuffice, PhasesLongEnough, IInv, FInv, PromptInv, [Next]_vars, late' = 0
             PROVE  /\ worker' = "running" => txNow' = now'
                    /\ \A j \in AllJobs' : Prompt(j)'
  BY DEF PromptInv
<1>t. TypeOK /\ ChainInv /\ now \in Int /\ late = 0
  BY LateGrows DEF IInv, TypeInv, TypeOK, Times
<1>p. (worker = "running" => txNow = now) /\ \A j \in AllJobs : Prompt(j)
  BY <1>t DEF PromptInv
<1>j. \A j \in AllJobs : IsJob(j) /\ j.block \in Times /\ GoodJob(j)
  BY <1>t DEF TypeOK, AllJobs, IsJob, Blocks, FInv, JobInv
<1>1. CASE Call \/ \E t \in Times : Reorg(t)
  <2>1. PICK at \in Times : Changes(at)
    BY <1>t, <1>1, ChainChanges
  <2>2. AllJobs' = AllJobs /\ UNCHANGED <<now, txNow, worker>>
    BY <2>1 DEF Changes, AllJobs, tx
  <2>3. \A j \in AllJobs : Present(j)' => Present(j)
    BY <1>t, <1>j, <2>1, RootedStays DEF GoodJob
  <2> QED  BY <1>p, <2>2, <2>3 DEF Prompt
<1>2. ASSUME UNCHANGED <<now, forks>>, worker' = "running" => txNow' = now,
             AllJobs' \subseteq AllJobs
      PROVE  (worker' = "running" => txNow' = now') /\ \A j \in AllJobs' : Prompt(j)'
  BY <1>p, <1>2 DEF Prompt, Present
<1>3. ASSUME NEW t \in Times, DeleteBlock(t)
      PROVE  UNCHANGED <<now, forks, worker, txNow>> /\ AllJobs' \subseteq AllJobs
  BY <1>3 DEF DeleteBlock, node, tx, AllJobs
<1>4. ASSUME NEW t \in Times, StoreBlock(t)
      PROVE  (worker' = "running" => txNow' = now') /\ \A j \in AllJobs' : Prompt(j)'
  <2>1. PICK row \in OneOf(ProposalRows(db')) : jobs' = jobs \cup FromBlock(t, db', row).jobs
    BY <1>4 DEF StoreBlock
  <2> DEFINE new == FromBlock(t, db', row)
  <2>2. PICK b \in Times : CreatedAt(b)
    BY <1>t, <1>4, HasCreated DEF StoreBlock
  <2>3. \A k \in new.jobs : k.type \in Short =>
          k.on < Closes(k.type, k.p) /\ now <= Closes(k.type, k.p)
    BY <1>4, <2>1, <2>2, EventLeaves
  <2>4. UNCHANGED <<now, forks, worker, txNow>> /\ AllJobs' = AllJobs \cup new.jobs
    BY <1>4, <2>1 DEF StoreBlock, node, tx, AllJobs
  <2> HIDE DEF new
  <2> QED  BY <1>p, <2>3, <2>4 DEF Prompt, Present
<1>5. ASSUME NEW j, Execute(j)
      PROVE  (worker' = "running" => txNow' = now') /\ \A k \in AllJobs' : Prompt(k)'
  <2>1. PICK s : written' = [notifs |-> written.notifs \cup Execution(j, s).notifs,
                             jobs |-> written.jobs \cup Execution(j, s).jobs]
    BY <1>t, <1>5, Executes
  <2> DEFINE new == Execution(j, s)
  <2>2. /\ j \in AllJobs /\ UNCHANGED <<now, forks, worker, txNow>>
        /\ AllJobs' \subseteq AllJobs \cup new.jobs
    BY <1>5, <2>1 DEF Execute, node, AllJobs
  <2>3. ASSUME NEW k \in new.jobs PROVE Prompt(k)
    <3>1. Of(k, j)
      BY <1>j, <2>2, <2>3, ExecutionRows
    <3> SUFFICES ASSUME Present(k), k.type \in Short
                 PROVE  k.on < Closes(k.type, k.p) /\ now <= Closes(k.type, k.p)
      BY DEF Prompt
    <3>2. Present(j)
      BY <3>1 DEF Of, Present
    <3>3. PICK b \in Times : CreatedAt(b) /\ j.p = Params(b)
      BY <1>j, <2>2, <3>2 DEF GoodJob
    <3>4. j.type \in Short => now <= Closes(j.type, j.p)
      BY <1>p, <2>2, <3>2 DEF Prompt
    <3> QED  BY <1>t, <1>j, <2>2, <2>3, <3>3, <3>4, ExecutionPrompt
  <2> HIDE DEF new
  <2> QED  BY <1>p, <2>2, <2>3 DEF Prompt, Present
<1>6. CASE Fetch
  <2>1. UNCHANGED <<now, forks>> /\ txNow' = now /\ AllJobs' \subseteq AllJobs
    BY <1>6 DEF Fetch, node, AllJobs, Due
  <2> QED  BY <1>2, <2>1
<1>7. CASE Commit
  <2>1. UNCHANGED <<now, forks>> /\ worker' = "idle" /\ AllJobs' \subseteq AllJobs
    BY <1>7 DEF Commit, EndTx, node, AllJobs, NothingWritten
  <2> QED  BY <1>2, <2>1
<1>8. CASE Crash
  BY <1>8, <1>t DEF Crash
<1>9. CASE Tick
  <2>1. worker = "idle" /\ Due = {}
    BY <1>9, <1>t DEF Tick
  <2>2. /\ now' = now + 1 /\ UNCHANGED <<forks, worker>> /\ AllJobs' = AllJobs
    BY <1>9 DEF Tick, node, tx, AllJobs
  <2>3. AllJobs = jobs
    BY <1>t, <2>1 DEF TypeOK, AllJobs, NothingWritten
  <2>4. ASSUME NEW j \in jobs PROVE Prompt(j)'
    <3> SUFFICES ASSUME Present(j), j.type \in Short
                 PROVE  j.on < Closes(j.type, j.p) /\ now + 1 <= Closes(j.type, j.p)
      BY <2>2 DEF Prompt, Present
    <3>1. j.on < Closes(j.type, j.p)
      BY <1>p, <2>3 DEF Prompt
    <3>2. PICK b \in Times : j.p = Params(b)
      BY <1>j, <2>3 DEF GoodJob
    <3>3. Closes(j.type, j.p) \in Int /\ j.on \in Int
      BY <1>j, <2>3, <3>2, ClosesOrder DEF IsJob
    <3>4. ~(j.on < now)
      BY <2>1 DEF Due
    <3> QED  BY <1>t, <3>1, <3>3, <3>4
  <2> QED  BY <2>1, <2>2, <2>3, <2>4
<1>10. CASE UNCHANGED vars
  <2>1. UNCHANGED <<now, forks, worker, txNow>> /\ AllJobs' \subseteq AllJobs
    BY <1>10 DEF vars, node, tx, AllJobs
  <2> QED  BY <1>2, <1>p, <2>1
<1> QED  BY <1>1, <1>2, <1>3, <1>p, <1>4, <1>5, <1>6, <1>7, <1>8, <1>9, <1>10 DEF Next, Worker

\* A row keeps its block and its form when it is inserted a second time.
LEMMA InsertedRow ==
  ASSUME NEW rows, NEW n \in Insert(rows)
  PROVE  \E m \in notifs \cup rows : m.type = n.type /\ m.block = n.block /\ m.fork = n.fork
<1>1. CASE n \in notifs
  BY <1>1
<1>2. CASE n \notin notifs
  <2>1. PICK r \in rows : n = IF r \in notifs THEN [r EXCEPT !.copy = 2] ELSE r
    BY <1>2 DEF Insert
  <2>2. [r EXCEPT !.copy = 2].type = r.type /\ [r EXCEPT !.copy = 2].block = r.block
        /\ [r EXCEPT !.copy = 2].fork = r.fork
    OBVIOUS
  <2> QED  BY <2>1, <2>2
<1> QED  BY <1>1, <1>2

\* Nothing is lost by an insertion, and only what is inserted is added.
LEMMA InsertedAll ==
  ASSUME NEW rows, NEW m \in notifs \cup rows
  PROVE  \E n \in Insert(rows) : m.type = n.type /\ m.block = n.block /\ m.fork = n.fork
<1>1. CASE m \in notifs
  BY <1>1 DEF Insert
<1>2. CASE m \notin notifs
  BY <1>2 DEF Insert
<1> QED  BY <1>1, <1>2

\* A notification attached to its block stays so when it is inserted a second time.
LEMMA InsertAttached ==
  ASSUME NEW rows, \A n \in notifs \cup rows : Attached(n)'
  PROVE  \A n \in Insert(rows) : Attached(n)'
<1> SUFFICES ASSUME NEW n \in Insert(rows) PROVE Attached(n)'
  OBVIOUS
<1>1. PICK m \in notifs \cup rows : m.type = n.type /\ m.block = n.block /\ m.fork = n.fork
  BY InsertedRow
<1> QED  BY <1>1 DEF Attached, Present

\* Rows stay those of the form their block had: delete_block takes them with the block.
LEMMA AttachedStep == IInv /\ FInv /\ AttachedInv /\ [Next]_vars => AttachedInv'
<1> SUFFICES ASSUME IInv, FInv, AttachedInv, [Next]_vars PROVE AttachedInv'
  OBVIOUS
<1> DEFINE rows == AllJobs \cup done \cup AllNotifs
           IsEvent(n) == n.type = "queued"
<1>t. /\ TypeOK /\ StoredInv /\ db \in [Times -> StoredBlocks]
      /\ forks \in [Times -> 0 .. MaxReorgs]
      /\ \A t \in Times : forks[t] \in Nat
  BY ConstantTypes DEF IInv, TypeInv, TypeOK
<1>r. \A r \in rows : r.block \in Times
  BY <1>t DEF TypeOK, AllJobs, AllNotifs, IsJob, Blocks
<1>a. /\ \A r \in rows : Attached(r)
      /\ \A n \in notifs : IsEvent(n) => db[n.block].fork = n.fork
      /\ \A n \in written.notifs : ~IsEvent(n)
  BY DEF AttachedInv
<1>f. \A r \in rows : r.fork \in 0 .. forks[r.block]
  BY <1>a DEF Attached
<1>1. CASE Call
  <2>1. UNCHANGED <<db, forks, jobs, notifs, todo, done, written>>
    BY <1>1 DEF Call, tx
  <2> QED  BY <1>a, <2>1 DEF AttachedInv, Attached, Present, AllJobs, AllNotifs
<1>2. ASSUME NEW t \in Times, Reorg(t) PROVE AttachedInv'
  <2>1. /\ UNCHANGED <<db, jobs, notifs, todo, done, written>> /\ forks'[t] = forks[t] + 1
        /\ \A u \in Times : u # t => forks'[u] = forks[u]
    BY <1>2, <1>t DEF Reorg, tx
  <2>2. \A r \in rows : Attached(r)'
    BY <1>t, <1>r, <1>a, <1>f, <2>1 DEF Attached, Present
  <2> QED  BY <1>a, <2>1, <2>2 DEF AttachedInv, AllJobs, AllNotifs
<1>3. ASSUME NEW t \in Times, DeleteBlock(t) PROVE AttachedInv'
  <2>1. /\ db[t].fork # forks[t] /\ UNCHANGED <<forks, todo, done, written>>
        /\ \A u \in Times : u # t => db'[u] = db[u]
        /\ jobs' \subseteq jobs /\ notifs' = {n \in notifs : n.block # t}
    BY <1>3, <1>t DEF DeleteBlock, Outdated, node, tx
  <2>2. \A r \in rows : Attached(r)'
    BY <1>r, <1>a, <2>1 DEF Attached, Present
  <2>3. \A n \in notifs' : IsEvent(n) => db'[n.block].fork = n.fork
    BY <1>r, <1>a, <2>1 DEF AllNotifs
  <2> QED  BY <1>a, <2>1, <2>2, <2>3 DEF AttachedInv, AllJobs, AllNotifs
<1>4. ASSUME NEW t \in Times, StoreBlock(t) PROVE AttachedInv'
  <2>1. PICK row \in SUBSET AllParams :
          /\ jobs' = jobs \cup FromBlock(t, db', row).jobs
          /\ notifs' = Insert(FromBlock(t, db', row).notifs)
          /\ EventWrites(FromBlock(t, db', row), t)
    BY <1>t, <1>4, StoredTypes
  <2> DEFINE new == FromBlock(t, db', row)
  <2>2. /\ \A r \in new.jobs \cup new.notifs : r.block = t /\ r.fork = forks[t]
        /\ jobs' = jobs \cup new.jobs /\ notifs' = Insert(new.notifs)
    BY <2>1 DEF EventWrites
  <2> HIDE DEF new
  <2>3. /\ db[t].fork = -1 /\ db'[t].fork = forks[t] /\ UNCHANGED <<forks, todo, done, written>>
        /\ \A u \in Times : u # t => db'[u] = db[u]
    BY <1>4, <1>t DEF StoreBlock, NotStored, node, tx
  <2>4. \A r \in rows \cup new.jobs \cup new.notifs : Attached(r)'
    BY <1>t, <1>r, <1>a, <2>2, <2>3 DEF Attached, Present
  <2>5. \A n \in Insert(new.notifs) : Attached(n)'
    BY <2>4, InsertAttached DEF AllNotifs
  <2>6. \A n \in notifs' : IsEvent(n) => db'[n.block].fork = n.fork
    <3> SUFFICES ASSUME NEW n \in Insert(new.notifs), IsEvent(n) PROVE db'[n.block].fork = n.fork
      BY <2>2
    <3>1. PICK m \in notifs \cup new.notifs :
            m.type = n.type /\ m.block = n.block /\ m.fork = n.fork
      BY InsertedRow
    <3>2. CASE m \in new.notifs
      BY <2>2, <2>3, <3>1, <3>2
    <3>3. CASE m \in notifs
      <4>1. m.block \in Times /\ m.fork >= 0 /\ db[m.block].fork = m.fork
        BY <1>r, <1>a, <1>f, <1>t, <3>1, <3>3 DEF AllNotifs
      <4> QED  BY <2>3, <3>1, <4>1
    <3> QED  BY <3>2, <3>3
  <2>7. \A r \in AllJobs' \cup done' \cup AllNotifs' : Attached(r)'
    BY <2>2, <2>3, <2>4, <2>5 DEF AllJobs, AllNotifs
  <2> QED  BY <1>a, <2>3, <2>6, <2>7 DEF AttachedInv
<1>5. ASSUME NEW j, Execute(j) PROVE AttachedInv'
  <2>1. PICK s : written' = [notifs |-> written.notifs \cup Execution(j, s).notifs,
                             jobs |-> written.jobs \cup Execution(j, s).jobs]
    BY <1>t, <1>5, Executes
  <2> DEFINE new == Execution(j, s)
  <2>2. /\ j \in todo /\ j \in rows /\ IsJob(j) /\ UNCHANGED <<db, forks, jobs, notifs>>
        /\ todo' \subseteq todo /\ done' = done \cup {j}
    BY <1>5, <1>t DEF Execute, node, AllJobs, TypeOK
  <2>3. /\ \A r \in new.jobs \cup new.notifs : Of(r, j)
        /\ \A n \in new.notifs : ~IsEvent(n)
    <3>1. /\ \A r \in new.jobs \cup new.notifs : Of(r, j)
          /\ \A n \in new.notifs : Stage(n.type) = Stage(j.type)
      BY <2>2, ExecutionRows
    <3>2. Stage("queued") = 0 /\ Stage(j.type) # 0
      BY <2>2 DEF Stage, Once, IsJob, JobTypes
    <3> QED  BY <3>1, <3>2
  <2> HIDE DEF new
  <2>4. \A r \in rows \cup new.jobs \cup new.notifs : Attached(r)
    BY <1>a, <2>2, <2>3 DEF Attached, Present, Of
  <2>5. /\ AllJobs' \cup done' \cup AllNotifs' \subseteq rows \cup new.jobs \cup new.notifs
        /\ written'.notifs = written.notifs \cup new.notifs
    BY <2>1, <2>2 DEF AllJobs, AllNotifs, new
  <2> HIDE DEF rows
  <2> QED  BY <1>a, <2>2, <2>3, <2>4, <2>5 DEF AttachedInv, Attached, Present
<1>6. CASE Commit
  <2>1. /\ UNCHANGED <<db, forks>> /\ todo' = {} /\ done' = {} /\ written' = NothingWritten
        /\ jobs' = (jobs \ done) \cup written.jobs /\ notifs' = Insert(written.notifs)
    BY <1>6 DEF Commit, EndTx, node
  <2>2. \A r \in rows : Attached(r)'
    BY <1>a, <2>1 DEF Attached, Present
  <2>3. \A n \in Insert(written.notifs) : Attached(n)'
    BY <2>2, InsertAttached DEF AllNotifs
  <2>4. \A n \in notifs' : IsEvent(n) => db'[n.block].fork = n.fork
    <3> SUFFICES ASSUME NEW n \in Insert(written.notifs), IsEvent(n) PROVE db[n.block].fork = n.fork
      BY <2>1
    <3>1. PICK m \in notifs \cup written.notifs :
            m.type = n.type /\ m.block = n.block /\ m.fork = n.fork
      BY InsertedRow
    <3> QED  BY <1>a, <3>1
  <2> QED  BY <2>1, <2>2, <2>3, <2>4 DEF AttachedInv, AllJobs, AllNotifs, NothingWritten
<1>7. ASSUME UNCHANGED <<db, forks, notifs>>, AllJobs' \cup done' \subseteq AllJobs \cup done,
             written'.notifs \subseteq written.notifs
      PROVE  AttachedInv'
  BY <1>a, <1>7 DEF AttachedInv, Attached, Present, AllNotifs
<1>8. CASE Fetch
  <2>1. UNCHANGED <<db, forks, notifs, written, done, jobs>> /\ todo' \subseteq jobs
    BY <1>8 DEF Fetch, node, Due
  <2> QED  BY <1>7, <2>1 DEF AllJobs
<1>9. CASE Crash
  <2>1. /\ UNCHANGED <<db, forks, notifs, jobs>> /\ todo' = {} /\ done' = {}
        /\ written' = NothingWritten
    BY <1>9 DEF Crash, EndTx, node
  <2> QED  BY <1>7, <2>1 DEF AllJobs, NothingWritten
<1>10. CASE Tick \/ UNCHANGED vars
  <2>1. UNCHANGED <<db, forks, notifs, jobs, todo, done, written>>
    BY <1>10 DEF Tick, vars, node, tx
  <2> QED  BY <1>7, <2>1 DEF AllJobs
<1> QED  BY <1>1, <1>2, <1>3, <1>4, <1>5, <1>6, <1>8, <1>9, <1>10 DEF Next, Worker

-----------------------------------------------------------------------------
(* The chains are not broken                                               *)

OneCreated == \A b, c \in Times : CreatedAt(b) /\ CreatedAt(c) => b = c

\* There is one block with the proposal.
LEMMA CreatedOnce == TypeOK /\ ChainInv => OneCreated
BY OnceLogged DEF OneCreated, CreatedAt, Once

Alike(m, n) == m.type = n.type /\ m.block = n.block /\ m.fork = n.fork

\* What happens elsewhere leaves the rows of block t as they are.
KeepsRows(t) ==
  /\ forks'[t] = forks[t] /\ gaveUp \subseteq gaveUp'
  /\ \A j \in Live : From(j, t) => j \in Live'
  /\ \A n \in AllNotifs : From(n, t) => \E m \in AllNotifs' : Alike(m, n)

TellsNothing(t) ==
  \A m \in AllNotifs' : From(m, t)' => \E n \in AllNotifs : Alike(m, n)

\* What a block's chain of jobs has reached stays reached while its rows stay.
LEMMA ReachedStays ==
  ASSUME NEW t, KeepsRows(t), NEW type, NEW p, Reached(type, t, p)
  PROVE  Reached(type, t, p)'
<1>1. Pending(type, t) => Pending(type, t)'
  BY DEF KeepsRows, Pending, From
<1>2. \A types : Told(types, t) => Told(types, t)'
  BY DEF KeepsRows, Told, From, Alike
<1>3. Refused(type, t, p) => Refused(type, t, p)'
  BY DEF KeepsRows, Refused
<1> QED  BY <1>1, <1>2, <1>3 DEF Reached

\* A chain is not broken by a step that keeps the rows of its block and tells nothing new.
LEMMA ChainedStays ==
  ASSUME NEW t, KeepsRows(t), TellsNothing(t), chain'[t] = chain[t], NEW p, Chained(t, p)
  PROVE  Chained(t, p)'
<1>1. \A types : Told(types, t)' => Told(types, t)
  BY DEF KeepsRows, TellsNothing, Told, From, Alike
<1>2. \A type : Reached(type, t, p) => Reached(type, t, p)'
  BY ReachedStays
<1> QED  BY <1>1, <1>2 DEF Chained

\* A block that stays, and with it the proposal it is about.
LEMMA CreatedBefore ==
  ASSUME TypeOK, ChainInv, OneCreated', NEW t \in Times, chain[t] # NoLog, NEW at \in Times, at # t,
         \A u \in Times : u # at => chain'[u] = chain[u],
         chain[at] = NoLog \/ t <= at, NEW b \in Times, CreatedAt(b)'
  PROVE  CreatedAt(b)
<1>1. PICK c \in Times : CreatedAt(c) /\ c <= t
  BY HasCreated
<1>2. c # at
  BY <1>1 DEF CreatedAt, NoLog, Plain, Times
<1>3. CreatedAt(c)'
  BY <1>1, <1>2 DEF CreatedAt
<1> QED  BY <1>1, <1>3 DEF OneCreated

\* A block stored in its present form has a log.
LEMMA CurrentLogged ==
  ASSUME IInv, NEW t \in Times, Current(t)
  PROVE  db[t] # NotStored /\ chain[t] # NoLog
<1>1. forks[t] # -1
  BY DEF IInv, TypeInv, TypeOK
<1> QED  BY <1>1 DEF IInv, StoredInv, Current, NotStored

\* The step of the job j, for the chain of a block.
LEMMA ExecuteChains ==
  ASSUME IInv, FInv, PromptInv, AttachedInv, late = 0, NEW j, Execute(j),
         NEW b \in Times, CreatedAt(b), NEW t \in Times, Current(t), Chained(t, Params(b))
  PROVE  Chained(t, Params(b))'
<1> DEFINE p == Params(b)
<1>t. TypeOK /\ ChainInv /\ now \in Int
  BY DEF IInv, TypeInv, TypeOK, Times
<1>1. PICK row \in OneOf(ProposalRows(db)) :
        LET new == Execution(j, ProposalState(db, row, txNow)) IN
        /\ written' = [notifs |-> written.notifs \cup new.notifs,
                       jobs |-> written.jobs \cup new.jobs]
        /\ gaveUp' = IF new = NothingWritten
                     THEN gaveUp \cup {[at |-> txNow, state |-> ProposalState(db, row, txNow)]}
                     ELSE gaveUp
  BY DEF Execute
<1> DEFINE s == ProposalState(db, row, txNow)
           new == Execution(j, s)
<1>2. /\ j \in todo /\ j \in AllJobs /\ IsJob(j) /\ GoodJob(j)
      /\ j.on < txNow /\ txNow = now /\ Prompt(j)
      /\ UNCHANGED <<now, chain, forks, db, jobs, notifs>> /\ done' = done \cup {j}
  <2>1. j \in todo /\ UNCHANGED <<now, chain, forks, db, jobs, notifs>> /\ done' = done \cup {j}
    BY DEF Execute, node
  <2>2. worker = "running"
    BY <2>1, <1>t DEF TypeOK
  <2>3. j \in AllJobs /\ IsJob(j)
    BY <2>1, <1>t DEF AllJobs, TypeOK
  <2> QED  BY <2>1, <2>2, <2>3 DEF FInv, JobInv, PromptInv
<1>3. /\ \A r \in new.jobs \cup new.notifs : Of(r, j)
      /\ AllNotifs' = AllNotifs \cup new.notifs
      /\ Live' = (Live \ (jobs \cap {j})) \cup written.jobs \cup new.jobs
      /\ gaveUp' = IF new = NothingWritten THEN gaveUp \cup {[at |-> txNow, state |-> s]}
                   ELSE gaveUp
  BY <1>1, <1>2, ExecutionRows DEF AllNotifs, Live
<1> HIDE DEF new, s
<1>4. \A types : Told(types, t) => Told(types, t)'
  BY <1>2, <1>3 DEF Told, From
<1>5. ASSUME NEW type \in Announcing, Reached(type, t, p) PROVE Reached(type, t, p)'
  <2>1. Refused(type, t, p) => Refused(type, t, p)'
    BY <1>3 DEF Refused
  <2>2. ASSUME NEW k \in Live, k.type = type, From(k, t), k # j PROVE Pending(type, t)'
    BY <1>2, <1>3, <2>2 DEF Pending, From, Live
  <2>3. ASSUME j.type = type, From(j, t) PROVE Refused(type, t, p)' \/ Told(Names(type), t)'
    <3>1. CASE s \in Wanted(type)
      <4>1. PICK n \in new.notifs : n.type \in Names(type)
        BY <2>3, <3>1, ExecutionTells DEF new
      <4> QED  BY <1>2, <1>3, <2>3, <4>1 DEF Told, From, Of
    <3>2. CASE s \notin Wanted(type)
      <4> DEFINE g == [at |-> txNow, state |-> s]
      <4>1. g \in gaveUp' /\ g.at = now /\ g.state = s
        BY <1>2, <1>3, <2>3, <3>2, ExecutionTells DEF new
      <4> HIDE DEF g
      <4>2. t <= now
        BY <1>t, CurrentLogged DEF ChainInv
      <4>3. j.p = p /\ Present(j)
        <5>1. Present(j)
          BY <2>3 DEF From, Present
        <5>2. PICK c \in Times : CreatedAt(c) /\ j.p = Params(c)
          BY <1>2, <5>1 DEF GoodJob
        <5> QED  BY <1>t, <5>1, <5>2, CreatedOnce DEF OneCreated
      <4>4. type \in Short => now <= Closes(type, p)
        BY <1>2, <2>3, <4>3 DEF Prompt
      <4>5. Opens(type, p) < now
        <5>1. /\ WarmUpEnd(p) \in Int /\ VotingEnd(p) \in Int
              /\ Eta(p) \in Int /\ GraceEnd(p) \in Int
              /\ Safety \in Nat /\ j.on \in Int /\ 0 < now
          BY <1>t, <1>2, ParamsOrder, ConstantTypes DEF IsJob, TypeOK, Times
        <5> HIDE DEF p
        <5>2. OnTime(j) /\ j.p = p /\ j.on < now /\ j.type = type
          BY <1>2, <2>3, <4>3 DEF GoodJob
        <5> QED  BY <1>t, <5>1, <5>2 DEF OnTime, Opens, Announcing, Short
      <4>6. Refused(type, t, p)'
        BY <3>2, <4>1, <4>2, <4>4, <4>5 DEF Refused
      <4> QED  BY <4>6
    <3> QED  BY <3>1, <3>2
  <2>4. Pending(type, t) => Reached(type, t, p)'
    <3> SUFFICES ASSUME NEW k \in Live, k.type = type, From(k, t) PROVE Reached(type, t, p)'
      BY DEF Pending
    <3>1. CASE k # j
      <4>1. Pending(type, t)'
        BY <2>2, <3>1
      <4> QED  BY <4>1 DEF Reached
    <3>2. CASE k = j
      <4>1. Refused(type, t, p)' \/ Told(Names(type), t)'
        BY <2>3, <3>2
      <4> QED  BY <4>1 DEF Reached
    <3> QED  BY <3>1, <3>2
  <2>5. Refused(type, t, p) \/ Told(Names(type), t) => Reached(type, t, p)'
    BY <1>4, <2>1 DEF Reached
  <2> QED  BY <1>5, <2>4, <2>5 DEF Reached
<1>6. ASSUME NEW type \in Leads, Told({type}, t)' PROVE Reached(After(type), t, p)'
  <2>1. PICK n \in AllNotifs' : n.type = type /\ From(n, t)'
    BY <1>6 DEF Told
  <2>2. CASE n \in AllNotifs
    <3>1. Told({type}, t)
      BY <1>2, <2>1, <2>2 DEF Told, From
    <3>2. After(type) \in Announcing
      BY DEF After, Announcing, Short
    <3> QED  BY <1>5, <1>6, <3>1, <3>2 DEF Chained
  <2>3. CASE n \in new.notifs
    <3>1. j.type \in Short /\ type = j.type
      <4>1. Stage(n.type) = Stage(j.type)
        BY <1>2, <2>3, ExecutionRows DEF new
      <4>2. type # "queued"
        <5>1. Stage("queued") = 0 /\ Stage(j.type) # 0
          BY <1>2 DEF Stage, Once, IsJob, JobTypes
        <5> QED  BY <2>1, <4>1, <5>1
      <4>3. CASE j.type = "queueEnding"
        BY <2>1, <2>3, <4>3, QueueEndingTells DEF Leads, Short, new
      <4>4. CASE j.type \in Announcing
        <5>1. n.type \in Names(j.type)
          BY <2>3, <4>4, ExecutionTells DEF new
        <5> QED  BY <2>1, <4>2, <4>4, <5>1 DEF Names, Leads, Short, Announcing
      <4> QED  BY <1>2, <4>3, <4>4 DEF IsJob, JobTypes, Announcing, Short
    <3>2. PICK k \in new.jobs : k.type = After(type)
      BY <2>3, <3>1, ExecutionTells DEF new, Announcing
    <3>3. From(k, t)'
      BY <1>3, <2>1, <2>3, <3>2 DEF From, Of
    <3>4. k \in Live'
      BY <1>3, <3>2
    <3> QED  BY <3>2, <3>3, <3>4 DEF Reached, Pending
  <2> QED  BY <1>3, <2>1, <2>2, <2>3
<1>7. "activating" \in Announcing /\ "abrogated" \in Announcing
  BY DEF Announcing, Short
<1> QED  BY <1>2, <1>5, <1>6, <1>7 DEF Chained

\* The chains of a block begin when it is stored.
LEMMA StoreChains ==
  ASSUME IInv, FInv, AttachedInv, DelaysSuffice, PhasesLongEnough, NEW t \in Times, StoreBlock(t),
         NEW b \in Times, CreatedAt(b)
  PROVE  Chained(t, Params(b))'
<1>t. TypeOK /\ ChainInv /\ forks[t] \in Nat
  BY ConstantTypes DEF IInv, TypeInv, TypeOK
<1>1. PICK row \in OneOf(ProposalRows(db')) :
        /\ jobs' = jobs \cup FromBlock(t, db', row).jobs
        /\ notifs' = Insert(FromBlock(t, db', row).notifs)
  BY DEF StoreBlock
<1> DEFINE new == FromBlock(t, db', row)
<1>2. /\ db[t].fork # forks[t] /\ UNCHANGED <<chain, forks, done, written>>
  BY <1>t DEF StoreBlock, NotStored, node, tx
<1>3. \A r \in done \cup AllNotifs : ~From(r, t)
  BY <1>2 DEF AttachedInv, Attached, From, Present
<1>4. /\ \A r \in new.jobs \cup new.notifs : From(r, t)
  <2>1. db' \in [Times -> StoredBlocks]
    BY <1>t, StoredTypes
  <2>2. row \in SUBSET AllParams /\ \A p, q \in row : p = q
    BY <1>1, <2>1, TableTypes, OneRow
  <2>3. chain[t] \in Logs /\ chain[t] # NoLog
    BY <1>t DEF TypeOK, StoreBlock
  <2>4. EventWrites(new, t)
    BY <1>t, <2>1, <2>2, <2>3, FromBlockRows
  <2> QED  BY <2>4 DEF EventWrites, From
<1>5. /\ \A n \in new.notifs : n.type \in Once
      /\ chain[t].type = "created" => \E k \in new.jobs : k.type = "activating"
      /\ chain[t].type = "abrogation" => \E k \in new.jobs : k.type = "abrogated"
      /\ \A n \in new.notifs : n.type = "queued" => \E k \in new.jobs : k.type = "grace"
  BY <1>1, EventLeaves
<1>6. jobs' = jobs \cup new.jobs /\ notifs' = Insert(new.notifs)
  BY <1>1
<1> HIDE DEF new
<1>7. ASSUME NEW type, \E k \in new.jobs : k.type = type PROVE Pending(type, t)'
  BY <1>2, <1>3, <1>4, <1>6, <1>7 DEF Pending, From, Live
<1>8. ASSUME NEW type \in Leads, Told({type}, t)' PROVE \E k \in new.jobs : k.type = After(type)
  <2>1. PICK n \in AllNotifs' : n.type = type /\ From(n, t)
    BY <1>2, <1>8 DEF Told, From
  <2>2. n \in Insert(new.notifs)
    BY <1>2, <1>3, <1>6, <2>1 DEF AllNotifs
  <2>3. PICK m \in notifs \cup new.notifs : m.type = n.type /\ m.block = n.block /\ m.fork = n.fork
    BY <2>2, InsertedRow
  <2>4. m \in new.notifs
    BY <1>3, <2>1, <2>3 DEF From, AllNotifs
  <2>5. type = "queued"
    BY <1>5, <2>1, <2>3, <2>4 DEF Leads, Short, Once
  <2> QED  BY <1>5, <2>1, <2>3, <2>4, <2>5 DEF After
<1> QED  BY <1>2, <1>5, <1>7, <1>8 DEF Chained, Reached

\* No step breaks a chain of jobs.
LEMMA ChainsStep ==
  DelaysSuffice /\ PhasesLongEnough =>
    (IInv /\ IInv' /\ FInv /\ PromptInv /\ AttachedInv /\ ChainsInv /\ [Next]_vars => ChainsInv')
<1> SUFFICES ASSUME DelaysSuffice, PhasesLongEnough, IInv, IInv', FInv, PromptInv, AttachedInv,
                    ChainsInv, [Next]_vars, late' = 0,
                    NEW b \in Times, NEW t \in Times, CreatedAt(b)', Current(t)'
             PROVE  Chained(t, Params(b))'
  BY DEF ChainsInv
<1>t. /\ TypeOK /\ ChainInv /\ StoredInv /\ late = 0 /\ OneCreated'
      /\ chain \in [Times -> Logs] /\ forks \in [Times -> 0 .. MaxReorgs] /\ now \in Times
      /\ \A u \in Times : forks[u] \in Nat
  <2>1. OneCreated'
    <3>1. TypeOK' /\ ChainInv'
      BY DEF IInv, TypeInv
    <3> QED  BY <3>1, CreatedOnce, PTL
  <2> QED  BY <2>1, LateGrows, ConstantTypes DEF IInv, TypeInv, TypeOK
<1>c. ASSUME CreatedAt(b), Current(t) PROVE Chained(t, Params(b))
  BY <1>t, <1>c DEF ChainsInv
<1>k. ASSUME UNCHANGED <<forks, gaveUp>>, Live \subseteq Live', AllNotifs' = AllNotifs
      PROVE  KeepsRows(t) /\ TellsNothing(t)
  BY <1>k DEF KeepsRows, TellsNothing, Alike
<1>e. ASSUME UNCHANGED <<forks, gaveUp, chain, db>>, Live \subseteq Live', AllNotifs' = AllNotifs
      PROVE  Chained(t, Params(b))'
  <2>1. CreatedAt(b) /\ Current(t)
    BY <1>e DEF CreatedAt, Current
  <2> QED  BY <1>e, <1>c, <1>k, <2>1, ChainedStays
<1>1. ASSUME NEW at \in Times, UNCHANGED <<db, jobs, done, written, notifs, gaveUp>>,
             db[at].fork # forks'[at],
             \A u \in Times : u # at => chain'[u] = chain[u] /\ forks'[u] = forks[u],
             chain[at] = NoLog \/ \A u \in Times : chain[u] # NoLog => u <= at
      PROVE  Chained(t, Params(b))'
  <2>1. t # at /\ Current(t) /\ chain'[t] = chain[t] /\ forks'[t] = forks[t]
    BY <1>1 DEF Current
  <2>2. chain[t] # NoLog
    BY <2>1, CurrentLogged
  <2>3. CreatedAt(b)
    BY <1>t, <1>1, <2>1, <2>2, CreatedBefore
  <2>4. KeepsRows(t) /\ TellsNothing(t)
    BY <1>1, <2>1 DEF KeepsRows, TellsNothing, Alike, Live, AllNotifs
  <2> QED  BY <1>c, <2>1, <2>3, <2>4, ChainedStays
<1>2. CASE Call
  <2>1. /\ UNCHANGED <<db, jobs, done, written, notifs, gaveUp>> /\ UNCHANGED forks
        /\ chain[now] = NoLog /\ \A u \in Times : u # now => chain'[u] = chain[u]
    BY <1>2, <1>t DEF Call, tx, history
  <2>2. ~Current(now)
    BY <1>t, <2>1, CurrentLogged
  <2> QED  BY <1>t, <1>1, <2>1, <2>2 DEF Current
<1>3. ASSUME NEW u \in Times, Reorg(u) PROVE Chained(t, Params(b))'
  <2>1. /\ UNCHANGED <<db, jobs, done, written, notifs, gaveUp>>
        /\ forks'[u] = forks[u] + 1
        /\ \A v \in Times : v # u => chain'[v] = chain[v] /\ forks'[v] = forks[v]
        /\ \A v \in Times : chain[v] # NoLog => v <= u
    BY <1>3, <1>t DEF Reorg, tx, history, LogsAt
  <2>2. db[u].fork # forks'[u]
    <3>1. db[u] # NotStored => db[u].fork <= forks[u]
      BY <1>t DEF StoredInv
    <3>2. db[u].fork \in Int
      BY <1>t, ConstantTypes DEF TypeOK, StoredBlocks
    <3>3. NotStored.fork = -1
      BY DEF NotStored
    <3>4. forks[u] \in Nat
      BY <1>t
    <3> QED  BY <2>1, <3>1, <3>2, <3>3, <3>4
  <2> QED  BY <1>1, <2>1, <2>2
<1>4. ASSUME NEW u \in Times, DeleteBlock(u) PROVE Chained(t, Params(b))'
  <2>1. /\ UNCHANGED <<chain, forks, done, written, gaveUp>>
        /\ db' = [db EXCEPT ![u] = NotStored]
        /\ jobs' = {j \in jobs : j.block # u} /\ notifs' = {n \in notifs : n.block # u}
    BY <1>4 DEF DeleteBlock, node, tx
  <2>2. t # u
    <3>1. t = u => db'[t].fork = -1
      BY <1>t, <2>1 DEF NotStored, TypeOK
    <3> QED  BY <1>t, <2>1, <3>1 DEF Current
  <2>3. Current(t) /\ CreatedAt(b)
    BY <1>t, <2>1, <2>2 DEF Current, CreatedAt, TypeOK
  <2>4. KeepsRows(t) /\ TellsNothing(t)
    BY <2>1, <2>2 DEF KeepsRows, TellsNothing, Alike, Live, AllNotifs, From
  <2> QED  BY <1>c, <2>1, <2>3, <2>4, ChainedStays
<1>5. ASSUME NEW u \in Times, StoreBlock(u) PROVE Chained(t, Params(b))'
  <2>1. PICK row \in SUBSET AllParams :
          /\ jobs' = jobs \cup FromBlock(u, db', row).jobs
          /\ notifs' = Insert(FromBlock(u, db', row).notifs)
          /\ EventWrites(FromBlock(u, db', row), u)
    BY <1>t, <1>5, StoredTypes
  <2> DEFINE new == FromBlock(u, db', row)
  <2>2. /\ \A r \in new.jobs \cup new.notifs : r.block = u
        /\ jobs' = jobs \cup new.jobs /\ notifs' = Insert(new.notifs)
    BY <2>1 DEF EventWrites
  <2> HIDE DEF new
  <2>3. /\ UNCHANGED <<chain, forks, done, written, gaveUp>>
        /\ \A v \in Times : v # u => db'[v] = db[v]
    BY <1>5, <1>t DEF StoreBlock, node, tx, history, TypeOK
  <2>4. CreatedAt(b)
    BY <2>3 DEF CreatedAt
  <2>5. CASE t = u
    BY <1>5, <2>4, <2>5, StoreChains
  <2>6. CASE t # u
    <3>1. Current(t)
      BY <2>3, <2>6 DEF Current
    <3>2. KeepsRows(t)
      <4>1. Live \subseteq Live'
        BY <2>2, <2>3 DEF Live
      <4>2. ASSUME NEW n \in AllNotifs PROVE \E m \in AllNotifs' : Alike(m, n)
        <5>1. CASE n \in notifs
          BY <2>2, <5>1 DEF Insert, AllNotifs, Alike
        <5>2. CASE n \in written.notifs
          BY <2>3, <5>2 DEF AllNotifs, Alike
        <5> QED  BY <5>1, <5>2 DEF AllNotifs
      <4> QED  BY <2>3, <4>1, <4>2 DEF KeepsRows
    <3>3. TellsNothing(t)
      <4> SUFFICES ASSUME NEW m \in AllNotifs', m.block = t PROVE \E n \in AllNotifs : Alike(m, n)
        BY DEF TellsNothing, From
      <4>1. CASE m \in written.notifs
        BY <4>1 DEF AllNotifs, Alike
      <4>2. CASE m \in Insert(new.notifs)
        <5>1. PICK n \in notifs \cup new.notifs :
                n.type = m.type /\ n.block = m.block /\ n.fork = m.fork
          BY <4>2, InsertedRow
        <5>2. n \in notifs
          BY <2>2, <2>6, <5>1
        <5> QED  BY <5>1, <5>2 DEF AllNotifs, Alike
      <4> QED  BY <2>2, <2>3, <4>1, <4>2 DEF AllNotifs
    <3> QED  BY <1>c, <2>3, <2>4, <3>1, <3>2, <3>3, ChainedStays
  <2> QED  BY <2>5, <2>6
<1>6. ASSUME NEW j, Execute(j) PROVE Chained(t, Params(b))'
  <2>1. CreatedAt(b) /\ Current(t)
    BY <1>6 DEF Execute, node, CreatedAt, Current
  <2> QED  BY <1>c, <1>t, <1>6, <2>1, ExecuteChains
<1>7. CASE Fetch
  <2>1. UNCHANGED <<forks, gaveUp, chain, db, jobs, notifs, done, written>>
    BY <1>7 DEF Fetch, node, history
  <2> QED  BY <1>e, <2>1 DEF Live, AllNotifs
<1>8. CASE Commit
  <2>1. /\ UNCHANGED <<forks, gaveUp, chain, db>> /\ done' = {} /\ written' = NothingWritten
        /\ jobs' = (jobs \ done) \cup written.jobs /\ notifs' = Insert(written.notifs)
    BY <1>8 DEF Commit, EndTx, node, history
  <2>2. Current(t) /\ CreatedAt(b)
    BY <2>1 DEF Current, CreatedAt
  <2>3. KeepsRows(t)
    <3>1. Live' = Live
      BY <2>1 DEF Live, NothingWritten
    <3>2. \A n \in AllNotifs : \E m \in AllNotifs' : Alike(m, n)
      BY <2>1, InsertedAll DEF AllNotifs, Alike
    <3> QED  BY <2>1, <3>1, <3>2 DEF KeepsRows
  <2>4. TellsNothing(t)
    <3>1. AllNotifs' = Insert(written.notifs)
      BY <2>1 DEF AllNotifs, NothingWritten
    <3> QED  BY <3>1, InsertedRow DEF TellsNothing, AllNotifs, Alike
  <2> QED  BY <1>c, <2>1, <2>2, <2>3, <2>4, ChainedStays
<1>9. CASE Crash
  <2>1. late' = late + 1
    BY <1>9 DEF Crash
  <2> QED  BY <1>t, <2>1
<1>10. CASE Tick \/ UNCHANGED vars
  <2>1. UNCHANGED <<forks, gaveUp, chain, db, jobs, notifs, done, written>>
    BY <1>10 DEF Tick, vars, node, tx, history
  <2> QED  BY <1>e, <2>1 DEF Live, AllNotifs
<1> QED  BY <1>2, <1>3, <1>4, <1>5, <1>6, <1>7, <1>8, <1>9, <1>10 DEF Next, Worker

PInv == PromptInv /\ AttachedInv /\ ChainsInv

\* Jobs stay prompt, rows attached and chains whole.
LEMMA Announcements == DelaysSuffice /\ PhasesLongEnough => (Spec => [](IInv /\ FInv /\ PInv))
<1> SUFFICES ASSUME DelaysSuffice, PhasesLongEnough PROVE Spec => [](IInv /\ FInv /\ PInv)
  OBVIOUS
<1>1. Init => PInv
  <2> SUFFICES ASSUME Init PROVE PInv
    OBVIOUS
  <2>1. /\ AllJobs = {} /\ AllNotifs = {} /\ done = {} /\ notifs = {} /\ written.notifs = {}
        /\ worker = "idle"
    BY DEF Init, AllJobs, AllNotifs, NothingWritten
  <2>2. ChainsInv
    BY DEF Init, ChainsInv, CreatedAt, NoLog, Plain
  <2> QED  BY <2>1, <2>2 DEF PInv, PromptInv, AttachedInv
<1>2. IInv /\ IInv' /\ FInv /\ PInv /\ [Next]_vars => PInv'
  BY PromptStep, AttachedStep, ChainsStep DEF PInv
<1> QED  BY <1>1, <1>2, Finality, PTL DEF Spec

-----------------------------------------------------------------------------
(* What has been told when a phase is over                                 *)

Upto(at) == [t \in Times |-> IF t <= at THEN chain[t] ELSE NoLog]

\* The chain as it was at a time has the logs up to it.
LEMMA UptoLogs ==
  ASSUME TypeOK, NEW at
  PROVE  /\ Upto(at) \in [Times -> Logs]
         /\ \A t \in Times : t <= at => Upto(at)[t] = chain[t]
         /\ \A t \in Times : ~(t <= at) => Upto(at)[t].type = "none"
         /\ \A type : type # "none" =>
              /\ Logged(chain, type) = {} => Logged(Upto(at), type) = {}
              /\ (\A t \in Times : chain[t].type = type => t <= at) =>
                   Logged(Upto(at), type) = Logged(chain, type)
<1>1. NoLog \in Logs /\ NoLog.type = "none" /\ chain \in [Times -> Logs]
  BY DEF Logs, NoLog, Plain, TypeOK
<1>2. /\ Upto(at) \in [Times -> Logs]
      /\ \A t \in Times : t <= at => Upto(at)[t] = chain[t]
      /\ \A t \in Times : ~(t <= at) => Upto(at)[t].type = "none"
  BY <1>1 DEF Upto
<1>3. ASSUME NEW type, type # "none", Logged(chain, type) = {} PROVE Logged(Upto(at), type) = {}
  BY <1>1, <1>2, <1>3, LoggedAt
<1>4. ASSUME NEW type, type # "none", \A t \in Times : chain[t].type = type => t <= at
      PROVE  Logged(Upto(at), type) = Logged(chain, type)
  BY <1>1, <1>2, <1>4, LoggedSame
<1> QED  BY <1>2, <1>3, <1>4

\* What makes the proposal stay in the phase that the job announces.
Lasting(type, t) ==
  /\ NotCanceled /\ Logged(chain, "executed") = {}
  /\ type = "outcome" => Logged(chain, "queued") = {}
  /\ type \in {"grace", "expires", "expired", "abrogated"} =>
       /\ ContractCarried(chain) /\ ContractAbrogated(chain) = (type = "abrogated")
       /\ \E u \in Times : u <= t /\ chain[u].type = "queued"

\* A job that found another state then was misled.
LEMMA NotRefused ==
  ASSUME IInv, PhasesLongEnough, ~Misled, NEW b \in Times, CreatedAt(b),
         NEW t \in Times, chain[t] # NoLog, NEW type \in Announcing, Lasting(type, t)
  PROVE  ~Refused(type, t, Params(b))
<1> DEFINE p == Params(b)
<1> SUFFICES ASSUME NEW g \in gaveUp, t <= g.at, g.state \notin Wanted(type), Opens(type, p) < g.at,
                    type \in Short => g.at <= Closes(type, p)
             PROVE  FALSE
  BY DEF Refused
<1> DEFINE at == g.at
           c == Upto(at)
<1>t. TypeOK /\ ChainInv /\ at \in Int /\ t \in Int
  BY DEF IInv, TypeInv, TypeOK, Times
<1>1. b <= at
  <2>1. b <= t
    <3>1. t # b => b < t
      BY <1>t, LegalCalls
    <3> QED  BY <3>1 DEF Times
  <2> QED  BY <1>t, <2>1 DEF Times
<1>2. Phase(c, at, p) \notin Wanted(type)
  <2>1. \A u \in Times : chain[u].type = "created" => u = b
    BY <1>t, OnceLogged DEF CreatedAt, Once
  <2>2. /\ c \in [Times -> Logs] /\ c[b].type = "created"
        /\ \A u \in Times : c[u].type = "created" => u = b
    BY <1>t, <1>1, <2>1, UptoLogs DEF CreatedAt
  <2>3. ContractState(c, at) = Phase(c, at, p)
    BY <2>2, PhaseOf
  <2>4. ContractState(c, at) = g.state
    BY DEF Misled, Upto
  <2> QED  BY <2>3, <2>4
<1>3. Logged(c, "canceled") = {} /\ Logged(c, "executed") = {}
  BY <1>t, UptoLogs DEF Lasting, NotCanceled
<1>4. /\ WarmUpEnd(p) \in Int /\ VotingEnd(p) \in Int /\ Eta(p) \in Int /\ GraceEnd(p) \in Int
      /\ WarmUpEnd(p) < VotingEnd(p) /\ VotingEnd(p) <= Eta(p) /\ Eta(p) < GraceEnd(p)
  BY ClosesOrder
<1>5. CASE type \in {"activating", "votingOpen", "votingEnding"}
  <2> HIDE DEF p, c, at
  <2>1. at = g.at
    BY DEF at
  <2>2. CASE type = "activating"
    <3>1. at <= WarmUpEnd(p)
      BY <2>1, <2>2 DEF Closes, Short
    <3> QED  BY <1>2, <1>3, <2>2, <3>1 DEF Phase, Wanted
  <2>3. CASE type \in {"votingOpen", "votingEnding"}
    <3>1. at <= VotingEnd(p) /\ WarmUpEnd(p) < at
      BY <2>1, <2>3 DEF Closes, Opens, Short
    <3>2. ~(at <= WarmUpEnd(p))
      BY <1>t, <1>4, <3>1
    <3> QED  BY <1>2, <1>3, <2>3, <3>1, <3>2 DEF Phase, Wanted
  <2> QED  BY <1>5, <2>2, <2>3
<1>6. CASE type \notin {"activating", "votingOpen", "votingEnding"}
  <2>1. VotingEnd(p) < at
    <3>1. VotingEnd(p) <= Opens(type, p) /\ Opens(type, p) \in Int /\ Opens(type, p) < at
      <4> HIDE DEF p
      <4> QED  BY <1>4, <1>6 DEF Opens
    <3> HIDE DEF p, at
    <3> QED  BY <1>t, <1>4, <3>1
  <2>2. ~(at <= WarmUpEnd(p)) /\ ~(at <= VotingEnd(p))
    <3> HIDE DEF p, at
    <3> QED  BY <1>t, <1>4, <2>1
  <2>3. ContractCarried(c) = ContractCarried(chain)
    <3>1. \A u \in Times : chain[u].type \in {"vote", "unvote"} => u <= VotingEnd(p)
      BY <1>t, InTime DEF Deadline, Timed, Ballot
    <3>2. \A u \in Times : chain[u].type \in {"vote", "unvote"} => u <= at
      <4> HIDE DEF p, at
      <4> QED  BY <1>t, <1>4, <2>1, <3>1 DEF Times
    <3>3. Logged(c, "vote") = Logged(chain, "vote") /\ Logged(c, "unvote") = Logged(chain, "unvote")
      BY <1>t, <3>2, UptoLogs
    <3> QED  BY <3>3, CarriedSame
  <2>4. CASE type = "outcome"
    <3>1. Logged(c, "queued") = {}
      BY <1>t, <2>4, UptoLogs DEF Lasting
    <3> HIDE DEF p, c, at
    <3> QED  BY <1>2, <1>3, <2>2, <2>4, <3>1 DEF Phase, Wanted
  <2>5. CASE type \in {"grace", "expires", "expired", "abrogated"}
    <3>1. Logged(c, "queued") # {}
      <4>1. PICK u \in Times : u <= t /\ chain[u].type = "queued"
        BY <2>5 DEF Lasting
      <4>2. u <= at
        BY <1>t, <4>1 DEF Times
      <4>3. c \in [Times -> Logs] /\ c[u].type = "queued"
        BY <1>t, <4>1, <4>2, UptoLogs
      <4> HIDE DEF c
      <4> QED  BY <4>3, LoggedAt
    <3>2. Eta(p) < at
      <4>1. Eta(p) <= Opens(type, p) /\ Opens(type, p) \in Int /\ Opens(type, p) < at
        <5> HIDE DEF p
        <5> QED  BY <1>4, <2>5 DEF Opens
      <4> HIDE DEF p, at
      <4> QED  BY <1>t, <1>4, <4>1
    <3>3. ~(at < Eta(p))
      <4> HIDE DEF p, at
      <4> QED  BY <1>t, <1>4, <3>2
    <3>4. ContractAbrogated(c) = ContractAbrogated(chain)
      <4>1. \A u \in Times : chain[u].type \in {"abrogation", "abVote", "abUnvote"} => u <= Eta(p)
        BY <1>t, InTime DEF Deadline, Timed, Ballot
      <4>2. \A u \in Times : chain[u].type \in {"abrogation", "abVote", "abUnvote"} => u <= at
        <5> HIDE DEF p, at
        <5> QED  BY <1>t, <1>4, <3>2, <4>1 DEF Times
      <4>3. /\ Logged(c, "abVote") = Logged(chain, "abVote")
            /\ Logged(c, "abUnvote") = Logged(chain, "abUnvote")
            /\ Logged(c, "abrogation") = Logged(chain, "abrogation")
        BY <1>t, <4>2, UptoLogs
      <4> QED  BY <4>3, AbrogatedSame
    <3>5. ContractCarried(c) /\ ContractAbrogated(c) = (type = "abrogated")
      BY <2>3, <2>5, <3>4 DEF Lasting
    <3>6. type = "expired" => at > GraceEnd(p)
      <4>1. type = "expired" => GraceEnd(p) < at
        BY DEF Opens
      <4> HIDE DEF p, at
      <4> QED  BY <1>t, <1>4, <4>1
    <3>7. type \in {"grace", "expires"} => ~(at > GraceEnd(p))
      <4>1. type \in {"grace", "expires"} => at <= GraceEnd(p)
        BY DEF Closes, Short
      <4> HIDE DEF p, at
      <4> QED  BY <1>t, <1>4, <4>1
    <3> HIDE DEF p, c, at
    <3> QED  BY <1>2, <1>3, <2>2, <2>5, <3>1, <3>3, <3>5, <3>6, <3>7 DEF Phase, Wanted
  <2> QED  BY <1>6, <2>4, <2>5 DEF Announcing, Short
<1> QED  BY <1>5, <1>6

\* By when the job has run.
Overdue(type, p) ==
  /\ type = "activating" => WarmUpEnd(p) < now
  /\ type = "votingOpen" => WarmUpEnd(p) < now
  /\ type = "votingEnding" => VotingEnd(p) < now
  /\ type = "outcome" => VotingEnd(p) + Safety < now
  /\ type = "grace" => Eta(p) < now
  /\ type = "expires" => GraceEnd(p) < now
  /\ type = "expired" => GraceEnd(p) + Safety < now
  /\ type = "abrogated" => Eta(p) + Safety < now

\* With the worker done, no job pending and none misled, what the chain has reached is told.
LEMMA IsTold ==
  ASSUME IInv, FInv, PInv, PhasesLongEnough, late = 0, worker = "idle", Due = {}, ~Misled,
         NEW b \in Times, CreatedAt(b), NEW t \in Times, Current(t), NEW type \in Announcing,
         Reached(type, t, Params(b)), Lasting(type, t), Overdue(type, Params(b))
  PROVE  Told(Names(type), t) /\ Announced(Names(type))
<1> DEFINE p == Params(b)
<1>t. TypeOK /\ ChainInv /\ now \in Int
  BY DEF IInv, TypeInv, TypeOK, Times
<1>1. AllJobs = jobs /\ AllNotifs = notifs /\ Live = jobs
  BY <1>t DEF TypeOK, AllJobs, AllNotifs, Live, NothingWritten
<1>2. ~Refused(type, t, p)
  BY CurrentLogged, NotRefused
<1>3. ~Pending(type, t)
  <2> SUFFICES ASSUME NEW j \in jobs, j.type = type, From(j, t) PROVE FALSE
    BY <1>1 DEF Pending
  <2>1. Present(j) /\ GoodJob(j) /\ IsJob(j) /\ Prompt(j)
    BY <1>t, <1>1 DEF From, Present, FInv, JobInv, TypeOK, PInv, PromptInv
  <2>2. PICK c \in Times : CreatedAt(c) /\ j.p = Params(c)
    BY <2>1 DEF GoodJob
  <2>3. j.p = p
    BY <1>t, <2>2, CreatedOnce DEF OneCreated
  <2>4. j.on \in Int /\ ~(j.on < now)
    BY <2>1 DEF Due, IsJob
  <2>5. /\ WarmUpEnd(p) \in Int /\ VotingEnd(p) \in Int /\ Eta(p) \in Int /\ GraceEnd(p) \in Int
        /\ Safety \in Nat
    BY ClosesOrder, ConstantTypes
  <2>6. OnTime(j) /\ (type \in Short => j.on < Closes(type, p)) /\ Overdue(type, p)
    BY <2>1, <2>3 DEF GoodJob, Prompt
  <2> HIDE DEF p
  <2>7. CASE type \in {"activating", "votingEnding", "expires"}
    BY <1>t, <2>4, <2>5, <2>6, <2>7 DEF Closes, Overdue, Short
  <2>8. CASE type \in {"votingOpen", "outcome", "grace", "expired", "abrogated"}
    BY <1>t, <2>3, <2>4, <2>5, <2>6, <2>8 DEF OnTime, Overdue
  <2> QED  BY <2>7, <2>8 DEF Announcing, Short
<1>4. Told(Names(type), t)
  BY <1>2, <1>3 DEF Reached
<1> QED  BY <1>1, <1>4 DEF Told, Announced

\* With the worker done, what has been reached is told, and so on along the chain.
LEMMA ToldNext ==
  ASSUME IInv, FInv, PInv, PhasesLongEnough, late = 0, worker = "idle", Due = {}, ~Misled,
         NEW b \in Times, CreatedAt(b), NEW t \in Times, Current(t), NEW type \in Leads,
         Told({type}, t), Lasting(After(type), t), Overdue(After(type), Params(b))
  PROVE  Told(Names(After(type)), t) /\ Announced(Names(After(type)))
<1>1. Chained(t, Params(b))
  BY DEF PInv, ChainsInv
<1>2. Reached(After(type), t, Params(b))
  BY <1>1 DEF Chained
<1>3. After(type) \in Announcing
  BY DEF After, Announcing, Short, Leads
<1> HIDE DEF After
<1> QED  BY <1>2, <1>3, IsTold

\* With every block stored, a block with rows or a log is stored in its present form.
LEMMA SyncedCurrent ==
  ASSUME IInv, Synced, NEW t \in Times, db[t].fork # -1 \/ chain[t] # NoLog
  PROVE  Current(t)
<1>1. ~Behind(t)
  BY DEF Synced
<1>2. db[t] # NotStored
  BY <1>1 DEF Behind, NotStored
<1> QED  BY <1>1, <1>2 DEF Behind, Outdated, Current

\* The vote is announced, and its end.
LEMMA VoteAnnounced ==
  ASSUME IInv, FInv, PInv, PhasesLongEnough, late = 0, worker = "idle", Due = {}, ~Misled, Synced,
         NEW b \in Times, CreatedAt(b), NotCanceled, Logged(chain, "executed") = {},
         WarmUpEnd(Params(b)) < now
  PROVE  /\ Announced({"votingOpen"})
         /\ VotingEnd(Params(b)) + Safety < now /\ Logged(chain, "queued") = {} =>
              Announced({"accepted", "failedQuorum", "failedVotes"})
<1> DEFINE p == Params(b)
<1>1. Current(b)
  BY SyncedCurrent DEF CreatedAt, NoLog, Plain
<1>2. /\ Lasting("activating", b) /\ Overdue("activating", p)
      /\ Lasting("votingOpen", b) /\ Overdue("votingOpen", p) /\ Lasting("votingEnding", b)
  BY DEF Lasting, Overdue
<1>3. Reached("activating", b, p)
  BY <1>1 DEF PInv, ChainsInv, Chained, CreatedAt
<1>4. Told({"activating"}, b)
  <2>1. Told(Names("activating"), b)
    BY <1>1, <1>2, <1>3, IsTold DEF Announcing, Short
  <2> QED  BY <2>1 DEF Names
<1>5. Told({"votingOpen"}, b) /\ Announced({"votingOpen"})
  <2>1. /\ After("activating") = "votingOpen" /\ "activating" \in Leads
        /\ Names("votingOpen") = {"votingOpen"}
    BY DEF After, Leads, Short, Names
  <2> QED  BY <1>1, <1>2, <1>4, <2>1, ToldNext
<1>6. ASSUME VotingEnd(p) + Safety < now, Logged(chain, "queued") = {}
      PROVE  Announced({"accepted", "failedQuorum", "failedVotes"})
  <2>1. VotingEnd(p) < now
    <3>1. VotingEnd(p) \in Int /\ Safety \in Nat /\ now \in Int
      BY ClosesOrder, ConstantTypes DEF IInv, TypeInv, TypeOK, Times
    <3> HIDE DEF p
    <3> QED  BY <1>6, <3>1
  <2>2. Overdue("votingEnding", p) /\ Overdue("outcome", p) /\ Lasting("outcome", b)
    BY <1>6, <2>1 DEF Overdue, Lasting
  <2>3. Told({"votingEnding"}, b)
    <3>1. /\ After("votingOpen") = "votingEnding" /\ "votingOpen" \in Leads
          /\ Names("votingEnding") = {"votingEnding"}
      BY DEF After, Leads, Short, Names
    <3> QED  BY <1>1, <1>2, <1>5, <2>2, <3>1, ToldNext
  <2>4. /\ After("votingEnding") = "outcome" /\ "votingEnding" \in Leads
        /\ Names("outcome") = {"accepted", "failedQuorum", "failedVotes"}
    BY DEF After, Leads, Short, Names
  <2> QED  BY <1>1, <2>2, <2>3, <2>4, ToldNext
<1> QED  BY <1>5, <1>6

\* A queued proposal that was not executed in its grace period is announced as expired.
LEMMA ExpiredAnnounced ==
  ASSUME IInv, FInv, PInv, PhasesLongEnough, late = 0, worker = "idle", Due = {}, ~Misled, Synced,
         NEW b \in Times, CreatedAt(b), NotCanceled, Logged(chain, "executed") = {},
         ContractCarried(chain), ~ContractAbrogated(chain), Announced({"queued"}),
         GraceEnd(Params(b)) + Safety < now
  PROVE  Announced({"expired"})
<1> DEFINE p == Params(b)
<1>1. PICK n \in notifs : n.type = "queued"
  BY DEF Announced
<1> DEFINE t == n.block
<1>2. t \in Times /\ n.fork \in 0 .. forks[t] /\ db[t].fork = n.fork /\ forks[t] \in Int
  BY <1>1 DEF IInv, TypeInv, TypeOK, FInv, NotifInv, AllNotifs, GoodNotif, Rooted, PInv, AttachedInv
<1>3. Current(t)
  <2>1. db[t].fork # -1
    BY <1>2
  <2> QED  BY <1>2, <2>1, SyncedCurrent
<1>4. Told({"queued"}, t)
  BY <1>1, <1>2, <1>3 DEF Told, From, Current, AllNotifs
<1>5. chain[t].type = "queued"
  BY <1>1, <1>2, <1>3 DEF FInv, NotifInv, AllNotifs, GoodNotif, Rooted, Present, Source, Current
<1>6. Lasting("grace", t) /\ Lasting("expires", t) /\ Lasting("expired", t)
  <2>1. \E u \in Times : u <= t /\ chain[u].type = "queued"
    BY <1>2, <1>5 DEF Times
  <2>2. ContractAbrogated(chain) = FALSE
    BY DEF ContractAbrogated
  <2> QED  BY <2>1, <2>2 DEF Lasting
<1>7. Overdue("grace", p) /\ Overdue("expires", p) /\ Overdue("expired", p)
  <2>1. /\ Eta(p) \in Int /\ GraceEnd(p) \in Int /\ Eta(p) < GraceEnd(p) /\ Safety \in Nat
        /\ now \in Int /\ GraceEnd(p) + Safety < now
    BY ClosesOrder, ConstantTypes DEF IInv, TypeInv, TypeOK, Times
  <2> HIDE DEF p
  <2>2. Eta(p) < now /\ GraceEnd(p) < now
    BY <2>1
  <2> QED  BY <2>1, <2>2 DEF Overdue
<1>8. /\ After("queued") = "grace" /\ After("grace") = "expires" /\ After("expires") = "expired"
      /\ {"queued", "grace", "expires"} \subseteq Leads
      /\ Names("grace") = {"grace"} /\ Names("expires") = {"expires"}
      /\ Names("expired") = {"expired"}
  BY DEF After, Leads, Short, Names
<1> HIDE DEF t, p
<1>9. Told({"grace"}, t)
  BY <1>2, <1>3, <1>4, <1>6, <1>7, <1>8, ToldNext DEF p
<1>10. Told({"expires"}, t)
  BY <1>2, <1>3, <1>6, <1>7, <1>8, <1>9, ToldNext DEF p
<1> QED  BY <1>2, <1>3, <1>6, <1>7, <1>8, <1>10, ToldNext DEF p

\* A proposal that its abrogation stopped is announced as abrogated.
LEMMA AbrogatedAnnounced ==
  ASSUME IInv, FInv, PInv, PhasesLongEnough, late = 0, worker = "idle", Due = {}, ~Misled, Synced,
         NEW b \in Times, CreatedAt(b), NotCanceled, Logged(chain, "executed") = {},
         ContractCarried(chain), ContractAbrogated(chain), Eta(Params(b)) + Safety < now
  PROVE  Announced({"abrogated"})
<1>t. TypeOK /\ ChainInv /\ chain \in [Times -> Logs]
  BY DEF IInv, TypeInv, TypeOK
<1>1. PICK t \in Times : chain[t].type = "abrogation"
  BY <1>t, LoggedAt DEF ContractAbrogated
<1>2. chain[t] # NoLog /\ t # b
  BY <1>1 DEF NoLog, Plain, CreatedAt
<1>3. \E u \in Times : u <= t /\ chain[u].type = "queued"
  <2> DEFINE c == Until(chain, t)
  <2>1. Logged(c, "queued") # {}
    BY <1>t, <1>1, <1>2, LegalCalls
  <2>2. /\ c \in [Times -> Logs] /\ \A u \in Times : c[u] = IF u < t THEN chain[u] ELSE NoLog
    BY <1>t DEF Until, Logs
  <2> HIDE DEF c
  <2>3. PICK u \in Times : c[u].type = "queued"
    BY <2>1, <2>2, LoggedAt
  <2> QED  BY <2>2, <2>3 DEF NoLog, Plain, Times
<1>4. Current(t)
  BY <1>2, SyncedCurrent
<1>5. Reached("abrogated", t, Params(b))
  BY <1>1, <1>4 DEF PInv, ChainsInv, Chained
<1>6. Lasting("abrogated", t) /\ Overdue("abrogated", Params(b))
  BY <1>3 DEF Lasting, Overdue
<1>7. "abrogated" \in Announcing /\ Names("abrogated") = {"abrogated"}
  BY DEF Announcing, Names
<1> QED  BY <1>4, <1>5, <1>6, <1>7, IsTold

(* PhasesAnnounced: where a block is replaced and stored within the warm-up and no phase *)
(* is empty, a worker that runs in time and was not misled has announced the opening of  *)
(* every vote, its outcome, an abrogation that succeeded, and that a proposal announced  *)
(* as queued expired, for every life of the proposal, every vote and every replaced      *)
(* block: from each block the jobs lead from one notification to the next                *)
(* (ExecuteJobsWithTx).                                                                  *)
THEOREM EachPhaseIsAnnounced ==
  DelaysSuffice /\ PhasesLongEnough => (Spec => []PhasesAnnounced)
<1> SUFFICES ASSUME DelaysSuffice, PhasesLongEnough PROVE Spec => []PhasesAnnounced
  OBVIOUS
<1>1. IInv /\ FInv /\ PInv => PhasesAnnounced
  <2> SUFFICES ASSUME IInv, FInv, PInv, NEW p \in ProposalRows(db),
                      Synced, late = 0, worker = "idle", Due = {}, ~Misled
               PROVE  LET state == ProposalState(db, {p}, now) IN
                      /\ state = "ACTIVE" /\ now > WarmUpEnd(p) + 1 => Announced({"votingOpen"})
                      /\ state \in {"ACCEPTED", "FAILED"} /\ now > VotingEnd(p) + Safety =>
                           Announced({"accepted", "failedQuorum", "failedVotes"})
                      /\ state = "EXPIRED" /\ Announced({"queued"}) /\ now > GraceEnd(p) + Safety =>
                           Announced({"expired"})
                      /\ state = "ABROGATED" /\ now > Eta(p) + Safety => Announced({"abrogated"})
    BY DEF PhasesAnnounced
  <2> DEFINE state == ProposalState(db, {p}, now)
  <2>1. PICK b \in Times : CreatedAt(b) /\ p = Params(b) /\ state = Phase(chain, now, p)
    BY RowOfProposal
  <2>2. /\ WarmUpEnd(p) \in Int /\ VotingEnd(p) \in Int /\ Eta(p) \in Int /\ GraceEnd(p) \in Int
        /\ WarmUpEnd(p) < VotingEnd(p) /\ Safety \in Nat /\ now \in Int
    BY <2>1, ClosesOrder, ConstantTypes DEF IInv, TypeInv, TypeOK, Times
  <2> HIDE DEF state
  <2>3. state \in {"ACTIVE", "ACCEPTED", "FAILED", "EXPIRED", "ABROGATED"} =>
          NotCanceled /\ Logged(chain, "executed") = {}
    BY <2>1 DEF Phase, NotCanceled
  <2>4. ASSUME state = "ACTIVE", now > WarmUpEnd(p) + 1 PROVE Announced({"votingOpen"})
    <3>1. WarmUpEnd(p) < now
      BY <2>2, <2>4
    <3> QED  BY <2>1, <2>3, <2>4, <3>1, VoteAnnounced
  <2>5. ASSUME state \in {"ACCEPTED", "FAILED"}, now > VotingEnd(p) + Safety
        PROVE  Announced({"accepted", "failedQuorum", "failedVotes"})
    <3>1. WarmUpEnd(p) < now /\ VotingEnd(p) + Safety < now
      BY <2>2, <2>5
    <3>2. Logged(chain, "queued") = {}
      <4>1. CASE state = "ACCEPTED"
        BY <2>1, <4>1 DEF Phase
      <4>2. CASE state = "FAILED"
        <5>1. ~ContractCarried(chain)
          BY <2>1, <4>2 DEF Phase
        <5>2. \A u \in Times : chain[u].type # "queued"
          BY <2>1, <5>1, CarriedBy DEF IInv, TypeInv
        <5> QED  BY <5>2, LoggedAt DEF IInv, TypeInv, TypeOK
      <4> QED  BY <2>5, <4>1, <4>2
    <3> QED  BY <2>1, <2>3, <2>5, <3>1, <3>2, VoteAnnounced
  <2>6. ASSUME state = "EXPIRED", Announced({"queued"}), now > GraceEnd(p) + Safety
        PROVE  Announced({"expired"})
    <3>1. ContractCarried(chain) /\ ~ContractAbrogated(chain)
      BY <2>1, <2>6 DEF Phase
    <3>2. GraceEnd(p) + Safety < now
      BY <2>2, <2>6
    <3> QED  BY <2>1, <2>3, <2>6, <3>1, <3>2, ExpiredAnnounced
  <2>7. ASSUME state = "ABROGATED", now > Eta(p) + Safety PROVE Announced({"abrogated"})
    <3>1. ContractCarried(chain) /\ ContractAbrogated(chain)
      BY <2>1, <2>7 DEF Phase
    <3>2. Eta(p) + Safety < now
      BY <2>2, <2>7
    <3> QED  BY <2>1, <2>3, <2>7, <3>1, <3>2, AbrogatedAnnounced
  <2> QED  BY <2>4, <2>5, <2>6, <2>7 DEF state
<1>2. Spec => [](IInv /\ FInv /\ PInv)
  BY Announcements
<1> QED  BY <1>1, <1>2, PTL
=================================================================================
