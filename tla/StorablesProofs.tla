---------------------------- MODULE StorablesProofs ----------------------------
(***************************************************************************)
(* What the tables hold at every moment, whatever branch the node is on    *)
(* and whatever failed.  The parts of the inductive invariant IInv: blocks *)
(* have typed logs, in which a transfer of kek to or from the staking      *)
(* contract stands right before the deposit or the withdrawal it belongs   *)
(* to (BlockSet, LogSeqs); what Validate let through are the receipts of   *)
(* the block itself (RawInv); in `store` its height is free (FreeInv); a   *)
(* height has just the rows of the block stored there (TablesInv); and a   *)
(* transfer is only kept of a token that has its one row (TokensInv).      *)
(*                                                                         *)
(* The properties that compare SQL with the contracts need a second one,   *)
(* HInv, on the history behind the node's state: the logs of each block    *)
(* of the branch say what it changed in the contracts (Leads, Tracks),    *)
(* equal hashes are equal blocks (Identified), what came from the branch   *)
(* is not above it (Within), and the transfers stored of a block are the   *)
(* monitored ones but for those counted as lost (KeptInv).                 *)
(***************************************************************************)
EXTENDS Storables, Sums, SequenceTheorems, TLAPS

-----------------------------------------------------------------------------
(* The contracts' logs                                                     *)

ContractSet ==
  [balance : [Users -> Int], until : [Users -> Int], delegatee : [Users -> Users \cup {Zero}],
   power : [Users -> Int], farmed : [Users -> [Tokens -> Int]], held : [Tokens -> Int]]

Events == {"Transfer", "Deposit", "Withdraw", "Lock", "Delegate", "DelegatedPowerIncreased",
           "DelegatedPowerDecreased"}

\* Tokens leave their transfers, supernova and the farm everything else, which is always
\* what a user did; delegated power is a user's too.
LogSet ==
  {l \in [contract : Tokens \cup {Supernova, Farm}, event : Events, from : Accounts,
          to : Accounts \cup Tokens, amount : Int, after : Int] :
     /\ l.event = "Transfer" => l.contract \in Tokens
     /\ l.event # "Transfer" => l.from \in Users
     /\ l.event \in {"DelegatedPowerIncreased", "DelegatedPowerDecreased"} => l.to \in Users}

LEMMA LogType ==
  ASSUME NEW contract \in Tokens \cup {Supernova, Farm}, NEW event \in Events,
         NEW from \in Accounts, NEW to \in Accounts \cup Tokens, NEW n \in Int, NEW after \in Int,
         IF event = "Transfer" THEN contract \in Tokens ELSE from \in Users,
         event \in {"DelegatedPowerIncreased", "DelegatedPowerDecreased"} => to \in Users
  PROVE  Log(contract, event, from, to, n, after) \in LogSet
  BY DEF Log, LogSet

LEMMA DelegatedTypes ==
  ASSUME NEW c \in ContractSet, NEW u \in Users, NEW to \in Users \cup {Zero}, NEW n \in Int
  PROVE  /\ Delegated(c, u, to, n).c \in ContractSet
         /\ Delegated(c, u, to, n).logs \in Seq(LogSet)
         /\ \A i \in DOMAIN Delegated(c, u, to, n).logs :
              /\ Delegated(c, u, to, n).logs[i].contract = Supernova
              /\ Delegated(c, u, to, n).logs[i].event
                   \in {"DelegatedPowerIncreased", "DelegatedPowerDecreased"}
<1>1. CASE to = Zero \/ n = 0
  BY <1>1 DEF Delegated
<1>2. CASE to # Zero /\ n # 0
  <2> DEFINE event == IF n > 0 THEN "DelegatedPowerIncreased" ELSE "DelegatedPowerDecreased"
             amount == IF n > 0 THEN n ELSE -n
             power == [c.power EXCEPT ![to] = @ + n]
             l == Log(Supernova, event, u, to, amount, c.power[to] + n)
  <2>1. /\ Delegated(c, u, to, n).c = [c EXCEPT !.power[to] = @ + n]
        /\ Delegated(c, u, to, n).logs = <<l>>
    BY <1>2 DEF Delegated
  <2>2. c.power[to] \in Int /\ to \in Users
    BY <1>2 DEF ContractSet
  <2>3. [c EXCEPT !.power[to] = @ + n] \in ContractSet
    <3>1. power \in [Users -> Int]
      BY <2>2 DEF ContractSet
    <3>2. [c EXCEPT !.power[to] = @ + n] = [c EXCEPT !.power = power]
      OBVIOUS
    <3> HIDE DEF power
    <3> QED  BY <3>1, <3>2 DEF ContractSet
  <2>4. /\ event \in {"DelegatedPowerIncreased", "DelegatedPowerDecreased"}
        /\ l \in LogSet
    <3>1. event \in {"DelegatedPowerIncreased", "DelegatedPowerDecreased"}
      OBVIOUS
    <3>2. amount \in Int /\ c.power[to] + n \in Int
      BY <2>2
    <3>3. /\ event \in Events /\ event # "Transfer" /\ u \in Accounts
          /\ to \in Accounts \cup Tokens /\ Supernova \in Tokens \cup {Supernova, Farm}
      BY <2>2, <3>1 DEF Events, Accounts
    <3> HIDE DEF event, amount
    <3> QED  BY <2>2, <3>1, <3>2, <3>3, LogType
  <2>5. l.contract = Supernova /\ l.event = event
    BY DEF Log
  <2> HIDE DEF event, l
  <2> QED  BY <2>1, <2>3, <2>4, <2>5
<1> QED  BY <1>1, <1>2

\* Kek that comes to the staking contract, and the deposit it is; kek that leaves it, and
\* the withdrawal.
In(l) == l.contract = "kek" /\ l.event = "Transfer" /\ l.to = Supernova
Out(l) == l.contract = "kek" /\ l.event = "Transfer" /\ l.from = Supernova
Action(l, type) == l.contract = Supernova /\ l.event = type
IsDeposit(a, b) == In(a) /\ Action(b, "Deposit") /\ b.from = a.from /\ b.amount = a.amount
IsWithdraw(a, b) == Out(a) /\ Action(b, "Withdraw") /\ b.from = a.to /\ b.amount = a.amount

\* The one is the log before the other.
PairedAt(logs, i) ==
  /\ In(logs[i]) => i + 1 \in DOMAIN logs /\ IsDeposit(logs[i], logs[i + 1])
  /\ Action(logs[i], "Deposit") => i - 1 \in DOMAIN logs /\ IsDeposit(logs[i - 1], logs[i])
  /\ Out(logs[i]) => i + 1 \in DOMAIN logs /\ IsWithdraw(logs[i], logs[i + 1])
  /\ Action(logs[i], "Withdraw") => i - 1 \in DOMAIN logs /\ IsWithdraw(logs[i - 1], logs[i])

Paired(logs) == \A i \in DOMAIN logs : PairedAt(logs, i)

LogSeqs == {logs \in Seq(LogSet) : Paired(logs)}

LEMMA PairedTogether ==
  ASSUME NEW a \in LogSeqs, NEW b \in LogSeqs
  PROVE  a \o b \in LogSeqs
<1> DEFINE logs == a \o b
           m == Len(a)
<1>1. /\ a \in Seq(LogSet) /\ b \in Seq(LogSet) /\ logs \in Seq(LogSet)
      /\ Len(logs) = m + Len(b) /\ m \in Nat /\ Len(b) \in Nat
      /\ DOMAIN a = 1 .. m /\ DOMAIN b = 1 .. Len(b) /\ DOMAIN logs = 1 .. m + Len(b)
  BY DEF LogSeqs
<1>2. /\ \A i \in 1 .. m : logs[i] = a[i]
      /\ \A i \in 1 .. Len(b) : logs[m + i] = b[i]
  BY <1>1
<1> HIDE DEF logs, m
<1>3. ASSUME NEW i \in 1 .. m PROVE PairedAt(logs, i)
  <2>1. PairedAt(a, i)
    BY <1>1 DEF LogSeqs, Paired
  <2> QED  BY <1>1, <1>2, <2>1 DEF PairedAt
<1>4. ASSUME NEW j \in 1 .. Len(b) PROVE PairedAt(logs, m + j)
  <2>1. PairedAt(b, j)
    BY <1>1 DEF LogSeqs, Paired
  <2>2. /\ (m + j) + 1 = m + (j + 1) /\ (m + j) - 1 = m + (j - 1)
        /\ m + j \in DOMAIN logs /\ logs[m + j] = b[j]
    BY <1>1, <1>2
  <2>3. j + 1 \in DOMAIN b => m + (j + 1) \in DOMAIN logs /\ logs[m + (j + 1)] = b[j + 1]
    BY <1>1, <1>2
  <2>4. j - 1 \in DOMAIN b => m + (j - 1) \in DOMAIN logs /\ logs[m + (j - 1)] = b[j - 1]
    BY <1>1, <1>2
  <2> QED  BY <2>1, <2>2, <2>3, <2>4 DEF PairedAt
<1>5. \A i \in DOMAIN logs : i \in 1 .. m \/ \E j \in 1 .. Len(b) : i = m + j
  <2> SUFFICES ASSUME NEW i \in 1 .. m + Len(b), i \notin 1 .. m
               PROVE  \E j \in 1 .. Len(b) : i = m + j
    BY <1>1
  <2>1. i - m \in 1 .. Len(b) /\ i = m + (i - m)
    BY <1>1
  <2> QED  BY <2>1
<1>6. Paired(logs)
  BY <1>3, <1>4, <1>5 DEF Paired
<1> QED  BY <1>1, <1>6 DEF LogSeqs, logs

\* Logs of neither kind are paired.
LEMMA Unrelated ==
  ASSUME NEW logs \in Seq(LogSet),
         \A i \in DOMAIN logs : /\ ~In(logs[i]) /\ ~Out(logs[i])
                                /\ ~Action(logs[i], "Deposit") /\ ~Action(logs[i], "Withdraw")
  PROVE  logs \in LogSeqs
  BY DEF LogSeqs, Paired, PairedAt

LEMMA StakedTypes ==
  ASSUME NEW c \in ContractSet, NEW u \in Users, NEW n \in Int
  PROVE  Staked(c, u, n).c \in ContractSet /\ Staked(c, u, n).logs \in LogSeqs
<1> DEFINE balance == [c.balance EXCEPT ![u] = @ + n]
           paid == [c EXCEPT !.balance = balance]
           d == Delegated(paid, u, c.delegatee[u], n)
           first == IF n > 0 THEN Transfer("kek", u, Supernova, n)
                    ELSE Transfer("kek", Supernova, u, -n)
           second == IF n > 0 THEN Log(Supernova, "Deposit", u, Zero, n, c.balance[u] + n)
                     ELSE Log(Supernova, "Withdraw", u, Zero, -n, c.balance[u] + n)
<1>1. paid \in ContractSet /\ c.delegatee[u] \in Users \cup {Zero} /\ c.balance[u] + n \in Int
  <2>1. balance \in [Users -> Int]
    BY DEF ContractSet
  <2>2. c.delegatee[u] \in Users \cup {Zero} /\ c.balance[u] + n \in Int
    BY DEF ContractSet
  <2> HIDE DEF balance
  <2>3. paid \in ContractSet
    BY <2>1 DEF ContractSet
  <2> QED  BY <2>2, <2>3
<1>2. [c EXCEPT !.balance[u] = @ + n] = paid
  OBVIOUS
<1>3. Staked(c, u, n).c = d.c /\ Staked(c, u, n).logs = d.logs \o <<first, second>>
  BY <1>2 DEF Staked
<1>4. /\ d.c \in ContractSet /\ d.logs \in Seq(LogSet)
      /\ \A i \in DOMAIN d.logs :
           /\ d.logs[i].contract = Supernova
           /\ d.logs[i].event \in {"DelegatedPowerIncreased", "DelegatedPowerDecreased"}
  <2> HIDE DEF paid
  <2> QED  BY <1>1, DelegatedTypes
<1> HIDE DEF paid, d
<1>5. d.logs \in LogSeqs
  BY <1>4, Unrelated DEF In, Out, Action
<1>6. first \in LogSet /\ second \in LogSet
  <2>1. {u, Supernova, Zero} \subseteq Accounts /\ Supernova \in Tokens \cup {Supernova, Farm}
    BY DEF Accounts
  <2>2. {"Transfer", "Deposit", "Withdraw"} \subseteq Events
    BY DEF Events
  <2> QED  BY <1>1, <2>1, <2>2, LogType, LedgerAssumption DEF Transfer
<1>7. IsDeposit(first, second) \/ IsWithdraw(first, second)
  BY DEF IsDeposit, IsWithdraw, In, Out, Action, Transfer, Log
<1>8. <<first, second>> \in LogSeqs
  <2>1. u # Supernova
    BY LedgerAssumption
  <2>2. /\ ~Action(first, "Deposit") /\ ~Action(first, "Withdraw") /\ ~In(second) /\ ~Out(second)
        /\ ~(In(first) /\ Out(first))
    BY <2>1 DEF In, Out, Action, Transfer, Log
  <2>3. /\ In(first) => IsDeposit(first, second)
        /\ Out(first) => IsWithdraw(first, second)
        /\ Action(second, "Deposit") => IsDeposit(first, second)
        /\ Action(second, "Withdraw") => IsWithdraw(first, second)
    BY <1>7, <2>2 DEF IsDeposit, IsWithdraw, Action
  <2> HIDE DEF first, second
  <2> DEFINE logs == <<first, second>>
  <2>4. logs \in Seq(LogSet) /\ DOMAIN logs = {1, 2} /\ logs[1] = first /\ logs[2] = second
    BY <1>6
  <2> HIDE DEF logs
  <2>5. PairedAt(logs, 1) /\ PairedAt(logs, 2)
    BY <2>2, <2>3, <2>4 DEF PairedAt
  <2>6. logs \in LogSeqs
    BY <2>4, <2>5 DEF LogSeqs, Paired
  <2> QED  BY <2>6 DEF logs
<1> QED  BY <1>3, <1>4, <1>5, <1>8, PairedTogether

LEMMA FarmedTypes ==
  ASSUME NEW c \in ContractSet, NEW u \in Users, NEW t \in Tokens, NEW n \in Int
  PROVE  Farmed(c, u, t, n).c \in ContractSet /\ Farmed(c, u, t, n).logs \in LogSeqs
<1> DEFINE mine == [c.farmed[u] EXCEPT ![t] = @ + n]
           farmed == [c.farmed EXCEPT ![u] = mine]
           first == IF n > 0 THEN Transfer(t, u, Farm, n) ELSE Transfer(t, Farm, u, -n)
           second == IF n > 0 THEN Log(Farm, "Deposit", u, t, n, 0)
                     ELSE Log(Farm, "Withdraw", u, t, -n, 0)
           logs == <<first, second>>
<1>1. [c EXCEPT !.farmed = farmed] \in ContractSet
  <2>1. c.farmed[u] \in [Tokens -> Int]
    BY DEF ContractSet
  <2>2. mine \in [Tokens -> Int]
    BY <2>1
  <2> HIDE DEF mine
  <2>3. farmed \in [Users -> [Tokens -> Int]]
    BY <2>2 DEF ContractSet
  <2> HIDE DEF farmed
  <2> QED  BY <2>3 DEF ContractSet
<1>2. /\ Farmed(c, u, t, n).c = [c EXCEPT !.farmed = farmed]
      /\ Farmed(c, u, t, n).logs = logs
  BY DEF Farmed
<1>3. first \in LogSet /\ second \in LogSet
  <2>1. {u, Farm} \subseteq Accounts /\ Farm \in Tokens \cup {Supernova, Farm}
    BY DEF Accounts
  <2>2. {"Transfer", "Deposit", "Withdraw"} \subseteq Events
    BY DEF Events
  <2> QED  BY <2>1, <2>2, LogType DEF Transfer
<1>4. \A l \in {first, second} :
        ~In(l) /\ ~Out(l) /\ ~Action(l, "Deposit") /\ ~Action(l, "Withdraw")
  <2>1. u # Supernova /\ Farm # Supernova
    BY LedgerAssumption DEF Farm, Supernova
  <2>2. ~In(first) /\ ~Out(first) /\ first.event = "Transfer"
    BY <2>1 DEF In, Out, Transfer, Log
  <2>3. second.event # "Transfer" /\ second.contract = Farm
    BY DEF Log
  <2> HIDE DEF first, second
  <2> QED  BY <2>1, <2>2, <2>3 DEF In, Out, Action
<1> HIDE DEF first, second
<1>5. logs \in Seq(LogSet) /\ \A i \in DOMAIN logs : logs[i] \in {first, second}
  BY <1>3
<1> HIDE DEF logs
<1>6. logs \in LogSeqs
  BY <1>4, <1>5, Unrelated
<1> QED  BY <1>1, <1>2, <1>6

LEMMA RedelegatedTypes ==
  ASSUME NEW c \in ContractSet, NEW u \in Users, NEW to \in Users \cup {Zero}
  PROVE  Redelegated(c, u, to).c \in ContractSet /\ Redelegated(c, u, to).logs \in LogSeqs
<1> DEFINE less == Delegated(c, u, c.delegatee[u], -c.balance[u])
           more == Delegated(less.c, u, to, c.balance[u])
           delegatee == [more.c.delegatee EXCEPT ![u] = to]
           first == Log(Supernova, "Delegate", u, to, 0, 0)
<1>1. c.delegatee[u] \in Users \cup {Zero} /\ c.balance[u] \in Int /\ -c.balance[u] \in Int
  BY DEF ContractSet
<1>2. less.c \in ContractSet /\ less.logs \in LogSeqs
  BY <1>1, DelegatedTypes, Unrelated DEF In, Out, Action
<1> HIDE DEF less
<1>3. more.c \in ContractSet /\ more.logs \in LogSeqs
  <2>1. /\ more.c \in ContractSet /\ more.logs \in Seq(LogSet)
        /\ \A i \in DOMAIN more.logs :
             /\ more.logs[i].contract = Supernova
             /\ more.logs[i].event \in {"DelegatedPowerIncreased", "DelegatedPowerDecreased"}
    BY <1>1, <1>2, DelegatedTypes
  <2> HIDE DEF more
  <2> QED  BY <2>1, Unrelated DEF In, Out, Action
<1> HIDE DEF more
<1>4. [more.c EXCEPT !.delegatee = delegatee] \in ContractSet
  <2>1. delegatee \in [Users -> Users \cup {Zero}]
    BY <1>3 DEF ContractSet
  <2> HIDE DEF delegatee
  <2> QED  BY <1>3, <2>1 DEF ContractSet
<1>5. <<first>> \in LogSeqs
  <2>1. first \in LogSet
    <3>1. /\ u \in Accounts /\ to \in Accounts \cup Tokens /\ "Delegate" \in Events
          /\ Supernova \in Tokens \cup {Supernova, Farm} /\ 0 \in Int
      BY DEF Accounts, Events
    <3> QED  BY <3>1, LogType
  <2>2. ~In(first) /\ ~Out(first) /\ ~Action(first, "Deposit") /\ ~Action(first, "Withdraw")
    BY DEF In, Out, Action, Log
  <2> HIDE DEF first
  <2>3. <<first>> \in Seq(LogSet) /\ \A i \in DOMAIN <<first>> : <<first>>[i] = first
    BY <2>1
  <2> QED  BY <2>2, <2>3, Unrelated
<1>6. /\ Redelegated(c, u, to).c = [more.c EXCEPT !.delegatee = delegatee]
      /\ Redelegated(c, u, to).logs = <<first>> \o less.logs \o more.logs
  BY DEF Redelegated, less, more
<1> HIDE DEF first, delegatee
<1>7. <<first>> \o less.logs \o more.logs \in LogSeqs
  BY <1>2, <1>3, <1>5, PairedTogether
<1> QED  BY <1>4, <1>6, <1>7

\* What a call leaves of the contracts' types and in the logs.
LEMMA OutcomeTypes ==
  ASSUME NEW c \in ContractSet, NEW call \in Calls
  PROVE  Outcome(c, call).c \in ContractSet /\ Outcome(c, call).logs \in LogSeqs
<1> DEFINE u == call.user
           n == call.n
           to == call.to
<1>1. u \in Users /\ n \in Int /\ -n \in Int
  BY StorablesAssumption
<1>2. CASE call.kind = "deposit"
  <2>1. Outcome(c, call) = Staked(c, u, n)
    BY <1>2, Zenon DEF Outcome
  <2> QED  BY <1>1, <2>1, StakedTypes
<1>3. CASE call.kind = "withdraw"
  <2>1. Outcome(c, call) = Staked(c, u, -n)
    BY <1>3, Zenon DEF Outcome
  <2> QED  BY <1>1, <2>1, StakedTypes
<1>4. CASE call.kind = "lock"
  <2> DEFINE until == [c.until EXCEPT ![u] = n]
             l == Log(Supernova, "Lock", u, Zero, n, 0)
  <2>1. Outcome(c, call) = [c |-> [c EXCEPT !.until[u] = n], logs |-> <<l>>]
    BY <1>4, Zenon DEF Outcome
  <2>2. [c EXCEPT !.until[u] = n] = [c EXCEPT !.until = until]
    OBVIOUS
  <2>3. until \in [Users -> Int]
    BY <1>1 DEF ContractSet
  <2>4. l \in LogSet
    <3>1. /\ u \in Accounts /\ Zero \in Accounts \cup Tokens /\ "Lock" \in Events
          /\ Supernova \in Tokens \cup {Supernova, Farm} /\ 0 \in Int
      BY <1>1 DEF Accounts, Events
    <3> QED  BY <1>1, <3>1, LogType
  <2>5. ~In(l) /\ ~Out(l) /\ ~Action(l, "Deposit") /\ ~Action(l, "Withdraw")
    BY DEF In, Out, Action, Log
  <2> HIDE DEF l, until
  <2>6. <<l>> \in LogSeqs
    <3>1. <<l>> \in Seq(LogSet) /\ \A i \in DOMAIN <<l>> : <<l>>[i] = l
      BY <2>4
    <3> QED  BY <2>5, <3>1, Unrelated
  <2>7. [c EXCEPT !.until = until] \in ContractSet
    BY <2>3 DEF ContractSet
  <2> QED  BY <2>1, <2>2, <2>6, <2>7
<1>5. CASE call.kind = "delegate"
  <2>1. Outcome(c, call) = Redelegated(c, u, to)
    BY <1>5, Zenon DEF Outcome
  <2> QED  BY <1>1, <1>5, <2>1, RedelegatedTypes, StorablesAssumption
<1>6. CASE call.kind = "farm"
  <2>1. Outcome(c, call) = Farmed(c, u, to, n)
    BY <1>6, Zenon DEF Outcome
  <2> QED  BY <1>1, <1>6, <2>1, FarmedTypes, StorablesAssumption
<1>7. CASE call.kind = "unfarm"
  <2>1. Outcome(c, call) = Farmed(c, u, to, -n)
    BY <1>7, Zenon DEF Outcome
  <2> QED  BY <1>1, <1>7, <2>1, FarmedTypes, StorablesAssumption
<1>8. CASE call.kind = "pay"
  <2> DEFINE held == [c.held EXCEPT ![to] = @ + n]
             l == Transfer(to, u, Treasury, n)
  <2>1. Outcome(c, call) = [c |-> [c EXCEPT !.held[to] = @ + n], logs |-> <<l>>]
    BY <1>8, Zenon DEF Outcome
  <2>2. [c EXCEPT !.held[to] = @ + n] = [c EXCEPT !.held = held]
    OBVIOUS
  <2>3. held \in [Tokens -> Int] /\ to \in Tokens
    BY <1>1, <1>8, StorablesAssumption DEF ContractSet
  <2>4. l \in LogSet
    <3>1. /\ u \in Accounts /\ Treasury \in Accounts \cup Tokens /\ "Transfer" \in Events
          /\ to \in Tokens \cup {Supernova, Farm} /\ 0 \in Int
      BY <1>1, <2>3 DEF Accounts, Events
    <3> QED  BY <1>1, <2>3, <3>1, LogType DEF Transfer
  <2>5. ~In(l) /\ ~Out(l) /\ ~Action(l, "Deposit") /\ ~Action(l, "Withdraw")
    <3>1. u # Supernova /\ Treasury # Supernova
      BY <1>1, LedgerAssumption DEF Treasury, Supernova
    <3> QED  BY <3>1 DEF In, Out, Action, Log, Transfer
  <2> HIDE DEF l, held
  <2>6. <<l>> \in LogSeqs
    <3>1. <<l>> \in Seq(LogSet) /\ \A i \in DOMAIN <<l>> : <<l>>[i] = l
      BY <2>4
    <3> QED  BY <2>5, <3>1, Unrelated
  <2>7. [c EXCEPT !.held = held] \in ContractSet
    BY <2>3 DEF ContractSet
  <2> QED  BY <2>1, <2>2, <2>6, <2>7
<1> QED  BY <1>2, <1>3, <1>4, <1>5, <1>6, <1>7, <1>8, StorablesAssumption

-----------------------------------------------------------------------------
(* Totals, blocks and their logs                                           *)

LEMMA TotalIs ==
  ASSUME NEW rows, IsFiniteSet(rows), NEW f, \A r \in rows : f[r] = r.amount /\ f[r] \in Int
  PROVE  Total(rows) = SumOver(f, rows)
<1> DEFINE Sums(g) == g = [s \in SUBSET rows |-> IF s = {} THEN 0
                                               ELSE AnyOf(s).amount + g[s \ {AnyOf(s)}]]
           sum == CHOOSE g : Sums(g)
<1>1. Total(rows) = sum[rows]
  BY DEF Total, MapThenSumSet, MapThenFoldSet, AnyOf
<1>2. ASSUME NEW g PROVE Sums(g) <=> IsSums(f, g, rows)
  <2>1. \A s \in SUBSET rows : s # {} => f[AnyOf(s)] = AnyOf(s).amount
    BY DEF AnyOf
  <2>2. [s \in SUBSET rows |-> IF s = {} THEN 0 ELSE AnyOf(s).amount + g[s \ {AnyOf(s)}]]
          = [s \in SUBSET rows |-> IF s = {} THEN 0 ELSE f[AnyOf(s)] + g[s \ {AnyOf(s)}]]
    BY <2>1
  <2> QED  BY <2>2 DEF IsSums
<1>3. PICK g : IsSums(f, g, rows)
  BY SumsExist
<1>4. Sums(sum)
  <2>1. Sums(g)
    BY <1>2, <1>3
  <2> QED  BY <2>1
<1> HIDE DEF sum, Sums
<1>5. IsSums(f, sum, rows)
  BY <1>2, <1>4
<1> QED  BY <1>1, <1>5, SumsAre

Hashes == [call : Calls, nonce : Nat]
ReceiptSet == [hash : Hashes, index : Nat, logs : LogSeqs]
BlockSet ==
  [id : Nat \ {0}, hashes : Seq(Hashes), receipts : Seq(ReceiptSet), contracts : ContractSet]

LEMMA NonceType ==
  ASSUME NEW branch \in Seq(BlockSet), NEW user
  PROVE  Nonce(branch, user) \in Nat
<1> DEFINE Number(k) == Cardinality({i \in DOMAIN branch[k].hashes :
                                       branch[k].hashes[i].call.user = user})
           f == [k \in DOMAIN branch |-> Number(k)]
           S == DOMAIN branch
           Sums(g) == g = [s \in SUBSET S |-> IF s = {} THEN 0
                                               ELSE Number(AnyOf(s)) + g[s \ {AnyOf(s)}]]
           sum == CHOOSE g : Sums(g)
<1>1. Nonce(branch, user) = sum[S]
  BY DEF Nonce, MapThenSumSet, MapThenFoldSet, AnyOf
<1>2. IsFiniteSet(S) /\ \A k \in S : f[k] \in Nat /\ f[k] = Number(k)
  <2>1. S = 1 .. Len(branch) /\ Len(branch) \in Nat
    BY LenProperties
  <2>2. ASSUME NEW k \in S PROVE Number(k) \in Nat
    <3>1. branch[k] \in BlockSet
      BY <2>1, ElementOfSeq
    <3>2. branch[k].hashes \in Seq(Hashes)
      BY <3>1 DEF BlockSet
    <3>3. DOMAIN branch[k].hashes = 1 .. Len(branch[k].hashes) /\ Len(branch[k].hashes) \in Nat
      BY <3>2, LenProperties
    <3>4. IsFiniteSet({i \in DOMAIN branch[k].hashes : branch[k].hashes[i].call.user = user})
      <4>1. IsFiniteSet(DOMAIN branch[k].hashes)
        BY <3>3, FS_Interval
      <4> QED  BY <4>1, FS_Subset
    <3> QED  BY <3>4, FS_CardinalityType
  <2> HIDE DEF Number
  <2> QED  BY <2>1, <2>2, FS_Interval
<1> HIDE DEF Number
<1>3. ASSUME NEW g PROVE Sums(g) <=> IsSums(f, g, S)
  <2>1. \A s \in SUBSET S : s # {} => f[AnyOf(s)] = Number(AnyOf(s))
    BY DEF AnyOf
  <2>2. [s \in SUBSET S |-> IF s = {} THEN 0 ELSE Number(AnyOf(s)) + g[s \ {AnyOf(s)}]]
          = [s \in SUBSET S |-> IF s = {} THEN 0 ELSE f[AnyOf(s)] + g[s \ {AnyOf(s)}]]
    BY <2>1
  <2> HIDE DEF f, S
  <2> QED  BY <2>2 DEF IsSums
<1> HIDE DEF f, S
<1>4. \E g : Sums(g)
  <2>1. PICK g : IsSums(f, g, S)
    BY <1>2, SumsExist
  <2> QED  BY <1>3, <2>1
<1>5. Sums(sum)
  BY <1>4
<1> HIDE DEF sum, Sums
<1>6. IsSums(f, sum, S)
  BY <1>3, <1>5
<1>7. sum[S] = SumOver(f, S)
  BY <1>2, <1>6, SumsAre
<1>8. SumOver(f, S) \in Nat
  BY <1>2, SumsAreNat
<1> QED  BY <1>1, <1>7, <1>8

LEMMA MaxIsIn ==
  ASSUME NEW S, IsFiniteSet(S), S \subseteq Int, S # {}
  PROVE  Max(S) \in S /\ \A x \in S : x <= Max(S)
<1> DEFINE T == {s \in SUBSET S : s = {} \/ \E x \in s : \A y \in s : x >= y}
<1>1. {} \in T
  OBVIOUS
<1>2. ASSUME NEW s \in SUBSET S, NEW x \in S, s \in T, x \notin s PROVE s \cup {x} \in T
  <2>1. CASE s = {}
    BY <2>1
  <2>2. CASE s # {}
    <3>1. PICK z \in s : \A y \in s : z >= y
      BY <1>2, <2>2
    <3>2. z \in Int /\ x \in Int /\ \A y \in s : y \in Int
      OBVIOUS
    <3>3. CASE x >= z
      <4>1. \A y \in s \cup {x} : x >= y
        BY <3>1, <3>2, <3>3
      <4> QED  BY <4>1
    <3>4. CASE z >= x
      <4>1. \A y \in s \cup {x} : z >= y
        BY <3>1, <3>2, <3>4
      <4> QED  BY <4>1
    <3> QED  BY <3>2, <3>3, <3>4
  <2> QED  BY <2>1, <2>2
<1>3. S \in T
  <2> HIDE DEF T
  <2> QED  BY <1>1, <1>2, ByOneMore
<1>4. PICK x \in S : \A y \in S : x >= y
  BY <1>3
<1> QED  BY <1>4 DEF Max

\* The logs of a block are those of its receipts.
LEMMA LogsOfIs ==
  ASSUME NEW receipts \in Seq(ReceiptSet)
  PROVE  \E g :
           /\ LogsOf(receipts) = g[DOMAIN receipts]
           /\ \A s \in SUBSET DOMAIN receipts :
                /\ g[s] \in LogSeqs
                /\ g[s] = IF s = {} THEN <<>> ELSE g[s \ {Max(s)}] \o receipts[Max(s)].logs
<1> DEFINE D == DOMAIN receipts
           logs(i) == receipts[i].logs
           pick == [s \in SUBSET D |-> Max(s)]
           step == [i \in D |-> [v \in LogSeqs |-> v \o logs(i)]]
           Folds(g) == g = [s \in SUBSET D |-> IF s = {} THEN <<>>
                                               ELSE g[s \ {Max(s)}] \o logs(Max(s))]
           fold == CHOOSE g : Folds(g)
<1>1. LogsOf(receipts) = fold[D]
  BY DEF LogsOf, FoldLeft, MapThenFoldSet
<1>2. IsFiniteSet(D) /\ D \subseteq Int /\ \A i \in D : logs(i) \in LogSeqs
  <2>1. D = 1 .. Len(receipts) /\ Len(receipts) \in Nat
    BY LenProperties
  <2>2. \A i \in D : receipts[i] \in ReceiptSet
    BY <2>1, ElementOfSeq
  <2> QED  BY <2>1, <2>2, FS_Interval DEF ReceiptSet
<1>3. \A s \in SUBSET D : s # {} => Max(s) \in s /\ pick[s] = Max(s) /\ pick[s] \in s
  BY <1>2, MaxIsIn, FS_Subset
<1>4. <<>> \in LogSeqs
  BY DEF LogSeqs, Paired
<1>5. ASSUME NEW v \in LogSeqs, NEW i \in D
      PROVE  v \o logs(i) \in LogSeqs /\ step[i][v] = v \o logs(i) /\ step[i][v] \in LogSeqs
  <2> HIDE DEF logs
  <2> QED  BY <1>2, PairedTogether
<1> HIDE DEF D, logs, step
<1>6. ASSUME NEW g, Folds(g) PROVE \A s \in SUBSET D : g[s] \in LogSeqs
  <2>1. g[{}] \in LogSeqs
    BY <1>4, <1>6
  <2>2. ASSUME NEW s \in SUBSET D, s # {}, g[s \ {pick[s]}] \in LogSeqs PROVE g[s] \in LogSeqs
    <3>1. g[s] = g[s \ {Max(s)}] \o logs(Max(s))
      BY <1>6, <2>2
    <3> HIDE DEF pick
    <3>2. Max(s) \in D /\ g[s \ {Max(s)}] \in LogSeqs
      BY <1>3, <2>2
    <3> QED  BY <1>5, <3>1, <3>2
  <2> HIDE DEF pick, Folds
  <2> QED  BY <1>2, <1>3, <2>1, <2>2, BySteps
<1>7. \E g : Folds(g)
  <2>1. PICK g : IsFold(pick, step, <<>>, g, D)
    <3> HIDE DEF pick
    <3> QED  BY <1>2, <1>3, FoldsExist
  <2>2. \A s \in SUBSET D : g[s] \in LogSeqs
    <3>1. g[{}] \in LogSeqs
      BY <1>4, <2>1 DEF IsFold
    <3>2. ASSUME NEW s \in SUBSET D, s # {}, g[s \ {pick[s]}] \in LogSeqs PROVE g[s] \in LogSeqs
      <4>1. g[s] = step[pick[s]][g[s \ {pick[s]}]] /\ pick[s] \in D
        BY <1>3, <2>1, <3>2 DEF IsFold
      <4> HIDE DEF pick
      <4> QED  BY <1>5, <3>2, <4>1
    <3> HIDE DEF pick
    <3> QED  BY <1>2, <1>3, <3>1, <3>2, BySteps
  <2>3. ASSUME NEW s \in SUBSET D
        PROVE  g[s] = IF s = {} THEN <<>> ELSE g[s \ {Max(s)}] \o logs(Max(s))
    <3>1. s = {} => g[s] = <<>>
      BY <2>1 DEF IsFold
    <3>2. s # {} => g[s] = step[Max(s)][g[s \ {Max(s)}]] /\ Max(s) \in D
      BY <1>3, <2>1 DEF IsFold
    <3>3. g[s \ {Max(s)}] \in LogSeqs
      BY <2>2
    <3> QED  BY <1>5, <3>1, <3>2, <3>3
  <2>4. g = [s \in SUBSET D |-> g[s]]
    BY <2>1 DEF IsFold
  <2> HIDE DEF pick
  <2>5. Folds(g)
    BY <2>3, <2>4
  <2> QED  BY <2>5
<1>8. Folds(fold)
  BY <1>7
<1> HIDE DEF fold
<1>9. \A s \in SUBSET D :
        /\ fold[s] \in LogSeqs
        /\ fold[s] = IF s = {} THEN <<>> ELSE fold[s \ {Max(s)}] \o logs(Max(s))
  <2>1. \A s \in SUBSET D : fold[s] \in LogSeqs
    <3> HIDE DEF Folds
    <3> QED  BY <1>6, <1>8
  <2>2. ASSUME NEW s \in SUBSET D
        PROVE  fold[s] = IF s = {} THEN <<>> ELSE fold[s \ {Max(s)}] \o logs(Max(s))
    BY <1>8
  <2> QED  BY <2>1, <2>2
<1> QED  BY <1>1, <1>9 DEF D, logs

LEMMA LogsOfTypes ==
  ASSUME NEW receipts \in Seq(ReceiptSet)
  PROVE  LogsOf(receipts) \in LogSeqs
BY LogsOfIs

-----------------------------------------------------------------------------
(* Checking tokens                                                         *)

TokenTable == [Tokens -> {0, 1}]

\* What checkTokenExists leaves: a row for each token it kept a transfer of, and no second
\* one for any.
FoundSet(known, logs, monitored) ==
  {f \in [tokens : TokenTable, ok : BOOLEAN, kept : SUBSET Monitored(logs, monitored)] :
     /\ \A t \in Tokens : known[t] = 1 => f.tokens[t] = 1
     /\ \A i \in f.kept : f.tokens[logs[i].contract] = 1}

LEMMA CheckTokenFinds ==
  ASSUME NEW known \in TokenTable, NEW logs \in LogSeqs, NEW monitored,
         NEW found \in FoundSet(known, logs, monitored),
         NEW i \in Monitored(logs, monitored), NEW fails \in BOOLEAN
  PROVE  LET f == CheckToken(found, logs[i].contract, fails)
         IN /\ f \in FoundSet(known, logs, monitored)
            /\ f.ok => [f EXCEPT !.kept = @ \cup {i}] \in FoundSet(known, logs, monitored)
<1> DEFINE t == logs[i].contract
           more == [found.tokens EXCEPT ![t] = 1]
           f == CheckToken(found, t, fails)
<1>1. t \in Tokens
  <2>1. i \in 1 .. Len(logs) /\ logs \in Seq(LogSet) /\ logs[i].event = "Transfer"
    BY DEF LogSeqs, Monitored
  <2>2. logs[i] \in LogSet
    BY <2>1, ElementOfSeq
  <2> QED  BY <2>1, <2>2 DEF LogSet
<1>2. /\ found.tokens \in TokenTable /\ found.tokens[t] \in {0, 1} /\ found.ok \in BOOLEAN
      /\ found.kept \subseteq Monitored(logs, monitored)
      /\ \A s \in Tokens : known[s] = 1 => found.tokens[s] = 1
      /\ \A j \in found.kept : found.tokens[logs[j].contract] = 1
      /\ found = [tokens |-> found.tokens, ok |-> found.ok, kept |-> found.kept]
  BY <1>1 DEF FoundSet, TokenTable
<1>3. \E table \in TokenTable, ok \in BOOLEAN :
        /\ f = [tokens |-> table, ok |-> ok, kept |-> found.kept]
        /\ ok => table[t] = 1
        /\ \A s \in Tokens : found.tokens[s] = 1 => table[s] = 1
        /\ \A j \in found.kept : table[logs[j].contract] = 1
  <2>1. CASE found.tokens[t] > 0
    <3>1. f = [tokens |-> found.tokens, ok |-> TRUE, kept |-> found.kept]
      BY <1>2, <2>1 DEF CheckToken
    <3>2. found.tokens[t] = 1
      BY <1>2, <2>1
    <3> HIDE DEF f
    <3> QED  BY <1>2, <3>1, <3>2
  <2>2. CASE ~(found.tokens[t] > 0) /\ fails
    <3>1. f = [tokens |-> found.tokens, ok |-> FALSE, kept |-> found.kept]
      BY <1>2, <2>2 DEF CheckToken
    <3> HIDE DEF f
    <3> QED  BY <1>2, <3>1
  <2>3. CASE ~(found.tokens[t] > 0) /\ ~fails
    <3>1. f = [tokens |-> more, ok |-> TRUE, kept |-> found.kept]
      BY <1>2, <2>3 DEF CheckToken
    <3>2. more \in TokenTable /\ more[t] = 1
      BY <1>1, <1>2 DEF TokenTable
    <3>3. \A s \in Tokens : found.tokens[s] = 1 => more[s] = 1
      BY <1>1, <1>2 DEF TokenTable
    <3>4. \A j \in found.kept : more[logs[j].contract] = 1
      BY <1>1, <1>2 DEF TokenTable
    <3> HIDE DEF more, f
    <3> QED  BY <3>1, <3>2, <3>3, <3>4
  <2> QED  BY <2>1, <2>2, <2>3
<1> HIDE DEF f
<1>4. PICK table \in TokenTable, ok \in BOOLEAN :
        /\ f = [tokens |-> table, ok |-> ok, kept |-> found.kept]
        /\ ok => table[t] = 1
        /\ \A s \in Tokens : found.tokens[s] = 1 => table[s] = 1
        /\ \A j \in found.kept : table[logs[j].contract] = 1
  BY <1>3
<1>5. f \in FoundSet(known, logs, monitored)
  BY <1>2, <1>4 DEF FoundSet
<1>6. ASSUME f.ok PROVE [f EXCEPT !.kept = @ \cup {i}] \in FoundSet(known, logs, monitored)
  <2>1. [f EXCEPT !.kept = @ \cup {i}]
          = [tokens |-> table, ok |-> ok, kept |-> found.kept \cup {i}]
    <3> DEFINE r == [tokens |-> table, ok |-> ok, kept |-> found.kept]
    <3>1. [r EXCEPT !.kept = @ \cup {i}]
            = [tokens |-> table, ok |-> ok, kept |-> found.kept \cup {i}]
      OBVIOUS
    <3>2. f = r
      BY <1>4
    <3> HIDE DEF r
    <3> QED  BY <3>1, <3>2
  <2>2. \A j \in found.kept \cup {i} : table[logs[j].contract] = 1
    BY <1>4, <1>6
  <2> QED  BY <1>2, <1>4, <2>1, <2>2 DEF FoundSet
<1>7. f = CheckToken(found, logs[i].contract, fails)
  BY DEF f
<1> HIDE DEF t
<1> QED  BY <1>5, <1>6, <1>7

LEMMA CheckedFinds ==
  ASSUME NEW known \in TokenTable, NEW logs \in LogSeqs, NEW monitored, NEW down
  PROVE  Checked(known, logs, monitored, down) \in FoundSet(known, logs, monitored)
<1> DEFINE D == DOMAIN logs
           V == FoundSet(known, logs, monitored)
           base == [tokens |-> known, ok |-> TRUE, kept |-> {}]
           Next1(found, i) == LET f == CheckToken(found, logs[i].contract, i \in down)
                              IN IF i \notin Monitored(logs, monitored) THEN found
                                 ELSE IF f.ok THEN [f EXCEPT !.kept = @ \cup {i}] ELSE f
           pick == [s \in SUBSET D |-> Max(s)]
           step == [i \in D |-> [v \in V |-> Next1(v, i)]]
           index == [i \in DOMAIN logs |-> i]
           Folds(g) == g = [s \in SUBSET DOMAIN index |->
                              IF s = {} THEN base ELSE Next1(g[s \ {Max(s)}], index[Max(s)])]
           fold == CHOOSE g : Folds(g)
<1>1. Checked(known, logs, monitored, down) = fold[DOMAIN index]
  BY DEF Checked, FoldLeftDomain, FoldLeft, MapThenFoldSet
<1>2. IsFiniteSet(D) /\ D \subseteq Int
  <2>1. D = 1 .. Len(logs) /\ Len(logs) \in Nat
    BY LenProperties DEF LogSeqs
  <2> QED  BY <2>1, FS_Interval
<1>3. \A s \in SUBSET D : s # {} => Max(s) \in s /\ pick[s] = Max(s) /\ pick[s] \in s
  BY <1>2, MaxIsIn, FS_Subset
<1>4. base \in V
  BY DEF FoundSet
<1>5. ASSUME NEW v \in V, NEW i \in D
      PROVE  Next1(v, i) \in V /\ step[i][v] = Next1(v, i) /\ step[i][v] \in V
  <2>1. Next1(v, i) \in V
    <3>1. CASE i \in Monitored(logs, monitored)
      <4>1. (i \in down) \in BOOLEAN
        OBVIOUS
      <4> QED  BY <3>1, <4>1, CheckTokenFinds
    <3>2. CASE i \notin Monitored(logs, monitored)
      BY <3>2
    <3> QED  BY <3>1, <3>2
  <2> HIDE DEF Next1, V
  <2> QED  BY <2>1
<1>d. DOMAIN index = D /\ \A i \in D : index[i] = i
  OBVIOUS
<1> HIDE DEF D, V, base, Next1, step, index
<1>6. ASSUME NEW g, Folds(g) PROVE \A s \in SUBSET D : g[s] \in V
  <2>1. g[{}] \in V
    BY <1>4, <1>6
  <2>2. ASSUME NEW s \in SUBSET D, s # {}, g[s \ {pick[s]}] \in V PROVE g[s] \in V
    <3>1. g[s] = Next1(g[s \ {Max(s)}], Max(s))
      BY <1>3, <1>d, <1>6, <2>2
    <3> HIDE DEF pick
    <3>2. Max(s) \in D /\ g[s \ {Max(s)}] \in V
      BY <1>3, <2>2
    <3> QED  BY <1>5, <3>1, <3>2
  <2> HIDE DEF pick, Folds
  <2> QED  BY <1>2, <1>3, <2>1, <2>2, BySteps
<1>7. \E g : Folds(g)
  <2>1. PICK g : IsFold(pick, step, base, g, D)
    <3> HIDE DEF pick
    <3> QED  BY <1>2, <1>3, FoldsExist
  <2>2. \A s \in SUBSET D : g[s] \in V
    <3>1. g[{}] \in V
      BY <1>4, <2>1 DEF IsFold
    <3>2. ASSUME NEW s \in SUBSET D, s # {}, g[s \ {pick[s]}] \in V PROVE g[s] \in V
      <4>1. g[s] = step[pick[s]][g[s \ {pick[s]}]] /\ pick[s] \in D
        BY <1>3, <2>1, <3>2 DEF IsFold
      <4> HIDE DEF pick
      <4> QED  BY <1>5, <3>2, <4>1
    <3> HIDE DEF pick
    <3> QED  BY <1>2, <1>3, <3>1, <3>2, BySteps
  <2>3. ASSUME NEW s \in SUBSET D
        PROVE  g[s] = IF s = {} THEN base ELSE Next1(g[s \ {Max(s)}], index[Max(s)])
    <3>1. s = {} => g[s] = base
      BY <2>1 DEF IsFold
    <3>2. s # {} => g[s] = step[Max(s)][g[s \ {Max(s)}]] /\ Max(s) \in D
      BY <1>3, <2>1 DEF IsFold
    <3>3. g[s \ {Max(s)}] \in V
      BY <2>2
    <3> QED  BY <1>5, <1>d, <3>1, <3>2, <3>3
  <2>4. g = [s \in SUBSET D |-> g[s]]
    BY <2>1 DEF IsFold
  <2> HIDE DEF pick
  <2>5. Folds(g)
    BY <1>d, <2>3, <2>4
  <2> QED  BY <2>5
<1>8. Folds(fold)
  BY <1>7
<1> HIDE DEF fold, Folds
<1>9. fold[DOMAIN index] \in V
  BY <1>6, <1>8, <1>d
<1> QED  BY <1>1, <1>9 DEF V

-----------------------------------------------------------------------------
(* New blocks and new rows                                                 *)

LEMMA IncludedTypes ==
  ASSUME NEW branch \in Seq(BlockSet), NEW block \in BlockSet, NEW call \in Calls
  PROVE  Included(branch, block, call) \in BlockSet /\ Included(branch, block, call).id = block.id
<1> DEFINE o == Outcome(block.contracts, call)
           before == Cardinality({i \in DOMAIN block.hashes :
                                    block.hashes[i].call.user = call.user})
           hash == [call |-> call, nonce |-> Nonce(branch, call.user) + before]
           receipt == [hash |-> hash, index |-> Len(block.receipts) + 1, logs |-> o.logs]
           hashes == Append(block.hashes, hash)
           receipts == Append(block.receipts, receipt)
<1>1. /\ block.id \in Nat \ {0} /\ block.contracts \in ContractSet
      /\ block.hashes \in Seq(Hashes) /\ block.receipts \in Seq(ReceiptSet)
  BY DEF BlockSet
<1>2. o.c \in ContractSet /\ o.logs \in LogSeqs
  BY <1>1, OutcomeTypes
<1>3. before \in Nat
  <2>1. DOMAIN block.hashes = 1 .. Len(block.hashes) /\ Len(block.hashes) \in Nat
    BY <1>1, LenProperties
  <2>2. IsFiniteSet(DOMAIN block.hashes)
    BY <2>1, FS_Interval
  <2>3. IsFiniteSet({i \in DOMAIN block.hashes : block.hashes[i].call.user = call.user})
    BY <2>2, FS_Subset
  <2> QED  BY <2>3, FS_CardinalityType
<1>4. hash \in Hashes
  <2>1. Nonce(branch, call.user) \in Nat
    BY NonceType
  <2> HIDE DEF before
  <2> QED  BY <1>3, <2>1 DEF Hashes
<1>5. receipt \in ReceiptSet
  <2>1. Len(block.receipts) + 1 \in Nat
    BY <1>1, LenProperties
  <2> HIDE DEF hash, o
  <2> QED  BY <1>2, <1>4, <2>1 DEF ReceiptSet
<1> HIDE DEF hash, receipt
<1>6. hashes \in Seq(Hashes) /\ receipts \in Seq(ReceiptSet)
  BY <1>1, <1>4, <1>5, AppendProperties
<1>7. Included(branch, block, call)
        = [id |-> block.id, contracts |-> o.c, hashes |-> hashes, receipts |-> receipts]
  BY DEF Included, hash, receipt
<1> HIDE DEF hashes, receipts, o
<1> QED  BY <1>1, <1>2, <1>6, <1>7 DEF BlockSet

LEMMA NewContractTypes == NewContracts \in ContractSet
  BY DEF NewContracts, ContractSet

LEMMA BlocksTypes ==
  ASSUME NEW branch \in Seq(BlockSet), mined \in Nat, NEW b \in Blocks(branch)
  PROVE  b \in BlockSet /\ b.id = mined + 1 /\ txs + Len(b.hashes) <= MaxTxs
<1> DEFINE now == Len(branch) + 1
           empty == [id |-> mined + 1, hashes |-> <<>>, receipts |-> <<>>,
                     contracts |-> Contracts(branch, Len(branch))]
           More(block) == {Included(branch, block, c) :
                             c \in {d \in Calls : Accepted(block.contracts, d, now)}}
           ones == More(empty)
<1>1. b \in {empty} \cup ones \cup UNION {More(o) : o \in ones} /\ txs + Len(b.hashes) <= MaxTxs
  BY DEF Blocks
<1>2. empty \in BlockSet /\ empty.id = mined + 1
  <2>1. Contracts(branch, Len(branch)) \in ContractSet
    <3>1. CASE Len(branch) = 0
      BY <3>1, NewContractTypes DEF Contracts
    <3>2. CASE Len(branch) # 0
      <4>1. branch[Len(branch)] \in BlockSet
        BY <3>2, LenProperties, ElementOfSeq
      <4> QED  BY <3>2, <4>1 DEF Contracts, BlockSet
    <3> QED  BY <3>1, <3>2
  <2> QED  BY <2>1 DEF BlockSet
<1> HIDE DEF empty
<1>3. \A o \in ones : o \in BlockSet /\ o.id = mined + 1
  BY <1>2, IncludedTypes
<1>4. \A o \in ones : \A c \in More(o) : c \in BlockSet /\ c.id = mined + 1
  <2> HIDE DEF ones
  <2> QED  BY <1>3, IncludedTypes
<1> QED  BY <1>1, <1>2, <1>3, <1>4

LEMMA RowsFinite ==
  ASSUME NEW h, NEW logs \in LogSeqs, NEW contract, NEW events
  PROVE  IsFiniteSet(DOMAIN logs) /\ IsFiniteSet(Rows(h, logs, contract, events))
<1> DEFINE S == Of(logs, contract, events)
<1>1. DOMAIN logs = 1 .. Len(logs) /\ Len(logs) \in Nat
  BY LenProperties DEF LogSeqs
<1>2. IsFiniteSet(DOMAIN logs)
  BY <1>1, FS_Interval
<1>3. IsFiniteSet(S)
  BY <1>2, FS_Subset DEF Of
<1>4. [i \in S |-> Row(h, i, logs[i])] \in Surjection(S, Rows(h, logs, contract, events))
  BY DEF Surjection, Rows
<1> QED  BY <1>2, <1>3, <1>4, FS_Surjection

LEMMA NewRowsFinite ==
  ASSUME NEW h, NEW logs \in LogSeqs, NEW kept \in SUBSET DOMAIN logs, NEW t \in DbTables
  PROVE  IsFiniteSet(NewRows(h, logs, kept)[t])
<1>1. CASE t \in {"kek_transfers", "supernova_staking_actions", "supernova_locks",
                  "supernova_delegate_changes"}
  BY <1>1, RowsFinite DEF NewRows, KekRows, StakingRows, LockRows, DelegateChangeRows
<1>2. CASE t = "supernova_delegate_actions"
  <2> DEFINE S == Rows(h, logs, Supernova, {"Delegate"})
             to == DelegateActionRows(h, logs)
  <2>1. [r \in S |-> [r EXCEPT !.type = IF r.to = Zero THEN "STOP" ELSE "START"]]
          \in Surjection(S, to)
    BY DEF Surjection, DelegateActionRows
  <2> HIDE DEF to
  <2>2. IsFiniteSet(to)
    BY <2>1, RowsFinite, FS_Surjection
  <2> QED  BY <1>2, <2>2 DEF NewRows, to
<1>3. CASE t = "yield_farming_actions"
  <2> DEFINE S == Of(logs, Farm, {"Deposit", "Withdraw"})
             to == FarmRows(h, logs)
  <2>1. IsFiniteSet(S)
    BY RowsFinite, FS_Subset DEF Of
  <2>2. [i \in S |-> [block |-> h, index |-> i, type |-> logs[i].event, from |-> logs[i].from,
                      token |-> logs[i].to, amount |-> logs[i].amount]] \in Surjection(S, to)
    BY DEF Surjection, FarmRows
  <2> HIDE DEF S, to
  <2>3. IsFiniteSet(to)
    BY <2>1, <2>2, FS_Surjection
  <2> QED  BY <1>3, <2>3 DEF NewRows, to
<1>4. CASE t = "account_erc20_transfers"
  <2> DEFINE out(i) == [block |-> h, index |-> i, token |-> logs[i].contract,
                        account |-> logs[i].from, counterparty |-> logs[i].to,
                        amount |-> logs[i].amount, direction |-> "OUT"]
             in(i) == [block |-> h, index |-> i, token |-> logs[i].contract,
                       account |-> logs[i].to, counterparty |-> logs[i].from,
                       amount |-> logs[i].amount, direction |-> "IN"]
             pairs == {{out(i), in(i)} : i \in kept}
  <2>1. IsFiniteSet(kept)
    BY RowsFinite, FS_Subset
  <2>2. NewRows(h, logs, kept)[t] = UNION pairs
    BY <1>4 DEF NewRows, TransferRows
  <2> HIDE DEF out, in
  <2>3. [i \in kept |-> {out(i), in(i)}] \in Surjection(kept, pairs)
    BY DEF Surjection
  <2>4. \A p \in pairs : IsFiniteSet(p)
    <3> TAKE p \in pairs
    <3> PICK i \in kept : p = {out(i), in(i)}
      OBVIOUS
    <3>1. IsFiniteSet({out(i)}) /\ IsFiniteSet({in(i)})
      BY FS_Singleton
    <3>2. p = {out(i)} \cup {in(i)}
      OBVIOUS
    <3>3. IsFiniteSet({out(i)} \cup {in(i)})
      BY <3>1, FS_Union
    <3> QED  BY <3>2, <3>3, Zenon
  <2> HIDE DEF pairs
  <2> QED  BY <2>1, <2>2, <2>3, <2>4, FS_Surjection, FS_UNION
<1>5. CASE t = "notifications"
  <2> DEFINE S == {q \in Rows(h, logs, Supernova, {"DelegatedPowerIncreased"}) : q.after = q.amount}
             to == DelegateStartRows(h, logs)
  <2>1. IsFiniteSet(S)
    BY RowsFinite, FS_Subset
  <2>2. [r \in S |-> DelegateNotif(r)] \in Surjection(S, to)
    BY DEF Surjection, DelegateStartRows
  <2> HIDE DEF S, to
  <2>3. IsFiniteSet(to)
    BY <2>1, <2>2, FS_Surjection
  <2> QED  BY <1>5, <2>3 DEF NewRows, to
<1> QED  BY <1>1, <1>2, <1>3, <1>4, <1>5 DEF DbTables

-----------------------------------------------------------------------------
(* The inductive invariant                                                 *)

Checkable == DbTables \ {"account_erc20_transfers"}

RowsAt(t, h) == {r \in db[t] : r.block = h}
RowsOf(t, h, block) == NewRows(h, LogsOf(block.receipts), {})[t]

Stored == BlockSet \cup {NoBlock}

NodeTypes ==
  /\ chain \in Seq(BlockSet) /\ Len(chain) <= MaxHeight
  /\ mined \in 0 .. MaxBlocks /\ txs \in Nat /\ txs <= MaxTxs
  /\ \A h \in DOMAIN chain : chain[h].id <= mined

TableTypes ==
  /\ blocks \in [Heights -> Stored] /\ \A h \in Heights : blocks[h].id <= mined
  /\ DOMAIN db = DbTables
  /\ \A t \in DbTables : IsFiniteSet(db[t]) /\ \A r \in db[t] : r.block \in Heights
  /\ faults \in 0 .. MaxFaults /\ lost \subseteq [id : 1 .. mined, token : Tokens]

TaskTypes ==
  /\ pc \in {"idle", "receipts", "check", "store"}
  /\ (pc = "idle") = (raw = NoData)
  /\ raw \in [height : Heights \cup {0}, block : Stored, asked : SUBSET Int,
              receipts : SUBSET ReceiptSet, failed : BOOLEAN]
  /\ raw.block.id <= mined /\ raw.asked \subseteq DOMAIN raw.block.hashes
  /\ pc # "idle" => raw.height \in Heights /\ raw.block \in BlockSet

\* What Validate let through: the receipts of the block itself.
RawInv == pc \in {"check", "store"} => Receipts = raw.block.receipts

\* In `store` the height of the block is free.
FreeInv == pc = "store" => blocks[raw.height] = NoBlock

TablesInv ==
  \A h \in Heights : \A t \in Checkable :
    RowsAt(t, h) = IF blocks[h] = NoBlock THEN {} ELSE RowsOf(t, h, blocks[h])

\* Transfers are only kept of tokens that have their one row.
TokensInv ==
  /\ tokens \in TokenTable
  /\ \A r \in db.account_erc20_transfers : r.token \in Tokens /\ tokens[r.token] = 1

IInv == NodeTypes /\ TableTypes /\ TaskTypes /\ RawInv /\ FreeInv /\ TablesInv /\ TokensInv

LEMMA RowNumber ==
  ASSUME NEW h, NEW logs, NEW contract, NEW events, NEW r \in Rows(h, logs, contract, events)
  PROVE  r.block = h
  BY DEF Rows, Row

LEMMA NewRowsNumber ==
  ASSUME NEW h, NEW logs, NEW kept, NEW t \in DbTables, NEW r \in NewRows(h, logs, kept)[t]
  PROVE  r.block = h
<1>1. CASE t = "kek_transfers"
  BY <1>1, RowNumber DEF NewRows, KekRows
<1>2. CASE t = "supernova_staking_actions"
  BY <1>2, RowNumber DEF NewRows, StakingRows
<1>3. CASE t = "supernova_locks"
  BY <1>3, RowNumber DEF NewRows, LockRows
<1>4. CASE t = "supernova_delegate_actions"
  <2>1. PICK q \in Rows(h, logs, Supernova, {"Delegate"}) :
          r = [q EXCEPT !.type = IF q.to = Zero THEN "STOP" ELSE "START"]
    BY <1>4 DEF NewRows, DelegateActionRows
  <2>2. PICK i \in Of(logs, Supernova, {"Delegate"}) : q = Row(h, i, logs[i])
    BY DEF Rows
  <2> QED  BY <2>1, <2>2 DEF Row
<1>5. CASE t = "supernova_delegate_changes"
  BY <1>5, RowNumber DEF NewRows, DelegateChangeRows
<1>6. CASE t = "yield_farming_actions"
  BY <1>6 DEF NewRows, FarmRows
<1>7. CASE t = "account_erc20_transfers"
  <2>1. r \in TransferRows(h, logs, kept)
    BY <1>7 DEF NewRows
  <2> QED  BY <2>1 DEF TransferRows
<1>8. CASE t = "notifications"
  BY <1>8 DEF NewRows, DelegateStartRows, DelegateNotif, Rows, Row
<1> QED  BY <1>1, <1>2, <1>3, <1>4, <1>5, <1>6, <1>7, <1>8 DEF DbTables

\* Which transfers were kept concerns their own table only.
LEMMA NewRowsKept ==
  ASSUME NEW h, NEW logs, NEW kept, NEW t \in Checkable
  PROVE  NewRows(h, logs, kept)[t] = NewRows(h, logs, {})[t]
  BY DEF NewRows, Checkable, DbTables

LEMMA Bounds == MaxHeight \in Nat /\ MaxBlocks \in Nat /\ MaxTxs \in Nat /\ MaxFaults \in Nat
BY StorablesAssumption

LEMMA InitInv == Init => IInv
<1> SUFFICES ASSUME Init PROVE IInv
  OBVIOUS
<1>1. NodeTypes
  BY Bounds DEF Init, NodeTypes
<1>2. TableTypes
  <2>1. \A t \in DbTables : db[t] = {}
    BY DEF Init
  <2>2. blocks \in [Heights -> Stored] /\ \A h \in Heights : blocks[h].id <= mined
    BY DEF Init, Stored, NoBlock
  <2> QED  BY <2>1, <2>2, Bounds, FS_EmptySet DEF Init, TableTypes
<1>3. TaskTypes
  BY DEF Init, TaskTypes, NoData, NoBlock, Stored
<1>4. RawInv /\ FreeInv /\ TablesInv
  BY DEF Init, RawInv, FreeInv, TablesInv, RowsAt, Checkable
<1>5. TokensInv
  BY DEF Init, TokensInv, TokenTable, DbTables
<1> QED  BY <1>1, <1>2, <1>3, <1>4, <1>5 DEF IInv

LEMMA GrowInv ==
  ASSUME IInv, NEW branch \in Seq(BlockSet), Len(branch) < MaxHeight,
         \A h \in DOMAIN branch : branch[h].id <= mined, Grow(branch)
  PROVE  IInv'
<1> USE DEF IInv
<1>1. PICK b \in Blocks(branch) :
        /\ chain' = Append(branch, b) /\ txs' = txs + Len(b.hashes)
        /\ mined < MaxBlocks /\ mined' = mined + 1
        /\ UNCHANGED <<tables, pc, raw, faults, lost>>
  BY DEF Grow
<1>m. mined \in Nat /\ mined + 1 \in 0 .. MaxBlocks
  BY <1>1, Bounds DEF NodeTypes
<1>2. b \in BlockSet /\ b.id = mined + 1 /\ txs + Len(b.hashes) <= MaxTxs
  BY <1>m, BlocksTypes
<1>3. NodeTypes'
  <2>1. chain' \in Seq(BlockSet) /\ Len(chain') = Len(branch) + 1 /\ Len(branch) \in Nat
    BY <1>1, <1>2, AppendProperties, LenProperties
  <2>2. Len(b.hashes) \in Nat
    BY <1>2, LenProperties DEF BlockSet
  <2>3. \A h \in DOMAIN chain' : chain'[h].id <= mined'
    <3> TAKE h \in DOMAIN chain'
    <3>1. CASE h \in DOMAIN branch
      <4>1. chain'[h] = branch[h] /\ branch[h] \in BlockSet
        BY <1>1, <1>2, <3>1, AppendProperties, ElementOfSeq, LenProperties
      <4>2. branch[h].id \in Nat
        BY <4>1 DEF BlockSet
      <4> QED  BY <1>1, <1>m, <3>1, <4>1, <4>2
    <3>2. CASE h = Len(branch) + 1
      BY <1>1, <1>2, <3>2, AppendProperties
    <3> QED  BY <1>1, <1>2, <2>1, <3>1, <3>2, LenProperties, AppendProperties
  <2>4. txs' \in Nat /\ txs' <= MaxTxs /\ Len(chain') <= MaxHeight
    BY <1>1, <1>2, <2>1, <2>2, Bounds DEF NodeTypes
  <2> QED  BY <1>1, <1>m, <2>1, <2>3, <2>4 DEF NodeTypes
<1>4. \A x \in Stored : x.id \in Nat /\ (x.id <= mined => x.id <= mined')
  BY <1>1, <1>m DEF Stored, BlockSet, NoBlock
<1>5. TableTypes'
  <2>1. UNCHANGED <<blocks, db, faults, lost>>
    BY <1>1 DEF tables
  <2>2. \A h \in Heights : blocks[h].id <= mined'
    BY <1>4 DEF TableTypes
  <2>3. lost \subseteq [id : 1 .. mined', token : Tokens]
    BY <1>1, <1>m DEF TableTypes
  <2> QED  BY <2>1, <2>2, <2>3 DEF TableTypes
<1>6. TaskTypes'
  BY <1>1, <1>4 DEF TaskTypes
<1>7. (RawInv /\ FreeInv /\ TablesInv /\ TokensInv)'
  BY <1>1 DEF tables, RawInv, FreeInv, TablesInv, TokensInv, RowsAt, Receipts
<1> QED  BY <1>3, <1>5, <1>6, <1>7

LEMMA FetchInv == ASSUME IInv, NEW h \in Heights, GetBlock(h) PROVE IInv'
<1> USE DEF IInv
<1>1. /\ h \in DOMAIN chain /\ pc' = "receipts"
      /\ raw' = [NoData EXCEPT !.height = h, !.block = chain[h]]
      /\ UNCHANGED <<node, tables, faults, lost>>
  BY DEF GetBlock
<1>2. chain[h] \in BlockSet /\ chain[h].id <= mined
  BY <1>1, LenProperties, ElementOfSeq DEF NodeTypes
<1>3. raw' = [height |-> h, block |-> chain[h], asked |-> {}, receipts |-> {}, failed |-> FALSE]
  BY <1>1 DEF NoData
<1>4. raw' # NoData
  <2>1. h # 0
    BY DEF Heights
  <2> QED  BY <1>3, <2>1 DEF NoData
<1>5. TaskTypes'
  <2>1. raw' \in [height : Heights \cup {0}, block : Stored, asked : SUBSET Int,
                  receipts : SUBSET ReceiptSet, failed : BOOLEAN]
    BY <1>2, <1>3 DEF Stored
  <2>2. raw'.block.id <= mined' /\ raw'.asked \subseteq DOMAIN raw'.block.hashes
    <3>1. raw'.block = chain[h] /\ raw'.asked = {}
      BY <1>3
    <3>2. mined' = mined
      BY <1>1 DEF node
    <3> QED  BY <1>2, <3>1, <3>2
  <2>3. raw'.height \in Heights /\ raw'.block \in BlockSet
    BY <1>2, <1>3
  <2> QED  BY <1>1, <1>4, <2>1, <2>2, <2>3 DEF TaskTypes
<1>6. (NodeTypes /\ TableTypes /\ TablesInv /\ TokensInv)'
  BY <1>1 DEF node, tables, NodeTypes, TableTypes, TablesInv, TokensInv, RowsAt
<1>7. (RawInv /\ FreeInv)'
  BY <1>1 DEF RawInv, FreeInv
<1> QED  BY <1>5, <1>6, <1>7

LEMMA ReceiptInv == ASSUME IInv, NEW i, GetReceipt(i) PROVE IInv'
<1> USE DEF IInv
<1>1. /\ pc = "receipts" /\ i \in DOMAIN raw.block.hashes
      /\ UNCHANGED <<node, tables, pc, lost>>
  BY DEF GetReceipt
<1>2. Fetched(i) \subseteq ReceiptSet
  <2>1. ASSUME NEW k \in DOMAIN chain PROVE Range(chain[k].receipts) \subseteq ReceiptSet
    <3>1. chain[k] \in BlockSet
      BY LenProperties, ElementOfSeq DEF NodeTypes
    <3>2. chain[k].receipts \in Seq(ReceiptSet)
      BY <3>1 DEF BlockSet
    <3> QED  BY <3>2, LenProperties, ElementOfSeq DEF Range
  <2> QED  BY <2>1 DEF Fetched
<1>3. raw.block \in BlockSet /\ raw.height \in Heights /\ raw # NoData
  BY <1>1 DEF TaskTypes
<1>4. i \in Int
  BY <1>1, <1>3, LenProperties DEF BlockSet
<1>5. \E more \in SUBSET ReceiptSet, failed \in BOOLEAN :
        raw' = [raw EXCEPT !.asked = @ \cup {i}, !.receipts = @ \cup more, !.failed = failed]
      /\ faults' \in 0 .. MaxFaults
  <2>1. CASE /\ faults < MaxFaults /\ faults' = faults + 1
             /\ raw' = [raw EXCEPT !.asked = @ \cup {i}, !.failed = TRUE]
    <3>1. raw' = [raw EXCEPT !.asked = @ \cup {i}, !.receipts = @ \cup {}, !.failed = TRUE]
      BY <2>1 DEF TaskTypes
    <3>2. faults' \in 0 .. MaxFaults
      BY <2>1, Bounds DEF TableTypes
    <3> QED  BY <3>1, <3>2
  <2>2. CASE /\ raw' = [raw EXCEPT !.asked = @ \cup {i}, !.receipts = @ \cup Fetched(i),
                                   !.failed = @ \/ Fetched(i) = {}]
             /\ UNCHANGED faults
    <3>2. faults' \in 0 .. MaxFaults
      BY <2>2 DEF TableTypes
    <3> DEFINE failed == raw.failed \/ Fetched(i) = {}
    <3>3. raw' = [raw EXCEPT !.asked = @ \cup {i}, !.receipts = @ \cup Fetched(i),
                             !.failed = failed]
      BY <2>2
    <3>4. failed \in BOOLEAN
      BY DEF TaskTypes
    <3> HIDE DEF failed
    <3> QED  BY <1>2, <3>2, <3>3, <3>4
  <2> QED  BY <2>1, <2>2 DEF GetReceipt
<1>6. PICK more \in SUBSET ReceiptSet, failed \in BOOLEAN :
        raw' = [raw EXCEPT !.asked = @ \cup {i}, !.receipts = @ \cup more, !.failed = failed]
  BY <1>5
<1>7. /\ raw'.height = raw.height /\ raw'.block = raw.block
      /\ raw'.asked = raw.asked \cup {i}
      /\ raw' \in [height : Heights \cup {0}, block : Stored, asked : SUBSET Int,
                   receipts : SUBSET ReceiptSet, failed : BOOLEAN]
  BY <1>4, <1>6 DEF TaskTypes
<1>8. raw' # NoData
  <2>1. raw.height # 0
    BY <1>3 DEF Heights
  <2> QED  BY <1>7, <2>1 DEF NoData
<1>9. TaskTypes'
  BY <1>1, <1>3, <1>7, <1>8 DEF TaskTypes, node
<1>10. (NodeTypes /\ TableTypes /\ TablesInv /\ TokensInv)'
  BY <1>1, <1>5 DEF node, tables, NodeTypes, TableTypes, TablesInv, TokensInv, RowsAt
<1>11. (RawInv /\ FreeInv)'
  BY <1>1 DEF RawInv, FreeInv
<1> QED  BY <1>9, <1>10, <1>11

LEMMA IdleTypes ==
  ASSUME raw' = NoData, pc' = "idle", mined' \in Nat
  PROVE  (TaskTypes /\ RawInv /\ FreeInv)'
<1>1. raw' \in [height : Heights \cup {0}, block : Stored, asked : SUBSET Int,
                receipts : SUBSET ReceiptSet, failed : BOOLEAN]
  BY DEF NoData, Stored
<1>2. raw'.block.id <= mined' /\ raw'.asked \subseteq DOMAIN raw'.block.hashes
  BY DEF NoData, NoBlock
<1> QED  BY <1>1, <1>2 DEF TaskTypes, RawInv, FreeInv

LEMMA ValidateInv == IInv /\ Validate => IInv'
<1> SUFFICES ASSUME IInv, Validate PROVE IInv'
  OBVIOUS
<1> USE DEF IInv
<1>1. UNCHANGED <<node, tables, faults, lost>> /\ pc = "receipts"
  BY DEF Validate
<1>2. (NodeTypes /\ TableTypes /\ TablesInv /\ TokensInv)'
  BY <1>1 DEF node, tables, NodeTypes, TableTypes, TablesInv, TokensInv, RowsAt
<1>3. CASE pc' = "idle" /\ raw' = NoData
  <2>1. mined' \in Nat
    BY <1>1 DEF node, NodeTypes
  <2> QED  BY <1>2, <1>3, <2>1, IdleTypes
<1>4. CASE pc' = "check" /\ UNCHANGED raw /\ Valid
  <2>1. TaskTypes'
    BY <1>1, <1>4 DEF TaskTypes, node
  <2>2. (RawInv /\ FreeInv)'
    BY <1>4 DEF RawInv, FreeInv, Valid, Receipts
  <2> QED  BY <1>2, <2>1, <2>2
<1> QED  BY <1>3, <1>4 DEF Validate

LEMMA StoreFailsInv == IInv /\ StoreFails => IInv'
<1> SUFFICES ASSUME IInv, StoreFails PROVE IInv'
  OBVIOUS
<1> USE DEF IInv
<1>1. /\ UNCHANGED <<node, tables, lost>> /\ pc' = "idle" /\ raw' = NoData
      /\ faults < MaxFaults /\ faults' = faults + 1
  BY DEF StoreFails
<1>2. faults' \in 0 .. MaxFaults /\ mined' \in Nat
  BY <1>1, Bounds DEF TableTypes, NodeTypes, node
<1>3. (NodeTypes /\ TableTypes /\ TablesInv /\ TokensInv)'
  BY <1>1, <1>2 DEF node, tables, NodeTypes, TableTypes, TablesInv, TokensInv, RowsAt
<1> QED  BY <1>1, <1>2, <1>3, IdleTypes

LEMMA CheckInv == IInv /\ Check => IInv'
<1> SUFFICES ASSUME IInv, Check PROVE IInv'
  OBVIOUS
<1> USE DEF IInv
<1>1. CASE \E k \in Heights : blocks[k].id = raw.block.id
  <2>1. UNCHANGED <<node, tables, faults, lost>> /\ pc' = "idle" /\ raw' = NoData
    BY <1>1 DEF Check
  <2>2. (NodeTypes /\ TableTypes /\ TablesInv /\ TokensInv)'
    BY <2>1 DEF node, tables, NodeTypes, TableTypes, TablesInv, TokensInv, RowsAt
  <2>3. mined' \in Nat
    BY <2>1 DEF node, NodeTypes
  <2> QED  BY <2>1, <2>2, <2>3, IdleTypes
<1>2. CASE ~ \E k \in Heights : blocks[k].id = raw.block.id
  <2> PICK h \in Heights : h = raw.height
    BY DEF Check, TaskTypes
  <2>1. /\ pc' = "store" /\ pc = "check" /\ UNCHANGED <<raw, node, tokens, faults, lost>>
        /\ blocks' = [blocks EXCEPT ![h] = NoBlock]
        /\ db' = IF blocks[h] = NoBlock THEN db ELSE DeleteBlock(h)
    BY <1>2 DEF Check
  <2>2. /\ blocks' \in [Heights -> Stored] /\ blocks'[h] = NoBlock
        /\ \A k \in Heights : k # h => blocks'[k] = blocks[k]
    BY <2>1 DEF TableTypes, Stored
  <2>3. DOMAIN db' = DbTables /\ \A t \in DbTables : db'[t] \subseteq db[t]
    BY <2>1 DEF TableTypes, DeleteBlock
  <2>4. TableTypes'
    <3>1. \A k \in Heights : blocks'[k].id <= mined'
      BY <2>1, <2>2 DEF TableTypes, NodeTypes, node, NoBlock
    <3>2. \A t \in DbTables : IsFiniteSet(db'[t]) /\ \A r \in db'[t] : r.block \in Heights
      BY <2>3, FS_Subset DEF TableTypes
    <3> QED  BY <2>1, <2>2, <2>3, <3>1, <3>2 DEF TableTypes, node
  <2>5. (NodeTypes /\ TaskTypes)'
    BY <2>1 DEF NodeTypes, TaskTypes, node
  <2>6. (RawInv /\ FreeInv)'
    BY <2>1, <2>2 DEF RawInv, FreeInv, Receipts
  <2>7. ASSUME NEW t \in Checkable PROVE RowsAt(t, h)' = {}
    BY <2>1 DEF TablesInv, TableTypes, RowsAt, DeleteBlock, Checkable
  <2>8. ASSUME NEW t \in Checkable, NEW k \in Heights, k # h PROVE RowsAt(t, k)' = RowsAt(t, k)
    BY <2>1, <2>8 DEF TableTypes, RowsAt, DeleteBlock, Checkable
  <2>9. TablesInv'
    BY <2>2, <2>7, <2>8 DEF TablesInv, RowsOf
  <2>10. TokensInv'
    BY <2>1, <2>3 DEF TokensInv, DbTables
  <2> QED  BY <2>4, <2>5, <2>6, <2>9, <2>10
<1> QED  BY <1>1, <1>2

LEMMA StoreInv == IInv /\ Store => IInv'
<1> SUFFICES ASSUME IInv, Store PROVE IInv'
  OBVIOUS
<1> USE DEF IInv
<1> PICK h \in Heights : h = raw.height
  BY DEF Store, TaskTypes
<1> PICK logs : logs = LogsOf(Receipts)
  OBVIOUS
<1> DEFINE transfers == Monitored(logs, MonitoredAccounts)
<1>1. PICK down \in SUBSET transfers :
        LET found == Checked(tokens, logs, MonitoredAccounts, down)
            rows == NewRows(h, logs, found.kept)
        IN /\ faults + Cardinality(down) <= MaxFaults
           /\ faults' = faults + Cardinality(down)
           /\ blocks' = [blocks EXCEPT ![h] = raw.block]
           /\ db' = [t \in DOMAIN db |-> db[t] \cup rows[t]]
           /\ tokens' = found.tokens
           /\ lost' = lost \cup {[id |-> raw.block.id, token |-> logs[i].contract] :
                                   i \in transfers \ found.kept}
  BY DEF Store
<1>2. pc = "store" /\ pc' = "idle" /\ raw' = NoData /\ UNCHANGED node
  BY DEF Store
<1>3. blocks[h] = NoBlock /\ Receipts = raw.block.receipts /\ raw.block \in BlockSet
  BY <1>2 DEF TaskTypes, RawInv, FreeInv
<1>4. raw.block # NoBlock /\ raw.block.id \in 1 .. mined
  BY <1>3 DEF NoBlock, BlockSet, TaskTypes, NodeTypes
<1>5. logs \in LogSeqs
  BY <1>3, LogsOfTypes DEF BlockSet
<1> DEFINE found == Checked(tokens, logs, MonitoredAccounts, down)
           rows == NewRows(h, logs, found.kept)
<1>6. found \in FoundSet(tokens, logs, MonitoredAccounts)
  BY <1>5, CheckedFinds DEF TokensInv
<1>7. /\ found.kept \subseteq transfers /\ transfers \subseteq DOMAIN logs
      /\ \A i \in transfers : logs[i].contract \in Tokens
      /\ found.tokens \in TokenTable
      /\ \A t \in Tokens : tokens[t] = 1 => found.tokens[t] = 1
      /\ \A i \in found.kept : found.tokens[logs[i].contract] = 1
  <2>1. \A i \in DOMAIN logs : logs[i] \in LogSet
    BY <1>5, LenProperties, ElementOfSeq DEF LogSeqs
  <2>2. transfers \subseteq DOMAIN logs /\ \A i \in transfers : logs[i].contract \in Tokens
    BY <2>1 DEF Monitored, LogSet
  <2> HIDE DEF transfers, found
  <2> QED  BY <1>6, <2>2 DEF FoundSet, transfers
<1>8. /\ blocks' = [blocks EXCEPT ![h] = raw.block]
      /\ db' = [t \in DOMAIN db |-> db[t] \cup rows[t]]
      /\ tokens' = found.tokens
      /\ lost' = lost \cup {[id |-> raw.block.id, token |-> logs[i].contract] :
                              i \in transfers \ found.kept}
  BY <1>1
<1>9. faults' \in 0 .. MaxFaults
  <2>1. IsFiniteSet(down)
    BY <1>5, <1>7, RowsFinite, FS_Subset
  <2>2. Cardinality(down) \in Nat
    BY <2>1, FS_CardinalityType
  <2> QED  BY <1>1, <2>2, Bounds DEF TableTypes
<1> HIDE DEF found, transfers
<1>10. /\ blocks' \in [Heights -> Stored] /\ blocks'[h] = raw.block
       /\ \A k \in Heights : k # h => blocks'[k] = blocks[k]
  BY <1>3, <1>8 DEF TableTypes, Stored
<1>11. /\ DOMAIN db' = DbTables
       /\ \A t \in DbTables : db'[t] = db[t] \cup rows[t]
  BY <1>8 DEF TableTypes
<1>12. ASSUME NEW t \in DbTables
       PROVE  IsFiniteSet(rows[t]) /\ \A r \in rows[t] : r.block = h
  <2>1. found.kept \in SUBSET DOMAIN logs
    BY <1>7
  <2> QED  BY <1>5, <2>1, NewRowsFinite, NewRowsNumber
<1>13. TableTypes'
  <2>1. \A k \in Heights : blocks'[k].id <= mined'
    BY <1>2, <1>4, <1>10 DEF TableTypes, NodeTypes, node
  <2>2. ASSUME NEW t \in DbTables
        PROVE  IsFiniteSet(db'[t]) /\ \A r \in db'[t] : r.block \in Heights
    <3> HIDE DEF rows
    <3>1. IsFiniteSet(db[t]) /\ IsFiniteSet(rows[t])
      BY <1>12 DEF TableTypes
    <3>2. IsFiniteSet(db[t] \cup rows[t])
      BY <3>1, FS_Union
    <3>3. \A r \in db[t] \cup rows[t] : r.block \in Heights
      BY <1>12 DEF TableTypes
    <3> QED  BY <1>11, <3>2, <3>3, Zenon
  <2>3. lost' \subseteq [id : 1 .. mined', token : Tokens]
    BY <1>2, <1>4, <1>7, <1>8 DEF TableTypes, node
  <2> QED  BY <1>9, <1>10, <1>11, <2>1, <2>2, <2>3 DEF TableTypes
<1>14. NodeTypes' /\ mined' \in Nat
  BY <1>2 DEF NodeTypes, node
<1>15. TokensInv'
  <2>1. ASSUME NEW r \in rows.account_erc20_transfers
        PROVE  r.token \in Tokens /\ found.tokens[r.token] = 1
    <3>1. r \in TransferRows(h, logs, found.kept)
      BY DEF NewRows
    <3>2. PICK i \in found.kept : r.token = logs[i].contract
      BY <3>1 DEF TransferRows
    <3> QED  BY <1>7, <3>2
  <2>2. db'.account_erc20_transfers = db.account_erc20_transfers \cup rows.account_erc20_transfers
    BY <1>11 DEF DbTables
  <2> HIDE DEF rows
  <2> QED  BY <1>7, <1>8, <2>1, <2>2 DEF TokensInv
<1>16. ASSUME NEW t \in Checkable PROVE rows[t] = RowsOf(t, h, raw.block)
  BY <1>3, NewRowsKept DEF RowsOf
<1>17. ASSUME NEW t \in Checkable PROVE RowsAt(t, h)' = RowsOf(t, h, raw.block)
  <2>1. RowsAt(t, h) = {}
    BY <1>3 DEF TablesInv
  <2> HIDE DEF rows
  <2>2. RowsAt(t, h)' = rows[t]
    BY <1>11, <1>12, <2>1 DEF RowsAt, Checkable
  <2> QED  BY <1>16, <2>2
<1>18. ASSUME NEW t \in Checkable, NEW k \in Heights, k # h PROVE RowsAt(t, k)' = RowsAt(t, k)
  <2> HIDE DEF rows
  <2> QED  BY <1>11, <1>12, <1>18 DEF RowsAt, Checkable
<1>19. TablesInv'
  BY <1>4, <1>10, <1>17, <1>18 DEF TablesInv, RowsOf
<1> QED  BY <1>2, <1>13, <1>14, <1>15, <1>19, IdleTypes

LEMMA StepInv == IInv /\ [Next]_vars => IInv'
<1> SUFFICES ASSUME IInv, [Next]_vars PROVE IInv'
  OBVIOUS
<1>n. chain \in Seq(BlockSet) /\ Len(chain) \in Nat /\ DOMAIN chain = 1 .. Len(chain)
      /\ \A h \in DOMAIN chain : chain[h].id <= mined
  BY LenProperties DEF IInv, NodeTypes
<1>1. CASE Mine
  <2>1. Len(chain) < MaxHeight /\ Grow(chain)
    BY <1>1 DEF Mine
  <2> QED  BY <1>n, <2>1, GrowInv
<1>2. CASE Switch
  <2>1. chain # <<>> /\ Grow(Front(chain))
    BY <1>2 DEF Switch
  <2> DEFINE branch == Front(chain)
  <2>2. branch = [i \in 1 .. Len(chain) - 1 |-> chain[i]] /\ Len(chain) >= 1
    <3>1. branch = SubSeq(chain, 1, Len(chain) - 1) /\ Len(chain) >= 1
      BY <1>n, <2>1 DEF Front
    <3> HIDE DEF branch
    <3> QED  BY <1>n, <3>1
  <2> HIDE DEF branch
  <2>3. /\ branch \in Seq(BlockSet) /\ Len(branch) = Len(chain) - 1
        /\ DOMAIN branch = 1 .. Len(chain) - 1
    <3>1. \A i \in 1 .. Len(chain) - 1 : chain[i] \in BlockSet
      BY <1>n, ElementOfSeq
    <3>2. Len(chain) - 1 \in Nat
      BY <1>n, <2>2
    <3>3. branch \in Seq(BlockSet)
      BY <2>2, <3>1, <3>2, SeqDef
    <3>4. /\ DOMAIN branch = 1 .. Len(chain) - 1
          /\ DOMAIN branch = 1 .. Len(branch) /\ Len(branch) \in Nat
      BY <2>2, <3>3, LenProperties
    <3> QED  BY <3>2, <3>3, <3>4
  <2>4. \A h \in DOMAIN branch : branch[h].id <= mined
    BY <1>n, <2>2, <2>3
  <2>5. Len(branch) < MaxHeight
    BY <1>n, <2>3, Bounds DEF IInv, NodeTypes
  <2>6. Grow(branch)
    BY <2>1 DEF branch
  <2> QED  BY <2>3, <2>4, <2>5, <2>6, GrowInv
<1>3. CASE \E h \in Heights : GetBlock(h)
  BY <1>3, FetchInv
<1>4. CASE \E i \in DOMAIN raw.block.hashes : GetReceipt(i)
  BY <1>4, ReceiptInv
<1>5. CASE UNCHANGED vars
  BY <1>5 DEF vars, node, tables, IInv, NodeTypes, TableTypes, TaskTypes, RawInv, FreeInv,
              TablesInv, TokensInv, RowsAt, Receipts
<1> QED  BY <1>1, <1>2, <1>3, <1>4, <1>5, ValidateInv, CheckInv, StoreInv, StoreFailsInv DEF Next

LEMMA Invariance == Spec => []IInv
BY InitInv, StepInv, PTL DEF Spec

-----------------------------------------------------------------------------
(* Theorems: rows, types and lists                                         *)

\* Whatever the node switched to between the requests for a block and for its receipts, and
\* whatever failed, every table but that of the transfers holds of each height the rows of
\* the block stored there, all of them and no others (scraper, validator, processor.Store).
THEOREM RowsAreOfTheirBlock == Spec => []RowsMatchBlock
<1>1. IInv => RowsMatchBlock
  BY DEF IInv, TablesInv, RowsMatchBlock, RowsAt, RowsOf, Checkable
<1> QED  BY <1>1, Invariance, PTL

\* The types of the node's branch, of the tables and of the consumer's data, and the bounds.
THEOREM TypeCorrect == Spec => []TypeOK
<1>1. IInv => TypeOK
  <2> SUFFICES ASSUME IInv PROVE TypeOK
    OBVIOUS
  <2> USE DEF IInv
  <2>1. \A h \in DOMAIN chain :
          /\ chain[h].id \in 1 .. mined
          /\ \A i \in DOMAIN chain[h].hashes :
               chain[h].hashes[i].call \in Calls /\ chain[h].hashes[i].nonce \in Nat
    <3> TAKE h \in DOMAIN chain
    <3>1. chain[h] \in BlockSet /\ chain[h].id <= mined /\ mined \in Nat
      BY LenProperties, ElementOfSeq DEF NodeTypes
    <3>2. chain[h].id \in Nat \ {0} /\ chain[h].hashes \in Seq(Hashes)
      BY <3>1 DEF BlockSet
    <3>3. \A i \in DOMAIN chain[h].hashes : chain[h].hashes[i] \in Hashes
      BY <3>2, LenProperties, ElementOfSeq
    <3> QED  BY <3>1, <3>2, <3>3 DEF Hashes
  <2>2. Len(chain) <= MaxHeight /\ mined <= MaxBlocks /\ txs <= MaxTxs
    BY Bounds DEF NodeTypes
  <2>3. DOMAIN blocks = Heights /\ \A h \in Heights : blocks[h].id \in 0 .. mined
    <3>1. \A b \in Stored : b.id \in Nat
      BY DEF Stored, NoBlock, BlockSet
    <3>2. mined \in Nat
      BY DEF NodeTypes
    <3> QED  BY <3>1, <3>2 DEF TableTypes
  <2>4. DOMAIN db = DbTables /\ \A t \in DbTables : \A r \in db[t] : r.block \in Heights
    BY DEF TableTypes
  <2>5. tokens \in [Tokens -> Nat]
    BY DEF TokensInv, TokenTable
  <2>6. /\ pc \in {"idle", "receipts", "check", "store"} /\ (pc = "idle") = (raw = NoData)
        /\ raw.height \in Heights \cup {0} /\ raw.asked \subseteq DOMAIN raw.block.hashes
    BY DEF TaskTypes
  <2>7. faults \in 0 .. MaxFaults /\ lost \subseteq [id : 1 .. mined, token : Tokens]
    BY DEF TableTypes
  <2> QED  BY <2>1, <2>2, <2>3, <2>4, <2>5, <2>6, <2>7 DEF TypeOK
<1> QED  BY <1>1, Invariance, PTL

\* The list has one entry for each transfer it shows.
LEMMA ListOfTransfers ==
  ASSUME IInv, NEW filters
  PROVE  Cardinality(TreasuryList(db, tokens, filters)) = TreasuryCount(db, filters)
<1> DEFINE rows == Filtered(db.account_erc20_transfers, filters)
           list == TreasuryList(db, tokens, filters)
<1>1. rows \subseteq db.account_erc20_transfers /\ IsFiniteSet(rows)
  <2>1. IsFiniteSet(db.account_erc20_transfers)
    BY DEF IInv, TableTypes, DbTables
  <2>2. rows \subseteq db.account_erc20_transfers
    BY DEF Filtered
  <2> QED  BY <2>1, <2>2, FS_Subset
<1>2. \A r \in rows : 1 .. tokens[r.token] = {1}
  <2>1. \A r \in rows : tokens[r.token] = 1
    BY <1>1 DEF IInv, TokensInv
  <2>2. 1 .. 1 = {1}
    OBVIOUS
  <2> QED  BY <2>1, <2>2
<1>3. list = {<<r, 1>> : r \in rows}
  <2>1. list = UNION {{<<r, n>> : n \in 1 .. tokens[r.token]} : r \in rows}
    BY DEF TreasuryList
  <2>2. \A r \in rows : {<<r, n>> : n \in 1 .. tokens[r.token]} = {<<r, 1>>}
    BY <1>2
  <2> HIDE DEF rows, list
  <2> QED  BY <2>1, <2>2
<1>4. ExistsBijection(rows, list)
  <2> DEFINE entry == [r \in rows |-> <<r, 1>>]
  <2> HIDE DEF rows, list
  <2>1. entry \in [rows -> list] /\ \A l \in list : \E r \in rows : entry[r] = l
    BY <1>3
  <2>2. \A r, s \in rows : entry[r] = entry[s] => r = s
    OBVIOUS
  <2> HIDE DEF entry
  <2>3. entry \in Bijection(rows, list)
    BY <2>1, <2>2 DEF Bijection, Injection, Surjection, IsInjective
  <2> QED  BY <2>3 DEF ExistsBijection
<1>5. Cardinality(list) = Cardinality(rows)
  <2> HIDE DEF rows, list
  <2> QED  BY <1>1, <1>4, FS_Bijection
<1> QED  BY <1>5 DEF TreasuryCount

\* The treasury's list of transfers joins erc20_tokens and is as long as the count shown with
\* it, under each filter, and the tokens to choose from are those with a transfer: no token
\* ever has a second row and none of a kept transfer lacks its own (checkTokenExists).
THEOREM OneEntryEach == Spec => []ListMatchesCount
<1>1. IInv => ListMatchesCount
  <2> SUFFICES ASSUME IInv PROVE ListMatchesCount
    OBVIOUS
  <2> DEFINE account == [account |-> Treasury]
             rows == Filtered(db.account_erc20_transfers, account)
  <2>1. TreasuryTokens(db, tokens, Treasury) = {r.token : r \in rows}
    <3>1. ASSUME NEW t \in Tokens
          PROVE  Filtered(db.account_erc20_transfers, [account |-> Treasury, token |-> t])
                   = {r \in rows : r.token = t}
      BY DEF Filtered
    <3>2. \A r \in rows : r.token \in Tokens /\ tokens[r.token] = 1
      BY DEF IInv, TokensInv, Filtered
    <3> HIDE DEF rows
    <3> QED  BY <3>1, <3>2 DEF TreasuryTokens
  <2> QED  BY <2>1, ListOfTransfers DEF ListMatchesCount
<1> QED  BY <1>1, Invariance, PTL

-----------------------------------------------------------------------------
(* The staked kek is at the contract                                       *)

StoredLogs(h) == LogsOf(blocks[h].receipts)

\* A row is the log of its index in the block of its height.
LEMMA StoredRows ==
  ASSUME IInv, NEW t \in Checkable, NEW contract, NEW events,
         \A h \in Heights : RowsOf(t, h, blocks[h]) = Rows(h, StoredLogs(h), contract, events)
  PROVE  /\ \A h \in Heights : blocks[h] # NoBlock => StoredLogs(h) \in LogSeqs
         /\ \A r \in db[t] :
              /\ r.block \in Heights /\ blocks[r.block] # NoBlock
              /\ r.index \in Of(StoredLogs(r.block), contract, events)
              /\ r = Row(r.block, r.index, StoredLogs(r.block)[r.index])
         /\ \A h \in Heights : blocks[h] # NoBlock =>
              \A i \in Of(StoredLogs(h), contract, events) : Row(h, i, StoredLogs(h)[i]) \in db[t]
<1>1. ASSUME NEW h \in Heights, blocks[h] # NoBlock PROVE StoredLogs(h) \in LogSeqs
  <2>1. blocks[h].receipts \in Seq(ReceiptSet)
    BY <1>1 DEF IInv, TableTypes, Stored, BlockSet
  <2> QED  BY <2>1, LogsOfTypes DEF StoredLogs
<1>2. ASSUME NEW r \in db[t]
      PROVE  /\ r.block \in Heights /\ blocks[r.block] # NoBlock
             /\ r.index \in Of(StoredLogs(r.block), contract, events)
             /\ r = Row(r.block, r.index, StoredLogs(r.block)[r.index])
  <2>1. r.block \in Heights /\ r \in RowsAt(t, r.block)
    BY DEF IInv, TableTypes, RowsAt, Checkable
  <2>2. blocks[r.block] # NoBlock /\ r \in Rows(r.block, StoredLogs(r.block), contract, events)
    BY <2>1 DEF IInv, TablesInv
  <2>3. PICK i \in Of(StoredLogs(r.block), contract, events) :
          r = Row(r.block, i, StoredLogs(r.block)[i])
    BY <2>2 DEF Rows
  <2>4. r.index = i
    BY <2>3 DEF Row
  <2> QED  BY <2>1, <2>2, <2>3, <2>4
<1>3. ASSUME NEW h \in Heights, blocks[h] # NoBlock, NEW i \in Of(StoredLogs(h), contract, events)
      PROVE  Row(h, i, StoredLogs(h)[i]) \in db[t]
  <2>1. Row(h, i, StoredLogs(h)[i]) \in RowsAt(t, h)
    BY <1>3 DEF IInv, TablesInv, Rows
  <2> QED  BY <2>1 DEF RowsAt
<1> QED  BY <1>1, <1>2, <1>3

\* What the two tables have of the log after or before another.
Transfers == db.kek_transfers
Actions == db.supernova_staking_actions

IsLogged(r) ==
  /\ r.block \in Heights /\ blocks[r.block] # NoBlock
  /\ r.index \in DOMAIN StoredLogs(r.block)
  /\ r = Row(r.block, r.index, StoredLogs(r.block)[r.index])

LEMMA TheTwoTables ==
  ASSUME IInv
  PROVE  /\ \A h \in Heights : blocks[h] # NoBlock => StoredLogs(h) \in LogSeqs
         /\ \A r \in Transfers :
              /\ IsLogged(r)
              /\ StoredLogs(r.block)[r.index].contract = "kek"
              /\ StoredLogs(r.block)[r.index].event = "Transfer"
         /\ \A r \in Actions :
              /\ IsLogged(r)
              /\ StoredLogs(r.block)[r.index].contract = Supernova
              /\ StoredLogs(r.block)[r.index].event \in {"Deposit", "Withdraw"}
         /\ \A h \in Heights : blocks[h] # NoBlock =>
              \A i \in DOMAIN StoredLogs(h) :
                LET l == StoredLogs(h)[i]
                IN /\ l.contract = "kek" /\ l.event = "Transfer" => Row(h, i, l) \in Transfers
                   /\ l.contract = Supernova /\ l.event \in {"Deposit", "Withdraw"}
                        => Row(h, i, l) \in Actions
<1>1. /\ \A h \in Heights : RowsOf("kek_transfers", h, blocks[h])
                              = Rows(h, StoredLogs(h), "kek", {"Transfer"})
      /\ \A h \in Heights : RowsOf("supernova_staking_actions", h, blocks[h])
                              = Rows(h, StoredLogs(h), Supernova, {"Deposit", "Withdraw"})
  BY DEF RowsOf, NewRows, KekRows, StakingRows, StoredLogs
<1>2. "kek_transfers" \in Checkable /\ "supernova_staking_actions" \in Checkable
  BY DEF Checkable, DbTables
<1>3. /\ \A h \in Heights : blocks[h] # NoBlock => StoredLogs(h) \in LogSeqs
      /\ \A r \in Transfers :
           /\ r.block \in Heights /\ blocks[r.block] # NoBlock
           /\ r.index \in Of(StoredLogs(r.block), "kek", {"Transfer"})
           /\ r = Row(r.block, r.index, StoredLogs(r.block)[r.index])
      /\ \A h \in Heights : blocks[h] # NoBlock =>
           \A i \in Of(StoredLogs(h), "kek", {"Transfer"}) :
             Row(h, i, StoredLogs(h)[i]) \in Transfers
  BY <1>1, <1>2, StoredRows DEF Transfers
<1>4. /\ \A r \in Actions :
           /\ r.block \in Heights /\ blocks[r.block] # NoBlock
           /\ r.index \in Of(StoredLogs(r.block), Supernova, {"Deposit", "Withdraw"})
           /\ r = Row(r.block, r.index, StoredLogs(r.block)[r.index])
      /\ \A h \in Heights : blocks[h] # NoBlock =>
           \A i \in Of(StoredLogs(h), Supernova, {"Deposit", "Withdraw"}) :
             Row(h, i, StoredLogs(h)[i]) \in Actions
  BY <1>1, <1>2, StoredRows DEF Actions
<1> QED  BY <1>3, <1>4 DEF Of, IsLogged

\* The row of the log after that of a row.
After(r) == Row(r.block, r.index + 1, StoredLogs(r.block)[r.index + 1])

Ins == {r \in Transfers : r.to = Supernova}
Outs == {r \in Transfers : r.from = Supernova}

LEMMA AfterIsOne ==
  ASSUME IInv, NEW r \in Transfers, NEW q \in Transfers, After(r) = After(q)
  PROVE  r = q
<1>1. IsLogged(r) /\ IsLogged(q)
  BY TheTwoTables
<1>2. r.block = q.block /\ r.index + 1 = q.index + 1
  BY DEF After, Row
<1>3. r.index \in Int /\ q.index \in Int
  BY <1>1, TheTwoTables, LenProperties DEF IsLogged, LogSeqs
<1> QED  BY <1>1, <1>2, <1>3 DEF IsLogged

LEMMA DepositsMatch ==
  ASSUME IInv
  PROVE  /\ \A r \in Ins : /\ After(r) \in OfType(Actions, "Deposit")
                           /\ After(r).from = r.from /\ After(r).amount = r.amount
                           /\ r.amount \in Int
         /\ \A d \in OfType(Actions, "Deposit") : \E r \in Ins : After(r) = d
<1>1. ASSUME NEW r \in Ins
      PROVE  /\ After(r) \in OfType(Actions, "Deposit")
             /\ After(r).from = r.from /\ After(r).amount = r.amount
             /\ r.amount \in Int
  <2> DEFINE logs == StoredLogs(r.block)
             i == r.index
  <2>1. /\ IsLogged(r) /\ logs \in LogSeqs /\ i \in DOMAIN logs
        /\ logs[i].contract = "kek" /\ logs[i].event = "Transfer"
    BY TheTwoTables DEF Ins, IsLogged
  <2>2. /\ logs[i].to = Supernova /\ r.amount = logs[i].amount /\ r.from = logs[i].from
    BY <2>1 DEF Ins, IsLogged, Row
  <2>3. i + 1 \in DOMAIN logs /\ IsDeposit(logs[i], logs[i + 1])
    BY <2>1, <2>2 DEF LogSeqs, Paired, PairedAt, In
  <2>4. After(r) = Row(r.block, i + 1, logs[i + 1])
    BY DEF After
  <2>5. After(r) \in Actions /\ r.block \in Heights /\ blocks[r.block] # NoBlock
    BY <2>1, <2>3, <2>4, TheTwoTables DEF IsDeposit, Action, IsLogged
  <2>6. logs[i].amount \in Int
    <3>1. logs \in Seq(LogSet)
      BY <2>1 DEF LogSeqs
    <3>2. logs[i] \in LogSet
      BY <2>1, <3>1, LenProperties, ElementOfSeq
    <3> QED  BY <3>2 DEF LogSet
  <2> QED  BY <2>2, <2>3, <2>4, <2>5, <2>6 DEF OfType, Row, IsDeposit, Action
<1>2. ASSUME NEW d \in OfType(Actions, "Deposit")
      PROVE  \E r \in Ins : After(r) = d
  <2> DEFINE logs == StoredLogs(d.block)
             j == d.index
             r == Row(d.block, j - 1, logs[j - 1])
  <2>1. d \in Actions /\ d.type = "Deposit"
    BY DEF OfType
  <2>2. /\ IsLogged(d) /\ logs \in LogSeqs /\ j \in DOMAIN logs
        /\ logs[j].contract = Supernova /\ logs[j].event = "Deposit"
    BY <2>1, TheTwoTables DEF IsLogged, Row
  <2>3. j - 1 \in DOMAIN logs /\ IsDeposit(logs[j - 1], logs[j]) /\ j \in Int
    BY <2>2, LenProperties DEF LogSeqs, Paired, PairedAt, Action
  <2>4. r \in Transfers
    BY <2>2, <2>3, TheTwoTables DEF IsLogged, IsDeposit, In
  <2>5. r.to = Supernova
    BY <2>3 DEF Row, IsDeposit, In
  <2>6. After(r) = d
    <3>1. r.block = d.block /\ r.index + 1 = j
      BY <2>3 DEF Row
    <3> HIDE DEF r
    <3> QED  BY <2>2, <3>1 DEF After, IsLogged
  <2> HIDE DEF r
  <2> QED  BY <2>4, <2>5, <2>6 DEF Ins
<1> QED  BY <1>1, <1>2

LEMMA WithdrawalsMatch ==
  ASSUME IInv
  PROVE  /\ \A r \in Outs : /\ After(r) \in OfType(Actions, "Withdraw")
                           /\ After(r).from = r.to /\ After(r).amount = r.amount
                           /\ r.amount \in Int
         /\ \A d \in OfType(Actions, "Withdraw") : \E r \in Outs : After(r) = d
<1>1. ASSUME NEW r \in Outs
      PROVE  /\ After(r) \in OfType(Actions, "Withdraw")
             /\ After(r).from = r.to /\ After(r).amount = r.amount
             /\ r.amount \in Int
  <2> DEFINE logs == StoredLogs(r.block)
             i == r.index
  <2>1. /\ IsLogged(r) /\ logs \in LogSeqs /\ i \in DOMAIN logs
        /\ logs[i].contract = "kek" /\ logs[i].event = "Transfer"
    BY TheTwoTables DEF Outs, IsLogged
  <2>2. /\ logs[i].from = Supernova /\ r.amount = logs[i].amount /\ r.to = logs[i].to
    BY <2>1 DEF Outs, IsLogged, Row
  <2>3. i + 1 \in DOMAIN logs /\ IsWithdraw(logs[i], logs[i + 1])
    BY <2>1, <2>2 DEF LogSeqs, Paired, PairedAt, Out
  <2>4. After(r) = Row(r.block, i + 1, logs[i + 1])
    BY DEF After
  <2>5. After(r) \in Actions /\ r.block \in Heights /\ blocks[r.block] # NoBlock
    BY <2>1, <2>3, <2>4, TheTwoTables DEF IsWithdraw, Action, IsLogged
  <2>6. logs[i].amount \in Int
    <3>1. logs \in Seq(LogSet)
      BY <2>1 DEF LogSeqs
    <3>2. logs[i] \in LogSet
      BY <2>1, <3>1, LenProperties, ElementOfSeq
    <3> QED  BY <3>2 DEF LogSet
  <2> QED  BY <2>2, <2>3, <2>4, <2>5, <2>6 DEF OfType, Row, IsWithdraw, Action
<1>2. ASSUME NEW d \in OfType(Actions, "Withdraw")
      PROVE  \E r \in Outs : After(r) = d
  <2> DEFINE logs == StoredLogs(d.block)
             j == d.index
             r == Row(d.block, j - 1, logs[j - 1])
  <2>1. d \in Actions /\ d.type = "Withdraw"
    BY DEF OfType
  <2>2. /\ IsLogged(d) /\ logs \in LogSeqs /\ j \in DOMAIN logs
        /\ logs[j].contract = Supernova /\ logs[j].event = "Withdraw"
    BY <2>1, TheTwoTables DEF IsLogged, Row
  <2>3. j - 1 \in DOMAIN logs /\ IsWithdraw(logs[j - 1], logs[j]) /\ j \in Int
    BY <2>2, LenProperties DEF LogSeqs, Paired, PairedAt, Action
  <2>4. r \in Transfers
    BY <2>2, <2>3, TheTwoTables DEF IsLogged, IsWithdraw, Out
  <2>5. r.from = Supernova
    BY <2>3 DEF Row, IsWithdraw, Out
  <2>6. After(r) = d
    <3>1. r.block = d.block /\ r.index + 1 = j
      BY <2>3 DEF Row
    <3> HIDE DEF r
    <3> QED  BY <2>2, <3>1 DEF After, IsLogged
  <2> HIDE DEF r
  <2> QED  BY <2>4, <2>5, <2>6 DEF Outs
<1> QED  BY <1>1, <1>2

\* Rows that are matched one to one with rows of the same amount add up to the same.
LEMMA MatchedTotals ==
  ASSUME NEW A, IsFiniteSet(A), NEW B, IsFiniteSet(B), NEW b,
         \A r \in A : b[r] \in B /\ b[r].amount = r.amount /\ r.amount \in Int,
         \A d \in B : \E r \in A : b[r] = d,
         \A r, q \in A : b[r] = b[q] => r = q
  PROVE  Total(A) = Total(B) /\ Total(A) \in Int
<1> DEFINE f == [r \in A |-> r.amount]
           h == [d \in B |-> d.amount]
<1>1. \A r \in A : f[r] = r.amount /\ f[r] \in Int /\ h[b[r]] = f[r]
  OBVIOUS
<1>2. \A d \in B : h[d] = d.amount /\ h[d] \in Int
  OBVIOUS
<1>3. B = {b[r] : r \in A}
  OBVIOUS
<1> HIDE DEF f, h
<1>4. SumOver(h, {b[r] : r \in A}) = SumOver(f, A)
  BY <1>1, SumImage
<1>5. SumOver(f, A) \in Int
  BY <1>1, SumStep
<1>6. Total(A) = SumOver(f, A)
  BY <1>1, TotalIs
<1>7. Total(B) = SumOver(h, B)
  BY <1>2, TotalIs
<1>8. SumOver(h, B) = SumOver(f, A)
  BY <1>3, <1>4, Zenon
<1> QED  BY <1>5, <1>6, <1>7, <1>8

LEMMA TotalUnion ==
  ASSUME NEW A, IsFiniteSet(A), NEW B, IsFiniteSet(B), A \cap B = {},
         \A r \in A \cup B : r.amount \in Int
  PROVE  /\ Total(A \cup B) = Total(A) + Total(B)
         /\ Total(A) \in Int /\ Total(B) \in Int
<1> DEFINE f == [r \in A \cup B |-> r.amount]
<1>1. \A r \in A \cup B : f[r] = r.amount /\ f[r] \in Int
  OBVIOUS
<1>2. IsFiniteSet(A \cup B)
  BY FS_Union
<1> HIDE DEF f
<1>3. Total(A \cup B) = SumOver(f, A \cup B)
  BY <1>1, <1>2, TotalIs
<1>4. Total(A) = SumOver(f, A) /\ Total(B) = SumOver(f, B)
  BY <1>1, TotalIs
<1>5. SumOver(f, A \cup B) = SumOver(f, A) + SumOver(f, B)
  BY <1>1, SumUnion
<1>6. SumOver(f, A) \in Int /\ SumOver(f, B) \in Int
  BY <1>1, SumStep
<1> QED  BY <1>3, <1>4, <1>5, <1>6

LEMMA InsAreDeposits ==
  ASSUME IInv, NEW u
  PROVE  /\ Total(Ins) = Total(OfType(Actions, "Deposit")) /\ Total(Ins) \in Int
         /\ Total({r \in Ins : r.from = u}) = Total({d \in OfType(Actions, "Deposit") : d.from = u})
         /\ Total({r \in Ins : r.from = u}) \in Int
<1> DEFINE D == OfType(Actions, "Deposit")
           b == [r \in Transfers |-> After(r)]
<1>1. IsFiniteSet(Ins) /\ IsFiniteSet(D)
  <2>1. IsFiniteSet(Transfers) /\ IsFiniteSet(Actions)
    BY DEF IInv, TableTypes, DbTables, Transfers, Actions
  <2> QED  BY <2>1, FS_Subset DEF Ins, OfType
<1>2. /\ \A r \in Ins : /\ b[r] \in D /\ b[r].from = r.from /\ b[r].amount = r.amount
                         /\ r.amount \in Int
      /\ \A d \in D : \E r \in Ins : b[r] = d
      /\ \A r, q \in Ins : b[r] = b[q] => r = q
  BY DepositsMatch, AfterIsOne DEF Ins
<1> HIDE DEF D, b
<1>3. Total(Ins) = Total(D) /\ Total(Ins) \in Int
  BY <1>1, <1>2, MatchedTotals
<1> DEFINE A1 == {r \in Ins : r.from = u}
           D1 == {d \in D : d.from = u}
<1>4. IsFiniteSet(A1) /\ IsFiniteSet(D1)
  BY <1>1, FS_Subset
<1>5. /\ \A r \in A1 : b[r] \in D1 /\ b[r].amount = r.amount /\ r.amount \in Int
      /\ \A d \in D1 : \E r \in A1 : b[r] = d
      /\ \A r, q \in A1 : b[r] = b[q] => r = q
  BY <1>2
<1> HIDE DEF A1, D1
<1>6. Total(A1) = Total(D1) /\ Total(A1) \in Int
  BY <1>4, <1>5, MatchedTotals
<1> QED  BY <1>3, <1>6 DEF A1, D1, D

LEMMA OutsAreWithdrawals ==
  ASSUME IInv, NEW u
  PROVE  /\ Total(Outs) = Total(OfType(Actions, "Withdraw")) /\ Total(Outs) \in Int
         /\ Total({r \in Outs : r.to = u}) = Total({d \in OfType(Actions, "Withdraw") : d.from = u})
         /\ Total({r \in Outs : r.to = u}) \in Int
<1> DEFINE D == OfType(Actions, "Withdraw")
           b == [r \in Transfers |-> After(r)]
<1>1. IsFiniteSet(Outs) /\ IsFiniteSet(D)
  <2>1. IsFiniteSet(Transfers) /\ IsFiniteSet(Actions)
    BY DEF IInv, TableTypes, DbTables, Transfers, Actions
  <2> QED  BY <2>1, FS_Subset DEF Outs, OfType
<1>2. /\ \A r \in Outs : /\ b[r] \in D /\ b[r].from = r.to /\ b[r].amount = r.amount
                         /\ r.amount \in Int
      /\ \A d \in D : \E r \in Outs : b[r] = d
      /\ \A r, q \in Outs : b[r] = b[q] => r = q
  BY WithdrawalsMatch, AfterIsOne DEF Outs
<1> HIDE DEF D, b
<1>3. Total(Outs) = Total(D) /\ Total(Outs) \in Int
  BY <1>1, <1>2, MatchedTotals
<1> DEFINE A1 == {r \in Outs : r.to = u}
           D1 == {d \in D : d.from = u}
<1>4. IsFiniteSet(A1) /\ IsFiniteSet(D1)
  BY <1>1, FS_Subset
<1>5. /\ \A r \in A1 : b[r] \in D1 /\ b[r].amount = r.amount /\ r.amount \in Int
      /\ \A d \in D1 : \E r \in A1 : b[r] = d
      /\ \A r, q \in A1 : b[r] = b[q] => r = q
  BY <1>2
<1> HIDE DEF A1, D1
<1>6. Total(A1) = Total(D1) /\ Total(A1) \in Int
  BY <1>4, <1>5, MatchedTotals
<1> QED  BY <1>3, <1>6 DEF A1, D1, D

\* Whom a user's kek came from or went to: the staking contract or others.
LEMMA UsersTransfers ==
  ASSUME IInv, NEW u \in Users
  PROVE  /\ Total({r \in Transfers : r.to = u})
              = Total({r \in NoStaking(Transfers) : r.to = u}) + Total({r \in Outs : r.to = u})
         /\ Total({r \in Transfers : r.from = u})
              = Total({r \in NoStaking(Transfers) : r.from = u}) + Total({r \in Ins : r.from = u})
         /\ Total({r \in NoStaking(Transfers) : r.to = u}) \in Int
         /\ Total({r \in NoStaking(Transfers) : r.from = u}) \in Int
<1>1. u # Supernova
  BY LedgerAssumption
<1>2. IsFiniteSet(Transfers) /\ \A r \in Transfers : r.amount \in Int
  <2>1. IsFiniteSet(Transfers)
    BY DEF IInv, TableTypes, DbTables, Transfers
  <2>2. ASSUME NEW r \in Transfers PROVE r.amount \in Int
    <3>1. IsLogged(r) /\ StoredLogs(r.block) \in LogSeqs
      BY TheTwoTables DEF IsLogged
    <3>2. StoredLogs(r.block)[r.index] \in LogSet
      BY <3>1, LenProperties, ElementOfSeq DEF IsLogged, LogSeqs
    <3>3. r.amount = StoredLogs(r.block)[r.index].amount
      BY <3>1 DEF IsLogged, Row
    <3> QED  BY <3>2, <3>3 DEF LogSet
  <2> QED  BY <2>1, <2>2
<1> DEFINE A == {r \in NoStaking(Transfers) : r.to = u}
           B == {r \in Outs : r.to = u}
           C == {r \in NoStaking(Transfers) : r.from = u}
           E == {r \in Ins : r.from = u}
<1>3. /\ {r \in Transfers : r.to = u} = A \cup B /\ A \cap B = {}
      /\ {r \in Transfers : r.from = u} = C \cup E /\ C \cap E = {}
      /\ A \cup B \subseteq Transfers /\ C \cup E \subseteq Transfers
  BY <1>1 DEF NoStaking, Ins, Outs
<1>4. /\ IsFiniteSet(A) /\ IsFiniteSet(B) /\ IsFiniteSet(C) /\ IsFiniteSet(E)
  <2> HIDE DEF A, B, C, E
  <2> QED  BY <1>2, <1>3, FS_Subset
<1> DEFINE TO == {r \in Transfers : r.to = u}
           FROM == {r \in Transfers : r.from = u}
<1>5. TO = A \cup B /\ FROM = C \cup E
  BY <1>3
<1> HIDE DEF A, B, C, E, TO, FROM
<1>6. Total(A \cup B) = Total(A) + Total(B) /\ Total(A) \in Int
  BY <1>2, <1>3, <1>4, TotalUnion
<1>7. Total(C \cup E) = Total(C) + Total(E) /\ Total(C) \in Int
  BY <1>2, <1>3, <1>4, TotalUnion
<1>8. Total(TO) = Total(A) + Total(B) /\ Total(FROM) = Total(C) + Total(E)
  BY <1>5, <1>6, <1>7, Zenon
<1> QED  BY <1>6, <1>7, <1>8 DEF A, B, C, E, TO, FROM

\* The staked kek, of everybody and of each user, is what the transfers of kek left at the
\* staking contract, also between delete_block and the transaction that stores the new
\* version: the two storables read the same logs and their rows come and go together.
THEOREM StakeIsInTheContract == Spec => []StakedIsHeld
<1>1. IInv => StakedIsHeld
  <2> SUFFICES ASSUME IInv PROVE StakedIsHeld
    OBVIOUS
  <2>1. KekStaked(Actions) = KekBalance(Transfers, Supernova)
    BY InsAreDeposits, OutsAreWithdrawals DEF KekStaked, KekBalance, Ins, Outs
  <2>2. ASSUME NEW u \in Users
        PROVE  KekBalance(NoStaking(Transfers), u)
                 = KekBalance(Transfers, u) + KekStaked({r \in Actions : r.from = u})
    <3>1. /\ OfType({r \in Actions : r.from = u}, "Deposit")
               = {d \in OfType(Actions, "Deposit") : d.from = u}
          /\ OfType({r \in Actions : r.from = u}, "Withdraw")
               = {d \in OfType(Actions, "Withdraw") : d.from = u}
      BY DEF OfType
    <3>2. KekStaked({r \in Actions : r.from = u})
            = Total({r \in Ins : r.from = u}) - Total({r \in Outs : r.to = u})
      <4>1. KekStaked({r \in Actions : r.from = u})
              = Total({d \in OfType(Actions, "Deposit") : d.from = u})
                - Total({d \in OfType(Actions, "Withdraw") : d.from = u})
        BY <3>1, Zenon DEF KekStaked
      <4> QED  BY <4>1, InsAreDeposits, OutsAreWithdrawals
    <3>3. /\ KekBalance(NoStaking(Transfers), u)
               = Total({r \in NoStaking(Transfers) : r.to = u})
                 - Total({r \in NoStaking(Transfers) : r.from = u})
          /\ KekBalance(Transfers, u) = Total({r \in Transfers : r.to = u})
                                        - Total({r \in Transfers : r.from = u})
      BY DEF KekBalance
    <3>4. Total({r \in Ins : r.from = u}) \in Int /\ Total({r \in Outs : r.to = u}) \in Int
      BY InsAreDeposits, OutsAreWithdrawals
    <3> DEFINE to == Total({r \in Transfers : r.to = u})
               from == Total({r \in Transfers : r.from = u})
               in == Total({r \in Ins : r.from = u})
               out == Total({r \in Outs : r.to = u})
               got == Total({r \in NoStaking(Transfers) : r.to = u})
               gave == Total({r \in NoStaking(Transfers) : r.from = u})
    <3>5. to = got + out /\ from = gave + in /\ got \in Int /\ gave \in Int
      BY UsersTransfers
    <3>6. /\ KekBalance(NoStaking(Transfers), u) = got - gave
          /\ KekBalance(Transfers, u) = to - from
          /\ KekStaked({r \in Actions : r.from = u}) = in - out
      BY <3>2, <3>3
    <3>7. in \in Int /\ out \in Int
      BY <3>4
    <3> HIDE DEF to, from, in, out, got, gave
    <3> QED  BY <3>5, <3>6, <3>7
  <2> QED  BY <2>1, <2>2 DEF StakedIsHeld, Transfers, Actions
<1> QED  BY <1>1, Invariance, PTL

-----------------------------------------------------------------------------
(* What logs say of the contracts before and after them                    *)

\* The logs of another receipt come behind the others.
LEMMA LogsOfMore ==
  ASSUME NEW receipts \in Seq(ReceiptSet), NEW receipt \in ReceiptSet
  PROVE  LogsOf(Append(receipts, receipt)) = LogsOf(receipts) \o receipt.logs
<1> DEFINE more == Append(receipts, receipt)
           n == Len(receipts)
           D == DOMAIN receipts
<1>1. /\ n \in Nat /\ D = 1 .. n /\ more \in Seq(ReceiptSet) /\ DOMAIN more = 1 .. n + 1
      /\ \A i \in D : more[i] = receipts[i]
      /\ more[n + 1] = receipt
  BY LenProperties, AppendProperties
<1> HIDE DEF more, n, D
<1>2. PICK g : /\ LogsOf(receipts) = g[D]
               /\ \A s \in SUBSET D :
                    g[s] = IF s = {} THEN <<>> ELSE g[s \ {Max(s)}] \o receipts[Max(s)].logs
  BY LogsOfIs DEF D
<1>3. PICK h : /\ LogsOf(more) = h[DOMAIN more]
               /\ \A s \in SUBSET DOMAIN more :
                    h[s] = IF s = {} THEN <<>> ELSE h[s \ {Max(s)}] \o more[Max(s)].logs
  BY <1>1, LogsOfIs
<1>4. IsFiniteSet(D) /\ D \subseteq Int /\ D \subseteq DOMAIN more
  BY <1>1, FS_Interval
<1>5. \A s \in SUBSET D : g[s] = h[s]
  <2> DEFINE T == {s \in SUBSET D : g[s] # h[s]}
  <2> SUFFICES ASSUME T # {} PROVE FALSE
    OBVIOUS
  <2>1. PICK x \in T : \A y \in SUBSET x : y # x => y \notin T
    <3>1. T \subseteq SUBSET D
      OBVIOUS
    <3> HIDE DEF T
    <3> QED  BY <1>4, <3>1, SmallestSubset
  <2>2. x \in SUBSET D /\ x \in SUBSET DOMAIN more /\ g[x] # h[x]
    BY <1>4
  <2>3. x # {}
    BY <1>2, <1>3, <2>2
  <2>4. Max(x) \in x /\ Max(x) \in D
    BY <1>4, <2>2, <2>3, MaxIsIn, FS_Subset
  <2>5. g[x \ {Max(x)}] = h[x \ {Max(x)}]
    BY <2>1, <2>2, <2>4
  <2>6. g[x] = g[x \ {Max(x)}] \o receipts[Max(x)].logs
    BY <1>2, <2>2, <2>3
  <2>7. h[x] = h[x \ {Max(x)}] \o more[Max(x)].logs
    BY <1>3, <2>2, <2>3
  <2> QED  BY <1>1, <2>2, <2>4, <2>5, <2>6, <2>7
<1>6. DOMAIN more # {} /\ Max(DOMAIN more) = n + 1 /\ DOMAIN more \ {n + 1} = D
  <2>1. IsFiniteSet(DOMAIN more) /\ DOMAIN more \subseteq Int /\ n + 1 \in DOMAIN more
    BY <1>1, FS_Interval
  <2>2. Max(DOMAIN more) \in DOMAIN more /\ \A i \in DOMAIN more : i <= Max(DOMAIN more)
    BY <2>1, MaxIsIn
  <2>3. Max(DOMAIN more) = n + 1
    BY <1>1, <2>1, <2>2
  <2> QED  BY <1>1, <2>1, <2>3
<1>7. h[DOMAIN more] = h[D] \o more[n + 1].logs
  <2>1. h[DOMAIN more] = h[DOMAIN more \ {Max(DOMAIN more)}] \o more[Max(DOMAIN more)].logs
    BY <1>3, <1>6
  <2>2. h[DOMAIN more \ {Max(DOMAIN more)}] = h[D]
    BY <1>6, Zenon
  <2> QED  BY <1>6, <2>1, <2>2
<1> QED  BY <1>1, <1>2, <1>3, <1>5, <1>7 DEF more

LEMMA NoLogs == LogsOf(<<>>) = <<>>
<1>1. <<>> \in Seq(ReceiptSet) /\ DOMAIN <<>> = {}
  OBVIOUS
<1>2. PICK g : /\ LogsOf(<<>>) = g[{}]
               /\ \A s \in SUBSET {} :
                    g[s] = IF s = {} THEN <<>> ELSE g[s \ {Max(s)}] \o <<>>[Max(s)].logs
  BY <1>1, LogsOfIs
<1> QED  BY <1>2

\* The amounts of the logs of a kind, added up.
Picked(logs, kind) == {i \in DOMAIN logs : logs[i] \in kind}
Amounts(logs, kind) == SumOver([i \in DOMAIN logs |-> logs[i].amount], Picked(logs, kind))

LEMMA AmountsAreInt ==
  ASSUME NEW logs \in Seq(LogSet), NEW kind
  PROVE  /\ IsFiniteSet(Picked(logs, kind)) /\ Picked(logs, kind) \subseteq DOMAIN logs
         /\ \A i \in DOMAIN logs : logs[i] \in LogSet /\ logs[i].amount \in Int
         /\ Amounts(logs, kind) \in Int
<1>1. IsFiniteSet(DOMAIN logs)
  BY LenProperties, FS_Interval
<1>2. IsFiniteSet(Picked(logs, kind)) /\ Picked(logs, kind) \subseteq DOMAIN logs
  BY <1>1, FS_Subset DEF Picked
<1>3. \A i \in DOMAIN logs : logs[i] \in LogSet /\ logs[i].amount \in Int
  BY LenProperties, ElementOfSeq DEF LogSet
<1>4. Amounts(logs, kind) \in Int
  <2> DEFINE f == [i \in DOMAIN logs |-> logs[i].amount]
  <2>1. \A i \in Picked(logs, kind) : f[i] \in Int
    BY <1>2, <1>3
  <2> HIDE DEF f
  <2>2. SumOver(f, Picked(logs, kind)) \in Int
    BY <1>2, <2>1, SumStep
  <2> QED  BY <2>2 DEF f, Amounts
<1> QED  BY <1>2, <1>3, <1>4

LEMMA AmountsTogether ==
  ASSUME NEW a \in Seq(LogSet), NEW b \in Seq(LogSet), NEW kind
  PROVE  Amounts(a \o b, kind) = Amounts(a, kind) + Amounts(b, kind)
<1> DEFINE logs == a \o b
           m == Len(a)
           f == [i \in DOMAIN a |-> a[i].amount]
           g == [i \in DOMAIN b |-> b[i].amount]
           h == [i \in DOMAIN logs |-> logs[i].amount]
           move == [i \in DOMAIN b |-> m + i]
           A == Picked(a, kind)
           B == Picked(b, kind)
           moved == {move[i] : i \in B}
<1>1. /\ logs \in Seq(LogSet) /\ m \in Nat /\ Len(b) \in Nat
      /\ DOMAIN a = 1 .. m /\ DOMAIN b = 1 .. Len(b) /\ DOMAIN logs = 1 .. m + Len(b)
      /\ \A i \in 1 .. m : logs[i] = a[i]
      /\ \A i \in 1 .. Len(b) : logs[m + i] = b[i]
  OBVIOUS
<1>2. /\ IsFiniteSet(A) /\ A \subseteq DOMAIN a /\ IsFiniteSet(B) /\ B \subseteq DOMAIN b
      /\ \A i \in DOMAIN a : a[i].amount \in Int
      /\ \A i \in DOMAIN b : b[i].amount \in Int
  BY AmountsAreInt
<1> HIDE DEF logs, m
<1>3. Picked(logs, kind) = A \cup moved /\ A \cap moved = {}
  <2>1. ASSUME NEW i \in Picked(logs, kind) PROVE i \in A \cup moved
    <3>1. i \in 1 .. m + Len(b) /\ logs[i] \in kind
      BY <1>1 DEF Picked
    <3>2. CASE i \in 1 .. m
      BY <1>1, <3>1, <3>2 DEF Picked
    <3>3. CASE i \notin 1 .. m
      <4>1. i - m \in 1 .. Len(b) /\ i = m + (i - m)
        BY <1>1, <3>1, <3>3
      <4>2. i - m \in B /\ move[i - m] = i
        BY <1>1, <3>1, <4>1 DEF Picked
      <4> QED  BY <4>2
    <3> QED  BY <3>2, <3>3
  <2>2. A \subseteq Picked(logs, kind)
    BY <1>1, <1>2 DEF Picked
  <2>3. ASSUME NEW i \in B PROVE move[i] \in Picked(logs, kind) /\ move[i] \notin A
    <3>1. i \in 1 .. Len(b) /\ b[i] \in kind /\ move[i] = m + i
      BY <1>1 DEF Picked
    <3>2. m + i \in DOMAIN logs /\ m + i \notin DOMAIN a /\ logs[m + i] \in kind
      BY <1>1, <3>1
    <3> QED  BY <3>1, <3>2 DEF Picked
  <2> HIDE DEF A, B, move
  <2> QED  BY <2>1, <2>2, <2>3
<1>4. \A i \in A : h[i] \in Int /\ h[i] = f[i] /\ f[i] \in Int
  BY <1>1, <1>2
<1>5. \A i \in B : g[i] \in Int /\ h[move[i]] = g[i]
  BY <1>1, <1>2
<1>6. \A i, j \in B : move[i] = move[j] => i = j
  BY <1>1, <1>2
<1>7. IsFiniteSet(moved)
  <2>1. [i \in B |-> move[i]] \in Surjection(B, moved)
    BY DEF Surjection
  <2> HIDE DEF moved, B
  <2> QED  BY <1>2, <2>1, FS_Surjection
<1> HIDE DEF f, g, h, A, B, move
<1>8. \A i \in A \cup moved : h[i] \in Int
  BY <1>4, <1>5
<1>9. SumOver(h, A) = SumOver(f, A)
  BY <1>2, <1>4, SumsAgree
<1>10. SumOver(h, moved) = SumOver(g, B)
  <2>1. SumOver(h, {move[i] : i \in B}) = SumOver(g, B)
    <3>1. IsFiniteSet(B) /\ \A i \in B : g[i] \in Int /\ h[move[i]] = g[i]
      BY <1>2, <1>5
    <3> QED  BY <1>6, <3>1, SumImage
  <2> QED  BY <2>1
<1> HIDE DEF moved
<1>11. SumOver(h, A \cup moved) = SumOver(h, A) + SumOver(h, moved)
  BY <1>2, <1>3, <1>7, <1>8, SumUnion
<1>12. SumOver(h, Picked(logs, kind)) = SumOver(h, A \cup moved)
  BY <1>3, Zenon
<1> QED  BY <1>9, <1>10, <1>11, <1>12 DEF Amounts, f, g, h, A, B, logs

LEMMA AmountsNone ==
  ASSUME NEW logs \in Seq(LogSet), NEW kind, \A i \in DOMAIN logs : logs[i] \notin kind
  PROVE  Amounts(logs, kind) = 0
<1>1. Picked(logs, kind) = {}
  BY DEF Picked
<1> DEFINE f == [i \in DOMAIN logs |-> logs[i].amount]
<1>2. SumOver(f, {}) = 0
  BY SumStep, FS_EmptySet
<1> HIDE DEF f
<1>3. SumOver(f, Picked(logs, kind)) = SumOver(f, {})
  BY <1>1, Zenon
<1> QED  BY <1>2, <1>3 DEF Amounts, f

LEMMA AmountsOne ==
  ASSUME NEW l \in LogSet, NEW kind
  PROVE  Amounts(<<l>>, kind) = IF l \in kind THEN l.amount ELSE 0
<1> DEFINE logs == <<l>>
<1>1. logs \in Seq(LogSet) /\ DOMAIN logs = {1} /\ logs[1] = l
  OBVIOUS
<1> HIDE DEF logs
<1>2. CASE l \notin kind
  <2>1. Amounts(logs, kind) = 0
    BY <1>1, <1>2, AmountsNone
  <2> QED  BY <1>2, <2>1 DEF logs
<1>3. CASE l \in kind
  <2> DEFINE f == [i \in DOMAIN logs |-> logs[i].amount]
  <2>1. Picked(logs, kind) = {} \cup {1}
    BY <1>1, <1>3 DEF Picked
  <2>2. f[1] = l.amount /\ l.amount \in Int
    BY <1>1 DEF LogSet
  <2> HIDE DEF f
  <2>3. SumOver(f, {} \cup {1}) = SumOver(f, {}) + f[1]
    <3>1. IsFiniteSet({}) /\ 1 \notin {} /\ \A y \in {} : f[y] \in Int
      BY FS_EmptySet
    <3> QED  BY <2>2, <3>1, SumPlus
  <2>4. SumOver(f, {}) = 0
    BY SumStep, FS_EmptySet
  <2>5. SumOver(f, Picked(logs, kind)) = SumOver(f, {} \cup {1})
    BY <2>1, Zenon
  <2>6. Amounts(logs, kind) = l.amount
    BY <2>2, <2>3, <2>4, <2>5 DEF Amounts, f
  <2> QED  BY <1>3, <2>6 DEF logs
<1> QED  BY <1>2, <1>3

LEMMA AmountsTwo ==
  ASSUME NEW l \in LogSet, NEW m \in LogSet, NEW kind
  PROVE  Amounts(<<l, m>>, kind)
           = (IF l \in kind THEN l.amount ELSE 0) + (IF m \in kind THEN m.amount ELSE 0)
<1>1. <<l, m>> = <<l>> \o <<m>> /\ <<l>> \in Seq(LogSet) /\ <<m>> \in Seq(LogSet)
  <2>1. <<l>> \in Seq(LogSet) /\ <<m>> \in Seq(LogSet)
    OBVIOUS
  <2> DEFINE a == <<l, m>>
             b == <<l>> \o <<m>>
  <2>2. a \in Seq(LogSet) /\ b \in Seq(LogSet) /\ Len(a) = 2 /\ Len(b) = 2
    BY <2>1, ConcatProperties
  <2>3. a[1] = b[1] /\ a[2] = b[2]
    BY <2>1, ConcatProperties
  <2>4. 1 .. 2 = {1, 2}
    OBVIOUS
  <2> HIDE DEF a, b
  <2>5. a = b
    BY <2>2, <2>3, <2>4, SeqEqual
  <2> QED  BY <2>1, <2>5 DEF a, b
<1>2. Amounts(<<l>> \o <<m>>, kind) = Amounts(<<l>>, kind) + Amounts(<<m>>, kind)
  BY <1>1, AmountsTogether
<1>3. Amounts(<<l, m>>, kind) = Amounts(<<l>> \o <<m>>, kind)
  BY <1>1, Zenon
<1> QED  BY <1>2, <1>3, AmountsOne

\* Whoever delegates to somebody, and what makes contracts sound: nobody has less than
\* nothing, and a delegated power is the balances it comes from.
Backers(c, w) == {v \in Users : c.delegatee[v] = w}
Sound(c) ==
  /\ \A u \in Users : c.balance[u] >= 0
  /\ \A w \in Users : c.power[w] = SumOver(c.balance, Backers(c, w))

Increase(l, u) ==
  l.contract = Supernova /\ l.event = "DelegatedPowerIncreased" /\ l.to = u /\ l.after = l.amount
Told(logs, u) == \E i \in DOMAIN logs : Increase(logs[i], u)

\* The logs of what the treasury is paid, and of what goes into and out of the farm.
PaidOf(t) == {l \in LogSet : l.contract = t /\ l.event = "Transfer" /\ l.to = Treasury}
FarmIn(t) == {l \in LogSet : l.contract = Farm /\ l.event = "Deposit" /\ l.to = t}
FarmOut(t) == {l \in LogSet : l.contract = Farm /\ l.event = "Withdraw" /\ l.to = t}
FarmTotal(c, t) == SumOver([u \in Users |-> c.farmed[u][t]], Users)

\* What logs say of the contracts before and after them.
Leads(c, logs, d) ==
  /\ \A t \in Tokens :
       /\ d.held[t] = c.held[t] + Amounts(logs, PaidOf(t))
       /\ FarmTotal(d, t) = FarmTotal(c, t) + Amounts(logs, FarmIn(t)) - Amounts(logs, FarmOut(t))
  /\ Sound(c) => /\ Sound(d)
                 /\ \A u \in Users : d.power[u] > 0 => c.power[u] > 0 \/ Told(logs, u)
  /\ \A i \in DOMAIN logs : logs[i].event = "Transfer" => logs[i].from # Treasury

LEMMA FarmTotalIsInt ==
  ASSUME NEW c \in ContractSet, NEW t \in Tokens
  PROVE  FarmTotal(c, t) \in Int /\ c.held[t] \in Int
<1> DEFINE f == [u \in Users |-> c.farmed[u][t]]
<1>1. \A u \in Users : f[u] \in Int
  BY DEF ContractSet
<1>2. c.held[t] \in Int
  BY DEF ContractSet
<1> HIDE DEF f
<1>3. SumOver(f, Users) \in Int
  BY <1>1, LedgerAssumption, SumStep
<1> QED  BY <1>2, <1>3 DEF FarmTotal, f

\* A log of two sequences put together is one of either.
LEMMA EitherLog ==
  ASSUME NEW a \in Seq(LogSet), NEW b \in Seq(LogSet)
  PROVE  /\ \A i \in DOMAIN (a \o b) : \/ \E j \in DOMAIN a : (a \o b)[i] = a[j]
                                      \/ \E j \in DOMAIN b : (a \o b)[i] = b[j]
         /\ \A j \in DOMAIN a : \E i \in DOMAIN (a \o b) : (a \o b)[i] = a[j]
         /\ \A j \in DOMAIN b : \E i \in DOMAIN (a \o b) : (a \o b)[i] = b[j]
<1> DEFINE logs == a \o b
<1>1. /\ Len(a) \in Nat /\ Len(b) \in Nat
      /\ DOMAIN a = 1 .. Len(a) /\ DOMAIN b = 1 .. Len(b) /\ DOMAIN logs = 1 .. Len(a) + Len(b)
      /\ \A i \in 1 .. Len(a) : logs[i] = a[i]
      /\ \A i \in 1 .. Len(b) : logs[Len(a) + i] = b[i]
  OBVIOUS
<1> HIDE DEF logs
<1>2. ASSUME NEW i \in DOMAIN logs
      PROVE  (\E j \in DOMAIN a : logs[i] = a[j]) \/ (\E j \in DOMAIN b : logs[i] = b[j])
  <2>1. CASE i \in 1 .. Len(a)
    BY <1>1, <2>1
  <2>2. CASE i \notin 1 .. Len(a)
    <3>1. i - Len(a) \in 1 .. Len(b) /\ i = Len(a) + (i - Len(a))
      BY <1>1, <2>2
    <3>2. logs[i] = b[i - Len(a)]
      BY <1>1, <3>1
    <3> QED  BY <1>1, <3>1, <3>2
  <2> QED  BY <2>1, <2>2
<1>3. \A j \in DOMAIN a : j \in DOMAIN logs /\ logs[j] = a[j]
  BY <1>1
<1>4. \A j \in DOMAIN b : Len(a) + j \in DOMAIN logs /\ logs[Len(a) + j] = b[j]
  BY <1>1
<1>5. /\ \A i \in DOMAIN logs : \/ \E j \in DOMAIN a : logs[i] = a[j]
                               \/ \E j \in DOMAIN b : logs[i] = b[j]
      /\ \A j \in DOMAIN a : \E i \in DOMAIN logs : logs[i] = a[j]
      /\ \A j \in DOMAIN b : \E i \in DOMAIN logs : logs[i] = b[j]
  BY <1>2, <1>3, <1>4
<1> QED  BY <1>5 DEF logs

LEMMA ToldTogether ==
  ASSUME NEW a \in Seq(LogSet), NEW b \in Seq(LogSet), NEW u, Told(a, u) \/ Told(b, u)
  PROVE  Told(a \o b, u)
<1> DEFINE logs == a \o b
<1>1. /\ \A j \in DOMAIN a : \E i \in DOMAIN logs : logs[i] = a[j]
      /\ \A j \in DOMAIN b : \E i \in DOMAIN logs : logs[i] = b[j]
  BY EitherLog
<1> HIDE DEF logs
<1>2. Told(logs, u)
  BY <1>1 DEF Told
<1> QED  BY <1>2 DEF logs

LEMMA LeadsTogether ==
  ASSUME NEW c \in ContractSet, NEW d \in ContractSet, NEW e \in ContractSet,
         NEW a \in Seq(LogSet), NEW b \in Seq(LogSet), Leads(c, a, d), Leads(d, b, e)
  PROVE  Leads(c, a \o b, e)
<1> DEFINE logs == a \o b
<1>1. ASSUME NEW t \in Tokens
      PROVE  /\ e.held[t] = c.held[t] + Amounts(logs, PaidOf(t))
             /\ FarmTotal(e, t)
                  = FarmTotal(c, t) + Amounts(logs, FarmIn(t)) - Amounts(logs, FarmOut(t))
  <2>1. /\ Amounts(logs, PaidOf(t)) = Amounts(a, PaidOf(t)) + Amounts(b, PaidOf(t))
        /\ Amounts(logs, FarmIn(t)) = Amounts(a, FarmIn(t)) + Amounts(b, FarmIn(t))
        /\ Amounts(logs, FarmOut(t)) = Amounts(a, FarmOut(t)) + Amounts(b, FarmOut(t))
    BY AmountsTogether
  <2>2. /\ Amounts(a, PaidOf(t)) \in Int /\ Amounts(b, PaidOf(t)) \in Int
        /\ Amounts(a, FarmIn(t)) \in Int /\ Amounts(b, FarmIn(t)) \in Int
        /\ Amounts(a, FarmOut(t)) \in Int /\ Amounts(b, FarmOut(t)) \in Int
    BY AmountsAreInt
  <2>3. /\ FarmTotal(c, t) \in Int /\ FarmTotal(d, t) \in Int /\ FarmTotal(e, t) \in Int
        /\ c.held[t] \in Int /\ d.held[t] \in Int /\ e.held[t] \in Int
    BY FarmTotalIsInt
  <2>4. /\ d.held[t] = c.held[t] + Amounts(a, PaidOf(t))
        /\ e.held[t] = d.held[t] + Amounts(b, PaidOf(t))
        /\ FarmTotal(d, t) = FarmTotal(c, t) + Amounts(a, FarmIn(t)) - Amounts(a, FarmOut(t))
        /\ FarmTotal(e, t) = FarmTotal(d, t) + Amounts(b, FarmIn(t)) - Amounts(b, FarmOut(t))
    BY DEF Leads
  <2> HIDE DEF logs
  <2>5. e.held[t] = c.held[t] + Amounts(logs, PaidOf(t))
    <3> DEFINE c1 == c.held[t]
               d1 == d.held[t]
               e1 == e.held[t]
    <3>1. c1 \in Int /\ d1 \in Int /\ e1 \in Int
      BY <2>3
    <3>2. d1 = c1 + Amounts(a, PaidOf(t)) /\ e1 = d1 + Amounts(b, PaidOf(t))
      BY <2>4
    <3> HIDE DEF c1, d1, e1
    <3>3. e1 = c1 + Amounts(logs, PaidOf(t))
      BY <2>1, <2>2, <3>1, <3>2
    <3> QED  BY <3>3 DEF c1, e1
  <2>6. \A c1, d1, e1, a1, a2, b1, b2, l1, l2 \in Int :
          d1 = c1 + a1 - a2 /\ e1 = d1 + b1 - b2 /\ l1 = a1 + b1 /\ l2 = a2 + b2
            => e1 = c1 + l1 - l2
    OBVIOUS
  <2>7. Amounts(logs, FarmIn(t)) \in Int /\ Amounts(logs, FarmOut(t)) \in Int
    BY <2>1, <2>2
  <2>8. FarmTotal(e, t) = FarmTotal(c, t) + Amounts(logs, FarmIn(t)) - Amounts(logs, FarmOut(t))
    BY <2>1, <2>2, <2>3, <2>4, <2>6, <2>7
  <2> QED  BY <2>5, <2>8
<1>2. \A i \in DOMAIN logs : \/ \E j \in DOMAIN a : logs[i] = a[j]
                             \/ \E j \in DOMAIN b : logs[i] = b[j]
  BY EitherLog
<1>3. \A u : Told(a, u) \/ Told(b, u) => Told(logs, u)
  BY ToldTogether
<1> HIDE DEF logs
<1>4. \A i \in DOMAIN logs : logs[i].event = "Transfer" => logs[i].from # Treasury
  BY <1>2 DEF Leads
<1>5. Sound(c) => /\ Sound(e)
                  /\ \A u \in Users : e.power[u] > 0 => c.power[u] > 0 \/ Told(logs, u)
  BY <1>3 DEF Leads
<1> QED  BY <1>1, <1>4, <1>5 DEF Leads, logs

LEMMA LeadsNowhere == ASSUME NEW c \in ContractSet PROVE Leads(c, <<>>, c)
<1>1. \A kind : Amounts(<<>>, kind) = 0
  <2>1. <<>> \in Seq(LogSet) /\ DOMAIN <<>> = {}
    OBVIOUS
  <2> QED  BY <2>1, AmountsNone
<1> QED  BY <1>1, FarmTotalIsInt DEF Leads

-----------------------------------------------------------------------------
(* What each call leads to                                                *)

LEMMA SumChanged ==
  ASSUME NEW S, IsFiniteSet(S), NEW x \in S, NEW f, NEW g,
         \A y \in S : f[y] \in Int /\ g[y] \in Int, \A y \in S : y # x => f[y] = g[y]
  PROVE  SumOver(g, S) = SumOver(f, S) + g[x] - f[x]
<1> DEFINE T == S \ {x}
<1>1. SumOver(f, S) = f[x] + SumOver(f, T)
  BY SumWithout
<1>2. SumOver(g, S) = g[x] + SumOver(g, T)
  BY SumWithout
<1>3. IsFiniteSet(T) /\ \A y \in T : f[y] \in Int /\ f[y] = g[y]
  BY FS_Subset
<1> HIDE DEF T
<1>4. SumOver(f, T) = SumOver(g, T) /\ SumOver(f, T) \in Int
  BY <1>3, SumsAgree, SumStep
<1> QED  BY <1>1, <1>2, <1>4

LEMMA DelegatedIs ==
  ASSUME NEW c \in ContractSet, NEW u \in Users, NEW to \in Users \cup {Zero}, NEW n \in Int
  PROVE  /\ \A w \in Users : Delegated(c, u, to, n).c.power[w]
                               = IF w = to THEN c.power[w] + n ELSE c.power[w]
         /\ Delegated(c, u, to, n).c.balance = c.balance
         /\ Delegated(c, u, to, n).c.until = c.until
         /\ Delegated(c, u, to, n).c.delegatee = c.delegatee
         /\ Delegated(c, u, to, n).c.farmed = c.farmed
         /\ Delegated(c, u, to, n).c.held = c.held
         /\ (\A w \in Users : c.power[w] >= 0) =>
              \A w \in Users : Delegated(c, u, to, n).c.power[w] > 0
                                 => c.power[w] > 0 \/ Told(Delegated(c, u, to, n).logs, w)
<1>1. \A w \in Users : c.power[w] \in Int
  BY DEF ContractSet
<1>2. CASE to = Zero \/ n = 0
  <2>1. Delegated(c, u, to, n).c = c
    BY <1>2 DEF Delegated
  <2>2. \A w \in Users : c.power[w] = IF w = to THEN c.power[w] + n ELSE c.power[w]
    BY <1>1, <1>2, LedgerAssumption
  <2> HIDE DEF Delegated
  <2> QED  BY <2>1, <2>2
<1>3. CASE to # Zero /\ n # 0
  <2> DEFINE event == IF n > 0 THEN "DelegatedPowerIncreased" ELSE "DelegatedPowerDecreased"
             amount == IF n > 0 THEN n ELSE -n
             power == [c.power EXCEPT ![to] = @ + n]
             l == Log(Supernova, event, u, to, amount, c.power[to] + n)
             d == [c EXCEPT !.power = power]
  <2>1. /\ Delegated(c, u, to, n).c = [c EXCEPT !.power[to] = @ + n]
        /\ Delegated(c, u, to, n).logs = <<l>>
    BY <1>3 DEF Delegated
  <2>2. [c EXCEPT !.power[to] = @ + n] = d
    OBVIOUS
  <2>3. \A w \in Users : power[w] = IF w = to THEN c.power[w] + n ELSE c.power[w]
    BY DEF ContractSet
  <2>4. /\ d.power = power /\ d.balance = c.balance /\ d.until = c.until
        /\ d.delegatee = c.delegatee /\ d.farmed = c.farmed /\ d.held = c.held
    <3> HIDE DEF power
    <3> QED  BY DEF ContractSet
  <2>5. to \in Users
    BY <1>3
  <2>6. n > 0 /\ c.power[to] = 0 => Increase(l, to)
    BY DEF Increase, Log
  <2> HIDE DEF l, power
  <2>7. n > 0 /\ c.power[to] = 0 => Told(<<l>>, to)
    BY <2>6 DEF Told
  <2>8. ASSUME \A w \in Users : c.power[w] >= 0, NEW w \in Users, power[w] > 0
        PROVE  c.power[w] > 0 \/ Told(<<l>>, w)
    BY <1>1, <2>3, <2>7, <2>8
  <2> HIDE DEF d
  <2>9. Delegated(c, u, to, n).c = d
    BY <2>1, <2>2
  <2> QED  BY <2>1, <2>3, <2>4, <2>8, <2>9
<1> QED  BY <1>2, <1>3

\* Logs that are neither transfers nor the farm's add nothing.
LEMMA QuietLogs ==
  ASSUME NEW logs \in Seq(LogSet),
         \A i \in DOMAIN logs : logs[i].event # "Transfer" /\ logs[i].contract # Farm
  PROVE  \A t \in Tokens : /\ Amounts(logs, PaidOf(t)) = 0
                           /\ Amounts(logs, FarmIn(t)) = 0 /\ Amounts(logs, FarmOut(t)) = 0
<1> TAKE t \in Tokens
<1>1. \A i \in DOMAIN logs : /\ logs[i] \notin PaidOf(t)
                             /\ logs[i] \notin FarmIn(t) /\ logs[i] \notin FarmOut(t)
  BY DEF PaidOf, FarmIn, FarmOut
<1> QED  BY <1>1, AmountsNone

LEMMA SoundPowers ==
  ASSUME NEW c \in ContractSet, Sound(c), NEW w \in Users
  PROVE  /\ c.power[w] >= 0
         /\ \A u \in Users : c.delegatee[u] = w => c.power[w] - c.balance[u] >= 0
<1> DEFINE S == Backers(c, w)
           f == c.balance
<1>1. IsFiniteSet(S) /\ S \subseteq Users
  BY LedgerAssumption, FS_Subset DEF Backers
<1>2. \A v \in Users : f[v] \in Nat
  <2>1. \A v \in Users : f[v] \in Int /\ f[v] >= 0
    BY DEF ContractSet, Sound
  <2> QED  BY <2>1
<1>3. c.power[w] = SumOver(f, S)
  BY DEF Sound
<1> HIDE DEF f
<1>4. SumOver(f, S) \in Nat
  <2> HIDE DEF S
  <2> QED  BY <1>1, <1>2, SumsAreNat
<1>5. ASSUME NEW u \in Users, c.delegatee[u] = w PROVE c.power[w] - f[u] >= 0
  <2>1. u \in S
    BY <1>5 DEF Backers
  <2> DEFINE T == S \ {u}
  <2>2. IsFiniteSet(T) /\ \A v \in T : f[v] \in Nat
    BY <1>1, <1>2, FS_Subset
  <2> HIDE DEF S
  <2>3. SumOver(f, S) = f[u] + SumOver(f, T)
    BY <1>1, <1>2, <2>1, SumWithout
  <2> HIDE DEF T
  <2>4. SumOver(f, T) \in Nat
    BY <2>2, SumsAreNat
  <2> QED  BY <1>2, <1>3, <2>3, <2>4
<1> QED  BY <1>3, <1>4, <1>5 DEF f

\* A sum of balances after one of them changed.
LEMMA StakedLeads ==
  ASSUME NEW c \in ContractSet, NEW u \in Users, NEW n \in Int,
         Sound(c) => c.balance[u] + n >= 0
  PROVE  Leads(c, Staked(c, u, n).logs, Staked(c, u, n).c)
<1> DEFINE balance == [c.balance EXCEPT ![u] = @ + n]
           paid == [c EXCEPT !.balance = balance]
           to == c.delegatee[u]
           d == Delegated(paid, u, to, n)
           first == IF n > 0 THEN Transfer("kek", u, Supernova, n)
                    ELSE Transfer("kek", Supernova, u, -n)
           second == IF n > 0 THEN Log(Supernova, "Deposit", u, Zero, n, c.balance[u] + n)
                     ELSE Log(Supernova, "Withdraw", u, Zero, -n, c.balance[u] + n)
           last == <<first, second>>
<1>1. /\ to \in Users \cup {Zero} /\ balance \in [Users -> Int]
      /\ c.balance \in [Users -> Int] /\ c.power \in [Users -> Int]
      /\ \A v \in Users : balance[v] = IF v = u THEN c.balance[u] + n ELSE c.balance[v]
  BY DEF ContractSet
<1>2. [c EXCEPT !.balance[u] = @ + n] = paid
  OBVIOUS
<1>3. Staked(c, u, n).c = d.c /\ Staked(c, u, n).logs = d.logs \o last
  BY <1>2 DEF Staked
<1> HIDE DEF balance
<1>4. /\ paid \in ContractSet /\ paid.balance = balance /\ paid.power = c.power
      /\ paid.delegatee = c.delegatee /\ paid.farmed = c.farmed /\ paid.held = c.held
  BY <1>1 DEF ContractSet
<1> HIDE DEF paid
<1>5. /\ d.c \in ContractSet /\ d.logs \in Seq(LogSet)
      /\ \A i \in DOMAIN d.logs :
           /\ d.logs[i].contract = Supernova
           /\ d.logs[i].event \in {"DelegatedPowerIncreased", "DelegatedPowerDecreased"}
  BY <1>1, <1>4, DelegatedTypes
<1>6. /\ \A w \in Users : d.c.power[w] = IF w = to THEN c.power[w] + n ELSE c.power[w]
      /\ d.c.balance = balance /\ d.c.delegatee = c.delegatee
      /\ d.c.farmed = c.farmed /\ d.c.held = c.held
      /\ (\A w \in Users : c.power[w] >= 0) =>
           \A w \in Users : d.c.power[w] > 0 => c.power[w] > 0 \/ Told(d.logs, w)
  <2>1. /\ \A w \in Users : d.c.power[w] = IF w = to THEN paid.power[w] + n ELSE paid.power[w]
        /\ d.c.balance = paid.balance /\ d.c.delegatee = paid.delegatee
        /\ d.c.farmed = paid.farmed /\ d.c.held = paid.held
        /\ (\A w \in Users : paid.power[w] >= 0) =>
             \A w \in Users : d.c.power[w] > 0 => paid.power[w] > 0 \/ Told(d.logs, w)
    <3>1. paid \in ContractSet /\ to \in Users \cup {Zero}
      BY <1>1, <1>4
    <3> HIDE DEF to
    <3> QED  BY <3>1, DelegatedIs
  <2> HIDE DEF d
  <2> QED  BY <1>4, <2>1
<1> HIDE DEF d
<1>7. first \in LogSet /\ second \in LogSet
  <2>1. {u, Supernova, Zero} \subseteq Accounts /\ Supernova \in Tokens \cup {Supernova, Farm}
    BY DEF Accounts
  <2>2. {"Transfer", "Deposit", "Withdraw"} \subseteq Events
    BY DEF Events
  <2>3. c.balance[u] + n \in Int
    BY <1>1
  <2> QED  BY <2>1, <2>2, <2>3, LogType, LedgerAssumption DEF Transfer
<1>8. /\ first.event = "Transfer" /\ first.from # Treasury /\ first.to # Treasury
      /\ second.event # "Transfer" /\ second.contract = Supernova
  BY LedgerAssumption DEF Transfer, Log, Supernova, Treasury
<1> HIDE DEF first, second
<1>9. last \in Seq(LogSet) /\ DOMAIN last = {1, 2} /\ last[1] = first /\ last[2] = second
  BY <1>7
<1>10. ASSUME NEW t \in Tokens
       PROVE  /\ Amounts(last, PaidOf(t)) = 0
              /\ Amounts(last, FarmIn(t)) = 0 /\ Amounts(last, FarmOut(t)) = 0
  <2>1. \A i \in DOMAIN last : /\ last[i] \notin PaidOf(t)
                               /\ last[i] \notin FarmIn(t) /\ last[i] \notin FarmOut(t)
    BY <1>8, <1>9 DEF PaidOf, FarmIn, FarmOut, Farm, Supernova
  <2> HIDE DEF last
  <2> QED  BY <1>9, <2>1, AmountsNone
<1> HIDE DEF last
<1>11. Leads(d.c, last, d.c)
  BY <1>5, <1>8, <1>9, <1>10, FarmTotalIsInt DEF Leads
<1>12. Leads(c, d.logs, d.c)
  <2>1. ASSUME NEW t \in Tokens
        PROVE  /\ d.c.held[t] = c.held[t] + Amounts(d.logs, PaidOf(t))
               /\ FarmTotal(d.c, t) = FarmTotal(c, t) + Amounts(d.logs, FarmIn(t))
                                        - Amounts(d.logs, FarmOut(t))
    <3>1. /\ Amounts(d.logs, PaidOf(t)) = 0
          /\ Amounts(d.logs, FarmIn(t)) = 0 /\ Amounts(d.logs, FarmOut(t)) = 0
      BY <1>5, QuietLogs DEF Farm, Supernova
    <3>2. FarmTotal(d.c, t) = FarmTotal(c, t)
      BY <1>6 DEF FarmTotal
    <3> QED  BY <1>6, <3>1, <3>2, FarmTotalIsInt
  <2>2. ASSUME Sound(c), NEW w \in Users PROVE d.c.power[w] = SumOver(d.c.balance, Backers(d.c, w))
    <3> DEFINE S == Backers(c, w)
    <3>1. /\ Backers(d.c, w) = S /\ IsFiniteSet(S) /\ S \subseteq Users
          /\ u \in S <=> to = w
      BY <1>6, LedgerAssumption, FS_Subset DEF Backers
    <3>2. c.power[w] = SumOver(c.balance, S)
      BY <2>2 DEF Sound
    <3> HIDE DEF S
    <3>3. CASE u \in S
      <4>1. SumOver(balance, S) = SumOver(c.balance, S) + balance[u] - c.balance[u]
        BY <1>1, <3>1, <3>3, SumChanged
      <4>2. SumOver(c.balance, S) \in Int
        BY <1>1, <3>1, SumStep
      <4>3. balance[u] = c.balance[u] + n /\ c.balance[u] \in Int
        BY <1>1
      <4>4. SumOver(balance, S) = SumOver(c.balance, S) + n
        BY <4>1, <4>2, <4>3
      <4> QED  BY <1>6, <3>1, <3>2, <3>3, <4>4
    <3>4. CASE u \notin S
      <4>1. SumOver(c.balance, S) = SumOver(balance, S)
        BY <1>1, <3>1, <3>4, SumsAgree
      <4> QED  BY <1>6, <3>1, <3>2, <3>4, <4>1
    <3> QED  BY <3>3, <3>4
  <2>3. ASSUME Sound(c)
        PROVE  /\ Sound(d.c)
               /\ \A w \in Users : d.c.power[w] > 0 => c.power[w] > 0 \/ Told(d.logs, w)
    <3>1. \A v \in Users : d.c.balance[v] >= 0
      BY <1>1, <1>6, <2>3 DEF Sound
    <3>2. \A w \in Users : c.power[w] >= 0
      BY <2>3, SoundPowers
    <3> QED  BY <1>6, <2>2, <2>3, <3>1, <3>2 DEF Sound
  <2> QED  BY <1>5, <2>1, <2>3 DEF Leads
<1> QED  BY <1>3, <1>5, <1>9, <1>11, <1>12, LeadsTogether

LEMMA RedelegatedLeads ==
  ASSUME NEW c \in ContractSet, NEW u \in Users, NEW to \in Users \cup {Zero}
  PROVE  Leads(c, Redelegated(c, u, to).logs, Redelegated(c, u, to).c)
<1> DEFINE old == c.delegatee[u]
           f == c.balance
           n == f[u]
           minus == -n
           less == Delegated(c, u, old, minus)
           more == Delegated(less.c, u, to, n)
           delegatee == [more.c.delegatee EXCEPT ![u] = to]
           d == [more.c EXCEPT !.delegatee = delegatee]
           first == Log(Supernova, "Delegate", u, to, 0, 0)
           logs == <<first>> \o less.logs \o more.logs
<1>1. /\ old \in Users \cup {Zero} /\ \A v \in Users : f[v] \in Int
      /\ n \in Int /\ minus \in Int /\ \A w \in Users : c.power[w] \in Int
  BY DEF ContractSet
<1>2. /\ less.c \in ContractSet /\ less.logs \in Seq(LogSet)
      /\ \A i \in DOMAIN less.logs :
           less.logs[i].contract = Supernova /\ less.logs[i].event # "Transfer"
  <2> HIDE DEF old, minus
  <2> QED  BY <1>1, DelegatedTypes
<1>3. /\ \A w \in Users : less.c.power[w] = IF w = old THEN c.power[w] + minus ELSE c.power[w]
      /\ less.c.balance = c.balance /\ less.c.delegatee = c.delegatee
      /\ less.c.farmed = c.farmed /\ less.c.held = c.held
      /\ (\A w \in Users : c.power[w] >= 0) =>
           \A w \in Users : less.c.power[w] > 0 => c.power[w] > 0 \/ Told(less.logs, w)
  <2> HIDE DEF old, minus
  <2> QED  BY <1>1, DelegatedIs
<1> HIDE DEF less
<1>4. /\ more.c \in ContractSet /\ more.logs \in Seq(LogSet)
      /\ \A i \in DOMAIN more.logs :
           more.logs[i].contract = Supernova /\ more.logs[i].event # "Transfer"
  <2> HIDE DEF n
  <2> QED  BY <1>1, <1>2, DelegatedTypes
<1>5. /\ \A w \in Users : more.c.power[w] = IF w = to THEN less.c.power[w] + n
                                            ELSE less.c.power[w]
      /\ more.c.balance = c.balance /\ more.c.delegatee = c.delegatee
      /\ more.c.farmed = c.farmed /\ more.c.held = c.held
      /\ (\A w \in Users : less.c.power[w] >= 0) =>
           \A w \in Users : more.c.power[w] > 0 => less.c.power[w] > 0 \/ Told(more.logs, w)
  <2>1. /\ \A w \in Users : more.c.power[w] = IF w = to THEN less.c.power[w] + n
                                              ELSE less.c.power[w]
        /\ more.c.balance = less.c.balance /\ more.c.delegatee = less.c.delegatee
        /\ more.c.farmed = less.c.farmed /\ more.c.held = less.c.held
        /\ (\A w \in Users : less.c.power[w] >= 0) =>
             \A w \in Users : more.c.power[w] > 0 => less.c.power[w] > 0 \/ Told(more.logs, w)
    <3> DEFINE l == less.c
               m == Delegated(l, u, to, n)
    <3>1. l \in ContractSet /\ n \in Int
      BY <1>1, <1>2
    <3> HIDE DEF n, l
    <3>2. /\ \A w \in Users : m.c.power[w] = IF w = to THEN l.power[w] + n ELSE l.power[w]
          /\ m.c.balance = l.balance /\ m.c.delegatee = l.delegatee
          /\ m.c.farmed = l.farmed /\ m.c.held = l.held
          /\ (\A w \in Users : l.power[w] >= 0) =>
               \A w \in Users : m.c.power[w] > 0 => l.power[w] > 0 \/ Told(m.logs, w)
      BY <3>1, DelegatedIs
    <3> QED  BY <3>2 DEF l
  <2> HIDE DEF more
  <2> QED  BY <1>3, <2>1
<1> HIDE DEF more
<1>6. /\ d.power = more.c.power /\ d.balance = f /\ d.farmed = c.farmed /\ d.held = c.held
      /\ \A v \in Users : d.delegatee[v] = IF v = u THEN to ELSE c.delegatee[v]
  BY <1>4, <1>5 DEF ContractSet
<1>7. Redelegated(c, u, to).c = d /\ Redelegated(c, u, to).logs = logs
  BY DEF Redelegated, less, more
<1>8. first \in LogSet /\ first.event # "Transfer" /\ first.contract = Supernova
  <2>1. /\ u \in Accounts /\ to \in Accounts \cup Tokens /\ "Delegate" \in Events
        /\ Supernova \in Tokens \cup {Supernova, Farm} /\ 0 \in Int
    BY DEF Accounts, Events
  <2> QED  BY <2>1, LogType DEF Log
<1> HIDE DEF first, d
<1>9. /\ logs \in Seq(LogSet)
      /\ \A i \in DOMAIN logs : logs[i].event # "Transfer" /\ logs[i].contract # Farm
      /\ \A w : Told(less.logs, w) \/ Told(more.logs, w) => Told(logs, w)
  <2> DEFINE one == <<first>>
             two == one \o less.logs
  <2>1. one \in Seq(LogSet) /\ \A i \in DOMAIN one : one[i] = first
    BY <1>8
  <2> HIDE DEF one
  <2>2. two \in Seq(LogSet) /\ \A w : Told(less.logs, w) => Told(two, w)
    BY <1>2, <2>1, ConcatProperties, ToldTogether
  <2>3. \A i \in DOMAIN two : \/ \E j \in DOMAIN one : two[i] = one[j]
                              \/ \E j \in DOMAIN less.logs : two[i] = less.logs[j]
    BY <1>2, <2>1, EitherLog
  <2> HIDE DEF two
  <2>4. \A i \in DOMAIN two : two[i].event # "Transfer" /\ two[i].contract # Farm
    BY <1>2, <1>8, <2>1, <2>3 DEF Supernova, Farm
  <2> DEFINE all == two \o more.logs
  <2>5. all \in Seq(LogSet) /\ \A w : Told(two, w) \/ Told(more.logs, w) => Told(all, w)
    BY <1>4, <2>2, ConcatProperties, ToldTogether
  <2>6. \A i \in DOMAIN all : \/ \E j \in DOMAIN two : all[i] = two[j]
                              \/ \E j \in DOMAIN more.logs : all[i] = more.logs[j]
    BY <1>4, <2>2, EitherLog
  <2> HIDE DEF all
  <2>7. \A i \in DOMAIN all : all[i].event # "Transfer" /\ all[i].contract # Farm
    BY <1>4, <2>4, <2>6 DEF Supernova, Farm
  <2>8. all = logs
    BY DEF all, two, one
  <2> HIDE DEF logs
  <2> QED  BY <2>2, <2>5, <2>7, <2>8
<1> HIDE DEF logs
<1>10. ASSUME NEW t \in Tokens
       PROVE  /\ d.held[t] = c.held[t] + Amounts(logs, PaidOf(t))
              /\ FarmTotal(d, t) = FarmTotal(c, t) + Amounts(logs, FarmIn(t))
                                     - Amounts(logs, FarmOut(t))
  <2>1. /\ Amounts(logs, PaidOf(t)) = 0
        /\ Amounts(logs, FarmIn(t)) = 0 /\ Amounts(logs, FarmOut(t)) = 0
    BY <1>9, QuietLogs
  <2>2. FarmTotal(d, t) = FarmTotal(c, t)
    BY <1>6 DEF FarmTotal
  <2> QED  BY <1>6, <2>1, <2>2, FarmTotalIsInt
<1>11. ASSUME Sound(c), NEW w \in Users PROVE d.power[w] = SumOver(f, Backers(d, w))
  <2> DEFINE S == Backers(c, w)
             T == S \ {u}
  <2>1. /\ IsFiniteSet(S) /\ S \subseteq Users /\ (u \in S <=> old = w)
        /\ Backers(d, w) = IF w = to THEN T \cup {u} ELSE T
    BY <1>6, LedgerAssumption, FS_Subset DEF Backers
  <2>2. c.power[w] = SumOver(f, S)
    BY <1>11 DEF Sound
  <2> HIDE DEF S, f
  <2>3. IsFiniteSet(T) /\ u \notin T /\ T \subseteq Users
    <3>1. T \subseteq S /\ u \notin T
      OBVIOUS
    <3> HIDE DEF T
    <3> QED  BY <2>1, <3>1, FS_Subset
  <2>4. less.c.power[w] = SumOver(f, T)
    <3>1. CASE u \in S
      <4>0. IsFiniteSet(S) /\ \A v \in S : f[v] \in Int
        BY <1>1, <2>1
      <4>1. SumOver(f, S) = n + SumOver(f, T)
        BY <3>1, <4>0, SumWithout
      <4>2. SumOver(f, T) \in Int
        <5> HIDE DEF T
        <5> QED  BY <1>1, <2>3, SumStep
      <4>3. old = w
        BY <2>1, <3>1
      <4>4. less.c.power[w] = c.power[w] + minus
        BY <1>3, <4>3
      <4> HIDE DEF T, n
      <4> QED  BY <1>1, <2>2, <4>1, <4>2, <4>4
    <3>2. CASE u \notin S
      <4>1. T = S
        BY <3>2
      <4> HIDE DEF T
      <4> QED  BY <1>3, <2>1, <2>2, <3>2, <4>1
    <3> QED  BY <3>1, <3>2
  <2> HIDE DEF T
  <2>5. SumOver(f, T \cup {u}) = SumOver(f, T) + f[u]
    BY <1>1, <2>3, SumPlus
  <2> QED  BY <1>5, <1>6, <2>1, <2>4, <2>5
<1>12. ASSUME Sound(c)
       PROVE  /\ Sound(d)
              /\ \A w \in Users : d.power[w] > 0 => c.power[w] > 0 \/ Told(logs, w)
  <2>1. Sound(d)
    BY <1>6, <1>11, <1>12 DEF Sound
  <2>2. \A w \in Users : c.power[w] >= 0 /\ (old = w => c.power[w] - n >= 0)
    BY <1>12, SoundPowers
  <2> HIDE DEF old, n
  <2>3. \A w \in Users : less.c.power[w] >= 0
    BY <1>1, <1>3, <2>2
  <2> QED  BY <1>3, <1>5, <1>6, <1>9, <2>1, <2>2, <2>3
<1> QED  BY <1>7, <1>9, <1>10, <1>12 DEF Leads

\* What leaves stakes, delegations and powers alone keeps them sound.
LEMMA StillSound ==
  ASSUME NEW c \in ContractSet, NEW d \in ContractSet, NEW logs,
         d.balance = c.balance, d.delegatee = c.delegatee, d.power = c.power
  PROVE  Sound(c) => /\ Sound(d)
                     /\ \A u \in Users : d.power[u] > 0 => c.power[u] > 0 \/ Told(logs, u)
BY DEF Sound, Backers

LEMMA FarmedLeads ==
  ASSUME NEW c \in ContractSet, NEW u \in Users, NEW t \in Tokens, NEW n \in Int
  PROVE  Leads(c, Farmed(c, u, t, n).logs, Farmed(c, u, t, n).c)
<1> DEFINE mine == [c.farmed[u] EXCEPT ![t] = @ + n]
           farmed == [c.farmed EXCEPT ![u] = mine]
           d == [c EXCEPT !.farmed = farmed]
           first == IF n > 0 THEN Transfer(t, u, Farm, n) ELSE Transfer(t, Farm, u, -n)
           second == IF n > 0 THEN Log(Farm, "Deposit", u, t, n, 0)
                     ELSE Log(Farm, "Withdraw", u, t, -n, 0)
           logs == <<first, second>>
<1>1. Farmed(c, u, t, n).c = d /\ Farmed(c, u, t, n).logs = logs
  BY DEF Farmed
<1>2. \A v \in Users, s \in Tokens :
        /\ farmed[v][s] \in Int /\ c.farmed[v][s] \in Int
        /\ farmed[v][s] = IF v = u /\ s = t THEN c.farmed[v][s] + n ELSE c.farmed[v][s]
  <2>1. c.farmed \in [Users -> [Tokens -> Int]]
    BY DEF ContractSet
  <2>2. c.farmed[u] \in [Tokens -> Int]
    BY <2>1
  <2>3. /\ mine \in [Tokens -> Int]
        /\ \A s \in Tokens : mine[s] = IF s = t THEN c.farmed[u][s] + n ELSE c.farmed[u][s]
    BY <2>2
  <2> HIDE DEF mine
  <2>4. \A v \in Users : farmed[v] = IF v = u THEN mine ELSE c.farmed[v]
    BY <2>1
  <2> HIDE DEF farmed
  <2>5. \A v \in Users, s \in Tokens : c.farmed[v][s] \in Int
    BY <2>1
  <2>6. ASSUME NEW v \in Users, NEW s \in Tokens
        PROVE  /\ farmed[v][s] \in Int
               /\ farmed[v][s] = IF v = u /\ s = t THEN c.farmed[v][s] + n ELSE c.farmed[v][s]
    <3>1. CASE v = u
      <4>1. farmed[v][s] = mine[s] /\ mine[s] \in Int
        BY <2>3, <2>4, <3>1
      <4> QED  BY <2>3, <3>1, <4>1
    <3>2. CASE v # u
      <4>1. farmed[v][s] = c.farmed[v][s]
        BY <2>4, <3>2
      <4> QED  BY <2>5, <3>2, <4>1
    <3> QED  BY <3>1, <3>2
  <2> QED  BY <2>5, <2>6
<1>3. /\ Farmed(c, u, t, n).c \in ContractSet /\ Farmed(c, u, t, n).logs \in LogSeqs
  BY FarmedTypes
<1> HIDE DEF farmed
<1>4. /\ d.farmed = farmed /\ d.held = c.held /\ d.balance = c.balance
      /\ d.delegatee = c.delegatee /\ d.power = c.power
  BY DEF ContractSet
<1> HIDE DEF d
<1>5. first \in LogSet /\ second \in LogSet
  <2>1. {u, Farm} \subseteq Accounts /\ Farm \in Tokens \cup {Supernova, Farm}
    BY DEF Accounts
  <2>2. {"Transfer", "Deposit", "Withdraw"} \subseteq Events
    BY DEF Events
  <2> QED  BY <2>1, <2>2, LogType DEF Transfer
<1>6. /\ first.event = "Transfer" /\ first.from # Treasury /\ first.to # Treasury
      /\ second.event = IF n > 0 THEN "Deposit" ELSE "Withdraw"
      /\ second.contract = Farm /\ second.to = t
      /\ second.amount = IF n > 0 THEN n ELSE -n
  BY LedgerAssumption DEF Transfer, Log, Farm, Treasury
<1> HIDE DEF first, second
<1>7. ASSUME NEW s \in Tokens
      PROVE  /\ d.held[s] = c.held[s] + Amounts(logs, PaidOf(s))
             /\ FarmTotal(d, s) = FarmTotal(c, s) + Amounts(logs, FarmIn(s))
                                    - Amounts(logs, FarmOut(s))
  <2> DEFINE f == [v \in Users |-> c.farmed[v][s]]
             g == [v \in Users |-> farmed[v][s]]
  <2>1. FarmTotal(c, s) = SumOver(f, Users) /\ FarmTotal(d, s) = SumOver(g, Users)
    BY <1>4 DEF FarmTotal
  <2>2. /\ \A v \in Users : f[v] \in Int /\ g[v] \in Int /\ (v # u => f[v] = g[v])
        /\ g[u] = IF s = t THEN f[u] + n ELSE f[u]
    BY <1>2
  <2> HIDE DEF f, g
  <2>3. SumOver(g, Users) = SumOver(f, Users) + g[u] - f[u] /\ SumOver(f, Users) \in Int
    <3>1. IsFiniteSet(Users)
      BY LedgerAssumption
    <3>2. SumOver(g, Users) = SumOver(f, Users) + g[u] - f[u]
      BY <2>2, <3>1, SumChanged
    <3>3. SumOver(f, Users) \in Int
      BY <2>2, <3>1, SumStep
    <3> QED  BY <3>2, <3>3
  <2>4. SumOver(g, Users) = SumOver(f, Users) + (IF s = t THEN n ELSE 0)
    <3> DEFINE a == SumOver(f, Users)
               b == SumOver(g, Users)
               x == f[u]
               y == g[u]
    <3>1. a \in Int /\ x \in Int /\ y \in Int /\ b = a + y - x
          /\ y = IF s = t THEN x + n ELSE x
      BY <2>2, <2>3
    <3> HIDE DEF a, b, x, y
    <3>2. b = a + (IF s = t THEN n ELSE 0)
      BY <3>1
    <3> QED  BY <3>2 DEF a, b
  <2>5. first \notin PaidOf(s) /\ second \notin PaidOf(s)
        /\ first \notin FarmIn(s) /\ first \notin FarmOut(s)
    BY <1>6 DEF PaidOf, FarmIn, FarmOut
  <2>6. /\ second \in FarmIn(s) <=> n > 0 /\ s = t
        /\ second \in FarmOut(s) <=> ~(n > 0) /\ s = t
    BY <1>5, <1>6 DEF FarmIn, FarmOut
  <2>7. /\ Amounts(logs, PaidOf(s)) = 0
        /\ Amounts(logs, FarmIn(s)) = IF n > 0 /\ s = t THEN n ELSE 0
        /\ Amounts(logs, FarmOut(s)) = IF ~(n > 0) /\ s = t THEN -n ELSE 0
    <3>1. Amounts(logs, PaidOf(s)) = 0 + 0
      BY <1>5, <2>5, AmountsTwo
    <3>2. Amounts(logs, FarmIn(s)) = 0 + (IF second \in FarmIn(s) THEN second.amount ELSE 0)
      BY <1>5, <2>5, AmountsTwo
    <3>3. Amounts(logs, FarmOut(s)) = 0 + (IF second \in FarmOut(s) THEN second.amount ELSE 0)
      BY <1>5, <2>5, AmountsTwo
    <3> HIDE DEF logs
    <3> QED  BY <1>6, <2>6, <3>1, <3>2, <3>3
  <2> HIDE DEF logs
  <2>8. c.held[s] \in Int
    BY FarmTotalIsInt
  <2>9. d.held[s] = c.held[s] + Amounts(logs, PaidOf(s))
    BY <1>4, <2>7, <2>8
  <2> QED  BY <2>1, <2>3, <2>4, <2>7, <2>9
<1>8. \A i \in DOMAIN logs : logs[i].event = "Transfer" => logs[i].from # Treasury
  <2>1. DOMAIN logs = {1, 2} /\ logs[1] = first /\ logs[2] = second
    OBVIOUS
  <2>2. second.event # "Transfer"
    BY <1>6
  <2> HIDE DEF logs
  <2> QED  BY <1>6, <2>1, <2>2
<1> HIDE DEF logs
<1>9. Sound(c) => /\ Sound(d)
                  /\ \A v \in Users : d.power[v] > 0 => c.power[v] > 0 \/ Told(logs, v)
  <2>1. d \in ContractSet
    BY <1>1, <1>3
  <2> QED  BY <1>4, <2>1, StillSound
<1> QED  BY <1>1, <1>7, <1>8, <1>9 DEF Leads

LEMMA LockedLeads ==
  ASSUME NEW c \in ContractSet, NEW u \in Users, NEW n \in Int
  PROVE  Leads(c, <<Log(Supernova, "Lock", u, Zero, n, 0)>>, [c EXCEPT !.until[u] = n])
<1> DEFINE until == [c.until EXCEPT ![u] = n]
           d == [c EXCEPT !.until = until]
           l == Log(Supernova, "Lock", u, Zero, n, 0)
           logs == <<l>>
<1>1. [c EXCEPT !.until[u] = n] = d
  OBVIOUS
<1>2. until \in [Users -> Int]
  BY DEF ContractSet
<1> HIDE DEF until
<1>3. /\ d \in ContractSet /\ d.farmed = c.farmed /\ d.held = c.held /\ d.balance = c.balance
      /\ d.delegatee = c.delegatee /\ d.power = c.power
  BY <1>2 DEF ContractSet
<1> HIDE DEF d
<1>4. l \in LogSet /\ l.event # "Transfer" /\ l.contract # Farm
  <2>1. /\ u \in Accounts /\ Zero \in Accounts \cup Tokens /\ "Lock" \in Events
        /\ Supernova \in Tokens \cup {Supernova, Farm} /\ 0 \in Int
    BY DEF Accounts, Events
  <2>2. l.event = "Lock" /\ l.contract = Supernova
    BY DEF Log
  <2>3. l \in LogSet
    BY <2>1, LogType
  <2> QED  BY <2>2, <2>3 DEF Supernova, Farm
<1> HIDE DEF l
<1>5. logs \in Seq(LogSet) /\ \A i \in DOMAIN logs : logs[i] = l
  BY <1>4
<1> HIDE DEF logs
<1>6. ASSUME NEW t \in Tokens
      PROVE  /\ d.held[t] = c.held[t] + Amounts(logs, PaidOf(t))
             /\ FarmTotal(d, t) = FarmTotal(c, t) + Amounts(logs, FarmIn(t))
                                    - Amounts(logs, FarmOut(t))
  <2>1. /\ Amounts(logs, PaidOf(t)) = 0
        /\ Amounts(logs, FarmIn(t)) = 0 /\ Amounts(logs, FarmOut(t)) = 0
    BY <1>4, <1>5, QuietLogs
  <2>2. FarmTotal(d, t) = FarmTotal(c, t)
    BY <1>3 DEF FarmTotal
  <2> QED  BY <1>3, <2>1, <2>2, FarmTotalIsInt
<1>7. Sound(c) => /\ Sound(d)
                  /\ \A v \in Users : d.power[v] > 0 => c.power[v] > 0 \/ Told(logs, v)
  BY <1>3, StillSound
<1>8. Leads(c, logs, d)
  BY <1>4, <1>5, <1>6, <1>7 DEF Leads
<1> QED  BY <1>1, <1>8 DEF logs, l

LEMMA PaidLeads ==
  ASSUME NEW c \in ContractSet, NEW u \in Users, NEW to \in Tokens, NEW n \in Int
  PROVE  Leads(c, <<Transfer(to, u, Treasury, n)>>, [c EXCEPT !.held[to] = @ + n])
<1> DEFINE held == [c.held EXCEPT ![to] = @ + n]
           d == [c EXCEPT !.held = held]
           l == Transfer(to, u, Treasury, n)
           logs == <<l>>
<1>1. [c EXCEPT !.held[to] = @ + n] = d
  OBVIOUS
<1>2. /\ held \in [Tokens -> Int] /\ c.held \in [Tokens -> Int]
      /\ \A t \in Tokens : held[t] = IF t = to THEN c.held[t] + n ELSE c.held[t]
  BY DEF ContractSet
<1> HIDE DEF held
<1>3. /\ d \in ContractSet /\ d.farmed = c.farmed /\ d.held = held /\ d.balance = c.balance
      /\ d.delegatee = c.delegatee /\ d.power = c.power
  BY <1>2 DEF ContractSet
<1> HIDE DEF d
<1>4. l \in LogSet
  <2>1. /\ u \in Accounts /\ Treasury \in Accounts \cup Tokens /\ "Transfer" \in Events
        /\ to \in Tokens \cup {Supernova, Farm} /\ 0 \in Int
    BY DEF Accounts, Events
  <2> QED  BY <2>1, LogType DEF Transfer
<1>5. l.event = "Transfer" /\ l.contract = to /\ l.from # Treasury /\ l.to = Treasury
      /\ l.amount = n
  BY LedgerAssumption DEF Transfer, Log
<1> HIDE DEF l
<1>6. ASSUME NEW t \in Tokens
      PROVE  /\ d.held[t] = c.held[t] + Amounts(logs, PaidOf(t))
             /\ FarmTotal(d, t) = FarmTotal(c, t) + Amounts(logs, FarmIn(t))
                                    - Amounts(logs, FarmOut(t))
  <2>1. /\ l \in PaidOf(t) <=> t = to
        /\ l \notin FarmIn(t) /\ l \notin FarmOut(t)
    BY <1>4, <1>5 DEF PaidOf, FarmIn, FarmOut
  <2>2. /\ Amounts(logs, PaidOf(t)) = IF t = to THEN n ELSE 0
        /\ Amounts(logs, FarmIn(t)) = 0 /\ Amounts(logs, FarmOut(t)) = 0
    BY <1>4, <1>5, <2>1, AmountsOne
  <2>3. FarmTotal(d, t) = FarmTotal(c, t)
    BY <1>3 DEF FarmTotal
  <2> HIDE DEF logs
  <2>4. d.held[t] = c.held[t] + Amounts(logs, PaidOf(t))
    BY <1>2, <1>3, <2>2
  <2> QED  BY <2>2, <2>3, <2>4, FarmTotalIsInt
<1>7. \A i \in DOMAIN logs : logs[i].event = "Transfer" => logs[i].from # Treasury
  BY <1>5
<1> HIDE DEF logs
<1>8. Sound(c) => /\ Sound(d)
                  /\ \A v \in Users : d.power[v] > 0 => c.power[v] > 0 \/ Told(logs, v)
  BY <1>3, StillSound
<1>9. Leads(c, logs, d)
  BY <1>6, <1>7, <1>8 DEF Leads
<1> QED  BY <1>1, <1>9 DEF logs, l

LEMMA OutcomeLeads ==
  ASSUME NEW c \in ContractSet, NEW call \in Calls, NEW now, Accepted(c, call, now)
  PROVE  Leads(c, Outcome(c, call).logs, Outcome(c, call).c)
<1> DEFINE u == call.user
           n == call.n
           to == call.to
           o == Outcome(c, call)
<1>1. u \in Users /\ n \in Nat /\ n \in Int /\ -n \in Int /\ c.balance[u] \in Int
  BY StorablesAssumption DEF ContractSet
<1>2. CASE call.kind = "deposit"
  <2>1. o = Staked(c, u, n)
    BY <1>2, Zenon DEF Outcome
  <2>2. Sound(c) => c.balance[u] + n >= 0
    <3>1. Sound(c) => c.balance[u] >= 0
      BY <1>1 DEF Sound
    <3> QED  BY <1>1, <3>1
  <2> HIDE DEF u, n, o
  <2> QED  BY <1>1, <2>1, <2>2, StakedLeads DEF o
<1>3. CASE call.kind = "withdraw"
  <2> DEFINE m == -n
  <2>1. o = Staked(c, u, m)
    BY <1>3, Zenon DEF Outcome
  <2>2. c.balance[u] >= n
    BY <1>3, Zenon DEF Accepted
  <2>3. c.balance[u] + m >= 0 /\ m \in Int
    BY <1>1, <2>2
  <2> HIDE DEF u, n, o, m
  <2> QED  BY <1>1, <2>1, <2>3, StakedLeads DEF o
<1>4. CASE call.kind = "lock"
  <2>1. o = [c |-> [c EXCEPT !.until[u] = n], logs |-> <<Log(Supernova, "Lock", u, Zero, n, 0)>>]
    BY <1>4, Zenon DEF Outcome
  <2>2. /\ o.c = [c EXCEPT !.until[u] = n]
        /\ o.logs = <<Log(Supernova, "Lock", u, Zero, n, 0)>>
    BY <2>1
  <2> HIDE DEF u, n, o
  <2> QED  BY <1>1, <2>2, LockedLeads DEF o
<1>5. CASE call.kind = "delegate"
  <2>1. o = Redelegated(c, u, to)
    BY <1>5, Zenon DEF Outcome
  <2>2. to \in Users \cup {Zero}
    BY <1>5, StorablesAssumption
  <2> HIDE DEF u, to, o
  <2> QED  BY <1>1, <2>1, <2>2, RedelegatedLeads DEF o
<1>6. CASE call.kind = "farm"
  <2>1. o = Farmed(c, u, to, n)
    BY <1>6, Zenon DEF Outcome
  <2>2. to \in Tokens
    BY <1>6, StorablesAssumption
  <2> HIDE DEF u, n, to, o
  <2> QED  BY <1>1, <2>1, <2>2, FarmedLeads DEF o
<1>7. CASE call.kind = "unfarm"
  <2> DEFINE m == -n
  <2>1. o = Farmed(c, u, to, m)
    BY <1>7, Zenon DEF Outcome
  <2>2. to \in Tokens /\ m \in Int
    BY <1>1, <1>7, StorablesAssumption
  <2> HIDE DEF u, n, to, o, m
  <2> QED  BY <1>1, <2>1, <2>2, FarmedLeads DEF o
<1>8. CASE call.kind = "pay"
  <2>1. o = [c |-> [c EXCEPT !.held[to] = @ + n], logs |-> <<Transfer(to, u, Treasury, n)>>]
    BY <1>8, Zenon DEF Outcome
  <2>2. o.c = [c EXCEPT !.held[to] = @ + n] /\ o.logs = <<Transfer(to, u, Treasury, n)>>
    BY <2>1
  <2>3. to \in Tokens
    BY <1>8, StorablesAssumption
  <2> HIDE DEF u, n, to, o
  <2> QED  BY <1>1, <2>2, <2>3, PaidLeads DEF o
<1> QED  BY <1>2, <1>3, <1>4, <1>5, <1>6, <1>7, <1>8, StorablesAssumption

-----------------------------------------------------------------------------
(* What the logs say of supernova                                         *)

\* The logs that say what a user stakes, until when it is locked, to whom it is delegated and
\* what is delegated to them.
StakeOf(u) ==
  {l \in LogSet : l.contract = Supernova /\ l.event \in {"Deposit", "Withdraw"} /\ l.from = u}
LockOf(u) == {l \in LogSet : l.contract = Supernova /\ l.event = "Lock" /\ l.from = u}
DelegateOf(u) == {l \in LogSet : l.contract = Supernova /\ l.event = "Delegate" /\ l.from = u}
PowerOf(u) ==
  {l \in LogSet : /\ l.contract = Supernova
                  /\ l.event \in {"DelegatedPowerIncreased", "DelegatedPowerDecreased"}
                  /\ l.to = u}
LogsWith(event) == {l \in LogSet : l.contract = Supernova /\ l.event = event}

\* The last log of a kind has the new value; without one the old value stays.
Sets(logs, kind, field, old, new) ==
  \/ Picked(logs, kind) = {} /\ new = old
  \/ \E i \in Picked(logs, kind) : logs[i][field] = new /\ \A j \in Picked(logs, kind) : j <= i

\* The last logs of a user say what supernova has of them, and the amounts of all what it has
\* of all of them.
Tracks(c, logs, d) ==
  /\ \A u \in Users :
       /\ Sets(logs, StakeOf(u), "after", c.balance[u], d.balance[u])
       /\ Sets(logs, LockOf(u), "amount", c.until[u], d.until[u])
       /\ Sets(logs, DelegateOf(u), "to", c.delegatee[u], d.delegatee[u])
       /\ Sets(logs, PowerOf(u), "after", c.power[u], d.power[u])
  /\ SumOver(d.balance, Users)
       = SumOver(c.balance, Users) + Amounts(logs, LogsWith("Deposit"))
           - Amounts(logs, LogsWith("Withdraw"))
  /\ SumOver(d.power, Users)
       = SumOver(c.power, Users) + Amounts(logs, LogsWith("DelegatedPowerIncreased"))
           - Amounts(logs, LogsWith("DelegatedPowerDecreased"))

LEMMA SupernovaTotals ==
  ASSUME NEW c \in ContractSet
  PROVE  SumOver(c.balance, Users) \in Int /\ SumOver(c.power, Users) \in Int
<1>1. /\ \A u \in Users : c.balance[u] \in Int /\ c.power[u] \in Int
      /\ IsFiniteSet(Users)
  BY LedgerAssumption DEF ContractSet
<1> QED  BY <1>1, SumStep

LEMMA SetsTogether ==
  ASSUME NEW a \in Seq(LogSet), NEW b \in Seq(LogSet), NEW kind, NEW field, NEW x, NEW y, NEW z,
         Sets(a, kind, field, x, y), Sets(b, kind, field, y, z)
  PROVE  Sets(a \o b, kind, field, x, z)
<1> DEFINE logs == a \o b
           m == Len(a)
           A == Picked(a, kind)
           B == Picked(b, kind)
           C == Picked(logs, kind)
<1>1. /\ m \in Nat /\ Len(b) \in Nat
      /\ DOMAIN a = 1 .. m /\ DOMAIN b = 1 .. Len(b) /\ DOMAIN logs = 1 .. m + Len(b)
      /\ \A i \in 1 .. m : logs[i] = a[i]
      /\ \A i \in 1 .. Len(b) : logs[m + i] = b[i]
  OBVIOUS
<1> HIDE DEF logs, m
<1>2. A \subseteq 1 .. m /\ B \subseteq 1 .. Len(b)
  BY <1>1 DEF Picked
<1>3. ASSUME NEW i \in C PROVE i \in A \/ (i - m \in B /\ i = m + (i - m))
  <2>1. i \in 1 .. m + Len(b) /\ logs[i] \in kind
    BY <1>1 DEF Picked
  <2>2. CASE i \in 1 .. m
    BY <1>1, <2>1, <2>2 DEF Picked
  <2>3. CASE i \notin 1 .. m
    <3>1. i - m \in 1 .. Len(b) /\ i = m + (i - m)
      BY <1>1, <2>1, <2>3
    <3>2. logs[i] = b[i - m]
      BY <1>1, <3>1
    <3> QED  BY <1>1, <2>1, <3>1, <3>2 DEF Picked
  <2> QED  BY <2>2, <2>3
<1>4. A \subseteq C
  BY <1>1 DEF Picked
<1>5. ASSUME NEW i \in B PROVE m + i \in C /\ logs[m + i] = b[i]
  <2>1. i \in 1 .. Len(b) /\ b[i] \in kind
    BY <1>1 DEF Picked
  <2>2. m + i \in 1 .. m + Len(b) /\ logs[m + i] = b[i]
    BY <1>1, <2>1
  <2> QED  BY <1>1, <2>1, <2>2 DEF Picked
<1>6. CASE \E i \in B : b[i][field] = z /\ \A j \in B : j <= i
  <2>1. PICK i \in B : b[i][field] = z /\ \A j \in B : j <= i
    BY <1>6
  <2>2. m + i \in C /\ logs[m + i][field] = z
    BY <1>5, <2>1
  <2> HIDE DEF A, B, C
  <2>3. ASSUME NEW j \in C PROVE j <= m + i
    <3>1. CASE j \in A
      BY <1>1, <1>2, <3>1
    <3>2. CASE j - m \in B /\ j = m + (j - m)
      <4> DEFINE k == j - m
      <4>1. k \in B /\ j = m + k
        BY <3>2
      <4> HIDE DEF k
      <4>2. k <= i /\ k \in Int /\ i \in Int
        BY <1>2, <2>1, <4>1
      <4> QED  BY <1>1, <4>1, <4>2
    <3> QED  BY <1>3, <3>1, <3>2
  <2>4. \E k \in C : logs[k][field] = z /\ \A j \in C : j <= k
    BY <2>2, <2>3
  <2> QED  BY <2>4 DEF C, Sets, logs
<1>7. CASE B = {} /\ z = y
  <2>1. C = A
    BY <1>3, <1>4, <1>7
  <2>2. CASE A = {} /\ y = x
    BY <1>7, <2>1, <2>2 DEF Sets, C, logs
  <2>3. CASE \E i \in A : a[i][field] = y /\ \A j \in A : j <= i
    <3>1. PICK i \in A : a[i][field] = y /\ \A j \in A : j <= i
      BY <2>3
    <3>2. logs[i] = a[i]
      BY <1>1, <1>2
    <3> HIDE DEF A, C
    <3>3. \E k \in C : logs[k][field] = z /\ \A j \in C : j <= k
      BY <1>7, <2>1, <3>1, <3>2
    <3> QED  BY <3>3 DEF C, Sets, logs
  <2> QED  BY <2>2, <2>3 DEF Sets
<1> QED  BY <1>6, <1>7 DEF Sets

LEMMA TracksTogether ==
  ASSUME NEW c \in ContractSet, NEW d \in ContractSet, NEW e \in ContractSet,
         NEW a \in Seq(LogSet), NEW b \in Seq(LogSet), Tracks(c, a, d), Tracks(d, b, e)
  PROVE  Tracks(c, a \o b, e)
<1> DEFINE logs == a \o b
<1>1. ASSUME NEW u \in Users
      PROVE  /\ Sets(logs, StakeOf(u), "after", c.balance[u], e.balance[u])
             /\ Sets(logs, LockOf(u), "amount", c.until[u], e.until[u])
             /\ Sets(logs, DelegateOf(u), "to", c.delegatee[u], e.delegatee[u])
             /\ Sets(logs, PowerOf(u), "after", c.power[u], e.power[u])
  BY SetsTogether DEF Tracks
<1>2. \A kind : /\ Amounts(logs, kind) = Amounts(a, kind) + Amounts(b, kind)
                /\ Amounts(a, kind) \in Int /\ Amounts(b, kind) \in Int
  BY AmountsTogether, AmountsAreInt
<1> HIDE DEF logs
<1>3. /\ SumOver(c.balance, Users) \in Int /\ SumOver(c.power, Users) \in Int
      /\ SumOver(d.balance, Users) \in Int /\ SumOver(d.power, Users) \in Int
  BY SupernovaTotals
<1>4. ASSUME NEW p, NEW q, NEW r, NEW up, NEW down, p \in Int, q \in Int,
             q = p + Amounts(a, up) - Amounts(a, down),
             r = q + Amounts(b, up) - Amounts(b, down)
      PROVE  r = p + Amounts(logs, up) - Amounts(logs, down)
  <2>1. /\ Amounts(logs, up) = Amounts(a, up) + Amounts(b, up)
        /\ Amounts(a, up) \in Int /\ Amounts(b, up) \in Int
        /\ Amounts(logs, down) = Amounts(a, down) + Amounts(b, down)
        /\ Amounts(a, down) \in Int /\ Amounts(b, down) \in Int
    BY <1>2
  <2> QED  BY <1>4, <2>1
<1>5. /\ SumOver(e.balance, Users)
           = SumOver(c.balance, Users) + Amounts(logs, LogsWith("Deposit"))
               - Amounts(logs, LogsWith("Withdraw"))
      /\ SumOver(e.power, Users)
           = SumOver(c.power, Users) + Amounts(logs, LogsWith("DelegatedPowerIncreased"))
               - Amounts(logs, LogsWith("DelegatedPowerDecreased"))
  <2> DEFINE p == SumOver(c.balance, Users)
             q == SumOver(d.balance, Users)
             r == SumOver(e.balance, Users)
             x == SumOver(c.power, Users)
             y == SumOver(d.power, Users)
             z == SumOver(e.power, Users)
             A(event) == Amounts(a, LogsWith(event))
             B(event) == Amounts(b, LogsWith(event))
  <2>1. /\ q = p + A("Deposit") - A("Withdraw") /\ r = q + B("Deposit") - B("Withdraw")
        /\ y = x + A("DelegatedPowerIncreased") - A("DelegatedPowerDecreased")
        /\ z = y + B("DelegatedPowerIncreased") - B("DelegatedPowerDecreased")
        /\ p \in Int /\ q \in Int /\ x \in Int /\ y \in Int
    BY <1>3 DEF Tracks
  <2> HIDE DEF p, q, r, x, y, z
  <2>2. r = p + Amounts(logs, LogsWith("Deposit")) - Amounts(logs, LogsWith("Withdraw"))
    BY <1>4, <2>1
  <2>3. z = x + Amounts(logs, LogsWith("DelegatedPowerIncreased"))
              - Amounts(logs, LogsWith("DelegatedPowerDecreased"))
    BY <1>4, <2>1
  <2> QED  BY <2>2, <2>3 DEF p, r, x, z
<1> QED  BY <1>1, <1>5 DEF Tracks, logs

LEMMA TracksNowhere == ASSUME NEW c \in ContractSet PROVE Tracks(c, <<>>, c)
<1>1. \A kind : Amounts(<<>>, kind) = 0 /\ Picked(<<>>, kind) = {}
  <2>1. <<>> \in Seq(LogSet) /\ DOMAIN <<>> = {}
    OBVIOUS
  <2> QED  BY <2>1, AmountsNone DEF Picked
<1> QED  BY <1>1, SupernovaTotals DEF Tracks, Sets

LEMMA OneLogTracks ==
  ASSUME NEW c \in ContractSet, NEW d \in ContractSet, NEW l \in LogSet,
         \A u \in Users :
           /\ d.balance[u] = IF l \in StakeOf(u) THEN l.after ELSE c.balance[u]
           /\ d.until[u] = IF l \in LockOf(u) THEN l.amount ELSE c.until[u]
           /\ d.delegatee[u] = IF l \in DelegateOf(u) THEN l.to ELSE c.delegatee[u]
           /\ d.power[u] = IF l \in PowerOf(u) THEN l.after ELSE c.power[u],
         SumOver(d.balance, Users)
           = SumOver(c.balance, Users) + (IF l \in LogsWith("Deposit") THEN l.amount ELSE 0)
               - (IF l \in LogsWith("Withdraw") THEN l.amount ELSE 0),
         SumOver(d.power, Users)
           = SumOver(c.power, Users)
               + (IF l \in LogsWith("DelegatedPowerIncreased") THEN l.amount ELSE 0)
               - (IF l \in LogsWith("DelegatedPowerDecreased") THEN l.amount ELSE 0)
  PROVE  Tracks(c, <<l>>, d)
<1> DEFINE logs == <<l>>
<1>1. logs \in Seq(LogSet) /\ DOMAIN logs = {1} /\ logs[1] = l
  OBVIOUS
<1>2. \A kind : Amounts(logs, kind) = IF l \in kind THEN l.amount ELSE 0
  BY AmountsOne
<1> HIDE DEF logs
<1>3. ASSUME NEW kind, NEW field, NEW old, NEW new, new = IF l \in kind THEN l[field] ELSE old
      PROVE  Sets(logs, kind, field, old, new)
  <2>1. CASE l \in kind
    <3>1. Picked(logs, kind) = {1}
      BY <1>1, <2>1 DEF Picked
    <3>2. logs[1][field] = new /\ \A j \in {1} : j <= 1
      BY <1>1, <1>3, <2>1
    <3> QED  BY <3>1, <3>2 DEF Sets
  <2>2. CASE l \notin kind
    <3>1. Picked(logs, kind) = {}
      BY <1>1, <2>2 DEF Picked
    <3> QED  BY <1>3, <2>2, <3>1 DEF Sets
  <2> QED  BY <2>1, <2>2
<1>4. ASSUME NEW u \in Users
      PROVE  /\ Sets(logs, StakeOf(u), "after", c.balance[u], d.balance[u])
             /\ Sets(logs, LockOf(u), "amount", c.until[u], d.until[u])
             /\ Sets(logs, DelegateOf(u), "to", c.delegatee[u], d.delegatee[u])
             /\ Sets(logs, PowerOf(u), "after", c.power[u], d.power[u])
  <2>1. /\ d.balance[u] = IF l \in StakeOf(u) THEN l["after"] ELSE c.balance[u]
        /\ d.until[u] = IF l \in LockOf(u) THEN l["amount"] ELSE c.until[u]
        /\ d.delegatee[u] = IF l \in DelegateOf(u) THEN l["to"] ELSE c.delegatee[u]
        /\ d.power[u] = IF l \in PowerOf(u) THEN l["after"] ELSE c.power[u]
    OBVIOUS
  <2> QED  BY <1>3, <2>1
<1>5. /\ SumOver(d.balance, Users)
           = SumOver(c.balance, Users) + Amounts(logs, LogsWith("Deposit"))
               - Amounts(logs, LogsWith("Withdraw"))
      /\ SumOver(d.power, Users)
           = SumOver(c.power, Users) + Amounts(logs, LogsWith("DelegatedPowerIncreased"))
               - Amounts(logs, LogsWith("DelegatedPowerDecreased"))
  <2>1. /\ Amounts(logs, LogsWith("Deposit")) = IF l \in LogsWith("Deposit") THEN l.amount ELSE 0
        /\ Amounts(logs, LogsWith("Withdraw")) = IF l \in LogsWith("Withdraw") THEN l.amount ELSE 0
        /\ Amounts(logs, LogsWith("DelegatedPowerIncreased"))
             = IF l \in LogsWith("DelegatedPowerIncreased") THEN l.amount ELSE 0
        /\ Amounts(logs, LogsWith("DelegatedPowerDecreased"))
             = IF l \in LogsWith("DelegatedPowerDecreased") THEN l.amount ELSE 0
    BY <1>2
  <2> QED  BY <2>1, Zenon
<1> QED  BY <1>4, <1>5 DEF Tracks, logs

\* A log of something else, or of a transfer.
LEMMA OtherLogTracks ==
  ASSUME NEW c \in ContractSet, NEW d \in ContractSet, NEW l \in LogSet,
         l.contract # Supernova \/ l.event = "Transfer",
         d.balance = c.balance, d.until = c.until, d.delegatee = c.delegatee, d.power = c.power
  PROVE  Tracks(c, <<l>>, d)
<1>1. ASSUME NEW u \in Users
      PROVE  /\ l \notin StakeOf(u) /\ l \notin LockOf(u)
             /\ l \notin DelegateOf(u) /\ l \notin PowerOf(u)
  BY DEF StakeOf, LockOf, DelegateOf, PowerOf
<1>2. /\ l \notin LogsWith("Deposit") /\ l \notin LogsWith("Withdraw")
      /\ l \notin LogsWith("DelegatedPowerIncreased")
      /\ l \notin LogsWith("DelegatedPowerDecreased")
  BY DEF LogsWith
<1>3. SumOver(c.balance, Users) \in Int /\ SumOver(c.power, Users) \in Int
  BY SupernovaTotals
<1>4. /\ SumOver(d.balance, Users)
           = SumOver(c.balance, Users) + (IF l \in LogsWith("Deposit") THEN l.amount ELSE 0)
               - (IF l \in LogsWith("Withdraw") THEN l.amount ELSE 0)
      /\ SumOver(d.power, Users)
           = SumOver(c.power, Users)
               + (IF l \in LogsWith("DelegatedPowerIncreased") THEN l.amount ELSE 0)
               - (IF l \in LogsWith("DelegatedPowerDecreased") THEN l.amount ELSE 0)
  BY <1>2, <1>3
<1>5. \A u \in Users :
        /\ d.balance[u] = IF l \in StakeOf(u) THEN l.after ELSE c.balance[u]
        /\ d.until[u] = IF l \in LockOf(u) THEN l.amount ELSE c.until[u]
        /\ d.delegatee[u] = IF l \in DelegateOf(u) THEN l.to ELSE c.delegatee[u]
        /\ d.power[u] = IF l \in PowerOf(u) THEN l.after ELSE c.power[u]
  BY <1>1
<1> QED  BY <1>4, <1>5, OneLogTracks

LEMMA DelegatedTracks ==
  ASSUME NEW b \in ContractSet, NEW c \in ContractSet, NEW e \in ContractSet,
         NEW u \in Users, NEW to \in Users \cup {Zero}, NEW n \in Int
  PROVE  /\ b.power = c.power
         /\ e.balance = c.balance /\ e.until = c.until /\ e.delegatee = c.delegatee
         /\ e.power = Delegated(b, u, to, n).c.power
         => Tracks(c, Delegated(b, u, to, n).logs, e)
<1>a. \A w \in Users : Delegated(b, u, to, n).c.power[w]
                         = IF w = to THEN b.power[w] + n ELSE b.power[w]
  BY DelegatedIs
<1> SUFFICES ASSUME b.power = c.power,
                    e.balance = c.balance, e.until = c.until, e.delegatee = c.delegatee,
                    e.power = Delegated(b, u, to, n).c.power
             PROVE  Tracks(c, Delegated(b, u, to, n).logs, e)
  OBVIOUS
<1>1. \A w \in Users : e.power[w] = IF w = to THEN c.power[w] + n ELSE c.power[w]
  BY <1>a
<1>2. \A w \in Users : c.power[w] \in Int /\ e.power[w] \in Int
  BY DEF ContractSet
<1>3. CASE to = Zero \/ n = 0
  <2>1. Delegated(b, u, to, n).logs = <<>> /\ e.power = c.power
    BY <1>3 DEF Delegated
  <2>2. Tracks(c, <<>>, c)
    BY TracksNowhere
  <2>3. Tracks(c, <<>>, e)
    BY <2>1, <2>2 DEF Tracks
  <2> QED  BY <2>1, <2>3
<1>4. CASE to # Zero /\ n # 0
  <2> DEFINE event == IF n > 0 THEN "DelegatedPowerIncreased" ELSE "DelegatedPowerDecreased"
             amount == IF n > 0 THEN n ELSE -n
             l == Log(Supernova, event, u, to, amount, c.power[to] + n)
  <2>1. Delegated(b, u, to, n).logs = <<l>>
    BY <1>4 DEF Delegated
  <2>2. to \in Users
    BY <1>4
  <2>3. l \in LogSet
    <3>1. /\ u \in Accounts /\ to \in Accounts \cup Tokens /\ event \in Events
          /\ Supernova \in Tokens \cup {Supernova, Farm} /\ event # "Transfer"
      BY DEF Accounts, Events
    <3>2. amount \in Int /\ c.power[to] + n \in Int
      BY <1>2, <2>2
    <3> HIDE DEF event, amount
    <3> QED  BY <2>2, <3>1, <3>2, LogType
  <2>4. /\ l.contract = Supernova /\ l.event = event /\ l.from = u /\ l.to = to
        /\ l.amount = amount /\ l.after = c.power[to] + n
    BY DEF Log
  <2> HIDE DEF l
  <2>5. ASSUME NEW w \in Users
        PROVE  /\ l \notin StakeOf(w) /\ l \notin LockOf(w) /\ l \notin DelegateOf(w)
               /\ l \in PowerOf(w) <=> w = to
    BY <2>3, <2>4 DEF StakeOf, LockOf, DelegateOf, PowerOf
  <2>6. /\ l \notin LogsWith("Deposit") /\ l \notin LogsWith("Withdraw")
        /\ l \in LogsWith("DelegatedPowerIncreased") <=> n > 0
        /\ l \in LogsWith("DelegatedPowerDecreased") <=> ~(n > 0)
    BY <2>3, <2>4 DEF LogsWith
  <2>7. SumOver(e.power, Users) = SumOver(c.power, Users) + e.power[to] - c.power[to]
    <3> DEFINE f == c.power
               g == e.power
    <3>1. /\ IsFiniteSet(Users) /\ \A y \in Users : f[y] \in Int /\ g[y] \in Int
          /\ \A y \in Users : y # to => f[y] = g[y]
      BY <1>1, <1>2, LedgerAssumption
    <3> HIDE DEF f, g
    <3>2. SumOver(g, Users) = SumOver(f, Users) + g[to] - f[to]
      BY <2>2, <3>1, SumChanged
    <3> QED  BY <3>2 DEF f, g
  <2>8. SumOver(c.balance, Users) \in Int /\ SumOver(c.power, Users) \in Int
    BY SupernovaTotals
  <2>9. SumOver(e.balance, Users)
           = SumOver(c.balance, Users) + (IF l \in LogsWith("Deposit") THEN l.amount ELSE 0)
               - (IF l \in LogsWith("Withdraw") THEN l.amount ELSE 0)
    BY <2>6, <2>8
  <2>10. SumOver(e.power, Users)
           = SumOver(c.power, Users)
               + (IF l \in LogsWith("DelegatedPowerIncreased") THEN l.amount ELSE 0)
               - (IF l \in LogsWith("DelegatedPowerDecreased") THEN l.amount ELSE 0)
    <3>1. e.power[to] = c.power[to] + n /\ c.power[to] \in Int
      BY <1>1, <1>2, <2>2
    <3> QED  BY <2>4, <2>6, <2>7, <2>8, <3>1
  <2>11. \A w \in Users :
           /\ e.balance[w] = IF l \in StakeOf(w) THEN l.after ELSE c.balance[w]
           /\ e.until[w] = IF l \in LockOf(w) THEN l.amount ELSE c.until[w]
           /\ e.delegatee[w] = IF l \in DelegateOf(w) THEN l.to ELSE c.delegatee[w]
           /\ e.power[w] = IF l \in PowerOf(w) THEN l.after ELSE c.power[w]
    BY <1>1, <2>4, <2>5
  <2>12. Tracks(c, <<l>>, e)
    BY <2>3, <2>9, <2>10, <2>11, OneLogTracks
  <2> QED  BY <2>1, <2>12
<1> QED  BY <1>3, <1>4

LEMMA TwoLogs ==
  ASSUME NEW l \in LogSet, NEW m \in LogSet
  PROVE  /\ <<l>> \in Seq(LogSet) /\ <<m>> \in Seq(LogSet) /\ <<l, m>> \in Seq(LogSet)
         /\ <<l, m>> = <<l>> \o <<m>>
<1>1. <<l>> \in Seq(LogSet) /\ <<m>> \in Seq(LogSet)
  OBVIOUS
<1> DEFINE a == <<l, m>>
           b == <<l>> \o <<m>>
<1>2. a \in Seq(LogSet) /\ b \in Seq(LogSet) /\ Len(a) = 2 /\ Len(b) = 2
  BY <1>1, ConcatProperties
<1>3. a[1] = b[1] /\ a[2] = b[2]
  BY <1>1, ConcatProperties
<1>4. 1 .. 2 = {1, 2}
  OBVIOUS
<1> HIDE DEF a, b
<1>5. a = b
  BY <1>2, <1>3, <1>4, SeqEqual
<1> QED  BY <1>1, <1>2, <1>5 DEF a, b

LEMMA StakedTracks ==
  ASSUME NEW c \in ContractSet, NEW u \in Users, NEW n \in Int
  PROVE  Tracks(c, Staked(c, u, n).logs, Staked(c, u, n).c)
<1> DEFINE balance == [c.balance EXCEPT ![u] = @ + n]
           paid == [c EXCEPT !.balance = balance]
           to == c.delegatee[u]
           d == Delegated(paid, u, to, n)
           e == [c EXCEPT !.power = d.c.power]
           first == IF n > 0 THEN Transfer("kek", u, Supernova, n)
                    ELSE Transfer("kek", Supernova, u, -n)
           second == IF n > 0 THEN Log(Supernova, "Deposit", u, Zero, n, c.balance[u] + n)
                     ELSE Log(Supernova, "Withdraw", u, Zero, -n, c.balance[u] + n)
<1>1. /\ to \in Users \cup {Zero} /\ balance \in [Users -> Int]
      /\ c.balance \in [Users -> Int] /\ c.power \in [Users -> Int]
      /\ \A v \in Users : balance[v] = IF v = u THEN c.balance[u] + n ELSE c.balance[v]
  BY DEF ContractSet
<1>2. [c EXCEPT !.balance[u] = @ + n] = paid
  OBVIOUS
<1>3. Staked(c, u, n).c = d.c /\ Staked(c, u, n).logs = d.logs \o <<first, second>>
  BY <1>2 DEF Staked
<1> HIDE DEF balance
<1>4. /\ paid \in ContractSet /\ paid.balance = balance /\ paid.power = c.power
      /\ paid.until = c.until /\ paid.delegatee = c.delegatee
  BY <1>1 DEF ContractSet
<1> HIDE DEF paid
<1>5. d.c \in ContractSet /\ d.logs \in Seq(LogSet)
  BY <1>1, <1>4, DelegatedTypes
<1>6. d.c.balance = balance /\ d.c.until = c.until /\ d.c.delegatee = c.delegatee
  <2>1. /\ \A w \in Users : d.c.power[w] = IF w = to THEN paid.power[w] + n ELSE paid.power[w]
        /\ d.c.balance = paid.balance /\ d.c.until = paid.until
        /\ d.c.delegatee = paid.delegatee
        /\ d.c.farmed = paid.farmed /\ d.c.held = paid.held
        /\ (\A w \in Users : paid.power[w] >= 0) =>
             \A w \in Users : d.c.power[w] > 0 => paid.power[w] > 0 \/ Told(d.logs, w)
    <3>1. paid \in ContractSet /\ to \in Users \cup {Zero}
      BY <1>1, <1>4
    <3> HIDE DEF to
    <3> QED  BY <3>1, DelegatedIs
  <2> HIDE DEF d
  <2> QED  BY <1>4, <2>1
<1>7. d.c.power \in [Users -> Int]
  BY <1>5 DEF ContractSet
<1>8. /\ e \in ContractSet /\ e.power = d.c.power /\ e.balance = c.balance
      /\ e.until = c.until /\ e.delegatee = c.delegatee
  <2> DEFINE power == d.c.power
             f == [c EXCEPT !.power = power]
  <2>1. power \in [Users -> Int]
    BY <1>7
  <2> HIDE DEF power
  <2>2. /\ f \in ContractSet /\ f.power = power /\ f.balance = c.balance
        /\ f.until = c.until /\ f.delegatee = c.delegatee
    BY <2>1 DEF ContractSet
  <2> QED  BY <2>2 DEF power
<1> HIDE DEF e
<1>9. Tracks(c, d.logs, e)
  <2>1. /\ paid.power = c.power
        /\ e.balance = c.balance /\ e.until = c.until /\ e.delegatee = c.delegatee
        /\ e.power = Delegated(paid, u, to, n).c.power
    BY <1>4, <1>8
  <2>2. paid \in ContractSet /\ e \in ContractSet /\ to \in Users \cup {Zero}
    BY <1>1, <1>4, <1>8
  <2> HIDE DEF to
  <2> QED  BY <2>1, <2>2, DelegatedTracks
<1> DEFINE last == d.c
<1>10. /\ last \in ContractSet /\ last.balance = balance /\ last.until = e.until
       /\ last.delegatee = e.delegatee /\ last.power = e.power
  BY <1>5, <1>6, <1>8
<1> DEFINE early == d.logs
<1>11. early \in Seq(LogSet) /\ Tracks(c, early, e)
       /\ Staked(c, u, n).c = last /\ Staked(c, u, n).logs = early \o <<first, second>>
  BY <1>3, <1>5, <1>9
<1> HIDE DEF last, early, d
<1>12. first \in LogSet /\ second \in LogSet
  <2>1. {u, Supernova, Zero} \subseteq Accounts /\ Supernova \in Tokens \cup {Supernova, Farm}
    BY DEF Accounts
  <2>2. {"Transfer", "Deposit", "Withdraw"} \subseteq Events
    BY DEF Events
  <2>3. c.balance[u] + n \in Int
    BY <1>1
  <2> QED  BY <2>1, <2>2, <2>3, LogType, LedgerAssumption DEF Transfer
<1>13. /\ first.event = "Transfer"
       /\ second.contract = Supernova /\ second.from = u /\ second.after = c.balance[u] + n
       /\ second.event = IF n > 0 THEN "Deposit" ELSE "Withdraw"
       /\ second.amount = IF n > 0 THEN n ELSE -n
  BY DEF Transfer, Log
<1> HIDE DEF first, second
<1>15. SumOver(e.balance, Users) \in Int /\ SumOver(e.power, Users) \in Int
  BY <1>8, SupernovaTotals
<1>16. Tracks(e, <<first>>, e)
  BY <1>8, <1>12, <1>13, OtherLogTracks
<1>17. Tracks(e, <<second>>, last)
  <2>1. ASSUME NEW w \in Users
        PROVE  /\ second \notin LockOf(w)
               /\ second \notin DelegateOf(w) /\ second \notin PowerOf(w)
               /\ second \in StakeOf(w) <=> w = u
    BY <1>12, <1>13 DEF StakeOf, LockOf, DelegateOf, PowerOf
  <2>2. /\ second \in LogsWith("Deposit") <=> n > 0
        /\ second \in LogsWith("Withdraw") <=> ~(n > 0)
        /\ second \notin LogsWith("DelegatedPowerIncreased")
        /\ second \notin LogsWith("DelegatedPowerDecreased")
    BY <1>12, <1>13 DEF LogsWith
  <2>3. SumOver(balance, Users) = SumOver(e.balance, Users) + n
    <3> DEFINE f == c.balance
    <3>1. /\ IsFiniteSet(Users) /\ \A y \in Users : f[y] \in Int /\ balance[y] \in Int
          /\ \A y \in Users : y # u => f[y] = balance[y]
      BY <1>1, LedgerAssumption
    <3>2. balance[u] = f[u] + n /\ f[u] \in Int
      BY <1>1
    <3>3. f = e.balance
      BY <1>8
    <3> HIDE DEF f
    <3>4. SumOver(balance, Users) = SumOver(f, Users) + balance[u] - f[u]
      BY <3>1, SumChanged
    <3> QED  BY <1>15, <3>2, <3>3, <3>4
  <2>4. /\ SumOver(last.balance, Users)
           = SumOver(e.balance, Users)
               + (IF second \in LogsWith("Deposit") THEN second.amount ELSE 0)
               - (IF second \in LogsWith("Withdraw") THEN second.amount ELSE 0)
        /\ SumOver(last.power, Users)
           = SumOver(e.power, Users)
               + (IF second \in LogsWith("DelegatedPowerIncreased") THEN second.amount ELSE 0)
               - (IF second \in LogsWith("DelegatedPowerDecreased") THEN second.amount ELSE 0)
    BY <1>10, <1>13, <1>15, <2>2, <2>3
  <2>5. \A w \in Users :
          /\ last.balance[w] = IF second \in StakeOf(w) THEN second.after ELSE e.balance[w]
          /\ last.until[w] = IF second \in LockOf(w) THEN second.amount ELSE e.until[w]
          /\ last.delegatee[w] = IF second \in DelegateOf(w) THEN second.to ELSE e.delegatee[w]
          /\ last.power[w] = IF second \in PowerOf(w) THEN second.after ELSE e.power[w]
    BY <1>1, <1>8, <1>10, <1>13, <2>1
  <2> QED  BY <1>8, <1>10, <1>12, <2>4, <2>5, OneLogTracks
<1>18. <<first>> \in Seq(LogSet) /\ <<second>> \in Seq(LogSet)
       /\ <<first, second>> = <<first>> \o <<second>>
       /\ <<first, second>> \in Seq(LogSet)
  BY <1>12, TwoLogs
<1>19. Tracks(e, <<first>> \o <<second>>, last)
  BY <1>8, <1>10, <1>16, <1>17, <1>18, TracksTogether
<1>20. Tracks(e, <<first, second>>, last)
  BY <1>18, <1>19, Zenon
<1>21. Tracks(c, early \o <<first, second>>, last)
  BY <1>8, <1>10, <1>11, <1>18, <1>20, TracksTogether
<1> QED  BY <1>11, <1>21, Zenon

LEMMA RedelegatedTracks ==
  ASSUME NEW c \in ContractSet, NEW u \in Users, NEW to \in Users \cup {Zero}
  PROVE  Tracks(c, Redelegated(c, u, to).logs, Redelegated(c, u, to).c)
<1> DEFINE old == c.delegatee[u]
           n == c.balance[u]
           minus == -n
           less == Delegated(c, u, old, minus)
           more == Delegated(less.c, u, to, n)
           delegatee == [c.delegatee EXCEPT ![u] = to]
           moved == [more.c.delegatee EXCEPT ![u] = to]
           d == [more.c EXCEPT !.delegatee = moved]
           first == Log(Supernova, "Delegate", u, to, 0, 0)
           e == [c EXCEPT !.delegatee = delegatee]
           f == [e EXCEPT !.power = less.c.power]
<1>1. /\ old \in Users \cup {Zero} /\ n \in Int /\ minus \in Int
      /\ delegatee \in [Users -> Users \cup {Zero}]
      /\ \A v \in Users : delegatee[v] = IF v = u THEN to ELSE c.delegatee[v]
  BY DEF ContractSet
<1>2. Redelegated(c, u, to).c = d
      /\ Redelegated(c, u, to).logs = <<first>> \o less.logs \o more.logs
  BY DEF Redelegated
<1> HIDE DEF delegatee
<1>3. /\ e \in ContractSet /\ e.power = c.power /\ e.balance = c.balance
      /\ e.until = c.until /\ e.delegatee = delegatee
  BY <1>1 DEF ContractSet
<1> HIDE DEF e
<1>4. less.c \in ContractSet /\ less.logs \in Seq(LogSet)
  <2> HIDE DEF old, minus
  <2> QED  BY <1>1, DelegatedTypes
<1>5. less.c.balance = c.balance /\ less.c.until = c.until /\ less.c.delegatee = c.delegatee
  <2>1. /\ \A w \in Users : less.c.power[w] = IF w = old THEN c.power[w] + minus ELSE c.power[w]
        /\ less.c.balance = c.balance /\ less.c.until = c.until
        /\ less.c.delegatee = c.delegatee
        /\ less.c.farmed = c.farmed /\ less.c.held = c.held
        /\ (\A w \in Users : c.power[w] >= 0) =>
             \A w \in Users : less.c.power[w] > 0 => c.power[w] > 0 \/ Told(less.logs, w)
    <3>1. old \in Users \cup {Zero} /\ minus \in Int
      BY <1>1
    <3> HIDE DEF old, minus, first, f
    <3> QED  BY <3>1, DelegatedIs
  <2> HIDE DEF less
  <2> QED  BY <2>1
<1>6. /\ f \in ContractSet /\ f.power = less.c.power /\ f.balance = c.balance
      /\ f.until = c.until /\ f.delegatee = delegatee
  <2> DEFINE power == less.c.power
             g == [e EXCEPT !.power = power]
  <2>1. power \in [Users -> Int]
    BY <1>4 DEF ContractSet
  <2> HIDE DEF power
  <2>2. /\ g \in ContractSet /\ g.power = power /\ g.balance = e.balance
        /\ g.until = e.until /\ g.delegatee = e.delegatee
    BY <1>3, <2>1 DEF ContractSet
  <2> QED  BY <1>3, <2>2 DEF power
<1> HIDE DEF f
<1>7. Tracks(e, less.logs, f)
  <2>1. /\ c.power = e.power
        /\ f.balance = e.balance /\ f.until = e.until /\ f.delegatee = e.delegatee
        /\ f.power = Delegated(c, u, old, minus).c.power
    BY <1>3, <1>6
  <2> HIDE DEF old, minus
  <2> QED  BY <1>1, <1>3, <1>6, <2>1, DelegatedTracks
<1> DEFINE l == less.c
           m == Delegated(l, u, to, n)
           early == less.logs
<1>8. /\ more = m /\ l \in ContractSet /\ l.balance = c.balance /\ l.until = c.until
      /\ l.delegatee = c.delegatee /\ f.power = l.power
      /\ early \in Seq(LogSet) /\ Tracks(e, early, f)
      /\ d = [m.c EXCEPT !.delegatee = [m.c.delegatee EXCEPT ![u] = to]]
      /\ Redelegated(c, u, to).c = d
      /\ Redelegated(c, u, to).logs = <<first>> \o early \o m.logs
  BY <1>2, <1>4, <1>5, <1>6, <1>7
<1> HIDE DEF l, early, d, less, more
<1>9. m.c \in ContractSet /\ m.logs \in Seq(LogSet)
  <2> HIDE DEF n
  <2> QED  BY <1>1, <1>8, DelegatedTypes
<1>10. m.c.balance = l.balance /\ m.c.until = l.until /\ m.c.delegatee = l.delegatee
  <2>1. /\ \A w \in Users : m.c.power[w] = IF w = to THEN l.power[w] + n ELSE l.power[w]
        /\ m.c.balance = l.balance /\ m.c.until = l.until
        /\ m.c.delegatee = l.delegatee
        /\ m.c.farmed = l.farmed /\ m.c.held = l.held
        /\ (\A w \in Users : l.power[w] >= 0) =>
             \A w \in Users : m.c.power[w] > 0 => l.power[w] > 0 \/ Told(m.logs, w)
    <3>1. l \in ContractSet /\ n \in Int
      BY <1>1, <1>8
    <3> HIDE DEF n
    <3> QED  BY <3>1, DelegatedIs
  <2> QED  BY <2>1
<1>11. /\ d \in ContractSet /\ d.power = m.c.power /\ d.balance = c.balance
       /\ d.until = c.until /\ d.delegatee = delegatee
  <2> DEFINE k == m.c
             h == [k EXCEPT !.delegatee = delegatee]
  <2>1. k \in ContractSet /\ k.balance = c.balance /\ k.until = c.until /\ k.delegatee = c.delegatee
    BY <1>8, <1>9, <1>10
  <2>2. d = [k EXCEPT !.delegatee = [k.delegatee EXCEPT ![u] = to]]
    BY <1>8
  <2> HIDE DEF k
  <2>3. d = h
    <3>1. [k.delegatee EXCEPT ![u] = to] = delegatee
      BY <2>1 DEF delegatee
    <3> QED  BY <2>2, <3>1
  <2>4. /\ h \in ContractSet /\ h.power = k.power /\ h.balance = k.balance
        /\ h.until = k.until /\ h.delegatee = delegatee
    BY <1>1, <2>1 DEF ContractSet
  <2> HIDE DEF h
  <2>5. /\ d \in ContractSet /\ d.power = k.power /\ d.balance = c.balance
        /\ d.until = c.until /\ d.delegatee = delegatee
    BY <2>1, <2>3, <2>4
  <2> QED  BY <2>5 DEF k
<1>12. Tracks(f, m.logs, d)
  <2>1. /\ l.power = f.power
        /\ d.balance = f.balance /\ d.until = f.until /\ d.delegatee = f.delegatee
        /\ d.power = Delegated(l, u, to, n).c.power
    BY <1>6, <1>8, <1>11
  <2> HIDE DEF n
  <2> QED  BY <1>1, <1>6, <1>8, <1>11, <2>1, DelegatedTracks
<1> DEFINE late == m.logs
<1>13. /\ late \in Seq(LogSet) /\ Tracks(f, late, d)
       /\ Redelegated(c, u, to).logs = <<first>> \o early \o late
  BY <1>8, <1>9, <1>12
<1> HIDE DEF m, late
<1>14. first \in LogSet /\ first.contract = Supernova /\ first.event = "Delegate"
       /\ first.from = u /\ first.to = to
  <2>1. /\ u \in Accounts /\ to \in Accounts \cup Tokens /\ "Delegate" \in Events
        /\ Supernova \in Tokens \cup {Supernova, Farm} /\ 0 \in Int
    BY DEF Accounts, Events
  <2> QED  BY <2>1, LogType DEF Log
<1> HIDE DEF first
<1>15. Tracks(c, <<first>>, e)
  <2>1. ASSUME NEW w \in Users
        PROVE  /\ first \notin StakeOf(w) /\ first \notin LockOf(w) /\ first \notin PowerOf(w)
               /\ first \in DelegateOf(w) <=> w = u
    BY <1>14 DEF StakeOf, LockOf, DelegateOf, PowerOf
  <2>2. /\ first \notin LogsWith("Deposit") /\ first \notin LogsWith("Withdraw")
        /\ first \notin LogsWith("DelegatedPowerIncreased")
        /\ first \notin LogsWith("DelegatedPowerDecreased")
    BY <1>14 DEF LogsWith
  <2>3. SumOver(c.balance, Users) \in Int /\ SumOver(c.power, Users) \in Int
    BY SupernovaTotals
  <2>4. /\ SumOver(e.balance, Users)
           = SumOver(c.balance, Users) + (IF first \in LogsWith("Deposit") THEN first.amount ELSE 0)
               - (IF first \in LogsWith("Withdraw") THEN first.amount ELSE 0)
        /\ SumOver(e.power, Users)
           = SumOver(c.power, Users)
               + (IF first \in LogsWith("DelegatedPowerIncreased") THEN first.amount ELSE 0)
               - (IF first \in LogsWith("DelegatedPowerDecreased") THEN first.amount ELSE 0)
    BY <1>3, <2>2, <2>3
  <2>5. \A w \in Users :
          /\ e.balance[w] = IF first \in StakeOf(w) THEN first.after ELSE c.balance[w]
          /\ e.until[w] = IF first \in LockOf(w) THEN first.amount ELSE c.until[w]
          /\ e.delegatee[w] = IF first \in DelegateOf(w) THEN first.to ELSE c.delegatee[w]
          /\ e.power[w] = IF first \in PowerOf(w) THEN first.after ELSE c.power[w]
    BY <1>1, <1>3, <1>14, <2>1
  <2> QED  BY <1>3, <1>14, <2>4, <2>5, OneLogTracks
<1> DEFINE one == <<first>>
           two == one \o early
<1>16. one \in Seq(LogSet)
  BY <1>14
<1>17. two \in Seq(LogSet) /\ Tracks(c, two, f)
  <2>1. Tracks(c, one, e)
    BY <1>15
  <2> HIDE DEF one
  <2> QED  BY <1>3, <1>6, <1>8, <1>16, <2>1, TracksTogether, ConcatProperties
<1>18. Redelegated(c, u, to).logs = two \o late
  BY <1>13
<1> HIDE DEF two
<1>19. Tracks(c, two \o late, d)
  BY <1>6, <1>11, <1>13, <1>17, TracksTogether
<1> QED  BY <1>8, <1>18, <1>19, Zenon

LEMMA FarmedTracks ==
  ASSUME NEW c \in ContractSet, NEW u \in Users, NEW t \in Tokens, NEW n \in Int
  PROVE  Tracks(c, Farmed(c, u, t, n).logs, Farmed(c, u, t, n).c)
<1> DEFINE d == Farmed(c, u, t, n).c
           first == IF n > 0 THEN Transfer(t, u, Farm, n) ELSE Transfer(t, Farm, u, -n)
           second == IF n > 0 THEN Log(Farm, "Deposit", u, t, n, 0)
                     ELSE Log(Farm, "Withdraw", u, t, -n, 0)
<1>1. d = [c EXCEPT !.farmed[u][t] = @ + n] /\ Farmed(c, u, t, n).logs = <<first, second>>
  BY DEF Farmed
<1>2. d \in ContractSet
  BY FarmedTypes
<1>3. d.balance = c.balance /\ d.until = c.until /\ d.delegatee = c.delegatee /\ d.power = c.power
  BY <1>1 DEF ContractSet
<1> HIDE DEF d
<1>4. first \in LogSet /\ second \in LogSet
  <2>1. /\ u \in Accounts /\ Farm \in Accounts /\ t \in Accounts \cup Tokens
        /\ t \in Tokens \cup {Supernova, Farm} /\ Farm \in Tokens \cup {Supernova, Farm}
    BY DEF Accounts
  <2>2. {"Transfer", "Deposit", "Withdraw"} \subseteq Events
    BY DEF Events
  <2> QED  BY <2>1, <2>2, LogType DEF Transfer
<1>5. first.event = "Transfer" /\ second.contract = Farm
  BY DEF Transfer, Log
<1> HIDE DEF first, second
<1>6. Tracks(c, <<first>>, c)
  BY <1>4, <1>5, OtherLogTracks
<1>7. Tracks(c, <<second>>, d)
  BY <1>2, <1>3, <1>4, <1>5, OtherLogTracks DEF Supernova, Farm
<1>8. Tracks(c, <<first>> \o <<second>>, d)
  BY <1>2, <1>4, <1>6, <1>7, TwoLogs, TracksTogether
<1>9. <<first, second>> = <<first>> \o <<second>>
  BY <1>4, TwoLogs
<1>10. Tracks(c, <<first, second>>, d)
  BY <1>8, <1>9, Zenon
<1> QED  BY <1>1, <1>10, Zenon DEF d


LEMMA LockedTracks ==
  ASSUME NEW c \in ContractSet, NEW u \in Users, NEW n \in Int
  PROVE  Tracks(c, <<Log(Supernova, "Lock", u, Zero, n, 0)>>, [c EXCEPT !.until[u] = n])
<1> DEFINE until == [c.until EXCEPT ![u] = n]
           d == [c EXCEPT !.until = until]
           l == Log(Supernova, "Lock", u, Zero, n, 0)
<1>1. [c EXCEPT !.until[u] = n] = d
  OBVIOUS
<1>2. until \in [Users -> Int] /\ \A w \in Users : until[w] = IF w = u THEN n ELSE c.until[w]
  BY DEF ContractSet
<1> HIDE DEF until
<1>3. /\ d \in ContractSet /\ d.balance = c.balance /\ d.until = until
      /\ d.delegatee = c.delegatee /\ d.power = c.power
  BY <1>2 DEF ContractSet
<1> HIDE DEF d
<1>4. l \in LogSet /\ l.contract = Supernova /\ l.event = "Lock" /\ l.from = u /\ l.amount = n
  <2>1. /\ u \in Accounts /\ Zero \in Accounts \cup Tokens /\ "Lock" \in Events
        /\ Supernova \in Tokens \cup {Supernova, Farm} /\ 0 \in Int
    BY DEF Accounts, Events
  <2>2. l \in LogSet
    BY <2>1, LogType
  <2> QED  BY <2>2 DEF Log
<1> HIDE DEF l
<1>5. ASSUME NEW w \in Users
      PROVE  /\ l \notin StakeOf(w) /\ l \notin DelegateOf(w) /\ l \notin PowerOf(w)
             /\ l \in LockOf(w) <=> w = u
  BY <1>4 DEF StakeOf, LockOf, DelegateOf, PowerOf
<1>6. /\ l \notin LogsWith("Deposit") /\ l \notin LogsWith("Withdraw")
      /\ l \notin LogsWith("DelegatedPowerIncreased")
      /\ l \notin LogsWith("DelegatedPowerDecreased")
  BY <1>4 DEF LogsWith
<1>7. SumOver(c.balance, Users) \in Int /\ SumOver(c.power, Users) \in Int
  BY SupernovaTotals
<1>8. /\ SumOver(d.balance, Users)
           = SumOver(c.balance, Users) + (IF l \in LogsWith("Deposit") THEN l.amount ELSE 0)
               - (IF l \in LogsWith("Withdraw") THEN l.amount ELSE 0)
      /\ SumOver(d.power, Users)
           = SumOver(c.power, Users)
               + (IF l \in LogsWith("DelegatedPowerIncreased") THEN l.amount ELSE 0)
               - (IF l \in LogsWith("DelegatedPowerDecreased") THEN l.amount ELSE 0)
  BY <1>3, <1>6, <1>7
<1>9. \A w \in Users :
        /\ d.balance[w] = IF l \in StakeOf(w) THEN l.after ELSE c.balance[w]
        /\ d.until[w] = IF l \in LockOf(w) THEN l.amount ELSE c.until[w]
        /\ d.delegatee[w] = IF l \in DelegateOf(w) THEN l.to ELSE c.delegatee[w]
        /\ d.power[w] = IF l \in PowerOf(w) THEN l.after ELSE c.power[w]
  BY <1>2, <1>3, <1>4, <1>5
<1>10. Tracks(c, <<l>>, d)
  BY <1>3, <1>4, <1>8, <1>9, OneLogTracks
<1> QED  BY <1>1, <1>10 DEF l

LEMMA PaidTracks ==
  ASSUME NEW c \in ContractSet, NEW u \in Users, NEW to \in Tokens, NEW n \in Int
  PROVE  Tracks(c, <<Transfer(to, u, Treasury, n)>>, [c EXCEPT !.held[to] = @ + n])
<1> DEFINE held == [c.held EXCEPT ![to] = @ + n]
           d == [c EXCEPT !.held = held]
           l == Transfer(to, u, Treasury, n)
<1>1. [c EXCEPT !.held[to] = @ + n] = d
  OBVIOUS
<1>2. held \in [Tokens -> Int]
  BY DEF ContractSet
<1> HIDE DEF held
<1>3. /\ d \in ContractSet /\ d.balance = c.balance /\ d.until = c.until
      /\ d.delegatee = c.delegatee /\ d.power = c.power
  BY <1>2 DEF ContractSet
<1> HIDE DEF d
<1>4. l \in LogSet /\ l.event = "Transfer"
  <2>1. /\ u \in Accounts /\ Treasury \in Accounts \cup Tokens /\ "Transfer" \in Events
        /\ to \in Tokens \cup {Supernova, Farm} /\ 0 \in Int
    BY DEF Accounts, Events
  <2>2. l \in LogSet
    BY <2>1, LogType DEF Transfer
  <2> QED  BY <2>2 DEF Transfer, Log
<1> HIDE DEF l
<1>5. Tracks(c, <<l>>, d)
  BY <1>3, <1>4, OtherLogTracks
<1> QED  BY <1>1, <1>5 DEF l

LEMMA OutcomeTracks ==
  ASSUME NEW c \in ContractSet, NEW call \in Calls
  PROVE  Tracks(c, Outcome(c, call).logs, Outcome(c, call).c)
<1> DEFINE u == call.user
           n == call.n
           to == call.to
           o == Outcome(c, call)
           m == -n
<1>1. u \in Users /\ n \in Nat /\ n \in Int /\ m \in Int
  BY StorablesAssumption
<1>2. CASE call.kind \in {"deposit", "withdraw"}
  <2>1. o = Staked(c, u, n) \/ o = Staked(c, u, m)
    <3>1. CASE call.kind = "deposit"
      BY <3>1, Zenon DEF Outcome
    <3>2. CASE call.kind = "withdraw"
      BY <3>2, Zenon DEF Outcome
    <3> QED  BY <1>2, <3>1, <3>2
  <2> HIDE DEF u, n, o, m
  <2> QED  BY <1>1, <2>1, StakedTracks DEF o
<1>4. CASE call.kind = "lock"
  <2>1. o = [c |-> [c EXCEPT !.until[u] = n], logs |-> <<Log(Supernova, "Lock", u, Zero, n, 0)>>]
    BY <1>4, Zenon DEF Outcome
  <2>2. /\ o.c = [c EXCEPT !.until[u] = n]
        /\ o.logs = <<Log(Supernova, "Lock", u, Zero, n, 0)>>
    BY <2>1
  <2> HIDE DEF u, n, o
  <2> QED  BY <1>1, <2>2, LockedTracks DEF o
<1>5. CASE call.kind = "delegate"
  <2>1. o = Redelegated(c, u, to)
    BY <1>5, Zenon DEF Outcome
  <2>2. to \in Users \cup {Zero}
    BY <1>5, StorablesAssumption
  <2> HIDE DEF u, to, o
  <2> QED  BY <1>1, <2>1, <2>2, RedelegatedTracks DEF o
<1>6. CASE call.kind \in {"farm", "unfarm"}
  <2>1. o = Farmed(c, u, to, n) \/ o = Farmed(c, u, to, m)
    <3>1. CASE call.kind = "farm"
      BY <3>1, Zenon DEF Outcome
    <3>2. CASE call.kind = "unfarm"
      BY <3>2, Zenon DEF Outcome
    <3> QED  BY <1>6, <3>1, <3>2
  <2>2. to \in Tokens
    BY <1>6, StorablesAssumption
  <2> HIDE DEF u, n, to, o, m
  <2> QED  BY <1>1, <2>1, <2>2, FarmedTracks DEF o
<1>8. CASE call.kind = "pay"
  <2>1. o = [c |-> [c EXCEPT !.held[to] = @ + n], logs |-> <<Transfer(to, u, Treasury, n)>>]
    BY <1>8, Zenon DEF Outcome
  <2>2. o.c = [c EXCEPT !.held[to] = @ + n] /\ o.logs = <<Transfer(to, u, Treasury, n)>>
    BY <2>1
  <2>3. to \in Tokens
    BY <1>8, StorablesAssumption
  <2> HIDE DEF u, n, to, o
  <2> QED  BY <1>1, <2>2, <2>3, PaidTracks DEF o
<1> QED  BY <1>2, <1>4, <1>5, <1>6, <1>8, StorablesAssumption

-----------------------------------------------------------------------------
(* What the logs of a block say                                           *)

Follows(c, logs, d) == Leads(c, logs, d) /\ Tracks(c, logs, d)

LEMMA FollowsTogether ==
  ASSUME NEW c \in ContractSet, NEW d \in ContractSet, NEW e \in ContractSet,
         NEW a \in Seq(LogSet), NEW b \in Seq(LogSet), Follows(c, a, d), Follows(d, b, e)
  PROVE  Follows(c, a \o b, e)
<1>1. Leads(c, a \o b, e)
  BY LeadsTogether DEF Follows
<1>2. Tracks(c, a \o b, e)
  BY TracksTogether DEF Follows
<1> QED  BY <1>1, <1>2 DEF Follows

LEMMA NewContractsSound ==
  Sound(NewContracts) /\ \A u \in Users : NewContracts.power[u] = 0
<1> DEFINE f == [u \in Users |-> 0]
<1>1. NewContracts.balance = f /\ NewContracts.power = f
  BY DEF NewContracts
<1>2. ASSUME NEW S \in SUBSET Users PROVE SumOver(f, S) = 0
  BY LedgerAssumption, NothingAddsUp, FS_Subset
<1>3. \A w \in Users : Backers(NewContracts, w) \in SUBSET Users
  BY DEF Backers
<1> HIDE DEF f
<1>4. \A w \in Users : SumOver(f, Backers(NewContracts, w)) = 0
  BY <1>2, <1>3
<1>5. \A u \in Users : f[u] = 0
  BY DEF f
<1> QED  BY <1>1, <1>4, <1>5 DEF Sound

LEMMA IncludedFollows ==
  ASSUME NEW branch \in Seq(BlockSet), NEW block \in BlockSet, NEW call \in Calls, NEW now,
         Accepted(block.contracts, call, now), NEW c \in ContractSet,
         Follows(c, LogsOf(block.receipts), block.contracts)
  PROVE  Follows(c, LogsOf(Included(branch, block, call).receipts),
               Included(branch, block, call).contracts)
<1> DEFINE o == Outcome(block.contracts, call)
           more == Included(branch, block, call)
           n == Len(block.receipts)
           receipt == more.receipts[n + 1]
<1>1. block.contracts \in ContractSet /\ block.receipts \in Seq(ReceiptSet)
  BY DEF BlockSet
<1>2. o.c \in ContractSet /\ o.logs \in LogSeqs /\ Follows(block.contracts, o.logs, o.c)
  BY <1>1, OutcomeTypes, OutcomeLeads, OutcomeTracks DEF Follows
<1> DEFINE before == Cardinality({i \in DOMAIN block.hashes :
                                    block.hashes[i].call.user = call.user})
           hash == [call |-> call, nonce |-> Nonce(branch, call.user) + before]
           x == [hash |-> hash, index |-> Len(block.receipts) + 1, logs |-> o.logs]
           receipts == Append(block.receipts, x)
           hashes == Append(block.hashes, hash)
<1>a. more = [id |-> block.id, contracts |-> o.c, hashes |-> hashes, receipts |-> receipts]
  BY DEF Included
<1> HIDE DEF hash, hashes, o
<1>4. x.logs = o.logs
  OBVIOUS
<1> HIDE DEF x
<1>3. more.contracts = o.c /\ more.receipts = Append(block.receipts, x)
  <2> HIDE DEF more, receipts
  <2>1. more.contracts = o.c /\ more.receipts = receipts
    BY <1>a
  <2> QED  BY <2>1 DEF receipts
<1>5. x \in ReceiptSet
  <2>1. more \in BlockSet
    BY IncludedTypes
  <2>2. more.receipts \in Seq(ReceiptSet)
    BY <2>1 DEF BlockSet
  <2> HIDE DEF more
  <2>3. /\ Len(more.receipts) = n + 1 /\ more.receipts[n + 1] = x /\ n \in Nat
    BY <1>1, <1>3, AppendProperties, LenProperties
  <2>4. n + 1 \in 1 .. Len(more.receipts)
    BY <2>3
  <2> QED  BY <2>2, <2>3, <2>4, ElementOfSeq
<1> HIDE DEF more
<1>6. LogsOf(more.receipts) = LogsOf(block.receipts) \o o.logs
  BY <1>1, <1>3, <1>4, <1>5, LogsOfMore
<1>7. LogsOf(block.receipts) \in Seq(LogSet) /\ o.logs \in Seq(LogSet)
  BY <1>1, <1>2, LogsOfTypes DEF LogSeqs
<1>8. Follows(c, LogsOf(block.receipts) \o o.logs, o.c)
  BY <1>1, <1>2, <1>7, FollowsTogether
<1> QED  BY <1>3, <1>6, <1>8 DEF more

\* The logs of a new block say what it changes in the contracts.
LEMMA BlocksFollow ==
  ASSUME NEW branch \in Seq(BlockSet), mined \in Nat, NEW b \in Blocks(branch)
  PROVE  Follows(Contracts(branch, Len(branch)), LogsOf(b.receipts), b.contracts)
<1> DEFINE now == Len(branch) + 1
           c == Contracts(branch, Len(branch))
           empty == [id |-> mined + 1, hashes |-> <<>>, receipts |-> <<>>, contracts |-> c]
           More(block) == {Included(branch, block, d) :
                             d \in {e \in Calls : Accepted(block.contracts, e, now)}}
           ones == More(empty)
           Fine(block) == block \in BlockSet /\ Follows(c, LogsOf(block.receipts), block.contracts)
<1>1. b \in {empty} \cup ones \cup UNION {More(o) : o \in ones}
  BY DEF Blocks
<1>2. c \in ContractSet
  <2>1. CASE Len(branch) = 0
    BY <2>1, NewContractTypes DEF Contracts
  <2>2. CASE Len(branch) # 0
    <3>1. branch[Len(branch)] \in BlockSet
      BY <2>2, LenProperties, ElementOfSeq
    <3> QED  BY <2>2, <3>1 DEF Contracts, BlockSet
  <2> QED  BY <2>1, <2>2
<1> HIDE DEF c
<1>3. Fine(empty)
  <2>1. empty \in BlockSet
    BY <1>2 DEF BlockSet
  <2>2. empty.receipts = <<>> /\ empty.contracts = c
    OBVIOUS
  <2> HIDE DEF empty
  <2> QED  BY <1>2, <2>1, <2>2, LeadsNowhere, TracksNowhere, NoLogs DEF Follows
<1> HIDE DEF empty
<1>4. ASSUME NEW block, Fine(block), NEW m \in More(block) PROVE Fine(m)
  <2>1. PICK d \in Calls : m = Included(branch, block, d) /\ Accepted(block.contracts, d, now)
    OBVIOUS
  <2> HIDE DEF now
  <2> QED  BY <1>2, <1>4, <2>1, IncludedTypes, IncludedFollows
<1> HIDE DEF More, Fine
<1>5. \A o \in ones : Fine(o)
  BY <1>3, <1>4
<1>6. \A o \in ones : \A m \in More(o) : Fine(m)
  <2> HIDE DEF ones
  <2> QED  BY <1>4, <1>5
<1>7. Fine(b)
  <2> HIDE DEF ones
  <2> QED  BY <1>1, <1>3, <1>5, <1>6
<1> QED  BY <1>7 DEF Fine, c

-----------------------------------------------------------------------------
(* The second inductive invariant                                          *)

\* The logs of the node's blocks say what these changed in the contracts.
ChainFollows ==
  \A k \in DOMAIN chain :
    Follows(Contracts(chain, k - 1), LogsOf(chain[k].receipts), chain[k].contracts)

\* Blocks of the same hash are the same.
Known == {chain[k] : k \in DOMAIN chain} \cup {blocks[h] : h \in Heights} \cup {raw.block, NoBlock}
Identified == \A x, y \in Known : x.id = y.id => x = y

\* The node's branch never becomes shorter than what came from it.
Within == /\ \A h \in Heights : blocks[h] # NoBlock => h \in DOMAIN chain
          /\ pc # "idle" => raw.height \in DOMAIN chain

\* The transfers stored of a block are all the monitored ones, but for those of a token the
\* node was asked about in vain.
TransfersAt(h) == RowsAt("account_erc20_transfers", h)
AllKept(h, logs) ==
  \E kept \in SUBSET Monitored(logs, MonitoredAccounts) :
    /\ TransfersAt(h) = TransferRows(h, logs, kept)
    /\ \A i \in Monitored(logs, MonitoredAccounts) \ kept :
         \E x \in lost : x.token = logs[i].contract
KeptAt(h) == IF blocks[h] = NoBlock THEN TransfersAt(h) = {}
             ELSE AllKept(h, LogsOf(blocks[h].receipts))
KeptInv == \A h \in Heights : KeptAt(h)

HInv == ChainFollows /\ Identified /\ Within /\ KeptInv

LEMMA InitHInv == Init => HInv
<1> SUFFICES ASSUME Init PROVE HInv
  OBVIOUS
<1>1. chain = <<>> /\ DOMAIN chain = {} /\ pc = "idle" /\ raw.block = NoBlock
  BY DEF Init, NoData
<1>2. \A h \in Heights : blocks[h] = NoBlock /\ TransfersAt(h) = {}
  BY DEF Init, TransfersAt, RowsAt, DbTables
<1>3. Identified
  BY <1>1, <1>2 DEF Identified, Known
<1> QED  BY <1>1, <1>2, <1>3 DEF HInv, ChainFollows, Within, KeptInv, KeptAt

\* A step that takes no block from elsewhere and keeps tables and branch.
LEMMA NoNewBlocks ==
  ASSUME Identified, Known' \subseteq Known
  PROVE  Identified'
BY DEF Identified

LEMMA GrowHInv ==
  ASSUME IInv, HInv, NEW branch \in Seq(BlockSet), Grow(branch),
         Len(branch) \in {Len(chain), Len(chain) - 1},
         \A k \in DOMAIN branch : branch[k] = chain[k]
  PROVE  HInv'
<1> USE DEF HInv
<1>1. PICK b \in Blocks(branch) :
        chain' = Append(branch, b) /\ UNCHANGED <<tables, pc, raw, faults, lost>>
  BY DEF Grow
<1>2. mined \in Nat /\ chain \in Seq(BlockSet)
  BY DEF IInv, NodeTypes
<1>3. b \in BlockSet /\ b.id = mined + 1
  BY <1>2, BlocksTypes
<1> DEFINE n == Len(branch)
           m == Len(chain)
<1>4. /\ n \in Nat /\ m \in Nat /\ n \in {m, m - 1} /\ DOMAIN chain = 1 .. m
      /\ DOMAIN branch = 1 .. n /\ DOMAIN chain' = 1 .. n + 1
      /\ \A k \in 1 .. n : chain'[k] = branch[k]
      /\ chain'[n + 1] = b
  BY <1>1, <1>2, <1>3, LenProperties, AppendProperties
<1>l. Follows(Contracts(branch, n), LogsOf(b.receipts), b.contracts)
  BY <1>2, BlocksFollow
<1> HIDE DEF n, m
<1>5. /\ DOMAIN branch \subseteq DOMAIN chain /\ DOMAIN chain \subseteq DOMAIN chain'
      /\ \A k \in 1 .. n : chain'[k] = chain[k]
  BY <1>4
<1>6. ChainFollows'
  <2>1. ASSUME NEW i \in 0 .. n
        PROVE  /\ Contracts(chain', i) = Contracts(branch, i)
               /\ Contracts(branch, i) = Contracts(chain, i)
    <3>1. CASE i = 0
      BY <3>1 DEF Contracts
    <3>2. CASE i # 0
      <4>1. i \in 1 .. n
        BY <1>4, <3>2
      <4>2. chain'[i] = branch[i] /\ branch[i] = chain[i]
        BY <1>4, <1>5, <4>1
      <4> QED  BY <3>2, <4>2 DEF Contracts
    <3> QED  BY <3>1, <3>2
  <2>3. ASSUME NEW k \in 1 .. n
        PROVE  Follows(Contracts(chain', k - 1), LogsOf(chain'[k].receipts), chain'[k].contracts)
    <3>1. k - 1 \in 0 .. n /\ k \in DOMAIN chain /\ chain'[k] = chain[k]
      <4>1. k \in DOMAIN branch /\ k \in Nat
        BY <1>4
      <4> QED  BY <1>4, <1>5, <4>1
    <3>2. Follows(Contracts(chain, k - 1), LogsOf(chain[k].receipts), chain[k].contracts)
      BY <3>1 DEF ChainFollows
    <3>3. Contracts(chain', k - 1) = Contracts(chain, k - 1)
      BY <2>1, <3>1
    <3> QED  BY <3>1, <3>2, <3>3
  <2>4. Follows(Contracts(chain', n), LogsOf(b.receipts), b.contracts)
    <3>1. n \in 0 .. n
      BY <1>4
    <3>2. Contracts(chain', n) = Contracts(branch, n)
      BY <2>1, <3>1
    <3> QED  BY <1>l, <3>2
  <2>5. ASSUME NEW k \in DOMAIN chain'
        PROVE  Follows(Contracts(chain', k - 1), LogsOf(chain'[k].receipts), chain'[k].contracts)
    <3>1. CASE k \in 1 .. n
      BY <2>3, <3>1
    <3>2. CASE k = n + 1
      <4>1. k - 1 = n
        <5>1. n \in Nat
          BY <1>4
        <5> QED  BY <3>2, <5>1
      <4> QED  BY <1>4, <2>4, <3>2, <4>1
    <3> QED  BY <1>4, <3>1, <3>2
  <2> QED  BY <2>5 DEF ChainFollows
<1>7. Identified'
  <2>1. Known' \subseteq Known \cup {b}
    <3>1. ASSUME NEW k \in DOMAIN chain'
          PROVE  chain'[k] \in {chain[i] : i \in DOMAIN chain} \cup {b}
      <4>1. k \in 1 .. n \/ k = n + 1
        BY <1>4
      <4>2. CASE k \in 1 .. n
        <5>1. k \in DOMAIN branch
          BY <1>4, <4>2
        <5>2. k \in DOMAIN chain /\ chain'[k] = chain[k]
          BY <1>5, <4>2, <5>1
        <5> QED  BY <5>2
      <4> QED  BY <1>4, <4>1, <4>2
    <3>2. blocks' = blocks /\ raw' = raw
      BY <1>1 DEF tables
    <3> QED  BY <3>1, <3>2 DEF Known
  <2>2. ASSUME NEW x \in Known PROVE x.id \in Int /\ x.id # b.id
    <3>1. x \in Stored /\ x.id <= mined
      <4>1. CASE \E k \in DOMAIN chain : x = chain[k]
        BY <1>2, <4>1, ElementOfSeq, LenProperties DEF IInv, NodeTypes, Stored
      <4>2. CASE \E h \in Heights : x = blocks[h]
        BY <4>2 DEF IInv, TableTypes
      <4>3. CASE x = raw.block
        BY <4>3 DEF IInv, TaskTypes
      <4>4. CASE x = NoBlock
        BY <1>2, <4>4 DEF Stored, NoBlock
      <4> QED  BY <4>1, <4>2, <4>3, <4>4 DEF Known
    <3>2. x.id \in Nat
      BY <3>1 DEF Stored, BlockSet, NoBlock
    <3> QED  BY <1>2, <1>3, <3>1, <3>2
  <2> QED  BY <2>1, <2>2 DEF Identified
<1>8. (Within /\ KeptInv)'
  <2>1. blocks' = blocks /\ db' = db /\ pc' = pc /\ raw' = raw /\ lost' = lost
    BY <1>1 DEF tables
  <2>2. Within'
    BY <1>5, <2>1 DEF Within
  <2>3. KeptInv'
    BY <2>1 DEF KeptInv, KeptAt, AllKept, TransfersAt, RowsAt
  <2> QED  BY <2>2, <2>3
<1> QED  BY <1>6, <1>7, <1>8

\* What a step that leaves branch and tables alone needs.
LEMMA StillHInv ==
  ASSUME HInv, UNCHANGED <<node, blocks, db, lost>>, raw'.block \in Known,
         pc' # "idle" => raw'.height \in DOMAIN chain
  PROVE  HInv'
<1>1. Known' \subseteq Known
  BY DEF Known, node
<1> QED  BY <1>1, NoNewBlocks
         DEF HInv, node, ChainFollows, Within, KeptInv, KeptAt, AllKept, TransfersAt, RowsAt

LEMMA CheckHInv == ASSUME IInv, HInv, Check PROVE HInv'
<1> USE DEF HInv
<1>1. CASE \E k \in Heights : blocks[k].id = raw.block.id
  <2>1. UNCHANGED <<node, tables, faults, lost>> /\ pc' = "idle" /\ raw' = NoData
    BY <1>1 DEF Check
  <2>2. raw'.block \in Known
    BY <2>1 DEF NoData, Known
  <2> HIDE DEF HInv
  <2> QED  BY <2>1, <2>2, StillHInv DEF tables
<1>2. CASE ~ \E k \in Heights : blocks[k].id = raw.block.id
  <2> PICK h \in Heights : h = raw.height
    BY DEF Check, IInv, TaskTypes
  <2>1. /\ pc' = "store" /\ pc = "check" /\ UNCHANGED <<raw, node, tokens, faults, lost>>
        /\ blocks' = [blocks EXCEPT ![h] = NoBlock]
        /\ db' = IF blocks[h] = NoBlock THEN db ELSE DeleteBlock(h)
    BY <1>2 DEF Check
  <2>2. /\ DOMAIN blocks = Heights /\ blocks'[h] = NoBlock
        /\ \A k \in Heights : k # h => blocks'[k] = blocks[k]
    BY <2>1 DEF IInv, TableTypes
  <2>3. Known' \subseteq Known
    BY <2>1, <2>2 DEF Known, node
  <2>4. (ChainFollows /\ Within)'
    BY <2>1, <2>2 DEF node, ChainFollows, Within
  <2>5. TransfersAt(h)' = {}
    BY <2>1 DEF KeptInv, KeptAt, TransfersAt, RowsAt, DeleteBlock, IInv, TableTypes, DbTables
  <2>6. ASSUME NEW k \in Heights, k # h PROVE TransfersAt(k)' = TransfersAt(k)
    BY <2>1, <2>6 DEF TransfersAt, RowsAt, DeleteBlock, IInv, TableTypes, DbTables
  <2>7. KeptInv'
    BY <2>1, <2>2, <2>5, <2>6 DEF KeptInv, KeptAt, AllKept
  <2> QED  BY <2>3, <2>4, <2>7, NoNewBlocks
<1> QED  BY <1>1, <1>2

LEMMA StoreHInv == ASSUME IInv, HInv, Store PROVE HInv'
<1> USE DEF HInv
<1> PICK h \in Heights : h = raw.height
  BY DEF Store, IInv, TaskTypes
<1> PICK logs : logs = LogsOf(Receipts)
  OBVIOUS
<1> DEFINE transfers == Monitored(logs, MonitoredAccounts)
<1>1. PICK down \in SUBSET transfers :
        LET found == Checked(tokens, logs, MonitoredAccounts, down)
            rows == NewRows(h, logs, found.kept)
        IN /\ blocks' = [blocks EXCEPT ![h] = raw.block]
           /\ db' = [t \in DOMAIN db |-> db[t] \cup rows[t]]
           /\ lost' = lost \cup {[id |-> raw.block.id, token |-> logs[i].contract] :
                                   i \in transfers \ found.kept}
  BY DEF Store
<1>2. pc = "store" /\ pc' = "idle" /\ raw' = NoData /\ UNCHANGED node
  BY DEF Store
<1>3. /\ blocks[h] = NoBlock /\ Receipts = raw.block.receipts /\ raw.block \in BlockSet
      /\ h \in DOMAIN chain
  BY <1>2 DEF IInv, TaskTypes, RawInv, FreeInv, Within
<1>4. logs \in LogSeqs
  BY <1>3, LogsOfTypes DEF BlockSet
<1> DEFINE found == Checked(tokens, logs, MonitoredAccounts, down)
           kept == found.kept
<1>5. kept \subseteq transfers
  <2>1. found \in FoundSet(tokens, logs, MonitoredAccounts)
    BY <1>4, CheckedFinds DEF IInv, TokensInv
  <2> HIDE DEF found
  <2> QED  BY <2>1 DEF FoundSet
<1>6. /\ blocks' = [blocks EXCEPT ![h] = raw.block]
      /\ db' = [t \in DOMAIN db |-> db[t] \cup NewRows(h, logs, kept)[t]]
      /\ lost' = lost \cup {[id |-> raw.block.id, token |-> logs[i].contract] :
                              i \in transfers \ kept}
  BY <1>1
<1> HIDE DEF found, kept, transfers
<1>7. /\ DOMAIN blocks = Heights /\ blocks'[h] = raw.block
      /\ \A k \in Heights : k # h => blocks'[k] = blocks[k]
  BY <1>6 DEF IInv, TableTypes
<1>8. Known' \subseteq Known
  BY <1>2, <1>7 DEF Known, node, NoData
<1>9. (ChainFollows /\ Within)'
  BY <1>2, <1>3, <1>7 DEF node, ChainFollows, Within
<1> DEFINE more == TransferRows(h, logs, kept)
<1>10. /\ db'.account_erc20_transfers = db.account_erc20_transfers \cup more
       /\ \A r \in more : r.block = h
  <2>1. NewRows(h, logs, kept).account_erc20_transfers = more
    BY DEF NewRows
  <2>2. \A r \in NewRows(h, logs, kept)["account_erc20_transfers"] : r.block = h
    BY NewRowsNumber DEF DbTables
  <2> HIDE DEF more
  <2> QED  BY <1>6, <2>1, <2>2 DEF IInv, TableTypes, DbTables
<1> HIDE DEF more
<1>11. TransfersAt(h)' = more
  <2>1. TransfersAt(h) = {}
    BY <1>3 DEF KeptInv, KeptAt
  <2> QED  BY <1>10, <2>1 DEF TransfersAt, RowsAt
<1>12. ASSUME NEW k \in Heights, k # h PROVE TransfersAt(k)' = TransfersAt(k)
  BY <1>10, <1>12 DEF TransfersAt, RowsAt
<1>13. AllKept(h, logs)'
  <2>1. ASSUME NEW i \in transfers \ kept PROVE \E x \in lost' : x.token = logs[i].contract
    <3>1. [id |-> raw.block.id, token |-> logs[i].contract] \in lost'
      BY <1>6
    <3> QED  BY <3>1
  <2>2. kept \in SUBSET Monitored(logs, MonitoredAccounts)
    BY <1>5 DEF transfers
  <2> QED  BY <1>11, <2>1, <2>2 DEF AllKept, more, transfers
<1>14. ASSUME NEW k \in Heights, k # h PROVE KeptAt(k)'
  <2>1. /\ lost \subseteq lost' /\ blocks'[k] = blocks[k] /\ TransfersAt(k)' = TransfersAt(k)
        /\ KeptAt(k)
    BY <1>6, <1>7, <1>12, <1>14 DEF KeptInv
  <2> QED  BY <2>1 DEF KeptAt, AllKept
<1>15. KeptAt(h)'
  <2>1. raw.block # NoBlock
    BY <1>3 DEF NoBlock, BlockSet
  <2>2. logs = LogsOf(blocks'[h].receipts)
    BY <1>3, <1>7
  <2> QED  BY <1>7, <1>13, <2>1, <2>2 DEF KeptAt, AllKept
<1>17. KeptInv'
  BY <1>14, <1>15 DEF KeptInv
<1> QED  BY <1>8, <1>9, <1>17, NoNewBlocks

LEMMA StepHInv == IInv /\ HInv /\ [Next]_vars => HInv'
<1> SUFFICES ASSUME IInv, HInv, [Next]_vars PROVE HInv'
  OBVIOUS
<1>n. chain \in Seq(BlockSet) /\ Len(chain) \in Nat /\ DOMAIN chain = 1 .. Len(chain)
  BY LenProperties DEF IInv, NodeTypes
<1>i. NoData.block \in Known
  BY DEF NoData, Known
<1>1. CASE Mine
  BY <1>1, <1>n, GrowHInv DEF Mine
<1>2. CASE Switch
  <2>1. chain # <<>> /\ Grow(Front(chain))
    BY <1>2 DEF Switch
  <2> DEFINE branch == Front(chain)
  <2>2. branch = [i \in 1 .. Len(chain) - 1 |-> chain[i]] /\ Len(chain) >= 1
    <3>1. branch = SubSeq(chain, 1, Len(chain) - 1) /\ Len(chain) >= 1
      BY <1>n, <2>1 DEF Front
    <3> HIDE DEF branch
    <3> QED  BY <1>n, <3>1
  <2> HIDE DEF branch
  <2>3. /\ branch \in Seq(BlockSet) /\ Len(branch) = Len(chain) - 1
        /\ DOMAIN branch = 1 .. Len(chain) - 1
    <3>1. \A i \in 1 .. Len(chain) - 1 : chain[i] \in BlockSet
      BY <1>n, ElementOfSeq
    <3>2. Len(chain) - 1 \in Nat
      BY <1>n, <2>2
    <3>3. branch \in Seq(BlockSet)
      BY <2>2, <3>1, <3>2, SeqDef
    <3>4. /\ DOMAIN branch = 1 .. Len(chain) - 1
          /\ DOMAIN branch = 1 .. Len(branch) /\ Len(branch) \in Nat
      BY <2>2, <3>3, LenProperties
    <3> QED  BY <3>2, <3>3, <3>4
  <2>4. \A k \in DOMAIN branch : branch[k] = chain[k]
    BY <2>2
  <2>5. Grow(branch)
    BY <2>1 DEF branch
  <2> QED  BY <2>3, <2>4, <2>5, GrowHInv
<1>3. ASSUME NEW h \in Heights, GetBlock(h) PROVE HInv'
  <2>1. /\ h \in DOMAIN chain /\ raw' = [NoData EXCEPT !.height = h, !.block = chain[h]]
        /\ UNCHANGED <<node, tables, faults, lost>>
    BY <1>3 DEF GetBlock
  <2>2. raw'.height = h /\ raw'.block = chain[h]
    BY <2>1 DEF NoData
  <2>3. raw'.block \in Known
    BY <2>1, <2>2 DEF Known
  <2> QED  BY <2>1, <2>2, <2>3, StillHInv DEF tables
<1>4. ASSUME NEW i, GetReceipt(i) PROVE HInv'
  <2>1. /\ raw'.height = raw.height /\ raw'.block = raw.block /\ pc = "receipts"
        /\ UNCHANGED <<node, tables, pc, lost>>
    BY <1>4 DEF GetReceipt, IInv, TaskTypes
  <2>2. raw'.block \in Known /\ raw'.height \in DOMAIN chain
    BY <2>1 DEF Known, HInv, Within
  <2> QED  BY <2>1, <2>2, StillHInv DEF tables
<1>5. CASE Validate
  <2>1. /\ UNCHANGED <<node, tables, faults, lost>> /\ pc = "receipts"
        /\ (pc' = "idle" /\ raw' = NoData) \/ UNCHANGED raw
    BY <1>5 DEF Validate
  <2>2. raw.height \in DOMAIN chain /\ raw.block \in Known
    BY <2>1 DEF HInv, Within, Known
  <2>3. raw'.block \in Known /\ (pc' # "idle" => raw'.height \in DOMAIN chain)
    BY <1>i, <2>1, <2>2
  <2> QED  BY <2>1, <2>3, StillHInv DEF tables
<1>6. CASE StoreFails
  <2>1. UNCHANGED <<node, tables, lost>> /\ pc' = "idle" /\ raw' = NoData
    BY <1>6 DEF StoreFails
  <2>2. raw'.block \in Known
    BY <1>i, <2>1
  <2> QED  BY <2>1, <2>2, StillHInv DEF tables
<1>7. CASE UNCHANGED vars
  <2>1. UNCHANGED <<node, tables, pc, raw, lost>>
    BY <1>7 DEF vars
  <2>2. raw'.block \in Known /\ (pc' # "idle" => raw'.height \in DOMAIN chain)
    BY <2>1 DEF Known, HInv, Within
  <2> QED  BY <2>1, <2>2, StillHInv DEF tables
<1> QED  BY <1>1, <1>2, <1>3, <1>4, <1>5, <1>6, <1>7, CheckHInv, StoreHInv DEF Next

LEMMA HInvariance == Spec => [](IInv /\ HInv)
<1>1. Init => IInv /\ HInv
  BY InitInv, InitHInv
<1>2. IInv /\ HInv /\ [Next]_vars => (IInv /\ HInv)'
  BY StepInv, StepHInv
<1> QED  BY <1>1, <1>2, PTL DEF Spec

-----------------------------------------------------------------------------
(* The stored blocks and the branch                                        *)

\* With the node's branch in the database every block of it is the stored one.
LEMMA SyncedBlocks ==
  ASSUME IInv, HInv, Synced
  PROVE  /\ chain \in Seq(BlockSet) /\ Len(chain) \in Nat /\ DOMAIN chain = 1 .. Len(chain)
         /\ Len(chain) <= MaxHeight
         /\ \A k \in 1 .. Len(chain) :
              /\ k \in Heights /\ blocks[k] = chain[k] /\ blocks[k] # NoBlock
              /\ chain[k] \in BlockSet /\ LogsOf(chain[k].receipts) \in LogSeqs
         /\ \A k \in Heights : blocks[k] # NoBlock => k \in 1 .. Len(chain)
<1>1. /\ chain \in Seq(BlockSet) /\ Len(chain) \in Nat /\ DOMAIN chain = 1 .. Len(chain)
      /\ Len(chain) <= MaxHeight
  BY LenProperties DEF IInv, NodeTypes
<1>2. ASSUME NEW k \in 1 .. Len(chain)
      PROVE  /\ k \in Heights /\ blocks[k] = chain[k] /\ blocks[k] # NoBlock
             /\ chain[k] \in BlockSet /\ LogsOf(chain[k].receipts) \in LogSeqs
  <2>1. k \in Heights /\ chain[k] \in BlockSet
    BY <1>1, Bounds, ElementOfSeq DEF Heights
  <2>2. blocks[k] \in Known /\ chain[k] \in Known /\ blocks[k].id = chain[k].id
    BY <1>1, <2>1 DEF Known, Synced
  <2>3. blocks[k] = chain[k]
    BY <2>2 DEF HInv, Identified
  <2>4. LogsOf(chain[k].receipts) \in LogSeqs
    BY <2>1, LogsOfTypes DEF BlockSet
  <2>5. chain[k] # NoBlock
    BY <2>1 DEF BlockSet, NoBlock
  <2> QED  BY <2>1, <2>3, <2>4, <2>5
<1>3. \A k \in Heights : blocks[k] # NoBlock => k \in 1 .. Len(chain)
  BY <1>1 DEF HInv, Within
<1> QED  BY <1>1, <1>2, <1>3

LEMMA ContractTypes ==
  ASSUME IInv, NEW k \in 0 .. Len(chain)
  PROVE  /\ Contracts(chain, k) \in ContractSet
         /\ k # 0 => k \in DOMAIN chain /\ Contracts(chain, k) = chain[k].contracts
<1>1. chain \in Seq(BlockSet) /\ Len(chain) \in Nat /\ DOMAIN chain = 1 .. Len(chain)
  BY LenProperties DEF IInv, NodeTypes
<1>2. CASE k = 0
  BY <1>2, NewContractTypes DEF Contracts
<1>3. CASE k # 0
  <2>1. k \in 1 .. Len(chain)
    BY <1>1, <1>3
  <2>2. chain[k] \in BlockSet
    BY <1>1, <2>1, ElementOfSeq
  <2> QED  BY <1>1, <1>3, <2>1, <2>2 DEF Contracts, BlockSet
<1> QED  BY <1>2, <1>3

\* One block after the other, from the contracts' first state.
LEMMA ChainStep ==
  ASSUME IInv, HInv, Synced, NEW k \in 0 .. Len(chain) - 1
  PROVE  /\ k + 1 \in 1 .. Len(chain) /\ k + 1 \in Heights
         /\ Contracts(chain, k) \in ContractSet /\ Contracts(chain, k + 1) \in ContractSet
         /\ Follows(Contracts(chain, k), LogsOf(blocks[k + 1].receipts), Contracts(chain, k + 1))
<1>1. /\ Len(chain) \in Nat /\ k \in 0 .. Len(chain) /\ k + 1 \in 0 .. Len(chain)
      /\ k + 1 \in 1 .. Len(chain) /\ k + 1 # 0 /\ (k + 1) - 1 = k
  BY SyncedBlocks
<1>2. k + 1 \in DOMAIN chain /\ blocks[k + 1] = chain[k + 1] /\ k + 1 \in Heights
  BY <1>1, SyncedBlocks
<1>3. /\ Contracts(chain, k) \in ContractSet /\ Contracts(chain, k + 1) \in ContractSet
      /\ Contracts(chain, k + 1) = chain[k + 1].contracts
  BY <1>1, ContractTypes
<1>4. Follows(Contracts(chain, (k + 1) - 1), LogsOf(chain[k + 1].receipts), chain[k + 1].contracts)
  BY <1>2 DEF HInv, ChainFollows
<1> QED  BY <1>1, <1>2, <1>3, <1>4

-----------------------------------------------------------------------------
(* Theorem: receivers are told                                             *)

\* A receiver's first delegation leaves its notification.
LEMMA ToldIsStored ==
  ASSUME IInv, NEW h \in Heights, blocks[h] # NoBlock, NEW u,
         Told(LogsOf(blocks[h].receipts), u)
  PROVE  \E n \in db.notifications : n.to = u
<1> DEFINE logs == LogsOf(blocks[h].receipts)
<1>1. PICK i \in DOMAIN logs : Increase(logs[i], u)
  BY DEF Told
<1>2. RowsAt("notifications", h) = DelegateStartRows(h, logs)
  BY DEF IInv, TablesInv, Checkable, DbTables, RowsOf, NewRows
<1> HIDE DEF logs
<1> DEFINE r == Row(h, i, logs[i])
<1>3. r \in Rows(h, logs, Supernova, {"DelegatedPowerIncreased"}) /\ r.after = r.amount
      /\ r.to = u
  BY <1>1 DEF Rows, Of, Increase, Row
<1> HIDE DEF r
<1>4. DelegateNotif(r) \in RowsAt("notifications", h) /\ DelegateNotif(r).to = u
  BY <1>2, <1>3 DEF DelegateStartRows, DelegateNotif
<1> QED  BY <1>4 DEF RowsAt

\* A notification is about a row of the delegated powers.
LEMMA NotifiedOfRow ==
  ASSUME IInv, NEW n \in db.notifications
  PROVE  \E r \in db.supernova_delegate_changes :
           r.block = n.block /\ r.to = n.to /\ r.from = n.from /\ r.after = n.amount
<1> DEFINE h == n.block
           logs == LogsOf(blocks[h].receipts)
<1>1. h \in Heights /\ n \in RowsAt("notifications", h)
  BY DEF IInv, TableTypes, DbTables, RowsAt
<1>2. /\ blocks[h] # NoBlock
      /\ RowsAt("notifications", h) = DelegateStartRows(h, logs)
      /\ RowsAt("supernova_delegate_changes", h) = DelegateChangeRows(h, logs)
  <2>1. RowsAt("notifications", h) = IF blocks[h] = NoBlock THEN {} ELSE DelegateStartRows(h, logs)
    BY <1>1 DEF IInv, TablesInv, Checkable, DbTables, RowsOf, NewRows
  <2>2. RowsAt("supernova_delegate_changes", h)
          = IF blocks[h] = NoBlock THEN {} ELSE DelegateChangeRows(h, logs)
    <3>1. "supernova_delegate_changes" \in Checkable
      BY DEF Checkable, DbTables
    <3>2. RowsOf("supernova_delegate_changes", h, blocks[h]) = DelegateChangeRows(h, logs)
      BY DEF RowsOf, NewRows
    <3> QED  BY <1>1, <3>1, <3>2, Zenon DEF IInv, TablesInv
  <2> QED  BY <1>1, <2>1, <2>2
<1> HIDE DEF logs
<1>3. PICK r \in Rows(h, logs, Supernova, {"DelegatedPowerIncreased"}) :
        n = DelegateNotif(r) /\ r.after = r.amount
  BY <1>1, <1>2 DEF DelegateStartRows
<1>4. r \in DelegateChangeRows(h, logs)
  BY DEF DelegateChangeRows, Rows, Of
<1>5. r \in db.supernova_delegate_changes
  BY <1>2, <1>4 DEF RowsAt
<1> QED  BY <1>3, <1>5 DEF DelegateNotif

\* Whoever holds delegated power was told of it, and nobody is told of a delegation whose
\* block is not stored any more: over the whole branch every power that is more than none
\* began with a delegation after which the receiver had just what it gave (the storable of
\* delegate changes, HandleDelegateStart).
THEOREM ReceiversAreTold == Spec => []DelegateesTold
<1>1. IInv /\ HInv => DelegateesTold
  <2> SUFFICES ASSUME IInv, HInv PROVE DelegateesTold
    OBVIOUS
  <2>1. ASSUME Synced, NEW u \in Users, State.power[u] > 0
        PROVE  \E n \in db.notifications : n.to = u
    <3> DEFINE c(k) == Contracts(chain, k)
               N == Len(chain)
               Has(w) == \E n \in db.notifications : n.to = w
               T == {k \in 0 .. N : Sound(c(k)) /\ \A w \in Users : c(k).power[w] > 0 => Has(w)}
    <3>1. N \in Nat
      BY <2>1, SyncedBlocks
    <3>2. 0 \in T
      <4>1. c(0) = NewContracts
        BY DEF Contracts
      <4>2. ~(0 > 0) /\ 0 \in 0 .. N
        BY <3>1
      <4> HIDE DEF Has, N
      <4> QED  BY <4>1, <4>2, NewContractsSound
    <3>3. ASSUME NEW k \in 0 .. N - 1, k \in T PROVE k + 1 \in T
      <4> DEFINE logs == LogsOf(blocks[k + 1].receipts)
                 d == c(k + 1)
      <4>1. k + 1 \in 1 .. N /\ k + 1 \in Heights /\ Follows(c(k), logs, d)
        BY <2>1, ChainStep
      <4>2. blocks[k + 1] # NoBlock
        BY <2>1, <4>1, SyncedBlocks
      <4>3. Sound(d) /\ \A w \in Users : d.power[w] > 0 => c(k).power[w] > 0 \/ Told(logs, w)
        <5> HIDE DEF c
        <5> QED  BY <3>3, <4>1 DEF Follows, Leads
      <4>4. \A w : Told(logs, w) => Has(w)
        BY <4>1, <4>2, ToldIsStored
      <4> HIDE DEF c, d, logs, Has
      <4>5. \A w \in Users : d.power[w] > 0 => Has(w)
        BY <3>3, <4>3, <4>4
      <4>6. k + 1 \in 0 .. N
        BY <3>1, <4>1
      <4> QED  BY <4>3, <4>5, <4>6 DEF d
    <3> HIDE DEF T
    <3>4. N \in T
      <4>1. \A k \in 0 .. N : k \in T
        <5> HIDE DEF N
        <5> QED  BY <3>1, <3>2, <3>3, ByOneUp
      <4> HIDE DEF N
      <4> QED  BY <3>1, <4>1
    <3>5. State = c(N)
      BY DEF State
    <3> QED  BY <2>1, <3>4, <3>5 DEF T
  <2> QED  BY <2>1, NotifiedOfRow DEF DelegateesTold
<1> QED  BY <1>1, HInvariance, PTL

-----------------------------------------------------------------------------
(* Theorem: what the treasury has                                          *)

LEMMA NoTotal == Total({}) = 0
<1> DEFINE f == [r \in {} |-> r.amount]
<1>1. IsFiniteSet({}) /\ \A r \in {} : f[r] = r.amount /\ f[r] \in Int
  BY FS_EmptySet
<1> HIDE DEF f
<1>2. Total({}) = SumOver(f, {})
  BY <1>1, TotalIs
<1>3. SumOver(f, {}) = 0
  BY <1>1, SumStep
<1> QED  BY <1>2, <1>3

\* Rows that come and go with the blocks: in each block those of A less those of B are the
\* change of g.
BlockByBlock(A, B, n, g) ==
  /\ g[0] = 0 /\ \A k \in 0 .. n : g[k] \in Int
  /\ \A k \in 0 .. n - 1 :
       Total({r \in A : r.block = k + 1}) - Total({r \in B : r.block = k + 1}) = g[k + 1] - g[k]

\* All of A less all of B are then what g has after the last.
LEMMA TotalsOfBlocks ==
  ASSUME NEW A, IsFiniteSet(A), NEW B, IsFiniteSet(B), NEW n \in Nat,
         \A r \in A \cup B : r.amount \in Int /\ r.block \in 1 .. n,
         NEW g, BlockByBlock(A, B, n, g)
  PROVE  Total(A) - Total(B) = g[n]
<1> USE DEF BlockByBlock
<1> DEFINE To(S, k) == {r \in S : r.block <= k}
           At(S, k) == {r \in S : r.block = k}
           T == {k \in 0 .. n : Total(To(A, k)) - Total(To(B, k)) = g[k]}
<1>1. ASSUME NEW S \in {A, B}, NEW k \in 0 .. n - 1
      PROVE  /\ Total(To(S, k + 1)) = Total(To(S, k)) + Total(At(S, k + 1))
             /\ Total(To(S, k)) \in Int /\ Total(At(S, k + 1)) \in Int
  <2> DEFINE X == To(S, k)
             Y == At(S, k + 1)
  <2>1. \A r \in S : r.block \in Int /\ r.amount \in Int
    OBVIOUS
  <2>2. X \cap Y = {} /\ To(S, k + 1) = X \cup Y
    BY <2>1
  <2>3. IsFiniteSet(X) /\ IsFiniteSet(Y) /\ \A r \in X \cup Y : r.amount \in Int
    BY <2>1, FS_Subset
  <2> HIDE DEF X, Y
  <2>4. /\ Total(X \cup Y) = Total(X) + Total(Y)
        /\ Total(X) \in Int /\ Total(Y) \in Int
    BY <2>2, <2>3, TotalUnion
  <2>5. Total(To(S, k + 1)) = Total(X) + Total(Y)
    BY <2>2, <2>4, Zenon
  <2> QED  BY <2>4, <2>5 DEF X, Y
<1>2. 0 \in T
  <2>1. To(A, 0) = {} /\ To(B, 0) = {}
    OBVIOUS
  <2>2. Total(To(A, 0)) = 0 /\ Total(To(B, 0)) = 0
    BY <2>1, NoTotal, Zenon
  <2> HIDE DEF To
  <2> QED  BY <2>2
<1>3. ASSUME NEW k \in 0 .. n - 1, k \in T PROVE k + 1 \in T
  <2> DEFINE a == Total(To(A, k))
             b == Total(To(B, k))
             x == Total(At(A, k + 1))
             y == Total(At(B, k + 1))
             z == Total(To(A, k + 1))
             w == Total(To(B, k + 1))
             i == g[k]
             j == g[k + 1]
  <2>1. /\ z = a + x /\ w = b + y
        /\ a \in Int /\ b \in Int /\ x \in Int /\ y \in Int
    BY <1>1
  <2>2. x - y = j - i /\ a - b = i /\ k + 1 \in 0 .. n
    BY <1>3
  <2>3. i \in Int /\ j \in Int
    <3>1. k \in 0 .. n /\ k + 1 \in 0 .. n
      OBVIOUS
    <3> QED  BY <3>1
  <2> HIDE DEF a, b, x, y, z, w, i, j
  <2>4. z - w = j
    BY <2>1, <2>2, <2>3
  <2> QED  BY <2>2, <2>4 DEF z, w, j
<1>4. n \in T
  <2>1. \A k \in 0 .. n : k \in T
    <3> HIDE DEF T
    <3> QED  BY <1>2, <1>3, ByOneUp
  <2> HIDE DEF T
  <2> QED  BY <2>1
<1>5. To(A, n) = A /\ To(B, n) = B
  OBVIOUS
<1>6. Total(To(A, n)) - Total(To(B, n)) = g[n]
  BY <1>4
<1> HIDE DEF To
<1> QED  BY <1>5, <1>6

\* A row for each log of a kind.
LEMMA TotalOfLogs ==
  ASSUME NEW logs \in Seq(LogSet), NEW kind, NEW row,
         \A i \in DOMAIN logs : row[i].amount = logs[i].amount /\ row[i].index = i
  PROVE  Total({row[i] : i \in Picked(logs, kind)}) = Amounts(logs, kind)
<1> DEFINE S == Picked(logs, kind)
           rows == {row[i] : i \in S}
           f == [i \in DOMAIN logs |-> logs[i].amount]
           h == [r \in rows |-> r.amount]
<1>1. IsFiniteSet(S) /\ S \subseteq DOMAIN logs /\ \A i \in S : logs[i].amount \in Int
  BY AmountsAreInt
<1> HIDE DEF S
<1>2. IsFiniteSet(rows)
  <2>1. [i \in S |-> row[i]] \in Surjection(S, rows)
    BY DEF Surjection
  <2> HIDE DEF rows
  <2> QED  BY <1>1, <2>1, FS_Surjection
<1>3. \A i, j \in S : row[i] = row[j] => i = j
  BY <1>1
<1>4. \A i \in S : f[i] \in Int /\ h[row[i]] = f[i]
  BY <1>1
<1>5. \A r \in rows : h[r] = r.amount /\ h[r] \in Int
  BY <1>1
<1> HIDE DEF f, h
<1>6. SumOver(h, {row[i] : i \in S}) = SumOver(f, S)
  BY <1>1, <1>3, <1>4, SumImage
<1>7. Total(rows) = SumOver(h, rows)
  <2> HIDE DEF rows
  <2> QED  BY <1>2, <1>5, TotalIs
<1> QED  BY <1>6, <1>7 DEF S, f, Amounts

TreasuryRows(t) == {r \in db.account_erc20_transfers : r.account = Treasury /\ r.token = t}
TreasuryIn(t) == {r \in TreasuryRows(t) : r.direction = "IN"}
TreasuryOut(t) == {r \in TreasuryRows(t) : r.direction = "OUT"}

LEMMA TransferOf ==
  ASSUME IInv, HInv, NEW r \in db.account_erc20_transfers
  PROVE  /\ r.block \in Heights /\ blocks[r.block] # NoBlock /\ r.amount \in Int
         /\ r \in TransfersAt(r.block)
<1>1. r.block \in Heights /\ r \in TransfersAt(r.block)
  BY DEF IInv, TableTypes, DbTables, TransfersAt, RowsAt
<1> DEFINE h == r.block
           logs == LogsOf(blocks[h].receipts)
<1>2. blocks[h] # NoBlock /\ AllKept(h, logs)
  BY <1>1 DEF HInv, KeptInv, KeptAt
<1>3. logs \in LogSeqs
  <2>1. blocks[h] \in BlockSet
    BY <1>1, <1>2 DEF IInv, TableTypes, Stored
  <2> QED  BY <2>1, LogsOfTypes DEF BlockSet
<1> HIDE DEF logs
<1>4. PICK kept \in SUBSET Monitored(logs, MonitoredAccounts) :
        TransfersAt(h) = TransferRows(h, logs, kept)
  BY <1>2 DEF AllKept
<1>5. PICK i \in kept : r.amount = logs[i].amount
  BY <1>1, <1>4 DEF TransferRows
<1>6. logs \in Seq(LogSet) /\ i \in DOMAIN logs
  BY <1>3 DEF LogSeqs, Monitored
<1>7. logs[i] \in LogSet
  BY <1>6, LenProperties, ElementOfSeq
<1>8. r.amount \in Int
  BY <1>5, <1>7 DEF LogSet
<1> QED  BY <1>1, <1>2, <1>8

\* What a block's logs say the treasury was paid of a token is what its rows say, when no
\* transfer of the token was ever left out.
LEMMA PaidRows ==
  ASSUME IInv, HInv, NEW t \in Tokens, \A x \in lost : x.token # t,
         NEW h \in Heights, blocks[h] # NoBlock,
         \A i \in DOMAIN LogsOf(blocks[h].receipts) :
           LogsOf(blocks[h].receipts)[i].event = "Transfer"
             => LogsOf(blocks[h].receipts)[i].from # Treasury
  PROVE  /\ Total({r \in TreasuryIn(t) : r.block = h})
              = Amounts(LogsOf(blocks[h].receipts), PaidOf(t))
         /\ {r \in TreasuryOut(t) : r.block = h} = {}
<1> DEFINE logs == LogsOf(blocks[h].receipts)
           In1(i) == [block |-> h, index |-> i, token |-> logs[i].contract, account |-> logs[i].to,
                      counterparty |-> logs[i].from, amount |-> logs[i].amount,
                      direction |-> "IN"]
           Out1(i) == [block |-> h, index |-> i, token |-> logs[i].contract,
                       account |-> logs[i].from, counterparty |-> logs[i].to,
                       amount |-> logs[i].amount, direction |-> "OUT"]
           row == [i \in DOMAIN logs |-> In1(i)]
           S == Picked(logs, PaidOf(t))
<1>1. logs \in LogSeqs
  <2>1. blocks[h] \in BlockSet
    BY DEF IInv, TableTypes, Stored
  <2> QED  BY <2>1, LogsOfTypes DEF BlockSet
<1>2. AllKept(h, logs)
  BY DEF HInv, KeptInv, KeptAt
<1>3. \A i \in DOMAIN logs : logs[i].event = "Transfer" => logs[i].from # Treasury
  OBVIOUS
<1> HIDE DEF logs
<1>4. logs \in Seq(LogSet) /\ \A i \in DOMAIN logs : logs[i] \in LogSet
  BY <1>1, LenProperties, ElementOfSeq DEF LogSeqs
<1>5. PICK kept \in SUBSET Monitored(logs, MonitoredAccounts) :
        /\ TransfersAt(h) = TransferRows(h, logs, kept)
        /\ \A i \in Monitored(logs, MonitoredAccounts) \ kept :
             \E x \in lost : x.token = logs[i].contract
  BY <1>2 DEF AllKept
<1>6. /\ S \subseteq DOMAIN logs
      /\ \A i \in DOMAIN logs :
           i \in S <=> /\ logs[i].contract = t /\ logs[i].event = "Transfer"
                       /\ logs[i].to = Treasury
  BY <1>4 DEF Picked, PaidOf
<1>7. /\ kept \subseteq DOMAIN logs /\ \A i \in kept : logs[i].event = "Transfer"
      /\ S \subseteq kept
  <2>1. S \subseteq Monitored(logs, MonitoredAccounts)
    BY <1>6 DEF Monitored, MonitoredAccounts
  <2>2. \A i \in S : i \in kept
    BY <1>5, <1>6, <2>1
  <2> QED  BY <2>2 DEF Monitored
<1> HIDE DEF S
<1>8. TransfersAt(h) = UNION {{Out1(i), In1(i)} : i \in kept}
  BY <1>5 DEF TransferRows
<1>9. \A i \in kept : /\ Out1(i).account # Treasury \/ Out1(i).direction # "IN"
                      /\ Out1(i).account # Treasury
                      /\ In1(i).direction = "IN" /\ Out1(i).direction = "OUT"
                      /\ In1(i).account = logs[i].to /\ In1(i).token = logs[i].contract
                      /\ row[i] = In1(i)
  BY <1>3, <1>7
<1>10. \A r : r \in TreasuryRows(t) /\ r.block = h
                <=> r \in TransfersAt(h) /\ r.account = Treasury /\ r.token = t
  BY DEF TreasuryRows, TransfersAt, RowsAt
<1>11. \A i \in DOMAIN logs : row[i].amount = logs[i].amount /\ row[i].index = i
  OBVIOUS
<1> HIDE DEF In1, Out1, row
<1>12. {r \in TreasuryIn(t) : r.block = h} = {row[i] : i \in S}
  <2>1. ASSUME NEW r \in TreasuryIn(t), r.block = h PROVE r \in {row[i] : i \in S}
    <3>1. r \in TransfersAt(h) /\ r.account = Treasury /\ r.token = t /\ r.direction = "IN"
      BY <1>10, <2>1 DEF TreasuryIn
    <3>2. PICK i \in kept : r = In1(i)
      BY <1>8, <1>9, <3>1
    <3>3. i \in S
      BY <1>6, <1>7, <1>9, <3>1, <3>2
    <3> QED  BY <1>9, <3>2, <3>3
  <2>2. ASSUME NEW i \in S PROVE row[i] \in TreasuryIn(t) /\ row[i].block = h
    <3>1. i \in kept /\ row[i] = In1(i) /\ i \in DOMAIN logs
      BY <1>6, <1>7, <1>9
    <3>2. In1(i) \in TransfersAt(h)
      BY <1>8, <3>1
    <3>3. In1(i).account = Treasury /\ In1(i).token = t /\ In1(i).direction = "IN"
      BY <1>6, <1>9, <3>1
    <3> QED  BY <1>10, <3>1, <3>2, <3>3 DEF TreasuryIn
  <2> QED  BY <2>1, <2>2
<1>13. {r \in TreasuryOut(t) : r.block = h} = {}
  <2>1. ASSUME NEW r \in TreasuryOut(t), r.block = h PROVE FALSE
    <3>1. r \in TransfersAt(h) /\ r.account = Treasury /\ r.token = t /\ r.direction = "OUT"
      BY <1>10, <2>1 DEF TreasuryOut
    <3> QED  BY <1>8, <1>9, <3>1
  <2> QED  BY <2>1
<1>14. Total({row[i] : i \in S}) = Amounts(logs, PaidOf(t))
  BY <1>4, <1>11, TotalOfLogs DEF S
<1>15. Total({r \in TreasuryIn(t) : r.block = h}) = Amounts(logs, PaidOf(t))
  BY <1>12, <1>14, Zenon
<1> QED  BY <1>13, <1>15 DEF logs

\* What came in of a token less what went out is what the treasury has, once the database has
\* the node's branch, of every token no transfer of which was left out because the node could
\* not be asked about it (the storable of account transfers, checkTokenExists).
THEOREM TreasuryIsRight == Spec => []TreasuryBalances
<1>1. IInv /\ HInv => TreasuryBalances
  <2> SUFFICES ASSUME IInv, HInv, Synced, NEW t \in Tokens, \A x \in lost : x.token # t
               PROVE  Total(TreasuryIn(t)) - Total(TreasuryOut(t)) = State.held[t]
    BY DEF TreasuryBalances, TreasuryIn, TreasuryOut, TreasuryRows
  <2> DEFINE N == Len(chain)
             A == TreasuryIn(t)
             B == TreasuryOut(t)
             g == [k \in 0 .. N |-> Contracts(chain, k).held[t]]
  <2>1. IsFiniteSet(A) /\ IsFiniteSet(B) /\ A \cup B \subseteq db.account_erc20_transfers
    <3>1. IsFiniteSet(db.account_erc20_transfers)
      BY DEF IInv, TableTypes, DbTables
    <3>2. A \subseteq db.account_erc20_transfers /\ B \subseteq db.account_erc20_transfers
      BY DEF TreasuryIn, TreasuryOut, TreasuryRows
    <3> QED  BY <3>1, <3>2, FS_Subset
  <2>2. N \in Nat
    BY SyncedBlocks
  <2>3. \A r \in A \cup B : r.amount \in Int /\ r.block \in 1 .. N
    BY <2>1, TransferOf, SyncedBlocks
  <2>4. \A k \in 0 .. N : g[k] \in Int
    <3> TAKE k \in 0 .. N
    <3>1. Contracts(chain, k) \in ContractSet
      BY ContractTypes
    <3> QED  BY <3>1, FarmTotalIsInt
  <2>5. g[0] = 0
    <3>1. Contracts(chain, 0).held[t] = 0
      BY DEF Contracts, NewContracts
    <3> QED  BY <2>2, <3>1
  <2>6. ASSUME NEW k \in 0 .. N - 1
        PROVE  Total({r \in A : r.block = k + 1}) - Total({r \in B : r.block = k + 1})
                 = g[k + 1] - g[k]
    <3> DEFINE h == k + 1
               logs == LogsOf(blocks[h].receipts)
    <3>1. /\ h \in 1 .. N /\ h \in Heights /\ blocks[h] # NoBlock
          /\ Follows(Contracts(chain, k), logs, Contracts(chain, h))
          /\ logs \in Seq(LogSet)
      BY ChainStep, SyncedBlocks DEF LogSeqs
    <3>2. \A i \in DOMAIN logs : logs[i].event = "Transfer" => logs[i].from # Treasury
      BY <3>1 DEF Follows, Leads
    <3>3. /\ Total({r \in A : r.block = h}) = Amounts(logs, PaidOf(t))
          /\ {r \in B : r.block = h} = {}
      BY <3>1, <3>2, PaidRows
    <3>4. Contracts(chain, h).held[t] = Contracts(chain, k).held[t] + Amounts(logs, PaidOf(t))
      BY <3>1 DEF Follows, Leads
    <3>5. Amounts(logs, PaidOf(t)) \in Int
      BY <3>1, AmountsAreInt
    <3>6. h \in 0 .. N /\ k \in 0 .. N
      BY <2>2, <3>1
    <3>7. g[h] = g[k] + Amounts(logs, PaidOf(t)) /\ g[k] \in Int /\ g[h] \in Int
      <4>1. g[h] = Contracts(chain, h).held[t] /\ g[k] = Contracts(chain, k).held[t]
        BY <3>6
      <4> HIDE DEF g
      <4> QED  BY <2>4, <3>4, <3>6, <4>1
    <3>8. Total({r \in B : r.block = h}) = 0
      BY <3>3, NoTotal, Zenon
    <3> HIDE DEF A, B, g, logs, h
    <3>9. Total({r \in A : r.block = h}) - Total({r \in B : r.block = h}) = g[h] - g[k]
      BY <3>3, <3>5, <3>7, <3>8
    <3> QED  BY <3>9 DEF h
  <2> HIDE DEF A, B, g, N
  <2>7. Total(A) - Total(B) = g[N]
    <3>1. BlockByBlock(A, B, N, g)
      BY <2>4, <2>5, <2>6 DEF BlockByBlock
    <3> QED  BY <2>1, <2>2, <2>3, <3>1, TotalsOfBlocks
  <2>8. g[N] = State.held[t]
    BY <2>2 DEF g, N, State
  <2> QED  BY <2>7, <2>8 DEF A, B
<1> QED  BY <1>1, HInvariance, PTL

-----------------------------------------------------------------------------
(* Theorem: what the chart shows                                           *)

\* The totals of the buckets add up to the total of the rows.
LEMMA BucketsAddUp ==
  ASSUME NEW rows, IsFiniteSet(rows), \A r \in rows : r.amount \in Int,
         NEW q, NEW P, IsFiniteSet(P), \A r \in rows : q[r] \in P,
         NEW at, \A p \in P : at[p] = {r \in rows : q[r] = p},
         NEW f, \A p \in P : f[p] = Total(at[p])
  PROVE  SumOver(f, P) = Total(rows) /\ \A p \in P : f[p] \in Int
<1> DEFINE At(p) == {r \in rows : q[r] = p}
           In1(s) == {r \in rows : q[r] \in s}
           T == {s \in SUBSET P : SumOver(f, s) = Total(In1(s))}
<1>1. ASSUME NEW s \in SUBSET P, NEW p \in P, p \notin s
      PROVE  /\ Total(In1(s \cup {p})) = Total(In1(s)) + Total(At(p))
             /\ Total(In1(s)) \in Int /\ Total(At(p)) \in Int
  <2> DEFINE X == In1(s)
             Y == At(p)
             Z == In1(s \cup {p})
  <2>1. X \cap Y = {} /\ Z = X \cup Y
    BY <1>1
  <2>2. IsFiniteSet(X) /\ IsFiniteSet(Y) /\ \A r \in X \cup Y : r.amount \in Int
    BY FS_Subset
  <2> HIDE DEF X, Y, Z
  <2>3. Total(X \cup Y) = Total(X) + Total(Y) /\ Total(X) \in Int /\ Total(Y) \in Int
    BY <2>1, <2>2, TotalUnion
  <2>4. Total(Z) = Total(X) + Total(Y)
    BY <2>1, <2>3, Zenon
  <2> QED  BY <2>3, <2>4 DEF X, Y, Z
<1>2. \A p \in P : f[p] = Total(At(p)) /\ f[p] \in Int
  <2> TAKE p \in P
  <2>1. {} \in SUBSET P /\ p \notin {}
    OBVIOUS
  <2>2. Total(At(p)) \in Int
    BY <1>1, <2>1
  <2>3. at[p] = At(p) /\ f[p] = Total(at[p])
    OBVIOUS
  <2> HIDE DEF At
  <2> QED  BY <2>2, <2>3, Zenon
<1>3. {} \in T
  <2>1. SumOver(f, {}) = 0
    BY FS_EmptySet, SumStep
  <2>2. In1({}) = {}
    OBVIOUS
  <2>3. Total(In1({})) = 0
    BY <2>2, NoTotal, Zenon
  <2> HIDE DEF In1
  <2> QED  BY <2>1, <2>3
<1>4. ASSUME NEW s \in SUBSET P, NEW p \in P, s \in T, p \notin s PROVE s \cup {p} \in T
  <2>1. IsFiniteSet(s) /\ f[p] \in Int /\ \A y \in s : f[y] \in Int
    BY <1>2, FS_Subset
  <2>2. SumOver(f, s \cup {p}) = SumOver(f, s) + f[p]
    BY <1>4, <2>1, SumPlus
  <2>3. Total(In1(s \cup {p})) = Total(In1(s)) + Total(At(p))
    BY <1>1, <1>4
  <2>4. SumOver(f, s) = Total(In1(s)) /\ f[p] = Total(At(p))
    BY <1>2, <1>4
  <2> HIDE DEF In1, At
  <2>5. SumOver(f, s \cup {p}) = Total(In1(s \cup {p}))
    BY <2>2, <2>3, <2>4
  <2> QED  BY <2>5
<1>5. P \in T
  <2> HIDE DEF T
  <2> QED  BY <1>3, <1>4, ByOneMore
<1>6. SumOver(f, P) = Total(In1(P))
  BY <1>5
<1>7. In1(P) = rows
  OBVIOUS
<1> HIDE DEF In1
<1>8. SumOver(f, P) = Total(rows)
  BY <1>6, <1>7, Zenon
<1> QED  BY <1>2, <1>8

FarmActions(t, k) == {r \in db.yield_farming_actions : r.token = t /\ r.block \in 0 .. k}
FarmAt(t, h, type) ==
  {r \in db.yield_farming_actions : r.token = t /\ r.block = h /\ r.type = type}

\* What a block's logs say went into or out of the farm is what its rows say.
LEMMA FarmedRows ==
  ASSUME IInv, NEW t \in Tokens, NEW h \in Heights, blocks[h] # NoBlock
  PROVE  /\ Total(FarmAt(t, h, "Deposit")) = Amounts(LogsOf(blocks[h].receipts), FarmIn(t))
         /\ Total(FarmAt(t, h, "Withdraw")) = Amounts(LogsOf(blocks[h].receipts), FarmOut(t))
<1> DEFINE logs == LogsOf(blocks[h].receipts)
           row == [i \in DOMAIN logs |->
                     [block |-> h, index |-> i, type |-> logs[i].event, from |-> logs[i].from,
                      token |-> logs[i].to, amount |-> logs[i].amount]]
<1>1. logs \in LogSeqs
  <2>1. blocks[h] \in BlockSet
    BY DEF IInv, TableTypes, Stored
  <2> QED  BY <2>1, LogsOfTypes DEF BlockSet
<1>2. RowsAt("yield_farming_actions", h) = FarmRows(h, logs)
  <2>1. "yield_farming_actions" \in Checkable
    BY DEF Checkable, DbTables
  <2>2. RowsOf("yield_farming_actions", h, blocks[h]) = FarmRows(h, logs)
    BY DEF RowsOf, NewRows
  <2> QED  BY <2>1, <2>2, Zenon DEF IInv, TablesInv
<1> HIDE DEF logs
<1>3. logs \in Seq(LogSet) /\ \A i \in DOMAIN logs : logs[i] \in LogSet
  BY <1>1, LenProperties, ElementOfSeq DEF LogSeqs
<1>4. ASSUME NEW type \in {"Deposit", "Withdraw"}, NEW kind,
             kind = {l \in LogSet : l.contract = Farm /\ l.event = type /\ l.to = t}
      PROVE  Total(FarmAt(t, h, type)) = Amounts(logs, kind)
  <2>1. FarmRows(h, logs) = {row[i] : i \in Of(logs, Farm, {"Deposit", "Withdraw"})}
    BY DEF FarmRows, Of
  <2>2. \A i \in DOMAIN logs : /\ row[i].amount = logs[i].amount /\ row[i].index = i
                               /\ row[i].block = h /\ row[i].type = logs[i].event
                               /\ row[i].token = logs[i].to
    OBVIOUS
  <2> HIDE DEF row
  <2>3. FarmAt(t, h, type) = {r \in RowsAt("yield_farming_actions", h) :
                                r.token = t /\ r.type = type}
    BY DEF FarmAt, RowsAt
  <2>4. FarmAt(t, h, type) = {row[i] : i \in Picked(logs, kind)}
    BY <1>2, <1>3, <1>4, <2>1, <2>2, <2>3 DEF Of, Picked
  <2>5. Total({row[i] : i \in Picked(logs, kind)}) = Amounts(logs, kind)
    BY <1>3, <2>2, TotalOfLogs
  <2> QED  BY <2>4, <2>5, Zenon
<1>5. Total(FarmAt(t, h, "Deposit")) = Amounts(logs, FarmIn(t))
  BY <1>4 DEF FarmIn
<1>6. Total(FarmAt(t, h, "Withdraw")) = Amounts(logs, FarmOut(t))
  BY <1>4 DEF FarmOut
<1> QED  BY <1>5, <1>6 DEF logs

LEMMA FarmRowTypes ==
  ASSUME IInv, NEW r \in db.yield_farming_actions
  PROVE  /\ r.block \in Heights /\ r.amount \in Int
         /\ IsFiniteSet(db.yield_farming_actions)
<1> DEFINE h == r.block
           logs == LogsOf(blocks[h].receipts)
<1>1. /\ h \in Heights /\ r \in RowsAt("yield_farming_actions", h)
      /\ IsFiniteSet(db.yield_farming_actions)
  BY DEF IInv, TableTypes, DbTables, RowsAt
<1>2. blocks[h] # NoBlock /\ RowsAt("yield_farming_actions", h) = FarmRows(h, logs)
  <2>1. "yield_farming_actions" \in Checkable
    BY DEF Checkable, DbTables
  <2>2. RowsOf("yield_farming_actions", h, blocks[h]) = FarmRows(h, logs)
    BY DEF RowsOf, NewRows
  <2>3. RowsAt("yield_farming_actions", h)
          = IF blocks[h] = NoBlock THEN {} ELSE FarmRows(h, logs)
    BY <1>1, <2>1, <2>2, Zenon DEF IInv, TablesInv
  <2> HIDE DEF h, logs
  <2> QED  BY <1>1, <2>3
<1>3. logs \in Seq(LogSet)
  <2>1. blocks[h] \in BlockSet
    BY <1>1, <1>2 DEF IInv, TableTypes, Stored
  <2> QED  BY <2>1, LogsOfTypes DEF BlockSet, LogSeqs
<1> HIDE DEF logs
<1>4. PICK i \in DOMAIN logs : r.amount = logs[i].amount
  BY <1>1, <1>2 DEF FarmRows, Of
<1>5. logs[i] \in LogSet
  BY <1>3, LenProperties, ElementOfSeq
<1> QED  BY <1>1, <1>4, <1>5 DEF LogSet

\* Up to a height the deposits less the withdrawals are what the farm held after it.
LEMMA ActionsMatchFarm ==
  ASSUME IInv, HInv, Synced, NEW t \in Tokens, NEW k \in DOMAIN chain
  PROVE  Total(OfType(FarmActions(t, k), "Deposit")) - Total(OfType(FarmActions(t, k), "Withdraw"))
           = FarmTotal(chain[k].contracts, t)
<1> DEFINE A == OfType(FarmActions(t, k), "Deposit")
           B == OfType(FarmActions(t, k), "Withdraw")
           g == [j \in 0 .. k |-> FarmTotal(Contracts(chain, j), t)]
           N == Len(chain)
<1>1. N \in Nat /\ k \in 1 .. N /\ k \in Nat /\ k \in 0 .. N /\ k # 0
  BY SyncedBlocks
<1>2. IsFiniteSet(A) /\ IsFiniteSet(B) /\ A \cup B \subseteq FarmActions(t, k)
  <2>1. A \cup B \subseteq FarmActions(t, k) /\ FarmActions(t, k) \subseteq db.yield_farming_actions
    BY DEF OfType, FarmActions
  <2>2. IsFiniteSet(db.yield_farming_actions)
    BY DEF IInv, TableTypes, DbTables
  <2> HIDE DEF A, B
  <2> QED  BY <2>1, <2>2, FS_Subset
<1>3. \A r \in A \cup B : r.amount \in Int /\ r.block \in 1 .. k
  <2> TAKE r \in A \cup B
  <2>1. r \in db.yield_farming_actions /\ r.block \in 0 .. k
    BY <1>2 DEF FarmActions
  <2>2. r.block \in Heights /\ r.amount \in Int
    BY <2>1, FarmRowTypes
  <2> QED  BY <1>1, <2>1, <2>2, Bounds DEF Heights
<1>4. \A j \in 0 .. k : g[j] \in Int
  <2> TAKE j \in 0 .. k
  <2>1. j \in 0 .. N
    BY <1>1
  <2>2. Contracts(chain, j) \in ContractSet
    BY <2>1, ContractTypes
  <2> QED  BY <2>2, FarmTotalIsInt
<1>5. g[0] = 0
  <2> DEFINE c == Contracts(chain, 0)
             f == [u \in Users |-> c.farmed[u][t]]
  <2>1. c = NewContracts
    BY DEF Contracts
  <2>2. \A u \in Users : f[u] = 0
    BY <2>1 DEF NewContracts
  <2> HIDE DEF f
  <2>3. SumOver(f, Users) = 0
    BY <2>2, LedgerAssumption, NothingAddsUp
  <2>4. FarmTotal(c, t) = 0
    BY <2>3 DEF f, FarmTotal
  <2> QED  BY <1>1, <2>4
<1>6. ASSUME NEW j \in 0 .. k - 1
      PROVE  Total({r \in A : r.block = j + 1}) - Total({r \in B : r.block = j + 1})
               = g[j + 1] - g[j]
  <2> DEFINE h == j + 1
             logs == LogsOf(blocks[h].receipts)
             a == Amounts(logs, FarmIn(t))
             b == Amounts(logs, FarmOut(t))
  <2>0. j \in 0 .. N - 1 /\ h \in 0 .. k /\ j \in 0 .. k
    BY <1>1
  <2>1. /\ h \in 1 .. N /\ h \in Heights /\ blocks[h] # NoBlock
        /\ Follows(Contracts(chain, j), logs, Contracts(chain, h))
        /\ logs \in Seq(LogSet)
    BY <2>0, ChainStep, SyncedBlocks DEF LogSeqs
  <2>2. Total(FarmAt(t, h, "Deposit")) = a /\ Total(FarmAt(t, h, "Withdraw")) = b
    BY <2>1, FarmedRows
  <2>3. /\ {r \in A : r.block = h} = FarmAt(t, h, "Deposit")
        /\ {r \in B : r.block = h} = FarmAt(t, h, "Withdraw")
    BY <2>0 DEF OfType, FarmActions, FarmAt
  <2>4. FarmTotal(Contracts(chain, h), t) = FarmTotal(Contracts(chain, j), t) + a - b
    BY <2>1 DEF Follows, Leads
  <2>5. a \in Int /\ b \in Int
    BY <2>1, AmountsAreInt
  <2>6. g[h] = g[j] + a - b /\ g[j] \in Int /\ g[h] \in Int
    <3>1. g[h] = FarmTotal(Contracts(chain, h), t) /\ g[j] = FarmTotal(Contracts(chain, j), t)
      BY <2>0
    <3> HIDE DEF g, a, b
    <3> QED  BY <1>4, <2>0, <2>4, <3>1
  <2>7. Total({r \in A : r.block = h}) = a /\ Total({r \in B : r.block = h}) = b
    <3> HIDE DEF A, B, a, b
    <3> QED  BY <2>2, <2>3, Zenon
  <2> HIDE DEF A, B, g, logs, h, a, b
  <2>8. Total({r \in A : r.block = h}) - Total({r \in B : r.block = h}) = g[h] - g[j]
    BY <2>5, <2>6, <2>7
  <2> QED  BY <2>8 DEF h
<1>7. g[k] = FarmTotal(chain[k].contracts, t)
  <2>1. Contracts(chain, k) = chain[k].contracts
    BY <1>1, ContractTypes
  <2> QED  BY <1>1, <2>1
<1> HIDE DEF A, B, g, N
<1>8. Total(A) - Total(B) = g[k]
  <2>1. k \in Nat /\ IsFiniteSet(A) /\ IsFiniteSet(B)
    BY <1>1, <1>2
  <2>2. BlockByBlock(A, B, k, g)
    BY <1>4, <1>5, <1>6 DEF BlockByBlock
  <2> QED  BY <1>3, <2>1, <2>2, TotalsOfBlocks
<1> QED  BY <1>7, <1>8 DEF A, B

\* Of one kind of action, the chart's buckets add up to its rows.
LEMMA ChartAddsUp ==
  ASSUME IInv, NEW t \in Tokens, NEW k,
         NEW type \in {"Deposit", "Withdraw"}, NEW field \in {"deposits", "withdrawals"},
         (type = "Deposit") = (field = "deposits")
  PROVE  LET chart == Chart(db, {t}, 0, k)[t]
         IN SumOfField(chart, field, DOMAIN chart) = Total(OfType(FarmActions(t, k), type))
<1> DEFINE chart == Chart(db, {t}, 0, k)[t]
           all == FarmActions(t, k)
           P == Points(all, "Deposit") \cup Points(all, "Withdraw")
           rows == OfType(all, type)
           q == [r \in all |-> r.block \div Scale]
           f == [p \in P |-> SumActions(all, type, p)]
           at == [p \in P |-> {r \in rows : q[r] = p}]
<1>1. chart = [p \in P |-> [deposits |-> SumActions(all, "Deposit", p),
                            withdrawals |-> SumActions(all, "Withdraw", p)]]
  BY DEF Chart, Stats, FarmActions
<1>2. IsFiniteSet(all) /\ \A r \in all : r.amount \in Int
  <2>1. IsFiniteSet(db.yield_farming_actions) /\ all \subseteq db.yield_farming_actions
    BY DEF IInv, TableTypes, DbTables, FarmActions
  <2> QED  BY <2>1, FarmRowTypes, FS_Subset
<1> HIDE DEF all, chart
<1>3. IsFiniteSet(rows) /\ rows \subseteq all
  BY <1>2, FS_Subset DEF OfType
<1>4. IsFiniteSet(P)
  <2>1. ASSUME NEW kind PROVE IsFiniteSet(Points(all, kind))
    <3> DEFINE S == OfType(all, kind)
               to == Points(all, kind)
    <3>1. IsFiniteSet(S)
      BY <1>2, FS_Subset DEF OfType
    <3>2. [r \in S |-> r.block \div Scale] \in Surjection(S, to)
      BY DEF Surjection, Points
    <3> HIDE DEF S, to
    <3>3. IsFiniteSet(to)
      BY <3>1, <3>2, FS_Surjection
    <3> QED  BY <3>3 DEF to
  <2> QED  BY <2>1, FS_Union
<1>5. \A r \in rows : q[r] \in P
  BY <1>3 DEF Points, OfType
<1>6. /\ \A p \in P : at[p] = {r \in rows : q[r] = p}
      /\ \A p \in P : f[p] = Total(at[p])
  <2> SUFFICES ASSUME NEW p \in P PROVE f[p] = Total(at[p])
    OBVIOUS
  <2> DEFINE X == {r \in rows : r.block \div Scale = p}
             Y == at[p]
  <2>1. X = Y
    BY <1>3
  <2>2. f[p] = Total(X)
    BY DEF SumActions
  <2> HIDE DEF X, Y, f
  <2>3. f[p] = Total(Y)
    BY <2>1, <2>2, Zenon
  <2> QED  BY <2>3 DEF Y
<1>7. /\ DOMAIN chart = P
      /\ \A p \in P : chart[p][field] = f[p]
  <2>1. DOMAIN chart = P
    BY <1>1
  <2>2. ASSUME NEW p \in P PROVE chart[p][field] = f[p]
    <3>1. chart[p] = [deposits |-> SumActions(all, "Deposit", p),
                      withdrawals |-> SumActions(all, "Withdraw", p)]
      BY <1>1
    <3>2. f[p] = SumActions(all, type, p)
      OBVIOUS
    <3> HIDE DEF f
    <3>3. CASE type = "Deposit"
      BY <3>1, <3>2, <3>3
    <3>4. CASE type = "Withdraw"
      BY <3>1, <3>2, <3>4
    <3> QED  BY <3>3, <3>4
  <2> HIDE DEF P, f
  <2> QED  BY <2>1, <2>2
<1> HIDE DEF rows, P, q, f, at
<1>8. SumOver(f, P) = Total(rows) /\ \A p \in P : f[p] \in Int
  <2>1. \A r \in rows : r.amount \in Int
    BY <1>2, <1>3
  <2>2. IsFiniteSet(rows)
    BY <1>3
  <2> QED  BY <1>4, <1>5, <1>6, <2>1, <2>2, BucketsAddUp
<1>9. SumOfField(chart, field, P) = SumOver(f, P)
  BY <1>4, <1>7, <1>8, FieldsAddUp
<1>10. SumOfField(chart, field, DOMAIN chart) = Total(rows)
  BY <1>7, <1>8, <1>9, Zenon
<1> QED  BY <1>10 DEF chart, rows, all

\* Up to any bucket, the deposits less the withdrawals the chart of a token shows are what
\* the farm held when the bucket ended, once the database has the node's branch
\* (handle_yield_farming_staking-actions, the storable of yield farming).
THEOREM ChartIsRight == Spec => []ChartMatchesFarm
<1>1. IInv /\ HInv => ChartMatchesFarm
  <2> SUFFICES ASSUME IInv, HInv, Synced, NEW t \in Tokens, NEW k \in DOMAIN chain
               PROVE  LET chart == Chart(db, {t}, 0, k)[t]
                          SumOf(field) == MapThenSumSet(LAMBDA p : chart[p][field], DOMAIN chart)
                      IN SumOf("deposits") - SumOf("withdrawals")
                           = MapThenSumSet(LAMBDA u : chain[k].contracts.farmed[u][t], Users)
    BY DEF ChartMatchesFarm
  <2> DEFINE chart == Chart(db, {t}, 0, k)[t]
             c == chain[k].contracts
             farmed == c.farmed
  <2>1. /\ SumOfField(chart, "deposits", DOMAIN chart)
             = Total(OfType(FarmActions(t, k), "Deposit"))
        /\ SumOfField(chart, "withdrawals", DOMAIN chart)
             = Total(OfType(FarmActions(t, k), "Withdraw"))
    BY ChartAddsUp
  <2>2. Total(OfType(FarmActions(t, k), "Deposit")) - Total(OfType(FarmActions(t, k), "Withdraw"))
          = FarmTotal(c, t)
    BY ActionsMatchFarm
  <2>3. SumOfField(farmed, t, Users) = FarmTotal(c, t)
    <3> DEFINE f == [u \in Users |-> c.farmed[u][t]]
    <3>1. c \in ContractSet
      BY SyncedBlocks DEF BlockSet
    <3>2. \A u \in Users : f[u] = farmed[u][t] /\ f[u] \in Int
      <4> HIDE DEF c
      <4> QED  BY <3>1 DEF ContractSet
    <3> HIDE DEF f, farmed, c
    <3>3. SumOfField(farmed, t, Users) = SumOver(f, Users)
      BY <3>2, LedgerAssumption, FieldsAddUp
    <3> QED  BY <3>3 DEF f, FarmTotal
  <2> HIDE DEF chart
  <2>4. SumOfField(chart, "deposits", DOMAIN chart) - SumOfField(chart, "withdrawals", DOMAIN chart)
          = SumOfField(farmed, t, Users)
    BY <2>1, <2>2, <2>3
  <2> QED  BY <2>4 DEF chart, SumOfField
<1> QED  BY <1>1, HInvariance, PTL

-----------------------------------------------------------------------------
(* The newest row of a kind                                                *)

\* What "order by included_in_block desc, log_index desc limit 1" finds.
LEMMA LatestIs ==
  ASSUME NEW rows, \A q \in rows : q.block \in Int /\ q.index \in Int,
         \A p, q \in rows : p.block = q.block /\ p.index = q.index => p = q,
         NEW r \in rows,
         \A q \in rows : q.block < r.block \/ (q.block = r.block /\ q.index <= r.index)
  PROVE  Latest(rows) = r
<1> DEFINE Newest(x) == \A q \in rows :
                         q.block < x.block \/ (q.block = x.block /\ q.index <= x.index)
           s == CHOOSE x \in rows : Newest(x)
<1>1. s \in rows /\ Newest(s)
  <2>1. \E x \in rows : Newest(x)
    OBVIOUS
  <2> HIDE DEF Newest
  <2> QED  BY <2>1
<1>2. Latest(rows) = s
  BY DEF Latest
<1> HIDE DEF s
<1>3. s.block = r.block /\ s.index = r.index
  <2>1. r.block < s.block \/ (r.block = s.block /\ r.index <= s.index)
    BY <1>1
  <2>2. s.block < r.block \/ (s.block = r.block /\ s.index <= r.index)
    BY <1>1
  <2>3. s.block \in Int /\ s.index \in Int /\ r.block \in Int /\ r.index \in Int
    BY <1>1
  <2> QED  BY <2>1, <2>2, <2>3
<1> QED  BY <1>1, <1>2, <1>3

\* From block to block the last log of a kind has the new value.
Renewed(n, logs, kind, field, g) ==
  /\ \A h \in 1 .. n : logs[h] \in Seq(LogSet)
  /\ \A k \in 0 .. n - 1 : Sets(logs[k + 1], kind, field, g[k], g[k + 1])

\* There is one row for each log of a kind, and it has the value.
Recorded(n, logs, kind, field, rows) ==
  /\ \A r \in rows : /\ r.block \in 1 .. n /\ r.index \in Picked(logs[r.block], kind)
                     /\ r[field] = logs[r.block][r.index][field]
  /\ \A h \in 1 .. n : \A i \in Picked(logs[h], kind) :
       \E r \in rows : r.block = h /\ r.index = i
  /\ \A p, q \in rows : p.block = q.block /\ p.index = q.index => p = q

\* The newest row of all has what there is after the last block.
Answers(rows, field, old, new) ==
  \/ rows = {} /\ new = old
  \/ rows # {} /\ Latest(rows) \in rows /\ Latest(rows)[field] = new

\* The newest row has the value after the last block, or nothing ever changed it.
LEMMA LatestAnswers ==
  ASSUME NEW n \in Nat, NEW logs, NEW kind, NEW field, NEW g, NEW rows,
         Renewed(n, logs, kind, field, g), Recorded(n, logs, kind, field, rows)
  PROVE  Answers(rows, field, g[0], g[n])
<1> USE DEF Renewed, Recorded
<1> DEFINE Before(q, r) == q.block < r.block \/ (q.block = r.block /\ q.index <= r.index)
           NoneTo(k) == \A q \in rows : q.block > k
           LastTo(k, r) == /\ r \in rows /\ r.block <= k /\ r[field] = g[k]
                           /\ \A q \in rows : q.block <= k => Before(q, r)
           T == {k \in 0 .. n : (NoneTo(k) /\ g[k] = g[0]) \/ \E r \in rows : LastTo(k, r)}
<1>1. \A q \in rows : q.block \in Int /\ q.index \in Int
  BY LenProperties DEF Picked
<1>2. 0 \in T
  BY <1>1
<1>3. ASSUME NEW k \in 0 .. n - 1, k \in T PROVE k + 1 \in T
  <2> DEFINE h == k + 1
             X == Picked(logs[h], kind)
  <2>1. h \in 0 .. n /\ h \in 1 .. n /\ k \in Int /\ h = k + 1
    OBVIOUS
  <2>2. CASE \E i \in X : logs[h][i][field] = g[h] /\ \A j \in X : j <= i
    <3>1. PICK i \in X : logs[h][i][field] = g[h] /\ \A j \in X : j <= i
      BY <2>2
    <3>2. PICK r \in rows : r.block = h /\ r.index = i
      BY <2>1, <3>1
    <3>3. r[field] = g[h]
      <4>1. r[field] = logs[r.block][r.index][field]
        OBVIOUS
      <4> HIDE DEF h
      <4> QED  BY <3>1, <3>2, <4>1
    <3>4. ASSUME NEW q \in rows, q.block <= h PROVE Before(q, r)
      <4>1. q.block = h => q.index \in X
        OBVIOUS
      <4> HIDE DEF X, h
      <4>2. q.block < h \/ q.block = h
        BY <1>1, <2>1, <3>4
      <4> QED  BY <3>1, <3>2, <4>1, <4>2
    <3> HIDE DEF h, X, Before
    <3>5. LastTo(h, r)
      <4>1. r.block <= h
        BY <2>1, <3>2
      <4> QED  BY <3>3, <3>4, <4>1
    <3> QED  BY <2>1, <3>5 DEF h
  <2>3. CASE X = {} /\ g[h] = g[k]
    <3>1. \A q \in rows : q.block # h
      BY <2>3
    <3> HIDE DEF h
    <3>2. \A q \in rows : q.block <= h <=> q.block <= k
      BY <1>1, <2>1, <3>1
    <3>3. CASE NoneTo(k) /\ g[k] = g[0]
      <4>1. \A q \in rows : q.block > h
        BY <1>1, <2>1, <3>1, <3>3
      <4>2. h \in T
        BY <2>1, <2>3, <3>3, <4>1
      <4> QED  BY <4>2 DEF h
    <3>4. CASE \E r \in rows : LastTo(k, r)
      <4>1. PICK r \in rows : LastTo(k, r)
        BY <3>4
      <4>2. r.block <= h /\ r[field] = g[h]
        BY <2>3, <3>2, <4>1
      <4> HIDE DEF Before
      <4>3. LastTo(h, r)
        BY <3>2, <4>1, <4>2
      <4>4. h \in T
        BY <2>1, <4>3
      <4> QED  BY <4>4 DEF h
    <3> QED  BY <1>3, <3>3, <3>4
  <2> QED  BY <2>2, <2>3 DEF Sets
<1>4. n \in T
  <2>1. \A k \in 0 .. n : k \in T
    <3> HIDE DEF T
    <3> QED  BY <1>2, <1>3, ByOneUp
  <2> HIDE DEF T
  <2> QED  BY <2>1
<1>5. CASE NoneTo(n) /\ g[n] = g[0]
  <2>1. rows = {}
    BY <1>1, <1>5
  <2> QED  BY <1>5, <2>1 DEF Answers
<1>6. CASE \E r \in rows : LastTo(n, r)
  <2>1. PICK r \in rows : LastTo(n, r)
    BY <1>6
  <2>2. \A q \in rows : q.block < r.block \/ (q.block = r.block /\ q.index <= r.index)
    BY <1>1, <2>1
  <2>3. Latest(rows) = r
    BY <1>1, <2>2, LatestIs
  <2> QED  BY <2>1, <2>3 DEF Answers
<1> QED  BY <1>4, <1>5, <1>6

\* The branch's blocks and what their logs say of supernova.
LEMMA TrackedStep ==
  ASSUME IInv, HInv, Synced, NEW k \in 0 .. Len(chain) - 1
  PROVE  /\ k + 1 \in 1 .. Len(chain) /\ k + 1 \in Heights
         /\ Contracts(chain, k) \in ContractSet /\ Contracts(chain, k + 1) \in ContractSet
         /\ StoredLogs(k + 1) \in Seq(LogSet) /\ blocks[k + 1] # NoBlock
         /\ Tracks(Contracts(chain, k), StoredLogs(k + 1), Contracts(chain, k + 1))
<1>1. /\ k + 1 \in 1 .. Len(chain) /\ k + 1 \in Heights
      /\ Contracts(chain, k) \in ContractSet /\ Contracts(chain, k + 1) \in ContractSet
      /\ Follows(Contracts(chain, k), LogsOf(blocks[k + 1].receipts), Contracts(chain, k + 1))
  BY ChainStep
<1>2. blocks[k + 1] = chain[k + 1] /\ blocks[k + 1] # NoBlock
      /\ LogsOf(chain[k + 1].receipts) \in LogSeqs
  BY <1>1, SyncedBlocks
<1> QED  BY <1>1, <1>2 DEF Follows, StoredLogs, LogSeqs

\* The rows of a table whose log is of some kind.
RowsOfKind(t, kind) == {r \in db[t] : StoredLogs(r.block)[r.index] \in kind}

\* Of a table with a row for each log of some events, the newest of the rows of some kind has
\* what there is after the newest block.
LEMMA LatestOfTable ==
  ASSUME IInv, HInv, Synced, NEW t \in Checkable, NEW contract, NEW events,
         \A h \in Heights : RowsOf(t, h, blocks[h]) = Rows(h, StoredLogs(h), contract, events),
         NEW kind \in SUBSET LogSet,
         \A l \in kind : l.contract = contract /\ l.event \in events,
         NEW field \in {"after", "amount"}, NEW g,
         \A k \in 0 .. Len(chain) - 1 : Sets(StoredLogs(k + 1), kind, field, g[k], g[k + 1])
  PROVE  Answers(RowsOfKind(t, kind), field, g[0], g[Len(chain)])
<1> DEFINE N == Len(chain)
           logs == [h \in 1 .. N |-> StoredLogs(h)]
           rows == RowsOfKind(t, kind)
<1>1. N \in Nat /\ \A h \in 1 .. N : h \in Heights /\ blocks[h] # NoBlock
  BY SyncedBlocks
<1>2. /\ \A h \in Heights : blocks[h] # NoBlock => StoredLogs(h) \in LogSeqs
      /\ \A r \in db[t] :
           /\ r.block \in Heights /\ blocks[r.block] # NoBlock
           /\ r.index \in Of(StoredLogs(r.block), contract, events)
           /\ r = Row(r.block, r.index, StoredLogs(r.block)[r.index])
      /\ \A h \in Heights : blocks[h] # NoBlock =>
           \A i \in Of(StoredLogs(h), contract, events) : Row(h, i, StoredLogs(h)[i]) \in db[t]
  BY StoredRows
<1>3. \A h \in 1 .. N : logs[h] \in Seq(LogSet) /\ logs[h] = StoredLogs(h)
  BY <1>1, <1>2 DEF LogSeqs
<1>4. \A k \in 0 .. N - 1 : Sets(logs[k + 1], kind, field, g[k], g[k + 1])
  <2> TAKE k \in 0 .. N - 1
  <2>1. k + 1 \in 1 .. N
    BY <1>1
  <2> QED  BY <1>3, <2>1
<1> HIDE DEF logs
<1>5. ASSUME NEW r \in rows
      PROVE  /\ r.block \in 1 .. N /\ r.index \in Picked(logs[r.block], kind)
             /\ r[field] = logs[r.block][r.index][field]
             /\ r = Row(r.block, r.index, logs[r.block][r.index])
  <2>1. /\ r \in db[t] /\ StoredLogs(r.block)[r.index] \in kind
        /\ r.block \in Heights /\ blocks[r.block] # NoBlock
        /\ r.index \in Of(StoredLogs(r.block), contract, events)
        /\ r = Row(r.block, r.index, StoredLogs(r.block)[r.index])
    BY <1>2 DEF RowsOfKind
  <2>2. r.block \in 1 .. N
    BY <2>1, SyncedBlocks
  <2>3. logs[r.block] = StoredLogs(r.block)
    BY <1>3, <2>2
  <2>4. r.index \in Picked(logs[r.block], kind)
    BY <2>1, <2>3 DEF Picked, Of
  <2>5. r = Row(r.block, r.index, logs[r.block][r.index])
    BY <2>1, <2>3
  <2>6. \A h, i, l : Row(h, i, l).after = l.after /\ Row(h, i, l).amount = l.amount
    BY DEF Row
  <2>7. r.after = logs[r.block][r.index].after /\ r.amount = logs[r.block][r.index].amount
    BY <2>5, <2>6
  <2> QED  BY <2>2, <2>4, <2>5, <2>7
<1>6. ASSUME NEW h \in 1 .. N, NEW i \in Picked(logs[h], kind)
      PROVE  \E r \in rows : r.block = h /\ r.index = i
  <2> DEFINE r == Row(h, i, StoredLogs(h)[i])
  <2>1. logs[h] = StoredLogs(h) /\ h \in Heights /\ blocks[h] # NoBlock
    BY <1>1, <1>3
  <2>2. i \in DOMAIN StoredLogs(h) /\ StoredLogs(h)[i] \in kind
    BY <2>1 DEF Picked
  <2>3. i \in Of(StoredLogs(h), contract, events)
    BY <2>2 DEF Of
  <2>4. r \in db[t] /\ r.block = h /\ r.index = i
    BY <1>2, <2>1, <2>3 DEF Row
  <2> HIDE DEF r
  <2>5. r \in rows
    <3>1. StoredLogs(r.block)[r.index] \in kind
      BY <2>2, <2>4
    <3> QED  BY <2>4, <3>1 DEF RowsOfKind
  <2> QED  BY <2>4, <2>5
<1>7. \A p, q \in rows : p.block = q.block /\ p.index = q.index => p = q
  BY <1>5
<1>8. Renewed(N, logs, kind, field, g)
  BY <1>3, <1>4 DEF Renewed
<1>9. Recorded(N, logs, kind, field, rows)
  BY <1>5, <1>6, <1>7 DEF Recorded
<1> HIDE DEF N, rows
<1>10. Answers(rows, field, g[0], g[N])
  BY <1>1, <1>8, <1>9, LatestAnswers
<1> QED  BY <1>10 DEF N, rows

\* The contracts' first state.
LEMMA FirstState ==
  \A u \in Users : /\ Contracts(chain, 0).balance[u] = 0 /\ Contracts(chain, 0).until[u] = 0
                   /\ Contracts(chain, 0).delegatee[u] = Zero /\ Contracts(chain, 0).power[u] = 0
  BY DEF Contracts, NewContracts

\* The three tables with the rows of supernova's logs.
LEMMA SupernovaTables ==
  ASSUME NEW h \in Heights
  PROVE  /\ RowsOf("supernova_staking_actions", h, blocks[h])
              = Rows(h, StoredLogs(h), Supernova, {"Deposit", "Withdraw"})
         /\ RowsOf("supernova_locks", h, blocks[h])
              = Rows(h, StoredLogs(h), Supernova, {"Lock"})
         /\ RowsOf("supernova_delegate_changes", h, blocks[h])
              = Rows(h, StoredLogs(h), Supernova,
                     {"DelegatedPowerIncreased", "DelegatedPowerDecreased"})
         /\ RowsOf("supernova_delegate_actions", h, blocks[h])
              = DelegateActionRows(h, StoredLogs(h))
         /\ {"supernova_staking_actions", "supernova_locks", "supernova_delegate_changes",
             "supernova_delegate_actions"} \subseteq Checkable
  BY DEF RowsOf, NewRows, StakingRows, LockRows, DelegateChangeRows, StoredLogs, Checkable, DbTables

\* What a row of these tables says of its log.
LEMMA RowOfLog ==
  ASSUME IInv, NEW t \in Checkable, NEW contract, NEW events,
         \A h \in Heights : RowsOf(t, h, blocks[h]) = Rows(h, StoredLogs(h), contract, events),
         NEW r \in db[t]
  PROVE  LET l == StoredLogs(r.block)[r.index]
         IN /\ r.block \in Heights /\ blocks[r.block] # NoBlock
            /\ r.index \in DOMAIN StoredLogs(r.block) /\ l \in LogSet
            /\ l.contract = contract /\ l.event \in events
            /\ r.type = l.event /\ r.from = l.from /\ r.to = l.to /\ r.amount = l.amount
            /\ r.after = l.after
<1> DEFINE l == StoredLogs(r.block)[r.index]
<1>1. /\ r.block \in Heights /\ blocks[r.block] # NoBlock
      /\ r.index \in Of(StoredLogs(r.block), contract, events)
      /\ r = Row(r.block, r.index, l) /\ StoredLogs(r.block) \in LogSeqs
  BY StoredRows
<1>2. r.index \in DOMAIN StoredLogs(r.block) /\ l.contract = contract /\ l.event \in events
  BY <1>1 DEF Of
<1>3. l \in LogSet
  BY <1>1, <1>2, LenProperties, ElementOfSeq DEF LogSeqs
<1> HIDE DEF l
<1>4. /\ r.type = l.event /\ r.from = l.from /\ r.to = l.to /\ r.amount = l.amount
      /\ r.after = l.after
  <2>1. \A h, i : LET q == Row(h, i, l)
                  IN /\ q.type = l.event /\ q.from = l.from /\ q.to = l.to
                     /\ q.amount = l.amount /\ q.after = l.after
    BY DEF Row
  <2> QED  BY <1>1, <2>1
<1> QED  BY <1>1, <1>2, <1>3, <1>4 DEF l

\* balance_of, locked until, delegated_power and has_active_delegation: the newest row of each
\* says what the contract has.
LEMMA BalanceIs ==
  ASSUME IInv, HInv, Synced, NEW u \in Users
  PROVE  BalanceOf(db, u) = State.balance[u]
<1> DEFINE t == "supernova_staking_actions"
           rows == {r \in db.supernova_staking_actions : r.from = u}
           g == [k \in 0 .. Len(chain) |-> Contracts(chain, k).balance[u]]
           N == Len(chain)
<1>1. N \in Nat
  BY SyncedBlocks
<1>2. \A h \in Heights : RowsOf(t, h, blocks[h])
                           = Rows(h, StoredLogs(h), Supernova, {"Deposit", "Withdraw"})
  BY SupernovaTables
<1>3. rows = RowsOfKind(t, StakeOf(u))
  <2>1. ASSUME NEW r \in db[t] PROVE r.from = u <=> StoredLogs(r.block)[r.index] \in StakeOf(u)
    <3> DEFINE l == StoredLogs(r.block)[r.index]
    <3>1. /\ l \in LogSet /\ l.contract = Supernova /\ l.event \in {"Deposit", "Withdraw"}
          /\ r.from = l.from
      <4>1. t \in Checkable
        BY DEF Checkable, DbTables
      <4> HIDE DEF t
      <4> QED  BY <1>2, <4>1, RowOfLog
    <3> HIDE DEF l
    <3>2. r.from = u <=> l \in StakeOf(u)
      BY <3>1 DEF StakeOf
    <3> QED  BY <3>2 DEF l
  <2> QED  BY <2>1 DEF RowsOfKind
<1>4. \A k \in 0 .. N - 1 : Sets(StoredLogs(k + 1), StakeOf(u), "after", g[k], g[k + 1])
  <2> TAKE k \in 0 .. N - 1
  <2>1. Sets(StoredLogs(k + 1), StakeOf(u), "after", Contracts(chain, k).balance[u],
             Contracts(chain, k + 1).balance[u])
    BY TrackedStep DEF Tracks
  <2>2. k \in 0 .. N /\ k + 1 \in 0 .. N
    BY <1>1
  <2> QED  BY <2>1, <2>2
<1>5. g[0] = 0 /\ g[N] = State.balance[u]
  BY <1>1, FirstState DEF State
<1>6. \A l \in StakeOf(u) : l.contract = Supernova /\ l.event \in {"Deposit", "Withdraw"}
  BY DEF StakeOf
<1>7. t \in Checkable /\ StakeOf(u) \in SUBSET LogSet
  BY DEF Checkable, DbTables, StakeOf
<1>8. BalanceOf(db, u) = IF rows = {} THEN 0 ELSE Latest(rows).after
  BY DEF BalanceOf
<1> HIDE DEF rows, g, t
<1>9. Answers(RowsOfKind(t, StakeOf(u)), "after", g[0], g[N])
  BY <1>2, <1>4, <1>6, <1>7, LatestOfTable
<1> QED  BY <1>3, <1>5, <1>8, <1>9 DEF Answers

LEMMA UntilIs ==
  ASSUME IInv, HInv, Synced, NEW u \in Users
  PROVE  LockedUntil(db, u) = State.until[u]
<1> DEFINE t == "supernova_locks"
           rows == {r \in db.supernova_locks : r.from = u}
           g == [k \in 0 .. Len(chain) |-> Contracts(chain, k).until[u]]
           N == Len(chain)
<1>1. N \in Nat
  BY SyncedBlocks
<1>2. \A h \in Heights : RowsOf(t, h, blocks[h])
                           = Rows(h, StoredLogs(h), Supernova, {"Lock"})
  BY SupernovaTables
<1>3. rows = RowsOfKind(t, LockOf(u))
  <2>1. ASSUME NEW r \in db[t] PROVE r.from = u <=> StoredLogs(r.block)[r.index] \in LockOf(u)
    <3> DEFINE l == StoredLogs(r.block)[r.index]
    <3>1. /\ l \in LogSet /\ l.contract = Supernova /\ l.event \in {"Lock"}
          /\ r.from = l.from
      <4>1. t \in Checkable
        BY DEF Checkable, DbTables
      <4> HIDE DEF t
      <4> QED  BY <1>2, <4>1, RowOfLog
    <3> HIDE DEF l
    <3>2. r.from = u <=> l \in LockOf(u)
      BY <3>1 DEF LockOf
    <3> QED  BY <3>2 DEF l
  <2> QED  BY <2>1 DEF RowsOfKind
<1>4. \A k \in 0 .. N - 1 : Sets(StoredLogs(k + 1), LockOf(u), "amount", g[k], g[k + 1])
  <2> TAKE k \in 0 .. N - 1
  <2>1. Sets(StoredLogs(k + 1), LockOf(u), "amount", Contracts(chain, k).until[u],
             Contracts(chain, k + 1).until[u])
    BY TrackedStep DEF Tracks
  <2>2. k \in 0 .. N /\ k + 1 \in 0 .. N
    BY <1>1
  <2> QED  BY <2>1, <2>2
<1>5. g[0] = 0 /\ g[N] = State.until[u]
  BY <1>1, FirstState DEF State
<1>6. \A l \in LockOf(u) : l.contract = Supernova /\ l.event \in {"Lock"}
  BY DEF LockOf
<1>7. t \in Checkable /\ LockOf(u) \in SUBSET LogSet
  BY DEF Checkable, DbTables, LockOf
<1>8. LockedUntil(db, u) = IF rows = {} THEN 0 ELSE Latest(rows).amount
  BY DEF LockedUntil
<1> HIDE DEF rows, g, t
<1>9. Answers(RowsOfKind(t, LockOf(u)), "amount", g[0], g[N])
  BY <1>2, <1>4, <1>6, <1>7, LatestOfTable
<1> QED  BY <1>3, <1>5, <1>8, <1>9 DEF Answers

LEMMA PowerIs ==
  ASSUME IInv, HInv, Synced, NEW u \in Users
  PROVE  DelegatedPower(db, u) = State.power[u]
<1> DEFINE t == "supernova_delegate_changes"
           rows == {r \in db.supernova_delegate_changes : r.to = u}
           g == [k \in 0 .. Len(chain) |-> Contracts(chain, k).power[u]]
           N == Len(chain)
<1>1. N \in Nat
  BY SyncedBlocks
<1>2. \A h \in Heights : RowsOf(t, h, blocks[h])
                           = Rows(h, StoredLogs(h), Supernova,
                                  {"DelegatedPowerIncreased", "DelegatedPowerDecreased"})
  BY SupernovaTables
<1>3. rows = RowsOfKind(t, PowerOf(u))
  <2>1. ASSUME NEW r \in db[t] PROVE r.to = u <=> StoredLogs(r.block)[r.index] \in PowerOf(u)
    <3> DEFINE l == StoredLogs(r.block)[r.index]
    <3>1. /\ l \in LogSet /\ l.contract = Supernova
          /\ l.event \in {"DelegatedPowerIncreased", "DelegatedPowerDecreased"}
          /\ r.to = l.to
      <4>1. t \in Checkable
        BY DEF Checkable, DbTables
      <4> HIDE DEF t
      <4> QED  BY <1>2, <4>1, RowOfLog
    <3> HIDE DEF l
    <3>2. r.to = u <=> l \in PowerOf(u)
      BY <3>1 DEF PowerOf
    <3> QED  BY <3>2 DEF l
  <2> QED  BY <2>1 DEF RowsOfKind
<1>4. \A k \in 0 .. N - 1 : Sets(StoredLogs(k + 1), PowerOf(u), "after", g[k], g[k + 1])
  <2> TAKE k \in 0 .. N - 1
  <2>1. Sets(StoredLogs(k + 1), PowerOf(u), "after", Contracts(chain, k).power[u],
             Contracts(chain, k + 1).power[u])
    BY TrackedStep DEF Tracks
  <2>2. k \in 0 .. N /\ k + 1 \in 0 .. N
    BY <1>1
  <2> QED  BY <2>1, <2>2
<1>5. g[0] = 0 /\ g[N] = State.power[u]
  BY <1>1, FirstState DEF State
<1>6. \A l \in PowerOf(u) :
        /\ l.contract = Supernova
        /\ l.event \in {"DelegatedPowerIncreased", "DelegatedPowerDecreased"}
  BY DEF PowerOf
<1>7. t \in Checkable /\ PowerOf(u) \in SUBSET LogSet
  BY DEF Checkable, DbTables, PowerOf
<1>8. DelegatedPower(db, u) = IF rows = {} THEN 0 ELSE Latest(rows).after
  BY DEF DelegatedPower
<1> HIDE DEF rows, g, t
<1>9. Answers(RowsOfKind(t, PowerOf(u)), "after", g[0], g[N])
  BY <1>2, <1>4, <1>6, <1>7, LatestOfTable
<1> QED  BY <1>3, <1>5, <1>8, <1>9 DEF Answers

\* The rows of the delegations; what a delegation to nobody is.
LEMMA DelegationRows ==
  ASSUME IInv, NEW r \in db.supernova_delegate_actions
  PROVE  LET l == StoredLogs(r.block)[r.index]
         IN /\ r.block \in Heights /\ blocks[r.block] # NoBlock
            /\ r.index \in DOMAIN StoredLogs(r.block) /\ l \in LogSet
            /\ l.contract = Supernova /\ l.event = "Delegate"
            /\ r.from = l.from /\ r.to = l.to /\ r.type = IF l.to = Zero THEN "STOP" ELSE "START"
            /\ r = [Row(r.block, r.index, l) EXCEPT
                      !.type = IF l.to = Zero THEN "STOP" ELSE "START"]
<1> DEFINE h == r.block
           logs == StoredLogs(h)
           l == logs[r.index]
           type == IF l.to = Zero THEN "STOP" ELSE "START"
<1>1. h \in Heights /\ r \in RowsAt("supernova_delegate_actions", h)
  BY DEF IInv, TableTypes, DbTables, RowsAt
<1>2. blocks[h] # NoBlock /\ RowsAt("supernova_delegate_actions", h) = DelegateActionRows(h, logs)
  <2>1. "supernova_delegate_actions" \in Checkable
    BY DEF Checkable, DbTables
  <2>2. RowsOf("supernova_delegate_actions", h, blocks[h]) = DelegateActionRows(h, logs)
    BY <1>1, SupernovaTables
  <2>3. RowsAt("supernova_delegate_actions", h)
          = IF blocks[h] = NoBlock THEN {} ELSE DelegateActionRows(h, logs)
    BY <1>1, <2>1, <2>2, Zenon DEF IInv, TablesInv
  <2> HIDE DEF h, logs
  <2> QED  BY <1>1, <2>3
<1>3. logs \in Seq(LogSet)
  <2>1. blocks[h] \in BlockSet
    BY <1>1, <1>2 DEF IInv, TableTypes, Stored
  <2> QED  BY <2>1, LogsOfTypes DEF BlockSet, LogSeqs, StoredLogs
<1>4. PICK q \in Rows(h, logs, Supernova, {"Delegate"}) :
        r = [q EXCEPT !.type = IF q.to = Zero THEN "STOP" ELSE "START"]
  BY <1>1, <1>2 DEF DelegateActionRows
<1>5. PICK i \in Of(logs, Supernova, {"Delegate"}) : q = Row(h, i, logs[i])
  BY DEF Rows
<1>6. i \in DOMAIN logs /\ logs[i].contract = Supernova /\ logs[i].event = "Delegate"
  BY DEF Of
<1> HIDE DEF h, logs
<1>7. r.index = i
  BY <1>4, <1>5 DEF Row
<1>8. q = Row(h, i, l) /\ q.to = l.to
  BY <1>5, <1>7 DEF Row
<1>9. r = [Row(h, r.index, l) EXCEPT !.type = type]
  BY <1>4, <1>7, <1>8
<1>10. l \in LogSet /\ l.contract = Supernova /\ l.event = "Delegate" /\ r.index \in DOMAIN logs
  BY <1>3, <1>6, <1>7, LenProperties, ElementOfSeq
<1>11. r.from = l.from /\ r.to = l.to /\ r.type = type
  <2> HIDE DEF l, type
  <2>1. r = [Row(h, r.index, l) EXCEPT !.type = type]
    BY <1>9
  <2> QED  BY <2>1 DEF Row
<1> QED  BY <1>1, <1>2, <1>9, <1>10, <1>11 DEF h, logs

LEMMA DelegatingIs ==
  ASSUME IInv, HInv, Synced, NEW u \in Users
  PROVE  HasActiveDelegation(db, u) <=> State.delegatee[u] # Zero
<1> DEFINE t == "supernova_delegate_actions"
           rows == {r \in db.supernova_delegate_actions : r.from = u}
           N == Len(chain)
           g == [k \in 0 .. N |-> Contracts(chain, k).delegatee[u]]
           logs == [h \in 1 .. N |-> StoredLogs(h)]
           kind == DelegateOf(u)
<1>1. N \in Nat /\ \A h \in 1 .. N : h \in Heights /\ blocks[h] # NoBlock
  BY SyncedBlocks
<1>2. Renewed(N, logs, kind, "to", g)
  <2>1. ASSUME NEW k \in 0 .. N - 1
        PROVE  /\ k + 1 \in 1 .. N /\ StoredLogs(k + 1) \in Seq(LogSet)
               /\ Sets(logs[k + 1], kind, "to", g[k], g[k + 1])
    <3>1. /\ k + 1 \in 1 .. N /\ StoredLogs(k + 1) \in Seq(LogSet)
          /\ Sets(StoredLogs(k + 1), kind, "to", Contracts(chain, k).delegatee[u],
                  Contracts(chain, k + 1).delegatee[u])
      BY TrackedStep DEF Tracks
    <3>2. k \in 0 .. N /\ k + 1 \in 0 .. N
      BY <1>1
    <3> QED  BY <3>1, <3>2
  <2>2. ASSUME NEW h \in 1 .. N PROVE logs[h] \in Seq(LogSet)
    <3>1. h - 1 \in 0 .. N - 1 /\ (h - 1) + 1 = h
      BY <1>1
    <3>2. StoredLogs((h - 1) + 1) \in Seq(LogSet)
      BY <2>1, <3>1
    <3> QED  BY <3>1, <3>2
  <2> HIDE DEF logs, kind, g
  <2> QED  BY <2>1, <2>2 DEF Renewed
<1>3. g[0] = Zero /\ g[N] = State.delegatee[u]
  BY <1>1, FirstState DEF State
<1>4. \A h \in 1 .. N : logs[h] = StoredLogs(h)
  OBVIOUS
<1> HIDE DEF logs, g
<1>5. ASSUME NEW r \in rows
      PROVE  /\ r.block \in 1 .. N /\ r.index \in Picked(logs[r.block], kind)
             /\ r.to = logs[r.block][r.index].to
             /\ r.type = (IF r.to = Zero THEN "STOP" ELSE "START")
             /\ r = [Row(r.block, r.index, logs[r.block][r.index]) EXCEPT
                       !.type = IF logs[r.block][r.index].to = Zero THEN "STOP" ELSE "START"]
  <2> DEFINE l == StoredLogs(r.block)[r.index]
  <2>1. /\ r.block \in Heights /\ blocks[r.block] # NoBlock
        /\ r.index \in DOMAIN StoredLogs(r.block) /\ l \in LogSet
        /\ l.contract = Supernova /\ l.event = "Delegate"
        /\ r.from = l.from /\ r.to = l.to /\ r.type = IF l.to = Zero THEN "STOP" ELSE "START"
        /\ r = [Row(r.block, r.index, l) EXCEPT !.type = IF l.to = Zero THEN "STOP" ELSE "START"]
    BY DelegationRows
  <2>2. r.block \in 1 .. N
    BY <2>1, SyncedBlocks
  <2>3. logs[r.block] = StoredLogs(r.block)
    BY <1>4, <2>2
  <2>4. l \in kind
    BY <2>1 DEF DelegateOf
  <2>5. r.index \in Picked(logs[r.block], kind)
    BY <2>1, <2>3, <2>4 DEF Picked
  <2> QED  BY <2>1, <2>2, <2>3, <2>5
<1>6. ASSUME NEW h \in 1 .. N, NEW i \in Picked(logs[h], kind)
      PROVE  \E r \in rows : r.block = h /\ r.index = i
  <2> DEFINE l == StoredLogs(h)[i]
             q == Row(h, i, l)
             r == [q EXCEPT !.type = IF q.to = Zero THEN "STOP" ELSE "START"]
  <2>1. logs[h] = StoredLogs(h) /\ h \in Heights /\ blocks[h] # NoBlock
    BY <1>1, <1>4
  <2>2. i \in DOMAIN StoredLogs(h) /\ l \in kind
    BY <2>1 DEF Picked
  <2>3. l.contract = Supernova /\ l.event = "Delegate" /\ l.from = u
    BY <2>2 DEF DelegateOf
  <2>4. q \in Rows(h, StoredLogs(h), Supernova, {"Delegate"})
    BY <2>2, <2>3 DEF Rows, Of
  <2>5. r.block = h /\ r.index = i /\ r.from = u
    BY <2>3 DEF Row
  <2>6. r \in DelegateActionRows(h, StoredLogs(h))
    <3> HIDE DEF q
    <3> QED  BY <2>4 DEF DelegateActionRows
  <2> HIDE DEF r
  <2>7. r \in RowsAt(t, h)
    <3>1. t \in Checkable /\ RowsOf(t, h, blocks[h]) = DelegateActionRows(h, StoredLogs(h))
      BY <2>1, SupernovaTables
    <3> HIDE DEF t
    <3>2. RowsAt(t, h) = RowsOf(t, h, blocks[h])
      BY <2>1, <3>1 DEF IInv, TablesInv
    <3> QED  BY <2>6, <3>1, <3>2
  <2> QED  BY <2>5, <2>7 DEF RowsAt
<1>7. \A p, q \in rows : p.block = q.block /\ p.index = q.index => p = q
  BY <1>5
<1>8. Recorded(N, logs, kind, "to", rows)
  <2>1. \A r \in rows : /\ r.block \in 1 .. N /\ r.index \in Picked(logs[r.block], kind)
                        /\ r["to"] = logs[r.block][r.index]["to"]
    BY <1>5
  <2> HIDE DEF rows, kind
  <2> QED  BY <1>6, <1>7, <2>1 DEF Recorded
<1>9. \A r \in rows : r.type = (IF r.to = Zero THEN "STOP" ELSE "START")
  BY <1>5
<1>10. HasActiveDelegation(db, u) <=> rows # {} /\ Latest(rows).type = "START"
  BY DEF HasActiveDelegation
<1> HIDE DEF rows, kind, N
<1>11. Answers(rows, "to", g[0], g[N])
  BY <1>1, <1>2, <1>8, LatestAnswers
<1> QED  BY <1>3, <1>9, <1>10, <1>11 DEF Answers

-----------------------------------------------------------------------------
(* What supernova has of everybody together                                *)

\* A total that changes with each block by the amounts of some logs less those of others.
Grows(n, up, down, g) ==
  /\ g[0] = 0 /\ \A k \in 0 .. n : g[k] \in Int
  /\ \A k \in 0 .. n - 1 : g[k + 1] = g[k] + Amounts(StoredLogs(k + 1), LogsWith(up))
                                        - Amounts(StoredLogs(k + 1), LogsWith(down))

\* A table with a row for each of supernova's logs of some events.
HasRowsOf(t, events) ==
  /\ t \in Checkable
  /\ \A h \in Heights : RowsOf(t, h, blocks[h]) = Rows(h, StoredLogs(h), Supernova, events)

\* Every row is of a height and has an amount.
LEMMA RowOfTable ==
  ASSUME IInv, NEW t, NEW events, HasRowsOf(t, events), NEW r \in db[t]
  PROVE  r.block \in Heights /\ r.amount \in Int
<1> DEFINE l == StoredLogs(r.block)[r.index]
<1>1. r.block \in Heights /\ l \in LogSet /\ r.amount = l.amount
  BY RowOfLog DEF HasRowsOf
<1> HIDE DEF l
<1> QED  BY <1>1 DEF LogSet

\* The rows of a type up to a height.
RowsTo(t, n, type) == {r \in db[t] : r.block <= n /\ r.type = type}

\* The amounts in the rows of a height are those in its logs.
LEMMA RowsOfLogs ==
  ASSUME IInv, HInv, Synced, NEW t, NEW events, HasRowsOf(t, events),
         NEW type \in events, NEW h \in 1 .. Len(chain)
  PROVE  Total({r \in db[t] : r.block = h /\ r.type = type})
           = Amounts(StoredLogs(h), LogsWith(type))
<1> DEFINE logs == StoredLogs(h)
           kind == LogsWith(type)
           row == [i \in DOMAIN logs |-> Row(h, i, logs[i])]
           rows == {r \in db[t] : r.block = h /\ r.type = type}
<1>1. h \in Heights /\ blocks[h] # NoBlock
  BY SyncedBlocks
<1>2. /\ logs \in LogSeqs
      /\ \A r \in db[t] : /\ r.index \in Of(StoredLogs(r.block), Supernova, events)
                          /\ r = Row(r.block, r.index, StoredLogs(r.block)[r.index])
      /\ \A i \in Of(logs, Supernova, events) : Row(h, i, logs[i]) \in db[t]
  BY <1>1, StoredRows DEF HasRowsOf
<1> HIDE DEF logs
<1>3. logs \in Seq(LogSet) /\ \A i \in DOMAIN logs : logs[i] \in LogSet
  BY <1>2, LenProperties, ElementOfSeq DEF LogSeqs
<1>4. \A i \in DOMAIN logs : /\ row[i] = Row(h, i, logs[i])
                             /\ row[i].amount = logs[i].amount /\ row[i].index = i
                             /\ row[i].block = h /\ row[i].type = logs[i].event
  BY DEF Row
<1> HIDE DEF row
<1>5. ASSUME NEW r \in rows PROVE r \in {row[i] : i \in Picked(logs, kind)}
  <2>1. r \in db[t] /\ r.block = h /\ r.type = type
    OBVIOUS
  <2>2. r.index \in Of(logs, Supernova, events) /\ r = Row(h, r.index, logs[r.index])
    BY <1>2, <2>1 DEF logs
  <2>3. r.index \in DOMAIN logs /\ logs[r.index].contract = Supernova
    BY <2>2 DEF Of
  <2>4. r = row[r.index] /\ logs[r.index].event = type
    BY <1>4, <2>1, <2>2, <2>3
  <2>5. r.index \in Picked(logs, kind)
    BY <1>3, <2>3, <2>4 DEF Picked, LogsWith
  <2> QED  BY <2>4, <2>5
<1>6. ASSUME NEW i \in Picked(logs, kind) PROVE row[i] \in rows
  <2>1. i \in DOMAIN logs /\ logs[i].contract = Supernova /\ logs[i].event = type
    BY DEF Picked, LogsWith
  <2>2. row[i] \in db[t]
    BY <1>2, <1>4, <2>1 DEF Of
  <2> QED  BY <1>4, <2>1, <2>2
<1>7. rows = {row[i] : i \in Picked(logs, kind)}
  <2> HIDE DEF rows, kind
  <2> QED  BY <1>5, <1>6
<1>8. Total({row[i] : i \in Picked(logs, kind)}) = Amounts(logs, kind)
  BY <1>3, <1>4, TotalOfLogs
<1> HIDE DEF rows, kind
<1>9. Total(rows) = Amounts(logs, kind)
  BY <1>7, <1>8, Zenon
<1> QED  BY <1>9 DEF rows, logs, kind

\* Up to a height, what the rows of one type have more than those of the other is the total.
LEMMA TotalIsRight ==
  ASSUME IInv, HInv, Synced, NEW t, NEW events, HasRowsOf(t, events),
         NEW up \in events, NEW down \in events,
         NEW n \in 0 .. Len(chain), NEW g, Grows(n, up, down, g)
  PROVE  Total(RowsTo(t, n, up)) - Total(RowsTo(t, n, down)) = g[n]
<1> DEFINE A == RowsTo(t, n, up)
           B == RowsTo(t, n, down)
<1>1. n \in Nat /\ Len(chain) \in Nat
  BY SyncedBlocks
<1>2. IsFiniteSet(A) /\ IsFiniteSet(B) /\ A \subseteq db[t] /\ B \subseteq db[t]
  <2>1. IsFiniteSet(db[t])
    BY DEF IInv, TableTypes, Checkable, HasRowsOf
  <2>2. A \subseteq db[t] /\ B \subseteq db[t]
    BY DEF RowsTo
  <2> QED  BY <2>1, <2>2, FS_Subset
<1>3. \A r \in A \cup B : r.amount \in Int /\ r.block \in 1 .. n
  <2> SUFFICES ASSUME NEW r \in A \cup B PROVE r.amount \in Int /\ r.block \in 1 .. n
    OBVIOUS
  <2>1. r \in db[t] /\ r.block <= n
    BY DEF RowsTo
  <2>2. r.block \in Heights /\ r.amount \in Int
    BY <2>1, RowOfTable
  <2> QED  BY <1>1, <2>1, <2>2, Bounds DEF Heights
<1>4. ASSUME NEW k \in 0 .. n - 1
      PROVE  Total({r \in A : r.block = k + 1}) - Total({r \in B : r.block = k + 1})
               = g[k + 1] - g[k]
  <2> DEFINE h == k + 1
             a == Amounts(StoredLogs(h), LogsWith(up))
             b == Amounts(StoredLogs(h), LogsWith(down))
             X == {r \in db[t] : r.block = h /\ r.type = up}
             Y == {r \in db[t] : r.block = h /\ r.type = down}
  <2>1. h \in 1 .. Len(chain) /\ h \in 0 .. n /\ k \in 0 .. n /\ k \in 0 .. Len(chain) - 1
        /\ h <= n /\ h \in Int
    BY <1>1
  <2>2. Total(X) = a /\ Total(Y) = b
    <3> HIDE DEF h
    <3> QED  BY <2>1, RowsOfLogs
  <2>3. {r \in A : r.block = h} = X /\ {r \in B : r.block = h} = Y
    <3> HIDE DEF h
    <3> QED  BY <2>1 DEF RowsTo
  <2>4. g[h] = g[k] + a - b /\ g[k] \in Int /\ g[h] \in Int
    BY <2>1 DEF Grows
  <2>5. a \in Int /\ b \in Int
    <3>1. StoredLogs(h) \in Seq(LogSet)
      BY <2>1, TrackedStep
    <3> HIDE DEF h
    <3> QED  BY <3>1, AmountsAreInt
  <2>6. Total({r \in A : r.block = h}) = a /\ Total({r \in B : r.block = h}) = b
    <3> HIDE DEF A, B, X, Y, a, b, h
    <3> QED  BY <2>2, <2>3, Zenon
  <2> HIDE DEF A, B, h, a, b
  <2>7. Total({r \in A : r.block = h}) - Total({r \in B : r.block = h}) = g[h] - g[k]
    BY <2>4, <2>5, <2>6
  <2> QED  BY <2>7 DEF h
<1>5. g[0] = 0 /\ \A k \in 0 .. n : g[k] \in Int
  BY DEF Grows
<1> HIDE DEF A, B
<1>6. Total(A) - Total(B) = g[n]
  <2>1. n \in Nat /\ IsFiniteSet(A) /\ IsFiniteSet(B)
    BY <1>1, <1>2
  <2>2. BlockByBlock(A, B, n, g)
    BY <1>4, <1>5 DEF BlockByBlock
  <2> QED  BY <1>3, <2>1, <2>2, TotalsOfBlocks
<1> QED  BY <1>6 DEF A, B

\* Up to a height the deposits less the withdrawals are everybody's balance after it, and what
\* delegated powers gained less what they lost is what there is of them.
LEMMA SupernovaTotalsMatch ==
  ASSUME IInv, HInv, Synced, NEW n \in 0 .. Len(chain)
  PROVE  /\ Total(RowsTo("supernova_staking_actions", n, "Deposit"))
              - Total(RowsTo("supernova_staking_actions", n, "Withdraw"))
                = SumOver(Contracts(chain, n).balance, Users)
         /\ Total(RowsTo("supernova_delegate_changes", n, "DelegatedPowerIncreased"))
              - Total(RowsTo("supernova_delegate_changes", n, "DelegatedPowerDecreased"))
                = SumOver(Contracts(chain, n).power, Users)
<1> DEFINE f == [k \in 0 .. n |-> SumOver(Contracts(chain, k).balance, Users)]
           g == [k \in 0 .. n |-> SumOver(Contracts(chain, k).power, Users)]
<1>1. n \in Nat /\ Len(chain) \in Nat /\ n <= Len(chain)
  BY SyncedBlocks
<1>2. ASSUME NEW k \in 0 .. n
      PROVE  /\ f[k] = SumOver(Contracts(chain, k).balance, Users) /\ f[k] \in Int
             /\ g[k] = SumOver(Contracts(chain, k).power, Users) /\ g[k] \in Int
  <2>1. k \in 0 .. Len(chain)
    BY <1>1
  <2>2. Contracts(chain, k) \in ContractSet
    BY <2>1, ContractTypes
  <2>3. SumOver(Contracts(chain, k).balance, Users) \in Int
        /\ SumOver(Contracts(chain, k).power, Users) \in Int
    BY <2>2, SupernovaTotals
  <2> QED  BY <2>3
<1>3. f[0] = 0 /\ g[0] = 0
  <2> DEFINE nobody == [u \in Users |-> 0]
  <2>1. Contracts(chain, 0).balance = nobody /\ Contracts(chain, 0).power = nobody
    BY DEF Contracts, NewContracts
  <2>2. \A u \in Users : nobody[u] = 0
    OBVIOUS
  <2> HIDE DEF nobody
  <2>3. SumOver(nobody, Users) = 0
    BY <2>2, LedgerAssumption, NothingAddsUp
  <2> QED  BY <1>1, <2>1, <2>3
<1>4. ASSUME NEW k \in 0 .. n - 1
      PROVE  /\ f[k + 1] = f[k] + Amounts(StoredLogs(k + 1), LogsWith("Deposit"))
                             - Amounts(StoredLogs(k + 1), LogsWith("Withdraw"))
             /\ g[k + 1] = g[k] + Amounts(StoredLogs(k + 1), LogsWith("DelegatedPowerIncreased"))
                             - Amounts(StoredLogs(k + 1), LogsWith("DelegatedPowerDecreased"))
  <2>1. k \in 0 .. Len(chain) - 1 /\ k \in 0 .. n /\ k + 1 \in 0 .. n
    BY <1>1
  <2>2. Tracks(Contracts(chain, k), StoredLogs(k + 1), Contracts(chain, k + 1))
    BY <2>1, TrackedStep
  <2>3. /\ f[k] = SumOver(Contracts(chain, k).balance, Users)
        /\ g[k] = SumOver(Contracts(chain, k).power, Users)
        /\ f[k + 1] = SumOver(Contracts(chain, k + 1).balance, Users)
        /\ g[k + 1] = SumOver(Contracts(chain, k + 1).power, Users)
    BY <1>2, <2>1
  <2> HIDE DEF f, g
  <2> QED  BY <2>2, <2>3 DEF Tracks
<1> HIDE DEF f, g
<1>5. Grows(n, "Deposit", "Withdraw", f)
      /\ Grows(n, "DelegatedPowerIncreased", "DelegatedPowerDecreased", g)
  BY <1>2, <1>3, <1>4 DEF Grows
<1>6. n \in 0 .. n
  BY <1>1
<1>7. HasRowsOf("supernova_staking_actions", {"Deposit", "Withdraw"})
  BY SupernovaTables DEF HasRowsOf, Checkable, DbTables
<1>8. HasRowsOf("supernova_delegate_changes",
                {"DelegatedPowerIncreased", "DelegatedPowerDecreased"})
  BY SupernovaTables DEF HasRowsOf, Checkable, DbTables
<1>9. Total(RowsTo("supernova_staking_actions", n, "Deposit"))
        - Total(RowsTo("supernova_staking_actions", n, "Withdraw")) = f[n]
  BY <1>5, <1>7, <1>8, TotalIsRight
<1>10. Total(RowsTo("supernova_delegate_changes", n, "DelegatedPowerIncreased"))
         - Total(RowsTo("supernova_delegate_changes", n, "DelegatedPowerDecreased")) = g[n]
  BY <1>5, <1>7, <1>8, TotalIsRight
<1> QED  BY <1>2, <1>6, <1>9, <1>10

-----------------------------------------------------------------------------
(* Voting power                                                            *)

\* What the contract says everybody's voting power is, added up.
PowersNow(c, now) == MapThenSumSet(LAMBDA u : ContractPower(c, u, now), Users)

LEMMA PowersAddUp ==
  ASSUME NEW c, NEW now, NEW f, \A u \in Users : f[u] = ContractPower(c, u, now) /\ f[u] \in Int
  PROVE  PowersNow(c, now) = SumOver(f, Users)
<1> DEFINE Sums(g) == g = [s \in SUBSET Users |-> IF s = {} THEN 0
                                                ELSE ContractPower(c, AnyOf(s), now)
                                                       + g[s \ {AnyOf(s)}]]
           sum == CHOOSE g : Sums(g)
<1>0. IsFiniteSet(Users)
  BY LedgerAssumption
<1>1. PowersNow(c, now) = sum[Users]
  BY DEF PowersNow, MapThenSumSet, MapThenFoldSet, AnyOf
<1>2. ASSUME NEW g PROVE Sums(g) <=> IsSums(f, g, Users)
  <2>1. \A s \in SUBSET Users : s # {} => f[AnyOf(s)] = ContractPower(c, AnyOf(s), now)
    BY DEF AnyOf
  <2>2. [s \in SUBSET Users |-> IF s = {} THEN 0 ELSE ContractPower(c, AnyOf(s), now)
                                                       + g[s \ {AnyOf(s)}]]
          = [s \in SUBSET Users |-> IF s = {} THEN 0 ELSE f[AnyOf(s)] + g[s \ {AnyOf(s)}]]
    BY <2>1
  <2> QED  BY <2>2 DEF IsSums
<1>3. PICK g : IsSums(f, g, Users)
  BY <1>0, SumsExist
<1>4. Sums(sum)
  <2>1. Sums(g)
    BY <1>2, <1>3
  <2> QED  BY <2>1
<1> HIDE DEF sum, Sums
<1>5. IsSums(f, sum, Users)
  BY <1>2, <1>4
<1> QED  BY <1>0, <1>1, <1>5, SumsAre

\* What the view adds up.
LEMMA VotesAddUp ==
  ASSUME IsFiniteSet(SupernovaUsers(db)), NEW now, NEW f,
         \A u \in SupernovaUsers(db) : f[u] = VotingPower(db, u, now) /\ f[u] \in Int
  PROVE  TotalVKek(db, now) = SumOver(f, SupernovaUsers(db))
<1> DEFINE S == SupernovaUsers(db)
           Sums(g) == g = [s \in SUBSET S |-> IF s = {} THEN 0
                                              ELSE VotingPower(db, AnyOf(s), now)
                                                     + g[s \ {AnyOf(s)}]]
           sum == CHOOSE g : Sums(g)
<1>1. TotalVKek(db, now) = sum[S]
  BY DEF TotalVKek, MapThenSumSet, MapThenFoldSet, AnyOf
<1> HIDE DEF S
<1>2. ASSUME NEW g PROVE Sums(g) <=> IsSums(f, g, S)
  <2>1. \A s \in SUBSET S : s # {} => f[AnyOf(s)] = VotingPower(db, AnyOf(s), now)
    BY DEF AnyOf, S
  <2>2. [s \in SUBSET S |-> IF s = {} THEN 0 ELSE VotingPower(db, AnyOf(s), now)
                                                     + g[s \ {AnyOf(s)}]]
          = [s \in SUBSET S |-> IF s = {} THEN 0 ELSE f[AnyOf(s)] + g[s \ {AnyOf(s)}]]
    BY <2>1
  <2> QED  BY <2>2 DEF IsSums
<1>3. PICK g : IsSums(f, g, S)
  BY SumsExist DEF S
<1>4. Sums(sum)
  <2>1. Sums(g)
    BY <1>2, <1>3
  <2> QED  BY <2>1
<1> HIDE DEF sum, Sums
<1>5. IsSums(f, sum, S)
  BY <1>2, <1>4
<1>6. IsFiniteSet(S) /\ \A u \in S : f[u] \in Int
  BY DEF S
<1> QED  BY <1>1, <1>5, <1>6, SumsAre DEF S

\* On the whole branch a delegated power is the balances behind it.
LEMMA ChainSound ==
  ASSUME IInv, HInv, Synced
  PROVE  \A k \in 0 .. Len(chain) : Sound(Contracts(chain, k))
<1> DEFINE N == Len(chain)
           T == {k \in 0 .. N : Sound(Contracts(chain, k))}
<1>1. N \in Nat
  BY SyncedBlocks
<1>2. 0 \in T
  BY <1>1, NewContractsSound DEF Contracts
<1>3. ASSUME NEW k \in 0 .. N - 1, k \in T PROVE k + 1 \in T
  <2>1. /\ k + 1 \in 1 .. N
        /\ Follows(Contracts(chain, k), LogsOf(blocks[k + 1].receipts), Contracts(chain, k + 1))
    BY ChainStep
  <2> HIDE DEF N
  <2> QED  BY <1>1, <1>3, <2>1 DEF Follows, Leads
<1>4. \A k \in 0 .. N : k \in T
  <2> HIDE DEF N, T
  <2> QED  BY <1>1, <1>2, <1>3, ByOneUp
<1> QED  BY <1>4

\* Who is in the view: users, and of these everybody the contract has anything of.
LEMMA ViewOfUsers ==
  ASSUME IInv, HInv, Synced
  PROVE  /\ SupernovaUsers(db) \subseteq Users /\ IsFiniteSet(SupernovaUsers(db))
         /\ \A u \in Users \ SupernovaUsers(db) : State.balance[u] = 0 /\ State.power[u] = 0
<1> DEFINE A == "supernova_staking_actions"
           B == "supernova_delegate_changes"
<1>1. /\ A \in Checkable /\ B \in Checkable
      /\ \A h \in Heights : RowsOf(A, h, blocks[h])
                              = Rows(h, StoredLogs(h), Supernova, {"Deposit", "Withdraw"})
      /\ \A h \in Heights :
           RowsOf(B, h, blocks[h]) = Rows(h, StoredLogs(h), Supernova,
                                          {"DelegatedPowerIncreased", "DelegatedPowerDecreased"})
  BY SupernovaTables DEF Checkable, DbTables
<1>2. \A r \in db[A] : r.from \in Users
  <2> TAKE r \in db[A]
  <2> DEFINE l == StoredLogs(r.block)[r.index]
  <2>1. l \in LogSet /\ l.event \in {"Deposit", "Withdraw"} /\ r.from = l.from
    <3> HIDE DEF A
    <3> QED  BY <1>1, RowOfLog
  <2> HIDE DEF l
  <2> QED  BY <2>1 DEF LogSet
<1>3. \A r \in db[B] : r.to \in Users
  <2> TAKE r \in db[B]
  <2> DEFINE l == StoredLogs(r.block)[r.index]
  <2>1. /\ l \in LogSet /\ l.event \in {"DelegatedPowerIncreased", "DelegatedPowerDecreased"}
        /\ r.to = l.to
    <3> HIDE DEF B
    <3> QED  BY <1>1, RowOfLog
  <2> HIDE DEF l
  <2> QED  BY <2>1 DEF LogSet
<1>4. SupernovaUsers(db) \subseteq Users
  BY <1>2, <1>3 DEF SupernovaUsers
<1>5. IsFiniteSet(SupernovaUsers(db))
  BY <1>4, LedgerAssumption, FS_Subset
<1>6. ASSUME NEW u \in Users \ SupernovaUsers(db)
      PROVE  State.balance[u] = 0 /\ State.power[u] = 0
  <2>1. BalanceOf(db, u) = 0 /\ DelegatedPower(db, u) = 0
    BY DEF SupernovaUsers, BalanceOf, DelegatedPower
  <2> QED  BY <2>1, BalanceIs, PowerIs
<1> QED  BY <1>4, <1>5, <1>6

\* Balances and powers are never negative.
LEMMA StateTypes ==
  ASSUME IInv, HInv, Synced, NEW u \in Users
  PROVE  /\ Year \in Nat /\ Year >= 1
         /\ State.balance[u] \in Int /\ State.until[u] \in Int /\ State.power[u] \in Int
         /\ State.balance[u] >= 0 /\ State.power[u] >= 0
<1>1. Len(chain) \in 0 .. Len(chain)
  BY SyncedBlocks
<1>2. State \in ContractSet /\ Sound(State)
  BY <1>1, ContractTypes, ChainSound DEF State
<1>3. State.power[u] >= 0
  <2> HIDE DEF State
  <2> QED  BY <1>2, SoundPowers
<1> HIDE DEF State
<1> QED  BY <1>2, <1>3, LedgerAssumption DEF Sound, ContractSet

\* voting_power with user_multiplier is what the contract computes.
LEMMA VotingPowerIs ==
  ASSUME IInv, HInv, Synced, NEW u \in Users, NEW now \in Int
  PROVE  VotingPower(db, u, now) = ContractPower(State, u, now)
<1> DEFINE left == IF State.until[u] > now THEN State.until[u] - now ELSE 0
           x == UserMultiplier(db, u, now)
<1>1. Year \in Nat /\ State.until[u] \in Int /\ LockedUntil(db, u) = State.until[u]
  BY StateTypes, UntilIs
<1>2. x = Year + left
  <2> HIDE DEF State
  <2> QED  BY <1>1 DEF UserMultiplier
<1>3. /\ BalanceOf(db, u) = State.balance[u] /\ DelegatedPower(db, u) = State.power[u]
      /\ HasActiveDelegation(db, u) <=> State.delegatee[u] # Zero
  BY BalanceIs, PowerIs, DelegatingIs
<1>4. ContractPower(State, u, now)
        = (IF State.delegatee[u] # Zero THEN 0 ELSE State.balance[u] * (Year + left))
            + State.power[u] * Year
  BY DEF ContractPower
<1>5. VotingPower(db, u, now)
        = (IF HasActiveDelegation(db, u) THEN 0 ELSE BalanceOf(db, u) * x)
            + DelegatedPower(db, u) * Year
  BY DEF VotingPower
<1> HIDE DEF left, x, State
<1> QED  BY <1>2, <1>3, <1>4, <1>5

\* A voting power is a number, and there is one where there is a balance that is not
\* delegated or a delegated power.
LEMMA PowerTypes ==
  ASSUME IInv, HInv, Synced, NEW u \in Users, NEW now \in Int
  PROVE  LET p == ContractPower(State, u, now)
         IN /\ p \in Int /\ p >= 0
            /\ State.balance[u] = 0 /\ State.power[u] = 0 => p = 0
            /\ State.power[u] > 0 => p > 0
<1> DEFINE left == IF State.until[u] > now THEN State.until[u] - now ELSE 0
           b == State.balance[u]
           q == State.power[u]
           own == IF State.delegatee[u] # Zero THEN 0 ELSE b * (Year + left)
           p == ContractPower(State, u, now)
<1>1. /\ Year \in Nat /\ Year >= 1 /\ State.until[u] \in Int /\ b \in Int /\ q \in Int
      /\ b >= 0 /\ q >= 0
  BY StateTypes
<1>2. Year + left \in Int /\ Year + left >= 1
  <2> HIDE DEF State
  <2> QED  BY <1>1
<1>3. p = own + q * Year
  BY DEF ContractPower
<1>4. \A m, n \in Int : m >= 0 /\ n >= 1 => /\ m * n \in Int /\ m * n >= 0
                                            /\ m = 0 => m * n = 0
                                            /\ m > 0 => m * n > 0
  OBVIOUS
<1>5. /\ b * (Year + left) \in Int /\ b * (Year + left) >= 0
      /\ b = 0 => b * (Year + left) = 0
  <2> HIDE DEF left, b
  <2> QED  BY <1>1, <1>2, <1>4
<1>6. /\ q * Year \in Int /\ q * Year >= 0
      /\ q = 0 => q * Year = 0
      /\ q > 0 => q * Year > 0
  <2> HIDE DEF q
  <2> QED  BY <1>1, <1>4
<1> DEFINE a == b * (Year + left)
           d == q * Year
<1>7. own \in Int /\ own >= 0 /\ (b = 0 => own = 0)
  <2>1. a \in Int /\ a >= 0 /\ (b = 0 => a = 0) /\ own = IF State.delegatee[u] # Zero THEN 0 ELSE a
    BY <1>5
  <2> HIDE DEF a, b, own
  <2> QED  BY <2>1
<1>8. d \in Int /\ d >= 0 /\ (q = 0 => d = 0) /\ (q > 0 => d > 0) /\ p = own + d
  BY <1>3, <1>6
<1>9. p \in Int /\ p >= 0 /\ (b = 0 /\ q = 0 => p = 0) /\ (q > 0 => p > 0)
  <2> HIDE DEF own, d, b, q, p
  <2> QED  BY <1>7, <1>8
<1> QED  BY <1>9

\* Who is not in the view adds nothing.
LEMMA TotalPowerIs ==
  ASSUME IInv, HInv, Synced, NEW now \in Int
  PROVE  TotalVKek(db, now) = PowersNow(State, now)
<1> DEFINE f == [u \in Users |-> ContractPower(State, u, now)]
           S == SupernovaUsers(db)
           R == Users \ S
<1>1. S \subseteq Users /\ IsFiniteSet(S) /\ IsFiniteSet(Users) /\ IsFiniteSet(R)
  BY ViewOfUsers, LedgerAssumption, FS_Subset
<1>2. \A u \in Users : f[u] = ContractPower(State, u, now) /\ f[u] \in Int
  BY PowerTypes
<1>3. \A u \in R : f[u] = 0
  BY ViewOfUsers, PowerTypes
<1>4. \A u \in S : f[u] = VotingPower(db, u, now)
  BY <1>1, VotingPowerIs
<1> HIDE DEF f
<1>5. PowersNow(State, now) = SumOver(f, Users)
  BY <1>2, PowersAddUp
<1>6. TotalVKek(db, now) = SumOver(f, S)
  BY <1>1, <1>2, <1>4, VotesAddUp
<1> HIDE DEF S
<1>7. Users = S \cup R /\ S \cap R = {}
  BY <1>1
<1>8. SumOver(f, R) = 0
  BY <1>1, <1>3, NothingAddsUp
<1>9. SumOver(f, S) \in Int
  BY <1>1, <1>2, SumStep
<1> HIDE DEF R
<1>10. SumOver(f, S \cup R) = SumOver(f, S) + SumOver(f, R)
  BY <1>1, <1>2, <1>7, SumUnion
<1> QED  BY <1>5, <1>6, <1>7, <1>8, <1>9, <1>10

\* The view `voters`, its total and those of it the overview counts.
LEMMA PowerNowIs ==
  ASSUME IInv, HInv, Synced, NEW now \in Int
  PROVE  PowerNow(now)
<1> DEFINE view == VotersView(db, now)
           S == SupernovaUsers(db)
<1>1. S \subseteq Users /\ \A u \in Users \ S : State.balance[u] = 0 /\ State.power[u] = 0
  BY ViewOfUsers
<1>2. DOMAIN view = S
  BY DEF VotersView
<1>3. ASSUME NEW u \in S
      PROVE  view[u] = [staked |-> State.balance[u], until |-> State.until[u],
                        delegated |-> State.power[u], power |-> ContractPower(State, u, now),
                        delegating |-> State.delegatee[u] # Zero]
  <2>1. u \in Users
    BY <1>1
  <2>2. /\ BalanceOf(db, u) = State.balance[u] /\ LockedUntil(db, u) = State.until[u]
        /\ DelegatedPower(db, u) = State.power[u]
        /\ VotingPower(db, u, now) = ContractPower(State, u, now)
        /\ HasActiveDelegation(db, u) = (State.delegatee[u] # Zero)
    <3>1. HasActiveDelegation(db, u) \in BOOLEAN
      BY DEF HasActiveDelegation
    <3>2. HasActiveDelegation(db, u) <=> State.delegatee[u] # Zero
      BY <2>1, DelegatingIs
    <3>3. HasActiveDelegation(db, u) = (State.delegatee[u] # Zero)
      BY <3>1, <3>2
    <3> QED  BY <2>1, <3>3, BalanceIs, UntilIs, PowerIs, VotingPowerIs
  <2>3. view[u] = [staked |-> BalanceOf(db, u), until |-> LockedUntil(db, u),
                   delegated |-> DelegatedPower(db, u), power |-> VotingPower(db, u, now),
                   delegating |-> HasActiveDelegation(db, u)]
    BY DEF VotersView
  <2> HIDE DEF view, S, State
  <2> QED  BY <2>2, <2>3
<1>4. TotalVKek(db, now) = MapThenSumSet(LAMBDA u : ContractPower(State, u, now), Users)
  BY TotalPowerIs DEF PowersNow
<1>5. ASSUME NEW u \in Users
      PROVE  LET b == State.balance[u]
                 q == State.power[u]
                 p == ContractPower(State, u, now)
             IN b * Year + p > 0 <=> b > 0 \/ q > 0
  <2> DEFINE b == State.balance[u]
             q == State.power[u]
             p == ContractPower(State, u, now)
             m == b * Year
  <2>1. /\ Year \in Nat /\ Year >= 1 /\ b \in Int /\ q \in Int /\ b >= 0 /\ q >= 0
        /\ p \in Int /\ p >= 0 /\ (b = 0 /\ q = 0 => p = 0) /\ (q > 0 => p > 0)
    BY StateTypes, PowerTypes
  <2>2. m \in Int /\ m >= 0 /\ (b = 0 => m = 0) /\ (b > 0 => m > 0)
    <3>1. \A x, y \in Int : x >= 0 /\ y >= 1 => /\ x * y \in Int /\ x * y >= 0
                                                /\ x = 0 => x * y = 0
                                                /\ x > 0 => x * y > 0
      OBVIOUS
    <3> HIDE DEF b
    <3> QED  BY <2>1, <3>1
  <2>3. m + p > 0 <=> b > 0 \/ q > 0
    <3> HIDE DEF m, b, q, p
    <3> QED  BY <2>1, <2>2
  <2> QED  BY <2>3
<1>6. Voters(db, now) = {u \in Users : State.balance[u] > 0 \/ State.power[u] > 0}
  <2>1. Voters(db, now) = {u \in S : view[u].staked * Year + view[u].power > 0}
    BY <1>2 DEF Voters
  <2>2. \A u \in S : view[u].staked * Year + view[u].power > 0
                       <=> State.balance[u] > 0 \/ State.power[u] > 0
    <3> TAKE u \in S
    <3> DEFINE b == State.balance[u]
               p == ContractPower(State, u, now)
    <3>1. view[u].staked = b /\ view[u].power = p /\ u \in Users
      <4> DEFINE e == [staked |-> b, until |-> State.until[u], delegated |-> State.power[u],
                       power |-> p, delegating |-> State.delegatee[u] # Zero]
      <4>1. view[u] = e
        BY <1>3
      <4>2. e.staked = b /\ e.power = p
        OBVIOUS
      <4> HIDE DEF view, e
      <4> QED  BY <1>1, <4>1, <4>2
    <3>2. b * Year + p > 0 <=> b > 0 \/ State.power[u] > 0
      BY <1>5, <3>1
    <3> HIDE DEF view, b, p
    <3>3. view[u].staked * Year + view[u].power > 0 <=> b > 0 \/ State.power[u] > 0
      BY <3>1, <3>2
    <3> QED  BY <3>3 DEF b
  <2>3. \A u \in Users \ S : ~(State.balance[u] > 0) /\ ~(State.power[u] > 0)
    <3>1. ~(0 > 0)
      OBVIOUS
    <3> QED  BY <1>1, <3>1
  <2> HIDE DEF view, S, State
  <2> QED  BY <1>1, <2>1, <2>2, <2>3
<1> HIDE DEF State
<1> QED  BY <1>2, <1>3, <1>4, <1>6 DEF PowerNow

\* Rows of the branch: none is above it.
LEMMA RowsInChain ==
  ASSUME IInv, HInv, Synced, NEW t, NEW events, HasRowsOf(t, events), NEW r \in db[t]
  PROVE  r.block \in 1 .. Len(chain)
<1>1. r.block \in Heights /\ blocks[r.block] # NoBlock
  <2>1. /\ t \in Checkable
        /\ \A h \in Heights : RowsOf(t, h, blocks[h]) = Rows(h, StoredLogs(h), Supernova, events)
    BY DEF HasRowsOf
  <2> QED  BY <2>1, RowOfLog
<1> QED  BY <1>1, SyncedBlocks

\* The delegated power the overview shows.
LEMMA TotalDelegatedIs ==
  ASSUME IInv, HInv, Synced
  PROVE  TotalDelegatedPower(db) = MapThenSumSet(LAMBDA u : State.power[u], Users)
<1> DEFINE t == "supernova_delegate_changes"
           up == "DelegatedPowerIncreased"
           down == "DelegatedPowerDecreased"
           n == Len(chain)
<1>1. n \in Nat
  BY SyncedBlocks
<1>2. HasRowsOf(t, {up, down})
  BY SupernovaTables DEF HasRowsOf, Checkable, DbTables
<1>3. \A r \in db[t] : r.block <= n
  <2>1. \A r \in db[t] : r.block \in 1 .. n
    BY <1>2, RowsInChain
  <2> QED  BY <1>1, <2>1
<1>4. OfType(db[t], up) = RowsTo(t, n, up) /\ OfType(db[t], down) = RowsTo(t, n, down)
  <2> HIDE DEF n
  <2> QED  BY <1>3 DEF OfType, RowsTo
<1>5. n \in 0 .. n
  BY <1>1
<1>6. Total(RowsTo(t, n, up)) - Total(RowsTo(t, n, down)) = SumOver(State.power, Users)
  BY <1>5, SupernovaTotalsMatch DEF State
<1> QED  BY <1>4, <1>6 DEF TotalDelegatedPower, SumOver

\* kek_staked_at_ts counts the rows up to two heights before: the newest block older than
\* the moment has no row below itself but of the blocks before it.
LEMMA QuorumBaseIs ==
  ASSUME IInv, HInv, Synced, NEW ts \in 1 .. Now + 1
  PROVE  QuorumBase(ts)
<1> DEFINE t == "supernova_staking_actions"
           n == Len(chain)
           stored == {h \in Heights : blocks[h] # NoBlock}
           rows == {r \in db[t] : \E h \in stored : h < ts /\ r.block < h}
<1>1. n \in Nat /\ ts \in Nat /\ ts <= n + 1 /\ ts >= 1
  BY SyncedBlocks DEF Now
<1>2. stored = 1 .. n
  BY SyncedBlocks
<1>3. HasRowsOf(t, {"Deposit", "Withdraw"})
  BY SupernovaTables DEF HasRowsOf, Checkable, DbTables
<1>4. \A r \in db[t] : r.block \in 1 .. n
  BY <1>3, RowsInChain
<1>5. ASSUME NEW k \in 1 .. n
      PROVE  (\E h \in stored : h < ts /\ k < h) <=> k <= ts - 2
  <2> HIDE DEF stored, n
  <2>1. ASSUME NEW h \in stored, h < ts, k < h PROVE k <= ts - 2
    BY <1>1, <1>2, <2>1
  <2>2. ASSUME k <= ts - 2 PROVE \E h \in stored : h < ts /\ k < h
    <3>1. ts - 1 \in stored /\ ts - 1 < ts /\ k < ts - 1
      BY <1>1, <1>2, <2>2
    <3> QED  BY <3>1
  <2> QED  BY <2>1, <2>2
<1>6. rows = {r \in db[t] : r.block <= ts - 2}
  <2> HIDE DEF stored, n
  <2> QED  BY <1>4, <1>5
<1>7. KekStakedAt(db.supernova_staking_actions, stored, ts) = KekStaked(rows)
  BY DEF KekStakedAt
<1>8. CASE ts < 3
  <2>1. \A r \in db[t] : ~(r.block <= ts - 2)
    <3> HIDE DEF n
    <3> QED  BY <1>1, <1>4, <1>8
  <2>2. OfType(rows, "Deposit") = {} /\ OfType(rows, "Withdraw") = {}
    <3> HIDE DEF rows
    <3> QED  BY <1>6, <2>1 DEF OfType
  <2> HIDE DEF rows
  <2>3. KekStaked(rows) = 0
    BY <2>2, NoTotal DEF KekStaked
  <2> HIDE DEF stored
  <2> QED  BY <1>7, <1>8, <2>3 DEF QuorumBase, stored
<1>9. CASE ~(ts < 3)
  <2>1. ts - 2 \in 0 .. n
    BY <1>1, <1>9
  <2>2. /\ OfType(rows, "Deposit") = RowsTo(t, ts - 2, "Deposit")
        /\ OfType(rows, "Withdraw") = RowsTo(t, ts - 2, "Withdraw")
    <3> HIDE DEF rows
    <3> QED  BY <1>6 DEF OfType, RowsTo
  <2>3. Total(RowsTo(t, ts - 2, "Deposit")) - Total(RowsTo(t, ts - 2, "Withdraw"))
          = SumOver(Contracts(chain, ts - 2).balance, Users)
    BY <2>1, SupernovaTotalsMatch
  <2> HIDE DEF rows
  <2>4. KekStaked(rows) = SumOver(Contracts(chain, ts - 2).balance, Users)
    BY <2>2, <2>3 DEF KekStaked
  <2> HIDE DEF stored
  <2> QED  BY <1>7, <1>9, <2>4 DEF QuorumBase, SumOver, stored
<1> QED  BY <1>8, <1>9

\* Once the database has the node's branch, the views, the SQL functions and the overview
\* answer what the staking contract does: balances, locks, delegations, the voting power of
\* everybody and together at any second, and the base of a proposal's quorum
\* (balance_of, voting_power, has_active_delegation, kek_staked_at_ts, the view voters).
THEOREM PowerIsRight == Spec => []PowerMatchesContract
<1>1. IInv /\ HInv => PowerMatchesContract
  <2> SUFFICES ASSUME IInv, HInv, Synced
               PROVE  /\ TotalDelegatedPower(db) = MapThenSumSet(LAMBDA u : State.power[u], Users)
                      /\ \A now \in Now .. MaxHeight + Year : PowerNow(now)
                      /\ \A ts \in 1 .. Now + 1 : QuorumBase(ts)
    BY DEF PowerMatchesContract
  <2>1. Now .. MaxHeight + Year \subseteq Int
    OBVIOUS
  <2> QED  BY <2>1, TotalDelegatedIs, PowerNowIs, QuorumBaseIs
<1> QED  BY <1>1, HInvariance, PTL
===============================================================================
