-------------------------------- MODULE Ledger --------------------------------
(***************************************************************************)
(* What the logs of the staking contract (supernova), of the token (kek),  *)
(* of the yield farm and of other ERC-20 tokens mean: the rows the         *)
(* storables make of them and what the SQL functions, the views and the    *)
(* API's pages read back.  The contracts are external: Outcome says what a *)
(* call changes in them and which logs it leaves.                          *)
(***************************************************************************)
EXTENDS Integers, Sequences, FiniteSets, FiniteSetsExt, SequencesExt

CONSTANTS
  Users,
  Tokens,          \* the ERC-20 tokens seen in transfers; kek is one of them
  Year,            \* 31536000 seconds: a lock of that length doubles the power
  Scale            \* the length of a chart's bucket

Zero == "0x0"            \* the zero address
Supernova == "supernova"
Farm == "farm"
Treasury == "treasury"

ASSUME LedgerAssumption ==
  /\ Year \in Nat \ {0} /\ Scale \in Nat \ {0}
  /\ "kek" \in Tokens
  /\ IsFiniteSet(Users) /\ Users \cap {Zero, Supernova, Farm, Treasury} = {}

Accounts == Users \cup {Zero, Supernova, Farm, Treasury}

-----------------------------------------------------------------------------
(* The contracts (external)                                                *)

\* A log: `after` is the third number some events carry, a balance or a power.
Log(contract, event, from, to, amount, after) ==
  [contract |-> contract, event |-> event, from |-> from, to |-> to, amount |-> amount,
   after |-> after]
Transfer(token, from, to, n) == Log(token, "Transfer", from, to, n, 0)

\* The balances, locks, delegations and delegated powers of supernova, the stakes
\* in the farm, and what the treasury holds.
NewContracts ==
  [balance |-> [u \in Users |-> 0], until |-> [u \in Users |-> 0],
   delegatee |-> [u \in Users |-> Zero], power |-> [u \in Users |-> 0],
   farmed |-> [u \in Users |-> [t \in Tokens |-> 0]], held |-> [t \in Tokens |-> 0]]

\* A call: `to` is the delegatee or a token, `n` an amount or the end of a lock.
Call(kind, user, to, n) == [kind |-> kind, user |-> user, to |-> to, n |-> n]

\* Which calls do not revert in a block of time `now`.
Accepted(c, call, now) ==
  LET u == call.user
  IN CASE call.kind = "withdraw" -> c.balance[u] >= call.n /\ c.until[u] <= now
       [] call.kind = "lock" ->
            c.balance[u] > 0 /\ call.n > c.until[u] /\ call.n > now /\ call.n <= now + Year
       [] call.kind = "delegate" -> c.balance[u] > 0 /\ call.to # u
       [] call.kind = "unfarm" -> c.farmed[u][call.to] >= call.n
       [] OTHER -> TRUE

\* What a user's delegatee gains (n > 0) or loses, and the log that says so.
Delegated(c, u, to, n) ==
  IF to = Zero \/ n = 0 THEN [c |-> c, logs |-> <<>>]
  ELSE LET event == IF n > 0 THEN "DelegatedPowerIncreased" ELSE "DelegatedPowerDecreased"
       IN [c |-> [c EXCEPT !.power[to] = @ + n],
           logs |-> <<Log(Supernova, event, u, to, IF n > 0 THEN n ELSE -n, c.power[to] + n)>>]

Staked(c, u, n) ==
  LET d == Delegated([c EXCEPT !.balance[u] = @ + n], u, c.delegatee[u], n)
  IN [c |-> d.c,
      logs |-> d.logs \o
               IF n > 0 THEN <<Transfer("kek", u, Supernova, n),
                               Log(Supernova, "Deposit", u, Zero, n, c.balance[u] + n)>>
               ELSE <<Transfer("kek", Supernova, u, -n),
                      Log(Supernova, "Withdraw", u, Zero, -n, c.balance[u] + n)>>]

Redelegated(c, u, to) ==
  LET lost == Delegated(c, u, c.delegatee[u], -c.balance[u])
      won == Delegated(lost.c, u, to, c.balance[u])
  IN [c |-> [won.c EXCEPT !.delegatee[u] = to],
      logs |-> <<Log(Supernova, "Delegate", u, to, 0, 0)>> \o lost.logs \o won.logs]

Farmed(c, u, t, n) ==
  [c |-> [c EXCEPT !.farmed[u][t] = @ + n],
   logs |-> IF n > 0 THEN <<Transfer(t, u, Farm, n), Log(Farm, "Deposit", u, t, n, 0)>>
            ELSE <<Transfer(t, Farm, u, -n), Log(Farm, "Withdraw", u, t, -n, 0)>>]

Outcome(c, call) ==
  LET u == call.user
  IN CASE call.kind = "deposit"  -> Staked(c, u, call.n)
       [] call.kind = "withdraw" -> Staked(c, u, -call.n)
       [] call.kind = "lock"     -> [c |-> [c EXCEPT !.until[u] = call.n],
                                     logs |-> <<Log(Supernova, "Lock", u, Zero, call.n, 0)>>]
       [] call.kind = "delegate" -> Redelegated(c, u, call.to)
       [] call.kind = "farm"     -> Farmed(c, u, call.to, call.n)
       [] call.kind = "unfarm"   -> Farmed(c, u, call.to, -call.n)
       [] OTHER                  -> [c |-> [c EXCEPT !.held[call.to] = @ + call.n],
                                     logs |-> <<Transfer(call.to, u, Treasury, call.n)>>]

\* Supernova's balance, delegated power and voting power; powers in units of 1/Year.
ContractPower(c, u, now) ==
  LET left == IF c.until[u] > now THEN c.until[u] - now ELSE 0
      own == IF c.delegatee[u] # Zero THEN 0 ELSE c.balance[u] * (Year + left)
  IN own + c.power[u] * Year

-----------------------------------------------------------------------------
(* The storables: the rows of a block                                      *)

\* A storable numbers its rows by the log's index in the block.
Of(logs, contract, events) ==
  {i \in DOMAIN logs : logs[i].contract = contract /\ logs[i].event \in events}

Row(h, i, l) ==
  [block |-> h, index |-> i, type |-> l.event, from |-> l.from, to |-> l.to,
   amount |-> l.amount, after |-> l.after]
Rows(h, logs, contract, events) == {Row(h, i, logs[i]) : i \in Of(logs, contract, events)}

StakingRows(h, logs) == Rows(h, logs, Supernova, {"Deposit", "Withdraw"})
LockRows(h, logs) == Rows(h, logs, Supernova, {"Lock"})
DelegateActionRows(h, logs) ==
  {[r EXCEPT !.type = IF r.to = Zero THEN "STOP" ELSE "START"] :
     r \in Rows(h, logs, Supernova, {"Delegate"})}
DelegateChangeRows(h, logs) ==
  Rows(h, logs, Supernova, {"DelegatedPowerIncreased", "DelegatedPowerDecreased"})
KekRows(h, logs) == Rows(h, logs, "kek", {"Transfer"})
FarmRows(h, logs) ==
  {[block |-> h, index |-> i, type |-> logs[i].event, from |-> logs[i].from,
    token |-> logs[i].to, amount |-> logs[i].amount] :
     i \in Of(logs, Farm, {"Deposit", "Withdraw"})}

\* The notification to the receiver of a delegation.
DelegateNotif(r) == [block |-> r.block, to |-> r.to, from |-> r.from, amount |-> r.after]

\* Mutant: only those who had power before are told.
DelegateStartRows_notTheFirst(h, logs) ==
  {DelegateNotif(r) :
     r \in {q \in Rows(h, logs, Supernova, {"DelegatedPowerIncreased"}) : q.after > q.amount}}

\* Told is who now has no more power than this delegation gave them.
DelegateStartRows(h, logs) ==
  {DelegateNotif(r) :
     r \in {q \in Rows(h, logs, Supernova, {"DelegatedPowerIncreased"}) : q.after = q.amount}}

\* Mutant: only the sender's topic is compared.
Monitored_senderOnly(logs, monitored) ==
  {i \in DOMAIN logs : logs[i].event = "Transfer" /\ logs[i].from \in monitored}

\* The transfers of any token to or from a monitored account, in the order of the log.
Monitored(logs, monitored) ==
  {i \in DOMAIN logs : /\ logs[i].event = "Transfer"
                       /\ logs[i].from \in monitored \/ logs[i].to \in monitored}
TransferRows(h, logs, kept) ==
  UNION {{[block |-> h, index |-> i, token |-> logs[i].contract, account |-> logs[i].from,
           counterparty |-> logs[i].to, amount |-> logs[i].amount, direction |-> "OUT"],
          [block |-> h, index |-> i, token |-> logs[i].contract, account |-> logs[i].to,
           counterparty |-> logs[i].from, amount |-> logs[i].amount, direction |-> "IN"]} :
           i \in kept}

\* One transfer after the other: a token without a row is looked up at the node; when
\* that fails (the index is in `down`) the transfer is left out and nothing is said.
CheckToken(found, token, fails) ==
  IF found.tokens[token] > 0 THEN [found EXCEPT !.ok = TRUE]
  ELSE IF fails THEN [found EXCEPT !.ok = FALSE]
  ELSE [found EXCEPT !.tokens[token] = 1, !.ok = TRUE]

\* Mutant: the count is read outside the transaction that inserts the token.
Checked_outsideTx(tokens, logs, monitored, down) ==
  FoldLeftDomain(LAMBDA found, i :
                   LET t == logs[i].contract
                   IN IF i \notin Monitored(logs, monitored) THEN found
                      ELSE IF tokens[t] > 0 THEN [found EXCEPT !.kept = @ \cup {i}]
                      ELSE IF i \in down THEN found
                      ELSE [found EXCEPT !.tokens[t] = @ + 1, !.kept = @ \cup {i}],
                 [tokens |-> tokens, kept |-> {}], logs)

Checked(tokens, logs, monitored, down) ==
  FoldLeftDomain(LAMBDA found, i :
                   LET f == CheckToken(found, logs[i].contract, i \in down)
                   IN IF i \notin Monitored(logs, monitored) THEN found
                      ELSE IF f.ok THEN [f EXCEPT !.kept = @ \cup {i}] ELSE f,
                 [tokens |-> tokens, ok |-> TRUE, kept |-> {}], logs)

-----------------------------------------------------------------------------
(* The SQL functions and views, over the tables `db`                       *)

\* Mutant: order by included_in_block desc limit 1
Latest_byBlock(rows) ==
  CHOOSE r \in rows : \A q \in rows : q.block < r.block \/ (q.block = r.block /\ q.index >= r.index)

\* order by included_in_block desc, log_index desc limit 1
Latest(rows) ==
  CHOOSE r \in rows : \A q \in rows : q.block < r.block \/ (q.block = r.block /\ q.index <= r.index)

Total(rows) == MapThenSumSet(LAMBDA r : r.amount, rows)
OfType(rows, type) == {r \in rows : r.type = type}

BalanceOf(db, u) ==
  LET rows == {r \in db.supernova_staking_actions : r.from = u}
  IN IF rows = {} THEN 0 ELSE Latest(rows).after

HasActiveDelegation(db, u) ==
  LET rows == {r \in db.supernova_delegate_actions : r.from = u}
  IN rows # {} /\ Latest(rows).type = "START"

LockedUntil(db, u) ==
  LET rows == {r \in db.supernova_locks : r.from = u}
  IN IF rows = {} THEN 0 ELSE Latest(rows).amount

\* In units of 1/Year.
UserMultiplier(db, u, now) ==
  IF LockedUntil(db, u) <= now THEN Year ELSE Year + LockedUntil(db, u) - now

DelegatedPower(db, u) ==
  LET rows == {r \in db.supernova_delegate_changes : r.to = u}
  IN IF rows = {} THEN 0 ELSE Latest(rows).after

VotingPower(db, u, now) ==
  (IF HasActiveDelegation(db, u) THEN 0 ELSE BalanceOf(db, u) * UserMultiplier(db, u, now))
    + DelegatedPower(db, u) * Year

TotalDelegatedPower(db) ==
  Total(OfType(db.supernova_delegate_changes, "DelegatedPowerIncreased"))
    - Total(OfType(db.supernova_delegate_changes, "DelegatedPowerDecreased"))

\* The materialized view: every statement on the two tables it reads refreshes it.
SupernovaUsers(db) ==
  {r.from : r \in db.supernova_staking_actions} \cup {r.to : r \in db.supernova_delegate_changes}

TotalVKek(db, now) == MapThenSumSet(LAMBDA u : VotingPower(db, u, now), SupernovaUsers(db))

\* The view `voters`, and those of it the page and the overview show.
VotersView(db, now) ==
  [u \in SupernovaUsers(db) |->
     [staked |-> BalanceOf(db, u), until |-> LockedUntil(db, u),
      delegated |-> DelegatedPower(db, u), power |-> VotingPower(db, u, now),
      delegating |-> HasActiveDelegation(db, u)]]
Voters(db, now) ==
  LET view == VotersView(db, now)
  IN {u \in DOMAIN view : view[u].staked * Year + view[u].power > 0}

\* Everybody's deposits less their withdrawals.
KekStaked(rows) == Total(OfType(rows, "Deposit")) - Total(OfType(rows, "Withdraw"))

\* kek_staked_at_ts: up to the block before the newest one that is older than ts; a block's
\* time is its height here.
KekStakedAt(rows, stored, ts) == KekStaked({r \in rows : \E h \in stored : h < ts /\ r.block < h})

KekBalance(transfers, a) ==
  Total({r \in transfers : r.to = a}) - Total({r \in transfers : r.from = a})
NoStaking(transfers) == {r \in transfers : r.from # Supernova /\ r.to # Supernova}

\* where key = value and ...
Filtered(rows, filters) == {r \in rows : \A key \in DOMAIN filters : r[key] = filters[key]}

\* The treasury's list of transfers, one entry for each row of the token it joins, the
\* count shown with it, and the tokens to choose from.
TreasuryList(db, tokens, filters) ==
  UNION {{<<r, n>> : n \in 1 .. tokens[r.token]} :
           r \in Filtered(db.account_erc20_transfers, filters)}
TreasuryCount(db, filters) == Cardinality(Filtered(db.account_erc20_transfers, filters))
TreasuryTokens(db, tokens, a) ==
  {t \in Tokens : tokens[t] > 0
                  /\ Filtered(db.account_erc20_transfers, [account |-> a, token |-> t]) # {}}

\* Of a token: the deposits and withdrawals in each bucket that has any.
Points(rows, type) == {r.block \div Scale : r \in OfType(rows, type)}
SumActions(rows, type, point) == Total({r \in OfType(rows, type) : r.block \div Scale = point})
\* Mutant: an inner join of the deposits' and the withdrawals' buckets.
Stats_innerJoin(db, token, start, end) ==
  LET rows == {r \in db.yield_farming_actions : r.token = token /\ r.block \in start .. end}
  IN [p \in Points(rows, "Deposit") \cap Points(rows, "Withdraw") |->
        [deposits |-> SumActions(rows, "Deposit", p),
         withdrawals |-> SumActions(rows, "Withdraw", p)]]

Stats(db, token, start, end) ==
  LET rows == {r \in db.yield_farming_actions : r.token = token /\ r.block \in start .. end}
  IN [p \in Points(rows, "Deposit") \cup Points(rows, "Withdraw") |->
        [deposits |-> SumActions(rows, "Deposit", p),
         withdrawals |-> SumActions(rows, "Withdraw", p)]]

Chart(db, chosen, start, end) == [t \in chosen |-> Stats(db, t, start, end)]
===============================================================================
