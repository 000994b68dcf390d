------------------------------ MODULE Storables -------------------------------
(***************************************************************************)
(* One height at a time the consumer fetches a block and its receipts from *)
(* a node that may switch branches in between, validates them, and stores  *)
(* the rows of all storables in one transaction, after delete_block took   *)
(* away those of another version of the height.  Which heights it is given *)
(* and when is the business of TaskManager and Indexer: here any height    *)
(* the node has may come at any time.                                      *)
(***************************************************************************)
EXTENDS Ledger

CONSTANTS
  Calls,           \* the calls the blocks of a run are made of
  MaxHeight,       \* bound: blocks of a branch
  MaxBlocks,       \* bound: blocks ever mined
  MaxTxs,          \* bound: transactions ever mined
  MaxFaults        \* bound: failures of the node and of the database

ASSUME StorablesAssumption ==
  /\ {MaxHeight, MaxBlocks, MaxTxs, MaxFaults} \subseteq Nat
  /\ \A c \in Calls :
       /\ c.user \in Users /\ c.n \in Nat
       /\ \/ c.kind \in {"deposit", "withdraw", "lock"}
          \/ c.kind = "delegate" /\ c.to \in Users \cup {Zero}
          \/ c.kind \in {"farm", "unfarm", "pay"} /\ c.to \in Tokens

VARIABLES
  chain,           \* the node's branch: Seq of blocks
  mined, txs,      \* bounds: how many blocks and transactions were ever mined
  blocks,          \* table blocks: [height -> the block stored, or NoBlock]
  db,              \* the tables of dbTables that storables fill: [name -> set of rows]
  tokens,          \* erc20_tokens: [token -> how many rows it has]
  pc,              \* where the consumer is
  raw,             \* RawData: [height, block, asked, receipts, failed]
  faults,          \* bound
  lost             \* history: the tokens of transfers left out, and of which block

node == <<chain, mined, txs>>
tables == <<blocks, db, tokens>>
vars == <<node, tables, pc, raw, faults, lost>>

Heights == 1 .. MaxHeight
NoBlock == [id |-> 0, hashes |-> <<>>, receipts |-> <<>>]
NoData == [height |-> 0, block |-> NoBlock, asked |-> {}, receipts |-> {}, failed |-> FALSE]

DbTables ==
  {"kek_transfers", "supernova_staking_actions", "supernova_locks", "supernova_delegate_actions",
   "supernova_delegate_changes", "yield_farming_actions", "account_erc20_transfers",
   "notifications"}

\* state.Refresh
MonitoredAccounts == {Treasury}

Init ==
  /\ chain = <<>> /\ mined = 0 /\ txs = 0
  /\ blocks = [h \in Heights |-> NoBlock]
  /\ db = [t \in DbTables |-> {}]
  /\ tokens = [t \in Tokens |-> 0]
  /\ pc = "idle" /\ raw = NoData
  /\ faults = 0 /\ lost = {}

-----------------------------------------------------------------------------
(* The node (external)                                                     *)

\* The contracts after the first n blocks of a branch.
Contracts(branch, n) == IF n = 0 THEN NewContracts ELSE branch[n].contracts

\* A transaction's hash: the call and how often its sender called before.
Nonce(branch, user) ==
  MapThenSumSet(LAMBDA k : Cardinality({i \in DOMAIN branch[k].hashes :
                                          branch[k].hashes[i].call.user = user}),
                DOMAIN branch)

\* Another transaction at the end of a block.
Included(branch, block, call) ==
  LET o == Outcome(block.contracts, call)
      before == Cardinality({i \in DOMAIN block.hashes : block.hashes[i].call.user = call.user})
      hash == [call |-> call, nonce |-> Nonce(branch, call.user) + before]
  IN [id |-> block.id, contracts |-> o.c, hashes |-> Append(block.hashes, hash),
      receipts |-> Append(block.receipts, [hash |-> hash, index |-> Len(block.receipts) + 1,
                                           logs |-> o.logs])]

\* The blocks that may follow a branch: none, one or two transactions.
Blocks(branch) ==
  LET now == Len(branch) + 1
      empty == [id |-> mined + 1, hashes |-> <<>>, receipts |-> <<>>,
                contracts |-> Contracts(branch, Len(branch))]
      More(block) == {Included(branch, block, c) :
                        c \in {d \in Calls : Accepted(block.contracts, d, now)}}
      ones == More(empty)
  IN {b \in {empty} \cup ones \cup UNION {More(b) : b \in ones} : txs + Len(b.hashes) <= MaxTxs}

Grow(branch) ==
  /\ mined < MaxBlocks
  /\ \E b \in Blocks(branch) :
       /\ chain' = Append(branch, b)
       /\ txs' = txs + Len(b.hashes)
  /\ mined' = mined + 1
  /\ UNCHANGED <<tables, pc, raw, faults, lost>>

Mine == Len(chain) < MaxHeight /\ Grow(chain)

\* Another version of the newest block.
Switch == chain # <<>> /\ Grow(Front(chain))

-----------------------------------------------------------------------------
(* scraper.Exec                                                            *)

\* The block by its number ...
GetBlock(h) ==
  /\ pc = "idle" /\ h \in DOMAIN chain
  /\ pc' = "receipts"
  /\ raw' = [NoData EXCEPT !.height = h, !.block = chain[h]]
  /\ UNCHANGED <<node, tables, faults, lost>>

\* ... and, in parallel, the receipts by their hashes, from whatever branch the node is
\* on by then.  A hash it does not know, or a request that fails, is an error.
Fetched(i) ==
  {r \in UNION {Range(chain[h].receipts) : h \in DOMAIN chain} : r.hash = raw.block.hashes[i]}

GetReceipt(i) ==
  /\ pc = "receipts" /\ i \in DOMAIN raw.block.hashes \ raw.asked
  /\ \/ /\ faults < MaxFaults /\ faults' = faults + 1
        /\ raw' = [raw EXCEPT !.asked = @ \cup {i}, !.failed = TRUE]
     \/ /\ raw' = [raw EXCEPT !.asked = @ \cup {i}, !.receipts = @ \cup Fetched(i),
                              !.failed = @ \/ Fetched(i) = {}]
        /\ UNCHANGED faults
  /\ UNCHANGED <<node, tables, pc, lost>>

\* sort.Slice by the transaction's index
Sorted(receipts) == SetToSortSeq(receipts, LAMBDA r, s : r.index < s.index)
Receipts == Sorted(raw.receipts)
LogsOf(receipts) == FoldLeft(LAMBDA logs, r : logs \o r.logs, <<>>, receipts)

\* Mutant: whatever the requests returned is taken for the block's receipts.
Valid_always == TRUE

\* The validator recomputes the receipts' root; an error puts the height back.
Valid == Receipts = raw.block.receipts

Validate ==
  /\ pc = "receipts" /\ raw.asked = DOMAIN raw.block.hashes
  /\ IF raw.failed \/ ~ Valid
     THEN pc' = "idle" /\ raw' = NoData
     ELSE pc' = "check" /\ UNCHANGED raw
  /\ UNCHANGED <<node, tables, faults, lost>>

-----------------------------------------------------------------------------
(* processor.Store                                                         *)

\* Mutant: dbTables lacks supernova_staking_actions.
DeleteBlock_keepsStaking(h) ==
  [t \in DOMAIN db |-> IF t = "supernova_staking_actions" THEN db[t]
                       ELSE {r \in db[t] : r.block # h}]

\* checkBlockExists by hash, checkBlockReorged by number, delete_block.
DeleteBlock(h) == [t \in DOMAIN db |-> {r \in db[t] : r.block # h}]

Check ==
  /\ pc = "check"
  /\ LET h == raw.height
     IN IF \E k \in Heights : blocks[k].id = raw.block.id
        THEN pc' = "idle" /\ raw' = NoData /\ UNCHANGED tables
        ELSE /\ pc' = "store" /\ UNCHANGED <<raw, tokens>>
             /\ blocks' = [blocks EXCEPT ![h] = NoBlock]
             /\ db' = IF blocks[h] = NoBlock THEN db ELSE DeleteBlock(h)
  /\ UNCHANGED <<node, faults, lost>>

\* The rows the storables make of a block's logs, in each table.
NewRows(h, logs, kept) ==
  [kek_transfers |-> KekRows(h, logs),
   supernova_staking_actions |-> StakingRows(h, logs),
   supernova_locks |-> LockRows(h, logs),
   supernova_delegate_actions |-> DelegateActionRows(h, logs),
   supernova_delegate_changes |-> DelegateChangeRows(h, logs),
   yield_farming_actions |-> FarmRows(h, logs),
   account_erc20_transfers |-> TransferRows(h, logs, kept),
   notifications |-> DelegateStartRows(h, logs)]

\* The transaction over all storables: it commits all or nothing.
Store ==
  /\ pc = "store"
  /\ pc' = "idle" /\ raw' = NoData
  /\ LET h == raw.height
         logs == LogsOf(Receipts)
         transfers == Monitored(logs, MonitoredAccounts)
     IN \E down \in SUBSET transfers :
          LET found == Checked(tokens, logs, MonitoredAccounts, down)
              rows == NewRows(h, logs, found.kept)
          IN /\ faults + Cardinality(down) <= MaxFaults
             /\ faults' = faults + Cardinality(down)
             /\ blocks' = [blocks EXCEPT ![h] = raw.block]
             /\ db' = [t \in DOMAIN db |-> db[t] \cup rows[t]]
             /\ tokens' = found.tokens
             /\ lost' = lost \cup {[id |-> raw.block.id, token |-> logs[i].contract] :
                                     i \in transfers \ found.kept}
  /\ UNCHANGED node

\* Mutant: a failed transaction leaves the data of its block behind.
StoreFails_keepsData ==
  /\ pc \in {"check", "store"} /\ faults < MaxFaults
  /\ faults' = faults + 1
  /\ pc' = "idle" /\ UNCHANGED raw
  /\ UNCHANGED <<node, tables, lost>>

\* A failing query, before the transaction or in it: the height goes back to the queue.
StoreFails ==
  /\ pc \in {"check", "store"} /\ faults < MaxFaults
  /\ faults' = faults + 1
  /\ pc' = "idle" /\ raw' = NoData
  /\ UNCHANGED <<node, tables, lost>>

Next ==
  \/ Mine \/ Switch
  \/ \E h \in Heights : GetBlock(h)
  \/ \E i \in DOMAIN raw.block.hashes : GetReceipt(i)
  \/ Validate \/ Check \/ Store \/ StoreFails

Spec == Init /\ [][Next]_vars

-----------------------------------------------------------------------------
(* Properties                                                              *)

TypeOK ==
  /\ \A h \in DOMAIN chain :
       /\ chain[h].id \in 1 .. mined
       /\ \A i \in DOMAIN chain[h].hashes :
            chain[h].hashes[i].call \in Calls /\ chain[h].hashes[i].nonce \in Nat
  /\ Len(chain) <= MaxHeight /\ mined <= MaxBlocks /\ txs <= MaxTxs
  /\ DOMAIN blocks = Heights /\ \A h \in Heights : blocks[h].id \in 0 .. mined
  /\ DOMAIN db = DbTables /\ \A t \in DbTables : \A r \in db[t] : r.block \in Heights
  /\ tokens \in [Tokens -> Nat]
  /\ pc \in {"idle", "receipts", "check", "store"}
  /\ (pc = "idle") = (raw = NoData)
  /\ raw.height \in Heights \cup {0} /\ raw.asked \subseteq DOMAIN raw.block.hashes
  /\ faults \in 0 .. MaxFaults /\ lost \subseteq [id : 1 .. mined, token : Tokens]

\* The database holds the node's branch.
Synced == \A h \in DOMAIN chain : blocks[h].id = chain[h].id

Now == Len(chain)
State == Contracts(chain, Len(chain))

\* Whatever the node switched to between the requests for a block and for its receipts,
\* and whatever was replaced or failed: in every table the rows of a height are those of
\* the version of the block that table blocks has there, all of them and no others.
RowsMatchBlock ==
  \A h \in Heights :
    LET rows == NewRows(h, LogsOf(blocks[h].receipts), {})
    IN \A t \in DbTables \ {"account_erc20_transfers"} :
         {r \in db[t] : r.block = h} = IF blocks[h] = NoBlock THEN {} ELSE rows[t]

\* What the views and the overview show at second `now` is what the staking contract has.
PowerNow(now) ==
  LET view == VotersView(db, now)
      Power(u) == ContractPower(State, u, now)
  IN /\ \A u \in DOMAIN view :
          view[u] = [staked |-> State.balance[u], until |-> State.until[u],
                     delegated |-> State.power[u], power |-> Power(u),
                     delegating |-> State.delegatee[u] # Zero]
     /\ TotalVKek(db, now) = MapThenSumSet(Power, Users)
     /\ Voters(db, now) = {u \in Users : State.balance[u] > 0 \/ State.power[u] > 0}

\* The stake a quorum is a share of is everybody's balance at the end of the block before
\* the newest block older than that moment.
QuorumBase(ts) ==
  KekStakedAt(db.supernova_staking_actions, {h \in Heights : blocks[h] # NoBlock}, ts)
    = IF ts < 3 THEN 0
      ELSE MapThenSumSet(LAMBDA u : Contracts(chain, ts - 2).balance[u], Users)

\* Once the database has the node's branch, in whatever order its blocks came and whatever
\* was replaced or failed on the way, what the SQL functions, the views and the overview
\* answer is what the staking contract would: balances, delegations, the delegated power,
\* the voting power at any second until the last lock ends, of everybody and together, and
\* the base of a proposal's quorum.
PowerMatchesContract ==
  Synced =>
    /\ TotalDelegatedPower(db) = MapThenSumSet(LAMBDA u : State.power[u], Users)
    /\ \A now \in Now .. MaxHeight + Year : PowerNow(now)
    /\ \A ts \in 1 .. Now + 1 : QuorumBase(ts)

\* At every moment, also between the removal of a block and its replacement, the staked
\* kek is what the transfers left at the staking contract, and what a holder has besides
\* it is what the view that leaves the contract out says.
StakedIsHeld ==
  LET transfers == db.kek_transfers
      actions == db.supernova_staking_actions
  IN /\ KekStaked(actions) = KekBalance(transfers, Supernova)
     /\ \A u \in Users :
          KekBalance(NoStaking(transfers), u)
            = KekBalance(transfers, u) + KekStaked({r \in actions : r.from = u})

\* Whoever holds delegated power was told: the newest notification of a delegation to
\* them has the power they had from it; and nobody is told of a delegation whose block
\* is not stored any more.
DelegateesTold ==
  /\ Synced => \A u \in Users : State.power[u] > 0 => \E n \in db.notifications : n.to = u
  /\ \A n \in db.notifications : \E r \in db.supernova_delegate_changes :
       /\ r.block = n.block /\ r.to = n.to /\ r.from = n.from /\ r.after = n.amount

\* The pages about the treasury, in every state of the database and under each filter: the
\* list of transfers is as long as the count shown with it, and a token can be chosen just
\* when it has any.
ListMatchesCount ==
  LET account == [account |-> Treasury]
      rows == Filtered(db.account_erc20_transfers, account)
  IN /\ \A filters \in {account} \cup {[account |-> Treasury, token |-> t] : t \in Tokens}
                       \cup {[account |-> Treasury, direction |-> d] : d \in {"IN", "OUT"}} :
          Cardinality(TreasuryList(db, tokens, filters)) = TreasuryCount(db, filters)
     /\ TreasuryTokens(db, tokens, Treasury) = {r.token : r \in rows}

\* What came in of a token less what went out is what the treasury has, unless a transfer
\* of it was left out because the node failed while the token was not known yet.
TreasuryBalances ==
  Synced =>
    \A t \in {k \in Tokens : \A x \in lost : x.token # k} :
      LET rows == {r \in db.account_erc20_transfers : r.account = Treasury /\ r.token = t}
      IN Total({r \in rows : r.direction = "IN"}) - Total({r \in rows : r.direction = "OUT"})
           = State.held[t]

\* The chart: up to any bucket, the deposits less the withdrawals are what the farm held
\* when the bucket ended.
ChartMatchesFarm ==
  Synced =>
    \A t \in Tokens, k \in DOMAIN chain :
      (k + 1) % Scale = 0 =>
        LET chart == Chart(db, {t}, 0, k)[t]
            SumOf(field) == MapThenSumSet(LAMBDA p : chart[p][field], DOMAIN chart)
        IN SumOf("deposits") - SumOf("withdrawals")
             = MapThenSumSet(LAMBDA u : chain[k].contracts.farmed[u][t], Users)
===============================================================================
