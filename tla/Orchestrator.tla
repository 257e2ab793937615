----------------------------- MODULE Orchestrator -----------------------------
(***************************************************************************)
(* The ConsensusEngine of src/src/consensus/mod.rs on every validator,    *)
(* with the block store of src/src/storage/mod.rs beneath it.              *)
(*                                                                         *)
(* Each engine runs two tokio tasks over shared state behind separate      *)
(* RwLocks: the proposer loop (start_consensus_loop, only ever productive  *)
(* on the primary of view 0, since the view never changes: view_timeout  *)
(* is never armed, so trigger_view_change never runs) and the message     *)
(* task (process_messages).  Every lock scope that another task can       *)
(* observe is a step of its own: the proposer's tick, its build-and-       *)
(* broadcast, its insert into pending_blocks and its write of Proposing;   *)
(* the message task's handling of one message, and commit_block's three   *)
(* phases (put_block with the block's transactions, then latest_height    *)
(* together with the volatile bookkeeping ending in state = Idle, then    *)
(* current_round += 1).                                                    *)
(*                                                                         *)
(* broadcast_consensus_message sends into the engine's own mpsc channel.  *)
(* Routing = "loopback" is the node as node.rs wires it (the sender is     *)
(* stored, never connected to the network); Routing = "network" is the    *)
(* composition spec 4.5 describes, where the node also relays it to every *)
(* other validator.  chan[r] holds the messages sent to r and not yet      *)
(* received, in the order they were sent.  With Delivery = "fifo" the     *)
(* message task may take any message that is the oldest of its sender    *)
(* (a FIFO link per pair of nodes, links interleaving arbitrarily); with  *)
(* Delivery = "ordered" only the oldest of all (a totally ordered          *)
(* broadcast, a subset of the former behaviours, used where the former is *)
(* beyond TLC).  Crash(n) loses everything in memory: channel, mempool,    *)
(* votes, pending blocks, the counters and the proposer's progress; the   *)
(* store survives and the engine restarts as ConsensusEngine::new does.   *)
(*                                                                         *)
(* A block is the record of what distinguishes it: height, round and its  *)
(* set of transactions (the view is always 0, the proposer the primary);  *)
(* its hash is the record itself.                                          *)
(***************************************************************************)
EXTENDS Integers, Sequences, FiniteSets

CONSTANTS
    ValidatorOrder,   \* validator_set (node.rs parse_validator_set order)
    Txs,              \* transaction ids that clients may submit
    Routing,          \* "loopback" or "network", see above
    Delivery,         \* "fifo" or "ordered", see above
    GenesisStored,    \* whether the database holds a block at height 0
    MaxCrashes        \* bound on the number of crashes explored

Nodes == {ValidatorOrder[i] : i \in 1..Len(ValidatorOrder)}
N == Len(ValidatorOrder)

ASSUME /\ N >= 1 /\ Routing \in {"loopback", "network"}
       /\ Delivery \in {"fifo", "ordered"}
       /\ GenesisStored \in BOOLEAN /\ MaxCrashes \in Nat

\* check_vote_threshold: (validator_set.len() * 2 / 3) + 1
Quorum == (N * 2) \div 3 + 1

\* leader_election.get_leader(current_view) with current_view = 0.
Leader == ValidatorOrder[1]

\* Heights a block can have: each block carries at least one transaction
\* that no earlier block of the same store carries.
Heights == 0..Cardinality(Txs) + 1

Genesis == [height |-> 0, round |-> 0, txs |-> {}]
Blocks == {Genesis} \cup [height : 1..Cardinality(Txs) + 1,
                          round : 0..Cardinality(Txs) + 1,
                          txs : SUBSET Txs \ {{}}]
NoBlock == [height |-> -1, round |-> -1, txs |-> {}]
\* latest_height metadata absent
NoHeight == -1

States == {"Idle", "Proposing", "Preparing", "Committing"}

Messages == [type : {"Propose"}, block : Blocks, from : Nodes]
            \cup [type : {"Vote"}, block : Blocks, kind : {"Prepare", "Commit"},
                  from : Nodes]

\* The nodes that hear a broadcast of node n.
Peers(n) == IF Routing = "loopback" THEN {n} ELSE Nodes

VARIABLES
    state,       \* ConsensusState, per node
    round,       \* current_round, per node
    height,      \* current_height, per node
    pending,     \* pending_blocks: set of blocks, per node
    votes,       \* votes: set of <<block, validator, kind>>, per node
    chan,        \* chan[r]: messages sent to r, not yet received, oldest first
    pool,        \* the mempool's transactions, per node
    stored,      \* block store: height -> block (NoBlock if absent)
    latest,      \* latest_height metadata (NoHeight if absent)
    hashIdx,     \* the blocks whose hash key the block store holds
    txStore,     \* the transactions the transaction store holds
    mpc,         \* message task: "recv", "store", "apply" or "round"
    cblock,      \* the block commit_block is working on
    ppc,         \* primary's proposer task: "tick", "build", "insert", "state"
    pblock,      \* the block propose_block has built
    submitted,   \* transactions handed to the primary's mempool so far
    crashes      \* crashes so far

vars == <<state, round, height, pending, votes, chan, pool, stored, latest,
          hashIdx, txStore, mpc, cblock, ppc, pblock, submitted, crashes>>

engine == <<state, round, height, pending, votes>>

\* broadcast_consensus_message of n, on channels ch.
Broadcast(ch, n, m) ==
    [r \in Nodes |-> IF r \in Peers(n) THEN Append(ch[r], m) ELSE ch[r]]

\* The positions of chan[r] the message task of r may receive next.
Deliverable(r) ==
    IF Delivery = "ordered" THEN DOMAIN chan[r] \cap {1}
    ELSE {i \in DOMAIN chan[r] : \A j \in 1..i-1 : chan[r][j].from /= chan[r][i].from}

\* votes.entry(key).or_insert_with(HashMap::new).insert(validator_id, msg):
\* the validator's earlier vote for the block, of either kind, is replaced.
StoreVote(vs, b, q, kind) ==
    {v \in vs : ~(v[1] = b /\ v[2] = q)} \cup {<<b, q, kind>>}

\* The vote count of check_vote_threshold: votes of one kind for block b.
CountVotes(vs, b, kind) == Cardinality({v \in vs : v[1] = b /\ v[3] = kind})

\* BlockStore::put_block: the block under its height key (an earlier block
\* at that height is overwritten), then its hash key pointing to that
\* height key.  The hash key of an overwritten block stays.
PutBlock(n, b) ==
    /\ stored' = [stored EXCEPT ![n][b.height] = b]
    /\ hashIdx' = [hashIdx EXCEPT ![n] = @ \cup {b}]

\* BlockStore::get_block_by_hash: the height key under the hash key, then
\* whatever block is stored under that height key.
GetBlockByHash(n, b) == IF b \in hashIdx[n] THEN stored[n][b.height] ELSE NoBlock

\* BlockStore::get_latest_block: iterating from the end of the column
\* family, the hash keys ('h' sorts after "block_") are skipped and the
\* first height key, the highest stored height, is returned.
GetLatestBlock(n) ==
    LET hs == {h \in Heights : stored[n][h] /= NoBlock}
    IN IF hs = {} THEN NoBlock
       ELSE stored[n][CHOOSE h \in hs : \A k \in hs : k <= h]

\* TransactionStore::put_transaction for each transaction of a block: the
\* transaction under its id key and the id key under its hash key.
PutTransactions(n, ts) == txStore' = [txStore EXCEPT ![n] = @ \cup ts]

\* BlockStore::get_block(h): the block stored at height h, or NoBlock.
GetBlock(n, h) == stored[n][h]

\* Storage::get_latest_height: the latest_height metadata, or NoHeight.
GetLatestHeight(n) == latest[n]

\* Storage::put_metadata("latest_height", h).
PutLatestHeight(n, h) == latest' = [latest EXCEPT ![n] = h]

\* TransactionStore::get_transaction: whether the id key is present.
GetTransaction(n, t) == t \in txStore[n]

\* JSON-RPC blockchain_getTransaction: the transaction store first
\* ("confirmed"), then the mempool's get_transaction ("pending"), else
\* "Transaction not found".  The two reads are taken as one step here.
ApiGetTransaction(n, t) ==
    IF GetTransaction(n, t) THEN "confirmed"
    ELSE IF t \in pool[n] THEN "pending"
    ELSE "not_found"

\* Validator::validate_block_structure: a block must carry transactions
\* (a block of at most two transactions is far below the 10 MB limit, and
\* it verifies).
ValidateBlockStructure(b) == b.txs /= {}

\* Validator::validate_block_header against node n's store: the height
\* must follow latest_height, or be 0 when there is none (the timestamp of
\* a block created now is never five minutes ahead).
ValidateBlockHeader(n, b) ==
    IF GetLatestHeight(n) /= NoHeight
    THEN b.height = GetLatestHeight(n) + 1
    ELSE b.height = 0

\* Validator::validate_block_chain: above genesis the block at height - 1
\* must be stored (its hash is the block's previous_hash when the stores
\* agree, and timestamps increase).
ValidateBlockChain(n, b) == b.height = 0 \/ GetBlock(n, b.height - 1) /= NoBlock

\* Validator::validate_block on node n's store, without
\* validate_block_transactions and validate_merkle_root: the former
\* compares balances and nonces of a state store that no code writes, the
\* latter holds of every block create_block builds.
ValidateBlock(n, b) ==
    /\ ValidateBlockStructure(b)
    /\ ValidateBlockHeader(n, b)
    /\ ValidateBlockChain(n, b)

\* ConsensusEngine::new after a (re)start: state Idle, view and round 0,
\* current_height from latest_height (0 when absent), everything else empty.
Restart(n) ==
    /\ state' = [state EXCEPT ![n] = "Idle"]
    /\ round' = [round EXCEPT ![n] = 0]
    /\ height' = [height EXCEPT ![n] = IF GetLatestHeight(n) = NoHeight THEN 0 ELSE GetLatestHeight(n)]
    /\ pending' = [pending EXCEPT ![n] = {}]
    /\ votes' = [votes EXCEPT ![n] = {}]

Init ==
    /\ state = [n \in Nodes |-> "Idle"]
    /\ round = [n \in Nodes |-> 0]
    /\ height = [n \in Nodes |-> 0]
    /\ pending = [n \in Nodes |-> {}]
    /\ votes = [n \in Nodes |-> {}]
    /\ chan = [r \in Nodes |-> <<>>]
    /\ pool = [n \in Nodes |-> {}]
    /\ stored = [n \in Nodes |-> [h \in Heights |->
                    IF h = 0 /\ GenesisStored THEN Genesis ELSE NoBlock]]
    /\ latest = [n \in Nodes |-> IF GenesisStored THEN 0 ELSE NoHeight]
    /\ hashIdx = [n \in Nodes |-> IF GenesisStored THEN {Genesis} ELSE {}]
    /\ txStore = [n \in Nodes |-> {}]
    /\ mpc = [n \in Nodes |-> "recv"]
    /\ cblock = [n \in Nodes |-> NoBlock]
    /\ ppc = "tick"
    /\ pblock = NoBlock
    /\ submitted = {}
    /\ crashes = 0

-----------------------------------------------------------------------------
(* A client hands transaction t to the primary's mempool (add_transaction *)
(* accepting it; its admission rules are the subject of Mempool).          *)
Submit(t) ==
    /\ t \notin submitted
    /\ pool' = [pool EXCEPT ![Leader] = @ \cup {t}]
    /\ submitted' = submitted \cup {t}
    /\ UNCHANGED <<engine, chan, stored, latest, hashIdx, txStore, mpc, cblock, ppc, pblock, crashes>>

(* Proposer loop tick: should_propose_block holds when this node leads     *)
(* view 0 and state is Idle (the block_time_ms since last_block_time,     *)
(* which is never updated, has long passed).                               *)
ShouldPropose ==
    /\ ppc = "tick"
    /\ state[Leader] = "Idle"
    /\ ppc' = "build"
    /\ UNCHANGED <<engine, chan, pool, stored, latest, hashIdx, txStore, mpc, cblock, pblock,
                   submitted, crashes>>

(* propose_block up to the broadcast: read current_round and              *)
(* current_height, take get_next_batch from the mempool (which leaves the *)
(* transactions in it) and return if it is empty; create_block reads the  *)
(* previous block from storage and fails if it is absent; otherwise       *)
(* broadcast Propose.                                                      *)
BuildAndBroadcast ==
    LET L == Leader
        b == [height |-> height[L] + 1, round |-> round[L], txs |-> pool[L]]
    IN /\ ppc = "build"
       /\ IF pool[L] = {} \/ GetBlock(L, height[L]) = NoBlock
          THEN /\ ppc' = "tick"
               /\ UNCHANGED <<chan, pblock>>
          ELSE /\ chan' = Broadcast(chan, L, [type |-> "Propose", block |-> b, from |-> L])
               /\ pblock' = b
               /\ ppc' = "insert"
       /\ UNCHANGED <<engine, pool, stored, latest, hashIdx, txStore, mpc, cblock, submitted, crashes>>

(* propose_block: pending_blocks.insert(hash, block).                      *)
InsertPending ==
    /\ ppc = "insert"
    /\ pending' = [pending EXCEPT ![Leader] = @ \cup {pblock}]
    /\ ppc' = "state"
    /\ UNCHANGED <<state, round, height, votes, chan, pool, stored, latest, hashIdx, txStore, mpc,
                   cblock, pblock, submitted, crashes>>

(* propose_block: state = Proposing, whatever the message task has set.    *)
SetProposing ==
    /\ ppc = "state"
    /\ state' = [state EXCEPT ![Leader] = "Proposing"]
    /\ ppc' = "tick"
    /\ UNCHANGED <<round, height, pending, votes, chan, pool, stored, latest, hashIdx, txStore, mpc,
                   cblock, pblock, submitted, crashes>>

-----------------------------------------------------------------------------
(* handle_propose_message of m (chan[n] is rest once m is taken): a       *)
(* proposal for another round is dropped; otherwise the block (which      *)
(* verifies) goes into pending_blocks, a Prepare vote is broadcast and     *)
(* state = Preparing.  Neither the sender nor the height is checked.       *)
HandlePropose(n, m, rest) ==
    /\ m.type = "Propose"
    /\ IF m.block.round /= round[n]
       THEN /\ chan' = [chan EXCEPT ![n] = rest]
            /\ UNCHANGED <<state, pending>>
       ELSE /\ pending' = [pending EXCEPT ![n] = @ \cup {m.block}]
            /\ chan' = Broadcast([chan EXCEPT ![n] = rest], n,
                                 [type |-> "Vote", block |-> m.block,
                                  kind |-> "Prepare", from |-> n])
            /\ state' = [state EXCEPT ![n] = "Preparing"]
    /\ UNCHANGED <<round, height, votes, pool, stored, latest, hashIdx, txStore, mpc, cblock>>

(* handle_vote_message of m (chan[n] is rest once m is taken): a vote for *)
(* another round is dropped; otherwise it replaces the voter's earlier    *)
(* vote for the block, and check_vote_threshold counts the votes of its  *)
(* kind: 2f+1 Prepares broadcast a Commit vote and set Committing, 2f+1   *)
(* Commits start commit_block.                                             *)
HandleVote(n, m, rest) ==
    LET vs == StoreVote(votes[n], m.block, m.from, m.kind)
        reached == CountVotes(vs, m.block, m.kind) >= Quorum
        ch == [chan EXCEPT ![n] = rest]
    IN /\ m.type = "Vote"
       /\ IF m.block.round /= round[n]
          THEN /\ chan' = ch
               /\ UNCHANGED <<state, votes, mpc, cblock>>
          ELSE /\ votes' = [votes EXCEPT ![n] = vs]
               /\ IF reached /\ m.kind = "Prepare"
                  THEN /\ chan' = Broadcast(ch, n, [m EXCEPT !.kind = "Commit", !.from = n])
                       /\ state' = [state EXCEPT ![n] = "Committing"]
                  ELSE /\ chan' = ch
                       /\ UNCHANGED state
               /\ IF reached /\ m.kind = "Commit"
                  THEN /\ mpc' = [mpc EXCEPT ![n] = "store"]
                       /\ cblock' = [cblock EXCEPT ![n] = m.block]
                  ELSE UNCHANGED <<mpc, cblock>>
       /\ UNCHANGED <<round, height, pending, pool, stored, latest, hashIdx, txStore>>

\* The message task of n receives the next message (process_messages) and
\* dispatches it (handle_consensus_message).
Receive(n) ==
    /\ mpc[n] = "recv"
    /\ \E i \in Deliverable(n) :
         LET m == chan[n][i]
             rest == [j \in 1..Len(chan[n]) - 1 |-> IF j < i THEN chan[n][j] ELSE chan[n][j + 1]]
         IN HandlePropose(n, m, rest) \/ HandleVote(n, m, rest)
    /\ UNCHANGED <<ppc, pblock, submitted, crashes>>

\* Faulty variant of CommitStore: put_block left out of store_block.
CommitStoreNoPut(n) ==
    LET b == cblock[n]
    IN /\ mpc[n] = "store"
       /\ mpc' = [mpc EXCEPT ![n] = IF b \in pending[n] THEN "apply" ELSE "recv"]
       /\ UNCHANGED <<engine, chan, pool, stored, latest, hashIdx, txStore, cblock, ppc, pblock, submitted, crashes>>

CommitStore(n) ==
    LET b == cblock[n]
    IN /\ mpc[n] = "store"
       /\ IF b \in pending[n]
          THEN /\ PutBlock(n, b)
               /\ PutTransactions(n, b.txs)
               /\ mpc' = [mpc EXCEPT ![n] = "apply"]
          ELSE /\ mpc' = [mpc EXCEPT ![n] = "recv"]
               /\ UNCHANGED <<stored, hashIdx, txStore>>
       /\ UNCHANGED <<engine, chan, pool, latest, cblock, ppc, pblock, submitted, crashes>>

\* Faulty variant of CommitApply: the block's transactions stay in the mempool.
CommitApplyKeepPool(n) ==
    LET b == cblock[n]
    IN /\ mpc[n] = "apply"
       /\ PutLatestHeight(n, b.height)
       /\ height' = [height EXCEPT ![n] = b.height]
       /\ pending' = [pending EXCEPT ![n] = @ \ {b}]
       /\ state' = [state EXCEPT ![n] = "Idle"]
       /\ mpc' = [mpc EXCEPT ![n] = "round"]
       /\ UNCHANGED <<round, votes, chan, pool, stored, hashIdx, txStore, cblock, ppc, pblock, submitted, crashes>>

(* commit_block, second phase: store_block's write of latest_height, then *)
(* current_height, remove_transaction for each of the block's             *)
(* transactions, pending_blocks.remove, statistics and state = Idle.      *)
CommitApply(n) ==
    LET b == cblock[n]
    IN /\ mpc[n] = "apply"
       /\ PutLatestHeight(n, b.height)
       /\ height' = [height EXCEPT ![n] = b.height]
       /\ pool' = [pool EXCEPT ![n] = @ \ b.txs]
       /\ pending' = [pending EXCEPT ![n] = @ \ {b}]
       /\ state' = [state EXCEPT ![n] = "Idle"]
       /\ mpc' = [mpc EXCEPT ![n] = "round"]
       /\ UNCHANGED <<round, votes, chan, stored, hashIdx, txStore, cblock, ppc, pblock, submitted, crashes>>

(* commit_block, last phase: current_round += 1.                          *)
CommitRound(n) ==
    /\ mpc[n] = "round"
    /\ round' = [round EXCEPT ![n] = @ + 1]
    /\ mpc' = [mpc EXCEPT ![n] = "recv"]
    /\ cblock' = [cblock EXCEPT ![n] = NoBlock]
    /\ UNCHANGED <<state, height, pending, votes, chan, pool, stored, latest, hashIdx, txStore, ppc,
                   pblock, submitted, crashes>>

(* Node n crashes and restarts: the engine is built anew from storage,    *)
(* its channel, mempool and both tasks' progress are lost; messages it   *)
(* sent before are still delivered.                                       *)
Crash(n) ==
    /\ crashes < MaxCrashes
    /\ Restart(n)
    /\ chan' = [chan EXCEPT ![n] = <<>>]
    /\ pool' = [pool EXCEPT ![n] = {}]
    /\ mpc' = [mpc EXCEPT ![n] = "recv"]
    /\ cblock' = [cblock EXCEPT ![n] = NoBlock]
    /\ ppc' = IF n = Leader THEN "tick" ELSE ppc
    /\ pblock' = IF n = Leader THEN NoBlock ELSE pblock
    /\ crashes' = crashes + 1
    /\ UNCHANGED <<stored, latest, hashIdx, txStore, submitted>>

ProposerStep == ShouldPropose \/ BuildAndBroadcast \/ InsertPending \/ SetProposing

MessageStep(n) == Receive(n) \/ CommitStore(n) \/ CommitApply(n) \/ CommitRound(n)

Next ==
    \/ \E t \in Txs : Submit(t)
    \/ ProposerStep
    \/ \E n \in Nodes : MessageStep(n) \/ Crash(n)

\* Both tokio tasks of every engine are runnable whenever they have work and
\* the runtime keeps polling them: weak fairness for each.
Fairness ==
    /\ WF_vars(ProposerStep)
    /\ \A n \in Nodes : WF_vars(MessageStep(n))

Spec == Init /\ [][Next]_vars /\ Fairness

-----------------------------------------------------------------------------
(***************************************************************************)
(* Properties                                                              *)
(***************************************************************************)

TypeOK ==
    /\ state \in [Nodes -> States]
    /\ round \in [Nodes -> Nat]
    /\ height \in [Nodes -> Heights]
    /\ pending \in [Nodes -> SUBSET Blocks]
    /\ votes \in [Nodes -> SUBSET (Blocks \X Nodes \X {"Prepare", "Commit"})]
    /\ chan \in [Nodes -> Seq(Messages)]
    /\ pool \in [Nodes -> SUBSET Txs]
    /\ stored \in [Nodes -> [Heights -> Blocks \cup {NoBlock}]]
    /\ latest \in [Nodes -> Heights \cup {NoHeight}]
    /\ hashIdx \in [Nodes -> SUBSET Blocks]
    /\ txStore \in [Nodes -> SUBSET Txs]
    /\ mpc \in [Nodes -> {"recv", "store", "apply", "round"}]
    /\ ppc \in {"tick", "build", "insert", "state"}
    /\ submitted \subseteq Txs

\* Agreement on the ledger (spec 8): two validators never store different
\* blocks at the same height.  Votes are matched by (view, round, hash)
\* only, a proposal's height and sender are not checked, and
\* ConsensusEngine::new restarts current_round at 0: once both validators
\* have restarted, the primary (height 0 if it crashed before storing the
\* block its peer committed) proposes a new block for height 1 in round
\* 0, and the follower, at round 0 again, prepares and commits it.
StorageAgreement ==
    \A n, m \in Nodes, h \in Heights :
        stored[n][h] /= NoBlock /\ stored[m][h] /= NoBlock
            => stored[n][h] = stored[m][h]

\* The chain of committed blocks as latest_height and the block store of
\* node n describe it: the blocks at heights 1..latest_height.
ChainOf(n) == IF latest[n] = NoHeight THEN <<>>
              ELSE [i \in 1..latest[n] |-> stored[n][i]]

Ledger == INSTANCE Chain WITH chains <- [n \in Nodes |-> ChainOf(n)],
                             Owners <- Nodes, Blk <- Blocks

\* The stores implement Chain (spec 2 and 8): each committed chain only
\* grows, one block of the next height at a time, and a committed block
\* is never replaced.  store_block writes the block before latest_height,
\* a restarted engine takes its height from latest_height and put_block
\* overwrites whatever is stored at a height; after the two restarts that
\* break StorageAgreement the follower overwrites its committed block 1.
ChainRefinement == Ledger!Spec

\* Every transaction handed to the primary is eventually in a block of its
\* store (spec 4.5: the proposer loop proposes whenever it is Idle and the
\* mempool is non-empty, and a commit returns the engine to Idle).
Committed(t) == \E h \in Heights : t \in stored[Leader][h].txs

Progress == \A t \in Txs : t \in submitted ~> Committed(t)

\* The Prepare votes of node n for block b in channels c (every broadcast
\* of n reaches n itself).
PrepareCount(c, n, b) ==
    Cardinality({i \in DOMAIN c[n] :
                    c[n][i] = [type |-> "Vote", block |-> b, kind |-> "Prepare", from |-> n]})

\* A validator votes only for a block that passes validation (spec 7:
\* "Validation failure ... reject block/tx; do not vote"): whenever a node
\* broadcasts a Prepare for a block, Validator::validate_block's structure,
\* height and chain checks accept the block against that node's store.
\* handle_propose_message checks only block.verify() and the round, so the
\* property rests on the round tracking the committed height through
\* commits, crashes and restarts.
VotedBlocksValid ==
    [][\A n \in Nodes, b \in Blocks :
         PrepareCount(chan', n, b) > PrepareCount(chan, n, b) => ValidateBlock(n, b)]_vars

\* latest_height always names a block the store holds, also after a crash
\* at any point of commit_block: store_block writes the block before the
\* height, and create_block of a restarted engine reads the block at
\* latest_height.
LatestBlockStored ==
    \A n \in Nodes : latest[n] /= NoHeight => stored[n][latest[n]] /= NoBlock

\* The engine's round is the consensus sequence and tracks the committed
\* height (spec 4.5, startup: "set current_sequence = last_committed_height
\* + 1"; glossary: the sequence is one-to-one with block height): between
\* two messages every node's round equals its height above genesis.
\* ConsensusEngine::new starts current_round at 0 whatever the store holds.
RoundTracksHeight ==
    \A n \in Nodes : mpc[n] = "recv" => round[n] = height[n]

HashIndexSound ==
    \A n \in Nodes : \A b \in hashIdx[n] : GetBlockByHash(n, b) = b

\* A transaction the JSON-RPC reports "confirmed" lies in a block that the
\* same node's store holds at some height.  store_block writes the
\* transactions with the block, put_block may later overwrite that height
\* (after the two restarts that break StorageAgreement), and the
\* transaction store keeps every transaction it was given.
ConfirmedTxInBlock ==
    \A n \in Nodes, t \in Txs :
        ApiGetTransaction(n, t) = "confirmed" =>
            \E h \in Heights : t \in GetBlock(n, h).txs

\* No transaction is in two blocks of one store (spec 8: each included
\* transaction carries the sender's next nonce, so it is applied once).
\* commit_block removes a block's transactions from the mempool only after
\* store_block, the primary's proposer reads the mempool in between, and a
\* restarted primary has lost its mempool while its store may hold a
\* block above latest_height.
NoDoubleInclusion ==
    \A n \in Nodes, h1, h2 \in Heights :
        h1 /= h2 => stored[n][h1].txs \cap stored[n][h2].txs = {}

\* get_latest_block, which the JSON-RPC status reads, agrees with
\* get_latest_height: the highest block in the store is the committed one.
LatestBlockAgrees ==
    \A n \in Nodes : latest[n] /= NoHeight => GetLatestBlock(n) = stored[n][latest[n]]

====
