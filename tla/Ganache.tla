------------------------------ MODULE Ganache ------------------------------
(* The ganache node: transaction pool, miner, the saving of blocks, and      *)
(* evm_snapshot / evm_revert.  A step runs from one await on I/O (an account *)
(* read, a vm.runTx, a database batch, a timer) to the next; what JavaScript *)
(* runs in one turn of the event loop is one step, or steps that nothing but *)
(* each other can come between (Urgent).                                     *)
EXTENDS Naturals, Sequences, FiniteSets, TLC, SequencesExt

CONSTANTS
    Origins,         \* accounts that send transactions
    Txs,             \* transactions a client may send (each is one request)
    Calls,           \* other requests, and the timer of interval mining
    From,            \* [Txs -> Origins]
    NonceField,      \* [Txs -> Nat \cup {None}], None: ganache fills it in
    Price,           \* [Txs -> Nat], the effective gas price
    Gas,             \* [Txs -> Nat], the gas a transaction uses
    Failing,         \* transactions vm.runTx throws on
    Kind,            \* [Calls -> CallKinds]
    BlockGasLimit, TxGas,  \* miner.blockGasLimit and Params.TRANSACTION_GAS
    Configs,         \* the options of a node and the requests its client sends
    MaxBlocks,       \* bound on the blocks the timer makes
    None

CallKinds == {"mine", "snapshot", "revert", "stop", "start", "timer"}
Requests == Txs \cup Calls

ASSUME GanacheAssumption ==
    /\ From \in [Txs -> Origins] /\ NonceField \in [Txs -> Nat \cup {None}]
    /\ Price \in [Txs -> Nat \ {0}] /\ Gas \in [Txs -> Nat] /\ Failing \subseteq Txs
    /\ \A t \in Txs : TxGas <= Gas[t] /\ Gas[t] <= BlockGasLimit
    /\ Kind \in [Calls -> CallKinds]
    /\ \A c \in Configs :
          /\ c.mode \in {"eager", "strict", "interval"} /\ c.limit \in Nat
          /\ c.sends \subseteq Requests
    /\ Txs \cap Calls = {} /\ None \notin Nat /\ MaxBlocks \in Nat

VARIABLES
    opt,       \* the configuration, fixed when the node starts
    rpc,       \* the stage of every request and the block it waits for
    pool,      \* TransactionPool, the nonces given out and the verdicts
    fifo,      \* TransactionManager's queue: insertions in order of arrival
    miner,     \* Miner, with the calls that wait for `resume'
    vm,        \* the nonces in the VM's state
    chain,     \* every block made, those being saved, `latest' and the database
    snaps,     \* #snapshots and the revert in progress
    stopped    \* Status.paused

vars == <<opt, rpc, pool, fifo, miner, vm, chain, snaps, stopped>>

Instamine == opt.mode # "interval"

-----------------------------------------------------------------------------
(* Blocks are named by the order they are made: block i is chain.made[i].    *)

Block(number, parent, txs, nonces) ==
    [number |-> number, parent |-> parent, txs |-> txs, nonces |-> nonces]

IdleMiner ==
    [busy |-> FALSE, again |-> FALSE, paused |-> FALSE, priced |-> {},
     origins |-> {}, locked |-> {}, best |-> None, price |-> 0, keep |-> FALSE,
     block |-> None, waiting |-> <<>>]

Init ==
    /\ opt \in Configs
    /\ rpc = [stage |-> [r \in Requests |-> "unsent"],
              until |-> [r \in Requests |-> 0]]
    /\ pool = [pending |-> [o \in Origins |-> <<>>],
               queued  |-> [o \in Origins |-> <<>>],
               reader  |-> [o \in Origins |-> None],
               reads   |-> <<>>,
               nonce   |-> NonceField,
               placed  |-> [t \in Txs |-> None],
               verdict |-> [t \in Txs |-> None]]
    /\ fifo = <<>>
    /\ miner = IdleMiner
    /\ vm = [o \in Origins |-> 0]
    /\ chain = [made |-> <<Block(0, 0, <<>>, [o \in Origins |-> 0])>>,
                saving |-> <<>>, unannounced |-> <<>>, latest |-> 1,
                byNumber |-> 0 :> 1, receipts |-> {}]
    /\ snaps = [taken |-> <<>>, blocks |-> <<>>, stage |-> None, target |-> 0,
                until |-> 0, delete |-> <<>>, txsPaused |-> FALSE]
    /\ stopped = FALSE

(* blockBeingSavedPromise, as it was when block b was the last one made.     *)
SavedUpTo(b) == chain.saving # <<>> => Head(chain.saving) > b

-----------------------------------------------------------------------------
(* The pool.  A heap by nonce is a sequence; its best entry is the first of  *)
(* lowest nonce.                                                             *)

BestIndex(p, heap) ==
    CHOOSE i \in DOMAIN heap :
        \A j \in DOMAIN heap :
            \/ p.nonce[heap[i]] < p.nonce[heap[j]]
            \/ p.nonce[heap[i]] = p.nonce[heap[j]] /\ i <= j

Best(p, heap) == heap[BestIndex(p, heap)]

HighestNonce(p, heap) ==
    LET ns == {p.nonce[t] : t \in ToSet(heap)} \cup {0}
    IN  CHOOSE n \in ns : \A m \in ns : m <= n

(* The promise `finalized' resolves once.                                    *)
Finalize(p, ts, verdict) ==
    [p EXCEPT !.verdict = [t \in Txs |->
        IF t \in ts /\ p.verdict[t] = None THEN verdict ELSE p.verdict[t]]]

SameNonce(p, heap, n) == {i \in DOMAIN heap : p.nonce[heap[i]] = n}

(* Fault: the lock is not looked at.                                         *)
Replaceable_Locked(old, t) == Price[t] > Price[old]

(* shouldReplace throws for a locked transaction and for a price that is not *)
(* high enough.                                                              *)
Replaceable(old, t) == old \notin miner.locked /\ Price[t] > Price[old]

Place(p, t, where) == [p EXCEPT !.placed[t] = where]

(* The queued transactions that follow nonce n without a gap, if the best of *)
(* them does.                                                                *)
Follow(p, heap, n) ==
    {t \in ToSet(heap) :
        /\ \A m \in (n + 1)..p.nonce[t] : SameNonce(p, heap, m) # {}
        /\ \A u \in ToSet(heap) : p.nonce[u] > n}

(* Case Executable: push, and pull what waited for this nonce.               *)
Executable(p, t, n) ==
    LET o     == From[t]
        moved == Follow(p, p.queued[o], n)
    IN  Place([p EXCEPT
                  !.nonce[t] = n,
                  !.pending[o] = Append(@, t) \o
                      SetToSortSeq(moved, LAMBDA a, b : p.nonce[a] < p.nonce[b]),
                  !.queued[o] = SelectSeq(@, LAMBDA u : u \notin moved)],
              t, "executable")

Queue(p, t, n) ==
    LET o    == From[t]
        heap == p.queued[o]
        same == SameNonce(p, heap, n)
        i    == CHOOSE j \in same : TRUE
    IN  IF same = {} THEN Place([p EXCEPT !.queued[o] = Append(@, t)], t, "future")
        ELSE IF Replaceable(heap[i], t)
             THEN Place(Finalize([p EXCEPT !.queued[o][i] = t], {heap[i]}, "rejected"),
                        t, "future")
             ELSE Place(p, t, "error")

(* A transaction of the same nonce is replaced in place; if the nonce is one *)
(* above those the loop has met by then, the new one is pushed a second time.*)
Replace(p, t, i) ==
    LET o == From[t]
        n == p.nonce[t]
        q == Finalize([p EXCEPT !.pending[o][i] = t], {p.pending[o][i]}, "rejected")
    IN  IF ~Replaceable(p.pending[o][i], t) THEN Place(p, t, "error")
        ELSE IF n = HighestNonce(p, SubSeq(p.pending[o], 1, i - 1)) + 1
             THEN Executable(q, t, n)
             ELSE Place(q, t, "executable")

(* prepareTransaction once the account is read: triage by nonce, against the *)
(* executable transactions of the origin or, without any, its account.       *)
Prepare(p, t, accountNonce) ==
    LET heap == p.pending[From[t]]
        n    == p.nonce[t]
        same == SameNonce(p, heap, n)
        next == IF heap = <<>> THEN accountNonce ELSE HighestNonce(p, heap) + 1
    IN  IF n = None THEN Executable(p, t, next)
        ELSE IF same # {} THEN Replace(p, t, CHOOSE i \in same : \A j \in same : i <= j)
        ELSE IF n = next THEN Executable(p, t, n)
        ELSE IF heap = <<>> /\ n < next THEN Place(p, t, "error")
        ELSE Queue(p, t, n)

-----------------------------------------------------------------------------
(* The miner's heap by price.                                                *)

Heads(p) == {Best(p, p.pending[o]) : o \in {x \in Origins : p.pending[x] # <<>>}}

Enter(m, ts) ==
    [m EXCEPT !.priced = @ \cup ts, !.locked = @ \cup ts,
              !.origins = @ \cup {From[t] : t \in ts}]

SetPriced(m, p) == Enter(m, Heads(p) \ m.locked)

(* The test `#currentlyExecutingPrice > price' keeps the cheaper ones out.   *)
UpdatePriced(m, p) ==
    Enter(m, {t \in Heads(p) \ m.locked : m.price <= Price[t] /\ From[t] \notin m.origins})

(* Fault: the locks are left as they are.                                    *)
Reset_KeepsLocks(m) == [m EXCEPT !.origins = {}, !.priced = {}, !.busy = FALSE]

Reset(m) ==
    [m EXCEPT !.origins = {}, !.locked = @ \ m.priced, !.priced = {}, !.busy = FALSE]

Dearest(ts) == {t \in ts : \A u \in ts : Price[u] <= Price[t]}

(* The block is full when too little gas is left, or by its count.           *)
Full(b) == b.txs # <<>> /\ (b.gas <= TxGas \/ Len(b.txs) = b.max)

(* priced.peek(): the transaction to run next, None when the block is done.  *)
Peek(m) ==
    IF m.priced = {} \/ Full(m.block) THEN {[m EXCEPT !.best = None]}
    ELSE {[m EXCEPT !.best = t, !.price = Price[t]] : t \in Dearest(m.priced)}

RuntimeBlock(call, number) ==
    [parent |-> call.parent, number |-> number, txs |-> <<>>, gas |-> BlockGasLimit,
     max |-> call.max, one |-> call.one, who |-> call.who]

StartBlock(m, call, number) ==
    Peek([m EXCEPT !.busy = TRUE, !.keep = FALSE, !.block = RuntimeBlock(call, number)])

(* Blockchain.mine: the block is built on `latest' before the miner is asked.*)
Call(max, one, who) == [parent |-> chain.latest, max |-> max, one |-> one, who |-> who]

(* Fault: a busy miner takes in the transactions, and forgets the call.      *)
Mine_NotPending(p, m, call) ==
    IF m.busy THEN {UpdatePriced(m, p)}
    ELSE StartBlock(SetPriced(m, p), call, chain.made[call.parent].number + 1)

(* Miner.mine once it is not paused.                                         *)
Mine(p, m, call) ==
    IF m.busy THEN {UpdatePriced([m EXCEPT !.again = TRUE], p)}
    ELSE StartBlock(SetPriced(m, p), call, chain.made[call.parent].number + 1)

(* miner' for a call of Blockchain.mine, with the caller's stage after it.   *)
Asked(p, call) ==
    IF miner.paused THEN {[miner EXCEPT !.waiting = Append(@, call)]}
    ELSE Mine(p, miner, call)

AskedStage(r, who) ==
    IF who = None THEN r
    ELSE IF miner.busy /\ ~miner.paused
         THEN [r EXCEPT !.stage[who] = "saving", !.until[who] = Len(chain.made)]
         ELSE [r EXCEPT !.stage[who] = "mining"]

-----------------------------------------------------------------------------
(* Requests.                                                                 *)

Active == {r \in Requests : rpc.stage[r] \notin {"unsent", "answered", "failed"}}

(* What runs in the same turn of the event loop as the step before it.       *)
FifoReady == fifo # <<>> /\ rpc.stage[Head(fifo)] = "placed"
Urgent == FifoReady \/ (~miner.paused /\ miner.waiting # <<>>)

(* RequestCoordinator: asyncRequestProcessing = false is a limit of one.     *)
Dispatched(r) ==
    /\ ~Urgent
    /\ r \in opt.sends /\ rpc.stage[r] = "unsent"
    /\ opt.limit # 0 =>
          Cardinality({x \in Active : x \in Calls => Kind[x] # "timer"}) < opt.limit

Stage(r, s) == [rpc EXCEPT !.stage[r] = s]

(* TransactionManager.add: the account is read once for all insertions of    *)
(* the origin that arrive meanwhile.                                         *)
StartRead(t) ==
    LET o      == From[t]
        leader == IF pool.reader[o] = None THEN t ELSE pool.reader[o]
    IN  /\ pool' = [pool EXCEPT
               !.reader[o] = leader,
               !.reads = Append(@, [tx |-> t, leader |-> leader,
                                    nonce |-> chain.made[chain.latest].nonces[o]])]
        /\ fifo' = Append(fifo, t)
        /\ rpc' = Stage(t, "reading")

SendTransaction(t) ==
    /\ Dispatched(t)
    /\ IF snaps.txsPaused THEN rpc' = Stage(t, "held") /\ UNCHANGED <<pool, fifo>>
       ELSE StartRead(t)
    /\ UNCHANGED <<opt, miner, vm, chain, snaps, stopped>>

Released(t) ==
    /\ rpc.stage[t] = "held" /\ ~snaps.txsPaused
    /\ StartRead(t)
    /\ UNCHANGED <<opt, miner, vm, chain, snaps, stopped>>

(* The account is read: its insertions are placed in order of arrival, all   *)
(* with the nonce read by the first of them.  #accountPromises forgets the   *)
(* origin, whatever promise it holds by then.                                *)
ReadDone(leader) ==
    LET mine  == SelectSeq(pool.reads, LAMBDA r : r.leader = leader)
        done  == {mine[i].tx : i \in DOMAIN mine}
    IN  /\ ~Urgent
        /\ mine # <<>>
        /\ LET p == FoldLeft(LAMBDA q, r : Prepare(q, r.tx, mine[1].nonce), pool, mine)
           IN  pool' = [p EXCEPT
                   !.reads = SelectSeq(@, LAMBDA r : r.leader # leader),
                   !.reader[From[leader]] = None]
        /\ rpc' = [rpc EXCEPT !.stage = [r \in Requests |->
                      IF r \in done THEN "placed" ELSE @[r]]]
        /\ UNCHANGED <<opt, fifo, miner, vm, chain, snaps, stopped>>

(* queueTransaction after the insertion: interval and strict mode, and a     *)
(* stopped miner, answer at once.                                            *)
InsertedStage(t) ==
    IF pool.placed[t] = "error" THEN "failed"
    ELSE IF stopped \/ opt.mode # "eager" THEN "answered" ELSE "waiting"

(* The insertion at the head of the queue returns; an executable one drains. *)
Inserted ==
    /\ FifoReady
    /\ LET t == Head(fifo) IN
       /\ rpc' = Stage(t, InsertedStage(t))
       /\ IF pool.placed[t] = "executable" /\ Instamine /\ ~stopped
          THEN miner' \in Asked(pool, Call(1, FALSE, None))
          ELSE UNCHANGED miner
    /\ fifo' = Tail(fifo)
    /\ UNCHANGED <<opt, pool, vm, chain, snaps, stopped>>

(* An insertion that `clear' took out of the queue returns false: whatever   *)
(* it put into the pool is not drained.                                      *)
Cancelled(t) ==
    /\ rpc.stage[t] = "placed" /\ t \notin ToSet(fifo)
    /\ rpc' = Stage(t, InsertedStage(t))
    /\ UNCHANGED <<opt, pool, fifo, miner, vm, chain, snaps, stopped>>

(* Eager mode answers when the transaction is finalized.                     *)
Finalized(t) ==
    /\ rpc.stage[t] = "waiting" /\ pool.verdict[t] # None
    /\ rpc' = Stage(t, IF pool.verdict[t] = "confirmed" THEN "answered" ELSE "failed")
    /\ UNCHANGED <<opt, pool, fifo, miner, vm, chain, snaps, stopped>>

(* evm_mine.                                                                 *)
EvmMine(r) ==
    /\ Kind[r] = "mine"
    /\ Dispatched(r)
    /\ miner' \in Asked(pool, Call(0, TRUE, r))
    /\ rpc' = AskedStage(rpc, r)
    /\ UNCHANGED <<opt, pool, fifo, vm, chain, snaps, stopped>>

(* Interval mining: the timer is set again once `mine' has returned.  It     *)
(* does not pass the RequestCoordinator: it fires beside any request.        *)
Timer(r) ==
    /\ Kind[r] = "timer"
    /\ opt.mode = "interval" /\ ~stopped /\ Len(chain.made) < MaxBlocks
    /\ ~Urgent
    /\ r \in opt.sends /\ rpc.stage[r] = "unsent"
    /\ miner' \in Asked(pool, Call(0, TRUE, r))
    /\ rpc' = AskedStage(rpc, r)
    /\ UNCHANGED <<opt, pool, fifo, vm, chain, snaps, stopped>>

(* Fault: `mine' does not wait for the saving of what it made.               *)
Mined_NoWait(r) ==
    /\ rpc.stage[r] = "saving" /\ ~Urgent
    /\ rpc' = Stage(r, IF Kind[r] = "timer" THEN "unsent" ELSE "answered")
    /\ UNCHANGED <<opt, pool, fifo, miner, vm, chain, snaps, stopped>>

(* The caller of Blockchain.mine goes on when the last block is saved.       *)
Mined(r) ==
    /\ rpc.stage[r] = "saving" /\ SavedUpTo(rpc.until[r]) /\ ~Urgent
    /\ rpc' = Stage(r, IF Kind[r] = "timer" THEN "unsent" ELSE "answered")
    /\ UNCHANGED <<opt, pool, fifo, miner, vm, chain, snaps, stopped>>

MinerStop(r) ==
    /\ Kind[r] = "stop" /\ Dispatched(r)
    /\ stopped' = TRUE
    /\ rpc' = Stage(r, "answered")
    /\ UNCHANGED <<opt, pool, fifo, miner, vm, chain, snaps>>

(* resume mines at once in the instamine modes; only eager waits for it.     *)
MinerStart(r) ==
    /\ Kind[r] = "start" /\ Dispatched(r)
    /\ stopped' = FALSE
    /\ LET who == IF opt.mode = "eager" THEN r ELSE None IN
       IF stopped /\ Instamine
       THEN /\ miner' \in Asked(pool, Call(0, FALSE, who))
            /\ rpc' = AskedStage(Stage(r, "answered"), who)
       ELSE UNCHANGED miner /\ rpc' = Stage(r, "answered")
    /\ UNCHANGED <<opt, pool, fifo, vm, chain, snaps>>

-----------------------------------------------------------------------------
(* The miner's loop.                                                         *)

(* A paused call goes on with the block it was given before.                 *)
MinerResumed ==
    /\ ~miner.paused /\ miner.waiting # <<>>
    /\ LET call == Head(miner.waiting)
           m    == [miner EXCEPT !.waiting = Tail(@)]
       IN  /\ miner' \in Mine(pool, m, call)
           /\ rpc' = AskedStage(rpc, call.who)
    /\ UNCHANGED <<opt, pool, fifo, vm, chain, snaps, stopped>>

(* The top of the heap now: a dearer transaction may have come in since.     *)
Top(m) ==
    IF \E t \in m.priced : Price[t] > Price[m.best]
    THEN CHOOSE t \in m.priced : t \in Dearest(m.priced) ELSE m.best

WithoutTop(m) == [m EXCEPT !.priced = @ \ {Top(m)}]

WithoutTopAndOrigin(m, o) == [WithoutTop(m) EXCEPT !.origins = @ \ {o}]

(* The executed transaction leaves the pool, the next of its origin takes    *)
(* the top of the heap.                                                      *)
Advance(m, p, o) ==
    IF p.pending[o] = <<>> THEN WithoutTopAndOrigin(m, o)
    ELSE LET next == Best(p, p.pending[o])
         IN  [WithoutTop(m) EXCEPT !.priced = @ \cup {next},
                                   !.locked = @ \cup {next}]

Unpooled(p, o) == [p EXCEPT !.pending[o] = RemoveAt(@, BestIndex(p, @))]

RunsTx(t) == pool.nonce[t] = vm[From[t]] /\ t \notin Failing

(* vm.runTx succeeds and the transaction fits. removeBest takes the top of   *)
(* the origin's heap in the pool, which is another transaction, or none,     *)
(* only if a dearer one of another origin has come in (ExecutingIsBest):     *)
(* that is not followed further.                                             *)
TxMined ==
    /\ ~Urgent
    /\ miner.best # None
    /\ LET t == miner.best
           o == From[t]
           p == Unpooled(pool, o)
           b == [miner.block EXCEPT !.txs = Append(@, t), !.gas = @ - Gas[t]]
           m == Advance(miner, p, o)
       IN  /\ RunsTx(t) /\ Gas[t] <= miner.block.gas
           /\ pool.pending[o] # <<>>
           /\ pool' = p
           /\ vm' = [vm EXCEPT ![o] = @ + 1]
           /\ miner' \in Peek([m EXCEPT !.block = b, !.keep = m.priced # {}])
    /\ UNCHANGED <<opt, rpc, fifo, chain, snaps, stopped>>

(* It does not fit: the origin stays among #origins.                         *)
TxTooLarge ==
    /\ ~Urgent
    /\ miner.best # None
    /\ RunsTx(miner.best) /\ Gas[miner.best] > miner.block.gas
    /\ LET m == WithoutTop([miner EXCEPT !.locked = @ \ {miner.best}])
       IN  miner' \in Peek([m EXCEPT !.keep = m.priced # {}])
    /\ UNCHANGED <<opt, rpc, pool, fifo, vm, chain, snaps, stopped>>

(* vm.runTx throws.                                                          *)
TxRejected ==
    /\ ~Urgent
    /\ miner.best # None
    /\ LET t == miner.best
           o == From[t]
           p == Unpooled(pool, o)
       IN  /\ ~RunsTx(t)
           /\ pool.pending[o] # <<>>
           /\ pool' = Finalize(p, {t}, "rejected")
           /\ miner' \in Peek(Advance(miner, p, o))
    /\ UNCHANGED <<opt, rpc, fifo, vm, chain, snaps, stopped>>

(* What the do-while loop leaves when a block is done.                       *)
AfterBlock(m, p) ==
    LET free == [m EXCEPT !.price = 0] IN
    IF m.block.one THEN Reset(free)
    ELSE LET u == UpdatePriced(free, p) IN IF u.priced = {} THEN Reset(u) ELSE u

(* The block is emitted and queued for saving, and the loop goes on: with    *)
(* another block, with the calls that came meanwhile (#pending), or idle.    *)
BlockMade ==
    /\ ~Urgent
    /\ miner.busy /\ miner.best = None /\ miner.block # None
    /\ LET b    == miner.block
           new  == Len(chain.made) + 1
           call == [parent |-> new, max |-> b.max, one |-> b.one, who |-> b.who]
           m    == AfterBlock(miner, pool)
           loop == ~b.one /\ m.keep
           s    == IF m.again THEN [SetPriced(m, pool) EXCEPT !.again = FALSE] ELSE m
           more == m.again /\ ~b.one /\ s.priced # {}
           ends == ~loop /\ ~more
       IN  /\ chain' = [chain EXCEPT
                  !.made = Append(@, Block(b.number, b.parent, b.txs, vm)),
                  !.saving = Append(@, new),
                  !.latest = IF chain.saving = <<>> THEN new ELSE @]
           /\ miner' \in IF loop THEN
                             IF m.priced # {} THEN StartBlock(m, call, b.number + 1)
                             ELSE StartBlock(m, [call EXCEPT !.parent = b.parent], b.number)
                         ELSE IF more THEN StartBlock(s, call, b.number + 1)
                         ELSE {[s EXCEPT !.block = None]}
           /\ rpc' = IF ends /\ b.who # None
                     THEN [rpc EXCEPT !.stage[b.who] = "saving", !.until[b.who] = new]
                     ELSE rpc
           /\ snaps' = IF ends /\ snaps.stage = "miner"
                       THEN [snaps EXCEPT !.stage = "save", !.until = new] ELSE snaps
    /\ UNCHANGED <<opt, pool, fifo, vm, stopped>>

-----------------------------------------------------------------------------
(* Saving: one batch per block, in the order the blocks were made; the save  *)
(* of the next one sets `latest' when it starts.                             *)

Announced(s, b) ==
    IF s.taken = <<>> THEN s ELSE [s EXCEPT !.blocks = <<b>> \o @]

BlockSaved ==
    /\ ~Urgent
    /\ chain.saving # <<>>
    /\ LET b     == Head(chain.saving)
           rest  == Tail(chain.saving)
           block == chain.made[b]
       IN  /\ chain' = [chain EXCEPT
                  !.saving = rest,
                  !.latest = IF rest = <<>> THEN @ ELSE Head(rest),
                  !.byNumber = (block.number :> b) @@ @,
                  !.receipts = @ \cup ToSet(block.txs),
                  !.unannounced = IF opt.mode = "eager" THEN Append(@, b) ELSE @]
           /\ pool' = Finalize(pool, ToSet(block.txs), "confirmed")
           /\ snaps' = IF opt.mode = "eager" THEN snaps ELSE Announced(snaps, b)
    /\ UNCHANGED <<opt, rpc, fifo, miner, vm, stopped>>

(* Eager mode announces a block in a later turn (setImmediate).              *)
Announce ==
    /\ ~Urgent
    /\ chain.unannounced # <<>>
    /\ snaps' = Announced(snaps, Head(chain.unannounced))
    /\ chain' = [chain EXCEPT !.unannounced = Tail(@)]
    /\ UNCHANGED <<opt, rpc, pool, fifo, miner, vm, stopped>>

-----------------------------------------------------------------------------
(* evm_snapshot and evm_revert.                                              *)

(* Fault: the snapshot is of the block to come.                              *)
Snapshot_NextBlock(r) ==
    /\ Kind[r] = "snapshot" /\ Dispatched(r)
    /\ snaps' = [snaps EXCEPT !.taken = Append(@, Len(chain.made) + 1)]
    /\ rpc' = Stage(r, "answered")
    /\ UNCHANGED <<opt, pool, fifo, miner, vm, chain, stopped>>

Snapshot(r) ==
    /\ Kind[r] = "snapshot" /\ Dispatched(r)
    /\ snaps' = [snaps EXCEPT !.taken = Append(@, chain.latest)]
    /\ rpc' = Stage(r, "answered")
    /\ UNCHANGED <<opt, pool, fifo, miner, vm, chain, stopped>>

(* Both the insertions and the miner are paused; a busy miner is waited for. *)
(* Bound: one revert at a time.  The code would let a second one in.         *)
Revert(r) ==
    /\ Kind[r] = "revert" /\ Dispatched(r)
    /\ snaps.stage = None
    /\ \E id \in DOMAIN snaps.taken :
          snaps' = [snaps EXCEPT !.stage = IF miner.busy THEN "miner" ELSE "save",
                       !.until = Len(chain.made), !.target = id, !.txsPaused = TRUE]
    /\ miner' = [miner EXCEPT !.paused = TRUE]
    /\ rpc' = Stage(r, "reverting")
    /\ UNCHANGED <<opt, pool, fifo, vm, chain, stopped>>

Resumed(m, s) ==
    /\ miner' = [m EXCEPT !.paused = FALSE]
    /\ snaps' = [s EXCEPT !.stage = None, !.txsPaused = FALSE]
    /\ rpc' = [rpc EXCEPT !.stage = [x \in Requests |->
                  IF @[x] = "reverting" THEN "answered" ELSE @[x]]]

(* The pool is cleared and the snapshots from the target on are dropped; the *)
(* blocks announced since are the ones to delete.                            *)
RevertSaved ==
    /\ ~Urgent
    /\ snaps.stage = "save" /\ SavedUpTo(snaps.until)
    /\ pool' = [pool EXCEPT !.pending = [o \in Origins |-> <<>>],
                            !.queued  = [o \in Origins |-> <<>>],
                            !.reader  = [o \in Origins |-> None]]
    /\ fifo' = <<>>
    /\ LET target == snaps.taken[snaps.target]
           older  == {i \in DOMAIN snaps.blocks : snaps.blocks[i] = target}
           cut    == IF older = {} THEN Len(snaps.blocks)
                     ELSE (CHOOSE i \in older : TRUE) - 1
           s      == [snaps EXCEPT !.taken = SubSeq(@, 1, snaps.target - 1)]
       IN  IF chain.latest = target THEN Resumed(miner, s)
           ELSE /\ snaps' = [s EXCEPT !.stage = "delete", !.target = target,
                                !.delete = SubSeq(s.blocks, 1, cut),
                                !.blocks = SubSeq(@, cut + 1, Len(@))]
                /\ UNCHANGED <<miner, rpc>>
    /\ UNCHANGED <<opt, vm, chain, stopped>>

(* Fault: the receipts of the deleted blocks stay.                           *)
RevertDeleted_ReceiptsStay ==
    /\ ~Urgent
    /\ snaps.stage = "delete"
    /\ LET numbers == {chain.made[b].number : b \in ToSet(snaps.delete)}
       IN  chain' = [chain EXCEPT
               !.byNumber = [n \in DOMAIN @ \ numbers |-> @[n]],
               !.latest = snaps.target]
    /\ vm' = chain.made[snaps.target].nonces
    /\ Resumed(miner, [snaps EXCEPT !.delete = <<>>])
    /\ UNCHANGED <<opt, pool, fifo, stopped>>

(* One batch deletes the blocks found under the numbers of those listed.     *)
RevertDeleted ==
    /\ ~Urgent
    /\ snaps.stage = "delete"
    /\ LET numbers == {chain.made[b].number : b \in ToSet(snaps.delete)}
           gone    == UNION {ToSet(chain.made[chain.byNumber[n]].txs) : n \in numbers}
       IN  chain' = [chain EXCEPT
               !.byNumber = [n \in DOMAIN @ \ numbers |-> @[n]],
               !.receipts = @ \ gone,
               !.latest = snaps.target]
    /\ vm' = chain.made[snaps.target].nonces
    /\ Resumed(miner, [snaps EXCEPT !.delete = <<>>])
    /\ UNCHANGED <<opt, pool, fifo, stopped>>

-----------------------------------------------------------------------------
Request(r) ==
    \/ r \in Txs /\ SendTransaction(r)
    \/ r \in Calls /\ (\/ EvmMine(r) \/ MinerStop(r) \/ MinerStart(r)
                       \/ Snapshot(r) \/ Revert(r))

Insertion(t) == Released(t) \/ ReadDone(t) \/ Cancelled(t) \/ Finalized(t)

Node ==
    \/ Inserted \/ MinerResumed
    \/ TxMined \/ TxTooLarge \/ TxRejected \/ BlockMade
    \/ BlockSaved \/ Announce \/ RevertSaved \/ RevertDeleted

Next ==
    \/ \E r \in Requests : Request(r)
    \/ \E t \in Txs : Insertion(t)
    \/ \E r \in Calls : Timer(r) \/ Mined(r)
    \/ Node

(* Every await is answered and every timer fires; no client owes a request.  *)
Fairness ==
    /\ WF_vars(Node)
    /\ \A t \in Txs : WF_vars(Insertion(t))
    /\ \A r \in Calls : WF_vars(Timer(r)) /\ WF_vars(Mined(r))

Spec == Init /\ [][Next]_vars /\ Fairness

-----------------------------------------------------------------------------
(* Properties.                                                               *)

InPool(t) == t \in ToSet(pool.pending[From[t]])

Stages == {"unsent", "held", "reading", "placed", "waiting", "mining", "saving",
           "reverting", "answered", "failed"}

(* Every variable keeps its type.                                            *)
TypeOK ==
    /\ opt \in Configs
    /\ \A r \in Requests : rpc.stage[r] \in Stages /\ rpc.until[r] \in Nat
    /\ \A o \in Origins :
          /\ pool.pending[o] \in Seq(Txs) /\ pool.queued[o] \in Seq(Txs)
          /\ pool.reader[o] \in Txs \cup {None}
    /\ pool.nonce \in [Txs -> Nat \cup {None}]
    /\ pool.verdict \in [Txs -> {None, "confirmed", "rejected"}]
    /\ fifo \in Seq(Txs)
    /\ miner.priced \subseteq Txs /\ miner.best \in miner.priced \cup {None}
    /\ vm \in [Origins -> Nat]
    /\ \A b \in Range(chain.byNumber) : b \in DOMAIN chain.made
    /\ chain.latest \in DOMAIN chain.made
    /\ snaps.stage \in {None, "miner", "save", "delete"}
    /\ ToSet(snaps.taken) \cup ToSet(snaps.blocks) \subseteq DOMAIN chain.made

Deleting == snaps.stage = "delete"

Sends(kinds) == \E r \in opt.sends \cap Calls : Kind[r] \in kinds

(* Who may call `mine'.                                                      *)
Miners ==
    {r \in opt.sends : IF r \in Txs THEN Instamine ELSE Kind[r] \in {"mine", "start", "timer"}}

Refused == {t \in Txs : pool.verdict[t] = "rejected"}

(* The calls of `mine' follow one another, but for the timer: the            *)
(* coordinator lets one request through at a time, and it is answered when   *)
(* what it made is saved.  Strict mode answers at once, eager mode answers a *)
(* refused transaction before its block is made.                             *)
OneAtATime ==
    opt.limit = 1 /\ (opt.mode = "interval" \/ (opt.mode = "eager" /\ Refused = {}))

(* When `latest' has caught up with the blocks made when `mine' is called,   *)
(* and is still the newest when a paused call goes on: of three calls that   *)
(* overlap the third may find it behind.  With reverts a call that waits for *)
(* `resume' may hold a block to be deleted, and eager mode does not delete   *)
(* what is not announced yet.                                                *)
LatestKeepsUp ==
    /\ OneAtATime \/ Cardinality(Miners) <= 2
    /\ Sends({"revert"}) =>
          opt.mode = "strict" /\ (opt.limit = 1 \/ Cardinality(Miners) = 1)

(* The database holds one block per number, from the genesis block to the    *)
(* last block saved, each the child of the one below it, although a block is *)
(* built on what `latest' was when `mine' was called and is saved long after *)
(* (nextBlock in Blockchain.mine; revert).  It is limited to LatestKeepsUp:  *)
(* elsewhere a call to `mine' may build on an older block, whose child then  *)
(* takes the place of another.                                               *)
ChainLinked ==
    LatestKeepsUp /\ ~Deleting =>
        LET db == chain.byNumber
            ns == DOMAIN db
        IN  /\ \A n \in ns \ {0} :
                  n - 1 \in ns /\ chain.made[db[n]].parent = db[n - 1]
            /\ chain.saving = <<>> =>
                  /\ chain.made[chain.latest].number \in ns
                  /\ db[chain.made[chain.latest].number] = chain.latest
                  /\ Cardinality(ns) = chain.made[chain.latest].number + 1

(* The loop of miner_start goes round once more after a refused transaction  *)
(* (keepMining is not reset) and saves a second, empty block of that number. *)
MadeTwice == Sends({"start"}) /\ Refused # {}

(* The receipts are those of the transactions in the stored blocks, and no   *)
(* transaction is in two of them (#deleteBlockData deletes what was          *)
(* announced, #saveNewBlock saves what was made).  It too is limited to      *)
(* LatestKeepsUp, which excludes reverts in the default mode, eager: they    *)
(* miss a block that is saved and not announced.  MadeTwice is the other     *)
(* way in which a block, and not its receipts, is overwritten.               *)
ReceiptsMatchChain ==
    LatestKeepsUp /\ ~MadeTwice /\ ~Deleting =>
        LET stored == {chain.made[b] : b \in Range(chain.byNumber)}
            all    == {<<b, i>> \in stored \X (1..Cardinality(Txs)) : i <= Len(b.txs)}
        IN  /\ chain.receipts = {x[1].txs[x[2]] : x \in all}
            /\ Cardinality(all) = Cardinality(chain.receipts)

(* A transaction that replaced one of a nonce above 0: it may be pushed a    *)
(* second time (Replace), and its second copy is refused after the first one *)
(* has been mined.                                                           *)
PushedTwice(t) ==
    /\ pool.nonce[t] # 0
    /\ \E u \in Refused \ {t} :
          From[u] = From[t] /\ pool.nonce[u] = pool.nonce[t]

(* A client that is told a transaction was rejected will not find it in a    *)
(* block: the pool rejects what is replaced, the miner what the VM refuses,  *)
(* and both race with the mining of the transaction.  It is said of every    *)
(* transaction that is replaced, whatever its nonce, and not of the one that *)
(* replaces it above nonce 0: see PushedTwice.                               *)
TruthfulVerdict ==
    \A t \in Refused : ~PushedTwice(t) =>
        \A b \in DOMAIN chain.made : t \notin ToSet(chain.made[b].txs)

(* Between blocks the VM stands at the state of the newest block, and every  *)
(* locked transaction is in the miner's heap or on its way into a block: a   *)
(* lock left behind keeps a transaction from being mined or replaced.        *)
MinerAtRest ==
    ~miner.busy /\ snaps.stage = None =>
        /\ \A t \in Txs : InPool(t) => t \notin miner.locked \/ t \in miner.priced
        /\ chain.saving = <<>> => vm = chain.made[chain.latest].nonces

(* A revert can meet an insertion in flight: `clear' makes it return false,  *)
(* but the transaction enters the pool later, and nothing drains it.         *)
InsertionsCleared == opt.limit # 1 /\ Sends({"revert"})

(* The miner's loop has ended with transactions in its heap: a one-block     *)
(* evm_mine has cleared the flag of a drain, or updatePricedHeap has taken   *)
(* in a transaction after keepMining was decided.                            *)
Stranded == ~OneAtATime /\ miner.block = None /\ miner.priced # {}

(* The transactions do not fit into a block together, and a call fills one:  *)
(* what was too large for it is left to the next drain.                      *)
Crowded ==
    /\ Instamine /\ Sends({"mine", "start"})
    /\ MapThenSumSet(LAMBDA t : Gas[t], opt.sends \cap Txs) > BlockGasLimit

(* What is left when everything has run its course: no request, but for one  *)
(* whose transaction waits behind a gap of nonces, or in the pool; and no    *)
(* transaction in the pool, but for a stopped miner (or the bound on the     *)
(* timer's blocks) and for the three reasons above.                          *)
Quiet ==
    /\ \A r \in Active :
          \/ r \in Txs /\ rpc.stage[r] = "waiting"
             /\ \/ r \in ToSet(pool.queued[From[r]])
                \/ InsertionsCleared \/ Stranded \/ Crowded
          \/ rpc.stage[r] = "reverting" /\ Stranded
    /\ \A t \in Txs : InPool(t) =>
          \/ stopped \/ (opt.mode = "interval" /\ Len(chain.made) >= MaxBlocks)
          \/ InsertionsCleared \/ Stranded \/ Crowded

(* Every request is answered, and an executable transaction leaves the pool, *)
(* into a block or because it is replaced or refused.  A drain that meets a  *)
(* busy or paused miner is not forgotten (Miner.mine, #pending, #resumer),   *)
(* except for the ways that Quiet names: with OneAtATime there are none but  *)
(* Crowded, the others come with concurrent requests.                        *)
Served == <>[]Quiet

(* No transaction enters the miner's heap that is better than the one being  *)
(* executed (comment of #updatePricedHeap): when it is done, the top of the  *)
(* heap is what is removed.                                                  *)
ExecutingIsBest ==
    miner.best # None => \A t \in miner.priced : Price[t] <= Price[miner.best]
=============================================================================
