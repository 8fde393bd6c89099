---------------------------- MODULE Blockchain ----------------------------
(* The block store of the chain simulator (@ethereumjs/blockchain) and its  *)
(* two consumers, the VM's runBlockchain and the client's VMExecution.      *)
(* A block is a member of Blocks; its parent, height and total difficulty   *)
(* are constants of the instance.  Memory (`mem', lost in a crash) and the  *)
(* database (`db') are apart, as are the two halves of a put: the decision, *)
(* which already moves the heads in memory, and the batch.                  *)
EXTENDS Naturals, FiniteSets

CONSTANTS Blocks, Genesis, None,
          Parent, Number, TD,
          ProofOfStake,   \* consensusType() of the blocks put
          BatchSize,      \* NUM_BLOCKS_PER_ITERATION
          Configs         \* the deployments: see opt

ASSUME BlocksAssumption ==
    /\ Genesis \in Blocks /\ None \notin Blocks
    /\ Parent \in [Blocks \ {Genesis} -> Blocks]
    /\ Number \in [Blocks -> Nat] /\ TD \in [Blocks -> Nat]
    /\ Number[Genesis] = 0
    /\ \A b \in Blocks \ {Genesis} :
          /\ Number[b] = Number[Parent[b]] + 1
          /\ TD[b] > TD[Parent[b]]
    /\ ProofOfStake \in BOOLEAN
    /\ BatchSize \in Nat \ {0}
    /\ \A c \in Configs :
          /\ c.runner \in {"client", "vm"} /\ c.kinds \subseteq {"block", "header"}
          /\ c.bad \subseteq Blocks \ {Genesis} /\ c.crashes \in Nat

Heights == {Number[b] : b \in Blocks}

VARIABLES
    opt,       \* the deployment, fixed when the process starts
    mem,       \* the heads of the Blockchain object: _heads['vm'], _headHeaderHash, _headBlockHash
    db,        \* LevelDB: headers, bodies, NumberToHash and the saved heads
    lock,      \* the semaphore: "free", "put" or "iterator"
    ops,       \* the DBOps of the put that holds the lock
    exec,      \* the run in progress: VMExecution.running and the iterator's locals
    executed,  \* the blocks whose state root is in the state database
    crashes

vars == <<opt, mem, db, lock, ops, exec, executed, crashes>>

Runner == opt.runner       \* "client" (VMExecution.run) or "vm" (runBlockchain)
Kinds == opt.kinds         \* what is put: "block" (putBlock), "header" (putHeader)
Bad == opt.bad             \* the blocks runBlock rejects
MaxCrashes == opt.crashes  \* bound on the crashes of a behaviour

NoOps == [known |-> {}, bodies |-> {}, canon |-> <<>>,
          heads |-> [vm |-> None, headHeader |-> None, headBlock |-> None]]

Idle == [running |-> FALSE, phase |-> "idle", first |-> TRUE, next |-> 0,
         count |-> 0, failed |-> None]

(* _init: a head that was never saved is the genesis block.                 *)
LoadHeads(saved) ==
    [h \in {"vm", "headHeader", "headBlock"} |->
        IF saved[h] = None THEN Genesis ELSE saved[h]]

Init ==
    /\ opt \in Configs
    /\ db = [known  |-> {Genesis}, bodies |-> {Genesis},
             canon  |-> [n \in Heights |-> IF n = 0 THEN Genesis ELSE None],
             heads  |-> NoOps.heads]
    /\ mem = LoadHeads(NoOps.heads)
    /\ lock = "free" /\ ops = NoOps
    /\ exec = Idle
    /\ executed = {Genesis}
    /\ crashes = 0

-----------------------------------------------------------------------------
(* Reads.                                                                    *)

(* numberToHash, None where the database throws NotFoundError.               *)
Canon(n) == IF n \in Heights THEN db.canon[n] ELSE None

(* DBManager.getHeader: it also reads the total difficulty of whatever block *)
(* is canonical one height below, and throws NotFoundError without one.      *)
Readable(b) ==
    /\ b \in db.known
    /\ Number[b] # 0 => Canon(Number[b] - 1) \in db.known

(* DBManager.getBlock adds the total difficulty of the parent.               *)
BlockReadable(b) ==
    /\ Readable(b)
    /\ b # Genesis => Parent[b] \in db.known

Lineage[b \in Blocks] ==
    IF b = Genesis THEN {b} ELSE {b} \cup Lineage[Parent[b]]

-----------------------------------------------------------------------------
(* putBlock and putHeader.                                                   *)

(* The heights deleteCanonicalChainReferences drops: from n up to the first  *)
(* one that is not assigned.                                                 *)
AssignedFrom(n) ==
    {m \in Heights : m >= n /\ \A k \in n..m : Canon(k) # None}

(* rebuildCanonical walks from b towards the genesis until the number index  *)
(* already agrees, or until a parent cannot be read.                         *)
Settled(x) == x = Genesis \/ Canon(Number[x]) = x

WalkEnds(x) == Settled(x) \/ ~Readable(Parent[x])

WalkEnd(b) ==
    CHOOSE x \in Lineage[b] :
        /\ WalkEnds(x)
        /\ \A y \in Lineage[b] : Number[y] > Number[x] => ~WalkEnds(y)

(* The blocks whose lookups the walk saves.                                  *)
Rebuilt(b) ==
    {x \in Lineage[b] : Number[x] >= Number[WalkEnd(b)] /\ ~Settled(x)}

(* Fault: the iterator head is left where it was.                            *)
RebuiltHeads_IteratorStays(b, kind) ==
    [vm |-> mem.vm, headHeader |-> b,
     headBlock |-> IF kind = "block" THEN b ELSE mem.headBlock]

(* Fault: a stale iterator head moves to the new block.                      *)
RebuiltHeads_IteratorToHead(b, kind) ==
    [vm |-> IF mem.vm \in Lineage[b] THEN mem.vm ELSE b, headHeader |-> b,
     headBlock |-> IF kind = "block" THEN b ELSE mem.headBlock]

(* The heads after a new canonical block: heads on a dropped height move to  *)
(* the new block, heads on an overwritten height to where the walk ended (an *)
(* iterator head only if the walk met the old chain).                        *)
RebuiltHeads(b, kind) ==
    LET dropped == {Canon(n) : n \in AssignedFrom(Number[b] + 1)}
        stale   == {Canon(Number[x]) : x \in Rebuilt(b)} \ {None}
        end     == WalkEnd(b)
        hb      == IF kind = "block" THEN b ELSE mem.headBlock
        Reset(h) == IF h \in dropped THEN b
                    ELSE IF h \in stale THEN end ELSE h
    IN  [vm |-> IF mem.vm \in stale /\ ~Settled(end) THEN mem.vm
                ELSE Reset(mem.vm),
         headHeader |-> b,
         headBlock |-> Reset(hb)]

(* Fault: the walk towards the old chain is forgotten.                       *)
RebuiltCanon_HeadOnly(b) == [n \in {Number[b]} |-> b]

RebuiltCanon(b) ==
    LET dropped == AssignedFrom(Number[b] + 1)
        new     == Rebuilt(b)
    IN  [n \in dropped \cup {Number[x] : x \in new} |->
            IF n \in dropped THEN None
            ELSE CHOOSE x \in new : Number[x] = n]

(* Fault: the difficulty of the block itself is not added.                  *)
PutDecide_ParentTD(b, kind) ==
    /\ lock = "free" /\ b # Genesis /\ BlockReadable(Parent[b])
    /\ {mem.headHeader, mem.headBlock} \subseteq db.known
    /\ LET canonical == TD[Parent[b]] > TD[mem.headHeader]
           heads == IF canonical THEN RebuiltHeads(b, kind) ELSE mem
       IN  /\ mem' = heads
           /\ ops' = [known |-> {b}, bodies |-> {b},
                      canon |-> IF canonical THEN RebuiltCanon(b) ELSE <<>>,
                      heads |-> heads]
    /\ lock' = "put"
    /\ UNCHANGED <<opt, db, exec, executed, crashes>>

(* Fault: a block as heavy as the head replaces it.                         *)
PutDecide_Ties(b, kind) ==
    /\ lock = "free" /\ b # Genesis /\ BlockReadable(Parent[b])
    /\ {mem.headHeader, mem.headBlock} \subseteq db.known
    /\ LET canonical == TD[b] >= TD[mem.headHeader]
           heads == IF canonical THEN RebuiltHeads(b, kind) ELSE mem
       IN  /\ mem' = heads
           /\ ops' = [known |-> {b}, bodies |-> {b},
                      canon |-> IF canonical THEN RebuiltCanon(b) ELSE <<>>,
                      heads |-> heads]
    /\ lock' = "put"
    /\ UNCHANGED <<opt, db, exec, executed, crashes>>

(* Fault: the heads are saved before the block is.                          *)
PutDecide_SavesHeads(b, kind) ==
    /\ lock = "free" /\ b # Genesis /\ BlockReadable(Parent[b])
    /\ {mem.headHeader, mem.headBlock} \subseteq db.known
    /\ LET canonical == TD[b] > TD[mem.headHeader]
           heads == IF canonical THEN RebuiltHeads(b, kind) ELSE mem
       IN  /\ mem' = heads
           /\ ops' = [known |-> {b}, bodies |-> {b},
                      canon |-> IF canonical THEN RebuiltCanon(b) ELSE <<>>,
                      heads |-> heads]
    /\ lock' = "put"
    /\ db' = [db EXCEPT !.heads = mem']
    /\ UNCHANGED <<opt, exec, executed, crashes>>

(* _putBlockOrHeader up to the batch.  Block.validate reads the parent       *)
(* block, and the total difficulties of both heads and of the parent must be *)
(* in the database, or the put throws.                                       *)
PutDecide(b, kind) ==
    /\ lock = "free"
    /\ b # Genesis
    /\ BlockReadable(Parent[b])
    /\ {mem.headHeader, mem.headBlock} \subseteq db.known
    /\ LET canonical == ProofOfStake \/ TD[b] > TD[mem.headHeader]
           heads == IF canonical THEN RebuiltHeads(b, kind)
                    ELSE IF TD[b] > TD[mem.headBlock] /\ kind = "block"
                         THEN [mem EXCEPT !.headBlock = b] ELSE mem
       IN  /\ mem' = heads
           /\ ops' = [known  |-> {b},
                      bodies |-> IF kind = "block" THEN {b} ELSE {},
                      canon  |-> IF canonical THEN RebuiltCanon(b) ELSE <<>>,
                      heads  |-> heads]
    /\ lock' = "put"
    /\ UNCHANGED <<opt, db, exec, executed, crashes>>

(* Fault: the body is written, the header is not.                            *)
Batch_BodyOnly(o) ==
    [known |-> db.known, bodies |-> db.bodies \cup o.bodies,
     canon |-> db.canon, heads |-> db.heads]

Batch(o) ==
    [known  |-> db.known \cup o.known,
     bodies |-> db.bodies \cup o.bodies,
     canon  |-> [n \in Heights |-> IF n \in DOMAIN o.canon THEN o.canon[n]
                                   ELSE db.canon[n]],
     heads  |-> o.heads]

PutCommit ==
    /\ lock = "put"
    /\ db' = Batch(ops)
    /\ ops' = NoOps
    /\ lock' = "free"
    /\ UNCHANGED <<opt, mem, exec, executed, crashes>>

-----------------------------------------------------------------------------
(* The iterator: it holds the lock from its first block to the save of the  *)
(* heads, and moves the head in memory before the block is run.              *)

(* runBlock: the state root of the parent must exist, the body must hash to  *)
(* the header, and the block must be valid.                                  *)
Runs(b) == Parent[b] \in executed /\ b \in db.bodies /\ b \notin Bad

HasNext ==
    /\ Canon(exec.next) # None
    /\ BlockReadable(Canon(exec.next))
    /\ Runner = "client" => exec.count # BatchSize

IterateStart ==
    /\ lock = "free"
    /\ mem.vm \in db.known
    /\ lock' = "iterator"
    /\ exec' = [exec EXCEPT !.phase = "iterate", !.next = Number[mem.vm] + 1,
                            !.count = 0, !.failed = None]
    /\ UNCHANGED <<opt, mem, db, ops, executed, crashes>>

IterateSaved ==
    /\ db' = [db EXCEPT !.heads = mem]
    /\ lock' = "free"

-----------------------------------------------------------------------------
(* VM.runBlockchain: a block that fails is deleted with its canonical        *)
(* children and the heads above move to its parent, in memory.               *)

RunChain ==
    /\ Runner = "vm"
    /\ exec.phase = "idle"
    /\ IterateStart

RunChainBlock ==
    /\ Runner = "vm"
    /\ exec.phase = "iterate"
    /\ HasNext
    /\ LET b == Canon(exec.next) IN
       /\ Runs(b)
       /\ mem' = [mem EXCEPT !.vm = b]
       /\ executed' = executed \cup {b}
    /\ exec' = [exec EXCEPT !.next = @ + 1, !.count = 1]
    /\ UNCHANGED <<opt, db, lock, ops, crashes>>

(* Fault: the parent goes with the block.                                    *)
DelBlock_FromParent(b, heads) ==
    LET low  == IF Number[b] > 1 THEN Number[b] - 1 ELSE Number[b]
        gone == {Canon(n) : n \in AssignedFrom(low)}
    IN  /\ db' = [db EXCEPT !.known = @ \ gone, !.bodies = @ \ gone,
              !.canon = [n \in Heights |-> IF n >= low THEN None ELSE @[n]]]
        /\ mem' = [h \in DOMAIN mem |->
                      IF heads[h] \in gone THEN Canon(low - 1) ELSE heads[h]]

(* delBlock of the canonical block b, _delChild and                          *)
(* _deleteCanonicalChainReferences; the heads are not written.               *)
DelBlock(b, heads) ==
    LET gone == {Canon(n) : n \in AssignedFrom(Number[b])}
    IN  /\ db' = [db EXCEPT
              !.known = @ \ gone,
              !.bodies = @ \ gone,
              !.canon = [n \in Heights |->
                            IF n \in AssignedFrom(Number[b]) THEN None ELSE @[n]]]
        /\ mem' = [h \in DOMAIN mem |->
                      IF heads[h] \in gone THEN Parent[b] ELSE heads[h]]

RunChainFails ==
    /\ Runner = "vm"
    /\ exec.phase = "iterate"
    /\ HasNext
    /\ LET b == Canon(exec.next) IN
       /\ ~Runs(b)
       /\ DelBlock(b, [mem EXCEPT !.vm = b])
    /\ lock' = "free"
    /\ exec' = Idle
    /\ UNCHANGED <<opt, ops, executed, crashes>>

RunChainEnd ==
    /\ Runner = "vm"
    /\ exec.phase = "iterate"
    /\ ~HasNext
    /\ IterateSaved
    /\ exec' = Idle
    /\ UNCHANGED <<opt, mem, ops, executed, crashes>>

-----------------------------------------------------------------------------
(* VMExecution.run of the client: batches until the head of the VM is the    *)
(* latest block.  After a failed block the callback lets the rest of the     *)
(* batch pass unexecuted; the head is put back once the iterator is done.    *)

RunStart ==
    /\ Runner = "client"
    /\ ~exec.running
    /\ exec' = [Idle EXCEPT !.running = TRUE, !.phase = "check"]
    /\ UNCHANGED <<opt, mem, db, lock, ops, executed, crashes>>

(* Fault: one batch only, whatever it left.                                  *)
RunContinues_OneBatch == exec.first /\ mem.vm # mem.headBlock

(* The loop condition. The code takes the lock twice, for getIteratorHead    *)
(* and for getLatestBlock; here both are read in one step.                   *)
RunContinues == (exec.first \/ exec.count = BatchSize) /\ mem.vm # mem.headBlock

RunCheck ==
    /\ exec.phase = "check"
    /\ lock = "free"
    /\ exec' = IF RunContinues THEN [exec EXCEPT !.phase = "acquire"] ELSE Idle
    /\ UNCHANGED <<opt, mem, db, lock, ops, executed, crashes>>

RunIterate == exec.phase = "acquire" /\ IterateStart

RunBlock ==
    /\ Runner = "client"
    /\ exec.phase = "iterate"
    /\ HasNext
    /\ LET b == Canon(exec.next)
           ok == exec.failed = None /\ Runs(b)
       IN  /\ mem' = [mem EXCEPT !.vm = b]
           /\ executed' = IF ok THEN executed \cup {b} ELSE executed
           /\ exec' = [exec EXCEPT !.next = @ + 1, !.count = @ + 1,
                          !.failed = IF ok \/ @ # None THEN @ ELSE b]
    /\ UNCHANGED <<opt, db, lock, ops, crashes>>

RunIterated ==
    /\ Runner = "client"
    /\ exec.phase = "iterate"
    /\ ~HasNext
    /\ IterateSaved
    /\ exec' = [exec EXCEPT !.first = FALSE,
                   !.phase = IF exec.failed = None THEN "check" ELSE "repair"]
    /\ UNCHANGED <<opt, mem, ops, executed, crashes>>

(* setIteratorHead('vm', parent of the failed block); return 0 leaves        *)
(* `running' set.                                                            *)
RunRepair ==
    /\ exec.phase = "repair"
    /\ lock = "free"
    /\ mem' = [mem EXCEPT !.vm = Parent[exec.failed]]
    /\ db' = [db EXCEPT !.heads = mem']
    /\ exec' = [exec EXCEPT !.phase = "idle"]
    /\ UNCHANGED <<opt, lock, ops, executed, crashes>>

-----------------------------------------------------------------------------
(* The process dies: memory is lost, what a batch wrote stays.               *)
Crash ==
    /\ crashes < MaxCrashes
    /\ crashes' = crashes + 1
    /\ mem' = LoadHeads(db.heads)
    /\ lock' = "free" /\ ops' = NoOps /\ exec' = Idle
    /\ UNCHANGED <<opt, db, executed>>

Put == \E b \in Blocks, kind \in Kinds : PutDecide(b, kind)

Next ==
    \/ Put \/ PutCommit
    \/ RunChain \/ RunChainBlock \/ RunChainFails \/ RunChainEnd
    \/ RunStart \/ RunCheck \/ RunIterate \/ RunBlock \/ RunIterated \/ RunRepair
    \/ Crash

(* Fairness: every await of a put or a run is answered; whoever waits for    *)
(* the semaphore gets it in its turn, whatever puts come before.  Nothing    *)
(* owes a put, a new run or a crash.                                         *)
Fairness ==
    /\ WF_vars(PutCommit)
    /\ SF_vars(RunCheck) /\ SF_vars(RunIterate) /\ SF_vars(RunRepair)
    /\ WF_vars(RunBlock) /\ WF_vars(RunIterated)

Spec == Init /\ [][Next]_vars
FairSpec == Spec /\ Fairness

-----------------------------------------------------------------------------
(* Properties.                                                               *)

HeadRecord == [vm : Blocks, headHeader : Blocks, headBlock : Blocks]

(* Every variable keeps its type.                                            *)
TypeOK ==
    /\ opt \in Configs
    /\ mem \in HeadRecord
    /\ db.known \subseteq Blocks /\ db.bodies \subseteq db.known
    /\ db.canon \in [Heights -> Blocks \cup {None}]
    /\ \A h \in DOMAIN db.heads : db.heads[h] \in Blocks \cup {None}
    /\ lock \in {"free", "put", "iterator"}
    /\ ops.known \subseteq Blocks /\ DOMAIN ops.canon \subseteq Heights
    /\ exec \in [running : BOOLEAN, first : BOOLEAN, next : Nat, count : Nat,
                 phase : {"idle", "check", "acquire", "iterate", "repair"},
                 failed : Blocks \cup {None}]
    /\ executed \subseteq Blocks
    /\ crashes \in 0..MaxCrashes

(* NumberToHash always spells one chain: no gap, every entry a stored block  *)
(* and the child of the entry below it, through reorganisations, deletions   *)
(* and crashes between the decision of a put and its batch                   *)
(* (_rebuildCanonical stops early when it thinks the rest agrees).  Of a VM, *)
(* as long as no fork branches off a block it deletes: delBlock leaves the   *)
(* fork in the database without its parent.                                  *)
CanonicalLinked ==
    \A n \in Heights \ {0} :
        Canon(n) # None =>
            /\ Number[Canon(n)] = n /\ Canon(n) \in db.known
            /\ Canon(n - 1) = Parent[Canon(n)]

(* A client that no block can fail: it never gets to RunRepair, which sets   *)
(* the iterator head without looking whether the block is still on the chain. *)
NothingFails == Bad = {} /\ Kinds = {"block"}

(* Between puts, the head header is the top of that chain; when only full    *)
(* blocks are put the head block is the top too; and the iterator head is on *)
(* the chain unless a run of the client has failed.  A head left on an       *)
(* abandoned fork would make every later put throw or the VM run the wrong   *)
(* blocks.                                                                   *)
HeadsOnChain ==
    lock = "free" =>
        /\ Canon(Number[mem.headHeader]) = mem.headHeader
        /\ Canon(Number[mem.headHeader] + 1) = None
        /\ Kinds = {"block"} => mem.headBlock = mem.headHeader
        /\ Runner = "vm" \/ NothingFails => Canon(Number[mem.vm]) = mem.vm

(* What a restart would load as heads is in the database: a put reads the    *)
(* total difficulty of both heads and throws NotFound without them.  Of the  *)
(* client, which deletes no block: delBlock does not save the heads it moves. *)
SavedHeadsStored ==
    Runner = "client" => \A h \in DOMAIN db.heads : LoadHeads(db.heads)[h] \in db.known

(* The top of the chain is a block of the greatest total difficulty of all   *)
(* that are stored, whatever the order they came in and whichever put a      *)
(* crash cut short (the code only ever compares with the current head), as   *)
(* long as nothing deletes blocks and the consensus is not proof of stake.   *)
HeaviestHead ==
    lock = "free" /\ Runner = "client" /\ ~ProofOfStake =>
        \A b \in db.known : TD[b] <= TD[mem.headHeader]

(* The VM has run every block up to its iterator head, the saved one too: a  *)
(* reorganisation moves the head back to a block of both chains, so that no  *)
(* block of the new chain is skipped (comment of _putBlockOrHeader).  Of a   *)
(* client that has met an invalid block this says nothing: its head may rest *)
(* past that block, and RunRepair may leave it off the chain.                *)
ExecutedToHead ==
    Runner = "vm" \/ NothingFails =>
        \A h \in {mem.vm, LoadHeads(db.heads).vm} : Lineage[h] \subseteq executed

(* Only an invalid block, or a block built on one, ever leaves the database: *)
(* runBlockchain deletes a block for any error of runBlock, a missing state  *)
(* root of its parent among them.                                            *)
OnlyInvalidDeleted ==
    [][\A b \in db.known \ db'.known :
          \E x \in Lineage[b] : x \in Bad \/ x \notin db.bodies]_vars

(* A run of the client that is started executes the block that was then the  *)
(* latest one, if it is valid and no reorganisation takes it away.           *)
RunReachesHead ==
    \A b \in Blocks :
        (/\ crashes = MaxCrashes /\ exec.phase = "check" /\ exec.first
         /\ mem.headBlock = b /\ Canon(Number[b]) = b
         /\ Lineage[b] \cap Bad = {})
        ~> (b \in executed \/ Canon(Number[b]) # b)

(* The store implements ForkChoice: puts and deletions in the order of their *)
(* batches, read through the number index.                                   *)
Top == CHOOSE b \in Blocks :
           Canon(Number[b]) = b /\ \A n \in Heights : n > Number[b] => Canon(n) = None

FC == INSTANCE ForkChoice WITH known <- db.known, head <- Top, index <- db.canon

ImplementsForkChoice == FC!FSpec
=============================================================================
