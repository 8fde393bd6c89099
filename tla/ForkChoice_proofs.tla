------------------------- MODULE ForkChoice_proofs -------------------------
(* The number index, the heads and the executed blocks of a store that       *)
(* deletes no block, for every tree of blocks: the chain is linked, its top  *)
(* the heaviest block, the heads on it; and the store implements ForkChoice. *)
EXTENDS Blockchain_proofs

-----------------------------------------------------------------------------
(* The inductive invariant.                                                  *)

(* The head header a restart would find; it only moves with a batch.         *)
Saved == LoadHeads(db.heads)
Tip == Saved.headHeader

(* The index c spells the lineage of t and nothing above it.                 *)
Spells(c, t) ==
  \A n \in Heights :
     IF n <= Number[t] THEN c[n] \in Lineage[t] /\ Number[c[n]] = n
     ELSE c[n] = None

HeadsIn(heads, S) == {heads.vm, heads.headHeader, heads.headBlock} \subseteq S

(* What holds between the decision of a put and its batch: the batch stores  *)
(* one block under a stored parent, and with its entries the index spells    *)
(* the lineage of the head in memory, the new block if it is the heavier.    *)
Decided(b) ==
  /\ b \in Blocks \ {Genesis} /\ Parent[b] \in db.known
  /\ ops.known = {b} /\ ops.heads = mem
  /\ HeadsIn(mem, db.known \cup {b})
  /\ mem.headHeader = IF ProofOfStake \/ TD[b] > TD[Tip] THEN b ELSE Tip
  /\ Spells(Batch(ops).canon, mem.headHeader)

(* Nothing leaves the database: the stored blocks are connected, the index   *)
(* spells the lineage of the saved head, and memory agrees between puts.     *)
ChainInv ==
  /\ Genesis \in db.known /\ Upward(db.known)
  /\ HeadsIn(Saved, db.known)
  /\ Spells(db.canon, Tip)
  /\ lock # "put" => mem.headHeader = Tip /\ HeadsIn(mem, db.known)
  /\ lock = "put" => \E b \in Blocks : Decided(b)
  /\ exec.failed \in db.known \cup {None}
  /\ ~ProofOfStake => \A b \in db.known : TD[b] <= TD[Tip]
  /\ Kinds = {"block"} => mem.headBlock = mem.headHeader /\ Saved.headBlock = Tip

(* The same with the blocks that have been executed, where no block fails.   *)
ExecutedInv ==
  /\ db.bodies = db.known /\ ops.bodies = ops.known
  /\ Genesis \in executed /\ Upward(executed)
  /\ exec.failed = None
  /\ mem.vm \in executed \cap Lineage[mem.headHeader]
  /\ Saved.vm \in executed \cap Lineage[Tip]
  /\ exec.phase = "iterate" => exec.next = Number[mem.vm] + 1

-----------------------------------------------------------------------------
(* The index and the walk.                                                   *)

(* The saved heads are blocks.                                               *)
LEMMA SavedTypes ==
  ASSUME TypeInv
  PROVE  Saved \in HeadRecord /\ Tip \in Blocks /\ Saved.vm \in Blocks
         /\ Saved.headBlock \in Blocks
  BY LoadedTypes DEF TypeInv, Database, Saved, Tip, HeadRecord

(* What an index that spells the lineage of a block answers.                 *)
LEMMA SpellsFacts ==
  ASSUME NEW t \in Blocks, NEW c, Spells(c, t)
  PROVE  /\ \A n \in Heights : c[n] # None <=> n <= Number[t]
         /\ \A n \in Heights : c[n] # None => c[n] \in Lineage[t] /\ Number[c[n]] = n
         /\ \A x \in Lineage[t] : c[Number[x]] = x
<1>1. ASSUME NEW n \in Heights, n <= Number[t]
      PROVE  c[n] # None /\ c[n] \in Lineage[t] /\ Number[c[n]] = n
  <2>1. c[n] \in Lineage[t] /\ Number[c[n]] = n
    BY <1>1 DEF Spells
  <2> QED BY <2>1, LineageBlocks, BlockFacts
<1>2. ASSUME NEW n \in Heights, ~(n <= Number[t]) PROVE c[n] = None
  BY <1>2 DEF Spells
<1>3. ASSUME NEW x \in Lineage[t] PROVE c[Number[x]] = x
  <2>1. x \in Blocks /\ Number[x] \in Heights /\ Number[x] <= Number[t]
    BY LineageBlocks, BlockFacts
  <2>2. c[Number[x]] \in Lineage[t] /\ Number[c[Number[x]]] = Number[x]
    BY <1>1, <2>1
  <2> QED BY <2>2, LineageChain
<1> QED BY <1>1, <1>2, <1>3

(* The same of numberToHash, at any height.                                  *)
LEMMA CanonFacts ==
  ASSUME TypeInv, Spells(db.canon, Tip)
  PROVE  /\ \A x \in Blocks : Canon(Number[x]) = x <=> x \in Lineage[Tip]
         /\ \A n \in Nat : Canon(n) # None <=> n <= Number[Tip]
         /\ \A n : Canon(n) # None =>
               n \in Heights /\ Canon(n) \in Lineage[Tip] /\ Number[Canon(n)] = n
<1>1. Tip \in Blocks
  BY SavedTypes
<1>2. /\ \A n \in Heights : db.canon[n] # None <=> n <= Number[Tip]
      /\ \A n \in Heights : db.canon[n] # None =>
            db.canon[n] \in Lineage[Tip] /\ Number[db.canon[n]] = n
      /\ \A x \in Lineage[Tip] : db.canon[Number[x]] = x
  BY <1>1, SpellsFacts
<1>3. ASSUME NEW n \in Nat PROVE Canon(n) # None <=> n <= Number[Tip]
  <2>1. n <= Number[Tip] => n \in Heights
    <3>1. n <= Number[Tip] => \E x \in Lineage[Tip] : Number[x] = n
      BY <1>1, LineageHeights
    <3> QED BY <1>1, <3>1, LineageBlocks, BlockFacts
  <2> QED BY <1>2, <2>1 DEF Canon
<1>4. ASSUME NEW x \in Blocks PROVE Canon(Number[x]) = x <=> x \in Lineage[Tip]
  BY <1>2, BlockFacts DEF Canon
<1>5. ASSUME NEW n, Canon(n) # None
      PROVE  n \in Heights /\ Canon(n) \in Lineage[Tip] /\ Number[Canon(n)] = n
  BY <1>2, <1>5 DEF Canon
<1> QED BY <1>3, <1>4, <1>5

(* A stored block's whole lineage is stored.                                 *)
LEMMA StoredLineage ==
  ASSUME ChainInv, NEW b \in db.known
  PROVE  Lineage[b] \subseteq db.known
  BY LineageLeast DEF ChainInv

(* The walk from a block whose parent can be read ends where the index       *)
(* agrees, at a block of the old chain: no block below it is unreadable.     *)
LEMMA WalkMeetsChain ==
  ASSUME TypeInv, ChainInv, NEW b \in Blocks \ {Genesis}, BlockReadable(Parent[b])
  PROVE  Settled(WalkEnd(b)) /\ WalkEnd(b) \in Lineage[Tip] /\ WalkEnd(b) \in Lineage[b]
<1> DEFINE p == Parent[b]
           e == WalkEnd(b)
<1>1. p \in Blocks /\ p \in db.known /\ Readable(p)
  BY BlockFacts DEF BlockReadable, Readable
<1>2. Tip \in Blocks /\ Tip \in db.known /\ Spells(db.canon, Tip)
  BY SavedTypes DEF ChainInv, HeadsIn, Tip
<1>3. ASSUME NEW x \in Lineage[p] PROVE Readable(x)
  <2>1. x \in db.known
    BY <1>1, StoredLineage
  <2>2. x \in Blocks /\ Number[x] <= Number[p]
    BY <1>1, LineageBlocks, BlockFacts
  <2>3. CASE Number[x] = 0
    BY <2>1, <2>3 DEF Readable
  <2>4. CASE Number[x] # 0
    <3>1. Number[p] # 0 /\ Number[p] - 1 \in Nat /\ Number[x] - 1 \in Nat
          /\ Number[x] - 1 <= Number[p] - 1
      BY <1>1, <2>2, <2>4, BlockFacts
    <3>2. Canon(Number[p] - 1) # None
      BY <1>1, <3>1, BlockFacts DEF Readable, TypeInv, TypeOK
    <3>3. Number[p] - 1 <= Number[Tip]
      BY <1>2, <3>1, <3>2, CanonFacts
    <3>4. Number[x] - 1 <= Number[Tip]
      BY <1>2, <3>1, <3>3, BlockFacts
    <3>5. Canon(Number[x] - 1) \in Lineage[Tip]
      BY <1>2, <3>1, <3>4, CanonFacts
    <3>6. Canon(Number[x] - 1) \in db.known
      BY <1>2, <3>5, StoredLineage
    <3> QED BY <2>1, <3>6 DEF Readable
  <2> QED BY <2>3, <2>4
<1>4. e \in Lineage[b] /\ WalkEnds(e) /\ e \in Blocks
  BY WalkEndExists, LineageBlocks
<1>5. Settled(e)
  <2>1. CASE e = Genesis
    BY <2>1 DEF Settled
  <2>2. CASE e # Genesis
    <3>1. Parent[e] \in Lineage[p]
      <4>1. Lineage[b] = {b} \cup Lineage[p]
        BY LineageStep
      <4>2. CASE e = b
        BY <1>1, <4>2, LineageBlocks
      <4>3. CASE e \in Lineage[p]
        <5>1. Lineage[e] \subseteq Lineage[p]
          BY <1>1, <4>3, LineageChain
        <5>2. Parent[e] \in Blocks /\ Lineage[e] = {e} \cup Lineage[Parent[e]]
          BY <1>4, <2>2, LineageStep, BlockFacts
        <5>3. Parent[e] \in Lineage[Parent[e]]
          BY <5>2, LineageBlocks
        <5> QED BY <5>1, <5>2, <5>3
      <4> QED BY <1>4, <4>1, <4>2, <4>3
    <3> QED BY <1>3, <1>4, <3>1 DEF WalkEnds
  <2> QED BY <2>1, <2>2
<1>6. e \in Lineage[Tip]
  BY <1>2, <1>4, <1>5, CanonFacts, LineageBlocks DEF Settled
<1> QED BY <1>4, <1>5, <1>6

(* What the walk rebuilds is what it passed, and the heights that are        *)
(* dropped are those of the old chain above the new block.                   *)
LEMMA WalkRebuilds ==
  ASSUME TypeInv, ChainInv, NEW b \in Blocks \ {Genesis}, BlockReadable(Parent[b])
  PROVE  /\ Rebuilt(b) = {x \in Lineage[b] : Number[x] > Number[WalkEnd(b)]}
         /\ AssignedFrom(Number[b] + 1) =
               {n \in Heights : n > Number[b] /\ n <= Number[Tip]}
<1> DEFINE e == WalkEnd(b)
<1>1. e \in Lineage[b] /\ e \in Lineage[Tip] /\ Settled(e) /\ e \in Blocks
  BY WalkMeetsChain, LineageBlocks
<1>2. ASSUME NEW x \in Lineage[b]
      PROVE  (Number[x] >= Number[e] /\ ~Settled(x)) <=> Number[x] > Number[e]
  <2>1. x \in Blocks /\ Number[x] \in Nat /\ Number[e] \in Nat
    BY <1>1, LineageBlocks, BlockFacts
  <2>2. Number[x] > Number[e] => ~Settled(x)
    BY WalkEndExists DEF WalkEnds
  <2>3. Number[x] = Number[e] => x = e
    BY <1>1, LineageChain
  <2> QED BY <1>1, <2>1, <2>2, <2>3
<1>3. Rebuilt(b) = {x \in Lineage[b] : Number[x] > Number[e]}
  BY <1>2 DEF Rebuilt
<1>4. Tip \in Blocks /\ Spells(db.canon, Tip)
  BY SavedTypes DEF ChainInv
<1>5. ASSUME NEW m \in Heights
      PROVE  (m >= Number[b] + 1 /\ \A k \in (Number[b] + 1)..m : Canon(k) # None)
                <=> (m > Number[b] /\ m <= Number[Tip])
  <2>1. m \in Nat /\ Number[b] \in Nat /\ Number[Tip] \in Nat
    BY <1>4, BlockFacts
  <2>2. \A k \in Nat : Canon(k) # None <=> k <= Number[Tip]
    BY <1>4, CanonFacts
  <2>3. ASSUME m >= Number[b] + 1, \A k \in (Number[b] + 1)..m : Canon(k) # None
        PROVE  m <= Number[Tip]
    <3>1. m \in (Number[b] + 1)..m
      BY <2>1, <2>3
    <3> QED BY <2>1, <2>2, <2>3, <3>1
  <2>4. ASSUME m > Number[b], m <= Number[Tip], NEW k \in (Number[b] + 1)..m
        PROVE  Canon(k) # None
    <3>1. k \in Nat /\ k <= Number[Tip]
      BY <2>1, <2>4
    <3> QED BY <2>2, <3>1
  <2> QED BY <2>1, <2>3, <2>4
<1>6. AssignedFrom(Number[b] + 1) = {n \in Heights : n > Number[b] /\ n <= Number[Tip]}
  BY <1>5 DEF AssignedFrom
<1> QED BY <1>3, <1>6

(* With the entries of a reorganisation the index spells the new chain.      *)
LEMMA RebuiltSpells ==
  ASSUME TypeInv, ChainInv, NEW b \in Blocks \ {Genesis}, BlockReadable(Parent[b]),
         NEW c, c = [n \in Heights |-> IF n \in DOMAIN RebuiltCanon(b)
                                       THEN RebuiltCanon(b)[n] ELSE db.canon[n]]
  PROVE  Spells(c, b)
<1> DEFINE e == WalkEnd(b)
           new == Rebuilt(b)
           dropped == AssignedFrom(Number[b] + 1)
<1>1. /\ new = {x \in Lineage[b] : Number[x] > Number[e]}
      /\ dropped = {n \in Heights : n > Number[b] /\ n <= Number[Tip]}
  BY WalkRebuilds
<1>2. e \in Lineage[b] /\ e \in Lineage[Tip] /\ e \in Blocks
  BY WalkMeetsChain, LineageBlocks
<1>3. Tip \in Blocks /\ Spells(db.canon, Tip)
  BY SavedTypes DEF ChainInv
<1>4. DOMAIN RebuiltCanon(b) = dropped \cup {Number[x] : x \in new}
  BY DEF RebuiltCanon
<1>5. Number[b] \in Nat /\ Number[e] \in Nat /\ Number[Tip] \in Nat /\ Heights \subseteq Nat
      /\ Number[e] <= Number[b] /\ Number[e] <= Number[Tip]
  BY <1>2, <1>3, LineageBlocks, BlockFacts
<1>6. \A x \in Lineage[b] : Number[x] \in Nat /\ Number[x] <= Number[b]
  BY LineageBlocks, BlockFacts
<1>7. ASSUME NEW n \in Heights, n > Number[b] PROVE c[n] = None
  <2>1. n \notin {Number[x] : x \in new}
    BY <1>1, <1>5, <1>6, <1>7
  <2>2. CASE n <= Number[Tip]
    <3>1. n \in dropped
      BY <1>1, <1>7, <2>2
    <3> QED BY <1>4, <3>1 DEF RebuiltCanon
  <2>3. CASE ~(n <= Number[Tip])
    <3>1. n \notin DOMAIN RebuiltCanon(b)
      BY <1>1, <1>4, <2>1, <2>3
    <3>2. db.canon[n] = None
      BY <1>3, <2>3 DEF Spells
    <3> QED BY <3>1, <3>2
  <2> QED BY <2>2, <2>3
<1>8. ASSUME NEW n \in Heights, n <= Number[b], n > Number[e]
      PROVE  c[n] \in Lineage[b] /\ Number[c[n]] = n
  <2>1. PICK x \in Lineage[b] : Number[x] = n
    BY <1>5, <1>8, LineageHeights
  <2>2. x \in new /\ n \notin dropped
    BY <1>1, <1>5, <1>8, <2>1
  <2>3. c[n] = CHOOSE y \in new : Number[y] = n
    BY <1>4, <2>1, <2>2 DEF RebuiltCanon
  <2>4. c[n] \in new /\ Number[c[n]] = n
    BY <2>1, <2>2, <2>3
  <2> QED BY <1>1, <2>4
<1>9. ASSUME NEW n \in Heights, n <= Number[e]
      PROVE  c[n] \in Lineage[b] /\ Number[c[n]] = n
  <2>1. n \notin DOMAIN RebuiltCanon(b)
    BY <1>1, <1>4, <1>5, <1>6, <1>9
  <2>2. n <= Number[Tip]
    BY <1>5, <1>9
  <2>3. c[n] = db.canon[n] /\ db.canon[n] \in Lineage[Tip] /\ Number[db.canon[n]] = n
    BY <1>3, <2>1, <2>2 DEF Spells
  <2>4. db.canon[n] \in Lineage[e]
    BY <1>2, <1>3, <1>9, <2>3, LineageChain
  <2>5. Lineage[e] \subseteq Lineage[b]
    BY <1>2, LineageChain
  <2> QED BY <2>3, <2>4, <2>5
<1>10. ASSUME NEW n \in Heights
       PROVE  n > Number[b] \/ (n <= Number[b] /\ n > Number[e]) \/ n <= Number[e]
  BY <1>5
<1> QED BY <1>5, <1>7, <1>8, <1>9, <1>10 DEF Spells

(* The heads after a reorganisation.                                         *)
LEMMA RebuiltHeadsFacts ==
  ASSUME TypeInv, ChainInv, NEW b \in Blocks \ {Genesis}, NEW kind
  PROVE  LET heads == RebuiltHeads(b, kind)
         IN  /\ heads.headHeader = b
             /\ heads.vm \in {mem.vm, b, WalkEnd(b)}
             /\ heads.headBlock \in {mem.headBlock, b, WalkEnd(b)}
             /\ kind = "block" => heads.headBlock = b
<1> DEFINE dropped == {Canon(n) : n \in AssignedFrom(Number[b] + 1)}
           stale   == {Canon(Number[x]) : x \in Rebuilt(b)} \ {None}
           end     == WalkEnd(b)
           hb      == IF kind = "block" THEN b ELSE mem.headBlock
           Reset(h) == IF h \in dropped THEN b
                       ELSE IF h \in stale THEN end ELSE h
<1>1. RebuiltHeads(b, kind) =
        [vm |-> IF mem.vm \in stale /\ ~Settled(end) THEN mem.vm ELSE Reset(mem.vm),
         headHeader |-> b, headBlock |-> Reset(hb)]
  BY DEF RebuiltHeads
<1>2. b \notin stale
  <2>1. ASSUME NEW x \in Rebuilt(b), Canon(Number[x]) = b PROVE FALSE
    <3>1. x \in Lineage[b] /\ ~Settled(x)
      BY <2>1 DEF Rebuilt
    <3>2. Number[b] = Number[x]
      BY <2>1, CanonTypes, BlockFacts
    <3>3. b \in Lineage[b]
      BY LineageBlocks
    <3>4. x = b
      BY <3>1, <3>2, <3>3, LineageChain
    <3> QED BY <2>1, <3>1, <3>4 DEF Settled
  <2> QED BY <2>1
<1>3. Reset(b) = b
  BY <1>2
<1> HIDE DEF dropped, stale, end
<1> QED BY <1>1, <1>3 DEF end

-----------------------------------------------------------------------------
(* The steps.                                                                *)

(* Heads that were never None are loaded as they were saved.                 *)
LEMMA LoadedAsSaved ==
  ASSUME NEW m \in HeadRecord
  PROVE  /\ LoadHeads(m).vm = m.vm /\ LoadHeads(m).headHeader = m.headHeader
         /\ LoadHeads(m).headBlock = m.headBlock
  BY BlockFacts DEF HeadRecord, LoadHeads

LEMMA InitChain == Init => ChainInv
<1> SUFFICES ASSUME Init PROVE ChainInv
  OBVIOUS
<1>1. db.known = {Genesis} /\ db.heads = NoOps.heads /\ lock = "free"
      /\ exec.failed = None /\ mem = Saved
  BY DEF Init, Idle, Saved
<1>2. Saved.vm = Genesis /\ Saved.headHeader = Genesis /\ Saved.headBlock = Genesis
  BY <1>1 DEF Saved, LoadHeads, NoOps
<1>3. Upward(db.known)
  BY <1>1, BlockFacts DEF Upward
<1>4. Spells(db.canon, Genesis)
  <2>1. db.canon = [n \in Heights |-> IF n = 0 THEN Genesis ELSE None]
    BY DEF Init
  <2>2. \A n \in Heights : n <= 0 <=> n = 0
    BY BlockFacts
  <2> QED BY <2>1, <2>2, BlockFacts, LineageBlocks DEF Spells
<1> QED BY <1>1, <1>2, <1>3, <1>4, BlockFacts DEF ChainInv, Tip, HeadsIn

(* The decision of a put.                                                    *)
LEMMA PutDecideChain ==
  ASSUME TypeInv, ChainInv, NEW b \in Blocks, NEW kind \in Kinds, PutDecide(b, kind)
  PROVE  ChainInv'
<1> DEFINE canonical == ProofOfStake \/ TD[b] > TD[mem.headHeader]
<1>1. /\ lock = "free" /\ b \in Blocks \ {Genesis} /\ BlockReadable(Parent[b])
      /\ lock' = "put" /\ UNCHANGED <<opt, db, exec, executed, crashes>>
  BY DEF PutDecide
<1>2. mem.headHeader = Tip /\ HeadsIn(mem, db.known) /\ Parent[b] \in db.known
      /\ Tip \in Blocks
  BY <1>1, SavedTypes DEF ChainInv, BlockReadable, Readable
<1>3. ops'.known = {b} /\ ops'.heads = mem'
  BY DEF PutDecide
<1>4. CASE canonical
  <2>1. mem' = RebuiltHeads(b, kind) /\ ops'.canon = RebuiltCanon(b)
    BY <1>4 DEF PutDecide
  <2>2. /\ mem'.headHeader = b /\ mem'.vm \in {mem.vm, b, WalkEnd(b)}
        /\ mem'.headBlock \in {mem.headBlock, b, WalkEnd(b)}
        /\ kind = "block" => mem'.headBlock = b
    BY <1>1, <2>1, RebuiltHeadsFacts
  <2>3. WalkEnd(b) \in db.known
    BY <1>1, WalkMeetsChain, StoredLineage DEF ChainInv, HeadsIn, Tip
  <2>4. HeadsIn(mem', db.known \cup {b})
    BY <1>2, <2>2, <2>3 DEF HeadsIn
  <2>5. Spells(Batch(ops)'.canon, b)
    <3>1. Batch(ops)'.canon = [n \in Heights |-> IF n \in DOMAIN RebuiltCanon(b)
                                   THEN RebuiltCanon(b)[n] ELSE db.canon[n]]
      BY <1>1, <2>1 DEF Batch
    <3> QED BY <1>1, <3>1, RebuiltSpells
  <2>6. Decided(b)'
    BY <1>1, <1>2, <1>3, <1>4, <2>2, <2>4, <2>5 DEF Decided, Tip, Saved
  <2>7. Kinds = {"block"} => mem'.headBlock = mem'.headHeader
    BY <2>2
  <2> QED BY <1>1, <2>6, <2>7 DEF ChainInv, Tip, Saved, Kinds
<1>5. CASE ~canonical
  <2>1. /\ mem' = IF TD[b] > TD[mem.headBlock] /\ kind = "block"
                  THEN [mem EXCEPT !.headBlock = b] ELSE mem
        /\ DOMAIN ops'.canon = {}
    BY <1>5 DEF PutDecide
  <2>2. /\ mem'.headHeader = mem.headHeader /\ mem'.vm = mem.vm
        /\ mem'.headBlock \in {mem.headBlock, b}
        /\ mem.headBlock = mem.headHeader => mem'.headBlock = mem.headBlock
    BY <1>5, <2>1 DEF TypeInv, TypeOK, HeadRecord
  <2>3. HeadsIn(mem', db.known \cup {b})
    BY <1>2, <2>2 DEF HeadsIn
  <2>4. Batch(ops)'.canon = db.canon
    <3>1. Batch(ops)'.canon = [n \in Heights |-> db.canon[n]]
      BY <1>1, <2>1 DEF Batch
    <3> QED BY <3>1 DEF TypeInv, Database
  <2>5. Decided(b)'
    BY <1>1, <1>2, <1>3, <1>5, <2>2, <2>3, <2>4 DEF Decided, Tip, Saved, ChainInv
  <2>6. Kinds = {"block"} => mem'.headBlock = mem'.headHeader
    BY <2>2 DEF ChainInv
  <2> QED BY <1>1, <2>5, <2>6 DEF ChainInv, Tip, Saved, Kinds
<1> QED BY <1>4, <1>5

(* Its batch.                                                                *)
LEMMA PutCommitChain ==
  ASSUME TypeInv, ChainInv, PutCommit
  PROVE  ChainInv'
<1>1. lock = "put" /\ db' = Batch(ops) /\ lock' = "free"
      /\ UNCHANGED <<opt, mem, exec, executed, crashes>>
  BY DEF PutCommit
<1>2. PICK b \in Blocks : Decided(b)
  BY <1>1 DEF ChainInv
<1>3. /\ db'.known = db.known \cup {b} /\ db'.canon = Batch(ops).canon
      /\ db'.heads = mem
  BY <1>1, <1>2 DEF Decided, Batch
<1>4. /\ Saved'.vm = mem.vm /\ Tip' = mem.headHeader /\ Saved'.headHeader = mem.headHeader
      /\ Saved'.headBlock = mem.headBlock
  BY <1>3, LoadedAsSaved DEF Saved, Tip, TypeInv, TypeOK
<1>5. Upward(db'.known)
  BY <1>2, <1>3 DEF Upward, Decided, ChainInv
<1>6. ASSUME ~ProofOfStake, NEW x \in db'.known PROVE TD[x] <= TD[Tip']
  <2>1. TD[b] \in Nat /\ TD[Tip] \in Nat
    BY SavedTypes, BlockFacts
  <2>2. x = b \/ TD[x] <= TD[Tip]
    BY <1>3, <1>6 DEF ChainInv
  <2>3. TD[x] \in Nat
    BY <1>3, <1>6, BlockFacts DEF TypeInv, TypeOK
  <2>4. Tip' = IF TD[b] > TD[Tip] THEN b ELSE Tip
    BY <1>2, <1>4, <1>6 DEF Decided
  <2> QED BY <2>1, <2>2, <2>3, <2>4
<1>7. HeadsIn(Saved', db'.known) /\ HeadsIn(mem', db'.known) /\ mem' = mem
  BY <1>1, <1>2, <1>3, <1>4 DEF HeadsIn, Decided
<1>8. Spells(db'.canon, Tip')
  BY <1>2, <1>3, <1>4 DEF Decided
<1>9. exec'.failed \in db'.known \cup {None}
  BY <1>1, <1>3 DEF ChainInv
<1>10. Genesis \in db'.known
  BY <1>3 DEF ChainInv
<1>11. Kinds' = {"block"} => mem'.headBlock = mem'.headHeader /\ Saved'.headBlock = Tip'
  BY <1>1, <1>4 DEF ChainInv, Kinds
<1> QED BY <1>1, <1>4, <1>5, <1>6, <1>7, <1>8, <1>9, <1>10, <1>11 DEF ChainInv

(* The steps that move at most the iterator head, in memory or with a save   *)
(* of all heads.                                                             *)
LEMMA IteratorChain ==
  ASSUME TypeInv, ChainInv, opt' = opt, lock # "put", lock' # "put",
         mem' \in HeadRecord, mem'.headHeader = mem.headHeader,
         mem'.headBlock = mem.headBlock, mem'.vm \in db.known,
         db' = db \/ db' = [db EXCEPT !.heads = mem'],
         exec'.failed \in db.known \cup {None}
  PROVE  ChainInv'
<1>1. mem.headHeader = Tip /\ HeadsIn(mem', db.known)
  BY DEF ChainInv, HeadsIn
<1>2. db'.known = db.known /\ db'.canon = db.canon
  BY DEF TypeInv, Database
<1>3. /\ Tip' = Tip /\ HeadsIn(Saved', db.known)
      /\ Kinds = {"block"} => Saved'.headBlock = Tip
  <2>1. CASE db' = db
    BY <2>1 DEF Saved, Tip, ChainInv
  <2>2. CASE db' = [db EXCEPT !.heads = mem']
    <3>1. db'.heads = mem'
      BY <2>2 DEF TypeInv, Database
    <3>2. Saved'.vm = mem'.vm /\ Saved'.headHeader = mem'.headHeader
          /\ Saved'.headBlock = mem'.headBlock
      BY <3>1, LoadedAsSaved DEF Saved
    <3> QED BY <1>1, <3>2 DEF Tip, HeadsIn, ChainInv
  <2> QED BY <2>1, <2>2
<1> QED BY <1>1, <1>2, <1>3 DEF ChainInv, Kinds, Tip

(* The steps of an execution, of either runner, that deletes nothing.        *)
LEMMA ExecutionChain ==
  ASSUME TypeInv, ChainInv,
         RunChain \/ RunChainBlock \/ RunChainEnd \/ RunStart \/ RunCheck
            \/ RunIterate \/ RunBlock \/ RunIterated \/ RunRepair
  PROVE  ChainInv'
<1>1. mem \in HeadRecord /\ exec \in ExecType
  BY DEF TypeInv, TypeOK, ExecType
<1>2. exec.failed \in db.known \cup {None}
  BY DEF ChainInv
<1>3. CASE RunChain \/ RunIterate
  <2>1. /\ lock = "free" /\ lock' = "iterator" /\ mem.vm \in db.known
        /\ UNCHANGED <<opt, mem, db>>
        /\ exec' = [exec EXCEPT !.phase = "iterate", !.next = Number[mem.vm] + 1,
                                !.count = 0, !.failed = None]
    BY <1>3 DEF RunChain, RunIterate, IterateStart
  <2>2. exec'.failed = None
    BY <1>1, <2>1 DEF ExecType
  <2> QED BY <1>1, <2>1, <2>2, IteratorChain
<1>4. CASE RunChainBlock \/ RunBlock
  <2> DEFINE b == Canon(exec.next)
  <2>1. /\ exec.phase = "iterate" /\ HasNext /\ mem' = [mem EXCEPT !.vm = b]
        /\ UNCHANGED <<opt, db, lock>>
    BY <1>4 DEF RunChainBlock, RunBlock
  <2>2. b \in db.known /\ b \in Blocks
    BY <2>1, NextTypes DEF HasNext, BlockReadable, Readable
  <2>3. lock = "iterator"
    BY <2>1 DEF TypeInv
  <2>4. exec'.failed \in {exec.failed, b}
    BY <1>1, <1>4 DEF RunChainBlock, RunBlock, ExecType
  <2>5. mem' \in HeadRecord /\ mem'.vm = b /\ mem'.headHeader = mem.headHeader
        /\ mem'.headBlock = mem.headBlock
    BY <1>1, <2>1, <2>2 DEF HeadRecord
  <2> QED BY <1>2, <2>1, <2>2, <2>3, <2>4, <2>5, IteratorChain
<1>5. CASE RunChainEnd \/ RunIterated
  <2>1. /\ exec.phase = "iterate" /\ db' = [db EXCEPT !.heads = mem] /\ lock' = "free"
        /\ UNCHANGED <<opt, mem>>
    BY <1>5 DEF RunChainEnd, RunIterated, IterateSaved
  <2>2. lock = "iterator"
    BY <2>1 DEF TypeInv
  <2>3. exec'.failed \in {exec.failed, None}
    <3>1. RunChainEnd => exec'.failed = None
      BY DEF RunChainEnd, Idle
    <3>2. RunIterated => exec'.failed = exec.failed
      BY <1>1 DEF RunIterated, ExecType
    <3> QED BY <1>5, <3>1, <3>2
  <2>4. mem.vm \in db.known
    BY <2>2 DEF ChainInv, HeadsIn
  <2> QED BY <1>1, <1>2, <2>1, <2>2, <2>3, <2>4, IteratorChain
<1>6. CASE RunRepair
  <2>1. /\ exec.phase = "repair" /\ lock = "free" /\ lock' = "free"
        /\ mem' = [mem EXCEPT !.vm = Parent[exec.failed]]
        /\ db' = [db EXCEPT !.heads = mem'] /\ opt' = opt
        /\ exec' = [exec EXCEPT !.phase = "idle"]
    BY <1>6 DEF RunRepair
  <2>2. exec.failed \in db.known /\ exec.failed # Genesis
    BY <1>2, <2>1 DEF TypeInv
  <2>3. Parent[exec.failed] \in db.known /\ Parent[exec.failed] \in Blocks
    BY <2>2 DEF ChainInv, Upward
  <2>4. mem' \in HeadRecord /\ mem'.vm = Parent[exec.failed]
        /\ mem'.headHeader = mem.headHeader /\ mem'.headBlock = mem.headBlock
    BY <1>1, <2>1, <2>3 DEF HeadRecord
  <2>5. exec'.failed = exec.failed
    BY <1>1, <2>1 DEF ExecType
  <2> QED BY <1>2, <2>1, <2>3, <2>4, <2>5, IteratorChain
<1>7. CASE RunStart \/ RunCheck
  <2>1. UNCHANGED <<opt, mem, db, lock, ops>>
    BY <1>7 DEF RunStart, RunCheck
  <2>2. exec'.failed \in {exec.failed, None}
    <3>1. Idle \in ExecType /\ Idle.failed = None
      BY DEF Idle, ExecType
    <3>2. RunStart => exec'.failed = None
      <4>1. RunStart => exec' = [Idle EXCEPT !.running = TRUE, !.phase = "check"]
        BY DEF RunStart
      <4> QED BY <3>1, <4>1 DEF ExecType
    <3>3. RunCheck => exec'.failed \in {exec.failed, None}
      <4>1. RunCheck => exec' = [exec EXCEPT !.phase = "acquire"] \/ exec' = Idle
        BY DEF RunCheck
      <4> QED BY <1>1, <3>1, <4>1 DEF ExecType
    <3> QED BY <1>7, <3>2, <3>3
  <2> QED BY <1>2, <2>1, <2>2
          DEF ChainInv, Decided, Tip, Saved, Kinds, Batch
<1> QED BY <1>3, <1>4, <1>5, <1>6, <1>7

(* A restart reads the heads of the last batch.                              *)
LEMMA CrashChain ==
  ASSUME TypeInv, ChainInv, Crash
  PROVE  ChainInv'
<1>1. mem' = Saved /\ lock' = "free" /\ exec'.failed = None /\ UNCHANGED <<opt, db>>
  BY DEF Crash, Saved, Idle
<1> QED BY <1>1 DEF ChainInv, Tip, Saved, Kinds

(* Every step but a deletion keeps the chain.                                *)
LEMMA NextChain ==
  ASSUME TypeInv, ChainInv, [Next /\ ~RunChainFails]_vars
  PROVE  ChainInv'
<1>1. CASE Put
  BY <1>1, PutDecideChain DEF Put
<1>2. CASE PutCommit
  BY <1>2, PutCommitChain
<1>3. CASE RunChain \/ RunChainBlock \/ RunChainEnd \/ RunStart \/ RunCheck
             \/ RunIterate \/ RunBlock \/ RunIterated \/ RunRepair
  BY <1>3, ExecutionChain
<1>4. CASE Crash
  BY <1>4, CrashChain
<1>5. CASE UNCHANGED vars
  BY <1>5 DEF vars, ChainInv, Decided, Tip, Saved, Kinds, Batch
<1> QED BY <1>1, <1>2, <1>3, <1>4, <1>5 DEF Next

-----------------------------------------------------------------------------
(* The client, which deletes no block.                                       *)

ClientInv == TypeInv /\ (Runner = "client" => ChainInv)

LEMMA ClientInvariant == Spec => []ClientInv
<1>1. Init => ClientInv
  BY InitTypes, InitChain DEF ClientInv
<1>2. ClientInv /\ [Next]_vars => ClientInv'
  <2> SUFFICES ASSUME ClientInv, [Next]_vars PROVE ClientInv'
    OBVIOUS
  <2>1. TypeInv'
    BY NextTypesKept DEF ClientInv
  <2>2. ASSUME Runner' = "client" PROVE ChainInv'
    <3>1. opt' = opt
      BY DEF Next, vars, Put, PutDecide, PutCommit, RunChain, RunIterate, IterateStart,
             RunChainBlock, RunChainFails, RunChainEnd, RunStart, RunCheck, RunBlock,
             RunIterated, RunRepair, Crash
    <3>2. Runner = "client" /\ ~RunChainFails
      BY <2>2, <3>1 DEF Runner, RunChainFails
    <3> QED BY <3>2, NextChain DEF ClientInv
  <2> QED BY <2>1, <2>2 DEF ClientInv
<1> QED BY <1>1, <1>2, PTL DEF Spec

(* The properties of the index, of the saved heads and of the top follow.    *)
LEMMA ChainProperties ==
  ASSUME TypeInv, ChainInv
  PROVE  /\ CanonicalLinked
         /\ \A h \in DOMAIN db.heads : LoadHeads(db.heads)[h] \in db.known
         /\ lock = "free" => /\ Canon(Number[mem.headHeader]) = mem.headHeader
                             /\ Canon(Number[mem.headHeader] + 1) = None
                             /\ Kinds = {"block"} => mem.headBlock = mem.headHeader
         /\ lock = "free" /\ ~ProofOfStake =>
               \A b \in db.known : TD[b] <= TD[mem.headHeader]
<1>1. Tip \in Blocks /\ Tip \in db.known /\ Spells(db.canon, Tip)
  BY SavedTypes DEF ChainInv, HeadsIn, Tip
<1>2. ASSUME NEW n \in Heights \ {0}, Canon(n) # None
      PROVE  /\ Number[Canon(n)] = n /\ Canon(n) \in db.known
             /\ Canon(n - 1) = Parent[Canon(n)]
  <2> DEFINE x == Canon(n)
  <2>1. x \in Lineage[Tip] /\ Number[x] = n
    BY <1>1, <1>2, CanonFacts
  <2>2. x \in Blocks /\ x # Genesis /\ n \in Nat
    BY <1>1, <1>2, <2>1, LineageBlocks, BlockFacts
  <2>3. Parent[x] \in Blocks /\ Number[Parent[x]] = n - 1
    BY <2>1, <2>2, BlockFacts
  <2>4. Parent[x] \in Lineage[x]
    BY <2>2, <2>3, LineageStep, LineageBlocks
  <2>5. Parent[x] \in Lineage[Tip]
    BY <1>1, <2>1, <2>4, LineageChain
  <2>6. Canon(n - 1) = Parent[x]
    BY <1>1, <2>3, <2>5, CanonFacts
  <2> QED BY <1>1, <2>1, <2>6, StoredLineage
<1>3. CanonicalLinked
  BY <1>2 DEF CanonicalLinked
<1>4. ASSUME NEW h \in DOMAIN db.heads PROVE LoadHeads(db.heads)[h] \in db.known
  <2>1. h \in {"vm", "headHeader", "headBlock"}
    BY <1>4 DEF TypeInv, Database, SavedHeads
  <2> QED BY <2>1 DEF ChainInv, HeadsIn, Saved
<1>5. ASSUME lock = "free"
      PROVE  /\ Canon(Number[mem.headHeader]) = mem.headHeader
             /\ Canon(Number[mem.headHeader] + 1) = None
             /\ Kinds = {"block"} => mem.headBlock = mem.headHeader
             /\ ~ProofOfStake => \A b \in db.known : TD[b] <= TD[mem.headHeader]
  <2>1. mem.headHeader = Tip
    BY <1>5 DEF ChainInv
  <2>2. Tip \in Lineage[Tip] /\ Number[Tip] + 1 \in Nat /\ ~(Number[Tip] + 1 <= Number[Tip])
    BY <1>1, LineageBlocks, BlockFacts
  <2> QED BY <1>1, <2>1, <2>2, CanonFacts DEF ChainInv
<1> QED BY <1>3, <1>4, <1>5

(* A client's number index always spells one chain of stored blocks without  *)
(* a gap, whatever the tree of blocks, the order of the puts and the crashes *)
(* between the decision of a put and its batch.                              *)
THEOREM ClientLinked == Spec => [](Runner = "client" => CanonicalLinked)
<1>1. ClientInv => (Runner = "client" => CanonicalLinked)
  BY ChainProperties DEF ClientInv
<1> QED BY <1>1, ClientInvariant, PTL

(* The heads a restarted client loads are stored blocks.                     *)
THEOREM RestartFindsHeads == Spec => []SavedHeadsStored
<1>1. ClientInv => SavedHeadsStored
  BY ChainProperties DEF ClientInv, SavedHeadsStored
<1> QED BY <1>1, ClientInvariant, PTL

(* The comparison of each put with the current head alone keeps the heaviest *)
(* of all stored blocks on top.                                              *)
THEOREM HeadIsHeaviest == Spec => []HeaviestHead
<1>1. ClientInv => HeaviestHead
  BY ChainProperties DEF ClientInv, HeaviestHead
<1> QED BY <1>1, ClientInvariant, PTL

-----------------------------------------------------------------------------
(* The client's store implements ForkChoice: the head is the saved head, and *)
(* the steps that are not stutters are the batches of the puts.              *)

LEMMA SameLineage == FC!Lineage = Lineage
  BY DEF FC!Lineage, Lineage

LEMMA SameHeights == FC!Heights = Heights
  BY DEF FC!Heights, Heights

(* The block at the top of the index is the saved head.                      *)
LEMMA TopIsTip ==
  ASSUME TypeInv, ChainInv
  PROVE  Top = Tip
<1>1. Tip \in Blocks /\ Spells(db.canon, Tip)
  BY SavedTypes DEF ChainInv
<1>2. Canon(Number[Tip]) = Tip /\ \A n \in Heights : n > Number[Tip] => Canon(n) = None
  <2>1. Tip \in Lineage[Tip] /\ Number[Tip] \in Nat
    BY <1>1, LineageBlocks, BlockFacts
  <2> QED BY <1>1, <2>1, CanonFacts, BlockFacts
<1>3. ASSUME NEW b \in Blocks, Canon(Number[b]) = b,
             \A n \in Heights : n > Number[b] => Canon(n) = None
      PROVE  b = Tip
  <2>1. b \in Lineage[Tip]
    BY <1>1, <1>3, CanonFacts
  <2>2. ~(Number[Tip] > Number[b])
    BY <1>1, <1>2, <1>3, BlockFacts
  <2> QED BY <1>1, <2>1, <2>2, LineageBlocks, BlockFacts
<1> QED BY <1>1, <1>2, <1>3 DEF Top

(* The index is the one ForkChoice gives that head.                          *)
LEMMA IndexIsChain ==
  ASSUME TypeInv, ChainInv
  PROVE  db.canon = FC!ChainTo(Tip)
<1>1. Tip \in Blocks /\ Spells(db.canon, Tip) /\ DOMAIN db.canon = Heights
      /\ db.canon = [n \in Heights |-> db.canon[n]]
  BY SavedTypes DEF ChainInv, TypeInv, Database
<1>2. ASSUME NEW n \in Heights
      PROVE  db.canon[n] = IF n > Number[Tip] THEN None
                           ELSE CHOOSE x \in Lineage[Tip] : Number[x] = n
  <2>1. n \in Nat /\ Number[Tip] \in Nat
    BY <1>1, BlockFacts
  <2>2. CASE n > Number[Tip]
    BY <1>1, <2>1, <2>2 DEF Spells
  <2>3. CASE ~(n > Number[Tip])
    <3>1. db.canon[n] \in Lineage[Tip] /\ Number[db.canon[n]] = n
      BY <1>1, <2>1, <2>3 DEF Spells
    <3>2. \A x \in Lineage[Tip] : Number[x] = n => x = db.canon[n]
      BY <1>1, <3>1, LineageChain
    <3> QED BY <2>3, <3>1, <3>2
  <2> QED BY <2>2, <2>3
<1>3. FC!ChainTo(Tip) = [n \in Heights |-> IF n > Number[Tip] THEN None
                           ELSE CHOOSE x \in Lineage[Tip] : Number[x] = n]
  BY SameLineage, SameHeights DEF FC!ChainTo
<1> QED BY <1>1, <1>2, <1>3

(* Both hold of the next state as well, if the invariants do.                *)
LEMMA ChainNext ==
  (TypeInv /\ ChainInv)' => Top' = Tip' /\ db'.canon = FC!ChainTo(Tip')
<1>1. TypeInv /\ ChainInv => Top = Tip /\ db.canon = FC!ChainTo(Tip)
  BY TopIsTip, IndexIsChain
<1>2. (TypeInv /\ ChainInv)' => (Top = Tip /\ db.canon = FC!ChainTo(Tip))'
  BY <1>1, PTL
<1> QED BY <1>2 DEF FC!ChainTo

(* It starts where ForkChoice starts.                                        *)
LEMMA InitRefines == Init => FC!FInit
<1> SUFFICES ASSUME Init PROVE FC!FInit
  OBVIOUS
<1>1. TypeInv /\ ChainInv
  BY InitTypes, InitChain
<1>2. Tip = Genesis
  BY DEF Init, Tip, Saved, LoadHeads, NoOps
<1>3. db.known = {Genesis}
  BY DEF Init
<1> QED BY <1>1, <1>2, <1>3, TopIsTip, IndexIsChain DEF FC!FInit

(* A batch is the arrival of its block.                                      *)
LEMMA PutCommitRefines ==
  ASSUME TypeInv, ChainInv, PutCommit
  PROVE  \E b \in Blocks \ {Genesis} : FC!Arrive(b)
<1>1. TypeInv' /\ ChainInv'
  BY PutCommitTypes, PutCommitChain
<1>2. lock = "put" /\ db' = Batch(ops) /\ mem' = mem
  BY DEF PutCommit
<1>3. PICK b \in Blocks : Decided(b)
  BY <1>2 DEF ChainInv
<1>4. db'.known = db.known \cup {b} /\ db'.heads = mem
  BY <1>2, <1>3 DEF Decided, Batch
<1>5. Tip' = mem.headHeader
  BY <1>4, LoadedAsSaved DEF Saved, Tip, TypeInv, TypeOK
<1>6. Top = Tip /\ Top' = Tip' /\ db'.canon = FC!ChainTo(Tip')
  BY <1>1, TopIsTip, ChainNext
<1> QED BY <1>3, <1>4, <1>5, <1>6 DEF Decided, FC!Arrive

(* Every other step but a deletion leaves what ForkChoice shows alone.       *)
LEMMA NextRefines ==
  ASSUME ClientInv, Runner = "client", [Next]_vars
  PROVE  [FC!FNext]_<<db.known, Top, db.canon>>
<1>1. CASE PutCommit
  BY <1>1, PutCommitRefines DEF ClientInv, FC!FNext
<1>2. CASE [Next /\ ~PutCommit]_vars
  <2>1. ~RunChain /\ ~RunChainBlock /\ ~RunChainFails /\ ~RunChainEnd
    BY DEF RunChain, RunChainBlock, RunChainFails, RunChainEnd
  <2>2. db' = db \/ db' = [db EXCEPT !.heads = mem']
    BY <1>2, <2>1 DEF Next, vars, Put, PutDecide, RunIterate, IterateStart, RunStart,
           RunCheck, RunBlock, RunIterated, IterateSaved, RunRepair, Crash
  <2>3. db'.known = db.known /\ db'.canon = db.canon
    BY <2>2 DEF ClientInv, TypeInv, Database
  <2>4. Top' = Top
    BY <2>3 DEF Top, Canon
  <2> QED BY <2>3, <2>4
<1> QED BY <1>1, <1>2

(* The database of a client, read through its number index, is a set of      *)
(* connected blocks with the heaviest on top, whatever lies between the      *)
(* decision of a put and its batch: a reader, or a restart, never sees half  *)
(* of a reorganisation.                                                      *)
THEOREM ClientImplementsForkChoice ==
  Spec /\ Runner = "client" => ImplementsForkChoice
<1>1. Runner = "client" /\ [Next]_vars => (Runner = "client")'
  BY DEF Next, vars, Put, PutDecide, PutCommit, RunChain, RunIterate, IterateStart,
         RunChainBlock, RunChainFails, RunChainEnd, RunStart, RunCheck, RunBlock,
         RunIterated, RunRepair, Crash, Runner
<1>2. ClientInv /\ Runner = "client" /\ [Next]_vars
        => [FC!FNext]_<<db.known, Top, db.canon>>
  BY NextRefines
<1> QED BY <1>1, <1>2, InitRefines, ClientInvariant, PTL
        DEF Spec, ImplementsForkChoice, FC!FSpec

-----------------------------------------------------------------------------
(* Execution where no block fails, by either runner.                         *)

(* A heavier block is not a lower one: the difficulties of equal heights may *)
(* differ, but no height outweighs another.  Without it the iterator head    *)
(* may land on a block that was never run (the run chain_short_reorg).       *)
HeavierIsHigher == \A a, b \in Blocks : TD[a] > TD[b] => Number[a] >= Number[b]

(* A reorganisation moves an iterator head of the old chain onto the new     *)
(* one, and to a block of its own past unless the new chain is the lower.    *)
LEMMA RebuiltVm ==
  ASSUME TypeInv, ChainInv, NEW b \in Blocks \ {Genesis}, BlockReadable(Parent[b]),
         NEW kind, mem.vm \in Lineage[Tip]
  PROVE  /\ RebuiltHeads(b, kind).vm \in Lineage[b]
         /\ Number[Tip] <= Number[b] => RebuiltHeads(b, kind).vm \in Lineage[mem.vm]
<1> DEFINE dropped == {Canon(n) : n \in AssignedFrom(Number[b] + 1)}
           stale   == {Canon(Number[x]) : x \in Rebuilt(b)} \ {None}
           e       == WalkEnd(b)
           v       == mem.vm
           w       == RebuiltHeads(b, kind).vm
<1>1. Tip \in Blocks /\ Spells(db.canon, Tip) /\ v \in Blocks
  BY SavedTypes DEF ChainInv, TypeInv, TypeOK, HeadRecord
<1>2. e \in Lineage[b] /\ e \in Lineage[Tip] /\ Settled(e) /\ e \in Blocks
  BY WalkMeetsChain, LineageBlocks
<1>3. w = IF v \in dropped THEN b ELSE IF v \in stale THEN e ELSE v
  BY <1>2 DEF RebuiltHeads
<1>4. /\ Rebuilt(b) = {x \in Lineage[b] : Number[x] > Number[e]}
      /\ AssignedFrom(Number[b] + 1) = {n \in Heights : n > Number[b] /\ n <= Number[Tip]}
  BY WalkRebuilds
<1>5. Canon(Number[v]) = v /\ Number[v] \in Heights /\ Number[v] <= Number[Tip]
      /\ Number[v] \in Nat /\ Number[b] \in Nat /\ Number[e] \in Nat /\ Number[Tip] \in Nat
      /\ Heights \subseteq Nat
  BY <1>1, <1>2, CanonFacts, LineageBlocks, BlockFacts
<1>6. CASE v \in dropped
  <2>1. ~(Number[Tip] <= Number[b])
    <3>1. PICK n \in AssignedFrom(Number[b] + 1) : v = Canon(n)
      BY <1>6
    <3>2. n \in Nat /\ n > Number[b] /\ n <= Number[Tip]
      BY <1>4, <1>5, <3>1
    <3> QED BY <1>5, <3>2
  <2> QED BY <1>3, <1>6, <2>1, LineageBlocks
<1>7. CASE v \notin dropped /\ v \in stale
  <2>1. PICK x \in Rebuilt(b) : v = Canon(Number[x])
    BY <1>7
  <2>2. Number[v] = Number[x] /\ Number[e] <= Number[v]
    BY <1>1, <1>4, <1>5, <2>1, CanonTypes, BlockFacts
  <2>3. e \in Lineage[v]
    BY <1>1, <1>2, <2>2, LineageChain
  <2>4. w = e
    BY <1>3, <1>7
  <2> QED BY <1>2, <2>3, <2>4
<1>8. CASE v \notin dropped /\ v \notin stale
  <2>1. Number[v] <= Number[b]
    <3>1. Number[v] > Number[b] => Number[v] \in AssignedFrom(Number[b] + 1)
      BY <1>4, <1>5
    <3>2. Number[v] > Number[b] => v \in dropped
      BY <1>5, <3>1
    <3> QED BY <1>5, <1>8, <3>2
  <2>2. Number[v] <= Number[e]
    <3>1. PICK x \in Lineage[b] : Number[x] = Number[v]
      BY <1>5, <2>1, LineageHeights
    <3>2. Number[v] > Number[e] => x \in Rebuilt(b)
      BY <1>4, <3>1
    <3>3. Number[v] > Number[e] => v \in stale
      BY <1>1, <1>5, <3>1, <3>2, BlockFacts
    <3> QED BY <1>5, <1>8, <3>3
  <2>3. v \in Lineage[e] /\ Lineage[e] \subseteq Lineage[b]
    BY <1>1, <1>2, <2>2, LineageChain
  <2>4. w = v /\ v \in Lineage[v]
    BY <1>1, <1>3, <1>8, LineageBlocks
  <2> QED BY <2>3, <2>4
<1> QED BY <1>6, <1>7, <1>8

(* What the iterator finds next is the child of its head, and it runs.       *)
LEMMA NextRuns ==
  ASSUME TypeInv, ChainInv, ExecutedInv, NothingFails, exec.phase = "iterate", HasNext
  PROVE  LET b == Canon(exec.next)
         IN  /\ b \in Lineage[Tip] /\ b \in Blocks /\ Number[b] = exec.next
             /\ Runs(b)
<1> DEFINE b == Canon(exec.next)
<1>1. b \in Blocks \ {Genesis} /\ Number[b] = exec.next /\ b \in db.known
  BY NextTypes DEF HasNext, BlockReadable, Readable
<1>2. Tip \in Blocks /\ Spells(db.canon, Tip) /\ lock = "iterator" /\ mem.headHeader = Tip
  BY SavedTypes DEF ChainInv, TypeInv
<1>3. b \in Lineage[Tip]
  BY <1>1, <1>2, CanonFacts
<1>4. mem.vm \in Lineage[Tip] /\ mem.vm \in Blocks /\ Number[b] = Number[mem.vm] + 1
  BY <1>1, <1>2, LineageBlocks DEF ExecutedInv
<1>5. Parent[b] \in Lineage[Tip] /\ Number[Parent[b]] = Number[mem.vm]
  <2>1. Parent[b] \in Blocks /\ Parent[b] \in Lineage[b]
    BY <1>1, LineageStep, LineageBlocks, BlockFacts
  <2>2. Parent[b] \in Lineage[Tip]
    BY <1>2, <1>3, <2>1, LineageChain
  <2>3. Number[b] = Number[Parent[b]] + 1 /\ Number[Parent[b]] \in Nat /\ Number[mem.vm] \in Nat
    BY <1>1, <1>4, <2>1, BlockFacts
  <2> QED BY <1>4, <2>2, <2>3
<1>6. Parent[b] = mem.vm
  BY <1>2, <1>4, <1>5, LineageChain
<1>7. Runs(b)
  BY <1>1, <1>6 DEF Runs, ExecutedInv, NothingFails
<1> QED BY <1>1, <1>3, <1>7

LEMMA InitExecuted == Init => ExecutedInv
<1> SUFFICES ASSUME Init PROVE ExecutedInv
  OBVIOUS
<1>1. /\ db.known = {Genesis} /\ db.bodies = {Genesis} /\ ops.known = {} /\ ops.bodies = {}
      /\ executed = {Genesis} /\ exec.failed = None /\ exec.phase = "idle"
      /\ mem.vm = Genesis /\ mem.headHeader = Genesis
      /\ Saved.vm = Genesis /\ Tip = Genesis
  BY DEF Init, Idle, NoOps, LoadHeads, Saved, Tip
<1> QED BY <1>1, LineageBlocks, BlockFacts DEF ExecutedInv, Upward

(* A put leaves the iterator head on an executed block of the chain to come. *)
LEMMA PutDecideExecuted ==
  ASSUME TypeInv, ChainInv, ExecutedInv, NothingFails, ~ProofOfStake, HeavierIsHigher,
         NEW b \in Blocks, NEW kind \in Kinds, PutDecide(b, kind)
  PROVE  ExecutedInv'
<1> DEFINE canonical == ProofOfStake \/ TD[b] > TD[mem.headHeader]
<1>1. /\ lock = "free" /\ b \in Blocks \ {Genesis} /\ BlockReadable(Parent[b])
      /\ UNCHANGED <<opt, db, exec, executed, crashes>>
      /\ ops'.known = {b} /\ kind = "block" /\ ops'.bodies = {b}
  BY DEF PutDecide, NothingFails
<1>2. mem.headHeader = Tip /\ exec.phase # "iterate" /\ Tip \in Blocks
  BY <1>1, SavedTypes DEF ChainInv, TypeInv
<1>3. mem.vm \in Lineage[Tip] /\ mem.vm \in executed
  BY <1>2 DEF ExecutedInv
<1>4. mem'.vm \in executed /\ mem'.vm \in Lineage[mem'.headHeader]
  <2>1. CASE canonical
    <3>1. mem' = RebuiltHeads(b, kind) /\ mem'.headHeader = b
      BY <2>1 DEF PutDecide, RebuiltHeads
    <3>2. Number[Tip] <= Number[b]
      BY <1>1, <1>2, <2>1, BlockFacts DEF HeavierIsHigher
    <3>3. mem'.vm \in Lineage[b] /\ mem'.vm \in Lineage[mem.vm]
      BY <1>1, <1>3, <3>1, <3>2, RebuiltVm
    <3>4. Lineage[mem.vm] \subseteq executed
      BY <1>3, LineageLeast DEF ExecutedInv
    <3> QED BY <3>1, <3>3, <3>4
  <2>2. CASE ~canonical
    <3>1. mem'.vm = mem.vm /\ mem'.headHeader = mem.headHeader
      <4>1. mem' \in {[mem EXCEPT !.headBlock = b], mem}
        BY <2>2 DEF PutDecide
      <4> QED BY <4>1 DEF TypeInv, TypeOK, HeadRecord
    <3> QED BY <1>2, <1>3, <3>1
  <2> QED BY <2>1, <2>2
<1> QED BY <1>1, <1>2, <1>4 DEF ExecutedInv, Saved, Tip

LEMMA PutCommitExecuted ==
  ASSUME TypeInv, ChainInv, ExecutedInv, PutCommit
  PROVE  ExecutedInv'
<1>1. lock = "put" /\ db' = Batch(ops) /\ ops' = NoOps
      /\ UNCHANGED <<opt, mem, exec, executed, crashes>>
  BY DEF PutCommit
<1>2. exec.phase # "iterate"
  BY <1>1 DEF TypeInv
<1>3. /\ db'.known = db.known \cup ops.known /\ db'.bodies = db.bodies \cup ops.bodies
      /\ db'.heads = mem
  BY <1>1 DEF Batch, ChainInv, Decided
<1>4. Saved'.vm = mem.vm /\ Tip' = mem.headHeader
  BY <1>3, LoadedAsSaved DEF Saved, Tip, TypeInv, TypeOK
<1>5. ops'.known = {} /\ ops'.bodies = {}
  BY <1>1 DEF NoOps
<1> QED BY <1>1, <1>2, <1>3, <1>4, <1>5 DEF ExecutedInv

(* The steps of either runner.                                               *)
LEMMA ExecutionExecuted ==
  ASSUME TypeInv, ChainInv, ExecutedInv, NothingFails,
         RunChain \/ RunChainBlock \/ RunChainEnd \/ RunStart \/ RunCheck
            \/ RunIterate \/ RunBlock \/ RunIterated
  PROVE  ExecutedInv'
<1>1. mem \in HeadRecord /\ exec \in ExecType /\ exec.failed = None
  BY DEF TypeInv, TypeOK, ExecType, ExecutedInv
<1>2. CASE RunChain \/ RunIterate
  <2>1. /\ UNCHANGED <<opt, mem, db, ops, executed>>
        /\ exec' = [exec EXCEPT !.phase = "iterate", !.next = Number[mem.vm] + 1,
                                !.count = 0, !.failed = None]
    BY <1>2 DEF RunChain, RunIterate, IterateStart
  <2>2. exec'.failed = None /\ exec'.next = Number[mem.vm] + 1
    BY <1>1, <2>1 DEF ExecType
  <2> QED BY <2>1, <2>2 DEF ExecutedInv, Saved, Tip
<1>3. CASE RunChainBlock \/ RunBlock
  <2> DEFINE b == Canon(exec.next)
  <2>1. /\ exec.phase = "iterate" /\ HasNext /\ mem' = [mem EXCEPT !.vm = b]
        /\ UNCHANGED <<opt, db, lock, ops>>
    BY <1>3 DEF RunChainBlock, RunBlock
  <2>2. b \in Lineage[Tip] /\ b \in Blocks /\ Number[b] = exec.next /\ Runs(b)
    BY <2>1, NextRuns
  <2>3. executed' = executed \cup {b} /\ exec'.failed = None /\ exec'.next = Number[b] + 1
    <3>1. CASE RunChainBlock
      <4>1. exec' = [exec EXCEPT !.next = @ + 1, !.count = 1]
            /\ executed' = executed \cup {b}
        BY <3>1 DEF RunChainBlock
      <4> QED BY <1>1, <2>2, <4>1 DEF ExecType
    <3>2. CASE RunBlock
      <4> DEFINE ok == exec.failed = None /\ Runs(b)
      <4>1. /\ exec' = [exec EXCEPT !.next = @ + 1, !.count = @ + 1,
                                    !.failed = IF ok \/ @ # None THEN @ ELSE b]
            /\ executed' = IF ok THEN executed \cup {b} ELSE executed
        BY <3>2 DEF RunBlock
      <4>2. ok
        BY <1>1, <2>2
      <4> HIDE DEF ok
      <4> QED BY <1>1, <2>2, <4>1, <4>2 DEF ExecType
    <3> QED BY <1>3, <3>1, <3>2
  <2>4. mem'.vm = b /\ mem'.headHeader = mem.headHeader /\ mem.headHeader = Tip
    BY <1>1, <2>1 DEF HeadRecord, ChainInv, TypeInv
  <2>5. Upward(executed')
    BY <2>2, <2>3 DEF Upward, Runs, ExecutedInv
  <2> QED BY <2>1, <2>2, <2>3, <2>4, <2>5 DEF ExecutedInv, Saved, Tip
<1>4. CASE RunChainEnd \/ RunIterated
  <2>1. /\ exec.phase = "iterate" /\ db' = [db EXCEPT !.heads = mem]
        /\ UNCHANGED <<opt, mem, ops, executed>>
    BY <1>4 DEF RunChainEnd, RunIterated, IterateSaved
  <2>2. exec'.phase # "iterate" /\ exec'.failed = None
    <3>1. RunChainEnd => exec'.phase # "iterate" /\ exec'.failed = None
      BY DEF RunChainEnd, Idle
    <3>2. RunIterated => exec'.phase # "iterate" /\ exec'.failed = None
      BY <1>1 DEF RunIterated, ExecType
    <3> QED BY <1>4, <3>1, <3>2
  <2>3. db'.known = db.known /\ db'.bodies = db.bodies /\ db'.heads = mem
    BY <2>1 DEF TypeInv, Database
  <2>4. Saved'.vm = mem.vm /\ Tip' = mem.headHeader
    BY <1>1, <2>3, LoadedAsSaved DEF Saved, Tip
  <2> QED BY <2>1, <2>2, <2>3, <2>4 DEF ExecutedInv
<1>5. CASE RunStart \/ RunCheck
  <2>1. UNCHANGED <<opt, mem, db, ops, executed>>
    BY <1>5 DEF RunStart, RunCheck
  <2>2. exec'.phase # "iterate" /\ exec'.failed = None
    <3>1. Idle \in ExecType /\ Idle.failed = None /\ Idle.phase = "idle"
      BY DEF Idle, ExecType
    <3>2. RunStart => exec' = [Idle EXCEPT !.running = TRUE, !.phase = "check"]
      BY DEF RunStart
    <3>3. RunCheck => exec' = [exec EXCEPT !.phase = "acquire"] \/ exec' = Idle
      BY DEF RunCheck
    <3> QED BY <1>1, <1>5, <3>1, <3>2, <3>3 DEF ExecType
  <2> QED BY <2>1, <2>2 DEF ExecutedInv, Saved, Tip
<1> QED BY <1>2, <1>3, <1>4, <1>5

(* A restart: the saved iterator head was executed, on the saved chain.      *)
LEMMA CrashExecuted ==
  ASSUME ExecutedInv, Crash
  PROVE  ExecutedInv'
<1>1. /\ mem' = Saved /\ exec'.failed = None /\ exec'.phase = "idle"
      /\ ops'.known = {} /\ ops'.bodies = {} /\ UNCHANGED <<db, executed>>
  BY DEF Crash, Saved, Idle, NoOps
<1> QED BY <1>1 DEF ExecutedInv, Tip, Saved

RunInv == TypeInv /\ (NothingFails => ChainInv /\ ExecutedInv)

LEMMA RunInvariant == ~ProofOfStake /\ HeavierIsHigher => (Spec => []RunInv)
<1> SUFFICES ASSUME ~ProofOfStake, HeavierIsHigher PROVE Spec => []RunInv
  OBVIOUS
<1>1. Init => RunInv
  BY InitTypes, InitChain, InitExecuted DEF RunInv
<1>2. RunInv /\ [Next]_vars => RunInv'
  <2> SUFFICES ASSUME RunInv, [Next]_vars, NothingFails' PROVE TypeInv' /\ ChainInv' /\ ExecutedInv'
    BY NextTypesKept DEF RunInv
  <2>1. opt' = opt
    BY DEF Next, vars, Put, PutDecide, PutCommit, RunChain, RunIterate, IterateStart,
           RunChainBlock, RunChainFails, RunChainEnd, RunStart, RunCheck, RunBlock,
           RunIterated, RunRepair, Crash
  <2>2. TypeInv /\ NothingFails /\ ChainInv /\ ExecutedInv
    BY <2>1 DEF RunInv, NothingFails, Bad, Kinds
  <2>3. ~RunChainFails
    BY <2>2, NextRuns DEF RunChainFails
  <2>4. ~RunRepair
    BY <2>2 DEF RunRepair, TypeInv, ExecutedInv
  <2>5. TypeInv' /\ ChainInv'
    BY <2>2, <2>3, NextTypesKept, NextChain
  <2>6. ExecutedInv'
    <3>1. CASE Put
      BY <2>2, <3>1, PutDecideExecuted DEF Put
    <3>2. CASE PutCommit
      BY <2>2, <3>2, PutCommitExecuted
    <3>3. CASE RunChain \/ RunChainBlock \/ RunChainEnd \/ RunStart \/ RunCheck
                 \/ RunIterate \/ RunBlock \/ RunIterated
      BY <2>2, <3>3, ExecutionExecuted
    <3>4. CASE Crash
      BY <2>2, <3>4, CrashExecuted
    <3>5. CASE UNCHANGED vars
      BY <2>2, <3>5 DEF vars, ExecutedInv, Saved, Tip
    <3> QED BY <2>3, <2>4, <3>1, <3>2, <3>3, <3>4, <3>5 DEF Next
  <2> QED BY <2>5, <2>6
<1> QED BY <1>1, <1>2, PTL DEF Spec

(* Where no block fails and no block outweighs a higher one, the VM has run  *)
(* every block up to its head, in memory and as saved, whichever runner it   *)
(* is, through reorganisations and crashes: none of the new chain is skipped. *)
THEOREM NoBlockSkipped ==
  ~ProofOfStake /\ HeavierIsHigher => (Spec => [](NothingFails => ExecutedToHead))
<1> SUFFICES ASSUME ~ProofOfStake, HeavierIsHigher
             PROVE  Spec => [](NothingFails => ExecutedToHead)
  OBVIOUS
<1>1. RunInv => (NothingFails => ExecutedToHead)
  BY LineageLeast DEF RunInv, ExecutedInv, ExecutedToHead, Saved
<1>2. Spec => []RunInv
  BY RunInvariant
<1> QED BY <1>1, <1>2, PTL

(* Under the same conditions the three heads are on the chain between puts:  *)
(* both others at its top, the iterator head below.                          *)
THEOREM HeadsStayOnChain ==
  ~ProofOfStake /\ HeavierIsHigher => (Spec => [](NothingFails => HeadsOnChain))
<1> SUFFICES ASSUME ~ProofOfStake, HeavierIsHigher
             PROVE  Spec => [](NothingFails => HeadsOnChain)
  OBVIOUS
<1>1. RunInv => (NothingFails => HeadsOnChain)
  <2> SUFFICES ASSUME RunInv, NothingFails, lock = "free"
               PROVE  Canon(Number[mem.vm]) = mem.vm /\ HeadsOnChain
    BY DEF HeadsOnChain
  <2>1. TypeInv /\ ChainInv /\ ExecutedInv /\ mem.headHeader = Tip
    BY DEF RunInv, ChainInv
  <2>2. Canon(Number[mem.vm]) = mem.vm
    <3>1. mem.vm \in Lineage[Tip] /\ mem.vm \in Blocks /\ Spells(db.canon, Tip)
      BY <2>1 DEF ExecutedInv, ChainInv, TypeInv, TypeOK, HeadRecord
    <3> QED BY <2>1, <3>1, CanonFacts
  <2> QED BY <2>1, <2>2, ChainProperties DEF HeadsOnChain
<1>2. Spec => []RunInv
  BY RunInvariant
<1> QED BY <1>1, <1>2, PTL

(* The client's head header is the top of the chain, and its head block too  *)
(* if only full blocks are put, even where blocks fail.                      *)
THEOREM ClientHeadsOnChain ==
  Spec => [](Runner = "client" /\ ~NothingFails => HeadsOnChain)
<1>1. ClientInv => (Runner = "client" /\ ~NothingFails => HeadsOnChain)
  BY ChainProperties DEF ClientInv, HeadsOnChain
<1> QED BY <1>1, ClientInvariant, PTL

=============================================================================
