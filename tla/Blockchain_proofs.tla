------------------------- MODULE Blockchain_proofs -------------------------
(* The block store for every tree of blocks: its types, the chain its number *)
(* index spells, what a crash leaves, and that it implements ForkChoice.     *)
EXTENDS Blockchain, WellFoundedInduction, TLAPS

-----------------------------------------------------------------------------
(* Induction.  The library's theorem on minimal elements of a set stands in  *)
(* for induction over the height of a block: a statement about all blocks is *)
(* the set of those that satisfy it.                                         *)

Below == {ss \in Nat \X Nat : ss[1] < ss[2]}

(* The order of the naturals is well founded.                                *)
LEMMA BelowWellFounded == IsWellFoundedOn(Below, Nat)
  BY NatLessThanWellFounded DEF OpToRel, Below

(* A set of naturals that is not empty has a least element.                  *)
LEMMA LeastElement ==
  ASSUME NEW S, S \subseteq Nat, S # {}
  PROVE  \E m \in S : \A k \in S : m <= k
<1>1. PICK m \in S : \A k \in S : ~(<<k, m>> \in Below)
  BY BelowWellFounded, WFMin
<1>2. ASSUME NEW k \in S PROVE m <= k
  <2>1. m \in Nat /\ k \in Nat
    OBVIOUS
  <2>2. <<k, m>> \in Nat \X Nat
    BY <2>1
  <2>3. ~(k < m)
    BY <1>1, <2>2 DEF Below
  <2> QED BY <2>1, <2>3
<1> QED BY <1>2

(* What BlocksAssumption says of heights and parents.                        *)
LEMMA BlockFacts ==
  /\ Genesis \in Blocks /\ Number[Genesis] = 0
  /\ \A b \in Blocks : Number[b] \in Nat /\ Number[b] \in Heights /\ b # None
  /\ \A b \in Blocks : TD[b] \in Nat
  /\ \A b \in Blocks \ {Genesis} :
        /\ Parent[b] \in Blocks /\ Number[b] = Number[Parent[b]] + 1
        /\ TD[b] > TD[Parent[b]]
  /\ Heights \subseteq Nat
  BY BlocksAssumption DEF Heights

(* A set that holds the genesis block and, with a parent, its children holds *)
(* every block.                                                              *)
LEMMA BlockInduction ==
  ASSUME NEW S, Genesis \in S,
         \A b \in Blocks \ {Genesis} : Parent[b] \in S => b \in S
  PROVE  Blocks \subseteq S
<1> SUFFICES ASSUME NEW x \in Blocks, x \notin S PROVE FALSE
  OBVIOUS
<1> DEFINE T == {Number[b] : b \in Blocks \ S}
<1>1. T \subseteq Nat /\ T # {}
  BY BlockFacts
<1>2. PICK m \in T : \A k \in T : m <= k
  BY <1>1, LeastElement
<1>3. PICK b \in Blocks \ S : m = Number[b]
  BY <1>2
<1>4. b # Genesis /\ Parent[b] \in Blocks /\ Number[b] = Number[Parent[b]] + 1
  BY <1>3, BlockFacts
<1>5. Parent[b] \in S
  <2>1. Parent[b] \notin S => Number[Parent[b]] \in T
    BY <1>4
  <2>2. Number[Parent[b]] \in Nat /\ ~(m <= Number[Parent[b]])
    BY <1>3, <1>4, BlockFacts
  <2> QED BY <1>2, <2>1, <2>2
<1> QED BY <1>3, <1>4, <1>5

-----------------------------------------------------------------------------
(* Lineage.                                                                  *)

(* The sets of blocks that contain, with a block, its parent.                *)
Upward(S) == S \subseteq Blocks /\ \A x \in S : x # Genesis => Parent[x] \in S

(* The recursive definition of Lineage has a solution: the least upward set  *)
(* that contains the block.                                                  *)
LEMMA LineageEquation ==
  Lineage = [b \in Blocks |-> IF b = Genesis THEN {b} ELSE {b} \cup Lineage[Parent[b]]]
<1> DEFINE L == [b \in Blocks |-> {x \in Blocks : \A S \in SUBSET Blocks :
                                     Upward(S) /\ b \in S => x \in S}]
<1>1. ASSUME NEW b \in Blocks
      PROVE  b \in L[b] /\ L[b] \subseteq Blocks /\ Upward(L[b])
  <2>1. b \in L[b] /\ L[b] \subseteq Blocks
    OBVIOUS
  <2>2. ASSUME NEW x \in L[b], x # Genesis PROVE Parent[x] \in L[b]
    <3>1. Parent[x] \in Blocks
      BY <2>1, <2>2, BlockFacts
    <3>2. ASSUME NEW S \in SUBSET Blocks, Upward(S), b \in S PROVE Parent[x] \in S
      BY <2>2, <3>2 DEF Upward
    <3> QED BY <3>1, <3>2
  <2> QED BY <2>1, <2>2 DEF Upward
<1>2. L[Genesis] = {Genesis}
  <2>1. Upward({Genesis}) /\ {Genesis} \in SUBSET Blocks
    BY BlockFacts DEF Upward
  <2> QED BY <1>1, <2>1, BlockFacts
<1>3. ASSUME NEW b \in Blocks, b # Genesis PROVE L[b] = {b} \cup L[Parent[b]]
  <2>1. Parent[b] \in Blocks
    BY <1>3, BlockFacts
  <2>2. Upward({b} \cup L[Parent[b]]) /\ {b} \cup L[Parent[b]] \in SUBSET Blocks
    BY <1>1, <2>1 DEF Upward
  <2>3. L[b] \subseteq {b} \cup L[Parent[b]]
    BY <2>2
  <2>4. ASSUME NEW x \in L[Parent[b]] PROVE x \in L[b]
    <3>1. Upward(L[b]) /\ b \in L[b] /\ L[b] \in SUBSET Blocks
      BY <1>1
    <3>2. Parent[b] \in L[b]
      BY <3>1, <1>3 DEF Upward
    <3> QED BY <2>1, <2>4, <3>1, <3>2
  <2> QED BY <1>1, <2>3, <2>4
<1>4. L = [b \in Blocks |-> IF b = Genesis THEN {b} ELSE {b} \cup L[Parent[b]]]
  <2>1. \A b \in Blocks : L[b] = IF b = Genesis THEN {b} ELSE {b} \cup L[Parent[b]]
    BY <1>2, <1>3
  <2> QED BY <2>1
<1>5. \E f : f = [b \in Blocks |-> IF b = Genesis THEN {b} ELSE {b} \cup f[Parent[b]]]
  BY <1>4
<1> QED BY <1>5 DEF Lineage

(* Lineage of a block, one step down.                                        *)
LEMMA LineageStep ==
  /\ Lineage[Genesis] = {Genesis}
  /\ \A b \in Blocks \ {Genesis} : Lineage[b] = {b} \cup Lineage[Parent[b]]
<1>1. \A b \in Blocks : Lineage[b] = IF b = Genesis THEN {b} ELSE {b} \cup Lineage[Parent[b]]
  BY LineageEquation
<1> QED BY <1>1, BlockFacts

(* A lineage leads from the block, which is its only block at that height or *)
(* above, to the genesis block.                                              *)
LEMMA LineageBlocks ==
  ASSUME NEW b \in Blocks
  PROVE  /\ b \in Lineage[b] /\ Genesis \in Lineage[b] /\ Lineage[b] \subseteq Blocks
         /\ \A x \in Lineage[b] : x = b \/ Number[x] < Number[b]
<1> DEFINE S == {y \in Blocks :
                   /\ y \in Lineage[y] /\ Genesis \in Lineage[y] /\ Lineage[y] \subseteq Blocks
                   /\ \A x \in Lineage[y] : x = y \/ Number[x] < Number[y]}
<1>1. Genesis \in S
  BY LineageStep, BlockFacts
<1>2. ASSUME NEW y \in Blocks \ {Genesis}, Parent[y] \in S PROVE y \in S
  <2>1. Lineage[y] = {y} \cup Lineage[Parent[y]]
    BY LineageStep
  <2>2. ASSUME NEW x \in Lineage[y], x # y PROVE Number[x] < Number[y]
    <3>1. x \in Lineage[Parent[y]] /\ x \in Blocks
      BY <1>2, <2>1, <2>2
    <3>2. x = Parent[y] \/ Number[x] < Number[Parent[y]]
      BY <1>2, <3>1
    <3> QED BY <3>1, <3>2, BlockFacts
  <2> QED BY <1>2, <2>1, <2>2
<1>3. Blocks \subseteq S
  <2> HIDE DEF S
  <2> QED BY <1>1, <1>2, BlockInduction
<1> QED BY <1>3

(* The lineage of a block of a lineage is part of it, and is all of it from  *)
(* that block's height on down: a lineage has one block of each height.      *)
LEMMA LineageChain ==
  ASSUME NEW b \in Blocks
  PROVE  /\ \A x \in Lineage[b] : Lineage[x] \subseteq Lineage[b]
         /\ \A x, y \in Lineage[b] : Number[x] <= Number[y] => x \in Lineage[y]
         /\ \A x, y \in Lineage[b] : Number[x] = Number[y] => x = y
<1> DEFINE S == {z \in Blocks :
                   /\ \A x \in Lineage[z] : Lineage[x] \subseteq Lineage[z]
                   /\ \A x, y \in Lineage[z] : Number[x] <= Number[y] => x \in Lineage[y]}
<1>1. Genesis \in S
  BY LineageStep, BlockFacts
<1>2. ASSUME NEW z \in Blocks \ {Genesis}, Parent[z] \in S PROVE z \in S
  <2>1. Lineage[z] = {z} \cup Lineage[Parent[z]]
    BY LineageStep
  <2>2. \A x \in Lineage[z] : Lineage[x] \subseteq Lineage[z]
    BY <1>2, <2>1
  <2>3. ASSUME NEW x \in Lineage[z], NEW y \in Lineage[z], Number[x] <= Number[y]
        PROVE  x \in Lineage[y]
    <3>1. x \in Blocks /\ y \in Blocks
      BY LineageBlocks
    <3>2. CASE y = z
      BY <2>3, <3>2
    <3>3. CASE y # z
      <4>1. Number[y] < Number[z]
        BY <3>3, LineageBlocks
      <4>2. x # z
        BY <2>3, <3>1, <4>1, BlockFacts
      <4> QED BY <1>2, <2>1, <2>3, <3>3, <4>2
    <3> QED BY <3>2, <3>3
  <2> QED BY <2>2, <2>3
<1>3. Blocks \subseteq S
  <2> HIDE DEF S
  <2> QED BY <1>1, <1>2, BlockInduction
<1>4. ASSUME NEW x \in Lineage[b], NEW y \in Lineage[b], Number[x] = Number[y] PROVE x = y
  <2>1. x \in Blocks /\ y \in Blocks
    BY LineageBlocks
  <2>2. x \in Lineage[y]
    BY <1>3, <1>4, <2>1, BlockFacts
  <2> QED BY <1>4, <2>1, <2>2, LineageBlocks, BlockFacts
<1> QED BY <1>3, <1>4

(* It has a block of every height up to that of the block.                   *)
LEMMA LineageHeights ==
  ASSUME NEW b \in Blocks, NEW n \in Nat, n <= Number[b]
  PROVE  \E x \in Lineage[b] : Number[x] = n
<1> DEFINE S == {z \in Blocks : \A k \in Nat : k <= Number[z] =>
                                   \E x \in Lineage[z] : Number[x] = k}
<1>1. Genesis \in S
  <2>1. \A k \in Nat : k <= 0 => k = 0
    OBVIOUS
  <2> QED BY <2>1, LineageStep, BlockFacts
<1>2. ASSUME NEW z \in Blocks \ {Genesis}, Parent[z] \in S PROVE z \in S
  <2>1. Lineage[z] = {z} \cup Lineage[Parent[z]]
    BY LineageStep
  <2>2. ASSUME NEW k \in Nat, k <= Number[z] PROVE \E x \in Lineage[z] : Number[x] = k
    <3>1. k = Number[z] \/ k <= Number[Parent[z]]
      BY <2>2, BlockFacts
    <3> QED BY <1>2, <2>1, <3>1
  <2> QED BY <2>2
<1>3. Blocks \subseteq S
  <2> HIDE DEF S
  <2> QED BY <1>1, <1>2, BlockInduction
<1> QED BY <1>3

(* An upward set contains the lineages of its blocks.                        *)
LEMMA LineageLeast ==
  ASSUME NEW S, Upward(S), NEW b \in S
  PROVE  Lineage[b] \subseteq S
<1> DEFINE T == {z \in Blocks : z \in S => Lineage[z] \subseteq S}
<1>1. Genesis \in T
  BY LineageStep, BlockFacts
<1>2. ASSUME NEW z \in Blocks \ {Genesis}, Parent[z] \in T PROVE z \in T
  BY <1>2, LineageStep DEF Upward
<1>3. Blocks \subseteq T
  <2> HIDE DEF T
  <2> QED BY <1>1, <1>2, BlockInduction
<1> QED BY <1>3 DEF Upward

-----------------------------------------------------------------------------
(* The walk of _rebuildCanonical.                                            *)

(* The walk from a block ends: at a block of its lineage where the index     *)
(* agrees or the parent cannot be read, and at no block above it.            *)
LEMMA WalkEndExists ==
  ASSUME NEW b \in Blocks
  PROVE  /\ WalkEnd(b) \in Lineage[b] /\ WalkEnds(WalkEnd(b))
         /\ \A y \in Lineage[b] : Number[y] > Number[WalkEnd(b)] => ~WalkEnds(y)
<1> DEFINE E == {x \in Lineage[b] : WalkEnds(x)}
           D == {Number[b] - Number[x] : x \in E}
<1>1. Genesis \in E
  BY LineageBlocks DEF WalkEnds, Settled
<1>2. \A x \in Lineage[b] : x \in Blocks /\ Number[x] \in Nat /\ Number[x] <= Number[b]
  BY LineageBlocks, BlockFacts
<1>3. D \subseteq Nat /\ D # {}
  BY <1>1, <1>2, BlockFacts
<1>4. PICK m \in D : \A k \in D : m <= k
  <2> HIDE DEF D
  <2> QED BY <1>3, LeastElement
<1>5. PICK e \in E : m = Number[b] - Number[e]
  BY <1>4
<1>6. ASSUME NEW y \in Lineage[b], Number[y] > Number[e] PROVE ~WalkEnds(y)
  <2>1. WalkEnds(y) => Number[b] - Number[y] \in D
    OBVIOUS
  <2>2. ~(m <= Number[b] - Number[y])
    BY <1>2, <1>5, <1>6, BlockFacts
  <2> QED BY <1>4, <2>1, <2>2
<1>7. /\ e \in Lineage[b] /\ WalkEnds(e)
      /\ \A y \in Lineage[b] : Number[y] > Number[e] => ~WalkEnds(y)
  BY <1>5, <1>6
<1> HIDE DEF D, E
<1> QED BY <1>7 DEF WalkEnd

-----------------------------------------------------------------------------
(* Types, for every deployment.                                              *)

SavedHeads == [vm : Blocks \cup {None}, headHeader : Blocks \cup {None},
               headBlock : Blocks \cup {None}]

Database == [known : SUBSET Blocks, bodies : SUBSET Blocks,
             canon : [Heights -> Blocks \cup {None}], heads : SavedHeads]

(* Every entry of the index, and of the batch to come, is at its own height. *)
Numbered(c) == \A n \in DOMAIN c :
                   c[n] \in Blocks \cup {None} /\ (c[n] # None => Number[c[n]] = n)

(* TypeOK with what it rests on: a block found through the index at a height *)
(* above zero is not the genesis block, so that it has a parent to fall back *)
(* to, and only the iterator is past its lock.                               *)
TypeInv ==
  /\ TypeOK
  /\ db \in Database /\ Numbered(db.canon)
  /\ ops.heads \in SavedHeads /\ ops.bodies \subseteq ops.known /\ Numbered(ops.canon)
  /\ lock = "iterator" <=> exec.phase = "iterate"
  /\ exec.phase = "iterate" => exec.next >= 1
  /\ exec.failed # Genesis
  /\ exec.phase = "repair" => exec.failed # None
  /\ exec.phase # "idle" => exec.running \/ Runner = "vm"

(* A head that was never saved is loaded as the genesis block.               *)
LEMMA LoadedTypes ==
  ASSUME NEW h, h \in SavedHeads
  PROVE  LoadHeads(h) \in HeadRecord
  BY BlockFacts DEF SavedHeads, LoadHeads, HeadRecord

(* The deployments are as BlocksAssumption has them.                         *)
LEMMA ConfigTypes ==
  ASSUME opt \in Configs
  PROVE  MaxCrashes \in Nat /\ Runner \in {"client", "vm"} /\ Bad \subseteq Blocks \ {Genesis}
  BY BlocksAssumption DEF MaxCrashes, Runner, Bad

(* Canon of any height, in the index or not.                                 *)
LEMMA CanonTypes ==
  ASSUME TypeInv, NEW n
  PROVE  /\ Canon(n) \in Blocks \cup {None}
         /\ Canon(n) # None => n \in Heights /\ Number[Canon(n)] = n
  BY DEF TypeInv, TypeOK, Database, Numbered, Canon

(* The heads and the index entries a reorganisation writes.                  *)
LEMMA RebuiltTypes ==
  ASSUME TypeInv, NEW b \in Blocks, NEW kind
  PROVE  /\ RebuiltHeads(b, kind) \in HeadRecord
         /\ DOMAIN RebuiltCanon(b) \subseteq Heights
         /\ Numbered(RebuiltCanon(b))
<1>1. WalkEnd(b) \in Blocks
  BY WalkEndExists, LineageBlocks
<1>2. mem \in HeadRecord
  BY DEF TypeInv, TypeOK
<1>3. RebuiltHeads(b, kind) \in HeadRecord
  BY <1>1, <1>2 DEF RebuiltHeads, HeadRecord
<1> DEFINE dropped == AssignedFrom(Number[b] + 1)
           new == Rebuilt(b)
<1>4. new \subseteq Blocks /\ dropped \subseteq Heights
  BY LineageBlocks DEF Rebuilt, AssignedFrom
<1>5. DOMAIN RebuiltCanon(b) = dropped \cup {Number[x] : x \in new}
  BY DEF RebuiltCanon
<1>6. ASSUME NEW n \in DOMAIN RebuiltCanon(b), n \notin dropped
      PROVE  RebuiltCanon(b)[n] \in new /\ Number[RebuiltCanon(b)[n]] = n
  <2>1. \E x \in new : Number[x] = n
    BY <1>5, <1>6
  <2>2. RebuiltCanon(b)[n] = CHOOSE x \in new : Number[x] = n
    BY <1>5, <1>6 DEF RebuiltCanon
  <2> QED BY <2>1, <2>2
<1>7. ASSUME NEW n \in DOMAIN RebuiltCanon(b), n \in dropped
      PROVE  RebuiltCanon(b)[n] = None
  BY <1>5, <1>7 DEF RebuiltCanon
<1>8. DOMAIN RebuiltCanon(b) \subseteq Heights
  BY <1>4, <1>5, BlockFacts
<1> QED BY <1>3, <1>4, <1>6, <1>7, <1>8, BlockFacts DEF Numbered

LEMMA InitTypes == Init => TypeInv
<1> SUFFICES ASSUME Init PROVE TypeInv
  OBVIOUS
<1>1. /\ NoOps.heads \in SavedHeads /\ NoOps.known = {} /\ NoOps.bodies = {}
      /\ DOMAIN NoOps.canon = {}
  BY DEF NoOps, SavedHeads
<1>2. mem \in HeadRecord
  BY <1>1, LoadedTypes DEF Init
<1>3. db \in Database /\ db.bodies \subseteq db.known /\ Numbered(db.canon)
  BY <1>1, BlockFacts DEF Init, Database, Numbered
<1>4. MaxCrashes \in Nat
  BY ConfigTypes DEF Init
<1>5. /\ db.known \subseteq Blocks /\ db.canon \in [Heights -> Blocks \cup {None}]
      /\ \A h \in DOMAIN db.heads : db.heads[h] \in Blocks \cup {None}
  BY <1>3 DEF Database, SavedHeads
<1>6. exec \in [running : BOOLEAN, first : BOOLEAN, next : Nat, count : Nat,
                phase : {"idle", "check", "acquire", "iterate", "repair"},
                failed : Blocks \cup {None}]
  BY DEF Init, Idle
<1>7. TypeOK
  BY <1>1, <1>2, <1>3, <1>4, <1>5, <1>6, BlockFacts DEF Init, TypeOK
<1> QED BY <1>1, <1>3, <1>7, BlockFacts DEF Init, TypeInv, Numbered, Idle

(* TypeInv in the form the actions below establish it.                       *)
ExecType == [running : BOOLEAN, first : BOOLEAN, next : Nat, count : Nat,
             phase : {"idle", "check", "acquire", "iterate", "repair"},
             failed : Blocks \cup {None}]

(* _putBlockOrHeader up to its batch writes well-formed heads and entries.   *)
LEMMA PutDecideTypes ==
  ASSUME TypeInv, NEW b \in Blocks, NEW kind, PutDecide(b, kind)
  PROVE  TypeInv'
<1>1. mem' \in HeadRecord
  <2>1. mem \in HeadRecord /\ [mem EXCEPT !.headBlock = b] \in HeadRecord
    BY DEF TypeInv, TypeOK, HeadRecord
  <2> QED BY <2>1, RebuiltTypes DEF PutDecide
<1>2. ops'.heads = mem' /\ mem' \in SavedHeads
  BY <1>1 DEF PutDecide, HeadRecord, SavedHeads
<1>3. ops'.known = {b} /\ ops'.bodies \subseteq {b}
  BY DEF PutDecide
<1>4. ops'.canon = RebuiltCanon(b) \/ ops'.canon = <<>>
  BY DEF PutDecide
<1>5. DOMAIN ops'.canon \subseteq Heights /\ Numbered(ops'.canon)
  BY <1>4, RebuiltTypes DEF Numbered
<1>6. lock = "free" /\ lock' = "put" /\ UNCHANGED <<opt, db, exec, executed, crashes>>
  BY DEF PutDecide
<1>7. TypeOK'
  BY <1>1, <1>3, <1>5, <1>6 DEF TypeInv, TypeOK, MaxCrashes
<1> QED BY <1>2, <1>3, <1>5, <1>6, <1>7 DEF TypeInv, Numbered, Database, SavedHeads, Runner

(* The batch of a put.                                                       *)
LEMMA PutCommitTypes ==
  ASSUME TypeInv, PutCommit
  PROVE  TypeInv'
<1> DEFINE c == Batch(ops).canon
<1>1. db' = Batch(ops) /\ ops' = NoOps /\ lock = "put" /\ lock' = "free"
      /\ UNCHANGED <<opt, mem, exec, executed, crashes>>
  BY DEF PutCommit
<1>2. c \in [Heights -> Blocks \cup {None}] /\ Numbered(c)
  BY DEF TypeInv, TypeOK, Database, Numbered, Batch
<1>3. db' \in Database /\ db'.bodies \subseteq db'.known /\ Numbered(db'.canon)
  BY <1>1, <1>2 DEF TypeInv, TypeOK, Database, Batch
<1>4. /\ ops'.heads \in SavedHeads /\ ops'.known = {} /\ ops'.bodies = {}
      /\ DOMAIN ops'.canon = {}
  BY <1>1 DEF NoOps, SavedHeads
<1>5. TypeOK'
  BY <1>1, <1>3, <1>4 DEF TypeInv, TypeOK, MaxCrashes, Database, SavedHeads
<1> QED BY <1>1, <1>3, <1>4, <1>5 DEF TypeInv, Numbered, Runner

(* Taking the lock for the iterator, by either runner.                       *)
LEMMA IterateStartTypes ==
  ASSUME TypeInv, RunChain \/ RunIterate
  PROVE  TypeInv'
<1>0. IterateStart /\ (exec.running \/ Runner = "vm")
  BY DEF RunChain, RunIterate, TypeInv
<1>1. Number[mem.vm] \in Nat
  BY BlockFacts DEF TypeInv, TypeOK, HeadRecord
<1>2. /\ exec' \in ExecType /\ exec'.next >= 1 /\ exec'.phase = "iterate"
      /\ exec'.failed = None /\ exec'.running = exec.running
  <2>1. exec \in ExecType
    BY DEF TypeInv, TypeOK, ExecType
  <2>2. exec' = [exec EXCEPT !.phase = "iterate", !.next = Number[mem.vm] + 1,
                             !.count = 0, !.failed = None]
    BY <1>0 DEF IterateStart
  <2> DEFINE n == Number[mem.vm] + 1
  <2>3. n \in Nat /\ n >= 1
    BY <1>1
  <2> HIDE DEF n
  <2>4. exec' \in ExecType
    BY <2>1, <2>2, <2>3 DEF ExecType, n
  <2>5. /\ exec'.next = n /\ exec'.phase = "iterate"
        /\ exec'.failed = None /\ exec'.running = exec.running
    BY <2>1, <2>2 DEF ExecType, n
  <2> QED BY <2>3, <2>4, <2>5
<1>3. lock' = "iterator" /\ UNCHANGED <<opt, mem, db, ops, executed, crashes>>
  BY <1>0 DEF IterateStart
<1>4. TypeOK'
  BY <1>2, <1>3 DEF TypeInv, TypeOK, ExecType, MaxCrashes
<1> QED BY <1>0, <1>2, <1>3, <1>4, BlockFacts DEF TypeInv, Runner

(* The save of the heads, after a run.                                       *)
LEMMA SaveTypes ==
  ASSUME TypeInv, db' = [db EXCEPT !.heads = mem']
  PROVE  /\ mem' \in HeadRecord => db' \in Database
         /\ db'.known = db.known /\ db'.bodies = db.bodies /\ db'.canon = db.canon
         /\ db'.heads = mem'
  BY DEF TypeInv, Database, SavedHeads, HeadRecord

(* The next block the iterator finds is not the genesis block.               *)
LEMMA NextTypes ==
  ASSUME TypeInv, exec.phase = "iterate", HasNext
  PROVE  /\ Canon(exec.next) \in Blocks \ {Genesis}
         /\ Number[Canon(exec.next)] = exec.next
         /\ exec.next \in Heights /\ exec.next \in Nat
<1>1. Canon(exec.next) \in Blocks
  BY CanonTypes DEF HasNext
<1> QED BY <1>1, CanonTypes, BlockFacts DEF HasNext, TypeInv

(* A run of the VM moves its head by a block.                                *)
LEMMA RunChainBlockTypes ==
  ASSUME TypeInv, RunChainBlock
  PROVE  TypeInv'
<1> DEFINE b == Canon(exec.next)
<1>1. exec.phase = "iterate" /\ HasNext /\ UNCHANGED <<opt, db, lock, ops, crashes>>
  BY DEF RunChainBlock
<1>2. b \in Blocks
  BY <1>1, NextTypes
<1>3. mem' \in HeadRecord /\ executed' \subseteq Blocks
  BY <1>2 DEF RunChainBlock, TypeInv, TypeOK, HeadRecord
<1>4. exec' \in ExecType /\ exec'.phase = "iterate" /\ exec'.next >= 1
      /\ exec'.failed = exec.failed /\ Runner = "vm"
  <2>1. exec \in ExecType /\ exec.next >= 1
    BY <1>1 DEF TypeInv, TypeOK, ExecType
  <2>2. exec' = [exec EXCEPT !.next = @ + 1, !.count = 1] /\ Runner = "vm"
    BY DEF RunChainBlock
  <2> DEFINE n == exec.next + 1
  <2>3. exec.next \in Nat /\ n \in Nat /\ n >= 1
    BY <2>1 DEF ExecType
  <2>4. exec' = [exec EXCEPT !.next = n, !.count = 1]
    BY <2>2
  <2> HIDE DEF n
  <2>5. exec' \in ExecType
    BY <2>1, <2>3, <2>4 DEF ExecType
  <2>6. exec'.next = n /\ exec'.phase = exec.phase /\ exec'.failed = exec.failed
    BY <2>1, <2>4 DEF ExecType
  <2> QED BY <1>1, <2>2, <2>3, <2>5, <2>6
<1>5. TypeOK'
  BY <1>1, <1>3, <1>4 DEF TypeInv, TypeOK, ExecType, MaxCrashes
<1> QED BY <1>1, <1>4, <1>5 DEF TypeInv, Runner

(* delBlock.                                                                 *)
LEMMA RunChainFailsTypes ==
  ASSUME TypeInv, RunChainFails
  PROVE  TypeInv'
<1> DEFINE b == Canon(exec.next)
           heads == [mem EXCEPT !.vm = b]
<1>1. exec.phase = "iterate" /\ HasNext /\ DelBlock(b, heads) /\ lock' = "free"
      /\ exec' = Idle /\ UNCHANGED <<opt, ops, executed, crashes>>
  BY DEF RunChainFails
<1>2. b \in Blocks /\ Parent[b] \in Blocks
  BY <1>1, NextTypes, BlockFacts
<1>3. heads \in HeadRecord /\ mem \in HeadRecord
  BY <1>2 DEF TypeInv, TypeOK, HeadRecord
<1>4. mem' \in HeadRecord
  <2> HIDE DEF heads, b
  <2>1. DOMAIN mem = {"vm", "headHeader", "headBlock"}
    BY <1>3 DEF HeadRecord
  <2>2. \A h \in DOMAIN mem : heads[h] \in Blocks
    BY <1>3, <2>1 DEF HeadRecord
  <2>3. /\ mem' = [h \in DOMAIN mem |-> mem'[h]]
        /\ \A h \in DOMAIN mem : mem'[h] \in Blocks
    BY <1>1, <1>2, <2>2 DEF DelBlock
  <2> QED BY <2>1, <2>3 DEF HeadRecord
<1>5. db' \in Database /\ db'.bodies \subseteq db'.known /\ Numbered(db'.canon)
  <2> DEFINE low == AssignedFrom(Number[b])
             gone == {Canon(n) : n \in low}
             c == [n \in Heights |-> IF n \in low THEN None ELSE db.canon[n]]
  <2>1. db' = [db EXCEPT !.known = @ \ gone, !.bodies = @ \ gone, !.canon = c]
    BY <1>1 DEF DelBlock
  <2>2. c \in [Heights -> Blocks \cup {None}] /\ Numbered(c)
    BY DEF TypeInv, Database, Numbered
  <2> HIDE DEF c, gone, low, b, heads
  <2> QED BY <2>1, <2>2 DEF TypeInv, TypeOK, Database
<1>6. exec' \in ExecType /\ exec'.phase = "idle" /\ exec'.failed = None
  BY <1>1 DEF Idle, ExecType
<1>7. TypeOK'
  BY <1>1, <1>4, <1>5, <1>6 DEF TypeInv, TypeOK, ExecType, MaxCrashes, Database, SavedHeads
<1> QED BY <1>1, <1>5, <1>6, <1>7, BlockFacts DEF TypeInv

(* The end of a run of the VM, and of a batch of the client.                 *)
LEMMA IteratedTypes ==
  ASSUME TypeInv, RunChainEnd \/ RunIterated
  PROVE  TypeInv'
<1>1. IterateSaved /\ exec.phase = "iterate" /\ UNCHANGED <<opt, mem, ops, executed, crashes>>
  BY DEF RunChainEnd, RunIterated
<1>2. mem' \in HeadRecord
  BY <1>1 DEF TypeInv, TypeOK
<1>3. /\ db' \in Database /\ db'.known = db.known /\ db'.bodies = db.bodies
      /\ db'.canon = db.canon /\ lock' = "free"
  <2>1. db' = [db EXCEPT !.heads = mem'] /\ lock' = "free"
    BY <1>1 DEF IterateSaved
  <2> QED BY <1>2, <2>1, SaveTypes
<1>4. /\ exec' \in ExecType /\ exec'.phase # "iterate" /\ exec'.failed # Genesis
      /\ exec'.phase = "repair" => exec'.failed # None
      /\ exec'.phase # "idle" => exec'.running \/ Runner = "vm"
  <2>1. exec \in ExecType /\ exec.failed # Genesis /\ (exec.running \/ Runner = "vm")
    BY <1>1 DEF TypeInv, TypeOK, ExecType
  <2>2. CASE RunChainEnd
    BY <2>2, BlockFacts DEF RunChainEnd, Idle, ExecType
  <2>3. CASE RunIterated
    <3>1. exec' = [exec EXCEPT !.first = FALSE,
                     !.phase = IF exec.failed = None THEN "check" ELSE "repair"]
      BY <2>3 DEF RunIterated
    <3> QED BY <2>1, <3>1 DEF ExecType
  <2> QED BY <2>2, <2>3
<1>5. TypeOK'
  BY <1>1, <1>2, <1>3, <1>4 DEF TypeInv, TypeOK, ExecType, MaxCrashes, Database, SavedHeads
<1> QED BY <1>1, <1>3, <1>4, <1>5 DEF TypeInv, Runner

(* A block of a batch of the client.                                         *)
LEMMA RunBlockTypes ==
  ASSUME TypeInv, RunBlock
  PROVE  TypeInv'
<1> DEFINE b == Canon(exec.next)
<1>1. exec.phase = "iterate" /\ HasNext /\ UNCHANGED <<opt, db, lock, ops, crashes>>
  BY DEF RunBlock
<1>2. b \in Blocks \ {Genesis}
  BY <1>1, NextTypes
<1>3. mem' \in HeadRecord /\ executed' \subseteq Blocks
  BY <1>2 DEF RunBlock, TypeInv, TypeOK, HeadRecord
<1>4. exec' \in ExecType /\ exec'.phase = "iterate" /\ exec'.next >= 1
      /\ exec'.failed # Genesis /\ exec'.running = exec.running
  <2> DEFINE ok == exec.failed = None /\ Runs(b)
  <2>1. exec \in ExecType /\ exec.next >= 1 /\ exec.failed # Genesis
    BY <1>1 DEF TypeInv, TypeOK, ExecType
  <2>2. exec' = [exec EXCEPT !.next = @ + 1, !.count = @ + 1,
                             !.failed = IF ok \/ @ # None THEN @ ELSE b]
    BY DEF RunBlock
  <2> DEFINE n == exec.next + 1
             k == exec.count + 1
             f == IF ok \/ exec.failed # None THEN exec.failed ELSE b
  <2>3. n \in Nat /\ n >= 1 /\ k \in Nat
    BY <2>1 DEF ExecType
  <2>4. f \in Blocks \cup {None} /\ f # Genesis
    BY <1>2, <2>1 DEF ExecType
  <2>5. exec' = [exec EXCEPT !.next = n, !.count = k, !.failed = f]
    BY <2>2
  <2> HIDE DEF b, ok, n, k, f
  <2>6. exec' \in ExecType
    BY <2>1, <2>3, <2>4, <2>5 DEF ExecType
  <2>7. /\ exec'.next = n /\ exec'.phase = exec.phase /\ exec'.failed = f
        /\ exec'.running = exec.running
    BY <2>1, <2>5 DEF ExecType
  <2> QED BY <1>1, <2>3, <2>4, <2>6, <2>7
<1>5. TypeOK'
  BY <1>1, <1>3, <1>4 DEF TypeInv, TypeOK, ExecType, MaxCrashes
<1> QED BY <1>1, <1>4, <1>5 DEF TypeInv, Runner

(* The steps of VMExecution.run outside the iterator.                        *)
LEMMA RunTypes ==
  ASSUME TypeInv, RunStart \/ RunCheck
  PROVE  TypeInv'
<1>1. UNCHANGED <<opt, mem, db, lock, ops, executed, crashes>>
  BY DEF RunStart, RunCheck
<1>2. /\ exec' \in ExecType /\ exec'.phase \in {"idle", "check", "acquire"}
      /\ exec'.failed # Genesis
      /\ exec'.phase # "idle" => exec'.running \/ Runner = "vm"
  <2>1. exec \in ExecType /\ exec.failed # Genesis
    BY DEF TypeInv, TypeOK, ExecType
  <2>2. Idle \in ExecType /\ Idle.failed = None /\ Idle.phase = "idle"
    BY DEF Idle, ExecType
  <2>3. CASE RunStart
    <3>1. exec' = [Idle EXCEPT !.running = TRUE, !.phase = "check"]
      BY <2>3 DEF RunStart
    <3> QED BY <2>2, <3>1, BlockFacts DEF ExecType
  <2>4. CASE RunCheck
    <3>1. exec' \in {[exec EXCEPT !.phase = "acquire"], Idle} /\ exec.phase = "check"
      BY <2>4 DEF RunCheck
    <3>2. exec.running \/ Runner = "vm"
      BY <3>1 DEF TypeInv
    <3> QED BY <2>1, <2>2, <3>1, <3>2, BlockFacts DEF ExecType
  <2> QED BY <2>3, <2>4
<1>3. lock # "iterator"
  <2>1. RunStart => exec.phase = "idle"
    BY DEF RunStart, TypeInv
  <2> QED BY <2>1 DEF RunCheck, TypeInv
<1>4. TypeOK'
  BY <1>1, <1>2 DEF TypeInv, TypeOK, ExecType, MaxCrashes
<1> QED BY <1>1, <1>2, <1>3, <1>4 DEF TypeInv, Runner

LEMMA RunRepairTypes ==
  ASSUME TypeInv, RunRepair
  PROVE  TypeInv'
<1>1. exec.phase = "repair" /\ lock = "free" /\ UNCHANGED <<opt, lock, ops, executed, crashes>>
  BY DEF RunRepair
<1>2. exec.failed \in Blocks \ {Genesis}
  BY <1>1 DEF TypeInv, TypeOK
<1>3. mem' \in HeadRecord
  BY <1>2, BlockFacts DEF RunRepair, TypeInv, TypeOK, HeadRecord
<1>4. /\ db' \in Database /\ db'.known = db.known /\ db'.bodies = db.bodies
      /\ db'.canon = db.canon
  <2>1. db' = [db EXCEPT !.heads = mem']
    BY DEF RunRepair
  <2> QED BY <1>3, <2>1, SaveTypes
<1>5. exec' \in ExecType /\ exec'.phase = "idle" /\ exec'.failed = exec.failed
  BY DEF RunRepair, TypeInv, TypeOK, ExecType
<1>6. TypeOK'
  BY <1>1, <1>3, <1>4, <1>5 DEF TypeInv, TypeOK, ExecType, MaxCrashes, Database, SavedHeads
<1> QED BY <1>1, <1>4, <1>5, <1>6 DEF TypeInv, Runner

LEMMA CrashTypes ==
  ASSUME TypeInv, Crash
  PROVE  TypeInv'
<1>1. mem' \in HeadRecord
  BY LoadedTypes DEF Crash, TypeInv, Database
<1>2. /\ ops'.heads \in SavedHeads /\ ops'.known = {} /\ ops'.bodies = {}
      /\ DOMAIN ops'.canon = {}
  BY DEF Crash, NoOps, SavedHeads
<1>3. exec' \in ExecType /\ exec'.phase = "idle" /\ exec'.failed = None /\ lock' = "free"
  BY DEF Crash, Idle, ExecType
<1>4. crashes' \in 0..MaxCrashes
  BY ConfigTypes DEF Crash, TypeInv, TypeOK
<1>5. UNCHANGED <<opt, db, executed>>
  BY DEF Crash
<1>6. TypeOK'
  BY <1>1, <1>2, <1>3, <1>4, <1>5 DEF TypeInv, TypeOK, ExecType, MaxCrashes
<1> QED BY <1>2, <1>3, <1>5, <1>6, BlockFacts DEF TypeInv, Numbered

LEMMA NextTypesKept == TypeInv /\ [Next]_vars => TypeInv'
<1> SUFFICES ASSUME TypeInv, [Next]_vars PROVE TypeInv'
  OBVIOUS
<1>1. CASE Put
  BY <1>1, PutDecideTypes DEF Put
<1>2. CASE PutCommit
  BY <1>2, PutCommitTypes
<1>3. CASE RunChain \/ RunIterate
  BY <1>3, IterateStartTypes
<1>4. CASE RunChainBlock
  BY <1>4, RunChainBlockTypes
<1>5. CASE RunChainFails
  BY <1>5, RunChainFailsTypes
<1>6. CASE RunChainEnd \/ RunIterated
  BY <1>6, IteratedTypes
<1>7. CASE RunStart \/ RunCheck
  BY <1>7, RunTypes
<1>8. CASE RunBlock
  BY <1>8, RunBlockTypes
<1>9. CASE RunRepair
  BY <1>9, RunRepairTypes
<1>10. CASE Crash
  BY <1>10, CrashTypes
<1>11. CASE UNCHANGED vars
  BY <1>11 DEF vars, TypeInv, TypeOK, MaxCrashes, Runner
<1> QED BY <1>1, <1>2, <1>3, <1>4, <1>5, <1>6, <1>7, <1>8, <1>9, <1>10, <1>11 DEF Next

LEMMA TypeInvariant == Spec => []TypeInv
  BY InitTypes, NextTypesKept, PTL DEF Spec

(* Every variable keeps its type, whatever arrives, fails or crashes: a head *)
(* always names a block and the index never holds a block at another's       *)
(* height.                                                                   *)
THEOREM TypeCorrect == Spec => []TypeOK
<1>1. TypeInv => TypeOK
  BY DEF TypeInv
<1> QED BY <1>1, TypeInvariant, PTL
=============================================================================
