---------------------------- MODULE ForkChoice ----------------------------
(* What a block store promises its readers, with no lock, cache, batch or   *)
(* crash in sight: a set of connected blocks, a head among them, and the    *)
(* number index of the chain that ends in the head.  Blockchain implements  *)
(* it (the property ImplementsForkChoice there).                            *)
EXTENDS Naturals

CONSTANTS Blocks, Genesis, None,
          Parent,        \* [Blocks \ {Genesis} -> Blocks]
          Number,        \* [Blocks -> Nat], the height of a block
          TD,            \* [Blocks -> Nat], the total difficulty up to a block
          ProofOfStake   \* under proof of stake the last block put is the head

VARIABLES known, head, index

Heights == {Number[b] : b \in Blocks}

Lineage[b \in Blocks] ==
    IF b = Genesis THEN {b} ELSE {b} \cup Lineage[Parent[b]]

ChainTo(b) ==
    [n \in Heights |-> IF n > Number[b] THEN None
                       ELSE CHOOSE x \in Lineage[b] : Number[x] = n]

FInit == known = {Genesis} /\ head = Genesis /\ index = ChainTo(Genesis)

(* A block arrives whose parent is known; a heavier one becomes the head.   *)
Arrive(b) ==
    /\ Parent[b] \in known
    /\ known' = known \cup {b}
    /\ head' = IF ProofOfStake \/ TD[b] > TD[head] THEN b ELSE head
    /\ index' = ChainTo(head')

(* A block of the chain is withdrawn with everything above it.              *)
Withdraw(b) ==
    /\ b \in Lineage[head] \ {Genesis}
    /\ known' = {x \in known : ~(x \in Lineage[head] /\ b \in Lineage[x])}
    /\ head' = Parent[b]
    /\ index' = ChainTo(head')

FNext == \E b \in Blocks \ {Genesis} : Arrive(b) \/ Withdraw(b)

FSpec == FInit /\ [][FNext]_<<known, head, index>>
=============================================================================
