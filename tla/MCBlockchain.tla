---------------------------- MODULE MCBlockchain ----------------------------
(* Instances of Blockchain: two forks above the genesis block g, the chain   *)
(* a1, a2, a3 and the chain b1, b2, with c2 a second child of a1.            *)
EXTENDS Blockchain, TLC

CONSTANTS g, a1, a2, a3, b1, b2, c2

MCParent == a1 :> g @@ a2 :> a1 @@ a3 :> a2 @@ b1 :> g @@ b2 :> b1 @@ c2 :> a1

MCNumber == g :> 0 @@ a1 :> 1 @@ a2 :> 2 @@ a3 :> 3 @@ b1 :> 1 @@ b2 :> 2 @@ c2 :> 2

(* Every block of the same difficulty: the heavier chain is the longer one.  *)
EqualTD == g :> 1 @@ a1 :> 2 @@ a2 :> 3 @@ a3 :> 4 @@ b1 :> 2 @@ b2 :> 3 @@ c2 :> 3

(* One difficult block, b1: a chain of height 1 heavier than one of height 2. *)
UnevenTD == g :> 1 @@ a1 :> 2 @@ a2 :> 3 @@ a3 :> 5 @@ b1 :> 4 @@ b2 :> 6 @@ c2 :> 4

Client(bad, max) ==
    [runner |-> "client", kinds |-> {"block"}, bad |-> bad, crashes |-> max]

(* The client, which may crash once, and a VM that is fed headers as well.   *)
Deployments ==
    {Client({}, 1), Client({c2}, 1),
     [runner |-> "vm", kinds |-> {"block", "header"}, bad |-> {a2}, crashes |-> 0]}

ClientOnly == {Client({}, 0)}
=============================================================================
