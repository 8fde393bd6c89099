----------------------------- MODULE MCFetcher -----------------------------
(* Fetcher on chains of a few blocks.                                        *)
EXTENDS Fetcher, TLC

CONSTANTS peer1, peer2

Chains(local, common, target, water, max) ==
    [local |-> local, common |-> common, target |-> target,
     highWaterMark |-> water, faults |-> max]

(* Behind a chain of four or five blocks, with streams of one chunk or of    *)
(* three; a fork deeper than the safe distance.                              *)
BehindAndForked ==
    {Chains(1, 1, 5, 1, 1), Chains(1, 1, 4, 3, 2), Chains(3, 0, 7, 3, 0)}

Behind == {Chains(1, 1, 3, 1, 1)}
=============================================================================
