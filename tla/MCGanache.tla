----------------------------- MODULE MCGanache -----------------------------
(* Ganache with two accounts and seven transactions: t3 replaces t1, t7 the  *)
(* second of A, t4 fills a block, t5 is refused by the VM.                   *)
EXTENDS Ganache

CONSTANTS
    A, B, t1, t2, t3, t4, t5, t6, t7,
    mineCall, mineCall2, snap, snap2, rev, rev2, stop, start, timer

MCFrom == t1 :> A @@ t2 :> A @@ t3 :> A @@ t4 :> B @@ t5 :> B @@ t6 :> B @@ t7 :> A
MCNonce == t1 :> 0 @@ t2 :> None @@ t3 :> 0 @@ t4 :> 0 @@ t5 :> None @@ t6 :> None @@ t7 :> 1
MCPrice == t1 :> 1 @@ t2 :> 1 @@ t3 :> 2 @@ t4 :> 1 @@ t5 :> 1 @@ t6 :> 1 @@ t7 :> 2
MCGas == t1 :> 2 @@ t2 :> 2 @@ t3 :> 2 @@ t4 :> 8 @@ t5 :> 2 @@ t6 :> 2 @@ t7 :> 2
MCKind == mineCall :> "mine" @@ mineCall2 :> "mine" @@ snap :> "snapshot" @@ rev :> "revert"
          @@ snap2 :> "snapshot" @@ rev2 :> "revert"
          @@ stop :> "stop" @@ start :> "start" @@ timer :> "timer"

Config(mode, limit, sends) == [mode |-> mode, limit |-> limit, sends |-> sends]

(* One request at a time, and the timer beside it.                           *)
SequentialConfigs ==
    {Config("eager", 1, {t1, t2, t6, stop, start, mineCall}),
     Config("eager", 1, {t1, t4, stop, start, mineCall}),
     Config("eager", 1, {t1, t2, t5, t7, stop, start}),
     Config("eager", 1, {t1, t2, snap, rev}),
     Config("interval", 1, {t1, t2, timer, mineCall, mineCall2}),
     Config("interval", 1, {t1, t4, timer, mineCall}),
     Config("interval", 1, {t1, t4, t5, timer}),
     Config("interval", 1, {t1, t2, t3, timer}),
     Config("interval", 1, {t1, t2, t7, timer}),
     Config("interval", 1, {t1, t2, timer, snap, rev})}

(* Strict mode, whose transactions are mined after they are answered.        *)
StrictConfigs ==
    {Config("strict", 1, {t1, t2, snap, snap2, rev, rev2}),
     Config("strict", 1, {t1, mineCall, snap, rev}),
     Config("strict", 1, {t1, t2, t7, mineCall}),
     Config("strict", 0, {t1, snap, rev}),
     Config("strict", 0, {t1, t2, snap, rev})}

(* Unlimited requests; eager is the mode of a node without options.          *)
UnlimitedConfigs ==
    {Config("eager", 0, {t1, t4, t6}),
     Config("eager", 0, {t1, t2, t3}),
     Config("eager", 0, {t1, t2, t7}),
     Config("eager", 0, {t1, t2, t5}),
     Config("eager", 0, {t1, t2, t6, mineCall}),
     Config("eager", 0, {t1, t2, stop, start}),
     Config("eager", 0, {t1, t2, snap, rev}),
     Config("interval", 0, {t1, t2, timer, mineCall}),
     Config("interval", 0, {t1, timer, mineCall, mineCall2})}

SafeConfigs == SequentialConfigs \cup StrictConfigs \cup UnlimitedConfigs

(* Two accounts, two prices.                                                 *)
PriceConfigs == {Config("eager", 0, {t3, t6})}
=============================================================================
