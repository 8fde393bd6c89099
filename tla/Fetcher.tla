------------------------------ MODULE Fetcher ------------------------------
(* The block fetcher of the client (lib/sync/fetcher): it cuts the missing   *)
(* blocks into jobs, requests them from the idle peers of the pool, and      *)
(* writes the results to the chain in the order of the jobs, through a       *)
(* stream.  Peers answer late, in part, not at all, or leave; requests time  *)
(* out and jobs are queued again.  A step runs from one event (an answer, a  *)
(* timer, a block batch stored) to the next.                                 *)
EXTENDS Naturals, Sequences, FiniteSets, FiniteSetsExt, SequencesExt

CONSTANTS
    Peers,
    Configs,            \* the chains that meet: see opt
    safeReorgDistance, maxPerRequest, maxFetcherJobs, maxQueue

ASSUME FetcherAssumption ==
    /\ Peers # {} /\ IsFiniteSet(Peers)
    /\ {maxPerRequest, maxFetcherJobs} \subseteq Nat \ {0}
    /\ {safeReorgDistance, maxQueue} \subseteq Nat
    /\ \A c \in Configs :
          /\ {c.local, c.common, c.target, c.faults} \subseteq Nat
          /\ c.highWaterMark \in Nat \ {0} /\ c.common <= c.local /\ c.common < c.target

VARIABLES
    opt,       \* local height, last block shared with the peers, their height, the
               \* highWaterMark of the two streams (16 in Node) and the bound on the
               \* faults of the peers and of the chain
    f,         \* the Fetcher: its counters and the heaps `in' and `out'
    requests,  \* the requests in flight, by the state of their job
    pipe,      \* the read queue, and the writer's buffer and batch
    peers,     \* the pool of Peer objects, see below
    stored,    \* the blocks of the peers' chain that the local database holds
    faults

vars == <<opt, f, requests, pipe, peers, stored, faults>>

-----------------------------------------------------------------------------
(* Jobs.  `got' is the length of partialResult.                              *)

Job(i, first, count) == [index |-> i, first |-> first, count |-> count, got |-> 0]

Height == Max({opt.local} \cup stored)

(* syncWithPeer starts a safe distance behind the local head, and makes no   *)
(* fetcher if there is nothing to fetch from there on.                       *)
Start == IF Height < safeReorgDistance THEN 1 ELSE Max({1, Height + 1 - safeReorgDistance})

EmptyPipe == [readable |-> <<>>, paused |-> FALSE, buffer |-> <<>>, batch |-> <<>>, done |-> 0]

NewFetcher(first) ==
    [running |-> TRUE, total |-> 0, processed |-> 0, finished |-> 0,
     first |-> first, count |-> opt.target + 1 - first, in |-> {}, out |-> {}]

Init ==
    /\ opt \in Configs
    /\ stored = 0..opt.common
    /\ Start <= opt.target
    /\ f = NewFetcher(Start)
    /\ requests = {}
    /\ pipe = EmptyPipe
    /\ peers = [pool |-> {}, idle |-> {}, resting |-> {}, lost |-> {}, bans |-> {},
                gen |-> [p \in Peers |-> 0]]
    /\ faults = 0

(* tasks(): full tasks while they last, then the rest, maxFetcherJobs at most. *)
Tasks(x) ==
    [i \in 1..Min({maxFetcherJobs, (x.count + maxPerRequest - 1) \div maxPerRequest}) |->
        Job(x.total + i - 1, x.first + (i - 1) * maxPerRequest,
            Min({maxPerRequest, x.count - (i - 1) * maxPerRequest}))]

NextTasks(x) ==
    IF x.in # {} \/ x.count = 0 THEN x
    ELSE LET ts  == Tasks(x)
             cut == Min({x.count, maxFetcherJobs * maxPerRequest})
         IN  [x EXCEPT !.in = Range(ts), !.total = @ + Len(ts),
                       !.first = @ + cut, !.count = @ - cut]

Earliest(jobs) == CHOOSE j \in jobs : \A k \in jobs : j.index <= k.index

(* A stopped fetcher queues nothing.                                         *)
Enqueue(x, jobs) == IF x.running THEN [x EXCEPT !.in = @ \cup jobs] ELSE x

-----------------------------------------------------------------------------
(* The state a turn of the event loop works on.                              *)

Turn == [f |-> f, requests |-> requests, pipe |-> pipe, peers |-> peers]

Becomes(s) ==
    /\ f' = s.f /\ requests' = s.requests /\ pipe' = s.pipe /\ peers' = s.peers

(* A Peer object is a peer's id and the number of its connection.  Besides   *)
(* the pool there are the objects with idle set, those that will be after    *)
(* `wait', those whose connection is lost, and those a ban's timer holds.    *)
Rests(s, o) == [s EXCEPT !.peers.resting = @ \cup {o}]

Idled(s, o) == [s EXCEPT !.peers.idle = @ \cup {o}]

Pooled(p) == \E o \in peers.pool : o[1] = p

(* pool.ban takes out whatever object bears the id.                          *)
Banned(s, o) ==
    IF Pooled(o[1])
    THEN [s EXCEPT !.peers.pool = {x \in @ : x[1] # o[1]}, !.peers.bans = @ \cup {o}]
    ELSE s

(* next(): the earliest job goes to a random idle peer.  An empty queue with *)
(* everything written stops the fetcher; a full read queue makes it wait.    *)
NextOf(s) ==
    LET job == Earliest(s.f.in) IN
    IF s.f.in = {} THEN {[s EXCEPT !.f.running = @ /\ s.f.finished # s.f.total]}
    ELSE IF \/ Len(s.pipe.readable) > maxQueue
            \/ s.f.processed = s.f.total
            \/ s.peers.pool \cap s.peers.idle = {}
         THEN {s}
         ELSE {[s EXCEPT !.f.in = @ \ {job}, !.peers.idle = @ \ {o},
                   !.requests = @ \cup {[job |-> job, peer |-> o, state |-> "active"]}] :
               o \in s.peers.pool \cap s.peers.idle}

NextJob(s) == UNION {NextOf(t) : t \in {[s EXCEPT !.f = NextTasks(@)]}}

-----------------------------------------------------------------------------
(* The streams (Node): a chunk goes on to the writer unless it waits for     *)
(* `drain'; the writer takes one chunk, or all that were buffered meanwhile. *)

Least(a, b) == IF a < b THEN a ELSE b

Room(q) ==
    IF q.paused \/ q.readable # <<>> THEN 0
    ELSE opt.highWaterMark - Len(q.batch) - Len(q.buffer)

(* What fits goes to the writer, the rest to the read queue.                 *)
Pushed(q, jobs) ==
    LET n  == Least(Room(q), Len(jobs))
        w  == SubSeq(jobs, 1, n)
        b0 == IF q.batch = <<>> THEN SubSeq(w, 1, Least(1, n)) ELSE q.batch
        bs == IF q.batch = <<>> THEN q.buffer \o SubSeq(w, 2, n) ELSE q.buffer \o w
    IN  [q EXCEPT !.readable = @ \o SubSeq(jobs, n + 1, Len(jobs)),
                  !.batch = b0, !.buffer = bs,
                  !.paused = @ \/ Len(b0) + Len(bs) >= opt.highWaterMark]

(* The pushes until one returns false: the read queue is full.               *)
Pushes(q) ==
    Room(q) + (IF Len(q.readable) < opt.highWaterMark THEN opt.highWaterMark - Len(q.readable) ELSE 1)

(* The place of a job in a heap: how many come before it.                    *)
Earlier(jobs, j) == Cardinality({k \in jobs : k.index < j.index})

ByIndex(jobs) ==
    [i \in 1..Cardinality(jobs) |-> CHOOSE j \in jobs : Earlier(jobs, j) = i - 1]

(* Done jobs go out, until a push returns false.                             *)
Out(s, jobs) ==
    LET sent == {j \in jobs : Earlier(s.f.out, j) < Pushes(s.pipe)}
    IN  IF sent = {} THEN s
        ELSE [s EXCEPT !.f.processed = @ + Cardinality(sent), !.f.out = @ \ sent,
                       !.pipe = Pushed(@, ByIndex(sent))]

(* Fault: whatever is done goes out, in order or not.                        *)
Dequeue_AnyOrder(s) == Out(s, s.f.out)

(* dequeue(): the done jobs up to the first gap.                             *)
Dequeue(s) ==
    LET early(j) == j.index <= s.f.processed + Earlier(s.f.out, j)
    IN  Out(s, {j \in s.f.out : \A k \in s.f.out : k.index <= j.index => early(k)})

(* `drain': the read queue flows again.                                      *)
Flow(q) == Pushed([q EXCEPT !.readable = <<>>, !.paused = FALSE], q.readable)

(* Fault: `drain' does not read on.                                          *)
BatchDone_NoRead(s) ==
    LET q == [s.pipe EXCEPT !.batch = s.pipe.buffer, !.buffer = <<>>, !.done = 0]
    IN  IF s.pipe.buffer # <<>> THEN [s EXCEPT !.pipe = q]
        ELSE [s EXCEPT !.pipe = Flow(q)]

(* The writer's callback; after `drain', _read dequeues what was left.       *)
BatchDone(s) ==
    LET q == [s.pipe EXCEPT !.batch = s.pipe.buffer, !.buffer = <<>>, !.done = 0]
    IN  IF s.pipe.buffer # <<>> THEN [s EXCEPT !.pipe = q]
        ELSE Dequeue([s EXCEPT !.pipe = Flow(q)])

-----------------------------------------------------------------------------
(* Answers.  A request of an abandoned fetcher only frees its peer; one that *)
(* has expired is over, its answer finds the job expired and does nothing.   *)

Finished(r) == [Turn EXCEPT !.requests = @ \ {r}]

Result(r) == [index |-> r.job.index, first |-> r.job.first, count |-> r.job.count,
              got |-> 0, peer |-> r.peer]

Requeued(s, jobs) == [s EXCEPT !.f = Enqueue(@, jobs)]

(* next() ends the turn, from one of the states S.                           *)
Goes(S) == \E s \in S : \E t \in NextJob(s) : Becomes(t)

(* success() with a result: complete, partial or not what was asked for.     *)
Complete(r) ==
    /\ r.state = "active" /\ r.peer \notin peers.lost
    /\ \E s \in {Idled(Finished(r), r.peer)} :
          Goes({Dequeue([s EXCEPT !.f.out = @ \cup {Result(r)}])})
    /\ UNCHANGED <<opt, stored, faults>>

(* Fault: a whole result counts as partial too.                              *)
Partial_Whole(r) ==
    /\ r.state = "active" /\ r.peer \notin peers.lost /\ faults < opt.faults
    /\ Goes({Requeued(Idled(Finished(r), r.peer), {[r.job EXCEPT !.got = @ + n]}) :
               n \in 1..(r.job.count - r.job.got)})
    /\ faults' = faults + 1
    /\ UNCHANGED <<opt, stored>>

Partial(r) ==
    /\ r.state = "active" /\ r.peer \notin peers.lost /\ faults < opt.faults
    /\ Goes({Requeued(Idled(Finished(r), r.peer), {[r.job EXCEPT !.got = @ + n]}) :
               n \in 1..(r.job.count - r.job.got - 1)})
    /\ faults' = faults + 1
    /\ UNCHANGED <<opt, stored>>

Unexpected(r) ==
    /\ r.state = "active" /\ r.peer \notin peers.lost /\ faults < opt.faults
    /\ Goes({Requeued(Idled(Finished(r), r.peer), {[r.job EXCEPT !.got = 0]})})
    /\ faults' = faults + 1
    /\ UNCHANGED <<opt, stored>>

(* An empty result or a failed request.                                      *)
Nothing(r) ==
    /\ r.state = "active" /\ faults < opt.faults
    /\ Goes({Requeued(Rests(Finished(r), r.peer), {r.job})})
    /\ faults' = faults + 1
    /\ UNCHANGED <<opt, stored>>

Abandoned(r) ==
    /\ r.state = "orphan"
    /\ \/ Becomes(Idled(Finished(r), r.peer)) \/ Becomes(Rests(Finished(r), r.peer))
    /\ UNCHANGED <<opt, stored, faults>>

(* Fault: the job keeps its state.                                           *)
Expire_StillActive(r) ==
    /\ r.peer \notin peers.lost => faults < opt.faults
    /\ faults' = IF r.peer \in peers.lost THEN faults ELSE faults + 1
    /\ LET s == Banned(Turn, r.peer)
       IN  Becomes(IF r.state = "active" THEN Requeued(s, {r.job}) ELSE s)
    /\ UNCHANGED <<opt, stored>>

(* expire(): the peer is banned, or whoever bears its id by now. The request *)
(* is over: one that times out resolves to undefined, and success ignores    *)
(* it. A rejection after that, for which `failure' would set the peer idle,  *)
(* is not modelled.                                                          *)
Expire(r) ==
    /\ r.peer \notin peers.lost => faults < opt.faults
    /\ faults' = IF r.peer \in peers.lost THEN faults ELSE faults + 1
    /\ LET s == Banned([Turn EXCEPT
                    !.requests = @ \ {r}], r.peer)
       IN  Becomes(IF r.state = "active" THEN Requeued(s, {r.job}) ELSE s)
    /\ UNCHANGED <<opt, stored>>

Rested(o) ==
    /\ o \in peers.resting
    /\ Becomes(Idled([Turn EXCEPT !.peers.resting = @ \ {o}], o))
    /\ UNCHANGED <<opt, stored, faults>>

-----------------------------------------------------------------------------
(* The pool.                                                                 *)

Waits(p) == \E r \in requests : r.peer[1] = p

(* A connection makes a new object, idle.  A ban outlasts the timeout of a   *)
(* request (60 s and 8 s), so the requests to a banned peer are over.        *)
Connect(p) ==
    /\ ~Pooled(p)
    /\ Waits(p) => \A o \in peers.bans : o[1] # p
    /\ LET new == <<p, peers.gen[p] + 1>>
           old == {<<p, n>> : n \in 1..peers.gen[p]}
       IN  peers' = [peers EXCEPT !.pool = @ \cup {new}, !.idle = @ \cup {new},
                                  !.gen[p] = @ + 1, !.lost = @ \cup old]
    /\ UNCHANGED <<opt, f, requests, pipe, stored, faults>>

Disconnect(o) ==
    /\ o \in peers.pool /\ faults < opt.faults
    /\ peers' = [peers EXCEPT !.pool = @ \ {o}, !.lost = @ \cup {o}]
    /\ faults' = faults + 1
    /\ UNCHANGED <<opt, f, requests, pipe, stored>>

(* The timer of a ban puts the object itself back if the pool is empty.      *)
Reconnect(o) ==
    /\ o \in peers.bans /\ ~Waits(o[1])
    /\ peers' = [peers EXCEPT !.bans = @ \ {o}, !.pool = IF @ = {} THEN {o} ELSE @]
    /\ UNCHANGED <<opt, f, requests, pipe, stored, faults>>

-----------------------------------------------------------------------------
(* The writer and the chain.                                                 *)

Storing == pipe.batch[pipe.done + 1]

Links(job) == job.first - 1 \in stored

(* clear() and destroy(): nothing of this fetcher goes on but its requests.  *)
Cleared(s) ==
    [s EXCEPT !.f.running = FALSE, !.f.in = {}, !.f.out = {}, !.pipe = EmptyPipe,
              !.requests = {[r EXCEPT !.state = "orphan"] : r \in @}]

(* putBlocks; the job of the target is the last one, after it the            *)
(* synchronizer drops the fetcher (SYNC_SYNCHRONIZED).                       *)
Store ==
    /\ pipe.batch # <<>> /\ Links(Storing)
    /\ stored' = stored \cup Storing.first..(Storing.first + Storing.count - 1)
    /\ LET s == [Turn EXCEPT !.pipe.done = @ + 1]
           n == Len(pipe.batch)
       IN  Becomes(IF opt.target \in stored' THEN Cleared(s)
                   ELSE IF pipe.done + 1 < n THEN s
                   ELSE BatchDone([s EXCEPT !.f.finished = @ + n]))
    /\ UNCHANGED <<opt, faults>>

(* The first job of the batch is asked for again from further back, by       *)
(* safeReorgDistance blocks at most.                                         *)
SteppedBack(job) ==
    LET back == Min({job.first - 1, safeReorgDistance})
    IN  Job(job.index, job.first - back, job.count + back)

Again(batch) ==
    {IF i = 1 THEN SteppedBack(batch[1]) ELSE Job(batch[i].index, batch[i].first, batch[i].count)
     : i \in DOMAIN batch}

(* `could not find parent header': the whole batch is queued again.          *)
StoreUnlinked ==
    /\ pipe.batch # <<>> /\ ~Links(Storing)
    /\ \E s \in {Requeued([Rests(Turn, pipe.batch[1].peer) EXCEPT
                              !.f.processed = @ - Len(pipe.batch)], Again(pipe.batch))} :
          \E t \in NextJob(s) : Becomes(BatchDone(t))
    /\ UNCHANGED <<opt, stored, faults>>

(* Any other error ends the fetcher.                                         *)
StoreThrows ==
    /\ pipe.batch # <<>> /\ faults < opt.faults
    /\ faults' = faults + 1
    /\ Becomes(Cleared(Turn))
    /\ UNCHANGED <<opt, stored>>

-----------------------------------------------------------------------------
(* The loop of fetch(), and the synchronizer's next attempt.                 *)

Loop ==
    /\ f.running
    /\ Goes({Turn})
    /\ UNCHANGED <<opt, stored, faults>>

Resync ==
    /\ ~f.running /\ opt.target \notin stored /\ Start <= opt.target
    /\ f' = NewFetcher(Start)
    /\ pipe' = EmptyPipe
    /\ UNCHANGED <<opt, requests, peers, stored, faults>>

Answer(r) ==
    \/ Complete(r) \/ Partial(r) \/ Unexpected(r) \/ Nothing(r)
    \/ Abandoned(r) \/ Expire(r)

Writer == Store \/ StoreUnlinked \/ StoreThrows

Next ==
    \/ \E r \in requests : Answer(r)
    \/ \E o \in peers.resting : Rested(o)
    \/ \E p \in Peers : Connect(p)
    \/ \E o \in peers.pool : Disconnect(o)
    \/ \E o \in peers.bans : Reconnect(o)
    \/ Writer \/ Loop \/ Resync

(* Fairness: a request ends in an answer or its timeout, every timer fires,  *)
(* the chain answers the writer.                                             *)
NodeFairness ==
    /\ WF_vars(Loop) /\ WF_vars(Writer) /\ WF_vars(Resync)
    /\ \A p \in Peers :
          /\ WF_vars(\E r \in requests : r.peer[1] = p /\ Answer(r))
          /\ WF_vars(\E o \in peers.resting : o[1] = p /\ Rested(o))
          /\ WF_vars(\E o \in peers.bans : o[1] = p /\ Reconnect(o))

(* The network: a peer that is not in the pool connects again.               *)
NetworkFairness == \A p \in Peers : SF_vars(Connect(p))

Spec == Init /\ [][Next]_vars
FairSpec == Spec /\ NodeFairness /\ NetworkFairness
QuietSpec == Spec /\ NodeFairness

-----------------------------------------------------------------------------
(* Properties.                                                               *)

Objects == Peers \X Nat

(* Every variable keeps its type.                                            *)
TypeOK ==
    /\ opt \in Configs
    /\ f.running \in BOOLEAN
    /\ {f.total, f.processed, f.finished, f.first, f.count} \subseteq Nat
    /\ \A j \in f.in : {j.index, j.first, j.count, j.got} \subseteq Nat /\ j.got < j.count
    /\ \A r \in requests : r.peer \in Objects /\ r.state \in {"active", "orphan"}
    /\ peers.pool \cup peers.idle \cup peers.resting \cup peers.bans \subseteq Objects
    /\ \A a, b \in peers.pool : a[1] = b[1] => a = b
    /\ pipe.done \in 0..Len(pipe.batch)
    /\ stored \subseteq 0..opt.target /\ faults \in 0..opt.faults

Active == {r \in requests : r.state = "active"}

Piped == pipe.batch \o pipe.buffer \o pipe.readable

(* While the fetcher runs, every job is in one place, exactly once: queued,  *)
(* requested, done, on its way to the writer, or finished; so the counters   *)
(* that decide what is dequeued and when the fetch is over are right         *)
(* (expire, empty and partial answers and a reorganisation queue copies of a *)
(* job while the old one may still be answered).                             *)
JobsAccounted ==
    f.running =>
        LET queued  == {j.index : j \in f.in}
            asked   == {r.job.index : r \in Active}
            done    == {j.index : j \in f.out}
            written == {Piped[i].index : i \in DOMAIN Piped}
            all     == queued \cup asked \cup done \cup written
            n == Cardinality(f.in) + Cardinality(Active) + Cardinality(f.out) + Len(Piped)
        IN  /\ Cardinality(all) = n
            /\ all \subseteq 0..(f.total - 1)
            /\ f.finished + n = f.total
            /\ f.processed = f.finished + Len(Piped)

(* The writer meets a missing parent, and steps back, only if the chains do  *)
(* differ below the first block asked for: results go to the chain in the    *)
(* order of the jobs, whatever the order of the answers.                     *)
InOrder ==
    LET first == Max({1, (opt.local + 1) - Min({safeReorgDistance, opt.local + 1})})
    IN  opt.common + 1 >= first =>
            /\ \A j \in f.in : j.first >= first
            /\ pipe.batch # <<>> => Links(Storing)

(* The target block is stored in the end, whichever answers are late, short, *)
(* wrong or missing, whoever is banned, however far the chains have parted,  *)
(* as long as peers keep connecting.                                         *)
FetchCompletes == <>(opt.target \in stored)

(* A job in the queue of a running fetcher does not wait for ever beside a   *)
(* pool of peers (comment of PeerPool.ban: "Reconnect to peer after ban      *)
(* period if pool is empty").                                                *)
PoolServes ==
    (f.running /\ f.in # {} /\ peers.pool # {})
        ~> (~f.running \/ Active # {} \/ f.in = {} \/ peers.pool = {})
=============================================================================
