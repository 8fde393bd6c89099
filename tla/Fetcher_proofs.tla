--------------------------- MODULE Fetcher_proofs ---------------------------
(* No job of the block fetcher is lost or done twice, and its results reach  *)
(* the chain in order, for any number of peers, any chain and any limits.    *)
EXTENDS Fetcher, SequenceTheorems, FiniteSetTheorems, TLAPS

-----------------------------------------------------------------------------
(* Least and greatest elements.                                              *)

Below == {ss \in Nat \X Nat : ss[1] < ss[2]}

(* A set of naturals that is not empty has a least element.                  *)
LEMMA LeastElement ==
  ASSUME NEW S, S \subseteq Nat, S # {}
  PROVE  \E m \in S : \A k \in S : m <= k
<1>1. IsWellFoundedOn(Below, Nat)
  BY NatLessThanWellFounded DEF OpToRel, Below
<1>2. PICK m \in S : \A k \in S : ~(<<k, m>> \in Below)
  BY <1>1, WFMin
<1>3. ASSUME NEW k \in S PROVE m <= k
  <2>1. m \in Nat /\ k \in Nat
    OBVIOUS
  <2>2. <<k, m>> \in Nat \X Nat
    BY <2>1
  <2>3. ~(k < m)
    BY <1>2, <2>2 DEF Below
  <2> QED BY <2>1, <2>3
<1> QED BY <1>3

LEMMA MinFacts ==
  ASSUME NEW S, S \subseteq Nat, S # {}
  PROVE  Min(S) \in S /\ \A k \in S : Min(S) <= k
  BY LeastElement DEF Min

LEMMA MinOfTwo ==
  ASSUME NEW a \in Nat, NEW b \in Nat
  PROVE  Min({a, b}) \in Nat /\ Min({a, b}) <= a /\ Min({a, b}) <= b
         /\ (Min({a, b}) = a \/ Min({a, b}) = b)
<1>1. {a, b} \subseteq Nat /\ {a, b} # {}
  OBVIOUS
<1>2. Min({a, b}) \in {a, b} /\ \A k \in {a, b} : Min({a, b}) <= k
  BY <1>1, MinFacts
<1> QED BY <1>2

(* A bounded set of naturals that is not empty has a greatest element.       *)
LEMMA MaxFacts ==
  ASSUME NEW S, S \subseteq Nat, S # {}, NEW n \in Nat, \A k \in S : k <= n
  PROVE  Max(S) \in S /\ \A k \in S : k <= Max(S)
<1> DEFINE T == {n - k : k \in S}
<1>1. T \subseteq Nat /\ T # {}
  <2>1. ASSUME NEW k \in S PROVE n - k \in Nat
    <3>1. k \in Nat /\ k <= n
      OBVIOUS
    <3> QED BY <3>1
  <2> QED BY <2>1
<1>2. PICK m \in T : \A k \in T : m <= k
  BY <1>1, LeastElement
<1>3. PICK x \in S : m = n - x
  BY <1>2
<1>4. ASSUME NEW k \in S PROVE x >= k
  <2>1. n - k \in T /\ k \in Nat /\ x \in Nat
    OBVIOUS
  <2>2. n - x <= n - k
    BY <1>2, <1>3, <2>1
  <2> QED BY <2>1, <2>2
<1>5. \E y \in S : \A k \in S : y >= k
  BY <1>4
<1>6. Max(S) \in S /\ \A k \in S : Max(S) >= k
  BY <1>5 DEF Max
<1> QED BY <1>6

-----------------------------------------------------------------------------
(* What the state is made of, for the configuration o.                       *)

Spanned(j, o) == j.first >= 1 /\ j.count >= 1 /\ j.first + j.count <= o.target + 1

Jobs(o) ==
  {j \in [index : Nat, first : Nat, count : Nat, got : Nat] :
     Spanned(j, o) /\ j.got < j.count}

Results(o) ==
  {j \in [index : Nat, first : Nat, count : Nat, got : Nat, peer : Objects] :
     Spanned(j, o)}

Fetchers(o) ==
  {x \in [running : BOOLEAN, total : Nat, processed : Nat, finished : Nat,
          first : Nat, count : Nat, in : SUBSET Jobs(o), out : SUBSET Results(o)] :
     x.first >= 1 /\ x.first + x.count = o.target + 1}

Asked(o) == [job : Jobs(o), peer : Objects, state : {"active", "orphan"}]

(* The batch is never empty while there is something behind it, and the      *)
(* writer is behind unless there is room.                                    *)
Pipes(o) ==
  {q \in [readable : Seq(Results(o)), paused : BOOLEAN, buffer : Seq(Results(o)),
          batch : Seq(Results(o)), done : Nat] :
     /\ q.batch = <<>> => q.buffer = <<>> /\ q.done = 0
     /\ q.batch # <<>> => q.done < Len(q.batch)
     /\ ~q.paused => Len(q.batch) + Len(q.buffer) < o.highWaterMark}

PeerPools ==
  {x \in [pool : SUBSET Objects, idle : SUBSET Objects, resting : SUBSET Objects,
          lost : SUBSET Objects, bans : SUBSET Objects, gen : [Peers -> Nat]] :
     \A a, b \in x.pool : a[1] = b[1] => a = b}

States(o) ==
  [f : Fetchers(o), requests : SUBSET Asked(o), pipe : Pipes(o), peers : PeerPools]

LEMMA ConfigFacts ==
  ASSUME opt \in Configs
  PROVE  /\ opt.local \in Nat /\ opt.common \in Nat /\ opt.target \in Nat
         /\ opt.faults \in Nat /\ opt.highWaterMark \in Nat \ {0}
         /\ opt.common < opt.target
         /\ maxPerRequest \in Nat \ {0} /\ maxFetcherJobs \in Nat \ {0}
         /\ safeReorgDistance \in Nat
  BY FetcherAssumption

-----------------------------------------------------------------------------
(* Cutting jobs.                                                             *)

(* With ceil(count / max) tasks at most, each has something left to take.    *)
LEMMA CeilingLeaves ==
  ASSUME NEW c \in Nat, NEW m \in Nat \ {0}, NEW i \in Nat \ {0},
         i <= (c + m - 1) \div m
  PROVE  c - (i - 1) * m >= 1
<1> DEFINE d == (c + m - 1) \div m
<1>1. d \in Nat /\ d * m <= c + m - 1
  <2> DEFINE a == c + m - 1
  <2>1. a \in Nat
    OBVIOUS
  <2> HIDE DEF a
  <2>2. a = m * (a \div m) + (a % m) /\ a % m \in 0..(m - 1) /\ a \div m \in Nat
    BY <2>1
  <2> QED BY <2>2 DEF a
<1>2. i \in Nat /\ i <= d
  OBVIOUS
<1> HIDE DEF d
<1>3. i * m <= d * m
  BY <1>1, <1>2
<1>4. (i - 1) * m = i * m - m
  OBVIOUS
<1> QED BY <1>1, <1>3, <1>4


(* A function on 1..n with values in S is a sequence.                        *)
LEMMA TupleFacts ==
  ASSUME NEW S, NEW n \in Nat, NEW g \in [1..n -> S]
  PROVE  g \in Seq(S) /\ Len(g) = n /\ DOMAIN g = 1..n
  OBVIOUS

LEMMA TasksFacts ==
  ASSUME opt \in Configs, NEW x \in Fetchers(opt), x.count # 0
  PROVE  LET ts == Tasks(x)
         IN  /\ ts \in Seq(Jobs(opt)) /\ Len(ts) \in Nat /\ DOMAIN ts = 1..Len(ts)
             /\ \A i \in 1..Len(ts) : ts[i].index = x.total + i - 1
<1> DEFINE n == Min({maxFetcherJobs, (x.count + maxPerRequest - 1) \div maxPerRequest})
           left(i) == x.count - (i - 1) * maxPerRequest
           take(i) == Min({maxPerRequest, left(i)})
           job(i) == Job(x.total + i - 1, x.first + (i - 1) * maxPerRequest, take(i))
<1>1. /\ x.total \in Nat /\ x.first \in Nat /\ x.first >= 1 /\ x.count \in Nat
      /\ x.first + x.count = opt.target + 1 /\ opt.target \in Nat
      /\ maxPerRequest \in Nat \ {0} /\ maxFetcherJobs \in Nat \ {0}
  BY ConfigFacts DEF Fetchers
<1>2. n \in Nat /\ n <= (x.count + maxPerRequest - 1) \div maxPerRequest
  <2>1. (x.count + maxPerRequest - 1) \div maxPerRequest \in Nat
    <3>1. x.count + maxPerRequest - 1 \in Nat
      BY <1>1
    <3> QED BY <1>1, <3>1
  <2> QED BY <1>1, <2>1, MinOfTwo
<1>3. ASSUME NEW i \in 1..n PROVE job(i) \in Jobs(opt) /\ job(i).index = x.total + i - 1
  <2>1. i \in Nat \ {0} /\ i <= (x.count + maxPerRequest - 1) \div maxPerRequest
    <3>1. i \in Nat \ {0} /\ i <= n
      BY <1>2
    <3>2. (x.count + maxPerRequest - 1) \div maxPerRequest \in Int
      BY <1>1
    <3> QED BY <1>2, <3>1, <3>2
  <2>2. left(i) >= 1 /\ left(i) \in Nat
    BY <1>1, <2>1, CeilingLeaves
  <2> DEFINE p == (i - 1) * maxPerRequest
  <2>3. p \in Nat
    BY <1>1, <2>1
  <2>4. left(i) = x.count - p
    OBVIOUS
  <2> HIDE DEF left, p
  <2>5. take(i) \in Nat /\ take(i) >= 1 /\ take(i) <= left(i)
    BY <1>1, <2>2, MinOfTwo
  <2> HIDE DEF take
  <2>6. x.first + p \in Nat /\ x.first + p >= 1 /\ (x.first + p) + take(i) <= opt.target + 1
    BY <1>1, <2>2, <2>3, <2>4, <2>5
  <2>7. x.total + i - 1 \in Nat
    BY <1>1, <2>1
  <2>8. job(i) = [index |-> x.total + i - 1, first |-> x.first + p, count |-> take(i), got |-> 0]
    BY DEF Job, p
  <2> HIDE DEF job
  <2> QED BY <2>5, <2>6, <2>7, <2>8 DEF Jobs, Spanned
<1>4. Tasks(x) = [i \in 1..n |-> job(i)]
  BY DEF Tasks
<1> HIDE DEF n, job
<1>5. Tasks(x) \in [1..n -> Jobs(opt)]
  BY <1>3, <1>4
<1>6. Tasks(x) \in Seq(Jobs(opt)) /\ Len(Tasks(x)) = n /\ DOMAIN Tasks(x) = 1..n
  BY <1>2, <1>5, TupleFacts
<1> QED BY <1>2, <1>3, <1>4, <1>6

(* Cutting from the front of a range leaves its end.                         *)
LEMMA CutSums ==
  ASSUME NEW total \in Nat, NEW first \in Nat, NEW count \in Nat, NEW end \in Nat,
         NEW n \in Nat, NEW cut \in Nat,
         first >= 1, first + count = end + 1, cut <= count
  PROVE  /\ total + n \in Nat /\ first + cut \in Nat /\ count - cut \in Nat
         /\ first + cut >= 1 /\ (first + cut) + (count - cut) = end + 1
  OBVIOUS

LEMMA NextTasksTypes ==
  ASSUME opt \in Configs, NEW x \in Fetchers(opt)
  PROVE  NextTasks(x) \in Fetchers(opt)
<1>1. CASE x.in # {} \/ x.count = 0
  BY <1>1 DEF NextTasks
<1>2. CASE ~(x.in # {} \/ x.count = 0)
  <2> DEFINE ts == Tasks(x)
             cut == Min({x.count, maxFetcherJobs * maxPerRequest})
  <2>1. Range(ts) \subseteq Jobs(opt) /\ Len(ts) \in Nat
    <3>1. ts \in Seq(Jobs(opt)) /\ Len(ts) \in Nat /\ DOMAIN ts = 1..Len(ts)
      BY <1>2, TasksFacts
    <3> HIDE DEF ts
    <3> QED BY <3>1 DEF Range
  <2>2. cut \in Nat /\ cut <= x.count
    <3>1. x.count \in Nat
      BY DEF Fetchers
    <3>2. maxFetcherJobs * maxPerRequest \in Nat
      BY ConfigFacts
    <3> QED BY <3>1, <3>2, MinOfTwo
  <2>3. NextTasks(x) = [x EXCEPT !.in = Range(ts), !.total = @ + Len(ts),
                                 !.first = @ + cut, !.count = @ - cut]
    BY <1>2 DEF NextTasks
  <2> HIDE DEF ts, cut
  <2>4. /\ x.total \in Nat /\ x.first \in Nat /\ x.count \in Nat /\ x.first >= 1
        /\ x.first + x.count = opt.target + 1 /\ opt.target \in Nat
    BY ConfigFacts DEF Fetchers
  <2>5. /\ x.total + Len(ts) \in Nat /\ x.first + cut \in Nat /\ x.count - cut \in Nat
        /\ x.first + cut >= 1 /\ (x.first + cut) + (x.count - cut) = opt.target + 1
    <3> DEFINE n == Len(ts)
               total == x.total
               first == x.first
               count == x.count
               end == opt.target
    <3>1. /\ n \in Nat /\ total \in Nat /\ first \in Nat /\ count \in Nat /\ end \in Nat
          /\ first >= 1 /\ first + count = end + 1 /\ cut \in Nat /\ cut <= count
      BY <2>1, <2>2, <2>4
    <3> HIDE DEF n, total, first, count, end
    <3>2. /\ total + n \in Nat /\ first + cut \in Nat /\ count - cut \in Nat
          /\ first + cut >= 1 /\ (first + cut) + (count - cut) = end + 1
      BY <3>1, CutSums
    <3> QED BY <3>2 DEF n, total, first, count, end
  <2> DEFINE total == x.total + Len(ts)
             first == x.first + cut
             count == x.count - cut
  <2>6. NextTasks(x) = [x EXCEPT !.in = Range(ts), !.total = total, !.first = first,
                                 !.count = count]
    BY <2>3
  <2>7. /\ total \in Nat /\ first \in Nat /\ count \in Nat
        /\ first >= 1 /\ first + count = opt.target + 1
    BY <2>5
  <2> HIDE DEF total, first, count
  <2> QED BY <2>1, <2>6, <2>7 DEF Fetchers
<1> QED BY <1>1, <1>2


-----------------------------------------------------------------------------
(* The streams keep what is pushed, in order.                                *)

Line(q) == q.batch \o q.buffer \o q.readable

LEMMA ThreeSeqs ==
  ASSUME NEW S, NEW s \in Seq(S), NEW t \in Seq(S), NEW u \in Seq(S)
  PROVE  /\ s \o t \in Seq(S) /\ (s \o t) \o u \in Seq(S)
         /\ (s \o t) \o u = s \o (t \o u)
<1>1. s \o t \in Seq(S) /\ (s \o t) \o u = s \o (t \o u)
  BY ConcatProperties, ConcatAssociative
<1>2. (s \o t) \o u \in Seq(S)
  BY <1>1, ConcatProperties
<1> QED BY <1>1, <1>2

LEMMA PipeFacts ==
  ASSUME opt \in Configs, NEW q \in Pipes(opt)
  PROVE  /\ q.batch \in Seq(Results(opt)) /\ q.buffer \in Seq(Results(opt))
         /\ q.readable \in Seq(Results(opt)) /\ q.paused \in BOOLEAN /\ q.done \in Nat
         /\ q.batch = <<>> => q.buffer = <<>> /\ q.done = 0
         /\ q.batch # <<>> => q.done < Len(q.batch)
         /\ Room(q) \in Nat /\ (Room(q) > 0 => q.readable = <<>>)
         /\ Line(q) \in Seq(Results(opt))
<1>1. /\ q.batch \in Seq(Results(opt)) /\ q.buffer \in Seq(Results(opt))
      /\ q.readable \in Seq(Results(opt)) /\ q.paused \in BOOLEAN /\ q.done \in Nat
      /\ q.batch = <<>> => q.buffer = <<>> /\ q.done = 0
      /\ q.batch # <<>> => q.done < Len(q.batch)
      /\ ~q.paused => Len(q.batch) + Len(q.buffer) < opt.highWaterMark
  BY DEF Pipes
<1>2. Len(q.batch) \in Nat /\ Len(q.buffer) \in Nat
  BY <1>1, LenProperties
<1>3. Room(q) \in Nat /\ (Room(q) > 0 => q.readable = <<>>)
  <2>1. opt.highWaterMark \in Nat
    BY ConfigFacts
  <2> DEFINE a == Len(q.batch)
             b == Len(q.buffer)
             h == opt.highWaterMark
  <2>2. ~q.paused => opt.highWaterMark - Len(q.batch) - Len(q.buffer) \in Nat
    <3>1. a \in Nat /\ b \in Nat /\ h \in Nat /\ (~q.paused => a + b < h)
      BY <1>1, <1>2, <2>1
    <3> HIDE DEF a, b, h
    <3>2. ~q.paused => h - a - b \in Nat
      BY <3>1
    <3> QED BY <3>2 DEF a, b, h
  <2>3. q.paused \/ q.readable # <<>> => Room(q) = 0
    BY DEF Room
  <2>4. ~(q.paused \/ q.readable # <<>>)
          => Room(q) = opt.highWaterMark - Len(q.batch) - Len(q.buffer)
    BY DEF Room
  <2> QED BY <2>2, <2>3, <2>4
<1>4. Line(q) \in Seq(Results(opt))
  BY <1>1, ConcatProperties DEF Line
<1> QED BY <1>1, <1>3, <1>4

LEMMA SplitSeq ==
  ASSUME NEW S, NEW s \in Seq(S), NEW n \in Nat, n <= Len(s)
  PROVE  /\ SubSeq(s, 1, n) \in Seq(S) /\ SubSeq(s, n + 1, Len(s)) \in Seq(S)
         /\ Len(SubSeq(s, 1, n)) = n
         /\ SubSeq(s, 1, n) \o SubSeq(s, n + 1, Len(s)) = s
<1>1. Len(s) \in Nat /\ \A i \in 1..Len(s) : s[i] \in S
  BY LenProperties, ElementOfSeq
<1>2. SubSeq(s, 1, n) \in Seq(S) /\ Len(SubSeq(s, 1, n)) = n
  <2>1. \A i \in 1..n : s[i] \in S
    BY <1>1
  <2>2. /\ SubSeq(s, 1, n) \in Seq(S)
        /\ Len(SubSeq(s, 1, n)) = IF 1 <= n THEN n - 1 + 1 ELSE 0
    BY <2>1, SubSeqProperties
  <2> QED BY <2>2
<1>3. SubSeq(s, n + 1, Len(s)) \in Seq(S)
  <2>1. \A i \in (n + 1)..Len(s) : s[i] \in S
    BY <1>1
  <2> QED BY <1>1, <2>1, SubSeqProperties
<1>4. SubSeq(s, 1, n) \o SubSeq(s, n + 1, Len(s)) = SubSeq(s, 1, Len(s))
  <2>1. 1 \in 1..(Len(s) + 1) /\ n \in (1 - 1)..Len(s) /\ Len(s) \in n..Len(s)
    BY <1>1
  <2> QED BY <2>1, ConcatAdjacentSubSeq
<1>5. SubSeq(s, 1, Len(s)) = s
  BY SubSeqFull
<1> QED BY <1>2, <1>3, <1>4, <1>5

LEMMA PushedFacts ==
  ASSUME opt \in Configs, NEW q \in Pipes(opt), NEW jobs \in Seq(Results(opt))
  PROVE  Pushed(q, jobs) \in Pipes(opt) /\ Line(Pushed(q, jobs)) = Line(q) \o jobs
<1> DEFINE R == Results(opt)
           n == Least(Room(q), Len(jobs))
           w == SubSeq(jobs, 1, n)
           r == SubSeq(jobs, n + 1, Len(jobs))
           b0 == IF q.batch = <<>> THEN SubSeq(w, 1, Least(1, n)) ELSE q.batch
           bs == IF q.batch = <<>> THEN q.buffer \o SubSeq(w, 2, n) ELSE q.buffer \o w
           rd == q.readable \o r
           paused == q.paused \/ Len(b0) + Len(bs) >= opt.highWaterMark
<1>1. n \in Nat /\ n <= Len(jobs) /\ (n > 0 => q.readable = <<>>) /\ Len(jobs) \in Nat
  <2>1. Len(jobs) \in Nat
    BY LenProperties
  <2>2. Room(q) \in Nat /\ (Room(q) > 0 => q.readable = <<>>)
    BY PipeFacts
  <2> QED BY <2>1, <2>2 DEF Least
<1>2. w \in Seq(R) /\ r \in Seq(R) /\ Len(w) = n /\ w \o r = jobs
  BY <1>1, SplitSeq
<1>3. n = 0 => w = <<>> /\ r = jobs
  <2>1. n = 0 => w = <<>>
    BY <1>2, EmptySeq
  <2>2. n = 0 => <<>> \o r = jobs
    BY <1>2, <2>1
  <2> QED BY <1>2, <2>1, <2>2, ConcatEmptySeq
<1>4. /\ q.batch \in Seq(R) /\ q.buffer \in Seq(R) /\ q.readable \in Seq(R)
      /\ q.paused \in BOOLEAN /\ q.done \in Nat
      /\ q.batch = <<>> => q.buffer = <<>> /\ q.done = 0
      /\ q.batch # <<>> => q.done < Len(q.batch)
  BY PipeFacts
<1>5. Pushed(q, jobs) = [q EXCEPT !.readable = rd, !.batch = b0, !.buffer = bs,
                                  !.paused = paused]
  BY DEF Pushed
<1> HIDE DEF R, n, w, r
<1>6. CASE q.batch = <<>>
  <2>1. b0 \in Seq(R) /\ bs \in Seq(R) /\ b0 \o bs = w /\ (b0 = <<>> => n = 0 /\ bs = <<>>)
        /\ (n = 0 => b0 = <<>> /\ bs = <<>>) /\ (b0 # <<>> => Len(b0) > 0)
    <3>1. CASE n = 0
      <4>1. w = <<>>
        BY <1>3, <3>1
      <4>2. SubSeq(w, 1, Least(1, n)) = <<>> /\ SubSeq(w, 2, n) = <<>>
        BY <3>1, SubSeqEmpty DEF Least
      <4>3. b0 = <<>> /\ bs = <<>>
        <5>1. q.buffer = <<>> /\ <<>> \in Seq(R)
          BY <1>4, <1>6
        <5> QED BY <1>6, <4>2, <5>1, ConcatEmptySeq
      <4> HIDE DEF b0, bs
      <4> QED BY <3>1, <4>1, <4>3, EmptySeq, ConcatEmptySeq
    <3>2. CASE n # 0
      <4>1. Least(1, n) = 1 /\ 1 <= Len(w)
        BY <1>1, <1>2, <3>2 DEF Least
      <4>2. /\ SubSeq(w, 1, 1) \in Seq(R) /\ SubSeq(w, 1 + 1, Len(w)) \in Seq(R)
            /\ Len(SubSeq(w, 1, 1)) = 1
            /\ SubSeq(w, 1, 1) \o SubSeq(w, 1 + 1, Len(w)) = w
        BY <1>2, <4>1, SplitSeq
      <4>3. b0 = SubSeq(w, 1, 1)
        BY <1>6, <4>1
      <4>4. bs = SubSeq(w, 1 + 1, Len(w))
        <5>1. q.buffer = <<>> /\ 1 + 1 = 2
          BY <1>4, <1>6
        <5>2. bs = <<>> \o SubSeq(w, 1 + 1, Len(w))
          BY <1>2, <1>6, <5>1
        <5> QED BY <4>2, <5>2, ConcatEmptySeq
      <4> HIDE DEF b0, bs
      <4> QED BY <3>2, <4>2, <4>3, <4>4, EmptySeq
    <3> QED BY <3>1, <3>2
  <2> HIDE DEF b0, bs
  <2>2. rd \in Seq(R)
    BY <1>2, <1>4, ConcatProperties
  <2>3. (b0 \o bs) \o rd = Line(q) \o jobs
    <3>1. Line(q) = q.readable
      <4>1. q.buffer = <<>> /\ <<>> \in Seq(R)
        BY <1>4, <1>6
      <4>2. <<>> \o <<>> = <<>>
        BY <4>1, ConcatEmptySeq
      <4> QED BY <1>4, <1>6, <4>1, <4>2, ConcatEmptySeq DEF Line
    <3>2. CASE n = 0
      <4>1. rd = q.readable \o jobs /\ rd \in Seq(R) /\ b0 \o bs = <<>>
        BY <1>3, <2>1, <2>2, <3>2
      <4> QED BY <3>1, <4>1, ConcatEmptySeq
    <3>3. CASE n # 0
      <4>1. q.readable = <<>>
        BY <1>1, <3>3
      <4>2. rd = r /\ Line(q) \o jobs = jobs
        BY <1>2, <3>1, <4>1, ConcatEmptySeq DEF R
      <4> QED BY <1>2, <2>1, <4>2
    <3> QED BY <3>2, <3>3
  <2> HIDE DEF rd
  <2>4. Pushed(q, jobs) \in Pipes(opt)
    <3>1. Len(b0) \in Nat /\ Len(bs) \in Nat /\ opt.highWaterMark \in Nat
      BY <2>1, LenProperties, ConfigFacts
    <3>2. paused \in BOOLEAN /\ (~paused => Len(b0) + Len(bs) < opt.highWaterMark)
      BY <1>4, <3>1
    <3> HIDE DEF paused
    <3> QED BY <1>4, <1>5, <1>6, <2>1, <2>2, <3>1, <3>2 DEF Pipes, R
  <2>5. Line(Pushed(q, jobs)) = (b0 \o bs) \o rd
    BY <1>5 DEF Pipes, Line
  <2> QED BY <2>3, <2>4, <2>5
<1>8. \A s, u, v \in Seq(R) : (s \o u) \o v = s \o (u \o v)
  BY ThreeSeqs
<1>7. CASE q.batch # <<>>
  <2>1. b0 = q.batch /\ bs = q.buffer \o w /\ b0 \in Seq(R) /\ bs \in Seq(R)
    BY <1>2, <1>4, <1>7, ConcatProperties
  <2> HIDE DEF b0, bs
  <2>2. rd \in Seq(R)
    BY <1>2, <1>4, ConcatProperties
  <2>3. (b0 \o bs) \o rd = Line(q) \o jobs
    <3> DEFINE front == q.batch \o q.buffer
    <3>1. front \in Seq(R) /\ b0 \o bs = front \o w /\ Line(q) = front \o q.readable
      <4>1. front \in Seq(R) /\ Line(q) = front \o q.readable
        BY <1>4, ConcatProperties DEF Line
      <4>2. (q.batch \o q.buffer) \o w = q.batch \o (q.buffer \o w)
        <5>1. q.batch \in Seq(R) /\ q.buffer \in Seq(R) /\ w \in Seq(R)
          BY <1>2, <1>4
        <5> QED BY <5>1, <1>8
      <4> QED BY <2>1, <4>1, <4>2
    <3> HIDE DEF front
    <3>2. CASE n = 0
      <4>1. rd = q.readable \o jobs /\ b0 \o bs = front
        BY <1>3, <3>1, <3>2, ConcatEmptySeq
      <4>2. (front \o q.readable) \o jobs = front \o (q.readable \o jobs)
        <5>1. jobs \in Seq(R)
          BY DEF R
        <5>2. front \in Seq(R) /\ q.readable \in Seq(R)
          BY <1>4, <3>1
        <5> QED BY <5>1, <5>2, <1>8
      <4> QED BY <3>1, <4>1, <4>2
    <3>3. CASE n # 0
      <4>1. q.readable = <<>>
        BY <1>1, <3>3
      <4>2. rd = r /\ Line(q) = front
        BY <1>2, <3>1, <4>1, ConcatEmptySeq
      <4>3. (front \o w) \o r = front \o (w \o r)
        <5>1. front \in Seq(R) /\ w \in Seq(R) /\ r \in Seq(R)
          BY <1>2, <3>1
        <5> QED BY <5>1, <1>8
      <4> QED BY <1>2, <3>1, <4>2, <4>3
    <3> QED BY <3>2, <3>3
  <2> HIDE DEF rd
  <2>4. Pushed(q, jobs) \in Pipes(opt)
    <3>1. Len(b0) \in Nat /\ Len(bs) \in Nat /\ opt.highWaterMark \in Nat
      BY <2>1, LenProperties, ConfigFacts
    <3>2. paused \in BOOLEAN /\ (~paused => Len(b0) + Len(bs) < opt.highWaterMark)
      BY <1>4, <3>1
    <3> HIDE DEF paused
    <3> QED BY <1>4, <1>5, <1>7, <2>1, <2>2, <3>1, <3>2 DEF Pipes, R
  <2>5. Line(Pushed(q, jobs)) = (b0 \o bs) \o rd
    BY <1>5 DEF Pipes, Line
  <2> QED BY <2>3, <2>4, <2>5
<1> QED BY <1>6, <1>7


LEMMA FlowFacts ==
  ASSUME opt \in Configs, NEW q \in Pipes(opt), q.batch = <<>>
  PROVE  Flow(q) \in Pipes(opt) /\ Line(Flow(q)) = q.readable
<1> DEFINE e == [q EXCEPT !.readable = <<>>, !.paused = FALSE]
<1>1. q.readable \in Seq(Results(opt)) /\ q.buffer = <<>> /\ q.done = 0
  BY PipeFacts
<1>2. e \in Pipes(opt) /\ e.batch = <<>> /\ e.buffer = <<>> /\ e.readable = <<>>
  <2>1. e \in [readable : Seq(Results(opt)), paused : BOOLEAN, buffer : Seq(Results(opt)),
              batch : Seq(Results(opt)), done : Nat]
    <3>1. <<>> \in Seq(Results(opt))
      OBVIOUS
    <3> QED BY <3>1 DEF Pipes
  <2>2. e.batch = <<>> /\ e.buffer = <<>> /\ e.readable = <<>> /\ e.done = 0
    BY <1>1 DEF Pipes
  <2> HIDE DEF e
  <2>3. Len(<<>>) = 0 /\ opt.highWaterMark \in Nat \ {0}
    BY ConfigFacts
  <2>4. Len(e.batch) + Len(e.buffer) < opt.highWaterMark
    BY <2>2, <2>3
  <2> QED BY <2>1, <2>2, <2>4 DEF Pipes
<1>3. Flow(q) = Pushed(e, q.readable)
  BY DEF Flow
<1> HIDE DEF e
<1>4. Line(e) = <<>>
  <2>1. <<>> \in Seq(Results(opt))
    OBVIOUS
  <2>2. <<>> \o <<>> = <<>>
    BY <2>1, ConcatEmptySeq
  <2> QED BY <1>2, <2>2 DEF Line
<1> QED BY <1>1, <1>2, <1>3, <1>4, PushedFacts, ConcatEmptySeq

-----------------------------------------------------------------------------
(* The heaps in order.                                                       *)

DistinctJobs(S) == \A j, k \in S : j.index = k.index => j = k

LEMMA EarlierFacts ==
  ASSUME NEW S, IsFiniteSet(S), \A j \in S : j.index \in Nat, DistinctJobs(S)
  PROVE  /\ \A j \in S : Earlier(S, j) \in 0..(Cardinality(S) - 1)
         /\ \A j, k \in S : Earlier(S, j) = Earlier(S, k) => j = k
<1> DEFINE E(j) == {k \in S : k.index < j.index}
<1>1. ASSUME NEW j \in S
      PROVE  IsFiniteSet(E(j)) /\ Cardinality(E(j)) \in Nat
             /\ Cardinality(E(j)) <= Cardinality(S) - 1
  <2>1. E(j) \in SUBSET (S \ {j})
    OBVIOUS
  <2>2. IsFiniteSet(S \ {j}) /\ Cardinality(S \ {j}) = Cardinality(S) - 1
    BY FS_RemoveElement
  <2>3. IsFiniteSet(E(j)) /\ Cardinality(E(j)) <= Cardinality(S \ {j})
    BY <2>1, <2>2, FS_Subset
  <2> QED BY <2>2, <2>3, FS_CardinalityType
<1>2. ASSUME NEW j \in S, NEW k \in S, j.index < k.index
      PROVE  Cardinality(E(j)) # Cardinality(E(k))
  <2>1. E(j) \in SUBSET E(k) /\ j \in E(k) /\ j \notin E(j)
    BY <1>2
  <2>2. Cardinality(E(k)) = Cardinality(E(j)) => E(k) = E(j)
    BY <1>1, <2>1, FS_Subset
  <2> QED BY <2>1, <2>2
<1>3. ASSUME NEW j \in S, NEW k \in S, Earlier(S, j) = Earlier(S, k) PROVE j = k
  <2>1. j.index \in Nat /\ k.index \in Nat
    OBVIOUS
  <2>2. ~(j.index < k.index) /\ ~(k.index < j.index)
    BY <1>2, <1>3 DEF Earlier
  <2>3. j.index = k.index
    BY <2>1, <2>2
  <2> QED BY <2>3 DEF DistinctJobs
<1>4. ASSUME NEW j \in S PROVE Earlier(S, j) \in 0..(Cardinality(S) - 1)
  BY <1>1, FS_CardinalityType DEF Earlier
<1> QED BY <1>3, <1>4

LEMMA ByIndexFacts ==
  ASSUME NEW S, IsFiniteSet(S), \A j \in S : j.index \in Nat, DistinctJobs(S)
  PROVE  /\ ByIndex(S) \in Seq(S) /\ Len(ByIndex(S)) = Cardinality(S)
         /\ \A i, k \in 1..Cardinality(S) : ByIndex(S)[i] = ByIndex(S)[k] => i = k
         /\ \A i \in 1..Cardinality(S) :
               ByIndex(S)[i] \in S /\ Earlier(S, ByIndex(S)[i]) = i - 1
<1> DEFINE n == Cardinality(S)
           T == 0..(n - 1)
           g == [j \in S |-> Earlier(S, j)]
<1>1. n \in Nat
  BY FS_CardinalityType
<1>2. IsFiniteSet(T) /\ Cardinality(T) = n
  <2>1. 0 \in Int /\ n - 1 \in Int
    BY <1>1
  <2> HIDE DEF n
  <2>2. IsFiniteSet(T) /\ Cardinality(T) = IF 0 > n - 1 THEN 0 ELSE (n - 1) - 0 + 1
    BY <2>1, FS_Interval
  <2> QED BY <1>1, <2>2
<1>3. g \in Injection(S, T)
  BY EarlierFacts DEF Injection, IsInjective
<1>4. g \in Surjection(S, T)
  BY <1>2, <1>3, FS_Injection
<1>5. ASSUME NEW i \in 1..n PROVE \E j \in S : Earlier(S, j) = i - 1
  <2>1. i - 1 \in T
    BY <1>1
  <2>2. PICK j \in S : g[j] = i - 1
    BY <1>4, <2>1 DEF Surjection
  <2> QED BY <2>2
<1> HIDE DEF g, T
<1>6. ByIndex(S) = [i \in 1..n |-> CHOOSE j \in S : Earlier(S, j) = i - 1]
  BY DEF ByIndex
<1> HIDE DEF n
<1>7. ASSUME NEW i \in 1..n
      PROVE  ByIndex(S)[i] \in S /\ Earlier(S, ByIndex(S)[i]) = i - 1
  <2>1. \E j \in S : Earlier(S, j) = i - 1
    BY <1>5
  <2>2. ByIndex(S)[i] = CHOOSE j \in S : Earlier(S, j) = i - 1
    BY <1>6
  <2> QED BY <2>1, <2>2
<1>8. ByIndex(S) \in [1..n -> S]
  BY <1>6, <1>7
<1>9. ByIndex(S) \in Seq(S) /\ Len(ByIndex(S)) = n
  BY <1>1, <1>8, TupleFacts
<1>10. ASSUME NEW i \in 1..n, NEW k \in 1..n, ByIndex(S)[i] = ByIndex(S)[k] PROVE i = k
  <2>1. i - 1 = k - 1
    BY <1>7, <1>10
  <2> QED BY <1>1, <2>1
<1> QED BY <1>7, <1>9, <1>10 DEF n

-----------------------------------------------------------------------------
(* The accounts of a fetcher x with the requests reqs and the jobs in line   *)
(* for the chain.                                                            *)

ActiveOf(reqs) == {r \in reqs : r.state = "active"}

Apart(x, reqs, line) ==
  /\ IsFiniteSet(x.in) /\ IsFiniteSet(ActiveOf(reqs)) /\ IsFiniteSet(x.out)
  /\ DistinctJobs(x.in) /\ DistinctJobs(x.out)
  /\ \A r, q \in ActiveOf(reqs) : r.job.index = q.job.index => r = q
  /\ \A i, k \in 1..Len(line) : line[i].index = line[k].index => i = k
  /\ \A j \in x.in :
        /\ j.index < x.total
        /\ \A r \in ActiveOf(reqs) : r.job.index # j.index
        /\ \A k \in x.out : k.index # j.index
        /\ \A i \in 1..Len(line) : line[i].index # j.index
  /\ \A r \in ActiveOf(reqs) :
        /\ r.job.index < x.total
        /\ \A k \in x.out : k.index # r.job.index
        /\ \A i \in 1..Len(line) : line[i].index # r.job.index
  /\ \A k \in x.out :
        /\ k.index < x.total
        /\ \A i \in 1..Len(line) : line[i].index # k.index
  /\ \A i \in 1..Len(line) : line[i].index < x.total

Counted(x, reqs, line) ==
  /\ x.finished + Cardinality(x.in) + Cardinality(ActiveOf(reqs)) + Cardinality(x.out)
       + Len(line) = x.total
  /\ x.processed = x.finished + Len(line)

Nowhere(x, reqs, line) ==
  x.in = {} /\ x.out = {} /\ ActiveOf(reqs) = {} /\ line = <<>>

(* A stopped fetcher has no job left: it stops when all are finished, or is  *)
(* cleared.                                                                  *)
Accounted(x, reqs, line) ==
  IF x.running THEN Apart(x, reqs, line) /\ Counted(x, reqs, line)
  ELSE Nowhere(x, reqs, line)

(* The numbers of the accounts.                                              *)
Numbers(x, reqs, line) ==
  /\ x.total \in Nat /\ x.finished \in Nat /\ x.processed \in Nat
  /\ Cardinality(x.in) \in Nat /\ Cardinality(x.out) \in Nat
  /\ Cardinality(ActiveOf(reqs)) \in Nat /\ Len(line) \in Nat

LEMMA CountFacts ==
  ASSUME opt \in Configs, NEW x \in Fetchers(opt), NEW reqs, NEW line,
         line \in Seq(Results(opt)), Apart(x, reqs, line)
  PROVE  Numbers(x, reqs, line)
  BY FS_CardinalityType, LenProperties DEF Apart, Fetchers, Numbers

(* Jobs that move from one place to the next leave their number as it is.    *)
LEMMA CountedCut ==
  ASSUME NEW x, NEW y, NEW reqs, NEW line, NEW n \in Nat,
         Counted(x, reqs, line), Numbers(x, reqs, line),
         x.in = {},
         y.total = x.total + n, y.finished = x.finished, y.processed = x.processed,
         Cardinality(y.in) = n, y.out = x.out
  PROVE  Counted(y, reqs, line)
  BY FS_EmptySet DEF Counted, Numbers

LEMMA CountedAsk ==
  ASSUME NEW x, NEW y, NEW reqs, NEW after, NEW line,
         Counted(x, reqs, line), Numbers(x, reqs, line),
         y.total = x.total, y.finished = x.finished, y.processed = x.processed,
         Cardinality(y.in) = Cardinality(x.in) - 1, y.out = x.out,
         Cardinality(ActiveOf(after)) = Cardinality(ActiveOf(reqs)) + 1
  PROVE  Counted(y, after, line)
<1> DEFINE fin == x.finished
           in == Cardinality(x.in)
           asked == Cardinality(ActiveOf(reqs))
           out == Cardinality(x.out)
           m == Len(line)
           total == x.total
           proc == x.processed
<1>1. /\ fin \in Nat /\ in \in Nat /\ asked \in Nat /\ out \in Nat /\ m \in Nat
      /\ total \in Nat /\ proc \in Nat
  BY DEF Numbers
<1>2. fin + in + asked + out + m = total /\ proc = fin + m
  BY DEF Counted
<1>3. Counted(y, after, line) <=>
         fin + (in - 1) + (asked + 1) + out + m = total /\ proc = fin + m
  BY DEF Counted
<1> HIDE DEF fin, in, asked, out, m, total, proc
<1>4. fin + (in - 1) + (asked + 1) + out + m = total /\ proc = fin + m
  BY <1>1, <1>2
<1> QED BY <1>3, <1>4

LEMMA CountedRequeue ==
  ASSUME NEW x, NEW y, NEW reqs, NEW after, NEW line,
         Counted(x, reqs, line), Numbers(x, reqs, line),
         y.total = x.total, y.finished = x.finished, y.processed = x.processed,
         Cardinality(y.in) = Cardinality(x.in) + 1, y.out = x.out,
         Cardinality(ActiveOf(after)) = Cardinality(ActiveOf(reqs)) - 1
  PROVE  Counted(y, after, line)
<1> DEFINE fin == x.finished
           in == Cardinality(x.in)
           asked == Cardinality(ActiveOf(reqs))
           out == Cardinality(x.out)
           m == Len(line)
           total == x.total
           proc == x.processed
<1>1. /\ fin \in Nat /\ in \in Nat /\ asked \in Nat /\ out \in Nat /\ m \in Nat
      /\ total \in Nat /\ proc \in Nat
  BY DEF Numbers
<1>2. fin + in + asked + out + m = total /\ proc = fin + m
  BY DEF Counted
<1>3. Counted(y, after, line) <=>
         fin + (in + 1) + (asked - 1) + out + m = total /\ proc = fin + m
  BY DEF Counted
<1> HIDE DEF fin, in, asked, out, m, total, proc
<1>4. fin + (in + 1) + (asked - 1) + out + m = total /\ proc = fin + m
  BY <1>1, <1>2
<1> QED BY <1>3, <1>4

LEMMA CountedDone ==
  ASSUME NEW x, NEW y, NEW reqs, NEW after, NEW line,
         Counted(x, reqs, line), Numbers(x, reqs, line),
         y.total = x.total, y.finished = x.finished, y.processed = x.processed,
         y.in = x.in, Cardinality(y.out) = Cardinality(x.out) + 1,
         Cardinality(ActiveOf(after)) = Cardinality(ActiveOf(reqs)) - 1
  PROVE  Counted(y, after, line)
<1> DEFINE fin == x.finished
           in == Cardinality(x.in)
           asked == Cardinality(ActiveOf(reqs))
           out == Cardinality(x.out)
           m == Len(line)
           total == x.total
           proc == x.processed
<1>1. /\ fin \in Nat /\ in \in Nat /\ asked \in Nat /\ out \in Nat /\ m \in Nat
      /\ total \in Nat /\ proc \in Nat
  BY DEF Numbers
<1>2. fin + in + asked + out + m = total /\ proc = fin + m
  BY DEF Counted
<1>3. Counted(y, after, line) <=>
         fin + in + (asked - 1) + (out + 1) + m = total /\ proc = fin + m
  BY DEF Counted
<1> HIDE DEF fin, in, asked, out, m, total, proc
<1>4. fin + in + (asked - 1) + (out + 1) + m = total /\ proc = fin + m
  BY <1>1, <1>2
<1> QED BY <1>3, <1>4

LEMMA CountedSent ==
  ASSUME NEW x, NEW y, NEW reqs, NEW line, NEW longer, NEW n \in Nat,
         Counted(x, reqs, line), Numbers(x, reqs, line),
         y.total = x.total, y.finished = x.finished, y.processed = x.processed + n,
         y.in = x.in, Cardinality(y.out) = Cardinality(x.out) - n,
         Len(longer) = Len(line) + n
  PROVE  Counted(y, reqs, longer)
<1> DEFINE fin == x.finished
           in == Cardinality(x.in)
           asked == Cardinality(ActiveOf(reqs))
           out == Cardinality(x.out)
           m == Len(line)
           total == x.total
           proc == x.processed
<1>1. /\ fin \in Nat /\ in \in Nat /\ asked \in Nat /\ out \in Nat /\ m \in Nat
      /\ total \in Nat /\ proc \in Nat
  BY DEF Numbers
<1>2. fin + in + asked + out + m = total /\ proc = fin + m
  BY DEF Counted
<1>3. Counted(y, reqs, longer) <=>
         fin + in + asked + (out - n) + (m + n) = total /\ proc + n = fin + (m + n)
  BY DEF Counted
<1> HIDE DEF fin, in, asked, out, m, total, proc
<1>4. fin + in + asked + (out - n) + (m + n) = total /\ proc + n = fin + (m + n)
  BY <1>1, <1>2
<1> QED BY <1>3, <1>4

LEMMA CountedFinished ==
  ASSUME NEW x, NEW y, NEW reqs, NEW line, NEW rest, NEW n \in Nat,
         Counted(x, reqs, line), Numbers(x, reqs, line),
         Len(rest) \in Nat, Len(line) = n + Len(rest),
         y.total = x.total, y.finished = x.finished + n, y.processed = x.processed,
         y.in = x.in, y.out = x.out
  PROVE  Counted(y, reqs, rest)
<1> DEFINE fin == x.finished
           in == Cardinality(x.in)
           asked == Cardinality(ActiveOf(reqs))
           out == Cardinality(x.out)
           m == Len(rest)
           total == x.total
           proc == x.processed
<1>1. /\ fin \in Nat /\ in \in Nat /\ asked \in Nat /\ out \in Nat /\ m \in Nat
      /\ total \in Nat /\ proc \in Nat
  BY DEF Numbers
<1>2. fin + in + asked + out + (n + m) = total /\ proc = fin + (n + m)
  BY DEF Counted
<1>3. Counted(y, reqs, rest) <=>
         (fin + n) + in + asked + out + m = total /\ proc = (fin + n) + m
  BY DEF Counted
<1> HIDE DEF fin, in, asked, out, m, total, proc
<1>4. (fin + n) + in + asked + out + m = total /\ proc = (fin + n) + m
  BY <1>1, <1>2
<1> QED BY <1>3, <1>4

LEMMA CountedAgain ==
  ASSUME NEW x, NEW y, NEW reqs, NEW line, NEW rest, NEW n \in Nat,
         Counted(x, reqs, line), Numbers(x, reqs, line),
         Len(rest) \in Nat, Len(line) = n + Len(rest),
         y.total = x.total, y.finished = x.finished, y.processed = x.processed - n,
         Cardinality(y.in) = Cardinality(x.in) + n, y.out = x.out
  PROVE  Counted(y, reqs, rest)
<1> DEFINE fin == x.finished
           in == Cardinality(x.in)
           asked == Cardinality(ActiveOf(reqs))
           out == Cardinality(x.out)
           m == Len(rest)
           total == x.total
           proc == x.processed
<1>1. /\ fin \in Nat /\ in \in Nat /\ asked \in Nat /\ out \in Nat /\ m \in Nat
      /\ total \in Nat /\ proc \in Nat
  BY DEF Numbers
<1>2. fin + in + asked + out + (n + m) = total /\ proc = fin + (n + m)
  BY DEF Counted
<1>3. Counted(y, reqs, rest) <=>
         fin + (in + n) + asked + out + m = total /\ proc - n = fin + m
  BY DEF Counted
<1> HIDE DEF fin, in, asked, out, m, total, proc
<1>4. fin + (in + n) + asked + out + m = total /\ proc - n = fin + m
  BY <1>1, <1>2
<1> QED BY <1>3, <1>4

(* When all are finished, none is anywhere else.                             *)
LEMMA CountedAll ==
  ASSUME NEW x, NEW reqs, NEW line,
         Counted(x, reqs, line), Numbers(x, reqs, line),
         x.finished = x.total
  PROVE  Cardinality(x.out) = 0 /\ Cardinality(ActiveOf(reqs)) = 0 /\ Len(line) = 0
<1> DEFINE fin == x.finished
           in == Cardinality(x.in)
           asked == Cardinality(ActiveOf(reqs))
           out == Cardinality(x.out)
           m == Len(line)
<1>1. fin \in Nat /\ in \in Nat /\ asked \in Nat /\ out \in Nat /\ m \in Nat
  BY DEF Numbers
<1>2. fin + in + asked + out + m = fin
  BY DEF Counted
<1> HIDE DEF fin, in, asked, out, m
<1>3. out = 0 /\ asked = 0 /\ m = 0
  BY <1>1, <1>2
<1> QED BY <1>3 DEF asked, out, m

(* Cutting new jobs into an empty queue.                                     *)
LEMMA NextTasksAccounted ==
  ASSUME opt \in Configs, NEW x \in Fetchers(opt), x.running, NEW reqs, NEW line,
         reqs \subseteq Asked(opt), line \in Seq(Results(opt)), Accounted(x, reqs, line)
  PROVE  NextTasks(x).running /\ Accounted(NextTasks(x), reqs, line)
<1>1. CASE x.in # {} \/ x.count = 0
  BY <1>1 DEF NextTasks
<1>2. CASE ~(x.in # {} \/ x.count = 0)
  <2> DEFINE ts == Tasks(x)
             n == Len(ts)
             A == ActiveOf(reqs)
             y == NextTasks(x)
  <2>1. ts \in Seq(Jobs(opt)) /\ n \in Nat /\ DOMAIN ts = 1..n
        /\ \A i \in 1..n : ts[i].index = x.total + i - 1
    BY <1>2, TasksFacts
  <2>2. /\ y.in = Range(ts) /\ y.total = x.total + n /\ y.out = x.out
        /\ y.running = x.running /\ y.finished = x.finished /\ y.processed = x.processed
    BY <1>2 DEF NextTasks, Fetchers
  <2>3. /\ x.total \in Nat /\ x.finished \in Nat
        /\ \A r \in A : r.job.index \in Nat
        /\ \A k \in x.out : k.index \in Nat
        /\ \A i \in 1..Len(line) : line[i].index \in Nat
    <3>1. \A i \in 1..Len(line) : line[i] \in Results(opt)
      BY ElementOfSeq
    <3> QED BY <3>1 DEF Fetchers, Asked, ActiveOf, Jobs, Results
  <2>4. Apart(x, reqs, line) /\ Counted(x, reqs, line)
    BY DEF Accounted
  <2> HIDE DEF ts, n, y
  <2>5. \A j \in y.in : \E i \in 1..n : j = ts[i] /\ j.index = x.total + i - 1
    BY <2>1, <2>2 DEF Range
  <2>6. ASSUME NEW i \in 1..n, NEW k \in 1..n, ts[i].index = ts[k].index PROVE i = k
    <3>1. x.total + i - 1 = x.total + k - 1
      BY <2>1, <2>6
    <3> QED BY <2>1, <2>3, <3>1
  <2>7. IsFiniteSet(y.in) /\ Cardinality(y.in) = n
    <3>1. ts \in [1..n -> y.in]
      <4>1. \A i \in 1..n : ts[i] \in y.in
        BY <2>1, <2>2 DEF Range
      <4>2. ts = [i \in 1..n |-> ts[i]]
        BY <2>1
      <4> QED BY <4>1, <4>2
    <3>2. ts \in Bijection(1..n, y.in)
      BY <2>1, <2>2, <2>6, <3>1 DEF Bijection, Injection, Surjection, IsInjective, Range
    <3>3. ExistsBijection(1..n, y.in)
      BY <3>2 DEF ExistsBijection
    <3>4. IsFiniteSet(1..n) /\ Cardinality(1..n) = n
      <4>1. Cardinality(1..n) = IF 1 > n THEN 0 ELSE n - 1 + 1
        BY <2>1, FS_Interval
      <4>2. IsFiniteSet(1..n)
        BY <2>1, FS_Interval
      <4> QED BY <2>1, <4>1, <4>2
    <3> QED BY <3>3, <3>4, FS_Bijection
  <2>8. Apart(y, reqs, line)
    <3>1. DistinctJobs(y.in)
      BY <2>5, <2>6 DEF DistinctJobs
    <3>2. \A j \in y.in : j.index >= x.total /\ j.index < y.total /\ j.index \in Nat
      <4>1. ASSUME NEW i \in 1..n
            PROVE  x.total + i - 1 >= x.total /\ x.total + i - 1 < x.total + n
                   /\ x.total + i - 1 \in Nat
        BY <2>1, <2>3
      <4> QED BY <2>2, <2>5, <4>1
    <3>3. /\ \A r \in A : r.job.index < x.total
          /\ \A k \in x.out : k.index < x.total
          /\ \A i \in 1..Len(line) : line[i].index < x.total
      BY <2>4 DEF Apart
    <3>4. ASSUME NEW j \in y.in
          PROVE  /\ j.index < y.total
                 /\ \A r \in A : r.job.index # j.index
                 /\ \A k \in y.out : k.index # j.index
                 /\ \A i \in 1..Len(line) : line[i].index # j.index
      BY <2>2, <2>3, <3>2, <3>3
    <3>5. \A m \in Nat : m < x.total => m < y.total
      BY <2>1, <2>2, <2>3
    <3>6. /\ \A r \in A : r.job.index < y.total
          /\ \A k \in y.out : k.index < y.total
          /\ \A i \in 1..Len(line) : line[i].index < y.total
      BY <2>2, <2>3, <3>3, <3>5
    <3> QED BY <2>2, <2>4, <2>7, <3>1, <3>4, <3>6 DEF Apart
  <2>9. Counted(y, reqs, line)
    <3>1. x.in = {} /\ Numbers(x, reqs, line)
      BY <1>2, <2>4, CountFacts
    <3> QED BY <2>1, <2>2, <2>4, <2>7, <3>1, CountedCut
  <2> QED BY <2>2, <2>8, <2>9 DEF Accounted, y
<1> QED BY <1>1, <1>2


LEMMA EarliestFacts ==
  ASSUME NEW S, S # {}, \A j \in S : j.index \in Nat
  PROVE  Earliest(S) \in S
<1> DEFINE T == {j.index : j \in S}
<1>1. T \subseteq Nat /\ T # {}
  OBVIOUS
<1>2. PICK m \in T : \A k \in T : m <= k
  BY <1>1, LeastElement
<1>3. \E j \in S : \A k \in S : j.index <= k.index
  BY <1>2
<1> QED BY <1>3 DEF Earliest

LEMMA StateFacts ==
  ASSUME NEW s \in States(opt)
  PROVE  /\ s.f \in Fetchers(opt) /\ s.requests \subseteq Asked(opt)
         /\ s.pipe \in Pipes(opt) /\ s.peers \in PeerPools
  BY DEF States

(* The earliest job goes to a peer.                                          *)
LEMMA AskAccounted ==
  ASSUME opt \in Configs, NEW x \in Fetchers(opt), x.running, NEW reqs, NEW line,
         reqs \subseteq Asked(opt), line \in Seq(Results(opt)), Accounted(x, reqs, line),
         NEW job \in x.in, NEW o \in Objects, NEW y, y = [x EXCEPT !.in = @ \ {job}]
  PROVE  LET new == [job |-> job, peer |-> o, state |-> "active"]
         IN  /\ y \in Fetchers(opt) /\ reqs \cup {new} \subseteq Asked(opt)
             /\ Accounted(y, reqs \cup {new}, line)
<1> DEFINE new == [job |-> job, peer |-> o, state |-> "active"]
           A == ActiveOf(reqs)
           B == ActiveOf(reqs \cup {new})
<1>1. /\ y.in = x.in \ {job} /\ y.out = x.out /\ y.total = x.total /\ y.running = x.running
      /\ y.finished = x.finished /\ y.processed = x.processed /\ y \in Fetchers(opt)
  BY DEF Fetchers
<1>2. new \in Asked(opt) /\ new.job = job /\ new.state = "active"
  BY DEF Asked, Fetchers
<1>3. Apart(x, reqs, line) /\ Counted(x, reqs, line)
  BY DEF Accounted
<1> HIDE DEF new
<1>4. B = A \cup {new}
  BY <1>2 DEF ActiveOf
<1>5. new \notin A
  BY <1>2, <1>3 DEF Apart
<1> HIDE DEF A, B
<1>6. IsFiniteSet(A) /\ IsFiniteSet(B) /\ Cardinality(B) = Cardinality(A) + 1
      /\ Cardinality(A) \in Nat
  <2>1. IsFiniteSet(A)
    BY <1>3 DEF Apart, A
  <2> QED BY <1>4, <1>5, <2>1, FS_AddElement, FS_CardinalityType
<1>7. IsFiniteSet(y.in) /\ Cardinality(y.in) = Cardinality(x.in) - 1
  BY <1>1, <1>3, FS_RemoveElement DEF Apart
<1>8. Apart(y, reqs \cup {new}, line)
  <2>1. ASSUME NEW r \in B, NEW q \in B, r.job.index = q.job.index PROVE r = q
    BY <1>2, <1>3, <1>4, <2>1 DEF Apart, A
  <2>2. \A r \in B :
          /\ r.job.index < x.total
          /\ \A k \in x.out : k.index # r.job.index
          /\ \A i \in 1..Len(line) : line[i].index # r.job.index
    BY <1>2, <1>3, <1>4 DEF Apart, A
  <2>3. \A j \in y.in : \A r \in B : r.job.index # j.index
    BY <1>1, <1>2, <1>3, <1>4 DEF Apart, A, DistinctJobs
  <2>4. DistinctJobs(y.in)
    BY <1>1, <1>3 DEF Apart, DistinctJobs
  <2> QED BY <1>1, <1>3, <1>6, <1>7, <2>1, <2>2, <2>3, <2>4 DEF Apart, B
<1>9. Counted(y, reqs \cup {new}, line)
  <2>1. Numbers(x, reqs, line)
    BY <1>3, CountFacts
  <2>2. Cardinality(ActiveOf(reqs \cup {new})) = Cardinality(ActiveOf(reqs)) + 1
    BY <1>6 DEF A, B
  <2> QED BY <1>1, <1>3, <1>7, <2>1, <2>2, CountedAsk
<1> QED BY <1>1, <1>2, <1>8, <1>9 DEF Accounted, new

LEMMA NextOfFacts ==
  ASSUME opt \in Configs, NEW s \in States(opt), s.f.running,
         NEW line \in Seq(Results(opt)), Accounted(s.f, s.requests, line),
         NEW t \in NextOf(s)
  PROVE  t \in States(opt) /\ Accounted(t.f, t.requests, line) /\ t.pipe = s.pipe
<1> DEFINE job == Earliest(s.f.in)
<1>1. CASE s.f.in = {}
  <2>1. t = [s EXCEPT !.f.running = @ /\ s.f.finished # s.f.total]
    BY <1>1 DEF NextOf
  <2>2. t \in States(opt) /\ t.pipe = s.pipe /\ t.requests = s.requests
    BY <2>1 DEF States, Fetchers
  <2>3. /\ t.f.in = {} /\ t.f.out = s.f.out /\ t.f.total = s.f.total
        /\ t.f.finished = s.f.finished /\ t.f.processed = s.f.processed
        /\ t.f.running <=> s.f.finished # s.f.total
    BY <1>1, <2>1 DEF States, Fetchers
  <2>4. Apart(s.f, s.requests, line) /\ Counted(s.f, s.requests, line)
    BY DEF Accounted
  <2>5. CASE t.f.running
    <3>1. Apart(t.f, t.requests, line) /\ Counted(t.f, t.requests, line)
      BY <1>1, <2>2, <2>3, <2>4 DEF Apart, Counted
    <3> QED BY <2>2, <2>5, <3>1 DEF Accounted
  <2>6. CASE ~t.f.running
    <3>1. Numbers(s.f, s.requests, line)
      BY <2>4, CountFacts, StateFacts
    <3>2. Cardinality(s.f.out) = 0 /\ Cardinality(ActiveOf(s.requests)) = 0 /\ Len(line) = 0
      BY <2>3, <2>4, <2>6, <3>1, CountedAll
    <3>3. s.f.out = {} /\ ActiveOf(s.requests) = {}
      BY <2>4, <3>2, FS_EmptySet DEF Apart
    <3>4. line = <<>>
      BY <3>2, EmptySeq
    <3> QED BY <2>2, <2>3, <2>6, <3>3, <3>4 DEF Accounted, Nowhere
  <2> QED BY <2>2, <2>5, <2>6
<1>2. CASE t = s
  BY <1>2
<1>3. CASE /\ s.f.in # {}
           /\ \E o \in s.peers.pool \cap s.peers.idle :
                t = [s EXCEPT !.f.in = @ \ {job}, !.peers.idle = @ \ {o},
                        !.requests = @ \cup {[job |-> job, peer |-> o, state |-> "active"]}]
  <2>1. PICK o \in s.peers.pool \cap s.peers.idle :
                t = [s EXCEPT !.f.in = @ \ {job}, !.peers.idle = @ \ {o},
                        !.requests = @ \cup {[job |-> job, peer |-> o, state |-> "active"]}]
    BY <1>3
  <2>2. job \in s.f.in
    <3>1. \A j \in s.f.in : j.index \in Nat
      BY DEF States, Fetchers, Jobs
    <3> QED BY <1>3, <3>1, EarliestFacts
  <2>3. o \in Objects
    BY <2>1 DEF States, PeerPools
  <2> HIDE DEF job
  <2> DEFINE y == [s.f EXCEPT !.in = @ \ {job}]
             new == [job |-> job, peer |-> o, state |-> "active"]
  <2>4. /\ t.f = y /\ t.requests = s.requests \cup {new} /\ t.pipe = s.pipe
        /\ t.peers = [s.peers EXCEPT !.idle = @ \ {o}]
        /\ t = [f |-> t.f, requests |-> t.requests, pipe |-> t.pipe, peers |-> t.peers]
    BY <2>1 DEF States
  <2>5. /\ y \in Fetchers(opt) /\ s.requests \cup {new} \subseteq Asked(opt)
        /\ Accounted(y, s.requests \cup {new}, line)
    <3>1. /\ s.f \in Fetchers(opt) /\ s.requests \subseteq Asked(opt)
          /\ y = [s.f EXCEPT !.in = @ \ {job}]
      BY StateFacts
    <3> HIDE DEF y
    <3> QED BY <2>2, <2>3, <3>1, AskAccounted
  <2>6. t.peers \in PeerPools
    <3>1. s.peers \in PeerPools
      BY StateFacts
    <3>2. [s.peers EXCEPT !.idle = @ \ {o}] \in PeerPools
      BY <3>1 DEF PeerPools
    <3> QED BY <2>4, <3>2
  <2> HIDE DEF y, new
  <2>7. t.f \in Fetchers(opt) /\ t.requests \in SUBSET Asked(opt) /\ t.pipe \in Pipes(opt)
    BY <2>4, <2>5, StateFacts
  <2>8. t \in States(opt)
    BY <2>4, <2>6, <2>7 DEF States
  <2> QED BY <2>4, <2>5, <2>8
<1>4. \/ s.f.in = {}
      \/ t = s
      \/ /\ s.f.in # {}
         /\ \E o \in s.peers.pool \cap s.peers.idle :
              t = [s EXCEPT !.f.in = @ \ {job}, !.peers.idle = @ \ {o},
                      !.requests = @ \cup {[job |-> job, peer |-> o, state |-> "active"]}]
  BY DEF NextOf
<1> HIDE DEF job
<1> QED BY <1>1, <1>2, <1>3, <1>4

LEMMA NextJobFacts ==
  ASSUME opt \in Configs, NEW s \in States(opt), s.f.running,
         NEW line \in Seq(Results(opt)), Accounted(s.f, s.requests, line),
         NEW t \in NextJob(s)
  PROVE  t \in States(opt) /\ Accounted(t.f, t.requests, line) /\ t.pipe = s.pipe
<1> DEFINE u == [s EXCEPT !.f = NextTasks(@)]
<1>1. t \in NextOf(u)
  BY DEF NextJob
<1>2. /\ u.f = NextTasks(s.f) /\ u.requests = s.requests /\ u.pipe = s.pipe
      /\ u.peers = s.peers
      /\ u = [f |-> u.f, requests |-> u.requests, pipe |-> u.pipe, peers |-> u.peers]
  BY DEF States
<1> HIDE DEF u
<1>3. NextTasks(s.f) \in Fetchers(opt) /\ NextTasks(s.f).running
      /\ Accounted(NextTasks(s.f), s.requests, line)
  BY StateFacts, NextTasksTypes, NextTasksAccounted
<1>4. u \in States(opt)
  BY <1>2, <1>3, StateFacts DEF States
<1>5. t \in States(opt) /\ Accounted(t.f, t.requests, line) /\ t.pipe = u.pipe
  BY <1>1, <1>2, <1>3, <1>4, NextOfFacts
<1> QED BY <1>2, <1>5

(* A request that is over leaves the active ones.                            *)
LEMMA AnsweredFacts ==
  ASSUME NEW reqs, IsFiniteSet(ActiveOf(reqs)), NEW r \in ActiveOf(reqs)
  PROVE  /\ ActiveOf(reqs \ {r}) = ActiveOf(reqs) \ {r}
         /\ IsFiniteSet(ActiveOf(reqs \ {r}))
         /\ Cardinality(ActiveOf(reqs \ {r})) = Cardinality(ActiveOf(reqs)) - 1
<1>1. ActiveOf(reqs \ {r}) = ActiveOf(reqs) \ {r}
  BY DEF ActiveOf
<1>2. /\ IsFiniteSet(ActiveOf(reqs) \ {r})
      /\ Cardinality(ActiveOf(reqs) \ {r}) = Cardinality(ActiveOf(reqs)) - 1
  BY FS_RemoveElement
<1> QED BY <1>1, <1>2

(* Its job is queued again, or done.                                         *)
LEMMA RequeueAccounted ==
  ASSUME opt \in Configs, NEW x \in Fetchers(opt), NEW reqs, NEW line,
         reqs \subseteq Asked(opt), line \in Seq(Results(opt)), Accounted(x, reqs, line),
         NEW r \in ActiveOf(reqs), NEW j \in Jobs(opt), j.index = r.job.index
  PROVE  /\ x.running /\ Enqueue(x, {j}) \in Fetchers(opt) /\ Enqueue(x, {j}).running
         /\ Accounted(Enqueue(x, {j}), reqs \ {r}, line)
<1> DEFINE y == Enqueue(x, {j})
           A == ActiveOf(reqs)
           B == ActiveOf(reqs \ {r})
<1>1. x.running
  BY DEF Accounted, Nowhere
<1>2. Apart(x, reqs, line) /\ Counted(x, reqs, line)
  BY <1>1 DEF Accounted
<1>3. /\ y.in = x.in \cup {j} /\ y.out = x.out /\ y.total = x.total /\ y.running
      /\ y.finished = x.finished /\ y.processed = x.processed /\ y \in Fetchers(opt)
  BY <1>1 DEF Enqueue, Fetchers
<1> HIDE DEF y
<1>4. B = A \ {r} /\ IsFiniteSet(B) /\ Cardinality(B) = Cardinality(A) - 1
  BY <1>2, AnsweredFacts DEF Apart
<1>5. j \notin x.in
  BY <1>2 DEF Apart
<1>6. IsFiniteSet(y.in) /\ Cardinality(y.in) = Cardinality(x.in) + 1
  BY <1>2, <1>3, <1>5, FS_AddElement DEF Apart
<1> HIDE DEF A, B
<1>7. Apart(y, reqs \ {r}, line)
  <2>1. \A q \in B : q \in A /\ q.job.index # j.index
    BY <1>2, <1>4 DEF Apart, A
  <2>2. DistinctJobs(y.in)
    BY <1>2, <1>3 DEF Apart, DistinctJobs
  <2>3. \A i \in y.in :
          /\ i.index < x.total
          /\ \A q \in B : q.job.index # i.index
          /\ \A k \in x.out : k.index # i.index
          /\ \A k \in 1..Len(line) : line[k].index # i.index
    BY <1>2, <1>3, <2>1 DEF Apart, A
  <2>4. \A q \in B :
          /\ q.job.index < x.total
          /\ \A k \in x.out : k.index # q.job.index
          /\ \A i \in 1..Len(line) : line[i].index # q.job.index
    BY <1>2, <2>1 DEF Apart, A
  <2>5. \A q, p \in B : q.job.index = p.job.index => q = p
    BY <1>2, <2>1 DEF Apart, A
  <2> QED BY <1>2, <1>3, <1>4, <1>6, <2>2, <2>3, <2>4, <2>5 DEF Apart, B
<1>8. Counted(y, reqs \ {r}, line)
  <2>1. Numbers(x, reqs, line)
    BY <1>2, CountFacts
  <2>2. Cardinality(ActiveOf(reqs \ {r})) = Cardinality(ActiveOf(reqs)) - 1
    BY <1>4 DEF A, B
  <2> QED BY <1>2, <1>3, <1>6, <2>1, <2>2, CountedRequeue
<1> QED BY <1>1, <1>3, <1>7, <1>8 DEF Accounted, y

LEMMA DoneAccounted ==
  ASSUME opt \in Configs, NEW x \in Fetchers(opt), NEW reqs, NEW line,
         reqs \subseteq Asked(opt), line \in Seq(Results(opt)), Accounted(x, reqs, line),
         NEW r \in ActiveOf(reqs), NEW j \in Results(opt), j.index = r.job.index,
         NEW y, y = [x EXCEPT !.out = @ \cup {j}]
  PROVE  x.running /\ y \in Fetchers(opt) /\ y.running /\ Accounted(y, reqs \ {r}, line)
<1> DEFINE A == ActiveOf(reqs)
           B == ActiveOf(reqs \ {r})
<1>1. x.running
  BY DEF Accounted, Nowhere
<1>2. Apart(x, reqs, line) /\ Counted(x, reqs, line)
  BY <1>1 DEF Accounted
<1>3. /\ y.out = x.out \cup {j} /\ y.in = x.in /\ y.total = x.total /\ y.running
      /\ y.finished = x.finished /\ y.processed = x.processed /\ y \in Fetchers(opt)
  BY <1>1 DEF Fetchers
<1>4. B = A \ {r} /\ IsFiniteSet(B) /\ Cardinality(B) = Cardinality(A) - 1
  BY <1>2, AnsweredFacts DEF Apart
<1>5. j \notin x.out
  BY <1>2 DEF Apart
<1>6. IsFiniteSet(y.out) /\ Cardinality(y.out) = Cardinality(x.out) + 1
  BY <1>2, <1>3, <1>5, FS_AddElement DEF Apart
<1> HIDE DEF A, B
<1>7. Apart(y, reqs \ {r}, line)
  <2>1. \A q \in B : q \in A /\ q.job.index # j.index
    BY <1>2, <1>4 DEF Apart, A
  <2>2. DistinctJobs(y.out)
    BY <1>2, <1>3 DEF Apart, DistinctJobs
  <2>3. \A i \in x.in :
          /\ i.index < x.total
          /\ \A q \in B : q.job.index # i.index
          /\ \A k \in y.out : k.index # i.index
          /\ \A k \in 1..Len(line) : line[k].index # i.index
    BY <1>2, <1>3, <2>1 DEF Apart, A
  <2>4. \A q \in B :
          /\ q.job.index < x.total
          /\ \A k \in y.out : k.index # q.job.index
          /\ \A i \in 1..Len(line) : line[i].index # q.job.index
    BY <1>2, <1>3, <2>1 DEF Apart, A
  <2>5. \A q, p \in B : q.job.index = p.job.index => q = p
    BY <1>2, <2>1 DEF Apart, A
  <2>6. \A k \in y.out :
          k.index < x.total /\ \A i \in 1..Len(line) : line[i].index # k.index
    BY <1>2, <1>3 DEF Apart, A
  <2> QED BY <1>2, <1>3, <1>4, <1>6, <2>2, <2>3, <2>4, <2>5, <2>6 DEF Apart, B
<1>8. Counted(y, reqs \ {r}, line)
  <2>1. Numbers(x, reqs, line)
    BY <1>2, CountFacts
  <2>2. Cardinality(ActiveOf(reqs \ {r})) = Cardinality(ActiveOf(reqs)) - 1
    BY <1>4 DEF A, B
  <2> QED BY <1>2, <1>3, <1>6, <2>1, <2>2, CountedDone
<1> QED BY <1>1, <1>3, <1>7, <1>8 DEF Accounted

(* What is dequeued goes to the end of the line.                             *)
LEMMA JoinedFacts ==
  ASSUME NEW S, NEW a \in Seq(S), NEW b \in Seq(S)
  PROVE  /\ a \o b \in Seq(S) /\ Len(a \o b) = Len(a) + Len(b)
         /\ Len(a) \in Nat /\ Len(b) \in Nat
         /\ \A i \in 1..Len(a) : (a \o b)[i] = a[i]
         /\ \A i \in 1..Len(a \o b) : i > Len(a) =>
               i - Len(a) \in 1..Len(b) /\ (a \o b)[i] = b[i - Len(a)]
<1>1. Len(a) \in Nat /\ Len(b) \in Nat
  BY LenProperties
<1>2. /\ a \o b \in Seq(S) /\ Len(a \o b) = Len(a) + Len(b)
      /\ \A i \in 1..(Len(a) + Len(b)) :
            (a \o b)[i] = IF i <= Len(a) THEN a[i] ELSE b[i - Len(a)]
  BY ConcatProperties
<1>3. ASSUME NEW i \in 1..Len(a) PROVE (a \o b)[i] = a[i]
  <2>1. i \in 1..(Len(a) + Len(b)) /\ i <= Len(a)
    BY <1>1
  <2> QED BY <1>2, <2>1
<1>4. ASSUME NEW i \in 1..Len(a \o b), i > Len(a)
      PROVE  i - Len(a) \in 1..Len(b) /\ (a \o b)[i] = b[i - Len(a)]
  <2>1. i \in 1..(Len(a) + Len(b)) /\ ~(i <= Len(a))
    BY <1>1, <1>2, <1>4
  <2>2. i - Len(a) \in 1..Len(b)
    BY <1>1, <2>1
  <2> QED BY <1>2, <2>1, <2>2
<1> QED BY <1>1, <1>2, <1>3, <1>4

LEMMA SentAccounted ==
  ASSUME opt \in Configs, NEW x \in Fetchers(opt), x.running, NEW reqs, NEW line,
         reqs \subseteq Asked(opt), line \in Seq(Results(opt)), Accounted(x, reqs, line),
         NEW sent \in SUBSET x.out,
         NEW y, y = [x EXCEPT !.processed = @ + Cardinality(sent), !.out = @ \ sent]
  PROVE  /\ ByIndex(sent) \in Seq(Results(opt))
         /\ y \in Fetchers(opt) /\ Accounted(y, reqs, line \o ByIndex(sent))
<1> DEFINE b == ByIndex(sent)
           n == Cardinality(sent)
           ln == line \o b
<1>1. Apart(x, reqs, line) /\ Counted(x, reqs, line)
  BY DEF Accounted
<1>2. IsFiniteSet(sent) /\ n \in Nat /\ x.out \subseteq Results(opt)
  <2>1. IsFiniteSet(sent)
    BY <1>1, FS_Subset DEF Apart
  <2> QED BY <2>1, FS_CardinalityType DEF Fetchers
<1>3. /\ b \in Seq(sent) /\ Len(b) = n
      /\ \A i, k \in 1..n : b[i] = b[k] => i = k
  <2>1. \A j \in sent : j.index \in Nat
    BY <1>2 DEF Results
  <2>2. DistinctJobs(sent)
    BY <1>1 DEF Apart, DistinctJobs
  <2> QED BY <1>2, <2>1, <2>2, ByIndexFacts
<1>4. /\ y.out = x.out \ sent /\ y.processed = x.processed + n /\ y.in = x.in
      /\ y.total = x.total /\ y.running /\ y.finished = x.finished
      /\ y \in Fetchers(opt)
  <2>1. x.processed \in Nat
    BY DEF Fetchers
  <2>2. x.processed + n \in Nat
    BY <1>2, <2>1
  <2> HIDE DEF n
  <2>3. y = [x EXCEPT !.processed = @ + n, !.out = @ \ sent]
    BY DEF n
  <2> QED BY <2>2, <2>3 DEF Fetchers
<1> HIDE DEF b, n
<1>5. b \in Seq(Results(opt))
  <2>1. sent \subseteq Results(opt)
    BY <1>2
  <2> QED BY <1>3, <2>1, SeqMonotonic
<1>6. \A i \in 1..n : b[i] \in sent
  BY <1>3, ElementOfSeq
<1>7. /\ ln \in Seq(Results(opt)) /\ Len(ln) = Len(line) + n /\ Len(line) \in Nat
      /\ \A i \in 1..Len(line) : ln[i] = line[i]
      /\ \A i \in 1..Len(ln) : i > Len(line) =>
            i - Len(line) \in 1..n /\ ln[i] = b[i - Len(line)]
  <2>1. /\ line \o b \in Seq(Results(opt)) /\ Len(line \o b) = Len(line) + Len(b)
        /\ Len(line) \in Nat
        /\ \A i \in 1..Len(line) : (line \o b)[i] = line[i]
        /\ \A i \in 1..Len(line \o b) : i > Len(line) =>
              i - Len(line) \in 1..Len(b) /\ (line \o b)[i] = b[i - Len(line)]
    BY <1>5, JoinedFacts
  <2>2. Len(b) = n
    BY <1>3
  <2> QED BY <2>1, <2>2
<1> HIDE DEF ln
<1>8. ASSUME NEW i \in 1..Len(ln)
      PROVE  \/ i \in 1..Len(line) /\ ln[i] = line[i]
             \/ /\ i - Len(line) \in 1..n /\ ln[i] = b[i - Len(line)]
                /\ ln[i] \in sent
  BY <1>2, <1>6, <1>7
<1>9. IsFiniteSet(y.out) /\ Cardinality(y.out) = Cardinality(x.out) - n
  <2>1. /\ IsFiniteSet(x.out \ sent)
        /\ Cardinality(x.out \ sent) = Cardinality(x.out) - Cardinality(x.out \cap sent)
    BY <1>1, <1>2, FS_Difference DEF Apart
  <2>2. x.out \cap sent = sent
    OBVIOUS
  <2> QED BY <1>4, <2>1, <2>2 DEF n
<1>10. Apart(y, reqs, ln)
  <2>1. ASSUME NEW i \in 1..Len(ln), NEW k \in 1..Len(ln), ln[i].index = ln[k].index
        PROVE  i = k
    <3>1. CASE i \in 1..Len(line) /\ ln[i] = line[i] /\ k \in 1..Len(line) /\ ln[k] = line[k]
      BY <1>1, <2>1, <3>1 DEF Apart
    <3>2. CASE i \in 1..Len(line) /\ ln[i] = line[i] /\ ln[k] \in sent
      BY <1>1, <2>1, <3>2 DEF Apart
    <3>3. CASE k \in 1..Len(line) /\ ln[k] = line[k] /\ ln[i] \in sent
      BY <1>1, <2>1, <3>3 DEF Apart
    <3>4. CASE /\ i - Len(line) \in 1..n /\ ln[i] = b[i - Len(line)] /\ ln[i] \in sent
               /\ k - Len(line) \in 1..n /\ ln[k] = b[k - Len(line)] /\ ln[k] \in sent
      <4>1. ln[i] = ln[k]
        BY <1>1, <2>1, <3>4 DEF Apart, DistinctJobs
      <4>2. i - Len(line) = k - Len(line)
        BY <1>3, <3>4, <4>1
      <4> QED BY <1>7, <4>2
    <3> QED BY <1>8, <3>1, <3>2, <3>3, <3>4
  <2>2. \A j \in y.in :
          /\ j.index < y.total
          /\ \A r \in ActiveOf(reqs) : r.job.index # j.index
          /\ \A k \in y.out : k.index # j.index
          /\ \A i \in 1..Len(ln) : ln[i].index # j.index
    BY <1>1, <1>4, <1>8 DEF Apart
  <2>3. \A r \in ActiveOf(reqs) :
          /\ r.job.index < y.total
          /\ \A k \in y.out : k.index # r.job.index
          /\ \A i \in 1..Len(ln) : ln[i].index # r.job.index
    BY <1>1, <1>4, <1>8 DEF Apart
  <2>4. ASSUME NEW k \in y.out
        PROVE  k.index < y.total /\ \A i \in 1..Len(ln) : ln[i].index # k.index
    <3>1. k \in x.out /\ k \notin sent /\ k.index < y.total
      BY <1>1, <1>4 DEF Apart
    <3>2. \A i \in 1..Len(ln) : ln[i].index # k.index
      BY <1>1, <1>8, <3>1 DEF Apart, DistinctJobs
    <3> QED BY <3>1, <3>2
  <2>5. \A i \in 1..Len(ln) : ln[i].index < y.total
    BY <1>1, <1>4, <1>8 DEF Apart
  <2>6. DistinctJobs(y.out) /\ DistinctJobs(y.in)
    BY <1>1, <1>4 DEF Apart, DistinctJobs
  <2> QED BY <1>1, <1>4, <1>9, <2>1, <2>2, <2>3, <2>4, <2>5, <2>6 DEF Apart
<1>11. Counted(y, reqs, ln)
  <2>1. Numbers(x, reqs, line)
    BY <1>1, CountFacts
  <2> QED BY <1>1, <1>2, <1>4, <1>7, <1>9, <2>1, CountedSent
<1>12. Accounted(y, reqs, ln)
  BY <1>4, <1>10, <1>11 DEF Accounted
<1> QED BY <1>4, <1>5, <1>12 DEF ln, b

LEMMA OutFacts ==
  ASSUME opt \in Configs, NEW s \in States(opt),
         Accounted(s.f, s.requests, Line(s.pipe)), NEW jobs \in SUBSET s.f.out
  PROVE  /\ Out(s, jobs) \in States(opt)
         /\ Accounted(Out(s, jobs).f, Out(s, jobs).requests, Line(Out(s, jobs).pipe))
<1> DEFINE sent == {j \in jobs : Earlier(s.f.out, j) < Pushes(s.pipe)}
           t == [s EXCEPT !.f.processed = @ + Cardinality(sent), !.f.out = @ \ sent,
                          !.pipe = Pushed(@, ByIndex(sent))]
<1>1. CASE sent = {}
  BY <1>1 DEF Out
<1>2. CASE sent # {}
  <2>1. sent \in SUBSET s.f.out
    OBVIOUS
  <2>2. Out(s, jobs) = t
    BY <1>2 DEF Out
  <2> HIDE DEF sent
  <2>3. s.f.running
    BY <1>2, <2>1 DEF Accounted, Nowhere
  <2> DEFINE y == [s.f EXCEPT !.processed = @ + Cardinality(sent), !.out = @ \ sent]
  <2>4. /\ t.f = y /\ t.requests = s.requests /\ t.peers = s.peers
        /\ t.pipe = Pushed(s.pipe, ByIndex(sent))
    BY DEF States, Fetchers
  <2>5. /\ s.f \in Fetchers(opt) /\ s.requests \subseteq Asked(opt)
        /\ s.pipe \in Pipes(opt) /\ s.peers \in PeerPools
    BY StateFacts
  <2>6. Line(s.pipe) \in Seq(Results(opt))
    BY <2>5, PipeFacts
  <2>7. /\ ByIndex(sent) \in Seq(Results(opt)) /\ y \in Fetchers(opt)
        /\ Accounted(y, s.requests, Line(s.pipe) \o ByIndex(sent))
    <3>1. sent \in SUBSET (s.f).out
      BY <2>1
    <3>2. \A z : z = y => /\ ByIndex(sent) \in Seq(Results(opt)) /\ z \in Fetchers(opt)
                         /\ Accounted(z, s.requests, Line(s.pipe) \o ByIndex(sent))
      BY <2>3, <2>5, <2>6, <3>1, SentAccounted
    <3> QED BY <3>2
  <2>8. /\ Pushed(s.pipe, ByIndex(sent)) \in Pipes(opt)
        /\ Line(Pushed(s.pipe, ByIndex(sent))) = Line(s.pipe) \o ByIndex(sent)
    BY <2>5, <2>7, PushedFacts
  <2>9. t \in States(opt)
    <3> DEFINE s1 == [s EXCEPT !.f.processed = @ + Cardinality(sent)]
               s2 == [s1 EXCEPT !.f.out = @ \ sent]
    <3>1. Cardinality(sent) \in Nat
      <4>1. IsFiniteSet(s.f.out)
        BY <2>3 DEF Accounted, Apart
      <4> QED BY <2>1, <4>1, FS_Subset, FS_CardinalityType
    <3>2. s1 \in States(opt) /\ s1.pipe = s.pipe
      <4>1. s.f.processed + Cardinality(sent) \in Nat
        BY <2>5, <3>1 DEF Fetchers
      <4> QED BY <4>1 DEF States, Fetchers
    <3> HIDE DEF s1
    <3>3. s2 \in States(opt) /\ s2.pipe = s.pipe
      BY <3>2 DEF States, Fetchers
    <3> HIDE DEF s2
    <3>4. [s2 EXCEPT !.pipe = Pushed(@, ByIndex(sent))] \in States(opt)
      BY <2>8, <3>3 DEF States
    <3> QED BY <3>4 DEF s1, s2
  <2> HIDE DEF t, y
  <2> QED BY <2>2, <2>4, <2>7, <2>8, <2>9
<1> QED BY <1>1, <1>2

LEMMA DequeueFacts ==
  ASSUME opt \in Configs, NEW s \in States(opt), Accounted(s.f, s.requests, Line(s.pipe))
  PROVE  /\ Dequeue(s) \in States(opt)
         /\ Accounted(Dequeue(s).f, Dequeue(s).requests, Line(Dequeue(s).pipe))
<1> DEFINE early(j) == j.index <= s.f.processed + Earlier(s.f.out, j)
           jobs == {j \in s.f.out : \A k \in s.f.out : k.index <= j.index => early(k)}
<1>1. Dequeue(s) = Out(s, jobs)
  BY DEF Dequeue
<1>2. jobs \in SUBSET s.f.out
  OBVIOUS
<1> HIDE DEF jobs
<1> QED BY <1>1, <1>2, OutFacts

-----------------------------------------------------------------------------
(* The head of the line: a batch that is written, or asked for again.        *)

LEMMA IntervalFacts ==
  ASSUME NEW n \in Nat
  PROVE  IsFiniteSet(1..n) /\ Cardinality(1..n) = n
<1>1. 1 \in Int /\ n \in Int
  OBVIOUS
<1>2. IsFiniteSet(1..n) /\ Cardinality(1..n) = IF 1 > n THEN 0 ELSE n - 1 + 1
  BY <1>1, FS_Interval
<1> QED BY <1>2

LEMMA DroppedFacts ==
  ASSUME NEW S, NEW b \in Seq(S), NEW rest \in Seq(S)
  PROVE  /\ Len(b \o rest) = Len(b) + Len(rest) /\ Len(b) \in Nat /\ Len(rest) \in Nat
         /\ \A i \in 1..Len(b) : i \in 1..Len(b \o rest) /\ (b \o rest)[i] = b[i]
         /\ \A i \in 1..Len(rest) : /\ i + Len(b) \in 1..Len(b \o rest)
                                    /\ (b \o rest)[i + Len(b)] = rest[i]
<1>1. Len(b) \in Nat /\ Len(rest) \in Nat
  BY LenProperties
<1>2. /\ Len(b \o rest) = Len(b) + Len(rest)
      /\ \A i \in 1..(Len(b) + Len(rest)) :
            (b \o rest)[i] = IF i <= Len(b) THEN b[i] ELSE rest[i - Len(b)]
  BY ConcatProperties
<1>3. ASSUME NEW i \in 1..Len(b) PROVE i \in 1..Len(b \o rest) /\ (b \o rest)[i] = b[i]
  <2>1. i \in 1..(Len(b) + Len(rest)) /\ i <= Len(b)
    BY <1>1
  <2> QED BY <1>2, <2>1
<1>4. ASSUME NEW i \in 1..Len(rest)
      PROVE  i + Len(b) \in 1..Len(b \o rest) /\ (b \o rest)[i + Len(b)] = rest[i]
  <2>1. /\ i + Len(b) \in 1..(Len(b) + Len(rest)) /\ ~(i + Len(b) <= Len(b))
        /\ (i + Len(b)) - Len(b) = i
    BY <1>1
  <2> QED BY <1>2, <2>1
<1> QED BY <1>1, <1>2, <1>3, <1>4

LEMMA FinishedAccounted ==
  ASSUME opt \in Configs, NEW x \in Fetchers(opt), NEW reqs, reqs \subseteq Asked(opt),
         NEW b \in Seq(Results(opt)), NEW rest \in Seq(Results(opt)), b # <<>>,
         Accounted(x, reqs, b \o rest),
         NEW y, y = [x EXCEPT !.finished = @ + Len(b)]
  PROVE  x.running /\ y \in Fetchers(opt) /\ Accounted(y, reqs, rest)
<1> DEFINE line == b \o rest
           n == Len(b)
<1>1. /\ Len(line) = n + Len(rest) /\ n \in Nat /\ Len(rest) \in Nat
      /\ \A i \in 1..n : i \in 1..Len(line) /\ line[i] = b[i]
      /\ \A i \in 1..Len(rest) : i + n \in 1..Len(line) /\ line[i + n] = rest[i]
  BY DroppedFacts
<1>2. n > 0 /\ line \in Seq(Results(opt))
  BY EmptySeq, ConcatProperties
<1>3. /\ y.finished = x.finished + n /\ y.in = x.in /\ y.out = x.out /\ y.total = x.total
      /\ y.running = x.running /\ y.processed = x.processed /\ y \in Fetchers(opt)
  <2>1. x.finished + n \in Nat
    BY <1>1 DEF Fetchers
  <2> HIDE DEF n
  <2>2. y = [x EXCEPT !.finished = @ + n]
    BY DEF n
  <2> QED BY <2>1, <2>2 DEF Fetchers
<1> HIDE DEF line, n
<1>4. Accounted(x, reqs, line)
  BY DEF line
<1>5. x.running
  <2>1. Len(<<>>) = 0
    OBVIOUS
  <2>2. line # <<>>
    BY <1>1, <1>2, <2>1
  <2> QED BY <1>4, <2>2 DEF Accounted, Nowhere
<1>6. Apart(x, reqs, line) /\ Counted(x, reqs, line)
  BY <1>4, <1>5 DEF Accounted
<1>7. Apart(y, reqs, rest)
  <2>1. ASSUME NEW i \in 1..Len(rest), NEW k \in 1..Len(rest), rest[i].index = rest[k].index
        PROVE  i = k
    <3>1. i + n = k + n
      BY <1>1, <1>6, <2>1 DEF Apart
    <3> QED BY <1>1, <3>1
  <2>2. ASSUME NEW i \in 1..Len(rest)
        PROVE  /\ rest[i].index < x.total
               /\ \A j \in x.in : rest[i].index # j.index
               /\ \A r \in ActiveOf(reqs) : rest[i].index # r.job.index
               /\ \A k \in x.out : rest[i].index # k.index
    BY <1>1, <1>6 DEF Apart
  <2> QED BY <1>3, <1>6, <2>1, <2>2 DEF Apart
<1>8. Counted(y, reqs, rest)
  <2>1. Numbers(x, reqs, line)
    BY <1>2, <1>6, CountFacts
  <2> QED BY <1>1, <1>3, <1>6, <2>1, CountedFinished
<1> QED BY <1>3, <1>5, <1>7, <1>8 DEF Accounted

(* The jobs are those of the batch again, one for each.                      *)
Renews(jobs, b) ==
  \E g \in [1..Len(b) -> jobs] :
     /\ \A j \in jobs : \E i \in 1..Len(b) : j = g[i]
     /\ \A i \in 1..Len(b) : g[i].index = b[i].index

LEMMA AgainAccounted ==
  ASSUME opt \in Configs, NEW x \in Fetchers(opt), NEW reqs, reqs \subseteq Asked(opt),
         NEW b \in Seq(Results(opt)), NEW rest \in Seq(Results(opt)), b # <<>>,
         Accounted(x, reqs, b \o rest),
         NEW jobs \in SUBSET Jobs(opt), Renews(jobs, b),
         NEW y, y = [x EXCEPT !.processed = @ - Len(b), !.in = @ \cup jobs]
  PROVE  x.running /\ y \in Fetchers(opt) /\ Accounted(y, reqs, rest)
<1> DEFINE line == b \o rest
           n == Len(b)
<1>1. /\ Len(line) = n + Len(rest) /\ n \in Nat /\ Len(rest) \in Nat
      /\ \A i \in 1..n : i \in 1..Len(line) /\ line[i] = b[i]
      /\ \A i \in 1..Len(rest) : i + n \in 1..Len(line) /\ line[i + n] = rest[i]
  BY DroppedFacts
<1>2. n > 0 /\ line \in Seq(Results(opt))
  BY EmptySeq, ConcatProperties
<1> HIDE DEF line
<1>4. Accounted(x, reqs, line)
  BY DEF line
<1>5. x.running
  <2>1. Len(<<>>) = 0
    OBVIOUS
  <2>2. line # <<>>
    BY <1>1, <1>2, <2>1
  <2> QED BY <1>4, <2>2 DEF Accounted, Nowhere
<1>6. Apart(x, reqs, line) /\ Counted(x, reqs, line)
  BY <1>4, <1>5 DEF Accounted
<1>7. Numbers(x, reqs, line)
  BY <1>2, <1>6, CountFacts
<1>8. /\ y.processed = x.processed - n /\ y.in = x.in \cup jobs /\ y.out = x.out
      /\ y.total = x.total /\ y.running = x.running /\ y.finished = x.finished
      /\ y \in Fetchers(opt)
  <2>1. x.processed - n \in Nat
    BY <1>1, <1>6, <1>7 DEF Counted, Numbers
  <2> HIDE DEF n
  <2>2. y = [x EXCEPT !.processed = @ - n, !.in = @ \cup jobs]
    BY DEF n
  <2> QED BY <2>1, <2>2 DEF Fetchers
<1>9. PICK g \in [1..n -> jobs] :
         /\ \A j \in jobs : \E i \in 1..n : j = g[i]
         /\ \A i \in 1..n : g[i].index = b[i].index
  BY DEF Renews
<1> HIDE DEF n
<1>10. ASSUME NEW i \in 1..n, NEW k \in 1..n, g[i].index = g[k].index PROVE i = k
  <2>1. b[i].index = b[k].index
    BY <1>9, <1>10
  <2> QED BY <1>1, <1>6, <2>1 DEF Apart
<1>11. ASSUME NEW j \in jobs
       PROVE  \E i \in 1..n : i \in 1..Len(line) /\ j = g[i] /\ j.index = line[i].index
  BY <1>1, <1>9
<1>12. IsFiniteSet(jobs) /\ Cardinality(jobs) = n
  <2>1. g \in Bijection(1..n, jobs)
    BY <1>9, <1>10 DEF Bijection, Injection, Surjection, IsInjective
  <2>2. ExistsBijection(1..n, jobs)
    BY <2>1 DEF ExistsBijection
  <2>3. IsFiniteSet(1..n) /\ Cardinality(1..n) = n
    BY <1>1, IntervalFacts
  <2> QED BY <2>2, <2>3, FS_Bijection
<1>13. \A j \in x.in : j \notin jobs
  BY <1>6, <1>11 DEF Apart
<1>14. IsFiniteSet(y.in) /\ Cardinality(y.in) = Cardinality(x.in) + n
  <2>1. IsFiniteSet(x.in) /\ x.in \cap jobs = {}
    BY <1>6, <1>13 DEF Apart
  <2>2. /\ IsFiniteSet(x.in \cup jobs)
        /\ Cardinality(x.in \cup jobs)
             = Cardinality(x.in) + Cardinality(jobs) - Cardinality(x.in \cap jobs)
    BY <1>12, <2>1, FS_Union
  <2>3. Cardinality(x.in \cap jobs) = 0
    BY <2>1, FS_EmptySet
  <2>4. Cardinality(x.in) \in Nat
    BY <1>7 DEF Numbers
  <2> QED BY <1>1, <1>8, <1>12, <2>2, <2>3, <2>4
<1>15. Apart(y, reqs, rest)
  <2>1. ASSUME NEW i \in 1..Len(rest), NEW k \in 1..Len(rest), rest[i].index = rest[k].index
        PROVE  i = k
    <3>1. i + n = k + n
      BY <1>1, <1>6, <2>1 DEF Apart
    <3> QED BY <1>1, <3>1
  <2>2. ASSUME NEW i \in 1..Len(rest)
        PROVE  /\ rest[i].index < x.total
               /\ \A j \in y.in : rest[i].index # j.index
               /\ \A r \in ActiveOf(reqs) : rest[i].index # r.job.index
               /\ \A k \in x.out : rest[i].index # k.index
    <3>1. i + n \in 1..Len(line) /\ line[i + n] = rest[i]
      BY <1>1
    <3>2. ASSUME NEW j \in jobs PROVE rest[i].index # j.index
      <4>1. PICK k \in 1..n : k \in 1..Len(line) /\ j.index = line[k].index
        BY <1>11
      <4>2. i + n # k
        BY <1>1
      <4> QED BY <1>6, <3>1, <4>1, <4>2 DEF Apart
    <3> QED BY <1>6, <1>8, <3>1, <3>2 DEF Apart
  <2>3. ASSUME NEW j \in jobs
        PROVE  /\ j.index < x.total
               /\ \A r \in ActiveOf(reqs) : r.job.index # j.index
               /\ \A k \in x.out : k.index # j.index
               /\ \A k \in x.in : k.index # j.index
    <3>1. PICK i \in 1..n : i \in 1..Len(line) /\ j.index = line[i].index
      BY <1>11
    <3>2. /\ line[i].index < x.total
          /\ \A r \in ActiveOf(reqs) : line[i].index # r.job.index
          /\ \A k \in x.out : line[i].index # k.index
          /\ \A k \in x.in : line[i].index # k.index
      BY <1>6, <3>1 DEF Apart
    <3> QED BY <3>1, <3>2
  <2>4. ASSUME NEW j \in jobs, NEW k \in jobs, j.index = k.index PROVE j = k
    <3>1. PICK i \in 1..n : j = g[i]
      BY <1>9
    <3>2. PICK l \in 1..n : k = g[l]
      BY <1>9
    <3>3. i = l
      BY <1>10, <2>4, <3>1, <3>2
    <3> QED BY <3>1, <3>2, <3>3
  <2>5. DistinctJobs(y.in)
    BY <1>6, <1>8, <2>3, <2>4 DEF Apart, DistinctJobs
  <2>6. \A j \in y.in :
          /\ j.index < y.total
          /\ \A r \in ActiveOf(reqs) : r.job.index # j.index
          /\ \A k \in y.out : k.index # j.index
          /\ \A i \in 1..Len(rest) : rest[i].index # j.index
    BY <1>6, <1>8, <2>2, <2>3 DEF Apart
  <2> QED BY <1>6, <1>8, <1>14, <2>1, <2>2, <2>5, <2>6 DEF Apart
<1>16. Counted(y, reqs, rest)
  <2> QED BY <1>1, <1>6, <1>7, <1>8, <1>14, CountedAgain
<1>17. y.running
  BY <1>5, <1>8
<1>18. y \in Fetchers(opt)
  BY <1>8
<1>19. Accounted(y, reqs, rest)
  BY <1>15, <1>16, <1>17 DEF Accounted
<1> QED BY <1>5, <1>18, <1>19

-----------------------------------------------------------------------------
(* The steps of a turn.                                                      *)

(* The accounts of a whole state.                                            *)
Balanced(s) == s \in States(opt) /\ Accounted(s.f, s.requests, Line(s.pipe))

(* Between the last block of a batch and the writer's callback, `done' is    *)
(* the length of the batch.                                                  *)
Streams(o) ==
  {q \in [readable : Seq(Results(o)), paused : BOOLEAN, buffer : Seq(Results(o)),
          batch : Seq(Results(o)), done : Nat] :
     ~q.paused => Len(q.batch) + Len(q.buffer) < o.highWaterMark}

Writing(o) ==
  [f : Fetchers(o), requests : SUBSET Asked(o), pipe : Streams(o), peers : PeerPools]

LEMMA StatesWriting ==
  ASSUME NEW s \in States(opt)
  PROVE  s \in Writing(opt)
  BY DEF States, Writing, Pipes, Streams

(* The writer's next batch is what was buffered meanwhile.                   *)
NextBatch(p) == [p EXCEPT !.batch = p.buffer, !.buffer = <<>>, !.done = 0]

LEMMA NextBatchFacts ==
  ASSUME opt \in Configs, NEW p \in Streams(opt), NEW q, q = NextBatch(p)
  PROVE  /\ p.buffer \in Seq(Results(opt)) /\ p.readable \in Seq(Results(opt))
         /\ q.batch = p.buffer /\ q.buffer = <<>> /\ q.readable = p.readable /\ q.done = 0
         /\ q \in Pipes(opt)
         /\ Line(q) = p.buffer \o p.readable
<1> DEFINE R == Results(opt)
<1>1. /\ p.batch \in Seq(R) /\ p.buffer \in Seq(R) /\ p.readable \in Seq(R)
      /\ p.paused \in BOOLEAN /\ <<>> \in Seq(R) /\ Len(p.batch) \in Nat
      /\ Len(p.buffer) \in Nat /\ Len(<<>>) = 0 /\ opt.highWaterMark \in Nat
      /\ ~p.paused => Len(p.batch) + Len(p.buffer) < opt.highWaterMark
  <2>1. p.batch \in Seq(R) /\ p.buffer \in Seq(R) /\ p.readable \in Seq(R) /\ p.paused \in BOOLEAN
    BY DEF Streams
  <2>2. ~p.paused => Len(p.batch) + Len(p.buffer) < opt.highWaterMark
    BY DEF Streams
  <2>3. Len(p.batch) \in Nat /\ Len(p.buffer) \in Nat
    BY <2>1, LenProperties
  <2>4. <<>> \in Seq(R) /\ Len(<<>>) = 0
    BY EmptySeq
  <2>5. opt.highWaterMark \in Nat
    BY ConfigFacts
  <2> QED BY <2>1, <2>2, <2>3, <2>4, <2>5
<1>2. /\ q.batch = p.buffer /\ q.buffer = <<>> /\ q.readable = p.readable /\ q.done = 0
      /\ q.paused = p.paused
      /\ q \in [readable : Seq(R), paused : BOOLEAN, buffer : Seq(R), batch : Seq(R),
                done : Nat]
  <2>1. p \in [readable : Seq(R), paused : BOOLEAN, buffer : Seq(R), batch : Seq(R),
               done : Nat]
    BY DEF Streams
  <2>2. p.buffer \in Seq(R) /\ <<>> \in Seq(R)
    BY <1>1
  <2> DEFINE empty == <<>>
  <2> HIDE DEF R, empty
  <2>3. q = [p EXCEPT !.batch = p.buffer, !.buffer = empty, !.done = 0]
    BY DEF empty, NextBatch
  <2>4. empty \in Seq(R)
    BY <2>2 DEF empty
  <2>5. /\ q.batch = p.buffer /\ q.buffer = empty /\ q.readable = p.readable /\ q.done = 0
        /\ q.paused = p.paused
    BY <2>1, <2>3
  <2>6. q \in [readable : Seq(R), paused : BOOLEAN, buffer : Seq(R), batch : Seq(R),
               done : Nat]
    <3>1. q = [readable |-> p.readable, paused |-> p.paused, buffer |-> empty,
               batch |-> p.buffer, done |-> 0]
      BY <2>1, <2>3
    <3>2. p.readable \in Seq(R) /\ p.paused \in BOOLEAN
      BY <2>1
    <3> QED BY <2>2, <2>4, <3>1, <3>2
  <2> QED BY <2>5, <2>6 DEF empty
<1>3. q \in Pipes(opt)
  <2>1. ~q.paused => Len(q.batch) + Len(q.buffer) < opt.highWaterMark
    <3> DEFINE a == Len(p.batch)
               b == Len(p.buffer)
               h == opt.highWaterMark
    <3>1. a \in Nat /\ b \in Nat /\ h \in Nat /\ (~q.paused => a + b < h)
      BY <1>1, <1>2
    <3>2. Len(q.batch) = b /\ Len(q.buffer) = 0
      BY <1>1, <1>2
    <3> HIDE DEF a, b, h
    <3>3. ~q.paused => b + 0 < h
      BY <3>1
    <3> QED BY <3>2, <3>3 DEF h
  <2>2. q.batch # <<>> => q.done < Len(q.batch)
    <3>1. q.batch \in Seq(R)
      BY <1>1, <1>2
    <3>2. q.batch # <<>> => Len(q.batch) \in Nat \ {0}
      BY <3>1, EmptySeq
    <3> QED BY <1>2, <3>2
  <2> QED BY <1>2, <2>1, <2>2 DEF Pipes
<1>4. Line(q) = p.buffer \o p.readable
  <2>1. q.batch \o q.buffer = p.buffer
    BY <1>1, <1>2, ConcatEmptySeq
  <2> QED BY <1>2, <2>1 DEF Line
<1> QED BY <1>1, <1>2, <1>3, <1>4

LEMMA BatchDoneFacts ==
  ASSUME opt \in Configs, NEW s \in Writing(opt), s.pipe.batch # <<>>,
         Accounted(s.f, s.requests, s.pipe.buffer \o s.pipe.readable)
  PROVE  Balanced(BatchDone(s))
<1> DEFINE p == s.pipe
           q == NextBatch(p)
<1>1. /\ s.f \in Fetchers(opt) /\ s.requests \subseteq Asked(opt)
      /\ p \in Streams(opt) /\ s.peers \in PeerPools
  BY DEF Writing
<1>2. /\ p.buffer \in Seq(Results(opt)) /\ p.readable \in Seq(Results(opt))
      /\ q.batch = p.buffer /\ q \in Pipes(opt) /\ Line(q) = p.buffer \o p.readable
      /\ q.readable = p.readable
  <2> HIDE DEF p
  <2> QED BY <1>1, NextBatchFacts
<1> HIDE DEF q
<1>3. CASE p.buffer # <<>>
  <2> DEFINE t == [s EXCEPT !.pipe = q]
  <2>1. BatchDone(s) = t
    BY <1>3 DEF BatchDone, q, NextBatch
  <2>2. t \in States(opt) /\ t.f = s.f /\ t.requests = s.requests /\ t.pipe = q
    BY <1>2 DEF States, Writing
  <2> HIDE DEF t
  <2> QED BY <1>2, <2>1, <2>2 DEF Balanced
<1>4. CASE p.buffer = <<>>
  <2> DEFINE t == [s EXCEPT !.pipe = Flow(q)]
  <2>1. BatchDone(s) = Dequeue(t)
    BY <1>4 DEF BatchDone, q, NextBatch
  <2>2. Flow(q) \in Pipes(opt) /\ Line(Flow(q)) = p.readable
    BY <1>2, <1>4, FlowFacts
  <2>3. t \in States(opt) /\ t.f = s.f /\ t.requests = s.requests /\ t.pipe = Flow(q)
    BY <2>2 DEF States, Writing
  <2>4. p.buffer \o p.readable = p.readable
    BY <1>2, <1>4, ConcatEmptySeq
  <2> HIDE DEF t
  <2>5. Accounted(t.f, t.requests, Line(t.pipe))
    BY <2>2, <2>3, <2>4
  <2> QED BY <2>1, <2>3, <2>5, DequeueFacts DEF Balanced
<1> QED BY <1>3, <1>4

(* Dequeuing does not stop the fetcher.                                      *)
LEMMA DequeueRunning ==
  ASSUME NEW s \in States(opt)
  PROVE  Dequeue(s).f.running = s.f.running
  BY DEF Dequeue, Out, States, Fetchers

LEMMA PeerMoves ==
  ASSUME NEW s \in States(opt), NEW o \in Objects
  PROVE  /\ Idled(s, o) \in States(opt) /\ Idled(s, o).f = s.f
         /\ Idled(s, o).requests = s.requests /\ Idled(s, o).pipe = s.pipe
         /\ Rests(s, o) \in States(opt) /\ Rests(s, o).f = s.f
         /\ Rests(s, o).requests = s.requests /\ Rests(s, o).pipe = s.pipe
  BY DEF Idled, Rests, States, PeerPools

LEMMA BannedFacts ==
  ASSUME NEW s \in States(opt), NEW o \in Objects
  PROVE  /\ Banned(s, o) \in States(opt) /\ Banned(s, o).f = s.f
         /\ Banned(s, o).requests = s.requests /\ Banned(s, o).pipe = s.pipe
<1>1. CASE ~Pooled(o[1])
  BY <1>1 DEF Banned
<1>2. CASE Pooled(o[1])
  <2> DEFINE t1 == [s EXCEPT !.peers.pool = {x \in @ : x[1] # o[1]}]
             t2 == [t1 EXCEPT !.peers.bans = @ \cup {o}]
  <2>1. t1 \in States(opt) /\ t1.f = s.f /\ t1.requests = s.requests /\ t1.pipe = s.pipe
    BY DEF States, PeerPools
  <2>2. Banned(s, o) = t2
    BY <1>2 DEF Banned
  <2> HIDE DEF t1
  <2>3. t2 \in States(opt) /\ t2.f = t1.f /\ t2.requests = t1.requests /\ t2.pipe = t1.pipe
    BY <2>1 DEF States, PeerPools
  <2> HIDE DEF t2
  <2> QED BY <2>1, <2>2, <2>3
<1> QED BY <1>1, <1>2

(* next() at the end of a turn.                                              *)
LEMMA GoesFacts ==
  ASSUME opt \in Configs, NEW S, \A s \in S : Balanced(s) /\ s.f.running, Goes(S)
  PROVE  \E t : Balanced(t) /\ Becomes(t)
<1>1. PICK s \in S : \E t \in NextJob(s) : Becomes(t)
  BY DEF Goes
<1>2. PICK t \in NextJob(s) : Becomes(t)
  BY <1>1
<1>3. s \in States(opt) /\ s.f.running /\ Accounted(s.f, s.requests, Line(s.pipe))
  BY DEF Balanced
<1>4. Line(s.pipe) \in Seq(Results(opt))
  BY <1>3, StateFacts, PipeFacts
<1>5. t \in States(opt) /\ Accounted(t.f, t.requests, Line(s.pipe)) /\ t.pipe = s.pipe
  BY <1>3, <1>4, NextJobFacts
<1>6. Balanced(t)
  BY <1>5 DEF Balanced
<1> QED BY <1>2, <1>6

-----------------------------------------------------------------------------
(* The invariant, and the steps that keep it.                                *)

Inv ==
  /\ opt \in Configs /\ Balanced(Turn)
  /\ stored \subseteq 0..opt.target /\ faults \in 0..opt.faults

LEMMA TurnFacts ==
  ASSUME Inv
  PROVE  /\ opt \in Configs /\ Turn \in States(opt)
         /\ Turn.f = f /\ Turn.requests = requests /\ Turn.pipe = pipe /\ Turn.peers = peers
         /\ f \in Fetchers(opt) /\ requests \subseteq Asked(opt) /\ pipe \in Pipes(opt)
         /\ peers \in PeerPools
         /\ Accounted(f, requests, Line(pipe)) /\ Line(pipe) \in Seq(Results(opt))
<1>1. Turn.f = f /\ Turn.requests = requests /\ Turn.pipe = pipe /\ Turn.peers = peers
  BY DEF Turn
<1>2. opt \in Configs /\ Turn \in States(opt) /\ Accounted(f, requests, Line(pipe))
  BY <1>1 DEF Inv, Balanced
<1>3. f \in Fetchers(opt) /\ requests \subseteq Asked(opt) /\ pipe \in Pipes(opt)
      /\ peers \in PeerPools
  BY <1>1, <1>2, StateFacts
<1> QED BY <1>1, <1>2, <1>3, PipeFacts

LEMMA BecomesFacts ==
  ASSUME NEW t, Balanced(t), Becomes(t), opt' = opt
  PROVE  Balanced(Turn)'
<1>1. t = [f |-> t.f, requests |-> t.requests, pipe |-> t.pipe, peers |-> t.peers]
  BY DEF Balanced, States
<1>2. Turn' = t
  BY <1>1 DEF Turn, Becomes
<1> QED BY <1>2 DEF Balanced

LEMMA FinishedFacts ==
  ASSUME Inv, NEW r \in requests
  PROVE  /\ Finished(r) \in States(opt) /\ Finished(r).f = f
         /\ Finished(r).requests = requests \ {r} /\ Finished(r).pipe = pipe
         /\ r \in Asked(opt) /\ r.peer \in Objects /\ r.job \in Jobs(opt)
         /\ r.state = "active" => r \in ActiveOf(requests)
         /\ r.state = "orphan" => ActiveOf(requests \ {r}) = ActiveOf(requests)
<1>1. r \in Asked(opt) /\ r.peer \in Objects /\ r.job \in Jobs(opt)
  BY TurnFacts DEF Asked
<1>2. /\ Finished(r) \in States(opt) /\ Finished(r).f = f
      /\ Finished(r).requests = requests \ {r} /\ Finished(r).pipe = pipe
  BY TurnFacts DEF Finished, States
<1>3. r.state = "active" => r \in ActiveOf(requests)
  BY DEF ActiveOf
<1>4. r.state = "orphan" => ActiveOf(requests \ {r}) = ActiveOf(requests)
  BY DEF ActiveOf
<1> QED BY <1>1, <1>2, <1>3, <1>4

(* A request that is over, its job queued again, in full or in part.         *)
LEMMA RequeuedFacts ==
  ASSUME Inv, NEW r \in requests, r.state = "active", NEW j \in Jobs(opt),
         j.index = r.job.index, NEW s \in States(opt), s.f = f,
         s.requests = requests \ {r}, s.pipe = pipe
  PROVE  Balanced(Requeued(s, {j})) /\ Requeued(s, {j}).f.running
<1>1. r \in ActiveOf(requests)
  BY FinishedFacts
<1>2. /\ Enqueue(f, {j}) \in Fetchers(opt) /\ Enqueue(f, {j}).running
      /\ Accounted(Enqueue(f, {j}), requests \ {r}, Line(pipe))
  BY <1>1, TurnFacts, RequeueAccounted
<1>3. /\ Requeued(s, {j}) \in States(opt) /\ Requeued(s, {j}).f = Enqueue(f, {j})
      /\ Requeued(s, {j}).requests = requests \ {r} /\ Requeued(s, {j}).pipe = pipe
  <2> DEFINE e == Enqueue(f, {j})
  <2>1. Requeued(s, {j}) = [s EXCEPT !.f = e]
    BY DEF Requeued
  <2>2. e \in Fetchers(opt)
    BY <1>2
  <2> HIDE DEF e
  <2>3. /\ Requeued(s, {j}) \in States(opt) /\ Requeued(s, {j}).f = e
        /\ Requeued(s, {j}).requests = requests \ {r} /\ Requeued(s, {j}).pipe = pipe
    BY <2>1, <2>2 DEF States
  <2> QED BY <2>3 DEF e
<1> QED BY <1>2, <1>3 DEF Balanced

(* What is left when a request is done with and its peer idle or at rest.    *)
LEMMA IdledFacts ==
  ASSUME Inv, NEW r \in requests
  PROVE  LET v == Idled(Finished(r), r.peer)
         IN  v \in States(opt) /\ v.f = f /\ v.requests = requests \ {r} /\ v.pipe = pipe
<1> DEFINE d == Finished(r)
           v == Idled(d, r.peer)
<1>1. /\ d \in States(opt) /\ d.f = f /\ d.requests = requests \ {r} /\ d.pipe = pipe
      /\ r.peer \in Objects
  BY FinishedFacts
<1> HIDE DEF d
<1>2. v \in States(opt) /\ v.f = d.f /\ v.requests = d.requests /\ v.pipe = d.pipe
  BY <1>1, PeerMoves
<1> QED BY <1>1, <1>2 DEF d

LEMMA RestsFacts ==
  ASSUME Inv, NEW r \in requests
  PROVE  LET v == Rests(Finished(r), r.peer)
         IN  v \in States(opt) /\ v.f = f /\ v.requests = requests \ {r} /\ v.pipe = pipe
<1> DEFINE d == Finished(r)
           v == Rests(d, r.peer)
<1>1. /\ d \in States(opt) /\ d.f = f /\ d.requests = requests \ {r} /\ d.pipe = pipe
      /\ r.peer \in Objects
  BY FinishedFacts
<1> HIDE DEF d
<1>2. v \in States(opt) /\ v.f = d.f /\ v.requests = d.requests /\ v.pipe = d.pipe
  BY <1>1, PeerMoves
<1> QED BY <1>1, <1>2 DEF d

LEMMA CompleteInv ==
  ASSUME Inv, NEW r \in requests, Complete(r)
  PROVE  Inv'
<1> DEFINE s == Idled(Finished(r), r.peer)
           t == [s EXCEPT !.f.out = @ \cup {Result(r)}]
<1>1. r.state = "active" /\ Goes({Dequeue(t)}) /\ UNCHANGED <<opt, stored, faults>>
  BY DEF Complete
<1>2. /\ s \in States(opt) /\ s.f = f /\ s.requests = requests \ {r} /\ s.pipe = pipe
  BY IdledFacts
<1>3. Result(r) \in Results(opt) /\ Result(r).index = r.job.index
  BY FinishedFacts DEF Result, Results, Jobs, Spanned
<1> HIDE DEF s
<1>4. /\ t.f = [f EXCEPT !.out = @ \cup {Result(r)}] /\ t.requests = requests \ {r}
      /\ t.pipe = pipe /\ t \in States(opt)
  BY <1>2, <1>3 DEF States, Fetchers
<1> HIDE DEF t
<1>5. /\ f.running /\ t.f \in Fetchers(opt) /\ t.f.running
      /\ Accounted(t.f, requests \ {r}, Line(pipe))
  <2>1. r \in ActiveOf(requests)
    BY <1>1, FinishedFacts
  <2> QED BY <1>3, <1>4, <2>1, TurnFacts, DoneAccounted
<1>6. Balanced(Dequeue(t)) /\ Dequeue(t).f.running
  BY <1>4, <1>5, TurnFacts, DequeueFacts, DequeueRunning DEF Balanced
<1>7. PICK u : Balanced(u) /\ Becomes(u)
  BY <1>1, <1>6, TurnFacts, GoesFacts
<1> QED BY <1>1, <1>7, BecomesFacts DEF Inv

LEMMA FaultFacts ==
  ASSUME Inv, faults < opt.faults
  PROVE  faults + 1 \in 0..opt.faults
  BY TurnFacts, ConfigFacts DEF Inv

LEMMA PartialInv ==
  ASSUME Inv, NEW r \in requests, Partial(r)
  PROVE  Inv'
<1> DEFINE s == Idled(Finished(r), r.peer)
           job(n) == [r.job EXCEPT !.got = @ + n]
           S == {Requeued(s, {job(n)}) : n \in 1..(r.job.count - r.job.got - 1)}
<1>1. /\ r.state = "active" /\ faults < opt.faults /\ Goes(S) /\ faults' = faults + 1
      /\ UNCHANGED <<opt, stored>>
  BY DEF Partial
<1>2. s \in States(opt) /\ s.f = f /\ s.requests = requests \ {r} /\ s.pipe = pipe
  BY IdledFacts
<1> HIDE DEF s
<1>3. ASSUME NEW n \in 1..(r.job.count - r.job.got - 1)
      PROVE  job(n) \in Jobs(opt) /\ job(n).index = r.job.index
  <2>1. /\ r.job \in [index : Nat, first : Nat, count : Nat, got : Nat]
        /\ r.job.count \in Nat /\ r.job.got \in Nat /\ Spanned(r.job, opt)
    BY FinishedFacts DEF Jobs
  <2>2. r.job.got + n \in Nat /\ r.job.got + n < r.job.count
    BY <2>1
  <2>3. /\ job(n) \in [index : Nat, first : Nat, count : Nat, got : Nat]
        /\ job(n).got = r.job.got + n /\ job(n).count = r.job.count
        /\ job(n).first = r.job.first /\ job(n).index = r.job.index
    BY <2>1, <2>2
  <2> HIDE DEF job
  <2> QED BY <2>1, <2>2, <2>3 DEF Jobs, Spanned
<1> HIDE DEF job
<1>4. \A t \in S : Balanced(t) /\ t.f.running
  BY <1>1, <1>2, <1>3, RequeuedFacts
<1> HIDE DEF S
<1>5. PICK u : Balanced(u) /\ Becomes(u)
  BY <1>1, <1>4, TurnFacts, GoesFacts
<1> QED BY <1>1, <1>5, BecomesFacts, FaultFacts DEF Inv

LEMMA UnexpectedInv ==
  ASSUME Inv, NEW r \in requests, Unexpected(r)
  PROVE  Inv'
<1> DEFINE s == Idled(Finished(r), r.peer)
           job == [r.job EXCEPT !.got = 0]
<1>1. /\ r.state = "active" /\ faults < opt.faults /\ Goes({Requeued(s, {job})})
      /\ faults' = faults + 1 /\ UNCHANGED <<opt, stored>>
  BY DEF Unexpected
<1>2. s \in States(opt) /\ s.f = f /\ s.requests = requests \ {r} /\ s.pipe = pipe
  BY IdledFacts
<1>3. job \in Jobs(opt) /\ job.index = r.job.index
  <2>1. /\ r.job \in [index : Nat, first : Nat, count : Nat, got : Nat]
        /\ r.job.count \in Nat /\ r.job.got \in Nat /\ r.job.got < r.job.count
        /\ Spanned(r.job, opt)
    BY FinishedFacts DEF Jobs
  <2>2. /\ job \in [index : Nat, first : Nat, count : Nat, got : Nat]
        /\ job.got = 0 /\ job.count = r.job.count
        /\ job.first = r.job.first /\ job.index = r.job.index
    BY <2>1
  <2>3. 0 < r.job.count
    BY <2>1
  <2> HIDE DEF job
  <2> QED BY <2>1, <2>2, <2>3 DEF Jobs, Spanned
<1> HIDE DEF s, job
<1>4. Balanced(Requeued(s, {job})) /\ Requeued(s, {job}).f.running
  BY <1>1, <1>2, <1>3, RequeuedFacts
<1>5. PICK u : Balanced(u) /\ Becomes(u)
  BY <1>1, <1>4, TurnFacts, GoesFacts
<1> QED BY <1>1, <1>5, BecomesFacts, FaultFacts DEF Inv

LEMMA NothingInv ==
  ASSUME Inv, NEW r \in requests, Nothing(r)
  PROVE  Inv'
<1> DEFINE s == Rests(Finished(r), r.peer)
<1>1. /\ r.state = "active" /\ faults < opt.faults /\ Goes({Requeued(s, {r.job})})
      /\ faults' = faults + 1 /\ UNCHANGED <<opt, stored>>
  BY DEF Nothing
<1>2. s \in States(opt) /\ s.f = f /\ s.requests = requests \ {r} /\ s.pipe = pipe
  BY RestsFacts
<1> HIDE DEF s
<1>3. Balanced(Requeued(s, {r.job})) /\ Requeued(s, {r.job}).f.running
  BY <1>1, <1>2, FinishedFacts, RequeuedFacts
<1>4. PICK u : Balanced(u) /\ Becomes(u)
  BY <1>1, <1>3, TurnFacts, GoesFacts
<1> QED BY <1>1, <1>4, BecomesFacts, FaultFacts DEF Inv

(* A state that differs in its peers, or in requests nobody waits for.       *)
LEMMA AsideFacts ==
  ASSUME Inv, NEW s \in States(opt), s.f = f, s.pipe = pipe,
         ActiveOf(s.requests) = ActiveOf(requests)
  PROVE  Balanced(s)
  BY TurnFacts DEF Balanced, Accounted, Apart, Counted, Nowhere

LEMMA AbandonedInv ==
  ASSUME Inv, NEW r \in requests, Abandoned(r)
  PROVE  Inv'
<1>1. r.state = "orphan" /\ UNCHANGED <<opt, stored, faults>>
  BY DEF Abandoned
<1>2. ActiveOf(requests \ {r}) = ActiveOf(requests)
  BY <1>1, FinishedFacts
<1>3. ASSUME NEW s \in {Idled(Finished(r), r.peer), Rests(Finished(r), r.peer)}, Becomes(s)
      PROVE  Inv'
  <2>1. s \in States(opt) /\ s.f = f /\ s.requests = requests \ {r} /\ s.pipe = pipe
    <3>1. CASE s = Idled(Finished(r), r.peer)
      BY <3>1, FinishedFacts, PeerMoves
    <3>2. CASE s = Rests(Finished(r), r.peer)
      BY <3>2, FinishedFacts, PeerMoves
    <3> QED BY <3>1, <3>2
  <2>2. Balanced(s)
    BY <1>2, <2>1, AsideFacts
  <2> QED BY <1>1, <1>3, <2>2, BecomesFacts DEF Inv
<1> QED BY <1>3 DEF Abandoned

LEMMA ExpireInv ==
  ASSUME Inv, NEW r \in requests, Expire(r)
  PROVE  Inv'
<1> DEFINE s == Banned(Finished(r), r.peer)
<1>1. /\ Becomes(IF r.state = "active" THEN Requeued(s, {r.job}) ELSE s)
      /\ faults' \in 0..opt.faults /\ UNCHANGED <<opt, stored>>
  <2>1. /\ r.peer \notin peers.lost => faults < opt.faults
        /\ faults' = IF r.peer \in peers.lost THEN faults ELSE faults + 1
        /\ Becomes(IF r.state = "active" THEN Requeued(s, {r.job}) ELSE s)
        /\ UNCHANGED <<opt, stored>>
    BY DEF Expire, Finished
  <2> QED BY <2>1, FaultFacts DEF Inv
<1>2. s \in States(opt) /\ s.f = f /\ s.requests = requests \ {r} /\ s.pipe = pipe
  BY FinishedFacts, BannedFacts
<1> HIDE DEF s
<1>3. CASE r.state = "active"
  <2>1. Balanced(Requeued(s, {r.job}))
    BY <1>2, <1>3, FinishedFacts, RequeuedFacts
  <2> QED BY <1>1, <1>3, <2>1, BecomesFacts DEF Inv
<1>4. CASE r.state = "orphan"
  <2>1. Balanced(s)
    BY <1>2, <1>4, FinishedFacts, AsideFacts
  <2> QED BY <1>1, <1>4, <2>1, BecomesFacts DEF Inv
<1> QED BY <1>3, <1>4, FinishedFacts DEF Asked

LEMMA RestedInv ==
  ASSUME Inv, NEW o \in peers.resting, Rested(o)
  PROVE  Inv'
<1> DEFINE s == [Turn EXCEPT !.peers.resting = @ \ {o}]
<1>1. Becomes(Idled(s, o)) /\ UNCHANGED <<opt, stored, faults>>
  BY DEF Rested
<1>2. o \in Objects
  BY TurnFacts DEF PeerPools
<1>3. s \in States(opt) /\ s.f = f /\ s.requests = requests /\ s.pipe = pipe
  BY TurnFacts DEF States, PeerPools
<1> HIDE DEF s
<1>4. Idled(s, o) \in States(opt) /\ Idled(s, o).f = f /\ Idled(s, o).pipe = pipe
      /\ Idled(s, o).requests = requests
  BY <1>2, <1>3, PeerMoves
<1>5. Balanced(Idled(s, o))
  BY <1>4, AsideFacts
<1> QED BY <1>1, <1>5, BecomesFacts DEF Inv

(* A step of the pool alone.                                                 *)
LEMMA PoolStep ==
  ASSUME Inv, peers' \in PeerPools, UNCHANGED <<opt, f, requests, pipe, stored>>,
         faults' \in 0..opt.faults
  PROVE  Inv'
<1>1. Turn' \in States(opt) /\ Turn'.f = f /\ Turn'.requests = requests /\ Turn'.pipe = pipe
  BY TurnFacts DEF Turn, States
<1>2. Accounted(f, requests, Line(pipe))
  BY TurnFacts
<1>3. Balanced(Turn)'
  BY <1>1, <1>2 DEF Balanced
<1> QED BY <1>3 DEF Inv

LEMMA ConnectInv ==
  ASSUME Inv, NEW p \in Peers, Connect(p)
  PROVE  Inv'
<1> DEFINE new == <<p, peers.gen[p] + 1>>
           old == {<<p, n>> : n \in 1..peers.gen[p]}
           t1 == [peers EXCEPT !.pool = @ \cup {new}]
           t2 == [t1 EXCEPT !.idle = @ \cup {new}]
           t3 == [t2 EXCEPT !.gen[p] = @ + 1]
           t4 == [t3 EXCEPT !.lost = @ \cup old]
<1>1. /\ ~Pooled(p) /\ UNCHANGED <<opt, f, requests, pipe, stored, faults>>
      /\ peers' = [peers EXCEPT !.pool = @ \cup {new}, !.idle = @ \cup {new},
                                !.gen[p] = @ + 1, !.lost = @ \cup old]
  BY DEF Connect
<1>2. peers' = t4
  BY <1>1
<1>3. peers \in PeerPools /\ peers.gen \in [Peers -> Nat] /\ peers.gen[p] \in Nat
  BY TurnFacts DEF PeerPools
<1>4. new \in Objects /\ new[1] = p /\ old \subseteq Objects
  BY <1>3 DEF Objects
<1> HIDE DEF new, old
<1>5. t1 \in PeerPools /\ t1.gen = peers.gen
  <2>1. \A x \in peers.pool : x[1] # p
    BY <1>1 DEF Pooled
  <2>2. \A a, b \in peers.pool \cup {new} : a[1] = b[1] => a = b
    BY <1>3, <1>4, <2>1 DEF PeerPools
  <2> QED BY <1>3, <1>4, <2>2 DEF PeerPools
<1> HIDE DEF t1
<1>6. t2 \in PeerPools /\ t2.gen = peers.gen
  BY <1>4, <1>5 DEF PeerPools
<1> HIDE DEF t2
<1>7. t3 \in PeerPools
  <2>1. [t2.gen EXCEPT ![p] = @ + 1] \in [Peers -> Nat]
    BY <1>3, <1>6
  <2>2. t3 = [t2 EXCEPT !.gen = [t2.gen EXCEPT ![p] = @ + 1]]
    OBVIOUS
  <2> QED BY <1>6, <2>1, <2>2 DEF PeerPools
<1> HIDE DEF t3
<1>8. t4 \in PeerPools
  BY <1>4, <1>7 DEF PeerPools
<1> HIDE DEF t4
<1>9. faults' \in 0..opt.faults
  BY <1>1 DEF Inv
<1> QED BY <1>1, <1>2, <1>8, <1>9, PoolStep

LEMMA DisconnectInv ==
  ASSUME Inv, NEW o \in peers.pool, Disconnect(o)
  PROVE  Inv'
<1>1. /\ faults < opt.faults /\ faults' = faults + 1
      /\ peers' = [peers EXCEPT !.pool = @ \ {o}, !.lost = @ \cup {o}]
      /\ UNCHANGED <<opt, f, requests, pipe, stored>>
  BY DEF Disconnect
<1>2. peers' \in PeerPools
  BY <1>1, TurnFacts DEF PeerPools
<1> QED BY <1>1, <1>2, FaultFacts, PoolStep

LEMMA ReconnectInv ==
  ASSUME Inv, NEW o \in peers.bans, Reconnect(o)
  PROVE  Inv'
<1>1. /\ peers' = [peers EXCEPT !.bans = @ \ {o}, !.pool = IF @ = {} THEN {o} ELSE @]
      /\ UNCHANGED <<opt, f, requests, pipe, stored, faults>>
  BY DEF Reconnect
<1>2. peers' \in PeerPools
  <2>1. o \in Objects
    BY TurnFacts DEF PeerPools
  <2> DEFINE pool == IF peers.pool = {} THEN {o} ELSE peers.pool
  <2>2. pool \in SUBSET Objects /\ \A a, b \in pool : a[1] = b[1] => a = b
    BY <2>1, TurnFacts DEF PeerPools
  <2>3. peers' = [peers EXCEPT !.bans = @ \ {o}, !.pool = pool]
    BY <1>1
  <2> HIDE DEF pool
  <2> QED BY <2>2, <2>3, TurnFacts DEF PeerPools
<1>3. faults' \in 0..opt.faults
  BY <1>1 DEF Inv
<1> QED BY <1>1, <1>2, <1>3, PoolStep

LEMMA LoopInv ==
  ASSUME Inv, Loop
  PROVE  Inv'
<1>1. f.running /\ Goes({Turn}) /\ UNCHANGED <<opt, stored, faults>>
  BY DEF Loop
<1>2. Balanced(Turn) /\ Turn.f.running
  BY <1>1, TurnFacts DEF Inv
<1>3. PICK u : Balanced(u) /\ Becomes(u)
  BY <1>1, <1>2, TurnFacts, GoesFacts
<1> QED BY <1>1, <1>3, BecomesFacts DEF Inv

-----------------------------------------------------------------------------
(* The writer.                                                               *)

LEMMA EmptyPipeFacts ==
  ASSUME opt \in Configs
  PROVE  EmptyPipe \in Pipes(opt) /\ Line(EmptyPipe) = <<>>
<1>1. <<>> \in Seq(Results(opt)) /\ Len(<<>>) = 0 /\ <<>> \o <<>> = <<>>
  BY ConcatEmptySeq
<1>2. Len(<<>>) + Len(<<>>) < opt.highWaterMark
  BY <1>1, ConfigFacts
<1> QED BY <1>1, <1>2 DEF EmptyPipe, Pipes, Line

LEMMA ClearedFacts ==
  ASSUME opt \in Configs, NEW s \in Writing(opt)
  PROVE  Balanced(Cleared(s))
<1> DEFINE late == {[r EXCEPT !.state = "orphan"] : r \in s.requests}
           t1 == [s EXCEPT !.f.running = FALSE]
           t2 == [t1 EXCEPT !.f.in = {}]
           t3 == [t2 EXCEPT !.f.out = {}]
           t4 == [t3 EXCEPT !.pipe = EmptyPipe]
           t5 == [t4 EXCEPT !.requests = late]
<1>1. late \subseteq Asked(opt) /\ ActiveOf(late) = {}
  <2>1. ASSUME NEW r \in s.requests
        PROVE  /\ [r EXCEPT !.state = "orphan"] \in Asked(opt)
               /\ [r EXCEPT !.state = "orphan"].state = "orphan"
    BY DEF Writing, Asked
  <2> QED BY <2>1 DEF ActiveOf
<1>2. Cleared(s) = t5
  BY DEF Cleared
<1> HIDE DEF late
<1>3. t1 \in Writing(opt) /\ ~t1.f.running
  BY DEF Writing, Fetchers
<1> HIDE DEF t1
<1>4. t2 \in Writing(opt) /\ ~t2.f.running /\ t2.f.in = {}
  BY <1>3 DEF Writing, Fetchers
<1> HIDE DEF t2
<1>5. t3 \in Writing(opt) /\ ~t3.f.running /\ t3.f.in = {} /\ t3.f.out = {}
  BY <1>4 DEF Writing, Fetchers
<1> HIDE DEF t3
<1>6. t4 \in States(opt) /\ t4.f = t3.f /\ t4.pipe = EmptyPipe
  BY <1>5, EmptyPipeFacts DEF Writing, States
<1> HIDE DEF t4
<1>7. t5 \in States(opt) /\ t5.f = t3.f /\ t5.pipe = EmptyPipe /\ t5.requests = late
  BY <1>1, <1>6 DEF States
<1> HIDE DEF t5
<1>8. Accounted(t5.f, t5.requests, Line(t5.pipe))
  BY <1>1, <1>5, <1>7, EmptyPipeFacts DEF Accounted, Nowhere
<1> QED BY <1>2, <1>7, <1>8 DEF Balanced

LEMMA WriterFacts ==
  ASSUME Inv, pipe.batch # <<>>
  PROVE  LET rest == pipe.buffer \o pipe.readable
         IN  /\ pipe.batch \in Seq(Results(opt)) /\ rest \in Seq(Results(opt))
             /\ Line(pipe) = pipe.batch \o rest
             /\ Accounted(f, requests, pipe.batch \o rest)
             /\ Len(pipe.batch) \in Nat /\ pipe.done \in Nat /\ pipe.done < Len(pipe.batch)
             /\ Storing \in Results(opt) /\ pipe.batch[1] \in Results(opt)
<1> DEFINE R == Results(opt)
           b == pipe.batch
           c == pipe.buffer
           d == pipe.readable
<1>1. /\ b \in Seq(R) /\ c \in Seq(R) /\ d \in Seq(R)
      /\ pipe.done \in Nat /\ pipe.done < Len(b)
  BY TurnFacts, PipeFacts
<1>2. Line(pipe) = (b \o c) \o d
  BY DEF Line
<1>3. Accounted(f, requests, Line(pipe))
  BY TurnFacts
<1>4. pipe.done + 1 \in 1..Len(b) /\ 1 \in 1..Len(b) /\ Len(b) \in Nat
  BY <1>1, LenProperties
<1>5. Storing \in R /\ b[1] \in R
  BY <1>1, <1>4, ElementOfSeq DEF Storing
<1> HIDE DEF R, b, c, d
<1>6. c \o d \in Seq(R) /\ (b \o c) \o d = b \o (c \o d)
  BY <1>1, ThreeSeqs
<1>7. Accounted(f, requests, b \o (c \o d))
  BY <1>2, <1>3, <1>6
<1> QED BY <1>1, <1>2, <1>4, <1>5, <1>6, <1>7 DEF R, b, c, d

LEMMA StoreInv ==
  ASSUME Inv, Store
  PROVE  Inv'
<1> DEFINE s == [Turn EXCEPT !.pipe.done = @ + 1]
           n == Len(pipe.batch)
           rest == pipe.buffer \o pipe.readable
           more == [s EXCEPT !.f.finished = @ + n]
<1>1. /\ pipe.batch # <<>> /\ UNCHANGED <<opt, faults>>
      /\ stored' = stored \cup Storing.first..(Storing.first + Storing.count - 1)
      /\ Becomes(IF opt.target \in stored' THEN Cleared(s)
                 ELSE IF pipe.done + 1 < n THEN s ELSE BatchDone(more))
  BY DEF Store
<1>2. /\ pipe.batch \in Seq(Results(opt)) /\ rest \in Seq(Results(opt))
      /\ Line(pipe) = pipe.batch \o rest /\ Accounted(f, requests, pipe.batch \o rest)
      /\ n \in Nat /\ pipe.done \in Nat /\ pipe.done < n /\ Storing \in Results(opt)
  BY <1>1, WriterFacts
<1>3. stored' \subseteq 0..opt.target
  <2>1. /\ Storing.first \in Nat /\ Storing.count \in Nat /\ Storing.first >= 1
        /\ Storing.first + Storing.count <= opt.target + 1 /\ opt.target \in Nat
    BY <1>2, TurnFacts, ConfigFacts DEF Results, Spanned
  <2>2. Storing.first..(Storing.first + Storing.count - 1) \subseteq 0..opt.target
    BY <2>1
  <2> QED BY <1>1, <2>2 DEF Inv
<1>4. /\ s.pipe = [pipe EXCEPT !.done = @ + 1] /\ s.f = f /\ s.requests = requests
      /\ s \in Writing(opt)
  <2>1. [pipe EXCEPT !.done = @ + 1] \in Streams(opt)
    <3> DEFINE k == pipe.done + 1
    <3>1. pipe \in Streams(opt)
      BY TurnFacts DEF Pipes, Streams
    <3>2. k \in Nat
      BY <1>2
    <3> HIDE DEF k
    <3>3. [pipe EXCEPT !.done = k] \in Streams(opt)
      BY <3>1, <3>2 DEF Streams
    <3> QED BY <3>3 DEF k
  <2> QED BY <2>1, TurnFacts DEF Turn, Writing
<1> HIDE DEF s
<1>5. CASE opt.target \in stored'
  <2>1. Balanced(Cleared(s))
    BY <1>4, TurnFacts, ClearedFacts
  <2> QED BY <1>1, <1>3, <1>5, <2>1, BecomesFacts DEF Inv
<1>6. CASE opt.target \notin stored' /\ pipe.done + 1 < n
  <2>1. s.pipe \in Pipes(opt) /\ Line(s.pipe) = Line(pipe)
    <3>1. /\ s.pipe.batch = pipe.batch /\ s.pipe.buffer = pipe.buffer
          /\ s.pipe.readable = pipe.readable /\ s.pipe.done = pipe.done + 1
      BY <1>4, TurnFacts DEF Pipes
    <3>2. s.pipe \in Streams(opt)
      BY <1>4 DEF Writing
    <3> QED BY <1>1, <1>6, <3>1, <3>2 DEF Pipes, Streams, Line
  <2>2. Balanced(s)
    BY <1>4, <2>1, TurnFacts DEF Balanced, Writing, States
  <2> QED BY <1>1, <1>3, <1>6, <2>2, BecomesFacts DEF Inv
<1>7. CASE opt.target \notin stored' /\ ~(pipe.done + 1 < n)
  <2>1. \A y : y = [f EXCEPT !.finished = @ + n] =>
          y \in Fetchers(opt) /\ Accounted(y, requests, rest)
    <3> DEFINE b == pipe.batch
    <3>1. /\ opt \in Configs /\ f \in Fetchers(opt) /\ requests \subseteq Asked(opt)
          /\ b \in Seq(Results(opt)) /\ rest \in Seq(Results(opt)) /\ b # <<>>
          /\ Accounted(f, requests, b \o rest) /\ n = Len(b)
      BY <1>1, <1>2, TurnFacts
    <3> HIDE DEF b, rest, n
    <3>2. \A y : y = [f EXCEPT !.finished = @ + Len(b)] =>
            y \in Fetchers(opt) /\ Accounted(y, requests, rest)
      BY <3>1, FinishedAccounted
    <3> QED BY <3>1, <3>2
  <2>2. /\ more.f = [f EXCEPT !.finished = @ + n] /\ more.requests = requests
        /\ more.pipe = s.pipe
    BY <1>4 DEF Writing, Fetchers
  <2>3. more \in Writing(opt)
    <3>1. f.finished + n \in Nat
      BY <1>2, TurnFacts DEF Fetchers
    <3> HIDE DEF n
    <3> QED BY <1>4, <3>1 DEF Writing, Fetchers
  <2>4. /\ s.pipe.batch = pipe.batch /\ s.pipe.buffer = pipe.buffer
        /\ s.pipe.readable = pipe.readable
    BY <1>4, TurnFacts DEF Pipes
  <2> HIDE DEF more
  <2>5. Accounted(more.f, more.requests, more.pipe.buffer \o more.pipe.readable)
    BY <2>1, <2>2, <2>4
  <2>6. Balanced(BatchDone(more))
    BY <1>1, <2>2, <2>3, <2>4, <2>5, TurnFacts, BatchDoneFacts
  <2> QED BY <1>1, <1>3, <1>7, <2>6, BecomesFacts DEF Inv
<1> QED BY <1>5, <1>6, <1>7

(* Stepping back moves the start and leaves the end.                         *)
LEMMA SteppedBackSums ==
  ASSUME NEW first \in Nat, NEW count \in Nat, NEW back \in Nat, NEW end \in Nat,
         count >= 1, back <= first - 1, first + count <= end + 1
  PROVE  /\ first - back \in Nat /\ count + back \in Nat /\ first - back >= 1
         /\ count + back >= 1 /\ (first - back) + (count + back) <= end + 1
         /\ 0 < count + back
  OBVIOUS

LEMMA AgainFacts ==
  ASSUME opt \in Configs, NEW b \in Seq(Results(opt)), b # <<>>
  PROVE  /\ Again(b) \in SUBSET Jobs(opt)
         /\ Renews(Again(b), b)
<1> DEFINE job(i) == IF i = 1 THEN SteppedBack(b[1]) ELSE Job(b[i].index, b[i].first, b[i].count)
           g == [i \in 1..Len(b) |-> job(i)]
<1>1. DOMAIN b = 1..Len(b) /\ Len(b) \in Nat
  BY LenProperties
<1>2. ASSUME NEW j \in Results(opt)
      PROVE  /\ SteppedBack(j) \in Jobs(opt) /\ SteppedBack(j).index = j.index
             /\ Job(j.index, j.first, j.count) \in Jobs(opt)
             /\ Job(j.index, j.first, j.count).index = j.index
  <2> DEFINE back == Min({j.first - 1, safeReorgDistance})
  <2>1. /\ j.index \in Nat /\ j.first \in Nat /\ j.count \in Nat /\ j.first >= 1
        /\ j.count >= 1 /\ j.first + j.count <= opt.target + 1 /\ opt.target \in Nat
    BY ConfigFacts DEF Results, Spanned
  <2>2. back \in Nat /\ back <= j.first - 1
    <3>1. j.first - 1 \in Nat /\ safeReorgDistance \in Nat
      BY <2>1, ConfigFacts
    <3> QED BY <3>1, MinOfTwo
  <2>3. SteppedBack(j) = Job(j.index, j.first - back, j.count + back)
    BY DEF SteppedBack
  <2> HIDE DEF back
  <2>4. /\ j.first - back \in Nat /\ j.count + back \in Nat /\ j.first - back >= 1
        /\ j.count + back >= 1 /\ (j.first - back) + (j.count + back) <= opt.target + 1
        /\ 0 < j.count + back
    <3> DEFINE first == j.first
               count == j.count
               end == opt.target
    <3>1. /\ first \in Nat /\ count \in Nat /\ end \in Nat
          /\ count >= 1 /\ back <= first - 1 /\ first + count <= end + 1
      BY <2>1, <2>2
    <3> HIDE DEF first, count, end
    <3>2. /\ first - back \in Nat /\ count + back \in Nat /\ first - back >= 1
          /\ count + back >= 1 /\ (first - back) + (count + back) <= end + 1
          /\ 0 < count + back
      BY <2>2, <3>1, SteppedBackSums
    <3> QED BY <3>2 DEF first, count, end
  <2>5. Job(j.index, j.first - back, j.count + back) \in Jobs(opt)
    BY <2>1, <2>4 DEF Job, Jobs, Spanned
  <2>6. Job(j.index, j.first, j.count) \in Jobs(opt)
    BY <2>1 DEF Job, Jobs, Spanned
  <2> QED BY <2>3, <2>5, <2>6 DEF Job
<1>3. ASSUME NEW i \in 1..Len(b) PROVE job(i) \in Jobs(opt) /\ job(i).index = b[i].index
  <2>1. b[i] \in Results(opt)
    BY ElementOfSeq
  <2> QED BY <1>2, <2>1
<1> HIDE DEF job
<1>4. Again(b) = {job(i) : i \in 1..Len(b)}
  BY <1>1 DEF Again, job
<1>5. g \in [1..Len(b) -> Again(b)]
  BY <1>4
<1>6. \A j \in Again(b) : \E i \in 1..Len(b) : j = g[i]
  BY <1>4
<1>7. \A i \in 1..Len(b) : g[i].index = b[i].index
  BY <1>3
<1> HIDE DEF g
<1> QED BY <1>3, <1>4, <1>5, <1>6, <1>7 DEF Renews

LEMMA StoreUnlinkedInv ==
  ASSUME Inv, StoreUnlinked
  PROVE  Inv'
<1> DEFINE b == pipe.batch
           o == b[1].peer
           u == Rests(Turn, o)
           v == [u EXCEPT !.f.processed = @ - Len(b)]
           s == Requeued(v, Again(b))
           rest == pipe.buffer \o pipe.readable
           y == [f EXCEPT !.processed = @ - Len(b), !.in = @ \cup Again(b)]
<1>1. /\ b # <<>> /\ UNCHANGED <<opt, stored, faults>>
      /\ \E t \in NextJob(s) : Becomes(BatchDone(t))
  BY DEF StoreUnlinked
<1>2. /\ b \in Seq(Results(opt)) /\ rest \in Seq(Results(opt))
      /\ Accounted(f, requests, b \o rest) /\ o \in Objects
  BY <1>1, WriterFacts DEF Results
<1> HIDE DEF o, rest
<1>3. f.running /\ y \in Fetchers(opt) /\ Accounted(y, requests, rest)
  <2> DEFINE again == Again(b)
  <2>1. again \in SUBSET Jobs(opt) /\ Renews(again, b)
    BY <1>1, <1>2, TurnFacts, AgainFacts
  <2>2. /\ opt \in Configs /\ f \in Fetchers(opt) /\ requests \subseteq Asked(opt)
        /\ b \in Seq(Results(opt)) /\ rest \in Seq(Results(opt)) /\ b # <<>>
        /\ Accounted(f, requests, b \o rest)
    BY <1>1, <1>2, TurnFacts
  <2>3. y = [f EXCEPT !.processed = @ - Len(b), !.in = @ \cup again]
    OBVIOUS
  <2> HIDE DEF again, b, y
  <2> QED BY <2>1, <2>2, <2>3, AgainAccounted
<1>4. u \in States(opt) /\ u.f = f /\ u.requests = requests /\ u.pipe = pipe
  BY <1>2, TurnFacts, PeerMoves
<1> HIDE DEF u
<1>5. /\ v = [u EXCEPT !.f = [f EXCEPT !.processed = @ - Len(b)]]
  BY <1>4 DEF States
<1>6. s = [u EXCEPT !.f = y]
  <2> DEFINE e == [f EXCEPT !.processed = @ - Len(b)]
  <2>1. v.f = e
    BY <1>4, <1>5 DEF States
  <2>2. e.running
    BY <1>3, TurnFacts DEF Fetchers
  <2>3. Enqueue(e, Again(b)) = [e EXCEPT !.in = @ \cup Again(b)]
    BY <2>2 DEF Enqueue
  <2>4. [e EXCEPT !.in = @ \cup Again(b)] = y
    BY TurnFacts DEF Fetchers
  <2>5. s = [v EXCEPT !.f = y]
    BY <2>1, <2>3, <2>4 DEF Requeued
  <2> HIDE DEF y, e, s
  <2>6. v = [u EXCEPT !.f = e]
    BY <1>5 DEF e
  <2> HIDE DEF v
  <2> QED BY <1>4, <2>5, <2>6 DEF States
<1> HIDE DEF s, v, y
<1>7. s \in States(opt) /\ s.f = y /\ s.requests = requests /\ s.pipe = pipe
  BY <1>3, <1>4, <1>6 DEF States
<1>8. y.running
  BY <1>3, TurnFacts DEF y, Fetchers
<1>9. PICK t \in NextJob(s) : Becomes(BatchDone(t))
  BY <1>1
<1>10. t \in States(opt) /\ Accounted(t.f, t.requests, rest) /\ t.pipe = pipe
  BY <1>2, <1>3, <1>7, <1>8, <1>9, TurnFacts, NextJobFacts
<1>11. t \in Writing(opt)
  BY <1>10, StatesWriting
<1>12. Balanced(BatchDone(t))
  BY <1>1, <1>10, <1>11, TurnFacts, BatchDoneFacts DEF rest
<1> QED BY <1>1, <1>9, <1>12, BecomesFacts DEF Inv

LEMMA StoreThrowsInv ==
  ASSUME Inv, StoreThrows
  PROVE  Inv'
<1>1. /\ faults < opt.faults /\ faults' = faults + 1 /\ Becomes(Cleared(Turn))
      /\ UNCHANGED <<opt, stored>>
  BY DEF StoreThrows
<1>2. Balanced(Cleared(Turn))
  BY TurnFacts, StatesWriting, ClearedFacts
<1> QED BY <1>1, <1>2, BecomesFacts, FaultFacts DEF Inv

-----------------------------------------------------------------------------
(* A new fetcher.                                                            *)

LEMMA StartFacts ==
  ASSUME opt \in Configs, stored \subseteq 0..opt.target
  PROVE  Start \in Nat /\ Start >= 1
<1>1. Height \in Nat
  <2> DEFINE S == {opt.local} \cup stored
             n == opt.local + opt.target
  <2>1. opt.local \in Nat /\ opt.target \in Nat /\ n \in Nat
    BY ConfigFacts
  <2>2. \A k \in stored : k \in Nat /\ k <= opt.target
    BY <2>1
  <2>3. opt.local <= n /\ \A k \in Nat : k <= opt.target => k <= n
    BY <2>1
  <2>4. S \subseteq Nat /\ S # {}
    BY <2>1, <2>2
  <2> HIDE DEF n
  <2>5. \A k \in S : k <= n
    BY <2>1, <2>2, <2>3
  <2> HIDE DEF S
  <2>6. Max(S) \in S
    BY <2>1, <2>4, <2>5, MaxFacts
  <2>7. Height = Max(S)
    BY DEF Height, S
  <2> QED BY <2>4, <2>6, <2>7
<1>2. CASE Height < safeReorgDistance
  BY <1>2 DEF Start
<1>3. CASE ~(Height < safeReorgDistance)
  <2> DEFINE k == Height + 1 - safeReorgDistance
             S == {1, k}
  <2>1. k \in Nat
    BY <1>1, <1>3, ConfigFacts
  <2>2. Start = Max(S)
    BY <1>3 DEF Start
  <2> HIDE DEF k
  <2>3. S \subseteq Nat /\ S # {} /\ k + 1 \in Nat /\ \A i \in S : i <= k + 1
    BY <2>1
  <2>4. 1 \in S
    OBVIOUS
  <2> HIDE DEF S
  <2>5. Max(S) \in S /\ \A i \in S : i <= Max(S)
    BY <2>3, MaxFacts
  <2> QED BY <2>2, <2>3, <2>4, <2>5
<1> QED BY <1>2, <1>3

LEMMA NewFetcherFacts ==
  ASSUME opt \in Configs, NEW first \in Nat, first >= 1, first <= opt.target,
         NEW reqs, ActiveOf(reqs) = {}
  PROVE  /\ NewFetcher(first) \in Fetchers(opt)
         /\ Accounted(NewFetcher(first), reqs, <<>>)
<1> DEFINE x == NewFetcher(first)
<1>1. /\ x.running = TRUE /\ x.total = 0 /\ x.processed = 0 /\ x.finished = 0
      /\ x.in = {} /\ x.out = {}
  BY DEF NewFetcher
<1>2. x \in Fetchers(opt)
  <2>1. opt.target \in Nat
    BY ConfigFacts
  <2>2. opt.target + 1 - first \in Nat /\ first + (opt.target + 1 - first) = opt.target + 1
    BY <2>1
  <2> QED BY <2>2 DEF NewFetcher, Fetchers
<1> HIDE DEF x
<1>3. Cardinality({}) = 0 /\ IsFiniteSet({}) /\ Len(<<>>) = 0
  BY FS_EmptySet
<1>4. Apart(x, reqs, <<>>)
  BY <1>1, <1>3 DEF Apart, DistinctJobs
<1>5. Counted(x, reqs, <<>>)
  BY <1>1, <1>3 DEF Counted
<1> QED BY <1>1, <1>2, <1>4, <1>5 DEF Accounted, x

LEMMA ResyncInv ==
  ASSUME Inv, Resync
  PROVE  Inv'
<1>1. /\ ~f.running /\ Start <= opt.target /\ f' = NewFetcher(Start) /\ pipe' = EmptyPipe
      /\ UNCHANGED <<opt, requests, peers, stored, faults>>
  BY DEF Resync
<1>2. ActiveOf(requests) = {}
  BY <1>1, TurnFacts DEF Accounted, Nowhere
<1>3. Start \in Nat /\ Start >= 1
  BY StartFacts DEF Inv
<1>4. f' \in Fetchers(opt) /\ Accounted(f', requests, <<>>)
  BY <1>1, <1>2, <1>3, TurnFacts, NewFetcherFacts
<1>5. pipe' \in Pipes(opt) /\ Line(pipe') = <<>>
  BY <1>1, TurnFacts, EmptyPipeFacts
<1>6. /\ Turn' \in States(opt) /\ Turn'.f = f' /\ Turn'.requests = requests
      /\ Turn'.pipe = pipe'
  BY <1>1, <1>4, <1>5, TurnFacts DEF Turn, States
<1>7. Balanced(Turn)'
  BY <1>1, <1>4, <1>5, <1>6 DEF Balanced
<1> QED BY <1>1, <1>7 DEF Inv

LEMMA InitInv ==
  ASSUME Init
  PROVE  Inv
<1>1. /\ opt \in Configs /\ stored = 0..opt.common /\ Start <= opt.target
      /\ f = NewFetcher(Start) /\ requests = {} /\ pipe = EmptyPipe /\ faults = 0
      /\ peers = [pool |-> {}, idle |-> {}, resting |-> {}, lost |-> {}, bans |-> {},
                  gen |-> [p \in Peers |-> 0]]
  BY DEF Init
<1>2. stored \subseteq 0..opt.target /\ faults \in 0..opt.faults
  BY <1>1, ConfigFacts
<1>3. Start \in Nat /\ Start >= 1
  BY <1>1, <1>2, StartFacts
<1>4. ActiveOf(requests) = {}
  BY <1>1 DEF ActiveOf
<1>5. f \in Fetchers(opt) /\ Accounted(f, requests, <<>>)
  BY <1>1, <1>3, <1>4, NewFetcherFacts
<1>6. pipe \in Pipes(opt) /\ Line(pipe) = <<>>
  BY <1>1, EmptyPipeFacts
<1>7. peers \in PeerPools
  BY <1>1 DEF PeerPools
<1>8. Turn \in States(opt) /\ Turn.f = f /\ Turn.requests = requests /\ Turn.pipe = pipe
  BY <1>1, <1>5, <1>6, <1>7 DEF Turn, States
<1>9. Balanced(Turn)
  BY <1>5, <1>6, <1>8 DEF Balanced
<1> QED BY <1>1, <1>2, <1>9 DEF Inv

LEMMA NextInv ==
  ASSUME Inv, [Next]_vars
  PROVE  Inv'
<1>1. CASE \E r \in requests : Answer(r)
  <2>1. PICK r \in requests : Answer(r)
    BY <1>1
  <2> QED BY <2>1, CompleteInv, PartialInv, UnexpectedInv, NothingInv, AbandonedInv,
             ExpireInv DEF Answer
<1>2. CASE \E o \in peers.resting : Rested(o)
  BY <1>2, RestedInv
<1>3. CASE \E p \in Peers : Connect(p)
  BY <1>3, ConnectInv
<1>4. CASE \E o \in peers.pool : Disconnect(o)
  BY <1>4, DisconnectInv
<1>5. CASE \E o \in peers.bans : Reconnect(o)
  BY <1>5, ReconnectInv
<1>6. CASE Writer
  BY <1>6, StoreInv, StoreUnlinkedInv, StoreThrowsInv DEF Writer
<1>7. CASE Loop
  BY <1>7, LoopInv
<1>8. CASE Resync
  BY <1>8, ResyncInv
<1>9. CASE UNCHANGED vars
  <2>1. UNCHANGED <<opt, f, requests, pipe, stored>> /\ peers' = peers /\ faults' = faults
    BY <1>9 DEF vars
  <2>2. peers' \in PeerPools /\ faults' \in 0..opt.faults
    BY <2>1, TurnFacts DEF Inv
  <2> QED BY <2>1, <2>2, PoolStep
<1> QED BY <1>1, <1>2, <1>3, <1>4, <1>5, <1>6, <1>7, <1>8, <1>9 DEF Next

LEMMA InvAlways == Spec => []Inv
<1>1. Init => Inv
  BY InitInv
<1>2. Inv /\ [Next]_vars => Inv'
  BY NextInv
<1> QED BY <1>1, <1>2, PTL DEF Spec

(* The variables keep their types in every reachable state: the counters of  *)
(* the fetcher stay naturals (`processed' is lowered when a batch is asked   *)
(* for again, but never below zero), a queued job has a part left to ask     *)
(* for, the pool has one object for each id, the writer is inside its batch, *)
(* and no block above the target is stored.                                  *)
THEOREM TypeCorrect == Spec => []TypeOK
<1>1. Inv => TypeOK
  <2> SUFFICES ASSUME Inv PROVE TypeOK
    OBVIOUS
  <2>1. /\ f.running \in BOOLEAN
        /\ {f.total, f.processed, f.finished, f.first, f.count} \subseteq Nat
        /\ \A j \in f.in : {j.index, j.first, j.count, j.got} \subseteq Nat /\ j.got < j.count
    BY TurnFacts DEF Fetchers, Jobs
  <2>2. \A r \in requests : r.peer \in Objects /\ r.state \in {"active", "orphan"}
    BY TurnFacts DEF Asked
  <2>3. /\ peers.pool \cup peers.idle \cup peers.resting \cup peers.bans \subseteq Objects
        /\ \A a, b \in peers.pool : a[1] = b[1] => a = b
    BY TurnFacts DEF PeerPools
  <2>4. pipe.done \in 0..Len(pipe.batch)
    <3>1. pipe \in Pipes(opt) /\ pipe.batch \in Seq(Results(opt)) /\ pipe.done \in Nat
      BY TurnFacts, PipeFacts
    <3>2. Len(pipe.batch) \in Nat
      BY <3>1, LenProperties
    <3>3. \/ pipe.batch = <<>> /\ pipe.done = 0
          \/ pipe.done < Len(pipe.batch)
      <4>1. /\ pipe.batch = <<>> => pipe.done = 0
            /\ pipe.batch # <<>> => pipe.done < Len(pipe.batch)
        BY TurnFacts DEF Pipes
      <4> QED BY <4>1
    <3> QED BY <3>1, <3>2, <3>3
  <2> QED BY <2>1, <2>2, <2>3, <2>4 DEF Inv, TypeOK
<1> QED BY <1>1, InvAlways, PTL

-----------------------------------------------------------------------------
(* From the accounts to the sets of the property.                            *)

LEMMA ImageCount ==
  ASSUME NEW S, NEW T, IsFiniteSet(S), NEW g \in [S -> T], \A t \in T : \E s \in S : t = g[s],
         \A s, u \in S : g[s] = g[u] => s = u
  PROVE  IsFiniteSet(T) /\ Cardinality(T) = Cardinality(S)
<1>1. g \in Bijection(S, T)
  BY DEF Bijection, Injection, Surjection, IsInjective
<1>2. ExistsBijection(S, T)
  BY <1>1 DEF ExistsBijection
<1> QED BY <1>2, FS_Bijection

LEMMA DisjointCount ==
  ASSUME NEW S, NEW T, IsFiniteSet(S), IsFiniteSet(T), S \cap T = {}
  PROVE  IsFiniteSet(S \cup T) /\ Cardinality(S \cup T) = Cardinality(S) + Cardinality(T)
<1>1. Cardinality(S \cap T) = 0
  BY FS_EmptySet
<1>2. /\ IsFiniteSet(S \cup T)
      /\ Cardinality(S \cup T) = Cardinality(S) + Cardinality(T) - Cardinality(S \cap T)
  BY FS_Union
<1>3. Cardinality(S) \in Nat /\ Cardinality(T) \in Nat
  BY FS_CardinalityType
<1> QED BY <1>1, <1>2, <1>3

(* In every reachable state of a running fetcher each job is in one place,   *)
(* exactly once: in the queue, in a request that is still waited for, among  *)
(* the done jobs, or on its way to the writer; and with the finished ones    *)
(* they are all the jobs cut so far.  So an expired, empty, partial or       *)
(* unlinked result never makes a second copy of a job, none is lost, and     *)
(* `finished = total' stops the fetcher exactly when all is written.         *)
THEOREM JobsAreAccounted == Spec => []JobsAccounted
<1>1. Inv => JobsAccounted
  <2> SUFFICES ASSUME Inv, f.running PROVE JobsAccounted
    BY DEF JobsAccounted
  <2> DEFINE A == ActiveOf(requests)
             line == Line(pipe)
             queued == {j.index : j \in f.in}
             asked == {r.job.index : r \in A}
             done == {j.index : j \in f.out}
             written == {line[i].index : i \in 1..Len(line)}
             nq == Cardinality(f.in)
             na == Cardinality(A)
             nd == Cardinality(f.out)
             nw == Len(line)
  <2>1. /\ f \in Fetchers(opt) /\ line \in Seq(Results(opt)) /\ requests \subseteq Asked(opt)
        /\ Apart(f, requests, line) /\ Counted(f, requests, line)
    BY TurnFacts DEF Accounted
  <2>2. /\ nq \in Nat /\ na \in Nat /\ nd \in Nat /\ nw \in Nat
        /\ f.total \in Nat /\ f.finished \in Nat /\ f.processed \in Nat
    BY <2>1, TurnFacts, CountFacts DEF Numbers
  <2>3. DOMAIN line = 1..nw
    BY <2>1, LenProperties
  <2>4. IsFiniteSet(queued) /\ Cardinality(queued) = nq
    <3> DEFINE g == [j \in f.in |-> j.index]
    <3>1. g \in [f.in -> queued] /\ \A t \in queued : \E s \in f.in : t = g[s]
      OBVIOUS
    <3>2. IsFiniteSet(f.in) /\ \A s, u \in f.in : g[s] = g[u] => s = u
      BY <2>1 DEF Apart, DistinctJobs
    <3> HIDE DEF g, queued
    <3> QED BY <3>1, <3>2, ImageCount
  <2>5. IsFiniteSet(done) /\ Cardinality(done) = nd
    <3> DEFINE g == [j \in f.out |-> j.index]
    <3>1. g \in [f.out -> done] /\ \A t \in done : \E s \in f.out : t = g[s]
      OBVIOUS
    <3>2. IsFiniteSet(f.out) /\ \A s, u \in f.out : g[s] = g[u] => s = u
      BY <2>1 DEF Apart, DistinctJobs
    <3> HIDE DEF g, done
    <3> QED BY <3>1, <3>2, ImageCount
  <2>6. IsFiniteSet(asked) /\ Cardinality(asked) = na
    <3> DEFINE g == [r \in A |-> r.job.index]
    <3>1. g \in [A -> asked] /\ \A t \in asked : \E s \in A : t = g[s]
      OBVIOUS
    <3>2. IsFiniteSet(A) /\ \A s, u \in A : g[s] = g[u] => s = u
      BY <2>1 DEF Apart
    <3> HIDE DEF g, asked, A
    <3>3. IsFiniteSet(asked) /\ Cardinality(asked) = Cardinality(A)
      BY <3>1, <3>2, ImageCount
    <3> QED BY <3>3
  <2>7. IsFiniteSet(written) /\ Cardinality(written) = nw
    <3> DEFINE g == [i \in 1..nw |-> line[i].index]
    <3>1. g \in [1..nw -> written] /\ \A t \in written : \E s \in 1..nw : t = g[s]
      OBVIOUS
    <3>2. \A s, u \in 1..nw : g[s] = g[u] => s = u
      BY <2>1 DEF Apart
    <3> HIDE DEF g, written, nw
    <3>3. IsFiniteSet(1..nw) /\ Cardinality(1..nw) = nw
      BY <2>2, IntervalFacts
    <3>4. IsFiniteSet(written) /\ Cardinality(written) = Cardinality(1..nw)
      BY <3>1, <3>2, <3>3, ImageCount
    <3> QED BY <3>3, <3>4
  <2>8. /\ queued \cap asked = {} /\ (queued \cup asked) \cap done = {}
        /\ (queued \cup asked \cup done) \cap written = {}
    BY <2>1 DEF Apart
  <2>9. queued \cup asked \cup done \cup written \subseteq 0..(f.total - 1)
    <3>1. /\ \A j \in f.in : j.index \in Nat /\ j.index < f.total
          /\ \A r \in A : r.job.index \in Nat /\ r.job.index < f.total
          /\ \A k \in f.out : k.index \in Nat /\ k.index < f.total
          /\ \A i \in 1..nw : line[i].index \in Nat /\ line[i].index < f.total
      <4>1. \A i \in 1..nw : line[i] \in Results(opt)
        BY <2>1, ElementOfSeq
      <4> QED BY <2>1, <4>1 DEF Apart, Fetchers, Jobs, Results, Asked, ActiveOf
    <3>2. \A m \in Nat : m < f.total => m \in 0..(f.total - 1)
      BY <2>2
    <3> QED BY <3>1, <3>2
  <2>10. /\ f.finished + nq + na + nd + nw = f.total
         /\ f.processed = f.finished + nw
    BY <2>1 DEF Counted
  <2>11. /\ Active = A /\ Piped = line
    BY DEF Active, ActiveOf, Piped, Line
  <2> HIDE DEF queued, asked, done, written, nq, na, nd, nw, A, line
  <2>12. Cardinality(queued \cup asked \cup done \cup written) = nq + na + nd + nw
    <3>1. /\ IsFiniteSet(queued \cup asked)
          /\ Cardinality(queued \cup asked) = nq + na
      BY <2>4, <2>6, <2>8, DisjointCount
    <3>2. /\ IsFiniteSet(queued \cup asked \cup done)
          /\ Cardinality(queued \cup asked \cup done) = (nq + na) + nd
      BY <2>5, <2>8, <3>1, DisjointCount
    <3>3. Cardinality(queued \cup asked \cup done \cup written) = ((nq + na) + nd) + nw
      BY <2>7, <2>8, <3>2, DisjointCount
    <3> QED BY <3>3
  <2>13. f.finished + (nq + na + nd + nw) = f.total
    <3> DEFINE fin == f.finished
               total == f.total
    <3>1. fin \in Nat /\ fin + nq + na + nd + nw = total
      BY <2>2, <2>10
    <3> HIDE DEF fin, total
    <3>2. fin + (nq + na + nd + nw) = total
      BY <2>2, <3>1
    <3> QED BY <3>2 DEF fin, total
  <2>14. {Piped[i].index : i \in DOMAIN Piped} = written
    BY <2>3, <2>11 DEF written, nw
  <2>15. {r.job.index : r \in Active} = asked
    BY <2>11 DEF asked
  <2> QED BY <2>9, <2>10, <2>11, <2>12, <2>13, <2>14, <2>15
          DEF JobsAccounted, queued, done, nq, na, nd, nw
<1> QED BY <1>1, InvAlways, PTL

-----------------------------------------------------------------------------
(* The order of the results: the job of index k starts at At(s, k), where s  *)
(* is the first block this fetcher asks for.                                 *)

At(s, k) == s + k * maxPerRequest

Placed(j, s) ==
  j.first = At(s, j.index) /\ (j.count = maxPerRequest \/ j.first + j.count = opt.target + 1)

(* The jobs that have not been sent to the writer.                           *)
Ahead(x, reqs) == x.in \cup x.out \cup {r.job : r \in ActiveOf(reqs)}

Ordered(x, reqs, line, s) ==
  /\ \A j \in Ahead(x, reqs) : Placed(j, s) /\ j.index >= x.processed
  /\ \A i \in 1..Len(line) : Placed(line[i], s) /\ line[i].index = x.finished + i - 1
  /\ x.count # 0 => x.first = At(s, x.total)

LEMMA AtFacts ==
  ASSUME opt \in Configs, NEW s \in Nat, NEW k \in Nat, NEW n \in Nat
  PROVE  /\ At(s, k) \in Nat /\ At(s, k) >= s
         /\ At(s, k + n) = At(s, k) + n * maxPerRequest
         /\ At(s, k + 1) = At(s, k) + maxPerRequest
<1> DEFINE m == maxPerRequest
           p == k * m
           q == n * m
<1>1. m \in Nat
  BY ConfigFacts
<1> HIDE DEF m
<1>2. p \in Nat /\ q \in Nat
  BY <1>1
<1>3. (k + n) * m = p + q /\ (k + 1) * m = p + m
  BY <1>1
<1> HIDE DEF p, q
<1>4. At(s, k) = s + p /\ At(s, k + n) = s + (p + q) /\ At(s, k + 1) = s + (p + m)
  BY <1>3 DEF At, m, p
<1>5. n * maxPerRequest = q
  BY DEF m, q
<1> QED BY <1>1, <1>2, <1>4, <1>5 DEF m

(* ceil(count / max) tasks take everything.                                  *)
LEMMA CeilingCovers ==
  ASSUME NEW c \in Nat, NEW m \in Nat \ {0}
  PROVE  (c + m - 1) \div m \in Nat /\ c <= ((c + m - 1) \div m) * m
<1> DEFINE a == c + m - 1
           d == a \div m
<1>1. a \in Nat
  OBVIOUS
<1> HIDE DEF a
<1>2. a = m * d + (a % m) /\ a % m \in 0..(m - 1) /\ d \in Nat
  BY <1>1
<1> HIDE DEF d
<1>3. m * d = d * m /\ m * d \in Nat
  BY <1>2
<1>4. c + m - 1 <= m * d + (m - 1)
  BY <1>2, <1>3 DEF a
<1> QED BY <1>2, <1>3, <1>4 DEF a, d

LEMMA TasksPlaced ==
  ASSUME opt \in Configs, NEW x \in Fetchers(opt), NEW s \in Nat, x.count # 0,
         x.first = At(s, x.total)
  PROVE  \A i \in 1..Len(Tasks(x)) : Placed(Tasks(x)[i], s)
<1> DEFINE n == Min({maxFetcherJobs, (x.count + maxPerRequest - 1) \div maxPerRequest})
           p(i) == (i - 1) * maxPerRequest
           take(i) == Min({maxPerRequest, x.count - p(i)})
           job(i) == Job(x.total + i - 1, x.first + p(i), take(i))
<1>1. /\ x.total \in Nat /\ x.first \in Nat /\ x.count \in Nat
      /\ x.first + x.count = opt.target + 1 /\ opt.target \in Nat
      /\ maxPerRequest \in Nat \ {0} /\ maxFetcherJobs \in Nat \ {0}
  BY ConfigFacts DEF Fetchers
<1>2. n \in Nat /\ n <= (x.count + maxPerRequest - 1) \div maxPerRequest
      /\ (x.count + maxPerRequest - 1) \div maxPerRequest \in Nat
  BY <1>1, CeilingCovers, MinOfTwo
<1>3. Tasks(x) = [i \in 1..n |-> job(i)]
  BY DEF Tasks
<1>4. ASSUME NEW i \in 1..n PROVE Placed(job(i), s)
  <2>1. i \in Nat \ {0} /\ i <= (x.count + maxPerRequest - 1) \div maxPerRequest
    BY <1>2
  <2>2. x.count - p(i) >= 1 /\ x.count - p(i) \in Nat /\ p(i) \in Nat
    BY <1>1, <2>1, CeilingLeaves
  <2>3. take(i) = maxPerRequest \/ take(i) = x.count - p(i)
    BY <1>1, <2>2, MinOfTwo
  <2>4. x.first + p(i) = At(s, x.total + i - 1)
    <3>1. i - 1 \in Nat /\ x.total + (i - 1) = x.total + i - 1
      BY <1>1, <2>1
    <3>2. \A k, m \in Nat : At(s, k + m) = At(s, k) + m * maxPerRequest
      BY AtFacts
    <3>3. At(s, x.total + (i - 1)) = At(s, x.total) + (i - 1) * maxPerRequest
      BY <1>1, <3>1, <3>2
    <3> QED BY <3>1, <3>3
  <2>5. job(i).index = x.total + i - 1 /\ job(i).first = x.first + p(i) /\ job(i).count = take(i)
    BY DEF Job
  <2> HIDE DEF take, p, job
  <2>6. take(i) = x.count - p(i) => (x.first + p(i)) + take(i) = opt.target + 1
    BY <1>1, <2>2
  <2> QED BY <2>3, <2>4, <2>5, <2>6 DEF Placed
<1> HIDE DEF n, job
<1>5. Len(Tasks(x)) = n
  BY <1>2, <1>3
<1> QED BY <1>3, <1>4, <1>5

LEMMA NextTasksOrdered ==
  ASSUME opt \in Configs, NEW x \in Fetchers(opt), NEW s \in Nat, NEW reqs, NEW line,
         x.processed <= x.total, Ordered(x, reqs, line, s)
  PROVE  /\ Ordered(NextTasks(x), reqs, line, s)
         /\ NextTasks(x).finished = x.finished
<1>1. CASE x.in # {} \/ x.count = 0
  BY <1>1 DEF NextTasks
<1>2. CASE ~(x.in # {} \/ x.count = 0)
  <2> DEFINE ts == Tasks(x)
             n == Len(ts)
             c == (x.count + maxPerRequest - 1) \div maxPerRequest
             all == maxFetcherJobs * maxPerRequest
             cut == Min({x.count, all})
             y == NextTasks(x)
  <2>1. /\ x.total \in Nat /\ x.processed \in Nat /\ x.first \in Nat /\ x.count \in Nat
        /\ maxPerRequest \in Nat \ {0} /\ maxFetcherJobs \in Nat \ {0} /\ all \in Nat
    BY ConfigFacts DEF Fetchers
  <2>2. x.first = At(s, x.total)
    BY <1>2 DEF Ordered
  <2>3. /\ n \in Nat /\ DOMAIN ts = 1..n
        /\ \A i \in 1..n : ts[i].index = x.total + i - 1 /\ Placed(ts[i], s)
    BY <1>2, <2>2, TasksFacts, TasksPlaced
  <2>4. c \in Nat /\ x.count <= c * maxPerRequest
    BY <2>1, CeilingCovers
  <2>5. n = Min({maxFetcherJobs, c})
    <3>1. Min({maxFetcherJobs, c}) \in Nat
      BY <2>1, <2>4, MinOfTwo
    <3> QED BY <3>1 DEF Tasks
  <2>6. /\ y.in = Range(ts) /\ y.out = x.out /\ y.processed = x.processed
        /\ y.finished = x.finished /\ y.total = x.total + n
        /\ y.first = x.first + cut /\ y.count = x.count - cut
    BY <1>2 DEF NextTasks, Fetchers
  <2>7. y.count # 0 => y.first = At(s, y.total)
    <3>1. cut = x.count \/ (cut = all /\ all <= x.count)
      BY <2>1, MinOfTwo
    <3>2. c <= maxFetcherJobs => c * maxPerRequest <= all
      <4> DEFINE m == maxPerRequest
                 k == maxFetcherJobs
      <4>1. m \in Nat /\ k \in Nat /\ c \in Nat
        BY <2>1, <2>4
      <4> HIDE DEF m, k, c
      <4>2. c <= k => c * m <= k * m
        BY <4>1
      <4> QED BY <4>2 DEF m, k
    <3>3. n = maxFetcherJobs \/ (n = c /\ c <= maxFetcherJobs)
      <4> HIDE DEF c, n
      <4> QED BY <2>1, <2>4, <2>5, MinOfTwo
    <3> DEFINE k == c * maxPerRequest
    <3>4. k \in Nat
      BY <2>1, <2>4
    <3> HIDE DEF cut, all, c, k
    <3>5. CASE cut = x.count
      BY <2>1, <2>6, <3>5
    <3>6. CASE cut # x.count
      <4>1. cut = all /\ n = maxFetcherJobs
        BY <2>1, <2>4, <3>1, <3>2, <3>3, <3>4, <3>6 DEF k
      <4>2. \A a, d \in Nat : At(s, a + d) = At(s, a) + d * maxPerRequest
        BY AtFacts
      <4>3. At(s, x.total + n) = At(s, x.total) + n * maxPerRequest
        BY <2>1, <2>3, <4>2
      <4> QED BY <2>2, <2>6, <4>1, <4>3 DEF all
    <3> QED BY <3>5, <3>6
  <2> HIDE DEF ts, n, y
  <2>8. ASSUME NEW j \in y.in PROVE Placed(j, s) /\ j.index >= y.processed
    <3>1. PICK i \in 1..n : j = ts[i]
      BY <2>3, <2>6, <2>8 DEF Range
    <3> QED BY <2>1, <2>3, <2>6, <3>1
  <2>9. ASSUME NEW j \in Ahead(y, reqs) PROVE Placed(j, s) /\ j.index >= y.processed
    <3>1. j \in y.in \/ j \in Ahead(x, reqs)
      BY <2>6, <2>9 DEF Ahead
    <3> QED BY <2>6, <2>8, <3>1 DEF Ordered
  <2> QED BY <2>6, <2>7, <2>9 DEF Ordered, y
<1> QED BY <1>1, <1>2

LEMMA NextOfOrdered ==
  ASSUME NEW s \in Nat, NEW t \in States(opt), NEW line,
         Ordered(t.f, t.requests, line, s), NEW u \in NextOf(t)
  PROVE  Ordered(u.f, u.requests, line, s) /\ u.f.finished = t.f.finished
<1> DEFINE job == Earliest(t.f.in)
<1>1. CASE t.f.in = {}
  <2>1. u = [t EXCEPT !.f.running = @ /\ t.f.finished # t.f.total]
    BY <1>1 DEF NextOf
  <2>2. /\ u.f.in = t.f.in /\ u.f.out = t.f.out /\ u.f.total = t.f.total
        /\ u.f.finished = t.f.finished /\ u.f.processed = t.f.processed
        /\ u.f.first = t.f.first /\ u.f.count = t.f.count /\ u.requests = t.requests
    BY <2>1 DEF States, Fetchers
  <2> QED BY <2>2 DEF Ordered, Ahead
<1>2. CASE u = t
  BY <1>2
<1>3. CASE /\ t.f.in # {}
           /\ \E o \in t.peers.pool \cap t.peers.idle :
                u = [t EXCEPT !.f.in = @ \ {job}, !.peers.idle = @ \ {o},
                        !.requests = @ \cup {[job |-> job, peer |-> o, state |-> "active"]}]
  <2>1. PICK o \in t.peers.pool \cap t.peers.idle :
                u = [t EXCEPT !.f.in = @ \ {job}, !.peers.idle = @ \ {o},
                        !.requests = @ \cup {[job |-> job, peer |-> o, state |-> "active"]}]
    BY <1>3
  <2>2. job \in t.f.in
    <3>1. \A j \in t.f.in : j.index \in Nat
      BY DEF States, Fetchers, Jobs
    <3> QED BY <1>3, <3>1, EarliestFacts
  <2> HIDE DEF job
  <2> DEFINE new == [job |-> job, peer |-> o, state |-> "active"]
  <2>3. /\ u.f.in = t.f.in \ {job} /\ u.f.out = t.f.out /\ u.f.total = t.f.total
        /\ u.f.finished = t.f.finished /\ u.f.processed = t.f.processed
        /\ u.f.first = t.f.first /\ u.f.count = t.f.count
        /\ u.requests = t.requests \cup {new}
    BY <2>1 DEF States, Fetchers
  <2>4. new.job = job
    OBVIOUS
  <2> HIDE DEF new
  <2>5. \A j \in Ahead(u.f, u.requests) : j \in Ahead(t.f, t.requests)
    BY <2>2, <2>3, <2>4 DEF Ahead, ActiveOf
  <2> QED BY <2>3, <2>5 DEF Ordered
<1> QED BY <1>1, <1>2, <1>3 DEF NextOf

LEMMA NextJobOrdered ==
  ASSUME opt \in Configs, NEW s \in Nat, NEW t \in States(opt), NEW line,
         t.f.processed <= t.f.total, Ordered(t.f, t.requests, line, s),
         NEW u \in NextJob(t)
  PROVE  Ordered(u.f, u.requests, line, s) /\ u.f.finished = t.f.finished
<1> DEFINE v == [t EXCEPT !.f = NextTasks(@)]
<1>1. u \in NextOf(v)
  BY DEF NextJob
<1>2. /\ v.f = NextTasks(t.f) /\ v.requests = t.requests
      /\ v.pipe = t.pipe /\ v.peers = t.peers
      /\ v = [f |-> v.f, requests |-> v.requests, pipe |-> v.pipe, peers |-> v.peers]
  BY DEF States
<1> HIDE DEF v
<1>3. Ordered(v.f, v.requests, line, s) /\ v.f.finished = t.f.finished
  BY <1>2, StateFacts, NextTasksOrdered
<1>4. v \in States(opt)
  BY <1>2, StateFacts, NextTasksTypes DEF States
<1> QED BY <1>1, <1>3, <1>4, NextOfOrdered

(* What is done, or queued again, has the place of what was asked for.       *)
LEMMA RequeueOrdered ==
  ASSUME NEW x \in Fetchers(opt), NEW reqs, NEW line, NEW s, Ordered(x, reqs, line, s),
         x.running, NEW r \in ActiveOf(reqs), NEW j, j.index = r.job.index,
         j.first = r.job.first, j.count = r.job.count
  PROVE  /\ Ordered(Enqueue(x, {j}), reqs \ {r}, line, s)
         /\ Enqueue(x, {j}).finished = x.finished
<1> DEFINE y == Enqueue(x, {j})
<1>1. /\ y.in = x.in \cup {j} /\ y.out = x.out /\ y.total = x.total
      /\ y.finished = x.finished /\ y.processed = x.processed
      /\ y.first = x.first /\ y.count = x.count
  BY DEF Enqueue, Fetchers
<1> HIDE DEF y
<1>2. r.job \in Ahead(x, reqs)
  BY DEF Ahead
<1>3. Placed(j, s) /\ j.index >= x.processed
  BY <1>2 DEF Ordered, Placed
<1>4. \A i \in Ahead(y, reqs \ {r}) : i = j \/ i \in Ahead(x, reqs)
  BY <1>1 DEF Ahead, ActiveOf
<1> QED BY <1>1, <1>3, <1>4 DEF Ordered, y

LEMMA DoneOrdered ==
  ASSUME NEW x \in Fetchers(opt), NEW reqs, NEW line, NEW s, Ordered(x, reqs, line, s),
         NEW r \in ActiveOf(reqs), NEW j, j.index = r.job.index,
         j.first = r.job.first, j.count = r.job.count,
         NEW y, y = [x EXCEPT !.out = @ \cup {j}]
  PROVE  Ordered(y, reqs \ {r}, line, s) /\ y.finished = x.finished
<1>1. /\ y.out = x.out \cup {j} /\ y.in = x.in /\ y.total = x.total
      /\ y.finished = x.finished /\ y.processed = x.processed
      /\ y.first = x.first /\ y.count = x.count
  BY DEF Fetchers
<1>2. r.job \in Ahead(x, reqs)
  BY DEF Ahead
<1>3. Placed(j, s) /\ j.index >= x.processed
  BY <1>2 DEF Ordered, Placed
<1>4. \A i \in Ahead(y, reqs \ {r}) : i = j \/ i \in Ahead(x, reqs)
  BY <1>1 DEF Ahead, ActiveOf
<1> QED BY <1>1, <1>3, <1>4 DEF Ordered

(* A job with no job before p ahead of it has at most index - p before it.   *)
LEMMA EarlierBound ==
  ASSUME NEW S, IsFiniteSet(S), DistinctJobs(S), NEW p \in Nat,
         \A j \in S : j.index \in Nat /\ j.index >= p,
         NEW j \in S
  PROVE  Earlier(S, j) \in Nat /\ Earlier(S, j) <= j.index - p
<1> DEFINE E == {k \in S : k.index < j.index}
           T == p..(j.index - 1)
           g == [k \in E |-> k.index]
<1>1. j.index \in Nat /\ j.index >= p
  OBVIOUS
<1>2. IsFiniteSet(T) /\ Cardinality(T) = j.index - p
  <2> DEFINE b == j.index - 1
  <2>1. p \in Int /\ b \in Int /\ b >= p - 1
    BY <1>1
  <2> HIDE DEF b
  <2>2. IsFiniteSet(p..b) /\ Cardinality(p..b) = IF p > b THEN 0 ELSE b - p + 1
    BY <2>1, FS_Interval
  <2>3. Cardinality(p..b) = b - p + 1
    BY <2>1, <2>2
  <2> QED BY <1>1, <2>1, <2>2, <2>3 DEF b
<1>3. \A k \in E : k.index \in T
  BY <1>1
<1>4. g \in Injection(E, T)
  <2>1. \A k, m \in E : k.index = m.index => k = m
    BY DEF DistinctJobs
  <2> QED BY <1>3, <2>1 DEF Injection, IsInjective
<1> HIDE DEF g, T
<1>5. IsFiniteSet(E) /\ Cardinality(E) <= Cardinality(T)
  BY <1>2, <1>4, FS_Injection
<1>6. Cardinality(E) \in Nat
  BY <1>5, FS_CardinalityType
<1> QED BY <1>2, <1>5, <1>6 DEF Earlier

(* What goes on to the writer is the run of done jobs from `processed' on.   *)
Run(sent, p) == \A j \in sent : j.index = p + Earlier(sent, j)

LEMMA RunFacts ==
  ASSUME NEW S, IsFiniteSet(S), DistinctJobs(S), NEW p \in Nat,
         \A j \in S : j.index \in Nat /\ j.index >= p, NEW m \in Nat,
         NEW sent, sent = {j \in S : /\ \A k \in S : k.index <= j.index =>
                                                      k.index <= p + Earlier(S, k)
                                     /\ Earlier(S, j) < m}
  PROVE  Run(sent, p)
<1> SUFFICES ASSUME NEW j \in sent PROVE j.index = p + Earlier(sent, j)
  BY DEF Run
<1>1. \A k \in S : /\ Earlier(S, k) \in Nat /\ Earlier(S, k) <= k.index - p
                   /\ k.index \in Nat /\ k.index >= p
  BY EarlierBound
<1>2. j \in S /\ j.index <= p + Earlier(S, j) /\ Earlier(S, j) < m
  BY <1>1
<1>3. ASSUME NEW k \in S, k.index < j.index PROVE k \in sent
  <2>1. \A i \in S : i.index <= k.index => i.index <= j.index
    BY <1>1, <1>2, <1>3
  <2>2. Earlier(S, k) < m
    <3> DEFINE A == {i \in S : i.index < k.index}
               B == {i \in S : i.index < j.index}
    <3>1. A \in SUBSET B
      BY <1>1, <1>2, <1>3
    <3>2. IsFiniteSet(B)
      BY FS_Subset
    <3>3. Cardinality(A) <= Cardinality(B)
      BY <3>1, <3>2, FS_Subset
    <3>4. Earlier(S, k) <= Earlier(S, j)
      BY <3>3 DEF Earlier
    <3> QED BY <1>1, <1>2, <3>4
  <2> QED BY <2>1, <2>2
<1>4. {k \in sent : k.index < j.index} = {k \in S : k.index < j.index}
  BY <1>3
<1>5. Earlier(sent, j) = Earlier(S, j)
  BY <1>4 DEF Earlier
<1>6. j.index = p + Earlier(S, j)
  BY <1>1, <1>2
<1> QED BY <1>5, <1>6

(* The run goes to the end of the line, and everything else is behind it.    *)
LEMMA SentOrdered ==
  ASSUME opt \in Configs, NEW x \in Fetchers(opt), x.running, NEW reqs, NEW line, NEW s,
         reqs \subseteq Asked(opt), line \in Seq(Results(opt)), Accounted(x, reqs, line),
         Ordered(x, reqs, line, s), NEW sent \in SUBSET x.out, Run(sent, x.processed),
         NEW y, y = [x EXCEPT !.processed = @ + Cardinality(sent), !.out = @ \ sent]
  PROVE  Ordered(y, reqs, line \o ByIndex(sent), s) /\ y.finished = x.finished
<1> DEFINE b == ByIndex(sent)
           n == Cardinality(sent)
           p == x.processed
           ln == line \o b
<1>1. Apart(x, reqs, line) /\ Counted(x, reqs, line)
  BY DEF Accounted
<1>2. IsFiniteSet(sent) /\ n \in Nat /\ x.out \subseteq Results(opt) /\ p \in Nat
      /\ x.in \subseteq Jobs(opt) /\ x.finished \in Nat
  <2>1. IsFiniteSet(sent)
    BY <1>1, FS_Subset DEF Apart
  <2> QED BY <2>1, FS_CardinalityType DEF Fetchers
<1>3. /\ b \in Seq(sent) /\ Len(b) = n
      /\ \A i \in 1..n : b[i] \in sent /\ Earlier(sent, b[i]) = i - 1
  <2>1. \A j \in sent : j.index \in Nat
    BY <1>2 DEF Results
  <2>2. DistinctJobs(sent)
    BY <1>1 DEF Apart, DistinctJobs
  <2> QED BY <1>2, <2>1, <2>2, ByIndexFacts
<1>4. /\ y.out = x.out \ sent /\ y.processed = p + n /\ y.in = x.in
      /\ y.total = x.total /\ y.finished = x.finished
      /\ y.first = x.first /\ y.count = x.count
  BY DEF Fetchers
<1>5. b \in Seq(Results(opt))
  <2>1. sent \subseteq Results(opt)
    BY <1>2
  <2> HIDE DEF b
  <2> QED BY <1>3, <2>1, SeqMonotonic
<1> HIDE DEF b, n, p
<1>6. \A i \in 1..n : b[i] \in sent /\ b[i].index = p + (i - 1)
  BY <1>3 DEF Run, p
<1>7. /\ Len(ln) = Len(line) + n /\ Len(line) \in Nat
      /\ \A i \in 1..Len(line) : ln[i] = line[i]
      /\ \A i \in 1..Len(ln) : i > Len(line) =>
            i - Len(line) \in 1..n /\ ln[i] = b[i - Len(line)]
  <2>1. /\ Len(line \o b) = Len(line) + Len(b)
        /\ Len(line) \in Nat
        /\ \A i \in 1..Len(line) : (line \o b)[i] = line[i]
        /\ \A i \in 1..Len(line \o b) : i > Len(line) =>
              i - Len(line) \in 1..Len(b) /\ (line \o b)[i] = b[i - Len(line)]
    BY <1>5, JoinedFacts
  <2> QED BY <1>3, <2>1
<1> HIDE DEF ln
<1>8. p = x.finished + Len(line)
  BY <1>1 DEF Counted, p
<1>9. ASSUME NEW i \in 1..Len(ln)
      PROVE  Placed(ln[i], s) /\ ln[i].index = x.finished + i - 1
  <2>1. CASE i <= Len(line)
    BY <1>7, <2>1 DEF Ordered
  <2>2. CASE i > Len(line)
    <3>1. i - Len(line) \in 1..n /\ ln[i] = b[i - Len(line)]
      BY <1>7, <2>2
    <3>2. ln[i] \in sent /\ ln[i].index = p + ((i - Len(line)) - 1)
      BY <1>6, <3>1
    <3>3. Placed(ln[i], s)
      BY <3>2 DEF Ordered, Ahead
    <3> QED BY <1>2, <1>7, <1>8, <3>2, <3>3
  <2> QED BY <1>7, <2>1, <2>2
<1>10. ASSUME NEW j \in Ahead(y, reqs)
       PROVE  Placed(j, s) /\ j.index >= y.processed
  <2>1. j \in Ahead(x, reqs) /\ j.index \in Nat /\ j.index >= p
    <3>1. j \in Ahead(x, reqs)
      BY <1>4 DEF Ahead
    <3>2. j.index \in Nat
      BY <1>2, <3>1 DEF Ahead, ActiveOf, Asked, Jobs, Results
    <3> QED BY <3>1, <3>2 DEF Ordered, p
  <2>2. \A k \in sent : k.index # j.index
    <3>1. CASE j \in x.in
      BY <1>1, <3>1 DEF Apart
    <3>2. CASE j \in x.out \ sent
      BY <1>1, <3>2 DEF Apart, DistinctJobs
    <3>3. CASE \E r \in ActiveOf(reqs) : j = r.job
      BY <1>1, <3>3 DEF Apart
    <3> QED BY <1>4, <3>1, <3>2, <3>3 DEF Ahead
  <2>3. j.index >= p + n
    <3> SUFFICES ASSUME j.index < p + n PROVE FALSE
      BY <1>2, <2>1
    <3> DEFINE i == j.index - p + 1
    <3>1. i \in 1..n /\ p + (i - 1) = j.index
      BY <1>2, <2>1
    <3> HIDE DEF i
    <3> QED BY <1>6, <2>2, <3>1
  <2> QED BY <1>4, <2>1, <2>3 DEF Ordered
<1> QED BY <1>4, <1>9, <1>10 DEF Ordered, ln, b

-----------------------------------------------------------------------------
(* The order in the streams.                                                 *)

LEMMA PushedDone ==
  ASSUME opt \in Configs, NEW q \in Pipes(opt), NEW jobs
  PROVE  Pushed(q, jobs).done = q.done
  BY DEF Pushed, Pipes

(* The same, with its hypotheses under one name.                             *)
Sends(o, x, reqs, line, s, sent, y) ==
  /\ o \in Configs /\ x \in Fetchers(o) /\ x.running /\ reqs \subseteq Asked(o)
  /\ line \in Seq(Results(o)) /\ Accounted(x, reqs, line) /\ Ordered(x, reqs, line, s)
  /\ sent \in SUBSET x.out /\ Run(sent, x.processed)
  /\ y = [x EXCEPT !.processed = @ + Cardinality(sent), !.out = @ \ sent]

LEMMA SendsOrdered ==
  ASSUME NEW x, NEW reqs, NEW line, NEW s, NEW sent, NEW y,
         Sends(opt, x, reqs, line, s, sent, y)
  PROVE  /\ ByIndex(sent) \in Seq(Results(opt))
         /\ Ordered(y, reqs, line \o ByIndex(sent), s) /\ y.finished = x.finished
<1>1. /\ opt \in Configs /\ x \in Fetchers(opt) /\ x.running /\ reqs \subseteq Asked(opt)
      /\ line \in Seq(Results(opt)) /\ Accounted(x, reqs, line) /\ Ordered(x, reqs, line, s)
      /\ sent \in SUBSET x.out /\ Run(sent, x.processed)
  BY DEF Sends
<1>2. y = [x EXCEPT !.processed = @ + Cardinality(sent), !.out = @ \ sent]
  BY DEF Sends
<1>3. ByIndex(sent) \in Seq(Results(opt))
  BY <1>1, <1>2, SentAccounted
<1>4. Ordered(y, reqs, line \o ByIndex(sent), s) /\ y.finished = x.finished
  BY <1>1, <1>2, SentOrdered
<1> QED BY <1>3, <1>4

LEMMA DequeueOrdered ==
  ASSUME opt \in Configs, NEW t \in States(opt), t.f.running, NEW s,
         Accounted(t.f, t.requests, Line(t.pipe)), Ordered(t.f, t.requests, Line(t.pipe), s),
         NEW u, u = Dequeue(t)
  PROVE  /\ Ordered(u.f, u.requests, Line(u.pipe), s)
         /\ u.f.finished = t.f.finished /\ u.pipe.done = t.pipe.done
<1> DEFINE S == t.f.out
           p == t.f.processed
           m == Pushes(t.pipe)
           jobs == {j \in S : \A k \in S : k.index <= j.index => k.index <= p + Earlier(S, k)}
           sent == {j \in jobs : Earlier(S, j) < m}
           v == [t EXCEPT !.f.processed = @ + Cardinality(sent), !.f.out = @ \ sent,
                          !.pipe = Pushed(@, ByIndex(sent))]
           y == [t.f EXCEPT !.processed = @ + Cardinality(sent), !.out = @ \ sent]
<1>1. /\ t.f \in Fetchers(opt) /\ t.requests \subseteq Asked(opt) /\ t.pipe \in Pipes(opt)
      /\ Line(t.pipe) \in Seq(Results(opt))
  BY StateFacts, PipeFacts
<1>2. u = IF sent = {} THEN t ELSE v
  BY DEF Dequeue, Out
<1>3. Apart(t.f, t.requests, Line(t.pipe))
  BY DEF Accounted
<1>4. Run(sent, p)
  <2>1. p \in Nat /\ IsFiniteSet(S) /\ DistinctJobs(S)
    BY <1>1, <1>3 DEF Fetchers, Apart
  <2>2. \A j \in S : j.index \in Nat /\ j.index >= p
    BY <1>1 DEF Fetchers, Results, Ordered, Ahead
  <2>3. m \in Nat
    <3>1. Room(t.pipe) \in Nat /\ opt.highWaterMark \in Nat /\ Len(t.pipe.readable) \in Nat
      BY <1>1, PipeFacts, ConfigFacts, LenProperties
    <3> QED BY <3>1 DEF Pushes
  <2>4. sent = {j \in S : /\ \A k \in S : k.index <= j.index => k.index <= p + Earlier(S, k)
                          /\ Earlier(S, j) < m}
    OBVIOUS
  <2> HIDE DEF sent, p, S, m
  <2> QED BY <2>1, <2>2, <2>3, <2>4, RunFacts
<1>5. sent \in SUBSET t.f.out
  OBVIOUS
<1> HIDE DEF sent
<1>6. CASE sent = {}
  BY <1>2, <1>6
<1>7. CASE sent # {}
  <2>1. /\ v.f = y /\ v.requests = t.requests /\ v.pipe = Pushed(t.pipe, ByIndex(sent))
    BY DEF States, Fetchers
  <2>2. /\ ByIndex(sent) \in Seq(Results(opt))
        /\ Ordered(y, t.requests, Line(t.pipe) \o ByIndex(sent), s)
        /\ y.finished = t.f.finished
    <3> DEFINE x == t.f
               reqs == t.requests
               line == Line(t.pipe)
    <3>1. /\ opt \in Configs /\ x \in Fetchers(opt) /\ x.running
          /\ reqs \subseteq Asked(opt) /\ line \in Seq(Results(opt))
          /\ Accounted(x, reqs, line) /\ Ordered(x, reqs, line, s)
          /\ sent \in SUBSET x.out /\ Run(sent, x.processed)
      BY <1>1, <1>4, <1>5
    <3>2. y = [x EXCEPT !.processed = @ + Cardinality(sent), !.out = @ \ sent]
      OBVIOUS
    <3>3. Sends(opt, x, reqs, line, s, sent, y)
      BY <3>1, <3>2 DEF Sends
    <3> HIDE DEF x, reqs, line, y
    <3>4. /\ ByIndex(sent) \in Seq(Results(opt))
          /\ Ordered(y, reqs, line \o ByIndex(sent), s)
          /\ y.finished = x.finished
      BY <3>3, SendsOrdered
    <3> QED BY <3>4 DEF x, reqs, line
  <2>3. /\ Line(Pushed(t.pipe, ByIndex(sent))) = Line(t.pipe) \o ByIndex(sent)
        /\ Pushed(t.pipe, ByIndex(sent)).done = t.pipe.done
    BY <1>1, <2>2, PushedFacts, PushedDone
  <2> HIDE DEF v, y
  <2> QED BY <1>2, <1>7, <2>1, <2>2, <2>3
<1> QED BY <1>6, <1>7

LEMMA BatchDoneOrdered ==
  ASSUME opt \in Configs, NEW t \in Writing(opt), t.f.running, NEW s,
         Accounted(t.f, t.requests, t.pipe.buffer \o t.pipe.readable),
         Ordered(t.f, t.requests, t.pipe.buffer \o t.pipe.readable, s),
         NEW u, u = BatchDone(t)
  PROVE  /\ Ordered(u.f, u.requests, Line(u.pipe), s)
         /\ u.f.finished = t.f.finished /\ u.pipe.done = 0
<1> DEFINE p == t.pipe
           q == NextBatch(p)
<1>1. p \in Streams(opt)
  BY DEF Writing
<1>2. /\ p.buffer \in Seq(Results(opt)) /\ p.readable \in Seq(Results(opt))
      /\ q.batch = p.buffer /\ q \in Pipes(opt) /\ Line(q) = p.buffer \o p.readable
      /\ q.readable = p.readable /\ q.done = 0
  <2> HIDE DEF p
  <2> QED BY <1>1, NextBatchFacts
<1> HIDE DEF q
<1>3. CASE p.buffer # <<>>
  <2> DEFINE v == [t EXCEPT !.pipe = q]
  <2>1. u = v
    BY <1>3 DEF BatchDone, q, NextBatch
  <2>2. v.f = t.f /\ v.requests = t.requests /\ v.pipe = q
    BY DEF Writing
  <2> HIDE DEF v
  <2> QED BY <1>2, <2>1, <2>2
<1>4. CASE p.buffer = <<>>
  <2> DEFINE v == [t EXCEPT !.pipe = Flow(q)]
  <2>1. u = Dequeue(v)
    BY <1>4 DEF BatchDone, q, NextBatch
  <2>2. Flow(q) \in Pipes(opt) /\ Line(Flow(q)) = p.readable
    BY <1>2, <1>4, FlowFacts
  <2>3. v \in States(opt) /\ v.f = t.f /\ v.requests = t.requests /\ v.pipe = Flow(q)
    BY <2>2 DEF States, Writing
  <2>4. p.buffer \o p.readable = p.readable
    BY <1>2, <1>4, ConcatEmptySeq
  <2>5. Flow(q).done = 0
    BY <1>2 DEF Flow, Pushed, Pipes
  <2> HIDE DEF v
  <2>6. Accounted(v.f, v.requests, Line(v.pipe)) /\ Ordered(v.f, v.requests, Line(v.pipe), s)
    BY <2>2, <2>3, <2>4
  <2> QED BY <2>1, <2>3, <2>5, <2>6, DequeueOrdered
<1> QED BY <1>3, <1>4

(* A batch that is written leaves the line in order.                         *)
LEMMA FinishedOrdered ==
  ASSUME opt \in Configs, NEW x \in Fetchers(opt), NEW reqs, NEW s,
         NEW b \in Seq(Results(opt)), NEW rest \in Seq(Results(opt)),
         Ordered(x, reqs, b \o rest, s), NEW y, y = [x EXCEPT !.finished = @ + Len(b)]
  PROVE  Ordered(y, reqs, rest, s) /\ y.finished = x.finished + Len(b)
<1> DEFINE n == Len(b)
           ln == b \o rest
<1>1. /\ n \in Nat /\ Len(rest) \in Nat
      /\ \A i \in 1..Len(rest) : i + n \in 1..Len(ln) /\ ln[i + n] = rest[i]
  BY DroppedFacts
<1>2. /\ y.in = x.in /\ y.out = x.out /\ y.processed = x.processed /\ y.total = x.total
      /\ y.first = x.first /\ y.count = x.count /\ y.finished = x.finished + n
      /\ x.finished \in Nat
  BY DEF Fetchers
<1> HIDE DEF n
<1>3. \A i \in 1..Len(ln) : Placed(ln[i], s) /\ ln[i].index = x.finished + i - 1
  BY DEF Ordered
<1> HIDE DEF ln
<1>4. ASSUME NEW i \in 1..Len(rest)
      PROVE  Placed(rest[i], s) /\ rest[i].index = y.finished + i - 1
  <2>1. Placed(rest[i], s) /\ rest[i].index = x.finished + (i + n) - 1
    BY <1>1, <1>3
  <2>2. i \in Nat
    BY <1>1
  <2>3. x.finished + (i + n) - 1 = (x.finished + n) + i - 1
    BY <1>1, <1>2, <2>2
  <2> QED BY <1>2, <2>1, <2>3
<1>5. Ahead(y, reqs) = Ahead(x, reqs)
  BY <1>2 DEF Ahead
<1> QED BY <1>2, <1>4, <1>5 DEF Ordered, n

-----------------------------------------------------------------------------
(* The invariant of the order: the database holds the blocks up to h, a      *)
(* fetcher that runs has started at s, at most one above them, and the job   *)
(* the writer is at starts at most one above them.                           *)

First == Max({1, (opt.local + 1) - Min({safeReorgDistance, opt.local + 1})})

Sorted(t, s, h) ==
  t.f.running => /\ Ordered(t.f, t.requests, Line(t.pipe), s)
                 /\ At(s, t.f.finished + t.pipe.done) <= h + 1

OrderInv ==
  opt.common + 1 >= First =>
    \E h \in Nat : /\ opt.common <= h /\ stored = 0..h
                   /\ \E s \in First..(h + 1) : Sorted(Turn, s, h)

LEMMA BecomesSorted ==
  ASSUME NEW t \in States(opt), Becomes(t), opt' = opt, NEW s, NEW h, Sorted(t, s, h)
  PROVE  Sorted(Turn, s, h)'
<1>1. t = [f |-> t.f, requests |-> t.requests, pipe |-> t.pipe, peers |-> t.peers]
  BY DEF States
<1>2. Turn' = t
  BY <1>1 DEF Turn, Becomes
<1> QED BY <1>2 DEF Sorted, Ordered, Placed, At

LEMMA GoesSorted ==
  ASSUME opt \in Configs, opt' = opt, NEW s \in Nat, NEW h, NEW S, Goes(S),
         \A t \in S : Balanced(t) /\ t.f.running /\ Sorted(t, s, h)
  PROVE  Sorted(Turn, s, h)'
<1>1. PICK t \in S : \E u \in NextJob(t) : Becomes(u)
  BY DEF Goes
<1>2. PICK u \in NextJob(t) : Becomes(u)
  BY <1>1
<1>3. /\ t \in States(opt) /\ t.f.running /\ Accounted(t.f, t.requests, Line(t.pipe))
      /\ Ordered(t.f, t.requests, Line(t.pipe), s)
      /\ At(s, t.f.finished + t.pipe.done) <= h + 1
  BY DEF Balanced, Sorted
<1>4. Line(t.pipe) \in Seq(Results(opt)) /\ t.f \in Fetchers(opt)
  BY <1>3, StateFacts, PipeFacts
<1>5. u \in States(opt) /\ u.pipe = t.pipe
  BY <1>2, <1>3, <1>4, NextJobFacts
<1>6. t.f.processed <= t.f.total
  <2>1. Apart(t.f, t.requests, Line(t.pipe)) /\ Counted(t.f, t.requests, Line(t.pipe))
    BY <1>3 DEF Accounted
  <2> DEFINE a == t.f.finished
             b == Cardinality(t.f.in)
             c == Cardinality(ActiveOf(t.requests))
             d == Cardinality(t.f.out)
             e == Len(Line(t.pipe))
  <2>2. a \in Nat /\ b \in Nat /\ c \in Nat /\ d \in Nat /\ e \in Nat
    BY <1>4, <2>1, CountFacts DEF Numbers
  <2>3. t.f.processed = a + e /\ t.f.total = a + b + c + d + e
    BY <2>1 DEF Counted
  <2> HIDE DEF a, b, c, d, e
  <2> QED BY <2>2, <2>3
<1>7. Ordered(u.f, u.requests, Line(t.pipe), s) /\ u.f.finished = t.f.finished
  BY <1>2, <1>3, <1>6, NextJobOrdered
<1>8. Sorted(u, s, h)
  BY <1>3, <1>5, <1>7 DEF Sorted
<1> QED BY <1>2, <1>5, <1>8, BecomesSorted

(* An active request, or a batch, is of a fetcher that runs.                 *)
LEMMA RunningFacts ==
  ASSUME Inv, ActiveOf(requests) # {}, NEW s, NEW h, Sorted(Turn, s, h)
  PROVE  /\ f.running /\ Ordered(f, requests, Line(pipe), s)
         /\ At(s, f.finished + pipe.done) <= h + 1
  BY TurnFacts DEF Accounted, Nowhere, Sorted

LEMMA RequeuedSorted ==
  ASSUME Inv, NEW r \in requests, r.state = "active", NEW j \in Jobs(opt),
         j.index = r.job.index, j.first = r.job.first, j.count = r.job.count,
         NEW t \in States(opt), t.f = f, t.requests = requests \ {r}, t.pipe = pipe,
         NEW s, NEW h, Sorted(Turn, s, h)
  PROVE  Sorted(Requeued(t, {j}), s, h)
<1>1. r \in ActiveOf(requests)
  BY FinishedFacts
<1>2. /\ f.running /\ Ordered(f, requests, Line(pipe), s)
      /\ At(s, f.finished + pipe.done) <= h + 1
  BY <1>1, RunningFacts
<1>3. /\ Ordered(Enqueue(f, {j}), requests \ {r}, Line(pipe), s)
      /\ Enqueue(f, {j}).finished = f.finished
  BY <1>1, <1>2, TurnFacts, RequeueOrdered
<1> DEFINE e == Enqueue(f, {j})
<1>4. Requeued(t, {j}) = [t EXCEPT !.f = e]
  BY DEF Requeued
<1> HIDE DEF e
<1>5. /\ Requeued(t, {j}).f = e /\ Requeued(t, {j}).requests = requests \ {r}
      /\ Requeued(t, {j}).pipe = pipe
  BY <1>4 DEF States
<1> QED BY <1>2, <1>3, <1>5 DEF Sorted, e

LEMMA CompleteSorted ==
  ASSUME Inv, NEW r \in requests, Complete(r), NEW s \in Nat, NEW h, Sorted(Turn, s, h)
  PROVE  Sorted(Turn, s, h)'
<1> DEFINE v == Idled(Finished(r), r.peer)
           t == [v EXCEPT !.f.out = @ \cup {Result(r)}]
           u == Dequeue(t)
<1>1. r.state = "active" /\ Goes({u}) /\ UNCHANGED <<opt, stored, faults>>
  BY DEF Complete
<1>2. /\ v \in States(opt) /\ v.f = f /\ v.requests = requests \ {r} /\ v.pipe = pipe
  BY IdledFacts
<1>3. /\ Result(r) \in Results(opt) /\ Result(r).index = r.job.index
      /\ Result(r).first = r.job.first /\ Result(r).count = r.job.count
  BY FinishedFacts DEF Result, Results, Jobs, Spanned
<1> HIDE DEF v
<1>4. /\ t.f = [f EXCEPT !.out = @ \cup {Result(r)}] /\ t.requests = requests \ {r}
      /\ t.pipe = pipe /\ t \in States(opt)
  BY <1>2, <1>3 DEF States, Fetchers
<1> HIDE DEF t
<1>5. r \in ActiveOf(requests)
  BY <1>1, FinishedFacts
<1>6. /\ f.running /\ Ordered(f, requests, Line(pipe), s)
      /\ At(s, f.finished + pipe.done) <= h + 1
  BY <1>5, RunningFacts
<1>7. /\ f.running /\ t.f \in Fetchers(opt) /\ t.f.running
      /\ Accounted(t.f, requests \ {r}, Line(pipe))
  BY <1>3, <1>4, <1>5, TurnFacts, DoneAccounted
<1>8. Ordered(t.f, requests \ {r}, Line(pipe), s) /\ t.f.finished = f.finished
  BY <1>3, <1>4, <1>5, <1>6, TurnFacts, DoneOrdered
<1>9. Balanced(u) /\ u.f.running
  BY <1>4, <1>7, TurnFacts, DequeueFacts, DequeueRunning DEF Balanced
<1>10. /\ Ordered(u.f, u.requests, Line(u.pipe), s)
       /\ u.f.finished = t.f.finished /\ u.pipe.done = t.pipe.done
  <2> HIDE DEF u
  <2>1. \A z : z = Dequeue(t) => /\ Ordered(z.f, z.requests, Line(z.pipe), s)
                                /\ z.f.finished = t.f.finished
                                /\ z.pipe.done = t.pipe.done
    <3>1. /\ opt \in Configs /\ t \in States(opt) /\ t.f.running
          /\ Accounted(t.f, t.requests, Line(t.pipe))
          /\ Ordered(t.f, t.requests, Line(t.pipe), s)
      BY <1>4, <1>7, <1>8, TurnFacts
    <3> QED BY <3>1, DequeueOrdered
  <2> QED BY <2>1 DEF u
<1>11. Sorted(u, s, h)
  BY <1>4, <1>6, <1>8, <1>10 DEF Sorted
<1> HIDE DEF u
<1> QED BY <1>1, <1>9, <1>11, TurnFacts, GoesSorted

LEMMA PartialSorted ==
  ASSUME Inv, NEW r \in requests, Partial(r), NEW s \in Nat, NEW h, Sorted(Turn, s, h)
  PROVE  Sorted(Turn, s, h)'
<1> DEFINE v == Idled(Finished(r), r.peer)
           job(n) == [r.job EXCEPT !.got = @ + n]
           S == {Requeued(v, {job(n)}) : n \in 1..(r.job.count - r.job.got - 1)}
<1>1. r.state = "active" /\ Goes(S) /\ UNCHANGED <<opt, stored>>
  BY DEF Partial
<1>2. v \in States(opt) /\ v.f = f /\ v.requests = requests \ {r} /\ v.pipe = pipe
  BY IdledFacts
<1> HIDE DEF v
<1>3. ASSUME NEW n \in 1..(r.job.count - r.job.got - 1)
      PROVE  /\ job(n) \in Jobs(opt) /\ job(n).index = r.job.index
             /\ job(n).first = r.job.first /\ job(n).count = r.job.count
  <2>1. /\ r.job \in [index : Nat, first : Nat, count : Nat, got : Nat]
        /\ r.job.count \in Nat /\ r.job.got \in Nat /\ Spanned(r.job, opt)
    BY FinishedFacts DEF Jobs
  <2>2. r.job.got + n \in Nat /\ r.job.got + n < r.job.count
    BY <2>1
  <2>3. /\ job(n) \in [index : Nat, first : Nat, count : Nat, got : Nat]
        /\ job(n).got = r.job.got + n /\ job(n).count = r.job.count
        /\ job(n).first = r.job.first /\ job(n).index = r.job.index
    BY <2>1, <2>2
  <2> HIDE DEF job
  <2> QED BY <2>1, <2>2, <2>3 DEF Jobs, Spanned
<1> HIDE DEF job
<1>4. \A t \in S : Balanced(t) /\ t.f.running
  BY <1>1, <1>2, <1>3, RequeuedFacts
<1>5. ASSUME NEW n \in 1..(r.job.count - r.job.got - 1)
      PROVE  Sorted(Requeued(v, {job(n)}), s, h)
  <2> DEFINE j == job(n)
  <2>1. /\ j \in Jobs(opt) /\ j.index = r.job.index
        /\ j.first = r.job.first /\ j.count = r.job.count
    BY <1>3
  <2> HIDE DEF j
  <2>2. Sorted(Requeued(v, {j}), s, h)
    BY <1>1, <1>2, <2>1, RequeuedSorted
  <2> QED BY <2>2 DEF j
<1>6. \A t \in S : Sorted(t, s, h)
  BY <1>5
<1> HIDE DEF S
<1> QED BY <1>1, <1>4, <1>6, TurnFacts, GoesSorted

LEMMA UnexpectedSorted ==
  ASSUME Inv, NEW r \in requests, Unexpected(r), NEW s \in Nat, NEW h, Sorted(Turn, s, h)
  PROVE  Sorted(Turn, s, h)'
<1> DEFINE v == Idled(Finished(r), r.peer)
           job == [r.job EXCEPT !.got = 0]
           u == Requeued(v, {job})
<1>1. r.state = "active" /\ Goes({u}) /\ UNCHANGED <<opt, stored>>
  BY DEF Unexpected
<1>2. v \in States(opt) /\ v.f = f /\ v.requests = requests \ {r} /\ v.pipe = pipe
  BY IdledFacts
<1>3. /\ job \in Jobs(opt) /\ job.index = r.job.index
      /\ job.first = r.job.first /\ job.count = r.job.count
  <2>1. /\ r.job \in [index : Nat, first : Nat, count : Nat, got : Nat]
        /\ r.job.count \in Nat /\ r.job.got \in Nat /\ r.job.got < r.job.count
        /\ Spanned(r.job, opt)
    BY FinishedFacts DEF Jobs
  <2>2. /\ job \in [index : Nat, first : Nat, count : Nat, got : Nat]
        /\ job.got = 0 /\ job.count = r.job.count
        /\ job.first = r.job.first /\ job.index = r.job.index
    BY <2>1
  <2>3. 0 < r.job.count
    BY <2>1
  <2> HIDE DEF job
  <2> QED BY <2>1, <2>2, <2>3 DEF Jobs, Spanned
<1> HIDE DEF v, job
<1>4. Balanced(u) /\ u.f.running
  BY <1>1, <1>2, <1>3, RequeuedFacts
<1>5. Sorted(u, s, h)
  BY <1>1, <1>2, <1>3, RequeuedSorted
<1> HIDE DEF u
<1> QED BY <1>1, <1>4, <1>5, TurnFacts, GoesSorted

LEMMA NothingSorted ==
  ASSUME Inv, NEW r \in requests, Nothing(r), NEW s \in Nat, NEW h, Sorted(Turn, s, h)
  PROVE  Sorted(Turn, s, h)'
<1> DEFINE v == Rests(Finished(r), r.peer)
           u == Requeued(v, {r.job})
<1>1. r.state = "active" /\ Goes({u}) /\ UNCHANGED <<opt, stored>>
  BY DEF Nothing
<1>2. v \in States(opt) /\ v.f = f /\ v.requests = requests \ {r} /\ v.pipe = pipe
  BY RestsFacts
<1> HIDE DEF v
<1>3. Balanced(u) /\ u.f.running
  BY <1>1, <1>2, FinishedFacts, RequeuedFacts
<1>4. Sorted(u, s, h)
  BY <1>1, <1>2, FinishedFacts, RequeuedSorted
<1> HIDE DEF u
<1> QED BY <1>1, <1>3, <1>4, TurnFacts, GoesSorted

(* A state that differs in its peers, or in requests nobody waits for.       *)
LEMMA AsideSorted ==
  ASSUME Inv, NEW t \in States(opt), t.f = f, t.pipe = pipe,
         ActiveOf(t.requests) = ActiveOf(requests), NEW s, NEW h, Sorted(Turn, s, h)
  PROVE  Sorted(t, s, h)
  BY TurnFacts DEF Sorted, Ordered, Ahead

LEMMA AbandonedSorted ==
  ASSUME Inv, NEW r \in requests, Abandoned(r), NEW s \in Nat, NEW h, Sorted(Turn, s, h)
  PROVE  Sorted(Turn, s, h)'
<1>1. r.state = "orphan" /\ UNCHANGED <<opt, stored, faults>>
  BY DEF Abandoned
<1>2. ActiveOf(requests \ {r}) = ActiveOf(requests)
  BY <1>1, FinishedFacts
<1>3. ASSUME NEW t \in {Idled(Finished(r), r.peer), Rests(Finished(r), r.peer)}, Becomes(t)
      PROVE  Sorted(Turn, s, h)'
  <2>1. t \in States(opt) /\ t.f = f /\ t.requests = requests \ {r} /\ t.pipe = pipe
    <3>1. CASE t = Idled(Finished(r), r.peer)
      BY <3>1, FinishedFacts, PeerMoves
    <3>2. CASE t = Rests(Finished(r), r.peer)
      BY <3>2, FinishedFacts, PeerMoves
    <3> QED BY <3>1, <3>2
  <2>2. Sorted(t, s, h)
    BY <1>2, <2>1, AsideSorted
  <2> QED BY <1>1, <1>3, <2>1, <2>2, BecomesSorted
<1> QED BY <1>3 DEF Abandoned

LEMMA ExpireSorted ==
  ASSUME Inv, NEW r \in requests, Expire(r), NEW s \in Nat, NEW h, Sorted(Turn, s, h)
  PROVE  Sorted(Turn, s, h)'
<1> DEFINE v == Banned(Finished(r), r.peer)
<1>1. /\ Becomes(IF r.state = "active" THEN Requeued(v, {r.job}) ELSE v)
      /\ UNCHANGED <<opt, stored>>
  BY DEF Expire, Finished
<1>2. v \in States(opt) /\ v.f = f /\ v.requests = requests \ {r} /\ v.pipe = pipe
  BY FinishedFacts, BannedFacts
<1> HIDE DEF v
<1>3. CASE r.state = "active"
  <2>1. Requeued(v, {r.job}) \in States(opt)
    BY <1>2, <1>3, FinishedFacts, RequeuedFacts DEF Balanced
  <2>2. Sorted(Requeued(v, {r.job}), s, h)
    BY <1>2, <1>3, FinishedFacts, RequeuedSorted
  <2> QED BY <1>1, <1>3, <2>1, <2>2, BecomesSorted
<1>4. CASE r.state = "orphan"
  <2>1. Sorted(v, s, h)
    BY <1>2, <1>4, FinishedFacts, AsideSorted
  <2> QED BY <1>1, <1>2, <1>4, <2>1, BecomesSorted
<1> QED BY <1>3, <1>4, FinishedFacts DEF Asked

LEMMA RestedSorted ==
  ASSUME Inv, NEW o \in peers.resting, Rested(o), NEW s \in Nat, NEW h, Sorted(Turn, s, h)
  PROVE  Sorted(Turn, s, h)'
<1> DEFINE v == [Turn EXCEPT !.peers.resting = @ \ {o}]
<1>1. Becomes(Idled(v, o)) /\ UNCHANGED <<opt, stored, faults>>
  BY DEF Rested
<1>2. o \in Objects
  BY TurnFacts DEF PeerPools
<1>3. v \in States(opt) /\ v.f = f /\ v.requests = requests /\ v.pipe = pipe
  BY TurnFacts DEF States, PeerPools
<1> HIDE DEF v
<1>4. Idled(v, o) \in States(opt) /\ Idled(v, o).f = f /\ Idled(v, o).pipe = pipe
      /\ Idled(v, o).requests = requests
  BY <1>2, <1>3, PeerMoves
<1>5. Sorted(Idled(v, o), s, h)
  BY <1>4, AsideSorted
<1> QED BY <1>1, <1>4, <1>5, BecomesSorted

(* A step that leaves the fetcher, its requests and its pipe alone.          *)
LEMMA StillSorted ==
  ASSUME Inv, UNCHANGED <<opt, f, requests, pipe>>, NEW s, NEW h, Sorted(Turn, s, h)
  PROVE  Sorted(Turn, s, h)'
<1>1. /\ Turn'.f = f /\ Turn'.requests = requests /\ Turn'.pipe = pipe
  BY DEF Turn
<1>2. /\ Turn.f = f /\ Turn.requests = requests /\ Turn.pipe = pipe
  BY DEF Turn
<1> QED BY <1>1, <1>2 DEF Sorted, Ordered, Placed, At

LEMMA LoopSorted ==
  ASSUME Inv, Loop, NEW s \in Nat, NEW h, Sorted(Turn, s, h)
  PROVE  Sorted(Turn, s, h)'
<1>1. f.running /\ Goes({Turn}) /\ UNCHANGED <<opt, stored, faults>>
  BY DEF Loop
<1>2. Balanced(Turn) /\ Turn.f.running
  BY <1>1, TurnFacts DEF Inv
<1> QED BY <1>1, <1>2, TurnFacts, GoesSorted

-----------------------------------------------------------------------------
(* The writer stores the blocks that follow those stored.                    *)

LEMMA StoringFacts ==
  ASSUME Inv, pipe.batch # <<>>, NEW s \in Nat, NEW h \in Nat, Sorted(Turn, s, h)
  PROVE  /\ f.running /\ Ordered(f, requests, Line(pipe), s)
         /\ Placed(Storing, s) /\ Storing.first = At(s, f.finished + pipe.done)
         /\ Storing.first \in Nat \ {0} /\ Storing.count \in Nat \ {0}
         /\ Storing.first <= h + 1
<1> DEFINE b == pipe.batch
           rest == pipe.buffer \o pipe.readable
           ln == b \o rest
           k == pipe.done + 1
<1>1. /\ b \in Seq(Results(opt)) /\ rest \in Seq(Results(opt))
      /\ Line(pipe) = ln /\ Accounted(f, requests, ln)
      /\ Len(b) \in Nat /\ pipe.done \in Nat /\ pipe.done < Len(b) /\ Storing \in Results(opt)
  BY WriterFacts
<1> HIDE DEF b, rest
<1>2. k \in 1..Len(b)
  BY <1>1
<1>3. k \in 1..Len(ln) /\ ln[k] = b[k]
  <2> HIDE DEF k
  <2>1. \A i \in 1..Len(b) : i \in 1..Len(b \o rest) /\ (b \o rest)[i] = b[i]
    BY <1>1, DroppedFacts
  <2> QED BY <1>2, <2>1
<1>4. f.running
  <2>1. ln # <<>>
    BY <1>3
  <2> QED BY <1>1, <2>1 DEF Accounted, Nowhere
<1>5. /\ Ordered(f, requests, Line(pipe), s) /\ At(s, f.finished + pipe.done) <= h + 1
  BY <1>4, TurnFacts DEF Sorted
<1>6. Storing = ln[k]
  BY <1>3 DEF Storing, b
<1> HIDE DEF ln
<1>7. Placed(Storing, s) /\ Storing.index = f.finished + k - 1
  BY <1>1, <1>3, <1>5, <1>6 DEF Ordered
<1>8. Storing.index = f.finished + pipe.done
  BY <1>1, <1>7, TurnFacts DEF Fetchers
<1>9. Storing.first \in Nat \ {0} /\ Storing.count \in Nat \ {0}
  <2>1. \A j \in Results(opt) : j.first \in Nat \ {0} /\ j.count \in Nat \ {0}
    BY DEF Results, Spanned
  <2> QED BY <1>1, <2>1
<1>10. Storing.first = At(s, Storing.index)
  BY <1>7 DEF Placed
<1>11. Storing.first = At(s, f.finished + pipe.done)
  BY <1>8, <1>10
<1>12. Storing.first <= h + 1
  BY <1>5, <1>11
<1>13. Placed(Storing, s) /\ Ordered(f, requests, Line(pipe), s)
  BY <1>5, <1>7
<1> QED BY <1>4, <1>9, <1>11, <1>12, <1>13

LEMMA LinksFacts ==
  ASSUME Inv, pipe.batch # <<>>, NEW s \in Nat, NEW h \in Nat, Sorted(Turn, s, h),
         stored = 0..h
  PROVE  Links(Storing)
<1> DEFINE k == Storing.first
<1>1. k \in Nat \ {0} /\ k <= h + 1
  BY StoringFacts
<1> HIDE DEF k
<1>2. k - 1 \in 0..h
  BY <1>1
<1> QED BY <1>2 DEF Links, k

LEMMA ClearedSorted ==
  ASSUME NEW t \in Writing(opt), NEW s, NEW h
  PROVE  Sorted(Cleared(t), s, h)
<1>1. Cleared(t).f.running = FALSE
  BY DEF Cleared, Writing, Fetchers
<1> QED BY <1>1 DEF Sorted

LEMMA StoreSorted ==
  ASSUME Inv, Store, NEW s \in Nat, NEW h \in Nat, Sorted(Turn, s, h), stored = 0..h
  PROVE  \E m \in Nat : h <= m /\ stored' = 0..m /\ Sorted(Turn, s, m)'
<1> DEFINE t == [Turn EXCEPT !.pipe.done = @ + 1]
           n == Len(pipe.batch)
           rest == pipe.buffer \o pipe.readable
           more == [t EXCEPT !.f.finished = @ + n]
           last == Storing.first + Storing.count - 1
           k == f.finished + pipe.done
<1>1. /\ pipe.batch # <<>> /\ UNCHANGED <<opt, faults>>
      /\ stored' = stored \cup Storing.first..last
      /\ Becomes(IF opt.target \in stored' THEN Cleared(t)
                 ELSE IF pipe.done + 1 < n THEN t ELSE BatchDone(more))
  BY DEF Store
<1>2. /\ f.running /\ Ordered(f, requests, Line(pipe), s)
      /\ Placed(Storing, s) /\ Storing.first = At(s, k)
      /\ Storing.first \in Nat \ {0} /\ Storing.count \in Nat \ {0}
      /\ Storing.first <= h + 1
  BY <1>1, StoringFacts
<1>3. /\ pipe.batch \in Seq(Results(opt)) /\ rest \in Seq(Results(opt))
      /\ Line(pipe) = pipe.batch \o rest /\ Accounted(f, requests, pipe.batch \o rest)
      /\ n \in Nat /\ pipe.done \in Nat /\ pipe.done < n /\ Storing \in Results(opt)
  BY <1>1, WriterFacts
<1>4. PICK m \in Nat : h <= m /\ last <= m /\ stored' = 0..m
  <2> DEFINE z == IF last > h THEN last ELSE h
  <2>1. last \in Nat
    BY <1>2
  <2> HIDE DEF last
  <2>2. z \in Nat /\ h <= z /\ last <= z
    BY <2>1
  <2>3. stored' = (0..h) \cup (Storing.first..last)
    BY <1>1
  <2>4. (0..h) \cup (Storing.first..last) = 0..z
    BY <1>2, <2>1
  <2> QED BY <2>2, <2>3, <2>4
<1>5. opt.target \notin stored' => At(s, k + 1) <= m + 1
  <2> SUFFICES ASSUME opt.target \notin stored' PROVE At(s, k + 1) <= m + 1
    OBVIOUS
  <2>1. opt.target \in Nat /\ k \in Nat /\ maxPerRequest \in Nat
    <3>1. f.finished \in Nat /\ pipe.done \in Nat
      BY <1>3, TurnFacts DEF Fetchers
    <3> QED BY <3>1, TurnFacts, ConfigFacts
  <2>2. Storing.first + Storing.count # opt.target + 1
    BY <1>1, <1>2, <2>1
  <2>3. Storing.count = maxPerRequest
    BY <1>2, <2>2 DEF Placed
  <2> HIDE DEF k
  <2>4. At(s, k + 1) = At(s, k) + maxPerRequest
    BY <2>1, TurnFacts, AtFacts
  <2>5. last + 1 = At(s, k + 1)
    BY <1>2, <2>3, <2>4
  <2>6. last \in Nat /\ last <= m
    BY <1>2, <1>4
  <2> HIDE DEF last
  <2> QED BY <1>4, <2>5, <2>6
<1>6. /\ t.pipe = [pipe EXCEPT !.done = @ + 1] /\ t.f = f /\ t.requests = requests
      /\ t \in Writing(opt)
  <2>1. [pipe EXCEPT !.done = @ + 1] \in Streams(opt)
    <3> DEFINE d == pipe.done + 1
    <3>1. pipe \in Streams(opt)
      BY TurnFacts DEF Pipes, Streams
    <3>2. d \in Nat
      BY <1>3
    <3> HIDE DEF d
    <3>3. [pipe EXCEPT !.done = d] \in Streams(opt)
      BY <3>1, <3>2 DEF Streams
    <3> QED BY <3>3 DEF d
  <2> QED BY <2>1, TurnFacts DEF Turn, Writing
<1>7. /\ t.pipe.batch = pipe.batch /\ t.pipe.buffer = pipe.buffer
      /\ t.pipe.readable = pipe.readable /\ t.pipe.done = pipe.done + 1
  BY <1>6, TurnFacts DEF Pipes
<1> HIDE DEF t, last
<1>8. f.finished \in Nat /\ k + 1 = f.finished + (pipe.done + 1)
  BY <1>3, TurnFacts DEF Fetchers
<1>9. CASE opt.target \in stored'
  <2>1. Cleared(t) \in States(opt) /\ Sorted(Cleared(t), s, m)
    BY <1>6, TurnFacts, ClearedFacts, ClearedSorted DEF Balanced
  <2>2. Sorted(Turn, s, m)'
    BY <1>1, <1>9, <2>1, BecomesSorted
  <2> QED BY <1>4, <2>2
<1>10. CASE opt.target \notin stored' /\ pipe.done + 1 < n
  <2>1. t.pipe \in Pipes(opt) /\ Line(t.pipe) = Line(pipe)
    <3>1. t.pipe \in Streams(opt)
      BY <1>6 DEF Writing
    <3> QED BY <1>1, <1>7, <1>10, <3>1 DEF Pipes, Streams, Line
  <2>2. t \in States(opt)
    BY <1>6, <2>1 DEF Writing, States
  <2>3. Sorted(t, s, m)
    BY <1>2, <1>5, <1>6, <1>7, <1>8, <1>10, <2>1 DEF Sorted
  <2>4. Sorted(Turn, s, m)'
    BY <1>1, <1>10, <2>2, <2>3, BecomesSorted
  <2> QED BY <1>4, <2>4
<1>11. CASE opt.target \notin stored' /\ ~(pipe.done + 1 < n)
  <2>1. \A y : y = [f EXCEPT !.finished = @ + n] =>
          /\ y \in Fetchers(opt) /\ Accounted(y, requests, rest)
          /\ Ordered(y, requests, rest, s) /\ y.finished = f.finished + n
    <3> DEFINE b == pipe.batch
    <3>1. /\ opt \in Configs /\ f \in Fetchers(opt) /\ requests \subseteq Asked(opt)
          /\ b \in Seq(Results(opt)) /\ rest \in Seq(Results(opt)) /\ b # <<>>
          /\ Accounted(f, requests, b \o rest) /\ n = Len(b)
          /\ Ordered(f, requests, b \o rest, s)
      BY <1>1, <1>2, <1>3, TurnFacts
    <3> HIDE DEF b, rest, n
    <3>2. \A y : y = [f EXCEPT !.finished = @ + Len(b)] =>
            y \in Fetchers(opt) /\ Accounted(y, requests, rest)
      BY <3>1, FinishedAccounted
    <3>3. \A y : y = [f EXCEPT !.finished = @ + Len(b)] =>
            Ordered(y, requests, rest, s) /\ y.finished = f.finished + Len(b)
      BY <3>1, FinishedOrdered
    <3> QED BY <3>1, <3>2, <3>3
  <2>2. /\ more.f = [f EXCEPT !.finished = @ + n] /\ more.requests = requests
        /\ more.pipe = t.pipe
    BY <1>6 DEF Writing, Fetchers
  <2>3. more \in Writing(opt) /\ more.f.running
    <3>1. f.finished + n \in Nat
      BY <1>3, <1>8
    <3> HIDE DEF n
    <3> QED BY <1>2, <1>6, <3>1 DEF Writing, Fetchers
  <2> HIDE DEF more, rest, n
  <2>4. /\ Accounted(more.f, more.requests, more.pipe.buffer \o more.pipe.readable)
        /\ Ordered(more.f, more.requests, more.pipe.buffer \o more.pipe.readable, s)
        /\ more.f.finished = f.finished + n
    BY <1>7, <2>1, <2>2 DEF rest
  <2>5. BatchDone(more) \in States(opt)
    BY <1>1, <1>7, <2>2, <2>3, <2>4, TurnFacts, BatchDoneFacts DEF Balanced
  <2>6. \A u : u = BatchDone(more) =>
          /\ Ordered(u.f, u.requests, Line(u.pipe), s)
          /\ u.f.finished = more.f.finished /\ u.pipe.done = 0
    BY <2>3, <2>4, TurnFacts, BatchDoneOrdered
  <2>7. At(s, more.f.finished + 0) <= m + 1
    <3>1. more.f.finished + 0 = k + 1
      <4>1. \A a, d, c \in Nat : d < c /\ ~(d + 1 < c) => (a + c) + 0 = a + (d + 1)
        OBVIOUS
      <4>2. /\ f.finished \in Nat /\ pipe.done \in Nat /\ n \in Nat
            /\ pipe.done < n /\ ~(pipe.done + 1 < n)
        BY <1>3, <1>8, <1>11
      <4>3. (f.finished + n) + 0 = f.finished + (pipe.done + 1)
        BY <4>1, <4>2
      <4> QED BY <1>8, <2>4, <4>3
    <3> QED BY <1>5, <1>11, <3>1
  <2>8. Sorted(BatchDone(more), s, m)
    BY <2>6, <2>7 DEF Sorted
  <2>9. Sorted(Turn, s, m)'
    BY <1>1, <1>11, <2>5, <2>8, BecomesSorted DEF n
  <2> QED BY <1>4, <2>9
<1> QED BY <1>9, <1>10, <1>11

LEMMA StoreThrowsSorted ==
  ASSUME Inv, StoreThrows, NEW s, NEW h
  PROVE  Sorted(Turn, s, h)'
<1>1. Becomes(Cleared(Turn)) /\ UNCHANGED <<opt, stored>>
  BY DEF StoreThrows
<1>2. Cleared(Turn) \in States(opt) /\ Sorted(Cleared(Turn), s, h)
  BY TurnFacts, StatesWriting, ClearedFacts, ClearedSorted DEF Balanced
<1> QED BY <1>1, <1>2, BecomesSorted

-----------------------------------------------------------------------------
(* A fetcher starts above the shared blocks' reach and at most one above     *)
(* the stored ones.                                                          *)

LEMMA MaxOfTwo ==
  ASSUME NEW a \in Nat, NEW b \in Nat
  PROVE  Max({a, b}) \in Nat /\ Max({a, b}) >= a /\ Max({a, b}) >= b
         /\ (Max({a, b}) = a \/ Max({a, b}) = b)
<1>1. {a, b} \subseteq Nat /\ {a, b} # {} /\ a + b \in Nat /\ \A k \in {a, b} : k <= a + b
  OBVIOUS
<1>2. Max({a, b}) \in {a, b} /\ \A k \in {a, b} : k <= Max({a, b})
  BY <1>1, MaxFacts
<1> QED BY <1>2

LEMMA FirstFacts ==
  ASSUME opt \in Configs
  PROVE  /\ First \in Nat \ {0}
         /\ safeReorgDistance > opt.local => First = 1
         /\ safeReorgDistance <= opt.local =>
              First = Max({1, opt.local + 1 - safeReorgDistance})
<1> DEFINE d == safeReorgDistance
           n == opt.local + 1
           k == Min({d, n})
<1>1. d \in Nat /\ opt.local \in Nat /\ n \in Nat
  BY FetcherAssumption, ConfigFacts
<1>2. k \in Nat /\ k <= d /\ k <= n /\ (k = d \/ k = n)
  BY <1>1, MinOfTwo
<1>3. First = Max({1, n - k})
  BY DEF First
<1> HIDE DEF k
<1>4. n - k \in Nat
  BY <1>1, <1>2
<1>5. First \in Nat /\ First >= 1
  BY <1>3, <1>4, MaxOfTwo
<1>6. ASSUME d > opt.local PROVE First = 1
  <2>1. n - k = 0
    BY <1>1, <1>2, <1>6
  <2>2. First = Max({1, 0})
    BY <1>3, <2>1
  <2>3. Max({1, 0}) >= 1 /\ (Max({1, 0}) = 1 \/ Max({1, 0}) = 0)
    BY MaxOfTwo
  <2> QED BY <2>2, <2>3
<1>7. ASSUME d <= opt.local PROVE First = Max({1, opt.local + 1 - d})
  <2>1. k = d
    BY <1>1, <1>2, <1>7
  <2>2. n - k = opt.local + 1 - d
    BY <1>1, <2>1
  <2> QED BY <1>3, <2>2
<1> QED BY <1>5, <1>6, <1>7

LEMMA StartReach ==
  ASSUME opt \in Configs, NEW h \in Nat, opt.common <= h, stored = 0..h,
         opt.common + 1 >= First
  PROVE  Start \in Nat /\ Start >= First /\ Start <= h + 1
<1> DEFINE d == safeReorgDistance
           l == opt.local
           c == opt.common
           H == Height
<1>1. d \in Nat /\ l \in Nat /\ c \in Nat
  BY FetcherAssumption, ConfigFacts
<1>2. H \in Nat /\ H >= l /\ (H = l \/ H <= h)
  <2> DEFINE S == {l} \cup (0..h)
  <2>1. S \subseteq Nat /\ S # {} /\ l + h \in Nat /\ \A k \in S : k <= l + h
    BY <1>1
  <2>2. Height = Max(S)
    BY DEF Height
  <2>3. l \in S /\ \A k \in S : k \in Nat /\ (k = l \/ k <= h)
    BY <1>1
  <2> HIDE DEF S, l
  <2>4. Max(S) \in S /\ \A k \in S : k <= Max(S)
    BY <2>1, MaxFacts
  <2> QED BY <2>2, <2>3, <2>4
<1>3. First \in Nat \ {0} /\ (d > l => First = 1) /\ (d <= l => First = Max({1, l + 1 - d}))
  BY FirstFacts
<1>4. Start = IF H < d THEN 1 ELSE Max({1, H + 1 - d})
  BY DEF Start
<1>5. c <= h /\ c + 1 >= First
  OBVIOUS
<1> HIDE DEF d, l, c, H
<1>6. CASE H < d
  BY <1>1, <1>2, <1>3, <1>4, <1>6
<1>7. CASE ~(H < d)
  <2> DEFINE a == H + 1 - d
             m == Max({1, a})
  <2>1. a \in Nat /\ a <= H + 1
    BY <1>1, <1>2, <1>7
  <2> HIDE DEF a
  <2>2. m \in Nat /\ m >= 1 /\ m >= a /\ (m = 1 \/ m = a)
    BY <2>1, MaxOfTwo
  <2>3. Start = m
    BY <1>4, <1>7 DEF a
  <2> HIDE DEF m
  <2>4. CASE H = l
    <3>1. m = First
      BY <1>1, <1>2, <1>3, <1>7, <2>4 DEF m, a
    <3> QED BY <1>1, <1>3, <1>5, <2>2, <2>3, <3>1
  <2>5. CASE H # l
    <3>1. H <= h
      BY <1>2, <2>5
    <3>2. m <= h + 1
      BY <1>2, <2>1, <2>2, <3>1
    <3>3. First <= m
      <4>1. CASE d > l
        BY <1>3, <2>2, <4>1
      <4>2. CASE ~(d > l)
        <5> DEFINE e == l + 1 - d
        <5>1. e \in Nat /\ e <= a
          BY <1>1, <1>2, <4>2 DEF a
        <5>2. First = Max({1, e})
          BY <1>1, <1>3, <4>2
        <5> HIDE DEF e
        <5>3. First = 1 \/ First = e
          BY <5>1, <5>2, MaxOfTwo
        <5> QED BY <2>1, <2>2, <5>1, <5>3
      <4> QED BY <4>1, <4>2
    <3> QED BY <2>2, <2>3, <3>2, <3>3
  <2> QED BY <2>4, <2>5
<1> QED BY <1>6, <1>7

LEMMA FreshSorted ==
  ASSUME opt \in Configs, NEW t, NEW s \in Nat, NEW h \in Nat, s <= h + 1,
         t.f = NewFetcher(s), ActiveOf(t.requests) = {}, Line(t.pipe) = <<>>, t.pipe.done = 0
  PROVE  Sorted(t, s, h)
<1>1. /\ t.f.in = {} /\ t.f.out = {} /\ t.f.first = s /\ t.f.total = 0 /\ t.f.finished = 0
  BY DEF NewFetcher
<1>2. At(s, 0) = s /\ At(s, t.f.finished + t.pipe.done) = s
  <2>1. At(s, 0) = s
    BY ConfigFacts DEF At
  <2> QED BY <1>1, <2>1
<1>3. Ahead(t.f, t.requests) = {}
  BY <1>1 DEF Ahead
<1>4. Len(Line(t.pipe)) = 0
  OBVIOUS
<1> QED BY <1>1, <1>2, <1>3, <1>4 DEF Sorted, Ordered

LEMMA ResyncSorted ==
  ASSUME Inv, Resync, NEW s \in Nat, NEW h \in Nat, s = Start, s <= h + 1
  PROVE  Sorted(Turn, s, h)'
<1>1. /\ ~f.running /\ f' = NewFetcher(Start) /\ pipe' = EmptyPipe
      /\ UNCHANGED <<opt, requests, peers, stored, faults>> /\ s <= opt.target
  BY DEF Resync
<1> DEFINE t == [f |-> NewFetcher(Start), requests |-> requests, pipe |-> EmptyPipe,
                 peers |-> peers]
<1>2. ActiveOf(requests) = {}
  BY <1>1, TurnFacts DEF Accounted, Nowhere
<1>3. s >= 1
  BY StartFacts DEF Inv
<1>4. NewFetcher(Start) \in Fetchers(opt)
  BY <1>1, <1>2, <1>3, TurnFacts, NewFetcherFacts
<1>5. EmptyPipe \in Pipes(opt) /\ Line(EmptyPipe) = <<>> /\ EmptyPipe.done = 0
  BY <1>1, TurnFacts, EmptyPipeFacts DEF EmptyPipe
<1>6. /\ t \in States(opt) /\ t.f = NewFetcher(s) /\ t.requests = requests /\ t.pipe = EmptyPipe
      /\ Becomes(t)
  BY <1>1, <1>4, <1>5, TurnFacts DEF Turn, States, Becomes
<1> HIDE DEF t
<1>7. Sorted(t, s, h)
  BY <1>2, <1>5, <1>6, TurnFacts, FreshSorted
<1> QED BY <1>1, <1>6, <1>7, BecomesSorted

-----------------------------------------------------------------------------
LEMMA InitOrdered == Init => OrderInv
<1> SUFFICES ASSUME Init, opt.common + 1 >= First PROVE OrderInv
  BY DEF OrderInv
<1>1. /\ opt \in Configs /\ stored = 0..opt.common /\ opt.common \in Nat
      /\ f = NewFetcher(Start) /\ requests = {} /\ pipe = EmptyPipe
  BY ConfigFacts DEF Init
<1>2. PICK h \in Nat : h = opt.common
  BY <1>1
<1>3. Start \in Nat /\ Start >= First /\ Start <= h + 1 /\ First \in Nat
  BY <1>1, <1>2, StartReach, FirstFacts
<1>4. PICK s \in First..(h + 1) : s = Start
  BY <1>3
<1>5. s \in Nat /\ s <= h + 1
  BY <1>3
<1>6. /\ Turn.f = NewFetcher(s) /\ ActiveOf(Turn.requests) = {} /\ Turn.pipe = EmptyPipe
  BY <1>1, <1>4 DEF Turn, ActiveOf
<1>7. Sorted(Turn, s, h)
  BY <1>1, <1>5, <1>6, EmptyPipeFacts, FreshSorted DEF EmptyPipe
<1> QED BY <1>1, <1>2, <1>7 DEF OrderInv

LEMMA OptStays == [Next]_vars => opt' = opt
BY DEF Next, Answer, Complete, Partial, Unexpected, Nothing, Abandoned, Expire, Rested,
       Connect, Disconnect, Reconnect, Writer, Store, StoreUnlinked, StoreThrows, Loop,
       Resync, vars

(* One case per action: the stored blocks stay, or the writer adds to them.  *)
LEMMA StepSorted ==
  ASSUME Inv, [Next]_vars, opt.common + 1 >= First, NEW h \in Nat, opt.common <= h,
         stored = 0..h, NEW s \in First..(h + 1), Sorted(Turn, s, h)
  PROVE  \E m \in Nat : /\ h <= m /\ stored' = 0..m
                        /\ \E z \in First..(m + 1) : Sorted(Turn, z, m)'
<1>1. s \in Nat /\ First \in Nat
  BY TurnFacts, FirstFacts
<1>2. SUFFICES ASSUME ~(stored' = stored /\ Sorted(Turn, s, h)')
               PROVE  \E m \in Nat : /\ h <= m /\ stored' = 0..m
                                     /\ \E z \in First..(m + 1) : Sorted(Turn, z, m)'
  OBVIOUS
<1>3. ASSUME NEW r \in requests, Answer(r) PROVE FALSE
  <2>1. stored' = stored
    BY <1>3 DEF Answer, Complete, Partial, Unexpected, Nothing, Abandoned, Expire
  <2>2. Sorted(Turn, s, h)'
    BY <1>1, <1>3, CompleteSorted, PartialSorted, UnexpectedSorted, NothingSorted,
       AbandonedSorted, ExpireSorted DEF Answer
  <2> QED BY <1>2, <2>1, <2>2
<1>4. ASSUME NEW o \in peers.resting, Rested(o) PROVE FALSE
  BY <1>1, <1>2, <1>4, RestedSorted DEF Rested
<1>5. CASE \/ \E p \in Peers : Connect(p)
           \/ \E o \in peers.pool : Disconnect(o)
           \/ \E o \in peers.bans : Reconnect(o)
           \/ UNCHANGED vars
  <2>1. UNCHANGED <<opt, f, requests, pipe, stored>>
    BY <1>5 DEF Connect, Disconnect, Reconnect, vars
  <2> QED BY <1>2, <2>1, StillSorted
<1>6. CASE Store
  <2>1. PICK m \in Nat : h <= m /\ stored' = 0..m /\ Sorted(Turn, s, m)'
    BY <1>1, <1>6, StoreSorted
  <2>2. s \in First..(m + 1)
    BY <1>1, <2>1
  <2> QED BY <2>1, <2>2
<1>7. CASE StoreUnlinked
  <2>1. pipe.batch # <<>> /\ ~Links(Storing)
    BY <1>7 DEF StoreUnlinked
  <2> QED BY <1>1, <2>1, LinksFacts
<1>8. CASE StoreThrows
  BY <1>1, <1>2, <1>8, StoreThrowsSorted DEF StoreThrows
<1>9. CASE Loop
  BY <1>1, <1>2, <1>9, LoopSorted DEF Loop
<1>10. CASE Resync
  <2>1. Start \in Nat /\ Start >= First /\ Start <= h + 1
    BY TurnFacts, StartReach
  <2>2. PICK z \in First..(h + 1) : z = Start
    BY <1>1, <2>1
  <2>3. Sorted(Turn, z, h)'
    BY <1>1, <1>10, <2>1, <2>2, ResyncSorted
  <2>4. stored' = 0..h
    BY <1>10 DEF Resync
  <2> QED BY <2>3, <2>4
<1> QED BY <1>3, <1>4, <1>5, <1>6, <1>7, <1>8, <1>9, <1>10 DEF Next, Writer

LEMMA NextOrdered == Inv /\ OrderInv /\ [Next]_vars => OrderInv'
<1> SUFFICES ASSUME Inv, OrderInv, [Next]_vars PROVE OrderInv'
  OBVIOUS
<1>1. opt' = opt /\ First' = First
  BY OptStays DEF First
<1> SUFFICES ASSUME opt.common + 1 >= First PROVE OrderInv'
  BY <1>1 DEF OrderInv
<1>2. PICK h \in Nat : /\ opt.common <= h /\ stored = 0..h
                       /\ \E s \in First..(h + 1) : Sorted(Turn, s, h)
  BY DEF OrderInv
<1>3. PICK s \in First..(h + 1) : Sorted(Turn, s, h)
  BY <1>2
<1>4. PICK m \in Nat : /\ h <= m /\ stored' = 0..m
                       /\ \E z \in First..(m + 1) : Sorted(Turn, z, m)'
  BY <1>2, <1>3, StepSorted
<1>5. opt.common <= m
  <2>1. opt.common \in Nat
    BY TurnFacts, ConfigFacts
  <2> QED BY <1>2, <1>4, <2>1
<1>6. /\ opt'.common <= m /\ stored' = 0..m
      /\ \E z \in First'..(m + 1) : Sorted(Turn, z, m)'
  BY <1>1, <1>4, <1>5
<1> QED BY <1>6 DEF OrderInv

(* The results go to the chain in the order of the jobs, whatever the order  *)
(* of the answers: if the chains do not differ below the first block asked   *)
(* for, the writer of blockfetcher.ts never meets a missing parent and no    *)
(* job steps back.                                                           *)
THEOREM ResultsInOrder == Spec => []InOrder
<1>1. Inv /\ OrderInv => InOrder
  <2> SUFFICES ASSUME Inv, OrderInv, opt.common + 1 >= First
               PROVE  /\ \A j \in f.in : j.first >= First
                      /\ pipe.batch # <<>> => Links(Storing)
    BY DEF InOrder, First
  <2>1. PICK h \in Nat : /\ opt.common <= h /\ stored = 0..h
                         /\ \E s \in First..(h + 1) : Sorted(Turn, s, h)
    BY DEF OrderInv
  <2>2. PICK s \in First..(h + 1) : Sorted(Turn, s, h)
    BY <2>1
  <2>3. First \in Nat /\ s \in Nat /\ s >= First
    <3>1. First \in Nat
      BY TurnFacts, FirstFacts
    <3> QED BY <3>1
  <2>4. ASSUME NEW j \in f.in PROVE j.first >= First
    <3>1. f.running
      BY <2>4, TurnFacts DEF Accounted, Nowhere
    <3>2. Ordered(f, requests, Line(pipe), s)
      BY <2>2, <3>1, TurnFacts DEF Sorted
    <3>3. j.first = At(s, j.index)
      BY <2>4, <3>2 DEF Ordered, Ahead, Placed
    <3>4. j.index \in Nat
      BY <2>4, TurnFacts DEF Fetchers, Jobs
    <3>5. At(s, j.index) \in Nat /\ At(s, j.index) >= s
      BY <2>3, <3>4, TurnFacts, AtFacts
    <3> QED BY <2>3, <3>3, <3>5
  <2>5. pipe.batch # <<>> => Links(Storing)
    BY <2>1, <2>2, <2>3, LinksFacts
  <2> QED BY <2>4, <2>5
<1>2. Spec => []OrderInv
  BY InvAlways, InitOrdered, NextOrdered, PTL DEF Spec
<1> QED BY <1>1, <1>2, InvAlways, PTL
=============================================================================
