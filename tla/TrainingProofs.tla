--------------------------- MODULE TrainingProofs ----------------------------
(* Training and its checkpoints for every number of ranks and every setting of   *)
(* the arguments: whatever is interrupted whenever, all ranks are always in the  *)
(* state of a run that was not, and every file holds what that run would save.   *)
EXTENDS Training, Arithmetic

-------------------------------------------------------------------------------
(* The run that is never interrupted: batch sizes, the samples all data-parallel *)
(* ranks draw together, and the state after each iteration.                      *)

W == MicroBatchTimesDp

LEMMA WType == W \in Nat \ {0}
BY Sizes, TimesPositive DEF W, MicroBatchTimesDp

-----------------------------------------------------------------------------
(* Ranks                                                                        *)

LEMMA RankParts ==
  ASSUME NEW r \in Rank
  PROVE  /\ MpRank(r) \in 0 .. M - 1 /\ DpRank(r) \in 0 .. D - 1
         /\ r = DpRank(r) * M + MpRank(r)
<1>1. M \in Nat \ {0} /\ D \in Nat \ {0} /\ r \in Int
  BY Sizes DEF Rank
<1>2. r \in 0 .. D * M - 1
  BY <1>1 DEF Rank
<1>3. r \div M \in 0 .. D - 1
  BY <1>1, <1>2, QuotientBounds
<1>. QED BY <1>1, <1>3, Division DEF MpRank, DpRank

LEMMA RankOf ==
  ASSUME NEW m \in 0 .. M - 1, NEW d \in 0 .. D - 1
  PROVE  d * M + m \in Rank /\ MpRank(d * M + m) = m /\ DpRank(d * M + m) = d
<1>1. M \in Nat \ {0} /\ D \in Nat \ {0} /\ m \in Nat /\ d \in Int
  BY Sizes
<1>2. d * M + m \in Rank
  <2>1. 0 * M <= d * M /\ (d + 1) * M <= D * M
    BY <1>1, TimesMonotonic
  <2>2. (d + 1) * M = d * M + M /\ D * M = M * D /\ 0 * M = 0
    BY <1>1
  <2>3. d * M \in Int /\ M * D \in Int
    BY <1>1
  <2>. QED BY <1>1, <2>1, <2>2, <2>3 DEF Rank
<1>. QED BY <1>1, <1>2, DivisionUnique DEF MpRank, DpRank

(* The writers: data-parallel rank 0.                                           *)
LEMMA Writers ==
  ASSUME NEW r \in Rank
  PROVE  DpRank(r) = 0 => r \in 0 .. M - 1 /\ MpRank(r) = r
<1>1. M \in Nat \ {0} /\ MpRank(r) \in 0 .. M - 1 /\ DpRank(r) \in Int /\ r = DpRank(r) * M + MpRank(r)
  BY Sizes, RankParts
<1>2. ASSUME DpRank(r) = 0 PROVE r = MpRank(r)
  BY <1>1, <1>2
<1>. QED BY <1>1, <1>2

LEMMA WriterOf ==
  ASSUME NEW m \in 0 .. M - 1
  PROVE  m \in Rank /\ MpRank(m) = m /\ DpRank(m) = 0
<1>1. 0 \in 0 .. D - 1 /\ 0 * M + m = m
  BY Sizes
<1>. QED BY <1>1, RankOf

LEMMA FirstRank == 0 \in Rank /\ 0 \in 0 .. M - 1 /\ MpRank(0) = 0 /\ DpRank(0) = 0
<1>1. 0 \in 0 .. M - 1
  BY Sizes
<1>. QED BY <1>1, WriterOf

-----------------------------------------------------------------------------
(* Batches                                                                      *)

(* With or without ramp-up, a batch is a positive number of micro-batches of    *)
(* all data-parallel ranks.                                                     *)
LEMMA Batches ==
  ASSUME NEW c \in Nat
  PROVE  /\ BatchSize(c) \in Nat \ {0} /\ NumMicrobatches(c) \in Nat \ {0}
         /\ NumMicrobatches(c) * W = BatchSize(c)
<1>. USE WType
<1>1. BatchSize(c) \in Nat \ {0} /\ BatchSize(c) % W = 0
  <2>1. CASE ~Rampup \/ c > RampSamples
    BY <2>1, Sizes, BatchAssumption DEF BatchSize, W
  <2>2. CASE Rampup /\ ~(c > RampSamples)
    <3>. DEFINE k == RampSteps(c)
                p == Start \div W
                q == Increment \div W
    <3>1. /\ Start \in Nat \ {0} /\ Increment \in Nat \ {0} /\ RampSamples \in Nat \ {0}
          /\ Start % W = 0 /\ Increment % W = 0 /\ GlobalBatch - Start \in Nat
      BY <2>2, RampAssumption, Sizes DEF W
    <3>2. k \in Nat
      <4>1. (GlobalBatch - Start) \div Increment \in Nat
        BY <3>1
      <4>2. c * ((GlobalBatch - Start) \div Increment) \in Nat
        BY <4>1
      <4>. QED BY <3>1, <4>2 DEF RampSteps
    <3>3. Start = p * W /\ Increment = q * W /\ p \in Int /\ q \in Int
      BY <3>1, MultipleOf, Division
    <3>. HIDE DEF k, p, q
    <3>4. Start + k * Increment = (p + k * q) * W + 0
      <4>1. k * (q * W) = (k * q) * W
        BY <3>2, <3>3
      <4>2. k * q \in Int
        BY <3>2, <3>3
      <4>. QED BY <3>2, <3>3, <4>1, <4>2
    <3>5. (Start + k * Increment) % W = 0
      <4>. DEFINE u == p + k * q
      <4>1. u \in Int /\ 0 \in 0 .. W - 1
        BY <3>2, <3>3
      <4>2. Start + k * Increment = u * W + 0
        BY <3>4
      <4>. HIDE DEF u
      <4>3. (u * W + 0) % W = 0
        BY <4>1, DivisionUnique
      <4>. QED BY <4>2, <4>3
    <3>6. BatchSize(c) = Start + k * Increment
      BY <2>2 DEF BatchSize, k
    <3>7. k * Increment \in Nat
      BY <3>1, <3>2
    <3>. QED BY <3>1, <3>5, <3>6, <3>7
  <2>. QED BY <2>1, <2>2
<1>2. NumMicrobatches(c) * W = BatchSize(c) /\ NumMicrobatches(c) \in Int
  <2>. DEFINE b == BatchSize(c)
  <2>1. b \in Int /\ b % W = 0 /\ NumMicrobatches(c) = b \div W
    BY <1>1 DEF NumMicrobatches, W
  <2>. HIDE DEF b
  <2>2. b = (b \div W) * W /\ b \div W \in Int
    BY <2>1, MultipleOf, Division
  <2>. QED BY <2>1, <2>2 DEF b
<1>3. 0 * W < NumMicrobatches(c) * W
  BY <1>1, <1>2
<1>4. 0 < NumMicrobatches(c)
  BY <1>2, <1>3, TimesCancel
<1>. QED BY <1>1, <1>2, <1>4

(* The ranks of a data-parallel group draw the next n * W samples together.     *)
LEMMA Draws ==
  ASSUME NEW c \in Nat, NEW n \in Nat \ {0}, NEW m \in 0 .. M - 1
  PROVE  UNION {Draw(s, c, n) : s \in {t \in Rank : MpRank(t) = m}} = c .. c + n * W - 1
<1>. USE WType
<1>. DEFINE Group == {t \in Rank : MpRank(t) = m}
            All == UNION {Draw(s, c, n) : s \in Group}
<1>0. MicroBatch \in Nat \ {0} /\ D \in Nat \ {0} /\ W = D * MicroBatch /\ MicroBatchTimesDp = W
  BY Sizes DEF W, MicroBatchTimesDp
<1>1. ASSUME NEW x \in All PROVE x \in c .. c + n * W - 1
  <2>1. PICK s \in Group : x \in Draw(s, c, n)
    BY <1>1
  <2>2. PICK k \in 0 .. n - 1, j \in 0 .. MicroBatch - 1 :
          x = c + k * W + DpRank(s) * MicroBatch + j
    BY <1>0, <2>1 DEF Draw
  <2>. DEFINE d == DpRank(s)
  <2>3. d \in 0 .. D - 1
    BY <2>1, RankParts
  <2>. HIDE DEF d
  <2>4. 0 * MicroBatch <= d * MicroBatch /\ (d + 1) * MicroBatch <= D * MicroBatch
    BY <1>0, <2>3, TimesMonotonic
  <2>5. 0 <= d * MicroBatch + j /\ d * MicroBatch + j < W /\ d * MicroBatch \in Int
    BY <1>0, <2>2, <2>3, <2>4
  <2>6. 0 * W <= k * W /\ (k + 1) * W <= n * W
    BY <2>2, TimesMonotonic
  <2>7. 0 <= k * W /\ k * W + W <= n * W /\ k * W \in Int /\ n * W \in Int
    BY <2>2, <2>6
  <2>8. x = c + k * W + d * MicroBatch + j
    BY <2>2 DEF d
  <2>. QED BY <2>2, <2>5, <2>7, <2>8
<1>2. ASSUME NEW x \in c .. c + n * W - 1 PROVE x \in All
  <2>. DEFINE y == x - c
              k == y \div W
              z == y % W
              d == z \div MicroBatch
              j == z % MicroBatch
  <2>1. y \in 0 .. n * W - 1 /\ y \in Int
    BY <1>2
  <2>2. k \in 0 .. n - 1 /\ z \in 0 .. W - 1 /\ y = k * W + z /\ z \in Int
    <3>. HIDE DEF y
    <3>1. k \in 0 .. n - 1
      BY <2>1, QuotientBounds
    <3>. QED BY <2>1, <3>1, Division
  <2>. HIDE DEF k, z
  <2>3. d \in 0 .. D - 1 /\ j \in 0 .. MicroBatch - 1 /\ z = d * MicroBatch + j
    <3>1. d \in 0 .. D - 1
      BY <1>0, <2>2, QuotientBounds
    <3>. QED BY <1>0, <2>2, <3>1, Division
  <2>. HIDE DEF d, j
  <2>4. d * M + m \in Group /\ DpRank(d * M + m) = d
    BY <2>3, RankOf
  <2>5. x = c + k * W + d * MicroBatch + j
    <3>1. k * W \in Int /\ d * MicroBatch \in Int
      BY <1>0, <2>2, <2>3
    <3>2. x = c + y
      BY <1>2
    <3>. HIDE DEF y
    <3>. QED BY <1>0, <2>2, <2>3, <3>1, <3>2
  <2>6. x \in Draw(d * M + m, c, n)
    <3>. DEFINE s == d * M + m
    <3>1. x = c + k * MicroBatchTimesDp + DpRank(s) * MicroBatch + j
      BY <1>0, <2>4, <2>5
    <3>. HIDE DEF s
    <3>2. \E a \in 0 .. n - 1, b \in 0 .. MicroBatch - 1 :
            x = c + a * MicroBatchTimesDp + DpRank(s) * MicroBatch + b
      BY <2>2, <2>3, <3>1, Zenon
    <3>3. x \in Draw(s, c, n)
      BY <3>2, SMTT(20) DEF Draw
    <3>. QED BY <3>3 DEF s
  <2>. QED BY <2>4, <2>6
<1>. QED BY <1>1, <1>2

-----------------------------------------------------------------------------
(* The run that is never interrupted                                            *)

NextRun(s) ==
  Trained(s, BatchSize(s.consumed) \div MicroBatchTimesDp,
          s.consumed .. s.consumed + BatchSize(s.consumed) - 1)

(* The recursive definition of Uninterrupted defines a function: the run up to  *)
(* iteration n is extended by one iteration at a time.                          *)
LEMMA UninterruptedDef ==
  /\ Uninterrupted[0] = Fresh(0)
  /\ \A n \in 0 .. TrainIters - 1 : Uninterrupted[n + 1] = NextRun(Uninterrupted[n])
<1>. DEFINE F(g, n) == [i \in 0 .. n |-> IF i = 0 THEN Fresh(0) ELSE NextRun(g[i - 1])]
            S == {n \in 0 .. TrainIters : \E g : g = F(g, n)}
<1>0. TrainIters \in Nat
  BY TrainingAssumption
<1>1. 0 \in S
  <2>1. [i \in 0 .. 0 |-> Fresh(0)] = F([i \in 0 .. 0 |-> Fresh(0)], 0)
    OBVIOUS
  <2>. HIDE DEF F
  <2>2. \E g : g = F(g, 0)
    BY <2>1
  <2>. QED BY <1>0, <2>2
<1>2. ASSUME NEW n \in 0 .. TrainIters - 1, n \in S PROVE n + 1 \in S
  <2>1. PICK g : g = F(g, n)
    BY <1>2
  <2>. DEFINE h == [i \in 0 .. n + 1 |-> IF i \in 0 .. n THEN g[i] ELSE NextRun(g[n])]
  <2>2. ASSUME NEW i \in 0 .. n + 1
        PROVE  h[i] = IF i = 0 THEN Fresh(0) ELSE NextRun(h[i - 1])
    <3>1. CASE i = 0
      BY <1>0, <2>1, <3>1
    <3>2. CASE i \in 1 .. n
      <4>1. i - 1 \in 0 .. n /\ i \in 0 .. n /\ i # 0
        BY <1>0, <3>2
      <4>2. g[i] = NextRun(g[i - 1])
        BY <2>1, <4>1
      <4>3. h[i] = g[i] /\ h[i - 1] = g[i - 1]
        BY <4>1
      <4>. QED BY <4>1, <4>2, <4>3
    <3>3. CASE i = n + 1
      <4>1. i # 0 /\ i - 1 = n /\ i \notin 0 .. n /\ n \in 0 .. n /\ n \in 0 .. n + 1
        BY <1>0, <3>3
      <4>2. h[i] = NextRun(g[n]) /\ h[n] = g[n]
        BY <4>1
      <4>. QED BY <4>1, <4>2
    <3>. QED BY <3>1, <3>2, <3>3
  <2>3. h = F(h, n + 1)
    <3>. HIDE DEF h
    <3>1. h = [i \in 0 .. n + 1 |-> h[i]]
      BY DEF h
    <3>. QED BY <2>2, <3>1
  <2>4. n + 1 \in 0 .. TrainIters
    BY <1>0
  <2>. QED BY <2>3, <2>4
<1>3. 0 .. TrainIters \subseteq S
  <2>. HIDE DEF S
  <2>. QED BY <1>0, <1>1, <1>2, InductUpTo
<1>4. \E g : g = F(g, TrainIters)
  <2>1. TrainIters \in S
    BY <1>0, <1>3
  <2>. QED BY <2>1
<1>5. Uninterrupted = CHOOSE g : g = F(g, TrainIters)
  BY DEF Uninterrupted, NextRun
<1>6. Uninterrupted = F(Uninterrupted, TrainIters)
  BY <1>4, <1>5
<1>7. Uninterrupted[0] = Fresh(0)
  BY <1>0, <1>6
<1>8. ASSUME NEW n \in 0 .. TrainIters - 1
      PROVE  Uninterrupted[n + 1] = NextRun(Uninterrupted[n])
  <2>1. n + 1 \in 0 .. TrainIters /\ n + 1 # 0 /\ (n + 1) - 1 = n
    BY <1>0
  <2>. QED BY <1>6, <2>1
<1>. QED BY <1>7, <1>8

(* What the iterations leave behind: the histories of the samples, ordered and  *)
(* without a gap, and counters and loss scales within their bounds.             *)
Update == [samples : SUBSET Nat, applied : BOOLEAN]
Scaler == [scale : Int, growth : 0 .. GrowthInterval - 1, hysteresis : Int]
State ==
  [ iteration : Nat, consumed : Nat, steps : Nat, model : Seq(Update), main : Seq(Update),
    scaler : Scaler, rng : [stream : Nat, drawn : Nat] ]

Ordered(history) == \A i, j \in DOMAIN history : i < j => Below(history[i].samples, history[j].samples)
Covers(history, n) == UNION {history[i].samples : i \in DOMAIN history} = 0 .. n - 1

Sound(s, n) ==
  /\ s \in State
  /\ s.iteration = n /\ s.steps <= s.consumed /\ s.scaler.scale >= MinScale
  /\ Len(s.main) = n /\ Covers(s.main, s.consumed) /\ Ordered(s.main)

LEMMA HistoryAppend ==
  ASSUME NEW h \in Seq(Update), NEW c \in Nat, NEW b \in Nat \ {0}, NEW u \in Update,
         u.samples = c .. c + b - 1, Covers(h, c), Ordered(h)
  PROVE  Covers(Append(h, u), c + b) /\ Ordered(Append(h, u))
<1>. DEFINE g == Append(h, u)
            l == Len(h)
<1>1. /\ l \in Nat /\ DOMAIN h = 1 .. l /\ DOMAIN g = 1 .. l + 1
      /\ g[l + 1] = u /\ \A i \in 1 .. l : g[i] = h[i]
      /\ \A i \in 1 .. l : h[i].samples \subseteq Nat
  <2>1. \A i \in 1 .. l : h[i] \in Update
    OBVIOUS
  <2>2. l \in Nat /\ DOMAIN h = 1 .. l /\ DOMAIN g = 1 .. l + 1
    OBVIOUS
  <2>3. g[l + 1] = u /\ \A i \in 1 .. l : g[i] = h[i]
    OBVIOUS
  <2>. QED BY <2>1, <2>2, <2>3 DEF Update
<1>. HIDE DEF g, l
<1>2. \A x : (\E i \in 1 .. l : x \in h[i].samples) <=> x \in 0 .. c - 1
  BY <1>1 DEF Covers
<1>3. Covers(g, c + b)
  <2>1. ASSUME NEW x PROVE (\E i \in 1 .. l + 1 : x \in g[i].samples) <=> x \in 0 .. c + b - 1
    <3>1. ASSUME NEW i \in 1 .. l + 1, x \in g[i].samples PROVE x \in 0 .. c + b - 1
      <4>1. CASE i = l + 1
        BY <1>1, <3>1, <4>1
      <4>2. CASE i \in 1 .. l
        BY <1>1, <1>2, <3>1, <4>2
      <4>. QED BY <1>1, <4>1, <4>2
    <3>2. ASSUME x \in 0 .. c + b - 1 PROVE \E i \in 1 .. l + 1 : x \in g[i].samples
      <4>1. CASE x \in 0 .. c - 1
        <5>1. PICK i \in 1 .. l : x \in h[i].samples
          BY <1>2, <4>1
        <5>. QED BY <1>1, <5>1
      <4>2. CASE x \in c .. c + b - 1
        BY <1>1, <4>2
      <4>. QED BY <3>2, <4>1, <4>2
    <3>. QED BY <3>1, <3>2
  <2>. QED BY <1>1, <2>1 DEF Covers
<1>4. Ordered(g)
  <2>1. ASSUME NEW i \in 1 .. l + 1, NEW j \in 1 .. l + 1, i < j
        PROVE  Below(g[i].samples, g[j].samples)
    <3>1. i \in 1 .. l
      BY <1>1, <2>1
    <3>2. CASE j = l + 1
      <4>1. \A x \in g[i].samples : x \in 0 .. c - 1
        BY <1>1, <1>2, <3>1
      <4>2. g[j].samples = c .. c + b - 1
        BY <1>1, <3>2
      <4>. QED BY <4>1, <4>2 DEF Below
    <3>3. CASE j \in 1 .. l
      BY <1>1, <2>1, <3>1, <3>3 DEF Ordered
    <3>. QED BY <1>1, <3>2, <3>3
  <2>. QED BY <1>1, <2>1 DEF Ordered
<1>. QED BY <1>3, <1>4 DEF g

LEMMA ScalerUpdate ==
  ASSUME NEW s \in Scaler, s.scale >= MinScale, NEW overflow \in BOOLEAN
  PROVE  UpdateScaler(s, overflow) \in Scaler /\ UpdateScaler(s, overflow).scale >= MinScale
<1>. USE ScalerAssumption
<1>1. s.scale \in Int /\ s.growth \in 0 .. GrowthInterval - 1 /\ s.hysteresis \in Int
  BY DEF Scaler
<1>2. Backoff(s) \in Scaler /\ Backoff(s).scale >= MinScale
  BY <1>1 DEF Backoff, Larger, Scaler
<1>3. Grow(s) \in Scaler /\ Grow(s).scale >= MinScale
  <2>1. CASE s.growth + 1 = GrowthInterval
    BY <1>1, <2>1 DEF Grow, Scaler
  <2>2. CASE s.growth + 1 # GrowthInterval
    <3>1. s.growth + 1 \in 0 .. GrowthInterval - 1
      BY <1>1, <2>2
    <3>2. Grow(s) = [s EXCEPT !.growth = s.growth + 1]
      BY <2>2 DEF Grow
    <3>. QED BY <1>1, <3>1, <3>2 DEF Scaler
  <2>. QED BY <2>1, <2>2
<1>. QED BY <1>2, <1>3 DEF UpdateScaler

LEMMA NextRunSound ==
  ASSUME NEW n \in Nat, NEW s, Sound(s, n)
  PROVE  Sound(NextRun(s), n + 1)
<1>. DEFINE c == s.consumed
            b == BatchSize(c)
            overflow == s.scaler.scale > Limit
            u == [samples |-> c .. c + b - 1, applied |-> ~overflow]
            t == NextRun(s)
<1>1. /\ s.iteration = n /\ c \in Nat /\ s.steps \in Nat /\ s.steps <= c
      /\ s.model \in Seq(Update) /\ s.main \in Seq(Update) /\ s.scaler \in Scaler
      /\ s.rng \in [stream : Nat, drawn : Nat] /\ s.scaler.scale >= MinScale
      /\ Len(s.main) = n /\ Covers(s.main, c) /\ Ordered(s.main)
  BY DEF Sound, State
<1>2. b \in Nat \ {0} /\ NumMicrobatches(c) \in Nat \ {0} /\ NumMicrobatches(c) * W = b
  BY <1>1, Batches
<1>3. overflow \in BOOLEAN /\ u \in Update /\ u.samples = c .. c + b - 1
  <2>1. c .. c + b - 1 \in SUBSET Nat
    BY <1>1, <1>2
  <2>. HIDE DEF b, c
  <2>. QED BY <2>1 DEF Update
<1>4. t = [ iteration |-> n + 1, consumed |-> c + b,
            steps |-> IF overflow THEN s.steps ELSE s.steps + b,
            main |-> Append(s.main, u),
            model |-> IF overflow THEN Append(s.model, u) ELSE Append(s.main, u),
            scaler |-> UpdateScaler(s.scaler, overflow),
            rng |-> [s.rng EXCEPT !.drawn = @ + NumMicrobatches(c)] ]
  BY <1>1, <1>2 DEF NextRun, Trained, NumMicrobatches, W
<1>5. UpdateScaler(s.scaler, overflow) \in Scaler /\ UpdateScaler(s.scaler, overflow).scale >= MinScale
  BY <1>1, <1>3, ScalerUpdate
<1>6. Append(s.main, u) \in Seq(Update) /\ Append(s.model, u) \in Seq(Update) /\ Len(Append(s.main, u)) = n + 1
  BY <1>1, <1>3
<1>7. Covers(Append(s.main, u), c + b) /\ Ordered(Append(s.main, u))
  BY <1>1, <1>2, <1>3, HistoryAppend
<1>8. [s.rng EXCEPT !.drawn = @ + NumMicrobatches(c)] \in [stream : Nat, drawn : Nat]
  <2>1. ASSUME NEW g \in [stream : Nat, drawn : Nat], NEW k \in Nat
        PROVE  [g EXCEPT !.drawn = @ + k] \in [stream : Nat, drawn : Nat]
    OBVIOUS
  <2>. HIDE DEF c
  <2>. QED BY <1>1, <1>2, <2>1
<1>. HIDE DEF c, b, overflow, u, t
<1>9. t \in State
  <2>0. c \in Nat /\ b \in Nat /\ s.steps \in Nat
    BY <1>1, <1>2
  <2>1. /\ n + 1 \in Nat /\ c + b \in Nat
        /\ (IF overflow THEN s.steps ELSE s.steps + b) \in Nat
    BY <2>0
  <2>2. (IF overflow THEN Append(s.model, u) ELSE Append(s.main, u)) \in Seq(Update)
    BY <1>6
  <2>. QED BY <1>4, <1>5, <1>6, <1>8, <2>1, <2>2 DEF State
<1>10. t.steps <= t.consumed
  BY <1>1, <1>2, <1>4
<1>. QED BY <1>4, <1>5, <1>6, <1>7, <1>9, <1>10 DEF Sound, t

LEMMA FreshSound == Sound(Fresh(0), 0)
<1>1. Stream(0) \in Nat
  BY FirstRank DEF Stream
<1>2. [scale |-> InitialScale, growth |-> 0, hysteresis |-> Hysteresis] \in Scaler
  BY ScalerAssumption DEF Scaler
<1>3. Fresh(0) \in State
  BY <1>1, <1>2 DEF Fresh, State
<1>4. Covers(<<>>, 0) /\ Ordered(<<>>)
  BY DEF Covers, Ordered
<1>. QED BY <1>3, <1>4, ScalerAssumption DEF Fresh, Sound

LEMMA UninterruptedSound == \A n \in 0 .. TrainIters : Sound(Uninterrupted[n], n)
<1>. DEFINE S == {n \in 0 .. TrainIters : Sound(Uninterrupted[n], n)}
<1>0. TrainIters \in Nat
  BY TrainingAssumption
<1>1. 0 \in S
  BY <1>0, FreshSound, UninterruptedDef
<1>2. ASSUME NEW n \in 0 .. TrainIters - 1, n \in S PROVE n + 1 \in S
  <2>1. n \in Nat /\ n + 1 \in 0 .. TrainIters
    BY <1>0
  <2>2. Sound(NextRun(Uninterrupted[n]), n + 1)
    BY <1>2, <2>1, NextRunSound
  <2>. QED BY <2>1, <2>2, UninterruptedDef
<1>3. 0 .. TrainIters \subseteq S
  <2>. HIDE DEF S
  <2>. QED BY <1>0, <1>1, <1>2, InductUpTo
<1>. QED BY <1>3

-----------------------------------------------------------------------------
(* The inductive invariant                                                      *)

Iteration == run[0].iteration

(* Rank r after n iterations of a run without interruption, and the files of    *)
(* model-parallel rank m for iteration n.                                       *)
Reference(r, n) == [Uninterrupted[n] EXCEPT !.rng = [@ EXCEPT !.stream = Stream(r)]]

Content(n, m, kind) ==
  LET s == Uninterrupted[n]
  IN  IF kind = "optim" THEN [status |-> "complete", main |-> s.main]
      ELSE [ status |-> "complete", iteration |-> s.iteration, consumed |-> s.consumed,
             steps |-> s.steps, model |-> s.model, scaler |-> s.scaler,
             rng |-> IF DpRandomInit THEN [d \in 0 .. D - 1 |-> Reference(d * M + m, n).rng]
                     ELSE [d \in {0} |-> Reference(m, n).rng] ]

(* Places after an iteration, in save_checkpoint, and after a file's write.     *)
Writing    == {"openOptim", "writeOptim", "openModel", "writeModel"}
Committing == {"openTracker", "writeTracker"}
HasModel   == {"written", "tracked"} \cup Committing
HasOptim   == {"openModel", "writeModel"} \cup HasModel
InSave     == {"enter"} \cup Writing \cup HasModel
Trains     == {"signal", "interval", "duration", "exitInterval"} \cup InSave

Places_OK ==
  /\ pc \in [Rank -> Places]
  /\ saving \in [Rank -> {"none", "exit", "duration", "finished"}]
  /\ saved \in [Rank -> BOOLEAN]
  /\ tracker \in {NoFile, Empty} \cup 1 .. TrainIters
  /\ crashes \in 0 .. MaxCrashes

(* All ranks are at the same iteration, in the state of the reference there.    *)
Agreed ==
  /\ Iteration \in 0 .. TrainIters
  /\ Uninterrupted[Iteration].consumed <= TotalSamples
  /\ run = [r \in Rank |-> Reference(r, Iteration)]
  /\ cursor = [r \in Rank |-> run[r].consumed]

(* A file that is complete holds what the reference saves at its iteration.     *)
FileValue == {Absent, Partial} \cup {Content(n, m, k) : n \in 1 .. TrainIters, m \in 0 .. M - 1, k \in FileKind}
Stored ==
  /\ files \in [1 .. TrainIters -> [0 .. M - 1 -> [FileKind -> FileValue]]]
  /\ \A n \in 1 .. TrainIters, m \in 0 .. M - 1, k \in FileKind :
       \/ files[n][m][k] \in {Absent, Partial}
       \/ files[n][m][k] = Content(n, m, k) /\ Uninterrupted[n].consumed <= TotalSamples

(* What a rank's place says of it and of the files it has written.              *)
Placed(r) ==
  /\ pc[r] \in Trains => Iteration > 0
  /\ pc[r] \in InSave => saving[r] # "none"
  /\ pc[r] \in Writing => DpRank(r) = 0
  /\ pc[r] \in Committing => r = 0 /\ \A s \in Rank \ {0} : pc[s] = "tracked"
  /\ DpRank(r) = 0 /\ pc[r] \in HasOptim =>
       files[Iteration][r]["optim"] = Content(Iteration, r, "optim")
  /\ DpRank(r) = 0 /\ pc[r] \in HasModel =>
       files[Iteration][r]["model"] = Content(Iteration, r, "model")

IInv == Places_OK /\ Agreed /\ Stored /\ \A r \in Rank : Placed(r)

-----------------------------------------------------------------------------
(* The reference                                                                *)

LEMMA RunState ==
  ASSUME NEW n \in 0 .. TrainIters
  PROVE  LET s == Uninterrupted[n]
         IN  /\ s \in State /\ s.iteration = n /\ n \in Nat
             /\ s.consumed \in Nat /\ s.steps \in Nat /\ s.steps <= s.consumed
             /\ s.model \in Seq(Update) /\ s.main \in Seq(Update)
             /\ s.scaler.scale >= MinScale /\ s.scaler.growth \in 0 .. GrowthInterval - 1
             /\ s.scaler \in Scaler /\ s.rng.drawn \in Nat
<1>. DEFINE s == Uninterrupted[n]
<1>1. Sound(s, n) /\ n \in Nat
  BY UninterruptedSound, TrainingAssumption
<1>. HIDE DEF s
<1>2. /\ s \in State /\ s.iteration = n /\ s.steps <= s.consumed /\ s.scaler.scale >= MinScale
  BY <1>1 DEF Sound
<1>3. /\ s.consumed \in Nat /\ s.steps \in Nat /\ s.model \in Seq(Update) /\ s.main \in Seq(Update)
      /\ s.scaler \in Scaler /\ s.rng \in [stream : Nat, drawn : Nat]
  BY <1>2 DEF State
<1>4. s.scaler.growth \in 0 .. GrowthInterval - 1 /\ s.rng.drawn \in Nat
  BY <1>3 DEF Scaler
<1>. QED BY <1>1, <1>2, <1>3, <1>4 DEF s

LEMMA ReferenceState ==
  ASSUME NEW n \in 0 .. TrainIters, NEW r
  PROVE  Reference(r, n) =
           [ iteration |-> n, consumed |-> Uninterrupted[n].consumed,
             steps |-> Uninterrupted[n].steps, model |-> Uninterrupted[n].model,
             main |-> Uninterrupted[n].main, scaler |-> Uninterrupted[n].scaler,
             rng |-> [stream |-> Stream(r), drawn |-> Uninterrupted[n].rng.drawn] ]
<1>. DEFINE s == Uninterrupted[n]
<1>1. s \in State /\ s.iteration = n
  BY RunState
<1>2. Reference(r, n) = [s EXCEPT !.rng = [@ EXCEPT !.stream = Stream(r)]]
  BY DEF Reference
<1>. HIDE DEF s
<1>3. s.rng \in [stream : Nat, drawn : Nat]
  BY <1>1 DEF State
<1>4. [s.rng EXCEPT !.stream = Stream(r)] = [stream |-> Stream(r), drawn |-> s.rng.drawn]
  BY <1>3
<1>5. \A x : [s EXCEPT !.rng = x] =
            [ iteration |-> n, consumed |-> s.consumed, steps |-> s.steps, model |-> s.model,
              main |-> s.main, scaler |-> s.scaler, rng |-> x ]
  BY <1>1 DEF State
<1>6. Reference(r, n) = [s EXCEPT !.rng = [stream |-> Stream(r), drawn |-> s.rng.drawn]]
  BY <1>2, <1>4
<1>. QED BY <1>5, <1>6 DEF s

LEMMA ReferenceFresh ==
  ASSUME NEW r
  PROVE  Reference(r, 0) = Fresh(r)
<1>1. 0 \in 0 .. TrainIters
  BY TrainingAssumption
<1>2. Uninterrupted[0] = Fresh(0)
  BY UninterruptedDef
<1>. QED BY <1>1, <1>2, ReferenceState DEF Fresh

(* Iteration n + 1 of rank r.                                                   *)
LEMMA ReferenceNext ==
  ASSUME NEW n \in 0 .. TrainIters - 1, NEW r
  PROVE  LET c == Uninterrupted[n].consumed
         IN  /\ Reference(r, n + 1) =
                  Trained(Reference(r, n), NumMicrobatches(c), c .. c + BatchSize(c) - 1)
             /\ Uninterrupted[n + 1].consumed = c + BatchSize(c)
<1>. DEFINE s == Uninterrupted[n]
            c == s.consumed
            t == Uninterrupted[n + 1]
            overflow == s.scaler.scale > Limit
            u == [samples |-> c .. c + BatchSize(c) - 1, applied |-> ~overflow]
<1>0. n \in 0 .. TrainIters /\ n + 1 \in 0 .. TrainIters /\ n \in Nat
  BY TrainingAssumption
<1>1. t = Trained(s, NumMicrobatches(c), c .. c + BatchSize(c) - 1)
  BY UninterruptedDef DEF NextRun, NumMicrobatches
<1>2. NumMicrobatches(c) * MicroBatchTimesDp = BatchSize(c) /\ s.iteration = n
  BY <1>0, RunState, Batches DEF W
<1>3. /\ t.consumed = c + BatchSize(c)
      /\ t.steps = IF overflow THEN s.steps ELSE s.steps + BatchSize(c)
      /\ t.main = Append(s.main, u)
      /\ t.model = IF overflow THEN Append(s.model, u) ELSE Append(s.main, u)
      /\ t.scaler = UpdateScaler(s.scaler, overflow)
      /\ t.rng = [s.rng EXCEPT !.drawn = @ + NumMicrobatches(c)]
  BY <1>1, <1>2 DEF Trained
<1>4. s.rng \in [stream : Nat, drawn : Nat]
  <2>. HIDE DEF s
  <2>1. s \in State
    BY <1>0, RunState DEF s
  <2>. QED BY <2>1 DEF State
<1>5. t.rng.drawn = s.rng.drawn + NumMicrobatches(c)
  BY <1>3, <1>4
<1>6. Reference(r, n) = [ iteration |-> n, consumed |-> c, steps |-> s.steps, model |-> s.model,
                          main |-> s.main, scaler |-> s.scaler,
                          rng |-> [stream |-> Stream(r), drawn |-> s.rng.drawn] ]
  BY <1>0, ReferenceState
<1>7. Reference(r, n + 1) =
        [ iteration |-> n + 1, consumed |-> t.consumed, steps |-> t.steps, model |-> t.model,
          main |-> t.main, scaler |-> t.scaler,
          rng |-> [stream |-> Stream(r), drawn |-> t.rng.drawn] ]
  BY <1>0, ReferenceState
<1>. HIDE DEF s, t, c
<1>8. Trained(Reference(r, n), NumMicrobatches(c), c .. c + BatchSize(c) - 1) =
        [ iteration |-> n + 1, consumed |-> c + BatchSize(c),
          steps |-> IF overflow THEN s.steps ELSE s.steps + BatchSize(c),
          main |-> Append(s.main, u),
          model |-> IF overflow THEN Append(s.model, u) ELSE Append(s.main, u),
          scaler |-> UpdateScaler(s.scaler, overflow),
          rng |-> [stream |-> Stream(r), drawn |-> s.rng.drawn + NumMicrobatches(c)] ]
  <2>. DEFINE q == Reference(r, n)
              k == NumMicrobatches(c)
              batch == c .. c + BatchSize(c) - 1
  <2>1. /\ q.iteration = n /\ q.consumed = c /\ q.steps = s.steps /\ q.model = s.model
        /\ q.main = s.main /\ q.scaler = s.scaler
        /\ q.rng = [stream |-> Stream(r), drawn |-> s.rng.drawn]
    BY <1>6
  <2>2. k * MicroBatchTimesDp = BatchSize(c)
    BY <1>2
  <2>. HIDE DEF q, k, batch
  <2>3. [q.rng EXCEPT !.drawn = @ + k] = [stream |-> Stream(r), drawn |-> s.rng.drawn + k]
    BY <2>1
  <2>4. Trained(q, k, batch) =
          [ iteration |-> n + 1, consumed |-> c + BatchSize(c),
            steps |-> IF overflow THEN s.steps ELSE s.steps + BatchSize(c),
            main |-> Append(s.main, [samples |-> batch, applied |-> ~overflow]),
            model |-> IF overflow THEN Append(s.model, [samples |-> batch, applied |-> ~overflow])
                      ELSE Append(s.main, [samples |-> batch, applied |-> ~overflow]),
            scaler |-> UpdateScaler(s.scaler, overflow),
            rng |-> [stream |-> Stream(r), drawn |-> s.rng.drawn + k] ]
    BY <2>1, <2>2, <2>3 DEF Trained
  <2>. QED BY <2>4 DEF q, k, batch
<1>9. Reference(r, n + 1) = Trained(Reference(r, n), NumMicrobatches(c), c .. c + BatchSize(c) - 1)
  BY <1>3, <1>5, <1>7, <1>8
<1>. QED BY <1>3, <1>9 DEF s, t, c

-----------------------------------------------------------------------------
(* What the invariant says of the data                                          *)

LEMMA RunIs ==
  ASSUME Agreed, NEW r \in Rank
  PROVE  /\ run[r] = Reference(r, Iteration) /\ run[r].iteration = Iteration
         /\ run[r].consumed = Uninterrupted[Iteration].consumed
         /\ cursor[r] = Uninterrupted[Iteration].consumed
<1>1. run[r] = Reference(r, Iteration) /\ cursor[r] = run[r].consumed /\ Iteration \in 0 .. TrainIters
  BY DEF Agreed
<1>. QED BY <1>1, ReferenceState

(* What a writer saves is what the reference would save.                        *)
LEMMA SnapshotIs ==
  ASSUME Agreed, NEW r \in Rank, DpRank(r) = 0, NEW kind \in FileKind
  PROVE  Snapshot(r, kind) = Content(Iteration, r, kind)
<1>. DEFINE n == Iteration
            s == Uninterrupted[n]
<1>1. MpRank(r) = r /\ r \in 0 .. M - 1 /\ n \in 0 .. TrainIters
  BY Writers DEF Agreed
<1>2. \A t \in Rank : run[t] = Reference(t, n)
  BY RunIs
<1>3. RngStates(r) = IF DpRandomInit THEN [d \in 0 .. D - 1 |-> Reference(d * M + r, n).rng]
                     ELSE [d \in {0} |-> Reference(r, n).rng]
  <2>1. \A d \in 0 .. D - 1 : d * M + r \in Rank
    BY <1>1, RankOf
  <2>2. \A d \in 0 .. D - 1 : run[d * M + MpRank(r)].rng = Reference(d * M + r, n).rng
    BY <1>1, <1>2, <2>1
  <2>3. [d \in 0 .. D - 1 |-> run[d * M + MpRank(r)].rng] = [d \in 0 .. D - 1 |-> Reference(d * M + r, n).rng]
    BY <2>2
  <2>. QED BY <1>2, <2>3 DEF RngStates
<1>4. /\ run[r].main = s.main /\ run[r].iteration = s.iteration /\ run[r].consumed = s.consumed
      /\ run[r].steps = s.steps /\ run[r].model = s.model /\ run[r].scaler = s.scaler
  BY <1>1, <1>2, ReferenceState, RunState
<1>. HIDE DEF s, n
<1>5. Content(n, r, kind) =
        IF kind = "optim" THEN [status |-> "complete", main |-> s.main]
        ELSE [ status |-> "complete", iteration |-> s.iteration, consumed |-> s.consumed,
               steps |-> s.steps, model |-> s.model, scaler |-> s.scaler, rng |-> RngStates(r) ]
  BY <1>3 DEF Content, s
<1>. QED BY <1>4, <1>5 DEF Snapshot, n

LEMMA ContentFields ==
  ASSUME NEW n \in 0 .. TrainIters, NEW m
  PROVE  LET s == Uninterrupted[n]
             f == Content(n, m, "model")
         IN  /\ Content(n, m, "optim") = [status |-> "complete", main |-> s.main]
             /\ f.status = "complete" /\ f.iteration = n /\ f.consumed = s.consumed
             /\ f.steps = s.steps /\ f.model = s.model /\ f.scaler = s.scaler
             /\ f.rng = IF DpRandomInit THEN [d \in 0 .. D - 1 |-> Reference(d * M + m, n).rng]
                        ELSE [d \in {0} |-> Reference(m, n).rng]
BY RunState DEF Content

LEMMA FileStatus ==
  ASSUME NEW n \in 1 .. TrainIters, NEW m, NEW k \in FileKind
  PROVE  /\ Absent.status = "absent" /\ Partial.status = "partial"
         /\ Content(n, m, k).status = "complete"
<1>1. n \in 0 .. TrainIters
  BY TrainingAssumption
<1>2. Absent.status = "absent" /\ Partial.status = "partial"
  BY DEF Absent, Partial
<1>3. Content(n, m, "optim").status = "complete"
  <2>1. Content(n, m, "optim") = [status |-> "complete", main |-> Uninterrupted[n].main]
    BY <1>1, ContentFields
  <2>. QED BY <2>1
<1>4. Content(n, m, "model").status = "complete"
  BY <1>1, ContentFields
<1>. QED BY <1>2, <1>3, <1>4 DEF FileKind

LEMMA CompleteFiles ==
  ASSUME Stored, NEW n \in 1 .. TrainIters
  PROVE  Complete(n) <=> \A m \in 0 .. M - 1, k \in FileKind : files[n][m][k] = Content(n, m, k)
<1>1. \A m \in 0 .. M - 1, k \in FileKind :
        files[n][m][k] \in {Absent, Partial} \/ files[n][m][k] = Content(n, m, k)
  BY DEF Stored
<1>. QED BY <1>1, FileStatus DEF Complete

(* A rank that loads a complete checkpoint is where the reference was.          *)
LEMMA RestoredIs ==
  ASSUME Stored, NEW n \in 1 .. TrainIters, Complete(n), NEW r \in Rank
  PROVE  Restored(r, n) = Reference(r, n) /\ Uninterrupted[n].consumed <= TotalSamples
<1>. DEFINE m == MpRank(r)
            d == DpRank(r)
            s == Uninterrupted[n]
            f == files[n][m]["model"]
<1>0. n \in 0 .. TrainIters /\ 0 \in {0}
  BY TrainingAssumption
<1>1. m \in 0 .. M - 1 /\ d \in 0 .. D - 1 /\ r = d * M + m
  BY RankParts
<1>2. f = Content(n, m, "model") /\ files[n][m]["optim"] = Content(n, m, "optim")
  BY <1>1, CompleteFiles DEF FileKind
<1>2a. /\ f.iteration = n /\ f.consumed = s.consumed /\ f.steps = s.steps /\ f.model = s.model
       /\ f.scaler = s.scaler /\ files[n][m]["optim"].main = s.main
       /\ f.rng = IF DpRandomInit THEN [e \in 0 .. D - 1 |-> Reference(e * M + m, n).rng]
                  ELSE [e \in {0} |-> Reference(m, n).rng]
  <2>. HIDE DEF m, f
  <2>1. Content(n, m, "optim") = [status |-> "complete", main |-> s.main]
    BY <1>0, ContentFields
  <2>2. files[n][m]["optim"].main = s.main
    BY <1>2, <2>1
  <2>. QED BY <1>0, <1>2, <2>2, ContentFields
<1>3. s.consumed <= TotalSamples
  <2>1. f \notin {Absent, Partial}
    BY <1>2, FileStatus DEF FileKind
  <2>. QED BY <1>1, <2>1 DEF Stored, FileKind
<1>4. f.rng[IF DpRandomInit THEN d ELSE 0] = [stream |-> Stream(r), drawn |-> s.rng.drawn]
  <2>1. CASE DpRandomInit
    <3>1. f.rng = [e \in 0 .. D - 1 |-> Reference(e * M + m, n).rng]
      BY <1>2a, <2>1
    <3>2. f.rng[d] = Reference(r, n).rng
      BY <1>1, <3>1
    <3>. QED BY <1>0, <2>1, <3>2, ReferenceState
  <2>2. CASE ~DpRandomInit
    <3>1. f.rng = [e \in {0} |-> Reference(m, n).rng]
      BY <1>2a, <2>2
    <3>2. f.rng[0] = Reference(m, n).rng
      BY <3>1
    <3>3. Stream(m) = Stream(r)
      <4>1. MpRank(m) = m
        BY <1>1, WriterOf
      <4>. QED BY <2>2, <4>1 DEF Stream
    <3>. QED BY <1>0, <2>2, <3>2, <3>3, ReferenceState
  <2>. QED BY <2>1, <2>2
<1>5. Restored(r, n) =
        [ iteration |-> n, consumed |-> s.consumed, steps |-> s.steps, model |-> s.model,
          main |-> s.main, scaler |-> s.scaler,
          rng |-> [stream |-> Stream(r), drawn |-> s.rng.drawn] ]
  <2>1. Restored(r, n) =
          [ iteration |-> f.iteration, consumed |-> f.consumed, steps |-> f.steps,
            model |-> f.model, main |-> files[n][m]["optim"].main,
            scaler |-> f.scaler, rng |-> f.rng[IF DpRandomInit THEN d ELSE 0] ]
    BY DEF Restored
  <2>. HIDE DEF f, m, d, s
  <2>. QED BY <1>2a, <1>4, <2>1
<1>. QED BY <1>0, <1>3, <1>5, ReferenceState

-----------------------------------------------------------------------------
(* Steps that leave the ranks' state and the files alone                        *)

LEMMA KeepData ==
  ASSUME Agreed, Stored, UNCHANGED <<run, cursor, files>>
  PROVE  Agreed' /\ Stored' /\ Iteration' = Iteration
<1>1. Iteration' = Iteration
  BY DEF Iteration
<1>. QED BY <1>1 DEF Agreed, Stored

(* All ranks go on, and none into the part of save_checkpoint that writes.      *)
LEMMA AllMove ==
  ASSUME IInv, Places_OK', UNCHANGED <<run, cursor, files>>,
         \A r \in Rank : /\ pc'[r] \notin Writing \cup HasOptim
                         /\ pc'[r] \in Trains => Iteration > 0
                         /\ pc'[r] \in InSave => saving'[r] # "none"
  PROVE  IInv'
<1>1. Agreed' /\ Stored' /\ Iteration' = Iteration
  BY KeepData DEF IInv
<1>2. \A r \in Rank : Placed(r)'
  BY <1>1 DEF Placed, Committing, HasModel, HasOptim, Writing
<1>. QED BY <1>1, <1>2 DEF IInv

(* One rank goes on to p, out of neither the tracker file nor the last barrier. *)
LEMMA OneMove ==
  ASSUME IInv, Places_OK', NEW r \in Rank, NEW p,
         pc' = [pc EXCEPT ![r] = p], p \notin Committing,
         pc[r] # "tracked", pc[r] \notin Committing,
         UNCHANGED <<run, cursor, files>>,
         \A s \in Rank \ {r} : saving'[s] = saving[s],
         Placed(r)'
  PROVE  IInv'
<1>1. Agreed' /\ Stored' /\ Iteration' = Iteration
  BY KeepData DEF IInv
<1>2. pc \in [Rank -> Places] /\ pc'[r] = p
  BY DEF IInv, Places_OK
<1>3. ASSUME NEW s \in Rank \ {r} PROVE Placed(s)'
  <2>1. Placed(s) /\ pc'[s] = pc[s] /\ saving'[s] = saving[s] /\ files' = files
    BY <1>2 DEF IInv
  <2>2. pc[s] \notin Committing
    BY <2>1 DEF Placed
  <2>. QED BY <1>1, <2>1, <2>2 DEF Placed
<1>. QED BY <1>1, <1>3 DEF IInv

LEMMA PlaceNames ==
  /\ Trains \subseteq Places /\ InSave \subseteq Trains /\ Writing \subseteq InSave
  /\ HasOptim \subseteq InSave /\ HasModel \subseteq HasOptim /\ Committing \subseteq HasModel
  /\ {"load", "loop", "signal", "interval", "duration", "exitInterval", "enter", "exit",
      "finished", "refused"} \subseteq Places \ (Writing \cup HasOptim)
  /\ {"load", "loop", "exit", "finished", "refused"} \cap Trains = {}
  /\ {"signal", "interval", "duration", "exitInterval"} \cap InSave = {}
BY DEF Trains, Places, InSave, Writing, HasOptim, HasModel, Committing

LEMMA SignalsStep ==
  ASSUME IInv, CheckSignals
  PROVE  IInv'
<1>0. Places_OK /\ \A r \in Rank : Placed(r)
  BY DEF IInv
<1>1. Iteration > 0
  BY <1>0, FirstRank DEF CheckSignals, AllAt, Placed, Trains
<1>2. PICK received \in [Rank -> IF ExitSignal THEN BOOLEAN ELSE {FALSE}] :
        /\ pc' = [r \in Rank |-> IF AnyReceived(received, r) THEN "enter" ELSE "interval"]
        /\ saving' = [r \in Rank |-> IF AnyReceived(received, r) THEN "exit" ELSE saving[r]]
  BY DEF CheckSignals
<1>3. UNCHANGED <<saved, run, cursor, files, tracker, crashes>>
  BY DEF CheckSignals, store
<1>4. \A r \in Rank : \/ pc'[r] = "enter" /\ saving'[r] = "exit"
                      \/ pc'[r] = "interval" /\ saving'[r] = saving[r]
  BY <1>2
<1>5. Places_OK'
  BY <1>0, <1>2, <1>3, <1>4, PlaceNames DEF Places_OK
<1>. QED BY <1>1, <1>3, <1>4, <1>5, AllMove, PlaceNames

LEMMA DurationStep ==
  ASSUME IInv, CheckDuration
  PROVE  IInv'
<1>0. Places_OK /\ \A r \in Rank : Placed(r)
  BY DEF IInv
<1>1. Iteration > 0
  BY <1>0, FirstRank DEF CheckDuration, AllAt, Placed, Trains
<1>2. PICK expired \in [Rank -> IF ExitDuration THEN BOOLEAN ELSE {FALSE}] :
        /\ pc' = [r \in Rank |-> IF ~AnyExpired(expired, r) THEN "exitInterval"
                                 ELSE IF saved[r] THEN "exit" ELSE "enter"]
        /\ saving' = [r \in Rank |-> IF AnyExpired(expired, r) THEN "exit" ELSE saving[r]]
  BY DEF CheckDuration
<1>3. UNCHANGED <<saved, run, cursor, files, tracker, crashes>>
  BY DEF CheckDuration, store
<1>4. \A r \in Rank : \/ pc'[r] \in {"enter", "exit"} /\ saving'[r] = "exit"
                      \/ pc'[r] = "exitInterval" /\ saving'[r] = saving[r]
  BY <1>2
<1>5. Places_OK'
  BY <1>0, <1>2, <1>3, <1>4, PlaceNames DEF Places_OK
<1>. QED BY <1>1, <1>3, <1>4, <1>5, AllMove, PlaceNames

LEMMA LeaveSaveStep ==
  ASSUME IInv, LeaveSave
  PROVE  IInv'
<1>0. Places_OK /\ \A r \in Rank : Placed(r) /\ pc[r] = "tracked"
  BY DEF IInv, LeaveSave, AllAt
<1>1. Iteration > 0
  BY <1>0, FirstRank DEF Placed, Trains, InSave, HasModel
<1>2. \A r \in Rank : saving[r] \in {"exit", "duration", "finished"}
  BY <1>0 DEF Placed, Places_OK, InSave, HasModel
<1>3. pc' = saving /\ saving' = [r \in Rank |-> "none"]
      /\ UNCHANGED <<saved, run, cursor, files, tracker, crashes>>
  BY DEF LeaveSave, store
<1>4. Places_OK'
  <2>1. pc' \in [Rank -> Places]
    BY <1>0, <1>2, <1>3, PlaceNames DEF Places_OK
  <2>. QED BY <1>0, <1>3, <2>1 DEF Places_OK
<1>. QED BY <1>1, <1>2, <1>3, <1>4, AllMove, PlaceNames

LEMMA RestartStep ==
  ASSUME IInv, Restart \/ Crash
  PROVE  IInv'
<1>0. Places_OK
  BY DEF IInv
<1>1. pc' = [r \in Rank |-> "load"] /\ UNCHANGED <<saving, saved, run, cursor, files, tracker>>
  BY DEF Restart, Crash, Goto, store
<1>2. crashes' \in 0 .. MaxCrashes
  BY <1>0, Sizes DEF Restart, Crash, Places_OK
<1>3. Places_OK'
  BY <1>0, <1>1, <1>2, PlaceNames DEF Places_OK
<1>. QED BY <1>1, <1>3, AllMove, PlaceNames

(* CheckInterval, CheckExitInterval and EndTraining.                            *)
LEMMA BranchStep ==
  ASSUME IInv, NEW r \in Rank, CheckInterval(r) \/ CheckExitInterval(r) \/ EndTraining(r)
  PROVE  IInv'
<1>0. Places_OK /\ Placed(r) /\ Agreed /\ saving \in [Rank -> {"none", "exit", "duration", "finished"}]
  BY DEF IInv, Places_OK
<1>1. pc[r] \in {"interval", "exitInterval", "loop"} /\ UNCHANGED <<run, cursor, files, tracker, crashes>>
  BY DEF CheckInterval, CheckExitInterval, EndTraining, store
<1>2. \/ \E w \in {"duration", "exit", "finished"} : Call(r, w)
      \/ \E p \in {"duration", "loop", "exit"} : pc' = [pc EXCEPT ![r] = p] /\ saving' = saving
  BY DEF CheckInterval, CheckExitInterval, EndTraining
<1>3. PICK p \in {"duration", "loop", "exit", "enter"} :
        /\ pc' = [pc EXCEPT ![r] = p]
        /\ p = "enter" => saving'[r] # "none"
        /\ \A s \in Rank \ {r} : saving'[s] = saving[s]
        /\ saving' \in [Rank -> {"none", "exit", "duration", "finished"}]
  <2>1. CASE \E w \in {"duration", "exit", "finished"} : Call(r, w)
    <3>1. PICK w \in {"duration", "exit", "finished"} : Call(r, w)
      BY <2>1
    <3>2. pc' = [pc EXCEPT ![r] = "enter"] /\ saving' = [saving EXCEPT ![r] = w]
      BY <3>1 DEF Call
    <3>3. /\ saving'[r] # "none" /\ \A s \in Rank \ {r} : saving'[s] = saving[s]
          /\ saving' \in [Rank -> {"none", "exit", "duration", "finished"}]
      BY <1>0, <3>2
    <3>. QED BY <3>2, <3>3
  <2>2. CASE \E p \in {"duration", "loop", "exit"} : pc' = [pc EXCEPT ![r] = p] /\ saving' = saving
    BY <1>0, <2>2
  <2>. QED BY <1>2, <2>1, <2>2
<1>4. saved' \in [Rank -> BOOLEAN]
  BY <1>0 DEF Places_OK, CheckInterval, CheckExitInterval, EndTraining
<1>5. Places_OK'
  <2>1. pc' \in [Rank -> Places]
    BY <1>0, <1>3, PlaceNames DEF Places_OK
  <2>. QED BY <1>0, <1>1, <1>3, <1>4, <2>1 DEF Places_OK
<1>6. pc'[r] = p
  BY <1>0, <1>3 DEF Places_OK
<1>7. Iteration > 0
  <2>1. CASE pc[r] = "loop"
    <3>1. EndTraining(r)
      BY <2>1 DEF CheckInterval, CheckExitInterval
    <3>2. Iteration >= TrainIters
      BY <1>0, <3>1, RunIs DEF EndTraining
    <3>. QED BY <1>0, <3>2, TrainingAssumption DEF Agreed
  <2>2. CASE pc[r] \in {"interval", "exitInterval"}
    BY <1>0, <2>2 DEF Placed, Trains
  <2>. QED BY <1>1, <2>1, <2>2
<1>8. Placed(r)'
  <2>1. Iteration' = Iteration
    BY <1>1 DEF Iteration
  <2>2. p \in {"duration", "loop", "exit", "enter"} /\ p \notin Writing \cup HasOptim /\ p \notin Committing
        /\ p \notin HasModel
    BY PlaceNames
  <2>3. p \in InSave => saving'[r] # "none"
    BY <1>3, PlaceNames
  <2>. QED BY <1>6, <1>7, <2>1, <2>2, <2>3 DEF Placed
<1>9. p \notin Committing /\ pc[r] \notin Committing /\ pc[r] # "tracked"
  BY <1>1, PlaceNames DEF HasOptim, HasModel
<1>. QED BY <1>1, <1>3, <1>5, <1>8, <1>9, OneMove

LEMMA EnterSaveStep ==
  ASSUME IInv, EnterSave
  PROVE  IInv'
<1>0. Places_OK /\ Agreed /\ Stored /\ \A r \in Rank : Placed(r) /\ pc[r] = "enter"
  BY DEF IInv, EnterSave, AllAt
<1>1. /\ pc' = [r \in Rank |-> IF DpRank(r) = 0 THEN "openOptim" ELSE "written"]
      /\ UNCHANGED <<saving, saved, run, cursor, files, tracker, crashes>>
  BY DEF EnterSave, store
<1>2. Agreed' /\ Stored' /\ Iteration' = Iteration
  BY <1>0, <1>1, KeepData
<1>3. Places_OK'
  <2>1. pc' \in [Rank -> Places]
    BY <1>1 DEF Places
  <2>. QED BY <1>0, <1>1, <2>1 DEF Places_OK
<1>4. ASSUME NEW r \in Rank PROVE Placed(r)'
  <2>1. Iteration > 0 /\ saving[r] # "none"
    BY <1>0 DEF Placed, Trains, InSave
  <2>2. CASE DpRank(r) = 0
    <3>1. pc'[r] = "openOptim"
      BY <1>1, <2>2
    <3>. QED BY <1>1, <1>2, <2>1, <2>2, <3>1
         DEF Placed, Writing, Committing, HasOptim, HasModel
  <2>3. CASE DpRank(r) # 0
    <3>1. pc'[r] = "written"
      BY <1>1, <2>3
    <3>. QED BY <1>1, <1>2, <2>1, <2>3, <3>1
         DEF Placed, Writing, Committing, HasOptim, HasModel
  <2>. QED BY <2>2, <2>3
<1>. QED BY <1>2, <1>3, <1>4 DEF IInv

LEMMA WaitStep ==
  ASSUME IInv, WaitForFiles
  PROVE  IInv'
<1>0. Places_OK /\ Agreed /\ Stored /\ \A r \in Rank : Placed(r) /\ pc[r] = "written"
  BY DEF IInv, WaitForFiles, AllWritten, AllAt
<1>1. /\ pc' = [r \in Rank |-> IF r = 0 THEN "openTracker" ELSE "tracked"]
      /\ UNCHANGED <<saving, saved, run, cursor, files, tracker, crashes>>
  BY DEF WaitForFiles, store
<1>2. Agreed' /\ Stored' /\ Iteration' = Iteration
  BY <1>0, <1>1, KeepData
<1>3. Places_OK'
  <2>1. pc' \in [Rank -> Places]
    BY <1>1 DEF Places
  <2>. QED BY <1>0, <1>1, <2>1 DEF Places_OK
<1>4. ASSUME NEW r \in Rank PROVE Placed(r)'
  <2>1. Iteration > 0 /\ saving[r] # "none"
    BY <1>0 DEF Placed, Trains, InSave, HasModel
  <2>2. DpRank(r) = 0 => /\ files[Iteration][r]["optim"] = Content(Iteration, r, "optim")
                         /\ files[Iteration][r]["model"] = Content(Iteration, r, "model")
    BY <1>0 DEF Placed, HasModel, HasOptim
  <2>3. \A s \in Rank \ {0} : pc'[s] = "tracked"
    BY <1>1
  <2>4. pc'[r] \in {"openTracker", "tracked"} /\ (pc'[r] = "openTracker" => r = 0)
    BY <1>1
  <2>. QED BY <1>1, <1>2, <2>1, <2>2, <2>3, <2>4 DEF Placed, Writing, Committing
<1>. QED BY <1>2, <1>3, <1>4 DEF IInv

(* While the tracker file is written the checkpoint is complete.                *)
LEMMA CommitsComplete ==
  ASSUME IInv, pc[0] \in Committing
  PROVE  Iteration \in 1 .. TrainIters /\ Complete(Iteration)
<1>0. Places_OK /\ Agreed /\ Stored /\ \A r \in Rank : Placed(r)
  BY DEF IInv
<1>1. \A s \in Rank : pc[s] \in HasModel
  BY <1>0, FirstRank DEF Placed, HasModel
<1>2. Iteration \in 1 .. TrainIters
  <2>1. Iteration > 0
    BY <1>0, <1>1, FirstRank, PlaceNames DEF Placed
  <2>. QED BY <1>0, <2>1, TrainingAssumption DEF Agreed
<1>3. ASSUME NEW m \in 0 .. M - 1
      PROVE  /\ files[Iteration][m]["optim"] = Content(Iteration, m, "optim")
             /\ files[Iteration][m]["model"] = Content(Iteration, m, "model")
  <2>1. m \in Rank /\ DpRank(m) = 0
    BY WriterOf
  <2>. QED BY <1>0, <1>1, <2>1, PlaceNames DEF Placed
<1>4. Complete(Iteration)
  BY <1>0, <1>2, <1>3, CompleteFiles DEF FileKind
<1>. QED BY <1>2, <1>4

LEMMA TrackerStep ==
  ASSUME IInv, OpenTracker \/ WriteTracker
  PROVE  IInv'
<1>0. Places_OK /\ Agreed /\ Stored /\ \A r \in Rank : Placed(r)
  BY DEF IInv
<1>1. /\ pc[0] \in Committing /\ UNCHANGED <<saving, saved, run, cursor, files, crashes>>
      /\ \/ pc' = [pc EXCEPT ![0] = "writeTracker"] /\ tracker' = Empty
         \/ pc' = [pc EXCEPT ![0] = "tracked"] /\ tracker' = Iteration
  BY DEF OpenTracker, WriteTracker, Committing, Iteration
<1>2. Agreed' /\ Stored' /\ Iteration' = Iteration
  BY <1>0, <1>1, KeepData
<1>3. Iteration \in 1 .. TrainIters
  BY <1>1, CommitsComplete
<1>4. pc \in [Rank -> Places] /\ 0 \in Rank
  BY <1>0, FirstRank DEF Places_OK
<1>5. Places_OK'
  <2>1. pc' \in [Rank -> Places]
    BY <1>1, <1>4 DEF Places
  <2>. QED BY <1>0, <1>1, <1>3, <2>1 DEF Places_OK
<1>6. ASSUME NEW r \in Rank PROVE Placed(r)'
  <2>1. Placed(r) /\ (r # 0 => pc[r] = "tracked")
    BY <1>0, <1>1, <1>4 DEF Placed
  <2>2. pc[r] \in HasModel
    BY <1>1, <2>1 DEF HasModel
  <2>3. \A s \in Rank \ {0} : pc'[s] = "tracked"
    BY <1>0, <1>1, <1>4 DEF Placed
  <2>4. pc'[r] \in {"writeTracker", "tracked"} /\ (pc'[r] = "writeTracker" => r = 0)
    BY <1>1, <1>4, <2>3
  <2>5. Iteration > 0 /\ saving[r] # "none"
    BY <2>1, <2>2, PlaceNames DEF Placed
  <2>6. DpRank(r) = 0 => /\ files[Iteration][r]["optim"] = Content(Iteration, r, "optim")
                         /\ files[Iteration][r]["model"] = Content(Iteration, r, "model")
    BY <2>1, <2>2, PlaceNames DEF Placed
  <2>. QED BY <1>1, <1>2, <2>3, <2>4, <2>5, <2>6 DEF Placed, Writing, Committing
<1>. QED BY <1>2, <1>5, <1>6 DEF IInv

(* A rank that saves its files.                                                 *)
LEMMA SaveFilesStep ==
  ASSUME IInv, NEW r \in Rank, SaveFiles(r)
  PROVE  /\ IInv' /\ DpRank(r) = 0 /\ Iteration \in 1 .. TrainIters /\ Iteration' = Iteration
         /\ \A n \in 1 .. TrainIters \ {Iteration} : files'[n] = files[n]
         /\ tracker' = tracker
<1>0. Places_OK /\ Agreed /\ Stored /\ \A s \in Rank : Placed(s)
  BY DEF IInv
<1>. DEFINE n == Iteration
<1>1. PICK kind \in FileKind, here \in Writing, next \in {"writeOptim", "openModel", "writeModel", "written"} :
        /\ pc[r] = here /\ pc' = [pc EXCEPT ![r] = next]
        /\ UNCHANGED <<saving, saved, run, cursor, tracker, crashes>>
        /\ \/ here = "openOptim" /\ next = "writeOptim" /\ kind = "optim" /\ Put(r, kind, Partial)
           \/ here = "writeOptim" /\ next = "openModel" /\ kind = "optim" /\ Put(r, kind, Snapshot(r, kind))
           \/ here = "openModel" /\ next = "writeModel" /\ kind = "model" /\ Put(r, kind, Partial)
           \/ here = "writeModel" /\ next = "written" /\ kind = "model" /\ Put(r, kind, Snapshot(r, kind))
  <2>1. FileKind = {"optim", "model"} /\ Writing = {"openOptim", "writeOptim", "openModel", "writeModel"}
    BY DEF FileKind, Writing
  <2>2. CASE OpenFile(r, "optim", "openOptim", "writeOptim")
    BY <2>1, <2>2 DEF OpenFile
  <2>3. CASE WriteFile(r, "optim", "writeOptim", "openModel")
    BY <2>1, <2>3 DEF WriteFile
  <2>4. CASE OpenFile(r, "model", "openModel", "writeModel")
    BY <2>1, <2>4 DEF OpenFile
  <2>5. CASE WriteFile(r, "model", "writeModel", "written")
    BY <2>1, <2>5 DEF WriteFile
  <2>. QED BY <2>2, <2>3, <2>4, <2>5 DEF SaveFiles
<1>2. /\ DpRank(r) = 0 /\ r \in 0 .. M - 1 /\ MpRank(r) = r /\ run[r].iteration = n
      /\ n \in 1 .. TrainIters /\ saving[r] # "none"
  <2>1. DpRank(r) = 0 /\ n > 0 /\ saving[r] # "none"
    BY <1>0, <1>1, PlaceNames DEF Placed
  <2>2. n \in 1 .. TrainIters
    BY <1>0, <2>1, TrainingAssumption DEF Agreed
  <2>. QED BY <1>0, <2>1, <2>2, Writers, RunIs
<1>3. Snapshot(r, kind) = Content(n, r, kind)
  BY <1>0, <1>2, SnapshotIs
<1>4. PICK value \in {Partial, Content(n, r, kind)} :
        /\ files' = [files EXCEPT ![n][r][kind] = value]
        /\ here \in {"writeOptim", "writeModel"} => value = Content(n, r, kind)
  BY <1>1, <1>2, <1>3 DEF Put
<1>5. files \in [1 .. TrainIters -> [0 .. M - 1 -> [FileKind -> FileValue]]]
  BY <1>0 DEF Stored
<1>. HIDE DEF n
<1>6. /\ files' \in [1 .. TrainIters -> [0 .. M - 1 -> [FileKind -> FileValue]]]
      /\ files'[n][r][kind] = value
      /\ \A i \in 1 .. TrainIters, m \in 0 .. M - 1, k \in FileKind :
           <<i, m, k>> # <<n, r, kind>> => files'[i][m][k] = files[i][m][k]
      /\ \A i \in 1 .. TrainIters \ {n} : files'[i] = files[i]
  <2>1. value \in FileValue
    BY <1>2, <1>4 DEF FileValue
  <2>2. files' \in [1 .. TrainIters -> [0 .. M - 1 -> [FileKind -> FileValue]]]
    <3>1. files[n] \in [0 .. M - 1 -> [FileKind -> FileValue]] /\ files[n][r] \in [FileKind -> FileValue]
      BY <1>2, <1>5
    <3>2. [files[n][r] EXCEPT ![kind] = value] \in [FileKind -> FileValue]
      BY <2>1, <3>1
    <3>3. [files[n] EXCEPT ![r] = [files[n][r] EXCEPT ![kind] = value]] \in [0 .. M - 1 -> [FileKind -> FileValue]]
      BY <3>1, <3>2
    <3>4. files' = [files EXCEPT ![n] = [files[n] EXCEPT ![r] = [files[n][r] EXCEPT ![kind] = value]]]
      BY <1>4
    <3>. QED BY <1>2, <1>5, <3>3, <3>4
  <2>3. files'[n][r][kind] = value
    <3>1. files[n] \in [0 .. M - 1 -> [FileKind -> FileValue]] /\ files[n][r] \in [FileKind -> FileValue]
      BY <1>2, <1>5
    <3>2. files'[n] = [files[n] EXCEPT ![r][kind] = value]
      BY <1>2, <1>4, <1>5
    <3>3. files'[n][r] = [files[n][r] EXCEPT ![kind] = value]
      BY <1>2, <3>1, <3>2
    <3>. QED BY <3>1, <3>3
  <2>4. \A i \in 1 .. TrainIters, m \in 0 .. M - 1, k \in FileKind :
           i # n \/ m # r \/ k # kind => files'[i][m][k] = files[i][m][k]
    BY <1>2, <1>4, <1>5
  <2>5. \A i \in 1 .. TrainIters \ {n} : files'[i] = files[i]
    BY <1>2, <1>4, <1>5
  <2>. QED BY <2>2, <2>3, <2>4, <2>5
<1>7. Agreed' /\ Iteration' = n
  BY <1>0, <1>1 DEF Agreed, Iteration, n
<1>8. Stored'
  <2>1. Uninterrupted[n].consumed <= TotalSamples
    BY <1>0 DEF Agreed, n
  <2>2. ASSUME NEW i \in 1 .. TrainIters, NEW m \in 0 .. M - 1, NEW k \in FileKind
        PROVE  \/ files'[i][m][k] \in {Absent, Partial}
               \/ files'[i][m][k] = Content(i, m, k) /\ Uninterrupted[i].consumed <= TotalSamples
    <3>1. CASE i = n /\ m = r /\ k = kind
      BY <1>4, <1>6, <2>1, <3>1
    <3>2. CASE ~(i = n /\ m = r /\ k = kind)
      BY <1>0, <1>6, <3>2 DEF Stored
    <3>. QED BY <3>1, <3>2
  <2>. QED BY <1>6, <2>2 DEF Stored
<1>9. pc \in [Rank -> Places] /\ pc'[r] = next /\ \A s \in Rank \ {r} : pc'[s] = pc[s]
  BY <1>0, <1>1 DEF Places_OK
<1>10. Places_OK'
  <2>1. pc' \in [Rank -> Places]
    BY <1>1, <1>9 DEF Places
  <2>. QED BY <1>0, <1>1, <2>1 DEF Places_OK
<1>11. ASSUME NEW s \in Rank \ {r} PROVE Placed(s)'
  <2>1. Placed(s) /\ pc'[s] = pc[s] /\ saving' = saving
    BY <1>0, <1>1, <1>9
  <2>2. pc[s] \notin Committing
    <3>1. pc[r] # "tracked" /\ pc[r] \notin Committing
      BY <1>1 DEF Writing, Committing
    <3>. QED BY <2>1, <3>1 DEF Placed
  <2>3. DpRank(s) = 0 => \A k \in FileKind : files'[n][s][k] = files[n][s][k]
    <3>1. ASSUME DpRank(s) = 0, NEW k \in FileKind PROVE files'[n][s][k] = files[n][s][k]
      <4>1. s \in 0 .. M - 1 /\ s # r
        BY <3>1, Writers
      <4>. QED BY <1>2, <1>6, <4>1
    <3>. QED BY <3>1
  <2>4. "optim" \in FileKind /\ "model" \in FileKind
    BY DEF FileKind
  <2>. QED BY <1>7, <2>1, <2>2, <2>3, <2>4 DEF Placed, n
<1>12. Placed(r)'
  <2>1. n > 0 /\ saving'[r] # "none" /\ next \notin Committing
    BY <1>1, <1>2 DEF Committing
  <2>2. next \in HasOptim => files'[n][r]["optim"] = Content(n, r, "optim")
    <3>1. CASE kind = "optim"
      BY <1>1, <1>4, <1>6, <3>1 DEF HasOptim, HasModel, Committing
    <3>2. CASE kind = "model"
      <4>1. pc[r] \in HasOptim
        BY <1>1, <3>2 DEF HasOptim
      <4>2. files[n][r]["optim"] = Content(n, r, "optim")
        BY <1>0, <1>2, <4>1 DEF Placed, n
      <4>. QED BY <1>2, <1>6, <3>2, <4>2 DEF FileKind
    <3>. QED BY <3>1, <3>2 DEF FileKind
  <2>3. next \in HasModel => files'[n][r]["model"] = Content(n, r, "model")
    BY <1>1, <1>4, <1>6 DEF HasModel, Committing
  <2>. QED BY <1>2, <1>7, <1>9, <2>1, <2>2, <2>3 DEF Placed
<1>13. IInv'
  BY <1>7, <1>8, <1>10, <1>11, <1>12 DEF IInv
<1>. QED BY <1>1, <1>2, <1>6, <1>7, <1>13 DEF n

-----------------------------------------------------------------------------
(* Steps that change what the ranks hold                                        *)

LEMMA StartAt ==
  ASSUME NEW n \in 0 .. TrainIters, Uninterrupted[n].consumed <= TotalSamples,
         run' = [r \in Rank |-> Reference(r, n)],
         cursor' = [r \in Rank |-> run'[r].consumed]
  PROVE  Agreed' /\ Iteration' = n
<1>1. Iteration' = n
  BY FirstRank, ReferenceState DEF Iteration
<1>. QED BY <1>1 DEF Agreed

(* Whatever the tracker leads to, the ranks are at an iteration of the          *)
(* reference, or stop.                                                          *)
LEMMA LoadStep ==
  ASSUME IInv, Load
  PROVE  /\ IInv'
         /\ \/ tracker = NoFile /\ Iteration' = 0
            \/ tracker \in 1 .. TrainIters /\ Complete(tracker) /\ Iteration' = tracker
            \/ Iteration' = Iteration
<1>0. Places_OK /\ Stored /\ tracker \in {NoFile, Empty} \cup 1 .. TrainIters
  BY DEF IInv, Places_OK
<1>1. UNCHANGED <<files, tracker, crashes>> /\ saved' = [r \in Rank |-> FALSE] /\ saving' = [r \in Rank |-> "none"]
  BY DEF Load, store
<1>2. Stored'
  BY <1>0, <1>1 DEF Stored
<1>3. ASSUME NEW p \in {"loop", "refused"}, pc' = [r \in Rank |-> p]
      PROVE  Places_OK' /\ \A r \in Rank : Placed(r)'
  <2>1. Places_OK'
    BY <1>0, <1>1, <1>3, PlaceNames DEF Places_OK
  <2>2. p \notin Trains \cup InSave \cup Writing \cup Committing \cup HasOptim \cup HasModel
    BY PlaceNames
  <2>3. \A r \in Rank : pc'[r] = p
    BY <1>3
  <2>. QED BY <2>1, <2>2, <2>3 DEF Placed
<1>4. CASE tracker = NoFile /\ Begin([r \in Rank |-> Fresh(r)])
  <2>1. run' = [r \in Rank |-> Reference(r, 0)]
    BY <1>4, ReferenceFresh DEF Begin
  <2>2. cursor' = [r \in Rank |-> run'[r].consumed]
    BY <1>4 DEF Begin
  <2>3. 0 \in 0 .. TrainIters /\ Uninterrupted[0].consumed <= TotalSamples
    BY TrainingAssumption, Sizes, UninterruptedDef DEF Fresh
  <2>4. Agreed' /\ Iteration' = 0
    BY <2>1, <2>2, <2>3, StartAt
  <2>. QED BY <1>2, <1>3, <1>4, <2>4 DEF IInv, Begin, Goto
<1>5. CASE tracker > 0 /\ Complete(tracker) /\ Begin([r \in Rank |-> Restored(r, tracker)])
  <2>1. tracker \in 1 .. TrainIters /\ tracker \in 0 .. TrainIters
    BY <1>0, <1>5, TrainingAssumption DEF NoFile, Empty
  <2>2. /\ \A r \in Rank : Restored(r, tracker) = Reference(r, tracker)
        /\ Uninterrupted[tracker].consumed <= TotalSamples
    BY <1>0, <1>5, <2>1, RestoredIs, FirstRank
  <2>3. run' = [r \in Rank |-> Reference(r, tracker)]
    BY <1>5, <2>2 DEF Begin
  <2>4. cursor' = [r \in Rank |-> run'[r].consumed]
    BY <1>5 DEF Begin
  <2>5. Agreed' /\ Iteration' = tracker
    BY <2>1, <2>2, <2>3, <2>4, StartAt
  <2>. QED BY <1>2, <1>3, <1>5, <2>1, <2>5 DEF IInv, Begin, Goto
<1>6. CASE Goto("refused") /\ UNCHANGED <<run, cursor>>
  <2>1. Agreed' /\ Iteration' = Iteration
    BY <1>0, <1>1, <1>6, KeepData DEF IInv
  <2>. QED BY <1>2, <1>3, <1>6, <2>1 DEF IInv, Goto
<1>. QED BY <1>4, <1>5, <1>6 DEF Load

(* An iteration takes all ranks to the next iteration of the reference.         *)
LEMMA TrainStepStep ==
  ASSUME IInv, TrainStep
  PROVE  IInv' /\ Iteration \in 0 .. TrainIters - 1 /\ Iteration' = Iteration + 1
<1>. DEFINE i == Iteration
            c == Uninterrupted[i].consumed
            k == NumMicrobatches(c)
            Group(r) == {t \in Rank : MpRank(t) = MpRank(r)}
            n == [r \in Rank |-> NumMicrobatches(run[r].consumed)]
            batch == [r \in Rank |-> Draw(r, cursor[r], n[r])]
<1>0. Places_OK /\ Agreed /\ Stored
  BY DEF IInv
<1>1. \A r \in Rank : /\ run[r] = Reference(r, i) /\ run[r].iteration = i
                      /\ run[r].consumed = c /\ cursor[r] = c
  BY <1>0, RunIs
<1>2. /\ i \in 0 .. TrainIters - 1 /\ i + 1 \in 0 .. TrainIters
  <2>1. i < TrainIters
    BY <1>1, FirstRank DEF TrainStep
  <2>. QED BY <1>0, <2>1, TrainingAssumption DEF Agreed
<1>3. c \in Nat /\ k \in Nat \ {0} /\ k * MicroBatchTimesDp = BatchSize(c) /\ BatchSize(c) \in Nat \ {0}
  <2>1. c \in Nat
    BY <1>2, TrainingAssumption, RunState
  <2>. HIDE DEF c
  <2>. QED BY <2>1, Batches DEF W
<1>4. \A r \in Rank : n[r] = k /\ batch[r] = Draw(r, c, k)
  BY <1>1
<1>5. /\ \A r \in Rank : batch[r] \subseteq 0 .. TotalSamples - 1
      /\ run' = [r \in Rank |-> Trained(run[r], n[r], UNION {batch[s] : s \in Group(r)})]
      /\ cursor' = [r \in Rank |-> cursor[r] + n[r] * MicroBatchTimesDp]
      /\ pc' = [r \in Rank |-> "signal"] /\ saved' = [r \in Rank |-> FALSE]
      /\ UNCHANGED <<saving, files, tracker, crashes>>
  BY DEF TrainStep, Goto, store
<1>. HIDE DEF n, batch, k, c, i
<1>6. ASSUME NEW r \in Rank
      PROVE  UNION {batch[s] : s \in Group(r)} = c .. c + BatchSize(c) - 1
  <2>1. MpRank(r) \in 0 .. M - 1
    BY RankParts
  <2>2. UNION {Draw(s, c, k) : s \in {t \in Rank : MpRank(t) = MpRank(r)}} = c .. c + k * W - 1
    BY <1>3, <2>1, Draws
  <2>3. {batch[s] : s \in Group(r)} = {Draw(s, c, k) : s \in Group(r)}
    BY <1>4
  <2>. QED BY <1>3, <2>2, <2>3 DEF W
<1>7. c + BatchSize(c) <= TotalSamples
  <2>1. c + BatchSize(c) - 1 \in UNION {batch[s] : s \in Group(0)}
    BY <1>3, <1>6, FirstRank
  <2>2. c + BatchSize(c) - 1 \in 0 .. TotalSamples - 1
    BY <1>5, <2>1
  <2>. QED BY <1>3, <2>2, Sizes
<1>8. /\ \A r : Reference(r, i + 1) = Trained(Reference(r, i), k, c .. c + BatchSize(c) - 1)
      /\ Uninterrupted[i + 1].consumed = c + BatchSize(c)
  BY <1>2, ReferenceNext DEF c, k
<1>9. run' = [r \in Rank |-> Reference(r, i + 1)]
  <2>1. \A r \in Rank : Trained(run[r], n[r], UNION {batch[s] : s \in Group(r)}) = Reference(r, i + 1)
    BY <1>1, <1>4, <1>6, <1>8
  <2>. HIDE DEF Group
  <2>. QED BY <1>5, <2>1
<1>10. cursor' = [r \in Rank |-> run'[r].consumed]
  <2>1. \A r \in Rank : run'[r].consumed = c + BatchSize(c)
    BY <1>2, <1>8, <1>9, ReferenceState
  <2>2. \A r \in Rank : cursor[r] + n[r] * MicroBatchTimesDp = c + BatchSize(c)
    BY <1>1, <1>3, <1>4
  <2>. QED BY <1>5, <2>1, <2>2
<1>11. Agreed' /\ Iteration' = i + 1
  BY <1>2, <1>7, <1>8, <1>9, <1>10, StartAt
<1>12. Stored'
  BY <1>0, <1>5 DEF Stored
<1>13. Places_OK'
  BY <1>0, <1>5, PlaceNames DEF Places_OK
<1>14. ASSUME NEW r \in Rank PROVE Placed(r)'
  <2>1. pc'[r] = "signal" /\ Iteration' > 0
    BY <1>2, <1>5, <1>11, TrainingAssumption
  <2>2. "signal" \notin InSave \cup Writing \cup Committing \cup HasOptim \cup HasModel
    BY PlaceNames
  <2>. QED BY <2>1, <2>2 DEF Placed
<1>. QED BY <1>2, <1>11, <1>12, <1>13, <1>14 DEF IInv, i

LEMMA InitIInv == Init => IInv
<1>. SUFFICES ASSUME Init PROVE IInv
  OBVIOUS
<1>1. Places_OK
  BY Sizes DEF Init, Places_OK, Places, NoFile
<1>2. Agreed
  <2>1. run = [r \in Rank |-> Reference(r, 0)]
    BY ReferenceFresh DEF Init
  <2>2. cursor = [r \in Rank |-> run[r].consumed]
    BY DEF Init, Fresh
  <2>3. 0 \in 0 .. TrainIters /\ Uninterrupted[0].consumed <= TotalSamples
    BY TrainingAssumption, Sizes, UninterruptedDef DEF Fresh
  <2>4. Iteration = 0
    BY <2>1, <2>3, FirstRank, ReferenceState DEF Iteration
  <2>. QED BY <2>1, <2>2, <2>3, <2>4 DEF Agreed
<1>3. Stored
  BY DEF Init, Stored, FileValue
<1>4. \A r \in Rank : pc[r] = "load"
  BY DEF Init
<1>5. \A r \in Rank : Placed(r)
  BY <1>4, PlaceNames DEF Placed
<1>. QED BY <1>1, <1>2, <1>3, <1>5 DEF IInv

LEMMA NextIInv == IInv /\ [Next]_vars => IInv'
<1>. SUFFICES ASSUME IInv, [Next]_vars PROVE IInv'
  OBVIOUS
<1>1. CASE Job
  BY <1>1, LoadStep, RestartStep DEF Job
<1>2. CASE Collective
  BY <1>2, TrainStepStep, SignalsStep, DurationStep, EnterSaveStep, WaitStep, LeaveSaveStep DEF Collective
<1>3. CASE Tracker
  BY <1>3, TrackerStep DEF Tracker
<1>4. CASE \E r \in Rank : Local(r)
  BY <1>4, BranchStep, SaveFilesStep DEF Local
<1>5. CASE Crash
  BY <1>5, RestartStep
<1>6. CASE UNCHANGED vars
  <2>1. UNCHANGED <<pc, saving, saved, run, cursor, files, tracker, crashes>>
    BY <1>6 DEF vars
  <2>2. Agreed' /\ Stored' /\ Iteration' = Iteration
    BY <2>1, KeepData DEF IInv
  <2>3. Places_OK'
    BY <2>1 DEF IInv, Places_OK
  <2>4. \A r \in Rank : Placed(r)'
    BY <2>1, <2>2 DEF IInv, Placed
  <2>. QED BY <2>2, <2>3, <2>4 DEF IInv
<1>. QED BY <1>1, <1>2, <1>3, <1>4, <1>5, <1>6 DEF Next, Done

(* The strengthening is an invariant of every job, with any ranks, arguments    *)
(* and crashes.                                                                 *)
THEOREM Invariant == Spec => []IInv
BY InitIInv, NextIInv, PTL DEF Spec

-----------------------------------------------------------------------------
(* What the invariant says                                                      *)

(* Every variable stays in its range: in particular no rank draws a sample past *)
(* the end of the dataset or lets the loss scale fall below its minimum.        *)
THEOREM TypeCorrect == Spec => []TypeOK
<1>1. IInv => TypeOK
  <2>. SUFFICES ASSUME IInv PROVE TypeOK
    OBVIOUS
  <2>0. Places_OK /\ Agreed /\ Stored /\ Iteration \in 0 .. TrainIters
    BY DEF IInv, Agreed
  <2>1. ASSUME NEW r \in Rank
        PROVE  /\ run[r].iteration \in 0 .. TrainIters
               /\ {run[r].consumed, cursor[r], run[r].steps} \subseteq 0 .. TotalSamples
               /\ run[r].scaler.scale >= MinScale
               /\ run[r].scaler.growth \in 0 .. GrowthInterval - 1
    <3>. DEFINE s == Uninterrupted[Iteration]
    <3>1. /\ run[r].iteration = Iteration /\ run[r].consumed = s.consumed /\ cursor[r] = s.consumed
          /\ run[r].steps = s.steps /\ run[r].scaler = s.scaler
      BY <2>0, RunIs, ReferenceState
    <3>2. /\ s.consumed \in Nat /\ s.steps \in Nat /\ s.steps <= s.consumed /\ s.consumed <= TotalSamples
          /\ s.scaler.scale >= MinScale /\ s.scaler.growth \in 0 .. GrowthInterval - 1
      BY <2>0, RunState DEF Agreed
    <3>. HIDE DEF s
    <3>3. s.consumed \in 0 .. TotalSamples /\ s.steps \in 0 .. TotalSamples
      BY <3>2, Sizes
    <3>. QED BY <2>0, <3>1, <3>2, <3>3
  <2>2. ASSUME NEW n \in DOMAIN files, NEW m \in 0 .. M - 1, NEW k \in FileKind
        PROVE  files[n][m][k].status \in {"absent", "partial", "complete"}
    <3>1. n \in 1 .. TrainIters
      BY <2>0 DEF Stored
    <3>2. files[n][m][k] \in {Absent, Partial} \/ files[n][m][k] = Content(n, m, k)
      BY <2>0, <3>1 DEF Stored
    <3>. QED BY <3>1, <3>2, FileStatus
  <2>. QED BY <2>0, <2>1, <2>2 DEF TypeOK, Places_OK
<1>. QED BY <1>1, Invariant, PTL

(* However often the job is interrupted, each rank's parameters were trained on *)
(* every sample once, in order and without a gap (the sampler, the ramp-up and  *)
(* consumed_train_samples in the checkpoint agree).                             *)
THEOREM SamplesStayInOrder == Spec => []SamplesInOrder
<1>1. IInv => SamplesInOrder
  <2>1. ASSUME IInv, NEW r \in Rank
        PROVE  LET history == run[r].main IN
                 /\ Len(history) = run[r].iteration
                 /\ UNION {history[i].samples : i \in DOMAIN history} = 0 .. run[r].consumed - 1
                 /\ \A i, j \in DOMAIN history : i < j => Below(history[i].samples, history[j].samples)
    <3>. DEFINE s == Uninterrupted[Iteration]
    <3>1. Agreed /\ Iteration \in 0 .. TrainIters
      BY <2>1 DEF IInv, Agreed
    <3>2. run[r].iteration = Iteration /\ run[r].consumed = s.consumed /\ run[r].main = s.main
      BY <3>1, RunIs, ReferenceState
    <3>3. Sound(s, Iteration)
      BY <3>1, UninterruptedSound
    <3>. HIDE DEF s
    <3>. QED BY <3>2, <3>3 DEF Sound, Covers, Ordered
  <2>. QED BY <2>1 DEF SamplesInOrder
<1>. QED BY <1>1, Invariant, PTL

(* An interrupted job is in the state of one that was not: what save_checkpoint *)
(* writes and load_checkpoint restores is all that the rest of training needs.  *)
THEOREM ResumesUnchanged == Spec => []SameAsUninterrupted
<1>1. IInv => SameAsUninterrupted
  <2>1. ASSUME IInv, NEW r \in Rank
        PROVE  run[r] = Reference(r, run[r].iteration)
    BY <2>1, RunIs DEF IInv
  <2>. QED BY <2>1 DEF SameAsUninterrupted, Reference
<1>. QED BY <1>1, Invariant, PTL

(* The tracker file is only ever set to an iteration whose checkpoint is        *)
(* complete on every model-parallel rank: the barrier between the files and the *)
(* tracker in save_checkpoint.                                                  *)
THEOREM TrackerLeadsToComplete == Spec => CommitsCompleteCheckpoint
<1>1. IInv /\ [Next]_vars =>
        [ tracker' \notin {tracker, NoFile, Empty} =>
            /\ Complete(tracker')
            /\ \A m \in 0 .. M - 1 : files[tracker'][m]["model"].iteration = tracker' ]_vars
  <2>. SUFFICES ASSUME IInv, Next, tracker' \notin {tracker, NoFile, Empty}
                PROVE  /\ Complete(tracker')
                       /\ \A m \in 0 .. M - 1 : files[tracker'][m]["model"].iteration = tracker'
    BY DEF vars
  <2>1. WriteTracker
    <3>1. ~(Job \/ Collective \/ Crash \/ Done)
      BY DEF Job, Load, Restart, Collective, TrainStep, CheckSignals, CheckDuration, EnterSave,
             WaitForFiles, LeaveSave, Crash, Done, store, vars
    <3>2. ~(\E r \in Rank : Local(r))
      <4>1. ASSUME NEW r \in Rank, Local(r) PROVE tracker' = tracker
        BY <4>1, SaveFilesStep DEF Local, CheckInterval, CheckExitInterval, EndTraining, store
      <4>. QED BY <4>1
    <3>3. ~OpenTracker
      BY DEF OpenTracker
    <3>. QED BY <3>1, <3>2, <3>3 DEF Next, Tracker
  <2>2. pc[0] \in Committing /\ tracker' = Iteration
    BY <2>1 DEF WriteTracker, Committing, Iteration
  <2>3. Iteration \in 1 .. TrainIters /\ Complete(Iteration) /\ Stored
    BY <2>2, CommitsComplete DEF IInv
  <2>4. ASSUME NEW m \in 0 .. M - 1 PROVE files[Iteration][m]["model"].iteration = Iteration
    <3>1. files[Iteration][m]["model"] = Content(Iteration, m, "model")
      BY <2>3, CompleteFiles DEF FileKind
    <3>2. Iteration \in 0 .. TrainIters
      BY <2>3, TrainingAssumption
    <3>3. Content(Iteration, m, "model").iteration = Iteration
      BY <3>2, ContentFields
    <3>. QED BY <3>1, <3>3
  <2>. QED BY <2>2, <2>3, <2>4
<1>. QED BY <1>1, Invariant, PTL DEF Spec, CommitsCompleteCheckpoint

-----------------------------------------------------------------------------
(* The abstract job                                                             *)

LEMMA CommittedIs ==
  /\ tracker = NoFile => Committed = 0
  /\ tracker = Empty => Committed = -1
  /\ tracker \in 1 .. TrainIters => Committed = IF Complete(tracker) THEN tracker ELSE -1
BY TrainingAssumption DEF Committed, NoFile, Empty

(* And in the state after a step.                                               *)
LEMMA CommittedBecomes ==
  /\ tracker' = NoFile => Committed' = 0
  /\ tracker' = Empty => Committed' = -1
  /\ tracker' \in 1 .. TrainIters => Committed' = IF Complete(tracker)' THEN tracker' ELSE -1
BY TrainingAssumption DEF Committed, NoFile, Empty

(* Steps that leave the iteration and the checkpoints alone.                    *)
LEMMA CommittedSame ==
  ASSUME UNCHANGED <<files, tracker>>
  PROVE  Committed' = Committed
<1>1. \A n : Complete(n)' = Complete(n)
  BY DEF Complete
<1>. QED BY <1>1 DEF Committed

LEMMA AbstractStutter ==
  ASSUME UNCHANGED <<files, tracker, run>>
  PROVE  UNCHANGED <<run[0].iteration, Committed>>
BY CommittedSame

LEMMA AbstractSave ==
  ASSUME IInv, NEW r \in Rank, SaveFiles(r)
  PROVE  Abstract!Commit \/ Abstract!Lose \/ UNCHANGED <<run[0].iteration, Committed>>
<1>0. Places_OK /\ Places_OK' /\ Stored /\ Stored'
  BY SaveFilesStep DEF IInv
<1>1. /\ Iteration \in 1 .. TrainIters /\ run'[0].iteration = run[0].iteration /\ tracker' = tracker
      /\ \A n \in 1 .. TrainIters \ {Iteration} : files'[n] = files[n]
  BY SaveFilesStep DEF Iteration
<1>2. CASE tracker \in 1 .. TrainIters /\ tracker = Iteration
  <2>1. Committed' \in {Iteration, -1}
    BY <1>0, <1>1, <1>2, CommittedIs, CommittedBecomes
  <2>. QED BY <1>1, <2>1, TrainingAssumption DEF Abstract!Commit, Abstract!Lose, Abstract!Lost, Iteration
<1>3. CASE tracker \in 1 .. TrainIters /\ tracker # Iteration
  <2>1. files'[tracker] = files[tracker]
    BY <1>1, <1>3
  <2>2. Complete(tracker)' = Complete(tracker)
    BY <1>1, <2>1 DEF Complete
  <2>. QED BY <1>0, <1>1, <1>3, <2>2, CommittedIs, CommittedBecomes
<1>4. CASE tracker \in {NoFile, Empty}
  BY <1>0, <1>1, <1>4, CommittedIs, CommittedBecomes
<1>. QED BY <1>0, <1>2, <1>3, <1>4 DEF Places_OK

LEMMA AbstractTracker ==
  ASSUME IInv, OpenTracker \/ WriteTracker
  PROVE  Abstract!Commit \/ Abstract!Lose
<1>0. Places_OK' /\ Places_OK
  BY TrackerStep DEF IInv
<1>1. UNCHANGED <<run, files>> /\ Iteration \in 1 .. TrainIters /\ Complete(Iteration)
  BY CommitsComplete DEF OpenTracker, WriteTracker, Committing
<1>2. CASE OpenTracker
  <2>1. Committed' = -1
    BY <1>0, <1>2, CommittedIs, CommittedBecomes DEF OpenTracker
  <2>. QED BY <1>1, <2>1 DEF Abstract!Lose, Abstract!Lost
<1>3. CASE WriteTracker
  <2>1. tracker' = Iteration /\ Complete(tracker)'
    BY <1>1, <1>3 DEF WriteTracker, Iteration, Complete
  <2>2. Committed' = Iteration
    BY <1>0, <1>1, <2>1, CommittedIs, CommittedBecomes
  <2>. QED BY <1>1, <2>2 DEF Abstract!Commit, Iteration
<1>. QED BY <1>2, <1>3

LEMMA AbstractLoad ==
  ASSUME IInv, Load
  PROVE  Abstract!Resume \/ UNCHANGED <<run[0].iteration, Committed>>
<1>0. Places_OK
  BY DEF IInv
<1>1. Committed' = Committed
  BY CommittedSame DEF Load, store
<1>2. CASE tracker = NoFile /\ Iteration' = 0
  BY <1>0, <1>1, <1>2, CommittedIs, CommittedBecomes DEF Abstract!Resume, Abstract!Lost, Iteration
<1>3. CASE tracker \in 1 .. TrainIters /\ Complete(tracker) /\ Iteration' = tracker
  BY <1>0, <1>1, <1>3, CommittedIs, CommittedBecomes, TrainingAssumption DEF Abstract!Resume, Abstract!Lost, Iteration
<1>4. CASE Iteration' = Iteration
  BY <1>1, <1>4 DEF Iteration
<1>. QED BY <1>2, <1>3, <1>4, LoadStep

(* The job does what a user expects of one that saves checkpoints: its progress *)
(* grows by single iterations, and a job that stops goes on from its last       *)
(* commit, or not at all.                                                       *)
THEOREM Refinement == Spec => ImplementsResumable
<1>1. Init => Abstract!Init
  <2>. SUFFICES ASSUME Init PROVE Abstract!Init
    OBVIOUS
  <2>1. Committed = 0
    BY InitIInv, CommittedIs DEF IInv, Init
  <2>2. run[0].iteration = 0
    BY FirstRank DEF Init, Fresh
  <2>. QED BY <2>1, <2>2 DEF Abstract!Init
<1>2. IInv /\ [Next]_vars => [Abstract!Next]_<<run[0].iteration, Committed>>
  <2>. SUFFICES ASSUME IInv, [Next]_vars
                PROVE  Abstract!Next \/ UNCHANGED <<run[0].iteration, Committed>>
    OBVIOUS
  <2>1. CASE Load
    BY <2>1, AbstractLoad DEF Abstract!Next
  <2>2. CASE TrainStep
    <3>1. Iteration \in 0 .. TrainIters - 1 /\ Iteration' = Iteration + 1
      BY <2>2, TrainStepStep
    <3>2. Committed' = Committed
      BY <2>2, CommittedSame DEF TrainStep, store
    <3>. QED BY <3>1, <3>2, TrainingAssumption DEF Abstract!Next, Abstract!Advance, Iteration
  <2>3. CASE Tracker
    BY <2>3, AbstractTracker DEF Tracker, Abstract!Next
  <2>4. CASE \E r \in Rank : SaveFiles(r)
    BY <2>4, AbstractSave DEF Abstract!Next
  <2>5. CASE \/ Restart \/ CheckSignals \/ CheckDuration \/ EnterSave \/ WaitForFiles \/ LeaveSave
             \/ \E r \in Rank : CheckInterval(r) \/ CheckExitInterval(r) \/ EndTraining(r)
             \/ Crash \/ UNCHANGED vars
    <3>1. UNCHANGED <<files, tracker, run>>
      BY <2>5 DEF Restart, CheckSignals, CheckDuration, EnterSave, WaitForFiles, LeaveSave,
                  CheckInterval, CheckExitInterval, EndTraining, Crash, store, vars
    <3>. QED BY <3>1, AbstractStutter
  <2>. QED BY <2>1, <2>2, <2>3, <2>4, <2>5 DEF Next, Job, Collective, Local, Done
<1>. QED BY <1>1, <1>2, Invariant, PTL DEF Spec, ImplementsResumable, Abstract!Spec
===============================================================================
