-------------------------- MODULE InterleavedProofs ---------------------------
(* Safety of the interleaved schedule, for every number of ranks, chunks and     *)
(* microbatches, every way of communicating and of reducing gradients.           *)
EXTENDS Interleaved, SequenceTheorems, Arithmetic

(* The iterations in flight around the ring: P of every chunk in turn.           *)
W == P * C

(* How many of the first n iterations are of the c-th chunk in order, and the    *)
(* microbatch of iteration n.                                                    *)
Clamp(x) == IF x < 0 THEN 0 ELSE IF x > P THEN P ELSE x
Count(n, c) == (n \div W) * P + Clamp((n % W) - c * P)
Microbatch(n) == Count(n, ForwardChunk(n))

(* The iteration of microbatch m on the c-th chunk in order.                     *)
Iteration(c, m) == (m \div P) * W + (c * P + (m % P))

(* Both passes go round the ring of ranks and through the chunks, the backward   *)
(* pass the other way: the place of a rank in the ring of pass d.                *)
Pass == {"F", "B"}
Other(d) == IF d = "F" THEN "B" ELSE "F"
Place(d, r) == IF d = "F" THEN r ELSE P - 1 - r
ChunkOf(d, n) == IF d = "F" THEN ForwardChunk(n) ELSE BackwardChunk(n)
After(d, r) == IF d = "F" THEN NextRank(r) ELSE PrevRank(r)
Got(d) == IF d = "F" THEN gotF ELSE gotB

(* The tensor that iteration n of pass d takes on rank r, and the one it makes.  *)
Made(d, u, m) == IF d = "F" THEN Act(u, m) ELSE Grad(W - 1 - u, m)
Taken(d, r, n)  == Made(d, ForwardChunk(n) * P + Place(d, r) - 1, Microbatch(n))
Yields(d, r, n) == Made(d, ForwardChunk(n) * P + Place(d, r), Microbatch(n))

(* The iterations at the two ends of the pipeline take or make none; among the   *)
(* first n, how many do.                                                         *)
Takes(d, r, n) == Place(d, r) = 0 => ForwardChunk(n) # 0
Gives(d, r, n) == Place(d, r) = P - 1 => ForwardChunk(n) # C - 1
Takings(d, r, n) == IF Place(d, r) = 0 THEN n - Count(n, 0) ELSE n
Givings(d, r, n) == IF Place(d, r) = P - 1 THEN n - Count(n, C - 1) ELSE n

(* The b-th tensor that rank r sends in pass d.                                  *)
Item(d, r, b) ==
  Yields(d, r, CHOOSE n \in 0 .. Total - 1 : Gives(d, r, n) /\ Givings(d, r, n) = b - 1)

(* The iterations that a rank has run, whose input it has asked for, and whose   *)
(* output it has sent.                                                           *)
Ran(d, r) ==
  IF phase[r] = "init" THEN 0
  ELSE IF d = "F"
  THEN IF phase[r] = "warmup" THEN k[r]
       ELSE IF phase[r] = "steady" THEN NumWarmup(r) + k[r] + (IF half[r] THEN 1 ELSE 0)
       ELSE Total
  ELSE IF phase[r] = "warmup" \/ ForwardOnly THEN 0
       ELSE IF phase[r] \in {"steady", "cooldown"} THEN k[r]
       ELSE IF phase[r] = "drain" THEN NumRemaining(r)
       ELSE Total

NextOf(n) == IF n < Total THEN n + 1 ELSE n
Halfway(r) == half[r] /\ P2P # "overlap"
NoGradYet(r) == phase[r] = "warmup" \/ (phase[r] = "drain" /\ AllWarmup) \/ ForwardOnly

Wanted(d, r) ==
  IF phase[r] = "init" THEN 0
  ELSE IF d = "F" THEN IF Halfway(r) THEN Ran("F", r) ELSE NextOf(Ran("F", r))
  ELSE IF NoGradYet(r) THEN 0 ELSE NextOf(Ran("B", r))
Sent(d, r) == IF d = "F" /\ Halfway(r) THEN Ran("F", r) - 1 ELSE Ran(d, r)

-------------------------------------------------------------------------------
(* The invariant                                                                 *)

(* The loops.                                                                    *)
Position(r) ==
  /\ phase[r] \in {"init", "warmup", "steady", "drain", "cooldown", "finish", "done"}
  /\ half[r] \in BOOLEAN /\ (half[r] => phase[r] = "steady")
  /\ k[r] \in 0 .. Total
  /\ phase[r] \in {"init", "drain"} => k[r] = 0
  /\ phase[r] = "warmup" => k[r] < NumWarmup(r)
  /\ phase[r] = "steady" => k[r] < NumRemaining(r)
  /\ phase[r] = "cooldown" => NumRemaining(r) <= k[r] /\ k[r] < Total
  /\ ForwardOnly => phase[r] \notin {"steady", "drain", "cooldown"}

Counted(r) ==
  /\ fwd[r] = [c \in Chunk |-> Count(Ran("F", r), c)]
  /\ bwd[r] = [c \in Chunk |-> Count(Ran("B", r), C - 1 - c)]
  /\ \A c \in Chunk : bwd[r][c] <= fwd[r][c]

(* Elements lo to hi - 1 of f.                                                   *)
Stretch(f, lo, hi) == [i \in 1 .. hi - lo |-> f[lo + i - 1]]

(* The buffers that microbatch m finds its input in, by chunk, and what it makes. *)
Buffers(d, r, c) ==
  [m \in 0 .. M |->
     IF m = M \/ (Place(d, r) = 0 /\ c = 0) THEN None ELSE Takings(d, r, Iteration(c, m)) + 1]
Outputs(r, c) == [m \in 0 .. M |-> Act(VStage(r, c), m)]

(* The chunk that has the buffer of the next iteration, unless that needs none.  *)
Filed(r, c) ==
  /\ phase[r] # "init" /\ ~half[r] /\ c = ForwardChunk(Ran("F", r))
  /\ \/ phase[r] = "warmup"
     \/ phase[r] = "steady" /\ (FirstStage(r, c) => k[r] = 0)
     \/ NumWarmup(r) = Total
GradFiled(r, c) ==
  /\ phase[r] # "init" /\ ~NoGradYet(r) /\ c = BackwardChunk(Ran("B", r))

Oldest(r, c) == IF ForwardOnly THEN fwd[r][c] ELSE bwd[r][c]

InputLists(r) ==
  \A c \in Chunk : input_tensors[r][c] =
    Stretch(Buffers("F", r, c), Oldest(r, c), fwd[r][c] + (IF Filed(r, c) THEN 1 ELSE 0))
OutputLists(r) ==
  \A c \in Chunk : output_tensors[r][c] = Stretch(Outputs(r, c), Oldest(r, c), fwd[r][c])
GradLists(r) ==
  \A c \in Chunk :
    \/ output_tensor_grads[r][c] = <<>> /\ (GradFiled(r, c) => LastStage(r, c) \/ bwd[r][c] = M)
    \/ output_tensor_grads[r][c] = <<Buffers("B", r, C - 1 - c)[bwd[r][c]]>> /\ GradFiled(r, c)
Lists(r) == InputLists(r) /\ OutputLists(r) /\ GradLists(r)

Asked(r) ==
  /\ askF[r] = Takings("F", r, IF half[r] THEN Ran("F", r) ELSE Wanted("F", r))
  /\ askB[r] = Takings("B", r, Wanted("B", r))

Result(r) ==
  half[r] => LET n == Ran("F", r) - 1 IN
             output_tensor[r] = IF Gives("F", r, n) THEN Yields("F", r, n) ELSE None

Losses(r) ==
  losses[r] = IF LastRank(r) THEN Stretch(Outputs(r, C - 1), 0, fwd[r][C - 1]) ELSE <<>>

(* The iterations whose chunk has been looked at for a reduction.                *)
Synced(r) == IF GradReduce # "delay" THEN Ran("B", r)
             ELSE IF Ran("B", r) < r THEN 0 ELSE Ran("B", r) - r
Reduced(r, c) ==
  IF GradReduce = "finalize" THEN phase[r] = "done" /\ ~ForwardOnly
  ELSE \/ Count(Synced(r), C - 1 - c) = M
       \/ GradReduce = "delay" /\ phase[r] = "done" /\ ~ForwardOnly
Reductions(r) ==
  /\ in_sync[r] = {c \in Chunk : Count(Synced(r), C - 1 - c) = M \/ (GradReduce = "delay" /\ Reduced(r, c))}
  /\ launches[r] = [c \in Chunk |-> IF Reduced(r, c) THEN <<M>> ELSE <<>>]

Received(d, r) ==
  /\ Got(d)[r] \in Seq(Computed)
  /\ Takings(d, r, Ran(d, r)) <= Len(Got(d)[r]) /\ Len(Got(d)[r]) <= Takings(d, r, Wanted(d, r))
  /\ \A b \in 1 .. Len(Got(d)[r]) : Got(d)[r][b] = Item(d, After(Other(d), r), b)

(* The operations of rank r towards its neighbours.                              *)
Sending(d, r) == Len(Got(d)[After(d, r)]) # Givings(d, r, Sent(d, r))
Receiving(d, r) == Len(Got(d)[r]) # Takings(d, r, Wanted(d, r))
Queue(q, hasS, s, hasR, t) ==
  \/ ~hasS /\ ~hasR /\ q = <<>>
  \/ hasS /\ ~hasR /\ q = <<s>>
  \/ ~hasS /\ hasR /\ q = <<t>>
  \/ hasS /\ hasR /\ q \in {<<s, t>>, <<t, s>>}
Queues(d, r) ==
  LET s == After(d, r) IN
  /\ Givings(d, r, Sent(d, r)) \in {Len(Got(d)[s]), Len(Got(d)[s]) + 1}
  /\ Sending(d, r) => Item(d, r, Givings(d, r, Sent(d, r))) \in Computed
  /\ Queue(ops[r][s],
           Sending(d, r), Send(d, Item(d, r, Givings(d, r, Sent(d, r)))),
           Receiving(Other(d), r), Recv(Other(d)))
Elsewhere(r) == \A s \in Rank : s \notin {NextRank(r), PrevRank(r)} => ops[r][s] = <<>>
Quiet(r) == Halfway(r) => Idle(r)

(* The variables are arrays over the ranks and the chunks.                       *)
Over(S, f) == f = [x \in S |-> f[x]]
Arrays ==
  /\ Over(Rank, phase) /\ Over(Rank, k) /\ Over(Rank, half)
  /\ Over(Rank, ops) /\ Over(Rank, gotF) /\ Over(Rank, gotB)
  /\ Over(Rank, askF) /\ Over(Rank, askB)
  /\ Over(Rank, input_tensors) /\ Over(Rank, output_tensors)
  /\ Over(Rank, output_tensor_grads) /\ Over(Rank, output_tensor)
  /\ Over(Rank, fwd) /\ Over(Rank, bwd)
  /\ Over(Rank, clean) /\ Over(Rank, losses)
  /\ Over(Rank, in_sync) /\ Over(Rank, launches)

ArraysOf(r) ==
  /\ Over(Rank, ops[r])
  /\ Over(Chunk, input_tensors[r]) /\ Over(Chunk, output_tensors[r])
  /\ Over(Chunk, output_tensor_grads[r])
  /\ output_tensor[r] \in Tensor \cup {None}

Local(r) ==
  /\ ArraysOf(r) /\ Position(r) /\ Counted(r) /\ Lists(r) /\ Asked(r) /\ Result(r)
  /\ Losses(r) /\ Reductions(r) /\ clean[r] = TRUE

Linked(r) ==
  /\ Elsewhere(r) /\ Quiet(r)
  /\ \A d \in Pass : Received(d, r) /\ Queues(d, r)

Inv == Arrays /\ \A r \in Rank : Local(r) /\ Linked(r)

-------------------------------------------------------------------------------
(* The arithmetic of the schedule                                                *)

LEMMA Sizes ==
  ASSUME Configuration
  PROVE  /\ P \in Nat \ {0} /\ P > 2 /\ C \in Nat \ {0} /\ M \in Nat \ {0}
         /\ W \in Nat \ {0} /\ Total \in Nat \ {0}
         /\ M \div P \in Nat \ {0} /\ M = (M \div P) * P /\ Total = (M \div P) * W
<1>1. P \in Nat \ {0} /\ P > 2 /\ C \in Nat \ {0} /\ M \in Nat \ {0} /\ M % P = 0
  BY DEF Configuration
<1>2. W \in Nat \ {0} /\ Total \in Nat \ {0}
  BY <1>1, TimesPositive DEF W, Total
<1>3. M = (M \div P) * P /\ M \div P \in Int
  BY <1>1, MultipleOf, Division
<1>4. M \div P \in Nat \ {0}
  <2>1. 0 * P < (M \div P) * P
    BY <1>1, <1>3
  <2>2. 0 < M \div P
    BY <1>1, <1>3, <2>1, TimesCancel
  <2>. QED BY <1>3, <2>2
<1>5. Total = (M \div P) * W
  <2>. DEFINE a == M \div P
  <2>1. (a * P) * C = a * (P * C)
    BY <1>1, <1>4
  <2>. QED BY <1>3, <2>1 DEF Total, W
<1>. QED BY <1>1, <1>2, <1>3, <1>4, <1>5

LEMMA Basics ==
  ASSUME Configuration
  PROVE  /\ P \in Nat \ {0} /\ P > 2 /\ C \in Nat \ {0} /\ M \in Nat \ {0}
         /\ W \in Nat \ {0} /\ Total \in Nat \ {0}
         /\ 0 \in Chunk /\ C - 1 \in Chunk
<1>1. C \in Nat \ {0}
  BY Sizes
<1>2. 0 \in Chunk /\ C - 1 \in Chunk
  BY <1>1 DEF Chunk
<1>. QED BY <1>2, Sizes

(* A number in its parts: the round through all chunks, the chunk and the rest.   *)
Parts(n, q, c, j) ==
  /\ n = q * W + (c * P + j) /\ n \div W = q /\ n % W = c * P + j
  /\ ForwardChunk(n) = c

LEMMA Places ==
  ASSUME Configuration, NEW c \in Chunk, NEW j \in 0 .. P - 1
  PROVE  /\ c * P \in Nat /\ c * P + j \in 0 .. W - 1
         /\ (c * P + j) \div P = c
<1>0. P \in Nat \ {0} /\ C \in Nat \ {0} /\ c \in 0 .. C - 1
  BY Sizes DEF Chunk
<1>1. c * P \in Nat
  BY <1>0
<1>2. (c + 1) * P <= C * P /\ (c + 1) * P = c * P + P /\ C * P = W
  <2>1. (c + 1) * P <= C * P
    BY <1>0, TimesMonotonic
  <2>2. (c + 1) * P = c * P + P /\ C * P = P * C
    BY <1>0
  <2>. QED BY <2>1, <2>2 DEF W
<1>3. W \in Nat
  BY Sizes
<1>4. (c * P + j) \div P = c
  BY <1>0, DivisionUnique
<1>. QED BY <1>0, <1>1, <1>2, <1>3, <1>4

LEMMA PartsAre ==
  ASSUME Configuration, NEW q \in Int, NEW c \in Chunk, NEW j \in 0 .. P - 1
  PROVE  Parts(q * W + (c * P + j), q, c, j)
<1>. DEFINE x == c * P + j
<1>1. x \in 0 .. W - 1 /\ x \div P = c /\ W \in Nat \ {0}
  BY Places, Sizes
<1>2. (q * W + x) \div W = q /\ (q * W + x) % W = x
  <2>. HIDE DEF x
  <2>. QED BY <1>1, DivisionUnique
<1>3. ForwardChunk(q * W + x) = c
  BY <1>1, <1>2 DEF ForwardChunk, W
<1>. QED BY <1>2, <1>3 DEF Parts

LEMMA HasParts ==
  ASSUME Configuration, NEW n \in Int
  PROVE  \E q \in Int, c \in Chunk, j \in 0 .. P - 1 : Parts(n, q, c, j)
<1>. DEFINE q == n \div W
            x == n % W
            c == x \div P
            j == x % P
<1>1. W \in Nat \ {0} /\ P \in Nat \ {0} /\ C \in Nat \ {0} /\ W = C * P
  BY Sizes DEF W
<1>2. q \in Int /\ x \in 0 .. W - 1 /\ n = q * W + x
  BY <1>1, Division
<1>. HIDE DEF q, x
<1>3. c \in 0 .. C - 1
  BY <1>1, <1>2, QuotientBounds
<1>4. j \in 0 .. P - 1 /\ x = c * P + j
  BY <1>1, <1>2, Division
<1>. HIDE DEF c, j
<1>5. c \in Chunk
  BY <1>3 DEF Chunk
<1>6. Parts(q * W + (c * P + j), q, c, j)
  BY <1>2, <1>4, <1>5, PartsAre
<1>. QED BY <1>2, <1>4, <1>5, <1>6

LEMMA PartsNat ==
  ASSUME Configuration, NEW n \in Nat, NEW q \in Int, NEW c \in Chunk, NEW j \in 0 .. P - 1,
         Parts(n, q, c, j)
  PROVE  q \in Nat
<1>1. W \in Nat \ {0} /\ c * P + j \in 0 .. W - 1 /\ n = q * W + (c * P + j)
  BY Sizes, Places DEF Parts
<1>2. (q + 1) * W = q * W + W
  BY <1>1
<1>3. 0 * W < (q + 1) * W
  BY <1>1, <1>2
<1>4. 0 < q + 1
  BY <1>1, <1>3, TimesCancel
<1>. QED BY <1>4

(* The number after it.                                                          *)
LEMMA NextParts ==
  ASSUME Configuration, NEW n \in Int, NEW q \in Int, NEW c \in Chunk, NEW j \in 0 .. P - 1,
         Parts(n, q, c, j)
  PROVE  /\ j < P - 1 => Parts(n + 1, q, c, j + 1)
         /\ j = P - 1 /\ c < C - 1 => Parts(n + 1, q, c + 1, 0)
         /\ j = P - 1 /\ c = C - 1 => Parts(n + 1, q + 1, 0, 0)
<1>0. /\ P \in Nat \ {0} /\ C \in Nat \ {0} /\ W \in Nat /\ c \in 0 .. C - 1 /\ W = P * C
      /\ n = q * W + (c * P + j) /\ c * P \in Nat /\ q * W \in Int
  BY Sizes, Places DEF Parts, Chunk, W
<1>1. ASSUME j < P - 1 PROVE Parts(n + 1, q, c, j + 1)
  <2>1. j + 1 \in 0 .. P - 1 /\ n + 1 = q * W + (c * P + (j + 1))
    BY <1>0, <1>1
  <2>. QED BY <2>1, PartsAre
<1>2. ASSUME j = P - 1, c < C - 1 PROVE Parts(n + 1, q, c + 1, 0)
  <2>1. (c + 1) * P = c * P + P
    BY <1>0
  <2>2. c + 1 \in Chunk /\ 0 \in 0 .. P - 1 /\ n + 1 = q * W + ((c + 1) * P + 0)
    BY <1>0, <1>2, <2>1 DEF Chunk
  <2>. QED BY <2>2, PartsAre
<1>3. ASSUME j = P - 1, c = C - 1 PROVE Parts(n + 1, q + 1, 0, 0)
  <2>1. (c + 1) * P = c * P + P /\ (q + 1) * W = q * W + W /\ C * P = W
    BY <1>0
  <2>2. 0 \in Chunk /\ 0 \in 0 .. P - 1 /\ q + 1 \in Int
    BY <1>0 DEF Chunk
  <2>3. n + 1 = (q + 1) * W + (0 * P + 0)
    <3>1. c + 1 = C
      BY <1>0, <1>3
    <3>2. c * P + P = W
      BY <2>1, <3>1
    <3>. QED BY <1>0, <1>3, <2>1, <3>2
  <2>. QED BY <2>2, <2>3, PartsAre
<1>. QED BY <1>1, <1>2, <1>3

(* The number P before it.                                                       *)
LEMMA PartsBefore ==
  ASSUME Configuration, NEW n \in Int, NEW q \in Int, NEW c \in Chunk, NEW j \in 0 .. P - 1,
         Parts(n, q, c, j)
  PROVE  /\ c > 0 => Parts(n - P, q, c - 1, j)
         /\ c = 0 => Parts(n - P, q - 1, C - 1, j)
<1>0. /\ P \in Nat \ {0} /\ C \in Nat \ {0} /\ W \in Nat /\ c \in 0 .. C - 1 /\ W = P * C
      /\ n = q * W + (c * P + j) /\ c * P \in Nat /\ q * W \in Int
  BY Sizes, Places DEF Parts, Chunk, W
<1>1. ASSUME c > 0 PROVE Parts(n - P, q, c - 1, j)
  <2>1. (c - 1) * P = c * P - P
    BY <1>0
  <2>2. c - 1 \in Chunk /\ n - P = q * W + ((c - 1) * P + j)
    BY <1>0, <1>1, <2>1 DEF Chunk
  <2>. QED BY <2>2, PartsAre
<1>2. ASSUME c = 0 PROVE Parts(n - P, q - 1, C - 1, j)
  <2>1. (C - 1) * P = W - P /\ (q - 1) * W = q * W - W /\ c * P = 0
    BY <1>0, <1>2
  <2>2. C - 1 \in Chunk /\ n - P = (q - 1) * W + ((C - 1) * P + j) /\ q - 1 \in Int
    BY <1>0, <1>2, <2>1 DEF Chunk
  <2>. QED BY <2>2, PartsAre
<1>. QED BY <1>1, <1>2

(* How many of the iterations before n are of chunk e.                           *)
LEMMA CountIs ==
  ASSUME Configuration, NEW n \in Int, NEW q \in Int, NEW c \in Chunk, NEW j \in 0 .. P - 1,
         Parts(n, q, c, j), NEW e \in Chunk
  PROVE  Count(n, e) = q * P + (IF e < c THEN P ELSE IF e = c THEN j ELSE 0)
<1>0. /\ P \in Nat \ {0} /\ C \in Nat \ {0} /\ c \in 0 .. C - 1 /\ e \in 0 .. C - 1
      /\ c * P \in Nat /\ e * P \in Nat
  BY Sizes, Places DEF Chunk
<1>1. Count(n, e) = q * P + Clamp((c * P + j) - e * P)
  BY DEF Parts, Count
<1>2. CASE e < c
  <2>1. (e + 1) * P <= c * P /\ (e + 1) * P = e * P + P
    <3>1. e + 1 \in Int /\ c \in Int /\ e + 1 <= c
      BY <1>0, <1>2
    <3>2. (e + 1) * P <= c * P
      BY <1>0, <3>1, TimesMonotonic
    <3>. QED BY <1>0, <3>2
  <2>2. Clamp((c * P + j) - e * P) = P
    BY <1>0, <2>1 DEF Clamp
  <2>. QED BY <1>0, <1>1, <1>2, <2>2
<1>3. CASE e = c
  <2>1. Clamp((c * P + j) - e * P) = j
    BY <1>0, <1>3 DEF Clamp
  <2>. QED BY <1>0, <1>1, <1>3, <2>1
<1>4. CASE e > c
  <2>1. (c + 1) * P <= e * P /\ (c + 1) * P = c * P + P
    <3>1. c + 1 \in Int /\ e \in Int /\ c + 1 <= e
      BY <1>0, <1>4
    <3>2. (c + 1) * P <= e * P
      BY <1>0, <3>1, TimesMonotonic
    <3>. QED BY <1>0, <3>2
  <2>2. Clamp((c * P + j) - e * P) = 0
    BY <1>0, <2>1 DEF Clamp
  <2>. QED BY <1>0, <1>1, <1>4, <2>2
<1>. QED BY <1>0, <1>2, <1>3, <1>4

LEMMA MicrobatchIs ==
  ASSUME Configuration, NEW n \in Int, NEW q \in Int, NEW c \in Chunk, NEW j \in 0 .. P - 1,
         Parts(n, q, c, j)
  PROVE  Microbatch(n) = q * P + j
<1>1. c \in Int
  BY Sizes DEF Chunk
<1>. QED BY <1>1, CountIs DEF Microbatch, Parts

LEMMA ForwardChunkIs ==
  ASSUME Configuration, NEW n \in Int
  PROVE  ForwardChunk(n) \in Chunk /\ BackwardChunk(n) \in Chunk
<1>1. ForwardChunk(n) \in Chunk
  BY HasParts DEF Parts
<1>. QED BY <1>1, Sizes DEF Chunk, BackwardChunk

(* One iteration more.                                                           *)
LEMMA CountStep ==
  ASSUME Configuration, NEW n \in Nat, NEW e \in Chunk
  PROVE  /\ Count(n, e) \in Nat
         /\ Count(n + 1, e) = Count(n, e) + (IF e = ForwardChunk(n) THEN 1 ELSE 0)
<1>1. PICK q \in Int, c \in Chunk, j \in 0 .. P - 1 : Parts(n, q, c, j)
  BY HasParts
<1>0. P \in Nat \ {0} /\ C \in Nat \ {0} /\ c \in 0 .. C - 1 /\ e \in 0 .. C - 1 /\ 0 \in 0 .. P - 1
  BY Sizes DEF Chunk
<1>2. q \in Nat /\ ForwardChunk(n) = c /\ q * P \in Nat /\ (q + 1) * P = q * P + P
  <2>1. q \in Nat
    BY <1>1, PartsNat
  <2>. QED BY <1>0, <1>1, <2>1 DEF Parts
<1>3. Count(n, e) = q * P + (IF e < c THEN P ELSE IF e = c THEN j ELSE 0)
  BY <1>1, CountIs
<1>4. CASE j < P - 1
  <2>1. Parts(n + 1, q, c, j + 1) /\ j + 1 \in 0 .. P - 1
    BY <1>0, <1>1, <1>4, NextParts
  <2>2. Count(n + 1, e) = q * P + (IF e < c THEN P ELSE IF e = c THEN j + 1 ELSE 0)
    BY <2>1, CountIs
  <2>. QED BY <1>0, <1>2, <1>3, <2>2
<1>5. CASE j = P - 1 /\ c < C - 1
  <2>1. Parts(n + 1, q, c + 1, 0) /\ c + 1 \in Chunk
    BY <1>0, <1>1, <1>5, NextParts DEF Chunk
  <2>2. Count(n + 1, e) = q * P + (IF e < c + 1 THEN P ELSE IF e = c + 1 THEN 0 ELSE 0)
    BY <1>0, <2>1, CountIs
  <2>. QED BY <1>0, <1>2, <1>3, <1>5, <2>2
<1>6. CASE j = P - 1 /\ c = C - 1
  <2>1. Parts(n + 1, q + 1, 0, 0) /\ 0 \in Chunk /\ q + 1 \in Int
    BY <1>0, <1>1, <1>6, NextParts DEF Chunk
  <2>2. Count(n + 1, e) = (q + 1) * P + (IF e < 0 THEN P ELSE IF e = 0 THEN 0 ELSE 0)
    BY <1>0, <2>1, CountIs
  <2>. QED BY <1>0, <1>2, <1>3, <1>6, <2>2
<1>. QED BY <1>0, <1>4, <1>5, <1>6

LEMMA CountEnds ==
  ASSUME Configuration, NEW e \in Chunk
  PROVE  Count(0, e) = 0 /\ Count(Total, e) = M /\ ForwardChunk(Total) = 0 /\ ForwardChunk(0) = 0
<1>0. /\ P \in Nat \ {0} /\ C \in Nat \ {0} /\ e \in 0 .. C - 1 /\ M \div P \in Nat /\ W \in Nat
      /\ M = (M \div P) * P /\ Total = (M \div P) * W
  BY Sizes DEF Chunk
<1>1. ASSUME NEW q \in Nat PROVE Count(q * W, e) = q * P /\ ForwardChunk(q * W) = 0
  <2>1. 0 \in Chunk /\ 0 \in 0 .. P - 1 /\ q * W = q * W + (0 * P + 0)
    BY <1>0 DEF Chunk
  <2>2. Parts(q * W, q, 0, 0)
    BY <2>1, PartsAre
  <2>3. Count(q * W, e) = q * P + (IF e < 0 THEN P ELSE IF e = 0 THEN 0 ELSE 0)
    <3>1. q * W \in Int /\ q \in Int
      BY <1>0
    <3>. QED BY <2>1, <2>2, <3>1, CountIs
  <2>. QED BY <1>0, <2>2, <2>3 DEF Parts
<1>2. 0 * W = 0 /\ 0 * P = 0 /\ 0 \in Nat
  BY <1>0
<1>3. Count(0, e) = 0 /\ ForwardChunk(0) = 0
  BY <1>1, <1>2
<1>4. Count((M \div P) * W, e) = (M \div P) * P /\ ForwardChunk((M \div P) * W) = 0
  BY <1>0, <1>1
<1>. QED BY <1>0, <1>3, <1>4

LEMMA CountMonotonic ==
  ASSUME Configuration, NEW e \in Chunk, NEW n \in Nat, NEW m \in Nat, n <= m
  PROVE  Count(n, e) <= Count(m, e)
<1>. DEFINE S == {i \in Nat : Count(n, e) <= Count(n + i, e)}
<1>1. 0 \in S
  BY CountStep
<1>2. ASSUME NEW i \in Nat, i \in S PROVE i + 1 \in S
  <2>1. n + i \in Nat /\ n + (i + 1) = (n + i) + 1
    OBVIOUS
  <2>2. Count(n, e) <= Count(n + i, e)
    BY <1>2
  <2>3. /\ Count(n, e) \in Nat /\ Count(n + i, e) \in Nat
        /\ Count((n + i) + 1, e) = Count(n + i, e) + (IF e = ForwardChunk(n + i) THEN 1 ELSE 0)
    BY <2>1, CountStep
  <2>4. Count(n, e) <= Count(n + (i + 1), e)
    BY <2>1, <2>2, <2>3
  <2>. QED BY <2>4
<1>3. Nat \subseteq S
  <2>. HIDE DEF S
  <2>. QED BY <1>1, <1>2, Induct
<1>4. m - n \in S /\ n + (m - n) = m
  BY <1>3
<1>. QED BY <1>4

LEMMA CountBounds ==
  ASSUME Configuration, NEW e \in Chunk, NEW n \in 0 .. Total
  PROVE  /\ Count(n, e) \in 0 .. M
         /\ n < Total => Microbatch(n) \in 0 .. M - 1
<1>0. Total \in Nat /\ M \in Nat
  BY Sizes
<1>1. \A f \in Chunk : \A m \in 0 .. Total : Count(m, f) \in Nat /\ Count(m, f) <= M
  BY <1>0, CountMonotonic, CountEnds, CountStep
<1>2. ASSUME n < Total PROVE Microbatch(n) \in 0 .. M - 1
  <2>1. ForwardChunk(n) \in Chunk
    BY <1>0, ForwardChunkIs
  <2>2. Count(n + 1, ForwardChunk(n)) = Microbatch(n) + 1 /\ Microbatch(n) \in Nat
    BY <1>0, <2>1, CountStep DEF Microbatch
  <2>3. Count(n + 1, ForwardChunk(n)) <= M
    BY <1>0, <1>1, <1>2, <2>1
  <2>. QED BY <1>0, <2>2, <2>3
<1>. QED BY <1>0, <1>1, <1>2

(* The iteration of a microbatch, and back.                                      *)
LEMMA IterationIs ==
  ASSUME Configuration, NEW c \in Chunk, NEW m \in 0 .. M - 1
  PROVE  /\ Iteration(c, m) \in 0 .. Total - 1
         /\ ForwardChunk(Iteration(c, m)) = c /\ Microbatch(Iteration(c, m)) = m
<1>0. P \in Nat \ {0} /\ M \in Nat /\ W \in Nat \ {0} /\ Total = (M \div P) * W /\ M = (M \div P) * P /\ M \div P \in Nat
  BY Sizes
<1>. DEFINE q == m \div P
            j == m % P
            n == Iteration(c, m)
<1>1. q \in Int /\ j \in 0 .. P - 1 /\ m = q * P + j
  BY <1>0, Division
<1>2. q \in 0 .. (M \div P) - 1
  <2>1. m \in 0 .. (M \div P) * P - 1
    BY <1>0
  <2>. QED BY <1>0, <2>1, QuotientBounds
<1>3. n = q * W + (c * P + j) /\ n \in Int
  <2>1. c * P + j \in Int
    BY <1>1, Places
  <2>. QED BY <1>0, <1>1, <2>1 DEF Iteration
<1>. HIDE DEF q, j, n
<1>4. Parts(n, q, c, j)
  BY <1>1, <1>3, PartsAre
<1>5. Microbatch(n) = m
  BY <1>1, <1>3, <1>4, MicrobatchIs
<1>6. n \in 0 .. Total - 1
  <2>1. c * P + j \in 0 .. W - 1
    BY <1>1, Places
  <2>2. (q + 1) * W <= (M \div P) * W /\ (q + 1) * W = q * W + W /\ q * W \in Nat
    BY <1>0, <1>2, TimesMonotonic
  <2>. QED BY <1>0, <1>3, <2>1, <2>2
<1>. QED BY <1>4, <1>5, <1>6 DEF n, Parts

LEMMA IterationOf ==
  ASSUME Configuration, NEW n \in 0 .. Total - 1
  PROVE  Iteration(ForwardChunk(n), Microbatch(n)) = n
<1>0. P \in Nat \ {0} /\ Total \in Nat
  BY Sizes
<1>1. PICK q \in Int, c \in Chunk, j \in 0 .. P - 1 : Parts(n, q, c, j)
  BY <1>0, HasParts
<1>2. Microbatch(n) = q * P + j
  BY <1>0, <1>1, MicrobatchIs
<1>3. (q * P + j) \div P = q /\ (q * P + j) % P = j
  BY <1>0, DivisionUnique
<1>. QED BY <1>1, <1>2, <1>3 DEF Iteration, Parts

(* is_last_microbatch_for_model_chunk tells the last microbatch.                 *)
LEMMA LastForChunk ==
  ASSUME Configuration, NEW n \in 0 .. Total - 1
  PROVE  IsLastForChunk(n) <=> Microbatch(n) = M - 1
<1>0. /\ P \in Nat \ {0} /\ Total \in Nat /\ M \in Nat /\ W \in Nat \ {0} /\ W = P * C
      /\ M = (M \div P) * P /\ Total = (M \div P) * W /\ M \div P \in Nat \ {0}
  BY Sizes DEF W
<1>1. PICK q \in Int, c \in Chunk, j \in 0 .. P - 1 : Parts(n, q, c, j)
  BY <1>0, HasParts
<1>2. Microbatch(n) = q * P + j
  BY <1>0, <1>1, MicrobatchIs
<1>3. Total \div W = M \div P
  BY <1>0, DivisionUnique
<1>4. (c * P + j) % P = j
  <2>1. c \in Int
    BY Sizes DEF Chunk
  <2>. QED BY <1>0, <2>1, DivisionUnique
<1>5. IsLastForChunk(n) <=> q = (M \div P) - 1 /\ j = P - 1
  BY <1>0, <1>1, <1>3, <1>4 DEF IsLastForChunk, Parts
<1>. DEFINE a == M \div P
<1>6. ASSUME q = a - 1, j = P - 1 PROVE q * P + j = M - 1
  <2>1. (a - 1) * P = a * P - P
    BY <1>0
  <2>. QED BY <1>0, <1>6, <2>1
<1>7. ASSUME q * P + j = M - 1 PROVE q = a - 1 /\ j = P - 1
  <2>1. (a - 1) * P = a * P - P
    BY <1>0
  <2>2. q * P + j = (a - 1) * P + (P - 1) /\ P - 1 \in 0 .. P - 1 /\ a - 1 \in Int
    BY <1>0, <1>7, <2>1
  <2>3. /\ (q * P + j) \div P = q /\ (q * P + j) % P = j
        /\ ((a - 1) * P + (P - 1)) \div P = a - 1 /\ ((a - 1) * P + (P - 1)) % P = P - 1
    <3>. HIDE DEF a
    <3>1. (q * P + j) \div P = q /\ (q * P + j) % P = j
      BY <1>0, DivisionUnique
    <3>2. ((a - 1) * P + (P - 1)) \div P = a - 1 /\ ((a - 1) * P + (P - 1)) % P = P - 1
      <4>1. a - 1 \in Int /\ P - 1 \in 0 .. P - 1 /\ P \in Nat \ {0}
        BY <1>0, <2>2
      <4>. QED BY <4>1, DivisionUnique
    <3>. QED BY <3>1, <3>2
  <2>. QED BY <2>2, <2>3
<1>. QED BY <1>2, <1>5, <1>6, <1>7

-------------------------------------------------------------------------------
(* The ring                                                                      *)

LEMMA Remainder ==
  ASSUME NEW b \in Nat \ {0}, NEW x \in 0 .. b - 1
  PROVE  x % b = x /\ (x - b) % b = x /\ (x + b) % b = x
<1>1. ASSUME NEW q \in {-1, 0, 1} PROVE (q * b + x) % b = x
  BY DivisionUnique
<1>2. PICK q \in {-1, 0, 1} : q = 0
  OBVIOUS
<1>3. PICK p \in {-1, 0, 1} : p = -1
  OBVIOUS
<1>4. PICK t \in {-1, 0, 1} : t = 1
  OBVIOUS
<1>5. q * b + x = x /\ p * b + x = x - b /\ t * b + x = x + b
  BY <1>2, <1>3, <1>4
<1>6. (q * b + x) % b = x /\ (p * b + x) % b = x /\ (t * b + x) % b = x
  BY <1>1
<1>. QED BY <1>5, <1>6

LEMMA Ring ==
  ASSUME Configuration, NEW d \in Pass, NEW r \in Rank
  PROVE  /\ Place(d, r) \in 0 .. P - 1 /\ Other(d) \in Pass /\ Other(d) # d /\ Other(Other(d)) = d
         /\ After(d, r) \in Rank /\ After(d, r) # r /\ After(Other(d), r) # After(d, r)
         /\ After(Other(d), After(d, r)) = r /\ After(d, After(Other(d), r)) = r
         /\ Place(d, After(d, r)) = IF Place(d, r) = P - 1 THEN 0 ELSE Place(d, r) + 1
<1>0. P \in Nat \ {0} /\ P > 2 /\ r \in 0 .. P - 1
  BY Basics DEF Rank
<1>1. ASSUME NEW s \in Rank
      PROVE  /\ NextRank(s) = IF s = P - 1 THEN 0 ELSE s + 1
             /\ PrevRank(s) = IF s = 0 THEN P - 1 ELSE s - 1
  <2>0. s \in 0 .. P - 1 /\ 0 \in 0 .. P - 1 /\ P - 1 \in 0 .. P - 1 /\ P \in Nat \ {0}
    BY <1>0 DEF Rank
  <2>1. ASSUME s # P - 1 PROVE (s + 1) % P = s + 1
    <3>1. s + 1 \in 0 .. P - 1
      BY <2>0, <2>1
    <3>. QED BY <2>0, <3>1, Remainder
  <2>2. ASSUME s = P - 1 PROVE (s + 1) % P = 0
    <3>1. s + 1 = 0 + P
      BY <2>0, <2>2
    <3>. QED BY <2>0, <3>1, Remainder
  <2>3. ASSUME s # 0 PROVE (s - 1) % P = s - 1
    <3>1. s - 1 \in 0 .. P - 1
      BY <2>0, <2>3
    <3>. QED BY <2>0, <3>1, Remainder
  <2>4. ASSUME s = 0 PROVE (s - 1) % P = P - 1
    <3>1. s - 1 = (P - 1) - P
      BY <2>0, <2>4
    <3>. QED BY <2>0, <3>1, Remainder
  <2>. QED BY <2>1, <2>2, <2>3, <2>4 DEF NextRank, PrevRank
<1>2. /\ NextRank(r) \in Rank /\ PrevRank(r) \in Rank /\ NextRank(r) # PrevRank(r)
      /\ NextRank(r) # r /\ PrevRank(r) # r
      /\ NextRank(PrevRank(r)) = r /\ PrevRank(NextRank(r)) = r
  <2>1. NextRank(r) \in Rank /\ PrevRank(r) \in Rank
    BY <1>0, <1>1 DEF Rank
  <2>. QED BY <1>0, <1>1, <2>1 DEF Rank
<1>3. CASE d = "F"
  BY <1>0, <1>1, <1>2, <1>3 DEF Pass, Other, Place, After
<1>4. CASE d = "B"
  BY <1>0, <1>1, <1>2, <1>4 DEF Pass, Other, Place, After
<1>. QED BY <1>3, <1>4 DEF Pass

LEMMA PlaceIs ==
  ASSUME Configuration, NEW r \in Rank
  PROVE  /\ Place("F", r) = r /\ Place("B", r) = P - 1 - r
         /\ FirstRank(r) <=> Place("F", r) = 0
         /\ LastRank(r) <=> Place("F", r) = P - 1
         /\ FirstRank(r) <=> Place("B", r) = P - 1
         /\ LastRank(r) <=> Place("B", r) = 0
<1>0. P \in Nat /\ r \in 0 .. P - 1
  BY Basics DEF Rank
<1>. QED BY <1>0 DEF Place, FirstRank, LastRank

(* How many of the first n iterations take a tensor, and how many give one.       *)
LEMMA TakingsStep ==
  ASSUME Configuration, NEW d \in Pass, NEW r \in Rank, NEW n \in Nat
  PROVE  /\ Takings(d, r, n + 1) = Takings(d, r, n) + (IF Takes(d, r, n) THEN 1 ELSE 0)
         /\ Givings(d, r, n + 1) = Givings(d, r, n) + (IF Gives(d, r, n) THEN 1 ELSE 0)
         /\ Takes(d, r, n) \in BOOLEAN /\ Gives(d, r, n) \in BOOLEAN
<1>1. 0 \in Chunk /\ C - 1 \in Chunk
  BY Basics
<1>2. \A e \in Chunk : /\ Count(n, e) \in Nat
                       /\ Count(n + 1, e) = Count(n, e) + (IF e = ForwardChunk(n) THEN 1 ELSE 0)
  BY CountStep
<1>. QED BY <1>1, <1>2 DEF Takings, Givings, Takes, Gives

LEMMA TakingsNat ==
  ASSUME Configuration, NEW d \in Pass, NEW r \in Rank, NEW n \in Nat
  PROVE  /\ Takings(d, r, n) \in 0 .. n /\ Givings(d, r, n) \in 0 .. n
         /\ Takings(d, r, 0) = 0 /\ Givings(d, r, 0) = 0
<1>0. 0 \in Chunk /\ C - 1 \in Chunk
  BY Basics
<1>1. Takings(d, r, 0) = 0 /\ Givings(d, r, 0) = 0
  BY <1>0, CountEnds DEF Takings, Givings
<1>. DEFINE S == {m \in Nat : Takings(d, r, m) \in 0 .. m /\ Givings(d, r, m) \in 0 .. m}
<1>2. 0 \in S
  BY <1>1
<1>3. ASSUME NEW m \in Nat, m \in S PROVE m + 1 \in S
  <2>1. Takings(d, r, m) \in 0 .. m /\ Givings(d, r, m) \in 0 .. m
    BY <1>3
  <2>2. Takings(d, r, m + 1) \in 0 .. m + 1 /\ Givings(d, r, m + 1) \in 0 .. m + 1
    BY <2>1, TakingsStep
  <2>. QED BY <2>2
<1>4. Nat \subseteq S
  <2>. HIDE DEF S
  <2>. QED BY <1>2, <1>3, Induct
<1>. QED BY <1>1, <1>4

LEMMA TakingsMonotonic ==
  ASSUME Configuration, NEW d \in Pass, NEW r \in Rank, NEW n \in Nat, NEW m \in Nat, n <= m
  PROVE  Takings(d, r, n) <= Takings(d, r, m) /\ Givings(d, r, n) <= Givings(d, r, m)
<1>. DEFINE S == {i \in Nat : /\ Takings(d, r, n) <= Takings(d, r, n + i)
                              /\ Givings(d, r, n) <= Givings(d, r, n + i)}
<1>1. 0 \in S
  <2>1. Takings(d, r, n) \in Nat /\ Givings(d, r, n) \in Nat
    BY TakingsNat
  <2>2. n + 0 = n
    OBVIOUS
  <2>. QED BY <2>1, <2>2
<1>2. ASSUME NEW i \in Nat, i \in S PROVE i + 1 \in S
  <2>1. n + i \in Nat /\ n + (i + 1) = (n + i) + 1
    OBVIOUS
  <2>2. Takings(d, r, n) <= Takings(d, r, n + i) /\ Givings(d, r, n) <= Givings(d, r, n + i)
    BY <1>2
  <2>3. /\ Takings(d, r, n) \in Nat /\ Takings(d, r, n + i) \in Nat
        /\ Givings(d, r, n) \in Nat /\ Givings(d, r, n + i) \in Nat
    BY <2>1, TakingsNat
  <2>4. /\ Takings(d, r, n) <= Takings(d, r, n + (i + 1))
        /\ Givings(d, r, n) <= Givings(d, r, n + (i + 1))
    BY <2>1, <2>2, <2>3, TakingsStep
  <2>. QED BY <2>4
<1>3. Nat \subseteq S
  <2>. HIDE DEF S
  <2>. QED BY <1>1, <1>2, Induct
<1>4. m - n \in S /\ n + (m - n) = m
  BY <1>3
<1>. QED BY <1>4

(* The tensor of an iteration is the one of its place in the stream.             *)
LEMMA ItemIs ==
  ASSUME Configuration, NEW d \in Pass, NEW r \in Rank, NEW n \in 0 .. Total - 1, Gives(d, r, n)
  PROVE  Item(d, r, Givings(d, r, n) + 1) = Yields(d, r, n)
<1>0. Total \in Nat /\ n \in Nat
  BY Basics
<1>. DEFINE b == Givings(d, r, n) + 1
            Is(m) == Gives(d, r, m) /\ Givings(d, r, m) = b - 1
<1>1. Givings(d, r, n) \in Nat /\ b \in Nat
  BY <1>0, TakingsNat
<1>2. Is(n)
  BY <1>1
<1>3. ASSUME NEW m \in 0 .. Total - 1, Is(m) PROVE m = n
  <2>1. \A x, y \in 0 .. Total - 1 : Is(x) /\ Is(y) => ~(x < y)
    <3>1. SUFFICES ASSUME NEW x \in 0 .. Total - 1, NEW y \in 0 .. Total - 1, Is(x), Is(y), x < y
                   PROVE  FALSE
      OBVIOUS
    <3>2. x \in Nat /\ y \in Nat /\ x + 1 \in Nat /\ x + 1 <= y
      BY <1>0, <3>1
    <3>3. Givings(d, r, x + 1) = b
      BY <1>1, <3>1, <3>2, TakingsStep
    <3>4. Givings(d, r, x + 1) <= Givings(d, r, y)
      BY <3>2, TakingsMonotonic
    <3>. QED BY <1>1, <3>1, <3>3, <3>4
  <2>2. ~(m < n) /\ ~(n < m)
    BY <1>2, <1>3, <2>1
  <2>. QED BY <1>0, <2>2
<1>. HIDE DEF Is
<1>4. (CHOOSE m \in 0 .. Total - 1 : Is(m)) = n
  BY <1>2, <1>3
<1>. QED BY <1>4 DEF Item, Is

(* The iteration that makes what iteration n takes, on the rank before.          *)
Makes(d, s, i, r, n) ==
  /\ Gives(d, s, i) /\ Givings(d, s, i) = Takings(d, r, n) /\ Yields(d, s, i) = Taken(d, r, n)
  /\ Microbatch(i) = Microbatch(n)
  /\ ForwardChunk(i) = ForwardChunk(n) - (IF Place(d, r) = 0 THEN 1 ELSE 0)

LEMMA Source ==
  ASSUME Configuration, NEW d \in Pass, NEW r \in Rank, NEW n \in 0 .. Total - 1, Takes(d, r, n)
  PROVE  \E i \in 0 .. Total - 1 : Makes(d, After(Other(d), r), i, r, n)
<1>. DEFINE s == After(Other(d), r)
<1>0. /\ P \in Nat \ {0} /\ C \in Nat \ {0} /\ W \in Nat /\ Total \in Nat /\ n \in Nat /\ n \in Int
      /\ 0 \in Chunk /\ C - 1 \in Chunk
  BY Basics
<1>1. /\ s \in Rank /\ After(d, s) = r /\ Place(d, s) \in 0 .. P - 1 /\ Place(d, r) \in 0 .. P - 1
      /\ Place(d, r) = IF Place(d, s) = P - 1 THEN 0 ELSE Place(d, s) + 1
  <2>1. s \in Rank /\ After(d, s) = r
    BY Ring
  <2>. QED BY <2>1, Ring
<1>. HIDE DEF s
<1>2. PICK q \in Int, c \in Chunk, j \in 0 .. P - 1 : Parts(n, q, c, j)
  BY <1>0, HasParts
<1>3. ForwardChunk(n) = c /\ c \in 0 .. C - 1 /\ c * P \in Nat /\ q \in Nat
  BY <1>0, <1>2, Places, PartsNat DEF Parts, Chunk
<1>4. CASE Place(d, r) # 0
  <2>1. /\ Place(d, s) # P - 1 /\ Gives(d, s, n) /\ Place(d, s) = Place(d, r) - 1
        /\ Givings(d, s, n) = Takings(d, r, n)
    BY <1>0, <1>1, <1>4 DEF Gives, Givings, Takings
  <2>2. Yields(d, s, n) = Taken(d, r, n)
    <3>1. ForwardChunk(n) * P + Place(d, s) = ForwardChunk(n) * P + Place(d, r) - 1
      BY <1>0, <1>1, <1>3, <2>1
    <3>. QED BY <3>1 DEF Yields, Taken
  <2>. QED BY <1>3, <1>4, <2>1, <2>2 DEF Makes, s
<1>5. CASE Place(d, r) = 0
  <2>1. c > 0 /\ Place(d, s) = P - 1
    BY <1>0, <1>1, <1>3, <1>5 DEF Takes
  <2>2. Parts(n - P, q, c - 1, j) /\ c - 1 \in Chunk /\ n - P \in Int
    BY <1>0, <1>2, <1>3, <2>1, PartsBefore DEF Chunk
  <2>3. n - P \in 0 .. Total - 1
    <3>1. n - P = q * W + ((c - 1) * P + j) /\ q * W \in Nat /\ (c - 1) * P \in Nat
      BY <1>0, <1>3, <2>2, Places DEF Parts
    <3>. QED BY <1>0, <3>1
  <2>4. ForwardChunk(n - P) = c - 1 /\ Gives(d, s, n - P)
    BY <1>0, <1>3, <2>2 DEF Parts, Gives
  <2>5. Microbatch(n - P) = Microbatch(n)
    BY <1>0, <1>2, <2>2, MicrobatchIs
  <2>6. Givings(d, s, n - P) = Takings(d, r, n)
    <3>1. Count(n, 0) = q * P + P
      BY <1>0, <1>2, <1>3, <2>1, CountIs
    <3>2. Count(n - P, C - 1) = q * P + 0
      BY <1>0, <1>3, <2>1, <2>2, CountIs
    <3>3. q * P \in Int
      BY <1>0
    <3>. QED BY <1>0, <1>5, <2>1, <3>1, <3>2, <3>3 DEF Takings, Givings
  <2>7. Yields(d, s, n - P) = Taken(d, r, n)
    <3>1. (c - 1) * P = c * P - P
      BY <1>0, <1>3
    <3>2. (c - 1) * P + Place(d, s) = c * P + Place(d, r) - 1
      BY <1>0, <1>3, <1>5, <2>1, <3>1
    <3>. QED BY <1>3, <2>4, <2>5, <3>2 DEF Yields, Taken
  <2>. QED BY <1>3, <1>5, <2>3, <2>4, <2>5, <2>6, <2>7 DEF Makes, s
<1>. QED BY <1>4, <1>5

(* What an iteration takes is what the rank before it sends for it.              *)
LEMMA Matching ==
  ASSUME Configuration, NEW d \in Pass, NEW r \in Rank, NEW n \in 0 .. Total - 1, Takes(d, r, n)
  PROVE  Item(d, After(Other(d), r), Takings(d, r, n) + 1) = Taken(d, r, n)
<1>. DEFINE s == After(Other(d), r)
<1>1. s \in Rank
  BY Ring
<1>2. PICK i \in 0 .. Total - 1 : Makes(d, s, i, r, n)
  BY Source
<1>. HIDE DEF s
<1>. QED BY <1>1, <1>2, ItemIs DEF Makes, s

(* The chunk of the next iteration, from that of the one P before it.            *)
LEMMA ChunkBefore ==
  ASSUME Configuration, NEW n \in Int
  PROVE  ForwardChunk(n - P) = IF ForwardChunk(n) = 0 THEN C - 1 ELSE ForwardChunk(n) - 1
<1>1. PICK q \in Int, c \in Chunk, j \in 0 .. P - 1 : Parts(n, q, c, j)
  BY HasParts
<1>2. c \in 0 .. C - 1
  BY DEF Chunk
<1>. QED BY <1>1, <1>2, PartsBefore DEF Parts

(* An iteration and the one of the same microbatch on the chunk opposite to its   *)
(* are at most C - 1 chunks apart.                                                *)
LEMMA Ahead ==
  ASSUME Configuration, NEW n \in 0 .. Total - 1, NEW m \in Nat,
         n + (C - 1) * P < m \/ m = Total
  PROVE  /\ Microbatch(n) < Count(m, BackwardChunk(n))
         /\ Iteration(BackwardChunk(n), Microbatch(n)) \in 0 .. m - 1
<1>0. /\ P \in Nat \ {0} /\ C \in Nat \ {0} /\ W \in Nat /\ Total \in Nat /\ M \in Nat /\ n \in Nat /\ n \in Int
  BY Basics
<1>. DEFINE e == BackwardChunk(n)
            i == Iteration(e, Microbatch(n))
<1>1. e \in Chunk /\ Microbatch(n) \in 0 .. M - 1
  BY <1>0, ForwardChunkIs, CountBounds
<1>2. i \in 0 .. Total - 1 /\ ForwardChunk(i) = e /\ Microbatch(i) = Microbatch(n)
  BY <1>1, IterationIs
<1>. HIDE DEF i
<1>3. i < m
  <2>1. CASE m = Total
    BY <1>0, <1>2, <2>1
  <2>2. CASE n + (C - 1) * P < m
    <3>1. PICK q \in Int, c \in Chunk, j \in 0 .. P - 1 : Parts(n, q, c, j)
      BY <1>0, HasParts
    <3>2. PICK p \in Int, f \in Chunk, h \in 0 .. P - 1 : Parts(i, p, f, h)
      BY <1>2, HasParts
    <3>3. /\ f = e /\ c = ForwardChunk(n) /\ c \in 0 .. C - 1
          /\ n = q * W + (c * P + j) /\ i = p * W + (f * P + h)
      <4>1. f = e /\ c = ForwardChunk(n)
        BY <1>2, <3>1, <3>2 DEF Parts
      <4>2. n = q * W + (c * P + j) /\ i = p * W + (f * P + h)
        BY <3>1, <3>2 DEF Parts
      <4>. QED BY <4>1, <4>2 DEF Chunk
    <3>9. Microbatch(n) = q * P + j /\ Microbatch(i) = p * P + h
      <4>1. Microbatch(n) = q * P + j
        BY <1>0, <3>1, MicrobatchIs
      <4>2. i \in Int
        BY <1>2
      <4>3. Microbatch(i) = p * P + h
        BY <4>2, <3>2, MicrobatchIs
      <4>. QED BY <4>1, <4>3
    <3>4. q = p /\ j = h
      <4>1. (q * P + j) \div P = q /\ (q * P + j) % P = j
        BY <1>0, DivisionUnique
      <4>2. (p * P + h) \div P = p /\ (p * P + h) % P = h
        BY <1>0, DivisionUnique
      <4>. QED BY <1>2, <3>9, <4>1, <4>2
    <3>5. f = C - 1 - c
      BY <1>0, <3>3 DEF BackwardChunk
    <3>6. f * P = (C - 1) * P - c * P /\ c * P \in Nat /\ (C - 1) * P \in Nat /\ q * W \in Int
      BY <1>0, <3>3, <3>5
    <3>7. i = q * W + (f * P + h)
      BY <3>3, <3>4
    <3>8. i - n = (C - 1) * P - c * P - c * P
      <4>. DEFINE x == q * W
                  y == c * P
                  z == f * P
      <4>1. /\ x \in Int /\ y \in Int /\ (C - 1) * P \in Int /\ z = (C - 1) * P - y
            /\ n = x + (y + j) /\ i = x + (z + j) /\ j \in Int
        <5>1. n = x + (y + j)
          BY <3>3
        <5>2. i = x + (z + j)
          BY <3>4, <3>7
        <5>3. x \in Int /\ y \in Int /\ (C - 1) * P \in Int /\ z = (C - 1) * P - y
          BY <3>6
        <5>. QED BY <5>1, <5>2, <5>3
      <4>. HIDE DEF x, y, z
      <4>2. i - n = (C - 1) * P - y - y
        BY <4>1
      <4>. QED BY <4>2 DEF y
    <3>. QED BY <1>0, <1>2, <2>2, <3>6, <3>8
  <2>. QED BY <2>1, <2>2
<1>4. Microbatch(n) < Count(m, e)
  <2>1. /\ i \in Nat /\ i + 1 \in Nat /\ i + 1 <= m
        /\ Count(i, e) \in Nat /\ Count(m, e) \in Nat /\ Count(i, e) = Microbatch(n)
    BY <1>0, <1>1, <1>2, <1>3, CountStep DEF Microbatch
  <2>2. Count(i + 1, e) = Count(i, e) + 1
    BY <1>1, <1>2, <2>1, CountStep
  <2>3. Count(i + 1, e) <= Count(m, e)
    BY <1>1, <2>1, CountMonotonic
  <2>. QED BY <2>1, <2>2, <2>3
<1>. QED BY <1>0, <1>2, <1>3, <1>4 DEF i

(* How many iterations a rank runs before its first backward pass.               *)
LEMMA Warmups ==
  ASSUME Configuration, NEW r \in Rank
  PROVE  /\ NumWarmup(r) \in 0 .. Total /\ NumRemaining(r) = Total - NumWarmup(r)
         /\ ForwardOnly \/ AllWarmup => NumWarmup(r) = Total
         /\ ~ForwardOnly /\ ~AllWarmup =>
              /\ NumWarmup(r) < Total /\ (C - 1) * P <= NumWarmup(r)
              /\ NumWarmup(r) = 0 => LastRank(r) /\ C = 1
<1>0. /\ P \in Nat \ {0} /\ C \in Nat \ {0} /\ W \in Nat \ {0} /\ W = C * P /\ Total \in Nat \ {0}
      /\ r \in 0 .. P - 1
  BY Basics DEF W, Rank
<1>. DEFINE y == (C - 1) * P
            n == (P - r - 1) * 2 + y
<1>1. y \in Nat /\ y = W - P
  BY <1>0
<1>2. NumWarmup(r) = IF ForwardOnly \/ M = P \/ n > Total THEN Total ELSE n
  BY DEF NumWarmup
<1>3. n \in Nat /\ y <= n /\ n < 2 * W
  <2>1. P <= W
    BY <1>0, <1>1
  <2>. HIDE DEF y
  <2>. QED BY <1>0, <1>1, <2>1
<1>4. NumWarmup(r) \in 0 .. Total
  <2>. HIDE DEF n
  <2>. QED BY <1>0, <1>2, <1>3
<1>5. ASSUME M # P PROVE n < Total
  <2>1. M = (M \div P) * P /\ Total = (M \div P) * W /\ M \div P \in Nat \ {0}
    BY Sizes
  <2>. DEFINE a == M \div P
  <2>2. a # 1
    BY <1>0, <1>5, <2>1
  <2>3. 2 * W <= a * W
    <3>1. 2 \in Int /\ a \in Int /\ 2 <= a /\ W \in Nat
      BY <1>0, <2>1, <2>2
    <3>. HIDE DEF a
    <3>. QED BY <3>1, TimesMonotonic
  <2>. HIDE DEF n, y
  <2>. QED BY <1>0, <1>3, <2>1, <2>3
<1>6. ASSUME n = 0 PROVE LastRank(r) /\ C = 1
  <2>1. r = P - 1 /\ y = 0
    <3>. HIDE DEF y
    <3>. QED BY <1>0, <1>1, <1>6
  <2>2. C - 1 = 0
    <3>1. ASSUME C - 1 \in Nat \ {0} PROVE FALSE
      <4>1. y \in Nat \ {0}
        BY <1>0, <3>1, TimesPositive
      <4>. QED BY <2>1, <4>1
    <3>. QED BY <1>0, <3>1
  <2>. QED BY <1>0, <2>1, <2>2 DEF LastRank
<1>7. ASSUME ~ForwardOnly, ~AllWarmup
      PROVE  NumWarmup(r) = n /\ n < Total
  <2>1. n < Total
    BY <1>5, <1>7 DEF AllWarmup
  <2>. HIDE DEF n
  <2>. QED BY <1>0, <1>2, <1>3, <1>7, <2>1 DEF AllWarmup
<1>8. ASSUME ForwardOnly \/ AllWarmup PROVE NumWarmup(r) = Total
  BY <1>2, <1>8 DEF AllWarmup
<1>. HIDE DEF n, y
<1>. QED BY <1>3, <1>4, <1>6, <1>7, <1>8 DEF NumRemaining, y

(* The stages of the two ends, by the iterations.                                *)
LEMMA Ends ==
  ASSUME Configuration, NEW r \in Rank, NEW n \in Int
  PROVE  /\ FirstStage(r, ForwardChunk(n)) <=> ~Takes("F", r, n)
         /\ LastStage(r, ForwardChunk(n)) <=> ~Gives("F", r, n)
         /\ LastStage(r, BackwardChunk(n)) <=> ~Takes("B", r, n)
         /\ FirstStage(r, BackwardChunk(n)) <=> ~Gives("B", r, n)
<1>1. ForwardChunk(n) \in 0 .. C - 1 /\ C \in Nat
  BY Basics, ForwardChunkIs DEF Chunk
<1>. QED BY <1>1, PlaceIs DEF FirstStage, LastStage, Takes, Gives, BackwardChunk

(* The tensors of an iteration, as the steps name them.                          *)
LEMMA Tensors ==
  ASSUME Configuration, NEW r \in Rank, NEW n \in Int
  PROVE  /\ Taken("F", r, n) = Act(VStage(r, ForwardChunk(n)) - 1, Microbatch(n))
         /\ Yields("F", r, n) = Act(VStage(r, ForwardChunk(n)), Microbatch(n))
         /\ Taken("B", r, n) = Grad(VStage(r, BackwardChunk(n)) + 1, Microbatch(n))
         /\ Yields("B", r, n) = Grad(VStage(r, BackwardChunk(n)), Microbatch(n))
<1>0. ForwardChunk(n) \in Int /\ P \in Nat /\ C \in Nat /\ r \in 0 .. P - 1 /\ W = C * P
  BY Basics, ForwardChunkIs DEF Chunk, Rank, W
<1>1. /\ Taken("F", r, n) = Act(ForwardChunk(n) * P + r - 1, Microbatch(n))
      /\ Yields("F", r, n) = Act(ForwardChunk(n) * P + r, Microbatch(n))
  BY DEF Taken, Yields, Made, Place
<1>2. /\ Taken("B", r, n) = Grad(W - 1 - (ForwardChunk(n) * P + (P - 1 - r) - 1), Microbatch(n))
      /\ Yields("B", r, n) = Grad(W - 1 - (ForwardChunk(n) * P + (P - 1 - r)), Microbatch(n))
  BY DEF Taken, Yields, Made, Place
<1>3. (C - ForwardChunk(n) - 1) * P = W - ForwardChunk(n) * P - P /\ ForwardChunk(n) * P \in Int /\ W \in Int
  BY <1>0
<1>4. VStage(r, BackwardChunk(n)) = W - ForwardChunk(n) * P - P + r
  BY <1>0, <1>3 DEF VStage, BackwardChunk
<1>5. /\ W - 1 - (ForwardChunk(n) * P + (P - 1 - r) - 1) = VStage(r, BackwardChunk(n)) + 1
      /\ W - 1 - (ForwardChunk(n) * P + (P - 1 - r)) = VStage(r, BackwardChunk(n))
  BY <1>0, <1>3, <1>4
<1>6. /\ VStage(r, ForwardChunk(n)) = ForwardChunk(n) * P + r
      /\ ForwardChunk(n) * P + r - 1 = VStage(r, ForwardChunk(n)) - 1
  <2>. DEFINE x == ForwardChunk(n) * P
  <2>1. VStage(r, ForwardChunk(n)) = x + r /\ x \in Int /\ r \in Int
    BY <1>0, <1>3 DEF VStage
  <2>. HIDE DEF x
  <2>2. x + r - 1 = VStage(r, ForwardChunk(n)) - 1
    BY <2>1
  <2>. QED BY <2>1, <2>2 DEF x
<1>7. /\ Taken("F", r, n) = Act(VStage(r, ForwardChunk(n)) - 1, Microbatch(n))
      /\ Yields("F", r, n) = Act(VStage(r, ForwardChunk(n)), Microbatch(n))
  BY <1>1, <1>6
<1>8. /\ Taken("B", r, n) = Grad(VStage(r, BackwardChunk(n)) + 1, Microbatch(n))
      /\ Yields("B", r, n) = Grad(VStage(r, BackwardChunk(n)), Microbatch(n))
  BY <1>2, <1>5
<1>. QED BY <1>7, <1>8

LEMMA Stages ==
  ASSUME Configuration, NEW r \in Rank, NEW c \in Chunk
  PROVE  VStage(r, c) \in 0 .. W - 1
BY Places DEF VStage, Rank

LEMMA YieldsComputed ==
  ASSUME Configuration, NEW d \in Pass, NEW r \in Rank, NEW n \in 0 .. Total - 1
  PROVE  /\ Yields(d, r, n) \in Computed /\ Yields(d, r, n) \in Tensor
         /\ Yields(d, r, n) # None /\ Yields(d, r, n) # Mixed
<1>0. n \in Int /\ n \in 0 .. Total /\ n < Total
  BY Basics
<1>1. Microbatch(n) \in 0 .. M - 1
  BY <1>0, CountBounds, Basics
<1>2. /\ VStage(r, ForwardChunk(n)) \in 0 .. P * C - 1
      /\ VStage(r, BackwardChunk(n)) \in 0 .. P * C - 1
  BY <1>0, ForwardChunkIs, Stages DEF W
<1>3. Yields(d, r, n) \in Computed
  BY <1>0, <1>1, <1>2, Tensors DEF Pass, Computed, Act, Grad
<1>. QED BY <1>3 DEF Tensor, Configuration

-------------------------------------------------------------------------------
(* The lists of the schedule                                                     *)

LEMMA StretchIs ==
  ASSUME NEW f, NEW lo \in Nat, NEW hi \in Nat, lo <= hi
  PROVE  /\ Len(Stretch(f, lo, hi)) = hi - lo
         /\ \A i \in 1 .. hi - lo : Stretch(f, lo, hi)[i] = f[lo + i - 1]
<1>1. hi - lo \in Nat
  OBVIOUS
<1>. QED BY <1>1 DEF Stretch

LEMMA StretchTyped ==
  ASSUME NEW S, NEW n \in Nat, NEW f \in [0 .. n -> S],
         NEW lo \in Nat, NEW hi \in 0 .. n + 1, lo <= hi
  PROVE  Stretch(f, lo, hi) \in Seq(S)
<1>1. hi - lo \in Nat
  OBVIOUS
<1>2. \A i \in 1 .. hi - lo : lo + i - 1 \in 0 .. n /\ f[lo + i - 1] \in S
  OBVIOUS
<1>. QED BY <1>1, <1>2 DEF Stretch

(* Appending the next element, and taking the first.                             *)
LEMMA StretchMore ==
  ASSUME NEW S, NEW n \in Nat, NEW f \in [0 .. n -> S],
         NEW lo \in 0 .. n, NEW hi \in 0 .. n, lo <= hi
  PROVE  Append(Stretch(f, lo, hi), f[hi]) = Stretch(f, lo, hi + 1)
<1>. DEFINE s == Stretch(f, lo, hi)
            t == Stretch(f, lo, hi + 1)
            u == Append(s, f[hi])
<1>1. /\ s \in Seq(S) /\ Len(s) = hi - lo /\ \A i \in 1 .. hi - lo : s[i] = f[lo + i - 1]
  <2>1. lo \in 0 .. n + 1 /\ hi \in 0 .. n + 1
    OBVIOUS
  <2>2. lo \in Nat /\ hi \in Nat /\ lo <= hi
    OBVIOUS
  <2>3. Len(s) = hi - lo /\ \A i \in 1 .. hi - lo : s[i] = f[lo + i - 1]
    BY <2>2, StretchIs
  <2>4. s \in Seq(S)
    BY <2>1, <2>2, StretchTyped
  <2>. QED BY <2>3, <2>4
<1>2. /\ t \in Seq(S) /\ Len(t) = hi + 1 - lo /\ \A i \in 1 .. hi + 1 - lo : t[i] = f[lo + i - 1]
  <2>1. lo \in 0 .. n + 1 /\ hi + 1 \in 0 .. n + 1 /\ lo <= hi + 1
    OBVIOUS
  <2>2. lo \in Nat /\ hi + 1 \in Nat /\ lo <= hi + 1
    OBVIOUS
  <2>3. Len(t) = hi + 1 - lo /\ \A i \in 1 .. hi + 1 - lo : t[i] = f[lo + i - 1]
    <3>1. PICK h \in Nat : h = hi + 1
      OBVIOUS
    <3>3. lo \in Nat /\ lo <= h
      BY <3>1
    <3>2. Len(Stretch(f, lo, h)) = h - lo /\ \A i \in 1 .. h - lo : Stretch(f, lo, h)[i] = f[lo + i - 1]
      BY <3>3, StretchIs
    <3>. QED BY <3>1, <3>2
  <2>4. t \in Seq(S)
    BY <2>1, <2>2, StretchTyped
  <2>. QED BY <2>3, <2>4
<1>. HIDE DEF s, t
<1>3. f[hi] \in S
  OBVIOUS
<1>4. u \in Seq(S) /\ Len(u) = hi + 1 - lo
  BY <1>1, <1>3
<1>5. ASSUME NEW i \in 1 .. hi + 1 - lo PROVE u[i] = t[i]
  <2>1. CASE i = hi + 1 - lo
    <3>1. u[Len(s) + 1] = f[hi]
      BY <1>1, <1>3, AppendProperties
    <3>2. Len(s) + 1 = i /\ lo + i - 1 = hi
      BY <1>1, <2>1
    <3>. QED BY <1>2, <3>1, <3>2
  <2>2. CASE i # hi + 1 - lo
    <3>1. i \in 1 .. hi - lo
      BY <2>2
    <3>. QED BY <1>1, <1>2, <1>3, <3>1
  <2>. QED BY <2>1, <2>2
<1>6. u = t
  <2>. HIDE DEF u
  <2>. QED BY <1>2, <1>4, <1>5
<1>. QED BY <1>6 DEF s, t

LEMMA StretchEmpty ==
  ASSUME NEW f, NEW lo \in Nat
  PROVE  Stretch(f, lo, lo) = <<>>
BY DEF Stretch

LEMMA StretchFirst ==
  ASSUME NEW S, NEW n \in Nat, NEW f \in [0 .. n -> S],
         NEW lo \in 0 .. n + 1, NEW hi \in 0 .. n + 1, lo < hi
  PROVE  /\ Head(Stretch(f, lo, hi)) = f[lo]
         /\ Tail(Stretch(f, lo, hi)) = Stretch(f, lo + 1, hi)
         /\ Last(Stretch(f, lo, hi)) = f[hi - 1]
<1>. DEFINE s == Stretch(f, lo, hi)
            t == Stretch(f, lo + 1, hi)
<1>1. /\ s \in Seq(S) /\ Len(s) = hi - lo /\ \A i \in 1 .. hi - lo : s[i] = f[lo + i - 1]
  <2>1. lo <= hi
    OBVIOUS
  <2>2. lo \in Nat /\ hi \in Nat /\ lo <= hi
    OBVIOUS
  <2>3. Len(s) = hi - lo /\ \A i \in 1 .. hi - lo : s[i] = f[lo + i - 1]
    BY <2>2, StretchIs
  <2>4. s \in Seq(S)
    BY <2>1, <2>2, StretchTyped
  <2>. QED BY <2>3, <2>4
<1>2. /\ t \in Seq(S) /\ Len(t) = hi - (lo + 1) /\ \A i \in 1 .. hi - (lo + 1) : t[i] = f[(lo + 1) + i - 1]
  <2>1. lo + 1 \in 0 .. n + 1 /\ lo + 1 <= hi
    OBVIOUS
  <2>2. lo + 1 \in Nat /\ hi \in Nat /\ lo + 1 <= hi
    OBVIOUS
  <2>3. Len(t) = hi - (lo + 1) /\ \A i \in 1 .. hi - (lo + 1) : t[i] = f[(lo + 1) + i - 1]
    BY <2>2, StretchIs
  <2>4. t \in Seq(S)
    BY <2>1, <2>2, StretchTyped
  <2>. QED BY <2>3, <2>4
<1>. HIDE DEF s, t
<1>3. hi - lo \in Nat \ {0} /\ s # <<>> /\ 1 \in 1 .. hi - lo /\ hi - lo \in 1 .. hi - lo
  BY <1>1
<1>4. Head(s) = f[lo] /\ Last(s) = f[hi - 1]
  <2>1. s[1] = f[lo] /\ s[hi - lo] = f[hi - 1]
    <3>1. lo + 1 - 1 = lo /\ lo + (hi - lo) - 1 = hi - 1
      OBVIOUS
    <3>. QED BY <1>1, <1>3, <3>1
  <2>. QED BY <1>1, <1>3, <2>1 DEF Last
<1>5. Tail(s) = t
  <2>1. Tail(s) \in Seq(S) /\ Len(Tail(s)) = hi - (lo + 1)
    BY <1>1, <1>3
  <2>2. ASSUME NEW i \in 1 .. hi - (lo + 1) PROVE Tail(s)[i] = t[i]
    <3>1. i + 1 \in 1 .. hi - lo /\ lo + (i + 1) - 1 = (lo + 1) + i - 1
      OBVIOUS
    <3>2. Tail(s)[i] = s[i + 1]
      BY <1>1, <1>3, <2>1
    <3>. QED BY <1>1, <1>2, <3>1, <3>2
  <2>. QED BY <1>2, <2>1, <2>2
<1>. QED BY <1>4, <1>5 DEF s, t

(* What the lists hold.                                                          *)
LEMMA BuffersTyped ==
  ASSUME Configuration, NEW d \in Pass, NEW r \in Rank, NEW c \in Chunk
  PROVE  /\ Buffers(d, r, c) \in [0 .. M -> Buffer]
         /\ Outputs(r, c) \in [0 .. M -> {Act(VStage(r, c), m) : m \in 0 .. M}]
<1>0. M \in Nat /\ P \in Nat /\ c \in Chunk
  BY Basics
<1>1. ASSUME NEW m \in 0 .. M, m # M PROVE Takings(d, r, Iteration(c, m)) + 1 \in Nat
  <2>1. m \in 0 .. M - 1
    BY <1>0, <1>1
  <2>2. Iteration(c, m) \in Nat
    BY <2>1, IterationIs
  <2>. QED BY <2>2, TakingsNat
<1>2. Buffers(d, r, c) \in [0 .. M -> Buffer]
  BY <1>1 DEF Buffers, Buffer
<1>. QED BY <1>2 DEF Outputs

(* The buffer of iteration n.                                                    *)
LEMMA BufferOf ==
  ASSUME Configuration, NEW d \in Pass, NEW r \in Rank, NEW n \in 0 .. Total
  PROVE  Buffers(d, r, ForwardChunk(n))[Count(n, ForwardChunk(n))]
           = IF n = Total \/ ~Takes(d, r, n) THEN None ELSE Takings(d, r, n) + 1
<1>. DEFINE c == ForwardChunk(n)
            m == Count(n, c)
<1>0. Total \in Nat /\ M \in Nat
  BY Basics
<1>1. c \in Chunk
  BY <1>0, ForwardChunkIs
<1>2. m \in 0 .. M
  BY <1>1, CountBounds
<1>3. CASE n = Total
  <2>1. m = M
    BY <1>1, <1>3, CountEnds
  <2>. QED BY <1>2, <1>3, <2>1 DEF Buffers
<1>4. CASE n # Total
  <2>1. n \in 0 .. Total - 1 /\ n < Total
    BY <1>0, <1>4
  <2>2. m \in 0 .. M - 1 /\ Iteration(c, m) = n
    BY <1>1, <2>1, CountBounds, IterationOf DEF Microbatch
  <2>3. m # M
    BY <1>0, <2>2
  <2>4. ~Takes(d, r, n) <=> Place(d, r) = 0 /\ c = 0
    BY DEF Takes
  <2>. HIDE DEF m, c
  <2>5. Buffers(d, r, c)[m] = IF Place(d, r) = 0 /\ c = 0 THEN None ELSE Takings(d, r, n) + 1
    BY <1>2, <2>2, <2>3 DEF Buffers
  <2>6. Buffers(d, r, c)[m] = IF n = Total \/ ~Takes(d, r, n) THEN None ELSE Takings(d, r, n) + 1
    BY <1>4, <2>4, <2>5
  <2>. QED BY <2>6 DEF m, c
<1>. QED BY <1>3, <1>4

LEMMA NoElements == ASSUME NEW S, NEW q \in Seq(S), Len(q) = 0 PROVE q = <<>>
OBVIOUS

LEMMA Singleton ==
  ASSUME NEW x
  PROVE  Head(<<x>>) = x /\ Tail(<<x>>) = <<>> /\ Len(<<x>>) = 1 /\ <<x>> # <<>>
<1>. DEFINE S == {x}
            q == <<x>>
<1>1. q \in Seq(S) /\ Len(q) = 1 /\ q[1] = x
  OBVIOUS
<1>. HIDE DEF q
<1>2. Head(q) = x /\ q # <<>>
  BY <1>1
<1>3. Tail(q) \in Seq(S) /\ Len(Tail(q)) = 0
  BY <1>1, <1>2
<1>. HIDE DEF S
<1>4. Tail(q) = <<>>
  BY <1>3, NoElements
<1>. QED BY <1>1, <1>2, <1>4 DEF q

-------------------------------------------------------------------------------
(* A forward and a backward step                                                 *)

LEMMA RanIs ==
  ASSUME Configuration, NEW r \in Rank, Position(r), NEW d \in Pass
  PROVE  /\ Ran(d, r) \in 0 .. Total /\ Wanted(d, r) \in 0 .. Total /\ Sent(d, r) \in 0 .. Total
         /\ Ran(d, r) <= Wanted(d, r) /\ Wanted(d, r) <= Ran(d, r) + 1
         /\ Sent(d, r) <= Ran(d, r)
<1>1. /\ Total \in Nat \ {0} /\ NumWarmup(r) \in 0 .. Total /\ NumRemaining(r) = Total - NumWarmup(r)
      /\ ForwardOnly \/ AllWarmup => NumWarmup(r) = Total
  BY Basics, Warmups
<1>. HIDE DEF Total
<1>2. Ran(d, r) \in 0 .. Total
  BY <1>1 DEF Ran, Position
<1>3. Sent(d, r) \in 0 .. Total /\ Sent(d, r) <= Ran(d, r)
  BY <1>1, <1>2 DEF Ran, Sent, Position, Halfway
<1>4. Wanted(d, r) \in 0 .. Total /\ Ran(d, r) <= Wanted(d, r) /\ Wanted(d, r) <= Ran(d, r) + 1
  <2>1. /\ phase[r] = "init" => Ran(d, r) = 0
        /\ d = "B" /\ NoGradYet(r) => Ran("B", r) = 0
    BY <1>1 DEF Ran, Position, NoGradYet
  <2>2. NextOf(Ran(d, r)) \in 0 .. Total /\ Ran(d, r) <= NextOf(Ran(d, r)) /\ NextOf(Ran(d, r)) <= Ran(d, r) + 1
    BY <1>1, <1>2 DEF NextOf
  <2>. QED BY <1>1, <1>2, <2>1, <2>2 DEF Wanted, Pass
<1>. QED BY <1>2, <1>3, <1>4

LEMMA CountsAre ==
  ASSUME Configuration, NEW r \in Rank, Position(r), Counted(r), NEW c \in Chunk
  PROVE  /\ C - 1 - c \in Chunk
         /\ fwd[r][c] \in 0 .. M /\ bwd[r][c] \in 0 .. M /\ bwd[r][c] <= fwd[r][c]
         /\ fwd[r][c] = Count(Ran("F", r), c) /\ bwd[r][c] = Count(Ran("B", r), C - 1 - c)
<1>1. C - 1 - c \in Chunk
  BY Basics DEF Chunk
<1>2. Ran("F", r) \in 0 .. Total /\ Ran("B", r) \in 0 .. Total
  BY RanIs DEF Pass
<1>3. fwd[r][c] = Count(Ran("F", r), c) /\ bwd[r][c] = Count(Ran("B", r), C - 1 - c)
  BY DEF Counted
<1>. QED BY <1>1, <1>2, <1>3, CountBounds DEF Counted

(* What the lists come to: one entry more in a forward step.                     *)
Before(r, c) == IF ForwardOnly THEN fwd[r][c] + 1 ELSE bwd[r][c]

LEMMA ForwardRuns ==
  ASSUME Configuration, NEW r \in Rank, Local(r), Received("F", r), ~half[r],
         NEW n, n = Ran("F", r), n < Total, NEW c, c = ForwardChunk(n),
         Filed(r, c) \/ FirstStage(r, c), Len(gotF[r]) = Takings("F", r, n + 1)
  PROVE  /\ c \in Chunk /\ fwd[r][c] = Microbatch(n) /\ fwd[r][c] \in 0 .. M - 1
         /\ ForwardOutput(r, c) = Yields("F", r, n)
         /\ ForwardInputs(r, c) = Stretch(Buffers("F", r, c), Before(r, c), fwd[r][c] + 1)
         /\ ForwardOutputs(r, c) = Stretch(Outputs(r, c), Before(r, c), fwd[r][c] + 1)
<1>. DEFINE m == fwd[r][c]
            lo == Oldest(r, c)
            buf == Buffers("F", r, c)
            x == IF Filed(r, c) THEN 1 ELSE 0
            outs == {Act(VStage(r, c), i) : i \in 0 .. M}
<1>0. /\ n \in 0 .. Total - 1 /\ n \in 0 .. Total /\ n \in Int /\ n \in Nat /\ "F" \in Pass /\ M \in Nat
      /\ ForwardOnly \in BOOLEAN
  BY Basics, RanIs DEF Local, Pass, Configuration
<1>1. c \in Chunk /\ fwd[r][c] = Microbatch(n) /\ m \in 0 .. M - 1
  <2>1. c \in Chunk
    BY <1>0, ForwardChunkIs
  <2>. QED BY <1>0, <2>1, CountsAre, CountBounds DEF Local, Microbatch
<1>2. lo \in 0 .. M /\ lo <= m /\ m \in 0 .. M
  BY <1>0, <1>1, CountsAre DEF Local, Oldest
<1>3. /\ buf \in [0 .. M -> Buffer] /\ Outputs(r, c) \in [0 .. M -> outs]
      /\ buf[m] = IF ~Takes("F", r, n) THEN None ELSE Takings("F", r, n) + 1
  <2>1. Buffers("F", r, c)[Count(n, c)] = IF n = Total \/ ~Takes("F", r, n) THEN None ELSE Takings("F", r, n) + 1
    BY <1>0, BufferOf
  <2>2. n # Total /\ m = Count(n, c)
    BY <1>0, <1>1 DEF Microbatch
  <2>3. buf[m] = IF ~Takes("F", r, n) THEN None ELSE Takings("F", r, n) + 1
    BY <2>1, <2>2
  <2>. QED BY <1>0, <1>1, <2>3, BuffersTyped
<1>4. input_tensors[r][c] = Stretch(buf, lo, m + x) /\ output_tensors[r][c] = Stretch(Outputs(r, c), lo, m)
  BY <1>1 DEF Local, Lists, InputLists, OutputLists, GradLists
<1>5. FirstStage(r, c) <=> ~Takes("F", r, n)
  BY <1>0, Ends
<1>. HIDE DEF m, lo, buf
<1>6. Len(input_tensors[r][c]) = m + x - lo /\ Len(output_tensors[r][c]) = m - lo
  <2>1. PICK h \in Nat : h = m + x
    BY <1>2
  <2>2. m \in Nat /\ lo \in Nat /\ lo <= h /\ lo <= m
    BY <1>2, <2>1
  <2>5. x \in {0, 1}
    OBVIOUS
  <2>. HIDE DEF x
  <2>4. input_tensors[r][c] = Stretch(buf, lo, h) /\ h - lo = m + x - lo
    <3>1. input_tensors[r][c] = Stretch(buf, lo, h)
      BY <1>4, <2>1, <2>5, <1>2
    <3>2. h - lo = m + x - lo
      BY <1>2, <2>1, <2>5
    <3>. QED BY <3>1, <3>2
  <2>3. Len(Stretch(buf, lo, h)) = h - lo /\ Len(Stretch(Outputs(r, c), lo, m)) = m - lo
    BY <2>2, StretchIs
  <2>. QED BY <1>4, <2>3, <2>4
<1>7. Inputs(r, c) = Stretch(buf, lo, m + 1)
  <2>1. CASE Filed(r, c)
    <3>1. Len(input_tensors[r][c]) # Len(output_tensors[r][c])
      BY <1>2, <1>6, <2>1
    <3>. QED BY <1>4, <2>1, <3>1 DEF Inputs
  <2>2. CASE ~Filed(r, c)
    <3>1. FirstStage(r, c) /\ buf[m] = None
      BY <1>3, <1>5, <2>2
    <3>2. Len(input_tensors[r][c]) = Len(output_tensors[r][c]) /\ input_tensors[r][c] = Stretch(buf, lo, m)
      BY <1>2, <1>4, <1>6, <2>2
    <3>3. M \in Nat /\ buf \in [0 .. M -> Buffer] /\ lo \in 0 .. M /\ m \in 0 .. M /\ lo <= m
      BY <1>0, <1>2, <1>3
    <3>4. Append(Stretch(buf, lo, m), buf[m]) = Stretch(buf, lo, m + 1)
      BY ONLY <3>3, StretchMore
    <3>. QED BY <3>1, <3>2, <3>4 DEF Inputs
  <2>. QED BY <2>1, <2>2
<1>8. Last(Inputs(r, c)) = buf[m]
  <2>1. PICK h \in 0 .. M + 1 : h = m + 1
    BY <1>0, <1>2
  <2>2. lo \in 0 .. M + 1 /\ lo < h /\ h \in 0 .. M + 1 /\ M \in Nat /\ buf \in [0 .. M -> Buffer]
    BY <1>0, <1>2, <1>3, <2>1
  <2>3. Last(Stretch(buf, lo, h)) = buf[h - 1] /\ h - 1 = m
    <3>1. Last(Stretch(buf, lo, h)) = buf[h - 1]
      BY ONLY <2>2, StretchFirst
    <3>. QED BY <1>0, <1>2, <2>1, <3>1
  <2>. QED BY <1>7, <2>1, <2>2, <2>3
<1>9. Content(gotF[r], buf[m]) = IF FirstStage(r, c) THEN None ELSE Act(VStage(r, c) - 1, m)
  <2>1. CASE ~Takes("F", r, n)
    BY <1>3, <1>5, <2>1 DEF Content
  <2>2. CASE Takes("F", r, n)
    <3>1. /\ buf[m] = Takings("F", r, n) + 1 /\ buf[m] <= Len(gotF[r]) /\ buf[m] \in Nat \ {0}
      <4>1. buf[m] = Takings("F", r, n) + 1
        BY <1>3, <2>2
      <4>2. Takings("F", r, n + 1) = Takings("F", r, n) + 1 /\ Takings("F", r, n) \in Nat
        BY <1>0, <2>2, TakingsStep, TakingsNat
      <4>. QED BY <4>1, <4>2
    <3>2. buf[m] # None
      BY <3>1 DEF Configuration
    <3>3. gotF[r][buf[m]] = Item("F", After(Other("F"), r), buf[m])
      <4>1. buf[m] \in 1 .. Len(gotF[r])
        BY <3>1, TakingsNat, <1>0
      <4>. QED BY <4>1 DEF Received, Got
    <3>4. gotF[r][buf[m]] = Taken("F", r, n)
      BY <1>0, <2>2, <3>1, <3>3, Matching
    <3>5. Taken("F", r, n) = Act(VStage(r, c) - 1, m)
      BY <1>0, <1>1, Tensors DEF m
    <3>. QED BY <1>5, <2>2, <3>1, <3>2, <3>4, <3>5 DEF Content
  <2>. QED BY <1>0, <2>1, <2>2, TakingsStep
<1>10. ForwardOutput(r, c) = Yields("F", r, n)
  <2>1. ForwardOutput(r, c) = Act(VStage(r, c), m)
    BY <1>8, <1>9 DEF ForwardOutput, m
  <2>. QED BY <1>0, <1>1, <2>1, Tensors DEF m
<1>11. CASE ForwardOnly
  <2>1. lo = m /\ Before(r, c) = m + 1
    BY <1>11 DEF lo, Oldest, Before, m
  <2>2. Inputs(r, c) \in Seq(Buffer) /\ Len(Inputs(r, c)) = 1
    <3>1. PICK h \in 0 .. M + 1 : h = m + 1
      BY <1>0, <1>2
    <3>2. m \in Nat /\ h \in Nat /\ m <= h /\ h - m = 1
      BY <1>0, <1>2, <3>1
    <3>3. Stretch(buf, m, h) \in Seq(Buffer)
      BY <1>0, <1>3, <3>2, StretchTyped
    <3>4. Len(Stretch(buf, m, h)) = h - m
      BY <3>2, StretchIs
    <3>. QED BY <1>7, <2>1, <3>1, <3>2, <3>3, <3>4
  <2>3. Front(Inputs(r, c)) = <<>>
    <3>. DEFINE s == Inputs(r, c)
    <3>1. SubSeq(s, 1, 0) = <<>>
      <4>. HIDE DEF s
      <4>1. s \in Seq(Buffer)
        BY <2>2 DEF s
      <4>. QED BY <4>1
    <3>2. Len(s) - 1 = 0
      BY <2>2
    <3>. HIDE DEF s
    <3>. QED BY <3>1, <3>2 DEF Front, s
  <2>4. ForwardInputs(r, c) = <<>> /\ ForwardOutputs(r, c) = <<>>
    <3>1. output_tensors[r][c] = <<>>
      BY <1>2, <1>4, <2>1, StretchEmpty
    <3>. QED BY <1>11, <2>3, <3>1 DEF ForwardInputs, ForwardOutputs
  <2>5. Stretch(Buffers("F", r, c), Before(r, c), m + 1) = <<>> /\ Stretch(Outputs(r, c), Before(r, c), m + 1) = <<>>
    BY <1>2, <2>1, StretchEmpty
  <2>. QED BY <1>1, <1>10, <2>4, <2>5 DEF m
<1>12. CASE ~ForwardOnly
  <2>1. lo = Before(r, c)
    BY <1>12 DEF lo, Oldest, Before
  <2>2. ForwardInputs(r, c) = Stretch(Buffers("F", r, c), Before(r, c), m + 1)
    BY <1>7, <1>12, <2>1 DEF ForwardInputs, buf
  <2>3. Outputs(r, c)[m] = Yields("F", r, n)
    BY <1>0, <1>1, <1>2, Tensors DEF Outputs, m
  <2>4. Append(Stretch(Outputs(r, c), lo, m), Outputs(r, c)[m]) = Stretch(Outputs(r, c), lo, m + 1)
    <3>. DEFINE g == Outputs(r, c)
    <3>1. M \in Nat /\ g \in [0 .. M -> outs] /\ lo \in 0 .. M /\ m \in 0 .. M /\ lo <= m
      BY <1>0, <1>2, <1>3
    <3>. HIDE DEF g, outs
    <3>2. Append(Stretch(g, lo, m), g[m]) = Stretch(g, lo, m + 1)
      BY ONLY <3>1, StretchMore
    <3>. QED BY <3>2 DEF g
  <2>5. ForwardOutputs(r, c) = Stretch(Outputs(r, c), Before(r, c), m + 1)
    BY <1>4, <1>10, <1>12, <2>1, <2>3, <2>4 DEF ForwardOutputs
  <2>. QED BY <1>1, <1>10, <2>2, <2>5 DEF m
<1>. QED BY <1>0, <1>11, <1>12

LEMMA BackwardRuns ==
  ASSUME Configuration, NEW r \in Rank, Local(r), Received("F", r), Received("B", r), ~ForwardOnly,
         NEW n, n = Ran("B", r), n < Total, NEW c, c = BackwardChunk(n), GradFiled(r, c),
         n + (C - 1) * P < Ran("F", r) \/ Ran("F", r) = Total,
         Len(gotB[r]) = Takings("B", r, n + 1)
  PROVE  /\ c \in Chunk /\ C - 1 - c = ForwardChunk(n)
         /\ bwd[r][c] = Microbatch(n) /\ bwd[r][c] \in 0 .. M - 1 /\ bwd[r][c] < fwd[r][c]
         /\ Belong(r, c)
         /\ InputGrad(r, c) = IF Gives("B", r, n) THEN Yields("B", r, n) ELSE None
         /\ Tail(input_tensors[r][c]) =
              Stretch(Buffers("F", r, c), bwd[r][c] + 1, fwd[r][c] + (IF Filed(r, c) THEN 1 ELSE 0))
         /\ Tail(output_tensors[r][c]) = Stretch(Outputs(r, c), bwd[r][c] + 1, fwd[r][c])
         /\ Tail(Grads(r, c)) = <<>>
<1>. DEFINE m == bwd[r][c]
            l == fwd[r][c]
            buf == Buffers("F", r, c)
            x == IF Filed(r, c) THEN 1 ELSE 0
            outs == {Act(VStage(r, c), i) : i \in 0 .. M}
            e == C - 1 - c
            i == Iteration(c, m)
            f == Ran("F", r)
<1>0. /\ n \in 0 .. Total - 1 /\ n \in 0 .. Total /\ n \in Int /\ n \in Nat
      /\ "F" \in Pass /\ "B" \in Pass /\ M \in Nat /\ Total \in Nat
      /\ f \in 0 .. Total /\ f \in Nat
  BY Basics, RanIs DEF Local, Pass
<1>1. c \in Chunk /\ e = ForwardChunk(n) /\ e \in Chunk
  <2>1. ForwardChunk(n) \in Chunk /\ c \in Chunk
    BY <1>0, ForwardChunkIs
  <2>. QED BY <2>1, Basics DEF BackwardChunk, Chunk
<1>2. m = Microbatch(n) /\ m \in 0 .. M - 1 /\ l = Count(f, c) /\ l \in 0 .. M /\ m \in 0 .. M
  <2>1. Position(r) /\ Counted(r)
    BY DEF Local
  <2>2. C - 1 - c = e /\ e = ForwardChunk(n)
    BY <1>1
  <2>3. /\ l = Count(f, c) /\ l \in 0 .. M /\ bwd[r][c] = Count(n, C - 1 - c)
    BY <1>1, <2>1, CountsAre
  <2>4. m = Count(n, ForwardChunk(n))
    BY <1>1, <2>3
  <2>5. Microbatch(n) \in 0 .. M - 1
    BY <1>0, <1>1, CountBounds
  <2>6. m = Microbatch(n)
    BY <2>4 DEF Microbatch
  <2>. HIDE DEF m, l
  <2>. QED BY <1>0, <2>3, <2>5, <2>6
<1>3. m < l /\ i \in 0 .. f - 1
  BY <1>0, <1>2, Ahead
<1>4. i \in 0 .. Total - 1 /\ ForwardChunk(i) = c /\ Microbatch(i) = m
  BY <1>1, <1>2, IterationIs
<1>5. buf \in [0 .. M -> Buffer] /\ Outputs(r, c) \in [0 .. M -> outs]
  BY <1>0, <1>1, BuffersTyped
<1>6. /\ input_tensors[r][c] = Stretch(buf, m, l + x) /\ output_tensors[r][c] = Stretch(Outputs(r, c), m, l)
      /\ \/ output_tensor_grads[r][c] = <<>> /\ (LastStage(r, c) \/ m = M)
         \/ output_tensor_grads[r][c] = <<Buffers("B", r, e)[m]>>
  BY <1>1 DEF Local, Lists, InputLists, OutputLists, GradLists, Oldest
<1>7. /\ FirstStage(r, c) <=> ~Takes("F", r, i)
      /\ LastStage(r, c) <=> ~Takes("B", r, n)
      /\ FirstStage(r, c) <=> ~Gives("B", r, n)
  <2>1. i \in Int
    BY <1>4
  <2>2. FirstStage(r, ForwardChunk(i)) <=> ~Takes("F", r, i)
    BY <2>1, Ends
  <2>3. /\ LastStage(r, BackwardChunk(n)) <=> ~Takes("B", r, n)
        /\ FirstStage(r, BackwardChunk(n)) <=> ~Gives("B", r, n)
    BY <1>0, Ends
  <2>. QED BY <1>4, <2>2, <2>3
<1>8. /\ buf[m] = IF Takes("F", r, i) THEN Takings("F", r, i) + 1 ELSE None
      /\ Buffers("B", r, e)[m] = IF Takes("B", r, n) THEN Takings("B", r, n) + 1 ELSE None
  <2>1. i \in 0 .. Total /\ i # Total /\ n # Total
    BY <1>0, <1>4
  <2>2. buf[Count(i, c)] = IF i = Total \/ ~Takes("F", r, i) THEN None ELSE Takings("F", r, i) + 1
    BY <1>0, <1>4, <2>1, BufferOf
  <2>3. Buffers("B", r, e)[Count(n, e)] = IF n = Total \/ ~Takes("B", r, n) THEN None ELSE Takings("B", r, n) + 1
    BY <1>0, <1>1, BufferOf
  <2>4. Count(i, c) = m /\ Count(n, e) = m
    BY <1>1, <1>2, <1>4 DEF Microbatch
  <2>. QED BY <2>1, <2>2, <2>3, <2>4
<1>. HIDE DEF m, l, buf, e, i, f
<1>9. x \in {0, 1}
  OBVIOUS
<1>. HIDE DEF x
<1>10. /\ Head(input_tensors[r][c]) = buf[m]
       /\ Tail(input_tensors[r][c]) = Stretch(buf, m + 1, l + x)
       /\ Head(output_tensors[r][c]) = Act(VStage(r, c), m)
       /\ Tail(output_tensors[r][c]) = Stretch(Outputs(r, c), m + 1, l)
  <2>1. PICK h \in 0 .. M + 1 : h = l + x
    BY <1>0, <1>2, <1>9
  <2>2. m \in 0 .. M + 1 /\ m < h /\ l \in 0 .. M + 1 /\ m < l
    <3>1. l <= h
      BY <1>2, <1>9, <2>1
    <3>2. m \in Int /\ l \in Int /\ m < l
      BY <1>2, <1>3
    <3>3. m < h
      BY <3>1, <3>2, <2>1
    <3>. QED BY <1>0, <1>2, <3>2, <3>3
  <2>3. Head(Stretch(buf, m, h)) = buf[m] /\ Tail(Stretch(buf, m, h)) = Stretch(buf, m + 1, h)
    <3>1. m \in 0 .. M + 1 /\ h \in 0 .. M + 1 /\ m < h /\ buf \in [0 .. M -> Buffer] /\ M \in Nat
      BY <1>0, <1>5, <2>1, <2>2
    <3>. QED BY ONLY <3>1, StretchFirst
  <2>4. /\ Head(Stretch(Outputs(r, c), m, l)) = Outputs(r, c)[m]
        /\ Tail(Stretch(Outputs(r, c), m, l)) = Stretch(Outputs(r, c), m + 1, l)
    <3>. DEFINE g == Outputs(r, c)
    <3>1. m \in 0 .. M + 1 /\ l \in 0 .. M + 1 /\ m < l /\ g \in [0 .. M -> outs] /\ M \in Nat
      BY <1>0, <1>5, <2>2
    <3>. HIDE DEF g, outs
    <3>2. Head(Stretch(g, m, l)) = g[m] /\ Tail(Stretch(g, m, l)) = Stretch(g, m + 1, l)
      BY ONLY <3>1, StretchFirst
    <3>. QED BY <3>2 DEF g
  <2>5. Outputs(r, c)[m] = Act(VStage(r, c), m)
    BY <1>2 DEF Outputs
  <2>6. input_tensors[r][c] = Stretch(buf, m, h) /\ Stretch(buf, m + 1, h) = Stretch(buf, m + 1, l + x)
    BY <1>2, <1>6, <1>9, <2>1
  <2>7. Head(input_tensors[r][c]) = buf[m] /\ Tail(input_tensors[r][c]) = Stretch(buf, m + 1, l + x)
    BY <2>3, <2>6
  <2>8. Head(output_tensors[r][c]) = Act(VStage(r, c), m) /\ Tail(output_tensors[r][c]) = Stretch(Outputs(r, c), m + 1, l)
    BY <1>6, <2>4, <2>5
  <2>. QED BY <2>7, <2>8
<1>11. Content(gotF[r], buf[m]) = IF FirstStage(r, c) THEN None ELSE Act(VStage(r, c) - 1, m)
  <2>0. Takes("F", r, i) \in BOOLEAN /\ i \in Nat /\ i \in Int /\ i + 1 \in Nat /\ i + 1 <= f
    BY <1>0, <1>3, <1>4, TakingsStep
  <2>1. CASE ~Takes("F", r, i)
    BY <1>7, <1>8, <2>1 DEF Content
  <2>2. CASE Takes("F", r, i)
    <3>1. buf[m] = Takings("F", r, i) + 1 /\ Takings("F", r, i) \in Nat
      BY <1>0, <1>8, <2>0, <2>2, TakingsNat
    <3>2. Takings("F", r, i) + 1 <= Takings("F", r, f) /\ Takings("F", r, f) \in Nat
      <4>1. Takings("F", r, i + 1) = Takings("F", r, i) + 1
        BY <1>0, <2>0, <2>2, TakingsStep
      <4>2. Takings("F", r, i + 1) <= Takings("F", r, f)
        BY <1>0, <2>0, TakingsMonotonic
      <4>. QED BY <1>0, <4>1, <4>2, TakingsNat
    <3>3. Takings("F", r, f) <= Len(gotF[r]) /\ Len(gotF[r]) \in Nat
      BY DEF Received, Got, f
    <3>4. buf[m] \in 1 .. Len(gotF[r])
      BY <3>1, <3>2, <3>3
    <3>5. buf[m] # None
      BY <3>4 DEF Configuration
    <3>6. gotF[r][buf[m]] = Item("F", After(Other("F"), r), buf[m])
      BY <3>4 DEF Received, Got
    <3>7. gotF[r][buf[m]] = Taken("F", r, i)
      BY <1>0, <1>4, <2>2, <3>1, <3>6, Matching
    <3>8. Taken("F", r, i) = Act(VStage(r, c) - 1, m)
      BY <1>4, <2>0, Tensors
    <3>. QED BY <1>7, <2>2, <3>4, <3>5, <3>7, <3>8 DEF Content
  <2>. QED BY <2>0, <2>1, <2>2
<1>12. Grads(r, c) = <<Buffers("B", r, e)[m]>>
  <2>1. m # M
    BY <1>0, <1>2
  <2>2. CASE output_tensor_grads[r][c] = <<>>
    <3>1. LastStage(r, c) /\ Buffers("B", r, e)[m] = None
      <4>1. output_tensor_grads[r][c] # <<Buffers("B", r, e)[m]>>
        BY <2>2
      <4>. QED BY <1>6, <1>7, <1>8, <2>1, <4>1
    <3>. QED BY <2>2, <3>1 DEF Grads
  <2>3. CASE output_tensor_grads[r][c] # <<>>
    BY <1>6, <2>3 DEF Grads
  <2>. QED BY <2>2, <2>3
<1>13. Content(gotB[r], Head(Grads(r, c))) = IF LastStage(r, c) THEN None ELSE Grad(VStage(r, c) + 1, m)
  <2>0. Takes("B", r, n) \in BOOLEAN /\ Head(Grads(r, c)) = Buffers("B", r, e)[m]
    <3>1. Head(Grads(r, c)) = Buffers("B", r, e)[m]
      BY <1>12, Singleton
    <3>. QED BY <1>0, <3>1, TakingsStep
  <2>1. CASE ~Takes("B", r, n)
    BY <1>7, <1>8, <2>0, <2>1 DEF Content
  <2>2. CASE Takes("B", r, n)
    <3>. DEFINE b == Takings("B", r, n) + 1
    <3>1. b \in 1 .. Len(gotB[r])
      <4>1. Takings("B", r, n) \in Nat /\ Takings("B", r, n + 1) = Takings("B", r, n) + 1
        BY <1>0, <2>2, TakingsStep, TakingsNat
      <4>. QED BY <4>1
    <3>2. b # None
      BY <3>1 DEF Configuration
    <3>3. gotB[r][b] = Item("B", After(Other("B"), r), b)
      BY <3>1 DEF Received, Got
    <3>4. gotB[r][b] = Taken("B", r, n)
      BY <1>0, <2>2, <3>3, Matching
    <3>5. Taken("B", r, n) = Grad(VStage(r, c) + 1, m)
      BY <1>0, <1>2, Tensors
    <3>6. Head(Grads(r, c)) = b
      BY <1>8, <2>0, <2>2
    <3>. HIDE DEF b
    <3>. QED BY <1>7, <2>2, <3>1, <3>2, <3>4, <3>5, <3>6 DEF Content
  <2>. QED BY <2>0, <2>1, <2>2
<1>14. Belong(r, c)
  BY <1>10, <1>11, <1>13 DEF Belong, m
<1>15. InputGrad(r, c) = IF Gives("B", r, n) THEN Yields("B", r, n) ELSE None
  <2>1. Yields("B", r, n) = Grad(VStage(r, c), Microbatch(n)) /\ Gives("B", r, n) \in BOOLEAN
    BY <1>0, Tensors, TakingsStep
  <2>2. m = Microbatch(n) /\ (FirstStage(r, c) <=> ~Gives("B", r, n))
    BY <1>2, <1>7
  <2>3. InputGrad(r, c) = IF FirstStage(r, c) THEN None ELSE Grad(VStage(r, c), m)
    BY <1>14 DEF InputGrad, m
  <2>. QED BY <2>1, <2>2, <2>3
<1>16. Tail(Grads(r, c)) = <<>>
  BY <1>12, Singleton
<1>. QED BY <1>1, <1>2, <1>3, <1>10, <1>14, <1>15, <1>16 DEF m, l, e, buf, x

-------------------------------------------------------------------------------
(* What the step of one rank leaves alone                                        *)

Same(s) ==
  /\ phase'[s] = phase[s] /\ k'[s] = k[s] /\ half'[s] = half[s] /\ ops'[s] = ops[s]
  /\ askF'[s] = askF[s] /\ askB'[s] = askB[s]
  /\ input_tensors'[s] = input_tensors[s] /\ output_tensors'[s] = output_tensors[s]
  /\ output_tensor_grads'[s] = output_tensor_grads[s] /\ output_tensor'[s] = output_tensor[s]
  /\ fwd'[s] = fwd[s] /\ bwd'[s] = bwd[s] /\ clean'[s] = clean[s] /\ losses'[s] = losses[s]
  /\ in_sync'[s] = in_sync[s] /\ launches'[s] = launches[s]

LEMMA Frame ==
  ASSUME NEW s, Same(s), UNCHANGED got, Local(s), Linked(s)
  PROVE  Local(s)' /\ Linked(s)'
<1>1. \A d \in Pass : Ran(d, s)' = Ran(d, s) /\ Wanted(d, s)' = Wanted(d, s) /\ Sent(d, s)' = Sent(d, s)
  BY DEF Same, Ran, Wanted, Sent, NoGradYet, Halfway
<1>2. ArraysOf(s)' /\ Position(s)'
  BY DEF Same, Local, ArraysOf, Position, Over
<1>3. Counted(s)' /\ Asked(s)' /\ Result(s)'
  BY <1>1 DEF Same, Local, Counted, Asked, Result, Pass
<1>4. Losses(s)' /\ clean'[s] = TRUE
  BY DEF Same, Local, Losses
<1>5. Lists(s)'
  <2>1. \A c : Oldest(s, c)' = Oldest(s, c) /\ Filed(s, c)' = Filed(s, c) /\ GradFiled(s, c)' = GradFiled(s, c)
    BY <1>1 DEF Same, Oldest, Filed, GradFiled, NoGradYet, Pass
  <2>. QED BY <2>1 DEF Same, Local, Lists, InputLists, OutputLists, GradLists
<1>6. Reductions(s)'
  <2>1. Synced(s)' = Synced(s)
    BY <1>1 DEF Synced, Pass
  <2>2. \A c : Reduced(s, c)' = Reduced(s, c)
    BY <2>1 DEF Same, Reduced
  <2>. QED BY <2>1, <2>2 DEF Same, Local, Reductions
<1>7. Elsewhere(s)' /\ Quiet(s)'
  BY DEF Same, Linked, Elsewhere, Quiet, Halfway, Idle
<1>8. \A d \in Pass : Received(d, s)'
  BY <1>1 DEF Same, Linked, Received, Got, got
<1>9. \A d \in Pass : Queues(d, s)'
  <2>1. \A d : Got(d)' = Got(d)
    BY DEF Got, got
  <2>2. Other("F") = "B" /\ Other("B") = "F"
    BY DEF Other
  <2>3. \A d \in Pass : Sending(d, s)' = Sending(d, s) /\ Receiving(d, s)' = Receiving(d, s)
    BY <1>1, <2>1 DEF Sending, Receiving
  <2>. QED BY <1>1, <2>1, <2>2, <2>3 DEF Same, Linked, Queues, Pass
<1>. QED BY <1>2, <1>3, <1>4, <1>5, <1>6, <1>7, <1>8, <1>9 DEF Local, Linked

LEMMA RanNext ==
  ASSUME Configuration, NEW r \in Rank, Position(r)', NEW d \in Pass
  PROVE  /\ Ran(d, r)' \in 0 .. Total /\ Wanted(d, r)' \in 0 .. Total /\ Sent(d, r)' \in 0 .. Total
         /\ Ran(d, r)' <= Wanted(d, r)' /\ Wanted(d, r)' <= Ran(d, r)' + 1
         /\ Sent(d, r)' <= Ran(d, r)'
<1>1. /\ Total \in Nat \ {0} /\ NumWarmup(r) \in 0 .. Total /\ NumRemaining(r) = Total - NumWarmup(r)
      /\ ForwardOnly \/ AllWarmup => NumWarmup(r) = Total
  BY Basics, Warmups
<1>. HIDE DEF Total
<1>2. Ran(d, r)' \in 0 .. Total
  BY <1>1 DEF Ran, Position
<1>3. Sent(d, r)' \in 0 .. Total /\ Sent(d, r)' <= Ran(d, r)'
  BY <1>1, <1>2 DEF Ran, Sent, Position, Halfway
<1>4. Wanted(d, r)' \in 0 .. Total /\ Ran(d, r)' <= Wanted(d, r)' /\ Wanted(d, r)' <= Ran(d, r)' + 1
  <2>1. /\ phase'[r] = "init" => Ran(d, r)' = 0
        /\ d = "B" /\ NoGradYet(r)' => Ran("B", r)' = 0
    BY <1>1 DEF Ran, Position, NoGradYet
  <2>2. NextOf(Ran(d, r)') \in 0 .. Total /\ Ran(d, r)' <= NextOf(Ran(d, r)') /\ NextOf(Ran(d, r)') <= Ran(d, r)' + 1
    BY <1>1, <1>2 DEF NextOf
  <2>3. Wanted("F", r)' \in {0, Ran("F", r)', NextOf(Ran("F", r)')} /\ (Wanted("F", r)' = 0 => phase'[r] = "init" \/ Wanted("F", r)' \in {Ran("F", r)', NextOf(Ran("F", r)')})
    BY DEF Wanted
  <2>. QED BY <1>1, <1>2, <2>1, <2>2, <2>3 DEF Wanted, Pass
<1>. QED BY <1>2, <1>3, <1>4

-------------------------------------------------------------------------------
(* What a rank posts                                                             *)

LEMMA Concatenations ==
  ASSUME NEW x, NEW y
  PROVE  /\ <<>> \o <<>> = <<>> /\ <<>> \o <<x>> = <<x>> /\ <<x>> \o <<>> = <<x>>
         /\ <<x>> \o <<y>> = <<x, y>>
         /\ <<>> \o <<x, y>> = <<x, y>> /\ <<x, y>> \o <<>> = <<x, y>>
<1>. DEFINE S == {x, y}
<1>1. <<>> \in Seq(S) /\ <<x>> \in Seq(S) /\ <<x, y>> \in Seq(S)
  OBVIOUS
<1>2. \A q \in Seq(S) : <<>> \o q = q /\ q \o <<>> = q
  OBVIOUS
<1>3. <<x>> \o <<y>> = <<x, y>>
  <2>. DEFINE p == <<x>>
              q == <<y>>
              z == <<x, y>>
  <2>1. /\ p \in Seq(S) /\ Len(p) = 1 /\ p[1] = x /\ q \in Seq(S) /\ Len(q) = 1 /\ q[1] = y
        /\ z \in Seq(S) /\ Len(z) = 2 /\ z[1] = x /\ z[2] = y
    OBVIOUS
  <2>. HIDE DEF p, q, z, S
  <2>2. p \o q \in Seq(S) /\ Len(p \o q) = 2 /\ (p \o q)[1] = x /\ (p \o q)[2] = y
    <3>1. /\ p \o q \in Seq(S) /\ Len(p \o q) = Len(p) + Len(q)
          /\ \A i \in 1 .. Len(p) + Len(q) : (p \o q)[i] = IF i <= Len(p) THEN p[i] ELSE q[i - Len(p)]
      BY <2>1, ConcatProperties
    <3>2. Len(p) + Len(q) = 2 /\ 1 <= Len(p) /\ ~(2 <= Len(p)) /\ 2 - Len(p) = 1 /\ 1 \in 1 .. 2 /\ 2 \in 1 .. 2
      BY <2>1
    <3>3. (p \o q)[1] = p[1] /\ (p \o q)[2] = q[1]
      BY <3>1, <3>2
    <3>. QED BY <2>1, <3>1, <3>2, <3>3
  <2>3. p \o q = z
    BY <2>1, <2>2
  <2>. QED BY <2>3 DEF p, q, z
<1>. QED BY <1>1, <1>2, <1>3

(* The operations posted towards the two neighbours, and towards nobody else.    *)
Both(q, a, s, b, t) == q \in {Only(a, s) \o Only(b, t), Only(b, t) \o Only(a, s)}
Posted(r, o, sn, sp, rp, rn) ==
  /\ Both(o[NextRank(r)], sn # None, Send("F", sn), rn, Recv("B"))
  /\ Both(o[PrevRank(r)], sp # None, Send("B", sp), rp, Recv("F"))
  /\ \A s \in Rank : s \notin {NextRank(r), PrevRank(r)} => o[s] = <<>>

LEMMA Neighbours ==
  ASSUME Configuration, NEW r \in Rank
  PROVE  /\ NextRank(r) \in Rank /\ PrevRank(r) \in Rank /\ NextRank(r) # PrevRank(r)
         /\ NextRank(r) # r /\ PrevRank(r) # r
         /\ After("F", r) = NextRank(r) /\ After("B", r) = PrevRank(r)
<1>1. After("F", r) = NextRank(r) /\ After("B", r) = PrevRank(r) /\ Other("F") = "B" /\ "F" \in Pass /\ "B" \in Pass
  BY DEF After, Other, Pass
<1>. QED BY <1>1, Ring

LEMMA OperationsAre ==
  ASSUME Configuration, NEW r \in Rank, NEW sn, NEW sp, NEW rp \in BOOLEAN, NEW rn \in BOOLEAN
  PROVE  Posted(r, Operations(r, sn, sp, rp, rn), sn, sp, rp, rn)
<1>. DEFINE o == Operations(r, sn, sp, rp, rn)
            SN(s) == Only(s = NextRank(r) /\ sn # None, Send("F", sn))
            SP(s) == Only(s = PrevRank(r) /\ sp # None, Send("B", sp))
            RP(s) == Only(s = PrevRank(r) /\ rp, Recv("F"))
            RN(s) == Only(s = NextRank(r) /\ rn, Recv("B"))
<1>1. /\ NextRank(r) \in Rank /\ PrevRank(r) \in Rank /\ NextRank(r) # PrevRank(r)
  BY Neighbours
<1>2. \A s \in Rank : o[s] = IF P2P = "batched" THEN ((SP(s) \o RP(s)) \o SN(s)) \o RN(s)
                             ELSE IF r % 2 = 0 THEN ((SN(s) \o RP(s)) \o SP(s)) \o RN(s)
                             ELSE ((RP(s) \o SN(s)) \o RN(s)) \o SP(s)
  BY DEF Operations
<1>3. \A s \in Rank : /\ s # NextRank(r) => SN(s) = <<>> /\ RN(s) = <<>>
                      /\ s # PrevRank(r) => SP(s) = <<>> /\ RP(s) = <<>>
  BY DEF Only
<1>4. /\ SN(NextRank(r)) = Only(sn # None, Send("F", sn)) /\ RN(NextRank(r)) = Only(rn, Recv("B"))
      /\ SP(PrevRank(r)) = Only(sp # None, Send("B", sp)) /\ RP(PrevRank(r)) = Only(rp, Recv("F"))
  BY DEF Only
<1>5. \A s : /\ SN(s) \in {<<>>, <<Send("F", sn)>>} /\ SP(s) \in {<<>>, <<Send("B", sp)>>}
             /\ RN(s) \in {<<>>, <<Recv("B")>>} /\ RP(s) \in {<<>>, <<Recv("F")>>}
  BY DEF Only
<1>6. /\ <<>> \o <<>> = <<>>
      /\ \A x : <<>> \o <<x>> = <<x>> /\ <<x>> \o <<>> = <<x>>
      /\ \A x, y : <<x, y>> \o <<>> = <<x, y>> /\ <<x>> \o <<y>> = <<x, y>>
  BY Concatenations
<1>. HIDE DEF SN, SP, RN, RP, o
<1>7. Both(o[NextRank(r)], sn # None, Send("F", sn), rn, Recv("B"))
  <2>. DEFINE s == NextRank(r)
  <2>1. SP(s) = <<>> /\ RP(s) = <<>>
    BY <1>1, <1>3
  <2>2. <<>> \o SN(s) = SN(s) /\ SN(s) \o <<>> = SN(s) /\ (SN(s) \o RN(s)) \o <<>> = SN(s) \o RN(s)
    BY <1>5, <1>6
  <2>3. o[s] = SN(s) \o RN(s)
    BY <1>1, <1>2, <1>6, <2>1, <2>2
  <2>. QED BY <1>4, <2>3 DEF Both
<1>8. Both(o[PrevRank(r)], sp # None, Send("B", sp), rp, Recv("F"))
  <2>. DEFINE s == PrevRank(r)
  <2>1. SN(s) = <<>> /\ RN(s) = <<>>
    BY <1>1, <1>3
  <2>2. /\ <<>> \o RP(s) = RP(s) /\ RP(s) \o <<>> = RP(s)
        /\ (SP(s) \o RP(s)) \o <<>> = SP(s) \o RP(s) /\ (RP(s) \o SP(s)) \o <<>> = RP(s) \o SP(s)
    BY <1>5, <1>6
  <2>3. o[s] \in {SP(s) \o RP(s), RP(s) \o SP(s)}
    BY <1>1, <1>2, <1>6, <2>1, <2>2
  <2>. QED BY <1>4, <2>3 DEF Both
<1>9. \A s \in Rank : s \notin {NextRank(r), PrevRank(r)} => o[s] = <<>>
  <2>. SUFFICES ASSUME NEW s \in Rank, s \notin {NextRank(r), PrevRank(r)}
                PROVE  o[s] = <<>>
    OBVIOUS
  <2>1. SN(s) = <<>> /\ RN(s) = <<>> /\ SP(s) = <<>> /\ RP(s) = <<>>
    BY <1>3
  <2>. QED BY <1>2, <1>6, <2>1
<1>. QED BY <1>7, <1>8, <1>9 DEF Posted, o

LEMMA TwoCalls ==
  ASSUME Configuration, NEW r \in Rank, NEW sn, NEW rp \in BOOLEAN, NEW rn \in BOOLEAN
  PROVE  Posted(r, Behind(Operations(r, sn, None, rp, FALSE), Operations(r, None, None, FALSE, rn)),
                sn, None, rp, rn)
<1>. DEFINE o == Operations(r, sn, None, rp, FALSE)
            q == Operations(r, None, None, FALSE, rn)
            A == Only(sn # None, Send("F", sn))
            B == Only(rp, Recv("F"))
            D == Only(rn, Recv("B"))
<1>1. /\ NextRank(r) \in Rank /\ PrevRank(r) \in Rank /\ NextRank(r) # PrevRank(r)
  BY Neighbours
<1>2. Posted(r, o, sn, None, rp, FALSE) /\ Posted(r, q, None, None, FALSE, rn)
  BY OperationsAre
<1>3. /\ <<>> \o <<>> = <<>>
      /\ \A x : <<>> \o <<x>> = <<x>> /\ <<x>> \o <<>> = <<x>>
  BY Concatenations
<1>4. A \in {<<>>, <<Send("F", sn)>>} /\ B \in {<<>>, <<Recv("F")>>} /\ D \in {<<>>, <<Recv("B")>>}
  BY DEF Only
<1>5. /\ Only(None # None, Send("F", None)) = <<>> /\ Only(None # None, Send("B", None)) = <<>>
      /\ Only(FALSE, Recv("F")) = <<>> /\ Only(FALSE, Recv("B")) = <<>>
  BY DEF Only
<1>6. \A s \in Rank : Behind(o, q)[s] = o[s] \o q[s]
  BY DEF Behind
<1>. HIDE DEF o, q, A, B, D
<1>7. /\ <<>> \o A = A /\ A \o <<>> = A /\ <<>> \o B = B /\ B \o <<>> = B /\ <<>> \o D = D /\ D \o <<>> = D
  BY <1>3, <1>4
<1>8. o[NextRank(r)] = A /\ q[NextRank(r)] = D
  BY <1>2, <1>5, <1>7 DEF Posted, Both, A, D
<1>9. o[PrevRank(r)] = B /\ q[PrevRank(r)] = <<>>
  BY <1>2, <1>3, <1>5, <1>7 DEF Posted, Both, B
<1>10. \A s \in Rank : s \notin {NextRank(r), PrevRank(r)} => o[s] = <<>> /\ q[s] = <<>>
  BY <1>2 DEF Posted
<1>11. Both(Behind(o, q)[NextRank(r)], sn # None, Send("F", sn), rn, Recv("B"))
  BY <1>1, <1>6, <1>8 DEF Both, A, D
<1>12. Both(Behind(o, q)[PrevRank(r)], None # None, Send("B", None), rp, Recv("F"))
  BY <1>1, <1>5, <1>6, <1>7, <1>9 DEF Both, B
<1>13. \A s \in Rank : s \notin {NextRank(r), PrevRank(r)} => Behind(o, q)[s] = <<>>
  BY <1>3, <1>6, <1>10
<1>. QED BY <1>11, <1>12, <1>13 DEF Posted, o, q

(* A queue after a call: what there was, and then what is posted.                *)
LEMMA QueueMore ==
  ASSUME NEW q, NEW o, NEW hs \in BOOLEAN, NEW s, NEW hr \in BOOLEAN, NEW t,
         NEW a \in BOOLEAN, NEW u, NEW b \in BOOLEAN,
         Queue(q, hs, s, hr, t), Both(o, a, u, b, t), ~(hs /\ a), ~(hr /\ b)
  PROVE  Queue(q \o o, hs \/ a, IF a THEN u ELSE s, hr \/ b, t)
<1>1. /\ <<>> \o <<>> = <<>>
      /\ \A x : <<>> \o <<x>> = <<x>> /\ <<x>> \o <<>> = <<x>>
      /\ \A x, y : /\ <<x>> \o <<y>> = <<x, y>>
                   /\ <<>> \o <<x, y>> = <<x, y>> /\ <<x, y>> \o <<>> = <<x, y>>
  BY Concatenations
<1>2. o \in IF a THEN IF b THEN {<<u, t>>, <<t, u>>} ELSE {<<u>>} ELSE IF b THEN {<<t>>} ELSE {<<>>}
  BY <1>1 DEF Both, Only
<1>3. CASE a /\ b
  <2>1. ~hs /\ ~hr /\ q = <<>> /\ o \in {<<u, t>>, <<t, u>>}
    BY <1>2, <1>3 DEF Queue
  <2>. QED BY <1>1, <1>3, <2>1 DEF Queue
<1>4. CASE a /\ ~b
  <2>0. ~hs /\ o = <<u>>
    BY <1>2, <1>4
  <2>1. ~hs /\ o = <<u>> /\ ((~hr /\ q = <<>>) \/ (hr /\ q = <<t>>))
    BY <2>0 DEF Queue
  <2>2. q \o o = IF hr THEN <<t, u>> ELSE <<u>>
    BY <1>1, <2>1
  <2>. QED BY <1>4, <2>1, <2>2 DEF Queue
<1>5. CASE ~a /\ b
  <2>0. ~hr /\ o = <<t>>
    BY <1>2, <1>5
  <2>1. ~hr /\ o = <<t>> /\ ((~hs /\ q = <<>>) \/ (hs /\ q = <<s>>))
    BY <2>0 DEF Queue
  <2>2. q \o o = IF hs THEN <<s, t>> ELSE <<t>>
    BY <1>1, <2>1
  <2>. QED BY <1>5, <2>1, <2>2 DEF Queue
<1>6. CASE ~a /\ ~b
  <2>1. o = <<>> /\ (q = <<>> \/ q = <<s>> \/ q = <<t>> \/ q = <<s, t>> \/ q = <<t, s>>)
    BY <1>2, <1>6 DEF Queue
  <2>2. q \o o = q
    BY <1>1, <2>1
  <2>. QED BY <1>6, <2>2 DEF Queue
<1>. QED BY <1>3, <1>4, <1>5, <1>6

(* One step of a rank in pass d: it sends one more output, it asks for one more  *)
(* input, it runs on what it has received.                                       *)
Sends(d, r, u) ==
  \/ Sent(d, r)' = Sent(d, r) /\ u = None
  \/ /\ ~Sending(d, r) /\ Sent(d, r) < Total /\ Sent(d, r)' = Sent(d, r) + 1
     /\ u = IF Gives(d, r, Sent(d, r)) THEN Yields(d, r, Sent(d, r)) ELSE None
Asks(d, r, b) ==
  /\ Takings(d, r, Wanted(d, r)') = Takings(d, r, Wanted(d, r)) + (IF b THEN 1 ELSE 0)
  /\ b => ~Receiving(d, r)
Runs(d, r) == Ran(d, r)' = Ran(d, r) \/ (~Receiving(d, r) /\ Ran(d, r)' <= Wanted(d, r))

LEMMA OneQueue ==
  ASSUME Configuration, NEW r \in Rank, Position(r), Position(r)', UNCHANGED got, NEW d \in Pass, Queues(d, r),
         NEW o, NEW u, NEW b \in BOOLEAN, ops'[r][After(d, r)] = ops[r][After(d, r)] \o o,
         Both(o, u # None, Send(d, u), b, Recv(Other(d))), Sends(d, r, u), Asks(Other(d), r, b)
  PROVE  Queues(d, r)'
<1>. DEFINE s == After(d, r)
            e == Other(d)
            n == Sent(d, r)
            g == Givings(d, r, n)
            l == Len(Got(d)[s])
<1>0. /\ e \in Pass /\ n \in Nat /\ g \in Nat /\ n \in 0 .. Total
      /\ (u # None) \in BOOLEAN /\ Sending(d, r) \in BOOLEAN /\ Receiving(e, r) \in BOOLEAN
      /\ Total \in Nat
  <2>1. e \in Pass /\ Total \in Nat
    BY Ring, Basics
  <2>2. n \in 0 .. Total
    BY RanIs
  <2>3. n \in Nat
    BY <2>1, <2>2
  <2>4. g \in Nat
    BY <2>3, TakingsNat
  <2>. QED BY <2>1, <2>2, <2>3, <2>4 DEF Sending, Receiving
<1>1. Got(d)' = Got(d) /\ Got(e)' = Got(e)
  BY DEF Got, got
<1>2. g \in {l, l + 1} /\ (Sending(d, r) => Item(d, r, g) \in Computed) /\ (Sending(d, r) <=> l # g)
      /\ Queue(ops[r][s], Sending(d, r), Send(d, Item(d, r, g)), Receiving(e, r), Recv(e))
  BY DEF Queues, Sending
<1>. HIDE DEF s, e, n, l, g
<1>3. ~(Receiving(e, r) /\ b)
  BY DEF Asks, e
<1>4. Receiving(e, r)' <=> Receiving(e, r) \/ b
  <2>. DEFINE x == Takings(e, r, Wanted(e, r))
              y == Len(Got(e)[r])
  <2>1. x \in Nat /\ (Receiving(e, r) <=> y # x)
    <3>1. Wanted(e, r) \in Nat
      BY <1>0, RanIs
    <3>. QED BY <1>0, <3>1, TakingsNat DEF Receiving
  <2>2. Receiving(e, r)' <=> y # Takings(e, r, Wanted(e, r)')
    BY <1>1 DEF Receiving, e
  <2>3. Takings(e, r, Wanted(e, r)') = x + (IF b THEN 1 ELSE 0) /\ (b => ~Receiving(e, r))
    BY DEF Asks, e
  <2>. HIDE DEF x, y
  <2>4. CASE b
    BY <2>1, <2>2, <2>3, <2>4
  <2>5. CASE ~b
    BY <2>1, <2>2, <2>3, <2>5
  <2>. QED BY <2>4, <2>5
<1>5. CASE u = None
  <2>1. Givings(d, r, Sent(d, r)') = g
    <3>1. CASE Sent(d, r)' = n
      BY <3>1 DEF g
    <3>2. CASE Sent(d, r)' # n
      <4>1. Sent(d, r)' = n + 1 /\ n < Total /\ ~Gives(d, r, n)
        <5>1. /\ n < Total /\ Sent(d, r)' = n + 1
              /\ None = IF Gives(d, r, n) THEN Yields(d, r, n) ELSE None
          BY <1>5, <3>2 DEF Sends, n
        <5>2. Yields(d, r, n) # None
          BY <1>0, <5>1, YieldsComputed
        <5>. QED BY <5>1, <5>2
      <4>. QED BY <1>0, <4>1, TakingsStep DEF g
    <3>. QED BY <3>1, <3>2
  <2>2. Sending(d, r)' <=> Sending(d, r)
    <3>1. Sending(d, r)' <=> l # Givings(d, r, Sent(d, r)')
      BY <1>1 DEF Sending, l, s
    <3>. QED BY <1>2, <2>1, <3>1
  <2>3. Queue(ops[r][s] \o o, Sending(d, r) \/ (u # None), IF u # None THEN Send(d, u) ELSE Send(d, Item(d, r, g)),
              Receiving(e, r) \/ b, Recv(e))
    BY <1>0, <1>2, <1>3, <1>5, QueueMore DEF e
  <2>4. Queue(ops'[r][s], Sending(d, r)', Send(d, Item(d, r, g)), Receiving(e, r)', Recv(e))
    BY <1>4, <1>5, <2>2, <2>3 DEF Queue, s
  <2>5. Givings(d, r, Sent(d, r)') \in {l, l + 1} /\ (Sending(d, r)' => Item(d, r, g) \in Computed)
    BY <1>2, <2>1, <2>2
  <2>. QED BY <1>1, <2>1, <2>4, <2>5 DEF Queues, l, s, e
<1>6. CASE u # None
  <2>1. ~Sending(d, r) /\ n < Total /\ Sent(d, r)' = n + 1 /\ Gives(d, r, n) /\ u = Yields(d, r, n)
    BY <1>6 DEF Sends, n
  <2>2. Givings(d, r, Sent(d, r)') = g + 1 /\ g = l
    <3>1. Givings(d, r, n + 1) = g + 1
      BY <1>0, <2>1, TakingsStep DEF g
    <3>. QED BY <1>2, <2>1, <3>1
  <2>3. Item(d, r, g + 1) = u /\ u \in Computed
    BY <1>0, <2>1, ItemIs, YieldsComputed DEF g
  <2>4. Sending(d, r)'
    <3>1. Sending(d, r)' <=> l # Givings(d, r, Sent(d, r)')
      BY <1>1 DEF Sending, l, s
    <3>. QED BY <1>0, <2>2, <3>1
  <2>5. Queue(ops[r][s] \o o, Sending(d, r) \/ (u # None), IF u # None THEN Send(d, u) ELSE Send(d, Item(d, r, g)),
              Receiving(e, r) \/ b, Recv(e))
    <3>1. ~(Sending(d, r) /\ (u # None))
      BY <2>1
    <3>2. /\ Queue(ops[r][s], Sending(d, r), Send(d, Item(d, r, g)), Receiving(e, r), Recv(e))
          /\ Both(o, u # None, Send(d, u), b, Recv(e))
      BY <1>2 DEF e
    <3>. DEFINE a == u # None
                p == Item(d, r, g)
    <3>3. a \in BOOLEAN /\ ~(Sending(d, r) /\ a) /\ Both(o, a, Send(d, u), b, Recv(e))
      BY <3>1, <3>2
    <3>. HIDE DEF a, p
    <3>4. Queue(ops[r][s] \o o, Sending(d, r) \/ a, IF a THEN Send(d, u) ELSE Send(d, p), Receiving(e, r) \/ b, Recv(e))
      BY <1>0, <1>3, <3>2, <3>3, QueueMore DEF p
    <3>. QED BY <3>4 DEF a, p
  <2>6. Queue(ops'[r][s], Sending(d, r)', Send(d, Item(d, r, g + 1)), Receiving(e, r)', Recv(e))
    BY <1>4, <1>6, <2>3, <2>4, <2>5 DEF Queue, s
  <2>7. Givings(d, r, Sent(d, r)') \in {l, l + 1}
    BY <2>2
  <2>. QED BY <1>1, <2>2, <2>3, <2>6, <2>7 DEF Queues, l, s, e
<1>. QED BY <1>5, <1>6

LEMMA StillReceived ==
  ASSUME Configuration, NEW r \in Rank, Position(r), Position(r)', UNCHANGED got, NEW d \in Pass, Received(d, r),
         NEW b \in BOOLEAN, Asks(d, r, b), Runs(d, r)
  PROVE  Received(d, r)'
<1>. DEFINE y == Len(Got(d)[r])
<1>1. Got(d)' = Got(d)
  BY DEF Got, got
<1>2. /\ Wanted(d, r) \in Nat /\ Wanted(d, r)' \in Nat /\ Ran(d, r) \in Nat /\ Ran(d, r)' \in Nat
  BY RanIs, RanNext, Basics
<1>3. Takings(d, r, Ran(d, r)) <= y /\ y <= Takings(d, r, Wanted(d, r)) /\ y \in Nat
  BY DEF Received
<1>. HIDE DEF y
<1>4. y <= Takings(d, r, Wanted(d, r)')
  BY <1>2, <1>3, TakingsNat DEF Asks
<1>5. Takings(d, r, Ran(d, r)') <= y
  <2>1. CASE Ran(d, r)' = Ran(d, r)
    BY <1>3, <2>1
  <2>2. CASE ~Receiving(d, r) /\ Ran(d, r)' <= Wanted(d, r)
    <3>1. Takings(d, r, Wanted(d, r)) = y
      BY <2>2 DEF Receiving, y
    <3>2. Takings(d, r, Ran(d, r)') <= Takings(d, r, Wanted(d, r))
      BY <1>2, <2>2, TakingsMonotonic
    <3>. QED BY <3>1, <3>2
  <2>. QED BY <2>1, <2>2 DEF Runs
<1>. QED BY <1>1, <1>4, <1>5 DEF Received, y

LEMMA Linking ==
  ASSUME Configuration, NEW r \in Rank, Position(r), Position(r)', Linked(r), UNCHANGED got,
         NEW o, NEW sn, NEW sp, NEW rp \in BOOLEAN, NEW rn \in BOOLEAN,
         ops'[r] = Behind(ops[r], o), Posted(r, o, sn, sp, rp, rn),
         Sends("F", r, sn), Sends("B", r, sp), Asks("F", r, rp), Asks("B", r, rn),
         Runs("F", r), Runs("B", r)
  PROVE  Elsewhere(r)' /\ \A d \in Pass : Received(d, r)' /\ Queues(d, r)'
<1>1. /\ NextRank(r) \in Rank /\ PrevRank(r) \in Rank
      /\ After("F", r) = NextRank(r) /\ After("B", r) = PrevRank(r)
  BY Neighbours
<1>2. "F" \in Pass /\ "B" \in Pass /\ Other("F") = "B" /\ Other("B") = "F"
  BY DEF Pass, Other
<1>3. \A s \in Rank : ops'[r][s] = ops[r][s] \o o[s]
  BY DEF Behind
<1>4. Received("F", r)' /\ Received("B", r)'
  BY <1>2, StillReceived DEF Linked
<1>5. Queues("F", r)'
  BY <1>1, <1>2, <1>3, OneQueue DEF Linked, Posted
<1>6. Queues("B", r)'
  BY <1>1, <1>2, <1>3, OneQueue DEF Linked, Posted
<1>7. Elsewhere(r)'
  <2>1. <<>> \o <<>> = <<>>
    BY Concatenations
  <2>. QED BY <1>3, <2>1 DEF Elsewhere, Linked, Posted
<1>. QED BY <1>4, <1>5, <1>6, <1>7 DEF Pass

-------------------------------------------------------------------------------
(* What the step of a rank does to its row of the variables                      *)

Others(r) == \A s \in Rank : s # r => Same(s)
LoopRow(r, p, n, h) == phase'[r] = p /\ k'[r] = n /\ half'[r] = h
AskRow(r, rp, rn) ==
  /\ askF'[r] = IF rp THEN askF[r] + 1 ELSE askF[r]
  /\ askB'[r] = IF rn THEN askB[r] + 1 ELSE askB[r]
NoForwardRow(r) ==
  /\ fwd'[r] = fwd[r] /\ losses'[r] = losses[r] /\ output_tensor'[r] = output_tensor[r]
ForwardRow(r, c) ==
  /\ fwd'[r] = [fwd[r] EXCEPT ![c] = @ + 1]
  /\ losses'[r] = IF LastStage(r, c) THEN Append(losses[r], ForwardOutput(r, c)) ELSE losses[r]
  /\ output_tensor'[r] = IF LastStage(r, c) THEN None ELSE ForwardOutput(r, c)
  /\ output_tensors'[r] = [output_tensors[r] EXCEPT ![c] = ForwardOutputs(r, c)]
  /\ clean'[r] = (clean[r] /\ ForwardOutput(r, c) # Mixed)
NoBackwardRow(r) ==
  /\ bwd'[r] = bwd[r] /\ in_sync'[r] = in_sync[r] /\ launches'[r] = launches[r]
BackwardRow(r, n) ==
  LET c == BackwardChunk(n)
      chunks == (IF GradReduce = "finalize" THEN {} ELSE HookSync(n)) \cup CustomSync(r, n)
  IN  /\ bwd'[r] = [bwd[r] EXCEPT ![c] = @ + 1]
      /\ clean'[r] = (clean[r] /\ Belong(r, c))
      /\ output_tensors'[r] = [output_tensors[r] EXCEPT ![c] = Tail(@)]
      /\ in_sync'[r] = in_sync[r] \cup HookSync(n) \cup CustomSync(r, n)
      /\ launches'[r] = [e \in Chunk |-> IF e \in chunks THEN Append(launches[r][e], bwd'[r][e]) ELSE launches[r][e]]

LEMMA Updated ==
  ASSUME NEW S, NEW f, Over(S, f), NEW r, NEW v, NEW g, g = [f EXCEPT ![r] = v]
  PROVE  Over(S, g) /\ (r \in S => g[r] = v)
BY DEF Over

LEMMA StartRow ==
  ASSUME Arrays, NEW r \in Rank, Start(r)
  PROVE  /\ Arrays' /\ Others(r) /\ UNCHANGED got
         /\ LoopRow(r, IF NumWarmup(r) = 0 THEN AfterWarmup(r) ELSE "warmup", k[r], half[r])
         /\ AskRow(r, ~FirstRank(r), FALSE) /\ NoForwardRow(r) /\ NoBackwardRow(r)
         /\ output_tensors'[r] = output_tensors[r] /\ clean'[r] = clean[r]
         /\ output_tensor_grads'[r] = output_tensor_grads[r]
         /\ input_tensors'[r] = [input_tensors[r] EXCEPT ![0] = <<NextF(r, ~FirstRank(r))>>]
         /\ ops'[r] = Behind(ops[r], Operations(r, None, None, ~FirstRank(r), FALSE))
<1>1. /\ phase' = [phase EXCEPT ![r] = IF NumWarmup(r) = 0 THEN AfterWarmup(r) ELSE "warmup"]
      /\ input_tensors' = [input_tensors EXCEPT ![r] = [@ EXCEPT ![0] = <<NextF(r, ~FirstRank(r))>>]]
      /\ askF' = IF ~FirstRank(r) THEN [askF EXCEPT ![r] = @ + 1] ELSE askF
      /\ ops' = [ops EXCEPT ![r] = Behind(@, Operations(r, None, None, ~FirstRank(r), FALSE))]
      /\ UNCHANGED <<k, half, gotF, gotB, askB, output_tensors, output_tensor_grads, output_tensor,
                     fwd, bwd, clean, losses, in_sync, launches>>
  BY DEF Start, Post, AskF, got, sync
<1>2. Arrays'
  BY <1>1 DEF Arrays, Over
<1>3. Others(r)
  BY <1>1 DEF Arrays, Over, Others, Same
<1>4. UNCHANGED got /\ NoForwardRow(r) /\ NoBackwardRow(r) /\ AskRow(r, ~FirstRank(r), FALSE)
  BY <1>1 DEF Arrays, Over, got, NoForwardRow, NoBackwardRow, AskRow
<1>. QED BY <1>1, <1>2, <1>3, <1>4 DEF Arrays, Over, LoopRow

LEMMA ForwardStepRow ==
  ASSUME Arrays, NEW r \in Rank, NEW c, ForwardStep(r, c)
  PROVE  /\ ForwardRow(r, c)
         /\ Over(Rank, fwd)' /\ Over(Rank, losses)' /\ Over(Rank, output_tensor)'
         /\ Over(Rank, output_tensors)' /\ Over(Rank, clean)'
         /\ \A s \in Rank : s # r =>
              /\ fwd'[s] = fwd[s] /\ losses'[s] = losses[s] /\ output_tensor'[s] = output_tensor[s]
              /\ output_tensors'[s] = output_tensors[s] /\ clean'[s] = clean[s]
<1>1. /\ fwd' = [fwd EXCEPT ![r][c] = @ + 1]
      /\ losses' = IF LastStage(r, c) THEN [losses EXCEPT ![r] = Append(@, ForwardOutput(r, c))] ELSE losses
      /\ output_tensor' = [output_tensor EXCEPT ![r] = IF LastStage(r, c) THEN None ELSE ForwardOutput(r, c)]
      /\ output_tensors' = [output_tensors EXCEPT ![r][c] = ForwardOutputs(r, c)]
      /\ clean' = [clean EXCEPT ![r] = @ /\ ForwardOutput(r, c) # Mixed]
  BY DEF ForwardStep
<1>2. ForwardRow(r, c)
  BY <1>1 DEF Arrays, Over, ForwardRow
<1>3. /\ Over(Rank, fwd)' /\ Over(Rank, losses)' /\ Over(Rank, output_tensor)'
      /\ Over(Rank, output_tensors)' /\ Over(Rank, clean)'
  BY <1>1 DEF Arrays, Over
<1>4. \A s \in Rank : s # r =>
              /\ fwd'[s] = fwd[s] /\ losses'[s] = losses[s] /\ output_tensor'[s] = output_tensor[s]
              /\ output_tensors'[s] = output_tensors[s] /\ clean'[s] = clean[s]
  BY <1>1 DEF Arrays, Over
<1>. QED BY <1>2, <1>3, <1>4

LEMMA BackwardStepRow ==
  ASSUME Arrays, NEW r \in Rank, NEW n, BackwardStep(r, n)
  PROVE  /\ BackwardRow(r, n)
         /\ Over(Rank, bwd)' /\ Over(Rank, clean)' /\ Over(Rank, output_tensors)'
         /\ Over(Rank, in_sync)' /\ Over(Rank, launches)'
         /\ \A s \in Rank : s # r =>
              /\ bwd'[s] = bwd[s] /\ clean'[s] = clean[s] /\ output_tensors'[s] = output_tensors[s]
              /\ in_sync'[s] = in_sync[s] /\ launches'[s] = launches[s]
<1>. DEFINE c == BackwardChunk(n)
            chunks == (IF GradReduce = "finalize" THEN {} ELSE HookSync(n)) \cup CustomSync(r, n)
<1>1. /\ bwd' = [bwd EXCEPT ![r][c] = @ + 1]
      /\ clean' = [clean EXCEPT ![r] = @ /\ Belong(r, c)]
      /\ output_tensors' = [output_tensors EXCEPT ![r][c] = Tail(@)]
      /\ in_sync' = [in_sync EXCEPT ![r] = @ \cup HookSync(n) \cup CustomSync(r, n)]
      /\ launches' = [launches EXCEPT ![r] =
                 [e \in Chunk |-> IF e \in chunks THEN Append(@[e], bwd'[r][e]) ELSE @[e]]]
  BY DEF BackwardStep, Launch
<1>. HIDE DEF c, chunks
<1>2. /\ bwd'[r] = [bwd[r] EXCEPT ![c] = @ + 1]
      /\ clean'[r] = (clean[r] /\ Belong(r, c))
      /\ output_tensors'[r] = [output_tensors[r] EXCEPT ![c] = Tail(@)]
      /\ in_sync'[r] = in_sync[r] \cup HookSync(n) \cup CustomSync(r, n)
      /\ launches'[r] = [e \in Chunk |-> IF e \in chunks THEN Append(launches[r][e], bwd'[r][e]) ELSE launches[r][e]]
  BY <1>1 DEF Arrays, Over
<1>3. BackwardRow(r, n)
  BY <1>2 DEF BackwardRow, c, chunks
<1>4. /\ Over(Rank, bwd)' /\ Over(Rank, clean)' /\ Over(Rank, output_tensors)'
      /\ Over(Rank, in_sync)' /\ Over(Rank, launches)'
  BY <1>1 DEF Arrays, Over
<1>5. \A s \in Rank : s # r =>
              /\ bwd'[s] = bwd[s] /\ clean'[s] = clean[s] /\ output_tensors'[s] = output_tensors[s]
              /\ in_sync'[s] = in_sync[s] /\ launches'[s] = launches[s]
  BY <1>1 DEF Arrays, Over
<1>. QED BY <1>3, <1>4, <1>5

WarmupGoes(r, c, e, last, rp, first, rn) ==
  /\ Arrays' /\ Others(r) /\ UNCHANGED got
  /\ phase[r] = "warmup" /\ Waited(r, "F")
  /\ LoopRow(r, IF last THEN AfterWarmup(r) ELSE phase[r], IF last THEN 0 ELSE k[r] + 1, half[r])
  /\ AskRow(r, rp, rn) /\ ForwardRow(r, c) /\ NoBackwardRow(r)
  /\ input_tensors'[r] = [[input_tensors[r] EXCEPT ![c] = ForwardInputs(r, c)]
                            EXCEPT ![e] = Append(@, NextF(r, rp))]
  /\ output_tensor_grads'[r] =
       IF first THEN [output_tensor_grads[r] EXCEPT ![C - 1] = Append(@, NextB(r, rn))]
       ELSE output_tensor_grads[r]
  /\ ops'[r] = IF P2P = "overlap"
               THEN Behind(ops[r], Behind(Operations(r, output_tensor'[r], None, rp, FALSE),
                                          Operations(r, None, None, FALSE, rn)))
               ELSE Behind(ops[r], Operations(r, output_tensor'[r], None, rp, rn))

LEMMA WarmupRow ==
  ASSUME Arrays, NEW r \in Rank, Warmup(r), NEW c, c = ForwardChunk(k[r]), NEW e, e = ForwardChunk(k[r] + 1),
         NEW last, last = LastWarmup(r), NEW rp, rp = WarmupRecvPrev(r),
         NEW first, first = (last /\ ~ForwardOnly /\ ~AllWarmup), NEW rn, rn = (first /\ ~LastRank(r))
  PROVE  WarmupGoes(r, c, e, last, rp, first, rn)
<1>1. /\ phase[r] = "warmup" /\ Waited(r, "F") /\ ForwardStep(r, c)
      /\ input_tensors' = [input_tensors EXCEPT ![r] =
           LET f == [@ EXCEPT ![c] = ForwardInputs(r, c)]
           IN  [f EXCEPT ![e] = Append(@, NextF(r, rp))]]
      /\ output_tensor_grads' =
           IF first THEN [output_tensor_grads EXCEPT ![r][C - 1] = Append(@, NextB(r, rn))]
           ELSE output_tensor_grads
      /\ askF' = IF rp THEN [askF EXCEPT ![r] = @ + 1] ELSE askF
      /\ askB' = IF rn THEN [askB EXCEPT ![r] = @ + 1] ELSE askB
      /\ ops' = [ops EXCEPT ![r] =
                   IF P2P = "overlap" THEN Behind(@, Behind(Operations(r, output_tensor'[r], None, rp, FALSE),
                                                            Operations(r, None, None, FALSE, rn)))
                   ELSE Behind(@, Operations(r, output_tensor'[r], None, rp, rn))]
      /\ phase' = [phase EXCEPT ![r] = IF last THEN AfterWarmup(r) ELSE @]
      /\ k' = [k EXCEPT ![r] = IF last THEN 0 ELSE @ + 1]
      /\ UNCHANGED <<half, gotF, gotB, bwd, in_sync, launches>>
  BY DEF Warmup, Post, AskF, AskB, got, sync
<1>2. /\ ForwardRow(r, c)
      /\ Over(Rank, fwd)' /\ Over(Rank, losses)' /\ Over(Rank, output_tensor)'
      /\ Over(Rank, output_tensors)' /\ Over(Rank, clean)'
      /\ \A s \in Rank : s # r =>
           /\ fwd'[s] = fwd[s] /\ losses'[s] = losses[s] /\ output_tensor'[s] = output_tensor[s]
           /\ output_tensors'[s] = output_tensors[s] /\ clean'[s] = clean[s]
  BY <1>1, ForwardStepRow
<1>3. Arrays'
  <2>1. /\ Over(Rank, phase)' /\ Over(Rank, k)' /\ Over(Rank, half)'
        /\ Over(Rank, ops)' /\ Over(Rank, gotF)' /\ Over(Rank, gotB)'
        /\ Over(Rank, askF)' /\ Over(Rank, askB)'
    BY <1>1 DEF Arrays, Over
  <2>2. Over(Rank, input_tensors)'
    <3>. DEFINE F == [[input_tensors[r] EXCEPT ![c] = ForwardInputs(r, c)] EXCEPT ![e] = Append(@, NextF(r, rp))]
    <3>1. Over(Rank, input_tensors) /\ input_tensors' = [input_tensors EXCEPT ![r] = F]
      BY <1>1 DEF Arrays
    <3>. HIDE DEF F
    <3>2. Over(Rank, input_tensors')
      BY ONLY <3>1, Updated
    <3>. QED BY <3>2 DEF Over
  <2>3. Over(Rank, output_tensor_grads)'
    <3>. DEFINE G == [output_tensor_grads[r] EXCEPT ![C - 1] = Append(@, NextB(r, rn))]
    <3>1. /\ Over(Rank, output_tensor_grads)
          /\ output_tensor_grads' = IF first THEN [output_tensor_grads EXCEPT ![r] = G] ELSE output_tensor_grads
      BY <1>1 DEF Arrays
    <3>. HIDE DEF G
    <3>2. Over(Rank, [output_tensor_grads EXCEPT ![r] = G])
      BY ONLY <3>1, Updated
    <3>3. Over(Rank, output_tensor_grads')
      BY <3>1, <3>2
    <3>. QED BY <3>3 DEF Over
  <2>4. /\ Over(Rank, bwd)' /\ Over(Rank, in_sync)' /\ Over(Rank, launches)'
    BY <1>1 DEF Arrays, Over
  <2>. QED BY <1>2, <2>1, <2>2, <2>3, <2>4 DEF Arrays
<1>4. Others(r)
  BY <1>1, <1>2 DEF Arrays, Over, Others, Same
<1>5. UNCHANGED got /\ NoBackwardRow(r) /\ AskRow(r, rp, rn)
  BY <1>1 DEF Arrays, Over, got, NoBackwardRow, AskRow
<1>6. LoopRow(r, IF last THEN AfterWarmup(r) ELSE phase[r], IF last THEN 0 ELSE k[r] + 1, half[r])
  BY <1>1 DEF Arrays, Over, LoopRow
<1>7. input_tensors'[r] = [[input_tensors[r] EXCEPT ![c] = ForwardInputs(r, c)]
                                   EXCEPT ![e] = Append(@, NextF(r, rp))]
  BY <1>1 DEF Arrays, Over
<1>8. output_tensor_grads'[r] =
              IF first THEN [output_tensor_grads[r] EXCEPT ![C - 1] = Append(@, NextB(r, rn))]
              ELSE output_tensor_grads[r]
  BY <1>1 DEF Arrays, Over
<1>9. ops'[r] = IF P2P = "overlap"
                THEN Behind(ops[r], Behind(Operations(r, output_tensor'[r], None, rp, FALSE),
                                           Operations(r, None, None, FALSE, rn)))
                ELSE Behind(ops[r], Operations(r, output_tensor'[r], None, rp, rn))
  BY <1>1 DEF Arrays, Over
<1>. QED BY <1>1, <1>2, <1>3, <1>4, <1>5, <1>6, <1>7, <1>8, <1>9 DEF WarmupGoes

SteadyForwardGoes(r, c) ==
  /\ Arrays' /\ Others(r) /\ UNCHANGED got
  /\ phase[r] = "steady" /\ ~half[r] /\ Waited(r, "F")
  /\ LoopRow(r, phase[r], k[r], TRUE)
  /\ AskRow(r, FALSE, FALSE) /\ ForwardRow(r, c) /\ NoBackwardRow(r)
  /\ input_tensors'[r] = [input_tensors[r] EXCEPT ![c] = ForwardInputs(r, c)]
  /\ output_tensor_grads'[r] = output_tensor_grads[r]
  /\ ops'[r] = IF P2P = "overlap"
               THEN Behind(ops[r], Operations(r, output_tensor'[r], None, SteadyRecvPrev(r), FALSE))
               ELSE ops[r]

LEMMA SteadyForwardRow ==
  ASSUME Arrays, NEW r \in Rank, SteadyForward(r), NEW c, c = ForwardChunk(k[r] + NumWarmup(r))
  PROVE  SteadyForwardGoes(r, c)
<1>1. /\ phase[r] = "steady" /\ ~half[r] /\ Waited(r, "F") /\ ForwardStep(r, c)
      /\ half' = [half EXCEPT ![r] = TRUE]
      /\ input_tensors' = [input_tensors EXCEPT ![r][c] = ForwardInputs(r, c)]
      /\ ops' = IF P2P = "overlap"
                THEN [ops EXCEPT ![r] = Behind(@, Operations(r, output_tensor'[r], None, SteadyRecvPrev(r), FALSE))]
                ELSE ops
      /\ UNCHANGED <<phase, k, gotF, gotB, askF, askB, output_tensor_grads, bwd, in_sync, launches>>
  BY DEF SteadyForward, Post, got, ask, sync
<1>2. /\ ForwardRow(r, c)
      /\ Over(Rank, fwd)' /\ Over(Rank, losses)' /\ Over(Rank, output_tensor)'
      /\ Over(Rank, output_tensors)' /\ Over(Rank, clean)'
      /\ \A s \in Rank : s # r =>
           /\ fwd'[s] = fwd[s] /\ losses'[s] = losses[s] /\ output_tensor'[s] = output_tensor[s]
           /\ output_tensors'[s] = output_tensors[s] /\ clean'[s] = clean[s]
  BY <1>1, ForwardStepRow
<1>3. Arrays'
  <2>1. /\ Over(Rank, phase)' /\ Over(Rank, k)' /\ Over(Rank, half)'
        /\ Over(Rank, ops)' /\ Over(Rank, gotF)' /\ Over(Rank, gotB)'
        /\ Over(Rank, askF)' /\ Over(Rank, askB)'
    BY <1>1 DEF Arrays, Over
  <2>2. Over(Rank, input_tensors)'
    BY <1>1, Updated DEF Arrays
  <2>3. Over(Rank, output_tensor_grads)'
    BY <1>1, Updated DEF Arrays
  <2>4. /\ Over(Rank, bwd)' /\ Over(Rank, in_sync)' /\ Over(Rank, launches)'
    BY <1>1 DEF Arrays, Over
  <2>. QED BY <1>2, <2>1, <2>2, <2>3, <2>4 DEF Arrays
<1>4. Others(r)
  BY <1>1, <1>2 DEF Arrays, Over, Others, Same
<1>5. UNCHANGED got /\ NoBackwardRow(r) /\ AskRow(r, FALSE, FALSE) /\ LoopRow(r, phase[r], k[r], TRUE)
  BY <1>1 DEF Arrays, Over, got, NoBackwardRow, AskRow, LoopRow
<1>6. /\ input_tensors'[r] = [input_tensors[r] EXCEPT ![c] = ForwardInputs(r, c)]
      /\ output_tensor_grads'[r] = output_tensor_grads[r]
      /\ ops'[r] = IF P2P = "overlap"
                   THEN Behind(ops[r], Operations(r, output_tensor'[r], None, SteadyRecvPrev(r), FALSE))
                   ELSE ops[r]
  BY <1>1 DEF Arrays, Over
<1>. QED BY <1>1, <1>2, <1>3, <1>4, <1>5, <1>6 DEF SteadyForwardGoes

SteadyBackwardGoes(r, c, last, rp, rn, i, j) ==
  /\ Arrays' /\ Others(r) /\ UNCHANGED got
  /\ phase[r] = "steady" /\ half[r] /\ (P2P = "overlap" => ~Waiting(r, "B"))
  /\ LoopRow(r, IF last THEN "drain" ELSE phase[r], IF last THEN 0 ELSE k[r] + 1, FALSE)
  /\ AskRow(r, rp, rn) /\ NoForwardRow(r) /\ BackwardRow(r, k[r])
  /\ input_tensors'[r] =
       IF rp THEN [[input_tensors[r] EXCEPT ![c] = Tail(@)] EXCEPT ![i] = Append(@, NextF(r, rp))]
       ELSE [input_tensors[r] EXCEPT ![c] = Tail(@)]
  /\ output_tensor_grads'[r] =
       IF rn THEN [[output_tensor_grads[r] EXCEPT ![c] = Tail(Grads(r, c))] EXCEPT ![j] = Append(@, NextB(r, rn))]
       ELSE [output_tensor_grads[r] EXCEPT ![c] = Tail(Grads(r, c))]
  /\ ops'[r] = IF P2P = "overlap"
               THEN Behind(ops[r], Operations(r, None, InputGrad(r, c), FALSE, rn))
               ELSE Behind(ops[r], Operations(r, output_tensor[r], InputGrad(r, c), rp, rn))

LEMMA SteadyBackwardRow ==
  ASSUME Arrays, NEW r \in Rank, SteadyBackward(r), NEW c, c = BackwardChunk(k[r]),
         NEW last, last = (k[r] = NumRemaining(r) - 1),
         NEW rp, rp = SteadyRecvPrev(r), NEW rn, rn = SteadyRecvNext(r),
         NEW i, i = SteadyForwardChunk(r), NEW j, j = SteadyBackwardChunk(r)
  PROVE  SteadyBackwardGoes(r, c, last, rp, rn, i, j)
<1>1. /\ phase[r] = "steady" /\ half[r] /\ (P2P = "overlap" => ~Waiting(r, "B")) /\ BackwardStep(r, k[r])
      /\ half' = [half EXCEPT ![r] = FALSE]
      /\ input_tensors' = [input_tensors EXCEPT ![r] =
           LET f == [input_tensors[r] EXCEPT ![c] = Tail(@)]
           IN  IF rp THEN [f EXCEPT ![i] = Append(@, NextF(r, rp))] ELSE f]
      /\ output_tensor_grads' = [output_tensor_grads EXCEPT ![r] =
           LET f == [@ EXCEPT ![c] = Tail(Grads(r, c))]
           IN  IF rn THEN [f EXCEPT ![j] = Append(@, NextB(r, rn))] ELSE f]
      /\ askF' = IF rp THEN [askF EXCEPT ![r] = @ + 1] ELSE askF
      /\ askB' = IF rn THEN [askB EXCEPT ![r] = @ + 1] ELSE askB
      /\ ops' = [ops EXCEPT ![r] =
                   IF P2P = "overlap" THEN Behind(@, Operations(r, None, InputGrad(r, c), FALSE, rn))
                   ELSE Behind(@, Operations(r, output_tensor[r], InputGrad(r, c), rp, rn))]
      /\ phase' = [phase EXCEPT ![r] = IF last THEN "drain" ELSE @]
      /\ k' = [k EXCEPT ![r] = IF last THEN 0 ELSE @ + 1]
      /\ UNCHANGED <<gotF, gotB, output_tensor, fwd, losses>>
  <2>1. /\ phase[r] = "steady" /\ half[r] /\ (P2P = "overlap" => ~Waiting(r, "B")) /\ BackwardStep(r, k[r])
        /\ half' = [half EXCEPT ![r] = FALSE]
    BY DEF SteadyBackward
  <2>2. input_tensors' = [input_tensors EXCEPT ![r] =
           LET f == [input_tensors[r] EXCEPT ![c] = Tail(@)]
           IN  IF rp THEN [f EXCEPT ![i] = Append(@, NextF(r, rp))] ELSE f]
    BY DEF SteadyBackward
  <2>3. output_tensor_grads' = [output_tensor_grads EXCEPT ![r] =
           LET f == [@ EXCEPT ![c] = Tail(Grads(r, c))]
           IN  IF rn THEN [f EXCEPT ![j] = Append(@, NextB(r, rn))] ELSE f]
    BY DEF SteadyBackward
  <2>4. AskF(r, rp) /\ AskB(r, rn)
    BY DEF SteadyBackward
  <2>5. ops' = [ops EXCEPT ![r] =
                  IF P2P = "overlap" THEN Behind(@, Operations(r, None, InputGrad(r, c), FALSE, rn))
                  ELSE Behind(@, Operations(r, output_tensor[r], InputGrad(r, c), rp, rn))]
    BY DEF SteadyBackward, Post
  <2>6. /\ phase' = [phase EXCEPT ![r] = IF last THEN "drain" ELSE @]
        /\ k' = [k EXCEPT ![r] = IF last THEN 0 ELSE @ + 1]
        /\ UNCHANGED <<gotF, gotB, output_tensor, fwd, losses>>
    BY DEF SteadyBackward, got
  <2>. QED BY <2>1, <2>2, <2>3, <2>4, <2>5, <2>6 DEF AskF, AskB
<1>2. /\ BackwardRow(r, k[r])
      /\ Over(Rank, bwd)' /\ Over(Rank, clean)' /\ Over(Rank, output_tensors)'
      /\ Over(Rank, in_sync)' /\ Over(Rank, launches)'
      /\ \A s \in Rank : s # r =>
           /\ bwd'[s] = bwd[s] /\ clean'[s] = clean[s] /\ output_tensors'[s] = output_tensors[s]
           /\ in_sync'[s] = in_sync[s] /\ launches'[s] = launches[s]
  BY <1>1, BackwardStepRow
<1>3. Arrays'
  <2>1. /\ Over(Rank, phase)' /\ Over(Rank, k)' /\ Over(Rank, half)'
        /\ Over(Rank, ops)' /\ Over(Rank, gotF)' /\ Over(Rank, gotB)'
        /\ Over(Rank, askF)' /\ Over(Rank, askB)'
    BY <1>1 DEF Arrays, Over
  <2>2. Over(Rank, input_tensors)'
    BY <1>1, Updated DEF Arrays
  <2>3. Over(Rank, output_tensor_grads)'
    BY <1>1, Updated DEF Arrays
  <2>4. /\ Over(Rank, output_tensor)' /\ Over(Rank, fwd)' /\ Over(Rank, losses)'
    BY <1>1 DEF Arrays, Over
  <2>. QED BY <1>2, <2>1, <2>2, <2>3, <2>4 DEF Arrays
<1>4. Others(r)
  BY <1>1, <1>2 DEF Arrays, Over, Others, Same
<1>5. UNCHANGED got /\ NoForwardRow(r) /\ AskRow(r, rp, rn)
  BY <1>1 DEF Arrays, Over, got, NoForwardRow, AskRow
<1>6. LoopRow(r, IF last THEN "drain" ELSE phase[r], IF last THEN 0 ELSE k[r] + 1, FALSE)
  BY <1>1 DEF Arrays, Over, LoopRow
<1>7. input_tensors'[r] =
        IF rp THEN [[input_tensors[r] EXCEPT ![c] = Tail(@)] EXCEPT ![i] = Append(@, NextF(r, rp))]
        ELSE [input_tensors[r] EXCEPT ![c] = Tail(@)]
  BY <1>1 DEF Arrays, Over
<1>8. output_tensor_grads'[r] =
        IF rn THEN [[output_tensor_grads[r] EXCEPT ![c] = Tail(Grads(r, c))] EXCEPT ![j] = Append(@, NextB(r, rn))]
        ELSE [output_tensor_grads[r] EXCEPT ![c] = Tail(Grads(r, c))]
  BY <1>1 DEF Arrays, Over
<1>9. ops'[r] = IF P2P = "overlap"
                THEN Behind(ops[r], Operations(r, None, InputGrad(r, c), FALSE, rn))
                ELSE Behind(ops[r], Operations(r, output_tensor[r], InputGrad(r, c), rp, rn))
  BY <1>1 DEF Arrays, Over
<1>. QED BY <1>1, <1>2, <1>3, <1>4, <1>5, <1>6, <1>7, <1>8, <1>9 DEF SteadyBackwardGoes

DrainGoes(r, rn) ==
  /\ Arrays' /\ Others(r) /\ UNCHANGED got
  /\ phase[r] = "drain" /\ Waited(r, "B")
  /\ LoopRow(r, IF NumRemaining(r) = Total THEN "finish" ELSE "cooldown", NumRemaining(r), half[r])
  /\ AskRow(r, FALSE, rn) /\ NoForwardRow(r) /\ NoBackwardRow(r)
  /\ output_tensors'[r] = output_tensors[r] /\ clean'[r] = clean[r]
  /\ input_tensors'[r] = input_tensors[r]
  /\ output_tensor_grads'[r] =
       IF AllWarmup THEN [output_tensor_grads[r] EXCEPT ![C - 1] = Append(@, NextB(r, rn))]
       ELSE output_tensor_grads[r]
  /\ ops'[r] = Behind(ops[r], Operations(r, None, None, FALSE, rn))

LEMMA DrainRow ==
  ASSUME Arrays, NEW r \in Rank, Drain(r), NEW rn, rn = (AllWarmup /\ ~LastRank(r))
  PROVE  DrainGoes(r, rn)
<1>1. /\ phase[r] = "drain" /\ Waited(r, "B")
      /\ phase' = [phase EXCEPT ![r] = IF NumRemaining(r) = Total THEN "finish" ELSE "cooldown"]
      /\ k' = [k EXCEPT ![r] = NumRemaining(r)]
      /\ output_tensor_grads' =
           IF AllWarmup THEN [output_tensor_grads EXCEPT ![r][C - 1] = Append(@, NextB(r, rn))]
           ELSE output_tensor_grads
      /\ askB' = IF rn THEN [askB EXCEPT ![r] = @ + 1] ELSE askB
      /\ ops' = [ops EXCEPT ![r] = Behind(@, Operations(r, None, None, FALSE, rn))]
      /\ UNCHANGED <<half, gotF, gotB, askF, input_tensors, output_tensors, output_tensor,
                     fwd, bwd, clean, losses, in_sync, launches>>
  BY DEF Drain, Post, AskB, got, sync
<1>2. Arrays'
  BY <1>1 DEF Arrays, Over
<1>3. Others(r)
  BY <1>1 DEF Arrays, Over, Others, Same
<1>4. UNCHANGED got /\ NoForwardRow(r) /\ NoBackwardRow(r) /\ AskRow(r, FALSE, rn)
  BY <1>1 DEF Arrays, Over, got, NoForwardRow, NoBackwardRow, AskRow
<1>5. /\ LoopRow(r, IF NumRemaining(r) = Total THEN "finish" ELSE "cooldown", NumRemaining(r), half[r])
      /\ ops'[r] = Behind(ops[r], Operations(r, None, None, FALSE, rn))
      /\ output_tensor_grads'[r] =
           IF AllWarmup THEN [output_tensor_grads[r] EXCEPT ![C - 1] = Append(@, NextB(r, rn))]
           ELSE output_tensor_grads[r]
  BY <1>1 DEF Arrays, Over, LoopRow
<1>. QED BY <1>1, <1>2, <1>3, <1>4, <1>5 DEF DrainGoes

CooldownGoes(r, c, e, rn, last) ==
  /\ Arrays' /\ Others(r) /\ UNCHANGED got
  /\ phase[r] = "cooldown" /\ Waited(r, "B")
  /\ LoopRow(r, IF last THEN "finish" ELSE phase[r], IF last THEN 0 ELSE k[r] + 1, half[r])
  /\ AskRow(r, FALSE, rn) /\ NoForwardRow(r) /\ BackwardRow(r, k[r])
  /\ input_tensors'[r] = [input_tensors[r] EXCEPT ![c] = Tail(@)]
  /\ output_tensor_grads'[r] =
       [[output_tensor_grads[r] EXCEPT ![c] = Tail(Grads(r, c))] EXCEPT ![e] = Append(@, NextB(r, rn))]
  /\ ops'[r] = Behind(ops[r], Operations(r, None, InputGrad(r, c), FALSE, rn))

LEMMA CooldownRow ==
  ASSUME Arrays, NEW r \in Rank, Cooldown(r), NEW c, c = BackwardChunk(k[r]), NEW e, e = BackwardChunk(k[r] + 1),
         NEW rn, rn = CooldownRecvNext(r), NEW last, last = LastCooldown(r)
  PROVE  CooldownGoes(r, c, e, rn, last)
<1>1. /\ phase[r] = "cooldown" /\ Waited(r, "B") /\ BackwardStep(r, k[r])
      /\ input_tensors' = [input_tensors EXCEPT ![r][c] = Tail(@)]
      /\ output_tensor_grads' = [output_tensor_grads EXCEPT ![r] =
           LET f == [@ EXCEPT ![c] = Tail(Grads(r, c))]
           IN  [f EXCEPT ![e] = Append(@, NextB(r, rn))]]
      /\ askB' = IF rn THEN [askB EXCEPT ![r] = @ + 1] ELSE askB
      /\ ops' = [ops EXCEPT ![r] = Behind(@, Operations(r, None, InputGrad(r, c), FALSE, rn))]
      /\ phase' = [phase EXCEPT ![r] = IF last THEN "finish" ELSE @]
      /\ k' = [k EXCEPT ![r] = IF last THEN 0 ELSE @ + 1]
      /\ UNCHANGED <<half, gotF, gotB, askF, output_tensor, fwd, losses>>
  BY DEF Cooldown, Post, AskB, got
<1>2. /\ BackwardRow(r, k[r])
      /\ Over(Rank, bwd)' /\ Over(Rank, clean)' /\ Over(Rank, output_tensors)'
      /\ Over(Rank, in_sync)' /\ Over(Rank, launches)'
      /\ \A s \in Rank : s # r =>
           /\ bwd'[s] = bwd[s] /\ clean'[s] = clean[s] /\ output_tensors'[s] = output_tensors[s]
           /\ in_sync'[s] = in_sync[s] /\ launches'[s] = launches[s]
  BY <1>1, BackwardStepRow
<1>3. Arrays'
  <2>1. /\ Over(Rank, phase)' /\ Over(Rank, k)' /\ Over(Rank, half)'
        /\ Over(Rank, ops)' /\ Over(Rank, gotF)' /\ Over(Rank, gotB)'
        /\ Over(Rank, askF)' /\ Over(Rank, askB)'
    BY <1>1 DEF Arrays, Over
  <2>2. Over(Rank, input_tensors)'
    BY <1>1, Updated DEF Arrays
  <2>3. Over(Rank, output_tensor_grads)'
    BY <1>1, Updated DEF Arrays
  <2>4. /\ Over(Rank, output_tensor)' /\ Over(Rank, fwd)' /\ Over(Rank, losses)'
    BY <1>1 DEF Arrays, Over
  <2>. QED BY <1>2, <2>1, <2>2, <2>3, <2>4 DEF Arrays
<1>4. Others(r)
  BY <1>1, <1>2 DEF Arrays, Over, Others, Same
<1>5. UNCHANGED got /\ NoForwardRow(r) /\ AskRow(r, FALSE, rn)
  BY <1>1 DEF Arrays, Over, got, NoForwardRow, AskRow
<1>6. /\ LoopRow(r, IF last THEN "finish" ELSE phase[r], IF last THEN 0 ELSE k[r] + 1, half[r])
      /\ ops'[r] = Behind(ops[r], Operations(r, None, InputGrad(r, c), FALSE, rn))
  BY <1>1 DEF Arrays, Over, LoopRow
<1>7. /\ input_tensors'[r] = [input_tensors[r] EXCEPT ![c] = Tail(@)]
      /\ output_tensor_grads'[r] =
           [[output_tensor_grads[r] EXCEPT ![c] = Tail(Grads(r, c))] EXCEPT ![e] = Append(@, NextB(r, rn))]
  BY <1>1 DEF Arrays, Over
<1>. QED BY <1>1, <1>2, <1>3, <1>4, <1>5, <1>6, <1>7 DEF CooldownGoes

LEMMA FinishRow ==
  ASSUME Arrays, NEW r \in Rank, Finish(r)
  PROVE  /\ Arrays' /\ Others(r) /\ UNCHANGED got
         /\ phase[r] = "finish" /\ LoopRow(r, "done", k[r], half[r])
         /\ AskRow(r, FALSE, FALSE) /\ NoForwardRow(r)
         /\ output_tensors'[r] = output_tensors[r] /\ clean'[r] = clean[r] /\ bwd'[r] = bwd[r]
         /\ input_tensors'[r] = input_tensors[r] /\ output_tensor_grads'[r] = output_tensor_grads[r]
         /\ ops'[r] = ops[r]
         /\ launches'[r] = [c \in Chunk |->
              IF ~ForwardOnly /\ (GradReduce = "finalize" \/ (GradReduce = "delay" /\ c \notin in_sync[r]))
              THEN Append(launches[r][c], bwd[r][c]) ELSE launches[r][c]]
         /\ in_sync'[r] = IF GradReduce = "delay" /\ ~ForwardOnly THEN Chunk ELSE in_sync[r]
<1>1. /\ phase[r] = "finish"
      /\ phase' = [phase EXCEPT ![r] = "done"]
      /\ launches' = [launches EXCEPT ![r] = [c \in Chunk |->
           IF ~ForwardOnly /\ (GradReduce = "finalize" \/ (GradReduce = "delay" /\ c \notin in_sync[r]))
           THEN Append(@[c], bwd[r][c]) ELSE @[c]]]
      /\ in_sync' = [in_sync EXCEPT ![r] = IF GradReduce = "delay" /\ ~ForwardOnly THEN Chunk ELSE @]
      /\ UNCHANGED <<k, half, ops, gotF, gotB, askF, askB, input_tensors, output_tensors,
                     output_tensor_grads, output_tensor, fwd, bwd, clean, losses>>
  BY DEF Finish, got, ask, lists
<1>2. Arrays'
  BY <1>1 DEF Arrays, Over
<1>3. Others(r)
  BY <1>1 DEF Arrays, Over, Others, Same
<1>4. UNCHANGED got /\ NoForwardRow(r) /\ AskRow(r, FALSE, FALSE) /\ LoopRow(r, "done", k[r], half[r])
  BY <1>1 DEF Arrays, Over, got, NoForwardRow, AskRow, LoopRow
<1>5. /\ launches'[r] = [c \in Chunk |->
           IF ~ForwardOnly /\ (GradReduce = "finalize" \/ (GradReduce = "delay" /\ c \notin in_sync[r]))
           THEN Append(launches[r][c], bwd[r][c]) ELSE launches[r][c]]
      /\ in_sync'[r] = IF GradReduce = "delay" /\ ~ForwardOnly THEN Chunk ELSE in_sync[r]
  BY <1>1 DEF Arrays, Over
<1>. QED BY <1>1, <1>2, <1>3, <1>4, <1>5

-------------------------------------------------------------------------------
(* How far a rank has come before and after a step                               *)

LEMMA Loop ==
  ASSUME Configuration, NEW r \in Rank
  PROVE  /\ Total \in Nat \ {0} /\ NumWarmup(r) \in 0 .. Total /\ NumRemaining(r) \in 0 .. Total
         /\ NumWarmup(r) + NumRemaining(r) = Total
         /\ ForwardOnly \/ AllWarmup => NumWarmup(r) = Total
         /\ ~ForwardOnly /\ ~AllWarmup => NumWarmup(r) < Total
         /\ ForwardOnly \in BOOLEAN /\ AllWarmup \in BOOLEAN
BY Basics, Warmups DEF Configuration, AllWarmup

LEMMA StartMoves ==
  ASSUME Configuration, NEW r \in Rank, Position(r), phase[r] = "init",
         LoopRow(r, IF NumWarmup(r) = 0 THEN AfterWarmup(r) ELSE "warmup", k[r], half[r])
  PROVE  /\ Position(r)' /\ ~half[r] /\ ~half'[r] /\ phase'[r] \in {"warmup", "steady"}
         /\ Ran("F", r) = 0 /\ Wanted("F", r) = 0 /\ Sent("F", r) = 0
         /\ Ran("B", r) = 0 /\ Wanted("B", r) = 0 /\ Sent("B", r) = 0
         /\ Ran("F", r)' = 0 /\ Wanted("F", r)' = 1 /\ Sent("F", r)' = 0
         /\ Ran("B", r)' = 0 /\ Wanted("B", r)' = (IF NumWarmup(r) = 0 THEN 1 ELSE 0) /\ Sent("B", r)' = 0
         /\ \A c : ~Filed(r, c) /\ ~GradFiled(r, c)
         /\ \A c : Filed(r, c)' <=> c = ForwardChunk(0)
         /\ \A c : GradFiled(r, c)' <=> NumWarmup(r) = 0 /\ c = BackwardChunk(0)
<1>. DEFINE w == NumWarmup(r)
            rem == NumRemaining(r)
<1>1. /\ Total \in Nat \ {0} /\ w \in 0 .. Total /\ rem \in 0 .. Total /\ w + rem = Total
      /\ ForwardOnly \/ AllWarmup => w = Total
      /\ ForwardOnly \in BOOLEAN /\ AllWarmup \in BOOLEAN
  BY Loop
<1>2. k[r] = 0 /\ ~half[r] /\ half[r] \in BOOLEAN
  BY DEF Position
<1>3. /\ phase'[r] = (IF w = 0 THEN "steady" ELSE "warmup") /\ k'[r] = 0 /\ half'[r] = half[r]
      /\ w = 0 => ~ForwardOnly /\ ~AllWarmup
  BY <1>1, <1>2 DEF LoopRow, AfterWarmup
<1>. HIDE DEF w, rem, Total
<1>4. Position(r)'
  BY <1>1, <1>2, <1>3 DEF Position, w, rem
<1>5. /\ Ran("F", r) = 0 /\ Wanted("F", r) = 0 /\ Sent("F", r) = 0
      /\ Ran("B", r) = 0 /\ Wanted("B", r) = 0 /\ Sent("B", r) = 0
  BY <1>2 DEF Ran, Wanted, Sent, Halfway
<1>6. Ran("F", r)' = 0 /\ Ran("B", r)' = 0
  BY <1>1, <1>2, <1>3 DEF Ran, w
<1>7. Sent("F", r)' = 0 /\ Sent("B", r)' = 0 /\ Wanted("F", r)' = 1
  BY <1>1, <1>2, <1>3, <1>6 DEF Sent, Halfway, Wanted, NextOf
<1>8. Wanted("B", r)' = (IF w = 0 THEN 1 ELSE 0)
  BY <1>1, <1>2, <1>3, <1>6 DEF Wanted, NoGradYet, NextOf
<1>9. /\ \A c : ~Filed(r, c) /\ ~GradFiled(r, c)
      /\ \A c : Filed(r, c)' <=> c = ForwardChunk(0)
      /\ \A c : GradFiled(r, c)' <=> w = 0 /\ c = BackwardChunk(0)
  BY <1>1, <1>2, <1>3, <1>6 DEF Filed, GradFiled, NoGradYet
<1>. QED BY <1>2, <1>3, <1>4, <1>5, <1>6, <1>7, <1>8, <1>9 DEF w

LEMMA WarmupMoves ==
  ASSUME Configuration, NEW r \in Rank, Position(r), phase[r] = "warmup", NEW last, last = LastWarmup(r),
         LoopRow(r, IF last THEN AfterWarmup(r) ELSE phase[r], IF last THEN 0 ELSE k[r] + 1, half[r]),
         NEW n, n = k[r], NEW first, first = (last /\ ~ForwardOnly /\ ~AllWarmup)
  PROVE  /\ Position(r)' /\ ~half[r] /\ ~half'[r] /\ n \in 0 .. Total - 1 /\ phase'[r] \notin {"init", "done"}
         /\ Ran("F", r) = n /\ Wanted("F", r) = n + 1 /\ Sent("F", r) = n
         /\ Ran("B", r) = 0 /\ Wanted("B", r) = 0 /\ Sent("B", r) = 0
         /\ Ran("F", r)' = n + 1 /\ Wanted("F", r)' = NextOf(n + 1) /\ Sent("F", r)' = n + 1
         /\ Ran("B", r)' = 0 /\ Wanted("B", r)' = (IF first THEN 1 ELSE 0) /\ Sent("B", r)' = 0
         /\ \A c : Filed(r, c) <=> c = ForwardChunk(n)
         /\ \A c : ~GradFiled(r, c)
         /\ \A c : Filed(r, c)' <=> c = ForwardChunk(n + 1)
         /\ \A c : GradFiled(r, c)' <=> first /\ c = BackwardChunk(0)
<1>. DEFINE w == NumWarmup(r)
            rem == NumRemaining(r)
<1>1. /\ Total \in Nat \ {0} /\ w \in 0 .. Total /\ rem \in 0 .. Total /\ w + rem = Total
      /\ ForwardOnly \/ AllWarmup => w = Total
      /\ ~ForwardOnly /\ ~AllWarmup => w < Total
      /\ ForwardOnly \in BOOLEAN /\ AllWarmup \in BOOLEAN
  BY Loop
<1>2. k[r] = n /\ n \in 0 .. Total /\ n < w /\ ~half[r] /\ half[r] \in BOOLEAN
  BY DEF Position
<1>3. last <=> n = w - 1
  BY <1>2 DEF LastWarmup
<1>4. /\ phase'[r] = (IF ~last THEN "warmup" ELSE IF first THEN "steady" ELSE IF ForwardOnly THEN "finish" ELSE "drain")
      /\ k'[r] = (IF last THEN 0 ELSE n + 1) /\ half'[r] = half[r]
      /\ first => last /\ ~ForwardOnly /\ ~AllWarmup /\ w < Total
      /\ last /\ ~first => w = Total /\ (~ForwardOnly => AllWarmup)
  <2>. HIDE DEF w
  <2>1. /\ first => last /\ ~ForwardOnly /\ ~AllWarmup /\ w < Total
        /\ last /\ ~first => w = Total /\ (~ForwardOnly => AllWarmup)
    BY <1>1
  <2>2. AfterWarmup(r) = IF rem > 0 THEN "steady" ELSE IF ForwardOnly THEN "finish" ELSE "drain"
    BY DEF AfterWarmup
  <2>. HIDE DEF rem
  <2>3. last => AfterWarmup(r) = IF first THEN "steady" ELSE IF ForwardOnly THEN "finish" ELSE "drain"
    <3>1. CASE first
      BY <1>1, <2>1, <2>2, <3>1
    <3>2. CASE ~first
      BY <1>1, <2>1, <2>2, <3>2
    <3>. QED BY <3>1, <3>2
  <2>4. /\ phase'[r] = (IF last THEN AfterWarmup(r) ELSE phase[r])
        /\ k'[r] = (IF last THEN 0 ELSE k[r] + 1) /\ half'[r] = half[r]
    BY DEF LoopRow
  <2>. QED BY <1>2, <2>1, <2>3, <2>4
<1>. HIDE DEF w, rem, Total
<1>5. Position(r)'
  BY <1>1, <1>2, <1>3, <1>4 DEF Position, w, rem
<1>6. Ran("F", r) = n /\ Ran("B", r) = 0 /\ n \in Nat /\ n < Total
  BY <1>1, <1>2 DEF Ran
<1>7. Wanted("F", r) = n + 1 /\ Sent("F", r) = n /\ Wanted("B", r) = 0 /\ Sent("B", r) = 0
  BY <1>2, <1>6 DEF Wanted, Sent, Halfway, NoGradYet, NextOf
<1>8. Ran("F", r)' = n + 1 /\ Ran("B", r)' = 0
  BY <1>1, <1>2, <1>3, <1>4 DEF Ran, w, rem
<1>9. Sent("F", r)' = n + 1 /\ Sent("B", r)' = 0 /\ Wanted("F", r)' = NextOf(n + 1)
  BY <1>2, <1>4, <1>8 DEF Sent, Halfway, Wanted
<1>10. Wanted("B", r)' = (IF first THEN 1 ELSE 0)
  BY <1>1, <1>4, <1>8 DEF Wanted, NoGradYet, NextOf
<1>11. /\ \A c : Filed(r, c) <=> c = ForwardChunk(n)
       /\ \A c : ~GradFiled(r, c)
  BY <1>2, <1>6 DEF Filed, GradFiled, NoGradYet
<1>12. /\ \A c : Filed(r, c)' <=> c = ForwardChunk(n + 1)
       /\ \A c : GradFiled(r, c)' <=> first /\ c = BackwardChunk(0)
  BY <1>1, <1>2, <1>4, <1>8 DEF Filed, GradFiled, NoGradYet, w
<1>. QED BY <1>1, <1>2, <1>4, <1>5, <1>6, <1>7, <1>8, <1>9, <1>10, <1>11, <1>12

LEMMA SteadyForwardMoves ==
  ASSUME Configuration, NEW r \in Rank, Position(r), phase[r] = "steady", ~half[r],
         LoopRow(r, phase[r], k[r], TRUE), NEW n, n = NumWarmup(r) + k[r]
  PROVE  /\ Position(r)' /\ half'[r] /\ n \in 0 .. Total - 1 /\ ~ForwardOnly /\ k[r] \in 0 .. Total - 1
         /\ Ran("F", r) = n /\ Wanted("F", r) = n + 1 /\ Sent("F", r) = n
         /\ Ran("B", r) = k[r] /\ Wanted("B", r) = k[r] + 1 /\ Sent("B", r) = k[r]
         /\ Ran("F", r)' = n + 1
         /\ Wanted("F", r)' = (IF P2P = "overlap" THEN NextOf(n + 1) ELSE n + 1)
         /\ Sent("F", r)' = (IF P2P = "overlap" THEN n + 1 ELSE n)
         /\ Ran("B", r)' = k[r] /\ Wanted("B", r)' = k[r] + 1 /\ Sent("B", r)' = k[r]
         /\ \A c : Filed(r, c) <=> (c = ForwardChunk(n) /\ (FirstStage(r, c) => k[r] = 0))
         /\ \A c : ~Filed(r, c)'
         /\ \A c : GradFiled(r, c)' <=> GradFiled(r, c)
<1>. DEFINE w == NumWarmup(r)
            rem == NumRemaining(r)
<1>1. /\ Total \in Nat \ {0} /\ w \in 0 .. Total /\ rem \in 0 .. Total /\ w + rem = Total
      /\ ForwardOnly \/ AllWarmup => w = Total
      /\ ForwardOnly \in BOOLEAN /\ AllWarmup \in BOOLEAN
  BY Loop
<1>2. k[r] \in 0 .. Total /\ k[r] < rem /\ n = w + k[r] /\ half[r] \in BOOLEAN /\ ~ForwardOnly
  BY DEF Position
<1>3. phase'[r] = "steady" /\ k'[r] = k[r] /\ half'[r] = TRUE
  BY DEF LoopRow
<1>. HIDE DEF w, rem, Total
<1>4. n \in 0 .. Total - 1 /\ n \in Nat /\ k[r] \in 0 .. Total - 1 /\ w # Total
  BY <1>1, <1>2
<1>5. Position(r)'
  BY <1>2, <1>3 DEF Position, rem
<1>6. Ran("F", r) = n /\ Ran("B", r) = k[r] /\ Ran("F", r)' = n + 1 /\ Ran("B", r)' = k[r]
  BY <1>1, <1>2, <1>3, <1>4 DEF Ran, w
<1>7. ~NoGradYet(r) /\ ~NoGradYet(r)' /\ ~Halfway(r) /\ (Halfway(r)' <=> P2P # "overlap")
  BY <1>2, <1>3 DEF NoGradYet, Halfway
<1>8. /\ Wanted("F", r) = n + 1 /\ Sent("F", r) = n /\ Wanted("B", r) = k[r] + 1 /\ Sent("B", r) = k[r]
      /\ Wanted("B", r)' = k[r] + 1 /\ Sent("B", r)' = k[r]
  BY <1>1, <1>3, <1>4, <1>6, <1>7 DEF Wanted, Sent, NextOf
<1>9. /\ Wanted("F", r)' = (IF P2P = "overlap" THEN NextOf(n + 1) ELSE n + 1)
      /\ Sent("F", r)' = (IF P2P = "overlap" THEN n + 1 ELSE n)
  BY <1>3, <1>4, <1>6, <1>7 DEF Wanted, Sent
<1>10. /\ \A c : Filed(r, c) <=> (c = ForwardChunk(n) /\ (FirstStage(r, c) => k[r] = 0))
       /\ \A c : ~Filed(r, c)'
  BY <1>3, <1>4, <1>6 DEF Filed, w
<1>11. \A c : GradFiled(r, c)' <=> GradFiled(r, c)
  BY <1>3, <1>6, <1>7 DEF GradFiled
<1>. QED BY <1>2, <1>3, <1>4, <1>5, <1>6, <1>8, <1>9, <1>10, <1>11

SteadyBackwardMoved(r, n, g, last) ==
  /\ Position(r)' /\ ~half'[r] /\ g \in 1 .. Total /\ ~ForwardOnly /\ n \in 0 .. Total - 1
  /\ phase'[r] \notin {"init", "done"}
  /\ last <=> g = Total
  /\ Ran("F", r) = g /\ Ran("F", r)' = g
  /\ Wanted("F", r) = (IF P2P = "overlap" THEN NextOf(g) ELSE g) /\ Wanted("F", r)' = NextOf(g)
  /\ Sent("F", r) = (IF P2P = "overlap" THEN g ELSE g - 1) /\ Sent("F", r)' = g
  /\ Ran("B", r) = n /\ Wanted("B", r) = n + 1 /\ Sent("B", r) = n
  /\ Ran("B", r)' = n + 1 /\ Wanted("B", r)' = NextOf(n + 1) /\ Sent("B", r)' = n + 1
  /\ \A c : ~Filed(r, c)
  /\ \A c : Filed(r, c)' <=> (~last /\ c = ForwardChunk(g) /\ ~FirstStage(r, c))
  /\ \A c : GradFiled(r, c) <=> c = BackwardChunk(n)
  /\ \A c : GradFiled(r, c)' <=> c = BackwardChunk(n + 1)

LEMMA SteadyBackwardMoves ==
  ASSUME Configuration, NEW r \in Rank, Position(r), phase[r] = "steady", half[r],
         NEW last, last = (k[r] = NumRemaining(r) - 1),
         LoopRow(r, IF last THEN "drain" ELSE phase[r], IF last THEN 0 ELSE k[r] + 1, FALSE),
         NEW n, n = k[r], NEW g, g = NumWarmup(r) + k[r] + 1
  PROVE  SteadyBackwardMoved(r, n, g, last)
<1>. DEFINE w == NumWarmup(r)
            rem == NumRemaining(r)
<1>1. /\ Total \in Nat \ {0} /\ w \in 0 .. Total /\ rem \in 0 .. Total /\ w + rem = Total
      /\ ForwardOnly \/ AllWarmup => w = Total
      /\ ForwardOnly \in BOOLEAN /\ AllWarmup \in BOOLEAN
  BY Loop
<1>2. k[r] = n /\ n \in 0 .. Total /\ n < rem /\ g = w + n + 1 /\ half[r] = TRUE /\ ~ForwardOnly /\ (last <=> n = rem - 1)
  BY DEF Position
<1>3. /\ phase'[r] = (IF last THEN "drain" ELSE "steady") /\ k'[r] = (IF last THEN 0 ELSE n + 1) /\ half'[r] = FALSE
  BY <1>2 DEF LoopRow
<1>. HIDE DEF w, rem, Total
<1>4. g \in 1 .. Total /\ g \in Nat /\ n \in 0 .. Total - 1 /\ w # Total /\ ~AllWarmup /\ (last <=> g = Total)
  BY <1>1, <1>2
<1>5. Position(r)'
  <2>1. CASE last
    <3>1. ~half'[r] /\ half'[r] \in BOOLEAN
      BY <1>3
    <3>2. phase'[r] = "drain" /\ k'[r] = 0
      BY <1>3, <2>1
    <3>3. ~ForwardOnly /\ 0 \in 0 .. Total
      BY <1>1, <1>2
    <3>. QED BY <3>1, <3>2, <3>3 DEF Position
  <2>2. CASE ~last
    <3>1. n + 1 < rem /\ n + 1 \in 0 .. Total
      BY <1>1, <1>2, <2>2
    <3>. QED BY <1>1, <1>2, <1>3, <2>2, <3>1 DEF Position, rem
  <2>. QED BY <2>1, <2>2
<1>6. Ran("F", r) = g /\ Ran("B", r) = n
  BY <1>1, <1>2, <1>3, <1>4 DEF Ran, w
<1>7. Ran("F", r)' = g /\ Ran("B", r)' = n + 1
  BY <1>1, <1>2, <1>3, <1>4 DEF Ran, w, rem
<1>8. ~NoGradYet(r) /\ ~NoGradYet(r)' /\ (Halfway(r) <=> P2P # "overlap") /\ ~Halfway(r)'
  BY <1>2, <1>3, <1>4 DEF NoGradYet, Halfway
<1>9. /\ Wanted("F", r) = (IF P2P = "overlap" THEN NextOf(g) ELSE g)
      /\ Sent("F", r) = (IF P2P = "overlap" THEN g ELSE g - 1)
      /\ Wanted("B", r) = n + 1 /\ Sent("B", r) = n
  BY <1>1, <1>4, <1>6, <1>8 DEF Wanted, Sent, NextOf
<1>10. /\ Wanted("F", r)' = NextOf(g) /\ Sent("F", r)' = g
       /\ Wanted("B", r)' = NextOf(n + 1) /\ Sent("B", r)' = n + 1
  BY <1>3, <1>7, <1>8 DEF Wanted, Sent
<1>11. /\ \A c : ~Filed(r, c)
       /\ \A c : GradFiled(r, c) <=> c = BackwardChunk(n)
  BY <1>2, <1>6, <1>8 DEF Filed, GradFiled
<1>12. /\ \A c : Filed(r, c)' <=> (~last /\ c = ForwardChunk(g) /\ ~FirstStage(r, c))
       /\ \A c : GradFiled(r, c)' <=> c = BackwardChunk(n + 1)
  BY <1>2, <1>3, <1>4, <1>7, <1>8 DEF Filed, GradFiled, w
<1>. QED BY <1>2, <1>3, <1>4, <1>5, <1>6, <1>7, <1>9, <1>10, <1>11, <1>12 DEF SteadyBackwardMoved

LEMMA DrainMoves ==
  ASSUME Configuration, NEW r \in Rank, Position(r), phase[r] = "drain",
         LoopRow(r, IF NumRemaining(r) = Total THEN "finish" ELSE "cooldown", NumRemaining(r), half[r]),
         NEW n, n = NumRemaining(r)
  PROVE  /\ Position(r)' /\ ~half[r] /\ ~half'[r] /\ n \in 0 .. Total /\ ~ForwardOnly
         /\ phase'[r] \notin {"init", "done"} /\ (AllWarmup => n = 0)
         /\ \A d \in Pass : Ran(d, r)' = Ran(d, r) /\ Sent(d, r)' = Sent(d, r)
         /\ Wanted("F", r)' = Wanted("F", r) /\ Ran("B", r) = n
         /\ Wanted("B", r) = (IF AllWarmup THEN 0 ELSE NextOf(n)) /\ Wanted("B", r)' = NextOf(n)
         /\ \A c : Filed(r, c)' <=> Filed(r, c)
         /\ \A c : GradFiled(r, c) <=> (~AllWarmup /\ c = BackwardChunk(n))
         /\ \A c : GradFiled(r, c)' <=> c = BackwardChunk(n)
<1>. DEFINE w == NumWarmup(r)
<1>1. /\ Total \in Nat \ {0} /\ w \in 0 .. Total /\ n \in 0 .. Total /\ w + n = Total
      /\ ForwardOnly \/ AllWarmup => w = Total
      /\ ForwardOnly \in BOOLEAN /\ AllWarmup \in BOOLEAN
  BY Loop
<1>2. k[r] = 0 /\ ~half[r] /\ half[r] \in BOOLEAN /\ ~ForwardOnly
  BY DEF Position
<1>3. phase'[r] = (IF n = Total THEN "finish" ELSE "cooldown") /\ k'[r] = n /\ half'[r] = half[r]
  BY DEF LoopRow
<1>. HIDE DEF w, Total
<1>4. Position(r)' /\ (AllWarmup => n = 0)
  BY <1>1, <1>2, <1>3 DEF Position
<1>5. Ran("F", r) = Total /\ Ran("F", r)' = Total /\ Ran("B", r) = n /\ Ran("B", r)' = n
  BY <1>1, <1>2, <1>3 DEF Ran
<1>6. (NoGradYet(r) <=> AllWarmup) /\ ~NoGradYet(r)' /\ ~Halfway(r) /\ ~Halfway(r)'
  BY <1>2, <1>3 DEF NoGradYet, Halfway
<1>7. /\ Wanted("F", r)' = Wanted("F", r) /\ \A d \in Pass : Sent(d, r)' = Sent(d, r)
      /\ Wanted("B", r) = (IF AllWarmup THEN 0 ELSE NextOf(n)) /\ Wanted("B", r)' = NextOf(n)
  BY <1>3, <1>5, <1>6 DEF Wanted, Sent, Pass
<1>8. /\ \A c : Filed(r, c)' <=> Filed(r, c)
      /\ \A c : GradFiled(r, c) <=> (~AllWarmup /\ c = BackwardChunk(n))
      /\ \A c : GradFiled(r, c)' <=> c = BackwardChunk(n)
  BY <1>2, <1>3, <1>5, <1>6 DEF Filed, GradFiled
<1>. QED BY <1>1, <1>2, <1>3, <1>4, <1>5, <1>7, <1>8 DEF Pass

LEMMA CooldownMoves ==
  ASSUME Configuration, NEW r \in Rank, Position(r), phase[r] = "cooldown", NEW last, last = LastCooldown(r),
         LoopRow(r, IF last THEN "finish" ELSE phase[r], IF last THEN 0 ELSE k[r] + 1, half[r]),
         NEW n, n = k[r]
  PROVE  /\ Position(r)' /\ ~half[r] /\ ~half'[r] /\ n \in 0 .. Total - 1 /\ ~ForwardOnly
         /\ phase'[r] \notin {"init", "done"}
         /\ Ran("F", r)' = Ran("F", r) /\ Sent("F", r)' = Sent("F", r) /\ Wanted("F", r)' = Wanted("F", r)
         /\ Ran("F", r) = Total
         /\ Ran("B", r) = n /\ Wanted("B", r) = n + 1 /\ Sent("B", r) = n
         /\ Ran("B", r)' = n + 1 /\ Wanted("B", r)' = NextOf(n + 1) /\ Sent("B", r)' = n + 1
         /\ \A c : Filed(r, c)' <=> Filed(r, c)
         /\ \A c : GradFiled(r, c) <=> c = BackwardChunk(n)
         /\ \A c : GradFiled(r, c)' <=> c = BackwardChunk(n + 1)
<1>. DEFINE w == NumWarmup(r)
            rem == NumRemaining(r)
<1>1. /\ Total \in Nat \ {0} /\ w \in 0 .. Total /\ rem \in 0 .. Total /\ w + rem = Total
  BY Loop
<1>2. k[r] = n /\ n \in 0 .. Total /\ rem <= n /\ n < Total /\ ~half[r] /\ half[r] \in BOOLEAN /\ ~ForwardOnly
  BY DEF Position
<1>3. /\ phase'[r] = (IF n = Total - 1 THEN "finish" ELSE "cooldown")
      /\ k'[r] = (IF n = Total - 1 THEN 0 ELSE n + 1) /\ half'[r] = half[r]
  BY <1>2 DEF LoopRow, LastCooldown
<1>. HIDE DEF w, rem, Total
<1>4. Position(r)' /\ n \in 0 .. Total - 1
  BY <1>1, <1>2, <1>3 DEF Position, rem
<1>5. Ran("F", r) = Total /\ Ran("F", r)' = Total /\ Ran("B", r) = n /\ Ran("B", r)' = n + 1
  BY <1>1, <1>2, <1>3 DEF Ran
<1>6. ~NoGradYet(r) /\ ~NoGradYet(r)' /\ ~Halfway(r) /\ ~Halfway(r)'
  BY <1>2, <1>3 DEF NoGradYet, Halfway
<1>7. /\ Wanted("F", r)' = Wanted("F", r) /\ Sent("F", r)' = Sent("F", r) /\ Sent("B", r) = n /\ Sent("B", r)' = n + 1
      /\ Wanted("B", r) = n + 1 /\ Wanted("B", r)' = NextOf(n + 1)
  BY <1>1, <1>2, <1>3, <1>5, <1>6 DEF Wanted, Sent, NextOf
<1>8. /\ \A c : Filed(r, c)' <=> Filed(r, c)
      /\ \A c : GradFiled(r, c) <=> c = BackwardChunk(n)
      /\ \A c : GradFiled(r, c)' <=> c = BackwardChunk(n + 1)
  BY <1>2, <1>3, <1>5, <1>6 DEF Filed, GradFiled
<1>. QED BY <1>2, <1>3, <1>4, <1>5, <1>7, <1>8

LEMMA FinishMoves ==
  ASSUME Configuration, NEW r \in Rank, Position(r), phase[r] = "finish", LoopRow(r, "done", k[r], half[r])
  PROVE  /\ Position(r)' /\ ~half[r] /\ ~half'[r]
         /\ \A d \in Pass : Ran(d, r)' = Ran(d, r) /\ Sent(d, r)' = Sent(d, r) /\ Wanted(d, r)' = Wanted(d, r)
         /\ Ran("F", r) = Total /\ (~ForwardOnly => Ran("B", r) = Total)
         /\ \A c : Filed(r, c)' <=> Filed(r, c)
         /\ \A c : GradFiled(r, c)' <=> GradFiled(r, c)
<1>1. Total \in Nat \ {0} /\ ForwardOnly \in BOOLEAN
  BY Loop
<1>2. k[r] \in 0 .. Total /\ ~half[r] /\ half[r] \in BOOLEAN
  BY DEF Position
<1>3. phase'[r] = "done" /\ k'[r] = k[r] /\ half'[r] = half[r]
  BY DEF LoopRow
<1>. HIDE DEF Total
<1>4. Position(r)'
  BY <1>1, <1>2, <1>3 DEF Position
<1>5. /\ Ran("F", r) = Total /\ Ran("F", r)' = Total
      /\ Ran("B", r) = (IF ForwardOnly THEN 0 ELSE Total) /\ Ran("B", r)' = (IF ForwardOnly THEN 0 ELSE Total)
  BY <1>1, <1>2, <1>3 DEF Ran
<1>6. (NoGradYet(r) <=> ForwardOnly) /\ (NoGradYet(r)' <=> ForwardOnly) /\ ~Halfway(r) /\ ~Halfway(r)'
  BY <1>2, <1>3 DEF NoGradYet, Halfway
<1>7. \A d \in Pass : Sent(d, r)' = Sent(d, r) /\ Wanted(d, r)' = Wanted(d, r)
  BY <1>3, <1>5, <1>6 DEF Wanted, Sent, Pass
<1>8. /\ \A c : Filed(r, c)' <=> Filed(r, c)
      /\ \A c : GradFiled(r, c)' <=> GradFiled(r, c)
  BY <1>2, <1>3, <1>5, <1>6 DEF Filed, GradFiled
<1>. QED BY <1>2, <1>3, <1>4, <1>5, <1>7, <1>8 DEF Pass

-------------------------------------------------------------------------------
(* What a forward and a backward step make of the counts and the lists           *)

RunsForward(r, n, c) ==
  /\ Counted(r)' /\ Losses(r)' /\ clean'[r] = TRUE /\ c \in Chunk
  /\ Over(Chunk, output_tensors'[r])
  /\ \A e \in Chunk : /\ output_tensors'[r][e] = Stretch(Outputs(r, e), Oldest(r, e)', fwd'[r][e])
                      /\ fwd'[r][e] = Count(n + 1, e)
                      /\ e # c => fwd'[r][e] = fwd[r][e] /\ Oldest(r, e)' = Oldest(r, e)
                      /\ fwd'[r][e] \in 0 .. M /\ Oldest(r, e)' \in 0 .. M /\ Oldest(r, e)' <= fwd'[r][e]
  /\ ForwardInputs(r, c) = Stretch(Buffers("F", r, c), Oldest(r, c)', fwd'[r][c])
  /\ output_tensor'[r] = IF Gives("F", r, n) THEN Yields("F", r, n) ELSE None
  /\ output_tensor'[r] \in Tensor \cup {None}

LEMMA ForwardLocal ==
  ASSUME Configuration, NEW r \in Rank, Local(r), Received("F", r), ~half[r],
         NEW n, n = Ran("F", r), n < Total, NEW c, c = ForwardChunk(n),
         Filed(r, c) \/ FirstStage(r, c), Len(gotF[r]) = Takings("F", r, n + 1),
         ForwardRow(r, c), bwd'[r] = bwd[r], Ran("F", r)' = n + 1, Ran("B", r)' = Ran("B", r)
  PROVE  RunsForward(r, n, c)
<1>. DEFINE m == fwd[r][c]
<1>0. /\ n \in 0 .. Total - 1 /\ n \in 0 .. Total /\ n \in Int /\ n \in Nat /\ "F" \in Pass /\ M \in Nat /\ Total \in Nat
      /\ n + 1 \in 0 .. Total /\ ForwardOnly \in BOOLEAN /\ Position(r) /\ Counted(r) /\ Losses(r) /\ Lists(r) /\ clean[r] = TRUE
  <2>1. Position(r) /\ Counted(r) /\ Losses(r) /\ Lists(r) /\ clean[r] = TRUE /\ "F" \in Pass
    BY DEF Local, Pass
  <2>2. M \in Nat /\ Total \in Nat /\ ForwardOnly \in BOOLEAN
    BY Basics DEF Configuration
  <2>3. n \in 0 .. Total
    BY <2>1, RanIs
  <2>. QED BY <2>1, <2>2, <2>3
<1>1. /\ c \in Chunk /\ m = Microbatch(n) /\ m \in 0 .. M - 1
      /\ ForwardOutput(r, c) = Yields("F", r, n)
      /\ ForwardInputs(r, c) = Stretch(Buffers("F", r, c), Before(r, c), m + 1)
      /\ ForwardOutputs(r, c) = Stretch(Outputs(r, c), Before(r, c), m + 1)
  BY ForwardRuns
<1>2. /\ Yields("F", r, n) \in Tensor /\ Yields("F", r, n) # Mixed /\ Yields("F", r, n) = Act(VStage(r, c), m)
      /\ (LastStage(r, c) <=> ~Gives("F", r, n)) /\ Gives("F", r, n) \in BOOLEAN
  BY <1>0, <1>1, YieldsComputed, Ends, Tensors, TakingsStep
<1>3. /\ fwd[r] = [e \in Chunk |-> Count(n, e)] /\ fwd'[r] = [fwd[r] EXCEPT ![c] = @ + 1]
      /\ output_tensors'[r] = [output_tensors[r] EXCEPT ![c] = ForwardOutputs(r, c)]
      /\ Over(Chunk, output_tensors[r])
  BY <1>0 DEF Counted, ForwardRow, Local, ArraysOf
<1>4. \A e \in Chunk : /\ fwd'[r][e] = fwd[r][e] + (IF e = c THEN 1 ELSE 0)
                       /\ fwd'[r][e] = Count(n + 1, e) /\ fwd[r][e] = Count(n, e)
                       /\ fwd[r][e] \in 0 .. M /\ bwd[r][e] \in 0 .. M /\ bwd[r][e] <= fwd[r][e]
                       /\ fwd'[r][e] \in 0 .. M /\ bwd'[r][e] = bwd[r][e]
  <2>. SUFFICES ASSUME NEW e \in Chunk
                PROVE  /\ fwd'[r][e] = fwd[r][e] + (IF e = c THEN 1 ELSE 0)
                       /\ fwd'[r][e] = Count(n + 1, e) /\ fwd[r][e] = Count(n, e)
                       /\ fwd[r][e] \in 0 .. M /\ bwd[r][e] \in 0 .. M /\ bwd[r][e] <= fwd[r][e]
                       /\ fwd'[r][e] \in 0 .. M /\ bwd'[r][e] = bwd[r][e]
    OBVIOUS
  <2>1. fwd[r][e] = Count(n, e) /\ fwd[r][e] \in 0 .. M /\ bwd[r][e] \in 0 .. M /\ bwd[r][e] <= fwd[r][e]
    BY <1>0, <1>3, CountsAre
  <2>2. Count(n + 1, e) = Count(n, e) + (IF e = c THEN 1 ELSE 0)
    BY <1>0, CountStep
  <2>3. fwd'[r][e] = fwd[r][e] + (IF e = c THEN 1 ELSE 0)
    BY <1>0, <1>1, <1>3, <2>1
  <2>4. Count(n + 1, e) \in 0 .. M
    BY <1>0, CountBounds
  <2>. QED BY <2>1, <2>2, <2>3, <2>4
<1>5. Counted(r)'
  <2>1. fwd'[r] = [e \in Chunk |-> Count(n + 1, e)]
    BY <1>1, <1>3, <1>4
  <2>2. \A e \in Chunk : bwd'[r][e] <= fwd'[r][e]
    BY <1>0, <1>4
  <2>. QED BY <1>0, <2>1, <2>2 DEF Counted
<1>6. /\ \A e \in Chunk : e # c => fwd'[r][e] = fwd[r][e] /\ Oldest(r, e)' = Oldest(r, e)
      /\ fwd'[r][c] = m + 1 /\ Oldest(r, c)' = Before(r, c)
      /\ \A e \in Chunk : Oldest(r, e)' \in 0 .. M /\ Oldest(r, e)' <= fwd'[r][e]
  <2>1. \A e \in Chunk : e # c => fwd'[r][e] = fwd[r][e]
    BY <1>0, <1>4
  <2>2. fwd'[r][c] = m + 1 /\ bwd'[r][c] = bwd[r][c]
    BY <1>1, <1>4
  <2>3. \A e \in Chunk : Oldest(r, e)' = IF ForwardOnly THEN fwd'[r][e] ELSE bwd[r][e]
    BY <1>4 DEF Oldest
  <2>4. \A e \in Chunk : Oldest(r, e) = IF ForwardOnly THEN fwd[r][e] ELSE bwd[r][e]
    BY DEF Oldest
  <2>5. Before(r, c) = IF ForwardOnly THEN m + 1 ELSE bwd[r][c]
    BY DEF Before
  <2>6. \A e \in Chunk : Oldest(r, e)' \in 0 .. M /\ Oldest(r, e)' <= fwd'[r][e]
    <3>. SUFFICES ASSUME NEW e \in Chunk PROVE Oldest(r, e)' \in 0 .. M /\ Oldest(r, e)' <= fwd'[r][e]
      OBVIOUS
    <3>1. bwd[r][e] <= fwd'[r][e]
      BY <1>0, <1>4
    <3>. QED BY <1>0, <1>4, <2>3, <3>1
  <2>. HIDE DEF m
  <2>. QED BY <1>1, <2>1, <2>2, <2>3, <2>4, <2>5, <2>6
<1>7. \A e \in Chunk : output_tensors'[r][e] = Stretch(Outputs(r, e), Oldest(r, e)', fwd'[r][e])
  <2>. SUFFICES ASSUME NEW e \in Chunk
                PROVE  output_tensors'[r][e] = Stretch(Outputs(r, e), Oldest(r, e)', fwd'[r][e])
    OBVIOUS
  <2>1. CASE e = c
    BY <1>1, <1>3, <1>6, <2>1 DEF Over
  <2>2. CASE e # c
    <3>1. output_tensors'[r][e] = output_tensors[r][e]
      BY <1>1, <1>3, <2>2 DEF Over
    <3>2. output_tensors[r][e] = Stretch(Outputs(r, e), Oldest(r, e), fwd[r][e])
      BY <1>0 DEF Lists, OutputLists
    <3>. QED BY <1>6, <2>2, <3>1, <3>2
  <2>. QED BY <2>1, <2>2
<1>8. Losses(r)'
  <2>. DEFINE e == C - 1
  <2>1. CASE LastStage(r, c)
    <3>1. LastRank(r) /\ c = C - 1 /\ losses'[r] = Append(losses[r], Act(VStage(r, c), m))
      BY <1>1, <1>2, <2>1 DEF LastStage, ForwardRow
    <3>2. losses[r] = Stretch(Outputs(r, c), 0, m)
      BY <1>0, <3>1 DEF Losses
    <3>3. Outputs(r, c)[m] = Act(VStage(r, c), m) /\ Outputs(r, c) \in [0 .. M -> {Act(VStage(r, c), i) : i \in 0 .. M}]
      BY <1>0, <1>1, BuffersTyped DEF Outputs
    <3>4. Append(Stretch(Outputs(r, c), 0, m), Outputs(r, c)[m]) = Stretch(Outputs(r, c), 0, m + 1)
      <4>. DEFINE S == {Act(VStage(r, c), i) : i \in 0 .. M}
                  g == Outputs(r, c)
      <4>1. M \in Nat /\ m \in 0 .. M /\ 0 \in 0 .. M /\ 0 <= m /\ g \in [0 .. M -> S]
        BY <1>0, <1>1, <3>3
      <4>. HIDE DEF S, g, m
      <4>2. Append(Stretch(g, 0, m), g[m]) = Stretch(g, 0, m + 1)
        BY ONLY <4>1, StretchMore
      <4>. QED BY <4>2 DEF g
    <3>. QED BY <1>6, <3>1, <3>2, <3>3, <3>4 DEF Losses
  <2>2. CASE ~LastStage(r, c)
    <3>1. losses'[r] = losses[r] /\ (LastRank(r) => c # C - 1)
      BY <2>2 DEF LastStage, ForwardRow
    <3>2. C - 1 \in Chunk
      BY Basics
    <3>3. LastRank(r) => fwd'[r][C - 1] = fwd[r][C - 1]
      BY <1>6, <3>1, <3>2
    <3>. QED BY <1>0, <3>1, <3>3 DEF Losses
  <2>. QED BY <2>1, <2>2
<1>9. output_tensor'[r] = (IF Gives("F", r, n) THEN Yields("F", r, n) ELSE None) /\ output_tensor'[r] \in Tensor \cup {None}
  BY <1>1, <1>2 DEF ForwardRow
<1>10. clean'[r] = TRUE
  BY <1>0, <1>1, <1>2 DEF ForwardRow
<1>11. Over(Chunk, output_tensors'[r])
  BY <1>3 DEF Over
<1>12. ForwardInputs(r, c) = Stretch(Buffers("F", r, c), Oldest(r, c)', fwd'[r][c])
  BY <1>1, <1>6
<1>. QED BY <1>1, <1>4, <1>5, <1>6, <1>7, <1>8, <1>9, <1>10, <1>11, <1>12 DEF RunsForward

RunsBackward(r, n, c) ==
  /\ Counted(r)' /\ Losses(r)' /\ clean'[r] = TRUE /\ c \in Chunk
  /\ Over(Chunk, output_tensors'[r])
  /\ \A e \in Chunk : /\ output_tensors'[r][e] = Stretch(Outputs(r, e), Oldest(r, e)', fwd'[r][e])
                      /\ bwd'[r][e] = Count(n + 1, C - 1 - e) /\ bwd'[r][e] = Oldest(r, e)'
                      /\ bwd[r][e] = Count(n, C - 1 - e)
                      /\ fwd'[r][e] = fwd[r][e] /\ (e # c => Oldest(r, e)' = Oldest(r, e))
                      /\ fwd'[r][e] \in 0 .. M /\ bwd'[r][e] \in 0 .. M /\ bwd'[r][e] <= fwd'[r][e]
  /\ Tail(input_tensors[r][c]) =
       Stretch(Buffers("F", r, c), Oldest(r, c)', fwd'[r][c] + (IF Filed(r, c) THEN 1 ELSE 0))
  /\ InputGrad(r, c) = IF Gives("B", r, n) THEN Yields("B", r, n) ELSE None
  /\ Tail(Grads(r, c)) = <<>>

LEMMA BackwardLocal ==
  ASSUME Configuration, NEW r \in Rank, Local(r), Received("F", r), Received("B", r), ~ForwardOnly,
         NEW n, n = Ran("B", r), n < Total, NEW c, c = BackwardChunk(n), GradFiled(r, c),
         n + (C - 1) * P < Ran("F", r) \/ Ran("F", r) = Total,
         Len(gotB[r]) = Takings("B", r, n + 1),
         BackwardRow(r, n), fwd'[r] = fwd[r], losses'[r] = losses[r],
         Ran("B", r)' = n + 1, Ran("F", r)' = Ran("F", r)
  PROVE  RunsBackward(r, n, c)
<1>. DEFINE m == bwd[r][c]
<1>0. /\ n \in 0 .. Total - 1 /\ n \in 0 .. Total /\ n \in Int /\ n \in Nat /\ "B" \in Pass /\ M \in Nat /\ Total \in Nat
      /\ n + 1 \in 0 .. Total /\ Position(r) /\ Counted(r) /\ Losses(r) /\ Lists(r) /\ clean[r] = TRUE
      /\ C \in Nat /\ C - 1 \in Chunk
  <2>1. Position(r) /\ Counted(r) /\ Losses(r) /\ Lists(r) /\ clean[r] = TRUE /\ "B" \in Pass
    BY DEF Local, Pass
  <2>2. M \in Nat /\ Total \in Nat /\ C \in Nat /\ C - 1 \in Chunk
    BY Basics
  <2>3. n \in 0 .. Total
    BY <2>1, RanIs
  <2>. QED BY <2>1, <2>2, <2>3
<1>1. /\ c \in Chunk /\ C - 1 - c = ForwardChunk(n) /\ m \in 0 .. M - 1 /\ m < fwd[r][c] /\ Belong(r, c)
      /\ InputGrad(r, c) = IF Gives("B", r, n) THEN Yields("B", r, n) ELSE None
      /\ Tail(input_tensors[r][c]) =
           Stretch(Buffers("F", r, c), m + 1, fwd[r][c] + (IF Filed(r, c) THEN 1 ELSE 0))
      /\ Tail(output_tensors[r][c]) = Stretch(Outputs(r, c), m + 1, fwd[r][c])
      /\ Tail(Grads(r, c)) = <<>>
  BY BackwardRuns
<1>2. /\ bwd[r] = [e \in Chunk |-> Count(n, C - 1 - e)] /\ bwd'[r] = [bwd[r] EXCEPT ![c] = @ + 1]
      /\ output_tensors'[r] = [output_tensors[r] EXCEPT ![c] = Tail(@)]
      /\ Over(Chunk, output_tensors[r])
  BY <1>0 DEF Counted, BackwardRow, Local, ArraysOf
<1>3. \A e \in Chunk : /\ bwd'[r][e] = bwd[r][e] + (IF e = c THEN 1 ELSE 0)
                       /\ bwd'[r][e] = Count(n + 1, C - 1 - e) /\ bwd[r][e] = Count(n, C - 1 - e)
                       /\ fwd[r][e] \in 0 .. M /\ bwd[r][e] \in 0 .. M /\ bwd[r][e] <= fwd[r][e]
                       /\ bwd'[r][e] \in 0 .. M /\ fwd'[r][e] = fwd[r][e]
  <2>. SUFFICES ASSUME NEW e \in Chunk
                PROVE  /\ bwd'[r][e] = bwd[r][e] + (IF e = c THEN 1 ELSE 0)
                       /\ bwd'[r][e] = Count(n + 1, C - 1 - e) /\ bwd[r][e] = Count(n, C - 1 - e)
                       /\ fwd[r][e] \in 0 .. M /\ bwd[r][e] \in 0 .. M /\ bwd[r][e] <= fwd[r][e]
                       /\ bwd'[r][e] \in 0 .. M /\ fwd'[r][e] = fwd[r][e]
    OBVIOUS
  <2>0. C - 1 - e \in Chunk /\ (C - 1 - e = ForwardChunk(n) <=> e = c)
    <3>1. c \in Int /\ e \in Int /\ C - 1 - e \in Chunk
      BY <1>0, <1>1 DEF Chunk
    <3>2. ForwardChunk(n) = C - 1 - c
      BY <1>1
    <3>. HIDE DEF Chunk
    <3>. QED BY <1>0, <3>1, <3>2
  <2>1. bwd[r][e] = Count(n, C - 1 - e) /\ fwd[r][e] \in 0 .. M /\ bwd[r][e] \in 0 .. M /\ bwd[r][e] <= fwd[r][e]
    BY <1>0, <1>2, CountsAre
  <2>2. Count(n + 1, C - 1 - e) = Count(n, C - 1 - e) + (IF e = c THEN 1 ELSE 0)
    BY <1>0, <2>0, CountStep
  <2>3. bwd'[r][e] = bwd[r][e] + (IF e = c THEN 1 ELSE 0)
    BY <1>0, <1>1, <1>2, <2>1
  <2>4. Count(n + 1, C - 1 - e) \in 0 .. M
    BY <1>0, <2>0, CountBounds
  <2>. QED BY <2>1, <2>2, <2>3, <2>4
<1>4. \A e \in Chunk : bwd'[r][e] <= fwd'[r][e]
  <2>. SUFFICES ASSUME NEW e \in Chunk PROVE bwd'[r][e] <= fwd'[r][e]
    OBVIOUS
  <2>1. CASE e = c
    <3>1. bwd'[r][e] = m + 1 /\ m \in Int /\ fwd[r][e] \in Int /\ m < fwd[r][e] /\ fwd'[r][e] = fwd[r][e]
      BY <1>1, <1>3, <2>1
    <3>. HIDE DEF m
    <3>. QED BY <3>1
  <2>2. CASE e # c
    BY <1>0, <1>3, <2>2
  <2>. QED BY <2>1, <2>2
<1>5. Counted(r)'
  <2>1. bwd'[r] = [e \in Chunk |-> Count(n + 1, C - 1 - e)]
    BY <1>1, <1>2, <1>3
  <2>. QED BY <1>0, <1>4, <2>1 DEF Counted
<1>6. /\ \A e \in Chunk : bwd'[r][e] = Oldest(r, e)' /\ (e # c => Oldest(r, e)' = Oldest(r, e))
      /\ bwd'[r][c] = m + 1
  <2>1. \A e \in Chunk : e # c => bwd'[r][e] = bwd[r][e]
    BY <1>0, <1>3
  <2>2. \A e : Oldest(r, e)' = bwd'[r][e] /\ Oldest(r, e) = bwd[r][e]
    BY DEF Oldest
  <2>. QED BY <1>1, <1>3, <2>1, <2>2
<1>7. \A e \in Chunk : output_tensors'[r][e] = Stretch(Outputs(r, e), Oldest(r, e)', fwd'[r][e])
  <2>. SUFFICES ASSUME NEW e \in Chunk
                PROVE  output_tensors'[r][e] = Stretch(Outputs(r, e), Oldest(r, e)', fwd'[r][e])
    OBVIOUS
  <2>1. CASE e = c
    <3>1. output_tensors'[r][c] = Tail(output_tensors[r][c])
      BY <1>1, <1>2 DEF Over
    <3>. QED BY <1>1, <1>6, <2>1, <3>1
  <2>2. CASE e # c
    <3>1. output_tensors'[r][e] = output_tensors[r][e]
      BY <1>1, <1>2, <2>2 DEF Over
    <3>2. output_tensors[r][e] = Stretch(Outputs(r, e), Oldest(r, e), fwd[r][e])
      BY <1>0 DEF Lists, OutputLists
    <3>. QED BY <1>6, <2>2, <3>1, <3>2
  <2>. QED BY <2>1, <2>2
<1>8. Losses(r)'
  BY <1>0 DEF Losses
<1>9. clean'[r] = TRUE
  BY <1>0, <1>1 DEF BackwardRow
<1>10. Over(Chunk, output_tensors'[r])
  BY <1>2 DEF Over
<1>11. Tail(input_tensors[r][c]) =
         Stretch(Buffers("F", r, c), Oldest(r, c)', fwd'[r][c] + (IF Filed(r, c) THEN 1 ELSE 0))
  BY <1>1, <1>6
<1>12. \A e \in Chunk : fwd'[r][e] = fwd[r][e] /\ fwd'[r][e] \in 0 .. M
  BY <1>3
<1>. QED BY <1>1, <1>3, <1>4, <1>5, <1>6, <1>7, <1>8, <1>9, <1>10, <1>11, <1>12 DEF RunsBackward

-------------------------------------------------------------------------------
(* The gradient reductions                                                       *)

LEMMA Appended == ASSUME NEW x PROVE Append(<<>>, x) = <<x>>
OBVIOUS

(* Iteration j is the last one of its chunk exactly if it completes its count.   *)
LEMMA Completes ==
  ASSUME Configuration, NEW j \in 0 .. Total - 1, NEW e \in Chunk
  PROVE  /\ Count(j + 1, C - 1 - e) = M <=>
              (Count(j, C - 1 - e) = M \/ (e = BackwardChunk(j) /\ IsLastForChunk(j)))
         /\ ~(Count(j, C - 1 - e) = M /\ e = BackwardChunk(j) /\ IsLastForChunk(j))
<1>. DEFINE x == C - 1 - e
            y == Count(j, x)
<1>0. j \in Nat /\ j \in Int /\ j \in 0 .. Total /\ j + 1 \in 0 .. Total /\ M \in Nat \ {0} /\ j < Total
  BY Basics
<1>1. x \in Chunk /\ (e = BackwardChunk(j) <=> x = ForwardChunk(j))
  <2>1. ForwardChunk(j) \in Int /\ C \in Int /\ e \in Int /\ x \in Chunk
    BY <1>0, ForwardChunkIs, Basics DEF Chunk
  <2>. HIDE DEF Chunk
  <2>. QED BY <2>1 DEF BackwardChunk
<1>2. y \in 0 .. M /\ Count(j + 1, x) = y + (IF x = ForwardChunk(j) THEN 1 ELSE 0) /\ Count(j + 1, x) \in 0 .. M
  BY <1>0, <1>1, CountBounds, CountStep
<1>3. x = ForwardChunk(j) => (IsLastForChunk(j) <=> y = M - 1)
  BY <1>0, LastForChunk DEF Microbatch
<1>. HIDE DEF x, y
<1>4. Count(j + 1, x) = M <=> (y = M \/ (e = BackwardChunk(j) /\ IsLastForChunk(j)))
  BY <1>0, <1>1, <1>2, <1>3
<1>5. ~(y = M /\ e = BackwardChunk(j) /\ IsLastForChunk(j))
  BY <1>0, <1>1, <1>2, <1>3
<1>. QED BY <1>4, <1>5 DEF x, y

LEMMA ReductionsBackward ==
  ASSUME Configuration, NEW r \in Rank, Reductions(r), ~ForwardOnly, phase[r] # "done", phase'[r] # "done",
         NEW n \in 0 .. Total - 1, n = Ran("B", r), Ran("B", r)' = n + 1, BackwardRow(r, n),
         \A e \in Chunk : bwd'[r][e] = Count(n + 1, C - 1 - e)
  PROVE  Reductions(r)'
<1>. DEFINE S == HookSync(n) \cup CustomSync(r, n)
            chunks == (IF GradReduce = "finalize" THEN {} ELSE HookSync(n)) \cup CustomSync(r, n)
            s == Synced(r)
            Done(e, i) == Count(i, C - 1 - e) = M
<1>0. /\ n \in Nat /\ n \in Int /\ n + 1 \in 0 .. Total /\ r \in Nat /\ Total \in Nat /\ M \in Nat \ {0} /\ M \in Nat
      /\ GradReduce \in {"finalize", "overlap", "delay"}
  <2>1. P \in Nat /\ Total \in Nat /\ M \in Nat \ {0} /\ GradReduce \in {"finalize", "overlap", "delay"}
    BY Basics DEF Configuration
  <2>2. r \in Nat
    BY <2>1 DEF Rank
  <2>. HIDE DEF Total
  <2>. QED BY <2>1, <2>2
<1>1. /\ in_sync'[r] = in_sync[r] \cup S
      /\ launches'[r] = [e \in Chunk |-> IF e \in chunks THEN Append(launches[r][e], bwd'[r][e]) ELSE launches[r][e]]
  BY DEF BackwardRow
<1>2. \A e \in Chunk : /\ Reduced(r, e) <=> GradReduce # "finalize" /\ Done(e, s)
                       /\ Reduced(r, e)' <=> GradReduce # "finalize" /\ Done(e, Synced(r)')
  BY DEF Reduced
<1>3. /\ in_sync[r] = {e \in Chunk : Done(e, s)}
      /\ launches[r] = [e \in Chunk |-> IF GradReduce # "finalize" /\ Done(e, s) THEN <<M>> ELSE <<>>]
  BY <1>2 DEF Reductions
<1>4. /\ S \subseteq Chunk
      /\ \A e \in Chunk : Done(e, Synced(r)') <=> Done(e, s) \/ e \in S
      /\ \A e \in Chunk : e \in S => ~Done(e, s) /\ Count(n + 1, C - 1 - e) = M
      /\ chunks = IF GradReduce = "finalize" THEN {} ELSE S
  <2>1. CASE GradReduce = "delay" /\ n < r
    <3>1. Synced(r)' = 0 /\ s = 0
      BY <1>0, <2>1 DEF Synced
    <3>2. ~(n - r >= 0)
      BY <1>0, <2>1
    <3>3. S = {} /\ chunks = {}
      BY <2>1, <3>2 DEF HookSync, CustomSync
    <3>. HIDE DEF S, chunks, s
    <3>. QED BY <3>1, <3>3
  <2>2. CASE GradReduce # "delay" \/ n >= r
    <3>1. PICK j \in 0 .. Total - 1 : j = IF GradReduce = "delay" THEN n - r ELSE n
      BY <1>0, <2>2
    <3>2. Synced(r)' = j + 1 /\ s = j /\ j <= n
      <4>1. CASE GradReduce = "delay"
        BY <1>0, <2>2, <3>1, <4>1 DEF Synced
      <4>2. CASE GradReduce # "delay"
        BY <1>0, <3>1, <4>2 DEF Synced
      <4>. QED BY <4>1, <4>2
    <3>3. S = (IF IsLastForChunk(j) THEN {BackwardChunk(j)} ELSE {})
      <4>1. CASE GradReduce = "delay"
        <5>1. HookSync(n) = {}
          BY <4>1 DEF HookSync
        <5>2. n - r >= 0 /\ n - r = j
          BY <1>0, <2>2, <3>1, <4>1
        <5>. QED BY <4>1, <5>1, <5>2 DEF CustomSync
      <4>2. CASE GradReduce # "delay"
        BY <3>1, <4>2 DEF HookSync, CustomSync
      <4>. QED BY <4>1, <4>2
    <3>4. chunks = IF GradReduce = "finalize" THEN {} ELSE S
      BY DEF CustomSync
    <3>5. BackwardChunk(j) \in Chunk
      BY ForwardChunkIs
    <3>. HIDE DEF S, chunks, s
    <3>6. ASSUME NEW e \in Chunk
          PROVE  /\ Done(e, j + 1) <=> Done(e, j) \/ e \in S
                 /\ e \in S => ~Done(e, j)
      <4>1. e \in S <=> e = BackwardChunk(j) /\ IsLastForChunk(j)
        BY <3>3
      <4>. QED BY <4>1, Completes
    <3>7. ASSUME NEW e \in Chunk, e \in S PROVE Count(n + 1, C - 1 - e) = M
      <4>1. Count(j + 1, C - 1 - e) = M /\ C - 1 - e \in Chunk
        BY <3>6, <3>7, Basics DEF Chunk
      <4>2. j + 1 \in Nat /\ n + 1 \in Nat /\ j + 1 <= n + 1
        BY <1>0, <3>1, <3>2
      <4>3. Count(j + 1, C - 1 - e) <= Count(n + 1, C - 1 - e)
        BY <4>1, <4>2, CountMonotonic
      <4>4. Count(n + 1, C - 1 - e) \in 0 .. M
        BY <1>0, <4>1, CountBounds
      <4>. QED BY <1>0, <4>1, <4>3, <4>4
    <3>. QED BY <3>2, <3>3, <3>4, <3>5, <3>6, <3>7
  <2>. QED BY <1>0, <2>1, <2>2
<1>. HIDE DEF S, chunks, s, Done
<1>5. in_sync'[r] = {e \in Chunk : Done(e, Synced(r)')}
  BY <1>1, <1>3, <1>4
<1>6. launches'[r] = [e \in Chunk |-> IF GradReduce # "finalize" /\ Done(e, Synced(r)') THEN <<M>> ELSE <<>>]
  <2>. SUFFICES ASSUME NEW e \in Chunk
                PROVE  (IF e \in chunks THEN Append(launches[r][e], bwd'[r][e]) ELSE launches[r][e])
                         = IF GradReduce # "finalize" /\ Done(e, Synced(r)') THEN <<M>> ELSE <<>>
    BY <1>1
  <2>1. launches[r][e] = IF GradReduce # "finalize" /\ Done(e, s) THEN <<M>> ELSE <<>>
    BY <1>3
  <2>2. CASE e \in chunks
    <3>1. GradReduce # "finalize" /\ e \in S
      BY <1>4, <2>2
    <3>2. ~Done(e, s) /\ Done(e, Synced(r)') /\ bwd'[r][e] = M
      BY <1>4, <3>1
    <3>. QED BY <2>1, <2>2, <3>1, <3>2, Appended
  <2>3. CASE e \notin chunks
    <3>1. GradReduce # "finalize" => (Done(e, Synced(r)') <=> Done(e, s))
      BY <1>4, <2>3
    <3>. QED BY <2>1, <2>3, <3>1
  <2>. QED BY <2>2, <2>3
<1>. QED BY <1>2, <1>5, <1>6 DEF Reductions, Done

(* A step that runs nothing backward leaves the reductions as they are.          *)
LEMMA ReductionsSame ==
  ASSUME NEW r, Reductions(r), Ran("B", r)' = Ran("B", r), phase[r] # "done", phase'[r] # "done",
         in_sync'[r] = in_sync[r], launches'[r] = launches[r]
  PROVE  Reductions(r)'
<1>1. Synced(r)' = Synced(r)
  BY DEF Synced
<1>2. \A c : Reduced(r, c)' <=> Reduced(r, c)
  BY <1>1 DEF Reduced
<1>. QED BY <1>1, <1>2 DEF Reductions

-------------------------------------------------------------------------------
(* Facts that the steps share                                                    *)

(* Filing the buffer of iteration g at the end of the list of its chunk.         *)
LEMMA File ==
  ASSUME Configuration, NEW r \in Rank, NEW g \in 0 .. Total, NEW e, e = ForwardChunk(g),
         NEW lo \in 0 .. M, NEW hi, hi = Count(g, e), lo <= hi,
         NEW b, b = IF g < Total /\ Takes("F", r, g) THEN Takings("F", r, g) + 1 ELSE None
  PROVE  /\ e \in Chunk /\ hi \in 0 .. M
         /\ Append(Stretch(Buffers("F", r, e), lo, hi), b) = Stretch(Buffers("F", r, e), lo, hi + 1)
<1>1. g \in Int /\ g \in Nat /\ Total \in Nat /\ M \in Nat /\ "F" \in Pass
  BY Basics DEF Pass
<1>2. e \in Chunk /\ hi \in 0 .. M
  BY <1>1, ForwardChunkIs, CountBounds
<1>3. Buffers("F", r, e)[hi] = IF g = Total \/ ~Takes("F", r, g) THEN None ELSE Takings("F", r, g) + 1
  BY <1>1, BufferOf
<1>4. Buffers("F", r, e)[hi] = b
  BY <1>1, <1>3
<1>5. Buffers("F", r, e) \in [0 .. M -> Buffer]
  BY <1>1, <1>2, BuffersTyped
<1>. DEFINE f == Buffers("F", r, e)
<1>. HIDE DEF f
<1>6. Append(Stretch(f, lo, hi), f[hi]) = Stretch(f, lo, hi + 1)
  <2>1. M \in Nat /\ f \in [0 .. M -> Buffer] /\ lo \in 0 .. M /\ hi \in 0 .. M /\ lo <= hi
    BY <1>1, <1>2, <1>5 DEF f
  <2>. QED BY ONLY <2>1, StretchMore
<1>. QED BY <1>2, <1>4, <1>6 DEF f

LEMMA FileGrad ==
  ASSUME Configuration, NEW r \in Rank, NEW g \in 0 .. Total, NEW e, e = BackwardChunk(g)
  PROVE  /\ e \in Chunk /\ C - 1 - e = ForwardChunk(g)
         /\ Buffers("B", r, C - 1 - e)[Count(g, C - 1 - e)]
              = IF g < Total /\ Takes("B", r, g) THEN Takings("B", r, g) + 1 ELSE None
<1>1. g \in Int /\ Total \in Nat /\ "B" \in Pass
  BY Basics DEF Pass
<1>2. e \in Chunk /\ C - 1 - e = ForwardChunk(g)
  <2>1. ForwardChunk(g) \in Int /\ C \in Int /\ e \in Chunk
    BY <1>1, ForwardChunkIs, Basics DEF Chunk
  <2>. QED BY <2>1 DEF BackwardChunk
<1>3. Buffers("B", r, C - 1 - e)[Count(g, C - 1 - e)]
        = IF g = Total \/ ~Takes("B", r, g) THEN None ELSE Takings("B", r, g) + 1
  BY <1>1, <1>2, BufferOf
<1>. QED BY <1>1, <1>2, <1>3

(* A rank that has waited for a pass has nothing of it under way.                *)
LEMMA NotWaiting ==
  ASSUME Configuration, NEW r \in Rank, Linked(r), NEW d \in Pass, ~Waiting(r, d)
  PROVE  ~Sending(d, r) /\ ~Receiving(d, r)
<1>. DEFINE s == After(d, r)
            t == After(Other(d), r)
            u == Send(d, Item(d, r, Givings(d, r, Sent(d, r))))
            v == Recv(d)
<1>1. s \in Rank /\ t \in Rank /\ Other(d) \in Pass /\ Other(Other(d)) = d
  BY Ring
<1>2. u.dir = d /\ v.dir = d
  BY DEF Send, Recv
<1>3. \A z \in Rank : \A n \in 1 .. Len(ops[r][z]) : ops[r][z][n].dir # d
  BY DEF Waiting
<1>4. ~Sending(d, r)
  <2>1. SUFFICES ASSUME Sending(d, r) PROVE FALSE
    OBVIOUS
  <2>. DEFINE w == Recv(Other(d))
  <2>2. Queue(ops[r][s], Sending(d, r), u, Receiving(Other(d), r), w)
    BY DEF Linked, Queues
  <2>. HIDE DEF u, w, s
  <2>3. ops[r][s] \in {<<u>>, <<u, w>>, <<w, u>>}
    BY <2>1, <2>2 DEF Queue
  <2>4. \E n \in 1 .. Len(ops[r][s]) : ops[r][s][n] = u
    <3>1. CASE ops[r][s] = <<u>>
      <4>1. Len(<<u>>) = 1 /\ <<u>>[1] = u
        OBVIOUS
      <4>. QED BY <3>1, <4>1
    <3>2. CASE ops[r][s] = <<u, w>>
      <4>1. Len(<<u, w>>) = 2 /\ <<u, w>>[1] = u /\ 1 \in 1 .. 2
        OBVIOUS
      <4>. QED BY <3>2, <4>1
    <3>3. CASE ops[r][s] = <<w, u>>
      <4>1. Len(<<w, u>>) = 2 /\ <<w, u>>[2] = u /\ 2 \in 1 .. 2
        OBVIOUS
      <4>. QED BY <3>3, <4>1
    <3>. QED BY <2>3, <3>1, <3>2, <3>3
  <2>. QED BY <1>1, <1>2, <1>3, <2>4
<1>5. ~Receiving(d, r)
  <2>1. SUFFICES ASSUME Receiving(d, r) PROVE FALSE
    OBVIOUS
  <2>. DEFINE e == Other(d)
              w == Send(e, Item(e, r, Givings(e, r, Sent(e, r))))
  <2>2. Queue(ops[r][t], Sending(e, r), w, Receiving(d, r), v)
    <3>1. Queues(e, r)
      BY <1>1 DEF Linked
    <3>. QED BY <1>1, <3>1 DEF Queues
  <2>. HIDE DEF v, w, t, e
  <2>3. ops[r][t] \in {<<v>>, <<w, v>>, <<v, w>>}
    BY <2>1, <2>2 DEF Queue
  <2>4. \E n \in 1 .. Len(ops[r][t]) : ops[r][t][n] = v
    <3>1. CASE ops[r][t] = <<v>>
      <4>1. Len(<<v>>) = 1 /\ <<v>>[1] = v
        OBVIOUS
      <4>. QED BY <3>1, <4>1
    <3>2. CASE ops[r][t] = <<v, w>>
      <4>1. Len(<<v, w>>) = 2 /\ <<v, w>>[1] = v /\ 1 \in 1 .. 2
        OBVIOUS
      <4>. QED BY <3>2, <4>1
    <3>3. CASE ops[r][t] = <<w, v>>
      <4>1. Len(<<w, v>>) = 2 /\ <<w, v>>[2] = v /\ 2 \in 1 .. 2
        OBVIOUS
      <4>. QED BY <3>3, <4>1
    <3>. QED BY <2>3, <3>1, <3>2, <3>3
  <2>. QED BY <1>1, <1>2, <1>3, <2>4
<1>. QED BY <1>4, <1>5

LEMMA IdleIs ==
  ASSUME Configuration, NEW r \in Rank, Linked(r), Idle(r), NEW d \in Pass
  PROVE  ~Sending(d, r) /\ ~Receiving(d, r)
<1>1. ~Waiting(r, d)
  <2>1. \A s \in Rank : Len(ops[r][s]) = 0
    BY DEF Idle
  <2>. QED BY <2>1 DEF Waiting
<1>. QED BY <1>1, NotWaiting

LEMMA WaitedFor ==
  ASSUME Configuration, NEW r \in Rank, Linked(r), NEW d \in Pass, Waited(r, d)
  PROVE  /\ ~Sending(d, r) /\ ~Receiving(d, r)
         /\ P2P # "overlap" => Idle(r)
BY NotWaiting, IdleIs DEF Waited

(* A rank that has asked for no more than it has run on is receiving nothing,    *)
(* and one that is receiving nothing has all it has asked for.                   *)
LEMMA NothingAsked ==
  ASSUME Configuration, NEW r \in Rank, Position(r), Linked(r), NEW d \in Pass, Wanted(d, r) = Ran(d, r)
  PROVE  ~Receiving(d, r)
<1>1. /\ Takings(d, r, Ran(d, r)) <= Len(Got(d)[r]) /\ Len(Got(d)[r]) <= Takings(d, r, Wanted(d, r))
      /\ Len(Got(d)[r]) \in Nat
  BY DEF Linked, Received
<1>2. Ran(d, r) \in Nat
  BY RanIs, Basics
<1>3. Takings(d, r, Ran(d, r)) \in Nat
  BY <1>2, TakingsNat
<1>. QED BY <1>1, <1>3 DEF Receiving

LEMMA AllReceived ==
  ASSUME NEW r \in Rank, NEW d \in Pass, ~Receiving(d, r)
  PROVE  Len(Got(d)[r]) = Takings(d, r, Wanted(d, r))
BY DEF Receiving

(* The two neighbours of the pipeline's ends.                                    *)
LEMMA FirstTakes ==
  ASSUME Configuration, NEW r \in Rank
  PROVE  /\ Takes("F", r, 0) <=> ~FirstRank(r)
         /\ Takes("B", r, 0) <=> ~LastRank(r)
         /\ Takings("F", r, 0) = 0 /\ Takings("F", r, 1) = IF FirstRank(r) THEN 0 ELSE 1
         /\ Takings("B", r, 0) = 0 /\ Takings("B", r, 1) = IF LastRank(r) THEN 0 ELSE 1
         /\ ForwardChunk(0) = 0 /\ BackwardChunk(0) = C - 1
         /\ \A c \in Chunk : Count(0, c) = 0
<1>1. "F" \in Pass /\ "B" \in Pass /\ 0 \in Nat /\ 0 + 1 = 1
  BY DEF Pass
<1>2. ForwardChunk(0) = 0 /\ \A c \in Chunk : Count(0, c) = 0
  BY CountEnds, Basics
<1>3. BackwardChunk(0) = C - 1
  BY <1>2, Basics DEF BackwardChunk
<1>4. /\ Takes("F", r, 0) <=> ~FirstRank(r)
      /\ Takes("B", r, 0) <=> ~LastRank(r)
  BY <1>2, PlaceIs DEF Takes
<1>5. /\ Takings("F", r, 0) = 0 /\ Takings("B", r, 0) = 0
  BY <1>1, TakingsNat
<1>6. /\ Takings("F", r, 0 + 1) = Takings("F", r, 0) + (IF Takes("F", r, 0) THEN 1 ELSE 0)
      /\ Takings("B", r, 0 + 1) = Takings("B", r, 0) + (IF Takes("B", r, 0) THEN 1 ELSE 0)
  BY <1>1, TakingsStep
<1>7. Takings("F", r, 1) = IF FirstRank(r) THEN 0 ELSE 1
  <2>1. Takings("F", r, 1) = 0 + (IF Takes("F", r, 0) THEN 1 ELSE 0)
    BY <1>1, <1>5, <1>6
  <2>. QED BY <1>4, <2>1
<1>8. Takings("B", r, 1) = IF LastRank(r) THEN 0 ELSE 1
  <2>1. Takings("B", r, 1) = 0 + (IF Takes("B", r, 0) THEN 1 ELSE 0)
    BY <1>1, <1>5, <1>6
  <2>. QED BY <1>4, <2>1
<1>. QED BY <1>2, <1>3, <1>4, <1>5, <1>7, <1>8

(* The lists when the buffer of the next iteration is filed, and when none is.   *)
FilesInput(r, g, e, X, b) ==
  /\ e = ForwardChunk(g) /\ Over(Chunk, X)
  /\ \A x \in Chunk : /\ X[x] = Stretch(Buffers("F", r, x), Oldest(r, x)', fwd'[r][x])
                       /\ fwd'[r][x] = Count(g, x)
                       /\ Oldest(r, x)' \in 0 .. M /\ Oldest(r, x)' <= fwd'[r][x]
  /\ \A x \in Chunk : Filed(r, x)' <=> x = e
  /\ b = IF g < Total /\ Takes("F", r, g) THEN Takings("F", r, g) + 1 ELSE None
  /\ input_tensors'[r] = [X EXCEPT ![e] = Append(@, b)]
FilesGrad(r, g, e, X, b) ==
  /\ e = BackwardChunk(g) /\ Over(Chunk, X) /\ \A x \in Chunk : X[x] = <<>>
  /\ \A x \in Chunk : bwd'[r][x] = Count(g, C - 1 - x)
  /\ \A x \in Chunk : GradFiled(r, x)' <=> x = e
  /\ b = IF g < Total /\ Takes("B", r, g) THEN Takings("B", r, g) + 1 ELSE None
  /\ \/ output_tensor_grads'[r] = [X EXCEPT ![e] = Append(@, b)]
     \/ output_tensor_grads'[r] = X /\ b = None

LEMMA InputFiling ==
  ASSUME Configuration, NEW r \in Rank, NEW g \in 0 .. Total, NEW e, NEW X, NEW b, FilesInput(r, g, e, X, b)
  PROVE  InputLists(r)' /\ Over(Chunk, input_tensors'[r])
<1>. USE DEF FilesInput
<1>1. e \in Chunk /\ M \in Nat /\ g \in Int
  BY ForwardChunkIs, Basics
<1>2. Over(Chunk, input_tensors'[r]) /\ input_tensors'[r][e] = Append(X[e], b)
      /\ \A x \in Chunk : x # e => input_tensors'[r][x] = X[x]
  BY <1>1 DEF Over
<1>3. \A x \in Chunk : fwd'[r][x] \in 0 .. M
  BY CountBounds
<1>4. ASSUME NEW c \in Chunk
      PROVE  input_tensors'[r][c] =
               Stretch(Buffers("F", r, c), Oldest(r, c)', fwd'[r][c] + (IF Filed(r, c)' THEN 1 ELSE 0))
  <2>1. CASE c = e
    <3>. DEFINE lo == Oldest(r, e)'
                hi == fwd'[r][e]
    <3>1. lo \in 0 .. M /\ lo <= hi /\ hi = Count(g, e) /\ X[e] = Stretch(Buffers("F", r, e), lo, hi)
      BY <1>1
    <3>. HIDE DEF lo, hi
    <3>2. Append(Stretch(Buffers("F", r, e), lo, hi), b) = Stretch(Buffers("F", r, e), lo, hi + 1)
      BY <3>1, File
    <3>. QED BY <1>2, <2>1, <3>1, <3>2 DEF lo, hi
  <2>2. CASE c # e
    <3>1. fwd'[r][c] + 0 = fwd'[r][c]
      BY <1>1, <1>3
    <3>. QED BY <1>2, <2>2, <3>1
  <2>. QED BY <2>1, <2>2
<1>. QED BY <1>2, <1>4 DEF InputLists

LEMMA InputsUnfiled ==
  ASSUME Configuration, NEW r \in Rank, Over(Chunk, input_tensors'[r]),
         \A x \in Chunk : /\ input_tensors'[r][x] = Stretch(Buffers("F", r, x), Oldest(r, x)', fwd'[r][x])
                          /\ fwd'[r][x] \in 0 .. M,
         \A x \in Chunk : ~Filed(r, x)'
  PROVE  InputLists(r)'
<1>1. M \in Nat
  BY Basics
<1>2. \A x \in Chunk : fwd'[r][x] + 0 = fwd'[r][x]
  BY <1>1
<1>. QED BY <1>2 DEF InputLists

LEMMA GradFiling ==
  ASSUME Configuration, NEW r \in Rank, NEW g \in 0 .. Total, NEW e, NEW X, NEW b, FilesGrad(r, g, e, X, b)
  PROVE  GradLists(r)' /\ Over(Chunk, output_tensor_grads'[r])
<1>. USE DEF FilesGrad
<1>1. /\ e \in Chunk /\ C - 1 - e = ForwardChunk(g) /\ g \in Int /\ Total \in Nat
      /\ Buffers("B", r, C - 1 - e)[bwd'[r][e]] = b
  BY FileGrad, Basics
<1>2. CASE output_tensor_grads'[r] = [X EXCEPT ![e] = Append(@, b)]
  <2>1. Over(Chunk, output_tensor_grads'[r]) /\ output_tensor_grads'[r][e] = Append(<<>>, b)
        /\ \A x \in Chunk : x # e => output_tensor_grads'[r][x] = <<>>
    BY <1>1, <1>2 DEF Over
  <2>2. output_tensor_grads'[r][e] = <<Buffers("B", r, C - 1 - e)[bwd'[r][e]]>> /\ GradFiled(r, e)'
    BY <1>1, <2>1, Appended
  <2>3. \A x \in Chunk : x # e => ~GradFiled(r, x)'
    OBVIOUS
  <2>. QED BY <2>1, <2>2, <2>3 DEF GradLists
<1>3. CASE output_tensor_grads'[r] = X /\ b = None
  <2>1. g = Total \/ ~Takes("B", r, g)
    <3>1. Takings("B", r, g) + 1 \in Nat
      BY <1>1, TakingsNat DEF Pass
    <3>2. None \notin Nat
      BY DEF Configuration
    <3>3. ~(g < Total /\ Takes("B", r, g))
      BY <1>3, <3>1, <3>2
    <3>. QED BY <1>1, <3>3
  <2>2. LastStage(r, e) \/ bwd'[r][e] = M
    <3>1. ~Takes("B", r, g) => LastStage(r, e)
      BY <1>1, Ends
    <3>2. g = Total => bwd'[r][e] = M
      <4>1. C - 1 - e \in Chunk
        BY <1>1, ForwardChunkIs
      <4>2. Count(Total, C - 1 - e) = M
        BY <4>1, CountEnds
      <4>. QED BY <1>1, <4>2
    <3>. QED BY <2>1, <3>1, <3>2
  <2>3. \A x \in Chunk : output_tensor_grads'[r][x] = <<>>
    BY <1>3
  <2>4. \A x \in Chunk : GradFiled(r, x)' => LastStage(r, x) \/ bwd'[r][x] = M
    BY <2>2
  <2>. QED BY <1>3, <2>3, <2>4 DEF GradLists
<1>. QED BY <1>2, <1>3

(* A rank asks for the input of the next iteration, or does not.                 *)
LEMMA AskNext ==
  ASSUME Configuration, NEW r \in Rank, NEW d \in Pass, NEW w \in 0 .. Total, Wanted(d, r) = w,
         Wanted(d, r)' = NextOf(w), ~Receiving(d, r),
         NEW b \in BOOLEAN, b <=> w < Total /\ Takes(d, r, w)
  PROVE  Asks(d, r, b)
<1>1. w \in Nat /\ Total \in Nat
  BY Basics
<1>2. /\ Takings(d, r, w + 1) = Takings(d, r, w) + (IF Takes(d, r, w) THEN 1 ELSE 0)
      /\ Takings(d, r, w) \in Nat
  BY <1>1, TakingsStep, TakingsNat
<1>. QED BY <1>1, <1>2 DEF Asks, NextOf

LEMMA AskNone ==
  ASSUME Configuration, NEW r \in Rank, NEW d \in Pass, Wanted(d, r) \in 0 .. Total,
         Wanted(d, r)' = Wanted(d, r)
  PROVE  Asks(d, r, FALSE)
<1>1. Takings(d, r, Wanted(d, r)) \in Nat
  <2>1. Wanted(d, r) \in Nat
    BY Basics
  <2>. QED BY <2>1, TakingsNat
<1>. QED BY <1>1 DEF Asks

-------------------------------------------------------------------------------
(* The steps of a rank                                                           *)

Preserved(r) == Arrays' /\ Others(r) /\ UNCHANGED got /\ Local(r)' /\ Linked(r)'

LEMMA StartStep ==
  ASSUME Configuration, Arrays, NEW r \in Rank, Local(r), Linked(r), Start(r)
  PROVE  Preserved(r)
<1>. DEFINE rp == ~FirstRank(r)
            b == NextF(r, rp)
<1>1. /\ Arrays' /\ Others(r) /\ UNCHANGED got /\ phase[r] = "init"
      /\ LoopRow(r, IF NumWarmup(r) = 0 THEN AfterWarmup(r) ELSE "warmup", k[r], half[r])
      /\ AskRow(r, rp, FALSE) /\ NoForwardRow(r) /\ NoBackwardRow(r)
      /\ output_tensors'[r] = output_tensors[r] /\ clean'[r] = clean[r]
      /\ output_tensor_grads'[r] = output_tensor_grads[r]
      /\ input_tensors'[r] = [input_tensors[r] EXCEPT ![0] = <<b>>]
      /\ ops'[r] = Behind(ops[r], Operations(r, None, None, rp, FALSE))
  BY StartRow DEF Start
<1>. HIDE DEF b
<1>2. /\ ArraysOf(r) /\ Position(r) /\ Counted(r) /\ Lists(r) /\ Asked(r) /\ Result(r)
      /\ Losses(r) /\ Reductions(r) /\ clean[r] = TRUE
  BY DEF Local
<1>3. /\ Position(r)' /\ ~half[r] /\ ~half'[r] /\ phase'[r] \in {"warmup", "steady"}
      /\ Ran("F", r) = 0 /\ Wanted("F", r) = 0 /\ Sent("F", r) = 0
      /\ Ran("B", r) = 0 /\ Wanted("B", r) = 0 /\ Sent("B", r) = 0
      /\ Ran("F", r)' = 0 /\ Wanted("F", r)' = 1 /\ Sent("F", r)' = 0
      /\ Ran("B", r)' = 0 /\ Wanted("B", r)' = (IF NumWarmup(r) = 0 THEN 1 ELSE 0) /\ Sent("B", r)' = 0
      /\ \A c : ~Filed(r, c) /\ ~GradFiled(r, c)
      /\ \A c : Filed(r, c)' <=> c = ForwardChunk(0)
      /\ \A c : GradFiled(r, c)' <=> NumWarmup(r) = 0 /\ c = BackwardChunk(0)
  BY <1>1, <1>2, StartMoves
<1>4. /\ Takes("F", r, 0) <=> rp
      /\ Takings("F", r, 0) = 0 /\ Takings("F", r, 1) = (IF rp THEN 1 ELSE 0)
      /\ Takings("B", r, 0) = 0 /\ Takings("B", r, 1) = (IF LastRank(r) THEN 0 ELSE 1)
      /\ ForwardChunk(0) = 0 /\ BackwardChunk(0) = C - 1
      /\ \A c \in Chunk : Count(0, c) = 0
  BY FirstTakes
<1>5. /\ 0 \in 0 .. Total /\ 0 < Total /\ 1 \in 0 .. Total /\ Total \in Nat /\ M \in Nat /\ 0 \in 0 .. M /\ 0 \in Chunk
      /\ rp \in BOOLEAN /\ ForwardOnly \in BOOLEAN /\ "F" \in Pass /\ "B" \in Pass
      /\ \A c \in Chunk : C - 1 - c \in Chunk
  BY Basics DEF Configuration, Pass, Chunk, FirstRank
<1>6. NumWarmup(r) = 0 => LastRank(r)
  BY <1>5, Warmups
<1>7. \A c \in Chunk : fwd[r][c] = 0 /\ bwd[r][c] = 0 /\ Oldest(r, c) = 0
  BY <1>2, <1>3, <1>4, <1>5 DEF Counted, Oldest
<1>8. fwd'[r] = fwd[r] /\ bwd'[r] = bwd[r] /\ losses'[r] = losses[r] /\ output_tensor'[r] = output_tensor[r]
      /\ askF[r] = 0 /\ askB[r] = 0
      /\ askF'[r] = (IF rp THEN 1 ELSE 0) /\ askB'[r] = 0
  BY <1>1, <1>2, <1>3, <1>4 DEF NoForwardRow, NoBackwardRow, AskRow, Asked
<1>9. \A c \in Chunk : fwd'[r][c] = 0 /\ bwd'[r][c] = 0 /\ Oldest(r, c)' = 0
  BY <1>7, <1>8 DEF Oldest
<1>10. Counted(r)'
  BY <1>2, <1>3, <1>8 DEF Counted
<1>11. b = IF 0 < Total /\ Takes("F", r, 0) THEN Takings("F", r, 0) + 1 ELSE None
  BY <1>4, <1>5, <1>8 DEF b, NextF
<1>12. \A c \in Chunk : input_tensors[r][c] = <<>> /\ output_tensors[r][c] = <<>> /\ output_tensor_grads[r][c] = <<>>
  <2>1. \A c \in Chunk : input_tensors[r][c] = Stretch(Buffers("F", r, c), 0, 0)
    BY <1>2, <1>3, <1>7 DEF Lists, InputLists
  <2>2. \A c \in Chunk : output_tensors[r][c] = Stretch(Outputs(r, c), 0, 0)
    BY <1>2, <1>7 DEF Lists, OutputLists
  <2>3. \A c \in Chunk : output_tensor_grads[r][c] = <<>>
    BY <1>2, <1>3 DEF Lists, GradLists
  <2>. QED BY <2>1, <2>2, <2>3, StretchEmpty
<1>13. InputLists(r)' /\ Over(Chunk, input_tensors'[r])
  <2>. DEFINE X == input_tensors[r]
  <2>. PICK g \in 0 .. Total : g = 0
    BY <1>5
  <2>0. PICK e : e = ForwardChunk(g)
    OBVIOUS
  <2>1. Over(Chunk, X) /\ Append(X[0], b) = <<b>> /\ e = 0
    BY <1>2, <1>4, <1>5, <1>12, <2>0, Appended DEF ArraysOf
  <2>2. input_tensors'[r] = [X EXCEPT ![e] = Append(@, b)]
    BY <1>1, <2>1
  <2>3. \A x \in Chunk : /\ X[x] = Stretch(Buffers("F", r, x), Oldest(r, x)', fwd'[r][x])
                         /\ fwd'[r][x] = Count(g, x)
                         /\ Oldest(r, x)' \in 0 .. M /\ Oldest(r, x)' <= fwd'[r][x]
    BY <1>4, <1>5, <1>9, <1>12, StretchEmpty
  <2>4. \A x \in Chunk : Filed(r, x)' <=> x = e
    BY <1>3, <2>0
  <2>5. b = IF g < Total /\ Takes("F", r, g) THEN Takings("F", r, g) + 1 ELSE None
    BY <1>11
  <2>. HIDE DEF X
  <2>6. FilesInput(r, g, e, X, b)
    BY <2>0, <2>1, <2>2, <2>3, <2>4, <2>5 DEF FilesInput
  <2>. QED BY <2>6, InputFiling
<1>14. OutputLists(r)'
  BY <1>1, <1>9, <1>12, StretchEmpty DEF OutputLists
<1>15. GradLists(r)'
  <2>1. \A c \in Chunk : GradFiled(r, c)' => LastStage(r, c)
    BY <1>3, <1>4, <1>6 DEF LastStage
  <2>. QED BY <1>1, <1>12, <2>1 DEF GradLists
<1>16. Asked(r)'
  <2>1. Takings("B", r, Wanted("B", r)') = 0
    BY <1>3, <1>4, <1>6
  <2>. QED BY <1>3, <1>4, <1>8, <2>1 DEF Asked
<1>17. Result(r)' /\ Losses(r)'
  BY <1>2, <1>3, <1>8 DEF Result, Losses
<1>18. Reductions(r)'
  BY <1>1, <1>2, <1>3, ReductionsSame DEF NoBackwardRow
<1>19. ArraysOf(r)'
  <2>1. Over(Rank, ops'[r])
    BY <1>1 DEF Behind, Over
  <2>. QED BY <1>1, <1>2, <1>8, <1>13, <2>1 DEF ArraysOf
<1>20. Local(r)'
  BY <1>1, <1>2, <1>3, <1>10, <1>13, <1>14, <1>15, <1>16, <1>17, <1>18, <1>19 DEF Local, Lists
<1>21. Linked(r)'
  <2>1. Posted(r, Operations(r, None, None, rp, FALSE), None, None, rp, FALSE)
    BY <1>5, OperationsAre
  <2>2. Sends("F", r, None) /\ Sends("B", r, None)
    BY <1>3 DEF Sends
  <2>3. ~Receiving("F", r)
    BY <1>2, <1>3, <1>5, NothingAsked
  <2>4. Asks("F", r, rp)
    BY <1>3, <1>4, <1>5, <2>3 DEF Asks
  <2>5. Asks("B", r, FALSE)
    BY <1>3, <1>4, <1>6 DEF Asks
  <2>6. Runs("F", r) /\ Runs("B", r)
    BY <1>3 DEF Runs
  <2>7. Elsewhere(r)' /\ \A d \in Pass : Received(d, r)' /\ Queues(d, r)'
    BY <1>1, <1>2, <1>3, <1>5, <2>1, <2>2, <2>4, <2>5, <2>6, Linking
  <2>8. Quiet(r)'
    BY <1>3 DEF Quiet, Halfway
  <2>. QED BY <2>7, <2>8 DEF Linked
<1>. QED BY <1>1, <1>20, <1>21 DEF Preserved

(* The lists of inputs when the next microbatch has run forward.                 *)
RanInputs(r, n, X) ==
  /\ Over(Chunk, X)
  /\ \A x \in Chunk : /\ X[x] = Stretch(Buffers("F", r, x), Oldest(r, x)', fwd'[r][x])
                       /\ fwd'[r][x] = Count(n, x)
                       /\ Oldest(r, x)' \in 0 .. M /\ Oldest(r, x)' <= fwd'[r][x]

LEMMA ForwardLists ==
  ASSUME Configuration, NEW r \in Rank, NEW n, NEW c, NEW X, RunsForward(r, n, c), ArraysOf(r), Lists(r),
         X = [input_tensors[r] EXCEPT ![c] = ForwardInputs(r, c)],
         \A x : Filed(r, x) => x = c
  PROVE  RanInputs(r, n + 1, X)
<1>1. Over(Chunk, input_tensors[r]) /\ c \in Chunk /\ M \in Nat
  BY Basics DEF ArraysOf, RunsForward
<1>2. Over(Chunk, X) /\ X[c] = ForwardInputs(r, c) /\ \A x \in Chunk : x # c => X[x] = input_tensors[r][x]
  BY <1>1 DEF Over
<1>3. \A x \in Chunk : x # c => X[x] = Stretch(Buffers("F", r, x), Oldest(r, x)', fwd'[r][x])
  <2>. SUFFICES ASSUME NEW x \in Chunk, x # c
                PROVE  X[x] = Stretch(Buffers("F", r, x), Oldest(r, x)', fwd'[r][x])
    OBVIOUS
  <2>1. ~Filed(r, x) /\ fwd'[r][x] = fwd[r][x] /\ Oldest(r, x)' = Oldest(r, x) /\ fwd'[r][x] \in 0 .. M
    BY DEF RunsForward
  <2>2. fwd[r][x] + 0 = fwd[r][x]
    BY <1>1, <2>1
  <2>3. input_tensors[r][x] = Stretch(Buffers("F", r, x), Oldest(r, x), fwd[r][x] + (IF Filed(r, x) THEN 1 ELSE 0))
    BY DEF Lists, InputLists
  <2>. QED BY <1>2, <2>1, <2>2, <2>3
<1>. QED BY <1>2, <1>3 DEF RunsForward, RanInputs

(* The ends of the ring are P - 1 iterations apart: the receives of a steady     *)
(* iteration are for its next iterations forward and backward.                   *)
LEMMA SteadyReceives ==
  ASSUME Configuration, NEW r \in Rank, Position(r), phase[r] = "steady",
         NEW n, n = k[r], NEW g, g = NumWarmup(r) + k[r] + 1
  PROVE  /\ SteadyRecvPrev(r) <=> g < Total /\ Takes("F", r, g)
         /\ SteadyRecvPrev(r) => SteadyForwardChunk(r) = ForwardChunk(g)
         /\ SteadyRecvNext(r) <=> n + 1 < Total /\ Takes("B", r, n + 1)
         /\ SteadyRecvNext(r) => SteadyBackwardChunk(r) = BackwardChunk(n + 1)
<1>1. /\ NumWarmup(r) \in 0 .. Total /\ NumRemaining(r) = Total - NumWarmup(r) /\ Total \in Nat
      /\ P \in Nat /\ P > 2 /\ C \in Nat \ {0}
      /\ n \in 0 .. Total /\ n < NumRemaining(r) /\ g \in Int /\ n + 1 \in Int
      /\ g = n + NumWarmup(r) + 1 /\ ~ForwardOnly
  <2>1. /\ NumWarmup(r) \in 0 .. Total /\ NumRemaining(r) = Total - NumWarmup(r) /\ Total \in Nat
        /\ P \in Nat /\ P > 2 /\ C \in Nat \ {0}
    BY Warmups, Basics
  <2>2. n \in 0 .. Total /\ n < NumRemaining(r) /\ ~ForwardOnly
    BY DEF Position
  <2>. QED BY <2>1, <2>2
<1>2. /\ k[r] + NumWarmup(r) - (P - 1) = g - P /\ k[r] - (P - 1) = (n + 1) - P
      /\ k[r] + NumWarmup(r) + 1 = g /\ k[r] + 1 = n + 1
  BY <1>1
<1>3. /\ ForwardChunk(g - P) = IF ForwardChunk(g) = 0 THEN C - 1 ELSE ForwardChunk(g) - 1
      /\ ForwardChunk(g) \in 0 .. C - 1
  BY <1>1, ChunkBefore, ForwardChunkIs DEF Chunk
<1>4. /\ ForwardChunk((n + 1) - P) = IF ForwardChunk(n + 1) = 0 THEN C - 1 ELSE ForwardChunk(n + 1) - 1
      /\ ForwardChunk(n + 1) \in 0 .. C - 1
  <2>. PICK h \in Int : h = n + 1
    BY <1>1
  <2>. QED BY ChunkBefore, ForwardChunkIs DEF Chunk
<1>5. /\ Takes("F", r, g) <=> (FirstRank(r) => ForwardChunk(g) # 0)
      /\ Takes("B", r, n + 1) <=> (LastRank(r) => ForwardChunk(n + 1) # 0)
  BY PlaceIs DEF Takes
<1>6. SteadyRecvPrev(r) <=> g < Total /\ Takes("F", r, g)
  <2>1. k[r] # NumRemaining(r) - 1 <=> g < Total
    BY <1>1
  <2>2. ForwardChunk(g - P) # C - 1 <=> ForwardChunk(g) # 0
    BY <1>1, <1>3
  <2>. QED BY <1>2, <1>5, <2>1, <2>2 DEF SteadyRecvPrev
<1>7. SteadyRecvPrev(r) => SteadyForwardChunk(r) = ForwardChunk(g)
  <2>1. ForwardChunk(g) # 0 => ForwardChunk(g - P) + 1 = ForwardChunk(g)
    BY <1>1, <1>3
  <2>. QED BY <1>2, <1>5, <1>6, <2>1 DEF SteadyForwardChunk
<1>8. BackwardChunk((n + 1) - P) # 0 <=> ForwardChunk(n + 1) # 0
  BY <1>1, <1>4 DEF BackwardChunk
<1>9. SteadyRecvNext(r) <=> n + 1 < Total /\ Takes("B", r, n + 1)
  <2>1. SteadyRecvNext(r) <=> Takes("B", r, n + 1)
    BY <1>2, <1>5, <1>8 DEF SteadyRecvNext
  <2>2. Takes("B", r, n + 1) => n + 1 < Total
    <3>1. n + 1 < Total \/ NumWarmup(r) = 0
      BY <1>1
    <3>2. NumWarmup(r) = 0 => LastRank(r) /\ C = 1
      BY <1>1, Warmups
    <3>3. C = 1 => ForwardChunk(n + 1) = 0
      BY <1>4
    <3>. QED BY <1>5, <3>1, <3>2, <3>3
  <2>. QED BY <2>1, <2>2
<1>10. SteadyRecvNext(r) => SteadyBackwardChunk(r) = BackwardChunk(n + 1)
  <2>1. ForwardChunk(n + 1) # 0 => BackwardChunk((n + 1) - P) - 1 = BackwardChunk(n + 1)
    BY <1>1, <1>4 DEF BackwardChunk
  <2>. QED BY <1>2, <1>5, <1>9, <2>1 DEF SteadyBackwardChunk
<1>. QED BY <1>6, <1>7, <1>9, <1>10

(* The lists of inputs and of gradients when the next microbatch has run         *)
(* backward.                                                                     *)
UsedInputs(r, X) ==
  /\ Over(Chunk, X)
  /\ \A x \in Chunk : /\ X[x] = Stretch(Buffers("F", r, x), Oldest(r, x)',
                                        fwd'[r][x] + (IF Filed(r, x) THEN 1 ELSE 0))
                      /\ Oldest(r, x)' \in 0 .. M /\ Oldest(r, x)' <= fwd'[r][x]
NoGrads(X) == Over(Chunk, X) /\ \A x \in Chunk : X[x] = <<>>

LEMMA BackwardLists ==
  ASSUME Configuration, NEW r \in Rank, NEW n, NEW c, NEW X, RunsBackward(r, n, c), ArraysOf(r), Lists(r),
         X = [input_tensors[r] EXCEPT ![c] = Tail(@)]
  PROVE  UsedInputs(r, X)
<1>1. Over(Chunk, input_tensors[r]) /\ c \in Chunk
  BY DEF ArraysOf, RunsBackward
<1>2. Over(Chunk, X) /\ X[c] = Tail(input_tensors[r][c]) /\ \A x \in Chunk : x # c => X[x] = input_tensors[r][x]
  BY <1>1 DEF Over
<1>3. ASSUME NEW x \in Chunk
      PROVE  X[x] = Stretch(Buffers("F", r, x), Oldest(r, x)', fwd'[r][x] + (IF Filed(r, x) THEN 1 ELSE 0))
  <2>1. CASE x = c
    BY <1>1, <1>2, <2>1 DEF RunsBackward
  <2>2. CASE x # c
    <3>1. input_tensors[r][x] = Stretch(Buffers("F", r, x), Oldest(r, x), fwd[r][x] + (IF Filed(r, x) THEN 1 ELSE 0))
      BY DEF Lists, InputLists
    <3>2. fwd'[r][x] = fwd[r][x] /\ Oldest(r, x)' = Oldest(r, x)
      BY <2>2 DEF RunsBackward
    <3>. QED BY <1>2, <2>2, <3>1, <3>2
  <2>. QED BY <2>1, <2>2
<1>4. \A x \in Chunk : Oldest(r, x)' \in 0 .. M /\ Oldest(r, x)' <= fwd'[r][x]
  BY DEF RunsBackward
<1>. QED BY <1>2, <1>3, <1>4 DEF UsedInputs

LEMMA BackwardGrads ==
  ASSUME NEW r \in Rank, NEW n, NEW c, NEW X, RunsBackward(r, n, c), ArraysOf(r), Lists(r),
         \A x : GradFiled(r, x) => x = c,
         X = [output_tensor_grads[r] EXCEPT ![c] = Tail(Grads(r, c))]
  PROVE  NoGrads(X)
<1>1. Over(Chunk, output_tensor_grads[r]) /\ c \in Chunk /\ Tail(Grads(r, c)) = <<>>
  BY DEF ArraysOf, RunsBackward
<1>2. \A x \in Chunk : x # c => output_tensor_grads[r][x] = <<>>
  BY DEF Lists, GradLists
<1>. QED BY <1>1, <1>2 DEF NoGrads, Over

(* The receives posted when the rank has asked for the input after w.            *)
LEMMA TakingsNext ==
  ASSUME Configuration, NEW r \in Rank, NEW d \in Pass, NEW w \in 0 .. Total
  PROVE  /\ Takings(d, r, NextOf(w)) = Takings(d, r, w) + (IF w < Total /\ Takes(d, r, w) THEN 1 ELSE 0)
         /\ Takings(d, r, w) \in Nat
<1>1. w \in Nat /\ Total \in Nat
  BY Basics
<1>2. /\ Takings(d, r, w + 1) = Takings(d, r, w) + (IF Takes(d, r, w) THEN 1 ELSE 0)
      /\ Takings(d, r, w) \in Nat
  BY <1>1, TakingsStep, TakingsNat
<1>. QED BY <1>1, <1>2 DEF NextOf

LEMMA WarmupStep ==
  ASSUME Configuration, Arrays, NEW r \in Rank, Local(r), Linked(r), Warmup(r)
  PROVE  Preserved(r)
<1>. PICK n : n = k[r]
  OBVIOUS
<1>. PICK c : c = ForwardChunk(n)
  OBVIOUS
<1>. PICK e : e = ForwardChunk(n + 1)
  OBVIOUS
<1>. PICK last : last = LastWarmup(r)
  OBVIOUS
<1>. PICK rp : rp = WarmupRecvPrev(r)
  OBVIOUS
<1>. PICK first : first = (last /\ ~ForwardOnly /\ ~AllWarmup)
  OBVIOUS
<1>. PICK rn : rn = (first /\ ~LastRank(r))
  OBVIOUS
<1>. PICK sn : sn = output_tensor'[r]
  OBVIOUS
<1>. PICK o : o = IF P2P = "overlap"
                  THEN Behind(Operations(r, sn, None, rp, FALSE), Operations(r, None, None, FALSE, rn))
                  ELSE Operations(r, sn, None, rp, rn)
  OBVIOUS
<1>. PICK b : b = NextF(r, rp)
  OBVIOUS
<1>. PICK g : g = NextB(r, rn)
  OBVIOUS
<1>1. /\ Arrays' /\ Others(r) /\ UNCHANGED got
      /\ phase[r] = "warmup" /\ Waited(r, "F")
      /\ LoopRow(r, IF last THEN AfterWarmup(r) ELSE phase[r], IF last THEN 0 ELSE k[r] + 1, half[r])
      /\ AskRow(r, rp, rn) /\ ForwardRow(r, c) /\ NoBackwardRow(r)
      /\ input_tensors'[r] = [[input_tensors[r] EXCEPT ![c] = ForwardInputs(r, c)] EXCEPT ![e] = Append(@, b)]
      /\ output_tensor_grads'[r] =
           IF first THEN [output_tensor_grads[r] EXCEPT ![C - 1] = Append(@, g)] ELSE output_tensor_grads[r]
      /\ ops'[r] = Behind(ops[r], o)
  <2>1. /\ c = ForwardChunk(k[r]) /\ e = ForwardChunk(k[r] + 1)
    OBVIOUS
  <2>2. WarmupGoes(r, c, e, last, rp, first, rn)
    BY <2>1, WarmupRow
  <2>. QED BY <2>2 DEF WarmupGoes
<1>2. /\ ArraysOf(r) /\ Position(r) /\ Counted(r) /\ Lists(r) /\ Asked(r) /\ Result(r)
      /\ Losses(r) /\ Reductions(r) /\ clean[r] = TRUE
  BY DEF Local
<1>3. /\ Position(r)' /\ ~half[r] /\ ~half'[r] /\ n \in 0 .. Total - 1 /\ phase'[r] \notin {"init", "done"}
      /\ Ran("F", r) = n /\ Wanted("F", r) = n + 1 /\ Sent("F", r) = n
      /\ Ran("B", r) = 0 /\ Wanted("B", r) = 0 /\ Sent("B", r) = 0
      /\ Ran("F", r)' = n + 1 /\ Wanted("F", r)' = NextOf(n + 1) /\ Sent("F", r)' = n + 1
      /\ Ran("B", r)' = 0 /\ Wanted("B", r)' = (IF first THEN 1 ELSE 0) /\ Sent("B", r)' = 0
      /\ \A x : Filed(r, x) <=> x = ForwardChunk(n)
      /\ \A x : ~GradFiled(r, x)
      /\ \A x : Filed(r, x)' <=> x = ForwardChunk(n + 1)
      /\ \A x : GradFiled(r, x)' <=> first /\ x = BackwardChunk(0)
  BY <1>1, <1>2, WarmupMoves
<1>4. /\ Takings("B", r, 0) = 0 /\ Takings("B", r, 1) = (IF LastRank(r) THEN 0 ELSE 1)
      /\ BackwardChunk(0) = C - 1 /\ \A x \in Chunk : Count(0, x) = 0
      /\ Takes("B", r, 0) <=> ~LastRank(r)
  BY FirstTakes
<1>5. /\ n \in Nat /\ n < Total /\ n + 1 \in 0 .. Total /\ Total \in Nat /\ M \in Nat
      /\ "F" \in Pass /\ "B" \in Pass /\ ForwardOnly \in BOOLEAN
      /\ \A x \in Chunk : C - 1 - x \in Chunk
  <2>1. Total \in Nat /\ M \in Nat /\ C \in Nat \ {0} /\ ForwardOnly \in BOOLEAN
    BY Basics DEF Configuration
  <2>. HIDE DEF Configuration
  <2>. QED BY <1>3, <2>1 DEF Pass, Chunk
<1>6. rp \in BOOLEAN /\ rn \in BOOLEAN /\ first \in BOOLEAN
  BY DEF WarmupRecvPrev
<1>7. rp <=> n + 1 < Total /\ Takes("F", r, n + 1)
  <2>1. rp <=> ~(FirstRank(r) /\ ForwardChunk(n + 1) = 0) /\ n # Total - 1
    BY DEF WarmupRecvPrev
  <2>2. Takes("F", r, n + 1) <=> ~(FirstRank(r) /\ ForwardChunk(n + 1) = 0)
    BY PlaceIs DEF Takes
  <2>. QED BY <1>5, <2>1, <2>2
<1>8. ~Sending("F", r) /\ ~Receiving("F", r) /\ ~Receiving("B", r)
  <2>1. ~Receiving("B", r)
    BY <1>2, <1>3, <1>5, NothingAsked
  <2>. QED BY <1>1, <1>5, <2>1, WaitedFor
<1>9. Len(gotF[r]) = Takings("F", r, n + 1)
  BY <1>3, <1>5, <1>8, AllReceived DEF Got
<1>10. RunsForward(r, n, c)
  <2>1. Filed(r, c) /\ Received("F", r) /\ bwd'[r] = bwd[r]
    BY <1>1, <1>3, <1>5 DEF Linked, NoBackwardRow
  <2>2. n = Ran("F", r) /\ Ran("F", r)' = n + 1 /\ Ran("B", r)' = Ran("B", r)
    BY <1>3
  <2>. QED BY <1>1, <1>3, <1>5, <1>9, <2>1, <2>2, ForwardLocal
<1>11. Asks("F", r, rp) /\ Asks("B", r, rn)
  <2>1. Asks("F", r, rp)
    <3>. PICK w \in 0 .. Total : w = n + 1
      BY <1>5
    <3>. QED BY <1>3, <1>5, <1>6, <1>7, <1>8, AskNext
  <2>2. Asks("B", r, rn)
    <3>1. rn <=> first /\ ~LastRank(r)
      OBVIOUS
    <3>2. Takings("B", r, Wanted("B", r)') = (IF rn THEN 1 ELSE 0)
      BY <1>3, <1>4, <3>1
    <3>3. Takings("B", r, Wanted("B", r)) = 0
      BY <1>3, <1>4
    <3>. QED BY <1>8, <3>2, <3>3 DEF Asks
  <2>. QED BY <2>1, <2>2
<1>12. /\ askF[r] = Takings("F", r, n + 1) /\ askB[r] = 0
       /\ askF'[r] = Takings("F", r, Wanted("F", r)') /\ askB'[r] = Takings("B", r, Wanted("B", r)')
  <2>1. askF[r] = Takings("F", r, n + 1) /\ askB[r] = 0
    BY <1>2, <1>3, <1>4 DEF Asked
  <2>2. /\ askF'[r] = (IF rp THEN askF[r] + 1 ELSE askF[r])
        /\ askB'[r] = (IF rn THEN askB[r] + 1 ELSE askB[r])
    BY <1>1 DEF AskRow
  <2>3. Takings("F", r, n + 1) \in Nat
    BY <1>5, TakingsNat
  <2>. QED BY <1>3, <1>4, <1>6, <1>11, <2>1, <2>2, <2>3 DEF Asks
<1>13. Asked(r)'
  BY <1>3, <1>12 DEF Asked
<1>14. InputLists(r)' /\ Over(Chunk, input_tensors'[r])
  <2>. DEFINE X == [input_tensors[r] EXCEPT ![c] = ForwardInputs(r, c)]
  <2>1. \A x : Filed(r, x) => x = c
    BY <1>3
  <2>2. RanInputs(r, n + 1, X)
    BY <1>2, <1>10, <2>1, ForwardLists
  <2>3. b = IF n + 1 < Total /\ Takes("F", r, n + 1) THEN Takings("F", r, n + 1) + 1 ELSE None
    BY <1>6, <1>7, <1>12 DEF NextF
  <2>4. input_tensors'[r] = [X EXCEPT ![e] = Append(@, b)]
    BY <1>1
  <2>. HIDE DEF X
  <2>5. FilesInput(r, n + 1, e, X, b)
    BY <1>3, <2>2, <2>3, <2>4 DEF FilesInput, RanInputs
  <2>. QED BY <1>5, <2>5, InputFiling
<1>15. OutputLists(r)'
  BY <1>10 DEF OutputLists, RunsForward
<1>16. GradLists(r)' /\ Over(Chunk, output_tensor_grads'[r])
  <2>. DEFINE X == output_tensor_grads[r]
  <2>1. Over(Chunk, X) /\ \A x \in Chunk : X[x] = <<>>
    BY <1>2, <1>3 DEF ArraysOf, Lists, GradLists
  <2>2. CASE first
    <3>1. \A x \in Chunk : bwd'[r][x] = Count(0, C - 1 - x)
      BY <1>3, <1>10 DEF Counted, RunsForward
    <3>2. PICK j : j = BackwardChunk(0)
      OBVIOUS
    <3>3. PICK z \in 0 .. Total : z = 0
      BY <1>5
    <3>4. g = IF z < Total /\ Takes("B", r, z) THEN Takings("B", r, z) + 1 ELSE None
      <4>1. rn <=> ~LastRank(r)
        BY <2>2
      <4>2. g = IF rn THEN askB[r] + 1 ELSE None
        BY DEF NextB
      <4>. QED BY <1>4, <1>5, <1>12, <3>3, <4>1, <4>2
    <3>5. output_tensor_grads'[r] = [X EXCEPT ![j] = Append(@, g)]
      BY <1>1, <1>4, <2>2, <3>2
    <3>. HIDE DEF X
    <3>6. FilesGrad(r, z, j, X, g)
      BY <1>3, <2>1, <2>2, <3>1, <3>2, <3>3, <3>4, <3>5 DEF FilesGrad
    <3>. QED BY <3>6, GradFiling
  <2>3. CASE ~first
    BY <1>1, <1>3, <2>1, <2>3 DEF GradLists
  <2>. QED BY <2>2, <2>3
<1>17. Result(r)'
  BY <1>3 DEF Result
<1>18. Reductions(r)'
  BY <1>1, <1>2, <1>3, ReductionsSame DEF NoBackwardRow
<1>19. ArraysOf(r)'
  <2>1. Over(Rank, ops'[r])
    BY <1>1 DEF Behind, Over
  <2>. QED BY <1>10, <1>14, <1>16, <2>1 DEF ArraysOf, RunsForward
<1>20. Local(r)'
  BY <1>3, <1>10, <1>13, <1>14, <1>15, <1>16, <1>17, <1>18, <1>19 DEF Local, Lists, RunsForward
<1>21. Linked(r)'
  <2>1. Posted(r, o, sn, None, rp, rn)
    BY <1>6, OperationsAre, TwoCalls
  <2>2. Sends("F", r, sn) /\ Sends("B", r, None)
    BY <1>3, <1>5, <1>8, <1>10 DEF Sends, RunsForward
  <2>3. Runs("F", r) /\ Runs("B", r)
    BY <1>3, <1>5, <1>8 DEF Runs
  <2>4. Elsewhere(r)' /\ \A d \in Pass : Received(d, r)' /\ Queues(d, r)'
    <3>1. Position(r) /\ Position(r)' /\ UNCHANGED got /\ ops'[r] = Behind(ops[r], o)
      BY <1>1, <1>2, <1>3
    <3>. QED BY <1>6, <1>11, <2>1, <2>2, <2>3, <3>1, Linking
  <2>5. Quiet(r)'
    BY <1>3 DEF Quiet, Halfway
  <2>. QED BY <2>4, <2>5 DEF Linked
<1>. QED BY <1>1, <1>20, <1>21 DEF Preserved

LEMMA SteadyForwardStep ==
  ASSUME Configuration, Arrays, NEW r \in Rank, Local(r), Linked(r), SteadyForward(r)
  PROVE  Preserved(r)
<1>. PICK n : n = NumWarmup(r) + k[r]
  OBVIOUS
<1>. PICK c : c = ForwardChunk(n)
  OBVIOUS
<1>. PICK g : g = NumWarmup(r) + k[r] + 1
  OBVIOUS
<1>. PICK rp : rp = (P2P = "overlap" /\ SteadyRecvPrev(r))
  OBVIOUS
<1>. PICK sn : sn = IF P2P = "overlap" THEN output_tensor'[r] ELSE None
  OBVIOUS
<1>. PICK o : o = IF P2P = "overlap" THEN Operations(r, sn, None, rp, FALSE)
                  ELSE [s \in Rank |-> <<>>]
  OBVIOUS
<1>1. /\ ArraysOf(r) /\ Position(r) /\ Counted(r) /\ Lists(r) /\ Asked(r) /\ Result(r)
      /\ Losses(r) /\ Reductions(r) /\ clean[r] = TRUE
  BY DEF Local
<1>2. /\ k[r] \in Int /\ NumWarmup(r) \in Int /\ k[r] + NumWarmup(r) = n /\ g = n + 1
  BY <1>1, Loop DEF Position
<1>3. SteadyForwardGoes(r, c)
  BY <1>2, SteadyForwardRow
<1>4. /\ Arrays' /\ Others(r) /\ UNCHANGED got
      /\ phase[r] = "steady" /\ ~half[r] /\ Waited(r, "F")
      /\ LoopRow(r, phase[r], k[r], TRUE)
      /\ AskRow(r, FALSE, FALSE) /\ ForwardRow(r, c) /\ NoBackwardRow(r)
      /\ input_tensors'[r] = [input_tensors[r] EXCEPT ![c] = ForwardInputs(r, c)]
      /\ output_tensor_grads'[r] = output_tensor_grads[r]
      /\ ops'[r] = IF P2P = "overlap"
                   THEN Behind(ops[r], Operations(r, output_tensor'[r], None, SteadyRecvPrev(r), FALSE))
                   ELSE ops[r]
  BY <1>3 DEF SteadyForwardGoes
<1>5. /\ Position(r)' /\ half'[r] /\ n \in 0 .. Total - 1 /\ ~ForwardOnly /\ k[r] \in 0 .. Total - 1
      /\ Ran("F", r) = n /\ Wanted("F", r) = n + 1 /\ Sent("F", r) = n
      /\ Ran("B", r) = k[r] /\ Wanted("B", r) = k[r] + 1 /\ Sent("B", r) = k[r]
      /\ Ran("F", r)' = n + 1
      /\ Wanted("F", r)' = (IF P2P = "overlap" THEN NextOf(n + 1) ELSE n + 1)
      /\ Sent("F", r)' = (IF P2P = "overlap" THEN n + 1 ELSE n)
      /\ Ran("B", r)' = k[r] /\ Wanted("B", r)' = k[r] + 1 /\ Sent("B", r)' = k[r]
      /\ \A x : Filed(r, x) <=> (x = ForwardChunk(n) /\ (FirstStage(r, x) => k[r] = 0))
      /\ \A x : ~Filed(r, x)'
      /\ \A x : GradFiled(r, x)' <=> GradFiled(r, x)
  <2>1. LoopRow(r, phase[r], k[r], TRUE) /\ Position(r) /\ phase[r] = "steady" /\ ~half[r]
    BY <1>1, <1>4
  <2>. QED BY ONLY Configuration, r \in Rank, n = NumWarmup(r) + k[r], <2>1, SteadyForwardMoves
<1>6. /\ n \in Nat /\ n < Total /\ n + 1 \in 0 .. Total /\ n + 1 \in Nat /\ Total \in Nat /\ M \in Nat
      /\ "F" \in Pass /\ "B" \in Pass
  <2>1. Total \in Nat /\ M \in Nat
    BY Basics
  <2>. QED BY <1>5, <2>1 DEF Pass
<1>7. rp \in BOOLEAN /\ (rp <=> P2P = "overlap" /\ n + 1 < Total /\ Takes("F", r, n + 1))
  <2>1. SteadyRecvPrev(r) <=> g < Total /\ Takes("F", r, g)
    <3>. PICK m : m = k[r]
      OBVIOUS
    <3>. QED BY <1>1, <1>4, SteadyReceives
  <2>. QED BY <1>2, <2>1
<1>8. ~Sending("F", r) /\ ~Receiving("F", r) /\ (P2P # "overlap" => Idle(r))
  BY <1>4, <1>6, WaitedFor
<1>9. Len(gotF[r]) = Takings("F", r, n + 1)
  BY <1>5, <1>6, <1>8, AllReceived DEF Got
<1>10. RunsForward(r, n, c)
  <2>1. /\ Filed(r, c) \/ FirstStage(r, c)
        /\ Received("F", r) /\ bwd'[r] = bwd[r]
    BY <1>4, <1>5, <1>6 DEF Linked, NoBackwardRow
  <2>2. n = Ran("F", r) /\ Ran("F", r)' = n + 1 /\ Ran("B", r)' = Ran("B", r)
    BY <1>5
  <2>. QED BY <1>4, <1>5, <1>6, <1>9, <2>1, <2>2, ForwardLocal
<1>11. Asks("F", r, rp) /\ Asks("B", r, FALSE)
  <2>1. Asks("F", r, rp)
    <3>1. CASE P2P = "overlap"
      <4>. PICK w \in 0 .. Total : w = n + 1
        BY <1>6
      <4>1. Wanted("F", r) = w /\ Wanted("F", r)' = NextOf(w) /\ (rp <=> w < Total /\ Takes("F", r, w))
        BY <1>5, <1>7, <3>1
      <4>. QED BY <1>6, <1>7, <1>8, <4>1, AskNext
    <3>2. CASE P2P # "overlap"
      <4>1. Wanted("F", r)' = Wanted("F", r) /\ Wanted("F", r) \in 0 .. Total /\ rp = FALSE
        BY <1>5, <1>6, <1>7, <3>2
      <4>. QED BY <1>6, <1>7, <4>1, AskNone
    <3>. QED BY <3>1, <3>2
  <2>3. Asks("B", r, FALSE)
    <3>1. Wanted("B", r)' = Wanted("B", r) /\ Wanted("B", r) \in 0 .. Total
      BY <1>5, <1>6
    <3>. QED BY <1>6, <3>1, AskNone
  <2>. QED BY <2>1, <2>3
<1>12. Asked(r)'
  BY <1>1, <1>4, <1>5 DEF Asked, AskRow
<1>13. InputLists(r)' /\ Over(Chunk, input_tensors'[r])
  <2>1. \A x : Filed(r, x) => x = c
    BY <1>5
  <2>2. RanInputs(r, n + 1, input_tensors'[r])
    BY <1>1, <1>4, <1>10, <2>1, ForwardLists
  <2>3. \A x \in Chunk : fwd'[r][x] \in 0 .. M
    BY <1>10 DEF RunsForward
  <2>. QED BY <1>5, <2>2, <2>3, InputsUnfiled DEF RanInputs
<1>14. OutputLists(r)'
  BY <1>10 DEF OutputLists, RunsForward
<1>15. GradLists(r)'
  BY <1>1, <1>4, <1>5 DEF GradLists, Lists, NoBackwardRow
<1>16. Result(r)'
  <2>1. (n + 1) - 1 = n
    BY <1>6
  <2>. QED BY <1>5, <1>10, <2>1 DEF Result, RunsForward
<1>17. Reductions(r)'
  BY <1>1, <1>4, <1>5, ReductionsSame DEF NoBackwardRow, LoopRow
<1>18. ArraysOf(r)'
  <2>1. Over(Rank, ops'[r])
    BY <1>1, <1>4 DEF Behind, Over, ArraysOf
  <2>. QED BY <1>1, <1>4, <1>10, <1>13, <2>1 DEF ArraysOf, RunsForward
<1>19. Local(r)'
  BY <1>5, <1>10, <1>12, <1>13, <1>14, <1>15, <1>16, <1>17, <1>18 DEF Local, Lists, RunsForward
<1>20. Linked(r)'
  <2>1. CASE P2P = "overlap"
    <3>1. ops'[r] = Behind(ops[r], o)
      <4>1. rp = SteadyRecvPrev(r)
        BY <2>1 DEF SteadyRecvPrev
      <4>. QED BY <1>4, <2>1, <4>1
    <3>2. Posted(r, o, sn, None, rp, FALSE)
      BY <1>7, <2>1, OperationsAre
    <3>3. Sends("F", r, sn) /\ Sends("B", r, None)
      BY <1>5, <1>6, <1>8, <1>10, <2>1 DEF Sends, RunsForward
    <3>4. Runs("F", r) /\ Runs("B", r)
      BY <1>5, <1>6, <1>8 DEF Runs
    <3>5. Elsewhere(r)' /\ \A d \in Pass : Received(d, r)' /\ Queues(d, r)'
      <4>1. Position(r) /\ Position(r)' /\ UNCHANGED got
        BY <1>1, <1>4, <1>5
      <4>. QED BY <1>7, <1>11, <3>1, <3>2, <3>3, <3>4, <4>1, Linking
    <3>6. Quiet(r)'
      BY <2>1 DEF Quiet, Halfway
    <3>. QED BY <3>5, <3>6 DEF Linked
  <2>2. CASE P2P # "overlap"
    <3>1. Idle(r) /\ Idle(r)'
      BY <1>4, <1>8, <2>2 DEF Idle
    <3>2. ops'[r] = Behind(ops[r], o)
      <4>1. Over(Rank, ops[r]) /\ \A s \in Rank : ops[r][s] = <<>>
        BY <1>1, <3>1 DEF ArraysOf, Idle
      <4>2. ops[r] = [s \in Rank |-> <<>>]
        BY <4>1 DEF Over
      <4>3. Behind(ops[r], o) = [s \in Rank |-> <<>> \o <<>>]
        BY <2>2, <4>2 DEF Behind
      <4>. QED BY <1>4, <2>2, <4>2, <4>3, Concatenations
    <3>3. sn = None /\ ~rp
      BY <1>7, <2>2
    <3>4. Posted(r, o, sn, None, rp, FALSE)
      <4>1. NextRank(r) \in Rank /\ PrevRank(r) \in Rank
        BY Neighbours
      <4>2. \A s \in Rank : o[s] = <<>>
        BY <2>2
      <4>3. <<>> \o <<>> = <<>>
        BY Concatenations
      <4>. QED BY <3>3, <4>1, <4>2, <4>3 DEF Posted, Both, Only
    <3>5. Sends("F", r, sn) /\ Sends("B", r, None)
      BY <1>5, <2>2, <3>3 DEF Sends
    <3>6. Runs("F", r) /\ Runs("B", r)
      BY <1>5, <1>6, <1>8 DEF Runs
    <3>7. Elsewhere(r)' /\ \A d \in Pass : Received(d, r)' /\ Queues(d, r)'
      <4>1. Position(r) /\ Position(r)' /\ UNCHANGED got
        BY <1>1, <1>4, <1>5
      <4>. QED BY <1>7, <1>11, <3>2, <3>4, <3>5, <3>6, <4>1, Linking
    <3>8. Quiet(r)'
      BY <3>1 DEF Quiet
    <3>. QED BY <3>7, <3>8 DEF Linked
  <2>. QED BY <2>1, <2>2
<1>. QED BY <1>4, <1>19, <1>20 DEF Preserved

LEMMA SteadyBackwardStep ==
  ASSUME Configuration, Arrays, NEW r \in Rank, Local(r), Linked(r), SteadyBackward(r)
  PROVE  Preserved(r)
<1>. PICK n : n = k[r]
  OBVIOUS
<1>. PICK g : g = NumWarmup(r) + k[r] + 1
  OBVIOUS
<1>. PICK c : c = BackwardChunk(n)
  OBVIOUS
<1>. PICK rp : rp = SteadyRecvPrev(r)
  OBVIOUS
<1>. PICK rn : rn = SteadyRecvNext(r)
  OBVIOUS
<1>. PICK i : i = SteadyForwardChunk(r)
  OBVIOUS
<1>. PICK j : j = SteadyBackwardChunk(r)
  OBVIOUS
<1>. PICK last : last = (k[r] = NumRemaining(r) - 1)
  OBVIOUS
<1>. PICK sn : sn = IF P2P = "overlap" THEN None ELSE output_tensor[r]
  OBVIOUS
<1>. PICK sp : sp = InputGrad(r, c)
  OBVIOUS
<1>. PICK rq \in BOOLEAN : rq = IF P2P = "overlap" THEN FALSE ELSE rp
  BY DEF SteadyRecvPrev
<1>. PICK o : o = Operations(r, sn, sp, rq, rn)
  OBVIOUS
<1>. PICK b : b = NextF(r, rp)
  OBVIOUS
<1>. PICK h : h = NextB(r, rn)
  OBVIOUS
<1>. PICK Y : Y = [input_tensors[r] EXCEPT ![c] = Tail(@)]
  OBVIOUS
<1>. PICK X : X = [output_tensor_grads[r] EXCEPT ![c] = Tail(Grads(r, c))]
  OBVIOUS
<1>1. /\ ArraysOf(r) /\ Position(r) /\ Counted(r) /\ Lists(r) /\ Asked(r) /\ Result(r)
      /\ Losses(r) /\ Reductions(r) /\ clean[r] = TRUE
  BY DEF Local
<1>2. SteadyBackwardGoes(r, c, last, rp, rn, i, j)
  <2>1. c = BackwardChunk(k[r])
    OBVIOUS
  <2>. QED BY <2>1, SteadyBackwardRow
<1>3. /\ Arrays' /\ Others(r) /\ UNCHANGED got
      /\ phase[r] = "steady" /\ half[r] /\ (P2P = "overlap" => ~Waiting(r, "B"))
      /\ LoopRow(r, IF last THEN "drain" ELSE phase[r], IF last THEN 0 ELSE k[r] + 1, FALSE)
      /\ AskRow(r, rp, rn) /\ NoForwardRow(r) /\ BackwardRow(r, n)
      /\ input_tensors'[r] = (IF rp THEN [Y EXCEPT ![i] = Append(@, b)] ELSE Y)
      /\ output_tensor_grads'[r] = (IF rn THEN [X EXCEPT ![j] = Append(@, h)] ELSE X)
      /\ ops'[r] = Behind(ops[r], o)
  BY <1>2 DEF SteadyBackwardGoes
<1>4. /\ Position(r)' /\ ~half'[r] /\ g \in 1 .. Total /\ ~ForwardOnly /\ n \in 0 .. Total - 1
      /\ phase'[r] \notin {"init", "done"}
      /\ last <=> g = Total
      /\ Ran("F", r) = g /\ Ran("F", r)' = g
      /\ Wanted("F", r) = (IF P2P = "overlap" THEN NextOf(g) ELSE g) /\ Wanted("F", r)' = NextOf(g)
      /\ Sent("F", r) = (IF P2P = "overlap" THEN g ELSE g - 1) /\ Sent("F", r)' = g
      /\ Ran("B", r) = n /\ Wanted("B", r) = n + 1 /\ Sent("B", r) = n
      /\ Ran("B", r)' = n + 1 /\ Wanted("B", r)' = NextOf(n + 1) /\ Sent("B", r)' = n + 1
      /\ \A x : ~Filed(r, x)
      /\ \A x : Filed(r, x)' <=> (~last /\ x = ForwardChunk(g) /\ ~FirstStage(r, x))
      /\ \A x : GradFiled(r, x) <=> x = BackwardChunk(n)
      /\ \A x : GradFiled(r, x)' <=> x = BackwardChunk(n + 1)
  <2>1. /\ LoopRow(r, IF last THEN "drain" ELSE phase[r], IF last THEN 0 ELSE k[r] + 1, FALSE)
        /\ Position(r) /\ phase[r] = "steady" /\ half[r]
    BY <1>1, <1>3
  <2>2. SteadyBackwardMoved(r, n, g, last)
    BY <2>1, SteadyBackwardMoves
  <2>. QED BY <2>2 DEF SteadyBackwardMoved
<1>5. /\ n \in Nat /\ n < Total /\ n + 1 \in 0 .. Total /\ n + 1 \in Int /\ Total \in Nat /\ M \in Nat
      /\ g \in 0 .. Total /\ g \in Int /\ g - 1 \in Nat /\ g - 1 < Total
      /\ "F" \in Pass /\ "B" \in Pass /\ Wanted("F", r) \in 0 .. Total
  <2>1. Total \in Nat /\ M \in Nat /\ "F" \in Pass
    BY Basics DEF Pass
  <2>2. Wanted("F", r) \in 0 .. Total
    BY <1>1, <2>1, RanIs
  <2>. QED BY <1>4, <2>1, <2>2 DEF Pass
<1>6. /\ rp \in BOOLEAN /\ rn \in BOOLEAN
      /\ rp <=> g < Total /\ Takes("F", r, g)
      /\ rp => i = ForwardChunk(g)
      /\ rn <=> n + 1 < Total /\ Takes("B", r, n + 1)
      /\ rn => j = BackwardChunk(n + 1)
  <2>1. /\ SteadyRecvPrev(r) <=> g < Total /\ Takes("F", r, g)
        /\ SteadyRecvPrev(r) => SteadyForwardChunk(r) = ForwardChunk(g)
        /\ SteadyRecvNext(r) <=> n + 1 < Total /\ Takes("B", r, n + 1)
        /\ SteadyRecvNext(r) => SteadyBackwardChunk(r) = BackwardChunk(n + 1)
    BY <1>1, <1>3, SteadyReceives
  <2>2. rp \in BOOLEAN /\ rn \in BOOLEAN
    BY DEF SteadyRecvPrev, SteadyRecvNext
  <2>. QED BY <2>1, <2>2
<1>7. /\ ~Sending("B", r) /\ ~Receiving("B", r)
      /\ P2P # "overlap" => ~Sending("F", r) /\ ~Receiving("F", r)
  <2>1. CASE P2P = "overlap"
    BY <1>3, <1>5, <2>1, NotWaiting
  <2>2. CASE P2P # "overlap"
    <3>1. Idle(r)
      BY <1>3, <2>2 DEF Linked, Quiet, Halfway
    <3>. QED BY <1>5, <3>1, IdleIs
  <2>. QED BY <2>1, <2>2
<1>8. Len(gotB[r]) = Takings("B", r, n + 1)
  BY <1>4, <1>5, <1>7, AllReceived DEF Got, Pass
<1>9. RunsBackward(r, n, c)
  <2>1. /\ Received("F", r) /\ Received("B", r) /\ GradFiled(r, c)
        /\ fwd'[r] = fwd[r] /\ losses'[r] = losses[r]
    BY <1>3, <1>4, <1>5 DEF Linked, NoForwardRow
  <2>2. n = Ran("B", r) /\ Ran("B", r)' = n + 1 /\ Ran("F", r)' = Ran("F", r) /\ n < Total
    BY <1>4, <1>5
  <2>3. n + (C - 1) * P < Ran("F", r)
    <3>1. n < NumRemaining(r)
      BY <1>1, <1>3 DEF Position
    <3>2. /\ NumWarmup(r) \in Nat /\ NumRemaining(r) = Total - NumWarmup(r)
          /\ ForwardOnly \/ AllWarmup => NumWarmup(r) = Total
          /\ ~ForwardOnly /\ ~AllWarmup => (C - 1) * P <= NumWarmup(r)
      BY <1>5, Warmups
    <3>. PICK z \in Int : z = (C - 1) * P
      BY Basics
    <3>3. z <= NumWarmup(r)
      BY <1>5, <3>1, <3>2
    <3>4. g = NumWarmup(r) + n + 1
      OBVIOUS
    <3>5. n + z < g
      BY <1>5, <3>2, <3>3, <3>4
    <3>. QED BY <1>4, <3>5
  <2>. QED BY <1>3, <1>4, <1>8, <2>1, <2>2, <2>3, BackwardLocal
<1>10. Asks("F", r, rq) /\ Asks("B", r, rn)
  <2>1. Asks("B", r, rn)
    <3>. PICK w \in 0 .. Total : w = n + 1
      BY <1>5
    <3>1. Wanted("B", r) = w /\ Wanted("B", r)' = NextOf(w) /\ (rn <=> w < Total /\ Takes("B", r, w))
      BY <1>4, <1>6
    <3>. QED BY <1>5, <1>6, <1>7, <3>1, AskNext
  <2>2. CASE P2P = "overlap"
    <3>1. Wanted("F", r)' = Wanted("F", r) /\ rq = FALSE
      BY <1>4, <2>2
    <3>. QED BY <1>5, <2>1, <3>1, AskNone
  <2>3. CASE P2P # "overlap"
    <3>1. Wanted("F", r) = g /\ Wanted("F", r)' = NextOf(g) /\ (rq <=> g < Total /\ Takes("F", r, g))
      BY <1>4, <1>6, <2>3
    <3>. QED BY <1>5, <1>7, <2>1, <2>3, <3>1, AskNext
  <2>. QED BY <2>2, <2>3
<1>11. /\ Asked(r)'
       /\ b = IF g < Total /\ Takes("F", r, g) THEN Takings("F", r, g) + 1 ELSE None
       /\ h = IF n + 1 < Total /\ Takes("B", r, n + 1) THEN Takings("B", r, n + 1) + 1 ELSE None
  <2>1. askF[r] = Takings("F", r, g) /\ askB[r] = Takings("B", r, n + 1)
    BY <1>1, <1>3, <1>4 DEF Asked
  <2>2. /\ askF'[r] = (IF rp THEN askF[r] + 1 ELSE askF[r])
        /\ askB'[r] = (IF rn THEN askB[r] + 1 ELSE askB[r])
    BY <1>3 DEF AskRow
  <2>3. /\ Takings("F", r, NextOf(g)) = Takings("F", r, g) + (IF g < Total /\ Takes("F", r, g) THEN 1 ELSE 0)
        /\ Takings("F", r, g) \in Nat
    BY <1>5, TakingsNext
  <2>4. askF'[r] = Takings("F", r, NextOf(g))
    BY <1>6, <2>1, <2>2, <2>3
  <2>5. Takings("B", r, n + 1) \in Nat
    BY <1>5, TakingsNext
  <2>6. askB'[r] = Takings("B", r, Wanted("B", r)')
    BY <1>4, <1>6, <1>10, <2>1, <2>2, <2>5 DEF Asks
  <2>7. b = IF g < Total /\ Takes("F", r, g) THEN Takings("F", r, g) + 1 ELSE None
    BY <1>6, <2>1 DEF NextF
  <2>8. h = IF n + 1 < Total /\ Takes("B", r, n + 1) THEN Takings("B", r, n + 1) + 1 ELSE None
    BY <1>6, <2>1 DEF NextB
  <2>. QED BY <1>4, <2>4, <2>6, <2>7, <2>8 DEF Asked
<1>12. InputLists(r)' /\ Over(Chunk, input_tensors'[r])
  <2>1. UsedInputs(r, Y)
    BY <1>1, <1>9, BackwardLists
  <2>2. \A x \in Chunk : fwd'[r][x] = Count(g, x) /\ fwd'[r][x] \in 0 .. M
    <3>1. Counted(r)'
      BY <1>9 DEF RunsBackward
    <3>. QED BY <1>4, <1>9, <3>1 DEF Counted, RunsBackward
  <2>3. \A x \in Chunk : fwd'[r][x] + 0 = fwd'[r][x]
    BY <1>5, <2>2
  <2>4. RanInputs(r, g, Y)
    BY <1>4, <2>1, <2>2, <2>3 DEF RanInputs, UsedInputs
  <2>5. CASE rp
    <3>1. i = ForwardChunk(g) /\ input_tensors'[r] = [Y EXCEPT ![i] = Append(@, b)]
      BY <1>3, <1>6, <2>5
    <3>2. \A x \in Chunk : Filed(r, x)' <=> x = i
      <4>1. ~FirstStage(r, i) /\ ~last
        BY <1>4, <1>5, <1>6, <2>5, <3>1, Ends
      <4>. QED BY <1>4, <3>1, <4>1
    <3>3. FilesInput(r, g, i, Y, b)
      BY <1>11, <2>4, <3>1, <3>2 DEF FilesInput, RanInputs
    <3>. QED BY <1>5, <3>3, InputFiling
  <2>6. CASE ~rp
    <3>1. \A x \in Chunk : ~Filed(r, x)'
      <4>1. last \/ FirstStage(r, ForwardChunk(g))
        BY <1>4, <1>5, <1>6, <2>6, Ends
      <4>. QED BY <1>4, <4>1
    <3>2. input_tensors'[r] = Y
      BY <1>3, <2>6
    <3>. QED BY <2>2, <2>4, <3>1, <3>2, InputsUnfiled DEF RanInputs
  <2>. QED BY <2>5, <2>6
<1>13. GradLists(r)' /\ Over(Chunk, output_tensor_grads'[r])
  <2>. PICK e : e = BackwardChunk(n + 1)
    OBVIOUS
  <2>1. NoGrads(X)
    BY <1>1, <1>4, <1>9, BackwardGrads
  <2>2. \A x \in Chunk : bwd'[r][x] = Count(n + 1, C - 1 - x)
    BY <1>9 DEF RunsBackward
  <2>3. \/ output_tensor_grads'[r] = [X EXCEPT ![e] = Append(@, h)]
        \/ output_tensor_grads'[r] = X /\ h = None
    <3>1. ~rn => h = None
      BY DEF NextB
    <3>. QED BY <1>3, <1>6, <3>1
  <2>4. FilesGrad(r, n + 1, e, X, h)
    BY <1>4, <1>11, <2>1, <2>2, <2>3 DEF FilesGrad, NoGrads
  <2>. QED BY <1>5, <2>4, GradFiling
<1>14. OutputLists(r)'
  BY <1>9 DEF OutputLists, RunsBackward
<1>15. Result(r)'
  BY <1>4 DEF Result
<1>16. Reductions(r)'
  <2>1. \A x \in Chunk : bwd'[r][x] = Count(n + 1, C - 1 - x)
    BY <1>9 DEF RunsBackward
  <2>2. n = Ran("B", r) /\ phase[r] # "done" /\ phase'[r] # "done"
    BY <1>3, <1>4
  <2>. QED BY <1>1, <1>3, <1>4, <2>1, <2>2, ReductionsBackward
<1>17. ArraysOf(r)'
  <2>1. Over(Rank, ops'[r]) /\ output_tensor'[r] = output_tensor[r]
    BY <1>3 DEF Behind, Over, NoForwardRow
  <2>. QED BY <1>1, <1>9, <1>12, <1>13, <2>1 DEF ArraysOf, RunsBackward
<1>18. Local(r)'
  BY <1>4, <1>9, <1>11, <1>12, <1>13, <1>14, <1>15, <1>16, <1>17 DEF Local, Lists, RunsBackward
<1>19. Linked(r)'
  <2>1. Posted(r, o, sn, sp, rq, rn)
    BY <1>6, OperationsAre
  <2>2. Sends("F", r, sn)
    <3>1. CASE P2P = "overlap"
      BY <1>4, <3>1 DEF Sends
    <3>2. CASE P2P # "overlap"
      <4>1. sn = IF Gives("F", r, g - 1) THEN Yields("F", r, g - 1) ELSE None
        BY <1>1, <1>3, <1>4, <3>2 DEF Result
      <4>2. Sent("F", r) = g - 1 /\ Sent("F", r)' = (g - 1) + 1 /\ g - 1 < Total
        BY <1>4, <1>5, <3>2
      <4>. QED BY <1>7, <3>2, <4>1, <4>2 DEF Sends
    <3>. QED BY <3>1, <3>2
  <2>3. Sends("B", r, sp)
    BY <1>4, <1>5, <1>7, <1>9 DEF Sends, RunsBackward
  <2>4. Runs("F", r) /\ Runs("B", r)
    BY <1>4, <1>5, <1>7 DEF Runs
  <2>5. Elsewhere(r)' /\ \A d \in Pass : Received(d, r)' /\ Queues(d, r)'
    <3>1. Position(r) /\ Position(r)' /\ UNCHANGED got /\ ops'[r] = Behind(ops[r], o)
      BY <1>1, <1>3, <1>4
    <3>. QED BY <1>6, <1>10, <2>1, <2>2, <2>3, <2>4, <3>1, Linking
  <2>6. Quiet(r)'
    BY <1>4 DEF Quiet, Halfway
  <2>. QED BY <2>5, <2>6 DEF Linked
<1>. QED BY <1>3, <1>18, <1>19 DEF Preserved

LEMMA DrainStep ==
  ASSUME Configuration, Arrays, NEW r \in Rank, Local(r), Linked(r), Drain(r)
  PROVE  Preserved(r)
<1>. PICK n : n = NumRemaining(r)
  OBVIOUS
<1>. PICK rn : rn = (AllWarmup /\ ~LastRank(r))
  OBVIOUS
<1>. PICK o : o = Operations(r, None, None, FALSE, rn)
  OBVIOUS
<1>. PICK b : b = NextB(r, rn)
  OBVIOUS
<1>. PICK X : X = output_tensor_grads[r]
  OBVIOUS
<1>1. /\ ArraysOf(r) /\ Position(r) /\ Counted(r) /\ Lists(r) /\ Asked(r) /\ Result(r)
      /\ Losses(r) /\ Reductions(r) /\ clean[r] = TRUE
  BY DEF Local
<1>2. DrainGoes(r, rn)
  BY DrainRow
<1>3. /\ Arrays' /\ Others(r) /\ UNCHANGED got
      /\ phase[r] = "drain" /\ Waited(r, "B")
      /\ LoopRow(r, IF NumRemaining(r) = Total THEN "finish" ELSE "cooldown", NumRemaining(r), half[r])
      /\ AskRow(r, FALSE, rn) /\ NoForwardRow(r) /\ NoBackwardRow(r)
      /\ output_tensors'[r] = output_tensors[r] /\ clean'[r] = clean[r]
      /\ input_tensors'[r] = input_tensors[r]
      /\ output_tensor_grads'[r] = (IF AllWarmup THEN [X EXCEPT ![C - 1] = Append(@, b)] ELSE X)
      /\ ops'[r] = Behind(ops[r], o)
  BY <1>2 DEF DrainGoes
<1>4. /\ Position(r)' /\ ~half[r] /\ ~half'[r] /\ n \in 0 .. Total /\ ~ForwardOnly
      /\ phase'[r] \notin {"init", "done"} /\ (AllWarmup => n = 0)
      /\ \A d \in Pass : Ran(d, r)' = Ran(d, r) /\ Sent(d, r)' = Sent(d, r)
      /\ Wanted("F", r)' = Wanted("F", r) /\ Ran("B", r) = n
      /\ Wanted("B", r) = (IF AllWarmup THEN 0 ELSE NextOf(n)) /\ Wanted("B", r)' = NextOf(n)
      /\ \A x : Filed(r, x)' <=> Filed(r, x)
      /\ \A x : GradFiled(r, x) <=> (~AllWarmup /\ x = BackwardChunk(n))
      /\ \A x : GradFiled(r, x)' <=> x = BackwardChunk(n)
  <2>1. /\ LoopRow(r, IF NumRemaining(r) = Total THEN "finish" ELSE "cooldown", NumRemaining(r), half[r])
        /\ Position(r) /\ phase[r] = "drain"
    BY <1>1, <1>3
  <2>. QED BY ONLY Configuration, r \in Rank, n = NumRemaining(r), <2>1, DrainMoves
<1>5. /\ Total \in Nat /\ M \in Nat /\ 0 < Total /\ 0 \in 0 .. Total /\ "F" \in Pass /\ "B" \in Pass
      /\ Wanted("F", r) \in 0 .. Total /\ Wanted("B", r) \in 0 .. Total
  <2>1. Total \in Nat \ {0} /\ M \in Nat /\ "F" \in Pass /\ "B" \in Pass
    BY Basics DEF Pass
  <2>2. Wanted("F", r) \in 0 .. Total /\ Wanted("B", r) \in 0 .. Total
    BY <1>1, <2>1, RanIs
  <2>. QED BY <2>1, <2>2
<1>6. /\ Takings("B", r, 0) = 0 /\ Takings("B", r, 1) = (IF LastRank(r) THEN 0 ELSE 1)
      /\ (Takes("B", r, 0) <=> ~LastRank(r)) /\ BackwardChunk(0) = C - 1
  BY FirstTakes
<1>7. rn \in BOOLEAN /\ AllWarmup \in BOOLEAN
  BY DEF AllWarmup
<1>8. ~Sending("B", r) /\ ~Receiving("B", r)
  BY <1>3, <1>5, WaitedFor
<1>9. Asks("F", r, FALSE) /\ Asks("B", r, rn)
  <2>1. Asks("F", r, FALSE)
    BY <1>4, <1>5, AskNone
  <2>2. CASE AllWarmup
    <3>1. Takings("B", r, Wanted("B", r)') = (IF rn THEN 1 ELSE 0)
      <4>1. NextOf(n) = 1
        BY <1>4, <1>5, <2>2 DEF NextOf
      <4>2. Wanted("B", r)' = 1
        BY <1>4, <4>1
      <4>3. rn <=> ~LastRank(r)
        BY <2>2
      <4>. QED BY <1>6, <4>2, <4>3
    <3>2. Takings("B", r, Wanted("B", r)) = 0
      BY <1>4, <1>6, <2>2
    <3>3. Asks("B", r, rn)
      BY <1>8, <3>1, <3>2 DEF Asks
    <3>. QED BY <2>1, <3>3
  <2>3. CASE ~AllWarmup
    <3>1. Wanted("B", r)' = Wanted("B", r) /\ rn = FALSE
      BY <1>4, <2>3
    <3>. QED BY <1>5, <2>1, <3>1, AskNone
  <2>. QED BY <2>2, <2>3
<1>10. Asked(r)'
  <2>1. askF[r] = Takings("F", r, Wanted("F", r)) /\ askB[r] = Takings("B", r, Wanted("B", r))
    BY <1>1, <1>4 DEF Asked
  <2>2. askF'[r] = askF[r] /\ askB'[r] = (IF rn THEN askB[r] + 1 ELSE askB[r])
    BY <1>3 DEF AskRow
  <2>3. Takings("B", r, Wanted("B", r)) \in Nat
    BY <1>5, TakingsNext
  <2>4. askB'[r] = Takings("B", r, Wanted("B", r)')
    BY <1>7, <1>9, <2>1, <2>2, <2>3 DEF Asks
  <2>. QED BY <1>4, <2>1, <2>2, <2>4 DEF Asked
<1>11. fwd'[r] = fwd[r] /\ bwd'[r] = bwd[r] /\ losses'[r] = losses[r] /\ output_tensor'[r] = output_tensor[r]
       /\ in_sync'[r] = in_sync[r] /\ launches'[r] = launches[r]
  BY <1>3 DEF NoForwardRow, NoBackwardRow
<1>12. Counted(r)' /\ Losses(r)' /\ Result(r)' /\ clean'[r] = TRUE
  BY <1>1, <1>3, <1>4, <1>5, <1>11 DEF Counted, Losses, Result
<1>13. InputLists(r)' /\ OutputLists(r)'
  BY <1>1, <1>3, <1>4, <1>11 DEF Lists, InputLists, OutputLists, Oldest
<1>14. GradLists(r)' /\ Over(Chunk, output_tensor_grads'[r])
  <2>1. Over(Chunk, X)
    BY <1>1 DEF ArraysOf
  <2>2. CASE AllWarmup
    <3>1. \A x \in Chunk : X[x] = <<>>
      BY <1>1, <1>4, <2>2 DEF Lists, GradLists
    <3>2. \A x \in Chunk : bwd'[r][x] = Count(0, C - 1 - x)
      BY <1>4, <1>12, <1>5, <2>2 DEF Counted
    <3>3. PICK j : j = BackwardChunk(0)
      OBVIOUS
    <3>4. PICK z \in 0 .. Total : z = 0
      BY <1>5
    <3>5. b = IF z < Total /\ Takes("B", r, z) THEN Takings("B", r, z) + 1 ELSE None
      <4>1. askB[r] = 0
        BY <1>1, <1>4, <1>6, <2>2 DEF Asked
      <4>2. b = IF rn THEN askB[r] + 1 ELSE None
        BY DEF NextB
      <4>3. rn <=> ~LastRank(r)
        BY <2>2
      <4>. QED BY <1>5, <1>6, <3>4, <4>1, <4>2, <4>3
    <3>6. output_tensor_grads'[r] = [X EXCEPT ![j] = Append(@, b)]
      BY <1>3, <1>6, <2>2, <3>3
    <3>7. FilesGrad(r, z, j, X, b)
      BY <1>4, <2>1, <2>2, <3>1, <3>2, <3>3, <3>4, <3>5, <3>6 DEF FilesGrad
    <3>. QED BY <3>7, GradFiling
  <2>3. CASE ~AllWarmup
    <3>1. \A x : GradFiled(r, x)' <=> GradFiled(r, x)
      BY <1>4, <2>3
    <3>2. output_tensor_grads'[r] = output_tensor_grads[r]
      BY <1>3, <2>3
    <3>. QED BY <1>1, <1>11, <2>1, <3>1, <3>2 DEF Lists, GradLists
  <2>. QED BY <2>2, <2>3
<1>15. Reductions(r)'
  <2>1. Ran("B", r)' = Ran("B", r)
    BY <1>4, <1>5
  <2>. QED BY <1>1, <1>3, <1>4, <1>11, <2>1, ReductionsSame
<1>16. ArraysOf(r)'
  <2>1. Over(Rank, ops'[r])
    BY <1>3 DEF Behind, Over
  <2>. QED BY <1>1, <1>3, <1>11, <1>14, <2>1 DEF ArraysOf
<1>17. Local(r)'
  BY <1>4, <1>10, <1>12, <1>13, <1>14, <1>15, <1>16 DEF Local, Lists
<1>18. Linked(r)'
  <2>1. Posted(r, o, None, None, FALSE, rn)
    BY <1>7, OperationsAre
  <2>2. Sends("F", r, None) /\ Sends("B", r, None)
    BY <1>4, <1>5 DEF Sends
  <2>3. Runs("F", r) /\ Runs("B", r)
    BY <1>4, <1>5 DEF Runs
  <2>4. Elsewhere(r)' /\ \A d \in Pass : Received(d, r)' /\ Queues(d, r)'
    <3>1. Position(r) /\ Position(r)' /\ UNCHANGED got /\ ops'[r] = Behind(ops[r], o)
      BY <1>1, <1>3, <1>4
    <3>. QED BY <1>7, <1>9, <2>1, <2>2, <2>3, <3>1, Linking
  <2>5. Quiet(r)'
    BY <1>4 DEF Quiet, Halfway
  <2>. QED BY <2>4, <2>5 DEF Linked
<1>. QED BY <1>3, <1>17, <1>18 DEF Preserved

LEMMA FinishStep ==
  ASSUME Configuration, Arrays, NEW r \in Rank, Local(r), Linked(r), Finish(r)
  PROVE  Preserved(r)
<1>. PICK o : o = [s \in Rank |-> <<>>]
  OBVIOUS
<1>1. /\ ArraysOf(r) /\ Position(r) /\ Counted(r) /\ Lists(r) /\ Asked(r) /\ Result(r)
      /\ Losses(r) /\ Reductions(r) /\ clean[r] = TRUE
  BY DEF Local
<1>2. /\ Arrays' /\ Others(r) /\ UNCHANGED got
      /\ phase[r] = "finish" /\ LoopRow(r, "done", k[r], half[r])
      /\ AskRow(r, FALSE, FALSE) /\ NoForwardRow(r)
      /\ output_tensors'[r] = output_tensors[r] /\ clean'[r] = clean[r] /\ bwd'[r] = bwd[r]
      /\ input_tensors'[r] = input_tensors[r] /\ output_tensor_grads'[r] = output_tensor_grads[r]
      /\ ops'[r] = ops[r]
      /\ launches'[r] = [c \in Chunk |->
           IF ~ForwardOnly /\ (GradReduce = "finalize" \/ (GradReduce = "delay" /\ c \notin in_sync[r]))
           THEN Append(launches[r][c], bwd[r][c]) ELSE launches[r][c]]
      /\ in_sync'[r] = IF GradReduce = "delay" /\ ~ForwardOnly THEN Chunk ELSE in_sync[r]
  BY FinishRow
<1>3. /\ Position(r)' /\ ~half[r] /\ ~half'[r]
      /\ \A d \in Pass : Ran(d, r)' = Ran(d, r) /\ Sent(d, r)' = Sent(d, r) /\ Wanted(d, r)' = Wanted(d, r)
      /\ Ran("F", r) = Total /\ (~ForwardOnly => Ran("B", r) = Total)
      /\ \A x : Filed(r, x)' <=> Filed(r, x)
      /\ \A x : GradFiled(r, x)' <=> GradFiled(r, x)
  BY <1>1, <1>2, FinishMoves
<1>4. "F" \in Pass /\ "B" \in Pass /\ \A d \in Pass : Wanted(d, r) \in 0 .. Total
  BY <1>1, RanIs DEF Pass
<1>5. fwd'[r] = fwd[r] /\ bwd'[r] = bwd[r] /\ losses'[r] = losses[r] /\ output_tensor'[r] = output_tensor[r]
      /\ askF'[r] = askF[r] /\ askB'[r] = askB[r]
  BY <1>2 DEF NoForwardRow, AskRow
<1>6. Counted(r)' /\ Losses(r)' /\ Result(r)' /\ Asked(r)' /\ clean'[r] = TRUE
  BY <1>1, <1>2, <1>3, <1>4, <1>5 DEF Counted, Losses, Result, Asked
<1>7. InputLists(r)' /\ OutputLists(r)' /\ GradLists(r)'
  BY <1>1, <1>2, <1>3, <1>5 DEF Lists, InputLists, OutputLists, GradLists, Oldest
<1>8. ArraysOf(r)'
  BY <1>1, <1>2, <1>5 DEF ArraysOf
<1>9. Reductions(r)'
  <2>1. Synced(r)' = Synced(r) /\ Synced(r) \in Nat
    <3>1. Ran("B", r)' = Ran("B", r) /\ Ran("B", r) \in Nat
      BY <1>1, <1>3, <1>4, RanIs, Basics
    <3>. QED BY <3>1 DEF Synced, Rank
  <2>2. phase'[r] = "done" /\ phase[r] # "done"
    BY <1>2 DEF LoopRow
  <2>3. \A c \in Chunk : C - 1 - c \in Chunk
    BY Basics DEF Chunk
  <2>4. ~ForwardOnly => \A c \in Chunk : bwd[r][c] = M
    <3>. SUFFICES ASSUME ~ForwardOnly, NEW c \in Chunk PROVE bwd[r][c] = M
      OBVIOUS
    <3>1. bwd[r][c] = Count(Total, C - 1 - c)
      BY <1>1, <1>3 DEF Counted
    <3>. QED BY <2>3, <3>1, CountEnds
  <2>5. ~ForwardOnly /\ GradReduce \notin {"finalize", "delay"} => \A c \in Chunk : Count(Synced(r), C - 1 - c) = M
    <3>. SUFFICES ASSUME ~ForwardOnly, GradReduce \notin {"finalize", "delay"}, NEW c \in Chunk
                  PROVE  Count(Synced(r), C - 1 - c) = M
      OBVIOUS
    <3>1. Synced(r) = Total
      BY <1>3 DEF Synced
    <3>. QED BY <2>3, <3>1, CountEnds
  <2>6. \A c \in Chunk : Reduced(r, c) <=> (GradReduce # "finalize" /\ Count(Synced(r), C - 1 - c) = M)
    BY <2>2 DEF Reduced
  <2>7. \A c \in Chunk : Reduced(r, c)' <=>
           IF GradReduce = "finalize" THEN ~ForwardOnly
           ELSE Count(Synced(r), C - 1 - c) = M \/ (GradReduce = "delay" /\ ~ForwardOnly)
    BY <2>1, <2>2 DEF Reduced
  <2>8. in_sync[r] = {c \in Chunk : Count(Synced(r), C - 1 - c) = M}
    <3>1. \A c \in Chunk : GradReduce = "delay" /\ Reduced(r, c) => Count(Synced(r), C - 1 - c) = M
      BY <2>6
    <3>. QED BY <1>1, <3>1 DEF Reductions
  <2>9. in_sync'[r] = {c \in Chunk : Count(Synced(r)', C - 1 - c) = M \/ (GradReduce = "delay" /\ Reduced(r, c)')}
    <3>1. CASE GradReduce = "delay" /\ ~ForwardOnly
      BY <1>2, <2>7, <3>1
    <3>2. CASE ~(GradReduce = "delay" /\ ~ForwardOnly)
      <4>1. \A c \in Chunk : (GradReduce = "delay" /\ Reduced(r, c)') => Count(Synced(r), C - 1 - c) = M
        BY <2>7, <3>2
      <4>2. in_sync'[r] = in_sync[r]
        BY <1>2, <3>2
      <4>. QED BY <2>1, <2>8, <4>1, <4>2
    <3>. QED BY <3>1, <3>2
  <2>10. launches'[r] = [c \in Chunk |-> IF Reduced(r, c)' THEN <<M>> ELSE <<>>]
    <3>1. launches[r] = [c \in Chunk |-> IF Reduced(r, c) THEN <<M>> ELSE <<>>]
      BY <1>1 DEF Reductions
    <3>2. ASSUME NEW c \in Chunk
          PROVE  launches'[r][c] = IF Reduced(r, c)' THEN <<M>> ELSE <<>>
      <4>1. launches[r][c] = IF Reduced(r, c) THEN <<M>> ELSE <<>>
        BY <3>1
      <4>2. c \in in_sync[r] <=> Count(Synced(r), C - 1 - c) = M
        BY <2>8
      <4>3. CASE ~ForwardOnly /\ (GradReduce = "finalize" \/ (GradReduce = "delay" /\ c \notin in_sync[r]))
        <5>1. launches'[r][c] = Append(launches[r][c], bwd[r][c])
          BY <1>2, <4>3
        <5>2. ~Reduced(r, c) /\ Reduced(r, c)'
          BY <2>6, <2>7, <4>2, <4>3
        <5>. QED BY <2>4, <4>1, <4>3, <5>1, <5>2, Appended
      <4>4. CASE ~(~ForwardOnly /\ (GradReduce = "finalize" \/ (GradReduce = "delay" /\ c \notin in_sync[r])))
        <5>1. launches'[r][c] = launches[r][c]
          BY <1>2, <4>4
        <5>2. Reduced(r, c)' <=> Reduced(r, c)
          BY <2>6, <2>7, <4>2, <4>4
        <5>. QED BY <4>1, <5>1, <5>2
      <4>. QED BY <4>3, <4>4
    <3>. QED BY <1>2, <3>2
  <2>. QED BY <2>9, <2>10 DEF Reductions
<1>10. Local(r)'
  BY <1>3, <1>6, <1>7, <1>8, <1>9 DEF Local, Lists
<1>11. Linked(r)'
  <2>1. gotF' = gotF /\ gotB' = gotB
    BY <1>2 DEF got
  <2>2. ASSUME NEW d \in Pass PROVE Received(d, r)' /\ Queues(d, r)'
    <3>1. /\ Ran(d, r)' = Ran(d, r) /\ Sent(d, r)' = Sent(d, r) /\ Wanted(d, r)' = Wanted(d, r)
          /\ Other(d) \in Pass /\ Received(d, r) /\ Queues(d, r)
      BY <1>3, Ring DEF Linked
    <3>2. Wanted(Other(d), r)' = Wanted(Other(d), r)
      BY <1>3, <3>1
    <3>3. Received(d, r)'
      BY <2>1, <3>1 DEF Received, Got
    <3>4. Queues(d, r)'
      BY <1>2, <2>1, <3>1, <3>2 DEF Queues, Sending, Receiving, Got
    <3>. QED BY <3>3, <3>4
  <2>3. Elsewhere(r)' /\ Quiet(r)'
    BY <1>2, <1>3 DEF Linked, Elsewhere, Quiet, Halfway
  <2>. QED BY <2>2, <2>3 DEF Linked
<1>. QED BY <1>2, <1>10, <1>11 DEF Preserved

LEMMA CooldownStep ==
  ASSUME Configuration, Arrays, NEW r \in Rank, Local(r), Linked(r), Cooldown(r)
  PROVE  Preserved(r)
<1>. PICK n : n = k[r]
  OBVIOUS
<1>. PICK c : c = BackwardChunk(n)
  OBVIOUS
<1>. PICK e : e = BackwardChunk(n + 1)
  OBVIOUS
<1>. PICK rn : rn = CooldownRecvNext(r)
  OBVIOUS
<1>. PICK last : last = LastCooldown(r)
  OBVIOUS
<1>. PICK sp : sp = InputGrad(r, c)
  OBVIOUS
<1>. PICK o : o = Operations(r, None, sp, FALSE, rn)
  OBVIOUS
<1>. PICK b : b = NextB(r, rn)
  OBVIOUS
<1>1. /\ ArraysOf(r) /\ Position(r) /\ Counted(r) /\ Lists(r) /\ Asked(r) /\ Result(r)
      /\ Losses(r) /\ Reductions(r) /\ clean[r] = TRUE
  BY DEF Local
<1>2. CooldownGoes(r, c, e, rn, last)
  <2>1. c = BackwardChunk(k[r]) /\ e = BackwardChunk(k[r] + 1)
    OBVIOUS
  <2>. QED BY <2>1, CooldownRow
<1>3. /\ Arrays' /\ Others(r) /\ UNCHANGED got
      /\ phase[r] = "cooldown" /\ Waited(r, "B")
      /\ LoopRow(r, IF last THEN "finish" ELSE phase[r], IF last THEN 0 ELSE k[r] + 1, half[r])
      /\ AskRow(r, FALSE, rn) /\ NoForwardRow(r) /\ BackwardRow(r, n)
      /\ input_tensors'[r] = [input_tensors[r] EXCEPT ![c] = Tail(@)]
      /\ output_tensor_grads'[r] =
           [[output_tensor_grads[r] EXCEPT ![c] = Tail(Grads(r, c))] EXCEPT ![e] = Append(@, b)]
      /\ ops'[r] = Behind(ops[r], o)
  BY <1>2 DEF CooldownGoes
<1>4. /\ Position(r)' /\ ~half[r] /\ ~half'[r] /\ n \in 0 .. Total - 1 /\ ~ForwardOnly
      /\ phase'[r] \notin {"init", "done"}
      /\ Ran("F", r)' = Ran("F", r) /\ Sent("F", r)' = Sent("F", r) /\ Wanted("F", r)' = Wanted("F", r)
      /\ Ran("F", r) = Total
      /\ Ran("B", r) = n /\ Wanted("B", r) = n + 1 /\ Sent("B", r) = n
      /\ Ran("B", r)' = n + 1 /\ Wanted("B", r)' = NextOf(n + 1) /\ Sent("B", r)' = n + 1
      /\ \A x : Filed(r, x)' <=> Filed(r, x)
      /\ \A x : GradFiled(r, x) <=> x = BackwardChunk(n)
      /\ \A x : GradFiled(r, x)' <=> x = BackwardChunk(n + 1)
  BY <1>1, <1>3, CooldownMoves
<1>5. /\ n \in Nat /\ n < Total /\ n + 1 \in 0 .. Total /\ n + 1 \in Int /\ Total \in Nat /\ M \in Nat
      /\ "F" \in Pass /\ "B" \in Pass /\ Wanted("F", r) \in 0 .. Total
  <2>1. Total \in Nat /\ M \in Nat /\ "F" \in Pass
    BY Basics DEF Pass
  <2>2. Wanted("F", r) \in 0 .. Total
    BY <1>1, <2>1, RanIs
  <2>. QED BY <1>4, <2>1, <2>2 DEF Pass
<1>6. rn \in BOOLEAN /\ (rn <=> n + 1 < Total /\ Takes("B", r, n + 1))
  <2>1. rn <=> ~(LastRank(r) /\ BackwardChunk(n + 1) = C - 1) /\ n # Total - 1
    BY DEF CooldownRecvNext
  <2>2. BackwardChunk(n + 1) = C - 1 <=> ForwardChunk(n + 1) = 0
    <3>1. ForwardChunk(n + 1) \in Int /\ C \in Int
      <4>. PICK h \in Int : h = n + 1
        BY <1>5
      <4>. QED BY ForwardChunkIs, Basics DEF Chunk
    <3>. QED BY <3>1 DEF BackwardChunk
  <2>3. Takes("B", r, n + 1) <=> ~(LastRank(r) /\ ForwardChunk(n + 1) = 0)
    BY PlaceIs DEF Takes
  <2>4. n # Total - 1 <=> n + 1 < Total
    BY <1>5
  <2>. QED BY <2>1, <2>2, <2>3, <2>4 DEF CooldownRecvNext
<1>7. ~Sending("B", r) /\ ~Receiving("B", r)
  BY <1>3, <1>5, WaitedFor
<1>8. Len(gotB[r]) = Takings("B", r, n + 1)
  BY <1>4, <1>5, <1>7, AllReceived DEF Got, Pass
<1>9. RunsBackward(r, n, c)
  <2>1. /\ Received("F", r) /\ Received("B", r) /\ GradFiled(r, c)
        /\ fwd'[r] = fwd[r] /\ losses'[r] = losses[r]
    BY <1>3, <1>4, <1>5 DEF Linked, NoForwardRow
  <2>2. n = Ran("B", r) /\ Ran("B", r)' = n + 1 /\ Ran("F", r)' = Ran("F", r) /\ Ran("F", r) = Total /\ n < Total
    BY <1>4, <1>5
  <2>. QED BY <1>3, <1>4, <1>8, <2>1, <2>2, BackwardLocal
<1>10. Asks("F", r, FALSE) /\ Asks("B", r, rn)
  <2>1. Asks("B", r, rn)
    <3>. PICK w \in 0 .. Total : w = n + 1
      BY <1>5
    <3>1. Wanted("B", r) = w /\ Wanted("B", r)' = NextOf(w) /\ (rn <=> w < Total /\ Takes("B", r, w))
      BY <1>4, <1>6
    <3>. QED BY <1>5, <1>6, <1>7, <3>1, AskNext
  <2>2. Asks("F", r, FALSE)
    BY <1>4, <1>5, AskNone
  <2>. QED BY <2>1, <2>2
<1>11. Asked(r)' /\ b = IF n + 1 < Total /\ Takes("B", r, n + 1) THEN Takings("B", r, n + 1) + 1 ELSE None
  <2>1. askF[r] = Takings("F", r, Wanted("F", r)) /\ askB[r] = Takings("B", r, n + 1)
    BY <1>1, <1>4 DEF Asked
  <2>2. askF'[r] = askF[r] /\ askB'[r] = (IF rn THEN askB[r] + 1 ELSE askB[r])
    BY <1>3 DEF AskRow
  <2>3. Takings("B", r, n + 1) \in Nat
    BY <1>5, TakingsNext
  <2>4. askB'[r] = Takings("B", r, Wanted("B", r)')
    BY <1>4, <1>6, <1>10, <2>1, <2>2, <2>3 DEF Asks
  <2>5. b = IF n + 1 < Total /\ Takes("B", r, n + 1) THEN Takings("B", r, n + 1) + 1 ELSE None
    BY <1>6, <2>1 DEF NextB
  <2>. QED BY <1>4, <2>1, <2>2, <2>4, <2>5 DEF Asked
<1>12. InputLists(r)' /\ Over(Chunk, input_tensors'[r])
  <2>1. UsedInputs(r, input_tensors'[r])
    BY <1>1, <1>3, <1>9, BackwardLists
  <2>. QED BY <1>4, <2>1 DEF InputLists, UsedInputs
<1>13. GradLists(r)' /\ Over(Chunk, output_tensor_grads'[r])
  <2>. PICK X : X = [output_tensor_grads[r] EXCEPT ![c] = Tail(Grads(r, c))]
    OBVIOUS
  <2>1. NoGrads(X)
    BY <1>1, <1>4, <1>9, BackwardGrads
  <2>2. \A x \in Chunk : bwd'[r][x] = Count(n + 1, C - 1 - x)
    BY <1>9 DEF RunsBackward
  <2>3. output_tensor_grads'[r] = [X EXCEPT ![e] = Append(@, b)]
    BY <1>3
  <2>4. FilesGrad(r, n + 1, e, X, b)
    BY <1>4, <1>11, <2>1, <2>2, <2>3 DEF FilesGrad, NoGrads
  <2>. QED BY <1>5, <2>4, GradFiling
<1>14. OutputLists(r)'
  BY <1>9 DEF OutputLists, RunsBackward
<1>15. Result(r)'
  BY <1>4 DEF Result
<1>16. Reductions(r)'
  <2>1. \A x \in Chunk : bwd'[r][x] = Count(n + 1, C - 1 - x)
    BY <1>9 DEF RunsBackward
  <2>2. n = Ran("B", r) /\ phase[r] # "done" /\ phase'[r] # "done"
    BY <1>3, <1>4
  <2>. QED BY <1>1, <1>3, <1>4, <2>1, <2>2, ReductionsBackward
<1>17. ArraysOf(r)'
  <2>1. Over(Rank, ops'[r]) /\ output_tensor'[r] = output_tensor[r]
    BY <1>3 DEF Behind, Over, NoForwardRow
  <2>. QED BY <1>1, <1>9, <1>12, <1>13, <2>1 DEF ArraysOf, RunsBackward
<1>18. Local(r)'
  BY <1>4, <1>9, <1>11, <1>12, <1>13, <1>14, <1>15, <1>16, <1>17 DEF Local, Lists, RunsBackward
<1>19. Linked(r)'
  <2>1. Posted(r, o, None, sp, FALSE, rn)
    BY <1>6, OperationsAre
  <2>2. Sends("F", r, None) /\ Sends("B", r, sp)
    BY <1>4, <1>5, <1>7, <1>9 DEF Sends, RunsBackward
  <2>3. Runs("F", r) /\ Runs("B", r)
    BY <1>4, <1>5, <1>7 DEF Runs
  <2>4. Elsewhere(r)' /\ \A d \in Pass : Received(d, r)' /\ Queues(d, r)'
    <3>1. Position(r) /\ Position(r)' /\ UNCHANGED got /\ ops'[r] = Behind(ops[r], o)
      BY <1>1, <1>3, <1>4
    <3>. QED BY <1>6, <1>10, <2>1, <2>2, <2>3, <3>1, Linking
  <2>5. Quiet(r)'
    BY <1>4 DEF Quiet, Halfway
  <2>. QED BY <2>4, <2>5 DEF Linked
<1>. QED BY <1>3, <1>18, <1>19 DEF Preserved

-------------------------------------------------------------------------------
(* The transport                                                                 *)

LEMMA Removals ==
  ASSUME NEW x, NEW y
  PROVE  /\ RemoveAt(<<x>>, 1) = <<>> /\ RemoveAt(<<x, y>>, 1) = <<y>> /\ RemoveAt(<<x, y>>, 2) = <<x>>
<1>. DEFINE S == {x, y}
            p == <<x>>
            z == <<x, y>>
<1>1. /\ <<>> \o <<>> = <<>>
      /\ \A w : <<>> \o <<w>> = <<w>> /\ <<w>> \o <<>> = <<w>>
  BY Concatenations
<1>2. /\ Len(p) = 1 /\ Len(z) = 2 /\ z[1] = x /\ z[2] = y /\ x \in S /\ y \in S
  OBVIOUS
<1>. HIDE DEF S, p, z
<1>3. /\ SubSeq(p, 1, 0) = <<>> /\ SubSeq(p, 2, 1) = <<>>
      /\ SubSeq(z, 1, 0) = <<>> /\ SubSeq(z, 3, 2) = <<>>
  BY SubSeqEmpty
<1>4. ASSUME NEW w \in S, NEW i \in Int, z[i] = w
      PROVE  SubSeq(z, i, i) = <<w>>
  <2>1. /\ SubSeq(z, i, i) \in Seq(S) /\ Len(SubSeq(z, i, i)) = (IF i <= i THEN i - i + 1 ELSE 0)
        /\ \A j \in 1 .. i - i + 1 : SubSeq(z, i, i)[j] = z[i + j - 1]
    <3>1. \A j \in i .. i : z[j] \in S
      BY <1>4
    <3>. QED BY <3>1, SubSeqProperties
  <2>2. i <= i /\ i - i + 1 = 1 /\ 1 \in 1 .. 1 /\ i + 1 - 1 = i
    OBVIOUS
  <2>3. SubSeq(z, i, i) \in Seq(S) /\ Len(SubSeq(z, i, i)) = 1 /\ SubSeq(z, i, i)[1] = w
    BY <1>4, <2>1, <2>2
  <2>. DEFINE u == <<w>>
              v == SubSeq(z, i, i)
  <2>4. u \in Seq(S) /\ Len(u) = 1 /\ u[1] = w
    OBVIOUS
  <2>5. v \in Seq(S) /\ Len(v) = 1 /\ v[1] = w
    BY <2>3
  <2>. HIDE DEF u, v
  <2>6. u = v
    BY <2>4, <2>5
  <2>. QED BY <2>6 DEF u, v
<1>5. SubSeq(z, 1, 1) = <<x>> /\ SubSeq(z, 2, 2) = <<y>>
  <2>1. 1 \in Int /\ 2 \in Int
    OBVIOUS
  <2>. QED BY <1>2, <1>4, <2>1
<1>6. RemoveAt(p, 1) = SubSeq(p, 1, 0) \o SubSeq(p, 2, 1)
  BY <1>2 DEF RemoveAt
<1>7. /\ RemoveAt(z, 1) = SubSeq(z, 1, 0) \o SubSeq(z, 2, 2)
      /\ RemoveAt(z, 2) = SubSeq(z, 1, 1) \o SubSeq(z, 3, 2)
  BY <1>2 DEF RemoveAt
<1>8. RemoveAt(p, 1) = <<>> /\ RemoveAt(z, 1) = <<y>> /\ RemoveAt(z, 2) = <<x>>
  BY <1>1, <1>3, <1>5, <1>6, <1>7
<1>. QED BY <1>8 DEF p, z

(* An operation leaves a queue.                                                  *)
Leaving(q, n, hs, s, hr, t) ==
  /\ q[n].kind = "send" => hs /\ q[n] = s /\ Queue(RemoveAt(q, n), FALSE, s, hr, t)
  /\ q[n].kind = "recv" => hr /\ q[n] = t /\ Queue(RemoveAt(q, n), hs, s, FALSE, t)

LEMMA Leaves ==
  ASSUME NEW q, NEW hs \in BOOLEAN, NEW s, NEW hr \in BOOLEAN, NEW t, Queue(q, hs, s, hr, t),
         s.kind = "send", t.kind = "recv", NEW n \in 1 .. Len(q)
  PROVE  Leaving(q, n, hs, s, hr, t)
<1>0. Len(<<>>) = 0 /\ Len(<<s>>) = 1 /\ Len(<<t>>) = 1 /\ Len(<<s, t>>) = 2 /\ Len(<<t, s>>) = 2
  OBVIOUS
<1>1. CASE ~hs /\ ~hr
  <2>1. q = <<>>
    BY <1>1 DEF Queue
  <2>. QED BY <1>0, <2>1
<1>2. CASE hs /\ ~hr
  <2>1. q = <<s>>
    BY <1>2 DEF Queue
  <2>2. n = 1
    BY <1>0, <2>1
  <2>3. RemoveAt(<<s>>, 1) = <<>> /\ <<s>>[1] = s
    BY Removals
  <2>4. q[n] = s /\ RemoveAt(q, n) = <<>>
    BY <2>1, <2>2, <2>3
  <2>. QED BY <1>2, <2>4 DEF Queue, Leaving
<1>3. CASE ~hs /\ hr
  <2>1. q = <<t>>
    BY <1>3 DEF Queue
  <2>2. n = 1
    BY <1>0, <2>1
  <2>3. RemoveAt(<<t>>, 1) = <<>> /\ <<t>>[1] = t
    BY Removals
  <2>4. q[n] = t /\ RemoveAt(q, n) = <<>>
    BY <2>1, <2>2, <2>3
  <2>. QED BY <1>3, <2>4 DEF Queue, Leaving
<1>4. CASE hs /\ hr
  <2>0. /\ RemoveAt(<<s, t>>, 1) = <<t>> /\ RemoveAt(<<s, t>>, 2) = <<s>>
        /\ RemoveAt(<<t, s>>, 1) = <<s>> /\ RemoveAt(<<t, s>>, 2) = <<t>>
    BY Removals
  <2>1. <<s, t>>[1] = s /\ <<s, t>>[2] = t /\ <<t, s>>[1] = t /\ <<t, s>>[2] = s
    OBVIOUS
  <2>2. q = <<s, t>> \/ q = <<t, s>>
    BY <1>4 DEF Queue
  <2>3. Len(q) = 2
    BY <1>0, <2>2
  <2>4. n = 1 \/ n = 2
    BY <2>3
  <2>5. \/ q[n] = s /\ RemoveAt(q, n) = <<t>>
        \/ q[n] = t /\ RemoveAt(q, n) = <<s>>
    BY <2>0, <2>1, <2>2, <2>4
  <2>. QED BY <1>4, <2>5 DEF Queue, Leaving
<1>. QED BY <1>1, <1>2, <1>3, <1>4

(* The operations that meet: a send and the receive of what it sends.            *)
Meet(p, q, d, n, m) ==
  /\ d \in Pass /\ q = After(d, p) /\ p = After(Other(d), q) /\ p # q
  /\ Sending(d, p) /\ Receiving(d, q)
  /\ n \in 1 .. Len(ops[p][q]) /\ ops[p][q][n] = Send(d, Item(d, p, Givings(d, p, Sent(d, p))))
  /\ m \in 1 .. Len(ops[q][p]) /\ ops[q][p][m] = Recv(d)
  /\ Queue(RemoveAt(ops[p][q], n), FALSE, Send(d, Item(d, p, Givings(d, p, Sent(d, p)))),
           Receiving(Other(d), p), Recv(Other(d)))
  /\ Queue(RemoveAt(ops[q][p], m),
           Sending(Other(d), q), Send(Other(d), Item(Other(d), q, Givings(Other(d), q, Sent(Other(d), q)))),
           FALSE, Recv(d))
  /\ Halfway(p) = FALSE /\ Halfway(q) = FALSE

LEMMA Meets ==
  ASSUME Configuration, NEW p \in Rank, NEW q \in Rank, Linked(p), Linked(q),
         NEW n \in Runnable(ops[p][q], "send"), NEW m \in Runnable(ops[q][p], "recv")
  PROVE  \E d \in Pass : Meet(p, q, d, n, m)
<1>1. /\ n \in 1 .. Len(ops[p][q]) /\ ops[p][q][n].kind = "send"
      /\ m \in 1 .. Len(ops[q][p]) /\ ops[q][p][m].kind = "recv"
  BY DEF Runnable
<1>2. ops[p][q] # <<>> /\ ops[q][p] # <<>>
  <2>1. Len(<<>>) = 0
    OBVIOUS
  <2>. QED BY <1>1, <2>1
<1>3. PICK d \in Pass : q = After(d, p)
  <2>1. q \in {NextRank(p), PrevRank(p)}
    BY <1>2 DEF Linked, Elsewhere
  <2>2. "F" \in Pass /\ "B" \in Pass
    BY DEF Pass
  <2>. QED BY <2>1, <2>2, Neighbours
<1>4. p = After(Other(d), q) /\ p # q /\ Other(d) \in Pass /\ Other(Other(d)) = d
  BY <1>3, Ring
<1>5. Queues(d, p) /\ Queues(Other(d), q)
  BY <1>3, <1>4 DEF Linked
<1>. DEFINE e == Other(d)
            s == Send(d, Item(d, p, Givings(d, p, Sent(d, p))))
            t == Recv(d)
            u == Send(e, Item(e, q, Givings(e, q, Sent(e, q))))
            v == Recv(e)
<1>6. Queue(ops[p][q], Sending(d, p), s, Receiving(e, p), v)
  BY <1>3, <1>5 DEF Queues
<1>7. Queue(ops[q][p], Sending(e, q), u, Receiving(d, q), t)
  BY <1>4, <1>5 DEF Queues
<1>8. s.kind = "send" /\ u.kind = "send" /\ t.kind = "recv" /\ v.kind = "recv"
  BY DEF Send, Recv
<1>9. /\ Sending(d, p) \in BOOLEAN /\ Receiving(e, p) \in BOOLEAN
      /\ Sending(e, q) \in BOOLEAN /\ Receiving(d, q) \in BOOLEAN
  BY DEF Sending, Receiving
<1>. HIDE DEF e, s, t, u, v
<1>13. Leaving(ops[p][q], n, Sending(d, p), s, Receiving(e, p), v)
  BY <1>1, <1>6, <1>8, <1>9, Leaves
<1>14. Leaving(ops[q][p], m, Sending(e, q), u, Receiving(d, q), t)
  BY <1>1, <1>7, <1>8, <1>9, Leaves
<1>10. Sending(d, p) /\ ops[p][q][n] = s /\ Queue(RemoveAt(ops[p][q], n), FALSE, s, Receiving(e, p), v)
  BY <1>1, <1>13 DEF Leaving
<1>11. Receiving(d, q) /\ ops[q][p][m] = t /\ Queue(RemoveAt(ops[q][p], m), Sending(e, q), u, FALSE, t)
  BY <1>1, <1>14 DEF Leaving
<1>12. Halfway(p) = FALSE /\ Halfway(q) = FALSE
  <2>1. ~Idle(p) /\ ~Idle(q)
    BY <1>2 DEF Idle
  <2>. QED BY <2>1 DEF Linked, Quiet, Halfway
<1>. QED BY <1>1, <1>3, <1>4, <1>10, <1>11, <1>12 DEF Meet, e, s, t, u, v

(* The variables when two operations complete, and after.                        *)
Exchange(p, q, n, m, d, t) ==
  /\ ops' = [ops EXCEPT ![p][q] = RemoveAt(@, n), ![q][p] = RemoveAt(@, m)]
  /\ gotF' = IF d = "F" THEN [gotF EXCEPT ![q] = Append(@, t)] ELSE gotF
  /\ gotB' = IF d = "F" THEN gotB ELSE [gotB EXCEPT ![q] = Append(@, t)]
Exchanged(p, q, n, m, d, t) ==
  /\ Over(Rank, ops)' /\ Over(Rank, gotF)' /\ Over(Rank, gotB)'
  /\ ops'[p][q] = RemoveAt(ops[p][q], n) /\ ops'[q][p] = RemoveAt(ops[q][p], m)
  /\ Over(Rank, ops'[p]) /\ Over(Rank, ops'[q])
  /\ \A r, s \in Rank : <<r, s>> \notin {<<p, q>>, <<q, p>>} => ops'[r][s] = ops[r][s]
  /\ \A r \in Rank : r \notin {p, q} => ops'[r] = ops[r]
  /\ Got(d)'[q] = Append(Got(d)[q], t)
  /\ \A r \in Rank, f \in Pass : r # q \/ f # d => Got(f)'[r] = Got(f)[r]

LEMMA TransferRow ==
  ASSUME Arrays, NEW p \in Rank, NEW q \in Rank, p # q, NEW n, NEW m, NEW d \in Pass, NEW t,
         Exchange(p, q, n, m, d, t), Over(Rank, ops[p]), Over(Rank, ops[q])
  PROVE  Exchanged(p, q, n, m, d, t)
<1>1. ops' = [ops EXCEPT ![p] = [ops[p] EXCEPT ![q] = RemoveAt(ops[p][q], n)],
                         ![q] = [ops[q] EXCEPT ![p] = RemoveAt(ops[q][p], m)]]
  BY DEF Arrays, Over, Exchange
<1>2. /\ ops'[p] = [ops[p] EXCEPT ![q] = RemoveAt(ops[p][q], n)]
      /\ ops'[q] = [ops[q] EXCEPT ![p] = RemoveAt(ops[q][p], m)]
      /\ \A r \in Rank : r \notin {p, q} => ops'[r] = ops[r]
      /\ Over(Rank, ops)'
  BY <1>1 DEF Arrays, Over
<1>3. /\ ops'[p][q] = RemoveAt(ops[p][q], n) /\ ops'[q][p] = RemoveAt(ops[q][p], m)
      /\ Over(Rank, ops'[p]) /\ Over(Rank, ops'[q])
      /\ \A s \in Rank : (s # q => ops'[p][s] = ops[p][s]) /\ (s # p => ops'[q][s] = ops[q][s])
  BY <1>2 DEF Over
<1>4. \A r, s \in Rank : <<r, s>> \notin {<<p, q>>, <<q, p>>} => ops'[r][s] = ops[r][s]
  BY <1>2, <1>3
<1>5. Over(Rank, gotF)' /\ Over(Rank, gotB)'
  BY DEF Arrays, Over, Exchange
<1>6. Got(d)'[q] = Append(Got(d)[q], t)
  BY DEF Arrays, Over, Got, Pass, Exchange
<1>7. \A r \in Rank, f \in Pass : r # q \/ f # d => Got(f)'[r] = Got(f)[r]
  BY DEF Arrays, Over, Got, Pass, Exchange
<1>. QED BY <1>2, <1>3, <1>4, <1>5, <1>6, <1>7 DEF Exchanged

Unmoved == UNCHANGED <<loop, ask, lists, fwd, bwd, clean, losses, sync>>

(* A transfer changes no loop: nothing that is counted from the loops moves.     *)
LEMMA StillCounted ==
  ASSUME Unmoved, NEW r
  PROVE  /\ \A d \in Pass : Ran(d, r)' = Ran(d, r) /\ Wanted(d, r)' = Wanted(d, r) /\ Sent(d, r)' = Sent(d, r)
         /\ Halfway(r)' = Halfway(r)
<1>1. phase' = phase /\ k' = k /\ half' = half
  BY DEF Unmoved, loop
<1>. QED BY <1>1 DEF Ran, Wanted, Sent, NoGradYet, Halfway

LEMMA StillLocal ==
  ASSUME Unmoved, NEW r \in Rank, Local(r), Over(Rank, ops'[r])
  PROVE  Local(r)'
<1>1. /\ phase' = phase /\ k' = k /\ half' = half /\ askF' = askF /\ askB' = askB
      /\ input_tensors' = input_tensors /\ output_tensors' = output_tensors
      /\ output_tensor_grads' = output_tensor_grads /\ output_tensor' = output_tensor
      /\ fwd' = fwd /\ bwd' = bwd /\ clean' = clean /\ losses' = losses
      /\ in_sync' = in_sync /\ launches' = launches
  BY DEF Unmoved, loop, ask, lists, sync
<1>2. \A d \in Pass : Ran(d, r)' = Ran(d, r) /\ Wanted(d, r)' = Wanted(d, r)
  BY StillCounted
<1>3. ArraysOf(r)' /\ Position(r)'
  BY <1>1 DEF Local, ArraysOf, Position, Over
<1>4. Counted(r)' /\ Asked(r)' /\ Result(r)'
  BY <1>1, <1>2 DEF Local, Counted, Asked, Result, Pass
<1>5. Losses(r)' /\ clean'[r] = TRUE
  BY <1>1 DEF Local, Losses
<1>6. Lists(r)'
  <2>1. \A c : Oldest(r, c)' = Oldest(r, c) /\ Filed(r, c)' = Filed(r, c) /\ GradFiled(r, c)' = GradFiled(r, c)
    BY <1>1, <1>2 DEF Oldest, Filed, GradFiled, NoGradYet, Pass
  <2>. QED BY <1>1, <2>1 DEF Local, Lists, InputLists, OutputLists, GradLists
<1>7. Reductions(r)'
  <2>1. Synced(r)' = Synced(r)
    BY <1>2 DEF Synced, Pass
  <2>2. \A c : Reduced(r, c)' = Reduced(r, c)
    BY <1>1, <2>1 DEF Reduced
  <2>. QED BY <1>1, <2>1, <2>2 DEF Local, Reductions
<1>. QED BY <1>3, <1>4, <1>5, <1>6, <1>7 DEF Local

LEMMA TransferStep ==
  ASSUME Configuration, Inv, NEW p \in Rank, NEW q \in Rank, Transfer(p, q)
  PROVE  Inv'
<1>1. Arrays /\ \A r \in Rank : Local(r) /\ Linked(r)
  BY DEF Inv
<1>2. PICK n \in Runnable(ops[p][q], "send"), m \in Runnable(ops[q][p], "recv") :
        LET t == ops[p][q][n].tensor
            toF == ops[q][p][m].dir = "F"
        IN  /\ ops' = [ops EXCEPT ![p][q] = RemoveAt(@, n), ![q][p] = RemoveAt(@, m)]
            /\ gotF' = IF toF THEN [gotF EXCEPT ![q] = Append(@, t)] ELSE gotF
            /\ gotB' = IF toF THEN gotB ELSE [gotB EXCEPT ![q] = Append(@, t)]
  BY DEF Transfer
<1>3. Unmoved
  BY DEF Transfer, Unmoved
<1>4. PICK d \in Pass : Meet(p, q, d, n, m)
  BY <1>1, Meets
<1>. DEFINE e == Other(d)
            l == Len(Got(d)[q])
            t == Item(d, p, l + 1)
<1>5. /\ q = After(d, p) /\ p = After(e, q) /\ p # q /\ e \in Pass /\ e # d /\ Other(e) = d
      /\ \A r \in Rank : After(d, r) = q => r = p
      /\ \A r \in Rank, f \in Pass : f # d => f = e
      /\ After(e, p) # q /\ After(d, q) # p
  <2>1. q = After(d, p) /\ p = After(e, q) /\ p # q /\ e \in Pass /\ e # d /\ Other(e) = d
    BY <1>4, Ring DEF Meet
  <2>2. \A r \in Rank : After(d, r) = q => r = p
    <3>1. \A r \in Rank : After(e, After(d, r)) = r
      BY Ring
    <3>. QED BY <2>1, <3>1
  <2>3. \A f \in Pass : f # d => f = e
    BY <2>1 DEF Pass
  <2>4. After(e, p) # q /\ After(d, q) # p
    BY <2>1, Ring
  <2>. QED BY <2>1, <2>2, <2>3, <2>4
<1>6. /\ Received(d, q) /\ Position(q) /\ Queues(d, p) /\ Queues(e, q) /\ Sending(d, p) /\ Receiving(d, q)
      /\ Got(d)[q] \in Seq(Computed) /\ l \in Nat
  BY <1>1, <1>4, <1>5 DEF Linked, Local, Meet, Received
<1>7. Givings(d, p, Sent(d, p)) = l + 1 /\ t \in Computed
  BY <1>5, <1>6 DEF Queues, Sending
<1>8. Takings(d, q, Wanted(d, q)) = l + 1 /\ Takings(d, q, Ran(d, q)) <= l
  <2>. DEFINE a == Ran(d, q)
              b == Wanted(d, q)
  <2>1. a \in Nat /\ b \in Nat /\ (b = a \/ b = a + 1)
    <3>1. Total \in Nat
      BY Basics
    <3>2. a \in 0 .. Total /\ b \in 0 .. Total /\ a <= b /\ b <= a + 1
      BY <1>6, RanIs
    <3>. QED BY <3>1, <3>2
  <2>2. /\ Takings(d, q, a) <= l /\ l <= Takings(d, q, b) /\ l # Takings(d, q, b)
    BY <1>6 DEF Received, Receiving
  <2>. HIDE DEF a, b
  <2>3. /\ Takings(d, q, a) \in Nat /\ Takings(d, q, b) \in Nat
        /\ Takings(d, q, a + 1) = Takings(d, q, a) + (IF Takes(d, q, a) THEN 1 ELSE 0)
    BY <2>1, TakingsNat, TakingsStep
  <2>4. Takings(d, q, b) <= Takings(d, q, a) + 1
    BY <2>1, <2>3
  <2>. QED BY <1>6, <2>2, <2>3, <2>4 DEF a, b
<1>9. Exchange(p, q, n, m, d, t)
  <2>1. ops[p][q][n].tensor = t
    <3>1. ops[p][q][n] = Send(d, Item(d, p, Givings(d, p, Sent(d, p))))
      BY <1>4 DEF Meet
    <3>2. ops[p][q][n] = Send(d, Item(d, p, l + 1))
      BY <1>7, <3>1
    <3>3. \A x : Send(d, x).tensor = x
      BY DEF Send
    <3>. QED BY <3>2, <3>3
  <2>2. (ops[q][p][m].dir = "F") <=> (d = "F")
    BY <1>4 DEF Meet, Recv
  <2>. QED BY <1>2, <2>1, <2>2 DEF Exchange
<1>. HIDE DEF t
<1>10. /\ Over(Rank, ops)' /\ Over(Rank, gotF)' /\ Over(Rank, gotB)'
       /\ ops'[p][q] = RemoveAt(ops[p][q], n) /\ ops'[q][p] = RemoveAt(ops[q][p], m)
       /\ Over(Rank, ops'[p]) /\ Over(Rank, ops'[q])
       /\ \A r, s \in Rank : <<r, s>> \notin {<<p, q>>, <<q, p>>} => ops'[r][s] = ops[r][s]
       /\ \A r \in Rank : r \notin {p, q} => ops'[r] = ops[r]
       /\ Got(d)'[q] = Append(Got(d)[q], t)
       /\ \A r \in Rank, f \in Pass : r # q \/ f # d => Got(f)'[r] = Got(f)[r]
  <2>1. Over(Rank, ops[p]) /\ Over(Rank, ops[q])
    BY <1>1 DEF Local, ArraysOf
  <2>2. Exchanged(p, q, n, m, d, t)
    BY <1>1, <1>5, <1>9, <2>1, TransferRow
  <2>. QED BY <2>2 DEF Exchanged
<1>11. /\ \A f \in Pass, r \in Rank : Ran(f, r)' = Ran(f, r) /\ Wanted(f, r)' = Wanted(f, r) /\ Sent(f, r)' = Sent(f, r)
       /\ \A r \in Rank : Halfway(r)' = Halfway(r)
  BY <1>3, StillCounted
<1>12. /\ Got(d)'[q] \in Seq(Computed) /\ Len(Got(d)'[q]) = l + 1
       /\ \A b \in 1 .. l : Got(d)'[q][b] = Got(d)[q][b]
       /\ Got(d)'[q][l + 1] = t
  BY <1>6, <1>7, <1>10
<1>13. Received(d, q)'
  <2>1. \A b \in 1 .. l + 1 : Got(d)'[q][b] = Item(d, p, b)
    <3>1. \A b \in 1 .. l : Got(d)[q][b] = Item(d, p, b)
      BY <1>5, <1>6 DEF Received
    <3>2. \A b \in 1 .. l + 1 : b \in 1 .. l \/ b = l + 1
      BY <1>6
    <3>. QED BY <1>12, <3>1, <3>2 DEF t
  <2>2. Takings(d, q, Ran(d, q)) \in Int
    BY <1>6, RanIs, Basics, TakingsNat
  <2>. QED BY <1>5, <1>6, <1>8, <1>11, <1>12, <2>1, <2>2 DEF Received
<1>14. Queues(d, p)'
  <2>1. ~Sending(d, p)'
    BY <1>5, <1>7, <1>11, <1>12 DEF Sending
  <2>2. Receiving(e, p)' <=> Receiving(e, p)
    BY <1>5, <1>10, <1>11 DEF Receiving
  <2>3. Queue(ops'[p][q], Sending(d, p)', Send(d, Item(d, p, Givings(d, p, Sent(d, p)))), Receiving(e, p)', Recv(e))
    BY <1>4, <1>10, <2>1, <2>2 DEF Meet, Queue
  <2>4. Givings(d, p, Sent(d, p)) \in {Len(Got(d)'[q]), Len(Got(d)'[q]) + 1}
    BY <1>7, <1>12
  <2>. QED BY <1>5, <1>11, <2>1, <2>3, <2>4 DEF Queues
<1>15. Queues(e, q)'
  <2>1. ~Receiving(d, q)'
    BY <1>8, <1>11, <1>12 DEF Receiving
  <2>2. Got(e)'[p] = Got(e)[p]
    BY <1>5, <1>10
  <2>3. Sending(e, q)' <=> Sending(e, q)
    BY <1>5, <1>11, <2>2 DEF Sending
  <2>4. Queue(ops'[q][p], Sending(e, q)', Send(e, Item(e, q, Givings(e, q, Sent(e, q)))), Receiving(d, q)', Recv(d))
    BY <1>4, <1>10, <2>1, <2>3 DEF Meet, Queue
  <2>. QED BY <1>5, <1>6, <1>11, <2>2, <2>3, <2>4 DEF Queues
<1>16. ASSUME NEW r \in Rank, NEW f \in Pass PROVE Received(f, r)'
  <2>1. CASE r = q /\ f = d
    BY <1>13, <2>1
  <2>2. CASE ~(r = q /\ f = d)
    <3>1. Got(f)'[r] = Got(f)[r]
      BY <1>10, <2>2
    <3>2. Received(f, r)
      BY <1>1 DEF Linked
    <3>. QED BY <1>11, <3>1, <3>2 DEF Received
  <2>. QED BY <2>1, <2>2
<1>17. ASSUME NEW r \in Rank, NEW f \in Pass PROVE Queues(f, r)'
  <2>1. CASE r = p /\ f = d
    BY <1>14, <2>1
  <2>2. CASE r = q /\ f = e
    BY <1>15, <2>2
  <2>3. CASE ~(r = p /\ f = d) /\ ~(r = q /\ f = e)
    <3>. DEFINE s == After(f, r)
                g == Other(f)
    <3>1. s \in Rank /\ g \in Pass /\ (g = d => f = e)
      BY <1>5, Ring
    <3>2. ops'[r][s] = ops[r][s]
      <4>1. <<r, s>> # <<p, q>> /\ <<r, s>> # <<q, p>>
        BY <1>5, <2>3
      <4>. QED BY <1>10, <3>1, <4>1
    <3>3. Got(f)'[s] = Got(f)[s]
      BY <1>5, <1>10, <2>3, <3>1
    <3>4. Got(g)'[r] = Got(g)[r]
      BY <1>5, <1>10, <2>3, <3>1
    <3>5. (Sending(f, r)' <=> Sending(f, r)) /\ (Receiving(g, r)' <=> Receiving(g, r))
      BY <1>11, <3>1, <3>3, <3>4 DEF Sending, Receiving
    <3>6. Queues(f, r)
      BY <1>1 DEF Linked
    <3>7. /\ Queue(ops'[r][s], Sending(f, r)', Send(f, Item(f, r, Givings(f, r, Sent(f, r)))), Receiving(g, r)', Recv(g))
      BY <3>2, <3>5, <3>6 DEF Queues, Queue
    <3>. QED BY <1>11, <3>3, <3>5, <3>6, <3>7 DEF Queues
  <2>. QED BY <2>1, <2>2, <2>3
<1>18. ASSUME NEW r \in Rank PROVE Elsewhere(r)' /\ Quiet(r)'
  <2>1. Elsewhere(r)'
    <3>1. \A s \in Rank : s \notin {NextRank(r), PrevRank(r)} => <<r, s>> \notin {<<p, q>>, <<q, p>>}
      <4>1. After(d, p) \in {NextRank(p), PrevRank(p)} /\ After(e, q) \in {NextRank(q), PrevRank(q)}
        BY DEF After
      <4>. QED BY <1>5, <4>1
    <3>. QED BY <1>1, <1>10, <3>1 DEF Linked, Elsewhere
  <2>2. Quiet(r)'
    <3>1. CASE r \in {p, q}
      BY <1>4, <1>11, <3>1 DEF Meet, Quiet
    <3>2. CASE r \notin {p, q}
      BY <1>1, <1>10, <1>11, <3>2 DEF Linked, Quiet, Idle
    <3>. QED BY <3>1, <3>2
  <2>. QED BY <2>1, <2>2
<1>19. ASSUME NEW r \in Rank PROVE Local(r)'
  <2>1. Over(Rank, ops'[r])
    <3>1. r \notin {p, q} => ops'[r] = ops[r]
      BY <1>10
    <3>2. Over(Rank, ops[r])
      BY <1>1 DEF Local, ArraysOf
    <3>. QED BY <1>10, <3>1, <3>2
  <2>. QED BY <1>1, <1>3, <2>1, StillLocal
<1>20. Arrays'
  BY <1>1, <1>3, <1>10 DEF Arrays, Unmoved, loop, ask, lists, sync, Over
<1>. QED BY <1>16, <1>17, <1>18, <1>19, <1>20 DEF Inv, Linked

-------------------------------------------------------------------------------
(* The invariant                                                                 *)

LEMMA InitInv == ASSUME Configuration, Init PROVE Inv
<1>0. /\ P \in Nat \ {0} /\ C \in Nat \ {0} /\ M \in Nat \ {0} /\ Total \in Nat \ {0}
      /\ \A c \in Chunk : Count(0, c) = 0 /\ C - 1 - c \in Chunk
  BY Basics, CountEnds DEF Chunk
<1>1. Arrays
  BY DEF Init, Arrays, Over
<1>2. ASSUME NEW r \in Rank
      PROVE  /\ phase[r] = "init" /\ k[r] = 0 /\ half[r] = FALSE /\ askF[r] = 0 /\ askB[r] = 0
             /\ \A s \in Rank : ops[r][s] = <<>>
             /\ gotF[r] = <<>> /\ gotB[r] = <<>> /\ output_tensor[r] = None /\ clean[r] = TRUE /\ losses[r] = <<>>
             /\ \A c \in Chunk : /\ input_tensors[r][c] = <<>> /\ output_tensors[r][c] = <<>>
                                 /\ output_tensor_grads[r][c] = <<>> /\ fwd[r][c] = 0 /\ bwd[r][c] = 0
             /\ in_sync[r] = {} /\ launches[r] = [c \in Chunk |-> <<>>]
  BY <1>2 DEF Init
<1>3. ASSUME NEW r \in Rank, NEW d \in Pass
      PROVE  /\ Ran(d, r) = 0 /\ Wanted(d, r) = 0 /\ Sent(d, r) = 0 /\ Got(d)[r] = <<>>
             /\ Takings(d, r, 0) = 0 /\ Givings(d, r, 0) = 0
  <2>1. Ran(d, r) = 0 /\ Wanted(d, r) = 0 /\ Sent(d, r) = 0 /\ Got(d)[r] = <<>>
    BY <1>2 DEF Ran, Wanted, Sent, Got, Halfway
  <2>2. Takings(d, r, 0) = 0 /\ Givings(d, r, 0) = 0
    <3>1. 0 \in Chunk /\ C - 1 \in Chunk
      BY Basics
    <3>. QED BY <1>0, <3>1 DEF Takings, Givings
  <2>. QED BY <2>1, <2>2
<1>4. ASSUME NEW r \in Rank PROVE Local(r)
  <2>0. /\ "F" \in Pass /\ "B" \in Pass /\ \A c \in Chunk : Oldest(r, c) = 0 /\ ~Filed(r, c) /\ ~GradFiled(r, c)
    BY <1>2 DEF Pass, Oldest, Filed, GradFiled
  <2>1. ArraysOf(r)
    BY <1>2 DEF Init, ArraysOf, Over
  <2>2. Position(r)
    <3>0. k[r] = 0 /\ 0 \in 0 .. Total
      <4>1. k[r] = 0
        BY <1>2
      <4>2. 0 \in 0 .. Total
        BY <1>0
      <4>. QED BY <4>1, <4>2
    <3>1. k[r] \in 0 .. Total
      BY <3>0
    <3>. QED BY <1>2, <3>1 DEF Position
  <2>3. Counted(r)
    <3>1. fwd[r] = [c \in Chunk |-> 0] /\ bwd[r] = [c \in Chunk |-> 0]
      BY DEF Init
    <3>. QED BY <1>0, <1>3, <2>0, <3>1 DEF Counted
  <2>4. Lists(r)
    <3>0. \A f : Stretch(f, 0, 0) = <<>>
      BY StretchEmpty
    <3>1. InputLists(r) /\ OutputLists(r)
      <4>1. \A c \in Chunk : /\ input_tensors[r][c] = <<>> /\ output_tensors[r][c] = <<>>
                              /\ fwd[r][c] = 0 /\ fwd[r][c] + (IF Filed(r, c) THEN 1 ELSE 0) = 0
        <5>1. \A c \in Chunk : input_tensors[r][c] = <<>> /\ output_tensors[r][c] = <<>> /\ fwd[r][c] = 0
          BY <1>2
        <5>2. \A c \in Chunk : (IF Filed(r, c) THEN 1 ELSE 0) = 0
          BY <2>0
        <5>. QED BY <5>1, <5>2
      <4>. QED BY <2>0, <3>0, <4>1 DEF InputLists, OutputLists
    <3>2. GradLists(r)
      BY <1>2, <2>0 DEF GradLists
    <3>. QED BY <3>1, <3>2 DEF Lists
  <2>5. Asked(r) /\ Result(r)
    <3>1. /\ askF[r] = 0 /\ askB[r] = 0 /\ ~half[r]
          /\ Wanted("F", r) = 0 /\ Wanted("B", r) = 0 /\ Takings("F", r, 0) = 0 /\ Takings("B", r, 0) = 0
      BY <1>2, <1>3, <2>0
    <3>. QED BY <3>1 DEF Asked, Result
  <2>6. Losses(r)
    <3>1. C - 1 \in Chunk
      BY <1>0 DEF Chunk
    <3>2. \A f : Stretch(f, 0, 0) = <<>>
      BY StretchEmpty
    <3>. QED BY <1>2, <3>1, <3>2 DEF Losses
  <2>7. Reductions(r)
    <3>1. Synced(r) = 0
      BY <1>0, <1>3, <2>0 DEF Synced, Rank
    <3>2. \A c \in Chunk : Count(Synced(r), C - 1 - c) # M /\ Reduced(r, c) = FALSE
      BY <1>0, <1>2, <3>1 DEF Reduced
    <3>. QED BY <1>2, <3>2 DEF Reductions
  <2>. QED BY <1>2, <2>1, <2>2, <2>3, <2>4, <2>5, <2>6, <2>7 DEF Local
<1>5. ASSUME NEW r \in Rank PROVE Linked(r)
  <2>1. Elsewhere(r) /\ Quiet(r)
    BY <1>2 DEF Elsewhere, Quiet, Idle
  <2>2. ASSUME NEW d \in Pass PROVE Received(d, r)
    <3>1. <<>> \in Seq(Computed) /\ Len(<<>>) = 0
      OBVIOUS
    <3>2. Len(Got(d)[r]) = 0 /\ Got(d)[r] \in Seq(Computed)
      BY <1>3, <3>1
    <3>3. \A b \in 1 .. 0 : FALSE
      OBVIOUS
    <3>. QED BY <1>3, <3>2, <3>3 DEF Received
  <2>3. ASSUME NEW d \in Pass PROVE Queues(d, r)
    <3>1. After(d, r) \in Rank /\ Other(d) \in Pass
      BY Ring
    <3>2. Len(<<>>) = 0
      OBVIOUS
    <3>3. ~Sending(d, r) /\ ~Receiving(Other(d), r)
      BY <1>3, <3>1, <3>2 DEF Sending, Receiving
    <3>4. /\ ops[r][After(d, r)] = <<>>
          /\ Givings(d, r, Sent(d, r)) \in {Len(Got(d)[After(d, r)]), Len(Got(d)[After(d, r)]) + 1}
      <4>1. ops[r][After(d, r)] = <<>>
        BY <1>2, <3>1
      <4>2. Sent(d, r) = 0 /\ Givings(d, r, 0) = 0
        BY <1>3
      <4>3. Givings(d, r, Sent(d, r)) = 0
        BY <4>2
      <4>4. Len(Got(d)[After(d, r)]) = 0
        BY <1>3, <3>1, <3>2
      <4>. QED BY <4>1, <4>3, <4>4
    <3>5. Queue(ops[r][After(d, r)], Sending(d, r), Send(d, Item(d, r, Givings(d, r, Sent(d, r)))),
                Receiving(Other(d), r), Recv(Other(d)))
      BY <3>3, <3>4 DEF Queue
    <3>. QED BY <3>3, <3>4, <3>5 DEF Queues
  <2>. QED BY <2>1, <2>2, <2>3 DEF Linked
<1>. QED BY <1>1, <1>4, <1>5 DEF Inv

LEMMA StepPreserves ==
  ASSUME Configuration, Inv, NEW r \in Rank, Step(r)
  PROVE  Preserved(r)
<1>0. Arrays /\ Local(r) /\ Linked(r)
  BY DEF Inv
<1>1. CASE Start(r)
  BY <1>0, <1>1, StartStep
<1>2. CASE Warmup(r)
  BY <1>0, <1>2, WarmupStep
<1>3. CASE SteadyForward(r)
  BY <1>0, <1>3, SteadyForwardStep
<1>4. CASE SteadyBackward(r)
  BY <1>0, <1>4, SteadyBackwardStep
<1>5. CASE Drain(r)
  BY <1>0, <1>5, DrainStep
<1>6. CASE Cooldown(r)
  BY <1>0, <1>6, CooldownStep
<1>7. CASE Finish(r)
  BY <1>0, <1>7, FinishStep
<1>. QED BY <1>1, <1>2, <1>3, <1>4, <1>5, <1>6, <1>7 DEF Step

LEMMA RankStep ==
  ASSUME Configuration, Inv, NEW r \in Rank, Step(r)
  PROVE  Inv'
<1>0. \A s \in Rank : Local(s) /\ Linked(s)
  BY DEF Inv
<1>1. Preserved(r)
  BY StepPreserves
<1>2. ASSUME NEW s \in Rank PROVE Local(s)' /\ Linked(s)'
  <2>1. CASE s = r
    BY <1>1, <2>1 DEF Preserved
  <2>2. CASE s # r
    <3>1. Same(s) /\ UNCHANGED got
      BY <1>1, <2>2 DEF Preserved, Others
    <3>. QED BY <1>0, <3>1, Frame
  <2>. QED BY <2>1, <2>2
<1>. QED BY <1>1, <1>2 DEF Inv, Preserved

LEMMA StutterStep == ASSUME Inv, UNCHANGED vars PROVE Inv'
<1>0. Arrays /\ \A s \in Rank : Local(s) /\ Linked(s)
  BY DEF Inv
<1>1. UNCHANGED <<phase, k, half, ops, gotF, gotB, askF, askB, input_tensors, output_tensors,
                  output_tensor_grads, output_tensor, fwd, bwd, clean, losses, in_sync, launches>>
  BY DEF vars, loop, got, ask, lists, sync
<1>2. Arrays'
  BY <1>0, <1>1 DEF Arrays, Over
<1>3. UNCHANGED got /\ \A s \in Rank : Same(s)
  BY <1>1 DEF got, Same
<1>4. \A s \in Rank : Local(s)' /\ Linked(s)'
  BY <1>0, <1>3, Frame
<1>. QED BY <1>2, <1>4 DEF Inv

LEMMA NextInv == ASSUME Configuration, Inv, [Next]_vars PROVE Inv'
<1>1. ASSUME NEW r \in Rank, Step(r) PROVE Inv'
  BY <1>1, RankStep
<1>2. ASSUME NEW s \in Rank, NEW d \in Rank, Transfer(s, d) PROVE Inv'
  BY <1>2, TransferStep
<1>3. CASE UNCHANGED vars
  BY <1>3, StutterStep
<1>4. Finished => UNCHANGED vars
  BY DEF Finished
<1>. QED BY <1>1, <1>2, <1>3, <1>4 DEF Next

(* The ranks and the transport keep the invariant.                               *)
THEOREM InterleavedInvariant == Configuration => (Spec => []Inv)
<1>. SUFFICES ASSUME Configuration PROVE Spec => []Inv
  OBVIOUS
<1>1. Init => Inv
  BY InitInv
<1>2. Inv /\ [Next]_vars => Inv'
  BY NextInv
<1>. QED BY <1>1, <1>2, PTL DEF Spec

-------------------------------------------------------------------------------
(* What the invariant says                                                       *)

LEMMA StretchIn ==
  ASSUME NEW S, NEW f, NEW lo \in Nat, NEW hi \in Nat, lo <= hi, \A i \in lo .. hi - 1 : f[i] \in S
  PROVE  Stretch(f, lo, hi) \in Seq(S)
<1>1. hi - lo \in Nat
  OBVIOUS
<1>2. \A i \in 1 .. hi - lo : lo + i - 1 \in lo .. hi - 1 /\ f[lo + i - 1] \in S
  OBVIOUS
<1>. QED BY <1>1, <1>2 DEF Stretch

LEMMA ActComputed ==
  ASSUME Configuration, NEW r \in Rank, NEW c \in Chunk, NEW m \in 0 .. M - 1
  PROVE  Outputs(r, c)[m] = Act(VStage(r, c), m) /\ Act(VStage(r, c), m) \in Computed
<1>1. VStage(r, c) \in 0 .. P * C - 1 /\ M \in Nat
  BY Stages, Basics DEF W
<1>2. m \in 0 .. M
  BY <1>1
<1>. QED BY <1>1, <1>2 DEF Outputs, Act, Computed

LEMMA OneOperation ==
  ASSUME NEW q, NEW hs \in BOOLEAN, NEW s, NEW hr \in BOOLEAN, NEW t, Queue(q, hs, s, hr, t),
         hs => s \in Operation, t \in Operation
  PROVE  q \in Seq(Operation)
<1>1. <<>> \in Seq(Operation) /\ <<t>> \in Seq(Operation)
  OBVIOUS
<1>2. hs => <<s>> \in Seq(Operation) /\ <<s, t>> \in Seq(Operation) /\ <<t, s>> \in Seq(Operation)
  OBVIOUS
<1>. QED BY <1>1, <1>2 DEF Queue

(* Each part of the type invariant, for one rank.                                *)
LEMMA OpsTyped ==
  ASSUME Configuration, Inv, NEW r \in Rank, NEW s \in Rank
  PROVE  ops[r][s] \in Seq(Operation)
<1>0. Linked(r)
  BY DEF Inv
<1>1. ASSUME NEW d \in Pass PROVE ops[r][After(d, r)] \in Seq(Operation)
  <2>. DEFINE u == Send(d, Item(d, r, Givings(d, r, Sent(d, r))))
              v == Recv(Other(d))
              q == ops[r][After(d, r)]
  <2>1. Queue(q, Sending(d, r), u, Receiving(Other(d), r), v)
    BY <1>0 DEF Linked, Queues
  <2>2. Sending(d, r) => u \in Operation
    BY <1>0 DEF Linked, Queues, Send, Operation, Tensor, Pass
  <2>3. v \in Operation
    BY Ring DEF Recv, Operation, Pass
  <2>4. Sending(d, r) \in BOOLEAN /\ Receiving(Other(d), r) \in BOOLEAN
    BY DEF Sending, Receiving
  <2>. HIDE DEF u, v, q
  <2>5. q \in Seq(Operation)
    BY <2>1, <2>2, <2>3, <2>4, OneOperation
  <2>. QED BY <2>5 DEF q
<1>2. NextRank(r) = After("F", r) /\ PrevRank(r) = After("B", r) /\ "F" \in Pass /\ "B" \in Pass
  BY DEF After, Pass
<1>3. CASE s \in {NextRank(r), PrevRank(r)}
  BY <1>1, <1>2, <1>3
<1>4. CASE s \notin {NextRank(r), PrevRank(r)}
  <2>1. ops[r][s] = <<>>
    BY <1>0, <1>4 DEF Linked, Elsewhere
  <2>2. <<>> \in Seq(Operation)
    OBVIOUS
  <2>. QED BY <2>1, <2>2
<1>. QED BY <1>3, <1>4

LEMMA CountersTyped ==
  ASSUME Configuration, Inv, NEW r \in Rank
  PROVE  /\ phase[r] \in {"init", "warmup", "steady", "drain", "cooldown", "finish", "done"}
         /\ k[r] \in 0 .. Total /\ half[r] \in BOOLEAN
         /\ askF[r] \in 0 .. Total /\ askB[r] \in 0 .. Total
         /\ fwd[r] \in [Chunk -> 0 .. M] /\ bwd[r] \in [Chunk -> 0 .. M]
<1>0. /\ Position(r) /\ Counted(r) /\ Asked(r) /\ "F" \in Pass /\ "B" \in Pass /\ Total \in Nat
  BY Basics DEF Inv, Local, Pass
<1>1. /\ Ran("F", r) \in 0 .. Total /\ Wanted("F", r) \in 0 .. Total /\ Wanted("B", r) \in 0 .. Total
  BY <1>0, RanIs
<1>2. ASSUME NEW d \in Pass, NEW n \in 0 .. Total PROVE Takings(d, r, n) \in 0 .. Total
  <2>1. n \in Nat /\ Takings(d, r, n) \in 0 .. n
    BY <1>0, TakingsNat
  <2>. QED BY <1>0, <2>1
<1>3. askF[r] \in 0 .. Total /\ askB[r] \in 0 .. Total
  BY <1>0, <1>1, <1>2 DEF Asked
<1>4. \A c \in Chunk : fwd[r][c] \in 0 .. M /\ bwd[r][c] \in 0 .. M
  BY <1>0, CountsAre
<1>5. fwd[r] \in [Chunk -> 0 .. M] /\ bwd[r] \in [Chunk -> 0 .. M]
  BY <1>0, <1>4 DEF Counted
<1>. QED BY <1>0, <1>3, <1>5 DEF Position

LEMMA ListsTyped ==
  ASSUME Configuration, Inv, NEW r \in Rank
  PROVE  /\ input_tensors[r] \in [Chunk -> Seq(Buffer)]
         /\ output_tensors[r] \in [Chunk -> Seq(Tensor)]
         /\ output_tensor_grads[r] \in [Chunk -> Seq(Buffer)]
         /\ losses[r] \in Seq(Tensor)
<1>0. /\ Position(r) /\ Counted(r) /\ Lists(r) /\ ArraysOf(r) /\ Losses(r) /\ "F" \in Pass /\ "B" \in Pass
      /\ M \in Nat
  BY Basics DEF Inv, Local, Pass
<1>1. ASSUME NEW c \in Chunk
      PROVE  /\ fwd[r][c] \in 0 .. M /\ bwd[r][c] \in 0 .. M
             /\ Oldest(r, c) \in 0 .. M /\ Oldest(r, c) <= fwd[r][c] /\ C - 1 - c \in Chunk
  BY <1>0, CountsAre DEF Oldest
<1>2. ASSUME NEW c \in Chunk PROVE input_tensors[r][c] \in Seq(Buffer)
  <2>. DEFINE f == Buffers("F", r, c)
              lo == Oldest(r, c)
              hi == fwd[r][c] + (IF Filed(r, c) THEN 1 ELSE 0)
  <2>1. f \in [0 .. M -> Buffer]
    BY <1>0, BuffersTyped
  <2>2. lo \in Nat /\ hi \in 0 .. M + 1 /\ lo <= hi
    BY <1>0, <1>1
  <2>3. input_tensors[r][c] = Stretch(f, lo, hi)
    BY <1>0 DEF Lists, InputLists
  <2>. HIDE DEF f, lo, hi
  <2>. QED BY <1>0, <2>1, <2>2, <2>3, StretchTyped
<1>3. ASSUME NEW c \in Chunk, NEW lo \in 0 .. M, lo <= fwd[r][c]
      PROVE  Stretch(Outputs(r, c), lo, fwd[r][c]) \in Seq(Tensor)
  <2>1. \A m \in 0 .. M - 1 : Outputs(r, c)[m] \in Tensor
    BY ActComputed DEF Tensor
  <2>2. PICK hi \in 0 .. M : hi = fwd[r][c]
    BY <1>1
  <2>. DEFINE f == Outputs(r, c)
  <2>. HIDE DEF f
  <2>3. \A i \in lo .. hi - 1 : f[i] \in Tensor
    BY <1>0, <2>1 DEF f
  <2>4. lo \in Nat /\ hi \in Nat /\ lo <= hi
    BY <1>0, <1>3, <2>2
  <2>5. Stretch(f, lo, hi) \in Seq(Tensor)
    BY <2>3, <2>4, StretchIn
  <2>. QED BY <2>2, <2>5 DEF f
<1>4. ASSUME NEW c \in Chunk PROVE output_tensors[r][c] \in Seq(Tensor)
  BY <1>0, <1>1, <1>3 DEF Lists, OutputLists
<1>5. ASSUME NEW c \in Chunk PROVE output_tensor_grads[r][c] \in Seq(Buffer)
  <2>1. Buffers("B", r, C - 1 - c)[bwd[r][c]] \in Buffer
    <3>1. C - 1 - c \in Chunk /\ bwd[r][c] \in 0 .. M
      BY <1>1
    <3>2. Buffers("B", r, C - 1 - c) \in [0 .. M -> Buffer]
      BY <1>0, <3>1, BuffersTyped
    <3>. QED BY <3>1, <3>2
  <2>2. PICK b \in Buffer : b = Buffers("B", r, C - 1 - c)[bwd[r][c]]
    BY <2>1
  <2>3. <<b>> \in Seq(Buffer) /\ <<>> \in Seq(Buffer)
    OBVIOUS
  <2>. QED BY <1>0, <2>2, <2>3 DEF Lists, GradLists
<1>6. losses[r] \in Seq(Tensor)
  <2>1. C - 1 \in Chunk /\ 0 \in 0 .. M
    BY <1>0, Basics
  <2>2. 0 <= fwd[r][C - 1]
    BY <1>1, <2>1
  <2>. QED BY <1>0, <1>3, <2>1, <2>2 DEF Losses
<1>. QED BY <1>0, <1>2, <1>4, <1>5, <1>6 DEF ArraysOf, Over

LEMMA ReductionsTyped ==
  ASSUME Configuration, Inv, NEW r \in Rank
  PROVE  in_sync[r] \in SUBSET Chunk /\ launches[r] \in [Chunk -> Seq(0 .. M)]
<1>1. Reductions(r) /\ M \in 0 .. M
  BY Basics DEF Inv, Local
<1>2. <<M>> \in Seq(0 .. M) /\ <<>> \in Seq(0 .. M)
  BY <1>1
<1>. QED BY <1>1, <1>2 DEF Reductions

LEMMA InvTyped == ASSUME Configuration, Inv PROVE TypeOK
<1>0. Arrays /\ \A r \in Rank : Local(r) /\ Linked(r)
  BY DEF Inv
<1>1. ops \in [Rank -> [Rank -> Seq(Operation)]]
  <2>1. \A r \in Rank : ops[r] \in [Rank -> Seq(Operation)]
    BY <1>0, OpsTyped DEF Local, ArraysOf, Over
  <2>. QED BY <1>0, <2>1 DEF Arrays, Over
<1>2. gotF \in [Rank -> Seq(Tensor)] /\ gotB \in [Rank -> Seq(Tensor)]
  <2>1. Seq(Computed) \subseteq Seq(Tensor)
    BY DEF Tensor
  <2>2. \A r \in Rank : gotF[r] \in Seq(Computed) /\ gotB[r] \in Seq(Computed)
    BY <1>0 DEF Linked, Received, Got, Pass
  <2>. QED BY <1>0, <2>1, <2>2 DEF Arrays, Over
<1>3. /\ phase \in [Rank -> {"init", "warmup", "steady", "drain", "cooldown", "finish", "done"}]
      /\ k \in [Rank -> 0 .. Total] /\ half \in [Rank -> BOOLEAN]
  BY <1>0, CountersTyped DEF Arrays, Over
<1>4. askF \in [Rank -> 0 .. Total] /\ askB \in [Rank -> 0 .. Total]
  BY <1>0, CountersTyped DEF Arrays, Over
<1>5. fwd \in [Rank -> [Chunk -> 0 .. M]] /\ bwd \in [Rank -> [Chunk -> 0 .. M]]
  BY <1>0, CountersTyped DEF Arrays, Over
<1>6. /\ input_tensors \in [Rank -> [Chunk -> Seq(Buffer)]]
      /\ output_tensors \in [Rank -> [Chunk -> Seq(Tensor)]]
      /\ output_tensor_grads \in [Rank -> [Chunk -> Seq(Buffer)]]
      /\ losses \in [Rank -> Seq(Tensor)]
  BY <1>0, ListsTyped DEF Arrays, Over
<1>7. output_tensor \in [Rank -> Tensor \cup {None}] /\ clean \in [Rank -> BOOLEAN]
  BY <1>0 DEF Arrays, Over, Local, ArraysOf
<1>8. in_sync \in [Rank -> SUBSET Chunk] /\ launches \in [Rank -> [Chunk -> Seq(0 .. M)]]
  BY <1>0, ReductionsTyped DEF Arrays, Over
<1>. QED BY <1>1, <1>2, <1>3, <1>4, <1>5, <1>6, <1>7, <1>8 DEF TypeOK

(* Where a rank stands when it has finished.                                     *)
LEMMA DoneIs ==
  ASSUME Configuration, Inv, NEW r \in Rank, phase[r] = "done", NEW c \in Chunk
  PROVE  /\ fwd[r][c] = M /\ bwd[r][c] = (IF ForwardOnly THEN 0 ELSE M) /\ Oldest(r, c) = M
         /\ Ran("B", r) = IF ForwardOnly THEN 0 ELSE Total
<1>0. /\ Position(r) /\ Counted(r) /\ M \in Nat
  BY Basics DEF Inv, Local
<1>1. Ran("F", r) = Total /\ Ran("B", r) = IF ForwardOnly THEN 0 ELSE Total
  BY DEF Ran
<1>2. /\ fwd[r][c] = Count(Ran("F", r), c) /\ bwd[r][c] = Count(Ran("B", r), C - 1 - c) /\ C - 1 - c \in Chunk
  BY <1>0, CountsAre
<1>3. /\ Count(Total, c) = M /\ Count(Total, C - 1 - c) = M /\ Count(0, C - 1 - c) = 0
  BY <1>2, CountEnds
<1>4. fwd[r][c] = M
  BY <1>1, <1>2, <1>3
<1>5. bwd[r][c] = IF ForwardOnly THEN 0 ELSE M
  BY <1>1, <1>2, <1>3
<1>. QED BY <1>1, <1>4, <1>5 DEF Oldest

LEMMA InvInOrder == ASSUME Configuration, Inv PROVE LossesInOrder
<1>. SUFFICES ASSUME NEW r \in Rank, NEW n \in 1 .. Len(losses[r])
              PROVE  losses[r][n] = Act(P * C - 1, n - 1)
  BY DEF LossesInOrder
<1>0. /\ Losses(r) /\ Position(r) /\ Counted(r) /\ C - 1 \in Chunk /\ M \in Nat /\ P \in Nat \ {0} /\ C \in Nat \ {0}
  BY Basics DEF Inv, Local
<1>1. LastRank(r) /\ losses[r] = Stretch(Outputs(r, C - 1), 0, fwd[r][C - 1])
  <2>1. Len(<<>>) = 0
    OBVIOUS
  <2>2. CASE ~LastRank(r)
    BY <1>0, <2>1, <2>2 DEF Losses
  <2>. QED BY <1>0, <2>2 DEF Losses
<1>2. PICK hi \in 0 .. M : hi = fwd[r][C - 1]
  BY <1>0, CountsAre
<1>. DEFINE f == Outputs(r, C - 1)
<1>. HIDE DEF f
<1>3. losses[r] = Stretch(f, 0, hi)
  BY <1>1, <1>2 DEF f
<1>4. Len(losses[r]) = hi /\ \A i \in 1 .. hi : losses[r][i] = f[0 + i - 1]
  <2>1. PICK lo \in Nat : lo = 0
    OBVIOUS
  <2>2. hi \in Nat /\ lo <= hi /\ hi - lo = hi
    BY <1>0, <2>1
  <2>3. Len(Stretch(f, lo, hi)) = hi - lo /\ \A i \in 1 .. hi - lo : Stretch(f, lo, hi)[i] = f[lo + i - 1]
    BY <2>2, StretchIs
  <2>. QED BY <1>3, <2>1, <2>2, <2>3
<1>5. n - 1 \in 0 .. M - 1 /\ losses[r][n] = f[n - 1]
  BY <1>0, <1>4
<1>6. f[n - 1] = Act(VStage(r, C - 1), n - 1)
  BY <1>0, <1>5, ActComputed DEF f
<1>7. VStage(r, C - 1) = P * C - 1
  <2>1. (C - 1) * P = P * C - P
    BY <1>0
  <2>. QED BY <1>0, <1>1, <2>1 DEF VStage, LastRank
<1>. QED BY <1>5, <1>6, <1>7

LEMMA InvReducedOnce == ASSUME Configuration, Inv PROVE GradsReducedOnce
<1>. SUFFICES ASSUME NEW r \in Rank, NEW c \in Chunk
              PROVE  /\ launches[r][c] # <<>> => launches[r][c] = <<M>>
                     /\ phase[r] = "done" /\ ~ForwardOnly => launches[r][c] = <<M>>
  BY DEF GradsReducedOnce
<1>1. launches[r][c] = IF Reduced(r, c) THEN <<M>> ELSE <<>>
  <2>1. Reductions(r)
    BY DEF Inv, Local
  <2>. QED BY <2>1 DEF Reductions
<1>2. ASSUME phase[r] = "done", ~ForwardOnly PROVE Reduced(r, c)
  <2>1. GradReduce \in {"finalize", "overlap", "delay"} /\ C - 1 - c \in Chunk
    BY Basics DEF Configuration, Chunk
  <2>2. Ran("B", r) = Total /\ Count(Total, C - 1 - c) = M
    BY <1>2, <2>1, DoneIs, CountEnds
  <2>3. CASE GradReduce = "overlap"
    BY <2>2, <2>3 DEF Reduced, Synced
  <2>. QED BY <1>2, <2>1, <2>3 DEF Reduced
<1>. QED BY <1>1, <1>2

LEMMA InvCleanFinish == ASSUME Configuration, Inv PROVE CleanFinish
<1>. SUFFICES ASSUME NEW r \in Rank, phase[r] = "done", NEW c \in Chunk
              PROVE  /\ fwd[r][c] = M
                     /\ bwd[r][c] = IF ForwardOnly THEN 0 ELSE M
                     /\ output_tensors[r][c] = <<>>
                     /\ \A n \in 1 .. Len(input_tensors[r][c]) : input_tensors[r][c][n] = None
                     /\ \A n \in 1 .. Len(output_tensor_grads[r][c]) : output_tensor_grads[r][c][n] = None
  BY DEF CleanFinish
<1>0. Lists(r) /\ M \in Nat /\ "F" \in Pass /\ "B" \in Pass
  BY Basics DEF Inv, Local, Pass
<1>1. /\ fwd[r][c] = M /\ bwd[r][c] = (IF ForwardOnly THEN 0 ELSE M) /\ Oldest(r, c) = M
  BY DoneIs
<1>2. output_tensors[r][c] = <<>>
  BY <1>0, <1>1, StretchEmpty DEF Lists, OutputLists
<1>3. ASSUME NEW d \in Pass, NEW e \in Chunk PROVE Buffers(d, r, e)[M] = None
  BY <1>0 DEF Buffers
<1>4. ASSUME NEW n \in 1 .. Len(input_tensors[r][c]) PROVE input_tensors[r][c][n] = None
  <2>. DEFINE f == Buffers("F", r, c)
  <2>0. f[M] = None
    BY <1>0, <1>3
  <2>. HIDE DEF f
  <2>1. PICK x \in {0, 1} : x = IF Filed(r, c) THEN 1 ELSE 0
    OBVIOUS
  <2>2. input_tensors[r][c] = Stretch(f, M, M + x)
    BY <1>0, <1>1, <2>1 DEF Lists, InputLists, f
  <2>3. PICK hi \in Nat : hi = M + x
    BY <1>0
  <2>6. Len(Stretch(f, M, hi)) = hi - M /\ \A i \in 1 .. hi - M : Stretch(f, M, hi)[i] = f[M + i - 1]
    <3>1. M \in Nat /\ hi \in Nat /\ M <= hi
      BY <1>0, <2>3
    <3>. QED BY <3>1, StretchIs
  <2>4. n = 1 /\ n \in 1 .. hi - M
    BY <1>0, <2>2, <2>3, <2>6
  <2>5. M + n - 1 = M
    BY <1>0, <2>4
  <2>. QED BY <2>0, <2>2, <2>3, <2>4, <2>5, <2>6
<1>5. ASSUME NEW n \in 1 .. Len(output_tensor_grads[r][c]) PROVE output_tensor_grads[r][c][n] = None
  <2>1. \/ output_tensor_grads[r][c] = <<>>
        \/ output_tensor_grads[r][c] = <<Buffers("B", r, C - 1 - c)[bwd[r][c]]>> /\ GradFiled(r, c)
    BY <1>0 DEF Lists, GradLists
  <2>2. Len(<<>>) = 0
    OBVIOUS
  <2>3. ~ForwardOnly /\ output_tensor_grads[r][c] = <<Buffers("B", r, C - 1 - c)[M]>>
    <3>1. GradFiled(r, c) => ~ForwardOnly
      BY DEF GradFiled, NoGradYet
    <3>. QED BY <1>1, <2>1, <2>2, <3>1
  <2>4. C - 1 - c \in Chunk
    BY Basics DEF Chunk
  <2>5. output_tensor_grads[r][c] = <<None>>
    BY <1>0, <1>3, <2>3, <2>4
  <2>6. Len(<<None>>) = 1 /\ <<None>>[1] = None
    OBVIOUS
  <2>. QED BY <2>5, <2>6
<1>. QED BY <1>1, <1>2, <1>4, <1>5

(* The number of the first n iterations that are of the first c chunks.          *)
Below(n, c) == IF c * P <= n % W THEN (n \div W) * (c * P) + c * P ELSE (n \div W) * (c * P) + (n % W)

LEMMA BelowIs ==
  ASSUME Configuration, NEW n \in Nat
  PROVE  /\ Below(n, 0) = 0 /\ Below(n, C) = n
         /\ \A c \in 0 .. C : Below(n, c) \in Int
         /\ \A c \in Chunk : Below(n, c + 1) = Below(n, c) + Count(n, c)
<1>0. P \in Nat \ {0} /\ C \in Nat \ {0} /\ W \in Nat \ {0} /\ W = C * P /\ n \in Int
  BY Sizes DEF W
<1>1. PICK q \in Int, e \in Chunk, j \in 0 .. P - 1 : Parts(n, q, e, j)
  BY <1>0, HasParts
<1>. DEFINE x == e * P + j
<1>2. n = q * W + x /\ n \div W = q /\ n % W = x /\ x \in 0 .. W - 1 /\ e \in 0 .. C - 1 /\ e * P \in Nat
  BY <1>0, <1>1, Places DEF Parts, Chunk
<1>3. \A c : Below(n, c) = IF c * P <= x THEN q * (c * P) + c * P ELSE q * (c * P) + x
  BY <1>2 DEF Below
<1>4. Below(n, 0) = 0
  <2>1. 0 * P = 0 /\ q * 0 = 0
    BY <1>0
  <2>2. 0 <= x
    BY <1>0, <1>2
  <2>. QED BY <1>3, <2>1, <2>2
<1>5. Below(n, C) = n
  <2>1. ~(C * P <= x) /\ q * (C * P) = q * W
    BY <1>0, <1>2
  <2>. QED BY <1>2, <1>3, <2>1
<1>6. ASSUME NEW c \in 0 .. C PROVE Below(n, c) \in Int
  <2>1. c * P \in Int /\ x \in Int
    BY <1>0, <1>2
  <2>2. q * (c * P) \in Int
    BY <2>1
  <2>. QED BY <1>3, <2>1, <2>2
<1>7. ASSUME NEW c \in Chunk PROVE Below(n, c + 1) = Below(n, c) + Count(n, c)
  <2>. DEFINE a == c * P
  <2>0. c \in 0 .. C - 1
    BY DEF Chunk
  <2>1. a \in Nat /\ (c + 1) * P = a + P
    BY <1>0, <2>0
  <2>2. q * (a + P) = q * a + q * P /\ q * a \in Int /\ q * P \in Int
    BY <1>0, <2>1
  <2>3. Count(n, c) = q * P + (IF c < e THEN P ELSE IF c = e THEN j ELSE 0)
    BY <1>0, <1>1, CountIs
  <2>4. CASE c < e
    <3>1. (c + 1) * P <= e * P
      <4>1. c + 1 \in Int /\ e \in Int /\ c + 1 <= e /\ P \in Nat
        BY <1>0, <1>2, <2>0, <2>4
      <4>. QED BY <4>1, TimesMonotonic
    <3>2. a <= x /\ a + P <= x
      BY <1>0, <1>2, <2>1, <3>1
    <3>. QED BY <1>0, <1>3, <2>1, <2>2, <2>3, <2>4, <3>2
  <2>5. CASE c = e
    <3>1. a <= x /\ ~(a + P <= x) /\ x = a + j
      BY <1>0, <1>2, <2>1, <2>5
    <3>2. Below(n, c) = q * a + a /\ Below(n, c + 1) = q * (a + P) + x
      BY <1>3, <2>1, <3>1
    <3>3. Count(n, c) = q * P + j /\ j \in Int
      <4>1. ~(c < e)
        BY <2>0, <2>5
      <4>. QED BY <2>3, <2>5, <4>1
    <3>4. PICK u \in Int, v \in Int : u = q * a /\ v = q * P
      BY <2>2
    <3>5. Below(n, c) = u + a /\ Below(n, c + 1) = (u + v) + (a + j) /\ Count(n, c) = v + j
      BY <2>2, <3>1, <3>2, <3>3, <3>4
    <3>. QED BY <2>1, <3>3, <3>4, <3>5
  <2>6. CASE e < c
    <3>1. (e + 1) * P <= c * P /\ (e + 1) * P = e * P + P
      <4>1. e + 1 \in Int /\ c \in Int /\ e + 1 <= c /\ P \in Nat
        BY <1>0, <1>2, <2>0, <2>6
      <4>2. (e + 1) * P <= c * P
        BY <4>1, TimesMonotonic
      <4>. QED BY <1>0, <1>2, <4>2
    <3>2. ~(a <= x) /\ ~(a + P <= x)
      BY <1>0, <1>2, <2>1, <3>1
    <3>3. Below(n, c) = q * a + x /\ Below(n, c + 1) = q * (a + P) + x
      BY <1>3, <2>1, <3>2
    <3>4. x \in Int
      BY <1>0, <1>2
    <3>. QED BY <1>2, <2>0, <2>1, <2>2, <2>3, <2>6, <3>3, <3>4
  <2>. QED BY <1>2, <2>0, <2>4, <2>5, <2>6
<1>. QED BY <1>4, <1>5, <1>6, <1>7

(* What a rank holds is what it has run forward and not yet backward.            *)
LEMMA OutstandingIs ==
  ASSUME Configuration, Inv, NEW r \in Rank
  PROVE  Outstanding(r) = Ran("F", r) - Ran("B", r)
<1>0. /\ Position(r) /\ Counted(r) /\ C \in Nat \ {0} /\ Total \in Nat /\ "F" \in Pass /\ "B" \in Pass
  BY Basics DEF Inv, Local, Pass
<1>1. PICK a \in Nat : a = Ran("F", r)
  BY <1>0, RanIs
<1>2. PICK b \in Nat : b = Ran("B", r)
  BY <1>0, RanIs
<1>. DEFINE Loop_(g) == [c \in 0 .. C |-> IF c = 0 THEN 0 ELSE g[c - 1] + (fwd[r][c - 1] - bwd[r][c - 1])]
            f == [c \in 0 .. C |-> Below(a, c) - (b - Below(b, C - c))]
<1>3. Outstanding(r) = (CHOOSE g : g = Loop_(g))[C]
  BY DEF Outstanding
<1>4. \A g : Loop_(g)[0] = 0 /\ \A c \in 1 .. C : Loop_(g)[c] = g[c - 1] + (fwd[r][c - 1] - bwd[r][c - 1])
  BY <1>0
<1>5. \A g : Loop_(g) = [c \in 0 .. C |-> Loop_(g)[c]]
  OBVIOUS
<1>6. f[0] = 0 /\ f[C] = a - b
  <2>1. Below(a, 0) = 0 /\ Below(b, C) = b /\ Below(a, C) = a /\ Below(b, 0) = 0
    BY BelowIs
  <2>2. 0 \in 0 .. C /\ C \in 0 .. C /\ C - 0 = C /\ C - C = 0
    BY <1>0
  <2>. QED BY <2>1, <2>2
<1>7. ASSUME NEW c \in 1 .. C PROVE f[c] = f[c - 1] + (fwd[r][c - 1] - bwd[r][c - 1])
  <2>1. c - 1 \in 0 .. C /\ c \in 0 .. C /\ c - 1 \in Chunk /\ C - c \in Chunk /\ C - c \in 0 .. C /\ C - (c - 1) \in 0 .. C
        /\ C - (c - 1) = (C - c) + 1 /\ C - 1 - (c - 1) = C - c /\ (c - 1) + 1 = c
    BY <1>0 DEF Chunk
  <2>2. fwd[r][c - 1] = Count(a, c - 1) /\ bwd[r][c - 1] = Count(b, C - c)
    <3>1. fwd[r][c - 1] = Count(a, c - 1) /\ bwd[r][c - 1] = Count(b, C - 1 - (c - 1))
      BY <1>0, <1>1, <1>2, <2>1, CountsAre
    <3>. QED BY <2>1, <3>1
  <2>3. Below(a, c) = Below(a, c - 1) + Count(a, c - 1)
    <3>1. Below(a, (c - 1) + 1) = Below(a, c - 1) + Count(a, c - 1)
      BY <2>1, BelowIs
    <3>. QED BY <2>1, <3>1
  <2>4. Below(b, C - (c - 1)) = Below(b, C - c) + Count(b, C - c)
    <3>1. Below(b, (C - c) + 1) = Below(b, C - c) + Count(b, C - c)
      BY <2>1, BelowIs
    <3>. QED BY <2>1, <3>1
  <2>5. /\ Below(a, c - 1) \in Int /\ Below(b, C - c) \in Int
        /\ Count(a, c - 1) \in Int /\ Count(b, C - c) \in Int
    BY <2>1, BelowIs, CountStep
  <2>6. /\ f[c] = Below(a, c) - (b - Below(b, C - c))
        /\ f[c - 1] = Below(a, c - 1) - (b - Below(b, C - (c - 1)))
    BY <2>1
  <2>. HIDE DEF f
  <2>. QED BY <2>2, <2>3, <2>4, <2>5, <2>6
<1>8. f = [c \in 0 .. C |-> f[c]]
  OBVIOUS
<1>. HIDE DEF Loop_, f
<1>9. f = Loop_(f)
  <2>1. ASSUME NEW c \in 0 .. C PROVE f[c] = Loop_(f)[c]
    <3>1. CASE c = 0
      BY <1>4, <1>6, <3>1
    <3>2. CASE c \in 1 .. C
      BY <1>4, <1>7, <3>2
    <3>. QED BY <1>0, <3>1, <3>2
  <2>. QED BY <1>5, <1>8, <2>1
<1>10. ASSUME NEW g, g = Loop_(g) PROVE g = f
  <2>1. UpTo(C, f) /\ UpTo(C, g)
    BY <1>5, <1>8, <1>10 DEF UpTo
  <2>2. SameSteps(C, f, g)
    <3>1. f[0] = g[0]
      BY <1>4, <1>6, <1>10
    <3>2. ASSUME NEW c \in 1 .. C, f[c - 1] = g[c - 1] PROVE f[c] = g[c]
      BY <1>4, <1>7, <1>10, <3>2
    <3>. QED BY <3>1, <3>2 DEF SameSteps
  <2>. QED BY <1>0, <2>1, <2>2, RecursionUnique
<1>11. (CHOOSE g : g = Loop_(g)) = f
  BY <1>9, <1>10
<1>. QED BY <1>1, <1>2, <1>3, <1>6, <1>11

LEMMA InvOutstanding == ASSUME Configuration, Inv PROVE OutstandingBackprops
<1>. SUFFICES ASSUME ~ForwardOnly, NEW r \in Rank PROVE Ran("F", r) - Ran("B", r) <= NumWarmup(r) + 1
  BY OutstandingIs DEF OutstandingBackprops
<1>1. Position(r)
  BY DEF Inv, Local
<1>2. /\ Total \in Nat /\ NumWarmup(r) \in 0 .. Total /\ NumRemaining(r) = Total - NumWarmup(r)
  BY Basics, Warmups
<1>. HIDE DEF Total
<1>. QED BY <1>1, <1>2 DEF Ran, Position

-------------------------------------------------------------------------------
(* The order of the pipeline                                                     *)

(* What an iteration takes has been received, so it has been made: the rank      *)
(* before has run the iteration that makes it.                                   *)
LEMMA RanBefore ==
  ASSUME Configuration, Inv, NEW d \in Pass, NEW r \in Rank, NEW n \in 0 .. Total - 1, Takes(d, r, n),
         Takings(d, r, n + 1) <= Len(Got(d)[r]),
         NEW i \in 0 .. Total - 1, NEW s \in Rank, s = After(Other(d), r), Makes(d, s, i, r, n)
  PROVE  i < Ran(d, s)
<1>0. /\ Position(s) /\ Linked(s) /\ Total \in Nat /\ n \in Nat /\ i \in Nat /\ After(d, s) = r
  BY Basics, Ring DEF Inv, Local
<1>1. Sent(d, s) \in 0 .. Total /\ Ran(d, s) \in 0 .. Total /\ Sent(d, s) <= Ran(d, s)
  BY <1>0, RanIs
<1>2. Givings(d, s, Sent(d, s)) \in {Len(Got(d)[r]), Len(Got(d)[r]) + 1}
  BY <1>0 DEF Linked, Queues
<1>3. Len(Got(d)[r]) \in Nat
  BY DEF Inv, Linked, Received
<1>4. Givings(d, s, i) = Takings(d, r, n) /\ Takings(d, r, n + 1) = Takings(d, r, n) + 1 /\ Takings(d, r, n) \in Nat
  BY <1>0, TakingsStep, TakingsNat DEF Makes
<1>5. Givings(d, s, i) < Givings(d, s, Sent(d, s))
  BY <1>2, <1>3, <1>4
<1>6. ASSUME Sent(d, s) <= i PROVE FALSE
  <2>1. Sent(d, s) \in Nat
    BY <1>0, <1>1
  <2>2. Givings(d, s, Sent(d, s)) <= Givings(d, s, i)
    BY <1>0, <1>6, <2>1, TakingsMonotonic
  <2>3. Givings(d, s, Sent(d, s)) \in Int /\ Givings(d, s, i) \in Int
    BY <1>2, <1>3, <1>4
  <2>. QED BY <1>5, <2>2, <2>3
<1>. QED BY <1>0, <1>1, <1>6

(* So the virtual stage before is ahead.                                         *)
LEMMA StageBefore ==
  ASSUME Configuration, Inv, NEW d \in Pass, NEW r \in Rank, NEW n \in 0 .. Total - 1, Takes(d, r, n),
         Takings(d, r, n + 1) <= Len(Got(d)[r]), NEW s \in Rank, s = After(Other(d), r)
  PROVE  \E e \in Chunk : /\ e = ForwardChunk(n) - (IF Place(d, r) = 0 THEN 1 ELSE 0)
                          /\ Microbatch(n) < Count(Ran(d, s), e)
<1>0. Total \in Nat /\ Position(s)
  BY Basics DEF Inv, Local
<1>1. PICK i \in 0 .. Total - 1 : Makes(d, s, i, r, n)
  BY Source
<1>2. i \in Nat /\ i \in Int /\ i + 1 \in Nat /\ Ran(d, s) \in Nat /\ i + 1 <= Ran(d, s)
  <2>1. i < Ran(d, s)
    BY <1>1, RanBefore
  <2>. QED BY <1>0, <2>1, RanIs
<1>. DEFINE e == ForwardChunk(i)
<1>3. e \in Chunk
  BY <1>2, ForwardChunkIs
<1>4. Count(i + 1, e) = Count(i, e) + 1 /\ Count(i, e) \in Nat
  BY <1>2, <1>3, CountStep
<1>5. Count(i + 1, e) <= Count(Ran(d, s), e) /\ Count(Ran(d, s), e) \in Nat
  BY <1>2, <1>3, CountMonotonic, CountStep
<1>6. Count(i, e) = Microbatch(n)
  BY <1>1 DEF Makes, Microbatch
<1>. QED BY <1>1, <1>3, <1>4, <1>5, <1>6 DEF Makes

(* A step of a rank runs one iteration of one pass, or none.                     *)
Advances(d, r) == Ran(d, r)' = Ran(d, r) + 1 /\ Ran(Other(d), r)' = Ran(Other(d), r)
Stays(r) == \A d \in Pass : Ran(d, r)' = Ran(d, r)

LEMMA StepRuns ==
  ASSUME Configuration, Arrays, NEW r \in Rank, Position(r), Step(r)
  PROVE  Stays(r) \/ \E d \in Pass : Advances(d, r)
<1>0. /\ Total \in Nat \ {0} /\ NumWarmup(r) \in 0 .. Total /\ NumRemaining(r) \in 0 .. Total
      /\ NumWarmup(r) + NumRemaining(r) = Total
      /\ ForwardOnly \/ AllWarmup => NumWarmup(r) = Total
      /\ ForwardOnly \in BOOLEAN /\ AllWarmup \in BOOLEAN
      /\ "F" \in Pass /\ "B" \in Pass /\ Other("F") = "B" /\ Other("B") = "F"
  BY Loop DEF Pass, Other
<1>. HIDE DEF Total
<1>1. CASE Start(r)
  <2>1. phase[r] = "init" /\ phase'[r] = (IF NumWarmup(r) = 0 THEN AfterWarmup(r) ELSE "warmup") /\ k'[r] = k[r] /\ half'[r] = half[r]
    BY <1>1 DEF Start, Arrays, Over
  <2>2. Stays(r)
    BY <1>0, <2>1 DEF Stays, Ran, Position, AfterWarmup, Pass
  <2>. QED BY <2>2
<1>2. CASE Warmup(r)
  <2>1. /\ phase[r] = "warmup" /\ phase'[r] = (IF LastWarmup(r) THEN AfterWarmup(r) ELSE phase[r])
        /\ k'[r] = (IF LastWarmup(r) THEN 0 ELSE k[r] + 1) /\ half'[r] = half[r]
    BY <1>2 DEF Warmup, Arrays, Over
  <2>2. Advances("F", r)
    BY <1>0, <2>1 DEF Advances, Ran, Position, AfterWarmup, LastWarmup
  <2>. QED BY <1>0, <2>2
<1>3. CASE SteadyForward(r)
  <2>1. phase[r] = "steady" /\ ~half[r] /\ phase'[r] = phase[r] /\ k'[r] = k[r] /\ half'[r] = TRUE
    BY <1>3 DEF SteadyForward, Arrays, Over
  <2>2. Advances("F", r)
    BY <1>0, <2>1 DEF Advances, Ran, Position
  <2>. QED BY <1>0, <2>2
<1>4. CASE SteadyBackward(r)
  <2>1. /\ phase[r] = "steady" /\ half[r] /\ half'[r] = FALSE
        /\ phase'[r] = (IF k[r] = NumRemaining(r) - 1 THEN "drain" ELSE phase[r])
        /\ k'[r] = (IF k[r] = NumRemaining(r) - 1 THEN 0 ELSE k[r] + 1)
    BY <1>4 DEF SteadyBackward, Arrays, Over
  <2>2. Advances("B", r)
    BY <1>0, <2>1 DEF Advances, Ran, Position
  <2>. QED BY <1>0, <2>2
<1>5. CASE Drain(r)
  <2>1. /\ phase[r] = "drain" /\ half'[r] = half[r]
        /\ phase'[r] = (IF NumRemaining(r) = Total THEN "finish" ELSE "cooldown")
        /\ k'[r] = NumRemaining(r)
    BY <1>5 DEF Drain, Arrays, Over
  <2>2. Stays(r)
    BY <1>0, <2>1 DEF Stays, Ran, Position, Pass
  <2>. QED BY <2>2
<1>6. CASE Cooldown(r)
  <2>1. /\ phase[r] = "cooldown" /\ half'[r] = half[r]
        /\ phase'[r] = (IF LastCooldown(r) THEN "finish" ELSE phase[r])
        /\ k'[r] = (IF LastCooldown(r) THEN 0 ELSE k[r] + 1)
    BY <1>6 DEF Cooldown, Arrays, Over
  <2>2. Advances("B", r)
    BY <1>0, <2>1 DEF Advances, Ran, Position, LastCooldown
  <2>. QED BY <1>0, <2>2
<1>7. CASE Finish(r)
  <2>1. phase[r] = "finish" /\ phase'[r] = "done" /\ k'[r] = k[r] /\ half'[r] = half[r]
    BY <1>7 DEF Finish, Arrays, Over
  <2>2. Stays(r)
    BY <1>0, <2>1 DEF Stays, Ran, Position, Pass
  <2>. QED BY <2>2
<1>. QED BY <1>1, <1>2, <1>3, <1>4, <1>5, <1>6, <1>7 DEF Step

(* The virtual stages, by rank and chunk.                                        *)
LEMMA StageIs ==
  ASSUME Configuration
  PROVE  /\ \A r \in Rank, c \in Chunk :
              VStage(r, c) \in 0 .. P * C - 1 /\ VStage(r, c) % P = r /\ VStage(r, c) \div P = c
         /\ \A v \in 0 .. P * C - 1 : v % P \in Rank /\ v \div P \in Chunk /\ v = VStage(v % P, v \div P)
<1>0. P \in Nat \ {0} /\ C \in Nat \ {0} /\ W = P * C /\ W = C * P
  BY Basics DEF W
<1>1. ASSUME NEW r \in Rank, NEW c \in Chunk
      PROVE  VStage(r, c) \in 0 .. P * C - 1 /\ VStage(r, c) % P = r /\ VStage(r, c) \div P = c
  <2>1. VStage(r, c) \in 0 .. P * C - 1
    BY <1>0, Stages
  <2>2. c \in Int /\ r \in 0 .. P - 1
    BY DEF Chunk, Rank
  <2>3. (c * P + r) % P = r /\ (c * P + r) \div P = c
    BY <1>0, <2>2, DivisionUnique
  <2>. QED BY <2>1, <2>3 DEF VStage
<1>2. ASSUME NEW v \in 0 .. P * C - 1
      PROVE  v % P \in Rank /\ v \div P \in Chunk /\ v = VStage(v % P, v \div P)
  <2>0. v \in Int /\ v \in 0 .. C * P - 1 /\ C \in Nat
    BY <1>0
  <2>1. v % P \in 0 .. P - 1 /\ v = (v \div P) * P + (v % P)
    BY <1>0, <2>0, Division
  <2>2. v \div P \in 0 .. C - 1
    BY <1>0, <2>0, QuotientBounds
  <2>. QED BY <2>1, <2>2 DEF Rank, Chunk, VStage
<1>. QED BY <1>1, <1>2

(* The microbatches that rank r has run, when it advances in pass d.             *)
LEMMA CountsAdvance ==
  ASSUME Configuration, Inv, Inv', NEW d \in Pass, NEW r \in Rank, Advances(d, r),
         NEW n, n = Ran(d, r)
  PROVE  /\ n \in 0 .. Total - 1
         /\ \A e \in Chunk : Count(Ran(d, r)', e) = Count(n, e) + (IF e = ForwardChunk(n) THEN 1 ELSE 0)
<1>0. Position(r) /\ Position(r)' /\ Total \in Nat
  BY Basics DEF Inv, Local
<1>1. n \in 0 .. Total
  BY <1>0, RanIs
<1>2. Ran(d, r)' \in 0 .. Total
  BY <1>0, RanNext
<1>3. n \in 0 .. Total - 1 /\ n \in Nat /\ Ran(d, r)' = n + 1
  BY <1>0, <1>1, <1>2 DEF Advances
<1>. QED BY <1>3, CountStep

LEMMA TakenInStep ==
  ASSUME Configuration, Inv, Inv', UNCHANGED got, NEW d \in Pass, NEW r \in Rank, Advances(d, r),
         NEW n, n = Ran(d, r)
  PROVE  Takings(d, r, n + 1) <= Len(Got(d)[r])
<1>1. Got(d)' = Got(d)
  BY DEF Got, got
<1>2. Takings(d, r, Ran(d, r)') <= Len(Got(d)'[r])
  BY DEF Inv, Linked, Received
<1>. QED BY <1>1, <1>2 DEF Advances

(* The counters of the abstract pipeline, from those of ranks and chunks.        *)
Spread(f) == [v \in 0 .. P * C - 1 |-> f[v % P][v \div P]]
OneMore(f, g, r, c) ==
  \A s \in Rank, e \in Chunk : g[s][e] = IF s = r /\ e = c THEN f[s][e] + 1 ELSE f[s][e]
NoMore(f, g) == \A s \in Rank, e \in Chunk : g[s][e] = f[s][e]

LEMMA SpreadMore ==
  ASSUME Configuration, NEW f, NEW g, NEW r \in Rank, NEW c \in Chunk, OneMore(f, g, r, c)
  PROVE  Spread(g) = [Spread(f) EXCEPT ![VStage(r, c)] = @ + 1]
<1>. DEFINE w == VStage(r, c)
            F == Spread(f)
<1>1. w \in 0 .. P * C - 1 /\ w % P = r /\ w \div P = c
  BY StageIs
<1>2. ASSUME NEW v \in 0 .. P * C - 1 PROVE g[v % P][v \div P] = IF v = w THEN F[w] + 1 ELSE F[v]
  <2>1. v % P \in Rank /\ v \div P \in Chunk /\ v = VStage(v % P, v \div P)
    BY StageIs
  <2>2. CASE v = w
    BY <1>1, <2>1, <2>2 DEF Spread, OneMore
  <2>3. CASE v # w
    <3>1. ~(v % P = r /\ v \div P = c)
      BY <2>1, <2>3
    <3>2. g[v % P][v \div P] = f[v % P][v \div P]
      BY <2>1, <3>1 DEF OneMore
    <3>. QED BY <2>3, <3>2 DEF Spread
  <2>. QED BY <2>2, <2>3
<1>3. Spread(g) = [v \in 0 .. P * C - 1 |-> IF v = w THEN F[w] + 1 ELSE F[v]]
  BY <1>2 DEF Spread
<1>4. F = [v \in 0 .. P * C - 1 |-> F[v]]
  BY DEF Spread
<1>. HIDE DEF w, F
<1>5. [F EXCEPT ![w] = @ + 1] = [v \in 0 .. P * C - 1 |-> IF v = w THEN F[w] + 1 ELSE F[v]]
  BY <1>1, <1>4
<1>. QED BY <1>3, <1>5 DEF w, F

LEMMA SpreadSame ==
  ASSUME Configuration, NEW f, NEW g, NoMore(f, g)
  PROVE  Spread(g) = Spread(f)
<1>1. \A v \in 0 .. P * C - 1 : g[v % P][v \div P] = f[v % P][v \div P]
  BY StageIs DEF NoMore
<1>. QED BY <1>1 DEF Spread

(* The virtual stage before that of an iteration, in the direction of the pass.  *)
LEMMA ForwardNeighbour ==
  ASSUME Configuration, NEW r \in Rank, NEW n \in 0 .. Total - 1, VStage(r, ForwardChunk(n)) # 0
  PROVE  /\ Takes("F", r, n) /\ PrevRank(r) \in Rank
         /\ \A e \in Chunk : e = ForwardChunk(n) - (IF Place("F", r) = 0 THEN 1 ELSE 0) =>
              VStage(PrevRank(r), e) = VStage(r, ForwardChunk(n)) - 1
<1>0. /\ P \in Nat \ {0} /\ C \in Nat \ {0} /\ r \in 0 .. P - 1 /\ n \in Int /\ "F" \in Pass
      /\ ForwardChunk(n) \in 0 .. C - 1
  <2>1. n \in Int
    BY Basics
  <2>. QED BY <2>1, Basics, ForwardChunkIs DEF Rank, Chunk, Pass
<1>1. PICK c \in 0 .. C - 1 : c = ForwardChunk(n)
  BY <1>0
<1>2. PICK s \in 0 .. P - 1 : s = PrevRank(r)
  BY Neighbours DEF Rank
<1>3. Place("F", r) = r /\ r = IF s = P - 1 THEN 0 ELSE s + 1
  <2>1. Place("F", s) = s /\ Place("F", r) = r
    BY <1>0, <1>2, PlaceIs DEF Rank
  <2>2. After("B", r) = s /\ Other("B") = "F" /\ "B" \in Pass
    BY <1>2 DEF After, Other, Pass
  <2>3. After("F", s) = r
    BY <2>2, Ring
  <2>4. Place("F", After("F", s)) = IF Place("F", s) = P - 1 THEN 0 ELSE Place("F", s) + 1
    BY <1>0, <1>2, Ring DEF Rank
  <2>. QED BY <2>1, <2>3, <2>4
<1>4. Takes("F", r, n)
  <2>1. ASSUME r = 0, c = 0 PROVE FALSE
    <3>1. VStage(r, c) = 0 * P + 0
      BY <2>1 DEF VStage
    <3>2. 0 * P + 0 = 0
      BY <1>0
    <3>. QED BY <1>1, <3>1, <3>2
  <2>. QED BY <1>1, <1>3, <2>1 DEF Takes
<1>5. ASSUME NEW e \in Chunk, e = c - (IF r = 0 THEN 1 ELSE 0)
      PROVE  VStage(s, e) = VStage(r, c) - 1
  <2>0. e \in 0 .. C - 1
    BY DEF Chunk
  <2>1. CASE r = 0
    <3>1. c = e + 1 /\ s = P - 1
      <4>1. e = c - 1
        BY <1>5, <2>1
      <4>2. s = P - 1
        <5>1. s \in Nat /\ s + 1 # 0
          BY <1>0, <1>2
        <5>. QED BY <1>3, <2>1, <5>1
      <4>. QED BY <1>1, <2>0, <4>1, <4>2
    <3>2. (e + 1) * P = e * P + P /\ e * P \in Int
      BY <1>0, <2>0
    <3>. QED BY <1>0, <2>1, <3>1, <3>2 DEF VStage
  <2>2. CASE r # 0
    <3>1. e = c /\ s = r - 1
      BY <1>0, <1>1, <1>2, <1>3, <1>5, <2>0, <2>2
    <3>2. e * P \in Int
      BY <1>0, <2>0
    <3>. QED BY <1>0, <3>1, <3>2 DEF VStage
  <2>. QED BY <2>1, <2>2
<1>6. PrevRank(r) \in Rank
  BY Neighbours
<1>. QED BY <1>1, <1>2, <1>3, <1>4, <1>5, <1>6

LEMMA BackwardNeighbour ==
  ASSUME Configuration, NEW r \in Rank, NEW n \in 0 .. Total - 1, VStage(r, BackwardChunk(n)) # P * C - 1
  PROVE  /\ Takes("B", r, n) /\ NextRank(r) \in Rank
         /\ \A e \in Chunk : e = ForwardChunk(n) - (IF Place("B", r) = 0 THEN 1 ELSE 0) =>
              VStage(NextRank(r), C - 1 - e) = VStage(r, BackwardChunk(n)) + 1
<1>0. /\ P \in Nat \ {0} /\ C \in Nat \ {0} /\ r \in 0 .. P - 1 /\ n \in Int /\ "B" \in Pass
      /\ ForwardChunk(n) \in 0 .. C - 1
  <2>1. n \in Int
    BY Basics
  <2>. QED BY <2>1, Basics, ForwardChunkIs DEF Rank, Chunk, Pass
<1>1. PICK c \in 0 .. C - 1 : c = BackwardChunk(n) /\ ForwardChunk(n) = C - 1 - c
  BY <1>0 DEF BackwardChunk
<1>2. PICK s \in 0 .. P - 1 : s = NextRank(r)
  BY Neighbours DEF Rank
<1>3. Place("B", r) = P - 1 - r /\ s = IF r = P - 1 THEN 0 ELSE r + 1
  <2>1. Place("F", s) = s /\ Place("F", r) = r /\ Place("B", r) = P - 1 - r
    BY <1>0, <1>2, PlaceIs DEF Rank
  <2>2. After("F", r) = s /\ "F" \in Pass
    BY <1>2 DEF After, Pass
  <2>3. Place("F", After("F", r)) = IF Place("F", r) = P - 1 THEN 0 ELSE Place("F", r) + 1
    BY <2>2, Ring
  <2>. QED BY <2>1, <2>2, <2>3
<1>4. Takes("B", r, n)
  <2>1. ASSUME r = P - 1, c = C - 1 PROVE FALSE
    <3>1. VStage(r, c) = (C - 1) * P + (P - 1)
      BY <2>1 DEF VStage
    <3>2. (C - 1) * P = P * C - P
      BY <1>0
    <3>. QED BY <1>0, <1>1, <3>1, <3>2
  <2>2. Place("B", r) = 0 => r = P - 1
    BY <1>0, <1>3
  <2>3. ForwardChunk(n) = 0 => c = C - 1
    BY <1>0, <1>1
  <2>. QED BY <2>1, <2>2, <2>3 DEF Takes
<1>5. ASSUME NEW e \in Chunk, e = (C - 1 - c) - (IF P - 1 - r = 0 THEN 1 ELSE 0)
      PROVE  VStage(s, C - 1 - e) = VStage(r, c) + 1
  <2>0. e \in 0 .. C - 1
    BY DEF Chunk
  <2>1. CASE r = P - 1
    <3>1. C - 1 - e = c + 1 /\ s = 0
      BY <1>0, <1>1, <1>2, <1>3, <1>5, <2>0, <2>1
    <3>2. (c + 1) * P = c * P + P /\ c * P \in Int
      BY <1>0, <1>1
    <3>. QED BY <1>0, <2>1, <3>1, <3>2 DEF VStage
  <2>2. CASE r # P - 1
    <3>1. C - 1 - e = c /\ s = r + 1
      BY <1>0, <1>1, <1>2, <1>3, <1>5, <2>0, <2>2
    <3>2. c * P \in Int
      BY <1>0, <1>1
    <3>. QED BY <1>0, <3>1, <3>2 DEF VStage
  <2>. QED BY <2>1, <2>2
<1>6. NextRank(r) \in Rank
  BY Neighbours
<1>. QED BY <1>1, <1>2, <1>3, <1>4, <1>5, <1>6

(* How many microbatches a rank has run on a chunk.                              *)
CountedAs(s, e) ==
  fwd[s][e] = Count(Ran("F", s), e) /\ bwd[s][e] = Count(Ran("B", s), C - 1 - e) /\ bwd[s][e] <= fwd[s][e]

LEMMA InvCounts ==
  ASSUME Inv, NEW s \in Rank, NEW e \in Chunk
  PROVE  CountedAs(s, e)
<1>1. Counted(s)
  BY DEF Inv, Local
<1>. QED BY <1>1 DEF Counted, CountedAs

LEMMA InvCountsNext ==
  ASSUME Inv', NEW s \in Rank, NEW e \in Chunk
  PROVE  CountedAs(s, e)'
<1>1. Counted(s)'
  BY DEF Inv, Local
<1>. QED BY <1>1 DEF Counted, CountedAs

(* A forward step is one of the abstract pipeline.                               *)
LEMMA OrderForward ==
  ASSUME Configuration, Inv, Inv', NEW r \in Rank, Others(r), UNCHANGED got, Advances("F", r)
  PROVE  Order!Next
<1>. DEFINE n == Ran("F", r)
            c == ForwardChunk(n)
            v == VStage(r, c)
<1>0. /\ "F" \in Pass /\ "B" \in Pass /\ Other("F") = "B" /\ n \in 0 .. Total - 1 /\ n \in Int /\ n < Total
      /\ n \in 0 .. Total
      /\ \A e \in Chunk : Count(Ran("F", r)', e) = Count(n, e) + (IF e = c THEN 1 ELSE 0)
  <2>1. "F" \in Pass /\ "B" \in Pass /\ Other("F") = "B"
    BY DEF Pass, Other
  <2>2. /\ n \in 0 .. Total - 1
        /\ \A e \in Chunk : Count(Ran("F", r)', e) = Count(n, e) + (IF e = c THEN 1 ELSE 0)
    BY <2>1, CountsAdvance
  <2>3. n \in Int /\ n < Total /\ n \in 0 .. Total
    BY <2>2, Basics
  <2>. QED BY <2>1, <2>2, <2>3
<1>1. c \in Chunk /\ v \in 0 .. P * C - 1 /\ v % P = r /\ v \div P = c
  <2>1. c \in Chunk
    BY <1>0, ForwardChunkIs
  <2>. QED BY <2>1, StageIs
<1>2. /\ \A s \in Rank : s # r => fwd'[s] = fwd[s] /\ bwd'[s] = bwd[s]
      /\ \A s \in Rank, e \in Chunk : CountedAs(s, e) /\ CountedAs(s, e)'
  BY InvCounts, InvCountsNext DEF Others, Same
<1>3. \A s \in Rank, e \in Chunk : fwd'[s][e] = IF s = r /\ e = c THEN fwd[s][e] + 1 ELSE fwd[s][e]
  <2>1. ASSUME NEW e \in Chunk PROVE fwd'[r][e] = IF e = c THEN fwd[r][e] + 1 ELSE fwd[r][e]
    <3>1. fwd'[r][e] = Count(Ran("F", r)', e) /\ fwd[r][e] = Count(n, e)
      BY <1>2 DEF CountedAs
    <3>2. Count(n, e) \in Int
      BY <1>0, CountBounds
    <3>. QED BY <1>0, <3>1, <3>2
  <2>. QED BY <1>2, <2>1
<1>4. \A s \in Rank, e \in Chunk : bwd'[s][e] = bwd[s][e]
  <2>1. ASSUME NEW e \in Chunk PROVE bwd'[r][e] = bwd[r][e]
    <3>1. Ran("B", r)' = Ran("B", r)
      BY <1>0 DEF Advances
    <3>. QED BY <1>2, <3>1 DEF CountedAs
  <2>. QED BY <1>2, <2>1
<1>5. fwd[r][c] < M /\ fwd[r][c] = Microbatch(n)
  <2>1. fwd[r][c] = Count(n, c)
    BY <1>1, <1>2 DEF CountedAs
  <2>2. Microbatch(n) \in 0 .. M - 1 /\ M \in Nat
    BY <1>0, CountBounds, Basics
  <2>. QED BY <2>1, <2>2 DEF Microbatch
<1>6. ASSUME v # 0 PROVE v - 1 \in 0 .. P * C - 1 /\ fwd[r][c] < fwd[(v - 1) % P][(v - 1) \div P]
  <2>. DEFINE s == PrevRank(r)
  <2>1. /\ Takes("F", r, n) /\ s \in Rank
        /\ \A e \in Chunk : e = c - (IF Place("F", r) = 0 THEN 1 ELSE 0) => VStage(s, e) = v - 1
    BY <1>0, <1>6, ForwardNeighbour
  <2>2. s = After(Other("F"), r)
    BY DEF After, Other
  <2>3. Takings("F", r, n + 1) <= Len(Got("F")[r])
    BY <1>0, TakenInStep
  <2>. HIDE DEF s, n
  <2>4. PICK e \in Chunk : /\ e = c - (IF Place("F", r) = 0 THEN 1 ELSE 0)
                           /\ Microbatch(n) < Count(Ran("F", s), e)
    BY <1>0, <2>1, <2>2, <2>3, StageBefore
  <2>5. v - 1 = VStage(s, e)
    BY <2>1, <2>4
  <2>6. v - 1 \in 0 .. P * C - 1 /\ (v - 1) % P = s /\ (v - 1) \div P = e
    BY <2>1, <2>5, StageIs
  <2>7. fwd[s][e] = Count(Ran("F", s), e)
    BY <1>2, <2>1 DEF CountedAs
  <2>. QED BY <1>5, <2>4, <2>6, <2>7
<1>7. Spread(fwd)' = [Spread(fwd) EXCEPT ![v] = @ + 1] /\ Spread(bwd)' = Spread(bwd)
  <2>. HIDE DEF c
  <2>1. OneMore(fwd, fwd', r, c) /\ NoMore(bwd, bwd')
    BY <1>3, <1>4 DEF OneMore, NoMore
  <2>2. Spread(fwd') = [Spread(fwd) EXCEPT ![VStage(r, c)] = @ + 1]
    BY <1>1, <2>1, SpreadMore
  <2>3. Spread(bwd') = Spread(bwd)
    BY <2>1, SpreadSame
  <2>4. Spread(fwd)' = Spread(fwd') /\ Spread(bwd)' = Spread(bwd')
    BY DEF Spread
  <2>. QED BY <2>2, <2>3, <2>4
<1>8. Spread(fwd)[v] = fwd[r][c] /\ \A w \in 0 .. P * C - 1 : Spread(fwd)[w] = fwd[w % P][w \div P]
  BY <1>1 DEF Spread
<1>9. PICK u \in 0 .. P * C - 1 : u = v
  BY <1>1
<1>. HIDE DEF v, c, n
<1>10. Spread(fwd)[u] < M /\ (u # 0 => Spread(fwd)[u] < Spread(fwd)[u - 1])
  BY <1>5, <1>6, <1>8, <1>9
<1>11. Spread(fwd)' = [Spread(fwd) EXCEPT ![u] = @ + 1] /\ Spread(bwd)' = Spread(bwd)
  BY <1>7, <1>9
<1>12. Order!Forward(u)
  BY <1>10, <1>11 DEF Order!Forward, Spread
<1>. QED BY <1>9, <1>12 DEF Order!Next, Order!VStage

(* And a backward step.                                                          *)
LEMMA OrderBackward ==
  ASSUME Configuration, Inv, Inv', NEW r \in Rank, Others(r), UNCHANGED got, Advances("B", r)
  PROVE  Order!Next
<1>. DEFINE n == Ran("B", r)
            b == ForwardChunk(n)
            c == BackwardChunk(n)
            v == VStage(r, c)
<1>0. /\ "F" \in Pass /\ "B" \in Pass /\ Other("B") = "F" /\ n \in 0 .. Total - 1 /\ n \in Int /\ n < Total
      /\ n \in 0 .. Total
      /\ \A e \in Chunk : Count(Ran("B", r)', e) = Count(n, e) + (IF e = b THEN 1 ELSE 0)
  <2>1. "F" \in Pass /\ "B" \in Pass /\ Other("B") = "F"
    BY DEF Pass, Other
  <2>2. /\ n \in 0 .. Total - 1
        /\ \A e \in Chunk : Count(Ran("B", r)', e) = Count(n, e) + (IF e = b THEN 1 ELSE 0)
    BY <2>1, CountsAdvance
  <2>3. n \in Int /\ n < Total /\ n \in 0 .. Total
    BY <2>2, Basics
  <2>. QED BY <2>1, <2>2, <2>3
<1>1. c \in Chunk /\ v \in 0 .. P * C - 1 /\ v % P = r /\ v \div P = c
  <2>1. c \in Chunk
    BY <1>0, ForwardChunkIs
  <2>. QED BY <2>1, StageIs
<1>2. /\ \A s \in Rank : s # r => fwd'[s] = fwd[s] /\ bwd'[s] = bwd[s]
      /\ \A s \in Rank, e \in Chunk : CountedAs(s, e) /\ CountedAs(s, e)'
  BY InvCounts, InvCountsNext DEF Others, Same
<1>3. \A s \in Rank, e \in Chunk : bwd'[s][e] = IF s = r /\ e = c THEN bwd[s][e] + 1 ELSE bwd[s][e]
  <2>0. C \in Nat \ {0} /\ Chunk = 0 .. C - 1 /\ c = C - b - 1 /\ b \in Chunk
    BY <1>0, Basics, ForwardChunkIs DEF Chunk, BackwardChunk
  <2>1. ASSUME NEW e \in Chunk PROVE bwd'[r][e] = IF e = c THEN bwd[r][e] + 1 ELSE bwd[r][e]
    <3>. HIDE DEF b, c
    <3>1. PICK g \in Chunk : g = C - 1 - e
      BY <2>0
    <3>2. g = b <=> e = c
      BY <2>0, <3>1
    <3>3. bwd'[r][e] = Count(Ran("B", r)', g) /\ bwd[r][e] = Count(n, g)
      BY <1>2, <3>1 DEF CountedAs
    <3>4. Count(n, g) \in Int
      BY <1>0, CountBounds
    <3>5. Count(Ran("B", r)', g) = Count(n, g) + (IF g = b THEN 1 ELSE 0)
      BY <1>0
    <3>. QED BY <3>2, <3>3, <3>4, <3>5
  <2>. QED BY <1>2, <2>1
<1>4. \A s \in Rank, e \in Chunk : fwd'[s][e] = fwd[s][e]
  <2>1. ASSUME NEW e \in Chunk PROVE fwd'[r][e] = fwd[r][e]
    <3>1. Ran("F", r)' = Ran("F", r)
      BY <1>0 DEF Advances
    <3>. QED BY <1>2, <3>1 DEF CountedAs
  <2>. QED BY <1>2, <2>1
<1>5. bwd[r][c] < fwd[r][c] /\ bwd[r][c] = Microbatch(n) /\ ~ForwardOnly
  <2>1. C - 1 - c = b
    BY <1>0, Basics, ForwardChunkIs DEF BackwardChunk, Chunk
  <2>2. bwd[r][c] = Count(n, b) /\ fwd[r][c] = Count(Ran("F", r), c)
    BY <1>1, <1>2, <2>1 DEF CountedAs
  <2>3. Microbatch(n) \in 0 .. M - 1 /\ bwd[r][c] = Microbatch(n)
    <3>1. Microbatch(n) \in 0 .. M - 1
      BY <1>0, <1>1, CountBounds
    <3>. QED BY <2>2, <3>1 DEF Microbatch
  <2>4. fwd[r][c] \in Int
    <3>1. Ran("F", r) \in 0 .. Total
      BY <1>0, RanIs DEF Inv, Local
    <3>. QED BY <1>1, <2>2, <3>1, CountBounds
  <2>5. bwd'[r][c] <= fwd'[r][c] /\ fwd'[r][c] = fwd[r][c] /\ bwd'[r][c] = bwd[r][c] + 1
    BY <1>1, <1>2, <1>3, <1>4 DEF CountedAs
  <2>6. ASSUME ForwardOnly PROVE FALSE
    <3>1. Ran("B", r) = 0 /\ Ran("B", r)' = 0
      BY <2>6 DEF Ran
    <3>. QED BY <3>1 DEF Advances
  <2>. HIDE DEF c, b, n
  <2>. QED BY <2>3, <2>4, <2>5, <2>6
<1>6. ASSUME v # P * C - 1 PROVE v + 1 \in 0 .. P * C - 1 /\ bwd[r][c] < bwd[(v + 1) % P][(v + 1) \div P]
  <2>. DEFINE s == NextRank(r)
  <2>1. /\ Takes("B", r, n) /\ s \in Rank
        /\ \A e \in Chunk : e = b - (IF Place("B", r) = 0 THEN 1 ELSE 0) => VStage(s, C - 1 - e) = v + 1
    BY <1>0, <1>6, BackwardNeighbour
  <2>2. s = After(Other("B"), r)
    BY DEF After, Other
  <2>3. Takings("B", r, n + 1) <= Len(Got("B")[r])
    BY <1>0, TakenInStep
  <2>. HIDE DEF s, n, c
  <2>4. PICK e \in Chunk : /\ e = b - (IF Place("B", r) = 0 THEN 1 ELSE 0)
                           /\ Microbatch(n) < Count(Ran("B", s), e)
    BY <1>0, <2>1, <2>2, <2>3, StageBefore
  <2>5. PICK g \in Chunk : g = C - 1 - e /\ C - 1 - g = e
    <3>1. C \in Nat /\ e \in 0 .. C - 1 /\ Chunk = 0 .. C - 1
      BY Basics DEF Chunk
    <3>. QED BY <3>1
  <2>6. v + 1 = VStage(s, g)
    BY <2>1, <2>4, <2>5
  <2>7. v + 1 \in 0 .. P * C - 1 /\ (v + 1) % P = s /\ (v + 1) \div P = g
    BY <2>1, <2>6, StageIs
  <2>8. bwd[s][g] = Count(Ran("B", s), e)
    BY <1>2, <2>1, <2>5 DEF CountedAs
  <2>. QED BY <1>5, <2>4, <2>7, <2>8
<1>7. Spread(bwd)' = [Spread(bwd) EXCEPT ![v] = @ + 1] /\ Spread(fwd)' = Spread(fwd)
  <2>. HIDE DEF c
  <2>1. OneMore(bwd, bwd', r, c) /\ NoMore(fwd, fwd')
    BY <1>3, <1>4 DEF OneMore, NoMore
  <2>2. Spread(bwd') = [Spread(bwd) EXCEPT ![VStage(r, c)] = @ + 1]
    BY <1>1, <2>1, SpreadMore
  <2>3. Spread(fwd') = Spread(fwd)
    BY <2>1, SpreadSame
  <2>4. Spread(fwd)' = Spread(fwd') /\ Spread(bwd)' = Spread(bwd')
    BY DEF Spread
  <2>. QED BY <2>2, <2>3, <2>4
<1>8. /\ Spread(bwd)[v] = bwd[r][c] /\ Spread(fwd)[v] = fwd[r][c]
      /\ \A w \in 0 .. P * C - 1 : Spread(bwd)[w] = bwd[w % P][w \div P]
  BY <1>1 DEF Spread
<1>9. PICK u \in 0 .. P * C - 1 : u = v
  BY <1>1
<1>. HIDE DEF v, c, b, n
<1>10. Spread(bwd)[u] < Spread(fwd)[u] /\ (u # P * C - 1 => Spread(bwd)[u] < Spread(bwd)[u + 1])
  BY <1>5, <1>6, <1>8, <1>9
<1>11. Spread(bwd)' = [Spread(bwd) EXCEPT ![u] = @ + 1] /\ Spread(fwd)' = Spread(fwd)
  BY <1>7, <1>9
<1>12. Order!Backward(u)
  BY <1>5, <1>10, <1>11 DEF Order!Backward, Spread
<1>. QED BY <1>9, <1>12 DEF Order!Next, Order!VStage

(* The schedule implements the abstract pipeline.                                *)
LEMMA OrderInit == ASSUME Configuration, Init PROVE Order!Init
<1>1. ASSUME NEW v \in 0 .. P * C - 1 PROVE fwd[v % P][v \div P] = 0 /\ bwd[v % P][v \div P] = 0
  <2>1. v % P \in Rank /\ v \div P \in Chunk
    BY StageIs
  <2>. QED BY <2>1 DEF Init
<1>. QED BY <1>1 DEF Order!Init, Order!VStage

LEMMA OrderStutter ==
  ASSUME Configuration, \A s \in Rank, e \in Chunk : fwd'[s][e] = fwd[s][e] /\ bwd'[s][e] = bwd[s][e]
  PROVE  UNCHANGED Order!vars
<1>1. \A v \in 0 .. P * C - 1 : v % P \in Rank /\ v \div P \in Chunk
  BY StageIs
<1>. QED BY <1>1 DEF Order!vars

LEMMA OrderStep ==
  ASSUME Configuration, Inv, Inv', [Next]_vars
  PROVE  Order!Next \/ UNCHANGED Order!vars
<1>1. ASSUME NEW r \in Rank, Step(r) PROVE Order!Next \/ UNCHANGED Order!vars
  <2>0. Arrays /\ Position(r)
    BY DEF Inv, Local
  <2>1. Others(r) /\ UNCHANGED got
    BY <1>1, StepPreserves DEF Preserved
  <2>2. CASE Stays(r)
    <3>1. ASSUME NEW s \in Rank, NEW e \in Chunk PROVE fwd'[s][e] = fwd[s][e] /\ bwd'[s][e] = bwd[s][e]
      <4>1. CountedAs(s, e) /\ CountedAs(s, e)'
        BY InvCounts, InvCountsNext
      <4>2. CASE s = r
        <5>1. Ran("F", r)' = Ran("F", r) /\ Ran("B", r)' = Ran("B", r)
          BY <2>2 DEF Stays, Pass
        <5>. QED BY <4>1, <4>2, <5>1 DEF CountedAs
      <4>3. CASE s # r
        BY <2>1, <4>3 DEF Others, Same
      <4>. QED BY <4>2, <4>3
    <3>. QED BY <3>1, OrderStutter
  <2>3. CASE Advances("F", r)
    BY <2>1, <2>3, OrderForward
  <2>4. CASE Advances("B", r)
    BY <2>1, <2>4, OrderBackward
  <2>. QED BY <1>1, <2>0, <2>2, <2>3, <2>4, StepRuns DEF Pass
<1>2. ASSUME UNCHANGED <<fwd, bwd>> PROVE UNCHANGED Order!vars
  BY <1>2, OrderStutter
<1>3. ASSUME NEW s \in Rank, NEW d \in Rank, Transfer(s, d) PROVE UNCHANGED <<fwd, bwd>>
  BY <1>3 DEF Transfer
<1>4. UNCHANGED vars => UNCHANGED <<fwd, bwd>>
  BY DEF vars
<1>5. Finished => UNCHANGED vars
  BY DEF Finished
<1>. QED BY <1>1, <1>2, <1>3, <1>4, <1>5 DEF Next

-------------------------------------------------------------------------------
(* The theorems                                                                  *)

(* Every variable of the schedule keeps its type: in particular a rank never has *)
(* asked for, or run, more than num_microbatches of a chunk, and its lists hold  *)
(* buffers it has asked for.                                                     *)
THEOREM TypeCorrect == Configuration => (Spec => []TypeOK)
<1>. SUFFICES ASSUME Configuration PROVE Spec => []TypeOK
  OBVIOUS
<1>1. Inv => TypeOK
  BY InvTyped
<1>2. Spec => []Inv
  BY InterleavedInvariant
<1>. QED BY <1>1, <1>2, PTL

(* No forward or backward step of any rank, in any mode of communication, mixes  *)
(* the tensors of two microbatches or two model chunks, or runs before they have *)
(* been received: the chunk arithmetic of the schedule files every buffer where  *)
(* the step that needs it looks for it.                                          *)
THEOREM NeverMixes == Configuration => (Spec => []NoMixing)
<1>. SUFFICES ASSUME Configuration PROVE Spec => []NoMixing
  OBVIOUS
<1>1. Inv => NoMixing
  BY DEF Inv, Local, NoMixing
<1>2. Spec => []Inv
  BY InterleavedInvariant
<1>. QED BY <1>1, <1>2, PTL

(* forward_data_store of the last rank has the losses in the order of the        *)
(* microbatches.                                                                 *)
THEOREM LossesOrdered == Configuration => (Spec => []LossesInOrder)
<1>. SUFFICES ASSUME Configuration PROVE Spec => []LossesInOrder
  OBVIOUS
<1>1. Inv => LossesInOrder
  BY InvInOrder
<1>2. Spec => []Inv
  BY InterleavedInvariant
<1>. QED BY <1>1, <1>2, PTL

(* No rank keeps more activations than num_warmup_microbatches + 1, the bound    *)
(* that the schedule itself calls max_outstanding_backprops.                     *)
THEOREM OutstandingBounded == Configuration => (Spec => []OutstandingBackprops)
<1>. SUFFICES ASSUME Configuration PROVE Spec => []OutstandingBackprops
  OBVIOUS
<1>1. Inv => OutstandingBackprops
  BY InvOutstanding
<1>2. Spec => []Inv
  BY InterleavedInvariant
<1>. QED BY <1>1, <1>2, PTL

(* The gradients of a chunk are reduced exactly once, after its last backward    *)
(* step, whichever of the hooks, grad_sync_func and finalize_model_grads does it. *)
THEOREM ReducedOnce == Configuration => (Spec => []GradsReducedOnce)
<1>. SUFFICES ASSUME Configuration PROVE Spec => []GradsReducedOnce
  OBVIOUS
<1>1. Inv => GradsReducedOnce
  BY InvReducedOnce
<1>2. Spec => []Inv
  BY InterleavedInvariant
<1>. QED BY <1>1, <1>2, PTL

(* A rank that returns from the schedule has run every chunk of every microbatch *)
(* and leaves no tensor it received unused.                                      *)
THEOREM FinishesClean == Configuration => (Spec => []CleanFinish)
<1>. SUFFICES ASSUME Configuration PROVE Spec => []CleanFinish
  OBVIOUS
<1>1. Inv => CleanFinish
  BY InvCleanFinish
<1>2. Spec => []Inv
  BY InterleavedInvariant
<1>. QED BY <1>1, <1>2, PTL

(* The interleaved schedule is a pipeline of P * C stages: a model chunk runs a  *)
(* microbatch forward after the virtual stage before it has and backward after   *)
(* the one behind it has, on other ranks whose loops share no counter with it.   *)
THEOREM InterleavedImplementsOrder == Configuration => (Spec => ImplementsOrder)
<1>. SUFFICES ASSUME Configuration PROVE Spec => ImplementsOrder
  OBVIOUS
<1>1. Init => Order!Init
  BY OrderInit
<1>2. Inv /\ Inv' /\ [Next]_vars => [Order!Next]_(Order!vars)
  BY OrderStep
<1>3. Spec => []Inv
  BY InterleavedInvariant
<1>. QED BY <1>1, <1>2, <1>3, PTL DEF Spec, ImplementsOrder, Order!Spec
===============================================================================
