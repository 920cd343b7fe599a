------------------------- MODULE SequencePackingProofs -------------------------
(* Sequence packing, for every number of tensor-parallel ranks and stages, rows  *)
(* of any lengths and any number of micro-batches: stages expect what they       *)
(* receive, and tokens and gradients keep to their sequences.                    *)
EXTENDS SequencePacking, SequenceTheorems, FiniteSetTheorems, Arithmetic

-------------------------------------------------------------------------------
(* The invariant                                                                 *)

(* A tensor of the rows R as the ranks have it.                                  *)
Spread(R) == [t \in TensorRank |-> SplitIfSp(R, t)]

(* What a row has seen after a layer, and so after any number of them.           *)
Reach(lens) == [i \in 1 .. PaddedLength(lens) |->
  IF i \in Packed(lens) THEN {Indices(lens)[j] : j \in AttendedBy(lens, i)} ELSE {}]

(* The gradients of the rows after l layers: every route, equally often.         *)
Uniform(S, n) == [x \in S |-> n]
Times == IF Sp THEN T ELSE 1
Back(lens, l) == [i \in 1 .. PaddedLength(lens) |->
  Uniform(IF i \in Packed(lens) THEN RoutesFrom(lens)[l][Indices(lens)[i]] ELSE {}, Times)]

(* The logits of the micro-batch.                                                *)
Seen(lens) == [q \in 1 .. SeqLen |-> [b \in 1 .. Rows |->
  IF q <= lens[b] THEN {<<b, k>> : k \in 1 .. q} ELSE {}]]

(* What the stages send for every micro-batch: forward all the same, backward     *)
(* the gradients after l layers; and of g, what is sent up to b and received up   *)
(* to a.                                                                         *)
Outputs == [n \in 1 .. MicroBatches |-> Spread(Reach(batch[n]))]
Grads(l) == [n \in 1 .. MicroBatches |-> Spread(Back(batch[n], l))]
Waiting(g, a, b) == [n \in 1 .. b - a |-> g[a + n]]

Typed ==
  /\ setting \in [T : Nat \ {0}, P : Nat \ {0}, sp : BOOLEAN]
  /\ batch \in [1 .. MicroBatches -> Masks]
  /\ sequence_parallel \in [Stage -> BOOLEAN]
  /\ fwd \in [Stage -> 0 .. MicroBatches] /\ bwd \in [Stage -> 0 .. MicroBatches]
  /\ \A p \in Stage : bwd[p] <= fwd[p]

SentNext ==
  /\ sent_next[P - 1] = <<>>
  /\ \A p \in 0 .. P - 2 :
       fwd[p + 1] <= fwd[p] /\ sent_next[p] = Waiting(Outputs, fwd[p + 1], fwd[p])

SentPrev ==
  /\ sent_prev[0] = <<>>
  /\ \A p \in 1 .. P - 1 :
       bwd[p - 1] <= bwd[p] /\ sent_prev[p] = Waiting(Grads(P - p), bwd[p - 1], bwd[p])

Ended ==
  /\ logits # <<>> => fwd[P - 1] > 0 /\ logits = Seen(batch[fwd[P - 1]])
  /\ word_grad # <<>> => bwd[0] > 0 /\ word_grad = [t \in TensorRank |-> Back(batch[bwd[0]], P)]

Inv == Typed /\ SentNext /\ SentPrev /\ Ended

-------------------------------------------------------------------------------
(* Packing                                                                       *)

(* Where the rows end.                                                           *)
Ends(lens) ==
  /\ CuSeqlens(lens) \in [0 .. Rows -> Nat] /\ CuSeqlens(lens)[0] = 0
  /\ \A b \in 1 .. Rows : CuSeqlens(lens)[b] = CuSeqlens(lens)[b - 1] + lens[b] /\ lens[b] \in Nat

LEMMA CuSeqlensIs == ASSUME NEW lens \in Masks PROVE Ends(lens)
<1>. USE SizesAssumption
<1>. DEFINE Loop(f) == [b \in 0 .. Rows |-> IF b = 0 THEN 0 ELSE f[b - 1] + lens[b]]
            G == [b \in 1 .. Rows |-> [x \in Nat |-> x + lens[b]]]
<1>1. CuSeqlens(lens) = CHOOSE f : f = Loop(f)
  BY DEF CuSeqlens
<1>2. \A b \in 1 .. Rows : lens[b] \in Nat
  BY DEF Masks
<1>3. PICK f : RecursiveOn(f, Rows, Nat, 0, G)
  <2>1. StepsOf(Rows, Nat, G)
    BY <1>2 DEF StepsOf
  <2>. HIDE DEF G
  <2>. QED BY <2>1, Recursion
<1>4. f \in [0 .. Rows -> Nat] /\ f[0] = 0 /\ \A b \in 1 .. Rows : f[b] = f[b - 1] + lens[b]
  <2>1. \A b \in 1 .. Rows : b - 1 \in 0 .. Rows
    OBVIOUS
  <2>. QED BY <1>3, <2>1 DEF RecursiveOn
<1>5. \A g : /\ UpTo(Rows, Loop(g)) /\ Loop(g)[0] = 0
             /\ \A b \in 1 .. Rows : Loop(g)[b] = g[b - 1] + lens[b]
  <2>1. ASSUME NEW g PROVE Loop(g)[0] = 0
    OBVIOUS
  <2>2. ASSUME NEW g, NEW b \in 1 .. Rows PROVE Loop(g)[b] = g[b - 1] + lens[b]
    OBVIOUS
  <2>3. ASSUME NEW g PROVE UpTo(Rows, Loop(g))
    BY DEF UpTo
  <2>. HIDE DEF Loop
  <2>. QED BY <2>1, <2>2, <2>3
<1>. HIDE DEF Loop, G
<1>6. UpTo(Rows, f)
  BY <1>4 DEF UpTo
<1>7. f = Loop(f)
  <2>1. SameSteps(Rows, f, Loop(f))
    BY <1>4, <1>5 DEF SameSteps
  <2>. QED BY <1>5, <1>6, <2>1, RecursionUnique
<1>8. ASSUME NEW g, g = Loop(g) PROVE g = f
  <2>1. UpTo(Rows, g)
    BY <1>5, <1>8
  <2>2. SameSteps(Rows, g, f)
    BY <1>4, <1>5, <1>8 DEF SameSteps
  <2>. QED BY <1>6, <2>1, <2>2, RecursionUnique
<1>9. CuSeqlens(lens) = f
  BY <1>1, <1>7, <1>8
<1>. QED BY <1>2, <1>4, <1>9 DEF Ends

(* They grow from row to row.                                                    *)
LEMMA EndsGrow ==
  ASSUME NEW lens \in Masks, NEW b \in 0 .. Rows, NEW c \in 0 .. Rows, b <= c
  PROVE  CuSeqlens(lens)[b] <= CuSeqlens(lens)[c]
<1>. USE SizesAssumption
<1>. DEFINE cu == CuSeqlens(lens)
            S == {n \in 0 .. Rows - b : cu[b] <= cu[b + n]}
<1>1. cu \in [0 .. Rows -> Nat] /\ \A d \in 1 .. Rows : cu[d] = cu[d - 1] + lens[d] /\ lens[d] \in Nat
  BY CuSeqlensIs DEF Ends
<1>. HIDE DEF cu
<1>2. 0 \in S
  <2>1. b + 0 = b /\ cu[b] \in Nat
    BY <1>1
  <2>. QED BY <2>1
<1>3. ASSUME NEW n \in 0 .. (Rows - b) - 1, n \in S PROVE n + 1 \in S
  <2>1. b + (n + 1) \in 1 .. Rows /\ (b + (n + 1)) - 1 = b + n /\ b + n \in 0 .. Rows /\ n + 1 \in 0 .. Rows - b
    OBVIOUS
  <2>2. cu[b + (n + 1)] = cu[b + n] + lens[b + (n + 1)] /\ lens[b + (n + 1)] \in Nat
    BY <1>1, <2>1
  <2>3. cu[b] \in Nat /\ cu[b + n] \in Nat /\ cu[b] <= cu[b + n]
    BY <1>1, <1>3, <2>1
  <2>. QED BY <2>1, <2>2, <2>3
<1>4. Rows - b \in Nat
  OBVIOUS
<1>5. 0 .. Rows - b \subseteq S
  <2>. HIDE DEF S
  <2>. QED BY <1>2, <1>3, <1>4, InductUpTo
<1>6. c - b \in 0 .. Rows - b /\ b + (c - b) = c
  OBVIOUS
<1>7. c - b \in S
  BY <1>5, <1>6
<1>. QED BY <1>6, <1>7 DEF cu

(* The place of token q of row b, and the rows in which places are.               *)
At(lens, b, q) == CuSeqlens(lens)[b - 1] + q

LEMMA PlaceOf ==
  ASSUME NEW lens \in Masks, NEW b \in 1 .. Rows, NEW q \in 1 .. lens[b]
  PROVE  /\ At(lens, b, q) \in Packed(lens)
         /\ \A c \in 1 .. Rows : (At(lens, b, q) <= CuSeqlens(lens)[c]) = (b <= c)
<1>. USE SizesAssumption
<1>. DEFINE cu == CuSeqlens(lens)
<1>1. cu \in [0 .. Rows -> Nat] /\ \A d \in 1 .. Rows : cu[d] = cu[d - 1] + lens[d] /\ lens[d] \in Nat
  BY CuSeqlensIs DEF Ends
<1>2. b - 1 \in 0 .. Rows /\ b \in 0 .. Rows /\ Rows \in 0 .. Rows
  OBVIOUS
<1>3. cu[b - 1] \in Nat /\ cu[b] \in Nat /\ cu[b] = cu[b - 1] + lens[b] /\ q \in Nat /\ 1 <= q /\ q <= lens[b] /\ lens[b] \in Nat
  BY <1>1, <1>2
<1>4. At(lens, b, q) = cu[b - 1] + q
  BY DEF At
<1>5. cu[b] <= cu[Rows] /\ cu[Rows] \in Nat
  <2>1. b <= Rows
    OBVIOUS
  <2>. QED BY <1>1, <1>2, <2>1, EndsGrow
<1>6. Packed(lens) = 1 .. cu[Rows]
  BY DEF Packed, TotalNnz
<1>7. ASSUME NEW c \in 1 .. Rows PROVE (At(lens, b, q) <= cu[c]) = (b <= c)
  <2>0. c \in 0 .. Rows /\ cu[c] \in Nat
    BY <1>1
  <2>1. CASE b <= c
    <3>1. cu[b] <= cu[c]
      BY <1>2, <2>0, <2>1, EndsGrow
    <3>2. At(lens, b, q) <= cu[c]
      <4>. HIDE DEF cu
      <4>. QED BY <1>3, <1>4, <2>0, <3>1
    <3>. QED BY <2>1, <3>2
  <2>2. CASE ~(b <= c)
    <3>1. c <= b - 1
      BY <2>2
    <3>2. cu[c] <= cu[b - 1]
      BY <1>2, <2>0, <3>1, EndsGrow
    <3>3. ~(At(lens, b, q) <= cu[c])
      <4>. HIDE DEF cu
      <4>. QED BY <1>3, <1>4, <2>0, <3>2
    <3>. QED BY <2>2, <3>3
  <2>. QED BY <2>1, <2>2
<1>8. At(lens, b, q) \in Packed(lens)
  <2>. HIDE DEF cu
  <2>. QED BY <1>3, <1>4, <1>5, <1>6
<1>. QED BY <1>7, <1>8

LEMMA RowOf ==
  ASSUME NEW lens \in Masks, NEW i \in Packed(lens)
  PROVE  \E b \in 1 .. Rows : \E q \in 1 .. lens[b] : i = At(lens, b, q)
<1>. USE SizesAssumption
<1>. DEFINE cu == CuSeqlens(lens)
            S == {b \in 0 .. Rows : i <= cu[b]}
<1>1. cu \in [0 .. Rows -> Nat] /\ cu[0] = 0 /\ \A d \in 1 .. Rows : cu[d] = cu[d - 1] + lens[d] /\ lens[d] \in Nat
  BY CuSeqlensIs DEF Ends
<1>2. i \in 1 .. cu[Rows]
  BY DEF Packed, TotalNnz
<1>. HIDE DEF cu
<1>3. Rows \in S /\ S \subseteq Nat
  BY <1>1, <1>2
<1>4. PICK b \in S : \A c \in S : b <= c
  <2>. HIDE DEF S
  <2>. QED BY <1>3, Least
<1>5. b \in 1 .. Rows
  BY <1>1, <1>2
<1>6. b - 1 \in 0 .. Rows /\ b - 1 \notin S
  <2>1. ~(b <= b - 1) /\ b - 1 \in 0 .. Rows
    BY <1>5
  <2>. HIDE DEF S
  <2>. QED BY <1>4, <2>1
<1>7. cu[b - 1] \in Nat /\ cu[b] \in Nat /\ cu[b] = cu[b - 1] + lens[b] /\ lens[b] \in Nat /\ i \in Nat
  BY <1>1, <1>2, <1>5, <1>6
<1>8. ~(i <= cu[b - 1]) /\ i <= cu[b]
  BY <1>4, <1>6
<1>9. i - cu[b - 1] \in 1 .. lens[b] /\ i = cu[b - 1] + (i - cu[b - 1])
  BY <1>7, <1>8
<1>. QED BY <1>5, <1>9 DEF At, cu

(* And only one.                                                                 *)
LEMMA OneRow ==
  ASSUME NEW lens \in Masks, NEW b \in 1 .. Rows, NEW q \in 1 .. lens[b],
         NEW c \in 1 .. Rows, NEW r \in 1 .. lens[c], At(lens, b, q) = At(lens, c, r)
  PROVE  b = c /\ q = r
<1>1. (b <= c) = (c <= c) /\ (b <= b) = (c <= b)
  BY PlaceOf
<1>2. b = c
  BY <1>1
<1>3. CuSeqlens(lens)[b - 1] \in Nat
  BY SizesAssumption, CuSeqlensIs DEF Ends
<1>. QED BY <1>2, <1>3 DEF At


(* Two pieces of g, one after the other.                                         *)
Follows(g, a, b) ==
  [k \in 1 .. a |-> g[k]] \o [k \in 1 .. b |-> g[a + k]] = [k \in 1 .. a + b |-> g[k]]

LEMMA TwoPieces ==
  ASSUME NEW g, NEW a \in Nat, NEW b \in Nat
  PROVE  Follows(g, a, b)
<1>. DEFINE X == {g[k] : k \in 1 .. a + b}
            s == [k \in 1 .. a |-> g[k]]
            t == [k \in 1 .. b |-> g[a + k]]
            w == [k \in 1 .. a + b |-> g[k]]
<1>1. s \in Seq(X) /\ Len(s) = a
  <2>1. \A k \in 1 .. a : g[k] \in X
    OBVIOUS
  <2>. QED BY <2>1
<1>2. t \in Seq(X) /\ Len(t) = b
  <2>1. \A k \in 1 .. b : a + k \in 1 .. a + b
    OBVIOUS
  <2>2. \A k \in 1 .. b : g[a + k] \in X
    BY <2>1
  <2>. QED BY <2>2
<1>3. w \in Seq(X) /\ Len(w) = a + b
  OBVIOUS
<1>4. \A k \in 1 .. a : s[k] = g[k]
  OBVIOUS
<1>5. \A k \in 1 .. b : t[k] = g[a + k]
  OBVIOUS
<1>6. \A k \in 1 .. a + b : w[k] = g[k]
  OBVIOUS
<1>. HIDE DEF X, s, t, w
<1>7. /\ s \o t \in Seq(X) /\ Len(s \o t) = a + b
      /\ \A k \in 1 .. a + b : (s \o t)[k] = IF k <= a THEN s[k] ELSE t[k - a]
  BY <1>1, <1>2, ConcatProperties
<1>8. ASSUME NEW k \in 1 .. a + b PROVE (s \o t)[k] = w[k]
  <2>1. CASE k <= a
    <3>1. k \in 1 .. a
      BY <2>1
    <3>. QED BY <1>4, <1>6, <1>7, <2>1, <3>1
  <2>2. CASE a < k
    <3>1. k - a \in 1 .. b /\ a + (k - a) = k /\ ~(k <= a)
      BY <2>2
    <3>. QED BY <1>5, <1>6, <1>7, <3>1
  <2>3. k \in Int /\ a \in Int
    OBVIOUS
  <2>4. k <= a \/ a < k
    BY ONLY <2>3
  <2>. QED BY ONLY <2>1, <2>2, <2>4
<1>9. s \o t = w
  BY <1>3, <1>7, <1>8, SeqEqual
<1>. QED BY <1>9 DEF s, t, w, Follows

(* Pieces of g that follow each other, ended by the numbers o.                   *)
Cut(ss, n, o, g) ==
  /\ ss = [j \in 1 .. n |-> ss[j]] /\ o[0] = 0
  /\ \A j \in 1 .. n :
       /\ o[j - 1] \in Nat /\ o[j] \in Nat /\ o[j - 1] <= o[j]
       /\ ss[j] = [k \in 1 .. o[j] - o[j - 1] |-> g[o[j - 1] + k]]

LEMMA Joined ==
  ASSUME NEW n \in Nat \ {0}, NEW ss, NEW o, NEW g, Cut(ss, n, o, g)
  PROVE  FlattenSeq(ss) = [k \in 1 .. o[n] |-> g[k]]
<1>. DEFINE Loop(h) == [j \in 1 .. n |-> IF j = 1 THEN ss[j] ELSE h[j - 1] \o ss[j]]
            upto == [j \in 1 .. n |-> [k \in 1 .. o[j] |-> g[k]]]
<1>1. Len(ss) = n
  BY DEF Cut
<1>2. FlattenSeq(ss) = (CHOOSE h : h = Loop(h))[n]
  <2>1. FlattenSeq(ss) = (CHOOSE h : h = [j \in 1 .. Len(ss) |->
                            IF j = 1 THEN ss[j] ELSE h[j - 1] \o ss[j]])[Len(ss)]
    BY <1>1 DEF FlattenSeq
  <2>. QED BY <1>1, <2>1
<1>3. \A h : /\ [j \in 1 .. n |-> Loop(h)[j]] = Loop(h) /\ Loop(h)[1] = ss[1]
             /\ \A j \in 1 .. n : j # 1 => Loop(h)[j] = h[j - 1] \o ss[j]
  <2>0. 1 \in 1 .. n
    OBVIOUS
  <2>1. ASSUME NEW h PROVE Loop(h)[1] = ss[1]
    BY <2>0
  <2>2. ASSUME NEW h, NEW j \in 1 .. n, j # 1 PROVE Loop(h)[j] = h[j - 1] \o ss[j]
    BY <2>2
  <2>3. ASSUME NEW h PROVE [j \in 1 .. n |-> Loop(h)[j]] = Loop(h)
    <3>1. \A j \in 1 .. n : Loop(h)[j] = IF j = 1 THEN ss[j] ELSE h[j - 1] \o ss[j]
      OBVIOUS
    <3>2. [j \in 1 .. n |-> Loop(h)[j]] = [j \in 1 .. n |-> IF j = 1 THEN ss[j] ELSE h[j - 1] \o ss[j]]
      <4>. HIDE DEF Loop
      <4>. QED BY ONLY <3>1
    <3>. QED BY <3>2
  <2>. HIDE DEF Loop
  <2>. QED BY ONLY <2>1, <2>2, <2>3
<1>4. \A j \in 1 .. n : upto[j] = [k \in 1 .. o[j] |-> g[k]]
  <2>1. ASSUME NEW j \in 1 .. n PROVE upto[j] = [k \in 1 .. o[j] |-> g[k]]
    OBVIOUS
  <2>. QED BY ONLY <2>1
<1>5. upto = [j \in 1 .. n |-> upto[j]]
  OBVIOUS
<1>. HIDE DEF Loop, upto
<1>6. upto[1] = ss[1]
  <2>1. 1 \in 1 .. n /\ 1 - 1 = 0
    OBVIOUS
  <2>2. o[1] \in Nat /\ o[0] = 0 /\ ss[1] = [k \in 1 .. o[1] - o[0] |-> g[o[0] + k]]
    BY <2>1 DEF Cut
  <2>3. ss[1] = [k \in 1 .. o[1] |-> g[k]]
    BY <2>2
  <2>. QED BY <1>4, <2>1, <2>3
<1>7. ASSUME NEW j \in 1 .. n, j # 1 PROVE upto[j] = upto[j - 1] \o ss[j]
  <2>1. j - 1 \in 1 .. n
    BY <1>7
  <2>2. PICK a \in Nat, b \in Nat : a = o[j - 1] /\ b = o[j] - o[j - 1] /\ o[j] = a + b
    BY DEF Cut
  <2>3. ss[j] = [k \in 1 .. b |-> g[a + k]]
    BY <2>2 DEF Cut
  <2>4. upto[j - 1] = [k \in 1 .. a |-> g[k]] /\ upto[j] = [k \in 1 .. a + b |-> g[k]]
    BY <1>4, <2>1, <2>2
  <2>5. Follows(g, a, b)
    BY TwoPieces
  <2>. QED BY <2>3, <2>4, <2>5 DEF Follows
<1>8. upto = Loop(upto)
  <2>1. ASSUME NEW j \in 1 .. n PROVE upto[j] = Loop(upto)[j]
    BY <1>3, <1>6, <1>7
  <2>. QED BY <1>3, <1>5, <2>1
<1>9. ASSUME NEW h, h = Loop(h) PROVE h = upto
  <2>. DEFINE S == {j \in 0 .. n : j = 0 \/ h[j] = upto[j]}
  <2>1. 0 \in S
    OBVIOUS
  <2>2. ASSUME NEW j \in 0 .. n - 1, j \in S PROVE j + 1 \in S
    <3>1. j + 1 \in 1 .. n /\ (j + 1) - 1 = j /\ j + 1 \in 0 .. n
      OBVIOUS
    <3>2. CASE j = 0
      <4>1. h[1] = upto[1]
        BY <1>3, <1>6, <1>9
      <4>. QED BY <3>1, <3>2, <4>1
    <3>3. CASE j # 0
      <4>1. h[j] = upto[j] /\ j + 1 # 1
        BY <2>2, <3>3
      <4>2. h[j + 1] = h[j] \o ss[j + 1]
        BY <1>3, <1>9, <3>1, <4>1
      <4>3. upto[j + 1] = upto[j] \o ss[j + 1]
        BY <1>7, <3>1, <4>1
      <4>. QED BY <3>1, <4>1, <4>2, <4>3
    <3>. QED BY <3>2, <3>3
  <2>3. 0 .. n \subseteq S
    <3>. HIDE DEF S
    <3>. QED BY <2>1, <2>2, InductUpTo
  <2>4. ASSUME NEW j \in 1 .. n PROVE h[j] = upto[j]
    <3>1. j \in 0 .. n /\ j # 0
      OBVIOUS
    <3>. QED BY <2>3, <3>1
  <2>5. h = [j \in 1 .. n |-> h[j]]
    BY <1>3, <1>9
  <2>. QED BY <1>5, <2>4, <2>5
<1>10. (CHOOSE h : h = Loop(h)) = upto
  BY <1>8, <1>9
<1>11. n \in 1 .. n
  OBVIOUS
<1>. QED BY <1>2, <1>4, <1>10, <1>11

-------------------------------------------------------------------------------
(* The packed sequence                                                           *)

(* The tokens are where PlaceOf says.                                            *)
Indexed(lens) ==
  /\ Indices(lens) = [i \in Packed(lens) |-> Indices(lens)[i]]
  /\ \A b \in 1 .. Rows : \A q \in 1 .. lens[b] : Indices(lens)[At(lens, b, q)] = <<b, q>>

LEMMA IndicesAre == ASSUME NEW lens \in Masks PROVE Indexed(lens)
<1>. USE SizesAssumption
<1>. DEFINE ss == [b \in 1 .. Rows |-> [q \in 1 .. lens[b] |-> <<b, q>>]]
            cu == CuSeqlens(lens)
            Of(i) == CHOOSE x \in (1 .. Rows) \X Nat : x[2] \in 1 .. lens[x[1]] /\ i = At(lens, x[1], x[2])
            g == [i \in Packed(lens) |-> Of(i)]
<1>1. cu \in [0 .. Rows -> Nat] /\ cu[0] = 0 /\ \A d \in 1 .. Rows : cu[d] = cu[d - 1] + lens[d] /\ lens[d] \in Nat
  BY CuSeqlensIs DEF Ends
<1>2. ASSUME NEW b \in 1 .. Rows, NEW q \in 1 .. lens[b] PROVE At(lens, b, q) \in Packed(lens) /\ g[At(lens, b, q)] = <<b, q>>
  <2>1. At(lens, b, q) \in Packed(lens)
    BY PlaceOf
  <2>2. q \in Nat /\ <<b, q>> \in (1 .. Rows) \X Nat
    BY <1>1
  <2>. DEFINE x == Of(At(lens, b, q))
  <2>3. x \in (1 .. Rows) \X Nat /\ x[2] \in 1 .. lens[x[1]] /\ At(lens, b, q) = At(lens, x[1], x[2])
    <3>1. <<b, q>>[2] \in 1 .. lens[<<b, q>>[1]] /\ At(lens, b, q) = At(lens, <<b, q>>[1], <<b, q>>[2])
      OBVIOUS
    <3>. QED BY <2>2, <3>1
  <2>4. g[At(lens, b, q)] = x
    BY <2>1
  <2>. HIDE DEF x, g
  <2>5. b = x[1] /\ q = x[2]
    BY <2>3, OneRow
  <2>6. x = <<x[1], x[2]>>
    BY <2>3
  <2>. QED BY <2>1, <2>4, <2>5, <2>6
<1>. HIDE DEF Of, g
<1>3. Cut(ss, Rows, cu, g)
  <2>1. ASSUME NEW b \in 1 .. Rows
        PROVE  /\ cu[b - 1] \in Nat /\ cu[b] \in Nat /\ cu[b - 1] <= cu[b]
               /\ ss[b] = [k \in 1 .. cu[b] - cu[b - 1] |-> g[cu[b - 1] + k]]
    <3>1. b - 1 \in 0 .. Rows /\ b \in 0 .. Rows
      OBVIOUS
    <3>2. cu[b - 1] \in Nat /\ cu[b] \in Nat /\ cu[b] = cu[b - 1] + lens[b] /\ lens[b] \in Nat
      BY <1>1, <3>1
    <3>3. cu[b] - cu[b - 1] = lens[b] /\ cu[b - 1] <= cu[b]
      <4>. HIDE DEF cu
      <4>. QED BY <3>2
    <3>4. ss[b] = [q \in 1 .. lens[b] |-> <<b, q>>]
      OBVIOUS
    <3>5. \A q \in 1 .. lens[b] : g[cu[b - 1] + q] = <<b, q>>
      BY <1>2 DEF At
    <3>. HIDE DEF ss, cu
    <3>. QED BY <3>2, <3>3, <3>4, <3>5
  <2>2. ss = [b \in 1 .. Rows |-> ss[b]]
    OBVIOUS
  <2>. HIDE DEF ss, cu
  <2>. QED BY <1>1, <2>1, <2>2 DEF Cut
<1>4. Indices(lens) = [i \in 1 .. cu[Rows] |-> g[i]]
  <2>1. Indices(lens) = FlattenSeq(ss)
    BY DEF Indices
  <2>. HIDE DEF ss, cu
  <2>. QED BY <1>3, <2>1, Joined
<1>5. Packed(lens) = 1 .. cu[Rows]
  BY DEF Packed, TotalNnz
<1>. HIDE DEF ss, cu
<1>6. Indices(lens) = [i \in Packed(lens) |-> g[i]]
  BY <1>4, <1>5
<1>. QED BY <1>2, <1>6 DEF Indexed

(* A token attends to those before it in its row.                                *)
LEMMA AttendedByRow ==
  ASSUME NEW lens \in Masks, NEW b \in 1 .. Rows, NEW q \in 1 .. lens[b],
         NEW c \in 1 .. Rows, NEW r \in 1 .. lens[c]
  PROVE  At(lens, c, r) \in AttendedBy(lens, At(lens, b, q)) <=> c = b /\ r <= q
<1>. USE SizesAssumption
<1>. DEFINE i == At(lens, b, q)
            j == At(lens, c, r)
<1>1. /\ i \in Packed(lens) /\ \A d \in 1 .. Rows : (i <= CuSeqlens(lens)[d]) = (b <= d)
      /\ j \in Packed(lens) /\ \A d \in 1 .. Rows : (j <= CuSeqlens(lens)[d]) = (c <= d)
  BY PlaceOf
<1>2. j \in AttendedBy(lens, i) <=> j <= i /\ \A d \in 1 .. Rows : (b <= d) = (c <= d)
  <2>. HIDE DEF i, j
  <2>. QED BY <1>1 DEF AttendedBy, Attends, Packed
<1>3. (\A d \in 1 .. Rows : (b <= d) = (c <= d)) <=> b = c
  OBVIOUS
<1>4. b = c => (j <= i <=> r <= q)
  <2>1. CuSeqlens(lens)[b - 1] \in Nat
    BY CuSeqlensIs DEF Ends
  <2>2. q \in Int /\ r \in Int
    BY CuSeqlensIs DEF Ends
  <2>. QED BY <2>1, <2>2 DEF At
<1>. HIDE DEF i, j
<1>. QED BY <1>2, <1>3, <1>4 DEF i, j

(* What a row has seen.                                                          *)
LEMMA SeenByRow ==
  ASSUME NEW lens \in Masks, NEW b \in 1 .. Rows, NEW q \in 1 .. lens[b]
  PROVE  {Indices(lens)[j] : j \in AttendedBy(lens, At(lens, b, q))} = {<<b, k>> : k \in 1 .. q}
<1>. DEFINE i == At(lens, b, q)
<1>1. q \in Nat /\ q <= lens[b] /\ lens[b] \in Nat
  BY SizesAssumption, CuSeqlensIs DEF Ends
<1>2. ASSUME NEW j \in AttendedBy(lens, i) PROVE Indices(lens)[j] \in {<<b, k>> : k \in 1 .. q}
  <2>1. j \in Packed(lens)
    BY DEF AttendedBy, Packed
  <2>2. PICK c \in 1 .. Rows : \E r \in 1 .. lens[c] : j = At(lens, c, r)
    BY <2>1, RowOf
  <2>3. PICK r \in 1 .. lens[c] : j = At(lens, c, r)
    BY <2>2
  <2>4. c = b /\ r <= q
    BY <2>3, AttendedByRow
  <2>5. Indices(lens)[j] = <<c, r>>
    BY <2>3, IndicesAre DEF Indexed
  <2>6. r \in 1 .. q
    BY <1>1, <2>4
  <2>. QED BY <2>4, <2>5, <2>6
<1>3. ASSUME NEW k \in 1 .. q PROVE \E j \in AttendedBy(lens, i) : Indices(lens)[j] = <<b, k>>
  <2>1. k \in 1 .. lens[b] /\ k <= q
    BY <1>1
  <2>2. At(lens, b, k) \in AttendedBy(lens, i)
    BY <2>1, AttendedByRow
  <2>3. Indices(lens)[At(lens, b, k)] = <<b, k>>
    BY <2>1, IndicesAre DEF Indexed
  <2>. QED BY <2>2, <2>3
<1>. HIDE DEF i
<1>. QED BY <1>2, <1>3 DEF i

(* What attention makes of what has been seen.                                   *)
LEMMA AttendedTwice ==
  ASSUME NEW lens \in Masks, NEW i \in Packed(lens)
  PROVE  /\ i \in AttendedBy(lens, i)
         /\ AttendedBy(lens, i) \subseteq Packed(lens)
         /\ UNION {AttendedBy(lens, j) : j \in AttendedBy(lens, i)} = AttendedBy(lens, i)
<1>1. AttendedBy(lens, i) \subseteq Packed(lens) /\ i \in Int /\ Packed(lens) \subseteq Int
  <2>1. CuSeqlens(lens)[Rows] \in Nat
    BY SizesAssumption, CuSeqlensIs DEF Ends
  <2>. QED BY <2>1 DEF AttendedBy, Packed, TotalNnz
<1>2. i \in AttendedBy(lens, i)
  BY <1>1 DEF AttendedBy, Attends, Packed
<1>3. ASSUME NEW j \in AttendedBy(lens, i), NEW k \in AttendedBy(lens, j) PROVE k \in AttendedBy(lens, i)
  <2>1. /\ j \in Packed(lens) /\ j <= i /\ \A b \in 1 .. Rows : (i <= CuSeqlens(lens)[b]) = (j <= CuSeqlens(lens)[b])
        /\ k \in Packed(lens) /\ k <= j /\ \A b \in 1 .. Rows : (j <= CuSeqlens(lens)[b]) = (k <= CuSeqlens(lens)[b])
    BY DEF AttendedBy, Attends, Packed
  <2>2. k <= i
    BY <1>1, <2>1
  <2>. QED BY <2>1, <2>2 DEF AttendedBy, Attends, Packed
<1>. QED BY <1>1, <1>2, <1>3

-------------------------------------------------------------------------------
(* Tensors spread over the ranks                                                 *)

Sized == setting \in [T : Nat \ {0}, P : Nat \ {0}, sp : BOOLEAN]

LEMMA SizedIs ==
  ASSUME Sized
  PROVE  T \in Nat \ {0} /\ P \in Nat \ {0} /\ Sp \in BOOLEAN
BY DEF Sized, T, P, Sp

(* Padded, the tokens can be divided among the ranks.                            *)
LEMMA Padded ==
  ASSUME Sized, NEW lens \in Masks
  PROVE  /\ TotalNnz(lens) \in Nat /\ PaddedLength(lens) \in Nat /\ TotalNnz(lens) <= PaddedLength(lens)
         /\ Packed(lens) \subseteq 1 .. PaddedLength(lens)
         /\ ~Sp => PaddedLength(lens) = TotalNnz(lens)
         /\ Sp => PaddedLength(lens) % T = 0
<1>1. TotalNnz(lens) \in Nat
  BY SizesAssumption, CuSeqlensIs DEF Ends, TotalNnz
<1>2. PICK n \in Nat, m \in Nat \ {0} : n = TotalNnz(lens) /\ m = T
  BY <1>1, SizedIs
<1>3. PICK q \in Int, x \in 0 .. m - 1 : n = q * m + x /\ x = n % m
  <2>1. n \in Int
    OBVIOUS
  <2>. QED BY <2>1, Division
<1>4. PaddedLength(lens) = IF ~Sp \/ x = 0 THEN n ELSE n + m - x
  BY <1>2, <1>3 DEF PaddedLength
<1>5. x # 0 => (n + m - x) % m = 0
  <2>1. n + m - x = (q + 1) * m + 0 /\ q + 1 \in Int
    <3>1. q * m \in Int /\ (q + 1) * m = q * m + m
      OBVIOUS
    <3>. QED BY <1>3, <3>1
  <2>2. ((q + 1) * m + 0) % m = 0
    <3>1. 0 \in 0 .. m - 1
      OBVIOUS
    <3>. QED BY ONLY <2>1, <3>1, m \in Nat \ {0}, DivisionUnique
  <2>. QED BY <2>1, <2>2
<1>6. PaddedLength(lens) \in Nat /\ n <= PaddedLength(lens)
  BY <1>4
<1>7. Sp => PaddedLength(lens) % m = 0
  BY <1>3, <1>4, <1>5
<1>8. Packed(lens) \subseteq 1 .. PaddedLength(lens)
  BY <1>2, <1>6 DEF Packed
<1>. QED BY <1>2, <1>4, <1>6, <1>7, <1>8

(* The rows of one rank, and the first of them.                                  *)
Share(lens) == IF Sp THEN PaddedLength(lens) \div T ELSE PaddedLength(lens)
Offset(lens, t) == IF Sp THEN t * (PaddedLength(lens) \div T) ELSE 0
Long(lens, R) == R = [i \in 1 .. PaddedLength(lens) |-> R[i]]

LEMMA Shares ==
  ASSUME Sized, NEW lens \in Masks
  PROVE  /\ Share(lens) \in Nat /\ \A t \in Nat : Offset(lens, t) \in Nat
         /\ \A t \in TensorRank : \A i \in 1 .. Share(lens) : Offset(lens, t) + i \in 1 .. PaddedLength(lens)
         /\ Sp => PaddedLength(lens) = T * Share(lens)
<1>1. PICK m \in Nat \ {0}, n \in Nat : m = T /\ n = PaddedLength(lens) /\ (Sp => n % m = 0)
  BY SizedIs, Padded
<1>2. CASE ~Sp
  <2>1. Share(lens) = n /\ \A t : Offset(lens, t) = 0
    BY <1>1, <1>2 DEF Share, Offset
  <2>. QED BY <1>1, <1>2, <2>1
<1>3. CASE Sp
  <2>1. PICK c : c = n \div m
    OBVIOUS
  <2>2. c \in Int /\ n = c * m
    <3>1. n \in Int /\ n % m = 0
      BY <1>1, <1>3
    <3>2. n \div m \in Int
      BY <3>1, Division
    <3>. QED BY <2>1, <3>1, <3>2, MultipleOf
  <2>3. c \in Nat
    <3>1. SUFFICES ASSUME c <= -1 PROVE FALSE
      BY <2>2
    <3>2. c * m <= (-1) * m
      BY <2>2, <3>1, TimesMonotonic
    <3>. QED BY <2>2, <3>2
  <2>4. Share(lens) = c /\ \A t : Offset(lens, t) = t * c
    BY <1>1, <1>3, <2>1 DEF Share, Offset
  <2>5. ASSUME NEW t \in TensorRank, NEW i \in 1 .. c PROVE t * c + i \in 1 .. n
    <3>1. t \in Nat /\ t + 1 <= m
      BY <1>1 DEF TensorRank
    <3>2. (t + 1) * c <= m * c
      BY <2>3, <3>1, TimesMonotonic
    <3>3. (t + 1) * c = t * c + c /\ m * c = n /\ t * c \in Nat
      BY <2>2, <2>3, <3>1
    <3>. QED BY <2>3, <3>2, <3>3
  <2>6. \A t \in Nat : t * c \in Nat
    BY <2>3
  <2>7. n = m * c
    BY <2>2, <2>3
  <2>. QED BY <1>1, <2>3, <2>4, <2>5, <2>6, <2>7
<1>. QED BY <1>2, <1>3

LEMMA SplitRows ==
  ASSUME Sized, NEW lens \in Masks, NEW R, Long(lens, R), NEW t \in TensorRank
  PROVE  SplitIfSp(R, t) = [i \in 1 .. Share(lens) |-> R[Offset(lens, t) + i]]
<1>1. PICK n \in Nat : n = PaddedLength(lens)
  BY Padded
<1>2. CASE ~Sp
  <2>1. Share(lens) = n /\ Offset(lens, t) = 0 /\ SplitIfSp(R, t) = R /\ R = [i \in 1 .. n |-> R[i]]
    BY <1>1, <1>2 DEF Share, Offset, SplitIfSp, Long
  <2>2. [i \in 1 .. n |-> R[i]] = [i \in 1 .. n |-> R[0 + i]]
    OBVIOUS
  <2>. QED BY <2>1, <2>2
<1>3. CASE Sp
  <2>. DEFINE X == {R[i] : i \in 1 .. n}
  <2>1. PICK c \in Nat, a \in Nat : c = Share(lens) /\ a = Offset(lens, t)
    BY Shares DEF TensorRank
  <2>2. R \in Seq(X) /\ Len(R) = n
    <3>1. R = [i \in 1 .. n |-> R[i]]
      BY <1>1 DEF Long
    <3>2. \A i \in 1 .. n : R[i] \in X
      OBVIOUS
    <3>. HIDE DEF X
    <3>3. [i \in 1 .. n |-> R[i]] \in Seq(X) /\ Len([i \in 1 .. n |-> R[i]]) = n
      BY <3>2
    <3>. QED BY <3>1, <3>3
  <2>. HIDE DEF X
  <2>3. SplitIfSp(R, t) = SubSeq(R, a + 1, a + c)
    <3>1. c = n \div T /\ a = t * (n \div T)
      BY <1>1, <1>3, <2>1 DEF Share, Offset
    <3>2. Split(R, t) = SubSeq(R, t * (n \div T) + 1, (t + 1) * (n \div T))
      BY <2>2 DEF Split
    <3>3. (t + 1) * c = t * c + c
      BY DEF TensorRank
    <3>. QED BY <1>3, <3>1, <3>2, <3>3 DEF SplitIfSp
  <2>4. a + 1 \in 1 .. n + 1 /\ a + c \in a .. n
    <3>1. CASE c = 0
      <4>1. n = T * c
        BY <1>1, <1>3, <2>1, Shares
      <4>2. n = 0 /\ a = t * c
        BY <1>1, <1>3, <2>1, <3>1, <4>1, SizedIs DEF Share, Offset
      <4>3. a = 0
        BY <3>1, <4>2 DEF TensorRank
      <4>. QED BY <3>1, <4>2, <4>3
    <3>2. CASE c # 0
      <4>1. c \in 1 .. c
        BY <3>2
      <4>2. a + c \in 1 .. n
        BY <1>1, <2>1, <4>1, Shares
      <4>. QED BY <3>2, <4>2
    <3>. QED BY <3>1, <3>2
  <2>5. /\ SubSeq(R, a + 1, a + c) \in Seq(X)
        /\ Len(SubSeq(R, a + 1, a + c)) = (a + c) - (a + 1) + 1
        /\ \A i \in 1 .. (a + c) - (a + 1) + 1 : SubSeq(R, a + 1, a + c)[i] = R[(a + 1) + i - 1]
    <3>1. a + c \in (a + 1) - 1 .. Len(R) /\ a + 1 \in 1 .. Len(R) + 1
      BY <2>2, <2>4
    <3>. QED BY ONLY <2>2, <3>1, SubSeqProperties
  <2>6. (a + c) - (a + 1) + 1 = c /\ \A i \in 1 .. c : (a + 1) + i - 1 = a + i
    OBVIOUS
  <2>7. SubSeq(R, a + 1, a + c) = [i \in 1 .. c |-> R[a + i]]
    <3>1. Len(SubSeq(R, a + 1, a + c)) = c /\ \A i \in 1 .. c : SubSeq(R, a + 1, a + c)[i] = R[a + i]
      BY <2>5, <2>6
    <3>2. DOMAIN SubSeq(R, a + 1, a + c) = 1 .. c
      BY <2>5, <3>1
    <3>3. SubSeq(R, a + 1, a + c) = [i \in 1 .. c |-> SubSeq(R, a + 1, a + c)[i]]
      BY <2>5, <3>2
    <3>. QED BY <3>1, <3>3
  <2>. QED BY <2>1, <2>3, <2>7
<1>. QED BY <1>2, <1>3

(* Gathered, a tensor is whole on every rank.                                    *)
LEMMA GatherSpread ==
  ASSUME Sized, NEW lens \in Masks, NEW R, Long(lens, R), NEW t \in TensorRank
  PROVE  GatherIfSp(Spread(R), t) = R
<1>1. CASE ~Sp
  BY <1>1 DEF GatherIfSp, Spread, SplitIfSp
<1>2. CASE Sp
  <2>1. PICK m \in Nat \ {0}, c \in Nat : m = T /\ c = Share(lens) /\ PaddedLength(lens) = m * c
    BY <1>2, SizedIs, Shares
  <2>. DEFINE ss == [n \in 1 .. m |-> Spread(R)[n - 1]]
              o == [n \in 0 .. m |-> n * c]
  <2>2. GatherIfSp(Spread(R), t) = FlattenSeq(ss)
    BY <1>2, <2>1 DEF GatherIfSp, Gather
  <2>3. ASSUME NEW n \in 1 .. m
        PROVE  /\ o[n - 1] \in Nat /\ o[n] \in Nat /\ o[n - 1] <= o[n]
               /\ ss[n] = [k \in 1 .. o[n] - o[n - 1] |-> R[o[n - 1] + k]]
    <3>1. n - 1 \in TensorRank /\ n - 1 \in 0 .. m /\ n \in 0 .. m
      BY <2>1 DEF TensorRank
    <3>2. ss[n] = [k \in 1 .. c |-> R[Offset(lens, n - 1) + k]]
      BY <2>1, <3>1, SplitRows DEF Spread
    <3>3. Offset(lens, n - 1) = (n - 1) * c
      BY <1>2, <2>1 DEF Offset, Share
    <3>4. o[n - 1] = (n - 1) * c /\ o[n] = n * c
      BY <3>1
    <3>5. n * c = (n - 1) * c + c /\ (n - 1) * c \in Nat
      <4>1. n - 1 \in Nat
        OBVIOUS
      <4>. QED BY <4>1
    <3>6. o[n] - o[n - 1] = c /\ o[n - 1] \in Nat /\ o[n] \in Nat /\ o[n - 1] <= o[n]
      <4>. HIDE DEF o
      <4>. QED BY <3>4, <3>5
    <3>. HIDE DEF ss, o
    <3>. QED BY <3>2, <3>3, <3>4, <3>6
  <2>4. ss = [n \in 1 .. m |-> ss[n]] /\ o[0] = 0 /\ o[m] = m * c
    OBVIOUS
  <2>. HIDE DEF ss, o
  <2>5. Cut(ss, m, o, R)
    BY <2>3, <2>4 DEF Cut
  <2>6. FlattenSeq(ss) = [k \in 1 .. m * c |-> R[k]]
    BY <2>4, <2>5, Joined
  <2>. QED BY <2>1, <2>2, <2>6 DEF Long
<1>. QED BY <1>1, <1>2

-------------------------------------------------------------------------------
(* Forward                                                                       *)

Heads(lens, R) == [i \in 1 .. PaddedLength(lens) |->
  IF i \in Packed(lens) THEN UNION {R[j] : j \in AttendedBy(lens, i)} ELSE {}]

LEMMA LayerIs ==
  ASSUME Sized, NEW lens \in Masks, NEW R, Long(lens, R)
  PROVE  Layer(lens, Spread(R)) = Spread([i \in 1 .. PaddedLength(lens) |-> R[i] \cup Heads(lens, R)[i]])
<1>. DEFINE x == Spread(R)
            H == Heads(lens, R)
            S == [i \in 1 .. PaddedLength(lens) |-> R[i] \cup H[i]]
            heads == [t \in TensorRank |-> LET in == GatherIfSp(x, t) IN
              [i \in DOMAIN in |-> IF i \in Packed(lens) THEN UNION {in[j] : j \in AttendedBy(lens, i)} ELSE {}]]
            out == [i \in DOMAIN heads[0] |-> UNION {heads[t][i] : t \in TensorRank}]
<1>1. Layer(lens, x) = [t \in TensorRank |-> LET rows == SplitIfSp(out, t) IN
                          [i \in DOMAIN x[t] |-> x[t][i] \cup rows[i]]]
  BY DEF Layer
<1>2. 0 \in TensorRank
  BY SizedIs DEF TensorRank
<1>3. \A t \in TensorRank : heads[t] = H
  <2>1. \A t \in TensorRank : GatherIfSp(x, t) = R
    BY GatherSpread
  <2>2. DOMAIN R = 1 .. PaddedLength(lens)
    BY DEF Long
  <2>. HIDE DEF x
  <2>. QED BY <2>1, <2>2 DEF Heads
<1>4. out = H
  <2>. HIDE DEF heads, H
  <2>1. out = [i \in DOMAIN H |-> UNION {H[i] : t \in TensorRank}]
    BY <1>2, <1>3
  <2>2. \A i : UNION {H[i] : t \in TensorRank} = H[i]
    BY <1>2
  <2>3. out = [i \in DOMAIN H |-> H[i]] /\ H = [i \in 1 .. PaddedLength(lens) |-> H[i]]
    BY <2>1, <2>2 DEF H, Heads
  <2>. HIDE DEF out
  <2>. QED BY <2>3
<1>5. Long(lens, H) /\ Long(lens, S)
  BY DEF Long, Heads
<1>6. ASSUME NEW t \in TensorRank
      PROVE  [i \in DOMAIN x[t] |-> x[t][i] \cup SplitIfSp(H, t)[i]] = SplitIfSp(S, t)
  <2>1. /\ x[t] = [i \in 1 .. Share(lens) |-> R[Offset(lens, t) + i]]
        /\ SplitIfSp(H, t) = [i \in 1 .. Share(lens) |-> H[Offset(lens, t) + i]]
        /\ SplitIfSp(S, t) = [i \in 1 .. Share(lens) |-> S[Offset(lens, t) + i]]
    <3>. HIDE DEF H, S
    <3>1. x[t] = SplitIfSp(R, t)
      BY DEF Spread
    <3>. HIDE DEF x
    <3>. QED BY <1>5, <3>1, SplitRows
  <2>2. \A i \in 1 .. Share(lens) : S[Offset(lens, t) + i] = R[Offset(lens, t) + i] \cup H[Offset(lens, t) + i]
    <3>. HIDE DEF H
    <3>. QED BY Shares
  <2>. HIDE DEF x, H, S
  <2>. QED BY <2>1, <2>2
<1>. HIDE DEF heads, out, H
<1>7. Layer(lens, x) = [t \in TensorRank |-> [i \in DOMAIN x[t] |-> x[t][i] \cup SplitIfSp(H, t)[i]]]
  BY <1>1, <1>4
<1>8. Layer(lens, x) = Spread(S)
  <2>. HIDE DEF x, S
  <2>. QED BY <1>6, <1>7 DEF Spread
<1>. QED BY <1>8 DEF H

(* The embedding gives each row its token.                                       *)
First(lens) == [i \in 1 .. PaddedLength(lens) |->
  IF i \in Packed(lens) THEN {Indices(lens)[i]} ELSE {}]

LEMMA IndexOf ==
  ASSUME NEW lens \in Masks, NEW i \in Packed(lens)
  PROVE  \E b \in 1 .. Rows : \E q \in 1 .. lens[b] : i = At(lens, b, q) /\ Indices(lens)[i] = <<b, q>>
BY RowOf, IndicesAre DEF Indexed

(* The tokens of the rows, with those of the padding.                            *)
LEMMA Tokens ==
  ASSUME Sized, NEW lens \in Masks
  PROVE  PaddedTo(Indices(lens), PaddedLength(lens), Pad)
           = [i \in 1 .. PaddedLength(lens) |-> IF i \in Packed(lens) THEN Indices(lens)[i] ELSE Pad]
<1>1. TotalNnz(lens) \in Nat /\ Packed(lens) = 1 .. TotalNnz(lens) /\ PaddedLength(lens) \in Nat
  BY Padded DEF Packed
<1>2. Indices(lens) = [i \in 1 .. TotalNnz(lens) |-> Indices(lens)[i]]
  BY <1>1, IndicesAre DEF Indexed
<1>3. Len(Indices(lens)) = TotalNnz(lens)
  BY <1>1, <1>2
<1>4. \A i \in 1 .. PaddedLength(lens) : i <= TotalNnz(lens) <=> i \in Packed(lens)
  BY <1>1
<1>. QED BY <1>3, <1>4 DEF PaddedTo

LEMMA EmbeddedIs ==
  ASSUME Sized, NEW lens \in Masks
  PROVE  Embedded(lens) = Spread(First(lens))
<1>. DEFINE ids == PaddedTo(Indices(lens), PaddedLength(lens), Pad)
            rows == [i \in DOMAIN ids |-> IF ids[i] = Pad THEN {} ELSE {ids[i]}]
<1>1. Embedded(lens) = Spread(rows)
  BY DEF Embedded, Spread
<1>2. \A i \in Packed(lens) : Indices(lens)[i] # Pad
  <2>1. \A b, q : <<b, q>> # Pad
    BY DEF Pad
  <2>. QED BY <2>1, IndexOf
<1>3. rows = First(lens)
  <2>1. ids = [i \in 1 .. PaddedLength(lens) |-> IF i \in Packed(lens) THEN Indices(lens)[i] ELSE Pad]
    BY Tokens
  <2>. HIDE DEF ids
  <2>. QED BY <1>2, <2>1 DEF First
<1>. HIDE DEF rows
<1>. QED BY <1>1, <1>3

(* One layer and every further one shows a row its sequence up to it.            *)
LEMMA LayerSees ==
  ASSUME Sized, NEW lens \in Masks
  PROVE  /\ Layer(lens, Embedded(lens)) = Spread(Reach(lens))
         /\ Layer(lens, Spread(Reach(lens))) = Spread(Reach(lens))
<1>1. Packed(lens) \subseteq 1 .. PaddedLength(lens)
  BY Padded
<1>2. Long(lens, First(lens)) /\ Long(lens, Reach(lens))
  BY DEF Long, First, Reach
<1>3. ASSUME NEW i \in 1 .. PaddedLength(lens)
      PROVE  /\ First(lens)[i] \cup Heads(lens, First(lens))[i] = Reach(lens)[i]
             /\ Reach(lens)[i] \cup Heads(lens, Reach(lens))[i] = Reach(lens)[i]
  <2>1. CASE i \notin Packed(lens)
    BY <2>1 DEF First, Reach, Heads
  <2>2. CASE i \in Packed(lens)
    <3>. DEFINE I == Indices(lens)
                A(j) == AttendedBy(lens, j)
    <3>1. i \in A(i) /\ A(i) \subseteq Packed(lens) /\ UNION {A(j) : j \in A(i)} = A(i)
      BY <2>2, AttendedTwice
    <3>2. \A j \in A(i) : First(lens)[j] = {I[j]} /\ Reach(lens)[j] = {I[k] : k \in A(j)}
      BY <1>1, <3>1 DEF First, Reach
    <3>3. /\ Heads(lens, First(lens))[i] = UNION {First(lens)[j] : j \in A(i)}
          /\ Heads(lens, Reach(lens))[i] = UNION {Reach(lens)[j] : j \in A(i)}
          /\ First(lens)[i] = {I[i]} /\ Reach(lens)[i] = {I[k] : k \in A(i)}
      BY <2>2, <3>1, <3>2 DEF Heads
    <3>. HIDE DEF I, A
    <3>4. UNION {First(lens)[j] : j \in A(i)} = {I[k] : k \in A(i)}
      BY <3>2
    <3>5. UNION {Reach(lens)[j] : j \in A(i)} = {I[k] : k \in A(i)}
      <4>1. \A j \in A(i) : A(j) \subseteq A(i)
        BY <3>1
      <4>. QED BY <3>1, <3>2, <4>1
    <3>6. {I[i]} \subseteq {I[k] : k \in A(i)}
      BY <3>1
    <3>7. PICK X, Y : X = {I[k] : k \in A(i)} /\ Y = {I[i]}
      OBVIOUS
    <3>8. First(lens)[i] = Y /\ Heads(lens, First(lens))[i] = X /\ Reach(lens)[i] = X /\ Heads(lens, Reach(lens))[i] = X
      BY <3>3, <3>4, <3>5, <3>7
    <3>9. Y \cup X = X /\ X \cup X = X
      BY <3>6, <3>7
    <3>. QED BY <3>8, <3>9
  <2>. QED BY <2>1, <2>2
<1>4. /\ [i \in 1 .. PaddedLength(lens) |-> First(lens)[i] \cup Heads(lens, First(lens))[i]] = Reach(lens)
      /\ [i \in 1 .. PaddedLength(lens) |-> Reach(lens)[i] \cup Heads(lens, Reach(lens))[i]] = Reach(lens)
  BY <1>2, <1>3 DEF Long
<1>5. Layer(lens, Spread(First(lens))) = Spread(Reach(lens))
  BY <1>2, <1>4, LayerIs
<1>6. Layer(lens, Spread(Reach(lens))) = Spread(Reach(lens))
  BY <1>2, <1>4, LayerIs
<1>. QED BY <1>5, <1>6, EmbeddedIs

(* Put back in their places, the rows are what each sequence gives alone.        *)
LEMMA UnpackedIs ==
  ASSUME Sized, NEW lens \in Masks
  PROVE  Unpacked(lens, Spread(Reach(lens)))[0] = Seen(lens)
<1>. DEFINE x == Spread(Reach(lens))
            rows == SubSeq(GatherIfSp(x, 0), 1, TotalNnz(lens))
<1>1. 0 \in TensorRank
  BY SizedIs DEF TensorRank
<1>2. Long(lens, Reach(lens))
  BY DEF Long, Reach
<1>3. GatherIfSp(x, 0) = Reach(lens)
  BY <1>1, <1>2, GatherSpread
<1>4. PICK n \in Nat, m \in Nat : n = TotalNnz(lens) /\ m = PaddedLength(lens) /\ n <= m /\ Packed(lens) = 1 .. n
  BY Padded DEF Packed
<1>5. \A i \in Packed(lens) : rows[i] = Reach(lens)[i]
  <2>. DEFINE R == Reach(lens)
              X == {R[i] : i \in 1 .. m}
  <2>1. \A i \in 1 .. n : R[i] \in X
    BY <1>4
  <2>2. rows = SubSeq(R, 1, n)
    BY <1>3, <1>4
  <2>. HIDE DEF R, X, rows
  <2>3. \A i \in 1 .. n - 1 + 1 : SubSeq(R, 1, n)[i] = R[1 + i - 1]
    BY <2>1, SubSeqProperties
  <2>4. \A i \in 1 .. n : i \in 1 .. n - 1 + 1 /\ 1 + i - 1 = i
    OBVIOUS
  <2>5. \A i \in 1 .. n : rows[i] = R[i]
    BY ONLY <2>2, <2>3, <2>4
  <2>. QED BY <1>4, <2>5 DEF R
<1>6. Unpacked(lens, x)[0] = [q \in 1 .. SeqLen |-> [b \in 1 .. Rows |->
                               IF q <= lens[b] THEN rows[CuSeqlens(lens)[b - 1] + q] ELSE {}]]
  BY <1>1 DEF Unpacked
<1>. HIDE DEF x, rows
<1>7. ASSUME NEW q \in 1 .. SeqLen, NEW b \in 1 .. Rows, q <= lens[b]
      PROVE  rows[CuSeqlens(lens)[b - 1] + q] = {<<b, k>> : k \in 1 .. q}
  <2>1. q \in 1 .. lens[b]
    BY <1>7, SizesAssumption, CuSeqlensIs DEF Ends
  <2>2. At(lens, b, q) \in Packed(lens)
    BY <2>1, PlaceOf
  <2>3. rows[At(lens, b, q)] = {Indices(lens)[j] : j \in AttendedBy(lens, At(lens, b, q))}
    <3>1. At(lens, b, q) \in 1 .. PaddedLength(lens)
      BY <2>2, Padded
    <3>. QED BY <1>5, <2>2, <3>1 DEF Reach
  <2>. QED BY <2>1, <2>3, SeenByRow DEF At
<1>8. Unpacked(lens, x)[0] = Seen(lens)
  <2>. DEFINE Put(q, b) == IF q <= lens[b] THEN rows[CuSeqlens(lens)[b - 1] + q] ELSE {}
              Has(q, b) == IF q <= lens[b] THEN {<<b, k>> : k \in 1 .. q} ELSE {}
  <2>1. \A q \in 1 .. SeqLen : \A b \in 1 .. Rows : Put(q, b) = Has(q, b)
    BY <1>7
  <2>2. Unpacked(lens, x)[0] = [q \in 1 .. SeqLen |-> [b \in 1 .. Rows |-> Put(q, b)]]
    BY <1>6
  <2>3. Seen(lens) = [q \in 1 .. SeqLen |-> [b \in 1 .. Rows |-> Has(q, b)]]
    BY DEF Seen
  <2>. HIDE DEF Put, Has
  <2>. QED BY <2>1, <2>2, <2>3
<1>. QED BY <1>8 DEF x

-------------------------------------------------------------------------------
(* Sums of bags                                                                  *)

(* FoldFunction adds one bag after the other; a function of the sets of bags that *)
(* grows by the bag that is added gives the sum.                                 *)
Grows(all, bags, n) ==
  /\ all = [s \in SUBSET (1 .. n) |-> all[s]] /\ all[{}] = EmptyBag
  /\ \A s \in SUBSET (1 .. n) : \A x \in s : all[s] = bags[x] (+) all[s \ {x}]

LEMMA SumIs ==
  ASSUME NEW n \in Nat, NEW bags, DOMAIN bags = 1 .. n, NEW all, Grows(all, bags, n)
  PROVE  SumOf(bags) = all[1 .. n]
<1>. DEFINE One(s) == CHOOSE x \in s : TRUE
            Loop(f) == [s \in SUBSET (1 .. n) |->
                          IF s = {} THEN EmptyBag ELSE bags[One(s)] (+) f[s \ {One(s)}]]
<1>1. SumOf(bags) = (CHOOSE f : f = Loop(f))[1 .. n]
  BY DEF SumOf, FoldFunction, FoldFunctionOnSet, MapThenFoldSet
<1>2. \A s : s # {} => One(s) \in s
  OBVIOUS
<1>3. /\ \A f : DOMAIN Loop(f) = SUBSET (1 .. n) /\ Loop(f) = [s \in SUBSET (1 .. n) |-> Loop(f)[s]] /\ Loop(f)[{}] = EmptyBag
      /\ \A f : \A s \in SUBSET (1 .. n) : s # {} => Loop(f)[s] = bags[One(s)] (+) f[s \ {One(s)}]
  <2>. HIDE DEF One
  <2>. QED OBVIOUS
<1>. HIDE DEF One, Loop
<1>4. /\ all = [s \in SUBSET (1 .. n) |-> all[s]] /\ all[{}] = EmptyBag
      /\ \A s \in SUBSET (1 .. n) : s # {} => all[s] = bags[One(s)] (+) all[s \ {One(s)}]
  BY <1>2 DEF Grows
<1>5. all = Loop(all)
  <2>1. \A s \in SUBSET (1 .. n) : all[s] = Loop(all)[s]
    BY <1>3, <1>4
  <2>. QED BY <1>3, <1>4, <2>1
<1>6. ASSUME NEW f, f = Loop(f) PROVE f = all
  <2>. DEFINE S == {m \in 0 .. n : \A s \in SUBSET (1 .. n) : Cardinality(s) = m => f[s] = all[s]}
  <2>1. \A s \in SUBSET (1 .. n) : IsFiniteSet(s) /\ Cardinality(s) \in 0 .. n
    <3>1. IsFiniteSet(1 .. n) /\ Cardinality(1 .. n) = n
      BY FS_Interval
    <3>2. ASSUME NEW s \in SUBSET (1 .. n) PROVE IsFiniteSet(s) /\ Cardinality(s) \in 0 .. n
      <4>1. IsFiniteSet(s) /\ Cardinality(s) <= n
        <5>1. PICK X : X = 1 .. n
          OBVIOUS
        <5>2. IsFiniteSet(X) /\ Cardinality(X) = n /\ s \in SUBSET X
          BY <3>1, <5>1
        <5>. QED BY ONLY <5>2, FS_Subset
      <4>2. Cardinality(s) \in Nat
        BY <4>1, FS_CardinalityType
      <4>. QED BY <4>1, <4>2
    <3>. QED BY <3>2
  <2>2. 0 \in S
    <3>1. ASSUME NEW s \in SUBSET (1 .. n), Cardinality(s) = 0 PROVE f[s] = all[s]
      <4>1. s = {}
        BY <2>1, <3>1, FS_EmptySet
      <4>. QED BY <1>3, <1>4, <1>6, <4>1
    <3>2. 0 \in 0 .. n
      OBVIOUS
    <3>. QED BY <3>1, <3>2, Zenon
  <2>3. ASSUME NEW m \in 0 .. n - 1, m \in S PROVE m + 1 \in S
    <3>1. ASSUME NEW s \in SUBSET (1 .. n), Cardinality(s) = m + 1 PROVE f[s] = all[s]
      <4>1. s # {}
        BY <3>1, FS_EmptySet
      <4>2. One(s) \in s /\ s \ {One(s)} \in SUBSET (1 .. n)
        BY <1>2, <4>1
      <4>3. Cardinality(s \ {One(s)}) = m
        BY <2>1, <3>1, <4>2, FS_RemoveElement
      <4>4. f[s \ {One(s)}] = all[s \ {One(s)}]
        BY <2>3, <4>2, <4>3
      <4>5. f[s] = bags[One(s)] (+) f[s \ {One(s)}] /\ all[s] = bags[One(s)] (+) all[s \ {One(s)}]
        BY <1>3, <1>4, <1>6, <4>1
      <4>. QED BY <4>4, <4>5
    <3>2. m + 1 \in 0 .. n
      OBVIOUS
    <3>. QED BY <3>1, <3>2
  <2>4. 0 .. n \subseteq S
    <3>. HIDE DEF S
    <3>. QED BY <2>2, <2>3, InductUpTo
  <2>5. \A s \in SUBSET (1 .. n) : f[s] = all[s]
    BY <2>1, <2>4
  <2>6. f = [s \in SUBSET (1 .. n) |-> f[s]]
    BY <1>3, <1>6
  <2>. QED BY <1>4, <2>5, <2>6
<1>7. (CHOOSE f : f = Loop(f)) = all
  BY <1>5, <1>6
<1>. QED BY <1>1, <1>7

(* Bags that have each of their elements equally often.                          *)
LEMMA UniformUnion ==
  ASSUME NEW A, NEW B, NEW k \in Nat, A \cap B = {}
  PROVE  Uniform(A, k) (+) Uniform(B, k) = Uniform(A \cup B, k)
<1>. DEFINE Count(e) == (IF e \in A THEN Uniform(A, k)[e] ELSE 0) + (IF e \in B THEN Uniform(B, k)[e] ELSE 0)
<1>1. /\ DOMAIN Uniform(A, k) = A /\ \A e \in A : Uniform(A, k)[e] = k
      /\ DOMAIN Uniform(B, k) = B /\ \A e \in B : Uniform(B, k)[e] = k
  BY DEF Uniform
<1>2. Uniform(A, k) (+) Uniform(B, k) = [e \in A \cup B |-> Count(e)]
  BY <1>1 DEF (+)
<1>3. ASSUME NEW e \in A \cup B PROVE Count(e) = k
  BY <1>1
<1>. HIDE DEF Count
<1>. QED BY <1>2, <1>3 DEF Uniform

LEMMA UniformTwice ==
  ASSUME NEW A, NEW k \in Nat, NEW l \in Nat
  PROVE  Uniform(A, k) (+) Uniform(A, l) = Uniform(A, k + l)
<1>. DEFINE Count(e) == (IF e \in A THEN Uniform(A, k)[e] ELSE 0) + (IF e \in A THEN Uniform(A, l)[e] ELSE 0)
<1>1. /\ DOMAIN Uniform(A, k) = A /\ \A e \in A : Uniform(A, k)[e] = k
      /\ DOMAIN Uniform(A, l) = A /\ \A e \in A : Uniform(A, l)[e] = l
  BY DEF Uniform
<1>2. Uniform(A, k) (+) Uniform(A, l) = [e \in A \cup A |-> Count(e)]
  BY <1>1 DEF (+)
<1>3. ASSUME NEW e \in A PROVE Count(e) = k + l
  BY <1>1
<1>4. A \cup A = A
  OBVIOUS
<1>. HIDE DEF Count
<1>. QED BY <1>2, <1>3, <1>4 DEF Uniform

LEMMA UniformEmpty == ASSUME NEW k PROVE Uniform({}, k) = EmptyBag
BY DEF Uniform, EmptyBag, SetToBag

LEMMA PlusEmpty == ASSUME NEW A, NEW k \in Nat PROVE Uniform(A, k) (+) EmptyBag = Uniform(A, k)
<1>1. Uniform(A, k) (+) Uniform({}, k) = Uniform(A \cup {}, k)
  BY UniformUnion
<1>2. A \cup {} = A
  OBVIOUS
<1>. QED BY <1>1, <1>2, UniformEmpty

(* The sum of bags that have nothing in common.                                  *)
Disjoint(n, S) == \A i, j \in 1 .. n : i # j => S[i] \cap S[j] = {}
AllOf(n, S) == UNION {S[i] : i \in 1 .. n}
BagsOf(bags, n, S, k) == DOMAIN bags = 1 .. n /\ \A i \in 1 .. n : bags[i] = Uniform(S[i], k)

LEMMA SumDisjoint ==
  ASSUME NEW n \in Nat, NEW k \in Nat, NEW S, NEW bags, BagsOf(bags, n, S, k), Disjoint(n, S)
  PROVE  SumOf(bags) = Uniform(AllOf(n, S), k)
<1>. DEFINE Some(s) == UNION {S[i] : i \in s}
            all == [s \in SUBSET (1 .. n) |-> Uniform(Some(s), k)]
<1>1. all[{}] = EmptyBag
  <2>1. Some({}) = {}
    OBVIOUS
  <2>2. all[{}] = Uniform(Some({}), k)
    <3>. HIDE DEF Some
    <3>. QED OBVIOUS
  <2>. QED BY <2>1, <2>2, UniformEmpty
<1>2. ASSUME NEW s \in SUBSET (1 .. n), NEW x \in s PROVE all[s] = bags[x] (+) all[s \ {x}]
  <2>1. S[x] \cap Some(s \ {x}) = {}
    <3>1. \A i \in s \ {x} : S[x] \cap S[i] = {}
      BY DEF Disjoint
    <3>. QED BY <3>1
  <2>2. S[x] \cup Some(s \ {x}) = Some(s)
    OBVIOUS
  <2>3. all[s] = Uniform(Some(s), k) /\ all[s \ {x}] = Uniform(Some(s \ {x}), k) /\ bags[x] = Uniform(S[x], k)
    <3>. HIDE DEF Some
    <3>. QED BY DEF BagsOf
  <2>. HIDE DEF Some, all
  <2>4. Uniform(S[x], k) (+) Uniform(Some(s \ {x}), k) = Uniform(S[x] \cup Some(s \ {x}), k)
    BY <2>1, UniformUnion
  <2>. QED BY <2>2, <2>3, <2>4
<1>3. all = [s \in SUBSET (1 .. n) |-> all[s]] /\ all[1 .. n] = Uniform(Some(1 .. n), k)
  <2>. HIDE DEF Some
  <2>. QED OBVIOUS
<1>4. Grows(all, bags, n)
  <2>. HIDE DEF all
  <2>. QED BY <1>1, <1>2, <1>3 DEF Grows
<1>5. SumOf(bags) = all[1 .. n]
  <2>. HIDE DEF all
  <2>. QED BY <1>4, SumIs DEF BagsOf
<1>. QED BY <1>3, <1>5 DEF AllOf

(* And of bags that are the same.                                                *)
LEMMA SumSame ==
  ASSUME NEW n \in Nat \ {0}, NEW R, NEW bags, DOMAIN bags = 1 .. n, \A i \in 1 .. n : bags[i] = Uniform(R, 1)
  PROVE  SumOf(bags) = Uniform(R, n)
<1>. DEFINE all == [s \in SUBSET (1 .. n) |-> IF s = {} THEN EmptyBag ELSE Uniform(R, Cardinality(s))]
<1>0. IsFiniteSet(1 .. n) /\ Cardinality(1 .. n) = n
  BY FS_Interval
<1>1. all[{}] = EmptyBag
  OBVIOUS
<1>2. ASSUME NEW s \in SUBSET (1 .. n), NEW x \in s PROVE all[s] = bags[x] (+) all[s \ {x}]
  <2>1. IsFiniteSet(s) /\ IsFiniteSet(s \ {x}) /\ s \ {x} \in SUBSET (1 .. n) /\ s # {}
    BY <1>0, FS_Subset
  <2>2. Cardinality(s) \in Nat /\ Cardinality(s \ {x}) \in Nat /\ Cardinality(s \ {x}) = Cardinality(s) - 1
    BY <2>1, FS_RemoveElement, FS_CardinalityType
  <2>3. all[s] = Uniform(R, Cardinality(s)) /\ bags[x] = Uniform(R, 1)
    BY <2>1
  <2>4. CASE s \ {x} = {}
    <3>1. Cardinality(s) = 1
      <4>1. Cardinality(s \ {x}) = 0
        BY <2>4, FS_EmptySet
      <4>. QED BY <2>2, <4>1
    <3>2. all[s \ {x}] = EmptyBag
      BY <2>4
    <3>3. Uniform(R, 1) (+) EmptyBag = Uniform(R, 1)
      BY PlusEmpty
    <3>. HIDE DEF all
    <3>. QED BY <2>3, <3>1, <3>2, <3>3
  <2>5. CASE s \ {x} # {}
    <3>1. all[s \ {x}] = Uniform(R, Cardinality(s \ {x}))
      BY <2>1, <2>5
    <3>2. Uniform(R, 1) (+) Uniform(R, Cardinality(s \ {x})) = Uniform(R, 1 + Cardinality(s \ {x}))
      BY <2>2, UniformTwice
    <3>3. 1 + Cardinality(s \ {x}) = Cardinality(s)
      BY <2>2
    <3>. HIDE DEF all
    <3>. QED BY <2>3, <3>1, <3>2, <3>3
  <2>. QED BY <2>4, <2>5
<1>3. all = [s \in SUBSET (1 .. n) |-> all[s]] /\ all[1 .. n] = Uniform(R, n)
  <2>1. 1 .. n # {}
    <3>1. 1 \in 1 .. n
      OBVIOUS
    <3>. QED BY <3>1
  <2>2. all = [s \in SUBSET (1 .. n) |-> all[s]]
    OBVIOUS
  <2>3. all[1 .. n] = Uniform(R, Cardinality(1 .. n))
    BY <2>1
  <2>. QED BY <1>0, <2>2, <2>3
<1>4. Grows(all, bags, n)
  <2>. HIDE DEF all
  <2>. QED BY <1>1, <1>2, <1>3 DEF Grows
<1>. HIDE DEF all
<1>. QED BY <1>3, <1>4, SumIs

-------------------------------------------------------------------------------
(* Routes                                                                        *)

(* The routes R one step longer.                                                 *)
Longer(t, x, R) == {<<<<t, x>>>> \o r : r \in R}

LEMMA Prefixed ==
  ASSUME NEW X, NEW a \in X, NEW r \in Seq(X)
  PROVE  <<a>> \o r \in Seq(X) /\ (<<a>> \o r)[1] = a /\ Tail(<<a>> \o r) = r
<1>1. <<a>> \in Seq(X) /\ Len(<<a>>) = 1 /\ <<a>>[1] = a /\ Len(r) \in Nat
  OBVIOUS
<1>2. /\ <<a>> \o r \in Seq(X) /\ Len(<<a>> \o r) = 1 + Len(r)
      /\ \A i \in 1 .. 1 + Len(r) : (<<a>> \o r)[i] = IF i <= 1 THEN <<a>>[i] ELSE r[i - 1]
  BY <1>1, ConcatProperties
<1>3. (<<a>> \o r)[1] = a
  BY <1>1, <1>2
<1>4. Tail(<<a>> \o r) = r
  <2>. DEFINE s == <<a>> \o r
  <2>1. s \in Seq(X) /\ s # <<>> /\ Len(s) = 1 + Len(r)
    BY <1>1, <1>2
  <2>. HIDE DEF s
  <2>2. Tail(s) \in Seq(X) /\ Len(Tail(s)) = Len(s) - 1 /\ \A i \in 1 .. Len(Tail(s)) : Tail(s)[i] = s[i + 1]
    BY <2>1
  <2>3. Len(Tail(s)) = Len(r)
    BY <1>1, <2>1, <2>2
  <2>4. \A i \in 1 .. Len(r) : Tail(s)[i] = r[i]
    <3>1. \A i \in 1 .. Len(r) : i + 1 \in 1 .. 1 + Len(r) /\ ~(i + 1 <= 1) /\ (i + 1) - 1 = i
      BY <1>1
    <3>. QED BY <1>2, <2>2, <2>3, <3>1 DEF s
  <2>5. Tail(s) = r
    BY <2>2, <2>3, <2>4, SeqEqual
  <2>. QED BY <2>5 DEF s
<1>. QED BY <1>2, <1>3, <1>4

LEMMA LongerApart ==
  ASSUME NEW X, NEW a, NEW x, NEW b, NEW y, <<a, x>> \in X, <<b, y>> \in X, <<a, x>> # <<b, y>>,
         NEW R \in SUBSET Seq(X), NEW Q \in SUBSET Seq(X)
  PROVE  Longer(a, x, R) \cap Longer(b, y, Q) = {}
<1>1. ASSUME NEW u \in R, NEW v \in Q PROVE <<<<a, x>>>> \o u # <<<<b, y>>>> \o v
  <2>1. (<<<<a, x>>>> \o u)[1] = <<a, x>> /\ (<<<<b, y>>>> \o v)[1] = <<b, y>>
    BY Prefixed
  <2>. QED BY <2>1
<1>. QED BY <1>1 DEF Longer

(* A bag of routes one step longer.                                              *)
LEMMA ThroughIs ==
  ASSUME NEW X, NEW a, NEW x, <<a, x>> \in X, NEW R \in SUBSET Seq(X), NEW k
  PROVE  Through(<<a, x>>, Uniform(R, k)) = Uniform(Longer(a, x, R), k)
<1>1. DOMAIN Uniform(R, k) = R /\ \A r \in R : Uniform(R, k)[r] = k
  BY DEF Uniform
<1>2. \A u \in Longer(a, x, R) : Tail(u) \in R
  <2>1. ASSUME NEW r \in R PROVE Tail(<<<<a, x>>>> \o r) = r
    BY Prefixed
  <2>. QED BY <2>1 DEF Longer
<1>3. Through(<<a, x>>, Uniform(R, k)) = [u \in Longer(a, x, R) |-> Uniform(R, k)[Tail(u)]]
  BY <1>1 DEF Through, Longer
<1>. QED BY <1>1, <1>2, <1>3 DEF Uniform

(* The tokens of the packed sequence, and those after one in its row.            *)
Tok(lens) == Range(Indices(lens))
After(lens, x) == {y \in Tok(lens) : y[1] = x[1] /\ y[2] >= x[2]}
Steps(lens) == ({Skip} \cup TensorRank) \X Tok(lens)
Later(lens, x, h) == UNION {Longer(t, y, h[y]) : t \in TensorRank, y \in After(lens, x)}

Traced(lens) ==
  /\ \A x \in Tok(lens) : RoutesFrom(lens)[0][x] = {<<<<v, x>>>> : v \in TensorRank}
  /\ \A l \in 1 .. P : \A x \in Tok(lens) : RoutesFrom(lens)[l][x]
       = Longer(Skip, x, RoutesFrom(lens)[l - 1][x]) \cup Later(lens, x, RoutesFrom(lens)[l - 1])
  /\ \A l \in 0 .. P : \A x \in Tok(lens) : RoutesFrom(lens)[l][x] \in SUBSET Seq(Steps(lens))

LEMMA RoutesAre == ASSUME Sized, NEW lens \in Masks PROVE Traced(lens)
<1>. DEFINE Words == Tok(lens)
            S == [Words -> SUBSET Seq(Steps(lens))]
            start == [x \in Words |-> {<<<<v, x>>>> : v \in TensorRank}]
            Next1(h) == [x \in Words |-> Longer(Skip, x, h[x]) \cup Later(lens, x, h)]
            G == [l \in 1 .. P |-> [h \in S |-> Next1(h)]]
            Loop(f) == [l \in 0 .. P |-> [x \in Words |->
              IF l = 0 THEN {<<<<v, x>>>> : v \in TensorRank}
              ELSE Longer(Skip, x, f[l - 1][x]) \cup Later(lens, x, f[l - 1])]]
<1>0. P \in Nat \ {0}
  BY SizedIs
<1>1. RoutesFrom(lens) = CHOOSE f : f = Loop(f)
  BY DEF RoutesFrom, Tok, After, Later, Longer
<1>2. start \in S
  <2>1. ASSUME NEW x \in Words, NEW v \in TensorRank PROVE <<<<v, x>>>> \in Seq(Steps(lens))
    <3>1. <<v, x>> \in Steps(lens)
      BY DEF Steps
    <3>. QED BY <3>1
  <2>2. \A x \in Words : {<<<<v, x>>>> : v \in TensorRank} \in SUBSET Seq(Steps(lens))
    BY <2>1
  <2>. QED BY <2>2
<1>3. \A x \in Words : \A t \in {Skip} \cup TensorRank : \A R \in SUBSET Seq(Steps(lens)) :
        Longer(t, x, R) \in SUBSET Seq(Steps(lens))
  <2>1. ASSUME NEW x \in Words, NEW t \in {Skip} \cup TensorRank, NEW R \in SUBSET Seq(Steps(lens)), NEW r \in R
        PROVE  <<<<t, x>>>> \o r \in Seq(Steps(lens))
    <3>1. <<t, x>> \in Steps(lens)
      BY DEF Steps
    <3>. QED BY <3>1, Prefixed
  <2>. QED BY <2>1 DEF Longer
<1>4. ASSUME NEW h \in S PROVE Next1(h) \in S
  <2>1. ASSUME NEW x \in Words PROVE Longer(Skip, x, h[x]) \cup Later(lens, x, h) \in SUBSET Seq(Steps(lens))
    <3>1. Longer(Skip, x, h[x]) \in SUBSET Seq(Steps(lens))
      BY <1>3
    <3>2. \A t \in TensorRank : \A y \in After(lens, x) : Longer(t, y, h[y]) \in SUBSET Seq(Steps(lens))
      BY <1>3 DEF After
    <3>3. Later(lens, x, h) \in SUBSET Seq(Steps(lens))
      BY <3>2 DEF Later
    <3>. QED BY <3>1, <3>3
  <2>. QED BY <2>1
<1>5. StepsOf(P, S, G)
  <2>. HIDE DEF S, Next1
  <2>. QED BY <1>4 DEF StepsOf
<1>6. \A l \in 1 .. P : \A h \in S : G[l][h] = Next1(h)
  <2>. HIDE DEF S, Next1
  <2>. QED OBVIOUS
<1>7. \A f : /\ UpTo(P, Loop(f)) /\ Loop(f)[0] = start
             /\ \A l \in 1 .. P : Loop(f)[l] = Next1(f[l - 1])
  <2>1. ASSUME NEW f PROVE Loop(f)[0] = start
    BY <1>0
  <2>2. ASSUME NEW f, NEW l \in 1 .. P PROVE Loop(f)[l] = Next1(f[l - 1])
    <3>1. l \in 0 .. P /\ l # 0
      BY <1>0
    <3>. QED BY <3>1
  <2>3. ASSUME NEW f PROVE UpTo(P, Loop(f))
    BY DEF UpTo
  <2>. HIDE DEF Loop, start, Next1
  <2>. QED BY <2>1, <2>2, <2>3
<1>8. \A x \in Words : start[x] = {<<<<v, x>>>> : v \in TensorRank}
  OBVIOUS
<1>9. \A h : \A x \in Words : Next1(h)[x] = Longer(Skip, x, h[x]) \cup Later(lens, x, h)
  OBVIOUS
<1>. HIDE DEF Loop, start, Next1, G
<1>10. PICK f : RecursiveOn(f, P, S, start, G)
  <2>. HIDE DEF S
  <2>. QED BY <1>0, <1>2, <1>5, Recursion
<1>11. f \in [0 .. P -> S] /\ f[0] = start /\ \A l \in 1 .. P : f[l] = Next1(f[l - 1])
  <2>. HIDE DEF S
  <2>1. \A l \in 1 .. P : l - 1 \in 0 .. P
    BY <1>0
  <2>. QED BY <1>6, <1>10, <2>1 DEF RecursiveOn
<1>12. UpTo(P, f)
  <2>. HIDE DEF S
  <2>. QED BY <1>11 DEF UpTo
<1>13. f = Loop(f)
  <2>1. SameSteps(P, f, Loop(f))
    BY <1>7, <1>11 DEF SameSteps
  <2>. QED BY <1>0, <1>7, <1>12, <2>1, RecursionUnique
<1>14. ASSUME NEW g, g = Loop(g) PROVE g = f
  <2>1. UpTo(P, g)
    BY <1>7, <1>14
  <2>2. SameSteps(P, g, f)
    BY <1>7, <1>11, <1>14 DEF SameSteps
  <2>. QED BY <1>0, <1>12, <2>1, <2>2, RecursionUnique
<1>15. RoutesFrom(lens) = f
  BY <1>1, <1>13, <1>14
<1>16. \A l \in 0 .. P : \A x \in Words : f[l][x] \in SUBSET Seq(Steps(lens))
  BY <1>11
<1>. QED BY <1>8, <1>9, <1>11, <1>15, <1>16 DEF Traced

(* The tokens after token j are those of the rows that attend to row j.          *)
LEMMA AfterIs ==
  ASSUME NEW lens \in Masks, NEW j \in Packed(lens)
  PROVE  After(lens, Indices(lens)[j]) = {Indices(lens)[i] : i \in {n \in Packed(lens) : j \in AttendedBy(lens, n)}}
<1>. DEFINE I == Indices(lens)
<1>1. PICK b \in 1 .. Rows : \E q \in 1 .. lens[b] : j = At(lens, b, q) /\ I[j] = <<b, q>>
  BY IndexOf
<1>2. PICK q \in 1 .. lens[b] : j = At(lens, b, q) /\ I[j] = <<b, q>>
  BY <1>1
<1>3. Tok(lens) = {I[i] : i \in Packed(lens)}
  <2>1. DOMAIN I = Packed(lens)
    BY IndicesAre DEF Indexed
  <2>. QED BY <2>1 DEF Tok, Range
<1>4. ASSUME NEW i \in Packed(lens)
      PROVE  j \in AttendedBy(lens, i) <=> I[i][1] = I[j][1] /\ I[i][2] >= I[j][2]
  <2>1. PICK c \in 1 .. Rows : \E r \in 1 .. lens[c] : i = At(lens, c, r) /\ I[i] = <<c, r>>
    BY IndexOf
  <2>2. PICK r \in 1 .. lens[c] : i = At(lens, c, r) /\ I[i] = <<c, r>>
    BY <2>1
  <2>3. j \in AttendedBy(lens, i) <=> b = c /\ q <= r
    BY <1>2, <2>2, AttendedByRow
  <2>4. q \in Int /\ r \in Int
    BY CuSeqlensIs DEF Ends
  <2>. QED BY <1>2, <2>2, <2>3, <2>4
<1>. HIDE DEF I
<1>5. After(lens, I[j]) = {y \in Tok(lens) : y[1] = I[j][1] /\ y[2] >= I[j][2]}
  BY DEF After
<1>. QED BY <1>3, <1>4, <1>5 DEF I

LEMMA OneToken ==
  ASSUME NEW lens \in Masks, NEW i \in Packed(lens), NEW j \in Packed(lens), Indices(lens)[i] = Indices(lens)[j]
  PROVE  i = j
<1>1. PICK b \in 1 .. Rows, c \in 1 .. Rows :
        /\ \E q \in 1 .. lens[b] : i = At(lens, b, q) /\ Indices(lens)[i] = <<b, q>>
        /\ \E r \in 1 .. lens[c] : j = At(lens, c, r) /\ Indices(lens)[j] = <<c, r>>
  BY IndexOf
<1>. QED BY <1>1


-------------------------------------------------------------------------------
(* Backward                                                                      *)

(* The routes of the rows after l layers.                                        *)
Ways(lens, l) == [i \in 1 .. PaddedLength(lens) |->
  IF i \in Packed(lens) THEN RoutesFrom(lens)[l][Indices(lens)[i]] ELSE {}]
Each(lens, W, k) == [i \in 1 .. PaddedLength(lens) |-> Uniform(W[i], k)]

LEMMA TimesIs ==
  ASSUME Sized
  PROVE  Times \in Nat /\ Times \in 1 .. T /\ (~Sp => Times = 1) /\ (Sp => Times = T)
BY SizedIs DEF Times

LEMMA BackIs ==
  ASSUME NEW lens, NEW l
  PROVE  Back(lens, l) = Each(lens, Ways(lens, l), Times)
BY DEF Back, Each, Ways

LEMMA EachOf ==
  ASSUME NEW lens, NEW W, NEW k
  PROVE  /\ Long(lens, Each(lens, W, k)) /\ DOMAIN Each(lens, W, k) = 1 .. PaddedLength(lens)
         /\ \A i \in 1 .. PaddedLength(lens) : Each(lens, W, k)[i] = Uniform(W[i], k)
BY DEF Long, Each

LEMMA TokenOf ==
  ASSUME NEW lens \in Masks, NEW i \in Packed(lens)
  PROVE  Indices(lens)[i] \in Tok(lens)
<1>1. DOMAIN Indices(lens) = Packed(lens)
  BY IndicesAre DEF Indexed
<1>. QED BY <1>1 DEF Tok, Range

(* The head gives every rank the routes that start at its rows.                  *)
LEMMA LogitsBackwardIs ==
  ASSUME Sized, NEW lens \in Masks, NEW t
  PROVE  PaddedTo(LogitsBackward(lens, t), PaddedLength(lens), EmptyBag) = Each(lens, Ways(lens, 0), 1)
<1>1. PICK n \in Nat, m \in Nat : n = TotalNnz(lens) /\ m = PaddedLength(lens) /\ n <= m /\ Packed(lens) = 1 .. n
  BY Padded DEF Packed
<1>. DEFINE L == LogitsBackward(lens, t)
            I == Indices(lens)
<1>2. L = [i \in 1 .. n |-> SetToBag({<<<<v, I[i]>>>> : v \in TensorRank})]
  BY <1>1 DEF LogitsBackward
<1>3. Len(L) = n
  <2>. HIDE DEF L, I
  <2>. QED BY <1>2
<1>4. ASSUME NEW i \in 1 .. n PROVE L[i] = Uniform(Ways(lens, 0)[i], 1)
  <2>1. I[i] \in Tok(lens)
    BY <1>1, TokenOf
  <2>2. RoutesFrom(lens)[0][I[i]] = {<<<<v, I[i]>>>> : v \in TensorRank}
    <3>1. Traced(lens)
      BY RoutesAre
    <3>. HIDE DEF I
    <3>. QED BY <2>1, <3>1 DEF Traced
  <2>3. Ways(lens, 0)[i] = RoutesFrom(lens)[0][I[i]]
    BY <1>1 DEF Ways
  <2>4. L[i] = SetToBag({<<<<v, I[i]>>>> : v \in TensorRank})
    <3>. HIDE DEF L, I
    <3>. QED BY <1>2
  <2>. HIDE DEF L, I
  <2>. QED BY <2>2, <2>3, <2>4 DEF SetToBag, Uniform
<1>5. ASSUME NEW i \in 1 .. m, ~(i <= n) PROVE Uniform(Ways(lens, 0)[i], 1) = EmptyBag
  <2>1. Ways(lens, 0)[i] = {}
    BY <1>1, <1>5 DEF Ways
  <2>. QED BY <2>1, UniformEmpty
<1>. HIDE DEF L
<1>6. ASSUME NEW i \in 1 .. m PROVE (IF i <= n THEN L[i] ELSE EmptyBag) = Uniform(Ways(lens, 0)[i], 1)
  <2>1. CASE i <= n
    <3>1. i \in 1 .. n
      BY <2>1
    <3>. QED BY <1>4, <2>1, <3>1
  <2>2. CASE ~(i <= n)
    BY <1>5, <2>2
  <2>. QED BY <2>1, <2>2
<1>7. PaddedTo(L, m, EmptyBag) = [i \in 1 .. m |-> IF i <= n THEN L[i] ELSE EmptyBag]
  BY <1>3 DEF PaddedTo
<1>8. PaddedTo(L, m, EmptyBag) = [i \in 1 .. m |-> Uniform(Ways(lens, 0)[i], 1)]
  BY <1>6, <1>7
<1>. QED BY <1>1, <1>8 DEF Each, L

LEMMA HeadBackwardIs ==
  ASSUME Sized, NEW lens \in Masks
  PROVE  HeadBackward(lens) = Spread(Back(lens, 0))
<1>. DEFINE W == Ways(lens, 0)
            rows == [t \in TensorRank |-> PaddedTo(LogitsBackward(lens, t), PaddedLength(lens), EmptyBag)]
<1>1. \A t \in TensorRank : rows[t] = Each(lens, W, 1)
  BY LogitsBackwardIs
<1>2. T \in Nat \ {0} /\ 0 \in TensorRank /\ \A n \in 1 .. T : n - 1 \in TensorRank
  BY SizedIs DEF TensorRank
<1>3. HeadBackward(lens) = [t \in TensorRank |-> IF Sp THEN Split(AllReduce(rows), t) ELSE rows[t]]
  BY DEF HeadBackward
<1>. HIDE DEF rows, W
<1>4. ASSUME NEW i \in 1 .. PaddedLength(lens) PROVE SumOf([n \in 1 .. T |-> rows[n - 1][i]]) = Each(lens, W, T)[i]
  <2>1. PICK bags : bags = [n \in 1 .. T |-> rows[n - 1][i]]
    OBVIOUS
  <2>2. DOMAIN bags = 1 .. T /\ \A n \in 1 .. T : bags[n] = Uniform(W[i], 1)
    BY <1>1, <1>2, <2>1, EachOf
  <2>3. SumOf(bags) = Uniform(W[i], T)
    BY <1>2, <2>2, SumSame
  <2>. QED BY <2>1, <2>3, EachOf
<1>5. AllReduce(rows) = Each(lens, W, T)
  <2>1. DOMAIN rows[0] = 1 .. PaddedLength(lens)
    BY <1>1, <1>2, EachOf
  <2>2. AllReduce(rows) = [i \in DOMAIN rows[0] |-> SumOf([n \in 1 .. T |-> rows[n - 1][i]])]
    BY DEF AllReduce
  <2>3. AllReduce(rows) = [i \in 1 .. PaddedLength(lens) |-> Each(lens, W, T)[i]]
    BY <1>4, <2>1, <2>2
  <2>. QED BY <2>3 DEF Each
<1>6. ASSUME NEW t \in TensorRank
      PROVE  (IF Sp THEN Split(AllReduce(rows), t) ELSE rows[t]) = SplitIfSp(Back(lens, 0), t)
  <2>1. Back(lens, 0) = Each(lens, W, Times)
    BY BackIs DEF W
  <2>. QED BY <1>1, <1>5, <2>1, TimesIs DEF SplitIfSp
<1>. QED BY <1>3, <1>6 DEF Spread

(* What reaches row j through the part of the layer that rank t has.             *)
PartOf(lens, l, t, j) ==
  IF j \in Packed(lens)
  THEN UNION {Longer(t, y, RoutesFrom(lens)[l][y]) : y \in After(lens, Indices(lens)[j])} ELSE {}

LEMMA HeadsBackward ==
  ASSUME Sized, NEW lens \in Masks, NEW l \in 0 .. P, NEW t \in TensorRank, NEW j \in Packed(lens),
         NEW bags, DOMAIN bags = Packed(lens),
         \A i \in Packed(lens) : bags[i] = IF j \in AttendedBy(lens, i)
                                           THEN Through(<<t, Indices(lens)[i]>>, Back(lens, l)[i]) ELSE EmptyBag
  PROVE  SumOf(bags) = Uniform(PartOf(lens, l, t, j), Times)
<1>. DEFINE I == Indices(lens)
            F == RoutesFrom(lens)[l]
            S == [i \in Packed(lens) |-> IF j \in AttendedBy(lens, i) THEN Longer(t, I[i], F[I[i]]) ELSE {}]
<1>1. PICK n \in Nat : n = TotalNnz(lens) /\ Packed(lens) = 1 .. n /\ Packed(lens) \subseteq 1 .. PaddedLength(lens)
  BY Padded DEF Packed
<1>2. \A i \in Packed(lens) : I[i] \in Tok(lens) /\ <<t, I[i]>> \in Steps(lens) /\ F[I[i]] \in SUBSET Seq(Steps(lens))
  BY TokenOf, RoutesAre DEF Traced, Steps
<1>3. \A i \in Packed(lens) : Back(lens, l)[i] = Uniform(F[I[i]], Times)
  BY <1>1 DEF Back
<1>4. \A i \in Packed(lens) : S[i] = IF j \in AttendedBy(lens, i) THEN Longer(t, I[i], F[I[i]]) ELSE {}
  OBVIOUS
<1>5. \A i, k \in Packed(lens) : I[i] = I[k] => i = k
  BY OneToken
<1>6. PartOf(lens, l, t, j) = UNION {Longer(t, y, F[y]) : y \in {I[i] : i \in {m \in Packed(lens) : j \in AttendedBy(lens, m)}}}
  BY AfterIs DEF PartOf
<1>. HIDE DEF I, F, S
<1>7. BagsOf(bags, n, S, Times)
  <2>1. ASSUME NEW i \in Packed(lens) PROVE bags[i] = Uniform(S[i], Times)
    <3>1. CASE j \in AttendedBy(lens, i)
      <4>1. bags[i] = Through(<<t, I[i]>>, Uniform(F[I[i]], Times))
        BY <1>3, <3>1 DEF I
      <4>2. Through(<<t, I[i]>>, Uniform(F[I[i]], Times)) = Uniform(Longer(t, I[i], F[I[i]]), Times)
        <5>1. PICK X : X = Steps(lens)
          OBVIOUS
        <5>2. <<t, I[i]>> \in X /\ F[I[i]] \in SUBSET Seq(X)
          BY <1>2, <5>1
        <5>. QED BY <5>2, ThroughIs
      <4>. QED BY <1>4, <3>1, <4>1, <4>2
    <3>2. CASE j \notin AttendedBy(lens, i)
      BY <1>4, <3>2, UniformEmpty
    <3>. QED BY <3>1, <3>2
  <2>. QED BY <1>1, <2>1 DEF BagsOf
<1>8. Disjoint(n, S)
  <2>1. ASSUME NEW i \in Packed(lens), NEW k \in Packed(lens), i # k PROVE S[i] \cap S[k] = {}
    <3>1. <<t, I[i]>> # <<t, I[k]>>
      BY <1>5, <2>1
    <3>2. Longer(t, I[i], F[I[i]]) \cap Longer(t, I[k], F[I[k]]) = {}
      BY <1>2, <3>1, LongerApart
    <3>. QED BY <1>4, <3>2
  <2>. QED BY <1>1, <2>1 DEF Disjoint
<1>9. AllOf(n, S) = PartOf(lens, l, t, j)
  <2>1. AllOf(n, S) = UNION {S[i] : i \in Packed(lens)}
    BY <1>1 DEF AllOf
  <2>2. UNION {S[i] : i \in Packed(lens)} = UNION {Longer(t, y, F[y]) : y \in {I[i] : i \in {m \in Packed(lens) : j \in AttendedBy(lens, m)}}}
    BY <1>4
  <2>. QED BY <1>6, <2>1, <2>2
<1>10. SumOf(bags) = Uniform(AllOf(n, S), Times)
  BY <1>7, <1>8, SumDisjoint, TimesIs
<1>. QED BY <1>9, <1>10

(* And through all parts.                                                        *)
Down(lens, l) == [j \in 1 .. PaddedLength(lens) |->
  IF j \in Packed(lens) THEN Later(lens, Indices(lens)[j], RoutesFrom(lens)[l]) ELSE {}]

LEMMA PartsSummed ==
  ASSUME Sized, NEW lens \in Masks, NEW l \in 0 .. P, NEW j \in 1 .. PaddedLength(lens),
         NEW bags, DOMAIN bags = 1 .. T,
         \A n \in 1 .. T : bags[n] = Uniform(PartOf(lens, l, n - 1, j), Times)
  PROVE  SumOf(bags) = Uniform(Down(lens, l)[j], Times)
<1>. DEFINE F == RoutesFrom(lens)[l]
            A == After(lens, Indices(lens)[j])
            S == [n \in 1 .. T |-> PartOf(lens, l, n - 1, j)]
<1>1. T \in Nat \ {0} /\ TensorRank = 0 .. T - 1
  BY SizedIs DEF TensorRank
<1>2. \A n \in 1 .. T : S[n] = PartOf(lens, l, n - 1, j)
  OBVIOUS
<1>3. A \subseteq Tok(lens)
  BY DEF After
<1>4. \A y \in A : \A t \in TensorRank : <<t, y>> \in Steps(lens) /\ F[y] \in SUBSET Seq(Steps(lens))
  BY <1>3, RoutesAre DEF Traced, Steps
<1>. HIDE DEF S
<1>5. BagsOf(bags, T, S, Times)
  BY <1>2 DEF BagsOf
<1>6. CASE j \notin Packed(lens)
  <2>1. \A n \in 1 .. T : S[n] = {}
    BY <1>2, <1>6 DEF PartOf
  <2>2. Disjoint(T, S)
    BY <2>1 DEF Disjoint
  <2>3. AllOf(T, S) = Down(lens, l)[j]
    BY <1>6, <2>1 DEF AllOf, Down
  <2>. QED BY <1>1, <1>5, <2>2, <2>3, SumDisjoint, TimesIs
<1>7. CASE j \in Packed(lens)
  <2>1. \A n \in 1 .. T : S[n] = UNION {Longer(n - 1, y, F[y]) : y \in A}
    BY <1>2, <1>7 DEF PartOf
  <2>2. Down(lens, l)[j] = UNION {Longer(t, y, F[y]) : t \in TensorRank, y \in A}
    BY <1>7 DEF Down, Later
  <2>. HIDE DEF F, A
  <2>3. Disjoint(T, S)
    <3>1. ASSUME NEW n \in 1 .. T, NEW m \in 1 .. T, n # m, NEW y \in A, NEW z \in A
          PROVE  Longer(n - 1, y, F[y]) \cap Longer(m - 1, z, F[z]) = {}
      <4>1. n - 1 \in TensorRank /\ m - 1 \in TensorRank /\ n - 1 # m - 1
        BY <1>1, <3>1
      <4>2. <<n - 1, y>> # <<m - 1, z>>
        BY <4>1
      <4>. QED BY <1>4, <4>1, <4>2, LongerApart
    <3>2. ASSUME NEW n \in 1 .. T, NEW m \in 1 .. T, n # m, NEW u \in S[n] PROVE u \notin S[m]
      <4>1. PICK y \in A : u \in Longer(n - 1, y, F[y])
        BY <2>1
      <4>2. \A z \in A : u \notin Longer(m - 1, z, F[z])
        BY <3>1, <3>2, <4>1
      <4>. QED BY <2>1, <4>2
    <3>. QED BY <3>2 DEF Disjoint
  <2>4. AllOf(T, S) = Down(lens, l)[j]
    <3>1. ASSUME NEW u \in AllOf(T, S) PROVE u \in Down(lens, l)[j]
      <4>1. PICK n \in 1 .. T : u \in S[n]
        BY DEF AllOf
      <4>2. PICK y \in A : u \in Longer(n - 1, y, F[y])
        BY <2>1, <4>1
      <4>3. n - 1 \in TensorRank
        BY <1>1
      <4>. QED BY <2>2, <4>2, <4>3
    <3>2. ASSUME NEW u \in Down(lens, l)[j] PROVE u \in AllOf(T, S)
      <4>1. PICK t \in TensorRank, y \in A : u \in Longer(t, y, F[y])
        BY <2>2
      <4>2. PICK n \in 1 .. T : n - 1 = t
        <5>1. t + 1 \in 1 .. T /\ (t + 1) - 1 = t
          BY <1>1
        <5>. QED BY <5>1
      <4>3. u \in Longer(n - 1, y, F[y])
        BY <4>1, <4>2
      <4>4. u \in S[n]
        BY <2>1, <4>3
      <4>. QED BY <4>4 DEF AllOf
    <3>. QED BY <3>1, <3>2
  <2>. QED BY <1>1, <1>5, <2>3, <2>4, SumDisjoint, TimesIs
<1>. QED BY <1>6, <1>7

(* The routes back through one more layer are those along the residual and those  *)
(* through it.                                                                   *)
LEMMA LayerBackwardIs ==
  ASSUME Sized, NEW lens \in Masks, NEW l \in 0 .. P - 1
  PROVE  LayerBackward(lens, Spread(Back(lens, l))) = Spread(Back(lens, l + 1))
<1>. DEFINE B == Back(lens, l)
            N == Back(lens, l + 1)
            g == Spread(B)
            D == Each(lens, Down(lens, l), Times)
            token == PaddedTo(Indices(lens), PaddedLength(lens), Pad)
            sums(t, j) == [i \in Packed(lens) |->
                             IF j \in AttendedBy(lens, i) THEN Through(<<t, token[i]>>, GatherIfSp(g, t)[i])
                             ELSE EmptyBag]
            heads == [t \in TensorRank |-> LET out == GatherIfSp(g, t) IN
              [j \in DOMAIN out |->
                 IF j \in Packed(lens)
                 THEN SumOf([i \in Packed(lens) |->
                               IF j \in AttendedBy(lens, i) THEN Through(<<t, token[i]>>, out[i])
                               ELSE EmptyBag])
                 ELSE EmptyBag]]
            own(t, j) == Through(<<Skip, SplitIfSp(token, t)[j]>>, g[t][j]) (+) SplitIfSp(AllReduce(heads), t)[j]
<1>0. l \in 0 .. P /\ l + 1 \in 1 .. P /\ (l + 1) - 1 = l
  BY SizedIs
<1>1. LayerBackward(lens, g) = [t \in TensorRank |-> [j \in DOMAIN g[t] |-> own(t, j)]]
  BY DEF LayerBackward
<1>2. T \in Nat \ {0} /\ 0 \in TensorRank /\ \A n \in 1 .. T : n - 1 \in TensorRank
  BY SizedIs DEF TensorRank
<1>3. Long(lens, B) /\ Long(lens, N) /\ Long(lens, D) /\ Long(lens, token)
  <2>1. Long(lens, token)
    BY Tokens DEF Long
  <2>. QED BY <2>1 DEF Long, Back, Each
<1>4. Packed(lens) \subseteq 1 .. PaddedLength(lens)
  BY Padded
<1>5. \A i \in 1 .. PaddedLength(lens) : token[i] = IF i \in Packed(lens) THEN Indices(lens)[i] ELSE Pad
  BY Tokens
<1>6. \A t \in TensorRank : GatherIfSp(g, t) = B
  BY <1>3, GatherSpread
<1>7. \A t \in TensorRank : heads[t] = [j \in DOMAIN B |-> IF j \in Packed(lens) THEN SumOf(sums(t, j)) ELSE EmptyBag]
  BY <1>6
<1>8. \A t, j : /\ DOMAIN sums(t, j) = Packed(lens)
                /\ \A i \in Packed(lens) : sums(t, j)[i] = IF j \in AttendedBy(lens, i)
                                                           THEN Through(<<t, token[i]>>, GatherIfSp(g, t)[i]) ELSE EmptyBag
  <2>. HIDE DEF token, g
  <2>. QED OBVIOUS
<1>. HIDE DEF B, N, g, D, token, sums, heads
<1>9. ASSUME NEW t \in TensorRank, NEW j \in 1 .. PaddedLength(lens)
      PROVE  heads[t][j] = Uniform(PartOf(lens, l, t, j), Times)
  <2>1. heads[t][j] = IF j \in Packed(lens) THEN SumOf(sums(t, j)) ELSE EmptyBag
    <3>1. DOMAIN B = 1 .. PaddedLength(lens)
      BY <1>3 DEF Long
    <3>. QED BY <1>7, <3>1, Zenon
  <2>2. CASE j \in Packed(lens)
    <3>1. PICK bags : bags = sums(t, j)
      OBVIOUS
    <3>2. DOMAIN bags = Packed(lens)
      BY <1>8, <3>1
    <3>3. \A i \in Packed(lens) : bags[i] = IF j \in AttendedBy(lens, i)
                                            THEN Through(<<t, Indices(lens)[i]>>, Back(lens, l)[i]) ELSE EmptyBag
      <4>1. \A i \in Packed(lens) : token[i] = Indices(lens)[i]
        BY <1>4, <1>5
      <4>2. GatherIfSp(g, t) = B
        BY <1>6
      <4>. QED BY <1>8, <3>1, <4>1, <4>2 DEF B
    <3>4. SumOf(bags) = Uniform(PartOf(lens, l, t, j), Times)
      BY <1>0, <2>2, <3>2, <3>3, HeadsBackward
    <3>. QED BY <2>1, <2>2, <3>1, <3>4
  <2>3. CASE j \notin Packed(lens)
    BY <2>1, <2>3, UniformEmpty DEF PartOf
  <2>. QED BY <2>2, <2>3
<1>10. AllReduce(heads) = D
  <2>1. AllReduce(heads) = [j \in DOMAIN heads[0] |-> SumOf([n \in 1 .. T |-> heads[n - 1][j]])]
    BY DEF AllReduce
  <2>2. DOMAIN heads[0] = 1 .. PaddedLength(lens)
    BY <1>2, <1>3, <1>7 DEF Long
  <2>3. ASSUME NEW j \in 1 .. PaddedLength(lens) PROVE SumOf([n \in 1 .. T |-> heads[n - 1][j]]) = D[j]
    <3>1. PICK bags : bags = [n \in 1 .. T |-> heads[n - 1][j]]
      OBVIOUS
    <3>2. DOMAIN bags = 1 .. T /\ \A n \in 1 .. T : bags[n] = Uniform(PartOf(lens, l, n - 1, j), Times)
      BY <1>2, <1>9, <3>1
    <3>3. SumOf(bags) = Uniform(Down(lens, l)[j], Times)
      BY <1>0, <3>2, PartsSummed
    <3>. QED BY <3>1, <3>3, EachOf DEF D
  <2>4. AllReduce(heads) = [j \in 1 .. PaddedLength(lens) |-> D[j]]
    BY <2>1, <2>2, <2>3
  <2>. QED BY <1>3, <2>4 DEF Long
<1>11. ASSUME NEW i \in 1 .. PaddedLength(lens) PROVE Through(<<Skip, token[i]>>, B[i]) (+) D[i] = N[i]
  <2>. DEFINE F == RoutesFrom(lens)[l]
              x == Indices(lens)[i]
              L == Later(lens, x, F)
  <2>0. Times \in Nat
    BY TimesIs
  <2>1. CASE i \in Packed(lens)
    <3>0. PICK X : X = Steps(lens)
      OBVIOUS
    <3>1. x \in Tok(lens) /\ <<Skip, x>> \in X /\ F[x] \in SUBSET Seq(X)
      BY <1>0, <2>1, <3>0, TokenOf, RoutesAre DEF Traced, Steps
    <3>2. \A t \in TensorRank : \A y \in After(lens, x) : <<t, y>> \in X /\ F[y] \in SUBSET Seq(X)
      BY <1>0, <3>0, RoutesAre DEF Traced, Steps, After
    <3>3. B[i] = Uniform(F[x], Times) /\ token[i] = x
      BY <1>5, <2>1 DEF B, Back
    <3>4. D[i] = Uniform(L, Times)
      <4>1. D[i] = Uniform(Down(lens, l)[i], Times)
        BY EachOf DEF D
      <4>2. Down(lens, l)[i] = L
        BY <2>1 DEF Down
      <4>. QED BY <4>1, <4>2
    <3>5. N[i] = Uniform(Longer(Skip, x, F[x]) \cup L, Times)
      <4>1. RoutesFrom(lens)[l + 1][x] = Longer(Skip, x, F[x]) \cup L
        BY <1>0, <3>1, RoutesAre DEF Traced
      <4>2. N[i] = Uniform(RoutesFrom(lens)[l + 1][x], Times)
        BY <2>1 DEF N, Back
      <4>. QED BY <4>1, <4>2
    <3>6. L = UNION {Longer(t, y, F[y]) : t \in TensorRank, y \in After(lens, x)}
      BY DEF Later
    <3>. HIDE DEF F, x, L
    <3>7. Longer(Skip, x, F[x]) \cap L = {}
      <4>1. ASSUME NEW t \in TensorRank, NEW y \in After(lens, x) PROVE Longer(Skip, x, F[x]) \cap Longer(t, y, F[y]) = {}
        <5>1. t # Skip
          BY <1>2 DEF TensorRank, Skip
        <5>2. <<Skip, x>> # <<t, y>>
          BY <5>1
        <5>. QED BY <3>1, <3>2, <5>2, LongerApart
      <4>. QED BY <3>6, <4>1
    <3>8. Through(<<Skip, x>>, Uniform(F[x], Times)) = Uniform(Longer(Skip, x, F[x]), Times)
      BY <3>1, ThroughIs
    <3>9. Uniform(Longer(Skip, x, F[x]), Times) (+) Uniform(L, Times) = Uniform(Longer(Skip, x, F[x]) \cup L, Times)
      BY <2>0, <3>7, UniformUnion
    <3>. QED BY <3>3, <3>4, <3>5, <3>8, <3>9
  <2>2. CASE i \notin Packed(lens)
    <3>1. B[i] = Uniform({}, Times) /\ N[i] = Uniform({}, Times)
      BY <2>2 DEF B, N, Back
    <3>2. D[i] = EmptyBag
      <4>1. D[i] = Uniform({}, Times)
        <5>1. D[i] = Uniform(Down(lens, l)[i], Times)
          BY EachOf DEF D
        <5>2. Down(lens, l)[i] = {}
          BY <2>2 DEF Down
        <5>. QED BY <5>1, <5>2
      <4>. QED BY <4>1, UniformEmpty
    <3>3. Through(<<Skip, token[i]>>, Uniform({}, Times)) = Uniform({}, Times)
      <4>1. PICK X : X = {<<Skip, token[i]>>}
        OBVIOUS
      <4>2. Through(<<Skip, token[i]>>, Uniform({}, Times)) = Uniform(Longer(Skip, token[i], {}), Times)
        <5>1. <<Skip, token[i]>> \in X /\ {} \in SUBSET Seq(X)
          BY <4>1
        <5>. QED BY <5>1, ThroughIs
      <4>3. Longer(Skip, token[i], {}) = {}
        BY DEF Longer
      <4>. QED BY <4>2, <4>3
    <3>4. Uniform({}, Times) (+) EmptyBag = Uniform({}, Times)
      BY <2>0, PlusEmpty
    <3>. QED BY <3>1, <3>2, <3>3, <3>4
  <2>. QED BY <2>1, <2>2
<1>12. ASSUME NEW t \in TensorRank PROVE [j \in DOMAIN g[t] |-> own(t, j)] = SplitIfSp(N, t)
  <2>1. g[t] = SplitIfSp(B, t)
    BY DEF g, Spread
  <2>2. PICK m \in Nat, a \in Nat : m = Share(lens) /\ a = Offset(lens, t) /\ \A j \in 1 .. m : a + j \in 1 .. PaddedLength(lens)
    <3>1. t \in Nat
      BY DEF TensorRank
    <3>2. Share(lens) \in Nat /\ Offset(lens, t) \in Nat
      BY <3>1, Shares
    <3>3. \A j \in 1 .. Share(lens) : Offset(lens, t) + j \in 1 .. PaddedLength(lens)
      BY Shares
    <3>. QED BY <3>2, <3>3
  <2>3. /\ SplitIfSp(B, t) = [j \in 1 .. m |-> B[a + j]]
        /\ SplitIfSp(N, t) = [j \in 1 .. m |-> N[a + j]]
        /\ SplitIfSp(D, t) = [j \in 1 .. m |-> D[a + j]]
        /\ SplitIfSp(token, t) = [j \in 1 .. m |-> token[a + j]]
    BY <1>3, <2>2, SplitRows
  <2>4. DOMAIN g[t] = 1 .. m
    BY <2>1, <2>3
  <2>5. ASSUME NEW j \in 1 .. m PROVE own(t, j) = N[a + j]
    <3>1. g[t][j] = B[a + j] /\ SplitIfSp(token, t)[j] = token[a + j] /\ SplitIfSp(AllReduce(heads), t)[j] = D[a + j]
      BY <1>10, <2>1, <2>3
    <3>2. Through(<<Skip, token[a + j]>>, B[a + j]) (+) D[a + j] = N[a + j]
      BY <1>11, <2>2
    <3>. QED BY <3>1, <3>2
  <2>. HIDE DEF own
  <2>. QED BY <2>3, <2>4, <2>5
<1>. HIDE DEF own
<1>13. LayerBackward(lens, g) = Spread(N)
  BY <1>1, <1>12 DEF Spread
<1>. QED BY <1>13 DEF g, B, N

-------------------------------------------------------------------------------
(* The steps                                                                     *)

(* What waits between two stages is received in the order in which it was sent.  *)
LEMMA WaitingIs ==
  ASSUME NEW g, NEW a \in Nat, NEW b \in Nat, a <= b
  PROVE  /\ Waiting(g, a, a) = <<>>
         /\ Append(Waiting(g, a, b), g[b + 1]) = Waiting(g, a, b + 1)
         /\ Waiting(g, a, b) # <<>> => a < b
         /\ a < b => Head(Waiting(g, a, b)) = g[a + 1] /\ Tail(Waiting(g, a, b)) = Waiting(g, a + 1, b)
<1>1. Waiting(g, a, a) = <<>>
  <2>1. a - a = 0
    OBVIOUS
  <2>. QED BY <2>1 DEF Waiting
<1>2. PICK n \in Nat : n = b - a /\ b = a + n
  OBVIOUS
<1>. DEFINE s == [k \in 1 .. n |-> g[a + k]]
            X == {g[a + k] : k \in 1 .. n + 1}
<1>3. Waiting(g, a, b) = s
  BY <1>2 DEF Waiting
<1>4. s \in Seq(X) /\ Len(s) = n /\ \A k \in 1 .. n : s[k] = g[a + k]
  <2>1. \A k \in 1 .. n : k \in 1 .. n + 1 /\ g[a + k] \in X
    OBVIOUS
  <2>. HIDE DEF X
  <2>. QED BY <2>1
<1>5. g[b + 1] \in X
  <2>1. n + 1 \in 1 .. n + 1 /\ a + (n + 1) = b + 1
    BY <1>2
  <2>. QED BY <2>1
<1>6. Waiting(g, a, b + 1) = [k \in 1 .. n + 1 |-> g[a + k]]
  <2>1. (b + 1) - a = n + 1
    BY <1>2
  <2>. QED BY <2>1 DEF Waiting
<1>. HIDE DEF s, X
<1>7. Append(s, g[b + 1]) = [k \in 1 .. n + 1 |-> g[a + k]]
  <2>. DEFINE u == Append(s, g[b + 1])
  <2>1. u \in Seq(X) /\ Len(u) = n + 1 /\ u[n + 1] = g[b + 1] /\ \A k \in 1 .. n : u[k] = s[k]
    BY <1>4, <1>5
  <2>. HIDE DEF u
  <2>2. u = [k \in 1 .. n + 1 |-> u[k]]
    BY <2>1
  <2>3. ASSUME NEW k \in 1 .. n + 1 PROVE u[k] = g[a + k]
    <3>1. CASE k = n + 1
      <4>1. a + k = b + 1
        BY <1>2, <3>1
      <4>. QED BY <2>1, <3>1, <4>1
    <3>2. CASE k # n + 1
      <4>1. k \in 1 .. n
        BY <3>2
      <4>. QED BY <1>4, <2>1, <4>1
    <3>. QED BY <3>1, <3>2
  <2>. QED BY <2>2, <2>3 DEF u
<1>8. s # <<>> => a < b
  <2>1. n = 0 => s = <<>>
    BY <1>4
  <2>. QED BY <1>2, <2>1
<1>9. ASSUME a < b PROVE Head(s) = g[a + 1] /\ Tail(s) = Waiting(g, a + 1, b)
  <2>1. n >= 1 /\ s # <<>> /\ 1 \in 1 .. n
    BY <1>2, <1>4, <1>9
  <2>2. Head(s) = g[a + 1]
    BY <1>4, <2>1
  <2>3. /\ Tail(s) \in Seq(X) /\ Len(Tail(s)) = n - 1
        /\ \A k \in 1 .. n - 1 : Tail(s)[k] = s[k + 1]
    BY <1>4, <2>1
  <2>4. \A k \in 1 .. n - 1 : s[k + 1] = g[(a + 1) + k]
    <3>1. \A k \in 1 .. n - 1 : k + 1 \in 1 .. n /\ a + (k + 1) = (a + 1) + k
      BY <2>1
    <3>. QED BY <1>4, <3>1
  <2>5. Waiting(g, a + 1, b) = [k \in 1 .. n - 1 |-> g[(a + 1) + k]]
    <3>1. b - (a + 1) = n - 1
      BY <1>2
    <3>. QED BY <3>1 DEF Waiting
  <2>6. Tail(s) = [k \in 1 .. n - 1 |-> Tail(s)[k]]
    <3>1. PICK u : u = Tail(s)
      OBVIOUS
    <3>2. u \in Seq(X) /\ Len(u) = n - 1
      BY <2>3, <3>1
    <3>3. u = [k \in 1 .. n - 1 |-> u[k]]
      BY <3>2
    <3>. QED BY <3>1, <3>3
  <2>. QED BY <2>2, <2>3, <2>4, <2>5, <2>6
<1>. QED BY <1>1, <1>3, <1>6, <1>7, <1>8, <1>9

(* The setting and the batch stay, and with them what is sent.                   *)
Kept ==
  /\ T' = T /\ P' = P /\ Sp' = Sp /\ TensorRank' = TensorRank /\ Stage' = Stage
  /\ Outputs' = Outputs /\ \A l \in 0 .. P : Grads(l)' = Grads(l)

LEMMA KeptIs == ASSUME UNCHANGED <<setting, batch>> PROVE Kept
<1>1. T' = T /\ P' = P /\ Sp' = Sp /\ batch' = batch
  BY DEF T, P, Sp
<1>2. TensorRank' = TensorRank /\ Stage' = Stage
  BY <1>1 DEF TensorRank, Stage
<1>3. Outputs' = Outputs
  BY <1>1, <1>2 DEF Outputs, Spread, Reach, SplitIfSp, Split, PaddedLength
<1>4. ASSUME NEW l \in 0 .. P PROVE Grads(l)' = Grads(l)
  BY <1>1, <1>2 DEF Grads, Spread, Back, SplitIfSp, Split, PaddedLength, Times, RoutesFrom
<1>. QED BY <1>1, <1>2, <1>3, <1>4 DEF Kept

LEMMA Starts == Init => Inv
<1>. SUFFICES ASSUME Init PROVE Inv
  OBVIOUS
<1>1. PICK size \in TensorSizes, stages \in PipelineSizes, sp \in BOOLEAN :
        setting = [T |-> size, P |-> stages, sp |-> sp]
  BY DEF Init
<1>2. setting \in [T : Nat \ {0}, P : Nat \ {0}, sp : BOOLEAN]
  <2>1. size \in Nat \ {0} /\ stages \in Nat \ {0}
    BY SizesAssumption
  <2>. QED BY <1>1, <2>1
<1>3. P \in Nat \ {0} /\ Sp \in BOOLEAN
  BY <1>2, SizedIs DEF Sized
<1>4. P - 1 \in Stage /\ 0 \in Stage
  BY <1>3 DEF Stage
<1>5. /\ fwd = [p \in Stage |-> 0] /\ bwd = [p \in Stage |-> 0]
      /\ sent_next = [p \in Stage |-> <<>>] /\ sent_prev = [p \in Stage |-> <<>>]
      /\ sequence_parallel = [p \in Stage |-> Sp] /\ batch \in [1 .. MicroBatches -> Masks]
      /\ logits = <<>> /\ word_grad = <<>>
  BY DEF Init
<1>6. Typed
  <2>1. 0 \in 0 .. MicroBatches
    BY SizesAssumption
  <2>. QED BY <1>2, <1>3, <1>5, <2>1 DEF Typed
<1>7. SentNext
  <2>1. ASSUME NEW p \in 0 .. P - 2
        PROVE  fwd[p + 1] <= fwd[p] /\ sent_next[p] = Waiting(Outputs, fwd[p + 1], fwd[p])
    <3>1. p \in Stage /\ p + 1 \in Stage
      BY <1>3 DEF Stage
    <3>2. fwd[p + 1] = 0 /\ fwd[p] = 0 /\ sent_next[p] = <<>>
      BY <1>5, <3>1
    <3>. QED BY <3>2, WaitingIs
  <2>. QED BY <1>4, <1>5, <2>1 DEF SentNext
<1>8. SentPrev
  <2>1. ASSUME NEW p \in 1 .. P - 1
        PROVE  bwd[p - 1] <= bwd[p] /\ sent_prev[p] = Waiting(Grads(P - p), bwd[p - 1], bwd[p])
    <3>1. p \in Stage /\ p - 1 \in Stage
      BY <1>3 DEF Stage
    <3>2. bwd[p - 1] = 0 /\ bwd[p] = 0 /\ sent_prev[p] = <<>>
      BY <1>5, <3>1
    <3>. QED BY <3>2, WaitingIs
  <2>. QED BY <1>4, <1>5, <2>1 DEF SentPrev
<1>9. Ended
  BY <1>5 DEF Ended
<1>. QED BY <1>6, <1>7, <1>8, <1>9 DEF Inv

(* What a stage runs forward gives what is sent for the micro-batch.             *)
LEMMA ForwardGives ==
  ASSUME Inv, NEW p \in Stage, ForwardStep(p)
  PROVE  LET lens == batch[fwd[p] + 1] IN
         /\ fwd[p] + 1 \in 1 .. MicroBatches /\ lens \in Masks
         /\ Layer(lens, IF p = 0 THEN Embedded(lens) ELSE Received(sent_next[p - 1])) = Outputs[fwd[p] + 1]
         /\ p > 0 => fwd[p] < fwd[p - 1]
<1>. DEFINE lens == batch[fwd[p] + 1]
<1>0. Sized
  BY DEF Inv, Typed, Sized
<1>1. p \in 0 .. P - 1 /\ P \in Nat \ {0} /\ MicroBatches \in Nat
  BY <1>0, SizedIs, SizesAssumption DEF Stage
<1>2. fwd[p] \in 0 .. MicroBatches /\ fwd[p] < MicroBatches
  BY DEF Inv, Typed, ForwardStep
<1>3. fwd[p] + 1 \in 1 .. MicroBatches
  BY <1>1, <1>2
<1>4. lens \in Masks
  BY <1>3 DEF Inv, Typed
<1>5. Outputs[fwd[p] + 1] = Spread(Reach(lens))
  BY <1>3 DEF Outputs
<1>6. p > 0 => fwd[p] < fwd[p - 1] /\ Received(sent_next[p - 1]) = Outputs[fwd[p] + 1]
  <2>1. HAVE p > 0
  <2>2. p - 1 \in 0 .. P - 2 /\ p - 1 \in Stage /\ (p - 1) + 1 = p
    BY <1>1, <2>1 DEF Stage
  <2>3. fwd[p] <= fwd[p - 1] /\ sent_next[p - 1] = Waiting(Outputs, fwd[p], fwd[p - 1]) /\ fwd[p - 1] \in Nat /\ fwd[p] \in Nat
    BY <1>2, <2>2 DEF Inv, Typed, SentNext
  <2>4. sent_next[p - 1] # <<>>
    BY <2>1 DEF ForwardStep
  <2>5. fwd[p] < fwd[p - 1] /\ Head(sent_next[p - 1]) = Outputs[fwd[p] + 1]
    <3>0. PICK g : g = Outputs
      OBVIOUS
    <3>1. PICK a \in Nat, b \in Nat : a = fwd[p] /\ b = fwd[p - 1]
      BY <2>3
    <3>2. a <= b /\ Waiting(g, a, b) # <<>> /\ sent_next[p - 1] = Waiting(g, a, b)
      BY <2>3, <2>4, <3>0, <3>1
    <3>3. a < b /\ Head(Waiting(g, a, b)) = g[a + 1]
      BY <3>2, WaitingIs
    <3>. QED BY <3>0, <3>1, <3>2, <3>3
  <2>. QED BY <2>5 DEF Received
<1>. HIDE DEF lens
<1>7. Layer(lens, IF p = 0 THEN Embedded(lens) ELSE Received(sent_next[p - 1])) = Outputs[fwd[p] + 1]
  <2>1. CASE p = 0
    BY <1>0, <1>4, <1>5, <2>1, LayerSees
  <2>2. CASE p # 0
    <3>1. Received(sent_next[p - 1]) = Spread(Reach(lens))
      BY <1>1, <1>5, <1>6, <2>2
    <3>. QED BY <1>0, <1>4, <1>5, <2>2, <3>1, LayerSees
  <2>. QED BY <2>1, <2>2
<1>. QED BY <1>3, <1>4, <1>6, <1>7 DEF lens

LEMMA ForwardKeeps == ASSUME Inv, NEW p \in Stage, ForwardStep(p) PROVE Inv'
<1>. DEFINE lens == batch[fwd[p] + 1]
            x == Layer(lens, IF p = 0 THEN Embedded(lens) ELSE Received(sent_next[p - 1]))
<1>0. Sized
  BY DEF Inv, Typed, Sized
<1>1. p \in 0 .. P - 1 /\ P \in Nat \ {0} /\ MicroBatches \in Nat /\ 0 \in TensorRank /\ P - 1 \in Stage
  BY <1>0, SizedIs, SizesAssumption DEF Stage, TensorRank
<1>2. UNCHANGED <<setting, batch, bwd, sent_prev, word_grad>> /\ fwd' = [fwd EXCEPT ![p] = @ + 1]
  BY DEF ForwardStep
<1>3. Kept
  BY <1>2, KeptIs
<1>4. /\ fwd[p] + 1 \in 1 .. MicroBatches /\ lens \in Masks /\ x = Outputs[fwd[p] + 1]
      /\ p > 0 => fwd[p] < fwd[p - 1]
  BY ForwardGives
<1>5. /\ fwd \in [Stage -> 0 .. MicroBatches] /\ bwd \in [Stage -> 0 .. MicroBatches]
      /\ \A s \in Stage : bwd[s] <= fwd[s]
  BY DEF Inv, Typed
<1>6. \A s \in Stage : fwd'[s] = (IF s = p THEN fwd[p] + 1 ELSE fwd[s]) /\ fwd[s] \in Nat /\ fwd'[s] \in Nat
  BY <1>1, <1>2, <1>5
<1>7. IF p = P - 1
      THEN /\ PostProcess(lens, x)
           /\ sent_next' = [s \in Stage |-> IF s = p - 1 THEN Tail(sent_next[s]) ELSE sent_next[s]]
      ELSE /\ sent_next' = Passed(sent_next, p, x, p - 1)
           /\ UNCHANGED <<sequence_parallel, logits>>
  BY DEF ForwardStep
<1>. HIDE DEF lens, x
<1>8. Typed'
  <2>1. sequence_parallel' \in [Stage -> BOOLEAN]
    <3>1. sequence_parallel \in [Stage -> BOOLEAN]
      BY DEF Inv, Typed
    <3>2. CASE p = P - 1
      BY <1>7, <3>1, <3>2 DEF PostProcess
    <3>3. CASE p # P - 1
      BY <1>7, <3>1, <3>3
    <3>. QED BY <3>2, <3>3
  <2>2. fwd' \in [Stage -> 0 .. MicroBatches]
    <3>1. fwd[p] + 1 \in 0 .. MicroBatches
      BY <1>4
    <3>. QED BY <1>2, <1>5, <3>1
  <2>3. \A s \in Stage : bwd[s] <= fwd'[s]
    <3>1. \A s \in Stage : bwd[s] \in Nat
      BY <1>5
    <3>. QED BY <1>5, <1>6, <3>1
  <2>4. setting' \in [T : Nat \ {0}, P : Nat \ {0}, sp : BOOLEAN] /\ batch' \in [1 .. MicroBatches -> Masks]
    BY <1>2 DEF Inv, Typed
  <2>. QED BY <1>2, <1>3, <1>5, <2>1, <2>2, <2>3, <2>4 DEF Typed, Kept
<1>9. /\ \A s \in Stage : s = p - 1 => sent_next'[s] = Tail(sent_next[s])
      /\ \A s \in Stage : s = p /\ p # P - 1 => sent_next'[s] = Append(sent_next[s], x)
      /\ \A s \in Stage : s # p - 1 /\ (s = p => p = P - 1) => sent_next'[s] = sent_next[s]
  <2>0. p # p - 1
    BY <1>1
  <2>1. CASE p = P - 1
    BY <1>7, <2>0, <2>1
  <2>2. CASE p # P - 1
    BY <1>7, <2>0, <2>2 DEF Passed
  <2>. QED BY <2>1, <2>2
<1>10. SentNext'
  <2>1. sent_next'[P - 1] = <<>>
    <3>1. P - 1 # p - 1
      BY <1>1
    <3>. QED BY <1>1, <1>9, <3>1 DEF Inv, SentNext
  <2>2. ASSUME NEW s \in 0 .. P - 2
        PROVE  fwd'[s + 1] <= fwd'[s] /\ sent_next'[s] = Waiting(Outputs, fwd'[s + 1], fwd'[s])
    <3>1. s \in Stage /\ s + 1 \in Stage /\ s + 1 # s
      BY <1>1 DEF Stage
    <3>0. PICK g : g = Outputs
      OBVIOUS
    <3>2. PICK a \in Nat, b \in Nat : a = fwd[s + 1] /\ b = fwd[s]
      BY <1>6, <3>1
    <3>3. a <= b /\ sent_next[s] = Waiting(g, a, b)
      BY <3>0, <3>2 DEF Inv, SentNext
    <3>4. CASE s = p - 1
      <4>1. s + 1 = p /\ s # p
        BY <1>1, <3>4
      <4>2. fwd'[s + 1] = a + 1 /\ fwd'[s] = b
        BY <1>6, <3>1, <3>2, <4>1
      <4>3. a < b
        <5>1. p > 0 /\ p - 1 = s
          BY <1>1, <3>4
        <5>. QED BY <1>4, <3>2, <4>1, <5>1
      <4>4. sent_next'[s] = Tail(Waiting(g, a, b))
        BY <1>9, <3>1, <3>3, <3>4
      <4>5. Tail(Waiting(g, a, b)) = Waiting(g, a + 1, b)
        BY <3>3, <4>3, WaitingIs
      <4>6. a + 1 <= b
        BY <4>3
      <4>. QED BY <3>0, <4>2, <4>4, <4>5, <4>6
    <3>5. CASE s = p
      <4>1. s + 1 # p /\ p # P - 1 /\ s # p - 1
        BY <1>1, <3>1, <3>5
      <4>2. fwd'[s + 1] = a /\ fwd'[s] = b + 1
        BY <1>6, <3>1, <3>2, <3>5, <4>1
      <4>3. sent_next'[s] = Append(Waiting(g, a, b), g[b + 1])
        BY <1>4, <1>9, <3>0, <3>1, <3>2, <3>3, <3>5, <4>1
      <4>4. Append(Waiting(g, a, b), g[b + 1]) = Waiting(g, a, b + 1)
        BY <3>3, WaitingIs
      <4>5. a <= b + 1
        BY <3>3
      <4>. QED BY <3>0, <4>2, <4>3, <4>4, <4>5
    <3>6. CASE s # p - 1 /\ s # p
      <4>1. s + 1 # p
        BY <1>1, <3>6
      <4>2. fwd'[s + 1] = a /\ fwd'[s] = b
        BY <1>6, <3>1, <3>2, <3>6, <4>1
      <4>3. sent_next'[s] = sent_next[s]
        BY <1>9, <3>1, <3>6
      <4>. QED BY <3>0, <3>3, <4>2, <4>3
    <3>. QED BY <3>4, <3>5, <3>6
  <2>. QED BY <1>3, <2>1, <2>2 DEF SentNext, Kept
<1>11. SentPrev'
  <2>1. \A s \in 1 .. P - 1 : P - s \in 0 .. P
    BY <1>1
  <2>2. \A s \in 1 .. P - 1 : Grads(P - s)' = Grads(P - s)
    BY <1>3, <2>1 DEF Kept
  <2>. QED BY <1>2, <1>3, <2>2 DEF Inv, SentPrev, Kept
<1>12. Ended'
  <2>1. logits' # <<>> => fwd'[P - 1] > 0 /\ logits' = Seen(batch[fwd'[P - 1]])
    <3>1. CASE p = P - 1
      <4>1. fwd'[P - 1] = fwd[p] + 1 /\ fwd'[P - 1] > 0
        BY <1>1, <1>4, <1>6, <3>1
      <4>2. logits' = Unpacked(lens, x)[0]
        <5>1. sequence_parallel'[P - 1] = FALSE
          <6>1. sequence_parallel \in [Stage -> BOOLEAN]
            BY DEF Inv, Typed
          <6>. QED BY <1>1, <1>7, <3>1, <6>1 DEF PostProcess
        <5>. QED BY <1>7, <3>1, <5>1 DEF PostProcess, Logits
      <4>3. x = Spread(Reach(lens))
        BY <1>4 DEF Outputs, lens
      <4>4. logits' = Seen(lens)
        BY <1>0, <1>4, <4>2, <4>3, UnpackedIs
      <4>. QED BY <4>1, <4>4 DEF lens
    <3>2. CASE p # P - 1
      <4>1. fwd'[P - 1] = fwd[P - 1] /\ logits' = logits
        BY <1>1, <1>6, <1>7, <3>2
      <4>. QED BY <4>1 DEF Inv, Ended
    <3>. QED BY <3>1, <3>2
  <2>2. word_grad' # <<>> => bwd'[0] > 0 /\ word_grad' = [t \in TensorRank |-> Back(batch[bwd[0]], P)]
    BY <1>2 DEF Inv, Ended
  <2>3. (logits # <<>> => fwd[P - 1] > 0 /\ logits = Seen(batch[fwd[P - 1]]))'
    BY <1>2, <1>3, <2>1 DEF Kept, Seen
  <2>4. (word_grad # <<>> => bwd[0] > 0 /\ word_grad = [t \in TensorRank |-> Back(batch[bwd[0]], P)])'
    <3>1. (Back(batch[bwd[0]], P))' = Back(batch[bwd[0]], P)
      BY <1>2, <1>3 DEF Kept, Back, PaddedLength, Times, RoutesFrom
    <3>. QED BY <1>2, <1>3, <2>2, <3>1 DEF Kept
  <2>. QED BY <2>3, <2>4 DEF Ended
<1>. QED BY <1>8, <1>10, <1>11, <1>12 DEF Inv

(* What a stage runs backward gives what is sent for the micro-batch.            *)
LEMMA BackwardGives ==
  ASSUME Inv, NEW p \in Stage, BackwardStep(p)
  PROVE  LET lens == batch[bwd[p] + 1] IN
         /\ bwd[p] + 1 \in 1 .. MicroBatches /\ bwd[p] + 1 <= fwd[p] /\ lens \in Masks
         /\ LayerBackward(lens, IF p = P - 1 THEN HeadBackward(lens) ELSE Received(sent_prev[p + 1]))
              = Spread(Back(lens, P - p))
         /\ p < P - 1 => bwd[p] < bwd[p + 1]
<1>. DEFINE lens == batch[bwd[p] + 1]
<1>0. Sized
  BY DEF Inv, Typed, Sized
<1>1. p \in 0 .. P - 1 /\ P \in Nat \ {0} /\ MicroBatches \in Nat
  BY <1>0, SizedIs, SizesAssumption DEF Stage
<1>2. bwd[p] \in 0 .. MicroBatches /\ fwd[p] \in 0 .. MicroBatches /\ bwd[p] < fwd[p]
  BY DEF Inv, Typed, BackwardStep
<1>3. bwd[p] + 1 \in 1 .. MicroBatches /\ bwd[p] + 1 <= fwd[p]
  BY <1>1, <1>2
<1>4. lens \in Masks
  BY <1>3 DEF Inv, Typed
<1>5. p < P - 1 => bwd[p] < bwd[p + 1] /\ Received(sent_prev[p + 1]) = Spread(Back(lens, (P - 1) - p))
  <2>1. HAVE p < P - 1
  <2>2. p + 1 \in 1 .. P - 1 /\ p + 1 \in Stage /\ (p + 1) - 1 = p /\ P - (p + 1) = (P - 1) - p
    BY <1>1, <2>1 DEF Stage
  <2>3. PICK g : g = Grads((P - 1) - p)
    OBVIOUS
  <2>4. bwd[p + 1] \in Nat /\ bwd[p] \in Nat
    BY <1>2, <2>2 DEF Inv, Typed
  <2>5. PICK a \in Nat, b \in Nat : a = bwd[p] /\ b = bwd[p + 1]
    BY <2>4
  <2>6. a <= b /\ sent_prev[p + 1] = Waiting(g, a, b)
    BY <2>2, <2>3, <2>5 DEF Inv, SentPrev
  <2>7. sent_prev[p + 1] # <<>>
    BY <2>1 DEF BackwardStep
  <2>8. a < b /\ Head(Waiting(g, a, b)) = g[a + 1]
    BY <2>6, <2>7, WaitingIs
  <2>9. g[a + 1] = Spread(Back(lens, (P - 1) - p))
    BY <1>3, <2>3, <2>5 DEF Grads
  <2>. QED BY <2>5, <2>6, <2>8, <2>9 DEF Received
<1>. HIDE DEF lens
<1>6. LayerBackward(lens, IF p = P - 1 THEN HeadBackward(lens) ELSE Received(sent_prev[p + 1])) = Spread(Back(lens, P - p))
  <2>1. (IF p = P - 1 THEN HeadBackward(lens) ELSE Received(sent_prev[p + 1])) = Spread(Back(lens, (P - 1) - p))
    <3>1. CASE p = P - 1
      <4>1. (P - 1) - p = 0
        BY <1>1, <3>1
      <4>. QED BY <1>0, <1>4, <3>1, <4>1, HeadBackwardIs
    <3>2. CASE p # P - 1
      BY <1>1, <1>5, <3>2
    <3>. QED BY <3>1, <3>2
  <2>2. (P - 1) - p \in 0 .. P - 1 /\ ((P - 1) - p) + 1 = P - p
    BY <1>1
  <2>3. LayerBackward(lens, Spread(Back(lens, (P - 1) - p))) = Spread(Back(lens, ((P - 1) - p) + 1))
    BY <1>0, <1>4, <2>2, LayerBackwardIs
  <2>. QED BY <2>1, <2>2, <2>3
<1>. QED BY <1>3, <1>4, <1>5, <1>6 DEF lens

LEMMA BackwardKeeps == ASSUME Inv, NEW p \in Stage, BackwardStep(p) PROVE Inv'
<1>. DEFINE lens == batch[bwd[p] + 1]
            g == LayerBackward(lens, IF p = P - 1 THEN HeadBackward(lens) ELSE Received(sent_prev[p + 1]))
<1>0. Sized
  BY DEF Inv, Typed, Sized
<1>1. p \in 0 .. P - 1 /\ P \in Nat \ {0} /\ MicroBatches \in Nat /\ 0 \in Stage
  BY <1>0, SizedIs, SizesAssumption DEF Stage
<1>2. UNCHANGED <<setting, batch, sequence_parallel, fwd, sent_next, logits>> /\ bwd' = [bwd EXCEPT ![p] = @ + 1]
  BY DEF BackwardStep
<1>3. Kept
  BY <1>2, KeptIs
<1>4. /\ bwd[p] + 1 \in 1 .. MicroBatches /\ bwd[p] + 1 <= fwd[p] /\ lens \in Masks /\ g = Spread(Back(lens, P - p))
      /\ p < P - 1 => bwd[p] < bwd[p + 1]
  BY BackwardGives
<1>5. /\ fwd \in [Stage -> 0 .. MicroBatches] /\ bwd \in [Stage -> 0 .. MicroBatches]
      /\ \A s \in Stage : bwd[s] <= fwd[s]
  BY DEF Inv, Typed
<1>6. \A s \in Stage : bwd'[s] = (IF s = p THEN bwd[p] + 1 ELSE bwd[s]) /\ bwd[s] \in Nat /\ bwd'[s] \in Nat
  BY <1>1, <1>2, <1>5
<1>7. IF p = 0
      THEN /\ word_grad' = EmbeddingBackward(g)
           /\ sent_prev' = [s \in Stage |-> IF s = p + 1 THEN Tail(sent_prev[s]) ELSE sent_prev[s]]
      ELSE /\ sent_prev' = Passed(sent_prev, p, g, p + 1)
           /\ UNCHANGED word_grad
  BY DEF BackwardStep
<1>. HIDE DEF lens, g
<1>8. Typed'
  <2>1. bwd' \in [Stage -> 0 .. MicroBatches]
    <3>1. bwd[p] + 1 \in 0 .. MicroBatches
      BY <1>4
    <3>. QED BY <1>2, <1>5, <3>1
  <2>2. \A s \in Stage : bwd'[s] <= fwd[s]
    BY <1>4, <1>5, <1>6
  <2>3. /\ setting' \in [T : Nat \ {0}, P : Nat \ {0}, sp : BOOLEAN] /\ batch' \in [1 .. MicroBatches -> Masks]
        /\ sequence_parallel' \in [Stage -> BOOLEAN]
    BY <1>2 DEF Inv, Typed
  <2>. QED BY <1>2, <1>3, <1>5, <2>1, <2>2, <2>3 DEF Typed, Kept
<1>9. /\ \A s \in Stage : s = p + 1 => sent_prev'[s] = Tail(sent_prev[s])
      /\ \A s \in Stage : s = p /\ p # 0 => sent_prev'[s] = Append(sent_prev[s], g)
      /\ \A s \in Stage : s # p + 1 /\ (s = p => p = 0) => sent_prev'[s] = sent_prev[s]
  <2>0. p # p + 1
    BY <1>1
  <2>1. CASE p = 0
    BY <1>7, <2>0, <2>1
  <2>2. CASE p # 0
    BY <1>7, <2>0, <2>2 DEF Passed
  <2>. QED BY <2>1, <2>2
<1>10. SentPrev'
  <2>1. sent_prev'[0] = <<>>
    <3>1. 0 # p + 1
      BY <1>1
    <3>. QED BY <1>1, <1>9, <3>1 DEF Inv, SentPrev
  <2>2. ASSUME NEW s \in 1 .. P - 1
        PROVE  bwd'[s - 1] <= bwd'[s] /\ sent_prev'[s] = Waiting(Grads(P - s), bwd'[s - 1], bwd'[s])
    <3>1. s \in Stage /\ s - 1 \in Stage /\ s - 1 # s
      BY <1>1 DEF Stage
    <3>2. PICK G : G = Grads(P - s)
      OBVIOUS
    <3>3. PICK a \in Nat, b \in Nat : a = bwd[s - 1] /\ b = bwd[s]
      BY <1>6, <3>1
    <3>4. a <= b /\ sent_prev[s] = Waiting(G, a, b)
      BY <3>2, <3>3 DEF Inv, SentPrev
    <3>5. CASE s = p + 1
      <4>1. s - 1 = p /\ s # p
        BY <1>1, <3>5
      <4>2. bwd'[s - 1] = a + 1 /\ bwd'[s] = b
        BY <1>6, <3>1, <3>3, <4>1
      <4>3. a < b
        <5>1. p < P - 1 /\ p + 1 = s
          BY <1>1, <3>5
        <5>. QED BY <1>4, <3>3, <4>1, <5>1
      <4>4. sent_prev'[s] = Tail(Waiting(G, a, b))
        BY <1>9, <3>1, <3>4, <3>5
      <4>5. Tail(Waiting(G, a, b)) = Waiting(G, a + 1, b)
        BY <3>4, <4>3, WaitingIs
      <4>6. a + 1 <= b
        BY <4>3
      <4>. QED BY <3>2, <4>2, <4>4, <4>5, <4>6
    <3>6. CASE s = p
      <4>1. s - 1 # p /\ p # 0 /\ s # p + 1
        BY <1>1, <3>1, <3>6
      <4>2. bwd'[s - 1] = a /\ bwd'[s] = b + 1
        BY <1>6, <3>1, <3>3, <3>6, <4>1
      <4>3. G[b + 1] = g
        BY <1>4, <3>2, <3>3, <3>6 DEF Grads, lens
      <4>4. sent_prev'[s] = Append(Waiting(G, a, b), G[b + 1])
        BY <1>9, <3>1, <3>4, <3>6, <4>1, <4>3
      <4>5. Append(Waiting(G, a, b), G[b + 1]) = Waiting(G, a, b + 1)
        BY <3>4, WaitingIs
      <4>6. a <= b + 1
        BY <3>4
      <4>. QED BY <3>2, <4>2, <4>4, <4>5, <4>6
    <3>7. CASE s # p + 1 /\ s # p
      <4>1. s - 1 # p
        BY <1>1, <3>7
      <4>2. bwd'[s - 1] = a /\ bwd'[s] = b
        BY <1>6, <3>1, <3>3, <3>7, <4>1
      <4>3. sent_prev'[s] = sent_prev[s]
        BY <1>9, <3>1, <3>7
      <4>. QED BY <3>2, <3>4, <4>2, <4>3
    <3>. QED BY <3>5, <3>6, <3>7
  <2>3. \A s \in 1 .. P - 1 : P - s \in 0 .. P
    BY <1>1
  <2>4. \A s \in 1 .. P - 1 : Grads(P - s)' = Grads(P - s)
    BY <1>3, <2>3 DEF Kept
  <2>. QED BY <1>3, <2>1, <2>2, <2>4 DEF SentPrev, Kept
<1>11. SentNext'
  BY <1>2, <1>3 DEF Inv, SentNext, Kept
<1>12. Ended'
  <2>1. word_grad' # <<>> => bwd'[0] > 0 /\ word_grad' = [t \in TensorRank |-> Back(batch[bwd'[0]], P)]
    <3>1. CASE p = 0
      <4>1. bwd'[0] = bwd[p] + 1 /\ bwd'[0] > 0
        BY <1>1, <1>4, <1>6, <3>1
      <4>2. g = Spread(Back(lens, P))
        <5>1. P - p = P
          BY <1>1, <3>1
        <5>. QED BY <1>4, <5>1
      <4>3. Long(lens, Back(lens, P))
        BY DEF Long, Back
      <4>4. \A t \in TensorRank : GatherIfSp(g, t) = Back(lens, P)
        BY <1>0, <1>4, <4>2, <4>3, GatherSpread
      <4>5. word_grad' = [t \in TensorRank |-> Back(lens, P)]
        BY <1>7, <3>1, <4>4 DEF EmbeddingBackward
      <4>. QED BY <4>1, <4>5 DEF lens
    <3>2. CASE p # 0
      <4>1. bwd'[0] = bwd[0] /\ word_grad' = word_grad
        BY <1>1, <1>6, <1>7, <3>2
      <4>. QED BY <4>1 DEF Inv, Ended
    <3>. QED BY <3>1, <3>2
  <2>2. (word_grad # <<>> => bwd[0] > 0 /\ word_grad = [t \in TensorRank |-> Back(batch[bwd[0]], P)])'
    <3>1. (Back(batch[bwd[0]], P))' = Back(batch[bwd'[0]], P)
      BY <1>2, <1>3 DEF Kept, Back, PaddedLength, Times, RoutesFrom
    <3>. QED BY <1>2, <1>3, <2>1, <3>1 DEF Kept
  <2>3. (logits # <<>> => fwd[P - 1] > 0 /\ logits = Seen(batch[fwd[P - 1]]))'
    BY <1>2, <1>3 DEF Inv, Ended, Kept, Seen
  <2>. QED BY <2>2, <2>3 DEF Ended
<1>. QED BY <1>8, <1>10, <1>11, <1>12 DEF Inv

LEMMA Steady == Inv /\ [Next]_vars => Inv'
<1>. SUFFICES ASSUME Inv, [Next]_vars PROVE Inv'
  OBVIOUS
<1>1. CASE UNCHANGED vars
  <2>1. UNCHANGED <<setting, batch, sequence_parallel, fwd, bwd, sent_next, sent_prev, logits, word_grad>>
    BY <1>1 DEF vars
  <2>2. Kept
    BY <2>1, KeptIs
  <2>3. Typed' /\ SentNext'
    BY <2>1, <2>2 DEF Inv, Typed, SentNext, Kept
  <2>4. SentPrev'
    <3>1. \A s \in 1 .. P - 1 : P - s \in 0 .. P
      <4>1. P \in Nat \ {0}
        BY SizedIs DEF Inv, Typed, Sized
      <4>. QED BY <4>1
    <3>2. \A s \in 1 .. P - 1 : Grads(P - s)' = Grads(P - s)
      BY <2>2, <3>1 DEF Kept
    <3>. QED BY <2>1, <2>2, <3>2 DEF Inv, SentPrev, Kept
  <2>5. Ended'
    <3>1. (Back(batch[bwd[0]], P))' = Back(batch[bwd[0]], P)
      BY <2>1, <2>2 DEF Kept, Back, PaddedLength, Times, RoutesFrom
    <3>2. (word_grad # <<>> => bwd[0] > 0 /\ word_grad = [t \in TensorRank |-> Back(batch[bwd[0]], P)])'
      BY <2>1, <2>2, <3>1 DEF Inv, Ended, Kept
    <3>3. (logits # <<>> => fwd[P - 1] > 0 /\ logits = Seen(batch[fwd[P - 1]]))'
      BY <2>1, <2>2 DEF Inv, Ended, Kept, Seen
    <3>. QED BY <3>2, <3>3 DEF Ended
  <2>. QED BY <2>3, <2>4, <2>5 DEF Inv
<1>2. ASSUME NEW p \in Stage, ForwardStep(p) PROVE Inv'
  BY <1>2, ForwardKeeps
<1>3. ASSUME NEW p \in Stage, BackwardStep(p) PROVE Inv'
  BY <1>3, BackwardKeeps
<1>4. CASE Finished
  BY <1>1, <1>4 DEF Finished
<1>. QED BY <1>1, <1>2, <1>3, <1>4 DEF Next

(* What waits between two stages is, in order, what the sender computed of the    *)
(* micro-batches the receiver has next, spread over the ranks; the last logits    *)
(* and gradients are those of one device.                                        *)
THEOREM Invariant == Spec => []Inv
<1>1. Init => Inv
  BY Starts
<1>2. Inv /\ [Next]_vars => Inv'
  BY Steady
<1>. QED BY <1>1, <1>2, PTL DEF Spec

-------------------------------------------------------------------------------
(* What every stage and rank can rely on                                         *)

LEMMA SharesAre ==
  ASSUME Inv, NEW n \in 1 .. MicroBatches, NEW R, Long(batch[n], R), NEW t \in TensorRank
  PROVE  Len(Spread(R)[t]) = LocalLength(n)
<1>. DEFINE lens == batch[n]
<1>0. Sized /\ lens \in Masks
  BY DEF Inv, Typed, Sized
<1>1. PICK m \in Nat : m = Share(lens)
  BY <1>0, Shares
<1>2. Spread(R)[t] = [i \in 1 .. m |-> R[Offset(lens, t) + i]]
  BY <1>0, <1>1, SplitRows DEF Spread
<1>3. m = LocalLength(n)
  BY <1>0, <1>1, Padded DEF Share, LocalLength
<1>. QED BY <1>2, <1>3

LEMMA InvTypes == Inv => TypeOK
<1>. SUFFICES ASSUME Inv PROVE TypeOK
  OBVIOUS
<1>0. Sized /\ batch \in [1 .. MicroBatches -> Masks]
  BY DEF Inv, Typed, Sized
<1>1. P \in Nat \ {0} /\ MicroBatches \in Nat /\ Stage = 0 .. P - 1
  BY <1>0, SizedIs, SizesAssumption DEF Stage
<1>2. \A p \in Stage : fwd[p] \in 0 .. MicroBatches /\ bwd[p] \in 0 .. MicroBatches /\ bwd[p] <= fwd[p]
  BY DEF Inv, Typed
<1>3. \A p \in Stage : 0 <= bwd[p] /\ bwd[p] <= fwd[p] /\ fwd[p] <= MicroBatches
  BY <1>2
<1>4. Sp => \A n \in 1 .. MicroBatches : PaddedLength(batch[n]) % T = 0
  BY <1>0, Padded
<1>5. ASSUME NEW p \in Stage, NEW t \in TensorRank, NEW n \in DOMAIN sent_next[p]
      PROVE  Len(sent_next[p][n][t]) = LocalLength(fwd[p + 1] + n)
  <2>1. p # P - 1
    BY <1>5 DEF Inv, SentNext
  <2>2. p \in 0 .. P - 2 /\ p + 1 \in Stage
    BY <1>1, <2>1
  <2>3. sent_next[p] = [k \in 1 .. fwd[p] - fwd[p + 1] |-> Outputs[fwd[p + 1] + k]]
    BY <2>2 DEF Inv, SentNext, Waiting
  <2>4. n \in 1 .. fwd[p] - fwd[p + 1]
    BY <1>5, <2>3
  <2>5. fwd[p + 1] + n \in 1 .. MicroBatches
    BY <1>1, <1>2, <2>2, <2>4
  <2>6. sent_next[p][n] = Spread(Reach(batch[fwd[p + 1] + n]))
    BY <2>3, <2>4, <2>5 DEF Outputs
  <2>7. Long(batch[fwd[p + 1] + n], Reach(batch[fwd[p + 1] + n]))
    BY DEF Long, Reach
  <2>. QED BY <2>5, <2>6, <2>7, SharesAre
<1>6. ASSUME NEW p \in Stage, NEW t \in TensorRank, NEW n \in DOMAIN sent_prev[p]
      PROVE  Len(sent_prev[p][n][t]) = LocalLength(bwd[p - 1] + n)
  <2>1. p # 0
    BY <1>6 DEF Inv, SentPrev
  <2>2. p \in 1 .. P - 1 /\ p - 1 \in Stage
    BY <1>1, <2>1
  <2>3. sent_prev[p] = [k \in 1 .. bwd[p] - bwd[p - 1] |-> Grads(P - p)[bwd[p - 1] + k]]
    BY <2>2 DEF Inv, SentPrev, Waiting
  <2>4. n \in 1 .. bwd[p] - bwd[p - 1]
    BY <1>6, <2>3
  <2>5. bwd[p - 1] + n \in 1 .. MicroBatches
    BY <1>1, <1>2, <2>2, <2>4
  <2>6. sent_prev[p][n] = Spread(Back(batch[bwd[p - 1] + n], P - p))
    BY <2>3, <2>4, <2>5 DEF Grads
  <2>7. Long(batch[bwd[p - 1] + n], Back(batch[bwd[p - 1] + n], P - p))
    BY DEF Long, Back
  <2>. QED BY <2>5, <2>6, <2>7, SharesAre
<1>7. logits # <<>> => Len(logits) = SeqLen
  BY SizesAssumption DEF Inv, Ended, Seen
<1>. QED BY <1>0, <1>3, <1>4, <1>5, <1>6, <1>7 DEF TypeOK

(* Stages send each other tensors of the shape that the receiver, which packs the *)
(* micro-batch by itself, makes room for, and the ranks can divide them.          *)
THEOREM TypeCorrect == Spec => []TypeOK
BY Invariant, InvTypes, PTL

LEMMA InvAlone == Inv => EachSequenceAlone
<1>. SUFFICES ASSUME Inv, logits # <<>>, NEW b \in 1 .. Rows, NEW q \in 1 .. SeqLen
     PROVE    logits[q][b] = IF q <= batch[fwd[P - 1]][b] THEN {<<b, k>> : k \in 1 .. q} ELSE {}
  BY DEF EachSequenceAlone
<1>1. logits = Seen(batch[fwd[P - 1]])
  BY DEF Inv, Ended
<1>. QED BY <1>1 DEF Seen

(* The packed sequences do not see each other, and each sees itself as if alone,  *)
(* whatever their lengths, on any number of ranks and stages.                     *)
THEOREM Alone == Spec => []EachSequenceAlone
BY Invariant, InvAlone, PTL

LEMMA InvGradients == Inv => GradientsFollowAttention
<1>. DEFINE lens == batch[bwd[0]]
            routes == Routes(lens)
            Right(t, i) == LET g == word_grad[t][i]
                           IN  /\ DOMAIN g = routes[i]
                               /\ \E times \in 1 .. T : \A r \in DOMAIN g : g[r] = times
                               /\ ~Sp => \A r \in DOMAIN g : g[r] = 1
<1>. SUFFICES ASSUME Inv, word_grad # <<>>, NEW t \in TensorRank, NEW i \in DOMAIN word_grad[t]
     PROVE    Right(t, i)
  BY DEF GradientsFollowAttention
<1>1. Sized
  BY DEF Inv, Typed, Sized
<1>2. word_grad[t] = Each(lens, Ways(lens, P), Times)
  BY BackIs DEF Inv, Ended
<1>3. routes = Ways(lens, P)
  BY DEF Routes, Ways
<1>4. i \in 1 .. PaddedLength(lens)
  <2>1. DOMAIN Each(lens, Ways(lens, P), Times) = 1 .. PaddedLength(lens)
    BY EachOf
  <2>2. PICK g : g = word_grad[t] /\ i \in DOMAIN g
    OBVIOUS
  <2>. HIDE DEF lens
  <2>. QED BY <1>2, <2>1, <2>2
<1>5. word_grad[t][i] = Uniform(routes[i], Times)
  BY <1>2, <1>3, <1>4, EachOf
<1>6. PICK g : g = word_grad[t][i]
  OBVIOUS
<1>7. DOMAIN g = routes[i] /\ \A r \in DOMAIN g : g[r] = Times
  BY <1>5, <1>6 DEF Uniform
<1>. HIDE DEF routes
<1>. QED BY <1>1, <1>6, <1>7, TimesIs

(* The embeddings get their gradients by the routes there are on one device and   *)
(* by no others, each as often as the others, whatever the lengths of the packed  *)
(* sequences, on any number of ranks and through any number of layers.            *)
THEOREM Gradients == Spec => []GradientsFollowAttention
BY Invariant, InvGradients, PTL
====
