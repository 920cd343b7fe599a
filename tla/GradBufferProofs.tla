--------------------------- MODULE GradBufferProofs ---------------------------
(* GradBuffer, for every number of replicas, parameters, microbatches and         *)
(* iterations, all sizes, with the overlap and the distributed optimizer or       *)
(* without.  First what BufferLayout and OptimizerShards compute: where the       *)
(* parameters are, what the shards, the gathered buckets and the checkpoint hold, *)
(* and what is loaded from it.  Then the safety of the steps: their order, and    *)
(* the data in the buffers - the gradients from the hooks to the average, the     *)
(* parameters and their shards, the checkpoint and the job that loads it.         *)
EXTENDS GradBuffer, FiniteSetTheorems, SequenceTheorems, Arithmetic

Sizes == [Params -> Nat \ {0}]

-------------------------------------------------------------------------------
(* Padding                                                                       *)

(* _pad_if_needed gives the next multiple, and leaves a multiple as it is.       *)
LEMMA Padding ==
  ASSUME NEW c \in Configs, NEW i \in Nat
  PROVE  /\ Pad(c, i) \in Nat /\ Pad(c, i) >= i
         /\ c.distributed => Pad(c, i) % c.dp = 0
         /\ (c.distributed => i % c.dp = 0) => Pad(c, i) = i
<1>0. c.distributed \in BOOLEAN /\ c.dp \in Nat \ {0}
  BY DEF Configs
<1>1. CASE ~c.distributed
  BY <1>1 DEF Pad
<1>2. CASE c.distributed
  <2>. DEFINE d == c.dp
              q == (i + d - 1) \div d
              x == (i + d - 1) % d
  <2>0. i + d - 1 \in Int /\ d \in Nat \ {0} /\ 0 \in 0 .. d - 1 /\ d - 1 \in 0 .. d - 1
    BY <1>0
  <2>1. q \in Int /\ x \in 0 .. d - 1 /\ i + d - 1 = q * d + x
    BY <2>0, Division
  <2>2. Pad(c, i) = q * d
    BY <1>2 DEF Pad, RoundUp
  <2>. HIDE DEF d, q, x
  <2>3. q * d \in Int
    BY <2>0, <2>1
  <2>4. Pad(c, i) \in Nat /\ Pad(c, i) >= i
    BY <2>0, <2>1, <2>2, <2>3
  <2>5. Pad(c, i) % d = 0
    <3>1. (q * d + 0) % d = 0
      BY <2>0, <2>1, DivisionUnique
    <3>. QED BY <2>2, <2>3, <3>1
  <2>6. ASSUME i % d = 0 PROVE Pad(c, i) = i
    <3>. DEFINE k == i \div d
    <3>1. k \in Int /\ i = k * d
      BY <2>0, <2>6, MultipleOf, Division
    <3>. HIDE DEF k
    <3>2. (k * d + (d - 1)) \div d = k
      BY <2>0, <3>1, DivisionUnique
    <3>3. k * d + (d - 1) = i + d - 1
      BY <2>0, <3>1
    <3>4. q = k
      BY <3>2, <3>3 DEF q
    <3>. QED BY <2>2, <3>1, <3>4
  <2>. QED BY <1>2, <2>4, <2>5, <2>6 DEF d
<1>. QED BY <1>0, <1>1, <1>2

-------------------------------------------------------------------------------
(* The first loop                                                                *)

Laying ==
  [range : [Params -> Nat \X Nat \X Nat], indices : Seq(Nat \X Nat),
   first : Nat, count : Nat, end : Nat]

LEMMA PlacedTyped ==
  ASSUME NEW sizes \in Sizes, NEW l \in Laying, NEW v \in Params
  PROVE  Placed(sizes, l, v) \in Laying
<1>1. sizes[v] \in Nat /\ l.end \in Nat /\ Len(l.indices) \in Nat /\ l.count \in Nat
  BY DEF Sizes, Laying
<1>2. <<l.end, l.end + sizes[v], Len(l.indices) + 1>> \in Nat \X Nat \X Nat
  BY <1>1
<1>. DEFINE R == [l.range EXCEPT ![v] = <<l.end, l.end + sizes[v], Len(l.indices) + 1>>]
<1>3. R \in [Params -> Nat \X Nat \X Nat]
  <2>1. l.range \in [Params -> Nat \X Nat \X Nat]
    BY DEF Laying
  <2>. QED BY <1>2, <2>1
<1>4. /\ l.indices \in Seq(Nat \X Nat) /\ l.first \in Nat
      /\ l.count + 1 \in Nat /\ l.end + sizes[v] \in Nat
  BY <1>1 DEF Laying
<1>5. Placed(sizes, l, v) = [range |-> R, indices |-> l.indices, first |-> l.first,
                          count |-> l.count + 1, end |-> l.end + sizes[v]]
  BY DEF Placed
<1>. HIDE DEF R
<1>. QED BY <1>3, <1>4, <1>5 DEF Laying

LEMMA ClosedTyped ==
  ASSUME NEW c \in Configs, NEW l \in Laying
  PROVE  Closed(c, l) \in Laying
<1>1. Pad(c, l.end) \in Nat /\ l.first \in Nat /\ l.indices \in Seq(Nat \X Nat)
  BY Padding DEF Laying
<1>2. Append(l.indices, <<l.first, Pad(c, l.end)>>) \in Seq(Nat \X Nat)
  BY <1>1
<1>. QED BY <1>1, <1>2 DEF Closed, Laying

LEMMA PassTyped ==
  ASSUME NEW c \in Configs, NEW sizes \in Sizes,
         NEW l \in Laying, NEW v \in Params
  PROVE  Pass(c, sizes, l, v) \in Laying
BY PlacedTyped, ClosedTyped DEF Pass

(* Place is the last of the values that the passes give one after the other.     *)
LEMMA Passes ==
  ASSUME NEW c \in Configs, NEW sizes \in Sizes
  PROVE  \E place \in [0 .. N -> Laying] :
           /\ place[0] = Unplaced
           /\ \A j \in 1 .. N : place[j] = Pass(c, sizes, place[j - 1], N + 1 - j)
           /\ Place(c, sizes) = place[N]
<1>. DEFINE G == [j \in 1 .. N |-> [l \in Laying |-> Pass(c, sizes, l, N + 1 - j)]]
<1>0. N \in Nat
  BY ParamsAssumption
<1>1. Unplaced \in Laying
  <2>1. <<0, 0, 0>> \in Nat \X Nat \X Nat /\ <<>> \in Seq(Nat \X Nat)
    OBVIOUS
  <2>. QED BY <2>1 DEF Unplaced, Laying
<1>2. G \in [1 .. N -> [Laying -> Laying]]
  <2>1. ASSUME NEW j \in 1 .. N, NEW l \in Laying PROVE Pass(c, sizes, l, N + 1 - j) \in Laying
    <3>1. N + 1 - j \in Params
      BY <1>0 DEF Params
    <3>. QED BY <3>1, PassTyped
  <2>. QED BY <2>1
<1>. HIDE DEF G
<1>3. PICK f \in [0 .. N -> Laying] : f[0] = Unplaced /\ \A j \in 1 .. N : f[j] = G[j][f[j - 1]]
  <2>1. StepsOf(N, Laying, G)
    BY <1>2 DEF StepsOf
  <2>2. \E f : RecursiveOn(f, N, Laying, Unplaced, G)
    BY <1>0, <1>1, <2>1, Recursion
  <2>. QED BY <2>2 DEF RecursiveOn
<1>4. ASSUME NEW j \in 1 .. N
      PROVE  f[j - 1] \in Laying /\ f[j] = Pass(c, sizes, f[j - 1], N + 1 - j)
  <2>1. j - 1 \in 0 .. N
    BY <1>0
  <2>2. f[j - 1] \in Laying
    BY <2>1
  <2>3. G[j][f[j - 1]] = Pass(c, sizes, f[j - 1], N + 1 - j)
    BY <2>2 DEF G
  <2>. QED BY <1>3, <2>2, <2>3
<1>. DEFINE Loop(g) ==
       [j \in 0 .. N |-> IF j = 0 THEN Unplaced ELSE Pass(c, sizes, g[j - 1], N + 1 - j)]
<1>5. ASSUME NEW g, NEW j \in 1 .. N, g[j - 1] = f[j - 1]
      PROVE  Loop(g)[j] = f[j]
  <2>1. j # 0 /\ j \in 0 .. N
    BY <1>0
  <2>. QED BY <1>4, <1>5, <2>1
<1>6. \A g : Loop(g) = [j \in 0 .. N |-> Loop(g)[j]] /\ Loop(g)[0] = Unplaced
  BY <1>0
<1>7. Place(c, sizes) = (CHOOSE g : g = Loop(g))[N]
  BY DEF Place, Unplaced
<1>. HIDE DEF Loop
<1>8. f = Loop(f)
  <2>1. \A j \in 0 .. N : Loop(f)[j] = f[j]
    <3>1. ASSUME NEW j \in 0 .. N PROVE Loop(f)[j] = f[j]
      <4>1. CASE j = 0
        BY <1>3, <1>6, <4>1
      <4>2. CASE j \in 1 .. N
        BY <1>5, <4>2
      <4>. QED BY <1>0, <4>1, <4>2
    <3>. QED BY <3>1
  <2>2. f = [j \in 0 .. N |-> f[j]]
    OBVIOUS
  <2>. QED BY <1>6, <2>1, <2>2
<1>9. ASSUME NEW g, Loop(g) = g PROVE g = f
  <2>. DEFINE S == {j \in 0 .. N : g[j] = f[j]}
  <2>1. 0 \in S
    <3>1. g[0] = Unplaced /\ f[0] = Unplaced /\ 0 \in 0 .. N
      BY <1>0, <1>3, <1>6, <1>9
    <3>. QED BY <3>1
  <2>2. ASSUME NEW j \in 0 .. N - 1, j \in S PROVE j + 1 \in S
    <3>1. j + 1 \in 1 .. N /\ (j + 1) - 1 = j /\ j + 1 \in 0 .. N
      BY <1>0
    <3>2. Loop(g)[j + 1] = f[j + 1]
      BY <1>5, <2>2, <3>1
    <3>. QED BY <1>9, <3>1, <3>2
  <2>3. 0 .. N \subseteq S
    <3>. HIDE DEF S
    <3>. QED BY <1>0, <2>1, <2>2, InductUpTo
  <2>4. g = [j \in 0 .. N |-> g[j]] /\ f = [j \in 0 .. N |-> f[j]]
    BY <1>6, <1>9
  <2>. QED BY <2>3, <2>4
<1>10. Place(c, sizes) = f[N]
  <2>1. (CHOOSE g : g = Loop(g)) = f
    BY <1>8, <1>9
  <2>. QED BY <1>7, <2>1
<1>. QED BY <1>3, <1>4, <1>10

(* What a pass keeps, S being the parameters placed so far: where the closed     *)
(* buckets and the open one begin and end, that they follow each other, and      *)
(* that a parameter ends where the one placed after it may start.                *)
Fills(index_map, S, b, p, q) ==
  /\ p \in S /\ q \in S /\ index_map[p][3] = b /\ index_map[q][3] = b
  /\ \A x \in S : index_map[x][3] = b =>
       index_map[p][1] <= index_map[x][1] /\ index_map[x][2] <= index_map[q][2]

ClosedFilled(c, l, S) ==
  \A b \in 1 .. Len(l.indices) : \E p, q \in S :
    /\ Fills(l.range, S, b, p, q) /\ p # q
    /\ l.indices[b][1] = l.range[p][1] /\ l.indices[b][2] = Pad(c, l.range[q][2])

OpenFilled(l, S) ==
  IF l.count = 0
    THEN l.end = l.first /\ \A x \in S : l.range[x][3] # Len(l.indices) + 1
    ELSE \E p, q \in S :
           /\ Fills(l.range, S, Len(l.indices) + 1, p, q) /\ (l.count > 1 => p # q)
           /\ l.first = l.range[p][1] /\ l.end = l.range[q][2]

Chained(l) ==
  /\ Len(l.indices) = 0 => l.first = 0
  /\ Len(l.indices) > 0 => (l.indices[1][1] = 0 /\ l.indices[Len(l.indices)][2] = l.first)
  /\ \A b \in 1 .. Len(l.indices) - 1 : l.indices[b][2] = l.indices[b + 1][1]

Placing(sizes, l, S) ==
  /\ \A x \in S : /\ l.range[x][3] \in 1 .. Len(l.indices) + 1
                  /\ l.range[x][2] = l.range[x][1] + sizes[x] /\ l.range[x][2] <= l.end
  /\ \A x, y \in S : x < y => l.range[y][2] <= l.range[x][1]

LaidOut(c, sizes, l, S) ==
  /\ l \in Laying /\ l.first <= l.end
  /\ c.distributed => l.first % c.dp = 0
  /\ ClosedFilled(c, l, S) /\ OpenFilled(l, S) /\ Chained(l) /\ Placing(sizes, l, S)

LEMMA LayingParts ==
  ASSUME NEW l \in Laying
  PROVE  /\ l.first \in Nat /\ l.end \in Nat /\ l.count \in Nat /\ l.indices \in Seq(Nat \X Nat)
         /\ Len(l.indices) \in Nat
         /\ \A x \in Params : l.range[x] \in Nat \X Nat \X Nat
BY DEF Laying

LEMMA PlacedKeeps ==
  ASSUME NEW c \in Configs, NEW sizes \in Sizes, NEW l, NEW S \in SUBSET Params,
         LaidOut(c, sizes, l, S), NEW v \in Params \ S, \A x \in S : v < x
  PROVE  LaidOut(c, sizes, Placed(sizes, l, v), S \cup {v}) /\ Placed(sizes, l, v).count > 0
<1>. DEFINE m == Placed(sizes, l, v)
            T == S \cup {v}
            n == Len(l.indices)
<1>1. l \in Laying /\ m \in Laying /\ sizes[v] \in Nat \ {0}
  BY PlacedTyped DEF LaidOut, Sizes
<1>2. /\ m.indices = l.indices /\ m.first = l.first /\ m.count = l.count + 1
      /\ m.end = l.end + sizes[v]
      /\ m.range[v] = <<l.end, m.end, n + 1>>
      /\ \A x \in S : m.range[x] = l.range[x]
  BY <1>1 DEF Placed, Laying
<1>3. /\ l.first \in Nat /\ l.end \in Nat /\ l.count \in Nat /\ n \in Nat
      /\ \A x \in S : /\ l.range[x][1] \in Nat /\ l.range[x][2] \in Nat /\ l.range[x][3] \in Nat
  BY <1>1, LayingParts
<1>4. m.range[v][1] = l.end /\ m.range[v][2] = m.end /\ m.range[v][3] = n + 1 /\ m.end > l.end
  BY <1>1, <1>2, <1>3
<1>. HIDE DEF m, n
<1>5. Placing(sizes, m, T)
  <2>1. Placing(sizes, l, S)
    BY DEF LaidOut
  <2>2. \A x \in S : l.range[x][3] \in 1 .. n + 1 /\ l.range[x][2] = l.range[x][1] + sizes[x]
                     /\ l.range[x][2] <= l.end /\ l.range[x][2] <= m.end
    BY <1>1, <1>2, <1>3, <1>4, <2>1, SMTT(30) DEF Placing, n
  <2>3. \A x \in T : /\ m.range[x][3] \in 1 .. Len(m.indices) + 1
                     /\ m.range[x][2] = m.range[x][1] + sizes[x] /\ m.range[x][2] <= m.end
    <3>1. ASSUME NEW x \in S PROVE /\ m.range[x][3] \in 1 .. n + 1
                                   /\ m.range[x][2] = m.range[x][1] + sizes[x]
                                   /\ m.range[x][2] <= m.end
      BY <1>2, <2>2
    <3>2. m.range[v][3] \in 1 .. n + 1 /\ m.range[v][2] = m.range[v][1] + sizes[v]
          /\ m.range[v][2] <= m.end
      BY <1>1, <1>2, <1>3, <1>4
    <3>3. Len(m.indices) = n
      BY <1>2 DEF n
    <3>. QED BY <3>1, <3>2, <3>3
  <2>4. ASSUME NEW x \in T, NEW y \in T, x < y PROVE m.range[y][2] <= m.range[x][1]
    <3>1. y # v
      <4>1. v \in Int /\ \A z \in S : z \in Int
        BY DEF Params
      <4>. QED BY <2>4, <4>1
    <3>2. CASE x = v
      BY <1>2, <1>4, <2>2, <3>1, <3>2
    <3>3. CASE x # v
      BY <1>2, <2>1, <2>4, <3>1, <3>3 DEF Placing
    <3>. QED BY <3>2, <3>3
  <2>. QED BY <2>3, <2>4 DEF Placing
<1>6. ClosedFilled(c, m, T)
  <2>1. SUFFICES ASSUME NEW b \in 1 .. n
                 PROVE  \E p, q \in T :
                          /\ Fills(m.range, T, b, p, q) /\ p # q
                          /\ m.indices[b][1] = m.range[p][1]
                          /\ m.indices[b][2] = Pad(c, m.range[q][2])
    BY <1>2 DEF ClosedFilled, n
  <2>2. PICK p \in S, q \in S : /\ Fills(l.range, S, b, p, q) /\ p # q
                                /\ l.indices[b][1] = l.range[p][1]
                                /\ l.indices[b][2] = Pad(c, l.range[q][2])
    BY DEF LaidOut, ClosedFilled, n
  <2>3. m.range[v][3] # b
    BY <1>3, <1>4
  <2>4. Fills(m.range, T, b, p, q)
    BY <1>2, <2>2, <2>3 DEF Fills
  <2>5. m.indices[b][1] = m.range[p][1] /\ m.indices[b][2] = Pad(c, m.range[q][2])
    BY <1>2, <2>2
  <2>. QED BY <2>2, <2>4, <2>5
<1>7. OpenFilled(m, T)
  <2>1. SUFFICES \E p, q \in T :
           /\ Fills(m.range, T, n + 1, p, q) /\ (m.count > 1 => p # q)
           /\ m.first = m.range[p][1] /\ m.end = m.range[q][2]
    <3>1. m.count # 0
      BY <1>2, <1>3
    <3>. QED BY <1>2, <3>1 DEF OpenFilled, n
  <2>2. \A x \in T : m.range[x][2] <= m.range[v][2]
    BY <1>4, <1>5 DEF Placing
  <2>3. CASE l.count = 0
    <3>1. l.end = l.first /\ \A x \in S : l.range[x][3] # n + 1
      BY <2>3 DEF LaidOut, OpenFilled, n
    <3>2. Fills(m.range, T, n + 1, v, v)
      <4>1. \A x \in T : m.range[x][3] = n + 1 => x = v
        BY <1>2, <3>1
      <4>2. m.range[v][1] <= m.range[v][1]
        BY <1>3, <1>4
      <4>. QED BY <1>4, <2>2, <4>1, <4>2 DEF Fills
    <3>3. ~(m.count > 1)
      BY <1>2, <2>3
    <3>. QED BY <1>2, <1>4, <3>1, <3>2, <3>3
  <2>4. CASE l.count # 0
    <3>1. PICK p \in S, q \in S : Fills(l.range, S, n + 1, p, q) /\ l.first = l.range[p][1]
      BY <2>4 DEF LaidOut, OpenFilled, n
    <3>2. \A x \in S : m.range[x][3] = n + 1 => m.range[p][1] <= m.range[x][1]
      BY <1>2, <3>1 DEF Fills
    <3>3. m.range[p][1] <= m.range[v][1]
      <4>1. l.range[p][1] <= l.end
        BY <1>3 DEF LaidOut, Placing, Sizes, n
      <4>. QED BY <1>2, <1>4, <4>1
    <3>4. Fills(m.range, T, n + 1, p, v)
      BY <1>2, <1>4, <2>2, <3>1, <3>2, <3>3 DEF Fills
    <3>. QED BY <1>2, <1>4, <3>1, <3>4
  <2>. QED BY <2>3, <2>4
<1>8. Chained(m) /\ m.first <= m.end /\ (c.distributed => m.first % c.dp = 0) /\ m.count > 0
  <2>1. Chained(m)
    BY <1>2 DEF LaidOut, Chained
  <2>2. l.first <= l.end /\ (c.distributed => l.first % c.dp = 0)
    BY DEF LaidOut
  <2>. QED BY <1>1, <1>2, <1>3, <2>1, <2>2
<1>. QED BY <1>1, <1>5, <1>6, <1>7, <1>8 DEF LaidOut, m

LEMMA ClosedKeeps ==
  ASSUME NEW c \in Configs, NEW sizes \in Sizes, NEW l, NEW S \in SUBSET Params,
         LaidOut(c, sizes, l, S), l.count > 1
  PROVE  LaidOut(c, sizes, Closed(c, l), S)
<1>. DEFINE m == Closed(c, l)
            n == Len(l.indices)
            e == Pad(c, l.end)
<1>1. l \in Laying /\ m \in Laying
  BY ClosedTyped DEF LaidOut
<1>2. /\ l.first \in Nat /\ l.end \in Nat /\ l.count \in Nat /\ n \in Nat
      /\ l.indices \in Seq(Nat \X Nat)
      /\ \A x \in S : /\ l.range[x][1] \in Nat /\ l.range[x][2] \in Nat /\ l.range[x][3] \in Nat
  BY <1>1, LayingParts
<1>3. e \in Nat /\ e >= l.end /\ (c.distributed => e % c.dp = 0)
  BY <1>2, Padding
<1>4. /\ m.range = l.range /\ m.first = e /\ m.count = 0 /\ m.end = e
      /\ m.indices = Append(l.indices, <<l.first, e>>)
  BY DEF Closed
<1>5. /\ Len(m.indices) = n + 1 /\ m.indices[n + 1] = <<l.first, e>>
      /\ \A b \in 1 .. n : m.indices[b] = l.indices[b]
  BY <1>2, <1>4
<1>. HIDE DEF m, n, e
<1>6. PICK p \in S, q \in S : /\ Fills(l.range, S, n + 1, p, q) /\ p # q
                              /\ l.first = l.range[p][1] /\ l.end = l.range[q][2]
  <2>1. l.count # 0
    BY <1>2
  <2>. QED BY <2>1 DEF LaidOut, OpenFilled, n
<1>7. Placing(sizes, l, S)
  BY DEF LaidOut
<1>8. Placing(sizes, m, S)
  <2>1. \A x \in S : l.range[x][3] \in 1 .. (n + 1) + 1 /\ l.range[x][2] <= e
    BY <1>2, <1>3, <1>7, SMTT(30) DEF Placing, n
  <2>. QED BY <1>4, <1>5, <1>7, <2>1 DEF Placing
<1>9. ClosedFilled(c, m, S)
  <2>1. SUFFICES ASSUME NEW b \in 1 .. n + 1
                 PROVE  \E x, y \in S :
                          /\ Fills(m.range, S, b, x, y) /\ x # y
                          /\ m.indices[b][1] = m.range[x][1]
                          /\ m.indices[b][2] = Pad(c, m.range[y][2])
    BY <1>5 DEF ClosedFilled
  <2>2. CASE b = n + 1
    <3>1. m.indices[b][1] = m.range[p][1] /\ m.indices[b][2] = Pad(c, m.range[q][2])
      BY <1>4, <1>5, <1>6, <2>2 DEF e
    <3>. QED BY <1>4, <1>6, <2>2, <3>1
  <2>3. CASE b # n + 1
    <3>1. b \in 1 .. n
      BY <1>2, <2>3
    <3>2. PICK x \in S, y \in S : /\ Fills(l.range, S, b, x, y) /\ x # y
                                  /\ l.indices[b][1] = l.range[x][1]
                                  /\ l.indices[b][2] = Pad(c, l.range[y][2])
      BY <3>1 DEF LaidOut, ClosedFilled, n
    <3>. QED BY <1>4, <1>5, <3>1, <3>2
  <2>. QED BY <2>2, <2>3
<1>10. OpenFilled(m, S)
  <2>1. \A x \in S : l.range[x][3] # (n + 1) + 1
    BY <1>2, <1>7 DEF Placing, n
  <2>. QED BY <1>4, <1>5, <2>1 DEF OpenFilled
<1>11. Chained(m)
  <2>1. m.indices[1][1] = 0
    <3>1. CASE n = 0
      BY <1>5, <3>1 DEF LaidOut, Chained, n
    <3>2. CASE n # 0
      <4>1. 1 \in 1 .. n /\ n > 0
        BY <1>2, <3>2
      <4>. QED BY <1>5, <4>1 DEF LaidOut, Chained, n
    <3>. QED BY <3>1, <3>2
  <2>2. ASSUME NEW b \in 1 .. n PROVE m.indices[b][2] = m.indices[b + 1][1]
    <3>1. CASE b = n
      <4>1. l.indices[n][2] = l.first
        BY <1>2, <3>1 DEF LaidOut, Chained, n
      <4>. QED BY <1>5, <3>1, <4>1
    <3>2. CASE b # n
      <4>1. b \in 1 .. n - 1 /\ b + 1 \in 1 .. n
        BY <1>2, <3>2
      <4>2. l.indices[b][2] = l.indices[b + 1][1]
        BY <4>1 DEF LaidOut, Chained, n
      <4>. QED BY <1>5, <4>1, <4>2
    <3>. QED BY <3>1, <3>2
  <2>3. m.indices[n + 1][2] = m.first
    BY <1>4, <1>5
  <2>4. (n + 1) - 1 = n
    BY <1>2
  <2>5. Len(m.indices) # 0
    BY <1>2, <1>5
  <2>. QED BY <1>5, <2>1, <2>2, <2>3, <2>4, <2>5 DEF Chained
<1>12. m.first <= m.end /\ (c.distributed => m.first % c.dp = 0)
  BY <1>3, <1>4
<1>. QED BY <1>1, <1>8, <1>9, <1>10, <1>11, <1>12 DEF LaidOut, m

LEMMA PassKeeps ==
  ASSUME NEW c \in Configs, NEW sizes \in Sizes, NEW l, NEW S \in SUBSET Params,
         LaidOut(c, sizes, l, S), NEW v \in Params \ S, \A x \in S : v < x
  PROVE  LaidOut(c, sizes, Pass(c, sizes, l, v), S \cup {v})
<1>. DEFINE placed == Placed(sizes, l, v)
<1>1. LaidOut(c, sizes, placed, S \cup {v}) /\ S \cup {v} \in SUBSET Params
  BY PlacedKeeps
<1>. HIDE DEF placed
<1>2. CASE Enough(c, placed.first, placed.end, placed.count)
  <2>1. placed.count > 1
    BY <1>2 DEF Enough
  <2>2. LaidOut(c, sizes, Closed(c, placed), S \cup {v})
    BY <1>1, <2>1, ClosedKeeps
  <2>. QED BY <1>2, <2>2 DEF Pass, placed
<1>3. CASE ~Enough(c, placed.first, placed.end, placed.count)
  BY <1>1, <1>3 DEF Pass, placed
<1>. QED BY <1>2, <1>3

(* The first loop lays out all parameters.                                       *)
LEMMA Filling ==
  ASSUME NEW c \in Configs, NEW sizes \in Sizes
  PROVE  LaidOut(c, sizes, Place(c, sizes), Params)
<1>0. N \in Nat /\ Params = 1 .. N
  BY ParamsAssumption DEF Params
<1>1. PICK place \in [0 .. N -> Laying] :
        /\ place[0] = Unplaced
        /\ \A j \in 1 .. N : place[j] = Pass(c, sizes, place[j - 1], N + 1 - j)
        /\ Place(c, sizes) = place[N]
  BY Passes
<1>. DEFINE S == {j \in 0 .. N : LaidOut(c, sizes, place[j], N + 1 - j .. N)}
<1>2. 0 \in S
  <2>1. N + 1 - 0 .. N = {} /\ 0 \in 0 .. N
    BY <1>0
  <2>2. Unplaced \in Laying
    BY <1>0, <1>1
  <2>3. 0 % c.dp = 0
    <3>1. (0 * c.dp + 0) % c.dp = 0
      BY c.dp \in Nat \ {0}, 0 \in 0 .. c.dp - 1, DivisionUnique DEF Configs
    <3>. QED BY <3>1 DEF Configs
  <2>4. Len(Unplaced.indices) = 0 /\ Unplaced.first = 0 /\ Unplaced.end = 0 /\ Unplaced.count = 0
    BY DEF Unplaced
  <2>5. LaidOut(c, sizes, Unplaced, {})
    BY <2>2, <2>3, <2>4 DEF LaidOut, ClosedFilled, OpenFilled, Chained, Placing
  <2>. QED BY <1>1, <2>1, <2>5
<1>3. ASSUME NEW j \in 0 .. N - 1, j \in S PROVE j + 1 \in S
  <2>. DEFINE v == N + 1 - (j + 1)
              done == N + 1 - j .. N
  <2>1. /\ j + 1 \in 1 .. N /\ (j + 1) - 1 = j /\ j + 1 \in 0 .. N
        /\ v \in Params \ done /\ \A x \in done : v < x
        /\ v .. N = done \cup {v} /\ done \in SUBSET Params
    BY <1>0
  <2>2. LaidOut(c, sizes, place[j], done) /\ place[j + 1] = Pass(c, sizes, place[j], v)
    BY <1>1, <1>3, <2>1
  <2>. HIDE DEF v, done
  <2>3. LaidOut(c, sizes, place[j + 1], v .. N)
    <3>1. v \in Params \ done /\ \A x \in done : v < x
      BY <2>1
    <3>2. LaidOut(c, sizes, Pass(c, sizes, place[j], v), done \cup {v})
      BY <2>1, <2>2, <3>1, PassKeeps
    <3>. QED BY <2>1, <2>2, <3>2
  <2>. QED BY <2>1, <2>3 DEF v
<1>4. 0 .. N \subseteq S
  <2>. HIDE DEF S
  <2>. QED BY <1>0, <1>2, <1>3, InductUpTo
<1>5. N \in 0 .. N /\ N + 1 - N .. N = Params
  BY <1>0
<1>. QED BY <1>1, <1>4, <1>5

-------------------------------------------------------------------------------
(* The buckets                                                                   *)

(* bucket_indices, the last bucket added after the loop included.                *)
Bounds(c, index_map, indices) ==
  /\ indices \in Seq(Nat \X Nat) /\ Len(indices) \in Nat \ {0}
  /\ \A x \in Params : index_map[x][3] \in 1 .. Len(indices)
  /\ \A b \in 1 .. Len(indices) : \E p, q \in Params :
       /\ Fills(index_map, Params, b, p, q) /\ (b + 1 <= Len(indices) => p # q)
       /\ indices[b][1] = index_map[p][1] /\ indices[b][2] = Pad(c, index_map[q][2])
  /\ indices[1][1] = 0
  /\ \A b \in 1 .. Len(indices) - 1 : indices[b][2] = indices[b + 1][1]

LEMMA Bounded ==
  ASSUME NEW c \in Configs, NEW sizes \in Sizes
  PROVE  Bounds(c, Place(c, sizes).range, BucketIndices(c, sizes))
<1>. DEFINE l == Place(c, sizes)
            n == Len(l.indices)
            e == Pad(c, l.end)
<1>1. LaidOut(c, sizes, l, Params)
  BY Filling
<1>. HIDE DEF l
<1>2. /\ l \in Laying /\ l.first \in Nat /\ l.end \in Nat /\ l.count \in Nat
      /\ l.indices \in Seq(Nat \X Nat) /\ n \in Nat
  BY <1>1, LayingParts DEF LaidOut
<1>3. e \in Nat
  BY <1>2, Padding
<1>4. PICK one \in Params : TRUE
  BY ParamsAssumption DEF Params
<1>5. /\ \A x \in Params : l.range[x][3] \in 1 .. n + 1
      /\ ClosedFilled(c, l, Params) /\ OpenFilled(l, Params) /\ Chained(l)
  BY <1>1 DEF LaidOut, Placing
<1>6. CASE l.count = 0
  <2>1. BucketIndices(c, sizes) = l.indices
    BY <1>6 DEF BucketIndices, l
  <2>2. \A x \in Params : l.range[x][3] # n + 1
    BY <1>5, <1>6 DEF OpenFilled
  <2>3. \A x \in Params : l.range[x][3] \in 1 .. n
    BY <1>2, <1>5, <2>2
  <2>4. n # 0
    BY <1>4, <2>3
  <2>5. l.indices[1][1] = 0
    BY <1>2, <1>5, <2>4 DEF Chained
  <2>. QED BY <1>2, <1>5, <2>1, <2>3, <2>4, <2>5 DEF Bounds, ClosedFilled, Chained, l
<1>7. CASE l.count # 0
  <2>. DEFINE ind == Append(l.indices, <<l.first, e>>)
  <2>1. BucketIndices(c, sizes) = ind
    BY <1>2, <1>7 DEF BucketIndices, l
  <2>2. /\ ind \in Seq(Nat \X Nat) /\ Len(ind) = n + 1 /\ ind[n + 1] = <<l.first, e>>
        /\ \A b \in 1 .. n : ind[b] = l.indices[b]
    BY <1>2, <1>3
  <2>. HIDE DEF ind, n
  <2>3. PICK p \in Params, q \in Params : /\ Fills(l.range, Params, n + 1, p, q)
                                          /\ l.first = l.range[p][1] /\ l.end = l.range[q][2]
    BY <1>5, <1>7 DEF OpenFilled, n
  <2>4. ASSUME NEW b \in 1 .. n + 1
        PROVE  \E x, y \in Params :
                 /\ Fills(l.range, Params, b, x, y) /\ (b + 1 <= n + 1 => x # y)
                 /\ ind[b][1] = l.range[x][1] /\ ind[b][2] = Pad(c, l.range[y][2])
    <3>1. CASE b = n + 1
      <4>1. ind[b][1] = l.range[p][1] /\ ind[b][2] = Pad(c, l.range[q][2])
        BY <2>2, <2>3, <3>1 DEF e
      <4>2. ~(b + 1 <= n + 1)
        BY <1>2, <3>1
      <4>. QED BY <2>3, <3>1, <4>1, <4>2
    <3>2. CASE b # n + 1
      <4>1. b \in 1 .. n
        BY <1>2, <3>2
      <4>2. PICK x \in Params, y \in Params :
              /\ Fills(l.range, Params, b, x, y) /\ x # y
              /\ l.indices[b][1] = l.range[x][1] /\ l.indices[b][2] = Pad(c, l.range[y][2])
        BY <1>5, <4>1 DEF ClosedFilled, n
      <4>. QED BY <2>2, <4>1, <4>2
    <3>. QED BY <3>1, <3>2
  <2>5. ind[1][1] = 0
    <3>1. CASE n = 0
      BY <1>5, <2>2, <3>1 DEF Chained, n
    <3>2. CASE n # 0
      <4>1. 1 \in 1 .. n /\ n > 0
        BY <1>2, <3>2
      <4>. QED BY <1>5, <2>2, <4>1 DEF Chained, n
    <3>. QED BY <3>1, <3>2
  <2>6. ASSUME NEW b \in 1 .. n PROVE ind[b][2] = ind[b + 1][1]
    <3>1. CASE b = n
      <4>1. n > 0
        BY <1>2, <3>1
      <4>2. l.indices[n][2] = l.first
        BY <1>5, <4>1 DEF Chained, n
      <4>. QED BY <2>2, <3>1, <4>2
    <3>2. CASE b # n
      <4>1. b \in 1 .. n - 1 /\ b + 1 \in 1 .. n
        BY <1>2, <3>2
      <4>2. l.indices[b][2] = l.indices[b + 1][1]
        BY <1>5, <4>1 DEF Chained, n
      <4>. QED BY <2>2, <4>1, <4>2
    <3>. QED BY <3>1, <3>2
  <2>7. (n + 1) - 1 = n /\ n + 1 \in Nat \ {0}
    BY <1>2
  <2>. QED BY <1>5, <2>1, <2>2, <2>4, <2>5, <2>6, <2>7 DEF Bounds, l
<1>. QED BY <1>6, <1>7

(* A layout in which every parameter has its place: what the rest relies on.     *)
WellLaid(L, sizes) ==
  /\ L.dp \in Nat \ {0} /\ L.distributed \in BOOLEAN
  /\ L.range \in [Params -> Nat \X Nat \X Nat]
  /\ \E n \in Nat \ {0} : DOMAIN L.buckets = 1 .. n
  /\ L.buckets[1].first = 0
  /\ \A b \in DOMAIN L.buckets :
       /\ L.buckets[b] \in [first : Nat, end : Nat, params : SUBSET Params]
       /\ L.buckets[b].params = {p \in Params : L.range[p][3] = b} /\ L.buckets[b].params # {}
       /\ L.buckets[b].first < L.buckets[b].end
       /\ L.distributed => (L.buckets[b].first % L.dp = 0 /\ L.buckets[b].end % L.dp = 0)
       /\ b + 1 \in DOMAIN L.buckets =>
            /\ L.buckets[b + 1].first = L.buckets[b].end
            /\ \E p, q \in L.buckets[b].params : p # q
  /\ \A p \in Params :
       LET bucket == L.buckets[L.range[p][3]]
       IN /\ L.range[p][3] \in DOMAIN L.buckets
          /\ L.range[p][2] = L.range[p][1] + sizes[p]
          /\ bucket.first <= L.range[p][1] /\ L.range[p][2] <= bucket.end
  /\ \A p, q \in Params : p < q => L.range[q][2] <= L.range[p][1]

(* Where a bucket begins it is padded already.                                   *)
LEMMA BoundsPadded ==
  ASSUME NEW c \in Configs, NEW index_map \in [Params -> Nat \X Nat \X Nat],
         NEW indices, Bounds(c, index_map, indices), NEW b \in 1 .. Len(indices)
  PROVE  /\ indices[b][1] \in Nat /\ indices[b][2] \in Nat
         /\ c.distributed => (indices[b][1] % c.dp = 0 /\ indices[b][2] % c.dp = 0)
         /\ Pad(c, indices[b][2]) = indices[b][2]
<1>. DEFINE n == Len(indices)
<1>0. n \in Nat \ {0} /\ indices \in Seq(Nat \X Nat)
  BY DEF Bounds
<1>1. \A a \in 1 .. n : indices[a] \in Nat \X Nat
  BY <1>0
<1>2. ASSUME NEW a \in 1 .. n
      PROVE  indices[a][2] \in Nat /\ (c.distributed => indices[a][2] % c.dp = 0)
  <2>1. PICK q \in Params : indices[a][2] = Pad(c, index_map[q][2])
    BY DEF Bounds
  <2>2. index_map[q][2] \in Nat
    OBVIOUS
  <2>. QED BY <2>1, <2>2, Padding, SMTT(30)
<1>3. c.distributed => indices[b][1] % c.dp = 0
  <2>1. CASE b = 1
    <3>1. (0 * c.dp + 0) % c.dp = 0
      BY c.dp \in Nat \ {0}, 0 \in 0 .. c.dp - 1, DivisionUnique DEF Configs
    <3>2. indices[b][1] = 0
      BY <2>1 DEF Bounds
    <3>. QED BY <3>1, <3>2 DEF Configs
  <2>2. CASE b # 1
    <3>1. b - 1 \in 1 .. n - 1 /\ (b - 1) + 1 = b /\ b - 1 \in 1 .. n
      BY <1>0, <2>2
    <3>2. indices[b - 1][2] = indices[b][1]
      BY <3>1 DEF Bounds
    <3>. QED BY <1>2, <3>1, <3>2
  <2>. QED BY <2>1, <2>2
<1>4. Pad(c, indices[b][2]) = indices[b][2]
  BY <1>2, Padding
<1>. QED BY <1>1, <1>2, <1>3, <1>4

(* The second loop of __init__ finds the ends that the first one has noted.      *)
LEMMA EndsAgree ==
  ASSUME NEW c \in Configs, NEW index_map \in [Params -> Nat \X Nat \X Nat],
         NEW indices, Bounds(c, index_map, indices), NEW b \in 1 .. Len(indices)
  PROVE  BucketEnd(c, index_map, b) = indices[b][2]
<1>. DEFINE n == Len(indices)
            next == {index_map[p][1] : p \in BucketParams(index_map, b + 1)}
            ends == {index_map[p][2] : p \in BucketParams(index_map, b)}
<1>0. n \in Nat \ {0}
  BY DEF Bounds
<1>1. next \subseteq Nat /\ ends \subseteq Nat
  BY DEF BucketParams
<1>2. BucketEnd(c, index_map, b) =
        IF next # {} THEN Pad(c, CHOOSE i \in next : \A j \in next : i <= j)
                     ELSE Pad(c, CHOOSE i \in ends : \A j \in ends : i >= j)
  BY DEF BucketEnd
<1>3. CASE b + 1 <= n
  <2>1. b + 1 \in 1 .. n /\ b \in 1 .. n - 1
    BY <1>0, <1>3
  <2>2. PICK p \in Params, q \in Params : /\ Fills(index_map, Params, b + 1, p, q)
                                          /\ indices[b + 1][1] = index_map[p][1]
    BY <2>1 DEF Bounds
  <2>3. index_map[p][1] \in next /\ \A j \in next : index_map[p][1] <= j
    BY <2>2 DEF Fills, BucketParams
  <2>. HIDE DEF next, ends
  <2>4. (CHOOSE i \in next : \A j \in next : i <= j) = index_map[p][1]
    <3>1. \A i \in next : (\A j \in next : i <= j) => i = index_map[p][1]
      BY <1>1, <2>3
    <3>. QED BY <2>3, <3>1
  <2>5. BucketEnd(c, index_map, b) = Pad(c, index_map[p][1])
    BY <1>2, <2>3, <2>4
  <2>6. index_map[p][1] = indices[b][2]
    BY <2>1, <2>2 DEF Bounds
  <2>. QED BY <2>5, <2>6, BoundsPadded
<1>4. CASE ~(b + 1 <= n)
  <2>1. next = {}
    <3>1. \A p \in Params : index_map[p][3] \in 1 .. n
      BY DEF Bounds
    <3>2. b + 1 \notin 1 .. n
      BY <1>0, <1>4
    <3>. QED BY <3>1, <3>2 DEF BucketParams
  <2>2. PICK p \in Params, q \in Params : /\ Fills(index_map, Params, b, p, q)
                                          /\ indices[b][2] = Pad(c, index_map[q][2])
    BY DEF Bounds
  <2>3. index_map[q][2] \in ends /\ \A j \in ends : index_map[q][2] >= j
    <3>1. \A x \in Params : index_map[x][1] \in Nat /\ index_map[x][2] \in Nat
      OBVIOUS
    <3>. QED BY <2>2, <3>1 DEF Fills, BucketParams
  <2>. HIDE DEF next, ends
  <2>4. (CHOOSE i \in ends : \A j \in ends : i >= j) = index_map[q][2]
    <3>1. \A i \in ends : (\A j \in ends : i >= j) => i = index_map[q][2]
      BY <1>1, <2>3
    <3>. QED BY <2>3, <3>1
  <2>. QED BY <1>2, <2>1, <2>2, <2>4
<1>. QED BY <1>3, <1>4

(* Every layout is sound; its buckets are those of bucket_indices.               *)
LEMMA Laid ==
  ASSUME NEW c \in Configs, NEW sizes \in Sizes
  PROVE  LET L == LayoutOf(c, sizes)
             indices == BucketIndices(c, sizes)
         IN /\ WellLaid(L, sizes)
            /\ L.dp = c.dp /\ L.distributed = c.distributed /\ L.range = Place(c, sizes).range /\ L.buckets = Buckets(c, L.range)
            /\ Len(indices) \in Nat \ {0}
            /\ DOMAIN L.buckets = 1 .. Len(indices)
            /\ \A b \in DOMAIN L.buckets :
                 indices[b] = <<L.buckets[b].first, L.buckets[b].end>>
<1>. DEFINE index_map == Place(c, sizes).range
            indices == BucketIndices(c, sizes)
            built == Buckets(c, index_map)
            n == Len(indices)
            L == LayoutOf(c, sizes)
<1>1. Bounds(c, index_map, indices)
  BY Bounded
<1>2. LaidOut(c, sizes, Place(c, sizes), Params)
  BY Filling
<1>3. index_map \in [Params -> Nat \X Nat \X Nat]
  BY <1>2 DEF LaidOut, Laying
<1>4. L = [dp |-> c.dp, distributed |-> c.distributed, range |-> index_map, buckets |-> built]
  BY DEF LayoutOf
<1>5. L.dp = c.dp /\ L.distributed = c.distributed /\ L.range = index_map /\ L.buckets = built
  BY <1>4
<1>6. /\ \A p \in Params : index_map[p][2] = index_map[p][1] + sizes[p]
      /\ \A p, q \in Params : p < q => index_map[q][2] <= index_map[p][1]
  BY <1>2 DEF LaidOut, Placing
<1>. HIDE DEF index_map, indices, L
<1>7. /\ indices \in Seq(Nat \X Nat) /\ n \in Nat \ {0}
      /\ \A x \in Params : index_map[x][3] \in 1 .. n
      /\ indices[1][1] = 0
      /\ \A b \in 1 .. n - 1 : indices[b][2] = indices[b + 1][1]
  BY <1>1 DEF Bounds
<1>8. DOMAIN built = 1 .. n
  <2>1. {index_map[p][3] : p \in Params} = 1 .. n
    <3>1. ASSUME NEW b \in 1 .. n PROVE b \in {index_map[p][3] : p \in Params}
      <4>1. PICK p \in Params : index_map[p][3] = b
        BY <1>1 DEF Bounds, Fills
      <4>. QED BY <4>1
    <3>. QED BY <1>7, <3>1
  <2>. QED BY <2>1 DEF Buckets
<1>9. ASSUME NEW b \in 1 .. n
      PROVE  built[b] = [first |-> indices[b][1], end |-> indices[b][2],
                           params |-> BucketParams(index_map, b)]
  <2>1. BucketEnd(c, index_map, b) = indices[b][2]
    BY <1>1, <1>3, EndsAgree
  <2>2. (IF b = 1 THEN 0 ELSE BucketEnd(c, index_map, b - 1)) = indices[b][1]
    <3>1. CASE b = 1
      BY <1>7, <3>1
    <3>2. CASE b # 1
      <4>1. b - 1 \in 1 .. n /\ b - 1 \in 1 .. n - 1 /\ (b - 1) + 1 = b
        BY <1>7, <3>2
      <4>2. BucketEnd(c, index_map, b - 1) = indices[b - 1][2]
        BY <1>1, <1>3, <4>1, EndsAgree
      <4>. QED BY <1>7, <3>2, <4>1, <4>2
    <3>. QED BY <3>1, <3>2
  <2>3. b \in {index_map[p][3] : p \in Params}
    BY <1>8 DEF Buckets
  <2>. QED BY <2>1, <2>2, <2>3 DEF Buckets
<1>. HIDE DEF built
<1>10. ASSUME NEW b \in 1 .. n
       PROVE  /\ indices[b] = <<built[b].first, built[b].end>>
              /\ built[b].first = indices[b][1] /\ built[b].end = indices[b][2]
              /\ built[b].params = BucketParams(index_map, b)
              /\ built[b] \in [first : Nat, end : Nat, params : SUBSET Params]
  <2>1. indices[b] \in Nat \X Nat
    BY <1>7
  <2>2. BucketParams(index_map, b) \in SUBSET Params
    BY DEF BucketParams
  <2>3. \A pair \in Nat \X Nat : pair = <<pair[1], pair[2]>> /\ pair[1] \in Nat /\ pair[2] \in Nat
    OBVIOUS
  <2>4. /\ built[b].first = indices[b][1] /\ built[b].end = indices[b][2]
        /\ built[b].params = BucketParams(index_map, b)
    <3>. HIDE DEF n
    <3>. DEFINE rec == [first |-> indices[b][1], end |-> indices[b][2],
                        params |-> BucketParams(index_map, b)]
    <3>1. built[b] = rec
      BY <1>9
    <3>2. /\ rec.first = indices[b][1] /\ rec.end = indices[b][2]
          /\ rec.params = BucketParams(index_map, b)
      OBVIOUS
    <3>. HIDE DEF rec
    <3>. QED BY <3>1, <3>2
  <2>5. indices[b] = <<built[b].first, built[b].end>>
    BY <2>1, <2>3, <2>4
  <2>6. indices[b][1] \in Nat /\ indices[b][2] \in Nat
    BY <2>1, <2>3
  <2>7. built[b] \in [first : Nat, end : Nat, params : SUBSET Params]
    <3>. DEFINE i == indices[b][1]
                j == indices[b][2]
                S == BucketParams(index_map, b)
    <3>1. built[b] = [first |-> i, end |-> j, params |-> S]
      BY <1>9
    <3>. HIDE DEF i, j, S
    <3>. QED BY <2>2, <2>6, <3>1 DEF i, j, S
  <2>. QED BY <2>4, <2>5, <2>7
<1>11. ASSUME NEW p \in Params
       PROVE  LET b == index_map[p][3]
              IN b \in 1 .. n /\ built[b].first <= index_map[p][1] /\ index_map[p][2] <= built[b].end
  <2>. DEFINE b == index_map[p][3]
  <2>1. b \in 1 .. n
    BY <1>7
  <2>2. PICK x \in Params, y \in Params : /\ Fills(index_map, Params, b, x, y)
                                          /\ indices[b][1] = index_map[x][1]
                                          /\ indices[b][2] = Pad(c, index_map[y][2])
    BY <1>1, <2>1 DEF Bounds
  <2>3. index_map[x][1] <= index_map[p][1] /\ index_map[p][2] <= index_map[y][2]
    BY <2>2 DEF Fills
  <2>4. index_map[y][2] \in Nat /\ index_map[p][2] \in Nat
    BY <1>3
  <2>5. Pad(c, index_map[y][2]) \in Nat /\ Pad(c, index_map[y][2]) >= index_map[y][2]
    BY <2>4, Padding
  <2>6. built[b].first = indices[b][1] /\ built[b].end = indices[b][2]
    BY <1>10, <2>1
  <2>. QED BY <2>1, <2>2, <2>3, <2>4, <2>5, <2>6
<1>12. ASSUME NEW b \in 1 .. n
       PROVE  /\ built[b].params = {p \in Params : index_map[p][3] = b} /\ built[b].params # {}
              /\ built[b].first < built[b].end
              /\ c.distributed => (built[b].first % c.dp = 0 /\ built[b].end % c.dp = 0)
              /\ b + 1 \in 1 .. n =>
                   /\ built[b + 1].first = built[b].end
                   /\ \E p, q \in built[b].params : p # q
  <2>1. built[b].params = {p \in Params : index_map[p][3] = b}
    BY <1>10 DEF BucketParams
  <2>2. PICK x \in Params, y \in Params : /\ Fills(index_map, Params, b, x, y)
                                          /\ b + 1 <= n => x # y
    BY <1>1 DEF Bounds
  <2>3. x \in built[b].params /\ y \in built[b].params
    BY <2>1, <2>2 DEF Fills
  <2>4. built[b].first < built[b].end
    <3>1. built[b].first <= index_map[x][1] /\ index_map[x][2] <= built[b].end
      BY <1>11, <2>2 DEF Fills
    <3>2. index_map[x][1] < index_map[x][2] /\ index_map[x][1] \in Nat /\ index_map[x][2] \in Nat
      BY <1>3, <1>6 DEF Sizes
    <3>3. built[b].first \in Nat /\ built[b].end \in Nat
      BY <1>10
    <3>. QED BY <3>1, <3>2, <3>3
  <2>5. c.distributed => (built[b].first % c.dp = 0 /\ built[b].end % c.dp = 0)
    BY <1>1, <1>3, <1>10, BoundsPadded, SMTT(30)
  <2>6. ASSUME b + 1 \in 1 .. n
        PROVE  /\ built[b + 1].first = built[b].end
               /\ \E p, q \in built[b].params : p # q
    <3>1. b \in 1 .. n - 1 /\ b + 1 <= n
      BY <1>7, <2>6
    <3>. QED BY <1>7, <1>10, <2>2, <2>3, <2>6, <3>1
  <2>. QED BY <2>1, <2>3, <2>4, <2>5, <2>6
<1>13. built[1].first = 0
  BY <1>7, <1>10
<1>14. WellLaid(L, sizes)
  <2>1. \E k \in Nat \ {0} : DOMAIN L.buckets = 1 .. k
    BY <1>5, <1>7, <1>8
  <2>2. c.dp \in Nat \ {0} /\ c.distributed \in BOOLEAN
    BY DEF Configs
  <2>3. L.dp \in Nat \ {0} /\ L.distributed \in BOOLEAN
    BY <1>5, <2>2
  <2>4. (L.distributed <=> c.distributed) /\ L.dp = c.dp
    BY <1>5
  <2>5. \A b \in DOMAIN built :
          /\ built[b] \in [first : Nat, end : Nat, params : SUBSET Params]
          /\ built[b].params = {p \in Params : index_map[p][3] = b} /\ built[b].params # {}
          /\ built[b].first < built[b].end
          /\ b + 1 \in DOMAIN built => /\ built[b + 1].first = built[b].end
                                       /\ \E p, q \in built[b].params : p # q
    BY <1>8, <1>10, <1>12
  <2>6. \A b \in DOMAIN built :
          L.distributed => (built[b].first % L.dp = 0 /\ built[b].end % L.dp = 0)
    <3>1. ASSUME NEW b \in DOMAIN built, L.distributed
          PROVE  built[b].first % L.dp = 0 /\ built[b].end % L.dp = 0
      <4>1. built[b].first % c.dp = 0 /\ built[b].end % c.dp = 0
        BY <1>8, <1>12, <2>4, <3>1
      <4>. QED BY <2>4, <4>1
    <3>. QED BY <3>1
  <2>7. \A p \in Params : /\ index_map[p][3] \in DOMAIN built
                          /\ built[index_map[p][3]].first <= index_map[p][1]
                          /\ index_map[p][2] <= built[index_map[p][3]].end
    BY <1>8, <1>11
  <2>8. L.range = index_map /\ L.buckets = built
    BY <1>5
  <2>. HIDE DEF built
  <2>9. \A b \in DOMAIN L.buckets :
          /\ L.buckets[b] \in [first : Nat, end : Nat, params : SUBSET Params]
          /\ L.buckets[b].params = {p \in Params : L.range[p][3] = b} /\ L.buckets[b].params # {}
          /\ L.buckets[b].first < L.buckets[b].end
          /\ L.distributed => (L.buckets[b].first % L.dp = 0 /\ L.buckets[b].end % L.dp = 0)
          /\ b + 1 \in DOMAIN L.buckets =>
               /\ L.buckets[b + 1].first = L.buckets[b].end
               /\ \E p, q \in L.buckets[b].params : p # q
    BY <2>5, <2>6, <2>8
  <2>10. \A p \in Params :
           /\ L.range[p][3] \in DOMAIN L.buckets /\ L.range[p][2] = L.range[p][1] + sizes[p]
           /\ L.buckets[L.range[p][3]].first <= L.range[p][1]
           /\ L.range[p][2] <= L.buckets[L.range[p][3]].end
    BY <1>6, <2>7, <2>8
  <2>11. /\ L.range \in [Params -> Nat \X Nat \X Nat] /\ L.buckets[1].first = 0
         /\ \A p, q \in Params : p < q => L.range[q][2] <= L.range[p][1]
    BY <1>3, <1>6, <1>13, <2>8
  <2>. QED BY <2>1, <2>3, <2>9, <2>10, <2>11 DEF WellLaid
<1>. QED BY <1>5, <1>7, <1>8, <1>10, <1>14 DEF index_map, indices, built, L

(* Numel is a multiple of the number of replicas, and a shard has one of the     *)
(* equal parts.                                                                  *)
LEMMA EqualParts ==
  ASSUME NEW sizes \in Sizes, NEW L, WellLaid(L, sizes), L.distributed,
         NEW b \in DOMAIN L.buckets
  PROVE  /\ LocalNumel(L, b) \in Nat \ {0}
         /\ Numel(L, b) = LocalNumel(L, b) * L.dp
         /\ L.buckets[b].end = L.buckets[b].first + LocalNumel(L, b) * L.dp
<1>. DEFINE first == L.buckets[b].first
            end == L.buckets[b].end
            d == L.dp
<1>1. first \in Nat /\ end \in Nat /\ first < end /\ d \in Nat \ {0}
      /\ first % d = 0 /\ end % d = 0
  BY DEF WellLaid
<1>. HIDE DEF first, end, d
<1>2. PICK i \in Int, j \in Int : first = i * d /\ end = j * d
  <2>1. first = (first \div d) * d /\ end = (end \div d) * d
    BY <1>1, MultipleOf
  <2>2. first \div d \in Int /\ end \div d \in Int
    BY <1>1, Division
  <2>. QED BY <2>1, <2>2
<1>3. end - first = (j - i) * d + 0
  BY <1>1, <1>2
<1>4. (end - first) \div d = j - i
  <2>1. 0 \in 0 .. d - 1 /\ j - i \in Int
    BY <1>1
  <2>. QED BY <1>1, <1>3, <2>1, DivisionUnique
<1>5. i < j
  BY <1>1, <1>2, TimesCancel
<1>6. /\ Numel(L, b) = end - first /\ LocalNumel(L, b) = (end - first) \div d
      /\ L.buckets[b].end = end /\ L.buckets[b].first = first /\ L.dp = d
  BY DEF Numel, LocalNumel, first, end, d
<1>7. j - i \in Nat \ {0} /\ end = first + (j - i) * d
  BY <1>1, <1>2, <1>3, <1>5
<1>. QED BY <1>1, <1>3, <1>4, <1>6, <1>7

(* The shards of a bucket are its elements.                                      *)
LEMMA ShardsCover ==
  ASSUME NEW sizes \in Sizes, NEW L, WellLaid(L, sizes), L.distributed,
         NEW b \in DOMAIN L.buckets
  PROVE  BucketElements(L.buckets[b]) = UNION {ShardElements(L.dp, L.buckets[b], r) : r \in 1 .. L.dp}
<1>. DEFINE first == L.buckets[b].first
            n == LocalNumel(L, b)
            d == L.dp
<1>1. first \in Nat /\ d \in Nat \ {0}
  BY DEF WellLaid
<1>2. n \in Nat \ {0} /\ L.buckets[b].end = first + n * d
  BY EqualParts
<1>3. BucketElements(L.buckets[b]) = first .. first + n * d - 1
  <2>1. BucketElements(L.buckets[b]) = first .. L.buckets[b].end - 1
    BY DEF BucketElements
  <2>. HIDE DEF first, n, d
  <2>. QED BY <1>1, <1>2, <2>1
<1>4. \A r : ShardElements(d, L.buckets[b], r) = first + (r - 1) * n .. first + r * n - 1
  BY DEF ShardElements, LocalNumel, Numel
<1>. HIDE DEF first, n, d
<1>5. ASSUME NEW r \in 1 .. d
      PROVE  /\ (r - 1) * n \in Nat /\ r * n \in Nat /\ r * n <= n * d
             /\ (r - 1) * n + n = r * n
  <2>1. r * n <= d * n
    BY <1>1, <1>2, TimesMonotonic
  <2>2. (r - 1) * n \in Nat /\ r * n \in Nat /\ d * n = n * d /\ (r - 1) * n + n = r * n
    BY <1>1, <1>2
  <2>. QED BY <2>1, <2>2
<1>6. n * d \in Nat
  BY <1>1, <1>2
<1>7. ASSUME NEW e \in first .. first + n * d - 1
      PROVE  \E r \in 1 .. d : e \in first + (r - 1) * n .. first + r * n - 1
  <2>. DEFINE a == e - first
              q == a \div n
              x == a % n
  <2>1. a \in 0 .. d * n - 1 /\ a \in Int /\ d * n = n * d
    BY <1>1, <1>2, <1>6
  <2>2. q \in Int /\ x \in 0 .. n - 1 /\ a = q * n + x
    BY <1>2, <2>1, Division
  <2>3. q \in 0 .. d - 1
    BY <1>1, <1>2, <2>1, QuotientBounds
  <2>. HIDE DEF q, x
  <2>4. q + 1 \in 1 .. d /\ (q + 1) - 1 = q /\ (q + 1) * n = q * n + n /\ q * n \in Int
    BY <1>1, <1>2, <2>3
  <2>5. e = first + q * n + x
    BY <1>1, <2>1, <2>2, <2>4
  <2>6. e \in first + q * n .. first + (q + 1) * n - 1
    BY <1>1, <1>2, <2>2, <2>4, <2>5
  <2>. QED BY <2>4, <2>6
<1>8. ASSUME NEW r \in 1 .. d, NEW e \in first + (r - 1) * n .. first + r * n - 1
      PROVE  e \in first .. first + n * d - 1
  BY <1>1, <1>2, <1>5, <1>6
<1>9. first .. first + n * d - 1 = UNION {first + (r - 1) * n .. first + r * n - 1 : r \in 1 .. d}
  BY <1>7, <1>8
<1>10. L.dp = d
  BY DEF d
<1>. QED BY <1>3, <1>4, <1>9, <1>10, ZenonT(60)

(* A parameter has its elements to itself, in its bucket.                        *)
LEMMA OwnElements ==
  ASSUME NEW sizes \in Sizes, NEW L, WellLaid(L, sizes), NEW p \in Params
  PROVE  /\ IsFiniteSet(ParamElements(L.range, p))
         /\ Cardinality(ParamElements(L.range, p)) = sizes[p]
         /\ ParamElements(L.range, p) \subseteq BucketElements(L.buckets[L.range[p][3]])
         /\ \A q \in Params \ {p} : ParamElements(L.range, p) \cap ParamElements(L.range, q) = {}
<1>1. /\ \A q \in Params : L.range[q][1] \in Nat /\ L.range[q][2] \in Nat
      /\ L.range[p][2] = L.range[p][1] + sizes[p] /\ sizes[p] \in Nat \ {0}
  BY DEF WellLaid, Sizes
<1>2. IsFiniteSet(ParamElements(L.range, p)) /\ Cardinality(ParamElements(L.range, p)) = sizes[p]
  <2>. DEFINE i == L.range[p][1]
              j == L.range[p][2] - 1
  <2>1. i \in Int /\ j \in Int /\ i <= j /\ j - i + 1 = sizes[p]
    BY <1>1
  <2>2. ParamElements(L.range, p) = i .. j
    BY DEF ParamElements
  <2>. HIDE DEF i, j
  <2>3. IsFiniteSet(i .. j) /\ Cardinality(i .. j) = j - i + 1
    BY <2>1, FS_Interval
  <2>. QED BY <2>1, <2>2, <2>3
<1>3. ParamElements(L.range, p) \subseteq BucketElements(L.buckets[L.range[p][3]])
  <2>. DEFINE bucket == L.buckets[L.range[p][3]]
  <2>1. bucket.first <= L.range[p][1] /\ L.range[p][2] <= bucket.end
        /\ bucket.first \in Nat /\ bucket.end \in Nat
    BY DEF WellLaid
  <2>. DEFINE from == L.range[p][1]
              to == L.range[p][2]
  <2>2. /\ from \in Nat /\ to \in Nat /\ bucket.first \in Nat /\ bucket.end \in Nat
        /\ bucket.first <= from /\ to <= bucket.end
    BY <1>1, <2>1
  <2>3. ParamElements(L.range, p) = from .. to - 1 /\ BucketElements(bucket) = bucket.first .. bucket.end - 1
    BY DEF ParamElements, BucketElements
  <2>4. \A x \in from .. to - 1 : x \in bucket.first .. bucket.end - 1
    <3>. HIDE DEF from, to, bucket
    <3>. QED BY <2>2
  <2>. QED BY <2>3, <2>4
<1>4. ASSUME NEW q \in Params \ {p}
      PROVE  ParamElements(L.range, p) \cap ParamElements(L.range, q) = {}
  <2>1. p < q \/ q < p
    BY DEF Params
  <2>2. L.range[q][2] <= L.range[p][1] \/ L.range[p][2] <= L.range[q][1]
    BY <2>1 DEF WellLaid
  <2>. QED BY <1>1, <2>2 DEF ParamElements
<1>. QED BY <1>2, <1>3, <1>4

-------------------------------------------------------------------------------
(* Sequences                                                                     *)

(* What Selected selects.                                                        *)
LEMMA SelectedElements ==
  ASSUME NEW X, NEW s \in Seq(X), NEW S
  PROVE  Selected(s, S) \in Seq(X) /\ ToSet(Selected(s, S)) = ToSet(s) \cap S
<1>. DEFINE n == Len(s)
            T == Seq(X)
            G == [i \in 1 .. n |-> [x \in T |-> IF s[i] \in S THEN Append(x, s[i]) ELSE x]]
<1>1. n \in Nat /\ DOMAIN s = 1 .. n /\ \A i \in 1 .. n : s[i] \in X
  OBVIOUS
<1>2. <<>> \in T
  OBVIOUS
<1>3. ASSUME NEW i \in 1 .. n, NEW x \in T
      PROVE  (IF s[i] \in S THEN Append(x, s[i]) ELSE x) \in T
  BY <1>1
<1>. HIDE DEF T
<1>4. StepsOf(n, T, G)
  BY <1>3 DEF StepsOf
<1>. HIDE DEF n
<1>5. PICK f : RecursiveOn(f, n, T, <<>>, G)
  BY <1>1, <1>2, <1>4, Recursion
<1>6. /\ f \in [0 .. n -> T] /\ f[0] = <<>>
      /\ \A i \in 1 .. n : /\ f[i - 1] \in T
                           /\ f[i] = IF s[i] \in S THEN Append(f[i - 1], s[i]) ELSE f[i - 1]
  <2>1. f \in [0 .. n -> T] /\ f[0] = <<>> /\ \A i \in 1 .. n : f[i] = G[i][f[i - 1]]
    BY <1>5 DEF RecursiveOn
  <2>2. \A i \in 1 .. n : i - 1 \in 0 .. n
    BY <1>1
  <2>. QED BY <2>1, <2>2
<1>. HIDE DEF G
<1>. DEFINE Loop(g) == [i \in 0 .. n |-> IF i = 0 THEN <<>>
                          ELSE IF s[i] \in S THEN Append(g[i - 1], s[i]) ELSE g[i - 1]]
<1>7. Selected(s, S) = (CHOOSE g : g = Loop(g))[n]
  BY DEF Selected, n
<1>8. \A g : /\ Loop(g) = [i \in 0 .. n |-> Loop(g)[i]] /\ Loop(g)[0] = <<>>
             /\ \A i \in 1 .. n : Loop(g)[i] = IF s[i] \in S THEN Append(g[i - 1], s[i]) ELSE g[i - 1]
  BY <1>1
<1>. HIDE DEF Loop
<1>9. Loop(f) = f
  <2>1. \A i \in 1 .. n : Loop(f)[i - 1] = f[i - 1] => Loop(f)[i] = f[i]
    BY <1>6, <1>8
  <2>2. UpTo(n, f) /\ Loop(f)[0] = f[0] /\ UpTo(n, Loop(f))
    BY <1>6, <1>8 DEF UpTo
  <2>. QED BY <1>1, <2>1, <2>2, RecursionUnique DEF SameSteps
<1>10. ASSUME NEW g, Loop(g) = g PROVE g = f
  <2>1. \A i \in 1 .. n : g[i - 1] = f[i - 1] => g[i] = f[i]
    BY <1>6, <1>8, <1>10
  <2>2. UpTo(n, f) /\ g[0] = f[0] /\ UpTo(n, g)
    BY <1>6, <1>8, <1>10 DEF UpTo
  <2>. QED BY <1>1, <2>1, <2>2, RecursionUnique DEF SameSteps
<1>11. Selected(s, S) = f[n]
  <2>1. (CHOOSE g : g = Loop(g)) = f
    BY <1>9, <1>10
  <2>. QED BY <1>7, <2>1
<1>. DEFINE J == {i \in 0 .. n : ToSet(f[i]) = {s[j] : j \in 1 .. i} \cap S}
<1>12. 0 \in J
  <2>1. ToSet(f[0]) = {} /\ 1 .. 0 = {}
    BY <1>6 DEF ToSet
  <2>. QED BY <1>1, <2>1
<1>13. ASSUME NEW i \in 0 .. n - 1, i \in J PROVE i + 1 \in J
  <2>1. i + 1 \in 1 .. n /\ (i + 1) - 1 = i /\ i + 1 \in 0 .. n
    BY <1>1
  <2>2. f[i] \in Seq(X) /\ f[i + 1] = IF s[i + 1] \in S THEN Append(f[i], s[i + 1]) ELSE f[i]
    BY <1>6, <2>1 DEF T
  <2>3. {s[j] : j \in 1 .. i + 1} = {s[j] : j \in 1 .. i} \cup {s[i + 1]}
    <3>1. 1 .. i + 1 = (1 .. i) \cup {i + 1}
      BY <2>1
    <3>. QED BY <3>1
  <2>4. ToSet(f[i]) = {s[j] : j \in 1 .. i} \cap S
    BY <1>13
  <2>5. CASE s[i + 1] \in S
    <3>1. f[i + 1] = Append(f[i], s[i + 1]) /\ s[i + 1] \in X
      BY <1>1, <2>1, <2>2, <2>5
    <3>2. /\ DOMAIN f[i + 1] = (DOMAIN f[i]) \cup {Len(f[i]) + 1}
          /\ f[i + 1][Len(f[i]) + 1] = s[i + 1] /\ Len(f[i]) + 1 \notin DOMAIN f[i]
          /\ \A k \in DOMAIN f[i] : f[i + 1][k] = f[i][k]
      BY <2>2, <3>1, SMTT(30)
    <3>3. ToSet(f[i + 1]) = ToSet(f[i]) \cup {s[i + 1]}
      BY <3>2 DEF ToSet
    <3>. QED BY <2>1, <2>3, <2>4, <2>5, <3>3
  <2>6. CASE s[i + 1] \notin S
    BY <2>1, <2>2, <2>3, <2>4, <2>6
  <2>. QED BY <2>5, <2>6
<1>14. 0 .. n \subseteq J
  <2>. HIDE DEF J
  <2>. QED BY <1>1, <1>12, <1>13, InductUpTo
<1>15. ToSet(s) = {s[j] : j \in 1 .. n} /\ n \in 0 .. n
  BY <1>1 DEF ToSet
<1>. QED BY <1>6, <1>11, <1>14, <1>15 DEF T

(* FlattenSeq appends one sequence after the other.                              *)
Sequences(ss, n, X) == ss \in [1 .. n -> Seq(X)]

Flattens(f, ss, n, X) ==
  /\ f \in [0 .. n -> Seq(X)] /\ f[0] = <<>> /\ FlattenSeq(ss) = f[n]
  /\ \A j \in 0 .. n - 1 : f[j + 1] = f[j] \o ss[j + 1]

LEMMA FlattenSteps ==
  ASSUME NEW X, NEW n \in Nat \ {0}, NEW ss, Sequences(ss, n, X)
  PROVE  \E f : Flattens(f, ss, n, X)
<1>0. ss \in [1 .. n -> Seq(X)]
  BY DEF Sequences
<1>. DEFINE T == Seq(X)
            G == [j \in 1 .. n |-> [x \in T |-> x \o ss[j]]]
<1>1. <<>> \in T /\ \A j \in 1 .. n : \A x \in T : x \o ss[j] \in T
  BY <1>0
<1>2. n \in Nat /\ Len(ss) = n
  <2>1. ss \in Seq(T)
    BY <1>0, SeqDef
  <2>2. Len(ss) \in Nat /\ 1 .. Len(ss) = 1 .. n
    BY <1>0, <2>1, LenProperties
  <2>3. n \in 1 .. Len(ss) /\ n + 1 \notin 1 .. Len(ss)
    BY <2>2
  <2>. QED BY <2>2, <2>3
<1>. HIDE DEF T
<1>3. StepsOf(n, T, G)
  BY <1>1 DEF StepsOf
<1>4. PICK f : RecursiveOn(f, n, T, <<>>, G)
  BY <1>1, <1>2, <1>3, Recursion
<1>5. /\ f \in [0 .. n -> T] /\ f[0] = <<>>
      /\ \A j \in 1 .. n : f[j - 1] \in T /\ f[j] = f[j - 1] \o ss[j]
  <2>1. f \in [0 .. n -> T] /\ f[0] = <<>> /\ \A j \in 1 .. n : f[j] = G[j][f[j - 1]]
    BY <1>4 DEF RecursiveOn
  <2>2. \A j \in 1 .. n : j - 1 \in 0 .. n
    BY <1>2
  <2>. QED BY <2>1, <2>2
<1>. HIDE DEF G
<1>. DEFINE Loop(g) == [j \in 1 .. n |-> IF j = 1 THEN ss[j] ELSE g[j - 1] \o ss[j]]
<1>6. FlattenSeq(ss) = (CHOOSE g : g = Loop(g))[n]
  <2>1. Len(ss) # 0
    BY <1>2
  <2>2. FlattenSeq(ss) = (CHOOSE g : g = [j \in 1 .. Len(ss) |->
                            IF j = 1 THEN ss[j] ELSE g[j - 1] \o ss[j]])[Len(ss)]
    BY <2>1 DEF FlattenSeq
  <2>. QED BY <1>2, <2>2
<1>7. \A g : /\ [j \in 1 .. n |-> Loop(g)[j]] = Loop(g) /\ Loop(g)[1] = ss[1]
             /\ \A j \in 1 .. n : j # 1 => Loop(g)[j] = g[j - 1] \o ss[j]
  BY <1>2
<1>. HIDE DEF Loop
<1>8. f[1] = ss[1]
  <2>1. 1 \in 1 .. n /\ 1 - 1 = 0
    BY <1>2
  <2>2. f[1] = <<>> \o ss[1]
    BY <1>5, <2>1
  <2>3. ss[1] \in Seq(X)
    BY <1>0, <2>1
  <2>. QED BY <2>2, <2>3, ConcatEmptySeq
<1>. DEFINE from == [j \in 1 .. n |-> f[j]]
<1>9. from = Loop(from)
  <2>1. \A j \in 1 .. n : from[j] = Loop(from)[j]
    <3>1. ASSUME NEW j \in 1 .. n PROVE from[j] = Loop(from)[j]
      <4>1. CASE j = 1
        BY <1>2, <1>7, <1>8, <4>1
      <4>2. CASE j # 1
        <5>1. j - 1 \in 1 .. n
          BY <1>2, <4>2
        <5>2. from[j] = f[j] /\ from[j - 1] = f[j - 1]
          BY <5>1
        <5>. HIDE DEF from
        <5>. QED BY <1>5, <1>7, <4>2, <5>1, <5>2
      <4>. QED BY <4>1, <4>2
    <3>. QED BY <3>1
  <2>2. [j \in 1 .. n |-> from[j]] = from
    OBVIOUS
  <2>. QED BY <1>7, <2>1, <2>2
<1>10. ASSUME NEW g, Loop(g) = g PROVE g = from
  <2>. DEFINE h == [j \in 0 .. n |-> IF j = 0 THEN <<>> ELSE g[j]]
  <2>1. h[0] = f[0] /\ UpTo(n, h) /\ UpTo(n, f)
    BY <1>2, <1>5 DEF UpTo
  <2>2. ASSUME NEW j \in 1 .. n, h[j - 1] = f[j - 1] PROVE h[j] = f[j]
    <3>1. h[j] = g[j] /\ j # 0
      BY <1>2
    <3>2. CASE j = 1
      BY <1>7, <1>8, <1>10, <3>1, <3>2
    <3>3. CASE j # 1
      <4>1. j - 1 # 0 /\ j - 1 \in 0 .. n
        BY <1>2, <3>3
      <4>2. h[j - 1] = g[j - 1]
        BY <4>1
      <4>3. g[j] = g[j - 1] \o ss[j]
        BY <1>7, <1>10, <3>3
      <4>. QED BY <1>5, <2>2, <3>1, <4>2, <4>3
    <3>. QED BY <3>2, <3>3
  <2>3. h = f
    <3>. HIDE DEF h
    <3>. QED BY <1>2, <2>1, <2>2, RecursionUnique DEF SameSteps
  <2>4. \A j \in 1 .. n : g[j] = f[j]
    <3>1. \A j \in 1 .. n : h[j] = g[j]
      BY <1>2
    <3>. QED BY <2>3, <3>1
  <2>5. [j \in 1 .. n |-> g[j]] = g
    BY <1>7, <1>10
  <2>. QED BY <2>4, <2>5
<1>11. FlattenSeq(ss) = f[n]
  <2>1. (CHOOSE g : g = Loop(g)) = from
    BY <1>9, <1>10
  <2>2. n \in 1 .. n
    BY <1>2
  <2>. QED BY <1>6, <2>1, <2>2
<1>12. ASSUME NEW j \in 0 .. n - 1 PROVE f[j + 1] = f[j] \o ss[j + 1]
  <2>1. j + 1 \in 1 .. n /\ (j + 1) - 1 = j
    BY <1>2
  <2>. QED BY <1>5, <2>1
<1>. QED BY <1>5, <1>11, <1>12 DEF T, Flattens

(* It has the elements of all of them.                                           *)
LEMMA FlattenElements ==
  ASSUME NEW X, NEW n \in Nat \ {0}, NEW ss, Sequences(ss, n, X)
  PROVE  /\ FlattenSeq(ss) \in Seq(X)
         /\ ToSet(FlattenSeq(ss)) = UNION {ToSet(ss[j]) : j \in 1 .. n}
<1>0. PICK f : Flattens(f, ss, n, X)
  BY FlattenSteps
<1>1. /\ f \in [0 .. n -> Seq(X)] /\ f[0] = <<>> /\ FlattenSeq(ss) = f[n]
      /\ \A j \in 0 .. n - 1 : /\ f[j + 1] = f[j] \o ss[j + 1]
                               /\ f[j] \in Seq(X) /\ ss[j + 1] \in Seq(X)
  <2>1. \A j \in 0 .. n - 1 : j \in 0 .. n /\ j + 1 \in 1 .. n
    OBVIOUS
  <2>. QED BY <1>0, <2>1 DEF Flattens, Sequences
<1>. DEFINE J == {j \in 0 .. n : ToSet(f[j]) = UNION {ToSet(ss[i]) : i \in 1 .. j}}
<1>2. 0 \in J
  <2>1. ToSet(f[0]) = {} /\ 1 .. 0 = {}
    BY <1>1 DEF ToSet
  <2>. QED BY <2>1
<1>3. ASSUME NEW j \in 0 .. n - 1, j \in J PROVE j + 1 \in J
  <2>1. j + 1 \in 1 .. n /\ (j + 1) - 1 = j /\ j + 1 \in 0 .. n
    OBVIOUS
  <2>2. f[j] \in Seq(X) /\ ss[j + 1] \in Seq(X) /\ f[j + 1] = f[j] \o ss[j + 1]
    BY <1>1, <2>1
  <2>3. ToSet(f[j + 1]) = ToSet(f[j]) \cup ToSet(ss[j + 1])
    <3>. DEFINE a == f[j]
                c == ss[j + 1]
    <3>0. a \in Seq(X) /\ c \in Seq(X)
      BY <2>2
    <3>. HIDE DEF a, c
    <3>1. /\ DOMAIN a = 1 .. Len(a) /\ DOMAIN c = 1 .. Len(c) /\ Len(a) \in Nat /\ Len(c) \in Nat
          /\ DOMAIN (a \o c) = 1 .. Len(a) + Len(c)
          /\ \A i \in 1 .. Len(a) + Len(c) :
               (a \o c)[i] = IF i <= Len(a) THEN a[i] ELSE c[i - Len(a)]
      BY <3>0
    <3>2. ASSUME NEW i \in 1 .. Len(a) PROVE a[i] = (a \o c)[i] /\ i \in 1 .. Len(a) + Len(c)
      BY <3>1
    <3>3. ASSUME NEW i \in 1 .. Len(c)
          PROVE  c[i] = (a \o c)[i + Len(a)] /\ i + Len(a) \in 1 .. Len(a) + Len(c)
      BY <3>1
    <3>4. ASSUME NEW i \in 1 .. Len(a) + Len(c)
          PROVE  (i \in 1 .. Len(a) /\ (a \o c)[i] = a[i])
                 \/ (i - Len(a) \in 1 .. Len(c) /\ (a \o c)[i] = c[i - Len(a)])
      BY <3>1
    <3>5. ToSet(a \o c) = ToSet(a) \cup ToSet(c)
      BY <3>1, <3>2, <3>3, <3>4 DEF ToSet
    <3>. QED BY <2>2, <3>5 DEF a, c
  <2>4. 1 .. j + 1 = (1 .. j) \cup {j + 1}
    OBVIOUS
  <2>5. UNION {ToSet(ss[i]) : i \in 1 .. j + 1} = (UNION {ToSet(ss[i]) : i \in 1 .. j}) \cup ToSet(ss[j + 1])
    BY <2>4
  <2>. QED BY <1>3, <2>1, <2>3, <2>5
<1>4. 0 .. n \subseteq J
  <2>. HIDE DEF J
  <2>. QED BY <1>2, <1>3, InductUpTo
<1>5. n \in 0 .. n
  OBVIOUS
<1>. QED BY <1>1, <1>4, <1>5

(* If all are as long as each other, it has them block by block.                 *)
EqualLengths(ss, n, k) == \A j \in 1 .. n : Len(ss[j]) = k

BlockByBlock(s, ss, n, k) ==
  /\ Len(s) = n * k
  /\ \A j \in 1 .. n, i \in 1 .. k : s[(j - 1) * k + i] = ss[j][i]

LEMMA FlattenBlocks ==
  ASSUME NEW X, NEW n \in Nat \ {0}, NEW k \in Nat \ {0}, NEW ss, Sequences(ss, n, X),
         EqualLengths(ss, n, k)
  PROVE  FlattenSeq(ss) \in Seq(X) /\ BlockByBlock(FlattenSeq(ss), ss, n, k)
<1>0. PICK f : Flattens(f, ss, n, X)
  BY FlattenSteps
<1>1. /\ f \in [0 .. n -> Seq(X)] /\ f[0] = <<>> /\ FlattenSeq(ss) = f[n]
      /\ \A j \in 0 .. n - 1 : /\ f[j + 1] = f[j] \o ss[j + 1]
                               /\ f[j] \in Seq(X) /\ ss[j + 1] \in Seq(X)
  <2>1. \A j \in 0 .. n - 1 : j \in 0 .. n /\ j + 1 \in 1 .. n
    OBVIOUS
  <2>. QED BY <1>0, <2>1 DEF Flattens, Sequences
<1>a. \A j \in 1 .. n : Len(ss[j]) = k
  BY DEF EqualLengths
<1>. DEFINE Blocks(m) == /\ Len(f[m]) = m * k
                         /\ \A j \in 1 .. m, i \in 1 .. k : f[m][(j - 1) * k + i] = ss[j][i]
            J == {m \in 0 .. n : Blocks(m)}
<1>2. 0 \in J
  BY <1>1
<1>3. ASSUME NEW m \in 0 .. n - 1, m \in J PROVE m + 1 \in J
  <2>. DEFINE a == f[m]
              c == ss[m + 1]
  <2>1. m + 1 \in 1 .. n /\ (m + 1) - 1 = m /\ m + 1 \in 0 .. n /\ m \in Nat /\ k \in Nat
    OBVIOUS
  <2>2. a \in Seq(X) /\ c \in Seq(X) /\ f[m + 1] = a \o c
    BY <1>1, <2>1
  <2>3. Len(a) = m * k /\ Len(c) = k /\ m * k \in Nat /\ (m + 1) * k = m * k + k
    BY <1>a, <1>3, <2>1
  <2>4. /\ Len(a \o c) = Len(a) + Len(c)
        /\ \A i \in 1 .. Len(a) + Len(c) :
             (a \o c)[i] = IF i <= Len(a) THEN a[i] ELSE c[i - Len(a)]
    BY <2>2, ConcatProperties, ZenonT(60)
  <2>5. \A j \in 1 .. m, i \in 1 .. k : a[(j - 1) * k + i] = ss[j][i]
    BY <1>3
  <2>. HIDE DEF a, c
  <2>6. ASSUME NEW j \in 1 .. m + 1, NEW i \in 1 .. k
        PROVE  (a \o c)[(j - 1) * k + i] = ss[j][i]
    <3>1. CASE j = m + 1
      <4>1. (j - 1) * k = m * k
        BY <2>1, <3>1
      <4>2. m * k + i \in 1 .. m * k + k /\ ~(m * k + i <= m * k) /\ m * k + i - m * k = i
        BY <2>3
      <4>3. (a \o c)[m * k + i] = c[i]
        BY <2>3, <2>4, <4>2
      <4>. QED BY <3>1, <4>1, <4>3 DEF c
    <3>2. CASE j # m + 1
      <4>1. j \in 1 .. m /\ j - 1 \in Nat /\ j - 1 <= m - 1 /\ m - 1 \in Int
        BY <2>1, <3>2
      <4>2. (j - 1) * k <= (m - 1) * k
        BY <2>1, <4>1, TimesMonotonic
      <4>3. (j - 1) * k \in Nat /\ (m - 1) * k = m * k - k
        BY <2>1, <4>1
      <4>4. (j - 1) * k + i \in 1 .. m * k + k /\ (j - 1) * k + i <= m * k
        <5>. DEFINE u == (j - 1) * k
                    w == m * k
        <5>1. u \in Nat /\ w \in Nat /\ u <= w - k
          BY <2>3, <4>2, <4>3
        <5>. HIDE DEF u, w
        <5>2. u + i \in 1 .. w + k /\ u + i <= w
          BY <5>1
        <5>. QED BY <5>2 DEF u, w
      <4>5. (a \o c)[(j - 1) * k + i] = a[(j - 1) * k + i]
        BY <2>3, <2>4, <4>4
      <4>. QED BY <2>5, <4>1, <4>5
    <3>. QED BY <3>1, <3>2
  <2>7. Len(f[m + 1]) = (m + 1) * k
    BY <2>2, <2>3, <2>4
  <2>8. \A j \in 1 .. m + 1, i \in 1 .. k : f[m + 1][(j - 1) * k + i] = ss[j][i]
    BY <2>2, <2>6
  <2>. QED BY <2>1, <2>7, <2>8
<1>4. 0 .. n \subseteq J
  <2>. HIDE DEF J
  <2>. QED BY <1>2, <1>3, InductUpTo
<1>5. n \in 0 .. n
  OBVIOUS
<1>6. Blocks(n) /\ f[n] \in Seq(X)
  BY <1>1, <1>4, <1>5
<1>. QED BY <1>1, <1>6 DEF BlockByBlock

-------------------------------------------------------------------------------
(* Buckets and parts                                                             *)

LEMMA BucketsApart ==
  ASSUME NEW sizes, NEW L, WellLaid(L, sizes),
         NEW b \in DOMAIN L.buckets, NEW c \in DOMAIN L.buckets, b < c
  PROVE  L.buckets[b].end <= L.buckets[c].first
<1>1. PICK n \in Nat \ {0} : DOMAIN L.buckets = 1 .. n
  BY DEF WellLaid
<1>2. \A a \in 1 .. n : /\ L.buckets[a].first \in Nat /\ L.buckets[a].end \in Nat
                        /\ L.buckets[a].first < L.buckets[a].end
                        /\ a + 1 \in 1 .. n => L.buckets[a + 1].first = L.buckets[a].end
  BY <1>1 DEF WellLaid
<1>. DEFINE S == {j \in 0 .. n : \A x \in 1 .. n : x = b + 1 + j => L.buckets[b].end <= L.buckets[x].first}
<1>3. 0 \in S
  BY <1>1, <1>2
<1>4. ASSUME NEW j \in 0 .. n - 1, j \in S PROVE j + 1 \in S
  <2>1. SUFFICES ASSUME NEW x \in 1 .. n, x = b + 1 + (j + 1)
                 PROVE  L.buckets[b].end <= L.buckets[x].first
    OBVIOUS
  <2>2. x - 1 \in 1 .. n /\ x - 1 = b + 1 + j /\ (x - 1) + 1 = x
    BY <1>1, <2>1
  <2>3. L.buckets[b].end <= L.buckets[x - 1].first
    BY <1>4, <2>2
  <2>4. L.buckets[x - 1].first < L.buckets[x].first
    BY <1>2, <2>2
  <2>5. /\ L.buckets[b].end \in Nat /\ L.buckets[x - 1].first \in Nat
        /\ L.buckets[x].first \in Nat
    BY <1>1, <1>2, <2>2
  <2>. QED BY <2>3, <2>4, <2>5
<1>5. 0 .. n \subseteq S
  <2>. HIDE DEF S
  <2>. QED BY <1>3, <1>4, InductUpTo
<1>6. c - b - 1 \in 0 .. n /\ c = b + 1 + (c - b - 1)
  BY <1>1
<1>. QED BY <1>1, <1>5, <1>6

(* A parameter lies in one bucket.                                               *)
LEMMA OwnBucket ==
  ASSUME NEW sizes \in Sizes, NEW L, WellLaid(L, sizes), NEW p \in Params, NEW b \in DOMAIN L.buckets,
         NEW e \in BucketElements(L.buckets[b]), e \in ParamElements(L.range, p)
  PROVE  b = L.range[p][3]
<1>. DEFINE c == L.range[p][3]
<1>1. /\ c \in DOMAIN L.buckets
      /\ L.buckets[c].first <= L.range[p][1] /\ L.range[p][2] <= L.buckets[c].end
      /\ L.range[p][1] \in Nat /\ L.range[p][2] \in Nat
      /\ L.buckets[c].first \in Nat /\ L.buckets[c].end \in Nat
      /\ L.buckets[b].first \in Nat /\ L.buckets[b].end \in Nat
  BY DEF WellLaid
<1>2. b \in Nat /\ c \in Nat
  <2>1. \E n \in Nat \ {0} : DOMAIN L.buckets = 1 .. n
    BY ZenonT(60) DEF WellLaid
  <2>. QED BY <1>1, <2>1
<1>. HIDE DEF c
<1>3. /\ L.buckets[b].first <= e /\ e < L.buckets[b].end /\ e \in Int
      /\ L.buckets[c].first <= e /\ e < L.buckets[c].end
  BY <1>1 DEF BucketElements, ParamElements
<1>4. b < c => L.buckets[b].end <= L.buckets[c].first
  BY <1>1, BucketsApart
<1>5. c < b => L.buckets[c].end <= L.buckets[b].first
  BY <1>1, BucketsApart
<1>6. b = c
  BY <1>1, <1>2, <1>3, <1>4, <1>5
<1>. QED BY <1>6 DEF c

(* The part of a bucket that a replica owns, in the buffer.                      *)
LEMMA WorldRange ==
  ASSUME NEW sizes \in Sizes, NEW L, WellLaid(L, sizes), L.distributed,
         NEW b \in DOMAIN L.buckets, NEW r \in 1 .. L.dp
  PROVE  LET gbuf == GbufWorldRange(L, b, r)
             bucket == L.buckets[b]
             n == LocalNumel(L, b)
         IN /\ n \in Nat \ {0} /\ (r - 1) * n \in Nat /\ bucket.first \in Nat /\ bucket.end \in Nat
            /\ gbuf[1] = bucket.first + (r - 1) * n /\ gbuf[2] = gbuf[1] + n
            /\ gbuf[1] \in Nat /\ gbuf[2] \in Nat
            /\ bucket.first <= gbuf[1] /\ gbuf[2] <= bucket.end
            /\ ShardElements(L.dp, bucket, r) = gbuf[1] .. gbuf[2] - 1
<1>. DEFINE first == L.buckets[b].first
            n == LocalNumel(L, b)
            d == L.dp
            u == (r - 1) * n
<1>1. first \in Nat /\ L.buckets[b].end \in Nat /\ d \in Nat \ {0}
  BY DEF WellLaid
<1>2. n \in Nat \ {0} /\ L.buckets[b].end = first + n * d
  BY EqualParts
<1>3. GbufWorldRange(L, b, r) = <<first + u, first + r * n>>
  BY DEF GbufWorldRange, LocalNumel, Numel
<1>4. ShardElements(d, L.buckets[b], r) = first + u .. first + r * n - 1
  BY DEF ShardElements, LocalNumel, Numel
<1>. HIDE DEF first, n, d
<1>5. /\ (r - 1) * n \in Nat /\ r * n \in Nat /\ r * n <= n * d
      /\ (r - 1) * n + n = r * n /\ n * d \in Nat
  <2>1. r \in 1 .. d
    BY DEF d
  <2>2. r * n <= d * n
    BY <1>1, <1>2, <2>1, TimesMonotonic
  <2>3. (r - 1) * n \in Nat /\ r * n \in Nat /\ d * n = n * d /\ (r - 1) * n + n = r * n /\ n * d \in Nat
    BY <1>1, <1>2, <2>1
  <2>. QED BY <2>2, <2>3
<1>. HIDE DEF u
<1>6. u \in Nat /\ r * n = u + n
  BY <1>5 DEF u
<1>7. first + r * n = first + u + n /\ first + r * n <= first + n * d
  BY <1>1, <1>2, <1>5, <1>6
<1>. DEFINE gbuf == GbufWorldRange(L, b, r)
<1>8. gbuf[1] = first + u /\ gbuf[2] = first + r * n
  BY <1>3
<1>. HIDE DEF gbuf
<1>9. /\ gbuf[1] \in Nat /\ gbuf[2] \in Nat /\ gbuf[2] = gbuf[1] + n
      /\ first <= gbuf[1] /\ gbuf[2] <= L.buckets[b].end
      /\ ShardElements(d, L.buckets[b], r) = gbuf[1] .. gbuf[2] - 1
  <2>1. /\ first + u \in Nat /\ first + r * n \in Nat /\ first <= first + u
        /\ first + r * n = first + u + n /\ first + r * n <= L.buckets[b].end
    BY <1>1, <1>2, <1>6, <1>7
  <2>2. /\ gbuf[1] \in Nat /\ gbuf[2] \in Nat /\ gbuf[2] = gbuf[1] + n
        /\ first <= gbuf[1] /\ gbuf[2] <= L.buckets[b].end
    BY <1>8, <2>1
  <2>3. ShardElements(d, L.buckets[b], r) = gbuf[1] .. gbuf[2] - 1
    <3>1. first + (r * n - 1) = gbuf[2] - 1
      BY <1>1, <1>2, <1>6, <1>8
    <3>. QED BY <1>4, <1>8, <3>1, Zenon
  <2>. QED BY <2>2, <2>3
<1>10. n \in Nat \ {0} /\ u = (r - 1) * n /\ u \in Nat /\ first \in Nat
       /\ L.buckets[b].end \in Nat
  BY <1>1, <1>2, <1>6 DEF u
<1>. QED BY <1>8, <1>9, <1>10 DEF first, n, d, gbuf

(* The ranges of a parameter in the part, in the bucket and in the parameter     *)
(* stand for the same elements: those that the parameter and the part share.     *)
Matching(L, sizes, b, r, p) ==
  LET gbuf  == GbufWorldRange(L, b, r)
      local == ParamRanges(L, b, r, p).gbuf_local
      world == ParamRanges(L, b, r, p).gbuf_world_in_bucket
      param == ParamRanges(L, b, r, p).param
      start == L.range[p][1]
  IN /\ local[1] \in Nat /\ local[2] \in Int /\ param[1] \in Nat /\ param[2] \in Int
     /\ param = <<param[1], param[2]>> /\ local = <<local[1], local[2]>>
     /\ start + param[1] = gbuf[1] + local[1] /\ param[2] = param[1] + (local[2] - local[1])
     /\ world[1] = local[1] + (gbuf[1] - L.buckets[b].first)
     /\ world[2] = local[2] + (gbuf[1] - L.buckets[b].first)
     /\ \A i \in Int : (i > local[1] /\ i <= local[2]) <=>
          (i >= 1 /\ i <= gbuf[2] - gbuf[1]
           /\ gbuf[1] + i - 1 >= start /\ gbuf[1] + i - 1 < L.range[p][2])
     /\ InPart(L, b, r, p) => (local[2] <= gbuf[2] - gbuf[1] /\ param[2] <= sizes[p])
     /\ InPart(L, b, r, p) <=> local[1] < local[2]

LEMMA RangesMatch ==
  ASSUME NEW sizes \in Sizes, NEW L, WellLaid(L, sizes), L.distributed,
         NEW b \in DOMAIN L.buckets, NEW r \in 1 .. L.dp, NEW p \in Params
  PROVE  Matching(L, sizes, b, r, p)
<1>. DEFINE g1 == GbufWorldRange(L, b, r)[1]
            g2 == GbufWorldRange(L, b, r)[2]
            r1 == L.range[p][1]
            r2 == L.range[p][2]
            start == Larger(0, r1 - g1)
            end == Smaller(g2 - g1, r2 - g1)
            sub == Larger(0, g1 - r1)
            shift == g1 - L.buckets[b].first
<1>1. g1 \in Nat /\ g2 \in Nat /\ g1 < g2 /\ L.buckets[b].first \in Nat
  BY WorldRange, SMTT(30)
<1>2. r1 \in Nat /\ r2 \in Nat /\ sizes[p] \in Nat \ {0} /\ r2 = r1 + sizes[p]
  BY DEF WellLaid, Sizes
<1>3. /\ ParamRanges(L, b, r, p).gbuf_local = <<start, end>>
      /\ ParamRanges(L, b, r, p).gbuf_world_in_bucket = <<start + shift, end + shift>>
      /\ ParamRanges(L, b, r, p).param = <<sub, sub + end - start>>
  BY DEF ParamRanges
<1>4. InPart(L, b, r, p) <=> end > start
  BY <1>3 DEF InPart
<1>. HIDE DEF g1, g2, r1, r2, shift
<1>5. /\ start \in Nat /\ end \in Int /\ sub \in Nat /\ sub + end - start \in Int
      /\ r1 + sub = g1 + start /\ sub + end - start = sub + (end - start)
      /\ \A i \in Int : (i > start /\ i <= end) <=>
           (i >= 1 /\ i <= g2 - g1 /\ g1 + i - 1 >= r1 /\ g1 + i - 1 < r2)
      /\ end > start => (end <= g2 - g1 /\ sub + end - start <= sizes[p])
  BY <1>1, <1>2 DEF Larger, Smaller
<1>6. shift \in Int
  BY <1>1 DEF shift
<1>. HIDE DEF start, end, sub
<1>. QED BY <1>1, <1>3, <1>4, <1>5, <1>6 DEF Matching, g1, g2, r1, r2, shift

(* Only the parameters of a bucket have elements in its parts.                   *)
LEMMA PartInBucket ==
  ASSUME NEW sizes \in Sizes, NEW L, WellLaid(L, sizes), L.distributed,
         NEW b \in DOMAIN L.buckets, NEW r \in 1 .. L.dp, NEW p \in Params, InPart(L, b, r, p)
  PROVE  b = L.range[p][3]
<1>. DEFINE g1 == GbufWorldRange(L, b, r)[1]
            g2 == GbufWorldRange(L, b, r)[2]
            i == ParamRanges(L, b, r, p).gbuf_local[1] + 1
            e == g1 + i - 1
<1>1. Matching(L, sizes, b, r, p)
  BY RangesMatch
<1>2. /\ g1 \in Nat /\ g2 \in Nat /\ L.buckets[b].first \in Nat /\ L.buckets[b].end \in Nat
      /\ L.buckets[b].first <= g1 /\ g2 <= L.buckets[b].end
  BY WorldRange
<1>3. /\ i \in Nat /\ i >= 1 /\ i <= g2 - g1
      /\ e >= L.range[p][1] /\ e < L.range[p][2]
  BY <1>1 DEF Matching
<1>4. L.range[p][1] \in Nat /\ L.range[p][2] \in Nat
  BY DEF WellLaid
<1>. HIDE DEF g1, g2, i
<1>5. e \in BucketElements(L.buckets[b]) /\ e \in ParamElements(L.range, p)
  BY <1>2, <1>3, <1>4 DEF BucketElements, ParamElements
<1>. QED BY <1>5, OwnBucket

(* The keys of param_map.                                                        *)
LEMMA ParamMapElements ==
  ASSUME NEW L, NEW b, NEW r
  PROVE  /\ ParamMap(L, b, r) \in Seq(Params)
         /\ ToSet(ParamMap(L, b, r)) = {p \in Params : InPart(L, b, r, p)}
         /\ \A p : Contains(ParamMap(L, b, r), p) <=> p \in Params /\ InPart(L, b, r, p)
<1>. DEFINE all == [i \in Params |-> N + 1 - i]
<1>1. N \in Nat /\ Params = 1 .. N
  BY ParamsAssumption DEF Params
<1>2. all \in Seq(Params) /\ ToSet(all) = Params
  <2>1. all \in [1 .. N -> Params]
    BY <1>1
  <2>2. \A p \in Params : N + 1 - p \in Params /\ p = N + 1 - (N + 1 - p)
    BY <1>1
  <2>3. ToSet(all) = Params
    BY <2>2 DEF ToSet
  <2>. QED BY <1>1, <2>1, <2>3, SeqDef
<1>. DEFINE S == {p \in Params : InPart(L, b, r, p)}
<1>a. ParamMap(L, b, r) = Selected(all, S)
  BY DEF ParamMap
<1>. HIDE DEF all, S
<1>b. Selected(all, S) \in Seq(Params) /\ ToSet(Selected(all, S)) = ToSet(all) \cap S
  BY <1>2, SelectedElements
<1>3. /\ ParamMap(L, b, r) \in Seq(Params)
      /\ ToSet(ParamMap(L, b, r)) = {p \in Params : InPart(L, b, r, p)}
  BY <1>2, <1>a, <1>b DEF S
<1>4. \A p : Contains(ParamMap(L, b, r), p) <=> p \in ToSet(ParamMap(L, b, r))
  BY <1>3 DEF Contains, ToSet
<1>. QED BY <1>3, <1>4

(* model_param_gbuf_map: a parameter with elements in a part of replica r is     *)
(* found in its bucket.                                                          *)
Owned(L, r) == {p \in Params : InPart(L, L.range[p][3], r, p)}

LEMMA GbufMapFinds ==
  ASSUME NEW sizes \in Sizes, NEW L, WellLaid(L, sizes), L.distributed,
         NEW r \in 1 .. L.dp, NEW p \in Owned(L, r)
  PROVE  GbufMap(L, r, p) = L.range[p][3]
<1>. DEFINE c == L.range[p][3]
<1>1. p \in Params /\ InPart(L, c, r, p) /\ c \in DOMAIN L.buckets
  BY DEF Owned, WellLaid
<1>. HIDE DEF c
<1>2. Contains(ParamMap(L, c, r), p)
  BY <1>1, ParamMapElements
<1>3. ASSUME NEW b \in DOMAIN L.buckets, Contains(ParamMap(L, b, r), p) PROVE b = c
  <2>1. InPart(L, b, r, p)
    BY <1>3, ParamMapElements
  <2>. QED BY <1>1, <2>1, PartInBucket DEF c
<1>4. (CHOOSE b \in DOMAIN L.buckets : Contains(ParamMap(L, b, r), p)) = c
  BY <1>1, <1>2, <1>3
<1>. QED BY <1>4 DEF GbufMap, c

(* The groups of a replica have the parameters it owns elements of, and          *)
(* GroupOrder finds them there.                                                  *)
LEMMA GroupsOwn ==
  ASSUME NEW sizes \in Sizes, NEW L, WellLaid(L, sizes), L.distributed,
         NEW r \in 1 .. L.dp, NEW g
  PROVE  /\ GroupParams(L, r, g) \in Seq(Params)
         /\ \A i \in DOMAIN GroupParams(L, r, g) :
              GroupParams(L, r, g)[i] \in Owned(L, r) /\ GroupOf(GroupParams(L, r, g)[i]) = g
         /\ \A p \in Owned(L, r) : GroupOf(p) = g =>
              \E i \in DOMAIN GroupParams(L, r, g) : GroupParams(L, r, g)[i] = p
<1>. DEFINE S == {p \in Params : GroupOf(p) = g}
            ss == [b \in DOMAIN L.buckets |-> Selected(ParamMap(L, b, r), S)]
            members == GroupParams(L, r, g)
<1>1. PICK n \in Nat \ {0} : DOMAIN L.buckets = 1 .. n
  BY DEF WellLaid
<1>2. ASSUME NEW b \in DOMAIN L.buckets
      PROVE  /\ Selected(ParamMap(L, b, r), S) \in Seq(Params)
             /\ ToSet(Selected(ParamMap(L, b, r), S)) =
                  {p \in Params : InPart(L, b, r, p) /\ GroupOf(p) = g}
  <2>1. /\ ParamMap(L, b, r) \in Seq(Params)
        /\ ToSet(ParamMap(L, b, r)) = {p \in Params : InPart(L, b, r, p)}
    BY ParamMapElements
  <2>. HIDE DEF S
  <2>2. /\ Selected(ParamMap(L, b, r), S) \in Seq(Params)
        /\ ToSet(Selected(ParamMap(L, b, r), S)) = ToSet(ParamMap(L, b, r)) \cap S
    BY <2>1, SelectedElements
  <2>. QED BY <2>1, <2>2 DEF S
<1>3. members = FlattenSeq(ss)
  BY DEF GroupParams
<1>. HIDE DEF members
<1>4. Sequences(ss, n, Params) /\ \A b \in 1 .. n : ss[b] = Selected(ParamMap(L, b, r), S)
  BY <1>1, <1>2 DEF Sequences
<1>. HIDE DEF ss
<1>5. members \in Seq(Params) /\ ToSet(members) = UNION {ToSet(ss[b]) : b \in 1 .. n}
  BY <1>3, <1>4, FlattenElements
<1>6. ASSUME NEW p PROVE p \in ToSet(members) <=> p \in Owned(L, r) /\ GroupOf(p) = g
  <2>1. p \in ToSet(members) <=> \E b \in 1 .. n : p \in Params /\ InPart(L, b, r, p) /\ GroupOf(p) = g
    <3>1. p \in ToSet(members) <=> \E b \in 1 .. n : p \in ToSet(ss[b])
      BY <1>5
    <3>2. ASSUME NEW b \in 1 .. n
          PROVE  p \in ToSet(ss[b]) <=> p \in Params /\ InPart(L, b, r, p) /\ GroupOf(p) = g
      BY <1>1, <1>2, <1>4
    <3>. QED BY <3>1, <3>2
  <2>2. \A b \in 1 .. n : p \in Params /\ InPart(L, b, r, p) => b = L.range[p][3]
    BY <1>1, PartInBucket
  <2>3. p \in Params => L.range[p][3] \in 1 .. n
    BY <1>1 DEF WellLaid
  <2>. QED BY <2>1, <2>2, <2>3 DEF Owned
<1>7. ToSet(members) = {members[i] : i \in DOMAIN members}
  BY DEF ToSet
<1>. QED BY <1>5, <1>6, <1>7 DEF members

LEMMA GroupOrderFinds ==
  ASSUME NEW sizes \in Sizes, NEW L, WellLaid(L, sizes), L.distributed,
         NEW r \in 1 .. L.dp, NEW p \in Owned(L, r)
  PROVE  /\ GroupOrder(L, r, p) \in DOMAIN GroupParams(L, r, GroupOf(p))
         /\ GroupParams(L, r, GroupOf(p))[GroupOrder(L, r, p)] = p
<1>0. ASSUME NEW g
      PROVE  /\ GroupParams(L, r, g) \in Seq(Params)
             /\ \A i \in DOMAIN GroupParams(L, r, g) :
                  GroupParams(L, r, g)[i] \in Owned(L, r) /\ GroupOf(GroupParams(L, r, g)[i]) = g
             /\ \A q \in Owned(L, r) : GroupOf(q) = g =>
                  \E i \in DOMAIN GroupParams(L, r, g) : GroupParams(L, r, g)[i] = q
  BY GroupsOwn
<1>1. \E i \in DOMAIN GroupParams(L, r, GroupOf(p)) : GroupParams(L, r, GroupOf(p))[i] = p
  BY <1>0
<1>. QED BY <1>1 DEF GroupOrder


-------------------------------------------------------------------------------
(* What the buffer holds                                                         *)

(* The value at element e of a buffer of which every parameter has whole[p].     *)
Holders(L, e) == {p \in Params : e \in ParamElements(L.range, p)}

BufferAt(L, whole, e) ==
  IF Holders(L, e) = {} THEN Junk
  ELSE LET p == CHOOSE p \in Holders(L, e) : TRUE IN whole[p][e - L.range[p][1] + 1]

(* Whole parameters, element by element.                                         *)
Wholes(whole, sizes) ==
  /\ whole = [p \in Params |-> [k \in 1 .. sizes[p] |-> whole[p][k]]]

LEMMA ParamAt ==
  ASSUME NEW sizes \in Sizes, NEW L, WellLaid(L, sizes), NEW whole,
         NEW p \in Params, NEW e \in ParamElements(L.range, p)
  PROVE  /\ BufferAt(L, whole, e) = whole[p][e - L.range[p][1] + 1]
         /\ e - L.range[p][1] + 1 \in 1 .. sizes[p]
<1>1. p \in Holders(L, e)
  BY DEF Holders
<1>2. ASSUME NEW q \in Holders(L, e) PROVE q = p
  <2>1. q \in Params /\ e \in ParamElements(L.range, q)
    BY <1>2 DEF Holders
  <2>2. q \in Params \ {p} => ParamElements(L.range, p) \cap ParamElements(L.range, q) = {}
    BY OwnElements
  <2>. QED BY <2>1, <2>2
<1>3. (CHOOSE q \in Holders(L, e) : TRUE) = p
  BY <1>1, <1>2
<1>4. BufferAt(L, whole, e) = whole[p][e - L.range[p][1] + 1]
  BY <1>1, <1>3 DEF BufferAt
<1>5. /\ L.range[p][1] \in Nat /\ L.range[p][2] = L.range[p][1] + sizes[p]
      /\ sizes[p] \in Nat /\ e \in L.range[p][1] .. L.range[p][2] - 1
  BY DEF WellLaid, Sizes, ParamElements
<1>. QED BY <1>4, <1>5

(* tensor[start:end], element by element.                                        *)
Tensor(s, n) == s = [k \in 1 .. n |-> s[k]]

LEMMA SliceElements ==
  ASSUME NEW n \in Nat, NEW s, Tensor(s, n),
         NEW x, x[1] \in Nat, x[2] \in Nat, x[1] <= x[2], x[2] <= n
  PROVE  /\ Slice(s, x) = [j \in 1 .. x[2] - x[1] |-> s[x[1] + j]]
         /\ Len(Slice(s, x)) = x[2] - x[1] /\ DOMAIN Slice(s, x) = 1 .. x[2] - x[1]
<1>. DEFINE X == {s[k] : k \in 1 .. n}
            t == SubSeq(s, x[1] + 1, x[2])
            m == x[2] - x[1]
            a == x[1] + 1
            c == x[2]
<1>1. s \in [1 .. n -> X]
  BY DEF Tensor
<1>2. a \in Nat \ {0} /\ c \in Nat /\ a <= c + 1 /\ c <= n
  OBVIOUS
<1>3. m \in Nat /\ c - a + 1 = m /\ \A j \in 1 .. m : a + j - 1 = x[1] + j
  OBVIOUS
<1>4. t = SubSeq(s, a, c)
  OBVIOUS
<1>. HIDE DEF X, a, c, m, t
<1>5. s \in Seq(X) /\ Len(s) = n
  BY <1>1, SeqDef, LenProperties
<1>6. /\ SubSeq(s, a, c) \in Seq(X) /\ Len(SubSeq(s, a, c)) = c - a + 1
      /\ SubSeq(s, a, c) = [j \in 1 .. c - a + 1 |-> s[a + j - 1]]
  BY <1>2, <1>5
<1>7. t \in Seq(X) /\ Len(t) = m /\ DOMAIN t = 1 .. m
  BY <1>3, <1>4, <1>6
<1>8. t = [j \in 1 .. m |-> s[x[1] + j]]
  BY <1>3, <1>4, <1>6
<1>9. Slice(s, x) = t
  BY DEF Slice, t
<1>. QED BY <1>7, <1>8, <1>9 DEF m

(* The part of parameter p that replica r owns, and the shard of p is that part.  *)
Extent(L, r, p) == ParamRanges(L, L.range[p][3], r, p).param

LEMMA ShardElement ==
  ASSUME NEW sizes \in Sizes, NEW L, WellLaid(L, sizes), L.distributed,
         NEW r \in 1 .. L.dp, NEW whole, Wholes(whole, sizes), NEW p \in Owned(L, r)
  PROVE  /\ Shards(L, r, whole)[GroupOf(p)][GroupOrder(L, r, p)] = Slice(whole[p], Extent(L, r, p))
         /\ \A j \in 1 .. Extent(L, r, p)[2] - Extent(L, r, p)[1] :
              Slice(whole[p], Extent(L, r, p))[j] = whole[p][Extent(L, r, p)[1] + j]
<1>. DEFINE b == L.range[p][3]
            param == ParamRanges(L, b, r, p).param
            local == ParamRanges(L, b, r, p).gbuf_local
            g == GroupOf(p)
            i == GroupOrder(L, r, p)
<1>1. p \in Params /\ InPart(L, b, r, p) /\ b \in DOMAIN L.buckets
  BY DEF Owned, WellLaid
<1>2. Matching(L, sizes, b, r, p)
  BY <1>1, RangesMatch
<1>3. /\ param[1] \in Nat /\ param[2] \in Int /\ local[1] \in Nat /\ local[2] \in Int
      /\ param[2] = param[1] + (local[2] - local[1]) /\ local[1] < local[2] /\ param[2] <= sizes[p]
  BY <1>1, <1>2, ZenonT(60) DEF Matching
<1>4. i \in DOMAIN GroupParams(L, r, g) /\ GroupParams(L, r, g)[i] = p
  BY GroupOrderFinds
<1>5. RangeMap(L, r, p).param = param
  BY GbufMapFinds DEF RangeMap
<1>6. g \in ParamGroups
  BY DEF GroupOf, ParamGroups
<1>. HIDE DEF param, g, i, local
<1>7. Shards(L, r, whole)[g][i] = Slice(whole[p], param)
  BY <1>4, <1>5, <1>6 DEF Shards
<1>8. whole[p] = [k \in 1 .. sizes[p] |-> whole[p][k]] /\ sizes[p] \in Nat
  BY <1>1 DEF Wholes, Sizes
<1>9. param[2] \in Nat /\ param[1] < param[2] /\ param[1] + 1 \in Nat /\ 1 <= param[1] + 1
  BY <1>3
<1>10. Slice(whole[p], param) = [j \in 1 .. param[2] - param[1] |-> whole[p][param[1] + j]]
  <2>. DEFINE s == whole[p]
              n == sizes[p]
  <2>1. Tensor(s, n) /\ n \in Nat
    BY <1>8 DEF Tensor
  <2>2. param[1] <= param[2] /\ param[2] <= n
    BY <1>3, <1>9
  <2>. HIDE DEF s, n
  <2>3. Slice(s, param) = [j \in 1 .. param[2] - param[1] |-> s[param[1] + j]]
    BY <1>3, <1>9, <2>1, <2>2, SliceElements
  <2>. QED BY <2>3 DEF s
<1>11. \A j \in 1 .. param[2] - param[1] : Slice(whole[p], param)[j] = whole[p][param[1] + j]
  BY <1>10
<1>12. Extent(L, r, p) = param
  BY DEF Extent, param
<1>. QED BY <1>7, <1>11, <1>12 DEF g, i

(* A buffer filled with the shards of a replica, element by element: kind is a   *)
(* range that is off the local one by shift.                                     *)
Shifted(L, b, r, kind, shift) ==
  \A p \in Params :
    LET ranges == ParamRanges(L, b, r, p)
    IN /\ ranges[kind][1] = ranges.gbuf_local[1] + shift
       /\ ranges[kind][2] = ranges.gbuf_local[2] + shift

(* Filled fills n places.                                                       *)
LEMMA FilledLength ==
  ASSUME NEW L, NEW b, NEW r, NEW shards, NEW n, NEW kind
  PROVE  Filled(L, b, r, shards, n, kind) = [i \in 1 .. n |-> Filled(L, b, r, shards, n, kind)[i]]
<1>. DEFINE span(p) == ParamRanges(L, b, r, p)[kind]
            at(i) == {p \in Params : /\ Contains(ParamMap(L, b, r), p)
                                     /\ i > span(p)[1] /\ i <= span(p)[2]}
            value(i, p) == shards[GroupOf(p)][GroupOrder(L, r, p)][i - span(p)[1]]
            content(i) == IF at(i) = {} THEN Junk ELSE value(i, CHOOSE p \in at(i) : TRUE)
<1>1. Filled(L, b, r, shards, n, kind) = [i \in 1 .. n |-> content(i)]
  BY DEF Filled
<1>. HIDE DEF content
<1>. QED BY <1>1

LEMMA FilledAt ==
  ASSUME NEW sizes \in Sizes, NEW L, WellLaid(L, sizes), L.distributed,
         NEW b \in DOMAIN L.buckets, NEW r \in 1 .. L.dp, NEW whole, Wholes(whole, sizes),
         NEW n \in Nat, NEW kind, NEW shift \in Int, Shifted(L, b, r, kind, shift),
         NEW i \in 1 .. n, i - shift \in 1 .. LocalNumel(L, b)
  PROVE  Filled(L, b, r, Shards(L, r, whole), n, kind)[i] =
           BufferAt(L, whole, GbufWorldRange(L, b, r)[1] + (i - shift) - 1)
<1>. DEFINE g1 == GbufWorldRange(L, b, r)[1]
            g2 == GbufWorldRange(L, b, r)[2]
            e == g1 + (i - shift) - 1
            span(p) == ParamRanges(L, b, r, p)[kind]
            local(p) == ParamRanges(L, b, r, p).gbuf_local
            param(p) == ParamRanges(L, b, r, p).param
            at == {p \in Params : /\ Contains(ParamMap(L, b, r), p)
                                  /\ i > span(p)[1] /\ i <= span(p)[2]}
            shards == Shards(L, r, whole)
            value(p) == shards[GroupOf(p)][GroupOrder(L, r, p)][i - span(p)[1]]
<1>1. Filled(L, b, r, shards, n, kind)[i] = IF at = {} THEN Junk ELSE value(CHOOSE p \in at : TRUE)
  BY DEF Filled
<1>2. g1 \in Nat /\ g2 = g1 + LocalNumel(L, b) /\ LocalNumel(L, b) \in Nat
  BY WorldRange
<1>3. ASSUME NEW p \in Params
      PROVE  /\ L.range[p][1] \in Nat /\ L.range[p][2] \in Nat
             /\ local(p)[1] \in Nat /\ local(p)[2] \in Int /\ param(p)[1] \in Nat
             /\ L.range[p][1] + param(p)[1] = g1 + local(p)[1]
             /\ param(p)[2] = param(p)[1] + (local(p)[2] - local(p)[1])
             /\ span(p)[1] = local(p)[1] + shift /\ span(p)[2] = local(p)[2] + shift
             /\ \A j \in Int : (j > local(p)[1] /\ j <= local(p)[2]) <=>
                  (j >= 1 /\ j <= g2 - g1 /\ g1 + j - 1 >= L.range[p][1] /\ g1 + j - 1 < L.range[p][2])
             /\ InPart(L, b, r, p) <=> local(p)[1] < local(p)[2]
  <2>1. Matching(L, sizes, b, r, p)
    BY RangesMatch
  <2>2. L.range[p][1] \in Nat /\ L.range[p][2] \in Nat
    BY DEF WellLaid
  <2>3. span(p)[1] = local(p)[1] + shift /\ span(p)[2] = local(p)[2] + shift
    BY DEF Shifted
  <2>. QED BY <2>1, <2>2, <2>3 DEF Matching
<1>. HIDE DEF g1, g2, span, local, param, shards
<1>4. ASSUME NEW p \in Params
      PROVE  (i > span(p)[1] /\ i <= span(p)[2]) <=> e \in ParamElements(L.range, p)
  <2>1. i - shift \in Int /\ i - shift >= 1 /\ i - shift <= g2 - g1
    BY <1>2
  <2>2. (i > span(p)[1] /\ i <= span(p)[2]) <=> (i - shift > local(p)[1] /\ i - shift <= local(p)[2])
    BY <1>3, <2>1
  <2>3. (i - shift > local(p)[1] /\ i - shift <= local(p)[2]) <=>
          (g1 + (i - shift) - 1 >= L.range[p][1] /\ g1 + (i - shift) - 1 < L.range[p][2])
    BY <1>3, <2>1
  <2>4. e \in ParamElements(L.range, p) <=>
          (g1 + (i - shift) - 1 >= L.range[p][1] /\ g1 + (i - shift) - 1 < L.range[p][2])
    BY <1>2, <1>3, <2>1 DEF ParamElements
  <2>. QED BY <2>2, <2>3, <2>4
<1>5. ASSUME NEW p \in Params, e \in ParamElements(L.range, p)
      PROVE  InPart(L, b, r, p) /\ Contains(ParamMap(L, b, r), p)
  <2>1. i > span(p)[1] /\ i <= span(p)[2]
    BY <1>4, <1>5
  <2>2. local(p)[1] < local(p)[2]
    BY <1>3, <2>1
  <2>3. InPart(L, b, r, p)
    BY <1>3, <2>2
  <2>. QED BY <2>3, ParamMapElements
<1>6. at = Holders(L, e)
  <2>1. ASSUME NEW p \in Params PROVE p \in at <=> p \in Holders(L, e)
    BY <1>4, <1>5 DEF Holders
  <2>2. at \subseteq Params /\ Holders(L, e) \subseteq Params
    BY DEF Holders
  <2>. QED BY <2>1, <2>2
<1>7. ASSUME NEW p \in Params, e \in ParamElements(L.range, p)
      PROVE  value(p) = whole[p][e - L.range[p][1] + 1]
  <2>1. InPart(L, b, r, p) /\ b = L.range[p][3] /\ p \in Owned(L, r)
    <3>1. InPart(L, b, r, p)
      BY <1>5, <1>7
    <3>2. b = L.range[p][3]
      BY <3>1, PartInBucket
    <3>. QED BY <3>1, <3>2 DEF Owned
  <2>2. /\ shards[GroupOf(p)][GroupOrder(L, r, p)] = Slice(whole[p], param(p))
        /\ \A j \in 1 .. param(p)[2] - param(p)[1] : Slice(whole[p], param(p))[j] = whole[p][param(p)[1] + j]
    <3>1. Extent(L, r, p) = param(p)
      BY <2>1 DEF Extent, param
    <3>. QED BY <2>1, <3>1, ShardElement DEF shards
  <2>3. i > span(p)[1] /\ i <= span(p)[2]
    BY <1>4, <1>7
  <2>4. /\ i - span(p)[1] \in 1 .. param(p)[2] - param(p)[1]
        /\ param(p)[1] + (i - span(p)[1]) = e - L.range[p][1] + 1
    BY <1>2, <1>3, <2>3
  <2>. QED BY <2>2, <2>4
<1>. HIDE DEF at, value
<1>8. CASE Holders(L, e) = {}
  BY <1>1, <1>6, <1>8 DEF BufferAt, shards, g1
<1>9. CASE Holders(L, e) # {}
  <2>. DEFINE p == CHOOSE p \in Holders(L, e) : TRUE
  <2>1. p \in Holders(L, e)
    BY <1>9
  <2>2. p \in Params /\ e \in ParamElements(L.range, p)
    BY <2>1 DEF Holders
  <2>3. Filled(L, b, r, shards, n, kind)[i] = value(p)
    BY <1>1, <1>6, <1>9
  <2>4. BufferAt(L, whole, e) = whole[p][e - L.range[p][1] + 1]
    BY <1>9 DEF BufferAt
  <2>. HIDE DEF p
  <2>5. Filled(L, b, r, shards, n, kind)[i] = BufferAt(L, whole, e)
    BY <1>7, <2>2, <2>3, <2>4
  <2>. QED BY <2>5 DEF shards, g1
<1>. QED BY <1>8, <1>9

(* The all-gather of a bucket.                                                   *)
AllShards(L, whole) == [r \in 1 .. L.dp |-> Shards(L, r, whole)]

BucketContent(L, whole, b) == [i \in 1 .. Numel(L, b) |-> BufferAt(L, whole, L.buckets[b].first + i - 1)]

LEMMA GatheredAt ==
  ASSUME NEW sizes \in Sizes, NEW L, WellLaid(L, sizes), L.distributed,
         NEW b \in DOMAIN L.buckets, NEW whole, Wholes(whole, sizes)
  PROVE  AllGathered(L, AllShards(L, whole), b) = BucketContent(L, whole, b)
<1>. DEFINE n == LocalNumel(L, b)
            numel == Numel(L, b)
            mains == AllShards(L, whole)
            first == L.buckets[b].first
<1>1. n \in Nat \ {0} /\ numel = n * L.dp /\ L.dp \in Nat \ {0} /\ numel \in Nat /\ first \in Nat
  <2>1. n \in Nat \ {0} /\ numel = n * L.dp /\ L.dp \in Nat \ {0} /\ first \in Nat
    BY EqualParts DEF WellLaid
  <2>. QED BY <2>1
<1>2. ASSUME NEW i \in 1 .. numel
      PROVE  ParamBuffer(L, b, (i - 1) \div n + 1, mains[(i - 1) \div n + 1])[i] =
               BufferAt(L, whole, first + i - 1)
  <2>. DEFINE q == (i - 1) \div n
              r == q + 1
              shift == q * n
              kind == "gbuf_world_in_bucket"
  <2>1. i - 1 \in 0 .. L.dp * n - 1 /\ i - 1 \in Int
    BY <1>1
  <2>2. q \in 0 .. L.dp - 1
    BY <1>1, <2>1, QuotientBounds
  <2>3. (i - 1) % n \in 0 .. n - 1 /\ i - 1 = shift + ((i - 1) % n)
    BY <1>1, <2>1, Division
  <2>. HIDE DEF q
  <2>4. r \in 1 .. L.dp /\ shift \in Nat /\ (r - 1) * n = shift
    BY <1>1, <2>2
  <2>. HIDE DEF shift, r
  <2>5. i - shift \in 1 .. n
    BY <1>1, <2>3, <2>4
  <2>6. GbufWorldRange(L, b, r)[1] = first + shift
    <3>1. GbufWorldRange(L, b, r)[1] = first + (r - 1) * n
      BY <2>4, WorldRange
    <3>. QED BY <2>4, <3>1
  <2>7. Shifted(L, b, r, kind, shift)
    <3>1. ASSUME NEW p \in Params
          PROVE  LET ranges == ParamRanges(L, b, r, p)
                 IN /\ ranges[kind][1] = ranges.gbuf_local[1] + shift
                    /\ ranges[kind][2] = ranges.gbuf_local[2] + shift
      <4>1. Matching(L, sizes, b, r, p)
        BY <2>4, RangesMatch
      <4>2. GbufWorldRange(L, b, r)[1] - first = shift
        BY <1>1, <2>4, <2>6
      <4>. QED BY <4>1, <4>2 DEF Matching
    <3>. QED BY <3>1 DEF Shifted
  <2>8. mains[r] = Shards(L, r, whole)
    BY <2>4 DEF AllShards
  <2>9. Filled(L, b, r, Shards(L, r, whole), numel, kind)[i] =
          BufferAt(L, whole, GbufWorldRange(L, b, r)[1] + (i - shift) - 1)
    BY <1>1, <2>4, <2>5, <2>7, FilledAt
  <2>10. GbufWorldRange(L, b, r)[1] + (i - shift) - 1 = first + i - 1
    BY <1>1, <2>4, <2>6
  <2>11. ParamBuffer(L, b, r, mains[r])[i] = BufferAt(L, whole, first + i - 1)
    BY <2>8, <2>9, <2>10 DEF ParamBuffer
  <2>. QED BY <2>11 DEF r, q
<1>3. ASSUME NEW i \in 1 .. numel PROVE (i - 1) \div n + 1 \in 1 .. L.dp
  <2>1. i - 1 \in 0 .. L.dp * n - 1
    BY <1>1
  <2>2. (i - 1) \div n \in 0 .. L.dp - 1
    BY <1>1, <2>1, QuotientBounds
  <2>. QED BY <1>1, <2>2
<1>4. AllGathered(L, mains, b) =
        [i \in 1 .. numel |-> [r \in 1 .. L.dp |-> ParamBuffer(L, b, r, mains[r])][(i - 1) \div n + 1][i]]
  BY DEF AllGathered
<1>. HIDE DEF n, numel, mains, first
<1>5. AllGathered(L, mains, b) =
        [i \in 1 .. numel |-> ParamBuffer(L, b, (i - 1) \div n + 1, mains[(i - 1) \div n + 1])[i]]
  BY <1>3, <1>4
<1>6. AllGathered(L, mains, b) = [i \in 1 .. numel |-> BufferAt(L, whole, first + i - 1)]
  BY <1>2, <1>5
<1>. QED BY <1>6 DEF BucketContent, numel, mains, first

(* What _copy_main_params_to_model_params, the all-gathers and the copies from   *)
(* the buckets leave in the parameters is what went into the shards.             *)
THEOREM GatherRestores ==
  ASSUME NEW sizes \in Sizes, NEW L, WellLaid(L, sizes), L.distributed,
         NEW whole, Wholes(whole, sizes)
  PROVE  ModelParams(L, AllShards(L, whole)) = whole
<1>. DEFINE mains == AllShards(L, whole)
            gathered == [b \in DOMAIN L.buckets |-> AllGathered(L, mains, b)]
            value(p) == Slice(gathered[L.range[p][3]],
                              <<L.range[p][1] - L.buckets[L.range[p][3]].first,
                                L.range[p][2] - L.buckets[L.range[p][3]].first>>)
<1>1. ModelParams(L, mains) = [p \in Params |-> value(p)]
  BY DEF ModelParams
<1>2. ASSUME NEW p \in Params PROVE value(p) = [k \in 1 .. sizes[p] |-> whole[p][k]]
  <2>. DEFINE b == L.range[p][3]
              first == L.buckets[b].first
              x == <<L.range[p][1] - first, L.range[p][2] - first>>
              n == Numel(L, b)
              s == AllGathered(L, mains, b)
  <2>1. /\ b \in DOMAIN L.buckets /\ first \in Nat /\ L.buckets[b].end \in Nat
        /\ L.range[p][1] \in Nat /\ L.range[p][2] = L.range[p][1] + sizes[p] /\ sizes[p] \in Nat \ {0}
        /\ first <= L.range[p][1] /\ L.range[p][2] <= L.buckets[b].end
    BY SMTT(30) DEF WellLaid, Sizes
  <2>2. n = L.buckets[b].end - first
    BY DEF Numel
  <2>3. s = [i \in 1 .. n |-> BufferAt(L, whole, first + i - 1)]
    <3>1. s = BucketContent(L, whole, b)
      BY <2>1, GatheredAt
    <3>. QED BY <3>1 DEF BucketContent
  <2>4. value(p) = Slice(s, x)
    BY <2>1
  <2>. HIDE DEF b, first, n, s, value
  <2>5. /\ x[1] \in Nat /\ x[2] \in Nat /\ x[1] <= x[2] /\ x[2] <= n /\ n \in Nat
        /\ x[2] - x[1] = sizes[p] /\ first + x[1] = L.range[p][1]
    BY <2>1, <2>2
  <2>. HIDE DEF x
  <2>6. Tensor(s, n)
    BY <2>3 DEF Tensor
  <2>7. Slice(s, x) = [j \in 1 .. x[2] - x[1] |-> s[x[1] + j]]
    BY <2>5, <2>6, SliceElements
  <2>8. ASSUME NEW j \in 1 .. sizes[p] PROVE s[x[1] + j] = whole[p][j]
    <3>1. x[1] + j \in 1 .. n
      BY <2>1, <2>5
    <3>. DEFINE e == first + (x[1] + j) - 1
    <3>2. e \in ParamElements(L.range, p) /\ e - L.range[p][1] + 1 = j
      BY <2>1, <2>5 DEF ParamElements
    <3>3. s[x[1] + j] = BufferAt(L, whole, e)
      BY <2>3, <3>1
    <3>. HIDE DEF e
    <3>4. BufferAt(L, whole, e) = whole[p][e - L.range[p][1] + 1]
      BY <3>2, ParamAt
    <3>. QED BY <3>2, <3>3, <3>4
  <2>. QED BY <2>4, <2>5, <2>7, <2>8
<1>. HIDE DEF value
<1>3. ModelParams(L, mains) = [p \in Params |-> [k \in 1 .. sizes[p] |-> whole[p][k]]]
  BY <1>1, <1>2
<1>. QED BY <1>3 DEF Wholes

(* The checkpoint has the same content as the gathered buckets.                  *)
LEMMA SavedContent ==
  ASSUME NEW sizes \in Sizes, NEW L, WellLaid(L, sizes), L.distributed,
         NEW b \in DOMAIN L.buckets, NEW whole, Wholes(whole, sizes)
  PROVE  SavedState(L, AllShards(L, whole))[b] = BucketContent(L, whole, b)
<1>. DEFINE n == LocalNumel(L, b)
            numel == Numel(L, b)
            first == L.buckets[b].first
            kind == "gbuf_local"
            mains == AllShards(L, whole)
            part(r) == Filled(L, b, r, mains[r], n, kind)
            ss == [r \in 1 .. L.dp |-> part(r)]
            X == {BufferAt(L, whole, e) : e \in Int}
            saved == FlattenSeq(ss)
<1>1. n \in Nat \ {0} /\ numel = n * L.dp /\ L.dp \in Nat \ {0} /\ numel \in Nat /\ first \in Nat
  <2>1. n \in Nat \ {0} /\ numel = n * L.dp /\ L.dp \in Nat \ {0} /\ first \in Nat
    BY EqualParts DEF WellLaid
  <2>. QED BY <2>1
<1>2. SavedState(L, mains)[b] = saved
  BY DEF SavedState
<1>3. ASSUME NEW r \in 1 .. L.dp, NEW i \in 1 .. n
      PROVE  part(r)[i] = BufferAt(L, whole, first + (r - 1) * n + i - 1) /\ part(r)[i] \in X
  <2>. DEFINE g1 == GbufWorldRange(L, b, r)[1]
  <2>1. Shifted(L, b, r, kind, 0)
    <3>1. ASSUME NEW p \in Params
          PROVE  LET ranges == ParamRanges(L, b, r, p)
                 IN /\ ranges[kind][1] = ranges.gbuf_local[1] + 0
                    /\ ranges[kind][2] = ranges.gbuf_local[2] + 0
      <4>1. Matching(L, sizes, b, r, p)
        BY RangesMatch
      <4>. QED BY <4>1 DEF Matching
    <3>. QED BY <3>1 DEF Shifted
  <2>2. g1 = first + (r - 1) * n /\ g1 \in Nat /\ (r - 1) * n \in Nat
    BY WorldRange
  <2>3. mains[r] = Shards(L, r, whole)
    BY DEF AllShards
  <2>. HIDE DEF n, numel, mains, kind, first
  <2>4. i - 0 \in 1 .. LocalNumel(L, b) /\ 0 \in Int /\ n \in Nat /\ i - 0 = i /\ i \in Nat
    BY <1>1 DEF n
  <2>5. Filled(L, b, r, Shards(L, r, whole), n, kind)[i] = BufferAt(L, whole, g1 + (i - 0) - 1)
    <3>. HIDE DEF g1
    <3>1. Filled(L, b, r, Shards(L, r, whole), n, kind)[i] =
            BufferAt(L, whole, GbufWorldRange(L, b, r)[1] + (i - 0) - 1)
      BY <2>1, <2>4, FilledAt
    <3>. QED BY <3>1 DEF g1
  <2>. HIDE DEF g1
  <2>6. g1 + (i - 0) - 1 = first + (r - 1) * n + i - 1 /\ first + (r - 1) * n + i - 1 \in Int
    <3>. DEFINE u == (r - 1) * n
    <3>1. u \in Nat /\ g1 = first + u
      BY <2>2
    <3>. HIDE DEF u
    <3>2. g1 + (i - 0) - 1 = first + u + i - 1 /\ first + u + i - 1 \in Int
      BY <1>1, <2>4, <3>1
    <3>. QED BY <3>2 DEF u
  <2>7. part(r)[i] = BufferAt(L, whole, first + (r - 1) * n + i - 1)
    BY <2>3, <2>5, <2>6
  <2>. QED BY <2>6, <2>7
<1>4. ASSUME NEW r \in 1 .. L.dp PROVE part(r) = [i \in 1 .. n |-> part(r)[i]]
  BY FilledLength
<1>. HIDE DEF n, numel, first, part, X
<1>5. ASSUME NEW r \in 1 .. L.dp PROVE ss[r] \in Seq(X) /\ Len(ss[r]) = n
  <2>1. part(r) \in [1 .. n -> X]
    BY <1>3, <1>4
  <2>2. part(r) \in Seq(X) /\ Len(part(r)) = n
    BY <1>1, <2>1, SeqDef, LenProperties
  <2>. QED BY <2>2
<1>6. Sequences(ss, L.dp, X)
  BY <1>5 DEF Sequences
<1>7. /\ saved \in Seq(X) /\ Len(saved) = L.dp * n
      /\ \A r \in 1 .. L.dp, i \in 1 .. n : saved[(r - 1) * n + i] = ss[r][i]
  <2>1. EqualLengths(ss, L.dp, n)
    BY <1>5 DEF EqualLengths
  <2>. HIDE DEF ss
  <2>2. saved \in Seq(X) /\ BlockByBlock(saved, ss, L.dp, n)
    BY <1>1, <1>6, <2>1, FlattenBlocks
  <2>. QED BY <2>2 DEF BlockByBlock
<1>. HIDE DEF saved
<1>8. ASSUME NEW i \in 1 .. numel PROVE saved[i] = BufferAt(L, whole, first + i - 1)
  <2>. DEFINE q == (i - 1) \div n
              j == ((i - 1) % n) + 1
  <2>1. i - 1 \in 0 .. L.dp * n - 1 /\ i - 1 \in Int
    BY <1>1
  <2>2. q \in 0 .. L.dp - 1
    BY <1>1, <2>1, QuotientBounds
  <2>3. (i - 1) % n \in 0 .. n - 1 /\ i - 1 = q * n + ((i - 1) % n)
    BY <1>1, <2>1, Division
  <2>4. j \in 1 .. n /\ i = q * n + j /\ q * n \in Int
    BY <1>1, <2>2, <2>3
  <2>. HIDE DEF q, j
  <2>5. q + 1 \in 1 .. L.dp /\ (q + 1) - 1 = q
    BY <1>1, <2>2
  <2>6. saved[((q + 1) - 1) * n + j] = ss[q + 1][j]
    BY <1>7, <2>4, <2>5
  <2>7. ss[q + 1][j] = BufferAt(L, whole, first + ((q + 1) - 1) * n + j - 1)
    BY <1>3, <2>4, <2>5
  <2>8. first + (q * n) + j - 1 = first + i - 1
    BY <1>1, <2>4
  <2>. QED BY <2>4, <2>5, <2>6, <2>7, <2>8
<1>9. saved = [i \in 1 .. numel |-> saved[i]]
  <2>1. Len(saved) = numel
    BY <1>1, <1>7
  <2>. QED BY <1>7, <2>1
<1>10. saved = [i \in 1 .. numel |-> BufferAt(L, whole, first + i - 1)]
  BY <1>8, <1>9
<1>. QED BY <1>2, <1>10 DEF BucketContent, numel, first

(* The r-th of equal parts, of n elements each, of a tensor of m.                *)
IsPart(s, m, n, r) ==
  /\ (r - 1) * n \in Nat /\ (r - 1) * n + n <= m
  /\ Slice(s, <<(r - 1) * n, r * n>>) = [j \in 1 .. n |-> s[(r - 1) * n + j]]

LEMMA PartOfTensor ==
  ASSUME NEW n \in Nat \ {0}, NEW d \in Nat \ {0}, NEW r \in 1 .. d,
         NEW s, NEW m \in Nat, m = n * d, Tensor(s, m)
  PROVE  IsPart(s, m, n, r)
<1>. DEFINE u == (r - 1) * n
            v == r * n
            x == <<u, v>>
<1>1. u \in Nat /\ v = u + n
  OBVIOUS
<1>2. v <= m
  <2>1. r * n <= d * n /\ d * n = n * d
    BY TimesMonotonic
  <2>. QED BY <2>1
<1>. HIDE DEF u, v
<1>3. x[1] = u /\ x[2] = v
  OBVIOUS
<1>. HIDE DEF x
<1>4. x[1] \in Nat /\ x[2] \in Nat /\ x[1] <= x[2] /\ x[2] <= m /\ x[2] - x[1] = n
  BY <1>1, <1>2, <1>3
<1>5. Slice(s, x) = [j \in 1 .. x[2] - x[1] |-> s[x[1] + j]]
  BY <1>4, SliceElements
<1>6. Slice(s, x) = [j \in 1 .. n |-> s[u + j]]
  BY <1>3, <1>4, <1>5
<1>7. u + n <= m
  BY <1>1, <1>2
<1>. QED BY <1>1, <1>6, <1>7 DEF u, v, x, IsPart

(* Where the part of a replica starts in the buffer.                             *)
LEMMA PartStart ==
  ASSUME NEW sizes \in Sizes, NEW L, WellLaid(L, sizes), L.distributed,
         NEW b \in DOMAIN L.buckets, NEW r \in 1 .. L.dp
  PROVE  /\ GbufWorldRange(L, b, r)[1] \in Nat
         /\ GbufWorldRange(L, b, r)[1] = L.buckets[b].first + (r - 1) * LocalNumel(L, b)
         /\ GbufWorldRange(L, b, r)[2] = GbufWorldRange(L, b, r)[1] + LocalNumel(L, b)
         /\ LocalNumel(L, b) \in Nat \ {0} /\ L.buckets[b].first \in Nat
         /\ L.dp \in Nat \ {0}
<1>1. LET gbuf == GbufWorldRange(L, b, r)
          bucket == L.buckets[b]
          n == LocalNumel(L, b)
      IN /\ n \in Nat \ {0} /\ (r - 1) * n \in Nat /\ bucket.first \in Nat /\ bucket.end \in Nat
         /\ gbuf[1] = bucket.first + (r - 1) * n /\ gbuf[2] = gbuf[1] + n
         /\ gbuf[1] \in Nat /\ gbuf[2] \in Nat
         /\ bucket.first <= gbuf[1] /\ gbuf[2] <= bucket.end
         /\ ShardElements(L.dp, bucket, r) = gbuf[1] .. gbuf[2] - 1
  BY WorldRange
<1>2. L.dp \in Nat \ {0}
  BY DEF WellLaid
<1>. QED BY <1>1, <1>2, Zenon

(* What is loaded from such a checkpoint, by as many replicas as it may be.      *)
Contents(state, L, whole) == \A b \in DOMAIN L.buckets : state[b] = BucketContent(L, whole, b)

LEMMA LoadRestores ==
  ASSUME NEW sizes \in Sizes, NEW L, WellLaid(L, sizes), L.distributed,
         NEW r \in 1 .. L.dp, NEW whole, Wholes(whole, sizes), NEW state, Contents(state, L, whole)
  PROVE  LoadedShards(L, r, state) = Shards(L, r, whole)
<1>. DEFINE part(p) == LET b == GbufMap(L, r, p)
                           n == LocalNumel(L, b)
                       IN Slice(Slice(state[b], <<(r - 1) * n, r * n>>), RangeMap(L, r, p).gbuf_local)
            shard(p) == Slice(whole[p], RangeMap(L, r, p).param)
<1>1. ASSUME NEW p \in Owned(L, r) PROVE part(p) = shard(p)
  <2>. DEFINE b == L.range[p][3]
              n == LocalNumel(L, b)
              numel == Numel(L, b)
              first == L.buckets[b].first
              ranges == ParamRanges(L, b, r, p)
              local == ranges.gbuf_local
              param == ranges.param
              g1 == GbufWorldRange(L, b, r)[1]
              s == state[b]
              t == Slice(s, <<(r - 1) * n, r * n>>)
  <2>1. GbufMap(L, r, p) = b /\ RangeMap(L, r, p) = ranges
    BY GbufMapFinds DEF RangeMap
  <2>2. p \in Params /\ InPart(L, b, r, p) /\ b \in DOMAIN L.buckets
    BY DEF Owned, WellLaid
  <2>3. Matching(L, sizes, b, r, p)
    BY <2>2, RangesMatch
  <2>4. /\ g1 \in Nat /\ g1 = first + (r - 1) * n /\ GbufWorldRange(L, b, r)[2] = g1 + n
        /\ n \in Nat \ {0} /\ first \in Nat /\ L.dp \in Nat \ {0}
    BY <2>2, PartStart
  <2>5. numel = n * L.dp /\ numel \in Nat
    <3>1. numel = n * L.dp
      BY <2>2, EqualParts
    <3>. HIDE DEF n, numel
    <3>. QED BY <2>4, <3>1
  <2>6. /\ local[1] \in Nat /\ local[2] \in Nat /\ param[1] \in Nat /\ param[2] \in Nat
        /\ local[1] < local[2] /\ local[2] <= n /\ param[2] - param[1] = local[2] - local[1]
        /\ L.range[p][1] + param[1] = g1 + local[1] /\ param[2] <= sizes[p] /\ L.range[p][1] \in Nat
        /\ L.range[p][2] = L.range[p][1] + sizes[p] /\ sizes[p] \in Nat
    <3>1. /\ local[1] \in Nat /\ local[2] \in Int /\ param[1] \in Nat /\ param[2] \in Int
          /\ L.range[p][1] + param[1] = g1 + local[1]
          /\ param[2] = param[1] + (local[2] - local[1])
          /\ local[1] < local[2] /\ param[2] <= sizes[p]
      BY <2>2, <2>3 DEF Matching
    <3>2. local[2] <= GbufWorldRange(L, b, r)[2] - g1
      BY <2>2, <2>3 DEF Matching
    <3>3. /\ L.range[p][1] \in Nat /\ L.range[p][2] = L.range[p][1] + sizes[p] /\ sizes[p] \in Nat
      BY <2>2 DEF WellLaid, Sizes
    <3>. HIDE DEF local, param, g1, n, b, ranges
    <3>. QED BY <2>4, <3>1, <3>2, <3>3
  <2>7. s = [i \in 1 .. numel |-> BufferAt(L, whole, first + i - 1)]
    BY <2>2 DEF Contents, BucketContent
  <2>8. part(p) = Slice(t, local) /\ shard(p) = Slice(whole[p], param)
    BY <2>1
  <2>9. Tensor(whole[p], sizes[p])
    <3>1. whole[p] = [k \in 1 .. sizes[p] |-> whole[p][k]]
      BY <2>2 DEF Wholes
    <3>. QED BY <3>1 DEF Tensor
  <2>. HIDE DEF b, n, numel, first, ranges, local, param, g1, s, part, shard
  <2>11. Tensor(s, numel)
    BY <2>7 DEF Tensor
  <2>10. /\ (r - 1) * n \in Nat /\ (r - 1) * n + n <= numel
         /\ t = [j \in 1 .. n |-> s[(r - 1) * n + j]]
    <3>1. n \in Nat \ {0} /\ L.dp \in Nat \ {0} /\ numel \in Nat /\ numel = n * L.dp
      BY <2>4, <2>5
    <3>2. IsPart(s, numel, n, r)
      BY <3>1, <2>11, PartOfTensor
    <3>. QED BY <3>2 DEF IsPart
  <2>. DEFINE u == (r - 1) * n
  <2>12. /\ u \in Nat /\ u + n <= numel /\ t = [j \in 1 .. n |-> s[u + j]]
         /\ g1 = first + u /\ n \in Nat /\ numel \in Nat /\ first \in Nat /\ g1 \in Nat
    BY <2>4, <2>5, <2>10
  <2>. HIDE DEF u
  <2>. HIDE DEF t
  <2>13. Tensor(t, n)
    BY <2>12 DEF Tensor
  <2>14. Slice(t, local) = [j \in 1 .. local[2] - local[1] |-> t[local[1] + j]]
    <3>1. /\ local[1] \in Nat /\ local[2] \in Nat /\ local[1] <= local[2] /\ local[2] <= n /\ n \in Nat
      <4>1. local[1] \in Nat /\ local[2] \in Nat /\ local[1] < local[2] /\ local[2] <= n
        BY <2>6
      <4>2. n \in Nat
        BY <2>12
      <4>. QED BY <4>1, <4>2
    <3>. QED BY <3>1, <2>13, SliceElements
  <2>15. Slice(whole[p], param) = [j \in 1 .. param[2] - param[1] |-> whole[p][param[1] + j]]
    <3>. DEFINE w == whole[p]
                m == sizes[p]
    <3>1. Tensor(w, m) /\ param[1] <= param[2] /\ param[2] <= m /\ m \in Nat
      BY <2>6, <2>9
    <3>. HIDE DEF w, m
    <3>2. Slice(w, param) = [j \in 1 .. param[2] - param[1] |-> w[param[1] + j]]
      BY <2>6, <3>1, SliceElements
    <3>. QED BY <3>2 DEF w
  <2>17. /\ local[1] \in Nat /\ local[2] \in Nat /\ param[1] \in Nat /\ local[2] <= n
         /\ param[2] <= sizes[p] /\ param[2] - param[1] = local[2] - local[1] /\ param[2] \in Nat
         /\ L.range[p][1] + param[1] = g1 + local[1] /\ L.range[p][1] \in Nat
         /\ L.range[p][2] = L.range[p][1] + sizes[p] /\ sizes[p] \in Nat
    BY <2>6
  <2>16. ASSUME NEW j \in 1 .. local[2] - local[1] PROVE t[local[1] + j] = whole[p][param[1] + j]
    <3>. DEFINE i == local[1] + j
                e == first + (u + i) - 1
    <3>1. i \in 1 .. n /\ u + i \in 1 .. numel
      <4>1. u \in Nat /\ u + n <= numel /\ n \in Nat /\ numel \in Nat
        BY <2>12
      <4>2. local[1] \in Nat /\ local[2] \in Nat /\ local[2] <= n
        BY <2>17
      <4>. QED BY <4>1, <4>2
    <3>2. t[i] = s[u + i]
      BY <2>12, <3>1
    <3>3. s[u + i] = BufferAt(L, whole, e)
      BY <2>7, <3>1
    <3>4. e \in ParamElements(L.range, p) /\ e - L.range[p][1] + 1 = param[1] + j
      <4>1. g1 = first + u /\ u \in Nat /\ first \in Nat /\ g1 \in Nat
        BY <2>12
      <4>. QED BY <4>1, <2>17 DEF ParamElements
    <3>. HIDE DEF e, i
    <3>5. BufferAt(L, whole, e) = whole[p][e - L.range[p][1] + 1]
      BY <2>2, <3>4, ParamAt
    <3>6. t[i] = whole[p][param[1] + j]
      BY <3>2, <3>3, <3>4, <3>5
    <3>. QED BY <3>6 DEF i
  <2>. QED BY <2>6, <2>8, <2>14, <2>15, <2>16, SMTT(30)
<1>2. ASSUME NEW g \in ParamGroups
      PROVE  LoadedShards(L, r, state)[g] = Shards(L, r, whole)[g]
  <2>. DEFINE members == GroupParams(L, r, g)
  <2>1. \A i \in DOMAIN members : members[i] \in Owned(L, r)
    BY GroupsOwn
  <2>2. /\ LoadedShards(L, r, state)[g] = [i \in DOMAIN members |-> part(members[i])]
        /\ Shards(L, r, whole)[g] = [i \in DOMAIN members |-> shard(members[i])]
    BY DEF LoadedShards, Shards
  <2>. HIDE DEF members, part, shard
  <2>. QED BY <1>1, <2>1, <2>2
<1>3. /\ LoadedShards(L, r, state) = [g \in ParamGroups |-> LoadedShards(L, r, state)[g]]
      /\ Shards(L, r, whole) = [g \in ParamGroups |-> Shards(L, r, whole)[g]]
  BY DEF LoadedShards, Shards
<1>. QED BY <1>2, <1>3

-------------------------------------------------------------------------------
(* The same parameters laid out for another number of replicas                   *)

(* Where bucket b starts, while the parameters are being placed.                 *)
Start(l, b) == IF b <= Len(l.indices) THEN l.indices[b][1] ELSE l.first

(* Two placings with different padding: the parameters S are in the same buckets *)
(* and at the same places there, and the open buckets have the same contents.    *)
Alike(l, m, S) ==
  /\ l \in Laying /\ m \in Laying
  /\ Len(l.indices) = Len(m.indices) /\ l.count = m.count
  /\ l.end - l.first = m.end - m.first
  /\ \A x \in S : /\ l.range[x][3] = m.range[x][3] /\ l.range[x][3] \in 1 .. Len(l.indices) + 1
                  /\ l.range[x][1] - Start(l, l.range[x][3]) = m.range[x][1] - Start(m, m.range[x][3])

LEMMA PlacedAlike ==
  ASSUME NEW sizes \in Sizes, NEW l, NEW m, NEW S \in SUBSET Params, Alike(l, m, S), NEW v \in Params
  PROVE  Alike(Placed(sizes, l, v), Placed(sizes, m, v), S \cup {v})
<1>. DEFINE l1 == Placed(sizes, l, v)
            m1 == Placed(sizes, m, v)
<1>1. /\ l1.indices = l.indices /\ l1.first = l.first /\ l1.count = l.count + 1 /\ l1.end = l.end + sizes[v]
      /\ m1.indices = m.indices /\ m1.first = m.first /\ m1.count = m.count + 1 /\ m1.end = m.end + sizes[v]
  BY DEF Placed
<1>2. /\ l.first \in Nat /\ l.end \in Nat /\ m.first \in Nat /\ m.end \in Nat /\ sizes[v] \in Nat
      /\ Len(l.indices) \in Nat /\ Len(m.indices) \in Nat /\ l.count \in Nat /\ m.count \in Nat
  BY LayingParts DEF Alike, Sizes
<1>3. l1 \in Laying /\ m1 \in Laying
  BY PlacedTyped DEF Alike
<1>4. /\ l1.range[v] = <<l.end, l.end + sizes[v], Len(l.indices) + 1>>
      /\ m1.range[v] = <<m.end, m.end + sizes[v], Len(m.indices) + 1>>
      /\ \A x \in Params \ {v} : l1.range[x] = l.range[x] /\ m1.range[x] = m.range[x]
  <2>1. l.range \in [Params -> Nat \X Nat \X Nat] /\ m.range \in [Params -> Nat \X Nat \X Nat]
    BY DEF Alike, Laying
  <2>. QED BY <2>1 DEF Placed
<1>5. /\ Len(l.indices) = Len(m.indices) /\ l.count = m.count /\ l.end - l.first = m.end - m.first
  BY DEF Alike
<1>. HIDE DEF l1, m1
<1>6. \A b : Start(l1, b) = Start(l, b) /\ Start(m1, b) = Start(m, b)
  BY <1>1 DEF Start
<1>7. ASSUME NEW x \in S \cup {v}
      PROVE  /\ l1.range[x][3] = m1.range[x][3] /\ l1.range[x][3] \in 1 .. Len(l1.indices) + 1
             /\ l1.range[x][1] - Start(l1, l1.range[x][3]) = m1.range[x][1] - Start(m1, m1.range[x][3])
  <2>1. CASE x = v
    <3>1. /\ l1.range[x][3] = Len(l.indices) + 1 /\ m1.range[x][3] = Len(m.indices) + 1
          /\ l1.range[x][1] = l.end /\ m1.range[x][1] = m.end
      BY <1>4, <2>1
    <3>2. Start(l, Len(l.indices) + 1) = l.first /\ Start(m, Len(m.indices) + 1) = m.first
      BY <1>2 DEF Start
    <3>. QED BY <1>1, <1>2, <1>5, <1>6, <3>1, <3>2
  <2>2. CASE x # v
    <3>1. x \in S /\ l1.range[x] = l.range[x] /\ m1.range[x] = m.range[x]
      BY <1>4, <2>2
    <3>. QED BY <1>1, <1>6, <3>1 DEF Alike
  <2>. QED BY <2>1, <2>2
<1>8. /\ Len(l1.indices) = Len(m1.indices) /\ l1.count = m1.count
      /\ l1.end - l1.first = m1.end - m1.first
  <2>1. l1.end - l1.first = (l.end - l.first) + sizes[v] /\ m1.end - m1.first = (m.end - m.first) + sizes[v]
    BY <1>1, <1>2, SMTT(30)
  <2>2. l1.count = m1.count /\ Len(l1.indices) = Len(m1.indices)
    BY <1>1, <1>5
  <2>. QED BY <1>5, <2>1, <2>2
<1>. QED BY <1>3, <1>7, <1>8 DEF Alike, l1, m1

LEMMA ClosedAlike ==
  ASSUME NEW c \in Configs, NEW d \in Configs, NEW l, NEW m, NEW S \in SUBSET Params, Alike(l, m, S)
  PROVE  Alike(Closed(c, l), Closed(d, m), S)
<1>. DEFINE l1 == Closed(c, l)
            m1 == Closed(d, m)
            i == Pad(c, l.end)
            j == Pad(d, m.end)
<1>1. /\ l1.range = l.range /\ l1.indices = Append(l.indices, <<l.first, i>>)
      /\ l1.first = i /\ l1.count = 0 /\ l1.end = i
      /\ m1.range = m.range /\ m1.indices = Append(m.indices, <<m.first, j>>)
      /\ m1.first = j /\ m1.count = 0 /\ m1.end = j
  BY DEF Closed
<1>2. /\ l \in Laying /\ m \in Laying /\ Len(l.indices) = Len(m.indices)
  BY DEF Alike
<1>3. /\ l.first \in Nat /\ l.end \in Nat /\ m.first \in Nat /\ m.end \in Nat
      /\ l.indices \in Seq(Nat \X Nat) /\ m.indices \in Seq(Nat \X Nat) /\ Len(l.indices) \in Nat
  BY <1>2, LayingParts
<1>4. i \in Nat /\ j \in Nat
  BY <1>3, Padding
<1>5. l1 \in Laying /\ m1 \in Laying
  BY <1>2, ClosedTyped
<1>. HIDE DEF l1, m1, i, j
<1>6. Len(l1.indices) = Len(l.indices) + 1 /\ Len(m1.indices) = Len(m.indices) + 1
  BY <1>1, <1>3, <1>4
<1>7. ASSUME NEW b \in 1 .. Len(l.indices) + 1
      PROVE  Start(l1, b) = Start(l, b) /\ Start(m1, b) = Start(m, b)
  <2>1. CASE b <= Len(l.indices)
    <3>1. l1.indices[b] = l.indices[b] /\ m1.indices[b] = m.indices[b]
      BY <1>1, <1>2, <1>3, <1>4, <2>1
    <3>. QED BY <1>2, <1>3, <1>6, <2>1, <3>1 DEF Start
  <2>2. CASE b = Len(l.indices) + 1
    <3>1. l1.indices[b] = <<l.first, i>> /\ m1.indices[b] = <<m.first, j>>
      BY <1>1, <1>2, <1>3, <1>4, <2>2, SMTT(30)
    <3>. QED BY <1>2, <1>3, <1>6, <2>2, <3>1 DEF Start
  <2>3. Len(l.indices) \in Nat
    BY <1>3
  <2>4. b <= Len(l.indices) \/ b = Len(l.indices) + 1
    BY <2>3
  <2>. QED BY <2>1, <2>2, <2>4, Zenon
<1>8. ASSUME NEW x \in S
      PROVE  /\ l1.range[x][3] = m1.range[x][3] /\ l1.range[x][3] \in 1 .. Len(l1.indices) + 1
             /\ l1.range[x][1] - Start(l1, l1.range[x][3]) = m1.range[x][1] - Start(m1, m1.range[x][3])
  <2>1. /\ l.range[x][3] = m.range[x][3] /\ l.range[x][3] \in 1 .. Len(l.indices) + 1
        /\ l.range[x][1] - Start(l, l.range[x][3]) = m.range[x][1] - Start(m, m.range[x][3])
    BY DEF Alike
  <2>. QED BY <1>1, <1>3, <1>6, <1>7, <2>1
<1>9. Len(l1.indices) = Len(m1.indices) /\ l1.count = m1.count /\ l1.end - l1.first = m1.end - m1.first
  BY <1>1, <1>2, <1>4, <1>6
<1>. QED BY <1>5, <1>8, <1>9 DEF Alike, l1, m1

LEMMA PassAlike ==
  ASSUME NEW c \in Configs, NEW d \in Configs, c.bucket_size = d.bucket_size, NEW sizes \in Sizes,
         NEW l, NEW m, NEW S \in SUBSET Params, Alike(l, m, S), NEW v \in Params
  PROVE  Alike(Pass(c, sizes, l, v), Pass(d, sizes, m, v), S \cup {v})
<1>. DEFINE l1 == Placed(sizes, l, v)
            m1 == Placed(sizes, m, v)
<1>1. Alike(l1, m1, S \cup {v})
  BY PlacedAlike
<1>2. Pass(c, sizes, l, v) = IF Enough(c, l1.first, l1.end, l1.count) THEN Closed(c, l1) ELSE l1
  BY DEF Pass
<1>3. Pass(d, sizes, m, v) = IF Enough(d, m1.first, m1.end, m1.count) THEN Closed(d, m1) ELSE m1
  BY DEF Pass
<1>. HIDE DEF l1, m1
<1>4. Enough(c, l1.first, l1.end, l1.count) <=> Enough(d, m1.first, m1.end, m1.count)
  BY <1>1 DEF Enough, Alike
<1>5. Alike(Closed(c, l1), Closed(d, m1), S \cup {v})
  BY <1>1, ClosedAlike
<1>. QED BY <1>1, <1>2, <1>3, <1>4, <1>5

(* Padding does not change in which bucket a parameter is, and where there.      *)
LEMMA SamePlaces ==
  ASSUME NEW c \in Configs, NEW d \in Configs, c.bucket_size = d.bucket_size, NEW sizes \in Sizes
  PROVE  Alike(Place(c, sizes), Place(d, sizes), Params)
<1>0. N \in Nat
  BY ParamsAssumption
<1>1. PICK f \in [0 .. N -> Laying] :
        /\ f[0] = Unplaced /\ \A j \in 1 .. N : f[j] = Pass(c, sizes, f[j - 1], N + 1 - j)
        /\ Place(c, sizes) = f[N]
  BY Passes
<1>2. PICK g \in [0 .. N -> Laying] :
        /\ g[0] = Unplaced /\ \A j \in 1 .. N : g[j] = Pass(d, sizes, g[j - 1], N + 1 - j)
        /\ Place(d, sizes) = g[N]
  BY Passes
<1>. DEFINE placed(j) == {p \in Params : p > N - j}
            S == {j \in 0 .. N : Alike(f[j], g[j], placed(j))}
<1>3. 0 \in S
  <2>1. placed(0) = {} /\ 0 \in 0 .. N
    BY <1>0 DEF Params
  <2>2. f[0] \in Laying
    BY <2>1
  <2>3. Alike(Unplaced, Unplaced, {})
    BY <1>1, <2>2 DEF Alike
  <2>. QED BY <1>1, <1>2, <2>1, <2>3
<1>4. ASSUME NEW j \in 0 .. N - 1, j \in S PROVE j + 1 \in S
  <2>1. j + 1 \in 1 .. N /\ (j + 1) - 1 = j /\ j + 1 \in 0 .. N /\ N + 1 - (j + 1) \in Params
    BY <1>0 DEF Params
  <2>2. placed(j + 1) = placed(j) \cup {N + 1 - (j + 1)}
    BY <1>0 DEF Params
  <2>3. placed(j) \in SUBSET Params /\ Alike(f[j], g[j], placed(j))
    BY <1>4
  <2>. HIDE DEF placed
  <2>4. Alike(f[j + 1], g[j + 1], placed(j) \cup {N + 1 - (j + 1)})
    BY <1>1, <1>2, <2>1, <2>3, PassAlike
  <2>. QED BY <2>1, <2>2, <2>4
<1>5. N \in S
  <2>. HIDE DEF S
  <2>1. 0 .. N \subseteq S
    BY <1>0, <1>3, <1>4, InductUpTo
  <2>. QED BY <1>0, <2>1
<1>6. placed(N) = Params
  BY <1>0 DEF Params
<1>. QED BY <1>1, <1>2, <1>5, <1>6

(* The layouts of two jobs whose buckets have the same sizes.                    *)
SameBuckets(K, L) ==
  /\ DOMAIN K.buckets = DOMAIN L.buckets
  /\ \A b \in DOMAIN L.buckets : K.buckets[b].first = L.buckets[b].first /\ Numel(K, b) = Numel(L, b)

LEMMA FirstsAgree ==
  ASSUME NEW sizes \in Sizes, NEW K, NEW L, WellLaid(K, sizes), WellLaid(L, sizes),
         PerBucketNumel(K) = PerBucketNumel(L)
  PROVE  SameBuckets(K, L)
<1>1. DOMAIN K.buckets = DOMAIN L.buckets /\ \A b \in DOMAIN L.buckets : Numel(K, b) = Numel(L, b)
  <2>1. DOMAIN PerBucketNumel(K) = DOMAIN K.buckets /\ DOMAIN PerBucketNumel(L) = DOMAIN L.buckets
    BY DEF PerBucketNumel
  <2>2. \A b \in DOMAIN K.buckets : PerBucketNumel(K)[b] = Numel(K, b)
    BY DEF PerBucketNumel
  <2>3. \A b \in DOMAIN L.buckets : PerBucketNumel(L)[b] = Numel(L, b)
    BY DEF PerBucketNumel
  <2>. QED BY <2>1, <2>2, <2>3
<1>2. PICK n \in Nat \ {0} : DOMAIN L.buckets = 1 .. n
  BY DEF WellLaid
<1>3. \A b \in 1 .. n : /\ K.buckets[b].first \in Nat /\ K.buckets[b].end \in Nat
                        /\ L.buckets[b].first \in Nat /\ L.buckets[b].end \in Nat
  BY <1>1, <1>2 DEF WellLaid
<1>. DEFINE S == {i \in 0 .. n - 1 : K.buckets[i + 1].first = L.buckets[i + 1].first}
<1>4. 0 \in S
  <2>1. K.buckets[1].first = 0 /\ L.buckets[1].first = 0
    BY DEF WellLaid
  <2>. QED BY <1>2, <2>1
<1>5. ASSUME NEW i \in 0 .. (n - 1) - 1, i \in S PROVE i + 1 \in S
  <2>. DEFINE b == i + 1
  <2>1. b \in 1 .. n /\ b + 1 \in 1 .. n /\ i + 1 \in 0 .. n - 1
    BY <1>2
  <2>. HIDE DEF b
  <2>2. K.buckets[b].first = L.buckets[b].first
    BY <1>5 DEF b
  <2>3. K.buckets[b + 1].first = K.buckets[b].end /\ L.buckets[b + 1].first = L.buckets[b].end
    BY <1>1, <1>2, <2>1 DEF WellLaid
  <2>4. K.buckets[b].end - K.buckets[b].first = L.buckets[b].end - L.buckets[b].first
    BY <1>1, <1>2, <2>1 DEF Numel
  <2>5. K.buckets[b].end = L.buckets[b].end
    BY <1>3, <2>1, <2>2, <2>4
  <2>. QED BY <2>1, <2>3, <2>5 DEF b
<1>6. 0 .. n - 1 \subseteq S
  <2>. HIDE DEF S
  <2>1. n - 1 \in Nat
    BY <1>2
  <2>. QED BY <1>4, <1>5, <2>1, InductUpTo
<1>7. ASSUME NEW b \in DOMAIN L.buckets PROVE K.buckets[b].first = L.buckets[b].first
  <2>1. b - 1 \in 0 .. n - 1 /\ (b - 1) + 1 = b
    BY <1>2
  <2>2. b - 1 \in S
    BY <1>6, <2>1
  <2>. QED BY <2>1, <2>2
<1>. QED BY <1>1, <1>7 DEF SameBuckets

LEMMA StartsAt ==
  ASSUME NEW c \in Configs, NEW sizes \in Sizes, NEW p \in Params
  PROVE  LET L == LayoutOf(c, sizes)
             l == Place(c, sizes)
         IN /\ L.range[p] = l.range[p] /\ L.range[p][3] \in DOMAIN L.buckets
            /\ Start(l, L.range[p][3]) = L.buckets[L.range[p][3]].first
<1>. DEFINE L == LayoutOf(c, sizes)
            l == Place(c, sizes)
            indices == BucketIndices(c, sizes)
            b == l.range[p][3]
<1>1. /\ WellLaid(L, sizes)
      /\ L.dp = c.dp /\ L.distributed = c.distributed /\ L.range = l.range /\ L.buckets = Buckets(c, L.range)
      /\ Len(indices) \in Nat \ {0}
      /\ DOMAIN L.buckets = 1 .. Len(indices)
      /\ \A k \in DOMAIN L.buckets : indices[k] = <<L.buckets[k].first, L.buckets[k].end>>
  BY Laid
<1>2. LaidOut(c, sizes, l, Params)
  BY Filling
<1>3. l.indices \in Seq(Nat \X Nat) /\ Len(l.indices) \in Nat /\ l.count \in Nat
      /\ l.first \in Nat /\ l.end \in Nat
  BY <1>2, LayingParts DEF LaidOut
<1>4. b \in 1 .. Len(l.indices) + 1 /\ (l.count = 0 => b # Len(l.indices) + 1)
  BY <1>2 DEF LaidOut, Placing, OpenFilled
<1>5. indices = IF l.count > 0 THEN Append(l.indices, <<l.first, Pad(c, l.end)>>) ELSE l.indices
  BY DEF BucketIndices
<1>6. L.range[p] = l.range[p] /\ L.range[p][3] = b /\ b \in DOMAIN L.buckets
  <2>. HIDE DEF L, l
  <2>. QED BY <1>1 DEF WellLaid
<1>7. indices[b][1] = L.buckets[b].first
  <2>1. indices[b] = <<L.buckets[b].first, L.buckets[b].end>>
    BY <1>1, <1>6
  <2>. HIDE DEF indices, b, L
  <2>. QED BY <2>1
<1>. HIDE DEF indices, L, l, b
<1>8. Pad(c, l.end) \in Nat
  BY <1>3, Padding
<1>9. Start(l, b) = indices[b][1]
  <2>1. CASE b <= Len(l.indices)
    <3>1. indices[b] = l.indices[b]
      BY <1>3, <1>4, <1>5, <1>8, <2>1
    <3>. QED BY <2>1, <3>1 DEF Start
  <2>2. CASE b = Len(l.indices) + 1
    <3>1. l.count > 0
      BY <1>3, <1>4, <2>2
    <3>2. indices[b] = <<l.first, Pad(c, l.end)>>
      BY <1>3, <1>5, <1>8, <2>2, <3>1
    <3>3. ~(b <= Len(l.indices))
      BY <1>3, <2>2
    <3>. QED BY <3>2, <3>3 DEF Start
  <2>3. b <= Len(l.indices) \/ b = Len(l.indices) + 1
    <3>1. Len(l.indices) \in Nat /\ b \in 1 .. Len(l.indices) + 1
      BY <1>3, <1>4
    <3>. QED BY <3>1
  <2>. QED BY <2>1, <2>2, <2>3, Zenon
<1>. QED BY <1>6, <1>7, <1>9 DEF L, l

(* Two jobs that differ in the number of replicas alone, and whose buckets have  *)
(* the same sizes, keep every element at the same place of the same bucket.      *)
LEMMA SameLayout ==
  ASSUME NEW c \in Configs, NEW d \in Configs, c.bucket_size = d.bucket_size, NEW sizes \in Sizes,
         PerBucketNumel(LayoutOf(c, sizes)) = PerBucketNumel(LayoutOf(d, sizes))
  PROVE  /\ SameBuckets(LayoutOf(c, sizes), LayoutOf(d, sizes))
         /\ \A p \in Params : /\ LayoutOf(c, sizes).range[p][1] = LayoutOf(d, sizes).range[p][1]
                              /\ LayoutOf(c, sizes).range[p][2] = LayoutOf(d, sizes).range[p][2]
                              /\ LayoutOf(c, sizes).range[p][3] = LayoutOf(d, sizes).range[p][3]
<1>. DEFINE K == LayoutOf(c, sizes)
            L == LayoutOf(d, sizes)
<1>1. WellLaid(K, sizes) /\ WellLaid(L, sizes)
  BY Laid
<1>2. SameBuckets(K, L)
  <2>. HIDE DEF K, L
  <2>1. PerBucketNumel(K) = PerBucketNumel(L)
    BY DEF K, L
  <2>. QED BY <1>1, <2>1, FirstsAgree
<1>3. ASSUME NEW p \in Params
      PROVE  K.range[p][1] = L.range[p][1] /\ K.range[p][2] = L.range[p][2] /\ K.range[p][3] = L.range[p][3]
  <2>. DEFINE k == Place(c, sizes)
              l == Place(d, sizes)
  <2>1. /\ K.range[p] = k.range[p] /\ K.range[p][3] \in DOMAIN K.buckets
        /\ Start(k, K.range[p][3]) = K.buckets[K.range[p][3]].first
    BY StartsAt
  <2>2. /\ L.range[p] = l.range[p] /\ L.range[p][3] \in DOMAIN L.buckets
        /\ Start(l, L.range[p][3]) = L.buckets[L.range[p][3]].first
    BY StartsAt
  <2>3. Alike(k, l, Params)
    BY SamePlaces
  <2>. HIDE DEF K, L, k, l
  <2>4. k.range[p][3] = l.range[p][3]
        /\ k.range[p][1] - Start(k, k.range[p][3]) = l.range[p][1] - Start(l, l.range[p][3])
    BY <2>3 DEF Alike
  <2>5. K.buckets[K.range[p][3]].first = L.buckets[L.range[p][3]].first
    BY <1>2, <2>1, <2>2, <2>4 DEF SameBuckets
  <2>6. /\ K.range[p][1] \in Nat /\ L.range[p][1] \in Nat
        /\ K.range[p][2] = K.range[p][1] + sizes[p] /\ L.range[p][2] = L.range[p][1] + sizes[p]
        /\ L.buckets[L.range[p][3]].first \in Nat
    BY <1>1, <2>2 DEF WellLaid
  <2>7. K.range[p][1] - L.buckets[L.range[p][3]].first = L.range[p][1] - L.buckets[L.range[p][3]].first
    BY <2>1, <2>2, <2>4, <2>5
  <2>8. K.range[p][1] = L.range[p][1]
    BY <2>6, <2>7
  <2>. QED BY <2>1, <2>2, <2>4, <2>6, <2>8
<1>. QED BY <1>2, <1>3

LEMMA SameElements ==
  ASSUME NEW K, NEW L, NEW whole, NEW e,
         \A p \in Params : K.range[p][1] = L.range[p][1] /\ K.range[p][2] = L.range[p][2]
  PROVE  BufferAt(K, whole, e) = BufferAt(L, whole, e)
<1>1. \A p \in Params : ParamElements(K.range, p) = ParamElements(L.range, p)
  BY DEF ParamElements
<1>2. Holders(K, e) = Holders(L, e)
  BY <1>1 DEF Holders
<1>. DEFINE q == CHOOSE q \in Holders(L, e) : TRUE
<1>3. CASE Holders(L, e) = {}
  BY <1>2, <1>3 DEF BufferAt
<1>4. CASE Holders(L, e) # {}
  <2>1. q \in Holders(L, e)
    BY <1>4
  <2>2. K.range[q][1] = L.range[q][1]
    BY <2>1 DEF Holders
  <2>3. /\ BufferAt(K, whole, e) = whole[q][e - K.range[q][1] + 1]
        /\ BufferAt(L, whole, e) = whole[q][e - L.range[q][1] + 1]
    BY <1>2, <1>4 DEF BufferAt
  <2>. QED BY <2>2, <2>3
<1>. QED BY <1>3, <1>4

(* A checkpoint that the replicas have saved together is loaded by any number of *)
(* replicas whose buckets have the same sizes: each gets its shards of the same  *)
(* parameters.                                                                   *)
THEOREM CheckpointKeepsParameters ==
  ASSUME NEW c \in Configs, NEW d \in Configs, c.bucket_size = d.bucket_size,
         c.distributed, d.distributed, NEW sizes \in Sizes, NEW whole, Wholes(whole, sizes),
         PerBucketNumel(LayoutOf(c, sizes)) = PerBucketNumel(LayoutOf(d, sizes))
  PROVE  LET K == LayoutOf(c, sizes)
             L == LayoutOf(d, sizes)
         IN \A r \in 1 .. d.dp :
              LoadedShards(L, r, SavedState(K, AllShards(K, whole))) = Shards(L, r, whole)
<1>. DEFINE K == LayoutOf(c, sizes)
            L == LayoutOf(d, sizes)
            state == SavedState(K, AllShards(K, whole))
<1>1. WellLaid(K, sizes) /\ K.distributed = c.distributed
  BY Laid
<1>2. WellLaid(L, sizes) /\ L.distributed = d.distributed /\ L.dp = d.dp
  BY Laid
<1>3. /\ SameBuckets(K, L)
      /\ \A p \in Params : K.range[p][1] = L.range[p][1] /\ K.range[p][2] = L.range[p][2]
  BY SameLayout
<1>. HIDE DEF K, L
<1>4. ASSUME NEW b \in DOMAIN L.buckets PROVE state[b] = BucketContent(L, whole, b)
  <2>1. b \in DOMAIN K.buckets /\ K.buckets[b].first = L.buckets[b].first /\ Numel(K, b) = Numel(L, b)
    BY <1>3 DEF SameBuckets
  <2>2. state[b] = BucketContent(K, whole, b)
    BY <1>1, <2>1, SavedContent
  <2>3. \A e : BufferAt(K, whole, e) = BufferAt(L, whole, e)
    BY <1>3, SameElements
  <2>4. BucketContent(K, whole, b) = BucketContent(L, whole, b)
    BY <2>1, <2>3 DEF BucketContent
  <2>. QED BY <2>2, <2>4
<1>. HIDE DEF state
<1>5. Contents(state, L, whole)
  BY <1>4 DEF Contents
<1>6. ASSUME NEW r \in 1 .. d.dp PROVE LoadedShards(L, r, state) = Shards(L, r, whole)
  BY <1>2, <1>5, LoadRestores, ZenonT(60)
<1>. QED BY <1>6 DEF K, L, state

-------------------------------------------------------------------------------
(* The order of the steps                                                        *)

(* What the variables that no data goes through may hold.                        *)
Typed ==
  /\ pc \in [Replicas -> {"zero", "backward", "finish", "step", "gather", "save", "stopped"}]
  /\ it \in [Replicas -> 1 .. Iterations + 1]
  /\ mb \in [Replicas -> 0 .. M]
  /\ hook \in [Replicas -> 0 .. N - 1]
  /\ lastMb \in [Replicas -> BOOLEAN]
  /\ ready \in [Replicas -> [BucketIds -> SUBSET Params]]
  /\ issued \in [Replicas -> [BucketIds -> BOOLEAN]]
  /\ posted \in [Replicas -> Seq(BucketIds)]

(* The layout is the one of __init__, for good.                                  *)
Placement ==
  /\ args \in Settings
  /\ size \in [Params -> 1 .. MaxNumel]
  /\ range = Place(Config(D), size).range
  /\ buckets = Buckets(Config(D), range)
  /\ order \in Orders

(* The parameters whose hook has run in this backward pass, and whether their    *)
(* hooks register them.                                                          *)
Arrived(r) == {order[i] : i \in 1 .. hook[r]}
Registering(r) == OverlapGradReduce /\ lastMb[r]

Counting(r) ==
  /\ pc[r] \in {"save", "stopped"} \/ it[r] <= Iterations
  /\ pc[r] # "backward" => hook[r] = 0
  /\ pc[r] \in {"finish", "step"} => mb[r] = M
  /\ pc[r] = "backward" => (mb[r] < M /\ (lastMb[r] <=> ~OverlapGradReduce \/ mb[r] = M - 1))

Flagged(r) ==
  /\ pc[r] = "backward" => \A b \in BucketIds :
       /\ ready[r][b] = IF Registering(r) THEN buckets[b].params \cap Arrived(r) ELSE {}
       /\ issued[r][b] <=> Registering(r) /\ buckets[b].params \subseteq Arrived(r)
  /\ pc[r] = "step" \/ (pc[r] = "finish" /\ OverlapGradReduce) => \A b \in BucketIds : issued[r][b]

Queued(r) ==
  /\ pc[r] \notin {"backward", "finish"} => posted[r] = <<>>
  /\ \A i \in 1 .. Len(posted[r]) : issued[r][posted[r][i]]
  /\ \A i, j \in 1 .. Len(posted[r]) : posted[r][i] = posted[r][j] => i = j

Scheduled == \A r \in Replicas : Counting(r) /\ Flagged(r) /\ Queued(r)

ScheduleInv == Placement /\ Typed /\ Scheduled

-------------------------------------------------------------------------------
LEMMA Configured ==
  /\ N \in Nat \ {0} /\ D \in Nat \ {0} /\ M \in Nat \ {0} /\ Iterations \in Nat \ {0}
  /\ MaxNumel \in Nat \ {0} /\ Restarts \subseteq Nat \ {0}
BY ParamsAssumption, GradBufferAssumption

LEMMA Chosen ==
  ASSUME args \in Settings
  PROVE  /\ OverlapGradReduce \in BOOLEAN /\ UseDistributedOptimizer \in BOOLEAN
         /\ \A d \in Nat \ {0} : /\ Config(d) \in Configs /\ Config(d).dp = d
                                 /\ Config(d).distributed = UseDistributedOptimizer
BY GradBufferAssumption DEF OverlapGradReduce, UseDistributedOptimizer, Config, Configs

(* A step that leaves the layout alone leaves alone what is read off it.           *)
LEMMA LayoutKept ==
  ASSUME Placement, UNCHANGED layout
  PROVE  /\ Placement' /\ BucketIds' = BucketIds /\ buckets' = buckets /\ order' = order
         /\ size' = size /\ range' = range /\ args' = args
         /\ OverlapGradReduce' = OverlapGradReduce /\ UseDistributedOptimizer' = UseDistributedOptimizer
         /\ OverlapGradReduce \in BOOLEAN /\ UseDistributedOptimizer \in BOOLEAN
<1>1. args' = args /\ size' = size /\ range' = range /\ buckets' = buckets /\ order' = order
  BY DEF layout
<1>2. Placement'
  BY <1>1 DEF Placement, Config
<1>3. OverlapGradReduce \in BOOLEAN /\ UseDistributedOptimizer \in BOOLEAN
  BY Chosen DEF Placement
<1>. QED BY <1>1, <1>2, <1>3 DEF BucketIds, OverlapGradReduce, UseDistributedOptimizer

(* The layout of the buffer is sound.                                            *)
LEMMA Placed_Well ==
  ASSUME Placement
  PROVE  /\ size \in Sizes /\ Layout = LayoutOf(Config(D), size) /\ WellLaid(Layout, size)
         /\ Layout.dp = D /\ Layout.range = range /\ Layout.buckets = buckets
         /\ Layout.distributed = UseDistributedOptimizer
<1>0. D \in Nat \ {0} /\ args \in Settings /\ Config(D) \in Configs
      /\ Config(D).dp = D /\ Config(D).distributed = UseDistributedOptimizer
  BY Configured, Chosen DEF Placement
<1>1. size \in Sizes
  <2>1. 1 .. MaxNumel \subseteq Nat \ {0}
    BY Configured
  <2>. QED BY <2>1 DEF Placement, Sizes
<1>2. Layout = LayoutOf(Config(D), size)
  BY <1>0 DEF Layout, LayoutOf, Placement
<1>3. WellLaid(LayoutOf(Config(D), size), size)
  BY <1>0, <1>1, Laid
<1>. QED BY <1>1, <1>2, <1>3 DEF Layout

(* The bucket of a parameter, in short.                                          *)
LEMMA InBucket ==
  ASSUME Placement
  PROVE  /\ \A b \in BucketIds : /\ buckets[b].params = {p \in Params : BucketOf(p) = b}
                                 /\ buckets[b].params # {} /\ b \in Nat \ {0}
         /\ \A p \in Params : BucketOf(p) \in BucketIds /\ p \in buckets[BucketOf(p)].params
<1>1. WellLaid(Layout, size) /\ Layout.range = range /\ Layout.buckets = buckets
  BY Placed_Well
<1>2. \A b \in BucketIds : /\ buckets[b].params = {p \in Params : range[p][3] = b}
                           /\ buckets[b].params # {} /\ b \in Nat \ {0}
  BY <1>1 DEF WellLaid, BucketIds
<1>3. \A p \in Params : range[p][3] \in BucketIds
  BY <1>1 DEF WellLaid, BucketIds
<1>. QED BY <1>2, <1>3 DEF BucketOf

(* Every parameter has its hook, and the hooks that have run are not to come.    *)
LEMMA Hooks ==
  ASSUME order \in Orders, NEW h \in 0 .. N - 1
  PROVE  LET arrived == {order[i] : i \in 1 .. h}
             p == order[h + 1]
         IN /\ p \in Params /\ p \notin arrived
            /\ {order[i] : i \in 1 .. h + 1} = arrived \cup {p}
            /\ h + 1 = N => arrived \cup {p} = Params
<1>. DEFINE arrived == {order[i] : i \in 1 .. h}
            p == order[h + 1]
<1>1. N \in Nat \ {0} /\ Params = 1 .. N /\ h + 1 \in 1 .. N /\ h \in Nat
  BY Configured DEF Params
<1>2. order \in [1 .. N -> 1 .. N] /\ \A i, j \in 1 .. N : order[i] = order[j] => i = j
  BY <1>1 DEF Orders
<1>3. p \in Params /\ p \notin arrived
  BY <1>1, <1>2
<1>4. {order[i] : i \in 1 .. h + 1} = arrived \cup {p}
  <2>1. 1 .. h + 1 = (1 .. h) \cup {h + 1}
    BY <1>1
  <2>. QED BY <2>1
<1>5. ASSUME h + 1 = N PROVE arrived \cup {p} = Params
  <2>1. SUFFICES ASSUME NEW q \in Params, \A i \in 1 .. N : order[i] # q PROVE FALSE
    <3>1. \A q \in Params : \E i \in 1 .. N : order[i] = q
      BY <2>1
    <3>2. Params \subseteq {order[i] : i \in 1 .. N}
      BY <3>1
    <3>3. arrived \cup {p} = {order[i] : i \in 1 .. N}
      BY <1>4, <1>5
    <3>4. {order[i] : i \in 1 .. N} \subseteq Params
      BY <1>1, <1>2
    <3>. HIDE DEF arrived, p
    <3>. QED BY <3>2, <3>3, <3>4
  <2>2. IsFiniteSet(1 .. N) /\ Cardinality(1 .. N) = N
    BY <1>1, FS_Interval
  <2>3. IsFiniteSet(1 .. N \ {q}) /\ Cardinality(1 .. N \ {q}) = N - 1
    BY <1>1, <2>1, <2>2, FS_RemoveElement, ZenonT(60)
  <2>4. order \in [1 .. N -> 1 .. N \ {q}]
    BY <1>2, <2>1
  <2>5. N - 1 < N
    BY <1>1
  <2>6. \E x, y \in 1 .. N : x # y /\ order[x] = order[y]
    BY <2>2, <2>3, <2>4, <2>5, FS_PigeonHole
  <2>. QED BY <1>2, <2>6
<1>. QED BY <1>3, <1>4, <1>5

-------------------------------------------------------------------------------
(* The schedule: flags, counters and queues                                      *)

LEMMA ScheduleInit ==
  ASSUME Init
  PROVE  ScheduleInv
<1>1. Placement
  BY DEF Init, Placement
<1>2. /\ N \in Nat \ {0} /\ M \in Nat \ {0} /\ Iterations \in Nat \ {0}
  BY Configured
<1>3. Typed
  BY <1>2 DEF Init, Typed
<1>4. Scheduled
  BY <1>2 DEF Init, Scheduled, Counting, Flagged, Queued
<1>. QED BY <1>1, <1>3, <1>4 DEF ScheduleInv

(* A step of one replica leaves the schedule of the others as it is.             *)
LEMMA OthersScheduled ==
  ASSUME Scheduled, NEW r \in Replicas, UNCHANGED layout,
         \A s \in Replicas \ {r} :
           /\ pc'[s] = pc[s] /\ it'[s] = it[s] /\ mb'[s] = mb[s] /\ hook'[s] = hook[s]
           /\ lastMb'[s] = lastMb[s] /\ ready'[s] = ready[s] /\ issued'[s] = issued[s]
           /\ posted'[s] = posted[s],
         Counting(r)', Flagged(r)', Queued(r)'
  PROVE  Scheduled'
<1>0. OverlapGradReduce' = OverlapGradReduce
  BY DEF layout, OverlapGradReduce
<1>1. ASSUME NEW s \in Replicas \ {r} PROVE Counting(s)' /\ Flagged(s)' /\ Queued(s)'
  <2>1. Counting(s)'
    BY <1>0 DEF Scheduled, Counting
  <2>2. Flagged(s)'
    <3>1. Flagged(s) /\ buckets' = buckets /\ order' = order /\ BucketIds' = BucketIds
      BY DEF Scheduled, BucketIds, layout
    <3>2. Arrived(s)' = Arrived(s) /\ (Registering(s)' <=> Registering(s))
      BY <1>0, <3>1 DEF Arrived, Registering
    <3>3. ASSUME pc'[s] = "backward", NEW b \in BucketIds
          PROVE  /\ ready'[s][b] = IF Registering(s)' THEN buckets'[b].params \cap Arrived(s)' ELSE {}
                 /\ issued'[s][b] <=> Registering(s)' /\ buckets'[b].params \subseteq Arrived(s)'
      <4>1. pc[s] = "backward" /\ ready'[s][b] = ready[s][b] /\ issued'[s][b] = issued[s][b]
        BY <3>3
      <4>2. /\ ready[s][b] = IF Registering(s) THEN buckets[b].params \cap Arrived(s) ELSE {}
            /\ issued[s][b] <=> Registering(s) /\ buckets[b].params \subseteq Arrived(s)
        BY <3>1, <4>1 DEF Flagged
      <4>. QED BY <3>1, <3>2, <4>1, <4>2
    <3>4. pc'[s] = "step" \/ (pc'[s] = "finish" /\ OverlapGradReduce') => \A b \in BucketIds : issued'[s][b]
      BY <1>0, <3>1 DEF Flagged
    <3>. QED BY <3>1, <3>3, <3>4 DEF Flagged
  <2>3. Queued(s)'
    BY DEF Scheduled, Queued
  <2>. QED BY <2>1, <2>2, <2>3
<1>. QED BY <1>1 DEF Scheduled, Replicas

LEMMA ZeroKeepsSchedule ==
  ASSUME ScheduleInv, NEW r \in Replicas, ZeroGradBuffer(r)
  PROVE  ScheduleInv'
<1>1. /\ UNCHANGED layout /\ UNCHANGED <<it, posted>> /\ pc[r] = "zero"
      /\ ready' = [ready EXCEPT ![r] = [b \in BucketIds |-> {}]]
      /\ issued' = [issued EXCEPT ![r] = [b \in BucketIds |-> FALSE]]
      /\ lastMb' = [lastMb EXCEPT ![r] = ~OverlapGradReduce \/ M = 1]
      /\ pc' = [pc EXCEPT ![r] = "backward"]
      /\ mb' = [mb EXCEPT ![r] = 0]
      /\ hook' = [hook EXCEPT ![r] = 0]
  BY DEF ZeroGradBuffer
<1>2. N \in Nat \ {0} /\ M \in Nat \ {0}
  BY Configured
<1>3. Placement' /\ BucketIds' = BucketIds /\ buckets' = buckets /\ order' = order
      /\ OverlapGradReduce' = OverlapGradReduce /\ OverlapGradReduce \in BOOLEAN
  BY <1>1, <1>2, LayoutKept DEF ScheduleInv
<1>4. Typed'
  BY <1>1, <1>2, <1>3 DEF ScheduleInv, Typed
<1>5. /\ pc'[r] = "backward" /\ mb'[r] = 0 /\ hook'[r] = 0 /\ it'[r] = it[r]
      /\ lastMb'[r] = (~OverlapGradReduce \/ M = 1)
      /\ ready'[r] = [b \in BucketIds |-> {}] /\ issued'[r] = [b \in BucketIds |-> FALSE]
      /\ posted'[r] = posted[r]
  BY <1>1 DEF ScheduleInv, Typed
<1>6. Counting(r)'
  <2>1. it'[r] <= Iterations /\ mb'[r] < M /\ (mb'[r] = M - 1 <=> M = 1)
    BY <1>1, <1>2, <1>5 DEF Counting, ScheduleInv, Scheduled
  <2>2. lastMb'[r] <=> ~OverlapGradReduce \/ mb'[r] = M - 1
    <3>1. lastMb'[r] <=> ~OverlapGradReduce \/ M = 1
      BY <1>5, Zenon
    <3>. QED BY <2>1, <3>1, Zenon
  <2>. QED BY <1>3, <1>5, <2>1, <2>2 DEF Counting
<1>7. Flagged(r)'
  <2>1. Arrived(r)' = {}
    BY <1>5 DEF Arrived
  <2>2. \A b \in BucketIds : buckets[b].params # {}
    BY InBucket DEF ScheduleInv
  <2>. QED BY <1>3, <1>5, <2>1, <2>2 DEF Flagged
<1>8. Queued(r)'
  <2>1. posted'[r] = <<>>
    BY <1>1, <1>5 DEF Queued, ScheduleInv, Scheduled
  <2>. QED BY <2>1 DEF Queued
<1>9. Scheduled'
  BY <1>1, <1>6, <1>7, <1>8, OthersScheduled DEF ScheduleInv, Typed
<1>. QED BY <1>3, <1>4, <1>9 DEF ScheduleInv

(* A hook never writes to a bucket that is being reduced.                        *)
LEMMA WritesBeforeReduction ==
  ASSUME Placement, Typed, NEW r \in Replicas, Flagged(r), pc[r] = "backward"
  PROVE  ~issued[r][BucketOf(NextParam(r))]
<1>1. order \in Orders /\ hook[r] \in 0 .. N - 1
  BY DEF Placement, Typed
<1>2. NextParam(r) \in Params /\ NextParam(r) \notin Arrived(r)
  BY <1>1, Hooks DEF NextParam, Arrived
<1>3. /\ BucketOf(NextParam(r)) \in BucketIds
      /\ NextParam(r) \in buckets[BucketOf(NextParam(r))].params
  BY <1>2, InBucket
<1>. QED BY <1>2, <1>3 DEF Flagged

(* A reduction is queued once.                                                   *)
LEMMA StartQueues ==
  ASSUME Typed, NEW r \in Replicas, Queued(r), NEW b \in BucketIds, NEW content,
         StartGradSync(r, b, content), UNCHANGED layout
  PROVE  /\ issued' \in [Replicas -> [BucketIds -> BOOLEAN]] /\ posted' \in [Replicas -> Seq(BucketIds)]
         /\ \A s \in Replicas \ {r} : issued'[s] = issued[s] /\ posted'[s] = posted[s]
         /\ issued'[r][b] /\ \A c \in BucketIds \ {b} : issued'[r][c] = issued[r][c]
         /\ \A i \in 1 .. Len(posted'[r]) : issued'[r][posted'[r][i]]
         /\ \A i, j \in 1 .. Len(posted'[r]) : posted'[r][i] = posted'[r][j] => i = j
<1>1. /\ ~issued[r][b]
      /\ issued' = [issued EXCEPT ![r][b] = TRUE]
      /\ posted' = [posted EXCEPT ![r] = Append(posted[r], b)]
  BY DEF StartGradSync, Typed
<1>2. /\ issued \in [Replicas -> [BucketIds -> BOOLEAN]] /\ posted \in [Replicas -> Seq(BucketIds)]
      /\ posted[r] \in Seq(BucketIds)
  BY DEF Typed
<1>3. issued'[r] = [issued[r] EXCEPT ![b] = TRUE] /\ posted'[r] = Append(posted[r], b)
  BY <1>1, <1>2
<1>4. issued'[r][b] /\ \A c \in BucketIds \ {b} : issued'[r][c] = issued[r][c]
  BY <1>2, <1>3
<1>5. /\ issued' \in [Replicas -> [BucketIds -> BOOLEAN]] /\ posted' \in [Replicas -> Seq(BucketIds)]
      /\ \A s \in Replicas \ {r} : issued'[s] = issued[s] /\ posted'[s] = posted[s]
  BY <1>1, <1>2
<1>. DEFINE n == Len(posted[r])
<1>6. /\ n \in Nat /\ Len(posted'[r]) = n + 1 /\ posted'[r][n + 1] = b
      /\ \A i \in 1 .. n : posted'[r][i] = posted[r][i] /\ posted[r][i] \in BucketIds
  BY <1>2, <1>3
<1>7. \A i \in 1 .. n : issued[r][posted[r][i]] /\ posted[r][i] # b
  BY <1>1 DEF Queued
<1>. HIDE DEF n
<1>8. ASSUME NEW i \in 1 .. n + 1 PROVE issued'[r][posted'[r][i]]
  <2>1. CASE i = n + 1
    BY <1>4, <1>6, <2>1
  <2>2. CASE i \in 1 .. n
    BY <1>4, <1>6, <1>7, <2>2
  <2>. QED BY <1>6, <2>1, <2>2
<1>9. ASSUME NEW i \in 1 .. n + 1, NEW j \in 1 .. n + 1, posted'[r][i] = posted'[r][j] PROVE i = j
  <2>1. \A x, y \in 1 .. n : posted[r][x] = posted[r][y] => x = y
    BY DEF Queued, n
  <2>. QED BY <1>6, <1>7, <1>9, <2>1, SMTT(30)
<1>. QED BY <1>4, <1>5, <1>6, <1>8, <1>9

LEMMA HookKeepsSchedule ==
  ASSUME ScheduleInv, NEW r \in Replicas, ParamHook(r)
  PROVE  ScheduleInv'
<1>. DEFINE p == NextParam(r)
            b == BucketOf(p)
            registers == Registering(r)
            complete == ready[r][b] \cup {p} = buckets[b].params
<1>1. Placement /\ Typed /\ Counting(r) /\ Flagged(r) /\ Queued(r) /\ Scheduled
  BY DEF ScheduleInv, Scheduled
<1>2. /\ UNCHANGED layout /\ UNCHANGED it /\ pc[r] = "backward" /\ AfterHook(r)
      /\ ready' = IF registers THEN [ready EXCEPT ![r][b] = ready[r][b] \cup {p}] ELSE ready
      /\ IF registers /\ complete
           THEN StartGradSync(r, b, Accumulated(r, p))
           ELSE UNCHANGED <<issued, posted>>
  BY <1>1 DEF ParamHook, Registering, Typed
<1>3. N \in Nat \ {0} /\ M \in Nat \ {0}
  BY Configured
<1>4. Placement' /\ BucketIds' = BucketIds /\ buckets' = buckets /\ order' = order
      /\ OverlapGradReduce' = OverlapGradReduce /\ OverlapGradReduce \in BOOLEAN
  BY <1>1, <1>2, LayoutKept DEF ScheduleInv
<1>5. /\ p \in Params /\ p \notin Arrived(r)
      /\ {order[i] : i \in 1 .. hook[r] + 1} = Arrived(r) \cup {p}
      /\ hook[r] + 1 = N => Arrived(r) \cup {p} = Params
  <2>1. order \in Orders /\ hook[r] \in 0 .. N - 1
    BY <1>1 DEF Placement, Typed
  <2>. QED BY <2>1, Hooks DEF NextParam, Arrived
<1>6. /\ b \in BucketIds /\ p \in buckets[b].params
      /\ \A c \in BucketIds \ {b} : p \notin buckets[c].params
      /\ \A c \in BucketIds : buckets[c].params \subseteq Params /\ buckets[c].params # {}
  BY <1>1, <1>5, InBucket
<1>. HIDE DEF p, b
(* What the flags are before the hook, after it, and what is queued.             *)
<1>7. \A c \in BucketIds :
        /\ ready[r][c] = IF registers THEN buckets[c].params \cap Arrived(r) ELSE {}
        /\ issued[r][c] <=> registers /\ buckets[c].params \subseteq Arrived(r)
  BY <1>1, <1>2 DEF Flagged
<1>8. ready' \in [Replicas -> [BucketIds -> SUBSET Params]]
      /\ (\A s \in Replicas \ {r} : ready'[s] = ready[s])
      /\ (registers => ready'[r][b] = ready[r][b] \cup {p})
      /\ (registers => \A c \in BucketIds \ {b} : ready'[r][c] = ready[r][c])
      /\ (~registers => ready'[r] = ready[r])
  <2>1. ready \in [Replicas -> [BucketIds -> SUBSET Params]]
    BY <1>1 DEF Typed
  <2>2. CASE registers
    <3>1. ready' = [ready EXCEPT ![r] = [ready[r] EXCEPT ![b] = ready[r][b] \cup {p}]]
      BY <1>2, <2>2
    <3>2. [ready[r] EXCEPT ![b] = ready[r][b] \cup {p}] \in [BucketIds -> SUBSET Params]
      BY <1>5, <1>6, <2>1
    <3>. QED BY <1>6, <2>1, <2>2, <3>1, <3>2
  <2>3. CASE ~registers
    BY <1>2, <2>1, <2>3
  <2>. QED BY <2>2, <2>3
<1>9. \A c \in BucketIds : ready'[r][c] = IF registers THEN buckets[c].params \cap (Arrived(r) \cup {p})
                                                        ELSE {}
  <2>. HIDE DEF registers
  <2>1. CASE registers
    <3>1. ASSUME NEW c \in BucketIds \ {b}
          PROVE  ready'[r][c] = buckets[c].params \cap (Arrived(r) \cup {p})
      <4>1. ready'[r][c] = buckets[c].params \cap Arrived(r) /\ p \notin buckets[c].params
        BY <1>6, <1>7, <1>8, <2>1
      <4>. QED BY <4>1
    <3>2. ready'[r][b] = buckets[b].params \cap (Arrived(r) \cup {p})
      <4>1. ready'[r][b] = (buckets[b].params \cap Arrived(r)) \cup {p}
        BY <1>6, <1>7, <1>8, <2>1
      <4>. QED BY <1>6, <4>1
    <3>. QED BY <2>1, <3>1, <3>2
  <2>2. CASE ~registers
    BY <1>7, <1>8, <2>2
  <2>. QED BY <2>1, <2>2
<1>10. registers => (complete <=> buckets[b].params \subseteq Arrived(r) \cup {p})
  <2>. HIDE DEF registers
  <2>1. SUFFICES ASSUME registers PROVE complete <=> buckets[b].params \subseteq Arrived(r) \cup {p}
    OBVIOUS
  <2>2. ready[r][b] = buckets[b].params \cap Arrived(r)
    BY <1>6, <1>7, <2>1
  <2>. QED BY <1>6, <2>2
<1>. HIDE DEF complete
<1>11. /\ issued' \in [Replicas -> [BucketIds -> BOOLEAN]] /\ posted' \in [Replicas -> Seq(BucketIds)]
       /\ \A s \in Replicas \ {r} : issued'[s] = issued[s] /\ posted'[s] = posted[s]
       /\ \A c \in BucketIds \ {b} : issued'[r][c] = issued[r][c]
       /\ (registers /\ complete) => issued'[r][b]
       /\ ~(registers /\ complete) => issued'[r][b] = issued[r][b]
       /\ \A i \in 1 .. Len(posted'[r]) : issued'[r][posted'[r][i]]
       /\ \A i, j \in 1 .. Len(posted'[r]) : posted'[r][i] = posted'[r][j] => i = j
  <2>1. CASE registers /\ complete
    BY <1>1, <1>2, <1>6, <2>1, StartQueues
  <2>2. CASE ~(registers /\ complete)
    BY <1>1, <1>2, <2>2 DEF Typed, Queued
  <2>. QED BY <2>1, <2>2
<1>12. \A c \in BucketIds :
         issued'[r][c] <=> registers /\ buckets[c].params \subseteq Arrived(r) \cup {p}
  <2>1. ASSUME NEW c \in BucketIds \ {b}
        PROVE  issued'[r][c] <=> registers /\ buckets[c].params \subseteq Arrived(r) \cup {p}
    <3>. HIDE DEF registers
    <3>1. issued'[r][c] <=> registers /\ buckets[c].params \subseteq Arrived(r)
      BY <1>7, <1>11
    <3>2. p \notin buckets[c].params
      BY <1>6
    <3>. QED BY <3>1, <3>2
  <2>2. issued'[r][b] <=> registers /\ buckets[b].params \subseteq Arrived(r) \cup {p}
    <3>1. ~issued[r][b]
      BY <1>5, <1>6, <1>7
    <3>2. CASE registers /\ complete
      BY <1>10, <1>11, <3>2
    <3>3. CASE ~(registers /\ complete)
      BY <1>10, <1>11, <3>1, <3>3
    <3>. QED BY <3>2, <3>3
  <2>. QED BY <2>1, <2>2
<1>13. Queued(r)'
  <2>1. pc'[r] \in {"backward", "finish"}
    BY <1>1, <1>2 DEF AfterHook, Typed
  <2>. QED BY <1>11, <2>1 DEF Queued
<1>14. mb[r] \in Nat /\ mb[r] < M /\ it[r] <= Iterations /\ hook[r] \in 0 .. N - 1
       /\ (lastMb[r] <=> ~OverlapGradReduce \/ mb[r] = M - 1)
  BY <1>1, <1>2 DEF Counting, Typed
<1>15. CASE hook[r] + 1 < N
  <2>1. /\ hook' = [hook EXCEPT ![r] = hook[r] + 1] /\ UNCHANGED <<pc, mb, lastMb>>
    BY <1>1, <1>2, <1>15 DEF AfterHook, Typed
  <2>2. hook' \in [Replicas -> 0 .. N - 1] /\ hook'[r] = hook[r] + 1
        /\ \A s \in Replicas \ {r} : hook'[s] = hook[s]
    BY <1>1, <1>3, <1>14, <1>15, <2>1 DEF Typed
  <2>3. Typed'
    BY <1>1, <1>2, <1>4, <1>8, <1>11, <2>1, <2>2 DEF Typed
  <2>4. Counting(r)'
    BY <1>1, <1>2, <1>4, <2>1 DEF Counting
  <2>5. Flagged(r)'
    <3>1. Arrived(r)' = Arrived(r) \cup {p} /\ (Registering(r)' <=> registers)
      BY <1>4, <1>5, <2>1, <2>2 DEF Arrived, Registering
    <3>. QED BY <1>2, <1>4, <1>9, <1>12, <2>1, <3>1 DEF Flagged
  <2>6. Scheduled'
    BY <1>1, <1>2, <1>8, <1>11, <1>13, <2>1, <2>2, <2>4, <2>5, OthersScheduled
  <2>. QED BY <1>4, <2>3, <2>6 DEF ScheduleInv
<1>16. CASE ~(hook[r] + 1 < N)
  <2>. DEFINE last == mb[r] + 1 = M
  <2>1. /\ hook' = [hook EXCEPT ![r] = 0]
        /\ mb' = [mb EXCEPT ![r] = mb[r] + 1]
        /\ lastMb' = [lastMb EXCEPT ![r] = lastMb[r] \/ mb[r] + 1 = M - 1]
        /\ pc' = [pc EXCEPT ![r] = IF last THEN "finish" ELSE pc[r]]
    BY <1>1, <1>2, <1>16 DEF AfterHook, Typed
  <2>2. /\ hook'[r] = 0 /\ mb'[r] = mb[r] + 1 /\ mb'[r] \in 0 .. M
        /\ (lastMb'[r] <=> lastMb[r] \/ mb[r] + 1 = M - 1)
        /\ pc'[r] = (IF last THEN "finish" ELSE "backward")
    <3>1. hook'[r] = 0 /\ mb'[r] = mb[r] + 1
      BY <1>1, <2>1 DEF Typed
    <3>2. lastMb'[r] <=> lastMb[r] \/ mb[r] + 1 = M - 1
      BY <1>1, <2>1 DEF Typed
    <3>3. pc'[r] = (IF last THEN "finish" ELSE "backward")
      BY <1>1, <1>2, <2>1 DEF Typed
    <3>4. mb'[r] \in 0 .. M
      BY <1>3, <1>14, <3>1
    <3>. QED BY <3>1, <3>2, <3>3, <3>4
  <2>3. \A s \in Replicas \ {r} :
          hook'[s] = hook[s] /\ mb'[s] = mb[s] /\ lastMb'[s] = lastMb[s] /\ pc'[s] = pc[s]
    BY <1>1, <2>1 DEF Typed
  <2>4. Typed'
    <3>1. hook' \in [Replicas -> 0 .. N - 1] /\ mb' \in [Replicas -> 0 .. M]
      BY <1>1, <1>3, <1>14, <2>1 DEF Typed
    <3>2. lastMb' \in [Replicas -> BOOLEAN]
      BY <1>1, <2>1 DEF Typed
    <3>3. pc' \in [Replicas -> {"zero", "backward", "finish", "step", "gather", "save", "stopped"}]
      BY <1>1, <2>1 DEF Typed
    <3>. QED BY <1>1, <1>2, <1>4, <1>8, <1>11, <3>1, <3>2, <3>3 DEF Typed
  <2>5. hook[r] + 1 = N /\ Arrived(r) \cup {p} = Params
    BY <1>3, <1>5, <1>14, <1>16
  <2>6. \A c \in BucketIds : issued'[r][c] <=> registers
    BY <1>6, <1>12, <2>5
  <2>7. CASE last
    <3>1. registers <=> OverlapGradReduce
      <4>1. mb[r] = M - 1
        BY <1>3, <1>14, <2>7
      <4>. QED BY <1>14, <4>1 DEF Registering
    <3>2. Counting(r)' /\ pc'[r] = "finish"
      BY <1>2, <1>14, <2>2, <2>7 DEF Counting
    <3>3. Flagged(r)'
      BY <1>4, <2>6, <3>1, <3>2 DEF Flagged
    <3>4. Scheduled'
      BY <1>1, <1>2, <1>8, <1>11, <1>13, <2>3, <3>2, <3>3, OthersScheduled
    <3>. QED BY <1>4, <2>4, <3>4 DEF ScheduleInv
  <2>8. CASE ~last
    <3>1. ~registers /\ mb[r] + 1 < M /\ mb[r] # M - 1
      <4>1. mb[r] # M - 1 /\ mb[r] + 1 < M
        BY <1>3, <1>14, <2>8
      <4>. QED BY <1>14, <4>1 DEF Registering
    <3>2. pc'[r] = "backward"
      BY <2>2, <2>8
    <3>3. Counting(r)'
      <4>1. lastMb'[r] <=> ~OverlapGradReduce \/ mb'[r] = M - 1
        <5>1. lastMb[r] <=> ~OverlapGradReduce
          BY <1>14, <3>1
        <5>. QED BY <2>2, <5>1
      <4>2. mb'[r] < M /\ it'[r] <= Iterations
        BY <1>2, <1>14, <2>2, <3>1
      <4>. QED BY <1>4, <3>2, <4>1, <4>2 DEF Counting
    <3>4. Flagged(r)'
      <4>1. Arrived(r)' = {}
        BY <2>2 DEF Arrived
      <4>2. \A c \in BucketIds : ready'[r][c] = {} /\ ~issued'[r][c]
        BY <1>9, <2>6, <3>1
      <4>. QED BY <1>4, <1>6, <3>2, <4>1, <4>2 DEF Flagged
    <3>5. Scheduled'
      BY <1>1, <1>2, <1>8, <1>11, <1>13, <2>3, <3>3, <3>4, OthersScheduled
    <3>. QED BY <1>4, <2>4, <3>5 DEF ScheduleInv
  <2>. QED BY <2>7, <2>8
<1>. QED BY <1>15, <1>16

LEMMA FinishKeepsSchedule ==
  ASSUME ScheduleInv, NEW r \in Replicas, FinishGradSync(r)
  PROVE  ScheduleInv'
<1>1. Placement /\ Typed /\ Counting(r) /\ Flagged(r) /\ Queued(r) /\ Scheduled
  BY DEF ScheduleInv, Scheduled
<1>2. /\ UNCHANGED layout /\ UNCHANGED <<it, mb, hook, lastMb, ready>>
      /\ pc[r] = "finish" /\ posted[r] = <<>>
  BY DEF FinishGradSync, progress
<1>3. Placement' /\ BucketIds' = BucketIds /\ buckets' = buckets /\ order' = order
      /\ OverlapGradReduce' = OverlapGradReduce /\ OverlapGradReduce \in BOOLEAN
  BY <1>1, <1>2, LayoutKept DEF ScheduleInv
<1>4. CASE /\ \A b \in BucketIds : issued[r][b]
           /\ pc' = [pc EXCEPT ![r] = "step"] /\ UNCHANGED <<issued, posted>>
  <2>1. pc'[r] = "step" /\ Typed'
    BY <1>1, <1>2, <1>3, <1>4 DEF Typed
  <2>2. Counting(r)'
    BY <1>1, <1>2, <2>1 DEF Counting
  <2>3. Flagged(r)'
    BY <1>3, <1>4, <2>1 DEF Flagged
  <2>4. Queued(r)'
    BY <1>2, <1>4 DEF Queued
  <2>5. Scheduled'
    BY <1>1, <1>2, <1>4, <2>2, <2>3, <2>4, OthersScheduled DEF Typed
  <2>. QED BY <1>3, <2>1, <2>5 DEF ScheduleInv
<1>5. CASE /\ ~OverlapGradReduce /\ UNCHANGED pc
           /\ \E b \in BucketIds : StartGradSync(r, b, data[r])
  <2>1. PICK b \in BucketIds : StartGradSync(r, b, data[r])
    BY <1>5
  <2>2. /\ issued' \in [Replicas -> [BucketIds -> BOOLEAN]] /\ posted' \in [Replicas -> Seq(BucketIds)]
        /\ \A s \in Replicas \ {r} : issued'[s] = issued[s] /\ posted'[s] = posted[s]
        /\ \A i \in 1 .. Len(posted'[r]) : issued'[r][posted'[r][i]]
        /\ \A i, j \in 1 .. Len(posted'[r]) : posted'[r][i] = posted'[r][j] => i = j
    BY <1>1, <1>2, <2>1, StartQueues
  <2>3. Typed'
    BY <1>1, <1>2, <1>3, <1>5, <2>2 DEF Typed
  <2>4. Counting(r)'
    BY <1>1, <1>2, <1>5 DEF Counting
  <2>5. Flagged(r)'
    BY <1>2, <1>3, <1>5 DEF Flagged
  <2>6. Queued(r)'
    BY <1>2, <1>5, <2>2 DEF Queued
  <2>7. Scheduled'
    BY <1>1, <1>2, <1>5, <2>2, <2>4, <2>5, <2>6, OthersScheduled
  <2>. QED BY <1>3, <2>3, <2>7 DEF ScheduleInv
<1>. QED BY <1>4, <1>5 DEF FinishGradSync

LEMMA CompleteKeepsSchedule ==
  ASSUME ScheduleInv, Complete
  PROVE  ScheduleInv'
<1>1. Placement /\ Typed /\ Scheduled
  BY DEF ScheduleInv
<1>2. /\ UNCHANGED layout /\ UNCHANGED <<pc, it, mb, hook, lastMb, ready, issued>>
      /\ \A r \in Replicas : posted[r] # <<>>
      /\ posted' = [r \in Replicas |-> Tail(posted[r])]
  BY DEF Complete, progress, flags
<1>3. Placement' /\ BucketIds' = BucketIds /\ buckets' = buckets /\ order' = order
      /\ OverlapGradReduce' = OverlapGradReduce /\ OverlapGradReduce \in BOOLEAN
  BY <1>1, <1>2, LayoutKept DEF ScheduleInv
<1>4. ASSUME NEW r \in Replicas
      PROVE  /\ posted'[r] \in Seq(BucketIds) /\ Len(posted'[r]) = Len(posted[r]) - 1
             /\ Len(posted[r]) \in Nat /\ posted'[r] = Tail(posted[r])
             /\ \A i \in 1 .. Len(posted'[r]) :
                  posted'[r][i] = posted[r][i + 1] /\ i + 1 \in 1 .. Len(posted[r])
  <2>1. posted[r] \in Seq(BucketIds) /\ posted[r] # <<>> /\ posted'[r] = Tail(posted[r])
    BY <1>1, <1>2 DEF Typed
  <2>. QED BY <2>1
<1>5. Typed'
  BY <1>1, <1>2, <1>3, <1>4 DEF Typed
<1>6. ASSUME NEW r \in Replicas PROVE Counting(r)' /\ Flagged(r)' /\ Queued(r)'
  <2>1. Counting(r) /\ Flagged(r) /\ Queued(r)
    BY <1>1 DEF Scheduled
  <2>2. Counting(r)'
    BY <1>2, <1>3, <2>1 DEF Counting
  <2>3. Flagged(r)'
    <3>1. Arrived(r)' = Arrived(r) /\ (Registering(r)' <=> Registering(r))
      BY <1>2, <1>3 DEF Arrived, Registering
    <3>. QED BY <1>2, <1>3, <2>1, <3>1, ZenonT(60) DEF Flagged
  <2>4. Queued(r)'
    BY <1>2, <1>4, <2>1 DEF Queued
  <2>. QED BY <2>2, <2>3, <2>4
<1>. QED BY <1>3, <1>5, <1>6 DEF ScheduleInv, Scheduled, Replicas

(* The steps that only move replicas on, past the backward pass.                 *)
LEMMA LaterKeepsSchedule ==
  ASSUME ScheduleInv, UNCHANGED layout,
         UNCHANGED <<mb, hook, lastMb, ready, issued, posted>>,
         pc' \in [Replicas -> {"zero", "backward", "finish", "step", "gather", "save", "stopped"}],
         it' \in [Replicas -> 1 .. Iterations + 1],
         \A r \in Replicas :
           \/ pc'[r] = pc[r] /\ it'[r] = it[r]
           \/ /\ pc[r] \notin {"backward", "finish"}
              /\ pc'[r] \notin {"backward", "finish", "step"}
              /\ pc'[r] \in {"save", "stopped"} \/ it'[r] <= Iterations
  PROVE  ScheduleInv'
<1>1. Placement /\ Typed /\ Scheduled
  BY DEF ScheduleInv
<1>2. Placement' /\ BucketIds' = BucketIds /\ buckets' = buckets /\ order' = order
      /\ OverlapGradReduce' = OverlapGradReduce /\ OverlapGradReduce \in BOOLEAN
  BY <1>1, LayoutKept DEF ScheduleInv
<1>3. Typed'
  BY <1>1, <1>2 DEF Typed
<1>4. ASSUME NEW r \in Replicas PROVE Counting(r)' /\ Flagged(r)' /\ Queued(r)'
  <2>1. Counting(r) /\ Flagged(r) /\ Queued(r)
    BY <1>1 DEF Scheduled
  <2>2. CASE pc'[r] = pc[r] /\ it'[r] = it[r]
    <3>1. Counting(r)'
      BY <1>2, <2>1, <2>2 DEF Counting
    <3>2. Flagged(r)'
      <4>1. Arrived(r)' = Arrived(r) /\ (Registering(r)' <=> Registering(r))
        BY <1>2 DEF Arrived, Registering
      <4>. QED BY <1>2, <2>1, <2>2, <4>1, ZenonT(60) DEF Flagged
    <3>3. Queued(r)'
      BY <2>1, <2>2 DEF Queued
    <3>. QED BY <3>1, <3>2, <3>3
  <2>3. CASE ~(pc'[r] = pc[r] /\ it'[r] = it[r])
    <3>1. /\ pc[r] \notin {"backward", "finish"}
          /\ pc'[r] \notin {"backward", "finish", "step"}
          /\ pc'[r] \in {"save", "stopped"} \/ it'[r] <= Iterations
      BY <2>3
    <3>. QED BY <2>1, <3>1 DEF Counting, Flagged, Queued
  <2>. QED BY <2>2, <2>3
<1>. QED BY <1>2, <1>3, <1>4 DEF ScheduleInv, Scheduled, Replicas

LEMMA NextKeepsSchedule ==
  ASSUME ScheduleInv, [Next]_vars
  PROVE  ScheduleInv'
<1>0. Iterations \in Nat \ {0} /\ Typed /\ \A r \in Replicas : Counting(r)
  BY Configured DEF ScheduleInv, Scheduled
<1>1. ASSUME NEW r \in Replicas, OptimizerStep(r) PROVE ScheduleInv'
  <2>1. /\ UNCHANGED layout /\ UNCHANGED <<mb, hook, lastMb, ready, issued, posted>> /\ pc[r] = "step"
        /\ it' = [it EXCEPT ![r] = it[r] + 1]
        /\ pc' = [pc EXCEPT ![r] = IF it[r] = Iterations THEN "save" ELSE "zero"]
    BY <1>0, <1>1 DEF OptimizerStep, flags, AfterStep, Typed
  <2>2. it[r] \in 1 .. Iterations
    <3>1. it[r] \in 1 .. Iterations + 1
      BY <1>0 DEF Typed
    <3>2. it[r] <= Iterations
      BY <1>0, <2>1 DEF Counting
    <3>. QED BY <1>0, <3>1, <3>2
  <2>3. \A s \in Replicas \ {r} : pc'[s] = pc[s] /\ it'[s] = it[s]
    BY <1>0, <2>1 DEF Typed
  <2>4. pc'[r] \in {"save", "zero"} /\ (pc'[r] = "save" \/ it'[r] <= Iterations)
    BY <1>0, <2>1, <2>2 DEF Typed
  <2>5. it' \in [Replicas -> 1 .. Iterations + 1]
    BY <1>0, <2>1, <2>2 DEF Typed
  <2>6. pc' \in [Replicas -> {"zero", "backward", "finish", "step", "gather", "save", "stopped"}]
    BY <1>0, <2>1 DEF Typed
  <2>. QED BY <2>1, <2>3, <2>4, <2>5, <2>6, LaterKeepsSchedule
<1>2. ASSUME NEW r \in Replicas, ShardStep(r) PROVE ScheduleInv'
  <2>1. /\ UNCHANGED layout /\ UNCHANGED <<it, mb, hook, lastMb, ready, issued, posted>> /\ pc[r] = "step"
        /\ pc' = [pc EXCEPT ![r] = "gather"]
    BY <1>2 DEF ShardStep, flags, progress
  <2>2. it[r] <= Iterations
    BY <1>0, <2>1 DEF Counting
  <2>3. /\ pc'[r] = "gather" /\ \A s \in Replicas \ {r} : pc'[s] = pc[s]
        /\ pc' \in [Replicas -> {"zero", "backward", "finish", "step", "gather", "save", "stopped"}]
        /\ it' \in [Replicas -> 1 .. Iterations + 1]
    BY <1>0, <2>1 DEF Typed
  <2>. QED BY <2>1, <2>2, <2>3, LaterKeepsSchedule
<1>3. ASSUME GatherParams PROVE ScheduleInv'
  <2>1. /\ UNCHANGED layout /\ UNCHANGED <<mb, hook, lastMb, ready, issued, posted>>
        /\ \A r \in Replicas : pc[r] = "gather"
        /\ it' = [r \in Replicas |-> it[r] + 1]
        /\ pc' = [r \in Replicas |-> IF it[r] = Iterations THEN "save" ELSE "zero"]
    BY <1>3 DEF GatherParams, flags, AfterStep
  <2>2. \A r \in Replicas : it[r] \in 1 .. Iterations
    <3>1. \A r \in Replicas : it[r] \in 1 .. Iterations + 1
      BY <1>0 DEF Typed
    <3>2. \A r \in Replicas : it[r] <= Iterations
      BY <1>0, <2>1 DEF Counting
    <3>. QED BY <1>0, <3>1, <3>2
  <2>3. \A r \in Replicas : pc'[r] \in {"save", "zero"} /\ (pc'[r] = "save" \/ it'[r] <= Iterations)
    BY <1>0, <2>1, <2>2
  <2>4. it' \in [Replicas -> 1 .. Iterations + 1]
    BY <1>0, <2>1, <2>2
  <2>5. pc' \in [Replicas -> {"zero", "backward", "finish", "step", "gather", "save", "stopped"}]
    BY <2>1
  <2>. QED BY <2>1, <2>3, <2>4, <2>5, LaterKeepsSchedule
<1>4. ASSUME Save PROVE ScheduleInv'
  <2>1. /\ UNCHANGED layout /\ UNCHANGED <<it, mb, hook, lastMb, ready, issued, posted>>
        /\ \A r \in Replicas : pc[r] = "save"
        /\ pc' = [r \in Replicas |-> "stopped"]
    BY <1>4 DEF Save, flags, progress
  <2>2. it' \in [Replicas -> 1 .. Iterations + 1]
    BY <1>0, <2>1 DEF Typed
  <2>. QED BY <2>1, <2>2, LaterKeepsSchedule
<1>5. ASSUME UNCHANGED <<layout, pc, progress, lastMb, flags, posted>> PROVE ScheduleInv'
  <2>1. /\ UNCHANGED layout /\ UNCHANGED <<mb, hook, lastMb, ready, issued, posted>> /\ UNCHANGED <<pc, it>>
    BY <1>5 DEF flags, progress
  <2>2. /\ pc' \in [Replicas -> {"zero", "backward", "finish", "step", "gather", "save", "stopped"}]
        /\ it' \in [Replicas -> 1 .. Iterations + 1]
    BY <1>0, <2>1 DEF Typed
  <2>. QED BY <2>1, <2>2, LaterKeepsSchedule
<1>6. ASSUME NEW n \in Restarts, Restart(n) PROVE ScheduleInv'
  BY <1>5, <1>6 DEF Restart
<1>7. CASE UNCHANGED vars
  BY <1>5, <1>7 DEF vars
<1>8. ASSUME NEW r \in Replicas, ReplicaStep(r) PROVE ScheduleInv'
  BY <1>1, <1>2, <1>8, ZeroKeepsSchedule, HookKeepsSchedule, FinishKeepsSchedule DEF ReplicaStep
<1>. QED BY <1>3, <1>4, <1>6, <1>7, <1>8, CompleteKeepsSchedule DEF Next, Finished

(* THEOREM: the flags of the buckets follow the hooks, and the queues the flags. *)
THEOREM Schedule == Spec => []ScheduleInv
<1>1. Init => ScheduleInv
  BY ScheduleInit
<1>2. ScheduleInv /\ [Next]_vars => ScheduleInv'
  BY NextKeepsSchedule
<1>. QED BY <1>1, <1>2, PTL DEF Spec

(* Both loops of __init__ agree and every layout fits, for all sizes.            *)
THEOREM LayoutIsSound == Spec => []LayoutSound
<1>1. ScheduleInv => LayoutSound
  <2>. SUFFICES ASSUME ScheduleInv PROVE LayoutSound
    OBVIOUS
  <2>0. Placement /\ args \in Settings /\ D \in Nat \ {0} /\ Config(D) \in Configs
    BY Configured, Chosen DEF ScheduleInv, Placement
  <2>1. /\ size \in Sizes /\ Layout = LayoutOf(Config(D), size) /\ WellLaid(Layout, size)
        /\ Layout.dp = D /\ Layout.range = range /\ Layout.buckets = buckets
        /\ Layout.distributed = UseDistributedOptimizer
    BY <2>0, Placed_Well
  <2>2. /\ BucketIds = 1 .. Len(BucketIndices(Config(D), size))
        /\ \A b \in BucketIds :
             BucketIndices(Config(D), size)[b] = <<buckets[b].first, buckets[b].end>>
    BY <2>0, <2>1, Laid DEF BucketIds
  <2>3. ASSUME NEW b \in BucketIds, UseDistributedOptimizer
        PROVE  /\ buckets[b].end % D = 0
               /\ Bucket(b) = UNION {Shard(b, r) : r \in Replicas}
    <3>1. b \in DOMAIN Layout.buckets /\ Layout.buckets[b] = buckets[b]
      BY <2>1 DEF BucketIds
    <3>2. buckets[b].end % D = 0
      BY <2>1, <2>3, <3>1 DEF WellLaid
    <3>4. Layout.distributed
      BY <2>1, <2>3
    <3>3. BucketElements(Layout.buckets[b]) =
            UNION {ShardElements(Layout.dp, Layout.buckets[b], r) : r \in 1 .. Layout.dp}
      BY <2>1, <3>1, <3>4, ShardsCover
    <3>. QED BY <2>1, <3>1, <3>2, <3>3 DEF Bucket, Shard, Replicas
  <2>4. ASSUME NEW b \in BucketIds, b + 1 \in BucketIds PROVE Cardinality(buckets[b].params) > 1
    <3>. DEFINE S == buckets[b].params
    <3>1. PICK p \in S, q \in S : p # q
      BY <2>1, <2>4 DEF WellLaid, BucketIds
    <3>2. S \subseteq 1 .. N /\ IsFiniteSet(1 .. N)
      <4>1. S \subseteq Params
        BY <2>1 DEF WellLaid, BucketIds
      <4>2. N \in Int
        BY Configured
      <4>. QED BY <4>1, <4>2, FS_Interval DEF Params
    <3>. HIDE DEF S
    <3>3. IsFiniteSet({p, q}) /\ Cardinality({p, q}) = 2
      <4>1. IsFiniteSet({p}) /\ Cardinality({p}) = 1
        BY FS_Singleton
      <4>2. {p} \cup {q} = {p, q} /\ q \notin {p}
        BY <3>1
      <4>3. IsFiniteSet({p} \cup {q}) /\ Cardinality({p} \cup {q}) = Cardinality({p}) + 1
        BY <4>1, <4>2, FS_AddElement
      <4>. QED BY <4>1, <4>2, <4>3
    <3>4. IsFiniteSet(S) /\ Cardinality({p, q}) <= Cardinality(S) /\ Cardinality(S) \in Nat
      BY <3>2, FS_Subset, FS_CardinalityType
    <3>. QED BY <3>3, <3>4 DEF S
  <2>5. ASSUME NEW p \in Params
        PROVE  /\ Cardinality(MainGrad(p)) = size[p]
               /\ MainGrad(p) \subseteq Bucket(BucketOf(p))
               /\ \A q \in Params \ {p} : MainGrad(p) \cap MainGrad(q) = {}
    BY <2>1, OwnElements DEF MainGrad, Bucket, BucketOf
  <2>. QED BY <2>2, <2>3, <2>4, <2>5 DEF LayoutSound
<1>2. Spec => []ScheduleInv
  BY Schedule
<1>. QED BY <1>1, <1>2, PTL

(* No hook writes to a bucket whose reduction has been issued.                   *)
THEOREM NeverWritesInFlight == Spec => []NoWriteInFlight
<1>1. ScheduleInv => NoWriteInFlight
  BY WritesBeforeReduction DEF ScheduleInv, Scheduled, NoWriteInFlight
<1>2. Spec => []ScheduleInv
  BY Schedule
<1>. QED BY <1>1, <1>2, PTL

-------------------------------------------------------------------------------
(* The gradients                                                                 *)

(* What the buffer holds: n in the place of replica r's gradients; the gradients *)
(* of one replica after the division, and of all of them after the reduction.    *)
Own(r, n) == [q \in Replicas |-> IF q = r THEN n ELSE 0]
Mean == (M * Unit) \div D
Average == [q \in Replicas |-> Mean]

(* The microbatches whose gradient of p is in.                                   *)
Counted(r, p) == mb[r] + (IF p \in Arrived(r) THEN 1 ELSE 0)

Waiting(r, b) == \E i \in 1 .. Len(posted[r]) : posted[r][i] = b

(* Element e of parameter p.                                                     *)
Content(r, p, e) ==
  LET b == BucketOf(p) IN
  /\ ~issued[r][b] => data[r][e] = Own(r, Counted(r, p) * Unit)
  /\ issued[r][b] /\ Waiting(r, b) => data[r][e] = Own(r, Mean)
  /\ issued[r][b] /\ ~Waiting(r, b) /\ e \in Reduced(r, b) => data[r][e] = Average

Summed(r) ==
  pc[r] \in {"backward", "finish", "step"} => \A p \in Params : \A e \in MainGrad(p) : Content(r, p, e)

Cleared(r) ==
  pc[r] = "zero" /\ UseDistributedOptimizer => \A e \in Elements : data[r][e] = Zero

DataTyped == data \in [Replicas -> [Elements -> [Replicas -> Nat]]]

DataInv == DataTyped /\ \A r \in Replicas : Summed(r) /\ Cleared(r)

(* The elements of the parameters.                                               *)
LEMMA ElementsOf ==
  ASSUME Placement
  PROVE  /\ \A p \in Params : /\ MainGrad(p) \subseteq Elements /\ MainGrad(p) \subseteq Bucket(BucketOf(p))
                              /\ BucketOf(p) \in BucketIds
         /\ \A p, q \in Params : \A e \in MainGrad(p) : e \in MainGrad(q) => p = q
         /\ \A p \in Params : \A e \in MainGrad(p) : \A b \in BucketIds : e \in Bucket(b) => b = BucketOf(p)
<1>1. /\ size \in Sizes /\ WellLaid(Layout, size) /\ Layout.range = range /\ Layout.buckets = buckets
  BY Placed_Well
<1>2. ASSUME NEW p \in Params
      PROVE  /\ MainGrad(p) \subseteq Bucket(BucketOf(p)) /\ BucketOf(p) \in BucketIds
             /\ \A q \in Params \ {p} : MainGrad(p) \cap MainGrad(q) = {}
  <2>1. BucketOf(p) \in BucketIds
    BY InBucket
  <2>. QED BY <1>1, <2>1, OwnElements DEF MainGrad, Bucket, BucketOf
<1>3. \A b \in BucketIds : Bucket(b) \subseteq Elements
  BY DEF Elements
<1>4. ASSUME NEW p \in Params, NEW e \in MainGrad(p), NEW b \in BucketIds, e \in Bucket(b)
      PROVE  b = BucketOf(p)
  <2>1. e \in ParamElements(Layout.range, p) /\ e \in BucketElements(Layout.buckets[b]) /\ b \in DOMAIN Layout.buckets
    BY <1>1, <1>4 DEF MainGrad, Bucket, BucketIds
  <2>2. b = Layout.range[p][3]
    BY <1>1, <2>1, OwnBucket
  <2>. QED BY <1>1, <2>2 DEF BucketOf
<1>. QED BY <1>2, <1>3, <1>4

(* What is read off the layout.                                                  *)
LEMMA PlacesKept ==
  ASSUME Placement, UNCHANGED layout
  PROVE  /\ \A p : MainGrad(p)' = MainGrad(p) /\ BucketOf(p)' = BucketOf(p)
         /\ \A r, b : Reduced(r, b)' = Reduced(r, b)
         /\ \A b : Bucket(b)' = Bucket(b)
         /\ Elements' = Elements /\ BucketIds' = BucketIds
<1>1. args' = args /\ size' = size /\ range' = range /\ buckets' = buckets
  BY DEF layout
<1>. QED BY <1>1 DEF MainGrad, BucketOf, Reduced, Config, Bucket, Elements, BucketIds

LEMMA DataKept ==
  ASSUME Placement, UNCHANGED layout, NEW s \in Replicas, Summed(s), Cleared(s),
         pc'[s] = pc[s], data'[s] = data[s], issued'[s] = issued[s], posted'[s] = posted[s],
         mb'[s] = mb[s], hook'[s] = hook[s]
  PROVE  Summed(s)' /\ Cleared(s)'
<1>1. /\ \A p : MainGrad(p)' = MainGrad(p) /\ BucketOf(p)' = BucketOf(p)
      /\ \A r, b : Reduced(r, b)' = Reduced(r, b)
      /\ Elements' = Elements
  BY PlacesKept
<1>2. order' = order /\ UseDistributedOptimizer' = UseDistributedOptimizer
  BY DEF layout, UseDistributedOptimizer
<1>3. ASSUME NEW p, NEW e PROVE Content(s, p, e)' <=> Content(s, p, e)
  <2>1. Counted(s, p)' = Counted(s, p)
    BY <1>2 DEF Counted, Arrived
  <2>2. \A b : Waiting(s, b)' <=> Waiting(s, b)
    BY DEF Waiting
  <2>3. \A n : Own(s, n)' = Own(s, n)
    BY DEF Own
  <2>4. Mean' = Mean /\ Average' = Average /\ Unit' = Unit
    BY DEF Mean, Average, Unit
  <2>. QED BY <1>1, <2>1, <2>2, <2>3, <2>4 DEF Content
<1>4. Summed(s)'
  BY <1>1, <1>3 DEF Summed
<1>5. Cleared(s)'
  BY <1>1, <1>2 DEF Cleared, Zero
<1>. QED BY <1>4, <1>5

-------------------------------------------------------------------------------
(* The gradients of one replica: adding to them and dividing them                *)

Gradients == [Elements -> [Replicas -> Nat]]

LEMMA Means ==
  /\ Unit \in Nat \ {0} /\ M * Unit \in Nat /\ Mean \in Nat /\ 0 \div D = 0
  /\ \A n \in Nat : n * Unit \in Nat /\ n * Unit + Unit = (n + 1) * Unit /\ n \div D \in Nat
  /\ \A r, n : Own(r, n) = [q \in Replicas |-> IF q = r THEN n ELSE 0]
<1>1. D \in Nat \ {0} /\ M \in Nat
  BY Configured
<1>2. Unit \in Nat \ {0}
  BY <1>1 DEF Unit
<1>3. \A n \in Nat : n \div D \in Nat
  <2>1. ASSUME NEW n \in Nat PROVE n \div D \in Nat
    <3>1. /\ n \div D \in Int /\ n % D \in 0 .. D - 1 /\ n = (n \div D) * D + (n % D)
      BY <1>1, Division
    <3>2. (-1) * D < (n \div D) * D
      BY <1>1, <3>1
    <3>3. -1 < n \div D
      BY <1>1, <3>1, <3>2, TimesCancel
    <3>. QED BY <3>1, <3>3
  <2>. QED BY <2>1
<1>4. 0 \div D = 0
  <2>1. (0 * D + 0) \div D = 0
    BY <1>1, DivisionUnique
  <2>. QED BY <1>1, <2>1
<1>5. \A n \in Nat : n * Unit \in Nat /\ n * Unit + Unit = (n + 1) * Unit
  BY <1>2
<1>6. M * Unit \in Nat
  BY <1>1, <1>5
<1>7. Mean \in Nat
  BY <1>3, <1>6 DEF Mean
<1>. QED BY <1>2, <1>3, <1>4, <1>5, <1>6, <1>7 DEF Own

LEMMA AccumulatedContent ==
  ASSUME Placement, DataTyped, NEW r \in Replicas, NEW p \in Params
  PROVE  /\ Accumulated(r, p) \in Gradients
         /\ \A q \in Params : \A e \in MainGrad(q) :
              q # p => Accumulated(r, p)[e] = data[r][e]
         /\ \A n \in Nat : \A e \in MainGrad(p) :
              data[r][e] = Own(r, n) => Accumulated(r, p)[e] = Own(r, n + Unit)
<1>. DEFINE new == Accumulated(r, p)
<1>1. data[r] \in [Elements -> [Replicas -> Nat]] /\ Unit \in Nat
  BY Means DEF DataTyped
<1>2. \A e \in Elements : new[e] = IF e \in MainGrad(p) THEN [data[r][e] EXCEPT ![r] = data[r][e][r] + Unit]
                                                      ELSE data[r][e]
  BY <1>1 DEF Accumulated
<1>3. new = [e \in Elements |-> new[e]]
  BY DEF Accumulated
<1>. HIDE DEF new
<1>4. ASSUME NEW e \in Elements PROVE new[e] \in [Replicas -> Nat]
  <2>1. data[r][e] \in [Replicas -> Nat]
    BY <1>1
  <2>2. data[r][e][r] + Unit \in Nat
    BY <1>1, <2>1
  <2>. QED BY <1>2, <2>1, <2>2
<1>5. new \in Gradients
  BY <1>3, <1>4 DEF Gradients
<1>6. ASSUME NEW q \in Params, NEW e \in MainGrad(q), q # p PROVE new[e] = data[r][e]
  <2>1. e \in Elements /\ e \notin MainGrad(p)
    BY <1>6, ElementsOf
  <2>. QED BY <1>2, <2>1
<1>7. ASSUME NEW n \in Nat, NEW e \in MainGrad(p), data[r][e] = Own(r, n) PROVE new[e] = Own(r, n + Unit)
  <2>1. e \in Elements
    BY ElementsOf
  <2>2. new[e] = [Own(r, n) EXCEPT ![r] = Own(r, n)[r] + Unit]
    BY <1>2, <1>7, <2>1
  <2>. QED BY <2>2 DEF Own
<1>. QED BY <1>5, <1>6, <1>7 DEF new

LEMMA DividedContent ==
  ASSUME Placement, NEW b \in BucketIds, NEW content \in Gradients
  PROVE  /\ Divided(content, b) \in Gradients
         /\ \A q \in Params : \A e \in MainGrad(q) :
              BucketOf(q) # b => Divided(content, b)[e] = content[e]
         /\ \A q \in Params : \A e \in MainGrad(q) : \A r \in Replicas :
              BucketOf(q) = b /\ content[e] = Own(r, M * Unit) => Divided(content, b)[e] = Own(r, Mean)
<1>. DEFINE new == Divided(content, b)
<1>1. \A e \in Elements : new[e] = IF e \in Bucket(b) THEN [q \in Replicas |-> content[e][q] \div D]
                                                     ELSE content[e]
  BY DEF Divided
<1>2. new = [e \in Elements |-> new[e]]
  BY DEF Divided
<1>3. \A e \in Elements : content[e] \in [Replicas -> Nat]
  BY DEF Gradients
<1>. HIDE DEF new
<1>4. ASSUME NEW e \in Elements PROVE new[e] \in [Replicas -> Nat]
  <2>1. \A q \in Replicas : content[e][q] \div D \in Nat
    BY <1>3, Means
  <2>. QED BY <1>1, <1>3, <2>1
<1>5. new \in Gradients
  BY <1>2, <1>4 DEF Gradients
<1>6. ASSUME NEW q \in Params, NEW e \in MainGrad(q), BucketOf(q) # b PROVE new[e] = content[e]
  <2>1. e \in Elements /\ e \notin Bucket(b)
    BY <1>6, ElementsOf
  <2>. QED BY <1>1, <2>1
<1>7. ASSUME NEW q \in Params, NEW e \in MainGrad(q), NEW r \in Replicas, BucketOf(q) = b,
             content[e] = Own(r, M * Unit)
      PROVE  new[e] = Own(r, Mean)
  <2>1. e \in Elements /\ e \in Bucket(b)
    BY <1>7, ElementsOf
  <2>2. new[e] = [s \in Replicas |-> Own(r, M * Unit)[s] \div D]
    BY <1>1, <1>7, <2>1
  <2>3. ASSUME NEW s \in Replicas PROVE Own(r, M * Unit)[s] \div D = Own(r, Mean)[s]
    BY Means DEF Own, Mean
  <2>4. Own(r, Mean) = [s \in Replicas |-> Own(r, Mean)[s]]
    BY DEF Own
  <2>. QED BY <2>2, <2>3, <2>4
<1>. QED BY <1>5, <1>6, <1>7 DEF new

-------------------------------------------------------------------------------
(* The data through the actions                                                  *)

(* A buffer that has the gradients that are counted after a step, and still has   *)
(* what was being reduced.                                                       *)
Grown(r, content) ==
  /\ content \in Gradients
  /\ \A p \in Params : \A e \in MainGrad(p) :
       /\ ~issued[r][BucketOf(p)] => content[e] = Own(r, Counted(r, p)' * Unit)
       /\ issued[r][BucketOf(p)] => content[e] = data[r][e]

LEMMA GrownContent ==
  ASSUME Placement, UNCHANGED layout, NEW r \in Replicas, NEW content, Grown(r, content),
         \A p \in Params : \A e \in MainGrad(p) : Content(r, p, e),
         data'[r] = content, issued'[r] = issued[r], posted'[r] = posted[r]
  PROVE  \A p \in Params : \A e \in MainGrad(p) : Content(r, p, e)'
<1>1. /\ \A p : MainGrad(p)' = MainGrad(p) /\ BucketOf(p)' = BucketOf(p)
      /\ \A s, b : Reduced(s, b)' = Reduced(s, b)
  BY PlacesKept
<1>2. \A b : Waiting(r, b)' <=> Waiting(r, b)
  BY DEF Waiting
<1>3. /\ \A n : Own(r, n)' = Own(r, n)
      /\ Mean' = Mean /\ Average' = Average /\ Unit' = Unit
  BY DEF Own, Mean, Average, Unit
<1>4. ASSUME NEW p \in Params, NEW e \in MainGrad(p) PROVE Content(r, p, e)'
  <2>. DEFINE b == BucketOf(p)
  <2>1. Content(r, p, e)
    OBVIOUS
  <2>2. CASE issued[r][b]
    <3>1. data'[r][e] = data[r][e] /\ issued'[r][b]
      BY <2>2 DEF Grown
    <3>. QED BY <1>1, <1>2, <1>3, <2>1, <2>2, <3>1 DEF Content
  <2>3. CASE ~issued[r][b]
    <3>1. data'[r][e] = Own(r, Counted(r, p)' * Unit) /\ ~issued'[r][b]
      BY <2>3 DEF Grown
    <3>. QED BY <1>1, <1>3, <3>1 DEF Content
  <2>. QED BY <2>2, <2>3
<1>. QED BY <1>4

LEMMA StartContent ==
  ASSUME Placement, Typed, DataTyped, UNCHANGED layout, NEW r \in Replicas, NEW b \in BucketIds,
         NEW content, Grown(r, content), StartGradSync(r, b, content),
         \A p \in Params : \A e \in MainGrad(p) : Content(r, p, e),
         \A p \in Params : BucketOf(p) = b => Counted(r, p)' = M
  PROVE  /\ \A p \in Params : \A e \in MainGrad(p) : Content(r, p, e)'
         /\ DataTyped' /\ \A s \in Replicas \ {r} : data'[s] = data[s]
<1>1. /\ \A p : MainGrad(p)' = MainGrad(p) /\ BucketOf(p)' = BucketOf(p)
      /\ \A s, c : Reduced(s, c)' = Reduced(s, c)
      /\ Elements' = Elements
  BY PlacesKept
<1>2. /\ \A n : Own(r, n)' = Own(r, n)
      /\ Mean' = Mean /\ Average' = Average /\ Unit' = Unit
  BY DEF Own, Mean, Average, Unit
<1>3. /\ ~issued[r][b] /\ data' = [data EXCEPT ![r] = Divided(content, b)]
      /\ issued' = [issued EXCEPT ![r][b] = TRUE]
      /\ posted' = [posted EXCEPT ![r] = Append(posted[r], b)]
  BY DEF StartGradSync, Typed
<1>. DEFINE new == Divided(content, b)
<1>4. new \in Gradients
  BY DividedContent DEF Grown
<1>5. data'[r] = new /\ \A s \in Replicas \ {r} : data'[s] = data[s]
  BY <1>3 DEF DataTyped
<1>6. DataTyped'
  <2>. HIDE DEF new
  <2>1. data' = [data EXCEPT ![r] = new]
    BY <1>3 DEF new
  <2>. QED BY <1>1, <1>4, <2>1 DEF DataTyped, Gradients
<1>7. posted[r] \in Seq(BucketIds) /\ posted'[r] = Append(posted[r], b)
  BY <1>3 DEF Typed
<1>8. issued'[r][b] /\ \A c \in BucketIds \ {b} : issued'[r][c] = issued[r][c]
  BY <1>3 DEF Typed
<1>9. Waiting(r, b)' /\ \A c \in BucketIds \ {b} : Waiting(r, c)' <=> Waiting(r, c)
  <2>. DEFINE n == Len(posted[r])
  <2>1. /\ n \in Nat /\ Len(posted'[r]) = n + 1 /\ posted'[r][n + 1] = b
        /\ \A i \in 1 .. n : posted'[r][i] = posted[r][i]
    BY <1>7
  <2>. HIDE DEF n
  <2>2. Waiting(r, b)'
    <3>1. n + 1 \in 1 .. n + 1
      BY <2>1
    <3>. QED BY <2>1, <3>1 DEF Waiting
  <2>3. ASSUME NEW c \in BucketIds \ {b} PROVE Waiting(r, c)' <=> Waiting(r, c)
    <3>1. \A i \in 1 .. n + 1 : i \in 1 .. n \/ i = n + 1
      BY <2>1
    <3>2. \A i \in 1 .. n : i \in 1 .. n + 1
      BY <2>1
    <3>3. Waiting(r, c) <=> \E i \in 1 .. n : posted[r][i] = c
      BY DEF Waiting, n
    <3>4. Waiting(r, c)' <=> \E i \in 1 .. n + 1 : posted'[r][i] = c
      BY <2>1 DEF Waiting
    <3>. QED BY <2>1, <3>1, <3>2, <3>3, <3>4
  <2>. QED BY <2>2, <2>3
<1>10. ASSUME NEW p \in Params, NEW e \in MainGrad(p) PROVE Content(r, p, e)'
  <2>0. BucketOf(p) \in BucketIds
    BY ElementsOf
  <2>1. CASE BucketOf(p) = b
    <3>1. content[e] = Own(r, M * Unit)
      BY <1>3, <2>1 DEF Grown
    <3>2. new[e] = Own(r, Mean)
      BY <2>1, <3>1, DividedContent DEF Grown
    <3>. QED BY <1>1, <1>2, <1>5, <1>8, <1>9, <2>1, <3>2 DEF Content
  <2>2. CASE BucketOf(p) # b
    <3>1. new[e] = content[e]
      BY <2>2, DividedContent DEF Grown
    <3>2. data'[r][e] = content[e]
      BY <1>5, <3>1
    <3>3. /\ issued'[r][BucketOf(p)] = issued[r][BucketOf(p)]
          /\ Waiting(r, BucketOf(p))' <=> Waiting(r, BucketOf(p))
      <4>1. issued'[r][BucketOf(p)] = issued[r][BucketOf(p)]
        BY <1>8, <2>0, <2>2
      <4>2. PICK c \in BucketIds \ {b} : c = BucketOf(p) /\ c = BucketOf(p)'
        BY <1>1, <2>0, <2>2
      <4>3. Waiting(r, c)' <=> Waiting(r, c)
        BY <1>9
      <4>. QED BY <4>1, <4>2, <4>3
    <3>4. Content(r, p, e)
      OBVIOUS
    <3>5. CASE issued[r][BucketOf(p)]
      <4>1. data'[r][e] = data[r][e]
        BY <3>2, <3>5 DEF Grown
      <4>. QED BY <1>1, <1>2, <3>3, <3>4, <3>5, <4>1 DEF Content
    <3>6. CASE ~issued[r][BucketOf(p)]
      <4>1. data'[r][e] = Own(r, Counted(r, p)' * Unit)
        BY <3>2, <3>6 DEF Grown
      <4>. QED BY <1>1, <1>2, <3>3, <3>6, <4>1 DEF Content
    <3>. QED BY <3>5, <3>6
  <2>. QED BY <2>1, <2>2
<1>. QED BY <1>5, <1>6, <1>10

LEMMA ZeroKeepsData ==
  ASSUME ScheduleInv, DataInv, NEW r \in Replicas, ZeroGradBuffer(r)
  PROVE  DataInv'
<1>1. /\ UNCHANGED layout /\ UNCHANGED <<it, posted>> /\ pc[r] = "zero"
      /\ data' = IF UseDistributedOptimizer THEN data ELSE [data EXCEPT ![r] = Zeroed]
      /\ issued' = [issued EXCEPT ![r] = [b \in BucketIds |-> FALSE]]
      /\ pc' = [pc EXCEPT ![r] = "backward"]
      /\ mb' = [mb EXCEPT ![r] = 0]
      /\ hook' = [hook EXCEPT ![r] = 0]
  BY DEF ZeroGradBuffer
<1>2. Placement /\ Typed /\ DataTyped /\ Cleared(r)
  BY DEF ScheduleInv, DataInv
<1>3. /\ \A p : MainGrad(p)' = MainGrad(p) /\ BucketOf(p)' = BucketOf(p)
      /\ Elements' = Elements
  BY <1>1, <1>2, PlacesKept
<1>4. /\ pc'[r] = "backward" /\ mb'[r] = 0 /\ hook'[r] = 0
      /\ issued'[r] = [b \in BucketIds |-> FALSE]
  BY <1>1, <1>2 DEF Typed
<1>5. ASSUME NEW s \in Replicas \ {r}
      PROVE  /\ pc'[s] = pc[s] /\ data'[s] = data[s] /\ issued'[s] = issued[s] /\ posted'[s] = posted[s]
             /\ mb'[s] = mb[s] /\ hook'[s] = hook[s]
  BY <1>1, <1>2 DEF Typed, DataTyped
<1>6. Zeroed \in Gradients /\ \A e \in Elements : Zeroed[e] = Zero
  BY DEF Zeroed, Zero, Gradients
<1>7. DataTyped' /\ \A e \in Elements : data'[r][e] = Zero
  <2>1. CASE UseDistributedOptimizer
    BY <1>1, <1>2, <1>3, <2>1 DEF DataTyped, Cleared
  <2>2. CASE ~UseDistributedOptimizer
    <3>. HIDE DEF Zeroed
    <3>1. data' = [data EXCEPT ![r] = Zeroed]
      BY <1>1, <2>2
    <3>2. data'[r] = Zeroed
      BY <1>2, <3>1 DEF DataTyped
    <3>. QED BY <1>2, <1>3, <1>6, <3>1, <3>2 DEF DataTyped, Gradients
  <2>. QED BY <2>1, <2>2
<1>8. Summed(r)'
  <2>1. ASSUME NEW p \in Params, NEW e \in MainGrad(p) PROVE Content(r, p, e)'
    <3>1. e \in Elements /\ BucketOf(p) \in BucketIds
      BY <1>2, ElementsOf
    <3>2. Counted(r, p)' = 0
      BY <1>4 DEF Counted, Arrived
    <3>3. Own(r, 0 * Unit)' = Zero /\ Unit \in Nat
      BY Means DEF Own, Zero, Unit
    <3>4. data'[r][e] = Zero /\ ~issued'[r][BucketOf(p)]
      BY <1>4, <1>7, <3>1
    <3>. QED BY <1>3, <3>2, <3>3, <3>4 DEF Content
  <2>. QED BY <1>3, <2>1 DEF Summed
<1>9. Cleared(r)'
  BY <1>4 DEF Cleared
<1>10. ASSUME NEW s \in Replicas \ {r} PROVE Summed(s)' /\ Cleared(s)'
  BY <1>1, <1>2, <1>5, DataKept DEF DataInv
<1>. QED BY <1>7, <1>8, <1>9, <1>10 DEF DataInv, Replicas

(* A hook adds its gradient, on whichever side of the end of a pass.             *)
LEMMA HookCounts ==
  ASSUME ScheduleInv, UNCHANGED layout, NEW r \in Replicas, pc[r] = "backward", AfterHook(r)
  PROVE  /\ \A q \in Params : /\ Counted(r, q) \in Nat
                              /\ Counted(r, q)' = Counted(r, q) + (IF q = NextParam(r) THEN 1 ELSE 0)
         /\ NextParam(r) \in Params /\ pc'[r] \in {"backward", "finish"}
         /\ Counted(r, NextParam(r)) = mb[r]
         /\ \A s \in Replicas \ {r} : pc'[s] = pc[s] /\ mb'[s] = mb[s] /\ hook'[s] = hook[s]
<1>. DEFINE p == NextParam(r)
<1>1. Placement /\ Typed /\ N \in Nat \ {0} /\ M \in Nat \ {0} /\ order' = order
  BY Configured DEF ScheduleInv, layout
<1>2. hook[r] \in 0 .. N - 1 /\ mb[r] \in 0 .. M /\ order \in Orders
  BY <1>1 DEF Typed, Placement
<1>3. /\ p \in Params /\ p \notin Arrived(r)
      /\ {order[i] : i \in 1 .. hook[r] + 1} = Arrived(r) \cup {p}
      /\ hook[r] + 1 = N => Arrived(r) \cup {p} = Params
  BY <1>2, Hooks DEF NextParam, Arrived
<1>. HIDE DEF p
<1>4. \A q \in Params : Counted(r, q) \in Nat
  BY <1>1, <1>2 DEF Counted
<1>5. Counted(r, p) = mb[r]
  BY <1>1, <1>2, <1>3 DEF Counted
<1>6. CASE hook[r] + 1 < N
  <2>1. /\ hook' = [hook EXCEPT ![r] = hook[r] + 1] /\ UNCHANGED <<pc, mb>>
    BY <1>1, <1>6 DEF AfterHook, Typed
  <2>2. hook'[r] = hook[r] + 1 /\ \A s \in Replicas \ {r} : hook'[s] = hook[s]
    BY <1>1, <2>1 DEF Typed
  <2>3. Arrived(r)' = Arrived(r) \cup {p}
    BY <1>1, <1>3, <2>2 DEF Arrived
  <2>4. ASSUME NEW q \in Params
        PROVE  Counted(r, q)' = Counted(r, q) + (IF q = p THEN 1 ELSE 0)
    <3>1. Counted(r, q) = mb[r] + (IF q \in Arrived(r) THEN 1 ELSE 0)
      BY DEF Counted
    <3>2. Counted(r, q)' = mb[r] + (IF q \in Arrived(r) \cup {p} THEN 1 ELSE 0)
      BY <2>1, <2>3 DEF Counted
    <3>3. mb[r] \in Nat
      BY <1>1, <1>2
    <3>4. CASE q = p
      BY <1>3, <3>1, <3>2, <3>3, <3>4
    <3>5. CASE q # p
      <4>1. q \in Arrived(r) \cup {p} <=> q \in Arrived(r)
        BY <3>5
      <4>. QED BY <3>1, <3>2, <3>3, <3>5, <4>1
    <3>. QED BY <3>4, <3>5
  <2>5. pc'[r] = "backward" /\ \A s \in Replicas \ {r} : pc'[s] = pc[s] /\ mb'[s] = mb[s]
    BY <2>1
  <2>. QED BY <1>3, <1>4, <1>5, <2>2, <2>4, <2>5 DEF p
<1>7. CASE ~(hook[r] + 1 < N)
  <2>1. /\ hook' = [hook EXCEPT ![r] = 0]
        /\ mb' = [mb EXCEPT ![r] = mb[r] + 1]
        /\ pc' = [pc EXCEPT ![r] = IF mb[r] + 1 = M THEN "finish" ELSE pc[r]]
    BY <1>1, <1>7 DEF AfterHook, Typed
  <2>2. /\ hook'[r] = 0 /\ mb'[r] = mb[r] + 1 /\ pc'[r] \in {"backward", "finish"}
        /\ \A s \in Replicas \ {r} : pc'[s] = pc[s] /\ mb'[s] = mb[s] /\ hook'[s] = hook[s]
    BY <1>1, <2>1 DEF Typed
  <2>3. Arrived(r)' = {}
    BY <2>2 DEF Arrived
  <2>4. Arrived(r) \cup {p} = Params
    BY <1>1, <1>2, <1>3, <1>7
  <2>5. ASSUME NEW q \in Params
        PROVE  Counted(r, q)' = Counted(r, q) + (IF q = p THEN 1 ELSE 0)
    <3>1. Counted(r, q) = mb[r] + (IF q \in Arrived(r) THEN 1 ELSE 0)
      BY DEF Counted
    <3>2. Counted(r, q)' = mb[r] + 1
      BY <1>1, <1>2, <2>2, <2>3 DEF Counted
    <3>3. mb[r] \in Nat /\ (q \in Arrived(r) <=> q # p)
      BY <1>1, <1>2, <1>3, <2>4
    <3>. QED BY <3>1, <3>2, <3>3
  <2>. QED BY <1>3, <1>4, <1>5, <2>2, <2>5 DEF p
<1>. QED BY <1>6, <1>7

LEMMA HookKeepsData ==
  ASSUME ScheduleInv, DataInv, NEW r \in Replicas, ParamHook(r)
  PROVE  DataInv'
<1>. DEFINE p == NextParam(r)
            b == BucketOf(p)
            new == Accumulated(r, p)
            starts == Registering(r) /\ ready[r][b] \cup {p} = buckets[b].params
<1>1. Placement /\ Typed /\ Counting(r) /\ Flagged(r) /\ DataTyped /\ Summed(r)
  BY DEF ScheduleInv, Scheduled, DataInv
<1>2. /\ UNCHANGED layout /\ pc[r] = "backward" /\ AfterHook(r)
      /\ IF starts THEN StartGradSync(r, b, new)
           ELSE data' = [data EXCEPT ![r] = new] /\ UNCHANGED <<issued, posted>>
  BY DEF ParamHook, Registering
<1>3. /\ \A q \in Params : /\ Counted(r, q) \in Nat
                           /\ Counted(r, q)' = Counted(r, q) + (IF q = p THEN 1 ELSE 0)
      /\ p \in Params /\ pc'[r] \in {"backward", "finish"} /\ Counted(r, p) = mb[r]
      /\ \A s \in Replicas \ {r} : pc'[s] = pc[s] /\ mb'[s] = mb[s] /\ hook'[s] = hook[s]
  BY <1>2, HookCounts
<1>4. ~issued[r][b] /\ b \in BucketIds
  BY <1>1, <1>2, <1>3, WritesBeforeReduction, ElementsOf
<1>5. \A q \in Params : \A e \in MainGrad(q) : Content(r, q, e)
  BY <1>1, <1>2 DEF Summed
<1>. HIDE DEF p, new
<1>6. Grown(r, new)
  <2>1. /\ new \in Gradients
        /\ \A q \in Params : \A e \in MainGrad(q) : q # p => new[e] = data[r][e]
        /\ \A n \in Nat : \A e \in MainGrad(p) : data[r][e] = Own(r, n) => new[e] = Own(r, n + Unit)
    BY <1>1, <1>3, AccumulatedContent DEF new
  <2>2. ASSUME NEW q \in Params, NEW e \in MainGrad(q)
        PROVE  /\ ~issued[r][BucketOf(q)] => new[e] = Own(r, Counted(r, q)' * Unit)
               /\ issued[r][BucketOf(q)] => new[e] = data[r][e]
    <3>1. Content(r, q, e)
      BY <1>5
    <3>2. CASE q = p
      <4>1. data[r][e] = Own(r, Counted(r, p) * Unit)
        BY <1>4, <3>1, <3>2 DEF Content
      <4>2. Counted(r, p) * Unit \in Nat /\ Counted(r, p) * Unit + Unit = (Counted(r, p) + 1) * Unit
        BY <1>3, Means
      <4>3. new[e] = Own(r, Counted(r, p) * Unit + Unit)
        BY <2>1, <3>2, <4>1, <4>2
      <4>4. Counted(r, q)' = Counted(r, p) + 1
        <5>1. PICK x \in Params : x = q /\ x = p
          BY <3>2
        <5>2. Counted(r, x)' = Counted(r, x) + 1
          BY <1>3, <5>1
        <5>. QED BY <5>1, <5>2
      <4>. QED BY <1>4, <3>2, <4>2, <4>3, <4>4
    <3>3. CASE q # p
      <4>1. new[e] = data[r][e] /\ Counted(r, q)' = Counted(r, q)
        BY <1>3, <2>1, <3>3
      <4>. QED BY <3>1, <4>1 DEF Content
    <3>. QED BY <3>2, <3>3
  <2>. QED BY <2>1, <2>2 DEF Grown
<1>7. /\ \A q \in Params : \A e \in MainGrad(q) : Content(r, q, e)'
      /\ DataTyped' /\ \A s \in Replicas \ {r} : data'[s] = data[s]
      /\ \A s \in Replicas \ {r} : issued'[s] = issued[s] /\ posted'[s] = posted[s]
  <2>1. CASE starts
    <3>1. StartGradSync(r, b, new)
      BY <1>2, <2>1
    <3>2. \A q \in Params : BucketOf(q) = b => Counted(r, q)' = M
      <4>1. mb[r] = M - 1 /\ M \in Nat
        <5>1. Registering(r)
          BY <2>1
        <5>. QED BY <1>1, <1>2, <5>1, Configured, Chosen DEF Counting, Registering, Placement
      <4>2. \A q \in Params : BucketOf(q) = b => q \in Arrived(r) \/ q = p
        <5>1. ready[r][b] = buckets[b].params \cap Arrived(r)
          BY <1>1, <1>2, <1>4, <2>1 DEF Flagged
        <5>2. \A q \in Params : BucketOf(q) = b => q \in buckets[b].params
          BY <1>1, InBucket
        <5>. QED BY <2>1, <5>1, <5>2
      <4>3. ASSUME NEW q \in Params, BucketOf(q) = b PROVE Counted(r, q)' = M
        <5>1. CASE q = p
          <6>1. PICK x \in Params : x = q /\ x = p
            BY <5>1
          <6>2. Counted(r, x)' = mb[r] + 1
            BY <1>3, <6>1
          <6>. QED BY <4>1, <6>1, <6>2
        <5>2. CASE q # p
          <6>1. Counted(r, q) = mb[r] + 1
            BY <4>2, <4>3, <5>2 DEF Counted
          <6>. QED BY <1>3, <4>1, <5>2, <6>1
        <5>. QED BY <5>1, <5>2
      <4>. QED BY <4>3
    <3>. HIDE DEF b
    <3>3. /\ \A q \in Params : \A e \in MainGrad(q) : Content(r, q, e)'
          /\ DataTyped' /\ \A s \in Replicas \ {r} : data'[s] = data[s]
      BY <1>1, <1>2, <1>4, <1>5, <1>6, <3>1, <3>2, StartContent
    <3>4. \A s \in Replicas \ {r} : issued'[s] = issued[s] /\ posted'[s] = posted[s]
      BY <1>1, <3>1 DEF StartGradSync, Typed
    <3>. QED BY <3>3, <3>4
  <2>2. CASE ~starts
    <3>1. data' = [data EXCEPT ![r] = new] /\ UNCHANGED <<issued, posted>>
      BY <1>2, <2>2
    <3>2. data'[r] = new /\ \A s \in Replicas \ {r} : data'[s] = data[s]
      BY <1>1, <3>1 DEF DataTyped
    <3>3. DataTyped'
      <4>1. Elements' = Elements
        BY <1>1, <1>2, PlacesKept
      <4>. QED BY <1>1, <1>6, <3>1, <4>1 DEF DataTyped, Grown, Gradients
    <3>4. issued'[r] = issued[r] /\ posted'[r] = posted[r]
      BY <3>1
    <3>5. \A q \in Params : \A e \in MainGrad(q) : Content(r, q, e)'
      BY <1>1, <1>2, <1>5, <1>6, <3>2, <3>4, GrownContent
    <3>. QED BY <3>1, <3>2, <3>3, <3>5
  <2>. QED BY <2>1, <2>2
<1>8. Summed(r)' /\ Cleared(r)'
  <2>1. \A q : MainGrad(q)' = MainGrad(q)
    BY <1>1, <1>2, PlacesKept
  <2>. QED BY <1>3, <1>7, <2>1 DEF Summed, Cleared
<1>9. ASSUME NEW s \in Replicas \ {r} PROVE Summed(s)' /\ Cleared(s)'
  <2>1. Summed(s) /\ Cleared(s)
    BY DEF DataInv
  <2>. QED BY <1>1, <1>2, <1>3, <1>7, <2>1, DataKept
<1>. QED BY <1>7, <1>8, <1>9 DEF DataInv, Replicas

LEMMA FinishKeepsData ==
  ASSUME ScheduleInv, DataInv, NEW r \in Replicas, FinishGradSync(r)
  PROVE  DataInv'
<1>1. Placement /\ Typed /\ Counting(r) /\ DataTyped /\ Summed(r)
  BY DEF ScheduleInv, Scheduled, DataInv
<1>2. /\ UNCHANGED layout /\ UNCHANGED <<mb, hook>> /\ pc[r] = "finish" /\ posted[r] = <<>>
      /\ \/ pc' = [pc EXCEPT ![r] = "step"] /\ UNCHANGED <<data, issued, posted>>
         \/ (\E b \in BucketIds : StartGradSync(r, b, data[r])) /\ UNCHANGED pc
  BY DEF FinishGradSync, progress
<1>3. \A q \in Params : \A e \in MainGrad(q) : Content(r, q, e)
  BY <1>1, <1>2 DEF Summed
<1>4. /\ \A q : MainGrad(q)' = MainGrad(q) /\ BucketOf(q)' = BucketOf(q)
      /\ Elements' = Elements /\ order' = order
  BY <1>1, <1>2, PlacesKept DEF layout
<1>5. \A q \in Params : Counted(r, q) = M /\ Counted(r, q)' = M
  <2>1. mb[r] = M /\ hook[r] = 0 /\ M \in Nat
    BY <1>1, <1>2, Configured DEF Counting
  <2>2. Arrived(r) = {} /\ Arrived(r)' = {}
    BY <1>2, <2>1 DEF Arrived
  <2>. QED BY <1>2, <2>1, <2>2 DEF Counted
<1>6. Grown(r, data[r])
  <2>1. data[r] \in Gradients
    BY <1>1 DEF DataTyped, Gradients
  <2>2. ASSUME NEW q \in Params, NEW e \in MainGrad(q), ~issued[r][BucketOf(q)]
        PROVE  data[r][e] = Own(r, Counted(r, q)' * Unit)
    BY <1>3, <1>5, <2>2 DEF Content
  <2>. QED BY <2>1, <2>2 DEF Grown
<1>7. /\ \A q \in Params : \A e \in MainGrad(q) : Content(r, q, e)'
      /\ DataTyped' /\ pc'[r] \in {"finish", "step"}
      /\ \A s \in Replicas \ {r} : /\ data'[s] = data[s] /\ issued'[s] = issued[s]
                                   /\ posted'[s] = posted[s] /\ pc'[s] = pc[s]
  <2>1. CASE pc' = [pc EXCEPT ![r] = "step"] /\ UNCHANGED <<data, issued, posted>>
    <3>1. /\ data'[r] = data[r] /\ issued'[r] = issued[r] /\ posted'[r] = posted[r]
          /\ pc'[r] = "step" /\ \A s \in Replicas \ {r} : pc'[s] = pc[s]
      BY <1>1, <2>1 DEF Typed
    <3>2. \A q \in Params : \A e \in MainGrad(q) : Content(r, q, e)'
      BY <1>1, <1>2, <1>3, <1>6, <3>1, GrownContent
    <3>3. DataTyped'
      BY <1>1, <1>4, <2>1 DEF DataTyped
    <3>. QED BY <2>1, <3>1, <3>2, <3>3
  <2>2. CASE (\E b \in BucketIds : StartGradSync(r, b, data[r])) /\ UNCHANGED pc
    <3>1. PICK b \in BucketIds : StartGradSync(r, b, data[r])
      BY <2>2
    <3>2. /\ \A q \in Params : \A e \in MainGrad(q) : Content(r, q, e)'
          /\ DataTyped' /\ \A s \in Replicas \ {r} : data'[s] = data[s]
      BY <1>1, <1>2, <1>3, <1>5, <1>6, <3>1, StartContent
    <3>3. \A s \in Replicas \ {r} : issued'[s] = issued[s] /\ posted'[s] = posted[s]
      BY <1>1, <3>1 DEF StartGradSync, Typed
    <3>. QED BY <1>2, <2>2, <3>2, <3>3
  <2>. QED BY <1>2, <2>1, <2>2
<1>8. Summed(r)' /\ Cleared(r)'
  BY <1>4, <1>7 DEF Summed, Cleared
<1>9. ASSUME NEW s \in Replicas \ {r} PROVE Summed(s)' /\ Cleared(s)'
  <2>1. Summed(s) /\ Cleared(s)
    BY DEF DataInv
  <2>. QED BY <1>1, <1>2, <1>7, <2>1, DataKept
<1>. QED BY <1>7, <1>8, <1>9 DEF DataInv, Replicas

(* Sums over the replicas, as partial sums.                                      *)
LEMMA SumIs ==
  ASSUME NEW e, NEW q \in Replicas, NEW f \in [0 .. D -> Nat], f[0] = 0,
         \A r \in Replicas : f[r] = f[r - 1] + data[r][e][q]
  PROVE  Sum(e)[q] = f[D]
<1>0. D \in Nat \ {0}
  BY Configured
<1>. DEFINE Loop(g) == [r \in 0 .. D |-> IF r = 0 THEN 0 ELSE g[r - 1] + data[r][e][q]]
<1>1. Sum(e)[q] = (CHOOSE g : g = Loop(g))[D]
  BY DEF Sum
<1>2. \A g : Loop(g)[0] = 0 /\ \A r \in 1 .. D : Loop(g)[r] = g[r - 1] + data[r][e][q]
  BY <1>0
<1>3. \A g : Loop(g) = [r \in 0 .. D |-> Loop(g)[r]]
  OBVIOUS
<1>. HIDE DEF Loop
<1>4. f = Loop(f)
  <2>1. ASSUME NEW r \in 0 .. D PROVE f[r] = Loop(f)[r]
    <3>1. CASE r = 0
      BY <1>2, <3>1
    <3>2. CASE r \in 1 .. D
      BY <1>2, <3>2 DEF Replicas
    <3>. QED BY <1>0, <3>1, <3>2
  <2>2. f = [r \in 0 .. D |-> f[r]]
    OBVIOUS
  <2>. QED BY <1>3, <2>1, <2>2
<1>5. ASSUME NEW g, g = Loop(g) PROVE g = f
  <2>1. UpTo(D, f) /\ UpTo(D, g)
    BY <1>3, <1>5 DEF UpTo
  <2>2. SameSteps(D, f, g)
    <3>1. f[0] = g[0]
      BY <1>2, <1>5
    <3>2. ASSUME NEW r \in 1 .. D, f[r - 1] = g[r - 1] PROVE f[r] = g[r]
      BY <1>2, <1>5, <3>2 DEF Replicas
    <3>. QED BY <3>1, <3>2 DEF SameSteps
  <2>. QED BY <1>0, <2>1, <2>2, RecursionUnique
<1>6. (CHOOSE g : g = Loop(g)) = f
  BY <1>4, <1>5
<1>. QED BY <1>1, <1>6

LEMMA SumTyped ==
  ASSUME NEW e, NEW q \in Replicas, \A r \in Replicas : data[r][e][q] \in Nat
  PROVE  Sum(e)[q] \in Nat
<1>0. D \in Nat \ {0}
  BY Configured
<1>. DEFINE G == [r \in 1 .. D |-> [n \in Nat |-> n + data[r][e][q]]]
<1>1. StepsOf(D, Nat, G)
  BY DEF StepsOf, Replicas
<1>2. \A r \in 1 .. D : \A n \in Nat : G[r][n] = n + data[r][e][q]
  OBVIOUS
<1>. HIDE DEF G
<1>3. PICK f : RecursiveOn(f, D, Nat, 0, G)
  BY <1>0, <1>1, Recursion
<1>4. f \in [0 .. D -> Nat] /\ f[0] = 0
  BY <1>3 DEF RecursiveOn
<1>5. ASSUME NEW r \in Replicas PROVE f[r] = f[r - 1] + data[r][e][q]
  <2>1. r \in 1 .. D /\ r - 1 \in 0 .. D
    BY <1>0 DEF Replicas
  <2>. QED BY <1>2, <1>3, <1>4, <2>1 DEF RecursiveOn
<1>6. Sum(e)[q] = f[D]
  BY <1>4, <1>5, SumIs
<1>. QED BY <1>0, <1>4, <1>6

(* The reduction makes the gradients of each replica, divided, into the average. *)
LEMMA SumAverage ==
  ASSUME NEW e, \A r \in Replicas : data[r][e] = Own(r, Mean)
  PROVE  Sum(e) = Average
<1>0. D \in Nat \ {0} /\ Mean \in Nat
  BY Configured, Means
<1>1. ASSUME NEW q \in Replicas PROVE Sum(e)[q] = Mean
  <2>. DEFINE f == [r \in 0 .. D |-> IF r < q THEN 0 ELSE Mean]
  <2>1. f \in [0 .. D -> Nat]
    BY <1>0
  <2>2. f[0] = 0 /\ f[D] = Mean
    BY <1>0 DEF Replicas
  <2>3. ASSUME NEW r \in Replicas PROVE f[r] = f[r - 1] + data[r][e][q]
    <3>1. data[r][e][q] = IF q = r THEN Mean ELSE 0
      BY DEF Own
    <3>2. /\ r \in 0 .. D /\ r - 1 \in 0 .. D /\ r \in Nat /\ q \in Nat
          /\ f[r] = (IF r < q THEN 0 ELSE Mean) /\ f[r - 1] = (IF r - 1 < q THEN 0 ELSE Mean)
      BY <1>0 DEF Replicas
    <3>. HIDE DEF f
    <3>. QED BY <1>0, <3>1, <3>2
  <2>. HIDE DEF f
  <2>. QED BY <2>1, <2>2, <2>3, SumIs
<1>2. Sum(e) = [q \in Replicas |-> Sum(e)[q]]
  BY DEF Sum
<1>. QED BY <1>1, <1>2 DEF Average

LEMMA ReducedInBucket ==
  ASSUME Placement, NEW r \in Replicas, NEW b \in BucketIds
  PROVE  Reduced(r, b) \subseteq Bucket(b)
<1>1. /\ size \in Sizes /\ WellLaid(Layout, size) /\ Layout.buckets = buckets /\ Layout.dp = D
      /\ Layout.distributed = UseDistributedOptimizer
  BY Placed_Well
<1>2. Config(D).distributed = UseDistributedOptimizer /\ Config(D).dp = D
  BY DEF Config, UseDistributedOptimizer
<1>3. CASE UseDistributedOptimizer
  <2>1. Reduced(r, b) = ShardElements(D, buckets[b], r)
    BY <1>2, <1>3 DEF Reduced, ReducedElements
  <2>2. b \in DOMAIN Layout.buckets /\ Layout.distributed
    BY <1>1, <1>3 DEF BucketIds
  <2>3. BucketElements(Layout.buckets[b]) =
          UNION {ShardElements(Layout.dp, Layout.buckets[b], s) : s \in 1 .. Layout.dp}
    BY <1>1, <2>2, ShardsCover
  <2>4. ShardElements(D, buckets[b], r) \subseteq BucketElements(buckets[b])
    BY <1>1, <2>3 DEF Replicas
  <2>. QED BY <2>1, <2>4 DEF Bucket
<1>4. CASE ~UseDistributedOptimizer
  BY <1>2, <1>4 DEF Reduced, ReducedElements, Bucket
<1>. QED BY <1>3, <1>4

LEMMA CompleteKeepsData ==
  ASSUME ScheduleInv, DataInv, Complete
  PROVE  DataInv'
<1>1. Placement /\ Typed /\ Scheduled /\ DataTyped
  BY DEF ScheduleInv, DataInv
<1>2. /\ UNCHANGED layout /\ UNCHANGED <<pc, mb, hook, issued>>
      /\ \A r \in Replicas : posted[r] # <<>>
      /\ posted' = [r \in Replicas |-> Tail(posted[r])]
  BY DEF Complete, progress, flags
<1>3. PICK b \in BucketIds :
        /\ \A r \in Replicas : Head(posted[r]) = b
        /\ data' = [r \in Replicas |->
             [e \in Elements |-> IF e \in Reduced(r, b) THEN Sum(e) ELSE data[r][e]]]
  BY DEF Complete
<1>4. /\ \A p : MainGrad(p)' = MainGrad(p) /\ BucketOf(p)' = BucketOf(p)
      /\ \A s, c : Reduced(s, c)' = Reduced(s, c)
      /\ Elements' = Elements /\ order' = order
  BY <1>1, <1>2, PlacesKept DEF layout
<1>5. /\ \A r, n : Own(r, n)' = Own(r, n)
      /\ Mean' = Mean /\ Average' = Average /\ Unit' = Unit
  BY DEF Own, Mean, Average, Unit
<1>6. ASSUME NEW r \in Replicas
      PROVE  /\ pc[r] \in {"backward", "finish"} /\ issued[r][b] /\ Waiting(r, b) /\ ~Waiting(r, b)'
             /\ \A c \in BucketIds \ {b} : Waiting(r, c)' <=> Waiting(r, c)
  <2>. DEFINE n == Len(posted[r])
  <2>1. Queued(r) /\ posted[r] \in Seq(BucketIds) /\ posted[r] # <<>> /\ posted'[r] = Tail(posted[r])
    BY <1>1, <1>2 DEF Scheduled, Typed
  <2>2. /\ n \in Nat \ {0} /\ Len(posted'[r]) = n - 1 /\ posted[r][1] = b
        /\ \A i \in 1 .. n - 1 : posted'[r][i] = posted[r][i + 1]
    BY <1>3, <2>1
  <2>3. /\ pc[r] \in {"backward", "finish"}
        /\ \A i \in 1 .. n : issued[r][posted[r][i]]
        /\ \A i, j \in 1 .. n : posted[r][i] = posted[r][j] => i = j
    <3>1. pc[r] \in {"backward", "finish"}
      BY <1>1, <2>1 DEF Queued
    <3>. QED BY <2>1, <3>1 DEF Queued
  <2>4. /\ Waiting(r, b) <=> \E i \in 1 .. n : posted[r][i] = b
        /\ Waiting(r, b)' <=> \E i \in 1 .. n - 1 : posted'[r][i] = b
    BY <2>2 DEF Waiting
  <2>5. \A c \in BucketIds : /\ Waiting(r, c) <=> \E i \in 1 .. n : posted[r][i] = c
                             /\ Waiting(r, c)' <=> \E i \in 1 .. n - 1 : posted'[r][i] = c
    BY <2>2 DEF Waiting
  <2>. HIDE DEF n
  <2>6. 1 \in 1 .. n
    BY <2>2
  <2>7. issued[r][b] /\ Waiting(r, b)
    BY <2>2, <2>3, <2>4, <2>6
  <2>8. ~Waiting(r, b)'
    <3>1. ASSUME NEW i \in 1 .. n - 1, posted'[r][i] = b PROVE FALSE
      <4>1. i + 1 \in 1 .. n /\ i + 1 # 1 /\ posted[r][i + 1] = b
        BY <2>2, <3>1
      <4>. QED BY <2>2, <2>3, <2>6, <4>1
    <3>. QED BY <2>4, <3>1
  <2>9. ASSUME NEW c \in BucketIds \ {b} PROVE Waiting(r, c)' <=> Waiting(r, c)
    <3>1. ASSUME NEW i \in 1 .. n, posted[r][i] = c PROVE \E j \in 1 .. n - 1 : posted'[r][j] = c
      <4>1. i - 1 \in 1 .. n - 1 /\ (i - 1) + 1 = i
        BY <2>2, <3>1
      <4>. QED BY <2>2, <3>1, <4>1
    <3>2. ASSUME NEW i \in 1 .. n - 1, posted'[r][i] = c PROVE \E j \in 1 .. n : posted[r][j] = c
      <4>1. i + 1 \in 1 .. n
        BY <2>2
      <4>. QED BY <2>2, <3>2, <4>1
    <3>. QED BY <2>5, <3>1, <3>2
  <2>. QED BY <2>3, <2>7, <2>8, <2>9
<1>7. \A r \in Replicas : \A e \in Elements :
        data'[r][e] = IF e \in Reduced(r, b) THEN Sum(e) ELSE data[r][e]
  BY <1>3
<1>8. ASSUME NEW r \in Replicas, NEW p \in Params, NEW e \in MainGrad(p) PROVE Content(r, p, e)'
  <2>1. e \in Elements /\ BucketOf(p) \in BucketIds
    BY <1>1, ElementsOf
  <2>2. ASSUME NEW s \in Replicas PROVE Content(s, p, e)
    BY <1>6 DEF DataInv, Summed
  <2>3. CASE BucketOf(p) = b
    <3>1. \A s \in Replicas : data[s][e] = Own(s, Mean)
      BY <1>6, <2>2, <2>3 DEF Content
    <3>2. Sum(e) = Average
      BY <3>1, SumAverage
    <3>3. e \in Reduced(r, b) => data'[r][e] = Average
      BY <1>7, <2>1, <3>2
    <3>. QED BY <1>2, <1>4, <1>5, <1>6, <2>3, <3>3 DEF Content
  <2>4. CASE BucketOf(p) # b
    <3>1. e \notin Reduced(r, b)
      BY <1>1, <2>4, ElementsOf, ReducedInBucket
    <3>2. data'[r][e] = data[r][e]
      BY <1>7, <2>1, <3>1
    <3>3. Counted(r, p)' = Counted(r, p)
      BY <1>2, <1>4 DEF Counted, Arrived
    <3>4. PICK c \in BucketIds \ {b} : c = BucketOf(p) /\ c = BucketOf(p)'
      BY <1>4, <2>1, <2>4
    <3>5. Waiting(r, c)' <=> Waiting(r, c)
      BY <1>6
    <3>6. Content(r, p, e)
      BY <2>2
    <3>. QED BY <1>2, <1>4, <1>5, <3>2, <3>3, <3>4, <3>5, <3>6 DEF Content
  <2>. QED BY <2>3, <2>4
<1>9. DataTyped'
  <2>1. ASSUME NEW r \in Replicas, NEW e \in Elements
        PROVE  (IF e \in Reduced(r, b) THEN Sum(e) ELSE data[r][e]) \in [Replicas -> Nat]
    <3>1. \A q, s \in Replicas : data[s][e][q] \in Nat
      BY <1>1 DEF DataTyped
    <3>2. \A q \in Replicas : Sum(e)[q] \in Nat
      BY <3>1, SumTyped
    <3>3. Sum(e) = [q \in Replicas |-> Sum(e)[q]]
      BY DEF Sum
    <3>4. Sum(e) \in [Replicas -> Nat]
      BY <3>2, <3>3
    <3>. QED BY <1>1, <3>4 DEF DataTyped
  <2>. QED BY <1>3, <1>4, <2>1 DEF DataTyped
<1>10. ASSUME NEW r \in Replicas PROVE Summed(r)' /\ Cleared(r)'
  <2>1. pc'[r] \in {"backward", "finish"}
    BY <1>2, <1>6
  <2>. QED BY <1>4, <1>8, <2>1 DEF Summed, Cleared
<1>. QED BY <1>9, <1>10 DEF DataInv, Replicas

LEMMA LaterKeepsData ==
  ASSUME ScheduleInv, DataInv, UNCHANGED layout, UNCHANGED <<mb, hook, issued, posted>>, DataTyped',
         \A r \in Replicas :
           \/ pc'[r] = pc[r] /\ data'[r] = data[r]
           \/ /\ pc'[r] \notin {"backward", "finish", "step"}
              /\ pc'[r] = "zero" /\ UseDistributedOptimizer => \A e \in Elements : data'[r][e] = Zero
  PROVE  DataInv'
<1>1. Placement /\ Typed
  BY DEF ScheduleInv
<1>2. Elements' = Elements /\ UseDistributedOptimizer' = UseDistributedOptimizer
  BY <1>1, PlacesKept DEF UseDistributedOptimizer, layout
<1>3. ASSUME NEW r \in Replicas PROVE Summed(r)' /\ Cleared(r)'
  <2>1. CASE pc'[r] = pc[r] /\ data'[r] = data[r]
    <3>1. Summed(r) /\ Cleared(r)
      BY DEF DataInv
    <3>. QED BY <1>1, <2>1, <3>1, DataKept
  <2>2. CASE /\ pc'[r] \notin {"backward", "finish", "step"}
             /\ pc'[r] = "zero" /\ UseDistributedOptimizer => \A e \in Elements : data'[r][e] = Zero
    BY <1>2, <2>2 DEF Summed, Cleared, Zero
  <2>. QED BY <2>1, <2>2
<1>. QED BY <1>3 DEF DataInv, Replicas

LEMMA NextKeepsData ==
  ASSUME ScheduleInv, DataInv, [Next]_vars
  PROVE  DataInv'
<1>0. Typed /\ DataTyped /\ Placement
  BY DEF ScheduleInv, DataInv
<1>1. ASSUME NEW r \in Replicas, OptimizerStep(r) PROVE DataInv'
  <2>1. /\ UNCHANGED layout /\ UNCHANGED <<mb, hook, issued, posted>> /\ UNCHANGED data
        /\ ~UseDistributedOptimizer
        /\ pc' = [pc EXCEPT ![r] = IF it[r] = Iterations THEN "save" ELSE "zero"]
    BY <1>0, <1>1 DEF OptimizerStep, flags, AfterStep, Typed
  <2>2. pc'[r] \in {"save", "zero"} /\ \A s \in Replicas \ {r} : pc'[s] = pc[s]
    BY <1>0, <2>1 DEF Typed
  <2>3. DataTyped'
    BY <1>0, <2>1, PlacesKept DEF DataTyped
  <2>. QED BY <2>1, <2>2, <2>3, LaterKeepsData
<1>2. ASSUME NEW r \in Replicas, ShardStep(r) PROVE DataInv'
  <2>1. /\ UNCHANGED layout /\ UNCHANGED <<mb, hook, issued, posted>> /\ UNCHANGED data
        /\ pc' = [pc EXCEPT ![r] = "gather"]
    BY <1>2 DEF ShardStep, flags, progress
  <2>2. pc'[r] = "gather" /\ \A s \in Replicas \ {r} : pc'[s] = pc[s]
    BY <1>0, <2>1 DEF Typed
  <2>3. DataTyped'
    BY <1>0, <2>1, PlacesKept DEF DataTyped
  <2>. QED BY <2>1, <2>2, <2>3, LaterKeepsData
<1>3. ASSUME GatherParams PROVE DataInv'
  <2>1. /\ UNCHANGED layout /\ UNCHANGED <<mb, hook, issued, posted>>
        /\ data' = [r \in Replicas |-> Zeroed]
        /\ pc' = [r \in Replicas |-> IF it[r] = Iterations THEN "save" ELSE "zero"]
    BY <1>3 DEF GatherParams, flags, AfterStep
  <2>2. Zeroed \in [Elements -> [Replicas -> Nat]] /\ \A e \in Elements : Zeroed[e] = Zero
    BY DEF Zeroed, Zero
  <2>3. DataTyped'
    <3>. HIDE DEF Zeroed
    <3>1. Elements' = Elements
      BY <1>0, <2>1, PlacesKept
    <3>. QED BY <2>1, <2>2, <3>1 DEF DataTyped
  <2>4. \A r \in Replicas : data'[r] = Zeroed /\ pc'[r] \in {"save", "zero"}
    BY <2>1
  <2>. QED BY <2>1, <2>2, <2>3, <2>4, LaterKeepsData
<1>4. ASSUME Save PROVE DataInv'
  <2>1. /\ UNCHANGED layout /\ UNCHANGED <<mb, hook, issued, posted>> /\ UNCHANGED data
        /\ pc' = [r \in Replicas |-> "stopped"]
    BY <1>4 DEF Save, flags, progress
  <2>2. DataTyped'
    BY <1>0, <2>1, PlacesKept DEF DataTyped
  <2>. QED BY <2>1, <2>2, LaterKeepsData
<1>5. ASSUME UNCHANGED <<layout, pc, progress, flags, data, posted>> PROVE DataInv'
  <2>1. UNCHANGED layout /\ UNCHANGED <<mb, hook, issued, posted>> /\ UNCHANGED <<pc, data>>
    BY <1>5 DEF flags, progress
  <2>2. DataTyped'
    BY <1>0, <2>1, PlacesKept DEF DataTyped
  <2>. QED BY <2>1, <2>2, LaterKeepsData
<1>6. ASSUME NEW n \in Restarts, Restart(n) PROVE DataInv'
  BY <1>5, <1>6 DEF Restart
<1>7. CASE UNCHANGED vars
  BY <1>5, <1>7 DEF vars
<1>8. ASSUME NEW r \in Replicas, ReplicaStep(r) PROVE DataInv'
  BY <1>1, <1>2, <1>8, ZeroKeepsData, HookKeepsData, FinishKeepsData DEF ReplicaStep
<1>. QED BY <1>3, <1>4, <1>6, <1>7, <1>8, CompleteKeepsData DEF Next, Finished

LEMMA DataInit ==
  ASSUME Init
  PROVE  DataInv
<1>1. /\ data = [r \in Replicas |-> [e \in Elements |-> Zero]] /\ pc = [r \in Replicas |-> "zero"]
  BY DEF Init
<1>2. Zero \in [Replicas -> Nat]
  BY DEF Zero
<1>. QED BY <1>1, <1>2 DEF DataInv, DataTyped, Summed, Cleared

-------------------------------------------------------------------------------
(* The parameters, the shards and the checkpoint                                 *)

(* How many updates the shards of replica r have had.                            *)
Done(r) == IF pc[r] = "gather" THEN it[r] ELSE it[r] - 1

Paced ==
  \A r \in Replicas : /\ pc[r] \in {"save", "stopped"} => it[r] = Iterations + 1
                      /\ pc[r] = "gather" => UseDistributedOptimizer

Modelled == model = [r \in Replicas |-> Trained(it[r] - 1)]

Sharded == UseDistributedOptimizer =>
  /\ main = [r \in Replicas |-> Shards(Layout, r, Trained(Done(r)))]
  /\ \A r, s \in Replicas : it[r] = it[s]

Stored == file # NoFile =>
  /\ UseDistributedOptimizer
  /\ file = [per_bucket_numel |-> PerBucketNumel(Layout),
             state |-> SavedState(Layout, AllShards(Layout, Trained(Iterations)))]

Reloaded == restart # NoFile =>
  /\ file # NoFile
  /\ \E n \in Restarts : restart = AllShards(LayoutOf(Config(n), size), Trained(Iterations))

LearnedInv == Paced /\ Modelled /\ Sharded /\ Stored /\ Reloaded

(* What an element of a trained model is.                                        *)
LEMMA TrainedIs ==
  ASSUME NEW n
  PROVE  /\ Trained(n) = [p \in Params |-> [k \in 1 .. size[p] |-> Element(p, k, [i \in 1 .. n |-> Average])]]
         /\ Wholes(Trained(n), size)
<1>1. Trained(n) = [p \in Params |-> [k \in 1 .. size[p] |-> Element(p, k, [i \in 1 .. n |-> Average])]]
  BY DEF Trained, Average, Mean
<1>2. Wholes(Trained(n), size)
  BY <1>1 DEF Wholes
<1>. QED BY <1>1, <1>2

LEMMA OneMore ==
  ASSUME NEW n \in Nat, NEW p, NEW k
  PROVE  Updated(Element(p, k, [i \in 1 .. n |-> Average]), Average) =
           Element(p, k, [i \in 1 .. n + 1 |-> Average])
<1>1. Append([i \in 1 .. n |-> Average], Average) = [i \in 1 .. n + 1 |-> Average]
  <2>. DEFINE s == Append([i \in 1 .. n |-> Average], Average)
  <2>1. s \in Seq({Average}) /\ Len(s) = n + 1
    OBVIOUS
  <2>2. \A t \in Seq({Average}) : Len(t) = n + 1 => t = [i \in 1 .. n + 1 |-> Average]
    <3>1. ASSUME NEW t \in Seq({Average}), Len(t) = n + 1 PROVE t = [i \in 1 .. n + 1 |-> Average]
      <4>1. t \in [1 .. n + 1 -> {Average}]
        BY <3>1
      <4>. QED BY <4>1
    <3>. QED BY <3>1
  <2>. QED BY <2>1, <2>2
<1>. DEFINE before == [i \in 1 .. n |-> Average]
            after == [i \in 1 .. n + 1 |-> Average]
<1>2. Append(before, Average) = after
  BY <1>1
<1>. HIDE DEF before, after
<1>3. Updated(Element(p, k, before), Average) = Element(p, k, after)
  BY <1>2 DEF Updated, Element
<1>. QED BY <1>3 DEF before, after

(* When the optimizer steps, the reduced elements hold the average.              *)
LEMMA StepGrads ==
  ASSUME ScheduleInv, DataInv, NEW r \in Replicas, pc[r] = "step",
         NEW p \in Params, NEW e \in MainGrad(p), e \in Reduced(r, BucketOf(p))
  PROVE  data[r][e] = Average
<1>1. Placement /\ Typed /\ Flagged(r) /\ Queued(r) /\ Summed(r)
  BY DEF ScheduleInv, Scheduled, DataInv
<1>2. BucketOf(p) \in BucketIds
  BY <1>1, ElementsOf
<1>3. issued[r][BucketOf(p)]
  BY <1>1, <1>2 DEF Flagged
<1>4. posted[r] = <<>>
  BY <1>1 DEF Queued
<1>5. ~Waiting(r, BucketOf(p))
  BY <1>4 DEF Waiting
<1>6. Content(r, p, e)
  BY <1>1 DEF Summed
<1>. QED BY <1>3, <1>5, <1>6 DEF Content

(* The places of the elements of a parameter.                                    *)
LEMMA PlaceOf ==
  ASSUME Placement, NEW p \in Params, NEW k \in 1 .. size[p]
  PROVE  /\ range[p][1] + k - 1 \in MainGrad(p) /\ range[p][1] \in Nat
         /\ \A r : Grads(r)[p][k] = data[r][range[p][1] + k - 1]
<1>1. /\ size \in Sizes /\ WellLaid(Layout, size) /\ Layout.range = range
  BY Placed_Well
<1>2. /\ range \in [Params -> Nat \X Nat \X Nat] /\ range[p][2] = range[p][1] + size[p]
  BY <1>1 DEF WellLaid
<1>3. range[p][1] \in Nat /\ size[p] \in Nat
  BY <1>1, <1>2 DEF Sizes
<1>4. range[p][1] + k - 1 \in MainGrad(p)
  BY <1>2, <1>3 DEF MainGrad, ParamElements
<1>5. \A r : Grads(r)[p][k] = data[r][range[p][1] + k - 1]
  BY DEF Grads
<1>. QED BY <1>3, <1>4, <1>5

(* A shard, element by element: which elements of a parameter it has.            *)
Span(L, r, p) == RangeMap(L, r, p).param

Piece(L, r, whole, p) ==
  [k \in 1 .. Span(L, r, p)[2] - Span(L, r, p)[1] |-> whole[p][Span(L, r, p)[1] + k]]

LEMMA SpanOf ==
  ASSUME NEW sizes \in Sizes, NEW L, WellLaid(L, sizes), L.distributed,
         NEW r \in 1 .. L.dp, NEW p \in Owned(L, r)
  PROVE  LET span == Span(L, r, p)
         IN /\ span[1] \in Nat /\ span[2] \in Nat /\ span[1] <= span[2] /\ span[2] <= sizes[p]
            /\ \A k \in 1 .. span[2] - span[1] :
                 L.range[p][1] + span[1] + k - 1 \in ShardElements(L.dp, L.buckets[L.range[p][3]], r)
<1>. DEFINE b == L.range[p][3]
            gbuf == GbufWorldRange(L, b, r)
            local == ParamRanges(L, b, r, p).gbuf_local
            span == ParamRanges(L, b, r, p).param
            start == L.range[p][1]
<1>1. p \in Params /\ InPart(L, b, r, p)
  BY DEF Owned
<1>2. b \in DOMAIN L.buckets /\ L.range[p] \in Nat \X Nat \X Nat /\ sizes[p] \in Nat
  BY <1>1 DEF WellLaid, Sizes
<1>3. Span(L, r, p) = span
  BY GbufMapFinds DEF Span, RangeMap
<1>4. start \in Nat
  BY <1>2
<1>5. Matching(L, sizes, b, r, p)
  BY <1>1, <1>2, RangesMatch
<1>6. /\ gbuf[1] \in Nat /\ gbuf[2] \in Nat
      /\ ShardElements(L.dp, L.buckets[b], r) = gbuf[1] .. gbuf[2] - 1
  BY <1>2, WorldRange
<1>7. /\ local[1] \in Nat /\ local[2] \in Int /\ span[1] \in Nat /\ span[2] \in Int
      /\ start + span[1] = gbuf[1] + local[1] /\ span[2] = span[1] + (local[2] - local[1])
      /\ local[2] <= gbuf[2] - gbuf[1] /\ span[2] <= sizes[p] /\ local[1] < local[2]
  BY <1>1, <1>5 DEF Matching
<1>8. \A i \in Int : (i > local[1] /\ i <= local[2]) => i >= 1 /\ i <= gbuf[2] - gbuf[1]
  BY <1>5 DEF Matching
<1>. HIDE DEF b, gbuf, local, span, start
<1>9. span[2] \in Nat /\ span[1] <= span[2]
  BY <1>7
<1>10. ASSUME NEW k \in 1 .. span[2] - span[1]
       PROVE  start + span[1] + k - 1 \in gbuf[1] .. gbuf[2] - 1
  <2>1. k \in Int /\ 1 <= k /\ k <= local[2] - local[1]
    BY <1>7
  <2>2. start + span[1] + k - 1 = gbuf[1] + local[1] + k - 1
    BY <1>4, <1>6, <1>7, <2>1
  <2>3. gbuf[1] <= gbuf[1] + local[1] + k - 1 /\ gbuf[1] + local[1] + k - 1 <= gbuf[2] - 1
    <3>1. \A g, h, x, y \in Int : y <= h - g /\ k <= y - x /\ 0 <= x => g <= g + x + k - 1 /\ g + x + k - 1 <= h - 1
      BY <2>1
    <3>2. gbuf[1] \in Int /\ gbuf[2] \in Int /\ local[1] \in Int /\ local[2] \in Int /\ 0 <= local[1]
      BY <1>6, <1>7
    <3>. QED BY <1>7, <2>1, <3>1, <3>2
  <2>. QED BY <1>6, <1>7, <2>1, <2>2, <2>3, SMTT(30)
<1>. QED BY <1>3, <1>6, <1>7, <1>9, <1>10 DEF b, start

LEMMA ShardsAre ==
  ASSUME NEW sizes \in Sizes, NEW L, WellLaid(L, sizes), L.distributed,
         NEW r \in 1 .. L.dp, NEW whole, Wholes(whole, sizes)
  PROVE  Shards(L, r, whole) =
           [g \in ParamGroups |-> [i \in DOMAIN GroupParams(L, r, g) |->
             Piece(L, r, whole, GroupParams(L, r, g)[i])]]
<1>1. ASSUME NEW p \in Owned(L, r) PROVE Slice(whole[p], Span(L, r, p)) = Piece(L, r, whole, p)
  <2>1. p \in Params /\ sizes[p] \in Nat
    BY DEF Owned, Sizes
  <2>2. Tensor(whole[p], sizes[p])
    BY <2>1 DEF Wholes, Tensor
  <2>. DEFINE span == Span(L, r, p)
  <2>3. span[1] \in Nat /\ span[2] \in Nat /\ span[1] <= span[2] /\ span[2] <= sizes[p]
    BY SpanOf
  <2>. HIDE DEF span
  <2>4. Slice(whole[p], span) = [j \in 1 .. span[2] - span[1] |-> whole[p][span[1] + j]]
    <3>. DEFINE s == whole[p]
                n == sizes[p]
    <3>1. n \in Nat /\ Tensor(s, n) /\ span[2] <= n
      BY <2>1, <2>2, <2>3
    <3>. HIDE DEF s, n
    <3>2. Slice(s, span) = [j \in 1 .. span[2] - span[1] |-> s[span[1] + j]]
      BY <2>3, <3>1, SliceElements
    <3>. QED BY <3>2 DEF s
  <2>. QED BY <2>4 DEF Piece, span
<1>2. ASSUME NEW g \in ParamGroups, NEW i \in DOMAIN GroupParams(L, r, g)
      PROVE  Slice(whole[GroupParams(L, r, g)[i]], RangeMap(L, r, GroupParams(L, r, g)[i]).param) =
               Piece(L, r, whole, GroupParams(L, r, g)[i])
  <2>1. PICK p \in Owned(L, r) : p = GroupParams(L, r, g)[i]
    BY GroupsOwn
  <2>. QED BY <1>1, <2>1 DEF Span
<1>. QED BY <1>2 DEF Shards

(* The shards after an update.                                                   *)
LEMMA GradsWhole ==
  ASSUME NEW r
  PROVE  Wholes(Grads(r), size)
<1>1. Grads(r) = [p \in Params |-> [k \in 1 .. size[p] |-> data[r][range[p][1] + k - 1]]]
  BY DEF Grads
<1>. QED BY <1>1 DEF Wholes

LEMMA PieceUpdated ==
  ASSUME ScheduleInv, DataInv, UseDistributedOptimizer, NEW r \in Replicas, pc[r] = "step",
         NEW n \in Nat, NEW p \in Owned(Layout, r)
  PROVE  Piece(Layout, r, Trained(n + 1), p) =
           [k \in DOMAIN Piece(Layout, r, Trained(n), p) |->
             Updated(Piece(Layout, r, Trained(n), p)[k], Piece(Layout, r, Grads(r), p)[k])]
<1>. DEFINE span == Span(Layout, r, p)
            old == Piece(Layout, r, Trained(n), p)
            grad == Piece(Layout, r, Grads(r), p)
            new == Piece(Layout, r, Trained(n + 1), p)
<1>0. Placement
  BY DEF ScheduleInv
<1>1. /\ size \in Sizes /\ WellLaid(Layout, size) /\ Layout.range = range /\ Layout.buckets = buckets
      /\ Layout.dp = D /\ Layout.distributed
  BY <1>0, Placed_Well
<1>2. /\ span[1] \in Nat /\ span[2] \in Nat /\ span[1] <= span[2] /\ span[2] <= size[p]
      /\ \A k \in 1 .. span[2] - span[1] :
           range[p][1] + span[1] + k - 1 \in ShardElements(D, buckets[range[p][3]], r)
  BY <1>1, SpanOf DEF Replicas
<1>3. p \in Params /\ size[p] \in Nat
  BY <1>1 DEF Owned, Sizes
<1>4. /\ old = [k \in 1 .. span[2] - span[1] |-> Trained(n)[p][span[1] + k]]
      /\ grad = [k \in 1 .. span[2] - span[1] |-> Grads(r)[p][span[1] + k]]
      /\ new = [k \in 1 .. span[2] - span[1] |-> Trained(n + 1)[p][span[1] + k]]
  BY DEF Piece
<1>. HIDE DEF span, old, grad, new
<1>5. ASSUME NEW k \in 1 .. span[2] - span[1]
      PROVE  new[k] = Updated(old[k], grad[k])
  <2>1. PICK j \in 1 .. size[p] : j = span[1] + k
    BY <1>2, <1>3
  <2>2. /\ Trained(n)[p][j] = Element(p, j, [i \in 1 .. n |-> Average])
        /\ Trained(n + 1)[p][j] = Element(p, j, [i \in 1 .. n + 1 |-> Average])
    BY <1>3, TrainedIs
  <2>3. /\ range[p][1] + j - 1 \in MainGrad(p) /\ range[p][1] \in Nat
        /\ Grads(r)[p][j] = data[r][range[p][1] + j - 1]
    BY <1>0, <1>3, PlaceOf
  <2>4. range[p][1] + j - 1 \in Reduced(r, BucketOf(p))
    <3>1. Reduced(r, BucketOf(p)) = ShardElements(D, buckets[range[p][3]], r)
      BY DEF Reduced, ReducedElements, Config, UseDistributedOptimizer, BucketOf
    <3>2. range[p][1] + j - 1 = range[p][1] + span[1] + k - 1
      BY <1>2, <2>1, <2>3
    <3>. QED BY <1>2, <3>1, <3>2
  <2>5. Grads(r)[p][j] = Average
    BY <1>3, <2>3, <2>4, StepGrads
  <2>6. new[k] = Trained(n + 1)[p][j] /\ old[k] = Trained(n)[p][j] /\ grad[k] = Grads(r)[p][j]
    BY <1>4, <2>1
  <2>. QED BY <2>2, <2>5, <2>6, OneMore
<1>6. new = [k \in DOMAIN old |-> Updated(old[k], grad[k])]
  <2>1. DOMAIN old = 1 .. span[2] - span[1] /\ new = [k \in 1 .. span[2] - span[1] |-> new[k]]
    BY <1>4
  <2>. QED BY <1>5, <2>1
<1>. QED BY <1>6 DEF old, grad, new

LEMMA ShardUpdated ==
  ASSUME ScheduleInv, DataInv, UseDistributedOptimizer, NEW r \in Replicas, pc[r] = "step",
         NEW n \in Nat, main[r] = Shards(Layout, r, Trained(n)), ShardStep(r)
  PROVE  main' = [main EXCEPT ![r] = Shards(Layout, r, Trained(n + 1))]
<1>. DEFINE old == Shards(Layout, r, Trained(n))
            grad == Shards(Layout, r, Grads(r))
            new == Shards(Layout, r, Trained(n + 1))
            stepped == [g \in ParamGroups |-> [i \in DOMAIN old[g] |->
                         [k \in DOMAIN old[g][i] |-> Updated(old[g][i][k], grad[g][i][k])]]]
<1>1. main' = [main EXCEPT ![r] = stepped]
  BY DEF ShardStep
<1>2. /\ size \in Sizes /\ WellLaid(Layout, size) /\ Layout.dp = D /\ Layout.distributed
  BY Placed_Well DEF ScheduleInv
<1>3. /\ Wholes(Trained(n), size) /\ Wholes(Trained(n + 1), size) /\ Wholes(Grads(r), size)
  BY TrainedIs, GradsWhole
<1>4. /\ old = [g \in ParamGroups |-> [i \in DOMAIN GroupParams(Layout, r, g) |->
                 Piece(Layout, r, Trained(n), GroupParams(Layout, r, g)[i])]]
      /\ new = [g \in ParamGroups |-> [i \in DOMAIN GroupParams(Layout, r, g) |->
                 Piece(Layout, r, Trained(n + 1), GroupParams(Layout, r, g)[i])]]
      /\ grad = [g \in ParamGroups |-> [i \in DOMAIN GroupParams(Layout, r, g) |->
                 Piece(Layout, r, Grads(r), GroupParams(Layout, r, g)[i])]]
  BY <1>2, <1>3, ShardsAre DEF Replicas
<1>. HIDE DEF old, grad, new
<1>5. ASSUME NEW g \in ParamGroups, NEW i \in DOMAIN GroupParams(Layout, r, g)
      PROVE  new[g][i] = [k \in DOMAIN old[g][i] |-> Updated(old[g][i][k], grad[g][i][k])]
  <2>1. PICK p \in Owned(Layout, r) : p = GroupParams(Layout, r, g)[i]
    BY <1>2, GroupsOwn DEF Replicas
  <2>2. /\ old[g][i] = Piece(Layout, r, Trained(n), p) /\ new[g][i] = Piece(Layout, r, Trained(n + 1), p)
        /\ grad[g][i] = Piece(Layout, r, Grads(r), p)
    BY <1>4, <2>1
  <2>. QED BY <2>2, PieceUpdated
<1>6. \A g \in ParamGroups : DOMAIN old[g] = DOMAIN GroupParams(Layout, r, g)
  BY <1>4
<1>7. new = [g \in ParamGroups |-> [i \in DOMAIN GroupParams(Layout, r, g) |-> new[g][i]]]
  <2>1. ASSUME NEW g \in ParamGroups
        PROVE  new[g] = [i \in DOMAIN GroupParams(Layout, r, g) |-> new[g][i]]
    BY <1>4
  <2>2. new = [g \in ParamGroups |-> new[g]]
    BY <1>4
  <2>. QED BY <2>1, <2>2
<1>8. new = stepped
  BY <1>5, <1>6, <1>7
<1>. QED BY <1>1, <1>8 DEF new

(* What is read off the layout stays, and the invariant after a step in its terms. *)
LEMMA TrainedKept ==
  ASSUME UNCHANGED layout
  PROVE  /\ \A n : Trained(n)' = Trained(n) /\ Config(n)' = Config(n)
         /\ Layout' = Layout /\ UseDistributedOptimizer' = UseDistributedOptimizer
         /\ size' = size
<1>1. args' = args /\ size' = size /\ range' = range /\ buckets' = buckets
  BY DEF layout
<1>2. UseDistributedOptimizer' = UseDistributedOptimizer
  BY <1>1 DEF UseDistributedOptimizer
<1>3. Layout' = Layout
  BY <1>1, <1>2 DEF Layout
<1>4. \A n : Trained(n)' = Trained(n)
  BY <1>1 DEF Trained, Element, Unit
<1>5. \A n : Config(n)' = Config(n)
  BY <1>1 DEF Config
<1>. QED BY <1>1, <1>2, <1>3, <1>4, <1>5

LEMMA LearnedAfter ==
  ASSUME UNCHANGED layout, Paced',
         model' = [r \in Replicas |-> Trained(it'[r] - 1)],
         UseDistributedOptimizer =>
           /\ main' = [r \in Replicas |-> Shards(Layout, r, Trained(IF pc'[r] = "gather" THEN it'[r] ELSE it'[r] - 1))]
           /\ \A r, s \in Replicas : it'[r] = it'[s],
         file' # NoFile =>
           /\ UseDistributedOptimizer
           /\ file' = [per_bucket_numel |-> PerBucketNumel(Layout),
                       state |-> SavedState(Layout, AllShards(Layout, Trained(Iterations)))],
         restart' # NoFile =>
           /\ file' # NoFile
           /\ \E n \in Restarts : restart' = AllShards(LayoutOf(Config(n), size), Trained(Iterations))
  PROVE  LearnedInv'
<1>1. /\ \A n : Trained(n)' = Trained(n) /\ Config(n)' = Config(n)
      /\ Layout' = Layout /\ UseDistributedOptimizer' = UseDistributedOptimizer
      /\ size' = size
  BY TrainedKept
<1>2. Modelled'
  BY <1>1 DEF Modelled
<1>3. Sharded'
  BY <1>1 DEF Sharded, Done
<1>4. Stored'
  BY <1>1 DEF Stored, NoFile
<1>5. Reloaded'
  BY <1>1 DEF Reloaded, NoFile
<1>. QED BY <1>2, <1>3, <1>4, <1>5 DEF LearnedInv

LEMMA OthersKeepLearned ==
  ASSUME Typed, LearnedInv, UNCHANGED layout, UNCHANGED <<it, params, storage>>,
         \A r \in Replicas :
           \/ pc'[r] = pc[r]
           \/ pc[r] # "gather" /\ pc'[r] \notin {"gather", "save", "stopped"}
  PROVE  LearnedInv'
<1>1. /\ Paced /\ Modelled /\ Sharded /\ Stored /\ Reloaded
      /\ it' = it /\ model' = model /\ main' = main /\ file' = file /\ restart' = restart
  BY DEF LearnedInv, params, storage
<1>2. Paced'
  <2>1. UseDistributedOptimizer' = UseDistributedOptimizer
    BY TrainedKept
  <2>. QED BY <1>1, <2>1 DEF Paced
<1>3. \A r \in Replicas : Done(r) = IF pc'[r] = "gather" THEN it'[r] ELSE it'[r] - 1
  BY <1>1 DEF Done
<1>4. UseDistributedOptimizer =>
        /\ main' = [r \in Replicas |-> Shards(Layout, r, Trained(IF pc'[r] = "gather" THEN it'[r] ELSE it'[r] - 1))]
        /\ \A r, s \in Replicas : it'[r] = it'[s]
  BY <1>1, <1>3 DEF Sharded
<1>. QED BY <1>1, <1>2, <1>4, LearnedAfter DEF Modelled, Stored, Reloaded

LEMMA ScheduleKeepsLearned ==
  ASSUME ScheduleInv, LearnedInv, NEW r \in Replicas,
         ZeroGradBuffer(r) \/ ParamHook(r) \/ FinishGradSync(r)
  PROVE  LearnedInv'
<1>1. Typed
  BY DEF ScheduleInv
<1>2. CASE ZeroGradBuffer(r)
  <2>1. UNCHANGED layout /\ UNCHANGED <<it, params, storage>>
    BY <1>2 DEF ZeroGradBuffer
  <2>2. pc[r] = "zero" /\ pc' = [pc EXCEPT ![r] = "backward"]
    BY <1>2 DEF ZeroGradBuffer
  <2>3. pc'[r] = "backward" /\ \A s \in Replicas \ {r} : pc'[s] = pc[s]
    BY <1>1, <2>2 DEF Typed
  <2>. QED BY <1>1, <2>1, <2>2, <2>3, OthersKeepLearned
<1>3. CASE ParamHook(r)
  <2>1. UNCHANGED layout /\ UNCHANGED <<it, params, storage>> /\ pc[r] = "backward" /\ AfterHook(r)
    BY <1>3 DEF ParamHook
  <2>2. pc'[r] \in {"backward", "finish"} /\ \A s \in Replicas \ {r} : pc'[s] = pc[s]
    BY <2>1, HookCounts
  <2>. QED BY <1>1, <2>1, <2>2, OthersKeepLearned
<1>4. CASE FinishGradSync(r)
  <2>1. UNCHANGED layout /\ UNCHANGED <<it, params, storage>> /\ pc[r] = "finish"
    BY <1>4 DEF FinishGradSync, progress
  <2>2. pc' = [pc EXCEPT ![r] = "step"] \/ pc' = pc
    BY <1>4 DEF FinishGradSync
  <2>3. pc'[r] \in {"finish", "step"} /\ \A s \in Replicas \ {r} : pc'[s] = pc[s]
    BY <1>1, <2>1, <2>2 DEF Typed
  <2>. QED BY <1>1, <2>1, <2>3, OthersKeepLearned
<1>. QED BY <1>2, <1>3, <1>4

LEMMA OptimizerKeepsLearned ==
  ASSUME ScheduleInv, DataInv, LearnedInv, NEW r \in Replicas, OptimizerStep(r)
  PROVE  LearnedInv'
<1>1. /\ Placement /\ Typed /\ Paced /\ Modelled /\ Stored /\ Reloaded
      /\ UNCHANGED layout /\ file' = file /\ restart' = restart
      /\ pc[r] = "step" /\ ~UseDistributedOptimizer
      /\ it' = [it EXCEPT ![r] = it[r] + 1]
      /\ pc' = [pc EXCEPT ![r] = IF it[r] = Iterations THEN "save" ELSE "zero"]
  BY DEF ScheduleInv, LearnedInv, OptimizerStep, storage, AfterStep, Typed
<1>. DEFINE n == it[r]
            new == [p \in Params |-> [k \in 1 .. size[p] |-> Updated(model[r][p][k], Grads(r)[p][k])]]
<1>2. model' = [model EXCEPT ![r] = new]
  BY DEF OptimizerStep
<1>3. n \in Nat \ {0} /\ Iterations \in Nat
  BY <1>1, Configured DEF Typed
<1>4. model[r] = Trained(n - 1)
  BY <1>1 DEF Modelled
<1>5. ASSUME NEW p \in Params, NEW k \in 1 .. size[p]
      PROVE  Updated(model[r][p][k], Grads(r)[p][k]) = Element(p, k, [i \in 1 .. n |-> Average])
  <2>1. model[r][p][k] = Element(p, k, [i \in 1 .. n - 1 |-> Average])
    <3>. DEFINE m == n - 1
    <3>. HIDE DEF m
    <3>1. Trained(m) = [q \in Params |-> [j \in 1 .. size[q] |-> Element(q, j, [i \in 1 .. m |-> Average])]]
      BY TrainedIs
    <3>2. Trained(m)[p][k] = Element(p, k, [i \in 1 .. m |-> Average])
      BY <3>1
    <3>3. model[r] = Trained(m)
      BY <1>4 DEF m
    <3>. QED BY <3>2, <3>3 DEF m
  <2>2. PICK e : e = range[p][1] + k - 1 /\ e \in MainGrad(p) /\ Grads(r)[p][k] = data[r][e]
    BY <1>1, PlaceOf
  <2>3. e \in Reduced(r, BucketOf(p))
    <3>1. e \in Bucket(BucketOf(p))
      BY <1>1, <2>2, ElementsOf
    <3>. QED BY <1>1, <3>1 DEF Reduced, ReducedElements, Config, UseDistributedOptimizer, Bucket
  <2>4. data[r][e] = Average
    BY <1>1, <2>2, <2>3, StepGrads
  <2>5. n - 1 \in Nat /\ (n - 1) + 1 = n
    BY <1>3
  <2>. HIDE DEF n
  <2>6. Updated(Element(p, k, [i \in 1 .. n - 1 |-> Average]), Average) =
          Element(p, k, [i \in 1 .. (n - 1) + 1 |-> Average])
    BY <2>5, OneMore
  <2>. QED BY <2>1, <2>2, <2>4, <2>5, <2>6
<1>6. new = Trained(n)
  <2>1. Trained(n) = [p \in Params |-> [k \in 1 .. size[p] |-> Element(p, k, [i \in 1 .. n |-> Average])]]
    BY TrainedIs
  <2>. QED BY <1>5, <2>1
<1>. HIDE DEF n, new
<1>7. it'[r] = n + 1 /\ \A s \in Replicas \ {r} : it'[s] = it[s]
  BY <1>1 DEF Typed, n
<1>8. model' = [s \in Replicas |-> Trained(it'[s] - 1)]
  <2>1. model' = [s \in Replicas |-> IF s = r THEN Trained(n) ELSE Trained(it[s] - 1)]
    BY <1>1, <1>2, <1>6 DEF Modelled
  <2>2. ASSUME NEW s \in Replicas
        PROVE  (IF s = r THEN Trained(n) ELSE Trained(it[s] - 1)) = Trained(it'[s] - 1)
    <3>1. CASE s = r
      <4>1. it'[s] - 1 = n
        BY <1>3, <1>7, <3>1
      <4>. QED BY <3>1, <4>1
    <3>2. CASE s # r
      BY <1>7, <3>2
    <3>. QED BY <3>1, <3>2
  <2>. QED BY <2>1, <2>2
<1>9. Paced'
  <2>1. UseDistributedOptimizer' = UseDistributedOptimizer
    BY <1>1, TrainedKept
  <2>2. pc'[r] \in {"save", "zero"} /\ (pc'[r] = "save" => n = Iterations)
        /\ \A s \in Replicas \ {r} : pc'[s] = pc[s]
    BY <1>1 DEF Typed, n
  <2>. QED BY <1>1, <1>3, <1>7, <2>1, <2>2 DEF Paced
<1>. QED BY <1>1, <1>8, <1>9, LearnedAfter DEF Stored, Reloaded

LEMMA ShardStepKeepsLearned ==
  ASSUME ScheduleInv, DataInv, LearnedInv, NEW r \in Replicas, ShardStep(r)
  PROVE  LearnedInv'
<1>1. /\ Placement /\ Typed /\ Paced /\ Modelled /\ Sharded /\ Stored /\ Reloaded
      /\ UNCHANGED layout /\ file' = file /\ restart' = restart /\ it' = it /\ model' = model
      /\ pc[r] = "step" /\ UseDistributedOptimizer
      /\ pc' = [pc EXCEPT ![r] = "gather"]
  BY DEF ScheduleInv, LearnedInv, ShardStep, storage, progress
<1>2. pc'[r] = "gather" /\ \A s \in Replicas \ {r} : pc'[s] = pc[s]
  BY <1>1 DEF Typed
<1>3. PICK n \in Nat : n = it[r] - 1 /\ n + 1 = it[r]
  <2>1. it[r] \in Nat \ {0}
    BY <1>1, Configured DEF Typed
  <2>. QED BY <2>1
<1>4. main = [s \in Replicas |-> Shards(Layout, s, Trained(Done(s)))] /\ Done(r) = n
  BY <1>1, <1>3 DEF Sharded, Done
<1>5. main[r] = Shards(Layout, r, Trained(n))
  BY <1>4
<1>6. main' = [main EXCEPT ![r] = Shards(Layout, r, Trained(n + 1))]
  BY <1>1, <1>5, ShardUpdated
<1>7. main' = [s \in Replicas |-> Shards(Layout, s, Trained(IF pc'[s] = "gather" THEN it'[s] ELSE it'[s] - 1))]
  <2>1. main' = [s \in Replicas |-> IF s = r THEN Shards(Layout, r, Trained(n + 1))
                                            ELSE Shards(Layout, s, Trained(Done(s)))]
    BY <1>4, <1>6
  <2>2. ASSUME NEW s \in Replicas
        PROVE  (IF s = r THEN Shards(Layout, r, Trained(n + 1)) ELSE Shards(Layout, s, Trained(Done(s)))) =
                 Shards(Layout, s, Trained(IF pc'[s] = "gather" THEN it'[s] ELSE it'[s] - 1))
    <3>1. CASE s = r
      BY <1>1, <1>2, <1>3, <3>1
    <3>2. CASE s # r
      BY <1>1, <1>2, <3>2 DEF Done
    <3>. QED BY <3>1, <3>2
  <2>. QED BY <2>1, <2>2
<1>8. Paced'
  <2>1. UseDistributedOptimizer' = UseDistributedOptimizer
    BY <1>1, TrainedKept
  <2>. QED BY <1>1, <1>2, <2>1 DEF Paced
<1>. QED BY <1>1, <1>7, <1>8, LearnedAfter DEF Modelled, Sharded, Stored, Reloaded

LEMMA GatherKeepsLearned ==
  ASSUME ScheduleInv, LearnedInv, GatherParams
  PROVE  LearnedInv'
<1>1. /\ Placement /\ Typed /\ Paced /\ Modelled /\ Sharded /\ Stored /\ Reloaded
      /\ UNCHANGED layout /\ file' = file /\ restart' = restart /\ main' = main
      /\ \A r \in Replicas : pc[r] = "gather"
      /\ model' = [r \in Replicas |-> ModelParams(Layout, main)]
      /\ it' = [r \in Replicas |-> it[r] + 1]
      /\ pc' = [r \in Replicas |-> IF it[r] = Iterations THEN "save" ELSE "zero"]
  BY DEF ScheduleInv, LearnedInv, GatherParams, storage, AfterStep
<1>2. D \in Nat \ {0} /\ 1 \in Replicas /\ Iterations \in Nat
  BY Configured DEF Replicas
<1>3. UseDistributedOptimizer
  BY <1>1, <1>2 DEF Paced
<1>4. PICK n \in Nat \ {0} : \A r \in Replicas : it[r] = n /\ n <= Iterations + 1
  <2>1. it[1] \in Nat \ {0} /\ it[1] <= Iterations + 1
    BY <1>1, <1>2 DEF Typed
  <2>. QED BY <1>1, <1>2, <1>3, <2>1 DEF Sharded
<1>5. main = AllShards(Layout, Trained(n))
  <2>1. main = [r \in Replicas |-> Shards(Layout, r, Trained(Done(r)))]
    BY <1>1, <1>3 DEF Sharded
  <2>2. \A r \in Replicas : Done(r) = n
    BY <1>1, <1>4 DEF Done
  <2>3. Layout.dp = D
    BY <1>1, Placed_Well
  <2>. QED BY <2>1, <2>2, <2>3 DEF AllShards, Replicas
<1>6. ModelParams(Layout, main) = Trained(n)
  <2>1. size \in Sizes /\ WellLaid(Layout, size) /\ Layout.distributed
    BY <1>1, <1>3, Placed_Well
  <2>2. Wholes(Trained(n), size)
    BY TrainedIs
  <2>. QED BY <1>5, <2>1, <2>2, GatherRestores
<1>7. ASSUME NEW r \in Replicas
      PROVE  /\ it'[r] = n + 1 /\ it'[r] - 1 = n /\ pc'[r] \in {"save", "zero"}
             /\ pc'[r] = "save" => n = Iterations
  BY <1>1, <1>4
<1>8. model' = [r \in Replicas |-> Trained(it'[r] - 1)]
  BY <1>1, <1>6, <1>7
<1>9. main' = [r \in Replicas |-> Shards(Layout, r, Trained(IF pc'[r] = "gather" THEN it'[r] ELSE it'[r] - 1))]
  <2>1. Layout.dp = D
    BY <1>1, Placed_Well
  <2>2. main' = [r \in Replicas |-> Shards(Layout, r, Trained(n))]
    BY <1>1, <1>5, <2>1 DEF AllShards, Replicas
  <2>3. ASSUME NEW r \in Replicas
        PROVE  (IF pc'[r] = "gather" THEN it'[r] ELSE it'[r] - 1) = n
    BY <1>7
  <2>. QED BY <2>2, <2>3
<1>10. Paced'
  <2>1. UseDistributedOptimizer' = UseDistributedOptimizer
    BY <1>1, TrainedKept
  <2>. QED BY <1>2, <1>3, <1>7, <2>1 DEF Paced
<1>. QED BY <1>1, <1>7, <1>8, <1>9, <1>10, LearnedAfter DEF Stored, Reloaded

LEMMA SaveKeepsLearned ==
  ASSUME ScheduleInv, LearnedInv, Save
  PROVE  LearnedInv'
<1>1. /\ Placement /\ Typed /\ Paced /\ Modelled /\ Sharded /\ Stored /\ Reloaded
      /\ UNCHANGED layout /\ restart' = restart /\ main' = main /\ model' = model /\ it' = it
      /\ \A r \in Replicas : pc[r] = "save"
      /\ pc' = [r \in Replicas |-> "stopped"]
  BY DEF ScheduleInv, LearnedInv, Save, params, progress
<1>2. file' = IF UseDistributedOptimizer
              THEN [per_bucket_numel |-> PerBucketNumel(Layout), state |-> SavedState(Layout, main)]
              ELSE NoFile
  BY DEF Save
<1>3. /\ \A r \in Replicas : it[r] = Iterations + 1 /\ it[r] - 1 = Iterations /\ pc'[r] = "stopped"
      /\ \A r \in Replicas : Done(r) = Iterations
  <2>1. Iterations \in Nat
    BY Configured
  <2>. QED BY <1>1, <2>1 DEF Paced, Done
<1>4. ASSUME UseDistributedOptimizer
      PROVE  main = AllShards(Layout, Trained(Iterations))
  <2>1. main = [r \in Replicas |-> Shards(Layout, r, Trained(Done(r)))]
    BY <1>1, <1>4 DEF Sharded
  <2>2. Layout.dp = D
    BY <1>1, Placed_Well
  <2>. QED BY <1>3, <2>1, <2>2 DEF AllShards, Replicas
<1>. DEFINE saved == [per_bucket_numel |-> PerBucketNumel(Layout),
                      state |-> SavedState(Layout, AllShards(Layout, Trained(Iterations)))]
<1>5. file' # NoFile => UseDistributedOptimizer /\ file' = saved
  BY <1>2, <1>4
<1>6. file # NoFile => file' # NoFile
  <2>1. file # NoFile => UseDistributedOptimizer /\ file = saved
    BY <1>1 DEF Stored
  <2>2. UseDistributedOptimizer => file' = saved
    BY <1>2, <1>4
  <2>. HIDE DEF saved
  <2>. QED BY <2>1, <2>2
<1>. HIDE DEF saved
<1>7. \A r \in Replicas : Done(r) = IF pc'[r] = "gather" THEN it'[r] ELSE it'[r] - 1
  BY <1>1, <1>3
<1>8. UseDistributedOptimizer =>
        /\ main' = [r \in Replicas |-> Shards(Layout, r, Trained(IF pc'[r] = "gather" THEN it'[r] ELSE it'[r] - 1))]
        /\ \A r, s \in Replicas : it'[r] = it'[s]
  BY <1>1, <1>7 DEF Sharded
<1>9. Paced'
  <2>1. UseDistributedOptimizer' = UseDistributedOptimizer
    BY <1>1, TrainedKept
  <2>. QED BY <1>1, <1>3, <2>1 DEF Paced
<1>10. restart' # NoFile =>
         /\ file' # NoFile
         /\ \E n \in Restarts : restart' = AllShards(LayoutOf(Config(n), size), Trained(Iterations))
  BY <1>1, <1>6 DEF Reloaded
<1>. QED BY <1>1, <1>5, <1>8, <1>9, <1>10, LearnedAfter DEF Modelled, saved

LEMMA RestartKeepsLearned ==
  ASSUME ScheduleInv, LearnedInv, NEW n \in Restarts, Restart(n)
  PROVE  LearnedInv'
<1>. DEFINE L == LayoutOf(Config(n), size)
<1>1. /\ Placement /\ Typed /\ Paced /\ Modelled /\ Sharded /\ Stored
      /\ UNCHANGED layout /\ file' = file /\ main' = main /\ model' = model /\ it' = it /\ pc' = pc
      /\ file # NoFile /\ PerBucketNumel(L) = file.per_bucket_numel
      /\ restart' = [r \in 1 .. n |-> LoadedShards(L, r, file.state)]
  BY DEF ScheduleInv, LearnedInv, Restart, params, progress
<1>2. /\ UseDistributedOptimizer
      /\ file.per_bucket_numel = PerBucketNumel(Layout)
      /\ file.state = SavedState(Layout, AllShards(Layout, Trained(Iterations)))
  BY <1>1 DEF Stored
<1>3. n \in Nat \ {0} /\ D \in Nat \ {0} /\ args \in Settings
  BY <1>1, Configured DEF Placement
<1>4. /\ Config(n) \in Configs /\ Config(n).dp = n /\ Config(n).distributed
      /\ Config(D) \in Configs /\ Config(D).dp = D /\ Config(D).distributed
      /\ Config(D).bucket_size = Config(n).bucket_size
  <2>1. Config(D).bucket_size = Config(n).bucket_size
    BY DEF Config
  <2>. QED BY <1>2, <1>3, <2>1, Chosen
<1>5. size \in Sizes /\ Layout = LayoutOf(Config(D), size) /\ Wholes(Trained(Iterations), size)
  BY <1>1, Placed_Well, TrainedIs
<1>6. ASSUME NEW r \in 1 .. n PROVE LoadedShards(L, r, file.state) = Shards(L, r, Trained(Iterations))
  <2>. DEFINE c == Config(D)
              d == Config(n)
              K == LayoutOf(c, size)
              whole == Trained(Iterations)
  <2>1. /\ c \in Configs /\ d \in Configs /\ c.bucket_size = d.bucket_size /\ c.distributed /\ d.distributed
        /\ size \in Sizes /\ Wholes(whole, size) /\ d.dp = n
        /\ PerBucketNumel(LayoutOf(c, size)) = PerBucketNumel(LayoutOf(d, size))
    BY <1>1, <1>2, <1>4, <1>5
  <2>2. file.state = SavedState(LayoutOf(c, size), AllShards(LayoutOf(c, size), whole))
    BY <1>2, <1>5
  <2>. HIDE DEF c, d, whole
  <2>3. LoadedShards(LayoutOf(d, size), r, SavedState(LayoutOf(c, size), AllShards(LayoutOf(c, size), whole))) =
          Shards(LayoutOf(d, size), r, whole)
    BY <2>1, CheckpointKeepsParameters
  <2>. QED BY <2>2, <2>3 DEF d, whole
<1>7. L.dp = n
  BY <1>4, <1>5, Laid
<1>8. restart' = AllShards(L, Trained(Iterations))
  BY <1>1, <1>6, <1>7 DEF AllShards
<1>9. \A r \in Replicas : Done(r) = IF pc'[r] = "gather" THEN it'[r] ELSE it'[r] - 1
  BY <1>1 DEF Done
<1>10. UseDistributedOptimizer =>
         /\ main' = [r \in Replicas |-> Shards(Layout, r, Trained(IF pc'[r] = "gather" THEN it'[r] ELSE it'[r] - 1))]
         /\ \A r, s \in Replicas : it'[r] = it'[s]
  BY <1>1, <1>9 DEF Sharded
<1>11. Paced'
  <2>1. UseDistributedOptimizer' = UseDistributedOptimizer
    BY <1>1, TrainedKept
  <2>. QED BY <1>1, <2>1 DEF Paced
<1>. QED BY <1>1, <1>8, <1>10, <1>11, LearnedAfter DEF Modelled, Stored

LEMMA NextKeepsLearned ==
  ASSUME ScheduleInv, DataInv, LearnedInv, [Next]_vars
  PROVE  LearnedInv'
<1>1. Typed
  BY DEF ScheduleInv
<1>2. ASSUME NEW r \in Replicas, ReplicaStep(r) PROVE LearnedInv'
  BY <1>2, ScheduleKeepsLearned, OptimizerKeepsLearned, ShardStepKeepsLearned DEF ReplicaStep
<1>3. ASSUME UNCHANGED layout, UNCHANGED <<it, params, storage>>, pc' = pc PROVE LearnedInv'
  BY <1>1, <1>3, OthersKeepLearned
<1>4. CASE Complete
  <2>1. UNCHANGED layout /\ UNCHANGED <<it, params, storage>> /\ pc' = pc
    BY <1>4 DEF Complete, progress
  <2>. QED BY <1>3, <2>1
<1>5. CASE UNCHANGED vars
  <2>1. UNCHANGED layout /\ UNCHANGED <<it, params, storage>> /\ pc' = pc
    BY <1>5 DEF vars, progress
  <2>. QED BY <1>3, <2>1
<1>. QED BY <1>2, <1>4, <1>5, GatherKeepsLearned, SaveKeepsLearned, RestartKeepsLearned DEF Next, Finished

LEMMA LearnedInit ==
  ASSUME Init
  PROVE  LearnedInv
<1>1. /\ pc = [r \in Replicas |-> "zero"] /\ it = [r \in Replicas |-> 1]
      /\ model = [r \in Replicas |-> [p \in Params |-> [k \in 1 .. size[p] |-> Element(p, k, <<>>)]]]
      /\ main = [r \in Replicas |-> IF UseDistributedOptimizer THEN Shards(Layout, r, model[r]) ELSE <<>>]
      /\ file = NoFile /\ restart = NoFile
  BY DEF Init
<1>2. \A r \in Replicas : pc[r] = "zero" /\ it[r] = 1 /\ it[r] - 1 = 0 /\ Done(r) = 0
  BY <1>1 DEF Done
<1>3. Trained(0) = [p \in Params |-> [k \in 1 .. size[p] |-> Element(p, k, <<>>)]]
  <2>1. [i \in 1 .. 0 |-> Average] = <<>>
    OBVIOUS
  <2>2. Trained(0) = [p \in Params |-> [k \in 1 .. size[p] |-> Element(p, k, [i \in 1 .. 0 |-> Average])]]
    BY TrainedIs
  <2>. QED BY <2>1, <2>2
<1>4. model = [r \in Replicas |-> Trained(0)] /\ \A r \in Replicas : model[r] = Trained(0)
  BY <1>1, <1>3
<1>5. Modelled
  BY <1>2, <1>4 DEF Modelled
<1>6. Sharded
  <2>1. UseDistributedOptimizer => main = [r \in Replicas |-> Shards(Layout, r, Trained(0))]
    BY <1>1, <1>4
  <2>. QED BY <1>2, <2>1 DEF Sharded
<1>7. Paced
  BY <1>2 DEF Paced
<1>. QED BY <1>1, <1>5, <1>6, <1>7 DEF LearnedInv, Stored, Reloaded

(* The inductive invariant of gradients, parameters and checkpoint.              *)
Inv == ScheduleInv /\ DataInv /\ LearnedInv

(* The three parts are kept together: the flags and queues of the reductions,    *)
(* what the buffers hold, what the parameters, shards and files hold.            *)
THEOREM Learning == Spec => []Inv
<1>1. Init => Inv
  BY ScheduleInit, DataInit, LearnedInit DEF Inv
<1>2. Inv /\ [Next]_vars => Inv'
  BY NextKeepsSchedule, NextKeepsData, NextKeepsLearned DEF Inv
<1>. QED BY <1>1, <1>2, PTL DEF Spec

(* The variables of the gradient buffers have their types: what the flags,       *)
(* queues and counters may hold, and no parameter ever changes its size.         *)
THEOREM TypeCorrect == Spec => []TypeOK
<1>1. ASSUME Inv PROVE TypeOK
  <2>1. /\ Placement /\ Typed /\ DataTyped /\ Modelled /\ Reloaded
    BY <1>1 DEF Inv, ScheduleInv, DataInv, LearnedInv
  <2>2. WellLaid(Layout, size) /\ Layout.range = range /\ Layout.buckets = buckets /\ size \in Sizes
    BY <2>1, Placed_Well
  <2>3. range \in [Params -> Nat \X Nat \X Nat]
    BY <2>2 DEF WellLaid
  <2>4. \A b \in BucketIds : buckets[b] \in [first : Nat, end : Nat, params : SUBSET Params]
    BY <2>2 DEF WellLaid, BucketIds
  <2>5. ASSUME NEW r \in Replicas, NEW p \in Params PROVE Len(model[r][p]) = size[p]
    <3>. DEFINE n == it[r] - 1
                element(k) == Element(p, k, [i \in 1 .. n |-> Average])
    <3>1. model[r] = Trained(n) /\ size[p] \in Nat
      BY <2>1, <2>2 DEF Modelled, Sizes
    <3>. HIDE DEF n, element
    <3>2. Trained(n) = [q \in Params |-> [k \in 1 .. size[q] |-> Element(q, k, [i \in 1 .. n |-> Average])]]
      BY TrainedIs
    <3>3. model[r][p] = [k \in 1 .. size[p] |-> element(k)]
      BY <3>1, <3>2 DEF element
    <3>. QED BY <3>1, <3>3
  <2>6. restart # NoFile => file # NoFile /\ Len(restart) \in Restarts
    <3>1. ASSUME restart # NoFile PROVE file # NoFile /\ Len(restart) \in Restarts
      <4>1. PICK n \in Restarts : restart = AllShards(LayoutOf(Config(n), size), Trained(Iterations))
        BY <2>1, <3>1 DEF Reloaded
      <4>2. n \in Nat \ {0} /\ args \in Settings
        BY <2>1, Configured DEF Placement
      <4>3. LayoutOf(Config(n), size).dp = n
        BY <2>2, <4>2, Chosen, Laid
      <4>4. Len(restart) = n
        BY <4>1, <4>2, <4>3 DEF AllShards
      <4>. QED BY <2>1, <3>1, <4>4 DEF Reloaded
    <3>. QED BY <3>1
  <2>. QED BY <2>1, <2>3, <2>4, <2>5, <2>6 DEF TypeOK, Placement, Typed, DataTyped
<1>. QED BY <1>1, Learning, PTL

(* Every element of every parameter is updated, on every replica and in every    *)
(* iteration, with the average of all the gradients of all replicas, each once,  *)
(* and a job that loads the checkpoint starts from the same parameters.          *)
THEOREM UpdatesAreExact == Spec => []UpdatedExactly
<1>1. ASSUME Inv PROVE UpdatedExactly
  <2>1. Placement /\ Modelled /\ Stored /\ Reloaded
    BY <1>1 DEF Inv, ScheduleInv, LearnedInv
  <2>2. \A r \in Replicas : model[r] = Trained(it[r] - 1)
    BY <2>1 DEF Modelled
  <2>3. ASSUME restart # NoFile
        PROVE  LET n == Len(restart)
                   L == LayoutOf(Config(n), size)
               IN /\ restart = [r \in 1..n |-> Shards(L, r, Trained(Iterations))]
                  /\ ModelParams(L, restart) = Trained(Iterations)
    <3>1. PICK n \in Restarts : restart = AllShards(LayoutOf(Config(n), size), Trained(Iterations))
      BY <2>1, <2>3 DEF Reloaded
    <3>. DEFINE L == LayoutOf(Config(n), size)
    <3>2. n \in Nat \ {0} /\ args \in Settings /\ size \in Sizes /\ UseDistributedOptimizer
      BY <2>1, <2>3, Configured, Placed_Well DEF Placement, Reloaded, Stored
    <3>3. /\ WellLaid(L, size) /\ L.dp = n /\ L.distributed
      BY <3>2, Chosen, Laid
    <3>. HIDE DEF L
    <3>4. restart = AllShards(L, Trained(Iterations))
      BY <3>1 DEF L
    <3>5. restart = [r \in 1 .. n |-> Shards(L, r, Trained(Iterations))] /\ Len(restart) = n
      BY <3>2, <3>3, <3>4 DEF AllShards
    <3>6. ModelParams(L, restart) = Trained(Iterations)
      BY <3>2, <3>3, <3>4, TrainedIs, GatherRestores
    <3>. QED BY <3>5, <3>6 DEF L
  <2>. QED BY <2>2, <2>3 DEF UpdatedExactly
<1>. QED BY <1>1, Learning, PTL
===============================================================================
