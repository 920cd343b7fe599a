-------------------------- MODULE ParallelStateProofs --------------------------
(* The process groups of every accepted world: they divide the ranks among them, *)
(* the pipelines meet every layer of the model once and in order, and what is    *)
(* reduced over the groups, gradients and norms, counts everything once.         *)
EXTENDS ParallelState, SequenceTheorems, Arithmetic

-------------------------------------------------------------------------------
(* Groups of ranks at equal distances                                            *)

(* The blocks of B ranks of a world of W, each dealt out to S groups; and the    *)
(* group of rank r.                                                              *)
Blocks(q, B, S) == {PyRange(u * B + v, (u + 1) * B, S) : u \in 0 .. q - 1, v \in 0 .. S - 1}
Strided(W, B, S) == Blocks(W \div B, B, S)
Part(B, S, r) == [n \in 1 .. B \div S |-> (r \div B) * B + (r % S) + (n - 1) * S]

(* The sizes divide each other.                                                  *)
Divides(S, B) == S \in Nat \ {0} /\ B \in Nat \ {0} /\ B % S = 0
Nested(W, B, S) == Divides(S, B) /\ Divides(B, W)

(* The quotient and the remainder of a number that is given by them.             *)
LEMMA DivisionIs ==
  ASSUME NEW a, NEW q \in Int, NEW b \in Nat \ {0}, NEW x \in 0 .. b - 1, a = q * b + x
  PROVE  a \div b = q /\ a % b = x
BY DivisionUnique

(* One element of range(start, stop, step).                                      *)
RangeIs(B, S, u, v) ==
  /\ B \div S \in Nat \ {0} /\ B = (B \div S) * S
  /\ PyRange(u * B + v, (u + 1) * B, S) = [n \in 1 .. B \div S |-> u * B + v + (n - 1) * S]

LEMMA PyRangeIs ==
  ASSUME NEW B, NEW S, Divides(S, B), NEW u \in Nat, NEW v \in 0 .. S - 1
  PROVE  RangeIs(B, S, u, v)
<1>0. S \in Nat \ {0} /\ B \in Nat \ {0} /\ B % S = 0
  BY DEF Divides
<1>1. B \div S \in Int /\ B = (B \div S) * S
  BY <1>0, MultipleOf, Division
<1>2. PICK m \in Int : m = B \div S /\ B = m * S
  BY <1>1
<1>3. m \in Nat \ {0}
  <2>1. ASSUME m <= 0 PROVE FALSE
    <3>1. m * S <= 0 * S
      BY <1>0, <1>2, <2>1, TimesMonotonic
    <3>. QED BY <1>0, <1>2, <3>1
  <2>. QED BY <1>2, <2>1
<1>4. ((u + 1) * B - (u * B + v) + S - 1) \div S = m
  <2>1. PICK p \in Int : p = u * B /\ (u + 1) * B = p + B
    BY <1>0
  <2>2. PICK w \in 0 .. S - 1 : w = S - 1 - v
    BY <1>0
  <2>3. (u + 1) * B - (u * B + v) + S - 1 = B + w
    BY <1>0, <2>1, <2>2
  <2>4. PICK a \in Int : a = B + w /\ a = m * S + w
    <3>1. B + w \in Int /\ B + w = m * S + w
      BY <1>0, <1>2
    <3>. QED BY <3>1
  <2>5. a \div S = m
    BY <1>0, <2>4, DivisionIs
  <2>. QED BY <2>3, <2>4, <2>5
<1>. QED BY <1>1, <1>2, <1>3, <1>4 DEF PyRange, RangeIs

(* The elements are the numbers of block u that are v modulo S.                  *)
Holds(x, B, S, u, v, n) == x \in Nat /\ x \div B = u /\ x % S = v /\ (x % B) \div S = n - 1

LEMMA PartHolds ==
  ASSUME NEW B, NEW S, Divides(S, B), NEW u \in Nat, NEW v \in 0 .. S - 1,
         NEW n \in 1 .. B \div S, NEW x, x = u * B + v + (n - 1) * S
  PROVE  Holds(x, B, S, u, v, n)
<1>0. S \in Nat \ {0} /\ B \in Nat \ {0}
  BY DEF Divides
<1>1. PICK m \in Nat \ {0} : m = B \div S /\ B = m * S
  <2>1. 0 \in Nat /\ 0 \in 0 .. S - 1
    BY <1>0
  <2>2. RangeIs(B, S, 0, 0)
    BY <2>1, PyRangeIs
  <2>. QED BY <2>2 DEF RangeIs
<1>2. PICK i \in 0 .. m - 1 : i = n - 1
  <2>1. n \in 1 .. m
    BY <1>0, <1>1
  <2>. QED BY <2>1
<1>3. PICK y \in Int : y = i * S + v
  BY <1>0
<1>4. y \in 0 .. B - 1
  <2>1. 0 * S <= i * S /\ i * S <= (m - 1) * S
    BY <1>0, TimesMonotonic
  <2>2. (m - 1) * S = B - S
    BY <1>0, <1>1
  <2>. QED BY <1>0, <1>1, <1>3, <2>1, <2>2
<1>5. x = u * B + y
  <2>1. PICK p \in Int : p = u * B
    BY <1>0
  <2>2. x = p + v + i * S /\ i * S \in Int
    BY <1>0, <1>2, <2>1
  <2>. QED BY <1>0, <1>3, <2>1, <2>2
<1>6. x \div B = u /\ x % B = y
  BY ONLY u \in Int, <1>0, <1>4, <1>5, DivisionIs
<1>7. y \div S = i
  BY <1>0, <1>3, DivisionIs
<1>8. x = (u * m + i) * S + v
  <2>1. u * (m * S) = (u * m) * S /\ (u * m + i) * S = (u * m) * S + i * S
    BY <1>0
  <2>2. PICK e \in Int, f \in Int, g \in Int : e = (u * m) * S /\ f = i * S /\ g = (u * m + i) * S
    BY <1>0
  <2>3. u * B = e /\ y = f + v /\ g = e + f
    BY <1>1, <1>3, <2>1, <2>2
  <2>4. x = g + v
    BY <1>0, <1>5, <2>2, <2>3
  <2>. QED BY <2>2, <2>4
<1>9. x % S = v
  <2>1. PICK q \in Int : q = u * m + i
    BY <1>0
  <2>2. x = q * S + v
    BY <1>8, <2>1
  <2>. QED BY ONLY q \in Int, <1>0, v \in 0 .. S - 1, <2>2, DivisionIs
<1>10. x \in Nat
  <2>1. 0 * B <= u * B
    BY <1>0, TimesMonotonic
  <2>. QED BY <1>0, <1>4, <1>5, <2>1
<1>. QED BY <1>0, <1>2, <1>6, <1>7, <1>9, <1>10 DEF Holds

(* Every rank is in its group, at the quotient of its place in the block.        *)
PartSound(B, S, r) ==
  /\ B \div S \in Nat \ {0} /\ Len(Part(B, S, r)) = B \div S
  /\ r \div B \in Nat /\ r % S \in 0 .. S - 1
  /\ (r % B) \div S \in 0 .. (B \div S) - 1 /\ Part(B, S, r)[(r % B) \div S + 1] = r
  /\ \A n \in 1 .. B \div S : /\ Part(B, S, r)[n] \in Nat
                              /\ Part(B, S, r)[n] \div B = r \div B
                              /\ Part(B, S, r)[n] % S = r % S
                              /\ (Part(B, S, r)[n] % B) \div S = n - 1

LEMMA PartIs ==
  ASSUME NEW B, NEW S, Divides(S, B), NEW r \in Nat
  PROVE  PartSound(B, S, r)
<1>. S \in Nat \ {0} /\ B \in Nat \ {0}
  BY DEF Divides
<1>0. /\ r \div B \in Int /\ r = (r \div B) * B + (r % B) /\ r % B \in 0 .. B - 1
      /\ r % S \in 0 .. S - 1 /\ r \div S \in Int /\ r = (r \div S) * S + (r % S)
  <2>1. r \in Int
    OBVIOUS
  <2>. QED BY ONLY <2>1, S \in Nat \ {0}, B \in Nat \ {0}, Division
<1>1. PICK u \in Int, y \in 0 .. B - 1, v \in 0 .. S - 1 : u = r \div B /\ y = r % B /\ v = r % S
  BY <1>0
<1>2. u \in Nat
  <2>1. ASSUME u <= -1 PROVE FALSE
    <3>1. u * B <= (-1) * B
      BY <2>1, TimesMonotonic
    <3>. QED BY <1>0, <1>1, <3>1
  <2>. QED BY <2>1
<1>3. PICK m \in Nat \ {0} : m = B \div S /\ B = m * S
  <2>1. 0 \in Nat /\ 0 \in 0 .. S - 1
    OBVIOUS
  <2>2. RangeIs(B, S, 0, 0)
    BY <2>1, PyRangeIs
  <2>. QED BY <2>2 DEF RangeIs
<1>4. /\ y \div S \in Int /\ y = (y \div S) * S + (y % S) /\ y % S \in 0 .. S - 1 /\ y \div S \in 0 .. m - 1
  <2>1. y \in Int /\ y \in 0 .. m * S - 1
    BY <1>3
  <2>. QED BY <2>1, Division, QuotientBounds
<1>5. y % S = v
  <2>1. PICK k \in Int, w \in 0 .. S - 1 : k = y \div S /\ w = y % S /\ y = k * S + w
    BY <1>4
  <2>2. r = (u * m + k) * S + w
    <3>1. u * (m * S) = (u * m) * S /\ (u * m + k) * S = (u * m) * S + k * S
      OBVIOUS
    <3>. QED BY <1>0, <1>1, <1>3, <2>1, <3>1
  <2>3. PICK q \in Int : q = u * m + k
    OBVIOUS
  <2>4. r % S = w
    BY <2>2, <2>3, DivisionUnique
  <2>. QED BY <1>1, <2>1, <2>4
<1>6. /\ Len(Part(B, S, r)) = m /\ \A n \in 1 .. m : Part(B, S, r)[n] = u * B + v + (n - 1) * S
  BY <1>1, <1>3 DEF Part
<1>7. y \div S + 1 \in 1 .. m /\ Part(B, S, r)[y \div S + 1] = r
  <2>1. PICK k \in 0 .. m - 1 : k = y \div S
    BY <1>4
  <2>2. k + 1 \in 1 .. m /\ k + 1 - 1 = k
    OBVIOUS
  <2>3. Part(B, S, r)[k + 1] = u * B + v + k * S
    BY <1>6, <2>2
  <2>4. PICK e \in Int, f \in Int : e = k * S /\ f = u * B
    OBVIOUS
  <2>5. y = e + v /\ r = f + y /\ Part(B, S, r)[k + 1] = f + v + e
    BY <1>0, <1>1, <1>4, <1>5, <2>1, <2>3, <2>4
  <2>6. Part(B, S, r)[k + 1] = r
    BY <2>4, <2>5
  <2>. QED BY <2>1, <2>2, <2>6
<1>8. ASSUME NEW n \in 1 .. m
      PROVE  /\ Part(B, S, r)[n] \in Nat /\ Part(B, S, r)[n] \div B = u /\ Part(B, S, r)[n] % S = v
             /\ (Part(B, S, r)[n] % B) \div S = n - 1
  <2>1. PICK x : x = Part(B, S, r)[n]
    OBVIOUS
  <2>2. x = u * B + v + (n - 1) * S /\ n \in 1 .. B \div S
    BY <1>3, <1>6, <2>1
  <2>3. x \in Nat /\ x \div B = u /\ x % S = v /\ (x % B) \div S = n - 1
    <3>1. Holds(x, B, S, u, v, n)
      BY ONLY Divides(S, B), v \in 0 .. S - 1, <1>2, <2>2, PartHolds
    <3>. QED BY <3>1 DEF Holds
  <2>. QED BY <2>1, <2>3
<1>. QED BY <1>1, <1>2, <1>3, <1>4, <1>6, <1>7, <1>8 DEF PartSound

(* The group of a rank among strided ones, in which it has one place.            *)
LEMMA StridedGroup ==
  ASSUME NEW W, NEW B, NEW S, Nested(W, B, S), NEW r \in 0 .. W - 1
  PROVE  GroupOf(r, Strided(W, B, S)) = Part(B, S, r)
<1>0. W \in Nat \ {0} /\ B \in Nat \ {0} /\ S \in Nat \ {0} /\ Divides(S, B) /\ Divides(B, W) /\ r \in Nat
  BY DEF Nested, Divides
<1>1. PICK u \in Nat, v \in 0 .. S - 1 : u = r \div B /\ v = r % S
  <2>1. PartSound(B, S, r)
    BY <1>0, PartIs
  <2>. QED BY <1>0, <2>1 DEF PartSound
<1>2. u \in 0 .. W \div B - 1
  <2>1. W = (W \div B) * B /\ W \div B \in Nat \ {0}
    <3>1. 0 \in Nat /\ 0 \in 0 .. B - 1
      BY <1>0
    <3>2. RangeIs(W, B, 0, 0)
      BY <1>0, <3>1, PyRangeIs
    <3>. QED BY <3>2 DEF RangeIs
  <2>2. PICK q \in Nat : q = W \div B
    BY <2>1
  <2>3. r \in 0 .. q * B - 1
    BY <2>1, <2>2
  <2>. QED BY <1>0, <1>1, <2>2, <2>3, QuotientBounds
<1>3. Part(B, S, r) = PyRange(u * B + v, (u + 1) * B, S)
  <2>1. PyRange(u * B + v, (u + 1) * B, S) = [n \in 1 .. B \div S |-> u * B + v + (n - 1) * S]
    <3>1. RangeIs(B, S, u, v)
      BY <1>0, PyRangeIs
    <3>. QED BY <3>1 DEF RangeIs
  <2>. QED BY <1>1, <2>1 DEF Part
<1>4. Part(B, S, r) \in Strided(W, B, S)
  BY <1>2, <1>3 DEF Strided, Blocks
<1>5. \E n \in 1 .. Len(Part(B, S, r)) : Part(B, S, r)[n] = r
  <2>0. /\ B \div S \in Nat \ {0} /\ Len(Part(B, S, r)) = B \div S
        /\ (r % B) \div S \in 0 .. (B \div S) - 1 /\ Part(B, S, r)[(r % B) \div S + 1] = r
    <3>1. PartSound(B, S, r)
      BY <1>0, PartIs
    <3>. QED BY <3>1 DEF PartSound
  <2>1. PICK k \in Int, m \in Nat \ {0} : k = (r % B) \div S /\ m = B \div S /\ k \in 0 .. m - 1
    BY <2>0
  <2>2. k + 1 \in 1 .. m /\ Part(B, S, r)[k + 1] = r /\ Len(Part(B, S, r)) = m
    BY <2>0, <2>1
  <2>. QED BY <2>2
<1>6. ASSUME NEW g \in Strided(W, B, S), NEW n \in 1 .. Len(g), g[n] = r
      PROVE  g = Part(B, S, r)
  <2>1. PICK p \in 0 .. W \div B - 1, w \in 0 .. S - 1 : g = PyRange(p * B + w, (p + 1) * B, S)
    BY DEF Strided, Blocks
  <2>2. p \in Nat
    OBVIOUS
  <2>3. g = [l \in 1 .. B \div S |-> p * B + w + (l - 1) * S] /\ B \div S \in Nat
    <3>1. RangeIs(B, S, p, w)
      BY <1>0, <2>2, PyRangeIs
    <3>. QED BY <2>1, <3>1 DEF RangeIs
  <2>4. n \in 1 .. B \div S /\ r = p * B + w + (n - 1) * S
    BY <1>6, <2>3
  <2>5. p = u /\ w = v
    <3>1. Holds(r, B, S, p, w, n)
      BY ONLY <1>0, <2>2, w \in 0 .. S - 1, <2>4, PartHolds
    <3>. QED BY <1>1, <3>1 DEF Holds
  <2>. QED BY <1>3, <2>1, <2>5
<1>. QED BY <1>4, <1>5, <1>6 DEF GroupOf

(* A list of groups divides the ranks of a world among them.                     *)
Divided(W, groups) ==
  \A r \in 0 .. W - 1 :
    /\ r \in Range(GroupOf(r, groups))
    /\ \A m \in Range(GroupOf(r, groups)) :
         m \in 0 .. W - 1 /\ GroupOf(m, groups) = GroupOf(r, groups)

(* The numbers below a multiple, and those of its blocks.                        *)
LEMMA Below ==
  ASSUME NEW W, NEW B, Divides(B, W), NEW x \in Nat
  PROVE  /\ W \div B \in Nat \ {0} /\ W = (W \div B) * B
         /\ x \div B \in Nat /\ (x < W <=> x \div B < W \div B)
<1>1. W \in Nat \ {0} /\ B \in Nat \ {0}
  BY DEF Divides
<1>2. PICK q \in Nat \ {0} : q = W \div B /\ W = q * B
  <2>1. 0 \in Nat /\ 0 \in 0 .. B - 1
    BY <1>1
  <2>2. RangeIs(W, B, 0, 0)
    BY <2>1, PyRangeIs
  <2>. QED BY <2>2 DEF RangeIs
<1>3. PICK u \in Int, y \in 0 .. B - 1 : u = x \div B /\ x = u * B + y
  <2>1. x \in Int
    OBVIOUS
  <2>. QED BY ONLY <1>1, <2>1, Division
<1>4. u \in Nat
  <2>1. PICK p \in Int : p = u * B /\ x = p + y
    BY <1>1, <1>3
  <2>2. (-1) * B < u * B
    BY <1>1, <2>1
  <2>3. -1 < u
    BY ONLY <1>1, <2>2, u \in Int, -1 \in Int, TimesCancel
  <2>. QED BY <2>3
<1>5. ASSUME u < q PROVE x < W
  <2>1. (u + 1) * B <= q * B
    <3>1. u + 1 \in Int /\ q \in Int /\ B \in Nat /\ u + 1 <= q
      BY <1>1, <1>5
    <3>. QED BY ONLY <3>1, TimesMonotonic
  <2>2. PICK p \in Int : p = u * B /\ (u + 1) * B = p + B
    BY <1>1
  <2>3. p + B <= W
    BY <1>2, <2>1, <2>2
  <2>. QED BY <1>1, <1>3, <2>2, <2>3
<1>6. ASSUME q <= u PROVE W <= x
  <2>1. q * B <= u * B
    <3>1. u \in Int /\ q \in Int /\ B \in Nat /\ q <= u
      BY <1>1, <1>6
    <3>. QED BY ONLY <3>1, TimesMonotonic
  <2>2. PICK p \in Int : p = u * B
    BY <1>1
  <2>3. W <= p
    BY <1>2, <2>1, <2>2
  <2>. QED BY <1>1, <1>3, <2>2, <2>3
<1>7. x < W <=> u < q
  BY <1>1, <1>5, <1>6
<1>. QED BY <1>2, <1>3, <1>4, <1>7

LEMMA StridedDivided ==
  ASSUME NEW W, NEW B, NEW S, Nested(W, B, S)
  PROVE  Divided(W, Strided(W, B, S))
<1>1. Divides(S, B) /\ Divides(B, W) /\ W \in Nat \ {0}
  BY DEF Nested, Divides
<1>2. SUFFICES ASSUME NEW r \in 0 .. W - 1
               PROVE  /\ r \in Range(GroupOf(r, Strided(W, B, S)))
                      /\ \A m \in Range(GroupOf(r, Strided(W, B, S))) :
                           m \in 0 .. W - 1 /\ GroupOf(m, Strided(W, B, S)) = GroupOf(r, Strided(W, B, S))
  BY DEF Divided
<1>3. GroupOf(r, Strided(W, B, S)) = Part(B, S, r)
  BY StridedGroup
<1>4. r \in Nat /\ PartSound(B, S, r)
  <2>1. r \in Nat
    BY <1>1
  <2>. QED BY <1>1, <2>1, PartIs
<1>5. DOMAIN Part(B, S, r) = 1 .. B \div S
  BY DEF Part
<1>6. r \in Range(Part(B, S, r))
  <2>1. PICK k \in Int, d \in Nat \ {0} : k = (r % B) \div S /\ d = B \div S /\ k \in 0 .. d - 1
    BY <1>4 DEF PartSound
  <2>2. k + 1 \in DOMAIN Part(B, S, r) /\ Part(B, S, r)[k + 1] = r
    BY <1>4, <1>5, <2>1 DEF PartSound
  <2>. QED BY <2>2 DEF Range
<1>7. ASSUME NEW m \in Range(Part(B, S, r))
      PROVE  m \in 0 .. W - 1 /\ Part(B, S, m) = Part(B, S, r)
  <2>1. PICK n \in 1 .. B \div S : m = Part(B, S, r)[n]
    BY <1>5, <1>7 DEF Range
  <2>2. m \in Nat /\ m \div B = r \div B /\ m % S = r % S
    BY <1>4, <2>1 DEF PartSound
  <2>3. r \div B < W \div B
    BY <1>1, <1>2, <1>4, Below
  <2>4. m < W
    BY <1>1, <2>2, <2>3, Below
  <2>. QED BY <1>1, <2>2, <2>4 DEF Part
<1>8. \A m \in 0 .. W - 1 : GroupOf(m, Strided(W, B, S)) = Part(B, S, m)
  BY StridedGroup
<1>. QED BY <1>3, <1>6, <1>7, <1>8

-------------------------------------------------------------------------------
(* The sizes of an accepted request                                              *)

LEMMA TimesDivides ==
  ASSUME NEW m \in Nat \ {0}, NEW S \in Nat \ {0}
  PROVE  m * S \in Nat \ {0} /\ Divides(S, m * S) /\ (m * S) \div S = m
<1>1. PICK B \in Nat \ {0} : B = m * S
  BY TimesPositive
<1>2. m \in Int /\ 0 \in 0 .. S - 1 /\ B = m * S + 0
  BY <1>1
<1>3. B \div S = m /\ B % S = 0
  BY ONLY S \in Nat \ {0}, <1>2, DivisionIs
<1>. QED BY <1>1, <1>3 DEF Divides

(* The number of data-parallel replicas is D, of groups of experts F.            *)
Sized(a, D, F) ==
  /\ a.T \in Nat \ {0} /\ a.P \in Nat \ {0} /\ a.C \in Nat \ {0} /\ a.E \in Nat \ {0}
  /\ D \in Nat \ {0} /\ F \in Nat \ {0} /\ D = F * a.E
  /\ DataSize(a) = D /\ NumPipelines(a) = D * (a.C * a.T)
  /\ a.world = a.P * (D * (a.C * a.T))

Request(a) == \E W \in Worlds : a \in Requests(W) /\ Accepted(a)

LEMMA SizesOf ==
  ASSUME NEW a, Request(a)
  PROVE  \E D, F : Sized(a, D, F)
<1>1. PICK W \in Nat \ {0} : a \in Requests(W) /\ Accepted(a)
  BY SizesAssumption DEF Request
<1>2. /\ a.world = W /\ a.T \in Nat \ {0} /\ a.P \in Nat \ {0} /\ a.C \in Nat \ {0} /\ a.E \in Nat \ {0}
  BY <1>1, SizesAssumption DEF Requests
<1>3. PICK T \in Nat \ {0}, Q \in Nat \ {0}, C \in Nat \ {0}, E \in Nat \ {0} :
        T = a.T /\ Q = a.P /\ C = a.C /\ E = a.E
  BY <1>2
<1>4. PICK H \in Nat \ {0} : H = C * T
  BY TimesPositive
<1>5. T * Q * C = Q * H /\ Q * H \in Nat \ {0}
  <2>1. T * Q * C = Q * (C * T)
    OBVIOUS
  <2>. QED BY <1>4, <2>1, TimesPositive
<1>6. Divides(Q * H, W)
  BY <1>1, <1>2, <1>3, <1>5 DEF Accepted, Divides
<1>7. PICK D \in Nat \ {0} : D = W \div (Q * H) /\ W = D * (Q * H)
  <2>1. PICK B \in Nat \ {0} : B = Q * H
    BY <1>5
  <2>2. Divides(B, W) /\ 0 \in Nat
    BY <1>6, <2>1
  <2>3. W \div B \in Nat \ {0} /\ W = (W \div B) * B
    BY <2>2, Below
  <2>. QED BY <2>1, <2>3
<1>8. DataSize(a) = D
  BY <1>2, <1>3, <1>5, <1>7 DEF DataSize
<1>9. D % E = 0
  BY <1>1, <1>2, <1>3, <1>5, <1>7 DEF Accepted
<1>10. PICK F \in Nat \ {0} : D = F * E
  <2>1. Divides(E, D) /\ 0 \in Nat
    BY <1>9 DEF Divides
  <2>. QED BY <2>1, Below
<1>11. PICK N \in Nat \ {0} : N = D * H
  BY TimesPositive
<1>12. W = Q * N /\ W = N * Q
  <2>1. D * (Q * H) = Q * (D * H) /\ Q * N = N * Q
    OBVIOUS
  <2>. QED BY <1>7, <1>11, <2>1
<1>13. W \div Q = N
  BY <1>12, TimesDivides
<1>. QED BY <1>2, <1>3, <1>4, <1>8, <1>10, <1>11, <1>12, <1>13 DEF Sized, NumPipelines

-------------------------------------------------------------------------------
(* The groups of each kind                                                       *)

(* The parts of Blocks.                                                          *)
OneOf(g, q, B, S) == \E u \in 0 .. q - 1, v \in 0 .. S - 1 : g = PyRange(u * B + v, (u + 1) * B, S)

LEMMA InBlocks ==
  ASSUME NEW q, NEW B, NEW S, NEW g
  PROVE  g \in Blocks(q, B, S) <=> OneOf(g, q, B, S)
BY DEF Blocks, OneOf

LEMMA DataAre ==
  ASSUME NEW a, NEW D, NEW F, Sized(a, D, F)
  PROVE  /\ DataGroups(a) = Strided(a.world, NumPipelines(a), a.C * a.T)
         /\ Nested(a.world, NumPipelines(a), a.C * a.T)
         /\ DataWithCpGroups(a) = Strided(a.world, NumPipelines(a), a.T)
         /\ Nested(a.world, NumPipelines(a), a.T)
<1>1. PICK T \in Nat \ {0}, Q \in Nat \ {0}, C \in Nat \ {0} : T = a.T /\ Q = a.P /\ C = a.C
  BY DEF Sized
<1>2. PICK H \in Nat \ {0} : H = C * T
  BY TimesPositive
<1>3. PICK N \in Nat \ {0} : N = D * H /\ NumPipelines(a) = N /\ a.world = Q * N /\ D \in Nat \ {0}
  <2>1. D * H \in Nat \ {0} /\ NumPipelines(a) = D * H /\ a.world = Q * (D * H) /\ D \in Nat \ {0}
    BY <1>1, <1>2, TimesPositive DEF Sized
  <2>. QED BY <2>1
<1>4. Divides(N, Q * N) /\ (Q * N) \div N = Q /\ Divides(H, D * H) /\ Divides(T, C * T)
  BY <1>3, TimesDivides
<1>5. Divides(T, N)
  <2>1. PICK G \in Nat \ {0} : G = D * C
    BY <1>3, TimesPositive
  <2>2. D * (C * T) = (D * C) * T
    BY <1>3
  <2>3. N = G * T
    BY <1>2, <1>3, <2>1, <2>2
  <2>. QED BY <2>1, <2>3, TimesDivides
<1>6. Nested(a.world, N, H) /\ Nested(a.world, N, T) /\ a.world \div N = Q
  BY <1>2, <1>3, <1>4, <1>5 DEF Nested
<1>7. DataGroups(a) = Strided(a.world, N, H)
  <2>1. DataGroups(a) = {PyRange(i * N + j, (i + 1) * N, H) : i \in 0 .. Q - 1, j \in 0 .. H - 1}
    BY <1>1, <1>2, <1>3 DEF DataGroups
  <2>2. Strided(a.world, N, H) = Blocks(Q, N, H)
    BY <1>6 DEF Strided
  <2>. QED BY <2>1, <2>2 DEF Blocks
<1>8. DataWithCpGroups(a) = Strided(a.world, N, T)
  <2>1. DataWithCpGroups(a) = {PyRange(i * N + j, (i + 1) * N, T) : i \in 0 .. Q - 1, j \in 0 .. T - 1}
    BY <1>1, <1>3 DEF DataWithCpGroups, DataWithCp
  <2>2. Strided(a.world, N, T) = Blocks(Q, N, T)
    BY <1>6 DEF Strided
  <2>. QED BY <2>1, <2>2 DEF Blocks
<1>. QED BY <1>1, <1>2, <1>3, <1>6, <1>7, <1>8

LEMMA TensorsAre ==
  ASSUME NEW a, NEW D, NEW F, Sized(a, D, F)
  PROVE  TensorGroups(a) = Strided(a.world, a.T, 1) /\ Nested(a.world, a.T, 1)
<1>1. PICK T \in Nat \ {0} : T = a.T
  BY DEF Sized
<1>2. PICK G \in Nat \ {0} : a.world = G * T
  <2>1. PICK Q \in Nat \ {0}, C \in Nat \ {0} :
          Q = a.P /\ C = a.C /\ D \in Nat \ {0} /\ a.world = Q * (D * (C * T))
    BY <1>1 DEF Sized
  <2>2. PICK g \in Nat \ {0}, h \in Nat \ {0} : g = D * C /\ h = Q * g
    BY <2>1, TimesPositive
  <2>3. Q * (D * (C * T)) = (Q * (D * C)) * T
    BY <2>1
  <2>. QED BY <2>1, <2>2, <2>3
<1>3. Divides(T, a.world) /\ Divides(1, T) /\ a.world \div T = G
  <2>1. Divides(1, T)
    BY DEF Divides
  <2>. QED BY <1>2, <2>1, TimesDivides
<1>4. TensorGroups(a) = {PyRange(i * T, (i + 1) * T, 1) : i \in 0 .. G - 1}
  BY <1>1, <1>3 DEF TensorGroups
<1>5. Strided(a.world, T, 1) = Blocks(G, T, 1)
  BY <1>3 DEF Strided
<1>6. 0 \in 0 .. 1 - 1 /\ \A i \in 0 .. G - 1, j \in 0 .. 1 - 1 : j = 0 /\ i * T + j = i * T
  OBVIOUS
<1>7. ASSUME NEW i \in 0 .. G - 1 PROVE PyRange(i * T, (i + 1) * T, 1) \in Blocks(G, T, 1)
  <2>1. OneOf(PyRange(i * T, (i + 1) * T, 1), G, T, 1)
    BY <1>6 DEF OneOf
  <2>. QED BY <2>1, InBlocks
<1>8. TensorGroups(a) = Strided(a.world, T, 1)
  <2>1. ASSUME NEW g \in Blocks(G, T, 1) PROVE g \in TensorGroups(a)
    <3>1. PICK i \in 0 .. G - 1, j \in 0 .. 1 - 1 : g = PyRange(i * T + j, (i + 1) * T, 1)
      <4>1. OneOf(g, G, T, 1)
        BY InBlocks
      <4>. QED BY <4>1 DEF OneOf
    <3>. QED BY <1>4, <1>6, <3>1
  <2>. QED BY <1>4, <1>5, <1>7, <2>1
<1>. QED BY <1>1, <1>3, <1>8 DEF Nested

LEMMA PipelinesAre ==
  ASSUME NEW a, NEW D, NEW F, Sized(a, D, F)
  PROVE  /\ PipelineGroups(a) = Strided(a.world, a.world, NumPipelines(a))
         /\ Nested(a.world, a.world, NumPipelines(a))
<1>1. Divides(NumPipelines(a), a.world)
  BY DataAre DEF Nested
<1>2. PICK N \in Nat \ {0}, W \in Nat \ {0} : N = NumPipelines(a) /\ W = a.world
  BY <1>1 DEF Divides
<1>3. W % W = 0 /\ W \div W = 1 /\ Divides(W, W)
  <2>1. W = 1 * W + 0 /\ 0 \in 0 .. W - 1 /\ 1 \in Int
    BY <1>2
  <2>2. W \div W = 1 /\ W % W = 0
    BY ONLY W \in Nat \ {0}, <2>1, DivisionIs
  <2>. QED BY <1>2, <2>2 DEF Divides
<1>4. Strided(W, W, N) = {PyRange(u * W + v, (u + 1) * W, N) : u \in 0 .. 1 - 1, v \in 0 .. N - 1}
  <2>1. Strided(W, W, N) = Blocks(1, W, N)
    BY <1>3 DEF Strided
  <2>. QED BY <2>1 DEF Blocks
<1>5. \A u \in 0 .. 1 - 1 : \A v \in 0 .. N - 1 : u = 0 /\ u * W + v = v /\ (u + 1) * W = W
  BY <1>2
<1>6. 0 \in 0 .. 1 - 1
  OBVIOUS
<1>7. PipelineGroups(a) = {PyRange(i, W, N) : i \in 0 .. N - 1}
  BY <1>2 DEF PipelineGroups
<1>8. PipelineGroups(a) = Strided(W, W, N)
  <2>1. ASSUME NEW v \in 0 .. N - 1 PROVE PyRange(v, W, N) \in Strided(W, W, N)
    <3>1. PyRange(0 * W + v, (0 + 1) * W, N) \in Strided(W, W, N)
      BY <1>4, <1>6
    <3>. QED BY <1>5, <1>6, <3>1
  <2>2. ASSUME NEW u \in 0 .. 1 - 1, NEW v \in 0 .. N - 1
        PROVE  PyRange(u * W + v, (u + 1) * W, N) \in PipelineGroups(a)
    <3>1. u * W + v = v /\ (u + 1) * W = W
      BY <1>5
    <3>. QED BY <1>7, <3>1
  <2>. QED BY <1>4, <1>7, <2>1, <2>2
<1>. QED BY <1>1, <1>2, <1>3, <1>8 DEF Nested

(* Blocks within blocks: the i-th part of block u is the u * n + i-th of all.    *)
LEMMA Numbering ==
  ASSUME NEW q \in Nat \ {0}, NEW n \in Nat \ {0}
  PROVE  /\ q * n \in Nat \ {0}
         /\ \A u \in 0 .. q - 1, i \in 0 .. n - 1 : u * n + i \in 0 .. q * n - 1
<1>1. q * n \in Nat \ {0}
  BY TimesPositive
<1>2. ASSUME NEW u \in 0 .. q - 1, NEW i \in 0 .. n - 1 PROVE u * n + i \in 0 .. q * n - 1
  <2>1. 0 * n <= u * n /\ (u + 1) * n <= q * n
    BY TimesMonotonic
  <2>2. PICK p \in Int : p = u * n /\ (u + 1) * n = p + n
    OBVIOUS
  <2>3. 0 <= p /\ p + n <= q * n
    BY <2>1, <2>2
  <2>. QED BY <1>1, <2>2, <2>3
<1>. QED BY <1>1, <1>2

Split(x, q, n) == \E u \in 0 .. q - 1, i \in 0 .. n - 1 : x = u * n + i

LEMMA Numbered ==
  ASSUME NEW q \in Nat \ {0}, NEW n \in Nat \ {0}, NEW x \in 0 .. q * n - 1
  PROVE  Split(x, q, n)
<1>1. x \in Int
  BY TimesPositive
<1>3. x \div n \in 0 .. q - 1
  BY ONLY q \in Nat, n \in Nat \ {0}, x \in 0 .. q * n - 1, QuotientBounds
<1>2. x % n \in 0 .. n - 1 /\ x = (x \div n) * n + (x % n)
  BY ONLY <1>1, n \in Nat \ {0}, Division
<1>. QED BY <1>2, <1>3 DEF Split

LEMMA ContextsAre ==
  ASSUME NEW a, NEW D, NEW F, Sized(a, D, F)
  PROVE  /\ ContextGroups(a) = Strided(a.world, a.T * a.C, a.T)
         /\ Nested(a.world, a.T * a.C, a.T)
<1>1. PICK T \in Nat \ {0}, Q \in Nat \ {0}, C \in Nat \ {0} :
        T = a.T /\ Q = a.P /\ C = a.C /\ D \in Nat \ {0} /\ DataSize(a) = D
  BY DEF Sized
<1>2. PICK B \in Nat \ {0} : B = T * C /\ B = C * T
  <2>1. C * T \in Nat \ {0} /\ T * C = C * T
    BY TimesPositive
  <2>. QED BY <2>1
<1>3. PICK N \in Nat \ {0} : N = D * B /\ NumPipelines(a) = N /\ a.world = Q * N
  <2>1. D * B \in Nat \ {0}
    BY <1>1, TimesPositive
  <2>2. NumPipelines(a) = D * (a.C * a.T) /\ a.world = a.P * (D * (a.C * a.T))
    BY DEF Sized
  <2>. QED BY <1>1, <1>2, <2>1, <2>2
<1>4. PICK K \in Nat \ {0} : K = Q * D /\ a.world = K * B
  <2>1. Q * D \in Nat \ {0} /\ Q * (D * B) = (Q * D) * B
    BY <1>1, TimesPositive
  <2>. QED BY <1>3, <2>1
<1>5. Divides(T, B) /\ Divides(B, a.world) /\ a.world \div B = K
  <2>1. Divides(T, C * T)
    BY TimesDivides
  <2>2. Divides(B, K * B) /\ (K * B) \div B = K
    BY TimesDivides
  <2>. QED BY <1>2, <1>4, <2>1, <2>2
<1>6. Strided(a.world, B, T) = Blocks(K, B, T)
  BY <1>5 DEF Strided
<1>7. ContextGroups(a) = {PyRange(i * N + j * B + k, i * N + (j + 1) * B, T) :
                            i \in 0 .. Q - 1, j \in 0 .. D - 1, k \in 0 .. T - 1}
  BY <1>1, <1>2, <1>3 DEF ContextGroups
<1>8. ASSUME NEW i \in 0 .. Q - 1, NEW j \in 0 .. D - 1, NEW k \in 0 .. T - 1
      PROVE  PyRange(i * N + j * B + k, i * N + (j + 1) * B, T)
               = PyRange((i * D + j) * B + k, (i * D + j + 1) * B, T)
  <2>1. i * (D * B) + j * B + k = (i * D + j) * B + k
    BY <1>1
  <2>2. i * (D * B) + (j + 1) * B = (i * D + j + 1) * B
    BY <1>1
  <2>. QED BY <1>3, <2>1, <2>2
<1>9. ContextGroups(a) \subseteq Strided(a.world, B, T)
  <2>1. ASSUME NEW i \in 0 .. Q - 1, NEW j \in 0 .. D - 1, NEW k \in 0 .. T - 1
        PROVE  PyRange(i * N + j * B + k, i * N + (j + 1) * B, T) \in Strided(a.world, B, T)
    <3>1. PICK u \in 0 .. K - 1 : u = i * D + j
      <4>1. i * D + j \in 0 .. Q * D - 1
        BY <1>1, Numbering
      <4>. QED BY <1>4, <4>1
    <3>2. OneOf(PyRange(u * B + k, (u + 1) * B, T), K, B, T)
      BY DEF OneOf
    <3>3. PyRange(u * B + k, (u + 1) * B, T) \in Strided(a.world, B, T)
      BY <1>6, <3>2, InBlocks
    <3>. QED BY <1>8, <3>1, <3>3
  <2>. QED BY <1>7, <2>1
<1>10. Strided(a.world, B, T) \subseteq ContextGroups(a)
  <2>1. ASSUME NEW g \in Blocks(K, B, T) PROVE g \in ContextGroups(a)
    <3>1. PICK u \in 0 .. K - 1, k \in 0 .. T - 1 : g = PyRange(u * B + k, (u + 1) * B, T)
      <4>1. OneOf(g, K, B, T)
        BY InBlocks
      <4>. QED BY <4>1 DEF OneOf
    <3>2. PICK i \in 0 .. Q - 1, j \in 0 .. D - 1 : u = i * D + j
      <4>1. u \in 0 .. Q * D - 1
        BY <1>4
      <4>2. Split(u, Q, D)
        BY <1>1, <4>1, Numbered
      <4>. QED BY <4>2 DEF Split
    <3>3. PyRange(i * N + j * B + k, i * N + (j + 1) * B, T) \in ContextGroups(a)
      BY <1>7
    <3>. QED BY <1>8, <3>1, <3>2, <3>3
  <2>. QED BY <1>6, <2>1
<1>. QED BY <1>1, <1>2, <1>5, <1>9, <1>10 DEF Nested

LEMMA ExpertsAre ==
  ASSUME NEW a, NEW D, NEW F, Sized(a, D, F)
  PROVE  /\ ExpertGroups(a) = Strided(a.world, a.T * a.E, 1)
         /\ Nested(a.world, a.T * a.E, 1)
         /\ DataModuloExpertGroups(a) = Strided(a.world, a.T * D, a.T * a.E)
         /\ Nested(a.world, a.T * D, a.T * a.E)
<1>1. PICK T \in Nat \ {0}, Q \in Nat \ {0}, C \in Nat \ {0}, E \in Nat \ {0} :
        /\ T = a.T /\ Q = a.P /\ C = a.C /\ E = a.E /\ DataSize(a) = D
        /\ D \in Nat \ {0} /\ F \in Nat \ {0} /\ D = F * E
  BY DEF Sized
<1>2. PICK B \in Nat \ {0}, Z \in Nat \ {0}, K \in Nat \ {0} : B = T * E /\ Z = T * D /\ K = Q * C
  BY <1>1, TimesPositive
<1>3. Z = F * B
  <2>1. T * (F * E) = F * (T * E)
    BY <1>1
  <2>. QED BY <1>1, <1>2, <2>1
<1>4. a.world = K * Z
  <2>1. a.world = Q * (D * (C * T))
    BY <1>1 DEF Sized
  <2>2. Q * (D * (C * T)) = (Q * C) * (T * D)
    BY <1>1
  <2>. QED BY <1>2, <2>1, <2>2
<1>5. PICK G \in Nat \ {0} : G = K * F /\ a.world = G * B
  <2>1. K * F \in Nat \ {0} /\ K * (F * B) = (K * F) * B
    BY <1>1, TimesPositive
  <2>. QED BY <1>3, <1>4, <2>1
<1>6. /\ Divides(B, Z) /\ Divides(Z, a.world) /\ a.world \div Z = K
      /\ Divides(B, a.world) /\ a.world \div B = G /\ Divides(1, B) /\ D \div E = F
  <2>1. Divides(1, B)
    BY DEF Divides
  <2>2. Divides(B, F * B) /\ Divides(Z, K * Z) /\ (K * Z) \div Z = K
    BY <1>1, TimesDivides
  <2>3. Divides(B, G * B) /\ (G * B) \div B = G /\ (F * E) \div E = F
    BY <1>1, TimesDivides
  <2>. QED BY <1>1, <1>3, <1>4, <1>5, <2>1, <2>2, <2>3
<1>7. Strided(a.world, B, 1) = Blocks(G, B, 1) /\ Strided(a.world, Z, B) = Blocks(K, Z, B)
  BY <1>6 DEF Strided
<1>8. DataModuloExpertGroups(a) = Strided(a.world, Z, B)
  <2>1. DataModuloExpertGroups(a) = {PyRange(i * Z + j, (i + 1) * Z, B) : i \in 0 .. K - 1, j \in 0 .. B - 1}
    BY <1>1, <1>2, <1>6 DEF DataModuloExpertGroups
  <2>. QED BY <1>7, <2>1 DEF Blocks
<1>9. /\ \A i \in 0 .. K - 1, j \in 0 .. F - 1 :
           PyRange(i * Z + j * B, i * Z + (j + 1) * B, 1) \in ExpertGroups(a)
      /\ \A g \in ExpertGroups(a) : \E i \in 0 .. K - 1, j \in 0 .. F - 1 :
           g = PyRange(i * Z + j * B, i * Z + (j + 1) * B, 1)
  <2>1. ExpertGroups(a) = {PyRange(i * Z + j * T * E, i * Z + (j + 1) * T * E, 1) :
                             i \in 0 .. K - 1, j \in 0 .. F - 1}
    BY <1>1, <1>2, <1>6 DEF ExpertGroups
  <2>2. ASSUME NEW j \in 0 .. F - 1 PROVE j * T * E = j * B /\ (j + 1) * T * E = (j + 1) * B
    <3>1. j * T * E = j * (T * E) /\ (j + 1) * T * E = (j + 1) * (T * E)
      BY <1>1
    <3>. QED BY <1>2, <3>1
  <2>3. ASSUME NEW i \in 0 .. K - 1, NEW j \in 0 .. F - 1
        PROVE  PyRange(i * Z + j * T * E, i * Z + (j + 1) * T * E, 1)
                 = PyRange(i * Z + j * B, i * Z + (j + 1) * B, 1)
    BY <2>2
  <2>. QED BY <2>1, <2>3
<1>10. ASSUME NEW i \in 0 .. K - 1, NEW j \in 0 .. F - 1, NEW v \in 0 .. 1 - 1
       PROVE  PyRange(i * Z + j * B, i * Z + (j + 1) * B, 1)
                = PyRange((i * F + j) * B + v, (i * F + j + 1) * B, 1)
  <2>1. i * (F * B) + j * B = (i * F + j) * B + v
    BY <1>1
  <2>2. i * (F * B) + (j + 1) * B = (i * F + j + 1) * B
    BY <1>1
  <2>. QED BY <1>3, <2>1, <2>2
<1>11. ExpertGroups(a) \subseteq Strided(a.world, B, 1)
  <2>1. ASSUME NEW i \in 0 .. K - 1, NEW j \in 0 .. F - 1
        PROVE  PyRange(i * Z + j * B, i * Z + (j + 1) * B, 1) \in Strided(a.world, B, 1)
    <3>1. PICK u \in 0 .. G - 1 : u = i * F + j
      <4>1. i * F + j \in 0 .. K * F - 1
        BY <1>1, Numbering
      <4>. QED BY <1>5, <4>1
    <3>2. 0 \in 0 .. 1 - 1
      OBVIOUS
    <3>3. OneOf(PyRange(u * B + 0, (u + 1) * B, 1), G, B, 1)
      BY <3>2 DEF OneOf
    <3>4. PyRange(u * B + 0, (u + 1) * B, 1) \in Strided(a.world, B, 1)
      BY <1>7, <3>3, InBlocks
    <3>. QED BY <1>10, <3>1, <3>2, <3>4
  <2>. QED BY <1>9, <2>1
<1>12. Strided(a.world, B, 1) \subseteq ExpertGroups(a)
  <2>1. ASSUME NEW g \in Blocks(G, B, 1) PROVE g \in ExpertGroups(a)
    <3>1. PICK u \in 0 .. G - 1, v \in 0 .. 1 - 1 : g = PyRange(u * B + v, (u + 1) * B, 1)
      <4>1. OneOf(g, G, B, 1)
        BY InBlocks
      <4>. QED BY <4>1 DEF OneOf
    <3>2. PICK i \in 0 .. K - 1, j \in 0 .. F - 1 : u = i * F + j
      <4>1. u \in 0 .. K * F - 1
        BY <1>5
      <4>2. Split(u, K, F)
        BY <1>1, <4>1, Numbered
      <4>. QED BY <4>2 DEF Split
    <3>3. PyRange(i * Z + j * B, i * Z + (j + 1) * B, 1) \in ExpertGroups(a)
      BY <1>9
    <3>. QED BY <1>10, <3>1, <3>2, <3>3
  <2>. QED BY <1>7, <2>1
<1>. QED BY <1>1, <1>2, <1>6, <1>8, <1>11, <1>12 DEF Nested

(* The i-th model-parallel group, and the one that rank r is in.                 *)
ModelGroup(a, i) ==
  [n \in 1 .. a.P * a.T |-> DataWithCp(a, (n - 1) \div a.T, (n - 1) % a.T)[i]]
ModelIndex(a, r) == (r % NumPipelines(a)) \div a.T + 1
ModelPlace(a, r) == (r \div NumPipelines(a)) * a.T + (r % a.T) + 1

(* Its n-th rank.                                                                *)
Member(a, i, n, x) ==
  /\ x \in 0 .. a.world - 1 /\ ModelIndex(a, x) = i
  /\ x = ((n - 1) \div a.T) * NumPipelines(a) + ((n - 1) % a.T) + (i - 1) * a.T

LEMMA ModelMembers ==
  ASSUME NEW a, NEW D, NEW F, Sized(a, D, F), NEW i \in 1 .. D * a.C, NEW n \in 1 .. a.P * a.T
  PROVE  Member(a, i, n, ModelGroup(a, i)[n])
<1>1. PICK T \in Nat \ {0}, Q \in Nat \ {0}, C \in Nat \ {0} :
        T = a.T /\ Q = a.P /\ C = a.C /\ D \in Nat \ {0}
  BY DEF Sized
<1>2. PICK G \in Nat \ {0} : G = D * C
  BY <1>1, TimesPositive
<1>3. PICK N \in Nat \ {0} : N = G * T /\ N = NumPipelines(a) /\ a.world = Q * N
  <2>1. G * T \in Nat \ {0} /\ D * (C * T) = (D * C) * T
    BY <1>1, TimesPositive
  <2>2. NumPipelines(a) = D * (C * T) /\ a.world = Q * (D * (C * T))
    BY <1>1 DEF Sized
  <2>. QED BY <1>2, <2>1, <2>2
<1>4. Divides(T, N) /\ N \div T = G /\ Divides(N, a.world) /\ a.world \div N = Q
  <2>1. Divides(T, G * T) /\ (G * T) \div T = G
    BY TimesDivides
  <2>2. Divides(N, Q * N) /\ (Q * N) \div N = Q
    BY TimesDivides
  <2>. QED BY <1>3, <2>1, <2>2
<1>5. PICK p \in 0 .. Q - 1, t \in 0 .. T - 1 : p = (n - 1) \div T /\ t = (n - 1) % T
  <2>1. PICK z \in Nat \ {0} : z = Q * T
    BY TimesPositive
  <2>2. n - 1 \in Int /\ n - 1 \in 0 .. Q * T - 1
    BY <1>1, <2>1
  <2>3. (n - 1) \div T \in 0 .. Q - 1
    BY ONLY Q \in Nat, T \in Nat \ {0}, <2>2, QuotientBounds
  <2>4. (n - 1) % T \in 0 .. T - 1
    BY ONLY T \in Nat \ {0}, <2>2, Division
  <2>. QED BY <2>3, <2>4
<1>6. DataWithCp(a, p, t) = [l \in 1 .. G |-> p * N + t + (l - 1) * T]
  <2>1. RangeIs(N, T, p, t)
    BY <1>4, PyRangeIs
  <2>. QED BY <1>1, <1>3, <1>4, <2>1 DEF RangeIs, DataWithCp
<1>7. i \in 1 .. G
  BY <1>1, <1>2
<1>8. PICK x : x = ModelGroup(a, i)[n]
  OBVIOUS
<1>9. x = p * N + t + (i - 1) * T
  BY <1>1, <1>5, <1>6, <1>7, <1>8 DEF ModelGroup
<1>10. Holds(x, N, T, p, t, i)
  <2>1. i \in 1 .. N \div T /\ p \in Nat
    BY <1>4, <1>7
  <2>. QED BY ONLY <1>4, <2>1, t \in 0 .. T - 1, <1>9, PartHolds
<1>11. x \in Nat /\ x \div N = p /\ (x % N) \div T = i - 1
  BY <1>10 DEF Holds
<1>12. x \in 0 .. a.world - 1
  <2>1. x \div N < a.world \div N
    BY <1>4, <1>11
  <2>2. x < a.world
    BY <1>4, <1>11, <2>1, Below
  <2>. QED BY <1>3, <1>11, <2>2
<1>13. ModelIndex(a, x) = i
  <2>1. i \in Int
    BY <1>7
  <2>. QED BY <1>1, <1>3, <1>11, <2>1 DEF ModelIndex
<1>. QED BY <1>1, <1>3, <1>5, <1>8, <1>9, <1>12, <1>13 DEF Member

LEMMA ModelGroupOf ==
  ASSUME NEW a, NEW D, NEW F, Sized(a, D, F), NEW r \in 0 .. a.world - 1
  PROVE  /\ ModelIndex(a, r) \in 1 .. D * a.C
         /\ ModelPlace(a, r) \in 1 .. a.P * a.T
         /\ ModelGroup(a, ModelIndex(a, r))[ModelPlace(a, r)] = r
         /\ GroupOf(r, ModelGroups(a)) = ModelGroup(a, ModelIndex(a, r))
<1>1. PICK T \in Nat \ {0}, Q \in Nat \ {0}, C \in Nat \ {0} :
        T = a.T /\ Q = a.P /\ C = a.C /\ D \in Nat \ {0} /\ DataSize(a) = D
  BY DEF Sized
<1>2. PICK G \in Nat \ {0} : G = D * C
  BY <1>1, TimesPositive
<1>3. PICK N \in Nat \ {0} : N = G * T /\ N = NumPipelines(a) /\ a.world = Q * N
  <2>1. G * T \in Nat \ {0} /\ D * (C * T) = (D * C) * T
    BY <1>1, TimesPositive
  <2>2. NumPipelines(a) = D * (C * T) /\ a.world = Q * (D * (C * T))
    BY <1>1 DEF Sized
  <2>. QED BY <1>2, <2>1, <2>2
<1>4. Divides(T, N) /\ N \div T = G /\ Divides(N, a.world) /\ a.world \div N = Q
  <2>1. Divides(T, G * T) /\ (G * T) \div T = G
    BY TimesDivides
  <2>2. Divides(N, Q * N) /\ (Q * N) \div N = Q
    BY TimesDivides
  <2>. QED BY <1>3, <2>1, <2>2
<1>5. r \in Nat /\ r < a.world
  <2>1. a.world \in Nat
    BY <1>4 DEF Divides
  <2>. QED BY <2>1
<1>6. PICK p \in 0 .. Q - 1, t \in 0 .. T - 1, k \in 0 .. G - 1 :
        /\ p = r \div N /\ t = r % T /\ k = (r % N) \div T /\ r = p * N + t + k * T
  <2>1. PartSound(N, T, r)
    BY <1>4, <1>5, PartIs
  <2>2. r \div N < Q /\ r \div N \in Nat
    BY <1>4, <1>5, Below
  <2>3. r % T \in 0 .. T - 1 /\ (r % N) \div T \in 0 .. G - 1 /\ Part(N, T, r)[(r % N) \div T + 1] = r
    BY <1>4, <2>1 DEF PartSound
  <2>4. PICK k \in 0 .. G - 1 : k = (r % N) \div T
    BY <2>3
  <2>5. Part(N, T, r)[k + 1] = (r \div N) * N + (r % T) + ((k + 1) - 1) * T
    <3>1. k + 1 \in 1 .. N \div T
      BY <1>4, <2>4
    <3>. QED BY <3>1 DEF Part
  <2>6. (k + 1) - 1 = k
    OBVIOUS
  <2>. QED BY <2>2, <2>3, <2>4, <2>5, <2>6
<1>7. ModelIndex(a, r) = k + 1 /\ k + 1 \in 1 .. G
  <2>1. ModelIndex(a, r) = (r % N) \div T + 1
    BY <1>1, <1>3 DEF ModelIndex
  <2>2. k + 1 \in 1 .. G
    OBVIOUS
  <2>3. k = (r % N) \div T
    BY <1>6
  <2>. QED BY ONLY <2>1, <2>2, <2>3
<1>8. PICK x \in 0 .. Q * T - 1 : x = p * T + t /\ ModelPlace(a, r) = x + 1
  <2>1. p * T + t \in 0 .. Q * T - 1
    BY Numbering
  <2>. QED BY <1>1, <1>3, <1>6, <2>1 DEF ModelPlace
<1>9. x \in Int /\ x \div T = p /\ x % T = t
  <2>1. p \in Int
    OBVIOUS
  <2>2. x \div T = p /\ x % T = t
    BY ONLY <2>1, T \in Nat \ {0}, t \in 0 .. T - 1, <1>8, DivisionIs
  <2>. QED BY <1>8, <2>1, <2>2
<1>10. x + 1 \in 1 .. a.P * a.T
  <2>1. PICK z \in Nat \ {0} : z = Q * T
    BY TimesPositive
  <2>. QED BY <1>1, <2>1
<1>11. \A i \in 1 .. G : \A n \in 1 .. a.P * a.T : Member(a, i, n, ModelGroup(a, i)[n])
  <2>1. G = D * a.C
    BY <1>1, <1>2
  <2>. QED BY <2>1, ModelMembers
<1>12. ModelGroup(a, k + 1)[x + 1] = r
  <2>1. Member(a, k + 1, x + 1, ModelGroup(a, k + 1)[x + 1])
    BY <1>7, <1>10, <1>11
  <2>2. (x + 1) - 1 = x /\ (k + 1) - 1 = k
    BY <1>9
  <2>. QED BY <1>1, <1>3, <1>6, <1>9, <2>1, <2>2 DEF Member
<1>13. ModelGroups(a) = {ModelGroup(a, i) : i \in 1 .. G}
  BY <1>1, <1>2 DEF ModelGroups, ModelGroup
<1>14. \A i : Len(ModelGroup(a, i)) = a.P * a.T
  <2>1. a.P * a.T \in Nat
    BY <1>1, TimesPositive
  <2>. QED BY <2>1 DEF ModelGroup
<1>15. \E n \in 1 .. Len(ModelGroup(a, k + 1)) : ModelGroup(a, k + 1)[n] = r
  BY <1>10, <1>12, <1>14
<1>16. ASSUME NEW i \in 1 .. G, NEW n \in 1 .. Len(ModelGroup(a, i)), ModelGroup(a, i)[n] = r
       PROVE  i = k + 1
  <2>1. Member(a, i, n, r)
    BY <1>11, <1>14, <1>16
  <2>. QED BY <1>7, <2>1 DEF Member
<1>17. GroupOf(r, ModelGroups(a)) = ModelGroup(a, k + 1)
  BY <1>7, <1>13, <1>15, <1>16 DEF GroupOf
<1>. QED BY <1>1, <1>2, <1>7, <1>8, <1>10, <1>12, <1>17

LEMMA ModelsDivided ==
  ASSUME NEW a, NEW D, NEW F, Sized(a, D, F)
  PROVE  Divided(a.world, ModelGroups(a))
<1>1. SUFFICES ASSUME NEW r \in 0 .. a.world - 1
               PROVE  /\ r \in Range(GroupOf(r, ModelGroups(a)))
                      /\ \A m \in Range(GroupOf(r, ModelGroups(a))) :
                           /\ m \in 0 .. a.world - 1
                           /\ GroupOf(m, ModelGroups(a)) = GroupOf(r, ModelGroups(a))
  BY DEF Divided
<1>2. PICK i, n : /\ i = ModelIndex(a, r) /\ i \in 1 .. D * a.C /\ n \in 1 .. a.P * a.T
                  /\ ModelGroup(a, i)[n] = r /\ GroupOf(r, ModelGroups(a)) = ModelGroup(a, i)
  BY ModelGroupOf
<1>3. DOMAIN ModelGroup(a, i) = 1 .. a.P * a.T
  BY DEF ModelGroup
<1>4. ASSUME NEW m \in Range(ModelGroup(a, i))
      PROVE  m \in 0 .. a.world - 1 /\ GroupOf(m, ModelGroups(a)) = ModelGroup(a, i)
  <2>1. PICK l \in 1 .. a.P * a.T : m = ModelGroup(a, i)[l]
    BY <1>3, <1>4 DEF Range
  <2>2. Member(a, i, l, m)
    BY <1>2, <2>1, ModelMembers
  <2>3. m \in 0 .. a.world - 1 /\ ModelIndex(a, m) = i
    BY <2>2 DEF Member
  <2>. QED BY <2>3, ModelGroupOf
<1>. QED BY <1>2, <1>3, <1>4 DEF Range

(* The groups of every kind divide the ranks.                                    *)
LEMMA AllDivided ==
  ASSUME NEW a, Request(a), NEW n \in GroupNames
  PROVE  Divided(a.world, GroupsOf(a)[n])
<1>1. PICK D, F : Sized(a, D, F)
  BY SizesOf
<1>2. CASE n = "dp"
  <2>1. Divided(a.world, DataGroups(a))
    BY <1>1, DataAre, StridedDivided
  <2>. QED BY <1>2, <2>1 DEF GroupsOf
<1>3. CASE n = "dp_cp"
  <2>1. Divided(a.world, DataWithCpGroups(a))
    BY <1>1, DataAre, StridedDivided
  <2>. QED BY <1>3, <2>1 DEF GroupsOf
<1>4. CASE n = "cp"
  <2>1. Divided(a.world, ContextGroups(a))
    BY <1>1, ContextsAre, StridedDivided
  <2>. QED BY <1>4, <2>1 DEF GroupsOf
<1>5. CASE n = "mp"
  <2>1. Divided(a.world, ModelGroups(a))
    BY <1>1, ModelsDivided
  <2>. QED BY <1>5, <2>1 DEF GroupsOf
<1>6. CASE n = "tp"
  <2>1. Divided(a.world, TensorGroups(a))
    BY <1>1, TensorsAre, StridedDivided
  <2>. QED BY <1>6, <2>1 DEF GroupsOf
<1>7. CASE n = "pp"
  <2>1. Divided(a.world, PipelineGroups(a))
    BY <1>1, PipelinesAre, StridedDivided
  <2>. QED BY <1>7, <2>1 DEF GroupsOf
<1>8. CASE n = "exp"
  <2>1. Divided(a.world, ExpertGroups(a))
    BY <1>1, ExpertsAre, StridedDivided
  <2>. QED BY <1>8, <2>1 DEF GroupsOf
<1>9. CASE n = "dp_mod_exp"
  <2>1. Divided(a.world, DataModuloExpertGroups(a))
    BY <1>1, ExpertsAre, StridedDivided
  <2>. QED BY <1>9, <2>1 DEF GroupsOf
<1>. QED BY <1>2, <1>3, <1>4, <1>5, <1>6, <1>7, <1>8, <1>9 DEF GroupNames

-------------------------------------------------------------------------------
(* The invariant: the globals of a rank follow from the arguments and from what  *)
(* was done last, but for the split rank, which a layout may leave to the next.  *)

Globals(r) ==
  LET pipeline == GroupOf(r, GroupsOf(args).pp) IN
  /\ mpu[r] = [groups |-> mpu[r].groups, pipeline_ranks |-> mpu[r].pipeline_ranks,
               embedding_ranks |-> mpu[r].embedding_ranks,
               position_ranks |-> mpu[r].position_ranks,
               virtual |-> mpu[r].virtual, split |-> mpu[r].split]
  /\ phase = "start" => mpu[r].groups = NoGroups /\ mpu[r].virtual = None
  /\ phase # "start" =>
       /\ mpu[r].groups = [n \in GroupNames |-> GroupOf(r, GroupsOf(args)[n])]
       /\ mpu[r].pipeline_ranks = pipeline
       /\ mpu[r].embedding_ranks = EmbeddingRanks(args, pipeline)
       /\ mpu[r].position_ranks = PositionRanks(args, pipeline)
       /\ mpu[r].virtual = args.V
       /\ args.split # None => mpu[r].split = args.split

Inv ==
  /\ Request(args) /\ phase \in Phases
  /\ mpu = [r \in Rank |-> mpu[r]]
  /\ \A r \in Rank : Globals(r)
  /\ phase \notin {"start", "initialized"} =>
       model = [r \in Rank |-> [c \in 1 .. NumChunks |-> Chunk(r, c - 1)]]

(* From when the model is built.                                                 *)
Ready == Inv /\ phase \notin {"start", "initialized"}

LEMMA InitInv == ASSUME Init PROVE Inv
<1>1. PICK W \in Worlds :
        args = [world |-> W, T |-> 1, P |-> 1, C |-> 1, E |-> 1, V |-> None,
                split |-> None, sp |-> FALSE, t5 |-> FALSE]
  BY DEF Init
<1>2. W \in Nat \ {0}
  BY SizesAssumption
<1>3. args \in Requests(W)
  BY <1>1, SizesAssumption DEF Requests
<1>4. Accepted(args)
  <2>1. \A x \in Nat : x % 1 = 0 /\ x \div 1 = x
    OBVIOUS
  <2>2. W % (1 * 1 * 1) = 0 /\ (W \div (1 * 1 * 1)) % 1 = 0 /\ Layers % 1 = 0
    BY <1>2, <2>1, SizesAssumption
  <2>. QED BY <1>1, <2>2 DEF Accepted, None
<1>5. Request(args)
  BY <1>3, <1>4 DEF Request
<1>6. phase = "start" /\ mpu = [r \in Rank |->
        [groups |-> NoGroups, pipeline_ranks |-> <<>>, embedding_ranks |-> <<>>,
         position_ranks |-> <<>>, virtual |-> None, split |-> None]]
  BY DEF Init
<1>7. \A r \in Rank : Globals(r)
  BY <1>6 DEF Globals
<1>. QED BY <1>5, <1>6, <1>7 DEF Inv, Phases

LEMMA InitializeStep ==
  ASSUME Inv, NEW a \in Requests(args.world), Initialize(a)
  PROVE  Inv'
<1>1. /\ phase = "start" /\ phase' = "initialized" /\ args' = a /\ Accepted(a)
      /\ mpu' = [r \in Rank |->
           LET pipeline == GroupOf(r, GroupsOf(a).pp)
           IN  [groups |-> [n \in GroupNames |-> GroupOf(r, GroupsOf(a)[n])],
                pipeline_ranks |-> pipeline,
                embedding_ranks |-> EmbeddingRanks(a, pipeline),
                position_ranks |-> PositionRanks(a, pipeline),
                virtual |-> IF a.V # None THEN a.V ELSE mpu[r].virtual,
                split |-> IF a.split # None THEN a.split ELSE mpu[r].split]]
  BY DEF Initialize
<1>2. PICK W \in Worlds : args \in Requests(W)
  BY DEF Inv, Request
<1>3. args.world = W /\ a.world = W /\ a \in Requests(W)
  BY <1>2 DEF Requests
<1>4. Request(args)' /\ Rank' = Rank
  BY <1>1, <1>3 DEF Request, Rank
<1>5. ASSUME NEW r \in Rank PROVE Globals(r)'
  <2>1. mpu[r].virtual = None
    BY <1>1, <1>5 DEF Inv, Globals
  <2>. QED BY <1>1, <1>5, <2>1 DEF Globals
<1>. QED BY <1>1, <1>4, <1>5 DEF Inv, Phases

(* The steps that leave the globals alone.                                       *)
LEMMA OtherStep ==
  ASSUME Inv, phase # "start", phase' \in Phases \ {"start", "initialized"}, UNCHANGED <<args, mpu>>,
         model' = [r \in Rank |-> [c \in 1 .. NumChunks |-> Chunk(r, c - 1)]]'
  PROVE  Inv'
<1>1. Request(args)' /\ Rank' = Rank
  BY DEF Inv, Request, Rank
<1>2. \A r \in Rank : Globals(r)'
  BY DEF Inv, Globals
<1>. QED BY <1>1, <1>2 DEF Inv

LEMMA DestroyStep ==
  ASSUME Inv, Destroy
  PROVE  Inv'
<1>1. /\ phase' = "start" /\ args' = args
      /\ mpu' = [r \in Rank |-> [mpu[r] EXCEPT !.groups = NoGroups, !.virtual = None]]
  BY DEF Destroy
<1>2. Request(args)' /\ Rank' = Rank
  BY <1>1 DEF Inv, Request, Rank
<1>3. ASSUME NEW r \in Rank PROVE Globals(r)'
  <2>1. mpu[r] = [groups |-> mpu[r].groups, pipeline_ranks |-> mpu[r].pipeline_ranks,
                  embedding_ranks |-> mpu[r].embedding_ranks,
                  position_ranks |-> mpu[r].position_ranks,
                  virtual |-> mpu[r].virtual, split |-> mpu[r].split]
    BY <1>3 DEF Inv, Globals
  <2>2. mpu'[r] = [mpu[r] EXCEPT !.groups = NoGroups, !.virtual = None]
    BY <1>1, <1>3
  <2>. QED BY <1>1, <2>1, <2>2 DEF Globals
<1>. QED BY <1>1, <1>2, <1>3 DEF Inv, Phases

LEMMA SameChunks ==
  ASSUME UNCHANGED <<args, mpu>>
  PROVE  Rank' = Rank /\ NumChunks' = NumChunks /\ \A r, c : Chunk(r, c)' = Chunk(r, c)
BY DEF Rank, NumChunks, Chunk, IsFirstStage, IsLastStage, BeforeSplit, AfterSplit, ChunkLayers,
       NumLayers, PipelineRank, PipelineSize, RankIn, Group

LEMMA NextInv ==
  ASSUME Inv, [Next]_vars
  PROVE  Inv'
<1>1. CASE \E a \in Requests(args.world) : Initialize(a)
  BY <1>1, InitializeStep
<1>2. CASE BuildModel
  <2>1. phase = "initialized" /\ phase' = "built" /\ UNCHANGED <<args, mpu>>
    BY <1>2 DEF BuildModel
  <2>2. model' = [r \in Rank |-> [c \in 1 .. NumChunks |-> Chunk(r, c - 1)]]
    BY <1>2 DEF BuildModel
  <2>3. Rank' = Rank /\ NumChunks' = NumChunks /\ \A r, c : Chunk(r, c)' = Chunk(r, c)
    BY <2>1, SameChunks
  <2>. QED BY <2>1, <2>2, <2>3, OtherStep DEF Phases
<1>3. CASE \/ Backward \/ SyncGrads \/ LayernormGrads \/ EmbeddingGrads \/ ExpertGrads
           \/ ClipGradNorm \/ LogParamsNorm
  <2>1. /\ phase \notin {"start", "initialized"} /\ phase' \in Phases \ {"start", "initialized"}
        /\ UNCHANGED <<args, mpu, model>>
    BY <1>3 DEF Backward, SyncGrads, LayernormGrads, EmbeddingGrads, ExpertGrads, ClipGradNorm,
                LogParamsNorm, Phases
  <2>2. model = [r \in Rank |-> [c \in 1 .. NumChunks |-> Chunk(r, c - 1)]]
    BY <2>1 DEF Inv
  <2>3. Rank' = Rank /\ NumChunks' = NumChunks /\ \A r, c : Chunk(r, c)' = Chunk(r, c)
    BY <2>1, SameChunks
  <2>. QED BY <2>1, <2>2, <2>3, OtherStep
<1>4. CASE Destroy
  BY <1>4, DestroyStep
<1>5. CASE UNCHANGED vars
  <2>1. UNCHANGED <<args, phase, mpu, model>>
    BY <1>5 DEF vars
  <2>2. Request(args)' /\ Rank' = Rank
    BY <2>1 DEF Inv, Request, Rank
  <2>3. \A r \in Rank : Globals(r)'
    BY <2>1 DEF Inv, Globals
  <2>4. Rank' = Rank /\ NumChunks' = NumChunks /\ \A r, c : Chunk(r, c)' = Chunk(r, c)
    BY <2>1, SameChunks
  <2>. QED BY <2>1, <2>2, <2>3, <2>4 DEF Inv
<1>. QED BY <1>1, <1>2, <1>3, <1>4, <1>5 DEF Next

(* Whatever layouts a job goes through, one after the other.                     *)
THEOREM Invariant == Spec => []Inv
<1>1. Init => Inv
  BY InitInv
<1>2. Inv /\ [Next]_vars => Inv'
  BY NextInv
<1>. QED BY <1>1, <1>2, PTL DEF Spec

(* For every accepted layout the groups of each kind divide the ranks: no two    *)
(* ranks disagree on who takes part in a collective.                             *)
THEOREM TypeCorrect == Spec => []TypeOK
<1>1. ASSUME Inv PROVE TypeOK
  <2>1. PICK W \in Worlds : args \in Requests(W) /\ Accepted(args)
    BY <1>1 DEF Inv, Request
  <2>2. args.world = W
    BY <2>1 DEF Requests
  <2>3. DOMAIN mpu = Rank
    BY <1>1 DEF Inv
  <2>4. ASSUME phase # "start", NEW r \in Rank, NEW n \in GroupNames
        PROVE  /\ r \in Range(Group(r, n))
               /\ \A m \in Range(Group(r, n)) : Group(m, n) = Group(r, n)
    <3>1. Divided(args.world, GroupsOf(args)[n])
      BY <1>1, AllDivided DEF Inv
    <3>2. ASSUME NEW m \in Rank PROVE Group(m, n) = GroupOf(m, GroupsOf(args)[n])
      <4>1. mpu[m].groups = [l \in GroupNames |-> GroupOf(m, GroupsOf(args)[l])]
        BY <1>1, <2>4 DEF Inv, Globals
      <4>. QED BY <4>1 DEF Group
    <3>. QED BY <3>1, <3>2 DEF Divided, Rank
  <2>. QED BY <1>1, <2>1, <2>2, <2>3, <2>4 DEF TypeOK, Inv
<1>2. Spec => []Inv
  BY Invariant
<1>. QED BY <1>1, <1>2, PTL

-------------------------------------------------------------------------------
(* The pipelines                                                                 *)

(* The place of a rank in its group.                                             *)
InPlace(B, S, r, n) == Len(Group(r, n)) = B \div S /\ RankIn(r, n) = (r % B) \div S

LEMMA RankOf ==
  ASSUME NEW W, NEW B, NEW S, Nested(W, B, S),
         NEW r \in 0 .. W - 1, NEW n, Group(r, n) = Part(B, S, r)
  PROVE  InPlace(B, S, r, n)
<1>1. PartSound(B, S, r)
  <2>1. Divides(S, B) /\ r \in Nat
    BY DEF Nested, Divides
  <2>. QED BY <2>1, PartIs
<1>2. PICK m \in Nat \ {0}, k \in Nat : k \in 0 .. m - 1 /\ m = B \div S /\ k = (r % B) \div S
  BY <1>1 DEF PartSound
<1>3. Len(Group(r, n)) = m /\ Group(r, n)[k + 1] = r
  BY <1>1, <1>2 DEF PartSound
<1>4. ASSUME NEW j \in 0 .. m - 1, Group(r, n)[j + 1] = r PROVE j = k
  <2>1. j + 1 \in 1 .. m
    OBVIOUS
  <2>2. (Part(B, S, r)[j + 1] % B) \div S = (j + 1) - 1
    BY <1>1, <1>2, <2>1 DEF PartSound
  <2>. QED BY <1>2, <1>4, <2>2
<1>5. RankIn(r, n) = k
  BY <1>3, <1>4 DEF RankIn
<1>. QED BY <1>2, <1>3, <1>5 DEF InPlace

(* What the getters return.                                                      *)
Gets(r, N) ==
  /\ TensorSize(r) = args.T /\ TensorRank(r) = r % args.T
  /\ PipelineSize(r) = args.P /\ PipelineRank(r) = r \div N
  /\ DataRank(r) = (r % N) \div (args.C * args.T)
  /\ ContextRank(r) = (r % (args.T * args.C)) \div args.T
  /\ mpu[r].pipeline_ranks = Part(args.world, N, r)
  /\ mpu[r].virtual = args.V
  /\ args.split # None => mpu[r].split = args.split
  /\ model[r] = [c \in 1 .. NumChunks |-> Chunk(r, c - 1)]

LEMMA Getters ==
  ASSUME Ready, NEW D, NEW F, Sized(args, D, F), NEW r \in Rank
  PROVE  Gets(r, NumPipelines(args))
<1>1. PICK N \in Nat \ {0}, Q \in Nat \ {0}, T \in Nat \ {0}, C \in Nat \ {0} :
        N = NumPipelines(args) /\ Q = args.P /\ T = args.T /\ C = args.C /\ args.world = Q * N
  <2>1. NumPipelines(args) \in Nat \ {0}
    BY DataAre DEF Nested, Divides
  <2>. QED BY <2>1 DEF Sized
<1>2. PICK W \in Nat \ {0} : W = args.world /\ W = Q * N /\ r \in 0 .. W - 1
  <2>1. Q * N \in Nat \ {0}
    BY TimesPositive
  <2>. QED BY <1>1, <2>1 DEF Rank
<1>3. /\ mpu[r].groups = [n \in GroupNames |-> GroupOf(r, GroupsOf(args)[n])]
      /\ mpu[r].pipeline_ranks = GroupOf(r, GroupsOf(args).pp)
      /\ mpu[r].virtual = args.V
      /\ args.split # None => mpu[r].split = args.split
      /\ model[r] = [c \in 1 .. NumChunks |-> Chunk(r, c - 1)]
  <2>1. Globals(r) /\ phase # "start"
    BY DEF Ready, Inv
  <2>2. model[r] = [c \in 1 .. NumChunks |-> Chunk(r, c - 1)]
    BY DEF Ready, Inv
  <2>. QED BY <2>1, <2>2 DEF Globals
<1>4. Group(r, "dp") = Part(N, C * T, r) /\ DataRank(r) = (r % N) \div (C * T)
  <2>0. PICK H \in Nat \ {0} : H = C * T
    BY TimesPositive
  <2>1. DataGroups(args) = Strided(W, N, H) /\ Nested(W, N, H)
    BY <1>1, <1>2, <2>0, DataAre
  <2>2. Group(r, "dp") = GroupOf(r, DataGroups(args))
    BY <1>3 DEF Group, GroupsOf, GroupNames
  <2>3. Group(r, "dp") = Part(N, H, r)
    BY <1>2, <2>1, <2>2, StridedGroup
  <2>4. InPlace(N, H, r, "dp")
    BY <1>2, <2>1, <2>3, RankOf
  <2>. QED BY <2>0, <2>3, <2>4 DEF DataRank, InPlace
<1>5. ContextRank(r) = (r % (T * C)) \div T
  <2>1. ContextGroups(args) = Strided(W, T * C, T) /\ Nested(W, T * C, T)
    BY <1>1, <1>2, ContextsAre
  <2>2. Group(r, "cp") = GroupOf(r, ContextGroups(args))
    BY <1>3 DEF Group, GroupsOf, GroupNames
  <2>3. Group(r, "cp") = Part(T * C, T, r)
    BY <1>2, <2>1, <2>2, StridedGroup
  <2>4. InPlace(T * C, T, r, "cp")
    BY <1>2, <2>1, <2>3, RankOf
  <2>. QED BY <2>4 DEF ContextRank, InPlace
<1>6. TensorSize(r) = T /\ TensorRank(r) = r % T
  <2>1. TensorGroups(args) = Strided(W, T, 1) /\ Nested(W, T, 1)
    BY <1>1, <1>2, TensorsAre
  <2>2. Group(r, "tp") = GroupOf(r, TensorGroups(args))
    BY <1>3 DEF Group, GroupsOf, GroupNames
  <2>3. Group(r, "tp") = Part(T, 1, r)
    BY <1>2, <2>1, <2>2, StridedGroup
  <2>4. InPlace(T, 1, r, "tp")
    BY <1>2, <2>1, <2>3, RankOf
  <2>5. T \div 1 = T /\ (r % T) \div 1 = r % T
    <3>1. \A x \in Nat : x \div 1 = x
      OBVIOUS
    <3>2. r % T \in Nat
      <4>1. r \in Int
        BY <1>2
      <4>2. r % T \in 0 .. T - 1
        BY ONLY <4>1, T \in Nat \ {0}, Division
      <4>. QED BY <4>2
    <3>. QED BY <3>1, <3>2
  <2>. QED BY <2>4, <2>5 DEF TensorSize, TensorRank, InPlace
<1>7. mpu[r].pipeline_ranks = Part(W, N, r) /\ PipelineSize(r) = Q /\ PipelineRank(r) = r \div N
  <2>1. PipelineGroups(args) = Strided(W, W, N) /\ Nested(W, W, N)
    BY <1>1, <1>2, PipelinesAre
  <2>2. GroupOf(r, PipelineGroups(args)) = Part(W, N, r)
    BY <1>2, <2>1, StridedGroup
  <2>3. Group(r, "pp") = Part(W, N, r) /\ mpu[r].pipeline_ranks = Part(W, N, r)
    BY <1>3, <2>2 DEF Group, GroupsOf, GroupNames
  <2>4. InPlace(W, N, r, "pp")
    BY <1>2, <2>1, <2>3, RankOf
  <2>5. W \div N = Q
    BY <1>2, TimesDivides
  <2>6. r % W = r
    <3>1. 0 \in Int /\ r = 0 * W + r
      BY <1>2
    <3>. QED BY ONLY <3>1, W \in Nat \ {0}, <1>2, DivisionIs
  <2>. QED BY <2>3, <2>4, <2>5, <2>6 DEF PipelineSize, PipelineRank, InPlace
<1>. QED BY <1>1, <1>2, <1>3, <1>4, <1>5, <1>6, <1>7 DEF Gets

(* The ranks of the pipeline that starts at rank y: they follow each other at    *)
(* the same distance, and read the same part of the batch.                       *)
Read(y) ==
  {((y \div args.T) * args.T) \div (args.C * args.T)}
    \X {(y % (args.T * args.C)) \div args.T, 2 * args.C - (y % (args.T * args.C)) \div args.T - 1}
    \X (0 .. args.T - 1)

Stage(r, q, y, N) ==
  /\ r \in Rank /\ Gets(r, N) /\ PipelineRank(r) = q
  /\ NextRank(r) = ((q + 1) % args.P) * N + y /\ PrevRank(r) = ((q - 1) % args.P) * N + y
  /\ TensorRank(r) = y % args.T /\ LocalSequence(r) = Read(y)

LEMMA Stages ==
  ASSUME Ready, NEW D, NEW F, Sized(args, D, F),
         NEW N, N = NumPipelines(args), NEW q \in 0 .. args.P - 1, NEW y \in 0 .. N - 1
  PROVE  Stage(q * N + y, q, y, N)
<1>1. PICK Q \in Nat \ {0}, T \in Nat \ {0}, C \in Nat \ {0} :
        Q = args.P /\ T = args.T /\ C = args.C /\ D \in Nat \ {0} /\ N = D * (C * T) /\ args.world = Q * N
  BY DEF Sized
<1>2. PICK B \in Nat \ {0} : B = C * T /\ B = T * C
  <2>1. C * T \in Nat \ {0} /\ C * T = T * C
    BY TimesPositive
  <2>. QED BY <2>1
<1>3. PICK G \in Nat \ {0} : G = D * C /\ N = G * T
  <2>1. D * C \in Nat \ {0} /\ D * (C * T) = (D * C) * T
    BY <1>1, TimesPositive
  <2>. QED BY <1>1, <2>1
<1>4. N = D * B /\ N \in Nat \ {0}
  BY <1>1, <1>2, TimesPositive
<1>5. PICK W \in Nat \ {0} : W = args.world /\ W = Q * N
  BY <1>1, <1>4, TimesPositive
<1>6. PICK r \in 0 .. W - 1 : r = q * N + y /\ r \in Rank
  <2>1. q \in 0 .. Q - 1
    BY <1>1
  <2>2. q * N + y \in 0 .. Q * N - 1
    BY <1>4, <2>1, Numbering
  <2>. QED BY <1>5, <2>2 DEF Rank
<1>7. \A x \in Rank : Gets(x, N)
  BY Getters
<1>8. q \in Int /\ r \div N = q /\ r % N = y
  <2>1. q \in Int
    BY <1>1
  <2>. QED BY ONLY <2>1, <1>4, y \in 0 .. N - 1, <1>6, DivisionIs
<1>9. PipelineRank(r) = q /\ PipelineSize(r) = Q
  BY <1>1, <1>6, <1>7, <1>8 DEF Gets
<1>10. ASSUME NEW k \in 0 .. Q - 1 PROVE mpu[r].pipeline_ranks[k + 1] = k * N + y
  <2>1. mpu[r].pipeline_ranks = Part(W, N, r)
    BY <1>5, <1>6, <1>7 DEF Gets
  <2>2. W \div N = Q
    BY <1>4, <1>5, TimesDivides
  <2>3. k + 1 \in 1 .. W \div N
    BY <2>2
  <2>4. Part(W, N, r)[k + 1] = (r \div W) * W + (r % N) + ((k + 1) - 1) * N
    BY <2>3 DEF Part
  <2>5. r \div W = 0
    <3>1. 0 \in Int /\ r = 0 * W + r
      OBVIOUS
    <3>. QED BY ONLY <3>1, W \in Nat \ {0}, r \in 0 .. W - 1, DivisionIs
  <2>6. PICK e \in Int : e = k * N
    BY <1>4
  <2>7. (k + 1) - 1 = k /\ 0 * W = 0
    OBVIOUS
  <2>8. Part(W, N, r)[k + 1] = 0 + y + e
    BY <1>8, <2>4, <2>5, <2>6, <2>7
  <2>. QED BY <1>4, <2>1, <2>6, <2>8
<1>11. (q + 1) % Q \in 0 .. Q - 1 /\ (q - 1) % Q \in 0 .. Q - 1
  <2>1. q + 1 \in Int /\ q - 1 \in Int
    BY <1>8
  <2>. QED BY ONLY <2>1, Q \in Nat \ {0}, Division
<1>12. NextRank(r) = ((q + 1) % Q) * N + y /\ PrevRank(r) = ((q - 1) % Q) * N + y
  BY <1>9, <1>10, <1>11 DEF NextRank, PrevRank
<1>13. PICK e \in 0 .. G - 1, t \in 0 .. T - 1 : e = y \div T /\ t = y % T /\ y = e * T + t
  <2>1. y \in Int /\ y \in 0 .. G * T - 1
    BY <1>3
  <2>2. y \div T \in 0 .. G - 1
    BY ONLY <2>1, G \in Nat, T \in Nat \ {0}, QuotientBounds
  <2>3. y % T \in 0 .. T - 1 /\ y = (y \div T) * T + (y % T)
    BY ONLY <2>1, T \in Nat \ {0}, Division
  <2>. QED BY <2>2, <2>3
<1>14. PICK z \in Int : z = q * G + e /\ r = z * T + t
  <2>1. q * G + e \in Int /\ q * (G * T) + (e * T + t) = (q * G + e) * T + t
    BY <1>8
  <2>. QED BY <1>3, <1>6, <1>13, <2>1
<1>15. r \div T = z /\ r % T = t
  BY ONLY z \in Int, T \in Nat \ {0}, t \in 0 .. T - 1, <1>14, DivisionIs
<1>16. TensorRank(r) = y % T /\ TensorSize(r) = T
  BY <1>1, <1>6, <1>7, <1>13, <1>15 DEF Gets
<1>17. PICK x \in 0 .. N - 1 : x = e * T /\ z * T = q * N + x
  <2>1. 0 \in 0 .. T - 1
    OBVIOUS
  <2>2. e * T + 0 \in 0 .. G * T - 1
    BY <2>1, Numbering
  <2>3. (q * G + e) * T = q * (G * T) + e * T /\ e * T \in Int
    BY <1>8
  <2>. QED BY <1>3, <1>14, <2>2, <2>3
<1>18. PICK s \in Rank : s = z * T /\ s = q * N + x /\ TensorSrcRank(r) = s
  <2>1. q \in 0 .. Q - 1
    BY <1>1
  <2>2. q * N + x \in 0 .. Q * N - 1
    BY <1>4, <2>1, Numbering
  <2>3. z * T \in Rank
    BY <1>5, <1>17, <2>2 DEF Rank
  <2>. QED BY <1>15, <1>16, <1>17, <2>3 DEF TensorSrcRank
<1>19. s % N = x
  <2>1. q \in Int /\ N \in Nat \ {0} /\ s = q * N + x
    BY <1>4, <1>8, <1>18
  <2>. QED BY ONLY <2>1, x \in 0 .. N - 1, DivisionIs
<1>20. DataRank(s) = ((y \div T) * T) \div (C * T)
  BY <1>1, <1>7, <1>13, <1>17, <1>18, <1>19 DEF Gets
<1>21. r % B = y % B
  <2>1. PICK k \in Int, w \in 0 .. B - 1 : w = y % B /\ y = k * B + w
    <3>1. y \in Int
      BY <1>4
    <3>2. y \div B \in Int /\ y % B \in 0 .. B - 1 /\ y = (y \div B) * B + (y % B)
      BY ONLY <3>1, B \in Nat \ {0}, Division
    <3>. QED BY ONLY <3>2
  <2>2. PICK v \in Int : v = q * D + k /\ r = v * B + w
    <3>1. q * D + k \in Int /\ q * (D * B) + (k * B + w) = (q * D + k) * B + w
      BY <1>1, <1>8
    <3>. QED BY <1>4, <1>6, <2>1, <3>1
  <2>3. r = v * B + w
    BY <2>2
  <2>4. r % B = w
    BY ONLY v \in Int, B \in Nat \ {0}, w \in 0 .. B - 1, <2>3, DivisionIs
  <2>. QED BY <2>1, <2>4
<1>22. ContextRank(r) = (y % (T * C)) \div T
  BY <1>1, <1>2, <1>6, <1>7, <1>21 DEF Gets
<1>23. LocalSequence(r) = Read(y)
  BY <1>1, <1>18, <1>20, <1>22 DEF LocalSequence, Read
<1>. QED BY <1>1, <1>6, <1>7, <1>9, <1>12, <1>16, <1>23 DEF Stage

-------------------------------------------------------------------------------
(* Sequences cut in pieces                                                       *)

(* Two pieces of g, one after the other.                                         *)
Follows(g, a, b) ==
  [k \in 1 .. a |-> g[k]] \o [k \in 1 .. b |-> g[a + k]] = [k \in 1 .. a + b |-> g[k]]

LEMMA TwoPieces ==
  ASSUME NEW g, NEW a \in Nat, NEW b \in Nat
  PROVE  Follows(g, a, b)
<1>. DEFINE X == {g[k] : k \in 1 .. a + b}
            s == [k \in 1 .. a |-> g[k]]
            t == [k \in 1 .. b |-> g[a + k]]
            w == [k \in 1 .. a + b |-> g[k]]
<1>1. s \in Seq(X) /\ Len(s) = a
  <2>1. \A k \in 1 .. a : g[k] \in X
    OBVIOUS
  <2>. QED BY <2>1
<1>2. t \in Seq(X) /\ Len(t) = b
  <2>1. \A k \in 1 .. b : a + k \in 1 .. a + b
    OBVIOUS
  <2>2. \A k \in 1 .. b : g[a + k] \in X
    BY <2>1
  <2>. QED BY <2>2
<1>3. w \in Seq(X) /\ Len(w) = a + b
  OBVIOUS
<1>4. \A k \in 1 .. a : s[k] = g[k]
  OBVIOUS
<1>5. \A k \in 1 .. b : t[k] = g[a + k]
  OBVIOUS
<1>6. \A k \in 1 .. a + b : w[k] = g[k]
  OBVIOUS
<1>. HIDE DEF X, s, t, w
<1>7. /\ s \o t \in Seq(X) /\ Len(s \o t) = a + b
      /\ \A k \in 1 .. a + b : (s \o t)[k] = IF k <= a THEN s[k] ELSE t[k - a]
  BY <1>1, <1>2, ConcatProperties
<1>8. ASSUME NEW k \in 1 .. a + b PROVE (s \o t)[k] = w[k]
  <2>1. CASE k <= a
    <3>1. k \in 1 .. a
      BY <2>1
    <3>. QED BY <1>4, <1>6, <1>7, <2>1, <3>1
  <2>2. CASE a < k
    <3>1. k - a \in 1 .. b /\ a + (k - a) = k /\ ~(k <= a)
      BY <2>2
    <3>. QED BY <1>5, <1>6, <1>7, <3>1
  <2>3. k \in Int /\ a \in Int
    OBVIOUS
  <2>4. k <= a \/ a < k
    BY ONLY <2>3
  <2>. QED BY ONLY <2>1, <2>2, <2>4
<1>9. s \o t = w
  BY <1>3, <1>7, <1>8, SeqEqual
<1>. QED BY <1>9 DEF s, t, w, Follows

(* Pieces of g that follow each other, ended by the numbers o.                   *)
Cut(ss, n, o, g) ==
  /\ ss = [j \in 1 .. n |-> ss[j]] /\ o[0] = 0
  /\ \A j \in 1 .. n :
       /\ o[j - 1] \in Nat /\ o[j] \in Nat /\ o[j - 1] <= o[j]
       /\ ss[j] = [k \in 1 .. o[j] - o[j - 1] |-> g[o[j - 1] + k]]

LEMMA Joined ==
  ASSUME NEW n \in Nat \ {0}, NEW ss, NEW o, NEW g, Cut(ss, n, o, g)
  PROVE  FlattenSeq(ss) = [k \in 1 .. o[n] |-> g[k]]
<1>. DEFINE Loop(h) == [j \in 1 .. n |-> IF j = 1 THEN ss[j] ELSE h[j - 1] \o ss[j]]
            upto == [j \in 1 .. n |-> [k \in 1 .. o[j] |-> g[k]]]
<1>1. Len(ss) = n
  BY DEF Cut
<1>2. FlattenSeq(ss) = (CHOOSE h : h = Loop(h))[n]
  <2>1. FlattenSeq(ss) = (CHOOSE h : h = [j \in 1 .. Len(ss) |->
                            IF j = 1 THEN ss[j] ELSE h[j - 1] \o ss[j]])[Len(ss)]
    BY <1>1 DEF FlattenSeq
  <2>. QED BY <1>1, <2>1
<1>3. \A h : /\ [j \in 1 .. n |-> Loop(h)[j]] = Loop(h) /\ Loop(h)[1] = ss[1]
             /\ \A j \in 1 .. n : j # 1 => Loop(h)[j] = h[j - 1] \o ss[j]
  <2>0. 1 \in 1 .. n
    OBVIOUS
  <2>1. ASSUME NEW h PROVE Loop(h)[1] = ss[1]
    BY <2>0
  <2>2. ASSUME NEW h, NEW j \in 1 .. n, j # 1 PROVE Loop(h)[j] = h[j - 1] \o ss[j]
    BY <2>2
  <2>3. ASSUME NEW h PROVE [j \in 1 .. n |-> Loop(h)[j]] = Loop(h)
    <3>1. \A j \in 1 .. n : Loop(h)[j] = IF j = 1 THEN ss[j] ELSE h[j - 1] \o ss[j]
      OBVIOUS
    <3>2. [j \in 1 .. n |-> Loop(h)[j]] = [j \in 1 .. n |-> IF j = 1 THEN ss[j] ELSE h[j - 1] \o ss[j]]
      <4>. HIDE DEF Loop
      <4>. QED BY ONLY <3>1
    <3>. QED BY <3>2
  <2>. HIDE DEF Loop
  <2>. QED BY ONLY <2>1, <2>2, <2>3
<1>4. \A j \in 1 .. n : upto[j] = [k \in 1 .. o[j] |-> g[k]]
  <2>1. ASSUME NEW j \in 1 .. n PROVE upto[j] = [k \in 1 .. o[j] |-> g[k]]
    OBVIOUS
  <2>. QED BY ONLY <2>1
<1>5. upto = [j \in 1 .. n |-> upto[j]]
  OBVIOUS
<1>. HIDE DEF Loop, upto
<1>6. upto[1] = ss[1]
  <2>1. 1 \in 1 .. n /\ 1 - 1 = 0
    OBVIOUS
  <2>2. o[1] \in Nat /\ o[0] = 0 /\ ss[1] = [k \in 1 .. o[1] - o[0] |-> g[o[0] + k]]
    BY <2>1 DEF Cut
  <2>3. ss[1] = [k \in 1 .. o[1] |-> g[k]]
    BY <2>2
  <2>. QED BY <1>4, <2>1, <2>3
<1>7. ASSUME NEW j \in 1 .. n, j # 1 PROVE upto[j] = upto[j - 1] \o ss[j]
  <2>1. j - 1 \in 1 .. n
    BY <1>7
  <2>2. PICK a \in Nat, b \in Nat : a = o[j - 1] /\ b = o[j] - o[j - 1] /\ o[j] = a + b
    BY DEF Cut
  <2>3. ss[j] = [k \in 1 .. b |-> g[a + k]]
    BY <2>2 DEF Cut
  <2>4. upto[j - 1] = [k \in 1 .. a |-> g[k]] /\ upto[j] = [k \in 1 .. a + b |-> g[k]]
    BY <1>4, <2>1, <2>2
  <2>5. Follows(g, a, b)
    BY TwoPieces
  <2>. QED BY <2>3, <2>4, <2>5 DEF Follows
<1>8. upto = Loop(upto)
  <2>1. ASSUME NEW j \in 1 .. n PROVE upto[j] = Loop(upto)[j]
    BY <1>3, <1>6, <1>7
  <2>. QED BY <1>3, <1>5, <2>1
<1>9. ASSUME NEW h, h = Loop(h) PROVE h = upto
  <2>. DEFINE S == {j \in 0 .. n : j = 0 \/ h[j] = upto[j]}
  <2>1. 0 \in S
    OBVIOUS
  <2>2. ASSUME NEW j \in 0 .. n - 1, j \in S PROVE j + 1 \in S
    <3>1. j + 1 \in 1 .. n /\ (j + 1) - 1 = j /\ j + 1 \in 0 .. n
      OBVIOUS
    <3>2. CASE j = 0
      <4>1. h[1] = upto[1]
        BY <1>3, <1>6, <1>9
      <4>. QED BY <3>1, <3>2, <4>1
    <3>3. CASE j # 0
      <4>1. h[j] = upto[j] /\ j + 1 # 1
        BY <2>2, <3>3
      <4>2. h[j + 1] = h[j] \o ss[j + 1]
        BY <1>3, <1>9, <3>1, <4>1
      <4>3. upto[j + 1] = upto[j] \o ss[j + 1]
        BY <1>7, <3>1, <4>1
      <4>. QED BY <3>1, <4>1, <4>2, <4>3
    <3>. QED BY <3>2, <3>3
  <2>3. 0 .. n \subseteq S
    <3>. HIDE DEF S
    <3>. QED BY <2>1, <2>2, InductUpTo
  <2>4. ASSUME NEW j \in 1 .. n PROVE h[j] = upto[j]
    <3>1. j \in 0 .. n /\ j # 0
      OBVIOUS
    <3>. QED BY <2>3, <3>1
  <2>5. h = [j \in 1 .. n |-> h[j]]
    BY <1>3, <1>9
  <2>. QED BY <1>5, <2>4, <2>5
<1>10. (CHOOSE h : h = Loop(h)) = upto
  BY <1>8, <1>9
<1>11. n \in 1 .. n
  OBVIOUS
<1>. QED BY <1>2, <1>4, <1>10, <1>11

-------------------------------------------------------------------------------
(* The layers of the pipeline, hop after hop                                     *)

Stacks == IF args.t5 THEN <<"encoder", "decoder">> ELSE <<"encoder">>
Wanted == [k \in 1 .. Layers * Len(Stacks) |->
             <<Stacks[((k - 1) \div Layers) + 1], ((k - 1) % Layers) + 1>>]

(* The number of layers met before hop n.                                        *)
Met(n) ==
  IF ~args.t5 THEN n * (Layers \div (args.P * NumChunks))
  ELSE IF args.P = 1 THEN n * (Layers * 2)
  ELSE IF n <= args.split THEN n * (Layers \div args.split)
  ELSE Layers + (n - args.split) * (Layers \div (args.P - args.split))

LEMMA WantedIs ==
  ASSUME NEW k \in 1 .. Layers
  PROVE  /\ Wanted[k] = <<"encoder", k>>
         /\ args.t5 => Wanted[Layers + k] = <<"decoder", k>>
<1>1. PICK L \in Nat \ {0}, x \in Int : L = Layers /\ x = k - 1 /\ x \in 0 .. L - 1 /\ k = x + 1
  BY SizesAssumption
<1>2. x \div L = 0 /\ x % L = x
  <2>1. x = 0 * L + x /\ 0 \in Int
    BY <1>1
  <2>. QED BY ONLY <1>1, <2>1, L \in Nat \ {0}, DivisionIs
<1>3. (L + x) \div L = 1 /\ (L + x) % L = x
  <2>1. PICK y \in Int : y = L + x /\ y = 1 * L + x /\ 1 \in Int
    BY <1>1
  <2>2. y \div L = 1 /\ y % L = x
    BY ONLY <1>1, <2>1, L \in Nat \ {0}, DivisionIs
  <2>. QED BY <2>1, <2>2
<1>4. Wanted[k] = <<"encoder", k>>
  <2>1. k \in 1 .. L * Len(Stacks) /\ Stacks[1] = "encoder"
    <3>1. CASE args.t5
      <4>1. Len(Stacks) = 2 /\ Stacks[1] = "encoder"
        BY <3>1 DEF Stacks
      <4>. QED BY <1>1, <4>1
    <3>2. CASE ~args.t5
      <4>1. Len(Stacks) = 1 /\ Stacks[1] = "encoder"
        BY <3>2 DEF Stacks
      <4>. QED BY <1>1, <4>1
    <3>. QED BY <3>1, <3>2
  <2>2. Wanted[k] = <<Stacks[((k - 1) \div L) + 1], ((k - 1) % L) + 1>>
    BY <1>1, <2>1 DEF Wanted
  <2>. QED BY <1>1, <1>2, <2>1, <2>2
<1>5. ASSUME args.t5 PROVE Wanted[Layers + k] = <<"decoder", k>>
  <2>1. Len(Stacks) = 2 /\ Stacks[2] = "decoder"
    BY <1>5 DEF Stacks
  <2>2. PICK z \in Int : z = L + k /\ z - 1 = L + x /\ z \in 1 .. L * 2
    BY <1>1
  <2>3. Wanted[z] = <<Stacks[((z - 1) \div L) + 1], ((z - 1) % L) + 1>>
    BY <1>1, <2>1, <2>2 DEF Wanted
  <2>4. ((z - 1) \div L) + 1 = 2 /\ ((z - 1) % L) + 1 = k
    BY <1>1, <1>3, <2>2
  <2>. QED BY <1>1, <2>1, <2>2, <2>3, <2>4
<1>. QED BY <1>4, <1>5

(* A part of a stack: the layers between two multiples.                          *)
InStack(m, i) ==
  /\ i * m \in 0 .. Layers /\ (i + 1) * m = i * m + m /\ i * m + m <= Layers
  /\ \A k \in 1 .. m : /\ <<"encoder", k + i * m>> = Wanted[i * m + k]
                       /\ args.t5 => <<"decoder", k + i * m>> = Wanted[Layers + i * m + k]

LEMMA PartOfStack ==
  ASSUME NEW m \in Nat, NEW q \in Nat, NEW i \in 0 .. q - 1, m * q = Layers
  PROVE  InStack(m, i)
<1>1. PICK L \in Nat \ {0} : L = Layers /\ m * q = L
  BY SizesAssumption
<1>2. PICK e \in Int : e = i * m /\ (i + 1) * m = e + m
  OBVIOUS
<1>3. 0 * m <= i * m /\ (i + 1) * m <= q * m
  BY TimesMonotonic
<1>4. 0 <= e /\ e + m <= L /\ e <= L
  <2>1. q * m = L
    BY <1>1
  <2>. QED BY <1>2, <1>3, <2>1
<1>5. ASSUME NEW k \in 1 .. m
      PROVE  /\ <<"encoder", k + e>> = Wanted[e + k]
             /\ args.t5 => <<"decoder", k + e>> = Wanted[Layers + e + k]
  <2>1. e + k \in 1 .. Layers /\ e + k = k + e /\ Layers + e + k = Layers + (e + k)
    BY <1>1, <1>4
  <2>. QED BY <2>1, WantedIs
<1>. QED BY <1>1, <1>2, <1>4, <1>5 DEF InStack

(* Chunk v of stage q is the hop v * P + q.                                      *)
Laid(r, v, n) ==
  /\ Met(n) \in Nat /\ Met(n + 1) \in Nat /\ Met(n) <= Met(n + 1)
  /\ Chunk(r, v).layers = [k \in 1 .. Met(n + 1) - Met(n) |-> Wanted[Met(n) + k]]

LEMMA OneStack ==
  ASSUME Request(args), ~args.t5, NEW N, NEW q \in 0 .. args.P - 1, NEW r,
         Gets(r, N), PipelineRank(r) = q, NEW v \in 0 .. NumChunks - 1
  PROVE  Laid(r, v, v * args.P + q)
<1>1. PICK W \in Worlds : args \in Requests(W) /\ Accepted(args)
  BY DEF Request
<1>2. PICK Q \in Nat \ {0}, L \in Nat \ {0} : Q = args.P /\ L = Layers /\ q \in 0 .. Q - 1
  BY <1>1, SizesAssumption DEF Requests
<1>3. PICK V \in Nat \ {0} :
        /\ V = NumChunks /\ v \in 0 .. V - 1 /\ (args.V = None => V = 1)
        /\ (args.V # None => V = args.V /\ Q > 2 /\ L % (Q * V) = 0)
  BY <1>1, <1>2 DEF NumChunks, Requests, None, Accepted
<1>4. L % Q = 0
  BY <1>1, <1>2 DEF Accepted
<1>5. PICK m \in Nat \ {0} : m = L \div (Q * V) /\ L = m * (Q * V)
  <2>1. PICK B \in Nat \ {0} : B = Q * V
    BY TimesPositive
  <2>2. L % B = 0
    <3>1. CASE args.V = None
      BY <1>3, <1>4, <2>1, <3>1
    <3>2. CASE args.V # None
      BY <1>3, <2>1, <3>2
    <3>. QED BY <3>1, <3>2
  <2>3. Divides(B, L) /\ 0 \in Nat
    BY <2>2 DEF Divides
  <2>4. L \div B \in Nat \ {0} /\ L = (L \div B) * B
    BY <2>3, Below
  <2>. QED BY <2>1, <2>4
<1>6. PICK h \in Nat \ {0} : h = m * V /\ L = h * Q /\ L \div Q = h
  <2>1. m * V \in Nat \ {0} /\ m * (Q * V) = (m * V) * Q
    BY TimesPositive
  <2>2. PICK h \in Nat \ {0} : h = m * V /\ L = h * Q
    BY <1>5, <2>1
  <2>3. L \div Q = h
    BY <2>2, TimesDivides
  <2>. QED BY <2>2, <2>3
<1>7. NumLayers(r) = h
  <2>1. CASE Q = 1
    BY <1>2, <1>6, <2>1 DEF NumLayers, Gets
  <2>2. CASE Q # 1
    BY <1>2, <1>6, <2>2 DEF NumLayers, Gets
  <2>. QED BY <2>1, <2>2
<1>8. h \div V = m
  BY <1>6, TimesDivides
<1>9. PICK n \in 0 .. Q * V - 1 : n = v * Q + q
  <2>1. v * Q + q \in 0 .. V * Q - 1
    BY <1>2, <1>3, Numbering
  <2>2. V * Q = Q * V
    OBVIOUS
  <2>. QED BY <2>1, <2>2
<1>10. PICK d \in Int : d = n * m
  OBVIOUS
<1>11. ChunkLayers(r, v, "encoder") = [k \in 1 .. m |-> <<"encoder", k + d>>]
  <2>1. CASE args.V = None
    <3>1. V = 1 /\ v = 0 /\ n = q /\ m = h
      BY <1>2, <1>3, <1>6, <1>9, <2>1
    <3>2. ChunkLayers(r, v, "encoder") = [k \in 1 .. h |-> <<"encoder", k + q * h>>]
      BY <1>7, <2>1 DEF ChunkLayers
    <3>. QED BY <1>10, <3>1, <3>2
  <2>2. CASE args.V # None
    <3>1. ChunkLayers(r, v, "encoder") = [k \in 1 .. m |-> <<"encoder", k + (v * (L \div V) + q * m)>>]
      BY <1>2, <1>3, <1>7, <1>8, <2>2 DEF ChunkLayers
    <3>2. L \div V = m * Q
      <4>1. m * (Q * V) = (m * Q) * V /\ m * Q \in Nat \ {0}
        BY TimesPositive
      <4>2. PICK g \in Nat \ {0} : g = m * Q /\ L = g * V
        BY <1>5, <4>1
      <4>. QED BY <4>2, TimesDivides
    <3>3. v * (m * Q) + q * m = (v * Q + q) * m
      BY <1>2, <1>3
    <3>. QED BY <1>9, <1>10, <3>1, <3>2, <3>3
  <2>. QED BY <2>1, <2>2
<1>12. /\ d \in 0 .. L /\ (n + 1) * m = d + m /\ d + m <= L
       /\ [k \in 1 .. m |-> <<"encoder", k + d>>] = [k \in 1 .. m |-> Wanted[d + k]]
  <2>1. PICK B \in Nat \ {0} : B = Q * V /\ m * B = L
    BY <1>5, TimesPositive
  <2>2. n \in 0 .. B - 1 /\ m * B = Layers
    BY <1>2, <2>1
  <2>3. InStack(m, n)
    <3>1. m \in Nat /\ B \in Nat
      OBVIOUS
    <3>. QED BY ONLY <2>2, <3>1, PartOfStack
  <2>. QED BY <1>2, <1>10, <2>3 DEF InStack
<1>13. Met(n) = d /\ Met(n + 1) = d + m
  BY <1>2, <1>3, <1>5, <1>10, <1>12 DEF Met
<1>14. Chunk(r, v).layers = [k \in 1 .. m |-> Wanted[d + k]]
  <2>1. Chunk(r, v).layers = ChunkLayers(r, v, "encoder") \o <<>>
    BY DEF Chunk
  <2>2. PICK s : s = ChunkLayers(r, v, "encoder")
    OBVIOUS
  <2>3. s \in Seq({"encoder"} \X Int)
    BY <1>11, <2>2
  <2>4. s \o <<>> = s
    BY <2>3, ConcatEmptySeq
  <2>. QED BY <1>11, <1>12, <2>1, <2>2, <2>4
<1>15. Met(n) \in Nat /\ Met(n + 1) \in Nat /\ Met(n) <= Met(n + 1) /\ Met(n + 1) - Met(n) = m
  BY <1>12, <1>13
<1>. QED BY <1>2, <1>9, <1>13, <1>14, <1>15 DEF Laid

LEMMA TwoStacks ==
  ASSUME Request(args), args.t5, args.P = 1, NEW N, NEW r, Gets(r, N), PipelineRank(r) = 0
  PROVE  Laid(r, 0, 0)
<1>1. PICK W \in Worlds : args \in Requests(W) /\ Accepted(args)
  BY DEF Request
<1>2. args.V = None /\ NumChunks = 1
  BY <1>1 DEF Accepted, NumChunks
<1>3. PICK L \in Nat \ {0} : L = Layers
  BY SizesAssumption
<1>4. PipelineSize(r) = 1 /\ NumLayers(r) = L
  BY <1>3 DEF Gets, NumLayers
<1>5. /\ ChunkLayers(r, 0, "encoder") = [k \in 1 .. L |-> <<"encoder", k + 0 * L>>]
      /\ ChunkLayers(r, 0, "decoder") = [k \in 1 .. L |-> <<"decoder", k + 0 * L>>]
  BY <1>2, <1>3, <1>4 DEF ChunkLayers
<1>6. InStack(L, 0)
  <2>1. L \in Nat /\ 1 \in Nat /\ 0 \in 0 .. 1 - 1 /\ L * 1 = Layers
    BY <1>3
  <2>. QED BY ONLY <2>1, PartOfStack
<1>7. /\ ChunkLayers(r, 0, "encoder") = [k \in 1 .. L |-> Wanted[k]]
      /\ ChunkLayers(r, 0, "decoder") = [k \in 1 .. L |-> Wanted[L + k]]
  <2>1. ASSUME NEW k \in 1 .. L PROVE 0 * L + k = k /\ Layers + 0 * L + k = L + k
    BY <1>3
  <2>2. ASSUME NEW k \in 1 .. L
        PROVE  <<"encoder", k + 0 * L>> = Wanted[k] /\ <<"decoder", k + 0 * L>> = Wanted[L + k]
    BY <1>6, <2>1 DEF InStack
  <2>3. ChunkLayers(r, 0, "encoder") = [k \in 1 .. L |-> Wanted[k]]
    <3>1. ChunkLayers(r, 0, "encoder") = [k \in 1 .. L |-> <<"encoder", k + 0 * L>>]
      BY <1>5
    <3>2. \A k \in 1 .. L : <<"encoder", k + 0 * L>> = Wanted[k]
      BY <2>2
    <3>. QED BY ONLY <3>1, <3>2
  <2>4. ChunkLayers(r, 0, "decoder") = [k \in 1 .. L |-> Wanted[L + k]]
    <3>1. ChunkLayers(r, 0, "decoder") = [k \in 1 .. L |-> <<"decoder", k + 0 * L>>]
      BY <1>5
    <3>2. \A k \in 1 .. L : <<"decoder", k + 0 * L>> = Wanted[L + k]
      BY <2>2
    <3>. QED BY ONLY <3>1, <3>2
  <2>. QED BY <2>3, <2>4
<1>8. Chunk(r, 0).layers = [k \in 1 .. L |-> Wanted[k]] \o [k \in 1 .. L |-> Wanted[L + k]]
  BY <1>4, <1>7 DEF Chunk, BeforeSplit, AfterSplit
<1>9. Chunk(r, 0).layers = [k \in 1 .. L + L |-> Wanted[k]]
  <2>1. Follows(Wanted, L, L)
    BY TwoPieces
  <2>. QED BY <1>8, <2>1 DEF Follows
<1>10. Met(0) = 0 /\ Met(0 + 1) = L + L
  BY <1>3 DEF Met
<1>11. [k \in 1 .. L + L |-> Wanted[k]] = [k \in 1 .. Met(0 + 1) - Met(0) |-> Wanted[Met(0) + k]]
  BY <1>10
<1>. QED BY <1>9, <1>10, <1>11 DEF Laid

LEMMA SplitStacks ==
  ASSUME Request(args), args.t5, args.P # 1, NEW N, NEW q \in 0 .. args.P - 1, NEW r,
         Gets(r, N), PipelineRank(r) = q
  PROVE  Laid(r, 0, q)
<1>1. PICK W \in Worlds : args \in Requests(W) /\ Accepted(args)
  BY DEF Request
<1>2. PICK Q \in Nat \ {0}, L \in Nat \ {0} : Q = args.P /\ L = Layers /\ q \in 0 .. Q - 1 /\ Q > 1
  BY <1>1, SizesAssumption DEF Requests
<1>3. args.V = None /\ NumChunks = 1
  BY <1>1 DEF Accepted, NumChunks
<1>4. PICK s \in Nat \ {0}, t \in Nat \ {0} :
        s = args.split /\ t = Q - s /\ Q = s + t /\ args.split # None /\ L % s = 0 /\ L % t = 0
  <2>1. args.split # None /\ args.split \in {None} \cup 1 .. MaxPipeline - 1
    BY <1>1, <1>2 DEF Accepted, Requests
  <2>2. args.split \in Nat \ {0}
    BY <2>1, SizesAssumption DEF None
  <2>3. args.split < Q /\ L % args.split = 0 /\ L % (Q - args.split) = 0
    BY <1>1, <1>2, <2>1 DEF Accepted
  <2>. QED BY <2>1, <2>2, <2>3
<1>5. PICK m \in Nat \ {0} : m = L \div s /\ m * s = L
  <2>1. Divides(s, L) /\ 0 \in Nat
    BY <1>4 DEF Divides
  <2>. QED BY <2>1, Below
<1>6. PICK d \in Nat \ {0} : d = L \div t /\ d * t = L
  <2>1. Divides(t, L) /\ 0 \in Nat
    BY <1>4 DEF Divides
  <2>. QED BY <2>1, Below
<1>7. PipelineSize(r) = Q /\ mpu[r].split = s /\ (BeforeSplit(r) <=> q < s) /\ (AfterSplit(r) <=> q >= s)
  BY <1>2, <1>4 DEF Gets, BeforeSplit, AfterSplit, None
<1>8. CASE q < s
  <2>1. NumLayers(r) = m
    BY <1>2, <1>4, <1>5, <1>7, <1>8 DEF NumLayers
  <2>2. ChunkLayers(r, 0, "encoder") = [k \in 1 .. m |-> <<"encoder", k + q * m>>]
    BY <1>3, <2>1 DEF ChunkLayers
  <2>3. InStack(m, q)
    <3>1. m \in Nat /\ s \in Nat /\ q \in 0 .. s - 1 /\ m * s = Layers /\ L = Layers
      BY <1>2, <1>5, <1>8
    <3>. QED BY ONLY <3>1, PartOfStack
  <2>4. PICK e \in Nat : e = q * m /\ (q + 1) * m = e + m
    BY <1>2, <2>3 DEF InStack
  <2>5. Met(q) = e /\ Met(q + 1) = e + m
    <3>1. q <= s /\ q + 1 <= s
      BY <1>2, <1>4, <1>8
    <3>. QED BY <1>2, <1>4, <1>5, <2>4, <3>1 DEF Met
  <2>6. Chunk(r, 0).layers = [k \in 1 .. m |-> <<"encoder", k + e>>] \o <<>>
    <3>1. BeforeSplit(r) /\ ~AfterSplit(r)
      BY <1>2, <1>4, <1>7, <1>8
    <3>. QED BY <2>2, <2>4, <3>1 DEF Chunk
  <2>7. PICK X, x : x = [k \in 1 .. m |-> <<"encoder", k + e>>] /\ x \in Seq(X)
    <3>. DEFINE X == {<<"encoder", k + e>> : k \in 1 .. m}
    <3>1. \A k \in 1 .. m : <<"encoder", k + e>> \in X
      OBVIOUS
    <3>. HIDE DEF X
    <3>2. [k \in 1 .. m |-> <<"encoder", k + e>>] \in Seq(X)
      BY <3>1
    <3>. QED BY <3>2
  <2>8. Chunk(r, 0).layers = [k \in 1 .. m |-> Wanted[e + k]]
    <3>1. x \o <<>> = x
      BY <2>7, ConcatEmptySeq
    <3>2. \A k \in 1 .. m : <<"encoder", k + e>> = Wanted[e + k]
      BY <2>3, <2>4 DEF InStack
    <3>. QED BY <2>6, <2>7, <3>1, <3>2
  <2>9. Met(q) \in Nat /\ Met(q + 1) \in Nat /\ Met(q) <= Met(q + 1) /\ Met(q + 1) - Met(q) = m
    BY <2>5
  <2>. QED BY <2>5, <2>8, <2>9 DEF Laid
<1>9. CASE q >= s
  <2>1. NumLayers(r) = d
    <3>1. ~(q < s)
      BY <1>2, <1>4, <1>9
    <3>. QED BY <1>2, <1>4, <1>6, <1>7, <3>1 DEF NumLayers
  <2>2. PICK i \in 0 .. t - 1 : i = q - s
    BY <1>2, <1>4, <1>9
  <2>3. ChunkLayers(r, 0, "decoder") = [k \in 1 .. d |-> <<"decoder", k + i * d>>]
    BY <1>2, <1>3, <1>4, <1>7, <2>1, <2>2 DEF ChunkLayers
  <2>4. InStack(d, i)
    <3>1. d \in Nat /\ t \in Nat /\ d * t = Layers /\ L = Layers
      BY <1>2, <1>6
    <3>. QED BY ONLY <3>1, i \in 0 .. t - 1, PartOfStack
  <2>5. PICK e \in Nat : e = i * d /\ (i + 1) * d = e + d
    BY <1>2, <2>4 DEF InStack
  <2>0. ASSUME NEW n \in Nat, ~(n <= s) PROVE Met(n) = L + (n - s) * d
    <3>1. args.split = s /\ args.P - args.split = t /\ args.P # 1 /\ args.t5
      BY <1>2, <1>4
    <3>. QED BY ONLY <1>2, <1>6, <2>0, <3>1 DEF Met
  <2>6. Met(q) = L + e /\ Met(q + 1) = L + e + d
    <3>1. CASE q = s
      <4>1. i = 0 /\ e = 0
        BY <2>2, <2>5, <3>1
      <4>2. Met(q) = q * m /\ q * m = L
        <5>1. s * m = m * s
          OBVIOUS
        <5>. QED BY <1>2, <1>4, <1>5, <3>1, <5>1 DEF Met
      <4>3. ~(q + 1 <= s) /\ q + 1 - s = 1
        BY <1>2, <1>4, <3>1
      <4>4. Met(q + 1) = L + 1 * d
        <5>1. q + 1 \in Nat
          BY <1>2
        <5>. QED BY <2>0, <4>3, <5>1
      <4>. QED BY <4>1, <4>2, <4>4
    <3>2. CASE q # s
      <4>1. ~(q <= s) /\ ~(q + 1 <= s) /\ q - s = i /\ q + 1 - s = i + 1
        <5>1. q \in Int /\ s \in Int /\ i = q - s /\ q >= s
          BY <1>2, <1>9, <2>2
        <5>. QED BY ONLY <3>2, <5>1
      <4>2. Met(q) = L + i * d /\ Met(q + 1) = L + (i + 1) * d
        <5>1. q \in Nat /\ q + 1 \in Nat
          BY <1>2
        <5>. QED BY <2>0, <4>1, <5>1
      <4>. QED BY <2>5, <4>2
    <3>. QED BY <3>1, <3>2
  <2>7. Chunk(r, 0).layers = <<>> \o [k \in 1 .. d |-> <<"decoder", k + e>>]
    <3>1. ~BeforeSplit(r) /\ AfterSplit(r)
      BY <1>2, <1>4, <1>7, <1>9
    <3>. QED BY <2>3, <2>5, <3>1 DEF Chunk
  <2>8. PICK X, x : x = [k \in 1 .. d |-> <<"decoder", k + e>>] /\ x \in Seq(X)
    <3>. DEFINE X == {<<"decoder", k + e>> : k \in 1 .. d}
    <3>1. \A k \in 1 .. d : <<"decoder", k + e>> \in X
      OBVIOUS
    <3>. HIDE DEF X
    <3>2. [k \in 1 .. d |-> <<"decoder", k + e>>] \in Seq(X)
      BY <3>1
    <3>. QED BY <3>2
  <2>9. Chunk(r, 0).layers = [k \in 1 .. d |-> Wanted[L + e + k]]
    <3>1. <<>> \o x = x
      BY <2>8, ConcatEmptySeq
    <3>2. \A k \in 1 .. d : <<"decoder", k + e>> = Wanted[L + e + k]
      BY <1>2, <2>4, <2>5 DEF InStack
    <3>. QED BY <2>7, <2>8, <3>1, <3>2
  <2>10. /\ Met(q) \in Nat /\ Met(q + 1) \in Nat /\ Met(q) <= Met(q + 1) /\ Met(q + 1) - Met(q) = d
         /\ Met(q) = L + e
    BY <2>6
  <2>. QED BY <2>9, <2>10 DEF Laid
<1>. QED BY <1>2, <1>4, <1>8, <1>9

(* Every hop brings the layers that come next.                                   *)
LEMMA EveryHop ==
  ASSUME Request(args), NEW N, NEW q \in 0 .. args.P - 1, NEW r,
         Gets(r, N), PipelineRank(r) = q, NEW v \in 0 .. NumChunks - 1
  PROVE  Laid(r, v, v * args.P + q)
<1>1. PICK W \in Worlds : args \in Requests(W) /\ Accepted(args)
  BY DEF Request
<1>2. CASE ~args.t5
  BY <1>2, OneStack
<1>3. CASE args.t5
  <2>1. args.P \in Nat /\ v = 0 /\ v * args.P + q = q
    <3>1. args.V = None /\ NumChunks = 1
      BY <1>1, <1>3 DEF Accepted, NumChunks
    <3>2. args.P \in Nat
      BY <1>1, SizesAssumption DEF Requests
    <3>. QED BY <3>1, <3>2
  <2>2. CASE args.P = 1
    <3>1. q = 0
      BY <2>2
    <3>. QED BY <1>3, <2>1, <2>2, <3>1, TwoStacks
  <2>3. CASE args.P # 1
    BY <1>3, <2>1, <2>3, SplitStacks
  <2>. QED BY <2>2, <2>3
<1>. QED BY <1>2, <1>3

(* The first hop starts with no layer and the last one ends with all.            *)
LEMMA AllMet ==
  ASSUME Request(args)
  PROVE  Met(0) = 0 /\ Met(args.P * NumChunks) = Layers * Len(Stacks)
<1>1. PICK W \in Worlds : args \in Requests(W) /\ Accepted(args)
  BY DEF Request
<1>2. PICK Q \in Nat \ {0}, L \in Nat \ {0} : Q = args.P /\ L = Layers
  BY <1>1, SizesAssumption DEF Requests
<1>3. CASE ~args.t5
  <2>1. PICK V \in Nat \ {0} :
          /\ V = NumChunks /\ (args.V = None => V = 1)
          /\ (args.V # None => V = args.V /\ L % (Q * V) = 0)
    BY <1>1, <1>2 DEF NumChunks, Requests, None, Accepted
  <2>2. L % Q = 0
    BY <1>1, <1>2, <1>3 DEF Accepted
  <2>3. PICK h \in Nat \ {0} : h = Q * V /\ L % h = 0
    <3>1. PICK h \in Nat \ {0} : h = Q * V
      BY TimesPositive
    <3>2. CASE args.V = None
      BY <2>1, <2>2, <3>1, <3>2
    <3>3. CASE args.V # None
      BY <2>1, <3>1, <3>3
    <3>. QED BY <3>1, <3>2, <3>3
  <2>4. PICK m \in Nat \ {0} : m = L \div h /\ L = m * h
    <3>1. Divides(h, L) /\ 0 \in Nat
      BY <2>3 DEF Divides
    <3>. QED BY <3>1, Below
  <2>5. Met(0) = 0 * m /\ Met(h) = h * m
    BY <1>2, <1>3, <2>1, <2>3, <2>4 DEF Met
  <2>6. 0 * m = 0 /\ h * m = L
    BY <2>4
  <2>7. Len(Stacks) = 1
    BY <1>3 DEF Stacks
  <2>. QED BY <1>2, <2>1, <2>3, <2>5, <2>6, <2>7
<1>4. CASE args.t5
  <2>1. NumChunks = 1 /\ Len(Stacks) = 2 /\ args.P * NumChunks = Q
    <3>1. args.V = None
      BY <1>1, <1>4 DEF Accepted
    <3>2. NumChunks = 1 /\ Len(Stacks) = 2
      BY <1>4, <3>1 DEF NumChunks, Stacks
    <3>. QED BY <1>2, <3>2
  <2>2. CASE Q = 1
    <3>1. Met(0) = 0 * (L * 2) /\ Met(1) = 1 * (L * 2)
      BY <1>2, <1>4, <2>2 DEF Met
    <3>. QED BY <1>2, <2>1, <2>2, <3>1
  <2>3. CASE Q # 1
    <3>1. PICK s \in Nat \ {0}, t \in Nat \ {0} :
            s = args.split /\ t = Q - s /\ Q = s + t /\ L % s = 0 /\ L % t = 0
      <4>1. args.split # None /\ args.split \in {None} \cup 1 .. MaxPipeline - 1
        BY <1>1, <1>2, <1>4, <2>3 DEF Accepted, Requests
      <4>2. args.split \in Nat \ {0}
        BY <4>1, SizesAssumption DEF None
      <4>3. args.split < Q /\ L % args.split = 0 /\ L % (Q - args.split) = 0
        BY <1>1, <1>2, <4>1 DEF Accepted
      <4>. QED BY <4>1, <4>2, <4>3
    <3>2. PICK m \in Nat \ {0} : m = L \div s
      <4>1. Divides(s, L) /\ 0 \in Nat
        BY <3>1 DEF Divides
      <4>. QED BY <4>1, Below
    <3>3. PICK d \in Nat \ {0} : d = L \div t /\ L = d * t
      <4>1. Divides(t, L) /\ 0 \in Nat
        BY <3>1 DEF Divides
      <4>. QED BY <4>1, Below
    <3>4. Met(0) = 0 * m
      <4>1. 0 <= s
        BY <3>1
      <4>. QED BY <1>2, <1>4, <2>3, <3>1, <3>2, <4>1 DEF Met
    <3>5. Met(Q) = L + t * d
      <4>1. ~(Q <= s) /\ Q - s = t /\ args.P - args.split = t /\ args.split = s
        BY <1>2, <3>1
      <4>. QED BY <1>2, <1>4, <2>3, <3>3, <4>1 DEF Met
    <3>6. 0 * m = 0 /\ t * d = L /\ L + L = L * 2
      BY <3>3
    <3>. QED BY <1>2, <2>1, <3>4, <3>5, <3>6
  <2>. QED BY <2>2, <2>3
<1>. QED BY <1>3, <1>4

(* The ends of the model are where the hops of the pipeline are.                 *)
Decoder == IF args.split = None THEN 0 ELSE args.split
Ended(r, v, n) ==
  /\ Chunk(r, v).pre = (n \in {0, Decoder})
  /\ Chunk(r, v).post =
       (n \in {args.P * NumChunks - 1} \cup (IF Decoder > 0 THEN {Decoder - 1} ELSE {}))

LEMMA EveryEnd ==
  ASSUME Request(args), NEW N, NEW q \in 0 .. args.P - 1, NEW r,
         Gets(r, N), PipelineRank(r) = q, NEW v \in 0 .. NumChunks - 1
  PROVE  Ended(r, v, v * args.P + q)
<1>1. PICK W \in Worlds : args \in Requests(W) /\ Accepted(args)
  BY DEF Request
<1>2. PICK Q \in Nat \ {0} : Q = args.P /\ q \in 0 .. Q - 1
  BY <1>1, SizesAssumption DEF Requests
<1>3. PICK n \in Nat : n = v * Q + q
  <2>1. PICK V \in Nat \ {0} : V = NumChunks
    BY <1>1 DEF NumChunks, Requests, None
  <2>2. v \in 0 .. V - 1
    BY <2>1
  <2>3. v * Q + q \in 0 .. V * Q - 1
    BY <1>2, <2>2, Numbering
  <2>. QED BY <2>3
<1>4. PipelineSize(r) = Q /\ mpu[r].virtual = args.V
  BY <1>2 DEF Gets
<1>5. CASE args.V # None
  <2>1. /\ ~args.t5 /\ args.split = None /\ NumChunks = args.V /\ Decoder = 0
        /\ NumChunks \in Nat \ {0}
    BY <1>1, <1>5 DEF Accepted, NumChunks, Decoder, Requests, None
  <2>2. PICK V \in Nat \ {0} : V = NumChunks /\ V = args.V /\ v \in 0 .. V - 1
    BY <2>1
  <2>3. n = 0 <=> v = 0 /\ q = 0
    <3>1. ASSUME v # 0 PROVE n # 0
      <4>1. 1 * Q <= v * Q
        BY <2>2, <3>1, TimesMonotonic
      <4>2. PICK e \in Int : e = v * Q
        BY <2>2
      <4>. QED BY <1>2, <1>3, <4>1, <4>2
    <3>2. ASSUME v = 0 PROVE n = q
      BY <1>2, <1>3, <3>2
    <3>. QED BY <1>2, <3>1, <3>2
  <2>4. n = Q * V - 1 <=> v = V - 1 /\ q = Q - 1
    <3>1. ASSUME v = V - 1 PROVE n = Q * V - Q + q
      <4>1. (V - 1) * Q = Q * V - Q
        OBVIOUS
      <4>. QED BY <1>2, <1>3, <3>1, <4>1
    <3>2. ASSUME v # V - 1 PROVE n < Q * V - 1
      <4>1. PICK w \in Int : w = v + 1 /\ w <= V - 1
        BY <2>2, <3>2
      <4>2. w * Q <= (V - 1) * Q
        BY <4>1, TimesMonotonic
      <4>3. PICK e \in Int, f \in Int : e = v * Q /\ f = Q * V /\ w * Q = e + Q /\ (V - 1) * Q = f - Q
        BY <2>2, <4>1
      <4>4. e + Q <= f - Q /\ n = e + q
        BY <1>3, <4>2, <4>3
      <4>. QED BY <1>2, <4>3, <4>4
    <3>3. PICK f \in Int : f = Q * V
      OBVIOUS
    <3>. QED BY <1>2, <1>3, <3>1, <3>2, <3>3
  <2>5. /\ Chunk(r, v).pre = (v = 0 /\ q = 0)
        /\ Chunk(r, v).post = (v = V - 1 /\ q = Q - 1)
    BY <1>4, <1>5, <2>1, <2>2 DEF Chunk, IsFirstStage, IsLastStage
  <2>6. args.P * NumChunks = Q * V
    BY <1>2, <2>2
  <2>. QED BY <1>2, <1>3, <2>1, <2>3, <2>4, <2>5, <2>6 DEF Ended
<1>6. CASE args.V = None
  <2>1. NumChunks = 1 /\ v = 0 /\ n = q /\ args.P * NumChunks = Q
    <3>1. NumChunks = 1
      BY <1>6 DEF NumChunks
    <3>. QED BY <1>2, <1>3, <3>1
  <2>2. PICK s \in Nat : /\ s = Decoder /\ s = args.split /\ (s # 0 <=> args.t5 /\ Q > 1)
    <3>1. args.split \in Nat
      BY <1>1, SizesAssumption DEF Requests, None
    <3>2. (args.split # None) <=> args.t5 /\ Q > 1
      BY <1>1, <1>2 DEF Accepted
    <3>. QED BY <3>1, <3>2 DEF Decoder, None
  <2>3. /\ Chunk(r, v).pre = (q = 0 \/ (args.t5 /\ Q > 1 /\ q = s))
        /\ Chunk(r, v).post = (q = Q - 1 \/ (args.t5 /\ Q > 1 /\ q = s - 1))
    BY <1>4, <1>6, <2>1, <2>2 DEF Chunk, IsFirstStage, IsLastStage
  <2>4. (q = 0 \/ (args.t5 /\ Q > 1 /\ q = s)) = (q \in {0, s})
    BY <2>2
  <2>5. (q = Q - 1 \/ (args.t5 /\ Q > 1 /\ q = s - 1)) = (q \in {Q - 1} \cup (IF s > 0 THEN {s - 1} ELSE {}))
    BY <2>2
  <2>. QED BY <1>2, <1>3, <2>1, <2>2, <2>3, <2>4, <2>5 DEF Ended
<1>. QED BY <1>5, <1>6

(* The stage after a stage, around the pipeline.                                 *)
LEMMA Around ==
  ASSUME NEW n \in Nat, NEW Q \in Nat \ {0}
  PROVE  /\ n % Q \in 0 .. Q - 1 /\ (n + 1) % Q \in 0 .. Q - 1
         /\ (n + 1) % Q = ((n % Q) + 1) % Q /\ (((n + 1) % Q) - 1) % Q = n % Q
<1>1. PICK k \in Int, q \in 0 .. Q - 1 : q = n % Q /\ n = k * Q + q
  <2>1. n \in Int
    OBVIOUS
  <2>. QED BY ONLY <2>1, Q \in Nat \ {0}, Division
<1>2. PICK m \in Int : m = n + 1 /\ m = k * Q + q + 1
  BY <1>1
<1>3. CASE q + 1 < Q
  <2>1. q + 1 \in 0 .. Q - 1
    BY <1>3
  <2>2. m = k * Q + (q + 1)
    BY <1>2
  <2>3. m % Q = q + 1
    BY ONLY k \in Int, Q \in Nat \ {0}, <2>1, <2>2, DivisionIs
  <2>4. (q + 1) % Q = q + 1 /\ q % Q = q
    <3>1. 0 \in Int /\ q + 1 = 0 * Q + (q + 1) /\ q = 0 * Q + q
      OBVIOUS
    <3>2. (q + 1) % Q = q + 1
      BY ONLY Q \in Nat \ {0}, <2>1, <3>1, DivisionIs
    <3>3. q % Q = q
      BY ONLY Q \in Nat \ {0}, q \in 0 .. Q - 1, <3>1, DivisionIs
    <3>. QED BY <3>2, <3>3
  <2>5. q + 1 - 1 = q
    OBVIOUS
  <2>. QED BY <1>1, <1>2, <2>1, <2>3, <2>4, <2>5
<1>4. CASE q + 1 = Q
  <2>1. k + 1 \in Int /\ 0 \in 0 .. Q - 1 /\ m = (k + 1) * Q + 0
    BY <1>2, <1>4
  <2>2. m % Q = 0
    BY ONLY Q \in Nat \ {0}, <2>1, DivisionIs
  <2>3. Q % Q = 0
    <3>1. 1 \in Int /\ 0 \in 0 .. Q - 1 /\ Q = 1 * Q + 0
      OBVIOUS
    <3>. QED BY ONLY Q \in Nat \ {0}, <3>1, DivisionIs
  <2>4. (0 - 1) % Q = Q - 1
    <3>1. -1 \in Int /\ Q - 1 \in 0 .. Q - 1 /\ 0 - 1 = (-1) * Q + (Q - 1)
      OBVIOUS
    <3>. QED BY ONLY Q \in Nat \ {0}, <3>1, DivisionIs
  <2>5. q = Q - 1 /\ q + 1 = Q
    BY <1>4
  <2>. QED BY <1>1, <1>2, <2>1, <2>2, <2>3, <2>4, <2>5
<1>. QED BY <1>1, <1>3, <1>4

(* The rank at hop n of the pipeline of rank y, and the chunk it runs.           *)
Hops == args.P * NumChunks
Walk(y, N) == [n \in 0 .. Hops |-> (n % args.P) * N + y]

Walked(y, N, n) ==
  /\ n \div args.P \in 0 .. NumChunks - 1 /\ n % args.P \in 0 .. args.P - 1
  /\ n = (n \div args.P) * args.P + (n % args.P)
  /\ Stage(Walk(y, N)[n], n % args.P, y, N)
  /\ NextRank(Walk(y, N)[n]) = Walk(y, N)[n + 1] /\ PrevRank(Walk(y, N)[n + 1]) = Walk(y, N)[n]

LEMMA Walks ==
  ASSUME Ready, NEW D, NEW F, Sized(args, D, F),
         NEW N, N = NumPipelines(args), NEW y \in 0 .. N - 1
  PROVE  /\ Hops \in Nat \ {0} /\ Walk(y, N)[0] = y /\ Walk(y, N)[Hops] = y
         /\ \A n \in 0 .. Hops - 1 : Walked(y, N, n)
<1>1. PICK Q \in Nat \ {0}, V \in Nat \ {0}, h \in Nat \ {0} :
        Q = args.P /\ V = NumChunks /\ h = Hops /\ h = V * Q /\ N \in Nat \ {0}
  <2>1. PICK W \in Worlds : args \in Requests(W)
    BY DEF Ready, Inv, Request
  <2>2. NumChunks \in Nat \ {0} /\ args.P \in Nat \ {0}
    BY <2>1, SizesAssumption DEF NumChunks, Requests, None
  <2>3. N \in Nat \ {0}
    BY DataAre DEF Nested, Divides
  <2>4. PICK Q \in Nat \ {0}, V \in Nat \ {0} : Q = args.P /\ V = NumChunks
    BY <2>2
  <2>5. Q * V \in Nat \ {0} /\ Q * V = V * Q
    BY TimesPositive
  <2>. QED BY <2>3, <2>4, <2>5 DEF Hops
<1>2. \A n \in 0 .. h : Walk(y, N)[n] = (n % Q) * N + y
  BY <1>1 DEF Walk
<1>3. 0 * N + y = y
  BY <1>1
<1>4. 0 % Q = 0 /\ h % Q = 0
  <2>1. 0 \in Int /\ V \in Int /\ 0 \in 0 .. Q - 1 /\ 0 = 0 * Q + 0 /\ h = V * Q + 0
    BY <1>1
  <2>2. 0 % Q = 0
    BY ONLY Q \in Nat \ {0}, <2>1, DivisionIs
  <2>3. h % Q = 0
    BY ONLY Q \in Nat \ {0}, <2>1, DivisionIs
  <2>. QED BY <2>2, <2>3
<1>5. Walk(y, N)[0] = y /\ Walk(y, N)[h] = y
  <2>1. 0 \in 0 .. h /\ h \in 0 .. h
    OBVIOUS
  <2>2. Walk(y, N)[0] = 0 * N + y /\ Walk(y, N)[h] = 0 * N + y
    BY <1>2, <1>4, <2>1
  <2>. QED BY <1>3, <2>2
<1>6. ASSUME NEW n \in 0 .. h - 1 PROVE Walked(y, N, n)
  <2>1. n \in Nat /\ n \in Int /\ n \in 0 .. V * Q - 1 /\ n \in 0 .. h /\ n + 1 \in 0 .. h
    BY <1>1
  <2>2. n \div Q \in 0 .. V - 1
    BY ONLY V \in Nat, Q \in Nat \ {0}, <2>1, QuotientBounds
  <2>3. n % Q \in 0 .. Q - 1 /\ n = (n \div Q) * Q + (n % Q)
    BY ONLY Q \in Nat \ {0}, <2>1, Division
  <2>4. /\ (n + 1) % Q \in 0 .. Q - 1 /\ (n + 1) % Q = ((n % Q) + 1) % Q
        /\ (((n + 1) % Q) - 1) % Q = n % Q
    BY <2>1, Around
  <2>5. PICK q \in 0 .. Q - 1, p \in 0 .. Q - 1 :
          q = n % Q /\ p = (n + 1) % Q /\ p = (q + 1) % Q /\ (p - 1) % Q = q
    BY <2>3, <2>4
  <2>6. Walk(y, N)[n] = q * N + y /\ Walk(y, N)[n + 1] = p * N + y
    BY <1>2, <2>1, <2>5
  <2>7. Stage(q * N + y, q, y, N) /\ Stage(p * N + y, p, y, N)
    BY <1>1, Stages
  <2>8. NextRank(Walk(y, N)[n]) = Walk(y, N)[n + 1]
    <3>1. NextRank(q * N + y) = ((q + 1) % Q) * N + y
      BY <1>1, <2>7 DEF Stage
    <3>. QED BY <2>5, <2>6, <3>1
  <2>9. PrevRank(Walk(y, N)[n + 1]) = Walk(y, N)[n]
    <3>1. PrevRank(p * N + y) = ((p - 1) % Q) * N + y
      BY <1>1, <2>7 DEF Stage
    <3>. QED BY <2>5, <2>6, <3>1
  <2>. QED BY <1>1, <2>2, <2>3, <2>5, <2>6, <2>7, <2>8, <2>9 DEF Walked
<1>. QED BY <1>1, <1>5, <1>6

(* The property of one pipeline, whose hops the function "at" gives.             *)
ChunkAt(at, n) == model[at[n]][(n \div args.P) + 1]

AlignedOn(first, at) ==
  /\ FlattenSeq([n \in 1 .. Hops |-> ChunkAt(at, n - 1).layers]) = Wanted
  /\ at[Hops] = first
  /\ \A n \in 0 .. Hops - 1 :
       /\ PrevRank(at[n + 1]) = at[n]
       /\ ChunkAt(at, n).pre = (n \in {0, Decoder})
       /\ ChunkAt(at, n).post = (n \in {Hops - 1} \cup (IF Decoder > 0 THEN {Decoder - 1} ELSE {}))
       /\ LocalSequence(at[n]) = LocalSequence(first)
       /\ TensorRank(at[n]) = TensorRank(first)

LEMMA WalkAligned ==
  ASSUME Ready, NEW D, NEW F, Sized(args, D, F),
         NEW N, N = NumPipelines(args), NEW y \in 0 .. N - 1
  PROVE  AlignedOn(y, Walk(y, N))
<1>. DEFINE at == Walk(y, N)
            chunk(n) == ChunkAt(at, n)
<1>1. PICK h \in Nat \ {0} : h = Hops /\ at[0] = y /\ at[h] = y /\ \A n \in 0 .. h - 1 : Walked(y, N, n)
  BY Walks
<1>. HIDE DEF at, chunk
<1>2. Request(args)
  BY DEF Ready, Inv
<1>3. ASSUME NEW n \in 0 .. h - 1
      PROVE  \E r, v, q : /\ r = at[n] /\ v = n \div args.P /\ v \in 0 .. NumChunks - 1
                          /\ q \in 0 .. args.P - 1 /\ n = v * args.P + q
                          /\ Gets(r, N) /\ PipelineRank(r) = q /\ chunk(n) = Chunk(r, v)
  <2>1. Walked(y, N, n)
    BY <1>1
  <2>2. PICK r, v, q : /\ r = at[n] /\ v = n \div args.P /\ v \in 0 .. NumChunks - 1
                       /\ q \in 0 .. args.P - 1 /\ n = v * args.P + q
                       /\ Gets(r, N) /\ PipelineRank(r) = q
    BY <2>1 DEF Walked, Stage, at
  <2>3. chunk(n) = Chunk(r, v)
    <3>1. v + 1 \in 1 .. NumChunks /\ (v + 1) - 1 = v
      <4>1. NumChunks \in Int
        <5>1. PICK W \in Worlds : args \in Requests(W)
          BY <1>2 DEF Request
        <5>. QED BY <5>1 DEF NumChunks, Requests, None
      <4>. QED BY <2>2, <4>1
    <3>2. model[r] = [c \in 1 .. NumChunks |-> Chunk(r, c - 1)]
      BY <2>2 DEF Gets
    <3>3. chunk(n) = model[r][v + 1]
      BY <2>2 DEF chunk, ChunkAt
    <3>. QED BY <3>1, <3>2, <3>3
  <2>. QED BY <2>2, <2>3
<1>4. ASSUME NEW n \in 0 .. h - 1
      PROVE  /\ Met(n) \in Nat /\ Met(n + 1) \in Nat /\ Met(n) <= Met(n + 1)
             /\ chunk(n).layers = [k \in 1 .. Met(n + 1) - Met(n) |-> Wanted[Met(n) + k]]
             /\ chunk(n).pre = (n \in {0, Decoder})
             /\ chunk(n).post = (n \in {h - 1} \cup (IF Decoder > 0 THEN {Decoder - 1} ELSE {}))
  <2>1. PICK r, v, q : /\ v \in 0 .. NumChunks - 1
                       /\ q \in 0 .. args.P - 1 /\ n = v * args.P + q
                       /\ Gets(r, N) /\ PipelineRank(r) = q /\ chunk(n) = Chunk(r, v)
    BY <1>3
  <2>2. Laid(r, v, n)
    BY <1>2, <2>1, EveryHop
  <2>3. Ended(r, v, n)
    BY <1>2, <2>1, EveryEnd
  <2>4. args.P * NumChunks = h
    BY <1>1 DEF Hops
  <2>5. /\ Chunk(r, v).pre = (n \in {0, Decoder})
        /\ Chunk(r, v).post = (n \in {h - 1} \cup (IF Decoder > 0 THEN {Decoder - 1} ELSE {}))
    BY <2>3, <2>4 DEF Ended
  <2>. QED BY <2>1, <2>2, <2>5 DEF Laid
<1>5. FlattenSeq([n \in 1 .. h |-> chunk(n - 1).layers]) = Wanted
  <2>. DEFINE ss == [n \in 1 .. h |-> chunk(n - 1).layers]
              o == [n \in 0 .. h |-> Met(n)]
  <2>1. Met(0) = 0 /\ Met(h) = Layers * Len(Stacks)
    BY <1>1, <1>2, AllMet DEF Hops
  <2>2. o[0] = 0 /\ o[h] = Layers * Len(Stacks)
    BY <2>1
  <2>3. ASSUME NEW j \in 1 .. h
        PROVE  /\ o[j - 1] \in Nat /\ o[j] \in Nat /\ o[j - 1] <= o[j]
               /\ ss[j] = [k \in 1 .. o[j] - o[j - 1] |-> Wanted[o[j - 1] + k]]
    <3>1. PICK n \in 0 .. h - 1 : n = j - 1 /\ n + 1 = j
      OBVIOUS
    <3>2. o[j - 1] = Met(n) /\ o[j] = Met(n + 1) /\ ss[j] = chunk(n).layers
      BY <3>1
    <3>. HIDE DEF o, ss
    <3>. QED BY <1>4, <3>2
  <2>4. ss = [j \in 1 .. h |-> ss[j]]
    OBVIOUS
  <2>. HIDE DEF o, ss
  <2>5. Cut(ss, h, o, Wanted)
    BY <2>2, <2>3, <2>4 DEF Cut
  <2>6. FlattenSeq(ss) = [k \in 1 .. o[h] |-> Wanted[k]]
    BY <2>5, Joined
  <2>7. Wanted = [k \in 1 .. Layers * Len(Stacks) |-> Wanted[k]]
    BY DEF Wanted
  <2>8. FlattenSeq(ss) = Wanted
    BY <2>2, <2>6, <2>7
  <2>. QED BY <2>8 DEF ss
<1>6. ASSUME NEW n \in 0 .. h - 1
      PROVE  /\ PrevRank(at[n + 1]) = at[n]
             /\ LocalSequence(at[n]) = LocalSequence(y) /\ TensorRank(at[n]) = TensorRank(y)
  <2>1. Walked(y, N, n) /\ Walked(y, N, 0) /\ at[0] = y
    <3>1. 0 \in 0 .. h - 1
      OBVIOUS
    <3>. QED BY <1>1, <3>1
  <2>. QED BY <2>1 DEF Walked, Stage, at
<1>. QED BY <1>1, <1>4, <1>5, <1>6 DEF AlignedOn, at, chunk

(* Following the pipeline is that walk.                                          *)
LEMMA Following ==
  ASSUME Ready, NEW D, NEW F, Sized(args, D, F),
         NEW N, N = NumPipelines(args), NEW y \in 0 .. N - 1
  PROVE  (CHOOSE at : at = [n \in 0 .. Hops |-> IF n = 0 THEN y ELSE NextRank(at[n - 1])]) = Walk(y, N)
<1>. DEFINE Loop(at) == [n \in 0 .. Hops |-> IF n = 0 THEN y ELSE NextRank(at[n - 1])]
            walk == Walk(y, N)
<1>1. PICK h \in Nat \ {0} : h = Hops /\ walk[0] = y /\ \A n \in 0 .. h - 1 : Walked(y, N, n)
  BY Walks
<1>2. \A n \in 1 .. h : walk[n] = NextRank(walk[n - 1])
  <2>1. ASSUME NEW n \in 1 .. h PROVE walk[n] = NextRank(walk[n - 1])
    <3>1. n - 1 \in 0 .. h - 1 /\ (n - 1) + 1 = n
      OBVIOUS
    <3>2. Walked(y, N, n - 1)
      BY <1>1, <3>1
    <3>. QED BY <3>1, <3>2 DEF Walked
  <2>. QED BY <2>1
<1>3. walk = [n \in 0 .. h |-> walk[n]]
  BY <1>1 DEF Walk
<1>. HIDE DEF walk
<1>4. \A at : /\ Loop(at) = [n \in 0 .. h |-> Loop(at)[n]] /\ Loop(at)[0] = y
              /\ \A n \in 1 .. h : Loop(at)[n] = NextRank(at[n - 1])
  <2>1. \A at : Loop(at) = [n \in 0 .. h |-> IF n = 0 THEN y ELSE NextRank(at[n - 1])]
    BY <1>1
  <2>. HIDE DEF Loop
  <2>2. ASSUME NEW at PROVE Loop(at)[0] = y
    <3>1. 0 \in 0 .. h
      OBVIOUS
    <3>. QED BY <2>1, <3>1
  <2>3. ASSUME NEW at, NEW n \in 1 .. h PROVE Loop(at)[n] = NextRank(at[n - 1])
    <3>1. n \in 0 .. h /\ n # 0
      OBVIOUS
    <3>. QED BY <2>1, <3>1
  <2>4. ASSUME NEW at PROVE Loop(at) = [n \in 0 .. h |-> Loop(at)[n]]
    BY <2>1
  <2>. QED BY ONLY <2>2, <2>3, <2>4
<1>. HIDE DEF Loop
<1>5. ASSUME NEW at, at = Loop(at) PROVE at = walk
  <2>1. UpTo(h, at) /\ UpTo(h, walk)
    BY <1>3, <1>4, <1>5 DEF UpTo
  <2>2. SameSteps(h, at, walk)
    BY <1>1, <1>2, <1>4, <1>5 DEF SameSteps
  <2>. QED BY <2>1, <2>2, RecursionUnique
<1>6. walk = Loop(walk)
  <2>1. UpTo(h, walk) /\ UpTo(h, Loop(walk))
    BY <1>3, <1>4 DEF UpTo
  <2>2. SameSteps(h, walk, Loop(walk))
    <3>1. \A n \in 1 .. h : Loop(walk)[n] = walk[n]
      BY <1>2, <1>4
    <3>. QED BY <1>1, <1>4, <3>1 DEF SameSteps
  <2>. QED BY <2>1, <2>2, RecursionUnique
<1>7. (CHOOSE at : at = Loop(at)) = walk
  BY <1>5, <1>6
<1>. QED BY <1>7 DEF Loop, walk

LEMMA EveryPipeline == ASSUME Inv PROVE PipelinesAligned
<1>1. SUFFICES ASSUME phase = "built", NEW first \in {r \in Rank : PipelineRank(r) = 0}
               PROVE  AlignedOn(first, CHOOSE at : at =
                        [n \in 0 .. Hops |-> IF n = 0 THEN first ELSE NextRank(at[n - 1])])
  BY DEF PipelinesAligned, AlignedOn, Hops, ChunkAt, Decoder, Wanted, Stacks
<1>0. Ready
  BY <1>1 DEF Ready
<1>2. PICK D, F : Sized(args, D, F)
  BY SizesOf DEF Inv
<1>3. PICK N \in Nat \ {0} : N = NumPipelines(args)
  BY <1>2, DataAre DEF Nested, Divides
<1>4. first \in 0 .. N - 1
  <2>1. first \in Nat /\ first \div N = 0
    <3>1. first \in Rank /\ PipelineRank(first) = 0
      BY <1>1
    <3>2. Gets(first, N)
      BY <1>0, <1>2, <1>3, <3>1, Getters
    <3>3. args.world \in Int
      BY <1>2, DataAre DEF Nested, Divides
    <3>. QED BY <3>1, <3>2, <3>3 DEF Gets, Rank
  <2>2. first % N \in 0 .. N - 1 /\ first = (first \div N) * N + (first % N)
    <3>1. first \in Int
      BY <2>1
    <3>. QED BY ONLY <3>1, N \in Nat \ {0}, Division
  <2>3. 0 * N + (first % N) = first % N
    BY <2>2
  <2>. QED BY <2>1, <2>2, <2>3
<1>5. AlignedOn(first, Walk(first, N))
  BY <1>0, <1>2, <1>3, <1>4, WalkAligned
<1>. QED BY <1>0, <1>1, <1>2, <1>3, <1>4, <1>5, Following

(* Following any pipeline of any accepted layout from the first stage, chunk     *)
(* after chunk, every layer is met once and in order, the ends of the model are  *)
(* where they must be, and all ranks met read the same data and hold the same    *)
(* tensor-parallel shard.                                                        *)
THEOREM Pipelines == Spec => []PipelinesAligned
<1>1. Inv => PipelinesAligned
  BY EveryPipeline
<1>2. Spec => []Inv
  BY Invariant
<1>. QED BY <1>1, <1>2, PTL

-------------------------------------------------------------------------------
(* Sums of bags                                                                  *)

(* The bags of sets that have nothing in common add up to the bag of all.        *)
LEMMA TwoBags ==
  ASSUME NEW A, NEW B, A \cap B = {}
  PROVE  SetToBag(A) (+) SetToBag(B) = SetToBag(A \cup B)
<1>1. /\ DOMAIN SetToBag(A) = A /\ \A e \in A : SetToBag(A)[e] = 1
      /\ DOMAIN SetToBag(B) = B /\ \A e \in B : SetToBag(B)[e] = 1
  BY DEF SetToBag
<1>. DEFINE Count(e) == (IF e \in A THEN SetToBag(A)[e] ELSE 0) + (IF e \in B THEN SetToBag(B)[e] ELSE 0)
<1>2. SetToBag(A) (+) SetToBag(B) = [e \in A \cup B |-> Count(e)]
  BY <1>1 DEF (+)
<1>3. ASSUME NEW e \in A \cup B PROVE Count(e) = 1
  BY <1>1
<1>. HIDE DEF Count
<1>. QED BY <1>2, <1>3 DEF SetToBag

Disjoint(n, S) == \A i, j \in 1 .. n : i # j => S[i] \cap S[j] = {}
AllOf(n, S) == UNION {S[i] : i \in 1 .. n}
BagsOf(bags, n, S) == bags = [i \in 1 .. n |-> bags[i]] /\ \A i \in 1 .. n : bags[i] = SetToBag(S[i])

LEMMA BagSumIs ==
  ASSUME NEW n \in Nat, NEW S, NEW bags, BagsOf(bags, n, S), Disjoint(n, S)
  PROVE  BagSum(bags) = SetToBag(AllOf(n, S))
<1>. DEFINE Loop(f) == [i \in 0 .. n |-> IF i = 0 THEN EmptyBag ELSE f[i - 1] (+) bags[i]]
            all == [i \in 0 .. n |-> SetToBag(AllOf(i, S))]
<1>1. Len(bags) = n /\ \A i \in 1 .. n : bags[i] = SetToBag(S[i])
  BY DEF BagsOf
<1>2. BagSum(bags) = (CHOOSE f : f = Loop(f))[n]
  BY <1>1 DEF BagSum
<1>3. \A f : /\ UpTo(n, Loop(f)) /\ Loop(f)[0] = EmptyBag
             /\ \A i \in 1 .. n : Loop(f)[i] = f[i - 1] (+) bags[i]
  <2>1. \A f : Loop(f) = [i \in 0 .. n |-> IF i = 0 THEN EmptyBag ELSE f[i - 1] (+) bags[i]]
    OBVIOUS
  <2>. HIDE DEF Loop
  <2>2. ASSUME NEW f PROVE Loop(f)[0] = EmptyBag
    <3>1. 0 \in 0 .. n
      OBVIOUS
    <3>. QED BY <2>1, <3>1
  <2>3. ASSUME NEW f, NEW i \in 1 .. n PROVE Loop(f)[i] = f[i - 1] (+) bags[i]
    <3>1. i \in 0 .. n /\ i # 0
      OBVIOUS
    <3>. QED BY <2>1, <3>1
  <2>4. ASSUME NEW f PROVE UpTo(n, Loop(f))
    <3>1. Loop(f) = [i \in 0 .. n |-> Loop(f)[i]]
      BY <2>1
    <3>. QED BY <3>1 DEF UpTo
  <2>. QED BY ONLY <2>2, <2>3, <2>4
<1>4. UpTo(n, all) /\ \A i \in 0 .. n : all[i] = SetToBag(AllOf(i, S))
  BY DEF UpTo
<1>. HIDE DEF Loop, all
<1>5. all[0] = EmptyBag
  <2>1. AllOf(0, S) = {} /\ 0 \in 0 .. n
    BY DEF AllOf
  <2>. QED BY <1>4, <2>1 DEF EmptyBag
<1>6. ASSUME NEW i \in 1 .. n PROVE all[i] = all[i - 1] (+) bags[i]
  <2>1. i - 1 \in 0 .. n /\ i \in 0 .. n
    OBVIOUS
  <2>2. AllOf(i - 1, S) \cap S[i] = {}
    <3>1. \A j \in 1 .. i - 1 : j \in 1 .. n /\ j # i
      OBVIOUS
    <3>2. \A j \in 1 .. i - 1 : S[j] \cap S[i] = {}
      BY <3>1 DEF Disjoint
    <3>. QED BY <3>2 DEF AllOf
  <2>3. AllOf(i, S) = AllOf(i - 1, S) \cup S[i]
    <3>1. \A j : j \in 1 .. i <=> j \in 1 .. i - 1 \/ j = i
      OBVIOUS
    <3>. QED BY <3>1 DEF AllOf
  <2>4. SetToBag(AllOf(i - 1, S)) (+) SetToBag(S[i]) = SetToBag(AllOf(i, S))
    BY <2>2, <2>3, TwoBags
  <2>. QED BY <1>1, <1>4, <2>1, <2>4
<1>7. ASSUME NEW f, f = Loop(f) PROVE f = all
  <2>1. UpTo(n, f)
    BY <1>3, <1>7
  <2>2. SameSteps(n, f, all)
    BY <1>3, <1>5, <1>6, <1>7 DEF SameSteps
  <2>. QED BY <1>4, <2>1, <2>2, RecursionUnique
<1>8. all = Loop(all)
  <2>1. SameSteps(n, all, Loop(all))
    <3>1. \A i \in 1 .. n : Loop(all)[i] = all[i]
      BY <1>3, <1>6
    <3>. QED BY <1>3, <1>5, <3>1 DEF SameSteps
  <2>. QED BY <1>3, <1>4, <2>1, RecursionUnique
<1>9. (CHOOSE f : f = Loop(f)) = all
  BY <1>7, <1>8
<1>10. n \in 0 .. n
  OBVIOUS
<1>. QED BY <1>2, <1>4, <1>9, <1>10

BagsAre(n, S, g, k) ==
  Len(g) = n /\ Disjoint(n, S) /\ \A i \in 1 .. n : grad[g[i]][k] = SetToBag(S[i])

LEMMA AllReduceIs ==
  ASSUME NEW n \in Nat, NEW S, NEW g, NEW k, BagsAre(n, S, g, k)
  PROVE  AllReduce(g, k) = SetToBag(AllOf(n, S))
<1>. DEFINE bags == [i \in 1 .. n |-> grad[g[i]][k]]
<1>1. BagsOf(bags, n, S)
  BY DEF BagsOf, BagsAre
<1>2. AllReduce(g, k) = BagSum(bags) /\ Disjoint(n, S)
  BY DEF AllReduce, BagsAre
<1>. HIDE DEF bags
<1>. QED BY <1>1, <1>2, BagSumIs

-------------------------------------------------------------------------------
(* Where a rank is                                                               *)

(* Quotients and remainders by a product.                                        *)
NestedDivision(x, G, T) ==
  /\ x \div (G * T) = (x \div T) \div G
  /\ (x % (G * T)) \div T = (x \div T) % G
  /\ (x % (G * T)) % T = x % T

LEMMA DivisionsNest ==
  ASSUME NEW x \in Nat, NEW G \in Nat \ {0}, NEW T \in Nat \ {0}
  PROVE  NestedDivision(x, G, T)
<1>1. PICK z \in Int, t \in 0 .. T - 1 : z = x \div T /\ t = x % T /\ x = z * T + t
  BY Division
<1>2. PICK q \in Int, j \in 0 .. G - 1 : q = z \div G /\ j = z % G /\ z = q * G + j
  BY Division
<1>3. PICK N \in Nat \ {0} : N = G * T
  BY TimesPositive
<1>4. PICK y \in 0 .. N - 1 : y = j * T + t
  <2>1. j * T + t \in 0 .. G * T - 1
    BY Numbering
  <2>. QED BY <1>3, <2>1
<1>5. x = q * N + y
  <2>1. (q * G + j) * T + t = q * (G * T) + (j * T + t)
    OBVIOUS
  <2>. QED BY <1>1, <1>2, <1>3, <1>4, <2>1
<1>6. x \div N = q /\ x % N = y
  BY ONLY q \in Int, N \in Nat \ {0}, y \in 0 .. N - 1, <1>5, DivisionIs
<1>7. y \div T = j /\ y % T = t
  <2>1. j \in Int
    OBVIOUS
  <2>. QED BY ONLY <2>1, T \in Nat \ {0}, t \in 0 .. T - 1, <1>4, DivisionIs
<1>. QED BY <1>1, <1>2, <1>3, <1>6, <1>7 DEF NestedDivision

(* The ranks of a stage go T by T: the number of the T that rank r is one of.     *)
Shard(r) == (r % NumPipelines(args)) \div args.T

Place(x, q, j, t) == x \in Rank /\ PipelineRank(x) = q /\ Shard(x) = j /\ TensorRank(x) = t

(* The groups of a rank.                                                         *)
GroupsAre(r) ==
  LET N == NumPipelines(args)
      pipeline == Part(args.world, N, r)
  IN  /\ Group(r, "dp") = Part(N, args.C * args.T, r)
      /\ Group(r, "dp_cp") = Part(N, args.T, r)
      /\ Group(r, "tp") = Part(args.T, 1, r)
      /\ Group(r, "pp") = pipeline
      /\ Group(r, "exp") = Part(args.T * args.E, 1, r)
      /\ Group(r, "dp_mod_exp") = Part(args.T * DataSize(args), args.T * args.E, r)
      /\ Group(r, "mp") = ModelGroup(args, ModelIndex(args, r))
      /\ mpu[r].embedding_ranks = EmbeddingRanks(args, pipeline)
      /\ mpu[r].position_ranks = PositionRanks(args, pipeline)

LEMMA GroupsOfRank ==
  ASSUME Ready, NEW D, NEW F, Sized(args, D, F), NEW r \in Rank
  PROVE  GroupsAre(r)
<1>1. /\ mpu[r].groups = [n \in GroupNames |-> GroupOf(r, GroupsOf(args)[n])]
      /\ mpu[r].embedding_ranks = EmbeddingRanks(args, GroupOf(r, GroupsOf(args).pp))
      /\ mpu[r].position_ranks = PositionRanks(args, GroupOf(r, GroupsOf(args).pp))
  <2>1. Globals(r) /\ phase # "start"
    BY DEF Ready, Inv
  <2>. QED BY <2>1 DEF Globals
<1>2. /\ Group(r, "dp") = GroupOf(r, DataGroups(args))
      /\ Group(r, "dp_cp") = GroupOf(r, DataWithCpGroups(args))
      /\ Group(r, "tp") = GroupOf(r, TensorGroups(args))
      /\ Group(r, "pp") = GroupOf(r, PipelineGroups(args))
      /\ Group(r, "exp") = GroupOf(r, ExpertGroups(args))
      /\ Group(r, "dp_mod_exp") = GroupOf(r, DataModuloExpertGroups(args))
      /\ Group(r, "mp") = GroupOf(r, ModelGroups(args))
      /\ GroupsOf(args).pp = PipelineGroups(args)
  BY <1>1 DEF Group, GroupsOf, GroupNames
<1>3. r \in 0 .. args.world - 1 /\ DataSize(args) = D
  BY DEF Rank, Sized
<1>4. GroupOf(r, DataGroups(args)) = Part(NumPipelines(args), args.C * args.T, r)
  BY <1>3, DataAre, StridedGroup
<1>5. GroupOf(r, DataWithCpGroups(args)) = Part(NumPipelines(args), args.T, r)
  BY <1>3, DataAre, StridedGroup
<1>6. GroupOf(r, TensorGroups(args)) = Part(args.T, 1, r)
  BY <1>3, TensorsAre, StridedGroup
<1>7. GroupOf(r, PipelineGroups(args)) = Part(args.world, NumPipelines(args), r)
  BY <1>3, PipelinesAre, StridedGroup
<1>8. GroupOf(r, ExpertGroups(args)) = Part(args.T * args.E, 1, r)
  BY <1>3, ExpertsAre, StridedGroup
<1>9. GroupOf(r, DataModuloExpertGroups(args)) = Part(args.T * D, args.T * args.E, r)
  BY <1>3, ExpertsAre, StridedGroup
<1>10. GroupOf(r, ModelGroups(args)) = ModelGroup(args, ModelIndex(args, r))
  BY <1>3, ModelGroupOf
<1>. QED BY <1>1, <1>2, <1>3, <1>4, <1>5, <1>6, <1>7, <1>8, <1>9, <1>10 DEF GroupsAre

(* A member of a group is a rank.                                                *)
LEMMA Members ==
  ASSUME Ready, NEW D, NEW F, Sized(args, D, F), NEW r \in Rank, NEW n \in GroupNames
  PROVE  \A i \in DOMAIN Group(r, n) : Group(r, n)[i] \in Rank
<1>1. Divided(args.world, GroupsOf(args)[n])
  BY AllDivided DEF Ready, Inv
<1>2. Group(r, n) = GroupOf(r, GroupsOf(args)[n])
  <2>1. Globals(r) /\ phase # "start"
    BY DEF Ready, Inv
  <2>2. mpu[r].groups = [l \in GroupNames |-> GroupOf(r, GroupsOf(args)[l])]
    BY <2>1 DEF Globals
  <2>. QED BY <2>2 DEF Group
<1>3. \A m \in Range(GroupOf(r, GroupsOf(args)[n])) : m \in 0 .. args.world - 1
  BY <1>1 DEF Divided, Rank
<1>. QED BY <1>2, <1>3 DEF Range, Rank

(* The sizes by short names: stages, tensor, context and expert ranks, ranks of   *)
(* a stage by T, and all ranks of a stage.                                       *)
Sizes(D, F, Q, T, C, E, G, N) ==
  /\ {D, F, Q, T, C, E, G, N} \subseteq Nat \ {0}
  /\ Q = args.P /\ T = args.T /\ C = args.C /\ E = args.E /\ DataSize(args) = D
  /\ D = F * E /\ G = D * C /\ N = G * T /\ N = NumPipelines(args) /\ args.world = Q * N

LEMMA SizesExist ==
  ASSUME NEW D, NEW F, Sized(args, D, F)
  PROVE  \E Q, T, C, E, G, N : Sizes(D, F, Q, T, C, E, G, N)
<1>1. PICK Q \in Nat \ {0}, T \in Nat \ {0}, C \in Nat \ {0}, E \in Nat \ {0} :
        Q = args.P /\ T = args.T /\ C = args.C /\ E = args.E
  BY DEF Sized
<1>2. /\ D \in Nat \ {0} /\ F \in Nat \ {0} /\ D = F * E /\ DataSize(args) = D
      /\ NumPipelines(args) = D * (C * T) /\ args.world = Q * (D * (C * T))
  BY <1>1 DEF Sized
<1>3. PICK G \in Nat \ {0} : G = D * C
  BY <1>2, TimesPositive
<1>4. PICK N \in Nat \ {0} : N = G * T
  BY TimesPositive
<1>5. N = D * (C * T)
  <2>1. (D * C) * T = D * (C * T)
    BY <1>2
  <2>. QED BY <1>3, <1>4, <2>1
<1>6. Sizes(D, F, Q, T, C, E, G, N)
  BY <1>1, <1>2, <1>3, <1>4, <1>5 DEF Sizes
<1>. QED BY <1>6

(* The coordinates of a rank.                                                    *)
Spot(r, G) ==
  /\ r \in Nat /\ Place(r, PipelineRank(r), Shard(r), TensorRank(r))
  /\ PipelineRank(r) \in 0 .. args.P - 1 /\ Shard(r) \in 0 .. G - 1 /\ TensorRank(r) \in 0 .. args.T - 1
  /\ TensorSize(r) = args.T /\ PipelineSize(r) = args.P
  /\ PipelineRank(r) = r \div NumPipelines(args) /\ TensorRank(r) = r % args.T
  /\ PipelineRank(r) = (r \div args.T) \div G /\ Shard(r) = (r \div args.T) % G
  /\ r = PipelineRank(r) * NumPipelines(args) + (r % NumPipelines(args))
  /\ r % NumPipelines(args) \in 0 .. NumPipelines(args) - 1

LEMMA Spots ==
  ASSUME Ready, NEW D, NEW F, Sized(args, D, F), NEW r \in Rank
  PROVE  Spot(r, D * args.C)
<1>1. PICK Q, T, C, E, G, N : Sizes(D, F, Q, T, C, E, G, N)
  BY SizesExist
<1>2. /\ D \in Nat \ {0} /\ Q \in Nat \ {0} /\ T \in Nat \ {0} /\ G \in Nat \ {0} /\ N \in Nat \ {0}
      /\ Q = args.P /\ T = args.T /\ G = D * args.C /\ N = G * T
      /\ N = NumPipelines(args) /\ args.world = Q * N
  BY <1>1 DEF Sizes
<1>3. Gets(r, N)
  BY <1>2, Getters
<1>4. r \in Nat /\ r \in 0 .. Q * N - 1
  <2>1. PICK W \in Nat \ {0} : W = Q * N /\ W = args.world
    BY <1>2, TimesPositive
  <2>2. r \in 0 .. W - 1
    BY <2>1 DEF Rank
  <2>. QED BY <2>1, <2>2
<1>5. r \div N \in 0 .. Q - 1
  BY ONLY <1>2, <1>4, QuotientBounds
<1>6. r % T \in 0 .. T - 1 /\ r % N \in 0 .. N - 1 /\ r = (r \div N) * N + (r % N)
  <2>1. r \in Int
    BY <1>4
  <2>2. r % T \in 0 .. T - 1
    BY ONLY <1>2, <2>1, Division
  <2>3. r % N \in 0 .. N - 1 /\ r = (r \div N) * N + (r % N)
    BY ONLY <1>2, <2>1, Division
  <2>. QED BY <2>2, <2>3
<1>7. NestedDivision(r, G, T)
  BY <1>2, <1>4, DivisionsNest
<1>8. (r % N) \div T \in 0 .. G - 1
  <2>1. r % N \in 0 .. G * T - 1
    BY <1>2, <1>6
  <2>. QED BY ONLY <1>2, <2>1, QuotientBounds
<1>. QED BY <1>2, <1>3, <1>4, <1>5, <1>6, <1>7, <1>8 DEF Spot, Place, Gets, Shard, NestedDivision

(* The groups over which the data are divided.                                   *)
DataMembers(r, G) ==
  /\ Len(Group(r, "dp_cp")) = G /\ DOMAIN Group(r, "dp_cp") = 1 .. G
  /\ \A n \in 1 .. G : Place(Group(r, "dp_cp")[n], PipelineRank(r), n - 1, TensorRank(r))

LEMMA DataGroupHas ==
  ASSUME Ready, NEW D, NEW F, Sized(args, D, F), NEW r \in Rank
  PROVE  DataMembers(r, D * args.C) /\ Len(Group(r, "dp")) = D
<1>1. PICK Q, T, C, E, G, N : Sizes(D, F, Q, T, C, E, G, N)
  BY SizesExist
<1>2. /\ D \in Nat \ {0} /\ Q \in Nat \ {0} /\ T \in Nat \ {0} /\ C \in Nat \ {0} /\ G \in Nat \ {0} /\ N \in Nat \ {0}
      /\ Q = args.P /\ T = args.T /\ C = args.C /\ G = D * C /\ N = G * T /\ N = NumPipelines(args)
  BY <1>1 DEF Sizes
<1>3. GroupsAre(r) /\ \A x \in Rank : Spot(x, G)
  BY <1>2, GroupsOfRank, Spots
<1>4. Group(r, "dp_cp") = Part(N, T, r) /\ Group(r, "dp") = Part(N, C * T, r)
  BY <1>2, <1>3 DEF GroupsAre
<1>5. Divides(T, N) /\ N \div T = G
  <2>1. Divides(T, G * T) /\ (G * T) \div T = G
    BY <1>2, TimesDivides
  <2>. QED BY <1>2, <2>1
<1>6. r \in Nat /\ PartSound(N, T, r)
  BY <1>3, <1>5, PartIs DEF Spot
<1>7. Len(Part(N, T, r)) = G /\ DOMAIN Part(N, T, r) = 1 .. G
  BY <1>5, <1>6 DEF PartSound, Part
<1>8. ASSUME NEW n \in 1 .. G PROVE Place(Group(r, "dp_cp")[n], PipelineRank(r), n - 1, TensorRank(r))
  <2>1. "dp_cp" \in GroupNames /\ n \in DOMAIN Group(r, "dp_cp")
    BY <1>4, <1>7 DEF GroupNames
  <2>2. Group(r, "dp_cp")[n] \in Rank
    BY <2>1, Members
  <2>3. PICK x \in Rank : x = Part(N, T, r)[n] /\ x = Group(r, "dp_cp")[n]
    BY <1>4, <2>2
  <2>4. x \div N = r \div N /\ x % T = r % T /\ (x % N) \div T = n - 1
    <3>1. n \in 1 .. N \div T
      BY <1>5
    <3>2. /\ Part(N, T, r)[n] \div N = r \div N /\ Part(N, T, r)[n] % T = r % T
          /\ (Part(N, T, r)[n] % N) \div T = n - 1
      BY ONLY <1>6, <3>1 DEF PartSound
    <3>. QED BY ONLY <2>3, <3>2
  <2>5. Spot(x, G) /\ Spot(r, G)
    BY <1>3
  <2>. QED BY <1>2, <2>3, <2>4, <2>5 DEF Spot, Place, Shard
<1>9. Len(Group(r, "dp")) = D
  <2>1. PICK H \in Nat \ {0} : H = C * T
    BY <1>2, TimesPositive
  <2>2. N = D * H
    <3>1. (D * C) * T = D * (C * T)
      BY <1>2
    <3>. QED BY <1>2, <2>1, <3>1
  <2>3. Divides(H, N) /\ N \div H = D
    <3>1. Divides(H, D * H) /\ (D * H) \div H = D
      BY <1>2, TimesDivides
    <3>. QED BY <2>2, <3>1
  <2>4. PartSound(N, H, r)
    BY <1>6, <2>3, PartIs
  <2>. QED BY <1>4, <2>1, <2>3, <2>4 DEF PartSound
<1>. QED BY <1>2, <1>4, <1>7, <1>8, <1>9 DEF DataMembers

(* The tensor-parallel group.                                                    *)
TensorMembers(r) ==
  /\ Len(Group(r, "tp")) = args.T /\ DOMAIN Group(r, "tp") = 1 .. args.T
  /\ \A n \in 1 .. args.T : Place(Group(r, "tp")[n], PipelineRank(r), Shard(r), n - 1)

LEMMA TensorGroupHas ==
  ASSUME Ready, NEW D, NEW F, Sized(args, D, F), NEW r \in Rank
  PROVE  TensorMembers(r)
<1>1. PICK Q, T, C, E, G, N : Sizes(D, F, Q, T, C, E, G, N)
  BY SizesExist
<1>2. T \in Nat \ {0} /\ G \in Nat \ {0} /\ T = args.T /\ G = D * args.C
  BY <1>1 DEF Sizes
<1>3. GroupsAre(r) /\ \A x \in Rank : Spot(x, G)
  BY <1>2, GroupsOfRank, Spots
<1>4. Group(r, "tp") = Part(T, 1, r)
  BY <1>2, <1>3 DEF GroupsAre
<1>5. Divides(1, T) /\ T \div 1 = T
  <2>1. T \in Nat \ {0} /\ 1 \in Nat \ {0}
    BY <1>2
  <2>2. Divides(1, T * 1) /\ (T * 1) \div 1 = T
    BY ONLY <2>1, TimesDivides
  <2>3. T * 1 = T
    BY <2>1
  <2>. QED BY <2>2, <2>3
<1>6. r \in Nat /\ PartSound(T, 1, r)
  BY <1>3, <1>5, PartIs DEF Spot
<1>7. Len(Part(T, 1, r)) = T /\ DOMAIN Part(T, 1, r) = 1 .. T
  BY <1>5, <1>6 DEF PartSound, Part
<1>8. ASSUME NEW n \in 1 .. T PROVE Place(Group(r, "tp")[n], PipelineRank(r), Shard(r), n - 1)
  <2>1. "tp" \in GroupNames /\ n \in DOMAIN Group(r, "tp")
    BY <1>4, <1>7 DEF GroupNames
  <2>2. Group(r, "tp")[n] \in Rank
    BY <2>1, Members
  <2>3. PICK x \in Rank : x = Part(T, 1, r)[n] /\ x = Group(r, "tp")[n]
    BY <1>4, <2>2
  <2>4. x \div T = r \div T /\ (x % T) \div 1 = n - 1
    <3>1. n \in 1 .. T \div 1
      BY <1>5
    <3>2. Part(T, 1, r)[n] \div T = r \div T /\ (Part(T, 1, r)[n] % T) \div 1 = n - 1
      BY ONLY <1>6, <3>1 DEF PartSound
    <3>. QED BY ONLY <2>3, <3>2
  <2>5. Spot(x, G) /\ Spot(r, G)
    BY <1>3
  <2>6. x % T = n - 1
    <3>1. \A y \in Nat : y \div 1 = y
      OBVIOUS
    <3>2. x % T \in Nat
      BY <1>2, <2>5 DEF Spot
    <3>. QED BY <2>4, <3>1, <3>2
  <2>. QED BY <1>2, <2>3, <2>4, <2>5, <2>6 DEF Spot, Place
<1>. QED BY <1>2, <1>4, <1>7, <1>8 DEF TensorMembers

(* The tensor and expert parallel group: the experts of E such groups in turn.   *)
ExpertPlace(x, r, n) ==
  /\ x \in Rank /\ PipelineRank(x) = PipelineRank(r)
  /\ Shard(x) \div args.E = Shard(r) \div args.E
  /\ Shard(x) % args.E = (n - 1) \div args.T /\ TensorRank(x) = (n - 1) % args.T

ExpertMembers(r) ==
  /\ Len(Group(r, "exp")) = args.E * args.T /\ DOMAIN Group(r, "exp") = 1 .. args.E * args.T
  /\ \A n \in 1 .. args.E * args.T : ExpertPlace(Group(r, "exp")[n], r, n)
  /\ ExpertRank(r) = Shard(r) % args.E

LEMMA ExpertGroupHas ==
  ASSUME Ready, NEW D, NEW F, Sized(args, D, F), NEW r \in Rank
  PROVE  ExpertMembers(r)
<1>1. PICK Q, T, C, E, G, N : Sizes(D, F, Q, T, C, E, G, N)
  BY SizesExist
<1>2. /\ D \in Nat \ {0} /\ F \in Nat \ {0} /\ T \in Nat \ {0} /\ C \in Nat \ {0} /\ E \in Nat \ {0} /\ G \in Nat \ {0}
      /\ T = args.T /\ C = args.C /\ E = args.E /\ D = F * E /\ G = D * C
  BY <1>1 DEF Sizes
<1>3. GroupsAre(r) /\ \A x \in Rank : Spot(x, G)
  BY <1>2, GroupsOfRank, Spots
<1>4. PICK B \in Nat \ {0} : B = E * T /\ B = T * E
  <2>1. E \in Nat \ {0} /\ T \in Nat \ {0}
    BY <1>2
  <2>2. E * T \in Nat \ {0} /\ E * T = T * E
    BY ONLY <2>1, TimesPositive
  <2>. QED BY <2>2
<1>5. PICK H \in Nat \ {0} : H = F * C /\ G = H * E
  <2>1. F \in Nat \ {0} /\ C \in Nat \ {0} /\ E \in Nat \ {0}
    BY <1>2
  <2>2. F * C \in Nat \ {0}
    BY ONLY <2>1, TimesPositive
  <2>3. (F * E) * C = (F * C) * E
    BY ONLY <2>1
  <2>. QED BY <1>2, <2>2, <2>3
<1>6. Group(r, "exp") = Part(B, 1, r)
  BY <1>2, <1>3, <1>4 DEF GroupsAre
<1>7. Divides(1, B) /\ B \div 1 = B
  <2>1. Divides(1, B * 1) /\ (B * 1) \div 1 = B
    BY TimesDivides
  <2>. QED BY <2>1
<1>8. r \in Nat /\ PartSound(B, 1, r)
  BY <1>3, <1>7, PartIs DEF Spot
<1>9. Len(Part(B, 1, r)) = B /\ DOMAIN Part(B, 1, r) = 1 .. B
  BY <1>7, <1>8 DEF PartSound, Part
<1>10. ASSUME NEW x \in Rank
       PROVE  /\ Shard(x) \div E = (x \div B) % H /\ Shard(x) % E = (x % B) \div T
              /\ PipelineRank(x) = (x \div B) \div H /\ TensorRank(x) = (x % B) % T
  <2>1. x \in Nat /\ Shard(x) = (x \div T) % G /\ PipelineRank(x) = (x \div T) \div G /\ TensorRank(x) = x % T
    BY <1>2, <1>3 DEF Spot
  <2>2. PICK z \in Nat : z = x \div T
    <3>1. Divides(T, T * T) /\ T \in Nat \ {0}
      BY <1>2, TimesDivides
    <3>2. x \div T \in Nat
      BY <2>1, <3>1, Below
    <3>. QED BY <3>2
  <2>3. NestedDivision(z, H, E)
    BY <1>2, DivisionsNest
  <2>4. NestedDivision(x, E, T)
    BY <1>2, <2>1, DivisionsNest
  <2>. QED BY <1>4, <1>5, <2>1, <2>2, <2>3, <2>4 DEF NestedDivision
<1>11. ASSUME NEW n \in 1 .. B PROVE ExpertPlace(Group(r, "exp")[n], r, n)
  <2>1. "exp" \in GroupNames /\ n \in DOMAIN Group(r, "exp")
    BY <1>6, <1>9 DEF GroupNames
  <2>2. Group(r, "exp")[n] \in Rank
    BY <2>1, Members
  <2>3. PICK x \in Rank : x = Part(B, 1, r)[n] /\ x = Group(r, "exp")[n]
    BY <1>6, <2>2
  <2>4. x \div B = r \div B /\ (x % B) \div 1 = n - 1
    <3>1. n \in 1 .. B \div 1
      BY <1>7
    <3>2. Part(B, 1, r)[n] \div B = r \div B /\ (Part(B, 1, r)[n] % B) \div 1 = n - 1
      BY ONLY <1>8, <3>1 DEF PartSound
    <3>. QED BY ONLY <2>3, <3>2
  <2>5. x % B = n - 1
    <3>1. \A y \in Nat : y \div 1 = y
      OBVIOUS
    <3>2. x \in Int
      BY <1>3 DEF Spot
    <3>3. x % B \in 0 .. B - 1
      BY ONLY <3>2, B \in Nat \ {0}, Division
    <3>. QED BY <2>4, <3>1, <3>3
  <2>. QED BY <1>2, <1>10, <2>3, <2>4, <2>5 DEF ExpertPlace
<1>12. ExpertRank(r) = Shard(r) % E
  <2>1. Nested(args.world, B, 1) /\ r \in 0 .. args.world - 1
    BY <1>2, <1>4, ExpertsAre DEF Rank
  <2>2. InPlace(B, 1, r, "exp")
    BY <1>6, <2>1, RankOf
  <2>3. (r % B) \div 1 = r % B
    <3>1. \A y \in Nat : y \div 1 = y
      OBVIOUS
    <3>2. r \in Int
      BY <1>8
    <3>3. r % B \in 0 .. B - 1
      BY ONLY <3>2, B \in Nat \ {0}, Division
    <3>. QED BY <3>1, <3>3
  <2>4. TensorSize(r) = T
    BY <1>2, <1>3 DEF Spot
  <2>. QED BY <1>10, <2>2, <2>3, <2>4 DEF ExpertRank, InPlace
<1>. QED BY <1>2, <1>4, <1>6, <1>9, <1>11, <1>12 DEF ExpertMembers

(* The ranks that hold the same experts: one of every group of E shards.  Only    *)
(* without context parallelism do these stay on one stage.                       *)
CopyPlace(x, r, n) ==
  /\ x \in Rank /\ PipelineRank(x) = PipelineRank(r) /\ TensorRank(x) = TensorRank(r)
  /\ Shard(x) \div args.E = n - 1 /\ Shard(x) % args.E = Shard(r) % args.E

CopyMembers(r, F) ==
  /\ Len(Group(r, "dp_mod_exp")) = F /\ DOMAIN Group(r, "dp_mod_exp") = 1 .. F
  /\ \A n \in 1 .. F : CopyPlace(Group(r, "dp_mod_exp")[n], r, n)

LEMMA CopyGroupHas ==
  ASSUME Ready, NEW D, NEW F, Sized(args, D, F), NEW r \in Rank, args.C = 1
  PROVE  CopyMembers(r, F)
<1>1. PICK Q, T, C, E, G, N : Sizes(D, F, Q, T, C, E, G, N)
  BY SizesExist
<1>2. /\ D \in Nat \ {0} /\ F \in Nat \ {0} /\ T \in Nat \ {0} /\ E \in Nat \ {0} /\ N \in Nat \ {0}
      /\ T = args.T /\ E = args.E /\ D = F * E /\ D * args.C = D /\ N = D * T /\ N = NumPipelines(args)
      /\ DataSize(args) = D
  <2>1. D \in Nat \ {0} /\ C = 1 /\ D * args.C = D * C /\ G = D * C
    BY <1>1 DEF Sizes
  <2>2. D * 1 = D
    BY <2>1
  <2>. QED BY <1>1, <2>1, <2>2 DEF Sizes
<1>3. GroupsAre(r) /\ \A x \in Rank : Spot(x, D)
  BY <1>2, GroupsOfRank, Spots
<1>4. PICK B \in Nat \ {0} : B = E * T /\ B = T * E
  <2>1. E \in Nat \ {0} /\ T \in Nat \ {0}
    BY <1>2
  <2>2. E * T \in Nat \ {0} /\ E * T = T * E
    BY ONLY <2>1, TimesPositive
  <2>. QED BY <2>2
<1>5. N = F * B /\ N = T * D
  <2>1. F \in Nat \ {0} /\ T \in Nat \ {0} /\ E \in Nat \ {0} /\ D \in Nat \ {0}
    BY <1>2
  <2>2. (F * E) * T = F * (E * T) /\ D * T = T * D
    BY ONLY <2>1
  <2>. QED BY <1>2, <1>4, <2>2
<1>6. Group(r, "dp_mod_exp") = Part(N, B, r)
  BY <1>2, <1>3, <1>4, <1>5 DEF GroupsAre
<1>7. Divides(B, N) /\ N \div B = F
  <2>1. F \in Nat \ {0} /\ B \in Nat \ {0}
    BY <1>2
  <2>2. Divides(B, F * B) /\ (F * B) \div B = F
    BY ONLY <2>1, TimesDivides
  <2>. QED BY <1>5, <2>2
<1>8. r \in Nat /\ PartSound(N, B, r)
  BY <1>3, <1>7, PartIs DEF Spot
<1>9. Len(Part(N, B, r)) = F /\ DOMAIN Part(N, B, r) = 1 .. F
  BY <1>7, <1>8 DEF PartSound, Part
<1>10. ASSUME NEW x \in Rank
       PROVE  /\ Shard(x) \div E = (x % N) \div B /\ Shard(x) % E = (x % B) \div T
              /\ PipelineRank(x) = x \div N /\ TensorRank(x) = (x % B) % T
  <2>1. /\ x \in Nat /\ x % N \in Nat
        /\ Shard(x) = (x \div T) % D /\ PipelineRank(x) = x \div N /\ TensorRank(x) = x % T
    BY <1>2, <1>3 DEF Spot
  <2>2. PICK y \in Nat : y = x % N /\ Shard(x) = y \div T
    BY <1>2, <2>1 DEF Shard
  <2>3. PICK z \in Nat : z = x \div T
    <3>1. Divides(T, T * T) /\ T \in Nat \ {0}
      BY <1>2, TimesDivides
    <3>2. x \div T \in Nat
      BY <2>1, <3>1, Below
    <3>. QED BY <3>2
  <2>4. NestedDivision(y, E, T)
    BY <1>2, <2>2, DivisionsNest
  <2>5. NestedDivision(x, E, T)
    BY <1>2, <2>1, DivisionsNest
  <2>6. NestedDivision(z, F, E)
    BY <1>2, <2>3, DivisionsNest
  <2>7. Shard(x) \div E = y \div B
    BY <1>4, <2>2, <2>4 DEF NestedDivision
  <2>8. Shard(x) % E = z % E
    BY <1>2, <2>1, <2>3, <2>6 DEF NestedDivision
  <2>9. (x % B) \div T = z % E /\ (x % B) % T = x % T
    BY <1>4, <2>3, <2>5 DEF NestedDivision
  <2>. QED BY <2>1, <2>2, <2>7, <2>8, <2>9
<1>11. ASSUME NEW n \in 1 .. F PROVE CopyPlace(Group(r, "dp_mod_exp")[n], r, n)
  <2>1. "dp_mod_exp" \in GroupNames /\ n \in DOMAIN Group(r, "dp_mod_exp")
    BY <1>6, <1>9 DEF GroupNames
  <2>2. Group(r, "dp_mod_exp")[n] \in Rank
    BY <2>1, Members
  <2>3. PICK x \in Rank : x = Part(N, B, r)[n] /\ x = Group(r, "dp_mod_exp")[n]
    BY <1>6, <2>2
  <2>4. x \div N = r \div N /\ x % B = r % B /\ (x % N) \div B = n - 1
    <3>1. n \in 1 .. N \div B
      BY <1>7
    <3>2. /\ Part(N, B, r)[n] \div N = r \div N /\ Part(N, B, r)[n] % B = r % B
          /\ (Part(N, B, r)[n] % N) \div B = n - 1
      BY ONLY <1>8, <3>1 DEF PartSound
    <3>. QED BY ONLY <2>3, <3>2
  <2>. QED BY <1>2, <1>10, <2>3, <2>4 DEF CopyPlace
<1>. QED BY <1>2, <1>6, <1>9, <1>11 DEF CopyMembers

(* The pipeline.                                                                 *)
PipelineMembers(r) ==
  /\ Group(r, "pp") = Part(args.world, NumPipelines(args), r)
  /\ Len(Group(r, "pp")) = args.P /\ DOMAIN Group(r, "pp") = 1 .. args.P
  /\ \A n \in 1 .. args.P : Place(Group(r, "pp")[n], n - 1, Shard(r), TensorRank(r))
  /\ Group(r, "pp")[PipelineRank(r) + 1] = r

LEMMA PipelineGroupHas ==
  ASSUME Ready, NEW D, NEW F, Sized(args, D, F), NEW r \in Rank
  PROVE  PipelineMembers(r)
<1>1. PICK Q, T, C, E, G, N : Sizes(D, F, Q, T, C, E, G, N)
  BY SizesExist
<1>2. /\ Q \in Nat \ {0} /\ T \in Nat \ {0} /\ G \in Nat \ {0} /\ N \in Nat \ {0}
      /\ Q = args.P /\ T = args.T /\ G = D * args.C /\ N = G * T /\ N = NumPipelines(args)
      /\ args.world = Q * N
  BY <1>1 DEF Sizes
<1>3. GroupsAre(r) /\ \A x \in Rank : Spot(x, G)
  BY <1>2, GroupsOfRank, Spots
<1>4. PICK W \in Nat \ {0} : W = args.world /\ W = Q * N
  BY <1>2, TimesPositive
<1>5. Group(r, "pp") = Part(W, N, r)
  BY <1>2, <1>3, <1>4 DEF GroupsAre
<1>6. Divides(N, W) /\ W \div N = Q
  <2>1. Divides(N, Q * N) /\ (Q * N) \div N = Q
    BY <1>2, TimesDivides
  <2>. QED BY <1>4, <2>1
<1>7. r \in Nat /\ PartSound(W, N, r)
  BY <1>3, <1>6, PartIs DEF Spot
<1>8. Len(Part(W, N, r)) = Q /\ DOMAIN Part(W, N, r) = 1 .. Q
  BY <1>6, <1>7 DEF PartSound, Part
<1>9. ASSUME NEW x \in Rank PROVE x % W = x /\ x \in Nat
  <2>1. x \in 0 .. W - 1 /\ 0 \in Int /\ x = 0 * W + x
    BY <1>4 DEF Rank
  <2>. QED BY ONLY W \in Nat \ {0}, <2>1, DivisionIs
<1>10. ASSUME NEW n \in 1 .. Q PROVE Place(Group(r, "pp")[n], n - 1, Shard(r), TensorRank(r))
  <2>1. "pp" \in GroupNames /\ n \in DOMAIN Group(r, "pp")
    BY <1>5, <1>8 DEF GroupNames
  <2>2. Group(r, "pp")[n] \in Rank
    BY <2>1, Members
  <2>3. PICK x \in Rank : x = Part(W, N, r)[n] /\ x = Group(r, "pp")[n]
    BY <1>5, <2>2
  <2>4. x % N = r % N /\ (x % W) \div N = n - 1
    <3>1. n \in 1 .. W \div N
      BY <1>6
    <3>2. Part(W, N, r)[n] % N = r % N /\ (Part(W, N, r)[n] % W) \div N = n - 1
      BY ONLY <1>7, <3>1 DEF PartSound
    <3>. QED BY ONLY <2>3, <3>2
  <2>5. Spot(x, G) /\ Spot(r, G)
    BY <1>3
  <2>6. NestedDivision(x, G, T) /\ NestedDivision(r, G, T)
    BY <1>2, <1>7, <1>9, DivisionsNest
  <2>. QED BY <1>2, <1>9, <2>3, <2>4, <2>5, <2>6 DEF Spot, Place, Shard, NestedDivision
<1>11. Group(r, "pp")[PipelineRank(r) + 1] = r
  <2>1. (r % W) \div N = PipelineRank(r)
    BY <1>2, <1>3, <1>9 DEF Spot
  <2>. QED BY <1>5, <1>7, <2>1 DEF PartSound
<1>. QED BY <1>2, <1>4, <1>5, <1>8, <1>10, <1>11 DEF PipelineMembers

(* The shard that reads a piece: context parallelism folds the sequence, so that   *)
(* a rank has a chunk of its first half and the opposite one of its second.       *)
Home(p) == p[1] * args.C + (IF p[2] < args.C THEN p[2] ELSE 2 * args.C - p[2] - 1)

ReadBy(j) == {p \in Pieces(args) : Home(p) = j}

LEMMA Homes ==
  ASSUME Ready, NEW D, NEW F, Sized(args, D, F)
  PROVE  /\ \A p \in Pieces(args) : Home(p) \in 0 .. D * args.C - 1
         /\ \A r \in Rank : LocalSequence(r) = ReadBy(Shard(r))
<1>1. PICK Q, T, C, E, G, N : Sizes(D, F, Q, T, C, E, G, N)
  BY SizesExist
<1>2. /\ D \in Nat \ {0} /\ Q \in Nat \ {0} /\ T \in Nat \ {0} /\ C \in Nat \ {0} /\ G \in Nat \ {0} /\ N \in Nat \ {0}
      /\ Q = args.P /\ T = args.T /\ C = args.C /\ G = D * C /\ N = G * T /\ N = NumPipelines(args)
      /\ DataSize(args) = D
  BY <1>1 DEF Sizes
<1>3. Pieces(args) = (0 .. D - 1) \X (0 .. 2 * C - 1) \X (0 .. T - 1)
  BY <1>2 DEF Pieces
<1>. DEFINE Fold(c) == IF c < C THEN c ELSE 2 * C - c - 1
<1>4. \A p \in Pieces(args) :
        /\ p[1] \in 0 .. D - 1 /\ p[2] \in 0 .. 2 * C - 1 /\ p[3] \in 0 .. T - 1 /\ p = <<p[1], p[2], p[3]>>
        /\ Fold(p[2]) \in 0 .. C - 1 /\ Home(p) = p[1] * C + Fold(p[2])
  <2>1. ASSUME NEW p \in Pieces(args)
        PROVE  p[1] \in 0 .. D - 1 /\ p[2] \in 0 .. 2 * C - 1 /\ p[3] \in 0 .. T - 1 /\ p = <<p[1], p[2], p[3]>>
    BY <1>3
  <2>2. ASSUME NEW c \in 0 .. 2 * C - 1 PROVE Fold(c) \in 0 .. C - 1
    BY <1>2
  <2>3. \A p : Home(p) = p[1] * C + Fold(p[2])
    BY <1>2 DEF Home
  <2>. QED BY <2>1, <2>2, <2>3
<1>5. ASSUME NEW p \in Pieces(args)
      PROVE  Home(p) \in 0 .. G - 1 /\ Home(p) \div C = p[1] /\ Home(p) % C = Fold(p[2])
  <2>1. PICK d \in 0 .. D - 1, f \in 0 .. C - 1 : d = p[1] /\ f = Fold(p[2]) /\ Home(p) = d * C + f
    BY <1>4
  <2>2. d * C + f \in 0 .. D * C - 1
    BY <1>2, Numbering
  <2>3. PICK h \in Int : h = d * C + f /\ h = Home(p)
    BY <2>1, <2>2
  <2>4. d \in Int /\ C \in Nat \ {0}
    BY <1>2
  <2>5. h \div C = d /\ h % C = f
    BY ONLY <2>4, f \in 0 .. C - 1, <2>3, DivisionIs
  <2>. QED BY <1>2, <2>1, <2>2, <2>3, <2>5
<1>6. ASSUME NEW r \in Rank
      PROVE  LocalSequence(r) = {Shard(r) \div C}
               \X {Shard(r) % C, 2 * C - (Shard(r) % C) - 1} \X (0 .. T - 1)
  <2>1. /\ PipelineRank(r) \in 0 .. Q - 1 /\ r % N \in 0 .. N - 1 /\ r = PipelineRank(r) * N + (r % N)
        /\ Shard(r) \in 0 .. G - 1
    <3>1. Spot(r, G)
      BY <1>2, Spots
    <3>. QED BY <1>2, <3>1 DEF Spot
  <2>2. PICK q \in 0 .. Q - 1, y \in 0 .. N - 1 : q = PipelineRank(r) /\ y = r % N /\ r = q * N + y
    BY <2>1
  <2>3. Stage(q * N + y, q, y, N)
    BY <1>2, Stages
  <2>4. LocalSequence(r) = Read(y)
    BY <2>2, <2>3 DEF Stage
  <2>5. PICK j \in Nat : j = Shard(r) /\ j = y \div T
    BY <1>2, <2>1, <2>2 DEF Shard
  <2>6. (j * T) \div (C * T) = j \div C
    <3>1. PICK x \in Nat : x = j * T
      BY <1>2
    <3>2. x \div T = j
      <4>1. T \in Nat \ {0} /\ j \in Int /\ x = j * T + 0 /\ 0 \in 0 .. T - 1
        BY <1>2, <3>1
      <4>. QED BY ONLY <4>1, DivisionIs
    <3>3. NestedDivision(x, C, T)
      BY <1>2, DivisionsNest
    <3>. QED BY <3>1, <3>2, <3>3 DEF NestedDivision
  <2>7. (y % (T * C)) \div T = j % C
    <3>1. NestedDivision(y, C, T)
      BY <1>2, DivisionsNest
    <3>2. T * C = C * T
      BY <1>2
    <3>. QED BY <2>5, <3>1, <3>2 DEF NestedDivision
  <2>. QED BY <1>2, <2>4, <2>5, <2>6, <2>7 DEF Read
<1>7. ASSUME NEW r \in Rank PROVE LocalSequence(r) = ReadBy(Shard(r))
  <2>1. PICK j \in Nat : j = Shard(r) /\ j \in 0 .. G - 1
    <3>1. Spot(r, G)
      BY <1>2, Spots
    <3>. QED BY <3>1 DEF Spot
  <2>2. PICK d \in 0 .. D - 1, f \in 0 .. C - 1 : d = j \div C /\ f = j % C /\ j = d * C + f
    <3>1. j \div C \in 0 .. D - 1
      <4>1. j \in 0 .. D * C - 1
        BY <1>2, <2>1
      <4>. QED BY ONLY <1>2, <4>1, QuotientBounds
    <3>2. j \in Int
      OBVIOUS
    <3>3. j % C \in 0 .. C - 1 /\ j = (j \div C) * C + (j % C)
      BY ONLY <1>2, <3>2, Division
    <3>. QED BY <3>1, <3>3
  <2>3. LocalSequence(r) = {d} \X {f, 2 * C - f - 1} \X (0 .. T - 1)
    BY <1>6, <2>1, <2>2
  <2>4. ASSUME NEW p \in LocalSequence(r) PROVE p \in ReadBy(j)
    <3>1. p[1] = d /\ p[2] \in {f, 2 * C - f - 1} /\ p[3] \in 0 .. T - 1 /\ p = <<p[1], p[2], p[3]>>
      BY <2>3, <2>4
    <3>2. p[2] \in 0 .. 2 * C - 1 /\ Fold(p[2]) = f
      BY <1>2, <3>1
    <3>3. p \in Pieces(args)
      BY <1>3, <3>1, <3>2
    <3>4. Home(p) = d * C + f
      BY <1>4, <3>1, <3>2, <3>3
    <3>. QED BY <2>2, <3>3, <3>4 DEF ReadBy
  <2>5. ASSUME NEW p \in ReadBy(j) PROVE p \in LocalSequence(r)
    <3>1. p \in Pieces(args) /\ Home(p) = j
      BY <2>5 DEF ReadBy
    <3>2. p[1] = d /\ Fold(p[2]) = f
      BY <1>5, <2>2, <3>1
    <3>3. p[2] \in {f, 2 * C - f - 1}
      BY <1>2, <1>4, <3>1, <3>2
    <3>4. p[3] \in 0 .. T - 1 /\ p = <<p[1], p[2], p[3]>>
      BY <1>4, <3>1
    <3>. QED BY <2>3, <3>2, <3>3, <3>4
  <2>. QED BY <2>1, <2>4, <2>5
<1>. QED BY <1>2, <1>5, <1>7

-------------------------------------------------------------------------------
(* What the ranks of a stage have in common                                      *)

Shape ==
  /\ args.sp \in BOOLEAN /\ args.t5 \in BOOLEAN /\ NumChunks \in Nat \ {0}
  /\ (args.split # None) <=> (args.t5 /\ args.P > 1)
  /\ args.split # None => args.split \in 1 .. args.P - 1
  /\ args.E > 1 => args.C = 1
  /\ args.T = 1 => ~args.sp
  /\ args.E > 1 /\ args.T > 1 => args.sp

LEMMA Shaped == ASSUME Ready PROVE Shape
<1>1. PICK W \in Worlds : args \in Requests(W) /\ Accepted(args)
  BY DEF Ready, Inv, Request
<1>2. /\ args.sp \in BOOLEAN /\ args.t5 \in BOOLEAN /\ args.V \in {None, 2} /\ args.P \in 1 .. MaxPipeline
      /\ args.split \in {None} \cup 1 .. MaxPipeline - 1
  BY <1>1 DEF Requests
<1>3. /\ (args.split # None) = (args.t5 /\ args.P > 1)
      /\ args.split # None => args.split < args.P
      /\ ~(args.E > 1 /\ args.C > 1)
      /\ args.E > 1 /\ args.T > 1 => args.sp
      /\ args.T = 1 => ~args.sp
  BY <1>1 DEF Accepted
<1>4. args.C \in {1, 2, 4} /\ MaxPipeline \in Nat
  BY <1>1, SizesAssumption DEF Requests
<1>5. NumChunks \in Nat \ {0}
  BY <1>2 DEF NumChunks, None
<1>6. args.split # None => args.split \in 1 .. args.P - 1
  BY <1>2, <1>3, <1>4
<1>7. args.E > 1 => args.C = 1
  BY <1>3, <1>4
<1>. QED BY <1>2, <1>3, <1>5, <1>6, <1>7 DEF Shape

Alike(r, m) ==
  /\ model[r] = model[m] /\ AllLayers(r) = AllLayers(m) /\ HasInput(r) = HasInput(m) /\ HasHead(r) = HasHead(m)
  /\ InputUses(r) = InputUses(m) /\ WordUses(r) = WordUses(m) /\ Kept(r) = Kept(m)

LEMMA StagesAlike ==
  ASSUME Ready, NEW D, NEW F, Sized(args, D, F), NEW r \in Rank, NEW m \in Rank,
         PipelineRank(r) = PipelineRank(m)
  PROVE  Alike(r, m)
<1>1. \A x \in Rank :
        /\ PipelineSize(x) = args.P /\ mpu[x].virtual = args.V
        /\ args.split # None => mpu[x].split = args.split
        /\ model[x] = [c \in 1 .. NumChunks |-> Chunk(x, c - 1)]
  BY Getters DEF Gets
<1>2. Shape /\ args.P \in Nat \ {0}
  BY Shaped DEF Sized
<1>3. args.t5 => BeforeSplit(r) = BeforeSplit(m) /\ AfterSplit(r) = AfterSplit(m)
  <2>1. CASE args.P > 1
    BY <1>1, <1>2, <2>1 DEF BeforeSplit, AfterSplit, Shape
  <2>2. CASE args.P = 1
    BY <1>1, <2>2 DEF BeforeSplit, AfterSplit
  <2>. QED BY <1>2, <2>1, <2>2
<1>4. NumLayers(r) = NumLayers(m)
  BY <1>1, <1>2, <1>3 DEF NumLayers
<1>5. \A v, stack : ChunkLayers(r, v, stack) = ChunkLayers(m, v, stack)
  BY <1>1, <1>4 DEF ChunkLayers
<1>6. \A v : IsFirstStage(r, v) = IsFirstStage(m, v) /\ IsLastStage(r, v) = IsLastStage(m, v)
  BY <1>1 DEF IsFirstStage, IsLastStage
<1>7. ASSUME NEW v PROVE Chunk(r, v) = Chunk(m, v)
  <2>. DEFINE layers(x) == (IF ~args.t5 \/ BeforeSplit(x) THEN ChunkLayers(x, v, "encoder") ELSE <<>>)
                           \o (IF args.t5 /\ AfterSplit(x) THEN ChunkLayers(x, v, "decoder") ELSE <<>>)
              split == args.t5 /\ args.P > 1
              pre(x) == IsFirstStage(x, v) \/ (split /\ PipelineRank(x) = args.split)
              post(x) == IsLastStage(x, v) \/ (split /\ PipelineRank(x) = args.split - 1)
  <2>1. \A x \in Rank : Chunk(x, v) = [pre |-> pre(x), post |-> post(x), layers |-> layers(x)]
    BY <1>1 DEF Chunk
  <2>2. (~args.t5 \/ BeforeSplit(r)) = (~args.t5 \/ BeforeSplit(m))
    BY <1>2, <1>3
  <2>3. (args.t5 /\ AfterSplit(r)) = (args.t5 /\ AfterSplit(m))
    BY <1>2, <1>3
  <2>4. layers(r) = layers(m)
    BY <1>5, <2>2, <2>3
  <2>5. pre(r) = pre(m) /\ post(r) = post(m)
    BY <1>6
  <2>. HIDE DEF layers, pre, post
  <2>. QED BY <2>1, <2>4, <2>5
<1>8. model[r] = model[m]
  <2>1. [c \in 1 .. NumChunks |-> Chunk(r, c - 1)] = [c \in 1 .. NumChunks |-> Chunk(m, c - 1)]
    BY <1>7, Zenon
  <2>2. /\ model[r] = [c \in 1 .. NumChunks |-> Chunk(r, c - 1)]
        /\ model[m] = [c \in 1 .. NumChunks |-> Chunk(m, c - 1)]
    BY <1>1
  <2>. QED BY ONLY <2>1, <2>2, Zenon
<1>9. AllLayers(r) = AllLayers(m) /\ HasInput(r) = HasInput(m) /\ HasHead(r) = HasHead(m)
  BY <1>6, <1>8 DEF AllLayers, HasInput, HasHead
<1>10. InputUses(r) = InputUses(m)
  BY <1>9 DEF InputUses
<1>. QED BY <1>8, <1>9, <1>10 DEF Alike, WordUses, Kept

(* The stages that hold the ends of the model, and what their embeddings are for. *)
Uses(q) ==
  (IF q = 0 THEN IF args.t5 /\ args.P = 1 THEN {"encoder", "decoder"} ELSE {"encoder"}
   ELSE IF args.split # None /\ q = args.split THEN {"decoder"} ELSE {})
AllUses == IF args.t5 THEN {"encoder", "decoder"} ELSE {"encoder"}

EndsOf(r) ==
  /\ HasInput(r) <=> PipelineRank(r) = 0 \/ (args.split # None /\ PipelineRank(r) = args.split)
  /\ HasHead(r) <=> PipelineRank(r) = args.P - 1
  /\ InputUses(r) = Uses(PipelineRank(r))
  /\ WordUses(r) = Uses(PipelineRank(r)) \cup (IF PipelineRank(r) = args.P - 1 THEN {"head"} ELSE {})

LEMMA Ends ==
  ASSUME Ready, NEW D, NEW F, Sized(args, D, F), NEW r \in Rank
  PROVE  EndsOf(r)
<1>1. /\ PipelineSize(r) = args.P /\ mpu[r].virtual = args.V
      /\ model[r] = [c \in 1 .. NumChunks |-> Chunk(r, c - 1)]
  BY Getters DEF Gets
<1>2. Shape /\ args.P \in Nat \ {0} /\ PipelineRank(r) \in 0 .. args.P - 1
  BY Shaped, Spots DEF Spot, Sized
<1>3. PICK K \in Nat \ {0} : K = NumChunks
  BY <1>2 DEF Shape
<1>4. \A c \in 1 .. K : model[r][c].pre = (IsFirstStage(r, c - 1)
                          \/ (args.t5 /\ args.P > 1 /\ PipelineRank(r) = args.split))
  <2>. SUFFICES ASSUME NEW c \in 1 .. K
                PROVE  model[r][c].pre = (IsFirstStage(r, c - 1)
                          \/ (args.t5 /\ args.P > 1 /\ PipelineRank(r) = args.split))
    OBVIOUS
  <2>1. model[r][c] = Chunk(r, c - 1)
    BY <1>1, <1>3
  <2>2. Chunk(r, c - 1).pre = (IsFirstStage(r, c - 1)
                          \/ (args.t5 /\ PipelineSize(r) > 1 /\ PipelineRank(r) = args.split))
    BY DEF Chunk
  <2>. QED BY <1>1, <2>1, <2>2
<1>5. IsFirstStage(r, 0) <=> PipelineRank(r) = 0
  BY DEF IsFirstStage
<1>6. \A v : IsFirstStage(r, v) => PipelineRank(r) = 0
  BY DEF IsFirstStage
<1>7. HasInput(r) <=> PipelineRank(r) = 0 \/ (args.split # None /\ PipelineRank(r) = args.split)
  <2>1. 1 \in 1 .. K /\ 1 - 1 = 0
    BY <1>3
  <2>2. HasInput(r) <=> \E c \in 1 .. K : model[r][c].pre
    BY <1>3 DEF HasInput
  <2>3. ASSUME PipelineRank(r) = 0 PROVE HasInput(r)
    <3>1. model[r][1].pre = TRUE
      BY <1>4, <1>5, <2>1, <2>3
    <3>. QED BY <2>1, <2>2, <3>1
  <2>4. ASSUME args.split # None, PipelineRank(r) = args.split PROVE HasInput(r)
    <3>1. model[r][1].pre = TRUE
      BY <1>2, <1>4, <2>1, <2>4 DEF Shape
    <3>. QED BY <2>1, <2>2, <3>1
  <2>5. ASSUME HasInput(r) PROVE PipelineRank(r) = 0 \/ (args.split # None /\ PipelineRank(r) = args.split)
    BY <1>2, <1>4, <1>6, <2>2, <2>5 DEF Shape
  <2>. QED BY <2>3, <2>4, <2>5
<1>8. HasHead(r) <=> PipelineRank(r) = args.P - 1
  BY <1>1 DEF HasHead, IsLastStage, NumChunks
<1>9. InputUses(r) = Uses(PipelineRank(r))
  <2>1. CASE PipelineRank(r) = 0
    BY <1>2, <1>7, <2>1 DEF InputUses, Uses, Shape
  <2>2. CASE PipelineRank(r) # 0 /\ args.split # None /\ PipelineRank(r) = args.split
    BY <1>2, <1>7, <2>2 DEF InputUses, Uses, Shape
  <2>3. CASE PipelineRank(r) # 0 /\ ~(args.split # None /\ PipelineRank(r) = args.split)
    <3>1. ~HasInput(r)
      BY <1>7, <2>3
    <3>2. InputUses(r) = {}
      BY <3>1 DEF InputUses
    <3>3. Uses(PipelineRank(r)) = {}
      BY <2>3 DEF Uses
    <3>. QED BY <3>2, <3>3
  <2>. QED BY <2>1, <2>2, <2>3
<1>. QED BY <1>7, <1>8, <1>9 DEF EndsOf, WordUses

-------------------------------------------------------------------------------
(* What the gradients hold                                                       *)

(* The pieces of the batch a gradient has been summed over when ph is done, and  *)
(* the uses of its parameters.                                                   *)
PiecesIn(ph, r, k) ==
  {p \in Pieces(args) :
     /\ ph = "accumulated" /\ ~(k = "expert" /\ args.E > 1) => Home(p) = Shard(r)
     /\ ph \in {"accumulated", "synced"} /\ k = "norm" /\ args.sp => p[3] = TensorRank(r)
     /\ ph # "finalized" /\ k = "expert" /\ args.E > 1 =>
          Home(p) \div args.E = Shard(r) \div args.E}

UsesIn(ph, r, k) ==
  CASE k = "word" -> IF ph \in {"embedding", "finalized"} THEN AllUses \cup {"head"} ELSE WordUses(r)
    [] k = "position" -> IF ph \in {"embedding", "finalized"} THEN AllUses ELSE InputUses(r)
    [] OTHER -> {"layer"}

Contents(ph, r, k) == {Identity(r, k)} \X (UsesIn(ph, r, k) \X PiecesIn(ph, r, k))

Held(ph) == \A r \in Rank : \A k \in Kept(r) : grad[r][k] = SetToBag(Contents(ph, r, k))

(* A reduction over g, or none.                                                  *)
Summed(g, r, k) == IF g = <<>> THEN grad[r][k] ELSE AllReduce(g, k)

(* Gradients that differ in their pieces, and gradients that differ in their uses.*)
Same(n, S) == \A i, j \in 1 .. n : S[i] = S[j]

Varied(n, id, U, V, S) ==
  /\ \A i \in 1 .. n : S[i] = {id} \X (U[i] \X V[i])
  /\ (Same(n, U) /\ Disjoint(n, V)) \/ (Disjoint(n, U) /\ Same(n, V))

LEMMA Products ==
  ASSUME NEW n \in Nat \ {0}, NEW id, NEW U, NEW V, NEW S, Varied(n, id, U, V, S)
  PROVE  Disjoint(n, S) /\ AllOf(n, S) = {id} \X (AllOf(n, U) \X AllOf(n, V))
<1>0. /\ \A i \in 1 .. n : S[i] = {id} \X (U[i] \X V[i])
      /\ (Same(n, U) /\ Disjoint(n, V)) \/ (Disjoint(n, U) /\ Same(n, V))
  BY DEF Varied
<1>1. ASSUME NEW i \in 1 .. n, NEW j \in 1 .. n, i # j PROVE S[i] \cap S[j] = {}
  <2>1. U[i] \cap U[j] = {} \/ V[i] \cap V[j] = {}
    BY <1>0, <1>1 DEF Disjoint, Same
  <2>. QED BY <1>0, <2>1
<1>2. ASSUME NEW x \in AllOf(n, S) PROVE x \in {id} \X (AllOf(n, U) \X AllOf(n, V))
  <2>1. PICK i \in 1 .. n : x \in {id} \X (U[i] \X V[i])
    BY <1>0, <1>2 DEF AllOf
  <2>2. U[i] \subseteq AllOf(n, U) /\ V[i] \subseteq AllOf(n, V)
    BY DEF AllOf
  <2>. QED BY <2>1, <2>2
<1>3. ASSUME NEW x \in {id} \X (AllOf(n, U) \X AllOf(n, V)) PROVE x \in AllOf(n, S)
  <2>1. PICK u \in AllOf(n, U), v \in AllOf(n, V) : x = <<id, <<u, v>>>>
    OBVIOUS
  <2>2. PICK i \in 1 .. n, j \in 1 .. n : u \in U[i] /\ v \in V[j]
    BY <2>1 DEF AllOf
  <2>3. PICK l \in 1 .. n : u \in U[l] /\ v \in V[l]
    BY <1>0, <2>2 DEF Same
  <2>4. x \in S[l]
    BY <1>0, <2>1, <2>3
  <2>. QED BY <2>4 DEF AllOf
<1>. QED BY <1>1, <1>2, <1>3 DEF Disjoint

(* The members of g have the parameters of r, and g is as long as n.              *)
Shared(g, n, ph, r, k) ==
  /\ Len(g) = n
  /\ \A i \in 1 .. n : g[i] \in Rank /\ k \in Kept(g[i]) /\ Identity(g[i], k) = Identity(r, k)

UsesOf(g, n, ph, k) == [i \in 1 .. n |-> UsesIn(ph, g[i], k)]
PiecesOf(g, n, ph, k) == [i \in 1 .. n |-> PiecesIn(ph, g[i], k)]

LEMMA SharedSum ==
  ASSUME NEW g, NEW n \in Nat \ {0}, NEW ph, NEW r, NEW k, NEW U, NEW V, Held(ph), Shared(g, n, ph, r, k),
         U = UsesOf(g, n, ph, k), V = PiecesOf(g, n, ph, k),
         (Same(n, U) /\ Disjoint(n, V)) \/ (Disjoint(n, U) /\ Same(n, V))
  PROVE  Summed(g, r, k) = SetToBag({Identity(r, k)} \X (AllOf(n, U) \X AllOf(n, V)))
<1>1. Len(g) = n /\ n \in Nat
  BY DEF Shared
<1>. PICK id : id = Identity(r, k)
  OBVIOUS
<1>2. PICK S : S = [i \in 1 .. n |-> {id} \X (U[i] \X V[i])]
  OBVIOUS
<1>3. \A i \in 1 .. n : S[i] = {id} \X (U[i] \X V[i])
  BY <1>2
<1>4. Disjoint(n, S) /\ AllOf(n, S) = {id} \X (AllOf(n, U) \X AllOf(n, V))
  <2>1. Varied(n, id, U, V, S)
    BY <1>3 DEF Varied
  <2>. QED BY <2>1, Products
<1>5. \A i \in 1 .. n : grad[g[i]][k] = SetToBag(S[i])
  BY <1>3 DEF Shared, Held, Contents, UsesOf, PiecesOf
<1>6. AllReduce(g, k) = SetToBag(AllOf(n, S))
  <2>1. BagsAre(n, S, g, k)
    BY <1>1, <1>4, <1>5 DEF BagsAre
  <2>. QED BY <1>1, <2>1, AllReduceIs
<1>7. g # <<>>
  BY <1>1
<1>. QED BY <1>4, <1>6, <1>7 DEF Summed

(* Ranks of a stage that have the same part of the parameters of a kind.          *)
Twins(r, m, k) ==
  /\ PipelineRank(m) = PipelineRank(r)
  /\ k \in {"word", "weight", "expert"} => TensorRank(m) = TensorRank(r)
  /\ k = "expert" => ExpertRank(m) = ExpertRank(r)

LEMMA TwinsShare ==
  ASSUME Ready, NEW D, NEW F, Sized(args, D, F), NEW r \in Rank, NEW m \in Rank, NEW k \in Kept(r),
         Twins(r, m, k)
  PROVE  k \in Kept(m) /\ Identity(m, k) = Identity(r, k) /\ \A ph : UsesIn(ph, m, k) = UsesIn(ph, r, k)
<1>1. Alike(r, m)
  BY StagesAlike DEF Twins
<1>2. k \in Kinds
  BY DEF Kept
<1>3. Identity(m, k) = Identity(r, k)
  <2>1. AllLayers(r) = AllLayers(m)
    BY <1>1 DEF Alike
  <2>2. CASE k = "word"
    BY <2>2 DEF Identity, Twins
  <2>3. CASE k = "position"
    BY <2>3 DEF Identity
  <2>4. CASE k = "weight"
    BY <2>1, <2>4 DEF Identity, Twins
  <2>5. CASE k = "norm"
    BY <2>1, <2>5 DEF Identity
  <2>6. CASE k = "expert"
    BY <2>1, <2>6 DEF Identity, Twins
  <2>. QED BY <1>2, <2>2, <2>3, <2>4, <2>5, <2>6 DEF Kinds
<1>4. ASSUME NEW ph PROVE UsesIn(ph, m, k) = UsesIn(ph, r, k)
  <2>1. WordUses(m) = WordUses(r) /\ InputUses(m) = InputUses(r)
    BY <1>1 DEF Alike
  <2>. QED BY <2>1 DEF UsesIn
<1>. QED BY <1>1, <1>3, <1>4 DEF Alike

(* The gradients of the batch over the data-parallel ranks, with context         *)
(* parallelism: each piece is read by one of them.                               *)
LEMMA SyncSums ==
  ASSUME Ready, NEW D, NEW F, Sized(args, D, F), NEW r \in Rank, NEW k \in Kept(r), Held("accumulated")
  PROVE  Summed(SyncGroup(r, k), r, k) = SetToBag(Contents("synced", r, k))
<1>1. CASE k = "expert" /\ args.E > 1
  <2>1. Summed(SyncGroup(r, k), r, k) = grad[r][k]
    BY <1>1 DEF Summed, SyncGroup
  <2>2. PiecesIn("accumulated", r, k) = PiecesIn("synced", r, k)
    BY <1>1 DEF PiecesIn
  <2>3. UsesIn("accumulated", r, k) = UsesIn("synced", r, k)
    BY DEF UsesIn
  <2>. QED BY <2>1, <2>2, <2>3 DEF Held, Contents
<1>2. CASE ~(k = "expert" /\ args.E > 1)
  <2>1. PICK Q, T, C, E, G, N : Sizes(D, F, Q, T, C, E, G, N)
    BY SizesExist
  <2>2. G \in Nat \ {0} /\ E \in Nat \ {0} /\ G = D * args.C /\ E = args.E
    BY <2>1 DEF Sizes
  <2>3. PICK g : g = Group(r, "dp_cp") /\ g = SyncGroup(r, k)
    BY <1>2 DEF SyncGroup
  <2>4. Len(g) = G /\ \A i \in 1 .. G : Place(g[i], PipelineRank(r), i - 1, TensorRank(r))
    BY <2>2, <2>3, DataGroupHas DEF DataMembers
  <2>5. ASSUME NEW i \in 1 .. G
        PROVE  /\ g[i] \in Rank /\ Shard(g[i]) = i - 1 /\ TensorRank(g[i]) = TensorRank(r)
               /\ Twins(r, g[i], k)
    <3>1. g[i] \in Rank /\ Place(g[i], PipelineRank(r), i - 1, TensorRank(r))
      BY <2>4 DEF Place
    <3>2. k = "expert" => ExpertRank(g[i]) = ExpertRank(r)
      <4>1. \A x \in Rank : ExpertRank(x) = Shard(x) % E /\ Shard(x) \in Int
        BY <2>2, ExpertGroupHas, Spots DEF ExpertMembers, Spot
      <4>2. k = "expert" => E = 1
        BY <1>2, <2>2
      <4>3. \A y \in Int : y % 1 = 0
        OBVIOUS
      <4>. QED BY <3>1, <4>1, <4>2, <4>3
    <3>. QED BY <3>1, <3>2 DEF Place, Twins
  <2>6. ASSUME NEW i \in 1 .. G
        PROVE  /\ g[i] \in Rank /\ k \in Kept(g[i]) /\ Identity(g[i], k) = Identity(r, k)
               /\ UsesIn("accumulated", g[i], k) = UsesIn("accumulated", r, k)
    BY <2>5, TwinsShare
  <2>7. PICK U, V : U = UsesOf(g, G, "accumulated", k) /\ V = PiecesOf(g, G, "accumulated", k)
    OBVIOUS
  <2>8. Same(G, U) /\ AllOf(G, U) = UsesIn("synced", r, k)
    <3>1. \A i \in 1 .. G : U[i] = UsesIn("accumulated", r, k)
      BY <2>6, <2>7 DEF UsesOf
    <3>2. UsesIn("accumulated", r, k) = UsesIn("synced", r, k) /\ 1 \in 1 .. G
      BY <2>2 DEF UsesIn
    <3>. QED BY <3>1, <3>2 DEF Same, AllOf
  <2>9. \A i \in 1 .. G : V[i] = {p \in PiecesIn("synced", r, k) : Home(p) = i - 1}
    BY <1>2, <2>5, <2>7 DEF PiecesIn, PiecesOf
  <2>10. Disjoint(G, V)
    BY <2>2, <2>9 DEF Disjoint
  <2>11. AllOf(G, V) = PiecesIn("synced", r, k)
    <3>1. ASSUME NEW p \in PiecesIn("synced", r, k) PROVE p \in AllOf(G, V)
      <4>1. Home(p) \in 0 .. G - 1
        BY <2>2, Homes DEF PiecesIn
      <4>2. PICK i \in 1 .. G : Home(p) = i - 1
        BY <2>2, <4>1
      <4>. QED BY <2>9, <4>2 DEF AllOf
    <3>2. ASSUME NEW p \in AllOf(G, V) PROVE p \in PiecesIn("synced", r, k)
      BY <2>9, <3>2 DEF AllOf
    <3>. QED BY <3>1, <3>2
  <2>12. Shared(g, G, "accumulated", r, k)
    BY <2>4, <2>6 DEF Shared
  <2>13. Summed(g, r, k) = SetToBag({Identity(r, k)} \X (AllOf(G, U) \X AllOf(G, V)))
    BY <2>2, <2>7, <2>8, <2>10, <2>12, SharedSum
  <2>. QED BY <2>3, <2>8, <2>11, <2>13 DEF Contents
<1>. QED BY <1>1, <1>2

(* Those of norms and routers, over the tensor-parallel ranks, when the sequence *)
(* is split among them.                                                          *)
LEMMA LayernormSums ==
  ASSUME Ready, NEW D, NEW F, Sized(args, D, F), NEW r \in Rank, NEW k \in Kept(r), Held("synced")
  PROVE  Summed(NormGroup(r, k), r, k) = SetToBag(Contents("layernorm", r, k))
<1>1. PICK Q, T, C, E, G, N : Sizes(D, F, Q, T, C, E, G, N)
  BY SizesExist
<1>2. T \in Nat \ {0} /\ T = args.T
  BY <1>1 DEF Sizes
<1>3. TensorSize(r) = T
  BY <1>2, Spots DEF Spot
<1>4. CASE ~(k = "norm" /\ args.sp)
  <2>1. Summed(NormGroup(r, k), r, k) = grad[r][k]
    BY <1>4 DEF Summed, NormGroup
  <2>2. PiecesIn("synced", r, k) = PiecesIn("layernorm", r, k)
    BY <1>4 DEF PiecesIn
  <2>3. UsesIn("synced", r, k) = UsesIn("layernorm", r, k)
    BY DEF UsesIn
  <2>. QED BY <2>1, <2>2, <2>3 DEF Held, Contents
<1>5. CASE k = "norm" /\ args.sp
  <2>1. T > 1
    <3>1. T # 1
      BY <1>2, <1>5, Shaped DEF Shape
    <3>. QED BY <1>2, <3>1
  <2>2. PICK g : g = Group(r, "tp") /\ g = NormGroup(r, k)
    BY <1>3, <1>5, <2>1 DEF NormGroup
  <2>3. Len(g) = T /\ \A i \in 1 .. T : Place(g[i], PipelineRank(r), Shard(r), i - 1)
    BY <1>2, <2>2, TensorGroupHas DEF TensorMembers
  <2>4. ASSUME NEW i \in 1 .. T PROVE g[i] \in Rank /\ TensorRank(g[i]) = i - 1 /\ Twins(r, g[i], k)
    BY <1>5, <2>3 DEF Place, Twins
  <2>5. ASSUME NEW i \in 1 .. T
        PROVE  /\ g[i] \in Rank /\ k \in Kept(g[i]) /\ Identity(g[i], k) = Identity(r, k)
               /\ UsesIn("synced", g[i], k) = UsesIn("synced", r, k)
    BY <2>4, TwinsShare
  <2>6. PICK U, V : U = UsesOf(g, T, "synced", k) /\ V = PiecesOf(g, T, "synced", k)
    OBVIOUS
  <2>7. Same(T, U) /\ AllOf(T, U) = UsesIn("layernorm", r, k)
    <3>1. \A i \in 1 .. T : U[i] = UsesIn("synced", r, k)
      BY <2>5, <2>6 DEF UsesOf
    <3>2. UsesIn("synced", r, k) = UsesIn("layernorm", r, k) /\ 1 \in 1 .. T
      BY <1>2 DEF UsesIn
    <3>. QED BY <3>1, <3>2 DEF Same, AllOf
  <2>8. \A i \in 1 .. T : V[i] = {p \in PiecesIn("layernorm", r, k) : p[3] = i - 1}
    BY <1>5, <2>4, <2>6 DEF PiecesIn, PiecesOf
  <2>9. Disjoint(T, V)
    BY <1>2, <2>8 DEF Disjoint
  <2>10. AllOf(T, V) = PiecesIn("layernorm", r, k)
    <3>1. ASSUME NEW p \in PiecesIn("layernorm", r, k) PROVE p \in AllOf(T, V)
      <4>1. p[3] \in 0 .. T - 1
        BY <1>2 DEF PiecesIn, Pieces
      <4>2. PICK i \in 1 .. T : p[3] = i - 1
        BY <1>2, <4>1
      <4>. QED BY <2>8, <4>2 DEF AllOf
    <3>2. ASSUME NEW p \in AllOf(T, V) PROVE p \in PiecesIn("layernorm", r, k)
      BY <2>8, <3>2 DEF AllOf
    <3>. QED BY <3>1, <3>2
  <2>11. Shared(g, T, "synced", r, k)
    BY <2>3, <2>5 DEF Shared
  <2>12. Summed(g, r, k) = SetToBag({Identity(r, k)} \X (AllOf(T, U) \X AllOf(T, V)))
    BY <1>2, <2>6, <2>7, <2>9, <2>11, SharedSum
  <2>. QED BY <2>2, <2>7, <2>10, <2>12 DEF Contents
<1>. QED BY <1>4, <1>5

(* Those of the experts, over the ranks that have the same ones.                 *)
LEMMA ExpertSums ==
  ASSUME Ready, NEW D, NEW F, Sized(args, D, F), NEW r \in Rank, NEW k \in Kept(r), Held("embedding")
  PROVE  Summed(ExpertGroup(r, k), r, k) = SetToBag(Contents("finalized", r, k))
<1>1. PICK Q, T, C, E, G, N : Sizes(D, F, Q, T, C, E, G, N)
  BY SizesExist
<1>2. /\ E \in Nat \ {0} /\ F \in Nat \ {0} /\ D \in Nat \ {0} /\ E = args.E /\ D = F * E
      /\ C = args.C
  BY <1>1 DEF Sizes
<1>3. Len(Group(r, "dp")) = D
  BY DataGroupHas
<1>4. UsesIn("embedding", r, k) = UsesIn("finalized", r, k)
  BY DEF UsesIn
<1>5. CASE ~(k = "expert" /\ E > 1)
  <2>1. Summed(ExpertGroup(r, k), r, k) = grad[r][k]
    BY <1>2, <1>5 DEF Summed, ExpertGroup
  <2>2. PiecesIn("embedding", r, k) = PiecesIn("finalized", r, k)
    BY <1>2, <1>5 DEF PiecesIn
  <2>. QED BY <1>4, <2>1, <2>2 DEF Held, Contents
<1>6. CASE k = "expert" /\ E > 1
  <2>1. args.C = 1
    BY <1>2, <1>6, Shaped DEF Shape
  <2>2. ASSUME NEW j \in 0 .. D - 1 PROVE j \div E \in 0 .. F - 1
    <3>1. j \in 0 .. F * E - 1
      BY <1>2
    <3>. QED BY ONLY <1>2, <3>1, QuotientBounds
  <2>3. ASSUME NEW p \in Pieces(args) PROVE Home(p) \div E \in 0 .. F - 1
    <3>1. Home(p) \in 0 .. D * args.C - 1 /\ D * 1 = D
      BY <1>2, Homes
    <3>. QED BY <2>1, <2>2, <3>1
  <2>4. CASE ~(E < D)
    <3>1. Summed(ExpertGroup(r, k), r, k) = grad[r][k]
      BY <1>2, <1>3, <2>4 DEF Summed, ExpertGroup
    <3>2. F = 1
      BY <1>2, <2>4
    <3>3. Shard(r) \div E \in 0 .. F - 1
      <4>1. Shard(r) \in 0 .. D * args.C - 1 /\ D * 1 = D
        BY <1>2, Spots DEF Spot
      <4>. QED BY <2>1, <2>2, <4>1
    <3>4. PiecesIn("embedding", r, k) = PiecesIn("finalized", r, k)
      <4>1. \A p \in Pieces(args) : Home(p) \div E = Shard(r) \div E
        BY <2>3, <3>2, <3>3
      <4>. QED BY <1>2, <4>1 DEF PiecesIn
    <3>. QED BY <1>4, <3>1, <3>4 DEF Held, Contents
  <2>5. CASE E < D
    <3>1. PICK g : g = Group(r, "dp_mod_exp") /\ g = ExpertGroup(r, k)
      BY <1>2, <1>3, <1>6, <2>5 DEF ExpertGroup
    <3>2. Len(g) = F /\ \A i \in 1 .. F : CopyPlace(g[i], r, i)
      BY <2>1, <3>1, CopyGroupHas DEF CopyMembers
    <3>3. ASSUME NEW i \in 1 .. F PROVE g[i] \in Rank /\ Shard(g[i]) \div E = i - 1 /\ Twins(r, g[i], k)
      <4>1. CopyPlace(g[i], r, i)
        BY <3>2
      <4>2. \A x \in Rank : ExpertRank(x) = Shard(x) % E
        BY <1>2, ExpertGroupHas DEF ExpertMembers
      <4>. QED BY <1>2, <4>1, <4>2 DEF CopyPlace, Twins
    <3>4. ASSUME NEW i \in 1 .. F
          PROVE  /\ g[i] \in Rank /\ k \in Kept(g[i]) /\ Identity(g[i], k) = Identity(r, k)
                 /\ UsesIn("embedding", g[i], k) = UsesIn("embedding", r, k)
      BY <3>3, TwinsShare
    <3>5. PICK U, V : U = UsesOf(g, F, "embedding", k) /\ V = PiecesOf(g, F, "embedding", k)
      OBVIOUS
    <3>6. Same(F, U) /\ AllOf(F, U) = UsesIn("finalized", r, k)
      <4>1. \A i \in 1 .. F : U[i] = UsesIn("embedding", r, k)
        BY <3>4, <3>5 DEF UsesOf
      <4>2. 1 \in 1 .. F
        BY <1>2
      <4>. QED BY <1>4, <4>1, <4>2 DEF Same, AllOf
    <3>7. \A i \in 1 .. F : V[i] = {p \in Pieces(args) : Home(p) \div E = i - 1}
      BY <1>2, <1>6, <3>3, <3>5 DEF PiecesIn, PiecesOf
    <3>8. Disjoint(F, V)
      BY <1>2, <3>7 DEF Disjoint
    <3>9. PiecesIn("finalized", r, k) = Pieces(args)
      BY DEF PiecesIn
    <3>10. AllOf(F, V) = Pieces(args)
      <4>1. ASSUME NEW p \in Pieces(args) PROVE p \in AllOf(F, V)
        <5>1. PICK i \in 1 .. F : Home(p) \div E = i - 1
          BY <1>2, <2>3
        <5>. QED BY <3>7, <5>1 DEF AllOf
      <4>2. ASSUME NEW p \in AllOf(F, V) PROVE p \in Pieces(args)
        BY <3>7, <4>2 DEF AllOf
      <4>. QED BY <4>1, <4>2
    <3>11. Shared(g, F, "embedding", r, k)
      BY <3>2, <3>4 DEF Shared
    <3>12. Summed(g, r, k) = SetToBag({Identity(r, k)} \X (AllOf(F, U) \X AllOf(F, V)))
      BY <1>2, <3>5, <3>6, <3>8, <3>11, SharedSum
    <3>. QED BY <3>1, <3>6, <3>9, <3>10, <3>12 DEF Contents
  <2>. QED BY <2>4, <2>5
<1>. QED BY <1>5, <1>6

(* The ends of a pipeline, which share the embeddings: the first stage, the first *)
(* of the decoder, and, of the word embeddings, the last.                        *)
IsEnd(q) == q = 0 \/ (args.split # None /\ q = args.split)

(* The stages of the ranks of g, which have the tensor rank of r.                *)
At(g, r, stages) ==
  /\ Len(g) = Len(stages)
  /\ \A i \in 1 .. Len(stages) : g[i] \in Rank /\ PipelineRank(g[i]) = stages[i] /\ TensorRank(g[i]) = TensorRank(r)

WordStages ==
  IF args.split = None \/ args.split = args.P - 1 THEN <<0, args.P - 1>> ELSE <<0, args.split, args.P - 1>>
PositionStages == <<0, args.split>>

LEMMA EndsAre ==
  ASSUME Ready, NEW D, NEW F, Sized(args, D, F), NEW r \in Rank, args.P > 1
  PROVE  /\ At(mpu[r].embedding_ranks, r, WordStages)
         /\ args.split # None => At(mpu[r].position_ranks, r, PositionStages)
         /\ IsEnd(PipelineRank(r)) \/ PipelineRank(r) = args.P - 1 => r \in Range(mpu[r].embedding_ranks)
         /\ IsEnd(PipelineRank(r)) /\ args.split # None => r \in Range(mpu[r].position_ranks)
<1>1. PICK Q \in Nat \ {0} : Q = args.P /\ Q > 1
  BY DEF Sized
<1>2. PICK g : g = Group(r, "pp")
  OBVIOUS
<1>3. /\ mpu[r].embedding_ranks = EmbeddingRanks(args, g) /\ mpu[r].position_ranks = PositionRanks(args, g)
      /\ Len(g) = Q /\ g[PipelineRank(r) + 1] = r
      /\ \A n \in 1 .. Q : Place(g[n], n - 1, Shard(r), TensorRank(r))
  <2>1. GroupsAre(r) /\ PipelineMembers(r)
    BY GroupsOfRank, PipelineGroupHas
  <2>. QED BY <1>1, <1>2, <2>1 DEF GroupsAre, PipelineMembers
<1>4. \A n \in 1 .. Q : g[n] \in Rank /\ PipelineRank(g[n]) = n - 1 /\ TensorRank(g[n]) = TensorRank(r)
  BY <1>3 DEF Place
<1>5. Last(g) = g[Q] /\ 1 \in 1 .. Q /\ Q \in 1 .. Q /\ 1 - 1 = 0
  BY <1>1, <1>3 DEF Last
<1>6. PipelineRank(r) \in 0 .. Q - 1
  BY <1>1, Spots DEF Spot
<1>7. CASE args.split = None
  <2>1. EmbeddingRanks(args, g) = <<g[1], g[Q]>>
    BY <1>1, <1>3, <1>5, <1>7 DEF EmbeddingRanks
  <2>2. WordStages = <<0, Q - 1>>
    BY <1>1, <1>7 DEF WordStages
  <2>3. At(mpu[r].embedding_ranks, r, WordStages)
    BY <1>3, <1>4, <1>5, <2>1, <2>2 DEF At
  <2>4. ASSUME PipelineRank(r) = 0 \/ PipelineRank(r) = Q - 1 PROVE r \in {g[1], g[Q]}
    BY <1>1, <1>3, <2>4
  <2>5. Range(<<g[1], g[Q]>>) = {g[1], g[Q]}
    BY DEF Range
  <2>. QED BY <1>1, <1>3, <1>7, <2>1, <2>3, <2>4, <2>5 DEF IsEnd
<1>8. CASE args.split # None
  <2>1. PICK s \in 1 .. Q - 1 : s = args.split
    BY <1>1, <1>8, Shaped DEF Shape
  <2>2. s + 1 \in 1 .. Q /\ (s + 1) - 1 = s
    BY <1>1
  <2>3. g[s + 1] # g[1] /\ (g[s + 1] = g[Q] <=> s = Q - 1)
    BY <1>1, <1>4, <1>5, <2>2
  <2>4. PositionRanks(args, g) = <<g[1], g[s + 1]>>
    BY <1>1, <1>3, <1>8, <2>1, <2>3 DEF PositionRanks
  <2>5. PositionStages = <<0, s>>
    BY <2>1 DEF PositionStages
  <2>6. At(mpu[r].position_ranks, r, PositionStages)
    BY <1>3, <1>4, <1>5, <2>2, <2>4, <2>5 DEF At
  <2>7. ASSUME PipelineRank(r) = 0 \/ PipelineRank(r) = s \/ PipelineRank(r) = Q - 1
        PROVE  /\ r \in {g[1], g[s + 1], g[Q]}
               /\ PipelineRank(r) = 0 \/ PipelineRank(r) = s => r \in {g[1], g[s + 1]}
    BY <1>1, <1>3, <2>7
  <2>8. /\ Range(<<g[1], g[s + 1]>>) = {g[1], g[s + 1]} /\ Range(<<g[1], g[Q]>>) = {g[1], g[Q]}
        /\ Range(<<g[1], g[s + 1], g[Q]>>) = {g[1], g[s + 1], g[Q]}
    BY DEF Range
  <2>9. CASE s = Q - 1
    <3>1. EmbeddingRanks(args, g) = <<g[1], g[Q]>>
      BY <1>1, <1>3, <1>5, <1>8, <2>1, <2>3, <2>9 DEF EmbeddingRanks
    <3>2. WordStages = <<0, Q - 1>>
      BY <1>1, <2>1, <2>9 DEF WordStages
    <3>3. At(mpu[r].embedding_ranks, r, WordStages)
      BY <1>3, <1>4, <1>5, <3>1, <3>2 DEF At
    <3>. QED BY <1>1, <1>3, <2>1, <2>3, <2>4, <2>6, <2>7, <2>8, <2>9, <3>1, <3>3 DEF IsEnd
  <2>10. CASE s # Q - 1
    <3>1. EmbeddingRanks(args, g) = <<g[1], g[s + 1], g[Q]>>
      BY <1>1, <1>3, <1>5, <1>8, <2>1, <2>3, <2>10 DEF EmbeddingRanks
    <3>2. WordStages = <<0, s, Q - 1>>
      BY <1>1, <1>8, <2>1, <2>10 DEF WordStages
    <3>3. At(mpu[r].embedding_ranks, r, WordStages)
      <4>1. Len(mpu[r].embedding_ranks) = 3 /\ Len(WordStages) = 3
        BY <1>3, <3>1, <3>2
      <4>2. /\ WordStages[1] = 0 /\ WordStages[2] = s /\ WordStages[3] = Q - 1
            /\ mpu[r].embedding_ranks[1] = g[1] /\ mpu[r].embedding_ranks[2] = g[s + 1]
            /\ mpu[r].embedding_ranks[3] = g[Q]
        BY <1>3, <3>1, <3>2
      <4>3. ASSUME NEW i \in 1 .. 3
            PROVE  /\ mpu[r].embedding_ranks[i] \in Rank
                   /\ PipelineRank(mpu[r].embedding_ranks[i]) = WordStages[i]
                   /\ TensorRank(mpu[r].embedding_ranks[i]) = TensorRank(r)
        <5>1. i = 1 \/ i = 2 \/ i = 3
          OBVIOUS
        <5>. QED BY <1>4, <1>5, <2>2, <4>2, <5>1
      <4>. QED BY <4>1, <4>3 DEF At
    <3>. QED BY <1>1, <1>3, <2>1, <2>4, <2>6, <2>7, <2>8, <3>1, <3>3 DEF IsEnd
  <2>. QED BY <2>9, <2>10
<1>. QED BY <1>7, <1>8

(* What the first stages and the last one use the embeddings for is told apart, and *)
(* together it is everything.                                                    *)
Makes(n, U, whole) == Disjoint(n, U) /\ AllOf(n, U) = whole

LEMMA StagesUse ==
  ASSUME Ready, NEW D, NEW F, Sized(args, D, F), args.P > 1, NEW g, NEW r \in Rank, NEW U
  PROVE  /\ At(g, r, WordStages) /\ U = [i \in 1 .. Len(g) |-> WordUses(g[i])] =>
              Makes(Len(g), U, AllUses \cup {"head"})
         /\ At(g, r, PositionStages) /\ args.split # None /\ U = [i \in 1 .. Len(g) |-> InputUses(g[i])] =>
              Makes(Len(g), U, AllUses)
<1>1. PICK Q \in Nat \ {0} : Q = args.P /\ Q > 1
  BY DEF Sized
<1>2. Shape
  BY Shaped
<1>3. \A x \in Rank : /\ InputUses(x) = Uses(PipelineRank(x))
                      /\ WordUses(x) = Uses(PipelineRank(x)) \cup (IF PipelineRank(x) = Q - 1 THEN {"head"} ELSE {})
  BY <1>1, Ends DEF EndsOf
<1>4. /\ Uses(0) = {"encoder"}
      /\ args.split = None => AllUses = {"encoder"} /\ \A q \in 1 .. Q - 1 : Uses(q) = {}
      /\ args.split # None => /\ args.split \in 1 .. Q - 1 /\ AllUses = {"encoder", "decoder"}
                              /\ \A q \in 1 .. Q - 1 : Uses(q) = IF q = args.split THEN {"decoder"} ELSE {}
  BY <1>1, <1>2 DEF Uses, AllUses, Shape
<1>5. ASSUME At(g, r, WordStages), U = [i \in 1 .. Len(g) |-> WordUses(g[i])]
      PROVE  Disjoint(Len(g), U) /\ AllOf(Len(g), U) = AllUses \cup {"head"}
  <2>1. CASE args.split = None
    <3>1. Len(g) = 2 /\ g[1] \in Rank /\ g[2] \in Rank /\ PipelineRank(g[1]) = 0 /\ PipelineRank(g[2]) = Q - 1
      BY <1>1, <1>5, <2>1 DEF At, WordStages
    <3>2. U[1] = {"encoder"} /\ U[2] = {"head"}
      BY <1>1, <1>3, <1>4, <1>5, <2>1, <3>1
    <3>3. \A i : i \in 1 .. 2 <=> i = 1 \/ i = 2
      OBVIOUS
    <3>. QED BY <1>4, <2>1, <3>1, <3>2, <3>3 DEF Disjoint, AllOf
  <2>2. CASE args.split # None /\ args.split = Q - 1
    <3>1. Len(g) = 2 /\ g[1] \in Rank /\ g[2] \in Rank /\ PipelineRank(g[1]) = 0 /\ PipelineRank(g[2]) = Q - 1
      BY <1>1, <1>5, <2>2 DEF At, WordStages
    <3>2. U[1] = {"encoder"} /\ U[2] = {"decoder", "head"}
      BY <1>1, <1>3, <1>4, <1>5, <2>2, <3>1
    <3>3. \A i : i \in 1 .. 2 <=> i = 1 \/ i = 2
      OBVIOUS
    <3>. QED BY <1>4, <2>2, <3>1, <3>2, <3>3 DEF Disjoint, AllOf
  <2>3. CASE args.split # None /\ args.split # Q - 1
    <3>1. WordStages = <<0, args.split, Q - 1>>
      BY <1>1, <2>3 DEF WordStages
    <3>2. /\ Len(g) = 3 /\ g[1] \in Rank /\ g[2] \in Rank /\ g[3] \in Rank
          /\ PipelineRank(g[1]) = 0 /\ PipelineRank(g[2]) = args.split /\ PipelineRank(g[3]) = Q - 1
      <4>1. Len(WordStages) = 3 /\ WordStages[1] = 0 /\ WordStages[2] = args.split /\ WordStages[3] = Q - 1
        BY <3>1
      <4>2. 1 \in 1 .. 3 /\ 2 \in 1 .. 3 /\ 3 \in 1 .. 3
        OBVIOUS
      <4>. QED BY <1>5, <4>1, <4>2 DEF At
    <3>3. U[1] = {"encoder"} /\ U[2] = {"decoder"} /\ U[3] = {"head"}
      BY <1>1, <1>3, <1>4, <1>5, <2>3, <3>2
    <3>4. \A i : i \in 1 .. 3 <=> i = 1 \/ i = 2 \/ i = 3
      OBVIOUS
    <3>. QED BY <1>4, <2>3, <3>2, <3>3, <3>4 DEF Disjoint, AllOf
  <2>. QED BY <2>1, <2>2, <2>3
<1>6. ASSUME At(g, r, PositionStages), args.split # None, U = [i \in 1 .. Len(g) |-> InputUses(g[i])]
      PROVE  Disjoint(Len(g), U) /\ AllOf(Len(g), U) = AllUses
  <2>1. Len(g) = 2 /\ g[1] \in Rank /\ g[2] \in Rank /\ PipelineRank(g[1]) = 0 /\ PipelineRank(g[2]) = args.split
    BY <1>6 DEF At, PositionStages
  <2>2. U[1] = {"encoder"} /\ U[2] = {"decoder"}
    BY <1>1, <1>3, <1>4, <1>6, <2>1
  <2>3. \A i : i \in 1 .. 2 <=> i = 1 \/ i = 2
    OBVIOUS
  <2>. QED BY <1>4, <1>6, <2>1, <2>2, <2>3 DEF Disjoint, AllOf
<1>. QED BY <1>5, <1>6 DEF Makes

(* A sum over the ends of a pipeline.                                            *)
Keep(g, n, k, r) ==
  n = Len(g) /\ \A i \in 1 .. n : g[i] \in Rank /\ k \in Kept(g[i]) /\ TensorRank(g[i]) = TensorRank(r)

LEMMA EndsShare ==
  ASSUME Ready, NEW D, NEW F, Sized(args, D, F), NEW r \in Rank, NEW k \in {"word", "position"},
         NEW g, NEW n \in Nat \ {0}, NEW U, U = UsesOf(g, n, "layernorm", k), NEW whole,
         Makes(n, U, whole), Held("layernorm"), Keep(g, n, k, r)
  PROVE  Summed(g, r, k) = SetToBag({Identity(r, k)} \X (whole \X Pieces(args)))
<1>1. PICK V : V = PiecesOf(g, n, "layernorm", k)
  OBVIOUS
<1>2. \A i \in 1 .. n : V[i] = Pieces(args)
  BY <1>1 DEF PiecesOf, PiecesIn
<1>3. Same(n, V) /\ AllOf(n, V) = Pieces(args)
  <2>1. 1 \in 1 .. n
    OBVIOUS
  <2>. QED BY <1>2, <2>1 DEF Same, AllOf
<1>4. \A i \in 1 .. n : Identity(g[i], k) = Identity(r, k)
  BY DEF Identity, Keep
<1>5. Shared(g, n, "layernorm", r, k)
  BY <1>4 DEF Shared, Keep
<1>6. Disjoint(n, U) /\ AllOf(n, U) = whole
  BY DEF Makes
<1>7. Summed(g, r, k) = SetToBag({Identity(r, k)} \X (AllOf(n, U) \X AllOf(n, V)))
  BY <1>1, <1>3, <1>5, <1>6, SharedSum
<1>. QED BY <1>3, <1>6, <1>7

(* Those of the embeddings, over the ends of the pipeline.                       *)
LEMMA EmbeddingSums ==
  ASSUME Ready, NEW D, NEW F, Sized(args, D, F), NEW r \in Rank, NEW k \in Kept(r), Held("layernorm")
  PROVE  Summed(EmbeddingGroup(r, k), r, k) = SetToBag(Contents("embedding", r, k))
<1>1. Shape /\ PipelineSize(r) = args.P /\ args.P \in Nat \ {0}
  BY Shaped, Spots DEF Spot, Sized
<1>2. \A x \in Rank : EndsOf(x)
  BY Ends
<1>3. k \in Kinds /\ (k = "word" => HasInput(r) \/ HasHead(r)) /\ (k = "position" => HasInput(r))
  BY DEF Kept
<1>4. CASE k \notin {"word", "position"}
  <2>1. Summed(EmbeddingGroup(r, k), r, k) = grad[r][k]
    BY <1>4 DEF Summed, EmbeddingGroup
  <2>2. PiecesIn("layernorm", r, k) = PiecesIn("embedding", r, k)
    BY DEF PiecesIn
  <2>3. UsesIn("layernorm", r, k) = UsesIn("embedding", r, k)
    BY <1>4 DEF UsesIn
  <2>. QED BY <2>1, <2>2, <2>3 DEF Held, Contents
<1>5. ASSUME k \in {"word", "position"} PROVE PiecesIn("embedding", r, k) = Pieces(args) /\ PiecesIn("layernorm", r, k) = Pieces(args)
  BY <1>5 DEF PiecesIn
<1>6. CASE k = "word"
  <2>1. UsesIn("embedding", r, k) = AllUses \cup {"head"} /\ UsesIn("layernorm", r, k) = WordUses(r)
    BY <1>6 DEF UsesIn
  <2>2. IsEnd(PipelineRank(r)) \/ PipelineRank(r) = args.P - 1
    BY <1>2, <1>3, <1>6 DEF EndsOf, IsEnd
  <2>3. CASE args.P = 1
    <3>1. Summed(EmbeddingGroup(r, k), r, k) = grad[r][k]
      BY <1>1, <1>6, <2>3 DEF Summed, EmbeddingGroup
    <3>2. PipelineRank(r) = 0
      BY <2>3, Spots DEF Spot
    <3>3. WordUses(r) = AllUses \cup {"head"}
      BY <1>2, <2>3, <3>2 DEF EndsOf, Uses, AllUses
    <3>. QED BY <1>5, <1>6, <2>1, <3>1, <3>3 DEF Held, Contents
  <2>4. CASE args.P > 1
    <3>1. PICK g : g = mpu[r].embedding_ranks
      OBVIOUS
    <3>2. At(g, r, WordStages) /\ r \in Range(g)
      BY <2>2, <2>4, <3>1, EndsAre
    <3>3. EmbeddingGroup(r, k) = g
      BY <1>1, <1>6, <2>4, <3>1, <3>2 DEF EmbeddingGroup
    <3>4. PICK n \in Nat \ {0} : n = Len(g) /\ n = Len(WordStages)
      BY <3>2 DEF At, WordStages
    <3>5. ASSUME NEW i \in 1 .. n
          PROVE  g[i] \in Rank /\ "word" \in Kept(g[i]) /\ TensorRank(g[i]) = TensorRank(r)
      <4>1. g[i] \in Rank /\ PipelineRank(g[i]) = WordStages[i] /\ TensorRank(g[i]) = TensorRank(r)
        BY <3>2, <3>4 DEF At
      <4>2. WordStages[i] \in {0, args.P - 1} \/ (args.split # None /\ WordStages[i] = args.split)
        <5>1. CASE args.split = None \/ args.split = args.P - 1
          BY <3>4, <5>1 DEF WordStages
        <5>2. CASE ~(args.split = None \/ args.split = args.P - 1)
          <6>1. WordStages = <<0, args.split, args.P - 1>>
            BY <5>2 DEF WordStages
          <6>2. n = 3
            BY <3>4, <6>1
          <6>3. i = 1 \/ i = 2 \/ i = 3
            BY <6>2
          <6>. QED BY <5>2, <6>1, <6>3
        <5>. QED BY <5>1, <5>2
      <4>3. HasInput(g[i]) \/ HasHead(g[i])
        BY <1>2, <4>1, <4>2 DEF EndsOf
      <4>. QED BY <4>1, <4>3 DEF Kept, Kinds
    <3>6. PICK U : U = UsesOf(g, n, "layernorm", "word") /\ U = [i \in 1 .. n |-> WordUses(g[i])]
      BY DEF UsesOf, UsesIn
    <3>7. Makes(n, U, AllUses \cup {"head"})
      BY <2>4, <3>2, <3>4, <3>6, StagesUse
    <3>8. Summed(g, r, "word") = SetToBag({Identity(r, "word")} \X ((AllUses \cup {"head"}) \X Pieces(args)))
      <4>1. Keep(g, n, "word", r) /\ "word" \in {"word", "position"}
        BY <3>4, <3>5 DEF Keep
      <4>. QED BY <3>6, <3>7, <4>1, EndsShare
    <3>. QED BY <1>5, <1>6, <2>1, <3>3, <3>8 DEF Contents
  <2>. QED BY <1>1, <2>3, <2>4
<1>7. CASE k = "position"
  <2>1. UsesIn("embedding", r, k) = AllUses /\ UsesIn("layernorm", r, k) = InputUses(r)
    BY <1>7 DEF UsesIn
  <2>2. IsEnd(PipelineRank(r))
    BY <1>2, <1>3, <1>7 DEF EndsOf, IsEnd
  <2>3. CASE ~(args.P > 1 /\ args.split # None)
    <3>1. Summed(EmbeddingGroup(r, k), r, k) = grad[r][k]
      BY <1>1, <1>7, <2>3 DEF Summed, EmbeddingGroup
    <3>2. PipelineRank(r) = 0
      BY <1>1, <2>2, <2>3, Spots DEF Spot, IsEnd
    <3>3. InputUses(r) = AllUses
      BY <1>1, <1>2, <2>3, <3>2 DEF EndsOf, Uses, AllUses, Shape
    <3>. QED BY <1>5, <1>7, <2>1, <3>1, <3>3 DEF Held, Contents
  <2>4. CASE args.P > 1 /\ args.split # None
    <3>1. PICK g : g = mpu[r].position_ranks
      OBVIOUS
    <3>2. At(g, r, PositionStages) /\ r \in Range(g)
      BY <2>2, <2>4, <3>1, EndsAre
    <3>3. EmbeddingGroup(r, k) = g
      BY <1>1, <1>7, <2>4, <3>1, <3>2 DEF EmbeddingGroup
    <3>4. PICK n \in Nat \ {0} : n = Len(g) /\ n = 2
      BY <3>2 DEF At, PositionStages
    <3>5. ASSUME NEW i \in 1 .. n
          PROVE  g[i] \in Rank /\ "position" \in Kept(g[i]) /\ TensorRank(g[i]) = TensorRank(r)
      <4>1. g[i] \in Rank /\ PipelineRank(g[i]) = PositionStages[i] /\ TensorRank(g[i]) = TensorRank(r)
        BY <3>2, <3>4 DEF At, PositionStages
      <4>2. PositionStages[i] = 0 \/ PositionStages[i] = args.split
        BY <3>4 DEF PositionStages
      <4>3. HasInput(g[i])
        BY <1>2, <2>4, <4>1, <4>2 DEF EndsOf
      <4>. QED BY <4>1, <4>3 DEF Kept, Kinds
    <3>6. PICK U : U = UsesOf(g, n, "layernorm", "position") /\ U = [i \in 1 .. n |-> InputUses(g[i])]
      BY DEF UsesOf, UsesIn
    <3>7. Makes(n, U, AllUses)
      BY <2>4, <3>2, <3>4, <3>6, StagesUse
    <3>8. Summed(g, r, "position") = SetToBag({Identity(r, "position")} \X (AllUses \X Pieces(args)))
      <4>1. Keep(g, n, "position", r) /\ "position" \in {"word", "position"}
        BY <3>4, <3>5 DEF Keep
      <4>. QED BY <3>6, <3>7, <4>1, EndsShare
    <3>. QED BY <1>5, <1>7, <2>1, <3>3, <3>8 DEF Contents
  <2>. QED BY <2>3, <2>4
<1>. QED BY <1>4, <1>6, <1>7

(* What the backward pass leaves: a rank has read its own part of the batch, and  *)
(* its experts the parts of the ranks that send them tokens.                     *)
LEMMA ExpertsRead ==
  ASSUME Ready, NEW D, NEW F, Sized(args, D, F), NEW r \in Rank, args.sp \/ args.E > 1
  PROVE  UNION {NormInput(m) : m \in Range(Group(r, "exp"))}
           = {p \in Pieces(args) : Home(p) \div args.E = Shard(r) \div args.E}
<1>1. PICK Q, T, C, E, G, N : Sizes(D, F, Q, T, C, E, G, N)
  BY SizesExist
<1>2. /\ E \in Nat \ {0} /\ T \in Nat \ {0} /\ G \in Nat \ {0} /\ E = args.E /\ T = args.T /\ G = D * args.C
  BY <1>1 DEF Sizes
<1>3. PICK B \in Nat \ {0} : B = E * T
  BY <1>2, TimesPositive
<1>4. PICK g : g = Group(r, "exp")
  OBVIOUS
<1>5. DOMAIN g = 1 .. B /\ \A n \in 1 .. B : ExpertPlace(g[n], r, n)
  BY <1>2, <1>3, <1>4, ExpertGroupHas DEF ExpertMembers
<1>6. \A m \in Range(g) : m \in Rank /\ Shard(m) \div E = Shard(r) \div E
  BY <1>2, <1>5 DEF Range, ExpertPlace
<1>7. \A m \in Rank : NormInput(m) = {p \in ReadBy(Shard(m)) : args.sp => p[3] = TensorRank(m)}
  <2>1. \A m \in Rank : LocalSequence(m) = ReadBy(Shard(m))
    BY Homes
  <2>. QED BY <2>1 DEF NormInput, SequencePart
<1>8. ASSUME NEW m \in Range(g), NEW p \in NormInput(m)
      PROVE  p \in Pieces(args) /\ Home(p) \div E = Shard(r) \div E
  BY <1>6, <1>7, <1>8 DEF ReadBy
<1>9. ASSUME NEW p \in Pieces(args), Home(p) \div E = Shard(r) \div E
      PROVE  \E m \in Range(g) : p \in NormInput(m)
  <2>1. PICK h \in Int : h = Home(p)
    <3>1. Home(p) \in 0 .. D * args.C - 1
      BY Homes
    <3>. QED BY <1>2, <3>1
  <2>2. h % E \in 0 .. E - 1 /\ h = (h \div E) * E + (h % E)
    BY ONLY <1>2, h \in Int, Division
  <2>3. p[3] \in 0 .. T - 1
    BY <1>2 DEF Pieces
  <2>4. PICK x \in 0 .. E - 1, t \in 0 .. T - 1 : x = h % E /\ t = p[3]
    BY <2>2, <2>3
  <2>5. x * T + t \in 0 .. E * T - 1
    BY <1>2, Numbering
  <2>6. PICK n \in 1 .. B : n - 1 = x * T + t
    <3>1. (x * T + t) + 1 \in 1 .. B /\ ((x * T + t) + 1) - 1 = x * T + t
      BY <1>2, <1>3, <2>5
    <3>. QED BY <3>1
  <2>7. (n - 1) \div T = x /\ (n - 1) % T = t
    <3>1. n - 1 \in Int /\ x \in Int
      OBVIOUS
    <3>. QED BY ONLY <1>2, <2>6, <3>1, t \in 0 .. T - 1, DivisionIs
  <2>8. PICK m \in Rank : m = g[n] /\ m \in Range(g)
    BY <1>5 DEF ExpertPlace, Range
  <2>9. Shard(m) \div E = h \div E /\ Shard(m) % E = h % E /\ TensorRank(m) = p[3]
    BY <1>2, <1>5, <1>9, <2>1, <2>4, <2>7, <2>8 DEF ExpertPlace
  <2>10. Shard(m) = h
    <3>1. PICK j \in Int : j = Shard(m)
      BY <1>2, Spots DEF Spot
    <3>2. j = (j \div E) * E + (j % E)
      BY ONLY <1>2, j \in Int, Division
    <3>. QED BY <2>2, <2>9, <3>1, <3>2
  <2>11. p \in NormInput(m)
    BY <1>7, <2>1, <2>8, <2>9, <2>10 DEF ReadBy
  <2>. QED BY <2>8, <2>11
<1>. QED BY <1>2, <1>4, <1>8, <1>9

LEMMA LocalHolds ==
  ASSUME Ready, NEW D, NEW F, Sized(args, D, F), NEW r \in Rank, NEW k \in Kept(r)
  PROVE  LocalGrad(r, k) = SetToBag(Contents("accumulated", r, k))
<1>1. k \in Kinds
  BY DEF Kept
<1>2. LocalSequence(r) = ReadBy(Shard(r))
  BY Homes
<1>3. CASE k = "word"
  <2>1. LocalSequence(r) = PiecesIn("accumulated", r, k)
    BY <1>2, <1>3 DEF PiecesIn, ReadBy
  <2>. QED BY <1>3, <2>1 DEF LocalGrad, Contents, UsesIn
<1>4. CASE k = "position"
  <2>1. LocalSequence(r) = PiecesIn("accumulated", r, k)
    BY <1>2, <1>4 DEF PiecesIn, ReadBy
  <2>. QED BY <1>4, <2>1 DEF LocalGrad, Contents, UsesIn
<1>5. CASE k = "weight"
  <2>1. LocalSequence(r) = PiecesIn("accumulated", r, k)
    BY <1>2, <1>5 DEF PiecesIn, ReadBy
  <2>. QED BY <1>5, <2>1 DEF LocalGrad, Contents, UsesIn
<1>6. CASE k = "norm"
  <2>1. NormInput(r) = PiecesIn("accumulated", r, k)
    BY <1>2, <1>6 DEF PiecesIn, ReadBy, NormInput, SequencePart
  <2>. QED BY <1>6, <2>1 DEF LocalGrad, Contents, UsesIn
<1>7. CASE k = "expert"
  <2>1. ExpertInput(r) = PiecesIn("accumulated", r, k)
    <3>1. CASE args.E > 1
      BY <1>7, <3>1, ExpertsRead DEF ExpertInput, PiecesIn
    <3>2. CASE ~(args.E > 1) /\ args.sp
      <4>1. args.E = 1
        BY <3>2 DEF Sized
      <4>2. \A p \in Pieces(args) : Home(p) \div args.E = Shard(r) \div args.E <=> Home(p) = Shard(r)
        <5>1. PICK G \in Int : G = D * args.C
          BY DEF Sized
        <5>2. \A p \in Pieces(args) : Home(p) \in 0 .. G - 1
          BY <5>1, Homes
        <5>3. Shard(r) \in 0 .. G - 1
          BY <5>1, Spots DEF Spot
        <5>4. \A x \in 0 .. G - 1 : x \div 1 = x
          OBVIOUS
        <5>. QED BY <4>1, <5>2, <5>3, <5>4
      <4>. QED BY <1>7, <3>2, <4>2, ExpertsRead DEF ExpertInput, PiecesIn
    <3>3. CASE ~(args.E > 1) /\ ~args.sp
      BY <1>2, <1>7, <3>3 DEF ExpertInput, PiecesIn, ReadBy
    <3>. QED BY <3>1, <3>2, <3>3
  <2>. QED BY <1>7, <2>1 DEF LocalGrad, Contents, UsesIn
<1>. QED BY <1>1, <1>3, <1>4, <1>5, <1>6, <1>7 DEF Kinds

(* The invariant: from the backward pass until finalize_model_grads ends, the     *)
(* gradients hold what has been reduced into them.                               *)
Summing == {"accumulated", "synced", "layernorm", "embedding", "finalized"}
GradInv == phase \in Summing => Held(phase)

LEMMA SameContents ==
  ASSUME UNCHANGED <<args, mpu, model>>
  PROVE  /\ Rank' = Rank /\ \A r : Kept(r)' = Kept(r)
         /\ \A ph, r, k : /\ Contents(ph, r, k)' = Contents(ph, r, k) /\ LocalGrad(r, k)' = LocalGrad(r, k)
                         /\ Identity(r, k)' = Identity(r, k)
<1>1. /\ Rank' = Rank /\ NumChunks' = NumChunks /\ Pieces(args)' = Pieces(args)
      /\ \A r, n : Group(r, n)' = Group(r, n) /\ RankIn(r, n)' = RankIn(r, n)
  BY DEF Rank, NumChunks, Pieces, DataSize, Group, RankIn
<1>2. \A r : /\ TensorRank(r)' = TensorRank(r) /\ PipelineRank(r)' = PipelineRank(r)
             /\ DataRank(r)' = DataRank(r) /\ ContextRank(r)' = ContextRank(r)
             /\ TensorSize(r)' = TensorSize(r) /\ PipelineSize(r)' = PipelineSize(r)
             /\ Shard(r)' = Shard(r)
  BY <1>1 DEF TensorRank, PipelineRank, DataRank, ContextRank, TensorSize, PipelineSize, Shard, NumPipelines
<1>3. \A r : /\ ExpertRank(r)' = ExpertRank(r) /\ TensorSrcRank(r)' = TensorSrcRank(r)
             /\ AllLayers(r)' = AllLayers(r) /\ HasInput(r)' = HasInput(r)
             /\ \A v : IsLastStage(r, v)' = IsLastStage(r, v)
  BY <1>1, <1>2 DEF ExpertRank, TensorSrcRank, AllLayers, HasInput, IsLastStage
<1>4. \A r : HasHead(r)' = HasHead(r)
  BY <1>1, <1>3 DEF HasHead
<1>5. \A r : InputUses(r)' = InputUses(r) /\ Kept(r)' = Kept(r)
  BY <1>2, <1>3, <1>4 DEF InputUses, Kept
<1>6. \A r : WordUses(r)' = WordUses(r) /\ AllUses' = AllUses
  BY <1>4, <1>5 DEF WordUses, AllUses
<1>7. \A r, k : Identity(r, k)' = Identity(r, k)
  BY <1>2, <1>3 DEF Identity
<1>8. \A r : LocalSequence(r)' = LocalSequence(r)
  BY <1>2, <1>3 DEF LocalSequence
<1>9. \A r : NormInput(r)' = NormInput(r)
  BY <1>2, <1>8 DEF NormInput, SequencePart
<1>10. \A r : ExpertInput(r)' = ExpertInput(r)
  BY <1>1, <1>8, <1>9 DEF ExpertInput
<1>11. ASSUME NEW r, NEW k PROVE LocalGrad(r, k)' = LocalGrad(r, k)
  BY <1>5, <1>6, <1>7, <1>8, <1>9, <1>10 DEF LocalGrad
<1>12. ASSUME NEW ph, NEW r, NEW k PROVE Contents(ph, r, k)' = Contents(ph, r, k)
  <2>1. UsesIn(ph, r, k)' = UsesIn(ph, r, k)
    BY <1>5, <1>6 DEF UsesIn
  <2>2. PiecesIn(ph, r, k)' = PiecesIn(ph, r, k)
    BY <1>1, <1>2 DEF PiecesIn, Home
  <2>. QED BY <1>7, <2>1, <2>2 DEF Contents
<1>. QED BY <1>1, <1>5, <1>7, <1>11, <1>12

LEMMA GradStep ==
  ASSUME Inv, GradInv, [Next]_vars
  PROVE  GradInv'
<1>1. PICK D, F : Sized(args, D, F)
  BY SizesOf DEF Inv
<1>2. CASE Backward
  <2>1. /\ phase = "built" /\ phase' = "accumulated" /\ UNCHANGED <<args, mpu, model>>
        /\ grad' = [r \in Rank |-> [k \in Kept(r) |-> LocalGrad(r, k)]]
    BY <1>2 DEF Backward
  <2>2. Ready
    BY <2>1 DEF Ready
  <2>3. \A r \in Rank : \A k \in Kept(r) : grad'[r][k] = SetToBag(Contents("accumulated", r, k))
    BY <1>1, <2>1, <2>2, LocalHolds
  <2>. QED BY <2>1, <2>3, SameContents DEF GradInv, Held
<1>3. CASE SyncGrads
  <2>1. /\ phase = "accumulated" /\ phase' = "synced" /\ UNCHANGED <<args, mpu, model>>
        /\ grad' = [r \in Rank |-> [k \in Kept(r) |-> Summed(SyncGroup(r, k), r, k)]]
    BY <1>3 DEF SyncGrads, Reduced, Summed
  <2>2. Ready /\ Held("accumulated")
    BY <2>1 DEF Ready, GradInv, Summing
  <2>3. \A r \in Rank : \A k \in Kept(r) : grad'[r][k] = SetToBag(Contents("synced", r, k))
    BY <1>1, <2>1, <2>2, SyncSums
  <2>. QED BY <2>1, <2>3, SameContents DEF GradInv, Held
<1>4. CASE LayernormGrads
  <2>1. /\ phase = "synced" /\ phase' = "layernorm" /\ UNCHANGED <<args, mpu, model>>
        /\ grad' = [r \in Rank |-> [k \in Kept(r) |-> Summed(NormGroup(r, k), r, k)]]
    BY <1>4 DEF LayernormGrads, Reduced, Summed
  <2>2. Ready /\ Held("synced")
    BY <2>1 DEF Ready, GradInv, Summing
  <2>3. \A r \in Rank : \A k \in Kept(r) : grad'[r][k] = SetToBag(Contents("layernorm", r, k))
    BY <1>1, <2>1, <2>2, LayernormSums
  <2>. QED BY <2>1, <2>3, SameContents DEF GradInv, Held
<1>5. CASE EmbeddingGrads
  <2>1. /\ phase = "layernorm" /\ phase' = "embedding" /\ UNCHANGED <<args, mpu, model>>
        /\ grad' = [r \in Rank |-> [k \in Kept(r) |-> Summed(EmbeddingGroup(r, k), r, k)]]
    BY <1>5 DEF EmbeddingGrads, Reduced, Summed
  <2>2. Ready /\ Held("layernorm")
    BY <2>1 DEF Ready, GradInv, Summing
  <2>3. \A r \in Rank : \A k \in Kept(r) : grad'[r][k] = SetToBag(Contents("embedding", r, k))
    BY <1>1, <2>1, <2>2, EmbeddingSums
  <2>. QED BY <2>1, <2>3, SameContents DEF GradInv, Held
<1>6. CASE ExpertGrads
  <2>1. /\ phase = "embedding" /\ phase' = "finalized" /\ UNCHANGED <<args, mpu, model>>
        /\ grad' = [r \in Rank |-> [k \in Kept(r) |-> Summed(ExpertGroup(r, k), r, k)]]
    BY <1>6 DEF ExpertGrads, Reduced, Summed
  <2>2. Ready /\ Held("embedding")
    BY <2>1 DEF Ready, GradInv, Summing
  <2>3. \A r \in Rank : \A k \in Kept(r) : grad'[r][k] = SetToBag(Contents("finalized", r, k))
    BY <1>1, <2>1, <2>2, ExpertSums
  <2>. QED BY <2>1, <2>3, SameContents DEF GradInv, Held
<1>7. CASE (\E a \in Requests(args.world) : Initialize(a)) \/ BuildModel \/ ClipGradNorm \/ LogParamsNorm \/ Destroy
  <2>1. phase' \notin Summing
    BY <1>7 DEF Initialize, BuildModel, ClipGradNorm, LogParamsNorm, Destroy, Summing
  <2>. QED BY <2>1 DEF GradInv
<1>8. CASE UNCHANGED vars
  <2>1. UNCHANGED <<args, mpu, model, phase, grad>>
    BY <1>8 DEF vars
  <2>. QED BY <2>1, SameContents DEF GradInv, Held
<1>. QED BY <1>2, <1>3, <1>4, <1>5, <1>6, <1>7, <1>8 DEF Next

LEMMA FullyReduced == ASSUME Inv, GradInv PROVE GradsCoverBatch
<1>1. SUFFICES ASSUME phase = "finalized", NEW r \in Rank, NEW k \in Kept(r)
               PROVE  grad[r][k] = FullGrad(r, k)
  BY DEF GradsCoverBatch
<1>2. grad[r][k] = SetToBag(Contents("finalized", r, k))
  BY <1>1 DEF GradInv, Summing, Held
<1>3. PiecesIn("finalized", r, k) = Pieces(args)
  BY DEF PiecesIn
<1>4. k \in Kinds
  BY DEF Kept
<1>5. FullGrad(r, k) = SetToBag({Identity(r, k)} \X (UsesIn("finalized", r, k) \X Pieces(args)))
  <2>1. CASE k = "word"
    BY <2>1 DEF FullGrad, UsesIn, AllUses
  <2>2. CASE k = "position"
    BY <2>2 DEF FullGrad, UsesIn, AllUses
  <2>3. CASE k \notin {"word", "position"}
    BY <2>3 DEF FullGrad, UsesIn
  <2>. QED BY <2>1, <2>2, <2>3
<1>. QED BY <1>2, <1>3, <1>5 DEF Contents

(* In every accepted layout, when finalize_model_grads ends, every copy of every  *)
(* parameter has the gradient of all its uses on all of the batch, once.         *)
THEOREM FullGradients == Spec => []GradsCoverBatch
<1>1. Init => Inv /\ GradInv
  <2>1. Init => Inv
    BY InitInv
  <2>2. Init => GradInv
    BY DEF Init, GradInv, Summing
  <2>. QED BY <2>1, <2>2
<1>2. (Inv /\ GradInv) /\ [Next]_vars => (Inv /\ GradInv)'
  BY NextInv, GradStep
<1>3. Inv /\ GradInv => GradsCoverBatch
  BY FullyReduced
<1>. QED BY <1>1, <1>2, <1>3, PTL DEF Spec

-------------------------------------------------------------------------------
(* The layers tell the stages apart                                              *)

(* The first layer of the first chunk of stage q.                                *)
First(q) ==
  IF ~args.t5 THEN <<"encoder", q * (Layers \div (args.P * NumChunks)) + 1>>
  ELSE IF args.P = 1 THEN <<"encoder", 1>>
  ELSE IF q < args.split THEN <<"encoder", q * (Layers \div args.split) + 1>>
  ELSE <<"decoder", (q - args.split) * (Layers \div (args.P - args.split)) + 1>>

(* The layers are dealt out in equal parts.                                      *)
Parts ==
  /\ ~args.t5 => \E B \in Nat \ {0}, m \in Nat \ {0} :
       B = args.P * NumChunks /\ m = Layers \div B /\ m * B = Layers
  /\ args.t5 /\ args.P # 1 => \E s \in Nat \ {0}, t \in Nat \ {0}, m \in Nat \ {0}, d \in Nat \ {0} :
       /\ s = args.split /\ t = args.P - s /\ m = Layers \div s /\ d = Layers \div t
       /\ m * s = Layers /\ d * t = Layers

LEMMA EqualParts == ASSUME Request(args) PROVE Parts /\ args.P \in Nat \ {0} /\ NumChunks \in 1 .. 2
<1>1. PICK W \in Worlds : args \in Requests(W) /\ Accepted(args)
  BY DEF Request
<1>2. PICK Q \in Nat \ {0}, L \in Nat \ {0} : Q = args.P /\ L = Layers
  BY <1>1, SizesAssumption DEF Requests
<1>3. PICK V \in 1 .. 2 : V = NumChunks /\ (args.V = None => V = 1) /\ (args.V # None => V = args.V)
  BY <1>1 DEF NumChunks, Requests, None
<1>4. ASSUME ~args.t5
      PROVE  \E B \in Nat \ {0}, m \in Nat \ {0} : B = args.P * NumChunks /\ m = Layers \div B /\ m * B = Layers
  <2>1. PICK B \in Nat \ {0} : B = Q * V
    <3>1. V \in Nat \ {0}
      OBVIOUS
    <3>. QED BY <3>1, TimesPositive
  <2>2. L % B = 0
    <3>1. CASE args.V = None
      BY <1>1, <1>2, <1>3, <1>4, <2>1, <3>1 DEF Accepted
    <3>2. CASE args.V # None
      BY <1>1, <1>2, <1>3, <2>1, <3>2 DEF Accepted
    <3>. QED BY <3>1, <3>2
  <2>3. Divides(B, L) /\ 0 \in Nat
    BY <2>2 DEF Divides
  <2>4. L \div B \in Nat \ {0} /\ L = (L \div B) * B
    BY <2>3, Below
  <2>. QED BY <1>2, <1>3, <2>1, <2>4
<1>5. ASSUME args.t5, args.P # 1
      PROVE  \E s \in Nat \ {0}, t \in Nat \ {0}, m \in Nat \ {0}, d \in Nat \ {0} :
               /\ s = args.split /\ t = args.P - s /\ m = Layers \div s /\ d = Layers \div t
               /\ m * s = Layers /\ d * t = Layers
  <2>1. args.split # None /\ args.split \in {None} \cup 1 .. MaxPipeline - 1
    BY <1>1, <1>2, <1>5 DEF Accepted, Requests
  <2>2. args.split \in Nat \ {0} /\ args.split < Q
    BY <1>1, <1>2, <2>1, SizesAssumption DEF None, Accepted
  <2>3. PICK s \in Nat \ {0}, t \in Nat \ {0} : s = args.split /\ t = Q - s
    BY <2>2
  <2>4. L % s = 0 /\ L % t = 0
    BY <1>1, <1>2, <2>1, <2>3 DEF Accepted
  <2>5. Divides(s, L) /\ Divides(t, L) /\ 0 \in Nat
    BY <2>4 DEF Divides
  <2>6. L \div s \in Nat \ {0} /\ L = (L \div s) * s /\ L \div t \in Nat \ {0} /\ L = (L \div t) * t
    BY <2>5, Below
  <2>. QED BY <1>2, <2>3, <2>6
<1>. QED BY <1>2, <1>3, <1>4, <1>5 DEF Parts

LEMMA FirstsDiffer ==
  ASSUME Request(args), NEW q \in 0 .. args.P - 1, NEW z \in 0 .. args.P - 1, First(q) = First(z)
  PROVE  q = z
<1>1. Parts /\ args.P \in Nat \ {0}
  BY EqualParts
<1>2. ASSUME NEW x \in Int, NEW y \in Int, NEW m \in Nat \ {0}, x * m + 1 = y * m + 1 PROVE x = y
  <2>1. PICK a \in Int, b \in Int : a = x * m /\ b = y * m /\ a = b
    BY <1>2
  <2>2. x * m < (y + 1) * m /\ y * m < (x + 1) * m
    <3>1. (y + 1) * m = y * m + m /\ (x + 1) * m = x * m + m
      OBVIOUS
    <3>. QED BY <2>1, <3>1
  <2>3. x < y + 1 /\ y < x + 1
    <3>1. x + 1 \in Int /\ y + 1 \in Int
      OBVIOUS
    <3>. QED BY <2>2, <3>1, TimesCancel
  <2>. QED BY <2>3
<1>3. CASE ~args.t5
  <2>1. PICK m \in Nat \ {0} : m = Layers \div (args.P * NumChunks)
    BY <1>1, <1>3 DEF Parts
  <2>2. q * m + 1 = z * m + 1
    BY <1>3, <2>1 DEF First
  <2>. QED BY <1>1, <1>2, <2>2
<1>4. CASE args.t5 /\ args.P = 1
  BY <1>4
<1>5. CASE args.t5 /\ args.P # 1
  <2>1. PICK s \in Nat \ {0}, m \in Nat \ {0}, d \in Nat \ {0} :
          s = args.split /\ m = Layers \div s /\ d = Layers \div (args.P - s)
    BY <1>1, <1>5 DEF Parts
  <2>2. \A x \in {q, z} : First(x) = IF x < s THEN <<"encoder", x * m + 1>> ELSE <<"decoder", (x - s) * d + 1>>
    BY <1>5, <2>1 DEF First
  <2>3. CASE q < s
    <3>1. q * m + 1 = z * m + 1
      BY <2>2, <2>3
    <3>. QED BY <1>1, <1>2, <3>1
  <2>4. CASE ~(q < s)
    <3>1. (q - s) * d + 1 = (z - s) * d + 1
      BY <2>2, <2>4
    <3>2. q - s \in Int /\ z - s \in Int
      BY <1>1
    <3>3. q - s = z - s
      BY <1>2, <3>1, <3>2
    <3>. QED BY <1>1, <3>3
  <2>. QED BY <2>3, <2>4
<1>. QED BY <1>3, <1>4, <1>5

LEMMA StageStarts ==
  ASSUME Request(args), NEW q \in 0 .. args.P - 1
  PROVE  Met(q + 1) - Met(q) \in Nat \ {0} /\ Wanted[Met(q) + 1] = First(q)
<1>1. Parts /\ args.P \in Nat \ {0} /\ NumChunks \in 1 .. 2 /\ Layers \in Nat \ {0}
  BY EqualParts, SizesAssumption
<1>2. CASE ~args.t5
  <2>1. PICK B \in Nat \ {0}, m \in Nat \ {0} : B = args.P * NumChunks /\ m = Layers \div B /\ m * B = Layers
    BY <1>1, <1>2 DEF Parts
  <2>2. q \in 0 .. B - 1
    <3>1. NumChunks = 1 \/ NumChunks = 2
      BY <1>1
    <3>. QED BY <1>1, <2>1, <3>1
  <2>3. InStack(m, q)
    <3>1. m \in Nat /\ B \in Nat
      OBVIOUS
    <3>. QED BY ONLY <2>1, <2>2, <3>1, PartOfStack
  <2>4. PICK e \in Int : e = q * m /\ (q + 1) * m = e + m
    BY <2>3 DEF InStack
  <2>5. Met(q) = e /\ Met(q + 1) = e + m
    BY <1>2, <2>1, <2>4 DEF Met
  <2>6. Wanted[e + 1] = <<"encoder", 1 + e>>
    <3>1. 1 \in 1 .. m
      OBVIOUS
    <3>. QED BY <2>3, <2>4, <3>1 DEF InStack
  <2>7. First(q) = <<"encoder", e + 1>> /\ e + 1 = 1 + e /\ (e + m) - e \in Nat \ {0}
    BY <1>2, <2>1, <2>4 DEF First
  <2>. QED BY <2>5, <2>6, <2>7
<1>3. CASE args.t5 /\ args.P = 1
  <2>1. q = 0
    BY <1>3
  <2>2. Met(0) = 0 /\ Met(0 + 1) = Layers * 2
    BY <1>1, <1>3 DEF Met
  <2>3. Wanted[1] = <<"encoder", 1>>
    BY <1>1, WantedIs
  <2>. QED BY <1>1, <1>3, <2>1, <2>2, <2>3 DEF First
<1>4. CASE args.t5 /\ args.P # 1
  <2>1. PICK s \in Nat \ {0}, t \in Nat \ {0}, m \in Nat \ {0}, d \in Nat \ {0} :
          /\ s = args.split /\ t = args.P - s /\ m = Layers \div s /\ d = Layers \div t
          /\ m * s = Layers /\ d * t = Layers
    BY <1>1, <1>4 DEF Parts
  <2>2. \A n \in Nat : Met(n) = IF n <= s THEN n * m ELSE Layers + (n - s) * d
    BY <1>4, <2>1 DEF Met
  <2>3. First(q) = IF q < s THEN <<"encoder", q * m + 1>> ELSE <<"decoder", (q - s) * d + 1>>
    BY <1>4, <2>1 DEF First
  <2>4. m \in Nat /\ d \in Nat /\ s \in Nat /\ t \in Nat /\ q \in Nat /\ q + 1 \in Nat /\ 1 \in 1 .. m /\ 1 \in 1 .. d
    BY <1>1
  <2>5. CASE q < s
    <3>1. q \in 0 .. s - 1
      BY <2>4, <2>5
    <3>2. InStack(m, q)
      BY ONLY <2>1, <2>4, <3>1, PartOfStack
    <3>3. PICK e \in Int : e = q * m /\ (q + 1) * m = e + m
      BY <3>2 DEF InStack
    <3>4. Met(q) = e /\ Met(q + 1) = e + m
      BY <2>2, <2>4, <2>5, <3>3
    <3>5. Wanted[e + 1] = <<"encoder", 1 + e>> /\ First(q) = <<"encoder", e + 1>>
      BY <2>3, <2>4, <2>5, <3>2, <3>3 DEF InStack
    <3>. QED BY <3>4, <3>5
  <2>6. CASE ~(q < s)
    <3>1. PICK i \in 0 .. t - 1 : i = q - s
      BY <1>1, <2>1, <2>4, <2>6
    <3>2. InStack(d, i)
      BY ONLY <2>1, <2>4, <3>1, PartOfStack
    <3>3. PICK e \in Int : e = i * d /\ (i + 1) * d = e + d
      BY <3>2 DEF InStack
    <3>4. Met(q) = Layers + e
      <4>1. CASE q = s
        <5>1. e = 0 /\ s * m = m * s
          BY <3>1, <3>3, <4>1
        <5>. QED BY <1>1, <2>1, <2>2, <2>4, <4>1, <5>1
      <4>2. CASE q # s
        BY <2>2, <2>4, <2>6, <3>1, <3>3, <4>2
      <4>. QED BY <4>1, <4>2
    <3>5. Met(q + 1) = Layers + (e + d)
      <4>1. ~(q + 1 <= s) /\ (q + 1) - s = i + 1
        BY <2>4, <2>6, <3>1
      <4>. QED BY <2>2, <2>4, <3>3, <4>1
    <3>6. Wanted[Layers + e + 1] = <<"decoder", 1 + e>> /\ First(q) = <<"decoder", e + 1>>
      BY <1>4, <2>3, <2>4, <2>6, <3>1, <3>2, <3>3 DEF InStack
    <3>. QED BY <1>1, <3>4, <3>5, <3>6
  <2>. QED BY <2>5, <2>6
<1>. QED BY <1>2, <1>3, <1>4

(* The first element of one or two sequences put together.                       *)
Pieced(ss, n, a, b) ==
  /\ n <= 2 /\ ss = [j \in 1 .. n |-> ss[j]]
  /\ ss[1] = [k \in 1 .. a |-> ss[1][k]]
  /\ n = 2 => ss[2] = [k \in 1 .. b |-> ss[2][k]]

LEMMA FirstOf ==
  ASSUME NEW n \in Nat \ {0}, NEW ss, NEW a \in Nat \ {0}, NEW b \in Nat, Pieced(ss, n, a, b)
  PROVE  FlattenSeq(ss)[1] = ss[1][1]
<1>0. /\ n <= 2 /\ ss = [j \in 1 .. n |-> ss[j]]
      /\ ss[1] = [k \in 1 .. a |-> ss[1][k]]
      /\ n = 2 => ss[2] = [k \in 1 .. b |-> ss[2][k]]
  BY DEF Pieced
<1>1. PICK o : o = [j \in 0 .. 2 |-> IF j = 0 THEN 0 ELSE IF j = 1 THEN a ELSE a + b]
  OBVIOUS
<1>2. PICK g : g = [x \in Nat |-> IF x <= a THEN ss[1][x] ELSE ss[2][x - a]]
  OBVIOUS
<1>3. o[0] = 0 /\ o[1] = a /\ o[2] = a + b
  BY <1>1
<1>4. ss[1] = [k \in 1 .. a - 0 |-> g[0 + k]]
  <2>1. ASSUME NEW k \in 1 .. a PROVE g[0 + k] = ss[1][k]
    <3>1. 0 + k \in Nat /\ 0 + k <= a /\ 0 + k = k
      OBVIOUS
    <3>. QED BY <1>2, <3>1
  <2>2. a - 0 = a
    OBVIOUS
  <2>. QED BY <1>0, <2>1, <2>2
<1>5. n = 2 => ss[2] = [k \in 1 .. (a + b) - a |-> g[a + k]]
  <2>1. ASSUME NEW k \in 1 .. b PROVE g[a + k] = ss[2][k]
    <3>1. a + k \in Nat /\ ~(a + k <= a) /\ (a + k) - a = k
      OBVIOUS
    <3>. QED BY <1>2, <3>1
  <2>2. (a + b) - a = b
    OBVIOUS
  <2>. QED BY <1>0, <2>1, <2>2
<1>6. Cut(ss, n, o, g)
  <2>1. ASSUME NEW j \in 1 .. n
        PROVE  /\ o[j - 1] \in Nat /\ o[j] \in Nat /\ o[j - 1] <= o[j]
               /\ ss[j] = [k \in 1 .. o[j] - o[j - 1] |-> g[o[j - 1] + k]]
    <3>1. CASE j = 1
      BY <1>3, <1>4, <3>1
    <3>2. CASE j # 1
      <4>1. j = 2 /\ n = 2 /\ j - 1 = 1
        BY <1>0, <3>2
      <4>2. ss[2] = [k \in 1 .. o[2] - o[1] |-> g[o[1] + k]]
        BY <1>3, <1>5, <4>1
      <4>3. o[1] \in Nat /\ o[2] \in Nat /\ o[1] <= o[2]
        BY <1>3
      <4>. QED BY <4>1, <4>2, <4>3
    <3>. QED BY <3>1, <3>2
  <2>. QED BY <1>0, <1>3, <2>1 DEF Cut
<1>7. FlattenSeq(ss) = [k \in 1 .. o[n] |-> g[k]]
  BY <1>6, Joined
<1>8. 1 \in 1 .. o[n] /\ g[1] = ss[1][1]
  <2>1. n = 1 \/ n = 2
    BY <1>0
  <2>2. g[1] = ss[1][1]
    BY <1>2
  <2>. QED BY <1>3, <2>1, <2>2
<1>. QED BY <1>7, <1>8

LEMMA FirstLayer ==
  ASSUME Ready, NEW D, NEW F, Sized(args, D, F), NEW r \in Rank
  PROVE  AllLayers(r)[1] = First(PipelineRank(r))
<1>1. /\ Request(args) /\ NumChunks \in 1 .. 2 /\ args.P \in Nat \ {0}
      /\ PipelineRank(r) \in 0 .. args.P - 1
  BY EqualParts, Spots DEF Ready, Inv, Spot
<1>2. PICK K, q, N : K = NumChunks /\ q = PipelineRank(r) /\ N = NumPipelines(args)
  OBVIOUS
<1>3. Gets(r, N)
  BY <1>2, Getters
<1>4. \A v \in 0 .. K - 1 : Laid(r, v, v * args.P + q)
  <2>1. q \in 0 .. args.P - 1 /\ PipelineRank(r) = q
    BY <1>1, <1>2
  <2>. QED BY <1>1, <1>2, <1>3, <2>1, EveryHop
<1>5. PICK ss : ss = [c \in 1 .. K |-> model[r][c].layers]
  OBVIOUS
<1>6. \A c \in 1 .. K : ss[c] = Chunk(r, c - 1).layers
  BY <1>2, <1>3, <1>5 DEF Gets
<1>7. Laid(r, 0, q)
  <2>1. 0 \in 0 .. K - 1 /\ 0 * args.P + q = q
    BY <1>1, <1>2
  <2>. QED BY <1>4, <2>1
<1>8. PICK a \in Nat \ {0} : a = Met(q + 1) - Met(q)
  BY <1>1, <1>2, StageStarts
<1>9. ss[1] = [k \in 1 .. a |-> Wanted[Met(q) + k]]
  <2>1. 1 \in 1 .. K /\ 1 - 1 = 0
    BY <1>1, <1>2
  <2>. QED BY <1>6, <1>7, <1>8, <2>1 DEF Laid
<1>10. PICK b \in Nat : K = 2 => ss[2] = [k \in 1 .. b |-> ss[2][k]]
  <2>1. CASE K = 1
    BY <2>1
  <2>2. CASE K = 2
    <3>1. PICK n : n = 1 * args.P + q
      OBVIOUS
    <3>2. Laid(r, 1, n)
      <4>1. 1 \in 0 .. K - 1
        BY <2>2
      <4>. QED BY <1>4, <3>1, <4>1
    <3>3. Met(n + 1) - Met(n) \in Nat
      BY <3>2 DEF Laid
    <3>4. PICK b \in Nat : b = Met(n + 1) - Met(n)
      BY <3>3
    <3>5. ss[2] = [k \in 1 .. b |-> Wanted[Met(n) + k]]
      <4>1. 2 \in 1 .. K /\ 2 - 1 = 1
        BY <2>2
      <4>. QED BY <1>6, <3>2, <3>4, <4>1 DEF Laid
    <3>6. ss[2] = [k \in 1 .. b |-> ss[2][k]]
      BY <3>5
    <3>. QED BY <3>6
  <2>. QED BY <1>1, <1>2, <2>1, <2>2
<1>11. AllLayers(r) = FlattenSeq(ss)
  BY <1>2, <1>5 DEF AllLayers
<1>12. Pieced(ss, K, a, b)
  <2>1. ss = [j \in 1 .. K |-> ss[j]]
    BY <1>5
  <2>2. ss[1] = [k \in 1 .. a |-> ss[1][k]]
    BY <1>9
  <2>. QED BY <1>1, <1>2, <1>10, <2>1, <2>2 DEF Pieced
<1>13. FlattenSeq(ss)[1] = ss[1][1]
  <2>1. K \in Nat \ {0}
    BY <1>1, <1>2
  <2>. QED BY <1>12, <2>1, FirstOf
<1>14. ss[1][1] = Wanted[Met(q) + 1] /\ Wanted[Met(q) + 1] = First(q)
  <2>1. 1 \in 1 .. a
    OBVIOUS
  <2>. QED BY <1>1, <1>2, <1>9, <2>1, StageStarts
<1>. QED BY <1>2, <1>11, <1>13, <1>14

LEMMA LayersTell ==
  ASSUME Ready, NEW D, NEW F, Sized(args, D, F), NEW r \in Rank, NEW m \in Rank, AllLayers(r) = AllLayers(m)
  PROVE  PipelineRank(r) = PipelineRank(m)
<1>1. Request(args) /\ PipelineRank(r) \in 0 .. args.P - 1 /\ PipelineRank(m) \in 0 .. args.P - 1
  BY Spots DEF Ready, Inv, Spot
<1>2. First(PipelineRank(r)) = First(PipelineRank(m))
  BY FirstLayer
<1>. QED BY <1>1, <1>2, FirstsDiffer

(* Equal parameters.                                                             *)
LEMMA Identified ==
  ASSUME NEW r, NEW m, NEW k \in Kinds, NEW l \in Kinds, Identity(r, k) = Identity(m, l)
  PROVE  /\ k = l
         /\ k \in {"word", "weight", "expert"} => TensorRank(r) = TensorRank(m)
         /\ k \in {"weight", "norm", "expert"} => AllLayers(r) = AllLayers(m)
         /\ k = "expert" => ExpertRank(r) = ExpertRank(m)
<1>1. ASSUME NEW x, NEW h \in Kinds PROVE Identity(x, h)[1] = h
  BY DEF Identity, Kinds
<1>2. k = l
  BY <1>1
<1>3. CASE k = "word"
  BY <1>2, <1>3 DEF Identity
<1>4. CASE k = "position"
  BY <1>2, <1>4
<1>5. CASE k = "weight"
  BY <1>2, <1>5 DEF Identity
<1>6. CASE k = "norm"
  BY <1>2, <1>6 DEF Identity
<1>7. CASE k = "expert"
  BY <1>2, <1>7 DEF Identity
<1>. QED BY <1>2, <1>3, <1>4, <1>5, <1>6, <1>7 DEF Kinds

-------------------------------------------------------------------------------
(* The norms                                                                     *)

(* The model-parallel group: the ranks of one shard, stage after stage.          *)
ModelMembersOf(r) ==
  /\ Len(Group(r, "mp")) = args.P * args.T
  /\ \A n \in 1 .. args.P * args.T :
       Place(Group(r, "mp")[n], (n - 1) \div args.T, Shard(r), (n - 1) % args.T)

LEMMA ModelGroupHas ==
  ASSUME Ready, NEW D, NEW F, Sized(args, D, F), NEW r \in Rank
  PROVE  ModelMembersOf(r)
<1>1. PICK Q, T, C, E, G, N : Sizes(D, F, Q, T, C, E, G, N)
  BY SizesExist
<1>2. /\ Q \in Nat \ {0} /\ T \in Nat \ {0} /\ G \in Nat \ {0} /\ N \in Nat \ {0}
      /\ Q = args.P /\ T = args.T /\ G = D * args.C /\ N = G * T /\ N = NumPipelines(args)
  BY <1>1 DEF Sizes
<1>3. PICK g : g = Group(r, "mp")
  OBVIOUS
<1>4. PICK i \in 1 .. D * args.C : i = ModelIndex(args, r)
  BY ModelGroupOf DEF Rank
<1>5. GroupsAre(r) /\ \A x \in Rank : Spot(x, G)
  BY <1>2, GroupsOfRank, Spots
<1>6. g = ModelGroup(args, i)
  BY <1>3, <1>4, <1>5 DEF GroupsAre
<1>7. PICK B \in Nat \ {0} : B = Q * T
  BY <1>2, TimesPositive
<1>8. Len(g) = B
  BY <1>2, <1>6, <1>7 DEF ModelGroup
<1>9. ASSUME NEW n \in 1 .. B PROVE Place(g[n], (n - 1) \div T, Shard(r), (n - 1) % T)
  <2>1. Member(args, i, n, g[n])
    BY <1>2, <1>4, <1>6, <1>7, ModelMembers
  <2>2. PICK x \in Rank : x = g[n]
    BY <2>1 DEF Member, Rank
  <2>3. ModelIndex(args, x) = i /\ x = ((n - 1) \div T) * N + ((n - 1) % T) + (i - 1) * T
    BY <1>2, <2>1, <2>2 DEF Member
  <2>4. PICK p \in 0 .. Q - 1, t \in 0 .. T - 1 : p = (n - 1) \div T /\ t = (n - 1) % T
    <3>1. n - 1 \in Int /\ n - 1 \in 0 .. Q * T - 1 /\ Q \in Nat
      BY <1>2, <1>7
    <3>2. (n - 1) \div T \in 0 .. Q - 1
      BY ONLY <1>2, <3>1, QuotientBounds
    <3>3. (n - 1) % T \in 0 .. T - 1
      BY ONLY <1>2, <3>1, Division
    <3>. QED BY <3>2, <3>3
  <2>5. PICK j \in 0 .. G - 1 : j = i - 1
    BY <1>2, <1>4
  <2>6. PICK y \in 0 .. N - 1 : y = j * T + t
    <3>1. j * T + t \in 0 .. G * T - 1
      BY <1>2, Numbering
    <3>. QED BY <1>2, <3>1
  <2>7. x = p * N + y /\ x = (p * G + j) * T + t
    <3>1. (p * G + j) * T + t = p * (G * T) + (j * T + t)
      BY <1>2
    <3>2. p * N + t + j * T = p * N + (j * T + t)
      BY <1>2
    <3>. QED BY <1>2, <2>3, <2>4, <2>5, <2>6, <3>1, <3>2
  <2>8. x \div N = p
    <3>1. p \in Int
      OBVIOUS
    <3>. QED BY ONLY <1>2, <2>7, <3>1, y \in 0 .. N - 1, DivisionIs
  <2>9. x % T = t
    <3>1. PICK z \in Int : z = p * G + j
      BY <1>2
    <3>2. x = z * T + t
      BY <2>7, <3>1
    <3>. QED BY ONLY <1>2, <3>2, z \in Int, t \in 0 .. T - 1, DivisionIs
  <2>10. Shard(x) = Shard(r)
    <3>1. \A z \in Rank : ModelIndex(args, z) = Shard(z) + 1 /\ Shard(z) \in Int
      BY <1>2, <1>5 DEF ModelIndex, Shard, Spot
    <3>. QED BY <1>4, <2>3, <3>1
  <2>11. Spot(x, G)
    BY <1>5
  <2>. QED BY <1>2, <2>2, <2>4, <2>8, <2>9, <2>10, <2>11 DEF Spot, Place
<1>. QED BY <1>2, <1>3, <1>7, <1>8, <1>9 DEF ModelMembersOf

(* No two ranks put in the same parameter unless stage, tensor rank and expert    *)
(* rank are the same.                                                            *)
AtOnce(x, y) ==
  PipelineRank(x) = PipelineRank(y) /\ TensorRank(x) = TensorRank(y) /\ ExpertRank(x) = ExpertRank(y)

LEMMA NormKinds ==
  ASSUME Ready, NEW D, NEW F, Sized(args, D, F), NEW x \in Rank
  PROVE  /\ ForParamsNorm(x) \subseteq Kept(x) /\ Kept(x) \subseteq Kinds
         /\ PipelineRank(x) \in Nat /\ TensorRank(x) \in Nat /\ ExpertRank(x) \in 0 .. args.E - 1
         /\ \A k \in ForParamsNorm(x) : /\ k \in {"word", "position"} => PipelineRank(x) = 0
                                        /\ k \in {"norm", "position"} => TensorRank(x) = 0
                                        /\ k # "expert" => ExpertRank(x) = 0
<1>1. "expert" \in Kept(x) /\ ForGradNorm(x) \subseteq Kept(x) /\ Kept(x) \subseteq Kinds
  BY DEF Kept, Kinds, ForGradNorm
<1>2. PipelineRank(x) \in Nat /\ TensorRank(x) \in Nat /\ ExpertRank(x) \in 0 .. args.E - 1
  <2>1. PICK Q, T, C, E, G, N : Sizes(D, F, Q, T, C, E, G, N)
    BY SizesExist
  <2>2. Q \in Nat \ {0} /\ T \in Nat \ {0} /\ E \in Nat \ {0} /\ G \in Nat \ {0} /\ G = D * args.C
        /\ Q = args.P /\ T = args.T /\ E = args.E
    BY <2>1 DEF Sizes
  <2>3. /\ PipelineRank(x) \in 0 .. Q - 1 /\ TensorRank(x) \in 0 .. T - 1 /\ Shard(x) \in Int
    BY <2>2, Spots DEF Spot
  <2>4. Shard(x) % E \in 0 .. E - 1
    BY ONLY <2>2, <2>3, Division
  <2>5. ExpertRank(x) = Shard(x) % E
    BY <2>2, ExpertGroupHas DEF ExpertMembers
  <2>. QED BY <2>2, <2>3, <2>4, <2>5
<1>3. ASSUME NEW k \in ForParamsNorm(x)
      PROVE  /\ k \in {"word", "position"} => PipelineRank(x) = 0
             /\ k \in {"norm", "position"} => TensorRank(x) = 0
             /\ k # "expert" => ExpertRank(x) = 0
  <2>1. CASE ExpertRank(x) > 0
    BY <2>1 DEF ForParamsNorm
  <2>2. CASE ~(ExpertRank(x) > 0)
    <3>1. k \in ForGradNorm(x) /\ ExpertRank(x) = 0
      BY <1>2, <2>2 DEF ForParamsNorm
    <3>2. ~IsShared(x, k) /\ ~IsTensorDuplicate(x, k)
      BY <3>1 DEF ForGradNorm
    <3>. QED BY <1>2, <3>1, <3>2 DEF IsShared, IsTensorDuplicate
  <2>. QED BY <2>1, <2>2
<1>. QED BY <1>1, <1>2, <1>3 DEF ForParamsNorm

LEMMA OneBearer ==
  ASSUME Ready, NEW D, NEW F, Sized(args, D, F), NEW x \in Rank, NEW y \in Rank,
         NEW k \in ForParamsNorm(x), NEW l \in ForParamsNorm(y), Identity(x, k) = Identity(y, l)
  PROVE  AtOnce(x, y)
<1>1. k \in Kinds /\ l \in Kinds
  BY NormKinds
<1>2. /\ k = l
      /\ k \in {"word", "weight", "expert"} => TensorRank(x) = TensorRank(y)
      /\ k \in {"weight", "norm", "expert"} => AllLayers(x) = AllLayers(y)
      /\ k = "expert" => ExpertRank(x) = ExpertRank(y)
  BY <1>1, Identified
<1>3. /\ k \in {"word", "position"} => PipelineRank(x) = 0 /\ PipelineRank(y) = 0
      /\ k \in {"norm", "position"} => TensorRank(x) = 0 /\ TensorRank(y) = 0
      /\ k # "expert" => ExpertRank(x) = 0 /\ ExpertRank(y) = 0
  BY <1>2, NormKinds
<1>4. k \in {"weight", "norm", "expert"} => PipelineRank(x) = PipelineRank(y)
  BY <1>2, LayersTell
<1>. QED BY <1>1, <1>2, <1>3, <1>4 DEF AtOnce, Kinds

(* Every parameter is put in by the ranks of one place.                          *)
Bears(y, x, k) ==
  /\ PipelineRank(y) = IF k \in {"word", "position"} THEN 0 ELSE PipelineRank(x)
  /\ TensorRank(y) = IF k \in {"norm", "position"} THEN 0 ELSE TensorRank(x)
  /\ ExpertRank(y) = IF k = "expert" THEN ExpertRank(x) ELSE 0

LEMMA SomeBearer ==
  ASSUME Ready, NEW D, NEW F, Sized(args, D, F), NEW x \in Rank, NEW y \in Rank, NEW k \in Kept(x),
         Bears(y, x, k)
  PROVE  k \in ForParamsNorm(y) /\ Identity(y, k) = Identity(x, k)
<1>1. k \in Kinds /\ (k = "word" => HasInput(x) \/ HasHead(x)) /\ (k = "position" => HasInput(x))
  BY DEF Kept
<1>2. k \in {"weight", "norm", "expert"} => AllLayers(y) = AllLayers(x)
  <2>1. k \in {"weight", "norm", "expert"} => PipelineRank(y) = PipelineRank(x)
    BY DEF Bears
  <2>. QED BY <2>1, StagesAlike DEF Alike
<1>3. k \in {"word", "position"} => HasInput(y)
  <2>1. k \in {"word", "position"} => PipelineRank(y) = 0
    BY DEF Bears
  <2>. QED BY <2>1, Ends DEF EndsOf
<1>4. k \in Kept(y)
  BY <1>1, <1>3 DEF Kept
<1>5. ~IsShared(y, k) /\ ~IsTensorDuplicate(y, k)
  BY DEF Bears, IsShared, IsTensorDuplicate
<1>6. k \in ForParamsNorm(y)
  <2>1. CASE ExpertRank(y) > 0
    <3>1. k = "expert"
      BY <2>1 DEF Bears
    <3>. QED BY <2>1, <3>1 DEF ForParamsNorm
  <2>2. CASE ~(ExpertRank(y) > 0)
    BY <1>4, <1>5, <2>2 DEF ForParamsNorm, ForGradNorm
  <2>. QED BY <2>1, <2>2
<1>7. Identity(y, k) = Identity(x, k)
  <2>1. CASE k = "word"
    BY <2>1 DEF Identity, Bears
  <2>2. CASE k = "position"
    BY <2>2 DEF Identity
  <2>3. CASE k = "weight"
    BY <1>2, <2>3 DEF Identity, Bears
  <2>4. CASE k = "norm"
    BY <1>2, <2>4 DEF Identity
  <2>5. CASE k = "expert"
    BY <1>2, <2>5 DEF Identity, Bears
  <2>. QED BY <1>1, <2>1, <2>2, <2>3, <2>4, <2>5 DEF Kinds
<1>. QED BY <1>6, <1>7

(* What the ranks put in, and all of it.                                         *)
Ids(x) == {Identity(x, k) : k \in ForParamsNorm(x)}
AllIds == UNION {{Identity(m, k) : k \in Kept(m)} : m \in Rank}
IdsOf(g, n) == [i \in 1 .. n |-> Ids(g[i])]

(* A sum over ranks in different places.                                         *)
Apart(g, n) == Len(g) = n /\ \A i, j \in 1 .. n : g[i] \in Rank /\ (AtOnce(g[i], g[j]) => i = j)

LEMMA ApartSum ==
  ASSUME Ready, NEW D, NEW F, Sized(args, D, F), NEW g, NEW n \in Nat, Apart(g, n)
  PROVE  BagSum([i \in 1 .. n |-> SetToBag(Ids(g[i]))]) = SetToBag(AllOf(n, IdsOf(g, n)))
<1>1. PICK S : S = IdsOf(g, n)
  OBVIOUS
<1>2. PICK bags : bags = [i \in 1 .. n |-> SetToBag(Ids(g[i]))]
  OBVIOUS
<1>3. BagsOf(bags, n, S)
  BY <1>1, <1>2 DEF BagsOf, IdsOf
<1>4. ASSUME NEW i \in 1 .. n, NEW j \in 1 .. n, i # j PROVE S[i] \cap S[j] = {}
  <2>1. g[i] \in Rank /\ g[j] \in Rank /\ ~AtOnce(g[i], g[j])
    BY <1>4 DEF Apart
  <2>2. Ids(g[i]) \cap Ids(g[j]) = {}
    <3>1. SUFFICES ASSUME NEW k \in ForParamsNorm(g[i]), NEW l \in ForParamsNorm(g[j]),
                          Identity(g[i], k) = Identity(g[j], l)
                   PROVE  FALSE
      BY DEF Ids
    <3>. QED BY <2>1, <3>1, OneBearer
  <2>. QED BY <1>1, <2>2 DEF IdsOf
<1>5. Disjoint(n, S)
  BY <1>4 DEF Disjoint
<1>. QED BY <1>1, <1>2, <1>3, <1>5, BagSumIs

LEMMA IdsKept ==
  ASSUME Ready, NEW D, NEW F, Sized(args, D, F), NEW x \in Rank
  PROVE  Ids(x) \subseteq AllIds
<1>1. ForParamsNorm(x) \subseteq Kept(x)
  BY NormKinds
<1>. QED BY <1>1 DEF Ids, AllIds

(* Without expert parallelism, over the model-parallel group.                    *)
LEMMA ModelSum ==
  ASSUME Ready, NEW D, NEW F, Sized(args, D, F), NEW r \in Rank, args.E = 1
  PROVE  /\ \A x \in Rank : ForParamsNorm(x) = ForGradNorm(x)
         /\ BagSum([i \in 1 .. Len(Group(r, "mp")) |-> SetToBag(Ids(Group(r, "mp")[i]))]) = SetToBag(AllIds)
<1>1. PICK Q \in Nat \ {0}, T \in Nat \ {0} : Q = args.P /\ T = args.T
  BY DEF Sized
<1>2. PICK B \in Nat \ {0} : B = Q * T
  BY <1>1, TimesPositive
<1>3. PICK g : g = Group(r, "mp")
  OBVIOUS
<1>4. Len(g) = B /\ \A n \in 1 .. B : Place(g[n], (n - 1) \div T, Shard(r), (n - 1) % T)
  BY <1>1, <1>2, <1>3, ModelGroupHas DEF ModelMembersOf
<1>5. \A x \in Rank : ExpertRank(x) = 0
  <2>1. \A x \in Rank : ExpertRank(x) \in 0 .. args.E - 1
    BY NormKinds
  <2>. QED BY <2>1
<1>6. Apart(g, B)
  <2>1. ASSUME NEW i \in 1 .. B, NEW j \in 1 .. B, AtOnce(g[i], g[j]) PROVE i = j
    <3>1. (i - 1) \div T = (j - 1) \div T /\ (i - 1) % T = (j - 1) % T
      BY <1>4, <2>1 DEF Place, AtOnce
    <3>2. i - 1 = ((i - 1) \div T) * T + ((i - 1) % T) /\ j - 1 = ((j - 1) \div T) * T + ((j - 1) % T)
      <4>1. i - 1 \in Int /\ j - 1 \in Int
        OBVIOUS
      <4>. QED BY ONLY <4>1, T \in Nat \ {0}, Division
    <3>3. i - 1 = j - 1
      BY <3>1, <3>2
    <3>. QED BY <3>3
  <2>2. \A i \in 1 .. B : g[i] \in Rank
    BY <1>4 DEF Place
  <2>. QED BY <1>4, <2>1, <2>2 DEF Apart
<1>7. BagSum([i \in 1 .. B |-> SetToBag(Ids(g[i]))]) = SetToBag(AllOf(B, IdsOf(g, B)))
  <2>1. B \in Nat
    OBVIOUS
  <2>. QED BY <1>6, <2>1, ApartSum
<1>8. ASSUME NEW x \in Rank, NEW k \in Kept(x) PROVE Identity(x, k) \in AllOf(B, IdsOf(g, B))
  <2>1. PipelineRank(x) \in 0 .. Q - 1 /\ TensorRank(x) \in 0 .. T - 1
    BY <1>1, Spots DEF Spot
  <2>2. PICK q \in 0 .. Q - 1 : q = IF k \in {"word", "position"} THEN 0 ELSE PipelineRank(x)
    BY <2>1
  <2>3. PICK t \in 0 .. T - 1 : t = IF k \in {"norm", "position"} THEN 0 ELSE TensorRank(x)
    BY <2>1
  <2>4. q * T + t \in 0 .. Q * T - 1
    BY Numbering
  <2>5. PICK n \in 1 .. B : n - 1 = q * T + t
    <3>1. (q * T + t) + 1 \in 1 .. B /\ ((q * T + t) + 1) - 1 = q * T + t
      BY <1>2, <2>4
    <3>. QED BY <3>1
  <2>6. (n - 1) \div T = q /\ (n - 1) % T = t
    <3>1. n - 1 \in Int /\ q \in Int
      OBVIOUS
    <3>. QED BY ONLY T \in Nat \ {0}, <2>5, <3>1, t \in 0 .. T - 1, DivisionIs
  <2>7. PICK y \in Rank : y = g[n] /\ PipelineRank(y) = q /\ TensorRank(y) = t
    BY <1>4, <2>6 DEF Place
  <2>8. Bears(y, x, k)
    BY <1>5, <2>2, <2>3, <2>7 DEF Bears
  <2>9. Identity(x, k) \in Ids(y)
    <3>1. k \in ForParamsNorm(y) /\ Identity(y, k) = Identity(x, k)
      BY <2>8, SomeBearer
    <3>. QED BY <3>1 DEF Ids
  <2>. QED BY <2>7, <2>9 DEF AllOf, IdsOf
<1>9. AllOf(B, IdsOf(g, B)) = AllIds
  <2>1. AllIds \subseteq AllOf(B, IdsOf(g, B))
    BY <1>8 DEF AllIds
  <2>2. \A i \in 1 .. B : Ids(g[i]) \subseteq AllIds
    BY <1>6, IdsKept DEF Apart
  <2>3. AllOf(B, IdsOf(g, B)) \subseteq AllIds
    BY <2>2 DEF AllOf, IdsOf
  <2>. QED BY <2>1, <2>3
<1>10. \A x \in Rank : ForParamsNorm(x) = ForGradNorm(x)
  BY <1>5 DEF ForParamsNorm
<1>. QED BY <1>3, <1>4, <1>7, <1>9, <1>10

(* With it, first over the tensor and expert parallel group: what a stage puts in. *)
StageIds(q) == UNION {Ids(x) : x \in {z \in Rank : PipelineRank(z) = q}}

LEMMA StageSum ==
  ASSUME Ready, NEW D, NEW F, Sized(args, D, F), NEW r \in Rank
  PROVE  /\ BagSum([i \in 1 .. Len(Group(r, "exp")) |-> SetToBag(Ids(Group(r, "exp")[i]))])
              = SetToBag(StageIds(PipelineRank(r)))
         /\ \A t \in 0 .. args.T - 1, e \in 0 .. args.E - 1 : \E y \in Range(Group(r, "exp")) :
              y \in Rank /\ PipelineRank(y) = PipelineRank(r) /\ TensorRank(y) = t /\ ExpertRank(y) = e
<1>1. PICK E \in Nat \ {0}, T \in Nat \ {0} : E = args.E /\ T = args.T
  BY DEF Sized
<1>2. PICK B \in Nat \ {0} : B = E * T
  BY <1>1, TimesPositive
<1>3. PICK g : g = Group(r, "exp")
  OBVIOUS
<1>4. /\ Len(g) = B /\ DOMAIN g = 1 .. B
      /\ \A n \in 1 .. B : /\ g[n] \in Rank /\ PipelineRank(g[n]) = PipelineRank(r)
                           /\ ExpertRank(g[n]) = (n - 1) \div T /\ TensorRank(g[n]) = (n - 1) % T
  <2>1. ExpertMembers(r) /\ \A x \in Rank : ExpertRank(x) = Shard(x) % E
    BY <1>1, ExpertGroupHas DEF ExpertMembers
  <2>. QED BY <1>1, <1>2, <1>3, <2>1 DEF ExpertMembers, ExpertPlace
<1>5. Apart(g, B)
  <2>1. ASSUME NEW i \in 1 .. B, NEW j \in 1 .. B, AtOnce(g[i], g[j]) PROVE i = j
    <3>1. (i - 1) \div T = (j - 1) \div T /\ (i - 1) % T = (j - 1) % T
      BY <1>4, <2>1 DEF AtOnce
    <3>2. i - 1 = ((i - 1) \div T) * T + ((i - 1) % T) /\ j - 1 = ((j - 1) \div T) * T + ((j - 1) % T)
      <4>1. i - 1 \in Int /\ j - 1 \in Int
        OBVIOUS
      <4>. QED BY ONLY <4>1, T \in Nat \ {0}, Division
    <3>3. i - 1 = j - 1
      BY <3>1, <3>2
    <3>. QED BY <3>3
  <2>. QED BY <1>4, <2>1 DEF Apart
<1>6. BagSum([i \in 1 .. B |-> SetToBag(Ids(g[i]))]) = SetToBag(AllOf(B, IdsOf(g, B)))
  <2>1. B \in Nat
    OBVIOUS
  <2>. QED BY <1>5, <2>1, ApartSum
<1>7. ASSUME NEW t \in 0 .. T - 1, NEW e \in 0 .. E - 1
      PROVE  \E n \in 1 .. B : TensorRank(g[n]) = t /\ ExpertRank(g[n]) = e
  <2>1. e * T + t \in 0 .. E * T - 1
    BY Numbering
  <2>2. PICK n \in 1 .. B : n - 1 = e * T + t
    <3>1. (e * T + t) + 1 \in 1 .. B /\ ((e * T + t) + 1) - 1 = e * T + t
      BY <1>2, <2>1
    <3>. QED BY <3>1
  <2>3. (n - 1) \div T = e /\ (n - 1) % T = t
    <3>1. n - 1 \in Int /\ e \in Int
      OBVIOUS
    <3>. QED BY ONLY T \in Nat \ {0}, <2>2, <3>1, t \in 0 .. T - 1, DivisionIs
  <2>. QED BY <1>4, <2>3
<1>8. ASSUME NEW x \in Rank, PipelineRank(x) = PipelineRank(r), NEW k \in ForParamsNorm(x)
      PROVE  Identity(x, k) \in AllOf(B, IdsOf(g, B))
  <2>1. TensorRank(x) \in 0 .. T - 1 /\ ExpertRank(x) \in 0 .. E - 1
    BY <1>1, Spots, NormKinds DEF Spot
  <2>2. PICK n \in 1 .. B : TensorRank(g[n]) = TensorRank(x) /\ ExpertRank(g[n]) = ExpertRank(x)
    BY <1>7, <2>1
  <2>3. PICK y \in Rank : y = g[n] /\ AtOnce(x, y)
    BY <1>4, <1>8, <2>2 DEF AtOnce
  <2>4. Bears(y, x, k) /\ k \in Kept(x)
    BY <2>3, NormKinds DEF Bears, AtOnce
  <2>5. Identity(x, k) \in Ids(y)
    <3>1. k \in ForParamsNorm(y) /\ Identity(y, k) = Identity(x, k)
      BY <2>4, SomeBearer
    <3>. QED BY <3>1 DEF Ids
  <2>. QED BY <2>3, <2>5 DEF AllOf, IdsOf
<1>9. AllOf(B, IdsOf(g, B)) = StageIds(PipelineRank(r))
  <2>1. StageIds(PipelineRank(r)) \subseteq AllOf(B, IdsOf(g, B))
    BY <1>8 DEF StageIds, Ids
  <2>2. \A i \in 1 .. B : Ids(g[i]) \subseteq StageIds(PipelineRank(r))
    BY <1>4 DEF StageIds
  <2>3. AllOf(B, IdsOf(g, B)) \subseteq StageIds(PipelineRank(r))
    BY <2>2 DEF AllOf, IdsOf
  <2>. QED BY <2>1, <2>3
<1>10. ASSUME NEW t \in 0 .. T - 1, NEW e \in 0 .. E - 1
       PROVE  \E y \in Range(g) : y \in Rank /\ PipelineRank(y) = PipelineRank(r) /\ TensorRank(y) = t
                                  /\ ExpertRank(y) = e
  <2>1. PICK n \in 1 .. B : TensorRank(g[n]) = t /\ ExpertRank(g[n]) = e
    BY <1>7
  <2>2. g[n] \in Range(g)
    BY <1>4 DEF Range
  <2>. QED BY <1>4, <2>1, <2>2
<1>. QED BY <1>1, <1>3, <1>4, <1>6, <1>9, <1>10

(* Then over the pipeline.                                                       *)
LEMMA PipelineSum ==
  ASSUME Ready, NEW D, NEW F, Sized(args, D, F), NEW r \in Rank
  PROVE  BagSum([i \in 1 .. Len(Group(r, "pp")) |-> SetToBag(StageIds(PipelineRank(Group(r, "pp")[i])))])
           = SetToBag(AllIds)
<1>1. PICK Q \in Nat \ {0} : Q = args.P
  BY DEF Sized
<1>2. PICK g : g = Group(r, "pp")
  OBVIOUS
<1>3. Len(g) = Q /\ \A n \in 1 .. Q : g[n] \in Rank /\ PipelineRank(g[n]) = n - 1
  BY <1>1, <1>2, PipelineGroupHas DEF PipelineMembers, Place
<1>4. PICK S : S = [i \in 1 .. Q |-> StageIds(i - 1)]
  OBVIOUS
<1>5. PICK bags : bags = [i \in 1 .. Q |-> SetToBag(StageIds(PipelineRank(g[i])))]
  OBVIOUS
<1>6. BagsOf(bags, Q, S)
  BY <1>3, <1>4, <1>5 DEF BagsOf
<1>7. ASSUME NEW i \in 1 .. Q, NEW j \in 1 .. Q, i # j PROVE S[i] \cap S[j] = {}
  <2>1. SUFFICES ASSUME NEW x \in Rank, PipelineRank(x) = i - 1, NEW y \in Rank, PipelineRank(y) = j - 1,
                        NEW k \in ForParamsNorm(x), NEW l \in ForParamsNorm(y), Identity(x, k) = Identity(y, l)
                 PROVE  FALSE
    BY <1>4 DEF StageIds, Ids
  <2>2. PipelineRank(x) = PipelineRank(y)
    BY <2>1, OneBearer DEF AtOnce
  <2>. QED BY <1>7, <2>1, <2>2
<1>8. BagSum(bags) = SetToBag(AllOf(Q, S))
  <2>1. Q \in Nat /\ Disjoint(Q, S)
    BY <1>7 DEF Disjoint
  <2>. QED BY <1>6, <2>1, BagSumIs
<1>9. ASSUME NEW x \in Rank, NEW k \in Kept(x) PROVE Identity(x, k) \in AllOf(Q, S)
  <2>1. /\ PipelineRank(x) \in 0 .. Q - 1 /\ TensorRank(x) \in 0 .. args.T - 1 /\ ExpertRank(x) \in 0 .. args.E - 1
        /\ args.T \in Nat \ {0} /\ args.E \in Nat \ {0}
    BY <1>1, Spots, NormKinds DEF Spot, Sized
  <2>2. PICK q \in 0 .. Q - 1 : q = IF k \in {"word", "position"} THEN 0 ELSE PipelineRank(x)
    BY <2>1
  <2>3. PICK t \in 0 .. args.T - 1 : t = IF k \in {"norm", "position"} THEN 0 ELSE TensorRank(x)
    BY <2>1
  <2>4. PICK e \in 0 .. args.E - 1 : e = IF k = "expert" THEN ExpertRank(x) ELSE 0
    BY <2>1
  <2>5. PICK i \in 1 .. Q : i - 1 = q
    <3>1. q + 1 \in 1 .. Q /\ (q + 1) - 1 = q
      OBVIOUS
    <3>. QED BY <3>1
  <2>6. PICK m \in Rank : PipelineRank(m) = q
    BY <1>3, <2>5
  <2>7. PICK y \in Rank : PipelineRank(y) = q /\ TensorRank(y) = t /\ ExpertRank(y) = e
    <3>1. \A b \in 0 .. args.T - 1, c \in 0 .. args.E - 1 : \E y \in Range(Group(m, "exp")) :
            y \in Rank /\ PipelineRank(y) = PipelineRank(m) /\ TensorRank(y) = b /\ ExpertRank(y) = c
      BY StageSum
    <3>. QED BY <2>6, <3>1
  <2>8. Bears(y, x, k)
    BY <2>2, <2>3, <2>4, <2>7 DEF Bears
  <2>9. Identity(x, k) \in Ids(y)
    <3>1. k \in ForParamsNorm(y) /\ Identity(y, k) = Identity(x, k)
      BY <2>8, SomeBearer
    <3>. QED BY <3>1 DEF Ids
  <2>10. Identity(x, k) \in S[i]
    BY <1>4, <2>5, <2>7, <2>9 DEF StageIds
  <2>. QED BY <2>10 DEF AllOf
<1>10. AllOf(Q, S) = AllIds
  <2>1. AllIds \subseteq AllOf(Q, S)
    BY <1>9 DEF AllIds
  <2>2. \A i \in 1 .. Q : S[i] \subseteq AllIds
    BY <1>4, IdsKept DEF StageIds
  <2>3. AllOf(Q, S) \subseteq AllIds
    BY <2>2 DEF AllOf
  <2>. QED BY <2>1, <2>3
<1>. QED BY <1>2, <1>3, <1>5, <1>8, <1>10

LEMMA ParamsNorm ==
  ASSUME Ready, NEW D, NEW F, Sized(args, D, F), LogParamsNorm
  PROVE  \A r \in Rank : params_norm'[r] = SetToBag(AllIds)
<1>. DEFINE Counted(m) == SetToBag({Identity(m, k) : k \in ForParamsNorm(m)})
            OverModel(r) == BagSum([i \in 1 .. Len(Group(r, "mp")) |-> Counted(Group(r, "mp")[i])])
            OverExperts(m) == BagSum([i \in 1 .. Len(Group(m, "exp")) |-> Counted(Group(m, "exp")[i])])
            OverStages(r) == BagSum([i \in 1 .. Len(Group(r, "pp")) |-> OverExperts(Group(r, "pp")[i])])
<1>1. \A m : Counted(m) = SetToBag(Ids(m))
  BY DEF Ids
<1>2. params_norm' = [r \in Rank |-> IF Len(Group(r, "exp")) = TensorSize(r) THEN OverModel(r) ELSE OverStages(r)]
  BY DEF LogParamsNorm, SumOver
<1>3. ASSUME NEW r \in Rank PROVE Len(Group(r, "exp")) = TensorSize(r) => args.E = 1
  <2>1. PICK E \in Nat \ {0}, T \in Nat \ {0} : E = args.E /\ T = args.T
    BY DEF Sized
  <2>2. Len(Group(r, "exp")) = E * T /\ TensorSize(r) = T
    BY <2>1, ExpertGroupHas, Spots DEF ExpertMembers, Spot
  <2>3. ASSUME E * T = T PROVE E = 1
    <3>1. E * T < (1 + 1) * T
      BY <2>3
    <3>2. E < 1 + 1
      <4>1. E \in Int /\ 1 + 1 \in Int
        OBVIOUS
      <4>. QED BY ONLY <3>1, <4>1, T \in Nat \ {0}, TimesCancel
    <3>. QED BY <3>2
  <2>. QED BY <2>1, <2>2, <2>3
<1>4. ASSUME NEW r \in Rank, args.E = 1 PROVE OverModel(r) = SetToBag(AllIds)
  <2>1. OverModel(r) = BagSum([i \in 1 .. Len(Group(r, "mp")) |-> SetToBag(Ids(Group(r, "mp")[i]))])
    BY <1>1
  <2>. QED BY <1>4, <2>1, ModelSum
<1>5. ASSUME NEW m \in Rank PROVE OverExperts(m) = SetToBag(StageIds(PipelineRank(m)))
  <2>1. OverExperts(m) = BagSum([i \in 1 .. Len(Group(m, "exp")) |-> SetToBag(Ids(Group(m, "exp")[i]))])
    BY <1>1
  <2>. QED BY <2>1, StageSum
<1>6. ASSUME NEW r \in Rank PROVE OverStages(r) = SetToBag(AllIds)
  <2>1. \A i \in 1 .. Len(Group(r, "pp")) : Group(r, "pp")[i] \in Rank
    BY PipelineGroupHas DEF PipelineMembers, Place
  <2>2. [i \in 1 .. Len(Group(r, "pp")) |-> OverExperts(Group(r, "pp")[i])]
          = [i \in 1 .. Len(Group(r, "pp")) |-> SetToBag(StageIds(PipelineRank(Group(r, "pp")[i])))]
    BY <1>5, <2>1
  <2>. QED BY <2>2, PipelineSum
<1>. HIDE DEF OverModel, OverStages
<1>. QED BY <1>2, <1>3, <1>4, <1>6

LEMMA GradNorm ==
  ASSUME Ready, NEW D, NEW F, Sized(args, D, F), ClipGradNorm, args.E = 1
  PROVE  \A r \in Rank : grad_norm'[r] = SetToBag(AllIds)
<1>. DEFINE Counted(m) == SetToBag({Identity(m, k) : k \in ForGradNorm(m)})
            OverModel(r) == BagSum([i \in 1 .. Len(Group(r, "mp")) |-> Counted(Group(r, "mp")[i])])
<1>1. grad_norm' = [r \in Rank |-> OverModel(r)]
  BY DEF ClipGradNorm, SumOver
<1>2. ASSUME NEW r \in Rank PROVE OverModel(r) = SetToBag(AllIds)
  <2>1. \A x \in Rank : Counted(x) = SetToBag(Ids(x))
    BY ModelSum DEF Ids
  <2>2. \A i \in 1 .. Len(Group(r, "mp")) : Group(r, "mp")[i] \in Rank
    BY ModelGroupHas DEF ModelMembersOf, Place
  <2>3. [i \in 1 .. Len(Group(r, "mp")) |-> Counted(Group(r, "mp")[i])]
          = [i \in 1 .. Len(Group(r, "mp")) |-> SetToBag(Ids(Group(r, "mp")[i]))]
    BY <2>1, <2>2
  <2>. QED BY <2>3, ModelSum
<1>. HIDE DEF OverModel
<1>. QED BY <1>1, <1>2

(* The norms stay what they were once they are known.                            *)
LEMMA SameIds ==
  ASSUME UNCHANGED <<args, mpu, model>>
  PROVE  AllIds' = AllIds
<1>1. Rank' = Rank /\ (\A r : Kept(r)' = Kept(r)) /\ \A r, k : Identity(r, k)' = Identity(r, k)
  BY SameContents
<1>. QED BY <1>1 DEF AllIds

LEMMA NormStep ==
  ASSUME Inv, NormCountsOnce, [Next]_vars
  PROVE  NormCountsOnce'
<1>1. PICK D, F : Sized(args, D, F)
  BY SizesOf DEF Inv
<1>2. EveryParameter = SetToBag(AllIds) /\ EveryParameter' = SetToBag(AllIds')
  BY DEF EveryParameter, AllIds
<1>3. CASE ClipGradNorm
  <2>1. phase = "finalized" /\ phase' = "clipped" /\ UNCHANGED <<args, mpu, model>>
    BY <1>3 DEF ClipGradNorm
  <2>2. Ready /\ AllIds' = AllIds /\ Rank' = Rank
    BY <2>1, SameIds, SameContents DEF Ready
  <2>3. args.E = 1 => \A r \in Rank : grad_norm'[r] = SetToBag(AllIds)
    BY <1>1, <1>3, <2>2, GradNorm
  <2>. QED BY <1>2, <2>1, <2>2, <2>3 DEF NormCountsOnce
<1>4. CASE LogParamsNorm
  <2>1. phase = "clipped" /\ phase' = "logged" /\ UNCHANGED <<args, mpu, model>>
    BY <1>4 DEF LogParamsNorm
  <2>2. Ready /\ AllIds' = AllIds /\ Rank' = Rank
    BY <2>1, SameIds, SameContents DEF Ready
  <2>3. \A r \in Rank : params_norm'[r] = SetToBag(AllIds)
    BY <1>1, <1>4, <2>2, ParamsNorm
  <2>. QED BY <1>2, <2>1, <2>2, <2>3 DEF NormCountsOnce
<1>5. CASE (\E a \in Requests(args.world) : Initialize(a)) \/ BuildModel \/ Backward \/ SyncGrads
           \/ LayernormGrads \/ EmbeddingGrads \/ ExpertGrads \/ Destroy
  <2>1. phase' \notin {"clipped", "logged"}
    BY <1>5 DEF Initialize, BuildModel, Backward, SyncGrads, LayernormGrads, EmbeddingGrads, ExpertGrads,
                Destroy
  <2>. QED BY <2>1 DEF NormCountsOnce
<1>6. CASE UNCHANGED vars
  <2>1. UNCHANGED <<args, mpu, model, phase, grad_norm, params_norm>>
    BY <1>6 DEF vars, norms
  <2>2. AllIds' = AllIds /\ Rank' = Rank
    BY <2>1, SameIds, SameContents
  <2>. QED BY <1>2, <2>1, <2>2 DEF NormCountsOnce
<1>. QED BY <1>3, <1>4, <1>5, <1>6 DEF Next

(* In every accepted layout the norms have every parameter of the model once, on  *)
(* every rank, although its copies and shards are spread over all of them.       *)
THEOREM Norms == Spec => []NormCountsOnce
<1>1. Init => Inv /\ NormCountsOnce
  <2>1. Init => NormCountsOnce
    BY DEF Init, NormCountsOnce
  <2>. QED BY <2>1, InitInv
<1>2. (Inv /\ NormCountsOnce) /\ [Next]_vars => (Inv /\ NormCountsOnce)'
  BY NextInv, NormStep
<1>. QED BY <1>1, <1>2, PTL DEF Spec
====
