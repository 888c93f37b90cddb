---------------------------- MODULE LedgerProofs ----------------------------
(***************************************************************************)
(* Theorems about Ledger, for any number of tenants and reservations, any  *)
(* int64 amounts and limits and any calendar.  They rest on facts about    *)
(* arithmetic that wraps around and on facts about sums over finite        *)
(* sets, proved first: an induction over the subsets of a finite set is    *)
(* written as "a minimal subset for which the fact fails" (MinimalSubset). *)
(***************************************************************************)
EXTENDS Ledger, FiniteSetTheorems, WellFoundedInduction, TLAPS

-----------------------------------------------------------------------------
(* A nonempty set of subsets of a finite set has a minimal member. *)
LEMMA MinimalSubset ==
  ASSUME NEW S, IsFiniteSet(S), NEW T, T \subseteq SUBSET S, T # {}
  PROVE  \E s \in T : \A u \in SUBSET s : u # s => u \notin T
<1> DEFINE R == StrictSubsetOrdering(S)
<1>1. IsWellFoundedOn(R, SUBSET S)
  BY FS_StrictSubsetOrderingWellFounded, FS_FiniteSubsetsOfFinite
<1>2. \A s \in SUBSET S : \A u \in SUBSET s : u # s => <<u, s>> \in R
  BY DEF StrictSubsetOrdering
<1> HIDE DEF R
<1>3. \E s \in T : \A u \in T : ~ (<<u, s>> \in R)
  BY <1>1, WFMin
<1> QED BY <1>2, <1>3

(* The member of s that a fold over s takes first.                          *)
Pick(s) == CHOOSE x \in s : TRUE

(* A nonempty set has a first member.                                       *)
LEMMA PickIn == ASSUME NEW s, s # {} PROVE Pick(s) \in s
BY DEF Pick

(* The recursion of MapThenSumSet: the functions h that satisfy it on the   *)
(* subsets of S, and the one the fold chooses.                              *)
Step(h, f, s) == IF s = {} THEN 0 ELSE f[Pick(s)] + h[s \ {Pick(s)}]
Fix(h, f, S) == h = [s \in SUBSET S |-> Step(h, f, s)]
Iter(f, S) == CHOOSE h : Fix(h, f, S)

(* Sum, which counts usage and reservations, is that recursion.             *)
LEMMA SumIsIter == ASSUME NEW f, NEW S PROVE Sum(f, S) = Iter(f, S)[S]
BY DEF Sum, Iter, Fix, Step, Pick, MapThenSumSet, MapThenFoldSet

(* Solutions of the recursion over S and over a part U of it agree on U.    *)
LEMMA FixUnique ==
  ASSUME NEW f, NEW S, IsFiniteSet(S), NEW U \in SUBSET S,
         NEW h, Fix(h, f, S), NEW k, Fix(k, f, U)
  PROVE  h[U] = k[U]
<1> DEFINE Bad == {s \in SUBSET U : h[s] # k[s]}
<1> SUFFICES ASSUME Bad # {} PROVE FALSE
  OBVIOUS
<1>1. IsFiniteSet(U)
  BY FS_Subset
<1>2. PICK s \in Bad : \A u \in SUBSET s : u # s => u \notin Bad
  <2> HIDE DEF Bad
  <2>1. Bad \subseteq SUBSET U
    BY DEF Bad
  <2> QED BY <1>1, <2>1, MinimalSubset
<1>3. h[s] = Step(h, f, s) /\ k[s] = Step(k, f, s)
  <2>1. s \in SUBSET S /\ s \in SUBSET U
    OBVIOUS
  <2> QED BY <2>1 DEF Fix
<1>4. CASE s = {}
  BY <1>3, <1>4 DEF Step
<1>5. CASE s # {}
  <2>1. Pick(s) \in s
    BY <1>5, PickIn
  <2>2. h[s \ {Pick(s)}] = k[s \ {Pick(s)}]
    BY <1>2, <2>1
  <2> QED BY <1>3, <1>5, <2>2 DEF Step
<1> QED BY <1>4, <1>5

(* Over a finite set the recursion has a solution, so CHOOSE finds one.     *)
LEMMA FixExists ==
  ASSUME NEW f, NEW S, IsFiniteSet(S)
  PROVE  Fix(Iter(f, S), f, S)
<1> DEFINE Bad == {s \in SUBSET S : ~ \E h : Fix(h, f, s)}
<1>1. Bad = {}
  <2> SUFFICES ASSUME Bad # {} PROVE FALSE
    OBVIOUS
  <2>1. PICK s \in Bad : \A u \in SUBSET s : u # s => u \notin Bad
    <3>1. Bad \subseteq SUBSET S
      OBVIOUS
    <3> HIDE DEF Bad
    <3> QED BY <3>1, MinimalSubset
  <2>2. s \in SUBSET S /\ IsFiniteSet(s) /\ ~ \E h : Fix(h, f, s)
    BY FS_Subset
  <2>3. \A u \in SUBSET s : u # s => Fix(Iter(f, u), f, u)
    <3>1. \A u \in SUBSET s : u # s => \E h : Fix(h, f, u)
      BY <2>1, <2>2
    <3> QED BY <3>1 DEF Iter
  <2> HIDE DEF Bad
  <2> DEFINE v(u) == Iter(f, u)[u]
             g == [u \in SUBSET s |-> IF u = s THEN Step([w \in SUBSET s |-> v(w)], f, s) ELSE v(u)]
  <2>4. ASSUME NEW u \in SUBSET s PROVE g[u] = Step(g, f, u)
    <3>1. CASE u = {}
      <4>1. CASE s = {}
        BY <3>1, <4>1 DEF Step
      <4>2. CASE s # {}
        <5>1. Fix(Iter(f, u), f, u)
          BY <2>3, <3>1, <4>2
        <5>2. Iter(f, u)[u] = Step(Iter(f, u), f, u)
          BY <5>1 DEF Fix
        <5> QED BY <3>1, <4>2, <5>2 DEF Step
      <4> QED BY <4>1, <4>2
    <3>2. CASE u # {}
      <4> DEFINE w == u \ {Pick(u)}
      <4>1. Pick(u) \in u /\ w \in SUBSET u /\ w # u /\ w # s /\ w \in SUBSET s
        BY <3>2, PickIn
      <4>2. g[w] = v(w)
        BY <4>1
      <4>3. CASE u = s
        BY <3>2, <4>1, <4>2, <4>3 DEF Step
      <4>4. CASE u # s
        <5>1. Fix(Iter(f, u), f, u) /\ Fix(Iter(f, w), f, w) /\ IsFiniteSet(u)
          BY <2>2, <2>3, <4>1, <4>4, FS_Subset
        <5>2. Iter(f, u)[w] = Iter(f, w)[w]
          BY <4>1, <5>1, FixUnique
        <5>3. Iter(f, u)[u] = Step(Iter(f, u), f, u)
          BY <5>1 DEF Fix
        <5>4. Iter(f, u)[u] = f[Pick(u)] + Iter(f, u)[w]
          BY <3>2, <5>3 DEF Step
        <5>5. g[u] = Iter(f, u)[u]
          BY <4>4
        <5> HIDE DEF g
        <5> QED BY <3>2, <4>2, <5>2, <5>4, <5>5 DEF Step
      <4> QED BY <4>3, <4>4
    <3> QED BY <3>1, <3>2
  <2>5. g = [u \in SUBSET s |-> g[u]]
    OBVIOUS
  <2> HIDE DEF g
  <2>6. Fix(g, f, s)
    BY <2>4, <2>5 DEF Fix
  <2> QED BY <2>2, <2>6
<1>2. \E h : Fix(h, f, S)
  BY <1>1
<1> QED BY <1>2 DEF Iter

(* The sum over no reservations is zero.                                    *)
LEMMA SumEmpty == \A f : Sum(f, {}) = 0
<1> SUFFICES ASSUME NEW f PROVE Sum(f, {}) = 0
  OBVIOUS
<1>1. Fix(Iter(f, {}), f, {})
  BY FixExists, FS_EmptySet
<1> QED BY <1>1, SumIsIter DEF Fix, Step

(* A sum is its first term and the sum of the rest.                         *)
LEMMA SumPick ==
  ASSUME NEW f, NEW S, IsFiniteSet(S), S # {}
  PROVE  Pick(S) \in S /\ Sum(f, S) = f[Pick(S)] + Sum(f, S \ {Pick(S)})
<1> DEFINE w == S \ {Pick(S)}
<1>1. Pick(S) \in S /\ w \in SUBSET S /\ IsFiniteSet(w)
  BY PickIn, FS_Subset
<1>2. Fix(Iter(f, S), f, S) /\ Fix(Iter(f, w), f, w)
  BY <1>1, FixExists
<1>3. Iter(f, S)[w] = Iter(f, w)[w]
  BY <1>1, <1>2, FixUnique
<1>4. Iter(f, S)[S] = Step(Iter(f, S), f, S)
  BY <1>2 DEF Fix
<1>5. Iter(f, S)[S] = f[Pick(S)] + Iter(f, S)[w]
  BY <1>4 DEF Step
<1> HIDE DEF w
<1>6. Sum(f, S) = f[Pick(S)] + Sum(f, w)
  BY <1>3, <1>5, SumIsIter
<1> QED BY <1>1, <1>6 DEF w

(* A sum of integers is an integer.                                         *)
LEMMA SumInt ==
  ASSUME NEW f, NEW S, IsFiniteSet(S), \A x \in S : f[x] \in Int
  PROVE  Sum(f, S) \in Int
<1> DEFINE Bad == {s \in SUBSET S : Sum(f, s) \notin Int}
<1> SUFFICES ASSUME Bad # {} PROVE FALSE
  OBVIOUS
<1>1. PICK s \in Bad : \A u \in SUBSET s : u # s => u \notin Bad
  <2>1. Bad \subseteq SUBSET S
    OBVIOUS
  <2> HIDE DEF Bad
  <2> QED BY <2>1, MinimalSubset
<1>2. IsFiniteSet(s) /\ s # {}
  <2>1. Sum(f, {}) \in Int
    BY SumEmpty
  <2> QED BY <2>1, FS_Subset
<1>3. Pick(s) \in s /\ Sum(f, s) = f[Pick(s)] + Sum(f, s \ {Pick(s)})
  BY <1>2, SumPick
<1>4. Sum(f, s \ {Pick(s)}) \in Int
  BY <1>1, <1>3
<1>5. f[Pick(s)] \in Int
  BY <1>3
<1> QED BY <1>3, <1>4, <1>5

(* A sum of natural numbers is one.                                         *)
LEMMA SumNat ==
  ASSUME NEW f, NEW S, IsFiniteSet(S), \A x \in S : f[x] \in Nat
  PROVE  Sum(f, S) \in Nat
<1> DEFINE Bad == {s \in SUBSET S : Sum(f, s) \notin Nat}
<1> SUFFICES ASSUME Bad # {} PROVE FALSE
  OBVIOUS
<1>1. PICK s \in Bad : \A u \in SUBSET s : u # s => u \notin Bad
  <2>1. Bad \subseteq SUBSET S
    OBVIOUS
  <2> HIDE DEF Bad
  <2> QED BY <2>1, MinimalSubset
<1>2. IsFiniteSet(s) /\ s # {}
  <2>1. Sum(f, {}) \in Nat
    BY SumEmpty
  <2> QED BY <2>1, FS_Subset
<1>3. Pick(s) \in s /\ Sum(f, s) = f[Pick(s)] + Sum(f, s \ {Pick(s)})
  BY <1>2, SumPick
<1>4. Sum(f, s \ {Pick(s)}) \in Nat
  BY <1>1, <1>3
<1>5. f[Pick(s)] \in Nat
  BY <1>3
<1> QED BY <1>3, <1>4, <1>5

(* Any term, not only the first, can be taken out of a sum.                 *)
LEMMA SumRemove ==
  ASSUME NEW f, NEW S, IsFiniteSet(S), \A x \in S : f[x] \in Int, NEW x \in S
  PROVE  Sum(f, S) = Sum(f, S \ {x}) + f[x]
<1> DEFINE Good(s) == \A y \in s : Sum(f, s) = Sum(f, s \ {y}) + f[y]
           Bad == {s \in SUBSET S : ~Good(s)}
<1> SUFFICES ASSUME Bad # {} PROVE FALSE
  OBVIOUS
<1>1. PICK s \in Bad : \A u \in SUBSET s : u # s => u \notin Bad
  <2>1. Bad \subseteq SUBSET S
    OBVIOUS
  <2> HIDE DEF Bad
  <2> QED BY <2>1, MinimalSubset
<1>2. PICK y \in s : Sum(f, s) # Sum(f, s \ {y}) + f[y]
  OBVIOUS
<1>3. s \in SUBSET S /\ IsFiniteSet(s) /\ \A z \in s : f[z] \in Int
  BY FS_Subset
<1>4. \A u \in SUBSET s : u # s => Good(u)
  BY <1>1, <1>3
<1>5. \A u \in SUBSET s : Sum(f, u) \in Int
  <2> SUFFICES ASSUME NEW u \in SUBSET s PROVE Sum(f, u) \in Int
    OBVIOUS
  <2>1. IsFiniteSet(u) /\ \A z \in u : f[z] \in Int
    BY <1>3, FS_Subset
  <2> QED BY <2>1, SumInt
<1> DEFINE c == Pick(s)
<1>6. c \in s /\ Sum(f, s) = f[c] + Sum(f, s \ {c})
  BY <1>2, <1>3, SumPick
<1> HIDE DEF c, Bad
<1>7. CASE c = y
  <2>1. Sum(f, s \ {c}) \in Int /\ f[c] \in Int
    BY <1>3, <1>5, <1>6
  <2> QED BY <1>2, <1>6, <1>7, <2>1
<1>8. CASE c # y
  <2>1. Sum(f, s \ {c}) = Sum(f, (s \ {c}) \ {y}) + f[y]
    <3>1. y \in s \ {c} /\ s \ {c} \in SUBSET s /\ s \ {c} # s
      BY <1>6, <1>8
    <3> QED BY <1>4, <3>1
  <2>2. Sum(f, s \ {y}) = Sum(f, (s \ {y}) \ {c}) + f[c]
    <3>1. c \in s \ {y} /\ s \ {y} \in SUBSET s /\ s \ {y} # s
      BY <1>6, <1>8
    <3> QED BY <1>4, <3>1
  <2>3. (s \ {y}) \ {c} = (s \ {c}) \ {y}
    OBVIOUS
  <2>4. /\ Sum(f, (s \ {c}) \ {y}) \in Int
        /\ f[c] \in Int /\ f[y] \in Int
    BY <1>3, <1>5, <1>6
  <2>5. Sum(f, s \ {y}) = Sum(f, (s \ {c}) \ {y}) + f[c]
    BY <2>2, <2>3
  <2>6. Sum(f, s) = f[c] + (Sum(f, (s \ {c}) \ {y}) + f[y])
    BY <1>6, <2>1
  <2>7. Sum(f, s) = Sum(f, s \ {y}) + f[y]
    BY <2>4, <2>5, <2>6
  <2> QED BY <1>2, <2>7
<1> QED BY <1>7, <1>8

(* A new term adds its value to a sum.                                      *)
LEMMA SumAdd ==
  ASSUME NEW f, NEW S, IsFiniteSet(S), NEW x, x \notin S,
         \A y \in S \cup {x} : f[y] \in Int
  PROVE  Sum(f, S \cup {x}) = Sum(f, S) + f[x]
<1>1. IsFiniteSet(S \cup {x}) /\ (S \cup {x}) \ {x} = S /\ x \in S \cup {x}
  BY FS_AddElement
<1> QED BY <1>1, SumRemove

(* Functions that agree on a set have the same sum over it.                 *)
LEMMA SumAgree ==
  ASSUME NEW f, NEW g, NEW S, IsFiniteSet(S), \A x \in S : f[x] = g[x]
  PROVE  Sum(f, S) = Sum(g, S)
<1> DEFINE Bad == {s \in SUBSET S : Sum(f, s) # Sum(g, s)}
<1> SUFFICES ASSUME Bad # {} PROVE FALSE
  OBVIOUS
<1>1. PICK s \in Bad : \A u \in SUBSET s : u # s => u \notin Bad
  <2>1. Bad \subseteq SUBSET S
    OBVIOUS
  <2> HIDE DEF Bad
  <2> QED BY <2>1, MinimalSubset
<1>2. IsFiniteSet(s) /\ s # {}
  BY FS_Subset, SumEmpty
<1>3. /\ Pick(s) \in s
      /\ Sum(f, s) = f[Pick(s)] + Sum(f, s \ {Pick(s)})
      /\ Sum(g, s) = g[Pick(s)] + Sum(g, s \ {Pick(s)})
  BY <1>2, SumPick
<1>4. Sum(f, s \ {Pick(s)}) = Sum(g, s \ {Pick(s)})
  BY <1>1, <1>3
<1>5. f[Pick(s)] = g[Pick(s)]
  BY <1>3
<1> QED BY <1>3, <1>4, <1>5

(* The sum over two disjoint sets is the sum of the two sums.               *)
LEMMA SumUnion ==
  ASSUME NEW f, NEW S, NEW T, IsFiniteSet(S), IsFiniteSet(T), S \cap T = {},
         \A x \in S \cup T : f[x] \in Int
  PROVE  Sum(f, S \cup T) = Sum(f, S) + Sum(f, T)
<1> DEFINE Bad == {s \in SUBSET S : Sum(f, s \cup T) # Sum(f, s) + Sum(f, T)}
<1> SUFFICES ASSUME Bad # {} PROVE FALSE
  OBVIOUS
<1>1. PICK s \in Bad : \A u \in SUBSET s : u # s => u \notin Bad
  <2>1. Bad \subseteq SUBSET S
    OBVIOUS
  <2> HIDE DEF Bad
  <2> QED BY <2>1, MinimalSubset
<1>0. Sum(f, T) \in Int
  BY SumInt
<1>2. IsFiniteSet(s) /\ s # {}
  <2>1. IsFiniteSet(s)
    BY FS_Subset
  <2>2. ASSUME s = {} PROVE FALSE
    <3>1. Sum(f, s) = 0
      BY <2>2, SumEmpty
    <3>2. Sum(f, s \cup T) = Sum(f, T)
      BY <2>2
    <3>3. Sum(f, s \cup T) = Sum(f, s) + Sum(f, T)
      BY <1>0, <3>1, <3>2
    <3> QED BY <3>3
  <2> QED BY <2>1, <2>2
<1>3. PICK x : x \in s
  BY <1>2
<1> DEFINE r == s \ {x}
<1>4. /\ IsFiniteSet(r) /\ IsFiniteSet(r \cup T)
      /\ IsFiniteSet(s \cup T)
      /\ (s \cup T) \ {x} = r \cup T
      /\ r \in SUBSET s /\ r # s
  BY <1>2, <1>3, FS_Subset, FS_Union
<1>5. Sum(f, s) = Sum(f, r) + f[x]
  BY <1>2, <1>3, SumRemove
<1>6. Sum(f, s \cup T) = Sum(f, r \cup T) + f[x]
  BY <1>3, <1>4, SumRemove
<1>7. Sum(f, r \cup T) = Sum(f, r) + Sum(f, T)
  BY <1>1, <1>4
<1>8. Sum(f, r) \in Int /\ f[x] \in Int
  <2>1. \A y \in r : f[y] \in Int
    OBVIOUS
  <2> QED BY <1>3, <1>4, <2>1, SumInt
<1>9. Sum(f, s \cup T) # Sum(f, s) + Sum(f, T)
  OBVIOUS
<1> HIDE DEF r, Bad
<1> QED BY <1>0, <1>5, <1>6, <1>7, <1>8, <1>9

(* Natural numbers: a part adds up to no more than the whole.               *)
LEMMA SumSubset ==
  ASSUME NEW f, NEW S, NEW T \in SUBSET S, IsFiniteSet(S), \A x \in S : f[x] \in Nat
  PROVE  Sum(f, T) <= Sum(f, S)
<1>1. IsFiniteSet(T) /\ IsFiniteSet(S \ T) /\ T \cup (S \ T) = S /\ T \cap (S \ T) = {}
  BY FS_Subset
<1>2. Sum(f, S) = Sum(f, T) + Sum(f, S \ T)
  BY <1>1, SumUnion
<1>3. Sum(f, T) \in Nat /\ Sum(f, S \ T) \in Nat
  BY <1>1, SumNat
<1> QED BY <1>2, <1>3

(* A sum of zeros is zero.                                                  *)
LEMMA SumZero ==
  ASSUME NEW f, NEW S, IsFiniteSet(S), \A x \in S : f[x] = 0
  PROVE  Sum(f, S) = 0
<1> DEFINE Bad == {s \in SUBSET S : Sum(f, s) # 0}
<1> SUFFICES ASSUME Bad # {} PROVE FALSE
  OBVIOUS
<1>1. PICK s \in Bad : \A u \in SUBSET s : u # s => u \notin Bad
  <2>1. Bad \subseteq SUBSET S
    OBVIOUS
  <2> HIDE DEF Bad
  <2> QED BY <2>1, MinimalSubset
<1>2. IsFiniteSet(s) /\ s # {}
  BY SumEmpty, FS_Subset
<1>3. Pick(s) \in s /\ Sum(f, s) = f[Pick(s)] + Sum(f, s \ {Pick(s)})
  BY <1>2, SumPick
<1>4. Sum(f, s \ {Pick(s)}) = 0 /\ f[Pick(s)] = 0
  BY <1>1, <1>3
<1> QED BY <1>3, <1>4

(* A sum with one term.                                                     *)
LEMMA SumOne ==
  ASSUME NEW f, NEW x, f[x] \in Int
  PROVE  Sum(f, {x}) = f[x]
<1>1. Sum(f, {}) = 0 /\ IsFiniteSet({}) /\ {} \cup {x} = {x} /\ x \notin {}
  BY SumEmpty, FS_EmptySet
<1>2. Sum(f, {} \cup {x}) = Sum(f, {}) + f[x]
  BY <1>1, SumAdd
<1> QED BY <1>1, <1>2

-----------------------------------------------------------------------------
(* One more than the largest value of a counter.                            *)
H == 2^(IntWidth - 1)

(* What the assumption on the width says, in terms of H.                    *)
LEMMA WidthFacts ==
  /\ H \in Nat \ {0} /\ 2^IntWidth = 2 * H
  /\ Int64s = -H .. H - 1
  /\ \A a \in Amounts : a < H
  /\ \A q \in Quotas : q.daily < H /\ q.monthly < H /\ q.burst < H
BY WidthAssumption DEF WidthAssumption, H, Int64s

(* Int64, in terms of H.                                                    *)
LEMMA Int64Is == ASSUME NEW x PROVE Int64(x) = ((x + H) % (2 * H)) - H
BY WidthFacts DEF Int64, H

(* Wrapping around gives a value of a counter.                              *)
LEMMA Int64Type == ASSUME NEW x \in Int PROVE Int64(x) \in Int64s
<1>1. H \in Nat \ {0} /\ Int64s = -H .. H - 1 /\ Int64(x) = ((x + H) % (2 * H)) - H
  BY WidthFacts, Int64Is
<1> HIDE DEF H
<1>2. (x + H) % (2 * H) \in 0 .. 2 * H - 1
  BY <1>1
<1> QED BY <1>1, <1>2

(* A value in range of a counter is stored as it is.                        *)
LEMMA Int64Exact == ASSUME NEW x \in Int, -H <= x, x < H PROVE Int64(x) = x
<1>1. H \in Nat \ {0} /\ Int64(x) = ((x + H) % (2 * H)) - H
  BY WidthFacts, Int64Is
<1> HIDE DEF H
<1>2. (x + H) % (2 * H) = x + H
  BY <1>1
<1> QED BY <1>1, <1>2

(* A sum that wraps around becomes smaller, never larger.                   *)
LEMMA Int64Lowers == ASSUME NEW x \in Nat PROVE Int64(x) <= x
<1>1. H \in Nat \ {0} /\ Int64(x) = ((x + H) % (2 * H)) - H
  BY WidthFacts, Int64Is
<1> HIDE DEF H
<1>2. (x + H) % (2 * H) <= x + H /\ (x + H) % (2 * H) \in Int
  BY <1>1
<1> QED BY <1>1, <1>2

(* The remainder is the only number in range that differs from the dividend *)
(* by a multiple of the divisor.                                            *)
LEMMA RemainderUnique ==
  ASSUME NEW z \in Int, NEW k \in Int, NEW r \in Int, NEW n \in Nat \ {0},
         z = n * k + r, 0 <= r, r < n
  PROVE  z % n = r
<1>1. PICK q : q = z \div n
  OBVIOUS
<1>2. PICK e : e = z % n
  OBVIOUS
<1>3. q \in Int /\ e \in Int /\ z = n * q + e /\ 0 <= e /\ e < n
  BY <1>1, <1>2
<1>4. ASSUME NEW i \in Int, NEW j \in Int, i < j PROVE n * i + n <= n * j
  <2>1. PICK l : l = j - i - 1
    OBVIOUS
  <2>2. l \in Nat /\ j = i + 1 + l
    BY <1>4, <2>1
  <2>3. n * j = n * i + n + n * l
    BY <2>2
  <2>4. n * l \in Nat /\ n * i \in Int
    BY <2>2
  <2> QED BY <2>3, <2>4
<1>5. n * k \in Int /\ n * q \in Int
  BY <1>3
<1>6. CASE k < q
  BY <1>3, <1>4, <1>5, <1>6
<1>7. CASE q < k
  BY <1>3, <1>4, <1>5, <1>7
<1>8. CASE k = q
  BY <1>2, <1>3, <1>5, <1>8
<1> QED BY <1>3, <1>6, <1>7, <1>8

(* Additions may wrap around one by one or at the end: the lifetime counter *)
(* of Commit is the sum, as an int64.                                       *)
LEMMA Int64Adds ==
  ASSUME NEW x \in Int, NEW y \in Int
  PROVE  Int64(Int64(x) + y) = Int64(x + y)
<1>1. H \in Nat \ {0} /\ \A z \in Int : Int64(z) = ((z + H) % (2 * H)) - H
  BY WidthFacts, Int64Is
<1>2. PICK n : n = 2 * H
  OBVIOUS
<1>3. n \in Nat \ {0} /\ H \in Int /\ \A z \in Int : Int64(z) = ((z + H) % n) - H
  BY <1>1, <1>2
<1>4. PICK h : h = H
  OBVIOUS
<1>5. PICK k : k = (x + h) \div n
  OBVIOUS
<1>6. PICK e : e = (x + h) % n
  OBVIOUS
<1>7. h \in Int /\ k \in Int /\ e \in Int /\ x + h = n * k + e
  BY <1>3, <1>4, <1>5, <1>6
<1>8. Int64(x) = e - h
  BY <1>3, <1>4, <1>6
<1>9. PICK r : r = (e + y) % n
  OBVIOUS
<1>10. PICK q : q = (e + y) \div n
  OBVIOUS
<1>11. r \in Int /\ q \in Int /\ 0 <= r /\ r < n /\ e + y = n * q + r
  BY <1>3, <1>7, <1>9, <1>10
<1>12. Int64(Int64(x) + y) = r - h
  <2>1. Int64(x) + y \in Int /\ Int64(x) + y + h = e + y
    BY <1>7, <1>8
  <2> QED BY <1>3, <1>4, <1>9, <2>1
<1>13. (x + y + h) % n = r
  <2>1. x + y + h = n * (k + q) + r
    <3>1. n * (k + q) = n * k + n * q
      BY <1>3, <1>7, <1>11
    <3>2. n * k \in Int /\ n * q \in Int
      BY <1>3, <1>7, <1>11
    <3> QED BY <1>7, <1>11, <3>1, <3>2
  <2>2. x + y + h \in Int /\ k + q \in Int
    BY <1>7, <1>11
  <2> QED BY <1>3, <1>11, <2>1, <2>2, RemainderUnique
<1>14. Int64(x + y) = r - h
  BY <1>3, <1>4, <1>13
<1> QED BY <1>12, <1>14

(* The larger of two integers, as Released and the history ceiling use it.  *)
LEMMA MaxOfTwo ==
  ASSUME NEW a \in Int, NEW b \in Int
  PROVE  Max({a, b}) = IF a >= b THEN a ELSE b
<1>1. \E x \in {a, b} : \A y \in {a, b} : x >= y
  OBVIOUS
<1>2. Max({a, b}) \in {a, b} /\ \A y \in {a, b} : Max({a, b}) >= y
  BY <1>1 DEF Max
<1> QED BY <1>2

(* Integer division brackets its dividend.                                  *)
LEMMA DivFacts ==
  ASSUME NEW n \in Nat, NEW m \in Nat \ {0}
  PROVE  /\ n \div m \in Nat
         /\ (n \div m) * m <= n
         /\ n < (n \div m) * m + m
  OBVIOUS

(* Integer division is monotone.                                            *)
LEMMA DivMonotone ==
  ASSUME NEW n \in Nat, NEW k \in Nat, n <= k, NEW m \in Nat \ {0}
  PROVE  n \div m <= k \div m
  OBVIOUS

(* Multiplication by a natural number is monotone.                          *)
LEMMA TimesMonotone ==
  ASSUME NEW a \in Nat, NEW b \in Nat, NEW m \in Nat, a <= b
  PROVE  a * m <= b * m
  OBVIOUS

(* The natural numbers are closed under multiplication.                     *)
LEMMA TimesNat ==
  ASSUME NEW a \in Nat, NEW m \in Nat
  PROVE  a * m \in Nat
  OBVIOUS

(* The calendar: days and months grow with time, and the month of an        *)
(* instant is the month of its day.                                         *)
LEMMA CalendarFacts ==
  /\ DayLength \in Nat \ {0} /\ MonthLength \in Nat \ {0}
  /\ Days \subseteq Nat /\ IsFiniteSet(Days)
  /\ \A n \in 0 .. MaxTime : Day(n) \in Days
  /\ \A d \in Days, e \in Nat : e <= d => e \in Days
  /\ \A n \in Nat : Day(n) \in Nat /\ Month(n) \in Nat
  /\ \A n, k \in Nat : n <= k => Day(n) <= Day(k) /\ Month(n) <= Month(k)
<1>1. DayLength \in Nat \ {0} /\ MonthLength \in Nat \ {0} /\ MaxTime \in Nat
  BY CalendarAssumption DEF CalendarAssumption
<1>2. \A n \in Nat : Day(n) \in Nat /\ Month(n) \in Nat
  BY <1>1, DivFacts DEF Day, Month
<1>3. \A n, k \in Nat : n <= k => Day(n) <= Day(k) /\ Month(n) <= Month(k)
  BY <1>1, DivMonotone DEF Day, Month
<1>4. Days = 0 .. Day(MaxTime)
  BY DEF Days, Day
<1>5. IsFiniteSet(Days) /\ Days \subseteq Nat
  BY <1>1, <1>2, <1>4, FS_Interval
<1>6. ASSUME NEW n \in 0 .. MaxTime PROVE Day(n) \in Days
  <2>1. n \in Nat /\ n <= MaxTime
    BY <1>1
  <2>2. Day(n) \in Nat /\ Day(MaxTime) \in Nat /\ Day(n) <= Day(MaxTime)
    BY <1>1, <1>2, <1>3, <2>1
  <2> QED BY <1>4, <2>2
<1>7. \A d \in Days, e \in Nat : e <= d => e \in Days
  BY <1>1, <1>2, <1>4
<1> QED BY <1>1, <1>2, <1>3, <1>5, <1>6, <1>7

(* A day lies within one month: an instant and the start of its day have    *)
(* the same month.                                                          *)
LEMMA MonthOfDay ==
  ASSUME NEW n \in Nat
  PROVE  Month(Day(n) * DayLength) = Month(n)
<1> DEFINE D == DayLength
           M == MonthLength
           k == M \div D
           d == n \div D
           q == n \div M
<1>1. D \in Nat \ {0} /\ M \in Nat \ {0} /\ M % D = 0
  BY CalendarAssumption DEF CalendarAssumption
<1>2. k \in Nat /\ M = k * D
  BY <1>1
<1>3. d \in Nat /\ d * D <= n /\ n < d * D + D
  BY <1>1, DivFacts
<1>4. q \in Nat /\ q * M <= n /\ n < q * M + M
  BY <1>1, DivFacts
<1> HIDE DEF k, d, q, D, M
<1>5. q * M = (q * k) * D /\ q * k \in Nat
  BY <1>1, <1>2, <1>4
<1>6. q * k <= d
  <2> SUFFICES ASSUME d + 1 <= q * k PROVE FALSE
    BY <1>3, <1>5
  <2>1. (d + 1) * D <= (q * k) * D
    BY <1>1, <1>3, <1>5, TimesMonotone
  <2>2. (d + 1) * D = d * D + D
    BY <1>1, <1>3
  <2>3. d * D \in Nat /\ (q * k) * D \in Nat
    BY <1>1, <1>3, <1>5
  <2> QED BY <1>1, <1>3, <1>4, <1>5, <2>1, <2>2, <2>3
<1>7. q * M <= d * D
  BY <1>1, <1>3, <1>5, <1>6, TimesMonotone
<1>8. d * D \in Nat
  BY <1>1, <1>3
<1>9. q <= (d * D) \div M
  <2>1. (q * M) \div M = q
    BY <1>1, <1>4
  <2>2. q * M \in Nat
    BY <1>1, <1>4
  <2> QED BY <1>1, <1>7, <1>8, <2>1, <2>2, DivMonotone
<1>10. (d * D) \div M <= q
  BY <1>1, <1>3, <1>8, DivMonotone DEF q
<1>11. (d * D) \div M \in Nat
  BY <1>1, <1>8, DivFacts
<1>12. (d * D) \div M = q
  BY <1>4, <1>9, <1>10, <1>11
<1> QED BY <1>12 DEF Month, Day, d, q, D, M

-----------------------------------------------------------------------------
(* What a map of reservations R holds open for a tenant, and has committed. *)
Reservations == [tenant : Tenants, amount : Amounts, expiresAt : Int, committed : BOOLEAN]

Maps == [Ids -> Reservations \cup {Nil}]

AmountIn(R)  == [id \in Ids |-> IF R[id] = Nil THEN 0 ELSE R[id].amount]
OpenIn(R, t) == {id \in Ids : R[id] # Nil /\ R[id].tenant = t /\ ~R[id].committed}
DoneIn(R, t) == {id \in Ids : R[id] # Nil /\ R[id].tenant = t /\ R[id].committed}
Held(R, t)   == Sum(AmountIn(R), OpenIn(R, t))
Kept(R, t)   == Sum(AmountIn(R), DoneIn(R, t))

(* What the assumptions say of ids, amounts and missing entries.            *)
LEMMA NilIsNone == /\ Nil \notin Reservations
                   /\ Nil \notin Quotas
                   /\ IsFiniteSet(Ids)
                   /\ Amounts \subseteq Nat \ {0}
BY ArgumentAssumption DEF ArgumentAssumption, Reservations

(* An entry's amount is one that Reserve accepted.                          *)
LEMMA AmountType ==
  ASSUME NEW R \in Maps
  PROVE  /\ AmountIn(R) \in [Ids -> Nat]
         /\ \A id \in Ids : R[id] # Nil => /\ AmountIn(R)[id] = R[id].amount
                                         /\ R[id].amount \in Amounts
                                         /\ R[id].amount \in Nat \ {0}
<1>1. \A id \in Ids : R[id] # Nil => R[id] \in Reservations
  BY DEF Maps
<1>2. \A id \in Ids : R[id] # Nil => R[id].amount \in Amounts /\ R[id].amount \in Nat \ {0}
  BY <1>1, NilIsNone DEF Reservations
<1>3. \A id \in Ids : AmountIn(R)[id] = IF R[id] = Nil THEN 0 ELSE R[id].amount
  BY DEF AmountIn
<1>4. AmountIn(R) \in [Ids -> Nat]
  BY <1>2 DEF AmountIn
<1> QED BY <1>2, <1>3, <1>4

(* Any set of reservations has a sum, a natural number.                     *)
LEMMA PartsFinite ==
  ASSUME NEW R \in Maps, NEW S \in SUBSET Ids
  PROVE  /\ IsFiniteSet(S)
         /\ \A id \in S : AmountIn(R)[id] \in Nat
         /\ Sum(AmountIn(R), S) \in Nat
<1>1. IsFiniteSet(S)
  BY NilIsNone, FS_Subset
<1>2. \A id \in S : AmountIn(R)[id] \in Nat
  BY AmountType
<1> QED BY <1>1, <1>2, SumNat

(* What is open and what is committed are natural numbers. *)
LEMMA HeldKept ==
  ASSUME NEW R \in Maps, NEW t
  PROVE  Held(R, t) \in Nat /\ Kept(R, t) \in Nat
<1>1. OpenIn(R, t) \in SUBSET Ids /\ DoneIn(R, t) \in SUBSET Ids
  BY DEF OpenIn, DoneIn
<1> QED BY <1>1, PartsFinite DEF Held, Kept

(* Two maps that agree on what is open (committed) for t in the second.     *)
LEMMA SameSum ==
  ASSUME NEW R \in Maps, NEW Q \in Maps, NEW S \in SUBSET Ids,
         \A id \in S : AmountIn(Q)[id] = AmountIn(R)[id]
  PROVE  Sum(AmountIn(Q), S) = Sum(AmountIn(R), S)
<1>1. IsFiniteSet(S)
  BY PartsFinite
<1> QED BY <1>1, SumAgree

(* releaseLocked, for the reservations in S. *)
Without(R, S) == [id \in Ids |-> IF id \in S THEN Nil ELSE R[id]]

(* Releasing open reservations takes their amounts, and nothing else, out   *)
(* of what is held.                                                         *)
LEMMA WithoutFacts ==
  ASSUME NEW R \in Maps, NEW S \in SUBSET Ids, NEW t,
         \A id \in S : R[id] # Nil /\ ~R[id].committed
  PROVE  /\ Without(R, S) \in Maps
         /\ OpenIn(Without(R, S), t) = OpenIn(R, t) \ S
         /\ Held(Without(R, S), t) = Sum(AmountIn(R), OpenIn(R, t) \ S)
         /\ Sum(AmountIn(R), OpenIn(R, t) \cap S) \in Nat
         /\ Held(R, t) = Held(Without(R, S), t) + Sum(AmountIn(R), OpenIn(R, t) \cap S)
         /\ Kept(Without(R, S), t) = Kept(R, t)
<1> DEFINE Q == Without(R, S)
           O == OpenIn(R, t)
<1>1. Q \in Maps
  BY DEF Without, Maps
<1>2. OpenIn(Q, t) = O \ S /\ DoneIn(Q, t) = DoneIn(R, t)
  BY DEF OpenIn, DoneIn, Without
<1>3. \A id \in Ids : id \notin S => AmountIn(Q)[id] = AmountIn(R)[id]
  BY DEF AmountIn, Without
<1>4. /\ O \in SUBSET Ids /\ O \ S \in SUBSET Ids /\ O \cap S \in SUBSET Ids
      /\ DoneIn(R, t) \in SUBSET Ids /\ DoneIn(R, t) \cap S = {}
  BY DEF OpenIn, DoneIn
<1> HIDE DEF Q, O
<1>5. Sum(AmountIn(Q), O \ S) = Sum(AmountIn(R), O \ S)
  BY <1>1, <1>3, <1>4, SameSum
<1>6. Sum(AmountIn(Q), DoneIn(R, t)) = Sum(AmountIn(R), DoneIn(R, t))
  BY <1>1, <1>3, <1>4, SameSum
<1>7. Sum(AmountIn(R), O \cap S) \in Nat
  BY <1>4, PartsFinite
<1>8. Sum(AmountIn(R), O) = Sum(AmountIn(R), O \ S) + Sum(AmountIn(R), O \cap S)
  <2>1. O = (O \ S) \cup (O \cap S) /\ (O \ S) \cap (O \cap S) = {}
    OBVIOUS
  <2>2. IsFiniteSet(O \ S) /\ IsFiniteSet(O \cap S)
    BY <1>4, PartsFinite
  <2>3. \A id \in (O \ S) \cup (O \cap S) : AmountIn(R)[id] \in Int
    BY <1>4, AmountType
  <2>4. Sum(AmountIn(R), (O \ S) \cup (O \cap S)) = Sum(AmountIn(R), O \ S) + Sum(AmountIn(R), O \cap S)
    BY <2>1, <2>2, <2>3, SumUnion
  <2> QED BY <2>1, <2>4
<1> QED BY <1>1, <1>2, <1>5, <1>6, <1>7, <1>8 DEF Held, Kept, Q, O

(* What is held consists of a part of the open reservations and the rest.   *)
LEMMA HeldSplits ==
  ASSUME NEW R \in Maps, NEW t, NEW S \in SUBSET OpenIn(R, t)
  PROVE  /\ Sum(AmountIn(R), OpenIn(R, t) \ S) \in Nat /\ Sum(AmountIn(R), S) \in Nat
         /\ Held(R, t) = Sum(AmountIn(R), OpenIn(R, t) \ S) + Sum(AmountIn(R), S)
<1>1. /\ S \in SUBSET Ids /\ OpenIn(R, t) \cap S = S /\ OpenIn(R, t) \ S \in SUBSET Ids
      /\ \A id \in S : R[id] # Nil /\ ~R[id].committed
  BY DEF OpenIn
<1>2. /\ Held(Without(R, S), t) = Sum(AmountIn(R), OpenIn(R, t) \ S)
      /\ Held(R, t) = Held(Without(R, S), t) + Sum(AmountIn(R), OpenIn(R, t) \cap S)
  BY <1>1, WithoutFacts
<1> QED BY <1>1, <1>2, PartsFinite

(* Reserve under a free id. *)
LEMMA WithFacts ==
  ASSUME NEW R \in Maps, NEW id \in Ids, R[id] = Nil, NEW r \in Reservations, ~r.committed, NEW t
  PROVE  LET Q == [R EXCEPT ![id] = r]
         IN  /\ Q \in Maps
             /\ Held(Q, t) = Held(R, t) + (IF t = r.tenant THEN r.amount ELSE 0)
             /\ Kept(Q, t) = Kept(R, t)
<1> DEFINE Q == [R EXCEPT ![id] = r]
           O == OpenIn(R, t)
<1>1. Q \in Maps /\ Q[id] = r /\ r # Nil /\ \A i \in Ids : i # id => Q[i] = R[i]
  BY NilIsNone DEF Maps
<1> HIDE DEF Q
<1>2. /\ OpenIn(Q, t) = O \cup (IF t = r.tenant THEN {id} ELSE {})
      /\ DoneIn(Q, t) = DoneIn(R, t)
      /\ id \notin O /\ id \notin DoneIn(R, t)
      /\ O \in SUBSET Ids /\ DoneIn(R, t) \in SUBSET Ids
  BY <1>1 DEF OpenIn, DoneIn
<1>3. \A i \in Ids : i # id => AmountIn(Q)[i] = AmountIn(R)[i]
  BY <1>1 DEF AmountIn
<1>4. AmountIn(Q)[id] = r.amount /\ r.amount \in Nat
  BY <1>1, AmountType
<1> HIDE DEF O
<1>5. Sum(AmountIn(Q), DoneIn(R, t)) = Sum(AmountIn(R), DoneIn(R, t))
  BY <1>1, <1>2, <1>3, SameSum
<1>6. Sum(AmountIn(Q), O) = Sum(AmountIn(R), O) /\ Sum(AmountIn(R), O) \in Nat
  BY <1>1, <1>2, <1>3, SameSum, PartsFinite
<1>7. CASE t = r.tenant
  <2>1. IsFiniteSet(O) /\ \A i \in O \cup {id} : AmountIn(Q)[i] \in Int
    BY <1>1, <1>2, PartsFinite, AmountType
  <2>2. Sum(AmountIn(Q), O \cup {id}) = Sum(AmountIn(Q), O) + AmountIn(Q)[id]
    BY <1>2, <2>1, SumAdd
  <2>3. Held(Q, t) = Held(R, t) + r.amount
    BY <1>2, <1>4, <1>6, <1>7, <2>2 DEF Held, O
  <2> QED BY <1>1, <1>2, <1>5, <1>7, <2>3 DEF Kept, Q
<1>8. CASE t # r.tenant
  <2>1. OpenIn(Q, t) = O
    BY <1>2, <1>8
  <2>2. Held(Q, t) = Held(R, t) + 0
    BY <1>6, <2>1 DEF Held, O
  <2> QED BY <1>1, <1>2, <1>5, <1>8, <2>2 DEF Kept, Q
<1> QED BY <1>7, <1>8

(* Commit of an open reservation. *)
LEMMA CommittedFacts ==
  ASSUME NEW R \in Maps, NEW id \in Ids, R[id] # Nil, ~R[id].committed, NEW t
  PROVE  LET Q == [R EXCEPT ![id].committed = TRUE]
             a == IF t = R[id].tenant THEN R[id].amount ELSE 0
         IN  /\ Q \in Maps
             /\ Held(R, t) = Held(Q, t) + a
             /\ Kept(Q, t) = Kept(R, t) + a
<1> DEFINE Q == [R EXCEPT ![id].committed = TRUE]
           O == OpenIn(R, t)
           D == DoneIn(R, t)
<1>0. R[id] \in Reservations
  BY DEF Maps
<1>1. /\ Q \in Maps /\ Q[id] # Nil /\ \A i \in Ids : i # id => Q[i] = R[i]
      /\ Q[id].tenant = R[id].tenant /\ Q[id].amount = R[id].amount /\ Q[id].committed
  <2>1. [R[id] EXCEPT !.committed = TRUE] \in Reservations
    BY <1>0 DEF Reservations
  <2>2. Q = [R EXCEPT ![id] = [R[id] EXCEPT !.committed = TRUE]]
    OBVIOUS
  <2>3. Q \in Maps /\ Q[id] = [R[id] EXCEPT !.committed = TRUE] /\ \A i \in Ids : i # id => Q[i] = R[i]
    BY <2>1, <2>2 DEF Maps
  <2> HIDE DEF Q
  <2> QED BY <1>0, <2>1, <2>3, NilIsNone DEF Reservations
<1> HIDE DEF Q
<1>2. \A i \in Ids : AmountIn(Q)[i] = AmountIn(R)[i]
  BY <1>1 DEF AmountIn
<1>3. AmountIn(R)[id] = R[id].amount /\ R[id].amount \in Nat
  BY AmountType
<1>4. O \in SUBSET Ids /\ D \in SUBSET Ids /\ id \notin D
  BY DEF OpenIn, DoneIn
<1>5. CASE t = R[id].tenant
  <2>1. OpenIn(Q, t) = O \ {id} /\ DoneIn(Q, t) = D \cup {id} /\ id \in O
    BY <1>1, <1>5 DEF OpenIn, DoneIn
  <2> HIDE DEF O, D
  <2>2. /\ Sum(AmountIn(Q), O \ {id}) = Sum(AmountIn(R), O \ {id})
        /\ Sum(AmountIn(Q), D \cup {id}) = Sum(AmountIn(R), D \cup {id})
    BY <1>1, <1>2, <1>4, SameSum
  <2>3. Sum(AmountIn(R), O) = Sum(AmountIn(R), O \ {id}) + R[id].amount
    <3>1. IsFiniteSet(O) /\ \A i \in O : AmountIn(R)[i] \in Int
      BY <1>4, PartsFinite
    <3> QED BY <1>3, <2>1, <3>1, SumRemove
  <2>4. Sum(AmountIn(R), D \cup {id}) = Sum(AmountIn(R), D) + R[id].amount
    <3>1. IsFiniteSet(D) /\ \A i \in D \cup {id} : AmountIn(R)[i] \in Int
      BY <1>4, PartsFinite, AmountType
    <3> QED BY <1>3, <1>4, <3>1, SumAdd
  <2> QED BY <1>1, <1>5, <2>1, <2>2, <2>3, <2>4 DEF Held, Kept, Q, O, D
<1>6. CASE t # R[id].tenant
  <2>1. OpenIn(Q, t) = O /\ DoneIn(Q, t) = D
    BY <1>1, <1>6 DEF OpenIn, DoneIn
  <2> HIDE DEF O, D
  <2>2. /\ Sum(AmountIn(Q), O) = Sum(AmountIn(R), O) /\ Sum(AmountIn(R), O) \in Nat
        /\ Sum(AmountIn(Q), D) = Sum(AmountIn(R), D) /\ Sum(AmountIn(R), D) \in Nat
    BY <1>1, <1>2, <1>4, SameSum, PartsFinite
  <2>3. Held(R, t) = Held(Q, t) + 0 /\ Kept(Q, t) = Kept(R, t) + 0
    BY <2>1, <2>2 DEF Held, Kept, O, D
  <2> QED BY <1>1, <1>6, <2>3 DEF Q
<1> QED BY <1>5, <1>6

-----------------------------------------------------------------------------
(* The values a usage record and a tenant's limits take, and the type of    *)
(* the state.                                                               *)
Usages == [day : Int, month : Int, daily : Int64s, monthly : Int64s,
           reserved : Int64s, committed : Int64s]

Limits == [daily : 0 .. H - 1, monthly : 0 .. H - 1, burst : 0 .. H - 1]

Types ==
  /\ quotas \in [Tenants -> Quotas \cup {Nil}]
  /\ usage \in [Tenants -> Usages]
  /\ reservations \in Maps
  /\ now \in 0 .. MaxTime
  /\ spent \in [Tenants -> [Days -> Nat]]
  /\ ceiling \in [Tenants -> Limits]
  /\ refused \in {Nil} \cup [tenant : Tenants, amount : Amounts]
  /\ wrapped \in SUBSET Tenants

(* A usage record u, current or stale, against the history of what t spent. *)
Follows(t, u) ==
  /\ u.day \in -1 .. Day(now)
  /\ u.month = IF u.day = -1 THEN -1 ELSE Month(u.day * DayLength)
  /\ u.daily = IF u.day = -1 THEN 0 ELSE spent[t][u.day]
  /\ u.monthly = MonthSpent(t, u.month)
  /\ \A d \in Days : d > u.day => spent[t][d] = 0

(* What is reserved can still be committed without exceeding a limit.  As   *)
(* limits are int64, no sum of Commit and releaseLocked wraps around.       *)
Room(t, u) ==
  /\ u.reserved + u.daily <= ceiling[t].daily
  /\ u.reserved + u.monthly <= ceiling[t].monthly
  /\ u.reserved <= ceiling[t].burst

(* The tenant's counters agree with its reservations: for what it holds,    *)
(* unless a sum wrapped around, and for what it committed.                  *)
Books(t) == usage[t].reserved = Held(reservations, t)
Tally(t) == usage[t].committed = Int64(Kept(reservations, t))

(* ceiling is what its comment says. *)
Ceiling(t) ==
  quotas[t] # Nil => /\ quotas[t].daily <= ceiling[t].daily
                     /\ quotas[t].monthly <= ceiling[t].monthly
                     /\ quotas[t].burst <= ceiling[t].burst

(* What holds of a tenant none of whose sums has wrapped around.            *)
Sound(t) == Follows(t, usage[t]) /\ Room(t, usage[t]) /\ Books(t)

(* The inductive invariant.                                                 *)
LedgerInv ==
  /\ Types
  /\ \A t \in Tenants : Tally(t) /\ Ceiling(t)
  /\ \A t \in Tenants \ wrapped : Sound(t)
  /\ WithinPeriods

(* Counters are integers. *)
LEMMA CounterFacts ==
  /\ Int64s \subseteq Int /\ 0 \in Int64s
  /\ H \in Nat \ {0}
  /\ 0 .. H - 1 \subseteq Nat /\ 0 .. H - 1 \subseteq Int64s
<1>1. H \in Nat \ {0} /\ Int64s = -H .. H - 1
  BY WidthFacts
<1> HIDE DEF H
<1> QED BY <1>1

(* A day's spending is part of its month's, a month's part of everything.   *)
LEMMA SpentFacts ==
  ASSUME Types, NEW t \in Tenants
  PROVE  /\ Sum(spent[t], Days) \in Nat
         /\ \A m : MonthSpent(t, m) \in Nat /\ MonthSpent(t, m) <= Sum(spent[t], Days)
         /\ \A d \in Days : /\ spent[t][d] \in Nat
                            /\ spent[t][d] <= MonthSpent(t, Month(d * DayLength))
<1> DEFINE f == spent[t]
<1>1. \A d \in Days : f[d] \in Nat
  BY DEF Types
<1> HIDE DEF f
<1>2. \A S \in SUBSET Days : IsFiniteSet(S) /\ Sum(f, S) \in Nat /\ Sum(f, S) <= Sum(f, Days)
  <2> SUFFICES ASSUME NEW S \in SUBSET Days
               PROVE  IsFiniteSet(S) /\ Sum(f, S) \in Nat /\ Sum(f, S) <= Sum(f, Days)
    OBVIOUS
  <2>1. IsFiniteSet(Days) /\ IsFiniteSet(S)
    BY CalendarFacts, FS_Subset
  <2> QED BY <1>1, <2>1, SumNat, SumSubset
<1>3. \A m : MonthSpent(t, m) \in Nat /\ MonthSpent(t, m) <= Sum(f, Days)
  BY <1>2 DEF MonthSpent, f
<1>4. ASSUME NEW d \in Days PROVE f[d] <= MonthSpent(t, Month(d * DayLength))
  <2> DEFINE S == {e \in Days : Month(e * DayLength) = Month(d * DayLength)}
  <2>1. {d} \in SUBSET S /\ S \in SUBSET Days
    OBVIOUS
  <2> HIDE DEF S
  <2>2. IsFiniteSet(S) /\ \A e \in S : f[e] \in Nat
    BY <1>1, <1>2, <2>1
  <2>3. Sum(f, {d}) <= Sum(f, S)
    BY <2>1, <2>2, SumSubset
  <2>4. Sum(f, {d}) = f[d]
    <3>1. f[d] \in Int
      BY <1>1
    <3> QED BY <3>1, SumOne
  <2> QED BY <2>3, <2>4 DEF MonthSpent, S, f
<1> QED BY <1>1, <1>2, <1>3, <1>4 DEF f

(* currentUsageLocked of any usage record, wrapped around or not.           *)
LEMMA CurrentType ==
  ASSUME Types, NEW u \in Usages
  PROVE  /\ Current(u) \in Usages
         /\ Current(u).reserved = u.reserved /\ Current(u).committed = u.committed
<1> DEFINE d == Day(now)
           m == Month(now)
           x == IF u.day = d THEN u.daily ELSE 0
           y == IF u.month = m THEN u.monthly ELSE 0
<1>1. d \in Int /\ m \in Int
  <2>1. now \in Nat
    BY CalendarAssumption DEF Types, CalendarAssumption
  <2> QED BY <2>1, CalendarFacts
<1>2. x \in Int64s /\ y \in Int64s
  BY CounterFacts DEF Usages
<1>3. Current(u) = [u EXCEPT !.day = d, !.daily = x, !.month = m, !.monthly = y]
  BY DEF Current
<1> HIDE DEF d, m, x, y
<1> QED BY <1>1, <1>2, <1>3 DEF Usages

(* currentUsageLocked brings a stale record up to date. *)
LEMMA CurrentFacts ==
  ASSUME Types, NEW t \in Tenants, NEW u \in Usages, Follows(t, u)
  PROVE  /\ Current(u) \in Usages
         /\ Current(u) = [day |-> Day(now), month |-> Month(now),
                          daily |-> spent[t][Day(now)],
                          monthly |-> MonthSpent(t, Month(now)),
                          reserved |-> u.reserved, committed |-> u.committed]
         /\ Follows(t, Current(u))
         /\ spent[t][Day(now)] \in Nat /\ spent[t][Day(now)] <= u.daily
         /\ MonthSpent(t, Month(now)) \in Nat /\ MonthSpent(t, Month(now)) <= u.monthly
         /\ spent[t][Day(now)] <= MonthSpent(t, Month(now))
<1> DEFINE d == Day(now)
           m == Month(now)
<1>1. now \in 0 .. MaxTime /\ now \in Nat /\ d \in Days /\ d \in Nat /\ m \in Nat
  <2>1. now \in 0 .. MaxTime /\ now \in Nat
    BY CalendarAssumption DEF Types, CalendarAssumption
  <2> QED BY <2>1, CalendarFacts
<1>2. Month(d * DayLength) = m
  BY <1>1, MonthOfDay
<1>3. /\ spent[t][d] \in Nat /\ MonthSpent(t, m) \in Nat
      /\ spent[t][d] <= MonthSpent(t, m)
  BY <1>1, <1>2, SpentFacts
<1>4. u.day \in Int /\ -1 <= u.day /\ u.day <= d
  BY <1>1 DEF Follows
<1>5. /\ (u.day = d => u.daily = spent[t][d])
      /\ (u.day # d => spent[t][d] = 0 /\ u.daily >= 0)
  <2>1. ASSUME u.day # d PROVE spent[t][d] = 0
    BY <1>1, <1>4, <2>1 DEF Follows
  <2>2. u.daily >= 0
    <3>1. CASE u.day = -1
      BY <3>1 DEF Follows
    <3>2. CASE u.day # -1
      <4>1. u.day \in Days
        BY <1>1, <1>4, <3>2, CalendarFacts
      <4> QED BY <3>2, <4>1, SpentFacts DEF Follows
    <3> QED BY <3>1, <3>2
  <2>3. u.day = d => u.daily = spent[t][d]
    BY <1>1 DEF Follows
  <2> QED BY <2>1, <2>2, <2>3
<1>6. /\ (u.month = m => u.monthly = MonthSpent(t, m))
      /\ (u.month # m => MonthSpent(t, m) = 0 /\ u.monthly >= 0)
  <2>1. u.month = m => u.monthly = MonthSpent(t, m)
    BY DEF Follows
  <2>2. u.monthly >= 0
    BY SpentFacts DEF Follows
  <2>3. ASSUME u.month # m PROVE MonthSpent(t, m) = 0
    <3> DEFINE S == {e \in Days : Month(e * DayLength) = m}
    <3>1. ASSUME NEW e \in S PROVE spent[t][e] = 0
      <4>1. e \in Days /\ e \in Nat /\ Month(e * DayLength) = m
        BY CalendarFacts
      <4>2. CASE e > u.day
        BY <4>1, <4>2 DEF Follows
      <4>3. CASE e <= u.day
        <5>1. u.day \in Nat /\ u.month = Month(u.day * DayLength)
          BY <1>4, <4>1, <4>3 DEF Follows
        <5>2. DayLength \in Nat /\ e * DayLength \in Nat /\ u.day * DayLength \in Nat /\ d * DayLength \in Nat
          <6>1. DayLength \in Nat
            BY CalendarAssumption DEF CalendarAssumption
          <6> HIDE DEF d
          <6> QED BY <1>1, <4>1, <5>1, <6>1, TimesNat
        <5>3. e * DayLength <= u.day * DayLength /\ u.day * DayLength <= d * DayLength
          BY <1>1, <1>4, <4>1, <4>3, <5>1, <5>2, TimesMonotone
        <5>4. m <= u.month /\ u.month <= m /\ u.month \in Nat
          BY <1>2, <4>1, <5>1, <5>2, <5>3, CalendarFacts
        <5> QED BY <1>1, <2>3, <5>4
      <4> QED BY <1>4, <4>1, <4>2, <4>3
    <3>2. S \in SUBSET Days /\ IsFiniteSet(S)
      BY CalendarFacts, FS_Subset
    <3> HIDE DEF S
    <3>3. Sum(spent[t], S) = 0
      BY <3>1, <3>2, SumZero
    <3> QED BY <3>3 DEF MonthSpent, S
  <2> QED BY <2>1, <2>2, <2>3
<1>7. Current(u) = [day |-> d, month |-> m, daily |-> spent[t][d], monthly |-> MonthSpent(t, m),
                    reserved |-> u.reserved, committed |-> u.committed]
  <2>1. Current(u) = [day |-> d, month |-> m,
                      daily |-> IF u.day = d THEN u.daily ELSE 0,
                      monthly |-> IF u.month = m THEN u.monthly ELSE 0,
                      reserved |-> u.reserved, committed |-> u.committed]
    <3> DEFINE x == IF u.day = d THEN u.daily ELSE 0
               y == IF u.month = m THEN u.monthly ELSE 0
    <3>1. Current(u) = [u EXCEPT !.day = d, !.daily = x, !.month = m, !.monthly = y]
      BY DEF Current
    <3> HIDE DEF x, y, d, m
    <3>2. Current(u) = [day |-> d, month |-> m, daily |-> x, monthly |-> y,
                        reserved |-> u.reserved, committed |-> u.committed]
      BY <3>1 DEF Usages
    <3> QED BY <3>2 DEF x, y
  <2> HIDE DEF d, m
  <2> QED BY <1>5, <1>6, <2>1
<1>8. spent[t][d] <= u.daily /\ MonthSpent(t, m) <= u.monthly
  BY <1>3, <1>5, <1>6
<1>9. Current(u) \in Usages
  BY CurrentType
<1>10. Follows(t, Current(u))
  <2> HIDE DEF m
  <2>1. /\ Current(u).day = d /\ Current(u).month = m /\ Current(u).daily = spent[t][d]
        /\ Current(u).monthly = MonthSpent(t, m)
    BY <1>7
  <2>2. d \in -1 .. Day(now) /\ d # -1
    BY <1>1
  <2>3. \A e \in Days : e > d => spent[t][e] = 0
    <3> SUFFICES ASSUME NEW e \in Days, e > d PROVE spent[t][e] = 0
      OBVIOUS
    <3>1. e > u.day
      BY <1>1, <1>4, CalendarFacts
    <3> QED BY <3>1 DEF Follows
  <2> HIDE DEF d
  <2> QED BY <1>2, <2>1, <2>2, <2>3 DEF Follows
<1> QED BY <1>3, <1>7, <1>8, <1>9, <1>10

(* The sums of Ledger's properties in terms of a map of reservations.       *)
LEMMA TotalIsSum ==
  /\ \A S : Total(S) = Sum(AmountIn(reservations), S)
  /\ \A t : Open(t) = OpenIn(reservations, t)
  /\ Amount = AmountIn(reservations)
BY DEF Total, Amount, AmountIn, Open, OpenIn

(* The clamp of releaseLocked. *)
LEMMA ClampedIs == ASSUME NEW x \in Int PROVE Clamped(x) = IF x > 0 THEN x ELSE 0
BY MaxOfTwo DEF Clamped

(* releaseLocked of any tenant's reservations leaves int64 counters and the *)
(* lifetime counter alone.                                                  *)
LEMMA ReleasedType ==
  ASSUME Types, NEW u \in Usages, NEW S \in SUBSET Ids, NEW v \in Released(u, S)
  PROVE  v \in Usages /\ v.committed = u.committed
<1> DEFINE c == Current(u)
<1>1. CASE S = {}
  BY <1>1 DEF Released
<1>2. CASE S # {}
  <2>1. c \in Usages /\ c.reserved = u.reserved /\ c.committed = u.committed
    BY CurrentType
  <2> DEFINE f(i) == Clamped(Int64(c.reserved - Amount[i]))
             x(i) == Clamped(f(i) - Total(S \ {i}))
  <2>2. PICK i \in S : v = [c EXCEPT !.reserved = x(i)]
    BY <1>2 DEF Released
  <2>3. Amount[i] \in Nat /\ Total(S \ {i}) \in Nat
    <3>1. reservations \in Maps /\ S \ {i} \in SUBSET Ids /\ i \in Ids
      BY DEF Types
    <3> QED BY <3>1, TotalIsSum, AmountType, PartsFinite
  <2>4. c.reserved \in Int
    BY <2>1, CounterFacts DEF Usages
  <2>5. Int64(c.reserved - Amount[i]) \in Int64s
    BY <2>3, <2>4, Int64Type
  <2>6. f(i) \in 0 .. H - 1
    <3>1. H \in Nat \ {0} /\ Int64s = -H .. H - 1
      BY WidthFacts
    <3> DEFINE y == Int64(c.reserved - Amount[i])
    <3>2. y \in Int64s
      BY <2>5
    <3> HIDE DEF y, H
    <3>3. y \in Int /\ y < H
      BY <3>1, <3>2
    <3>4. Clamped(y) \in 0 .. H - 1
      BY <3>1, <3>3, ClampedIs
    <3> QED BY <3>4 DEF y
  <2> HIDE DEF f
  <2>7. x(i) \in 0 .. H - 1
    <3>1. H \in Nat
      BY WidthFacts
    <3> DEFINE y == f(i)
    <3>2. y \in 0 .. H - 1
      BY <2>6
    <3> HIDE DEF y, H
    <3>3. y - Total(S \ {i}) \in Int /\ y - Total(S \ {i}) < H
      BY <2>3, <3>1, <3>2
    <3>4. Clamped(y - Total(S \ {i})) \in 0 .. H - 1
      BY <3>1, <3>2, <3>3, ClampedIs
    <3> QED BY <3>4 DEF y
  <2>8. x(i) \in Int64s
    BY <2>7, CounterFacts
  <2> HIDE DEF x, c
  <2> QED BY <2>1, <2>2, <2>8 DEF Usages
<1> QED BY <1>1, <1>2

(* Setting reserved, and nothing else, of a usage record. *)
LEMMA ReservedFacts ==
  ASSUME Types, NEW t \in Tenants, NEW c \in Usages, Follows(t, c), NEW x \in Int64s
  PROVE  LET v == [c EXCEPT !.reserved = x]
         IN  /\ v \in Usages /\ Follows(t, v)
             /\ v.reserved = x /\ v.committed = c.committed
             /\ v.daily = c.daily /\ v.monthly = c.monthly
<1> DEFINE v == [c EXCEPT !.reserved = x]
<1>1. /\ v \in Usages
      /\ v.reserved = x /\ v.committed = c.committed
      /\ v.daily = c.daily /\ v.monthly = c.monthly
      /\ v.day = c.day /\ v.month = c.month
  BY DEF Usages
<1> HIDE DEF v
<1>2. Follows(t, v)
  BY <1>1 DEF Follows
<1> QED BY <1>1, <1>2 DEF v

(* releaseLocked of open reservations of one tenant none of whose sums has  *)
(* wrapped around: whichever is first, the counter goes down by all.        *)
LEMMA ReleasedFacts ==
  ASSUME LedgerInv, NEW t \in Tenants \ wrapped, NEW S \in SUBSET OpenIn(reservations, t),
         NEW v \in Released(usage[t], S)
  PROVE  /\ Follows(t, v) /\ Room(t, v)
         /\ v.reserved = Sum(AmountIn(reservations), OpenIn(reservations, t) \ S)
<1> DEFINE u == usage[t]
           O == OpenIn(reservations, t)
           R == reservations
<1>1. /\ Types /\ R \in Maps /\ u \in Usages /\ Follows(t, u) /\ Room(t, u)
      /\ u.reserved = Held(R, t)
  BY DEF LedgerInv, Types, Sound, Books
<1>2. S \in SUBSET Ids /\ O \cap S = S /\ O \ S \in SUBSET Ids
  BY DEF OpenIn
<1> DEFINE rest == Sum(AmountIn(R), O \ S)
           gone == Sum(AmountIn(R), S)
<1>3. rest \in Nat /\ gone \in Nat /\ u.reserved = rest + gone
  BY <1>1, HeldSplits
<1>4. CASE S = {}
  <2>1. v = u
    BY <1>4 DEF Released
  <2>2. gone = 0
    BY <1>4, SumEmpty
  <2>3. u.reserved = rest
    BY <1>3, <2>2
  <2> QED BY <1>1, <2>1, <2>3
<1>5. CASE S # {}
  <2> DEFINE c == Current(u)
  <2>1. PICK i \in S : v = [c EXCEPT !.reserved =
                             Clamped(Clamped(Int64(c.reserved - Amount[i])) - Total(S \ {i}))]
    BY <1>5 DEF Released
  <2> DEFINE a == AmountIn(R)[i]
             b == Sum(AmountIn(R), S \ {i})
  <2>2. Amount[i] = a /\ Total(S \ {i}) = b
    BY TotalIsSum
  <2>3. a \in Nat /\ b \in Nat /\ gone = b + a
    <3>1. S \ {i} \in SUBSET Ids /\ i \in Ids /\ IsFiniteSet(S) /\ \A k \in S : AmountIn(R)[k] \in Int
      BY <1>1, <1>2, PartsFinite
    <3>2. a \in Nat /\ b \in Nat
      BY <1>1, <3>1, AmountType, PartsFinite
    <3> QED BY <3>1, <3>2, SumRemove
  <2>4. /\ c \in Usages /\ Follows(t, c) /\ c.reserved = u.reserved
        /\ c.daily <= u.daily /\ c.monthly <= u.monthly /\ c.daily \in Nat /\ c.monthly \in Nat
    BY <1>1, CurrentFacts
  <2>5. u.reserved < H /\ u.reserved \in Int64s /\ H \in Nat \ {0}
    <3>1. u.reserved <= ceiling[t].burst /\ ceiling[t].burst \in 0 .. H - 1
      BY <1>1 DEF Room, Types, Limits
    <3>2. H \in Nat \ {0} /\ u.reserved \in Int64s /\ Int64s \subseteq Int
      BY <1>1, CounterFacts DEF Usages
    <3> DEFINE x == u.reserved
               y == ceiling[t].burst
    <3>3. x \in Int64s /\ x <= y /\ y \in 0 .. H - 1
      BY <3>1, <3>2
    <3> HIDE DEF x, y, H
    <3>4. x \in Int /\ y \in Int /\ y < H
      BY <3>2, <3>3
    <3>5. x < H
      BY <3>2, <3>3, <3>4
    <3> QED BY <3>2, <3>5 DEF x
  <2> HIDE DEF c, rest, gone, u, a, b, H
  <2>6. Int64(c.reserved - a) = rest + b
    <3>1. c.reserved - a = rest + b
      BY <1>3, <2>3, <2>4
    <3>2. rest + b \in Int /\ -H <= rest + b /\ rest + b < H
      BY <1>3, <2>3, <2>5
    <3> QED BY <3>1, <3>2, Int64Exact
  <2>7. Clamped(Clamped(Int64(c.reserved - a)) - b) = rest
    <3>1. Clamped(rest + b) = rest + b
      BY <1>3, <2>3, ClampedIs
    <3>2. (rest + b) - b = rest /\ Clamped(rest) = rest
      BY <1>3, <2>3, ClampedIs
    <3> QED BY <2>6, <3>1, <3>2
  <2>8. v = [c EXCEPT !.reserved = rest]
    BY <2>1, <2>2, <2>7
  <2>9. rest \in Int64s
    <3>1. rest < H
      BY <1>3, <2>5
    <3>2. Int64s = -H .. H - 1
      BY WidthFacts
    <3> QED BY <1>3, <2>5, <3>1, <3>2
  <2>10. /\ Follows(t, v) /\ v.reserved = rest
         /\ v.daily = c.daily /\ v.monthly = c.monthly
    BY <1>1, <2>4, <2>8, <2>9, ReservedFacts
  <2>11. Room(t, v)
    <3>1. /\ ceiling[t].daily \in Int /\ ceiling[t].monthly \in Int /\ ceiling[t].burst \in Int
          /\ u.daily \in Int /\ u.monthly \in Int
      BY <1>1, CounterFacts DEF Types, Limits, Usages
    <3> QED BY <1>1, <1>3, <2>4, <2>10, <3>1 DEF Room
  <2> QED BY <2>10, <2>11 DEF rest
<1> QED BY <1>4, <1>5

(* expireLocked, with the clock where it is. *)
LEMMA ExpiredFacts ==
  ASSUME LedgerInv, NEW used \in UsagesExpired
  PROVE  /\ ReservationsExpired \in Maps
         /\ used \in [Tenants -> Usages]
         /\ \A t \in Tenants : used[t].committed = Int64(Kept(ReservationsExpired, t))
         /\ \A t \in Tenants \ wrapped :
              /\ Follows(t, used[t]) /\ Room(t, used[t])
              /\ used[t].reserved = Held(ReservationsExpired, t)
<1> DEFINE R == reservations
           S == {id \in Ids : \E t \in Tenants : id \in Lapsed(t)}
<1>1. R \in Maps /\ S \in SUBSET Ids /\ ReservationsExpired = Without(R, S)
  BY DEF LedgerInv, Types, ReservationsExpired, Without
<1>2. \A id \in S : R[id] # Nil /\ ~R[id].committed
  BY DEF Lapsed, Open
<1>3. \A t \in Tenants : Lapsed(t) \in SUBSET OpenIn(R, t) /\ OpenIn(R, t) \ Lapsed(t) = OpenIn(R, t) \ S
  BY DEF Lapsed, Open, OpenIn
<1>4. ASSUME NEW t
      PROVE  /\ Without(R, S) \in Maps
             /\ Held(Without(R, S), t) = Sum(AmountIn(R), OpenIn(R, t) \ S)
             /\ Kept(Without(R, S), t) = Kept(R, t)
  <2> HIDE DEF S
  <2> QED BY <1>1, <1>2, WithoutFacts
<1>5. \A t \in Tenants : used[t] \in Released(usage[t], Lapsed(t))
  BY DEF UsagesExpired
<1>6. ASSUME NEW t \in Tenants
      PROVE  used[t] \in Usages /\ used[t].committed = Int64(Kept(ReservationsExpired, t))
  <2>1. Types /\ usage[t] \in Usages /\ Lapsed(t) \in SUBSET Ids
    BY DEF LedgerInv, Types, Lapsed, Open
  <2>2. used[t] \in Usages /\ used[t].committed = usage[t].committed
    BY <1>5, <2>1, ReleasedType
  <2>3. usage[t].committed = Int64(Kept(R, t))
    BY DEF LedgerInv, Tally
  <2> QED BY <1>1, <1>4, <2>2, <2>3
<1>7. ASSUME NEW t \in Tenants \ wrapped
      PROVE  /\ Follows(t, used[t]) /\ Room(t, used[t])
             /\ used[t].reserved = Held(ReservationsExpired, t)
  <2>1. Lapsed(t) \in SUBSET OpenIn(reservations, t) /\ used[t] \in Released(usage[t], Lapsed(t))
    BY <1>3, <1>5
  <2>2. /\ Follows(t, used[t]) /\ Room(t, used[t])
        /\ used[t].reserved = Sum(AmountIn(R), OpenIn(R, t) \ Lapsed(t))
    BY <2>1, ReleasedFacts
  <2> QED BY <1>1, <1>3, <1>4, <2>2
<1>8. used \in [Tenants -> Usages]
  BY <1>6 DEF UsagesExpired
<1> QED BY <1>1, <1>4, <1>6, <1>7, <1>8

-----------------------------------------------------------------------------
(* A step that leaves limits, clock and history alone keeps the invariant   *)
(* if the new usage records agree with the new reservations.                *)
LEMMA BooksStep ==
  ASSUME LedgerInv, UNCHANGED <<quotas, now, spent, ceiling>>,
         wrapped \subseteq wrapped', wrapped' \in SUBSET Tenants,
         usage' \in [Tenants -> Usages], reservations' \in Maps,
         refused' \in {Nil} \cup [tenant : Tenants, amount : Amounts],
         \A t \in Tenants : usage'[t].committed = Int64(Kept(reservations', t)),
         \A t \in Tenants \ wrapped' : /\ Follows(t, usage'[t]) /\ Room(t, usage'[t])
                                       /\ usage'[t].reserved = Held(reservations', t)
  PROVE  LedgerInv'
<1>1. Types'
  BY DEF LedgerInv, Types
<1>2. WithinPeriods'
  BY DEF LedgerInv, WithinPeriods, MonthSpent
<1>3. ASSUME NEW t \in Tenants PROVE (Tally(t) /\ Ceiling(t))'
  <2>1. Tally(t)'
    BY DEF Tally, Int64
  <2>2. Ceiling(t)'
    BY DEF LedgerInv, Ceiling
  <2> QED BY <2>1, <2>2
<1>4. ASSUME NEW t \in Tenants \ wrapped' PROVE Sound(t)'
  <2>1. Follows(t, usage[t])'
    BY DEF Follows, MonthSpent
  <2>2. Room(t, usage[t])'
    BY DEF Room
  <2>3. Books(t)'
    BY DEF Books
  <2> QED BY <2>1, <2>2, <2>3 DEF Sound
<1> QED BY <1>1, <1>2, <1>3, <1>4 DEF LedgerInv

(* Configure only raises the history's ceiling.                             *)
LEMMA ConfigureStep ==
  ASSUME LedgerInv, NEW t \in Tenants, NEW q \in Quotas, Configure(t, q)
  PROVE  LedgerInv'
<1> DEFINE old == ceiling[t]
           new == [daily   |-> Max({old.daily, q.daily}),
                   monthly |-> Max({old.monthly, q.monthly}),
                   burst   |-> Max({old.burst, q.burst})]
<1>1. Types /\ ceiling \in [Tenants -> Limits] /\ old \in Limits /\ q \in Limits
  <2>1. q \in [daily : Nat, monthly : Nat, burst : Nat]
    BY QuotaAssumption DEF QuotaAssumption
  <2>2. H \in Nat /\ q.daily < H /\ q.monthly < H /\ q.burst < H
    BY WidthFacts
  <2> HIDE DEF H
  <2>3. q \in Limits
    BY <2>1, <2>2 DEF Limits
  <2> QED BY <2>3 DEF LedgerInv, Types
<1>2. ceiling' = [ceiling EXCEPT ![t] = new] /\ UNCHANGED <<usage, reservations, now, spent, wrapped>>
      /\ quotas' = [quotas EXCEPT ![t] = q] /\ refused' = Nil
  BY DEF Configure
<1>3. /\ new \in Limits
      /\ new.daily >= old.daily /\ new.daily >= q.daily
      /\ new.monthly >= old.monthly /\ new.monthly >= q.monthly
      /\ new.burst >= old.burst /\ new.burst >= q.burst
  <2>0. 0 .. H - 1 \subseteq Nat
    BY CounterFacts
  <2>1. /\ old.daily \in 0 .. H - 1 /\ old.monthly \in 0 .. H - 1 /\ old.burst \in 0 .. H - 1
        /\ q.daily \in 0 .. H - 1 /\ q.monthly \in 0 .. H - 1 /\ q.burst \in 0 .. H - 1
    BY <1>1 DEF Limits
  <2>2. \A a, b \in 0 .. H - 1 : /\ Max({a, b}) \in 0 .. H - 1
                                /\ Max({a, b}) >= a /\ Max({a, b}) >= b
    BY <2>0, MaxOfTwo
  <2>3. /\ new.daily = Max({old.daily, q.daily})
        /\ new.monthly = Max({old.monthly, q.monthly})
        /\ new.burst = Max({old.burst, q.burst})
    OBVIOUS
  <2> HIDE DEF old
  <2>4. new \in Limits
    BY <2>1, <2>2 DEF Limits
  <2> HIDE DEF new
  <2> QED BY <2>1, <2>2, <2>3, <2>4
<1> HIDE DEF new
<1>4. /\ ceiling' \in [Tenants -> Limits]
      /\ \A s \in Tenants : /\ ceiling'[s].daily >= ceiling[s].daily
                            /\ ceiling'[s].monthly >= ceiling[s].monthly
                            /\ ceiling'[s].burst >= ceiling[s].burst
  <2>1. ceiling'[t] = new /\ \A s \in Tenants : s # t => ceiling'[s] = ceiling[s]
    BY <1>1, <1>2
  <2>2. ceiling' \in [Tenants -> Limits]
    BY <1>1, <1>2, <1>3
  <2>3. \A s \in Tenants : ceiling[s].daily \in Nat /\ ceiling[s].monthly \in Nat /\ ceiling[s].burst \in Nat
    BY <1>1, CounterFacts DEF Limits
  <2> QED BY <1>3, <2>1, <2>2, <2>3
<1>5. Types'
  BY <1>1, <1>2, <1>4 DEF Types
<1>6. WithinPeriods'
  <2> SUFFICES ASSUME NEW s \in Tenants \ wrapped, NEW d \in Days
               PROVE  /\ spent'[s][d] <= ceiling'[s].daily
                      /\ MonthSpent(s, Month(d * DayLength))' <= ceiling'[s].monthly
    BY <1>2 DEF WithinPeriods, Days, Month
  <2>1. MonthSpent(s, Month(d * DayLength))' = MonthSpent(s, Month(d * DayLength))
    BY <1>2 DEF MonthSpent, Month
  <2>2. spent[s][d] <= ceiling[s].daily /\ MonthSpent(s, Month(d * DayLength)) <= ceiling[s].monthly
    BY DEF LedgerInv, WithinPeriods
  <2>3. spent[s][d] \in Nat /\ MonthSpent(s, Month(d * DayLength)) \in Nat
    BY <1>1, SpentFacts
  <2>4. /\ ceiling[s].daily \in Nat /\ ceiling[s].monthly \in Nat
        /\ ceiling'[s].daily \in Nat /\ ceiling'[s].monthly \in Nat
    BY <1>1, <1>4, CounterFacts DEF Limits
  <2> QED BY <1>2, <1>4, <2>1, <2>2, <2>3, <2>4
<1>7. ASSUME NEW s \in Tenants PROVE (Tally(s) /\ Ceiling(s))'
  <2>1. Tally(s)'
    BY <1>2 DEF LedgerInv, Tally, Int64
  <2>2. Ceiling(s)'
    <3>1. CASE s = t
      BY <1>1, <1>2, <1>3, <3>1 DEF Ceiling, Types
    <3>2. CASE s # t
      <4>1. quotas'[s] = quotas[s] /\ ceiling'[s] = ceiling[s]
        BY <1>1, <1>2, <3>2 DEF Types
      <4> QED BY <4>1 DEF LedgerInv, Ceiling
    <3> QED BY <3>1, <3>2
  <2> QED BY <2>1, <2>2
<1>8. ASSUME NEW s \in Tenants \ wrapped' PROVE Sound(s)'
  <2>1. s \in Tenants \ wrapped /\ Sound(s)
    BY <1>2 DEF LedgerInv
  <2>2. Follows(s, usage[s])'
    BY <1>2, <2>1 DEF Sound, Follows, MonthSpent
  <2>3. Room(s, usage[s])'
    <3>1. /\ usage[s].reserved \in Int /\ usage[s].daily \in Int /\ usage[s].monthly \in Int
      BY <1>1, CounterFacts DEF Types, Usages
    <3>2. /\ ceiling[s].daily \in Nat /\ ceiling[s].monthly \in Nat /\ ceiling[s].burst \in Nat
          /\ ceiling'[s].daily \in Nat /\ ceiling'[s].monthly \in Nat /\ ceiling'[s].burst \in Nat
      BY <1>1, <1>4, CounterFacts DEF Limits
    <3>3. Room(s, usage[s])
      BY <2>1 DEF Sound
    <3> QED BY <1>2, <1>4, <3>1, <3>2, <3>3 DEF Room
  <2>4. Books(s)'
    BY <1>2, <2>1 DEF Sound, Books
  <2> QED BY <2>2, <2>3, <2>4 DEF Sound
<1> QED BY <1>5, <1>6, <1>7, <1>8 DEF LedgerInv

(* Usage expires what has lapsed.                                           *)
LEMMA UsageStep == ASSUME LedgerInv, Usage PROVE LedgerInv'
<1>1. /\ usage' \in UsagesExpired /\ reservations' = ReservationsExpired /\ refused' = Nil
      /\ UNCHANGED <<quotas, now, spent, ceiling>> /\ wrapped' = wrapped
  BY DEF Usage
<1>2. wrapped' \in SUBSET Tenants
  BY <1>1 DEF LedgerInv, Types
<1> QED BY <1>1, <1>2, ExpiredFacts, BooksStep

(* A refused Reserve has expired what has lapsed, no more.                  *)
LEMMA RefuseStep ==
  ASSUME LedgerInv, usage' \in UsagesExpired, reservations' = ReservationsExpired,
         UNCHANGED <<quotas, now, spent, ceiling>>, wrapped' = wrapped,
         NEW t \in Tenants, NEW a \in Amounts, refused' = [tenant |-> t, amount |-> a]
  PROVE  LedgerInv'
<1>1. wrapped' \in SUBSET Tenants
  BY DEF LedgerInv, Types
<1> QED BY <1>1, ExpiredFacts, BooksStep

(* The sums Reserve compares with the limits: exact, or Wraps says so.      *)
LEMMA FitsExact ==
  ASSUME LedgerInv, NEW t \in Tenants \ wrapped, NEW a \in Amounts,
         NEW used \in UsagesExpired, NEW u, u = Current(used[t])
  PROVE  /\ u \in Usages /\ Follows(t, u)
         /\ u.daily = spent[t][Day(now)] /\ u.daily \in Nat
         /\ u.monthly = MonthSpent(t, Month(now)) /\ u.monthly \in Nat
         /\ u.reserved = Held(ReservationsExpired, t) /\ u.reserved \in Nat
         /\ Int64(u.daily + u.reserved + a) <= u.daily + u.reserved + a
         /\ Int64(u.monthly + u.reserved + a) <= u.monthly + u.reserved + a
         /\ Int64(u.reserved + a) <= u.reserved + a
         /\ ~Wraps(u, a) =>
              /\ Int64(u.daily + u.reserved + a) = u.daily + u.reserved + a
              /\ Int64(u.monthly + u.reserved + a) = u.monthly + u.reserved + a
              /\ Int64(u.reserved + a) = u.reserved + a
<1> DEFINE Q == ReservationsExpired
<1>1. /\ Types /\ Q \in Maps /\ used[t] \in Usages /\ Follows(t, used[t])
      /\ used[t].reserved = Held(Q, t)
  BY ExpiredFacts DEF LedgerInv
<1>2. /\ u \in Usages /\ Follows(t, u)
      /\ u.daily = spent[t][Day(now)] /\ u.daily \in Nat
      /\ u.monthly = MonthSpent(t, Month(now)) /\ u.monthly \in Nat
      /\ u.reserved = used[t].reserved
      /\ u.daily <= u.monthly
  BY <1>1, CurrentFacts
<1>3. u.reserved = Held(Q, t) /\ u.reserved \in Nat /\ a \in Nat /\ H \in Nat
  BY <1>1, <1>2, HeldKept, NilIsNone, WidthFacts
<1>4. /\ u.daily + u.reserved + a \in Nat /\ u.monthly + u.reserved + a \in Nat
      /\ u.reserved + a \in Nat
  BY <1>2, <1>3
<1>5. /\ Int64(u.daily + u.reserved + a) <= u.daily + u.reserved + a
      /\ Int64(u.monthly + u.reserved + a) <= u.monthly + u.reserved + a
      /\ Int64(u.reserved + a) <= u.reserved + a
  BY <1>4, Int64Lowers
<1>6. ASSUME ~Wraps(u, a)
      PROVE  /\ Int64(u.daily + u.reserved + a) = u.daily + u.reserved + a
             /\ Int64(u.monthly + u.reserved + a) = u.monthly + u.reserved + a
             /\ Int64(u.reserved + a) = u.reserved + a
  <2>1. ~(u.monthly + u.reserved + a >= H)
    BY <1>6 DEF Wraps, H
  <2>2. \A x \in Nat : x < H => Int64(x) = x
    BY <1>3, Int64Exact
  <2> HIDE DEF H
  <2>3. /\ u.daily + u.reserved + a < H /\ u.monthly + u.reserved + a < H
        /\ u.reserved + a < H
    BY <1>2, <1>3, <2>1
  <2> QED BY <1>4, <2>2, <2>3
<1> QED BY <1>2, <1>3, <1>5, <1>6

(* An admitted Reserve leaves room to commit all that is now held, unless a *)
(* sum wrapped around; the other tenants' books are as they were.           *)
LEMMA AdmitStep ==
  ASSUME LedgerInv, NEW id \in Ids, NEW t \in Tenants, NEW a \in Amounts, NEW ttl \in TTLs,
         reservations[id] = Nil, quotas[t] # Nil, NEW used \in UsagesExpired,
         NEW u, u = Current(used[t]), Fits(u, quotas[t], a),
         usage' = [used EXCEPT ![t] = [u EXCEPT !.reserved = Int64(@ + a)]],
         reservations' = [ReservationsExpired EXCEPT ![id] =
           [tenant |-> t, amount |-> a, expiresAt |-> now + ttl, committed |-> FALSE]],
         wrapped' = (IF Wraps(u, a) THEN wrapped \cup {t} ELSE wrapped),
         refused' = Nil, UNCHANGED <<quotas, now, spent, ceiling>>
  PROVE  LedgerInv'
<1> DEFINE Q == ReservationsExpired
           r == [tenant |-> t, amount |-> a, expiresAt |-> now + ttl, committed |-> FALSE]
           x == Int64(u.reserved + a)
           v == [u EXCEPT !.reserved = x]
<1>1. /\ Types /\ Q \in Maps /\ used \in [Tenants -> Usages]
      /\ \A s \in Tenants : used[s].committed = Int64(Kept(Q, s))
      /\ \A s \in Tenants \ wrapped : /\ Follows(s, used[s]) /\ Room(s, used[s])
                                       /\ used[s].reserved = Held(Q, s)
  BY ExpiredFacts DEF LedgerInv
<1>2. u \in Usages /\ u.committed = used[t].committed
  BY <1>1, CurrentType
<1>3. a \in Nat /\ x \in Int64s
  <2>1. a \in Nat /\ u.reserved \in Int
    BY <1>2, NilIsNone, CounterFacts DEF Usages
  <2> QED BY <2>1, Int64Type
<1>4. v \in Usages /\ v.committed = u.committed /\ v.reserved = x
      /\ usage' = [used EXCEPT ![t] = v]
  <2> HIDE DEF x
  <2>1. v \in Usages /\ v.committed = u.committed /\ v.reserved = x
    BY <1>2, <1>3 DEF Usages
  <2> QED BY <2>1 DEF x
<1>5. wrapped \subseteq wrapped' /\ wrapped' \in SUBSET Tenants
      /\ (t \notin wrapped' => t \notin wrapped /\ ~Wraps(u, a))
  BY <1>1 DEF Types
<1>6. ASSUME t \notin wrapped'
      PROVE  /\ Follows(t, v) /\ Room(t, v) /\ v.reserved = Held(Q, t) + a
  <2>0. t \in Tenants \ wrapped /\ ~Wraps(u, a)
    BY <1>5, <1>6
  <2>1. /\ Follows(t, u) /\ u.daily \in Nat /\ u.monthly \in Nat
        /\ u.reserved = Held(Q, t) /\ u.reserved \in Nat
        /\ Int64(u.daily + u.reserved + a) = u.daily + u.reserved + a
        /\ Int64(u.monthly + u.reserved + a) = u.monthly + u.reserved + a
        /\ Int64(u.reserved + a) = u.reserved + a
    BY <2>0, FitsExact
  <2>2. /\ u.daily + u.reserved + a <= quotas[t].daily
        /\ u.monthly + u.reserved + a <= quotas[t].monthly
        /\ u.reserved + a <= quotas[t].burst
    BY <2>1 DEF Fits
  <2>3. /\ Follows(t, v) /\ v.reserved = x /\ v.daily = u.daily /\ v.monthly = u.monthly
    BY <1>1, <1>2, <1>3, <2>1, ReservedFacts
  <2>4. x = u.reserved + a
    BY <2>1
  <2> HIDE DEF v, x, Q
  <2>5. Room(t, v)
    <3>1. quotas[t].daily \in Nat /\ quotas[t].monthly \in Nat /\ quotas[t].burst \in Nat
      BY <1>1, QuotaAssumption DEF Types, QuotaAssumption
    <3>2. ceiling[t].daily \in Nat /\ ceiling[t].monthly \in Nat /\ ceiling[t].burst \in Nat
      BY <1>1, CounterFacts DEF Types, Limits
    <3>3. /\ quotas[t].daily <= ceiling[t].daily
          /\ quotas[t].monthly <= ceiling[t].monthly
          /\ quotas[t].burst <= ceiling[t].burst
      BY DEF LedgerInv, Ceiling
    <3> QED BY <1>3, <2>1, <2>2, <2>3, <2>4, <3>1, <3>2, <3>3 DEF Room
  <2> QED BY <2>1, <2>3, <2>4, <2>5
<1> HIDE DEF v
<1>7. Q[id] = Nil
  BY DEF ReservationsExpired
<1>8. r \in Reservations /\ ~r.committed /\ r.tenant = t /\ r.amount = a
  <2>1. now + ttl \in Int
    BY <1>1, ArgumentAssumption DEF Types, ArgumentAssumption
  <2> QED BY <2>1 DEF Reservations
<1>9. reservations' = [Q EXCEPT ![id] = r]
  OBVIOUS
<1> HIDE DEF r, Q, x
<1>10. ASSUME NEW s
       PROVE  /\ reservations' \in Maps
              /\ s = t => Held(reservations', s) = Held(Q, s) + a
              /\ s # t => Held(reservations', s) = Held(Q, s)
              /\ Kept(reservations', s) = Kept(Q, s)
  <2>1. /\ [Q EXCEPT ![id] = r] \in Maps
        /\ Held([Q EXCEPT ![id] = r], s) = Held(Q, s) + (IF s = r.tenant THEN r.amount ELSE 0)
        /\ Kept([Q EXCEPT ![id] = r], s) = Kept(Q, s)
    BY <1>1, <1>7, <1>8, WithFacts
  <2>2. Held(Q, s) \in Nat
    BY <1>1, HeldKept
  <2>3. s = t => Held([Q EXCEPT ![id] = r], s) = Held(Q, s) + a
    BY <1>8, <2>1
  <2>4. s # t => Held([Q EXCEPT ![id] = r], s) = Held(Q, s)
    BY <1>8, <2>1, <2>2
  <2> QED BY <1>9, <2>1, <2>3, <2>4
<1>11. /\ usage' \in [Tenants -> Usages] /\ usage'[t] = v
       /\ \A s \in Tenants : s # t => usage'[s] = used[s]
  BY <1>1, <1>4
<1>12. ASSUME NEW s \in Tenants
       PROVE  usage'[s].committed = Int64(Kept(reservations', s))
  <2>1. CASE s = t
    BY <1>1, <1>2, <1>4, <1>10, <1>11, <2>1
  <2>2. CASE s # t
    BY <1>1, <1>10, <1>11, <2>2
  <2> QED BY <2>1, <2>2
<1>13. ASSUME NEW s \in Tenants \ wrapped'
       PROVE  /\ Follows(s, usage'[s]) /\ Room(s, usage'[s])
              /\ usage'[s].reserved = Held(reservations', s)
  <2>1. CASE s = t
    BY <1>6, <1>10, <1>11, <2>1
  <2>2. CASE s # t
    <3>1. s \in Tenants \ wrapped /\ usage'[s] = used[s]
      BY <1>5, <1>11, <2>2
    <3> QED BY <1>1, <1>10, <2>2, <3>1
  <2> QED BY <2>1, <2>2
<1> QED BY <1>5, <1>10, <1>11, <1>12, <1>13, BooksStep

(* Reserve keeps the invariant, whichever way it ends.                      *)
LEMMA ReserveStep ==
  ASSUME LedgerInv, NEW id \in Ids, NEW t \in Tenants, NEW a \in Amounts, NEW ttl \in TTLs,
         Reserve(id, t, a, ttl)
  PROVE  LedgerInv'
<1>1. PICK used \in UsagesExpired :
        LET u == Current(used[t]) IN
        \/ /\ Fits(u, quotas[t], a)
           /\ usage' = [used EXCEPT ![t] = [u EXCEPT !.reserved = Int64(@ + a)]]
           /\ reservations' = [ReservationsExpired EXCEPT ![id] =
                [tenant |-> t, amount |-> a, expiresAt |-> now + ttl, committed |-> FALSE]]
           /\ refused' = Nil
           /\ wrapped' = IF Wraps(u, a) THEN wrapped \cup {t} ELSE wrapped
        \/ /\ ~Fits(u, quotas[t], a)
           /\ usage' = used
           /\ reservations' = ReservationsExpired
           /\ refused' = [tenant |-> t, amount |-> a]
           /\ wrapped' = wrapped
  BY DEF Reserve
<1>2. reservations[id] = Nil /\ quotas[t] # Nil /\ UNCHANGED <<quotas, now, spent, ceiling>>
  BY DEF Reserve
<1>3. PICK u : u = Current(used[t])
  OBVIOUS
<1>4. CASE Fits(u, quotas[t], a)
  <2>1. /\ usage' = [used EXCEPT ![t] = [u EXCEPT !.reserved = Int64(@ + a)]]
        /\ reservations' = [ReservationsExpired EXCEPT ![id] =
             [tenant |-> t, amount |-> a, expiresAt |-> now + ttl, committed |-> FALSE]]
        /\ refused' = Nil
        /\ wrapped' = IF Wraps(u, a) THEN wrapped \cup {t} ELSE wrapped
    BY <1>1, <1>3, <1>4
  <2> QED BY <1>2, <1>3, <1>4, <2>1, AdmitStep
<1>5. CASE ~Fits(u, quotas[t], a)
  <2>1. /\ usage' = used /\ reservations' = ReservationsExpired
        /\ refused' = [tenant |-> t, amount |-> a] /\ wrapped' = wrapped
    BY <1>1, <1>3, <1>5
  <2> QED BY <1>2, <2>1, RefuseStep
<1> QED BY <1>4, <1>5

(* Rollback and a late Commit release one reservation.                      *)
LEMMA ReleaseStep ==
  ASSUME LedgerInv, NEW id \in Ids, reservations[id] # Nil, ~reservations[id].committed, Release(id)
  PROVE  LedgerInv'
<1>a. PICK R : R = reservations
  OBVIOUS
<1>b. PICK t : t = R[id].tenant
  OBVIOUS
<1>1. Types /\ R \in Maps /\ R[id] # Nil /\ ~R[id].committed /\ t \in Tenants /\ usage[t] \in Usages
  <2>1. Types /\ R \in Maps /\ R[id] # Nil /\ ~R[id].committed
    BY <1>a DEF LedgerInv, Types
  <2>2. R[id] \in Reservations
    BY <2>1 DEF Maps
  <2>3. t \in Tenants
    BY <1>b, <2>2 DEF Reservations
  <2> QED BY <2>1, <2>3 DEF Types
<1>2. {id} \in SUBSET OpenIn(R, t) /\ {id} \in SUBSET Ids
  BY <1>1, <1>b DEF OpenIn
<1>3. PICK v \in Released(usage[t], {id}) : usage' = [usage EXCEPT ![t] = v]
  BY <1>a, <1>b DEF Release
<1>4. /\ reservations' = [R EXCEPT ![id] = Nil] /\ refused' = Nil
      /\ UNCHANGED <<quotas, now, spent, ceiling, wrapped>>
  BY <1>a DEF Release
<1>5. v \in Usages /\ v.committed = usage[t].committed
  BY <1>1, <1>2, ReleasedType
<1>6. t \notin wrapped => /\ Follows(t, v) /\ Room(t, v)
                          /\ v.reserved = Sum(AmountIn(R), OpenIn(R, t) \ {id})
  BY <1>1, <1>2, <1>a, ReleasedFacts
<1>7. ASSUME NEW s
      PROVE  /\ reservations' \in Maps
             /\ Held(reservations', s) = Sum(AmountIn(R), OpenIn(R, s) \ {id})
             /\ Kept(reservations', s) = Kept(R, s)
  <2>1. \A i \in {id} : R[i] # Nil /\ ~R[i].committed
    BY <1>1
  <2>0. R \in Maps /\ {id} \in SUBSET Ids
    BY <1>1, <1>2
  <2>2. /\ Without(R, {id}) \in Maps
        /\ Held(Without(R, {id}), s) = Sum(AmountIn(R), OpenIn(R, s) \ {id})
        /\ Kept(Without(R, {id}), s) = Kept(R, s)
    BY <2>0, <2>1, WithoutFacts
  <2>3. reservations' = Without(R, {id})
    BY <1>1, <1>4 DEF Without, Maps
  <2> QED BY <2>2, <2>3
<1>8. /\ usage' \in [Tenants -> Usages] /\ usage'[t] = v
      /\ \A s \in Tenants : s # t => usage'[s] = usage[s]
  BY <1>1, <1>3, <1>5 DEF Types
<1>9. ASSUME NEW s \in Tenants
      PROVE  usage'[s].committed = Int64(Kept(reservations', s))
  <2>1. usage'[s].committed = usage[s].committed
    BY <1>5, <1>8
  <2>2. usage[s].committed = Int64(Kept(R, s))
    BY <1>a DEF LedgerInv, Tally
  <2> QED BY <1>7, <2>1, <2>2
<1>10. ASSUME NEW s \in Tenants \ wrapped
       PROVE  /\ Follows(s, usage'[s]) /\ Room(s, usage'[s])
              /\ usage'[s].reserved = Held(reservations', s)
  <2>1. CASE s = t
    BY <1>6, <1>7, <1>8, <2>1
  <2>2. CASE s # t
    <3>1. Follows(s, usage[s]) /\ Room(s, usage[s]) /\ usage[s].reserved = Held(R, s)
      BY <1>a DEF LedgerInv, Sound, Books
    <3>2. OpenIn(R, s) \ {id} = OpenIn(R, s)
      BY <1>b, <2>2 DEF OpenIn
    <3> QED BY <1>7, <1>8, <2>2, <3>1, <3>2 DEF Held
  <2> QED BY <2>1, <2>2
<1>11. wrapped' = wrapped /\ wrapped \in SUBSET Tenants
  BY <1>1, <1>4 DEF Types
<1> QED BY <1>4, <1>7, <1>8, <1>9, <1>10, <1>11, BooksStep

(* Time passes and records grow stale.                                      *)
LEMMA TickStep == ASSUME LedgerInv, Tick PROVE LedgerInv'
<1>1. /\ now < MaxTime /\ now' = now + 1 /\ refused' = Nil
      /\ UNCHANGED <<quotas, usage, reservations, spent, ceiling, wrapped>>
  BY DEF Tick
<1>2. Types /\ now \in 0 .. MaxTime /\ MaxTime \in Nat
  BY CalendarAssumption DEF LedgerInv, Types, CalendarAssumption
<1>3. Types'
  BY <1>1, <1>2 DEF Types
<1>4. Day(now) <= Day(now') /\ Day(now) \in Nat /\ Day(now') \in Nat
  BY <1>1, <1>2, CalendarFacts
<1>5. WithinPeriods'
  BY <1>1 DEF LedgerInv, WithinPeriods, MonthSpent
<1>6. ASSUME NEW t \in Tenants PROVE (Tally(t) /\ Ceiling(t))'
  BY <1>1 DEF LedgerInv, Tally, Ceiling
<1>7. ASSUME NEW t \in Tenants \ wrapped PROVE Sound(t)'
  <2>1. Follows(t, usage[t]) /\ Room(t, usage[t]) /\ Books(t)
    BY DEF LedgerInv, Sound
  <2>2. usage[t].day \in -1 .. Day(now')
    BY <1>4, <2>1 DEF Follows
  <2>3. Follows(t, usage[t])'
    <3>1. Day(now)' = Day(now')
      BY DEF Day
    <3> QED BY <1>1, <2>1, <2>2, <3>1 DEF Follows, MonthSpent, Month
  <2>4. Room(t, usage[t])' /\ Books(t)'
    BY <1>1, <2>1 DEF Room, Books
  <2> QED BY <2>3, <2>4 DEF Sound
<1>8. \A t \in Tenants \ wrapped' : Sound(t)'
  BY <1>1, <1>7
<1> QED BY <1>3, <1>5, <1>6, <1>8 DEF LedgerInv

(* Commit moves the amount from reserved to committed and enters it under   *)
(* the day and the month of the commit.                                     *)
LEMMA CommitStep == ASSUME LedgerInv, NEW id \in Ids, Commit(id) PROVE LedgerInv'
<1>a. PICK R : R = reservations
  OBVIOUS
<1>b. PICK t, a : t = R[id].tenant /\ a = R[id].amount
  OBVIOUS
<1>c. PICK d, m : d = Day(now) /\ m = Month(now)
  OBVIOUS
<1>d. PICK u : u = Current(usage[t])
  OBVIOUS
<1>e. PICK v : v = [u EXCEPT !.reserved = Int64(@ - a), !.daily = Int64(@ + a),
                             !.monthly = Int64(@ + a), !.committed = Int64(@ + a)]
  OBVIOUS
<1>1. /\ Types /\ R \in Maps /\ R[id] # Nil /\ ~R[id].committed /\ R[id] \in Reservations
      /\ t \in Tenants /\ a \in Amounts /\ a \in Nat
  <2>1. Types /\ R \in Maps /\ R[id] # Nil /\ ~R[id].committed
    BY <1>a DEF LedgerInv, Types, Commit
  <2>2. R[id] \in Reservations
    BY <2>1 DEF Maps
  <2> QED BY <1>b, <2>1, <2>2, NilIsNone DEF Reservations
<1>2. /\ usage' = [usage EXCEPT ![t] = v]
      /\ spent' = [spent EXCEPT ![t][d] = @ + a]
      /\ reservations' = [R EXCEPT ![id].committed = TRUE]
      /\ refused' = Nil /\ UNCHANGED <<quotas, now, ceiling, wrapped>>
  BY <1>a, <1>b, <1>c, <1>d, <1>e DEF Commit
<1>3. u \in Usages /\ u.committed = Int64(Kept(R, t))
  <2>1. usage[t] \in Usages /\ usage[t].committed = Int64(Kept(R, t))
    BY <1>1, <1>a DEF LedgerInv, Types, Tally
  <2> QED BY <1>1, <1>d, <2>1, CurrentType
<1>4. ASSUME NEW s
      PROVE  /\ reservations' \in Maps
             /\ s = t => Held(R, s) = Held(reservations', s) + a /\ Kept(reservations', s) = Kept(R, s) + a
             /\ s # t => Held(R, s) = Held(reservations', s) /\ Kept(reservations', s) = Kept(R, s)
             /\ Held(reservations', s) \in Nat /\ Kept(R, s) \in Nat
  <2> DEFINE Q == [R EXCEPT ![id].committed = TRUE]
  <2>1. /\ Q \in Maps
        /\ Held(R, s) = Held(Q, s) + (IF s = R[id].tenant THEN R[id].amount ELSE 0)
        /\ Kept(Q, s) = Kept(R, s) + (IF s = R[id].tenant THEN R[id].amount ELSE 0)
    BY <1>1, CommittedFacts
  <2> HIDE DEF Q
  <2>2. Held(Q, s) \in Nat /\ Kept(R, s) \in Nat
    BY <1>1, <2>1, HeldKept
  <2>3. s = t => Held(R, s) = Held(Q, s) + a /\ Kept(Q, s) = Kept(R, s) + a
    BY <1>b, <2>1
  <2>4. s # t => Held(R, s) = Held(Q, s) /\ Kept(Q, s) = Kept(R, s)
    BY <1>b, <2>1, <2>2
  <2>5. reservations' = Q
    BY <1>2 DEF Q
  <2> QED BY <2>1, <2>2, <2>3, <2>4, <2>5
<1>5. PICK w, x, y, z : /\ w = Int64(u.reserved - a) /\ x = Int64(u.daily + a)
                        /\ y = Int64(u.monthly + a) /\ z = Int64(u.committed + a)
  OBVIOUS
<1>6. /\ v \in Usages /\ v.day = u.day /\ v.month = u.month
      /\ v.reserved = w /\ v.daily = x /\ v.monthly = y /\ v.committed = z
  <2>1. u.reserved \in Int /\ u.daily \in Int /\ u.monthly \in Int /\ u.committed \in Int
    BY <1>3, CounterFacts DEF Usages
  <2>2. u.reserved - a \in Int /\ u.daily + a \in Int /\ u.monthly + a \in Int /\ u.committed + a \in Int
    BY <1>1, <2>1
  <2>3. w \in Int64s /\ x \in Int64s /\ y \in Int64s /\ z \in Int64s
    BY <1>5, <2>2, Int64Type
  <2>4. v = [u EXCEPT !.reserved = w, !.daily = x, !.monthly = y, !.committed = z]
    BY <1>5, <1>e
  <2> QED BY <1>3, <2>3, <2>4 DEF Usages
<1>7. z = Int64(Kept(reservations', t))
  <2>1. Kept(R, t) \in Int /\ a \in Int /\ Kept(reservations', t) = Kept(R, t) + a
    BY <1>1, <1>4
  <2> QED BY <1>3, <1>5, <2>1, Int64Adds
<1>8. d \in Days /\ d \in Nat /\ m \in Nat /\ Month(d * DayLength) = m
  <2>1. now \in 0 .. MaxTime /\ now \in Nat
    BY <1>1, CalendarAssumption DEF Types, CalendarAssumption
  <2> QED BY <1>c, <2>1, CalendarFacts, MonthOfDay
(* Unless a sum wrapped around before, none does now. *)
<1>9. ASSUME t \notin wrapped
      PROVE  /\ u.day = d /\ u.month = m /\ Follows(t, u)
             /\ u.daily = spent[t][d] /\ u.monthly = MonthSpent(t, m)
             /\ w = Held(reservations', t)
             /\ x = spent[t][d] + a /\ y = MonthSpent(t, m) + a
             /\ w + x <= ceiling[t].daily /\ w + y <= ceiling[t].monthly /\ w <= ceiling[t].burst
             /\ x <= ceiling[t].daily /\ y <= ceiling[t].monthly
  <2>1. /\ usage[t] \in Usages /\ Follows(t, usage[t]) /\ Room(t, usage[t])
        /\ usage[t].reserved = Held(R, t)
    BY <1>1, <1>9, <1>a DEF LedgerInv, Sound, Types, Books
  <2>2. /\ u.day = d /\ u.month = m /\ u.daily = spent[t][d]
        /\ u.monthly = MonthSpent(t, m) /\ u.reserved = usage[t].reserved
        /\ Follows(t, u) /\ u.daily \in Nat /\ u.monthly \in Nat
        /\ u.daily <= usage[t].daily /\ u.monthly <= usage[t].monthly
    BY <1>1, <1>c, <1>d, <2>1, CurrentFacts
  <2>3. u.reserved = Held(reservations', t) + a /\ Held(reservations', t) \in Nat
    BY <1>4, <2>1, <2>2
  <2>4. /\ usage[t].daily \in Int /\ usage[t].monthly \in Int /\ H \in Nat \ {0}
        /\ ceiling[t].daily \in 0 .. H - 1 /\ ceiling[t].monthly \in 0 .. H - 1
        /\ ceiling[t].burst \in 0 .. H - 1
    BY <1>1, <2>1, CounterFacts DEF Types, Limits, Usages
  <2>5. /\ u.reserved + u.daily <= ceiling[t].daily /\ u.reserved + u.monthly <= ceiling[t].monthly
        /\ u.reserved <= ceiling[t].burst
    BY <2>1, <2>2, <2>3, <2>4, <1>1 DEF Room
  <2> HIDE DEF H
  <2>6. /\ -H <= u.reserved - a /\ u.reserved - a < H /\ u.reserved - a \in Int
        /\ -H <= u.daily + a /\ u.daily + a < H /\ u.daily + a \in Int
        /\ -H <= u.monthly + a /\ u.monthly + a < H /\ u.monthly + a \in Int
    BY <1>1, <2>2, <2>3, <2>4, <2>5
  <2>7. w = u.reserved - a /\ x = u.daily + a /\ y = u.monthly + a
    BY <1>5, <2>6, Int64Exact
  <2> QED BY <1>1, <2>2, <2>3, <2>4, <2>5, <2>7
<1>10. /\ spent' \in [Tenants -> [Days -> Nat]]
       /\ spent'[t] \in [Days -> Nat]
       /\ spent'[t][d] = spent[t][d] + a
       /\ \A e \in Days : e # d => spent'[t][e] = spent[t][e]
       /\ \A s \in Tenants : s # t => spent'[s] = spent[s]
  <2>1. spent \in [Tenants -> [Days -> Nat]]
    BY <1>1 DEF Types
  <2>2. spent' = [spent EXCEPT ![t] = [spent[t] EXCEPT ![d] = spent[t][d] + a]]
    BY <1>2
  <2>3. spent[t] \in [Days -> Nat] /\ spent[t][d] \in Nat
    BY <1>1, <1>8, <2>1
  <2>4. [spent[t] EXCEPT ![d] = spent[t][d] + a] \in [Days -> Nat]
    <3>1. spent[t][d] + a \in Nat
      BY <1>1, <2>3
    <3> QED BY <2>3, <3>1
  <2> QED BY <1>1, <1>8, <2>1, <2>2, <2>3, <2>4
(* Sums over days with and without today. *)
<1>11. ASSUME NEW S \in SUBSET Days
       PROVE  /\ d \in S => Sum(spent'[t], S) = Sum(spent[t], S) + a
              /\ d \notin S => Sum(spent'[t], S) = Sum(spent[t], S)
  <2> DEFINE f == spent[t]
             g == spent'[t]
  <2>1. IsFiniteSet(S) /\ IsFiniteSet(S \ {d})
    BY CalendarFacts, FS_Subset
  <2>2. (\A e \in Days : f[e] \in Nat) /\ (\A e \in Days : g[e] \in Nat)
    BY <1>1, <1>10 DEF Types
  <2>3. g[d] = f[d] + a /\ \A e \in Days : e # d => g[e] = f[e]
    BY <1>10
  <2> HIDE DEF f, g
  <2>4. Sum(g, S \ {d}) = Sum(f, S \ {d})
    BY <2>1, <2>3, SumAgree
  <2>5. CASE d \in S
    <3>1. (\A e \in S : f[e] \in Int) /\ (\A e \in S : g[e] \in Int) /\ (\A e \in S \ {d} : f[e] \in Int)
      BY <2>2
    <3>2. Sum(g, S) = Sum(g, S \ {d}) + g[d] /\ Sum(f, S) = Sum(f, S \ {d}) + f[d]
      BY <2>1, <2>5, <3>1, SumRemove
    <3>3. Sum(f, S \ {d}) \in Int /\ f[d] \in Int
      BY <2>1, <2>5, <3>1, SumInt
    <3> QED BY <1>1, <2>3, <2>4, <2>5, <3>2, <3>3 DEF f, g
  <2>6. CASE d \notin S
    <3>1. S \ {d} = S
      BY <2>6
    <3> QED BY <2>4, <2>6, <3>1 DEF f, g
  <2> QED BY <2>5, <2>6
<1>12. ASSUME NEW k
       PROVE  /\ k = m => MonthSpent(t, k)' = MonthSpent(t, k) + a
              /\ k # m => MonthSpent(t, k)' = MonthSpent(t, k)
  <2> DEFINE S == {e \in Days : Month(e * DayLength) = k}
  <2>1. S \in SUBSET Days /\ (d \in S <=> k = m)
    BY <1>8
  <2>2. MonthSpent(t, k) = Sum(spent[t], S) /\ MonthSpent(t, k)' = Sum(spent'[t], S)
    BY DEF MonthSpent
  <2> HIDE DEF S
  <2> QED BY <1>11, <2>1, <2>2
<1>13. ASSUME NEW s \in Tenants, s # t, NEW k
       PROVE  MonthSpent(s, k)' = MonthSpent(s, k)
  <2>1. spent'[s] = spent[s]
    BY <1>10, <1>13
  <2> QED BY <2>1 DEF MonthSpent
<1>14. Types'
  <2>1. usage' \in [Tenants -> Usages]
    BY <1>1, <1>2, <1>6 DEF Types
  <2>2. reservations' \in Maps
    BY <1>4
  <2> QED BY <1>1, <1>2, <1>10, <2>1, <2>2 DEF Types
<1>15. usage'[t] = v /\ \A s \in Tenants : s # t => usage'[s] = usage[s]
  BY <1>1, <1>2 DEF Types
<1>16. ASSUME NEW s \in Tenants PROVE (Tally(s) /\ Ceiling(s))'
  <2>1. Ceiling(s)'
    BY <1>2 DEF LedgerInv, Ceiling
  <2>2. usage'[s].committed = Int64(Kept(reservations', s))
    <3>1. CASE s = t
      BY <1>6, <1>7, <1>15, <3>1
    <3>2. CASE s # t
      <4>1. usage[s].committed = Int64(Kept(R, s))
        BY <1>a DEF LedgerInv, Tally
      <4> QED BY <1>4, <1>15, <3>2, <4>1
    <3> QED BY <3>1, <3>2
  <2>3. Tally(s)'
    BY <2>2 DEF Tally, Int64
  <2> QED BY <2>1, <2>3
<1>17. ASSUME NEW s \in Tenants \ wrapped, s # t PROVE Sound(s)'
  <2>1. Follows(s, usage[s]) /\ Room(s, usage[s]) /\ Books(s)
    BY DEF LedgerInv, Sound
  <2>2. usage'[s] = usage[s] /\ spent'[s] = spent[s]
    BY <1>10, <1>15, <1>17
  <2>3. Follows(s, usage[s])'
    BY <1>2, <2>1, <2>2 DEF Follows, MonthSpent
  <2>4. Room(s, usage[s])'
    BY <1>2, <2>1, <2>2 DEF Room
  <2>5. Books(s)'
    BY <1>4, <1>a, <1>17, <2>1, <2>2 DEF Books
  <2> QED BY <2>3, <2>4, <2>5 DEF Sound
<1>18. ASSUME t \notin wrapped PROVE Sound(t)'
  <2>1. Follows(t, usage[t])'
    <3>1. v.day \in -1 .. Day(now)' /\ v.day # -1 /\ v.day = d /\ v.month = m
      <4>1. Day(now)' = d
        BY <1>2, <1>c DEF Day
      <4> QED BY <1>6, <1>8, <1>9, <1>18, <4>1
    <3>2. v.month = Month(v.day * DayLength)
      BY <1>8, <3>1
    <3>3. v.daily = spent'[t][v.day]
      BY <1>6, <1>9, <1>10, <1>18, <3>1
    <3>4. v.monthly = MonthSpent(t, v.month)'
      BY <1>6, <1>9, <1>12, <1>18, <3>1
    <3>5. \A e \in Days : e > v.day => spent'[t][e] = 0
      <4> SUFFICES ASSUME NEW e \in Days, e > v.day PROVE spent'[t][e] = 0
        OBVIOUS
      <4>1. e # d /\ e > u.day
        BY <1>8, <1>9, <1>18, <3>1, CalendarFacts
      <4> QED BY <1>9, <1>10, <1>18, <4>1 DEF Follows
    <3> QED BY <1>15, <3>1, <3>2, <3>3, <3>4, <3>5 DEF Follows
  <2>2. Room(t, usage[t])'
    BY <1>2, <1>6, <1>9, <1>15, <1>18 DEF Room
  <2>3. Books(t)'
    BY <1>6, <1>9, <1>15, <1>18 DEF Books
  <2> QED BY <2>1, <2>2, <2>3 DEF Sound
<1>19. WithinPeriods'
  <2> SUFFICES ASSUME NEW s \in Tenants \ wrapped, NEW e \in Days
               PROVE  /\ spent'[s][e] <= ceiling'[s].daily
                      /\ MonthSpent(s, Month(e * DayLength))' <= ceiling'[s].monthly
    BY <1>2 DEF WithinPeriods, Days, Month
  <2>1. spent[s][e] <= ceiling[s].daily /\ MonthSpent(s, Month(e * DayLength)) <= ceiling[s].monthly
    BY DEF LedgerInv, WithinPeriods
  <2>2. CASE s # t
    BY <1>2, <1>10, <1>13, <2>1, <2>2
  <2>3. CASE s = t
    <3>1. spent'[t][e] <= ceiling[t].daily
      BY <1>9, <1>10, <2>1, <2>3
    <3>2. MonthSpent(t, Month(e * DayLength))' <= ceiling[t].monthly
      BY <1>9, <1>12, <2>1, <2>3
    <3> QED BY <1>2, <2>3, <3>1, <3>2
  <2> QED BY <2>2, <2>3
<1>20. \A s \in Tenants \ wrapped' : Sound(s)'
  BY <1>2, <1>17, <1>18
<1> QED BY <1>14, <1>16, <1>19, <1>20 DEF LedgerInv

(* What a refusal means, with the books before it: a wrapped sum is smaller *)
(* than the true one, so what the checks find too large is too large.       *)
LEMMA RefusalStep ==
  ASSUME LedgerInv, NEW t \in Tenants \ wrapped, NEW a \in Amounts, NEW used \in UsagesExpired,
         quotas[t] # Nil, ~Fits(Current(used[t]), quotas[t], a),
         reservations' = ReservationsExpired, refused' = [tenant |-> t, amount |-> a],
         UNCHANGED <<quotas, now, spent, ceiling>>
  PROVE  RefusalIsJust'
<1>1. PICK u, Q, q : u = Current(used[t]) /\ Q = ReservationsExpired /\ q = quotas[t]
  OBVIOUS
<1>2. /\ u.daily = spent[t][Day(now)] /\ u.daily \in Nat
      /\ u.monthly = MonthSpent(t, Month(now)) /\ u.monthly \in Nat
      /\ u.reserved = Held(Q, t) /\ u.reserved \in Nat
      /\ Int64(u.daily + u.reserved + a) <= u.daily + u.reserved + a
      /\ Int64(u.monthly + u.reserved + a) <= u.monthly + u.reserved + a
      /\ Int64(u.reserved + a) <= u.reserved + a
  BY <1>1, FitsExact
<1>3. q.daily \in Nat /\ q.monthly \in Nat /\ q.burst \in Nat /\ a \in Nat
  BY <1>1, QuotaAssumption, NilIsNone DEF LedgerInv, Types, QuotaAssumption
<1>4. \/ u.daily + u.reserved + a > q.daily
      \/ u.monthly + u.reserved + a > q.monthly
      \/ u.reserved + a > q.burst
  <2>1. PICK x, y, z : /\ x = Int64(u.daily + u.reserved + a)
                       /\ y = Int64(u.monthly + u.reserved + a) /\ z = Int64(u.reserved + a)
    OBVIOUS
  <2>2. x \in Int /\ y \in Int /\ z \in Int
    <3>1. /\ u.daily + u.reserved + a \in Int /\ u.monthly + u.reserved + a \in Int
          /\ u.reserved + a \in Int
      BY <1>2, <1>3
    <3> QED BY <2>1, <3>1, Int64Type, CounterFacts
  <2>3. ~ (x <= q.daily /\ y <= q.monthly /\ z <= q.burst)
    BY <1>1, <2>1 DEF Fits
  <2> QED BY <1>2, <1>3, <2>1, <2>2, <2>3
<1>5. (Total(Open(t) \ Lapsed(t)))' = Held(Q, t)
  <2>1. Open(t)' = OpenIn(Q, t)
    BY <1>1 DEF Open, OpenIn
  <2>2. Lapsed(t)' = {}
    <3> SUFFICES ASSUME NEW i \in Lapsed(t)' PROVE FALSE
      OBVIOUS
    <3>1. i \in Ids /\ Q[i] # Nil /\ Q[i].tenant = t /\ ~Q[i].committed /\ now > Q[i].expiresAt
      BY <1>1 DEF Lapsed, Open
    <3>2. Q[i] = reservations[i] /\ ~ \E s \in Tenants : i \in Lapsed(s)
      BY <1>1, <3>1 DEF ReservationsExpired
    <3>3. i \in Lapsed(t)
      BY <3>1, <3>2 DEF Lapsed, Open
    <3> QED BY <3>2, <3>3
  <2>3. Amount' = AmountIn(Q)
    BY <1>1 DEF Amount, AmountIn
  <2>4. OpenIn(Q, t) \ {} = OpenIn(Q, t)
    OBVIOUS
  <2>5. (Total(Open(t) \ Lapsed(t)))' = Sum(AmountIn(Q), OpenIn(Q, t) \ {})
    BY <2>1, <2>2, <2>3 DEF Total
  <2> QED BY <2>4, <2>5 DEF Held
<1>6. /\ MonthSpent(t, Month(now))' = MonthSpent(t, Month(now))
      /\ Day(now)' = Day(now)
  BY <1>1 DEF MonthSpent, Month, Day
<1>7. refused'.tenant = t /\ refused'.amount = a
  OBVIOUS
<1>8. \/ spent'[t][Day(now)'] + (Held(Q, t) + a) > q.daily
      \/ MonthSpent(t, Month(now))' + (Held(Q, t) + a) > q.monthly
      \/ Held(Q, t) + a > q.burst
  BY <1>1, <1>2, <1>3, <1>4, <1>6
<1> QED BY <1>1, <1>5, <1>7, <1>8 DEF RefusalIsJust

(* The empty ledger satisfies the invariant.                                *)
LEMMA LedgerInit == Init => LedgerInv /\ RefusalIsJust
<1> SUFFICES ASSUME Init PROVE LedgerInv /\ RefusalIsJust
  OBVIOUS
<1>1. /\ quotas = [t \in Tenants |-> Nil] /\ usage = [t \in Tenants |-> NoUsage]
      /\ reservations = [id \in Ids |-> Nil] /\ now = 0
      /\ spent = [t \in Tenants |-> [d \in Days |-> 0]]
      /\ ceiling = [t \in Tenants |-> [daily |-> 0, monthly |-> 0, burst |-> 0]]
      /\ refused = Nil /\ wrapped = {}
  BY DEF Init
<1>2. NoUsage \in Usages /\ [daily |-> 0, monthly |-> 0, burst |-> 0] \in Limits
  <2>1. 0 \in Int64s /\ H \in Nat \ {0}
    BY CounterFacts
  <2> HIDE DEF H
  <2>2. 0 \in 0 .. H - 1
    BY <2>1
  <2> QED BY <2>1, <2>2 DEF NoUsage, Usages, Limits
<1>3. Types
  BY <1>1, <1>2, CalendarAssumption DEF Types, Maps, CalendarAssumption
<1>4. ASSUME NEW t \in Tenants, NEW S \in SUBSET Days
      PROVE  Sum(spent[t], S) = 0
  <2>1. IsFiniteSet(S) /\ \A d \in S : spent[t][d] = 0
    BY <1>1, CalendarFacts, FS_Subset
  <2> QED BY <2>1, SumZero
<1>5. ASSUME NEW t \in Tenants, NEW m PROVE MonthSpent(t, m) = 0
  <2>1. {d \in Days : Month(d * DayLength) = m} \in SUBSET Days
    OBVIOUS
  <2> QED BY <1>4, <2>1 DEF MonthSpent
<1>6. WithinPeriods
  <2> SUFFICES ASSUME NEW t \in Tenants, NEW d \in Days
               PROVE  /\ spent[t][d] <= ceiling[t].daily
                      /\ MonthSpent(t, Month(d * DayLength)) <= ceiling[t].monthly
    BY DEF WithinPeriods
  <2> QED BY <1>1, <1>5
<1>7. ASSUME NEW t \in Tenants PROVE Sound(t) /\ Tally(t) /\ Ceiling(t)
  <2>1. /\ usage[t].day = -1 /\ usage[t].month = -1 /\ usage[t].daily = 0 /\ usage[t].monthly = 0
        /\ usage[t].reserved = 0 /\ usage[t].committed = 0
    BY <1>1 DEF NoUsage
  <2>2. Follows(t, usage[t])
    <3>1. Day(now) \in Nat
      BY <1>1, CalendarFacts
    <3>2. MonthSpent(t, -1) = 0
      BY <1>5
    <3>3. \A d \in Days : spent[t][d] = 0
      BY <1>1
    <3> QED BY <2>1, <3>1, <3>2, <3>3 DEF Follows
  <2>3. Room(t, usage[t]) /\ Ceiling(t)
    BY <1>1, <2>1 DEF Room, Ceiling
  <2>4. Books(t) /\ Tally(t)
    <3>1. OpenIn(reservations, t) = {} /\ DoneIn(reservations, t) = {}
      BY <1>1 DEF OpenIn, DoneIn
    <3>2. Held(reservations, t) = 0 /\ Kept(reservations, t) = 0
      BY <3>1, SumEmpty DEF Held, Kept
    <3>3. Int64(0) = 0
      <4>1. -H <= 0 /\ 0 < H
        BY CounterFacts
      <4> QED BY <4>1, Int64Exact
    <3> QED BY <2>1, <3>2, <3>3 DEF Books, Tally
  <2> QED BY <2>2, <2>3, <2>4 DEF Sound
<1> QED BY <1>1, <1>3, <1>6, <1>7 DEF LedgerInv, RefusalIsJust

(* Every step keeps the invariant.                                          *)
LEMMA LedgerNext == LedgerInv /\ RefusalIsJust /\ [Next]_vars => LedgerInv' /\ RefusalIsJust'
<1> SUFFICES ASSUME LedgerInv, RefusalIsJust, [Next]_vars PROVE LedgerInv' /\ RefusalIsJust'
  OBVIOUS
<1>1. refused' = Nil => RefusalIsJust'
  BY DEF RefusalIsJust
<1>2. ASSUME NEW t \in Tenants, NEW q \in Quotas, Configure(t, q) PROVE LedgerInv' /\ RefusalIsJust'
  BY <1>1, <1>2, ConfigureStep DEF Configure
<1>3. ASSUME NEW id \in Ids, NEW t \in Tenants, NEW a \in Amounts, NEW ttl \in TTLs, Reserve(id, t, a, ttl)
      PROVE  LedgerInv' /\ RefusalIsJust'
  <2>1. LedgerInv'
    BY <1>3, ReserveStep
  <2>2. quotas[t] # Nil /\ UNCHANGED <<quotas, now, spent, ceiling>>
    BY <1>3 DEF Reserve
  <2>3. \/ refused' = Nil
        \/ \E used \in UsagesExpired : /\ ~Fits(Current(used[t]), quotas[t], a)
                                       /\ reservations' = ReservationsExpired
                                       /\ refused' = [tenant |-> t, amount |-> a]
                                       /\ wrapped' = wrapped
    BY <1>3 DEF Reserve
  <2>4. CASE refused' = Nil
    BY <1>1, <2>1, <2>4
  <2>5. ASSUME NEW used \in UsagesExpired, ~Fits(Current(used[t]), quotas[t], a),
               reservations' = ReservationsExpired,
               refused' = [tenant |-> t, amount |-> a], wrapped' = wrapped
        PROVE  RefusalIsJust'
    <3>1. CASE t \in wrapped
      BY <2>5, <3>1 DEF RefusalIsJust
    <3>2. CASE t \notin wrapped
      <4>1. t \in Tenants \ wrapped
        BY <3>2
      <4> QED BY <2>2, <2>5, <4>1, RefusalStep, SMTT(20)
    <3> QED BY <3>1, <3>2
  <2> QED BY <2>1, <2>3, <2>4, <2>5
<1>4. ASSUME NEW id \in Ids, Commit(id) PROVE LedgerInv' /\ RefusalIsJust'
  BY <1>1, <1>4, CommitStep DEF Commit
<1>5. ASSUME NEW id \in Ids, CommitExpired(id) PROVE LedgerInv' /\ RefusalIsJust'
  BY <1>1, <1>5, ReleaseStep DEF CommitExpired, Release
<1>6. ASSUME NEW id \in Ids, Rollback(id) PROVE LedgerInv' /\ RefusalIsJust'
  BY <1>1, <1>6, ReleaseStep DEF Rollback, Release
<1>7. CASE Usage
  BY <1>1, <1>7, UsageStep DEF Usage
<1>8. CASE Tick
  BY <1>1, <1>8, TickStep DEF Tick
<1>9. CASE UNCHANGED vars
  <2>1. /\ quotas' = quotas /\ usage' = usage /\ reservations' = reservations /\ now' = now
        /\ spent' = spent /\ ceiling' = ceiling /\ refused' = refused /\ wrapped' = wrapped
    BY <1>9 DEF vars
  <2>2. LedgerInv'
    BY <2>1, BooksStep DEF LedgerInv, Types, Sound, Books, Tally
  <2>3. RefusalIsJust'
    BY <2>1 DEF RefusalIsJust, MonthSpent, Total, Amount, Open, Lapsed, Day, Month
  <2> QED BY <2>2, <2>3
<1> QED BY <1>2, <1>3, <1>4, <1>5, <1>6, <1>7, <1>8, <1>9 DEF Next

(* Hence it always holds.                                                   *)
LEMMA LedgerInvariant == Spec => [](LedgerInv /\ RefusalIsJust)
BY LedgerInit, LedgerNext, PTL DEF Spec

-----------------------------------------------------------------------------
(* Usage.Reserved and Usage.Committed are what the open and the committed   *)
(* reservations add up to (Committed as an int64), for any number of        *)
(* reservations and after any sequence of lapses, late commits, rollbacks   *)
(* and ends of periods; Reserved, for a tenant none of whose admitted       *)
(* reservations wrapped a sum of Reserve around.                            *)
THEOREM BooksBalance == Spec => []Balanced
<1>1. LedgerInv => Balanced
  <2> SUFFICES ASSUME LedgerInv, NEW t \in Tenants
               PROVE  /\ t \notin wrapped => usage[t].reserved = Total(Open(t))
                      /\ usage[t].committed =
                           Int64(Total({id \in Ids : /\ reservations[id] # Nil
                                                     /\ reservations[id].tenant = t
                                                     /\ reservations[id].committed}))
    BY DEF Balanced
  <2>1. t \notin wrapped => usage[t].reserved = Held(reservations, t)
    BY DEF LedgerInv, Sound, Books
  <2>2. usage[t].committed = Int64(Kept(reservations, t))
    BY DEF LedgerInv, Tally
  <2>3. Held(reservations, t) = Total(Open(t))
    BY TotalIsSum DEF Held
  <2>4. Kept(reservations, t) = Total(DoneIn(reservations, t))
    BY TotalIsSum DEF Kept
  <2> QED BY <2>1, <2>2, <2>3, <2>4 DEF DoneIn
<1> QED BY <1>1, LedgerInvariant, PTL

(* The burst limit holds for what a tenant has reserved at one time, unless *)
(* a sum of Reserve wrapped around for this tenant: other tenants' sums and *)
(* amounts do not matter.                                                   *)
THEOREM BurstIsLimited == Spec => []WithinBurst
<1>1. LedgerInv => WithinBurst
  BY TotalIsSum DEF LedgerInv, Sound, Books, Room, WithinBurst, Held
<1> QED BY <1>1, LedgerInvariant, PTL

(* What a tenant commits in a day or a month stays within the limits that   *)
(* Reserve checked, however the calendar falls between Reserve and Commit,  *)
(* unless a sum of Reserve wrapped around for this tenant.                  *)
THEOREM PeriodsAreLimited == Spec => []WithinPeriods
<1>1. LedgerInv => WithinPeriods
  BY DEF LedgerInv
<1> QED BY <1>1, LedgerInvariant, PTL

(* Reserve refuses only what exceeds a limit, with lapsed reservations and  *)
(* earlier periods left out of the account; the amount refused may be any   *)
(* int64, for a tenant whose earlier sums did not wrap around.              *)
THEOREM RefusalsAreJust == Spec => []RefusalIsJust
BY LedgerInvariant, PTL

(* The counters of a usage record are int64; those of a tenant whose sums   *)
(* did not wrap around are ordered and never negative.                      *)
THEOREM LedgerTypeCorrect == Spec => []TypeOK
<1>1. LedgerInv => TypeOK
  <2> SUFFICES ASSUME LedgerInv PROVE TypeOK
    OBVIOUS
  <2>1. Types
    BY DEF LedgerInv
  <2>2. ASSUME NEW t \in Tenants
        PROVE  {usage[t].daily, usage[t].monthly, usage[t].reserved, usage[t].committed} \subseteq Int64s
    BY <2>1 DEF Types, Usages
  <2>3. ASSUME NEW t \in Tenants, t \notin wrapped
        PROVE  /\ usage[t].day \in Days \cup {-1}
               /\ usage[t].daily >= 0 /\ usage[t].monthly >= usage[t].daily
               /\ usage[t].reserved >= 0
    <3>1. Follows(t, usage[t]) /\ usage[t].reserved = Held(reservations, t)
      BY <2>3 DEF LedgerInv, Sound, Books
    <3>2. usage[t].reserved >= 0
      BY <2>1, <3>1, HeldKept DEF Types
    <3>3. now \in 0 .. MaxTime /\ Day(now) \in Days /\ Day(now) \in Nat
      BY <2>1, CalendarFacts DEF Types
    <3>4. usage[t].monthly \in Nat
      BY <2>1, <3>1, SpentFacts DEF Follows
    <3>5. CASE usage[t].day = -1
      BY <3>1, <3>2, <3>4, <3>5 DEF Follows
    <3>6. CASE usage[t].day # -1
      <4>1. usage[t].day \in Days
        BY <3>1, <3>3, <3>6, CalendarFacts DEF Follows
      <4>2. spent[t][usage[t].day] \in Nat
            /\ spent[t][usage[t].day] <= MonthSpent(t, Month(usage[t].day * DayLength))
        BY <2>1, <4>1, SpentFacts
      <4> QED BY <3>1, <3>2, <3>4, <3>6, <4>1, <4>2 DEF Follows
    <3> QED BY <3>5, <3>6
  <2>4. ASSUME NEW id \in Ids, reservations[id] # Nil
        PROVE  /\ reservations[id].tenant \in Tenants
               /\ reservations[id].amount \in Amounts
               /\ reservations[id].committed \in BOOLEAN
    BY <2>1, <2>4 DEF Types, Maps, Reservations
  <2> QED BY <2>1, <2>2, <2>3, <2>4 DEF TypeOK, Types
<1> QED BY <1>1, LedgerInvariant, PTL
=============================================================================
