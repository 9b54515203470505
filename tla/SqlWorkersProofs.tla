--------------------------- MODULE SqlWorkersProofs ---------------------------
(***************************************************************************)
(* Proofs about the worker pool, for every number of calls and permits: no   *)
(* permit is made or dropped, none lies idle beside a caller in line, and     *)
(* they are handed out in the order of arrival.                              *)
(*                                                                         *)
(* The lemmas about GivePermits rest on the rank of a waiter, the number of   *)
(* unserved ones before it: who is handed one of m permits has a rank below   *)
(* m, no two waiters have the same rank, and the first has rank 0.            *)
(***************************************************************************)
EXTENDS SqlWorkers, FiniteSetTheorems, WellFoundedInduction, TLAPS

-----------------------------------------------------------------------------
(* Ranks. *)

Rank(U, i) == Cardinality({j \in U : j < i})
Lowest(U, m) == {i \in U : Rank(U, i) < m}

LEMMA RanksDiffer ==
    ASSUME NEW U, U \subseteq Nat, IsFiniteSet(U), NEW i \in U, NEW j \in U, i < j
    PROVE  Rank(U, i) \in Nat /\ Rank(U, j) \in Nat /\ Rank(U, i) < Rank(U, j)
<1> DEFINE A == {k \in U : k < i}
           B == {k \in U : k < j}
<1>1. IsFiniteSet(A) /\ IsFiniteSet(B)
  BY FS_Subset
<1>2. A \subseteq B /\ i \in B /\ i \notin A
  <2>1. \A k \in U : k \in Nat
    OBVIOUS
  <2>2. \A k \in U : k < i => k < j
    BY <2>1
  <2>3. ~(i < i)
    BY <2>1
  <2> QED
    BY <2>2, <2>3
<1>3. Cardinality(A) <= Cardinality(B) /\ Cardinality(A) # Cardinality(B)
  BY <1>1, <1>2, FS_Subset
<1>4. Cardinality(A) \in Nat /\ Cardinality(B) \in Nat
  BY <1>1, FS_CardinalityType
<1> QED
  BY <1>3, <1>4 DEF Rank

LEMMA LeastElement ==
    ASSUME NEW U, U \subseteq Nat, U # {}
    PROVE  \E i \in U : \A j \in U : ~(j < i)
<1>1. PICK i \in U : \A j \in U : ~(<<j, i>> \in OpToRel(<, Nat))
  BY NatLessThanWellFounded, WFMin
<1> QED
  BY <1>1 DEF OpToRel

\* At most m have a rank below m, whoever precedes one of them is one, and if there
\* are any each other one has one of them before it.
LEMMA LowestAreFew ==
    ASSUME NEW U, U \subseteq Nat, IsFiniteSet(U), NEW m \in Nat
    PROVE  /\ IsFiniteSet(Lowest(U, m)) /\ Cardinality(Lowest(U, m)) <= m
           /\ \A i \in U, j \in Lowest(U, m) : i < j => i \in Lowest(U, m)
           /\ m > 0 => \A i \in U \ Lowest(U, m) : \E j \in Lowest(U, m) : j < i
<1> DEFINE L == Lowest(U, m)
<1>1. L \subseteq U /\ IsFiniteSet(L)
  BY FS_Subset DEF Lowest
<1>2. \A i \in U : Rank(U, i) \in Nat
  <2> SUFFICES ASSUME NEW i \in U PROVE Rank(U, i) \in Nat
    OBVIOUS
  <2>1. IsFiniteSet({j \in U : j < i})
    BY FS_Subset
  <2> QED
    BY <2>1, FS_CardinalityType DEF Rank
<1>3. Cardinality(L) <= m
  <2> DEFINE f == [i \in L |-> Rank(U, i)]
  <2>1. \A i \in L : Rank(U, i) \in 0 .. m - 1
    BY <1>1, <1>2 DEF Lowest
  <2>2. \A i, j \in L : i # j => f[i] # f[j]
    <3> SUFFICES ASSUME NEW i \in L, NEW j \in L, i < j PROVE f[i] # f[j]
      <4>1. \A i, j \in L : i \in Nat /\ j \in Nat
        BY <1>1
      <4> HIDE DEF L, f
      <4> QED
        BY <4>1
    <3>1. Rank(U, i) < Rank(U, j) /\ Rank(U, i) \in Nat /\ Rank(U, j) \in Nat
      BY <1>1, RanksDiffer
    <3>2. f[i] = Rank(U, i) /\ f[j] = Rank(U, j)
      OBVIOUS
    <3> QED
      BY <3>1, <3>2
  <2>3. f \in Injection(L, 0 .. m - 1)
    <3>1. f \in [L -> 0 .. m - 1]
      <4> HIDE DEF L
      <4> QED
        BY <2>1
    <3> HIDE DEF f
    <3> QED
      BY <2>2, <3>1 DEF Injection, IsInjective
  <2>4. IsFiniteSet(0 .. m - 1) /\ Cardinality(0 .. m - 1) = m
    BY FS_Interval
  <2> QED
    BY <2>3, <2>4, FS_Injection
<1>4. ASSUME NEW i \in U, NEW j \in L, i < j
      PROVE  i \in L
  <2>1. Rank(U, i) < Rank(U, j) /\ Rank(U, j) < m /\ Rank(U, i) \in Nat /\ Rank(U, j) \in Nat
    BY <1>1, <1>4, RanksDiffer DEF Lowest
  <2> QED
    BY <2>1 DEF Lowest
<1>5. ASSUME m > 0, NEW i \in U, i \notin L
      PROVE  \E j \in L : j < i
  <2>1. PICK j \in U : \A k \in U : ~(k < j)
    BY LeastElement
  <2>2. Rank(U, j) = 0
    <3>1. {k \in U : k < j} = {}
      BY <2>1
    <3> QED
      BY <3>1, FS_EmptySet DEF Rank
  <2>3. j \in L
    BY <1>5, <2>2 DEF Lowest
  <2> QED
    BY <1>5, <2>1, <2>3
<1> QED
  BY <1>1, <1>3, <1>4, <1>5

-----------------------------------------------------------------------------
(* What removing a waiter from the line does: the others keep their order.   *)
LEMMA WithoutShifts ==
    ASSUME NEW w \in Seq(Queries), NEW p \in 1..Len(w),
           \A i, j \in 1..Len(w) : w[i] = w[j] => i = j
    PROVE  /\ Without(w, w[p]) \in Seq(Queries)
           /\ Len(Without(w, w[p])) = Len(w) - 1
           /\ \A i \in 1..Len(w) - 1 :
                Without(w, w[p])[i] = IF i < p THEN w[i] ELSE w[i + 1]
<1> DEFINE q == CHOOSE i \in DOMAIN w : w[i] = w[p]
           left == SubSeq(w, 1, p - 1)
           right == SubSeq(w, p + 1, Len(w))
<1>1. DOMAIN w = 1..Len(w)
  OBVIOUS
<1>2. q = p
  BY <1>1
<1>3. Without(w, w[p]) = left \o right
  BY <1>2 DEF Without, RemoveAt
<1>4. /\ left \in Seq(Queries) /\ Len(left) = p - 1
      /\ \A i \in 1..p - 1 : left[i] = w[i]
  OBVIOUS
<1>5. /\ right \in Seq(Queries) /\ Len(right) = Len(w) - p
      /\ \A i \in 1..Len(w) - p : right[i] = w[p + i]
  OBVIOUS
<1> HIDE DEF left, right
<1>6. QED
  <2>1. left \o right \in Seq(Queries) /\ Len(left \o right) = Len(w) - 1
    BY <1>4, <1>5
  <2>2. ASSUME NEW i \in 1..Len(w) - 1
        PROVE  (left \o right)[i] = IF i < p THEN w[i] ELSE w[i + 1]
    <3>1. CASE i < p
      BY <3>1, <1>4, <1>5
    <3>2. CASE i >= p
      <4>1. (left \o right)[i] = right[i - (p - 1)]
        BY <3>2, <1>4, <1>5
      <4>2. i - (p - 1) \in 1..Len(w) - p
        BY <3>2
      <4>3. right[i - (p - 1)] = w[p + (i - (p - 1))]
        BY <4>2, <1>5
      <4>4. QED
        BY <4>1, <4>3, <3>2
    <3>3. i < p \/ i >= p
      OBVIOUS
    <3>4. QED
      BY <3>1, <3>2, <3>3
  <2>3. QED
    BY <1>3, <2>1, <2>2

(* Places before and after the removal of place p.                          *)
Shift(p, i) == IF i < p THEN i ELSE i + 1
Unshift(p, j) == IF j < p THEN j ELSE j - 1

(* Where each remaining waiter of the shortened line was, and is.           *)
LEMMA WithoutPlaces ==
    ASSUME NEW w \in Seq(Queries), NEW p \in 1..Len(w), NEW c, c = w[p],
           \A i, j \in 1..Len(w) : w[i] = w[j] => i = j
    PROVE  /\ Without(w, c) \in Seq(Queries)
           /\ \A i \in 1..Len(Without(w, c)) :
                Shift(p, i) \in 1..Len(w) /\ Without(w, c)[i] = w[Shift(p, i)] /\ Without(w, c)[i] # c
           /\ \A j \in 1..Len(w) : w[j] # c =>
                Unshift(p, j) \in 1..Len(Without(w, c)) /\ Without(w, c)[Unshift(p, j)] = w[j]
           /\ \A i, j \in 1..Len(Without(w, c)) : i < j <=> Shift(p, i) < Shift(p, j)
           /\ \A i, j \in 1..Len(w) : w[i] # c /\ w[j] # c => (i < j <=> Unshift(p, i) < Unshift(p, j))
<1> DEFINE r == Without(w, c)
<1>1. /\ r \in Seq(Queries) /\ Len(r) = Len(w) - 1 /\ Len(w) \in Nat
      /\ \A i \in 1..Len(w) - 1 : r[i] = IF i < p THEN w[i] ELSE w[i + 1]
  <2>1. /\ Without(w, w[p]) \in Seq(Queries)
        /\ Len(Without(w, w[p])) = Len(w) - 1
        /\ \A i \in 1..Len(w) - 1 :
             Without(w, w[p])[i] = IF i < p THEN w[i] ELSE w[i + 1]
    BY WithoutShifts
  <2>2. r = Without(w, w[p])
    OBVIOUS
  <2>3. QED
    BY <2>1, <2>2
<1> HIDE DEF r
<1>2. ASSUME NEW i \in 1..Len(r)
      PROVE  Shift(p, i) \in 1..Len(w) /\ r[i] = w[Shift(p, i)] /\ r[i] # c
  <2>1. Shift(p, i) \in 1..Len(w) /\ Shift(p, i) # p
    BY <1>1 DEF Shift
  <2>2. r[i] = w[Shift(p, i)]
    BY <1>1 DEF Shift
  <2>3. QED
    BY <2>1, <2>2
<1>3. ASSUME NEW j \in 1..Len(w), w[j] # c
      PROVE  Unshift(p, j) \in 1..Len(r) /\ r[Unshift(p, j)] = w[j]
  <2>1. CASE j < p
    <3>1. j \in 1..Len(w) - 1
      BY <1>1, <2>1
    <3>2. QED
      BY <1>1, <2>1, <3>1 DEF Unshift
  <2>2. CASE ~(j < p)
    <3>1. j - 1 \in 1..Len(w) - 1 /\ ~(j - 1 < p) /\ (j - 1) + 1 = j
      BY <1>1, <1>3, <2>2
    <3>2. QED
      BY <1>1, <2>2, <3>1 DEF Unshift
  <2>3. QED
    BY <2>1, <2>2
<1>4. \A i, j \in 1..Len(r) : i < j <=> Shift(p, i) < Shift(p, j)
  BY <1>1 DEF Shift
<1>5. ASSUME NEW i \in 1..Len(w), NEW j \in 1..Len(w), w[i] # c, w[j] # c
      PROVE  i < j <=> Unshift(p, i) < Unshift(p, j)
  <2>1. i # p /\ j # p
    BY <1>5
  <2>2. QED
    BY <1>1, <2>1 DEF Unshift
<1>6. QED
  BY <1>1, <1>2, <1>3, <1>4, <1>5 DEF r


-----------------------------------------------------------------------------
(* What GivePermits does. *)

Distinct(w) == \A i, j \in 1 .. Len(w) : w[i] = w[j] => i = j
Futs == {"pending", "set", "cancelled"}

\* Of n permits some went to the callers of H: pending ones, one each, nobody past
\* another; and if nobody in w has one yet, none is left.
Handed(H, n, w) ==
    /\ H \in SUBSET Queries /\ IsFiniteSet(H)
    /\ value' \in Nat /\ n = value' + Cardinality(H)
    /\ fut' = [q \in Queries |-> IF q \in H THEN "set" ELSE fut[q]]
    /\ \A q \in H : fut[q] = "pending" /\ \E i \in 1 .. Len(w) : w[i] = q
    /\ \A i, j \in 1 .. Len(w) : i < j /\ fut[w[i]] = "pending" /\ w[j] \in H => w[i] \in H
    /\ n > 0 => \A i \in 1 .. Len(w) : fut[w[i]] = "pending" /\ w[i] \notin H =>
                   \E j \in 1 .. i - 1 : w[j] \in H

LEMMA Giving ==
    ASSUME NEW n \in Nat, NEW k \in Nat \ {0}, NEW w \in Seq(Queries), Distinct(w),
           fut \in [Queries -> Futs], GivePermits(n, w, k)
    PROVE  \E H : Handed(H, n, w)
<1> DEFINE U == Unserved(w)
           m == Min({n, k})
           L == Lowest(U, m)
           H == {w[i] : i \in L}
<1>1. DOMAIN w = 1 .. Len(w) /\ Len(w) \in Nat
  OBVIOUS
<1>2. U \subseteq 1 .. Len(w) /\ U \subseteq Nat /\ IsFiniteSet(U)
      /\ \A i \in 1 .. Len(w) : i \in U <=> fut[w[i]] = "pending"
  <2>1. U \subseteq 1 .. Len(w) /\ \A i \in 1 .. Len(w) : i \in U <=> fut[w[i]] = "pending"
    BY <1>1 DEF Unserved
  <2>2. IsFiniteSet(1 .. Len(w))
    BY <1>1, FS_Interval
  <2> QED
    BY <2>1, <2>2, FS_Subset
<1>3. m \in Nat /\ m <= n /\ (n > 0 => m > 0)
  <2>1. \E x \in {n, k} : \A y \in {n, k} : x <= y
    OBVIOUS
  <2>2. m \in {n, k} /\ \A y \in {n, k} : m <= y
    BY <2>1 DEF Min
  <2> QED
    BY <2>2
<1>4. /\ value' = n - Cardinality(L)
      /\ fut' = [q \in Queries |-> IF \E i \in L : w[i] = q THEN "set" ELSE fut[q]]
  BY DEF GivePermits, Lowest, Rank
<1> HIDE DEF U, m
<1>5. /\ IsFiniteSet(L) /\ Cardinality(L) <= m /\ L \subseteq U
      /\ \A i \in U, j \in L : i < j => i \in L
      /\ m > 0 => \A i \in U \ L : \E j \in L : j < i
  BY <1>2, <1>3, LowestAreFew DEF Lowest
<1> HIDE DEF L
<1>6. /\ \A i \in L : i \in 1 .. Len(w) /\ w[i] \in H
      /\ \A i \in 1 .. Len(w) : w[i] \in H => i \in L
      /\ \A q \in H : \E i \in L : w[i] = q
  BY <1>2, <1>5 DEF Distinct
<1>7. H \in SUBSET Queries
  BY <1>2, <1>5
<1>8. IsFiniteSet(H) /\ Cardinality(H) = Cardinality(L)
  <2> DEFINE f == [i \in L |-> w[i]]
  <2>1. f \in Bijection(L, H)
    <3>1. f \in [L -> H] /\ \A i \in L : f[i] = w[i]
      BY <1>6
    <3>2. \A i, j \in L : f[i] = f[j] => i = j
      BY <1>6, <3>1 DEF Distinct
    <3>3. \A q \in H : \E i \in L : f[i] = q
      BY <1>6, <3>1
    <3> HIDE DEF f, H
    <3> QED
      BY <3>1, <3>2, <3>3 DEF Bijection, Injection, Surjection, IsInjective
  <2>2. ExistsBijection(L, H)
    BY <2>1 DEF ExistsBijection
  <2> QED
    BY <1>5, <2>2, FS_Bijection
<1>9. Cardinality(L) \in Nat
  BY <1>5, FS_CardinalityType
<1>10. n = value' + Cardinality(H) /\ value' \in Nat
  BY <1>3, <1>4, <1>5, <1>8, <1>9
<1>11. fut' = [q \in Queries |-> IF q \in H THEN "set" ELSE fut[q]]
  <2>1. \A q \in Queries : (\E i \in L : w[i] = q) <=> q \in H
    BY <1>6
  <2> HIDE DEF H
  <2> QED
    BY <1>4, <2>1
<1>12. \A q \in H : fut[q] = "pending" /\ \E i \in 1 .. Len(w) : w[i] = q
  BY <1>2, <1>5, <1>6
<1>13. \A i, j \in 1 .. Len(w) : i < j /\ fut[w[i]] = "pending" /\ w[j] \in H => w[i] \in H
  BY <1>2, <1>5, <1>6
<1>14. n > 0 =>
         \A i \in 1 .. Len(w) : fut[w[i]] = "pending" /\ w[i] \notin H =>
             \E j \in 1 .. i - 1 : w[j] \in H
  <2> SUFFICES ASSUME n > 0, NEW i \in 1 .. Len(w), fut[w[i]] = "pending", w[i] \notin H
               PROVE  \E j \in 1 .. i - 1 : w[j] \in H
    OBVIOUS
  <2>1. i \in U \ L
    BY <1>2, <1>6
  <2>2. PICK j \in L : j < i
    BY <1>3, <1>5, <2>1
  <2>3. j \in 1 .. i - 1 /\ w[j] \in H
    BY <1>6, <2>2
  <2> QED
    BY <2>3
<1> HIDE DEF H
<1> QED
  BY <1>7, <1>8, <1>10, <1>11, <1>12, <1>13, <1>14 DEF Handed

-----------------------------------------------------------------------------
(* The invariant. *)

TypeInv ==
    /\ caller \in [Queries -> {"new", "waiting", "awaiting"} \cup Ended]
    /\ value \in Nat /\ lost \in 0 .. MaxLost
    /\ waiters \in Seq(Queries)
    /\ fut \in [Queries -> Futs]
    /\ doomed \in SUBSET Queries /\ expired \in SUBSET Queries /\ returning \in SUBSET Queries
    /\ job \in [Queries -> {"none", "queued", "running", "returned", "dropped"}]

\* In line are the callers that wait, each once.
LineInv ==
    /\ \A i \in 1 .. Len(waiters) : caller[waiters[i]] = "waiting"
    /\ Distinct(waiters)
    /\ \A q \in Queries : caller[q] = "waiting" => \E i \in 1 .. Len(waiters) : waiters[i] = q

\* Who has no result to wait for, or gave up in line, has no call in the pool.
CallInv ==
    \A q \in Queries :
        /\ caller[q] \in {"new", "waiting", "rejected", "unsubmitted"} => job[q] = "none"
        /\ caller[q] = "new" => fut[q] = "pending" /\ q \notin doomed \cup expired
        /\ q \in doomed \cup expired =>
              /\ job[q] = "none" /\ caller[q] \in {"waiting", "cancelled", "rejected"}
              /\ caller[q] = "waiting" => fut[q] # "pending"
        /\ q \in returning => job[q] \in {"returned", "dropped"}

PoolInv == TypeInv /\ LineInv /\ CallInv /\ PermitsConserved /\ NoIdlePermit

LEMMA PoolStarts == Init => PoolInv
<1> SUFFICES ASSUME Init PROVE PoolInv
  OBVIOUS
<1>1. TypeInv /\ LineInv /\ CallInv /\ NoIdlePermit
  BY PoolAssumption
  DEF Init, TypeInv, LineInv, CallInv, NoIdlePermit, Unserved, Distinct, Futs, Ended
<1>2. Granted = {} /\ Holders = {} /\ returning = {}
  BY DEF Init, Granted, Holders
<1>3. Cardinality(Granted) = 0 /\ Cardinality(Holders) = 0 /\ Cardinality(returning) = 0
  BY <1>2, FS_EmptySet
<1>4. PermitsConserved
  BY <1>3, PoolAssumption DEF Init, PermitsConserved
<1> QED
  BY <1>1, <1>4 DEF PoolInv

LEMMA FiniteCounts ==
    /\ IsFiniteSet(Granted) /\ IsFiniteSet(Holders)
    /\ TypeInv => IsFiniteSet(returning)
    /\ Cardinality(Granted) \in Nat /\ Cardinality(Holders) \in Nat
    /\ TypeInv => Cardinality(returning) \in Nat
<1>1. Granted \subseteq Queries /\ Holders \subseteq Queries /\ (TypeInv => returning \subseteq Queries)
  BY DEF Granted, Holders, TypeInv
<1>2. IsFiniteSet(Granted) /\ IsFiniteSet(Holders) /\ (TypeInv => IsFiniteSet(returning))
  BY <1>1, PoolAssumption, FS_Subset
<1> QED
  BY <1>2, FS_CardinalityType

\* The line without a caller: the others, in the same order.
OthersStay(rest, q) ==
    /\ rest \in Seq(Queries) /\ Distinct(rest)
    /\ \A i \in 1 .. Len(rest) : rest[i] # q /\ caller[rest[i]] = "waiting"
    /\ \A p \in Queries : caller[p] = "waiting" /\ p # q =>
          \E i \in 1 .. Len(rest) : rest[i] = p
OrderStays(rest, q) ==
    /\ \A i, j \in 1 .. Len(waiters) : i < j /\ waiters[i] # q /\ waiters[j] # q =>
          \E a, b \in 1 .. Len(rest) : a < b /\ rest[a] = waiters[i] /\ rest[b] = waiters[j]
    /\ \A b \in 1 .. Len(rest) : \E j \in 1 .. Len(waiters) :
          /\ waiters[j] = rest[b]
          /\ \A i \in 1 .. j - 1 : waiters[i] # q => \E a \in 1 .. b - 1 : rest[a] = waiters[i]

LEMMA Leaving ==
    ASSUME TypeInv, LineInv, NEW q \in Queries, caller[q] = "waiting",
           NEW rest, rest = Without(waiters, q)
    PROVE  OthersStay(rest, q) /\ OrderStays(rest, q)
<1>1. PICK p \in 1 .. Len(waiters) : waiters[p] = q
  BY DEF LineInv
<1>2. waiters \in Seq(Queries) /\ Distinct(waiters) /\ Len(waiters) \in Nat
  BY DEF TypeInv, LineInv
<1>3. /\ rest \in Seq(Queries)
      /\ \A i \in 1 .. Len(rest) :
            Shift(p, i) \in 1 .. Len(waiters) /\ rest[i] = waiters[Shift(p, i)] /\ rest[i] # q
      /\ \A j \in 1 .. Len(waiters) : waiters[j] # q =>
            Unshift(p, j) \in 1 .. Len(rest) /\ rest[Unshift(p, j)] = waiters[j]
      /\ \A i, j \in 1 .. Len(rest) : i < j <=> Shift(p, i) < Shift(p, j)
      /\ \A i, j \in 1 .. Len(waiters) : waiters[i] # q /\ waiters[j] # q =>
            (i < j <=> Unshift(p, i) < Unshift(p, j))
  BY <1>1, <1>2, WithoutPlaces DEF Distinct
<1>4. Distinct(rest)
  <2> SUFFICES ASSUME NEW i \in 1 .. Len(rest), NEW j \in 1 .. Len(rest), rest[i] = rest[j]
               PROVE  i = j
    BY DEF Distinct
  <2>1. Shift(p, i) = Shift(p, j)
    BY <1>2, <1>3 DEF Distinct
  <2>2. i \in Int /\ j \in Int
    OBVIOUS
  <2> QED
    BY <1>1, <2>1, <2>2 DEF Shift
<1>5. \A i \in 1 .. Len(rest) : caller[rest[i]] = "waiting"
  BY <1>3 DEF LineInv
<1>6. ASSUME NEW r \in Queries, caller[r] = "waiting", r # q
      PROVE  \E i \in 1 .. Len(rest) : rest[i] = r
  <2>1. PICK j \in 1 .. Len(waiters) : waiters[j] = r
    BY <1>6 DEF LineInv
  <2> QED
    BY <1>3, <1>6, <2>1
<1>7. ASSUME NEW i \in 1 .. Len(waiters), NEW j \in 1 .. Len(waiters), i < j, waiters[i] # q,
             waiters[j] # q
      PROVE  \E a, b \in 1 .. Len(rest) : a < b /\ rest[a] = waiters[i] /\ rest[b] = waiters[j]
  BY <1>3, <1>7
<1>8. ASSUME NEW b \in 1 .. Len(rest)
      PROVE  \E j \in 1 .. Len(waiters) :
                 /\ waiters[j] = rest[b]
                 /\ \A i \in 1 .. j - 1 : waiters[i] # q =>
                       \E a \in 1 .. b - 1 : rest[a] = waiters[i]
  <2> DEFINE j == Shift(p, b)
  <2>1. j \in 1 .. Len(waiters) /\ waiters[j] = rest[b] /\ waiters[j] # q
    BY <1>3
  <2>2. Unshift(p, j) = b
    BY <1>1 DEF Shift, Unshift
  <2> HIDE DEF j
  <2>3. ASSUME NEW i \in 1 .. j - 1, waiters[i] # q
        PROVE  \E a \in 1 .. b - 1 : rest[a] = waiters[i]
    <3>1. i \in 1 .. Len(waiters) /\ i < j
      BY <1>2, <2>1
    <3>2. Unshift(p, i) < b /\ Unshift(p, i) \in 1 .. Len(rest) /\ rest[Unshift(p, i)] = waiters[i]
      BY <1>3, <2>1, <2>2, <2>3, <3>1
    <3>3. Unshift(p, i) \in 1 .. b - 1
      BY <3>2
    <3> QED
      BY <3>2, <3>3
  <2> QED
    BY <2>1, <2>3
<1> QED
  BY <1>3, <1>4, <1>5, <1>6, <1>7, <1>8 DEF OthersStay, OrderStays

-----------------------------------------------------------------------------
(* The steps that hand permits out. *)

\* A permit of n that is left over leaves nobody unserved without one before it.
LEMMA NoneIdle ==
    ASSUME NEW H, NEW n \in Nat, NEW w \in Seq(Queries), fut \in [Queries -> Futs],
           Handed(H, n, w), waiters' = w
    PROVE  NoIdlePermit'
<1> SUFFICES ASSUME value' > 0, NEW i \in 1 .. Len(w), fut'[w[i]] = "pending"
             PROVE  \E j \in 1 .. i - 1 : fut'[w[j]] = "set"
  BY DEF NoIdlePermit, Unserved
<1>1. H \in SUBSET Queries /\ IsFiniteSet(H) /\ value' \in Nat /\ n = value' + Cardinality(H)
  BY DEF Handed
<1>2. n > 0
  BY <1>1, FS_CardinalityType
<1>3. \A q \in Queries : fut'[q] = IF q \in H THEN "set" ELSE fut[q]
  BY DEF Handed
<1>4. w[i] \in Queries /\ w[i] \notin H /\ fut[w[i]] = "pending"
  BY <1>3
<1>5. PICK j \in 1 .. i - 1 : w[j] \in H
  BY <1>2, <1>4 DEF Handed
<1> QED
  BY <1>1, <1>3, <1>5

\* Permits granted: those of G, which had one before, and those just handed.
LEMMA GrantedSum ==
    ASSUME NEW G, NEW H, IsFiniteSet(G), IsFiniteSet(H), G \cap H = {}
    PROVE  /\ Cardinality(G) \in Nat /\ Cardinality(H) \in Nat
           /\ Cardinality(G \cup H) = Cardinality(G) + Cardinality(H)
<1>1. Cardinality(G) \in Nat /\ Cardinality(H) \in Nat
  BY FS_CardinalityType
<1>2. Cardinality(G \cap H) = 0
  BY FS_EmptySet
<1>3. Cardinality(G \cup H) = Cardinality(G) + Cardinality(H) - Cardinality(G \cap H)
  BY FS_Union
<1> QED
  BY <1>1, <1>2, <1>3

LEMMA PermitReturnsKeeps ==
    ASSUME PoolInv, NEW q \in Queries, PermitReturns(q)
    PROVE  PoolInv'
<1>1. TypeInv /\ LineInv /\ CallInv /\ PermitsConserved
  BY DEF PoolInv
<1>2. /\ UNCHANGED <<caller, waiters, doomed, expired, job, lost>>
      /\ q \in returning /\ returning' = returning \ {q} /\ value + 1 \in Nat
      /\ GivePermits(value + 1, waiters, 1)
  BY <1>1 DEF PermitReturns, TypeInv
<1>3. PICK H : Handed(H, value + 1, waiters)
  BY <1>1, <1>2, Giving DEF TypeInv, LineInv
<1>4. /\ H \in SUBSET Queries /\ IsFiniteSet(H) /\ value' \in Nat
      /\ value + 1 = value' + Cardinality(H)
      /\ \A p \in Queries : fut'[p] = IF p \in H THEN "set" ELSE fut[p]
      /\ \A p \in H : fut[p] = "pending" /\ \E i \in 1 .. Len(waiters) : waiters[i] = p
      /\ fut' \in [Queries -> Futs]
  BY <1>1, <1>3 DEF Handed, TypeInv, Futs
<1>5. TypeInv' /\ LineInv'
  BY <1>1, <1>2, <1>4 DEF TypeInv, LineInv
<1>6. \A p \in H : caller[p] = "waiting"
  BY <1>1, <1>4 DEF LineInv
<1>7. CallInv'
  BY <1>1, <1>2, <1>4, <1>6 DEF CallInv
<1>8. NoIdlePermit'
  BY <1>1, <1>2, <1>3, NoneIdle DEF TypeInv
<1>9. PermitsConserved'
  <2>1. Granted' = Granted \cup H /\ Granted \cap H = {} /\ Holders' = Holders
    BY <1>2, <1>4, <1>6 DEF Granted, Holders
  <2>2. Cardinality(Granted') = Cardinality(Granted) + Cardinality(H) /\ Cardinality(H) \in Nat
    BY <1>4, <2>1, FiniteCounts, GrantedSum
  <2>3. Cardinality(returning') = Cardinality(returning) - 1
    BY <1>1, <1>2, FiniteCounts, FS_RemoveElement
  <2> QED
    BY SMTT(30), <1>1, <1>2, <1>4, <2>1, <2>2, <2>3, FiniteCounts DEF PermitsConserved, TypeInv
<1> QED
  BY <1>5, <1>7, <1>8, <1>9 DEF PoolInv

\* A caller leaves the line, by its permit or without one: the line and who is in it.
LEMMA LineLeft ==
    ASSUME TypeInv, LineInv, NEW q \in Queries, caller[q] = "waiting",
           waiters' = Without(waiters, q),
           NEW c \in Ended \cup {"awaiting"}, caller' = [caller EXCEPT ![q] = c]
    PROVE  LineInv' /\ waiters' \in Seq(Queries)
<1>0. PICK rest : rest = Without(waiters, q)
  OBVIOUS
<1>1. OthersStay(rest, q) /\ waiters' = rest
  BY <1>0, Leaving
<1>2. caller'[q] # "waiting" /\ \A p \in Queries \ {q} : caller'[p] = caller[p]
  BY DEF TypeInv, Ended
<1>3. \A i \in 1 .. Len(rest) : rest[i] \in Queries /\ caller'[rest[i]] = "waiting"
  BY <1>1, <1>2 DEF OthersStay
<1>4. \A p \in Queries : caller'[p] = "waiting" => p # q /\ caller[p] = "waiting"
  BY <1>2
<1> QED
  BY <1>1, <1>3, <1>4 DEF OthersStay, LineInv, Distinct

\* A caller that was handed a permit leaves the line: it takes the permit into the pool,
\* or the permit goes on to the others.
LEMMA PermitPasses ==
    ASSUME PoolInv, NEW q \in Queries, caller[q] = "waiting", fut[q] = "set",
           waiters' = Without(waiters, q), UNCHANGED <<doomed, expired, returning, lost>>,
           NEW c \in {"awaiting", "unsubmitted", "cancelled", "rejected"},
           caller' = [caller EXCEPT ![q] = c],
           c \in {"awaiting", "unsubmitted"} => q \notin doomed \cup expired,
           NEW j \in {"none", "queued"}, job' = [job EXCEPT ![q] = j],
           NEW n \in {value, value + 1}, NEW k \in {1, 2}, GivePermits(n, Without(waiters, q), k),
           c = "awaiting" <=> j = "queued", c = "awaiting" <=> n = value
    PROVE  PoolInv'
<1> DEFINE rest == Without(waiters, q)
<1>1. TypeInv /\ LineInv /\ CallInv /\ PermitsConserved
  BY DEF PoolInv
<1>2. waiters' = rest /\ job[q] = "none" /\ GivePermits(n, rest, k)
  BY <1>1 DEF CallInv
<1>3. /\ rest \in Seq(Queries) /\ Distinct(rest)
      /\ \A i \in 1 .. Len(rest) : rest[i] # q /\ caller[rest[i]] = "waiting"
  BY <1>1, <1>2, Leaving DEF OthersStay
<1> HIDE DEF rest
<1>4. value \in Nat /\ n \in Nat
  BY <1>1 DEF TypeInv
<1>5. PICK H : Handed(H, n, rest)
  BY <1>1, <1>2, <1>3, <1>4, Giving DEF TypeInv
<1>6. /\ H \in SUBSET Queries /\ IsFiniteSet(H) /\ value' \in Nat
      /\ n = value' + Cardinality(H)
      /\ \A p \in Queries : fut'[p] = IF p \in H THEN "set" ELSE fut[p]
      /\ \A p \in H : fut[p] = "pending" /\ \E i \in 1 .. Len(rest) : rest[i] = p
      /\ fut' \in [Queries -> Futs]
  BY <1>1, <1>5 DEF Handed, TypeInv, Futs
<1>7. LineInv' /\ waiters' \in Seq(Queries)
  BY <1>1, <1>2, LineLeft DEF Ended, rest
<1>8. TypeInv'
  BY <1>1, <1>2, <1>6, <1>7 DEF TypeInv, Ended
<1>9. \A p \in H : caller[p] = "waiting" /\ p # q
  BY <1>3, <1>6
<1>10. /\ caller'[q] = c /\ \A p \in Queries \ {q} : caller'[p] = caller[p]
      /\ job'[q] = j /\ \A p \in Queries \ {q} : job'[p] = job[p]
  BY <1>1 DEF TypeInv
<1>11. CallInv'
  <2> SUFFICES ASSUME NEW p \in Queries
               PROVE  /\ caller'[p] \in {"new", "waiting", "rejected", "unsubmitted"} => job'[p] = "none"
                      /\ caller'[p] = "new" => fut'[p] = "pending" /\ p \notin doomed' \cup expired'
                      /\ p \in doomed' \cup expired' =>
                            /\ job'[p] = "none" /\ caller'[p] \in {"waiting", "cancelled", "rejected"}
                            /\ caller'[p] = "waiting" => fut'[p] # "pending"
                      /\ p \in returning' => job'[p] \in {"returned", "dropped"}
    BY DEF CallInv
  <2>1. CASE p = q
    BY <1>1, <1>2, <1>10, <2>1 DEF CallInv
  <2>2. CASE p # q
    BY <1>1, <1>2, <1>6, <1>9, <1>10, <2>2 DEF CallInv
  <2> QED
    BY <2>1, <2>2
<1>12. NoIdlePermit'
  BY <1>1, <1>2, <1>3, <1>4, <1>5, NoneIdle DEF TypeInv
<1>13. PermitsConserved'
  <2>1. /\ Granted' = (Granted \ {q}) \cup H /\ (Granted \ {q}) \cap H = {}
        /\ q \in Granted
    BY <1>2, <1>6, <1>9, <1>10 DEF Granted
  <2>2. IsFiniteSet(Granted \ {q}) /\ Cardinality(Granted \ {q}) = Cardinality(Granted) - 1
    BY <2>1, FiniteCounts, FS_RemoveElement
  <2>3. Cardinality(Granted') = Cardinality(Granted \ {q}) + Cardinality(H) /\ Cardinality(H) \in Nat
    <3>1. PICK G : G = Granted \ {q}
      OBVIOUS
    <3>2. Cardinality(G \cup H) = Cardinality(G) + Cardinality(H) /\ Cardinality(H) \in Nat
      BY ZenonT(30), <1>6, <2>1, <2>2, <3>1, GrantedSum
    <3> QED
      BY <2>1, <3>1, <3>2
  <2>4. q \notin Holders /\ Holders' = IF c = "awaiting" THEN Holders \cup {q} ELSE Holders
    BY <1>2, <1>10 DEF Holders
  <2>5. Cardinality(Holders \cup {q}) = Cardinality(Holders) + 1
    BY <2>4, FiniteCounts, FS_AddElement
  <2>6. /\ value + Cardinality(Granted) + Cardinality(Holders) + Cardinality(returning) + lost = Slots
        /\ Cardinality(Granted) \in Nat /\ Cardinality(Holders) \in Nat
        /\ Cardinality(returning) \in Nat /\ lost \in Nat /\ returning' = returning /\ lost' = lost
    BY <1>1, <1>2, FiniteCounts DEF PermitsConserved, TypeInv
  <2>7. n + Cardinality(Holders') = value + Cardinality(Holders) + 1 /\ Cardinality(Holders') \in Nat
    <3>1. CASE c = "awaiting"
      BY <1>4, <2>4, <2>5, <2>6, <3>1
    <3>2. CASE c # "awaiting"
      BY <1>4, <2>4, <2>6, <3>2
    <3> QED
      BY <3>1, <3>2
  <2> QED
    <3>1. /\ value \in Nat /\ n \in Nat /\ value' \in Nat /\ n = value' + Cardinality(H)
          /\ Cardinality(H) \in Nat
          /\ Cardinality(Granted') = Cardinality(Granted) - 1 + Cardinality(H)
      BY <1>4, <1>6, <2>2, <2>3
    <3>2. value' + Cardinality(Granted') + Cardinality(Holders') + Cardinality(returning) + lost = Slots
      BY <2>6, <2>7, <3>1
    <3> QED
      BY <2>6, <3>2 DEF PermitsConserved
<1> QED
  BY <1>7, <1>8, <1>11, <1>12, <1>13 DEF PoolInv

LEMMA AdmittedKeeps ==
    ASSUME PoolInv, NEW q \in Queries, Admitted(q)
    PROVE  PoolInv'
<1>1. TypeInv /\ CallInv
  BY DEF PoolInv
<1>2. /\ UNCHANGED <<doomed, expired, returning, lost>> /\ waiters' = Without(waiters, q)
      /\ caller[q] = "waiting" /\ fut[q] = "set" /\ q \notin doomed \cup expired
      /\ job[q] = "none"
  BY <1>1 DEF Admitted, CallInv
<1>3. CASE Submitted(q) /\ GivePermits(value, Without(waiters, q), 1)
  BY <1>2, <1>3, PermitPasses DEF Submitted
<1>4. CASE /\ caller' = [caller EXCEPT ![q] = "unsubmitted"]
           /\ GivePermits(value + 1, Without(waiters, q), 2) /\ UNCHANGED job
  <2>1. job' = [job EXCEPT ![q] = "none"]
    BY <1>1, <1>2, <1>4 DEF TypeInv
  <2>2. value # value + 1
    BY <1>1 DEF TypeInv
  <2> QED
    BY <1>2, <1>4, <2>1, <2>2, PermitPasses
<1> QED
  BY <1>3, <1>4 DEF Admitted

LEMMA WaitEndsKeeps ==
    ASSUME PoolInv, NEW q \in Queries, WaitEnds(q)
    PROVE  PoolInv'
<1> DEFINE c == IF q \in doomed THEN "cancelled" ELSE "rejected"
<1>1. TypeInv /\ LineInv /\ CallInv /\ PermitsConserved /\ NoIdlePermit
  BY DEF PoolInv
<1>2. /\ UNCHANGED <<doomed, expired, job, returning, lost>> /\ waiters' = Without(waiters, q)
      /\ caller[q] = "waiting" /\ q \in doomed \cup expired /\ c \in {"cancelled", "rejected"}
      /\ caller' = [caller EXCEPT ![q] = c] /\ job[q] = "none" /\ value # value + 1
  BY <1>1 DEF WaitEnds, CallInv, TypeInv
<1>3. IF fut[q] = "set" THEN GivePermits(value + 1, Without(waiters, q), 1) ELSE UNCHANGED <<value, fut>>
  BY DEF WaitEnds
<1> HIDE DEF c
<1>4. CASE fut[q] = "set"
  <2>1. job' = [job EXCEPT ![q] = "none"]
    BY <1>1, <1>2 DEF TypeInv
  <2> QED
    BY <1>2, <1>3, <1>4, <2>1, PermitPasses
<1>5. CASE fut[q] # "set"
  <2>1. UNCHANGED <<value, fut>>
    BY <1>3, <1>5
  <2>2. PICK rest : rest = Without(waiters, q)
    OBVIOUS
  <2>3. OthersStay(rest, q) /\ OrderStays(rest, q) /\ waiters' = rest
    BY <1>1, <1>2, <2>2, Leaving
  <2>4. LineInv' /\ waiters' \in Seq(Queries)
    BY <1>1, <1>2, LineLeft DEF Ended
  <2>5. TypeInv'
    BY <1>1, <1>2, <2>1, <2>4 DEF TypeInv, Ended
  <2>6. caller'[q] = c /\ \A p \in Queries \ {q} : caller'[p] = caller[p]
    BY <1>1, <1>2 DEF TypeInv
  <2>7. CallInv'
    BY <1>1, <1>2, <2>1, <2>6 DEF CallInv
  <2>8. NoIdlePermit'
    <3> SUFFICES ASSUME value > 0, NEW b \in 1 .. Len(rest), fut[rest[b]] = "pending"
                 PROVE  \E a \in 1 .. b - 1 : fut[rest[a]] = "set"
      BY <2>1, <2>3 DEF NoIdlePermit, Unserved
    <3>1. PICK j \in 1 .. Len(waiters) :
            /\ waiters[j] = rest[b]
            /\ \A i \in 1 .. j - 1 : waiters[i] # q => \E a \in 1 .. b - 1 : rest[a] = waiters[i]
      BY <2>3 DEF OrderStays
    <3>2. PICK i \in 1 .. j - 1 : fut[waiters[i]] = "set"
      BY <1>1, <3>1 DEF NoIdlePermit, Unserved, TypeInv
    <3>3. waiters[i] # q
      BY <1>5, <3>2
    <3> QED
      BY <3>1, <3>2, <3>3
  <2>9. Granted' = Granted /\ Holders' = Holders
    BY <1>2, <1>5, <2>1, <2>6 DEF Granted, Holders
  <2>10. PermitsConserved'
    BY <1>1, <1>2, <2>1, <2>9 DEF PermitsConserved
  <2> QED
    BY <2>4, <2>5, <2>7, <2>8, <2>10 DEF PoolInv
<1> QED
  BY <1>4, <1>5

-----------------------------------------------------------------------------
(* The steps that hand nothing out. *)

\* A caller in line is told to stop waiting.
LEMMA EndWaitKeeps ==
    ASSUME PoolInv, NEW q \in Queries, caller[q] = "waiting", EndWait(q),
           UNCHANGED <<caller, value, waiters, job, returning, lost>>,
           doomed' \in SUBSET Queries, expired' \in SUBSET Queries,
           doomed' \cup expired' = doomed \cup expired \cup {q}
    PROVE  PoolInv'
<1>1. TypeInv /\ LineInv /\ CallInv /\ PermitsConserved /\ NoIdlePermit
  BY DEF PoolInv
<1>2. /\ fut' \in [Queries -> Futs] /\ fut'[q] # "pending"
      /\ \A p \in Queries : (fut'[p] = "set" <=> fut[p] = "set") /\ (fut'[p] = "pending" => fut[p] = "pending")
      /\ \A p \in Queries \ {q} : fut'[p] = fut[p]
  BY <1>1 DEF EndWait, TypeInv, Futs
<1>3. TypeInv' /\ LineInv'
  BY <1>1, <1>2 DEF TypeInv, LineInv
<1>4. CallInv'
  <2>1. \A p \in Queries : p \in doomed' \cup expired' <=> p \in doomed \cup expired \/ p = q
    OBVIOUS
  <2> QED
    BY <1>1, <1>2, <2>1 DEF CallInv
<1>5. NoIdlePermit'
  <2> SUFFICES ASSUME value > 0, NEW i \in 1 .. Len(waiters), fut'[waiters[i]] = "pending"
               PROVE  \E j \in 1 .. i - 1 : fut'[waiters[j]] = "set"
    BY DEF NoIdlePermit, Unserved
  <2>1. \A k \in 1 .. Len(waiters) : waiters[k] \in Queries
    BY <1>1 DEF TypeInv
  <2>2. PICK j \in 1 .. i - 1 : fut[waiters[j]] = "set"
    BY <1>1, <1>2, <2>1 DEF NoIdlePermit, Unserved, TypeInv
  <2>3. j \in 1 .. Len(waiters)
    BY <1>1, <2>2 DEF TypeInv
  <2> QED
    BY <1>2, <2>1, <2>2, <2>3
<1>6. Granted' = Granted /\ Holders' = Holders
  BY <1>2 DEF Granted, Holders
<1>7. PermitsConserved'
  BY <1>1, <1>6 DEF PermitsConserved
<1> QED
  BY <1>3, <1>4, <1>5, <1>7 DEF PoolInv

\* A step that leaves the semaphore and the line alone.
LEMMA QuietStep ==
    ASSUME PoolInv, UNCHANGED <<value, waiters, fut>>, TypeInv', CallInv',
           \A p \in Queries : caller'[p] = "waiting" <=> caller[p] = "waiting",
           Cardinality(Holders') + Cardinality(returning') + lost' =
               Cardinality(Holders) + Cardinality(returning) + lost,
           Cardinality(Holders') \in Nat, Cardinality(returning') \in Nat, lost' \in Nat
    PROVE  PoolInv'
<1>1. TypeInv /\ LineInv /\ PermitsConserved /\ NoIdlePermit
  BY DEF PoolInv
<1>2. LineInv'
  BY <1>1 DEF LineInv, TypeInv, Distinct
<1>3. NoIdlePermit'
  BY <1>1 DEF NoIdlePermit, Unserved
<1>4. Granted' = Granted
  BY DEF Granted
<1>5. PermitsConserved'
  <2>1. /\ value + Cardinality(Granted) + Cardinality(Holders) + Cardinality(returning) + lost = Slots
        /\ value \in Nat /\ Cardinality(Granted) \in Nat /\ Cardinality(Holders) \in Nat
        /\ Cardinality(returning) \in Nat /\ lost \in Nat /\ value' = value
    BY <1>1, FiniteCounts DEF PermitsConserved, TypeInv
  <2>2. value + Cardinality(Granted) + Cardinality(Holders') + Cardinality(returning') + lost' = Slots
    BY <2>1
  <2> QED
    BY <1>4, <2>1, <2>2 DEF PermitsConserved
<1> QED
  BY <1>2, <1>3, <1>5 DEF PoolInv

LEMMA CancelCallKeeps ==
    ASSUME PoolInv, NEW q \in Queries, CancelCall(q) \/ Answer(q)
    PROVE  PoolInv'
<1>1. TypeInv /\ CallInv
  BY DEF PoolInv
<1>2. /\ UNCHANGED <<value, waiters, fut, doomed, expired, job, returning, lost>>
      /\ caller[q] = "awaiting"
      /\ caller' = [caller EXCEPT ![q] = "cancelled"] \/ caller' = [caller EXCEPT ![q] = "answered"]
  BY DEF CancelCall, Answer
<1>3. /\ caller'[q] \in {"cancelled", "answered"} /\ \A p \in Queries \ {q} : caller'[p] = caller[p]
      /\ caller' \in [Queries -> {"new", "waiting", "awaiting"} \cup Ended]
  BY <1>1, <1>2 DEF TypeInv, Ended
<1>4. TypeInv' /\ CallInv'
  BY <1>1, <1>2, <1>3 DEF TypeInv, CallInv
<1>5. Holders' = Holders
  BY <1>2 DEF Holders
<1> QED
  BY <1>1, <1>2, <1>3, <1>4, <1>5, FiniteCounts, QuietStep DEF TypeInv

LEMMA StartCallKeeps ==
    ASSUME PoolInv, NEW q \in Queries, StartCall(q)
    PROVE  PoolInv'
<1>1. TypeInv /\ CallInv
  BY DEF PoolInv
<1>2. /\ UNCHANGED <<caller, value, waiters, fut, doomed, expired, returning, lost>>
      /\ job[q] = "queued" /\ job' = [job EXCEPT ![q] = "running"]
  BY DEF StartCall
<1>3. job'[q] = "running" /\ \A p \in Queries \ {q} : job'[p] = job[p]
  BY <1>1, <1>2 DEF TypeInv
<1>4. TypeInv' /\ CallInv'
  BY <1>1, <1>2, <1>3 DEF TypeInv, CallInv
<1>5. Holders' = Holders
  BY <1>2, <1>3 DEF Holders
<1> QED
  BY <1>1, <1>2, <1>4, <1>5, FiniteCounts, QuietStep DEF TypeInv

\* A call leaves the pool: its permit is on its way back, or lost.
LEMMA CallLeavesKeeps ==
    ASSUME PoolInv, NEW q \in Queries, DropQueued(q) \/ CallReturns(q)
    PROVE  PoolInv'
<1>1. TypeInv /\ CallInv
  BY DEF PoolInv
<1>2. /\ UNCHANGED <<caller, value, waiters, fut, doomed, expired>>
      /\ job[q] \in {"queued", "running"}
      /\ job' = [job EXCEPT ![q] = "dropped"] \/ job' = [job EXCEPT ![q] = "returned"]
  BY DEF DropQueued, CallReturns
<1>3. \/ returning' = returning \cup {q} /\ lost' = lost
      \/ returning' = returning /\ lost < MaxLost /\ lost' = lost + 1
  BY DEF DropQueued, CallReturns
<1>4. job'[q] \in {"dropped", "returned"} /\ \A p \in Queries \ {q} : job'[p] = job[p]
  BY <1>1, <1>2 DEF TypeInv
<1>5. caller[q] \notin {"new", "waiting", "rejected", "unsubmitted"} /\ q \notin returning
      /\ q \notin doomed \cup expired
  BY <1>1, <1>2 DEF CallInv
<1>6. TypeInv'
  BY <1>1, <1>2, <1>3, PoolAssumption DEF TypeInv
<1>7. CallInv'
  BY <1>1, <1>2, <1>3, <1>4, <1>5 DEF CallInv
<1>8. Holders' = Holders \ {q} /\ q \in Holders
  BY <1>2, <1>4 DEF Holders
<1>9. Cardinality(Holders') = Cardinality(Holders) - 1 /\ Cardinality(Holders') \in Nat
  BY <1>8, FiniteCounts, FS_RemoveElement, FS_CardinalityType
<1>10. /\ Cardinality(returning') + lost' = Cardinality(returning) + lost + 1
       /\ Cardinality(returning') \in Nat /\ lost' \in Nat
  <2>1. Cardinality(returning \cup {q}) = Cardinality(returning) + 1
    BY <1>1, <1>5, FiniteCounts, FS_AddElement
  <2>2. Cardinality(returning) \in Nat /\ lost \in Nat
    BY <1>1, FiniteCounts, PoolAssumption DEF TypeInv
  <2>3. CASE returning' = returning \cup {q} /\ lost' = lost
    BY <2>1, <2>2, <2>3
  <2>4. CASE returning' = returning /\ lost' = lost + 1
    BY <2>2, <2>4
  <2> QED
    BY <1>3, <2>3, <2>4
<1>11. Cardinality(Holders') + Cardinality(returning') + lost' =
           Cardinality(Holders) + Cardinality(returning) + lost
  <2>1. Cardinality(Holders) \in Nat /\ Cardinality(returning) \in Nat /\ lost \in Nat
    BY <1>1, FiniteCounts DEF TypeInv
  <2> QED
    BY <1>9, <1>10, <2>1
<1> QED
  BY <1>2, <1>6, <1>7, <1>9, <1>10, <1>11, QuietStep

\* A new call: it has a permit, it cannot be submitted, or it joins the line.
LEMMA CallKeeps ==
    ASSUME PoolInv, NEW q \in Queries, Call(q)
    PROVE  PoolInv'
<1>1. TypeInv /\ LineInv /\ CallInv /\ PermitsConserved /\ NoIdlePermit
  BY DEF PoolInv
<1>2. /\ caller[q] = "new" /\ fut[q] = "pending" /\ q \notin doomed \cup expired /\ job[q] = "none"
      /\ UNCHANGED <<doomed, expired, returning, lost>> /\ q \notin returning
      /\ fut' = fut
  BY <1>1 DEF Call, CallInv, Submitted
<1>3. \A i \in 1 .. Len(waiters) : waiters[i] \in Queries /\ waiters[i] # q
  BY <1>1, <1>2 DEF TypeInv, LineInv
<1>4. CASE caller' = [caller EXCEPT ![q] = "unsubmitted"] /\ UNCHANGED <<value, waiters, job>>
  <2>1. /\ caller'[q] = "unsubmitted" /\ \A p \in Queries \ {q} : caller'[p] = caller[p]
        /\ caller' \in [Queries -> {"new", "waiting", "awaiting"} \cup Ended]
    BY <1>1, <1>4 DEF TypeInv, Ended
  <2>2. TypeInv' /\ CallInv'
    BY <1>1, <1>2, <1>4, <2>1 DEF TypeInv, CallInv
  <2>3. Holders' = Holders
    BY <1>4 DEF Holders
  <2> QED
    BY <1>1, <1>2, <1>4, <2>1, <2>2, <2>3, FiniteCounts, QuietStep DEF TypeInv
<1>5. CASE ~SlotLocked /\ Submitted(q) /\ value' = value - 1 /\ UNCHANGED waiters
  <2>1. /\ caller'[q] = "awaiting" /\ \A p \in Queries \ {q} : caller'[p] = caller[p]
        /\ caller' \in [Queries -> {"new", "waiting", "awaiting"} \cup Ended]
        /\ job'[q] = "queued" /\ \A p \in Queries \ {q} : job'[p] = job[p]
        /\ job' \in [Queries -> {"none", "queued", "running", "returned", "dropped"}]
    BY <1>1, <1>5 DEF TypeInv, Submitted
  <2>2. value \in Nat /\ value > 0 /\ value' = value - 1 /\ value' \in Nat
    BY <1>1, <1>5 DEF SlotLocked, TypeInv
  <2>3. TypeInv' /\ CallInv'
    BY <1>1, <1>2, <1>5, <2>1, <2>2 DEF TypeInv, CallInv
  <2>4. LineInv'
    BY <1>1, <1>2, <1>3, <1>5, <2>1 DEF LineInv, Distinct
  <2>5. NoIdlePermit'
    BY <1>1, <1>2, <1>5, <2>2 DEF NoIdlePermit, Unserved
  <2>6. Granted' = Granted /\ Holders' = Holders \cup {q} /\ q \notin Holders
    BY <1>2, <2>1 DEF Granted, Holders
  <2>7. Cardinality(Holders') = Cardinality(Holders) + 1
    BY <2>6, FiniteCounts, FS_AddElement
  <2>8. PermitsConserved'
    <3>1. /\ value + Cardinality(Granted) + Cardinality(Holders) + Cardinality(returning) + lost = Slots
          /\ Cardinality(Granted) \in Nat /\ Cardinality(Holders) \in Nat
          /\ Cardinality(returning) \in Nat /\ lost \in Nat
      BY <1>1, FiniteCounts DEF PermitsConserved, TypeInv
    <3>2. value' + Cardinality(Granted) + Cardinality(Holders') + Cardinality(returning) + lost = Slots
      BY <2>2, <2>7, <3>1
    <3> QED
      BY <1>2, <2>6, <3>2 DEF PermitsConserved
  <2> QED
    BY <2>3, <2>4, <2>5, <2>8 DEF PoolInv
<1>6. CASE /\ SlotLocked /\ caller' = [caller EXCEPT ![q] = "waiting"]
           /\ waiters' = Append(waiters, q) /\ UNCHANGED <<value, job>>
  <2>1. /\ caller'[q] = "waiting" /\ \A p \in Queries \ {q} : caller'[p] = caller[p]
        /\ caller' \in [Queries -> {"new", "waiting", "awaiting"} \cup Ended]
    BY <1>1, <1>6 DEF TypeInv
  <2>2. /\ waiters' \in Seq(Queries) /\ Len(waiters') = Len(waiters) + 1 /\ Len(waiters) \in Nat
        /\ waiters'[Len(waiters) + 1] = q
        /\ \A i \in 1 .. Len(waiters) : waiters'[i] = waiters[i]
    BY <1>1, <1>6 DEF TypeInv
  <2>3. \A i \in 1 .. Len(waiters') : i \in 1 .. Len(waiters) \/ i = Len(waiters) + 1
    BY <2>2
  <2>4. TypeInv'
    BY <1>1, <1>2, <1>6, <2>1, <2>2 DEF TypeInv
  <2>5. CallInv'
    BY <1>1, <1>2, <1>6, <2>1 DEF CallInv
  <2>6. LineInv'
    <3>1. \A i \in 1 .. Len(waiters') : caller'[waiters'[i]] = "waiting"
      BY <1>1, <1>3, <2>1, <2>2, <2>3 DEF LineInv
    <3>2. Distinct(waiters')
      BY <1>1, <1>3, <2>2, <2>3 DEF LineInv, Distinct
    <3>3. ASSUME NEW p \in Queries, caller'[p] = "waiting"
          PROVE  \E i \in 1 .. Len(waiters') : waiters'[i] = p
      <4>1. CASE p = q
        BY <2>2, <4>1
      <4>2. CASE p # q
        BY <1>1, <2>1, <2>2, <3>3, <4>2 DEF LineInv
      <4> QED
        BY <4>1, <4>2
    <3> QED
      BY <3>1, <3>2, <3>3 DEF LineInv, Distinct
  <2>7. NoIdlePermit'
    <3> SUFFICES ASSUME value > 0, NEW i \in 1 .. Len(waiters'), fut[waiters'[i]] = "pending"
                 PROVE  \E j \in 1 .. i - 1 : fut[waiters'[j]] = "set"
      BY SMTT(30), <1>2, <1>6, <2>2 DEF NoIdlePermit, Unserved
    <3>1. \A k \in 1 .. Len(waiters) :
            fut[waiters[k]] = "pending" => \E j \in 1 .. k - 1 : fut[waiters[j]] = "set"
      BY <1>1 DEF NoIdlePermit, Unserved, TypeInv
    <3>2. CASE i \in 1 .. Len(waiters)
      BY <2>2, <3>1, <3>2
    <3>3. CASE i = Len(waiters) + 1
      <4>1. PICK k \in 1 .. Len(waiters) : fut[waiters[k]] # "cancelled"
        BY <1>1, <1>6 DEF SlotLocked, TypeInv
      <4>2. fut[waiters[k]] \in {"pending", "set"}
        BY <1>1, <1>3, <4>1 DEF TypeInv, Futs
      <4>3. \E j \in 1 .. Len(waiters) : fut[waiters[j]] = "set"
        BY <2>2, <3>1, <4>1, <4>2
      <4> QED
        BY <2>2, <3>3, <4>3
    <3> QED
      BY <2>3, <3>2, <3>3
  <2>8. Granted' = Granted /\ Holders' = Holders
    BY <1>2, <1>6, <2>1 DEF Granted, Holders
  <2>9. PermitsConserved'
    BY <1>1, <1>2, <1>6, <2>8 DEF PermitsConserved
  <2> QED
    BY <2>4, <2>5, <2>6, <2>7, <2>9 DEF PoolInv
<1> QED
  BY <1>2, <1>4, <1>5, <1>6 DEF Call

-----------------------------------------------------------------------------
LEMMA PoolKeeps == PoolInv /\ [Next]_vars => PoolInv'
<1> SUFFICES ASSUME PoolInv, [Next]_vars
             PROVE  PoolInv'
  OBVIOUS
<1>1. CASE UNCHANGED vars
  <2>1. /\ TypeInv /\ CallInv
        /\ UNCHANGED <<caller, value, waiters, fut, doomed, expired, job, returning, lost>>
    BY <1>1 DEF PoolInv, vars
  <2>2. TypeInv' /\ CallInv' /\ Holders' = Holders
    BY <2>1 DEF TypeInv, CallInv, Holders
  <2> QED
    BY <2>1, <2>2, FiniteCounts, QuietStep DEF TypeInv
<1>2. ASSUME NEW q \in Queries, CancelWait(q) PROVE PoolInv'
  <2>1. TypeInv
    BY DEF PoolInv
  <2> QED
    BY <1>2, <2>1, EndWaitKeeps DEF CancelWait, TypeInv
<1>3. ASSUME NEW q \in Queries, TimerFires(q) PROVE PoolInv'
  <2>1. TypeInv
    BY DEF PoolInv
  <2> QED
    BY <1>3, <2>1, EndWaitKeeps DEF TimerFires, TypeInv
<1> QED
  BY <1>1, <1>2, <1>3, CallKeeps, AdmittedKeeps, WaitEndsKeeps, CancelCallKeeps, PermitReturnsKeeps,
     StartCallKeeps, CallLeavesKeeps DEF Next

LEMMA PoolAlways == Spec => []PoolInv
<1> QED
  BY PoolStarts, PoolKeeps, PTL DEF Spec

\* Every permit is somewhere: no cancellation, timeout or failed submit makes or drops one.
THEOREM PermitsAreConserved == Spec => []PermitsConserved
<1>1. PoolInv => PermitsConserved
  BY DEF PoolInv
<1> QED
  BY <1>1, PoolAlways, PTL

\* No permit lies idle beside a caller in line, unless one before it will pass it on.
THEOREM NoPermitIdles == Spec => []NoIdlePermit
<1>1. PoolInv => NoIdlePermit
  BY DEF PoolInv
<1> QED
  BY <1>1, PoolAlways, PTL

\* The pool never holds more calls than it has threads, whatever became of their callers.
THEOREM NoQueueInThePool == Spec => []NoCallQueuesInThePool
<1>1. PoolInv => NoCallQueuesInThePool
  BY FiniteCounts, PoolAssumption DEF PoolInv, TypeInv, PermitsConserved, NoCallQueuesInThePool
<1> QED
  BY <1>1, PoolAlways, PTL

\* Who was rejected as busy, or cancelled in line, has no call in the pool.
THEOREM EndedWaitsDoNotRun == Spec => []EndedWaitsNeverRun
<1>1. PoolInv => EndedWaitsNeverRun
  BY DEF PoolInv, CallInv, EndedWaitsNeverRun
<1> QED
  BY <1>1, PoolAlways, PTL

-----------------------------------------------------------------------------
(* Order of arrival. *)

\* i waits before and after the step.
Waits(i) == i \in DOMAIN waiters /\ fut[waiters[i]] = "pending" /\ fut'[waiters[i]] = "pending"

\* Handing permits to a line in the waiters' order passes nobody who still waits.
LEMMA HandedInOrder ==
    ASSUME PoolInv, NEW rest \in Seq(Queries), NEW n, NEW H, Handed(H, n, rest),
           \A i, j \in 1 .. Len(waiters) :
               i < j /\ fut[waiters[i]] = "pending" /\ fut[waiters[j]] = "pending" =>
                  \E a, b \in 1 .. Len(rest) : a < b /\ rest[a] = waiters[i] /\ rest[b] = waiters[j],
           NEW i \in 1 .. Len(waiters), Waits(i), NEW j \in i + 1 .. Len(waiters),
           fut'[waiters[j]] = "set"
    PROVE  fut[waiters[j]] = "set"
<1>1. /\ waiters \in Seq(Queries) /\ Len(waiters) \in Nat
      /\ \A k \in 1 .. Len(waiters) : waiters[k] \in Queries
  BY DEF PoolInv, TypeInv
<1>2. j \in 1 .. Len(waiters) /\ i < j
  BY <1>1
<1>3. \A q \in Queries : fut'[q] = IF q \in H THEN "set" ELSE fut[q]
  BY DEF Handed
<1>4. CASE waiters[j] \in H
  <2>1. fut[waiters[j]] = "pending" /\ fut[waiters[i]] = "pending"
    BY <1>4 DEF Handed, Waits
  <2>2. PICK a \in 1 .. Len(rest), b \in 1 .. Len(rest) :
          a < b /\ rest[a] = waiters[i] /\ rest[b] = waiters[j]
    BY <1>2, <2>1
  <2>3. waiters[i] \in H
    BY <1>4, <2>1, <2>2 DEF Handed
  <2> QED
    BY <1>1, <1>3, <2>3 DEF Waits
<1>5. CASE waiters[j] \notin H
  BY <1>1, <1>2, <1>3, <1>5
<1> QED
  BY <1>4, <1>5

\* The line without its first caller to leave keeps the order of those who wait.
LEMMA RestInOrder ==
    ASSUME PoolInv, NEW q \in Queries, caller[q] = "waiting", fut[q] = "set",
           NEW rest, rest = Without(waiters, q)
    PROVE  /\ rest \in Seq(Queries) /\ Distinct(rest)
           /\ \A i, j \in 1 .. Len(waiters) :
                 i < j /\ fut[waiters[i]] = "pending" /\ fut[waiters[j]] = "pending" =>
                    \E a, b \in 1 .. Len(rest) : a < b /\ rest[a] = waiters[i] /\ rest[b] = waiters[j]
<1>1. OthersStay(rest, q) /\ OrderStays(rest, q)
  BY Leaving DEF PoolInv
<1>2. \A i \in 1 .. Len(waiters) : fut[waiters[i]] = "pending" => waiters[i] # q
  OBVIOUS
<1> QED
  BY <1>1, <1>2 DEF OthersStay, OrderStays

\* Permits go to callers in the order of their arrival, and newcomers pass nobody.
THEOREM ArrivalOrder == Spec => ServedInOrder
<1> DEFINE Step == \A i \in DOMAIN waiters : fut[waiters[i]] = "pending" /\ fut'[waiters[i]] = "pending" =>
            /\ \A j \in i + 1 .. Len(waiters) : fut'[waiters[j]] = "set" => fut[waiters[j]] = "set"
            /\ \A q \in Queries : caller[q] = "new" => caller'[q] # "awaiting"
<1>1. ASSUME PoolInv, NEW i \in 1 .. Len(waiters), Waits(i),
             NEW j \in i + 1 .. Len(waiters), fut'[waiters[j]] = "set",
             Next
      PROVE  fut[waiters[j]] = "set"
  <2>1. /\ TypeInv /\ value \in Nat /\ fut \in [Queries -> Futs] /\ Distinct(waiters)
        /\ waiters \in Seq(Queries) /\ waiters[j] \in Queries /\ j \in 1 .. Len(waiters)
    BY <1>1 DEF PoolInv, TypeInv, LineInv
  <2>2. CASE fut' = fut
    BY <1>1, <2>2
  <2>3. ASSUME NEW q \in Queries, EndWait(q)
        PROVE  fut[waiters[j]] = "set"
    BY <1>1, <2>1, <2>3 DEF EndWait
  <2>4. ASSUME NEW q \in Queries, caller[q] = "waiting", fut[q] = "set",
               NEW n \in Nat, NEW k \in {1, 2}, GivePermits(n, Without(waiters, q), k)
        PROVE  fut[waiters[j]] = "set"
    <3>1. PICK rest : rest = Without(waiters, q)
      OBVIOUS
    <3>2. /\ rest \in Seq(Queries) /\ Distinct(rest)
          /\ \A a, b \in 1 .. Len(waiters) :
                a < b /\ fut[waiters[a]] = "pending" /\ fut[waiters[b]] = "pending" =>
                  \E c, d \in 1 .. Len(rest) : c < d /\ rest[c] = waiters[a] /\ rest[d] = waiters[b]
      BY <1>1, <2>4, <3>1, RestInOrder
    <3>3. PICK H : Handed(H, n, rest)
      BY <2>1, <2>4, <3>1, <3>2, Giving
    <3> QED
      BY <1>1, <3>2, <3>3, HandedInOrder
  <2>5. ASSUME GivePermits(value + 1, waiters, 1)
        PROVE  fut[waiters[j]] = "set"
    <3>1. value + 1 \in Nat
      BY <2>1
    <3>2. PICK H : Handed(H, value + 1, waiters)
      BY <2>1, <2>5, <3>1, Giving
    <3> QED
      BY <1>1, <2>1, <3>2, HandedInOrder
  <2>6. PICK q \in Queries :
          \/ Call(q) \/ Admitted(q) \/ CancelWait(q) \/ TimerFires(q) \/ WaitEnds(q)
          \/ CancelCall(q) \/ DropQueued(q) \/ PermitReturns(q) \/ Answer(q)
          \/ StartCall(q) \/ CallReturns(q)
    BY <1>1 DEF Next
  <2>7. CASE Admitted(q)
    BY <2>1, <2>4, <2>7 DEF Admitted
  <2>8. CASE WaitEnds(q)
    BY <2>1, <2>2, <2>4, <2>8 DEF WaitEnds
  <2>9. CASE PermitReturns(q)
    BY <2>5, <2>9 DEF PermitReturns
  <2>10. CASE CancelWait(q) \/ TimerFires(q)
    BY <2>3, <2>10 DEF CancelWait, TimerFires
  <2>11. CASE Call(q) \/ CancelCall(q) \/ DropQueued(q) \/ Answer(q) \/ StartCall(q) \/ CallReturns(q)
    BY <2>2, <2>11 DEF Call, Submitted, CancelCall, DropQueued, Answer, StartCall, CallReturns
  <2> QED
    BY <2>6, <2>7, <2>8, <2>9, <2>10, <2>11
<1>2. ASSUME PoolInv, Next, NEW i \in DOMAIN waiters, fut[waiters[i]] = "pending",
             NEW q \in Queries, caller[q] = "new"
      PROVE  caller'[q] # "awaiting"
  <2>1. caller \in [Queries -> {"new", "waiting", "awaiting"} \cup Ended] /\ SlotLocked
    BY <1>2 DEF PoolInv, TypeInv, SlotLocked
  <2>2. PICK p \in Queries :
          \/ Call(p) \/ Admitted(p) \/ CancelWait(p) \/ TimerFires(p) \/ WaitEnds(p)
          \/ CancelCall(p) \/ DropQueued(p) \/ PermitReturns(p) \/ Answer(p)
          \/ StartCall(p) \/ CallReturns(p)
    BY <1>2 DEF Next
  <2>3. CASE Call(p)
    BY <1>2, <2>1, <2>3 DEF Call
  <2>4. CASE p # q
    BY <1>2, <2>1, <2>2, <2>3, <2>4
    DEF Admitted, Submitted, CancelWait, TimerFires, WaitEnds, CancelCall, DropQueued,
        PermitReturns, Answer, StartCall, CallReturns
  <2>5. CASE p = q
    BY <1>2, <2>1, <2>2, <2>3, <2>5
    DEF Admitted, CancelWait, TimerFires, WaitEnds, CancelCall, DropQueued,
        PermitReturns, Answer, StartCall, CallReturns
  <2> QED
    BY <2>4, <2>5
<1>3. PoolInv /\ [Next]_vars => [Step]_vars
  <2> SUFFICES ASSUME PoolInv, Next, NEW i \in DOMAIN waiters,
                      fut[waiters[i]] = "pending", fut'[waiters[i]] = "pending"
               PROVE  /\ \A j \in i + 1 .. Len(waiters) :
                            fut'[waiters[j]] = "set" => fut[waiters[j]] = "set"
                      /\ \A q \in Queries : caller[q] = "new" => caller'[q] # "awaiting"
    OBVIOUS
  <2>1. i \in 1 .. Len(waiters) /\ Waits(i)
    BY DEF PoolInv, TypeInv, Waits
  <2> QED
    BY <1>1, <1>2, <2>1
<1> QED
  BY <1>3, PoolAlways, PTL DEF Spec, ServedInOrder

\* The type invariant of the pool.
THEOREM TypeCorrect == Spec => []TypeOK
<1>1. ASSUME PoolInv PROVE TypeOK
  <2>1. TypeInv /\ LineInv /\ PermitsConserved
    BY <1>1 DEF PoolInv
  <2>2. value \in 0 .. Slots
    <3>1. value \in Nat /\ lost \in Nat
      BY <2>1, PoolAssumption DEF TypeInv
    <3> QED
      BY <2>1, <3>1, FiniteCounts, PoolAssumption DEF PermitsConserved
  <2>3. \A q \in Queries : q \in ToSet(waiters) <=> caller[q] = "waiting"
    BY <2>1 DEF TypeInv, LineInv, ToSet
  <2>4. ToSet(waiters) \subseteq Queries
    BY <2>1 DEF TypeInv, ToSet
  <2>5. IsInjective(waiters)
    BY <2>1 DEF TypeInv, LineInv, Distinct, IsInjective
  <2>6. ToSet(waiters) = {q \in Queries : caller[q] = "waiting"}
    BY <2>3, <2>4
  <2> QED
    BY <2>1, <2>2, <2>5, <2>6 DEF TypeInv, TypeOK, Futs
<1> QED
  BY <1>1, PoolAlways, PTL
==============================================================================
