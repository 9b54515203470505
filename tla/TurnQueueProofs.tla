-------------------------- MODULE TurnQueueProofs --------------------------
(***************************************************************************)
(* The turn queue, proved for every number of calls and conversations.     *)
(* QInv is the inductive invariant; its parts are named for what they say. *)
(***************************************************************************)
EXTENDS TurnQueue, FiniteSetTheorems, TLAPS

UsersOf(e) == {c \in Live : entry[c] = e}

\* The entry of a live call is the registered one, and belongs to its
\* conversation, which is that of the call that minted it.
EntryInv ==
    /\ \A c \in Live : /\ conv[c] \in Convs /\ entry[c] \in Calls
                       /\ queues[conv[c]] = entry[c]
                       /\ conv[entry[c]] = conv[c]
                       /\ pc[entry[c]] # "new"
    /\ \A k \in Convs : queues[k] # None =>
            conv[queues[k]] = k /\ UsersOf(queues[k]) # {}

\* users counts holders and waiters.
CountInv == \A e \in Calls : users[e] = Cardinality(UsersOf(e))

\* The deque of a lock holds exactly the calls waiting for it, each once.
DequeInv ==
    /\ \A e \in Calls : \A i \in 1..Len(waiters[e]) :
            pc[waiters[e][i]] = "waiting" /\ entry[waiters[e][i]] = e
    /\ \A e \in Calls : \A i, j \in 1..Len(waiters[e]) :
            waiters[e][i] = waiters[e][j] => i = j
    /\ \A c \in Calls : pc[c] = "waiting" =>
            \E i \in 1..Len(waiters[entry[c]]) : waiters[entry[c]][i] = c

\* A lock that is taken is held by exactly one call.
LockInv ==
    /\ \A c \in Calls : pc[c] = "turn" => locked[entry[c]]
    /\ \A c, d \in Calls :
            pc[c] = "turn" /\ pc[d] = "turn" /\ entry[c] = entry[d] => c = d
    /\ \A e \in Calls : locked[e] => \E c \in Calls : pc[c] = "turn" /\ entry[c] = e

\* A woken waiter is the first of the deque of a free lock; only a cancelled
\* call has a cancelled future.
WakeInv ==
    /\ \A c \in Calls : pc[c] = "waiting" /\ fut[c] = "set" =>
            ~locked[entry[c]] /\ waiters[entry[c]][1] = c
    /\ \A c \in Calls : fut[c] = "cancelled" => c \in doomed
    /\ \A c \in Calls : pc[c] = "new" => fut[c] = "pending" /\ c \notin doomed

QInv == QueueTypeOK /\ EntryInv /\ CountInv /\ DequeInv /\ LockInv /\ WakeInv

-----------------------------------------------------------------------------
(* What removing a waiter from a deque does: the others keep their order.   *)
LEMMA WithoutShifts ==
    ASSUME NEW w \in Seq(Calls), NEW p \in 1..Len(w),
           \A i, j \in 1..Len(w) : w[i] = w[j] => i = j
    PROVE  /\ Without(w, w[p]) \in Seq(Calls)
           /\ Len(Without(w, w[p])) = Len(w) - 1
           /\ \A i \in 1..Len(w) - 1 :
                Without(w, w[p])[i] = IF i < p THEN w[i] ELSE w[i + 1]
<1> DEFINE q == CHOOSE i \in DOMAIN w : w[i] = w[p]
           left == SubSeq(w, 1, p - 1)
           right == SubSeq(w, p + 1, Len(w))
<1>1. DOMAIN w = 1..Len(w)
  OBVIOUS
<1>2. q = p
  BY <1>1
<1>3. Without(w, w[p]) = left \o right
  BY <1>2 DEF Without, RemoveAt
<1>4. /\ left \in Seq(Calls) /\ Len(left) = p - 1
      /\ \A i \in 1..p - 1 : left[i] = w[i]
  OBVIOUS
<1>5. /\ right \in Seq(Calls) /\ Len(right) = Len(w) - p
      /\ \A i \in 1..Len(w) - p : right[i] = w[p + i]
  OBVIOUS
<1> HIDE DEF left, right
<1>6. QED
  <2>1. left \o right \in Seq(Calls) /\ Len(left \o right) = Len(w) - 1
    BY <1>4, <1>5
  <2>2. ASSUME NEW i \in 1..Len(w) - 1
        PROVE  (left \o right)[i] = IF i < p THEN w[i] ELSE w[i + 1]
    <3>1. CASE i < p
      BY <3>1, <1>4, <1>5
    <3>2. CASE i >= p
      <4>1. (left \o right)[i] = right[i - (p - 1)]
        BY <3>2, <1>4, <1>5
      <4>2. i - (p - 1) \in 1..Len(w) - p
        BY <3>2
      <4>3. right[i - (p - 1)] = w[p + (i - (p - 1))]
        BY <4>2, <1>5
      <4>4. QED
        BY <4>1, <4>3, <3>2
    <3>3. i < p \/ i >= p
      OBVIOUS
    <3>4. QED
      BY <3>1, <3>2, <3>3
  <2>3. QED
    BY <1>3, <2>1, <2>2

(* Places before and after the removal of place p.                          *)
Shift(p, i) == IF i < p THEN i ELSE i + 1
Unshift(p, j) == IF j < p THEN j ELSE j - 1

(* Where each remaining waiter of the shortened deque was, and is.           *)
LEMMA WithoutPlaces ==
    ASSUME NEW w \in Seq(Calls), NEW p \in 1..Len(w), NEW c, c = w[p],
           \A i, j \in 1..Len(w) : w[i] = w[j] => i = j
    PROVE  /\ Without(w, c) \in Seq(Calls)
           /\ \A i \in 1..Len(Without(w, c)) :
                Shift(p, i) \in 1..Len(w) /\ Without(w, c)[i] = w[Shift(p, i)] /\ Without(w, c)[i] # c
           /\ \A j \in 1..Len(w) : w[j] # c =>
                Unshift(p, j) \in 1..Len(Without(w, c)) /\ Without(w, c)[Unshift(p, j)] = w[j]
           /\ \A i, j \in 1..Len(Without(w, c)) : i < j <=> Shift(p, i) < Shift(p, j)
           /\ \A i, j \in 1..Len(w) : w[i] # c /\ w[j] # c => (i < j <=> Unshift(p, i) < Unshift(p, j))
<1> DEFINE r == Without(w, c)
<1>1. /\ r \in Seq(Calls) /\ Len(r) = Len(w) - 1 /\ Len(w) \in Nat
      /\ \A i \in 1..Len(w) - 1 : r[i] = IF i < p THEN w[i] ELSE w[i + 1]
  <2>1. /\ Without(w, w[p]) \in Seq(Calls)
        /\ Len(Without(w, w[p])) = Len(w) - 1
        /\ \A i \in 1..Len(w) - 1 :
             Without(w, w[p])[i] = IF i < p THEN w[i] ELSE w[i + 1]
    BY WithoutShifts
  <2>2. r = Without(w, w[p])
    OBVIOUS
  <2>3. QED
    BY <2>1, <2>2
<1> HIDE DEF r
<1>2. ASSUME NEW i \in 1..Len(r)
      PROVE  Shift(p, i) \in 1..Len(w) /\ r[i] = w[Shift(p, i)] /\ r[i] # c
  <2>1. Shift(p, i) \in 1..Len(w) /\ Shift(p, i) # p
    BY <1>1 DEF Shift
  <2>2. r[i] = w[Shift(p, i)]
    BY <1>1 DEF Shift
  <2>3. QED
    BY <2>1, <2>2
<1>3. ASSUME NEW j \in 1..Len(w), w[j] # c
      PROVE  Unshift(p, j) \in 1..Len(r) /\ r[Unshift(p, j)] = w[j]
  <2>1. CASE j < p
    <3>1. j \in 1..Len(w) - 1
      BY <1>1, <2>1
    <3>2. QED
      BY <1>1, <2>1, <3>1 DEF Unshift
  <2>2. CASE ~(j < p)
    <3>1. j - 1 \in 1..Len(w) - 1 /\ ~(j - 1 < p) /\ (j - 1) + 1 = j
      BY <1>1, <1>3, <2>2
    <3>2. QED
      BY <1>1, <2>2, <3>1 DEF Unshift
  <2>3. QED
    BY <2>1, <2>2
<1>4. \A i, j \in 1..Len(r) : i < j <=> Shift(p, i) < Shift(p, j)
  BY <1>1 DEF Shift
<1>5. ASSUME NEW i \in 1..Len(w), NEW j \in 1..Len(w), w[i] # c, w[j] # c
      PROVE  i < j <=> Unshift(p, i) < Unshift(p, j)
  <2>1. i # p /\ j # p
    BY <1>5
  <2>2. QED
    BY <1>1, <2>1 DEF Unshift
<1>6. QED
  BY <1>1, <1>2, <1>3, <1>4, <1>5 DEF r

-----------------------------------------------------------------------------
(* The empty registry satisfies the invariant.                              *)
LEMMA InitInv == QueueInit => QInv
<1> SUFFICES ASSUME QueueInit PROVE QInv
  OBVIOUS
<1> USE CallsAssumption
<1>1. Live = {} /\ \A e \in Calls : UsersOf(e) = {}
  BY DEF QueueInit, Live, UsersOf
<1>2. QueueTypeOK
  BY DEF QueueInit, QueueTypeOK
<1>3. EntryInv
  BY <1>1 DEF QueueInit, EntryInv
<1>4. CountInv
  BY <1>1, FS_EmptySet DEF QueueInit, CountInv
<1>5. DequeInv /\ LockInv /\ WakeInv
  BY DEF QueueInit, DequeInv, LockInv, WakeInv
<1>6. QED
  BY <1>2, <1>3, <1>4, <1>5 DEF QInv

-----------------------------------------------------------------------------
(* The registry and the user counts.                                        *)

(* The users of an entry can be counted.                                    *)
LEMMA UsersOfFinite == \A e : IsFiniteSet(UsersOf(e))
<1>1. \A e : UsersOf(e) \subseteq Calls
  BY DEF UsersOf, Live
<1>2. QED
  BY <1>1, CallsAssumption, FS_Subset

\* A call that gives its claim back: its entry loses one user, and the
\* registry loses the entry exactly when that was the last one.
LEMMA ReleaseKeepsRegistry ==
    ASSUME QInv, NEW c \in Live, ReleaseEntry(c),
           pc' = [pc EXCEPT ![c] = "done"], UNCHANGED <<conv, entry>>
    PROVE  /\ users' \in [Calls -> Nat]
           /\ queues' \in [Convs -> Calls \cup {None}]
           /\ EntryInv' /\ CountInv'
<1> DEFINE e == entry[c]  k == conv[c]
<1>1. /\ c \in Calls /\ e \in Calls /\ k \in Convs /\ queues[k] = e /\ conv[e] = k
      /\ pc \in [Calls -> {"new", "waiting", "turn", "done"}]
      /\ users \in [Calls -> Nat] /\ queues \in [Convs -> Calls \cup {None}]
      /\ None \notin Calls
  BY CallsAssumption DEF QInv, EntryInv, QueueTypeOK, Live
<1>2. /\ Live' = Live \ {c}
      /\ \A f \in Calls : UsersOf(f)' = IF f = e THEN UsersOf(f) \ {c} ELSE UsersOf(f)
  BY <1>1 DEF Live, UsersOf
<1>3. c \in UsersOf(e)
  BY DEF UsersOf
<1>4. \A f \in Calls :
         /\ Cardinality(UsersOf(f)) \in Nat
         /\ users[f] = Cardinality(UsersOf(f))
  BY UsersOfFinite, FS_CardinalityType DEF QInv, CountInv
<1>5. Cardinality(UsersOf(e)') = users[e] - 1 /\ users[e] - 1 \in Nat
  <2>1. Cardinality(UsersOf(e) \ {c}) = Cardinality(UsersOf(e)) - 1
    BY <1>3, UsersOfFinite, FS_RemoveElement
  <2>2. Cardinality(UsersOf(e)) # 0
    BY <1>3, UsersOfFinite, FS_EmptySet
  <2>3. QED
    BY <1>1, <1>2, <1>4, <2>1, <2>2
<1>6. /\ users' = [users EXCEPT ![e] = @ - 1]
      /\ queues' = IF users[e] - 1 <= 0 /\ queues[k] = e
                   THEN [queues EXCEPT ![k] = None] ELSE queues
  BY DEF ReleaseEntry
<1>7. users' \in [Calls -> Nat] /\ CountInv'
  BY <1>1, <1>2, <1>4, <1>5, <1>6 DEF CountInv
<1>8. users[e] - 1 <= 0 <=> UsersOf(e)' = {}
  <2>1. UsersOf(e)' = UsersOf(e) \ {c}
    BY <1>1, <1>2
  <2>2. IsFiniteSet(UsersOf(e) \ {c})
    BY UsersOfFinite, FS_RemoveElement
  <2>3. Cardinality(UsersOf(e) \ {c}) = 0 <=> UsersOf(e) \ {c} = {}
    BY <2>2, FS_EmptySet
  <2>4. QED
    BY <1>5, <2>1, <2>3
<1>9. queues' \in [Convs -> Calls \cup {None}]
  BY <1>1, <1>6
<1>10. EntryInv'
  <2>1. ASSUME NEW d \in Live'
        PROVE  /\ conv[d]' \in Convs /\ entry[d]' \in Calls
               /\ queues[conv[d]]' = entry[d]'
               /\ conv[entry[d]]' = conv[d]'
               /\ pc[entry[d]]' # "new"
    <3>1. /\ d \in Live /\ conv[d] \in Convs /\ entry[d] \in Calls
          /\ queues[conv[d]] = entry[d] /\ conv[entry[d]] = conv[d]
          /\ pc[entry[d]] # "new"
      BY <1>2 DEF QInv, EntryInv
    <3>2. conv[d] = k => UsersOf(e)' # {}
      BY <1>1, <3>1 DEF UsersOf
    <3>3. queues'[conv[d]] = queues[conv[d]]
      BY <1>1, <1>6, <1>8, <3>1, <3>2
    <3>4. QED
      BY <1>1, <3>1, <3>3
  <2>2. ASSUME NEW x \in Convs, queues'[x] # None
        PROVE  conv[queues[x]]' = x /\ UsersOf(queues[x])' # {}
    <3>1. queues'[x] = queues[x]
      BY <1>1, <1>6, <2>2
    <3>2. conv[queues[x]] = x /\ UsersOf(queues[x]) # {} /\ queues[x] \in Calls
      BY <1>1, <2>2, <3>1 DEF QInv, EntryInv
    <3>3. CASE x = k
      <4>1. ~(users[e] - 1 <= 0)
        BY <1>1, <1>6, <2>2, <3>3
      <4>2. QED
        BY <1>1, <1>8, <3>1, <3>2, <3>3, <4>1
    <3>4. CASE x # k
      <4>1. queues[x] # e
        BY <1>1, <3>2, <3>4
      <4>2. UsersOf(queues[x])' = UsersOf(queues[x])
        BY <1>2, <3>1, <3>2, <4>1 DEF UsersOf
      <4>3. QED
        BY <3>1, <3>2, <4>2
    <3>5. QED
      BY <3>3, <3>4
  <2>3. QED
    BY <2>1, <2>2 DEF EntryInv
<1>11. QED
  BY <1>7, <1>9, <1>10

\* A call that arrives joins the entry of its conversation, a fresh one if
\* the registry has none.
LEMMA ArriveKeepsRegistry ==
    ASSUME QInv, NEW c \in Calls, NEW k \in Convs, Arrive(c, k)
    PROVE  /\ QueueTypeOK' /\ EntryInv' /\ CountInv'
           /\ \A d \in Live : d # c
           /\ \A d \in Live : entry[d] = entry'[c] <=> conv[d] = k
           /\ \A d \in Live : entry[d] # entry'[c] <=> conv[d] # k
<1> DEFINE e == IF queues[k] = None THEN c ELSE queues[k]
<1>1. /\ pc[c] = "new" /\ pc'[c] \in {"turn", "waiting"}
      /\ pc' = [pc EXCEPT ![c] = pc'[c]]
      /\ conv' = [conv EXCEPT ![c] = k] /\ entry' = [entry EXCEPT ![c] = e]
      /\ queues' = [queues EXCEPT ![k] = e] /\ users' = [users EXCEPT ![e] = @ + 1]
      /\ UNCHANGED <<fut, doomed>>
  BY DEF Arrive, QInv, QueueTypeOK
<1>2. /\ e \in Calls /\ None \notin Calls
      /\ pc \in [Calls -> {"new", "waiting", "turn", "done"}]
      /\ conv \in [Calls -> Convs \cup {None}] /\ entry \in [Calls -> Calls \cup {None}]
      /\ users \in [Calls -> Nat] /\ queues \in [Convs -> Calls \cup {None}]
  BY CallsAssumption DEF QInv, QueueTypeOK
<1>3. QueueTypeOK'
  <2>1. /\ locked \in [Calls -> BOOLEAN] /\ waiters \in [Calls -> Seq(Calls)]
        /\ fut \in [Calls -> {"pending", "set", "cancelled"}] /\ doomed \in SUBSET Calls
    BY DEF QInv, QueueTypeOK
  <2>2. \/ locked' = [locked EXCEPT ![e] = TRUE] /\ waiters' = waiters
        \/ locked' = locked /\ waiters' = [waiters EXCEPT ![e] = Append(@, c)]
    BY DEF Arrive
  <2>3. Append(waiters[e], c) \in Seq(Calls)
    BY <1>2, <2>1
  <2> HIDE DEF e
  <2>4. locked' \in [Calls -> BOOLEAN] /\ waiters' \in [Calls -> Seq(Calls)]
    <3>1. CASE waiters' = waiters
      BY <1>2, <2>1, <2>2, <3>1
    <3>2. CASE waiters' = [waiters EXCEPT ![e] = Append(@, c)]
      BY <1>2, <2>1, <2>2, <2>3, <3>2
    <3>3. QED
      BY <2>2, <3>1, <3>2
  <2>5. /\ pc' \in [Calls -> {"new", "waiting", "turn", "done"}]
        /\ conv' \in [Calls -> Convs \cup {None}] /\ entry' \in [Calls -> Calls \cup {None}]
    BY <1>1, <1>2
  <2>6. queues' \in [Convs -> Calls \cup {None}] /\ users' \in [Calls -> Nat]
    BY <1>1, <1>2
  <2>7. QED
    BY <1>1, <2>1, <2>4, <2>5, <2>6 DEF QueueTypeOK
<1>4. \A d \in Live :
        /\ d \in Calls /\ d # c /\ conv[d] \in Convs /\ entry[d] \in Calls
        /\ queues[conv[d]] = entry[d] /\ conv[entry[d]] = conv[d]
        /\ pc[entry[d]] # "new" /\ entry[d] # c
  BY <1>1 DEF QInv, EntryInv, Live
<1>5. \A d \in Live : entry[d] = e <=> conv[d] = k
  <2>1. CASE queues[k] = None
    BY <1>2, <1>4, <2>1
  <2>2. CASE queues[k] # None
    <3>1. conv[queues[k]] = k
      BY <2>2 DEF QInv, EntryInv
    <3>2. QED
      BY <1>4, <2>2, <3>1
  <2>3. QED
    BY <2>1, <2>2
<1>6. /\ Live' = Live \cup {c}
      /\ \A f \in Calls : UsersOf(f)' = IF f = e THEN UsersOf(f) \cup {c} ELSE UsersOf(f)
  BY <1>1, <1>2, <1>4 DEF Live, UsersOf
<1>7. EntryInv'
  <2>1. ASSUME NEW d \in Live'
        PROVE  /\ conv[d]' \in Convs /\ entry[d]' \in Calls
               /\ queues[conv[d]]' = entry[d]'
               /\ conv[entry[d]]' = conv[d]'
               /\ pc[entry[d]]' # "new"
    <3>1. CASE d = c
      <4>1. CASE queues[k] = None
        BY <1>1, <1>2, <3>1, <4>1
      <4>2. CASE queues[k] # None
        <5>1. conv[e] = k /\ UsersOf(e) # {}
          BY <4>2 DEF QInv, EntryInv
        <5>2. \E d1 \in Live : entry[d1] = e
          BY <5>1 DEF UsersOf
        <5>3. e # c /\ pc[e] # "new"
          BY <1>4, <5>2
        <5>4. QED
          BY <1>1, <1>2, <3>1, <5>1, <5>3
      <4>3. QED
        BY <4>1, <4>2
    <3>2. CASE d # c
      <4>1. d \in Live
        BY <1>6, <3>2
      <4>2. conv'[d] = conv[d] /\ entry'[d] = entry[d] /\ entry[d] \in Calls
        BY <1>1, <1>2, <1>4, <4>1
      <4>3. conv'[entry[d]] = conv[entry[d]] /\ pc'[entry[d]] = pc[entry[d]]
        BY <1>1, <1>2, <1>4, <4>1
      <4>4. queues'[conv[d]] = entry[d]
        BY <1>1, <1>2, <1>4, <1>5, <4>1
      <4>5. QED
        BY <1>4, <4>1, <4>2, <4>3, <4>4
    <3>3. QED
      BY <3>1, <3>2
  <2>2. ASSUME NEW x \in Convs, queues'[x] # None
        PROVE  conv[queues[x]]' = x /\ UsersOf(queues[x])' # {}
    <3>1. CASE x = k
      <4>1. queues'[x] = e /\ c \in Live' /\ entry'[c] = e /\ conv'[c] = k
        BY <1>1, <1>2, <1>6, <3>1
      <4>2. conv'[e] = k
        BY <2>1, <4>1
      <4>3. QED
        BY <1>2, <1>6, <3>1, <4>1, <4>2
    <3>2. CASE x # k
      <4>1. queues'[x] = queues[x] /\ queues[x] \in Calls
        BY <1>1, <1>2, <2>2, <3>2
      <4>2. conv[queues[x]] = x /\ UsersOf(queues[x]) # {}
        BY <2>2, <4>1 DEF QInv, EntryInv
      <4>3. queues[x] # c
        <5>1. PICK d1 \in Live : entry[d1] = queues[x]
          BY <4>2 DEF UsersOf
        <5>2. QED
          BY <1>4, <5>1
      <4>4. UsersOf(queues[x])' # {}
        BY <1>6, <4>1, <4>2
      <4>5. conv'[queues[x]] = conv[queues[x]]
        BY <1>1, <1>2, <4>1, <4>3
      <4>6. QED
        BY <4>1, <4>2, <4>4, <4>5
    <3>3. QED
      BY <3>1, <3>2
  <2>3. QED
    BY <2>1, <2>2 DEF EntryInv
<1>8. CountInv'
  <2>1. ASSUME NEW f \in Calls
        PROVE  users'[f] = Cardinality(UsersOf(f)')
    <3>1. users[f] = Cardinality(UsersOf(f))
      BY DEF QInv, CountInv
    <3>2. c \notin UsersOf(f)
      BY <1>4 DEF UsersOf
    <3>3. Cardinality(UsersOf(f) \cup {c}) = Cardinality(UsersOf(f)) + 1
      BY <3>2, UsersOfFinite, FS_AddElement
    <3>4. QED
      BY <1>1, <1>2, <1>6, <3>1, <3>3
  <2>2. QED
    BY <2>1 DEF CountInv
<1>9. QED
  BY <1>1, <1>2, <1>3, <1>4, <1>5, <1>7, <1>8

-----------------------------------------------------------------------------
(* The locks: each action keeps their deques, their holders and the wake-up. *)

(* An arrival keeps the deque, the lock and the wake-up parts.               *)
LEMMA ArriveKeepsLocks ==
    ASSUME QInv, NEW c \in Calls, NEW k \in Convs, Arrive(c, k)
    PROVE  DequeInv' /\ LockInv' /\ WakeInv'
<1> DEFINE e == entry'[c]
<1>1. /\ pc[c] = "new" /\ pc'[c] \in {"turn", "waiting"}
      /\ \A d \in Calls : d # c => pc'[d] = pc[d] /\ entry'[d] = entry[d]
      /\ fut' = fut /\ doomed' = doomed /\ fut[c] = "pending"
      /\ e \in Calls
  BY CallsAssumption DEF Arrive, QInv, QueueTypeOK, WakeInv
<1>2. /\ locked \in [Calls -> BOOLEAN] /\ waiters \in [Calls -> Seq(Calls)]
      /\ entry \in [Calls -> Calls \cup {None}]
      /\ locked' \in [Calls -> BOOLEAN] /\ waiters' \in [Calls -> Seq(Calls)]
  BY ArriveKeepsRegistry DEF QInv, QueueTypeOK
<1>3. DequeInv /\ LockInv /\ WakeInv
  BY DEF QInv
<1>4. \A d \in Calls : pc[d] \in {"waiting", "turn"} => entry[d] \in Calls
  BY DEF QInv, EntryInv, Live
<1>5. \/ /\ FreeToTake(e) /\ pc'[c] = "turn"
         /\ locked' = [locked EXCEPT ![e] = TRUE] /\ waiters' = waiters
      \/ /\ ~FreeToTake(e) /\ pc'[c] = "waiting"
         /\ waiters' = [waiters EXCEPT ![e] = Append(@, c)] /\ locked' = locked
  <2>1. entry'[c] = IF queues[k] = None THEN c ELSE queues[k]
    BY DEF Arrive, QInv, QueueTypeOK
  <2>2. QED
    BY <2>1 DEF Arrive, QInv, QueueTypeOK
<1> HIDE DEF e
<1>6. CASE /\ FreeToTake(e) /\ pc'[c] = "turn"
           /\ locked' = [locked EXCEPT ![e] = TRUE] /\ waiters' = waiters
  <2>1. ~locked[e] /\ \A i \in 1..Len(waiters[e]) : fut[waiters[e][i]] = "cancelled"
    BY <1>1, <1>2, <1>6 DEF FreeToTake
  <2>2. DequeInv'
    <3>1. ASSUME NEW f \in Calls, NEW i \in 1..Len(waiters'[f])
          PROVE  pc'[waiters'[f][i]] = "waiting" /\ entry'[waiters'[f][i]] = f
      <4>1. waiters[f][i] \in Calls /\ pc[waiters[f][i]] = "waiting" /\ entry[waiters[f][i]] = f
        BY <1>2, <1>3, <1>6, <3>1 DEF DequeInv
      <4>2. QED
        BY <1>1, <1>6, <4>1
    <3>2. \A f \in Calls : \A i, j \in 1..Len(waiters'[f]) : waiters'[f][i] = waiters'[f][j] => i = j
      BY <1>3, <1>6 DEF DequeInv
    <3>3. ASSUME NEW d \in Calls, pc'[d] = "waiting"
          PROVE  \E i \in 1..Len(waiters'[entry'[d]]) : waiters'[entry'[d]][i] = d
      BY <1>1, <1>3, <1>6, <3>3 DEF DequeInv
    <3>4. QED
      BY <3>1, <3>2, <3>3 DEF DequeInv
  <2>3. LockInv'
    <3>1. \A d \in Calls : pc[d] = "turn" => entry[d] # e /\ entry[d] \in Calls
      BY <1>3, <1>4, <2>1 DEF LockInv
    <3>2. ASSUME NEW d \in Calls, pc'[d] = "turn"
          PROVE  locked'[entry'[d]]
      <4>1. CASE d = c
        BY <1>1, <1>2, <1>6, <4>1 DEF e
      <4>2. CASE d # c
        <5>1. pc[d] = "turn" /\ entry'[d] = entry[d] /\ entry[d] \in Calls /\ entry[d] # e
          BY <1>1, <3>1, <3>2, <4>2
        <5>2. locked[entry[d]]
          BY <1>3, <5>1 DEF LockInv
        <5>3. QED
          BY <1>1, <1>2, <1>6, <5>1, <5>2
      <4>3. QED
        BY <4>1, <4>2
    <3>3. ASSUME NEW a \in Calls, NEW b \in Calls,
                 pc'[a] = "turn", pc'[b] = "turn", entry'[a] = entry'[b]
          PROVE  a = b
      <4>1. CASE a = c \/ b = c
        BY <1>1, <3>1, <3>3, <4>1 DEF e
      <4>2. CASE a # c /\ b # c
        BY <1>1, <1>3, <3>3, <4>2 DEF LockInv
      <4>3. QED
        BY <4>1, <4>2
    <3>4. ASSUME NEW f \in Calls, locked'[f]
          PROVE  \E d \in Calls : pc'[d] = "turn" /\ entry'[d] = f
      <4>1. CASE f = e
        BY <1>6, <4>1 DEF e
      <4>2. CASE f # e
        <5>1. locked[f]
          BY <1>1, <1>2, <1>6, <3>4, <4>2
        <5>2. PICK d \in Calls : pc[d] = "turn" /\ entry[d] = f
          BY <1>3, <5>1 DEF LockInv
        <5>3. d # c
          BY <1>1, <5>2
        <5>4. QED
          BY <1>1, <5>2, <5>3
      <4>3. QED
        BY <4>1, <4>2
    <3>5. QED
      BY <3>2, <3>3, <3>4 DEF LockInv
  <2>4. ASSUME NEW d \in Calls, pc'[d] = "waiting", fut'[d] = "set"
        PROVE  ~locked'[entry'[d]] /\ waiters'[entry'[d]][1] = d
    <3>1. d # c /\ pc[d] = "waiting" /\ fut[d] = "set" /\ entry'[d] = entry[d] /\ entry[d] \in Calls
      BY <1>1, <1>4, <1>6, <2>4
    <3>2. entry[d] # e
      BY <1>3, <2>1, <3>1 DEF DequeInv
    <3>3. QED
      BY <1>2, <1>3, <1>6, <3>1, <3>2 DEF WakeInv
  <2>5. WakeInv'
    BY <1>1, <1>3, <1>6, <2>4 DEF WakeInv
  <2>6. QED
    BY <2>2, <2>3, <2>5
<1>7. CASE /\ ~FreeToTake(e) /\ pc'[c] = "waiting"
           /\ waiters' = [waiters EXCEPT ![e] = Append(@, c)] /\ locked' = locked
  <2> DEFINE w == waiters[e]
  <2>1. /\ w \in Seq(Calls) /\ Len(w) \in Nat /\ Len(Append(w, c)) = Len(w) + 1
        /\ Append(w, c)[Len(w) + 1] = c
        /\ \A i \in 1..Len(w) : Append(w, c)[i] = w[i] /\ w[i] \in Calls
    BY <1>1, <1>2
  <2>2. /\ \A i \in 1..Len(w) : pc[w[i]] = "waiting" /\ entry[w[i]] = e /\ w[i] # c
        /\ \A i, j \in 1..Len(w) : w[i] = w[j] => i = j
    BY <1>1, <1>3 DEF DequeInv
  <2>3. waiters'[e] = Append(w, c) /\ \A f \in Calls : f # e => waiters'[f] = waiters[f]
    BY <1>1, <1>2, <1>7
  <2> HIDE DEF w
  <2>4. DequeInv'
    <3>1. ASSUME NEW f \in Calls, NEW i \in 1..Len(waiters'[f])
          PROVE  pc'[waiters'[f][i]] = "waiting" /\ entry'[waiters'[f][i]] = f
      <4>1. CASE f = e /\ i = Len(w) + 1
        <5>1. waiters'[f][i] = c
          BY <2>1, <2>3, <4>1
        <5>2. QED
          BY <1>7, <4>1, <5>1 DEF e
      <4>2. CASE f = e /\ i # Len(w) + 1
        <5>1. i \in 1..Len(w) /\ waiters'[f][i] = w[i]
          BY <2>1, <2>3, <4>2
        <5>2. QED
          BY <1>1, <2>1, <2>2, <4>2, <5>1
      <4>3. CASE f # e
        <5>1. i \in 1..Len(waiters[f]) /\ waiters'[f][i] = waiters[f][i]
          BY <2>3, <4>3
        <5>2. waiters[f][i] \in Calls /\ pc[waiters[f][i]] = "waiting" /\ entry[waiters[f][i]] = f
          BY SMTT(30), <1>2, <1>3, <5>1 DEF DequeInv
        <5>3. QED
          BY <1>1, <5>1, <5>2
      <4>4. QED
        BY <4>1, <4>2, <4>3
    <3>2. ASSUME NEW f \in Calls, NEW i \in 1..Len(waiters'[f]), NEW j \in 1..Len(waiters'[f]),
                 waiters'[f][i] = waiters'[f][j]
          PROVE  i = j
      <4>1. CASE f = e
        <5>1. /\ i \in 1..Len(w) + 1 /\ j \in 1..Len(w) + 1
              /\ Append(w, c)[i] = Append(w, c)[j]
          BY <2>1, <2>3, <3>2, <4>1
        <5>2. \A l \in 1..Len(w) + 1 : l # Len(w) + 1 => l \in 1..Len(w)
          BY <2>1
        <5>3. QED
          BY <2>1, <2>2, <5>1, <5>2
      <4>2. CASE f # e
        BY <1>3, <2>3, <3>2, <4>2 DEF DequeInv
      <4>3. QED
        BY <4>1, <4>2
    <3>3. ASSUME NEW d \in Calls, pc'[d] = "waiting"
          PROVE  \E i \in 1..Len(waiters'[entry'[d]]) : waiters'[entry'[d]][i] = d
      <4>1. CASE d = c
        BY <2>1, <2>3, <4>1 DEF e
      <4>2. CASE d # c
        <5>1. pc[d] = "waiting" /\ entry'[d] = entry[d] /\ entry[d] \in Calls
          BY <1>1, <1>4, <3>3, <4>2
        <5>2. PICK i \in 1..Len(waiters[entry[d]]) : waiters[entry[d]][i] = d
          BY <1>3, <5>1 DEF DequeInv
        <5>3. i \in 1..Len(waiters'[entry[d]]) /\ waiters'[entry[d]][i] = d
          BY <2>1, <2>3, <5>1, <5>2 DEF w
        <5>4. QED
          BY <5>1, <5>3
      <4>3. QED
        BY <4>1, <4>2
    <3>4. QED
      BY <3>1, <3>2, <3>3 DEF DequeInv
  <2>5. LockInv'
    BY <1>1, <1>3, <1>4, <1>7 DEF LockInv
  <2>6. ASSUME NEW d \in Calls, pc'[d] = "waiting", fut'[d] = "set"
        PROVE  ~locked'[entry'[d]] /\ waiters'[entry'[d]][1] = d
    <3>1. d # c /\ pc[d] = "waiting" /\ fut[d] = "set" /\ entry'[d] = entry[d] /\ entry[d] \in Calls
      BY <1>1, <1>4, <2>6
    <3>2. ~locked[entry[d]] /\ waiters[entry[d]][1] = d
      BY <1>3, <3>1 DEF WakeInv
    <3>3. Len(waiters[entry[d]]) >= 1
      BY <1>2, <1>3, <3>1 DEF DequeInv
    <3>4. waiters'[entry[d]][1] = d
      BY <2>1, <2>3, <3>1, <3>2, <3>3 DEF w
    <3>5. QED
      BY <1>7, <3>1, <3>2, <3>4
  <2>7. WakeInv'
    BY <1>1, <1>3, <2>6, <1>7 DEF WakeInv
  <2>8. QED
    BY <2>4, <2>5, <2>7
<1>8. QED
  BY <1>5, <1>6, <1>7

(* A cancellation of a parked call keeps the invariant.                     *)
LEMMA CancelWaitKeepsInv ==
    ASSUME QInv, NEW c \in Calls, CancelWait(c)
    PROVE  QInv'
<1>1. /\ UNCHANGED <<pc, conv, entry, queues, users, locked, waiters>>
      /\ pc[c] = "waiting" /\ doomed' = doomed \cup {c}
      /\ \/ fut' = fut
         \/ fut' = [fut EXCEPT ![c] = "cancelled"]
  BY DEF CancelWait
<1>2. QueueTypeOK'
  BY <1>1 DEF QInv, QueueTypeOK
<1>3. Live' = Live /\ \A f : UsersOf(f)' = UsersOf(f)
  BY <1>1 DEF Live, UsersOf
<1>4. EntryInv' /\ CountInv'
  BY <1>1, <1>3 DEF QInv, EntryInv, CountInv
<1>5. DequeInv' /\ LockInv'
  BY <1>1 DEF QInv, DequeInv, LockInv
<1>6. WakeInv'
  BY <1>1 DEF QInv, QueueTypeOK, WakeInv
<1>7. QED
  BY <1>2, <1>4, <1>5, <1>6 DEF QInv

\* A call that stops waiting leaves the deque of its lock as it was otherwise;
\* if it was not the first, the first stays the first.
LEMMA LeavingTheDeque ==
    ASSUME QInv, NEW c \in Calls, pc[c] = "waiting", entry' = entry,
           NEW x, x # "waiting", pc' = [pc EXCEPT ![c] = x],
           waiters' = [waiters EXCEPT ![entry[c]] = Without(@, c)]
    PROVE  /\ waiters' \in [Calls -> Seq(Calls)]
           /\ DequeInv'
           /\ \A d \in Calls : d # c /\ pc[d] = "waiting" /\ waiters[entry[d]][1] = d
                => waiters'[entry[d]][1] = d
<1> DEFINE e == entry[c]  w == waiters[e]  r == Without(w, c)
<1>1. /\ e \in Calls /\ pc \in [Calls -> {"new", "waiting", "turn", "done"}]
      /\ waiters \in [Calls -> Seq(Calls)] /\ w \in Seq(Calls) /\ Len(w) \in Nat
      /\ \A d \in Calls : pc[d] = "waiting" => entry[d] \in Calls
      /\ DequeInv
  BY DEF QInv, QueueTypeOK, EntryInv, Live
<1>2. /\ \A i \in 1..Len(w) : w[i] \in Calls /\ pc[w[i]] = "waiting" /\ entry[w[i]] = e
      /\ \A i, j \in 1..Len(w) : w[i] = w[j] => i = j
  BY <1>1 DEF DequeInv
<1>3. PICK p \in 1..Len(w) : w[p] = c
  BY <1>1 DEF DequeInv
<1> HIDE DEF w
<1>4. /\ r \in Seq(Calls)
      /\ \A i \in 1..Len(r) : Shift(p, i) \in 1..Len(w) /\ r[i] = w[Shift(p, i)] /\ r[i] # c
      /\ \A j \in 1..Len(w) : w[j] # c => Unshift(p, j) \in 1..Len(r) /\ r[Unshift(p, j)] = w[j]
      /\ \A i, j \in 1..Len(r) : i < j <=> Shift(p, i) < Shift(p, j)
  <2>1. w \in Seq(Calls) /\ c = w[p] /\ \A i, j \in 1..Len(w) : w[i] = w[j] => i = j
    BY <1>1, <1>2, <1>3
  <2> HIDE DEF e
  <2>2. QED
    BY <2>1, WithoutPlaces
<1>5. /\ waiters' = [waiters EXCEPT ![e] = r] /\ waiters'[e] = r
      /\ \A f \in Calls : f # e => waiters'[f] = waiters[f]
  BY <1>1 DEF w
<1> HIDE DEF r, e
<1>6. waiters' \in [Calls -> Seq(Calls)]
  BY <1>1, <1>4, <1>5
<1>7. \A d \in Calls : pc'[d] = "waiting" <=> d # c /\ pc[d] = "waiting"
  BY <1>1
<1>8. \A i \in 1..Len(r) : r[i] # c /\ pc[r[i]] = "waiting" /\ entry[r[i]] = e /\ r[i] \in Calls
  BY <1>2, <1>4
<1>9. \A i, j \in 1..Len(r) : r[i] = r[j] => i = j
  <2>1. ASSUME NEW i \in 1..Len(r), NEW j \in 1..Len(r), r[i] = r[j]
        PROVE  i = j
    <3>1. Shift(p, i) = Shift(p, j)
      BY <1>2, <1>4, <2>1
    <3>2. i \in Int /\ j \in Int /\ ~(i < j) /\ ~(j < i)
      BY <1>1, <1>4, <3>1 DEF Shift
    <3>3. QED
      BY <3>2
  <2>2. QED
    BY <2>1
<1>10. \A d \in Calls : d # c /\ pc[d] = "waiting" /\ entry[d] = e => \E i \in 1..Len(r) : r[i] = d
  <2>1. ASSUME NEW d \in Calls, d # c, pc[d] = "waiting", entry[d] = e
        PROVE  \E i \in 1..Len(r) : r[i] = d
    <3>1. PICK j \in 1..Len(w) : w[j] = d
      BY <1>1, <2>1 DEF DequeInv, w
    <3>2. QED
      BY <1>4, <2>1, <3>1
  <2>2. QED
    BY <2>1
<1>11. DequeInv'
  <2>1. ASSUME NEW f \in Calls, NEW i \in 1..Len(waiters'[f])
        PROVE  pc'[waiters'[f][i]] = "waiting" /\ entry'[waiters'[f][i]] = f
    <3>1. CASE f = e
      BY <1>5, <1>7, <1>8, <3>1
    <3>2. CASE f # e
      <4>1. i \in 1..Len(waiters[f]) /\ waiters'[f][i] = waiters[f][i]
        BY <1>5, <3>2
      <4>2. waiters[f][i] \in Calls /\ pc[waiters[f][i]] = "waiting" /\ entry[waiters[f][i]] = f
        <5>1. waiters[f] \in Seq(Calls)
          BY <1>1
        <5>2. \A j \in 1..Len(waiters[f]) : pc[waiters[f][j]] = "waiting" /\ entry[waiters[f][j]] = f
          BY <1>1 DEF DequeInv
        <5>3. QED
          BY <4>1, <5>1, <5>2
      <4>3. waiters[f][i] # c
        BY <3>2, <4>2 DEF e
      <4>4. QED
        BY <1>7, <4>1, <4>2, <4>3
    <3>3. QED
      BY <3>1, <3>2
  <2>2. \A f \in Calls : \A i, j \in 1..Len(waiters'[f]) : waiters'[f][i] = waiters'[f][j] => i = j
    <3>1. ASSUME NEW f \in Calls, NEW i \in 1..Len(waiters'[f]), NEW j \in 1..Len(waiters'[f]),
                 waiters'[f][i] = waiters'[f][j]
          PROVE  i = j
      <4>1. CASE f = e
        BY <1>5, <1>9, <3>1, <4>1
      <4>2. CASE f # e
        <5>1. waiters'[f] = waiters[f]
          BY <1>5, <4>2
        <5>2. i \in 1..Len(waiters[f]) /\ j \in 1..Len(waiters[f]) /\ waiters[f][i] = waiters[f][j]
          BY <3>1, <5>1
        <5>3. \A l, o \in 1..Len(waiters[f]) : waiters[f][l] = waiters[f][o] => l = o
          BY <1>1 DEF DequeInv
        <5>4. QED
          BY <5>2, <5>3
      <4>3. QED
        BY <4>1, <4>2
    <3>2. QED
      BY <3>1
  <2>3. ASSUME NEW d \in Calls, pc'[d] = "waiting"
        PROVE  \E i \in 1..Len(waiters'[entry'[d]]) : waiters'[entry'[d]][i] = d
    <3>1. d # c /\ pc[d] = "waiting" /\ entry[d] \in Calls
      BY <1>1, <1>7, <2>3
    <3>2. CASE entry[d] = e
      BY <1>5, <1>10, <3>1, <3>2
    <3>3. CASE entry[d] # e
      <4>1. PICK i \in 1..Len(waiters[entry[d]]) : waiters[entry[d]][i] = d
        BY <1>1, <3>1 DEF DequeInv
      <4>2. waiters'[entry[d]] = waiters[entry[d]] /\ entry'[d] = entry[d]
        BY <1>5, <3>1, <3>3
      <4>3. QED
        BY <4>1, <4>2
    <3>4. QED
      BY <3>2, <3>3
  <2>4. QED
    BY <2>1, <2>2, <2>3 DEF DequeInv
<1>12. ASSUME NEW d \in Calls, d # c, pc[d] = "waiting", waiters[entry[d]][1] = d
       PROVE  waiters'[entry[d]][1] = d
  <2>1. CASE entry[d] = e
    <3>1. w[1] = d /\ w[1] # c /\ 1 \in 1..Len(w) /\ 1 < p
      BY <1>1, <1>3, <1>12, <2>1 DEF w
    <3>2. r[Unshift(p, 1)] = d /\ Unshift(p, 1) = 1
      BY <1>4, <3>1 DEF Unshift
    <3>3. QED
      BY <1>5, <2>1, <3>2
  <2>2. CASE entry[d] # e
    BY <1>1, <1>5, <1>12, <2>2
  <2>3. QED
    BY <2>1, <2>2
<1>13. QED
  BY <1>6, <1>11, <1>12

(* A woken call that takes the lock keeps the invariant.                    *)
LEMMA ResumeKeepsInv ==
    ASSUME QInv, NEW c \in Calls, Resume(c)
    PROVE  QInv'
<1> DEFINE e == entry[c]
<1>1. /\ pc[c] = "waiting" /\ fut[c] = "set" /\ e \in Calls
      /\ pc' = [pc EXCEPT ![c] = "turn"] /\ locked' = [locked EXCEPT ![e] = TRUE]
      /\ waiters' = [waiters EXCEPT ![entry[c]] = Without(@, c)]
      /\ UNCHANGED <<conv, entry, queues, users, fut, doomed>>
      /\ pc \in [Calls -> {"new", "waiting", "turn", "done"}] /\ locked \in [Calls -> BOOLEAN]
      /\ \A d \in Calls : pc[d] \in {"waiting", "turn"} => entry[d] \in Calls
  BY DEF Resume, QInv, QueueTypeOK, EntryInv, Live
<1>2. waiters' \in [Calls -> Seq(Calls)] /\ DequeInv'
  BY <1>1, LeavingTheDeque
<1>3. QueueTypeOK'
  BY <1>1, <1>2 DEF QInv, QueueTypeOK
<1>4. Live' = Live /\ \A f : UsersOf(f)' = UsersOf(f)
  BY <1>1 DEF Live, UsersOf
<1>5. EntryInv'
  <2>1. \A d \in Calls : pc[d] # "new" => pc'[d] # "new"
    BY <1>1
  <2>2. QED
    BY <1>1, <1>4, <2>1 DEF QInv, EntryInv
<1>6. CountInv'
  BY <1>1, <1>4 DEF QInv, CountInv
<1>7. ~locked[e] /\ waiters[e][1] = c
  BY <1>1 DEF QInv, WakeInv
<1>8. \A d \in Calls : pc[d] = "turn" => entry[d] # e
  BY <1>7 DEF QInv, LockInv
<1>9. LockInv'
  <2>1. ASSUME NEW d \in Calls, pc'[d] = "turn"
        PROVE  locked'[entry'[d]]
    BY <1>1, <2>1 DEF QInv, LockInv
  <2>2. ASSUME NEW a \in Calls, NEW b \in Calls,
               pc'[a] = "turn", pc'[b] = "turn", entry'[a] = entry'[b]
        PROVE  a = b
    BY <1>1, <1>8, <2>2 DEF QInv, LockInv
  <2>3. ASSUME NEW f \in Calls, locked'[f]
        PROVE  \E d \in Calls : pc'[d] = "turn" /\ entry'[d] = f
    <3>1. CASE f = e
      BY <1>1, <3>1
    <3>2. CASE f # e
      <4>1. PICK d \in Calls : pc[d] = "turn" /\ entry[d] = f
        BY <1>1, <2>3, <3>2 DEF QInv, LockInv
      <4>2. QED
        BY <1>1, <4>1
    <3>3. QED
      BY <3>1, <3>2
  <2>4. QED
    BY <2>1, <2>2, <2>3 DEF LockInv
<1>10. WakeInv'
  <2>1. ASSUME NEW d \in Calls, pc'[d] = "waiting", fut'[d] = "set"
        PROVE  ~locked'[entry'[d]] /\ waiters'[entry'[d]][1] = d
    <3>1. d # c /\ pc[d] = "waiting" /\ fut[d] = "set" /\ entry[d] \in Calls
      BY <1>1, <2>1
    <3>2. ~locked[entry[d]] /\ waiters[entry[d]][1] = d
      BY <3>1 DEF QInv, WakeInv
    <3>3. entry[d] # e
      BY <1>7, <3>1, <3>2
    <3>4. waiters'[entry[d]][1] = d
      BY <1>1, <3>1, <3>2, LeavingTheDeque
    <3>5. QED
      BY <1>1, <3>1, <3>2, <3>3, <3>4
  <2>2. QED
    BY <1>1, <2>1 DEF QInv, WakeInv
<1>11. QED
  BY <1>2, <1>3, <1>5, <1>6, <1>9, <1>10 DEF QInv

\* A wake-up is for the first of the deque.
LEMMA WakesFirst ==
    ASSUME fut \in [Calls -> {"pending", "set", "cancelled"}],
           NEW w \in Seq(Calls), NEW d \in Calls
    PROVE  /\ WakeFirst(w) \in [Calls -> {"pending", "set", "cancelled"}]
           /\ WakeFirst(w)[d] = fut[d]
                \/ (WakeFirst(w)[d] = "set" /\ w # <<>> /\ w[1] = d /\ fut[d] = "pending")
<1>1. w # <<>> => Head(w) = w[1] /\ w[1] \in Calls
  OBVIOUS
<1>2. QED
  BY <1>1 DEF WakeFirst

(* A cancelled waiter that leaves keeps the invariant.                      *)
LEMMA AbortWaitKeepsInv ==
    ASSUME QInv, NEW c \in Calls, AbortWait(c)
    PROVE  QInv'
<1> DEFINE e == entry[c]
<1>1. /\ pc[c] = "waiting" /\ c \in Live /\ e \in Calls
      /\ pc' = [pc EXCEPT ![c] = "done"] /\ ReleaseEntry(c)
      /\ waiters' = [waiters EXCEPT ![entry[c]] = Without(@, c)]
      /\ UNCHANGED <<conv, entry, locked, doomed>>
      /\ pc \in [Calls -> {"new", "waiting", "turn", "done"}] /\ locked \in [Calls -> BOOLEAN]
      /\ waiters \in [Calls -> Seq(Calls)] /\ fut \in [Calls -> {"pending", "set", "cancelled"}]
      /\ \A d \in Calls : pc[d] \in {"waiting", "turn"} => entry[d] \in Calls
  BY DEF AbortWait, QInv, QueueTypeOK, EntryInv, Live
<1>2. /\ EntryInv' /\ CountInv' /\ users' \in [Calls -> Nat]
      /\ queues' \in [Convs -> Calls \cup {None}]
  BY <1>1, ReleaseKeepsRegistry
<1>3. waiters' \in [Calls -> Seq(Calls)] /\ DequeInv'
  BY <1>1, LeavingTheDeque
<1>4. fut' = IF locked[e] THEN fut ELSE WakeFirst(waiters'[e])
  BY <1>1 DEF AbortWait
<1>5. waiters'[e] \in Seq(Calls)
  BY <1>1, <1>3
<1>6. /\ fut' \in [Calls -> {"pending", "set", "cancelled"}]
      /\ \A d \in Calls : fut'[d] = fut[d]
            \/ (fut'[d] = "set" /\ ~locked[e] /\ waiters'[e] # <<>> /\ waiters'[e][1] = d
                /\ fut[d] = "pending")
  BY <1>1, <1>4, <1>5, WakesFirst
<1>7. QueueTypeOK'
  BY <1>1, <1>2, <1>3, <1>6 DEF QInv, QueueTypeOK
<1>8. LockInv'
  <2>1. \A d \in Calls : pc'[d] = "turn" <=> pc[d] = "turn"
    BY <1>1
  <2>2. QED
    BY <1>1, <2>1 DEF QInv, LockInv
<1>9. \A d \in Calls : pc'[d] = "waiting" => d # c /\ pc[d] = "waiting" /\ entry[d] \in Calls
  BY <1>1
<1>10. WakeInv'
  <2>1. ASSUME NEW d \in Calls, pc'[d] = "waiting", fut'[d] = "set"
        PROVE  ~locked'[entry'[d]] /\ waiters'[entry'[d]][1] = d
    <3>1. CASE fut[d] = "set"
      <4>1. d # c /\ pc[d] = "waiting" /\ ~locked[entry[d]] /\ waiters[entry[d]][1] = d
        BY <1>9, <2>1, <3>1 DEF QInv, WakeInv
      <4>2. waiters'[entry[d]][1] = d
        BY <1>1, <4>1, LeavingTheDeque
      <4>3. QED
        BY <1>1, <4>1, <4>2
    <3>2. CASE fut[d] # "set"
      <4>1. ~locked[e] /\ waiters'[e] # <<>> /\ waiters'[e][1] = d
        BY <1>6, <2>1, <3>2
      <4>2. 1 \in 1..Len(waiters'[e])
        BY <1>5, <4>1
      <4>3. entry'[d] = e
        BY <1>1, <1>3, <4>1, <4>2 DEF DequeInv
      <4>4. QED
        BY <1>1, <4>1, <4>3
    <3>3. QED
      BY <3>1, <3>2
  <2>2. ASSUME NEW d \in Calls, fut'[d] = "cancelled"
        PROVE  d \in doomed'
    BY <1>1, <1>6, <2>2 DEF QInv, WakeInv
  <2>3. ASSUME NEW d \in Calls, pc'[d] = "new"
        PROVE  fut'[d] = "pending" /\ d \notin doomed'
    <3>1. pc[d] = "new" /\ fut[d] = "pending" /\ d \notin doomed'
      BY <1>1, <2>3 DEF QInv, WakeInv
    <3>2. ~(waiters'[e] # <<>> /\ waiters'[e][1] = d)
      <4>1. waiters'[e] # <<>> => 1 \in 1..Len(waiters'[e])
        BY <1>5
      <4>2. QED
        BY <1>1, <1>3, <2>3, <4>1 DEF DequeInv
    <3>3. QED
      BY <1>6, <3>1, <3>2
  <2>4. QED
    BY <2>1, <2>2, <2>3 DEF WakeInv
<1>11. QED
  BY <1>2, <1>3, <1>7, <1>8, <1>10 DEF QInv

(* The end of a turn keeps the invariant.                                   *)
LEMMA LeaveKeepsInv ==
    ASSUME QInv, NEW c \in Calls, Leave(c)
    PROVE  QInv'
<1> DEFINE e == entry[c]
<1>1. /\ pc[c] = "turn" /\ c \in Live /\ e \in Calls
      /\ pc' = [pc EXCEPT ![c] = "done"] /\ ReleaseEntry(c)
      /\ locked' = [locked EXCEPT ![e] = FALSE]
      /\ fut' = WakeFirst(waiters[e])
      /\ UNCHANGED <<conv, entry, waiters, doomed>>
      /\ pc \in [Calls -> {"new", "waiting", "turn", "done"}] /\ locked \in [Calls -> BOOLEAN]
      /\ waiters \in [Calls -> Seq(Calls)] /\ fut \in [Calls -> {"pending", "set", "cancelled"}]
      /\ \A d \in Calls : pc[d] \in {"waiting", "turn"} => entry[d] \in Calls
  BY DEF Leave, QInv, QueueTypeOK, EntryInv, Live
<1>2. /\ EntryInv' /\ CountInv' /\ users' \in [Calls -> Nat]
      /\ queues' \in [Convs -> Calls \cup {None}]
  BY <1>1, ReleaseKeepsRegistry
<1>3. waiters[e] \in Seq(Calls)
  BY <1>1
<1>4. /\ fut' \in [Calls -> {"pending", "set", "cancelled"}]
      /\ \A d \in Calls : fut'[d] = fut[d]
            \/ (fut'[d] = "set" /\ waiters[e] # <<>> /\ waiters[e][1] = d /\ fut[d] = "pending")
  BY <1>1, <1>3, WakesFirst
<1>5. \A d \in Calls : /\ pc'[d] = "turn" <=> d # c /\ pc[d] = "turn"
                       /\ pc'[d] = "waiting" <=> pc[d] = "waiting"
                       /\ pc'[d] = "new" <=> pc[d] = "new"
  BY <1>1
<1>6. QueueTypeOK'
  BY <1>1, <1>2, <1>4 DEF QInv, QueueTypeOK
<1>7. DequeInv'
  <2>1. \A f \in Calls : \A i \in 1..Len(waiters[f]) : waiters[f][i] \in Calls
    BY <1>1
  <2>2. waiters' = waiters /\ entry' = entry /\ DequeInv
    BY <1>1 DEF QInv
  <2>3. \A f \in Calls : \A i \in 1..Len(waiters[f]) :
          pc'[waiters[f][i]] = "waiting" /\ entry[waiters[f][i]] = f
    BY <1>5, <2>1, <2>2 DEF DequeInv
  <2>4. \A d \in Calls : pc'[d] = "waiting" =>
          \E i \in 1..Len(waiters[entry[d]]) : waiters[entry[d]][i] = d
    BY <1>5, <2>2 DEF DequeInv
  <2>5. QED
    BY <2>2, <2>3, <2>4 DEF DequeInv
<1>8. locked[e] /\ \A d \in Calls : pc[d] = "turn" /\ entry[d] = e => d = c
  BY <1>1 DEF QInv, LockInv
<1>9. LockInv'
  <2>1. ASSUME NEW d \in Calls, pc'[d] = "turn"
        PROVE  locked'[entry'[d]]
    <3>1. d # c /\ pc[d] = "turn" /\ locked[entry[d]]
      BY <1>5, <2>1 DEF QInv, LockInv
    <3>2. entry[d] # e
      BY <1>8, <3>1
    <3>3. QED
      BY <1>1, <3>1, <3>2
  <2>2. ASSUME NEW a \in Calls, NEW b \in Calls,
               pc'[a] = "turn", pc'[b] = "turn", entry'[a] = entry'[b]
        PROVE  a = b
    BY <1>1, <1>5, <2>2 DEF QInv, LockInv
  <2>3. ASSUME NEW f \in Calls, locked'[f]
        PROVE  \E d \in Calls : pc'[d] = "turn" /\ entry'[d] = f
    <3>1. f # e /\ locked[f]
      BY <1>1, <2>3
    <3>2. PICK d \in Calls : pc[d] = "turn" /\ entry[d] = f
      BY <3>1 DEF QInv, LockInv
    <3>3. QED
      BY <1>1, <1>5, <3>1, <3>2
  <2>4. QED
    BY <2>1, <2>2, <2>3 DEF LockInv
<1>10. WakeInv'
  <2>1. ASSUME NEW d \in Calls, pc'[d] = "waiting", fut'[d] = "set"
        PROVE  ~locked'[entry'[d]] /\ waiters'[entry'[d]][1] = d
    <3>1. pc[d] = "waiting" /\ entry[d] \in Calls
      BY <1>1, <1>5, <2>1
    <3>2. CASE fut[d] = "set"
      <4>1. ~locked[entry[d]] /\ waiters[entry[d]][1] = d
        BY <3>1, <3>2 DEF QInv, WakeInv
      <4>2. QED
        BY <1>1, <1>8, <3>1, <4>1
    <3>3. CASE fut[d] # "set"
      <4>1. waiters[e] # <<>> /\ waiters[e][1] = d
        BY <1>4, <2>1, <3>3
      <4>2. 1 \in 1..Len(waiters[e])
        BY <1>3, <4>1
      <4>3. entry[d] = e
        BY <1>1, <4>1, <4>2 DEF QInv, DequeInv
      <4>4. QED
        BY <1>1, <4>1, <4>3
    <3>4. QED
      BY <3>2, <3>3
  <2>2. ASSUME NEW d \in Calls, fut'[d] = "cancelled"
        PROVE  d \in doomed'
    BY <1>1, <1>4, <2>2 DEF QInv, WakeInv
  <2>3. ASSUME NEW d \in Calls, pc'[d] = "new"
        PROVE  fut'[d] = "pending" /\ d \notin doomed'
    <3>1. pc[d] = "new" /\ fut[d] = "pending" /\ d \notin doomed'
      BY <1>1, <1>5, <2>3 DEF QInv, WakeInv
    <3>2. ~(waiters[e] # <<>> /\ waiters[e][1] = d)
      <4>1. waiters[e] # <<>> => 1 \in 1..Len(waiters[e])
        BY <1>3
      <4>2. QED
        BY <1>1, <3>1, <4>1 DEF QInv, DequeInv
    <3>3. QED
      BY <1>4, <3>1, <3>2
  <2>4. QED
    BY <2>1, <2>2, <2>3 DEF WakeInv
<1>11. QED
  BY <1>2, <1>6, <1>7, <1>9, <1>10 DEF QInv

-----------------------------------------------------------------------------
\* Every step keeps the invariant.
LEMMA NextKeepsInv == QInv /\ [Next]_queueVars => QInv'
<1> SUFFICES ASSUME QInv, [Next]_queueVars PROVE QInv'
  OBVIOUS
<1>1. ASSUME NEW c \in Calls, NEW k \in Convs, Arrive(c, k) PROVE QInv'
  BY <1>1, ArriveKeepsRegistry, ArriveKeepsLocks DEF QInv
<1>2. ASSUME NEW c \in Calls, CancelWait(c) PROVE QInv'
  BY <1>2, CancelWaitKeepsInv
<1>3. ASSUME NEW c \in Calls, Resume(c) PROVE QInv'
  BY <1>3, ResumeKeepsInv
<1>4. ASSUME NEW c \in Calls, AbortWait(c) PROVE QInv'
  BY <1>4, AbortWaitKeepsInv
<1>5. ASSUME NEW c \in Calls, Leave(c) PROVE QInv'
  BY <1>5, LeaveKeepsInv
<1>6. CASE UNCHANGED queueVars
  <2>1. Live' = Live /\ \A f : UsersOf(f)' = UsersOf(f)
    BY <1>6 DEF queueVars, Live, UsersOf
  <2>2. QED
    BY <1>6, <2>1
    DEF queueVars, QInv, QueueTypeOK, EntryInv, CountInv, DequeInv, LockInv, WakeInv
<1>7. QED
  BY <1>1, <1>2, <1>3, <1>4, <1>5, <1>6 DEF Next

(* The inductive invariant holds in every state of every behaviour.         *)
THEOREM Invariance == Spec => []QInv
<1>1. QueueInit => QInv
  BY InitInv
<1>2. QInv /\ [Next]_queueVars => QInv'
  BY NextKeepsInv
<1>3. QED
  BY <1>1, <1>2, PTL DEF Spec

(* The variables of the queue keep their types: in particular a claim on an *)
(* entry is never given back twice, so users never goes below zero.         *)
THEOREM TypeCorrect == Spec => []QueueTypeOK
<1>1. QInv => QueueTypeOK
  BY DEF QInv
<1>2. QED
  BY <1>1, Invariance, PTL

(* At most one call at a time holds the turn of a conversation, whatever    *)
(* number of calls arrive, wait and are cancelled (_conversation_turn).     *)
THEOREM MutualExclusion == Spec => []OneTurnPerConversation
<1>1. QInv => OneTurnPerConversation
  BY DEF QInv, EntryInv, LockInv, Live, OneTurnPerConversation
<1>2. QED
  BY <1>1, Invariance, PTL

(* A live call always uses the entry that is registered for its             *)
(* conversation: a newcomer queues behind it (_release_queue_entry).        *)
THEOREM RegistryAgrees == Spec => []OneEntryPerConversation
<1>1. QInv => OneEntryPerConversation
  BY DEF QInv, EntryInv, OneEntryPerConversation
<1>2. QED
  BY <1>1, Invariance, PTL

(* The registry keeps no entry that no live call uses: it is bounded by     *)
(* concurrency, however the calls ended (_CONVERSATION_QUEUES).             *)
THEOREM RegistryBounded == Spec => []NoEntryLeaks
<1>1. ASSUME QInv, NEW k \in Convs, queues[k] # None
      PROVE  \E c \in Live : conv[c] = k
  <2>1. PICK c \in Live : entry[c] = queues[k]
    BY <1>1 DEF QInv, EntryInv, UsersOf
  <2>2. conv[c] = k
    BY <1>1, <2>1 DEF QInv, EntryInv
  <2>3. QED
    BY <2>2
<1>2. QInv => NoEntryLeaks
  BY <1>1 DEF NoEntryLeaks
<1>3. QED
  BY <1>2, Invariance, PTL
-----------------------------------------------------------------------------
(***************************************************************************)
(* The turn queue implements SerialTurns: each action of the queue is one   *)
(* action of SerialTurns, or none, through phaseBar, conv and aheadBar.     *)
(***************************************************************************)

\* Who is in line, who holds the turn, and that the calls in line for one
\* conversation are in one deque.
Mapped ==
    /\ \A d \in Calls : phaseBar[d] = "line" <=> pc[d] = "waiting" /\ d \notin doomed
    /\ \A d \in Calls : phaseBar[d] = "turn" <=> pc[d] = "turn"
    /\ \A d \in Calls : phaseBar[d] = "new" <=> pc[d] = "new"
    /\ \A d \in Calls : phaseBar[d] = "over" <=>
            pc[d] = "done" \/ (pc[d] = "waiting" /\ d \in doomed)
    /\ \A d \in Calls : phaseBar[d] \in {"new", "line", "turn", "over"}
    /\ DOMAIN phaseBar = Calls /\ phaseBar = [d \in Calls |-> phaseBar[d]]
    /\ \A d \in Calls : aheadBar[d] =
            {x \in Calls : phaseBar[d] = "line" /\ phaseBar[x] = "line" /\ Before(x, d)}
    /\ aheadBar = [d \in Calls |-> aheadBar[d]]
    /\ \A c, d \in Live : conv[c] = conv[d] <=> entry[c] = entry[d]

(* The invariant gives what the refinement needs of one state.              *)
LEMMA MappedState == QInv => Mapped
<1> SUFFICES ASSUME QInv PROVE Mapped
  OBVIOUS
<1>1. pc \in [Calls -> {"new", "waiting", "turn", "done"}]
  BY DEF QInv, QueueTypeOK
<1>2. /\ \A d \in Calls : phaseBar[d] = "line" <=> pc[d] = "waiting" /\ d \notin doomed
      /\ \A d \in Calls : phaseBar[d] = "turn" <=> pc[d] = "turn"
      /\ \A d \in Calls : phaseBar[d] = "new" <=> pc[d] = "new"
      /\ \A d \in Calls : phaseBar[d] = "over" <=>
            pc[d] = "done" \/ (pc[d] = "waiting" /\ d \in doomed)
      /\ \A d \in Calls : phaseBar[d] \in {"new", "line", "turn", "over"}
      /\ DOMAIN phaseBar = Calls /\ phaseBar = [d \in Calls |-> phaseBar[d]]
  BY <1>1 DEF phaseBar
<1>3. /\ \A d \in Calls : aheadBar[d] =
            {x \in Calls : phaseBar[d] = "line" /\ phaseBar[x] = "line" /\ Before(x, d)}
      /\ aheadBar = [d \in Calls |-> aheadBar[d]]
  BY DEF aheadBar
<1>4. \A c, d \in Live : conv[c] = conv[d] <=> entry[c] = entry[d]
  BY DEF QInv, EntryInv
<1>5. QED
  BY <1>2, <1>3, <1>4 DEF Mapped

(* The same of the next state.                                              *)
LEMMA MappedNext == QInv' => Mapped'
  BY MappedState, PTL

(* The first state maps to the first state of SerialTurns.                  *)
LEMMA InitRefines == QueueInit => Serial!Init
<1> SUFFICES ASSUME QueueInit PROVE Serial!Init
  OBVIOUS
<1>1. \A d \in Calls : pc[d] = "new"
  BY DEF QueueInit
<1>2. phaseBar = [d \in Calls |-> "new"]
  BY <1>1 DEF phaseBar
<1>3. aheadBar = [d \in Calls |-> {}]
  BY <1>2 DEF aheadBar
<1>4. QED
  BY <1>2, <1>3 DEF QueueInit, Serial!Init

-----------------------------------------------------------------------------
(* A step that keeps the places of the deque, for the calls it leaves in    *)
(* line, changes what is ahead of a call only by who left the line.         *)
LEMMA AheadFollows ==
    ASSUME Mapped, Mapped', NEW gone,
           \A d \in Calls : phaseBar'[d] = "line" <=> d # gone /\ phaseBar[d] = "line",
           \A d, x \in Calls :
                phaseBar'[d] = "line" /\ phaseBar'[x] = "line" => (Before(x, d)' <=> Before(x, d))
    PROVE  aheadBar' = [d \in Calls |-> IF d = gone THEN {} ELSE aheadBar[d] \ {gone}]
<1>1. ASSUME NEW d \in Calls
      PROVE  aheadBar'[d] = IF d = gone THEN {} ELSE aheadBar[d] \ {gone}
  <2>1. aheadBar'[d] =
            {x \in Calls : phaseBar'[d] = "line" /\ phaseBar'[x] = "line" /\ Before(x, d)'}
    BY DEF Mapped
  <2>2. aheadBar[d] =
            {x \in Calls : phaseBar[d] = "line" /\ phaseBar[x] = "line" /\ Before(x, d)}
    BY DEF Mapped
  <2>3. QED
    BY <2>1, <2>2
<1>2. aheadBar' = [d \in Calls |-> aheadBar'[d]]
  BY DEF Mapped
<1>3. QED
  BY <1>1, <1>2

\* Nobody left the line: nothing changes.
LEMMA AheadStays ==
    ASSUME Mapped, Mapped',
           \A d \in Calls : phaseBar'[d] = "line" <=> phaseBar[d] = "line",
           \A d, x \in Calls :
                phaseBar'[d] = "line" /\ phaseBar'[x] = "line" => (Before(x, d)' <=> Before(x, d))
    PROVE  aheadBar' = aheadBar
<1>1. ASSUME NEW d \in Calls
      PROVE  aheadBar'[d] = aheadBar[d]
  <2>1. aheadBar'[d] =
            {x \in Calls : phaseBar'[d] = "line" /\ phaseBar'[x] = "line" /\ Before(x, d)'}
    BY DEF Mapped
  <2>2. aheadBar[d] =
            {x \in Calls : phaseBar[d] = "line" /\ phaseBar[x] = "line" /\ Before(x, d)}
    BY DEF Mapped
  <2>3. QED
    BY <2>1, <2>2
<1>2. aheadBar' = [d \in Calls |-> aheadBar'[d]] /\ aheadBar = [d \in Calls |-> aheadBar[d]]
  BY DEF Mapped
<1>3. QED
  BY <1>1, <1>2

-----------------------------------------------------------------------------
\* The order of the deque in terms of places.
LEMMA BeforePlaces ==
    ASSUME QInv, NEW d \in Calls, NEW x, pc[d] = "waiting"
    PROVE  /\ entry[d] \in Calls /\ waiters[entry[d]] \in Seq(Calls)
           /\ Before(x, d) <=> \E i, j \in 1..Len(waiters[entry[d]]) :
                i < j /\ waiters[entry[d]][i] = x /\ waiters[entry[d]][j] = d
<1>1. entry[d] \in Calls /\ waiters[entry[d]] \in Seq(Calls)
  BY DEF QInv, QueueTypeOK, EntryInv, Live
<1>2. DOMAIN waiters[entry[d]] = 1..Len(waiters[entry[d]])
  BY <1>1
<1>3. QED
  BY <1>1, <1>2 DEF Before

\* Removing a waiter keeps the order of the others.
LEMMA RemovalKeepsOrder ==
    ASSUME QInv, QInv', NEW c \in Calls, pc[c] = "waiting", entry' = entry,
           NEW y, y # "waiting", pc' = [pc EXCEPT ![c] = y],
           waiters' = [waiters EXCEPT ![entry[c]] = Without(@, c)]
    PROVE  \A d, x \in Calls : pc'[d] = "waiting" /\ pc'[x] = "waiting" =>
              (Before(x, d)' <=> Before(x, d))
<1> DEFINE e == entry[c]  w == waiters[e]  r == Without(w, c)
<1>1. /\ e \in Calls /\ w \in Seq(Calls) /\ waiters \in [Calls -> Seq(Calls)]
      /\ waiters' \in [Calls -> Seq(Calls)]
      /\ pc \in [Calls -> {"new", "waiting", "turn", "done"}]
      /\ \A d \in Calls : pc[d] = "waiting" => entry[d] \in Calls
      /\ \A i, j \in 1..Len(w) : w[i] = w[j] => i = j
  BY ZenonT(30) DEF QInv, QueueTypeOK, EntryInv, Live, DequeInv
<1>2. PICK p \in 1..Len(w) : w[p] = c
  BY DEF QInv, DequeInv
<1>3. /\ waiters'[e] = r
      /\ \A f \in Calls : f # e => waiters'[f] = waiters[f]
  BY <1>1
<1> HIDE DEF w
<1>4. /\ \A i \in 1..Len(r) : Shift(p, i) \in 1..Len(w) /\ r[i] = w[Shift(p, i)]
      /\ \A j \in 1..Len(w) : w[j] # c => Unshift(p, j) \in 1..Len(r) /\ r[Unshift(p, j)] = w[j]
      /\ \A i, j \in 1..Len(r) : i < j <=> Shift(p, i) < Shift(p, j)
      /\ \A i, j \in 1..Len(w) : w[i] # c /\ w[j] # c => (i < j <=> Unshift(p, i) < Unshift(p, j))
  <2>1. w \in Seq(Calls) /\ c = w[p] /\ \A i, j \in 1..Len(w) : w[i] = w[j] => i = j
    BY <1>1, <1>2
  <2> HIDE DEF e
  <2>2. QED
    BY <2>1, WithoutPlaces
<1> HIDE DEF r, e
<1>5. ASSUME NEW d \in Calls, NEW x \in Calls, pc'[d] = "waiting", pc'[x] = "waiting"
      PROVE  Before(x, d)' <=> Before(x, d)
  <2>1. d # c /\ x # c /\ pc[d] = "waiting" /\ entry[d] \in Calls
    BY <1>1, <1>5
  <2>2. Before(x, d) <=> \E i, j \in 1..Len(waiters[entry[d]]) :
            i < j /\ waiters[entry[d]][i] = x /\ waiters[entry[d]][j] = d
    BY <2>1, BeforePlaces
  <2>3. Before(x, d)' <=> \E i, j \in 1..Len(waiters'[entry[d]]) :
            i < j /\ waiters'[entry[d]][i] = x /\ waiters'[entry[d]][j] = d
    <3>1. DOMAIN waiters'[entry[d]] = 1..Len(waiters'[entry[d]])
      BY <1>1, <2>1
    <3>2. QED
      BY <3>1 DEF Before
  <2>4. CASE entry[d] = e
    <3>1. Before(x, d) <=> \E i, j \in 1..Len(w) : i < j /\ w[i] = x /\ w[j] = d
      BY <2>2, <2>4 DEF w
    <3>2. Before(x, d)' <=> \E i, j \in 1..Len(r) : i < j /\ r[i] = x /\ r[j] = d
      BY <1>3, <2>3, <2>4
    <3>3. Before(x, d)' => Before(x, d)
      BY <1>4, <3>1, <3>2
    <3>4. Before(x, d) => Before(x, d)'
      BY SMTT(30), <1>4, <2>1, <3>1, <3>2
    <3>5. QED
      BY <3>3, <3>4
  <2>5. CASE entry[d] # e
    BY <1>3, <2>1, <2>2, <2>3, <2>5
  <2>6. QED
    BY <2>4, <2>5
<1>6. QED
  BY <1>5

-----------------------------------------------------------------------------
(* A cancellation maps to GiveUp, or to a stutter.                          *)
LEMMA CancelWaitRefines ==
    ASSUME QInv, QInv', NEW c \in Calls, CancelWait(c)
    PROVE  Serial!GiveUp(c)
<1>1. Mapped /\ Mapped'
  BY MappedState, MappedNext
<1>2. /\ pc' = pc /\ conv' = conv /\ entry' = entry /\ waiters' = waiters
      /\ pc[c] = "waiting" /\ c \notin doomed /\ doomed' = doomed \cup {c}
  BY DEF CancelWait
<1>3. phaseBar[c] = "line" /\ phaseBar'[c] = "over"
  BY <1>1, <1>2 DEF Mapped
<1>4. \A d \in Calls : d # c => phaseBar'[d] = phaseBar[d]
  BY <1>1, <1>2 DEF Mapped
<1>5. phaseBar' = [phaseBar EXCEPT ![c] = "over"]
  BY <1>1, <1>3, <1>4 DEF Mapped
<1>6. aheadBar' = [d \in Calls |-> IF d = c THEN {} ELSE aheadBar[d] \ {c}]
  <2>1. \A d, x \in Calls : Before(x, d)' <=> Before(x, d)
    BY <1>2 DEF Before
  <2>2. QED
    BY <1>1, <1>3, <1>4, <2>1, AheadFollows
<1>7. QED
  BY <1>2, <1>3, <1>5, <1>6 DEF Serial!GiveUp, Serial!LeaveLine

(* A resumed call maps to Begin.                                            *)
LEMMA ResumeRefines ==
    ASSUME QInv, QInv', NEW c \in Calls, Resume(c)
    PROVE  Serial!Begin(c)
<1>1. Mapped /\ Mapped'
  BY MappedState, MappedNext
<1>2. /\ pc[c] = "waiting" /\ fut[c] = "set" /\ c \notin doomed
      /\ pc' = [pc EXCEPT ![c] = "turn"] /\ pc \in [Calls -> {"new", "waiting", "turn", "done"}]
      /\ waiters' = [waiters EXCEPT ![entry[c]] = Without(@, c)]
      /\ entry' = entry /\ conv' = conv /\ doomed' = doomed
  BY DEF Resume, QInv, QueueTypeOK
<1>3. phaseBar[c] = "line" /\ phaseBar'[c] = "turn"
  BY <1>1, <1>2 DEF Mapped
<1>4. \A d \in Calls : d # c => pc'[d] = pc[d] /\ phaseBar'[d] = phaseBar[d]
  BY <1>1, <1>2 DEF Mapped
<1>5. phaseBar' = [phaseBar EXCEPT ![c] = "turn"]
  BY <1>1, <1>3, <1>4 DEF Mapped
<1>6. aheadBar' = [d \in Calls |-> IF d = c THEN {} ELSE aheadBar[d] \ {c}]
  <2>1. \A d, x \in Calls : pc'[d] = "waiting" /\ pc'[x] = "waiting" =>
              (Before(x, d)' <=> Before(x, d))
    BY <1>2, RemovalKeepsOrder
  <2>2. \A d \in Calls : phaseBar'[d] = "line" => pc'[d] = "waiting"
    BY <1>1 DEF Mapped
  <2>3. \A d \in Calls : phaseBar'[d] = "line" <=> d # c /\ phaseBar[d] = "line"
    BY <1>3, <1>4
  <2>4. QED
    BY <1>1, <2>1, <2>2, <2>3, AheadFollows
<1>7. ~locked[entry[c]] /\ waiters[entry[c]][1] = c
  BY <1>2 DEF QInv, WakeInv
<1>8. ~Serial!Busy(conv[c])
  <2>1. SUFFICES ASSUME NEW d \in Calls, phaseBar[d] = "turn", conv[d] = conv[c]
                 PROVE  FALSE
    BY DEF Serial!Busy
  <2>2. pc[d] = "turn" /\ d \in Live /\ c \in Live
    BY <1>1, <1>2, <2>1 DEF Mapped, Live
  <2>3. entry[d] = entry[c]
    BY <1>1, <2>1, <2>2 DEF Mapped
  <2>4. QED
    BY <1>7, <2>2, <2>3 DEF QInv, LockInv
<1>9. aheadBar[c] = {}
  <2>1. SUFFICES ASSUME NEW x \in Calls, Before(x, c) PROVE FALSE
    BY <1>1 DEF Mapped
  <2>2. PICK i, j \in 1..Len(waiters[entry[c]]) :
            i < j /\ waiters[entry[c]][i] = x /\ waiters[entry[c]][j] = c
    BY <1>2, <2>1, BeforePlaces
  <2>3. entry[c] \in Calls /\ waiters[entry[c]] \in Seq(Calls)
    BY <1>2, BeforePlaces
  <2>4. j = 1
    BY <1>7, <2>2, <2>3 DEF QInv, DequeInv
  <2>5. QED
    BY <2>2, <2>3, <2>4
<1>10. QED
  BY <1>2, <1>3, <1>5, <1>6, <1>8, <1>9 DEF Serial!Begin, Serial!LeaveLine

(* A cancelled waiter that leaves maps to a stutter.                        *)
LEMMA AbortWaitRefines ==
    ASSUME QInv, QInv', NEW c \in Calls, AbortWait(c)
    PROVE  UNCHANGED Serial!vars
<1>1. Mapped /\ Mapped'
  BY MappedState, MappedNext
<1>2. /\ pc[c] = "waiting" /\ c \in doomed
      /\ pc' = [pc EXCEPT ![c] = "done"] /\ pc \in [Calls -> {"new", "waiting", "turn", "done"}]
      /\ waiters' = [waiters EXCEPT ![entry[c]] = Without(@, c)]
      /\ entry' = entry /\ conv' = conv /\ doomed' = doomed
  BY DEF AbortWait, QInv, QueueTypeOK
<1>3. \A d \in Calls : phaseBar'[d] = phaseBar[d]
  BY <1>1, <1>2 DEF Mapped
<1>4. phaseBar' = phaseBar
  BY <1>1, <1>3 DEF Mapped
<1>5. aheadBar' = aheadBar
  <2>1. \A d, x \in Calls : pc'[d] = "waiting" /\ pc'[x] = "waiting" =>
              (Before(x, d)' <=> Before(x, d))
    BY <1>2, RemovalKeepsOrder
  <2>2. \A d \in Calls : phaseBar'[d] = "line" => pc'[d] = "waiting"
    BY <1>1 DEF Mapped
  <2>3. QED
    BY <1>1, <1>3, <2>1, <2>2, AheadStays
<1>6. QED
  BY <1>2, <1>4, <1>5 DEF Serial!vars

(* The end of a turn maps to End.                                           *)
LEMMA LeaveRefines ==
    ASSUME QInv, QInv', NEW c \in Calls, Leave(c)
    PROVE  Serial!End(c)
<1>1. Mapped /\ Mapped'
  BY MappedState, MappedNext
<1>2. /\ pc[c] = "turn" /\ pc' = [pc EXCEPT ![c] = "done"]
      /\ pc \in [Calls -> {"new", "waiting", "turn", "done"}]
      /\ waiters' = waiters /\ entry' = entry /\ conv' = conv /\ doomed' = doomed
  BY DEF Leave, QInv, QueueTypeOK
<1>3. phaseBar[c] = "turn" /\ phaseBar'[c] = "over"
  BY <1>1, <1>2 DEF Mapped
<1>4. \A d \in Calls : d # c => phaseBar'[d] = phaseBar[d]
  BY <1>1, <1>2 DEF Mapped
<1>5. phaseBar' = [phaseBar EXCEPT ![c] = "over"]
  BY <1>1, <1>3, <1>4 DEF Mapped
<1>6. aheadBar' = aheadBar
  <2>1. \A d, x \in Calls : Before(x, d)' <=> Before(x, d)
    BY <1>2 DEF Before
  <2>2. QED
    BY <1>1, <1>3, <1>4, <2>1, AheadStays
<1>7. QED
  BY <1>2, <1>3, <1>5, <1>6 DEF Serial!End

(* An arrival maps to AskAndBegin or to Ask.                                *)
LEMMA ArriveRefines ==
    ASSUME QInv, QInv', NEW c \in Calls, NEW k \in Convs, Arrive(c, k)
    PROVE  Serial!AskAndBegin(c, k) \/ Serial!Ask(c, k)
<1> DEFINE e == entry'[c]
<1>1. Mapped /\ Mapped'
  BY MappedState, MappedNext
<1>2. /\ pc[c] = "new" /\ conv' = [conv EXCEPT ![c] = k] /\ doomed' = doomed
      /\ c \notin doomed /\ e \in Calls
      /\ \A d \in Calls : d # c => pc'[d] = pc[d] /\ entry'[d] = entry[d]
      /\ waiters \in [Calls -> Seq(Calls)]
  BY CallsAssumption DEF Arrive, QInv, QueueTypeOK, WakeInv
<1>3. phaseBar[c] = "new" /\ \A d \in Calls : d # c => phaseBar'[d] = phaseBar[d]
  <2>1. phaseBar[c] = "new"
    BY <1>1, <1>2 DEF Mapped
  <2>2. ASSUME NEW d \in Calls, d # c
        PROVE  phaseBar'[d] = phaseBar[d]
    <3>1. pc'[d] = pc[d] /\ doomed' = doomed
      BY <1>2, <2>2
    <3>2. QED
      BY <3>1 DEF phaseBar
  <2>3. QED
    BY <2>1, <2>2
<1>4. \A d \in Live : d # c /\ (entry[d] = e <=> conv[d] = k)
  BY ArriveKeepsRegistry
<1>5. \A d \in Calls : phaseBar[d] \in {"line", "turn"} => d \in Live
  BY <1>1 DEF Mapped, Live
<1>6. \/ FreeToTake(e) /\ pc'[c] = "turn" /\ waiters' = waiters
      \/ ~FreeToTake(e) /\ pc'[c] = "waiting" /\ waiters' = [waiters EXCEPT ![e] = Append(@, c)]
  <2>1. entry'[c] = IF queues[k] = None THEN c ELSE queues[k]
    BY DEF Arrive, QInv, QueueTypeOK
  <2>2. QED
    BY <2>1 DEF Arrive, QInv, QueueTypeOK
<1> HIDE DEF e
<1>7. CASE FreeToTake(e) /\ pc'[c] = "turn" /\ waiters' = waiters
  <2>1. phaseBar' = [phaseBar EXCEPT ![c] = "turn"]
    BY <1>1, <1>3, <1>7 DEF Mapped
  <2>2. ~Serial!Busy(k)
    <3>1. \A d \in Calls : pc[d] = "turn" => locked[entry[d]]
      BY DEF QInv, LockInv
    <3>2. QED
      BY <1>1, <1>4, <1>5, <1>7, <3>1 DEF Serial!Busy, FreeToTake, Mapped
  <2>3. Serial!Line(k) = {}
    <3>1. SUFFICES ASSUME NEW d \in Calls, phaseBar[d] = "line", conv[d] = k PROVE FALSE
      BY DEF Serial!Line
    <3>2. pc[d] = "waiting" /\ d \notin doomed /\ entry[d] = e
      BY <1>1, <1>4, <1>5, <3>1 DEF Mapped
    <3>3. PICK i \in 1..Len(waiters[e]) : waiters[e][i] = d
      BY <3>2 DEF QInv, DequeInv
    <3>4. fut[d] = "cancelled"
      BY <1>2, <1>7, <3>3 DEF FreeToTake
    <3>5. QED
      BY <3>2, <3>4 DEF QInv, WakeInv
  <2>4. aheadBar' = aheadBar
    <3>1. \A d \in Calls : phaseBar'[d] = "line" <=> phaseBar[d] = "line"
      BY <1>1, <1>2, <1>3, <1>7 DEF Mapped
    <3>2. ASSUME NEW d \in Calls, NEW x \in Calls, phaseBar'[d] = "line"
          PROVE  Before(x, d)' <=> Before(x, d)
      <4>1. d # c
        BY <1>3, <3>1, <3>2
      <4>2. entry'[d] = entry[d]
        BY <1>2, <4>1
      <4>3. QED
        BY <1>7, <4>2 DEF Before
    <3>3. QED
      BY <1>1, <3>1, <3>2, AheadStays
  <2>5. QED
    BY <1>2, <1>3, <2>1, <2>2, <2>3, <2>4 DEF Serial!AskAndBegin
<1>8. CASE ~FreeToTake(e) /\ pc'[c] = "waiting" /\ waiters' = [waiters EXCEPT ![e] = Append(@, c)]
  <2> DEFINE w == waiters[e]
  <2>1. phaseBar'[c] = "line" /\ phaseBar' = [phaseBar EXCEPT ![c] = "line"]
    BY <1>1, <1>2, <1>3, <1>8 DEF Mapped
  <2>2. /\ w \in Seq(Calls) /\ Len(w) \in Nat /\ Len(Append(w, c)) = Len(w) + 1
        /\ Append(w, c)[Len(w) + 1] = c
        /\ \A i \in 1..Len(w) : Append(w, c)[i] = w[i]
        /\ \A i \in 1..Len(w) + 1 : i # Len(w) + 1 => i \in 1..Len(w)
    BY <1>2
  <2>3. \A i \in 1..Len(w) : w[i] # c
    BY <1>2, <2>2 DEF QInv, DequeInv
  <2>4. waiters'[e] = Append(w, c) /\ \A f \in Calls : f # e => waiters'[f] = waiters[f]
    BY <1>2, <1>8
  <2>5. waiters' \in [Calls -> Seq(Calls)]
    BY DEF QInv, QueueTypeOK
  <2> HIDE DEF w
  <2>6. \A d, x \in Calls : pc'[d] = "waiting" =>
          (Before(x, d)' <=> \E i, j \in 1..Len(waiters'[entry'[d]]) :
                i < j /\ waiters'[entry'[d]][i] = x /\ waiters'[entry'[d]][j] = d)
    <3>1. \A d \in Calls : pc'[d] = "waiting" => entry'[d] \in Calls
      BY DEF QInv, EntryInv, Live
    <3>2. \A d \in Calls : pc'[d] = "waiting" =>
            DOMAIN waiters'[entry'[d]] = 1..Len(waiters'[entry'[d]])
      BY <2>5, <3>1
    <3>3. QED
      BY <3>2 DEF Before
  <2>7. ASSUME NEW d \in Calls, NEW x \in Calls, d # c, x # c,
               phaseBar'[d] = "line", phaseBar'[x] = "line"
        PROVE  Before(x, d)' <=> Before(x, d)
    <3>1. pc[d] = "waiting" /\ pc'[d] = "waiting" /\ entry'[d] = entry[d]
      BY <1>1, <1>2, <1>3, <2>7 DEF Mapped
    <3>2. /\ entry[d] \in Calls
          /\ Before(x, d) <=> \E i, j \in 1..Len(waiters[entry[d]]) :
                i < j /\ waiters[entry[d]][i] = x /\ waiters[entry[d]][j] = d
      BY SMTT(30), <3>1, BeforePlaces
    <3>3. Before(x, d)' <=> \E i, j \in 1..Len(waiters'[entry[d]]) :
                i < j /\ waiters'[entry[d]][i] = x /\ waiters'[entry[d]][j] = d
      BY <2>6, <3>1
    <3>4. CASE entry[d] = e
      <4>1. Before(x, d) <=> \E i, j \in 1..Len(w) : i < j /\ w[i] = x /\ w[j] = d
        BY <3>2, <3>4 DEF w
      <4>2. Before(x, d)' <=> \E i, j \in 1..Len(w) + 1 :
                i < j /\ Append(w, c)[i] = x /\ Append(w, c)[j] = d
        BY <2>2, <2>4, <3>3, <3>4
      <4>3. Before(x, d)' => Before(x, d)
        BY <2>2, <2>7, <4>1, <4>2
      <4>4. Before(x, d) => Before(x, d)'
        <5>1. 1..Len(w) \subseteq 1..Len(w) + 1
          BY <2>2
        <5>2. QED
          BY <2>2, <4>1, <4>2, <5>1
      <4>5. QED
        BY <4>3, <4>4
    <3>5. CASE entry[d] # e
      BY <2>4, <3>2, <3>3, <3>5
    <3>6. QED
      BY <3>4, <3>5
  <2>8. ASSUME NEW d \in Calls, d # c
        PROVE  aheadBar'[d] = aheadBar[d]
    <3>1. aheadBar'[d] =
              {x \in Calls : phaseBar'[d] = "line" /\ phaseBar'[x] = "line" /\ Before(x, d)'}
      BY <1>1 DEF Mapped
    <3>2. aheadBar[d] =
              {x \in Calls : phaseBar[d] = "line" /\ phaseBar[x] = "line" /\ Before(x, d)}
      BY <1>1 DEF Mapped
    <3>3. phaseBar'[d] = "line" => ~Before(c, d)'
      <4>1. SUFFICES ASSUME phaseBar'[d] = "line", Before(c, d)' PROVE FALSE
        OBVIOUS
      <4>2. pc'[d] = "waiting" /\ entry'[d] \in Calls
        BY <1>1, <4>1 DEF Mapped, QInv, EntryInv, Live
      <4>3. PICK i, j \in 1..Len(waiters'[entry'[d]]) :
                i < j /\ waiters'[entry'[d]][i] = c /\ waiters'[entry'[d]][j] = d
        BY <2>6, <4>1, <4>2
      <4>4. entry'[d] = e
        BY <4>2, <4>3 DEF QInv, DequeInv, e
      <4>5. i \in 1..Len(w) + 1 /\ j \in 1..Len(w) + 1 /\ Append(w, c)[i] = c
        BY <2>2, <2>4, <4>3, <4>4
      <4>6. i = Len(w) + 1
        BY <2>2, <2>3, <4>5
      <4>7. QED
        BY <2>2, <4>3, <4>5, <4>6
    <3>4. QED
      BY <1>3, <2>7, <2>8, <3>1, <3>2, <3>3
  <2>9. aheadBar'[c] = Serial!Line(k)
    <3>1. aheadBar'[c] = {x \in Calls : phaseBar'[x] = "line" /\ Before(x, c)'}
      BY <1>1, <2>1 DEF Mapped
    <3>2. ASSUME NEW x \in Calls
          PROVE  phaseBar'[x] = "line" /\ Before(x, c)' <=> phaseBar[x] = "line" /\ conv[x] = k
      <4>1. Before(x, c)' <=> \E i, j \in 1..Len(w) + 1 :
                i < j /\ Append(w, c)[i] = x /\ Append(w, c)[j] = c
        <5>1. entry'[c] = e /\ Len(waiters'[e]) = Len(w) + 1
          BY <2>2, <2>4 DEF e
        <5>2. QED
          BY SMTT(30), <1>8, <2>4, <2>6, <5>1
      <4>2. Before(x, c)' <=> \E i \in 1..Len(w) : w[i] = x
        <5>1. ASSUME NEW i \in 1..Len(w)
              PROVE  i \in 1..Len(w) + 1 /\ Len(w) + 1 \in 1..Len(w) + 1 /\ i < Len(w) + 1
          BY <2>2
        <5>2. (\E i \in 1..Len(w) : w[i] = x) => Before(x, c)'
          BY <2>2, <4>1, <5>1
        <5>3. Before(x, c)' => \E i \in 1..Len(w) : w[i] = x
          <6>1. SUFFICES ASSUME NEW i \in 1..Len(w) + 1, NEW j \in 1..Len(w) + 1,
                                i < j, Append(w, c)[i] = x
                         PROVE  \E l \in 1..Len(w) : w[l] = x
            BY <4>1
          <6>2. i \in 1..Len(w)
            BY <2>2, <6>1
          <6>3. QED
            BY <2>2, <6>1, <6>2
        <5>4. QED
          BY <5>2, <5>3
      <4>3. CASE x = c
        BY <1>3, <2>3, <4>2, <4>3
      <4>4. CASE x # c
        <5>1. phaseBar'[x] = phaseBar[x]
          BY <1>3, <4>4
        <5>2. ASSUME phaseBar[x] = "line"
              PROVE  (\E i \in 1..Len(w) : w[i] = x) <=> conv[x] = k
          <6>1. pc[x] = "waiting" /\ x \in Live /\ entry[x] \in Calls
            BY <1>1, <1>5, <5>2 DEF Mapped, QInv, EntryInv
          <6>2. (\E i \in 1..Len(w) : w[i] = x) <=> entry[x] = e
            <7>0. \A i \in 1..Len(w) : entry[w[i]] = e
              BY <1>2 DEF QInv, DequeInv, w
            <7>1. (\E i \in 1..Len(w) : w[i] = x) => entry[x] = e
              BY <7>0
            <7>2. entry[x] = e => \E i \in 1..Len(w) : w[i] = x
              BY <6>1 DEF QInv, DequeInv, w
            <7>3. QED
              BY <7>1, <7>2
          <6>3. QED
            BY <1>4, <6>1, <6>2
        <5>3. QED
          BY <4>2, <5>1, <5>2
      <4>5. QED
        BY <4>3, <4>4
    <3>3. QED
      BY <3>1, <3>2 DEF Serial!Line
  <2>10. aheadBar' = [aheadBar EXCEPT ![c] = Serial!Line(k)]
    <3>1. /\ aheadBar' = [d \in Calls |-> aheadBar'[d]]
          /\ aheadBar = [d \in Calls |-> aheadBar[d]]
      BY <1>1 DEF Mapped
    <3>2. QED
      BY <2>8, <2>9, <3>1
  <2>11. QED
    BY <1>2, <1>3, <2>1, <2>10 DEF Serial!Ask
<1>9. QED
  BY <1>6, <1>7, <1>8

-----------------------------------------------------------------------------
(* The turn queue of query_database.py implements SerialTurns: exclusive     *)
(* turns in the order of arrival, a cancelled waiter leaving the line, for   *)
(* every number of calls and conversations.                                 *)
THEOREM Refinement == Spec => ImplementsSerialTurns
<1>1. QueueInit => Serial!Init
  BY InitRefines
<1>2. QInv /\ QInv' /\ [Next]_queueVars => [Serial!Next]_(Serial!vars)
  <2> SUFFICES ASSUME QInv, QInv', [Next]_queueVars
               PROVE  Serial!Next \/ UNCHANGED Serial!vars
    OBVIOUS
  <2>1. ASSUME NEW c \in Calls, NEW k \in Convs, Arrive(c, k) PROVE Serial!Next
    BY <2>1, ArriveRefines DEF Serial!Next
  <2>2. ASSUME NEW c \in Calls, CancelWait(c) PROVE Serial!Next
    BY <2>2, CancelWaitRefines DEF Serial!Next
  <2>3. ASSUME NEW c \in Calls, Resume(c) PROVE Serial!Next
    BY <2>3, ResumeRefines DEF Serial!Next
  <2>4. ASSUME NEW c \in Calls, AbortWait(c) PROVE UNCHANGED Serial!vars
    BY <2>4, AbortWaitRefines
  <2>5. ASSUME NEW c \in Calls, Leave(c) PROVE Serial!Next
    BY <2>5, LeaveRefines DEF Serial!Next
  <2>6. CASE UNCHANGED queueVars
    <3>1. phaseBar' = phaseBar
      BY <2>6 DEF queueVars, phaseBar
    <3>2. aheadBar' = aheadBar
      BY <2>6, <3>1 DEF queueVars, aheadBar, Before
    <3>3. QED
      BY <2>6, <3>1, <3>2 DEF queueVars, Serial!vars
  <2>7. QED
    BY <2>1, <2>2, <2>3, <2>4, <2>5, <2>6 DEF Next
<1>3. QED
  BY <1>1, <1>2, Invariance, PTL DEF Spec, ImplementsSerialTurns, Serial!Spec
=============================================================================
