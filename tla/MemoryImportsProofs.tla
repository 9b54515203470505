------------------------ MODULE MemoryImportsProofs ------------------------
(***************************************************************************)
(* The bulk changes of the saved memory, proved for every number of calls,  *)
(* any items, any collection and any number of store threads.               *)
(* ImportsInv is the inductive invariant; its parts are named for what they *)
(* are about.                                                              *)
(***************************************************************************)
EXTENDS MemoryImports, SequenceTheorems, WellFoundedInduction, TLAPS

Items == Pairs \cup Docs \cup {Malformed, Foreign}
InHand == {"waiting", "worker", "saving"}
Row == [key : Items, by : Calls \cup {Agent}, at : Nat]

CallRecord ==
    [at : {"new"} \cup InHand \cup Over, kind : Kinds, items : Seq(Items),
     next : Nat, seen : SUBSET Items, errors : BOOLEAN]

JobRecord ==
    [call : Calls, on : BOOLEAN, phase : {"ids", "delete", "baseline", "read", "json", "csv"},
     found : SUBSET Row]

\* failures is left out: nothing reads it but the bound.
TypeInv ==
    /\ call \in [Calls -> CallRecord]
    /\ \A c \in Calls : call[c].at = "new" => call[c].kind # "reload"
    /\ lock \in [Locks -> Seq(Calls)]
    /\ worker \in [Processes -> Seq(JobRecord)]
    /\ submitted \subseteq Row /\ saving \subseteq Row /\ rows \subseteq Row
    /\ skipped \in BOOLEAN

\* The line of a lock holds the calls in hand that need it, each once, and a call
\* that has gone on from waiting is its head.
LineInv ==
    /\ \A l \in Locks : \A i, j \in 1..Len(lock[l]) : lock[l][i] = lock[l][j] => i = j
    /\ \A l \in Locks : \A i \in 1..Len(lock[l]) :
            call[lock[l][i]].at \in InHand /\ l \in LockOf(call[lock[l][i]].kind)
    /\ \A c \in Calls : call[c].at \in InHand =>
            \A l \in LockOf(call[c].kind) : \E i \in 1..Len(lock[l]) : lock[l][i] = c
    /\ \A c \in Calls : call[c].at \in {"worker", "saving"} =>
            \A l \in LockOf(call[c].kind) : lock[l][1] = c

PhasesOf(kind) ==
    CASE kind \in {"delete", "clear"} -> {"ids", "delete"}
      [] kind = "reload" -> {"ids", "delete", "baseline"}
      [] kind = "export" -> {"read", "json", "csv"}
      [] OTHER -> {"baseline"}

\* A job is its call's, in a phase of its kind; it waits only for a call that does.
JobFits(calls, p, j) ==
    /\ ProcessOf(calls[j.call].kind) = p
    /\ j.phase \in PhasesOf(calls[j.call].kind)
    /\ calls[j.call].at = "worker" \/ (j.on /\ calls[j.call].at = "cancelled")

\* Only the head of a queue runs, and no call has two jobs.
JobInv ==
    /\ \A p \in Processes : \A i \in 1..Len(worker[p]) :
            JobFits(call, p, worker[p][i]) /\ (worker[p][i].on => i = 1)
    /\ \A p \in Processes : \A i, k \in 1..Len(worker[p]) :
            worker[p][i].call = worker[p][k].call => i = k

Pending == submitted \cup saving

\* A save under way is of the item its call is at, or runs on behind a cancelled call.
SaveFits(r) ==
    /\ r.by \in Calls /\ r.key # Malformed
    /\ call[r.by].at = "saving" \/ (r \in saving /\ call[r.by].at = "cancelled")
    /\ call[r.by].at = "saving" => r.at = call[r.by].next /\ r.key = call[r.by].items[r.at]

\* A call has one save under way, and has been through the items before it.
SaveInv ==
    /\ \A r \in Pending : SaveFits(r)
    /\ \A r, s \in Pending : r.by = s.by => r = s
    /\ submitted \cap saving = {}
    /\ \A r \in rows : r.by # Agent =>
            r.key # Malformed /\ call[r.by].at \in {"saving"} \cup Over
    /\ \A c \in Calls : call[c].at = "saving" =>
            /\ call[c].kind \in Imports
            /\ call[c].next \in 1..Len(call[c].items)
            /\ \A i \in 1..call[c].next : call[c].items[i] \in call[c].seen \cup {Malformed}

\* A row of a call that took lock l and was not cancelled.
Kept(r, l) == r.by # Agent /\ l \in LockOf(call[r.by].kind) /\ call[r.by].at # "cancelled"

\* The holder of a lock has seen the keys of all such rows, and saves none again.
SeenInv ==
    /\ \A c \in Calls : call[c].at = "saving" =>
            \A l \in LockOf(call[c].kind) : \A r \in rows : Kept(r, l) => r.key \in call[c].seen
    /\ \A q \in Pending : \A s \in rows : \A l \in Locks :
            q.key = s.key /\ Kept(q, l) => ~Kept(s, l)

NoReload == \A d \in Calls : call[d].kind # "reload"
KeysIn(R) == {r.key : r \in R}

\* While add_memories saves, no delete or clear is on its way in the server, and
\* without one from the command line all it has seen is stored, but what it saves.
AddInv ==
    /\ \A c \in Calls : ~call[c].errors => Malformed \notin ToSet(call[c].items)
    /\ \A c \in Calls : call[c].at = "saving" /\ call[c].kind = "add" =>
            \A i \in 1..Len(worker["server"]) :
                call[worker["server"][i].call].kind \notin {"delete", "clear"}
    /\ NoReload => \A c \in Calls : call[c].at = "saving" /\ call[c].kind = "add" /\ ~call[c].errors =>
            call[c].seen \subseteq KeysIn(rows) \cup {call[c].items[call[c].next]}

\* Between the read of an export and its report nobody else sets the flag.
ExportInv ==
    \A i \in 1..Len(worker["server"]) :
        worker["server"][i].phase \in {"json", "csv"} =>
            /\ worker["server"][i].on
            /\ Malformed \in KeysIn(worker["server"][i].found) => skipped

ImportsInv ==
    TypeInv /\ LineInv /\ JobInv /\ SaveInv /\ SeenInv /\ AddInv /\ ExportInv /\ NoDoubleSave

-----------------------------------------------------------------------------
(* What leaves a line and a queue. *)

\* The least element, at which RemoveFirst, Dropped and Unseen stop.
LEMMA MinIsLeast ==
    ASSUME NEW U, U \subseteq Nat, U # {}
    PROVE  Min(U) \in U /\ \A j \in U : Min(U) <= j
<1>1. PICK i \in U : \A j \in U : ~(<<j, i>> \in OpToRel(<, Nat))
  BY NatLessThanWellFounded, WFMin
<1>2. i \in U /\ \A j \in U : ~(j < i)
  BY <1>1 DEF OpToRel
<1>3. \A j \in U : i <= j
  BY <1>2
<1>4. QED
  BY <1>2, <1>3 DEF Min

\* Without one element the others keep their order.
LEMMA RemoveAtPlaces ==
    ASSUME NEW S, NEW w \in Seq(S), NEW p \in 1..Len(w)
    PROVE  /\ RemoveAt(w, p) \in Seq(S) /\ Len(RemoveAt(w, p)) = Len(w) - 1
           /\ \A i \in 1..Len(w) - 1 : RemoveAt(w, p)[i] = w[IF i < p THEN i ELSE i + 1]
<1> DEFINE left == SubSeq(w, 1, p - 1)
           right == SubSeq(w, p + 1, Len(w))
           r == left \o right
<1>1. /\ left \in Seq(S) /\ Len(left) = p - 1 /\ \A i \in 1..p - 1 : left[i] = w[i]
  OBVIOUS
<1>2. /\ right \in Seq(S) /\ Len(right) = Len(w) - p
      /\ \A i \in 1..Len(w) - p : right[i] = w[p + i]
  OBVIOUS
<1> HIDE DEF left, right
<1>3. r \in Seq(S) /\ Len(r) = Len(w) - 1
  <2>1. r \in Seq(S) /\ Len(r) = Len(left) + Len(right)
    BY <1>1, <1>2, ConcatProperties
  <2>2. Len(w) \in Nat
    OBVIOUS
  <2>3. QED
    BY <1>1, <1>2, <2>1, <2>2
<1>4. \A i \in 1..Len(w) - 1 : i < p => r[i] = w[i]
  BY <1>1, <1>2
<1>5. ASSUME NEW i \in 1..Len(w) - 1, i >= p PROVE r[i] = w[i + 1]
  <2>1. r[i] = right[i - (p - 1)] /\ i - (p - 1) \in 1..Len(w) - p
    BY <1>1, <1>2, <1>5
  <2>2. right[i - (p - 1)] = w[p + (i - (p - 1))]
    BY <1>2, <2>1
  <2>3. QED
    BY <2>1, <2>2
<1>6. RemoveAt(w, p) = r
  BY DEF RemoveAt, left, right
<1> HIDE DEF r
<1>7. QED
  BY <1>3, <1>4, <1>5, <1>6

\* Each element that is left stood at the same place or behind it, and no other does.
LEMMA RemoveAtElements ==
    ASSUME NEW S, NEW w \in Seq(S), NEW p \in 1..Len(w)
    PROVE  /\ \A i \in 1..Len(RemoveAt(w, p)) :
                \E j \in 1..Len(w) : j >= i /\ j # p /\ RemoveAt(w, p)[i] = w[j]
           /\ \A j \in 1..Len(w) : j # p => \E i \in 1..Len(RemoveAt(w, p)) : RemoveAt(w, p)[i] = w[j]
           /\ \A i, k \in 1..Len(RemoveAt(w, p)) : i # k =>
                \E j, m \in 1..Len(w) : j # m /\ RemoveAt(w, p)[i] = w[j] /\ RemoveAt(w, p)[k] = w[m]
<1> DEFINE r == RemoveAt(w, p)
           from(i) == IF i < p THEN i ELSE i + 1
<1>1. Len(w) \in Nat /\ Len(r) = Len(w) - 1 /\ \A i \in 1..Len(w) - 1 : r[i] = w[from(i)]
  BY RemoveAtPlaces
<1> HIDE DEF r
<1>2. \A i \in 1..Len(w) - 1 : from(i) \in 1..Len(w) /\ from(i) >= i /\ from(i) # p
  BY <1>1
<1>3. \A i, k \in 1..Len(w) - 1 : i # k => from(i) # from(k)
  BY <1>1
<1>4. \A j \in 1..Len(w) : j # p => \E i \in 1..Len(w) - 1 : from(i) = j
  <2>1. SUFFICES ASSUME NEW j \in 1..Len(w), j # p PROVE \E i \in 1..Len(w) - 1 : from(i) = j
    OBVIOUS
  <2>2. CASE j < p
    <3>1. j \in 1..Len(w) - 1 /\ from(j) = j
      BY <1>1, <2>2
    <3>2. QED
      BY <3>1
  <2>3. CASE j > p
    <3>1. j - 1 \in 1..Len(w) - 1 /\ from(j - 1) = j
      BY <1>1, <2>3
    <3>2. QED
      BY <3>1
  <2>4. QED
    BY <1>1, <2>1, <2>2, <2>3
<1> HIDE DEF from
<1>5. \A i \in 1..Len(r) : \E j \in 1..Len(w) : j >= i /\ j # p /\ r[i] = w[j]
  BY <1>1, <1>2
<1>6. \A j \in 1..Len(w) : j # p => \E i \in 1..Len(r) : r[i] = w[j]
  BY <1>1, <1>4
<1>7. \A i, k \in 1..Len(r) : i # k => \E j, m \in 1..Len(w) : j # m /\ r[i] = w[j] /\ r[k] = w[m]
  BY ZenonT(30), <1>1, <1>2, <1>3
<1>8. QED
  BY <1>5, <1>6, <1>7 DEF r

\* asyncio.Lock: whoever leaves the line, the others stay behind one another.
LEMMA LineShrinks ==
    ASSUME NEW w \in Seq(Calls), NEW c,
           \A i, j \in 1..Len(w) : w[i] = w[j] => i = j
    PROVE  /\ RemoveFirst(w, c) \in Seq(Calls)
           /\ \A i \in 1..Len(RemoveFirst(w, c)) :
                RemoveFirst(w, c)[i] # c /\ \E j \in 1..Len(w) : RemoveFirst(w, c)[i] = w[j]
           /\ \A i, j \in 1..Len(RemoveFirst(w, c)) :
                RemoveFirst(w, c)[i] = RemoveFirst(w, c)[j] => i = j
           /\ \A j \in 1..Len(w) : w[j] # c => \E i \in 1..Len(RemoveFirst(w, c)) : RemoveFirst(w, c)[i] = w[j]
           /\ Len(w) > 0 /\ w[1] # c => RemoveFirst(w, c)[1] = w[1]
<1> DEFINE U == {i \in 1..Len(w) : w[i] = c}
<1>1. CASE U = {}
  <2>1. RemoveFirst(w, c) = w
    BY <1>1 DEF RemoveFirst
  <2>2. QED
    BY <1>1, <2>1
<1>2. CASE U # {}
  <2>1. U \subseteq Nat
    OBVIOUS
  <2>2. Min(U) \in U
    BY <1>2, <2>1, MinIsLeast
  <2> DEFINE p == Min(U)
  <2>3. p \in 1..Len(w) /\ w[p] = c
    BY <2>2
  <2>4. RemoveFirst(w, c) = RemoveAt(w, p)
    BY <2>2 DEF RemoveFirst, SelectInSeq
  <2> HIDE DEF p, U
  <2> DEFINE r == RemoveAt(w, p)
  <2>5. /\ r \in Seq(Calls) /\ Len(r) = Len(w) - 1
        /\ \A i \in 1..Len(w) - 1 : r[i] = w[IF i < p THEN i ELSE i + 1]
    BY <2>3, RemoveAtPlaces
  <2>6. /\ \A i \in 1..Len(r) : \E j \in 1..Len(w) : j >= i /\ j # p /\ r[i] = w[j]
        /\ \A j \in 1..Len(w) : j # p => \E i \in 1..Len(r) : r[i] = w[j]
        /\ \A i, k \in 1..Len(r) : i # k =>
             \E j, m \in 1..Len(w) : j # m /\ r[i] = w[j] /\ r[k] = w[m]
    BY <2>3, RemoveAtElements
  <2> HIDE DEF r
  <2>7. ASSUME NEW i \in 1..Len(r)
        PROVE  r[i] # c /\ \E j \in 1..Len(w) : r[i] = w[j]
    <3>1. PICK j \in 1..Len(w) : j # p /\ r[i] = w[j]
      BY <2>6, <2>7
    <3>2. QED
      BY <2>3, <3>1
  <2>8. ASSUME NEW i \in 1..Len(r), NEW k \in 1..Len(r), r[i] = r[k]
        PROVE  i = k
    <3>1. SUFFICES ASSUME i # k PROVE FALSE
      OBVIOUS
    <3>2. PICK j \in 1..Len(w) : \E m \in 1..Len(w) : j # m /\ r[i] = w[j] /\ r[k] = w[m]
      BY <2>6, <2>8, <3>1
    <3>3. QED
      BY <2>8, <3>2
  <2>9. \A j \in 1..Len(w) : w[j] # c => \E i \in 1..Len(r) : r[i] = w[j]
    BY <2>3, <2>6
  <2>10. Len(w) > 0 /\ w[1] # c => r[1] = w[1]
    BY <2>3, <2>5
  <2>11. QED
    BY <2>4, <2>5, <2>7, <2>8, <2>9, <2>10 DEF r
<1>3. QED
  BY <1>1, <1>2

\* What a cancellation leaves in a queue: nothing of the call that waits there.
LEMMA DroppedJobs ==
    ASSUME NEW p \in Processes, NEW c \in Calls, worker[p] \in Seq(JobRecord),
           \A i, k \in 1..Len(worker[p]) : worker[p][i].call = worker[p][k].call => i = k
    PROVE  /\ Dropped(p, c) \in Seq(JobRecord)
           /\ \A i \in 1..Len(Dropped(p, c)) :
                /\ Dropped(p, c)[i].call = c => Dropped(p, c)[i].on
                /\ \E j \in 1..Len(worker[p]) : j >= i /\ Dropped(p, c)[i] = worker[p][j]
           /\ \A i, k \in 1..Len(Dropped(p, c)) :
                Dropped(p, c)[i].call = Dropped(p, c)[k].call => i = k
<1> DEFINE w == worker[p]
           U == {i \in DOMAIN w : w[i].call = c /\ ~w[i].on}
<1>0. w \in Seq(JobRecord) /\ DOMAIN w = 1..Len(w) /\ Len(w) \in Nat
  OBVIOUS
<1>1. CASE U = {}
  <2>1. Dropped(p, c) = w
    BY <1>1 DEF Dropped
  <2>2. \A i \in 1..Len(w) : w[i].call = c => w[i].on
    BY <1>0, <1>1
  <2>3. \A i \in 1..Len(w) : i >= i
    OBVIOUS
  <2>4. QED
    BY <2>1, <2>2, <2>3
<1>2. CASE U # {}
  <2>1. U \subseteq Nat
    BY <1>0
  <2>2. Min(U) \in U
    BY <1>2, <2>1, MinIsLeast
  <2> DEFINE m == Min(U)
  <2>3. m \in 1..Len(w) /\ w[m].call = c
    BY <1>0, <2>2
  <2>4. Dropped(p, c) = RemoveAt(w, m)
    BY <1>2 DEF Dropped
  <2>5. \A i, k \in 1..Len(w) : w[i].call = w[k].call => i = k
    OBVIOUS
  <2> HIDE DEF m, U, w
  <2> DEFINE r == RemoveAt(w, m)
  <2>6. r \in Seq(JobRecord)
    BY <1>0, <2>3, RemoveAtPlaces
  <2>7. /\ \A i \in 1..Len(r) : \E j \in 1..Len(w) : j >= i /\ j # m /\ r[i] = w[j]
        /\ \A i, k \in 1..Len(r) : i # k =>
             \E j, n \in 1..Len(w) : j # n /\ r[i] = w[j] /\ r[k] = w[n]
    BY <1>0, <2>3, RemoveAtElements
  <2> HIDE DEF r
  <2>8. ASSUME NEW i \in 1..Len(r)
        PROVE  r[i].call # c /\ \E j \in 1..Len(w) : j >= i /\ r[i] = w[j]
    <3>1. PICK j \in 1..Len(w) : j >= i /\ j # m /\ r[i] = w[j]
      BY <2>7, <2>8
    <3>2. QED
      BY <2>3, <2>5, <3>1
  <2>9. ASSUME NEW i \in 1..Len(r), NEW k \in 1..Len(r), r[i].call = r[k].call
        PROVE  i = k
    <3>1. SUFFICES ASSUME i # k PROVE FALSE
      OBVIOUS
    <3>2. PICK j \in 1..Len(w) : \E n \in 1..Len(w) : j # n /\ r[i] = w[j] /\ r[k] = w[n]
      BY <2>7, <2>9, <3>1
    <3>3. QED
      BY <2>5, <2>9, <3>2
  <2>10. QED
    BY <2>4, <2>6, <2>8, <2>9 DEF r, w
<1>3. QED
  BY <1>1, <1>2

-----------------------------------------------------------------------------
(* The lines of the two locks. *)

\* Two calls past waiting do not share a lock.
LEMMA Exclusion ==
    ASSUME LineInv, NEW c \in Calls, NEW d \in Calls, NEW l \in Locks,
           call[c].at \in {"worker", "saving"}, call[d].at \in {"worker", "saving"},
           l \in LockOf(call[c].kind), l \in LockOf(call[d].kind)
    PROVE  c = d
BY DEF LineInv

\* Everybody but c stays what he is.
Alone(c) == \A d \in Calls \ {c} : call'[d] = call[d]

\* A call that is over leaves its line.
LEMMA LineFreed ==
    ASSUME TypeInv, LineInv, NEW c \in Calls, Alone(c),
           call'[c].at \in Over, lock' = LockFreed(c)
    PROVE  LineInv' /\ lock' \in [Locks -> Seq(Calls)]
<1>1. \A l \in Locks : lock'[l] = RemoveFirst(lock[l], c) /\ lock[l] \in Seq(Calls)
  BY DEF LockFreed, TypeInv
<1>2. \A l \in Locks : \A i, j \in 1..Len(lock[l]) : lock[l][i] = lock[l][j] => i = j
  BY DEF LineInv
<1>3. ASSUME NEW l \in Locks
      PROVE  /\ lock'[l] \in Seq(Calls)
             /\ \A i \in 1..Len(lock'[l]) :
                  lock'[l][i] # c /\ \E j \in 1..Len(lock[l]) : lock'[l][i] = lock[l][j]
             /\ \A i, j \in 1..Len(lock'[l]) : lock'[l][i] = lock'[l][j] => i = j
             /\ \A j \in 1..Len(lock[l]) : lock[l][j] # c =>
                  \E i \in 1..Len(lock'[l]) : lock'[l][i] = lock[l][j]
             /\ Len(lock[l]) > 0 /\ lock[l][1] # c => lock'[l][1] = lock[l][1]
  <2> DEFINE w == lock[l]
             r == lock'[l]
  <2>1. w \in Seq(Calls) /\ \A i, j \in 1..Len(w) : w[i] = w[j] => i = j
    BY <1>1, <1>2
  <2>2. r = RemoveFirst(w, c)
    BY <1>1
  <2> HIDE DEF w, r
  <2>3. /\ r \in Seq(Calls)
        /\ \A i \in 1..Len(r) : r[i] # c /\ \E j \in 1..Len(w) : r[i] = w[j]
        /\ \A i, j \in 1..Len(r) : r[i] = r[j] => i = j
        /\ \A j \in 1..Len(w) : w[j] # c => \E i \in 1..Len(r) : r[i] = w[j]
        /\ Len(w) > 0 /\ w[1] # c => r[1] = w[1]
    <3> DEFINE f == RemoveFirst(w, c)
    <3>1. /\ f \in Seq(Calls)
          /\ \A i \in 1..Len(f) : f[i] # c /\ \E j \in 1..Len(w) : f[i] = w[j]
          /\ \A i, j \in 1..Len(f) : f[i] = f[j] => i = j
          /\ \A j \in 1..Len(w) : w[j] # c => \E i \in 1..Len(f) : f[i] = w[j]
          /\ Len(w) > 0 /\ w[1] # c => f[1] = w[1]
      BY <2>1, LineShrinks
    <3>2. r = f
      BY <2>2
    <3> HIDE DEF f
    <3>3. QED
      BY <3>1, <3>2
  <2>4. QED
    BY <2>3 DEF w, r
<1>4. lock' \in [Locks -> Seq(Calls)]
  BY <1>3 DEF LockFreed
<1>5. \A l \in Locks : \A i \in 1..Len(lock'[l]) :
          call'[lock'[l][i]].at \in InHand /\ l \in LockOf(call'[lock'[l][i]].kind)
  <2>1. SUFFICES ASSUME NEW l \in Locks, NEW i \in 1..Len(lock'[l])
                 PROVE  call'[lock'[l][i]].at \in InHand /\ l \in LockOf(call'[lock'[l][i]].kind)
    OBVIOUS
  <2>2. PICK j \in 1..Len(lock[l]) : lock'[l][i] = lock[l][j] /\ lock[l][j] # c
    BY <1>3, <2>1
  <2>3. lock[l][j] \in Calls
    BY <1>1
  <2>4. call'[lock[l][j]] = call[lock[l][j]]
    BY <2>2, <2>3 DEF Alone
  <2>5. QED
    BY <2>2, <2>4 DEF LineInv
<1>6. \A d \in Calls : call'[d].at \in InHand => d # c /\ call'[d] = call[d]
  BY DEF Alone, InHand, Over
<1>7. ASSUME NEW d \in Calls, call'[d].at \in InHand, NEW l \in LockOf(call'[d].kind)
      PROVE  \E i \in 1..Len(lock'[l]) : lock'[l][i] = d
  <2>1. l \in Locks
    BY DEF LockOf, Locks
  <2>2. PICK j \in 1..Len(lock[l]) : lock[l][j] = d
    BY <1>6, <1>7 DEF LineInv
  <2>3. QED
    BY <1>3, <1>6, <1>7, <2>1, <2>2
<1>8. ASSUME NEW d \in Calls, call'[d].at \in {"worker", "saving"}, NEW l \in LockOf(call'[d].kind)
      PROVE  lock'[l][1] = d
  <2>1. l \in Locks /\ call'[d].at \in InHand
    BY <1>8 DEF LockOf, Locks, InHand
  <2>2. call'[d] = call[d] /\ d # c
    BY <1>6, <2>1
  <2>3. lock[l][1] = d /\ \E j \in 1..Len(lock[l]) : lock[l][j] = d
    BY <1>8, <2>1, <2>2 DEF LineInv
  <2>4. Len(lock[l]) > 0
    BY <1>1, <2>1, <2>3
  <2>5. QED
    BY <1>3, <2>1, <2>2, <2>3, <2>4
<1>9. QED
  BY <1>3, <1>4, <1>5, <1>7, <1>8 DEF LineInv

\* A call that goes on keeps its place; past waiting it must be the head.
LEMMA LineKept ==
    ASSUME TypeInv, LineInv, NEW c \in Calls, Alone(c), lock' = lock,
           call[c].at \in InHand, call'[c].at \in InHand, call'[c].kind = call[c].kind,
           \A l \in LockOf(call[c].kind) : lock[l][1] = c
    PROVE  LineInv'
<1>1. \A d \in Calls : d # c => call'[d] = call[d]
  BY DEF Alone
<1>2. \A d \in Calls : (call'[d].at \in InHand <=> call[d].at \in InHand) /\ call'[d].kind = call[d].kind
  BY <1>1
<1>3. \A l \in Locks : \A i \in 1..Len(lock[l]) : lock[l][i] \in Calls
  BY DEF TypeInv
<1>4. \A l \in Locks : \A i \in 1..Len(lock[l]) :
          call'[lock[l][i]].at \in InHand /\ l \in LockOf(call'[lock[l][i]].kind)
  BY <1>2, <1>3 DEF LineInv
<1>5. \A d \in Calls : call'[d].at \in InHand =>
          \A l \in LockOf(call'[d].kind) : \E i \in 1..Len(lock[l]) : lock[l][i] = d
  BY <1>2 DEF LineInv
<1>6. \A d \in Calls : call'[d].at \in {"worker", "saving"} =>
          \A l \in LockOf(call'[d].kind) : lock[l][1] = d
  BY <1>1, <1>2 DEF LineInv
<1>7. QED
  BY <1>4, <1>5, <1>6 DEF LineInv

\* A step that leaves the calls and the locks alone.
LEMMA LineSame ==
    ASSUME LineInv, call' = call, lock' = lock
    PROVE  LineInv'
BY DEF LineInv

-----------------------------------------------------------------------------
(* The queues of the memory workers. *)

\* Each job now in a queue was in it, at the same place or behind it.
JobsRemain ==
    \A p \in Processes : \A i \in 1..Len(worker'[p]) :
        \E j \in 1..Len(worker[p]) : j >= i /\ worker'[p][i] = worker[p][j]

\* What runs is the head, and its process is that of its call.
LEMMA RunningHead ==
    ASSUME TypeInv, JobInv, NEW p \in Processes, NEW i \in DOMAIN worker[p], worker[p][i].on
    PROVE  /\ i = 1 /\ 1 \in 1..Len(worker[p]) /\ worker[p] \in Seq(JobRecord)
           /\ worker[p][i] \in JobRecord /\ worker[p][i].call \in Calls
           /\ JobFits(call, p, worker[p][i])
<1>1. worker[p] \in Seq(JobRecord) /\ i \in 1..Len(worker[p])
  BY DEF TypeInv
<1>2. worker[p][i] \in JobRecord
  BY <1>1
<1>3. i = 1 /\ JobFits(call, p, worker[p][i])
  BY <1>1 DEF JobInv
<1>4. QED
  BY <1>1, <1>2, <1>3 DEF JobRecord

\* The job that runs leaves, whatever becomes of its call; all that stay still wait.
LEMMA JobsLeft ==
    ASSUME TypeInv, JobInv, NEW p \in Processes, NEW i \in DOMAIN worker[p], worker[p][i].on,
           JobLeaves(p, i), Alone(worker[p][i].call)
    PROVE  /\ worker' \in [Processes -> Seq(JobRecord)] /\ JobInv' /\ JobsRemain
           /\ \A k \in 1..Len(worker'[p]) : ~worker'[p][k].on
           /\ \A q \in Processes : q # p => worker'[q] = worker[q]
<1> DEFINE w == worker[p]
           c == w[i].call
<1>1. i = 1 /\ 1 \in 1..Len(w) /\ w \in Seq(JobRecord) /\ c \in Calls /\ JobFits(call, p, w[i])
  BY RunningHead
<1>2. /\ worker' = [worker EXCEPT ![p] = RemoveAt(w, 1)] /\ worker \in [Processes -> Seq(JobRecord)]
      /\ worker'[p] = RemoveAt(w, 1) /\ \A q \in Processes : q # p => worker'[q] = worker[q]
  BY <1>1 DEF JobLeaves, TypeInv
<1>3. /\ \A k, m \in 1..Len(w) : w[k].call = w[m].call => k = m
      /\ \A k \in 1..Len(w) : JobFits(call, p, w[k]) /\ (w[k].on => k = 1)
  BY DEF JobInv
<1>4. Alone(c) /\ w[1].call = c
  BY <1>1
<1> HIDE DEF w, c
<1> DEFINE r == RemoveAt(w, 1)
<1>5. r \in Seq(JobRecord) /\ Len(w) \in Nat
  BY <1>1, RemoveAtPlaces
<1>6. /\ \A k \in 1..Len(r) : \E j \in 1..Len(w) : j >= k /\ j # 1 /\ r[k] = w[j]
      /\ \A k, m \in 1..Len(r) : k # m =>
            \E j, n \in 1..Len(w) : j # n /\ r[k] = w[j] /\ r[m] = w[n]
  <2>1. /\ \A k \in 1..Len(RemoveAt(w, 1)) :
              \E j \in 1..Len(w) : j >= k /\ j # 1 /\ RemoveAt(w, 1)[k] = w[j]
        /\ \A k, m \in 1..Len(RemoveAt(w, 1)) : k # m =>
              \E j, n \in 1..Len(w) : j # n /\ RemoveAt(w, 1)[k] = w[j] /\ RemoveAt(w, 1)[m] = w[n]
    <3>1. w \in Seq(JobRecord) /\ 1 \in 1..Len(w)
      BY <1>1
    <3> HIDE DEF r
    <3>2. QED
      BY ONLY <3>1, RemoveAtElements, Zenon
  <2>2. QED
    BY ONLY <2>1 DEF r
<1>7. worker'[p] = r
  BY <1>2
<1> HIDE DEF r
<1>8. worker' \in [Processes -> Seq(JobRecord)]
  BY <1>2, <1>5, <1>7
<1>9. \A k \in 1..Len(r) : ~r[k].on
  BY <1>3, <1>6
<1>10. JobsRemain
  <2>1. ASSUME NEW q \in Processes, NEW k \in 1..Len(worker'[q])
        PROVE  \E j \in 1..Len(worker[q]) : j >= k /\ worker'[q][k] = worker[q][j]
    <3>1. CASE q = p
      <4>1. k \in 1..Len(r) /\ worker'[q][k] = r[k]
        BY <1>7, <2>1, <3>1
      <4>2. PICK j \in 1..Len(w) : j >= k /\ r[k] = w[j]
        BY <1>6, <4>1
      <4>3. QED
        BY <3>1, <4>1, <4>2 DEF w
    <3>2. CASE q # p
      <4>1. worker'[q] = worker[q]
        BY <1>2, <3>2
      <4>2. k >= k /\ k \in 1..Len(worker[q])
        BY <2>1, <4>1
      <4>3. QED
        BY <4>1, <4>2
    <3>3. QED
      BY <3>1, <3>2
  <2>2. QED
    BY <2>1 DEF JobsRemain
<1>11. ASSUME NEW q \in Processes, NEW k \in 1..Len(worker'[q])
       PROVE  JobFits(call', q, worker'[q][k]) /\ (worker'[q][k].on => k = 1)
  <2>1. PICK j \in 1..Len(worker[q]) :
            worker'[q][k] = worker[q][j] /\ worker[q][j].call # c /\ (worker'[q][k].on => k = 1)
    <3>1. CASE q = p
      <4>1. k \in 1..Len(r) /\ worker'[q][k] = r[k]
        BY <1>7, <1>11, <3>1
      <4>2. PICK j \in 1..Len(w) : j # 1 /\ r[k] = w[j]
        BY <1>6, <4>1
      <4>3. w[j].call # c
        BY <1>1, <1>3, <1>4, <4>2
      <4>4. QED
        BY <1>9, <3>1, <4>1, <4>2, <4>3 DEF w
    <3>2. CASE q # p
      <4>1. worker'[q] = worker[q] /\ k \in 1..Len(worker[q])
        BY <1>2, <1>11, <3>2
      <4>2. JobFits(call, q, worker[q][k]) /\ (worker[q][k].on => k = 1)
        BY <4>1 DEF JobInv
      <4>3. worker[q][k].call # c
        BY <1>1, <1>4, <3>2, <4>2 DEF JobFits
      <4>4. QED
        BY <4>1, <4>2, <4>3
    <3>3. QED
      BY <3>1, <3>2
  <2>2. worker[q][j] \in JobRecord /\ JobFits(call, q, worker[q][j])
    BY DEF TypeInv, JobInv
  <2>3. call'[worker[q][j].call] = call[worker[q][j].call]
    BY <1>4, <2>1, <2>2 DEF Alone, JobRecord
  <2>4. QED
    BY <2>1, <2>2, <2>3 DEF JobFits
<1>12. ASSUME NEW q \in Processes, NEW k \in 1..Len(worker'[q]), NEW m \in 1..Len(worker'[q]),
              worker'[q][k].call = worker'[q][m].call
       PROVE  k = m
  <2>1. CASE q = p
    <3>1. k \in 1..Len(r) /\ m \in 1..Len(r) /\ r[k].call = r[m].call
      BY <1>7, <1>12, <2>1
    <3>2. SUFFICES ASSUME k # m PROVE FALSE
      OBVIOUS
    <3>3. PICK j \in 1..Len(w) : \E n \in 1..Len(w) : j # n /\ r[k] = w[j] /\ r[m] = w[n]
      BY <1>6, <3>1, <3>2
    <3>4. QED
      BY <1>3, <3>1, <3>3
  <2>2. CASE q # p
    BY <1>2, <1>12, <2>2 DEF JobInv
  <2>3. QED
    BY <2>1, <2>2
<1>13. QED
  BY <1>2, <1>7, <1>8, <1>9, <1>10, <1>11, <1>12 DEF JobInv

\* A call without a job may change.
LEMMA JobsKept ==
    ASSUME TypeInv, JobInv, NEW c \in Calls, Alone(c), worker' = worker,
           call[c].at \notin {"worker", "cancelled"}
    PROVE  JobInv' /\ JobsRemain
<1>1. ASSUME NEW p \in Processes, NEW i \in 1..Len(worker[p])
      PROVE  JobFits(call', p, worker[p][i])
  <2>1. worker[p][i] \in JobRecord /\ JobFits(call, p, worker[p][i])
    BY DEF TypeInv, JobInv
  <2>2. worker[p][i].call # c /\ worker[p][i].call \in Calls
    BY <2>1 DEF JobFits, JobRecord
  <2>3. QED
    BY <2>1, <2>2 DEF Alone, JobFits
<1>2. \A p \in Processes : \A i \in 1..Len(worker[p]) : i >= i
  OBVIOUS
<1>3. QED
  BY <1>1, <1>2 DEF JobInv, JobsRemain

\* The head of a queue starts, or goes on to another phase of its kind.
LEMMA HeadGoesOn ==
    ASSUME TypeInv, JobInv, NEW p \in Processes, 1 \in DOMAIN worker[p],
           NEW j, call' = call, worker' = [worker EXCEPT ![p] = [@ EXCEPT ![1] = j]],
           j \in JobRecord, j.call = worker[p][1].call, j.on,
           j.phase \in PhasesOf(call[j.call].kind)
    PROVE  /\ worker' \in [Processes -> Seq(JobRecord)] /\ JobInv'
           /\ worker'[p] = [worker[p] EXCEPT ![1] = j]
           /\ \A q \in Processes : q # p => worker'[q] = worker[q]
<1>1. 1 \in 1..Len(worker[p]) /\ worker[p] \in Seq(JobRecord) /\ JobFits(call, p, worker[p][1])
  BY DEF TypeInv, JobInv
<1> DEFINE w == worker[p]
           r == [w EXCEPT ![1] = j]
<1>2. w \in Seq(JobRecord) /\ 1 \in 1..Len(w)
  BY <1>1
<1>3. /\ worker'[p] = r /\ \A q \in Processes : q # p => worker'[q] = worker[q]
      /\ worker \in [Processes -> Seq(JobRecord)] /\ worker' = [worker EXCEPT ![p] = r]
  BY <1>1 DEF TypeInv
<1>4. r \in Seq(JobRecord) /\ Len(r) = Len(w) /\ r[1] = j /\ \A k \in 1..Len(w) : k # 1 => r[k] = w[k]
  BY <1>2
<1>5. JobFits(call', p, j)
  BY <1>1 DEF JobFits
<1>6. \A k \in 1..Len(w) : r[k].call = w[k].call
  BY <1>1, <1>4
<1>7. \A k \in 1..Len(r) : JobFits(call', p, r[k]) /\ (r[k].on => k = 1)
  <2>1. SUFFICES ASSUME NEW k \in 1..Len(r) PROVE JobFits(call', p, r[k]) /\ (r[k].on => k = 1)
    OBVIOUS
  <2>2. CASE k = 1
    BY <1>4, <1>5, <2>2
  <2>3. CASE k # 1
    <3>1. r[k] = w[k] /\ JobFits(call, p, w[k]) /\ (w[k].on => k = 1)
      BY <1>4, <2>1, <2>3 DEF JobInv
    <3>2. QED
      BY <3>1 DEF JobFits
  <2>4. QED
    BY <2>2, <2>3
<1>8. \A k, m \in 1..Len(r) : r[k].call = r[m].call => k = m
  BY <1>4, <1>6 DEF JobInv
<1>9. worker' \in [Processes -> Seq(JobRecord)]
  BY <1>3, <1>4
<1>10. \A q \in Processes : q # p => \A k \in 1..Len(worker[q]) : JobFits(call', q, worker[q][k])
  BY DEF JobInv, JobFits
<1> HIDE DEF r, w
<1>11. QED
  BY <1>3, <1>7, <1>8, <1>9, <1>10 DEF JobInv, r, w

-----------------------------------------------------------------------------
(* What is saved, what is about to be, and what the calls have seen of it. *)

\* Steps that save nothing and begin no save: rows may go, saves may start, and a
\* call may end or give up.
LEMMA QuietSaves ==
    ASSUME TypeInv, SaveInv, SeenInv, NoDoubleSave, rows' \subseteq rows,
           submitted' \subseteq submitted, Pending' \subseteq Pending, submitted' \cap saving' = {},
           \A d \in Calls : call[d].at \in {"saving"} \cup Over =>
                /\ call'[d].kind = call[d].kind /\ call'[d].at \in {"saving"} \cup Over
                /\ call[d].at = "cancelled" => call'[d].at = "cancelled",
           \A d \in Calls : call'[d].at = "saving" => call'[d] = call[d],
           \A r \in Pending' : call'[r.by] = call[r.by]
                \/ (r \in saving' /\ call'[r.by].at = "cancelled")
    PROVE  SaveInv' /\ SeenInv' /\ NoDoubleSave'
<1>1. /\ \A r \in rows : r.by # Agent => r.by \in Calls /\ call[r.by].at \in {"saving"} \cup Over
      /\ \A r \in Pending : r.by \in Calls /\ call[r.by].at \in {"saving"} \cup Over
  BY DEF SaveInv, SaveFits, TypeInv, Row, Over
<1>2. \A r \in rows \cup Pending : r.by # Agent =>
          /\ call'[r.by].kind = call[r.by].kind /\ call'[r.by].at \in {"saving"} \cup Over
          /\ call[r.by].at = "cancelled" => call'[r.by].at = "cancelled"
  BY <1>1
<1>3. \A r \in rows \cup Pending : \A l \in Locks : Kept(r, l)' => Kept(r, l)
  BY <1>2 DEF Kept
<1>4. ASSUME NEW r \in Pending'
      PROVE  SaveFits(r)'
  <2>1. r \in Pending /\ SaveFits(r)
    BY DEF SaveInv
  <2>2. r \in saving => r \in saving'
    BY DEF SaveInv, Pending
  <2>3. CASE call'[r.by] = call[r.by]
    BY <2>1, <2>2, <2>3 DEF SaveFits
  <2>4. CASE r \in saving' /\ call'[r.by].at = "cancelled"
    BY <2>1, <2>4 DEF SaveFits
  <2>5. QED
    BY <2>3, <2>4
<1>5. SaveInv'
  <2>1. \A r, s \in Pending' : r.by = s.by => r = s
    BY DEF SaveInv
  <2>2. \A r \in rows' : r.by # Agent => r.key # Malformed /\ call'[r.by].at \in {"saving"} \cup Over
    BY <1>2 DEF SaveInv
  <2>3. \A c \in Calls : call'[c].at = "saving" =>
            /\ call'[c].kind \in Imports
            /\ call'[c].next \in 1..Len(call'[c].items)
            /\ \A i \in 1..call'[c].next : call'[c].items[i] \in call'[c].seen \cup {Malformed}
    BY DEF SaveInv
  <2>4. QED
    BY <1>4, <2>1, <2>2, <2>3 DEF SaveInv
<1>6. SeenInv'
  <2>1. ASSUME NEW c \in Calls, call'[c].at = "saving", NEW l \in LockOf(call'[c].kind),
               NEW r \in rows', Kept(r, l)'
        PROVE  r.key \in call'[c].seen
    <3>1. call'[c] = call[c] /\ l \in Locks
      BY <2>1 DEF LockOf, Locks
    <3>2. Kept(r, l)
      BY <1>3, <2>1, <3>1
    <3>3. QED
      BY <2>1, <3>1, <3>2 DEF SeenInv
  <2>2. ASSUME NEW q \in Pending', NEW s \in rows', NEW l \in Locks, q.key = s.key, Kept(q, l)'
        PROVE  ~Kept(s, l)'
    BY <1>3, <2>2 DEF SeenInv
  <2>3. QED
    BY <2>1, <2>2 DEF SeenInv
<1>7. NoDoubleSave'
  <2>1. SUFFICES ASSUME NEW r \in rows', NEW s \in rows', r # s, r.key = s.key,
                        Guards(r)' \cap Guards(s)' # {}
                 PROVE  call'[r.by].at = "cancelled" \/ call'[s.by].at = "cancelled"
    BY DEF NoDoubleSave
  <2>2. r.by # Agent /\ s.by # Agent
    BY <2>1 DEF Guards
  <2>3. Guards(r) = Guards(r)' /\ Guards(s) = Guards(s)'
    BY <1>2, <2>2 DEF Guards
  <2>4. call[r.by].at = "cancelled" \/ call[s.by].at = "cancelled"
    BY <2>1, <2>3 DEF NoDoubleSave
  <2>5. QED
    BY <1>2, <2>2, <2>4
<1>8. QED
  BY <1>5, <1>6, <1>7

\* A save lands behind its call, which was cancelled.
LEMMA LateLanding ==
    ASSUME TypeInv, SaveInv, SeenInv, NoDoubleSave, NEW r \in saving, call' = call,
           saving' = saving \ {r}, rows' = rows \cup {r}, submitted' = submitted,
           call[r.by].at # "saving"
    PROVE  SaveInv' /\ SeenInv' /\ NoDoubleSave'
<1>1. r \in Pending /\ r.by \in Calls /\ call[r.by].at = "cancelled" /\ r.key # Malformed
  BY DEF SaveInv, SaveFits, Pending
<1>2. \A l \in Locks : ~Kept(r, l)
  BY <1>1 DEF Kept
<1>3. \A s \in Row : \A l \in Locks : Kept(s, l)' <=> Kept(s, l)
  BY DEF Kept
<1>4. Pending' \subseteq Pending /\ rows \subseteq Row /\ Pending \subseteq Row
  BY DEF Pending, TypeInv
<1>5. SaveInv'
  <2>1. \A s \in Pending' : SaveFits(s)'
    <3>1. \A s \in Pending' : s \in saving => s \in saving'
      BY DEF Pending, SaveInv
    <3>2. QED
      BY <1>4, <3>1 DEF SaveInv, SaveFits
  <2>2. \A s \in rows' : s.by # Agent => s.key # Malformed /\ call'[s.by].at \in {"saving"} \cup Over
    BY <1>1 DEF SaveInv, Over
  <2>3. QED
    BY <1>4, <2>1, <2>2 DEF SaveInv
<1>6. SeenInv'
  <2>1. ASSUME NEW c \in Calls, call'[c].at = "saving", NEW l \in LockOf(call'[c].kind),
               NEW s \in rows', Kept(s, l)'
        PROVE  s.key \in call'[c].seen
    <3>1. l \in Locks
      BY DEF LockOf, Locks
    <3>2. s \in rows /\ Kept(s, l)
      BY <1>2, <2>1, <3>1 DEF Kept
    <3>3. QED
      BY <2>1, <3>2 DEF SeenInv
  <2>2. ASSUME NEW q \in Pending', NEW s \in rows', NEW l \in Locks, q.key = s.key, Kept(q, l)'
        PROVE  ~Kept(s, l)'
    BY <1>2, <1>4, <2>2 DEF SeenInv, Kept
  <2>3. QED
    BY <2>1, <2>2 DEF SeenInv
<1>7. NoDoubleSave'
  BY <1>1 DEF NoDoubleSave, Guards
<1>8. QED
  BY <1>5, <1>6, <1>7

\* import_bundle comes to its report, or to the next item to save.
Reports(c, state) ==
    /\ call' = [call EXCEPT ![c] = [state EXCEPT !.at = Verdict(state)]]
    /\ lock' = LockFreed(c)
    /\ submitted' = submitted

GoesOn(c, state, n) ==
    /\ call' = [call EXCEPT ![c] = [state EXCEPT !.at = "saving", !.next = n,
                                                 !.seen = @ \cup {state.items[n]}]]
    /\ submitted' = submitted \cup {[key |-> state.items[n], by |-> c, at |-> n]}
    /\ lock' = lock

\* The items before the i-th, as far as they are well-formed, have been seen.
Passed(state, i) ==
    \A j \in 1..Len(state.items) : j < i => state.items[j] \in state.seen \cup {Malformed}

LEMMA AdvanceCases ==
    ASSUME NEW c \in Calls, NEW state \in CallRecord, NEW i \in Nat \ {0},
           Advance(c, state, i), Passed(state, i)
    PROVE  \/ /\ Reports(c, state)
              /\ state.kind # "rehearse" => Passed(state, Len(state.items) + 1)
           \/ \E n \in 1..Len(state.items) :
                /\ GoesOn(c, state, n) /\ state.kind # "rehearse" /\ Passed(state, n)
                /\ state.items[n] \notin state.seen \cup {Malformed}
<1> DEFINE items == state.items
           old == state.seen \cup {Malformed}
           U == {j \in i..Len(items) : items[j] \notin old}
           n == Unseen(items, state.seen, i)
<1>1. items \in Seq(Items) /\ Len(items) \in Nat
  BY DEF CallRecord
<1>2. CASE U = {}
  <2>1. n = 0
    BY <1>2 DEF Unseen
  <2>2. Reports(c, state)
    BY <2>1 DEF Advance, Reports
  <2>3. \A j \in 1..Len(items) : j >= i => items[j] \in old
    BY <1>1, <1>2
  <2>4. Passed(state, Len(items) + 1)
    BY <1>1, <2>3 DEF Passed
  <2>5. QED
    BY <2>2, <2>4
<1>3. CASE U # {}
  <2>1. U \subseteq Nat
    BY <1>1
  <2>2. Min(U) \in U /\ \A j \in U : Min(U) <= j
    BY <1>3, <2>1, MinIsLeast
  <2>3. n = Min(U)
    BY <1>3 DEF Unseen
  <2> HIDE DEF n
  <2>4. n \in i..Len(items) /\ items[n] \notin old /\ n # 0
    <3>1. n \in U
      BY <2>2, <2>3
    <3>2. QED
      BY <1>1, <3>1
  <2>5. \A j \in i..Len(items) : j < n => items[j] \in old
    BY <1>1, <2>2, <2>3, <2>4
  <2>6. Passed(state, n)
    BY <1>1, <2>4, <2>5 DEF Passed
  <2>7. n \in 1..Len(items)
    BY <1>1, <2>4
  <2>8. CASE state.kind = "rehearse"
    BY <2>8 DEF Advance, Reports, n
  <2>9. CASE state.kind # "rehearse"
    <3>1. GoesOn(c, state, n)
      BY <2>4, <2>9 DEF Advance, GoesOn, n
    <3>2. QED
      BY <2>4, <2>6, <2>7, <2>9, <3>1
  <2>10. QED
    BY <2>8, <2>9
<1>4. QED
  BY <1>2, <1>3

\* The call goes on from its baseline, or from a save that landed (R) or raised.
LEMMA AdvanceSaves ==
    ASSUME TypeInv, LineInv, SaveInv, SeenInv, NoDoubleSave,
           NEW c \in Calls, call[c].at \in {"worker", "saving"}, Alone(c),
           NEW state \in CallRecord, state.kind = call[c].kind, state.kind \in Imports,
           NEW R \in SUBSET Row, rows' = rows \cup R, \A r, s \in R : r = s,
           \A r \in R : /\ r.by = c /\ r.key \in state.seen \ {Malformed}
                        /\ \A s \in rows : \A l \in Locks : r.key = s.key /\ Kept(r, l) => ~Kept(s, l),
           saving' \subseteq saving, \A r \in submitted \cup saving' : r.by # c,
           \A l \in LockOf(state.kind) : \A r \in rows : Kept(r, l) => r.key \in state.seen,
           \/ Reports(c, state)
           \/ \E n \in 1..Len(state.items) :
                /\ GoesOn(c, state, n) /\ Passed(state, n)
                /\ state.items[n] \notin state.seen \cup {Malformed}
    PROVE  SaveInv' /\ SeenInv' /\ NoDoubleSave'
<1>1. \A d \in Calls : d # c => call'[d] = call[d]
  BY DEF Alone
<1>2. call \in [Calls -> CallRecord]
  BY DEF TypeInv
<1> DEFINE q(n) == [key |-> state.items[n], by |-> c, at |-> n]
<1>3. /\ call'[c].kind = call[c].kind /\ call'[c].at \in {"saving", "ok", "failed"}
      /\ submitted' # submitted => call'[c].at = "saving"
      /\ call'[c].at = "saving" => \E n \in 1..Len(state.items) :
            /\ state.items[n] \notin state.seen \cup {Malformed}
            /\ Passed(state, n) /\ call'[c].items = state.items /\ call'[c].next = n
            /\ call'[c].seen = state.seen \cup {state.items[n]}
            /\ submitted' = submitted \cup {q(n)}
  <2>1. CASE Reports(c, state)
    <3>1. call'[c].kind = call[c].kind /\ call'[c].at = Verdict(state) /\ submitted' = submitted
      BY <1>2, <2>1 DEF Reports, CallRecord
    <3>2. Verdict(state) \in {"ok", "failed"}
      BY DEF Verdict
    <3>3. QED
      BY <3>1, <3>2
  <2>2. ASSUME NEW n \in 1..Len(state.items), GoesOn(c, state, n), Passed(state, n),
               state.items[n] \notin state.seen \cup {Malformed}
        PROVE  /\ call'[c].kind = call[c].kind /\ call'[c].at = "saving"
               /\ call'[c].items = state.items /\ call'[c].next = n
               /\ call'[c].seen = state.seen \cup {state.items[n]}
               /\ submitted' = submitted \cup {q(n)}
    BY <1>2, <2>2 DEF GoesOn, CallRecord
  <2>3. QED
    BY <2>1, <2>2
<1>4. \A r : \A l \in Locks : r.by \in Calls \cup {Agent} => (Kept(r, l)' <=> Kept(r, l))
  BY <1>1, <1>3 DEF Kept
<1>5. \A r \in submitted \cup saving \cup rows \cup R : r.by \in Calls \cup {Agent}
  BY DEF TypeInv, Row
<1>6. \A r \in submitted \cup saving' : r \in Pending /\ r.by \in Calls /\ call'[r.by] = call[r.by] /\ SaveFits(r)
  BY <1>1 DEF SaveInv, SaveFits, Pending
<1>7. \A l \in LockOf(call[c].kind) : l \in Locks
  BY DEF LockOf, Locks
<1>8. \A r \in Pending' : r \in submitted \cup saving' \/ (call'[c].at = "saving" /\
            \E n \in 1..Len(state.items) : r = q(n) /\ submitted' = submitted \cup {r})
  BY <1>3 DEF Pending
<1>9. SaveInv'
  <2>1. ASSUME NEW r \in Pending'
        PROVE  SaveFits(r)'
    <3>1. CASE r \in submitted \cup saving'
      <4>1. r \in saving => r \in saving'
        BY <3>1 DEF SaveInv
      <4>2. QED
        BY <1>6, <3>1, <4>1 DEF SaveFits
    <3>2. CASE r \notin submitted \cup saving'
      <4>1. PICK n \in 1..Len(state.items) :
                /\ state.items[n] # Malformed /\ call'[c].items = state.items /\ call'[c].next = n
                /\ submitted' = submitted \cup {q(n)} /\ call'[c].at = "saving"
        BY <1>3, <1>8, <3>2
      <4>2. r = q(n)
        BY <3>2, <4>1 DEF Pending
      <4>3. r.by = c /\ r.at = n /\ r.key = state.items[n]
        BY <4>2
      <4>4. QED
        BY <4>1, <4>3 DEF SaveFits
    <3>3. QED
      BY <3>1, <3>2
  <2>2. \A r \in Pending' : r \notin submitted \cup saving' => r.by = c
    BY <1>8
  <2>3. \A r, s \in Pending' : r.by = s.by => r = s
    <3>1. SUFFICES ASSUME NEW r \in Pending', NEW s \in Pending', r.by = s.by PROVE r = s
      OBVIOUS
    <3>2. CASE r \in submitted \cup saving'
      <4>1. s \in submitted \cup saving'
        BY <2>2, <3>1, <3>2
      <4>2. QED
        BY <1>6, <3>1, <3>2, <4>1 DEF SaveInv
    <3>3. CASE r \notin submitted \cup saving'
      <4>1. s \notin submitted \cup saving'
        BY <2>2, <3>1, <3>3
      <4>2. submitted' = submitted \cup {r} /\ submitted' = submitted \cup {s}
        BY <1>8, <3>3, <4>1
      <4>3. QED
        BY <3>3, <4>1, <4>2
    <3>4. QED
      BY <3>2, <3>3
  <2>4. submitted' \cap saving' = {}
    <3>1. submitted \cap saving' = {}
      BY DEF SaveInv
    <3>2. \A r \in submitted' : r \notin submitted => r.by = c
      BY <1>3
    <3>3. QED
      BY <3>1, <3>2
  <2>5. \A r \in rows' : r.by # Agent => r.key # Malformed /\ call'[r.by].at \in {"saving"} \cup Over
    <3>1. SUFFICES ASSUME NEW r \in rows', r.by # Agent
                   PROVE  r.key # Malformed /\ call'[r.by].at \in {"saving"} \cup Over
      OBVIOUS
    <3>2. CASE r.by = c
      BY <1>3, <3>1, <3>2 DEF SaveInv, Over
    <3>3. CASE r.by # c
      BY <1>1, <1>5, <3>1, <3>3 DEF SaveInv
    <3>4. QED
      BY <3>2, <3>3
  <2>6. ASSUME NEW d \in Calls, call'[d].at = "saving"
        PROVE  /\ call'[d].kind \in Imports
               /\ call'[d].next \in 1..Len(call'[d].items)
               /\ \A i \in 1..call'[d].next : call'[d].items[i] \in call'[d].seen \cup {Malformed}
    <3>1. CASE d # c
      BY <1>1, <2>6, <3>1 DEF SaveInv
    <3>2. CASE d = c
      <4>1. PICK n \in 1..Len(state.items) :
                /\ Passed(state, n) /\ call'[c].items = state.items /\ call'[c].next = n
                /\ call'[c].seen = state.seen \cup {state.items[n]}
        BY <1>3, <2>6, <3>2
      <4>2. Len(state.items) \in Nat
        BY DEF CallRecord
      <4>3. \A i \in 1..n : i # n => i \in 1..Len(state.items) /\ i < n
        BY <4>2
      <4>4. \A i \in 1..n : state.items[i] \in state.seen \cup {state.items[n]} \cup {Malformed}
        BY <4>1, <4>3 DEF Passed
      <4>5. QED
        BY <1>3, <3>2, <4>1, <4>4
    <3>3. QED
      BY <3>1, <3>2
  <2>7. QED
    BY <2>1, <2>3, <2>4, <2>5, <2>6 DEF SaveInv
<1>10. SeenInv'
  <2>1. ASSUME NEW d \in Calls, call'[d].at = "saving", NEW l \in LockOf(call'[d].kind),
               NEW r \in rows', Kept(r, l)'
        PROVE  r.key \in call'[d].seen
    <3>1. l \in Locks /\ r.by \in Calls \cup {Agent}
      BY <1>5 DEF LockOf, Locks
    <3>2. Kept(r, l)
      BY <1>4, <2>1, <3>1
    <3>3. CASE d = c
      <4>1. r.key \in state.seen
        BY <1>3, <2>1, <3>2, <3>3
      <4>2. QED
        BY <1>3, <2>1, <3>3, <4>1
    <3>4. CASE d # c
      <4>1. call'[d] = call[d]
        BY <1>1, <3>4
      <4>2. r \notin R
        <5>1. SUFFICES ASSUME r \in R PROVE FALSE
          OBVIOUS
        <5>2. l \in LockOf(call[c].kind)
          BY <3>2, <5>1 DEF Kept
        <5>3. QED
          BY <2>1, <3>1, <3>4, <4>1, <5>2, Exclusion
      <4>3. QED
        BY <2>1, <3>2, <4>1, <4>2 DEF SeenInv
    <3>5. QED
      BY <3>3, <3>4
  <2>2. ASSUME NEW p \in Pending', NEW s \in rows', NEW l \in Locks, p.key = s.key,
               Kept(p, l)', Kept(s, l)'
        PROVE  FALSE
    <3>1. Kept(s, l)
      BY <1>4, <1>5, <2>2
    <3>2. CASE p \in submitted \cup saving'
      <4>1. Kept(p, l) /\ p.by # c /\ p.by \in Calls /\ p \in Pending /\ SaveFits(p)
        BY <1>4, <1>6, <2>2, <3>2
      <4>2. call[p.by].at = "saving" /\ l \in LockOf(call[p.by].kind)
        BY <4>1 DEF Kept, SaveFits
      <4>3. s \notin R
        <5>1. SUFFICES ASSUME s \in R PROVE FALSE
          OBVIOUS
        <5>2. l \in LockOf(call[c].kind)
          BY <3>1, <5>1 DEF Kept
        <5>3. QED
          BY <4>1, <4>2, <5>2, Exclusion
      <4>4. QED
        BY <2>2, <3>1, <4>1, <4>3 DEF SeenInv
    <3>3. CASE p \notin submitted \cup saving'
      <4>1. PICK n \in 1..Len(state.items) :
                /\ state.items[n] \notin state.seen \cup {Malformed}
                /\ submitted' = submitted \cup {q(n)}
        BY <1>3, <1>8, <3>3
      <4>2. p = q(n)
        BY <3>3, <4>1 DEF Pending
      <4>3. p.by = c /\ p.key = state.items[n]
        BY <4>2
      <4>4. l \in LockOf(state.kind)
        BY <1>3, <2>2, <4>3 DEF Kept
      <4>5. s.key \in state.seen
        BY <3>1, <4>4
      <4>6. QED
        BY <2>2, <4>1, <4>3, <4>5
    <3>4. QED
      BY <3>2, <3>3
  <2>3. QED
    BY <2>1, <2>2 DEF SeenInv
<1>11. NoDoubleSave'
  <2>1. SUFFICES ASSUME NEW r \in rows', NEW s \in rows', r # s, r.key = s.key,
                        NEW l \in Guards(r)' \cap Guards(s)'
                 PROVE  call'[r.by].at = "cancelled" \/ call'[s.by].at = "cancelled"
    BY DEF NoDoubleSave
  <2>2. /\ r.by # Agent /\ s.by # Agent /\ r.by \in Calls /\ s.by \in Calls
        /\ l \in LockOf(call[r.by].kind) /\ l \in LockOf(call[s.by].kind) /\ l \in Locks
    <3>1. r.by # Agent /\ s.by # Agent
      BY DEF Guards
    <3>2. r.by \in Calls /\ s.by \in Calls
      BY <1>5, <3>1
    <3>3. l \in LockOf(call'[r.by].kind) /\ l \in LockOf(call'[s.by].kind)
      BY <3>1 DEF Guards
    <3>4. \A d \in Calls : call'[d].kind = call[d].kind
      BY <1>1, <1>3
    <3>5. QED
      BY <3>1, <3>2, <3>3, <3>4 DEF LockOf, Locks
  <2>3. \A d \in Calls : call[d].at = "cancelled" => call'[d].at = "cancelled"
    BY <1>1
  <2>4. CASE r \in rows /\ s \in rows
    <3>1. Guards(r) \cap Guards(s) # {}
      BY <2>2 DEF Guards
    <3>2. QED
      BY <2>1, <2>2, <2>3, <2>4, <3>1 DEF NoDoubleSave
  <2>5. ASSUME NEW x \in R, NEW y \in rows, x.key = y.key, y.by \in Calls, y.by # Agent,
               l \in LockOf(call[y.by].kind), l \in LockOf(call[x.by].kind)
        PROVE  call[y.by].at = "cancelled"
    <3>1. Kept(x, l)
      BY <2>5, AgentAssumption DEF Kept
    <3>2. ~Kept(y, l)
      BY <2>2, <2>5, <3>1
    <3>3. QED
      BY <2>5, <3>2 DEF Kept
  <2>6. QED
    BY <2>1, <2>2, <2>3, <2>4, <2>5
<1>12. QED
  BY <1>9, <1>10, <1>11

-----------------------------------------------------------------------------
(* What the additions rely on. *)

\* Steps that begin no save, and take no row while an addition saves.
LEMMA QuietAdd ==
    ASSUME AddInv, \A d \in Calls : call'[d].at = "saving" => call'[d] = call[d],
           NoReload /\ (\E d \in Calls : call[d].at = "saving" /\ call[d].kind = "add") =>
                rows \subseteq rows',
           \A d \in Calls : ~call'[d].errors => Malformed \notin ToSet(call'[d].items),
           \A d \in Calls : call[d].kind = "reload" => call'[d].kind = "reload",
           \A i \in 1..Len(worker'["server"]) : \E j \in 1..Len(worker["server"]) :
                /\ worker'["server"][i].call = worker["server"][j].call
                /\ call'[worker["server"][j].call].kind = call[worker["server"][j].call].kind
    PROVE  AddInv'
<1>1. NoReload' => NoReload
  BY DEF NoReload
<1>2. ASSUME NEW c \in Calls, call'[c].at = "saving", call'[c].kind = "add",
             NEW i \in 1..Len(worker'["server"])
      PROVE  call'[worker'["server"][i].call].kind \notin {"delete", "clear"}
  BY SMTT(30), <1>2 DEF AddInv
<1>3. ASSUME NoReload', NEW c \in Calls, call'[c].at = "saving", call'[c].kind = "add", ~call'[c].errors
      PROVE  call'[c].seen \subseteq KeysIn(rows') \cup {call'[c].items[call'[c].next]}
  <2>1. call'[c] = call[c] /\ rows \subseteq rows'
    BY <1>1, <1>3
  <2>2. KeysIn(rows) \subseteq KeysIn(rows')
    BY <2>1 DEF KeysIn
  <2>3. call[c].seen \subseteq KeysIn(rows) \cup {call[c].items[call[c].next]}
    BY <1>1, <1>3, <2>1 DEF AddInv
  <2>4. QED
    BY <2>1, <2>2, <2>3
<1>4. QED
  BY <1>2, <1>3 DEF AddInv

\* The addition goes on, or comes to its report.
LEMMA AdvanceAdd ==
    ASSUME TypeInv, AddInv, NEW c \in Calls, Alone(c),
           NEW state \in CallRecord, state.kind = call[c].kind, state.items = call[c].items,
           ~state.errors => Malformed \notin ToSet(state.items),
           rows \subseteq rows', JobsRemain,
           state.kind = "add" => \A i \in 1..Len(worker'["server"]) :
                call[worker'["server"][i].call].kind \notin {"delete", "clear"},
           NoReload /\ state.kind = "add" /\ ~state.errors => state.seen \subseteq KeysIn(rows'),
           Reports(c, state) \/ \E n \in 1..Len(state.items) : GoesOn(c, state, n)
    PROVE  AddInv'
<1>1. call \in [Calls -> CallRecord] /\ \A d \in Calls : d # c => call'[d] = call[d]
  BY DEF TypeInv, Alone
<1>2. /\ call'[c].kind = call[c].kind /\ call'[c].items = state.items /\ call'[c].errors = state.errors
      /\ call'[c].at = "saving" => \E n \in 1..Len(state.items) :
            call'[c].next = n /\ call'[c].seen = state.seen \cup {state.items[n]}
  <2>1. CASE Reports(c, state)
    <3>1. call'[c] = [state EXCEPT !.at = Verdict(state)] /\ Verdict(state) # "saving"
      BY <1>1, <2>1 DEF Reports, Verdict
    <3>2. QED
      BY <3>1 DEF CallRecord
  <2>2. ASSUME NEW n \in 1..Len(state.items), GoesOn(c, state, n)
        PROVE  /\ call'[c].kind = call[c].kind /\ call'[c].items = state.items
               /\ call'[c].errors = state.errors /\ call'[c].next = n
               /\ call'[c].seen = state.seen \cup {state.items[n]}
    BY <1>1, <2>2 DEF GoesOn, CallRecord
  <2>3. QED
    BY <2>1, <2>2
<1>3. NoReload' => NoReload
  BY <1>1, <1>2 DEF NoReload
<1>4. \A d \in Calls : call'[d].kind = call[d].kind
  BY <1>1, <1>2
<1>5. \A i \in 1..Len(worker'["server"]) : \E j \in 1..Len(worker["server"]) :
          /\ worker'["server"][i].call = worker["server"][j].call
          /\ worker["server"][j].call \in Calls
  <2>1. worker["server"] \in Seq(JobRecord)
    BY DEF TypeInv, Processes
  <2>2. SUFFICES ASSUME NEW i \in 1..Len(worker'["server"])
                 PROVE  \E j \in 1..Len(worker["server"]) :
                    /\ worker'["server"][i].call = worker["server"][j].call
                    /\ worker["server"][j].call \in Calls
    OBVIOUS
  <2>3. PICK j \in 1..Len(worker["server"]) : worker'["server"][i] = worker["server"][j]
    BY DEF JobsRemain, Processes
  <2>4. worker["server"][j] \in JobRecord
    BY <2>1
  <2>5. QED
    BY <2>3, <2>4 DEF JobRecord
<1>6. \A d \in Calls : ~call'[d].errors => Malformed \notin ToSet(call'[d].items)
  BY <1>1, <1>2 DEF AddInv
<1>7. ASSUME NEW d \in Calls, call'[d].at = "saving", call'[d].kind = "add",
             NEW i \in 1..Len(worker'["server"])
      PROVE  call'[worker'["server"][i].call].kind \notin {"delete", "clear"}
  <2>1. call'[worker'["server"][i].call].kind = call[worker'["server"][i].call].kind
    BY <1>4, <1>5
  <2>2. CASE d = c
    BY <1>4, <1>7, <2>1, <2>2
  <2>3. CASE d # c
    BY SMTT(30), <1>1, <1>5, <1>7, <2>1, <2>3 DEF AddInv
  <2>4. QED
    BY <2>2, <2>3
<1>8. ASSUME NoReload', NEW d \in Calls, call'[d].at = "saving", call'[d].kind = "add", ~call'[d].errors
      PROVE  call'[d].seen \subseteq KeysIn(rows') \cup {call'[d].items[call'[d].next]}
  <2>1. KeysIn(rows) \subseteq KeysIn(rows')
    BY DEF KeysIn
  <2>2. CASE d = c
    BY <1>2, <1>3, <1>8, <2>2
  <2>3. CASE d # c
    <3>1. call'[d] = call[d]
      BY <1>1, <2>3
    <3>2. call[d].seen \subseteq KeysIn(rows) \cup {call[d].items[call[d].next]}
      BY <1>3, <1>8, <3>1 DEF AddInv
    <3>3. QED
      BY <2>1, <3>1, <3>2
  <2>4. QED
    BY <2>2, <2>3
<1>9. QED
  BY <1>6, <1>7, <1>8 DEF AddInv

-----------------------------------------------------------------------------
(* One lemma per action. *)

\* A call is sent, or refused.
LEMMA SendKeeps ==
    ASSUME ImportsInv, NEW c \in Calls, Send(c)
    PROVE  ImportsInv'
<1>1. /\ call[c].at = "new" /\ call \in [Calls -> CallRecord]
      /\ UNCHANGED <<worker, submitted, saving, rows, skipped>>
  BY DEF Send, ImportsInv, TypeInv
<1>2. PICK kind \in Kinds : \E items \in Seq(Items) : \E to \in {"refused", "waiting"} :
        /\ call' = [call EXCEPT ![c] = [at |-> to, kind |-> kind, items |-> items, next |-> 0,
                                        seen |-> {}, errors |-> Malformed \in ToSet(items)]]
        /\ to = "refused" => lock' = lock
        /\ to = "waiting" => lock' = [l \in Locks |->
                IF l \in LockOf(kind) THEN Append(lock[l], c) ELSE lock[l]]
  <2>1. <<>> \in Seq(Items) /\ Batches \subseteq Seq(Items)
    BY BatchesAssumption DEF Items
  <2>2. QED
    BY <2>1 DEF Send
<1>3. PICK items \in Seq(Items) : \E to \in {"refused", "waiting"} :
        /\ call' = [call EXCEPT ![c] = [at |-> to, kind |-> kind, items |-> items, next |-> 0,
                                        seen |-> {}, errors |-> Malformed \in ToSet(items)]]
        /\ to = "refused" => lock' = lock
        /\ to = "waiting" => lock' = [l \in Locks |->
                IF l \in LockOf(kind) THEN Append(lock[l], c) ELSE lock[l]]
  BY <1>2
<1>4. PICK to \in {"refused", "waiting"} :
        /\ call' = [call EXCEPT ![c] = [at |-> to, kind |-> kind, items |-> items, next |-> 0,
                                        seen |-> {}, errors |-> Malformed \in ToSet(items)]]
        /\ to = "refused" => lock' = lock
        /\ to = "waiting" => lock' = [l \in Locks |->
                IF l \in LockOf(kind) THEN Append(lock[l], c) ELSE lock[l]]
  BY <1>3
<1> DEFINE new == [at |-> to, kind |-> kind, items |-> items, next |-> 0,
                   seen |-> {}, errors |-> Malformed \in ToSet(items)]
<1>5. /\ new \in CallRecord /\ new.at = to /\ new.kind = kind /\ new.items = items
      /\ new.errors = (Malformed \in ToSet(items))
  BY DEF CallRecord, Over, InHand
<1>6. /\ call' = [call EXCEPT ![c] = new] /\ call'[c] = new /\ Alone(c)
  BY <1>1, <1>4 DEF Alone
<1> HIDE DEF new
<1>7. /\ call' \in [Calls -> CallRecord] /\ call'[c].kind = kind /\ call'[c].at = to
      /\ call'[c].items = items /\ call'[c].errors = (Malformed \in ToSet(items))
      /\ \A d \in Calls : d # c => call'[d] = call[d]
  BY <1>1, <1>5, <1>6
<1>8. \A l \in Locks : lock[l] \in Seq(Calls) /\ \A i \in 1..Len(lock[l]) : lock[l][i] # c
  BY <1>1 DEF ImportsInv, TypeInv, LineInv, InHand
<1>9. LineInv' /\ lock' \in [Locks -> Seq(Calls)]
  <2>1. CASE to = "refused"
    <3>1. lock' = lock
      BY <1>4, <2>1
    <3>2. call'[c].at \notin InHand /\ call'[c].at \notin {"worker", "saving"}
      BY <1>7, <2>1 DEF InHand
    <3>3. \A l \in Locks : \A i \in 1..Len(lock[l]) : lock[l][i] \in Calls
      BY <1>8
    <3>4. \A l \in Locks : \A i \in 1..Len(lock[l]) :
                call'[lock[l][i]].at \in InHand /\ l \in LockOf(call'[lock[l][i]].kind)
      <4>1. \A l \in Locks : \A i \in 1..Len(lock[l]) : call'[lock[l][i]] = call[lock[l][i]]
        BY <1>7, <1>8, <3>3
      <4>2. QED
        BY <4>1 DEF ImportsInv, LineInv
    <3>5. \A d \in Calls : call'[d].at \in InHand => call'[d] = call[d]
      BY <1>7, <3>2
    <3>6. \A d \in Calls : call'[d].at \in {"worker", "saving"} => call'[d] = call[d]
      BY <1>7, <3>2
    <3>7. LineInv'
      BY <3>1, <3>4, <3>5, <3>6 DEF ImportsInv, LineInv
    <3>8. QED
      BY <3>1, <3>7 DEF ImportsInv, TypeInv
  <2>2. CASE to = "waiting"
    <3>1. \A l \in Locks : lock'[l] = IF l \in LockOf(kind) THEN Append(lock[l], c) ELSE lock[l]
      BY <1>4, <2>2
    <3>2. lock' \in [Locks -> Seq(Calls)]
      <4>1. \A l \in Locks : lock[l] \in Seq(Calls) /\ Append(lock[l], c) \in Seq(Calls)
        BY <1>8
      <4>2. lock' = [l \in Locks |-> IF l \in LockOf(kind) THEN Append(lock[l], c) ELSE lock[l]]
        BY <1>4, <2>2
      <4>3. QED
        BY <4>1, <4>2
    <3>3. ASSUME NEW l \in Locks, l \in LockOf(kind)
          PROVE  /\ \A i, j \in 1..Len(lock'[l]) : lock'[l][i] = lock'[l][j] => i = j
                 /\ \A i \in 1..Len(lock'[l]) : call'[lock'[l][i]].at \in InHand
                        /\ l \in LockOf(call'[lock'[l][i]].kind)
                 /\ \E i \in 1..Len(lock'[l]) : lock'[l][i] = c
                 /\ \A i \in 1..Len(lock[l]) : i \in 1..Len(lock'[l]) /\ lock'[l][i] = lock[l][i]
      <4> DEFINE w == lock[l]
                 r == lock'[l]
      <4>1. r = Append(w, c) /\ w \in Seq(Calls)
        <5>1. r = Append(w, c)
          BY <3>1, <3>3
        <5>2. w \in Seq(Calls)
          BY <1>8
        <5>3. QED
          BY <5>1, <5>2
      <4>2. /\ \A i, j \in 1..Len(w) : w[i] = w[j] => i = j
            /\ \A i \in 1..Len(w) : call[w[i]].at \in InHand /\ l \in LockOf(call[w[i]].kind) /\ w[i] # c
        BY <1>8 DEF ImportsInv, LineInv
      <4> HIDE DEF w, r
      <4>3. /\ Len(r) = Len(w) + 1 /\ r[Len(w) + 1] = c
            /\ \A i \in 1..Len(w) : i \in 1..Len(r) /\ r[i] = w[i]
            /\ \A i \in 1..Len(r) : i = Len(w) + 1 \/ i \in 1..Len(w)
        BY <4>1
      <4>4. \A i, j \in 1..Len(r) : r[i] = r[j] => i = j
        BY <4>2, <4>3
      <4>5. \A i \in 1..Len(w) : w[i] \in Calls
        BY <4>1
      <4>6. \A i \in 1..Len(r) : call'[r[i]].at \in InHand /\ l \in LockOf(call'[r[i]].kind)
        <5>1. call'[c].at \in InHand /\ l \in LockOf(call'[c].kind)
          BY <1>7, <2>2, <3>3 DEF InHand
        <5>2. QED
          BY <1>7, <4>2, <4>3, <4>5, <5>1
      <4>7. Len(w) + 1 \in 1..Len(r)
        BY <4>1, <4>3
      <4>8. QED
        BY <4>3, <4>4, <4>6, <4>7 DEF w, r
    <3>4. ASSUME NEW l \in Locks, l \notin LockOf(kind)
          PROVE  /\ \A i, j \in 1..Len(lock'[l]) : lock'[l][i] = lock'[l][j] => i = j
                 /\ \A i \in 1..Len(lock'[l]) : call'[lock'[l][i]].at \in InHand
                        /\ l \in LockOf(call'[lock'[l][i]].kind)
                 /\ \A i \in 1..Len(lock[l]) : i \in 1..Len(lock'[l]) /\ lock'[l][i] = lock[l][i]
      <4>1. lock'[l] = lock[l] /\ \A i \in 1..Len(lock[l]) : lock[l][i] \in Calls
        BY <1>8, <3>1, <3>4
      <4>2. QED
        BY <1>7, <1>8, <4>1 DEF ImportsInv, LineInv
    <3>5. \A l \in Locks : \A i \in 1..Len(lock[l]) : i \in 1..Len(lock'[l]) /\ lock'[l][i] = lock[l][i]
      BY <3>3, <3>4
    <3>6. ASSUME NEW d \in Calls, call'[d].at \in InHand, NEW l \in LockOf(call'[d].kind)
          PROVE  \E i \in 1..Len(lock'[l]) : lock'[l][i] = d
      <4>1. l \in Locks
        BY DEF LockOf, Locks
      <4>2. CASE d = c
        BY <1>7, <3>3, <3>6, <4>1, <4>2
      <4>3. CASE d # c
        <5>1. \E i \in 1..Len(lock[l]) : lock[l][i] = d
          BY <1>7, <3>6, <4>3 DEF ImportsInv, LineInv
        <5>2. QED
          BY <3>5, <4>1, <5>1
      <4>4. QED
        BY <4>2, <4>3
    <3>7. ASSUME NEW d \in Calls, call'[d].at \in {"worker", "saving"}, NEW l \in LockOf(call'[d].kind)
          PROVE  lock'[l][1] = d
      <4>1. l \in Locks /\ d # c
        BY <1>7, <2>2, <3>7 DEF LockOf, Locks
      <4>2. call'[d] = call[d] /\ call[d].at \in InHand
        BY <1>7, <3>7, <4>1 DEF InHand
      <4>3. lock[l][1] = d /\ \E i \in 1..Len(lock[l]) : lock[l][i] = d
        BY <3>7, <4>2 DEF ImportsInv, LineInv
      <4>4. 1 \in 1..Len(lock[l])
        BY <1>8, <4>1, <4>3
      <4>5. QED
        BY <3>5, <4>1, <4>3, <4>4
    <3>8. QED
      BY <3>2, <3>3, <3>4, <3>6, <3>7 DEF LineInv
  <2>3. QED
    BY <2>1, <2>2
<1>10. TypeInv'
  BY <1>1, <1>7, <1>9 DEF ImportsInv, TypeInv
<1>11. JobInv'
  BY <1>1, <1>6, JobsKept DEF ImportsInv
<1>12. SaveInv' /\ SeenInv' /\ NoDoubleSave'
  <2>1. \A d \in Calls : call[d].at \in {"saving"} \cup Over => d # c
    BY <1>1 DEF Over
  <2>2. \A d \in Calls : call'[d].at = "saving" => call'[d] = call[d]
    BY <1>7
  <2>3. \A r \in Pending : r.by \in Calls /\ call[r.by].at \in {"saving"} \cup Over
    BY DEF ImportsInv, SaveInv, SaveFits, Over
  <2>4. Pending' = Pending
    BY <1>1 DEF Pending
  <2>5. submitted' \cap saving' = {}
    BY <1>1 DEF ImportsInv, SaveInv
  <2>6. QED
    BY <1>1, <1>7, <2>1, <2>2, <2>3, <2>4, <2>5, QuietSaves DEF ImportsInv
<1>13. AddInv'
  <2>1. \A d \in Calls : call'[d].at = "saving" => call'[d] = call[d]
    BY <1>7
  <2>2. \A d \in Calls : ~call'[d].errors => Malformed \notin ToSet(call'[d].items)
    BY <1>7 DEF ImportsInv, AddInv
  <2>3. \A d \in Calls : call[d].kind = "reload" => call'[d].kind = "reload"
    BY <1>1, <1>7 DEF ImportsInv, TypeInv
  <2>4. ASSUME NEW i \in 1..Len(worker'["server"])
        PROVE  \E j \in 1..Len(worker["server"]) :
                /\ worker'["server"][i].call = worker["server"][j].call
                /\ call'[worker["server"][j].call].kind = call[worker["server"][j].call].kind
    <3>1. worker' = worker /\ worker["server"] \in Seq(JobRecord)
      BY <1>1 DEF ImportsInv, TypeInv, Processes
    <3>2. worker["server"][i] \in JobRecord /\ JobFits(call, "server", worker["server"][i])
      BY <2>4, <3>1 DEF ImportsInv, JobInv, Processes
    <3>3. call'[worker["server"][i].call] = call[worker["server"][i].call]
      BY <1>1, <1>7, <3>2 DEF JobFits, JobRecord
    <3>4. QED
      BY <2>4, <3>1, <3>3
  <2>5. QED
    BY <1>1, <2>1, <2>2, <2>3, <2>4, QuietAdd DEF ImportsInv
<1>14. ExportInv'
  BY <1>1 DEF ImportsInv, ExportInv
<1>15. QED
  BY <1>9, <1>10, <1>11, <1>12, <1>13, <1>14 DEF ImportsInv

\* A call whose turn it is joins the queue of the memory worker.
LEMMA SubmitKeeps ==
    ASSUME ImportsInv, NEW c \in Calls, Submit(c)
    PROVE  ImportsInv'
<1> DEFINE p == ProcessOf(call[c].kind)
           w == worker[p]
           j == Job(c)
<1>1. /\ call[c].at = "waiting" /\ HasLock(c) /\ call \in [Calls -> CallRecord]
      /\ call' = [call EXCEPT ![c].at = "worker"]
      /\ UNCHANGED <<lock, submitted, saving, rows, skipped>>
  BY DEF Submit, ImportsInv, TypeInv
<1>2. /\ call' \in [Calls -> CallRecord] /\ Alone(c) /\ call'[c].at = "worker"
      /\ call'[c].kind = call[c].kind /\ call'[c].items = call[c].items
      /\ call'[c].errors = call[c].errors
      /\ \A d \in Calls : d # c => call'[d] = call[d]
  BY <1>1 DEF CallRecord, InHand, Alone
<1>3. p \in Processes /\ call[c].kind \in Kinds
  BY <1>1 DEF ProcessOf, Processes, CallRecord
<1>4. /\ j \in JobRecord /\ j.call = c /\ ~j.on /\ j.phase = FirstPhase(call[c].kind)
      /\ j.phase \in PhasesOf(call[c].kind) /\ j.phase \notin {"json", "csv"}
  <2>1. FirstPhase(call[c].kind) \in {"ids", "read", "baseline"}
    BY <1>3 DEF FirstPhase
  <2>2. FirstPhase(call[c].kind) \in PhasesOf(call[c].kind)
    BY <1>3 DEF FirstPhase, PhasesOf, Kinds
  <2>3. QED
    BY <2>1, <2>2 DEF Job, JobRecord
<1>5. w \in Seq(JobRecord) /\ worker \in [Processes -> Seq(JobRecord)]
  BY <1>3 DEF ImportsInv, TypeInv
<1>6. worker' = [worker EXCEPT ![p] = Append(w, j)]
  BY DEF Submit
<1>7. /\ \A k \in 1..Len(w) : JobFits(call, p, w[k]) /\ (w[k].on => k = 1) /\ w[k] \in JobRecord
      /\ \A k, m \in 1..Len(w) : w[k].call = w[m].call => k = m
  BY <1>3, <1>5 DEF ImportsInv, JobInv
<1> HIDE DEF w, j, p
<1> DEFINE r == Append(w, j)
<1>8. /\ worker'[p] = r /\ \A q \in Processes : q # p => worker'[q] = worker[q]
      /\ worker' \in [Processes -> Seq(JobRecord)]
  BY <1>3, <1>4, <1>5, <1>6
<1>9. /\ Len(r) = Len(w) + 1 /\ r[Len(w) + 1] = j /\ \A k \in 1..Len(w) : r[k] = w[k]
      /\ \A k \in 1..Len(r) : k = Len(w) + 1 \/ k \in 1..Len(w)
  BY <1>5
<1> HIDE DEF r
<1>10. \A q \in Processes : \A k \in 1..Len(worker[q]) :
            worker[q][k].call \in Calls \ {c} /\ JobFits(call', q, worker[q][k])
  <2>1. SUFFICES ASSUME NEW q \in Processes, NEW k \in 1..Len(worker[q])
                 PROVE  worker[q][k].call \in Calls \ {c} /\ JobFits(call', q, worker[q][k])
    OBVIOUS
  <2>2. worker[q][k] \in JobRecord /\ JobFits(call, q, worker[q][k])
    BY <1>5 DEF ImportsInv, JobInv
  <2>3. worker[q][k].call \in Calls \ {c}
    BY <1>1, <2>2 DEF JobFits, JobRecord
  <2>4. QED
    BY <1>2, <2>2, <2>3 DEF JobFits
<1>11. \A k \in 1..Len(w) : w[k].call \in Calls \ {c} /\ JobFits(call', p, w[k])
  BY <1>3, <1>10 DEF w
<1>12. JobInv'
  <2>1. JobFits(call', p, j)
    BY <1>2, <1>4 DEF JobFits, p
  <2>2. \A k \in 1..Len(r) : JobFits(call', p, r[k]) /\ (r[k].on => k = 1)
    BY <1>4, <1>7, <1>9, <1>11, <2>1
  <2>3. \A k, m \in 1..Len(r) : r[k].call = r[m].call => k = m
    BY <1>4, <1>7, <1>9, <1>11
  <2>4. \A q \in Processes : q # p => \A k \in 1..Len(worker[q]) :
            JobFits(call', q, worker[q][k]) /\ (worker[q][k].on => k = 1)
    BY <1>10 DEF ImportsInv, JobInv
  <2>5. \A q \in Processes : \A k \in 1..Len(worker'[q]) :
            JobFits(call', q, worker'[q][k]) /\ (worker'[q][k].on => k = 1)
    BY <1>8, <2>2, <2>4
  <2>6. \A q \in Processes : \A k, m \in 1..Len(worker'[q]) :
            worker'[q][k].call = worker'[q][m].call => k = m
    BY <1>8, <2>3 DEF ImportsInv, JobInv
  <2>7. QED
    BY <2>5, <2>6 DEF JobInv
<1>13. \A l \in LockOf(call[c].kind) : lock[l][1] = c
  <2>1. SUFFICES ASSUME NEW l \in LockOf(call[c].kind) PROVE lock[l][1] = c
    OBVIOUS
  <2>2. l \in Locks /\ Head(lock[l]) = c
    BY <1>1 DEF LockOf, Locks, HasLock
  <2>3. lock[l] \in Seq(Calls)
    BY <2>2 DEF ImportsInv, TypeInv
  <2>4. \E i \in 1..Len(lock[l]) : lock[l][i] = c
    BY <1>1 DEF ImportsInv, LineInv, InHand
  <2>5. lock[l] # <<>>
    BY <2>3, <2>4
  <2>6. QED
    BY <2>2, <2>3, <2>5
<1>14. LineInv'
  BY <1>1, <1>2, <1>13, LineKept DEF ImportsInv, InHand
<1>15. TypeInv'
  BY <1>1, <1>2, <1>8 DEF ImportsInv, TypeInv
<1>16. SaveInv' /\ SeenInv' /\ NoDoubleSave'
  <2>1. \A d \in Calls : call[d].at \in {"saving"} \cup Over => d # c
    BY <1>1 DEF Over
  <2>2. \A d \in Calls : call'[d].at = "saving" => call'[d] = call[d]
    BY <1>2
  <2>3. \A r1 \in Pending : r1.by \in Calls /\ call[r1.by].at \in {"saving"} \cup Over
    BY DEF ImportsInv, SaveInv, SaveFits, Over
  <2>4. Pending' = Pending
    BY <1>1 DEF Pending
  <2>5. submitted' \cap saving' = {}
    BY <1>1 DEF ImportsInv, SaveInv
  <2>6. QED
    BY <1>1, <1>2, <2>1, <2>2, <2>3, <2>4, <2>5, QuietSaves DEF ImportsInv
<1>17. AddInv'
  <2>1. \A d \in Calls : call'[d].kind = call[d].kind /\ call'[d].errors = call[d].errors
            /\ call'[d].items = call[d].items
    BY <1>2
  <2>2. NoReload' => NoReload
    BY <2>1 DEF NoReload
  <2>3. \A d \in Calls : call'[d].at = "saving" => call'[d] = call[d] /\ d # c
    BY <1>2
  <2>4. ASSUME NEW d \in Calls, call'[d].at = "saving", call'[d].kind = "add",
               NEW i \in 1..Len(worker'["server"])
        PROVE  call'[worker'["server"][i].call].kind \notin {"delete", "clear"}
    <3>1. call[d].at = "saving" /\ call[d].kind = "add" /\ d # c
      BY <2>3, <2>4
    <3>2. CASE worker' ["server"][i].call = c
      <4>1. SUFFICES ASSUME call[c].kind \in {"delete", "clear"} PROVE FALSE
        BY <2>1, <3>2
      <4>2. "admin_write_lock" \in LockOf(call[c].kind) /\ "admin_write_lock" \in LockOf(call[d].kind)
        BY <3>1, <4>1 DEF LockOf
      <4>3. lock["admin_write_lock"][1] = c
        BY <1>13, <4>2
      <4>4. lock["admin_write_lock"][1] = d
        BY <3>1, <4>2 DEF ImportsInv, LineInv
      <4>5. QED
        BY <3>1, <4>3, <4>4
    <3>3. CASE worker' ["server"][i].call # c
      <4>1. \E k \in 1..Len(worker["server"]) : worker'["server"][i] = worker["server"][k]
        <5>1. CASE p = "server"
          <6>1. i \in 1..Len(r) /\ r[i].call # c
            BY <1>8, <2>4, <3>3, <5>1, <1>3
          <6>2. i \in 1..Len(w) /\ r[i] = w[i]
            BY <1>4, <1>9, <6>1
          <6>3. QED
            BY <1>3, <1>8, <5>1, <6>2 DEF w
        <5>2. CASE p # "server"
          BY <1>8, <2>4, <5>2 DEF Processes
        <5>3. QED
          BY <5>1, <5>2
      <4>2. \A k \in 1..Len(worker["server"]) :
                call[worker["server"][k].call].kind \notin {"delete", "clear"}
        BY <3>1 DEF ImportsInv, AddInv
      <4>3. worker'["server"][i].call \in Calls
        BY <1>10, <4>1 DEF Processes
      <4>4. QED
        BY <2>1, <4>1, <4>2, <4>3
    <3>4. QED
      BY <3>2, <3>3
  <2>5. \A d \in Calls : ~call'[d].errors => Malformed \notin ToSet(call'[d].items)
    BY <2>1 DEF ImportsInv, AddInv
  <2>6. NoReload' => \A d \in Calls : call'[d].at = "saving" /\ call'[d].kind = "add" /\ ~call'[d].errors =>
            call'[d].seen \subseteq KeysIn(rows') \cup {call'[d].items[call'[d].next]}
    BY <1>1, <2>2, <2>3 DEF ImportsInv, AddInv
  <2>7. QED
    BY <2>4, <2>5, <2>6 DEF AddInv
<1>18. ExportInv'
  <2>1. CASE p = "server"
    <3>1. \A i \in 1..Len(r) : r[i].phase \in {"json", "csv"} => i \in 1..Len(w) /\ r[i] = w[i]
      BY <1>4, <1>9
    <3>2. worker'["server"] = r
      BY <1>3, <1>8, <2>1
    <3>3. \A i \in 1..Len(w) : w[i].phase \in {"json", "csv"} =>
                w[i].on /\ (Malformed \in KeysIn(w[i].found) => skipped)
      BY <2>1 DEF ImportsInv, ExportInv, w
    <3>4. QED
      BY <1>1, <3>1, <3>2, <3>3 DEF ExportInv, KeysIn
  <2>2. CASE p # "server"
    <3>1. worker'["server"] = worker["server"]
      BY <1>8, <2>2 DEF Processes
    <3>2. QED
      BY <1>1, <3>1 DEF ImportsInv, ExportInv, KeysIn
  <2>3. QED
    BY <2>1, <2>2
<1>19. QED
  BY <1>12, <1>14, <1>15, <1>16, <1>17, <1>18 DEF ImportsInv

\* A cancelled call leaves its line; what has not started is dropped.
LEMMA CancelKeeps ==
    ASSUME ImportsInv, NEW c \in Calls, Cancel(c)
    PROVE  ImportsInv'
<1>1. /\ call[c].at \in InHand /\ call \in [Calls -> CallRecord]
      /\ call' = [call EXCEPT ![c].at = "cancelled"] /\ lock' = LockFreed(c)
      /\ worker' = [p \in Processes |-> Dropped(p, c)]
      /\ submitted' = {r \in submitted : r.by # c}
      /\ UNCHANGED <<saving, rows, skipped>>
  BY DEF Cancel, Ends, ImportsInv, TypeInv, InHand
<1>2. /\ call' \in [Calls -> CallRecord] /\ Alone(c) /\ call'[c].at = "cancelled"
      /\ call'[c].kind = call[c].kind /\ call'[c].items = call[c].items
      /\ call'[c].errors = call[c].errors
      /\ \A d \in Calls : d # c => call'[d] = call[d]
  BY <1>1 DEF CallRecord, Over, Alone
<1>3. LineInv' /\ lock' \in [Locks -> Seq(Calls)]
  BY <1>1, <1>2, LineFreed DEF ImportsInv, Over
<1>4. ASSUME NEW p \in Processes
      PROVE  /\ worker'[p] \in Seq(JobRecord)
             /\ \A i \in 1..Len(worker'[p]) :
                  /\ worker'[p][i].call = c => worker'[p][i].on
                  /\ \E j \in 1..Len(worker[p]) : j >= i /\ worker'[p][i] = worker[p][j]
             /\ \A i, k \in 1..Len(worker'[p]) : worker'[p][i].call = worker'[p][k].call => i = k
  <2>1. worker[p] \in Seq(JobRecord)
    BY DEF ImportsInv, TypeInv
  <2>2. \A i, k \in 1..Len(worker[p]) : worker[p][i].call = worker[p][k].call => i = k
    BY DEF ImportsInv, JobInv
  <2> DEFINE r == Dropped(p, c)
  <2>3. /\ r \in Seq(JobRecord)
        /\ \A i \in 1..Len(r) :
             /\ r[i].call = c => r[i].on
             /\ \E j \in 1..Len(worker[p]) : j >= i /\ r[i] = worker[p][j]
        /\ \A i, k \in 1..Len(r) : r[i].call = r[k].call => i = k
    BY <2>1, <2>2, DroppedJobs
  <2>4. worker'[p] = r
    BY <1>1
  <2> HIDE DEF r
  <2>5. QED
    BY <2>3, <2>4
<1>5. TypeInv'
  <2>1. worker' \in [Processes -> Seq(JobRecord)]
    BY <1>1, <1>4
  <2>2. submitted' \subseteq Row
    BY <1>1 DEF ImportsInv, TypeInv
  <2>3. \A d \in Calls : call'[d].at = "new" => call'[d].kind # "reload"
    BY <1>2 DEF ImportsInv, TypeInv
  <2>4. QED
    BY <1>1, <1>2, <1>3, <2>1, <2>2, <2>3 DEF ImportsInv, TypeInv
<1>6. \A p \in Processes : \A i \in 1..Len(worker'[p]) : worker'[p][i] \in JobRecord
  BY <1>4
<1>7. JobInv'
  <2>1. ASSUME NEW p \in Processes, NEW i \in 1..Len(worker'[p])
        PROVE  JobFits(call', p, worker'[p][i]) /\ (worker'[p][i].on => i = 1)
    <3>1. PICK j \in 1..Len(worker[p]) : j >= i /\ worker'[p][i] = worker[p][j]
      BY <1>4, <2>1
    <3>2. JobFits(call, p, worker'[p][i]) /\ (worker'[p][i].on => j = 1)
      BY <3>1 DEF ImportsInv, JobInv
    <3>3. worker'[p][i].on => i = 1
      <4>1. i \in Nat /\ j \in Nat /\ i >= 1
        BY <2>1
      <4>2. QED
        BY <3>1, <3>2, <4>1
    <3>4. worker'[p][i].call \in Calls
      BY <1>6 DEF JobRecord
    <3>5. CASE worker'[p][i].call = c
      <4>1. worker'[p][i].on
        BY <1>4, <2>1, <3>5
      <4>2. QED
        BY <1>2, <3>2, <3>3, <3>5, <4>1 DEF JobFits
    <3>6. CASE worker'[p][i].call # c
      BY <1>2, <3>2, <3>3, <3>4, <3>6 DEF JobFits
    <3>7. QED
      BY <3>5, <3>6
  <2>2. QED
    BY <1>4, <2>1 DEF JobInv
<1>8. SaveInv' /\ SeenInv' /\ NoDoubleSave'
  <2>1. \A d \in Calls : call[d].at \in {"saving"} \cup Over =>
            /\ call'[d].kind = call[d].kind /\ call'[d].at \in {"saving"} \cup Over
            /\ call[d].at = "cancelled" => call'[d].at = "cancelled"
    BY <1>2 DEF Over
  <2>2. \A d \in Calls : call'[d].at = "saving" => call'[d] = call[d]
    BY <1>2
  <2>3. Pending' \subseteq Pending /\ submitted' \subseteq submitted
    BY <1>1 DEF Pending
  <2>4. submitted' \cap saving' = {}
    BY <1>1 DEF ImportsInv, SaveInv
  <2>5. \A r \in Pending' : r.by \in Calls /\ (r.by = c => r \in saving')
    BY <1>1, <2>3 DEF ImportsInv, SaveInv, SaveFits, Pending
  <2>6. QED
    BY <1>1, <1>2, <2>1, <2>2, <2>3, <2>4, <2>5, QuietSaves DEF ImportsInv
<1>9. AddInv'
  <2>1. \A d \in Calls : call'[d].at = "saving" => call'[d] = call[d]
    BY <1>2
  <2>2. \A d \in Calls : ~call'[d].errors => Malformed \notin ToSet(call'[d].items)
    BY <1>2 DEF ImportsInv, AddInv
  <2>3. \A d \in Calls : call'[d].kind = call[d].kind
    BY <1>2
  <2>4. ASSUME NEW i \in 1..Len(worker'["server"])
        PROVE  \E j \in 1..Len(worker["server"]) :
                /\ worker'["server"][i].call = worker["server"][j].call
                /\ call'[worker["server"][j].call].kind = call[worker["server"][j].call].kind
    <3>1. PICK j \in 1..Len(worker["server"]) : worker'["server"][i] = worker["server"][j]
      BY <1>4, <2>4 DEF Processes
    <3>2. worker'["server"][i].call \in Calls
      BY <1>6, <2>4 DEF Processes, JobRecord
    <3>3. QED
      BY <2>3, <3>1, <3>2
  <2>5. QED
    BY <1>1, <2>1, <2>2, <2>3, <2>4, QuietAdd DEF ImportsInv
<1>10. ExportInv'
  <2>1. ASSUME NEW i \in 1..Len(worker'["server"]), worker'["server"][i].phase \in {"json", "csv"}
        PROVE  /\ worker'["server"][i].on
               /\ Malformed \in KeysIn(worker'["server"][i].found) => skipped
    <3>1. PICK j \in 1..Len(worker["server"]) : worker'["server"][i] = worker["server"][j]
      BY <1>4, <2>1 DEF Processes
    <3>2. QED
      BY <2>1, <3>1 DEF ImportsInv, ExportInv
  <2>2. QED
    BY <1>1, <2>1 DEF ExportInv, KeysIn
<1>11. QED
  BY <1>3, <1>5, <1>7, <1>8, <1>9, <1>10 DEF ImportsInv

\* Steps of a worker that leave the calls, the saves and the rows alone: its head
\* starts, or goes on to another phase.
LEMMA HeadKeeps ==
    ASSUME ImportsInv, NEW p \in Processes, 1 \in DOMAIN worker[p],
           NEW j, worker' = [worker EXCEPT ![p] = [@ EXCEPT ![1] = j]],
           j \in JobRecord, j.call = worker[p][1].call, j.on,
           j.phase \in PhasesOf(call[j.call].kind),
           skipped' \in BOOLEAN, p = "cli" => skipped' = skipped,
           j.phase \in {"json", "csv"} => (Malformed \in KeysIn(j.found) => skipped'),
           rows' \subseteq rows,
           NoReload /\ (\E d \in Calls : call[d].at = "saving" /\ call[d].kind = "add") =>
                rows \subseteq rows',
           UNCHANGED <<call, lock, submitted, saving>>
    PROVE  ImportsInv'
<1>1. /\ worker' \in [Processes -> Seq(JobRecord)] /\ JobInv'
      /\ worker'[p] = [worker[p] EXCEPT ![1] = j]
      /\ \A q \in Processes : q # p => worker'[q] = worker[q]
  BY HeadGoesOn DEF ImportsInv
<1>2. worker[p] \in Seq(JobRecord) /\ DOMAIN worker[p] = 1..Len(worker[p])
  BY DEF ImportsInv, TypeInv
<1> DEFINE w == worker[p]
           r == [w EXCEPT ![1] = j]
<1>3. /\ Len(r) = Len(w) /\ r[1] = j /\ \A k \in 1..Len(w) : k # 1 => r[k] = w[k]
      /\ 1 \in 1..Len(w) /\ worker'[p] = r
  BY <1>1, <1>2
<1>4. w[1].call = j.call
  OBVIOUS
<1>5. \A k \in 1..Len(w) : k # 1 => ~w[k].on
  BY DEF ImportsInv, JobInv
<1> HIDE DEF r
<1>6. TypeInv'
  BY <1>1 DEF ImportsInv, TypeInv
<1>7. LineInv'
  BY LineSame DEF ImportsInv
<1>8. SaveInv' /\ SeenInv' /\ NoDoubleSave'
  <2>1. Pending' = Pending /\ submitted' \cap saving' = {}
    BY DEF Pending, ImportsInv, SaveInv
  <2>2. QED
    BY <2>1, QuietSaves DEF ImportsInv
<1>9. AddInv'
  <2>1. \A i \in 1..Len(worker'["server"]) : \E k \in 1..Len(worker["server"]) :
            worker'["server"][i].call = worker["server"][k].call
    <3>1. CASE p = "server"
      <4>1. \A i \in 1..Len(r) : i \in 1..Len(w) /\ r[i].call = w[i].call
        BY <1>3, <1>4
      <4>2. QED
        BY <1>3, <3>1, <4>1
    <3>2. CASE p # "server"
      BY <1>1, <3>2 DEF Processes
    <3>3. QED
      BY <3>1, <3>2
  <2>2. \A d \in Calls : ~call[d].errors => Malformed \notin ToSet(call[d].items)
    BY DEF ImportsInv, AddInv
  <2>3. QED
    BY <2>1, <2>2, QuietAdd DEF ImportsInv
<1>10. ExportInv'
  <2>1. CASE p = "server"
    <3>1. \A k \in 1..Len(w) : w[k].phase \in {"json", "csv"} => w[k].on
      BY <2>1 DEF ImportsInv, ExportInv
    <3>2. \A k \in 1..Len(r) : r[k].phase \in {"json", "csv"} => r[k] = j
      BY <1>3, <1>5, <3>1
    <3>3. worker'["server"] = r
      BY <1>3, <2>1
    <3>4. QED
      BY <3>2, <3>3 DEF ExportInv, KeysIn
  <2>2. CASE p = "cli"
    <3>1. worker'["server"] = worker["server"] /\ skipped' = skipped
      BY <1>1, <2>2 DEF Processes
    <3>2. QED
      BY <3>1 DEF ImportsInv, ExportInv, KeysIn
  <2>3. QED
    BY <2>1, <2>2 DEF Processes
<1>11. QED
  BY <1>1, <1>6, <1>7, <1>8, <1>9, <1>10 DEF ImportsInv

\* The job that runs leaves, and its call, if it is still there, ends with it.
LEMMA ReturnKeeps ==
    ASSUME ImportsInv, NEW p \in Processes, NEW i \in DOMAIN worker[p], worker[p][i].on,
           JobLeaves(p, i), NEW how \in {"ok", "failed"}, Returned(worker[p][i].call, how),
           skipped' \in BOOLEAN, p = "cli" => skipped' = skipped,
           rows' \subseteq rows,
           NoReload /\ (\E d \in Calls : call[d].at = "saving" /\ call[d].kind = "add") =>
                rows \subseteq rows',
           UNCHANGED <<submitted, saving>>
    PROVE  ImportsInv'
<1> DEFINE c == worker[p][i].call
<1>1. c \in Calls /\ JobFits(call, p, worker[p][i])
  BY RunningHead DEF ImportsInv
<1>2. call \in [Calls -> CallRecord]
  BY DEF ImportsInv, TypeInv
<1> HIDE DEF c
<1>3. Returned(c, how)
  BY DEF c
<1>4. /\ call' \in [Calls -> CallRecord] /\ Alone(c) /\ LineInv'
      /\ lock' \in [Locks -> Seq(Calls)]
      /\ \/ call' = call
         \/ /\ call[c].at = "worker" /\ call'[c].at = how /\ call'[c].kind = call[c].kind
            /\ call'[c].items = call[c].items /\ call'[c].errors = call[c].errors
  <2>1. CASE call[c].at = "worker"
    <3>1. call' = [call EXCEPT ![c].at = how] /\ lock' = LockFreed(c)
      BY <1>3, <2>1 DEF Returned, Ends
    <3>2. /\ call' \in [Calls -> CallRecord] /\ Alone(c) /\ call'[c].at = how
          /\ call'[c].kind = call[c].kind /\ call'[c].items = call[c].items
          /\ call'[c].errors = call[c].errors
      BY <1>1, <1>2, <3>1 DEF CallRecord, Over, Alone
    <3>3. LineInv' /\ lock' \in [Locks -> Seq(Calls)]
      BY <1>1, <3>1, <3>2, LineFreed DEF ImportsInv, Over
    <3>4. QED
      BY <2>1, <3>2, <3>3
  <2>2. CASE call[c].at # "worker"
    <3>1. call' = call /\ lock' = lock
      BY <1>3, <2>2 DEF Returned
    <3>2. QED
      BY <1>2, <3>1, LineSame DEF ImportsInv, TypeInv, Alone
  <2>3. QED
    BY <2>1, <2>2
<1>5. \A d \in Calls : d # c => call'[d] = call[d]
  BY <1>4 DEF Alone
<1>6. /\ worker' \in [Processes -> Seq(JobRecord)] /\ JobInv' /\ JobsRemain
      /\ \A k \in 1..Len(worker'[p]) : ~worker'[p][k].on
      /\ \A q \in Processes : q # p => worker'[q] = worker[q]
  BY <1>4, JobsLeft DEF ImportsInv, c
<1>7. \A d \in Calls : /\ call'[d].kind = call[d].kind /\ call'[d].errors = call[d].errors
                       /\ call'[d].items = call[d].items
                       /\ call'[d].at = "saving" => call'[d] = call[d]
                       /\ call'[d].at = "new" => call[d].at = "new"
                       /\ call[d].at \in {"saving"} \cup Over => call'[d] = call[d]
  BY <1>1, <1>4, <1>5 DEF Over
<1>8. TypeInv'
  BY <1>4, <1>6, <1>7 DEF ImportsInv, TypeInv
<1>9. SaveInv' /\ SeenInv' /\ NoDoubleSave'
  <2>1. Pending' = Pending /\ submitted' \cap saving' = {}
    BY DEF Pending, ImportsInv, SaveInv
  <2>2. \A r \in Pending : r.by \in Calls /\ call[r.by].at \in {"saving"} \cup Over
    BY DEF ImportsInv, SaveInv, SaveFits, Over
  <2>3. QED
    BY <1>7, <2>1, <2>2, QuietSaves DEF ImportsInv
<1>10. AddInv'
  <2>1. \A d \in Calls : ~call'[d].errors => Malformed \notin ToSet(call'[d].items)
    BY <1>7 DEF ImportsInv, AddInv
  <2>2. ASSUME NEW k \in 1..Len(worker'["server"])
        PROVE  \E j \in 1..Len(worker["server"]) :
                /\ worker'["server"][k].call = worker["server"][j].call
                /\ call'[worker["server"][j].call].kind = call[worker["server"][j].call].kind
    <3>1. PICK j \in 1..Len(worker["server"]) : worker'["server"][k] = worker["server"][j]
      BY <1>6, <2>2 DEF JobsRemain, Processes
    <3>2. worker["server"][j] \in JobRecord
      BY DEF ImportsInv, TypeInv, Processes
    <3>3. QED
      BY <1>7, <3>1, <3>2 DEF JobRecord
  <2>3. QED
    BY <1>7, <2>1, <2>2, QuietAdd DEF ImportsInv
<1>11. ExportInv'
  <2>1. \A k \in 1..Len(worker["server"]) : worker["server"][k].phase \in {"json", "csv"} =>
            worker["server"][k].on /\ (Malformed \in KeysIn(worker["server"][k].found) => skipped)
    BY DEF ImportsInv, ExportInv
  <2>2. CASE p = "server"
    <3>1. ASSUME NEW k \in 1..Len(worker'["server"])
          PROVE  worker'["server"][k].phase \notin {"json", "csv"}
      <4>1. \E j \in 1..Len(worker["server"]) : worker'["server"][k] = worker["server"][j]
        BY <1>6, <3>1 DEF JobsRemain, Processes
      <4>2. ~worker'["server"][k].on
        BY <1>6, <2>2, <3>1
      <4>3. QED
        BY <2>1, <4>1, <4>2
    <3>2. QED
      BY <3>1 DEF ExportInv
  <2>3. CASE p = "cli"
    <3>1. worker'["server"] = worker["server"] /\ skipped' = skipped
      BY <1>6, <2>3 DEF Processes
    <3>2. QED
      BY <2>1, <3>1 DEF ExportInv, KeysIn
  <2>4. QED
    BY <2>2, <2>3 DEF Processes
<1>12. QED
  BY <1>4, <1>6, <1>8, <1>9, <1>10, <1>11 DEF ImportsInv

LEMMA TakeKeeps ==
    ASSUME ImportsInv, NEW p \in Processes, Take(p)
    PROVE  ImportsInv'
<1>1. worker[p] \in Seq(JobRecord) /\ worker \in [Processes -> Seq(JobRecord)]
  BY DEF ImportsInv, TypeInv
<1>2. /\ worker[p] # <<>> /\ ~Head(worker[p]).on /\ worker' = [worker EXCEPT ![p][1].on = TRUE]
      /\ UNCHANGED <<call, lock, submitted, saving, rows, skipped>>
  BY DEF Take
<1> DEFINE h == worker[p][1]
           j == [h EXCEPT !.on = TRUE]
<1>3. 1 \in DOMAIN worker[p] /\ h \in JobRecord /\ ~h.on
  BY <1>1, <1>2
<1>4. j \in JobRecord /\ j.call = h.call /\ j.on /\ j.phase = h.phase /\ j.found = h.found
  BY <1>3 DEF JobRecord
<1>5. worker' = [worker EXCEPT ![p] = [@ EXCEPT ![1] = j]]
  BY <1>1, <1>2, <1>3
<1>6. j.phase \in PhasesOf(call[j.call].kind)
  BY <1>1, <1>3, <1>4 DEF ImportsInv, JobInv, JobFits
<1>7. j.phase \notin {"json", "csv"}
  <2>1. CASE p = "server"
    BY <1>1, <1>3, <1>4, <2>1 DEF ImportsInv, ExportInv
  <2>2. CASE p = "cli"
    <3>1. ProcessOf(call[h.call].kind) = "cli" /\ h.phase \in PhasesOf(call[h.call].kind)
      BY <1>1, <1>3, <2>2 DEF ImportsInv, JobInv, JobFits
    <3>2. call[h.call].kind # "export"
      BY <3>1 DEF ProcessOf
    <3>3. h.phase \notin {"json", "csv"}
      BY <3>1, <3>2 DEF PhasesOf
    <3>4. QED
      BY <1>4, <3>3
  <2>3. QED
    BY <2>1, <2>2 DEF Processes
<1> HIDE DEF j, h
<1>8. skipped \in BOOLEAN
  BY DEF ImportsInv, TypeInv
<1>9. QED
  BY <1>2, <1>3, <1>4, <1>5, <1>6, <1>7, <1>8, HeadKeeps DEF h

LEMMA ReadIdsKeeps ==
    ASSUME ImportsInv, NEW p \in Processes, NEW i \in DOMAIN worker[p], ReadIds(p, i)
    PROVE  ImportsInv'
<1> DEFINE h == worker[p][i]
           c == h.call
<1>1. /\ h.on /\ h.phase = "ids" /\ UNCHANGED <<submitted, saving, rows, skipped>>
  BY DEF ReadIds, JobAt
<1>2. /\ i = 1 /\ h \in JobRecord /\ worker[p] \in Seq(JobRecord) /\ JobFits(call, p, h)
      /\ worker \in [Processes -> Seq(JobRecord)] /\ rows \subseteq Row /\ skipped \in BOOLEAN
      /\ 1 \in DOMAIN worker[p]
  BY <1>1, RunningHead DEF ImportsInv, TypeInv
<1>3. call[c].kind \in {"delete", "clear", "reload"}
  BY <1>1, <1>2 DEF JobFits, PhasesOf
<1>4. PICK found \in Meant(call[c].kind) :
        IF found # {}
        THEN /\ worker' = [worker EXCEPT ![p][i].phase = "delete", ![p][i].found = found]
             /\ UNCHANGED <<call, lock>>
        ELSE IF call[c].kind = "reload"
        THEN /\ worker' = [worker EXCEPT ![p][i].phase = "baseline"]
             /\ UNCHANGED <<call, lock>>
        ELSE /\ JobLeaves(p, i)
             /\ Returned(c, IF call[c].kind = "delete" THEN "failed" ELSE "ok")
  BY DEF ReadIds
<1>5. found \subseteq Row
  BY <1>2, <1>3, <1>4 DEF Meant
<1>6. CASE found # {}
  <2> DEFINE j == [h EXCEPT !.phase = "delete", !.found = found]
  <2>1. j \in JobRecord /\ j.call = c /\ j.on /\ j.phase = "delete"
    BY <1>1, <1>2, <1>5 DEF JobRecord
  <2>2. worker' = [worker EXCEPT ![p] = [@ EXCEPT ![1] = j]]
    BY <1>2, <1>4, <1>6
  <2>3. j.phase \in PhasesOf(call[j.call].kind)
    BY <1>3, <2>1 DEF PhasesOf
  <2> HIDE DEF j
  <2>4. QED
    BY <1>1, <1>2, <1>4, <1>6, <2>1, <2>2, <2>3, HeadKeeps
<1>7. CASE found = {} /\ call[c].kind = "reload"
  <2> DEFINE j == [h EXCEPT !.phase = "baseline"]
  <2>1. j \in JobRecord /\ j.call = c /\ j.on /\ j.phase = "baseline"
    BY <1>1, <1>2 DEF JobRecord
  <2>2. worker' = [worker EXCEPT ![p] = [@ EXCEPT ![1] = j]]
    BY <1>2, <1>4, <1>7
  <2>3. j.phase \in PhasesOf(call[j.call].kind)
    BY <1>7, <2>1 DEF PhasesOf
  <2> HIDE DEF j
  <2>4. QED
    BY <1>1, <1>2, <1>4, <1>7, <2>1, <2>2, <2>3, HeadKeeps
<1>8. CASE found = {} /\ call[c].kind # "reload"
  <2> DEFINE how == IF call[c].kind = "delete" THEN "failed" ELSE "ok"
  <2>1. how \in {"ok", "failed"} /\ JobLeaves(p, i) /\ Returned(c, how)
    BY <1>4, <1>8
  <2> HIDE DEF how
  <2>2. QED
    BY <1>1, <1>2, <2>1, ReturnKeeps
<1>9. QED
  BY <1>6, <1>7, <1>8

\* No addition saves while the server deletes, and the command line reloads.
LEMMA DeleteKeeps ==
    ASSUME ImportsInv, NEW p \in Processes, NEW i \in DOMAIN worker[p], Delete(p, i)
    PROVE  ImportsInv'
<1> DEFINE h == worker[p][i]
           c == h.call
<1>1. /\ h.on /\ h.phase = "delete" /\ UNCHANGED <<submitted, saving, skipped>>
      /\ rows' = rows \ h.found
  BY DEF Delete, JobAt
<1>2. /\ i = 1 /\ h \in JobRecord /\ worker[p] \in Seq(JobRecord) /\ JobFits(call, p, h)
      /\ worker \in [Processes -> Seq(JobRecord)] /\ skipped \in BOOLEAN
      /\ 1 \in DOMAIN worker[p] /\ 1 \in 1..Len(worker[p]) /\ c \in Calls
  BY <1>1, RunningHead DEF ImportsInv, TypeInv
<1>3. call[c].kind \in {"delete", "clear", "reload"}
  BY <1>1, <1>2 DEF JobFits, PhasesOf
<1>4. ASSUME NoReload, NEW d \in Calls, call[d].at = "saving", call[d].kind = "add"
      PROVE  FALSE
  <2>1. call[c].kind \in {"delete", "clear"}
    BY <1>2, <1>3, <1>4 DEF NoReload
  <2>2. p = "server"
    BY <1>2, <2>1 DEF JobFits, ProcessOf
  <2>3. QED
    BY <1>2, <1>4, <2>1, <2>2 DEF ImportsInv, AddInv
<1>5. CASE call[c].kind = "reload"
  <2> DEFINE j == [h EXCEPT !.phase = "baseline"]
  <2>1. j \in JobRecord /\ j.call = c /\ j.on /\ j.phase = "baseline"
    BY <1>1, <1>2 DEF JobRecord
  <2>2. worker' = [worker EXCEPT ![p][i].phase = "baseline"] /\ UNCHANGED <<call, lock>>
    BY <1>5 DEF Delete
  <2>3. worker' = [worker EXCEPT ![p] = [@ EXCEPT ![1] = j]]
    BY <1>2, <2>2
  <2>4. j.phase \in PhasesOf(call[j.call].kind)
    BY <1>5, <2>1 DEF PhasesOf
  <2> HIDE DEF j
  <2>5. QED
    BY <1>1, <1>2, <1>4, <2>1, <2>2, <2>3, <2>4, HeadKeeps
<1>6. CASE call[c].kind # "reload"
  <2>1. JobLeaves(p, i) /\ Returned(c, "ok")
    BY <1>6 DEF Delete
  <2>2. QED
    BY <1>1, <1>2, <1>4, <2>1, ReturnKeeps
<1>7. QED
  BY <1>5, <1>6

\* The read of an export sets the flag for what it read.
LEMMA ReadExportKeeps ==
    ASSUME ImportsInv, NEW p \in Processes, NEW i \in DOMAIN worker[p], ReadExport(p, i)
    PROVE  ImportsInv'
<1> DEFINE h == worker[p][i]
           c == h.call
<1>1. /\ h.on /\ h.phase = "read" /\ UNCHANGED <<submitted, saving, rows>>
      /\ skipped' = (BadRows # {})
  BY DEF ReadExport, JobAt, Counted
<1>2. /\ i = 1 /\ h \in JobRecord /\ worker[p] \in Seq(JobRecord) /\ JobFits(call, p, h)
      /\ worker \in [Processes -> Seq(JobRecord)] /\ rows \subseteq Row
      /\ 1 \in DOMAIN worker[p]
  BY <1>1, RunningHead DEF ImportsInv, TypeInv
<1>3. call[c].kind = "export" /\ p # "cli"
  BY <1>1, <1>2 DEF JobFits, PhasesOf, ProcessOf
<1>4. skipped' \in BOOLEAN
  BY <1>1
<1>5. CASE Corrupt
  <2>1. JobLeaves(p, i) /\ Returned(c, "failed")
    BY <1>5 DEF ReadExport
  <2>2. QED
    BY <1>1, <1>3, <1>4, <2>1, ReturnKeeps
<1>6. CASE ~Corrupt
  <2>0. PICK format \in {"json", "csv"} :
            /\ worker' = [worker EXCEPT ![p][i].phase = format, ![p][i].found = rows]
            /\ UNCHANGED <<call, lock>>
    BY <1>6 DEF ReadExport, Formats
  <2> DEFINE j == [h EXCEPT !.phase = format, !.found = rows]
  <2>1. j \in JobRecord /\ j.call = c /\ j.on /\ j.phase \in {"json", "csv"} /\ j.found = rows
    BY <1>1, <1>2 DEF JobRecord
  <2>2. UNCHANGED <<call, lock>>
    BY <2>0
  <2>3. worker' = [worker EXCEPT ![p] = [@ EXCEPT ![1] = j]]
    BY <1>2, <2>0
  <2>4. j.phase \in PhasesOf(call[j.call].kind)
    BY <1>3, <2>1 DEF PhasesOf
  <2>5. Malformed \in KeysIn(j.found) => skipped'
    BY <1>1, <2>1 DEF KeysIn, BadRows
  <2> HIDE DEF j
  <2>6. QED
    BY <1>1, <1>2, <1>3, <1>4, <2>1, <2>2, <2>3, <2>4, <2>5, HeadKeeps
<1>7. QED
  BY <1>5, <1>6

LEMMA ReportExportKeeps ==
    ASSUME ImportsInv, NEW p \in Processes, NEW i \in DOMAIN worker[p], ReportExport(p, i)
    PROVE  ImportsInv'
<1>1. /\ worker[p][i].on /\ JobLeaves(p, i) /\ UNCHANGED <<submitted, saving, rows, skipped>>
      /\ \E how \in {"ok", "failed"} : Returned(worker[p][i].call, how)
  BY DEF ReportExport, JobAt
<1>2. skipped \in BOOLEAN
  BY DEF ImportsInv, TypeInv
<1>3. QED
  BY <1>1, <1>2, ReturnKeeps

LEMMA StoreFailsKeeps ==
    ASSUME ImportsInv, NEW p \in Processes, NEW i \in DOMAIN worker[p], StoreFails(p, i)
    PROVE  ImportsInv'
<1>1. /\ worker[p][i].on /\ JobLeaves(p, i) /\ UNCHANGED <<submitted, saving, rows, skipped>>
      /\ Returned(worker[p][i].call, "failed")
  BY DEF StoreFails
<1>2. skipped \in BOOLEAN
  BY DEF ImportsInv, TypeInv
<1>3. QED
  BY <1>1, <1>2, ReturnKeeps

LEMMA AdvanceAlone ==
    ASSUME TypeInv, NEW c \in Calls, NEW state, NEW k, Advance(c, state, k)
    PROVE  Alone(c)
BY DEF Advance, Alone, TypeInv

\* import_bundle goes on: everything but the queues.
LEMMA AdvanceKeeps ==
    ASSUME ImportsInv, NEW c \in Calls, call[c].at \in {"worker", "saving"},
           NEW state \in CallRecord, state.kind = call[c].kind, state.items = call[c].items,
           state.kind \in Imports, ~state.errors => Malformed \notin ToSet(state.items),
           NEW k \in Nat \ {0}, Advance(c, state, k), Passed(state, k),
           NEW R \in SUBSET Row, rows' = rows \cup R, \A r, s \in R : r = s,
           \A r \in R : /\ r.by = c /\ r.key \in state.seen \ {Malformed}
                        /\ \A s \in rows : \A l \in Locks : r.key = s.key /\ Kept(r, l) => ~Kept(s, l),
           saving' \subseteq saving, \A r \in submitted \cup saving' : r.by # c,
           \A l \in LockOf(state.kind) : \A r \in rows : Kept(r, l) => r.key \in state.seen,
           worker' \in [Processes -> Seq(JobRecord)], JobInv', JobsRemain, ExportInv',
           skipped' \in BOOLEAN,
           state.kind = "add" => \A i \in 1..Len(worker'["server"]) :
                call[worker'["server"][i].call].kind \notin {"delete", "clear"},
           NoReload /\ state.kind = "add" /\ ~state.errors => state.seen \subseteq KeysIn(rows')
    PROVE  ImportsInv'
<1>1. Alone(c)
  BY AdvanceAlone DEF ImportsInv
<1>2. call \in [Calls -> CallRecord] /\ lock \in [Locks -> Seq(Calls)]
  BY DEF ImportsInv, TypeInv
<1>3. Len(state.items) \in Nat /\ state.items \in Seq(Items)
  BY DEF CallRecord
<1>4. \/ Reports(c, state)
      \/ \E n \in 1..Len(state.items) :
           /\ GoesOn(c, state, n) /\ Passed(state, n)
           /\ state.items[n] \notin state.seen \cup {Malformed}
  BY AdvanceCases
<1>5. /\ call' \in [Calls -> CallRecord] /\ LineInv' /\ lock' \in [Locks -> Seq(Calls)]
      /\ submitted' \subseteq Row /\ call'[c].at # "new"
  <2>1. CASE Reports(c, state)
    <3> DEFINE v == Verdict(state)
               new == [state EXCEPT !.at = v]
    <3>1. v \in {"ok", "failed"}
      BY DEF Verdict
    <3> HIDE DEF v
    <3>2. new \in CallRecord /\ new.at = v
      BY <3>1 DEF CallRecord, Over
    <3>3. call' = [call EXCEPT ![c] = new] /\ lock' = LockFreed(c) /\ submitted' = submitted
      BY <2>1 DEF Reports, v
    <3> HIDE DEF new
    <3>4. call' \in [Calls -> CallRecord] /\ call'[c] = new
      BY <1>2, <3>2, <3>3
    <3>5. call'[c].at \in Over
      BY <3>1, <3>2, <3>4 DEF Over
    <3>6. LineInv' /\ lock' \in [Locks -> Seq(Calls)]
      BY <1>1, <3>3, <3>5, LineFreed DEF ImportsInv
    <3>7. QED
      BY <3>3, <3>4, <3>5, <3>6 DEF ImportsInv, TypeInv, Over
  <2>2. ASSUME NEW n \in 1..Len(state.items), GoesOn(c, state, n)
        PROVE  /\ call' \in [Calls -> CallRecord] /\ LineInv' /\ lock' \in [Locks -> Seq(Calls)]
               /\ submitted' \subseteq Row /\ call'[c].at # "new"
    <3> DEFINE x == state.items[n]
               new == [state EXCEPT !.at = "saving", !.next = n, !.seen = @ \cup {x}]
    <3>1. x \in Items /\ n \in Nat
      BY <1>3
    <3>2. /\ call' = [call EXCEPT ![c] = new] /\ lock' = lock
          /\ submitted' = submitted \cup {[key |-> x, by |-> c, at |-> n]}
      BY <2>2 DEF GoesOn
    <3> HIDE DEF x
    <3>3. new \in CallRecord /\ new.at = "saving" /\ new.kind = state.kind
      BY <3>1 DEF CallRecord, InHand
    <3> HIDE DEF new
    <3>4. call' \in [Calls -> CallRecord] /\ call'[c] = new
      BY <1>2, <3>2, <3>3
    <3>5. \A l \in LockOf(call[c].kind) : lock[l][1] = c
      BY DEF ImportsInv, LineInv
    <3>6. LineInv'
      BY <1>1, <3>2, <3>3, <3>4, <3>5, LineKept DEF ImportsInv, InHand
    <3>7. submitted' \subseteq Row
      BY <3>1, <3>2 DEF ImportsInv, TypeInv, Row
    <3>8. QED
      BY <1>2, <3>2, <3>3, <3>4, <3>6, <3>7
  <2>3. QED
    BY <1>4, <2>1, <2>2
<1>6. SaveInv' /\ SeenInv' /\ NoDoubleSave'
  BY ZenonT(30), <1>1, <1>4, AdvanceSaves DEF ImportsInv
<1>7. AddInv'
  BY <1>1, <1>4, AdvanceAdd DEF ImportsInv
<1>8. TypeInv'
  <2>1. \A d \in Calls : call'[d].at = "new" => call'[d].kind # "reload"
    BY <1>1, <1>5 DEF Alone, ImportsInv, TypeInv
  <2>2. QED
    BY <1>5, <2>1 DEF ImportsInv, TypeInv
<1>9. QED
  BY <1>5, <1>6, <1>7, <1>8 DEF ImportsInv

\* The dedup baseline: what the call may skip is what it read.
LEMMA ReadBaselineKeeps ==
    ASSUME ImportsInv, NEW p \in Processes, NEW i \in DOMAIN worker[p], ReadBaseline(p, i)
    PROVE  ImportsInv'
<1> DEFINE h == worker[p][i]
           c == h.call
<1>1. /\ h.on /\ h.phase = "baseline" /\ JobLeaves(p, i) /\ Counted(call[c].kind)
      /\ UNCHANGED <<saving, rows>>
  BY DEF ReadBaseline, JobAt
<1>2. /\ i = 1 /\ h \in JobRecord /\ c \in Calls /\ JobFits(call, p, h)
      /\ rows \subseteq Row /\ skipped \in BOOLEAN /\ call \in [Calls -> CallRecord]
  BY <1>1, RunningHead DEF ImportsInv, TypeInv
<1>3. call[c].kind \in Imports /\ call[c].kind \in Kinds
  BY <1>1, <1>2 DEF JobFits, PhasesOf, Imports, Kinds, CallRecord
<1>4. skipped' \in BOOLEAN /\ (p = "cli" => skipped' = skipped)
  <2>1. skipped' = IF call[c].kind \in {"add", "export"} THEN BadRows # {} ELSE skipped
    BY <1>1 DEF Counted
  <2>2. p = "cli" => call[c].kind \notin {"add", "export"}
    BY <1>2 DEF JobFits, ProcessOf
  <2>3. QED
    BY <1>2, <2>1, <2>2
<1>5. CASE call[c].at # "worker"
  <2>1. Returned(c, "failed") /\ submitted' = submitted
    BY <1>5 DEF ReadBaseline, Returned
  <2>2. QED
    BY <1>1, <1>4, <2>1, ReturnKeeps
<1>6. CASE call[c].at = "worker" /\ Corrupt
  <2>1. Returned(c, "failed") /\ submitted' = submitted
    BY <1>6 DEF ReadBaseline, Returned
  <2>2. QED
    BY <1>1, <1>4, <2>1, ReturnKeeps
<1>7. CASE call[c].at = "worker" /\ ~Corrupt
  <2> DEFINE found == {r.key : r \in rows \ BadRows}
             state == [call[c] EXCEPT !.seen = found]
  <2>1. Advance(c, state, 1)
    BY <1>7 DEF ReadBaseline
  <2>2. found \subseteq Items
    BY <1>2 DEF Row
  <2>3. /\ \A r \in rows : r.key # Malformed => r.key \in found
        /\ found \subseteq KeysIn(rows)
    BY DEF BadRows, KeysIn
  <2> HIDE DEF found
  <2>4. /\ state \in CallRecord /\ state.kind = call[c].kind /\ state.items = call[c].items
        /\ state.errors = call[c].errors /\ state.seen = found
    BY <1>2, <2>2 DEF CallRecord
  <2> HIDE DEF state
  <2>5. Alone(c)
    BY <1>2, <2>1, AdvanceAlone DEF ImportsInv
  <2>6. /\ worker' \in [Processes -> Seq(JobRecord)] /\ JobInv' /\ JobsRemain
        /\ \A k \in 1..Len(worker'[p]) : ~worker'[p][k].on
        /\ \A q \in Processes : q # p => worker'[q] = worker[q]
    BY <1>1, <2>5, JobsLeft DEF ImportsInv
  <2>7. Passed(state, 1)
    BY DEF Passed
  <2>8. ~state.errors => Malformed \notin ToSet(state.items)
    BY <1>2, <2>4 DEF ImportsInv, AddInv
  <2>9. \A r \in submitted \cup saving' : r.by # c
    BY <1>1, <1>7 DEF ImportsInv, SaveInv, SaveFits, Pending
  <2>10. \A l \in LockOf(state.kind) : \A r \in rows : Kept(r, l) => r.key \in state.seen
    BY <2>3, <2>4 DEF Kept, ImportsInv, SaveInv
  <2>11. ExportInv'
    <3>1. \A k \in 1..Len(worker["server"]) : worker["server"][k].phase \in {"json", "csv"} =>
              worker["server"][k].on /\ (Malformed \in KeysIn(worker["server"][k].found) => skipped)
      BY DEF ImportsInv, ExportInv
    <3>2. CASE p = "server"
      <4>1. ASSUME NEW k \in 1..Len(worker'["server"])
            PROVE  worker'["server"][k].phase \notin {"json", "csv"}
        <5>1. \E j \in 1..Len(worker["server"]) : worker'["server"][k] = worker["server"][j]
          BY <2>6, <4>1 DEF JobsRemain, Processes
        <5>2. ~worker'["server"][k].on
          BY <2>6, <3>2, <4>1
        <5>3. QED
          BY <3>1, <5>1, <5>2
      <4>2. QED
        BY <4>1 DEF ExportInv
    <3>3. CASE p = "cli"
      <4>1. worker'["server"] = worker["server"] /\ skipped' = skipped
        BY <1>4, <2>6, <3>3 DEF Processes
      <4>2. QED
        BY <3>1, <4>1 DEF ExportInv, KeysIn
    <3>4. QED
      BY <3>2, <3>3 DEF Processes
  <2>12. ASSUME state.kind = "add", NEW k \in 1..Len(worker'["server"])
         PROVE  call[worker'["server"][k].call].kind \notin {"delete", "clear"}
    <3>1. p = "server" /\ call[c].kind = "add"
      BY <1>2, <2>4, <2>12 DEF JobFits, ProcessOf
    <3>2. ~worker'["server"][k].on
      BY <2>6, <2>12, <3>1
    <3>3. PICK j \in 1..Len(worker["server"]) : worker'["server"][k] = worker["server"][j]
      BY <2>6, <2>12 DEF JobsRemain, Processes
    <3> DEFINE d == worker["server"][j].call
    <3>4. call[d].at = "worker" /\ d \in Calls
      <4>1. JobFits(call, "server", worker["server"][j]) /\ worker["server"][j] \in JobRecord
        BY DEF ImportsInv, TypeInv, JobInv, Processes
      <4>2. QED
        BY <3>2, <3>3, <4>1 DEF JobFits, JobRecord
    <3> HIDE DEF d
    <3>5. SUFFICES ASSUME call[d].kind \in {"delete", "clear"} PROVE FALSE
      BY <3>3 DEF d
    <3>6. "admin_write_lock" \in LockOf(call[c].kind) /\ "admin_write_lock" \in LockOf(call[d].kind)
      BY <3>1, <3>5 DEF LockOf
    <3>7. c = d
      BY <1>2, <1>7, <3>4, <3>6, Exclusion DEF ImportsInv, Locks
    <3>8. QED
      BY <3>1, <3>5, <3>7
  <2>13. NoReload /\ state.kind = "add" /\ ~state.errors => state.seen \subseteq KeysIn(rows')
    BY <1>1, <2>3, <2>4
  <2>14. rows' = rows \cup {} /\ {} \in SUBSET Row /\ saving' \subseteq saving
    BY <1>1
  <2>15. state.kind \in Imports /\ 1 \in Nat \ {0}
    BY <1>3, <2>4
  <2> HIDE DEF c
  <2>16. c \in Calls /\ call[c].at \in {"worker", "saving"}
    BY <1>2, <1>7
  <2> DEFINE R == {}
  <2>17. /\ R \in SUBSET Row /\ rows' = rows \cup R /\ \A r, s \in R : r = s
         /\ \A r \in R : /\ r.by = c /\ r.key \in state.seen \ {Malformed}
                /\ \A s \in rows : \A l \in Locks : r.key = s.key /\ Kept(r, l) => ~Kept(s, l)
    BY <2>14
  <2> HIDE DEF R
  <2>18. QED
    BY <1>4, <2>1, <2>4, <2>6, <2>7, <2>8, <2>9, <2>10, <2>11, <2>12, <2>13, <2>14, <2>15, <2>16,
       <2>17, AdvanceKeeps
<1>8. QED
  BY <1>5, <1>6, <1>7

\* A save gets a thread of the store.
LEMMA SaveStartsKeeps ==
    ASSUME ImportsInv, NEW r, SaveStarts(r)
    PROVE  ImportsInv'
<1>1. /\ r \in submitted /\ submitted' = submitted \ {r} /\ saving' = saving \cup {r}
      /\ call' = call /\ lock' = lock /\ worker' = worker /\ rows' = rows /\ skipped' = skipped
  BY DEF SaveStarts
<1>2. TypeInv' /\ LineInv' /\ JobInv' /\ ExportInv'
  BY <1>1 DEF ImportsInv, TypeInv, LineInv, JobInv, JobFits, ExportInv, KeysIn
<1>3. Pending' = Pending /\ submitted' \subseteq submitted /\ submitted' \cap saving' = {}
  BY <1>1 DEF Pending, ImportsInv, SaveInv
<1>4. \A d \in Calls : call[d].at \in {"saving"} \cup Over =>
         /\ call'[d].kind = call[d].kind /\ call'[d].at \in {"saving"} \cup Over
         /\ call[d].at = "cancelled" => call'[d].at = "cancelled"
  BY <1>1
<1>5. SaveInv' /\ SeenInv' /\ NoDoubleSave'
  BY <1>1, <1>3, <1>4, QuietSaves DEF ImportsInv
<1>6. AddInv'
  BY <1>1 DEF ImportsInv, AddInv, NoReload, KeysIn
<1>7. QED
  BY <1>2, <1>5, <1>6 DEF ImportsInv

\* The caller of a save under way, and where it stands.
LEMMA SaveOfItsCall ==
    ASSUME ImportsInv, NEW r \in saving
    PROVE  /\ r \in Row /\ r.by \in Calls /\ r.key # Malformed
           /\ call[r.by] \in CallRecord /\ call[r.by].at \in {"saving", "cancelled"}
           /\ call[r.by].at = "saving" =>
                /\ call[r.by].kind \in Imports /\ r.at \in 1..Len(call[r.by].items)
                /\ r.key = call[r.by].items[r.at] /\ r.key \in call[r.by].seen
                /\ r.at = call[r.by].next /\ Passed(call[r.by], r.at + 1)
           /\ \A q \in submitted \cup (saving \ {r}) : q.by # r.by
<1>1. r \in Pending /\ r \in Row /\ SaveFits(r)
  BY DEF ImportsInv, TypeInv, SaveInv, Pending
<1>2. r.by \in Calls /\ r.key # Malformed /\ call[r.by] \in CallRecord
  BY <1>1 DEF SaveFits, ImportsInv, TypeInv
<1>3. call[r.by].at \in {"saving", "cancelled"}
  BY <1>1 DEF SaveFits
<1>4. ASSUME call[r.by].at = "saving"
      PROVE  /\ call[r.by].kind \in Imports /\ r.at \in 1..Len(call[r.by].items)
             /\ r.key = call[r.by].items[r.at] /\ r.key \in call[r.by].seen
             /\ r.at = call[r.by].next /\ Passed(call[r.by], r.at + 1)
  <2> DEFINE state == call[r.by]
  <2>1. r.at = state.next /\ r.key = state.items[r.at]
    BY <1>1, <1>4 DEF SaveFits
  <2>2. /\ state.kind \in Imports /\ state.next \in 1..Len(state.items)
        /\ \A i \in 1..state.next : state.items[i] \in state.seen \cup {Malformed}
    BY <1>2, <1>4 DEF ImportsInv, SaveInv
  <2>3. Len(state.items) \in Nat
    BY <1>2 DEF CallRecord
  <2> HIDE DEF state
  <2>4. r.key \in state.seen
    BY <1>2, <2>1, <2>2, <2>3
  <2>5. Passed(state, r.at + 1)
    BY <2>1, <2>2, <2>3 DEF Passed
  <2>6. QED
    BY <2>1, <2>2, <2>4, <2>5 DEF state
<1>5. ASSUME NEW q \in submitted \cup (saving \ {r})
      PROVE  q.by # r.by
  <2>1. q \in Pending /\ q # r
    BY DEF ImportsInv, SaveInv, Pending
  <2>2. QED
    BY <1>1, <2>1 DEF ImportsInv, SaveInv
<1>6. QED
  BY <1>1, <1>2, <1>3, <1>4, <1>5

\* A save lands: its call goes on with the item among its rows, or is gone.
LEMMA SaveLandsKeeps ==
    ASSUME ImportsInv, NEW r, SaveLands(r)
    PROVE  ImportsInv'
<1> DEFINE c == r.by
           state == call[c]
           R == {r}
<1>1. /\ r \in saving /\ saving' = saving \ {r} /\ rows' = rows \cup R
      /\ worker' = worker /\ skipped' = skipped
  BY DEF SaveLands
<1>2. /\ r \in Row /\ c \in Calls /\ r.key # Malformed /\ state \in CallRecord
      /\ state.at \in {"saving", "cancelled"} /\ \A q \in submitted \cup saving' : q.by # c
      /\ state.at = "saving" =>
           /\ state.kind \in Imports /\ r.at \in 1..Len(state.items)
           /\ r.key = state.items[r.at] /\ r.key \in state.seen
           /\ r.at = state.next /\ Passed(state, r.at + 1)
  BY <1>1, SaveOfItsCall
<1>3. ExportInv'
  BY <1>1 DEF ImportsInv, ExportInv, KeysIn
<1>4. CASE state.at = "saving"
  <2>1. Advance(c, state, r.at + 1) /\ call[c].at \in {"worker", "saving"}
    BY <1>4 DEF SaveLands
  <2>2. Alone(c)
    BY <1>2, <2>1, AdvanceAlone DEF ImportsInv
  <2>3. /\ worker' \in [Processes -> Seq(JobRecord)] /\ JobInv' /\ JobsRemain /\ skipped' \in BOOLEAN
    BY <1>1, <1>2, <1>4, <2>2, JobsKept DEF ImportsInv, TypeInv
  <2>4. ~state.errors => Malformed \notin ToSet(state.items)
    BY <1>2 DEF ImportsInv, AddInv
  <2>5. \A l \in LockOf(state.kind) : \A s \in rows : Kept(s, l) => s.key \in state.seen
    BY <1>2, <1>4 DEF ImportsInv, SeenInv
  <2>6. \A s \in rows : \A l \in Locks : r.key = s.key /\ Kept(r, l) => ~Kept(s, l)
    BY <1>1 DEF ImportsInv, SeenInv, Pending
  <2>7. state.kind = "add" => \A i \in 1..Len(worker'["server"]) :
            call[worker'["server"][i].call].kind \notin {"delete", "clear"}
    BY <1>1, <1>2, <1>4 DEF ImportsInv, AddInv
  <2>8. NoReload /\ state.kind = "add" /\ ~state.errors => state.seen \subseteq KeysIn(rows')
    <3>1. SUFFICES ASSUME NoReload, state.kind = "add", ~state.errors
                   PROVE  state.seen \subseteq KeysIn(rows')
      OBVIOUS
    <3>2. state.seen \subseteq KeysIn(rows) \cup {state.items[state.next]}
      BY <1>2, <1>4, <3>1 DEF ImportsInv, AddInv
    <3>3. state.items[state.next] = r.key
      BY <1>2, <1>4
    <3>4. KeysIn(rows) \cup {r.key} \subseteq KeysIn(rows')
      BY <1>1 DEF KeysIn
    <3>5. QED
      BY <3>2, <3>3, <3>4
  <2>9. r.at + 1 \in Nat \ {0} /\ Passed(state, r.at + 1)
    BY <1>2, <1>4 DEF Row
  <2>10. /\ R \in SUBSET Row /\ \A p, s \in R : p = s
         /\ \A s \in R : /\ s.by = c /\ s.key \in state.seen \ {Malformed}
                /\ \A q \in rows : \A l \in Locks : s.key = q.key /\ Kept(s, l) => ~Kept(q, l)
    BY <1>2, <1>4, <2>6
  <2>11. saving' \subseteq saving
    BY <1>1
  <2>12. state.kind = call[c].kind /\ state.items = call[c].items
    OBVIOUS
  <2> HIDE DEF c, R, state
  <2>13. QED
    BY ZenonT(30), <1>1, <1>2, <1>3, <1>4, <2>1, <2>3, <2>4, <2>5, <2>7, <2>8, <2>9, <2>10, <2>11, <2>12,
       AdvanceKeeps
<1>5. CASE state.at # "saving"
  <2>1. call' = call /\ lock' = lock /\ submitted' = submitted
    BY <1>5 DEF SaveLands
  <2>2. SaveInv' /\ SeenInv' /\ NoDoubleSave'
    BY <1>1, <1>5, <2>1, LateLanding DEF ImportsInv
  <2>3. AddInv'
    BY <1>1, <2>1 DEF ImportsInv, AddInv, NoReload, KeysIn
  <2>4. TypeInv' /\ LineInv' /\ JobInv'
    BY <1>1, <1>2, <2>1 DEF ImportsInv, TypeInv, LineInv, JobInv, JobFits
  <2>5. QED
    BY <1>3, <2>2, <2>3, <2>4 DEF ImportsInv
<1>6. QED
  BY <1>4, <1>5

\* A save raises: its item fails, or the whole import.
LEMMA SaveRaisesKeeps ==
    ASSUME ImportsInv, NEW r, SaveRaises(r)
    PROVE  ImportsInv'
<1> DEFINE c == r.by
<1>1. /\ r \in saving /\ saving' = saving \ {r} /\ rows' = rows
      /\ worker' = worker /\ skipped' = skipped
  BY DEF SaveRaises
<1>2. /\ c \in Calls /\ call[c] \in CallRecord
      /\ call[c].at \in {"saving", "cancelled"} /\ \A q \in submitted \cup saving' : q.by # c
      /\ call[c].at = "saving" =>
           /\ call[c].kind \in Imports /\ r.at \in 1..Len(call[c].items)
           /\ r.key = call[c].items[r.at]
           /\ r.at = call[c].next /\ Passed(call[c], r.at + 1)
  BY <1>1, SaveOfItsCall
<1>3. ExportInv' /\ call \in [Calls -> CallRecord]
  BY <1>1 DEF ImportsInv, ExportInv, KeysIn, TypeInv
<1>4. CASE submitted' = submitted /\ (UNCHANGED <<call, lock>> \/ (call[c].at = "saving" /\ Ends(c, "failed")))
  <2>1. /\ call' \in [Calls -> CallRecord] /\ Alone(c)
        /\ \A d \in Calls : call'[d].kind = call[d].kind /\ call'[d].items = call[d].items
                            /\ call'[d].errors = call[d].errors
        /\ \A d \in Calls : call'[d] = call[d] \/ (d = c /\ call[c].at = "saving" /\ call'[d].at = "failed")
    <3>1. CASE UNCHANGED <<call, lock>>
      BY <1>3, <3>1 DEF Alone
    <3>2. CASE call[c].at = "saving" /\ Ends(c, "failed")
      <4> DEFINE new == [call[c] EXCEPT !.at = "failed"]
      <4>1. /\ new \in CallRecord /\ new.at = "failed" /\ new.kind = call[c].kind
            /\ new.items = call[c].items /\ new.errors = call[c].errors
        BY <1>2 DEF CallRecord, Over
      <4>2. call' = [call EXCEPT ![c] = new]
        BY <3>2 DEF Ends
      <4> HIDE DEF new
      <4>3. QED
        BY <1>2, <1>3, <3>2, <4>1, <4>2 DEF Alone
    <3>3. QED
      BY <1>4, <3>1, <3>2
  <2>2. LineInv' /\ lock' \in [Locks -> Seq(Calls)]
    <3>1. CASE UNCHANGED <<call, lock>>
      BY <3>1, LineSame DEF ImportsInv, TypeInv
    <3>2. CASE call[c].at = "saving" /\ Ends(c, "failed")
      <4>1. call'[c].at \in Over /\ lock' = LockFreed(c)
        BY <1>2, <1>3, <3>2 DEF Ends, Over
      <4>2. QED
        BY <1>2, <2>1, <4>1, LineFreed DEF ImportsInv
    <3>3. QED
      BY <1>4, <3>1, <3>2
  <2>3. JobInv' /\ JobsRemain
    <3>1. CASE UNCHANGED <<call, lock>>
      <4>1. JobInv'
        BY <1>1, <3>1 DEF ImportsInv, JobInv, JobFits
      <4>2. \A p \in Processes : Len(worker[p]) \in Nat
        BY DEF ImportsInv, TypeInv
      <4>3. JobsRemain
        BY <1>1, <4>2 DEF JobsRemain
      <4>4. QED
        BY <4>1, <4>3
    <3>2. CASE call[c].at = "saving"
      BY <1>1, <1>2, <2>1, <3>2, JobsKept DEF ImportsInv
    <3>3. QED
      BY <1>4, <3>1, <3>2
  <2>4. SaveInv' /\ SeenInv' /\ NoDoubleSave'
    <3>1. /\ Pending' \subseteq Pending /\ submitted' \subseteq submitted /\ rows' \subseteq rows
          /\ submitted' \cap saving' = {}
      BY <1>1, <1>4 DEF ImportsInv, SaveInv, Pending
    <3>2. \A d \in Calls : call[d].at \in {"saving"} \cup Over =>
             /\ call'[d].kind = call[d].kind /\ call'[d].at \in {"saving"} \cup Over
             /\ call[d].at = "cancelled" => call'[d].at = "cancelled"
      BY <2>1 DEF Over
    <3>3. \A d \in Calls : call'[d].at = "saving" => call'[d] = call[d]
      BY <2>1
    <3>4. \A q \in Pending' : call'[q.by] = call[q.by]
      <4>1. \A q \in Pending' : q.by \in Calls /\ q.by # c
        BY <1>2, <1>4, <3>1 DEF Pending, ImportsInv, SaveInv, SaveFits
      <4>2. QED
        BY <2>1, <4>1
    <3>5. QED
      BY <3>1, <3>2, <3>3, <3>4, QuietSaves DEF ImportsInv
  <2>5. AddInv'
    <3>1. \A d \in Calls : ~call'[d].errors => Malformed \notin ToSet(call'[d].items)
      BY <2>1 DEF ImportsInv, AddInv
    <3>2. \A d \in Calls : call'[d].at = "saving" => call'[d] = call[d]
      BY <2>1
    <3>3. ASSUME NEW i \in 1..Len(worker'["server"])
          PROVE  \E j \in 1..Len(worker["server"]) :
                    /\ worker'["server"][i].call = worker["server"][j].call
                    /\ call'[worker["server"][j].call].kind = call[worker["server"][j].call].kind
      <4>1. worker["server"][i] \in JobRecord /\ i \in 1..Len(worker["server"])
        BY <1>1, <3>3 DEF ImportsInv, TypeInv, Processes
      <4>2. worker["server"][i].call \in Calls
        BY <4>1 DEF JobRecord
      <4>3. QED
        BY <1>1, <2>1, <4>1, <4>2
    <3>4. rows \subseteq rows'
      BY <1>1
    <3>5. QED
      BY <2>1, <3>1, <3>2, <3>3, <3>4, QuietAdd DEF ImportsInv
  <2>6. TypeInv'
    <3>1. \A d \in Calls : call'[d].at = "new" => call'[d].kind # "reload"
      BY <2>1 DEF ImportsInv, TypeInv
    <3>2. QED
      BY <1>1, <1>4, <2>1, <2>2, <3>1 DEF ImportsInv, TypeInv
  <2>7. QED
    BY <1>3, <2>2, <2>3, <2>4, <2>5, <2>6 DEF ImportsInv
<1>5. CASE call[c].at = "saving" /\ Advance(c, [call[c] EXCEPT !.errors = TRUE], r.at + 1)
  <2> DEFINE state == [call[c] EXCEPT !.errors = TRUE]
             R == {}
  <2>1. /\ state \in CallRecord /\ state.kind = call[c].kind /\ state.items = call[c].items
        /\ state.errors = TRUE /\ state.seen = call[c].seen
    BY <1>2 DEF CallRecord
  <2>2. Advance(c, state, r.at + 1)
    BY <1>5
  <2> HIDE DEF state
  <2>3. Alone(c)
    BY <1>2, <2>2, AdvanceAlone DEF ImportsInv
  <2>4. /\ worker' \in [Processes -> Seq(JobRecord)] /\ JobInv' /\ JobsRemain /\ skipped' \in BOOLEAN
    BY <1>1, <1>2, <1>5, <2>3, JobsKept DEF ImportsInv, TypeInv
  <2>5. \A l \in LockOf(state.kind) : \A s \in rows : Kept(s, l) => s.key \in state.seen
    BY <1>2, <1>5, <2>1 DEF ImportsInv, SeenInv
  <2>6. state.kind = "add" => \A i \in 1..Len(worker'["server"]) :
            call[worker'["server"][i].call].kind \notin {"delete", "clear"}
    BY <1>1, <1>2, <1>5, <2>1 DEF ImportsInv, AddInv
  <2>7. Len(call[c].items) \in Nat
    BY <1>2 DEF CallRecord
  <2>8. r.at + 1 \in Nat \ {0} /\ Passed(state, r.at + 1)
    BY <1>2, <1>5, <2>1, <2>7 DEF Passed
  <2>9. /\ R \in SUBSET Row /\ rows' = rows \cup R /\ \A p, s \in R : p = s
        /\ \A s \in R : /\ s.by = c /\ s.key \in state.seen \ {Malformed}
               /\ \A q \in rows : \A l \in Locks : s.key = q.key /\ Kept(s, l) => ~Kept(q, l)
    BY <1>1
  <2>10. saving' \subseteq saving /\ state.kind \in Imports /\ call[c].at \in {"worker", "saving"}
    BY <1>1, <1>2, <1>5, <2>1
  <2>11. /\ ~state.errors => Malformed \notin ToSet(state.items)
         /\ NoReload /\ state.kind = "add" /\ ~state.errors => state.seen \subseteq KeysIn(rows')
    BY <2>1
  <2>12. /\ state \in CallRecord /\ state.kind = call[c].kind /\ state.items = call[c].items
         /\ c \in Calls /\ \A q \in submitted \cup saving' : q.by # c
    BY <1>2, <2>1
  <2> HIDE DEF c, R
  <2> DEFINE k == r.at + 1
  <2>13. k \in Nat \ {0} /\ Passed(state, k) /\ Advance(c, state, k)
    BY <2>2, <2>8
  <2> HIDE DEF k
  <2>14. QED
    BY ZenonT(30), <1>3, <2>4, <2>5, <2>6, <2>9, <2>10, <2>11, <2>12, <2>13, AdvanceKeeps
<1>6. QED
  BY <1>4, <1>5 DEF SaveRaises

-----------------------------------------------------------------------------
(* The theorems. *)

LEMMA InitKeeps == Init => ImportsInv
<1> SUFFICES ASSUME Init PROVE ImportsInv
  OBVIOUS
<1>1. /\ \A c \in Calls : call[c] = Unsent
      /\ \A l \in Locks : lock[l] = <<>>
      /\ \A p \in Processes : worker[p] = <<>>
      /\ submitted = {} /\ saving = {} /\ skipped = FALSE
      /\ \A r \in rows : r.by = Agent
  BY DEF Init
<1>2. Unsent \in CallRecord /\ Unsent.at = "new" /\ Unsent.kind = "export"
      /\ Unsent.items = <<>> /\ Unsent.errors = FALSE
  BY DEF Unsent, CallRecord, Kinds
<1>3. TypeInv
  <2>1. rows \subseteq Row
    BY DEF Init, Row, Keys, Items
  <2>2. /\ call \in [Calls -> CallRecord] /\ lock \in [Locks -> Seq(Calls)]
        /\ worker \in [Processes -> Seq(JobRecord)]
    BY <1>2 DEF Init
  <2>3. QED
    BY <1>1, <1>2, <2>1, <2>2 DEF TypeInv
<1>4. LineInv
  BY <1>1, <1>2 DEF LineInv, InHand
<1>5. JobInv /\ ExportInv
  BY <1>1 DEF JobInv, ExportInv, Processes
<1>6. SaveInv /\ SeenInv
  BY <1>1, <1>2 DEF SaveInv, SeenInv, Pending, Kept
<1>7. AddInv
  BY <1>1, <1>2 DEF AddInv, ToSet
<1>8. NoDoubleSave
  BY <1>1 DEF NoDoubleSave, Guards
<1>9. QED
  BY <1>3, <1>4, <1>5, <1>6, <1>7, <1>8 DEF ImportsInv

LEMMA StutterKeeps ==
    ASSUME ImportsInv, UNCHANGED vars
    PROVE  ImportsInv'
<1>1. /\ call' = call /\ lock' = lock /\ worker' = worker /\ submitted' = submitted
      /\ saving' = saving /\ rows' = rows /\ skipped' = skipped
  BY DEF vars
<1>2. TypeInv' /\ LineInv' /\ JobInv'
  <2>1. TypeInv'
    BY <1>1 DEF ImportsInv, TypeInv
  <2>2. LineInv'
    BY <1>1 DEF ImportsInv, LineInv
  <2>3. JobInv'
    BY <1>1 DEF ImportsInv, JobInv, JobFits
  <2>4. QED
    BY <2>1, <2>2, <2>3
<1>3. SaveInv' /\ SeenInv'
  BY <1>1 DEF ImportsInv, SaveInv, SaveFits, SeenInv, Pending, Kept
<1>4. AddInv' /\ ExportInv' /\ NoDoubleSave'
  BY ZenonT(30), <1>1 DEF ImportsInv, AddInv, NoReload, KeysIn, ExportInv, NoDoubleSave, Guards
<1>5. QED
  BY <1>2, <1>3, <1>4 DEF ImportsInv

LEMMA NextKeeps ==
    ASSUME ImportsInv, [Next]_vars
    PROVE  ImportsInv'
<1>1. ASSUME NEW c \in Calls, Send(c) \/ Submit(c) \/ Cancel(c)
      PROVE  ImportsInv'
  BY <1>1, SendKeeps, SubmitKeeps, CancelKeeps
<1>2. ASSUME NEW p \in Processes, WorkerStep(p)
      PROVE  ImportsInv'
  <2>1. CASE Take(p)
    BY <2>1, TakeKeeps
  <2>2. ASSUME NEW i \in DOMAIN worker[p],
               \/ ReadIds(p, i) \/ Delete(p, i) \/ ReadBaseline(p, i)
               \/ ReadExport(p, i) \/ ReportExport(p, i)
        PROVE  ImportsInv'
    BY <2>2, ReadIdsKeeps, DeleteKeeps, ReadBaselineKeeps, ReadExportKeeps, ReportExportKeeps
  <2>3. QED
    BY <1>2, <2>1, <2>2 DEF WorkerStep
<1>3. ASSUME NEW p \in Processes, NEW i \in DOMAIN worker[p], StoreFails(p, i)
      PROVE  ImportsInv'
  BY <1>3, StoreFailsKeeps
<1>4. ASSUME NEW r \in submitted, SaveStarts(r)
      PROVE  ImportsInv'
  BY <1>4, SaveStartsKeeps
<1>5. ASSUME NEW r \in saving, SaveLands(r) \/ SaveRaises(r)
      PROVE  ImportsInv'
  BY <1>5, SaveLandsKeeps, SaveRaisesKeeps
<1>6. QED
  BY <1>1, <1>2, <1>3, <1>4, <1>5, StutterKeeps DEF Next

\* The inductive invariant holds: the lines of the locks, the queues of the workers,
\* the saves under way, what each call has seen, and the flag of the shared store.
THEOREM ImportsInvariance == Spec => []ImportsInv
<1>1. Init => ImportsInv
  BY InitKeeps
<1>2. ImportsInv /\ [Next]_vars => ImportsInv'
  BY NextKeeps
<1>3. QED
  BY <1>1, <1>2, PTL DEF Spec

\* "re-import is safe" (server.py:422): no item is saved twice by calls one lock
\* keeps apart, unless one of them was cancelled.
THEOREM ReimportIsSafe == Spec => []NoDoubleSave
<1>1. ImportsInv => NoDoubleSave
  BY DEF ImportsInv
<1>2. QED
  BY <1>1, ImportsInvariance, PTL

-----------------------------------------------------------------------------
(* What a success means. *)

\* An addition that reports success has every item of its batch among the rows.
LEMMA ReportedIsStored ==
    ASSUME ImportsInv, NEW c \in Calls, NEW state \in CallRecord, state.kind = call[c].kind,
           state.items = call[c].items, NEW k \in Nat \ {0}, Advance(c, state, k), Passed(state, k),
           ~state.errors => Malformed \notin ToSet(state.items),
           NoReload /\ state.kind = "add" /\ ~state.errors => state.seen \subseteq KeysIn(rows'),
           NoReload, call[c].kind = "add", call'[c].at = "ok"
    PROVE  ToSet(call[c].items) \subseteq KeysIn(rows')
<1>1. call \in [Calls -> CallRecord] /\ Len(state.items) \in Nat /\ state.items \in Seq(Items)
  BY DEF ImportsInv, TypeInv, CallRecord
<1>2. Reports(c, state) /\ Passed(state, Len(state.items) + 1)
  <2>1. ASSUME NEW n \in 1..Len(state.items), GoesOn(c, state, n)
        PROVE  FALSE
    <3> DEFINE new == [state EXCEPT !.at = "saving", !.next = n, !.seen = @ \cup {state.items[n]}]
    <3>1. new.at = "saving"
      BY DEF CallRecord
    <3>2. call'[c] = new
      BY <1>1, <2>1 DEF GoesOn
    <3>3. QED
      BY <3>1, <3>2
  <2>2. QED
    BY <2>1, AdvanceCases
<1>3. ~state.errors
  <2> DEFINE new == [state EXCEPT !.at = Verdict(state)]
  <2>1. call'[c] = new
    BY <1>1, <1>2 DEF Reports
  <2>2. new.at = Verdict(state)
    BY DEF CallRecord
  <2>3. QED
    BY <2>1, <2>2 DEF Verdict
<1>4. Malformed \notin ToSet(state.items) /\ state.seen \subseteq KeysIn(rows')
  BY <1>3
<1>5. ASSUME NEW x \in ToSet(state.items)
      PROVE  x \in KeysIn(rows')
  <2>1. PICK j \in 1..Len(state.items) : x = state.items[j]
    BY <1>1 DEF ToSet
  <2>2. j < Len(state.items) + 1
    BY <1>1
  <2>3. QED
    BY <1>2, <1>4, <2>1, <2>2 DEF Passed
<1>6. QED
  BY <1>5

\* What a step that makes call c a success guarantees, by the kind of the call.
Earned(c) ==
    /\ call[c].kind = "add" /\ NoReload => ToSet(call[c].items) \subseteq KeysIn(rows')
    /\ call[c].kind = "export" =>
            \E i \in DOMAIN worker["server"] :
                /\ worker["server"][i].call = c
                /\ KeysIn(worker["server"][i].found) \subseteq
                        Carried(worker["server"][i].phase) \cup {Foreign}

Succeeds(c) == call[c].at \notin Over /\ call'[c].at = "ok"

\* The memory worker returns to a call that is neither an addition nor an export.
LEMMA ReturnEarns ==
    ASSUME ImportsInv, NEW d \in Calls, NEW how, Returned(d, how),
           how # "failed" => call[d].kind \notin {"add", "export"},
           NEW c \in Calls, Succeeds(c)
    PROVE  Earned(c)
<1>1. call \in [Calls -> CallRecord]
  BY DEF ImportsInv, TypeInv
<1>2. call' # call
  BY DEF Succeeds, Over
<1>3. call' = [call EXCEPT ![d].at = how]
  BY <1>2 DEF Returned, Ends
<1>4. c = d /\ how = "ok"
  <2>1. c = d
    BY <1>1, <1>3 DEF Succeeds, Over
  <2>2. call'[d].at = how
    BY <1>1, <1>3 DEF CallRecord
  <2>3. QED
    BY <2>1, <2>2 DEF Succeeds
<1>5. QED
  BY <1>4 DEF Earned

\* The report of an export that succeeds carries all it read, but for foreign rows.
LEMMA ReportEarns ==
    ASSUME ImportsInv, NEW p \in Processes, NEW i \in DOMAIN worker[p], ReportExport(p, i),
           NEW c \in Calls, Succeeds(c)
    PROVE  Earned(c)
<1> DEFINE h == worker[p][i]
           d == h.call
<1>1. h.on /\ h.phase \in {"json", "csv"}
  BY DEF ReportExport, Formats
<1>2. /\ i \in 1..Len(worker[p]) /\ h \in JobRecord /\ d \in Calls /\ JobFits(call, p, h)
      /\ call \in [Calls -> CallRecord]
  BY <1>1, RunningHead DEF ImportsInv, TypeInv
<1>3. call[d].kind = "export" /\ p = "server"
  BY <1>1, <1>2 DEF JobFits, PhasesOf, ProcessOf
<1>4. PICK how : /\ Returned(d, how)
                 /\ skipped => how = "failed"
                 /\ h.phase = "csv" /\ (\E r \in h.found : r.key \in Docs) => how = "failed"
  BY DEF ReportExport
<1>5. call' = [call EXCEPT ![d].at = how]
  BY <1>4 DEF Returned, Ends, Succeeds, Over
<1>6. c = d
  BY <1>2, <1>5 DEF Succeeds, Over
<1>7. how = "ok"
  <2>1. call'[d].at = how
    BY <1>2, <1>5 DEF CallRecord
  <2>2. QED
    BY <1>6, <2>1 DEF Succeeds
<1>8. Malformed \notin KeysIn(h.found)
  <2>1. ~skipped
    BY <1>4, <1>7
  <2>2. QED
    BY <1>1, <1>2, <1>3, <2>1 DEF ImportsInv, ExportInv
<1>9. KeysIn(h.found) \subseteq Pairs \cup Docs \cup {Foreign}
  BY <1>2, <1>8 DEF JobRecord, Row, Items, KeysIn
<1>10. h.phase = "csv" => KeysIn(h.found) \cap Docs = {}
  BY <1>4, <1>7 DEF KeysIn
<1>11. KeysIn(h.found) \subseteq Carried(h.phase) \cup {Foreign}
  BY <1>1, <1>9, <1>10 DEF Carried, Keys
<1>12. QED
  BY <1>3, <1>6, <1>11 DEF Earned

\* The report of an addition, from its baseline.
LEMMA BaselineEarns ==
    ASSUME ImportsInv, NEW p \in Processes, NEW i \in DOMAIN worker[p], ReadBaseline(p, i),
           NEW c \in Calls, Succeeds(c)
    PROVE  Earned(c)
<1> DEFINE h == worker[p][i]
           d == h.call
<1>1. h.on /\ h.phase = "baseline" /\ rows' = rows
  BY DEF ReadBaseline, JobAt
<1>2. /\ d \in Calls /\ JobFits(call, p, h) /\ call \in [Calls -> CallRecord]
  BY <1>1, RunningHead DEF ImportsInv, TypeInv
<1>3. call[d].kind # "export"
  BY <1>1, <1>2 DEF JobFits, PhasesOf
<1>4. CASE call[d].at # "worker" \/ Corrupt
  <2>1. Returned(d, "failed")
    BY <1>4 DEF ReadBaseline, Returned
  <2>2. QED
    BY <1>2, <2>1, ReturnEarns
<1>5. CASE call[d].at = "worker" /\ ~Corrupt
  <2> DEFINE found == {r.key : r \in rows \ BadRows}
             state == [call[d] EXCEPT !.seen = found]
  <2>1. Advance(d, state, 1)
    BY <1>5 DEF ReadBaseline
  <2>2. found \subseteq Items /\ found \subseteq KeysIn(rows)
    BY DEF ImportsInv, TypeInv, Row, KeysIn
  <2> HIDE DEF found
  <2>3. /\ state \in CallRecord /\ state.kind = call[d].kind /\ state.items = call[d].items
        /\ state.errors = call[d].errors /\ state.seen = found
    BY <1>2, <2>2 DEF CallRecord
  <2> HIDE DEF state
  <2>4. Alone(d)
    BY <1>2, <2>1, AdvanceAlone DEF ImportsInv
  <2>5. c = d
    BY <2>4 DEF Alone, Succeeds, Over
  <2>6. Passed(state, 1)
    BY DEF Passed
  <2>7. ~state.errors => Malformed \notin ToSet(state.items)
    BY <1>2, <2>3 DEF ImportsInv, AddInv
  <2>8. state.seen \subseteq KeysIn(rows')
    BY <1>1, <2>2, <2>3
  <2>9. ASSUME NoReload, call[c].kind = "add"
        PROVE  ToSet(call[c].items) \subseteq KeysIn(rows')
    <3>1. state.kind = call[c].kind /\ state.items = call[c].items /\ Advance(c, state, 1)
      BY <2>1, <2>3, <2>5
    <3>2. 1 \in Nat \ {0} /\ call'[c].at = "ok"
      BY DEF Succeeds
    <3>3. QED
      BY <2>3, <2>6, <2>7, <2>8, <2>9, <3>1, <3>2, ReportedIsStored
  <2>10. QED
    BY <1>3, <2>5, <2>9 DEF Earned
<1>6. QED
  BY <1>4, <1>5

\* The report of an addition, from its last save.
LEMMA SaveEarns ==
    ASSUME ImportsInv, NEW r, SaveLands(r) \/ SaveRaises(r), NEW c \in Calls, Succeeds(c)
    PROVE  Earned(c)
<1> DEFINE d == r.by
<1>1. r \in saving /\ rows \subseteq rows' /\ call \in [Calls -> CallRecord]
  BY DEF SaveLands, SaveRaises, ImportsInv, TypeInv
<1>2. /\ d \in Calls /\ call[d] \in CallRecord /\ r \in Row
      /\ call[d].at = "saving" =>
           /\ call[d].kind \in Imports /\ r.at \in 1..Len(call[d].items)
           /\ r.key = call[d].items[r.at]
           /\ r.at = call[d].next /\ Passed(call[d], r.at + 1)
  BY <1>1, SaveOfItsCall
<1>3. call' # call
  BY DEF Succeeds, Over
<1>4. call[d].at = "saving"
  BY <1>3 DEF SaveLands, SaveRaises
<1>5. call[d].kind \in Imports /\ r.at + 1 \in Nat \ {0} /\ Passed(call[d], r.at + 1)
  BY <1>2, <1>4 DEF Row
<1>6. ~Ends(d, "failed")
  <2>1. SUFFICES ASSUME Ends(d, "failed") PROVE FALSE
    OBVIOUS
  <2>2. call' = [call EXCEPT ![d].at = "failed"]
    BY <2>1 DEF Ends
  <2>3. call'[d].at = "failed" /\ \A e \in Calls \ {d} : call'[e] = call[e]
    BY <1>1, <1>2, <2>2 DEF CallRecord
  <2>4. QED
    BY <2>3 DEF Succeeds, Over
<1>7. \E state \in CallRecord :
         /\ state.kind = call[d].kind /\ state.items = call[d].items /\ state.seen = call[d].seen
         /\ Advance(d, state, r.at + 1)
         /\ ~state.errors => ~call[d].errors /\ SaveLands(r)
  <2>1. CASE SaveLands(r)
    <3>1. Advance(d, call[d], r.at + 1)
      BY <1>4, <2>1 DEF SaveLands
    <3>2. QED
      BY <1>2, <2>1, <3>1
  <2>2. CASE SaveRaises(r)
    <3> DEFINE state == [call[d] EXCEPT !.errors = TRUE]
    <3>1. /\ state \in CallRecord /\ state.kind = call[d].kind /\ state.items = call[d].items
          /\ state.seen = call[d].seen /\ state.errors
      BY <1>2 DEF CallRecord
    <3>2. Advance(d, state, r.at + 1)
      BY <1>4, <1>6, <2>2 DEF SaveRaises
    <3> HIDE DEF state
    <3>3. QED
      BY <3>1, <3>2
  <2>3. QED
    BY <2>1, <2>2
<1>8. PICK state \in CallRecord :
         /\ state.kind = call[d].kind /\ state.items = call[d].items /\ state.seen = call[d].seen
         /\ Advance(d, state, r.at + 1)
         /\ ~state.errors => ~call[d].errors /\ SaveLands(r)
  BY <1>7
<1>9. Alone(d)
  BY <1>2, <1>8, AdvanceAlone DEF ImportsInv
<1>10. c = d
  BY <1>9 DEF Alone, Succeeds, Over
<1>11. Passed(state, r.at + 1)
  BY <1>5, <1>8 DEF Passed
<1>12. ~state.errors => Malformed \notin ToSet(state.items)
  BY <1>2, <1>8 DEF ImportsInv, AddInv
<1>13. NoReload /\ state.kind = "add" /\ ~state.errors => state.seen \subseteq KeysIn(rows')
  <2>1. SUFFICES ASSUME NoReload, state.kind = "add", ~state.errors
                 PROVE  state.seen \subseteq KeysIn(rows')
    OBVIOUS
  <2>2. call[d].kind = "add" /\ ~call[d].errors /\ SaveLands(r)
    BY <1>8, <2>1
  <2>3. call[d].seen \subseteq KeysIn(rows) \cup {call[d].items[call[d].next]}
    BY <1>2, <1>4, <2>1, <2>2 DEF ImportsInv, AddInv
  <2>4. call[d].items[call[d].next] = r.key
    BY <1>2, <1>4
  <2>5. KeysIn(rows) \cup {r.key} \subseteq KeysIn(rows')
    BY <2>2 DEF KeysIn, SaveLands
  <2>6. QED
    BY <1>8, <2>3, <2>4, <2>5
<1>14. ASSUME NoReload, call[c].kind = "add"
       PROVE  ToSet(call[c].items) \subseteq KeysIn(rows')
  <2> DEFINE k == r.at + 1
  <2>1. k \in Nat \ {0} /\ Passed(state, k) /\ Advance(c, state, k)
    BY <1>5, <1>8, <1>10, <1>11
  <2>2. state.kind = call[c].kind /\ state.items = call[c].items /\ call'[c].at = "ok"
    BY <1>8, <1>10 DEF Succeeds
  <2> HIDE DEF k
  <2>3. QED
    BY <1>12, <1>13, <1>14, <2>1, <2>2, ReportedIsStored
<1>15. call[c].kind # "export"
  BY <1>5, <1>10 DEF Imports
<1>16. QED
  BY <1>14, <1>15 DEF Earned

\* Every way a call comes to its success.
LEMMA SuccessIsEarned ==
    ASSUME ImportsInv, [Next]_vars, NEW c \in Calls, Succeeds(c)
    PROVE  Earned(c)
<1>1. call' # call /\ call \in [Calls -> CallRecord]
  BY DEF Succeeds, Over, ImportsInv, TypeInv
<1>2. ASSUME NEW d \in Calls, Send(d) \/ Submit(d) \/ Cancel(d)
      PROVE  FALSE
  <2>1. CASE Send(d)
    <3>1. \E kind \in Kinds : \E items \in Seq(Items) : \E to \in {"refused", "waiting"} :
            call' = [call EXCEPT ![d] = [at |-> to, kind |-> kind, items |-> items, next |-> 0,
                                         seen |-> {}, errors |-> Malformed \in ToSet(items)]]
      <4>1. <<>> \in Seq(Items) /\ Batches \subseteq Seq(Items)
        BY BatchesAssumption DEF Items
      <4>2. QED
        BY <2>1, <4>1 DEF Send
    <3>2. call'[d].at \in {"refused", "waiting"} /\ \A e \in Calls \ {d} : call'[e] = call[e]
      BY <1>1, <3>1
    <3>3. QED
      BY <3>2 DEF Succeeds, Over
  <2>2. CASE Submit(d) \/ Cancel(d)
    <3>1. call' = [call EXCEPT ![d].at = "worker"] \/ call' = [call EXCEPT ![d].at = "cancelled"]
      BY <2>2 DEF Submit, Cancel, Ends
    <3>2. call'[d].at \in {"worker", "cancelled"} /\ \A e \in Calls \ {d} : call'[e] = call[e]
      BY <1>1, <3>1 DEF CallRecord
    <3>3. QED
      BY <3>2 DEF Succeeds, Over
  <2>3. QED
    BY <1>2, <2>1, <2>2
<1>3. ASSUME NEW p \in Processes, WorkerStep(p) \/ \E i \in DOMAIN worker[p] : StoreFails(p, i)
      PROVE  Earned(c)
  <2>1. ~Take(p)
    BY <1>1 DEF Take
  <2>2. ASSUME NEW i \in DOMAIN worker[p], worker[p][i].on, NEW how, Returned(worker[p][i].call, how),
               how # "failed" => worker[p][i].phase \in {"ids", "delete"}
        PROVE  Earned(c)
    <3> DEFINE d == worker[p][i].call
    <3>1. d \in Calls /\ JobFits(call, p, worker[p][i])
      BY <2>2, RunningHead DEF ImportsInv, TypeInv
    <3>2. worker[p][i].phase \in {"ids", "delete"} => call[d].kind \notin {"add", "export"}
      BY <3>1 DEF JobFits, PhasesOf
    <3> HIDE DEF d
    <3>3. QED
      BY <2>2, <3>1, <3>2, ReturnEarns DEF d
  <2>3. ASSUME NEW i \in DOMAIN worker[p], ReadIds(p, i) \/ Delete(p, i) \/ StoreFails(p, i)
                                           \/ ReadExport(p, i)
        PROVE  Earned(c)
    <3>1. CASE ReadIds(p, i)
      <4>1. worker[p][i].on /\ worker[p][i].phase = "ids"
        BY <3>1 DEF ReadIds, JobAt
      <4>2. \E how : Returned(worker[p][i].call, how)
        BY <1>1, <3>1 DEF ReadIds
      <4>3. QED
        BY <2>2, <4>1, <4>2
    <3>2. CASE Delete(p, i)
      <4>1. worker[p][i].on /\ worker[p][i].phase = "delete"
        BY <3>2 DEF Delete, JobAt
      <4>2. Returned(worker[p][i].call, "ok")
        BY <1>1, <3>2 DEF Delete
      <4>3. QED
        BY <2>2, <4>1, <4>2
    <3>3. CASE StoreFails(p, i)
      BY <2>2, <3>3 DEF StoreFails
    <3>4. CASE ReadExport(p, i)
      <4>1. worker[p][i].on /\ Returned(worker[p][i].call, "failed")
        BY <1>1, <3>4 DEF ReadExport, JobAt
      <4>2. QED
        BY <2>2, <4>1
    <3>5. QED
      BY <2>3, <3>1, <3>2, <3>3, <3>4
  <2>4. QED
    BY <1>3, <2>1, <2>3, ReportEarns, BaselineEarns DEF WorkerStep
<1>4. ASSUME NEW r, SaveStarts(r)
      PROVE  FALSE
  BY <1>1, <1>4 DEF SaveStarts
<1>5. QED
  BY <1>1, <1>2, <1>3, <1>4, SaveEarns DEF Next, vars

\* A successful add_memories leaves every item it was given in the store, as long as
\* nobody reloads it from the command line.
THEOREM AdditionsAreStored == Spec => AddedIsStored
<1> DEFINE Stored ==
        \A c \in Calls :
          /\ call[c].at \notin Over /\ call[c].kind = "add" /\ call'[c].at = "ok"
          /\ \A d \in Calls : call[d].kind # "reload"
          => ToSet(call[c].items) \subseteq {r.key : r \in rows'}
<1>1. ImportsInv /\ [Next]_vars => Stored
  <2> SUFFICES ASSUME ImportsInv, [Next]_vars PROVE Stored
    OBVIOUS
  <2>1. \A c \in Calls : Succeeds(c) => Earned(c)
    BY SuccessIsEarned
  <2>2. QED
    BY <2>1 DEF Succeeds, Earned, NoReload, KeysIn
<1>2. ImportsInv /\ [Next]_vars => [Stored]_vars
  BY <1>1
<1>3. Spec => [][Stored]_vars
  BY <1>2, ImportsInvariance, PTL DEF Spec
<1>4. QED
  BY <1>3 DEF AddedIsStored

\* "a destroyed backup never serializes as an empty success" (admin.py:322): an export
\* that succeeds carries, in its format, every row it read that a bundle has a place for.
THEOREM ExportsHoldEverything == Spec => ExportHeldEverything
<1> DEFINE Held ==
      \A c \in Calls :
         call[c].kind = "export" /\ call[c].at = "worker" /\ call'[c].at = "ok" =>
            \E i \in DOMAIN worker["server"] :
               LET job == worker["server"][i]
               IN  /\ job.call = c
                   /\ {r.key : r \in job.found} \subseteq Carried(job.phase) \cup {Foreign}
<1>1. ImportsInv /\ [Next]_vars => Held
  <2> SUFFICES ASSUME ImportsInv, [Next]_vars, NEW c \in Calls,
                      call[c].kind = "export", call[c].at = "worker", call'[c].at = "ok"
               PROVE  \E i \in DOMAIN worker["server"] :
                          /\ worker["server"][i].call = c
                          /\ KeysIn(worker["server"][i].found) \subseteq
                                Carried(worker["server"][i].phase) \cup {Foreign}
    BY DEF KeysIn
  <2>1. Succeeds(c)
    BY DEF Succeeds, Over
  <2>2. QED
    BY <2>1, SuccessIsEarned DEF Earned
<1>2. ImportsInv /\ [Next]_vars => [Held]_vars
  BY <1>1
<1>3. Spec => [][Held]_vars
  BY <1>2, ImportsInvariance, PTL DEF Spec
<1>4. QED
  BY <1>3 DEF ExportHeldEverything
=============================================================================
