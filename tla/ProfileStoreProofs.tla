------------------------- MODULE ProfileStoreProofs -------------------------
(***************************************************************************)
(* Proofs about the profile store, for any calls, names and profiles and any *)
(* number of crashes: between two writes the cache is what a restart would   *)
(* read, a crash loses no confirmed profile, cancelled writes apart, and only *)
(* a process that could not read a file with legacy names writes over it.     *)
(*                                                                         *)
(* Neither property is inductive.  While a call saves, the cache is ahead of *)
(* the file by exactly that call's change, until its write lands; so undoing *)
(* the change gives the file again.  For a process that could not read its    *)
(* file the same holds of the empty cache that it took it for, until its own  *)
(* first write makes the two one.  A call cancelled before its thread took *)
(* the write changes nothing; one whose write has landed, or will, taints    *)
(* the store until the next restart, which reads the file afresh.            *)
(***************************************************************************)
EXTENDS ProfileStore, TLAPS

Bodies == Values \cup {None}
Caches == [Names -> Bodies]

\* A cancelled call's write has landed.
Tainted == \E c \in Calls : stage[c] = "cancelled" /\ job[c] = "landed"

\* The cache without the change of call c.
CacheWithout(c) == [profiles EXCEPT ![op[c].name] = prior[c]]

-----------------------------------------------------------------------------
(* The inductive invariant. *)

TypeInv ==
    /\ up \in BOOLEAN /\ invalid \in BOOLEAN /\ degraded \in BOOLEAN /\ unread \in BOOLEAN
    /\ file \in Files /\ profiles \in Caches /\ confirmed \in Caches /\ erased \subseteq Names
    /\ stage \in [Calls -> {"new", "waiting", "saving"} \cup Ended]
    /\ op \in [Calls -> [name : Names, body : Bodies]]
    /\ prior \in [Calls -> Bodies]
    /\ holder \in Calls \cup {None}
    /\ job \in [Calls -> {"none", "queued", "running", "landed", "failed", "dropped", "gone"}]
    /\ payload \in [Calls -> Caches]

LineInv ==
    /\ line \in Seq(Calls)
    /\ \A i \in 1 .. Len(line) : stage[line[i]] = "waiting"
    /\ \A i, j \in 1 .. Len(line) : line[i] = line[j] => i = j

\* The lock is held by the call that saves, and its line holds who waits.
LockInv ==
    /\ \A c \in Calls : holder = c <=> stage[c] = "saving"
    /\ LineInv

\* A write belongs to a call that saves or was cancelled while it did.
JobInv ==
    \A c \in Calls :
        /\ stage[c] \in {"new", "waiting"} => job[c] = "none"
        /\ job[c] \in {"queued", "running"} => up /\ stage[c] \in {"saving", "cancelled"}
        /\ stage[c] = "saving" => up /\ job[c] \in {"queued", "running", "landed", "failed"}
        /\ up /\ stage[c] = "lost" => job[c] # "landed"

\* A call that saves has its change in the cache, and the cache in its payload.
SavingInv ==
    \A c \in Calls : stage[c] = "saving" =>
        payload[c] = profiles /\ profiles[op[c].name] = op[c].body

\* What the process takes the file for is the cache, but for the change of a
\* write that has not landed.
FileInv ==
    /\ unread => degraded /\ erased = {}
    /\ \A c \in Calls : stage[c] = "saving" /\ job[c] = "landed" => ~unread
    /\ up /\ ~Tainted =>
        /\ holder = None => profiles = Seen
        /\ \A c \in Calls : stage[c] = "saving" =>
              Seen = IF job[c] = "landed" THEN profiles ELSE CacheWithout(c)

\* What was confirmed is in the file, or just overwritten by a call's own write.
Kept(nm) ==
    \/ Loaded(file)[nm] = confirmed[nm]
    \/ \E c \in Calls : /\ stage[c] \in {"saving", "lost"} /\ job[c] = "landed"
                        /\ op[c].name = nm /\ Loaded(file)[nm] = op[c].body

ConfirmedInv == ~Tainted => \A nm \in Names \ erased : Kept(nm)

StoreInv == TypeInv /\ LockInv /\ JobInv /\ SavingInv /\ FileInv /\ ConfirmedInv

-----------------------------------------------------------------------------
(* Files and caches. *)

LEMMA LoadedType ==
    ASSUME NEW f \in Files, NEW fails \in BOOLEAN
    PROVE  Loaded(f) \in Caches /\ Read(f, fails) \in Caches
  BY DEF Files, Loaded, Read, Caches, Bodies

LEMMA WrittenIsRead ==
    ASSUME NEW cache \in Caches
    PROVE  FileOf(cache) \in Files /\ Loaded(FileOf(cache)) = cache
  <1>1. FileOf(cache).corrupt = FALSE /\ FileOf(cache).entries = cache
    BY DEF FileOf
  <1>2. \A nm \in Names : cache[nm] # Bad
    BY StoreAssumption DEF Caches, Bodies
  <1>3. Loaded(FileOf(cache)) = [nm \in Names |-> cache[nm]]
    BY <1>1, <1>2 DEF Loaded
  <1>4. FileOf(cache) \in Files
    BY DEF FileOf, Files, Caches, Bodies
  <1> QED
    BY <1>3, <1>4 DEF Caches

LEMMA StoreStarts == Init => StoreInv
  <1> SUFFICES ASSUME Init PROVE StoreInv
    OBVIOUS
  <1>1. Loaded(file) \in Caches /\ Seen \in Caches
    BY LoadedType DEF Init, Seen
  <1>2. TypeInv
    BY <1>1, StoreAssumption DEF Init, TypeInv, Legacy, LoadError, Files, Caches, Bodies
  <1>3. LockInv /\ JobInv /\ SavingInv /\ FileInv /\ ConfirmedInv
    BY StoreAssumption DEF Init, LockInv, JobInv, SavingInv, FileInv, Seen, ConfirmedInv, Kept, Tainted,
           LineInv
  <1> QED
    BY <1>2, <1>3 DEF StoreInv

-----------------------------------------------------------------------------
(* The steps of a call. *)

\* With the lock free no call saves, and what is confirmed is in the file.
LEMMA FreeLock ==
    ASSUME StoreInv, up, holder = None
    PROVE  /\ \A c \in Calls : stage[c] # "saving"
           /\ ~Tainted => profiles = Seen
           /\ ~Tainted => \A nm \in Names \ erased : Loaded(file)[nm] = confirmed[nm]
  <1>1. \A c \in Calls : stage[c] # "saving"
    BY StoreAssumption DEF StoreInv, LockInv
  <1> QED
    BY <1>1 DEF StoreInv, FileInv, Seen, ConfirmedInv, Kept, JobInv

\* A call that has not got the lock is refused, gives up, or gets in line.
LEMMA WaiterKeeps ==
    ASSUME StoreInv, NEW c \in Calls, stage[c] \in {"new", "waiting"},
           NEW s \in {"failed", "refused", "missing", "cancelled", "waiting"},
           stage' = [stage EXCEPT ![c] = s], LineInv',
           op' \in [Calls -> [name : Names, body : Bodies]],
           \A d \in Calls \ {c} : op'[d] = op[d],
           UNCHANGED <<up, storeVars, prior, holder, job, payload, confirmed, erased>>
    PROVE  StoreInv'
  <1>1. TypeInv'
    BY DEF StoreInv, TypeInv, storeVars, history, Ended
  <1>2. job[c] = "none"
    BY DEF StoreInv, JobInv
  <1>3. /\ stage'[c] = s /\ \A d \in Calls \ {c} : stage'[d] = stage[d]
    BY DEF StoreInv, TypeInv
  <1>4. LockInv' /\ JobInv'
    BY <1>2, <1>3 DEF StoreInv, LockInv, JobInv
  <1>5. SavingInv'
    BY <1>3 DEF StoreInv, SavingInv, storeVars, history
  <1>6. Tainted' <=> Tainted
    BY <1>2, <1>3 DEF Tainted
  <1>7. FileInv'
    BY <1>3, <1>6 DEF StoreInv, FileInv, Seen, storeVars, history, CacheWithout
  <1>8. erased' = erased /\ \A nm \in Names : Kept(nm) => Kept(nm)'
    BY <1>2, <1>3 DEF Kept, storeVars, history
  <1> QED
    BY <1>1, <1>4, <1>5, <1>6, <1>7, <1>8 DEF StoreInv, ConfirmedInv

\* A call that has the lock changes the cache and submits its write, or fails.
LEMMA LockedKeeps ==
    ASSUME StoreInv, up, holder = None, NEW c \in Calls, stage[c] \in {"new", "waiting"},
           NEW o \in [name : Names, body : Bodies], Locked(c, o), LineInv',
           op' = [op EXCEPT ![c] = o],
           UNCHANGED <<up, file, invalid, degraded, unread, confirmed, erased>>
    PROVE  StoreInv'
  <1>1. op' \in [Calls -> [name : Names, body : Bodies]] /\ op'[c] = o
        /\ \A d \in Calls \ {c} : op'[d] = op[d]
    BY DEF StoreInv, TypeInv
  <1>2. CASE /\ stage' = [stage EXCEPT ![c] = "missing"] \/ stage' = [stage EXCEPT ![c] = "refused"]
                \/ stage' = [stage EXCEPT ![c] = "failed"]
             /\ holder' = None /\ UNCHANGED <<profiles, prior, payload, job>>
    BY <1>1, <1>2, WaiterKeeps DEF storeVars, history
  <1>3. CASE /\ profiles' = [profiles EXCEPT ![o.name] = o.body]
             /\ prior' = [prior EXCEPT ![c] = profiles[o.name]]
             /\ payload' = [payload EXCEPT ![c] = profiles']
             /\ job' = [job EXCEPT ![c] = "queued"]
             /\ stage' = [stage EXCEPT ![c] = "saving"]
             /\ holder' = c
    <2>1. profiles' \in Caches /\ profiles'[o.name] = o.body
          /\ [profiles' EXCEPT ![o.name] = profiles[o.name]] = profiles
      BY <1>3 DEF StoreInv, TypeInv, Caches
    <2>2. TypeInv'
      BY <1>1, <1>3, <2>1 DEF StoreInv, TypeInv, Caches
    <2>3. /\ stage'[c] = "saving" /\ job'[c] = "queued" /\ payload'[c] = profiles'
          /\ prior'[c] = profiles[o.name]
          /\ \A d \in Calls \ {c} : stage'[d] = stage[d] /\ job'[d] = job[d]
      BY <1>3 DEF StoreInv, TypeInv
    <2>4. \A d \in Calls : stage'[d] = "saving" => d = c
      BY <2>3, FreeLock
    <2>5. LockInv' /\ JobInv'
      BY <1>3, <2>3, <2>4 DEF StoreInv, LockInv, JobInv
    <2>6. SavingInv'
      BY <1>1, <2>1, <2>3, <2>4 DEF SavingInv
    <2>7. Tainted' <=> Tainted
      BY <2>3 DEF Tainted
    <2>8. CacheWithout(c)' = profiles
      BY <1>1, <2>1, <2>3 DEF CacheWithout
    <2>9. FileInv'
      <3>1. UNCHANGED <<up, unread, degraded, erased, Seen>> /\ job'[c] # "landed" /\ holder' # None
        BY <1>3, <2>3, StoreAssumption DEF Seen
      <3>2. ~Tainted => Seen' = CacheWithout(c)'
        BY <2>8, <3>1, FreeLock
      <3> QED
        BY <2>4, <2>7, <3>1, <3>2 DEF StoreInv, FileInv
    <2>10. ConfirmedInv'
      BY <2>7, FreeLock DEF ConfirmedInv, Kept
    <2> QED
      BY <2>2, <2>5, <2>6, <2>9, <2>10 DEF StoreInv
  <1> QED
    BY <1>2, <1>3 DEF Locked, Submit

\* In the running process one call at most saves, and none that was lost wrote.
LEMMA OneSaves ==
    ASSUME StoreInv, NEW c \in Calls, stage[c] = "saving"
    PROVE  /\ up /\ holder = c
           /\ \A d \in Calls : stage[d] = "saving" => d = c
           /\ \A d \in Calls : stage[d] = "lost" => job[d] # "landed"
  BY DEF StoreInv, LockInv, JobInv

LEMMA WriteStartsKeeps == ASSUME StoreInv, NEW c \in Calls, WriteStarts(c) PROVE StoreInv'
  <1>1. /\ job'[c] = "running" /\ \A d \in Calls \ {c} : job'[d] = job[d]
        /\ stage[c] \in {"saving", "cancelled"} /\ job[c] = "queued" /\ up
    BY DEF WriteStarts, StoreInv, TypeInv, JobInv
  <1>2. TypeInv'
    BY DEF WriteStarts, StoreInv, TypeInv, storeVars, history
  <1>3. LockInv' /\ JobInv' /\ SavingInv'
    BY <1>1 DEF WriteStarts, StoreInv, LockInv, LineInv, JobInv, SavingInv, storeVars, history
  <1>4. Tainted' <=> Tainted
    BY <1>1 DEF WriteStarts, Tainted
  <1>5. FileInv'
    BY <1>1, <1>4 DEF WriteStarts, StoreInv, FileInv, Seen, CacheWithout, storeVars, history
  <1>6. erased' = erased /\ \A nm \in Names : Kept(nm) => Kept(nm)'
    BY <1>1 DEF WriteStarts, Kept, storeVars, history
  <1> QED
    BY <1>2, <1>3, <1>4, <1>5, <1>6 DEF StoreInv, ConfirmedInv

LEMMA WriteStopsKeeps ==
    ASSUME StoreInv, NEW c \in Calls, WriteFails(c) \/ WriteDropped(c)
    PROVE  StoreInv'
  <1>1. /\ job'[c] \in {"failed", "dropped"} /\ \A d \in Calls \ {c} : job'[d] = job[d]
        /\ stage[c] = "saving" => job'[c] = "failed"
        /\ stage[c] \in {"saving", "cancelled"} /\ job[c] \in {"queued", "running"} /\ up
    BY DEF WriteFails, WriteDropped, StoreInv, TypeInv, JobInv
  <1>2. TypeInv'
    BY DEF WriteFails, WriteDropped, StoreInv, TypeInv, storeVars, history
  <1>3. LockInv' /\ JobInv' /\ SavingInv'
    <2>1. UNCHANGED <<up, profiles, stage, op, holder, line, payload>>
      BY DEF WriteFails, WriteDropped, storeVars, history
    <2>2. LockInv' /\ SavingInv'
      BY <2>1 DEF StoreInv, LockInv, LineInv, SavingInv
    <2>3. JobInv'
      BY <1>1, <2>1 DEF StoreInv, JobInv
    <2> QED
      BY <2>2, <2>3
  <1>4. Tainted' <=> Tainted
    BY <1>1 DEF WriteFails, WriteDropped, Tainted
  <1>5. FileInv'
    <2>1. UNCHANGED <<up, unread, degraded, erased, holder, stage, profiles, op, prior, Seen>>
      BY DEF WriteFails, WriteDropped, storeVars, history, Seen
    <2>2. \A d \in Calls : CacheWithout(d)' = CacheWithout(d)
      BY <2>1 DEF CacheWithout
    <2>3. \A d \in Calls : stage[d] = "saving" => (job'[d] = "landed" <=> job[d] = "landed")
      BY <1>1
    <2> QED
      BY <1>4, <2>1, <2>2, <2>3 DEF StoreInv, FileInv
  <1>6. erased' = erased /\ \A nm \in Names : Kept(nm) => Kept(nm)'
    BY <1>1 DEF WriteFails, WriteDropped, Kept, storeVars, history
  <1> QED
    BY <1>2, <1>3, <1>4, <1>5, <1>6 DEF StoreInv, ConfirmedInv

\* The write of a call that still waits for it makes the file the cache.
LEMMA WriteLandsKeeps == ASSUME StoreInv, NEW c \in Calls, WriteLands(c) PROVE StoreInv'
  <1>1. /\ job'[c] = "landed" /\ \A d \in Calls \ {c} : job'[d] = job[d]
        /\ stage[c] \in {"saving", "cancelled"} /\ job[c] = "running" /\ up
        /\ payload[c] \in Caches
    BY DEF WriteLands, StoreInv, TypeInv, JobInv
  <1>2. file' \in Files /\ Loaded(file)' = payload[c] /\ Seen' = payload[c] /\ ~unread'
    BY <1>1, WrittenIsRead DEF WriteLands, Loaded, Seen, Read
  <1>3. TypeInv'
    BY <1>2 DEF WriteLands, StoreInv, TypeInv
  <1>4. LockInv' /\ JobInv' /\ SavingInv'
    BY <1>1 DEF WriteLands, StoreInv, LockInv, LineInv, JobInv, SavingInv
  <1>5. CASE stage[c] = "cancelled"
    <2>1. Tainted'
      BY <1>1, <1>5 DEF Tainted, WriteLands
    <2> QED
      BY <1>2, <1>3, <1>4, <2>1 DEF StoreInv, FileInv, ConfirmedInv
  <1>6. CASE stage[c] = "saving"
    <2>1. Loaded(file)' = profiles /\ Seen' = profiles /\ profiles[op[c].name] = op[c].body
      BY <1>2, <1>6 DEF StoreInv, SavingInv
    <2>2. Tainted' <=> Tainted
      BY <1>1, <1>6 DEF WriteLands, Tainted
    <2>3. FileInv'
      BY <1>1, <1>2, <1>6, <2>1, OneSaves, StoreAssumption DEF WriteLands, FileInv
    <2>4. ASSUME ~Tainted, NEW nm \in Names \ erased' PROVE Kept(nm)'
      <3>1. Seen = CacheWithout(c) /\ (unread => erased = {})
        BY <1>1, <1>6, <2>4 DEF StoreInv, FileInv
      <3>2. CASE nm = op[c].name
        BY <1>1, <1>6, <2>1, <3>2 DEF WriteLands, Kept
      <3>3. CASE nm # op[c].name
        <4>1. profiles[nm] = Seen[nm]
          BY <3>1, <3>3 DEF CacheWithout, StoreInv, TypeInv, Caches
        <4>2. Seen[nm] = Loaded(file)[nm] /\ nm \notin erased
          <5>1. CASE unread
            <6>1. Loaded(file)[nm] = None /\ nm \notin erased
              BY <2>4, <3>1, <3>3, <5>1 DEF WriteLands
            <6> QED
              BY <5>1, <6>1 DEF Seen, Read
          <5>2. CASE ~unread
            BY <2>4, <5>2 DEF WriteLands, Seen, Read
          <5> QED
            BY <5>1, <5>2
        <4>3. Loaded(file)[nm] = confirmed[nm]
          BY <1>1, <1>6, <2>4, <4>2, OneSaves DEF StoreInv, ConfirmedInv, Kept
        <4> QED
          BY <2>1, <4>1, <4>2, <4>3 DEF WriteLands, Kept
      <3> QED
        BY <3>2, <3>3
    <2> QED
      BY <1>3, <1>4, <2>2, <2>3, <2>4 DEF StoreInv, ConfirmedInv
  <1> QED
    BY <1>1, <1>5, <1>6

\* The caller returns once its write is in the file.
LEMMA SaveReturnsKeeps == ASSUME StoreInv, NEW c \in Calls, SaveReturns(c) PROVE StoreInv'
  <1>1. /\ stage'[c] = "saved" /\ \A d \in Calls \ {c} : stage'[d] = stage[d]
        /\ stage[c] = "saving" /\ job[c] = "landed"
        /\ op[c].name \in Names /\ op[c].body \in Bodies
    BY DEF SaveReturns, StoreInv, TypeInv
  <1>2. TypeInv'
    BY <1>1 DEF SaveReturns, StoreInv, TypeInv, storeVars, history, Ended, Caches
  <1>3. \A d \in Calls : stage'[d] # "saving"
    BY <1>1, OneSaves
  <1>4. LockInv' /\ JobInv' /\ SavingInv'
    BY <1>1, <1>3, StoreAssumption
       DEF SaveReturns, StoreInv, LockInv, LineInv, JobInv, SavingInv, storeVars, history
  <1>5. Tainted' <=> Tainted
    BY <1>1 DEF SaveReturns, Tainted
  <1>6. ~unread /\ (~Tainted => Loaded(file) = profiles /\ Seen = profiles)
    BY <1>1, OneSaves DEF StoreInv, FileInv, Seen, Read
  <1>7. FileInv'
    BY <1>3, <1>5, <1>6 DEF SaveReturns, FileInv, Seen, storeVars
  <1>8. ASSUME ~Tainted, NEW nm \in Names \ erased' PROVE Kept(nm)'
    <2>1. Loaded(file)[nm] = confirmed'[nm]
      <3>1. CASE nm = op[c].name
        BY <1>1, <1>6, <1>8, <3>1 DEF SaveReturns, StoreInv, SavingInv, TypeInv, Caches
      <3>2. CASE nm # op[c].name
        BY <1>1, <1>8, <3>2, OneSaves
           DEF SaveReturns, StoreInv, ConfirmedInv, Kept, TypeInv, Caches
      <3> QED
        BY <3>1, <3>2
    <2> QED
      BY <2>1 DEF Kept, SaveReturns, storeVars, history
  <1> QED
    BY <1>2, <1>4, <1>5, <1>7, <1>8 DEF StoreInv, ConfirmedInv

\* A caller told of a failure, or cancelled, undoes its change: what is left is
\* the file, unless the write has landed, and then the store is tainted.
LEMMA SaveEndsBadlyKeeps ==
    ASSUME StoreInv, NEW c \in Calls, SaveFails(c) \/ CancelSaving(c)
    PROVE  StoreInv'
  <1>1. /\ stage'[c] \in {"failed", "cancelled"} /\ \A d \in Calls \ {c} : stage'[d] = stage[d]
        /\ stage'[c] = "failed" => job[c] = "failed"
        /\ stage[c] = "saving" /\ holder' = None
        /\ profiles' = CacheWithout(c)
        /\ UNCHANGED <<up, file, invalid, degraded, unread, op, prior, line, job, payload, confirmed, erased>>
    BY DEF SaveFails, CancelSaving, Undone, CacheWithout, StoreInv, TypeInv, history
  <1>2. TypeInv'
    <2>1. profiles' \in Caches
      BY <1>1 DEF StoreInv, TypeInv, CacheWithout, Caches
    <2>2. stage' \in [Calls -> {"new", "waiting", "saving"} \cup Ended]
      BY DEF SaveFails, CancelSaving, StoreInv, TypeInv, Ended
    <2> QED
      BY <1>1, <2>1, <2>2 DEF StoreInv, TypeInv
  <1>3. \A d \in Calls : stage'[d] # "saving"
    BY <1>1, OneSaves
  <1>4. LockInv' /\ JobInv' /\ SavingInv'
    BY <1>1, <1>3, StoreAssumption DEF StoreInv, LockInv, LineInv, JobInv, SavingInv
  <1>5. CASE stage'[c] = "cancelled" /\ job[c] = "landed"
    <2>1. Tainted'
      BY <1>1, <1>5 DEF Tainted
    <2> QED
      BY <1>1, <1>2, <1>3, <1>4, <2>1 DEF StoreInv, FileInv, ConfirmedInv
  <1>6. CASE job[c] # "landed"
    <2>1. Tainted' <=> Tainted
      BY <1>1, <1>6 DEF Tainted
    <2>2. ~Tainted => Seen = CacheWithout(c)
      BY <1>1, <1>6, OneSaves DEF StoreInv, FileInv, Seen
    <2>3. FileInv'
      BY <1>1, <1>3, <2>1, <2>2 DEF StoreInv, FileInv, Seen
    <2>4. ASSUME ~Tainted, NEW nm \in Names \ erased PROVE Kept(nm)'
      <3>1. Loaded(file)[nm] = confirmed[nm]
        BY <1>1, <1>6, <2>4, OneSaves DEF StoreInv, ConfirmedInv, Kept
      <3> QED
        BY <1>1, <3>1 DEF Kept
    <2> QED
      BY <1>1, <1>2, <1>4, <2>1, <2>3, <2>4 DEF StoreInv, ConfirmedInv
  <1> QED
    BY <1>1, <1>5, <1>6

-----------------------------------------------------------------------------
(* The line for the lock. *)

LEMMA LineGrows ==
    ASSUME NEW w \in Seq(Calls), NEW c \in Calls,
           \A i \in 1 .. Len(w) : w[i] # c,
           \A i, j \in 1 .. Len(w) : w[i] = w[j] => i = j
    PROVE  /\ Append(w, c) \in Seq(Calls)
           /\ \A i \in 1 .. Len(Append(w, c)) :
                Append(w, c)[i] = c \/ \E j \in 1 .. Len(w) : Append(w, c)[i] = w[j]
           /\ \A i, j \in 1 .. Len(Append(w, c)) : Append(w, c)[i] = Append(w, c)[j] => i = j
  OBVIOUS

\* Whoever leaves the line, the others keep their places behind each other.
LEMMA LineShrinks ==
    ASSUME NEW w \in Seq(Calls), NEW p \in 1 .. Len(w),
           \A i, j \in 1 .. Len(w) : w[i] = w[j] => i = j
    PROVE  /\ RemoveAt(w, p) \in Seq(Calls)
           /\ \A i \in 1 .. Len(RemoveAt(w, p)) :
                RemoveAt(w, p)[i] # w[p] /\ \E j \in 1 .. Len(w) : RemoveAt(w, p)[i] = w[j]
           /\ \A i, j \in 1 .. Len(RemoveAt(w, p)) :
                RemoveAt(w, p)[i] = RemoveAt(w, p)[j] => i = j
  <1> DEFINE left == SubSeq(w, 1, p - 1)
             right == SubSeq(w, p + 1, Len(w))
             r == left \o right
  <1>1. /\ left \in Seq(Calls) /\ Len(left) = p - 1 /\ \A i \in 1 .. p - 1 : left[i] = w[i]
    OBVIOUS
  <1>2. /\ right \in Seq(Calls) /\ Len(right) = Len(w) - p
        /\ \A i \in 1 .. Len(w) - p : right[i] = w[p + i]
    OBVIOUS
  <1> HIDE DEF left, right
  <1>3. r \in Seq(Calls) /\ Len(r) = Len(w) - 1
    BY <1>1, <1>2
  <1>4. \A i \in 1 .. Len(w) - 1 : i < p => r[i] = w[i]
    BY <1>1, <1>2
  <1>5. ASSUME NEW i \in 1 .. Len(w) - 1, i >= p PROVE r[i] = w[i + 1]
    <2>1. r[i] = right[i - (p - 1)] /\ i - (p - 1) \in 1 .. Len(w) - p
      BY <1>1, <1>2, <1>5
    <2>2. right[i - (p - 1)] = w[p + (i - (p - 1))]
      BY <1>2, <2>1
    <2> QED
      BY <2>1, <2>2
  <1>6. RemoveAt(w, p) = r
    BY DEF RemoveAt, left, right
  <1> HIDE DEF r
  <1>7. ASSUME NEW i \in 1 .. Len(r)
        PROVE  r[i] # w[p] /\ \E j \in 1 .. Len(w) : r[i] = w[j]
    <2>2. CASE i < p
      BY <1>3, <1>4, <1>7, <2>2
    <2>3. CASE i >= p
      BY <1>3, <1>5, <1>7, <2>3
    <2> QED
      BY <2>2, <2>3, <1>3, <1>7
  <1>8. ASSUME NEW i \in 1 .. Len(r), NEW j \in 1 .. Len(r), r[i] = r[j] PROVE i = j
    <2> DEFINE at(k) == IF k < p THEN k ELSE k + 1
    <2>1. \A k \in 1 .. Len(r) : r[k] = w[at(k)] /\ at(k) \in 1 .. Len(w)
      BY <1>3, <1>4, <1>5
    <2>2. at(i) = at(j)
      BY <1>8, <2>1
    <2> QED
      BY <2>2
  <1> QED
    BY <1>3, <1>6, <1>7, <1>8

LEMMA AskKeeps ==
    ASSUME StoreInv, NEW c \in Calls, NEW o \in [name : Names, body : Bodies], Ask(c, o)
    PROVE  StoreInv'
  <1>1. /\ up /\ stage[c] = "new" /\ op' = [op EXCEPT ![c] = o]
        /\ UNCHANGED <<up, file, invalid, degraded, unread, confirmed, erased>>
    BY DEF Ask, history
  <1>2. op' \in [Calls -> [name : Names, body : Bodies]] /\ \A d \in Calls \ {c} : op'[d] = op[d]
    BY <1>1 DEF StoreInv, TypeInv
  <1>3. \A i \in 1 .. Len(line) : line[i] # c
    BY <1>1 DEF StoreInv, LockInv, LineInv
  <1>4. CASE stage' = [stage EXCEPT ![c] = "refused"]
             /\ UNCHANGED <<profiles, prior, payload, job, holder, line>>
    <2>1. LineInv'
      BY <1>3, <1>4 DEF StoreInv, LockInv, LineInv, TypeInv
    <2> QED
      BY <1>1, <1>2, <1>4, <2>1, WaiterKeeps DEF storeVars, history
  <1>5. CASE holder = None /\ line = <<>> /\ Locked(c, o) /\ UNCHANGED line
    <2>1. LineInv'
      BY <1>5 DEF LineInv
    <2> QED
      BY <1>1, <1>5, <2>1, LockedKeeps
  <1>6. CASE /\ line' = Append(line, c) /\ stage' = [stage EXCEPT ![c] = "waiting"]
             /\ UNCHANGED <<profiles, prior, payload, job, holder>>
    <2>1. LineInv'
      BY <1>3, <1>6, LineGrows DEF StoreInv, LockInv, LineInv, TypeInv
    <2> QED
      BY <1>1, <1>2, <1>6, <2>1, WaiterKeeps DEF storeVars, history
  <1> QED
    BY <1>4, <1>5, <1>6 DEF Ask

\* The first of the line leaves it, and the rest wait on.
LEMMA AcquireKeeps == ASSUME StoreInv, NEW c \in Calls, Acquire(c) PROVE StoreInv'
  <1>1. /\ up /\ holder = None /\ line # <<>> /\ c = line[1] /\ line' = Tail(line)
        /\ Locked(c, op[c]) /\ UNCHANGED <<up, file, invalid, degraded, unread, op, confirmed, erased>>
    BY DEF Acquire, StoreInv, LockInv, LineInv, history
  <1>2. stage[c] = "waiting"
    BY <1>1 DEF StoreInv, LockInv, LineInv
  <1>3. /\ line' \in Seq(Calls) /\ Len(line') = Len(line) - 1
        /\ \A i \in 1 .. Len(line') : line'[i] = line[i + 1] /\ i + 1 \in 1 .. Len(line)
    BY <1>1 DEF StoreInv, LockInv, LineInv
  <1>4. \A i \in 1 .. Len(line') : line'[i] # c
    BY <1>1, <1>3 DEF StoreInv, LockInv, LineInv
  <1>5. \A d \in Calls \ {c} : stage'[d] = stage[d]
    BY <1>1 DEF Locked, Submit, StoreInv, TypeInv
  <1>6. LineInv'
    <2>1. /\ line \in Seq(Calls) /\ \A i \in 1 .. Len(line) : stage[line[i]] = "waiting"
          /\ \A i, j \in 1 .. Len(line) : line[i] = line[j] => i = j
      BY DEF StoreInv, LockInv, LineInv
    <2>2. \A i \in 1 .. Len(line') : stage'[line'[i]] = "waiting"
      <3> TAKE i \in 1 .. Len(line')
      <3>1. line'[i] \in Calls \ {c} /\ line'[i] = line[i + 1] /\ i + 1 \in 1 .. Len(line)
        BY <1>3, <1>4
      <3> QED
        BY <1>5, <2>1, <3>1
    <2>3. \A i, j \in 1 .. Len(line') : line'[i] = line'[j] => i = j
      BY <1>3, <2>1
    <2> QED
      BY <1>3, <2>2, <2>3 DEF LineInv
  <1>7. op' = [op EXCEPT ![c] = op[c]] /\ op[c] \in [name : Names, body : Bodies]
    BY <1>1 DEF StoreInv, TypeInv
  <1> QED
    BY <1>1, <1>2, <1>6, <1>7, LockedKeeps

LEMMA CancelWaitingKeeps == ASSUME StoreInv, NEW c \in Calls, CancelWaiting(c) PROVE StoreInv'
  <1>1. PICK p \in 1 .. Len(line) : line[p] = c /\ line' = RemoveAt(line, p)
    BY DEF CancelWaiting, StoreInv, LockInv, LineInv
  <1>2. stage' = [stage EXCEPT ![c] = "cancelled"] /\ stage[c] = "waiting"
    BY DEF CancelWaiting
  <1>3. LineInv'
    <2>1. /\ line \in Seq(Calls) /\ \A i \in 1 .. Len(line) : stage[line[i]] = "waiting"
          /\ \A i, j \in 1 .. Len(line) : line[i] = line[j] => i = j
      BY DEF StoreInv, LockInv, LineInv
    <2>2. /\ line' \in Seq(Calls)
          /\ \A i \in 1 .. Len(line') : line'[i] # c /\ \E j \in 1 .. Len(line) : line'[i] = line[j]
          /\ \A i, j \in 1 .. Len(line') : line'[i] = line'[j] => i = j
      BY <1>1, <2>1, LineShrinks
    <2>3. \A d \in Calls \ {c} : stage'[d] = stage[d]
      BY <1>2 DEF StoreInv, TypeInv
    <2>4. \A i \in 1 .. Len(line') : stage'[line'[i]] = "waiting"
      <3> TAKE i \in 1 .. Len(line')
      <3>1. line'[i] \in Calls \ {c} /\ stage[line'[i]] = "waiting"
        BY <2>1, <2>2
      <3> QED
        BY <2>3, <3>1
    <2> QED
      BY <2>2, <2>4 DEF LineInv
  <1>4. op' \in [Calls -> [name : Names, body : Bodies]] /\ op' = op
    BY DEF CancelWaiting, StoreInv, TypeInv
  <1> QED
    BY <1>2, <1>3, <1>4, WaiterKeeps DEF CancelWaiting, history

-----------------------------------------------------------------------------
(* Crashes and restarts. *)

\* The process takes its calls, its threads and its lock with it.
LEMMA CrashKeeps == ASSUME StoreInv, Crash PROVE StoreInv'
  <1>1. \A c \in Calls :
            /\ stage'[c] = IF stage[c] \in {"waiting", "saving"} THEN "lost" ELSE stage[c]
            /\ job'[c] = IF job[c] \in {"queued", "running"} THEN "gone" ELSE job[c]
    BY DEF Crash
  <1>2. /\ ~up' /\ up' \in BOOLEAN /\ holder' = None /\ line' = <<>>
        /\ UNCHANGED <<file, profiles, invalid, degraded, unread, op, prior, payload, confirmed, erased>>
    BY DEF Crash, storeVars, history
  <1>3. TypeInv'
    BY <1>2 DEF Crash, StoreInv, TypeInv, Ended
  <1>4. \A c \in Calls : stage'[c] # "saving"
    BY <1>1
  <1>5. LockInv'
    BY <1>2, <1>4, StoreAssumption DEF LockInv, LineInv
  <1>6. JobInv' /\ SavingInv' /\ FileInv'
    BY <1>1, <1>2, <1>4 DEF StoreInv, JobInv, SavingInv, FileInv, Seen
  <1>7. Tainted' <=> Tainted
    BY <1>1 DEF Tainted
  <1>8. erased' = erased /\ \A nm \in Names : Kept(nm) => Kept(nm)'
    BY <1>1, <1>2 DEF Kept
  <1> QED
    BY <1>3, <1>5, <1>6, <1>7, <1>8 DEF StoreInv, ConfirmedInv

\* The cache of a new process is the file.
LEMMA RestartKeeps == ASSUME StoreInv, Restart PROVE StoreInv'
  <1>1. file' \in Files
    BY DEF Restart, StoreInv, TypeInv, Files
  <1>2. /\ Seen' \in Caches /\ Loaded(file)' \in Caches
        /\ profiles' = Seen' /\ confirmed' = Loaded(file)' /\ erased' = {} /\ unread' \in BOOLEAN
    <2>1. /\ unread' \in BOOLEAN /\ profiles' = Seen' /\ confirmed' = Loaded(file)' /\ erased' = {}
      BY DEF Restart, Seen, Read, Loaded
    <2> QED
      BY <1>1, <2>1, LoadedType DEF Seen
  <1>3. \A c \in Calls : job'[c] \in {"none", "gone"} /\ (job[c] = "none" => job'[c] = "none")
    BY DEF Restart
  <1>4. TypeInv'
    <2>1. invalid' \in BOOLEAN /\ degraded' \in BOOLEAN
      BY <1>1 DEF Restart, Legacy, LoadError, Files
    <2> QED
      BY <1>1, <1>2, <2>1 DEF Restart, StoreInv, TypeInv
  <1>5. \A c \in Calls : stage'[c] = stage[c] /\ stage[c] # "saving"
    BY DEF Restart, StoreInv, JobInv
  <1>6. LockInv' /\ JobInv' /\ SavingInv'
    BY <1>3, <1>5 DEF Restart, StoreInv, LockInv, LineInv, JobInv, SavingInv
  <1>7. FileInv' /\ ConfirmedInv'
    BY <1>2, <1>3, <1>5 DEF Restart, FileInv, ConfirmedInv, Kept
  <1> QED
    BY <1>4, <1>6, <1>7 DEF StoreInv

LEMMA StoreKeeps == StoreInv /\ [Next]_vars => StoreInv'
  <1> SUFFICES ASSUME StoreInv, [Next]_vars PROVE StoreInv'
    OBVIOUS
  <1>1. ASSUME NEW c \in Calls, NEW nm \in Names, NEW v \in Values \cup {None},
               Ask(c, [name |-> nm, body |-> v])
        PROVE  StoreInv'
    BY <1>1, AskKeeps DEF Bodies
  <1>2. CASE UNCHANGED vars
    BY <1>2 DEF vars, storeVars, history, callVars, StoreInv, TypeInv, LockInv, LineInv, JobInv, SavingInv,
           FileInv, Seen, ConfirmedInv, Kept, Tainted, CacheWithout
  <1> QED
    BY <1>1, <1>2, AcquireKeeps, CancelWaitingKeeps, WriteStartsKeeps, WriteLandsKeeps,
       WriteStopsKeeps, SaveReturnsKeeps, SaveEndsBadlyKeeps, CrashKeeps, RestartKeeps DEF Next

-----------------------------------------------------------------------------
(* The theorems. *)

LEMMA StoreAlways == Spec => []StoreInv
  BY StoreStarts, StoreKeeps, PTL DEF Spec

\* Whenever the lock is free in a running process, and no cancelled call left a
\* write behind, the cache is what a restart would read: a failed or cancelled
\* save undoes exactly its own change (profiles.py, upsert and delete).
THEOREM CacheStaysOnDisk == Spec => []CacheIsOnDisk
  <1>1. StoreInv => CacheIsOnDisk
    BY DEF StoreInv, FileInv, Seen, Tainted, Abandoned, CacheIsOnDisk
  <1> QED
    BY <1>1, StoreAlways, PTL

\* However often the process dies, a restart reads of every name what the last
\* call that returned left of it, or what a call that did not return has written.
THEOREM ConfirmedStaysOnDisk == Spec => []ConfirmedIsOnDisk
  <1>1. StoreInv => ConfirmedIsOnDisk
    BY DEF StoreInv, ConfirmedInv, Kept, Tainted, Abandoned, ConfirmedIsOnDisk
  <1> QED
    BY <1>1, StoreAlways, PTL

CrashInv == crashes \in 0 .. MaxCrashes

LEMMA CrashesAreBounded == Spec => []CrashInv
  <1>1. Init => CrashInv
    BY StoreAssumption DEF Init, CrashInv
  <1>2. CrashInv /\ [Next]_vars => CrashInv'
    <2> SUFFICES ASSUME CrashInv, [Next]_vars
                 PROVE  CrashInv'
      OBVIOUS
    <2>1. crashes' = crashes \/ (crashes < MaxCrashes /\ crashes' = crashes + 1)
      BY DEF Next, vars, Ask, Acquire, CancelWaiting, WriteStarts, WriteLands, WriteFails,
             WriteDropped, SaveReturns, SaveFails, CancelSaving, Undone, Crash, Restart
    <2> QED
      BY <2>1, StoreAssumption DEF CrashInv
  <1> QED
    BY <1>1, <1>2, PTL DEF Spec

\* The types of the store's attributes, its file, its lock and its calls.
THEOREM TypeCorrect == Spec => []TypeOK
  <1>1. StoreInv /\ CrashInv => TypeOK
    <2> SUFFICES ASSUME TypeInv, LockInv, CrashInv
                 PROVE  TypeOK
      BY DEF StoreInv
    <2>1. line \in Seq(Calls) /\ \A c \in Calls : holder = c <=> stage[c] = "saving"
      BY DEF LockInv, LineInv
    <2> QED
      BY <2>1 DEF CrashInv, TypeInv, TypeOK, Caches, Bodies
  <1> QED
    BY <1>1, StoreAlways, CrashesAreBounded, PTL

\* A process that has read legacy names knows it, and has no write on its way.
LegacyInv ==
    up /\ Legacy(file) /\ ~unread => invalid /\ \A c \in Calls : job[c] \notin {"queued", "running"}

LEMMA LegacyKeeps == StoreInv /\ LegacyInv /\ [Next]_vars => LegacyInv'
  <1> SUFFICES ASSUME StoreInv, LegacyInv, [Next]_vars, up', Legacy(file)', ~unread'
               PROVE  invalid' /\ \A c \in Calls : job'[c] \notin {"queued", "running"}
    BY DEF LegacyInv
  <1>1. /\ job \in [Calls -> {"none", "queued", "running", "landed", "failed", "dropped", "gone"}]
        /\ holder \in Calls \cup {None}
    BY DEF StoreInv, TypeInv
  <1>2. CASE UNCHANGED vars
    BY <1>2 DEF vars, storeVars, history, callVars, LegacyInv, Legacy
  <1>3. ASSUME NEW c \in Calls, NEW o, Ask(c, o) \/ Acquire(c)
        PROVE  invalid' /\ \A d \in Calls : job'[d] \notin {"queued", "running"}
    <2>1. up /\ file' = file /\ invalid' = invalid /\ unread' = unread
      BY <1>3 DEF Ask, Acquire
    <2>2. invalid /\ \A d \in Calls : job[d] \notin {"queued", "running"}
      BY <2>1 DEF LegacyInv, Legacy
    <2>3. job' = job
      BY <1>3, <2>2 DEF Ask, Acquire, Locked, Submit
    <2> QED
      BY <2>1, <2>2, <2>3
  <1>4. ASSUME NEW c \in Calls, WriteLands(c)
        PROVE  FALSE
    BY <1>4 DEF WriteLands, Legacy, FileOf
  <1>5. ASSUME NEW c \in Calls,
               \/ CancelWaiting(c) \/ WriteStarts(c) \/ WriteFails(c) \/ WriteDropped(c)
               \/ SaveReturns(c) \/ SaveFails(c) \/ CancelSaving(c)
        PROVE  invalid' /\ \A d \in Calls : job'[d] \notin {"queued", "running"}
    <2>1. up /\ file' = file /\ invalid' = invalid /\ unread' = unread
      BY <1>5 DEF CancelWaiting, WriteStarts, WriteFails, WriteDropped, SaveReturns, SaveFails,
                  CancelSaving, storeVars, history
    <2>2. invalid /\ \A d \in Calls : job[d] \notin {"queued", "running"}
      BY <2>1 DEF LegacyInv, Legacy
    <2>3. job' = job
      BY <1>5, <2>2 DEF CancelWaiting, WriteStarts, WriteFails, WriteDropped, SaveReturns,
                         SaveFails, CancelSaving
    <2> QED
      BY <2>1, <2>2, <2>3
  <1>6. CASE Crash
    BY <1>6 DEF Crash
  <1>7. CASE Restart
    <2>1. invalid' = Legacy(file)'
      BY <1>7 DEF Restart, Legacy
    <2>2. \A c \in Calls : job'[c] \in {"none", "gone"}
      BY <1>7 DEF Restart
    <2> QED
      BY <2>1, <2>2
  <1>8. CASE \E c \in Calls : Acquire(c)
    BY <1>3, <1>8
  <1> QED
    BY <1>2, <1>3, <1>4, <1>5, <1>6, <1>7, <1>8 DEF Next

\* A file that has invalid legacy names is written over only by a process that
\* could not read it and has its load error set: names that were read and left
\* out of the cache are not erased (profiles.py, the check at the head of _save).
THEOREM LegacyNamesStay == Spec => LegacyNamesKept
  <1>1. Init => LegacyInv
    BY DEF Init, LegacyInv
  <1>2. Spec => []LegacyInv
    BY <1>1, LegacyKeeps, StoreAlways, PTL DEF Spec
  <1>3. StoreInv /\ LegacyInv /\ [Next]_vars
            => [up /\ Legacy(file) /\ file' # file => unread /\ degraded]_vars
    <2> SUFFICES ASSUME StoreInv, LegacyInv, Next, up, Legacy(file), file' # file
                 PROVE  unread /\ degraded
      OBVIOUS
    <2>1. PICK c \in Calls : WriteLands(c)
      BY DEF Next, Ask, Acquire, CancelWaiting, WriteStarts, WriteFails, WriteDropped,
             SaveReturns, SaveFails, CancelSaving, Crash, Restart, storeVars
    <2>2. unread
      BY <2>1 DEF WriteLands, LegacyInv
    <2> QED
      BY <2>2 DEF StoreInv, FileInv
  <1>4. Spec => [][up /\ Legacy(file) /\ file' # file => unread /\ degraded]_vars
    BY <1>2, <1>3, StoreAlways, PTL DEF Spec
  <1> QED
    BY <1>4 DEF LegacyNamesKept
=============================================================================
