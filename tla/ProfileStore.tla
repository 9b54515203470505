---------------------------- MODULE ProfileStore ----------------------------
(***************************************************************************)
(* The profile store (profiles.py): an in-memory cache of the profiles, the *)
(* JSON file behind it, and the admin tools that write both (server.py).    *)
(*                                                                         *)
(* A write changes the cache on the event loop, then hands the whole cache  *)
(* to a thread (asyncio.to_thread) that replaces the file; the caller       *)
(* suspends there, and undoes its change of the cache if it is told that    *)
(* the write failed, or is cancelled.  The tools' profile_admin_lock is     *)
(* held around the store's own _write_lock, which is therefore free         *)
(* whenever it is asked for: the two are one lock here, served in order     *)
(* (see TurnQueue for asyncio.Lock itself).                                 *)
(*                                                                         *)
(* The process may die at any time; the file is what a restart reads, if it  *)
(* can read it: one that cannot starts with an empty cache and a load error,  *)
(* and its first save replaces the file it never saw.                        *)
(***************************************************************************)
EXTENDS Integers, Sequences, FiniteSets, SequencesExt

CONSTANTS
    Calls,      \* upsert_profile and delete_profile calls
    Names,      \* valid profile names
    Default,    \* DEFAULT_PROFILE_NAME
    Values,     \* profile bodies
    None,       \* no profile
    Bad,        \* a malformed entry of the file
    MaxCrashes  \* bound on the deaths of the process

ASSUME StoreAssumption ==
    /\ IsFiniteSet(Calls)
    /\ Default \in Names
    /\ None \notin Values \cup Calls
    /\ Bad \notin Values \cup {None}
    /\ MaxCrashes \in Nat

VARIABLES
    up,         \* the process runs
    file,       \* the JSON file
    profiles,   \* ProfileStore._profiles
    invalid,    \* ProfileStore._invalid_profile_names
    degraded,   \* ProfileStore._load_error is set
    unread,     \* the process could not read the file, and has not replaced it
    stage,      \* where each call is, and how it ended
    op,         \* the name a call writes, and the body (None: delete)
    prior,      \* the call's local `prior`
    holder,     \* who holds the write lock
    line,       \* who waits for it
    job,        \* the call's write on its thread
    payload,    \* what that write puts into the file
    confirmed,  \* history: what the last call that returned left of a name
    erased,     \* history: the names lost in a save over an unread file
    crashes

storeVars == <<file, profiles, invalid, degraded, unread>>
callVars == <<stage, op, prior, holder, line, job, payload>>
history == <<confirmed, erased>>
vars == <<up, storeVars, callVars, history, crashes>>

Ended == {"saved", "failed", "refused", "missing", "cancelled", "lost"}

(* The file: no JSON object at all (corrupt), or entries; an invalid legacy  *)
(* name is one that never reaches the cache.  A file that is not there reads *)
(* like one without entries.                                                 *)
Files == [corrupt : BOOLEAN, legacy : BOOLEAN, entries : [Names -> Values \cup {None, Bad}]]

\* The profiles of a file that _read_from_disk can read.
Loaded(f) == [n \in Names |-> IF f.corrupt \/ f.entries[n] = Bad THEN None ELSE f.entries[n]]

Legacy(f) == ~f.corrupt /\ f.legacy
LoadError(f) == f.corrupt \/ f.legacy \/ \E n \in Names : f.entries[n] = Bad

\* _read_from_disk: what the cache holds after it; an OSError leaves it empty.
Read(f, fails) == IF fails THEN [n \in Names |-> None] ELSE Loaded(f)

\* What the process takes its file for.
Seen == Read(file, unread)

\* The file _save writes.
FileOf(cache) == [corrupt |-> FALSE, legacy |-> FALSE, entries |-> cache]

Init ==
    /\ up = TRUE
    /\ file \in Files
    /\ unread \in BOOLEAN
    /\ profiles = Seen
    /\ invalid = (~unread /\ Legacy(file))
    /\ degraded = (unread \/ LoadError(file))
    /\ stage = [c \in Calls |-> "new"]
    /\ op = [c \in Calls |-> [name |-> Default, body |-> None]]
    /\ prior = [c \in Calls |-> None]
    /\ holder = None
    /\ line = <<>>
    /\ job = [c \in Calls |-> "none"]
    /\ payload = [c \in Calls |-> [n \in Names |-> None]]
    /\ confirmed = Loaded(file)
    /\ erased = {}
    /\ crashes = 0

-----------------------------------------------------------------------------
(* The lock is held: change the cache and submit the write.                  *)

\* Mutant of Submit: a file with legacy names is written like any other.
SubmitRegardless(c, o) ==
    \/ /\ profiles' = [profiles EXCEPT ![o.name] = o.body]
       /\ prior' = [prior EXCEPT ![c] = profiles[o.name]]
       /\ payload' = [payload EXCEPT ![c] = profiles']
       /\ job' = [job EXCEPT ![c] = "queued"]
       /\ stage' = [stage EXCEPT ![c] = "saving"]
       /\ holder' = c
    \/ /\ stage' = [stage EXCEPT ![c] = "failed"]
       /\ holder' = None
       /\ UNCHANGED <<profiles, prior, payload, job>>

\* _save up to its await: it raises before it if the file has legacy names, or
\* if the directory cannot be made; the change of the cache is undone at once.
Submit(c, o) ==
    \/ /\ ~invalid
       /\ profiles' = [profiles EXCEPT ![o.name] = o.body]
       /\ prior' = [prior EXCEPT ![c] = profiles[o.name]]
       /\ payload' = [payload EXCEPT ![c] = profiles']
       /\ job' = [job EXCEPT ![c] = "queued"]
       /\ stage' = [stage EXCEPT ![c] = "saving"]
       /\ holder' = c
    \/ /\ stage' = [stage EXCEPT ![c] = IF invalid THEN "refused" ELSE "failed"]
       /\ holder' = None
       /\ UNCHANGED <<profiles, prior, payload, job>>

Locked(c, o) ==
    IF o.body = None /\ profiles[o.name] = None
    THEN /\ stage' = [stage EXCEPT ![c] = "missing"]
         /\ holder' = None
         /\ UNCHANGED <<profiles, prior, payload, job>>
    ELSE Submit(c, o)

\* A tool call: a delete of the default profile, or on a degraded store, is
\* refused; anything else asks for the lock.
Ask(c, o) ==
    /\ up /\ stage[c] = "new"
    /\ op' = [op EXCEPT ![c] = o]
    /\ \/ /\ o.body = None /\ (degraded \/ o.name = Default)
          /\ stage' = [stage EXCEPT ![c] = "refused"]
          /\ UNCHANGED <<profiles, prior, payload, job, holder, line>>
       \/ /\ o.body # None \/ (~degraded /\ o.name # Default)
          /\ IF holder = None /\ line = <<>>
             THEN Locked(c, o) /\ UNCHANGED line
             ELSE /\ line' = Append(line, c)
                  /\ stage' = [stage EXCEPT ![c] = "waiting"]
                  /\ UNCHANGED <<profiles, prior, payload, job, holder>>
    /\ UNCHANGED <<up, file, invalid, degraded, unread, history, crashes>>

\* The lock goes to the first in line.
Acquire(c) ==
    /\ up /\ holder = None /\ line # <<>> /\ c = Head(line)
    /\ line' = Tail(line)
    /\ Locked(c, op[c])
    /\ UNCHANGED <<up, file, invalid, degraded, unread, op, history, crashes>>

CancelWaiting(c) ==
    /\ up /\ stage[c] = "waiting"
    /\ \E i \in DOMAIN line : line[i] = c /\ line' = RemoveAt(line, i)
    /\ stage' = [stage EXCEPT ![c] = "cancelled"]
    /\ UNCHANGED <<up, storeVars, op, prior, holder, job, payload, history, crashes>>

-----------------------------------------------------------------------------
(* The write, on a thread of the default executor (atomic_write_bytes).      *)

WriteStarts(c) ==
    /\ up /\ job[c] = "queued"
    /\ job' = [job EXCEPT ![c] = "running"]
    /\ UNCHANGED <<up, storeVars, stage, op, prior, holder, line, payload, history, crashes>>

\* os.replace: the file changes from one payload to the next in one step.
WriteLands(c) ==
    /\ up /\ job[c] = "running"
    /\ job' = [job EXCEPT ![c] = "landed"]
    /\ file' = FileOf(payload[c])
    /\ unread' = FALSE
    /\ erased' = IF unread THEN {n \in Names \ {op[c].name} : Loaded(file)[n] # None} ELSE erased
    /\ UNCHANGED <<up, profiles, invalid, degraded, stage, op, prior, holder, line, payload, confirmed, crashes>>

\* An OSError before it: the temporary file goes, the file stays.
WriteFails(c) ==
    /\ up /\ job[c] = "running"
    /\ job' = [job EXCEPT ![c] = "failed"]
    /\ UNCHANGED <<up, storeVars, stage, op, prior, holder, line, payload, history, crashes>>

\* The cancellation of a caller reaches its write while no thread has taken it.
WriteDropped(c) ==
    /\ up /\ stage[c] = "cancelled" /\ job[c] = "queued"
    /\ job' = [job EXCEPT ![c] = "dropped"]
    /\ UNCHANGED <<up, storeVars, stage, op, prior, holder, line, payload, history, crashes>>

-----------------------------------------------------------------------------
(* The caller, after its await. *)

Undone(c) == profiles' = [profiles EXCEPT ![op[c].name] = prior[c]]

\* Mutant of SaveReturns: the caller does not wait for its thread.
SaveReturnsEarly(c) ==
    /\ up /\ stage[c] = "saving" /\ job[c] # "failed"
    /\ stage' = [stage EXCEPT ![c] = "saved"]
    /\ holder' = None
    /\ confirmed' = [confirmed EXCEPT ![op[c].name] = op[c].body]
    /\ erased' = erased \ {op[c].name}
    /\ UNCHANGED <<up, storeVars, op, prior, line, job, payload, crashes>>

\* The write is done: the tool call returns what it wrote.
SaveReturns(c) ==
    /\ up /\ stage[c] = "saving" /\ job[c] = "landed"
    /\ stage' = [stage EXCEPT ![c] = "saved"]
    /\ holder' = None
    /\ confirmed' = [confirmed EXCEPT ![op[c].name] = op[c].body]
    /\ erased' = erased \ {op[c].name}
    /\ UNCHANGED <<up, storeVars, op, prior, line, job, payload, crashes>>

\* Mutant of SaveFails: the change of the cache stays.
SaveFailsUnnoticed(c) ==
    /\ up /\ stage[c] = "saving" /\ job[c] = "failed"
    /\ stage' = [stage EXCEPT ![c] = "failed"]
    /\ holder' = None
    /\ UNCHANGED <<up, storeVars, op, prior, line, job, payload, history, crashes>>

\* The write raised: the change of the cache is undone.
SaveFails(c) ==
    /\ up /\ stage[c] = "saving" /\ job[c] = "failed"
    /\ stage' = [stage EXCEPT ![c] = "failed"]
    /\ Undone(c)
    /\ holder' = None
    /\ UNCHANGED <<up, file, invalid, degraded, unread, op, prior, line, job, payload, history, crashes>>

\* A call cancelled in _save undoes its change of the cache; its write goes on.
CancelSaving(c) ==
    /\ up /\ stage[c] = "saving"
    /\ stage' = [stage EXCEPT ![c] = "cancelled"]
    /\ Undone(c)
    /\ holder' = None
    /\ UNCHANGED <<up, file, invalid, degraded, unread, op, prior, line, job, payload, history, crashes>>

-----------------------------------------------------------------------------
\* The process dies, with its calls and its threads; the file stays.
Crash ==
    /\ up /\ crashes < MaxCrashes
    /\ up' = FALSE
    /\ crashes' = crashes + 1
    /\ stage' = [c \in Calls |-> IF stage[c] \in {"waiting", "saving"} THEN "lost" ELSE stage[c]]
    /\ job' = [c \in Calls |-> IF job[c] \in {"queued", "running"} THEN "gone" ELSE job[c]]
    /\ holder' = None
    /\ line' = <<>>
    /\ UNCHANGED <<storeVars, op, prior, payload, history>>

\* A new process reads the file, or fails to; the operator may have renamed the
\* legacy names.
Restart ==
    /\ ~up
    /\ up' = TRUE
    /\ file' \in {file, [file EXCEPT !.legacy = FALSE]}
    /\ unread' \in BOOLEAN
    /\ profiles' = Read(file', unread')
    /\ invalid' = (~unread' /\ Legacy(file'))
    /\ degraded' = (unread' \/ LoadError(file'))
    /\ confirmed' = Loaded(file')
    /\ erased' = {}
    /\ job' = [c \in Calls |-> IF job[c] = "none" THEN "none" ELSE "gone"]
    /\ UNCHANGED <<stage, op, prior, holder, line, payload, crashes>>

Next ==
    \/ \E c \in Calls :
        \/ \E n \in Names, v \in Values \cup {None} : Ask(c, [name |-> n, body |-> v])
        \/ Acquire(c) \/ CancelWaiting(c)
        \/ WriteStarts(c) \/ WriteLands(c) \/ WriteFails(c) \/ WriteDropped(c)
        \/ SaveReturns(c) \/ SaveFails(c) \/ CancelSaving(c)
    \/ Crash \/ Restart

Spec == Init /\ [][Next]_vars

Done == up /\ \A c \in Calls : stage[c] \in Ended /\ job[c] \notin {"queued", "running"}

-----------------------------------------------------------------------------
TypeOK ==
    /\ up \in BOOLEAN
    /\ file \in Files
    /\ profiles \in [Names -> Values \cup {None}]
    /\ invalid \in BOOLEAN
    /\ degraded \in BOOLEAN /\ unread \in BOOLEAN
    /\ stage \in [Calls -> {"new", "waiting", "saving"} \cup Ended]
    /\ op \in [Calls -> [name : Names, body : Values \cup {None}]]
    /\ prior \in [Calls -> Values \cup {None}]
    /\ holder \in Calls \cup {None}
    /\ \A c \in Calls : holder = c <=> stage[c] = "saving"
    /\ line \in Seq(Calls)
    /\ job \in [Calls -> {"none", "queued", "running", "landed", "failed", "dropped", "gone"}]
    /\ payload \in [Calls -> [Names -> Values \cup {None}]]
    /\ confirmed \in [Names -> Values \cup {None}]
    /\ erased \subseteq Names
    /\ crashes \in 0..MaxCrashes

\* A cancelled call's write that was not dropped before its thread took it.
Abandoned == \E c \in Calls : stage[c] = "cancelled" /\ job[c] \in {"queued", "running", "landed"}

(* "Rolls back the in-memory cache if the disk write fails so the cache and    *)
(* disk never diverge" (profiles.py:239), whatever failed and whoever wrote:  *)
(* between two writes the cache is what a restart would read, as long as no    *)
(* cancelled call left a write behind.  A process that could not read its file *)
(* has an empty cache, and admits it, until a write of its own lands.         *)
CacheIsOnDisk ==
    up /\ holder = None /\ ~Abandoned => profiles = Seen /\ (unread => degraded)

(* A crash at any point loses no confirmed profile: what a restart would read  *)
(* of a name is what the last call that returned left, or what a call that     *)
(* has not returned has just written, as long as no cancelled call left a      *)
(* write behind.  Only a save over a file that the process could not read      *)
(* loses other names than its own (profiles.py:98).                          *)
ConfirmedIsOnDisk ==
    ~Abandoned =>
        \A n \in Names \ erased :
            \/ Loaded(file)[n] = confirmed[n]
            \/ \E c \in Calls : /\ stage[c] \in {"saving", "lost"} /\ job[c] = "landed"
                                /\ op[c].name = n /\ Loaded(file)[n] = op[c].body

(* "A save cannot erase the excluded profiles" (profiles.py:105): a file with  *)
(* invalid legacy names is written only by a process that could not read it    *)
(* and therefore never saw them, and that process has its load error set: the  *)
(* overwriting that profiles.py:98 announces, never a silent one.            *)
LegacyNamesKept == [][up /\ Legacy(file) /\ file' # file => unread /\ degraded]_vars

(* The same docstring, without the proviso, for a store that loaded cleanly:   *)
(* the cache and the disk never diverge between two writes.                   *)
NeverDiverge ==
    (up /\ ~degraded /\ holder = None /\ \A c \in Calls : job[c] \notin {"queued", "running"})
        => profiles = Loaded(file)
=============================================================================
