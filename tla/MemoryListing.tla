--------------------------- MODULE MemoryListing ---------------------------
(***************************************************************************)
(* The paged listing of the memory collection (memory/store.py,            *)
(* iter_records) against the writers of the same process: the agent's and   *)
(* the importer's saves, the hit counts a search bumps, single deletes and  *)
(* clears.  Each runs on a thread of its own executor; the one thing they   *)
(* share is a CollectionState (_memory_consistency.py), a generation and a   *)
(* count of active writers behind a lock that is never held while the       *)
(* collection is touched.                                                   *)
(*                                                                         *)
(* An action is one locked section of CollectionState or one access to the  *)
(* collection.  A row without metadata, which every listing skips, is left   *)
(* out.                                                                     *)
(***************************************************************************)
EXTENDS Integers, Sequences, FiniteSets, SequencesExt

CONSTANTS
    Writers,        \* executor threads that write
    Ids,            \* memory ids
    PageSize,       \* page_size of iter_records (256)
    MaxHits,        \* bound on hit_count
    MaxGeneration   \* bound on the generation, that is, on the writes

ASSUME ListingAssumption ==
    /\ IsFiniteSet(Writers)
    /\ PageSize \in Nat \ {0}
    /\ MaxHits \in Nat
    /\ MaxGeneration \in Nat

VARIABLES
    rows,       \* the collection, in the order get(limit, offset) pages it
    job,        \* what each writer is at, and the rows it has yet to touch
    generation, \* CollectionState._generation
    active,     \* CollectionState._writers
    listing,    \* none, get, fetched, yielded, and how a listing ended
    snap,       \* the generation the listing started at
    offset,
    page,       \* the page just read
    out         \* the rows yielded to the consumer

writerVars == <<rows, job, generation, active>>
listVars == <<listing, snap, offset, page, out>>
vars == <<writerVars, listVars>>

Row == [id : Ids, hits : 0..MaxHits]
Ops == {"save", "delete", "hit"}
Idle == [at |-> "idle", op |-> "save", left |-> {}]

Ended == {"none", "listed", "refused"}

Init ==
    /\ rows \in {s \in UNION {[1..n -> [id : Ids, hits : {0}]] : n \in 0..Cardinality(Ids)} : IsInjective(s)}
    /\ job = [w \in Writers |-> Idle]
    /\ generation = 0
    /\ active = 0
    /\ listing = "none"
    /\ snap = 0
    /\ offset = 0
    /\ page = <<>>
    /\ out = <<>>

-----------------------------------------------------------------------------
(* The writers. *)

Stored == {rows[i] : i \in DOMAIN rows}
Unused(i) ==
    /\ \A r \in Stored : r.id # i
    /\ \A w \in Writers : \A r \in job[w].left : r.id # i

\* What a writer settles before it enters writing(): a fresh id for a save, the
\* stored rows a delete or a clear found, the rows a search matched, bumped.
Choose(w) ==
    /\ job[w].at = "idle" /\ generation < MaxGeneration
    /\ \E op \in Ops, chosen \in (SUBSET Row) \ {{}} :
        /\ CASE op = "save"   -> \E i \in Ids : Unused(i) /\ chosen = {[id |-> i, hits |-> 0]}
             [] op = "delete" -> chosen \subseteq Stored
             [] op = "hit"    -> \E read \in SUBSET {r \in Stored : r.hits < MaxHits} :
                                    chosen = {[r EXCEPT !.hits = @ + 1] : r \in read}
        /\ job' = [job EXCEPT ![w] = [at |-> "chosen", op |-> op, left |-> chosen]]
    /\ UNCHANGED <<rows, generation, active, listVars>>

\* writing() is entered.
WriteBegins(w) ==
    /\ job[w].at = "chosen"
    /\ job' = [job EXCEPT ![w].at = "writing"]
    /\ generation' = generation + 1
    /\ active' = active + 1
    /\ UNCHANGED <<rows, listVars>>

Places(i) == {n \in DOMAIN rows : rows[n].id = i}

\* The collection, one row of the request at a time: an update or a delete of a
\* row that has gone does nothing.
Written(op, r) ==
    CASE op = "save"   -> Append(rows, r)
      [] op = "delete" -> IF Places(r.id) = {} THEN rows
                          ELSE RemoveAt(rows, CHOOSE n \in Places(r.id) : TRUE)
      [] op = "hit"    -> [i \in DOMAIN rows |-> IF rows[i].id = r.id THEN r ELSE rows[i]]

WriteRow(w) ==
    /\ job[w].at = "writing"
    /\ \E r \in job[w].left :
        /\ rows' = Written(job[w].op, r)
        /\ job' = [job EXCEPT ![w].left = @ \ {r}]
    /\ UNCHANGED <<generation, active, listVars>>

\* writing() is left, the request done or failed part of the way.
WriteEnds(w) ==
    /\ job[w].at = "writing"
    /\ job' = [job EXCEPT ![w] = Idle]
    /\ generation' = generation + 1
    /\ active' = active - 1
    /\ UNCHANGED <<rows, listVars>>

-----------------------------------------------------------------------------
(* The listing, on the memory worker, which runs one at a time. *)

\* snapshot(): refused while a writer is active.
StartListing ==
    /\ listing \in Ended
    /\ IF active > 0
       THEN listing' = "refused" /\ UNCHANGED snap
       ELSE listing' = "get" /\ snap' = generation
    /\ offset' = 0
    /\ page' = <<>>
    /\ out' = <<>>
    /\ UNCHANGED writerVars

PageAt(n) == SubSeq(rows, n + 1, IF n + PageSize < Len(rows) THEN n + PageSize ELSE Len(rows))

GetPage ==
    /\ listing = "get"
    /\ page' = PageAt(offset)
    /\ listing' = "fetched"
    /\ UNCHANGED <<writerVars, snap, offset, out>>

\* Mutant of Unchanged: only writers that are still at it are noticed.
UnchangedIfQuiet == active = 0

\* check(generation) passes.
Unchanged == active = 0 /\ generation = snap

\* Mutant of YieldPage: a page that cannot be trusted is read again.
YieldPageRetrying ==
    /\ listing = "fetched"
    /\ IF ~Unchanged THEN listing' = "get" /\ UNCHANGED out
       ELSE IF page = <<>> THEN listing' = "listed" /\ UNCHANGED out
       ELSE listing' = "yielded" /\ out' = out \o page
    /\ UNCHANGED <<writerVars, snap, offset, page>>

\* The check after the read; then the page is yielded, or an empty one ends it.
YieldPage ==
    /\ listing = "fetched"
    /\ IF ~Unchanged THEN listing' = "refused" /\ UNCHANGED out
       ELSE IF page = <<>> THEN listing' = "listed" /\ UNCHANGED out
       ELSE listing' = "yielded" /\ out' = out \o page
    /\ UNCHANGED <<writerVars, snap, offset, page>>

\* The check before the next page; a short page is the last one.
NextPage ==
    /\ listing = "yielded"
    /\ IF ~Unchanged THEN listing' = "refused" /\ UNCHANGED offset
       ELSE IF Len(page) < PageSize THEN listing' = "listed" /\ UNCHANGED offset
       ELSE listing' = "get" /\ offset' = offset + Len(page)
    /\ UNCHANGED <<writerVars, snap, page, out>>

Next ==
    \/ \E w \in Writers : Choose(w) \/ WriteBegins(w) \/ WriteRow(w) \/ WriteEnds(w)
    \/ StartListing \/ GetPage \/ YieldPage \/ NextPage

Spec == Init /\ [][Next]_vars

\* The memory worker runs the call it has taken.
Fairness == WF_vars(GetPage) /\ WF_vars(YieldPage) /\ WF_vars(NextPage)

-----------------------------------------------------------------------------
TypeOK ==
    /\ rows \in Seq(Row)
    /\ job \in [Writers -> [at : {"idle", "chosen", "writing"}, op : Ops, left : SUBSET Row]]
    /\ generation \in Nat
    /\ active \in Nat
    /\ listing \in {"get", "fetched", "yielded"} \cup Ended
    /\ snap \in Nat
    /\ offset \in Nat
    /\ page \in Seq(Row)
    /\ out \in Seq(Row)

(* "refusing success if a managed write overlaps" (store.py:316): a listing   *)
(* that succeeds is the whole collection, every row once and none of them      *)
(* half written, as it is at that moment.                                    *)
ListedIsTheCollection ==
    [][listing \notin Ended /\ listing' = "listed" => out' = rows /\ active = 0]_vars

(* A listing ends, on an exact multiple of the page size as well.            *)
EveryListingEnds == listing \notin Ended ~> listing \in Ended
=============================================================================
