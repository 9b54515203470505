------------------------ MODULE MemoryListingProofs ------------------------
(***************************************************************************)
(* A listing that succeeds is the collection, for every number of writers,  *)
(* rows and rows per page.                                                  *)
(***************************************************************************)
EXTENDS MemoryListing, FiniteSetTheorems, SequenceTheorems, TLAPS

Job == [at : {"idle", "chosen", "writing"}, op : Ops, left : SUBSET Row]

Writing == {w \in Writers : job[w].at = "writing"}

\* The count of active writers is exact, and the generation never goes back.
MarkInv == active = Cardinality(Writing) /\ snap <= generation

\* While the generation is the one the listing started at, nobody writes, and
\* what has been read is the collection up to the offset.
PrefixInv ==
    listing \notin Ended /\ generation = snap =>
        /\ active = 0
        /\ offset <= Len(rows)
        /\ listing = "get" => out = SubSeq(rows, 1, offset)
        /\ listing = "fetched" => out = SubSeq(rows, 1, offset) /\ page = PageAt(offset)
        /\ listing = "yielded" =>
              page = PageAt(offset) /\ out = SubSeq(rows, 1, offset + Len(page))

LInv == TypeOK /\ MarkInv /\ PrefixInv

-----------------------------------------------------------------------------
(* A page read inside the collection continues the prefix before it.         *)
LEMMA PageContinues ==
    ASSUME NEW n \in Nat, n <= Len(rows), rows \in Seq(Row)
    PROVE  /\ PageAt(n) \in Seq(Row)
           /\ n + Len(PageAt(n)) <= Len(rows)
           /\ Len(PageAt(n)) < PageSize => n + Len(PageAt(n)) = Len(rows)
           /\ SubSeq(rows, 1, n) \o PageAt(n) = SubSeq(rows, 1, n + Len(PageAt(n)))
<1> DEFINE last == IF n + PageSize < Len(rows) THEN n + PageSize ELSE Len(rows)
<1>1. PageSize \in Nat \ {0} /\ Len(rows) \in Nat
  BY ListingAssumption
<1>2. last \in n .. Len(rows) /\ (last - n < PageSize => last = Len(rows))
  BY <1>1
<1>3. PageAt(n) = SubSeq(rows, n + 1, last)
  BY DEF PageAt
<1> HIDE DEF last
<1>4. \A i \in n + 1 .. last : rows[i] \in Row
  BY <1>1, <1>2
<1>5. /\ PageAt(n) \in Seq(Row)
      /\ Len(PageAt(n)) = last - n
  <2>1. n + 1 \in Int /\ last \in Int
    BY <1>1, <1>2
  <2>2. SubSeq(rows, n + 1, last) \in Seq(Row)
    BY <1>4, <2>1, SubSeqProperties
  <2>3. Len(SubSeq(rows, n + 1, last)) = IF n + 1 <= last THEN last - (n + 1) + 1 ELSE 0
    BY <1>4, <2>1, SubSeqProperties
  <2>4. QED
    BY <1>1, <1>2, <1>3, <2>2, <2>3
<1>6. SubSeq(rows, 1, n) \o SubSeq(rows, n + 1, last) = SubSeq(rows, 1, last)
  <2>1. 1 \in 1 .. Len(rows) + 1 /\ n \in 1 - 1 .. Len(rows) /\ last \in n .. Len(rows)
    BY <1>1, <1>2
  <2>2. QED
    BY <2>1, ConcatAdjacentSubSeq
<1>7. Len(PageAt(n)) < PageSize => n + Len(PageAt(n)) = Len(rows)
  BY <1>1, <1>2, <1>5
<1>8. n + Len(PageAt(n)) = last
  BY <1>1, <1>2, <1>5
<1>9. SubSeq(rows, 1, n) \o PageAt(n) = SubSeq(rows, 1, n + Len(PageAt(n)))
  BY <1>3, <1>6, <1>8
<1>10. QED
  BY <1>1, <1>2, <1>5, <1>7, <1>8, <1>9

(* One more or one less writer inside writing().                             *)
LEMMA WritingCount ==
    ASSUME IsFiniteSet(Writers), NEW w \in Writers
    PROVE  /\ Cardinality(Writing) \in Nat
           /\ w \notin Writing => Cardinality(Writing \cup {w}) = Cardinality(Writing) + 1
           /\ w \in Writing => /\ Cardinality(Writing \ {w}) = Cardinality(Writing) - 1
                               /\ Cardinality(Writing) > 0
<1>1. IsFiniteSet(Writing)
  BY FS_Subset DEF Writing
<1>2. Cardinality(Writing) \in Nat
  BY <1>1, FS_CardinalityType
<1>3. w \notin Writing => Cardinality(Writing \cup {w}) = Cardinality(Writing) + 1
  BY <1>1, FS_AddElement
<1>4. w \in Writing => Cardinality(Writing \ {w}) = Cardinality(Writing) - 1
  BY <1>1, FS_RemoveElement
<1>5. w \in Writing => Cardinality(Writing) > 0
  BY <1>1, <1>2, FS_EmptySet
<1>6. QED
  BY <1>2, <1>3, <1>4, <1>5

-----------------------------------------------------------------------------
(* The first state satisfies the invariant.                                  *)
LEMMA InitInv == Init => LInv
<1> SUFFICES ASSUME Init PROVE LInv
  OBVIOUS
<1>1. rows \in Seq(Row)
  <2>1. PICK s \in UNION {[1..n -> [id : Ids, hits : {0}]] : n \in 0..Cardinality(Ids)} : rows = s
    BY DEF Init
  <2>2. PICK n \in 0..Cardinality(Ids) : rows \in [1..n -> [id : Ids, hits : {0}]]
    BY <2>1
  <2>3. [id : Ids, hits : {0}] \subseteq Row
    BY ListingAssumption DEF Row
  <2>4. rows \in [1..n -> Row]
    BY <2>2, <2>3
  <2>5. QED
    BY <2>4
<1>2. TypeOK
  BY <1>1 DEF Init, TypeOK, Idle, Ops, Ended
<1>3. MarkInv
  <2>1. Writing = {}
    BY DEF Init, Writing, Idle
  <2>2. QED
    BY <2>1, FS_EmptySet DEF Init, MarkInv
<1>4. PrefixInv
  BY DEF Init, PrefixInv, Ended
<1>5. QED
  BY <1>2, <1>3, <1>4 DEF LInv

(* A writer that settles its request changes nothing a listing can see.      *)
LEMMA ChooseKeepsInv == ASSUME LInv, NEW w \in Writers, Choose(w) PROVE LInv'
<1>1. PICK op \in Ops, chosen \in (SUBSET Row) \ {{}} :
        job' = [job EXCEPT ![w] = [at |-> "chosen", op |-> op, left |-> chosen]]
  BY DEF Choose
<1>2. TypeOK'
  BY <1>1 DEF LInv, TypeOK, Choose, listVars
<1>3. Writing' = Writing
  BY <1>1 DEF Writing, Choose, LInv, TypeOK
<1>4. MarkInv'
  BY <1>3 DEF LInv, MarkInv, Choose, listVars
<1>5. PrefixInv'
  BY DEF LInv, PrefixInv, PageAt, Choose, listVars
<1>6. QED
  BY <1>2, <1>4, <1>5 DEF LInv

(* A writer that enters writing() outdates every listing under way.          *)
LEMMA WriteBeginsKeepsInv == ASSUME LInv, NEW w \in Writers, WriteBegins(w) PROVE LInv'
<1> USE DEF LInv
<1>1. TypeOK'
  <2>1. job' \in [Writers -> Job]
    <3>1. job[w] \in Job /\ job \in [Writers -> Job]
      BY DEF TypeOK, Job
    <3>2. [job[w] EXCEPT !.at = "writing"] \in Job
      BY <3>1 DEF Job
    <3>3. job' = [job EXCEPT ![w] = [job[w] EXCEPT !.at = "writing"]]
      BY DEF WriteBegins
    <3>4. QED
      BY <3>1, <3>2, <3>3
  <2>2. /\ generation' = generation + 1 /\ active' = active + 1
        /\ UNCHANGED <<rows, listing, snap, offset, page, out>>
    BY DEF WriteBegins, listVars
  <2>3. QED
    BY <2>1, <2>2 DEF TypeOK, Job
<1>2. w \notin Writing /\ Writing' = Writing \cup {w}
  BY DEF Writing, WriteBegins, TypeOK
<1>3. Cardinality(Writing') = Cardinality(Writing) + 1 /\ Cardinality(Writing) \in Nat
  BY <1>2, WritingCount, ListingAssumption
<1>4. MarkInv'
  BY <1>3 DEF MarkInv, WriteBegins, listVars, TypeOK
<1>5. generation' # snap'
  BY DEF MarkInv, WriteBegins, listVars, TypeOK
<1>6. PrefixInv'
  BY <1>5 DEF PrefixInv
<1>7. QED
  BY <1>1, <1>4, <1>6

(* What one storage step makes of the collection.                            *)
LEMMA WrittenType ==
    ASSUME rows \in Seq(Row), NEW op \in Ops, NEW r \in Row
    PROVE  Written(op, r) \in Seq(Row)
<1>1. CASE op = "save"
  BY <1>1 DEF Written
<1>2. CASE op = "delete"
  <2>1. CASE Places(r.id) = {}
    BY <1>2, <2>1 DEF Written
  <2>2. CASE Places(r.id) # {}
    <3> DEFINE n == CHOOSE n \in Places(r.id) : TRUE
    <3>1. n \in 1 .. Len(rows)
      BY <2>2 DEF Places
    <3> HIDE DEF n
    <3>2. SubSeq(rows, 1, n - 1) \in Seq(Row) /\ SubSeq(rows, n + 1, Len(rows)) \in Seq(Row)
      <4>1. SubSeq(rows, 1, n - 1) \in Seq(Row)
        <5>1. 1 \in Int /\ n - 1 \in Int /\ \A i \in 1 .. n - 1 : rows[i] \in Row
          BY <3>1
        <5>2. QED
          BY <5>1, SubSeqProperties
      <4>2. SubSeq(rows, n + 1, Len(rows)) \in Seq(Row)
        <5>1. n + 1 \in Int /\ Len(rows) \in Int /\ \A i \in n + 1 .. Len(rows) : rows[i] \in Row
          BY <3>1
        <5>2. QED
          BY <5>1, SubSeqProperties
      <4>3. QED
        BY <4>1, <4>2
    <3>3. RemoveAt(rows, n) \in Seq(Row)
      BY <3>2, ConcatProperties DEF RemoveAt
    <3>4. Written(op, r) = RemoveAt(rows, n)
      BY <1>2, <2>2 DEF Written, n
    <3>5. QED
      BY <3>3, <3>4
  <2>3. QED
    BY <2>1, <2>2
<1>3. CASE op = "hit"
  BY <1>3 DEF Written
<1>4. QED
  BY <1>1, <1>2, <1>3 DEF Ops

(* A row is written while a writer is marked, so no listing relies on it.    *)
LEMMA WriteRowKeepsInv == ASSUME LInv, NEW w \in Writers, WriteRow(w) PROVE LInv'
<1> USE DEF LInv
<1>1. PICK r \in job[w].left :
        /\ rows' = Written(job[w].op, r)
        /\ job' = [job EXCEPT ![w].left = @ \ {r}]
  BY DEF WriteRow
<1>2. job[w] \in Job /\ job \in [Writers -> Job] /\ r \in Row
  <2>1. job[w] \in Job /\ job \in [Writers -> Job]
    BY DEF TypeOK, Job
  <2>2. job[w].left \in SUBSET Row
    BY <2>1 DEF Job
  <2>3. QED
    BY <2>1, <2>2
<1>3. rows' \in Seq(Row)
  <2>1. rows \in Seq(Row) /\ job[w].op \in Ops /\ r \in Row
    BY <1>2 DEF TypeOK, Job
  <2>2. QED
    BY <1>1, <2>1, WrittenType
<1>4. job' \in [Writers -> Job] /\ \A v \in Writers : job'[v].at = job[v].at
  <2>1. [job[w] EXCEPT !.left = @ \ {r}] \in Job /\ [job[w] EXCEPT !.left = @ \ {r}].at = job[w].at
    BY <1>2 DEF Job
  <2>2. job' = [job EXCEPT ![w] = [job[w] EXCEPT !.left = @ \ {r}]]
    BY <1>1
  <2>3. QED
    BY <1>2, <2>1, <2>2
<1>5. TypeOK'
  BY <1>3, <1>4 DEF TypeOK, WriteRow, listVars, Job
<1>6. Writing' = Writing /\ w \in Writing
  BY <1>4 DEF Writing, WriteRow
<1>7. MarkInv'
  BY <1>6 DEF MarkInv, WriteRow, listVars
<1>8. active > 0
  BY <1>6, WritingCount, ListingAssumption DEF MarkInv
<1>9. PrefixInv'
  BY <1>8 DEF PrefixInv, WriteRow, listVars
<1>10. QED
  BY <1>5, <1>7, <1>9

(* A writer that leaves writing() outdates every listing under way as well.  *)
LEMMA WriteEndsKeepsInv == ASSUME LInv, NEW w \in Writers, WriteEnds(w) PROVE LInv'
<1> USE DEF LInv
<1>1. w \in Writing /\ Writing' = Writing \ {w}
  BY DEF Writing, WriteEnds, TypeOK, Idle
<1>2. /\ Cardinality(Writing') = Cardinality(Writing) - 1
      /\ Cardinality(Writing) > 0 /\ Cardinality(Writing) \in Nat
  BY <1>1, WritingCount, ListingAssumption
<1>3. TypeOK'
  <2>1. job' \in [Writers -> Job]
    BY DEF TypeOK, WriteEnds, Idle, Job, Ops
  <2>2. active' \in Nat
    BY <1>2 DEF MarkInv, WriteEnds
  <2>3. QED
    BY <2>1, <2>2 DEF TypeOK, WriteEnds, listVars, Job
<1>4. MarkInv'
  BY <1>2 DEF MarkInv, WriteEnds, listVars, TypeOK
<1>5. generation' # snap'
  BY DEF MarkInv, WriteEnds, listVars, TypeOK
<1>6. PrefixInv'
  BY <1>5 DEF PrefixInv
<1>7. QED
  BY <1>3, <1>4, <1>6

-----------------------------------------------------------------------------
(* A listing starts on a quiet collection, or not at all.                    *)
LEMMA StartListingKeepsInv == ASSUME LInv, StartListing PROVE LInv'
<1> USE DEF LInv
<1>1. TypeOK'
  BY DEF TypeOK, StartListing, writerVars, Ended
<1>2. Writing' = Writing
  BY DEF Writing, StartListing, writerVars
<1>3. MarkInv'
  BY <1>2 DEF MarkInv, StartListing, writerVars, TypeOK
<1>4. PrefixInv'
  <2>1. SUFFICES ASSUME listing' = "get", active = 0, out' = <<>>, offset' = 0, rows' = rows,
                        active' = active
                 PROVE  active' = 0 /\ offset' <= Len(rows') /\ out' = SubSeq(rows', 1, offset')
    BY DEF PrefixInv, StartListing, writerVars, Ended, TypeOK
  <2>2. SubSeq(rows, 1, 0) = <<>>
    BY SubSeqEmpty
  <2>3. QED
    BY <2>1, <2>2 DEF TypeOK
<1>5. QED
  BY <1>1, <1>3, <1>4

(* A page is read.                                                           *)
LEMMA GetPageKeepsInv == ASSUME LInv, GetPage PROVE LInv'
<1> USE DEF LInv
<1>1. page' \in Seq(Row)
  <2>1. CASE rows \in Seq(Row) /\ offset \in Nat
    <3>1. Len(rows) \in Nat /\ PageSize \in Nat
      BY <2>1, ListingAssumption
    <3> DEFINE last == IF offset + PageSize < Len(rows) THEN offset + PageSize ELSE Len(rows)
    <3>2. last \in Int /\ last <= Len(rows) /\ offset + 1 \in Int
      BY <2>1, <3>1
    <3>3. page' = SubSeq(rows, offset + 1, last)
      BY DEF GetPage, PageAt
    <3> HIDE DEF last
    <3>4. \A i \in offset + 1 .. last : rows[i] \in Row
      BY <2>1, <3>1, <3>2
    <3>5. SubSeq(rows, offset + 1, last) \in Seq(Row)
      BY <3>2, <3>4, SubSeqProperties
    <3>6. QED
      BY <3>3, <3>5
  <2>2. QED
    BY <2>1 DEF TypeOK
<1>2. TypeOK'
  BY <1>1 DEF TypeOK, GetPage, writerVars
<1>3. Writing' = Writing
  BY DEF Writing, GetPage, writerVars
<1>4. MarkInv'
  BY <1>3 DEF MarkInv, GetPage, writerVars
<1>5. PrefixInv'
  BY DEF PrefixInv, GetPage, writerVars, Ended, PageAt
<1>6. QED
  BY <1>2, <1>4, <1>5

(* A page that passes the check extends what has been read.                  *)
LEMMA YieldPageKeepsInv == ASSUME LInv, YieldPage PROVE LInv'
<1> USE DEF LInv
<1>1. out \o page \in Seq(Row)
  BY ConcatProperties DEF TypeOK
<1>2. TypeOK'
  BY <1>1 DEF TypeOK, YieldPage, writerVars, Ended
<1>3. Writing' = Writing
  BY DEF Writing, YieldPage, writerVars
<1>4. MarkInv'
  BY <1>3 DEF MarkInv, YieldPage, writerVars
<1>5. PrefixInv'
  <2>1. SUFFICES ASSUME listing' = "yielded", generation = snap
                 PROVE  /\ active = 0 /\ offset <= Len(rows) /\ page = PageAt(offset)
                        /\ out \o page = SubSeq(rows, 1, offset + Len(page))
    BY DEF PrefixInv, YieldPage, writerVars, Ended, PageAt
  <2>2. active = 0 /\ offset <= Len(rows) /\ page = PageAt(offset) /\ out = SubSeq(rows, 1, offset)
    BY <2>1 DEF PrefixInv, YieldPage, Ended
  <2>3. offset \in Nat /\ offset <= Len(rows) /\ rows \in Seq(Row)
    BY <2>2 DEF TypeOK
  <2>4. SubSeq(rows, 1, offset) \o PageAt(offset) = SubSeq(rows, 1, offset + Len(PageAt(offset)))
    BY <2>3, PageContinues
  <2>5. QED
    BY <2>2, <2>4
<1>6. QED
  BY <1>2, <1>4, <1>5

(* The offset moves past the page that has been read.                        *)
LEMMA NextPageKeepsInv == ASSUME LInv, NextPage PROVE LInv'
<1> USE DEF LInv
<1>1. TypeOK'
  BY DEF TypeOK, NextPage, writerVars, Ended
<1>2. Writing' = Writing
  BY DEF Writing, NextPage, writerVars
<1>3. MarkInv'
  BY <1>2 DEF MarkInv, NextPage, writerVars
<1>4. PrefixInv'
  <2>1. SUFFICES ASSUME listing' = "get", generation = snap
                 PROVE  /\ active = 0 /\ offset + Len(page) <= Len(rows)
                        /\ out = SubSeq(rows, 1, offset + Len(page))
    BY DEF PrefixInv, NextPage, writerVars, Ended
  <2>2. /\ active = 0 /\ offset <= Len(rows) /\ page = PageAt(offset)
        /\ out = SubSeq(rows, 1, offset + Len(page))
    BY <2>1 DEF PrefixInv, NextPage, Ended
  <2>3. offset \in Nat /\ offset <= Len(rows) /\ rows \in Seq(Row)
    BY <2>2 DEF TypeOK
  <2>4. offset + Len(PageAt(offset)) <= Len(rows)
    BY <2>3, PageContinues
  <2>5. QED
    BY <2>2, <2>4
<1>5. QED
  BY <1>1, <1>3, <1>4

-----------------------------------------------------------------------------
(* Every step keeps the invariant.                                           *)
LEMMA NextKeepsInv == LInv /\ [Next]_vars => LInv'
<1> SUFFICES ASSUME LInv, [Next]_vars PROVE LInv'
  OBVIOUS
<1>1. ASSUME NEW w \in Writers, Choose(w) \/ WriteBegins(w) \/ WriteRow(w) \/ WriteEnds(w)
      PROVE  LInv'
  BY <1>1, ChooseKeepsInv, WriteBeginsKeepsInv, WriteRowKeepsInv, WriteEndsKeepsInv
<1>2. CASE StartListing
  BY <1>2, StartListingKeepsInv
<1>3. CASE GetPage
  BY <1>3, GetPageKeepsInv
<1>4. CASE YieldPage
  BY <1>4, YieldPageKeepsInv
<1>5. CASE NextPage
  BY <1>5, NextPageKeepsInv
<1>6. CASE UNCHANGED vars
  <2>1. TypeOK' /\ MarkInv'
    BY <1>6 DEF LInv, TypeOK, MarkInv, Writing, vars, writerVars, listVars
  <2>2. PrefixInv'
    BY <1>6 DEF LInv, PrefixInv, PageAt, vars, writerVars, listVars
  <2>3. QED
    BY <2>1, <2>2 DEF LInv
<1>7. QED
  BY <1>1, <1>2, <1>3, <1>4, <1>5, <1>6 DEF Next

(* The inductive invariant holds in every state of every behaviour.          *)
THEOREM Invariance == Spec => []LInv
<1>1. QED
  BY InitInv, NextKeepsInv, PTL DEF Spec

(* The variables keep their types: the count of active writers never goes     *)
(* below zero, and what is read are rows (CollectionState, iter_records).    *)
THEOREM TypeCorrect == Spec => []TypeOK
<1>1. LInv => TypeOK
  BY DEF LInv
<1>2. QED
  BY <1>1, Invariance, PTL

(* A listing ends in success only on the last page of a collection that has   *)
(* not been touched since it began.                                          *)
LEMMA ListedStep ==
    LInv /\ [Next]_vars =>
        (listing \notin Ended /\ listing' = "listed" => out' = rows /\ active = 0)
<1> SUFFICES ASSUME LInv, [Next]_vars, listing \notin Ended, listing' = "listed"
             PROVE  out' = rows /\ active = 0
  OBVIOUS
<1>1. SubSeq(rows, 1, Len(rows)) = rows
  BY SubSeqFull DEF LInv, TypeOK
<1>2. CASE YieldPage
  <2>1. page = <<>> /\ Unchanged /\ out' = out /\ listing = "fetched"
    BY <1>2 DEF YieldPage
  <2>2. active = 0 /\ offset <= Len(rows) /\ page = PageAt(offset) /\ out = SubSeq(rows, 1, offset)
    BY <2>1 DEF LInv, PrefixInv, Unchanged, Ended
  <2>3. offset \in Nat /\ offset <= Len(rows) /\ rows \in Seq(Row) /\ PageSize \in Nat \ {0}
    BY <2>2, ListingAssumption DEF LInv, TypeOK
  <2>4. Len(PageAt(offset)) = 0
    BY <2>1, <2>2
  <2>5. Len(PageAt(offset)) < PageSize => offset + Len(PageAt(offset)) = Len(rows)
    BY <2>3, PageContinues
  <2>6. offset = Len(rows)
    BY <2>3, <2>4, <2>5
  <2>7. QED
    BY <1>1, <2>1, <2>2, <2>6
<1>3. CASE NextPage
  <2>1. Len(page) < PageSize /\ Unchanged /\ out' = out /\ listing = "yielded"
    BY <1>3 DEF NextPage
  <2>2. /\ active = 0 /\ offset <= Len(rows) /\ page = PageAt(offset)
        /\ out = SubSeq(rows, 1, offset + Len(page))
    BY <2>1 DEF LInv, PrefixInv, Unchanged, Ended
  <2>3. offset \in Nat /\ offset <= Len(rows) /\ rows \in Seq(Row)
    BY <2>2 DEF LInv, TypeOK
  <2>4. Len(PageAt(offset)) < PageSize => offset + Len(PageAt(offset)) = Len(rows)
    BY <2>3, PageContinues
  <2>5. QED
    BY <1>1, <2>1, <2>2, <2>4
<1>4. CASE UNCHANGED listing
  BY <1>4 DEF Ended
<1>5. ASSUME NEW w \in Writers, Choose(w) \/ WriteBegins(w) \/ WriteRow(w) \/ WriteEnds(w)
      PROVE  UNCHANGED listing
  BY <1>5 DEF Choose, WriteBegins, WriteRow, WriteEnds, listVars
<1>6. ~StartListing /\ ~GetPage
  BY DEF StartListing, GetPage
<1>7. QED
  BY <1>2, <1>3, <1>4, <1>5, <1>6 DEF Next, vars, listVars

(* A successful listing is the whole collection as it is when the listing     *)
(* ends, whatever wrote to it meanwhile (store.iter_records).                *)
THEOREM ListingExact == Spec => ListedIsTheCollection
<1>1. LInv /\ [Next]_vars =>
        [listing \notin Ended /\ listing' = "listed" => out' = rows /\ active = 0]_vars
  BY ListedStep
<1>2. QED
  BY <1>1, Invariance, PTL DEF Spec, ListedIsTheCollection
=============================================================================
