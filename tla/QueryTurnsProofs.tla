------------------------- MODULE QueryTurnsProofs -------------------------
(***************************************************************************)
(* What the turn queue guarantees still holds when the agent's run, the    *)
(* conversation store and the memory fill the turns: every step of         *)
(* QueryTurns is a step of TurnQueue or leaves the queue alone.            *)
(* With runs that exclude each other, every stored history is made of whole *)
(* turns of calls that ended well, and can be replayed (HInv).             *)
(***************************************************************************)
EXTENDS QueryTurns, TurnQueueProofs, WellFoundedInduction

(* One step of a whole query_database call, seen by the queue.               *)
LEMMA StepIsQueueStep == [TurnsNext]_vars => [Next]_queueVars
<1> SUFFICES ASSUME [TurnsNext]_vars PROVE [Next]_queueVars
  OBVIOUS
<1>1. ASSUME NEW c \in Calls, NEW k \in Convs, CallArrives(c, k)
      PROVE  [Next]_queueVars
  BY <1>1 DEF CallArrives, Next
<1>2. ASSUME NEW c \in Calls, CallResumes(c) PROVE [Next]_queueVars
  BY <1>2 DEF CallResumes, Next
<1>3. ASSUME NEW c \in Calls, WaitCancelled(c) PROVE [Next]_queueVars
  BY <1>3 DEF WaitCancelled, Next
<1>4. ASSUME NEW c \in Calls, WaitAborted(c) PROVE [Next]_queueVars
  BY <1>4 DEF WaitAborted, Next
<1>5. ASSUME NEW c \in Calls, RunProgress(c) PROVE [Next]_queueVars
  <2>1. CASE CommandEnds(c)
    BY <2>1 DEF CommandEnds, FinishSaved, Finish, Next
  <2>2. CASE SearchEnds(c)
    BY <2>2 DEF SearchEnds
  <2>3. CASE ModelCallsTools(c)
    BY <2>3 DEF ModelCallsTools
  <2>4. CASE ModelAnswers(c)
    BY <2>4 DEF ModelAnswers, FinishSaved, Finish, Next
  <2>5. CASE ModelFails(c)
    BY <2>5 DEF ModelFails, Finish, Next
  <2>6. CASE \E allBad \in BOOLEAN : ToolsEnd(c, allBad)
    BY <2>6 DEF ToolsEnd, FinishSaved, Finish, Next
  <2>7. QED
    BY <1>5, <2>1, <2>2, <2>3, <2>4, <2>5, <2>6 DEF RunProgress
<1>6. ASSUME NEW c \in Calls, RunCancelled(c) PROVE [Next]_queueVars
  BY <1>6 DEF RunCancelled, Next
<1>7. CASE MemoryUsedElsewhere
  BY <1>7 DEF MemoryUsedElsewhere
<1>8. CASE UNCHANGED vars
  BY <1>8 DEF vars
<1>9. QED
  BY <1>1, <1>2, <1>3, <1>4, <1>5, <1>6, <1>7, <1>8 DEF TurnsNext

(* The whole query_database call uses the queue as TurnQueue specifies it.   *)
THEOREM RunsUseTheQueue == TurnsSpec => Spec
<1>1. Init => QueueInit
  BY DEF Init
<1>2. [TurnsNext]_vars => [Next]_queueVars
  BY StepIsQueueStep
<1>3. QED
  BY <1>1, <1>2, PTL DEF TurnsSpec, Spec

(* At most one agent run at a time works on a conversation, and a live call  *)
(* always uses the registered entry, with the runs' suspensions, failures    *)
(* and cancellations in place.                                               *)
THEOREM RunsExclude == TurnsSpec => [](OneTurnPerConversation /\ OneEntryPerConversation)
<1>1. QED
  BY RunsUseTheQueue, MutualExclusion, RegistryAgrees, PTL

-----------------------------------------------------------------------------
(* The histories.  HInv says what every object holds: an object is its        *)
(* conversation's; at rest it is whole; under a run it is whole up to the     *)
(* run's baseline, and the rest is the run's own.                             *)

Message ==
    [by : Calls, kind : {"user", "calls", "mixed", "asking", "results", "answer"}]

\* The calls whose messages may stay.
Settled == {c \in Calls : pc[c] = "done" /\ outcome[c] \notin {"cancelled", "memory"}}

\* The first n messages are those of calls in D, a block for each call, and they
\* leave no tool use open.
Whole(D, m, n) ==
    /\ \A i \in 1..n : /\ m[i].by \in D
                       /\ m[i].kind \notin {"mixed", "asking"}
                       /\ m[i].kind = "calls" => i < n /\ m[i + 1].kind = "results"
    /\ \A i, j, l \in 1..n : i < j /\ j < l /\ m[i].by = m[l].by => m[j].by = m[i].by

HistoryTypes ==
    /\ held \in [Convs -> Calls \cup {None}]
    /\ msgs \in [Calls -> Seq(Message)]
    /\ mine \in [Calls -> Calls \cup {None}]
    /\ base \in [Calls -> Nat]
    /\ step \in [Calls -> {"idle", "command", "search", "model", "tools"}]
    /\ outcome \in [Calls -> {"none", "answered", "stopped", "failed", "memory", "cancelled"}]

\* What a call shows of itself before, during and after its turn.
CallsInv ==
    \A c \in Calls :
        /\ pc[c] # "done" => outcome[c] = "none"
        /\ step[c] # "idle" => pc[c] = "turn"
        /\ pc[c] \in {"new", "waiting"} => msgs[c] = <<>>

\* A stored object, and the one a run works on, are of their conversation; they
\* are the same one unless it was evicted.
ObjectsInv ==
    /\ \A k \in Convs : held[k] # None =>
            conv[held[k]] = k /\ pc[held[k]] \in {"turn", "done"}
    /\ \A c \in Calls : pc[c] = "turn" =>
            /\ mine[c] \in Calls
            /\ conv[mine[c]] = conv[c] /\ pc[mine[c]] \in {"turn", "done"}
            /\ held[conv[c]] \in {None, mine[c]}

AtRest(k) == \A c \in Calls : pc[c] = "turn" => conv[c] # k

RestInv ==
    \A k \in Convs : held[k] # None /\ AtRest(k) =>
        Whole(Settled, msgs[held[k]], Len(msgs[held[k]]))

RunInv ==
    \A c \in Calls : pc[c] = "turn" =>
        /\ base[c] <= Len(msgs[mine[c]])
        /\ Whole(Settled, msgs[mine[c]], base[c])
        /\ \A i \in base[c] + 1 .. Len(msgs[mine[c]]) : msgs[mine[c]][i].by = c

HInv == HistoryTypes /\ CallsInv /\ ObjectsInv /\ RestInv /\ RunInv

-----------------------------------------------------------------------------
(* What the trim and the rollback do to a list of messages. *)

\* The least element, which the trim takes.
LEMMA MinIsLeast ==
    ASSUME NEW U, U \subseteq Nat, U # {}
    PROVE  Min(U) \in U /\ \A j \in U : Min(U) <= j
<1>1. PICK i \in U : \A j \in U : ~(<<j, i>> \in OpToRel(<, Nat))
  BY NatLessThanWellFounded, WFMin
<1>2. i \in U /\ \A j \in U : ~(j < i)
  BY <1>1 DEF OpToRel
<1>3. \A j \in U : i <= j
  BY <1>2
<1>4. QED
  BY <1>2, <1>3 DEF Min

\* truncate_messages to a length the list has: the first messages, as they were.
LEMMA TruncatedKeepsPrefix ==
    ASSUME NEW m \in Seq(Message), NEW n \in 0..Len(m)
    PROVE  /\ Truncated(m, n) \in Seq(Message) /\ Len(Truncated(m, n)) = n
           /\ \A i \in 1..n : Truncated(m, n)[i] = m[i]
<1>1. Min({n, Len(m)}) = n
  <2>1. {n, Len(m)} \subseteq Nat /\ {n, Len(m)} # {}
    OBVIOUS
  <2>2. Min({n, Len(m)}) \in {n, Len(m)} /\ Min({n, Len(m)}) <= n
    BY <2>1, MinIsLeast
  <2>3. QED
    BY <2>2
<1>2. Truncated(m, n) = SubSeq(m, 1, n)
  BY <1>1 DEF Truncated
<1>3. QED
  BY <1>2

\* Whether a prefix is whole depends on its messages alone.
LEMMA WholePrefix ==
    ASSUME NEW D, NEW E, D \subseteq E, NEW m, NEW r, NEW n \in Nat,
           Whole(D, m, n), \A i \in 1..n : r[i] = m[i]
    PROVE  Whole(E, r, n)
<1>1. ASSUME NEW i \in 1..n
      PROVE  /\ r[i].by \in E /\ r[i].kind \notin {"mixed", "asking"}
             /\ r[i].kind = "calls" => i < n /\ r[i + 1].kind = "results"
  <2>1. /\ m[i].by \in E /\ m[i].kind \notin {"mixed", "asking"}
        /\ m[i].kind = "calls" => i < n /\ m[i + 1].kind = "results"
    BY DEF Whole
  <2>2. i < n => r[i + 1] = m[i + 1]
    OBVIOUS
  <2>3. QED
    BY <2>1, <2>2
<1>2. ASSUME NEW i \in 1..n, NEW j \in 1..n, NEW l \in 1..n,
             i < j, j < l, r[i].by = r[l].by
      PROVE  r[j].by = r[i].by
  BY <1>2 DEF Whole
<1>3. QED
  BY <1>1, <1>2 DEF Whole

\* r begins with the first n messages of m.
Begins(r, m, n) == \A i \in 1..n : r[i] = m[i]

\* What a finished call leaves: all up to its baseline, then its own messages up
\* to the first open tool use, so that the list is whole with that call in it.
LEMMA TrimmedIsWhole ==
    ASSUME NEW D, NEW c, c \notin D, NEW m \in Seq(Message), NEW b \in 0..Len(m),
           Whole(D, m, b), \A i \in b + 1 .. Len(m) : m[i].by = c
    PROVE  /\ Trimmed(m, b) \in Seq(Message)
           /\ b <= Len(Trimmed(m, b)) /\ Len(Trimmed(m, b)) <= Len(m)
           /\ Begins(Trimmed(m, b), m, Len(Trimmed(m, b)))
           /\ Whole(D \cup {c}, Trimmed(m, b), Len(Trimmed(m, b)))
<1> DEFINE t == Trimmed(m, b)
           open == {i \in b + 1 .. Len(m) : Unanswered(m, i)}
<1>1. /\ t \in Seq(Message) /\ b <= Len(t) /\ Len(t) <= Len(m)
      /\ \A i \in 1..Len(t) : t[i] = m[i]
      /\ \A i \in b + 1 .. Len(t) : ~Unanswered(m, i)
      /\ Len(t) < Len(m) => Unanswered(m, Len(t) + 1)
  <2>1. CASE open = {}
    <3>1. t = m
      BY <2>1 DEF Trimmed
    <3>2. QED
      BY <2>1, <3>1
  <2>2. CASE open # {}
    <3>1. open \subseteq Nat
      OBVIOUS
    <3>2. Min(open) \in open /\ \A j \in open : Min(open) <= j
      BY <2>2, <3>1, MinIsLeast
    <3>3. PICK p \in b + 1 .. Len(m) :
              p = Min(open) /\ Unanswered(m, p) /\ \A j \in open : p <= j
      BY <3>2
    <3>4. t = SubSeq(m, 1, p - 1)
      BY <2>2, <3>3 DEF Trimmed
    <3> HIDE DEF t
    <3>5. t \in Seq(Message) /\ Len(t) = p - 1 /\ \A i \in 1..p - 1 : t[i] = m[i]
      BY <3>4
    <3>6. \A i \in b + 1 .. p - 1 : ~Unanswered(m, i)
      BY <3>3
    <3>7. QED
      BY <3>3, <3>5, <3>6
  <2>3. QED
    BY <2>1, <2>2
<1> HIDE DEF t, open
<1>2. ASSUME NEW i \in 1..Len(t)
      PROVE  /\ t[i].by \in D \cup {c} /\ t[i].kind \notin {"mixed", "asking"}
             /\ t[i].kind = "calls" => i < Len(t) /\ t[i + 1].kind = "results"
  <2>1. CASE i <= b
    <3>1. m[i].by \in D /\ m[i].kind \notin {"mixed", "asking"}
          /\ (m[i].kind = "calls" => i < b /\ m[i + 1].kind = "results")
      BY <2>1 DEF Whole
    <3>2. t[i] = m[i] /\ (i < b => i < Len(t) /\ t[i + 1] = m[i + 1])
      BY <1>1
    <3>3. QED
      BY <3>1, <3>2
  <2>2. CASE i > b
    <3>1. t[i] = m[i] /\ m[i].by = c /\ ~Unanswered(m, i)
      BY <1>1, <2>2
    <3>2. m[i].kind \notin {"mixed", "asking"}
          /\ (m[i].kind = "calls" => i < Len(m) /\ m[i + 1].kind = "results")
      BY <1>1, <3>1 DEF Unanswered
    <3>3. ASSUME m[i].kind = "calls", i = Len(t) PROVE FALSE
      <4>1. Unanswered(m, i + 1) /\ m[i + 1].kind = "results"
        BY <1>1, <3>2, <3>3
      <4>2. QED
        BY <4>1 DEF Unanswered
    <3>4. m[i].kind = "calls" => i < Len(t) /\ t[i + 1] = m[i + 1]
      BY <1>1, <3>3
    <3>5. QED
      BY <3>1, <3>2, <3>4
  <2>3. QED
    BY <1>1, <2>1, <2>2
<1>3. ASSUME NEW i \in 1..Len(t), NEW j \in 1..Len(t), NEW l \in 1..Len(t),
             i < j, j < l, t[i].by = t[l].by
      PROVE  t[j].by = t[i].by
  <2>1. /\ t[i] = m[i] /\ t[j] = m[j] /\ t[l] = m[l]
        /\ i \in 1..Len(m) /\ j \in 1..Len(m) /\ l \in 1..Len(m)
    BY <1>1
  <2>2. CASE l <= b
    BY <1>3, <2>1, <2>2 DEF Whole
  <2>3. CASE l > b
    <3>1. m[l].by = c
      BY <2>1, <2>3
    <3>2. i > b
      <4>1. i <= b => m[i].by \in D
        BY DEF Whole
      <4>2. QED
        BY <1>3, <2>1, <3>1, <4>1
    <3>3. QED
      BY <1>3, <2>1, <3>1, <3>2
  <2>4. QED
    BY <2>1, <2>2, <2>3
<1>4. QED
  BY <1>1, <1>2, <1>3 DEF t, Whole, Begins

-----------------------------------------------------------------------------
(* What a run does to the histories. *)

\* A stored object that stays in place keeps the messages of calls that are over.
Kept ==
    \A k \in Convs : held[k] # None /\ held'[k] = held[k] =>
        \A i \in 1..Len(msgs[held[k]]) : pc[msgs[held[k]][i].by] = "done" =>
            i \in 1..Len(msgs'[held[k]]) /\ msgs'[held[k]][i] = msgs[held[k]][i]

\* A run changes its own object only behind the baseline.
LEMMA ChangesKeep ==
    ASSUME HInv, QInv, NEW c \in Calls, pc[c] = "turn",
           NEW n \in Seq(Message), msgs' = [msgs EXCEPT ![mine[c]] = n],
           base[c] <= Len(n), \A i \in 1..base[c] : n[i] = msgs[mine[c]][i]
    PROVE  Kept
<1> SUFFICES ASSUME NEW k \in Convs, held[k] # None, held'[k] = held[k],
                    NEW i \in 1..Len(msgs[held[k]]), pc[msgs[held[k]][i].by] = "done"
             PROVE  i \in 1..Len(msgs'[held[k]]) /\ msgs'[held[k]][i] = msgs[held[k]][i]
  BY DEF Kept
<1>1. mine[c] \in Calls /\ held[k] \in Calls /\ msgs \in [Calls -> Seq(Message)]
      /\ base[c] \in Nat
  BY DEF HInv, HistoryTypes, ObjectsInv
<1>2. CASE held[k] = mine[c]
  <2>1. msgs'[held[k]] = n
    BY <1>1, <1>2
  <2>2. i <= base[c]
    <3>1. i \in base[c] + 1 .. Len(msgs[mine[c]]) => msgs[mine[c]][i].by = c
      BY DEF HInv, RunInv
    <3>2. Len(msgs[mine[c]]) \in Nat
      BY <1>1
    <3>3. QED
      BY <1>1, <1>2, <3>1, <3>2
  <2>3. Len(n) \in Nat
    OBVIOUS
  <2>4. QED
    BY <1>1, <1>2, <2>1, <2>2, <2>3
<1>3. CASE held[k] # mine[c]
  BY <1>1, <1>3
<1>4. QED
  BY <1>2, <1>3

\* Two runs work on different objects, and no run on a conversation of another one.
LEMMA ObjectsApart ==
    ASSUME HInv, QInv, NEW c \in Calls, pc[c] = "turn"
    PROVE  /\ conv[c] \in Convs /\ mine[c] \in Calls
           /\ \A d \in Calls : pc[d] = "turn" /\ d # c =>
                conv[d] # conv[c] /\ mine[d] # mine[c] /\ mine[d] \in Calls
           /\ \A k \in Convs : k # conv[c] /\ held[k] # None =>
                held[k] # mine[c] /\ held[k] \in Calls
<1>1. \A d, e \in Calls : pc[d] = "turn" /\ pc[e] = "turn" /\ conv[d] = conv[e] => d = e
  BY DEF QInv, EntryInv, LockInv, Live
<1>2. conv[c] \in Convs
  BY DEF QInv, EntryInv, Live
<1>3. mine[c] \in Calls /\ conv[mine[c]] = conv[c]
  BY DEF HInv, ObjectsInv
<1>4. \A d \in Calls : pc[d] = "turn" /\ d # c =>
        conv[d] # conv[c] /\ mine[d] \in Calls /\ conv[mine[d]] = conv[d]
  BY <1>1 DEF HInv, ObjectsInv
<1>5. \A k \in Convs : held[k] # None => held[k] \in Calls /\ conv[held[k]] = k
  BY DEF HInv, HistoryTypes, ObjectsInv
<1>6. QED
  BY <1>2, <1>3, <1>4, <1>5

\* A run ends with n in its object, which is whole if the object stays stored.
LEMMA RunEnds ==
    ASSUME HInv, QInv, NEW c \in Calls, pc[c] = "turn", Leave(c), LocalsGone(c),
           held' \in [Convs -> Calls \cup {None}],
           \A k \in Convs \ {conv[c]} : held'[k] \in {None, held[k]},
           held'[conv[c]] \in {None, mine[c]},
           NEW n \in Seq(Message), msgs' = [msgs EXCEPT ![mine[c]] = n],
           base[c] <= Len(n), \A i \in 1..base[c] : n[i] = msgs[mine[c]][i],
           NEW how \in {"answered", "stopped", "failed", "memory", "cancelled"},
           outcome' = [outcome EXCEPT ![c] = how],
           held'[conv[c]] # None => Whole(Settled', n, Len(n))
    PROVE  HInv' /\ Kept
<1>1. /\ pc \in [Calls -> {"new", "waiting", "turn", "done"}]
      /\ pc' = [pc EXCEPT ![c] = "done"] /\ conv' = conv
  BY DEF Leave, QInv, QueueTypeOK
<1>2. /\ conv[c] \in Convs /\ mine[c] \in Calls
      /\ \A d \in Calls : pc[d] = "turn" /\ d # c =>
           conv[d] # conv[c] /\ mine[d] # mine[c] /\ mine[d] \in Calls
      /\ \A k \in Convs : k # conv[c] /\ held[k] # None =>
           held[k] # mine[c] /\ held[k] \in Calls
  BY ObjectsApart
<1>3. HistoryTypes'
  <2>1. msgs' \in [Calls -> Seq(Message)]
    BY <1>2 DEF HInv, HistoryTypes
  <2>2. outcome' \in [Calls -> {"none", "answered", "stopped", "failed", "memory", "cancelled"}]
    BY DEF HInv, HistoryTypes
  <2>3. QED
    BY <2>1, <2>2 DEF HInv, HistoryTypes, LocalsGone
<1>4. CallsInv'
  <2> SUFFICES ASSUME NEW d \in Calls
               PROVE  /\ pc'[d] # "done" => outcome'[d] = "none"
                      /\ step'[d] # "idle" => pc'[d] = "turn"
                      /\ pc'[d] \in {"new", "waiting"} => msgs'[d] = <<>>
    BY DEF CallsInv
  <2>1. CASE d = c
    BY <1>1, <2>1 DEF HInv, HistoryTypes, LocalsGone
  <2>2. CASE d # c
    <3>1. pc'[d] = pc[d] /\ step'[d] = step[d] /\ outcome'[d] = outcome[d]
      BY <1>1, <2>2 DEF HInv, HistoryTypes, LocalsGone
    <3>2. pc[d] \in {"new", "waiting"} => d # mine[c]
      BY DEF HInv, ObjectsInv
    <3>3. pc[d] \in {"new", "waiting"} => msgs'[d] = msgs[d]
      BY <3>2 DEF HInv, HistoryTypes
    <3>4. QED
      BY <3>1, <3>3 DEF HInv, CallsInv
  <2>3. QED
    BY <2>1, <2>2
<1>5. ObjectsInv'
  <2>1. ASSUME NEW k \in Convs, held'[k] # None
        PROVE  conv'[held'[k]] = k /\ pc'[held'[k]] \in {"turn", "done"}
    <3>1. CASE k = conv[c]
      BY <1>1, <1>2, <2>1, <3>1 DEF HInv, ObjectsInv
    <3>2. CASE k # conv[c]
      BY <1>1, <1>2, <2>1, <3>2 DEF HInv, ObjectsInv
    <3>3. QED
      BY <3>1, <3>2
  <2>2. ASSUME NEW d \in Calls, pc'[d] = "turn"
        PROVE  /\ mine'[d] \in Calls
               /\ conv'[mine'[d]] = conv'[d] /\ pc'[mine'[d]] \in {"turn", "done"}
               /\ held'[conv'[d]] \in {None, mine'[d]}
    <3>1. d # c /\ pc[d] = "turn" /\ mine'[d] = mine[d]
      BY <1>1, <2>2 DEF HInv, HistoryTypes, LocalsGone
    <3>2. conv[d] \in Convs \ {conv[c]}
      BY <1>2, <3>1 DEF QInv, EntryInv, Live
    <3>3. QED
      BY <1>1, <1>2, <3>1, <3>2 DEF HInv, ObjectsInv
  <2>3. QED
    BY <2>1, <2>2 DEF ObjectsInv
<1>6. Settled \subseteq Settled'
  BY <1>1 DEF Settled, HInv, HistoryTypes
<1>7. RestInv'
  <2> SUFFICES ASSUME NEW k \in Convs, held'[k] # None, AtRest(k)'
               PROVE  Whole(Settled', msgs'[held'[k]], Len(msgs'[held'[k]]))
    BY DEF RestInv
  <2>1. CASE k = conv[c]
    BY <1>2, <2>1 DEF HInv, HistoryTypes
  <2>2. CASE k # conv[c]
    <3>1. held'[k] = held[k] /\ msgs'[held[k]] = msgs[held[k]] /\ held[k] \in Calls
      BY <1>2, <2>2 DEF HInv, HistoryTypes
    <3>2. AtRest(k)
      BY <1>1, <2>2 DEF AtRest
    <3>3. Whole(Settled, msgs[held[k]], Len(msgs[held[k]]))
      BY <3>1, <3>2 DEF HInv, RestInv
    <3>4. Len(msgs[held[k]]) \in Nat
      BY <3>1 DEF HInv, HistoryTypes
    <3>5. QED
      BY <1>6, <3>1, <3>3, <3>4, WholePrefix
  <2>3. QED
    BY <2>1, <2>2
<1>8. RunInv'
  <2> SUFFICES ASSUME NEW d \in Calls, pc'[d] = "turn"
               PROVE  /\ base'[d] <= Len(msgs'[mine'[d]])
                      /\ Whole(Settled', msgs'[mine'[d]], base'[d])
                      /\ \A i \in base'[d] + 1 .. Len(msgs'[mine'[d]]) :
                            msgs'[mine'[d]][i].by = d
    BY DEF RunInv
  <2>1. d # c /\ pc[d] = "turn" /\ mine'[d] = mine[d] /\ base'[d] = base[d] /\ base[d] \in Nat
    BY <1>1 DEF HInv, HistoryTypes, LocalsGone
  <2>2. msgs'[mine[d]] = msgs[mine[d]]
    BY <1>2, <2>1 DEF HInv, HistoryTypes
  <2>3. Whole(Settled', msgs[mine[d]], base[d])
    BY <1>6, <2>1, WholePrefix DEF HInv, RunInv
  <2>4. QED
    BY <2>1, <2>2, <2>3 DEF HInv, RunInv
<1>9. Kept
  BY ChangesKeep
<1>10. QED
  BY <1>3, <1>4, <1>5, <1>7, <1>8, <1>9 DEF HInv

Results == {"answered", "stopped", "failed", "memory", "cancelled"}

\* m is what the run of c found, and after it messages of c.
OwnAfter(m, c) ==
    /\ m \in Seq(Message) /\ base[c] <= Len(m)
    /\ \A i \in 1..base[c] : m[i] = msgs[mine[c]][i]
    /\ \A i \in base[c] + 1 .. Len(m) : m[i].by = c

\* A run ends: it saves its conversation, or leaves the store as it is and has not
\* reached its end; what is stored then is whole.
EndStep(c, how) ==
    /\ pc[c] = "turn" /\ Leave(c) /\ LocalsGone(c)
    /\ outcome' = [outcome EXCEPT ![c] = how]
    /\ \/ Remember(conv[c], mine[c])
       \/ held' = held /\ how \notin {"answered", "stopped"}
    /\ \E n : /\ OwnAfter(n, c) /\ msgs' = [msgs EXCEPT ![mine[c]] = n]
              /\ held'[conv[c]] # None => Whole(Settled', n, Len(n))

\* A run that goes on.
GoStep(c) ==
    /\ pc[c] = "turn" /\ UNCHANGED <<pc, conv, held, mine, base, outcome>>
    /\ \E s \in {"search", "model", "tools"} : step' = [step EXCEPT ![c] = s]
    /\ \E n : OwnAfter(n, c) /\ msgs' = [msgs EXCEPT ![mine[c]] = n]

\* Storing an object changes its conversation's, and evicts others.
LEMMA RememberStores ==
    ASSUME HInv, NEW k \in Convs, NEW o \in Calls, Remember(k, o)
    PROVE  /\ held' \in [Convs -> Calls \cup {None}]
           /\ \A x \in Convs \ {k} : held'[x] \in {None, held[x]}
           /\ held'[k] \in {None, o}
<1>1. QED
  BY DEF HInv, HistoryTypes, Remember

\* What becomes of the store when a run ends.
LEMMA EndStores ==
    ASSUME HInv, QInv, NEW c \in Calls, NEW how, EndStep(c, how)
    PROVE  /\ held' \in [Convs -> Calls \cup {None}]
           /\ \A k \in Convs \ {conv[c]} : held'[k] \in {None, held[k]}
           /\ held'[conv[c]] \in {None, mine[c]}
<1>1. conv[c] \in Convs /\ mine[c] \in Calls /\ pc[c] = "turn"
  BY ObjectsApart DEF EndStep
<1>2. CASE Remember(conv[c], mine[c])
  BY <1>1, <1>2, RememberStores
<1>3. CASE held' = held
  BY <1>1, <1>3 DEF HInv, HistoryTypes, ObjectsInv
<1>4. QED
  BY <1>2, <1>3 DEF EndStep

LEMMA EndKeepsInv ==
    ASSUME HInv, QInv, NEW c \in Calls, NEW how \in Results, EndStep(c, how)
    PROVE  HInv' /\ Kept
<1>1. /\ pc[c] = "turn" /\ Leave(c) /\ LocalsGone(c)
      /\ outcome' = [outcome EXCEPT ![c] = how]
      /\ how \in {"answered", "stopped", "failed", "memory", "cancelled"}
  BY DEF EndStep, Results
<1>2. PICK n : /\ OwnAfter(n, c) /\ msgs' = [msgs EXCEPT ![mine[c]] = n]
               /\ held'[conv[c]] # None => Whole(Settled', n, Len(n))
  BY DEF EndStep
<1>3. n \in Seq(Message) /\ base[c] <= Len(n) /\ \A i \in 1..base[c] : n[i] = msgs[mine[c]][i]
  BY <1>2 DEF OwnAfter
<1>4. QED
  BY <1>1, <1>2, <1>3, EndStores, RunEnds

\* The trim and the rollback make what a run leaves whole.
LEMMA FinishIsEnd ==
    ASSUME HInv, QInv, NEW c \in Calls, pc[c] = "turn", NEW m, OwnAfter(m, c),
           NEW how \in {"answered", "stopped", "failed"}, Finish(c, m, how),
           Remember(conv[c], mine[c]) \/ (held' = held /\ how = "failed")
    PROVE  \E r \in Results : EndStep(c, r)
<1> DEFINE b == base[c]
           kept == IF held'[conv[c]] = None THEN m
                   ELSE IF memory' = "failed" THEN Truncated(Trimmed(m, b), b)
                   ELSE Trimmed(m, b)
           said == IF memory' = "failed" THEN "memory" ELSE how
<1>0. /\ m \in Seq(Message) /\ base[c] <= Len(m)
      /\ \A i \in 1..base[c] : m[i] = msgs[mine[c]][i]
      /\ \A i \in base[c] + 1 .. Len(m) : m[i].by = c
  BY DEF OwnAfter
<1>1. /\ Leave(c) /\ LocalsGone(c)
      /\ msgs' = [msgs EXCEPT ![mine[c]] = kept]
      /\ outcome' = [outcome EXCEPT ![c] = said]
  BY DEF Finish
<1>2. /\ b \in 0..Len(m) /\ m \in Seq(Message)
      /\ c \notin Settled
      /\ Whole(Settled, msgs[mine[c]], b)
  <2>1. base[c] \in Nat /\ Len(m) \in Nat
    BY <1>0 DEF HInv, HistoryTypes
  <2>2. Whole(Settled, msgs[mine[c]], base[c])
    BY DEF HInv, RunInv
  <2>3. c \notin Settled
    BY DEF Settled
  <2>4. QED
    BY <1>0, <2>1, <2>2, <2>3
<1>3. Whole(Settled, m, b)
  BY <1>0, <1>2, WholePrefix
<1>4. /\ Trimmed(m, b) \in Seq(Message) /\ b <= Len(Trimmed(m, b))
      /\ Len(Trimmed(m, b)) <= Len(m)
      /\ \A i \in 1..Len(Trimmed(m, b)) : Trimmed(m, b)[i] = m[i]
      /\ Whole(Settled \cup {c}, Trimmed(m, b), Len(Trimmed(m, b)))
  <2>1. /\ m \in Seq(Message) /\ c \notin Settled /\ b \in 0..Len(m)
        /\ \A i \in b + 1 .. Len(m) : m[i].by = c
    BY <1>0, <1>2
  <2> HIDE DEF b, kept, said
  <2>2. /\ Trimmed(m, b) \in Seq(Message) /\ b <= Len(Trimmed(m, b))
        /\ Len(Trimmed(m, b)) <= Len(m)
        /\ Begins(Trimmed(m, b), m, Len(Trimmed(m, b)))
        /\ Whole(Settled \cup {c}, Trimmed(m, b), Len(Trimmed(m, b)))
    BY <1>3, <2>1, TrimmedIsWhole
  <2>3. QED
    BY <2>2 DEF Begins
<1>5. b \in 0..Len(Trimmed(m, b))
  BY <1>2, <1>4
<1>6. /\ Truncated(Trimmed(m, b), b) \in Seq(Message)
      /\ Len(Truncated(Trimmed(m, b), b)) = b
      /\ \A i \in 1..b : Truncated(Trimmed(m, b), b)[i] = Trimmed(m, b)[i]
  BY <1>4, <1>5, TruncatedKeepsPrefix
<1>7. /\ pc' = [pc EXCEPT ![c] = "done"]
      /\ pc \in [Calls -> {"new", "waiting", "turn", "done"}]
  BY <1>1 DEF Leave, QInv, QueueTypeOK
<1>8. Settled \subseteq Settled' /\ (memory' # "failed" => c \in Settled')
  BY <1>1, <1>7 DEF Settled, HInv, HistoryTypes
<1> HIDE DEF b
<1>9. /\ kept \in Seq(Message) /\ b <= Len(kept) /\ Len(kept) <= Len(m)
      /\ \A i \in 1..Len(kept) : kept[i] = m[i]
  <2>1. CASE held'[conv[c]] = None
    BY <1>2, <2>1
  <2>2. CASE held'[conv[c]] # None /\ memory' = "failed"
    <3>1. kept = Truncated(Trimmed(m, b), b)
      BY <2>2
    <3> HIDE DEF kept
    <3>2. \A i \in 1..b : i \in 1..Len(Trimmed(m, b))
      BY <1>5
    <3>3. QED
      BY <1>2, <1>4, <1>6, <3>1, <3>2
  <2>3. CASE held'[conv[c]] # None /\ memory' # "failed"
    <3>1. kept = Trimmed(m, b)
      BY <2>3
    <3> HIDE DEF kept
    <3>2. QED
      BY <1>4, <3>1
  <2>4. QED
    BY <2>1, <2>2, <2>3
<1>10. held'[conv[c]] # None => Whole(Settled', kept, Len(kept))
  <2>1. CASE held'[conv[c]] # None /\ memory' = "failed"
    <3>1. kept = Truncated(Trimmed(m, b), b)
      BY <2>1
    <3>2. Len(kept) = b /\ \A i \in 1..b : kept[i] = m[i]
      BY <1>2, <1>6, <1>9, <3>1
    <3> HIDE DEF kept
    <3>3. Whole(Settled', kept, b)
      BY <1>2, <1>3, <1>8, <3>2, WholePrefix
    <3>4. QED
      BY <3>2, <3>3
  <2>2. CASE held'[conv[c]] # None /\ memory' # "failed"
    <3>1. kept = Trimmed(m, b)
      BY <2>2
    <3> HIDE DEF kept
    <3>2. Settled \cup {c} \subseteq Settled'
      BY <1>8, <2>2
    <3>3. Len(kept) \in Nat /\ Whole(Settled \cup {c}, kept, Len(kept))
      BY <1>4, <3>1
    <3>4. QED
      BY <3>2, <3>3, WholePrefix
  <2>3. QED
    BY <2>1, <2>2
<1>11. /\ said \in Results
       /\ Remember(conv[c], mine[c]) \/ (held' = held /\ said \notin {"answered", "stopped"})
  BY DEF Results
<1> HIDE DEF kept, said
<1>12. OwnAfter(kept, c)
  <2>1. \A i \in 1..base[c] : i \in 1..Len(kept) /\ kept[i] = msgs[mine[c]][i]
    BY <1>0, <1>2, <1>9 DEF b
  <2>2. \A i \in base[c] + 1 .. Len(kept) : i \in 1..Len(kept) /\ kept[i].by = c
    BY <1>0, <1>2, <1>9 DEF b
  <2>3. QED
    BY <1>9, <2>1, <2>2 DEF OwnAfter, b
<1>13. QED
  BY <1>1, <1>10, <1>11, <1>12 DEF EndStep

\* What a run adds is its own.
LEMMA AddOwn ==
    ASSUME HInv, QInv, NEW c \in Calls, pc[c] = "turn",
           NEW add \in Seq(Message), \A i \in 1..Len(add) : add[i].by = c
    PROVE  OwnAfter(msgs[mine[c]] \o add, c)
<1> DEFINE m == msgs[mine[c]] \o add
<1>1. mine[c] \in Calls
  BY ObjectsApart
<1>3. /\ m \in Seq(Message) /\ base[c] <= Len(m)
      /\ \A i \in 1..base[c] : m[i] = msgs[mine[c]][i]
      /\ \A i \in base[c] + 1 .. Len(m) : m[i].by = c
  <2>1. /\ msgs[mine[c]] \in Seq(Message) /\ base[c] \in Nat
        /\ base[c] <= Len(msgs[mine[c]])
        /\ \A i \in base[c] + 1 .. Len(msgs[mine[c]]) : msgs[mine[c]][i].by = c
    BY <1>1 DEF HInv, HistoryTypes, RunInv
  <2>2. /\ m \in Seq(Message) /\ Len(m) = Len(msgs[mine[c]]) + Len(add)
        /\ \A i \in 1..Len(msgs[mine[c]]) : m[i] = msgs[mine[c]][i]
        /\ \A i \in 1..Len(m) : i > Len(msgs[mine[c]]) =>
              m[i] = add[i - Len(msgs[mine[c]])]
              /\ i - Len(msgs[mine[c]]) \in 1..Len(add)
    BY <2>1
  <2> HIDE DEF m
  <2>3. ASSUME NEW i \in base[c] + 1 .. Len(m) PROVE m[i].by = c
    <3>1. Len(msgs[mine[c]]) \in Nat /\ i \in Nat /\ i \in 1..Len(m)
      BY <2>1, <2>2
    <3>2. CASE i <= Len(msgs[mine[c]])
      <4>1. i \in base[c] + 1 .. Len(msgs[mine[c]]) /\ i \in 1..Len(msgs[mine[c]])
        BY <2>1, <3>1, <3>2
      <4>2. QED
        BY <2>1, <2>2, <4>1
    <3>3. CASE i > Len(msgs[mine[c]])
      <4>1. /\ m[i] = add[i - Len(msgs[mine[c]])]
            /\ i - Len(msgs[mine[c]]) \in 1..Len(add)
        BY <2>2, <3>1, <3>3
      <4>2. QED
        BY <4>1
    <3>4. QED
      BY <3>1, <3>2, <3>3
  <2>4. QED
    BY <2>1, <2>2, <2>3
<1>4. QED
  BY <1>3 DEF OwnAfter

\* A run that goes on changes its own object behind the baseline.
LEMMA RunGoesOn ==
    ASSUME HInv, QInv, NEW c \in Calls, pc[c] = "turn",
           UNCHANGED <<pc, conv, held, mine, base, outcome>>,
           NEW s \in {"search", "model", "tools"}, step' = [step EXCEPT ![c] = s],
           NEW n \in Seq(Message), msgs' = [msgs EXCEPT ![mine[c]] = n],
           base[c] <= Len(n), \A i \in 1..base[c] : n[i] = msgs[mine[c]][i],
           \A i \in base[c] + 1 .. Len(n) : n[i].by = c
    PROVE  HInv' /\ Kept
<1>1. /\ conv[c] \in Convs /\ mine[c] \in Calls
      /\ \A d \in Calls : pc[d] = "turn" /\ d # c =>
           conv[d] # conv[c] /\ mine[d] # mine[c] /\ mine[d] \in Calls
      /\ \A k \in Convs : k # conv[c] /\ held[k] # None =>
           held[k] # mine[c] /\ held[k] \in Calls
  BY ObjectsApart
<1>2. HistoryTypes'
  <2>1. msgs' \in [Calls -> Seq(Message)]
    BY <1>1 DEF HInv, HistoryTypes
  <2>2. QED
    BY <2>1 DEF HInv, HistoryTypes
<1>3. \A d \in Calls : d # mine[c] => msgs'[d] = msgs[d]
  BY DEF HInv, HistoryTypes
<1>4. msgs'[mine[c]] = n
  BY <1>1 DEF HInv, HistoryTypes
<1>5. CallsInv'
  <2> SUFFICES ASSUME NEW d \in Calls
               PROVE  /\ pc'[d] # "done" => outcome'[d] = "none"
                      /\ step'[d] # "idle" => pc'[d] = "turn"
                      /\ pc'[d] \in {"new", "waiting"} => msgs'[d] = <<>>
    BY DEF CallsInv
  <2>1. d # c => step'[d] = step[d]
    BY DEF HInv, HistoryTypes
  <2>2. pc[d] \in {"new", "waiting"} => d # mine[c]
    BY DEF HInv, ObjectsInv
  <2>3. QED
    BY <1>3, <2>1, <2>2 DEF HInv, CallsInv
<1>6. ObjectsInv'
  BY DEF HInv, ObjectsInv
<1>7. Settled' = Settled
  BY DEF Settled
<1>8. RestInv'
  <2> SUFFICES ASSUME NEW k \in Convs, held[k] # None, AtRest(k)'
               PROVE  Whole(Settled, msgs'[held[k]], Len(msgs'[held[k]]))
    BY <1>7 DEF RestInv
  <2>1. AtRest(k) /\ k # conv[c]
    BY DEF AtRest
  <2>2. msgs'[held[k]] = msgs[held[k]]
    BY <1>1, <1>3, <2>1
  <2>3. QED
    BY <2>1, <2>2 DEF HInv, RestInv
<1>9. RunInv'
  <2> SUFFICES ASSUME NEW d \in Calls, pc[d] = "turn"
               PROVE  /\ base[d] <= Len(msgs'[mine[d]])
                      /\ Whole(Settled, msgs'[mine[d]], base[d])
                      /\ \A i \in base[d] + 1 .. Len(msgs'[mine[d]]) :
                            msgs'[mine[d]][i].by = d
    BY <1>7 DEF RunInv
  <2>1. CASE d = c
    <3>1. base[c] \in Nat /\ Whole(Settled, msgs[mine[c]], base[c])
      BY DEF HInv, HistoryTypes, RunInv
    <3>2. Whole(Settled, n, base[c])
      BY <3>1, WholePrefix
    <3>3. QED
      BY <1>4, <2>1, <3>2
  <2>2. CASE d # c
    BY <1>1, <1>3, <2>2 DEF HInv, RunInv
  <2>3. QED
    BY <2>1, <2>2
<1>10. Kept
  BY ChangesKeep
<1>11. QED
  BY <1>2, <1>5, <1>6, <1>8, <1>9, <1>10 DEF HInv

LEMMA GoKeepsInv ==
    ASSUME HInv, QInv, NEW c \in Calls, GoStep(c)
    PROVE  HInv' /\ Kept
<1>1. /\ pc[c] = "turn" /\ UNCHANGED <<pc, conv, held, mine, base, outcome>>
  BY DEF GoStep
<1>2. PICK s \in {"search", "model", "tools"} : step' = [step EXCEPT ![c] = s]
  BY DEF GoStep
<1>3. PICK n : OwnAfter(n, c) /\ msgs' = [msgs EXCEPT ![mine[c]] = n]
  BY DEF GoStep
<1>4. QED
  BY <1>1, <1>2, <1>3, RunGoesOn DEF OwnAfter

\* One more message of the run's own.
LEMMA AppendOwn ==
    ASSUME HInv, QInv, NEW c \in Calls, pc[c] = "turn",
           NEW kind \in {"user", "calls", "mixed", "asking", "results", "answer"}
    PROVE  /\ OwnAfter(Append(msgs[mine[c]], Msg(c, kind)), c)
           /\ OwnAfter(msgs[mine[c]] \o <<Msg(c, kind)>>, c)
<1> DEFINE x == Msg(c, kind)
           m == msgs[mine[c]]
<1>1. x \in Message /\ x.by = c
  BY DEF Msg, Message
<1> HIDE DEF x
<1>2. <<x>> \in Seq(Message) /\ \A i \in 1..Len(<<x>>) : <<x>>[i].by = c
  BY <1>1
<1>3. m \in Seq(Message)
  BY DEF HInv, HistoryTypes, ObjectsInv
<1> HIDE DEF m
<1>4. Append(m, x) = m \o <<x>>
  BY <1>1, <1>3
<1>5. OwnAfter(m \o <<x>>, c)
  BY <1>2, AddOwn DEF m
<1>6. QED
  BY <1>4, <1>5 DEF m, x

\* The steps of a run: it goes on, or it ends.
LEMMA ProgressSteps ==
    ASSUME HInv, QInv, NEW c \in Calls, RunProgress(c)
    PROVE  GoStep(c) \/ \E how \in Results : EndStep(c, how)
<1>1. step[c] # "idle"
  BY DEF RunProgress, CommandEnds, SearchEnds, ModelCallsTools, ModelAnswers, ModelFails, ToolsEnd
<1>2. pc[c] = "turn"
  BY <1>1 DEF HInv, CallsInv
<1> DEFINE m == msgs[mine[c]]
<1>3. m \in Seq(Message) /\ mine[c] \in Calls /\ msgs \in [Calls -> Seq(Message)]
  BY <1>2 DEF HInv, HistoryTypes, ObjectsInv
<1>4. OwnAfter(m, c)
  BY <1>2, <1>3 DEF OwnAfter, HInv, RunInv
<1>5. ASSUME NEW n, OwnAfter(n, c), NEW how \in {"answered", "stopped", "failed"},
             FinishSaved(c, n, how)
      PROVE  \E r \in Results : EndStep(c, r)
  <2>1. Finish(c, n, how) /\ Remember(conv[c], mine[c])
    BY <1>5 DEF FinishSaved
  <2>2. QED
    BY <1>2, <1>5, <2>1, FinishIsEnd
<1>6. CASE CommandEnds(c)
  BY <1>4, <1>5, <1>6 DEF CommandEnds
<1>7. CASE SearchEnds(c)
  <2>1. msgs' = [msgs EXCEPT ![mine[c]] = m]
    BY <1>3, <1>7 DEF SearchEnds
  <2>2. UNCHANGED <<pc, conv, held, mine, base, outcome>> /\ step' = [step EXCEPT ![c] = "model"]
    BY <1>7 DEF SearchEnds, queueVars
  <2>3. QED
    BY <1>2, <1>4, <2>1, <2>2 DEF GoStep
<1>8. CASE ModelCallsTools(c)
  <2>1. PICK kind \in {"calls", "mixed"} :
            msgs' = [msgs EXCEPT ![mine[c]] = Append(m, Msg(c, kind))]
    BY <1>3, <1>8 DEF ModelCallsTools
  <2>2. UNCHANGED <<pc, conv, held, mine, base, outcome>> /\ step' = [step EXCEPT ![c] = "tools"]
    BY <1>8 DEF ModelCallsTools, queueVars
  <2>3. OwnAfter(Append(m, Msg(c, kind)), c)
    BY <1>2, AppendOwn
  <2>4. QED
    BY <1>2, <2>1, <2>2, <2>3 DEF GoStep
<1>9. CASE ModelAnswers(c)
  <2>1. PICK reply \in {<<>>, <<Msg(c, "answer")>>, <<Msg(c, "asking")>>} :
            FinishSaved(c, m \o reply, "answered")
    BY <1>9 DEF ModelAnswers
  <2>2. OwnAfter(m \o reply, c)
    <3>1. m \o <<>> = m
      BY <1>3
    <3>2. OwnAfter(m \o <<Msg(c, "answer")>>, c) /\ OwnAfter(m \o <<Msg(c, "asking")>>, c)
      BY <1>2, AppendOwn
    <3>3. QED
      BY <1>4, <3>1, <3>2
  <2>3. QED
    BY <1>5, <2>1, <2>2
<1>10. CASE ModelFails(c)
  <2>1. held' = held /\ Finish(c, m, "failed")
    BY <1>10 DEF ModelFails
  <2>2. QED
    BY <1>2, <1>4, <2>1, FinishIsEnd
<1>11. CASE \E allBad \in BOOLEAN : ToolsEnd(c, allBad)
  <2> DEFINE n == Append(m, Msg(c, "results"))
  <2>1. OwnAfter(n, c)
    BY <1>2, AppendOwn
  <2>2. CASE FinishSaved(c, n, "stopped")
    BY <1>5, <2>1, <2>2
  <2>3. CASE /\ msgs' = [msgs EXCEPT ![mine[c]] = n]
             /\ step' = [step EXCEPT ![c] = "model"]
             /\ UNCHANGED <<queueVars, held, mine, base, outcome>>
    BY <1>2, <2>1, <2>3 DEF GoStep, queueVars
  <2>4. QED
    BY <1>11, <2>2, <2>3 DEF ToolsEnd
<1>12. QED
  BY <1>6, <1>7, <1>8, <1>9, <1>10, <1>11 DEF RunProgress

\* A cancelled run: the rollback leaves what the run found.
LEMMA CancelledIsEnd ==
    ASSUME HInv, QInv, NEW c \in Calls, RunCancelled(c)
    PROVE  EndStep(c, "cancelled")
<1>1. pc[c] = "turn" /\ Leave(c) /\ LocalsGone(c) /\ held' = held
      /\ outcome' = [outcome EXCEPT ![c] = "cancelled"]
  BY DEF RunCancelled
<1> DEFINE m == msgs[mine[c]]
           n == IF held[conv[c]] = None THEN m ELSE Truncated(m, base[c])
<1>2. /\ m \in Seq(Message) /\ base[c] \in 0..Len(m)
      /\ Whole(Settled, m, base[c])
      /\ \A i \in base[c] + 1 .. Len(m) : m[i].by = c
      /\ mine[c] \in Calls /\ msgs \in [Calls -> Seq(Message)]
      /\ held[conv[c]] \in {None, mine[c]}
  BY <1>1 DEF HInv, HistoryTypes, ObjectsInv, RunInv
<1>3. msgs' = [msgs EXCEPT ![mine[c]] = n]
  BY <1>2 DEF RunCancelled
<1>4. Settled \subseteq Settled'
  BY <1>1 DEF Settled, Leave, HInv, HistoryTypes, QInv, QueueTypeOK
<1>5. /\ Truncated(m, base[c]) \in Seq(Message) /\ Len(Truncated(m, base[c])) = base[c]
      /\ \A i \in 1..base[c] : Truncated(m, base[c])[i] = m[i]
  BY <1>2, TruncatedKeepsPrefix
<1> HIDE DEF m
<1>6. /\ n \in Seq(Message) /\ base[c] <= Len(n) /\ \A i \in 1..base[c] : n[i] = m[i]
      /\ \A i \in base[c] + 1 .. Len(n) : n[i].by = c
  BY <1>2, <1>5
<1>7. held'[conv[c]] # None => Whole(Settled', n, Len(n))
  <2> SUFFICES ASSUME held[conv[c]] # None PROVE Whole(Settled', n, Len(n))
    BY <1>1
  <2>1. n = Truncated(m, base[c])
    OBVIOUS
  <2> HIDE DEF n
  <2>2. Len(n) = base[c] /\ \A i \in 1..base[c] : n[i] = m[i]
    BY <1>5, <2>1
  <2>3. base[c] \in Nat /\ Whole(Settled, m, base[c])
    BY <1>2
  <2>4. Whole(Settled', n, base[c])
    BY SMTT(30), <1>4, <2>2, <2>3, WholePrefix
  <2>5. QED
    BY <2>2, <2>4
<1> HIDE DEF n
<1>8. OwnAfter(n, c)
  BY <1>6 DEF OwnAfter, m
<1>9. QED
  BY <1>1, <1>3, <1>7, <1>8 DEF EndStep

\* What a run that starts finds in object o, and what it leaves there.
StartStep(c, k, o) ==
    /\ \A d \in Calls : pc[d] = "turn" => d # c /\ conv[d] # k /\ conv[d] \in Convs
    /\ o \in Calls /\ (o = c \/ pc[o] \in {"turn", "done"})
    /\ (o = c <=> held[k] = None) /\ (o # c => o = held[k] /\ conv[o] = k)
    /\ msgs[o] \in Seq(Message) /\ Len(msgs[o]) \in Nat
    /\ Whole(Settled, msgs[o], Len(msgs[o])) /\ (o = c => msgs[o] = <<>>)
    /\ held' \in [Convs -> Calls \cup {None}]
    /\ held'[k] \in {None, o} /\ (held[k] # None => held'[k] = o)
    /\ \A x \in Convs \ {k} : held'[x] \in {None, held[x]}
    /\ msgs' \in [Calls -> Seq(Message)]
    /\ \A d \in Calls : d # o => msgs'[d] = msgs[d]
    /\ msgs'[o] \in Seq(Message) /\ Len(msgs'[o]) \in Nat /\ Len(msgs[o]) <= Len(msgs'[o])
    /\ \A i \in 1..Len(msgs[o]) : msgs'[o][i] = msgs[o][i]
    /\ \A i \in Len(msgs[o]) + 1 .. Len(msgs'[o]) : msgs'[o][i].by = c

LEMMA StartFinds ==
    ASSUME HInv, QInv, QInv', NEW c \in Calls, NEW k \in Convs,
           pc[c] \in {"new", "waiting"}, pc' = [pc EXCEPT ![c] = "turn"],
           conv' = [conv EXCEPT ![c] = k], StartRun(c, k),
           NEW o, o = IF held[k] = None THEN c ELSE held[k]
    PROVE  StartStep(c, k, o)
<1> DEFINE m == msgs[o]
           n == msgs'[o]
<1>1. /\ pc \in [Calls -> {"new", "waiting", "turn", "done"}]
      /\ conv \in [Calls -> Convs \cup {None}]
      /\ \A d \in Calls : d # c => pc'[d] = pc[d] /\ conv'[d] = conv[d]
      /\ pc'[c] = "turn" /\ conv'[c] = k
  BY DEF QInv, QueueTypeOK
<1>2. \A d \in Calls : pc[d] = "turn" => d # c /\ conv[d] # k /\ conv[d] \in Convs
  <2>1. \A d, e \in Calls : pc'[d] = "turn" /\ pc'[e] = "turn" /\ conv'[d] = conv'[e] => d = e
    BY DEF QInv, EntryInv, LockInv, Live
  <2>2. \A d \in Calls : pc[d] = "turn" => conv[d] \in Convs
    BY DEF QInv, EntryInv, Live
  <2>3. QED
    BY <1>1, <2>1, <2>2
<1>3. /\ HistoryTypes
      /\ \A x \in Convs : held[x] # None =>
           /\ held[x] \in Calls /\ conv[held[x]] = x
           /\ pc[held[x]] \in {"turn", "done"} /\ held[x] # c
      /\ \A d \in Calls : pc[d] = "turn" =>
           /\ mine[d] \in Calls /\ conv[mine[d]] = conv[d]
           /\ pc[mine[d]] \in {"turn", "done"} /\ mine[d] # c
           /\ held[conv[d]] \in {None, mine[d]}
  BY DEF HInv, HistoryTypes, ObjectsInv
<1>4. /\ o \in Calls /\ (o = c \/ pc[o] \in {"turn", "done"})
      /\ (o = c <=> held[k] = None) /\ (o # c => o = held[k] /\ conv[o] = k)
  BY <1>3
<1>5. m \in Seq(Message) /\ Len(m) \in Nat /\ Whole(Settled, m, Len(m)) /\ (o = c => m = <<>>)
  <2>1. m \in Seq(Message)
    BY <1>3, <1>4 DEF HistoryTypes
  <2>2. CASE o = c
    <3>1. m = <<>>
      BY <2>2 DEF HInv, CallsInv
    <3>2. QED
      BY <2>1, <3>1 DEF Whole
  <2>3. CASE o # c
    <3>1. AtRest(k)
      BY <1>2 DEF AtRest
    <3>2. Whole(Settled, msgs[held[k]], Len(msgs[held[k]]))
      BY <1>4, <2>3, <3>1 DEF HInv, RestInv
    <3>3. QED
      BY <1>4, <2>1, <2>3, <3>2
  <2>4. QED
    BY <2>2, <2>3
<1>6. /\ mine' = [mine EXCEPT ![c] = o] /\ base' = [base EXCEPT ![c] = Len(m)]
      /\ outcome' = outcome
      /\ \/ AskQuestion(c, k, o, m)
         \/ step' = [step EXCEPT ![c] = "command"] /\ held' = held /\ msgs' = msgs
  BY DEF StartRun
<1> HIDE DEF m
<1>7. /\ held' \in [Convs -> Calls \cup {None}]
      /\ held'[k] \in {None, o} /\ (held[k] # None => held'[k] = o)
      /\ \A x \in Convs \ {k} : held'[x] \in {None, held[x]}
  <2>1. CASE held[k] = None /\ Remember(k, o)
    BY <1>4, <2>1, RememberStores
  <2>2. CASE held' = held
    BY <1>3, <1>4, <2>2 DEF HistoryTypes
  <2>3. (held[k] = None /\ Remember(k, o)) \/ held' = held
    BY <1>4, <1>6 DEF AskQuestion
  <2>4. QED
    BY <2>1, <2>2, <2>3
<1>8. /\ msgs' \in [Calls -> Seq(Message)]
      /\ \A d \in Calls : d # o => msgs'[d] = msgs[d]
      /\ n \in Seq(Message) /\ Len(n) \in Nat /\ Len(m) <= Len(n)
      /\ \A i \in 1..Len(m) : n[i] = m[i]
      /\ \A i \in Len(m) + 1 .. Len(n) : n[i].by = c
  <2>1. CASE AskQuestion(c, k, o, m)
    <3>1. msgs' = [msgs EXCEPT ![o] = Append(m, Msg(c, "user"))]
      BY <2>1 DEF AskQuestion
    <3>2. Msg(c, "user") \in Message /\ Msg(c, "user").by = c
      BY DEF Msg, Message
    <3>3. n = Append(m, Msg(c, "user"))
      BY <1>3, <1>4, <3>1 DEF HistoryTypes
    <3>4. /\ n \in Seq(Message) /\ Len(n) = Len(m) + 1
          /\ \A i \in 1..Len(m) : n[i] = m[i]
          /\ n[Len(m) + 1] = Msg(c, "user")
      BY <1>5, <3>2, <3>3
    <3>5. /\ msgs' \in [Calls -> Seq(Message)]
          /\ \A d \in Calls : d # o => msgs'[d] = msgs[d]
      BY <1>3, <1>4, <3>1, <3>3, <3>4 DEF HistoryTypes
    <3> HIDE DEF n
    <3>6. QED
      BY SMTT(30), <1>5, <3>2, <3>4, <3>5
  <2>2. CASE msgs' = msgs
    <3>1. n = m
      BY <2>2 DEF m
    <3>2. QED
      BY <1>3, <1>5, <2>2, <3>1 DEF HistoryTypes
  <2>3. QED
    BY <1>6, <2>1, <2>2
<1>9. QED
  BY <1>2, <1>4, <1>5, <1>7, <1>8 DEF m, n, StartStep

\* A run starts on a conversation at rest, or on a new one.
LEMMA RunStarts ==
    ASSUME HInv, QInv, QInv', NEW c \in Calls, NEW k \in Convs,
           pc[c] \in {"new", "waiting"}, pc' = [pc EXCEPT ![c] = "turn"],
           conv' = [conv EXCEPT ![c] = k], StartRun(c, k)
    PROVE  HInv' /\ Kept
<1>0. PICK o : o = IF held[k] = None THEN c ELSE held[k]
  OBVIOUS
<1>a. StartStep(c, k, o)
  BY <1>0, StartFinds
<1> DEFINE m == msgs[o]
           n == msgs'[o]
<1>1. /\ pc \in [Calls -> {"new", "waiting", "turn", "done"}]
      /\ conv \in [Calls -> Convs \cup {None}]
      /\ \A d \in Calls : d # c => pc'[d] = pc[d] /\ conv'[d] = conv[d]
      /\ pc'[c] = "turn" /\ conv'[c] = k
  BY DEF QInv, QueueTypeOK
<1>2. \A d \in Calls : pc[d] = "turn" => d # c /\ conv[d] # k /\ conv[d] \in Convs
  BY <1>a DEF StartStep
<1>3. /\ HistoryTypes
      /\ \A x \in Convs : held[x] # None =>
           /\ held[x] \in Calls /\ conv[held[x]] = x
           /\ pc[held[x]] \in {"turn", "done"} /\ held[x] # c
      /\ \A d \in Calls : pc[d] = "turn" =>
           /\ mine[d] \in Calls /\ conv[mine[d]] = conv[d]
           /\ pc[mine[d]] \in {"turn", "done"} /\ mine[d] # c
           /\ held[conv[d]] \in {None, mine[d]}
  BY DEF HInv, HistoryTypes, ObjectsInv
<1>4. /\ o \in Calls /\ (o = c \/ pc[o] \in {"turn", "done"})
      /\ (o = c <=> held[k] = None) /\ (o # c => o = held[k] /\ conv[o] = k)
  BY <1>a DEF StartStep
<1>5. m \in Seq(Message) /\ Len(m) \in Nat /\ Whole(Settled, m, Len(m))
  BY <1>a DEF StartStep
<1>6. /\ mine' = [mine EXCEPT ![c] = o] /\ base' = [base EXCEPT ![c] = Len(m)]
      /\ outcome' = outcome
      /\ \/ AskQuestion(c, k, o, m)
         \/ step' = [step EXCEPT ![c] = "command"] /\ held' = held /\ msgs' = msgs
  BY <1>0 DEF StartRun
<1> HIDE DEF m
<1>7. /\ held' \in [Convs -> Calls \cup {None}]
      /\ held'[k] \in {None, o}
      /\ \A x \in Convs \ {k} : held'[x] \in {None, held[x]}
  BY <1>a DEF StartStep
<1>8. /\ msgs' \in [Calls -> Seq(Message)]
      /\ \A d \in Calls : d # o => msgs'[d] = msgs[d]
      /\ n \in Seq(Message) /\ Len(n) \in Nat /\ Len(m) <= Len(n)
      /\ \A i \in 1..Len(m) : n[i] = m[i]
      /\ \A i \in Len(m) + 1 .. Len(n) : n[i].by = c
  BY <1>a DEF StartStep, m
<1>9. step' \in [Calls -> {"idle", "command", "search", "model", "tools"}]
      /\ \A d \in Calls : d # c => step'[d] = step[d]
  <2>1. PICK s \in {"command", "search"} : step' = [step EXCEPT ![c] = s]
    BY <1>6 DEF AskQuestion
  <2>2. QED
    BY <1>3, <2>1 DEF HistoryTypes
<1>10. HistoryTypes'
  BY <1>3, <1>4, <1>5, <1>6, <1>7, <1>8, <1>9 DEF HistoryTypes
<1>11. CallsInv'
  <2> SUFFICES ASSUME NEW d \in Calls
               PROVE  /\ pc'[d] # "done" => outcome'[d] = "none"
                      /\ step'[d] # "idle" => pc'[d] = "turn"
                      /\ pc'[d] \in {"new", "waiting"} => msgs'[d] = <<>>
    BY DEF CallsInv
  <2>1. CASE d = c
    BY <1>1, <1>6, <2>1 DEF HInv, CallsInv
  <2>2. CASE d # c
    <3>1. pc[d] \in {"new", "waiting"} => d # o
      BY <1>4, <2>2
    <3>2. /\ pc'[d] = pc[d] /\ step'[d] = step[d] /\ outcome'[d] = outcome[d]
          /\ pc[d] \in {"new", "waiting"} => msgs'[d] = msgs[d]
      BY <1>1, <1>6, <1>8, <1>9, <2>2, <3>1
    <3>3. /\ pc[d] # "done" => outcome[d] = "none"
          /\ step[d] # "idle" => pc[d] = "turn"
          /\ pc[d] \in {"new", "waiting"} => msgs[d] = <<>>
      BY DEF HInv, CallsInv
    <3>4. QED
      BY <3>2, <3>3
  <2>3. QED
    BY <2>1, <2>2
<1>12. ObjectsInv'
  <2>1. ASSUME NEW x \in Convs, held'[x] # None
        PROVE  conv'[held'[x]] = x /\ pc'[held'[x]] \in {"turn", "done"}
    <3>1. CASE x = k
      BY <1>1, <1>4, <1>7, <2>1, <3>1
    <3>2. CASE x # k
      BY <1>1, <1>3, <1>7, <2>1, <3>2
    <3>3. QED
      BY <3>1, <3>2
  <2>2. ASSUME NEW d \in Calls, pc'[d] = "turn"
        PROVE  /\ mine'[d] \in Calls
               /\ conv'[mine'[d]] = conv'[d] /\ pc'[mine'[d]] \in {"turn", "done"}
               /\ held'[conv'[d]] \in {None, mine'[d]}
    <3>1. CASE d = c
      <4>1. mine'[c] = o
        BY <1>3, <1>6 DEF HistoryTypes
      <4>2. QED
        BY <1>1, <1>4, <1>7, <3>1, <4>1
    <3>2. CASE d # c
      <4>1. mine'[d] = mine[d] /\ pc[d] = "turn" /\ conv'[d] = conv[d]
        BY <1>1, <1>3, <1>6, <2>2, <3>2 DEF HistoryTypes
      <4>2. conv[d] \in Convs \ {k}
        BY <1>2, <4>1
      <4>3. QED
        BY <1>1, <1>3, <1>7, <4>1, <4>2
    <3>3. QED
      BY <3>1, <3>2
  <2>3. QED
    BY <2>1, <2>2 DEF ObjectsInv
<1>13. Settled' = Settled
  BY <1>1, <1>6 DEF Settled
<1>14. RestInv'
  <2> SUFFICES ASSUME NEW x \in Convs, held'[x] # None, AtRest(x)'
               PROVE  Whole(Settled, msgs'[held'[x]], Len(msgs'[held'[x]]))
    BY <1>13 DEF RestInv
  <2>1. x # k
    BY <1>1 DEF AtRest
  <2>2. held'[x] = held[x] /\ held[x] # o
    BY <1>3, <1>4, <1>7, <2>1
  <2>3. AtRest(x)
    BY <1>1, <1>2 DEF AtRest
  <2>4. msgs'[held[x]] = msgs[held[x]]
    BY <1>3, <1>8, <2>2
  <2>5. QED
    BY <2>2, <2>3, <2>4 DEF HInv, RestInv
<1>15. RunInv'
  <2> SUFFICES ASSUME NEW d \in Calls, pc'[d] = "turn"
               PROVE  /\ base'[d] <= Len(msgs'[mine'[d]])
                      /\ Whole(Settled, msgs'[mine'[d]], base'[d])
                      /\ \A i \in base'[d] + 1 .. Len(msgs'[mine'[d]]) :
                            msgs'[mine'[d]][i].by = d
    BY <1>13 DEF RunInv
  <2>1. CASE d = c
    <3>1. mine'[c] = o /\ base'[c] = Len(m)
      BY <1>3, <1>6 DEF HistoryTypes
    <3>2. Whole(Settled, n, Len(m))
      BY <1>5, <1>8, WholePrefix
    <3>3. QED
      BY <1>8, <2>1, <3>1, <3>2
  <2>2. CASE d # c
    <3>1. mine'[d] = mine[d] /\ base'[d] = base[d] /\ pc[d] = "turn"
      BY <1>1, <1>3, <1>6, <2>2 DEF HistoryTypes
    <3>2. mine[d] # o
      BY <1>2, <1>3, <1>4, <3>1
    <3>3. msgs'[mine[d]] = msgs[mine[d]]
      BY <1>3, <1>8, <3>1, <3>2
    <3>4. QED
      BY <3>1, <3>3 DEF HInv, RunInv
  <2>3. QED
    BY <2>1, <2>2
<1>16. Kept
  <2> SUFFICES ASSUME NEW x \in Convs, held[x] # None, NEW i \in 1..Len(msgs[held[x]])
               PROVE  i \in 1..Len(msgs'[held[x]]) /\ msgs'[held[x]][i] = msgs[held[x]][i]
    BY DEF Kept
  <2>1. CASE held[x] = o
    <3>1. i \in 1..Len(m)
      BY <2>1 DEF m
    <3>2. i \in 1..Len(n) /\ n[i] = m[i]
      BY <1>5, <1>8, <3>1
    <3>3. QED
      BY <2>1, <3>2 DEF m
  <2>2. CASE held[x] # o
    BY <1>3, <1>8, <2>2
  <2>3. QED
    BY <2>1, <2>2
<1>17. QED
  BY <1>10, <1>11, <1>12, <1>14, <1>15, <1>16 DEF HInv

\* A call that is not in its turn waits or is over: no history is touched.
LEMMA WaitsKeepInv ==
    ASSUME HInv, QInv, NEW c \in Calls, pc[c] \in {"new", "waiting"},
           NEW p \in {"waiting", "done"}, pc' = [pc EXCEPT ![c] = p],
           \A d \in Calls : d # c => conv'[d] = conv[d],
           UNCHANGED <<held, msgs, mine, base, step>>,
           outcome' = [outcome EXCEPT ![c] = IF p = "done" THEN "cancelled" ELSE "none"]
    PROVE  HInv' /\ Kept
<1>1. /\ \A d \in Calls : d # c => pc'[d] = pc[d] /\ outcome'[d] = outcome[d] /\ conv'[d] = conv[d]
      /\ pc'[c] = p /\ outcome'[c] = IF p = "done" THEN "cancelled" ELSE "none"
  BY DEF HInv, HistoryTypes, QInv, QueueTypeOK
<1>2. HistoryTypes'
  BY DEF HInv, HistoryTypes
<1>3. CallsInv'
  <2> SUFFICES ASSUME NEW d \in Calls
               PROVE  /\ pc'[d] # "done" => outcome'[d] = "none"
                      /\ step[d] # "idle" => pc'[d] = "turn"
                      /\ pc'[d] \in {"new", "waiting"} => msgs[d] = <<>>
    BY DEF CallsInv
  <2>1. /\ pc[d] # "done" => outcome[d] = "none"
        /\ step[d] # "idle" => pc[d] = "turn"
        /\ pc[d] \in {"new", "waiting"} => msgs[d] = <<>>
    BY DEF HInv, CallsInv
  <2>2. QED
    BY <1>1, <2>1
<1>4. /\ \A k \in Convs : held[k] # None =>
           held[k] \in Calls /\ held[k] # c /\ conv[held[k]] = k /\ pc[held[k]] \in {"turn", "done"}
      /\ \A d \in Calls : pc[d] = "turn" =>
           /\ d # c /\ mine[d] \in Calls /\ mine[d] # c
           /\ conv[mine[d]] = conv[d] /\ pc[mine[d]] \in {"turn", "done"}
           /\ held[conv[d]] \in {None, mine[d]}
  BY DEF HInv, HistoryTypes, ObjectsInv
<1>5. \A d \in Calls : pc'[d] = "turn" <=> pc[d] = "turn"
  BY <1>1
<1>6. ObjectsInv'
  BY <1>1, <1>4, <1>5 DEF ObjectsInv
<1>7. Settled \subseteq Settled'
  BY <1>1 DEF Settled
<1>8. RestInv'
  <2> SUFFICES ASSUME NEW k \in Convs, held[k] # None, AtRest(k)'
               PROVE  Whole(Settled', msgs[held[k]], Len(msgs[held[k]]))
    BY DEF RestInv
  <2>1. AtRest(k)
    BY <1>1, <1>4, <1>5 DEF AtRest
  <2>2. Len(msgs[held[k]]) \in Nat
    BY <1>4 DEF HInv, HistoryTypes
  <2>3. QED
    BY <1>7, <2>1, <2>2, WholePrefix DEF HInv, RestInv
<1>9. RunInv'
  <2> SUFFICES ASSUME NEW d \in Calls, pc[d] = "turn"
               PROVE  /\ base[d] <= Len(msgs[mine[d]])
                      /\ Whole(Settled', msgs[mine[d]], base[d])
                      /\ \A i \in base[d] + 1 .. Len(msgs[mine[d]]) : msgs[mine[d]][i].by = d
    BY <1>5 DEF RunInv
  <2>1. base[d] \in Nat
    BY DEF HInv, HistoryTypes
  <2>2. QED
    BY <1>7, <2>1, WholePrefix DEF HInv, RunInv
<1>10. Kept
  BY DEF Kept
<1>11. QED
  BY <1>2, <1>3, <1>6, <1>8, <1>9, <1>10 DEF HInv

\* A step that touches neither a history nor a turn.
LEMMA NothingChanges ==
    ASSUME HInv, UNCHANGED <<pc, conv, held, msgs, mine, base, step, outcome>>
    PROVE  HInv' /\ Kept
<1>1. Settled' = Settled /\ \A k \in Convs : AtRest(k)' <=> AtRest(k)
  BY DEF Settled, AtRest
<1>2. HistoryTypes' /\ CallsInv' /\ ObjectsInv'
  BY DEF HInv, HistoryTypes, CallsInv, ObjectsInv
<1>3. RestInv'
  BY <1>1 DEF HInv, RestInv
<1>4. RunInv'
  BY <1>1 DEF HInv, RunInv
<1>5. Kept
  BY DEF Kept
<1>6. QED
  BY <1>2, <1>3, <1>4, <1>5 DEF HInv

LEMMA StepKeepsHistories == HInv /\ QInv /\ QInv' /\ [TurnsNext]_vars => HInv' /\ Kept
<1> SUFFICES ASSUME HInv, QInv, QInv', [TurnsNext]_vars PROVE HInv' /\ Kept
  OBVIOUS
<1>1. ASSUME NEW c \in Calls, NEW k \in Convs, CallArrives(c, k)
      PROVE  HInv' /\ Kept
  <2>1. /\ pc[c] = "new" /\ conv' = [conv EXCEPT ![c] = k]
        /\ \/ pc' = [pc EXCEPT ![c] = "turn"]
           \/ pc' = [pc EXCEPT ![c] = "waiting"]
        /\ IF pc'[c] = "turn" THEN StartRun(c, k) ELSE UNCHANGED runVars
    BY <1>1 DEF CallArrives, Arrive
  <2>2. pc \in [Calls -> {"new", "waiting", "turn", "done"}]
        /\ conv \in [Calls -> Convs \cup {None}]
    BY DEF QInv, QueueTypeOK
  <2>3. CASE pc' = [pc EXCEPT ![c] = "turn"]
    <3>1. StartRun(c, k)
      BY <2>1, <2>2, <2>3
    <3>2. QED
      BY <2>1, <2>3, <3>1, RunStarts
  <2>4. CASE pc' = [pc EXCEPT ![c] = "waiting"]
    <3>1. UNCHANGED runVars
      BY <2>1, <2>2, <2>4
    <3>2. UNCHANGED <<held, msgs, mine, base, step>> /\ outcome' = outcome
      BY <3>1 DEF runVars
    <3>3. outcome[c] = "none" /\ outcome \in [Calls -> {"none", "answered", "stopped", "failed", "memory", "cancelled"}]
      BY <2>1 DEF HInv, HistoryTypes, CallsInv
    <3>4. outcome' = [outcome EXCEPT ![c] = "none"]
      BY <3>2, <3>3
    <3>5. \A d \in Calls : d # c => conv'[d] = conv[d]
      BY <2>1, <2>2
    <3>6. QED
      BY <2>1, <2>4, <3>2, <3>4, <3>5, WaitsKeepInv
  <2>5. QED
    BY <2>1, <2>3, <2>4
<1>2. ASSUME NEW c \in Calls, CallResumes(c)
      PROVE  HInv' /\ Kept
  <2>1. /\ pc[c] = "waiting" /\ pc' = [pc EXCEPT ![c] = "turn"] /\ conv' = conv
        /\ StartRun(c, conv[c])
    BY <1>2 DEF CallResumes, Resume
  <2>2. conv[c] \in Convs /\ conv' = [conv EXCEPT ![c] = conv[c]]
    BY <2>1 DEF QInv, QueueTypeOK, EntryInv, Live
  <2>3. QED
    BY <2>1, <2>2, RunStarts
<1>3. ASSUME NEW c \in Calls, WaitCancelled(c)
      PROVE  HInv' /\ Kept
  BY <1>3, NothingChanges DEF WaitCancelled, CancelWait, runVars
<1>4. ASSUME NEW c \in Calls, WaitAborted(c)
      PROVE  HInv' /\ Kept
  <2>1. /\ pc[c] = "waiting" /\ pc' = [pc EXCEPT ![c] = "done"] /\ conv' = conv
        /\ UNCHANGED <<held, msgs, mine, base, step>>
        /\ outcome' = [outcome EXCEPT ![c] = "cancelled"]
    BY <1>4 DEF WaitAborted, AbortWait
  <2>2. QED
    BY <2>1, WaitsKeepInv
<1>5. ASSUME NEW c \in Calls, RunProgress(c)
      PROVE  HInv' /\ Kept
  BY <1>5, ProgressSteps, GoKeepsInv, EndKeepsInv
<1>6. ASSUME NEW c \in Calls, RunCancelled(c)
      PROVE  HInv' /\ Kept
  <2>1. EndStep(c, "cancelled") /\ "cancelled" \in Results
    BY <1>6, CancelledIsEnd DEF Results
  <2>2. QED
    BY <2>1, EndKeepsInv
<1>7. CASE MemoryUsedElsewhere
  BY <1>7, NothingChanges DEF MemoryUsedElsewhere, queueVars
<1>8. CASE UNCHANGED vars
  BY <1>8, NothingChanges DEF vars, queueVars, runVars
<1>9. QED
  BY <1>1, <1>2, <1>3, <1>4, <1>5, <1>6, <1>7, <1>8 DEF TurnsNext

LEMMA HistoriesStart == Init => HInv
<1> SUFFICES ASSUME Init PROVE HInv
  OBVIOUS
<1>1. /\ HistoryTypes /\ \A c \in Calls : pc[c] = "new" /\ msgs[c] = <<>>
      /\ \A k \in Convs : held[k] = None
      /\ \A c \in Calls : outcome[c] = "none" /\ step[c] = "idle"
  BY DEF Init, QueueInit, HistoryTypes
<1>2. QED
  BY <1>1 DEF HInv, CallsInv, ObjectsInv, RestInv, RunInv

(* What every conversation holds at every point of every run.                *)
THEOREM Histories == TurnsSpec => [](HInv /\ QInv)
<1>1. TurnsSpec => []QInv
  BY RunsUseTheQueue, Invariance, PTL
<1>2. Init => HInv
  BY HistoriesStart
<1>3. HInv /\ QInv /\ QInv' /\ [TurnsNext]_vars => HInv'
  BY StepKeepsHistories
<1>4. QED
  BY <1>1, <1>2, <1>3, PTL DEF TurnsSpec

\* A stored conversation at a glance: whole up to a baseline, and one run's behind it.
LEMMA StoredShape ==
    ASSUME HInv, QInv, NEW k \in Convs
    PROVE  /\ StoredMessages(k) \in Seq(Message)
           /\ \E b \in 0..Len(StoredMessages(k)) :
                /\ Whole(Settled, StoredMessages(k), b)
                /\ AtRest(k) => b = Len(StoredMessages(k))
                /\ b < Len(StoredMessages(k)) =>
                     \E c \in Calls : pc[c] = "turn" /\
                         \A i \in b + 1 .. Len(StoredMessages(k)) : StoredMessages(k)[i].by = c
<1>1. CASE held[k] = None
  <2>1. StoredMessages(k) = <<>> /\ Whole(Settled, <<>>, 0)
    BY <1>1 DEF StoredMessages, Whole
  <2>2. QED
    BY <2>1
<1>2. CASE held[k] # None
  <2>1. /\ StoredMessages(k) = msgs[held[k]]
        /\ msgs[held[k]] \in Seq(Message) /\ Len(msgs[held[k]]) \in Nat
    BY <1>2 DEF StoredMessages, HInv, HistoryTypes
  <2>2. CASE AtRest(k)
    <3>1. Whole(Settled, msgs[held[k]], Len(msgs[held[k]]))
      BY <1>2, <2>2 DEF HInv, RestInv
    <3>2. QED
      BY <2>1, <3>1
  <2>3. CASE ~AtRest(k)
    <3>1. PICK c \in Calls : pc[c] = "turn" /\ conv[c] = k
      BY <2>3 DEF AtRest
    <3>2. held[k] = mine[c] /\ base[c] \in Nat
      BY <1>2, <3>1 DEF HInv, HistoryTypes, ObjectsInv
    <3>3. /\ base[c] <= Len(msgs[held[k]])
          /\ Whole(Settled, msgs[held[k]], base[c])
          /\ \A i \in base[c] + 1 .. Len(msgs[held[k]]) : msgs[held[k]][i].by = c
      BY <3>1, <3>2 DEF HInv, RunInv
    <3>4. QED
      BY <2>1, <2>3, <3>1, <3>2, <3>3
  <2>4. QED
    BY <2>2, <2>3
<1>3. QED
  BY <1>1, <1>2

(* The messages of two calls never interleave in a stored conversation,      *)
(* whatever is cancelled, evicted or trimmed meanwhile (query_database).     *)
THEOREM BlocksPerCall == TurnsSpec => []TurnsNeverInterleave
<1>1. ASSUME HInv, QInv PROVE TurnsNeverInterleave
  <2> SUFFICES ASSUME NEW k \in Convs,
                      NEW i \in DOMAIN StoredMessages(k), NEW j \in DOMAIN StoredMessages(k),
                      NEW l \in DOMAIN StoredMessages(k),
                      i < j, j < l, StoredMessages(k)[i].by = StoredMessages(k)[l].by
               PROVE  StoredMessages(k)[j].by = StoredMessages(k)[i].by
    BY DEF TurnsNeverInterleave
  <2> DEFINE m == StoredMessages(k)
  <2>1. m \in Seq(Message)
    BY <1>1, StoredShape
  <2>2. PICK b \in 0..Len(m) :
            /\ Whole(Settled, m, b)
            /\ b < Len(m) => \E c \in Calls : pc[c] = "turn" /\ \A x \in b + 1 .. Len(m) : m[x].by = c
    BY <1>1, StoredShape
  <2> HIDE DEF m
  <2>3. i \in 1..Len(m) /\ j \in 1..Len(m) /\ l \in 1..Len(m)
    BY <2>1 DEF m
  <2>4. m[i].by = m[l].by
    BY DEF m
  <2>5. m[j].by = m[i].by
    <3>1. CASE l <= b
      BY <2>2, <2>3, <2>4, <3>1 DEF Whole
    <3>2. CASE l > b
      <4>1. PICK c \in Calls : pc[c] = "turn" /\ \A x \in b + 1 .. Len(m) : m[x].by = c
        BY <2>2, <2>3, <3>2
      <4>2. m[i].by \notin Settled
        BY <2>3, <2>4, <3>2, <4>1 DEF Settled
      <4>3. i > b
        BY <2>2, <2>3, <4>2 DEF Whole
      <4>4. QED
        BY <2>3, <4>1, <4>3
    <3>3. QED
      BY <2>2, <2>3, <3>1, <3>2
  <2>6. QED
    BY <2>5 DEF m
<1>2. QED
  BY <1>1, Histories, PTL

(* A cancelled call and one whose memory could not be opened leave no        *)
(* message in a stored conversation (_discard_current_turn).                 *)
THEOREM NothingOfDroppedCalls == TurnsSpec => []DroppedCallsLeaveNothing
<1>1. ASSUME HInv, QInv PROVE DroppedCallsLeaveNothing
  <2> SUFFICES ASSUME NEW k \in Convs, NEW i \in DOMAIN StoredMessages(k)
               PROVE  outcome[StoredMessages(k)[i].by] \notin {"cancelled", "memory"}
    BY DEF DroppedCallsLeaveNothing
  <2>1. StoredMessages(k) \in Seq(Message)
    BY <1>1, StoredShape
  <2>2. PICK b \in 0..Len(StoredMessages(k)) :
            /\ Whole(Settled, StoredMessages(k), b)
            /\ b < Len(StoredMessages(k)) =>
                 \E c \in Calls : pc[c] = "turn" /\
                     \A x \in b + 1 .. Len(StoredMessages(k)) : StoredMessages(k)[x].by = c
    BY <1>1, StoredShape
  <2>3. i \in 1..Len(StoredMessages(k))
    BY <2>1
  <2>4. CASE i <= b
    <3>1. StoredMessages(k)[i].by \in Settled
      BY <2>2, <2>3, <2>4 DEF Whole
    <3>2. QED
      BY <3>1 DEF Settled
  <2>5. CASE i > b
    <3>1. PICK c \in Calls : pc[c] = "turn" /\ StoredMessages(k)[i].by = c
      BY <2>2, <2>3, <2>5
    <3>2. outcome[c] = "none"
      BY <1>1, <3>1 DEF HInv, CallsInv
    <3>3. QED
      BY <3>1, <3>2
  <2>6. QED
    BY <2>2, <2>3, <2>4, <2>5
<1>2. QED
  BY <1>1, Histories, PTL

(* A conversation no run is using has every stored tool use answered by the  *)
(* message after it (_first_unanswered_tool_use and the trim).               *)
THEOREM EveryHistoryReplays == TurnsSpec => []HistoryReplayable
<1>1. ASSUME HInv, QInv PROVE HistoryReplayable
  <2> SUFFICES ASSUME NEW k \in Convs, AtRest(k), NEW i \in DOMAIN StoredMessages(k)
               PROVE  ~Unanswered(StoredMessages(k), i)
    BY DEF HistoryReplayable, AtRest
  <2>1. /\ StoredMessages(k) \in Seq(Message)
        /\ Whole(Settled, StoredMessages(k), Len(StoredMessages(k)))
    BY <1>1, StoredShape
  <2>2. i \in 1..Len(StoredMessages(k))
    BY <2>1
  <2>3. QED
    BY <2>1, <2>2 DEF Whole, Unanswered
<1>2. QED
  BY <1>1, Histories, PTL

(* Neither the trim nor a rollback cuts what an earlier call has stored      *)
(* (truncate_messages, from the baseline of the run on).                     *)
THEOREM EarlierTurnsStay == TurnsSpec => EarlierTurnsKept
<1> DEFINE Stay ==
        \A k \in Convs : held[k] # None /\ held'[k] = held[k] =>
         \A i \in DOMAIN StoredMessages(k) :
             pc[StoredMessages(k)[i].by] = "done" =>
                 i \in DOMAIN StoredMessages(k)' /\ StoredMessages(k)'[i] = StoredMessages(k)[i]
<1>1. ASSUME HInv, QInv, HInv', Kept PROVE Stay
  <2> SUFFICES ASSUME NEW k \in Convs, held[k] # None, held'[k] = held[k],
                      NEW i \in DOMAIN StoredMessages(k),
                      pc[StoredMessages(k)[i].by] = "done"
               PROVE  i \in DOMAIN StoredMessages(k)' /\ StoredMessages(k)'[i] = StoredMessages(k)[i]
    OBVIOUS
  <2>1. StoredMessages(k) = msgs[held[k]] /\ StoredMessages(k)' = msgs'[held[k]]
    BY DEF StoredMessages
  <2>2. msgs[held[k]] \in Seq(Message) /\ msgs'[held[k]] \in Seq(Message)
    BY <1>1 DEF HInv, HistoryTypes
  <2>3. i \in 1..Len(msgs[held[k]])
    BY <2>1, <2>2
  <2>4. i \in 1..Len(msgs'[held[k]]) /\ msgs'[held[k]][i] = msgs[held[k]][i]
    BY <1>1, <2>1, <2>3 DEF Kept
  <2>5. QED
    BY <2>1, <2>2, <2>4
<1>2. HInv /\ QInv /\ HInv' /\ QInv' /\ [TurnsNext]_vars => Stay
  BY <1>1, StepKeepsHistories
<1>3. HInv /\ QInv /\ HInv' /\ QInv' /\ [TurnsNext]_vars => [Stay]_vars
  BY <1>2
<1>4. TurnsSpec => [][Stay]_vars
  BY <1>3, Histories, PTL DEF TurnsSpec
<1>5. QED
  BY <1>4 DEF EarlierTurnsKept

-----------------------------------------------------------------------------
(* The store keeps what a run has just saved.                                 *)

LruInv == lru \in Seq(Convs)

\* move_to_end: whatever was there, the id is the last one now.
LEMMA MovedToTheEnd ==
    ASSUME LruInv, NEW k \in Convs
    PROVE  /\ MoveToEnd(k) \in Seq(Convs) /\ Len(MoveToEnd(k)) >= 1
           /\ MoveToEnd(k)[Len(MoveToEnd(k))] = k
<1> DEFINE r == RemoveFirst(lru, k)
           U == {i \in 1..Len(lru) : lru[i] = k}
<1>1. lru \in Seq(Convs) /\ Len(lru) \in Nat
  BY DEF LruInv
<1>2. CASE U = {}
  <2>1. r = lru
    BY <1>2 DEF RemoveFirst
  <2> HIDE DEF r
  <2>2. QED
    BY <1>1, <2>1 DEF MoveToEnd, r
<1>3. CASE U # {}
  <2>1. U \subseteq Nat
    BY <1>1
  <2>2. Min(U) \in U
    BY <1>3, <2>1, MinIsLeast
  <2>3. r = RemoveAt(lru, Min(U))
    BY <2>2 DEF RemoveFirst, SelectInSeq
  <2> DEFINE p == Min(U)
  <2>4. p \in 1..Len(lru)
    BY <2>2
  <2> HIDE DEF p
  <2>5. SubSeq(lru, 1, p - 1) \o SubSeq(lru, p + 1, Len(lru)) \in Seq(Convs)
    BY <1>1, <2>4
  <2>6. r \in Seq(Convs)
    BY <2>3, <2>5 DEF RemoveAt, p
  <2> HIDE DEF r
  <2>7. QED
    BY <2>6 DEF MoveToEnd, r
<1>4. QED
  BY <1>2, <1>3

\* _remember never evicts the conversation it was called for: the cap is at least one.
LEMMA RememberKeeps ==
    ASSUME LruInv, HInv, NEW k \in Convs, NEW o, Remember(k, o)
    PROVE  LruInv' /\ held'[k] = o
<1> DEFINE grown == MoveToEnd(k)
           n == Len(grown)
           over == Max({0, n - MaxConversations})
           kept == SubSeq(grown, 1 + over, n)
<1>1. grown \in Seq(Convs) /\ n \in Nat /\ n >= 1 /\ grown[n] = k
  BY MovedToTheEnd
<1>2. over \in 0..n - 1
  <2>1. MaxConversations \in Nat \ {0}
    BY BoundsAssumption
  <2>2. over = IF n - MaxConversations > 0 THEN n - MaxConversations ELSE 0
    BY <1>1, <2>1 DEF Max
  <2> HIDE DEF over
  <2>3. QED
    BY <1>1, <2>1, <2>2
<1>3. /\ lru' = kept
      /\ held' = [x \in Convs |-> IF ~Contains(kept, x) THEN None
                                  ELSE IF x = k THEN o ELSE held[x]]
  BY DEF Remember
<1> HIDE DEF grown, over
<1>4. kept \in Seq(Convs) /\ Len(kept) = n - over /\ kept[n - over] = k
  BY <1>1, <1>2
<1>5. Contains(kept, k)
  BY <1>1, <1>2, <1>4 DEF Contains
<1>6. QED
  BY <1>3, <1>4, <1>5 DEF LruInv

\* Every step keeps the order one of stored ids, and a run that reached its end
\* leaves its object in the store.
LEMMA StepKeepsStore ==
    ASSUME LruInv, HInv, QInv, [TurnsNext]_vars
    PROVE  /\ LruInv'
           /\ \A c \in Calls : outcome[c] = "none" /\ outcome'[c] \in {"answered", "stopped"} =>
                held'[conv[c]] = mine[c]
<1> DEFINE Stored == \A c \in Calls : outcome[c] = "none" /\ outcome'[c] \in {"answered", "stopped"} =>
                        held'[conv[c]] = mine[c]
<1>0. /\ \A k \in Convs : Touched(k) \in Seq(Convs)
      /\ outcome \in [Calls -> {"none", "answered", "stopped", "failed", "memory", "cancelled"}]
  BY MovedToTheEnd DEF Touched, LruInv, HInv, HistoryTypes
<1>1. ASSUME NEW c \in Calls, NEW k \in Convs, StartRun(c, k)
      PROVE  LruInv' /\ Stored
  <2>1. outcome' = outcome
    BY <1>1 DEF StartRun
  <2>2. lru' = Touched(k) \/ \E o : Remember(k, o)
    BY <1>1 DEF StartRun, AskQuestion
  <2>3. LruInv'
    BY <1>0, <2>2, RememberKeeps DEF LruInv
  <2>4. QED
    BY <2>1, <2>3
<1>2. ASSUME NEW c \in Calls, UNCHANGED lru,
             outcome' = outcome \/ outcome' = [outcome EXCEPT ![c] = "cancelled"]
      PROVE  LruInv' /\ Stored
  BY <1>0, <1>2 DEF LruInv
<1>3. ASSUME NEW c \in Calls, pc[c] = "turn", NEW m, NEW how, FinishSaved(c, m, how)
      PROVE  LruInv' /\ Stored
  <2>1. conv[c] \in Convs
    BY <1>3, ObjectsApart
  <2>2. LruInv' /\ held'[conv[c]] = mine[c]
    BY <1>3, <2>1, RememberKeeps DEF FinishSaved
  <2>3. \A d \in Calls : d # c => outcome'[d] = outcome[d]
    BY <1>0, <1>3 DEF FinishSaved, Finish
  <2>4. QED
    BY <2>2, <2>3
<1>4. ASSUME NEW c \in Calls, RunProgress(c)
      PROVE  LruInv' /\ Stored
  <2>1. pc[c] = "turn" /\ conv[c] \in Convs
    <3>1. step[c] # "idle"
      BY <1>4 DEF RunProgress, CommandEnds, SearchEnds, ModelCallsTools, ModelAnswers, ModelFails, ToolsEnd
    <3>2. QED
      BY <3>1, ObjectsApart DEF HInv, CallsInv
  <2>2. CASE CommandEnds(c)
    BY <1>3, <2>1, <2>2 DEF CommandEnds
  <2>3. CASE SearchEnds(c) \/ ModelCallsTools(c)
    BY <1>2, <2>3 DEF SearchEnds, ModelCallsTools
  <2>4. CASE ModelAnswers(c)
    BY <1>3, <2>1, <2>4 DEF ModelAnswers
  <2>5. CASE ModelFails(c)
    <3>1. LruInv'
      BY <1>0, <2>1, <2>5 DEF ModelFails, LruInv
    <3>2. outcome' = [outcome EXCEPT ![c] = "memory"] \/ outcome' = [outcome EXCEPT ![c] = "failed"]
      BY <2>5 DEF ModelFails, Finish
    <3>3. Stored
      BY <1>0, <3>2
    <3>4. QED
      BY <3>1, <3>3
  <2>6. CASE \E allBad \in BOOLEAN : ToolsEnd(c, allBad)
    BY <1>2, <1>3, <2>1, <2>6 DEF ToolsEnd
  <2>7. QED
    BY <1>4, <2>2, <2>3, <2>4, <2>5, <2>6 DEF RunProgress
<1>5. ASSUME NEW c \in Calls, NEW k \in Convs, CallArrives(c, k)
      PROVE  LruInv' /\ Stored
  <2>1. CASE StartRun(c, k)
    BY <1>1, <2>1
  <2>2. CASE UNCHANGED runVars
    BY <1>2, <2>2 DEF runVars
  <2>3. QED
    BY <1>5, <2>1, <2>2 DEF CallArrives
<1>6. ASSUME NEW c \in Calls, CallResumes(c)
      PROVE  LruInv' /\ Stored
  <2>1. conv[c] \in Convs
    BY <1>6 DEF CallResumes, Resume, QInv, QueueTypeOK, EntryInv, Live
  <2>2. QED
    BY <1>1, <1>6, <2>1 DEF CallResumes
<1>7. ASSUME NEW c \in Calls, WaitCancelled(c) \/ WaitAborted(c) \/ RunCancelled(c)
      PROVE  LruInv' /\ Stored
  BY <1>2, <1>7 DEF WaitCancelled, WaitAborted, RunCancelled, runVars
<1>8. CASE MemoryUsedElsewhere \/ UNCHANGED vars
  <2>1. lru' = lru /\ outcome' = outcome
    BY <1>8 DEF MemoryUsedElsewhere, vars, runVars
  <2>2. QED
    BY <2>1 DEF LruInv
<1>9. QED
  BY <1>4, <1>5, <1>6, <1>7, <1>8 DEF TurnsNext

(* A run that reached its end leaves its conversation in the store, also when  *)
(* other conversations pushed it out while the run was suspended              *)
(* (BoundedConversationStore._remember).                                      *)
THEOREM FinishedTurnsAreStored == TurnsSpec => FinishedTurnIsStored
<1> DEFINE Stored ==
        \A c \in Calls : outcome[c] = "none" /\ outcome'[c] \in {"answered", "stopped"}
            => held'[conv[c]] = mine[c]
<1>1. Init => LruInv
  BY DEF Init, LruInv
<1>2. LruInv /\ HInv /\ QInv /\ [TurnsNext]_vars => LruInv' /\ Stored
  BY StepKeepsStore
<1>3. LruInv /\ HInv /\ QInv /\ [TurnsNext]_vars => [Stored]_vars
  BY <1>2
<1>4. TurnsSpec => [][Stored]_vars
  BY <1>1, <1>2, <1>3, Histories, PTL DEF TurnsSpec
<1>5. QED
  BY <1>4 DEF FinishedTurnIsStored

-----------------------------------------------------------------------------
(* Whole calls are transactions: QueryTurns implements AtomicTurns.          *)

\* The runs on a conversation: one or none.
Runs(k) == {c \in Calls : pc[c] = "turn" /\ conv[c] = k}

LEMMA PrefixShape ==
    ASSUME NEW m \in Seq(Message), NEW b \in 0..Len(m)
    PROVE  /\ SubSeq(m, 1, b) \in Seq(Message) /\ Len(SubSeq(m, 1, b)) = b
           /\ \A i \in 1..b : SubSeq(m, 1, b)[i] = m[i]
           /\ b = Len(m) => SubSeq(m, 1, b) = m
           /\ b = 0 => SubSeq(m, 1, b) = <<>>
  OBVIOUS

LEMMA SamePrefix ==
    ASSUME NEW m \in Seq(Message), NEW n \in Seq(Message), NEW b \in Nat,
           b <= Len(m), b <= Len(n), \A i \in 1..b : n[i] = m[i]
    PROVE  SubSeq(n, 1, b) = SubSeq(m, 1, b)
  BY SMTT(20)

\* What AtomicTurns sees of a state: of a conversation in use, what its run found.
Seen ==
    /\ \A c \in Calls : pc[c] = "turn" =>
         /\ foundBar[c] \in Seq(Message) /\ Len(foundBar[c]) = base[c]
         /\ \A i \in 1..base[c] : foundBar[c][i] = msgs[mine[c]][i]
         /\ historyBar[conv[c]] = IF held[conv[c]] = None THEN <<>> ELSE foundBar[c]
    /\ \A k \in Convs : held[k] = None => historyBar[k] = <<>>
    /\ \A k \in Convs : held[k] # None /\ AtRest(k) => historyBar[k] = msgs[held[k]]
    /\ DOMAIN historyBar = Convs /\ historyBar = [k \in Convs |-> historyBar[k]]

LEMMA SeenState == HInv /\ QInv => Seen
<1> SUFFICES ASSUME HInv, QInv PROVE Seen
  OBVIOUS
<1>1. ASSUME NEW c \in Calls, pc[c] = "turn"
      PROVE  /\ foundBar[c] \in Seq(Message) /\ Len(foundBar[c]) = base[c]
             /\ \A i \in 1..base[c] : foundBar[c][i] = msgs[mine[c]][i]
             /\ historyBar[conv[c]] = IF held[conv[c]] = None THEN <<>> ELSE foundBar[c]
  <2>1. /\ mine[c] \in Calls /\ msgs[mine[c]] \in Seq(Message) /\ conv[c] \in Convs
        /\ base[c] \in 0..Len(msgs[mine[c]])
        /\ held[conv[c]] # None => held[conv[c]] = mine[c]
    BY <1>1, ObjectsApart DEF HInv, HistoryTypes, ObjectsInv, RunInv
  <2>2. foundBar[c] = SubSeq(msgs[mine[c]], 1, base[c])
    BY <1>1 DEF foundBar
  <2>3. Runs(conv[c]) = {c}
    BY <1>1, ObjectsApart DEF Runs
  <2>4. (CHOOSE x \in Runs(conv[c]) : TRUE) = c
    BY <2>3
  <2>5. historyBar[conv[c]] = IF held[conv[c]] = None THEN <<>>
                              ELSE SubSeq(msgs[held[conv[c]]], 1, base[c])
    BY <2>1, <2>3, <2>4 DEF historyBar, Runs
  <2>6. QED
    BY <2>1, <2>2, <2>5, PrefixShape
<1>2. \A k \in Convs : held[k] = None => historyBar[k] = <<>>
  BY DEF historyBar
<1>3. ASSUME NEW k \in Convs, held[k] # None, AtRest(k)
      PROVE  historyBar[k] = msgs[held[k]]
  <2>1. Runs(k) = {}
    BY <1>3 DEF AtRest, Runs
  <2>2. QED
    BY <1>3, <2>1 DEF historyBar, Runs
<1>4. DOMAIN historyBar = Convs /\ historyBar = [k \in Convs |-> historyBar[k]]
  BY DEF historyBar
<1>5. QED
  BY <1>1, <1>2, <1>3, <1>4 DEF Seen

LEMMA SeenNext == HInv' /\ QInv' => Seen'
  BY SeenState, PTL

\* A step of call c on conversation k, whose object is o: nobody else's run, object
\* or conversation is touched, but others may be evicted.
StepOn(c, k, o) ==
    /\ \A d \in Calls : d # c =>
         /\ pc'[d] = "turn" <=> pc[d] = "turn"
         /\ pc[d] = "turn" => /\ conv'[d] = conv[d] /\ mine'[d] = mine[d] /\ base'[d] = base[d]
                              /\ mine[d] \in Calls /\ mine[d] # o
    /\ pc[c] = "turn" => conv[c] = k
    /\ pc'[c] = "turn" => conv'[c] = k
    /\ \A x \in Calls : x # o => msgs'[x] = msgs[x]
    /\ \A x \in Convs \ {k} : /\ held'[x] \in {None, held[x]}
                              /\ held[x] # None => held[x] \in Calls /\ held[x] # o

\* What AtomicTurns sees of the others.
LEMMA OthersSeen ==
    ASSUME NEW c \in Calls, NEW k, NEW o, StepOn(c, k, o)
    PROVE  /\ \A d \in Calls : d # c => foundBar'[d] = foundBar[d] /\ atBar'[d] = atBar[d]
           /\ \A x \in Convs \ {k} : historyBar'[x] \in {historyBar[x], <<>>}
           /\ \A x \in Convs \ {k} : held'[x] = held[x] => historyBar'[x] = historyBar[x]
<1>1. ASSUME NEW d \in Calls, d # c
      PROVE  foundBar'[d] = foundBar[d] /\ atBar'[d] = atBar[d]
  <2>1. CASE pc[d] = "turn"
    <3>1. /\ pc'[d] = "turn" /\ conv'[d] = conv[d] /\ mine'[d] = mine[d] /\ base'[d] = base[d]
          /\ msgs'[mine[d]] = msgs[mine[d]]
      BY <1>1, <2>1 DEF StepOn
    <3>2. QED
      BY <2>1, <3>1 DEF foundBar, atBar
  <2>2. CASE pc[d] # "turn"
    <3>1. pc'[d] # "turn"
      BY <1>1, <2>2 DEF StepOn
    <3>2. QED
      BY <2>2, <3>1 DEF foundBar, atBar
  <2>3. QED
    BY <2>1, <2>2
<1>2. ASSUME NEW x \in Convs \ {k}, held'[x] = None
      PROVE  historyBar'[x] = <<>>
  BY <1>2 DEF historyBar
<1>3. ASSUME NEW x \in Convs \ {k}, held'[x] = held[x]
      PROVE  historyBar'[x] = historyBar[x]
  <2>1. Runs(x)' = Runs(x)
    BY DEF StepOn, Runs
  <2>2. CASE held[x] = None
    BY <1>3, <2>2 DEF historyBar
  <2>3. CASE held[x] # None
    <3>1. msgs'[held[x]] = msgs[held[x]]
      BY <2>3 DEF StepOn
    <3>2. CASE Runs(x) = {}
      BY <1>3, <2>1, <2>3, <3>1, <3>2 DEF historyBar, Runs
    <3>3. CASE Runs(x) # {}
      <4> DEFINE d == CHOOSE y \in Runs(x) : TRUE
      <4>1. d \in Runs(x)
        BY <3>3
      <4>2. d \in Calls /\ pc[d] = "turn" /\ conv[d] = x
        BY <4>1 DEF Runs
      <4>3. d # c
        BY <4>2 DEF StepOn
      <4>4. (CHOOSE y \in Runs(x)' : TRUE) = d
        BY <2>1
      <4> HIDE DEF d
      <4>5. base'[d] = base[d]
        BY <4>2, <4>3 DEF StepOn
      <4>6. historyBar[x] = SubSeq(msgs[held[x]], 1, base[d])
        BY <2>3, <3>3 DEF historyBar, Runs, d
      <4>7. historyBar'[x] = SubSeq(msgs'[held[x]], 1, base'[d])
        <5>1. Runs(x)' # {}
          BY <2>1, <3>3
        <5>2. QED
          BY <1>3, <2>3, <4>4, <5>1 DEF historyBar, Runs
      <4>8. QED
        BY <3>1, <4>5, <4>6, <4>7
    <3>4. QED
      BY <3>2, <3>3
  <2>4. QED
    BY <2>2, <2>3
<1>4. QED
  BY <1>1, <1>2, <1>3 DEF StepOn

\* One call's fate changes.
LEMMA FateFollows ==
    ASSUME NEW c \in Calls,
           \A d \in Calls : d # c =>
             pc'[d] = pc[d] /\ outcome'[d] = outcome[d] /\ (pc[d] = "turn" => conv'[d] = conv[d])
    PROVE  /\ fateBar' = [fateBar EXCEPT ![c] = fateBar'[c]]
           /\ atBar' = [atBar EXCEPT ![c] = atBar'[c]]
           /\ pc[c] = "turn" => fateBar[c] = "turn" /\ atBar[c] = conv[c]
           /\ pc'[c] = "turn" => fateBar'[c] = "turn" /\ atBar'[c] = conv'[c]
           /\ pc[c] \in {"new", "waiting"} => fateBar[c] = "new"
           /\ pc'[c] # "turn" => atBar'[c] = None
           /\ pc'[c] = "done" =>
                /\ outcome'[c] \in {"cancelled", "memory"} => fateBar'[c] = "dropped"
                /\ outcome'[c] = "failed" => fateBar'[c] = "failed"
                /\ outcome'[c] \in {"answered", "stopped"} => fateBar'[c] = "finished"
<1>1. \A d \in Calls : d # c => fateBar'[d] = fateBar[d] /\ atBar'[d] = atBar[d]
  BY DEF fateBar, atBar
<1>2. /\ fateBar = [d \in Calls |-> fateBar[d]] /\ fateBar' = [d \in Calls |-> fateBar'[d]]
      /\ atBar = [d \in Calls |-> atBar[d]] /\ atBar' = [d \in Calls |-> atBar'[d]]
  BY DEF fateBar, atBar
<1>3. /\ fateBar' = [fateBar EXCEPT ![c] = fateBar'[c]]
      /\ atBar' = [atBar EXCEPT ![c] = atBar'[c]]
  BY <1>1, <1>2
<1>4. /\ pc[c] = "turn" => fateBar[c] = "turn" /\ atBar[c] = conv[c]
      /\ pc[c] \in {"new", "waiting"} => fateBar[c] = "new"
  BY DEF fateBar, atBar
<1>5. /\ pc'[c] = "turn" => fateBar'[c] = "turn" /\ atBar'[c] = conv'[c]
      /\ pc'[c] # "turn" => atBar'[c] = None
      /\ pc'[c] = "done" =>
           /\ outcome'[c] \in {"cancelled", "memory"} => fateBar'[c] = "dropped"
           /\ outcome'[c] = "failed" => fateBar'[c] = "failed"
           /\ outcome'[c] \in {"answered", "stopped"} => fateBar'[c] = "finished"
  BY DEF fateBar, atBar
<1>6. QED
  BY <1>3, <1>4, <1>5

\* A run that goes on is invisible: what it adds is behind what it found.
LEMMA GoIsInvisible ==
    ASSUME HInv, QInv, HInv', QInv', NEW c \in Calls, GoStep(c)
    PROVE  UNCHANGED <<fateBar, atBar, foundBar, historyBar>>
<1>1. /\ pc[c] = "turn" /\ pc' = pc /\ conv' = conv /\ held' = held /\ mine' = mine
      /\ base' = base /\ outcome' = outcome
  BY DEF GoStep
<1>2. PICK n : OwnAfter(n, c) /\ msgs' = [msgs EXCEPT ![mine[c]] = n]
  BY DEF GoStep
<1>3. /\ mine[c] \in Calls /\ msgs \in [Calls -> Seq(Message)] /\ base[c] \in Nat
      /\ base[c] <= Len(msgs[mine[c]]) /\ conv[c] \in Convs
  BY <1>1, ObjectsApart DEF HInv, HistoryTypes, RunInv
<1>4. fateBar' = fateBar /\ atBar' = atBar
  BY <1>1 DEF fateBar, atBar
<1>5. StepOn(c, conv[c], mine[c])
  <2>1. \A d \in Calls : d # c /\ pc[d] = "turn" => mine[d] \in Calls /\ mine[d] # mine[c]
    BY <1>1, ObjectsApart
  <2>2. \A x \in Convs \ {conv[c]} : held[x] # None => held[x] \in Calls /\ held[x] # mine[c]
    BY <1>1, ObjectsApart
  <2>3. \A x \in Calls : x # mine[c] => msgs'[x] = msgs[x]
    BY <1>2, <1>3
  <2>4. QED
    BY <1>1, <2>1, <2>2, <2>3 DEF StepOn
<1>6. foundBar'[c] = foundBar[c]
  <2>1. msgs'[mine[c]] = n
    BY <1>2, <1>3
  <2>2. SubSeq(n, 1, base[c]) = SubSeq(msgs[mine[c]], 1, base[c])
    BY <1>2, <1>3, SamePrefix DEF OwnAfter
  <2>3. QED
    BY <1>1, <2>1, <2>2 DEF foundBar
<1>7. foundBar' = foundBar
  <2>1. \A d \in Calls : foundBar'[d] = foundBar[d]
    BY <1>5, <1>6, OthersSeen
  <2>2. foundBar = [d \in Calls |-> foundBar[d]] /\ foundBar' = [d \in Calls |-> foundBar'[d]]
    BY DEF foundBar
  <2>3. QED
    BY <2>1, <2>2
<1>8. historyBar' = historyBar
  <2>1. Seen /\ Seen'
    BY SeenState, SeenNext
  <2>2. historyBar'[conv[c]] = historyBar[conv[c]]
    BY <1>1, <1>6, <2>1 DEF Seen
  <2>3. \A x \in Convs \ {conv[c]} : historyBar'[x] = historyBar[x]
    BY <1>1, <1>5, OthersSeen
  <2>4. \A x \in Convs : historyBar'[x] = historyBar[x]
    BY <2>2, <2>3
  <2>5. QED
    BY <2>1, <2>4 DEF Seen
<1>9. QED
  BY <1>4, <1>7, <1>8

\* Neither is a step outside the turns, but for how a call ends.
LEMMA NoTurnNoSight ==
    ASSUME UNCHANGED <<held, msgs, mine, base>>,
           \A d \in Calls : pc'[d] = "turn" <=> pc[d] = "turn",
           \A d \in Calls : pc[d] = "turn" => conv'[d] = conv[d]
    PROVE  UNCHANGED <<atBar, foundBar, historyBar>>
<1>1. atBar' = atBar
  BY DEF atBar
<1>2. foundBar' = foundBar
  BY DEF foundBar
<1>3. historyBar' = historyBar
  <2>1. ASSUME NEW k \in Convs PROVE historyBar'[k] = historyBar[k]
    <3>1. Runs(k)' = Runs(k)
      BY DEF Runs
    <3>2. CASE Runs(k) = {}
      BY <3>1, <3>2 DEF historyBar, Runs
    <3>3. CASE Runs(k) # {}
      <4>1. (CHOOSE c \in Runs(k)' : TRUE) = (CHOOSE c \in Runs(k) : TRUE)
        BY <3>1
      <4>2. QED
        BY <3>1, <3>3, <4>1 DEF historyBar, Runs
    <3>4. QED
      BY <3>2, <3>3
  <2>2. historyBar = [k \in Convs |-> historyBar[k]] /\ historyBar' = [k \in Convs |-> historyBar'[k]]
    BY DEF historyBar
  <2>3. QED
    BY <2>1, <2>2
<1>4. QED
  BY <1>1, <1>2, <1>3

\* A call that gets its turn reads what its conversation holds.
LEMMA StartIsBegin ==
    ASSUME HInv, QInv, HInv', QInv', NEW c \in Calls, NEW k \in Convs,
           pc[c] \in {"new", "waiting"}, pc' = [pc EXCEPT ![c] = "turn"],
           conv' = [conv EXCEPT ![c] = k], StartRun(c, k)
    PROVE  Atomic!Begin(c, k)
<1>1. PICK o : o = IF held[k] = None THEN c ELSE held[k]
  OBVIOUS
<1>2. StartStep(c, k, o)
  BY <1>1, StartFinds
<1>3. /\ mine' = [mine EXCEPT ![c] = o] /\ base' = [base EXCEPT ![c] = Len(msgs[o])]
      /\ outcome' = outcome
  BY <1>1 DEF StartRun
<1>4. /\ HistoryTypes /\ HistoryTypes'
      /\ pc \in [Calls -> {"new", "waiting", "turn", "done"}]
      /\ conv \in [Calls -> Convs \cup {None}]
  BY DEF HInv, QInv, QueueTypeOK
<1>5. Seen /\ Seen'
  BY SeenState, SeenNext
<1>6. /\ pc'[c] = "turn" /\ conv'[c] = k /\ mine'[c] = o /\ base'[c] = Len(msgs[o])
      /\ \A d \in Calls : d # c => /\ pc'[d] = pc[d] /\ conv'[d] = conv[d]
                                   /\ mine'[d] = mine[d] /\ base'[d] = base[d]
  BY <1>3, <1>4 DEF HistoryTypes
<1>7. o \in Calls /\ (o = c <=> held[k] = None) /\ (o # c => o = held[k] /\ conv[o] = k)
  BY <1>2 DEF StartStep
<1>8. StepOn(c, k, o)
  <2>1. \A d \in Calls : pc[d] = "turn" => d # c /\ conv[d] # k
    BY <1>2 DEF StartStep
  <2>2. \A d \in Calls : pc[d] = "turn" =>
            mine[d] \in Calls /\ conv[mine[d]] = conv[d] /\ pc[mine[d]] \in {"turn", "done"}
    BY DEF HInv, ObjectsInv
  <2>3. \A d \in Calls : pc[d] = "turn" => mine[d] # o
    BY <1>7, <2>1, <2>2
  <2>4. \A x \in Convs : held[x] # None =>
            held[x] \in Calls /\ conv[held[x]] = x /\ pc[held[x]] \in {"turn", "done"}
    BY <1>4 DEF HInv, HistoryTypes, ObjectsInv
  <2>5. \A x \in Convs \ {k} : held[x] # None => held[x] # o
    BY <1>7, <2>4
  <2>6. /\ \A x \in Calls : x # o => msgs'[x] = msgs[x]
        /\ \A x \in Convs \ {k} : held'[x] \in {None, held[x]}
    BY <1>2 DEF StartStep
  <2>7. QED
    BY <1>6, <2>1, <2>2, <2>3, <2>4, <2>5, <2>6 DEF StepOn
<1>9. historyBar[k] = msgs[o]
  <2>1. CASE held[k] = None
    <3>1. msgs[o] = <<>>
      BY <1>2, <1>7, <2>1 DEF StartStep
    <3>2. QED
      BY <1>5, <2>1, <3>1 DEF Seen
  <2>2. CASE held[k] # None
    <3>1. AtRest(k)
      BY <1>2 DEF AtRest, StartStep
    <3>2. QED
      BY <1>5, <1>7, <2>2, <3>1 DEF Seen
  <2>3. QED
    BY <2>1, <2>2
<1>10. foundBar'[c] = msgs[o]
  <2>1. foundBar'[c] = SubSeq(msgs'[o], 1, Len(msgs[o]))
    BY <1>6 DEF foundBar
  <2>2. /\ msgs[o] \in Seq(Message) /\ msgs'[o] \in Seq(Message) /\ Len(msgs[o]) \in Nat
        /\ Len(msgs[o]) <= Len(msgs'[o])
        /\ \A i \in 1..Len(msgs[o]) : msgs'[o][i] = msgs[o][i]
    BY <1>2 DEF StartStep
  <2>3. SubSeq(msgs'[o], 1, Len(msgs[o])) = SubSeq(msgs[o], 1, Len(msgs[o]))
    BY <2>2, SamePrefix
  <2>4. SubSeq(msgs[o], 1, Len(msgs[o])) = msgs[o]
    BY <2>2, PrefixShape
  <2>5. QED
    BY <2>1, <2>3, <2>4
<1>11. historyBar'[k] = historyBar[k]
  <2>1. historyBar'[k] = IF held'[k] = None THEN <<>> ELSE foundBar'[c]
    BY <1>5, <1>6 DEF Seen
  <2>2. CASE held'[k] = None
    <3>1. held[k] = None
      BY <1>2, <1>7, <2>2, CallsAssumption DEF StartStep
    <3>2. QED
      BY <1>5, <2>1, <2>2, <3>1 DEF Seen
  <2>3. CASE held'[k] # None
    BY <1>9, <1>10, <2>1, <2>3
  <2>4. QED
    BY <2>2, <2>3
<1>12. fateBar' = [fateBar EXCEPT ![c] = "turn"] /\ atBar' = [atBar EXCEPT ![c] = k]
  BY <1>3, <1>6, FateFollows
<1>13. foundBar' = [foundBar EXCEPT ![c] = historyBar[k]]
  <2>1. \A d \in Calls : d # c => foundBar'[d] = foundBar[d]
    BY <1>8, OthersSeen
  <2>2. foundBar = [d \in Calls |-> foundBar[d]] /\ foundBar' = [d \in Calls |-> foundBar'[d]]
    BY DEF foundBar
  <2>3. QED
    BY <1>9, <1>10, <2>1, <2>2
<1>14. Atomic!OthersStay(k)
  BY <1>5, <1>8, OthersSeen DEF Seen, Atomic!OthersStay
<1>15. fateBar[c] = "new" /\ ~Atomic!Busy(k)
  <2>1. \A d \in Calls : fateBar[d] = "turn" /\ atBar[d] = k => pc[d] = "turn" /\ conv[d] = k
    BY DEF fateBar, atBar
  <2>2. \A d \in Calls : pc[d] = "turn" => conv[d] # k
    BY <1>2 DEF StartStep
  <2>3. QED
    BY <2>1, <2>2 DEF fateBar, Atomic!Busy
<1>16. QED
  BY <1>11, <1>12, <1>13, <1>14, <1>15 DEF Atomic!Begin

\* A whole list leaves no tool use open.
LEMMA WholeIsClosed ==
    ASSUME NEW D, NEW m \in Seq(Message), Whole(D, m, Len(m))
    PROVE  Atomic!Closed(m)
<1>1. DOMAIN m = 1..Len(m)
  OBVIOUS
<1>2. QED
  BY <1>1 DEF Whole, Atomic!Closed

\* A run that ends leaves what it found and its own messages, or nothing.
LEMMA EndIsOver ==
    ASSUME HInv, QInv, LruInv, HInv', QInv', NEW c \in Calls, NEW how \in Results, EndStep(c, how)
    PROVE  Atomic!Finish(c) \/ Atomic!Fail(c) \/ Atomic!Drop(c)
<1> DEFINE k == conv[c]
           o == mine[c]
<1>1. /\ pc[c] = "turn" /\ Leave(c) /\ LocalsGone(c)
      /\ outcome' = [outcome EXCEPT ![c] = how]
      /\ Remember(k, o) \/ (held' = held /\ how \notin {"answered", "stopped"})
  BY DEF EndStep
<1>2. PICK n : /\ OwnAfter(n, c) /\ msgs' = [msgs EXCEPT ![o] = n]
               /\ held'[k] # None => Whole(Settled', n, Len(n))
  BY DEF EndStep
<1>3. /\ pc' = [pc EXCEPT ![c] = "done"] /\ conv' = conv
      /\ pc \in [Calls -> {"new", "waiting", "turn", "done"}]
  BY <1>1 DEF Leave, QInv, QueueTypeOK
<1>4. HistoryTypes /\ HistoryTypes'
  BY DEF HInv
<1>5. /\ k \in Convs /\ o \in Calls
      /\ \A d \in Calls : pc[d] = "turn" /\ d # c =>
           conv[d] # k /\ mine[d] # o /\ mine[d] \in Calls
      /\ \A x \in Convs \ {k} : held[x] # None => held[x] # o /\ held[x] \in Calls
  BY <1>1, ObjectsApart
<1>6. Seen /\ Seen'
  BY SeenState, SeenNext
<1>7. /\ \A x \in Convs \ {k} : held'[x] \in {None, held[x]}
      /\ held'[k] \in {None, o}
  BY EndStores
<1>8. pc'[c] = "done" /\ outcome'[c] = how
      /\ \A d \in Calls : d # c => /\ pc'[d] = pc[d] /\ outcome'[d] = outcome[d]
                                   /\ mine'[d] = mine[d] /\ base'[d] = base[d]
  BY <1>1, <1>3, <1>4 DEF HistoryTypes, LocalsGone
<1> HIDE DEF k, o
<1>9. msgs'[o] = n /\ \A x \in Calls : x # o => msgs'[x] = msgs[x]
  BY <1>2, <1>4, <1>5 DEF HistoryTypes
<1>10. StepOn(c, k, o)
  BY <1>3, <1>5, <1>7, <1>8, <1>9 DEF StepOn, k
<1>11. /\ foundBar[c] \in Seq(Message) /\ Len(foundBar[c]) = base[c] /\ base[c] \in Nat
       /\ \A i \in 1..base[c] : foundBar[c][i] = msgs[o][i]
       /\ historyBar[k] = IF held[k] = None THEN <<>> ELSE foundBar[c]
  BY <1>1, <1>4, <1>6 DEF Seen, HistoryTypes, k, o
<1>12. /\ n \in Seq(Message) /\ base[c] <= Len(n)
       /\ \A i \in 1..base[c] : n[i] = foundBar[c][i]
       /\ \A i \in base[c] + 1 .. Len(n) : n[i].by = c
  BY <1>2, <1>11 DEF OwnAfter, o
<1>13. \A d \in Calls : pc'[d] = "turn" => conv'[d] # k
  BY <1>3, <1>5, <1>8
<1>14. historyBar'[k] = IF held'[k] = None THEN <<>> ELSE n
  BY <1>5, <1>6, <1>7, <1>9, <1>13 DEF Seen, AtRest
<1>15. /\ Atomic!OthersStay(k) /\ atBar[c] = k /\ fateBar[c] = "turn"
       /\ fateBar' = [fateBar EXCEPT ![c] = fateBar'[c]] /\ atBar' = [atBar EXCEPT ![c] = None]
       /\ how \in {"cancelled", "memory"} => fateBar'[c] = "dropped"
       /\ how = "failed" => fateBar'[c] = "failed"
       /\ how \in {"answered", "stopped"} => fateBar'[c] = "finished"
  <2>1. Atomic!OthersStay(k)
    BY <1>6, <1>10, OthersSeen DEF Seen, Atomic!OthersStay
  <2>2. \A d \in Calls : d # c =>
            pc'[d] = pc[d] /\ outcome'[d] = outcome[d] /\ (pc[d] = "turn" => conv'[d] = conv[d])
    BY <1>3, <1>8
  <2>3. QED
    BY <1>1, <1>8, <2>1, <2>2, FateFollows DEF k
<1>16. foundBar' = [foundBar EXCEPT ![c] = <<>>]
  <2>1. foundBar'[c] = <<>> /\ \A d \in Calls : d # c => foundBar'[d] = foundBar[d]
    BY <1>8, <1>10, OthersSeen DEF foundBar
  <2>2. foundBar = [d \in Calls |-> foundBar[d]] /\ foundBar' = [d \in Calls |-> foundBar'[d]]
    BY DEF foundBar
  <2>3. QED
    BY <2>1, <2>2
<1>17. Atomic!Over(c, fateBar'[c])
  BY <1>15, <1>16 DEF Atomic!Over
<1>18. held'[k] # None => Atomic!Continues(historyBar'[k], c)
  <2> SUFFICES ASSUME held'[k] # None PROVE Atomic!Continues(n, c)
    BY <1>14
  <2>1. Atomic!Closed(n)
    BY <1>2, <1>12, WholeIsClosed
  <2>2. \A i \in DOMAIN n : IF i <= Len(foundBar[c]) THEN n[i] = foundBar[c][i] ELSE n[i].by = c
    BY <1>11, <1>12
  <2>3. QED
    BY <1>11, <1>12, <2>1, <2>2 DEF Atomic!Continues
<1>19. held'[k] = None => held[k] = None /\ how \notin {"answered", "stopped"}
  <2>1. Remember(k, o) => held'[k] = o
    BY <1>5, RememberKeeps
  <2>2. QED
    BY <1>1, <1>5, <2>1, CallsAssumption DEF k, o
<1>20. CASE how \in {"answered", "stopped"}
  BY <1>15, <1>17, <1>18, <1>19, <1>20 DEF Atomic!Finish
<1>21. CASE how = "failed"
  <2>1. held'[k] = None => historyBar[k] = <<>> /\ historyBar'[k] = <<>>
    BY <1>11, <1>14, <1>19
  <2>2. QED
    BY <1>15, <1>17, <1>18, <1>21, <2>1 DEF Atomic!Fail
<1>22. CASE how \in {"cancelled", "memory"}
  <2>1. historyBar'[k] \in {historyBar[k], foundBar[c]}
    <3>1. CASE held'[k] = None
      BY <1>11, <1>14, <1>19, <3>1
    <3>2. CASE held'[k] # None
      <4>1. c \notin Settled'
        BY <1>8, <1>22 DEF Settled
      <4>2. \A i \in 1..Len(n) : n[i].by \in Settled'
        BY <1>2, <3>2 DEF Whole
      <4>3. Len(n) = base[c]
        BY <1>11, <1>12, <4>1, <4>2
      <4>4. n = foundBar[c]
        BY <1>11, <1>12, <4>3
      <4>5. QED
        BY <1>14, <3>2, <4>4
    <3>3. QED
      BY <3>1, <3>2
  <2>2. QED
    BY <1>15, <1>17, <1>22, <2>1 DEF Atomic!Drop
<1>23. QED
  BY <1>20, <1>21, <1>22 DEF Results

\* Every step is a step of AtomicTurns, or invisible.
LEMMA StepIsAtomic ==
    HInv /\ QInv /\ LruInv /\ HInv' /\ QInv' /\ [TurnsNext]_vars => [Atomic!Next]_(Atomic!vars)
<1> SUFFICES ASSUME HInv, QInv, LruInv, HInv', QInv', [TurnsNext]_vars
             PROVE  Atomic!Next \/ UNCHANGED <<fateBar, atBar, foundBar, historyBar>>
  BY DEF Atomic!vars
<1> DEFINE Seen2 == Atomic!Next \/ UNCHANGED <<fateBar, atBar, foundBar, historyBar>>
<1>0. /\ pc \in [Calls -> {"new", "waiting", "turn", "done"}]
      /\ conv \in [Calls -> Convs \cup {None}]
      /\ outcome \in [Calls -> {"none", "answered", "stopped", "failed", "memory", "cancelled"}]
  BY DEF QInv, QueueTypeOK, HInv, HistoryTypes
<1>1. ASSUME NEW c \in Calls, NEW k \in Convs, CallArrives(c, k)
      PROVE  Seen2
  <2>1. /\ pc[c] = "new" /\ conv' = [conv EXCEPT ![c] = k]
        /\ \/ pc' = [pc EXCEPT ![c] = "turn"]
           \/ pc' = [pc EXCEPT ![c] = "waiting"]
        /\ IF pc'[c] = "turn" THEN StartRun(c, k) ELSE UNCHANGED runVars
    BY <1>1 DEF CallArrives, Arrive
  <2>2. CASE pc' = [pc EXCEPT ![c] = "turn"]
    <3>1. StartRun(c, k)
      BY <1>0, <2>1, <2>2
    <3>2. Atomic!Begin(c, k)
      BY <2>1, <2>2, <3>1, StartIsBegin
    <3>3. QED
      BY <3>2 DEF Atomic!Next
  <2>3. CASE pc' = [pc EXCEPT ![c] = "waiting"]
    <3>1. UNCHANGED runVars
      BY <1>0, <2>1, <2>3
    <3>2. UNCHANGED <<held, msgs, mine, base, outcome>>
      BY <3>1 DEF runVars
    <3>3. \A d \in Calls : /\ pc'[d] = "turn" <=> pc[d] = "turn"
                           /\ pc'[d] = "done" <=> pc[d] = "done"
                           /\ pc[d] = "turn" => conv'[d] = conv[d]
      BY <1>0, <2>1, <2>3
    <3>4. fateBar' = fateBar
      BY <3>2, <3>3 DEF fateBar
    <3>5. QED
      BY <3>2, <3>3, <3>4, NoTurnNoSight
  <2>4. QED
    BY <2>1, <2>2, <2>3
<1>2. ASSUME NEW c \in Calls, CallResumes(c)
      PROVE  Seen2
  <2>1. /\ pc[c] = "waiting" /\ pc' = [pc EXCEPT ![c] = "turn"] /\ conv' = conv
        /\ StartRun(c, conv[c])
    BY <1>2 DEF CallResumes, Resume
  <2>2. conv[c] \in Convs /\ conv' = [conv EXCEPT ![c] = conv[c]]
    BY <2>1 DEF QInv, QueueTypeOK, EntryInv, Live
  <2>3. Atomic!Begin(c, conv[c])
    BY <2>1, <2>2, StartIsBegin
  <2>4. QED
    BY <2>2, <2>3 DEF Atomic!Next
<1>3. ASSUME NEW c \in Calls, WaitCancelled(c)
      PROVE  Seen2
  <2>1. UNCHANGED <<pc, conv, held, msgs, mine, base, outcome>>
    BY <1>3 DEF WaitCancelled, CancelWait, runVars
  <2>2. QED
    BY <2>1, NoTurnNoSight DEF fateBar
<1>4. ASSUME NEW c \in Calls, WaitAborted(c)
      PROVE  Seen2
  <2>1. /\ pc[c] = "waiting" /\ pc' = [pc EXCEPT ![c] = "done"] /\ conv' = conv
        /\ UNCHANGED <<held, msgs, mine, base>>
        /\ outcome' = [outcome EXCEPT ![c] = "cancelled"]
    BY <1>4 DEF WaitAborted, AbortWait
  <2>2. /\ pc'[c] = "done" /\ outcome'[c] = "cancelled"
        /\ \A d \in Calls : d # c => pc'[d] = pc[d] /\ outcome'[d] = outcome[d]
    BY <1>0, <2>1
  <2>3. UNCHANGED <<atBar, foundBar, historyBar>>
    BY <2>1, <2>2, NoTurnNoSight
  <2>4. fateBar[c] = "new" /\ fateBar' = [fateBar EXCEPT ![c] = "dropped"]
    BY <2>1, <2>2, FateFollows
  <2>5. Atomic!GiveUp(c)
    BY <2>3, <2>4 DEF Atomic!GiveUp
  <2>6. QED
    BY <2>5 DEF Atomic!Next
<1>5. ASSUME NEW c \in Calls, NEW how \in Results, EndStep(c, how)
      PROVE  Seen2
  BY <1>5, EndIsOver DEF Atomic!Next
<1>6. ASSUME NEW c \in Calls, RunProgress(c)
      PROVE  Seen2
  BY <1>5, <1>6, ProgressSteps, GoIsInvisible
<1>7. ASSUME NEW c \in Calls, RunCancelled(c)
      PROVE  Seen2
  <2>1. EndStep(c, "cancelled") /\ "cancelled" \in Results
    BY <1>7, CancelledIsEnd DEF Results
  <2>2. QED
    BY <1>5, <2>1
<1>8. CASE MemoryUsedElsewhere \/ UNCHANGED vars
  <2>1. UNCHANGED <<pc, conv, held, msgs, mine, base, outcome>>
    BY <1>8 DEF MemoryUsedElsewhere, vars, queueVars, runVars
  <2>2. QED
    BY <2>1, NoTurnNoSight DEF fateBar
<1>9. QED
  BY <1>1, <1>2, <1>3, <1>4, <1>6, <1>7, <1>8 DEF TurnsNext

\* The first state.
LEMMA NothingSeenYet == Init => Atomic!Init
<1> SUFFICES ASSUME Init PROVE Atomic!Init
  OBVIOUS
<1>1. /\ \A c \in Calls : pc[c] = "new"
      /\ \A k \in Convs : held[k] = None
  BY DEF Init, QueueInit
<1>2. fateBar = [c \in Calls |-> "new"] /\ atBar = [c \in Calls |-> None]
  BY <1>1 DEF fateBar, atBar
<1>3. foundBar = [c \in Calls |-> <<>>]
  BY <1>1 DEF foundBar
<1>4. historyBar = [k \in Convs |-> <<>>]
  BY <1>1 DEF historyBar
<1>5. QED
  BY <1>2, <1>3, <1>4 DEF Atomic!Init

(* A query_database call is a transaction on its conversation, whatever the  *)
(* other calls do, what fails, what is cancelled and what the store evicts:  *)
(* its run sees what it found, and its end adds the call's own messages, all *)
(* tool uses answered, or nothing.                                           *)
THEOREM CallsAreTransactions == TurnsSpec => TurnsAreAtomic
<1>1. Init => LruInv
  BY DEF Init, LruInv
<1>2. LruInv /\ HInv /\ QInv /\ [TurnsNext]_vars => LruInv'
  BY StepKeepsStore
<1>3. TurnsSpec => [](LruInv /\ HInv /\ QInv)
  BY <1>1, <1>2, Histories, PTL DEF TurnsSpec
<1>4. HInv /\ QInv /\ LruInv /\ HInv' /\ QInv' /\ [TurnsNext]_vars => [Atomic!Next]_(Atomic!vars)
  BY StepIsAtomic
<1>5. Init => Atomic!Init
  BY NothingSeenYet
<1>6. QED
  BY <1>3, <1>4, <1>5, PTL DEF TurnsSpec, TurnsAreAtomic, Atomic!Spec
=============================================================================
