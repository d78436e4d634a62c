------------------------- MODULE TaskSchedulerProofs -------------------------
(***************************************************************************)
(* TLAPS proofs about TaskScheduler for every set of clients, every plan,  *)
(* every queue size and every job limit.                                   *)
(***************************************************************************)
EXTENDS TaskScheduler, Integers, SequenceTheorems, FiniteSetTheorems, TLAPS

(* The sequence operators that model the scheduler's VecDeque: insert, remove  *)
(* and pop_front, position by position and as sets.                           *)

\* VecDeque::insert: one more element, at the given position.
LEMMA InsertAtFacts ==
  ASSUME NEW S, NEW s \in Seq(S), NEW e \in S, NEW pos \in 1..(Len(s) + 1)
  PROVE  /\ InsertAt(s, pos, e) \in Seq(S)
         /\ Len(InsertAt(s, pos, e)) = Len(s) + 1
         /\ \A i \in 1..(Len(s) + 1) :
              InsertAt(s, pos, e)[i] = IF i < pos THEN s[i]
                                       ELSE IF i = pos THEN e ELSE s[i - 1]
<1> DEFINE a == SubSeq(s, 1, pos - 1)
           b == SubSeq(s, pos, Len(s))
           ae == a \o <<e>>
<1>1. /\ a \in Seq(S) /\ Len(a) = pos - 1
      /\ \A i \in 1..(pos - 1) : a[i] = s[i]
  OBVIOUS
<1>2. /\ b \in Seq(S) /\ Len(b) = Len(s) - pos + 1
      /\ \A i \in 1..(Len(s) - pos + 1) : b[i] = s[i + pos - 1]
  OBVIOUS
<1> HIDE DEF a, b
<1>3. /\ ae \in Seq(S) /\ Len(ae) = pos
      /\ \A i \in 1..(pos - 1) : ae[i] = s[i]
      /\ ae[pos] = e
  BY <1>1
<1> HIDE DEF ae
<1>4. /\ ae \o b \in Seq(S) /\ Len(ae \o b) = Len(s) + 1
      /\ \A i \in 1..(Len(s) + 1) :
           (ae \o b)[i] = IF i <= pos THEN ae[i] ELSE b[i - pos]
  BY <1>2, <1>3, ConcatProperties
<1>5. InsertAt(s, pos, e) = ae \o b
  BY DEF InsertAt, ae, a, b
<1> DEFINE t == ae \o b
<1> HIDE DEF t
<1>6. \A i \in 1..(Len(s) + 1) : i < pos => t[i] = s[i]
  BY <1>3, <1>4 DEF t
<1>7. t[pos] = e
  BY <1>3, <1>4 DEF t
<1>8. \A i \in 1..(Len(s) + 1) : i > pos => t[i] = s[i - 1]
  <2> SUFFICES ASSUME NEW i \in 1..(Len(s) + 1), i > pos
               PROVE  t[i] = s[i - 1]
    OBVIOUS
  <2>1. i - pos \in 1..(Len(s) - pos + 1) /\ (i - pos) + pos - 1 = i - 1
    OBVIOUS
  <2>2. t[i] = b[i - pos]
    BY <1>4 DEF t
  <2> QED
    BY <2>1, <2>2, <1>2
<1>9. \A i \in 1..(Len(s) + 1) :
        t[i] = IF i < pos THEN s[i] ELSE IF i = pos THEN e ELSE s[i - 1]
  BY <1>6, <1>7, <1>8
<1> QED
  BY <1>4, <1>5, <1>9 DEF t

\* VecDeque::remove: one element less, the others in the same order.
LEMMA RemoveAtFacts ==
  ASSUME NEW S, NEW s \in Seq(S), NEW pos \in 1..Len(s)
  PROVE  /\ RemoveAt(s, pos) \in Seq(S)
         /\ Len(RemoveAt(s, pos)) = Len(s) - 1
         /\ \A i \in 1..(Len(s) - 1) :
              RemoveAt(s, pos)[i] = IF i < pos THEN s[i] ELSE s[i + 1]
<1> DEFINE a == SubSeq(s, 1, pos - 1)
           b == SubSeq(s, pos + 1, Len(s))
<1>1. /\ a \in Seq(S) /\ Len(a) = pos - 1
      /\ \A i \in 1..(pos - 1) : a[i] = s[i]
  OBVIOUS
<1>2. /\ b \in Seq(S) /\ Len(b) = Len(s) - pos
      /\ \A i \in 1..(Len(s) - pos) : b[i] = s[i + pos]
  OBVIOUS
<1> HIDE DEF a, b
<1>3. /\ a \o b \in Seq(S) /\ Len(a \o b) = Len(s) - 1
      /\ \A i \in 1..(Len(s) - 1) :
           (a \o b)[i] = IF i <= pos - 1 THEN a[i] ELSE b[i - (pos - 1)]
  BY <1>1, <1>2, ConcatProperties
<1>4. RemoveAt(s, pos) = a \o b
  BY DEF RemoveAt, a, b
<1>5. ASSUME NEW i \in 1..(Len(s) - 1)
      PROVE  (a \o b)[i] = IF i < pos THEN s[i] ELSE s[i + 1]
  <2>1. CASE i < pos
    BY <2>1, <1>1, <1>3
  <2>2. CASE ~(i < pos)
    <3>1. i - (pos - 1) \in 1..(Len(s) - pos) /\ (i - (pos - 1)) + pos = i + 1
      BY <2>2
    <3> QED
      BY <3>1, <2>2, <1>2, <1>3
  <2> QED
    BY <2>1, <2>2
<1> QED
  BY <1>3, <1>4, <1>5

\* What enqueuing a job that is not queued does to the queue as a set.
LEMMA InsertKeepsInjective ==
  ASSUME NEW S, NEW s \in Seq(S), NEW e \in S, NEW pos \in 1..(Len(s) + 1),
         IsInjective(s), e \notin ToSet(s)
  PROVE  /\ IsInjective(InsertAt(s, pos, e))
         /\ ToSet(InsertAt(s, pos, e)) = ToSet(s) \cup {e}
<1> DEFINE t == InsertAt(s, pos, e)
           Old(i) == IF i < pos THEN i ELSE i - 1
<1>1. /\ t \in Seq(S) /\ Len(t) = Len(s) + 1
      /\ \A i \in 1..(Len(s) + 1) :
           t[i] = IF i < pos THEN s[i] ELSE IF i = pos THEN e ELSE s[i - 1]
  BY InsertAtFacts
<1> HIDE DEF t
<1>2. \A i \in 1..Len(s) : s[i] # e
  BY DEF ToSet
<1>3. \A i, k \in 1..Len(s) : s[i] = s[k] => i = k
  BY DEF IsInjective
<1>a. \A i \in 1..(Len(s) + 1) :
        i # pos => Old(i) \in 1..Len(s) /\ t[i] = s[Old(i)]
  BY <1>1
<1>b. \A i, k \in 1..(Len(s) + 1) :
        i # pos /\ k # pos /\ Old(i) = Old(k) => i = k
  OBVIOUS
<1>c. t[pos] = e
  BY <1>1
<1> HIDE DEF Old
<1>4. \A i, k \in 1..(Len(s) + 1) : t[i] = t[k] => i = k
  BY <1>2, <1>3, <1>a, <1>b, <1>c
<1>5. IsInjective(t)
  BY <1>1, <1>4 DEF IsInjective
<1>6. ASSUME NEW x \in ToSet(t) PROVE x \in ToSet(s) \cup {e}
  <2>1. PICK i \in 1..(Len(s) + 1) : x = t[i]
    BY <1>1 DEF ToSet
  <2> QED
    BY <2>1, <1>1 DEF ToSet
<1>7. ASSUME NEW x \in ToSet(s) \cup {e} PROVE x \in ToSet(t)
  <2>1. CASE x = e
    BY <2>1, <1>1 DEF ToSet
  <2>2. CASE x \in ToSet(s)
    <3>1. PICK k \in 1..Len(s) : x = s[k]
      BY <2>2 DEF ToSet
    <3>2. k < pos => x = t[k] /\ k \in DOMAIN t
      BY <3>1, <1>1
    <3>3. k >= pos => x = t[k + 1] /\ k + 1 \in DOMAIN t
      BY <3>1, <1>1
    <3> QED
      BY <3>2, <3>3 DEF ToSet
  <2> QED
    BY <2>1, <2>2
<1> QED
  BY <1>5, <1>6, <1>7 DEF t

\* What taking a job out does to the queue as a set.
LEMMA RemoveKeepsInjective ==
  ASSUME NEW S, NEW s \in Seq(S), NEW pos \in 1..Len(s), IsInjective(s)
  PROVE  /\ IsInjective(RemoveAt(s, pos))
         /\ ToSet(RemoveAt(s, pos)) = ToSet(s) \ {s[pos]}
<1> DEFINE t == RemoveAt(s, pos)
           Old(i) == IF i < pos THEN i ELSE i + 1
<1>1. /\ t \in Seq(S) /\ Len(t) = Len(s) - 1
      /\ \A i \in 1..(Len(s) - 1) : t[i] = IF i < pos THEN s[i] ELSE s[i + 1]
  BY RemoveAtFacts
<1> HIDE DEF t
<1>2. \A i, k \in 1..Len(s) : s[i] = s[k] => i = k
  BY DEF IsInjective
<1>3. \A i \in 1..(Len(s) - 1) :
        Old(i) \in 1..Len(s) /\ Old(i) # pos /\ t[i] = s[Old(i)]
  BY <1>1
<1>4. \A i, k \in 1..(Len(s) - 1) : Old(i) = Old(k) => i = k
  OBVIOUS
<1>5. \A i, k \in 1..(Len(s) - 1) : t[i] = t[k] => i = k
  BY <1>2, <1>3, <1>4
<1>6. IsInjective(t)
  BY <1>1, <1>5 DEF IsInjective
<1>7. ASSUME NEW x \in ToSet(t) PROVE x \in ToSet(s) \ {s[pos]}
  <2>1. PICK k \in 1..(Len(s) - 1) : x = t[k]
    BY <1>1 DEF ToSet
  <2> QED
    BY <2>1, <1>2, <1>3 DEF ToSet
<1>8. ASSUME NEW x \in ToSet(s) \ {s[pos]} PROVE x \in ToSet(t)
  <2>1. PICK k \in 1..Len(s) : x = s[k] /\ k # pos
    BY DEF ToSet
  <2>2. k < pos => x = t[k] /\ k \in DOMAIN t
    BY <2>1, <1>1
  <2>3. k > pos => x = t[k - 1] /\ k - 1 \in DOMAIN t
    BY <2>1, <1>1
  <2> QED
    BY <2>1, <2>2, <2>3 DEF ToSet
<1> QED
  BY <1>6, <1>7, <1>8 DEF t

\* pop_front is remove(0).
LEMMA TailIsRemoveAt ==
  ASSUME NEW S, NEW s \in Seq(S), s # <<>>
  PROVE  /\ Tail(s) = RemoveAt(s, 1)
         /\ Head(s) = s[1]
         /\ 1 \in 1..Len(s)
<1>1. 1 \in 1..Len(s)
  OBVIOUS
<1>2. /\ RemoveAt(s, 1) \in Seq(S) /\ Len(RemoveAt(s, 1)) = Len(s) - 1
      /\ \A i \in 1..(Len(s) - 1) : RemoveAt(s, 1)[i] = s[i + 1]
  BY <1>1, RemoveAtFacts
<1>3. /\ Tail(s) \in Seq(S) /\ Len(Tail(s)) = Len(s) - 1
      /\ \A i \in 1..(Len(s) - 1) : Tail(s)[i] = s[i + 1]
  BY HeadTailProperties
<1>4. Tail(s) = RemoveAt(s, 1)
  BY <1>2, <1>3
<1> QED
  BY <1>1, <1>4

\* The receivers of a batch as a set, when one is added or awaited.
LEMMA AppendToSet ==
  ASSUME NEW S, NEW s \in Seq(S), NEW e \in S
  PROVE  ToSet(Append(s, e)) = ToSet(s) \cup {e}
<1>1. ASSUME NEW x \in ToSet(Append(s, e)) PROVE x \in ToSet(s) \cup {e}
  <2>1. PICK i \in 1..(Len(s) + 1) : x = Append(s, e)[i]
    BY DEF ToSet
  <2> QED
    BY <2>1 DEF ToSet
<1>2. ASSUME NEW x \in ToSet(s) \cup {e} PROVE x \in ToSet(Append(s, e))
  <2>1. CASE x = e
    <3>1. e = Append(s, e)[Len(s) + 1] /\ Len(s) + 1 \in DOMAIN Append(s, e)
      OBVIOUS
    <3> QED
      BY <2>1, <3>1 DEF ToSet
  <2>2. CASE x \in ToSet(s)
    <3>1. PICK i \in 1..Len(s) : x = s[i]
      BY <2>2 DEF ToSet
    <3>2. x = Append(s, e)[i] /\ i \in DOMAIN Append(s, e)
      BY <3>1
    <3> QED
      BY <3>2 DEF ToSet
  <2> QED
    BY <2>1, <2>2
<1> QED
  BY <1>1, <1>2

LEMMA TailToSet ==
  ASSUME NEW S, NEW s \in Seq(S), s # <<>>
  PROVE  ToSet(Tail(s)) \subseteq ToSet(s)
<1> SUFFICES ASSUME NEW x \in ToSet(Tail(s)) PROVE x \in ToSet(s)
  OBVIOUS
<1>1. PICK i \in 1..(Len(s) - 1) : x = Tail(s)[i]
  BY HeadTailProperties DEF ToSet
<1>2. x = s[i + 1] /\ i + 1 \in 1..Len(s)
  BY <1>1, HeadTailProperties
<1> QED
  BY <1>2 DEF ToSet

-----------------------------------------------------------------------------

(* The inductive invariant. *)

BeforeEnqueue == {"register", "checkSize", "blocked", "evict", "untrack",
                  "enqueue"}
BeforeStart   == BeforeEnqueue \cup {"ensure", "spawn", "leaving"}

\* The k-th job of the plan has not been enqueued (and may never be).
NotSubmitted(c, k) == k > idx[c] \/ (k = idx[c] /\ cpc[c] \in BeforeEnqueue)

\* The k-th job of the plan has not given its name to a scheduler loop.
NotStarted(c, k) ==
  IF IsBatch[c] THEN k = 1 /\ cpc[c] \in BeforeStart
                ELSE k > idx[c] \/ (k = idx[c] /\ cpc[c] \in BeforeStart)

Untouched(j) ==
  /\ j \notin ToSet(queue) /\ work[j] = "idle" /\ chan[j] = "open"
  /\ \A l \in Loops : held[l] # j

FreshJobs ==
  \A c \in Clients : \A k \in DOMAIN Plan[c] :
    NotSubmitted(c, k) => Untouched(Plan[c][k])

FreshLoops ==
  \A c \in Clients : \A k \in DOMAIN Plan[c] :
    NotStarted(c, k) => loopPc[Plan[c][k]] = "unborn"

HeldIffMark == \A l \in Loops : held[l] # NoJob <=> loopPc[l] = "mark"

\* A worker that is about to answer has a result to send.
SendingHasResult ==
  \A j \in Jobs : work[j] = "sending" => result[j] \in {"success", "failed"}

IInv ==
  /\ TypeOK
  /\ SendingHasResult
  /\ FreshJobs
  /\ FreshLoops
  /\ HeldIffMark
  /\ OnePlaceOnly
  /\ PermitsConserved

-----------------------------------------------------------------------------
(* Facts about the constants and names. *)

LEMMA PlanFacts ==
  /\ \A c \in Clients : Plan[c] \in Seq(Jobs) /\ 1 \in DOMAIN Plan[c]
  /\ \A c \in Clients : \A k \in DOMAIN Plan[c] : Plan[c][k] \in Jobs
  /\ \A c \in Clients : DOMAIN Plan[c] = 1..Len(Plan[c]) /\ Len(Plan[c]) \in Nat
  BY ConstantsAssumption

LEMMA PlanInjective ==
  ASSUME NEW c \in Clients, NEW d \in Clients,
         NEW i \in DOMAIN Plan[c], NEW k \in DOMAIN Plan[d],
         Plan[c][i] = Plan[d][k]
  PROVE  c = d /\ i = k
  BY ConstantsAssumption

LEMMA NameFacts ==
  ASSUME TypeOK, NEW c \in Clients
  PROVE  /\ Job(c) \in Jobs
         /\ NewLoop(c) \in Jobs
         /\ TaskId[Job(c)] \in Ids
         /\ IsBatch[c] \in BOOLEAN
         /\ NewLoop(c) \in Loops
  BY PlanFacts, ConstantsAssumption DEF TypeOK, Job, NewLoop, Loops

LEMMA ConfigFacts ==
  /\ TaskId \in [Jobs -> Ids] /\ MaxJobs \in Nat /\ QueueCap \in Nat \ {0}
  /\ Outcomes \subseteq {"success", "failed", "panic"}
  /\ IsFiniteSet(Jobs) /\ IsFiniteSet(Loops) /\ IsFiniteSet(Clients)
  /\ NoJob \notin Jobs
  BY ConstantsAssumption, SentinelAssumption, FS_AddElement DEF Loops, Accepted

-----------------------------------------------------------------------------
(* Types. *)

LEMMA NextJobType ==
  ASSUME TypeOK, NEW c \in Clients, NEW after \in ClientPcs, NextJob(c, after)
  PROVE  /\ cpc' \in [Clients -> ClientPcs]
         /\ idx' \in [Clients -> Nat]
         /\ \A d \in Clients : idx'[d] \in DOMAIN Plan[d]
<1>1. CASE AtLast(c)
  BY <1>1 DEF TypeOK, NextJob, Goto
<1>2. CASE ~AtLast(c)
  <2>1. cpc' \in [Clients -> ClientPcs] /\ idx' = [idx EXCEPT ![c] = @ + 1]
    BY <1>2 DEF TypeOK, NextJob, Goto, ClientPcs
  <2>2. idx[c] + 1 \in DOMAIN Plan[c]
    BY <1>2, PlanFacts DEF TypeOK, AtLast
  <2> QED
    BY <2>1, <2>2 DEF TypeOK
<1> QED
  BY <1>1, <1>2

LEMMA ClientTypes ==
  ASSUME TypeOK, NEW c \in Clients, ClientStep(c) \/ Cancel(c)
  PROVE  TypeOK'
<1> USE NameFacts DEF loopVars, workVars
<1>1. CASE Register(c)
  BY <1>1 DEF Register, TypeOK, Goto, ClientPcs, Statuses
<1>2. CASE HasRoom(c)
  BY <1>2 DEF HasRoom, TypeOK, Goto, ClientPcs
<1>3. CASE Overflow(c)
  BY <1>3 DEF Overflow, TypeOK, Goto, ClientPcs
<1>4. CASE Refuse(c)
  BY <1>4 DEF Refuse, TypeOK, Goto, ClientPcs, Returned, Answers
<1>5. CASE RefuseBatch(c)
  BY <1>5 DEF RefuseBatch, TypeOK, Goto, ClientPcs
<1>6. CASE SkipInBatch(c)
  <2>1. "ensure" \in ClientPcs
    BY DEF ClientPcs
  <2> QED
    BY <2>1, <1>6, NextJobType DEF SkipInBatch, TypeOK
<1>7. CASE Unblock(c)
  BY <1>7 DEF Unblock, TypeOK, Goto, ClientPcs
<1>8. CASE Evict(c)
  <2>1. CASE queue = <<>>
    BY <2>1, <1>8 DEF Evict, TypeOK, Goto, ClientPcs
  <2>2. CASE queue # <<>>
    <3>1. Head(queue) \in Jobs /\ Tail(queue) \in Seq(Jobs)
      BY <2>2 DEF TypeOK
    <3>2. TaskId[Head(queue)] \in Ids
      BY <3>1, ConfigFacts
    <3>3. chan' \in [Jobs -> Answers \cup {"open"}]
      BY <2>2, <1>8 DEF Evict, TypeOK, Answers
    <3>4. evicted' \in [Clients -> Ids \cup {NoId}]
      BY <2>2, <3>2, <1>8 DEF Evict, TypeOK
    <3>5. queue' \in Seq(Jobs) /\ cpc' \in [Clients -> ClientPcs]
      BY <2>2, <3>1, <1>8 DEF Evict, TypeOK, Goto, ClientPcs
    <3> QED
      BY <3>3, <3>4, <3>5, <1>8 DEF Evict, TypeOK
  <2> QED
    BY <2>1, <2>2
<1>9. CASE Untrack(c)
  BY <1>9 DEF Untrack, TypeOK, Goto, ClientPcs, Statuses
<1>10. CASE Enqueue(c)
  <2>1. queue' \in Seq(Jobs)
    BY <1>10, InsertAtFacts DEF Enqueue, TypeOK
  <2>2. receivers' \in [Clients -> Seq(Jobs)]
    BY <1>10 DEF Enqueue, TypeOK
  <2>3. "ensure" \in ClientPcs
    BY DEF ClientPcs
  <2>4. /\ cpc' \in [Clients -> ClientPcs]
        /\ idx' \in [Clients -> Nat]
        /\ \A d \in Clients : idx'[d] \in DOMAIN Plan[d]
    <3>1. CASE IsBatch[c]
      BY <3>1, <2>3, <1>10, NextJobType DEF Enqueue
    <3>2. CASE ~IsBatch[c]
      BY <3>2, <2>3, <1>10 DEF Enqueue, Goto, TypeOK
    <3> QED
      BY <3>1, <3>2
  <2> QED
    BY <1>10, <2>1, <2>2, <2>4 DEF Enqueue, TypeOK
<1>11. CASE Ensure(c)
  BY <1>11 DEF Ensure, TypeOK, Goto, ClientPcs
<1>12. CASE SpawnLoop(c)
  BY <1>12 DEF SpawnLoop, TypeOK, Goto, ClientPcs, LoopPcs
<1>13. CASE StoreHandle(c)
  BY <1>13 DEF StoreHandle, TypeOK, Goto, ClientPcs
<1>14. CASE Await(c)
  <2>1. /\ Head(receivers[c]) \in Jobs /\ Tail(receivers[c]) \in Seq(Jobs)
    BY <1>14 DEF Await, TypeOK
  <2>2. receivers' \in [Clients -> Seq(Jobs)]
    BY <2>1, <1>14 DEF Await, TypeOK
  <2>3. got' \in [Clients -> Seq(Returned)] /\ active' \in [Ids -> Statuses]
    <3>1. chan[Head(receivers[c])] \in Returned
      BY <2>1, <1>14 DEF Await, TypeOK, Returned
    <3>2. got' \in [Clients -> Seq(Returned)]
      BY <3>1, <1>14 DEF Await, TypeOK
    <3>3. active' \in [Ids -> Statuses]
      BY <1>14 DEF Await, TypeOK, Statuses
    <3> QED
      BY <3>2, <3>3
  <2>4. "done" \in ClientPcs
    BY DEF ClientPcs
  <2>5. /\ cpc' \in [Clients -> ClientPcs]
        /\ idx' \in [Clients -> Nat]
        /\ \A d \in Clients : idx'[d] \in DOMAIN Plan[d]
    BY <1>14, <2>4, NextJobType DEF Await, TypeOK
  <2> QED
    BY <1>14, <2>2, <2>3, <2>5 DEF Await, TypeOK
<1>15. CASE ReturnBatch(c)
  BY <1>15 DEF ReturnBatch, TypeOK, Goto, ClientPcs
<1>16. CASE GuardDrop(c)
  <2>1. "done" \in ClientPcs
    BY DEF ClientPcs
  <2> QED
    BY <2>1, <1>16, NextJobType DEF GuardDrop, TypeOK, Statuses
<1>17. CASE Cancel(c)
  <2>1. "done" \in ClientPcs
    BY DEF ClientPcs
  <2>2. /\ cpc' \in [Clients -> ClientPcs]
        /\ idx' \in [Clients -> Nat]
        /\ \A d \in Clients : idx'[d] \in DOMAIN Plan[d]
    BY <1>17, <2>1, NextJobType DEF Cancel, TypeOK, Goto
  <2>3. receivers' \in [Clients -> Seq(Jobs)] /\ active' \in [Ids -> Statuses]
    <3>1. receivers' \in [Clients -> Seq(Jobs)]
      BY <1>17 DEF Cancel, TypeOK
    <3>2. active' \in [Ids -> Statuses]
      BY <1>17 DEF Cancel, TypeOK, Statuses
    <3> QED
      BY <3>1, <3>2
  <2>4. got' \in [Clients -> Seq(Returned)]
    BY <1>17 DEF Cancel, TypeOK, Returned
  <2> QED
    BY <1>17, <2>2, <2>3, <2>4 DEF Cancel, TypeOK
<1> QED
  BY <1>1, <1>2, <1>3, <1>4, <1>5, <1>6, <1>7, <1>8, <1>9, <1>10, <1>11,
     <1>12, <1>13, <1>14, <1>15, <1>16, <1>17 DEF ClientStep

LEMMA LoopTypes ==
  ASSUME TypeOK, NEW l \in Loops, LoopStep(l)
  PROVE  TypeOK'
<1> USE DEF clientVars, workVars, LoopGoto, LoopPcs
<1>1. CASE CheckPending(l)
  BY <1>1 DEF CheckPending, TypeOK
<1>2. CASE CheckActive(l)
  BY <1>2 DEF CheckActive, TypeOK
<1>3. CASE LoopEnds(l)
  BY <1>3 DEF LoopEnds, TypeOK
<1>4. CASE Acquire(l)
  <2>1. CASE permits > 0
    <3>1. permits' \in Nat
      BY <1>4, <2>1 DEF Acquire, TypeOK
    <3>2. loopPc' \in [Loops -> LoopPcs]
      BY <1>4, <2>1 DEF Acquire, TypeOK
    <3> QED
      BY <1>4, <3>1, <3>2 DEF Acquire, TypeOK
  <2>2. CASE ~(permits > 0)
    BY <1>4, <2>2 DEF Acquire, TypeOK
  <2> QED
    BY <2>1, <2>2
<1>5. CASE Pop(l)
  <2>1. PICK pos \in DOMAIN queue :
          held' = [held EXCEPT ![l] = queue[pos]] /\ queue' = RemoveAt(queue, pos)
    BY <1>5 DEF Pop
  <2>2. queue[pos] \in Jobs /\ pos \in 1..Len(queue) /\ queue \in Seq(Jobs)
    BY <2>1 DEF TypeOK
  <2>3. queue' \in Seq(Jobs)
    BY <2>1, <2>2, RemoveAtFacts
  <2>4. held' \in [Loops -> Jobs \cup {NoJob}]
    BY <2>1, <2>2 DEF TypeOK
  <2> QED
    BY <1>5, <2>3, <2>4 DEF Pop, TypeOK
<1>6. CASE PopNothing(l)
  BY <1>6 DEF PopNothing, TypeOK
<1>7. CASE Mark(l)
  <2>1. active' \in [Ids -> Statuses]
    BY <1>7 DEF Mark, SetStatus, TypeOK, Statuses
  <2>2. work' \in [Jobs -> WorkPcs] /\ held' \in [Loops -> Jobs \cup {NoJob}]
    BY <1>7 DEF Mark, TypeOK, WorkPcs
  <2> QED
    BY <1>7, <2>1, <2>2 DEF Mark, TypeOK
<1> QED
  BY <1>1, <1>2, <1>3, <1>4, <1>5, <1>6, <1>7 DEF LoopStep

LEMMA WorkerTypes ==
  ASSUME TypeOK, SendingHasResult, NEW j \in Jobs, WorkerStep(j)
  PROVE  TypeOK' /\ SendingHasResult'
<1> USE DEF clientVars, loopVars
<1>1. CASE Complete(j)
  <2>1. active' \in [Ids -> Statuses]
    BY <1>1 DEF Complete, SetStatus, TypeOK, Statuses
  <2>2. PICK r \in {"success", "failed"} : result' = [result EXCEPT ![j] = r]
    BY <1>1, ConfigFacts DEF Complete
  <2>3. /\ result' \in [Jobs -> {"none", "success", "failed"}]
        /\ work' \in [Jobs -> WorkPcs]
    BY <1>1, <2>2 DEF Complete, TypeOK, WorkPcs
  <2>4. SendingHasResult'
    BY <1>1, <2>2 DEF Complete, SendingHasResult, TypeOK
  <2> QED
    BY <1>1, <2>1, <2>3, <2>4 DEF Complete, TypeOK
<1>2. CASE Panic(j)
  BY <1>2 DEF Panic, TypeOK, WorkPcs, Answers, SendingHasResult
<1>3. CASE Send(j)
  BY <1>3 DEF Send, TypeOK, WorkPcs, Answers, SendingHasResult
<1>4. CASE Release(j)
  BY <1>4 DEF Release, TypeOK, WorkPcs, SendingHasResult
<1> QED
  BY <1>1, <1>2, <1>3, <1>4 DEF WorkerStep

\* Types and SendingHasResult are inductive on their own.
LEMMA TypeStep ==
  ASSUME TypeOK, SendingHasResult, [Next]_vars
  PROVE  TypeOK' /\ SendingHasResult'
<1>1. ASSUME NEW c \in Clients, ClientStep(c) \/ Cancel(c)
      PROVE  TypeOK' /\ SendingHasResult'
  <2>1. TypeOK'
    BY <1>1, ClientTypes
  <2>2. UNCHANGED <<work, result>>
    BY <1>1 DEF ClientStep, Register, HasRoom, Overflow, Refuse, RefuseBatch,
       SkipInBatch, Unblock, Evict, Untrack, Enqueue, Ensure, SpawnLoop,
       StoreHandle, Await, ReturnBatch, GuardDrop, Cancel, workVars
  <2> QED
    BY <2>1, <2>2 DEF SendingHasResult
<1>2. ASSUME NEW l \in Loops, LoopStep(l)
      PROVE  TypeOK' /\ SendingHasResult'
  <2>1. TypeOK'
    BY <1>2, LoopTypes
  <2>2. CASE Mark(l)
    <3>1. /\ result' = result
          /\ \A j \in Jobs : work'[j] = "sending" => work[j] = "sending"
      BY <2>2 DEF Mark, TypeOK
    <3> QED
      BY <2>1, <3>1 DEF SendingHasResult
  <2>3. CASE ~Mark(l)
    <3>1. UNCHANGED <<work, result>>
      BY <1>2, <2>3 DEF LoopStep, CheckPending, CheckActive, LoopEnds, Acquire,
         Pop, PopNothing, workVars
    <3> QED
      BY <2>1, <3>1 DEF SendingHasResult
  <2> QED
    BY <2>1, <2>2, <2>3
<1>3. ASSUME NEW j \in Jobs, WorkerStep(j)
      PROVE  TypeOK' /\ SendingHasResult'
  BY <1>3, WorkerTypes
<1>4. CASE UNCHANGED vars
  BY <1>4 DEF vars, loopVars, workVars, clientVars, TypeOK, SendingHasResult
<1> QED
  BY <1>1, <1>2, <1>3, <1>4 DEF Next, AllReturned

-----------------------------------------------------------------------------
(* Jobs and loop names. *)

\* Clients never go back: what is submitted or started stays so.
LEMMA ClientsProgress ==
  ASSUME TypeOK, NEW c \in Clients, ClientStep(c) \/ Cancel(c),
         NEW d \in Clients, NEW k \in DOMAIN Plan[d]
  PROVE  /\ NotSubmitted(d, k)' => NotSubmitted(d, k)
         /\ NotStarted(d, k)' => NotStarted(d, k)
<1>1. k \in Nat /\ idx[d] \in Nat /\ idx[c] \in Nat /\ IsBatch[d] \in BOOLEAN
  BY PlanFacts, NameFacts DEF TypeOK
<1>2. CASE d # c
  <2>1. idx'[d] = idx[d] /\ cpc'[d] = cpc[d]
    BY <1>2 DEF ClientStep, Register, HasRoom, Overflow, Refuse, RefuseBatch,
       SkipInBatch, Unblock, Evict, Untrack, Enqueue, Ensure, SpawnLoop,
       StoreHandle, Await, ReturnBatch, GuardDrop, Cancel, Goto, NextJob, TypeOK
  <2> QED
    BY <2>1 DEF NotSubmitted, NotStarted
<1>3. CASE d = c
  <2> USE DEF TypeOK, Goto, NextJob, BeforeEnqueue, BeforeStart
  <2>1. \/ idx'[c] = idx[c] /\ cpc'[c] = cpc[c]
        \/ idx'[c] = idx[c] + 1 /\ cpc'[c] = "register" /\ cpc[c] \in BeforeStart
        \/ idx'[c] = idx[c] + 1 /\ cpc'[c] = "register" /\ ~IsBatch[c]
        \/ idx'[c] = idx[c] /\ cpc[c] \in BeforeEnqueue
        \/ idx'[c] = idx[c] /\ cpc[c] \in BeforeStart /\ cpc'[c] \notin BeforeEnqueue
        \/ idx'[c] = idx[c] /\ cpc'[c] \notin BeforeStart
    <3>1. CASE Register(c) \/ HasRoom(c) \/ Overflow(c) \/ Refuse(c) \/ RefuseBatch(c)
      BY <3>1 DEF Register, HasRoom, Overflow, Refuse, RefuseBatch
    <3>2. CASE SkipInBatch(c)
      BY <3>2 DEF SkipInBatch
    <3>3. CASE Unblock(c) \/ Evict(c) \/ Untrack(c)
      BY <3>3 DEF Unblock, Evict, Untrack
    <3>4. CASE Enqueue(c)
      BY <3>4 DEF Enqueue
    <3>5. CASE Ensure(c) \/ SpawnLoop(c) \/ StoreHandle(c) \/ ReturnBatch(c)
      BY <3>5 DEF Ensure, SpawnLoop, StoreHandle, ReturnBatch
    <3>6. CASE Await(c)
      BY <3>6 DEF Await
    <3>7. CASE GuardDrop(c)
      BY <3>7 DEF GuardDrop
    <3>8. CASE Cancel(c)
      BY <3>8 DEF Cancel
    <3> QED
      BY <3>1, <3>2, <3>3, <3>4, <3>5, <3>6, <3>7, <3>8 DEF ClientStep
  <2> HIDE DEF TypeOK, Goto, NextJob
  <2> QED
    BY <1>1, <1>3, <2>1 DEF NotSubmitted, NotStarted
<1> QED
  BY <1>2, <1>3

Places == FreshJobs /\ FreshLoops /\ HeldIffMark /\ OnePlaceOnly

\* The client steps that touch neither queue, channels nor loops.
LEMMA QuietClientKeepsPlaces ==
  ASSUME TypeOK, Places, NEW c \in Clients, ClientStep(c) \/ Cancel(c),
         UNCHANGED <<queue, work, chan, held, loopPc>>
  PROVE  Places'
<1>1. FreshJobs'
  BY ClientsProgress DEF Places, FreshJobs, Untouched
<1>2. FreshLoops'
  BY ClientsProgress DEF Places, FreshLoops
<1>3. HeldIffMark'
  BY DEF Places, HeldIffMark
<1>4. OnePlaceOnly'
  BY DEF Places, OnePlaceOnly, InQueue, IsHeld
<1> QED
  BY <1>1, <1>2, <1>3, <1>4 DEF Places

\* DropOldest takes the front job out and answers it.
LEMMA EvictKeepsPlaces ==
  ASSUME TypeOK, Places, NEW c \in Clients, Evict(c), queue # <<>>
  PROVE  Places'
<1> DEFINE h == Head(queue)
<1>1. /\ queue' = Tail(queue) /\ chan' = [chan EXCEPT ![h] = "overflow"]
      /\ UNCHANGED <<work, held, loopPc>>
  BY DEF Evict, loopVars, workVars
<1>2. queue \in Seq(Jobs) /\ IsInjective(queue) /\ h \in Jobs
  BY DEF TypeOK, Places, OnePlaceOnly
<1>3. /\ IsInjective(queue') /\ ToSet(queue') = ToSet(queue) \ {h}
      /\ h \in ToSet(queue)
  <2>1. Tail(queue) = RemoveAt(queue, 1) /\ h = queue[1] /\ 1 \in 1..Len(queue)
    BY <1>2, TailIsRemoveAt
  <2>2. h \in ToSet(queue)
    BY <1>2, <2>1 DEF ToSet
  <2> QED
    BY <1>1, <1>2, <2>1, <2>2, RemoveKeepsInjective
<1>4. ClientStep(c)
  BY DEF ClientStep
<1> HIDE DEF h
<1>5. \A j \in Jobs : chan'[j] = IF j = h THEN "overflow" ELSE chan[j]
  BY <1>1, <1>2 DEF TypeOK
<1>6. FreshJobs'
  <2>1. \A j \in Jobs : Untouched(j) => Untouched(j)'
    BY <1>1, <1>3, <1>5 DEF Untouched
  <2> QED
    BY <2>1, <1>4, ClientsProgress, PlanFacts DEF Places, FreshJobs
<1>7. FreshLoops'
  BY <1>1, <1>4, ClientsProgress DEF Places, FreshLoops
<1>8. HeldIffMark'
  BY <1>1 DEF Places, HeldIffMark
<1>9. OnePlaceOnly'
  BY <1>1, <1>2, <1>3, <1>5 DEF Places, OnePlaceOnly, InQueue, IsHeld
<1> QED
  BY <1>6, <1>7, <1>8, <1>9 DEF Places

\* Enqueuing adds a job that was nowhere before.
LEMMA EnqueueKeepsPlaces ==
  ASSUME TypeOK, Places, NEW c \in Clients, Enqueue(c)
  PROVE  Places'
<1> DEFINE e == Job(c)
<1>1. UNCHANGED <<work, held, loopPc, chan>>
  BY DEF Enqueue, loopVars, workVars
<1>2. PICK pos \in 1..(Len(queue) + 1) : queue' = InsertAt(queue, pos, e)
  BY DEF Enqueue
<1>3. idx[c] \in DOMAIN Plan[c] /\ e = Plan[c][idx[c]] /\ e \in Jobs
  BY NameFacts DEF TypeOK, Job
<1>4. Untouched(e)
  <2>1. NotSubmitted(c, idx[c])
    BY DEF NotSubmitted, Enqueue, BeforeEnqueue
  <2> QED
    BY <2>1, <1>3 DEF Places, FreshJobs
<1> HIDE DEF e
<1>5. IsInjective(queue') /\ ToSet(queue') = ToSet(queue) \cup {e}
  BY <1>2, <1>3, <1>4, InsertKeepsInjective
     DEF TypeOK, Places, OnePlaceOnly, Untouched
<1>6. ClientStep(c)
  BY DEF ClientStep
<1>7. PICK now \in DOMAIN Plan[c] : now = idx[c]
  BY <1>3
<1>8. ~NotSubmitted(c, now)'
  <2>1. CASE IsBatch[c] /\ ~AtLast(c)
    <3>1. idx'[c] = now + 1 /\ now \in Nat
      BY <2>1, <1>7 DEF Enqueue, NextJob, TypeOK
    <3> QED
      BY <3>1 DEF NotSubmitted
  <2>2. CASE ~(IsBatch[c] /\ ~AtLast(c))
    <3>1. idx'[c] = now /\ cpc'[c] = "ensure" /\ now \in Nat
      BY <2>2, <1>7 DEF Enqueue, NextJob, Goto, TypeOK
    <3> QED
      BY <3>1 DEF NotSubmitted, BeforeEnqueue
  <2> QED
    BY <2>1, <2>2
<1>9. FreshJobs'
  <2> SUFFICES ASSUME NEW d \in Clients, NEW k \in DOMAIN Plan[d],
                      NotSubmitted(d, k)'
               PROVE  Untouched(Plan[d][k])'
    BY DEF FreshJobs
  <2>1. NotSubmitted(d, k)
    BY <1>6, ClientsProgress
  <2>2. Untouched(Plan[d][k])
    BY <2>1 DEF Places, FreshJobs
  <2>3. Plan[d][k] # e
    BY <1>3, <1>7, <1>8, PlanInjective
  <2> QED
    BY <2>2, <2>3, <1>1, <1>5 DEF Untouched
<1>10. FreshLoops'
  BY <1>1, <1>6, ClientsProgress DEF Places, FreshLoops
<1>11. HeldIffMark'
  BY <1>1 DEF Places, HeldIffMark
<1>12. OnePlaceOnly'
  BY <1>1, <1>3, <1>4, <1>5
     DEF Places, OnePlaceOnly, InQueue, IsHeld, Untouched
<1> QED
  BY <1>9, <1>10, <1>11, <1>12 DEF Places

\* A new loop gets a name no loop has had.
LEMMA SpawnIsFresh ==
  ASSUME TypeOK, Places, NEW c \in Clients, SpawnLoop(c)
  PROVE  loopPc[NewLoop(c)] = "unborn"
<1> DEFINE k == IF IsBatch[c] THEN 1 ELSE idx[c]
<1>1. k \in DOMAIN Plan[c] /\ NewLoop(c) = Plan[c][k]
  BY PlanFacts DEF NewLoop, Job, TypeOK
<1>2. NotStarted(c, k)
  BY DEF NotStarted, SpawnLoop, BeforeStart
<1> QED
  BY <1>1, <1>2 DEF Places, FreshLoops

LEMMA SpawnKeepsPlaces ==
  ASSUME TypeOK, Places, NEW c \in Clients, SpawnLoop(c)
  PROVE  Places'
<1>1. UNCHANGED <<work, held, queue, chan>>
  BY DEF SpawnLoop, workVars
<1>2. ClientStep(c)
  BY DEF ClientStep
<1>3. FreshJobs'
  BY <1>1, <1>2, ClientsProgress DEF Places, FreshJobs, Untouched
<1>4. FreshLoops'
  <2> SUFFICES ASSUME NEW d \in Clients, NEW k \in DOMAIN Plan[d],
                      NotStarted(d, k)'
               PROVE  loopPc'[Plan[d][k]] = "unborn"
    BY DEF FreshLoops
  <2>1. NotStarted(d, k) /\ k \in Nat /\ idx[d] \in Nat
    BY <1>2, ClientsProgress, PlanFacts DEF TypeOK
  <2>2. loopPc[Plan[d][k]] = "unborn"
    BY <2>1 DEF Places, FreshLoops
  <2>3. Plan[d][k] # NewLoop(c)
    <3>1. CASE d # c
      BY <3>1, PlanInjective, PlanFacts DEF NewLoop, Job, TypeOK
    <3>2. CASE d = c
      <4>1. cpc'[c] = "store" /\ idx' = idx
        BY DEF SpawnLoop, Goto, TypeOK
      <4>2. ~IsBatch[c] /\ k > idx[c]
        BY <3>2, <4>1 DEF NotStarted, BeforeStart, BeforeEnqueue
      <4>3. NewLoop(c) = Plan[c][idx[c]] /\ idx[c] \in DOMAIN Plan[c]
        BY <4>2 DEF NewLoop, Job, TypeOK
      <4> QED
        BY <3>2, <4>2, <4>3, <2>1, PlanInjective
    <3> QED
      BY <3>1, <3>2
  <2>4. Plan[d][k] \in Loops
    BY PlanFacts DEF Loops
  <2> QED
    BY <2>2, <2>3, <2>4 DEF SpawnLoop, TypeOK
<1>5. HeldIffMark'
  <2>1. NewLoop(c) \in Loops /\ loopPc[NewLoop(c)] = "unborn"
    BY SpawnIsFresh, NameFacts
  <2>2. \A l \in Loops : loopPc'[l] = "mark" <=> loopPc[l] = "mark"
    BY <2>1 DEF SpawnLoop, TypeOK
  <2> QED
    BY <1>1, <2>2 DEF Places, HeldIffMark
<1>6. OnePlaceOnly'
  BY <1>1 DEF Places, OnePlaceOnly, InQueue, IsHeld
<1> QED
  BY <1>3, <1>4, <1>5, <1>6 DEF Places

LEMMA PopKeepsPlaces ==
  ASSUME TypeOK, Places, NEW l \in Loops, Pop(l)
  PROVE  Places'
<1>1. PICK pos \in DOMAIN queue :
        held' = [held EXCEPT ![l] = queue[pos]] /\ queue' = RemoveAt(queue, pos)
  BY DEF Pop
<1> DEFINE j == queue[pos]
<1>2. /\ UNCHANGED <<work, chan, cpc, idx>> /\ loopPc[l] = "pop"
      /\ loopPc' = [loopPc EXCEPT ![l] = "mark"]
  BY DEF Pop, LoopGoto, workVars, clientVars
<1>3. queue \in Seq(Jobs) /\ IsInjective(queue) /\ pos \in 1..Len(queue)
  BY DEF TypeOK, Places, OnePlaceOnly
<1>4. /\ j \in Jobs /\ j \in ToSet(queue) /\ j # NoJob
      /\ IsInjective(queue') /\ ToSet(queue') = ToSet(queue) \ {j}
  <2>1. j \in Jobs /\ j \in ToSet(queue)
    BY <1>3 DEF ToSet
  <2>2. IsInjective(queue') /\ ToSet(queue') = ToSet(queue) \ {j}
    BY <1>1, <1>3, RemoveKeepsInjective
  <2> QED
    BY <2>1, <2>2, ConfigFacts
<1>5. held' = [held EXCEPT ![l] = j]
  BY <1>1
<1> HIDE DEF j
<1>6. /\ \A m \in Loops : held'[m] = IF m = l THEN j ELSE held[m]
      /\ \A m \in Loops : loopPc'[m] = IF m = l THEN "mark" ELSE loopPc[m]
  BY <1>2, <1>5 DEF TypeOK
<1>7. FreshJobs'
  <2>1. \A i \in Jobs : Untouched(i) => Untouched(i)'
    BY <1>2, <1>4, <1>6 DEF Untouched
  <2> QED
    BY <2>1, <1>2, PlanFacts DEF Places, FreshJobs, NotSubmitted
<1>8. FreshLoops'
  <2>1. \A m \in Loops : loopPc[m] = "unborn" => loopPc'[m] = "unborn"
    BY <1>2, <1>6
  <2>2. \A i \in Jobs : i \in Loops
    BY DEF Loops
  <2> QED
    BY <2>1, <2>2, <1>2, PlanFacts DEF Places, FreshLoops, NotStarted
<1>9. HeldIffMark'
  BY <1>4, <1>6 DEF Places, HeldIffMark
<1>10. OnePlaceOnly'
  BY <1>2, <1>4, <1>6 DEF Places, OnePlaceOnly, InQueue, IsHeld
<1> QED
  BY <1>7, <1>8, <1>9, <1>10 DEF Places

\* A marking loop holds a job that no worker has.
LEMMA MarkFacts ==
  ASSUME TypeOK, Places, NEW l \in Loops, Mark(l)
  PROVE  /\ held[l] \in Jobs /\ work[held[l]] = "idle"
         /\ loopPc[l] = "mark"
         /\ \A m \in Loops : held'[m] = IF m = l THEN NoJob ELSE held[m]
         /\ \A m \in Loops :
              loopPc'[m] = IF m = l THEN "checkPending" ELSE loopPc[m]
         /\ \A j \in Jobs :
              work'[j] = IF j = held[l] THEN "executing" ELSE work[j]
         /\ UNCHANGED <<queue, chan, cpc, idx, permits>>
<1>1. held[l] \in Jobs /\ loopPc[l] = "mark"
  BY DEF Mark, Places, HeldIffMark, TypeOK
<1>2. work[held[l]] = "idle"
  BY <1>1 DEF Places, OnePlaceOnly, IsHeld
<1>3. /\ \A m \in Loops : held'[m] = IF m = l THEN NoJob ELSE held[m]
      /\ \A m \in Loops :
           loopPc'[m] = IF m = l THEN "checkPending" ELSE loopPc[m]
  BY DEF Mark, LoopGoto, TypeOK
<1>4. \A j \in Jobs : work'[j] = IF j = held[l] THEN "executing" ELSE work[j]
  BY DEF Mark, TypeOK
<1>5. UNCHANGED <<queue, chan, cpc, idx, permits>>
  BY DEF Mark, clientVars
<1> QED
  BY <1>1, <1>2, <1>3, <1>4, <1>5

LEMMA MarkKeepsPlaces ==
  ASSUME TypeOK, Places, NEW l \in Loops, Mark(l)
  PROVE  Places'
<1> DEFINE j == held[l]
<1>1. /\ j \in Jobs /\ work[j] = "idle" /\ loopPc[l] = "mark"
      /\ \A m \in Loops : held'[m] = IF m = l THEN NoJob ELSE held[m]
      /\ \A m \in Loops :
           loopPc'[m] = IF m = l THEN "checkPending" ELSE loopPc[m]
      /\ \A i \in Jobs : work'[i] = IF i = j THEN "executing" ELSE work[i]
      /\ UNCHANGED <<queue, chan, cpc, idx>>
  BY MarkFacts
<1>2. j # NoJob
  BY <1>1, ConfigFacts
<1>3. FreshJobs'
  <2>1. \A i \in Jobs : Untouched(i) => Untouched(i)'
    BY <1>1, ConfigFacts DEF Untouched
  <2> QED
    BY <2>1, <1>1, PlanFacts DEF Places, FreshJobs, NotSubmitted
<1>4. FreshLoops'
  <2>1. \A m \in Loops : loopPc[m] = "unborn" => loopPc'[m] = "unborn"
    BY <1>1
  <2>2. \A i \in Jobs : i \in Loops
    BY DEF Loops
  <2> QED
    BY <2>1, <2>2, <1>1, PlanFacts DEF Places, FreshLoops, NotStarted
<1>5. HeldIffMark'
  BY <1>1 DEF Places, HeldIffMark
<1>6. OnePlaceOnly'
  <2>1. /\ IsInjective(queue)
        /\ \A i \in Jobs : i \in ToSet(queue) => \A m \in Loops : held[m] # i
        /\ \A i \in Jobs : i \in ToSet(queue) \/ (\E m \in Loops : held[m] = i)
                           => work[i] = "idle" /\ chan[i] = "open"
        /\ \A i \in Jobs : chan[i] = "overflow" => work[i] = "idle"
        /\ \A m, n \in Loops : held[m] = held[n] => m = n \/ held[m] = NoJob
    BY DEF Places, OnePlaceOnly, InQueue, IsHeld
  <2>2. \A i \in Jobs : \A m \in Loops : held'[m] = i => i # j /\ held[m] = i
    BY <1>1, <1>2, <2>1, ConfigFacts
  <2>3. chan[j] = "open" /\ j \notin ToSet(queue)
    BY <1>1, <2>1
  <2> QED
    BY <1>1, <2>1, <2>2, <2>3 DEF OnePlaceOnly, InQueue, IsHeld
<1> QED
  BY <1>3, <1>4, <1>5, <1>6 DEF Places

\* The other steps of a loop move no job.
LEMMA QuietLoopKeepsPlaces ==
  ASSUME TypeOK, Places, NEW l \in Loops, LoopStep(l), ~Pop(l), ~Mark(l)
  PROVE  Places'
<1>1. /\ UNCHANGED <<queue, work, chan, held, cpc, idx>>
      /\ \A m \in Loops : loopPc'[m] = "mark" <=> loopPc[m] = "mark"
      /\ \A m \in Loops : loopPc'[m] = "unborn" <=> loopPc[m] = "unborn"
  BY DEF LoopStep, CheckPending, CheckActive, LoopEnds, Acquire, PopNothing,
     LoopGoto, workVars, clientVars, TypeOK
<1>2. FreshJobs'
  BY <1>1 DEF Places, FreshJobs, NotSubmitted, Untouched
<1>3. FreshLoops'
  <2>1. \A i \in Jobs : i \in Loops
    BY DEF Loops
  <2> QED
    BY <2>1, <1>1, PlanFacts DEF Places, FreshLoops, NotStarted
<1>4. HeldIffMark'
  BY <1>1 DEF Places, HeldIffMark
<1>5. OnePlaceOnly'
  BY <1>1 DEF Places, OnePlaceOnly, InQueue, IsHeld
<1> QED
  BY <1>2, <1>3, <1>4, <1>5 DEF Places

\* Workers only touch jobs that are neither queued nor held.
LEMMA WorkerKeepsPlaces ==
  ASSUME TypeOK, SendingHasResult, Places, NEW j \in Jobs, WorkerStep(j)
  PROVE  Places'
<1>1. /\ UNCHANGED <<queue, held, loopPc, cpc, idx>>
      /\ work[j] # "idle"
      /\ \A i \in Jobs : i # j => work'[i] = work[i] /\ chan'[i] = chan[i]
      /\ chan'[j] # "overflow" \/ chan'[j] = chan[j]
  BY DEF WorkerStep, Complete, Panic, Send, Release, SetStatus, loopVars,
     clientVars, TypeOK, SendingHasResult
<1>2. FreshJobs'
  <2>1. \A i \in Jobs : Untouched(i) => Untouched(i)'
    BY <1>1 DEF Untouched
  <2> QED
    BY <2>1, <1>1, PlanFacts DEF Places, FreshJobs, NotSubmitted
<1>3. FreshLoops'
  BY <1>1 DEF Places, FreshLoops, NotStarted
<1>4. HeldIffMark'
  BY <1>1 DEF Places, HeldIffMark
<1>5. OnePlaceOnly'
  BY <1>1 DEF Places, OnePlaceOnly, InQueue, IsHeld
<1> QED
  BY <1>2, <1>3, <1>4, <1>5 DEF Places

\* Every step keeps every job in one place.
LEMMA PlaceStep ==
  ASSUME TypeOK, SendingHasResult, Places, [Next]_vars
  PROVE  Places'
<1>1. ASSUME NEW c \in Clients, ClientStep(c) \/ Cancel(c)
      PROVE  Places'
  <2>1. CASE Evict(c) /\ queue # <<>>
    BY <2>1, EvictKeepsPlaces
  <2>2. CASE Enqueue(c)
    BY <2>2, EnqueueKeepsPlaces
  <2>3. CASE SpawnLoop(c)
    BY <2>3, SpawnKeepsPlaces
  <2>4. CASE ~(Evict(c) /\ queue # <<>>) /\ ~Enqueue(c) /\ ~SpawnLoop(c)
    <3>1. UNCHANGED <<queue, work, chan, held, loopPc>>
      BY <1>1, <2>4 DEF ClientStep, Register, HasRoom, Overflow, Refuse,
         RefuseBatch, SkipInBatch, Unblock, Evict, Untrack, Ensure, StoreHandle,
         Await, ReturnBatch, GuardDrop, Cancel, loopVars, workVars
    <3> QED
      BY <1>1, <3>1, QuietClientKeepsPlaces
  <2> QED
    BY <2>1, <2>2, <2>3, <2>4
<1>2. ASSUME NEW l \in Loops, LoopStep(l)
      PROVE  Places'
  BY <1>2, PopKeepsPlaces, MarkKeepsPlaces, QuietLoopKeepsPlaces
<1>3. ASSUME NEW j \in Jobs, WorkerStep(j)
      PROVE  Places'
  BY <1>3, WorkerKeepsPlaces
<1>4. CASE UNCHANGED vars
  BY <1>4 DEF vars, loopVars, workVars, clientVars, Places, FreshJobs,
     FreshLoops, HeldIffMark, OnePlaceOnly, NotSubmitted, NotStarted, Untouched,
     InQueue, IsHeld
<1> QED
  BY <1>1, <1>2, <1>3, <1>4 DEF Next, AllReturned

-----------------------------------------------------------------------------
(* Permits. *)

LEMMA HoldersFinite ==
  /\ IsFiniteSet(LoopHolders) /\ Cardinality(LoopHolders) \in Nat
  /\ IsFiniteSet(WorkHolders) /\ Cardinality(WorkHolders) \in Nat
<1>1. LoopHolders \in SUBSET Loops /\ WorkHolders \in SUBSET Jobs
  BY DEF LoopHolders, WorkHolders
<1>2. IsFiniteSet(LoopHolders) /\ IsFiniteSet(WorkHolders)
  BY <1>1, ConfigFacts, FS_Subset
<1> QED
  BY <1>2, FS_CardinalityType

\* No step makes or loses a permit.
LEMMA PermitStep ==
  ASSUME TypeOK, TypeOK', Places, PermitsConserved, [Next]_vars
  PROVE  PermitsConserved'
<1> USE DEF PermitsConserved, ActiveWorkers
<1>1. ASSUME NEW c \in Clients, ClientStep(c) \/ Cancel(c)
      PROVE  PermitsConserved'
  <2>1. permits' = permits /\ work' = work
    BY <1>1 DEF ClientStep, Register, HasRoom, Overflow, Refuse, RefuseBatch,
       SkipInBatch, Unblock, Evict, Untrack, Enqueue, Ensure, SpawnLoop,
       StoreHandle, Await, ReturnBatch, GuardDrop, Cancel, workVars
  <2>2. LoopHolders' = LoopHolders
    <3>1. CASE SpawnLoop(c)
      <4>1. NewLoop(c) \in Loops /\ loopPc[NewLoop(c)] = "unborn"
        BY <3>1, SpawnIsFresh, NameFacts
      <4>2. loopPc' = [loopPc EXCEPT ![NewLoop(c)] = "checkPending"]
        BY <3>1 DEF SpawnLoop
      <4> QED
        BY <4>1, <4>2 DEF LoopHolders, TypeOK
    <3>2. CASE ~SpawnLoop(c)
      <4>1. loopPc' = loopPc
        BY <1>1, <3>2 DEF ClientStep, Register, HasRoom, Overflow, Refuse,
           RefuseBatch, SkipInBatch, Unblock, Evict, Untrack, Enqueue, Ensure,
           StoreHandle, Await, ReturnBatch, GuardDrop, Cancel, loopVars
      <4> QED
        BY <4>1 DEF LoopHolders
    <3> QED
      BY <3>1, <3>2
  <2>3. WorkHolders' = WorkHolders
    BY <2>1 DEF WorkHolders
  <2> QED
    BY <2>1, <2>2, <2>3
<1>2. ASSUME NEW l \in Loops, Acquire(l), permits > 0
      PROVE  PermitsConserved'
  <2>1. permits' = permits - 1 /\ work' = work
    BY <1>2 DEF Acquire, workVars
  <2>2. l \notin LoopHolders /\ LoopHolders' = LoopHolders \cup {l}
    BY <1>2 DEF Acquire, LoopHolders, LoopGoto, TypeOK
  <2>3. Cardinality(LoopHolders') = Cardinality(LoopHolders) + 1
    BY <2>2, HoldersFinite, FS_AddElement
  <2>4. WorkHolders' = WorkHolders
    BY <2>1 DEF WorkHolders
  <2>t. permits \in Nat /\ permits' \in Nat /\ MaxJobs \in Nat
    BY ConfigFacts DEF TypeOK
  <2> QED
    BY <2>1, <2>3, <2>4, <2>t, HoldersFinite
<1>3. ASSUME NEW l \in Loops, PopNothing(l)
      PROVE  PermitsConserved'
  <2>1. permits' = permits + 1 /\ work' = work
    BY <1>3 DEF PopNothing, workVars
  <2>2. l \in LoopHolders /\ LoopHolders' = LoopHolders \ {l}
    BY <1>3 DEF PopNothing, LoopHolders, LoopGoto, TypeOK
  <2>3. Cardinality(LoopHolders') = Cardinality(LoopHolders) - 1
    BY <2>2, HoldersFinite, FS_RemoveElement
  <2>4. WorkHolders' = WorkHolders
    BY <2>1 DEF WorkHolders
  <2>t. permits \in Nat /\ permits' \in Nat /\ MaxJobs \in Nat
    BY ConfigFacts DEF TypeOK
  <2> QED
    BY <2>1, <2>3, <2>4, <2>t, HoldersFinite
<1>4. ASSUME NEW l \in Loops, Mark(l)
      PROVE  PermitsConserved'
  <2> DEFINE j == held[l]
  <2>1. /\ j \in Jobs /\ work[j] = "idle" /\ loopPc[l] = "mark"
        /\ \A m \in Loops :
             loopPc'[m] = IF m = l THEN "checkPending" ELSE loopPc[m]
        /\ \A i \in Jobs : work'[i] = IF i = j THEN "executing" ELSE work[i]
        /\ permits' = permits
    BY <1>4, MarkFacts
  <2>2. l \in LoopHolders /\ LoopHolders' = LoopHolders \ {l}
    BY <2>1 DEF LoopHolders
  <2>3. j \notin WorkHolders /\ WorkHolders' = WorkHolders \cup {j}
    BY <2>1 DEF WorkHolders
  <2>4. Cardinality(LoopHolders') = Cardinality(LoopHolders) - 1
    BY <2>2, HoldersFinite, FS_RemoveElement
  <2>5. Cardinality(WorkHolders') = Cardinality(WorkHolders) + 1
    BY <2>3, HoldersFinite, FS_AddElement
  <2> QED
    BY <2>1, <2>4, <2>5, HoldersFinite, ConfigFacts DEF TypeOK
<1>5. ASSUME NEW l \in Loops, LoopStep(l), ~(Acquire(l) /\ permits > 0),
             ~PopNothing(l), ~Mark(l)
      PROVE  PermitsConserved'
  <2>1. /\ permits' = permits /\ work' = work
        /\ \A m \in Loops : loopPc'[m] \in {"pop", "mark"}
                              <=> loopPc[m] \in {"pop", "mark"}
    BY <1>5 DEF LoopStep, CheckPending, CheckActive, LoopEnds, Acquire, Pop,
       LoopGoto, workVars, TypeOK
  <2>2. LoopHolders' = LoopHolders /\ WorkHolders' = WorkHolders
    BY <2>1 DEF LoopHolders, WorkHolders
  <2> QED
    BY <2>1, <2>2
<1>6. ASSUME NEW j \in Jobs, Release(j)
      PROVE  PermitsConserved'
  <2>1. permits' = permits + 1 /\ loopPc' = loopPc
    BY <1>6 DEF Release, loopVars
  <2>2. j \in WorkHolders /\ WorkHolders' = WorkHolders \ {j}
    BY <1>6 DEF Release, WorkHolders, TypeOK
  <2>3. Cardinality(WorkHolders') = Cardinality(WorkHolders) - 1
    BY <2>2, HoldersFinite, FS_RemoveElement
  <2>4. LoopHolders' = LoopHolders
    BY <2>1 DEF LoopHolders
  <2>t. permits \in Nat /\ permits' \in Nat /\ MaxJobs \in Nat
    BY ConfigFacts DEF TypeOK
  <2> QED
    BY <2>1, <2>3, <2>4, <2>t, HoldersFinite
<1>7. ASSUME NEW j \in Jobs, Complete(j) \/ Panic(j) \/ Send(j)
      PROVE  PermitsConserved'
  <2>1. permits' = permits /\ loopPc' = loopPc
    BY <1>7 DEF Complete, Panic, Send, loopVars
  <2>2. WorkHolders' = WorkHolders
    BY <1>7 DEF Complete, Panic, Send, WorkHolders, TypeOK
  <2>3. LoopHolders' = LoopHolders
    BY <2>1 DEF LoopHolders
  <2> QED
    BY <2>1, <2>2, <2>3
<1>8. CASE UNCHANGED vars
  BY <1>8 DEF vars, loopVars, workVars, LoopHolders, WorkHolders
<1> QED
  BY <1>1, <1>2, <1>3, <1>4, <1>5, <1>6, <1>7, <1>8
     DEF Next, AllReturned, WorkerStep

-----------------------------------------------------------------------------
(* Theorems. *)

LEMMA InitIInv == Init => IInv
<1> SUFFICES ASSUME Init PROVE IInv
  OBVIOUS
<1>1. TypeOK
  BY PlanFacts, ConfigFacts DEF Init, TypeOK, Statuses, LoopPcs, WorkPcs,
     ClientPcs, Answers, Loops
<1>2. SendingHasResult
  BY DEF Init, SendingHasResult
<1>3. ToSet(<<>>) = {} /\ IsInjective(<<>>)
  BY DEF ToSet, IsInjective
<1>4. FreshJobs /\ HeldIffMark /\ OnePlaceOnly
  BY <1>3, PlanFacts, ConfigFacts DEF Init, FreshJobs, Untouched, HeldIffMark,
     OnePlaceOnly, InQueue, IsHeld
<1>5. FreshLoops
  BY PlanFacts, MainAssumption DEF Init, FreshLoops, Loops
<1>6. LoopHolders = {} /\ WorkHolders = {}
  BY DEF Init, LoopHolders, WorkHolders
<1>7. PermitsConserved
  BY <1>6, FS_EmptySet, ConfigFacts DEF Init, PermitsConserved, ActiveWorkers
<1> QED
  BY <1>1, <1>2, <1>4, <1>5, <1>7 DEF IInv

LEMMA StepIInv == IInv /\ [Next]_vars => IInv'
<1> SUFFICES ASSUME IInv, [Next]_vars PROVE IInv'
  OBVIOUS
<1>1. TypeOK' /\ SendingHasResult'
  BY TypeStep DEF IInv
<1>2. Places'
  BY PlaceStep DEF IInv, Places
<1>3. PermitsConserved'
  BY <1>1, PermitStep DEF IInv, Places
<1> QED
  BY <1>1, <1>2, <1>3 DEF IInv, Places

\* The inductive invariant holds throughout.
THEOREM InductiveInvariant == Spec => []IInv
  BY InitIInv, StepIInv, PTL DEF Spec

\* Every variable of the scheduler keeps its type, for every configuration.
THEOREM TypeCorrect == Spec => []TypeOK
<1>1. IInv => TypeOK
  BY DEF IInv
<1> QED
  BY <1>1, InductiveInvariant, PTL

\* A job is in the queue, with one loop or with its one worker, never in two of
\* these places: no task is executed twice, none that the overflow handling
\* discarded is executed at all.
THEOREM JobsInOnePlace == Spec => []OnePlaceOnly
<1>1. IInv => OnePlaceOnly
  BY DEF IInv
<1> QED
  BY <1>1, InductiveInvariant, PTL

\* The semaphore's permits are conserved by every loop and every worker.
THEOREM PermitsAreConserved == Spec => []PermitsConserved
<1>1. IInv => PermitsConserved
  BY DEF IInv
<1> QED
  BY <1>1, InductiveInvariant, PTL

\* Never more than max_concurrent_jobs tasks execute, however many loops run.
THEOREM ConcurrencyIsBounded == Spec => []BoundedConcurrency
<1>1. IInv => BoundedConcurrency
  <2> SUFFICES ASSUME IInv PROVE BoundedConcurrency
    OBVIOUS
  <2> DEFINE E == {j \in Jobs : work[j] = "executing"}
  <2>1. E \in SUBSET WorkHolders
    BY DEF WorkHolders
  <2>2. Cardinality(E) <= Cardinality(WorkHolders) /\ Cardinality(E) \in Nat
    BY <2>1, HoldersFinite, FS_Subset, FS_CardinalityType
  <2>3. permits \in Nat /\ MaxJobs \in Nat
    BY ConfigFacts DEF IInv, TypeOK
  <2>4. permits + Cardinality(LoopHolders) + Cardinality(WorkHolders) = MaxJobs
    BY <2>3, HoldersFinite DEF IInv, PermitsConserved, ActiveWorkers
  <2> HIDE DEF E
  <2>5. Cardinality(E) <= MaxJobs
    BY <2>2, <2>3, <2>4, HoldersFinite
  <2> QED
    BY <2>5 DEF BoundedConcurrency, E
<1> QED
  BY <1>1, InductiveInvariant, PTL

-----------------------------------------------------------------------------
(* No job is lost. *)

Somewhere(j) ==
  InQueue(j) \/ IsHeld(j) \/ work[j] \in {"executing", "sending"}

\* A step that answers no job keeps every unanswered job somewhere.
LEMMA NoJobLostStep ==
  ASSUME IInv, NoJobLost, [Next]_vars
  PROVE  NoJobLost'
<1> USE DEF NoJobLost
<1>1. /\ TypeOK /\ Places /\ OnePlaceOnly /\ HeldIffMark
      /\ queue \in Seq(Jobs) /\ IsInjective(queue) /\ held \in [Loops -> Jobs \cup {NoJob}]
      /\ \A c \in Clients : receivers[c] \in Seq(Jobs)
  BY DEF IInv, Places, TypeOK, OnePlaceOnly
<1>2. \A c \in Clients : ToSet(receivers[c]) \subseteq Jobs
  BY <1>1 DEF ToSet
<1>3. ASSUME \A c \in Clients : ToSet(receivers[c])' \subseteq ToSet(receivers[c]),
             \A j \in Jobs : chan'[j] = "open" /\ Somewhere(j) => Somewhere(j)',
             \A j \in Jobs : chan'[j] = "open" => chan[j] = "open"
      PROVE  NoJobLost'
  BY <1>2, <1>3 DEF Somewhere
<1>4. ASSUME NEW c \in Clients, Enqueue(c)
      PROVE  NoJobLost'
  <2> DEFINE e == Job(c)
  <2>1. UNCHANGED <<work, held, chan>>
    BY <1>4 DEF Enqueue, loopVars, workVars
  <2>2. e \in Jobs /\ idx[c] \in DOMAIN Plan[c]
    BY <1>1, NameFacts DEF TypeOK
  <2>3. Untouched(e)
    <3>1. NotSubmitted(c, idx[c])
      BY <1>4 DEF NotSubmitted, Enqueue, BeforeEnqueue
    <3> QED
      BY <3>1, <2>2, <1>1 DEF Places, FreshJobs, Job
  <2>4. PICK pos \in 1..(Len(queue) + 1) : queue' = InsertAt(queue, pos, e)
    BY <1>4 DEF Enqueue
  <2>5. receivers' = [receivers EXCEPT ![c] = Append(@, e)]
    BY <1>4 DEF Enqueue
  <2> HIDE DEF e
  <2>6. ToSet(queue') = ToSet(queue) \cup {e}
    BY <1>1, <2>2, <2>3, <2>4, InsertKeepsInjective DEF Untouched
  <2>7. ToSet(receivers'[c]) = ToSet(receivers[c]) \cup {e}
    BY <1>1, <2>2, <2>5, AppendToSet DEF TypeOK
  <2>8. \A d \in Clients : d # c => receivers'[d] = receivers[d]
    BY <1>1, <2>5 DEF TypeOK
  <2> QED
    BY <1>2, <2>1, <2>6, <2>7, <2>8 DEF InQueue, IsHeld
<1>5. ASSUME NEW c \in Clients, ClientStep(c) \/ Cancel(c), ~Enqueue(c)
      PROVE  \A d \in Clients : ToSet(receivers[d])' \subseteq ToSet(receivers[d])
  <2>0. ToSet(<<>>) = {}
    BY DEF ToSet
  <2>1. CASE Await(c)
    <3>1. receivers' = [receivers EXCEPT ![c] = Tail(@)] /\ receivers[c] # <<>>
      BY <2>1 DEF Await
    <3>2. ToSet(Tail(receivers[c])) \subseteq ToSet(receivers[c])
      BY <1>1, <3>1, TailToSet
    <3>3. receivers'[c] = Tail(receivers[c])
      BY <1>1, <3>1 DEF TypeOK
    <3>4. \A d \in Clients : d # c => receivers'[d] = receivers[d]
      BY <1>1, <3>1 DEF TypeOK
    <3> QED
      BY <3>2, <3>3, <3>4
  <2>2. CASE RefuseBatch(c) \/ Cancel(c)
    <3>1. receivers' = [receivers EXCEPT ![c] = <<>>]
      BY <2>2 DEF RefuseBatch, Cancel
    <3>2. \A d \in Clients : receivers'[d] = receivers[d] \/ receivers'[d] = <<>>
      BY <1>1, <3>1 DEF TypeOK
    <3> QED
      BY <2>0, <3>2
  <2>3. CASE ~Await(c) /\ ~RefuseBatch(c) /\ ~Cancel(c)
    <3>1. receivers' = receivers
      BY <1>5, <2>3 DEF ClientStep, Register, HasRoom, Overflow, Refuse,
         SkipInBatch, Unblock, Evict, Untrack, Ensure, SpawnLoop, StoreHandle,
         ReturnBatch, GuardDrop
    <3> QED
      BY <3>1
  <2> QED
    BY <2>1, <2>2, <2>3
<1>6. ASSUME NEW c \in Clients, ClientStep(c) \/ Cancel(c), ~Enqueue(c)
      PROVE  NoJobLost'
  <2>1. CASE Evict(c) /\ queue # <<>>
    <3> DEFINE h == Head(queue)
    <3>1. /\ queue' = Tail(queue) /\ chan' = [chan EXCEPT ![h] = "overflow"]
          /\ UNCHANGED <<work, held>>
      BY <2>1 DEF Evict, loopVars, workVars
    <3>2. Tail(queue) = RemoveAt(queue, 1) /\ h = queue[1] /\ 1 \in 1..Len(queue)
      BY <1>1, <2>1, TailIsRemoveAt
    <3>a. queue[1] \in Jobs
      BY <1>1, <3>2
    <3>b. ToSet(RemoveAt(queue, 1)) = ToSet(queue) \ {queue[1]}
      BY <1>1, <3>2, RemoveKeepsInjective
    <3>3. ToSet(queue') = ToSet(queue) \ {h} /\ h \in Jobs
      BY <3>1, <3>2, <3>a, <3>b
    <3> HIDE DEF h
    <3>4. \A j \in Jobs : chan'[j] = IF j = h THEN "overflow" ELSE chan[j]
      BY <1>1, <3>1, <3>3 DEF TypeOK
    <3>5. \A j \in Jobs : chan'[j] = "open" /\ Somewhere(j) => Somewhere(j)'
      BY <3>1, <3>3, <3>4 DEF Somewhere, InQueue, IsHeld
    <3> QED
      BY <1>3, <1>5, <1>6, <3>4, <3>5
  <2>2. CASE ~(Evict(c) /\ queue # <<>>)
    <3>1. UNCHANGED <<queue, work, chan, held>>
      BY <1>6, <2>2 DEF ClientStep, Register, HasRoom, Overflow, Refuse,
         RefuseBatch, SkipInBatch, Unblock, Evict, Untrack, Ensure, SpawnLoop,
         StoreHandle, Await, ReturnBatch, GuardDrop, Cancel, loopVars, workVars
    <3>2. \A j \in Jobs : Somewhere(j) => Somewhere(j)'
      BY <3>1 DEF Somewhere, InQueue, IsHeld
    <3> QED
      BY <1>3, <1>5, <1>6, <3>1, <3>2
  <2> QED
    BY <2>1, <2>2
<1>7. ASSUME NEW l \in Loops, Pop(l)
      PROVE  NoJobLost'
  <2>1. PICK pos \in DOMAIN queue :
          held' = [held EXCEPT ![l] = queue[pos]] /\ queue' = RemoveAt(queue, pos)
    BY <1>7 DEF Pop
  <2>2. UNCHANGED <<work, chan, receivers>> /\ held[l] = NoJob
    BY <1>1, <1>7 DEF Pop, HeldIffMark, workVars, clientVars
  <2>3. ToSet(queue') = ToSet(queue) \ {queue[pos]}
    BY <1>1, <2>1, RemoveKeepsInjective
  <2>4. \A m \in Loops : held'[m] = IF m = l THEN queue[pos] ELSE held[m]
    BY <1>1, <2>1
  <2>5. \A j \in Jobs : Somewhere(j) => Somewhere(j)'
    BY <2>2, <2>3, <2>4, ConfigFacts DEF Somewhere, InQueue, IsHeld
  <2> QED
    BY <1>3, <2>2, <2>5
<1>8. ASSUME NEW l \in Loops, Mark(l)
      PROVE  NoJobLost'
  <2>1. /\ held[l] \in Jobs
        /\ \A m \in Loops : held'[m] = IF m = l THEN NoJob ELSE held[m]
        /\ \A j \in Jobs :
             work'[j] = IF j = held[l] THEN "executing" ELSE work[j]
        /\ UNCHANGED <<queue, chan>>
    BY <1>1, <1>8, MarkFacts
  <2>2. receivers' = receivers
    BY <1>8 DEF Mark, clientVars
  <2>3. \A j \in Jobs : Somewhere(j) => Somewhere(j)'
    BY <2>1 DEF Somewhere, InQueue, IsHeld
  <2> QED
    BY <1>3, <2>1, <2>2, <2>3
<1>9. ASSUME NEW l \in Loops, LoopStep(l), ~Pop(l), ~Mark(l)
      PROVE  NoJobLost'
  <2>1. UNCHANGED <<queue, work, chan, held, receivers>>
    BY <1>9 DEF LoopStep, CheckPending, CheckActive, LoopEnds, Acquire,
       PopNothing, workVars, clientVars
  <2> QED
    BY <2>1 DEF InQueue, IsHeld
<1>10. ASSUME NEW j \in Jobs, WorkerStep(j)
       PROVE  NoJobLost'
  <2>1. UNCHANGED <<queue, held, receivers>>
    BY <1>10 DEF WorkerStep, Complete, Panic, Send, Release, loopVars, clientVars
  <2>2. /\ \A i \in Jobs : i # j => work'[i] = work[i] /\ chan'[i] = chan[i]
        /\ \/ work'[j] = "sending" /\ chan' = chan
           \/ chan'[j] # "open"
           \/ work[j] = "releasing" /\ chan' = chan
    BY <1>1, <1>10 DEF IInv, WorkerStep, Complete, Panic, Send, Release, TypeOK,
       SendingHasResult
  <2>3. work[j] # "idle"
    BY <1>10 DEF WorkerStep, Complete, Panic, Send, Release
  <2>4. ~InQueue(j) /\ ~IsHeld(j)
    BY <1>1, <2>3 DEF OnePlaceOnly
  <2>5. \A i \in Jobs : chan'[i] = "open" /\ Somewhere(i) => Somewhere(i)'
    BY <2>1, <2>2, <2>4 DEF Somewhere, InQueue, IsHeld
  <2>6. \A i \in Jobs : chan'[i] = "open" => chan[i] = "open"
    BY <1>1, <1>10 DEF WorkerStep, Complete, Panic, Send, Release, TypeOK
  <2> QED
    BY <1>3, <2>1, <2>5, <2>6
<1>11. CASE UNCHANGED vars
  BY <1>11 DEF vars, loopVars, workVars, clientVars, InQueue, IsHeld
<1> QED
  BY <1>4, <1>6, <1>7, <1>8, <1>9, <1>10, <1>11 DEF Next, AllReturned

\* A submission never waits on a channel whose job is gone: until it is answered
\* the job is queued, held by a loop or in a worker's hands.
THEOREM NoJobIsLost == Spec => []NoJobLost
<1>1. Init => NoJobLost
  <2>1. ToSet(<<>>) = {}
    BY DEF ToSet
  <2> QED
    BY <2>1 DEF Init, NoJobLost
<1> QED
  BY <1>1, NoJobLostStep, InductiveInvariant, PTL DEF Spec

-----------------------------------------------------------------------------
(* What clients see of the scheduler, whatever their plans and the            *)
(* configuration: the queue stays sorted and bounded, answers and statuses    *)
(* are true, and the scheduler is a job pool.                                 *)

\* The four ways a step can touch the queue.
QueueKept    == queue' = queue
Inserted(c)  ==
  \E pos \in 1..(Len(queue) + 1) :
    InsertHere(Job(c), pos) /\ queue' = InsertAt(queue, pos, Job(c))
Removed      == \E pos \in 1..Len(queue) : queue' = RemoveAt(queue, pos)

LEMMA QueueChanges ==
  ASSUME TypeOK, [Next]_vars
  PROVE  /\ conf' = conf
         /\ QueueKept \/ (\E c \in Clients : Enqueue(c) /\ Inserted(c)) \/ Removed
<1>1. ASSUME NEW c \in Clients, Enqueue(c)
      PROVE  conf' = conf /\ Inserted(c)
  BY <1>1 DEF Enqueue, Inserted
<1>2. ASSUME NEW c \in Clients, Evict(c)
      PROVE  conf' = conf /\ (QueueKept \/ Removed)
  <2>1. CASE queue = <<>>
    BY <1>2, <2>1 DEF Evict, QueueKept
  <2>2. CASE queue # <<>>
    <3>1. queue' = Tail(queue) /\ conf' = conf
      BY <1>2, <2>2 DEF Evict
    <3>2. Tail(queue) = RemoveAt(queue, 1) /\ 1 \in 1..Len(queue)
      BY <2>2, TailIsRemoveAt DEF TypeOK
    <3> QED
      BY <3>1, <3>2 DEF Removed
  <2> QED
    BY <2>1, <2>2
<1>3. ASSUME NEW c \in Clients, ClientStep(c) \/ Cancel(c), ~Enqueue(c), ~Evict(c)
      PROVE  conf' = conf /\ QueueKept
  BY <1>3 DEF ClientStep, Register, HasRoom, Overflow, Refuse, RefuseBatch,
     SkipInBatch, Unblock, Untrack, Ensure, SpawnLoop, StoreHandle, Await,
     ReturnBatch, GuardDrop, Cancel, QueueKept
<1>4. ASSUME NEW l \in Loops, Pop(l)
      PROVE  conf' = conf /\ Removed
  <2>1. PICK pos \in DOMAIN queue : queue' = RemoveAt(queue, pos)
    BY <1>4 DEF Pop
  <2>2. DOMAIN queue = 1..Len(queue)
    BY DEF TypeOK
  <2> QED
    BY <1>4, <2>1, <2>2 DEF Pop, Removed
<1>5. ASSUME NEW l \in Loops, LoopStep(l), ~Pop(l)
      PROVE  conf' = conf /\ QueueKept
  BY <1>5 DEF LoopStep, CheckPending, CheckActive, LoopEnds, Acquire, PopNothing,
     Mark, QueueKept
<1>6. ASSUME NEW j \in Jobs, WorkerStep(j)
      PROVE  conf' = conf /\ QueueKept
  BY <1>6 DEF WorkerStep, Complete, Panic, Send, Release, QueueKept
<1>7. CASE UNCHANGED vars
  BY <1>7 DEF vars, QueueKept
<1> QED
  BY <1>1, <1>2, <1>3, <1>4, <1>5, <1>6, <1>7 DEF Next, AllReturned, ClientStep

-----------------------------------------------------------------------------
(* Priorities. *)

\* A job is inserted before the first job of lower priority: the insertion
\* leaves a sorted queue sorted.
LEMMA InsertKeepsSorted ==
  ASSUME TypeOK, QueueSorted, NEW c \in Clients, Inserted(c), conf' = conf
  PROVE  QueueSorted'
<1> SUFFICES ASSUME conf.priorities,
                    NEW i \in DOMAIN queue', NEW k \in DOMAIN queue', i < k
             PROVE  Prio[queue'[i]] >= Prio[queue'[k]]
  BY DEF QueueSorted
<1> DEFINE j == Job(c)
<1>1. j \in Jobs /\ queue \in Seq(Jobs) /\ \A x \in Jobs : Prio[x] \in Nat
  <2>1. j \in Jobs /\ queue \in Seq(Jobs)
    BY NameFacts DEF TypeOK
  <2>2. Prio \in [Jobs -> Priorities]
    BY ConstantsAssumption, Zenon
  <2>3. \A x \in Jobs : Prio[x] \in Nat
    BY <2>2 DEF Priorities
  <2> QED
    BY <2>1, <2>3
<1>2. PICK pos \in 1..(Len(queue) + 1) :
        InsertHere(j, pos) /\ queue' = InsertAt(queue, pos, j)
  BY DEF Inserted
<1> HIDE DEF j
<1>3. /\ \A n \in 1..(pos - 1) : Prio[queue[n]] >= Prio[j]
      /\ pos <= Len(queue) => Prio[queue[pos]] < Prio[j]
  BY <1>2 DEF InsertHere
<1>4. \A n \in pos..Len(queue) : Prio[queue[n]] <= Prio[j]
  <2> SUFFICES ASSUME NEW n \in pos..Len(queue)
               PROVE  Prio[queue[n]] <= Prio[j]
    OBVIOUS
  <2>1. pos \in DOMAIN queue /\ n \in DOMAIN queue /\ pos <= n /\ pos <= Len(queue)
    BY <1>1
  <2>2. Prio[queue[pos]] \in Nat /\ Prio[queue[n]] \in Nat /\ Prio[j] \in Nat
    BY <1>1, <2>1
  <2>3. Prio[queue[n]] <= Prio[queue[pos]]
    BY <2>1, <2>2 DEF QueueSorted
  <2> QED
    BY <1>3, <2>1, <2>2, <2>3
<1>5. /\ Len(queue') = Len(queue) + 1 /\ queue' \in Seq(Jobs)
      /\ \A n \in 1..(Len(queue) + 1) :
           queue'[n] = IF n < pos THEN queue[n]
                       ELSE IF n = pos THEN j ELSE queue[n - 1]
  <2>0. j \in Jobs /\ queue \in Seq(Jobs) /\ pos \in 1..(Len(queue) + 1)
    BY <1>1, <1>2
  <2>1. /\ InsertAt(queue, pos, j) \in Seq(Jobs)
        /\ Len(InsertAt(queue, pos, j)) = Len(queue) + 1
        /\ \A n \in 1..(Len(queue) + 1) :
             InsertAt(queue, pos, j)[n] =
               IF n < pos THEN queue[n] ELSE IF n = pos THEN j ELSE queue[n - 1]
    BY <2>0, InsertAtFacts
  <2> QED
    BY <1>2, <2>1, Zenon
<1>6. i \in 1..(Len(queue) + 1) /\ k \in 1..(Len(queue) + 1) /\ Len(queue) \in Nat
  BY <1>1, <1>5
<1>7. \A m, n \in 1..Len(queue) : m < n => Prio[queue[m]] >= Prio[queue[n]]
  BY <1>1 DEF QueueSorted
<1>8. CASE k < pos
  BY <1>5, <1>6, <1>7, <1>8
<1>9. CASE k = pos
  BY <1>3, <1>5, <1>6, <1>9
<1>10. CASE i < pos /\ k > pos
  <2>1. queue'[i] = queue[i] /\ queue'[k] = queue[k - 1]
    BY <1>5, <1>6, <1>10
  <2>2. i \in 1..Len(queue) /\ k - 1 \in 1..Len(queue) /\ i < k - 1
    BY <1>6, <1>10
  <2> QED
    BY <1>7, <2>1, <2>2
<1>11. CASE i = pos /\ k > pos
  <2>1. queue'[i] = j /\ queue'[k] = queue[k - 1]
    BY <1>5, <1>6, <1>11
  <2>2. k - 1 \in pos..Len(queue) /\ k - 1 \in DOMAIN queue
    BY <1>1, <1>6, <1>11
  <2>3. Prio[queue[k - 1]] \in Nat /\ Prio[j] \in Nat
    BY <1>1, <2>2
  <2> QED
    BY <1>4, <2>1, <2>2, <2>3
<1>12. CASE i > pos /\ k > pos
  <2>1. queue'[i] = queue[i - 1] /\ queue'[k] = queue[k - 1]
    BY <1>5, <1>6, <1>12
  <2>2. i - 1 \in 1..Len(queue) /\ k - 1 \in 1..Len(queue) /\ i - 1 < k - 1
    BY <1>6, <1>12
  <2> QED
    BY <1>7, <2>1, <2>2
<1> QED
  BY <1>6, <1>8, <1>9, <1>10, <1>11, <1>12

\* Taking any job out leaves a sorted queue sorted.
LEMMA RemoveKeepsSorted ==
  ASSUME TypeOK, QueueSorted, Removed, conf' = conf
  PROVE  QueueSorted'
<1> SUFFICES ASSUME conf.priorities,
                    NEW i \in DOMAIN queue', NEW k \in DOMAIN queue', i < k
             PROVE  Prio[queue'[i]] >= Prio[queue'[k]]
  BY DEF QueueSorted
<1>1. queue \in Seq(Jobs)
  BY DEF TypeOK
<1>2. PICK pos \in 1..Len(queue) : queue' = RemoveAt(queue, pos)
  BY DEF Removed
<1>3. /\ Len(queue') = Len(queue) - 1 /\ queue' \in Seq(Jobs)
      /\ \A n \in 1..(Len(queue) - 1) :
           queue'[n] = IF n < pos THEN queue[n] ELSE queue[n + 1]
  BY <1>1, <1>2, RemoveAtFacts
<1>4. i \in 1..(Len(queue) - 1) /\ k \in 1..(Len(queue) - 1) /\ Len(queue) \in Nat
  BY <1>1, <1>3
<1>5. \A m, n \in 1..Len(queue) : m < n => Prio[queue[m]] >= Prio[queue[n]]
  BY <1>1 DEF QueueSorted
<1> DEFINE Old(n) == IF n < pos THEN n ELSE n + 1
<1>6. queue'[i] = queue[Old(i)] /\ queue'[k] = queue[Old(k)]
  BY <1>3, <1>4
<1>7. Old(i) \in 1..Len(queue) /\ Old(k) \in 1..Len(queue) /\ Old(i) < Old(k)
  BY <1>4
<1> QED
  BY <1>5, <1>6, <1>7

\* With enable_task_priorities the queue is sorted by descending priority in
\* every reachable state, whoever inserts, takes or evicts jobs.
THEOREM QueueIsSorted == Spec => []QueueSorted
<1>1. Init => QueueSorted
  BY DEF Init, QueueSorted
<1>2. TypeOK /\ QueueSorted /\ [Next]_vars => QueueSorted'
  <2> SUFFICES ASSUME TypeOK, QueueSorted, [Next]_vars
               PROVE  QueueSorted'
    OBVIOUS
  <2>1. CASE QueueKept
    BY <2>1, QueueChanges DEF QueueSorted, QueueKept
  <2>2. ASSUME NEW c \in Clients, Inserted(c)
        PROVE  QueueSorted'
    BY <2>2, QueueChanges, InsertKeepsSorted
  <2>3. CASE Removed
    BY <2>3, QueueChanges, RemoveKeepsSorted
  <2> QED
    BY <2>1, <2>2, <2>3, QueueChanges
<1> QED
  BY <1>1, <1>2, TypeCorrect, PTL DEF Spec

-----------------------------------------------------------------------------
(* The bound. *)

\* The number of jobs a step adds to or takes from the queue.
LEMMA QueueLengths ==
  ASSUME TypeOK, [Next]_vars
  PROVE  /\ QueueKept => Len(queue') = Len(queue)
         /\ \A c \in Clients : Inserted(c) => Len(queue') = Len(queue) + 1
         /\ Removed => Len(queue') = Len(queue) - 1 /\ Len(queue) > 0
         /\ Len(queue) \in Nat
<1>1. queue \in Seq(Jobs)
  BY DEF TypeOK
<1>2. ASSUME NEW c \in Clients, Inserted(c)
      PROVE  Len(queue') = Len(queue) + 1
  <2>1. PICK pos \in 1..(Len(queue) + 1) : queue' = InsertAt(queue, pos, Job(c))
    BY <1>2 DEF Inserted
  <2>2. Job(c) \in Jobs
    BY NameFacts
  <2>3. Len(InsertAt(queue, pos, Job(c))) = Len(queue) + 1
    BY <1>1, <2>2, InsertAtFacts, Zenon
  <2> QED
    BY <2>1, <2>3
<1>3. ASSUME Removed
      PROVE  Len(queue') = Len(queue) - 1 /\ Len(queue) > 0
  <2>1. PICK pos \in 1..Len(queue) : queue' = RemoveAt(queue, pos)
    BY <1>3 DEF Removed
  <2>2. Len(RemoveAt(queue, pos)) = Len(queue) - 1
    BY <1>1, RemoveAtFacts
  <2> QED
    BY <1>1, <2>1, <2>2
<1> QED
  BY <1>1, <1>2, <1>3 DEF QueueKept

\* What a step of one client does to PastCheck and to the queue.
LEMMA ClientPastCheck ==
  ASSUME TypeOK, NEW c \in Clients, ClientStep(c) \/ Cancel(c),
         conf.strategy # "Expand"
  PROVE  \/ PastCheck' \subseteq PastCheck /\ ~Enqueue(c) /\ ~(Evict(c) /\ queue # <<>>)
         \/ PastCheck' = PastCheck \ {c} /\ c \in PastCheck /\ Enqueue(c)
         \/ Len(queue') < QueueCap
         \/ /\ PastCheck' = PastCheck \cup {c} /\ c \notin PastCheck
            /\ queue # <<>> /\ queue' = Tail(queue)
<1> USE DEF PastCheck, Goto
<1>0. \A d \in Clients : d # c => cpc'[d] = cpc[d]
  BY DEF TypeOK, ClientStep, Register, HasRoom, Overflow, Refuse, RefuseBatch,
     SkipInBatch, Unblock, Evict, Untrack, Enqueue, Ensure, SpawnLoop, StoreHandle,
     Await, ReturnBatch, GuardDrop, Cancel, NextJob
<1>1. CASE HasRoom(c) \/ Unblock(c)
  <2>1. Len(queue) \in Nat /\ QueueCap \in Nat
    BY ConfigFacts DEF TypeOK
  <2> QED
    BY <1>1, <2>1 DEF HasRoom, Unblock, Full
<1>2. CASE Evict(c) /\ queue = <<>>
  <2>1. queue' = <<>>
    BY <1>2 DEF Evict
  <2> QED
    BY <2>1, ConfigFacts
<1>3. CASE Evict(c) /\ queue # <<>>
  BY <1>0, <1>3 DEF Evict, TypeOK
<1>4. CASE Enqueue(c)
  <2>1. cpc[c] = "enqueue" /\ cpc'[c] \in {"ensure", "register"}
    BY <1>4 DEF Enqueue, NextJob, TypeOK
  <2> QED
    BY <1>0, <1>4, <2>1
<1>5. CASE Untrack(c)
  <2>1. cpc[c] = "untrack" /\ cpc'[c] = "enqueue"
    BY <1>5 DEF Untrack, TypeOK
  <2> QED
    BY <1>0, <1>5, <2>1 DEF Enqueue, Evict
<1>6. CASE ~HasRoom(c) /\ ~Unblock(c) /\ ~Evict(c) /\ ~Enqueue(c) /\ ~Untrack(c)
  <2>1. cpc'[c] \notin {"untrack", "enqueue"}
    BY <1>6 DEF TypeOK, ClientStep, Register, Overflow, Refuse, RefuseBatch,
       SkipInBatch, Ensure, SpawnLoop, StoreHandle, Await, ReturnBatch, GuardDrop,
       Cancel, NextJob
  <2> QED
    BY <1>0, <1>6, <2>1
<1> QED
  BY <1>1, <1>2, <1>3, <1>4, <1>5, <1>6

\* Only clients move themselves past the size check.
LEMMA OthersPastCheck ==
  ASSUME TypeOK, [Next]_vars, ~\E c \in Clients : ClientStep(c) \/ Cancel(c)
  PROVE  PastCheck' = PastCheck
  BY DEF Next, AllReturned, LoopStep, CheckPending, CheckActive, LoopEnds, Acquire,
     Pop, PopNothing, Mark, WorkerStep, Complete, Panic, Send, Release, vars,
     clientVars, PastCheck

LEMMA PastCheckSize ==
  /\ IsFiniteSet(PastCheck) /\ Cardinality(PastCheck) \in Nat
  /\ Cardinality(Clients) \in Nat
  /\ Cardinality(PastCheck) <= Cardinality(Clients)
<1>1. PastCheck \subseteq Clients
  BY DEF PastCheck
<1> QED
  BY <1>1, ConfigFacts, FS_Subset, FS_CardinalityType

\* Enqueue is the only insertion.
LEMMA OnlyEnqueueInserts ==
  ASSUME TypeOK, [Next]_vars, ~\E c \in Clients : Enqueue(c)
  PROVE  QueueKept \/ Removed
  BY QueueChanges

\* Without Expand, the queue holds at most task_queue_size - 1 jobs more than
\* there are clients not yet past their size check: the overshoot that comes from
\* checking the size and pushing the job under separate locks is bounded by the
\* number of concurrent submissions.
THEOREM QueueIsBounded == Spec => []QueueBounded
<1>1. Init => QueueBounded
  <2> SUFFICES ASSUME Init PROVE QueueBounded
    OBVIOUS
  <2>1. Len(queue) = 0
    BY DEF Init
  <2> QED
    BY <2>1, PastCheckSize, ConfigFacts DEF QueueBounded
<1>2. TypeOK /\ QueueBounded /\ [Next]_vars => QueueBounded'
  <2> SUFFICES ASSUME TypeOK, QueueBounded, [Next]_vars, conf.strategy # "Expand"
               PROVE  Len(queue') + Cardinality(PastCheck')
                        <= (QueueCap - 1) + Cardinality(Clients)
    BY QueueChanges DEF QueueBounded
  <2>0. PastCheck' \subseteq Clients
    BY DEF PastCheck
  <2>a. Cardinality(PastCheck') \in Nat /\ Cardinality(PastCheck') <= Cardinality(Clients)
    BY <2>0, ConfigFacts, FS_Subset, FS_CardinalityType
  <2>b. Len(queue) + Cardinality(PastCheck) <= (QueueCap - 1) + Cardinality(Clients)
    BY DEF QueueBounded
  <2>c. QueueCap \in Nat \ {0} /\ Len(queue) \in Nat
    BY ConfigFacts, QueueLengths
  <2>1. CASE ~\E c \in Clients : ClientStep(c) \/ Cancel(c)
    <3>1. PastCheck' = PastCheck
      BY <2>1, OthersPastCheck
    <3>2. Len(queue') <= Len(queue) /\ Len(queue') \in Nat
      BY <2>1, OnlyEnqueueInserts, QueueLengths DEF ClientStep
    <3> QED
      BY <3>1, <3>2, <2>b, <2>c, PastCheckSize
  <2>2. ASSUME NEW c \in Clients, ClientStep(c) \/ Cancel(c)
        PROVE  Len(queue') + Cardinality(PastCheck')
                 <= (QueueCap - 1) + Cardinality(Clients)
    <3>1. CASE PastCheck' \subseteq PastCheck /\ ~Enqueue(c) /\ ~(Evict(c) /\ queue # <<>>)
      <4>1. Cardinality(PastCheck') <= Cardinality(PastCheck)
        BY <3>1, PastCheckSize, FS_Subset
      <4>2. queue' = queue
        BY <2>2, <3>1 DEF ClientStep, Register, HasRoom, Overflow, Refuse, RefuseBatch,
           SkipInBatch, Unblock, Evict, Untrack, Ensure, SpawnLoop, StoreHandle,
           Await, ReturnBatch, GuardDrop, Cancel
      <4> QED
        BY <4>1, <4>2, <2>a, <2>b, <2>c, PastCheckSize
    <3>2. CASE PastCheck' = PastCheck \ {c} /\ c \in PastCheck /\ Enqueue(c)
      <4>1. Cardinality(PastCheck') = Cardinality(PastCheck) - 1
        BY <3>2, PastCheckSize, FS_RemoveElement
      <4>2. Inserted(c)
        BY <3>2 DEF Enqueue, Inserted
      <4>3. Len(queue') = Len(queue) + 1
        BY <4>2, QueueLengths
      <4> QED
        BY <4>1, <4>3, <2>a, <2>b, <2>c, PastCheckSize
    <3>3. CASE Len(queue') < QueueCap
      <4>1. Len(queue') \in Nat
        BY <2>2, ClientTypes DEF TypeOK
      <4> QED
        BY <3>3, <4>1, <2>a, <2>c, PastCheckSize
    <3>4. CASE /\ PastCheck' = PastCheck \cup {c} /\ c \notin PastCheck
               /\ queue # <<>> /\ queue' = Tail(queue)
      <4>1. Cardinality(PastCheck') = Cardinality(PastCheck) + 1
        BY <3>4, PastCheckSize, FS_AddElement
      <4>2. Len(queue') = Len(queue) - 1
        BY <3>4 DEF TypeOK
      <4> QED
        BY <4>1, <4>2, <2>a, <2>b, <2>c, PastCheckSize
    <3> QED
      BY <2>2, <3>1, <3>2, <3>3, <3>4, ClientPastCheck
  <2> QED
    BY <2>1, <2>2
<1> QED
  BY <1>1, <1>2, TypeCorrect, PTL DEF Spec

\* The queue is bounded and sorted in every reachable state.
THEOREM QueueIsSound == Spec => []QueueSound
<1>1. QueueBounded /\ QueueSorted => QueueSound
  BY DEF QueueSound
<1> QED
  BY <1>1, QueueIsBounded, QueueIsSorted, PTL

-----------------------------------------------------------------------------
(* What a submission holds and has been told. *)

Registered == {"checkSize", "blocked", "evict", "untrack", "enqueue"}
Waiting    == {"ensure", "spawn", "store", "await"}
Executed   == {"releasing", "finished"}

\* A single submission waits for the job at idx; it has one answer for each job
\* before it.
SingleAccount(c) ==
  /\ Len(got[c]) = IF cpc[c] \in {"leaving", "done"} THEN idx[c] ELSE idx[c] - 1
  /\ receivers[c] = IF cpc[c] \in Waiting THEN <<Job(c)>> ELSE <<>>

\* How many jobs of a batch have been dealt with.
Passed(c) == IF cpc[c] \in BeforeEnqueue THEN idx[c] - 1 ELSE idx[c]

\* No job of the batch has been skipped.
NoneSkipped(c) == Len(got[c]) + Len(receivers[c]) = Passed(c)

\* The receivers of a batch are of jobs enqueued; as long as none was skipped they
\* are the jobs that follow those answered, in the order of the plan.
BatchAccount(c) ==
  /\ cpc[c] # "leaving"
  /\ Len(got[c]) <= idx[c]
  /\ cpc[c] \notin {"await", "done"} => got[c] = <<>>
  /\ cpc[c] = "done" => receivers[c] = <<>>
  /\ cpc[c] # "done" =>
       /\ Len(got[c]) + Len(receivers[c]) <= Passed(c)
       /\ Ordered(c) => NoneSkipped(c)
       /\ NoneSkipped(c) => \A i \in 1..Len(receivers[c]) :
            receivers[c][i] = Plan[c][Len(got[c]) + i]

Accounts ==
  \A c \in Clients : IF IsBatch[c] THEN BatchAccount(c) ELSE SingleAccount(c)

\* What job j is told, or its submitter is told of it, is true and stays true.
Honest(j, answer) ==
  /\ answer \in {"success", "failed"} => result[j] = answer /\ work[j] \in Executed
  /\ answer = "closed" => result[j] = "none" /\ work[j] \in Executed

Channels ==
  \A j \in Jobs :
    /\ Honest(j, chan[j])
    /\ work[j] \in {"idle", "executing"} => result[j] = "none"

\* Job j has not been started.
NeverRan(j) == work[j] = "idle" /\ ~InQueue(j) /\ ~IsHeld(j)

Told ==
  \A c \in Clients : Ordered(c) => \A k \in DOMAIN got[c] :
    /\ Honest(Plan[c][k], got[c][k])
    /\ got[c][k] \in {"overflow", "rejected"} => NeverRan(Plan[c][k])

AnswerInv == Accounts /\ Channels /\ Told

LEMMA ClientFrame ==
  ASSUME TypeOK, NEW c \in Clients, ClientStep(c) \/ Cancel(c),
         NEW d \in Clients, d # c
  PROVE  /\ cpc'[d] = cpc[d] /\ idx'[d] = idx[d]
         /\ got'[d] = got[d] /\ receivers'[d] = receivers[d]
<1>1. CASE Register(c) \/ HasRoom(c) \/ Overflow(c) \/ Refuse(c) \/ RefuseBatch(c)
  BY <1>1 DEF Register, HasRoom, Overflow, Refuse, RefuseBatch, Goto, TypeOK
<1>2. CASE SkipInBatch(c) \/ Unblock(c) \/ Evict(c) \/ Untrack(c)
  BY <1>2 DEF SkipInBatch, Unblock, Evict, Untrack, NextJob, Goto, TypeOK
<1>3. CASE Enqueue(c)
  BY <1>3 DEF Enqueue, NextJob, Goto, TypeOK
<1>4. CASE Ensure(c) \/ SpawnLoop(c) \/ StoreHandle(c) \/ ReturnBatch(c)
  BY <1>4 DEF Ensure, SpawnLoop, StoreHandle, ReturnBatch, Goto, TypeOK
<1>5. CASE Await(c)
  BY <1>5 DEF Await, NextJob, Goto, TypeOK
<1>6. CASE GuardDrop(c)
  BY <1>6 DEF GuardDrop, NextJob, Goto, TypeOK
<1>7. CASE Cancel(c)
  BY <1>7 DEF Cancel, NextJob, Goto, TypeOK
<1> QED
  BY <1>1, <1>2, <1>3, <1>4, <1>5, <1>6, <1>7 DEF ClientStep

\* The steps of loops and workers leave clients alone.
LEMMA OthersFrame ==
  ASSUME NEW x, (x \in Loops /\ LoopStep(x)) \/ (x \in Jobs /\ WorkerStep(x))
  PROVE  UNCHANGED <<conf, cpc, idx, evicted, receivers, got>>
<1>1. CASE x \in Loops /\ LoopStep(x)
  BY <1>1 DEF LoopStep, CheckPending, CheckActive, LoopEnds, Acquire, Pop,
     PopNothing, Mark, clientVars
<1>2. CASE x \in Jobs /\ WorkerStep(x)
  BY <1>2 DEF WorkerStep, Complete, Panic, Send, Release, clientVars
<1> QED
  BY <1>1, <1>2

LEMMA ClientSeqs ==
  ASSUME TypeOK, NEW c \in Clients
  PROVE  /\ got[c] \in Seq(Returned) /\ Len(got[c]) \in Nat
         /\ receivers[c] \in Seq(Jobs) /\ Len(receivers[c]) \in Nat
         /\ idx[c] \in Nat /\ idx[c] >= 1 /\ idx[c] <= Len(Plan[c])
         /\ Len(Plan[c]) \in Nat
         /\ DOMAIN got[c] = 1..Len(got[c])
  BY PlanFacts DEF TypeOK

\* A single submission's step keeps its account.
LEMMA SingleStep ==
  ASSUME TypeOK, NEW c \in Clients, ~IsBatch[c], SingleAccount(c),
         ClientStep(c) \/ Cancel(c)
  PROVE  SingleAccount(c)'
<1> DEFINE g == got[c]  r == receivers[c]  i == idx[c]
<1>0. g \in Seq(Returned) /\ Len(g) \in Nat /\ r \in Seq(Jobs) /\ i \in Nat
  BY ClientSeqs
<1>1. CASE Register(c) \/ HasRoom(c) \/ Overflow(c) \/ Unblock(c) \/ Evict(c) \/ Untrack(c)
  BY <1>1 DEF Register, HasRoom, Overflow, Unblock, Evict, Untrack, Goto, TypeOK,
     SingleAccount, Waiting, Job
<1>2. CASE Refuse(c)
  <2>1. /\ got'[c] = Append(g, IF conf.strategy = "Reject" THEN "rejected" ELSE "overflow")
        /\ cpc'[c] = "leaving" /\ idx' = idx /\ receivers' = receivers /\ cpc[c] = "checkSize"
    BY <1>2 DEF Refuse, Goto, TypeOK
  <2>2. Len(got'[c]) = Len(g) + 1
    BY <1>0, <2>1
  <2> QED
    BY <1>0, <2>1, <2>2 DEF SingleAccount, Waiting
<1>3. CASE Enqueue(c)
  <2>1. /\ receivers'[c] = Append(r, Job(c)) /\ cpc'[c] = "ensure"
        /\ idx' = idx /\ got' = got /\ cpc[c] = "enqueue"
    BY <1>3 DEF Enqueue, Goto, TypeOK
  <2>2. r = <<>> /\ Job(c) \in Jobs
    BY <2>1, NameFacts DEF SingleAccount, Waiting
  <2>3. receivers'[c] = <<Job(c)>> /\ Job(c)' = Job(c)
    BY <2>1, <2>2 DEF Job
  <2> QED
    BY <2>1, <2>3 DEF SingleAccount, Waiting
<1>4. CASE Ensure(c) \/ SpawnLoop(c) \/ StoreHandle(c)
  BY <1>4 DEF Ensure, SpawnLoop, StoreHandle, Goto, TypeOK, SingleAccount, Waiting, Job
<1>5. ASSUME r' = <<>>, Len(g') = i, NextJob(c, "done")
      PROVE  SingleAccount(c)'
  <2>1. CASE AtLast(c)
    <3>1. idx'[c] = i /\ cpc'[c] = "done"
      BY <1>5, <2>1 DEF NextJob, Goto, TypeOK
    <3> QED
      BY <1>5, <3>1 DEF SingleAccount, Waiting
  <2>2. CASE ~AtLast(c)
    <3>1. idx'[c] = i + 1 /\ cpc'[c] = "register"
      BY <1>5, <2>2 DEF NextJob, Goto, TypeOK
    <3> QED
      BY <1>0, <1>5, <3>1 DEF SingleAccount, Waiting
  <2> QED
    BY <2>1, <2>2
<1>6. CASE Await(c)
  <2>1. cpc[c] = "await" /\ got'[c] = Append(g, chan[Head(r)]) /\ receivers'[c] = Tail(r)
    BY <1>6 DEF Await, TypeOK
  <2>2. r = <<Job(c)>> /\ Len(g) = i - 1
    BY <2>1 DEF SingleAccount, Waiting
  <2>3. Tail(r) = <<>> /\ Len(got'[c]) = i
    BY <1>0, <2>1, <2>2
  <2>4. NextJob(c, "done")
    BY <1>6 DEF Await
  <2> QED
    BY <1>5, <2>1, <2>3, <2>4
<1>7. CASE GuardDrop(c)
  <2>1. cpc[c] = "leaving" /\ got' = got /\ receivers' = receivers /\ NextJob(c, "done")
    BY <1>7 DEF GuardDrop
  <2> QED
    BY <1>5, <2>1 DEF SingleAccount, Waiting
<1>8. CASE Cancel(c)
  <2>1. /\ cpc[c] \in {"blocked", "await"} /\ got'[c] = Append(g, "cancelled")
        /\ receivers'[c] = <<>> /\ NextJob(c, "done")
    BY <1>8 DEF Cancel, TypeOK
  <2>2. Len(g) = i - 1 /\ Len(got'[c]) = Len(g) + 1
    BY <1>0, <2>1 DEF SingleAccount
  <2> QED
    BY <1>0, <1>5, <2>1, <2>2
<1>9. ~RefuseBatch(c) /\ ~SkipInBatch(c) /\ ~ReturnBatch(c)
  BY DEF RefuseBatch, SkipInBatch, ReturnBatch, SingleAccount, Waiting
<1> QED
  BY <1>1, <1>2, <1>3, <1>4, <1>6, <1>7, <1>8, <1>9 DEF ClientStep

\* So does a step of a batch, in which a job once skipped stays skipped.
LEMMA BatchStep ==
  ASSUME TypeOK, NEW c \in Clients, IsBatch[c], BatchAccount(c), conf' = conf,
         ClientStep(c) \/ Cancel(c)
  PROVE  /\ BatchAccount(c)'
         /\ cpc'[c] # "done" /\ NoneSkipped(c)' => NoneSkipped(c)
<1> DEFINE g == got[c]  r == receivers[c]  i == idx[c]  n == Len(g) + Len(r)
<1>0. /\ g \in Seq(Returned) /\ Len(g) \in Nat /\ r \in Seq(Jobs) /\ Len(r) \in Nat
      /\ i \in Nat /\ i >= 1
  BY ClientSeqs
<1>n. Len(g) \in Nat /\ Len(r) \in Nat /\ i \in Nat
  BY <1>0
<1>a. NoneSkipped(c) <=> n = Passed(c)
  BY DEF NoneSkipped
<1>b. BatchAccount(c) <=>
        /\ cpc[c] # "leaving"
        /\ Len(g) <= i
        /\ cpc[c] \notin {"await", "done"} => g = <<>>
        /\ cpc[c] = "done" => r = <<>>
        /\ cpc[c] # "done" =>
             /\ n <= Passed(c)
             /\ Ordered(c) => NoneSkipped(c)
             /\ NoneSkipped(c) => \A k \in 1..Len(r) : r[k] = Plan[c][Len(g) + k]
  BY DEF BatchAccount
<1>c. NoneSkipped(c)' <=> n' = Passed(c)'
  BY DEF NoneSkipped
<1>d. BatchAccount(c)' <=>
        /\ cpc'[c] # "leaving"
        /\ Len(g') <= i'
        /\ cpc'[c] \notin {"await", "done"} => g' = <<>>
        /\ cpc'[c] = "done" => r' = <<>>
        /\ cpc'[c] # "done" =>
             /\ n' <= Passed(c)'
             /\ Ordered(c)' => NoneSkipped(c)'
             /\ NoneSkipped(c)' => \A k \in 1..Len(r') : r'[k] = Plan[c][Len(g') + k]
  BY DEF BatchAccount
<1>e. /\ cpc[c] \in BeforeEnqueue => Passed(c) = i - 1
      /\ cpc[c] \notin BeforeEnqueue => Passed(c) = i
      /\ cpc'[c] \in BeforeEnqueue => Passed(c)' = i' - 1
      /\ cpc'[c] \notin BeforeEnqueue => Passed(c)' = i'
  BY DEF Passed
<1>f. /\ got' = got => g' = g
      /\ receivers' = receivers => r' = r
      /\ idx' = idx => i' = i
  OBVIOUS
<1>j. Job(c) = Plan[c][i] /\ Job(c) \in Jobs
  BY NameFacts DEF Job
<1>o. Ordered(c)' = Ordered(c)
  BY DEF Ordered
<1> HIDE DEF g, r, i
<1> USE DEF BeforeEnqueue
<1>1. CASE Register(c) \/ HasRoom(c) \/ Overflow(c) \/ Unblock(c) \/ Evict(c) \/ Untrack(c)
  <2>1. /\ got' = got /\ receivers' = receivers /\ idx' = idx
        /\ cpc[c] \in BeforeEnqueue /\ cpc'[c] \in BeforeEnqueue
    BY <1>1 DEF Register, HasRoom, Overflow, Unblock, Evict, Untrack, Goto, TypeOK
  <2>2. g' = g /\ r' = r /\ i' = i /\ Passed(c)' = Passed(c)
    BY <1>e, <1>f, <2>1
  <2> QED
    BY <1>a, <1>b, <1>c, <1>d, <1>o, <2>1, <2>2
<1>2. CASE RefuseBatch(c)
  <2>1. /\ got' = got /\ receivers'[c] = <<>> /\ idx' = idx /\ cpc'[c] = "done"
    BY <1>2 DEF RefuseBatch, Goto, TypeOK
  <2>2. g' = g /\ r' = <<>> /\ i' = i
    BY <1>f, <2>1 DEF r
  <2> QED
    BY <1>b, <1>d, <2>1, <2>2
<1>3. CASE SkipInBatch(c)
  <2>1. got' = got /\ receivers' = receivers /\ cpc[c] = "checkSize" /\ ~Ordered(c)
    BY <1>3 DEF SkipInBatch, Ordered
  <2>2. \/ idx'[c] = idx[c] /\ cpc'[c] = "ensure"
        \/ idx'[c] = idx[c] + 1 /\ cpc'[c] = "register"
    BY <1>3 DEF SkipInBatch, NextJob, Goto, TypeOK
  <2>3. g' = g /\ r' = r /\ Passed(c)' = i /\ Passed(c) = i - 1 /\ i' \in {i, i + 1}
    BY <1>n, <1>e, <1>f, <2>1, <2>2 DEF i
  <2>4. n' = n /\ n <= i - 1 /\ n \in Nat
    BY <1>n, <1>b, <2>1, <2>3
  <2>5. ~NoneSkipped(c)' /\ n' <= Passed(c)' /\ Len(g) <= i'
    BY <1>n, <1>b, <1>c, <2>3, <2>4
  <2> QED
    BY <1>b, <1>d, <1>o, <2>1, <2>2, <2>3, <2>5
<1>4. CASE Enqueue(c)
  <2>1. got' = got /\ receivers'[c] = Append(receivers[c], Job(c)) /\ cpc[c] = "enqueue"
    BY <1>4 DEF Enqueue, TypeOK
  <2>2. \/ idx'[c] = idx[c] /\ cpc'[c] = "ensure"
        \/ idx'[c] = idx[c] + 1 /\ cpc'[c] = "register"
    BY <1>4 DEF Enqueue, NextJob, Goto, TypeOK
  <2>3. /\ g' = g /\ r' = Append(r, Job(c)) /\ Passed(c)' = i /\ Passed(c) = i - 1
        /\ i' \in {i, i + 1}
    <3>1. r' = Append(r, Job(c))
      BY <2>1 DEF r
    <3>2. (i' = i /\ cpc'[c] = "ensure") \/ (i' = i + 1 /\ cpc'[c] = "register")
      BY <2>2 DEF i
    <3> QED
      BY <1>n, <1>e, <1>f, <2>1, <3>1, <3>2
  <2>4. /\ Len(r') = Len(r) + 1
        /\ \A k \in 1..Len(r) : r'[k] = r[k]
        /\ r'[Len(r) + 1] = Plan[c][i]
    BY <1>0, <1>j, <2>3
  <2>5. n' = n + 1 /\ n <= i - 1 /\ n \in Nat
    BY <1>n, <1>b, <2>1, <2>3, <2>4
  <2>6. (NoneSkipped(c)' <=> NoneSkipped(c)) /\ n' <= Passed(c)' /\ Len(g) <= i'
    BY <1>n, <1>a, <1>b, <1>c, <2>3, <2>5
  <2>7. ASSUME NoneSkipped(c)
        PROVE  \A k \in 1..Len(r') : r'[k] = Plan[c][Len(g) + k]
    <3>1. \A k \in 1..Len(r) : r[k] = Plan[c][Len(g) + k]
      BY <2>7, <2>1, <1>b
    <3>2. Len(g) + (Len(r) + 1) = i
      BY <1>n, <1>a, <2>7, <2>3
    <3> QED
      BY <1>n, <2>4, <3>1, <3>2
  <2> QED
    BY <1>b, <1>d, <1>o, <2>1, <2>2, <2>3, <2>6, <2>7
<1>5. CASE Ensure(c) \/ SpawnLoop(c) \/ StoreHandle(c)
  <2>1. /\ got' = got /\ receivers' = receivers /\ idx' = idx
        /\ cpc[c] \in {"ensure", "spawn", "store"} /\ cpc'[c] \in {"spawn", "store", "await"}
    BY <1>5 DEF Ensure, SpawnLoop, StoreHandle, Goto, TypeOK
  <2>2. g' = g /\ r' = r /\ i' = i /\ Passed(c)' = Passed(c)
    BY <1>e, <1>f, <2>1
  <2> QED
    BY <1>a, <1>b, <1>c, <1>d, <1>o, <2>1, <2>2
<1>6. CASE Await(c)
  <2>1. /\ cpc[c] = "await" /\ got'[c] = Append(got[c], chan[Head(receivers[c])])
        /\ receivers'[c] = Tail(receivers[c])
        /\ receivers[c] # <<>> /\ cpc' = cpc /\ idx' = idx
    BY <1>6 DEF Await, TypeOK
  <2>2. r # <<>> /\ r' = Tail(r) /\ g' = Append(g, chan[Head(r)]) /\ i' = i
    BY <1>f, <2>1 DEF g, r
  <2>3. /\ Len(g') = Len(g) + 1 /\ Len(r') = Len(r) - 1
        /\ \A k \in 1..Len(r') : r'[k] = r[k + 1]
        /\ Len(r) >= 1
    BY <1>0, <2>2, HeadTailProperties
  <2>4. Passed(c)' = i /\ Passed(c) = i
    BY <1>e, <2>1, <2>2
  <2>5. n' = n /\ n <= i /\ Len(g) + 1 <= i
    BY <1>n, <1>b, <2>1, <2>3, <2>4
  <2>6. (NoneSkipped(c)' <=> NoneSkipped(c)) /\ n' <= Passed(c)' /\ Len(g') <= i'
    BY <1>a, <1>c, <2>2, <2>3, <2>4, <2>5
  <2>7. ASSUME NoneSkipped(c), NEW k \in 1..Len(r')
        PROVE  r'[k] = Plan[c][Len(g') + k]
    <3>1. k \in Nat /\ k + 1 \in 1..Len(r) /\ Len(g) + (k + 1) = Len(g') + k
      <4>1. k \in Nat /\ k <= Len(r) - 1
        BY <1>n, <2>3
      <4>2. k + 1 \in 1..Len(r)
        BY <1>n, <4>1
      <4>3. Len(g) + (k + 1) = Len(g') + k
        <5>1. \A x, y \in Nat : x + (y + 1) = (x + 1) + y
          OBVIOUS
        <5> QED
          BY <5>1, <1>n, <2>3, <4>1
      <4> QED
        BY <4>1, <4>2, <4>3
    <3>2. r[k + 1] = Plan[c][Len(g) + (k + 1)]
      BY <3>1, <2>7, <2>1, <1>b
    <3> QED
      BY <2>3, <3>1, <3>2
  <2> QED
    BY <1>b, <1>d, <1>o, <2>1, <2>6, <2>7
<1>7. CASE ReturnBatch(c)
  <2>1. /\ got' = got /\ receivers' = receivers /\ idx' = idx /\ cpc'[c] = "done"
        /\ receivers[c] = <<>>
    BY <1>7 DEF ReturnBatch, Goto, TypeOK
  <2>2. g' = g /\ r' = <<>> /\ i' = i
    BY <1>f, <2>1 DEF r
  <2> QED
    BY <1>b, <1>d, <2>1, <2>2
<1>8. CASE Cancel(c)
  <2>1. /\ cpc[c] = "blocked" \/ (cpc[c] = "await" /\ receivers[c] # <<>>)
        /\ got'[c] = Append(got[c], "cancelled") /\ idx' = idx
        /\ receivers'[c] = <<>> /\ cpc'[c] = "done"
    BY <1>8 DEF Cancel, Goto, TypeOK
  <2>2. g' = Append(g, "cancelled") /\ r' = <<>> /\ i' = i
    BY <1>f, <2>1 DEF g, r
  <2>3. Len(g') = Len(g) + 1
    BY <1>0, <2>2
  <2>4. Len(g) + 1 <= i
    <3>1. CASE cpc[c] = "blocked"
      BY <3>1, <1>0, <1>b
    <3>2. CASE cpc[c] = "await" /\ r # <<>>
      <4>1. Len(r) >= 1 /\ n <= i
        BY <3>2, <1>0, <1>b, <1>e
      <4> QED
        BY <4>1, <1>n
    <3> QED
      BY <2>1, <3>1, <3>2 DEF r
  <2> QED
    BY <1>d, <2>1, <2>2, <2>3, <2>4
<1>9. ~Refuse(c) /\ ~GuardDrop(c)
  BY DEF Refuse, GuardDrop, BatchAccount
<1> QED
  BY <1>1, <1>2, <1>3, <1>4, <1>5, <1>6, <1>7, <1>8, <1>9 DEF ClientStep

LEMMA AccountsStep ==
  ASSUME TypeOK, Accounts, [Next]_vars
  PROVE  Accounts'
<1>c. conf' = conf
  BY QueueChanges
<1>1. ASSUME NEW d \in Clients, cpc'[d] = cpc[d], idx'[d] = idx[d], got'[d] = got[d],
             receivers'[d] = receivers[d]
      PROVE  IF IsBatch[d] THEN BatchAccount(d)' ELSE SingleAccount(d)'
  BY <1>1, <1>c DEF Accounts, BatchAccount, SingleAccount, Passed, NoneSkipped, Ordered, Job
<1>2. ASSUME NEW c \in Clients, ClientStep(c) \/ Cancel(c)
      PROVE  Accounts'
  <2> SUFFICES ASSUME NEW d \in Clients
               PROVE  IF IsBatch[d] THEN BatchAccount(d)' ELSE SingleAccount(d)'
    BY DEF Accounts
  <2>1. CASE d # c
    BY <1>1, <1>2, <2>1, ClientFrame
  <2>2. CASE d = c
    BY <1>2, <2>2, <1>c, SingleStep, BatchStep DEF Accounts
  <2> QED
    BY <2>1, <2>2
<1>3. CASE UNCHANGED <<cpc, idx, receivers, got>>
  <2>1. \A d \in Clients : IF IsBatch[d] THEN BatchAccount(d)' ELSE SingleAccount(d)'
    BY <1>1, <1>3
  <2> QED
    BY <2>1 DEF Accounts
<1> QED
  BY <1>2, <1>3, OthersFrame DEF Next, AllReturned, vars, clientVars

LEMMA InvFacts ==
  ASSUME IInv
  PROVE  TypeOK /\ SendingHasResult /\ Places /\ OnePlaceOnly
  BY DEF IInv, Places

\* How a step can change what a job did.
LEMMA WorkChanges ==
  ASSUME IInv, [Next]_vars, NEW j \in Jobs
  PROVE  \/ work'[j] = work[j] /\ result'[j] = result[j]
         \/ /\ work[j] = "idle" /\ work'[j] = "executing" /\ result'[j] = result[j]
            /\ IsHeld(j)
         \/ work[j] = "executing" /\ work'[j] = "sending"
         \/ /\ work[j] \in {"executing", "sending", "releasing"}
            /\ work'[j] \in Executed /\ result'[j] = result[j]
<1>0. TypeOK /\ Places
  BY InvFacts
<1>1. ASSUME NEW c \in Clients, ClientStep(c) \/ Cancel(c)
      PROVE  work' = work /\ result' = result
  BY <1>1 DEF ClientStep, Register, HasRoom, Overflow, Refuse, RefuseBatch,
     SkipInBatch, Unblock, Evict, Untrack, Enqueue, Ensure, SpawnLoop,
     StoreHandle, Await, ReturnBatch, GuardDrop, Cancel, workVars
<1>2. ASSUME NEW l \in Loops, LoopStep(l)
      PROVE  \/ work'[j] = work[j] /\ result'[j] = result[j]
             \/ /\ work[j] = "idle" /\ work'[j] = "executing" /\ result'[j] = result[j]
                /\ IsHeld(j)
  <2>1. CASE Mark(l)
    <3>1. /\ work[held[l]] = "idle"
          /\ work'[j] = IF j = held[l] THEN "executing" ELSE work[j]
      BY <1>0, <2>1, MarkFacts
    <3>2. result' = result
      BY <2>1 DEF Mark
    <3> QED
      BY <3>1, <3>2 DEF IsHeld
  <2>2. CASE ~Mark(l)
    BY <1>2, <2>2 DEF LoopStep, CheckPending, CheckActive, LoopEnds, Acquire, Pop,
       PopNothing, workVars
  <2> QED
    BY <2>1, <2>2
<1>3. ASSUME NEW i \in Jobs, WorkerStep(i)
      PROVE  \/ work'[j] = work[j] /\ result'[j] = result[j]
             \/ work[j] = "executing" /\ work'[j] = "sending"
             \/ /\ work[j] \in {"executing", "sending", "releasing"}
                /\ work'[j] \in Executed /\ result'[j] = result[j]
  <2>1. CASE Complete(i)
    BY <2>1, <1>0 DEF Complete, TypeOK
  <2>2. CASE Panic(i) \/ Send(i) \/ Release(i)
    BY <2>2, <1>0 DEF Panic, Send, Release, TypeOK, Executed
  <2> QED
    BY <1>3, <2>1, <2>2 DEF WorkerStep
<1>4. CASE UNCHANGED vars
  BY <1>4 DEF vars, workVars
<1> QED
  BY <1>1, <1>2, <1>3, <1>4 DEF Next, AllReturned

\* How a step can change a job's channel.
LEMMA ChannelChanges ==
  ASSUME IInv, [Next]_vars, NEW j \in Jobs
  PROVE  \/ chan'[j] = chan[j]
         \/ /\ chan[j] = "open" /\ chan'[j] = "overflow" /\ work' = work /\ result' = result
            /\ InQueue(j) /\ ~InQueue(j)'
         \/ /\ work[j] = "executing" /\ work'[j] \in Executed /\ chan'[j] = "closed"
            /\ result' = result
         \/ /\ work[j] = "sending" /\ work'[j] \in Executed /\ chan'[j] = result[j]
            /\ result' = result
<1>0. TypeOK /\ Places /\ OnePlaceOnly
  BY InvFacts
<1>1. ASSUME NEW c \in Clients, Evict(c)
      PROVE  \/ chan'[j] = chan[j]
             \/ /\ chan[j] = "open" /\ chan'[j] = "overflow" /\ work' = work /\ result' = result
                /\ InQueue(j) /\ ~InQueue(j)'
  <2>1. CASE queue = <<>>
    BY <1>1, <2>1 DEF Evict
  <2>2. CASE queue # <<>>
    <3>1. /\ chan' = [chan EXCEPT ![Head(queue)] = "overflow"] /\ queue' = Tail(queue)
          /\ work' = work /\ result' = result
      BY <1>1, <2>2 DEF Evict, workVars
    <3>2. Tail(queue) = RemoveAt(queue, 1) /\ Head(queue) = queue[1] /\ 1 \in 1..Len(queue)
      BY <1>0, <2>2, TailIsRemoveAt DEF TypeOK
    <3>a. queue \in Seq(Jobs) /\ IsInjective(queue)
      BY <1>0 DEF TypeOK, OnePlaceOnly
    <3>b. ToSet(RemoveAt(queue, 1)) = ToSet(queue) \ {queue[1]}
      BY <3>a, <3>2, RemoveKeepsInjective
    <3>3. ToSet(queue') = ToSet(queue) \ {Head(queue)}
      BY <3>1, <3>2, <3>b
    <3>c. queue[1] \in ToSet(queue)
      BY <3>a, <3>2 DEF ToSet
    <3>4. Head(queue) \in ToSet(queue)
      BY <3>2, <3>c
    <3>5. chan'[j] = IF j = Head(queue) THEN "overflow" ELSE chan[j]
      BY <1>0, <3>1 DEF TypeOK
    <3> QED
      BY <1>0, <3>1, <3>3, <3>4, <3>5 DEF InQueue, OnePlaceOnly
  <2> QED
    BY <2>1, <2>2
<1>2. ASSUME NEW c \in Clients, ClientStep(c) \/ Cancel(c), ~Evict(c)
      PROVE  chan' = chan
  BY <1>2 DEF ClientStep, Register, HasRoom, Overflow, Refuse, RefuseBatch,
     SkipInBatch, Unblock, Untrack, Enqueue, Ensure, SpawnLoop,
     StoreHandle, Await, ReturnBatch, GuardDrop, Cancel
<1>3. ASSUME NEW l \in Loops, LoopStep(l)
      PROVE  chan' = chan
  BY <1>3 DEF LoopStep, CheckPending, CheckActive, LoopEnds, Acquire, Pop, PopNothing, Mark
<1>4. ASSUME NEW i \in Jobs, WorkerStep(i)
      PROVE  \/ chan'[j] = chan[j]
             \/ /\ work[j] = "executing" /\ work'[j] \in Executed /\ chan'[j] = "closed"
                /\ result' = result
             \/ /\ work[j] = "sending" /\ work'[j] \in Executed /\ chan'[j] = result[j]
                /\ result' = result
  <2>1. CASE Complete(i) \/ Release(i)
    BY <2>1 DEF Complete, Release
  <2>2. CASE Panic(i)
    BY <2>2, <1>0 DEF Panic, TypeOK, Executed
  <2>3. CASE Send(i)
    BY <2>3, <1>0 DEF Send, TypeOK, Executed
  <2> QED
    BY <1>4, <2>1, <2>2, <2>3 DEF WorkerStep
<1>5. CASE UNCHANGED vars
  BY <1>5 DEF vars
<1> QED
  BY <1>1, <1>2, <1>3, <1>4, <1>5 DEF Next, AllReturned

\* A true answer stays true.
LEMMA HonestStays ==
  ASSUME IInv, [Next]_vars, NEW j \in Jobs, NEW a, Honest(j, a)
  PROVE  Honest(j, a)'
  BY WorkChanges DEF Honest, Executed

LEMMA ChannelsStep ==
  ASSUME IInv, Channels, [Next]_vars
  PROVE  Channels'
<1> SUFFICES ASSUME NEW j \in Jobs
             PROVE  /\ Honest(j, chan[j])'
                    /\ work'[j] \in {"idle", "executing"} => result'[j] = "none"
  BY DEF Channels
<1>0. SendingHasResult /\ TypeOK
  BY InvFacts
<1>1. work'[j] \in {"idle", "executing"} => result'[j] = "none"
  BY WorkChanges DEF Channels, Executed
<1>2. Honest(j, chan[j])'
  <2>1. CASE chan'[j] = chan[j]
    BY <2>1, HonestStays DEF Channels, Honest
  <2>2. CASE chan'[j] = "overflow"
    BY <2>2 DEF Honest
  <2>3. CASE /\ work[j] = "executing" /\ work'[j] \in Executed /\ chan'[j] = "closed"
             /\ result' = result
    BY <2>3 DEF Honest, Channels
  <2>4. CASE /\ work[j] = "sending" /\ work'[j] \in Executed /\ chan'[j] = result[j]
             /\ result' = result
    BY <2>4, <1>0 DEF Honest, SendingHasResult
  <2> QED
    BY <2>1, <2>2, <2>3, <2>4, ChannelChanges
<1> QED
  BY <1>1, <1>2

\* Only an insertion brings a job into the queue, only from there into a loop.
LEMMA NeverRanStays ==
  ASSUME IInv, [Next]_vars, NEW j \in Jobs, NeverRan(j),
         \A c \in Clients : Enqueue(c) => Job(c) # j
  PROVE  NeverRan(j)'
<1>0. /\ TypeOK /\ Places /\ queue \in Seq(Jobs) /\ IsInjective(queue)
      /\ j \notin ToSet(queue) /\ \A l \in Loops : held[l] # j
  BY InvFacts DEF NeverRan, InQueue, IsHeld, TypeOK, OnePlaceOnly
<1>1. work'[j] = "idle"
  BY WorkChanges DEF NeverRan
<1>2. j \notin ToSet(queue')
  <2>1. ASSUME NEW c \in Clients, Enqueue(c)
        PROVE  j \notin ToSet(queue')
    <3>1. Job(c) \in Jobs /\ Job(c) # j
      BY <1>0, <2>1, NameFacts
    <3>2. PICK pos \in 1..(Len(queue) + 1) : queue' = InsertAt(queue, pos, Job(c))
      BY <2>1 DEF Enqueue
    <3>3. Job(c) \notin ToSet(queue)
      <4>1. NotSubmitted(c, idx[c]) /\ idx[c] \in DOMAIN Plan[c]
        BY <1>0, <2>1 DEF NotSubmitted, Enqueue, BeforeEnqueue, TypeOK
      <4> QED
        BY <4>1, <1>0 DEF Places, FreshJobs, Untouched, Job
    <3>4. ToSet(queue') = ToSet(queue) \cup {Job(c)}
      BY <1>0, <3>1, <3>2, <3>3, InsertKeepsInjective
    <3> QED
      BY <1>0, <3>1, <3>4
  <2>2. CASE QueueKept
    BY <1>0, <2>2 DEF QueueKept
  <2>3. CASE Removed
    <3>1. PICK pos \in 1..Len(queue) : queue' = RemoveAt(queue, pos)
      BY <2>3 DEF Removed
    <3>2. ToSet(queue') = ToSet(queue) \ {queue[pos]}
      BY <1>0, <3>1, RemoveKeepsInjective
    <3> QED
      BY <1>0, <3>2
  <2> QED
    BY <1>0, <2>1, <2>2, <2>3, QueueChanges
<1>3. \A l \in Loops : held'[l] # j
  <2>1. ASSUME NEW m \in Loops, Pop(m)
        PROVE  \A l \in Loops : held'[l] # j
    <3>1. PICK pos \in DOMAIN queue : held' = [held EXCEPT ![m] = queue[pos]]
      BY <2>1 DEF Pop
    <3>2. queue[pos] \in ToSet(queue)
      BY <1>0, <3>1 DEF ToSet
    <3>3. \A l \in Loops : held'[l] \in {held[l], queue[pos]}
      BY <1>0, <3>1 DEF TypeOK
    <3> QED
      BY <1>0, <3>2, <3>3
  <2>2. ASSUME NEW m \in Loops, Mark(m)
        PROVE  \A l \in Loops : held'[l] # j
    <3>1. \A l \in Loops : held'[l] \in {held[l], NoJob}
      BY <1>0, <2>2 DEF Mark, TypeOK
    <3> QED
      BY <1>0, <3>1, ConfigFacts
  <2>3. ASSUME NEW m \in Loops, LoopStep(m), ~Pop(m), ~Mark(m)
        PROVE  held' = held
    BY <2>3 DEF LoopStep, CheckPending, CheckActive, LoopEnds, Acquire, PopNothing
  <2>4. ASSUME NEW c \in Clients, ClientStep(c) \/ Cancel(c)
        PROVE  held' = held
    BY <2>4 DEF ClientStep, Register, HasRoom, Overflow, Refuse, RefuseBatch,
       SkipInBatch, Unblock, Evict, Untrack, Enqueue, Ensure, SpawnLoop,
       StoreHandle, Await, ReturnBatch, GuardDrop, Cancel, loopVars
  <2>5. ASSUME NEW i \in Jobs, WorkerStep(i)
        PROVE  held' = held
    BY <2>5 DEF WorkerStep, Complete, Panic, Send, Release, loopVars
  <2>6. CASE UNCHANGED vars
    BY <1>0, <2>6 DEF vars, loopVars
  <2> QED
    BY <1>0, <2>1, <2>2, <2>3, <2>4, <2>5, <2>6 DEF Next, AllReturned
<1> QED
  BY <1>1, <1>2, <1>3 DEF NeverRan, InQueue, IsHeld

\* A client has answers only for jobs it has dealt with.
LEMMA AnsweredArePast ==
  ASSUME TypeOK, Accounts, NEW c \in Clients, NEW k \in DOMAIN got[c]
  PROVE  k \in DOMAIN Plan[c] /\ ~NotSubmitted(c, k)
<1> DEFINE n == Len(got[c])  i == idx[c]
<1>1. /\ k \in Nat /\ k >= 1 /\ k <= n /\ n \in Nat /\ i \in Nat /\ i <= Len(Plan[c])
      /\ Len(Plan[c]) \in Nat /\ DOMAIN Plan[c] = 1..Len(Plan[c])
  BY ClientSeqs, PlanFacts
<1>2. n <= i /\ (n = i => cpc[c] \notin BeforeEnqueue)
  <2>1. CASE IsBatch[c]
    <3>1. n <= i /\ (cpc[c] \notin {"await", "done"} => got[c] = <<>>)
      BY <2>1 DEF Accounts, BatchAccount
    <3>2. n # 0
      BY <1>1
    <3>3. cpc[c] \in {"await", "done"}
      BY <3>1, <3>2
    <3> QED
      BY <3>1, <3>3 DEF BeforeEnqueue
  <2>2. CASE ~IsBatch[c]
    <3>1. n = IF cpc[c] \in {"leaving", "done"} THEN i ELSE i - 1
      BY <2>2 DEF Accounts, SingleAccount
    <3> HIDE DEF n, i
    <3> QED
      BY <1>1, <3>1 DEF BeforeEnqueue
  <2> QED
    BY <2>1, <2>2
<1>3. NotSubmitted(c, k) <=> k > i \/ (k = i /\ cpc[c] \in BeforeEnqueue)
  BY DEF NotSubmitted
<1> HIDE DEF n, i
<1> QED
  BY <1>1, <1>2, <1>3

\* A job about to be inserted is untouched.
LEMMA EnqueuedIsFresh ==
  ASSUME IInv, NEW c \in Clients, Enqueue(c)
  PROVE  /\ idx[c] \in DOMAIN Plan[c] /\ Job(c) = Plan[c][idx[c]]
         /\ NotSubmitted(c, idx[c]) /\ Untouched(Job(c))
<1>1. TypeOK /\ Places
  BY InvFacts
<1>2. NotSubmitted(c, idx[c]) /\ idx[c] \in DOMAIN Plan[c]
  BY <1>1 DEF NotSubmitted, Enqueue, BeforeEnqueue, TypeOK
<1> QED
  BY <1>1, <1>2 DEF Places, FreshJobs, Job

\* Only these steps answer a submission.
LEMMA GotChanges ==
  ASSUME TypeOK, [Next]_vars, NEW c \in Clients
  PROVE  \/ got'[c] = got[c]
         \/ Refuse(c) \/ Await(c) \/ Cancel(c)
<1>1. ASSUME NEW d \in Clients, ClientStep(d) \/ Cancel(d)
      PROVE  got'[c] = got[c] \/ Refuse(c) \/ Await(c) \/ Cancel(c)
  <2>1. CASE d # c
    BY <1>1, <2>1, ClientFrame
  <2>2. CASE d = c
    BY <1>1, <2>2 DEF ClientStep, Register, HasRoom, Overflow, RefuseBatch,
       SkipInBatch, Unblock, Evict, Untrack, Enqueue, Ensure, SpawnLoop,
       StoreHandle, ReturnBatch, GuardDrop
  <2> QED
    BY <2>1, <2>2
<1> QED
  BY <1>1, OthersFrame DEF Next, AllReturned, vars, clientVars

\* The receiver awaited next is of the job that the next answer is about.
LEMMA AwaitedIsNext ==
  ASSUME TypeOK, Accounts, NEW c \in Clients, cpc[c] = "await", receivers[c] # <<>>,
         Ordered(c) \/ NoneSkipped(c)
  PROVE  /\ Len(got[c]) + 1 \in DOMAIN Plan[c]
         /\ Head(receivers[c]) = Plan[c][Len(got[c]) + 1]
<1> DEFINE g == got[c]  r == receivers[c]  i == idx[c]
<1>0. /\ Len(g) \in Nat /\ r \in Seq(Jobs) /\ Len(r) \in Nat /\ i \in Nat /\ i <= Len(Plan[c])
      /\ Len(Plan[c]) \in Nat /\ DOMAIN Plan[c] = 1..Len(Plan[c])
  BY ClientSeqs, PlanFacts
<1>1. CASE IsBatch[c]
  <2>1. /\ Len(g) + Len(r) <= i
        /\ \A k \in 1..Len(r) : r[k] = Plan[c][Len(g) + k]
    BY <1>1 DEF Accounts, BatchAccount, Passed, BeforeEnqueue
  <2>2. r # <<>>
    OBVIOUS
  <2> HIDE DEF g, r, i
  <2>3. 1 \in 1..Len(r) /\ Head(r) = r[1]
    BY <1>0, <2>2
  <2>4. Len(g) + 1 \in DOMAIN Plan[c] /\ Head(r) = Plan[c][Len(g) + 1]
    BY <1>0, <2>1, <2>3
  <2> QED
    BY <2>4 DEF g, r
<1>2. CASE ~IsBatch[c]
  <2>1. Len(g) = i - 1 /\ r = <<Job(c)>> /\ Job(c) = Plan[c][i] /\ i \in DOMAIN Plan[c]
    BY <1>2 DEF Accounts, SingleAccount, Waiting, Job, TypeOK
  <2> HIDE DEF g, r, i
  <2>2. Len(g) + 1 = i /\ Head(r) = Job(c)
    BY <1>0, <2>1
  <2> QED
    BY <2>1, <2>2 DEF g, r
<1> QED
  BY <1>1, <1>2

LEMMA ToldStep ==
  ASSUME IInv, AnswerInv, [Next]_vars
  PROVE  Told'
<1>0. TypeOK /\ Places /\ OnePlaceOnly /\ Accounts /\ Channels /\ Told /\ conf' = conf
  BY InvFacts, QueueChanges DEF AnswerInv
<1> SUFFICES ASSUME NEW c \in Clients, Ordered(c), NEW k \in DOMAIN got'[c]
             PROVE  /\ Honest(Plan[c][k], got[c][k])'
                    /\ got'[c][k] \in {"overflow", "rejected"} => NeverRan(Plan[c][k])'
  BY <1>0 DEF Told, Ordered
<1>1. ASSUME k \in DOMAIN got[c], got'[c][k] = got[c][k]
      PROVE  /\ Honest(Plan[c][k], got[c][k])'
             /\ got'[c][k] \in {"overflow", "rejected"} => NeverRan(Plan[c][k])'
  <2>1. k \in DOMAIN Plan[c] /\ ~NotSubmitted(c, k) /\ Plan[c][k] \in Jobs
    BY <1>0, <1>1, AnsweredArePast, PlanFacts
  <2>2. Honest(Plan[c][k], got[c][k]) /\ (got[c][k] \in {"overflow", "rejected"} => NeverRan(Plan[c][k]))
    BY <1>0, <1>1 DEF Told
  <2>3. \A d \in Clients : Enqueue(d) => Job(d) # Plan[c][k]
    BY <2>1, EnqueuedIsFresh, PlanInjective
  <2>4. got[c][k] \in {"overflow", "rejected"} => NeverRan(Plan[c][k])'
    BY <2>1, <2>2, <2>3, NeverRanStays
  <2>5. \A a : Honest(Plan[c][k], a) => Honest(Plan[c][k], a)'
    BY <2>1, HonestStays
  <2> QED
    BY <1>1, <2>2, <2>4, <2>5 DEF Honest
<1>g. got[c] \in Seq(Returned) /\ Len(got[c]) \in Nat /\ DOMAIN got[c] = 1..Len(got[c])
  BY <1>0, ClientSeqs
<1>2. ASSUME NEW a, got'[c] = Append(got[c], a)
      PROVE  \/ k \in DOMAIN got[c] /\ got'[c][k] = got[c][k]
             \/ k = Len(got[c]) + 1 /\ got'[c][k] = a
  <2> DEFINE g == got[c]
  <2>1. g \in Seq(Returned) /\ DOMAIN g = 1..Len(g) /\ k \in DOMAIN Append(g, a)
    BY <1>g, <1>2
  <2> HIDE DEF g
  <2>2. \/ k \in DOMAIN g /\ Append(g, a)[k] = g[k]
        \/ k = Len(g) + 1 /\ Append(g, a)[k] = a
    BY <2>1
  <2> QED
    BY <1>2, <2>2 DEF g
<1>3. CASE Refuse(c)
  <2>1. PICK a \in {"rejected", "overflow"} : got'[c] = Append(got[c], a)
    BY <1>0, <1>3 DEF Refuse, TypeOK
  <2>2. ~IsBatch[c] /\ cpc[c] = "checkSize"
    BY <1>3 DEF Refuse
  <2>3. Len(got[c]) + 1 = idx[c] /\ idx[c] \in DOMAIN Plan[c]
    <3>1. Len(got[c]) = idx[c] - 1 /\ idx[c] \in Nat /\ idx[c] \in DOMAIN Plan[c]
      BY <1>0, <2>2 DEF Accounts, SingleAccount, TypeOK
    <3> QED
      BY <3>1, <1>g
  <2>n. PICK now \in DOMAIN Plan[c] : now = idx[c]
    BY <2>3
  <2>4. NeverRan(Plan[c][now]) /\ Plan[c][now] \in Jobs
    <3>1. NotSubmitted(c, idx[c])
      BY <2>2 DEF NotSubmitted, BeforeEnqueue
    <3> QED
      BY <3>1, <2>n, <1>0, PlanFacts DEF Places, FreshJobs, Untouched, NeverRan, InQueue, IsHeld
  <2>5. \A d \in Clients : Enqueue(d) => Job(d) # Plan[c][now]
    <3> SUFFICES ASSUME NEW d \in Clients, Enqueue(d), Job(d) = Plan[c][now]
                 PROVE  FALSE
      OBVIOUS
    <3>1. d = c
      BY <2>3, EnqueuedIsFresh, PlanInjective
    <3> QED
      BY <3>1, <2>2 DEF Enqueue
  <2>6. NeverRan(Plan[c][now])'
    BY <2>4, <2>5, NeverRanStays
  <2>7. CASE k = Len(got[c]) + 1 /\ got'[c][k] = a
    <3>1. k = now
      BY <2>3, <2>n, <2>7
    <3>2. got'[c][k] \in {"rejected", "overflow"}
      BY <2>7
    <3>3. Honest(Plan[c][k], got[c][k])'
      BY <3>2 DEF Honest
    <3>4. NeverRan(Plan[c][k])'
      BY <2>6, <3>1 DEF NeverRan, InQueue, IsHeld
    <3> QED
      BY <3>3, <3>4
  <2> QED
    BY <1>1, <1>2, <2>1, <2>7
<1>4. CASE Await(c)
  <2>0. cpc[c] = "await" /\ receivers[c] # <<>> /\ receivers[c] \in Seq(Jobs)
    BY <1>0, <1>4 DEF Await, TypeOK
  <2>j. PICK j \in Jobs : j = Head(receivers[c])
    BY <2>0
  <2>1. got'[c] = Append(got[c], chan[j])
    BY <1>0, <1>4, <2>j DEF Await, TypeOK
  <2>2. j = Plan[c][Len(got[c]) + 1]
    BY <1>0, <2>0, <2>j, AwaitedIsNext
  <2>3. Honest(j, chan[j]) /\ (chan[j] = "overflow" => NeverRan(j))
    BY <1>0, <2>2 DEF Channels, OnePlaceOnly, NeverRan
  <2>a. chan[j] # "rejected"
    BY <1>0, <2>2 DEF TypeOK, Answers
  <2>4. chan[j] = "overflow" => NeverRan(j)'
    <3>1. ASSUME chan[j] = "overflow", NEW d \in Clients, Enqueue(d) PROVE Job(d) # j
      BY <3>1, EnqueuedIsFresh DEF Untouched
    <3> QED
      BY <3>1, <2>2, <2>3, NeverRanStays
  <2>5. CASE k = Len(got[c]) + 1 /\ got'[c][k] = chan[j]
    <3>1. Plan[c][k] = j
      BY <2>2, <2>5
    <3>2. \A a : Honest(j, a) => Honest(j, a)'
      BY <2>2, HonestStays
    <3>3. Honest(Plan[c][k], got[c][k])'
      BY <2>3, <2>5, <3>1, <3>2 DEF Honest
    <3>4. got'[c][k] \in {"overflow", "rejected"} => NeverRan(Plan[c][k])'
      BY <2>4, <2>a, <2>5, <3>1 DEF NeverRan, InQueue, IsHeld
    <3> QED
      BY <3>3, <3>4
  <2> QED
    BY <1>1, <1>2, <2>1, <2>5
<1>5. CASE Cancel(c)
  <2>1. got'[c] = Append(got[c], "cancelled")
    BY <1>0, <1>5 DEF Cancel, TypeOK
  <2>2. CASE k = Len(got[c]) + 1 /\ got'[c][k] = "cancelled"
    BY <2>2 DEF Honest
  <2> QED
    BY <1>1, <1>2, <2>1, <2>2
<1>6. CASE got'[c] = got[c]
  BY <1>1, <1>6
<1> QED
  BY <1>0, <1>3, <1>4, <1>5, <1>6, GotChanges

LEMMA InitAnswers == Init => AnswerInv
<1> SUFFICES ASSUME Init PROVE AnswerInv
  OBVIOUS
<1>1. Accounts
  BY DEF Init, Accounts, BatchAccount, SingleAccount, NoneSkipped, Passed, BeforeEnqueue, Waiting
<1>2. Channels
  BY DEF Init, Channels, Honest
<1>3. Told
  BY DEF Init, Told
<1> QED
  BY <1>1, <1>2, <1>3 DEF AnswerInv

\* Whatever loops and clients interleave, an answer is given to the submission of
\* the job it is about, and it is what that job did.
LEMMA AnswersInvariant == Spec => []AnswerInv
<1>1. IInv /\ AnswerInv /\ [Next]_vars => AnswerInv'
  BY AccountsStep, ChannelsStep, ToldStep, InvFacts DEF AnswerInv
<1> QED
  BY <1>1, InitAnswers, InductiveInvariant, PTL DEF Spec

\* The k-th result of a client is about its k-th job: its own result, "closed" only
\* after a panic, and overflow or rejection only if the job never started, whatever
\* the strategy evicts, refuses or drops and however tasks end.
THEOREM AnswersAreAlwaysOwn == Spec => []AnswersAreOwn
<1>1. AnswerInv => AnswersAreOwn
  BY DEF AnswerInv, Told, AnswersAreOwn, Honest, NeverRan, Executed
<1> QED
  BY <1>1, AnswersInvariant, PTL

-----------------------------------------------------------------------------
(* Statuses. *)

\* A registered job is pending until it is enqueued.
RegisteredIsPending ==
  \A c \in Clients : cpc[c] \in Registered => TaskStatus(Job(c)) = "pending"

\* The id remembered by an eviction is that of a job that was answered.
EvictedWasAnswered ==
  \A c \in Clients : cpc[c] = "untrack" =>
    \E j \in Jobs : TaskId[j] = evicted[c] /\ chan[j] = "overflow"

ReceiversAreOwn ==
  \A c \in Clients :
    /\ IsInjective(receivers[c])
    /\ \A j \in ToSet(receivers[c]) :
         \E k \in DOMAIN Plan[c] : j = Plan[c][k] /\ ~NotSubmitted(c, k)

\* A batch has forgotten the jobs it has answers for.
AnsweredAreForgotten ==
  \A c \in Clients : IsBatch[c] /\ cpc[c] # "done" /\ NoneSkipped(c) =>
    \A k \in DOMAIN got[c] : TaskStatus(Plan[c][k]) = "absent"

StatusInv ==
  /\ RegisteredIsPending /\ EvictedWasAnswered /\ ReceiversAreOwn
  /\ AnsweredAreForgotten /\ StatusTruthful

\* No two tasks share an id.
DistinctIds == \A i, j \in Jobs : TaskId[i] = TaskId[j] => i = j

\* Why the entry of job j may disappear.
Forgets(j) ==
  \/ \E c \in Clients : Untrack(c) /\ evicted[c] = TaskId[j]
  \/ \E c \in Clients : Await(c) /\ j = Head(receivers[c])
  \/ \E c \in Clients : (GuardDrop(c) \/ (Cancel(c) /\ ~IsBatch[c])) /\ j = Job(c)

\* How a step can change the entry of job j, and what j does.
LEMMA StatusChanges ==
  ASSUME IInv, DistinctIds, [Next]_vars, NEW j \in Jobs
  PROVE  \/ TaskStatus(j)' = TaskStatus(j) /\ work'[j] = work[j]
         \/ /\ TaskStatus(j)' = "pending" /\ work'[j] = work[j]
            /\ \E c \in Clients : Register(c) /\ j = Job(c)
         \/ TaskStatus(j)' = "absent" /\ work'[j] = work[j] /\ Forgets(j)
         \/ /\ TaskStatus(j)' = IF TaskStatus(j) = "absent" THEN "absent" ELSE "running"
            /\ work[j] = "idle" /\ work'[j] = "executing" /\ IsHeld(j)
         \/ /\ TaskStatus(j)' = IF TaskStatus(j) = "absent" THEN "absent" ELSE "completed"
            /\ work[j] = "executing" /\ work'[j] = "sending"
         \/ /\ TaskStatus(j)' = TaskStatus(j) /\ work'[j] \in Executed
            /\ work[j] = "releasing" \/ (work[j] \in {"executing", "sending"} /\ chan'[j] # "open")
<1>0. TypeOK /\ Places /\ SendingHasResult
  BY InvFacts
<1>i. TaskId[j] \in Ids /\ \A i \in Jobs : TaskId[i] \in Ids /\ (TaskId[i] = TaskId[j] => i = j)
  BY ConfigFacts DEF DistinctIds
<1> USE DEF TaskStatus
<1>1. ASSUME NEW c \in Clients, Register(c)
      PROVE  \/ TaskStatus(j)' = TaskStatus(j) /\ work'[j] = work[j]
             \/ TaskStatus(j)' = "pending" /\ work'[j] = work[j] /\ j = Job(c)
  <2>1. active' = [active EXCEPT ![TaskId[Job(c)]] = "pending"] /\ work' = work /\ Job(c) \in Jobs
    BY <1>0, <1>1, NameFacts DEF Register, workVars
  <2> QED
    BY <1>0, <1>i, <2>1 DEF TypeOK
<1>2. ASSUME NEW c \in Clients, Untrack(c)
      PROVE  \/ TaskStatus(j)' = TaskStatus(j) /\ work'[j] = work[j]
             \/ TaskStatus(j)' = "absent" /\ work'[j] = work[j] /\ evicted[c] = TaskId[j]
  BY <1>0, <1>i, <1>2 DEF Untrack, workVars, TypeOK
<1>3. ASSUME NEW c \in Clients, Await(c)
      PROVE  \/ TaskStatus(j)' = TaskStatus(j) /\ work'[j] = work[j]
             \/ TaskStatus(j)' = "absent" /\ work'[j] = work[j] /\ j = Head(receivers[c])
  <2>1. /\ active' = [active EXCEPT ![TaskId[Head(receivers[c])]] = "absent"] /\ work' = work
        /\ Head(receivers[c]) \in Jobs
    BY <1>0, <1>3 DEF Await, workVars, TypeOK
  <2> QED
    BY <1>0, <1>i, <2>1 DEF TypeOK
<1>4. ASSUME NEW c \in Clients, GuardDrop(c) \/ (Cancel(c) /\ ~IsBatch[c])
      PROVE  \/ TaskStatus(j)' = TaskStatus(j) /\ work'[j] = work[j]
             \/ TaskStatus(j)' = "absent" /\ work'[j] = work[j] /\ j = Job(c)
  <2>1. active' = [active EXCEPT ![TaskId[Job(c)]] = "absent"] /\ work' = work /\ Job(c) \in Jobs
    BY <1>0, <1>4, NameFacts DEF GuardDrop, Cancel, workVars
  <2> QED
    BY <1>0, <1>i, <2>1 DEF TypeOK
<1>5. ASSUME NEW c \in Clients, ClientStep(c) \/ Cancel(c), ~Register(c), ~Untrack(c),
             ~Await(c), ~GuardDrop(c), ~(Cancel(c) /\ ~IsBatch[c])
      PROVE  TaskStatus(j)' = TaskStatus(j) /\ work'[j] = work[j]
  BY <1>5 DEF ClientStep, HasRoom, Overflow, Refuse, RefuseBatch, SkipInBatch,
     Unblock, Evict, Enqueue, Ensure, SpawnLoop, StoreHandle, ReturnBatch, Cancel, workVars
<1>6. ASSUME NEW l \in Loops, Mark(l)
      PROVE  \/ TaskStatus(j)' = TaskStatus(j) /\ work'[j] = work[j]
             \/ /\ TaskStatus(j)' = IF TaskStatus(j) = "absent" THEN "absent" ELSE "running"
                /\ work[j] = "idle" /\ work'[j] = "executing" /\ IsHeld(j)
  <2>1. /\ held[l] \in Jobs /\ work[held[l]] = "idle"
        /\ work'[j] = IF j = held[l] THEN "executing" ELSE work[j]
    BY <1>0, <1>6, MarkFacts
  <2>2. active' = [active EXCEPT ![TaskId[held[l]]] = IF @ = "absent" THEN @ ELSE "running"]
    BY <1>6 DEF Mark, SetStatus
  <2>3. CASE j = held[l]
    BY <1>0, <1>i, <2>1, <2>2, <2>3 DEF TypeOK, IsHeld
  <2>4. CASE j # held[l]
    BY <1>0, <1>i, <2>1, <2>2, <2>4 DEF TypeOK
  <2> QED
    BY <2>3, <2>4
<1>7. ASSUME NEW l \in Loops, LoopStep(l), ~Mark(l)
      PROVE  TaskStatus(j)' = TaskStatus(j) /\ work'[j] = work[j]
  BY <1>7 DEF LoopStep, CheckPending, CheckActive, LoopEnds, Acquire, Pop, PopNothing, workVars
<1>8. ASSUME NEW i \in Jobs, Complete(i)
      PROVE  \/ TaskStatus(j)' = TaskStatus(j) /\ work'[j] = work[j]
             \/ /\ TaskStatus(j)' = IF TaskStatus(j) = "absent" THEN "absent" ELSE "completed"
                /\ work[j] = "executing" /\ work'[j] = "sending"
  <2>1. /\ active' = [active EXCEPT ![TaskId[i]] = IF @ = "absent" THEN @ ELSE "completed"]
        /\ work[i] = "executing" /\ work' = [work EXCEPT ![i] = "sending"]
    BY <1>8 DEF Complete, SetStatus
  <2> QED
    BY <1>0, <1>i, <2>1 DEF TypeOK
<1>9. ASSUME NEW i \in Jobs, Panic(i) \/ Send(i) \/ Release(i)
      PROVE  \/ TaskStatus(j)' = TaskStatus(j) /\ work'[j] = work[j]
             \/ /\ TaskStatus(j)' = TaskStatus(j) /\ work'[j] \in Executed
                /\ work[j] = "releasing" \/ (work[j] \in {"executing", "sending"} /\ chan'[j] # "open")
  <2>1. CASE Panic(i)
    BY <2>1, <1>0 DEF Panic, TypeOK, Executed
  <2>2. CASE Send(i)
    BY <2>2, <1>0 DEF Send, TypeOK, Executed, SendingHasResult
  <2>3. CASE Release(i)
    BY <2>3, <1>0 DEF Release, TypeOK, Executed
  <2> QED
    BY <1>9, <2>1, <2>2, <2>3
<1>10. CASE UNCHANGED vars
  BY <1>10 DEF vars, workVars
<1> HIDE DEF TaskStatus
<1> QED
  BY <1>1, <1>2, <1>3, <1>4, <1>5, <1>6, <1>7, <1>8, <1>9, <1>10
     DEF Next, AllReturned, WorkerStep, Forgets

LEMMA SubmittedStays ==
  ASSUME TypeOK, [Next]_vars, NEW c \in Clients, NEW k \in DOMAIN Plan[c], ~NotSubmitted(c, k)
  PROVE  ~NotSubmitted(c, k)'
<1>1. ASSUME NEW d \in Clients, ClientStep(d) \/ Cancel(d)
      PROVE  ~NotSubmitted(c, k)'
  BY <1>1, ClientsProgress
<1>2. CASE UNCHANGED <<cpc, idx>>
  BY <1>2 DEF NotSubmitted
<1> QED
  BY <1>1, <1>2, OthersFrame DEF Next, AllReturned, vars, clientVars

\* Whose step forgets a job that was not evicted.
LEMMA ForgottenByOwner ==
  ASSUME IInv, DistinctIds, EvictedWasAnswered, ReceiversAreOwn,
         NEW c \in Clients, NEW k \in DOMAIN Plan[c], Forgets(Plan[c][k]),
         chan[Plan[c][k]] # "overflow"
  PROVE  \/ /\ Await(c) /\ Plan[c][k] = Head(receivers[c]) /\ ~NotSubmitted(c, k)
            /\ receivers[c] # <<>> /\ receivers[c] \in Seq(Jobs)
         \/ (GuardDrop(c) \/ (Cancel(c) /\ ~IsBatch[c])) /\ k = idx[c]
<1> DEFINE j == Plan[c][k]
<1>0. TypeOK /\ j \in Jobs
  BY InvFacts, PlanFacts
<1>1. ASSUME NEW d \in Clients, Untrack(d), evicted[d] = TaskId[j]
      PROVE  FALSE
  <2>1. PICK i \in Jobs : TaskId[i] = evicted[d] /\ chan[i] = "overflow"
    BY <1>1 DEF EvictedWasAnswered, Untrack
  <2> QED
    BY <1>0, <1>1, <2>1 DEF DistinctIds
<1>2. ASSUME NEW d \in Clients, Await(d), j = Head(receivers[d])
      PROVE  /\ Await(c) /\ j = Head(receivers[c]) /\ ~NotSubmitted(c, k)
             /\ receivers[c] # <<>> /\ receivers[c] \in Seq(Jobs)
  <2>1. receivers[d] # <<>> /\ receivers[d] \in Seq(Jobs)
    BY <1>0, <1>2 DEF Await, TypeOK
  <2> DEFINE r == receivers[d]
  <2>2. Head(r) \in ToSet(r)
    <3> HIDE DEF r
    <3>1. r # <<>> /\ r \in Seq(Jobs)
      BY <2>1 DEF r
    <3>2. Head(r) = r[1] /\ 1 \in DOMAIN r
      BY <3>1
    <3> QED
      BY <3>2 DEF ToSet
  <2>3. PICK m \in DOMAIN Plan[d] : j = Plan[d][m] /\ ~NotSubmitted(d, m)
    BY <1>2, <2>2 DEF ReceiversAreOwn
  <2>4. d = c /\ m = k
    BY <2>3, PlanInjective
  <2> QED
    BY <1>2, <2>1, <2>3, <2>4
<1>3. ASSUME NEW d \in Clients, GuardDrop(d) \/ (Cancel(d) /\ ~IsBatch[d]), j = Job(d)
      PROVE  (GuardDrop(c) \/ (Cancel(c) /\ ~IsBatch[c])) /\ k = idx[c]
  <2>1. idx[d] \in DOMAIN Plan[d] /\ j = Plan[d][idx[d]]
    BY <1>0, <1>3 DEF Job, TypeOK
  <2>2. d = c /\ idx[d] = k
    BY <2>1, PlanInjective
  <2> QED
    BY <1>3, <2>2
<1> QED
  BY <1>1, <1>2, <1>3 DEF Forgets

\* A job that was submitted is registered no more.
LEMMA RegisteredOnce ==
  ASSUME TypeOK, NEW c \in Clients, NEW k \in DOMAIN Plan[c], ~NotSubmitted(c, k),
         NEW d \in Clients, Register(d)
  PROVE  Plan[c][k] # Job(d)
<1> SUFFICES ASSUME Plan[c][k] = Job(d) PROVE FALSE
  OBVIOUS
<1>1. idx[d] \in DOMAIN Plan[d] /\ Job(d) = Plan[d][idx[d]]
  BY DEF Job, TypeOK
<1>2. d = c /\ idx[d] = k
  BY <1>1, PlanInjective
<1> QED
  BY <1>2 DEF Register, NotSubmitted, BeforeEnqueue

\* What is forgotten stays forgotten.
LEMMA AbsentStays ==
  ASSUME IInv, DistinctIds, [Next]_vars,
         NEW c \in Clients, NEW k \in DOMAIN Plan[c], ~NotSubmitted(c, k),
         TaskStatus(Plan[c][k]) = "absent"
  PROVE  TaskStatus(Plan[c][k])' = "absent"
<1>0. TypeOK /\ Plan[c][k] \in Jobs
  BY InvFacts, PlanFacts
<1>1. ~\E d \in Clients : Register(d) /\ Plan[c][k] = Job(d)
  BY <1>0, RegisteredOnce
<1> QED
  BY <1>0, <1>1, StatusChanges

LEMMA EvictedStep ==
  ASSUME IInv, EvictedWasAnswered, [Next]_vars
  PROVE  EvictedWasAnswered'
<1>0. TypeOK /\ OnePlaceOnly
  BY InvFacts
<1> SUFFICES ASSUME NEW c \in Clients, cpc'[c] = "untrack"
             PROVE  \E j \in Jobs : TaskId[j] = evicted'[c] /\ chan'[j] = "overflow"
  BY DEF EvictedWasAnswered
<1>1. CASE cpc[c] = "untrack" /\ evicted'[c] = evicted[c]
  <2>1. PICK j \in Jobs : TaskId[j] = evicted[c] /\ chan[j] = "overflow"
    BY <1>1 DEF EvictedWasAnswered
  <2>2. chan'[j] = "overflow"
    BY <1>0, <2>1, ChannelChanges DEF OnePlaceOnly
  <2> QED
    BY <1>1, <2>1, <2>2
<1>2. CASE Evict(c) /\ queue # <<>>
  <2>1. /\ chan' = [chan EXCEPT ![Head(queue)] = "overflow"]
        /\ evicted' = [evicted EXCEPT ![c] = TaskId[Head(queue)]] /\ Head(queue) \in Jobs
    BY <1>0, <1>2 DEF Evict, TypeOK
  <2> QED
    BY <1>0, <2>1 DEF TypeOK
<1>3. ASSUME NEW d \in Clients, ClientStep(d) \/ Cancel(d)
      PROVE  (cpc[c] = "untrack" /\ evicted'[c] = evicted[c]) \/ (Evict(c) /\ queue # <<>>)
  <2>1. CASE d # c
    <3>1. cpc'[c] = cpc[c]
      BY <1>0, <1>3, <2>1, ClientFrame
    <3>2. evicted'[c] = evicted[c]
      BY <1>0, <1>3, <2>1 DEF ClientStep, Register, HasRoom, Overflow, Refuse, RefuseBatch,
         SkipInBatch, Unblock, Evict, Untrack, Enqueue, Ensure, SpawnLoop,
         StoreHandle, Await, ReturnBatch, GuardDrop, Cancel, TypeOK
    <3> QED
      BY <3>1, <3>2
  <2>2. CASE d = c
    <3>1. CASE Evict(c)
      BY <1>0, <3>1 DEF Evict, Goto, TypeOK
    <3>2. CASE Register(c) \/ HasRoom(c) \/ Overflow(c) \/ Refuse(c) \/ RefuseBatch(c)
      BY <1>0, <3>2 DEF Register, HasRoom, Overflow, Refuse, RefuseBatch, Goto, TypeOK
    <3>3. CASE SkipInBatch(c) \/ Unblock(c) \/ Untrack(c) \/ Enqueue(c)
      BY <1>0, <3>3 DEF SkipInBatch, Unblock, Untrack, Enqueue, NextJob, Goto, TypeOK
    <3>4. CASE Ensure(c) \/ SpawnLoop(c) \/ StoreHandle(c) \/ ReturnBatch(c)
      BY <1>0, <3>4 DEF Ensure, SpawnLoop, StoreHandle, ReturnBatch, Goto, TypeOK
    <3>5. CASE Await(c) \/ GuardDrop(c) \/ Cancel(c)
      BY <1>0, <3>5 DEF Await, GuardDrop, Cancel, NextJob, Goto, TypeOK
    <3> QED
      BY <1>3, <2>2, <3>1, <3>2, <3>3, <3>4, <3>5 DEF ClientStep
  <2> QED
    BY <2>1, <2>2
<1> QED
  BY <1>1, <1>2, <1>3, OthersFrame DEF Next, AllReturned, vars, clientVars

\* How a step can change a client's receivers.
LEMMA ReceiverChanges ==
  ASSUME TypeOK, [Next]_vars, NEW c \in Clients
  PROVE  \/ receivers'[c] = receivers[c]
         \/ receivers'[c] = <<>>
         \/ Await(c) /\ receivers'[c] = Tail(receivers[c])
         \/ Enqueue(c) /\ receivers'[c] = Append(receivers[c], Job(c))
<1>1. ASSUME NEW d \in Clients, ClientStep(d) \/ Cancel(d), d # c
      PROVE  receivers'[c] = receivers[c]
  BY <1>1, ClientFrame
<1>2. CASE Enqueue(c) \/ Await(c) \/ RefuseBatch(c) \/ Cancel(c)
  BY <1>2 DEF Enqueue, Await, RefuseBatch, Cancel, TypeOK
<1>3. CASE /\ ClientStep(c)
           /\ ~Enqueue(c) /\ ~Await(c) /\ ~RefuseBatch(c)
  BY <1>3 DEF ClientStep, Register, HasRoom, Overflow, Refuse, SkipInBatch, Unblock,
     Evict, Untrack, Ensure, SpawnLoop, StoreHandle, ReturnBatch, GuardDrop
<1> QED
  BY <1>1, <1>2, <1>3, OthersFrame DEF Next, AllReturned, vars, clientVars

LEMMA EnqueuedIsSubmitted ==
  ASSUME TypeOK, NEW c \in Clients, Enqueue(c), NEW now \in DOMAIN Plan[c], now = idx[c]
  PROVE  ~NotSubmitted(c, now)'
<1>1. CASE IsBatch[c] /\ ~AtLast(c)
  <2>1. idx'[c] = now + 1 /\ now \in Nat
    BY <1>1, PlanFacts DEF Enqueue, NextJob, TypeOK
  <2> QED
    BY <2>1 DEF NotSubmitted
<1>2. CASE ~(IsBatch[c] /\ ~AtLast(c))
  <2>1. idx'[c] = now /\ cpc'[c] = "ensure" /\ now \in Nat
    BY <1>2, PlanFacts DEF Enqueue, NextJob, Goto, TypeOK
  <2> QED
    BY <2>1 DEF NotSubmitted, BeforeEnqueue
<1> QED
  BY <1>1, <1>2

LEMMA AppendKeepsInjective ==
  ASSUME NEW S, NEW s \in Seq(S), IsInjective(s), NEW e \in S, e \notin ToSet(s)
  PROVE  IsInjective(Append(s, e))
<1>1. DOMAIN Append(s, e) = 1..(Len(s) + 1) /\ DOMAIN s = 1..Len(s) /\ Len(s) \in Nat
  OBVIOUS
<1>2. \A i \in 1..(Len(s) + 1) : Append(s, e)[i] = IF i = Len(s) + 1 THEN e ELSE s[i]
  OBVIOUS
<1>3. \A i \in 1..Len(s) : s[i] # e
  BY <1>1 DEF ToSet
<1>4. ASSUME NEW i \in 1..(Len(s) + 1), NEW k \in 1..(Len(s) + 1),
             Append(s, e)[i] = Append(s, e)[k]
      PROVE  i = k
  <2>1. CASE i = Len(s) + 1 \/ k = Len(s) + 1
    BY <1>1, <1>2, <1>3, <1>4, <2>1
  <2>2. CASE i # Len(s) + 1 /\ k # Len(s) + 1
    <3>1. i \in DOMAIN s /\ k \in DOMAIN s
      BY <1>1, <2>2
    <3>2. s[i] = s[k]
      BY <1>2, <1>4, <2>2
    <3> QED
      BY <3>1, <3>2 DEF IsInjective
  <2> QED
    BY <2>1, <2>2
<1> QED
  BY <1>1, <1>4 DEF IsInjective

LEMMA ReceiversStep ==
  ASSUME IInv, ReceiversAreOwn, [Next]_vars
  PROVE  ReceiversAreOwn'
<1>0. TypeOK
  BY InvFacts
<1> SUFFICES ASSUME NEW c \in Clients
             PROVE  /\ IsInjective(receivers'[c])
                    /\ \A j \in ToSet(receivers'[c]) :
                         \E k \in DOMAIN Plan[c] : j = Plan[c][k] /\ ~NotSubmitted(c, k)'
  BY DEF ReceiversAreOwn
<1>1. ASSUME NEW j \in ToSet(receivers[c])
      PROVE  \E k \in DOMAIN Plan[c] : j = Plan[c][k] /\ ~NotSubmitted(c, k)'
  BY <1>0, SubmittedStays DEF ReceiversAreOwn
<1>2. receivers[c] \in Seq(Jobs) /\ IsInjective(receivers[c])
  BY <1>0 DEF TypeOK, ReceiversAreOwn
<1>3. CASE receivers'[c] = receivers[c]
  BY <1>1, <1>2, <1>3
<1>4. CASE receivers'[c] = <<>>
  BY <1>4 DEF ToSet, IsInjective
<1>5. CASE Await(c) /\ receivers'[c] = Tail(receivers[c])
  <2>1. receivers[c] # <<>>
    BY <1>5 DEF Await
  <2>2. Tail(receivers[c]) = RemoveAt(receivers[c], 1) /\ 1 \in 1..Len(receivers[c])
    BY <1>2, <2>1, TailIsRemoveAt
  <2>3. IsInjective(receivers'[c]) /\ ToSet(receivers'[c]) \subseteq ToSet(receivers[c])
    BY <1>2, <1>5, <2>2, RemoveKeepsInjective
  <2> QED
    BY <1>1, <2>3
<1>6. CASE Enqueue(c) /\ receivers'[c] = Append(receivers[c], Job(c))
  <2>1. PICK now \in DOMAIN Plan[c] : now = idx[c]
    BY <1>6, EnqueuedIsFresh
  <2>2. Job(c) = Plan[c][now] /\ NotSubmitted(c, now) /\ Job(c) \in Jobs
    BY <1>6, <2>1, EnqueuedIsFresh, PlanFacts
  <2>3. ~NotSubmitted(c, now)'
    BY <1>0, <1>6, <2>1, EnqueuedIsSubmitted
  <2>4. Job(c) \notin ToSet(receivers[c])
    BY <2>2, PlanInjective DEF ReceiversAreOwn
  <2>5. ToSet(receivers'[c]) = ToSet(receivers[c]) \cup {Job(c)}
    BY <1>2, <1>6, <2>2, AppendToSet
  <2>6. IsInjective(receivers'[c])
    BY <1>2, <1>6, <2>2, <2>4, AppendKeepsInjective
  <2> QED
    BY <1>1, <2>2, <2>3, <2>5, <2>6
<1> QED
  BY <1>0, <1>3, <1>4, <1>5, <1>6, ReceiverChanges

\* A client that is registered either has just registered or was before, with the
\* same job.
LEMMA RegisteredBefore ==
  ASSUME TypeOK, [Next]_vars, NEW c \in Clients, cpc'[c] \in Registered
  PROVE  /\ idx'[c] = idx[c]
         /\ Register(c) \/ cpc[c] \in Registered
         /\ ~GuardDrop(c) /\ ~Cancel(c)
<1>1. ~GuardDrop(c) /\ ~Cancel(c)
  BY DEF GuardDrop, Cancel, NextJob, Goto, TypeOK, Registered
<1>2. ASSUME NEW d \in Clients, ClientStep(d) \/ Cancel(d)
      PROVE  idx'[c] = idx[c] /\ (Register(c) \/ cpc[c] \in Registered)
  <2>1. CASE d # c
    BY <1>2, <2>1, ClientFrame
  <2>2. CASE d = c
    <3>1. CASE HasRoom(c) \/ Overflow(c) \/ Unblock(c) \/ Evict(c) \/ Untrack(c)
      BY <3>1 DEF HasRoom, Overflow, Unblock, Evict, Untrack, Registered
    <3>2. CASE Register(c)
      BY <3>2 DEF Register
    <3>3. CASE Refuse(c) \/ RefuseBatch(c) \/ SkipInBatch(c) \/ Enqueue(c)
      BY <3>3 DEF Refuse, RefuseBatch, SkipInBatch, Enqueue, NextJob, Goto, TypeOK, Registered
    <3>4. CASE Ensure(c) \/ SpawnLoop(c) \/ StoreHandle(c) \/ ReturnBatch(c)
      BY <3>4 DEF Ensure, SpawnLoop, StoreHandle, ReturnBatch, Goto, TypeOK, Registered
    <3>5. CASE Await(c)
      BY <3>5 DEF Await, NextJob, Goto, TypeOK, Registered
    <3> QED
      BY <1>1, <1>2, <2>2, <3>1, <3>2, <3>3, <3>4, <3>5 DEF ClientStep
  <2> QED
    BY <2>1, <2>2
<1> QED
  BY <1>1, <1>2, OthersFrame DEF Next, AllReturned, vars, clientVars

LEMMA RegisteredStep ==
  ASSUME IInv, DistinctIds, EvictedWasAnswered, ReceiversAreOwn, RegisteredIsPending,
         [Next]_vars
  PROVE  RegisteredIsPending'
<1>0. TypeOK /\ Places
  BY InvFacts
<1> SUFFICES ASSUME NEW c \in Clients, cpc'[c] \in Registered
             PROVE  TaskStatus(Job(c))' = "pending"
  BY DEF RegisteredIsPending
<1>1. /\ idx'[c] = idx[c] /\ (Register(c) \/ cpc[c] \in Registered)
      /\ ~GuardDrop(c) /\ ~Cancel(c)
  BY <1>0, RegisteredBefore
<1>2. PICK now \in DOMAIN Plan[c] : now = idx[c]
  BY <1>0 DEF TypeOK
<1>3. PICK j \in Jobs : j = Plan[c][now]
  BY PlanFacts
<1>4. Job(c) = j /\ Job(c)' = j
  BY <1>1, <1>2, <1>3 DEF Job
<1>5. TaskStatus(Job(c))' = TaskStatus(j)'
  BY <1>4 DEF TaskStatus
<1>6. CASE Register(c)
  <2>1. active' = [active EXCEPT ![TaskId[j]] = "pending"] /\ TaskId[j] \in Ids
    BY <1>4, <1>6, ConfigFacts DEF Register
  <2> QED
    BY <1>0, <1>5, <2>1 DEF TaskStatus, TypeOK
<1>7. CASE cpc[c] \in Registered
  <2>1. NotSubmitted(c, now) /\ TaskStatus(j) = "pending"
    BY <1>2, <1>4, <1>7 DEF RegisteredIsPending, NotSubmitted, Registered, BeforeEnqueue
  <2>2. Untouched(j)
    BY <1>0, <1>3, <2>1 DEF Places, FreshJobs
  <2>3. work[j] = "idle" /\ ~IsHeld(j) /\ chan[j] = "open"
    BY <2>2 DEF Untouched, IsHeld
  <2>4. ~Forgets(j)
    <3>1. ASSUME Forgets(j) PROVE FALSE
      <4>1. Forgets(Plan[c][now]) /\ chan[Plan[c][now]] # "overflow"
        BY <1>3, <2>3, <3>1
      <4> QED
        BY <4>1, <2>1, <1>1, ForgottenByOwner
    <3> QED
      BY <3>1
  <2> QED
    BY <1>5, <2>1, <2>3, <2>4, StatusChanges
<1> QED
  BY <1>1, <1>6, <1>7

\* A batch that goes on has skipped no more than before.
LEMMA NoneSkippedBefore ==
  ASSUME TypeOK, Accounts, [Next]_vars, NEW c \in Clients, IsBatch[c], cpc'[c] # "done",
         NoneSkipped(c)'
  PROVE  NoneSkipped(c) /\ cpc[c] # "done"
<1>c. conf' = conf
  BY QueueChanges
<1>1. CASE ClientStep(c) \/ Cancel(c)
  <2>1. cpc[c] # "done"
    BY <1>1 DEF ClientStep, Register, HasRoom, Overflow, Refuse, RefuseBatch,
       SkipInBatch, Unblock, Evict, Untrack, Enqueue, Ensure, SpawnLoop,
       StoreHandle, Await, ReturnBatch, GuardDrop, Cancel
  <2> QED
    BY <1>1, <1>c, <2>1, BatchStep DEF Accounts
<1>2. CASE cpc'[c] = cpc[c] /\ idx'[c] = idx[c] /\ got'[c] = got[c] /\ receivers'[c] = receivers[c]
  BY <1>2 DEF NoneSkipped, Passed
<1>3. ASSUME NEW d \in Clients, d # c, ClientStep(d) \/ Cancel(d)
      PROVE  /\ cpc'[c] = cpc[c] /\ idx'[c] = idx[c]
             /\ got'[c] = got[c] /\ receivers'[c] = receivers[c]
  BY <1>3, ClientFrame
<1> QED
  BY <1>1, <1>2, <1>3, OthersFrame DEF Next, AllReturned, vars, clientVars

LEMMA ForgottenStep ==
  ASSUME IInv, DistinctIds, Accounts, AnsweredAreForgotten, [Next]_vars
  PROVE  AnsweredAreForgotten'
<1>0. TypeOK
  BY InvFacts
<1> SUFFICES ASSUME NEW c \in Clients, IsBatch[c], cpc'[c] # "done", NoneSkipped(c)',
                    NEW k \in DOMAIN got'[c]
             PROVE  TaskStatus(Plan[c][k])' = "absent"
  BY DEF AnsweredAreForgotten
<1>1. NoneSkipped(c) /\ cpc[c] # "done"
  BY <1>0, NoneSkippedBefore
<1>2. CASE k \in DOMAIN got[c]
  <2>1. k \in DOMAIN Plan[c] /\ ~NotSubmitted(c, k) /\ TaskStatus(Plan[c][k]) = "absent"
    BY <1>0, <1>1, <1>2, AnsweredArePast DEF AnsweredAreForgotten
  <2> QED
    BY <2>1, AbsentStays
<1>3. CASE Await(c)
  <2>0. cpc[c] = "await" /\ receivers[c] # <<>> /\ receivers[c] \in Seq(Jobs)
    BY <1>0, <1>3 DEF Await, TypeOK
  <2>1. PICK j \in Jobs : j = Head(receivers[c])
    BY <2>0
  <2>2. active' = [active EXCEPT ![TaskId[j]] = "absent"] /\ got'[c] = Append(got[c], chan[j])
    BY <1>0, <1>3, <2>1 DEF Await, TypeOK
  <2>3. TaskStatus(j)' = "absent"
    BY <1>0, <2>2, ConfigFacts DEF TaskStatus, TypeOK
  <2>4. Plan[c][Len(got[c]) + 1] = j
    BY <1>0, <1>1, <2>0, <2>1, AwaitedIsNext
  <2>5. k \in DOMAIN got[c] \/ k = Len(got[c]) + 1
    <3> DEFINE g == got[c]
    <3>1. g \in Seq(Returned) /\ k \in DOMAIN Append(g, chan[j])
      BY <1>0, <2>2 DEF TypeOK
    <3> HIDE DEF g
    <3>2. k \in DOMAIN g \/ k = Len(g) + 1
      BY <3>1
    <3> QED
      BY <3>2 DEF g
  <2>6. CASE k = Len(got[c]) + 1
    <3>1. Plan[c][k] = j
      BY <2>4, <2>6
    <3> QED
      BY <2>3, <3>1 DEF TaskStatus
  <2> QED
    BY <1>2, <2>5, <2>6
<1>4. ~Refuse(c) /\ ~Cancel(c)
  BY <1>0 DEF Refuse, Cancel, Goto, TypeOK
<1> QED
  BY <1>0, <1>2, <1>3, <1>4, GotChanges

LEMMA WaitedStep ==
  ASSUME IInv, DistinctIds, Accounts, EvictedWasAnswered, ReceiversAreOwn,
         RegisteredIsPending, WaitedForIsTracked, [Next]_vars
  PROVE  WaitedForIsTracked'
<1>0. TypeOK /\ Places /\ OnePlaceOnly /\ SendingHasResult
  BY InvFacts
<1> DEFINE Due(w) == CASE w = "idle"      -> "pending"
                       [] w = "executing" -> "running"
                       [] OTHER           -> "completed"
<1> SUFFICES ASSUME NEW c \in Clients, NEW j \in ToSet(receivers'[c]), chan'[j] = "open"
             PROVE  TaskStatus(j)' = Due(work'[j])
  BY DEF WaitedForIsTracked
<1>r. receivers[c] \in Seq(Jobs)
  BY <1>0 DEF TypeOK
<1>1. ASSUME Enqueue(c), j = Job(c)
      PROVE  TaskStatus(j)' = Due(work'[j])
  <2>1. Untouched(j) /\ TaskStatus(j) = "pending"
    BY <1>1, EnqueuedIsFresh DEF RegisteredIsPending, Registered, Enqueue
  <2>2. active' = active /\ work' = work
    BY <1>1 DEF Enqueue, workVars
  <2> QED
    BY <2>1, <2>2 DEF Untouched, TaskStatus
<1>2. ASSUME j \in ToSet(receivers[c]), ~(Await(c) /\ j = Head(receivers[c])),
             ~GuardDrop(c), ~(Cancel(c) /\ ~IsBatch[c])
      PROVE  TaskStatus(j)' = Due(work'[j])
  <2>1. j \in Jobs
    BY <1>r, <1>2 DEF ToSet
  <2>2. PICK k \in DOMAIN Plan[c] : j = Plan[c][k] /\ ~NotSubmitted(c, k)
    BY <1>2 DEF ReceiversAreOwn
  <2>3. chan[j] = "open"
    BY <1>0, <2>1, ChannelChanges DEF SendingHasResult
  <2>4. TaskStatus(j) = Due(work[j])
    BY <1>2, <2>3 DEF WaitedForIsTracked
  <2>5. ~Forgets(j)
    <3>1. ASSUME Forgets(j) PROVE FALSE
      <4>1. Forgets(Plan[c][k]) /\ chan[Plan[c][k]] # "overflow"
        BY <2>2, <2>3, <3>1
      <4> QED
        BY <4>1, <2>2, <1>2, ForgottenByOwner
    <3> QED
      BY <3>1
  <2>6. ~\E d \in Clients : Register(d) /\ j = Job(d)
    BY <1>0, <2>2, RegisteredOnce
  <2>7. \A w : Due(w) # "absent"
    OBVIOUS
  <2>8. \/ TaskStatus(j)' = TaskStatus(j) /\ work'[j] = work[j]
        \/ TaskStatus(j)' = "running" /\ work'[j] = "executing"
        \/ TaskStatus(j)' = "completed" /\ work'[j] = "sending"
        \/ TaskStatus(j)' = TaskStatus(j) /\ work'[j] \in Executed /\ work[j] = "releasing"
    BY <2>1, <2>4, <2>5, <2>6, <2>7, StatusChanges
  <2> QED
    BY <2>4, <2>8 DEF Executed
<1>3. CASE receivers'[c] = receivers[c] /\ j \in ToSet(receivers[c])
  <2>1. ~Await(c)
    <3>1. ASSUME Await(c) PROVE FALSE
      <4> DEFINE r == receivers[c]
      <4>1. r # <<>> /\ r \in Seq(Jobs)
        BY <3>1, <1>r DEF Await
      <4>2. r = Tail(r)
        BY <1>0, <1>3, <3>1 DEF Await, TypeOK
      <4> HIDE DEF r
      <4>3. Len(Tail(r)) = Len(r) - 1 /\ Len(r) \in Nat
        BY <4>1
      <4>4. Len(Tail(r)) = Len(r)
        BY <4>2
      <4>5. \A n \in Nat : n - 1 # n
        OBVIOUS
      <4> QED
        BY <4>3, <4>4, <4>5
    <3> QED
      BY <3>1
  <2>e. ToSet(<<>>) = {}
    BY DEF ToSet
  <2>2. ~GuardDrop(c)
    <3>1. ASSUME GuardDrop(c) PROVE FALSE
      <4>1. cpc[c] = "leaving"
        BY <3>1 DEF GuardDrop
      <4>2. ~IsBatch[c] /\ receivers[c] = <<>>
        BY <4>1 DEF Accounts, BatchAccount, SingleAccount, Waiting
      <4> QED
        BY <1>3, <2>e, <4>2
    <3> QED
      BY <3>1
  <2>3. ~Cancel(c)
    <3>1. ASSUME Cancel(c) PROVE FALSE
      <4>1. receivers'[c] = <<>>
        BY <1>0, <3>1 DEF Cancel, TypeOK
      <4> QED
        BY <1>3, <2>e, <4>1
    <3> QED
      BY <3>1
  <2> QED
    BY <1>2, <1>3, <2>1, <2>2, <2>3
<1>4. CASE receivers'[c] = <<>>
  BY <1>4 DEF ToSet
<1>5. CASE Await(c) /\ receivers'[c] = Tail(receivers[c])
  <2>1. receivers[c] # <<>> /\ IsInjective(receivers[c]) /\ cpc[c] = "await"
    BY <1>5 DEF Await, ReceiversAreOwn
  <2>2. /\ Tail(receivers[c]) = RemoveAt(receivers[c], 1) /\ 1 \in 1..Len(receivers[c])
        /\ Head(receivers[c]) = receivers[c][1]
    BY <1>r, <2>1, TailIsRemoveAt
  <2>a. ToSet(RemoveAt(receivers[c], 1)) = ToSet(receivers[c]) \ {receivers[c][1]}
    BY <1>r, <2>1, <2>2, RemoveKeepsInjective
  <2>3. j \in ToSet(receivers[c]) /\ j # Head(receivers[c])
    BY <1>5, <2>2, <2>a
  <2>4. ~GuardDrop(c)
    BY <2>1 DEF GuardDrop
  <2>5. ~Cancel(c)
    <3>1. ASSUME Cancel(c) PROVE FALSE
      <4>1. receivers'[c] = <<>>
        BY <1>0, <3>1 DEF Cancel, TypeOK
      <4> QED
        BY <4>1 DEF ToSet
    <3> QED
      BY <3>1
  <2> QED
    BY <1>2, <2>3, <2>4, <2>5
<1>6. CASE Enqueue(c) /\ receivers'[c] = Append(receivers[c], Job(c))
  <2>1. Job(c) \in Jobs
    BY <1>0, NameFacts
  <2>2. j \in ToSet(receivers[c]) \/ j = Job(c)
    BY <1>r, <1>6, <2>1, AppendToSet
  <2>3. ~Await(c) /\ ~GuardDrop(c) /\ ~Cancel(c)
    BY <1>6 DEF Enqueue, Await, GuardDrop, Cancel
  <2> QED
    BY <1>1, <1>2, <1>6, <2>2, <2>3
<1> QED
  BY <1>0, <1>3, <1>4, <1>5, <1>6, ReceiverChanges

\* What a step that moves a single submission on, or ends it, forgets.
LEMMA SingleLeaves ==
  ASSUME IInv, NEW c \in Clients, ~IsBatch[c], SingleAccount(c),
         ClientStep(c) \/ Cancel(c),
         NEW now \in DOMAIN Plan[c], now = idx[c],
         idx'[c] # now \/ cpc'[c] = "done"
  PROVE  TaskStatus(Plan[c][now])' = "absent"
<1>0. TypeOK /\ Job(c) = Plan[c][now] /\ Plan[c][now] \in Jobs
  BY InvFacts, PlanFacts DEF Job
<1>1. TaskId[Plan[c][now]] \in Ids
  BY <1>0, ConfigFacts
<1>2. CASE GuardDrop(c) \/ Cancel(c)
  <2>1. active' = [active EXCEPT ![TaskId[Plan[c][now]]] = "absent"]
    BY <1>0, <1>2 DEF GuardDrop, Cancel
  <2> QED
    BY <1>0, <1>1, <2>1 DEF TaskStatus, TypeOK
<1>3. CASE Await(c)
  <2>1. receivers[c] = <<Job(c)>>
    BY <1>3 DEF Await, SingleAccount, Waiting
  <2>2. Head(receivers[c]) = Plan[c][now]
    BY <1>0, <2>1
  <2>3. active' = [active EXCEPT ![TaskId[Plan[c][now]]] = "absent"]
    BY <1>3, <2>2 DEF Await
  <2> QED
    BY <1>0, <1>1, <2>3 DEF TaskStatus, TypeOK
<1>4. CASE ReturnBatch(c)
  <2>1. receivers[c] = <<Job(c)>> /\ receivers[c] = <<>>
    BY <1>4 DEF ReturnBatch, SingleAccount, Waiting
  <2> QED
    BY <2>1
<1>5. ASSUME ClientStep(c), ~GuardDrop(c), ~Await(c), ~ReturnBatch(c)
      PROVE  FALSE
  <2>1. idx'[c] = now /\ cpc'[c] # "done"
    BY <1>0, <1>5 DEF ClientStep, Register, HasRoom, Overflow, Refuse, RefuseBatch,
       SkipInBatch, Unblock, Evict, Untrack, Enqueue, Ensure, SpawnLoop, StoreHandle,
       Goto, TypeOK
  <2> QED
    BY <2>1
<1> QED
  BY <1>2, <1>3, <1>4, <1>5

\* A batch that has just returned with an answer for each of its jobs has awaited
\* them all.
LEMMA BatchLeaves ==
  ASSUME IInv, NEW c \in Clients, IsBatch[c], BatchAccount(c),
         ClientStep(c) \/ Cancel(c), cpc[c] # "done",
         cpc'[c] = "done", Len(got'[c]) = Len(Plan[c]), "cancelled" \notin ToSet(got'[c])
  PROVE  got'[c] = got[c] /\ NoneSkipped(c) /\ active' = active
<1>0. TypeOK
  BY InvFacts
<1> DEFINE g == got[c]  r == receivers[c]  i == idx[c]  p == Len(Plan[c])
<1>g. /\ g \in Seq(Returned) /\ Len(g) \in Nat /\ i \in Nat /\ i <= p
      /\ p \in Nat /\ p >= 1
  BY <1>0, ClientSeqs
<1>1. ASSUME RefuseBatch(c) PROVE FALSE
  <2>1. g = <<>> /\ got'[c] = g
    BY <1>1 DEF RefuseBatch, BatchAccount
  <2>2. p = 0
    BY <2>1
  <2> QED
    BY <1>g, <2>2
<1>2. ASSUME Cancel(c) PROVE FALSE
  <2>1. got'[c] = Append(g, "cancelled")
    BY <1>0, <1>2 DEF Cancel, TypeOK
  <2>2. "cancelled" \in ToSet(Append(g, "cancelled"))
    <3> HIDE DEF g
    <3>1. "cancelled" \in Returned
      BY DEF Returned
    <3>2. ToSet(Append(g, "cancelled")) = ToSet(g) \cup {"cancelled"}
      BY <1>g, <3>1, AppendToSet
    <3> QED
      BY <3>2
  <2> QED
    BY <2>1, <2>2
<1>3. CASE ReturnBatch(c)
  <2>1. r = <<>> /\ got'[c] = g /\ active' = active /\ cpc[c] = "await"
    BY <1>3 DEF ReturnBatch
  <2>2. Len(r) = 0 /\ Passed(c) = i /\ Len(g) = p /\ Len(g) <= i
    BY <2>1 DEF Passed, BeforeEnqueue, BatchAccount
  <2>3. Len(g) + Len(r) = i
    <3> HIDE DEF g, r, i, p
    <3> QED
      BY <1>g, <2>2
  <2> QED
    BY <2>1, <2>2, <2>3 DEF NoneSkipped
<1>4. ASSUME ClientStep(c), ~RefuseBatch(c), ~ReturnBatch(c)
      PROVE  FALSE
  <2>1. cpc'[c] # "done"
    BY <1>0, <1>4 DEF ClientStep, Register, HasRoom, Overflow, Refuse,
       SkipInBatch, Unblock, Evict, Untrack, Enqueue, Ensure, SpawnLoop, StoreHandle,
       Await, GuardDrop, BatchAccount, NextJob, Goto, TypeOK
  <2> QED
    BY <2>1
<1> QED
  BY <1>1, <1>2, <1>3, <1>4

\* Nothing is left behind by what has returned, or comes back.
LEMMA StaleStep ==
  ASSUME IInv, DistinctIds, Accounts, AnsweredAreForgotten, NoStaleEntry, [Next]_vars
  PROVE  NoStaleEntry'
<1>0. TypeOK
  BY InvFacts
<1>f. ASSUME NEW c \in Clients, ~(ClientStep(c) \/ Cancel(c))
      PROVE  cpc'[c] = cpc[c] /\ idx'[c] = idx[c] /\ got'[c] = got[c]
  <2>1. ASSUME NEW d \in Clients, ClientStep(d) \/ Cancel(d)
        PROVE  cpc'[c] = cpc[c] /\ idx'[c] = idx[c] /\ got'[c] = got[c]
    BY <1>0, <1>f, <2>1, ClientFrame
  <2> QED
    BY <2>1, OthersFrame DEF Next, AllReturned, vars, clientVars
<1>1. ASSUME NEW c \in Clients, ~IsBatch[c], NEW k \in 1..idx'[c],
             k < idx'[c] \/ cpc'[c] = "done"
      PROVE  TaskStatus(Plan[c][k])' = "absent"
  <2> DEFINE i == idx[c]
  <2>0. i \in Nat /\ i \in DOMAIN Plan[c] /\ DOMAIN Plan[c] = 1..Len(Plan[c]) /\ Len(Plan[c]) \in Nat
    BY <1>0, PlanFacts DEF TypeOK
  <2>1. ASSUME k \in Nat, k >= 1, k < i \/ (k = i /\ cpc[c] = "done")
        PROVE  TaskStatus(Plan[c][k])' = "absent"
    <3> HIDE DEF i
    <3>1. k \in DOMAIN Plan[c] /\ k \in 1..i /\ (k < i \/ cpc[c] = "done")
      BY <2>0, <2>1
    <3>2. TaskStatus(Plan[c][k]) = "absent"
      BY <1>1, <3>1 DEF NoStaleEntry, i
    <3>3. ~NotSubmitted(c, k)
      <4>1. ~(k > i) /\ (k = i => cpc[c] = "done")
        BY <2>0, <2>1
      <4> QED
        BY <4>1 DEF NotSubmitted, BeforeEnqueue, i
    <3> QED
      BY <3>1, <3>2, <3>3, AbsentStays
  <2>2. CASE ~(ClientStep(c) \/ Cancel(c))
    <3>1. cpc'[c] = cpc[c] /\ idx'[c] = i
      BY <1>f, <2>2
    <3>2. k \in 1..i /\ (k < i \/ cpc[c] = "done")
      BY <1>1, <3>1
    <3> HIDE DEF i
    <3>3. k \in Nat /\ k >= 1 /\ (k < i \/ (k = i /\ cpc[c] = "done"))
      BY <2>0, <3>2
    <3> QED
      BY <2>1, <3>3
  <2>3. CASE ClientStep(c) \/ Cancel(c)
    <3>1. idx'[c] = i \/ (idx'[c] = i + 1 /\ cpc'[c] = "register")
      BY <1>0, <2>3 DEF ClientStep, Register, HasRoom, Overflow, Refuse, RefuseBatch,
         SkipInBatch, Unblock, Evict, Untrack, Enqueue, Ensure, SpawnLoop, StoreHandle,
         Await, ReturnBatch, GuardDrop, Cancel, NextJob, Goto, TypeOK
    <3>2. PICK ni \in Nat : ni = idx'[c]
      BY <2>0, <3>1
    <3>3. k \in Nat /\ k >= 1 /\ (k < i \/ (k = i /\ (ni # i \/ cpc'[c] = "done")))
      <4>1. k \in 1..ni /\ (k < ni \/ cpc'[c] = "done")
        BY <1>1, <3>2
      <4>2. ni = i \/ (ni = i + 1 /\ cpc'[c] # "done")
        BY <3>1, <3>2
      <4> HIDE DEF i
      <4> QED
        BY <2>0, <4>1, <4>2
    <3>4. CASE k < i
      BY <2>1, <3>3, <3>4
    <3>5. CASE k = i /\ (ni # i \/ cpc'[c] = "done")
      <4>1. k \in DOMAIN Plan[c] /\ k = idx[c] /\ (idx'[c] # k \/ cpc'[c] = "done")
        BY <2>0, <3>2, <3>5
      <4>2. SingleAccount(c)
        BY <1>1 DEF Accounts
      <4> QED
        BY <1>1, <2>3, <4>1, <4>2, SingleLeaves
    <3> QED
      BY <3>3, <3>4, <3>5
  <2> QED
    BY <2>2, <2>3
<1>2. ASSUME NEW c \in Clients, IsBatch[c], cpc'[c] = "done",
             Len(got'[c]) = Len(Plan[c]), "cancelled" \notin ToSet(got'[c]),
             NEW k \in DOMAIN Plan[c]
      PROVE  TaskStatus(Plan[c][k])' = "absent"
  <2>1. CASE cpc[c] # "done" /\ (ClientStep(c) \/ Cancel(c))
    <3>1. got'[c] = got[c] /\ NoneSkipped(c) /\ active' = active
      BY <1>2, <2>1, BatchLeaves DEF Accounts
    <3>2. k \in DOMAIN got[c]
      BY <1>0, <1>2, <3>1, ClientSeqs, PlanFacts
    <3>3. TaskStatus(Plan[c][k]) = "absent"
      BY <1>2, <2>1, <3>1, <3>2 DEF AnsweredAreForgotten
    <3> QED
      BY <3>1, <3>3 DEF TaskStatus
  <2>2. CASE cpc[c] = "done" \/ ~(ClientStep(c) \/ Cancel(c))
    <3>1. ~(ClientStep(c) \/ Cancel(c))
      BY <2>2 DEF ClientStep, Register, HasRoom, Overflow, Refuse, RefuseBatch,
         SkipInBatch, Unblock, Evict, Untrack, Enqueue, Ensure, SpawnLoop, StoreHandle,
         Await, ReturnBatch, GuardDrop, Cancel
    <3>2. cpc[c] = "done" /\ got'[c] = got[c]
      BY <1>2, <1>f, <3>1
    <3>3. TaskStatus(Plan[c][k]) = "absent"
      BY <1>2, <3>2 DEF NoStaleEntry
    <3>4. k \in DOMAIN got[c]
      BY <1>0, <1>2, <3>2, ClientSeqs, PlanFacts
    <3>5. ~NotSubmitted(c, k)
      BY <1>0, <3>4, AnsweredArePast
    <3> QED
      BY <3>3, <3>5, AbsentStays
  <2> QED
    BY <2>1, <2>2
<1> QED
  BY <1>1, <1>2 DEF NoStaleEntry

LEMMA InitStatuses == Init => StatusInv
<1> SUFFICES ASSUME Init PROVE StatusInv
  OBVIOUS
<1>1. RegisteredIsPending /\ EvictedWasAnswered /\ AnsweredAreForgotten
  BY DEF Init, RegisteredIsPending, Registered, EvictedWasAnswered, AnsweredAreForgotten
<1>2. ReceiversAreOwn /\ WaitedForIsTracked
  BY DEF Init, ReceiversAreOwn, WaitedForIsTracked, ToSet, IsInjective
<1>3. NoStaleEntry
  BY DEF Init, NoStaleEntry
<1> QED
  BY <1>1, <1>2, <1>3 DEF StatusInv, StatusTruthful

\* With distinct task ids, active_tasks says of every job whose submitter waits what
\* it does, and has forgotten every job whose submission has returned: whatever
\* loops, workers, evictions and cancellations write to it, and in any order.  Two
\* tasks with one id overwrite and remove each other's entry, so the hypothesis
\* cannot be dropped.
THEOREM StatusesAreTruthful == DistinctIds => (Spec => []StatusTruthful)
<1> SUFFICES ASSUME DistinctIds PROVE Spec => []StatusTruthful
  OBVIOUS
<1>1. IInv /\ AnswerInv /\ StatusInv /\ [Next]_vars => StatusInv'
  BY EvictedStep, ReceiversStep, RegisteredStep, ForgottenStep, WaitedStep, StaleStep
     DEF AnswerInv, StatusInv, StatusTruthful
<1>2. StatusInv => StatusTruthful
  BY DEF StatusInv
<1> QED
  BY <1>1, <1>2, InitStatuses, AnswersInvariant, InductiveInvariant, PTL DEF Spec

-----------------------------------------------------------------------------
(* The scheduler is a job pool. *)

\* At most job j changes its state in the pool.
OnlyMoves(j) == \A i \in Jobs : i # j => JobState(i)' = JobState(i)

LEMMA PoolMove ==
  ASSUME NEW j \in Jobs, NEW from, NEW to,
         JobState(j) = from, JobState(j)' = to, OnlyMoves(j)
  PROVE  Pool!Move(j, from, to)
<1> DEFINE f == [i \in Jobs |-> JobState(i)]
<1>1. f[j] = from
  OBVIOUS
<1>2. f' = [i \in Jobs |-> IF i = j THEN to ELSE JobState(i)]
  BY DEF OnlyMoves, JobState, InQueue, IsHeld
<1>3. f' = [f EXCEPT ![j] = to]
  BY <1>2
<1> QED
  BY <1>1, <1>3 DEF Pool!Move

LEMMA PoolStutter ==
  ASSUME \A j \in Jobs : JobState(j)' = JobState(j)
  PROVE  UNCHANGED [j \in Jobs |-> JobState(j)]
  BY DEF JobState, InQueue, IsHeld

\* A job keeps its state if it is waiting for the same reason or not at all.
LEMMA SameState ==
  ASSUME NEW j \in Jobs, chan'[j] = chan[j], work'[j] = work[j],
         (InQueue(j) \/ IsHeld(j))' <=> (InQueue(j) \/ IsHeld(j))
  PROVE  JobState(j)' = JobState(j)
  BY DEF JobState

LEMMA EnqueueIsSubmit ==
  ASSUME IInv, NEW c \in Clients, Enqueue(c)
  PROVE  Pool!Submit(Job(c))
<1>0. TypeOK /\ Places /\ queue \in Seq(Jobs) /\ IsInjective(queue)
  BY InvFacts DEF TypeOK, OnePlaceOnly
<1>1. UNCHANGED <<work, held, chan>>
  BY DEF Enqueue, loopVars, workVars
<1>2. PICK e \in Jobs : e = Job(c)
  BY <1>0, NameFacts
<1>3. PICK pos \in 1..(Len(queue) + 1) : queue' = InsertAt(queue, pos, e)
  BY <1>2 DEF Enqueue
<1>4. Untouched(e)
  BY <1>2, EnqueuedIsFresh
<1>5. ToSet(queue') = ToSet(queue) \cup {e}
  BY <1>0, <1>3, <1>4, InsertKeepsInjective DEF Untouched
<1>6. OnlyMoves(e)
  BY <1>1, <1>5, SameState DEF OnlyMoves, InQueue, IsHeld
<1>7. JobState(e) = "new"
  BY <1>4 DEF JobState, InQueue, IsHeld, Untouched
<1>8. JobState(e)' = "waiting"
  BY <1>1, <1>4, <1>5 DEF JobState, InQueue, Untouched
<1> QED
  BY <1>2, <1>6, <1>7, <1>8, PoolMove DEF Pool!Submit

LEMMA EvictIsDiscard ==
  ASSUME IInv, NEW c \in Clients, Evict(c), queue # <<>>
  PROVE  \E j \in Jobs : Pool!Discard(j)
<1>0. TypeOK /\ OnePlaceOnly /\ queue \in Seq(Jobs) /\ IsInjective(queue)
  BY InvFacts DEF TypeOK, OnePlaceOnly
<1>1. PICK h \in Jobs : h = Head(queue)
  BY <1>0
<1>2. /\ queue' = Tail(queue) /\ chan' = [chan EXCEPT ![h] = "overflow"]
      /\ UNCHANGED <<work, held>>
  BY <1>1 DEF Evict, loopVars, workVars
<1>3. ToSet(queue') = ToSet(queue) \ {h} /\ h \in ToSet(queue)
  <2>1. Tail(queue) = RemoveAt(queue, 1) /\ h = queue[1] /\ 1 \in 1..Len(queue)
    BY <1>0, <1>1, TailIsRemoveAt
  <2>2. h \in ToSet(queue)
    BY <1>0, <2>1 DEF ToSet
  <2> QED
    BY <1>0, <1>2, <2>1, <2>2, RemoveKeepsInjective
<1>4. \A i \in Jobs : chan'[i] = IF i = h THEN "overflow" ELSE chan[i]
  BY <1>0, <1>2 DEF TypeOK
<1>5. OnlyMoves(h)
  BY <1>2, <1>3, <1>4, SameState DEF OnlyMoves, InQueue, IsHeld
<1>6. chan[h] = "open" /\ work[h] = "idle" /\ ~IsHeld(h)
  BY <1>0, <1>3 DEF OnePlaceOnly, InQueue
<1>7. JobState(h) = "waiting"
  BY <1>3, <1>6 DEF JobState, InQueue
<1>8. JobState(h)' = "discarded"
  BY <1>2, <1>3, <1>4, <1>6 DEF JobState, InQueue, IsHeld
<1> QED
  BY <1>5, <1>7, <1>8, PoolMove DEF Pool!Discard

\* A job that a loop takes goes on waiting.
LEMMA PopIsStutter ==
  ASSUME IInv, NEW l \in Loops, Pop(l)
  PROVE  \A j \in Jobs : JobState(j)' = JobState(j)
<1>0. /\ TypeOK /\ OnePlaceOnly /\ queue \in Seq(Jobs) /\ IsInjective(queue)
      /\ held \in [Loops -> Jobs \cup {NoJob}] /\ HeldIffMark
  BY InvFacts DEF TypeOK, OnePlaceOnly, Places
<1>1. PICK pos \in DOMAIN queue :
        held' = [held EXCEPT ![l] = queue[pos]] /\ queue' = RemoveAt(queue, pos)
  BY DEF Pop
<1>2. PICK e \in Jobs : e = queue[pos]
  BY <1>0
<1>3. ToSet(queue') = ToSet(queue) \ {e} /\ e \in ToSet(queue)
  <2>1. pos \in 1..Len(queue)
    BY <1>0
  <2>2. ToSet(queue') = ToSet(queue) \ {e}
    BY <1>0, <1>1, <1>2, <2>1, RemoveKeepsInjective
  <2> QED
    BY <1>2, <2>2 DEF ToSet
<1>4. UNCHANGED <<work, chan>> /\ held[l] = NoJob
  BY <1>0 DEF Pop, workVars, HeldIffMark
<1>5. \A m \in Loops : held'[m] = IF m = l THEN e ELSE held[m]
  BY <1>0, <1>1, <1>2
<1>6. \A j \in Jobs : (InQueue(j) \/ IsHeld(j))' <=> (InQueue(j) \/ IsHeld(j))
  BY <1>3, <1>4, <1>5, ConfigFacts DEF InQueue, IsHeld
<1> QED
  BY <1>4, <1>6, SameState

\* The permit a marking loop holds is one that no running job has.
LEMMA MarkHasPermit ==
  ASSUME IInv, NEW l \in Loops, loopPc[l] = "mark"
  PROVE  Cardinality({j \in Jobs : JobState(j) = "running"}) < MaxJobs
<1> DEFINE R == {j \in Jobs : JobState(j) = "running"}
<1>1. R \subseteq WorkHolders
  BY DEF JobState, WorkHolders
<1>2. Cardinality(R) <= Cardinality(WorkHolders) /\ Cardinality(R) \in Nat
  BY <1>1, HoldersFinite, FS_Subset, FS_CardinalityType
<1>3. l \in LoopHolders
  BY DEF LoopHolders
<1>4. Cardinality(LoopHolders) # 0
  BY <1>3, HoldersFinite, FS_EmptySet
<1>5. MaxJobs - permits = Cardinality(LoopHolders) + Cardinality(WorkHolders)
  BY DEF IInv, PermitsConserved, ActiveWorkers
<1>6. permits \in Nat /\ MaxJobs \in Nat
  BY ConfigFacts DEF IInv, TypeOK
<1> HIDE DEF R
<1>7. Cardinality(R) < MaxJobs
  BY <1>2, <1>4, <1>5, <1>6, HoldersFinite
<1> QED
  BY <1>7 DEF R

LEMMA MarkIsStart ==
  ASSUME IInv, NEW l \in Loops, Mark(l)
  PROVE  Pool!Start(held[l])
<1>0. TypeOK /\ Places /\ OnePlaceOnly
  BY InvFacts
<1>1. PICK e \in Jobs : e = held[l]
  BY <1>0, MarkFacts
<1>2. /\ work[e] = "idle" /\ loopPc[l] = "mark"
      /\ \A m \in Loops : held'[m] = IF m = l THEN NoJob ELSE held[m]
      /\ \A j \in Jobs : work'[j] = IF j = e THEN "executing" ELSE work[j]
      /\ UNCHANGED <<queue, chan>>
  BY <1>0, <1>1, MarkFacts
<1>3. IsHeld(e) /\ chan[e] = "open" /\ ~InQueue(e)
  BY <1>0, <1>1 DEF OnePlaceOnly, IsHeld
<1>4. ~IsHeld(e)'
  BY <1>0, <1>1, <1>2, ConfigFacts DEF OnePlaceOnly, IsHeld
<1>5. \A i \in Jobs : i # e => (IsHeld(i)' <=> IsHeld(i))
  BY <1>1, <1>2, ConfigFacts DEF IsHeld
<1>6. OnlyMoves(e)
  BY <1>2, <1>5, SameState DEF OnlyMoves, InQueue
<1>7. JobState(e) = "waiting"
  BY <1>2, <1>3 DEF JobState
<1>8. JobState(e)' = "running"
  BY <1>2, <1>3, <1>4 DEF JobState, InQueue
<1>9. Pool!Move(e, "waiting", "running")
  BY <1>6, <1>7, <1>8, PoolMove
<1>10. Pool!Running = {j \in Jobs : JobState(j) = "running"}
  BY DEF Pool!Running
<1>11. Pool!Cardinality(Pool!Running) = Cardinality(Pool!Running)
  BY DEF Pool!Cardinality, Cardinality
<1> QED
  BY <1>1, <1>2, <1>9, <1>10, <1>11, MarkHasPermit DEF Pool!Start

LEMMA WorkerIsFinish ==
  ASSUME IInv, NEW j \in Jobs, WorkerStep(j)
  PROVE  Pool!Finish(j) \/ \A i \in Jobs : JobState(i)' = JobState(i)
<1>0. TypeOK /\ Places /\ OnePlaceOnly /\ SendingHasResult
  BY InvFacts
<1>1. /\ UNCHANGED <<queue, held>> /\ work[j] # "idle"
      /\ \A i \in Jobs : i # j => work'[i] = work[i] /\ chan'[i] = chan[i]
      /\ chan'[j] # "overflow" \/ chan'[j] = chan[j]
      /\ work'[j] \in {"sending", "releasing", "finished"}
      /\ work[j] \in {"executing", "sending", "releasing"}
  BY <1>0 DEF WorkerStep, Complete, Panic, Send, Release, SetStatus, loopVars,
     TypeOK, SendingHasResult
<1>2. chan[j] # "overflow" /\ chan'[j] # "overflow" /\ ~InQueue(j) /\ ~IsHeld(j)
  BY <1>0, <1>1 DEF OnePlaceOnly
<1>3. OnlyMoves(j)
  BY <1>1, SameState DEF OnlyMoves, InQueue, IsHeld
<1>4. JobState(j)' = "finished"
  BY <1>1, <1>2 DEF JobState, InQueue, IsHeld
<1>5. CASE work[j] = "executing"
  <2>1. JobState(j) = "running"
    BY <1>2, <1>5 DEF JobState
  <2> QED
    BY <1>3, <1>4, <2>1, PoolMove DEF Pool!Finish
<1>6. CASE work[j] # "executing"
  <2>1. JobState(j) = "finished"
    BY <1>1, <1>2, <1>6 DEF JobState
  <2> QED
    BY <1>3, <1>4, <2>1 DEF OnlyMoves
<1> QED
  BY <1>5, <1>6

\* The pool sees neither the other steps of clients nor those of loops.
LEMMA QuietIsStutter ==
  ASSUME UNCHANGED <<queue, held, work, chan>>
  PROVE  \A j \in Jobs : JobState(j)' = JobState(j)
  BY SameState DEF InQueue, IsHeld

LEMMA PoolStep ==
  ASSUME IInv, [Next]_vars
  PROVE  [Pool!Next]_[j \in Jobs |-> JobState(j)]
<1>0. TypeOK /\ Places
  BY InvFacts
<1> DEFINE Same == \A j \in Jobs : JobState(j)' = JobState(j)
<1>1. ASSUME NEW c \in Clients, ClientStep(c) \/ Cancel(c)
      PROVE  Same \/ Pool!Next
  <2>1. CASE Enqueue(c)
    BY <1>0, <2>1, EnqueueIsSubmit, NameFacts DEF Pool!Next
  <2>2. CASE Evict(c) /\ queue # <<>>
    BY <2>2, EvictIsDiscard DEF Pool!Next
  <2>3. CASE ~Enqueue(c) /\ ~(Evict(c) /\ queue # <<>>)
    <3>1. UNCHANGED <<queue, held, work, chan>>
      BY <1>1, <2>3 DEF ClientStep, Register, HasRoom, Overflow, Refuse,
         RefuseBatch, SkipInBatch, Unblock, Evict, Untrack, Ensure, SpawnLoop, StoreHandle,
         Await, ReturnBatch, GuardDrop, Cancel, loopVars, workVars
    <3> QED
      BY <3>1, QuietIsStutter
  <2> QED
    BY <2>1, <2>2, <2>3
<1>2. ASSUME NEW l \in Loops, LoopStep(l)
      PROVE  Same \/ Pool!Next
  <2>1. CASE Pop(l)
    BY <2>1, PopIsStutter
  <2>2. CASE Mark(l)
    <3>1. held[l] \in Jobs
      BY <1>0, <2>2, MarkFacts
    <3> QED
      BY <2>2, <3>1, MarkIsStart DEF Pool!Next
  <2>3. CASE ~Pop(l) /\ ~Mark(l)
    <3>1. UNCHANGED <<queue, held, work, chan>>
      BY <1>2, <2>3 DEF LoopStep, CheckPending, CheckActive, LoopEnds, Acquire,
         PopNothing, workVars
    <3> QED
      BY <3>1, QuietIsStutter
  <2> QED
    BY <2>1, <2>2, <2>3
<1>3. ASSUME NEW j \in Jobs, WorkerStep(j)
      PROVE  Same \/ Pool!Next
  BY <1>3, WorkerIsFinish DEF Pool!Next
<1>4. CASE UNCHANGED vars
  BY <1>4, QuietIsStutter DEF vars, loopVars, workVars
<1>5. Same \/ Pool!Next
  BY <1>1, <1>2, <1>3, <1>4 DEF Next, AllReturned
<1> QED
  BY <1>5, PoolStutter

LEMMA PoolInit == Init => Pool!Init
<1> SUFFICES ASSUME Init PROVE Pool!Init
  OBVIOUS
<1>1. \A j \in Jobs : JobState(j) = "new"
  <2>1. ToSet(<<>>) = {}
    BY DEF ToSet
  <2>2. \A j \in Jobs : ~InQueue(j) /\ ~IsHeld(j) /\ chan[j] = "open" /\ work[j] = "idle"
    BY <2>1, ConfigFacts DEF Init, InQueue, IsHeld
  <2> QED
    BY <2>2 DEF JobState
<1> QED
  BY <1>1 DEF Pool!Init

\* Whatever the clients, the loops and the workers do, the scheduler is the abstract
\* job pool: a job is accepted once, runs at most once and with less than
\* max_concurrent_jobs others, and is discarded only while it waits.
THEOREM SchedulerIsAJobPool == Spec => ImplementsJobPool
<1>1. IInv /\ [Next]_vars => [Pool!Next]_[j \in Jobs |-> JobState(j)]
  BY PoolStep
<1> QED
  BY <1>1, PoolInit, InductiveInvariant, PTL DEF Spec, ImplementsJobPool, Pool!Spec
=============================================================================
