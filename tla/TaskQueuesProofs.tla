-------------------------- MODULE TaskQueuesProofs --------------------------
(***************************************************************************)
(* TaskQueues for any set of queues, any merges and pauses the assumptions *)
(* allow, and any number of tasks.                                         *)
(*                                                                         *)
(* Queues is the part of the invariant about merges, Tasks that about the  *)
(* tasks handed out; NoLostWakeup needs both, and that a loop which goes   *)
(* to sleep has looked at the least of its tasks: FirstTask, the only fact *)
(* here about an order, comes from the least-number principle in the       *)
(* library's theorem on minimal elements of well-founded relations.        *)
(***************************************************************************)
EXTENDS TaskQueues, WellFoundedInduction, TLAPS

-----------------------------------------------------------------------------
(* The first of the pending tasks *)

Less == {p \in Nat \X Nat : p[1] < p[2]}

(* A set of natural numbers that is not empty has a least element.          *)
LEMMA LeastNumber ==
    ASSUME NEW S \in SUBSET Nat, S # {}
    PROVE  \E x \in S : \A y \in S : x <= y
<1>1. OpToRel(<, Nat) = Less
  BY Zenon DEF OpToRel, Less
<1>2. IsWellFoundedOn(Less, Nat)
  BY <1>1, NatLessThanWellFounded, Zenon
<1>3. PICK x \in S : \A y \in S : ~(<<y, x>> \in Less)
  BY <1>2, WFMin, Zenon
<1>4. ASSUME NEW y \in S PROVE x <= y
  <2>1. <<y, x>> \in Nat \X Nat /\ <<y, x>>[1] = y /\ <<y, x>>[2] = x
    OBVIOUS
  <2>2. ~(y < x)
    BY <1>3, <2>1 DEF Less
  <2> QED BY <2>2
<1> QED BY <1>3, <1>4

Ordered(S) == \A t, u \in S : t.order = u.order => t = u
First(t, S) == t \in S /\ \A u \in S : u = t \/ Before(t, u)

(* Tasks of different orders have a first one.                              *)
LEMMA FirstTask ==
    ASSUME NEW S \in SUBSET Task, S # {}, Ordered(S)
    PROVE  \E t \in S : First(t, S)
<1>0. \A t \in S : t.time \in Nat /\ t.order \in Nat
  BY BoundsAssumption DEF Task, Time
<1> DEFINE times == {t.time : t \in S}
<1>1. times \in SUBSET Nat /\ times # {}
  BY <1>0
<1>2. PICK x \in times : \A y \in times : x <= y
  BY <1>1, LeastNumber
<1> DEFINE orders == {t.order : t \in {u \in S : u.time = x}}
<1>3. orders \in SUBSET Nat /\ orders # {}
  BY <1>0, <1>2
<1>4. PICK o \in orders : \A p \in orders : o <= p
  BY <1>3, LeastNumber
<1>5. PICK t \in S : t.time = x /\ t.order = o
  BY <1>4
<1>6. ASSUME NEW u \in S PROVE u = t \/ Before(t, u)
  <2>1. x <= u.time
    BY <1>2
  <2>2. u.time = x => o <= u.order
    BY <1>4
  <2>3. u.order = o => u = t
    BY <1>5 DEF Ordered
  <2>4. u.time \in Nat /\ u.order \in Nat /\ x \in Nat /\ o \in Nat
    BY <1>0, <1>5
  <2> QED BY <1>5, <2>1, <2>2, <2>3, <2>4 DEF Before
<1> QED BY <1>5, <1>6 DEF First

(* CHOOSE takes it.                                                         *)
LEMMA FirstIsChosen ==
    ASSUME NEW S \in SUBSET Task, S # {}, Ordered(S)
    PROVE  First(CHOOSE t \in S : \A u \in S : u = t \/ Before(t, u), S)
BY FirstTask, Zenon DEF First


-----------------------------------------------------------------------------
(* The steps, with the two queues of a merge named.                         *)
LEMMA StepCases ==
    ASSUME [Next]_vars
    PROVE  \/ \E q \in Queue, g \in Grade, time \in Time : RegisterTask(q, g, time)
           \/ \E q \in Pausable : PauseSecondarySource(q) \/ ResumeSecondarySource(q)
           \/ \E o, s \in Queue : <<o, s>> \in Mergeable /\ (Merge(o, s) \/ Unmerge(o, s))
           \/ \E q \in Queue : \/ OnEventFired(q) \/ NothingPending(q) \/ NothingDue(q)
                               \/ GetNextTaskToRun(q) \/ TaskReturns(q)
           \/ Tick
           \/ UNCHANGED vars
<1>1. ASSUME NEW pair \in Mergeable, Merge(pair[1], pair[2]) \/ Unmerge(pair[1], pair[2])
      PROVE  \E o, s \in Queue : <<o, s>> \in Mergeable /\ (Merge(o, s) \/ Unmerge(o, s))
  <2>1. pair[1] \in Queue /\ pair[2] \in Queue /\ pair = <<pair[1], pair[2]>>
    BY MergeableAssumption
  <2> QED BY <1>1, <2>1, Zenon
<1>2. ASSUME NEW q \in Queue, NEW time \in Time, RegisterTask(q, "primary", time)
      PROVE  \E p \in Queue, g \in Grade, t \in Time : RegisterTask(p, g, t)
  <2>1. "primary" \in Grade
    BY DEF Grade
  <2> QED BY <1>2, <2>1, Zenon
<1>3. ASSUME NEW q \in Pausable, NEW time \in Time, RegisterTask(q, "secondary", time)
      PROVE  \E p \in Queue, g \in Grade, t \in Time : RegisterTask(p, g, t)
  <2>1. "secondary" \in Grade /\ q \in Queue
    BY PausableAssumption DEF Grade
  <2> QED BY <1>3, <2>1, Zenon
<1> QED BY <1>1, <1>2, <1>3, Zenon DEF Next, LoopStep

-----------------------------------------------------------------------------
(* The table *)

Table ==
    /\ order \in 0..MaxTask /\ tasks \subseteq Task /\ ran \subseteq Task
    /\ pauses \in [Queue -> Nat]
    /\ ownerOf \in [Queue -> SUBSET Queue] /\ subsumedBy \in [Queue -> Queue \cup {kUnmerged}]

Loops ==
    /\ now \in Time
    /\ loop \in [Queue -> [at : {"poll", "flush", "run"}, from : Time]]
    /\ \A q \in Queue : loop[q].from <= now
    /\ changes \in 0..MaxChange

\* Orders are given once, and a task handed out is gone from its source.
Book ==
    /\ \A t \in tasks \cup ran : t.order < order
    /\ Ordered(tasks \cup ran)
    /\ tasks \cap ran = {}

(* A queue with pending tasks has a first one, and Peek finds it.           *)
LEMMA PeekIsFirst ==
    ASSUME Table, Book, NEW q \in Queue, Pending(q) # {}
    PROVE  First(Peek(q), Pending(q)) /\ Peek(q) \in tasks
<1>1. Pending(q) \subseteq tasks
  BY DEF Pending, Source
<1>2. Pending(q) \in SUBSET Task /\ Ordered(Pending(q))
  BY <1>1 DEF Table, Book, Ordered
<1>3. First(Peek(q), Pending(q))
  BY <1>2, FirstIsChosen DEF Peek
<1> QED BY <1>1, <1>3 DEF First

(* Types, that no flush is ahead of the clock, and that tasks are handed    *)
(* out once.                                                                *)
LEMMA TableTyping == Spec => [](Table /\ Loops /\ Book)
<1> USE BoundsAssumption DEF Time
<1>1. Init => Table /\ Loops /\ Book
  BY DEF Init, Table, Loops, Polling, Book, Ordered
<1>2. ASSUME Table, Loops, Book, [Next]_vars PROVE (Table /\ Loops /\ Book)'
  <2>1. ASSUME NEW q \in Queue, NEW g \in Grade, NEW time \in Time, RegisterTask(q, g, time)
        PROVE  (Table /\ Loops /\ Book)'
    <3> DEFINE new == [order |-> order, queue |-> q, grade |-> g, time |-> time]
    <3>1. order' = order + 1 /\ order' \in 0..MaxTask /\ new \in Task /\ new.order = order
      BY <2>1, <1>2 DEF RegisterTask, Table, Task
    <3>2. tasks' = tasks \cup {new} /\ ran' = ran
      BY <2>1 DEF RegisterTask
    <3>3. Table'
      BY <2>1, <1>2, <3>1, <3>2 DEF RegisterTask, Table
    <3>4. Loops'
      BY <2>1, <1>2 DEF RegisterTask, Loops
    <3>5. \A t \in tasks \cup ran : t.order \in Nat /\ t.order < order
      BY <1>2 DEF Book, Table, Task
    <3>6. Book'
      <4> HIDE DEF new
      <4>1. \A t \in tasks' \cup ran' : t = new \/ t \in tasks \cup ran
        BY <3>2
      <4>2. \A t \in tasks' \cup ran' : t.order < order'
        BY <1>2, <3>1, <3>5, <4>1 DEF Table
      <4>3. Ordered(tasks' \cup ran')
        BY <1>2, <3>1, <3>5, <4>1 DEF Ordered, Book, Table
      <4>4. tasks' \cap ran' = {}
        BY <1>2, <3>1, <3>2, <3>5 DEF Book, Table
      <4> QED BY <4>2, <4>3, <4>4 DEF Book
    <3> QED BY <3>3, <3>4, <3>6
  <2>2. ASSUME NEW q \in Pausable, PauseSecondarySource(q)
        PROVE  (Table /\ Loops /\ Book)'
    BY <2>2, <1>2, PausableAssumption DEF PauseSecondarySource, Counted, Table, Loops, Book, Ordered
  <2>3. ASSUME NEW q \in Pausable, ResumeSecondarySource(q)
        PROVE  (Table /\ Loops /\ Book)'
    BY <2>3, <1>2, PausableAssumption DEF ResumeSecondarySource, Table, Loops, Book, Ordered
  <2>4. ASSUME NEW o \in Queue, NEW s \in Queue, <<o, s>> \in Mergeable, Merge(o, s)
        PROVE  (Table /\ Loops /\ Book)'
    BY <2>4, <1>2 DEF Merge, Counted, Table, Loops, Polling, Book, Ordered
  <2>5. ASSUME NEW o \in Queue, NEW s \in Queue, <<o, s>> \in Mergeable, Unmerge(o, s)
        PROVE  (Table /\ Loops /\ Book)'
    BY <2>5, <1>2 DEF Unmerge, Counted, Table, Loops, Polling, Book, Ordered
  <2>6. ASSUME NEW q \in Queue, OnEventFired(q)
        PROVE  (Table /\ Loops /\ Book)'
    BY <2>6, <1>2 DEF OnEventFired, table, Table, Loops, Polling, Book, Ordered
  <2>7. ASSUME NEW q \in Queue, NothingPending(q)
        PROVE  (Table /\ Loops /\ Book)'
    BY <2>7, <1>2 DEF NothingPending, Sleep, table, Table, Loops, Polling, Book, Ordered
  <2>8. ASSUME NEW q \in Queue, NothingDue(q)
        PROVE  (Table /\ Loops /\ Book)'
    BY <2>8, <1>2 DEF NothingDue, Sleep, table, Table, Loops, Polling, Book, Ordered
  <2>9. ASSUME NEW q \in Queue, GetNextTaskToRun(q)
        PROVE  (Table /\ Loops /\ Book)'
    <3>1. Peek(q) \in tasks
      BY <2>9, <1>2, PeekIsFirst DEF GetNextTaskToRun
    <3>2. (Table /\ Loops)'
      BY <2>9, <1>2, <3>1 DEF GetNextTaskToRun, Go, Table, Loops
    <3>3. tasks' \cup ran' = tasks \cup ran /\ tasks' \cap ran' = {} /\ order' = order
      BY <2>9, <1>2, <3>1 DEF GetNextTaskToRun, Book
    <3>4. Book'
      BY <1>2, <3>3 DEF Book, Ordered
    <3> QED BY <3>2, <3>4
  <2>10. ASSUME NEW q \in Queue, TaskReturns(q)
        PROVE  (Table /\ Loops /\ Book)'
    BY <2>10, <1>2 DEF TaskReturns, Go, table, Table, Loops, Polling, Book, Ordered
  <2>11. CASE Tick
    <3>1. \A q \in Queue : loop[q].from \in Int
      BY <1>2 DEF Loops
    <3>2. \A q \in Queue : loop'[q].from <= now'
      BY <2>11, <1>2, <3>1 DEF Tick, Loops
    <3> QED BY <2>11, <1>2, <3>2 DEF Tick, table, Table, Loops, Book
  <2>12. CASE UNCHANGED vars
    BY <2>12, <1>2 DEF vars, table, Table, Loops, Polling, Book, Ordered
  <2> QED
    BY <1>2, StepCases,
       <2>1, <2>2, <2>3, <2>4, <2>5, <2>6, <2>7, <2>8, <2>9, <2>10, <2>11, <2>12
<1> QED BY <1>1, <1>2, PTL DEF Spec

-----------------------------------------------------------------------------
(* Merges *)

\* Only a pair in Mergeable is ever merged.
Queues ==
    /\ MergesAgree
    /\ \A q \in Queue : Merged(q) => <<subsumedBy[q], q>> \in Mergeable

(* The merge structure, and who is in it.                                   *)
LEMMA QueuesHold == Spec => []Queues
<1> USE UnmergedAssumption
<1>1. Init => Queues
  BY DEF Init, Queues, MergesAgree, Merged
<1>2. ASSUME Queues, Table, [Next]_vars PROVE Queues'
  <2>1. ASSUME NEW q \in Queue, NEW g \in Grade, NEW time \in Time, RegisterTask(q, g, time)
        PROVE  Queues'
    BY <2>1, <1>2 DEF RegisterTask, Queues, MergesAgree, Merged
  <2>2. ASSUME NEW q \in Pausable, PauseSecondarySource(q)
        PROVE  Queues'
    BY <2>2, <1>2 DEF PauseSecondarySource, Counted, Queues, MergesAgree, Merged
  <2>3. ASSUME NEW q \in Pausable, ResumeSecondarySource(q)
        PROVE  Queues'
    BY <2>3, <1>2 DEF ResumeSecondarySource, Queues, MergesAgree, Merged
  <2>4. ASSUME NEW o \in Queue, NEW s \in Queue, <<o, s>> \in Mergeable, Merge(o, s)
        PROVE  Queues'
    BY <2>4, <1>2 DEF Merge, Counted, Table, Queues, MergesAgree, Merged
  <2>5. ASSUME NEW o \in Queue, NEW s \in Queue, <<o, s>> \in Mergeable, Unmerge(o, s)
        PROVE  Queues'
    BY <2>5, <1>2 DEF Unmerge, Counted, Table, Queues, MergesAgree, Merged
  <2>6. ASSUME NEW q \in Queue, OnEventFired(q)
        PROVE  Queues'
    BY <2>6, <1>2 DEF OnEventFired, table, Queues, MergesAgree, Merged
  <2>7. ASSUME NEW q \in Queue, NothingPending(q)
        PROVE  Queues'
    BY <2>7, <1>2 DEF NothingPending, Sleep, table, Queues, MergesAgree, Merged
  <2>8. ASSUME NEW q \in Queue, NothingDue(q)
        PROVE  Queues'
    BY <2>8, <1>2 DEF NothingDue, Sleep, table, Queues, MergesAgree, Merged
  <2>9. ASSUME NEW q \in Queue, GetNextTaskToRun(q)
        PROVE  Queues'
    BY <2>9, <1>2 DEF GetNextTaskToRun, Go, Queues, MergesAgree, Merged
  <2>10. ASSUME NEW q \in Queue, TaskReturns(q)
        PROVE  Queues'
    BY <2>10, <1>2 DEF TaskReturns, Go, table, Queues, MergesAgree, Merged
  <2>11. CASE Tick
    BY <2>11, <1>2 DEF Tick, table, Queues, MergesAgree, Merged
  <2>12. CASE UNCHANGED vars
    BY <2>12, <1>2 DEF vars, table, Queues, MergesAgree, Merged
  <2> QED
    BY <1>2, StepCases,
       <2>1, <2>2, <2>3, <2>4, <2>5, <2>6, <2>7, <2>8, <2>9, <2>10, <2>11, <2>12
<1> QED BY <1>1, <1>2, TableTyping, PTL DEF Spec

(* The two sides of every merge agree, and merges do not chain.             *)
THEOREM MergesAlwaysAgree == Spec => []MergesAgree
BY QueuesHold, PTL DEF Queues

-----------------------------------------------------------------------------
(* Waking up *)

Timers == wake \in [Queue -> 0..Never]

(* What WakeUp does, for the loops it wakes and for the others.             *)
LEMMA Woken ==
    ASSUME NEW woken, WakeUp(woken), Table', Book', Timers
    PROVE  /\ Timers'
           /\ \A q \in Queue :
                IF q \in woken /\ Pending(q)' # {}
                THEN \A t \in Pending(q)' : wake'[q] <= t.time
                ELSE wake'[q] = wake[q]
<1>1. ASSUME NEW q \in Queue, Pending(q)' # {}
      PROVE  Peek(q)'.time \in 0..Never /\ \A t \in Pending(q)' : Peek(q)'.time <= t.time
  <2>1. Pending(q)' \subseteq tasks'
    BY DEF Pending, Source
  <2>2. Pending(q)' \in SUBSET Task /\ Ordered(Pending(q)')
    BY <2>1 DEF Table, Book, Ordered
  <2>3. First(Peek(q)', Pending(q)')
    BY <1>1, <2>2, FirstIsChosen DEF Peek
  <2> QED BY <2>2, <2>3, BoundsAssumption DEF First, Before, Task, Time, Never
<1> QED BY <1>1 DEF WakeUp, Timers

(* The timers, and that no wakeup is lost.                                  *)
LEMMA TimersHold == Spec => [](Timers /\ NoLostWakeup)
<1> USE BoundsAssumption DEF Time, Never
<1>1. Init => Timers /\ NoLostWakeup
  BY DEF Init, Timers, NoLostWakeup, Pending, Source
<1>2. ASSUME Timers, NoLostWakeup, Queues, Table, Loops, Book, (Table /\ Loops /\ Book)', [Next]_vars
      PROVE  (Timers /\ NoLostWakeup)'
  <2>1. ASSUME NEW q \in Queue, NEW g \in Grade, NEW time \in Time, RegisterTask(q, g, time)
        PROVE  (Timers /\ NoLostWakeup)'
    <3> DEFINE x == IF Merged(q) THEN subsumedBy[q] ELSE q
    <3>1. WakeUp({x}) /\ loop' = loop
      BY <2>1 DEF RegisterTask
    <3>2. ASSUME NEW p \in Queue, p # x PROVE Pending(p)' \subseteq Pending(p)
      BY <2>1, <1>2, <3>2, UnmergedAssumption
         DEF RegisterTask, Pending, Source, Merged, Queues, MergesAgree, Table
    <3> HIDE DEF x
    <3> QED BY <1>2, <3>1, <3>2, Woken DEF NoLostWakeup
  <2>2. ASSUME NEW q \in Pausable, PauseSecondarySource(q)
        PROVE  (Timers /\ NoLostWakeup)'
    <3>1. \A p \in Queue : Pending(p)' \subseteq Pending(p)
      BY <2>2, <1>2, PausableAssumption DEF PauseSecondarySource, Pending, Source, Merged, Table, Task
    <3> QED BY <2>2, <1>2, <3>1 DEF PauseSecondarySource, Timers, NoLostWakeup
  <2>3. ASSUME NEW q \in Pausable, ResumeSecondarySource(q)
        PROVE  (Timers /\ NoLostWakeup)'
    <3>1. WakeUp({q}) /\ loop' = loop
      BY <2>3 DEF ResumeSecondarySource
    <3>2. ~Merged(q)
      BY <1>2, PausedIsNeverSubsumed, PausableAssumption DEF Queues
    <3>3. ASSUME NEW p \in Queue, p # q PROVE Pending(p)' \subseteq Pending(p)
      BY <2>3, <1>2, <3>2, <3>3, UnmergedAssumption, PausableAssumption
         DEF ResumeSecondarySource, Pending, Source, Merged, Queues, MergesAgree, Table, Task
    <3> QED BY <1>2, <3>1, <3>3, Woken DEF NoLostWakeup
  <2>4. ASSUME NEW o \in Queue, NEW s \in Queue, <<o, s>> \in Mergeable, Merge(o, s)
        PROVE  (Timers /\ NoLostWakeup)'
    <3>1. WakeUp({o}) /\ loop' = loop
      BY <2>4 DEF Merge
    <3>2. ASSUME NEW p \in Queue, p # o PROVE Pending(p)' \subseteq Pending(p)
      BY <2>4, <1>2, <3>2, UnmergedAssumption DEF Merge, Pending, Source, Merged, Table
    <3> QED BY <1>2, <3>1, <3>2, Woken DEF NoLostWakeup
  <2>5. ASSUME NEW o \in Queue, NEW s \in Queue, <<o, s>> \in Mergeable, Unmerge(o, s)
        PROVE  (Timers /\ NoLostWakeup)'
    <3>1. WakeUp({o, s}) /\ loop' = loop
      BY <2>5 DEF Unmerge
    <3>2. ASSUME NEW p \in Queue, p \notin {o, s} PROVE Pending(p)' \subseteq Pending(p)
      BY <2>5, <1>2, <3>2 DEF Unmerge, Pending, Source, Merged, Table
    <3> QED BY <1>2, <3>1, <3>2, Woken DEF NoLostWakeup
  <2>6. ASSUME NEW q \in Queue, OnEventFired(q)
        PROVE  (Timers /\ NoLostWakeup)'
    BY <2>6, <1>2 DEF OnEventFired, table, Timers, NoLostWakeup, Loops, Pending, Source, Merged
  <2>7. ASSUME NEW q \in Queue, NothingPending(q)
        PROVE  (Timers /\ NoLostWakeup)'
    BY <2>7, <1>2 DEF NothingPending, Sleep, Polling, table, Timers, NoLostWakeup, Loops, Pending, Source, Merged
  <2>8. ASSUME NEW q \in Queue, NothingDue(q)
        PROVE  (Timers /\ NoLostWakeup)'
    <3>1. First(Peek(q), Pending(q)) /\ Peek(q) \in tasks
      BY <2>8, <1>2, PeekIsFirst DEF NothingDue
    <3>2. \A t \in Pending(q) : t \in Task
      BY <1>2 DEF Pending, Source, Table
    <3>3. \A t \in Pending(q) : Peek(q).time <= t.time
      BY <3>1, <3>2 DEF First, Before, Task
    <3>4. Peek(q).time \in 0..Never
      BY <1>2, <3>1 DEF Table, Task
    <3>5. \A p \in Queue : Pending(p)' = Pending(p)
      BY <2>8 DEF NothingDue, table, Pending, Source, Merged
    <3> QED BY <2>8, <1>2, <3>3, <3>4, <3>5 DEF NothingDue, Sleep, Timers, NoLostWakeup, Loops
  <2>9. ASSUME NEW q \in Queue, GetNextTaskToRun(q)
        PROVE  (Timers /\ NoLostWakeup)'
    <3>1. Peek(q) \in tasks
      BY <2>9, <1>2, PeekIsFirst DEF GetNextTaskToRun
    <3>2. Peek(q).time \in 0..Never
      BY <1>2, <3>1 DEF Table, Task
    <3>3. \A p \in Queue : Pending(p)' \subseteq Pending(p)
      BY <2>9 DEF GetNextTaskToRun, Pending, Source, Merged
    <3> QED BY <2>9, <1>2, <3>2, <3>3 DEF GetNextTaskToRun, Go, Timers, NoLostWakeup, Loops
  <2>10. ASSUME NEW q \in Queue, TaskReturns(q)
        PROVE  (Timers /\ NoLostWakeup)'
    BY <2>10, <1>2 DEF TaskReturns, Go, table, Timers, NoLostWakeup, Loops, Pending, Source, Merged
  <2>11. CASE Tick
    BY <2>11, <1>2 DEF Tick, table, Timers, NoLostWakeup, Loops, Pending, Source, Merged
  <2>12. CASE UNCHANGED vars
    BY <2>12, <1>2 DEF vars, table, Timers, NoLostWakeup, Loops, Pending, Source, Merged
  <2> QED
    BY <1>2, StepCases,
       <2>1, <2>2, <2>3, <2>4, <2>5, <2>6, <2>7, <2>8, <2>9, <2>10, <2>11, <2>12
<1> QED BY <1>1, <1>2, TableTyping, QueuesHold, PTL DEF Spec

(* Type invariant.                                                          *)
THEOREM Typing == Spec => []TypeOK
<1>1. Table /\ Loops /\ Timers => TypeOK
  BY DEF Table, Loops, Timers, TypeOK
<1> QED BY <1>1, TableTyping, TimersHold, PTL

(* No thread sleeps past a task it has to run.                              *)
THEOREM NoWakeupIsLost == Spec => []NoLostWakeup
BY TimersHold, PTL

-----------------------------------------------------------------------------
(* Order *)

(* Tasks of one queue and one grade are handed out in their order.          *)
THEOREM PostedOrderIsKept == Spec => []InPostedOrder
<1> USE BoundsAssumption DEF Time
<1>1. Init => InPostedOrder
  BY DEF Init, InPostedOrder
<1>2. ASSUME InPostedOrder, Table, Loops, Book, [Next]_vars PROVE InPostedOrder'
  <2>1. ASSUME NEW q \in Queue, NEW g \in Grade, NEW time \in Time, RegisterTask(q, g, time)
        PROVE  InPostedOrder'
    <3>1. \A t \in tasks', u \in ran' : t \in tasks \/ u.order < t.order
      BY <2>1, <1>2 DEF RegisterTask, Book
    <3>2. \A u \in ran : u.order \in Nat
      BY <1>2 DEF Table, Task
    <3>3. \A t \in tasks' : t \in tasks \/ t.order = order
      BY <2>1 DEF RegisterTask
    <3>4. ran' = ran /\ now' = now /\ order \in Nat /\ \A u \in ran : u.order < order
      BY <2>1, <1>2 DEF RegisterTask, Table, Book
    <3> QED BY <1>2, <3>2, <3>3, <3>4 DEF InPostedOrder
  <2>2. ASSUME NEW q \in Pausable, PauseSecondarySource(q)
        PROVE  InPostedOrder'
    BY <2>2, <1>2 DEF PauseSecondarySource, Counted, InPostedOrder
  <2>3. ASSUME NEW q \in Pausable, ResumeSecondarySource(q)
        PROVE  InPostedOrder'
    BY <2>3, <1>2 DEF ResumeSecondarySource, InPostedOrder
  <2>4. ASSUME NEW o \in Queue, NEW s \in Queue, <<o, s>> \in Mergeable, Merge(o, s)
        PROVE  InPostedOrder'
    BY <2>4, <1>2 DEF Merge, Counted, InPostedOrder
  <2>5. ASSUME NEW o \in Queue, NEW s \in Queue, <<o, s>> \in Mergeable, Unmerge(o, s)
        PROVE  InPostedOrder'
    BY <2>5, <1>2 DEF Unmerge, Counted, InPostedOrder
  <2>6. ASSUME NEW q \in Queue, OnEventFired(q)
        PROVE  InPostedOrder'
    BY <2>6, <1>2 DEF OnEventFired, table, InPostedOrder
  <2>7. ASSUME NEW q \in Queue, NothingPending(q)
        PROVE  InPostedOrder'
    BY <2>7, <1>2 DEF NothingPending, Sleep, table, InPostedOrder
  <2>8. ASSUME NEW q \in Queue, NothingDue(q)
        PROVE  InPostedOrder'
    BY <2>8, <1>2 DEF NothingDue, Sleep, table, InPostedOrder
  <2>9. ASSUME NEW q \in Queue, GetNextTaskToRun(q)
        PROVE  InPostedOrder'
    <3> DEFINE p == Peek(q)
    <3>1. First(p, Pending(q)) /\ p \in tasks /\ p \in Pending(q)
      BY <2>9, <1>2, PeekIsFirst DEF GetNextTaskToRun, First
    <3>2. p.time <= now
      BY <2>9, <1>2, <3>1 DEF GetNextTaskToRun, Loops, Table, Task
    <3>3. ASSUME NEW t \in tasks, t # p, t.queue = p.queue, t.grade = p.grade, t.order < p.order
          PROVE  p.time < t.time
      <4>1. t \in Pending(q)
        BY <3>1, <3>3 DEF Pending, Source
      <4> QED BY <1>2, <3>1, <3>3, <4>1 DEF First, Before, Table, Task
    <3>4. tasks' = tasks \ {p} /\ ran' = ran \cup {p} /\ now' = now
      BY <2>9 DEF GetNextTaskToRun
    <3> HIDE DEF p
    <3> QED BY <1>2, <3>2, <3>3, <3>4 DEF InPostedOrder
  <2>10. ASSUME NEW q \in Queue, TaskReturns(q)
        PROVE  InPostedOrder'
    BY <2>10, <1>2 DEF TaskReturns, Go, table, InPostedOrder
  <2>11. CASE Tick
    BY <2>11, <1>2 DEF Tick, table, InPostedOrder, Loops, Table, Task
  <2>12. CASE UNCHANGED vars
    BY <2>12, <1>2 DEF vars, table, InPostedOrder
  <2> QED
    BY <1>2, StepCases,
       <2>1, <2>2, <2>3, <2>4, <2>5, <2>6, <2>7, <2>8, <2>9, <2>10, <2>11, <2>12
<1> QED BY <1>1, <1>2, TableTyping, PTL DEF Spec
=============================================================================
