------------------------ MODULE RasterThreadsProofs ------------------------
(***************************************************************************)
(* Theorems of RasterThreads for any lease, depth and number of frames and *)
(* views.  The typing holds for any number of engines, the rest for one:   *)
(* engines that share a merger do not share its mutex.                     *)
(***************************************************************************)
EXTENDS RasterThreads, SequenceTheorems, TLAPS

-----------------------------------------------------------------------------
(* What the operators that move a thread do *)

LEMMA IdleType == Idle \in Doing
  BY RootAssumption DEF Idle, Doing, Steps

LEMMA Moves ==
    ASSUME thread \in [Thread -> Doing], NEW t \in Thread, NEW at \in Steps, Go(t, at)
    PROVE  /\ thread' \in [Thread -> Doing]
           /\ \A u \in Thread \ {t} : thread'[u] = thread[u]
           /\ thread'[t].at = at /\ thread'[t].engine = thread[t].engine
           /\ thread'[t].more = thread[t].more /\ thread'[t].retry = thread[t].retry
           /\ thread'[t].last = thread[t].last
  BY DEF Go, Doing

LEMMA Returns ==
    ASSUME thread \in [Thread -> Doing], NEW t \in Thread, Return(t)
    PROVE  /\ thread' \in [Thread -> Doing]
           /\ \A u \in Thread \ {t} : thread'[u] = thread[u]
           /\ thread'[t].at = "idle" /\ thread'[t].more = FALSE /\ thread'[t].last = FALSE
  BY IdleType DEF Return, Idle

LEMMA Draws ==
    ASSUME thread \in [Thread -> Doing], recorded \subseteq Engine,
           NEW t \in Thread, NEW again \in BOOLEAN, Drawn(t, again)
    PROVE  /\ thread' \in [Thread -> Doing]
           /\ \A u \in Thread \ {t} : thread'[u] = thread[u]
           /\ recorded' \subseteq Engine
           /\ \/ thread[t].last /\ ~thread'[t].last /\ thread'[t].at = "idle"
              \/ /\ ~thread[t].last /\ ~thread'[t].last /\ thread'[t].at = "lease"
                 /\ thread'[t].engine = thread[t].engine /\ thread'[t].more = thread[t].more
<1>1. recorded' \subseteq Engine
  <2>1. Of(t) \in Engine
    BY DEF Of, Doing
  <2>. QED  BY <2>1 DEF Drawn
<1>2. CASE thread[t].last
  <2>1. Return(t)
    BY <1>2 DEF Drawn
  <2>. QED  BY <1>1, <1>2, <2>1, Returns
<1>3. CASE ~thread[t].last
  <2>1. thread' = [thread EXCEPT ![t] = [thread[t] EXCEPT !.at = "lease", !.retry = again]]
    BY <1>3 DEF Drawn
  <2>2. [thread[t] EXCEPT !.at = "lease", !.retry = again] \in Doing
    BY DEF Doing, Steps
  <2>. QED  BY <1>1, <1>3, <2>1, <2>2 DEF Doing
<1>. QED  BY <1>2, <1>3

\* A thread takes the first task of the queue.
LEMMA TakesTask ==
    ASSUME thread \in [Thread -> Doing], queue \in Seq(Tasks), NEW t \in Thread, RunTask(t)
    PROVE  /\ thread' \in [Thread -> Doing]
           /\ \A u \in Thread \ {t} : thread'[u] = thread[u]
           /\ thread'[t].engine = queue[1].engine
           /\ thread'[t].more = FALSE /\ thread'[t].last = (queue[1].what = "last")
           /\ \/ queue[1].what = "draw" /\ thread'[t].at = "draw"
              \/ queue[1].what = "last" /\ thread'[t].at = "preroll"
              \/ queue[1].what = "setup" /\ thread'[t].at = "setup"
              \/ queue[1].what = "teardown" /\ thread'[t].at = "enable"
           /\ queue # <<>> /\ Len(queue) \in Nat \ {0} /\ Len(queue') = Len(queue) - 1
           /\ queue' \in Seq(Tasks)
           /\ queue[1] \in Tasks /\ \A i \in 1..Len(queue') : queue'[i] = queue[i + 1]
<1>1. /\ queue # <<>> /\ queue' = Tail(queue)
      /\ thread' = [thread EXCEPT ![t] =
          [Idle EXCEPT !.at = Start(Head(queue).what), !.engine = Head(queue).engine,
                       !.last = (Head(queue).what = "last")]]
  BY DEF RunTask
<1>2. /\ Head(queue) = queue[1] /\ Head(queue) \in Tasks /\ Len(queue) \in Nat \ {0}
      /\ queue' \in Seq(Tasks) /\ Len(queue') = Len(queue) - 1
      /\ \A i \in 1..Len(queue') : queue'[i] = queue[i + 1]
  BY <1>1, HeadTailProperties, EmptySeq, LenProperties
<1>3. [Idle EXCEPT !.at = Start(Head(queue).what), !.engine = Head(queue).engine,
                   !.last = (Head(queue).what = "last")] \in Doing
  <2>1. Start(Head(queue).what) \in Steps /\ Head(queue).engine \in Engine
    BY <1>2 DEF Tasks, Start, Steps
  <2>. QED  BY <2>1, IdleType DEF Doing
<1>4. /\ thread'[t].at = Start(queue[1].what) /\ thread'[t].engine = queue[1].engine
      /\ thread'[t].more = FALSE /\ thread'[t].last = (queue[1].what = "last")
  BY <1>1, <1>2, IdleType DEF Doing, Idle
<1>5. queue[1].what \in {"draw", "last", "setup", "teardown"}
  BY <1>2 DEF Tasks
<1>. QED  BY <1>1, <1>2, <1>3, <1>4, <1>5 DEF Start

\* A task behind the others.
LEMMA Posts ==
    ASSUME queue \in Seq(Tasks), NEW w \in {"draw", "last", "setup", "teardown"}, NEW e \in Engine,
           queue' = Append(queue, [what |-> w, engine |-> e])
    PROVE  /\ queue' \in Seq(Tasks) /\ Len(queue) \in Nat /\ Len(queue') = Len(queue) + 1
           /\ queue'[Len(queue')] = [what |-> w, engine |-> e]
           /\ \A i \in 1..Len(queue) : queue'[i] = queue[i]
  BY AppendProperties, LenProperties DEF Tasks

-----------------------------------------------------------------------------
(* Typing *)

LeaseTyped == DOMAIN lease \subseteq Engine /\ \A e \in DOMAIN lease : lease[e] \in 0..Lease

LEMMA InitTyped == Init => TypeOK
<1>. SUFFICES ASSUME Init PROVE TypeOK
  OBVIOUS
<1>1. LeaseTyped
  BY DEF Init, LeaseTyped
<1>2. queue \in Seq(Tasks) /\ thread \in [Thread -> Doing]
  BY IdleType, EmptySeq DEF Init
<1>3. items \in [Engine -> 0..Depth] /\ frames \in 0..MaxFrame /\ views \in 0..MaxView
  BY BoundsAssumption, LeaseAssumption DEF Init
<1>. QED  BY <1>1, <1>2, <1>3 DEF Init, TypeOK, LeaseTyped

\* The leases after each of the operations on them.
LEMMA Leases ==
    ASSUME LeaseTyped, NEW e \in Engine
    PROVE  /\ lease' = Leased(e, Lease) => LeaseTyped' /\ e \in DOMAIN lease' /\ lease'[e] = Lease
           /\ lease' = Erased(e) => LeaseTyped' /\ DOMAIN lease' = DOMAIN lease \ {e}
           /\ e \in DOMAIN lease /\ lease[e] # 0 /\ lease' = Paid(e) =>
                LeaseTyped' /\ e \in DOMAIN lease' /\ lease'[e] = lease[e] - 1
           /\ e \notin DOMAIN lease /\ lease' = Paid(e) => lease' = lease
<1>. USE LeaseAssumption DEF LeaseTyped
<1>1. lease' = Leased(e, Lease) => LeaseTyped' /\ e \in DOMAIN lease' /\ lease'[e] = Lease
  BY DEF Leased
<1>2. lease' = Erased(e) => LeaseTyped' /\ DOMAIN lease' = DOMAIN lease \ {e}
  BY DEF Erased
<1>3. ASSUME e \in DOMAIN lease, lease[e] # 0, lease' = Paid(e)
      PROVE  LeaseTyped' /\ e \in DOMAIN lease' /\ lease'[e] = lease[e] - 1
  <2>1. lease' = [lease EXCEPT ![e] = lease[e] - 1]
    BY <1>3 DEF Paid
  <2>2. lease[e] - 1 \in 0..Lease
    BY <1>3
  <2>. QED  BY <1>3, <2>1, <2>2
<1>. QED  BY <1>1, <1>2, <1>3 DEF Paid

LEMMA TypingStep == TypeOK /\ [Next]_vars => TypeOK'
<1>. SUFFICES ASSUME TypeOK, [Next]_vars PROVE TypeOK'
  OBVIOUS
<1>. USE LeaseAssumption, BoundsAssumption
     DEF merger, frame, shell, Of, Steps
<1>0. thread \in [Thread -> Doing] /\ queue \in Seq(Tasks) /\ recorded \subseteq Engine
  BY DEF TypeOK
<1>e. \A t \in Thread : Of(t) \in Engine
  BY <1>0 DEF Doing
<1>l. LeaseTyped
  BY DEF TypeOK, LeaseTyped
<1>t. "platform" \in Thread /\ "raster" \in Thread
  BY DEF Thread
<1>1. ASSUME NEW t \in Thread, RunTask(t) PROVE TypeOK'
  BY <1>0, <1>1, TakesTask DEF TypeOK, RunTask
<1>2. ASSUME NEW t \in Thread, Consume(t) PROVE TypeOK'
  <2>1. CASE thread' = [thread EXCEPT ![t].at = "preroll", ![t].more = items[Of(t)] > 1]
                 /\ items' = [items EXCEPT ![Of(t)] = @ - 1] /\ items[Of(t)] > 0
    <3>1. [thread[t] EXCEPT !.at = "preroll", !.more = items[Of(t)] > 1] \in Doing
      <4>1. \A d \in Doing, b \in BOOLEAN : [d EXCEPT !.at = "preroll", !.more = b] \in Doing
        BY DEF Doing
      <4>2. (items[Of(t)] > 1) \in BOOLEAN
        OBVIOUS
      <4>. QED  BY <1>0, <4>1, <4>2
    <3>2. thread' \in [Thread -> Doing]
      BY <1>0, <2>1, <3>1
    <3>3. items' \in [Engine -> 0..Depth]
      BY <1>e, <2>1 DEF TypeOK
    <3>. QED  BY <1>2, <3>2, <3>3 DEF TypeOK, Consume
  <2>2. CASE Return(t) /\ UNCHANGED items
    BY <1>0, <1>2, <2>2, Returns DEF TypeOK, Consume
  <2>. QED  BY <1>2, <2>1, <2>2 DEF Consume
<1>3. ASSUME NEW t \in Thread, NotSetUp(t) PROVE TypeOK'
  <2>1. thread' \in [Thread -> Doing]
    BY <1>0, <1>3, Returns, Moves DEF NotSetUp
  <2>. QED  BY <1>3, <2>1 DEF TypeOK, NotSetUp
<1>4. ASSUME NEW t \in Thread, PlainFrame(t) PROVE TypeOK'
  <2>1. thread' \in [Thread -> Doing] /\ recorded' \subseteq Engine
    BY <1>0, <1>4, Draws DEF PlainFrame
  <2>. QED  BY <1>4, <2>1 DEF TypeOK, PlainFrame
<1>5. ASSUME NEW t \in Thread, ViewFrame(t) PROVE TypeOK'
  <2>1. thread' \in [Thread -> Doing]
    BY <1>0, <1>5, Moves DEF ViewFrame
  <2>. QED  BY <1>5, <2>1 DEF TypeOK, ViewFrame
<1>6. ASSUME NEW t \in Thread, MergeWithLease(t) PROVE TypeOK'
  <2>1. thread' \in [Thread -> Doing] /\ recorded' \subseteq Engine
    BY <1>0, <1>6, Moves, Draws DEF MergeWithLease
  <2>. QED  BY <1>6, <2>1 DEF TypeOK, MergeWithLease
<1>7. ASSUME NEW t \in Thread, Merging(t) PROVE TypeOK'
  <2>1. thread' \in [Thread -> Doing] /\ recorded' \subseteq Engine
    BY <1>0, <1>7, Draws DEF Merging
  <2>2. merged' \in BOOLEAN /\ LeaseTyped'
    BY <1>e, <1>l, <1>7, Leases DEF TypeOK, LeaseTyped, Merging
  <2>. QED  BY <1>7, <2>1, <2>2 DEF TypeOK, LeaseTyped, Merging
<1>8. ASSUME NEW t \in Thread, ExtendLeaseTo(t) PROVE TypeOK'
  <2>1. thread' \in [Thread -> Doing] /\ recorded' \subseteq Engine
    BY <1>0, <1>8, Draws DEF ExtendLeaseTo
  <2>2. LeaseTyped'
    BY <1>e, <1>l, <1>8, Leases DEF ExtendLeaseTo, LeaseTyped
  <2>. QED  BY <1>e, <1>8, <2>1, <2>2 DEF TypeOK, LeaseTyped, ExtendLeaseTo
<1>9. ASSUME NEW t \in Thread, DecrementLease(t) PROVE TypeOK'
  <2>1. thread' \in [Thread -> Doing]
    BY <1>0, <1>9, Moves DEF DecrementLease
  <2>. QED  BY <1>9, <2>1 DEF TypeOK, DecrementLease
<1>10. ASSUME NEW t \in Thread, Leasing(t) PROVE TypeOK'
  <2>1. CASE Of(t) \in DOMAIN lease /\ lease[Of(t)] = 0
    BY <1>10, <2>1 DEF TypeOK, Leasing
  <2>2. CASE ~(Of(t) \in DOMAIN lease /\ lease[Of(t)] = 0)
    <3>1. [thread[t] EXCEPT !.at = "submit",
             !.more = @ \/ (AllZero(Paid(Of(t))) /\ ~thread[t].retry)] \in Doing
      BY <1>0 DEF Doing
    <3>2. thread' \in [Thread -> Doing]
      BY <1>0, <1>10, <2>2, <3>1 DEF Leasing
    <3>3. lease' = Paid(Of(t)) /\ merged' \in BOOLEAN /\ aborted' \in BOOLEAN
      BY <1>10, <2>2 DEF TypeOK, Leasing, UnMergeIf
    <3>4. LeaseTyped'
      BY <1>e, <1>l, <2>2, <3>3, Leases DEF LeaseTyped
    <3>. QED  BY <1>10, <3>2, <3>3, <3>4 DEF TypeOK, LeaseTyped, Leasing
  <2>. QED  BY <2>1, <2>2
<1>11. ASSUME NEW t \in Thread, Submit(t) PROVE TypeOK'
  <2>1. thread' \in [Thread -> Doing]
    BY <1>0, <1>11, Returns DEF Submit
  <2>2. items' \in [Engine -> 0..Depth]
    BY <1>e, <1>11 DEF Submit, TypeOK
  <2>3. queue' \in Seq(Tasks)
    BY <1>0, <1>e, <1>11, Posts DEF Submit
  <2>. QED  BY <1>11, <2>1, <2>2, <2>3 DEF TypeOK, Submit
<1>12. ASSUME NEW t \in Thread, Setup(t) PROVE TypeOK'
  <2>1. thread' \in [Thread -> Doing]
    BY <1>0, <1>12, Returns DEF Setup
  <2>. QED  BY <1>e, <1>12, <2>1 DEF TypeOK, Setup
<1>13. ASSUME NEW t \in Thread, EnableThreadMerger(t) PROVE TypeOK'
  <2>1. thread' \in [Thread -> Doing]
    BY <1>0, <1>13, Moves DEF EnableThreadMerger
  <2>. QED  BY <1>13, <2>1 DEF TypeOK, EnableThreadMerger
<1>14. ASSUME NEW t \in Thread, AfterTeardown(t)
       PROVE  thread' \in [Thread -> Doing] /\ signalled' \in BOOLEAN
  BY <1>0, <1>14, Moves, Returns DEF AfterTeardown
<1>15. ASSUME NEW t \in Thread, Teardown(t) PROVE TypeOK'
  <2>1. thread' \in [Thread -> Doing] /\ signalled' \in BOOLEAN
    BY <1>0, <1>14, <1>15, Moves DEF Teardown, TypeOK
  <2>. QED  BY <1>15, <2>1 DEF TypeOK, Teardown
<1>16. ASSUME NEW t \in Thread, Unmerging(t) PROVE TypeOK'
  <2>1. thread' \in [Thread -> Doing] /\ signalled' \in BOOLEAN
    BY <1>14, <1>16 DEF Unmerging
  <2>2. merged' \in BOOLEAN /\ aborted' \in BOOLEAN /\ LeaseTyped'
    BY <1>e, <1>l, <1>16, Leases DEF TypeOK, Unmerging, UnMergeIf
  <2>. QED  BY <1>16, <2>1, <2>2 DEF TypeOK, LeaseTyped, Unmerging
<1>17. ASSUME NEW w \in {"create", "destroy"}, NEW e \in Engine,
              thread' = [thread EXCEPT !["platform"] = [Idle EXCEPT !.at = w, !.engine = e]]
       PROVE  thread' \in [Thread -> Doing]
  <2>1. [Idle EXCEPT !.at = w, !.engine = e] \in Doing
    BY IdleType DEF Doing
  <2>. QED  BY <1>0, <1>17, <2>1
<1>18. ASSUME NEW e \in Engine, CreateView(e) PROVE TypeOK'
  <2>1. thread' \in [Thread -> Doing]
    BY <1>17, <1>18 DEF CreateView
  <2>. QED  BY <1>18, <2>1 DEF TypeOK, CreateView
<1>19. ASSUME NEW e \in Engine, DestroyView(e) PROVE TypeOK'
  <2>1. thread' \in [Thread -> Doing]
    BY <1>17, <1>19 DEF DestroyView
  <2>. QED  BY <1>19, <2>1 DEF TypeOK, DestroyView
<1>20. CASE CreateLooks \/ DestroyLooks
  <2>1. thread' \in [Thread -> Doing]
    BY <1>0, <1>t, <1>20, Moves DEF CreateLooks, DestroyLooks
  <2>. QED  BY <1>20, <2>1 DEF TypeOK, CreateLooks, DestroyLooks
<1>21. CASE CreatePosts \/ DestroyPosts
  <2>1. thread' \in [Thread -> Doing]
    BY <1>0, <1>t, <1>21, Moves, Returns DEF CreatePosts, DestroyPosts
  <2>2. queue' \in Seq(Tasks)
    BY <1>0, <1>e, <1>t, <1>21, Posts DEF CreatePosts, DestroyPosts
  <2>. QED  BY <1>21, <2>1, <2>2 DEF TypeOK, CreatePosts, DestroyPosts
<1>22. CASE DestroyReturns
  <2>1. thread' \in [Thread -> Doing]
    BY <1>0, <1>t, <1>22, Returns DEF DestroyReturns
  <2>. QED  BY <1>22, <2>1 DEF TypeOK, DestroyReturns
<1>23. ASSUME NEW e \in Engine, ProduceFrame(e) PROVE TypeOK'
  <2>1. queue' \in Seq(Tasks)
    BY <1>0, <1>23, Posts DEF ProduceFrame
  <2>2. items' \in [Engine -> 0..Depth] /\ frames' \in 0..MaxFrame
    BY <1>23 DEF ProduceFrame, TypeOK
  <2>. QED  BY <1>23, <2>1, <2>2 DEF TypeOK, ProduceFrame
<1>24. ASSUME NEW e \in Engine, ReuseLastLayerTrees(e) PROVE TypeOK'
  <2>1. queue' \in Seq(Tasks)
    BY <1>0, <1>24, Posts DEF ReuseLastLayerTrees
  <2>. QED  BY <1>24, <2>1 DEF TypeOK, ReuseLastLayerTrees
<1>25. CASE UNCHANGED vars
  BY <1>25 DEF TypeOK, vars
<1>. QED
  BY <1>1, <1>2, <1>3, <1>4, <1>5, <1>6, <1>7, <1>8, <1>9, <1>10, <1>11, <1>12, <1>13, <1>15,
     <1>16, <1>18, <1>19, <1>20, <1>21, <1>22, <1>23, <1>24, <1>25
     DEF Next, RasterStep, Draw, PlatformStep

\* Every variable keeps its type: no lease is negative, no pipeline over its depth,
\* and no rasterizer has a surface before it has a merger.
THEOREM Typing == Spec => []TypeOK
  BY InitTyped, TypingStep, PTL DEF Spec

-----------------------------------------------------------------------------
(* The mutex of the only RasterThreadMerger, and enabled_ *)

OneEngine == Engine = {Root}

Locking == {"merging", "leasing", "unmerging"}
Holds(t) == thread[t].at \in Locking

\* What an operation found out under the mutex is still so while it goes on.
MutexInv == \A t \in Thread : Holds(t) => enabled /\ \A u \in Thread \ {t} : ~Holds(u)

LEMMA FreeForAll ==
    ASSUME OneEngine, TypeOK, NEW e \in Engine, Free(e) PROVE \A t \in Thread : ~Holds(t)
  BY DEF OneEngine, TypeOK, Doing, Free, Holds, Locking

\* A thread that leaves the mutex alone, or lets go of it.
LEMMA StepsAside ==
    ASSUME MutexInv, NEW t \in Thread, \A u \in Thread \ {t} : thread'[u] = thread[u],
           thread'[t].at \notin Locking, enabled' = enabled
    PROVE  MutexInv'
  BY DEF MutexInv, Holds

\* A thread that looks at enabled_, or changes it, when the mutex is free.
LEMMA StepsIn ==
    ASSUME \A u \in Thread : ~Holds(u),
           NEW t \in Thread, \A u \in Thread \ {t} : thread'[u] = thread[u],
           thread'[t].at \in Locking => enabled'
    PROVE  MutexInv'
  BY DEF MutexInv, Holds

LEMMA MutexStep == OneEngine /\ TypeOK /\ MutexInv /\ [Next]_vars => MutexInv'
<1>. SUFFICES ASSUME OneEngine, TypeOK, MutexInv, [Next]_vars PROVE MutexInv'
  OBVIOUS
<1>. USE DEF merger, Steps, Locking
<1>0. thread \in [Thread -> Doing] /\ queue \in Seq(Tasks) /\ recorded \subseteq Engine
  BY DEF TypeOK
<1>e. \A t \in Thread : Of(t) \in Engine
  BY <1>0 DEF Doing, Of
<1>t. "platform" \in Thread /\ "raster" \in Thread
  BY DEF Thread
<1>1. ASSUME NEW t \in Thread, RunTask(t) PROVE MutexInv'
  BY <1>0, <1>1, TakesTask, StepsAside DEF RunTask
<1>2. ASSUME NEW t \in Thread, Consume(t) PROVE MutexInv'
  <2>1. CASE thread' = [thread EXCEPT ![t].at = "preroll", ![t].more = items[Of(t)] > 1]
    <3>1. thread'[t].at = "preroll" /\ \A u \in Thread \ {t} : thread'[u] = thread[u]
      BY <1>0, <2>1 DEF Doing
    <3>. QED  BY <1>2, <3>1, StepsAside DEF Consume
  <2>2. CASE Return(t)
    BY <1>0, <1>2, <2>2, Returns, StepsAside DEF Consume
  <2>. QED  BY <1>2, <2>1, <2>2 DEF Consume
<1>3. ASSUME NEW t \in Thread, NotSetUp(t) PROVE MutexInv'
  BY <1>0, <1>3, Returns, Moves, StepsAside DEF NotSetUp
<1>4. ASSUME NEW t \in Thread, PlainFrame(t) PROVE MutexInv'
  BY <1>0, <1>4, Draws, StepsAside DEF PlainFrame
<1>5. ASSUME NEW t \in Thread, ViewFrame(t) PROVE MutexInv'
  BY <1>0, <1>5, Moves, StepsAside DEF ViewFrame
<1>6. ASSUME NEW t \in Thread, MergeWithLease(t) PROVE MutexInv'
  <2>1. CASE enabled /\ Go(t, "merging")
    BY <1>0, <1>e, <1>6, <2>1, Moves, FreeForAll, StepsIn DEF MergeWithLease
  <2>2. CASE Drawn(t, TRUE)
    BY <1>0, <1>6, <2>2, Draws, StepsAside DEF MergeWithLease
  <2>. QED  BY <1>6, <2>1, <2>2 DEF MergeWithLease
<1>7. ASSUME NEW t \in Thread, Merging(t) PROVE MutexInv'
  BY <1>0, <1>7, Draws, StepsAside DEF Merging
<1>8. ASSUME NEW t \in Thread, ExtendLeaseTo(t) PROVE MutexInv'
  BY <1>0, <1>8, Draws, StepsAside DEF ExtendLeaseTo
<1>9. ASSUME NEW t \in Thread, DecrementLease(t) PROVE MutexInv'
  BY <1>0, <1>e, <1>9, Moves, FreeForAll, StepsIn DEF DecrementLease
<1>10. ASSUME NEW t \in Thread, Leasing(t) PROVE MutexInv'
  <2>1. CASE UNCHANGED thread
    BY <1>10, <2>1 DEF Leasing, MutexInv, Holds
  <2>2. CASE thread' = [thread EXCEPT ![t].at = "submit",
             ![t].more = @ \/ (AllZero(Paid(Of(t))) /\ ~thread[t].retry)]
    <3>1. thread'[t].at = "submit" /\ \A u \in Thread \ {t} : thread'[u] = thread[u]
      BY <1>0, <2>2 DEF Doing
    <3>. QED  BY <1>10, <3>1, StepsAside DEF Leasing
  <2>. QED  BY <1>10, <2>1, <2>2 DEF Leasing
<1>11. ASSUME NEW t \in Thread, Submit(t) PROVE MutexInv'
  BY <1>0, <1>11, Returns, StepsAside DEF Submit
<1>12. ASSUME NEW t \in Thread, Setup(t) PROVE MutexInv'
  BY <1>0, <1>e, <1>12, Returns, FreeForAll, StepsIn DEF Setup
<1>13. ASSUME NEW t \in Thread, EnableThreadMerger(t) PROVE MutexInv'
  BY <1>0, <1>e, <1>13, Moves, FreeForAll, StepsIn DEF EnableThreadMerger
<1>14. ASSUME NEW t \in Thread, AfterTeardown(t), enabled' = enabled PROVE MutexInv'
  BY <1>0, <1>14, Moves, Returns, StepsAside DEF AfterTeardown
<1>15. ASSUME NEW t \in Thread, Teardown(t) PROVE MutexInv'
  BY <1>0, <1>e, <1>14, <1>15, Moves, FreeForAll, StepsIn DEF Teardown
<1>16. ASSUME NEW t \in Thread, Unmerging(t) PROVE MutexInv'
  BY <1>14, <1>16 DEF Unmerging
<1>17. ASSUME NEW w \in {"create", "destroy"}, NEW e \in Engine,
              thread' = [thread EXCEPT !["platform"] = [Idle EXCEPT !.at = w, !.engine = e]]
       PROVE  thread'["platform"].at = w /\ \A u \in Thread \ {"platform"} : thread'[u] = thread[u]
  BY <1>0, <1>t, <1>17, IdleType DEF Doing
<1>18. ASSUME NEW e \in Engine, CreateView(e) PROVE MutexInv'
  <2>1. thread'["platform"].at = "create" /\ \A u \in Thread \ {"platform"} : thread'[u] = thread[u]
    BY <1>17, <1>18 DEF CreateView
  <2>2. CASE e \in mergers
    BY <1>t, <1>18, <2>1, <2>2, FreeForAll, StepsIn DEF CreateView
  <2>3. CASE e \notin mergers
    BY <1>t, <1>18, <2>1, <2>3, StepsAside DEF CreateView, TypeOK
  <2>. QED  BY <2>2, <2>3
<1>19. ASSUME NEW e \in Engine, DestroyView(e) PROVE MutexInv'
  <2>1. thread'["platform"].at = "destroy" /\ \A u \in Thread \ {"platform"} : thread'[u] = thread[u]
    BY <1>17, <1>19 DEF DestroyView
  <2>2. CASE e \in mergers
    BY <1>t, <1>19, <2>1, <2>2, FreeForAll, StepsIn DEF DestroyView
  <2>3. CASE e \notin mergers
    BY <1>t, <1>19, <2>1, <2>3, StepsAside DEF DestroyView, TypeOK
  <2>. QED  BY <2>2, <2>3
<1>20. CASE PlatformStep
  BY <1>0, <1>t, <1>20, Moves, Returns, StepsAside
     DEF PlatformStep, CreateLooks, CreatePosts, DestroyLooks, DestroyPosts, DestroyReturns
<1>21. ASSUME UNCHANGED <<thread, enabled>> PROVE MutexInv'
  BY <1>21 DEF MutexInv, Holds
<1>. QED
  BY <1>1, <1>2, <1>3, <1>4, <1>5, <1>6, <1>7, <1>8, <1>9, <1>10, <1>11, <1>12, <1>13, <1>15,
     <1>16, <1>18, <1>19, <1>20, <1>21
     DEF Next, RasterStep, Draw, ProduceFrame, ReuseLastLayerTrees, vars

LEMMA MutexAlways == OneEngine => (Spec => []MutexInv)
<1>. SUFFICES ASSUME OneEngine PROVE Spec => []MutexInv
  OBVIOUS
<1>1. Init => MutexInv
  BY IdleType DEF Init, MutexInv, Holds, Locking, Idle
<1>2. TypeOK /\ MutexInv /\ [Next]_vars => MutexInv'
  BY MutexStep
<1>. QED  BY <1>1, <1>2, Typing, PTL DEF Spec

\* The configuration changes only under the mutex and only while enabled.
LEMMA MergedChanges ==
    ASSUME MutexInv, [Next]_vars, merged' # merged PROVE enabled
<1>. USE DEF merger, frame, shell, vars, AfterTeardown
<1>1. ASSUME NEW t \in Thread, RasterStep(t) PROVE Holds(t)
  BY <1>1 DEF RasterStep, Draw, RunTask, Consume, NotSetUp, PlainFrame, ViewFrame, MergeWithLease,
       Merging, ExtendLeaseTo, DecrementLease, Leasing, Submit, Setup, EnableThreadMerger, Teardown,
       Unmerging, Holds, Locking, At
<1>. QED
  BY <1>1 DEF Next, PlatformStep, CreateLooks, CreatePosts, DestroyLooks, DestroyPosts,
       DestroyReturns, CreateView, DestroyView, ProduceFrame, ReuseLastLayerTrees, MutexInv

\* ConfigurationIsFixed: with one engine, OnPlatformViewCreated and
\* OnPlatformViewDestroyed may rely on the thread they have looked up while the
\* merging is disabled (shell.cc, lines 841-861 and 931-945).
THEOREM ConfigurationStays == OneEngine => (Spec => ConfigurationIsFixed)
<1>. SUFFICES ASSUME OneEngine PROVE Spec => ConfigurationIsFixed
  OBVIOUS
<1>1. MutexInv /\ [Next]_vars => [~enabled /\ ~enabled' => merged' = merged]_vars
  BY MergedChanges
<1>. QED  BY <1>1, MutexAlways, PTL DEF Spec, ConfigurationIsFixed

-----------------------------------------------------------------------------
(* The leases and the queues *)

\* One engine, a lease that outlasts the frame it was taken for (it is 10 in
\* external_view_embedder.h), and draws that end before the next frame is drawn.
AsShipped == OneEngine /\ Lease > 1 /\ ~Slow

PAt == thread["platform"].at
RAt == thread["raster"].at

Serving     == {"draw", "preroll", "extend", "lease", "leasing", "setup", "enable", "teardown",
                "unmerging"}
Rasterizing == {"draw", "preroll", "merge", "merging", "setup", "enable", "teardown"}
Ending      == {"lease", "leasing", "submit"}

\* Each thread rasterizes only while the queues are its own.  The raster thread ends
\* the draw in which it has merged them with the lease still new, while the platform
\* thread touches no lease.
ConfigInv ==
    /\ merged = IsMerged /\ ~aborted
    /\ PAt \notin {"merge", "merging"} /\ (PAt \in Serving => merged)
    /\ RAt \in Rasterizing \cup Ending \cup {"idle"}
    /\ RAt \in Rasterizing => ~merged
    /\ RAt = "leasing" => merged /\ PAt # "unmerging"
    /\ RAt \in {"lease", "leasing"} /\ merged => Root \in DOMAIN lease /\ lease[Root] = Lease
    /\ RAt \in Ending => PAt \notin {"extend", "lease", "leasing"}

LEMMA OneLease ==
    ASSUME OneEngine, LeaseTyped
    PROVE  /\ IsMerged <=> Root \in DOMAIN lease /\ lease[Root] > 0
           /\ AllZero(lease) <=> ~IsMerged
  BY LeaseAssumption DEF OneEngine, LeaseTyped, IsMerged, AllZero

LEMMA OneLeaseNext ==
    ASSUME OneEngine, LeaseTyped'
    PROVE  /\ IsMerged' <=> Root \in DOMAIN lease' /\ lease'[Root] > 0
           /\ AllZero(lease') <=> ~IsMerged'
  BY LeaseAssumption DEF OneEngine, LeaseTyped, IsMerged, AllZero

\* Only one of the two threads moves.
LEMMA Alone ==
    ASSUME NEW t \in Thread, \A u \in Thread \ {t} : thread'[u] = thread[u]
    PROVE  /\ t = "platform" => RAt' = RAt
           /\ t = "raster" => PAt' = PAt
  BY DEF Thread, PAt, RAt

LEMMA ConfigStep == AsShipped /\ TypeOK /\ MutexInv /\ ConfigInv /\ [Next]_vars => ConfigInv'
<1>. SUFFICES ASSUME AsShipped, TypeOK, MutexInv, ConfigInv, [Next]_vars PROVE ConfigInv'
  OBVIOUS
<1>. USE LeaseAssumption DEF merger, frame, Steps, Serving, Rasterizing, Ending
<1>0. thread \in [Thread -> Doing] /\ queue \in Seq(Tasks) /\ recorded \subseteq Engine
  BY DEF TypeOK
<1>l. LeaseTyped /\ OneEngine /\ Lease > 1
  BY DEF TypeOK, LeaseTyped, AsShipped
<1>m. IsMerged <=> Root \in DOMAIN lease /\ lease[Root] > 0
  BY <1>l, OneLease
<1>e. \A t \in Thread : Of(t) = Root
  BY <1>0, <1>l DEF Doing, Of, OneEngine
<1>t. Thread = {"platform", "raster"}
  BY DEF Thread
<1>u. ASSUME UNCHANGED <<merged, lease, aborted>> PROVE IsMerged' = IsMerged
  BY <1>u DEF IsMerged
<1>s. ASSUME Takes("platform") PROVE RAt \notin Ending
  BY <1>e, <1>s, <1>t DEF Takes, AsShipped, RAt
<1>1. ASSUME NEW t \in Thread, RunTask(t) PROVE ConfigInv'
  <2>1. At(t, "idle") /\ merged = (t = "platform") /\ UNCHANGED <<merged, lease, aborted>>
    BY <1>1 DEF RunTask
  <2>2. thread'[t].at \in {"draw", "preroll", "setup", "enable"}
    BY <1>0, <1>1, TakesTask
  <2>3. \A u \in Thread \ {t} : thread'[u] = thread[u]
    BY <1>0, <1>1, TakesTask
  <2>. QED  BY <1>t, <1>u, <2>1, <2>2, <2>3, Alone DEF ConfigInv, PAt, RAt, At
<1>2. ASSUME NEW t \in Thread, Consume(t) PROVE ConfigInv'
  <2>1. At(t, "draw") /\ UNCHANGED <<merged, lease, aborted>>
    BY <1>2 DEF Consume
  <2>2. thread'[t].at \in {"preroll", "idle"} /\ \A u \in Thread \ {t} : thread'[u] = thread[u]
    <3>1. CASE thread' = [thread EXCEPT ![t].at = "preroll", ![t].more = items[Of(t)] > 1]
      BY <1>0, <3>1 DEF Doing
    <3>2. CASE Return(t)
      BY <1>0, <3>2, Returns
    <3>. QED  BY <1>2, <3>1, <3>2 DEF Consume
  <2>. QED  BY <1>t, <1>u, <2>1, <2>2, Alone DEF ConfigInv, PAt, RAt, At
<1>3. ASSUME NEW t \in Thread, NotSetUp(t) PROVE ConfigInv'
  <2>1. At(t, "preroll") /\ UNCHANGED <<merged, lease, aborted>>
    BY <1>3 DEF NotSetUp
  <2>2. thread'[t].at \in {"submit", "idle"} /\ \A u \in Thread \ {t} : thread'[u] = thread[u]
    BY <1>0, <1>3, Returns, Moves DEF NotSetUp
  <2>. QED  BY <1>t, <1>u, <2>1, <2>2, Alone DEF ConfigInv, PAt, RAt, At
<1>4. ASSUME NEW t \in Thread, PlainFrame(t) PROVE ConfigInv'
  <2>1. At(t, "preroll") /\ Takes(t) /\ UNCHANGED <<merged, lease, aborted>>
    BY <1>4 DEF PlainFrame
  <2>2. thread'[t].at \in {"lease", "idle"} /\ \A u \in Thread \ {t} : thread'[u] = thread[u]
    BY <1>0, <1>4, Draws DEF PlainFrame
  <2>. QED  BY <1>s, <1>t, <1>u, <2>1, <2>2, Alone DEF ConfigInv, PAt, RAt, At
<1>5. ASSUME NEW t \in Thread, ViewFrame(t) PROVE ConfigInv'
  <2>1. At(t, "preroll") /\ Takes(t) /\ UNCHANGED <<merged, lease, aborted>>
    BY <1>5 DEF ViewFrame
  <2>2. /\ thread'[t].at = IF IsMerged THEN "extend" ELSE "merge"
        /\ \A u \in Thread \ {t} : thread'[u] = thread[u]
    BY <1>0, <1>5, Moves DEF ViewFrame
  <2>. QED  BY <1>s, <1>t, <1>u, <2>1, <2>2, Alone DEF ConfigInv, PAt, RAt, At
<1>6. ASSUME NEW t \in Thread, MergeWithLease(t) PROVE ConfigInv'
  <2>1. At(t, "merge") /\ UNCHANGED <<merged, lease, aborted>>
    BY <1>6 DEF MergeWithLease
  <2>2. /\ thread'[t].at \in {"merging", "lease", "idle"}
        /\ \A u \in Thread \ {t} : thread'[u] = thread[u]
    BY <1>0, <1>6, Moves, Draws DEF MergeWithLease
  <2>. QED  BY <1>t, <1>u, <2>1, <2>2, Alone DEF ConfigInv, PAt, RAt, At
<1>7. ASSUME NEW t \in Thread, Merging(t) PROVE ConfigInv'
  <2>1. At(t, "merging") /\ t = "raster" /\ ~merged /\ ~IsMerged
    BY <1>7, <1>t DEF Merging, ConfigInv, PAt, RAt, At
  <2>2. thread'[t].at \in {"lease", "idle"} /\ \A u \in Thread \ {t} : thread'[u] = thread[u]
    BY <1>0, <1>7, Draws DEF Merging
  <2>3. merged' = TRUE /\ lease' = Leased(Root, Lease) /\ ~aborted'
    BY <1>e, <1>7, <2>1 DEF Merging, ConfigInv
  <2>4. LeaseTyped' /\ Root \in DOMAIN lease' /\ lease'[Root] = Lease
    BY <1>l, <2>3, Leases, RootAssumption
  <2>5. IsMerged'
    BY <1>l, <2>4, OneLeaseNext
  <2>6. PAt \notin Serving
    BY <2>1 DEF ConfigInv
  <2>. QED  BY <1>t, <2>1, <2>2, <2>3, <2>4, <2>5, <2>6, Alone DEF ConfigInv, PAt, RAt, At
<1>8. ASSUME NEW t \in Thread, ExtendLeaseTo(t) PROVE ConfigInv'
  <2>1. At(t, "extend") /\ t = "platform" /\ merged /\ IsMerged /\ UNCHANGED <<merged, aborted>>
    BY <1>8, <1>t DEF ExtendLeaseTo, ConfigInv, PAt, RAt, At
  <2>2. thread'[t].at \in {"lease", "idle"} /\ \A u \in Thread \ {t} : thread'[u] = thread[u]
    BY <1>0, <1>8, Draws DEF ExtendLeaseTo
  <2>3. IsMerged'
    <3>1. CASE enabled
      <4>1. lease' = Leased(Root, Lease)
        BY <1>e, <1>8, <3>1 DEF ExtendLeaseTo
      <4>2. LeaseTyped' /\ Root \in DOMAIN lease' /\ lease'[Root] = Lease
        BY <1>l, <4>1, Leases, RootAssumption
      <4>. QED  BY <1>l, <4>2, OneLeaseNext
    <3>2. CASE ~enabled
      BY <1>8, <2>1, <3>2 DEF ExtendLeaseTo, IsMerged
    <3>. QED  BY <3>1, <3>2
  <2>4. RAt \notin Ending /\ RAt \notin Rasterizing
    BY <2>1 DEF ConfigInv, PAt, At
  <2>. QED  BY <1>t, <2>1, <2>2, <2>3, <2>4, Alone DEF ConfigInv, PAt, RAt, At
<1>9. ASSUME NEW t \in Thread, DecrementLease(t) PROVE ConfigInv'
  <2>1. At(t, "lease") /\ UNCHANGED <<merged, lease, aborted>>
    BY <1>9 DEF DecrementLease
  <2>2. /\ thread'[t].at = IF IsMerged /\ enabled THEN "leasing" ELSE "submit"
        /\ \A u \in Thread \ {t} : thread'[u] = thread[u]
    BY <1>0, <1>9, Moves DEF DecrementLease
  <2>3. PAt # "unmerging"
    <3>1. \A u \in Thread : ~Holds(u)
      BY <1>9, <1>l, FreeForAll DEF DecrementLease, OneEngine, Of, TypeOK, Doing
    <3>. QED  BY <1>t, <3>1 DEF Holds, Locking, PAt
  <2>. QED  BY <1>t, <1>u, <2>1, <2>2, <2>3, Alone DEF ConfigInv, PAt, RAt, At
<1>10. ASSUME NEW t \in Thread, Leasing(t) PROVE ConfigInv'
  <2>1. At(t, "leasing") /\ merged /\ IsMerged
    BY <1>10, <1>t DEF Leasing, ConfigInv, PAt, RAt, At
  <2>2. Root \in DOMAIN lease /\ lease[Root] # 0
    BY <1>l, <1>m, <2>1
  <2>3. /\ UnMergeIf(AllZero(Paid(Root)), Paid(Root))
        /\ thread'[t].at = "submit" /\ \A u \in Thread \ {t} : thread'[u] = thread[u]
    <3>1. thread' = [thread EXCEPT ![t].at = "submit",
                       ![t].more = @ \/ (AllZero(Paid(Root)) /\ ~thread[t].retry)]
      BY <1>10, <1>e, <2>2 DEF Leasing
    <3>. QED  BY <1>0, <1>10, <1>e, <2>2, <3>1 DEF Leasing, Doing
  <2>4. LeaseTyped' /\ Root \in DOMAIN lease' /\ lease'[Root] = lease[Root] - 1
    <3>1. lease' = Paid(Root)
      BY <2>3 DEF UnMergeIf
    <3>2. /\ LeaseTyped'
          /\ Root \in DOMAIN Paid(Root) /\ Paid(Root)[Root] = lease[Root] - 1
      BY <1>l, <2>2, <3>1, Leases, RootAssumption
    <3>. QED  BY <3>1, <3>2
  <2>5. merged' = IsMerged' /\ ~aborted'
    <3>1. lease' = Paid(Root) /\ merged' = (merged /\ ~AllZero(lease')) /\ ~aborted'
      BY <2>1, <2>3 DEF UnMergeIf
    <3>2. AllZero(lease') <=> ~IsMerged'
      BY <1>l, <2>4, OneLeaseNext
    <3>3. CASE AllZero(lease')
      <4>1. merged' = FALSE /\ IsMerged' = FALSE
        BY <3>1, <3>2, <3>3 DEF IsMerged
      <4>. QED  BY <3>1, <4>1
    <3>4. CASE ~AllZero(lease')
      <4>1. merged' = TRUE /\ IsMerged' = TRUE
        BY <2>1, <3>1, <3>2, <3>4 DEF IsMerged
      <4>. QED  BY <3>1, <4>1
    <3>. QED  BY <3>3, <3>4
  <2>6. CASE t = "raster"
    <3>1. lease[Root] = Lease /\ PAt \notin {"extend", "lease", "leasing", "unmerging"}
      BY <2>1, <2>6 DEF ConfigInv, RAt, At
    <3>2. IsMerged'
      BY <1>l, <2>4, <3>1, OneLeaseNext
    <3>. QED  BY <2>1, <2>3, <2>5, <2>6, <3>1, <3>2, Alone DEF ConfigInv, PAt, RAt, At
  <2>7. CASE t = "platform"
    <3>1. RAt \in {"idle"}
      BY <2>1, <2>7 DEF ConfigInv, PAt, At
    <3>. QED  BY <2>1, <2>3, <2>5, <2>7, <3>1, Alone DEF ConfigInv, PAt, RAt, At
  <2>. QED  BY <1>t, <2>6, <2>7
<1>11. ASSUME NEW t \in Thread, Submit(t) PROVE ConfigInv'
  <2>1. At(t, "submit") /\ UNCHANGED <<merged, lease, aborted>>
    BY <1>11 DEF Submit
  <2>2. thread'[t].at = "idle" /\ \A u \in Thread \ {t} : thread'[u] = thread[u]
    BY <1>0, <1>11, Returns DEF Submit
  <2>. QED  BY <1>t, <1>u, <2>1, <2>2, Alone DEF ConfigInv, PAt, RAt, At
<1>12. ASSUME NEW t \in Thread, Setup(t) PROVE ConfigInv'
  <2>1. At(t, "setup") /\ UNCHANGED <<merged, lease, aborted>>
    BY <1>12 DEF Setup
  <2>2. thread'[t].at = "idle" /\ \A u \in Thread \ {t} : thread'[u] = thread[u]
    BY <1>0, <1>12, Returns DEF Setup
  <2>. QED  BY <1>t, <1>u, <2>1, <2>2, Alone DEF ConfigInv, PAt, RAt, At
<1>13. ASSUME NEW t \in Thread, EnableThreadMerger(t) PROVE ConfigInv'
  <2>1. At(t, "enable") /\ UNCHANGED <<merged, lease, aborted>>
    BY <1>13 DEF EnableThreadMerger
  <2>2. thread'[t].at = "teardown" /\ \A u \in Thread \ {t} : thread'[u] = thread[u]
    BY <1>0, <1>13, Moves DEF EnableThreadMerger
  <2>. QED  BY <1>t, <1>u, <2>1, <2>2, Alone DEF ConfigInv, PAt, RAt, At
<1>14. ASSUME NEW t \in Thread, AfterTeardown(t)
       PROVE  /\ thread'[t].at = IF t = "platform" THEN "wait" ELSE "idle"
              /\ \A u \in Thread \ {t} : thread'[u] = thread[u]
  BY <1>0, <1>14, Moves, Returns DEF AfterTeardown
<1>15. ASSUME NEW t \in Thread, Teardown(t) PROVE ConfigInv'
  <2>1. At(t, "teardown") /\ UNCHANGED <<merged, lease, aborted>>
    BY <1>15 DEF Teardown
  <2>2. CASE AfterTeardown(t)
    BY <1>14, <1>t, <1>u, <2>1, <2>2, Alone DEF ConfigInv, PAt, RAt, At
  <2>3. CASE IsMerged /\ enabled /\ Go(t, "unmerging")
    <3>1. thread'[t].at = "unmerging" /\ \A u \in Thread \ {t} : thread'[u] = thread[u]
      BY <1>0, <2>3, Moves
    <3>2. RAt # "leasing"
      <4>1. \A u \in Thread : ~Holds(u)
        BY <1>15, <1>l, FreeForAll DEF Teardown, OneEngine, Of, TypeOK, Doing
      <4>. QED  BY <1>t, <4>1 DEF Holds, Locking, RAt
    <3>. QED  BY <1>t, <1>u, <2>1, <2>3, <3>1, <3>2, Alone DEF ConfigInv, PAt, RAt, At
  <2>. QED  BY <1>15, <2>2, <2>3 DEF Teardown
<1>16. ASSUME NEW t \in Thread, Unmerging(t) PROVE ConfigInv'
  <2>1. At(t, "unmerging") /\ t = "platform" /\ merged
    BY <1>16, <1>t DEF Unmerging, ConfigInv, PAt, RAt, At
  <2>2. lease' = Erased(Root) /\ UnMergeIf(AllZero(Erased(Root)), Erased(Root))
    BY <1>16, <1>e DEF Unmerging, UnMergeIf
  <2>3. LeaseTyped' /\ Root \notin DOMAIN lease'
    BY <1>l, <2>2, Leases, RootAssumption
  <2>4. IsMerged' = FALSE /\ merged' = FALSE /\ aborted' = FALSE
    <3>1. ~IsMerged' /\ AllZero(lease')
      BY <1>l, <2>3, OneLeaseNext
    <3>. QED  BY <2>1, <2>2, <3>1 DEF UnMergeIf, IsMerged
  <2>5. thread'[t].at = "wait" /\ \A u \in Thread \ {t} : thread'[u] = thread[u]
    BY <1>14, <1>16, <2>1 DEF Unmerging
  <2>6. RAt # "leasing"
    BY <2>1 DEF ConfigInv, PAt, At
  <2>. QED  BY <2>1, <2>4, <2>5, <2>6, Alone DEF ConfigInv, PAt, RAt, At
<1>17. ASSUME NEW w \in {"create", "destroy"}, NEW e \in Engine, At("platform", "idle"),
              thread' = [thread EXCEPT !["platform"] = [Idle EXCEPT !.at = w, !.engine = e]],
              UNCHANGED <<merged, lease, aborted>>
       PROVE  ConfigInv'
  <2>1. PAt' = w /\ RAt' = RAt
    BY <1>0, <1>17, <1>t, IdleType DEF Doing, PAt, RAt
  <2>. QED  BY <1>17, <1>u, <2>1 DEF ConfigInv
<1>18. ASSUME NEW e \in Engine, CreateView(e) \/ DestroyView(e) PROVE ConfigInv'
  BY <1>17, <1>18 DEF CreateView, DestroyView
<1>19. CASE PlatformStep
  <2>1. UNCHANGED <<merged, lease, aborted>>
    BY <1>19 DEF PlatformStep, CreateLooks, CreatePosts, DestroyLooks, DestroyPosts, DestroyReturns
  <2>2. CASE CreateLooks
    <3>1. PAt' = (IF merged THEN "setup" ELSE "createPost") /\ RAt' = RAt
      BY <1>0, <1>t, <2>2, Moves DEF CreateLooks, PAt, RAt
    <3>. QED  BY <1>u, <2>1, <3>1 DEF ConfigInv
  <2>3. CASE DestroyLooks
    <3>1. PAt' = (IF merged THEN "enable" ELSE "destroyPost") /\ RAt' = RAt
      BY <1>0, <1>t, <2>3, Moves DEF DestroyLooks, PAt, RAt
    <3>. QED  BY <1>u, <2>1, <3>1 DEF ConfigInv
  <2>4. CASE CreatePosts \/ DestroyPosts \/ DestroyReturns
    <3>1. PAt' \in {"idle", "wait"} /\ RAt' = RAt
      BY <1>0, <1>t, <2>4, Moves, Returns
         DEF CreatePosts, DestroyPosts, DestroyReturns, PAt, RAt
    <3>. QED  BY <1>u, <2>1, <3>1 DEF ConfigInv
  <2>. QED  BY <1>19, <2>2, <2>3, <2>4 DEF PlatformStep
<1>20. ASSUME UNCHANGED <<thread, merged, lease, aborted>> PROVE ConfigInv'
  BY <1>20, <1>u DEF ConfigInv, PAt, RAt
<1>. QED
  BY <1>1, <1>2, <1>3, <1>4, <1>5, <1>6, <1>7, <1>8, <1>9, <1>10, <1>11, <1>12, <1>13, <1>15,
     <1>16, <1>18, <1>19, <1>20
     DEF Next, RasterStep, Draw, ProduceFrame, ReuseLastLayerTrees, vars

LEMMA ConfigAlways == AsShipped => (Spec => []ConfigInv)
<1>. SUFFICES ASSUME AsShipped PROVE Spec => []ConfigInv
  OBVIOUS
<1>1. Init => ConfigInv
  <2>. SUFFICES ASSUME Init PROVE ConfigInv
    OBVIOUS
  <2>1. PAt = "idle" /\ RAt = "idle" /\ merged = FALSE /\ IsMerged = FALSE
    BY IdleType DEF Init, PAt, RAt, Idle, Thread, IsMerged
  <2>. QED  BY <2>1 DEF ConfigInv, Init, Serving, Rasterizing, Ending
<1>2. TypeOK /\ MutexInv /\ ConfigInv /\ [Next]_vars => ConfigInv'
  BY ConfigStep
<1>3. OneEngine
  BY DEF AsShipped
<1>. QED  BY <1>1, <1>2, <1>3, Typing, MutexAlways, PTL DEF Spec

\* LeasesMatchQueues: what SharedThreadMerger answers from the leases and what
\* MessageLoopTaskQueues does with the queues never differ, at no step of any draw.
THEOREM LeasesAreTheQueues == AsShipped => (Spec => []LeasesMatchQueues)
<1>1. ConfigInv => LeasesMatchQueues
  BY DEF ConfigInv, LeasesMatchQueues
<1>. QED  BY <1>1, ConfigAlways, PTL

\* NeverAborts: no FML_CHECK of shared_thread_merger.cc (lines 37 and 59) fails.
THEOREM NoCheckFails == AsShipped => (Spec => []NeverAborts)
<1>1. ConfigInv => NeverAborts
  BY DEF ConfigInv, NeverAborts
<1>. QED  BY <1>1, ConfigAlways, PTL


-----------------------------------------------------------------------------
(* The latch of OnPlatformViewDestroyed *)

Queued(w)  == \E i \in 1..Len(queue) : queue[i].what = w
OnlyOne(w) == \A i, j \in 1..Len(queue) : queue[i].what = w /\ queue[j].what = w => i = j

Creating   == PAt \in {"create", "createPost", "setup"}
Destroying == PAt \in {"destroy", "destroyPost", "enable", "teardown", "unmerging", "wait"}
TearsDown  == RAt \in {"enable", "teardown", "unmerging"}

\* The raster task of OnPlatformViewCreated is in one place, and while it is to come
\* the view is created and has no surface.
SetupInv ==
    /\ OnlyOne("setup")
    /\ Queued("setup") => RAt # "setup"
    /\ Queued("setup") \/ RAt = "setup" => ~Creating /\ ~Destroying
    /\ Queued("setup") \/ RAt = "setup" \/ Creating => Root \in view /\ Root \notin surface
    /\ Root \in surface => Root \in view
    /\ RAt = "unmerging" \/ PAt = "unmerging" \/ signalled => Root \notin surface

\* The raster task of OnPlatformViewDestroyed is in one place, where it is the platform
\* thread that waits for it; until it runs on the raster thread the merging is disabled,
\* and the queues are as the platform thread found them.
TeardownInv ==
    /\ OnlyOne("teardown")
    /\ Queued("teardown") => ~TearsDown
    /\ Queued("teardown") \/ TearsDown => PAt = "wait" /\ ~signalled
    /\ signalled => PAt = "wait"
    /\ PAt \in {"destroy", "destroyPost"} => ~enabled
    /\ PAt = "destroyPost" => ~merged
    /\ PAt = "wait" /\ ~signalled =>
         ~merged /\ (enabled => RAt \in {"teardown", "unmerging"})

LEMMA Dequeued ==
    ASSUME queue \in Seq(Tasks), NEW t \in Thread, thread \in [Thread -> Doing], RunTask(t), NEW w
    PROVE  /\ OnlyOne(w) => OnlyOne(w)'
           /\ Queued(w)' => Queued(w)
           /\ queue[1].what # w => (Queued(w) => Queued(w)')
           /\ queue[1].what = w => Queued(w) /\ (OnlyOne(w) => ~Queued(w)')
<1>1. /\ Len(queue) \in Nat \ {0} /\ Len(queue') = Len(queue) - 1
      /\ \A i \in 1..Len(queue') : queue'[i] = queue[i + 1]
  BY TakesTask
<1>2. \A i \in 1..Len(queue') : i + 1 \in 1..Len(queue) /\ i + 1 # 1
  BY <1>1
<1>3. \A i \in 1..Len(queue) : i # 1 => i - 1 \in 1..Len(queue') /\ queue'[i - 1] = queue[i]
  BY <1>1
<1>4. 1 \in 1..Len(queue)
  BY <1>1
<1>5. OnlyOne(w) => OnlyOne(w)'
  BY <1>1, <1>2 DEF OnlyOne
<1>6. Queued(w)' => Queued(w)
  BY <1>1, <1>2 DEF Queued
<1>7. ASSUME queue[1].what # w, Queued(w) PROVE Queued(w)'
  BY <1>3, <1>7 DEF Queued
<1>8. ASSUME queue[1].what = w, OnlyOne(w) PROVE ~Queued(w)'
  BY <1>1, <1>2, <1>4, <1>8 DEF Queued, OnlyOne
<1>. QED  BY <1>4, <1>5, <1>6, <1>7, <1>8 DEF Queued

LEMMA Enqueued ==
    ASSUME queue \in Seq(Tasks), NEW v \in {"draw", "last", "setup", "teardown"}, NEW e \in Engine,
           queue' = Append(queue, [what |-> v, engine |-> e]), NEW w
    PROVE  /\ Queued(w)' <=> Queued(w) \/ v = w
           /\ OnlyOne(w) /\ (v = w => ~Queued(w)) => OnlyOne(w)'
<1>1. /\ Len(queue) \in Nat /\ Len(queue') = Len(queue) + 1
      /\ queue'[Len(queue')] = [what |-> v, engine |-> e]
      /\ \A i \in 1..Len(queue) : queue'[i] = queue[i]
  BY Posts
<1>2. 1..Len(queue') = 1..Len(queue) \cup {Len(queue')}
  BY <1>1
<1>3. queue'[Len(queue')].what = v
  BY <1>1
<1>. QED  BY <1>1, <1>2, <1>3 DEF Queued, OnlyOne

\* Steps that are none of the raster tasks'.
DrawSteps == Drawing \cup {"draw", "idle"}

LEMMA LatchAside ==
    ASSUME SetupInv, TeardownInv, UNCHANGED <<enabled, surface, view, signalled>>,
           \A w \in {"setup", "teardown"} : OnlyOne(w)' /\ (Queued(w)' <=> Queued(w)),
           PAt' = PAt \/ {PAt, PAt'} \subseteq DrawSteps,
           RAt' = RAt \/ {RAt, RAt'} \subseteq DrawSteps,
           merged' = merged \/ (enabled /\ (PAt \in DrawSteps \/ RAt \in DrawSteps))
    PROVE  SetupInv' /\ TeardownInv'
<1>. USE DEF DrawSteps, Drawing, Creating, Destroying, TearsDown
<1>1. SetupInv'
  BY DEF SetupInv
<1>2. TeardownInv'
  BY DEF TeardownInv
<1>. QED  BY <1>1, <1>2

LEMMA DrawStays ==
    ASSUME TypeOK, NEW t \in Thread, Draw(t)
    PROVE  /\ thread[t].at \in DrawSteps /\ thread'[t].at \in DrawSteps
           /\ \A u \in Thread \ {t} : thread'[u] = thread[u]
           /\ UNCHANGED <<enabled, surface, view, signalled>>
           /\ \/ queue' = queue
              \/ queue' = Append(queue, [what |-> "draw", engine |-> Of(t)])
<1>. USE DEF DrawSteps, Drawing, Steps, merger, shell, frame
<1>0. thread \in [Thread -> Doing] /\ recorded \subseteq Engine
  BY DEF TypeOK
<1>1. CASE Consume(t)
  <2>1. CASE thread' = [thread EXCEPT ![t].at = "preroll", ![t].more = items[Of(t)] > 1]
    BY <1>0, <1>1, <2>1 DEF Consume, Doing, At
  <2>2. CASE Return(t)
    BY <1>0, <1>1, <2>2, Returns DEF Consume, At
  <2>. QED  BY <1>1, <2>1, <2>2 DEF Consume
<1>2. CASE NotSetUp(t)
  BY <1>0, <1>2, Moves, Returns DEF NotSetUp, At
<1>3. CASE PlainFrame(t)
  BY <1>0, <1>3, Draws DEF PlainFrame, At
<1>4. CASE ViewFrame(t)
  BY <1>0, <1>4, Moves DEF ViewFrame, At
<1>5. CASE MergeWithLease(t)
  BY <1>0, <1>5, Moves, Draws DEF MergeWithLease, At
<1>6. CASE Merging(t)
  BY <1>0, <1>6, Draws DEF Merging, At
<1>7. CASE ExtendLeaseTo(t)
  <2>1. Drawn(t, Of(t) \notin overlaid)
    BY <1>7 DEF ExtendLeaseTo
  <2>. QED  BY <1>0, <1>7, <2>1, Draws DEF ExtendLeaseTo, At
<1>8. CASE DecrementLease(t)
  BY <1>0, <1>8, Moves DEF DecrementLease, At
<1>9. CASE Leasing(t)
  <2>1. CASE thread' = thread
    BY <1>9, <2>1 DEF Leasing, At
  <2>2. CASE thread' = [thread EXCEPT ![t].at = "submit",
                           ![t].more = @ \/ (AllZero(Paid(Of(t))) /\ ~thread[t].retry)]
    BY <1>0, <1>9, <2>2 DEF Leasing, At, Doing
  <2>. QED  BY <1>9, <2>1, <2>2 DEF Leasing
<1>10. CASE Submit(t)
  BY <1>0, <1>10, Returns DEF Submit, At
<1>. QED
  BY <1>1, <1>2, <1>3, <1>4, <1>5, <1>6, <1>7, <1>8, <1>9, <1>10 DEF Draw


LEMMA LatchStep ==
    OneEngine /\ ~Hasty /\ TypeOK /\ MutexInv /\ SetupInv /\ TeardownInv /\ [Next]_vars
      => SetupInv' /\ TeardownInv'
<1>. SUFFICES ASSUME OneEngine, ~Hasty, TypeOK, MutexInv, SetupInv, TeardownInv, [Next]_vars
              PROVE SetupInv' /\ TeardownInv'
  OBVIOUS
<1>. USE DEF merger, frame, shell, Steps, DrawSteps, Drawing, Creating, Destroying, TearsDown
<1>0. thread \in [Thread -> Doing] /\ queue \in Seq(Tasks) /\ surface \subseteq mergers
  BY DEF TypeOK
<1>e. \A t \in Thread : Of(t) = Root
  BY <1>0 DEF Doing, Of, OneEngine
<1>t. Thread = {"platform", "raster"}
  BY DEF Thread
<1>m. merged' = merged \/ enabled
  BY MergedChanges
<1>o. OnlyOne("setup") /\ OnlyOne("teardown")
  BY DEF SetupInv, TeardownInv
<1>q. ASSUME queue' = queue
      PROVE  \A w \in {"setup", "teardown"} : OnlyOne(w)' /\ (Queued(w)' <=> Queued(w))
  BY <1>o, <1>q DEF OnlyOne, Queued
<1>p. ASSUME NEW v \in {"draw", "last"}, NEW e \in Engine,
             queue' = Append(queue, [what |-> v, engine |-> e])
      PROVE  \A w \in {"setup", "teardown"} : OnlyOne(w)' /\ (Queued(w)' <=> Queued(w))
  BY <1>0, <1>o, <1>p, Enqueued
<1>1. ASSUME NEW t \in Thread, RunTask(t) PROVE SetupInv' /\ TeardownInv'
  <2>1. /\ At(t, "idle") /\ \A u \in Thread \ {t} : thread'[u] = thread[u]
        /\ merged = (t = "platform")
        /\ UNCHANGED <<merged, enabled, surface, view, signalled>>
    BY <1>0, <1>1, TakesTask DEF RunTask
  <2>2. CASE queue[1].what \in {"draw", "last"}
    <3>1. thread'[t].at \in {"draw", "preroll"}
      BY <1>0, <1>1, <2>2, TakesTask
    <3>2. \A w \in {"setup", "teardown"} : OnlyOne(w)' /\ (Queued(w)' <=> Queued(w))
      BY <1>0, <1>1, <1>o, <2>2, Dequeued
    <3>. QED  BY <1>t, <2>1, <3>1, <3>2, Alone, LatchAside DEF PAt, RAt, At
  <2>3. CASE queue[1].what = "setup"
    <3>1. /\ thread'[t].at = "setup"
          /\ Queued("setup") /\ ~Queued("setup")' /\ OnlyOne("setup")'
          /\ OnlyOne("teardown")' /\ (Queued("teardown")' <=> Queued("teardown"))
      BY <1>0, <1>1, <1>o, <2>3, TakesTask, Dequeued
    <3>. QED  BY <1>t, <2>1, <3>1, Alone DEF SetupInv, TeardownInv, PAt, RAt, At
  <2>4. CASE queue[1].what = "teardown"
    <3>1. /\ thread'[t].at = "enable"
          /\ Queued("teardown") /\ ~Queued("teardown")' /\ OnlyOne("teardown")'
          /\ OnlyOne("setup")' /\ (Queued("setup")' <=> Queued("setup"))
      BY <1>0, <1>1, <1>o, <2>4, TakesTask, Dequeued
    <3>2. t = "raster" /\ PAt' = PAt /\ PAt = "wait"
      BY <1>t, <2>1, <3>1, Alone DEF TeardownInv, PAt, At
    <3>. QED  BY <2>1, <3>1, <3>2 DEF SetupInv, TeardownInv, RAt, At
  <2>. QED
    <3>1. queue[1].what \in {"draw", "last", "setup", "teardown"}
      BY <1>0, <1>1, TakesTask
    <3>. QED  BY <2>2, <2>3, <2>4, <3>1
<1>2. ASSUME NEW t \in Thread, Draw(t) PROVE SetupInv' /\ TeardownInv'
  <2>1. \A w \in {"setup", "teardown"} : OnlyOne(w)' /\ (Queued(w)' <=> Queued(w))
    BY <1>2, <1>e, <1>p, <1>q, DrawStays, RootAssumption
  <2>2. /\ thread[t].at \in DrawSteps /\ thread'[t].at \in DrawSteps
        /\ \A u \in Thread \ {t} : thread'[u] = thread[u]
        /\ UNCHANGED <<enabled, surface, view, signalled>>
    BY <1>2, DrawStays
  <2>. QED  BY <1>m, <1>t, <2>1, <2>2, Alone, LatchAside DEF PAt, RAt
<1>3. ASSUME NEW t \in Thread, Setup(t) PROVE SetupInv' /\ TeardownInv'
  <2>1. /\ At(t, "setup") /\ surface' = surface \cup {Root}
        /\ UNCHANGED <<merged, queue, view, signalled>>
    BY <1>3, <1>e DEF Setup
  <2>2. thread'[t].at = "idle" /\ \A u \in Thread \ {t} : thread'[u] = thread[u]
    BY <1>0, <1>3, Returns DEF Setup
  <2>3. ~Destroying /\ ~Queued("setup") /\ Root \in view
    BY <1>t, <2>1 DEF SetupInv, PAt, RAt, At
  <2>. QED  BY <1>q, <1>t, <2>1, <2>2, <2>3, Alone DEF SetupInv, TeardownInv, PAt, RAt, At
<1>4. ASSUME NEW t \in Thread, EnableThreadMerger(t) PROVE SetupInv' /\ TeardownInv'
  <2>1. At(t, "enable") /\ enabled' = TRUE /\ UNCHANGED <<merged, queue, surface, view, signalled>>
    BY <1>4 DEF EnableThreadMerger
  <2>2. thread'[t].at = "teardown" /\ \A u \in Thread \ {t} : thread'[u] = thread[u]
    BY <1>0, <1>4, Moves DEF EnableThreadMerger
  <2>. QED  BY <1>q, <1>t, <2>1, <2>2, Alone DEF SetupInv, TeardownInv, PAt, RAt, At
<1>5. ASSUME NEW t \in Thread, thread[t].at \in {"teardown", "unmerging"}, AfterTeardown(t),
             surface' \subseteq surface, Root \notin surface', UNCHANGED <<enabled, queue, view>>
      PROVE  SetupInv' /\ TeardownInv'
  <2>1. /\ thread'[t].at = IF t = "platform" THEN "wait" ELSE "idle"
        /\ \A u \in Thread \ {t} : thread'[u] = thread[u]
    BY <1>0, <1>5, Moves, Returns DEF AfterTeardown
  <2>2. PAt' = "wait" /\ RAt' # "setup" /\ ~TearsDown' /\ signalled'
    BY <1>5, <1>t, <2>1, Alone DEF SetupInv, TeardownInv, PAt, RAt, AfterTeardown
  <2>3. ~Queued("setup")' /\ ~Queued("teardown")' /\ OnlyOne("setup")' /\ OnlyOne("teardown")'
    BY <1>5, <1>q, <1>t DEF SetupInv, TeardownInv, PAt, RAt
  <2>. QED  BY <1>5, <2>2, <2>3 DEF SetupInv, TeardownInv
<1>6. ASSUME NEW t \in Thread, Teardown(t) PROVE SetupInv' /\ TeardownInv'
  <2>1. At(t, "teardown") /\ surface' = surface \ {Root} /\ UNCHANGED <<merged, enabled, queue, view>>
    BY <1>6, <1>e DEF Teardown
  <2>2. CASE AfterTeardown(t)
    BY <1>5, <2>1, <2>2 DEF At
  <2>3. CASE Go(t, "unmerging") /\ UNCHANGED signalled
    <3>1. thread'[t].at = "unmerging" /\ \A u \in Thread \ {t} : thread'[u] = thread[u]
      BY <1>0, <2>3, Moves
    <3>. QED  BY <1>q, <1>t, <2>1, <2>3, <3>1, Alone DEF SetupInv, TeardownInv, PAt, RAt, At
  <2>. QED  BY <1>6, <2>2, <2>3 DEF Teardown
<1>7. ASSUME NEW t \in Thread, Unmerging(t) PROVE SetupInv' /\ TeardownInv'
  BY <1>5, <1>7, <1>t DEF Unmerging, At, SetupInv, PAt, RAt
<1>8. ASSUME NEW e \in Engine, CreateView(e) PROVE SetupInv' /\ TeardownInv'
  <2>1. /\ PAt = "idle" /\ Root \notin view /\ view' = view \cup {Root}
        /\ UNCHANGED <<merged, queue, surface, signalled>>
    BY <1>8 DEF CreateView, OneEngine, At, PAt
  <2>2. PAt' = "create" /\ RAt' = RAt
    BY <1>0, <1>8, <1>t, IdleType DEF CreateView, Doing, PAt, RAt
  <2>. QED  BY <1>q, <2>1, <2>2 DEF SetupInv, TeardownInv
<1>9. ASSUME NEW e \in Engine, DestroyView(e) PROVE SetupInv' /\ TeardownInv'
  <2>1. /\ PAt = "idle" /\ Root \in surface /\ enabled' = FALSE
        /\ UNCHANGED <<merged, queue, surface, view, signalled>>
    BY <1>0, <1>9 DEF DestroyView, OneEngine, At, PAt
  <2>2. PAt' = "destroy" /\ RAt' = RAt
    BY <1>0, <1>9, <1>t, IdleType DEF DestroyView, Doing, PAt, RAt
  <2>. QED  BY <1>q, <2>1, <2>2 DEF SetupInv, TeardownInv
<1>10. CASE PlatformStep
  <2>1. RAt' = RAt /\ UNCHANGED <<merged, enabled, surface>>
    BY <1>0, <1>10, <1>t, Moves, Returns
       DEF PlatformStep, CreateLooks, CreatePosts, DestroyLooks, DestroyPosts, DestroyReturns, RAt
  <2>2. CASE CreateLooks
    <3>1. PAt = "create" /\ PAt' \in {"setup", "createPost"} /\ UNCHANGED <<queue, view, signalled>>
      BY <1>0, <1>t, <2>2, Moves DEF CreateLooks, PAt, At
    <3>. QED  BY <1>q, <2>1, <3>1 DEF SetupInv, TeardownInv
  <2>3. CASE CreatePosts
    <3>1. PAt = "createPost" /\ PAt' = "idle" /\ UNCHANGED <<view, signalled>>
      BY <1>0, <1>t, <2>3, Returns DEF CreatePosts, PAt, At
    <3>2. /\ ~Queued("setup") /\ OnlyOne("setup")'
          /\ OnlyOne("teardown")' /\ (Queued("teardown")' <=> Queued("teardown"))
      BY <1>0, <1>e, <1>o, <1>t, <2>3, <3>1, Enqueued, RootAssumption DEF CreatePosts, SetupInv
    <3>. QED  BY <2>1, <3>1, <3>2 DEF SetupInv, TeardownInv
  <2>4. CASE DestroyLooks
    <3>1. /\ PAt = "destroy" /\ PAt' = (IF merged THEN "enable" ELSE "destroyPost")
          /\ UNCHANGED <<queue, view, signalled>>
      BY <1>0, <1>t, <2>4, Moves DEF DestroyLooks, PAt, At
    <3>. QED  BY <1>q, <2>1, <3>1 DEF SetupInv, TeardownInv
  <2>5. CASE DestroyPosts
    <3>1. PAt = "destroyPost" /\ PAt' = "wait" /\ UNCHANGED <<view, signalled>>
      BY <1>0, <1>t, <2>5, Moves DEF DestroyPosts, PAt, At
    <3>2. /\ ~Queued("teardown") /\ OnlyOne("teardown")'
          /\ OnlyOne("setup")' /\ (Queued("setup")' <=> Queued("setup"))
      BY <1>0, <1>e, <1>o, <1>t, <2>5, <3>1, Enqueued, RootAssumption DEF DestroyPosts, TeardownInv
    <3>. QED  BY <2>1, <3>1, <3>2 DEF SetupInv, TeardownInv
  <2>6. CASE DestroyReturns
    <3>1. PAt = "wait" /\ PAt' = "idle" /\ signalled /\ ~signalled' /\ view' = view \ {Root}
      BY <1>0, <1>e, <1>t, <2>6, Returns DEF DestroyReturns, PAt, At
    <3>2. queue' = queue
      BY <2>6 DEF DestroyReturns
    <3>. QED  BY <1>q, <2>1, <3>1, <3>2 DEF SetupInv, TeardownInv
  <2>. QED  BY <1>10, <2>2, <2>3, <2>4, <2>5, <2>6 DEF PlatformStep
<1>11. ASSUME NEW e \in Engine, ProduceFrame(e) \/ ReuseLastLayerTrees(e)
       PROVE  SetupInv' /\ TeardownInv'
  <2>1. \A w \in {"setup", "teardown"} : OnlyOne(w)' /\ (Queued(w)' <=> Queued(w))
    BY <1>11, <1>p, <1>q DEF ProduceFrame, ReuseLastLayerTrees
  <2>2. UNCHANGED <<thread, merged, enabled, surface, view, signalled>>
    BY <1>11 DEF ProduceFrame, ReuseLastLayerTrees
  <2>. QED  BY <2>1, <2>2, LatchAside DEF PAt, RAt
<1>12. CASE UNCHANGED vars
  BY <1>12, <1>q, LatchAside DEF vars, PAt, RAt
<1>. QED
  BY <1>1, <1>2, <1>3, <1>4, <1>6, <1>7, <1>8, <1>9, <1>10, <1>11, <1>12 DEF Next, RasterStep

\* LatchIsServed: with one engine, and views that live until the raster thread has set
\* them up, OnPlatformViewDestroyed never waits for a task that is queued under the
\* waiting thread (shell.cc, lines 931-975).
THEOREM LatchServed == OneEngine /\ ~Hasty => (Spec => []LatchIsServed)
<1>. SUFFICES ASSUME OneEngine, ~Hasty PROVE Spec => []LatchIsServed
  OBVIOUS
<1>1. Init => SetupInv /\ TeardownInv
  <2>. SUFFICES ASSUME Init PROVE SetupInv /\ TeardownInv
    OBVIOUS
  <2>1. PAt = "idle" /\ RAt = "idle"
    BY IdleType DEF Init, PAt, RAt, Idle, Thread
  <2>2. \A w : ~Queued(w) /\ OnlyOne(w)
    BY DEF Init, Queued, OnlyOne
  <2>. QED
    BY <2>1, <2>2 DEF Init, SetupInv, TeardownInv, Creating, Destroying, TearsDown
<1>2. TypeOK /\ MutexInv /\ SetupInv /\ TeardownInv /\ [Next]_vars => SetupInv' /\ TeardownInv'
  BY LatchStep
<1>3. TeardownInv => LatchIsServed
  BY DEF TeardownInv, LatchIsServed, At, PAt, RAt
<1>. QED  BY <1>1, <1>2, <1>3, Typing, MutexAlways, PTL DEF Spec


-----------------------------------------------------------------------------
(* Every frame has a Draw to come *)

\* DrawLastLayerTrees has no frame of the pipeline to announce.
LastInv ==
    \A t \in Thread : thread[t].last =>
        thread[t].at \in {"preroll", "merge", "merging", "extend"} /\ thread[t].more = FALSE

AnnouncedInv ==
    /\ LastInv
    /\ items[Root] > 0 => Queued("draw") \/ \E t \in Thread : Announces(t)

\* A thread that does not forget what it has to announce.
LEMMA AnnouncesOn ==
    ASSUME AnnouncedInv, NEW t \in Thread, \A u \in Thread \ {t} : thread'[u] = thread[u],
           thread'[t].last => thread'[t].at \in {"preroll", "merge", "merging", "extend"}
                              /\ thread'[t].more = FALSE,
           items'[Root] > 0 => items[Root] > 0 \/ Queued("draw")' \/ Announces(t)',
           Queued("draw") => Queued("draw")' \/ Announces(t)' \/ ~(items'[Root] > 0),
           Announces(t) => Announces(t)' \/ Queued("draw")' \/ ~(items'[Root] > 0)
    PROVE  AnnouncedInv'
<1>1. LastInv'
  BY DEF AnnouncedInv, LastInv
<1>2. \A u \in Thread : u # t => (Announces(u)' <=> Announces(u))
  BY DEF Announces
<1>. QED  BY <1>1, <1>2 DEF AnnouncedInv

LEMMA AnnouncedStep ==
    AsShipped /\ TypeOK /\ ConfigInv /\ ConfigInv' /\ AnnouncedInv /\ [Next]_vars => AnnouncedInv'
<1>. SUFFICES ASSUME AsShipped, TypeOK, ConfigInv, ConfigInv', AnnouncedInv, [Next]_vars
              PROVE AnnouncedInv'
  OBVIOUS
<1>. USE DEF merger, frame, shell, Steps, Drawing
<1>0. /\ thread \in [Thread -> Doing] /\ queue \in Seq(Tasks) /\ recorded \subseteq Engine
      /\ items \in [Engine -> Nat]
  BY DEF TypeOK
<1>e. OneEngine /\ \A t \in Thread : Of(t) = Root
  BY <1>0 DEF Doing, Of, OneEngine, AsShipped
<1>t. Thread = {"platform", "raster"}
  BY DEF Thread
<1>l. \A t \in Thread : thread[t].last =>
        thread[t].at \in {"preroll", "merge", "merging", "extend"} /\ thread[t].more = FALSE
  BY DEF AnnouncedInv, LastInv
<1>q. queue' = queue => (Queued("draw") => Queued("draw")')
  BY DEF Queued
<1>p. ASSUME NEW v \in {"draw", "last", "setup", "teardown"}, NEW e \in Engine,
             queue' = Append(queue, [what |-> v, engine |-> e])
      PROVE  (Queued("draw") => Queued("draw")') /\ (v = "draw" => Queued("draw")')
  BY <1>0, <1>p, Enqueued
<1>k. ASSUME NEW t \in Thread, \A u \in Thread \ {t} : thread'[u] = thread[u],
             UNCHANGED <<queue, items>>, thread[t].at \in Drawing, thread[t].at # "submit",
             \/ thread[t].last /\ thread'[t].at = "idle" /\ ~thread'[t].last
             \/ /\ thread'[t].at \in Drawing /\ thread'[t].last = thread[t].last
                /\ thread[t].last => thread'[t].at \in {"preroll", "merge", "merging", "extend"}
                                     /\ thread'[t].more = FALSE
                /\ thread[t].more => thread'[t].more
      PROVE  AnnouncedInv'
  BY <1>k, <1>l, <1>q, AnnouncesOn DEF Announces
<1>1. ASSUME NEW t \in Thread, RunTask(t) PROVE AnnouncedInv'
  <2>1. /\ thread[t].at = "idle" /\ \A u \in Thread \ {t} : thread'[u] = thread[u]
        /\ thread'[t].more = FALSE /\ thread'[t].last = (queue[1].what = "last")
        /\ items' = items
    BY <1>0, <1>1, TakesTask DEF RunTask, At
  <2>2. thread'[t].last => thread'[t].at = "preroll"
    BY <1>0, <1>1, <2>1, TakesTask
  <2>3. Queued("draw") => Queued("draw")' \/ Announces(t)'
    <3>1. CASE queue[1].what = "draw"
      BY <1>0, <1>1, <3>1, TakesTask DEF Announces
    <3>2. CASE queue[1].what # "draw"
      BY <1>0, <1>1, <3>2, Dequeued
    <3>. QED  BY <3>1, <3>2
  <2>. QED  BY <2>1, <2>2, <2>3, AnnouncesOn DEF Announces
<1>2. ASSUME NEW t \in Thread, Consume(t) PROVE AnnouncedInv'
  <2>1. thread[t].at = "draw" /\ ~thread[t].last /\ queue' = queue
    BY <1>2, <1>l DEF Consume, At
  <2>2. CASE items[Root] = 0
    <3>1. items' = items /\ Return(t)
      BY <1>2, <1>e, <2>2 DEF Consume
    <3>2. thread'[t].last = FALSE /\ \A u \in Thread \ {t} : thread'[u] = thread[u]
      BY <1>0, <3>1, Returns
    <3>3. ~(items'[Root] > 0)
      BY <2>2, <3>1
    <3>. QED  BY <1>q, <2>1, <3>2, <3>3, AnnouncesOn
  <2>3. CASE items[Root] > 0
    <3>1. OnRasterizingThread(t)
      <4>1. CASE t = "platform"
        <5>1. IsMerged
          BY <2>1, <4>1 DEF ConfigInv, PAt, Serving
        <5>. QED  BY <4>1, <5>1 DEF OnRasterizingThread, IsMerged
      <4>2. CASE t = "raster"
        <5>1. ~IsMerged
          BY <2>1, <4>2 DEF ConfigInv, RAt, Rasterizing
        <5>. QED  BY <4>2, <5>1 DEF OnRasterizingThread, IsMerged
      <4>. QED  BY <1>t, <4>1, <4>2
    <3>2. /\ items' = [items EXCEPT ![Root] = @ - 1]
          /\ thread' = [thread EXCEPT ![t].at = "preroll", ![t].more = items[Root] > 1]
      BY <1>2, <1>e, <2>3, <3>1 DEF Consume
    <3>3. /\ thread'[t].at = "preroll" /\ (items[Root] > 1 => thread'[t].more)
          /\ ~thread'[t].last /\ \A u \in Thread \ {t} : thread'[u] = thread[u]
      BY <1>0, <2>1, <3>2 DEF Doing
    <3>4. items'[Root] > 0 => Announces(t)'
      <4>1. items'[Root] = items[Root] - 1 /\ items[Root] \in Nat
        BY <1>0, <3>2, RootAssumption
      <4>2. items'[Root] > 0 => thread'[t].more
        BY <3>3, <4>1
      <4>. QED  BY <3>3, <4>2 DEF Announces
    <3>. QED  BY <1>q, <2>1, <2>3, <3>3, <3>4, AnnouncesOn
  <2>. QED  BY <1>0, <2>2, <2>3, RootAssumption
<1>3. ASSUME NEW t \in Thread, NotSetUp(t) PROVE AnnouncedInv'
  <2>1. thread[t].at = "preroll" /\ UNCHANGED <<queue, items>>
    BY <1>3 DEF NotSetUp, At
  <2>2. CASE thread[t].last /\ Return(t)
    BY <1>0, <1>k, <2>1, <2>2, Returns
  <2>3. CASE ~thread[t].last /\ Go(t, "submit")
    BY <1>0, <1>k, <2>1, <2>3, Moves
  <2>. QED  BY <1>3, <2>2, <2>3 DEF NotSetUp
<1>4. ASSUME NEW t \in Thread, NEW again \in BOOLEAN, Drawn(t, again), UNCHANGED <<queue, items>>,
             thread[t].at \in {"preroll", "merge", "merging", "extend"}
      PROVE  AnnouncedInv'
  <2>1. /\ \A u \in Thread \ {t} : thread'[u] = thread[u]
        /\ \/ thread[t].last /\ thread'[t].at = "idle" /\ ~thread'[t].last
           \/ /\ ~thread[t].last /\ ~thread'[t].last /\ thread'[t].at = "lease"
              /\ thread'[t].more = thread[t].more
    BY <1>0, <1>4, Draws
  <2>2. thread[t].last \in BOOLEAN /\ thread'[t].last \in BOOLEAN
    BY <1>0, <1>4, Draws DEF Doing
  <2>3. CASE thread[t].last
    BY <1>4, <1>k, <2>1, <2>3
  <2>4. CASE ~thread[t].last
    BY <1>4, <1>k, <2>1, <2>2, <2>4
  <2>. QED  BY <2>3, <2>4
<1>5. ASSUME NEW t \in Thread, PlainFrame(t) PROVE AnnouncedInv'
  BY <1>4, <1>5 DEF PlainFrame, At
<1>6. ASSUME NEW t \in Thread, ViewFrame(t) PROVE AnnouncedInv'
  <2>1. thread'[t].at \in {"extend", "merge"} /\ UNCHANGED <<queue, items>>
    BY <1>0, <1>6, Moves DEF ViewFrame
  <2>2. /\ thread[t].at = "preroll" /\ thread'[t].last = thread[t].last
        /\ thread'[t].more = thread[t].more /\ \A u \in Thread \ {t} : thread'[u] = thread[u]
    BY <1>0, <1>6, Moves DEF ViewFrame, At
  <2>. QED  BY <1>k, <1>l, <2>1, <2>2
<1>7. ASSUME NEW t \in Thread, MergeWithLease(t) PROVE AnnouncedInv'
  <2>1. thread[t].at = "merge" /\ UNCHANGED <<queue, items>>
    BY <1>7 DEF MergeWithLease, At
  <2>2. CASE Go(t, "merging")
    BY <1>0, <1>k, <1>l, <2>1, <2>2, Moves
  <2>3. CASE Drawn(t, TRUE)
    BY <1>4, <2>1, <2>3
  <2>. QED  BY <1>7, <2>2, <2>3 DEF MergeWithLease
<1>8. ASSUME NEW t \in Thread, Merging(t) PROVE AnnouncedInv'
  BY <1>4, <1>8 DEF Merging, At
<1>9. ASSUME NEW t \in Thread, ExtendLeaseTo(t) PROVE AnnouncedInv'
  <2>1. Drawn(t, Of(t) \notin overlaid) /\ (Of(t) \notin overlaid) \in BOOLEAN
    BY <1>9 DEF ExtendLeaseTo
  <2>. QED  BY <1>4, <1>9, <2>1 DEF ExtendLeaseTo, At
<1>10. ASSUME NEW t \in Thread, DecrementLease(t) PROVE AnnouncedInv'
  <2>1. thread[t].at = "lease" /\ ~thread[t].last /\ UNCHANGED <<queue, items>>
    BY <1>10, <1>l DEF DecrementLease, At
  <2>2. /\ thread'[t].at \in {"leasing", "submit"} /\ thread'[t].last = thread[t].last
        /\ thread'[t].more = thread[t].more /\ \A u \in Thread \ {t} : thread'[u] = thread[u]
    BY <1>0, <1>10, Moves DEF DecrementLease
  <2>. QED  BY <1>k, <2>1, <2>2
<1>11. ASSUME NEW t \in Thread, Leasing(t) PROVE AnnouncedInv'
  <2>1. thread[t].at = "leasing" /\ ~thread[t].last /\ UNCHANGED <<queue, items>> /\ ~aborted'
    BY <1>11, <1>l DEF Leasing, At, ConfigInv
  <2>2. thread' = [thread EXCEPT ![t].at = "submit",
                     ![t].more = @ \/ (AllZero(Paid(Of(t))) /\ ~thread[t].retry)]
    BY <1>11, <2>1 DEF Leasing
  <2>3. /\ thread'[t].at = "submit" /\ thread'[t].last = thread[t].last
        /\ thread[t].more => thread'[t].more
        /\ \A u \in Thread \ {t} : thread'[u] = thread[u]
    BY <1>0, <2>2 DEF Doing
  <2>. QED  BY <1>k, <2>1, <2>3
<1>12. ASSUME NEW t \in Thread, Submit(t) PROVE AnnouncedInv'
  <2>1. /\ thread'[t].at = "idle" /\ thread'[t].last = FALSE
        /\ \A u \in Thread \ {t} : thread'[u] = thread[u]
    BY <1>0, <1>12, Returns DEF Submit
  <2>2. CASE thread[t].more \/ (thread[t].retry /\ items[Root] = 0)
    <3>1. Queued("draw")'
      BY <1>12, <1>e, <1>p, <2>2, RootAssumption DEF Submit
    <3>. QED  BY <2>1, <3>1, AnnouncesOn
  <2>3. CASE ~thread[t].more /\ ~(thread[t].retry /\ items[Root] = 0)
    <3>1. UNCHANGED <<queue, items>> /\ ~Announces(t)
      BY <1>12, <1>e, <2>3 DEF Submit, Announces, At
    <3>. QED  BY <1>q, <2>1, <3>1, AnnouncesOn
  <2>. QED  BY <2>2, <2>3
<1>13. ASSUME NEW t \in Thread, \A u \in Thread \ {t} : thread'[u] = thread[u],
              thread[t].at \notin Drawing \cup {"draw"}, ~thread'[t].last,
              Queued("draw") => Queued("draw")', items' = items
       PROVE  AnnouncedInv'
  BY <1>13, AnnouncesOn DEF Announces
<1>14. ASSUME NEW t \in Thread, Setup(t) \/ EnableThreadMerger(t) \/ Teardown(t) \/ Unmerging(t)
       PROVE  AnnouncedInv'
  <2>1. /\ thread[t].at \in {"setup", "enable", "teardown", "unmerging"}
        /\ UNCHANGED <<queue, items>>
    BY <1>14 DEF Setup, EnableThreadMerger, Teardown, Unmerging, At
  <2>2. ~thread'[t].last /\ \A u \in Thread \ {t} : thread'[u] = thread[u]
    <3>1. ~thread[t].last
      BY <1>l, <2>1
    <3>2. \/ Return(t) \/ Go(t, "teardown") \/ Go(t, "unmerging") \/ Go(t, "wait")
      BY <1>14 DEF Setup, EnableThreadMerger, Teardown, Unmerging, AfterTeardown
    <3>. QED  BY <1>0, <3>1, <3>2, Moves, Returns
  <2>. QED  BY <1>13, <1>q, <2>1, <2>2
<1>15. ASSUME NEW e \in Engine, CreateView(e) \/ DestroyView(e) PROVE AnnouncedInv'
  <2>1. thread["platform"].at = "idle" /\ UNCHANGED <<queue, items>>
    BY <1>15 DEF CreateView, DestroyView, At
  <2>2. /\ ~thread'["platform"].last
        /\ \A u \in Thread \ {"platform"} : thread'[u] = thread[u]
    <3>1. PICK w \in {"create", "destroy"} :
            thread' = [thread EXCEPT !["platform"] = [Idle EXCEPT !.at = w, !.engine = e]]
      BY <1>15 DEF CreateView, DestroyView
    <3>2. [Idle EXCEPT !.at = w, !.engine = e].last = FALSE
      BY DEF Idle
    <3>. QED  BY <1>0, <1>t, <3>1, <3>2
  <2>. QED  BY <1>13, <1>q, <1>t, <2>1, <2>2
<1>16. CASE PlatformStep
  <2>1. PAt \in {"create", "createPost", "destroy", "destroyPost", "wait"} /\ items' = items
    BY <1>16 DEF PlatformStep, CreateLooks, CreatePosts, DestroyLooks, DestroyPosts,
         DestroyReturns, At, PAt
  <2>2. /\ ~thread'["platform"].last
        /\ \A u \in Thread \ {"platform"} : thread'[u] = thread[u]
    <3>1. ~thread["platform"].last
      BY <1>l, <1>t, <2>1 DEF PAt
    <3>2. \/ Return("platform")
          \/ \E at \in {"setup", "createPost", "enable", "destroyPost", "wait"} : Go("platform", at)
      BY <1>16 DEF PlatformStep, CreateLooks, CreatePosts, DestroyLooks, DestroyPosts,
           DestroyReturns
    <3>. QED  BY <1>0, <1>t, <3>1, <3>2, Moves, Returns
  <2>3. Queued("draw") => Queued("draw")'
    <3>1. \/ queue' = queue
          \/ \E v \in {"setup", "teardown"} : queue' = Append(queue, [what |-> v, engine |-> Root])
      BY <1>16, <1>e, <1>t DEF PlatformStep, CreateLooks, CreatePosts, DestroyLooks, DestroyPosts,
           DestroyReturns
    <3>. QED  BY <1>p, <1>q, <3>1, RootAssumption
  <2>. QED  BY <1>13, <1>t, <2>1, <2>2, <2>3 DEF PAt
<1>17. ASSUME NEW e \in Engine, ProduceFrame(e) \/ ReuseLastLayerTrees(e) PROVE AnnouncedInv'
  <2>1. (Queued("draw") => Queued("draw")') /\ thread' = thread
    BY <1>17, <1>p, <1>q DEF ProduceFrame, ReuseLastLayerTrees
  <2>2. items'[Root] > 0 => items[Root] > 0 \/ Queued("draw")'
    <3>1. e = Root
      BY <1>e DEF OneEngine
    <3>2. CASE ProduceFrame(e) /\ items[e] = 0
      BY <1>p, <3>2 DEF ProduceFrame
    <3>3. CASE ProduceFrame(e) /\ items[e] # 0
      BY <1>0, <3>1, <3>3
    <3>4. CASE ReuseLastLayerTrees(e)
      BY <3>4 DEF ReuseLastLayerTrees
    <3>. QED  BY <1>17, <3>2, <3>3, <3>4
  <2>. QED  BY <1>l, <1>t, <2>1, <2>2, AnnouncesOn DEF Announces
<1>18. CASE UNCHANGED vars
  BY <1>18, <1>l, <1>q, <1>t, AnnouncesOn DEF vars, Announces
<1>. QED
  BY <1>1, <1>2, <1>3, <1>5, <1>6, <1>7, <1>8, <1>9, <1>10, <1>11, <1>12, <1>14, <1>15, <1>16,
     <1>17, <1>18 DEF Next, RasterStep, Draw

\* FramesAnnounced: neither a frame put back to be tried again nor a change of the thread
\* that rasterizes leaves a frame without a Draw (rasterizer.cc, lines 251 and 548-563).
THEOREM EveryFrameAnnounced == AsShipped => (Spec => []FramesAnnounced)
<1>. SUFFICES ASSUME AsShipped PROVE Spec => []FramesAnnounced
  OBVIOUS
<1>1. Init => AnnouncedInv
  <2>. SUFFICES ASSUME Init PROVE AnnouncedInv
    OBVIOUS
  <2>1. \A t \in Thread : thread[t].last = FALSE
    BY IdleType DEF Init, Idle
  <2>. QED  BY <2>1, RootAssumption DEF Init, AnnouncedInv, LastInv
<1>2. TypeOK /\ ConfigInv /\ ConfigInv' /\ AnnouncedInv /\ [Next]_vars => AnnouncedInv'
  BY AnnouncedStep
<1>3. TypeOK /\ AnnouncedInv => FramesAnnounced
  <2>. SUFFICES ASSUME TypeOK, AnnouncedInv, items[Root] > 0
                PROVE  \/ \E i \in 1..Len(queue) : queue[i] = [what |-> "draw", engine |-> Root]
                       \/ \E t \in Thread : Of(t) = Root /\ Announces(t)
    BY DEF FramesAnnounced, AsShipped, OneEngine
  <2>1. \A t \in Thread : Of(t) = Root
    BY DEF TypeOK, Doing, Of, AsShipped, OneEngine
  <2>2. \A i \in 1..Len(queue) : queue[i].what = "draw" =>
            queue[i] = [what |-> "draw", engine |-> Root]
    <3>1. \A i \in 1..Len(queue) : queue[i] \in Tasks
      BY ElementOfSeq DEF TypeOK
    <3>. QED  BY <3>1 DEF Tasks, AsShipped, OneEngine
  <2>. QED  BY <2>1, <2>2 DEF AnnouncedInv, Queued
<1>. QED  BY <1>1, <1>2, <1>3, Typing, ConfigAlways, PTL DEF Spec
=============================================================================
