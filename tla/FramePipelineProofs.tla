------------------------ MODULE FramePipelineProofs ------------------------
(***************************************************************************)
(* Every invariant the runs check of FramePipeline, proved for every depth *)
(* of the pipeline, every number of frames and of secondary callbacks: the *)
(* slots and semaphores, the one vsync, which frames can come late, what   *)
(* can strand one, then what the UI thread's queue holds of the request    *)
(* and of the pauses.                                                      *)
(***************************************************************************)
EXTENDS FramePipeline, SequenceTheorems, FiniteSetTheorems, TLAPS

-----------------------------------------------------------------------------
(* Typing, as far as the proofs need it *)

Numbers == empty \in Nat /\ available \in Nat /\ draws \in Nat /\ vsyncs \in Nat

Control ==
    /\ continuation \in BOOLEAN /\ first \in BOOLEAN /\ missed \in BOOLEAN
    /\ merged \in BOOLEAN /\ more \in [Thread -> BOOLEAN]
    /\ after \in {"idle", "frame", "endVsync"} /\ at \in [Thread -> DrawPc]

Frames ==
    /\ tree \in 0..MaxFrame /\ last \in 0..MaxFrame
    /\ item \in [Thread -> 0..MaxFrame] /\ shown \in 0..MaxFrame /\ cancelled \in 0..MaxFrame
    /\ queue \in Seq(1..MaxFrame)
    /\ \A t \in Thread : at[t] \in {"draw", "tryAgain", "recommit"} => item[t] # 0

\* The operations on the deque, in terms of its length and its elements.
LEMMA Pushed ==
    ASSUME NEW S, NEW q \in Seq(S), NEW f \in S
    PROVE  /\ Append(q, f) \in Seq(S) /\ Len(Append(q, f)) = Len(q) + 1
           /\ Append(q, f)[Len(q) + 1] = f
           /\ \A i \in 1..Len(q) : Append(q, f)[i] = q[i]
  OBVIOUS

LEMMA Popped ==
    ASSUME NEW S, NEW q \in Seq(S), Len(q) # 0
    PROVE  /\ Head(q) \in S /\ Head(q) = q[1]
           /\ Tail(q) \in Seq(S) /\ Len(Tail(q)) = Len(q) - 1
           /\ \A i \in 1..Len(Tail(q)) : Tail(q)[i] = q[i + 1]
<1>1. q # <<>>
  OBVIOUS
<1>. QED  BY <1>1, HeadTailProperties

LEMMA Lengths ==
    ASSUME NEW S, NEW q \in Seq(S)
    PROVE  Len(q) \in Nat /\ (q = <<>> <=> Len(q) = 0)
  BY EmptySeq, LenProperties

LEMMA Elements ==
    ASSUME NEW q \in Seq(1..MaxFrame)
    PROVE  \A i \in 1..Len(q) : q[i] \in Nat /\ q[i] > 0
  BY MaxFrameAssumption, ElementOfSeq

LEMMA NumbersStep == Numbers /\ [Next]_vars => Numbers'
<1>. SUFFICES ASSUME Numbers, [Next]_vars PROVE Numbers'
  OBVIOUS
<1>. USE DEF Numbers, animator, waiter, pipeline, Outside
<1>1. ASSUME NEW b \in BOOLEAN, RequestFrame(b) PROVE Numbers'
  BY <1>1 DEF RequestFrame
<1>2. CASE AsyncWaitForVsync
  BY <1>2 DEF AsyncWaitForVsync, RunTask
<1>3. ASSUME NEW id \in Secondary, ScheduleSecondaryCallback(id) PROVE Numbers'
  BY <1>3 DEF ScheduleSecondaryCallback
<1>4. CASE AwaitVSync
  BY <1>4 DEF AwaitVSync
<1>5. CASE ReuseLastLayerTrees
  BY <1>5 DEF ReuseLastLayerTrees, RunTask
<1>6. CASE BeginFrame
  BY <1>6 DEF BeginFrame, RunTask
<1>7. ASSUME NEW b \in BOOLEAN, Render(b) PROVE Numbers'
  BY <1>7 DEF Render
<1>8. CASE FrameBuilt
  BY <1>8 DEF FrameBuilt
<1>9. CASE NothingToCommit
  BY <1>9 DEF NothingToCommit
<1>10. CASE Commit
  BY <1>10 DEF Commit
<1>11. CASE Signal
  BY <1>11 DEF Signal
<1>12. CASE PostDraw
  BY <1>12 DEF PostDraw
<1>13. CASE EndVsync
  BY <1>13 DEF EndVsync
<1>14. CASE RunSecondary
  BY <1>14 DEF RunSecondary, RunTask
<1>15. CASE FireCallback
  BY <1>15 DEF FireCallback
<1>16. CASE FirePosts
  BY <1>16 DEF FirePosts
<1>17. ASSUME NEW t \in Thread, DrawStart(t) PROVE Numbers'
  BY <1>17 DEF DrawStart, Rasterizing
<1>18. ASSUME NEW t \in Thread, Pop(t) PROVE Numbers'
  BY <1>18 DEF Pop
<1>19. ASSUME NEW t \in Thread, DoDraw(t) PROVE Numbers'
  BY <1>19 DEF DoDraw
<1>20. ASSUME NEW t \in Thread, CancelAndMerge(t) PROVE Numbers'
  BY <1>20 DEF CancelAndMerge
<1>21. ASSUME NEW t \in Thread, DrawAndUnmerge(t) PROVE Numbers'
  BY <1>21 DEF DrawAndUnmerge
<1>22. ASSUME NEW t \in Thread, Release(t) PROVE Numbers'
  BY <1>22 DEF Release
<1>23. ASSUME NEW t \in Thread, TryAgain(t) PROVE Numbers'
  BY <1>23 DEF TryAgain
<1>24. ASSUME NEW t \in Thread, Recommit(t) PROVE Numbers'
  BY <1>24 DEF Recommit
<1>25. ASSUME NEW t \in Thread, Resignal(t) PROVE Numbers'
  BY <1>25 DEF Resignal
<1>26. ASSUME NEW t \in Thread, DrawEnd(t) PROVE Numbers'
  BY <1>26 DEF DrawEnd
<1>27. CASE UNCHANGED vars
  BY <1>27 DEF vars
<1>. QED
  BY <1>1, <1>2, <1>3, <1>4, <1>5, <1>6, <1>7, <1>8, <1>9, <1>10, <1>11, <1>12, <1>13,
     <1>14, <1>15, <1>16, <1>17, <1>18, <1>19, <1>20, <1>21, <1>22, <1>23, <1>24,
     <1>25, <1>26, <1>27
     DEF Next, UiTask, Draw

LEMMA ControlStep == Control /\ [Next]_vars => Control'
<1>. SUFFICES ASSUME Control, [Next]_vars PROVE Control'
  OBVIOUS
<1>. USE DEF Control, DrawPc, Goes, animator, waiter, pipeline, drawing, Outside
<1>1. ASSUME NEW b \in BOOLEAN, RequestFrame(b) PROVE Control'
  BY <1>1 DEF RequestFrame
<1>2. CASE AsyncWaitForVsync
  BY <1>2 DEF AsyncWaitForVsync, RunTask
<1>3. ASSUME NEW id \in Secondary, ScheduleSecondaryCallback(id) PROVE Control'
  BY <1>3 DEF ScheduleSecondaryCallback
<1>4. CASE AwaitVSync
  BY <1>4 DEF AwaitVSync
<1>5. CASE ReuseLastLayerTrees
  BY <1>5 DEF ReuseLastLayerTrees, RunTask
<1>6. CASE BeginFrame
  BY <1>6 DEF BeginFrame, RunTask
<1>7. ASSUME NEW b \in BOOLEAN, Render(b) PROVE Control'
  BY <1>7 DEF Render
<1>8. CASE FrameBuilt
  BY <1>8 DEF FrameBuilt
<1>9. CASE NothingToCommit
  BY <1>9 DEF NothingToCommit
<1>10. CASE Commit
  BY <1>10 DEF Commit
<1>11. CASE Signal
  BY <1>11 DEF Signal
<1>12. CASE PostDraw
  BY <1>12 DEF PostDraw
<1>13. CASE EndVsync
  BY <1>13 DEF EndVsync
<1>14. CASE RunSecondary
  BY <1>14 DEF RunSecondary, RunTask
<1>15. CASE FireCallback
  BY <1>15 DEF FireCallback
<1>16. CASE FirePosts
  BY <1>16 DEF FirePosts
<1>17. ASSUME NEW t \in Thread, DrawStart(t) PROVE Control'
  BY <1>17 DEF DrawStart, Rasterizing
<1>18. ASSUME NEW t \in Thread, Pop(t) PROVE Control'
  BY <1>18 DEF Pop
<1>19. ASSUME NEW t \in Thread, DoDraw(t) PROVE Control'
  BY <1>19 DEF DoDraw
<1>20. ASSUME NEW t \in Thread, CancelAndMerge(t) PROVE Control'
  BY <1>20 DEF CancelAndMerge
<1>21. ASSUME NEW t \in Thread, DrawAndUnmerge(t) PROVE Control'
  BY <1>21 DEF DrawAndUnmerge
<1>22. ASSUME NEW t \in Thread, Release(t) PROVE Control'
  BY <1>22 DEF Release
<1>23. ASSUME NEW t \in Thread, TryAgain(t) PROVE Control'
  BY <1>23 DEF TryAgain
<1>24. ASSUME NEW t \in Thread, Recommit(t) PROVE Control'
  BY <1>24 DEF Recommit
<1>25. ASSUME NEW t \in Thread, Resignal(t) PROVE Control'
  BY <1>25 DEF Resignal
<1>26. ASSUME NEW t \in Thread, DrawEnd(t) PROVE Control'
  BY <1>26 DEF DrawEnd
<1>27. CASE UNCHANGED vars
  BY <1>27 DEF vars
<1>. QED
  BY <1>1, <1>2, <1>3, <1>4, <1>5, <1>6, <1>7, <1>8, <1>9, <1>10, <1>11, <1>12, <1>13,
     <1>14, <1>15, <1>16, <1>17, <1>18, <1>19, <1>20, <1>21, <1>22, <1>23, <1>24,
     <1>25, <1>26, <1>27
     DEF Next, UiTask, Draw

\* Popped at a thread that is about to pop.
PopSafe == \A t \in Thread : at[t] = "pop" => Len(queue) # 0

LEMMA FramesStep == Frames /\ Control /\ PopSafe /\ [Next]_vars => Frames'
<1>. SUFFICES ASSUME Frames, Control, PopSafe, [Next]_vars PROVE Frames'
  OBVIOUS
<1>. USE MaxFrameAssumption DEF Frames, Control, Goes, animator, waiter, pipeline, drawing,
                                Outside
<1>1. ASSUME NEW b \in BOOLEAN, RequestFrame(b) PROVE Frames'
  BY <1>1 DEF RequestFrame
<1>2. CASE AsyncWaitForVsync
  BY <1>2 DEF AsyncWaitForVsync, RunTask
<1>3. ASSUME NEW id \in Secondary, ScheduleSecondaryCallback(id) PROVE Frames'
  BY <1>3 DEF ScheduleSecondaryCallback
<1>4. CASE AwaitVSync
  BY <1>4 DEF AwaitVSync
<1>5. CASE ReuseLastLayerTrees
  BY <1>5 DEF ReuseLastLayerTrees, RunTask
<1>6. CASE BeginFrame
  BY <1>6 DEF BeginFrame, RunTask
<1>7. ASSUME NEW b \in BOOLEAN, Render(b) PROVE Frames'
  BY <1>7 DEF Render
<1>8. CASE FrameBuilt
  BY <1>8 DEF FrameBuilt
<1>9. CASE NothingToCommit
  BY <1>9 DEF NothingToCommit
<1>10. CASE Commit
  <2>1. tree \in 1..MaxFrame
    BY <1>10 DEF Commit
  <2>2. queue' \in Seq(1..MaxFrame)
    BY <1>10, <2>1, Pushed DEF Commit
  <2>. QED  BY <1>10, <2>2 DEF Commit
<1>11. CASE Signal
  BY <1>11 DEF Signal
<1>12. CASE PostDraw
  BY <1>12 DEF PostDraw
<1>13. CASE EndVsync
  BY <1>13 DEF EndVsync
<1>14. CASE RunSecondary
  BY <1>14 DEF RunSecondary, RunTask
<1>15. CASE FireCallback
  BY <1>15 DEF FireCallback
<1>16. CASE FirePosts
  BY <1>16 DEF FirePosts
<1>17. ASSUME NEW t \in Thread, DrawStart(t) PROVE Frames'
  BY <1>17 DEF DrawStart, Rasterizing
<1>18. ASSUME NEW t \in Thread, Pop(t) PROVE Frames'
  <2>1. Head(queue) \in 1..MaxFrame /\ Tail(queue) \in Seq(1..MaxFrame)
    BY <1>18, Popped DEF Pop, PopSafe
  <2>. QED  BY <1>18, <2>1 DEF Pop
<1>19. ASSUME NEW t \in Thread, DoDraw(t) PROVE Frames'
  BY <1>19 DEF DoDraw
<1>20. ASSUME NEW t \in Thread, CancelAndMerge(t) PROVE Frames'
  BY <1>20 DEF CancelAndMerge
<1>21. ASSUME NEW t \in Thread, DrawAndUnmerge(t) PROVE Frames'
  BY <1>21 DEF DrawAndUnmerge
<1>22. ASSUME NEW t \in Thread, Release(t) PROVE Frames'
  BY <1>22 DEF Release
<1>23. ASSUME NEW t \in Thread, TryAgain(t) PROVE Frames'
  BY <1>23 DEF TryAgain
<1>24. ASSUME NEW t \in Thread, Recommit(t) PROVE Frames'
  <2>1. item[t] \in 1..MaxFrame
    BY <1>24 DEF Recommit
  <2>2. <<item[t]>> \in Seq(1..MaxFrame)
    BY <2>1
  <2>3. queue' \in Seq(1..MaxFrame)
    BY <1>24, <2>2 DEF Recommit
  <2>. QED  BY <1>24, <2>3 DEF Recommit
<1>25. ASSUME NEW t \in Thread, Resignal(t) PROVE Frames'
  BY <1>25 DEF Resignal
<1>26. ASSUME NEW t \in Thread, DrawEnd(t) PROVE Frames'
  BY <1>26 DEF DrawEnd
<1>27. CASE UNCHANGED vars
  BY <1>27 DEF vars
<1>. QED
  BY <1>1, <1>2, <1>3, <1>4, <1>5, <1>6, <1>7, <1>8, <1>9, <1>10, <1>11, <1>12, <1>13,
     <1>14, <1>15, <1>16, <1>17, <1>18, <1>19, <1>20, <1>21, <1>22, <1>23, <1>24,
     <1>25, <1>26, <1>27
     DEF Next, UiTask, Draw

-----------------------------------------------------------------------------
(* The slots and the two semaphores *)

\* A thread that goes on in its draw leaves one place and is counted at another.
LEMMA Moved ==
    ASSUME NEW t \in Thread, NEW here, NEW there, NEW places,
           at \in [Thread -> DrawPc], Goes(t, here, there)
    PROVE  /\ AreAt(places) \in Nat /\ AreAt(places)' \in Nat
           /\ AreAt(places)' = AreAt(places) + Count(there \in places) - Count(here \in places)
<1>1. /\ at[t] = here /\ at'[t] = there
      /\ \A u \in Thread \ {t} : at'[u] = at[u]
  BY DEF Goes
<1>2. CASE t = "raster"
  <2>1. at["raster"] = here /\ at'["raster"] = there /\ at'["platform"] = at["platform"]
    BY <1>1, <1>2 DEF Thread
  <2>. QED  BY <2>1 DEF AreAt, Count
<1>3. CASE t = "platform"
  <2>1. at["platform"] = here /\ at'["platform"] = there /\ at'["raster"] = at["raster"]
    BY <1>1, <1>3 DEF Thread
  <2>. QED  BY <2>1 DEF AreAt, Count
<1>. QED  BY <1>2, <1>3 DEF Thread

HeldByAnimator == Count(continuation)
HeldByDraws    == AreAt({"draw", "release", "recommit"})

\* What a thread that goes on does to the slots the draws hold.
LEMMA HeldMoved ==
    ASSUME NEW t \in Thread, NEW here, NEW there, at \in [Thread -> DrawPc], Goes(t, here, there)
    PROVE  HeldByDraws' = HeldByDraws + Count(there \in {"draw", "release", "recommit"})
                                      - Count(here \in {"draw", "release", "recommit"})
<1>1. PICK places : places = {"draw", "release", "recommit"}
  OBVIOUS
<1>2. AreAt(places)' = AreAt(places) + Count(there \in places) - Count(here \in places)
  BY Moved
<1>. QED  BY <1>1, <1>2 DEF HeldByDraws

LEMMA SlotsStep ==
    Numbers /\ Control /\ Frames /\ SlotsConserved /\ PopSafe /\ [Next]_vars => SlotsConserved'
<1>. SUFFICES ASSUME Numbers, Control, Frames, SlotsConserved, PopSafe, [Next]_vars
              PROVE  SlotsConserved'
  OBVIOUS
<1>a. /\ HeldByAnimator \in Nat /\ HeldByDraws \in Nat
      /\ HeldByAnimator' \in Nat /\ HeldByDraws' \in Nat
  BY DEF HeldByAnimator, HeldByDraws, AreAt, Count
<1>b. empty \in Nat /\ Len(queue) \in Nat /\ Depth \in Nat /\ at \in [Thread -> DrawPc]
  BY Lengths, DepthAssumption DEF Numbers, Frames, Control
<1>c. /\ Depth = empty + HeldByAnimator + Len(queue) + HeldByDraws
      /\ Depth = empty' + HeldByAnimator' + Len(queue') + HeldByDraws' => SlotsConserved'
  BY DEF SlotsConserved, HeldByAnimator, HeldByDraws
<1>. USE <1>a, <1>b, <1>c
<1>1. CASE BeginFrame
  <2>1. HeldByDraws' = HeldByDraws /\ queue' = queue
    BY <1>1 DEF BeginFrame, HeldByDraws, AreAt, drawing
  <2>2. CASE continuation
    <3>1. HeldByAnimator' = HeldByAnimator /\ empty' = empty
      BY <1>1, <2>2 DEF BeginFrame, HeldByAnimator
    <3>. QED  BY <2>1, <3>1
  <2>3. CASE ~continuation /\ empty > 0
    <3>1. HeldByAnimator = 0 /\ HeldByAnimator' = 1 /\ empty' = empty - 1
      BY <1>1, <2>3 DEF BeginFrame, HeldByAnimator, Count
    <3>. QED  BY <2>1, <3>1
  <2>4. CASE ~continuation /\ empty = 0
    <3>1. HeldByAnimator' = HeldByAnimator /\ empty' = empty
      BY <1>1, <2>4 DEF BeginFrame, HeldByAnimator
    <3>. QED  BY <2>1, <3>1
  <2>. QED  BY <2>2, <2>3, <2>4
<1>2. CASE Commit
  <2>1. HeldByDraws' = HeldByDraws /\ empty' = empty
    BY <1>2 DEF Commit, HeldByDraws, AreAt, drawing
  <2>2. HeldByAnimator = 1 /\ HeldByAnimator' = 0
    BY <1>2 DEF Commit, HeldByAnimator, Count
  <2>3. Len(queue') = Len(queue) + 1
    BY <1>2, Pushed DEF Commit, Frames
  <2>. QED  BY <2>1, <2>2, <2>3
<1>3. ASSUME NEW t \in Thread, DrawStart(t) PROVE SlotsConserved'
  <2>1. HeldByDraws' = HeldByDraws
    <3>1. CASE at' = at
      BY <3>1 DEF HeldByDraws, AreAt
    <3>2. CASE Goes(t, "idle", "pop")
      BY <3>2, HeldMoved DEF Count
    <3>. QED  BY <1>3, <3>1, <3>2 DEF DrawStart
  <2>2. HeldByAnimator' = HeldByAnimator /\ empty' = empty /\ queue' = queue
    BY <1>3 DEF DrawStart, HeldByAnimator, Outside, animator
  <2>. QED  BY <2>1, <2>2
<1>4. ASSUME NEW t \in Thread, Pop(t) PROVE SlotsConserved'
  <2>1. HeldByDraws' = HeldByDraws + 1
    BY <1>4, HeldMoved DEF Pop, Count
  <2>2. HeldByAnimator' = HeldByAnimator /\ empty' = empty
    BY <1>4 DEF Pop, HeldByAnimator, Outside, animator
  <2>3. Len(queue') = Len(queue) - 1
    BY <1>4, Popped DEF Pop, Goes, PopSafe, Frames
  <2>. QED  BY <2>1, <2>2, <2>3
<1>5. ASSUME NEW t \in Thread, DoDraw(t) PROVE SlotsConserved'
  <2>1. HeldByDraws' = HeldByDraws
    BY <1>5, HeldMoved DEF DoDraw, Count
  <2>2. HeldByAnimator' = HeldByAnimator /\ empty' = empty /\ queue' = queue
    BY <1>5 DEF DoDraw, HeldByAnimator, Outside, animator, pipeline
  <2>. QED  BY <2>1, <2>2
<1>6. ASSUME NEW t \in Thread, CancelAndMerge(t) PROVE SlotsConserved'
  <2>1. HeldByDraws' = HeldByDraws
    BY <1>6, HeldMoved DEF CancelAndMerge, Count
  <2>2. HeldByAnimator' = HeldByAnimator /\ empty' = empty /\ queue' = queue
    BY <1>6 DEF CancelAndMerge, HeldByAnimator, Outside, animator, pipeline
  <2>. QED  BY <2>1, <2>2
<1>7. ASSUME NEW t \in Thread, DrawAndUnmerge(t) PROVE SlotsConserved'
  <2>1. HeldByDraws' = HeldByDraws
    BY <1>7, HeldMoved DEF DrawAndUnmerge, Count
  <2>2. HeldByAnimator' = HeldByAnimator /\ empty' = empty /\ queue' = queue
    BY <1>7 DEF DrawAndUnmerge, HeldByAnimator, Outside, animator, pipeline
  <2>. QED  BY <2>1, <2>2
<1>8. ASSUME NEW t \in Thread, Release(t) PROVE SlotsConserved'
  <2>1. HeldByDraws' = HeldByDraws - 1
    BY <1>8, HeldMoved DEF Release, Count
  <2>2. HeldByAnimator' = HeldByAnimator /\ empty' = empty + 1 /\ queue' = queue
    BY <1>8 DEF Release, HeldByAnimator, Outside, animator
  <2>. QED  BY <2>1, <2>2
<1>9. ASSUME NEW t \in Thread, TryAgain(t) PROVE SlotsConserved'
  <2>1. HeldByAnimator' = HeldByAnimator /\ queue' = queue
    BY <1>9 DEF TryAgain, HeldByAnimator, Outside, animator
  <2>2. CASE empty' = empty - 1 /\ Goes(t, "tryAgain", "recommit")
    <3>1. HeldByDraws' = HeldByDraws + 1
      BY <2>2, HeldMoved DEF Count
    <3>. QED  BY <2>1, <2>2, <3>1
  <2>3. CASE empty' = empty /\ Goes(t, "tryAgain", "post")
    <3>1. HeldByDraws' = HeldByDraws
      BY <2>3, HeldMoved DEF Count
    <3>. QED  BY <2>1, <2>3, <3>1
  <2>. QED  BY <1>9, <2>2, <2>3 DEF TryAgain
<1>10. ASSUME NEW t \in Thread, Recommit(t) PROVE SlotsConserved'
  <2>1. HeldByAnimator' = HeldByAnimator
    BY <1>10 DEF Recommit, HeldByAnimator, Outside, animator
  <2>2. HeldByDraws' = HeldByDraws - 1
    <3>1. PICK there \in {"resignal", "post"} : Goes(t, "recommit", there)
      BY <1>10 DEF Recommit
    <3>. QED  BY <3>1, HeldMoved DEF Count
  <2>3. CASE queue = <<>>
    <3>1. Len(queue) = 0 /\ Len(queue') = 1 /\ empty' = empty
      BY <1>10, <2>3 DEF Recommit
    <3>. QED  BY <2>1, <2>2, <3>1
  <2>4. CASE queue # <<>>
    BY <1>10, <2>1, <2>2, <2>4 DEF Recommit
  <2>. QED  BY <2>3, <2>4
<1>11. ASSUME NEW t \in Thread, Resignal(t) PROVE SlotsConserved'
  <2>1. HeldByDraws' = HeldByDraws
    BY <1>11, HeldMoved DEF Resignal, Count
  <2>2. HeldByAnimator' = HeldByAnimator /\ empty' = empty /\ queue' = queue
    BY <1>11 DEF Resignal, HeldByAnimator, Outside, animator, pipeline
  <2>. QED  BY <2>1, <2>2
<1>12. ASSUME NEW t \in Thread, DrawEnd(t) PROVE SlotsConserved'
  <2>1. HeldByDraws' = HeldByDraws
    BY <1>12, HeldMoved DEF DrawEnd, Count
  <2>2. HeldByAnimator' = HeldByAnimator /\ empty' = empty /\ queue' = queue
    BY <1>12 DEF DrawEnd, HeldByAnimator, Outside, animator, pipeline
  <2>. QED  BY <2>1, <2>2
<1>13. CASE UNCHANGED <<continuation, at, empty, queue>>
  <2>1. HeldByAnimator' = HeldByAnimator /\ HeldByDraws' = HeldByDraws
    BY <1>13 DEF HeldByAnimator, HeldByDraws, AreAt
  <2>. QED  BY <1>13, <2>1
<1>. QED
  <2>1. ASSUME NEW b \in BOOLEAN, RequestFrame(b) PROVE SlotsConserved'
    BY <1>13, <2>1 DEF RequestFrame, animator, pipeline, drawing
  <2>2. CASE AsyncWaitForVsync
    BY <1>13, <2>2 DEF AsyncWaitForVsync, RunTask, animator, pipeline, drawing
  <2>3. ASSUME NEW id \in Secondary, ScheduleSecondaryCallback(id) PROVE SlotsConserved'
    BY <1>13, <2>3 DEF ScheduleSecondaryCallback, animator, pipeline, drawing
  <2>4. CASE AwaitVSync
    BY <1>13, <2>4 DEF AwaitVSync, animator, pipeline, drawing
  <2>5. CASE ReuseLastLayerTrees
    BY <1>13, <2>5 DEF ReuseLastLayerTrees, RunTask, animator, pipeline, drawing
  <2>6. ASSUME NEW b \in BOOLEAN, Render(b) PROVE SlotsConserved'
    BY <1>13, <2>6 DEF Render, animator, pipeline, drawing
  <2>7. CASE FrameBuilt
    BY <1>13, <2>7 DEF FrameBuilt, animator, pipeline, drawing
  <2>8. CASE NothingToCommit
    BY <1>13, <2>8 DEF NothingToCommit, animator, pipeline, drawing
  <2>9. CASE Signal
    BY <1>13, <2>9 DEF Signal, animator, pipeline, drawing
  <2>10. CASE PostDraw
    BY <1>13, <2>10 DEF PostDraw, animator, pipeline, drawing
  <2>11. CASE EndVsync
    BY <1>13, <2>11 DEF EndVsync, animator, pipeline, drawing
  <2>12. CASE RunSecondary
    BY <1>13, <2>12 DEF RunSecondary, RunTask, animator, pipeline, drawing
  <2>13. CASE FireCallback
    BY <1>13, <2>13 DEF FireCallback, animator, pipeline, drawing
  <2>14. CASE FirePosts
    BY <1>13, <2>14 DEF FirePosts, animator, pipeline, drawing
  <2>15. CASE UNCHANGED vars
    BY <1>13, <2>15 DEF vars, animator, pipeline, drawing
  <2>. QED
    BY <1>1, <1>2, <1>3, <1>4, <1>5, <1>6, <1>7, <1>8, <1>9, <1>10, <1>11, <1>12, <2>1,
       <2>2, <2>3, <2>4, <2>5, <2>6, <2>7, <2>8, <2>9, <2>10, <2>11, <2>12, <2>13,
       <2>14, <2>15
       DEF Next, UiTask, Draw

Signalling == Count(ui = "signal")
OnTheWay   == AreAt({"pop", "resignal"})

LEMMA WayMoved ==
    ASSUME NEW t \in Thread, NEW here, NEW there, at \in [Thread -> DrawPc], Goes(t, here, there)
    PROVE  OnTheWay' = OnTheWay + Count(there \in {"pop", "resignal"})
                                - Count(here \in {"pop", "resignal"})
  BY Moved DEF OnTheWay

LEMMA SignalsStep ==
    Numbers /\ Control /\ Frames /\ PopSafe /\ NeverPopsEmpty /\ [Next]_vars => NeverPopsEmpty'
<1>. SUFFICES ASSUME Numbers, Control, Frames, PopSafe, NeverPopsEmpty, [Next]_vars
              PROVE  NeverPopsEmpty'
  OBVIOUS
<1>a. /\ OnTheWay \in Nat /\ Signalling \in Nat
      /\ OnTheWay' \in Nat /\ Signalling' \in Nat
  BY DEF OnTheWay, Signalling, AreAt, Count
<1>b. available \in Nat /\ Len(queue) \in Nat /\ at \in [Thread -> DrawPc]
  BY Lengths DEF Numbers, Frames, Control
<1>c. /\ Len(queue) = available + Signalling + OnTheWay
      /\ Len(queue') = available' + Signalling' + OnTheWay' => NeverPopsEmpty'
  BY DEF NeverPopsEmpty, Signalling, OnTheWay
<1>. USE <1>a, <1>b, <1>c
<1>1. CASE Commit
  <2>1. OnTheWay' = OnTheWay /\ available' = available
    BY <1>1 DEF Commit, OnTheWay, AreAt, drawing
  <2>2. Signalling = 0 /\ Signalling' = 1
    BY <1>1 DEF Commit, Signalling, Count
  <2>3. Len(queue') = Len(queue) + 1
    BY <1>1, Pushed DEF Commit, Frames
  <2>. QED  BY <2>1, <2>2, <2>3
<1>2. CASE Signal
  <2>1. OnTheWay' = OnTheWay
    BY <1>2 DEF Signal, OnTheWay, AreAt, drawing
  <2>2. Signalling = 1 /\ Signalling' = 0 /\ available' = available + 1 /\ queue' = queue
    BY <1>2 DEF Signal, Signalling, Count
  <2>. QED  BY <2>1, <2>2
<1>3. ASSUME NEW t \in Thread, DrawStart(t) PROVE NeverPopsEmpty'
  <2>1. Signalling' = Signalling /\ queue' = queue
    BY <1>3 DEF DrawStart, Signalling, Outside, animator
  <2>2. CASE at' = at /\ available' = available
    <3>1. OnTheWay' = OnTheWay
      BY <2>2 DEF OnTheWay, AreAt
    <3>. QED  BY <2>1, <2>2, <3>1
  <2>3. CASE Goes(t, "idle", "pop") /\ available' = available - 1
    <3>1. OnTheWay' = OnTheWay + 1
      BY <2>3, WayMoved DEF Count
    <3>. QED  BY <2>1, <2>3, <3>1
  <2>. QED  BY <1>3, <2>2, <2>3 DEF DrawStart
<1>4. ASSUME NEW t \in Thread, Pop(t) PROVE NeverPopsEmpty'
  <2>1. OnTheWay' = OnTheWay - 1
    BY <1>4, WayMoved DEF Pop, Count
  <2>2. Signalling' = Signalling /\ available' = available
    BY <1>4 DEF Pop, Signalling, Outside, animator
  <2>3. Len(queue') = Len(queue) - 1
    BY <1>4, Popped DEF Pop, Goes, PopSafe, Frames
  <2>. QED  BY <2>1, <2>2, <2>3
<1>5. ASSUME NEW t \in Thread, DoDraw(t) PROVE NeverPopsEmpty'
  <2>1. OnTheWay' = OnTheWay
    BY <1>5, WayMoved DEF DoDraw, Count
  <2>2. Signalling' = Signalling /\ available' = available /\ queue' = queue
    BY <1>5 DEF DoDraw, Signalling, Outside, animator, pipeline
  <2>. QED  BY <2>1, <2>2
<1>6. ASSUME NEW t \in Thread, CancelAndMerge(t) PROVE NeverPopsEmpty'
  <2>1. OnTheWay' = OnTheWay
    BY <1>6, WayMoved DEF CancelAndMerge, Count
  <2>2. Signalling' = Signalling /\ available' = available /\ queue' = queue
    BY <1>6 DEF CancelAndMerge, Signalling, Outside, animator, pipeline
  <2>. QED  BY <2>1, <2>2
<1>7. ASSUME NEW t \in Thread, DrawAndUnmerge(t) PROVE NeverPopsEmpty'
  <2>1. OnTheWay' = OnTheWay
    BY <1>7, WayMoved DEF DrawAndUnmerge, Count
  <2>2. Signalling' = Signalling /\ available' = available /\ queue' = queue
    BY <1>7 DEF DrawAndUnmerge, Signalling, Outside, animator, pipeline
  <2>. QED  BY <2>1, <2>2
<1>8. ASSUME NEW t \in Thread, Release(t) PROVE NeverPopsEmpty'
  <2>1. OnTheWay' = OnTheWay
    BY <1>8, WayMoved DEF Release, Count
  <2>2. Signalling' = Signalling /\ available' = available /\ queue' = queue
    BY <1>8 DEF Release, Signalling, Outside, animator, pipeline
  <2>. QED  BY <2>1, <2>2
<1>9. ASSUME NEW t \in Thread, TryAgain(t) PROVE NeverPopsEmpty'
  <2>1. Signalling' = Signalling /\ available' = available /\ queue' = queue
    BY <1>9 DEF TryAgain, Signalling, Outside, animator
  <2>2. PICK there \in {"recommit", "post"} : Goes(t, "tryAgain", there)
    BY <1>9 DEF TryAgain
  <2>3. OnTheWay' = OnTheWay
    BY <2>2, WayMoved DEF Count
  <2>. QED  BY <2>1, <2>3
<1>10. ASSUME NEW t \in Thread, Recommit(t) PROVE NeverPopsEmpty'
  <2>1. Signalling' = Signalling /\ available' = available
    BY <1>10 DEF Recommit, Signalling, Outside, animator
  <2>2. CASE queue = <<>>
    <3>1. Goes(t, "recommit", "resignal") /\ Len(queue) = 0 /\ Len(queue') = 1
      BY <1>10, <2>2 DEF Recommit
    <3>2. OnTheWay' = OnTheWay + 1
      BY <3>1, WayMoved DEF Count
    <3>. QED  BY <2>1, <3>1, <3>2
  <2>3. CASE queue # <<>>
    <3>1. Goes(t, "recommit", "post") /\ queue' = queue
      BY <1>10, <2>3 DEF Recommit
    <3>2. OnTheWay' = OnTheWay
      BY <3>1, WayMoved DEF Count
    <3>. QED  BY <2>1, <3>1, <3>2
  <2>. QED  BY <2>2, <2>3
<1>11. ASSUME NEW t \in Thread, Resignal(t) PROVE NeverPopsEmpty'
  <2>1. OnTheWay' = OnTheWay - 1
    BY <1>11, WayMoved DEF Resignal, Count
  <2>2. Signalling' = Signalling /\ available' = available + 1 /\ queue' = queue
    BY <1>11 DEF Resignal, Signalling, Outside, animator, pipeline
  <2>. QED  BY <2>1, <2>2
<1>12. ASSUME NEW t \in Thread, DrawEnd(t) PROVE NeverPopsEmpty'
  <2>1. OnTheWay' = OnTheWay
    BY <1>12, WayMoved DEF DrawEnd, Count
  <2>2. Signalling' = Signalling /\ available' = available /\ queue' = queue
    BY <1>12 DEF DrawEnd, Signalling, Outside, animator, pipeline
  <2>. QED  BY <2>1, <2>2
<1>13. CASE UNCHANGED <<available, queue, at>> /\ (ui = "signal" <=> ui' = "signal")
  <2>1. OnTheWay' = OnTheWay
    BY <1>13 DEF OnTheWay, AreAt
  <2>2. Signalling' = Signalling
    BY <1>13 DEF Signalling, Count
  <2>. QED  BY <1>13, <2>1, <2>2
<1>. QED
  <2>1. ASSUME NEW b \in BOOLEAN, RequestFrame(b) PROVE NeverPopsEmpty'
    BY <1>13, <2>1 DEF RequestFrame, Control, animator, pipeline, drawing
  <2>2. CASE AsyncWaitForVsync
    BY <1>13, <2>2 DEF AsyncWaitForVsync, RunTask, Control, animator, pipeline, drawing
  <2>3. ASSUME NEW id \in Secondary, ScheduleSecondaryCallback(id) PROVE NeverPopsEmpty'
    BY <1>13, <2>3 DEF ScheduleSecondaryCallback, Control, animator, pipeline, drawing
  <2>4. CASE AwaitVSync
    BY <1>13, <2>4 DEF AwaitVSync, Control, animator, pipeline, drawing
  <2>5. CASE ReuseLastLayerTrees
    BY <1>13, <2>5 DEF ReuseLastLayerTrees, RunTask, Control, animator, pipeline, drawing
  <2>6. CASE BeginFrame
    BY <1>13, <2>6 DEF BeginFrame, RunTask, Control, animator, pipeline, drawing
  <2>7. ASSUME NEW b \in BOOLEAN, Render(b) PROVE NeverPopsEmpty'
    BY <1>13, <2>7 DEF Render, Control, animator, pipeline, drawing
  <2>8. CASE FrameBuilt
    BY <1>13, <2>8 DEF FrameBuilt, Control, animator, pipeline, drawing
  <2>9. CASE NothingToCommit
    BY <1>13, <2>9 DEF NothingToCommit, Control, animator, pipeline, drawing
  <2>10. CASE PostDraw
    BY <1>13, <2>10 DEF PostDraw, Control, animator, pipeline, drawing
  <2>11. CASE EndVsync
    BY <1>13, <2>11 DEF EndVsync, Control, animator, pipeline, drawing
  <2>12. CASE RunSecondary
    BY <1>13, <2>12 DEF RunSecondary, RunTask, Control, animator, pipeline, drawing
  <2>13. CASE FireCallback
    BY <1>13, <2>13 DEF FireCallback, Control, animator, pipeline, drawing
  <2>14. CASE FirePosts
    BY <1>13, <2>14 DEF FirePosts, Control, animator, pipeline, drawing
  <2>15. CASE UNCHANGED vars
    BY <1>13, <2>15 DEF vars, Control, animator, pipeline, drawing
  <2>. QED
    BY <1>1, <1>2, <1>3, <1>4, <1>5, <1>6, <1>7, <1>8, <1>9, <1>10, <1>11, <1>12, <2>1,
       <2>2, <2>3, <2>4, <2>5, <2>6, <2>7, <2>8, <2>9, <2>10, <2>11, <2>12, <2>13,
       <2>14, <2>15
       DEF Next, UiTask, Draw

Counted == Numbers /\ Control /\ Frames /\ SlotsConserved /\ NeverPopsEmpty

LEMMA CountedIsSafe == Counted => PopSafe
<1>. SUFFICES ASSUME Counted, NEW t \in Thread, at[t] = "pop" PROVE Len(queue) # 0
  BY DEF PopSafe
<1>1. AreAt({"pop", "resignal"}) \in Nat /\ AreAt({"pop", "resignal"}) # 0
  BY DEF AreAt, Count, Thread
<1>. QED  BY <1>1 DEF Counted, Numbers, NeverPopsEmpty, Count

LEMMA CountedAlways == Spec => []Counted
<1>1. Init => Numbers /\ Control
  <2>1. Init => Numbers
    BY DepthAssumption DEF Init, Numbers
  <2>2. Init => Control
    BY DEF Init, Control, DrawPc
  <2>. QED  BY <2>1, <2>2
<1>2. Init => Frames
  BY MaxFrameAssumption DEF Init, Frames
<1>3. Init => SlotsConserved /\ NeverPopsEmpty
  <2>. SUFFICES ASSUME Init PROVE SlotsConserved /\ NeverPopsEmpty
    OBVIOUS
  <2>1. Len(queue) = 0 /\ empty = Depth /\ available = 0
    BY DEF Init
  <2>2. /\ Count(continuation) = 0 /\ Count(ui = "signal") = 0
        /\ AreAt({"draw", "release", "recommit"}) = 0 /\ AreAt({"pop", "resignal"}) = 0
    BY DEF Init, Count, AreAt, Thread
  <2>. QED  BY <2>1, <2>2, DepthAssumption DEF SlotsConserved, NeverPopsEmpty
<1>4. Counted /\ [Next]_vars => Counted'
  BY CountedIsSafe, NumbersStep, ControlStep, FramesStep, SlotsStep, SignalsStep DEF Counted
<1>5. Init => Counted
  BY <1>1, <1>2, <1>3 DEF Counted
<1>. QED  BY <1>4, <1>5, PTL DEF Spec

\* However the UI thread and the two that rasterize interleave in Pipeline, no slot of
\* it is lost and none is invented, for every depth.
THEOREM SlotsAreConserved == Spec => []SlotsConserved
  BY CountedAlways, PTL DEF Counted

\* Consume finds an item in the deque whenever the semaphore lets it through, the
\* lock of the deque and the semaphore being two different things.
THEOREM ConsumeFindsAnItem == Spec => []NeverPopsEmpty
  BY CountedAlways, PTL DEF Counted

-----------------------------------------------------------------------------
(* One vsync at a time *)

Asking  == Count(ui = "await")
Waiters == Count(callback \/ secondary # {})

Vsync == Numbers /\ Control /\ OneVsync

LEMMA VsyncStep == Vsync /\ [Next]_vars => Vsync'
<1>. SUFFICES ASSUME Vsync, [Next]_vars PROVE Vsync'
  OBVIOUS
<1>a. Numbers' /\ Control'
  BY NumbersStep, ControlStep DEF Vsync
<1>b. /\ Asking \in Nat /\ Waiters \in Nat /\ Asking' \in Nat /\ Waiters' \in Nat
      /\ Waiters <= 1 /\ vsyncs \in Nat
  BY DEF Asking, Waiters, Count, Vsync, Numbers
<1>c. /\ vsyncs + Asking = Waiters
      /\ vsyncs' + Asking' = Waiters' => Vsync'
  BY <1>a DEF Vsync, OneVsync, Asking, Waiters
<1>. USE <1>b, <1>c
<1>1. CASE AsyncWaitForVsync
  <2>1. vsyncs' = vsyncs /\ Asking = 0 /\ Waiters' = 1
    BY <1>1 DEF AsyncWaitForVsync, RunTask, Asking, Waiters, Count
  <2>2. CASE callback \/ secondary # {}
    <3>1. Waiters = 1 /\ Asking' = 0
      BY <1>1, <2>2 DEF AsyncWaitForVsync, Asking, Waiters, Count
    <3>. QED  BY <2>1, <3>1
  <2>3. CASE ~(callback \/ secondary # {})
    <3>1. Waiters = 0 /\ Asking' = 1
      BY <1>1, <2>3 DEF AsyncWaitForVsync, Asking, Waiters, Count
    <3>. QED  BY <2>1, <3>1
  <2>. QED  BY <2>2, <2>3
<1>2. ASSUME NEW id \in Secondary, ScheduleSecondaryCallback(id) PROVE Vsync'
  <2>1. vsyncs' = vsyncs /\ Asking = 0 /\ Waiters' = 1
    BY <1>2 DEF ScheduleSecondaryCallback, Asking, Waiters, Count
  <2>2. CASE callback \/ secondary # {}
    <3>1. Waiters = 1 /\ Asking' = 0
      BY <1>2, <2>2 DEF ScheduleSecondaryCallback, Asking, Waiters, Count
    <3>. QED  BY <2>1, <3>1
  <2>3. CASE ~(callback \/ secondary # {})
    <3>1. Waiters = 0 /\ Asking' = 1
      BY <1>2, <2>3 DEF ScheduleSecondaryCallback, Asking, Waiters, Count
    <3>. QED  BY <2>1, <3>1
  <2>. QED  BY <2>2, <2>3
<1>3. CASE AwaitVSync
  <2>1. vsyncs' = vsyncs + 1 /\ Asking = 1 /\ Asking' = 0
    BY <1>3 DEF AwaitVSync, Asking, Count
  <2>2. Waiters' = Waiters
    BY <1>3 DEF AwaitVSync, Waiters
  <2>. QED  BY <2>1, <2>2
<1>4. CASE FireCallback
  <2>1. vsyncs > 0 /\ vsyncs' = vsyncs - 1 /\ Asking' = Asking
    BY <1>4 DEF FireCallback, Asking, animator
  <2>2. Waiters' = 0
    BY <1>4 DEF FireCallback, Waiters, Count
  <2>. QED  BY <2>1, <2>2
<1>5. CASE UNCHANGED <<vsyncs, callback, secondary>> /\ (ui = "await" <=> ui' = "await")
  <2>1. Waiters' = Waiters
    BY <1>5 DEF Waiters
  <2>2. Asking' = Asking
    BY <1>5 DEF Asking, Count
  <2>. QED  BY <1>5, <2>1, <2>2
<1>. QED
  <2>1. ASSUME NEW b \in BOOLEAN, RequestFrame(b) PROVE Vsync'
    BY <1>5, <2>1 DEF RequestFrame, Vsync, Control, animator, waiter, Outside
  <2>2. CASE ReuseLastLayerTrees
    BY <1>5, <2>2 DEF ReuseLastLayerTrees, RunTask, Vsync, Control, animator, waiter, Outside
  <2>3. CASE BeginFrame
    BY <1>5, <2>3 DEF BeginFrame, RunTask, Vsync, Control, animator, waiter, Outside
  <2>4. ASSUME NEW b \in BOOLEAN, Render(b) PROVE Vsync'
    BY <1>5, <2>4 DEF Render, Vsync, Control, animator, waiter, Outside
  <2>5. CASE FrameBuilt
    BY <1>5, <2>5 DEF FrameBuilt, Vsync, Control, animator, waiter, Outside
  <2>6. CASE NothingToCommit
    BY <1>5, <2>6 DEF NothingToCommit, Vsync, Control, animator, waiter, Outside
  <2>7. CASE Commit
    BY <1>5, <2>7 DEF Commit, Vsync, Control, animator, waiter, Outside
  <2>8. CASE Signal
    BY <1>5, <2>8 DEF Signal, Vsync, Control, animator, waiter, Outside
  <2>9. CASE PostDraw
    BY <1>5, <2>9 DEF PostDraw, Vsync, Control, animator, waiter, Outside
  <2>10. CASE EndVsync
    BY <1>5, <2>10 DEF EndVsync, Vsync, Control, animator, waiter, Outside
  <2>11. CASE RunSecondary
    BY <1>5, <2>11 DEF RunSecondary, RunTask, Vsync, Control, animator, waiter, Outside
  <2>12. CASE FirePosts
    BY <1>5, <2>12 DEF FirePosts, Vsync, Control, animator, waiter, Outside
  <2>13. ASSUME NEW t \in Thread, DrawStart(t) PROVE Vsync'
    BY <1>5, <2>13 DEF DrawStart, Rasterizing, Vsync, Control, animator, waiter, Outside
  <2>14. ASSUME NEW t \in Thread, Pop(t) PROVE Vsync'
    BY <1>5, <2>14 DEF Pop, Vsync, Control, animator, waiter, Outside
  <2>15. ASSUME NEW t \in Thread, DoDraw(t) PROVE Vsync'
    BY <1>5, <2>15 DEF DoDraw, Vsync, Control, animator, waiter, Outside
  <2>16. ASSUME NEW t \in Thread, CancelAndMerge(t) PROVE Vsync'
    BY <1>5, <2>16 DEF CancelAndMerge, Vsync, Control, animator, waiter, Outside
  <2>17. ASSUME NEW t \in Thread, DrawAndUnmerge(t) PROVE Vsync'
    BY <1>5, <2>17 DEF DrawAndUnmerge, Vsync, Control, animator, waiter, Outside
  <2>18. ASSUME NEW t \in Thread, Release(t) PROVE Vsync'
    BY <1>5, <2>18 DEF Release, Vsync, Control, animator, waiter, Outside
  <2>19. ASSUME NEW t \in Thread, TryAgain(t) PROVE Vsync'
    BY <1>5, <2>19 DEF TryAgain, Vsync, Control, animator, waiter, Outside
  <2>20. ASSUME NEW t \in Thread, Recommit(t) PROVE Vsync'
    BY <1>5, <2>20 DEF Recommit, Vsync, Control, animator, waiter, Outside
  <2>21. ASSUME NEW t \in Thread, Resignal(t) PROVE Vsync'
    BY <1>5, <2>21 DEF Resignal, Vsync, Control, animator, waiter, Outside
  <2>22. ASSUME NEW t \in Thread, DrawEnd(t) PROVE Vsync'
    BY <1>5, <2>22 DEF DrawEnd, Vsync, Control, animator, waiter, Outside
  <2>23. CASE UNCHANGED vars
    BY <1>5, <2>23 DEF vars, Vsync, Control, animator, waiter, Outside
  <2>. QED
    BY <1>1, <1>2, <1>3, <1>4, <2>1, <2>2, <2>3, <2>4, <2>5, <2>6, <2>7, <2>8, <2>9,
       <2>10, <2>11, <2>12, <2>13, <2>14, <2>15, <2>16, <2>17, <2>18, <2>19, <2>20,
       <2>21, <2>22, <2>23
       DEF Next, UiTask, Draw

\* The animator and the secondary callbacks never have two vsyncs asked for at once,
\* and are never left waiting for one that nobody has asked for.
THEOREM OneVsyncAtATime == Spec => []OneVsync
<1>1. Init => Vsync
  <2>. SUFFICES ASSUME Init PROVE Vsync
    OBVIOUS
  <2>1. Numbers /\ Control
    BY DepthAssumption DEF Init, Numbers, Control, DrawPc
  <2>2. vsyncs = 0 /\ Count(ui = "await") = 0 /\ Count(callback \/ secondary # {}) = 0
    BY DEF Init, Count
  <2>. QED  BY <2>1, <2>2 DEF Vsync, OneVsync
<1>. QED  BY <1>1, VsyncStep, PTL DEF Spec, Vsync

-----------------------------------------------------------------------------
(* The order of the frames *)

Kept == {"release", "tryAgain", "recommit"}

\* The frame being built is newer than all others, and what waits behind the first
\* frame is newer than whatever has been taken out.
Newest ==
    /\ tree <= last /\ last >= shown /\ \A t \in Thread : last >= item[t]
    /\ \A i \in 1..Len(queue) : last >= queue[i]
    /\ tree # 0 => /\ tree > shown /\ \A t \in Thread : tree > item[t]
                   /\ \A i \in 1..Len(queue) : tree > queue[i]

Deque ==
    /\ \A i, j \in 1..Len(queue) : i < j => queue[i] < queue[j]
    /\ \A i \in 1..Len(queue) : i > 1 =>
         shown < queue[i] /\ item["raster"] < queue[i] /\ item["platform"] < queue[i]
    /\ \A i \in 1..Len(queue) :
         /\ item["raster"] < queue[i]
         /\ item["platform"] < queue[i] \/ queue[i] = cancelled
         /\ shown <= queue[i] \/ queue[i] = cancelled

\* Which thread can hold what while the threads are merged, and while they are not.
Turns ==
    /\ ~merged => item["platform"] = 0
    /\ at["raster"] \in {"pop", "draw"} => ~merged
    /\ at["platform"] \in {"pop", "draw"} => merged
    /\ at["raster"] \in Kept /\ item["raster"] # 0 => item["raster"] = cancelled
    /\ at["platform"] \in Kept /\ item["platform"] # 0 => item["platform"] = shown
    /\ at["raster"] = "draw" => \A i \in 1..Len(queue) : shown < queue[i]
    /\ item["raster"] # 0 /\ item["platform"] # 0 => item["raster"] < item["platform"]

Ordered == Newest /\ Deque /\ Turns

LEMMA OrderStep == Frames /\ Control /\ Ordered /\ PopSafe /\ [Next]_vars => Ordered'
<1>. SUFFICES ASSUME Frames, Control, Ordered, PopSafe, [Next]_vars PROVE Ordered'
  OBVIOUS
<1>t. /\ tree \in Nat /\ last \in Nat /\ shown \in Nat
      /\ item \in [Thread -> Nat] /\ item["raster"] \in Nat /\ item["platform"] \in Nat
      /\ queue \in Seq(1..MaxFrame) /\ Len(queue) \in Nat
      /\ \A i \in 1..Len(queue) : queue[i] \in Nat /\ queue[i] > 0
      /\ at \in [Thread -> DrawPc]
  BY Lengths, Elements, MaxFrameAssumption DEF Frames, Thread, Control
<1>u. Thread = {"raster", "platform"}
  BY DEF Thread
<1>o. Newest /\ Deque /\ Turns
  BY DEF Ordered
<1>. USE <1>t, <1>u, <1>o
<1>1. CASE BeginFrame
  <2>1. tree' = 0 /\ UNCHANGED <<last, queue, drawing>>
    BY <1>1 DEF BeginFrame
  <2>. QED  BY <2>1 DEF Ordered, Newest, Deque, Turns, drawing
<1>2. ASSUME NEW b \in BOOLEAN, Render(b) PROVE Ordered'
  <2>1. UNCHANGED <<queue, drawing>>
    BY <1>2 DEF Render, pipeline
  <2>2. CASE tree = 0
    <3>1. tree' = last + 1 /\ last' = last + 1
      BY <1>2, <2>2 DEF Render
    <3>. QED  BY <2>1, <3>1 DEF Ordered, Newest, Deque, Turns, drawing
  <2>3. CASE tree # 0
    <3>1. tree' = tree /\ last' = last
      BY <1>2, <2>3 DEF Render
    <3>. QED  BY <2>1, <3>1 DEF Ordered, Newest, Deque, Turns, drawing
  <2>. QED  BY <2>2, <2>3
<1>3. CASE NothingToCommit
  <2>1. tree' \in {0, tree} /\ UNCHANGED <<last, queue, drawing>>
    BY <1>3 DEF NothingToCommit, pipeline
  <2>. QED  BY <2>1 DEF Ordered, Newest, Deque, Turns, drawing
<1>4. CASE Commit
  <2>1. tree \in 1..MaxFrame
    BY <1>4 DEF Commit, Frames
  <2>2. tree' = 0 /\ UNCHANGED <<last, drawing>>
    BY <1>4 DEF Commit
  <2>3. /\ Len(queue') = Len(queue) + 1 /\ queue'[Len(queue) + 1] = tree
        /\ \A i \in 1..Len(queue) : queue'[i] = queue[i]
    BY <1>4, <2>1, Pushed DEF Commit
  <2>4. \A i \in 1..Len(queue') : i \in 1..Len(queue) \/ i = Len(queue) + 1
    BY <2>3
  <2>5. Newest'
    <3>1. \A i \in 1..Len(queue') : last >= queue'[i]
      BY <2>1, <2>3, <2>4 DEF Newest
    <3>. QED  BY <2>2, <3>1 DEF Newest, drawing
  <2>6. \A i, j \in 1..Len(queue') : i < j => queue'[i] < queue'[j]
    <3>. SUFFICES ASSUME NEW i \in 1..Len(queue'), NEW j \in 1..Len(queue'), i < j
                  PROVE  queue'[i] < queue'[j]
      OBVIOUS
    <3>1. i \in 1..Len(queue)
      BY <2>3
    <3>2. CASE j \in 1..Len(queue)
      BY <2>3, <3>1, <3>2 DEF Deque
    <3>3. CASE j = Len(queue) + 1
      BY <2>1, <2>3, <3>1, <3>3 DEF Newest
    <3>. QED  BY <2>4, <3>2, <3>3
  <2>7. \A i \in 1..Len(queue') :
          \/ i \in 1..Len(queue) /\ queue'[i] = queue[i]
          \/ /\ queue'[i] \in Nat /\ queue'[i] > shown
             /\ queue'[i] > item["raster"] /\ queue'[i] > item["platform"]
    BY <2>1, <2>3, <2>4 DEF Newest
  <2>8. Deque'
    <3>1. item' = item /\ shown' = shown /\ cancelled' = cancelled
      BY <2>2 DEF drawing
    <3>2. \A i \in 1..Len(queue') : i > 1 =>
            shown < queue'[i] /\ item["raster"] < queue'[i] /\ item["platform"] < queue'[i]
      BY <2>7 DEF Deque
    <3>3. \A i \in 1..Len(queue') :
            /\ item["raster"] < queue'[i]
            /\ item["platform"] < queue'[i] \/ queue'[i] = cancelled
            /\ shown <= queue'[i] \/ queue'[i] = cancelled
      <4>. SUFFICES ASSUME NEW i \in 1..Len(queue')
                    PROVE  /\ item["raster"] < queue'[i]
                           /\ item["platform"] < queue'[i] \/ queue'[i] = cancelled
                           /\ shown <= queue'[i] \/ queue'[i] = cancelled
        OBVIOUS
      <4>1. CASE i \in 1..Len(queue) /\ queue'[i] = queue[i]
        BY <4>1 DEF Deque
      <4>2. CASE /\ queue'[i] \in Nat /\ queue'[i] > shown
                 /\ queue'[i] > item["raster"] /\ queue'[i] > item["platform"]
        BY <4>2
      <4>. QED  BY <2>7, <4>1, <4>2
    <3>. QED  BY <2>6, <3>1, <3>2, <3>3 DEF Deque
  <2>9. Turns'
    BY <2>2, <2>7 DEF Turns, drawing
  <2>. QED  BY <2>5, <2>8, <2>9 DEF Ordered
<1>5. ASSUME NEW t \in Thread, DrawStart(t) PROVE Ordered'
  <2>1. UNCHANGED <<tree, last, queue, merged, item, shown, cancelled>>
    BY <1>5 DEF DrawStart, Outside, animator
  <2>2. \/ at' = at
        \/ at[t] = "idle" /\ at' = [at EXCEPT ![t] = "pop"] /\ t = Rasterizing
    BY <1>5 DEF DrawStart, Goes
  <2>3. Turns'
    BY <2>1, <2>2 DEF Turns, Rasterizing, Kept
  <2>. QED  BY <2>1, <2>3 DEF Ordered, Newest, Deque
<1>6. ASSUME NEW t \in Thread, Pop(t) PROVE Ordered'
  <2>1. /\ item' = [item EXCEPT ![t] = queue[1]] /\ at[t] = "pop"
        /\ at' = [at EXCEPT ![t] = "draw"] /\ Len(queue) # 0
        /\ UNCHANGED <<tree, last, merged, shown, cancelled>>
        /\ Len(queue') = Len(queue) - 1
        /\ \A i \in 1..Len(queue') : queue'[i] = queue[i + 1]
    BY <1>6, Popped DEF Pop, Goes, PopSafe, Outside, animator
  <2>2. 1 \in 1..Len(queue)
    BY <2>1
  <2>3. \A i \in 1..Len(queue') : /\ i + 1 \in 1..Len(queue) /\ i + 1 > 1
                                  /\ queue'[i] = queue[i + 1]
    BY <2>1
  <2>4. \A i \in 1..Len(queue') :
          /\ queue'[i] \in Nat /\ queue'[i] > queue[1] /\ queue'[i] > shown
          /\ queue'[i] > item["raster"] /\ queue'[i] > item["platform"]
          /\ last >= queue'[i] /\ (tree # 0 => tree > queue'[i])
    BY <2>2, <2>3 DEF Deque, Newest
  <2>5. \A i, j \in 1..Len(queue') : i < j => queue'[i] < queue'[j]
    <3>. SUFFICES ASSUME NEW i \in 1..Len(queue'), NEW j \in 1..Len(queue'), i < j
                  PROVE  queue'[i] < queue'[j]
      OBVIOUS
    <3>1. /\ i + 1 < j + 1 /\ i + 1 \in 1..Len(queue) /\ j + 1 \in 1..Len(queue)
          /\ queue'[i] = queue[i + 1] /\ queue'[j] = queue[j + 1]
      BY <2>3
    <3>. QED  BY <3>1 DEF Deque
  <2>6. \A u \in Thread : item'[u] \in {item[u], queue[1]}
    BY <2>1
  <2>7. Newest'
    BY <2>1, <2>2, <2>4, <2>6 DEF Newest
  <2>8. Deque'
    BY <2>1, <2>4, <2>5, <2>6 DEF Deque
  <2>9. Turns'
    <3>1. CASE t = "raster"
      <4>1. ~merged /\ item["platform"] = 0 /\ item'["platform"] = 0
        BY <2>1, <3>1 DEF Turns
      <4>. QED  BY <2>1, <2>4, <3>1, <4>1 DEF Turns, Kept
    <3>2. CASE t = "platform"
      <4>1. merged /\ item["raster"] < queue[1] /\ at["raster"] # "draw"
        BY <2>1, <2>2, <3>2 DEF Turns, Deque
      <4>. QED  BY <2>1, <3>2, <4>1 DEF Turns, Kept
    <3>. QED  BY <3>1, <3>2
  <2>. QED  BY <2>7, <2>8, <2>9 DEF Ordered
<1>7. ASSUME NEW t \in Thread, DoDraw(t) PROVE Ordered'
  <2>1. /\ at[t] = "draw" /\ at' = [at EXCEPT ![t] = "release"] /\ shown' = item[t]
        /\ item' = [item EXCEPT ![t] = 0] \/ (merged /\ item' = item)
        /\ UNCHANGED <<tree, last, queue, merged, cancelled>>
    BY <1>7 DEF DoDraw, Goes, Outside, animator, pipeline, drawing
  <2>2. \A u \in Thread : item'[u] \in {item[u], 0}
    BY <2>1
  <2>3. Newest'
    BY <2>1, <2>2 DEF Newest
  <2>4. Deque'
    BY <2>1, <2>2 DEF Deque
  <2>5. Turns'
    <3>1. CASE t = "raster"
      <4>1. ~merged /\ item["platform"] = 0 /\ item' = [item EXCEPT ![t] = 0]
        BY <2>1, <3>1 DEF Turns
      <4>. QED  BY <2>1, <3>1, <4>1 DEF Turns, Kept
    <3>2. CASE t = "platform"
      <4>1. merged /\ at["raster"] # "draw"
        BY <2>1, <3>2 DEF Turns
      <4>. QED  BY <2>1, <3>2, <4>1 DEF Turns, Kept
    <3>. QED  BY <3>1, <3>2
  <2>. QED  BY <2>3, <2>4, <2>5 DEF Ordered
<1>8. ASSUME NEW t \in Thread, CancelAndMerge(t) PROVE Ordered'
  <2>1. /\ at[t] = "draw" /\ at' = [at EXCEPT ![t] = "release"] /\ ~merged /\ merged'
        /\ cancelled' = item[t] /\ UNCHANGED <<tree, last, queue, item, shown>>
    BY <1>8 DEF CancelAndMerge, Goes, Outside, animator, pipeline
  <2>2. t = "raster" /\ item["platform"] = 0
    BY <2>1 DEF Turns
  <2>3. Newest'
    BY <2>1 DEF Newest
  <2>4. Deque'
    BY <2>1, <2>2 DEF Deque, Turns
  <2>5. Turns'
    BY <2>1, <2>2 DEF Turns, Kept
  <2>. QED  BY <2>3, <2>4, <2>5 DEF Ordered
<1>9. ASSUME NEW t \in Thread, DrawAndUnmerge(t) PROVE Ordered'
  <2>1. /\ at[t] = "draw" /\ at' = [at EXCEPT ![t] = "release"] /\ merged /\ ~merged'
        /\ shown' = item[t] /\ item' = [item EXCEPT ![t] = 0]
        /\ UNCHANGED <<tree, last, queue, cancelled>>
    BY <1>9 DEF DrawAndUnmerge, Goes, Outside, animator, pipeline
  <2>2. t = "platform" /\ at["raster"] # "draw"
    BY <2>1 DEF Turns
  <2>3. Newest'
    BY <2>1, <2>2 DEF Newest
  <2>4. Deque'
    BY <2>1, <2>2 DEF Deque
  <2>5. Turns'
    BY <2>1, <2>2 DEF Turns, Kept
  <2>. QED  BY <2>3, <2>4, <2>5 DEF Ordered
<1>10. ASSUME NEW t \in Thread, Release(t) PROVE Ordered'
  <2>1. /\ at[t] = "release" /\ \E there \in {"tryAgain", "post"} : at' = [at EXCEPT ![t] = there]
        /\ UNCHANGED <<tree, last, queue, merged, item, shown, cancelled>>
    BY <1>10 DEF Release, Goes, Outside, animator
  <2>2. Turns'
    BY <2>1 DEF Turns, Kept
  <2>. QED  BY <2>1, <2>2 DEF Ordered, Newest, Deque
<1>11. ASSUME NEW t \in Thread, TryAgain(t) PROVE Ordered'
  <2>1. /\ at[t] = "tryAgain" /\ \E there \in {"recommit", "post"} : at' = [at EXCEPT ![t] = there]
        /\ item' = item \/ item' = [item EXCEPT ![t] = 0]
        /\ UNCHANGED <<tree, last, queue, merged, shown, cancelled>>
    BY <1>11 DEF TryAgain, Goes, Outside, animator
  <2>2. \A u \in Thread : item'[u] \in {item[u], 0}
    BY <2>1
  <2>3. Newest'
    BY <2>1, <2>2 DEF Newest
  <2>4. Deque'
    BY <2>1, <2>2 DEF Deque
  <2>5. Turns'
    BY <2>1, <2>2 DEF Turns, Kept
  <2>. QED  BY <2>3, <2>4, <2>5 DEF Ordered
<1>12. ASSUME NEW t \in Thread, Recommit(t) PROVE Ordered'
  <2>1. /\ at[t] = "recommit" /\ \E there \in {"resignal", "post"} : at' = [at EXCEPT ![t] = there]
        /\ item' = [item EXCEPT ![t] = 0] /\ item[t] # 0
        /\ UNCHANGED <<tree, last, merged, shown, cancelled>>
    BY <1>12 DEF Recommit, Goes, Outside, animator, Frames
  <2>2. \A u \in Thread : item'[u] \in {item[u], 0}
    BY <2>1
  <2>3. CASE queue # <<>>
    <3>1. queue' = queue
      BY <1>12, <2>3 DEF Recommit
    <3>2. Newest'
      BY <2>1, <2>2, <3>1 DEF Newest
    <3>3. Deque'
      BY <2>1, <2>2, <3>1 DEF Deque
    <3>4. Turns'
      BY <2>1, <2>2, <3>1 DEF Turns, Kept
    <3>. QED  BY <3>2, <3>3, <3>4 DEF Ordered
  <2>4. CASE queue = <<>>
    <3>1. Len(queue') = 1 /\ queue'[1] = item[t]
      BY <1>12, <2>4 DEF Recommit
    <3>2. \A i \in 1..Len(queue') : i = 1 /\ queue'[i] = item[t]
      BY <3>1
    <3>3. Newest'
      BY <2>1, <2>2, <3>2 DEF Newest
    <3>4. CASE t = "raster"
      <4>1. item["raster"] = cancelled /\ item'["raster"] = 0
        BY <2>1, <3>4 DEF Turns, Kept
      <4>2. Deque'
        BY <2>1, <3>2, <3>4, <4>1 DEF Deque
      <4>3. Turns'
        BY <2>1, <3>4, <4>1 DEF Turns, Kept
      <4>. QED  BY <3>3, <4>2, <4>3 DEF Ordered
    <3>5. CASE t = "platform"
      <4>1. item["platform"] = shown /\ item'["platform"] = 0 /\ merged
        BY <2>1, <3>5 DEF Turns, Kept
      <4>2. item["raster"] < item["platform"] /\ item'["raster"] = item["raster"]
        BY <2>1, <3>5 DEF Turns
      <4>3. Deque'
        BY <2>1, <3>2, <3>5, <4>1, <4>2 DEF Deque
      <4>4. Turns'
        BY <2>1, <3>5, <4>1 DEF Turns, Kept
      <4>. QED  BY <3>3, <4>3, <4>4 DEF Ordered
    <3>. QED  BY <3>4, <3>5
  <2>. QED  BY <2>3, <2>4
<1>13. ASSUME NEW t \in Thread, Resignal(t) PROVE Ordered'
  <2>1. /\ at[t] = "resignal" /\ at' = [at EXCEPT ![t] = "post"]
        /\ UNCHANGED <<tree, last, queue, merged, item, shown, cancelled>>
    BY <1>13 DEF Resignal, Goes, Outside, animator, pipeline
  <2>2. Turns'
    BY <2>1 DEF Turns, Kept
  <2>. QED  BY <2>1, <2>2 DEF Ordered, Newest, Deque
<1>14. ASSUME NEW t \in Thread, DrawEnd(t) PROVE Ordered'
  <2>1. /\ at[t] = "post" /\ at' = [at EXCEPT ![t] = "idle"]
        /\ UNCHANGED <<tree, last, queue, merged, item, shown, cancelled>>
    BY <1>14 DEF DrawEnd, Goes, Outside, animator, pipeline
  <2>2. Turns'
    BY <2>1 DEF Turns, Kept
  <2>. QED  BY <2>1, <2>2 DEF Ordered, Newest, Deque
<1>15. CASE UNCHANGED <<tree, last, queue, drawing>>
  BY <1>15 DEF Ordered, Newest, Deque, Turns, drawing
<1>. QED
  <2>1. ASSUME NEW b \in BOOLEAN, RequestFrame(b) PROVE Ordered'
    BY <1>15, <2>1 DEF RequestFrame, animator, pipeline
  <2>2. CASE AsyncWaitForVsync
    BY <1>15, <2>2 DEF AsyncWaitForVsync, RunTask, animator, pipeline
  <2>3. ASSUME NEW id \in Secondary, ScheduleSecondaryCallback(id) PROVE Ordered'
    BY <1>15, <2>3 DEF ScheduleSecondaryCallback, animator, pipeline
  <2>4. CASE AwaitVSync
    BY <1>15, <2>4 DEF AwaitVSync, animator, pipeline
  <2>5. CASE ReuseLastLayerTrees
    BY <1>15, <2>5 DEF ReuseLastLayerTrees, RunTask, animator, pipeline
  <2>6. CASE FrameBuilt
    BY <1>15, <2>6 DEF FrameBuilt, animator, pipeline
  <2>7. CASE Signal
    BY <1>15, <2>7 DEF Signal, animator, pipeline
  <2>8. CASE PostDraw
    BY <1>15, <2>8 DEF PostDraw, animator, pipeline
  <2>9. CASE EndVsync
    BY <1>15, <2>9 DEF EndVsync, animator, pipeline
  <2>10. CASE RunSecondary
    BY <1>15, <2>10 DEF RunSecondary, RunTask, animator, pipeline
  <2>11. CASE FireCallback
    BY <1>15, <2>11 DEF FireCallback, animator, pipeline
  <2>12. CASE FirePosts
    BY <1>15, <2>12 DEF FirePosts, animator, pipeline
  <2>13. CASE UNCHANGED vars
    BY <1>15, <2>13 DEF vars, animator, pipeline
  <2>. QED
    BY <1>1, <1>2, <1>3, <1>4, <1>5, <1>6, <1>7, <1>8, <1>9, <1>10, <1>11, <1>12,
       <1>13, <1>14, <2>1, <2>2, <2>3, <2>4, <2>5, <2>6, <2>7, <2>8, <2>9, <2>10,
       <2>11, <2>12, <2>13
       DEF Next, UiTask, Draw

\* However the two threads that rasterize overlap, only the frame for which they were
\* merged can be drawn after a newer one; the others keep their order, for every depth.
THEOREM OnlyCancelledComesLate == Spec => []OnlyCancelledIsLate
<1>1. Init => Ordered
  <2>. SUFFICES ASSUME Init PROVE Ordered
    OBVIOUS
  <2>1. Len(queue) = 0 /\ \A t \in Thread : item[t] = 0 /\ at[t] = "idle"
    BY DEF Init
  <2>2. item["raster"] = 0 /\ item["platform"] = 0 /\ at["raster"] = "idle"
          /\ at["platform"] = "idle"
    BY <2>1 DEF Thread
  <2>. QED  BY <2>1, <2>2 DEF Init, Ordered, Newest, Deque, Turns, Kept
<1>2. Counted /\ Ordered /\ [Next]_vars => Ordered'
  BY CountedIsSafe, OrderStep DEF Counted
<1>3. Counted /\ Ordered => OnlyCancelledIsLate
  <2>. SUFFICES ASSUME Counted, Ordered PROVE OnlyCancelledIsLate
    OBVIOUS
  <2>1. /\ item["raster"] \in Nat /\ item["platform"] \in Nat /\ shown \in Nat
        /\ Len(queue) \in Nat /\ \A i \in 1..Len(queue) : queue[i] \in Nat
    BY Lengths, Elements, MaxFrameAssumption DEF Counted, Frames, Thread
  <2>2. \A i \in 1..Len(queue), t \in Thread :
          shown > queue[i] \/ item[t] > queue[i] => i = 1 /\ queue[i] = cancelled
    <3>. SUFFICES ASSUME NEW i \in 1..Len(queue), NEW t \in Thread,
                         shown > queue[i] \/ item[t] > queue[i]
                  PROVE  i = 1 /\ queue[i] = cancelled
      OBVIOUS
    <3>1. t \in {"raster", "platform"} /\ Deque
      BY DEF Thread, Ordered
    <3>2. queue[i] = cancelled
      BY <2>1, <3>1 DEF Deque
    <3>3. ~(i > 1)
      BY <2>1, <3>1 DEF Deque
    <3>. QED  BY <2>1, <3>2, <3>3
  <2>. QED  BY <2>2 DEF Ordered, Deque, OnlyCancelledIsLate
<1>. QED  BY <1>1, <1>2, <1>3, CountedAlways, PTL DEF Spec

-----------------------------------------------------------------------------
(* What strands a frame *)

\* Who will see to it that the first frame of the deque is drawn, or that nobody will.
Cared ==
    queue # <<>> =>
      \/ draws > 0
      \/ ui \in {"signal", "post"} /\ first
      \/ \E t \in Thread : at[t] \in {"draw", "release", "tryAgain", "recommit", "post"} /\ more[t]
      \/ \E t \in Thread : at[t] \in {"pop", "resignal"}
      \/ missed

LEMMA CaredStep == Counted /\ Cared /\ [Next]_vars => Cared'
<1>. SUFFICES ASSUME Counted, Cared, [Next]_vars PROVE Cared'
  OBVIOUS
<1>t. /\ at \in [Thread -> DrawPc] /\ more \in [Thread -> BOOLEAN] /\ first \in BOOLEAN
      /\ draws \in Nat /\ missed \in BOOLEAN
  BY DEF Counted, Numbers, Control
<1>. USE <1>t DEF Cared
<1>1. CASE Commit
  <2>1. UNCHANGED <<draws, at, more, missed>> /\ ui' = "signal" /\ (first' <=> queue = <<>>)
    BY <1>1 DEF Commit, drawing
  <2>2. ui = "commit"
    BY <1>1 DEF Commit
  <2>. QED  BY <2>1, <2>2
<1>2. CASE Signal
  <2>1. UNCHANGED <<queue, draws, at, more, first, missed>> /\ ui = "signal" /\ ui' = "post"
    BY <1>2 DEF Signal, drawing
  <2>. QED  BY <2>1
<1>3. CASE PostDraw
  <2>1. UNCHANGED <<queue, at, more, missed>> /\ draws' = IF first THEN draws + 1 ELSE draws
    BY <1>3 DEF PostDraw, pipeline, drawing
  <2>2. CASE first
    BY <2>1, <2>2
  <2>3. CASE ~first
    BY <2>1, <2>3
  <2>. QED  BY <2>2, <2>3
<1>4. ASSUME NEW t \in Thread, DrawStart(t) PROVE Cared'
  <2>1. UNCHANGED <<queue, ui, first, more>>
    BY <1>4 DEF DrawStart, Outside, animator
  <2>2. CASE Goes(t, "idle", "pop")
    <3>1. at'[t] = "pop"
      BY <2>2 DEF Goes
    <3>. QED  BY <3>1
  <2>3. CASE /\ available = 0 /\ at' = at
             /\ missed' = (missed \/ (queue # <<>> /\ ui = "signal" /\ ~first))
    <3>1. CASE \E u \in Thread : at[u] \in {"pop", "resignal"}
      BY <2>3, <3>1
    <3>2. CASE \A u \in Thread : at[u] \notin {"pop", "resignal"}
      <4>1. AreAt({"pop", "resignal"}) = 0
        BY <3>2 DEF AreAt, Count, Thread
      <4>2. Len(queue) = Count(ui = "signal")
        BY <2>3, <4>1 DEF Counted, NeverPopsEmpty, Count
      <4>3. queue # <<>> => ui = "signal"
        BY <4>2, Lengths DEF Counted, Frames, Count
      <4>. QED  BY <2>1, <2>3, <4>3
    <3>. QED  BY <3>1, <3>2
  <2>. QED  BY <1>4, <2>2, <2>3 DEF DrawStart
<1>5. ASSUME NEW t \in Thread, Pop(t) PROVE Cared'
  <2>1. at'[t] = "draw" /\ more'[t] = (queue' # <<>>)
    BY <1>5 DEF Pop, Goes
  <2>. QED  BY <2>1
<1>6. ASSUME NEW t \in Thread, DoDraw(t) PROVE Cared'
  <2>1. /\ at[t] = "draw" /\ \E there \in {"release"} : at' = [at EXCEPT ![t] = there]
        /\ UNCHANGED <<queue, draws, ui, first, more, missed>>
    BY <1>6 DEF DoDraw, Goes, Outside, animator, pipeline
  <2>. QED  BY <2>1
<1>7. ASSUME NEW t \in Thread, CancelAndMerge(t) PROVE Cared'
  <2>1. /\ at[t] = "draw" /\ \E there \in {"release"} : at' = [at EXCEPT ![t] = there]
        /\ UNCHANGED <<queue, draws, ui, first, more, missed>>
    BY <1>7 DEF CancelAndMerge, Goes, Outside, animator, pipeline
  <2>. QED  BY <2>1
<1>8. ASSUME NEW t \in Thread, DrawAndUnmerge(t) PROVE Cared'
  <2>1. at'[t] = "release" /\ more'[t] = TRUE
    BY <1>8 DEF DrawAndUnmerge, Goes
  <2>. QED  BY <2>1
<1>9. ASSUME NEW t \in Thread, Release(t) PROVE Cared'
  <2>1. /\ at[t] = "release" /\ \E there \in {"tryAgain", "post"} : at' = [at EXCEPT ![t] = there]
        /\ UNCHANGED <<queue, draws, ui, first, more, missed>>
    BY <1>9 DEF Release, Goes, Outside, animator, pipeline
  <2>. QED  BY <2>1
<1>10. ASSUME NEW t \in Thread, TryAgain(t) PROVE Cared'
  <2>1. /\ at[t] = "tryAgain" /\ \E there \in {"recommit", "post"} : at' = [at EXCEPT ![t] = there]
        /\ UNCHANGED <<queue, draws, ui, first, more, missed>>
    BY <1>10 DEF TryAgain, Goes, Outside, animator, pipeline
  <2>. QED  BY <2>1
<1>11. ASSUME NEW t \in Thread, Recommit(t) PROVE Cared'
  <2>1. UNCHANGED <<draws, ui, first, more, missed>> /\ at[t] = "recommit"
    BY <1>11 DEF Recommit, Goes, Outside, animator
  <2>2. CASE at' = [at EXCEPT ![t] = "resignal"]
    <3>1. at'[t] = "resignal"
      BY <2>2
    <3>. QED  BY <3>1
  <2>3. CASE at' = [at EXCEPT ![t] = "post"] /\ queue' = queue
    BY <2>1, <2>3
  <2>. QED  BY <1>11, <2>2, <2>3 DEF Recommit, Goes
<1>12. ASSUME NEW t \in Thread, Resignal(t) PROVE Cared'
  <2>1. at'[t] = "post" /\ more'[t] = TRUE
    BY <1>12 DEF Resignal, Goes
  <2>. QED  BY <2>1
<1>13. ASSUME NEW t \in Thread, DrawEnd(t) PROVE Cared'
  <2>1. /\ at[t] = "post" /\ at' = [at EXCEPT ![t] = "idle"]
        /\ more' = [more EXCEPT ![t] = FALSE] /\ UNCHANGED <<queue, ui, first, missed>>
        /\ draws' = IF more[t] THEN draws + 1 ELSE draws
    BY <1>13 DEF DrawEnd, Goes, Outside, animator, pipeline
  <2>2. CASE more[t]
    BY <2>1, <2>2
  <2>3. CASE ~more[t]
    BY <2>1, <2>3
  <2>. QED  BY <2>2, <2>3
<1>14. CASE /\ UNCHANGED <<queue, draws, at, more, first, missed>>
              /\ (ui \in {"signal", "post"} <=> ui' \in {"signal", "post"})
  BY <1>14
<1>. QED
  <2>1. ASSUME NEW b \in BOOLEAN, RequestFrame(b) PROVE Cared'
    BY <1>14, <2>1 DEF RequestFrame, animator, pipeline, drawing
  <2>2. CASE AsyncWaitForVsync
    BY <1>14, <2>2 DEF AsyncWaitForVsync, RunTask, animator, pipeline, drawing
  <2>3. ASSUME NEW id \in Secondary, ScheduleSecondaryCallback(id) PROVE Cared'
    BY <1>14, <2>3 DEF ScheduleSecondaryCallback, animator, pipeline, drawing
  <2>4. CASE AwaitVSync
    BY <1>14, <2>4 DEF AwaitVSync, animator, pipeline, drawing
  <2>5. CASE ReuseLastLayerTrees
    BY <1>14, <2>5 DEF ReuseLastLayerTrees, RunTask, animator, pipeline, drawing
  <2>6. CASE BeginFrame
    BY <1>14, <2>6 DEF BeginFrame, RunTask, animator, pipeline, drawing
  <2>7. ASSUME NEW b \in BOOLEAN, Render(b) PROVE Cared'
    BY <1>14, <2>7 DEF Render, animator, pipeline, drawing
  <2>8. CASE FrameBuilt
    BY <1>14, <2>8 DEF FrameBuilt, animator, pipeline, drawing
  <2>9. CASE NothingToCommit
    BY <1>14, <2>9 DEF NothingToCommit, animator, pipeline, drawing
  <2>10. CASE EndVsync
    BY <1>14, <2>10 DEF EndVsync, animator, pipeline, drawing
  <2>11. CASE RunSecondary
    BY <1>14, <2>11 DEF RunSecondary, RunTask, animator, pipeline, drawing
  <2>12. CASE FireCallback
    BY <1>14, <2>12 DEF FireCallback, animator, pipeline, drawing
  <2>13. CASE FirePosts
    BY <1>14, <2>13 DEF FirePosts, animator, pipeline, drawing
  <2>14. CASE UNCHANGED vars
    BY <1>14, <2>14 DEF vars, animator, pipeline, drawing
  <2>. QED
    BY <1>1, <1>2, <1>3, <1>4, <1>5, <1>6, <1>7, <1>8, <1>9, <1>10, <1>11, <1>12,
       <1>13, <2>1, <2>2, <2>3, <2>4, <2>5, <2>6, <2>7, <2>8, <2>9, <2>10, <2>11,
       <2>12, <2>13, <2>14
       DEF Next, UiTask, Draw

\* "Eventually the 'Rasterizer' will consume it, so we don't need to notify the
\* delegate" (animator.cc, lines 150-151) fails in one way only: for every depth and any
\* overlap of the threads, frames are left without a Draw to come only after a Draw that
\* looked for one between the push and the signal of its commit.
THEOREM StrandedByTheRace == Spec => []OnlyTheRaceStrands
<1>1. Init => Cared
  BY DEF Init, Cared
<1>2. Counted /\ Cared /\ [Next]_vars => Cared'
  BY CaredStep
<1>3. Counted /\ Cared => OnlyTheRaceStrands
  BY DEF Counted, Cared, Stranded, OnlyTheRaceStrands
<1>. QED  BY <1>1, <1>2, <1>3, CountedAlways, PTL DEF Spec

-----------------------------------------------------------------------------
(* How many tasks of a kind wait in the queue of the UI thread *)

Where(what, posted) == {i \in 1..Len(posted) : posted[i] = what}

LEMMA Counting ==
    ASSUME NEW S, NEW q \in Seq(S), NEW w
    PROVE  /\ IsFiniteSet(Where(w, q)) /\ HowMany(w, q) = Cardinality(Where(w, q))
           /\ HowMany(w, q) \in Nat
<1>1. Len(q) \in Nat /\ IsFiniteSet(1..Len(q))
  BY LenProperties, FS_Interval
<1>2. Where(w, q) \in SUBSET (1..Len(q))
  BY DEF Where
<1>3. IsFiniteSet(Where(w, q))
  BY <1>1, <1>2, FS_Subset
<1>4. HowMany(w, q) = Cardinality(Where(w, q))
  BY DEF HowMany, Where
<1>. QED  BY <1>3, <1>4, FS_CardinalityType

\* A task posted at the end is one more of its kind.
LEMMA CountPosted ==
    ASSUME NEW S, NEW q \in Seq(S), NEW x \in S, NEW w
    PROVE  HowMany(w, Append(q, x)) = HowMany(w, q) + Count(x = w)
<1>1. Len(q) \in Nat /\ Append(q, x) \in Seq(S) /\ Len(Append(q, x)) = Len(q) + 1
  BY Pushed, LenProperties
<1>2. Append(q, x)[Len(q) + 1] = x /\ \A i \in 1..Len(q) : Append(q, x)[i] = q[i]
  BY Pushed
<1>3. Len(q) + 1 \notin Where(w, q)
  BY <1>1 DEF Where
<1>4. CASE x = w
  <2>1. Where(w, Append(q, x)) = Where(w, q) \cup {Len(q) + 1}
    BY <1>1, <1>2, <1>4 DEF Where
  <2>2. Cardinality(Where(w, Append(q, x))) = Cardinality(Where(w, q)) + 1
    BY <1>3, <2>1, Counting, FS_AddElement
  <2>. QED  BY <1>1, <1>4, <2>2, Counting DEF Count
<1>5. CASE x # w
  <2>1. Where(w, Append(q, x)) = Where(w, q)
    BY <1>1, <1>2, <1>5 DEF Where
  <2>2. HowMany(w, Append(q, x)) = HowMany(w, q) /\ HowMany(w, q) \in Nat
    BY <1>1, <2>1, Counting
  <2>. QED  BY <1>5, <2>2 DEF Count
<1>. QED  BY <1>4, <1>5

\* The task at the head that is taken to be run is one less.
LEMMA CountTaken ==
    ASSUME NEW S, NEW q \in Seq(S), q # <<>>, NEW w
    PROVE  HowMany(w, Tail(q)) = HowMany(w, q) - Count(Head(q) = w)
<1>1. Len(q) \in Nat /\ Len(q) # 0
  BY Lengths
<1>2. /\ Head(q) = q[1] /\ Tail(q) \in Seq(S) /\ Len(Tail(q)) = Len(q) - 1
      /\ \A i \in 1..Len(Tail(q)) : Tail(q)[i] = q[i + 1]
  BY <1>1, Popped
<1>. DEFINE shift == [i \in Where(w, Tail(q)) |-> i + 1]
<1>3. \A i \in Where(w, Tail(q)) : i \in Nat /\ i + 1 \in Where(w, q) \ {1}
  BY <1>1, <1>2 DEF Where
<1>4. \A j \in Where(w, q) \ {1} : j - 1 \in Where(w, Tail(q)) /\ (j - 1) + 1 = j
  <2>. SUFFICES ASSUME NEW j \in Where(w, q) \ {1}
                PROVE  j - 1 \in Where(w, Tail(q)) /\ (j - 1) + 1 = j
    OBVIOUS
  <2>1. j \in 1..Len(q) /\ j # 1 /\ q[j] = w
    BY DEF Where
  <2>2. j - 1 \in 1..Len(Tail(q)) /\ (j - 1) + 1 = j
    BY <1>1, <1>2, <2>1
  <2>3. Tail(q)[j - 1] = q[j]
    BY <1>2, <2>2
  <2>. QED  BY <2>1, <2>2, <2>3 DEF Where
<1>5. shift \in [Where(w, Tail(q)) -> Where(w, q) \ {1}]
  BY <1>3
<1>6. \A a, b \in Where(w, Tail(q)) : shift[a] = shift[b] => a = b
  BY <1>3
<1>7. \A j \in Where(w, q) \ {1} : \E i \in Where(w, Tail(q)) : shift[i] = j
  BY <1>4
<1>8. shift \in Bijection(Where(w, Tail(q)), Where(w, q) \ {1})
  BY <1>5, <1>6, <1>7 DEF Bijection, Injection, Surjection, IsInjective
<1>9. ExistsBijection(Where(w, Tail(q)), Where(w, q) \ {1})
  BY <1>8 DEF ExistsBijection
<1>10. Cardinality(Where(w, Tail(q))) = Cardinality(Where(w, q) \ {1})
  BY <1>2, <1>9, Counting, FS_Bijection
<1>11. Cardinality(Where(w, q) \ {1})
         = IF 1 \in Where(w, q) THEN Cardinality(Where(w, q)) - 1
                                ELSE Cardinality(Where(w, q))
  BY Counting, FS_RemoveElement
<1>12. 1 \in Where(w, q) <=> Head(q) = w
  BY <1>1, <1>2 DEF Where
<1>13. /\ HowMany(w, Tail(q)) = Cardinality(Where(w, Tail(q)))
       /\ HowMany(w, q) = Cardinality(Where(w, q)) /\ HowMany(w, q) \in Nat
  BY <1>2, Counting
<1>14. CASE Head(q) = w
  BY <1>10, <1>11, <1>12, <1>13, <1>14 DEF Count
<1>15. CASE Head(q) # w
  BY <1>10, <1>11, <1>12, <1>13, <1>15 DEF Count
<1>. QED  BY <1>14, <1>15


-----------------------------------------------------------------------------
(* The request for a frame on its way round the threads *)

Requests ==
    /\ pending \in {0, 1} /\ regenerate \in BOOLEAN /\ recorder \in BOOLEAN
    /\ ui \in UiPc /\ tasks \in Seq({"await", "vsync", "secondary"})
    /\ callback \in BOOLEAN /\ secondary \subseteq Secondary
    /\ fire \in [callback : BOOLEAN, secondary : SUBSET Secondary, at : {"idle", "post"}]

\* The task that runs was the head of the queue.
LEMMA TaskRun ==
    ASSUME NEW what, tasks \in Seq({"await", "vsync", "secondary"}), RunTask(what)
    PROVE  /\ ui = "idle" /\ Tail(tasks) \in Seq({"await", "vsync", "secondary"})
           /\ \A w : HowMany(w, Tail(tasks)) = HowMany(w, tasks) - Count(what = w)
           /\ \A w : HowMany(w, tasks) \in Nat /\ HowMany(w, Tail(tasks)) \in Nat
<1>1. ui = "idle" /\ tasks # <<>> /\ Head(tasks) = what
  BY DEF RunTask
<1>2. Tail(tasks) \in Seq({"await", "vsync", "secondary"})
  BY <1>1, HeadTailProperties
<1>. QED  BY <1>1, <1>2, CountTaken, Counting

\* What FirePosts appends to the queue.
LEMMA TasksFired ==
    ASSUME tasks \in Seq({"await", "vsync", "secondary"}), FirePosts
    PROVE  /\ tasks' \in Seq({"await", "vsync", "secondary"})
           /\ HowMany("await", tasks') = HowMany("await", tasks)
           /\ fire.callback => HowMany("vsync", tasks') = HowMany("vsync", tasks) + 1
           /\ ~fire.callback => HowMany("vsync", tasks') = HowMany("vsync", tasks)
<1>. DEFINE Kind == {"await", "vsync", "secondary"}
<1>1. PICK mid : mid = IF fire.callback THEN Append(tasks, "vsync") ELSE tasks
  OBVIOUS
<1>2. /\ mid \in Seq(Kind)
      /\ HowMany("await", mid) = HowMany("await", tasks)
      /\ fire.callback => HowMany("vsync", mid) = HowMany("vsync", tasks) + 1
      /\ ~fire.callback => HowMany("vsync", mid) = HowMany("vsync", tasks)
  <2>1. CASE fire.callback
    <3>1. mid = Append(tasks, "vsync") /\ "vsync" \in Kind
      BY <1>1, <2>1
    <3>2. /\ HowMany("await", mid) = HowMany("await", tasks) + Count("vsync" = "await")
          /\ HowMany("vsync", mid) = HowMany("vsync", tasks) + Count("vsync" = "vsync")
      BY <3>1, CountPosted
    <3>3. HowMany("await", tasks) \in Nat /\ mid \in Seq(Kind)
      BY <3>1, Counting, Pushed
    <3>. QED  BY <2>1, <3>2, <3>3 DEF Count
  <2>2. CASE ~fire.callback
    BY <1>1, <2>2
  <2>. QED  BY <2>1, <2>2
<1>3. \/ tasks' = mid
      \/ tasks' = Append(mid, "secondary")
  <2>1. tasks' = mid \o (IF fire.secondary # {} THEN <<"secondary">> ELSE <<>>)
    BY <1>1 DEF FirePosts
  <2>2. mid \o <<>> = mid /\ mid \o <<"secondary">> = Append(mid, "secondary")
    BY <1>2, ConcatEmptySeq, AppendIsConcat
  <2>. QED  BY <2>1, <2>2
<1>4. CASE tasks' = mid
  BY <1>2, <1>4
<1>5. CASE tasks' = Append(mid, "secondary")
  <2>1. /\ HowMany("await", tasks') = HowMany("await", mid) + Count("secondary" = "await")
        /\ HowMany("vsync", tasks') = HowMany("vsync", mid) + Count("secondary" = "vsync")
    BY <1>2, <1>5, CountPosted
  <2>2. /\ HowMany("await", mid) \in Nat /\ HowMany("vsync", mid) \in Nat
        /\ tasks' \in Seq(Kind)
    BY <1>2, <1>5, Counting, Pushed
  <2>. QED  BY <1>2, <2>1, <2>2 DEF Count
<1>. QED  BY <1>3, <1>4, <1>5

LEMMA RequestsStep ==
    Requests /\ after \in {"idle", "frame", "endVsync"} /\ [Next]_vars => Requests'
<1>. SUFFICES ASSUME Requests, after \in {"idle", "frame", "endVsync"}, [Next]_vars
              PROVE  Requests'
  OBVIOUS
<1>. DEFINE Kind == {"await", "vsync", "secondary"}
<1>. USE DEF Requests, UiPc, animator, waiter, pipeline, drawing, Outside
<1>1. ASSUME NEW b \in BOOLEAN, RequestFrame(b) PROVE Requests'
  <2>1. tasks' \in Seq(Kind)
    BY <1>1 DEF RequestFrame, Requested
  <2>. QED  BY <1>1, <2>1 DEF RequestFrame, Requested
<1>2. CASE AsyncWaitForVsync
  <2>1. Tail(tasks) \in Seq(Kind)
    BY <1>2, TaskRun DEF AsyncWaitForVsync
  <2>. QED  BY <1>2, <2>1 DEF AsyncWaitForVsync
<1>3. ASSUME NEW id \in Secondary, ScheduleSecondaryCallback(id) PROVE Requests'
  BY <1>3 DEF ScheduleSecondaryCallback
<1>4. CASE AwaitVSync
  BY <1>4 DEF AwaitVSync
<1>5. CASE ReuseLastLayerTrees
  <2>1. Tail(tasks) \in Seq(Kind)
    BY <1>5, TaskRun DEF ReuseLastLayerTrees
  <2>. QED  BY <1>5, <2>1 DEF ReuseLastLayerTrees
<1>6. CASE BeginFrame
  <2>1. Tail(tasks) \in Seq(Kind)
    BY <1>6, TaskRun DEF BeginFrame
  <2>2. tasks' \in Seq(Kind)
    BY <1>6, <2>1 DEF BeginFrame, Requested
  <2>. QED  BY <1>6, <2>2 DEF BeginFrame, Requested
<1>7. ASSUME NEW b \in BOOLEAN, Render(b) PROVE Requests'
  BY <1>7 DEF Render
<1>8. CASE FrameBuilt
  BY <1>8 DEF FrameBuilt
<1>9. CASE NothingToCommit
  BY <1>9 DEF NothingToCommit
<1>10. CASE Commit
  BY <1>10 DEF Commit
<1>11. CASE Signal
  BY <1>11 DEF Signal
<1>12. CASE PostDraw
  BY <1>12 DEF PostDraw
<1>13. CASE EndVsync
  BY <1>13 DEF EndVsync
<1>14. CASE RunSecondary
  <2>1. Tail(tasks) \in Seq(Kind)
    BY <1>14, TaskRun DEF RunSecondary
  <2>. QED  BY <1>14, <2>1 DEF RunSecondary
<1>15. CASE FireCallback
  <2>1. fire' \in [callback : BOOLEAN, secondary : SUBSET Secondary, at : {"idle", "post"}]
    BY <1>15 DEF FireCallback, Idle
  <2>. QED  BY <1>15, <2>1 DEF FireCallback
<1>16. CASE FirePosts
  <2>1. tasks' \in Seq(Kind)
    BY <1>16, TasksFired
  <2>2. fire' = Idle
    BY <1>16 DEF FirePosts
  <2>. QED  BY <1>16, <2>1, <2>2 DEF FirePosts, Idle
<1>17. ASSUME NEW t \in Thread, DrawStart(t) PROVE Requests'
  BY <1>17 DEF DrawStart, Rasterizing
<1>18. ASSUME NEW t \in Thread, Pop(t) PROVE Requests'
  BY <1>18 DEF Pop
<1>19. ASSUME NEW t \in Thread, DoDraw(t) PROVE Requests'
  BY <1>19 DEF DoDraw
<1>20. ASSUME NEW t \in Thread, CancelAndMerge(t) PROVE Requests'
  BY <1>20 DEF CancelAndMerge
<1>21. ASSUME NEW t \in Thread, DrawAndUnmerge(t) PROVE Requests'
  BY <1>21 DEF DrawAndUnmerge
<1>22. ASSUME NEW t \in Thread, Release(t) PROVE Requests'
  BY <1>22 DEF Release
<1>23. ASSUME NEW t \in Thread, TryAgain(t) PROVE Requests'
  BY <1>23 DEF TryAgain
<1>24. ASSUME NEW t \in Thread, Recommit(t) PROVE Requests'
  BY <1>24 DEF Recommit
<1>25. ASSUME NEW t \in Thread, Resignal(t) PROVE Requests'
  BY <1>25 DEF Resignal
<1>26. ASSUME NEW t \in Thread, DrawEnd(t) PROVE Requests'
  BY <1>26 DEF DrawEnd
<1>27. CASE UNCHANGED vars
  BY <1>27 DEF vars
<1>. QED
  BY <1>1, <1>2, <1>3, <1>4, <1>5, <1>6, <1>7, <1>8, <1>9, <1>10, <1>11, <1>12, <1>13,
     <1>14, <1>15, <1>16, <1>17, <1>18, <1>19, <1>20, <1>21, <1>22, <1>23, <1>24,
     <1>25, <1>26, <1>27
     DEF Next, UiTask, Draw

LEMMA UnderWayStep == Requests /\ RequestUnderWay /\ [Next]_vars => RequestUnderWay'
<1>. SUFFICES ASSUME Requests, RequestUnderWay, [Next]_vars PROVE RequestUnderWay'
  OBVIOUS
<1>. DEFINE Kind == {"await", "vsync", "secondary"}
<1>a. /\ pending \in {0, 1} /\ tasks \in Seq(Kind) /\ regenerate \in BOOLEAN
      /\ callback \in BOOLEAN /\ fire.callback \in BOOLEAN
  BY DEF Requests
<1>b. HowMany("await", tasks) \in Nat /\ HowMany("vsync", tasks) \in Nat
  BY <1>a, Counting
<1>c. /\ 1 - pending = HowMany("await", tasks) + Count(callback) + Count(fire.callback)
                        + HowMany("vsync", tasks)
      /\ regenerate => pending = 0
  BY DEF RequestUnderWay
<1>1. ASSUME NEW b \in BOOLEAN, RequestFrame(b) PROVE RequestUnderWay'
  <2>1. UNCHANGED <<callback, fire>> /\ pending' = 0
    BY <1>1 DEF RequestFrame, Requested, waiter
  <2>2. CASE pending = 1
    <3>1. tasks' = Append(tasks, "await") /\ "await" \in Kind
      BY <1>1, <2>2 DEF RequestFrame, Requested
    <3>2. /\ HowMany("await", tasks') = HowMany("await", tasks) + Count("await" = "await")
          /\ HowMany("vsync", tasks') = HowMany("vsync", tasks) + Count("await" = "vsync")
      BY <1>a, <3>1, CountPosted
    <3>. QED  BY <1>b, <1>c, <2>1, <2>2, <3>2 DEF RequestUnderWay, Count
  <2>3. CASE pending = 0
    <3>1. tasks' = tasks
      BY <1>1, <2>3 DEF RequestFrame, Requested
    <3>. QED  BY <1>c, <2>1, <2>3, <3>1 DEF RequestUnderWay
  <2>. QED  BY <1>a, <2>2, <2>3
<1>2. CASE AsyncWaitForVsync
  <2>1. /\ UNCHANGED <<pending, regenerate, fire>> /\ callback' = TRUE
        /\ tasks' = Tail(tasks) /\ RunTask("await")
    BY <1>2 DEF AsyncWaitForVsync
  <2>2. /\ HowMany("await", tasks') = HowMany("await", tasks) - Count("await" = "await")
        /\ HowMany("vsync", tasks') = HowMany("vsync", tasks) - Count("await" = "vsync")
        /\ HowMany("await", tasks') \in Nat
    BY <1>a, <2>1, TaskRun
  <2>. QED  BY <1>a, <1>b, <1>c, <2>1, <2>2 DEF RequestUnderWay, Count
<1>3. CASE ReuseLastLayerTrees
  <2>1. /\ UNCHANGED <<callback, fire>> /\ pending' = 1 /\ regenerate' = FALSE
        /\ tasks' = Tail(tasks) /\ RunTask("vsync")
    BY <1>3, <1>a DEF ReuseLastLayerTrees, waiter
  <2>2. /\ HowMany("await", tasks') = HowMany("await", tasks) - Count("vsync" = "await")
        /\ HowMany("vsync", tasks') = HowMany("vsync", tasks) - Count("vsync" = "vsync")
        /\ HowMany("vsync", tasks') \in Nat
    BY <1>a, <2>1, TaskRun
  <2>. QED  BY <1>a, <1>b, <1>c, <2>1, <2>2 DEF RequestUnderWay, Count
<1>4. CASE BeginFrame
  <2>1. UNCHANGED <<callback, fire>> /\ RunTask("vsync")
    BY <1>4 DEF BeginFrame, waiter
  <2>2. /\ HowMany("await", Tail(tasks)) = HowMany("await", tasks) - Count("vsync" = "await")
        /\ HowMany("vsync", Tail(tasks)) = HowMany("vsync", tasks) - Count("vsync" = "vsync")
        /\ HowMany("vsync", Tail(tasks)) \in Nat /\ Tail(tasks) \in Seq(Kind)
    BY <1>a, <2>1, TaskRun
  <2>3. CASE regenerate' = FALSE /\ pending' = 1 /\ tasks' = Tail(tasks)
    BY <1>a, <1>b, <1>c, <2>1, <2>2, <2>3 DEF RequestUnderWay, Count
  <2>4. CASE pending' = 0 /\ tasks' = Append(Tail(tasks), "await")
    <3>1. "await" \in Kind
      OBVIOUS
    <3>2. PICK rest \in Seq(Kind) : rest = Tail(tasks)
      BY <2>2
    <3>3. \A w : HowMany(w, Append(rest, "await")) = HowMany(w, rest) + Count("await" = w)
      BY <3>1, CountPosted
    <3>4. /\ HowMany("await", tasks') = HowMany("await", Tail(tasks)) + Count("await" = "await")
          /\ HowMany("vsync", tasks') = HowMany("vsync", Tail(tasks)) + Count("await" = "vsync")
      BY <2>4, <3>2, <3>3
    <3>. QED  BY <1>a, <1>b, <1>c, <2>1, <2>2, <2>4, <3>4 DEF RequestUnderWay, Count
  <2>. QED  BY <1>4, <2>3, <2>4 DEF BeginFrame, Requested
<1>5. CASE RunSecondary
  <2>1. /\ UNCHANGED <<pending, regenerate, callback, fire>>
        /\ tasks' = Tail(tasks) /\ RunTask("secondary")
    BY <1>5 DEF RunSecondary, animator, waiter
  <2>2. /\ HowMany("await", tasks') = HowMany("await", tasks) - Count("secondary" = "await")
        /\ HowMany("vsync", tasks') = HowMany("vsync", tasks) - Count("secondary" = "vsync")
    BY <1>a, <2>1, TaskRun
  <2>. QED  BY <1>b, <1>c, <2>1, <2>2 DEF RequestUnderWay, Count
<1>6. CASE FireCallback
  <2>1. /\ UNCHANGED <<pending, regenerate, tasks>> /\ callback' = FALSE
        /\ fire = Idle /\ fire'.callback = callback
    BY <1>6, <1>a DEF FireCallback, Idle, animator
  <2>2. fire.callback = FALSE
    BY <2>1 DEF Idle
  <2>. QED  BY <1>a, <1>b, <1>c, <2>1, <2>2 DEF RequestUnderWay, Count
<1>7. CASE FirePosts
  <2>1. /\ UNCHANGED <<pending, regenerate, callback>> /\ fire'.callback = FALSE
    BY <1>7 DEF FirePosts, Idle, animator
  <2>. QED  BY <1>a, <1>b, <1>c, <1>7, <2>1, TasksFired DEF RequestUnderWay, Count
<1>8. CASE UNCHANGED <<pending, regenerate, tasks, callback, fire>>
  BY <1>8, <1>c DEF RequestUnderWay
<1>. QED
  <2>1. ASSUME NEW id \in Secondary, ScheduleSecondaryCallback(id) PROVE RequestUnderWay'
    BY <1>8, <2>1 DEF ScheduleSecondaryCallback, animator, waiter, Outside
  <2>2. CASE AwaitVSync
    BY <1>8, <2>2 DEF AwaitVSync, animator, waiter, Outside
  <2>3. ASSUME NEW b \in BOOLEAN, Render(b) PROVE RequestUnderWay'
    BY <1>8, <2>3 DEF Render, animator, waiter, Outside
  <2>4. CASE FrameBuilt
    BY <1>8, <2>4 DEF FrameBuilt, animator, waiter, Outside
  <2>5. CASE NothingToCommit
    BY <1>8, <2>5 DEF NothingToCommit, animator, waiter, Outside
  <2>6. CASE Commit
    BY <1>8, <2>6 DEF Commit, animator, waiter, Outside
  <2>7. CASE Signal
    BY <1>8, <2>7 DEF Signal, animator, waiter, Outside
  <2>8. CASE PostDraw
    BY <1>8, <2>8 DEF PostDraw, animator, waiter, Outside
  <2>9. CASE EndVsync
    BY <1>8, <2>9 DEF EndVsync, animator, waiter, Outside
  <2>10. ASSUME NEW t \in Thread, DrawStart(t) PROVE RequestUnderWay'
    BY <1>8, <2>10 DEF DrawStart, Rasterizing, animator, waiter, Outside
  <2>11. ASSUME NEW t \in Thread, Pop(t) PROVE RequestUnderWay'
    BY <1>8, <2>11 DEF Pop, animator, waiter, Outside
  <2>12. ASSUME NEW t \in Thread, DoDraw(t) PROVE RequestUnderWay'
    BY <1>8, <2>12 DEF DoDraw, animator, waiter, Outside
  <2>13. ASSUME NEW t \in Thread, CancelAndMerge(t) PROVE RequestUnderWay'
    BY <1>8, <2>13 DEF CancelAndMerge, animator, waiter, Outside
  <2>14. ASSUME NEW t \in Thread, DrawAndUnmerge(t) PROVE RequestUnderWay'
    BY <1>8, <2>14 DEF DrawAndUnmerge, animator, waiter, Outside
  <2>15. ASSUME NEW t \in Thread, Release(t) PROVE RequestUnderWay'
    BY <1>8, <2>15 DEF Release, animator, waiter, Outside
  <2>16. ASSUME NEW t \in Thread, TryAgain(t) PROVE RequestUnderWay'
    BY <1>8, <2>16 DEF TryAgain, animator, waiter, Outside
  <2>17. ASSUME NEW t \in Thread, Recommit(t) PROVE RequestUnderWay'
    BY <1>8, <2>17 DEF Recommit, animator, waiter, Outside
  <2>18. ASSUME NEW t \in Thread, Resignal(t) PROVE RequestUnderWay'
    BY <1>8, <2>18 DEF Resignal, animator, waiter, Outside
  <2>19. ASSUME NEW t \in Thread, DrawEnd(t) PROVE RequestUnderWay'
    BY <1>8, <2>19 DEF DrawEnd, animator, waiter, Outside
  <2>20. CASE UNCHANGED vars
    BY <1>8, <2>20 DEF vars, animator, waiter, Outside
  <2>. QED
    BY <1>1, <1>2, <1>3, <1>4, <1>5, <1>6, <1>7, <2>1, <2>2, <2>3, <2>4, <2>5, <2>6,
       <2>7, <2>8, <2>9, <2>10, <2>11, <2>12, <2>13, <2>14, <2>15, <2>16, <2>17, <2>18,
       <2>19, <2>20
       DEF Next, UiTask, Draw

LEMMA PausesStep ==
    Requests /\ after \in {"idle", "frame", "endVsync"} /\ PausesBalanced /\ [Next]_vars
      => PausesBalanced'
<1>. SUFFICES ASSUME Requests, after \in {"idle", "frame", "endVsync"}, PausesBalanced,
                     [Next]_vars
              PROVE  PausesBalanced'
  OBVIOUS
<1>. DEFINE Kind == {"await", "vsync", "secondary"}
<1>a. /\ pending \in {0, 1} /\ tasks \in Seq(Kind) /\ fire.callback \in BOOLEAN
  BY DEF Requests
<1>b. HowMany("vsync", tasks) \in Nat
  BY <1>a, Counting
<1>c. paused = HowMany("vsync", tasks) + Count(InVsyncTask)
  BY DEF PausesBalanced
<1>d. paused' = paused /\ HowMany("vsync", tasks') = HowMany("vsync", tasks)
        /\ (InVsyncTask' <=> InVsyncTask) => PausesBalanced'
  BY <1>c DEF PausesBalanced, Count
<1>1. ASSUME NEW b \in BOOLEAN, RequestFrame(b) PROVE PausesBalanced'
  <2>1. UNCHANGED <<ui, after, paused>>
    BY <1>1 DEF RequestFrame, waiter
  <2>2. HowMany("vsync", tasks') = HowMany("vsync", tasks)
    <3>1. tasks' = tasks \/ (tasks' = Append(tasks, "await") /\ "await" \in Kind)
      BY <1>1 DEF RequestFrame, Requested
    <3>2. CASE tasks' = Append(tasks, "await") /\ "await" \in Kind
      <4>1. HowMany("vsync", tasks') = HowMany("vsync", tasks) + Count("await" = "vsync")
        BY <1>a, <3>2, CountPosted
      <4>. QED  BY <1>b, <4>1 DEF Count
    <3>. QED  BY <3>1, <3>2
  <2>. QED  BY <1>d, <2>1, <2>2 DEF InVsyncTask
<1>2. CASE AsyncWaitForVsync
  <2>1. tasks' = Tail(tasks) /\ RunTask("await") /\ UNCHANGED paused
    BY <1>2 DEF AsyncWaitForVsync, waiter
  <2>2. ~InVsyncTask /\ ~InVsyncTask'
    BY <1>2, <2>1 DEF AsyncWaitForVsync, RunTask, InVsyncTask, animator
  <2>3. HowMany("vsync", tasks') = HowMany("vsync", tasks) - Count("await" = "vsync")
    BY <1>a, <2>1, TaskRun
  <2>. QED  BY <1>b, <1>d, <2>1, <2>2, <2>3 DEF Count
<1>3. ASSUME NEW id \in Secondary, ScheduleSecondaryCallback(id) PROVE PausesBalanced'
  <2>1. UNCHANGED <<tasks, paused>>
    BY <1>3 DEF ScheduleSecondaryCallback, waiter
  <2>2. InVsyncTask' <=> InVsyncTask
    BY <1>3 DEF ScheduleSecondaryCallback, InVsyncTask
  <2>. QED  BY <1>d, <2>1, <2>2
<1>4. CASE AwaitVSync
  <2>1. UNCHANGED <<tasks, paused>>
    BY <1>4 DEF AwaitVSync, waiter
  <2>2. InVsyncTask' <=> InVsyncTask
    BY <1>4 DEF AwaitVSync, InVsyncTask
  <2>. QED  BY <1>d, <2>1, <2>2
<1>5. CASE ReuseLastLayerTrees
  <2>1. RunTask("vsync") /\ UNCHANGED paused
    BY <1>5 DEF ReuseLastLayerTrees, waiter
  <2>2. ~InVsyncTask /\ InVsyncTask'
    BY <1>5, <2>1 DEF ReuseLastLayerTrees, RunTask, InVsyncTask
  <2>3. /\ HowMany("vsync", Tail(tasks)) = HowMany("vsync", tasks) - Count("vsync" = "vsync")
        /\ HowMany("vsync", Tail(tasks)) \in Nat /\ Tail(tasks) \in Seq(Kind)
    BY <1>a, <2>1, TaskRun
  <2>4. HowMany("vsync", tasks') = HowMany("vsync", Tail(tasks))
    BY <1>5 DEF ReuseLastLayerTrees
  <2>. QED  BY <1>b, <1>c, <2>1, <2>2, <2>3, <2>4 DEF PausesBalanced, Count
<1>6. CASE BeginFrame
  <2>1. RunTask("vsync") /\ UNCHANGED paused
    BY <1>6 DEF BeginFrame, waiter
  <2>2. ~InVsyncTask /\ InVsyncTask'
    BY <1>6, <2>1 DEF BeginFrame, RunTask, InVsyncTask
  <2>3. /\ HowMany("vsync", Tail(tasks)) = HowMany("vsync", tasks) - Count("vsync" = "vsync")
        /\ HowMany("vsync", Tail(tasks)) \in Nat /\ Tail(tasks) \in Seq(Kind)
    BY <1>a, <2>1, TaskRun
  <2>4. HowMany("vsync", tasks') = HowMany("vsync", Tail(tasks))
    <3>1. \/ tasks' = Tail(tasks)
          \/ tasks' = Append(Tail(tasks), "await") /\ "await" \in Kind
      BY <1>6 DEF BeginFrame, Requested
    <3>2. CASE tasks' = Append(Tail(tasks), "await") /\ "await" \in Kind
      <4>1. PICK rest \in Seq(Kind) : rest = Tail(tasks)
        BY <2>3
      <4>2. HowMany("vsync", Append(rest, "await"))
              = HowMany("vsync", rest) + Count("await" = "vsync")
        BY <3>2, CountPosted
      <4>. QED  BY <2>3, <3>2, <4>1, <4>2 DEF Count
    <3>. QED  BY <3>1, <3>2
  <2>. QED  BY <1>b, <1>c, <2>1, <2>2, <2>3, <2>4 DEF PausesBalanced, Count
<1>7. ASSUME NEW b \in BOOLEAN, Render(b) PROVE PausesBalanced'
  <2>1. UNCHANGED <<tasks, paused>>
    BY <1>7 DEF Render, waiter
  <2>2. InVsyncTask' <=> InVsyncTask
    BY <1>7 DEF Render, InVsyncTask
  <2>. QED  BY <1>d, <2>1, <2>2
<1>8. CASE FrameBuilt
  <2>1. UNCHANGED <<tasks, paused>>
    BY <1>8 DEF FrameBuilt, waiter
  <2>2. InVsyncTask' <=> InVsyncTask
    BY <1>8 DEF FrameBuilt, InVsyncTask
  <2>. QED  BY <1>d, <2>1, <2>2
<1>9. CASE NothingToCommit
  <2>1. UNCHANGED <<tasks, paused>>
    BY <1>9 DEF NothingToCommit, waiter
  <2>2. InVsyncTask' <=> InVsyncTask
    BY <1>9 DEF NothingToCommit, InVsyncTask
  <2>. QED  BY <1>d, <2>1, <2>2
<1>10. CASE Commit
  <2>1. UNCHANGED <<tasks, paused>>
    BY <1>10 DEF Commit, waiter
  <2>2. InVsyncTask' <=> InVsyncTask
    BY <1>10 DEF Commit, InVsyncTask
  <2>. QED  BY <1>d, <2>1, <2>2
<1>11. CASE Signal
  <2>1. UNCHANGED <<tasks, paused>>
    BY <1>11 DEF Signal, waiter
  <2>2. InVsyncTask' <=> InVsyncTask
    BY <1>11 DEF Signal, InVsyncTask
  <2>. QED  BY <1>d, <2>1, <2>2
<1>12. CASE PostDraw
  <2>1. UNCHANGED <<tasks, paused>>
    BY <1>12 DEF PostDraw, waiter
  <2>2. InVsyncTask' <=> InVsyncTask
    BY <1>12 DEF PostDraw, InVsyncTask
  <2>. QED  BY <1>d, <2>1, <2>2
<1>13. CASE EndVsync
  <2>1. paused' = paused - 1 /\ UNCHANGED tasks
    BY <1>13 DEF EndVsync
  <2>2. InVsyncTask /\ ~InVsyncTask'
    BY <1>13 DEF EndVsync, InVsyncTask
  <2>. QED  BY <1>b, <1>c, <2>1, <2>2 DEF PausesBalanced, Count
<1>14. CASE RunSecondary
  <2>1. tasks' = Tail(tasks) /\ RunTask("secondary") /\ UNCHANGED paused
    BY <1>14 DEF RunSecondary, waiter
  <2>2. ~InVsyncTask /\ ~InVsyncTask'
    BY <1>14, <2>1 DEF RunSecondary, RunTask, InVsyncTask, animator
  <2>3. HowMany("vsync", tasks') = HowMany("vsync", tasks) - Count("secondary" = "vsync")
    BY <1>a, <2>1, TaskRun
  <2>. QED  BY <1>b, <1>d, <2>1, <2>2, <2>3 DEF Count
<1>15. CASE FirePosts
  <2>1. UNCHANGED <<ui, after>>
    BY <1>15 DEF FirePosts, animator
  <2>2. InVsyncTask' <=> InVsyncTask
    BY <2>1 DEF InVsyncTask
  <2>3. CASE fire.callback
    <3>1. paused' = paused + 1 /\ HowMany("vsync", tasks') = HowMany("vsync", tasks) + 1
      BY <1>a, <1>15, <2>3, TasksFired DEF FirePosts
    <3>. QED  BY <1>b, <1>c, <2>2, <3>1 DEF PausesBalanced, Count
  <2>4. CASE ~fire.callback
    <3>1. paused' = paused /\ HowMany("vsync", tasks') = HowMany("vsync", tasks)
      BY <1>a, <1>15, <2>4, TasksFired DEF FirePosts
    <3>. QED  BY <1>d, <2>2, <3>1
  <2>. QED  BY <2>3, <2>4
<1>16. CASE UNCHANGED <<ui, after, tasks, paused>>
  <2>1. InVsyncTask' <=> InVsyncTask
    BY <1>16 DEF InVsyncTask
  <2>. QED  BY <1>d, <1>16, <2>1
<1>. QED
  <2>1. CASE FireCallback
    BY <1>16, <2>1 DEF FireCallback, animator, waiter, Outside
  <2>2. ASSUME NEW t \in Thread, DrawStart(t) PROVE PausesBalanced'
    BY <1>16, <2>2 DEF DrawStart, Rasterizing, animator, waiter, Outside
  <2>3. ASSUME NEW t \in Thread, Pop(t) PROVE PausesBalanced'
    BY <1>16, <2>3 DEF Pop, animator, waiter, Outside
  <2>4. ASSUME NEW t \in Thread, DoDraw(t) PROVE PausesBalanced'
    BY <1>16, <2>4 DEF DoDraw, animator, waiter, Outside
  <2>5. ASSUME NEW t \in Thread, CancelAndMerge(t) PROVE PausesBalanced'
    BY <1>16, <2>5 DEF CancelAndMerge, animator, waiter, Outside
  <2>6. ASSUME NEW t \in Thread, DrawAndUnmerge(t) PROVE PausesBalanced'
    BY <1>16, <2>6 DEF DrawAndUnmerge, animator, waiter, Outside
  <2>7. ASSUME NEW t \in Thread, Release(t) PROVE PausesBalanced'
    BY <1>16, <2>7 DEF Release, animator, waiter, Outside
  <2>8. ASSUME NEW t \in Thread, TryAgain(t) PROVE PausesBalanced'
    BY <1>16, <2>8 DEF TryAgain, animator, waiter, Outside
  <2>9. ASSUME NEW t \in Thread, Recommit(t) PROVE PausesBalanced'
    BY <1>16, <2>9 DEF Recommit, animator, waiter, Outside
  <2>10. ASSUME NEW t \in Thread, Resignal(t) PROVE PausesBalanced'
    BY <1>16, <2>10 DEF Resignal, animator, waiter, Outside
  <2>11. ASSUME NEW t \in Thread, DrawEnd(t) PROVE PausesBalanced'
    BY <1>16, <2>11 DEF DrawEnd, animator, waiter, Outside
  <2>12. CASE UNCHANGED vars
    BY <1>16, <2>12 DEF vars, animator, waiter, Outside
  <2>. QED
    BY <1>1, <1>2, <1>3, <1>4, <1>5, <1>6, <1>7, <1>8, <1>9, <1>10, <1>11, <1>12,
       <1>13, <1>14, <1>15, <2>1, <2>2, <2>3, <2>4, <2>5, <2>6, <2>7, <2>8, <2>9,
       <2>10, <2>11, <2>12
       DEF Next, UiTask, Draw

LEMMA RequestsAlways == Spec => [](Requests /\ RequestUnderWay /\ PausesBalanced)
<1>1. Init => Requests /\ RequestUnderWay /\ PausesBalanced
  <2>. SUFFICES ASSUME Init PROVE Requests /\ RequestUnderWay /\ PausesBalanced
    OBVIOUS
  <2>1. Requests
    <3>1. Idle \in [callback : BOOLEAN, secondary : SUBSET Secondary, at : {"idle", "post"}]
      BY DEF Idle
    <3>2. <<>> \in Seq({"await", "vsync", "secondary"})
      OBVIOUS
    <3>. QED  BY <3>1, <3>2 DEF Init, Requests, UiPc
  <2>2. HowMany("await", tasks) = 0 /\ HowMany("vsync", tasks) = 0
    <3>1. \A w : {i \in 1..Len(tasks) : tasks[i] = w} = {}
      BY DEF Init
    <3>. QED  BY <3>1, FS_EmptySet DEF HowMany
  <2>. QED  BY <2>1, <2>2 DEF Init, Idle, RequestUnderWay, PausesBalanced, InVsyncTask, Count
<1>2. Counted /\ Requests /\ RequestUnderWay /\ PausesBalanced /\ [Next]_vars
        => (Requests /\ RequestUnderWay /\ PausesBalanced)'
  BY RequestsStep, UnderWayStep, PausesStep DEF Counted, Control
<1>. QED  BY <1>1, <1>2, CountedAlways, PTL DEF Spec

\* A request for a frame that the semaphore has let through is in exactly one place
\* between Animator::RequestFrame and the vsync task (a posted task, the waiter's
\* callback, FireCallback's hands), and new layer trees are wished for only while one is.
THEOREM OneRequestUnderWay == Spec => []RequestUnderWay
  BY RequestsAlways, PTL

\* The Dart event loop is paused once for every vsync task that waits or runs, through
\* every way a frame ends: not built, not committed, dropped or committed.
THEOREM DartPausesBalanced == Spec => []PausesBalanced
  BY RequestsAlways, PTL

\* Every variable of the pipeline, the animator and the waiter keeps its type: no count
\* of slots, vsyncs, tasks or pauses goes below zero, and no frame beyond the deque is read.
THEOREM Typing == Spec => []TypeOK
<1>1. Counted /\ Requests /\ PausesBalanced => TypeOK
  <2>. SUFFICES ASSUME Counted, Requests, PausesBalanced PROVE TypeOK
    OBVIOUS
  <2>1. paused \in Nat
    <3>1. HowMany("vsync", tasks) \in Nat
      BY Counting DEF Requests
    <3>. QED  BY <3>1 DEF PausesBalanced, Count
  <2>. QED  BY <2>1 DEF TypeOK, Counted, Numbers, Control, Frames, Requests
<1>. QED  BY <1>1, CountedAlways, RequestsAlways, PTL
=============================================================================
