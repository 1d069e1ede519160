--------------------------- MODULE FramePipeline ---------------------------
(***************************************************************************)
(* How a frame of the app gets to the screen: Animator and VsyncWaiter ask *)
(* for a vsync, the UI thread builds a frame and commits it to Pipeline,   *)
(* raster thread takes it out in Rasterizer::Draw, or the platform thread  *)
(* while the two are merged.  Four threads: UI, the one that delivers      *)
(* vsyncs, raster and platform.  An action is what a thread does between   *)
(* two operations that another thread can see: a semaphore, a mutex, the   *)
(* posting of a task.                                                      *)
(*                                                                         *)
(* A frame is a number, its layer trees and timings are left out, and so   *)
(* are idle notifications, traces and DrawLastLayerTrees on the raster     *)
(* side, which does not touch the pipeline.  Tasks of one thread run in    *)
(* the order in which they were posted.  How merging works inside, and the *)
(* creations and teardowns that forbid it, are RasterThreads'; here a draw *)
(* that has merged the threads does not end the merge with its own lease.  *)
(***************************************************************************)
EXTENDS Integers, Sequences, FiniteSets

CONSTANTS
    Depth,       \* of the pipeline; 1 where platform and raster threads are one
    MaxFrame,    \* bound on the frames the framework renders
    Secondary    \* ids of ScheduleSecondaryCallback

ASSUME DepthAssumption    == Depth \in Nat \ {0}
ASSUME MaxFrameAssumption == MaxFrame \in Nat

VARIABLES
    pending,       \* pending_frame_semaphore_
    regenerate,    \* regenerate_layer_trees_
    continuation,  \* is producer_continuation_ valid?
    recorder,      \* is frame_timings_recorder_ set?
    tree,          \* the frame in layer_trees_tasks_, or 0
    last,          \* the last frame the framework rendered
    ui, after,     \* where the UI thread is, and where EndFrame returns to
    tasks,         \* the tasks of the UI thread
    callback,      \* is callback_ of the waiter set?
    secondary,     \* the keys of secondary_callbacks_
    vsyncs,        \* AwaitVSync calls the platform has not answered
    fire,          \* what FireCallback took from the waiter and has not posted
    paused,        \* secondary_pause_requests_ of the UI task source
    empty, available, queue,  \* the two semaphores of the pipeline and its deque
    first,         \* is_first_item of the commit under way
    draws,         \* Draw tasks posted to the raster task queue
    merged,        \* does the platform thread run the tasks of that queue?
    at,            \* where each of the two threads is in Rasterizer::Draw
    item, more,    \* the frame it holds and whether it will post another Draw
    shown,         \* the frame that was drawn last
    cancelled,     \* history: the frame the threads were last merged for
    missed         \* history: the last Draw came between a push and its signal

animator == <<pending, regenerate, continuation, recorder, tree, last, ui, after>>
waiter   == <<callback, secondary, vsyncs, fire, paused>>
pipeline == <<empty, available, queue>>
drawing  == <<merged, at, item, more, shown, cancelled, missed>>
vars     == <<animator, tasks, waiter, pipeline, first, draws, drawing>>

Idle  == [callback |-> FALSE, secondary |-> {}, at |-> "idle"]
UiPc  == {"idle", "await", "frame", "commit", "signal", "post", "endVsync"}
Thread   == {"raster", "platform"}
DrawPc   == {"idle", "pop", "draw", "release", "tryAgain", "recommit", "resignal", "post"}

TypeOK ==
    /\ pending \in {0, 1} /\ regenerate \in BOOLEAN /\ continuation \in BOOLEAN
    /\ recorder \in BOOLEAN /\ tree \in 0..MaxFrame /\ last \in 0..MaxFrame
    /\ ui \in UiPc /\ after \in {"idle", "frame", "endVsync"}
    /\ tasks \in Seq({"await", "vsync", "secondary"})
    /\ callback \in BOOLEAN /\ secondary \subseteq Secondary /\ vsyncs \in Nat
    /\ fire \in [callback : BOOLEAN, secondary : SUBSET Secondary, at : {"idle", "post"}]
    /\ paused \in Nat
    /\ empty \in Nat /\ available \in Nat /\ queue \in Seq(1..MaxFrame)
    /\ first \in BOOLEAN /\ draws \in Nat
    /\ merged \in BOOLEAN /\ at \in [Thread -> DrawPc]
    /\ item \in [Thread -> 0..MaxFrame] /\ more \in [Thread -> BOOLEAN]
    /\ shown \in 0..MaxFrame /\ cancelled \in 0..MaxFrame /\ missed \in BOOLEAN

Init ==
    /\ pending = 1 /\ regenerate = FALSE /\ continuation = FALSE
    /\ recorder = FALSE /\ tree = 0 /\ last = 0 /\ ui = "idle" /\ after = "idle"
    /\ tasks = <<>> /\ callback = FALSE /\ secondary = {} /\ vsyncs = 0
    /\ fire = Idle /\ paused = 0
    /\ empty = Depth /\ available = 0 /\ queue = <<>>
    /\ first = FALSE /\ draws = 0
    /\ merged = FALSE /\ at = [t \in Thread |-> "idle"]
    /\ item = [t \in Thread |-> 0] /\ more = [t \in Thread |-> FALSE]
    /\ shown = 0 /\ cancelled = 0 /\ missed = FALSE

-----------------------------------------------------------------------------
(* Animator, on the UI thread *)

\* RequestFrame: one await task at a time, whoever asks and how often.  free is
\* the semaphore's value when it is called, posted what it leaves in the queue.
Requested(free, posted) ==
    /\ pending' = 0
    /\ tasks' = IF free = 1 THEN Append(posted, "await") ELSE posted

\* Engine::ScheduleFrame, by the framework while it builds a frame or between
\* tasks; r is FALSE when only a texture has changed.
RequestFrame(r) ==
    /\ ui \in {"idle", "frame"}
    /\ regenerate' = (regenerate \/ r)
    /\ Requested(pending, tasks)
    /\ UNCHANGED <<continuation, recorder, tree, last, ui, after, waiter, pipeline, first,
                   draws, drawing>>

Waiting(what) == \E i \in 1..Len(tasks) : tasks[i] = what

RunTask(what) == ui = "idle" /\ tasks # <<>> /\ Head(tasks) = what

\* The await task: AsyncWaitForVsync registers the callback under the mutex, and
\* calls AwaitVSync after it unless a secondary callback already has.
AsyncWaitForVsync ==
    /\ RunTask("await") /\ tasks' = Tail(tasks)
    /\ callback' = TRUE
    /\ ui' = IF callback \/ secondary # {} THEN "idle" ELSE "await"
    /\ UNCHANGED <<pending, regenerate, continuation, recorder, tree, last, after, secondary,
                   vsyncs, fire, paused, pipeline, first, draws, drawing>>

\* Mistake: only its own map is looked at, not the animator's callback.
ScheduleSecondaryCallback_Alone(id) ==
    /\ ui = "idle" /\ id \notin secondary /\ ~Waiting("secondary")
    /\ secondary' = secondary \cup {id}
    /\ ui' = IF secondary # {} THEN "idle" ELSE "await"
    /\ UNCHANGED <<pending, regenerate, continuation, recorder, tree, last, after, tasks,
                   callback, vsyncs, fire, paused, pipeline, first, draws, drawing>>

\* ScheduleSecondaryCallback, for a pointer event or the end of a trace flow.  The
\* model's bound: not while the task of an earlier one waits.
ScheduleSecondaryCallback(id) ==
    /\ ui = "idle" /\ id \notin secondary /\ ~Waiting("secondary")
    /\ secondary' = secondary \cup {id}
    /\ ui' = IF callback \/ secondary # {} THEN "idle" ELSE "await"
    /\ UNCHANGED <<pending, regenerate, continuation, recorder, tree, last, after, tasks,
                   callback, vsyncs, fire, paused, pipeline, first, draws, drawing>>

\* AwaitVSync and AwaitVSyncForSecondaryCallback: the platform is asked for one.
AwaitVSync ==
    /\ ui = "await" /\ ui' = "idle"
    /\ vsyncs' = vsyncs + 1
    /\ UNCHANGED <<pending, regenerate, continuation, recorder, tree, last, after, tasks,
                   callback, secondary, fire, paused, pipeline, first, draws, drawing>>

\* The vsync task when nothing has to be rebuilt: DrawLastLayerTrees.
ReuseLastLayerTrees ==
    /\ RunTask("vsync") /\ ~regenerate
    /\ tasks' = Tail(tasks) /\ ui' = "endVsync"
    /\ pending' = 1
    /\ UNCHANGED <<regenerate, continuation, recorder, tree, last, after, waiter, pipeline,
                   first, draws, drawing>>

\* Mistake: a new slot is taken for granted.
BeginFrame_Blindly ==
    /\ RunTask("vsync") /\ regenerate
    /\ tree' = 0 /\ recorder' = TRUE
    /\ continuation' = TRUE
    /\ empty' = IF continuation THEN empty ELSE empty - 1
    /\ ui' = "frame" /\ regenerate' = FALSE
    /\ pending' = 1 /\ tasks' = Tail(tasks)
    /\ UNCHANGED <<last, after, waiter, available, queue, first, draws, drawing>>

\* Mistake: a frame that finds the pipeline full is not tried again.
BeginFrame_NoRetry ==
    /\ RunTask("vsync") /\ regenerate
    /\ tree' = 0
    /\ tasks' = Tail(tasks) /\ pending' = 1
    /\ \/ /\ continuation \/ empty > 0
          /\ continuation' = TRUE /\ recorder' = TRUE
          /\ empty' = IF continuation THEN empty ELSE empty - 1
          /\ ui' = "frame" /\ regenerate' = FALSE
       \/ /\ ~continuation /\ empty = 0
          /\ ui' = "endVsync" /\ recorder' = FALSE
          /\ UNCHANGED <<regenerate, continuation, empty>>
    /\ UNCHANGED <<last, after, waiter, available, queue, first, draws, drawing>>

\* BeginFrame: the slot left over by a frame that rendered nothing, or a new one;
\* when the pipeline is full another frame is requested, and EndFrame has nothing to do.
BeginFrame ==
    /\ RunTask("vsync") /\ regenerate
    /\ tree' = 0
    /\ \/ /\ continuation \/ empty > 0
          /\ continuation' = TRUE /\ recorder' = TRUE
          /\ empty' = IF continuation THEN empty ELSE empty - 1
          /\ ui' = "frame" /\ regenerate' = FALSE
          /\ pending' = 1 /\ tasks' = Tail(tasks)
       \/ /\ ~continuation /\ empty = 0
          /\ ui' = "endVsync" /\ regenerate' = TRUE /\ recorder' = FALSE
          /\ Requested(1, Tail(tasks)) /\ UNCHANGED <<continuation, empty>>
    /\ UNCHANGED <<last, after, waiter, available, queue, first, draws, drawing>>

\* Animator::Render, in a frame or, for a warm-up frame, between tasks; with the
\* last of the views the engine calls OnAllViewsRendered, hence EndFrame.
Render(all) ==
    /\ ui \in {"idle", "frame"} /\ last < MaxFrame
    /\ recorder' = TRUE
    /\ tree' = IF tree = 0 THEN last + 1 ELSE tree
    /\ last' = IF tree = 0 THEN last + 1 ELSE last
    /\ after' = ui /\ ui' = IF all THEN "commit" ELSE ui
    /\ UNCHANGED <<pending, regenerate, continuation, tasks, waiter, pipeline, first, draws,
                   drawing>>

\* The framework has built its frame; the vsync task calls EndFrame once more.
FrameBuilt ==
    /\ ui = "frame"
    /\ ui' = "commit" /\ after' = "endVsync"
    /\ UNCHANGED <<pending, regenerate, continuation, recorder, tree, last, tasks, waiter,
                   pipeline, first, draws, drawing>>

\* EndFrame with nothing to commit, or with no slot: a warm-up frame is dropped.
NothingToCommit ==
    /\ ui = "commit" /\ (~recorder \/ tree = 0 \/ ~continuation)
    /\ ui' = after /\ after' = "idle"
    /\ recorder' = FALSE /\ tree' = IF recorder THEN 0 ELSE tree
    /\ UNCHANGED <<pending, regenerate, continuation, last, tasks, waiter, pipeline,
                   first, draws, drawing>>

\* EndFrame, ProducerCommit: the frame enters the deque under the mutex and the
\* consumer is signalled after it.
Commit ==
    /\ ui = "commit" /\ recorder /\ tree # 0 /\ continuation
    /\ recorder' = FALSE /\ tree' = 0 /\ continuation' = FALSE
    /\ first' = (queue = <<>>)
    /\ queue' = Append(queue, tree)
    /\ ui' = "signal"
    /\ UNCHANGED <<pending, regenerate, last, after, tasks, waiter, empty, available, draws,
                   drawing>>

Signal ==
    /\ ui = "signal" /\ ui' = "post"
    /\ available' = available + 1
    /\ UNCHANGED <<pending, regenerate, continuation, recorder, tree, last, after, tasks, waiter,
                   empty, queue, first, draws, drawing>>

\* Mistake: the rasterizer is told only while it is at rest.
PostDraw_IfAtRest ==
    /\ ui = "post" /\ ui' = after /\ after' = "idle" /\ first' = FALSE
    /\ draws' = IF first /\ \A t \in Thread : at[t] = "idle" THEN draws + 1 ELSE draws
    /\ UNCHANGED <<pending, regenerate, continuation, recorder, tree, last, tasks, waiter,
                   pipeline, drawing>>

\* OnAnimatorDraw, for the first item only: "eventually the Rasterizer will
\* consume" the others.
PostDraw ==
    /\ ui = "post" /\ ui' = after /\ after' = "idle" /\ first' = FALSE
    /\ draws' = IF first THEN draws + 1 ELSE draws
    /\ UNCHANGED <<pending, regenerate, continuation, recorder, tree, last, tasks, waiter,
                   pipeline, drawing>>

\* Mistake: the Dart tasks stay paused if the frame was not built.
EndVsync_Forgets ==
    /\ ui = "endVsync" /\ ui' = "idle"
    /\ paused' = IF pending = 1 THEN paused - 1 ELSE paused
    /\ UNCHANGED <<pending, regenerate, continuation, recorder, tree, last, after, tasks,
                   callback, secondary, vsyncs, fire, pipeline, first, draws, drawing>>

\* The end of the vsync task: ResumeDartEventLoopTasks.
EndVsync ==
    /\ ui = "endVsync" /\ ui' = "idle"
    /\ paused' = paused - 1
    /\ UNCHANGED <<pending, regenerate, continuation, recorder, tree, last, after, tasks,
                   callback, secondary, vsyncs, fire, pipeline, first, draws, drawing>>

\* A secondary callback: pointer data is delivered, trace flows are ended.
RunSecondary ==
    /\ RunTask("secondary") /\ tasks' = Tail(tasks)
    /\ UNCHANGED <<animator, waiter, pipeline, first, draws, drawing>>

-----------------------------------------------------------------------------
(* VsyncWaiter::FireCallback, on the thread that delivers the vsync *)

FireCallback ==
    /\ vsyncs > 0 /\ fire = Idle
    /\ vsyncs' = vsyncs - 1 /\ callback' = FALSE /\ secondary' = {}
    /\ fire' = IF callback \/ secondary # {}
                 THEN [callback |-> callback, secondary |-> secondary, at |-> "post"]
                 ELSE Idle
    /\ UNCHANGED <<animator, tasks, paused, pipeline, first, draws, drawing>>

\* PauseDartEventLoopTasks, then the vsync task and the secondary ones.
FirePosts ==
    /\ fire.at = "post" /\ fire' = Idle
    /\ paused' = IF fire.callback THEN paused + 1 ELSE paused
    /\ tasks' = (IF fire.callback THEN Append(tasks, "vsync") ELSE tasks)
                  \o (IF fire.secondary # {} THEN <<"secondary">> ELSE <<>>)
    /\ UNCHANGED <<animator, callback, secondary, vsyncs, pipeline, first, draws, drawing>>

-----------------------------------------------------------------------------
(* Rasterizer::Draw and Pipeline::Consume, on the thread that rasterizes *)

\* A thread that has changed this by its draw is still in it when the other begins.
Rasterizing == IF merged THEN "platform" ELSE "raster"

\* The thread t goes on from here to there in its Draw.
Goes(t, here, there) == at[t] = here /\ at' = [at EXCEPT ![t] = there]

Outside == <<animator, tasks, waiter, first>>

\* Consume: nothing available, and the task is over; or a frame to take.
DrawStart(t) ==
    /\ t = Rasterizing /\ at[t] = "idle" /\ draws > 0
    /\ draws' = draws - 1
    /\ \/ /\ available = 0 /\ UNCHANGED <<available, at>>
          /\ missed' = (missed \/ (queue # <<>> /\ ui = "signal" /\ ~first))
       \/ /\ available > 0 /\ available' = available - 1
          /\ Goes(t, "idle", "pop") /\ missed' = FALSE
    /\ UNCHANGED <<Outside, empty, queue, merged, item, more, shown, cancelled>>

\* The front of the deque, which must not be empty, under the mutex.
Pop(t) ==
    /\ Goes(t, "pop", "draw")
    /\ item' = [item EXCEPT ![t] = Head(queue)] /\ queue' = Tail(queue)
    /\ more' = [more EXCEPT ![t] = Tail(queue) # <<>>]
    /\ UNCHANGED <<Outside, empty, available, draws, merged, shown, cancelled, missed>>

\* DoDraw of a frame that is drawn.  One whose surfaces the merge has changed is kept,
\* to be drawn once more.
DoDraw(t) ==
    /\ Goes(t, "draw", "release")
    /\ shown' = item[t]
    /\ \/ item' = [item EXCEPT ![t] = 0]
       \/ merged /\ UNCHANGED item
    /\ UNCHANGED <<Outside, pipeline, draws, merged, more, cancelled, missed>>

\* DoDraw of a frame with platform views on the raster thread: it is cancelled and
\* kept, and from now on the platform thread rasterizes.
CancelAndMerge(t) ==
    /\ ~merged /\ Goes(t, "draw", "release")
    /\ merged' = TRUE /\ cancelled' = item[t]
    /\ UNCHANGED <<Outside, pipeline, draws, item, more, shown, missed>>

\* DoDraw of a frame without platform views that uses up the lease (kEnqueuePipeline).
DrawAndUnmerge(t) ==
    /\ merged /\ Goes(t, "draw", "release")
    /\ merged' = FALSE /\ more' = [more EXCEPT ![t] = TRUE]
    /\ shown' = item[t] /\ item' = [item EXCEPT ![t] = 0]
    /\ UNCHANGED <<Outside, pipeline, draws, cancelled, missed>>

Release(t) ==
    /\ Goes(t, "release", IF item[t] # 0 THEN "tryAgain" ELSE "post")
    /\ empty' = empty + 1
    /\ UNCHANGED <<Outside, available, queue, draws, merged, item, more, shown, cancelled,
                   missed>>

\* ProduceIfEmpty: without a slot the frame to draw again is dropped.
TryAgain(t) ==
    /\ \/ /\ empty > 0 /\ empty' = empty - 1
          /\ Goes(t, "tryAgain", "recommit") /\ UNCHANGED item
       \/ /\ empty = 0 /\ Goes(t, "tryAgain", "post")
          /\ item' = [item EXCEPT ![t] = 0] /\ UNCHANGED empty
    /\ UNCHANGED <<Outside, available, queue, draws, merged, more, shown, cancelled, missed>>

\* Mistake: ProducerCommit in the place of ProducerCommitIfEmpty.
Recommit_Anyway(t) ==
    /\ Goes(t, "recommit", "resignal")
    /\ queue' = Append(queue, item[t]) /\ item' = [item EXCEPT ![t] = 0]
    /\ UNCHANGED <<Outside, empty, available, draws, merged, more, shown, cancelled, missed>>

\* Mistake: the slot of a frame that is not committed is not given back.
Recommit_KeepsSlot(t) ==
    /\ \/ /\ queue = <<>> /\ queue' = <<item[t]>>
          /\ Goes(t, "recommit", "resignal")
       \/ /\ queue # <<>> /\ UNCHANGED queue
          /\ Goes(t, "recommit", "post")
    /\ item' = [item EXCEPT ![t] = 0]
    /\ UNCHANGED <<Outside, empty, available, draws, merged, more, shown, cancelled, missed>>

\* Mistake: the consumer is signalled whether or not the frame was put back.
Recommit_SignalsAnyway(t) ==
    /\ \/ queue = <<>> /\ queue' = <<item[t]>> /\ UNCHANGED empty
       \/ queue # <<>> /\ empty' = empty + 1 /\ UNCHANGED queue
    /\ Goes(t, "recommit", "resignal") /\ item' = [item EXCEPT ![t] = 0]
    /\ UNCHANGED <<Outside, available, draws, merged, more, shown, cancelled, missed>>

\* ProducerCommitIfEmpty: a frame that is in the deque takes precedence.
Recommit(t) ==
    /\ \/ /\ queue = <<>> /\ queue' = <<item[t]>>
          /\ Goes(t, "recommit", "resignal") /\ UNCHANGED empty
       \/ /\ queue # <<>> /\ empty' = empty + 1
          /\ Goes(t, "recommit", "post") /\ UNCHANGED queue
    /\ item' = [item EXCEPT ![t] = 0]
    /\ UNCHANGED <<Outside, available, draws, merged, more, shown, cancelled, missed>>

Resignal(t) ==
    /\ Goes(t, "resignal", "post")
    /\ available' = available + 1 /\ more' = [more EXCEPT ![t] = TRUE]
    /\ UNCHANGED <<Outside, empty, queue, draws, merged, item, shown, cancelled, missed>>

\* The Draw task posts itself again while there is more to consume.
DrawEnd(t) ==
    /\ Goes(t, "post", "idle")
    /\ draws' = IF more[t] THEN draws + 1 ELSE draws
    /\ more' = [more EXCEPT ![t] = FALSE]
    /\ UNCHANGED <<Outside, pipeline, merged, item, shown, cancelled, missed>>

-----------------------------------------------------------------------------

UiTask ==
    \/ AsyncWaitForVsync \/ AwaitVSync \/ ReuseLastLayerTrees \/ BeginFrame
    \/ FrameBuilt \/ NothingToCommit \/ Commit \/ Signal \/ PostDraw \/ EndVsync
    \/ RunSecondary

Draw(t) ==
    \/ DrawStart(t) \/ Pop(t) \/ DoDraw(t) \/ CancelAndMerge(t) \/ DrawAndUnmerge(t)
    \/ Release(t) \/ TryAgain(t) \/ Recommit(t) \/ Resignal(t) \/ DrawEnd(t)

Next ==
    \/ UiTask \/ FireCallback \/ FirePosts
    \/ \E t \in Thread : Draw(t)
    \/ \E b \in BOOLEAN : RequestFrame(b) \/ Render(b)
    \/ \E id \in Secondary : ScheduleSecondaryCallback(id)

Spec == Init /\ [][Next]_vars

\* Threads run their tasks, the framework ends its frame, the display has vsyncs.
FairSpec ==
    /\ Spec
    /\ WF_vars(UiTask) /\ WF_vars(FireCallback) /\ WF_vars(FirePosts)
    /\ \A t \in Thread : WF_vars(Draw(t))

-----------------------------------------------------------------------------
(* Properties *)

Count(b) == IF b THEN 1 ELSE 0

\* How many of the two threads are there in their draw.
AreAt(pcs) == Count(at["raster"] \in pcs) + Count(at["platform"] \in pcs)

\* Every slot of the pipeline is free, held by the animator, taken by a frame that
\* waits, or held by a draw: no path through the two ways of committing and the four
\* of ending a draw loses or invents one, on two threads at once.
SlotsConserved ==
    Depth = empty + Count(continuation) + Len(queue) + AreAt({"draw", "release", "recommit"})

\* The consumer takes the front of a deque that has one: the semaphore never counts
\* more frames than the deque holds, whoever is between the push and the signal.
NeverPopsEmpty ==
    Len(queue) = available + Count(ui = "signal") + AreAt({"pop", "resignal"})

\* "We push the frame to the front of the queue" (rasterizer.cc, lines 267-268): one
\* that has to be drawn again is not overtaken by a newer one.
FramesInOrder ==
    queue # <<>> => shown <= queue[1] /\ \A t \in Thread : item[t] <= queue[1]

\* Frames wait in the order in which they were built, and one that was overtaken by a
\* frame drawn, or about to be, is the one for which the threads were merged: nothing
\* else that is drawn again, and nothing that waits behind it, comes late.
OnlyCancelledIsLate ==
    /\ \A i, j \in 1..Len(queue) : i < j => queue[i] < queue[j]
    /\ \A i \in 1..Len(queue), t \in Thread :
         shown > queue[i] \/ item[t] > queue[i] => i = 1 /\ queue[i] = cancelled

\* Frames wait, and nothing will draw them.
Stranded ==
    /\ queue # <<>> /\ draws = 0 /\ ui \notin {"signal", "post"}
    /\ \A t \in Thread : at[t] = "idle"

\* "Eventually the 'Rasterizer' will consume it, so we don't need to notify the
\* delegate" (animator.cc, lines 150-151): a frame that waits has a Draw to come.
NoStrandedFrame == ~Stranded

\* Frames are left with no Draw to come by one accident only: a Draw looked for a frame
\* between the push and the signal of one that was not the first of the deque.
OnlyTheRaceStrands == Stranded => missed

\* One vsync is asked of the platform exactly when somebody waits for one, though
\* two kinds of callers share it and the lock is not held while it is asked for.
OneVsync == vsyncs + Count(ui = "await") = Count(callback \/ secondary # {})

HowMany(what, posted) == Cardinality({i \in 1..Len(posted) : posted[i] = what})

\* A request for a frame is somewhere on its way round the threads, once, exactly
\* when the semaphore says so; a wish for new layer trees is never left behind.
RequestUnderWay ==
    /\ 1 - pending = HowMany("await", tasks) + Count(callback) + Count(fire.callback)
                       + HowMany("vsync", tasks)
    /\ regenerate => pending = 0

InVsyncTask ==
    \/ ui \in {"frame", "endVsync"}
    \/ ui \in {"commit", "signal", "post"} /\ after # "idle"

\* The Dart event loop is paused once for every vsync task that waits or runs: none
\* resumes a pause it has not made, and the UI thread at rest leaves none behind.
PausesBalanced == paused = HowMany("vsync", tasks) + Count(InVsyncTask)

\* A wish for new layer trees is answered by a frame, unless the accident has left the
\* pipeline without a consumer.
FrameComes == regenerate ~> ui = "frame" \/ (Stranded /\ missed)

\* A committed frame is drawn, or a newer one is, though it may be cancelled, put back
\* and overtaken on the way; unless the accident has left it waiting, or there was no
\* slot left to put it back.
CommittedIsDrawn == \A f \in 1..MaxFrame :
    (\E i \in 1..Len(queue) : queue[i] = f)
      ~> \/ shown >= f
         \/ Stranded /\ missed
         \/ \E t \in Thread : at[t] = "tryAgain" /\ item[t] = f /\ empty = 0

\* The tasks of the Dart event loop get their turn again.
DartTasksRun == paused > 0 ~> paused = 0
=============================================================================
