--------------------------- MODULE RasterThreads ---------------------------
(***************************************************************************)
(* On which thread the rasterizer runs.  While an Android platform view is *)
(* on screen the raster task queue is merged under the platform thread's,  *)
(* for a lease that every drawn frame uses up and every frame with such a  *)
(* view renews; engines that share their threads share one                 *)
(* SharedThreadMerger, each behind a RasterThreadMerger with a mutex of    *)
(* its own.  Around them: Rasterizer::Draw, the platform thread as it      *)
(* creates and destroys views and waits for the raster task, and the UI    *)
(* thread that produces frames.                                            *)
(*                                                                         *)
(* TaskQueues says when a task runs; here its queue is a sequence and the  *)
(* thread that serves it takes the first.  FramePipeline says how frames   *)
(* get into the pipeline; here it is a number of frames.                   *)
(***************************************************************************)
EXTENDS Integers, Sequences, FiniteSets

CONSTANTS
    Engine,    \* the shells on these two threads
    Root,      \* the one the others are spawned from
    Lease,     \* kDefaultMergedLeaseDuration
    Depth,     \* of each pipeline
    MaxFrame,  \* bound on the frames produced
    MaxView,   \* bound on the views created
    Hasty,     \* may a view be destroyed before the raster thread has set it up?
    Slow       \* may the end of a draw last longer than drawing a frame?

ASSUME RootAssumption   == Root \in Engine
ASSUME LeaseAssumption  == Lease \in Nat \ {0} /\ Depth \in Nat \ {0}
ASSUME BoundsAssumption == MaxFrame \in Nat /\ MaxView \in Nat
ASSUME HastyAssumption  == Hasty \in BOOLEAN /\ Slow \in BOOLEAN

VARIABLES
    merged,    \* does the platform queue own the raster queue?
    lease,     \* lease_term_by_caller_, as a function on the callers recorded
    enabled,   \* enabled_
    mergers,   \* the engines whose rasterizer has a raster_thread_merger_
    queue,     \* the tasks of the raster queue
    thread,    \* what each thread does, for which engine
    surface,   \* the engines whose rasterizer has a surface_
    recorded,  \* the engines whose rasterizer has a last_successful_task
    overlaid,  \* did the last frame have platform views? (previous_frame_view_count_)
    items,     \* the frames in each pipeline
    view,      \* the engines whose platform view is created
    signalled, \* the latch of OnPlatformViewDestroyed
    aborted,   \* has an FML_CHECK failed?
    frames, views  \* counters of the bounds

merger == <<merged, lease, enabled>>
frame  == <<overlaid, items, frames>>
shell  == <<view, signalled, views>>
vars   == <<merger, mergers, queue, thread, surface, recorded, frame, shell, aborted>>

Thread  == {"platform", "raster"}
Steps   == {"idle", "draw", "preroll", "merge", "merging", "extend", "lease",
           "leasing", "submit", "setup", "enable", "teardown", "unmerging", "post",
           "create", "createPost", "destroy", "destroyPost", "wait"}
Drawing == {"preroll", "merge", "merging", "extend", "lease", "leasing", "submit"}
Doing   == [at : Steps, engine : Engine, last : BOOLEAN, retry : BOOLEAN, more : BOOLEAN]
Tasks   == [what : {"draw", "last", "setup", "teardown"}, engine : Engine]
Idle    == [at |-> "idle", engine |-> Root, last |-> FALSE, retry |-> FALSE, more |-> FALSE]

TypeOK ==
    /\ merged \in BOOLEAN /\ enabled \in BOOLEAN /\ aborted \in BOOLEAN
    /\ DOMAIN lease \subseteq Engine /\ \A e \in DOMAIN lease : lease[e] \in 0..Lease
    /\ mergers \subseteq Engine /\ surface \subseteq mergers /\ recorded \subseteq Engine
    /\ view \subseteq Engine
    /\ queue \in Seq(Tasks) /\ thread \in [Thread -> Doing]
    /\ overlaid \subseteq Engine /\ items \in [Engine -> 0..Depth] /\ signalled \in BOOLEAN
    /\ frames \in 0..MaxFrame /\ views \in 0..MaxView

Init ==
    /\ merged = FALSE /\ enabled = TRUE /\ aborted = FALSE
    /\ lease = <<>> /\ mergers = {} /\ surface = {} /\ recorded = {} /\ view = {} /\ overlaid = {}
    /\ queue = <<>> /\ thread = [t \in Thread |-> Idle]
    /\ items = [e \in Engine |-> 0] /\ signalled = FALSE
    /\ frames = 0 /\ views = 0

-----------------------------------------------------------------------------
(* SharedThreadMerger *)

IsMerged == \E e \in DOMAIN lease : lease[e] > 0

Leased(e, n) == [x \in DOMAIN lease \cup {e} |-> IF x = e THEN n ELSE lease[x]]
Erased(e)    == [x \in DOMAIN lease \ {e} |-> lease[x]]
AllZero(l)   == \A e \in DOMAIN l : l[e] = 0

\* UnMergeNowUnSafe, once the leases are l: Unmerge answers false if the queues
\* are not merged, and the check on that aborts.
UnMergeIf(condition, l) ==
    /\ lease' = l
    /\ merged' = (merged /\ ~condition)
    /\ aborted' = (condition /\ ~merged)

-----------------------------------------------------------------------------
(* Rasterizer::Draw, on whichever thread has popped it *)

At(t, at) == thread[t].at = at /\ ~aborted

\* The thread's next step, the rest of what it remembers as it was.
Go(t, at)   == thread' = [thread EXCEPT ![t].at = at]
Return(t)   == thread' = [thread EXCEPT ![t] = Idle]
Of(t)       == thread[t].engine

\* The mutex of an engine's RasterThreadMerger, held while an operation that has
\* looked at enabled_ goes on to the shared merger.
Free(e) == \A t \in Thread : thread[t].engine = e => thread[t].at \notin {"merging", "leasing", "unmerging"}

Start(what) == CASE what = "draw" -> "draw" [] what = "last" -> "preroll"
                 [] what = "setup" -> "setup" [] what = "teardown" -> "enable"

\* A thread takes the first task of the raster queue if it is the one to serve it.
RunTask(t) ==
    /\ At(t, "idle") /\ queue # <<>> /\ merged = (t = "platform")
    /\ queue' = Tail(queue)
    /\ thread' = [thread EXCEPT ![t] =
          [Idle EXCEPT !.at = Start(Head(queue).what), !.engine = Head(queue).engine,
                       !.last = (Head(queue).what = "last")]]
    /\ UNCHANGED <<merger, mergers, surface, recorded, frame, shell, aborted>>

\* IsOnRasterizingThread; a rasterizer that has no merger does not ask.
OnRasterizingThread(t) == Of(t) \in mergers => IsMerged = (t = "platform")

\* A draw on the wrong thread is left to the right one, and a draw without a frame
\* has nothing to do.
Consume(t) ==
    /\ At(t, "draw") /\ Free(Of(t))
    /\ IF OnRasterizingThread(t) /\ items[Of(t)] > 0
       THEN /\ items' = [items EXCEPT ![Of(t)] = @ - 1]
            /\ thread' = [thread EXCEPT ![t].at = "preroll", ![t].more = items[Of(t)] > 1]
       ELSE Return(t) /\ UNCHANGED items
    /\ UNCHANGED <<merger, mergers, queue, surface, recorded, overlaid, frames, shell, aborted>>

\* Where a drawn frame goes.  DrawLastLayerTrees takes the last successful task
\* out of its record, drops what DrawToSurfaces returns and does not pay for the
\* lease.
Drawn(t, again) ==
    /\ recorded' = IF ~again THEN recorded \cup {Of(t)}
                   ELSE recorded \ {e \in {Of(t)} : thread[t].last}
    /\ IF thread[t].last THEN Return(t)
       ELSE thread' = [thread EXCEPT ![t].at = "lease", ![t].retry = again]

\* Is there a surface to draw on, and for DrawLastLayerTrees a tree to draw?
CanDraw(t) == Of(t) \in surface /\ (thread[t].last => Of(t) \in recorded)

\* Drawing a frame takes longer than what is left of a draw on the other thread.
Takes(t) ==
    \A u \in Thread \ {t} : thread[u].at \in {"lease", "leasing", "submit"} => Slow \/ Of(u) # Of(t)

\* kNotSetUp: the frame is gone and the lease is not touched.
NotSetUp(t) ==
    /\ At(t, "preroll") /\ ~CanDraw(t)
    /\ IF thread[t].last THEN Return(t) ELSE Go(t, "submit")
    /\ UNCHANGED <<merger, mergers, queue, surface, recorded, frame, shell, aborted>>

\* PostPrerollAction of a frame without platform views.
PlainFrame(t) ==
    /\ At(t, "preroll") /\ CanDraw(t) /\ Takes(t)
    /\ overlaid' = overlaid \ {Of(t)}
    /\ Drawn(t, FALSE)
    /\ UNCHANGED <<merger, mergers, queue, surface, items, frames, shell, aborted>>

\* Mistake: a frame with platform views only renews the lease.
ViewFrame_OnlyExtends(t) ==
    /\ At(t, "preroll") /\ CanDraw(t) /\ Takes(t) /\ Free(Of(t))
    /\ Go(t, "extend")
    /\ UNCHANGED <<merger, mergers, queue, surface, recorded, frame, shell, aborted>>

\* PostPrerollAction of a frame with platform views.
ViewFrame(t) ==
    /\ At(t, "preroll") /\ CanDraw(t) /\ Takes(t) /\ Free(Of(t))
    /\ Go(t, IF IsMerged THEN "extend" ELSE "merge")
    /\ UNCHANGED <<merger, mergers, queue, surface, recorded, frame, shell, aborted>>

\* Mistake: it merges while merging is disabled.
MergeWithLease_Disabled(t) ==
    /\ At(t, "merge") /\ Free(Of(t))
    /\ overlaid' = overlaid \ {Of(t)}
    /\ IF ~IsMerged THEN Go(t, "merging") /\ UNCHANGED recorded ELSE Drawn(t, TRUE)
    /\ UNCHANGED <<merger, mergers, queue, surface, items, frames, shell, aborted>>

\* RasterThreadMerger::MergeWithLease up to its call of the shared merger.  The
\* frame is cancelled and tried again, merged or not.
MergeWithLease(t) ==
    /\ At(t, "merge") /\ Free(Of(t))
    /\ overlaid' = overlaid \ {Of(t)}
    /\ IF enabled /\ ~IsMerged THEN Go(t, "merging") /\ UNCHANGED recorded ELSE Drawn(t, TRUE)
    /\ UNCHANGED <<merger, mergers, queue, surface, items, frames, shell, aborted>>

\* SharedThreadMerger::MergeWithLease.
Merging(t) ==
    /\ At(t, "merging")
    /\ IF IsMerged THEN UNCHANGED <<merged, lease>>
       ELSE merged' = TRUE /\ lease' = Leased(Of(t), Lease)
    /\ Drawn(t, TRUE)
    /\ UNCHANGED <<enabled, mergers, queue, surface, frame, shell, aborted>>

\* ExtendLeaseTo; the first frame with views is submitted once more.
ExtendLeaseTo(t) ==
    /\ At(t, "extend") /\ Free(Of(t))
    /\ lease' = IF enabled THEN Leased(Of(t), Lease) ELSE lease
    /\ overlaid' = overlaid \cup {Of(t)}
    /\ Drawn(t, Of(t) \notin overlaid)
    /\ UNCHANGED <<merged, enabled, mergers, queue, surface, items, frames, shell, aborted>>

\* Mistake: it pays for a lease without asking whether the queues are merged.
DecrementLease_Unmerged(t) ==
    /\ At(t, "lease") /\ Free(Of(t))
    /\ Go(t, IF enabled THEN "leasing" ELSE "submit")
    /\ UNCHANGED <<merger, mergers, queue, surface, recorded, frame, shell, aborted>>

\* RasterThreadMerger::DecrementLease.
DecrementLease(t) ==
    /\ At(t, "lease") /\ Free(Of(t))
    /\ Go(t, IF IsMerged /\ enabled THEN "leasing" ELSE "submit")
    /\ UNCHANGED <<merger, mergers, queue, surface, recorded, frame, shell, aborted>>

Paid(e) == IF e \in DOMAIN lease THEN [lease EXCEPT ![e] = @ - 1] ELSE lease

\* SharedThreadMerger::DecrementLease, whose check is that a lease on record has
\* not run out.  Unmerging has the draw posted once more (kEnqueuePipeline).
Leasing(t) ==
    /\ At(t, "leasing")
    /\ IF Of(t) \in DOMAIN lease /\ lease[Of(t)] = 0
       THEN aborted' = TRUE /\ UNCHANGED <<merged, lease, thread>>
       ELSE /\ UnMergeIf(AllZero(Paid(Of(t))), Paid(Of(t)))
            /\ thread' = [thread EXCEPT ![t].at = "submit",
                             ![t].more = @ \/ (AllZero(Paid(Of(t))) /\ ~thread[t].retry)]
    /\ UNCHANGED <<enabled, mergers, queue, surface, recorded, frame, shell>>

\* Mistake: a frame to be tried again is put back and no Draw posted for it.
Submit_NoDraw(t) ==
    /\ At(t, "submit")
    /\ LET e == Of(t)  again == thread[t].retry /\ items[e] = 0 IN
       /\ items' = IF again THEN [items EXCEPT ![e] = 1] ELSE items
       /\ queue' = IF thread[t].more
                   THEN Append(queue, [what |-> "draw", engine |-> e]) ELSE queue
    /\ Return(t)
    /\ UNCHANGED <<merger, mergers, surface, recorded, overlaid, frames, shell, aborted>>

\* The rest of Draw: ProduceIfEmpty for a frame to be tried again, and the post
\* of another Draw.
Submit(t) ==
    /\ At(t, "submit")
    /\ LET e == Of(t)  again == thread[t].retry /\ items[e] = 0 IN
       /\ items' = IF again THEN [items EXCEPT ![e] = 1] ELSE items
       /\ queue' = IF thread[t].more \/ again
                   THEN Append(queue, [what |-> "draw", engine |-> e]) ELSE queue
    /\ Return(t)
    /\ UNCHANGED <<merger, mergers, surface, recorded, overlaid, frames, shell, aborted>>

Draw(t) ==
    \/ Consume(t) \/ NotSetUp(t) \/ PlainFrame(t) \/ ViewFrame(t)
    \/ MergeWithLease(t) \/ Merging(t) \/ ExtendLeaseTo(t) \/ DecrementLease(t) \/ Leasing(t)
    \/ Submit(t)

-----------------------------------------------------------------------------
(* Setting up and tearing down *)

\* The raster task of OnPlatformViewCreated: enable and Setup.
Setup(t) ==
    /\ At(t, "setup") /\ Free(Of(t))
    /\ enabled' = (enabled \/ Of(t) \in mergers)
    /\ mergers' = mergers \cup {Of(t)}
    /\ surface' = surface \cup {Of(t)}
    /\ Return(t)
    /\ UNCHANGED <<merged, lease, queue, recorded, frame, shell, aborted>>

\* The raster task of OnPlatformViewDestroyed: enable, then Teardown.
EnableThreadMerger(t) ==
    /\ At(t, "enable") /\ Free(Of(t))
    /\ enabled' = TRUE
    /\ Go(t, "teardown")
    /\ UNCHANGED <<merged, lease, mergers, queue, surface, recorded, frame, shell, aborted>>

AfterTeardown(t) ==
    /\ signalled' = TRUE
    /\ IF t = "platform" THEN Go(t, "wait") ELSE Return(t)

\* The lock of IsMerged and that of the test of enabled_ in UnMergeNowIfLastOne
\* (lines 136-139) are taken as one: with draws that are not Slow and a lease above 1
\* nothing changes the leases in between.
Teardown(t) ==
    /\ At(t, "teardown") /\ Free(Of(t))
    /\ surface' = surface \ {Of(t)} /\ recorded' = recorded \ {Of(t)}
    /\ IF IsMerged /\ enabled THEN Go(t, "unmerging") /\ UNCHANGED signalled
       ELSE AfterTeardown(t)
    /\ UNCHANGED <<merger, mergers, queue, frame, view, views, aborted>>

\* SharedThreadMerger::UnMergeNowIfLastOne.
Unmerging(t) ==
    /\ At(t, "unmerging")
    /\ UnMergeIf(AllZero(Erased(Of(t))), Erased(Of(t)))
    /\ AfterTeardown(t)
    /\ UNCHANGED <<enabled, mergers, queue, surface, recorded, frame, view, views>>

\* OnPlatformViewCreated, on the platform thread between two tasks.  Spawned
\* engines come when the root has a merger to share.
CreateView(e) ==
    /\ At("platform", "idle") /\ e \notin view /\ views < MaxView
    /\ e = Root \/ Root \in mergers
    /\ e \in mergers => Free(e)
    /\ enabled' = (enabled /\ e \notin mergers)
    /\ view' = view \cup {e} /\ views' = views + 1
    /\ thread' = [thread EXCEPT !["platform"] = [Idle EXCEPT !.at = "create", !.engine = e]]
    /\ UNCHANGED <<merged, lease, mergers, queue, surface, recorded, frame, signalled, aborted>>

\* should_post_raster_task: if the platform thread serves the raster queue it
\* runs the raster task itself after the latch, which the IO thread signals.
CreateLooks ==
    /\ At("platform", "create")
    /\ Go("platform", IF merged THEN "setup" ELSE "createPost")
    /\ UNCHANGED <<merger, mergers, queue, surface, recorded, frame, shell, aborted>>

CreatePosts ==
    /\ At("platform", "createPost")
    /\ queue' = Append(queue, [what |-> "setup", engine |-> Of("platform")])
    /\ Return("platform")
    /\ UNCHANGED <<merger, mergers, surface, recorded, frame, shell, aborted>>

\* Mistake: the merging is not disabled.
DestroyView_Enabled(e) ==
    /\ At("platform", "idle") /\ e \in view /\ (Hasty \/ e \in surface)
    /\ e \in mergers => Free(e)
    /\ thread' = [thread EXCEPT !["platform"] = [Idle EXCEPT !.at = "destroy", !.engine = e]]
    /\ UNCHANGED <<merger, mergers, queue, surface, recorded, frame, shell, aborted>>

\* OnPlatformViewDestroyed: disable, look who serves the raster queue, run the
\* raster task or post it, and wait.
DestroyView(e) ==
    /\ At("platform", "idle") /\ e \in view /\ (Hasty \/ e \in surface)
    /\ e \in mergers => Free(e)
    /\ enabled' = (enabled /\ e \notin mergers)
    /\ thread' = [thread EXCEPT !["platform"] = [Idle EXCEPT !.at = "destroy", !.engine = e]]
    /\ UNCHANGED <<merged, lease, mergers, queue, surface, recorded, frame, shell, aborted>>

DestroyLooks ==
    /\ At("platform", "destroy")
    /\ Go("platform", IF merged THEN "enable" ELSE "destroyPost")
    /\ UNCHANGED <<merger, mergers, queue, surface, recorded, frame, shell, aborted>>

DestroyPosts ==
    /\ At("platform", "destroyPost")
    /\ queue' = Append(queue, [what |-> "teardown", engine |-> Of("platform")])
    /\ Go("platform", "wait")
    /\ UNCHANGED <<merger, mergers, surface, recorded, frame, shell, aborted>>

DestroyReturns ==
    /\ At("platform", "wait") /\ signalled
    /\ signalled' = FALSE /\ view' = view \ {Of("platform")}
    /\ Return("platform")
    /\ UNCHANGED <<merger, mergers, queue, surface, recorded, frame, views, aborted>>

-----------------------------------------------------------------------------
(* The UI thread *)

\* A frame into the pipeline; a Draw is posted with the first one in it.
ProduceFrame(e) ==
    /\ ~aborted /\ e \in view /\ frames < MaxFrame /\ items[e] < Depth
    /\ frames' = frames + 1
    /\ items' = [items EXCEPT ![e] = @ + 1]
    /\ queue' = IF items[e] = 0 THEN Append(queue, [what |-> "draw", engine |-> e]) ELSE queue
    /\ UNCHANGED <<merger, mergers, thread, surface, recorded, overlaid, shell, aborted>>

\* Animator::DrawLastLayerTrees.
ReuseLastLayerTrees(e) ==
    /\ ~aborted /\ e \in view /\ frames < MaxFrame
    /\ frames' = frames + 1
    /\ queue' = Append(queue, [what |-> "last", engine |-> e])
    /\ UNCHANGED <<merger, mergers, thread, surface, recorded, overlaid, items, shell, aborted>>

-----------------------------------------------------------------------------
RasterStep(t) == RunTask(t) \/ Draw(t) \/ Setup(t) \/ EnableThreadMerger(t) \/ Teardown(t) \/ Unmerging(t)

PlatformStep == CreateLooks \/ CreatePosts \/ DestroyLooks \/ DestroyPosts \/ DestroyReturns

Next ==
    \/ \E t \in Thread : RasterStep(t)
    \/ PlatformStep
    \/ \E e \in Engine : CreateView(e) \/ DestroyView(e) \/ ProduceFrame(e) \/ ReuseLastLayerTrees(e)

Spec == Init /\ [][Next]_vars

\* Both threads are scheduled.
FairSpec == Spec /\ WF_vars(PlatformStep) /\ \A t \in Thread : WF_vars(RasterStep(t))

-----------------------------------------------------------------------------
\* What the leases say is what the queues do.  Two objects keep the same fact:
\* IsMerged reads the sum of the leases and is what every thread asks to know
\* whether it may rasterize, FlushTasks reads the queues.
LeasesMatchQueues == merged = IsMerged

\* No check of SharedThreadMerger fails: an unmerge finds the queues merged, a
\* lease that is used up has not run out already.
NeverAborts == ~aborted

\* While the merging is disabled, as OnPlatformViewCreated and
\* OnPlatformViewDestroyed do around their raster task, the raster queue stays on
\* the thread it is on.
ConfigurationIsFixed == [][~enabled /\ ~enabled' => merged' = merged]_vars

\* A platform thread that waits for the raster task of OnPlatformViewDestroyed
\* waits for a thread that can run it: the raster queue has not been merged under
\* the thread that waits.
LatchIsServed ==
    At("platform", "wait") /\ ~signalled =>
        \/ ~merged
        \/ thread["raster"].at \in {"enable", "teardown", "unmerging"}

Announces(t) == thread[t].at = "draw" \/ (thread[t].at \in Drawing /\ thread[t].more)

\* A frame in the pipeline has a Draw to come, posted or under way and about to post
\* another: neither a frame put back to be tried again nor a change of the thread
\* that rasterizes leaves one behind (rasterizer.cc, lines 548-563).
FramesAnnounced ==
    \A e \in Engine : items[e] > 0 =>
        \/ \E i \in 1..Len(queue) : queue[i] = [what |-> "draw", engine |-> e]
        \/ \E t \in Thread : Of(t) = e /\ Announces(t)

\* A frame in the pipeline is drawn, though merging and unmerging move its Draw
\* from thread to thread: what makes a frame always makes a Draw for it too.
FramesServed == \A e \in Engine : items[e] > 0 ~> (items[e] = 0 \/ aborted)
=============================================================================
