----------------------------- MODULE TaskQueues -----------------------------
(***************************************************************************)
(* fml::MessageLoopTaskQueues, the table of all task queues of the         *)
(* process, with the message loops that serve it: tasks with a target time *)
(* in two grades, queues that are merged under another queue's thread and  *)
(* taken out again while tasks are posted, and one timer per thread that   *)
(* stands between a task and the thread's sleep.                           *)
(*                                                                         *)
(* Each operation holds queue_mutex_, so it is one step; a loop's turn is  *)
(* several.  A task does nothing here: whatever it may do to the table is  *)
(* an operation another step can take.  Time is a small number; closures,  *)
(* task observers and the thread-local grade are left out, and so are      *)
(* Dispose and DisposeTasks.                                               *)
(***************************************************************************)
EXTENDS Integers, FiniteSets

CONSTANTS
    Queue,      \* TaskQueueId
    kUnmerged,
    Mergeable,  \* the pairs <<owner, subsumed>> somebody merges
    Pausable,   \* the queues that Dart posts to and whose secondary source is paused
    MaxTask,    \* bound on the tasks registered
    MaxTime,    \* bound on the clock and on target times
    MaxChange   \* bound on merges and unmerges, and on pauses

ASSUME UnmergedAssumption  == kUnmerged \notin Queue
ASSUME MergeableAssumption == Mergeable \subseteq Queue \X Queue
ASSUME PausableAssumption  == Pausable \subseteq Queue
ASSUME BoundsAssumption    == MaxTask \in Nat /\ MaxTime \in Nat /\ MaxChange \in Nat

\* VsyncWaiter pauses the queue of the UI thread and SharedThreadMerger subsumes
\* that of the raster thread; ResumeSecondarySource relies on the difference.  The
\* tasks of the Dart event loop, the secondary ones, go to the UI thread only.
ASSUME PausedIsNeverSubsumed == \A pair \in Mergeable : pair[2] \notin Pausable

VARIABLES
    order,       \* order_
    tasks,       \* the tasks in every task_source
    pauses,      \* secondary_pause_requests_ of each source
    ownerOf,     \* owner_of
    subsumedBy,  \* subsumed_by
    wake,        \* when each thread's timer fires; Never once it has been drained
    now,
    loop,        \* what each thread's FlushTasks is doing
    ran,         \* history: the tasks that were handed out
    changes      \* history: merges, unmerges and pauses so far

table == <<order, tasks, pauses, ownerOf, subsumedBy>>
vars  == <<table, wake, now, loop, ran, changes>>

Time  == 0..MaxTime
Never == MaxTime + 1
Grade == {"primary", "secondary"}
Task  == [order : 0..MaxTask, queue : Queue, grade : Grade, time : Time]

Polling == [at |-> "poll", from |-> 0]

TypeOK ==
    /\ order \in 0..MaxTask /\ tasks \subseteq Task /\ ran \subseteq Task
    /\ pauses \in [Queue -> Nat]
    /\ ownerOf \in [Queue -> SUBSET Queue] /\ subsumedBy \in [Queue -> Queue \cup {kUnmerged}]
    /\ wake \in [Queue -> 0..Never] /\ now \in Time
    /\ loop \in [Queue -> [at : {"poll", "flush", "run"}, from : Time]]
    /\ changes \in 0..MaxChange

Init ==
    /\ order = 0 /\ tasks = {} /\ ran = {}
    /\ pauses = [q \in Queue |-> 0]
    /\ ownerOf = [q \in Queue |-> {}] /\ subsumedBy = [q \in Queue |-> kUnmerged]
    /\ wake = [q \in Queue |-> Never] /\ now = 0
    /\ loop = [q \in Queue |-> Polling]
    /\ changes = 0

-----------------------------------------------------------------------------
(* Reading the table *)

Merged(q) == subsumedBy[q] # kUnmerged

\* What a task source offers: the secondary tasks only when nobody pauses them.
Source(q) == {t \in tasks : t.queue = q /\ (t.grade = "secondary" => pauses[q] = 0)}

\* HasPendingTasks is whether there is one: a subsumed queue never has any, an
\* owner has its own and those of the queues it subsumes.
Pending(q) ==
    IF Merged(q) THEN {} ELSE UNION {Source(s) : s \in ownerOf[q] \cup {q}}

\* Mistake: of two tasks for the same time the later one is first.
Before_Latest(t, u) == t.time < u.time \/ (t.time = u.time /\ t.order > u.order)

\* DelayedTask::operator>: by target time, then by the order of registration.
Before(t, u) == t.time < u.time \/ (t.time = u.time /\ t.order < u.order)

\* PeekNextTask: each source's Top is the lesser of its two grades, and the
\* least Top of the owner and of the subsumed wins.
Peek(q) == CHOOSE t \in Pending(q) : \A u \in Pending(q) : u = t \/ Before(t, u)

\* WakeUp of the loops in woken, at their next task's time; nothing is done for
\* one with nothing pending.  Refers to the table the operation leaves.
WakeUp(woken) ==
    wake' = [q \in Queue |-> IF q \in woken /\ Pending(q)' # {} THEN Peek(q)'.time ELSE wake[q]]

-----------------------------------------------------------------------------
(* The operations of the table *)

\* A subsumed queue keeps its tasks; it is the owner's loop that is woken.
RegisterTask(q, grade, time) ==
    /\ order < MaxTask /\ order' = order + 1
    /\ tasks' = tasks \cup {[order |-> order, queue |-> q, grade |-> grade, time |-> time]}
    /\ UNCHANGED <<pauses, ownerOf, subsumedBy, now, loop, ran, changes>>
    /\ WakeUp({IF Merged(q) THEN subsumedBy[q] ELSE q})

Counted == changes < MaxChange /\ changes' = changes + 1

PauseSecondarySource(q) ==
    /\ Counted
    /\ pauses' = [pauses EXCEPT ![q] = @ + 1]
    /\ UNCHANGED <<order, tasks, ownerOf, subsumedBy, wake, now, loop, ran>>

\* Only who has paused resumes.
ResumeSecondarySource(q) ==
    /\ pauses[q] > 0
    /\ pauses' = [pauses EXCEPT ![q] = @ - 1]
    /\ UNCHANGED <<order, tasks, ownerOf, subsumedBy, now, loop, ran, changes>>
    /\ WakeUp({q})

\* Mistake: what the subsumed queue owns is not looked at.
Merge_Chain(owner, subsumed) ==
    /\ owner # subsumed /\ subsumed \notin ownerOf[owner]
    /\ ~Merged(owner) /\ ~Merged(subsumed)
    /\ Counted
    /\ ownerOf' = [ownerOf EXCEPT ![owner] = @ \cup {subsumed}]
    /\ subsumedBy' = [subsumedBy EXCEPT ![subsumed] = owner]
    /\ UNCHANGED <<order, tasks, pauses, now, loop, ran>>
    /\ WakeUp({owner})

\* Merge that changes something; otherwise it only answers.
Merge(owner, subsumed) ==
    /\ owner # subsumed /\ subsumed \notin ownerOf[owner]
    /\ ~Merged(owner) /\ ownerOf[subsumed] = {} /\ ~Merged(subsumed)
    /\ Counted
    /\ ownerOf' = [ownerOf EXCEPT ![owner] = @ \cup {subsumed}]
    /\ subsumedBy' = [subsumedBy EXCEPT ![subsumed] = owner]
    /\ UNCHANGED <<order, tasks, pauses, now, loop, ran>>
    /\ WakeUp({owner})

\* Mistake: the thread that gets its queue back is left asleep.
Unmerge_WakesOwner(owner, subsumed) ==
    /\ ~Merged(owner) /\ Merged(subsumed) /\ subsumed \in ownerOf[owner]
    /\ Counted
    /\ ownerOf' = [ownerOf EXCEPT ![owner] = @ \ {subsumed}]
    /\ subsumedBy' = [subsumedBy EXCEPT ![subsumed] = kUnmerged]
    /\ UNCHANGED <<order, tasks, pauses, now, loop, ran>>
    /\ WakeUp({owner})

Unmerge(owner, subsumed) ==
    /\ ~Merged(owner) /\ Merged(subsumed) /\ subsumed \in ownerOf[owner]
    /\ Counted
    /\ ownerOf' = [ownerOf EXCEPT ![owner] = @ \ {subsumed}]
    /\ subsumedBy' = [subsumedBy EXCEPT ![subsumed] = kUnmerged]
    /\ UNCHANGED <<order, tasks, pauses, now, loop, ran>>
    /\ WakeUp({owner, subsumed})

-----------------------------------------------------------------------------
(* The loop of a thread *)

Go(q, at) == loop' = [loop EXCEPT ![q].at = at]
Sleep(q)  == loop' = [loop EXCEPT ![q] = Polling]

\* OnEventFired: draining the timer disarms it, and FlushTasks reads the clock.
OnEventFired(q) ==
    /\ loop[q].at = "poll" /\ wake[q] <= now
    /\ wake' = [wake EXCEPT ![q] = Never]
    /\ loop' = [loop EXCEPT ![q] = [at |-> "flush", from |-> now]]
    /\ UNCHANGED <<table, now, ran, changes>>

\* GetNextTaskToRun with nothing to hand out ends the flush.  The timer is left
\* as it is if nothing is pending at all; otherwise the loop sleeps until its
\* first task is due.
NothingPending(q) ==
    /\ loop[q].at = "flush" /\ Pending(q) = {}
    /\ Sleep(q)
    /\ UNCHANGED <<table, wake, now, ran, changes>>

\* Mistake: the flush ends without setting the timer again.
NothingDue_Disarmed(q) ==
    /\ loop[q].at = "flush" /\ Pending(q) # {} /\ Peek(q).time > loop[q].from
    /\ Sleep(q)
    /\ UNCHANGED <<table, wake, now, ran, changes>>

NothingDue(q) ==
    /\ loop[q].at = "flush" /\ Pending(q) # {} /\ Peek(q).time > loop[q].from
    /\ wake' = [wake EXCEPT ![q] = Peek(q).time]
    /\ Sleep(q)
    /\ UNCHANGED <<table, now, ran, changes>>

\* The timer is set to the time of the task that is about to be popped, so that
\* it fires once more at once.
GetNextTaskToRun(q) ==
    /\ loop[q].at = "flush" /\ Pending(q) # {} /\ Peek(q).time <= loop[q].from
    /\ wake' = [wake EXCEPT ![q] = Peek(q).time]
    /\ tasks' = tasks \ {Peek(q)}
    /\ ran' = ran \cup {Peek(q)}
    /\ Go(q, "run")
    /\ UNCHANGED <<order, pauses, ownerOf, subsumedBy, now, changes>>

\* The task and the observers have returned; the flush goes on.
TaskReturns(q) ==
    /\ loop[q].at = "run" /\ Go(q, "flush")
    /\ UNCHANGED <<table, wake, now, ran, changes>>

Tick == now < MaxTime /\ now' = now + 1 /\ UNCHANGED <<table, wake, loop, ran, changes>>

-----------------------------------------------------------------------------
LoopStep(q) ==
    OnEventFired(q) \/ NothingPending(q) \/ NothingDue(q) \/ GetNextTaskToRun(q) \/ TaskReturns(q)

Next ==
    \/ Tick
    \/ \E q \in Queue, time \in Time : RegisterTask(q, "primary", time)
    \/ \E q \in Pausable, time \in Time : RegisterTask(q, "secondary", time)
    \/ \E q \in Pausable : PauseSecondarySource(q) \/ ResumeSecondarySource(q)
    \/ \E pair \in Mergeable : Merge(pair[1], pair[2]) \/ Unmerge(pair[1], pair[2])
    \/ \E q \in Queue : LoopStep(q)

Spec == Init /\ [][Next]_vars

\* The clock runs, threads are scheduled and their tasks return, and who pauses
\* resumes (VsyncWaiter does in the task it posts with the pause).
FairSpec ==
    /\ Spec
    /\ WF_vars(Tick)
    /\ \A q \in Queue : WF_vars(LoopStep(q))
    /\ \A q \in Pausable : WF_vars(ResumeSecondarySource(q))

-----------------------------------------------------------------------------
(* A thread that sleeps will wake no later than the first task it has to    *)
(* run, its own or that of a queue it subsumes, however tasks, pauses,      *)
(* merges and unmerges raced with its last flush.                           *)
NoLostWakeup ==
    \A q \in Queue : loop[q].at = "poll" => \A t \in Pending(q) : wake[q] <= t.time

(* The two sides of a merge agree and merges do not chain: a queue is in    *)
(* the set of its owner and of nobody else, and an owner is not subsumed    *)
(* (the three states message_loop_task_queues.h lists).  Otherwise a task   *)
(* could belong to two threads, or to none.                                 *)
MergesAgree ==
    /\ \A o, s \in Queue : s \in ownerOf[o] <=> subsumedBy[s] = o
    /\ \A q \in Queue : Merged(q) => ownerOf[q] = {}

(* Tasks posted to one queue in one grade are handed out in the order of    *)
(* their target times, and of registration for equal ones, even if the      *)
(* queue changes threads between them; none before its time.                *)
InPostedOrder ==
    /\ \A t \in tasks, u \in ran :
          t.queue = u.queue /\ t.grade = u.grade /\ t.order < u.order => u.time < t.time
    /\ \A u \in ran : u.time <= now

(* A registered task is run: no merge, unmerge or pause loses it.           *)
TasksRun ==
    \A i \in 0..MaxTask - 1 : (\E t \in tasks : t.order = i) ~> (\E t \in ran : t.order = i)
=============================================================================
