------------------------- MODULE AppServicesProofs -------------------------
(* Theorems of AppServices for any number of jobs, images and pending calls. *)
EXTENDS AppServices, TLAPS

Stage  == {"idle", "copy", "delete", "write", "remove", "erase"}
JobRec == [at : Stage, new : Image \cup {None}, old : Image \cup {None}]

\* The steps of the background leave the settings alone, and the other way round.
BackgroundTyped ==
    /\ key \in Image \cup {None} /\ path \in Image \cup {None} /\ images \subseteq Image
    /\ job \in [Job -> JobRec] /\ writes \in Seq(Job) /\ doubtful \in BOOLEAN

\* A copy under way has the image it copies to.
CopiesInv == \A j \in Job : job[j].at = "copy" => job[j].new \in Image

SettingsTyped ==
    /\ running \in BOOLEAN /\ prefs \in BOOLEAN /\ mode \in BOOLEAN
    /\ disk \in [Setting -> BOOLEAN] /\ cache \in [Setting -> BOOLEAN]
    /\ shown \in [Setting -> BOOLEAN] /\ screen \in {"closed", "loading", "shown"}
    /\ unsure \subseteq Setting /\ calls \in Seq(Pending)

LEMMA TypeParts == TypeOK <=> BackgroundTyped /\ SettingsTyped
BY DEF TypeOK, BackgroundTyped, SettingsTyped, JobRec, Stage

LEMMA BackgroundTypingStep ==
    ASSUME BackgroundTyped, CopiesInv, BackgroundStep
    PROVE  BackgroundTyped' /\ CopiesInv'
<1> USE DEF BackgroundTyped, CopiesInv
<1>0. /\ Idle \in JobRec
      /\ \A r \in JobRec : /\ [r EXCEPT !.at = "write"] \in JobRec /\ [r EXCEPT !.at = "erase"] \in JobRec
                           /\ r.new \in Image \cup {None}
      /\ \A r \in JobRec, o \in Image \cup {None} : [r EXCEPT !.at = "delete", !.old = o] \in JobRec
      /\ \A i \in Image : [at |-> "copy", new |-> i, old |-> None] \in JobRec
      /\ [at |-> "remove", new |-> None, old |-> path] \in JobRec
  BY DEF JobRec, Stage, Idle
<1>1. ASSUME NEW j \in Job, SelectBackground(j) PROVE BackgroundTyped' /\ CopiesInv'
  BY <1>0, <1>1 DEF SelectBackground, Fresh
<1>2. ASSUME NEW j \in Job, Copied(j) PROVE BackgroundTyped' /\ CopiesInv'
  <2>1. \/ job' = [job EXCEPT ![j] = [job[j] EXCEPT !.at = "delete", !.old = path]]
        \/ job' = [job EXCEPT ![j] = Idle]
    BY <1>2 DEF Copied
  <2>2. job[j].new \in Image /\ images' \in {images, images \cup {job[j].new}}
    BY <1>2 DEF Copied
  <2>3. /\ job[j] \in JobRec /\ [job[j] EXCEPT !.at = "delete", !.old = path].at = "delete"
        /\ Idle.at = "idle"
    BY DEF JobRec, Idle
  <2>4. UNCHANGED <<key, path, writes, doubtful>>
    BY <1>2 DEF Copied
  <2>5. [job[j] EXCEPT !.at = "delete", !.old = path] \in JobRec
    BY <1>0, <2>3
  <2>6. PICK r \in JobRec : job' = [job EXCEPT ![j] = r] /\ r.at # "copy"
    BY <1>0, <2>1, <2>3, <2>5
  <2> QED BY <2>2, <2>4, <2>6
<1>3. ASSUME NEW j \in Job, SetBackground(j) \/ RemovedFile(j) PROVE BackgroundTyped' /\ CopiesInv'
  <2>1. \/ job' = [job EXCEPT ![j] = [job[j] EXCEPT !.at = "write"]]
        \/ job' = [job EXCEPT ![j] = [job[j] EXCEPT !.at = "erase"]]
    BY <1>3 DEF SetBackground, RemovedFile, DeletedOld, Go
  <2>2. /\ job[j] \in JobRec
        /\ [job[j] EXCEPT !.at = "write"].at = "write" /\ [job[j] EXCEPT !.at = "erase"].at = "erase"
    BY DEF JobRec
  <2>3. job' \in [Job -> JobRec] /\ CopiesInv'
    <3>1. PICK r \in JobRec : job' = [job EXCEPT ![j] = r] /\ r.at # "copy"
      BY <1>0, <2>1, <2>2
    <3> QED BY <3>1
  <2>4. writes' \in Seq(Job) /\ images' \subseteq Image /\ UNCHANGED <<key, path, doubtful>>
    BY <1>3 DEF SetBackground, RemovedFile, DeletedOld
  <2> QED BY <2>3, <2>4
<1>4. ASSUME NEW j \in Job, ClearBackground(j) PROVE BackgroundTyped' /\ CopiesInv'
  BY <1>0, <1>4 DEF ClearBackground
<1>5. ASSUME Written \/ NotWritten PROVE BackgroundTyped' /\ CopiesInv'
  <2>1. Head(writes) \in Job /\ writes' \in Seq(Job)
    <3>1. writes # <<>> /\ writes' = Tail(writes)
      BY <1>5 DEF Written, NotWritten
    <3> QED BY <3>1
  <2>2. job' = [job EXCEPT ![Head(writes)] = Idle] /\ images' = images
    BY <1>5 DEF Written, NotWritten
  <2>3. job[Head(writes)].new \in Image \cup {None}
    BY <1>0, <2>1
  <2>4. /\ key' \in {key, job[Head(writes)].new} /\ path' \in {path, job[Head(writes)].new}
        /\ doubtful' \in BOOLEAN
    BY <1>5 DEF Written, NotWritten
  <2>5. Idle.at = "idle"
    BY DEF Idle
  <2>6. job' \in [Job -> JobRec] /\ CopiesInv'
    BY <1>0, <2>1, <2>2, <2>5
  <2> QED BY <2>1, <2>2, <2>3, <2>4, <2>6
<1> QED BY <1>1, <1>2, <1>3, <1>4, <1>5 DEF BackgroundStep

LEMMA SettingsTypingStep ==
    ASSUME SettingsTyped, SettingsStep PROVE SettingsTyped'
<1> USE DEF SettingsTyped, preferences
<1>1. CASE Open
  BY <1>1 DEF Open
<1>2. CASE LoadSettings
  BY <1>2 DEF LoadSettings, GetsPrefs
<1>3. CASE Close
  <2>1. calls' = [n \in 1 .. Len(calls) |-> [calls[n] EXCEPT !.live = FALSE]]
    BY <1>3 DEF Close
  <2>2. \A n \in 1 .. Len(calls) : [calls[n] EXCEPT !.live = FALSE] \in Pending
    <3>1. \A c \in Pending : [c EXCEPT !.live = FALSE] \in Pending
      BY DEF Pending
    <3>2. \A n \in 1 .. Len(calls) : calls[n] \in Pending
      OBVIOUS
    <3> QED BY <3>1, <3>2
  <2>3. calls' \in Seq(Pending)
    BY <2>1, <2>2
  <2> QED BY <1>3, <2>3 DEF Close
<1>4. ASSUME NEW s \in Setting, NEW v \in BOOLEAN, NEW by \in {"switch", "time", "reset"},
             Put(s, v, by)
      PROVE  cache' \in [Setting -> BOOLEAN] /\ calls' \in Seq(Pending)
  BY <1>4 DEF Put, Pending
<1>5. CASE Reset
  BY <1>4, <1>5 DEF Reset, Setting
<1>6. ASSUME NEW s \in Switch, FlipSwitch(s) PROVE SettingsTyped'
  BY <1>4, <1>6 DEF FlipSwitch, Setting, Switch
<1>7. ASSUME NEW v \in BOOLEAN, ChooseTime(v) PROVE SettingsTyped'
  BY <1>4, <1>7 DEF ChooseTime, Setting
<1>8. CASE Stored
  <2> DEFINE c == Head(calls)
  <2>1. /\ c \in Pending /\ Tail(calls) \in Seq(Pending)
        /\ disk' = [disk EXCEPT ![c.set] = c.to] /\ unsure' \in {Setting, unsure \ {c.set}}
        /\ UNCHANGED <<running, prefs, screen>>
    BY <1>8 DEF Stored
  <2> HIDE DEF c
  <2>2. CASE c.set # "autoLock" /\ Remove(c)
    <3>1. After(c.set) \in Setting
      BY <2>1, <2>2 DEF After, Setting, Pending
    <3>2. [c EXCEPT !.set = After(c.set)] \in Pending
      BY <2>1, <3>1 DEF Pending
    <3> QED BY <2>1, <2>2, <3>1, <3>2 DEF Remove, Pending
  <2>3. CASE Finish(c)
    BY <2>1, <2>3 DEF Finish, Pending
  <2> QED BY <1>8, <2>2, <2>3 DEF Stored, c
<1>9. CASE NotStored
  <2>1. Head(calls) \in Pending /\ Tail(calls) \in Seq(Pending)
    BY <1>9 DEF NotStored
  <2> QED BY <1>9, <2>1 DEF NotStored, Pending
<1> QED BY <1>1, <1>2, <1>3, <1>5, <1>6, <1>7, <1>8, <1>9 DEF SettingsStep

LEMMA SettingsFrame   == SettingsStep => UNCHANGED <<running, background>>
BY DEF SettingsStep, Open, LoadSettings, Close, Reset, Stored, NotStored, FlipSwitch, ChooseTime

LEMMA BackgroundFrame == BackgroundStep => UNCHANGED <<running, settings>>
BY DEF BackgroundStep, SelectBackground, Copied, SetBackground, RemovedFile, DeletedOld,
       ClearBackground, Written, NotWritten

LEMMA TypingStep == TypeOK /\ CopiesInv /\ [Next]_vars => TypeOK' /\ CopiesInv'
<1> SUFFICES ASSUME BackgroundTyped, SettingsTyped, CopiesInv, [Next]_vars
             PROVE  BackgroundTyped' /\ SettingsTyped' /\ CopiesInv'
  BY TypeParts DEF TypeOK, BackgroundTyped, SettingsTyped, JobRec, Stage
<1>1. CASE SettingsStep
  BY <1>1, SettingsTypingStep, SettingsFrame DEF background, BackgroundTyped, CopiesInv
<1>2. CASE BackgroundStep
  BY <1>2, BackgroundTypingStep, BackgroundFrame DEF settings, preferences, SettingsTyped
<1>3. CASE Main
  BY <1>3 DEF Main, GetsPrefs, GetsNoPrefs, background, BackgroundTyped, SettingsTyped, Setting, CopiesInv
<1>4. CASE Kill
  <2>1. /\ SettingsTyped' /\ images' = images /\ key' = key /\ path' = None /\ doubtful' = FALSE
        /\ job' = [j \in Job |-> Idle] /\ writes' = <<>>
    <3>1. <<>> \in Seq(Pending)
      OBVIOUS
    <3>2. Default \in [Setting -> BOOLEAN]
      BY DEF Default
    <3> QED BY <1>4, <3>1, <3>2 DEF Kill, SettingsTyped
  <2>2. Idle \in JobRec /\ Idle.at = "idle"
    BY DEF Idle, JobRec, Stage
  <2>3. <<>> \in Seq(Job)
    OBVIOUS
  <2> QED BY <2>1, <2>2, <2>3 DEF BackgroundTyped, CopiesInv
<1>5. CASE UNCHANGED vars
  BY <1>5 DEF vars, settings, preferences, background, BackgroundTyped, SettingsTyped, CopiesInv
<1> QED BY <1>1, <1>2, <1>3, <1>4, <1>5 DEF Next

\* Every variable keeps its type, for any bound on the calls under way.
THEOREM AppTyping == Spec => []TypeOK
<1>1. Init => TypeOK /\ CopiesInv
  <2> SUFFICES ASSUME Init PROVE SettingsTyped /\ BackgroundTyped /\ CopiesInv
    BY TypeParts
  <2>1. Idle \in JobRec /\ Idle.at = "idle"
    BY DEF Idle, JobRec, Stage
  <2>2. SettingsTyped
    <3>1. <<>> \in Seq(Pending) /\ Default \in [Setting -> BOOLEAN]
      BY DEF Default
    <3> QED BY <3>1 DEF Init, SettingsTyped
  <2>3. <<>> \in Seq(Job)
    OBVIOUS
  <2> QED BY <2>1, <2>2, <2>3 DEF Init, BackgroundTyped, CopiesInv
<1> QED BY <1>1, TypingStep, PTL DEF Spec

-----------------------------------------------------------------------------
(* The background: the image of a path that is still to be stored belongs to  *)
(* one job, and the image of the stored path is there or its replacement is   *)
(* already on its way to the storage.                                         *)

OwnImages ==
    \A j, k \in Job : job[j].new # None =>
        /\ job[j].new # path /\ job[j].new # job[k].old
        /\ j # k => job[j].new # job[k].new
        /\ job[j].at \in {"delete", "write"} => job[j].new \in images

WritesInv ==
    /\ \A n \in 1 .. Len(writes) : job[writes[n]].at \in {"write", "erase"}
    /\ \A m, n \in 1 .. Len(writes) : m # n => writes[m] # writes[n]
    /\ \A j \in Job : job[j].at \in {"remove", "erase", "idle"} => job[j].new = None

ImageInv ==
    ~doubtful /\ path # None =>
        /\ key = path
        /\ path \in images \/ \E j \in Job : job[j].at \in {"write", "erase"} /\ job[j].old = path

BackgroundInv == OwnImages /\ WritesInv /\ ImageInv

LEMMA BackgroundStepInv ==
    ASSUME BackgroundTyped, BackgroundInv, BackgroundStep PROVE BackgroundInv'
<1> USE DEF BackgroundTyped, BackgroundInv, OwnImages, WritesInv, ImageInv, JobRec, Go, Idle
<1>1. ASSUME NEW j \in Job, SelectBackground(j) PROVE BackgroundInv'
  <2>1. PICK i \in Fresh : job' = [job EXCEPT ![j] = [at |-> "copy", new |-> i, old |-> None]]
    BY <1>1 DEF SelectBackground
  <2>2. /\ i \in Image /\ i # path /\ i # None
        /\ \A k \in Job : i # job[k].new /\ i # job[k].old
    BY NoneAssumption DEF Fresh
  <2> QED BY <1>1, <2>1, <2>2 DEF SelectBackground
<1>2. ASSUME NEW j \in Job, Copied(j) PROVE BackgroundInv'
  <2>1. \A k \in Job \ {j} : job'[k] = job[k]
    BY <1>2 DEF Copied
  <2>2. UNCHANGED <<key, path, writes, doubtful>> /\ images \subseteq images' /\ job[j].at = "copy"
    BY <1>2 DEF Copied
  <2>3. \/ job'[j].at = "delete" /\ job'[j].new = job[j].new /\ job'[j].old = path /\ job[j].new \in images'
        \/ job'[j].at = "idle" /\ job'[j].new = None /\ job'[j].old = None
    BY <1>2 DEF Copied
  <2>4. OwnImages'
    BY <2>1, <2>2, <2>3
  <2>5. WritesInv'
    <3>1. \A n \in 1 .. Len(writes) : writes[n] \in Job /\ writes[n] # j
      BY <2>2
    <3> QED BY <2>1, <2>2, <2>3, <3>1
  <2>6. ImageInv'
    BY <2>1, <2>2
  <2> QED BY <2>4, <2>5, <2>6
<1>3. ASSUME NEW j \in Job, SetBackground(j) \/ RemovedFile(j) PROVE BackgroundInv'
  <2>1. /\ job[j].at \in {"delete", "remove"} /\ UNCHANGED <<key, path, doubtful>>
        /\ job' \in {[job EXCEPT ![j].at = "write"], [job EXCEPT ![j].at = "erase"]}
        /\ job[j].at = "delete" => job' = [job EXCEPT ![j].at = "write"]
        /\ job[j].at = "remove" => job' = [job EXCEPT ![j].at = "erase"]
        /\ images' \in {images, images \ {job[j].old}} /\ writes' = Append(writes, j)
    BY <1>3 DEF SetBackground, RemovedFile, DeletedOld
  <2>2. OwnImages'
    BY <2>1
  <2>3. WritesInv'
    <3>1. /\ Len(writes') = Len(writes) + 1 /\ writes'[Len(writes) + 1] = j
          /\ \A n \in 1 .. Len(writes) : writes'[n] = writes[n] /\ writes[n] \in Job /\ writes[n] # j
      BY <2>1
    <3>2. job'[j].at \in {"write", "erase"} /\ \A k \in Job \ {j} : job'[k] = job[k]
      BY <2>1
    <3>3. job'[j].new = job[j].new /\ (job'[j].at = "erase" => job[j].at = "remove")
      BY <2>1
    <3>4. Len(writes) \in Nat
      OBVIOUS
    <3>5. \A n \in 1 .. Len(writes') : job'[writes'[n]].at \in {"write", "erase"}
      BY <3>1, <3>2, <3>4
    <3>6. \A m, n \in 1 .. Len(writes') : m # n => writes'[m] # writes'[n]
      BY <3>1, <3>4
    <3>7. \A k \in Job : job'[k].at \in {"remove", "erase", "idle"} => job'[k].new = None
      BY <3>2, <3>3
    <3> QED BY <3>5, <3>6, <3>7
  <2>4. ImageInv'
    BY <2>1
  <2> QED BY <2>2, <2>3, <2>4
<1>4. ASSUME NEW j \in Job, ClearBackground(j) PROVE BackgroundInv'
  BY <1>4, NoneAssumption DEF ClearBackground
<1>5. ASSUME Written \/ NotWritten PROVE BackgroundInv'
  <2> DEFINE j == Head(writes)
  <2>1. /\ j \in Job /\ job' = [job EXCEPT ![j] = Idle] /\ job[j].at \in {"write", "erase"}
        /\ writes' = Tail(writes) /\ images' = images /\ Len(writes) > 0
    BY <1>5 DEF Written, NotWritten
  <2>2. \/ doubtful' = TRUE /\ path' = path
        \/ doubtful' = FALSE /\ path' = job[j].new /\ key' = job[j].new
    BY <1>5 DEF Written, NotWritten
  <2>3. \A n \in 1 .. Len(writes') : writes'[n] = writes[n + 1] /\ writes[n + 1] # j /\ writes[n + 1] \in Job
    BY <2>1
  <2>4. Len(writes') = Len(writes) - 1
    BY <2>1
  <2> HIDE DEF j
  <2>5. OwnImages'
    BY <2>1, <2>2
  <2>6. WritesInv'
    <3>1. Len(writes) \in Nat
      OBVIOUS
    <3>2. \A n \in 1 .. Len(writes') : n \in 1 .. Len(writes) /\ n + 1 \in 1 .. Len(writes)
      BY <2>4, <3>1
    <3>3. \A k \in Job : k # j => job'[k] = job[k]
      BY <2>1
    <3>4. \A n \in 1 .. Len(writes') : job'[writes'[n]].at \in {"write", "erase"}
      <4> TAKE n \in 1 .. Len(writes')
      <4>1. writes'[n] = writes[n + 1] /\ n + 1 \in 1 .. Len(writes)
        BY <2>3, <3>2
      <4>2. job'[writes[n + 1]] = job[writes[n + 1]]
        BY <2>3, <3>3
      <4> QED BY <4>1, <4>2
    <3>5. \A m, n \in 1 .. Len(writes') : m # n => writes'[m] # writes'[n]
      <4> TAKE m, n \in 1 .. Len(writes')
      <4>1. /\ writes'[m] = writes[m + 1] /\ writes'[n] = writes[n + 1]
            /\ m + 1 \in 1 .. Len(writes) /\ n + 1 \in 1 .. Len(writes)
        BY <2>3, <3>2
      <4>2. m # n => m + 1 # n + 1
        BY <2>4, <3>1
      <4> QED BY <4>1, <4>2
    <3>6. \A k \in Job : job'[k].at \in {"remove", "erase", "idle"} => job'[k].new = None
      BY <2>1, <3>3
    <3> QED BY <3>4, <3>5, <3>6
  <2>7. ImageInv'
    BY <2>1, <2>2
  <2> QED BY <2>5, <2>6, <2>7
<1> QED BY <1>1, <1>2, <1>3, <1>4, <1>5 DEF BackgroundStep

LEMMA BackgroundHolds == Spec => []BackgroundInv
<1>1. Init => BackgroundInv
  BY DEF Init, Idle, BackgroundInv, OwnImages, WritesInv, ImageInv
<1>2. TypeOK /\ BackgroundInv /\ [Next]_vars => BackgroundInv'
  <2> SUFFICES ASSUME BackgroundTyped, BackgroundInv, [Next]_vars PROVE BackgroundInv'
    BY TypeParts
  <2>1. CASE BackgroundStep
    BY <2>1, BackgroundStepInv
  <2>2. CASE Kill
    BY <2>2 DEF Kill, Idle, BackgroundInv, OwnImages, WritesInv, ImageInv
  <2>3. CASE UNCHANGED background
    BY <2>3 DEF background, BackgroundInv, OwnImages, WritesInv, ImageInv
  <2> QED BY <2>1, <2>2, <2>3, SettingsFrame DEF Next, Main, vars
<1> QED BY <1>1, <1>2, AppTyping, PTL DEF Spec

\* Once no call is under way, the background on screen is the stored one and its
\* image exists, for any number of overlapping calls, failed deletes and restarts.
THEOREM BackgroundIsSound == Spec => []BackgroundAgrees
<1>1. BackgroundInv => BackgroundAgrees
  BY DEF BackgroundInv, ImageInv, BackgroundAgrees
<1> QED BY <1>1, BackgroundHolds, PTL


-----------------------------------------------------------------------------
(* The settings.  The calls are answered in order, so the last one under way  *)
(* on a setting is what the preferences in memory hold and the disk will; the *)
(* screen either shows it already or has a continuation that will show it.    *)

LastOf(s, n) ==
    /\ n \in 1 .. Len(calls) /\ calls[n].set = s
    /\ \A m \in 1 .. Len(calls) : m > n => calls[m].set # s
Free(s) == \A n \in 1 .. Len(calls) : calls[n].set # s
NoReset == \A n \in 1 .. Len(calls) : calls[n].by # "reset"

\* A call whose screen has gone is older than those of the screen that followed, but
\* for the removals a reset goes on to make.
Kinds(c) ==
    /\ c.by = "time" => c.set = "autoLock"
    /\ c.by = "switch" => c.set \in Switch
    /\ c.by = "reset" => c.to = TRUE

CallsInv ==
    /\ screen = "shown" \/ calls # <<>> => prefs
    /\ \A n \in 1 .. Len(calls) : Kinds(calls[n])
    /\ \A m, n \in 1 .. Len(calls) :
         m < n /\ calls[m].live /\ calls[n].by # "reset" => calls[n].live

\* Nothing but its own continuation will change what a screen shows once it is read
\* again after the call, or is changed at once as a time is.
LastShown(s, n) ==
    screen = "shown" /\ calls[n].by # "reset" /\ (~calls[n].live \/ calls[n].by = "time")
        => shown[s] = cache[s]

AgreeInv ==
    \A s \in Setting :
        /\ \A n \in 1 .. Len(calls) : LastOf(s, n) => cache[s] = calls[n].to /\ LastShown(s, n)
        /\ Free(s) /\ s \notin unsure /\ prefs => cache[s] = disk[s]
        /\ Free(s) /\ s \notin unsure /\ NoReset /\ screen = "shown" => shown[s] = cache[s]

\* The oldest call is answered.
LEMMA Answered ==
    ASSUME SettingsTyped, calls # <<>>, calls' = Tail(calls)
    PROVE  /\ \A n \in 1 .. Len(calls') : n + 1 \in 1 .. Len(calls) /\ calls'[n] = calls[n + 1]
           /\ 1 \in 1 .. Len(calls) /\ Head(calls) = calls[1] /\ Head(calls) \in Pending
           /\ \A s \in Setting, n \in 1 .. Len(calls') : LastOf(s, n)' => LastOf(s, n + 1)
           /\ \A s \in Setting : Free(s)' => Free(s) \/ LastOf(s, 1)
           /\ NoReset' /\ Head(calls).by # "reset" => NoReset
<1>1. /\ Len(calls) \in Nat /\ Len(calls) > 0 /\ Len(calls') = Len(calls) - 1
      /\ \A n \in 1 .. Len(calls') : calls'[n] = calls[n + 1]
      /\ Head(calls) = calls[1] /\ Head(calls) \in Pending
  BY DEF SettingsTyped
<1>2. \A n \in 1 .. Len(calls) : n = 1 \/ (n - 1 \in 1 .. Len(calls') /\ calls'[n - 1] = calls[n])
  BY <1>1
<1>3. \A n \in 1 .. Len(calls') : n + 1 \in 1 .. Len(calls) /\ calls'[n] = calls[n + 1]
  BY <1>1
<1>4. ASSUME NEW s \in Setting, NEW n \in 1 .. Len(calls'), LastOf(s, n)' PROVE LastOf(s, n + 1)
  <2>1. ASSUME NEW m \in 1 .. Len(calls), m > n + 1 PROVE calls[m].set # s
    <3>1. m - 1 \in 1 .. Len(calls') /\ calls'[m - 1] = calls[m] /\ m - 1 > n
      BY <1>1, <1>2, <2>1
    <3>. QED  BY <1>4, <3>1 DEF LastOf
  <2>. QED  BY <1>3, <1>4, <2>1 DEF LastOf
<1>5. ASSUME NEW s \in Setting, Free(s)' PROVE Free(s) \/ LastOf(s, 1)
  <2>1. ASSUME NEW n \in 1 .. Len(calls), n > 1 PROVE calls[n].set # s
    <3>1. n - 1 \in 1 .. Len(calls') /\ calls'[n - 1] = calls[n]
      BY <1>1, <1>2, <2>1
    <3>. QED  BY <1>5, <3>1 DEF Free
  <2>2. \A n \in 1 .. Len(calls) : n = 1 \/ n > 1
    BY <1>1
  <2>3. 1 \in 1 .. Len(calls)
    BY <1>1
  <2>. QED  BY <2>1, <2>2, <2>3 DEF Free, LastOf
<1>6. ASSUME NoReset', Head(calls).by # "reset" PROVE NoReset
  BY <1>1, <1>2, <1>6 DEF NoReset
<1>. QED  BY <1>1, <1>3, <1>4, <1>5, <1>6

LEMMA PutAgrees ==
    ASSUME SettingsTyped, CallsInv, AgreeInv, NEW s \in Setting, NEW v \in BOOLEAN,
           NEW by \in {"switch", "time", "reset"}, Put(s, v, by), prefs,
           UNCHANGED <<prefs, disk, screen, unsure>>,
           by = "time" => s = "autoLock" /\ shown' = [shown EXCEPT ![s] = v],
           by # "time" => shown' = shown,
           by = "switch" => s \in Switch, by = "reset" => v = TRUE
    PROVE  CallsInv' /\ AgreeInv'
<1>. USE DEF SettingsTyped
<1>1. /\ Len(calls) \in Nat /\ Len(calls') = Len(calls) + 1
      /\ \A n \in 1 .. Len(calls) : calls'[n] = calls[n]
      /\ calls'[Len(calls) + 1] = [set |-> s, to |-> v, by |-> by, live |-> TRUE]
      /\ cache' = [cache EXCEPT ![s] = v]
  BY DEF Put
<1>2. \A n \in 1 .. Len(calls') : n \in 1 .. Len(calls) \/ n = Len(calls) + 1
  BY <1>1
<1>3. CallsInv'
  <2>1. \A n \in 1 .. Len(calls') : Kinds(calls'[n])
    BY <1>1, <1>2 DEF CallsInv, Kinds
  <2>2. ASSUME NEW m \in 1 .. Len(calls'), NEW n \in 1 .. Len(calls'), m < n, calls'[m].live,
               calls'[n].by # "reset"
        PROVE  calls'[n].live
    <3>1. m \in 1 .. Len(calls) /\ (n \in 1 .. Len(calls) \/ n = Len(calls) + 1)
      BY <1>1, <2>2
    <3>. QED  BY <1>1, <2>2, <3>1 DEF CallsInv
  <2>. QED  BY <2>1, <2>2 DEF CallsInv
<1>4. /\ ~Free(s)' /\ \A n \in 1 .. Len(calls') : LastOf(s, n)' => n = Len(calls) + 1
      /\ \A t \in Setting \ {s} : /\ Free(t)' => Free(t)
                                  /\ \A n \in 1 .. Len(calls') : LastOf(t, n)' => LastOf(t, n) /\ n # Len(calls) + 1
      /\ NoReset' => NoReset
  BY <1>1, <1>2 DEF Free, LastOf, NoReset
<1>5. AgreeInv'
  BY <1>1, <1>2, <1>4 DEF AgreeInv, LastShown
<1>. QED  BY <1>3, <1>5

LEMMA CloseAgrees == SettingsTyped /\ CallsInv /\ AgreeInv /\ Close => CallsInv' /\ AgreeInv'
<1>. SUFFICES ASSUME SettingsTyped, CallsInv, AgreeInv, Close PROVE CallsInv' /\ AgreeInv'
  OBVIOUS
<1>1. /\ Len(calls) \in Nat /\ Len(calls') = Len(calls) /\ \A n \in 1 .. Len(calls) : calls[n] \in Pending
      /\ \A n \in 1 .. Len(calls) : calls'[n] = [calls[n] EXCEPT !.live = FALSE]
  <2>1. calls' = [n \in 1 .. Len(calls) |-> [calls[n] EXCEPT !.live = FALSE]]
    BY DEF Close, SettingsTyped
  <2>2. \A n \in 1 .. Len(calls) : calls[n] \in Pending
    BY DEF SettingsTyped
  <2>3. \A c \in Pending : [c EXCEPT !.live = FALSE] \in Pending
    BY DEF Pending
  <2>. QED  BY <2>1, <2>2 DEF SettingsTyped
<1>2. /\ \A n \in 1 .. Len(calls) : /\ calls'[n].set = calls[n].set /\ calls'[n].by = calls[n].by
                                    /\ calls'[n].to = calls[n].to /\ calls'[n].live = FALSE
      /\ UNCHANGED <<prefs, disk, cache, unsure>> /\ screen' = "closed"
  BY <1>1 DEF Close, Pending
<1>3. calls' # <<>> => calls # <<>>
  BY <1>1 DEF SettingsTyped
<1>4. CallsInv'
  BY <1>1, <1>2, <1>3 DEF CallsInv, Kinds
<1>5. \A s \in Setting : (Free(s)' => Free(s)) /\ \A n \in 1 .. Len(calls) : LastOf(s, n)' => LastOf(s, n)
  BY <1>1, <1>2 DEF Free, LastOf
<1>. QED  BY <1>1, <1>2, <1>4, <1>5 DEF AgreeInv, LastShown

LEMMA RemoveAgrees ==
    ASSUME SettingsTyped, CallsInv, AgreeInv, Stored, Head(calls).by = "reset", Head(calls).set # "autoLock"
    PROVE  CallsInv' /\ AgreeInv'
<1>. DEFINE c == Head(calls)
<1>1. /\ calls # <<>> /\ c \in Pending /\ c = calls[1] /\ Len(calls) \in Nat /\ Len(calls) > 0
      /\ disk' = [disk EXCEPT ![c.set] = c.to] /\ unsure' \in {Setting, unsure \ {c.set}}
      /\ UNCHANGED <<prefs, screen, shown>> /\ Remove(c)
  <2>1. calls # <<>> /\ calls \in Seq(Pending)
    BY DEF Stored, SettingsTyped
  <2>2. c \in Pending /\ c = calls[1] /\ Len(calls) \in Nat /\ Len(calls) > 0
    BY <2>1
  <2>3. UNCHANGED <<prefs, screen, shown>> /\ Remove(c)
    BY DEF Stored, Remove
  <2>4. disk' = [disk EXCEPT ![c.set] = c.to] /\ unsure' \in {Setting, unsure \ {c.set}}
    BY DEF Stored
  <2>. QED  BY <2>1, <2>2, <2>3, <2>4
<1>2. PICK t \in Setting : t = After(c.set) /\ t # c.set /\ c.to = TRUE
  <2>1. c.set \in Setting /\ c.set # "autoLock" /\ Kinds(c)
    BY <1>1 DEF Pending, CallsInv
  <2>. QED  BY <2>1 DEF After, Setting, Kinds
<1>3. /\ calls # <<>> /\ disk' = [disk EXCEPT ![c.set] = c.to] /\ unsure' \in {Setting, unsure \ {c.set}}
      /\ UNCHANGED <<prefs, screen, shown>>
      /\ cache' = [cache EXCEPT ![t] = TRUE] /\ calls' = Append(Tail(calls), [c EXCEPT !.set = t])
  BY <1>1, <1>2 DEF Remove
<1>4. /\ Len(calls) \in Nat /\ Len(calls) > 0 /\ Len(calls') = Len(calls) /\ c = calls[1] /\ c \in Pending
      /\ \A n \in 1 .. Len(calls) - 1 : calls'[n] = calls[n + 1]
      /\ calls'[Len(calls)] = [c EXCEPT !.set = t]
  <2>1. [c EXCEPT !.set = t] \in Pending
    BY <1>1 DEF Pending
  <2>. QED  BY <1>1, <1>3, <2>1 DEF SettingsTyped
<1>. HIDE DEF c
<1>5. /\ calls'[Len(calls)].set = t /\ calls'[Len(calls)].by = "reset"
      /\ calls'[Len(calls)].to = TRUE /\ calls'[Len(calls)].live = c.live
  BY <1>4, <1>2 DEF Pending, c
<1>6. Len(calls) \in 1 .. Len(calls')
  BY <1>4
<1>7. \A n \in 1 .. Len(calls') : n = Len(calls) \/ (n \in 1 .. Len(calls) - 1 /\ n + 1 \in 1 .. Len(calls))
  BY <1>4
<1>8. \A n \in 1 .. Len(calls) : n = 1 \/ (n - 1 \in 1 .. Len(calls) - 1 /\ calls'[n - 1] = calls[n])
  BY <1>4
<1>9. CallsInv'
  <2>1. \A n \in 1 .. Len(calls') : Kinds(calls'[n])
    <3>1. Kinds(calls'[Len(calls)])
      BY <1>5 DEF Kinds
    <3>2. \A n \in 1 .. Len(calls) - 1 : Kinds(calls'[n])
      BY <1>4, <1>7 DEF CallsInv
    <3>. QED  BY <1>7, <3>1, <3>2
  <2>2. ASSUME NEW m \in 1 .. Len(calls'), NEW n \in 1 .. Len(calls'), m < n, calls'[m].live,
               calls'[n].by # "reset"
        PROVE  calls'[n].live
    <3>1. n \in 1 .. Len(calls) - 1 /\ n + 1 \in 1 .. Len(calls)
      BY <1>5, <1>7, <2>2
    <3>2. m \in 1 .. Len(calls) - 1 /\ m + 1 \in 1 .. Len(calls) /\ m + 1 < n + 1
      BY <1>4, <2>2, <3>1
    <3>. QED  BY <1>4, <2>2, <3>1, <3>2 DEF CallsInv
  <2>. QED  BY <1>3, <2>1, <2>2 DEF CallsInv
<1>10. ~NoReset' /\ ~Free(t)' /\ \A n \in 1 .. Len(calls') : LastOf(t, n)' => n = Len(calls)
  <2>1. \A n \in 1 .. Len(calls') : n # Len(calls) => Len(calls) > n
    BY <1>4
  <2>2. ~NoReset'
    BY <1>5, <1>6 DEF NoReset
  <2>3. ~Free(t)'
    BY <1>5, <1>6 DEF Free
  <2>. QED  BY <1>5, <1>6, <2>1, <2>2, <2>3 DEF LastOf
<1>11. ASSUME NEW s \in Setting \ {t} 
      PROVE  /\ Free(s)' => Free(s) \/ (LastOf(s, 1) /\ s = c.set)
             /\ \A n \in 1 .. Len(calls') : LastOf(s, n)' =>
                    LastOf(s, n + 1) /\ n \in 1 .. Len(calls) - 1 /\ n + 1 \in 1 .. Len(calls)
  <2>1. Free(s)' => Free(s) \/ (LastOf(s, 1) /\ s = c.set)
    <3>1. ASSUME Free(s)' PROVE \A n \in 1 .. Len(calls) : n > 1 => calls[n].set # s
      <4>1. \A n \in 1 .. Len(calls) : n > 1 => n - 1 \in 1 .. Len(calls') /\ calls'[n - 1] = calls[n]
        BY <1>4, <1>8
      <4>. QED  BY <3>1, <4>1 DEF Free
    <3>2. 1 \in 1 .. Len(calls) /\ \A n \in 1 .. Len(calls) : n = 1 \/ n > 1
      BY <1>4
    <3>. QED  BY <1>4, <3>1, <3>2 DEF Free, LastOf
  <2>2. ASSUME NEW n \in 1 .. Len(calls'), LastOf(s, n)'
        PROVE  LastOf(s, n + 1) /\ n \in 1 .. Len(calls) - 1 /\ n + 1 \in 1 .. Len(calls)
    <3>1. n \in 1 .. Len(calls) - 1 /\ n + 1 \in 1 .. Len(calls) /\ calls[n + 1].set = s
      BY <1>4, <1>5, <1>7, <1>11, <2>2 DEF LastOf
    <3>2. ASSUME NEW m \in 1 .. Len(calls), m > n + 1 PROVE calls[m].set # s
      <4>1. m - 1 \in 1 .. Len(calls') /\ calls'[m - 1] = calls[m] /\ m - 1 > n
        BY <1>4, <1>8, <3>1, <3>2
      <4>. QED  BY <2>2, <4>1 DEF LastOf
    <3>. QED  BY <3>1, <3>2 DEF LastOf
  <2>. QED  BY <2>1, <2>2
<1>12. AgreeInv'
  <2>1. ASSUME NEW n \in 1 .. Len(calls'), LastOf(t, n)'
        PROVE  cache'[t] = calls'[n].to /\ LastShown(t, n)'
    <3>1. n = Len(calls) /\ cache'[t] = TRUE
      BY <1>3, <1>2, <1>10, <2>1 DEF SettingsTyped
    <3>. QED  BY <1>5, <3>1 DEF LastShown
  <2>2. ASSUME NEW s \in Setting \ {t}
        PROVE  /\ \A n \in 1 .. Len(calls') : LastOf(s, n)' => cache'[s] = calls'[n].to /\ LastShown(s, n)'
               /\ Free(s)' /\ s \notin unsure' /\ prefs' => cache'[s] = disk'[s]
    <3>1. cache'[s] = cache[s] /\ shown'[s] = shown[s] /\ disk'[s] = IF s = c.set THEN c.to ELSE disk[s]
      BY <1>3 DEF SettingsTyped
    <3>2. \A n \in 1 .. Len(calls') : LastOf(s, n)' => cache'[s] = calls'[n].to /\ LastShown(s, n)'
      BY <1>3, <1>4, <1>11, <3>1 DEF AgreeInv, LastShown
    <3>3. Free(s)' /\ s \notin unsure' /\ prefs' => cache'[s] = disk'[s]
      BY <1>3, <1>4, <1>11, <3>1 DEF AgreeInv, Free
    <3>. QED  BY <3>2, <3>3
  <2>. QED  BY <1>10, <2>1, <2>2 DEF AgreeInv
<1>. QED  BY <1>9, <1>12

LEMMA FinishAgrees ==
    ASSUME SettingsTyped, CallsInv, AgreeInv, Stored, Finish(Head(calls)),
           Head(calls).by = "reset" /\ ~Head(calls).live => unsure' = Setting,
           Head(calls).by # "reset" \/ Head(calls).live => unsure' = unsure \ {Head(calls).set}
    PROVE  CallsInv' /\ AgreeInv'
<1>. DEFINE c == Head(calls)
<1>1. /\ calls # <<>> /\ disk' = [disk EXCEPT ![c.set] = c.to]
      /\ UNCHANGED <<prefs, screen, cache>> /\ calls' = Tail(calls)
      /\ ~c.live \/ c.by = "time" => shown' = shown
      /\ c.live /\ c.by = "reset" => shown' = cache
      /\ c.live /\ c.by = "switch" => shown' = [shown EXCEPT ![c.set] = c.to]
  BY DEF Stored, Finish
<1>2. /\ \A n \in 1 .. Len(calls') : n + 1 \in 1 .. Len(calls) /\ calls'[n] = calls[n + 1]
      /\ 1 \in 1 .. Len(calls) /\ c = calls[1] /\ c \in Pending
      /\ \A s \in Setting, n \in 1 .. Len(calls') : LastOf(s, n)' => LastOf(s, n + 1)
      /\ \A s \in Setting : Free(s)' => Free(s) \/ LastOf(s, 1)
      /\ NoReset' /\ c.by # "reset" => NoReset
  BY <1>1, Answered
<1>. HIDE DEF c
<1>3. CallsInv'
  <2>1. ASSUME NEW m \in 1 .. Len(calls'), NEW n \in 1 .. Len(calls'), m < n PROVE m + 1 < n + 1
    BY <2>1
  <2>2. prefs'
    BY <1>1 DEF CallsInv
  <2>3. \A n \in 1 .. Len(calls') : Kinds(calls'[n])
    BY <1>2 DEF CallsInv
  <2>4. ASSUME NEW m \in 1 .. Len(calls'), NEW n \in 1 .. Len(calls'), m < n, calls'[m].live,
               calls'[n].by # "reset"
        PROVE  calls'[n].live
    BY <1>2, <2>1, <2>4 DEF CallsInv
  <2>. QED  BY <2>2, <2>3, <2>4 DEF CallsInv
<1>4. ASSUME NEW s \in Setting PROVE LastOf(s, 1) => c.set = s /\ cache[s] = c.to /\ LastShown(s, 1)
  BY <1>2, <1>4 DEF AgreeInv, LastOf
<1>5. ASSUME NEW s \in Setting, NEW n \in 1 .. Len(calls'), LastOf(s, n)'
      PROVE  cache'[s] = calls'[n].to /\ LastShown(s, n)'
  <2>1. cache'[s] = calls'[n].to /\ LastShown(s, n + 1) /\ calls'[n] = calls[n + 1] /\ calls[n + 1].set = s
    <3>1. LastOf(s, n + 1) /\ n + 1 \in 1 .. Len(calls) /\ calls'[n] = calls[n + 1] /\ cache' = cache
      BY <1>1, <1>2, <1>5
    <3>. QED  BY <3>1 DEF AgreeInv, LastOf
  <2>2. CASE c.live /\ c.by = "switch" /\ s = c.set
    <3>1. calls[n + 1].by # "reset" => calls[n + 1].live /\ calls[n + 1].by # "time"
      <4>1. 1 < n + 1
        OBVIOUS
      <4>2. Kinds(c) /\ Kinds(calls[n + 1]) /\ calls[1].live
        BY <1>2, <2>2 DEF CallsInv
      <4>3. calls[n + 1].by # "reset" => calls[n + 1].live
        BY <1>2, <4>1, <4>2 DEF CallsInv
      <4>. QED  BY <2>1, <2>2, <4>2, <4>3 DEF Kinds, Switch
    <3>. QED  BY <2>1, <3>1 DEF LastShown
  <2>3. CASE c.live /\ c.by = "reset"
    BY <1>1, <2>1, <2>3 DEF LastShown
  <2>4. CASE ~(c.live /\ c.by = "reset") /\ ~(c.live /\ c.by = "switch" /\ s = c.set)
    <3>1. shown'[s] = shown[s]
      BY <1>1, <1>2, <2>4 DEF Pending, SettingsTyped
    <3>. QED  BY <1>1, <2>1, <3>1 DEF LastShown
  <2>. QED  BY <2>2, <2>3, <2>4
<1>6. ASSUME NEW s \in Setting, Free(s)', s \notin unsure', prefs' PROVE cache'[s] = disk'[s]
  BY <1>1, <1>2, <1>4, <1>6 DEF AgreeInv, SettingsTyped, Free, c
<1>7. ASSUME NEW s \in Setting, Free(s)', s \notin unsure', NoReset', screen' = "shown"
      PROVE  shown'[s] = cache'[s]
  <2>1. CASE c.live /\ c.by = "reset"
    BY <1>1, <2>1
  <2>2. CASE c.by # "reset"
    <3>1. CASE LastOf(s, 1)
      BY <1>1, <1>2, <1>4, <1>7, <2>2, <3>1 DEF LastShown, SettingsTyped, Pending
    <3>2. CASE Free(s)
      <4>1. s # c.set
        BY <1>2, <3>2 DEF Free
      <4>2. shown[s] = cache[s]
        BY <1>1, <1>2, <1>7, <2>2, <3>2, <4>1 DEF AgreeInv, c
      <4>. QED  BY <1>1, <1>2, <2>2, <4>1, <4>2 DEF SettingsTyped, Pending
    <3>. QED  BY <1>2, <1>7, <3>1, <3>2
  <2>3. c.by # "reset" \/ c.live
    BY <1>7 DEF c
  <2>. QED  BY <2>1, <2>2, <2>3
<1>. QED  BY <1>3, <1>5, <1>6, <1>7 DEF AgreeInv

LEMMA NotStoredAgrees == SettingsTyped /\ CallsInv /\ AgreeInv /\ NotStored => CallsInv' /\ AgreeInv'
<1>. SUFFICES ASSUME SettingsTyped, CallsInv, AgreeInv, NotStored PROVE CallsInv' /\ AgreeInv'
  OBVIOUS
<1>. DEFINE c == Head(calls)
<1>1. /\ calls # <<>> /\ calls' = Tail(calls) /\ UNCHANGED <<prefs, disk, cache, screen, shown>>
      /\ c.by = "reset" => unsure' = Setting
      /\ c.by # "reset" => unsure' = unsure \cup {c.set}
  BY DEF NotStored
<1>2. /\ \A n \in 1 .. Len(calls') : n + 1 \in 1 .. Len(calls) /\ calls'[n] = calls[n + 1]
      /\ 1 \in 1 .. Len(calls) /\ c = calls[1] /\ c \in Pending
      /\ \A s \in Setting, n \in 1 .. Len(calls') : LastOf(s, n)' => LastOf(s, n + 1)
      /\ \A s \in Setting : Free(s)' => Free(s) \/ LastOf(s, 1)
      /\ NoReset' /\ c.by # "reset" => NoReset
  BY <1>1, Answered
<1>. HIDE DEF c
<1>3. CallsInv'
  <2>1. ASSUME NEW m \in 1 .. Len(calls'), NEW n \in 1 .. Len(calls'), m < n PROVE m + 1 < n + 1
    BY <2>1
  <2>2. prefs'
    BY <1>1 DEF CallsInv
  <2>3. \A n \in 1 .. Len(calls') : Kinds(calls'[n])
    BY <1>2 DEF CallsInv
  <2>4. ASSUME NEW m \in 1 .. Len(calls'), NEW n \in 1 .. Len(calls'), m < n, calls'[m].live,
               calls'[n].by # "reset"
        PROVE  calls'[n].live
    BY <1>2, <2>1, <2>4 DEF CallsInv
  <2>. QED  BY <2>2, <2>3, <2>4 DEF CallsInv
<1>4. ASSUME NEW s \in Setting, NEW n \in 1 .. Len(calls'), LastOf(s, n)'
      PROVE  cache'[s] = calls'[n].to /\ LastShown(s, n)'
  BY <1>1, <1>2, <1>4 DEF AgreeInv, LastShown
<1>5. ASSUME NEW s \in Setting, Free(s)', s \notin unsure' PROVE Free(s) /\ s \notin unsure /\ c.by # "reset"
  BY <1>1, <1>2, <1>5 DEF LastOf
<1>. QED  BY <1>1, <1>2, <1>4, <1>5, <1>3 DEF AgreeInv

LEMMA SettingsStepInv ==
    ASSUME SettingsTyped, CallsInv, AgreeInv, SettingsStep PROVE CallsInv' /\ AgreeInv'
<1>1. CASE Open
  BY <1>1 DEF Open, preferences, CallsInv, AgreeInv, LastOf, LastShown, Free, NoReset
<1>2. CASE LoadSettings
  <2>1. /\ prefs' /\ shown' = cache' /\ UNCHANGED <<disk, calls, unsure>>
        /\ cache' = (IF prefs THEN cache ELSE disk)
    BY <1>2 DEF LoadSettings, GetsPrefs
  <2>2. CallsInv'
    BY <2>1 DEF CallsInv
  <2>3. CASE prefs
    BY <2>1, <2>2, <2>3 DEF AgreeInv, LastOf, LastShown, Free, NoReset
  <2>4. CASE ~prefs
    <3>1. \A n \in 1 .. Len(calls) : FALSE
      BY <2>4 DEF CallsInv, SettingsTyped
    <3>. QED  BY <2>1, <2>2, <2>4, <3>1 DEF AgreeInv
  <2>. QED  BY <2>2, <2>3, <2>4
<1>3. CASE Close
  BY <1>3, CloseAgrees
<1>4. CASE Reset
  <2>1. Put("screen", TRUE, "reset") /\ prefs /\ UNCHANGED <<prefs, disk, screen, unsure, shown>>
    BY <1>4 DEF Reset, Editable, CallsInv
  <2>. QED  BY <2>1, PutAgrees DEF Setting
<1>5. ASSUME NEW s \in Switch, FlipSwitch(s) PROVE CallsInv' /\ AgreeInv'
  <2>1. Put(s, ~shown[s], "switch") /\ prefs /\ UNCHANGED <<prefs, disk, screen, unsure, shown>>
    BY <1>5 DEF FlipSwitch, Editable, CallsInv
  <2>2. s \in Setting /\ (~shown[s]) \in BOOLEAN
    BY DEF Setting, Switch
  <2>. QED  BY <2>1, <2>2, PutAgrees
<1>6. ASSUME NEW v \in BOOLEAN, ChooseTime(v) PROVE CallsInv' /\ AgreeInv'
  <2>1. /\ Put("autoLock", v, "time") /\ prefs /\ UNCHANGED <<prefs, disk, screen, unsure>>
        /\ shown' = [shown EXCEPT !["autoLock"] = v]
    BY <1>6 DEF ChooseTime, Editable, CallsInv
  <2>. QED  BY <2>1, PutAgrees DEF Setting
<1>7. CASE Stored
  <2>1. CASE Head(calls).by = "reset" /\ Head(calls).set # "autoLock"
    BY <1>7, <2>1, RemoveAgrees
  <2>2. CASE ~(Head(calls).by = "reset" /\ Head(calls).set # "autoLock")
    <3>1. /\ Finish(Head(calls))
          /\ Head(calls).by = "reset" /\ ~Head(calls).live => unsure' = Setting
          /\ Head(calls).by # "reset" \/ Head(calls).live => unsure' = unsure \ {Head(calls).set}
      BY <1>7, <2>2 DEF Stored
    <3>. QED  BY <1>7, <3>1, FinishAgrees
  <2>. QED  BY <2>1, <2>2
<1>8. CASE NotStored
  BY <1>8, NotStoredAgrees
<1>. QED  BY <1>1, <1>2, <1>3, <1>4, <1>5, <1>6, <1>7, <1>8 DEF SettingsStep

\* Once every call is answered, the screen, the memory and the disk agree on every setting
\* whose last write did not throw, for any number of overlapping calls, kills and visits.
THEOREM SettingsAreSound == Spec => []SettingsAgree
<1>1. Init => CallsInv /\ AgreeInv
  BY DEF Init, CallsInv, AgreeInv, LastOf, LastShown, Free
<1>2. TypeOK /\ CallsInv /\ AgreeInv /\ [Next]_vars => CallsInv' /\ AgreeInv'
  <2>. SUFFICES ASSUME SettingsTyped, CallsInv, AgreeInv, [Next]_vars PROVE CallsInv' /\ AgreeInv'
    BY TypeParts
  <2>1. CASE SettingsStep
    BY <2>1, SettingsStepInv
  <2>2. CASE Kill
    <3>1. prefs' = FALSE /\ screen' = "closed" /\ calls' = <<>> /\ Len(calls') = 0
      BY <2>2 DEF Kill
    <3>. QED  BY <3>1 DEF CallsInv, AgreeInv, LastOf, LastShown, Free
  <2>3. CASE Main
    <3>1. CASE prefs
      <4>1. UNCHANGED <<prefs, disk, cache, screen, shown, calls, unsure>>
        BY <2>3, <3>1 DEF Main, GetsPrefs, GetsNoPrefs
      <4>. QED  BY <4>1 DEF CallsInv, AgreeInv, LastOf, LastShown, Free, NoReset
    <3>2. CASE ~prefs
      <4>1. screen # "shown" /\ calls = <<>> /\ UNCHANGED <<disk, screen, shown, calls, unsure>> /\ (prefs' => cache' = disk)
        BY <2>3, <3>2 DEF Main, GetsPrefs, GetsNoPrefs, CallsInv
      <4>. QED  BY <4>1 DEF CallsInv, AgreeInv, LastOf, LastShown, Free, NoReset
    <3>. QED  BY <3>1, <3>2
  <2>4. CASE UNCHANGED settings
    BY <2>4 DEF settings, preferences, CallsInv, AgreeInv, LastOf, LastShown, Free, NoReset
  <2>. QED  BY <2>1, <2>2, <2>3, <2>4, BackgroundFrame DEF Next, vars
<1>3. CallsInv /\ AgreeInv => SettingsAgree
  BY DEF CallsInv, AgreeInv, SettingsAgree, Free, NoReset
<1>. QED  BY <1>1, <1>2, <1>3, AppTyping, PTL DEF Spec
=============================================================================
