---------------------------- MODULE AppServices ----------------------------
(***************************************************************************)
(* What the app keeps beside the vault and the session: SettingsService    *)
(* with the SettingsScreen that edits it, BackgroundService, and main,     *)
(* which starts them.                                                      *)
(*                                                                         *)
(* The code between two awaits is one action.  Settings have two values,   *)
(* the default (TRUE) and another.  shared_preferences, external, answers  *)
(* reads from a copy in memory, which a setter changes at once; the calls  *)
(* that write it to disk are carried out and answered in the order they    *)
(* were made, and so are those of flutter_secure_storage.  The settings    *)
(* screen is left and opened again as its user likes.                      *)
(***************************************************************************)
EXTENDS Naturals, Sequences

CONSTANTS
    Job,       \* concurrent setBackground and clearBackground calls
    Image,     \* the paths setBackground makes, a new one per call
    None,      \* null
    MaxCalls,  \* bound on the preference calls under way
    Faults     \* "throw": a plugin or file call throws; "kill": the process dies

ASSUME NoneAssumption   == None \notin Image
ASSUME FaultsAssumption == Faults \subseteq {"throw", "kill"}

VARIABLES
    running,  \* has main come to runApp?
    prefs,    \* is SettingsService._prefs set?
    disk,     \* Setting -> what the preferences file holds
    cache,    \* Setting -> what the loaded SharedPreferences answers
    screen,   \* "closed", "loading" or "shown"
    shown,    \* Setting -> what the screen shows
    calls,    \* the preference calls that are not answered yet
    mode,     \* are the system's overlays hidden, as screen protection asks?
    unsure,   \* settings whose last write threw; all, once a reset was cut short or
              \* outlived its screen
    key,      \* custom_background_path in secure storage
    images,   \* the images in <support>/backgrounds
    path,     \* _currentBackgroundPath
    job,      \* Job -> where it is, its new image, the path it deletes
    writes,   \* the jobs whose secure storage call is not answered yet
    doubtful  \* did the last secure storage write throw?

preferences == <<prefs, disk, cache, calls, unsure>>
settings    == <<preferences, screen, shown, mode>>
background  == <<key, images, path, job, writes, doubtful>>
vars        == <<running, settings, background>>

Setting == {"screen", "biometric", "autoLock"}
Switch  == {"screen", "biometric"}
\* Who waits for the call: a switch, the list of times, or resetSettings; live while
\* the screen that made it is still there.
Pending == [set : Setting, to : BOOLEAN, by : {"switch", "time", "reset"}, live : BOOLEAN]
Idle    == [at |-> "idle", new |-> None, old |-> None]

TypeOK ==
    /\ running \in BOOLEAN /\ prefs \in BOOLEAN /\ mode \in BOOLEAN /\ doubtful \in BOOLEAN
    /\ {disk, cache, shown} \subseteq [Setting -> BOOLEAN]
    /\ screen \in {"closed", "loading", "shown"} /\ unsure \subseteq Setting
    /\ calls \in Seq(Pending) /\ writes \in Seq(Job)
    /\ {key, path} \subseteq Image \cup {None} /\ images \subseteq Image
    /\ job \in [Job -> [at : {"idle", "copy", "delete", "write", "remove", "erase"},
                        new : Image \cup {None}, old : Image \cup {None}]]

Default == [s \in Setting |-> TRUE]

Init ==
    /\ running = FALSE /\ prefs = FALSE /\ disk = Default /\ cache = Default
    /\ screen = "closed" /\ shown = Default /\ calls = <<>> /\ mode = FALSE /\ unsure = {}
    /\ key = None /\ images = {} /\ path = None
    /\ job = [j \in Job |-> Idle] /\ writes = <<>> /\ doubtful = FALSE

Throws == "throw" \in Faults

-----------------------------------------------------------------------------
(* main *)

\* SettingsService.init: the preferences are read once.
GetsPrefs   == prefs' = TRUE /\ cache' = IF prefs THEN cache ELSE disk
GetsNoPrefs == Throws /\ ~prefs /\ UNCHANGED <<prefs, cache>>

\* A throw of init is caught and the app starts all the same; a getter without
\* preferences answers the default.
Main ==
    /\ ~running /\ running' = TRUE
    /\ GetsPrefs \/ GetsNoPrefs
    /\ mode' = (prefs' => cache'["screen"])
    /\ UNCHANGED <<disk, screen, shown, calls, unsure, background>>

-----------------------------------------------------------------------------
(* SettingsScreen *)

Open ==
    /\ running /\ screen = "closed" /\ screen' = "loading"
    /\ UNCHANGED <<running, preferences, shown, mode, background>>

\* Mistake: the screen counts on main's init.
LoadSettings_NoInit ==
    /\ screen = "loading" /\ screen' = "shown"
    /\ shown' = IF prefs THEN cache ELSE Default
    /\ UNCHANGED <<running, preferences, mode, background>>

\* _loadSettings; if init throws again the progress indicator stays.
LoadSettings ==
    /\ screen = "loading" /\ GetsPrefs
    /\ screen' = "shown" /\ shown' = cache'
    /\ UNCHANGED <<running, disk, calls, mode, unsure, background>>

Close ==
    /\ screen # "closed" /\ screen' = "closed"
    /\ calls' = [n \in DOMAIN calls |-> [calls[n] EXCEPT !.live = FALSE]]
    /\ UNCHANGED <<running, prefs, disk, cache, shown, mode, unsure, background>>

\* SharedPreferences.setBool, setInt and remove.
Put(s, v, by) ==
    /\ cache' = [cache EXCEPT ![s] = v]
    /\ calls' = Append(calls, [set |-> s, to |-> v, by |-> by, live |-> TRUE])

Editable == screen = "shown" /\ Len(calls) < MaxCalls

\* _updateScreenProtection and _updateBiometricAuth: the switch keeps its old place
\* until the preferences answer.
FlipSwitch(s) ==
    /\ Editable
    /\ Put(s, ~shown[s], "switch")
    /\ UNCHANGED <<running, prefs, disk, screen, shown, mode, unsure, background>>

\* _updateAutoLockTime shows the time before it is stored.
ChooseTime(v) ==
    /\ Editable
    /\ shown' = [shown EXCEPT !["autoLock"] = v]
    /\ Put("autoLock", v, "time")
    /\ UNCHANGED <<running, prefs, disk, screen, mode, unsure, background>>

\* _resetSettings, confirmed: the first of three removals.  Resets one at a time.
Reset ==
    /\ Editable /\ \A n \in DOMAIN calls : calls[n].by # "reset"
    /\ Put("screen", TRUE, "reset")
    /\ UNCHANGED <<running, prefs, disk, screen, shown, mode, unsure, background>>

After(s) == CASE s = "screen" -> "biometric" [] s = "biometric" -> "autoLock"

\* The next removal follows the answer to the last one.
Remove(c) ==
    /\ cache' = [cache EXCEPT ![After(c.set)] = TRUE]
    /\ calls' = Append(Tail(calls), [c EXCEPT !.set = After(c.set)])
    /\ UNCHANGED <<shown, mode>>

\* The setState that follows: it throws if the screen has gone, and then the system's
\* overlays are not touched.  The _loadSettings of a reset does not touch them either.
Finish(c) ==
    /\ calls' = Tail(calls) /\ UNCHANGED cache
    /\ shown' = IF ~c.live \/ c.by = "time" THEN shown
                ELSE IF c.by = "reset" THEN cache
                ELSE [shown EXCEPT ![c.set] = c.to]
    /\ mode' = IF c.live /\ c.by = "switch" /\ c.set = "screen" THEN c.to ELSE mode

\* The preferences answer the oldest call.
Stored ==
    /\ calls # <<>>
    /\ LET c == Head(calls) IN
       /\ disk' = [disk EXCEPT ![c.set] = c.to]
       /\ unsure' = IF c.by = "reset" /\ ~c.live THEN Setting ELSE unsure \ {c.set}
       /\ IF c.by = "reset" /\ c.set # "autoLock" THEN Remove(c) ELSE Finish(c)
    /\ UNCHANGED <<running, prefs, screen, background>>

\* Or throw; a reset ends there, and what it has removed is not loaded.
NotStored ==
    /\ Throws /\ calls # <<>>
    /\ calls' = Tail(calls)
    /\ unsure' = IF Head(calls).by = "reset" THEN Setting ELSE unsure \cup {Head(calls).set}
    /\ UNCHANGED <<running, prefs, disk, cache, screen, shown, mode, background>>

-----------------------------------------------------------------------------
(* BackgroundService, called from HomeScreen's background selector *)

Go(j, at) == job' = [job EXCEPT ![j].at = at]
\* A path of this millisecond, which no file, call or key has.
Fresh     == Image \ (images \cup {key, path} \cup UNION {{job[j].new, job[j].old} : j \in Job})

\* selectBackground, once an image is picked: the copy begins.
SelectBackground(j) ==
    /\ running /\ job[j].at = "idle"
    /\ \E i \in Fresh : job' = [job EXCEPT ![j] = [at |-> "copy", new |-> i, old |-> None]]
    /\ UNCHANGED <<running, settings, key, images, path, writes, doubtful>>

\* The old image is looked up when the copy has come to its end.
Copied(j) ==
    /\ job[j].at = "copy"
    /\ \/ /\ images' = images \cup {job[j].new}
          /\ job' = [job EXCEPT ![j].at = "delete", ![j].old = path]
       \/ Throws /\ job' = [job EXCEPT ![j] = Idle] /\ images' \in {images, images \cup {job[j].new}}
    /\ UNCHANGED <<running, settings, key, path, writes, doubtful>>

\* A failed delete is ignored; the new path is written.
DeletedOld(j, here, there) ==
    /\ job[j].at = here
    /\ images' = images \ {job[j].old} \/ (Throws /\ UNCHANGED images)
    /\ Go(j, there) /\ writes' = Append(writes, j)
    /\ UNCHANGED <<running, settings, key, path, doubtful>>

SetBackground(j) == DeletedOld(j, "delete", "write")

\* clearBackground, and the delete of its erase.
ClearBackground(j) ==
    /\ running /\ job[j].at = "idle"
    /\ job' = [job EXCEPT ![j] = [at |-> "remove", new |-> None, old |-> path]]
    /\ UNCHANGED <<running, settings, key, images, path, writes, doubtful>>

RemovedFile(j) == DeletedOld(j, "remove", "erase")

\* Mistake: clearBackground leaves the path in memory.
Written_KeepsPath ==
    /\ writes # <<>> /\ writes' = Tail(writes)
    /\ LET j == Head(writes) IN
       /\ key' = job[j].new /\ path' = IF job[j].new = None THEN path ELSE job[j].new
       /\ job' = [job EXCEPT ![j] = Idle]
    /\ doubtful' = FALSE
    /\ UNCHANGED <<running, settings, images>>

\* The secure storage answers its oldest call: the key has the new path, or is gone.
Written ==
    /\ writes # <<>> /\ writes' = Tail(writes)
    /\ LET j == Head(writes) IN
       /\ key' = job[j].new /\ path' = job[j].new
       /\ job' = [job EXCEPT ![j] = Idle]
    /\ doubtful' = FALSE
    /\ UNCHANGED <<running, settings, images>>

NotWritten ==
    /\ Throws /\ writes # <<>> /\ writes' = Tail(writes)
    /\ job' = [job EXCEPT ![Head(writes)] = Idle] /\ doubtful' = TRUE
    /\ UNCHANGED <<running, settings, key, images, path>>

-----------------------------------------------------------------------------

\* The process dies with the calls that have not been carried out.  Nothing calls
\* BackgroundService.init, so the next process does not know the stored path.
Kill ==
    /\ "kill" \in Faults /\ running
    /\ running' = FALSE /\ prefs' = FALSE /\ cache' = Default
    /\ screen' = "closed" /\ shown' = Default /\ calls' = <<>> /\ mode' = FALSE /\ unsure' = {}
    /\ path' = None /\ job' = [j \in Job |-> Idle] /\ writes' = <<>> /\ doubtful' = FALSE
    /\ UNCHANGED <<disk, key, images>>

SettingsStep ==
    \/ Open \/ LoadSettings \/ Close \/ Reset \/ Stored \/ NotStored
    \/ \E s \in Switch : FlipSwitch(s)
    \/ \E v \in BOOLEAN : ChooseTime(v)

BackgroundStep ==
    \/ \E j \in Job : \/ SelectBackground(j) \/ Copied(j) \/ SetBackground(j)
                      \/ ClearBackground(j) \/ RemovedFile(j)
    \/ Written \/ NotWritten

Next == Main \/ SettingsStep \/ BackgroundStep \/ Kill

Spec == Init /\ [][Next]_vars

-----------------------------------------------------------------------------
(* Properties *)

\* When nothing is under way the screen, the preferences in memory and those on disk
\* agree on every setting whose last write did not throw, unless a reset was cut
\* short or outlived its screen: whatever switches, times and resets overlapped, each
\* with its own continuation, and whenever the screen was left and opened again.
SettingsAgree ==
    screen = "shown" /\ calls = <<>> =>
        /\ prefs
        /\ \A s \in Setting \ unsure : shown[s] = cache[s] /\ cache[s] = disk[s]

\* When no call is under way the background on screen is the stored one and its
\* image exists, unless the last write threw: setBackground deletes the image it
\* replaces before it stores the new path, and calls may overlap.
BackgroundAgrees ==
    (\A j \in Job : job[j].at = "idle") /\ ~doubtful /\ path # None =>
        key = path /\ path \in images

\* "Aplicar inmediatamente la configuracion", settings_screen.dart:70: when nothing
\* is under way the overlays are as the setting says.
ProtectionIsApplied ==
    running /\ prefs /\ calls = <<>> /\ unsure = {} => mode = cache["screen"]
=============================================================================
