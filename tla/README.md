# Caja Segura: TLA+ models, checks and proofs

Caja Segura (`src/aplicacion`) is a Flutter app that moves files of its user into an
encrypted vault in the app's private directory. The repository holds it together with the
whole Flutter SDK it is built with (`packages/`, `engine/`, `dev/`, `examples/`, `docs/`).
This directory holds TLA+ models of the app and of the part of the engine that decides
when and on which thread anything of the app runs and reaches the screen, the TLC
configurations that check them on small instances, and TLAPS proofs of what holds for
every instance. Paths below are relative to `src/aplicacion/lib/` for the app and to
`src/engine/src/flutter/` for the engine.

## 1. The system

| Part | State | Operations |
|---|---|---|
| `VaultRepository` (`services/vault_repository.dart`) | the directory `vault/`: `<id>.enc` and `<id>.json` for every entry; nothing in memory | `importFile`, `listAll`, `exportClear`, `deleteById`, `wipeAll` |
| `CryptoService` (`services/crypto_service.dart`) | none | `encryptWithWrappedKey`: a fresh DEK seals the file and the KEK seals the DEK; `decryptWithWrappedKey` |
| `VaultFileMeta` (`models/vault_file.dart`) | immutable record | `toJson`, `fromJson`, formatting getters |
| `AuthService` (`services/auth_service.dart`), forwarded to by `LockManager` | the KEK (base64) in secure storage; `_kek`, `_lastUnlock` in memory | `init`, `authenticate`, `lock`, `kek`, `isUnlocked`, `extendSession`, `clearAllData` |
| `LockScreen` (`screens/lock_screen.dart`) | `_busy`, `_error` | `_unlock`: `init`, `unlock`, 300 ms, then `/home` |
| `HomeScreen` (`screens/home_screen.dart`) | `_items`, `_busy`, `_error` | `_load`, `_import`, `_export`, `_delete`, `didChangeAppLifecycleState` |
| `SettingsService`, `SettingsScreen` | three values in shared preferences and a copy in the widget | load, update, reset |
| `BackgroundService` | image file, the key that names it, a copy in memory | `init`, `selectBackground`, `setBackground`, `clearBackground` |
| `Animator`, `VsyncWaiter`, `Pipeline` (`shell/common/`) | semaphores, the continuation of the frame under way, the callbacks for the next vsync, a deque of frames | `RequestFrame`, `BeginFrame`, `Render`, `EndFrame`, `AsyncWaitForVsync`, `ScheduleSecondaryCallback`, `FireCallback`, `Produce`, `Consume` |
| `Rasterizer` (`shell/common/rasterizer.cc`) | surface, thread merger, last layer trees | `Draw`, `DrawLastLayerTrees`, `Setup`, `Teardown` |
| `MessageLoopTaskQueues` and the message loops (`fml/`) | a task source for every queue, who is merged under whom, a timer per thread | `RegisterTask`, `GetNextTaskToRun`, `Merge`, `Unmerge`, pause and resume of the secondary source |
| `SharedThreadMerger`, `RasterThreadMerger` (`fml/`) | leases by caller, `enabled_` | `MergeWithLease`, `ExtendLeaseTo`, `DecrementLease`, `UnMergeNowIfLastOne`, `Enable`, `Disable` |
| `Shell` (`shell/common/shell.cc`) | the components above | `OnPlatformViewCreated`, `OnPlatformViewDestroyed`, `OnAnimatorDraw` |
| `main` | none | orientation, `SettingsService.init`, `LockManager.init`, `runApp` |

**How they interact.** `LockScreen` calls `LockManager.init` and `unlock`; once the
session is open it gives way to `HomeScreen`, whose handlers test `isUnlocked`, call
`unlock` if needed and hand the list returned by `kek` to the vault. That list is *the
object* that `lock()` later overwrites with zeros: the session and every import under
way share a mutable buffer. The lifecycle callback of `HomeScreen` is the only caller of
`lock()`. In the app nothing is concurrent in the sense of threads; everything is
concurrent at `await`.

The app's code is run by the engine's UI thread as tasks and timers of `fml`. When it
marks something dirty, `Animator` asks `VsyncWaiter` for a vsync, the UI thread builds a
frame between two vsync tasks and commits it to `Pipeline`, and the raster thread draws
it. While an Android platform view is on screen, `RasterThreadMerger` merges the raster
task queue under the platform thread's. There threads really interleave, at every
semaphore, mutex and posted task.

**What is hard.** (a) Handlers of one screen overlap, since `_busy` is tested before the
prompt, the picker or the dialog and raised after it. (b) A continuation acts on state
read before its `await`. (c) An import writes two files, then destroys the original in up
to three ways, and any of these steps can fail or be the last one before the process is
killed. (d) The clock ends a session, and the lifecycle ends it too, in the middle of
both. (e) A frame's push and its announcement, or a task's post and the wake-up of its
thread, are two steps on one thread with another in between. (f) Whether two queues are
merged is looked up, kept twice, and changed by other threads. PROJECT.json lists each
hazard at its line.

**What makes each part correct.**

* Vault: a document is never lost; no original is touched before its entry is complete on
  disk; a listed entry has its data and opens; a deleted entry is gone for good; a
  finished move leaves nothing in the clear.
* Session: a stored key is never replaced; a session holds the stored key, in a buffer
  nobody has wiped; only a passed prompt starts one.
* Screens: every entry is sealed under the key the storage holds; an export that was
  asked for opens; the screen does not stay busy; what is deleted is not shown; the app
  is locked while it is in the background. The last two, and a move that leaves nothing
  in the clear, do not always hold (section 4).
* Settings and background: at rest the screen, the memory and the disk agree.
* Frames: no slot of the pipeline is lost, a wish for a frame is answered, a committed
  frame is drawn, in order. The last three have exceptions (section 4), and the properties
  say exactly which.
* Task queues: no thread sleeps past a task it has to run; tasks keep their order across
  merges and unmerges; every task runs.
* Threads: the leases say what the queues do, the configuration stays put where the shell
  relies on it, and no thread waits for itself.

## 2. The modules

```
SecureVault       what the vault promises; VaultRepository implements it, and so does
                  CajaSegura as long as the app is not left
VaultRepository   <- MCVaultRepository,  VaultRepositoryProofs <- VaultPromiseProofs
AuthService       <- MCAuthService,      AuthServiceProofs
CajaSegura = LockScreen + HomeScreen + lifecycle + clock,
             over A == INSTANCE AuthService and V == INSTANCE VaultRepository
                  <- MCCajaSegura,       CajaSeguraProofs
AppServices       <- MCAppServices,      AppServicesProofs

FramePipeline     <- MCFramePipeline,    FramePipelineProofs
TaskQueues        <- MCTaskQueues,       TaskQueuesProofs
RasterThreads     <- MCRasterThreads,    RasterThreadsProofs
```

A module's actions are the stretches of code between two awaits, in the engine's modules
between two operations that another thread can see. An operator named
after an action with a suffix (`ImportReturns_StaysBusy`) is a wrong version of it, as
its comment says: it is part of no specification, and putting it in the place of the
right one must break a property.

**VaultRepository.** `source`, `temp`, `data` and `meta` are the files: the user's
original, the renamed original of line 151, `<id>.enc` and `<id>.json`. A file of the
vault is absent, being written (`partial`) or `whole`. `imp[i]` is the line at which the
import that drew the uuid `i` is suspended; `Import*` are its steps in order:

| Actions | Lines of `vault_repository.dart` |
|---|---|
| `ImportStart`, `ImportRead`, `ImportSeal` | 66-85: check, read, seal with the list's content at that moment |
| `ImportWriteData`, `ImportWriteMeta` | 106, 107: outside the `try` that cleans up |
| `ImportCheck`, `ImportVerify`, `ImportDelete`, `ImportPoll` | 116-143 |
| `ImportRename`, `ImportDeleteTemp` | 151-161, first fallback |
| `ImportOverwrite`, `ImportDeleteEmptied` | 168-174, second fallback |
| `ImportCleanData`, `ImportCleanMeta` | 193-200, after a failure |
| `DeleteLookMeta`, `DeleteLookData`, `DeleteMeta`, `DeleteData` | 280-295 |
| `WipeStart`, `WipeOne` | 307-310 |
| `ListStart`, `ListRead`, `ListEnd` | 33-51 |
| `ExportStart` to `ExportOpen` | 224-263 |

A write, with its flush and close, first empties the file, then may have everything on disk
and still be going on, and may throw at any of these points: a failed import can leave its
metadata whole as well as partial, and the entry is then listed and opens.

Cryptography is symbolic: `wrapped[i]` is the key that sealed the DEK and an entry opens
with exactly that key. `exists()` followed by `delete()` on the same file is one step, and
`exists()` does not throw (in `dart:io` it answers a Boolean). `moveFile` is true, as its
only caller passes. `Faults` selects what the platform may do: `io` (an operation throws),
`deleteIgnored` (the delete of the *user's* file returns without effect, what lines
136-180 defend against), `lock` (a held buffer is wiped), `crash`.

**SecureVault.** Each document is in the clear, sealed, in both places, or erased by its
user, and of one that is not erased no copy goes before the other exists. `Promise` in
VaultRepository is the mapping: the files in the clear, the entries that open, the
documents of deleted entries. `CajaSegura!Promise` is the same mapping for the whole app.

**AuthService.** `stored` is the key in secure storage, `bytes[b]` what the list object
`b` contains, `kek` and `lastUnlock` the two fields. Each call `c` of `init`,
`authenticate` or `clearAllData` is at `pc[c]`; `CheckAvailable` is
`isBiometricAvailable` (three plugin calls, any throw counts as no), `Prompt` the system's
prompt, `ReadKek` and `RereadKek` the reads of lines 118 and 125, `InitRead`, `InitWrite`
and `InitVerify` the three awaits of `init`. `init` called by a screen does not overlap
another call, for `main` and `LockScreen` await it while nothing else exists;
`authenticate` may overlap anything. Exceptions are one value. `device` distinguishes a
phone with biometrics from one that has a PIN only.

**CajaSegura.** `app` is the lifecycle as far as `HomeScreen` can see it, `route` the
screen, `task[h]` where handler `h` is, `batch`, `current` and `finalKek` the locals of
`_import`, `snap[l]` the answer of the `listAll` of load `l`, `items` what is on the
screen. `Touchable` is when the user can reach a button. `Turn` makes the continuation of
an `unlock()` run in the turn in which it ends, as Dart does. `Unlock`'s first conjunct
only bounds the number of authentications (each one that succeeds uses a member of `Buf`).
`SessionEnds` is the clock moving on between two looks at it in one handler: `isUnlocked`
and `kek` each ask for the time, so that an export (`TapExport`) or an import (`PickFiles`)
that was let in may find `kek` null; `kek!` then throws and the `finally` drops `_busy`.
The module reuses the actions of the two services unchanged; it leaves out the faults of
the plugins, the two operations no screen calls (`Api = {}`), and all wording and
animation. Each kind of handler and each kind of load runs at most once at a time.

**AppServices.** `disk` and `cache` are the preferences file and its copy in memory,
`shown` what the settings screen displays, `calls` the preference calls in the order in
which they will be answered; `mode` is whether the system's overlays are hidden. `key`,
`images` and `path` are the stored path of the background, the files that exist and
`_currentBackgroundPath`; `job[j]` is one call of `setBackground` or `clearBackground`.
Settings have two values. `unsure` and `doubtful` remember which last write threw. The two
halves share only `running`, so that `MCAppServices` runs one of them at a time.

**FramePipeline.** Four threads, one action per step of each: `RequestFrame`,
`AsyncWaitForVsync`, `AwaitVSync`, `BeginFrame`, `Render`, `FrameBuilt`, `Commit`, `Signal`,
`PostDraw` and `EndVsync` on the UI thread, `FireCallback` and `FirePosts` on the thread
that delivers vsyncs, `DrawStart` to `DrawEnd` on the raster thread or the platform thread.
`empty` and `available` are the two semaphores of `Pipeline`, `queue` its deque of frame
numbers. `at`, `item` and `more` are the locals of `Rasterizer::Draw` on each of the two
threads: `merged` says which of them takes the next `Draw`, and a draw that has merged or
unmerged the threads is still on its own thread when the other one starts
(`CancelAndMerge`, `DrawAndUnmerge`). Nothing limits how long a thread stays between two of
its steps. A frame that has to be drawn again goes the way of `ProduceIfEmpty` (`TryAgain`,
`Recommit`, `Resignal`). Two history variables name the two accidents of section 4:
`cancelled` is the frame for which the threads were last merged, `missed` whether the last
`Draw` came between a push and its signal. When a frame cancels or unmerges is a free choice
here, but a draw that merges does not end its own lease, which is 10 frames new; how merging
works inside, and the creations and teardowns that forbid it, are in RasterThreads.

**TaskQueues.** `tasks` are the tasks in all task sources, ordered by `Before`; `ownerOf`
and `subsumedBy` the two sides of merges; `wake` the timer of each thread. Every operation
holds `queue_mutex_` and is one step. A loop's turn is several: `OnEventFired` drains the
timer, `GetNextTaskToRun`, `NothingDue` and `NothingPending` are the outcomes of one look
at the table. `PausedIsNeverSubsumed` is assumed: `VsyncWaiter` pauses the UI queue and the
mergers subsume the raster queue, and `ResumeSecondarySource` (line 331) wakes only the
queue it is called for. On Linux and Android the timer is a `timerfd`;
`platform/linux/timerfd.cc:50` sets its interval too, under the comment "single expiry", so
that a drained timer fires again much later. That wakes a loop with nothing to do and is
left out.

**RasterThreads.** `merged` is the table of queues, reduced to the one fact that matters
here, `lease` and `enabled` the shared merger, `thread[t]` where each of the two threads is
in `Draw`, in a raster task, or in `OnPlatformViewCreated` and `OnPlatformViewDestroyed`.
`Free` is the mutex of an engine's `RasterThreadMerger`; an operation that has passed its
test of `enabled_` and not yet entered the shared merger is at `merging`, `leasing` or
`unmerging`. `Takes` says that what is left of a draw on one thread does not outlast the
drawing of the same engine's next frame on the other, unless `Slow`. `Hasty` says whether a
view may be destroyed before the raster thread has set it up. The module takes from
TaskQueues that a queue's tasks run in order on the thread that owns it, and from
FramePipeline that a Draw is posted with the first frame of an empty pipeline.


## 3. The runs

| Run | Instance | What it shows |
|---|---|---|
| `vault_faults` | 2 documents, 2 imports; `io`, `crash`; list, delete | `NoDataLoss`, and `KeepsPromise`: VaultRepository implements SecureVault |
| `vault_every_fault` | 1 import; every operation, every fault | `DeletedIsGone` when deletions fail and are retried; `FilesInv`, `ExportAvailable`, `LostOnlyByUndo` and `SealedBeforeDestroyed` through both fallbacks |
| `auth_concurrent` | 2 calls, 2 keys; plugins throw, storage loses the key; `extendSession`, `clearAllData` | `SessionAlive`, `OnlyAPromptUnlocks` |
| `caja_safe` | 2 files, 2 authentications, 2 keys, clock 0..1, timeout 1; export and delete beside imports | `SealedUnderStoredKey`, `ExportOpens`, `KekNeverReplaced`, and `KeepsPromise`: the app implements SecureVault |
| `caja_live` | 1 file, failing files, pauses, refreshes, exports, clock 0..1, timeout 1; fairness | `BusyEnds`, `TypeOK` |
| `caja_background_import` | 2 files, pauses | a counterexample to `NoDataLoss`: section 4 |
| `app_services` | 3 pending preference calls; 2 background calls, 3 images; throws and kills | `SettingsAgree`, `BackgroundAgrees` |
| `frames` | depth 2, 3 frames, 1 secondary callback | `SlotsConserved`, `NeverPopsEmpty`, `OnlyCancelledIsLate`, `OnlyTheRaceStrands`, `OneVsync`, `RequestUnderWay`, `PausesBalanced`; `TypeOK`; no deadlock |
| `frames_live` | depth 2, 3 frames; fairness | `FrameComes`, `CommittedIsDrawn`, `DartTasksRun` |
| `task_queues` | 3 queues, 2 mergeable pairs that would chain, 2 tasks, clock 0..1, 3 merges, unmerges or pauses; fairness | `NoLostWakeup`, `MergesAgree`, `InPostedOrder`; `TasksRun` |
| `raster` | 1 engine, lease 2, depth 2, 6 frames, its view created twice; fairness | `LeasesMatchQueues`, `NeverAborts`, `LatchIsServed`, `FramesAnnounced`, `ConfigurationIsFixed`; `FramesServed` |
| `raster_latch` | 4 frames, `Hasty` | a counterexample to `LatchIsServed`: section 4 |

**Why these bounds are enough.** Two imports of one document are what a race on the
original needs; entries share nothing else, so a third one repeats the second. Where every
operation and fault runs at once one entry is enough for the same reason. Two buffers
and two keys separate "the same list", "the same key" and "neither". Two calls and two or
three keys let one authentication regenerate the key while another reads it. `MaxTime` at
least `Timeout` makes sessions expire; where it is 0 they end by `lock()` instead. `Buf` bounds how often one authenticates, `Key` how many keys are
generated. Three preference calls let a switch, a time and a reset overlap; two background
calls delete each other's image. A pipeline of two slots (the engine's depth, 1 where
platform and raster threads are one) with three frames is full, has a frame to resubmit,
and a newer one; two frames are what one needs to overtake or strand the other, and with the
third the pipeline is full behind a stranded one. `frames` has 1.4 million states,
`frames_live` 136 thousand; the three liveness properties also hold with 2 frames and a
secondary callback (204 thousand). Three queues show the guards against chains; two tasks
and three changes put a post before, between and after a merge and its unmerge. A lease of 2 (10 in
`external_view_embedder.h`) is used up, renewed, and ended by a teardown within six frames.

Each module has one type invariant, `TypeOK`, and each of them is proved (section 5); two
runs, `caja_live` and `frames`, also check the one that says more than types, such as that
no count goes below zero.

**CHECK_DEADLOCK FALSE** everywhere but in the runs of FramePipeline, whose framework may
always ask for a frame: ids, buffers and clock run out, a user may stop, and so may
whoever posts tasks and asks for frames.

**Fairness.** `CajaSegura!FairSpec` (`caja_live`): weak fairness on the steps that
Dart, its timers and the plugins take by themselves: continuations (`UnlockContinues`,
`ImportUnlocked`, `ImportReturns`, ...), file operations (`VaultStep`), plugin answers
(`AuthStep`), and on `Resume`, the user's return to the app. `AuthStep` includes the
prompt's end: Android dismisses a prompt the user ignores. `ExportReturns` is strongly
fair because closing the share sheet is possible only while the app is in front, and the
user may come and go. No tap is fair. The code justifies it: every await is on one of
these and no handler loops.

`FramePipeline!FairSpec`: each of the four threads runs its tasks, and the platform answers
a request for a vsync; nothing obliges the framework to ask for a frame. `TaskQueues!FairSpec`: the
clock advances, each loop goes on, and who has paused a queue resumes it, which
`VsyncWaiter` does in the task it posts together with the pause; `Merge`, `Unmerge` and
posts are not fair. `RasterThreads!FairSpec`: both threads are scheduled.

## 4. Where the code and its text disagree

Two runs expect a violation. Each checks one property that a comment or doc of the
repository states or relies on; the passing runs and the proofs then say what does hold.

* `caja_background_import` (`NoDataLoss`): `lock()` wipes the list an import is using.
  Pausing the app between two files of a batch seals the rest under a key of zeros and
  destroys the originals. Without a pause every entry is sealed under the stored key and nothing is lost, even if the session expires half-way and files
  fail: `caja_safe` checks it, and CajaSeguraProofs proves it for every instance.
* `raster_latch` (`LatchIsServed`): `shell.cc:931-938` disables merging so that the
  configuration stays fixed until the view is torn down, or else there "can" be a deadlock.
  If the view is destroyed while the raster task of its creation is still queued, that task
  enables merging again (line 871); a draw behind it that has a platform view merges the
  queues, and the teardown waits in a queue that only the waiting thread serves. `LatchServed`
  (section 5) proves that merging can bring it about in no other way. It is about merging
  only: that the raster thread may itself wait for the platform thread while it destroys
  overlay surfaces (`external_view_embedder.cc:264-275`) is outside the model (section 6).

More counterexamples can be run by hand (`tlc -config <cfg> <module>`); TLC finds each of
these properties violated, and the last column names the checked property that bounds the damage, if any.

| Configuration | Module | Property | What happens |
|---|---|---|---|
| `MCVaultLostOriginal.cfg` | `MCVaultRepository` | `NoDataLoss` | a delete that returned without effect (lines 136-145 of `vault_repository.dart` test for it) leads to the fallbacks; the second one empties the original but cannot remove it, and the cleanup of line 191 deletes the only sealed copy. `LostOnlyByUndo` says that this undoing is the only way, under every fault |
| `MCVaultCopyLeft.cfg` | `MCVaultRepository` | `MovedLeavesNoCopy` | after a rename whose delete failed the second fallback works on the old path; line 182 reports success and the plaintext stays under the temporary name |
| `MCFramesStranded.cfg` | `MCFramePipeline` | `NoStrandedFrame` | `animator.cc:150` posts no `Draw` for a frame that was not the first item, since the rasterizer will "eventually" consume it. If the rasterizer looks between that frame's push and its signal (`pipeline.h:229`, `:233`), it finds nothing available and its last `Draw` ends. The frame waits for ever: the next commit finds the deque not empty and posts none either, and once the pipeline is full no frame is built any more. `OnlyTheRaceStrands` says that there is no other way, and `FrameComes` and `CommittedIsDrawn` except this state |
| `MCFramesOvertaken.cfg` | `MCFramePipeline` | `FramesInOrder` | `rasterizer.cc:267` says that a frame to be drawn again is pushed to the front. When frame A's draw has merged the threads, the platform thread may take the newer B before the raster thread has come to `ProduceIfEmpty`; A then finds an empty deque, is put back, and is drawn after B. `OnlyCancelledIsLate` says that only a frame cancelled for a merge comes late |
| `MCAuthRace.cfg` | `MCAuthService` | `KekNeverReplaced` | two authentications that overlap after the key was lost generate two keys, and the second replaces the first, against the comment of `auth_service.dart:38` |
| `MCCajaStale.cfg` | `MCCajaSegura` | `DeletedNotShown` | the reload of `home_screen.dart:352` returns at once, since `_delete` holds `_busy`: the deleted entry stays on the screen |
| `MCAppProtection.cfg` | `MCAppServices` | `ProtectionIsApplied` | a reset, or leaving the screen before the preferences have answered, changes the setting and not the overlays, against "Aplicar inmediatamente" in `settings_screen.dart:70` |
| `MCRasterTwoEngines.cfg` | `MCRasterThreads` | `NeverAborts` | two engines share a merger, each behind its own mutex: one tests `enabled_` or the leases while the other changes them, and an `FML_CHECK` of `shared_thread_merger.cc` fails |

Two more configurations, also run by hand, hold: `MCAuthSequential.cfg` (`KekNeverReplaced`
and `SessionKeyIsStored` of AuthService where calls do not overlap, but plugins throw and
`clearAllData` is called) and `MCCajaLiveDelete.cfg` (`BusyEnds` with deletions in the place
of exports).

The following was met while reading and modelling; the models have these behaviours, and no
run is devoted to them.

* `vault_repository.dart:102` calls the two writes of an entry atomic; they are two writes
  in place. `FilesInv` says what is left when the second one fails.
* `auth_service.dart:130`: a re-authentication drops the old list without wiping it, so the
  later `lock()` does not clear it. Wiping it there would be no remedy: the wrong version
  `Install_WipesOld` does that, and `caja_safe` then finds an import that seals its next
  file with the wiped list after an export of another entry has renewed the session.
* `auth_service.dart:94`: without enrolled biometrics the prompt, which would take the PIN
  (line 103), is never reached.
* `auth_service.dart:214`: `extendSession`, which no screen calls, revives an expired
  session without a prompt. `OnlyAPromptUnlocks` says that it does so only with the buffer
  the session had.
* `lock_screen.dart:67` and `auth_service.dart:135`: the app's README, line 31, says that
  the app locks in the background; only `HomeScreen` listens, and an authentication that
  ends after the pause leaves the app unlocked there.
* `home_screen.dart:83`: the `finally` of any load drops `_busy`, so that two loads run at
  once in spite of line 32.
* `settings_screen.dart:114-120`, and the text of line 139: the auto-lock time is stored and
  shown, and nothing gives it to `AuthService.sessionTimeout`.
* `settings_screen.dart:185`: a reset that throws half-way is not followed by the reload,
  and one that ends after its screen was closed does not reload the screen that was opened
  since: both show values that are no longer stored. `SettingsAgree` excepts exactly these.
* `background_service.dart:22`: nothing calls `init`, so that after a restart the stored
  background is not shown, and setting another one leaks the old file. After a write that
  failed (line 87) the path in memory names an image that line 82 has deleted;
  `BackgroundAgrees` excepts that until the next write.
* `raster_thread_merger.cc:106`: a lease may be extended after another engine has
  unmerged, which a `DCHECK` only would notice; and with a lease of 1, or with draws whose
  end lasts longer than the next frame's drawing (`Slow`), an unmerge can leave a frame
  without a `Draw` on the right thread. The comment at `rasterizer.cc:548-563` describes
  the case that the code does handle, and `FramesServed` checks it.

## 5. The proofs

The theorems hold for any number of documents, imports, calls, buffers, keys, jobs, images,
queues, tasks, frames, slots, leases and views, and any clock. Every invariant that a
passing run checks is stated by a theorem, and so is every action property and both
refinements. Where one has a hypothesis on the constants, the text below says what happens
without it.

**VaultRepositoryProofs.** `Typing` comes first. `FilesSound` proves `[]FilesInv` under
*every* fault and with every operation running, writes that throw when their file is whole
included. `ListedHasData` alone is not inductive:
that the metadata file becomes whole says nothing of the data file unless one knows, at
each stage of the import, what its two files are; `FilesInv` adds exactly that, with the
escape "unless somebody has set out to delete the entry", and that running deletions are
recorded in `deleted`. `ListedEntriesHaveData` and `DestroyedOnlySealed`
(`SealedBeforeDestroyed`, an action property) follow from it, and so do
`ExportsFindTheirFiles`, since an export starts from an entry that was shown, and
`DeletedStaysGone`, which adds that an import's write never creates a file anew.
`LossNeedsAnUndo` (`LostOnlyByUndo`) needs no assumption either: whatever fails, a document
that is nowhere in the clear is sealed, or a deletion asked for it, or its own import is
taking back the entry after a fallback has emptied or removed the original.

`NothingIsLost` needs two assumptions, which `MCVaultLostOriginal` and
`caja_background_import` show to be necessary: deletes are not ignored and no buffer is
wiped. The proof module calls them `Dependable`. Its invariant `CustodyInv`
adds to `FilesInv` that the fallbacks are never reached and that every original that is
gone has an openable entry whose import is past the point from which it could still be
undone. That last part is why `NoDataLoss` is not inductive by itself: an entry in the
vault does not count as custody while its import may still clean it up.

**VaultPromiseProofs**, under `Dependable`. `RepositoryKeepsItsPromise` is the refinement:
the initial states map to SecureVault's, and `PromiseStep` shows for every action which
step of the promise it is, or that it is none. `CustodyInv` gives the guards: an original
goes only while its entry is in custody, an entry goes only while its document is in the
clear or erased.

**AuthServiceProofs.** `SessionsAreAlive`: from `IssuedInv`, every key in memory, in
storage or about to be written was issued, whatever overlaps. `PromptUnlocks` holds
without assumptions. `KeyIsKept` and `SessionKeyIsKept`: from `SequentialInv`, under the
assumptions that calls do not overlap and the storage loses nothing, which `MCAuthRace`
shows to be needed.

**CajaSeguraProofs** is about the app as a whole, and none of its theorems is a consequence
of those about its parts alone. `AppRunsAuth` (`Spec => A!Spec`) says that the app uses
AuthService as that module's specification allows. The other way round nothing is free:
each theorem below asks what the *handlers* have on their hands.

* `AppTyping` needs to know that an answer finds somebody waiting for it, that a handler
  that was let in still finds the session (`CallsInv`: Dart's turns, `Turn`, see to that),
  and that an import under way belongs to the batch, which then holds a key (`WorkInv`).
* `KekIsKept` (`KekNeverReplaced`) assumes nothing: the app may be paused and entered again.
  `StoredInv` says that an `init` runs beside no other call, and that no `authenticate` comes
  before one has returned, so that none of them ever has a key to make. That is what
  AuthService alone cannot promise (`MCAuthRace`).
* `KeyOutlivesSession` (`SealedUnderStoredKey`), `NothingIsLost` (`NoDataLoss`) and
  `AppKeepsItsPromise` (`KeepsPromise`, the refinement) assume `"pause" \notin Events`,
  which `caja_background_import` shows to be needed, and nothing about files: any
  operation may fail. `SessionKeys` adds to `StoredInv` that every buffer holds the stored key. Then a
  buffer that a batch or an export holds stays readable although the session that handed
  it out may have expired (`HeldKeys`). For the refinement, `SafeInv` repeats of the
  repository's `CustodyInv` what is left without ignored deletes; the theorems of
  VaultRepositoryProofs cannot be cited for it, since alone the repository finds every
  buffer filled with a key that stays, while here the session fills them one by one.
* `OfferedOpens` (`ExportOpens`) also assumes that no file operation fails. A list shows an
  entry once its metadata parses; that is after its data was written, so that whatever is
  on the screen, in a load, or already tapped is whole until someone deletes it
  (`StagesInv`, `ShelfInv`). An export whose session ends before `kek!` has not begun: the
  handler throws and opens nothing. With failing files the claim is not meant.

**AppServicesProofs.** `AppTyping`, each half framed by the other. `BackgroundIsSound`:
that the stored path is the one in memory and its image exists is not inductive, for a
call under way may have deleted that image; the invariant says that then this call's write
is on its way to the storage (`ImageInv`), that no two calls have the same new image and
none of them is the current one or one about to be deleted (`OwnImages`), and which calls
wait for the storage (`WritesInv`). `SettingsAreSound` (`SettingsAgree`) looks at the
*last* call under way on each setting: the copy in memory already holds what it will store,
and unless its own continuation is still to come, the screen shows it (`AgreeInv`). That
calls of a screen that was left are older than those of the screen opened since
(`CallsInv`) is what makes the last one the right one.

**FramePipelineProofs.** `SlotsAreConserved` and `ConsumeFindsAnItem` count, action by
action, what each semaphore and each thread holds. `OneVsyncAtATime` relates the waiter's
registrations to the requests of the platform. `OnlyCancelledComesLate`
(`OnlyCancelledIsLate`) has to know who may hold an old frame: `Newest` says that no thread,
no slot and no waiting frame is newer than what was built last, `Deque` that frames wait in
order, and `Turns` that only the thread whose turn it is takes and draws frames, and that a
frame the raster thread holds beyond that is the cancelled one, older than what the platform
thread has.
`StrandedByTheRace` (`OnlyTheRaceStrands`) assumes nothing about timing: `Cared` says of a
waiting frame that somebody still has a `Draw` to post for it, or has posted one, or the
last `Draw` missed it between push and signal. `OneRequestUnderWay` `OneRequestUnderWay`
(`RequestUnderWay`) and `DartPausesBalanced` (`PausesBalanced`) count the tasks of a kind
in the UI queue; `CountPosted` and `CountTaken` say what a post and a turn of the loop do
to such a count, by a bijection between positions, since sequences offer no induction here.
`PausesBalanced` was added for the type invariant: that the number of pauses never goes
below zero (`Typing`) follows only from what it is the number of, the vsync tasks posted,
running, or about to be.

**TaskQueuesProofs.** `FirstTask`: pending tasks have a first one, from the library's
theorem on well-founded relations. `NoWakeupIsLost`: a thread that sleeps has just looked
at its first task, and whoever posts, merges, unmerges or resumes since wakes it; the proof
needs both sides of merges to agree (`MergesAlwaysAgree`) and the assumption
`PausedIsNeverSubsumed`. `PostedOrderIsKept` compares the tasks handed out with those left.

**RasterThreadsProofs.** `Typing` holds for any number of engines, the rest is proved for
one (`OneEngine`). Engines that share a merger do not share the mutex around it, and two of
them violate `NeverAborts` (`MCRasterTwoEngines`), and with the same constants also
`ConfigurationIsFixed` and `LatchIsServed`. `ConfigurationStays` (`ConfigurationIsFixed`, an
action property) rests on `MutexInv`: whatever is past its look at `enabled_` holds the
mutex that `Disable` takes. `LatchServed` (`LatchIsServed`) needs `~Hasty`, which
`raster_latch` shows, and no more: `SetupInv` and `TeardownInv` follow the two raster tasks
of a view from post to signal, and say that the queues stay as the platform thread found
them in between. `LeasesAreTheQueues` (`LeasesMatchQueues`), `NoCheckFails` (`NeverAborts`)
and `EveryFrameAnnounced` (`FramesAnnounced`) assume `AsShipped`: one engine, a lease above
1 (it is 10), and `~Slow`. With a lease of 1, or with slow draws, a merge and the unmerge
that ends it overlap, and TLC finds each of the three violated. `ConfigInv` is the
invariant: each thread rasterizes only while the queues are its own, and the raster thread
ends the draw in which it merged them with the lease still new, while the platform thread
touches none. `AnnouncedInv` adds who still has a `Draw` to post. That *one* engine is
needed for `LeasesMatchQueues` and `FramesAnnounced` is not known: with two, and a lease
and a pipeline of 2 and 6 frames, TLC finds no violation in 17 million states, but the
proof uses the mutex that two engines do not share.

**Only model-checked**: liveness (`BusyEnds`, `FrameComes`, `CommittedIsDrawn`,
`DartTasksRun`, `TasksRun`, `FramesServed`), which the prover does not handle. What a
violation run refutes is, of course, not proved either; the theorems above say under which
conditions the same property does hold.

## 6. What is not modelled

*Of the app*: the navigation from `HomeScreen` to the settings and the messages of the
background selector; the bytes of AES-GCM and of the random generator; formatting and MIME
types; theme and orientation; `home_screen_backup.dart`, which nothing imports; the
platform runners and the manifest; the template test; the template app `temp_caja_segura`.

*Of the engine*: nearly all of it. Its several hundred thousand lines are graphics
(`impeller/`, `display_list/`, `lib/ui/painting/`, `flow/` but for the step that
`RasterThreads` uses), text, image codecs, platform embeddings for systems this app does
not run on, tools and tests: computations over data, without the control that a model
checker reaches, or further instances of the protocols modelled here. Inside the modelled
parts: `Dispose` and `DisposeTasks` of a queue, task observers, the single-task flush and
termination of a loop; the teardown of `Animator` and a commit that fails for want of a
view; that `ScheduleSecondaryCallback` is called while a task that will call it waits;
`WaitUntilMerged`, which nothing calls; the overlay surfaces of platform views; the IO
thread beyond the signal it gives; queues that are one from the start. The parts of
`packages/flutter` and of the Dart plugins are external: their effects are those the app's
code relies on.

## 7. Plan

Done: `VaultRepository` with `SecureVault`, `AuthService`, `CajaSegura`, `AppServices`,
`FramePipeline`, `TaskQueues`, `RasterThreads`, their runs, and the proofs above. Next:

1. What remains true of `ExportOpens` when files fail: an export that does not throw hands
   out its own entry.
2. `LeasesMatchQueues` and `FramesAnnounced` for several engines, or a counterexample with
   larger bounds.
3. `AppLifecycle`: the transitions the engine's `LifecycleChannel` sends and the framework's
   `ServicesBinding` completes, to replace the two states of `CajaSegura`. On Android a
   picker or share sheet pauses the app; with the transitions tied to them,
   `SealedUnderStoredKey` can be asked of the pauses an import itself causes.
4. `FileKinds`: MIME type, icon, size formatting, and the sorted order of `listAll`, as
   operators checked against a reference definition.
