----------------------------- MODULE CajaSegura -----------------------------
(***************************************************************************)
(* The running app: LockScreen and HomeScreen over one AuthService and one *)
(* VaultRepository, and the lifecycle events HomeScreen listens to.        *)
(*                                                                         *)
(* HomeScreen's handlers are asynchronous and guarded only by _busy.  What *)
(* a handler does when an await of unlock() answers runs before any other  *)
(* event (Turn), for Dart runs the continuation in the same turn as the    *)
(* end of authenticate.  Each kind of handler and of list load runs once   *)
(* at a time.  The document of import i is i.  Snack bars, errors shown,   *)
(* animations and SettingsScreen are left out.                             *)
(***************************************************************************)
EXTENDS Integers, FiniteSets

CONSTANTS
    Id, Buf, Key, Zeros, None, Timeout, MaxTime,
    FileFaults,  \* {"io"} where file operations may throw
    Events       \* what may happen beside imports: "pause", the app goes to the
                 \* background; "refresh", "export" and "delete", the user asks

ASSUME DistinctAssumption ==
    Zeros # None /\ Zeros \notin Key /\ None \notin Id \cup Key \cup Buf \cup Nat
ASSUME TimeAssumption == Timeout \in Nat /\ MaxTime \in Nat
ASSUME EventsAssumption ==
    Events \subseteq {"pause", "refresh", "delete", "export"} /\ FileFaults \subseteq {"io"}

Handler == {"enter", "import", "export"}
Load    == {"refresh", "import", "delete"}

VARIABLES
    device, stored, issued, bytes, kek, lastUnlock, ready, now, pc, op, fresh,
    source, temp, data, meta, wrapped, imp, del, saw, deleted, export,
    app,       \* the lifecycle state HomeScreen can tell apart
    route,     \* the screen on top, LockScreen's or HomeScreen's
    busy,      \* HomeScreen._busy
    task,      \* where each handler is
    batch,     \* the picked files _import has not come to
    current,   \* the file it is importing
    finalKek,  \* the kek object it holds across the whole batch
    target,    \* the entry _export and _delete were each asked for
    snap,      \* Load -> what the listAll of that load found, or None
    items      \* HomeScreen._items

auth  == <<device, stored, issued, bytes, kek, lastUnlock, ready, now, pc, op, fresh>>
vault == <<source, temp, data, meta, wrapped, imp, del, saw, deleted, export>>
ui    == <<app, route, busy, task>>
work  == <<batch, current, finalKek, target>>
list  == <<snap, items>>
vars  == <<auth, vault, ui, work, list>>

A == INSTANCE AuthService WITH Call <- Handler, Faults <- {}, Api <- {}
V == INSTANCE VaultRepository WITH
        Doc <- Id, Faults <- FileFaults, Calls <- {}, from <- [i \in Id |-> i],
        keyBuf <- [i \in Id |-> finalKek], wipe <- {}, listing <- "idle",
        scan <- {}, found <- {}, shown <- Id \cup {}

VaultTyped ==
    /\ source \in [Id -> V!SourceState] /\ temp \in [Id -> V!SourceState]
    /\ data \in [Id -> V!FileState] /\ meta \in [Id -> V!FileState]
    /\ wrapped \in [Id -> Key \cup {Zeros, None}]
    /\ imp \in [Id -> V!ImportPc] /\ del \in [Id -> V!DeletePc]
    /\ saw \in [Id -> SUBSET {"meta", "data"}] /\ deleted \subseteq Id
    /\ export \in {V!NoExport} \cup [at : V!ExportPc, id : Id, buf : Buf]

TypeOK ==
    /\ A!TypeOK /\ VaultTyped
    /\ app \in {"resumed", "paused"} /\ route \in {"lock", "home"}
    /\ busy \in {"no", "yes"}
    /\ task \in [Handler \cup {"delete"} ->
                   {"idle", "init", "auth", "delay", "picker", "reauth", "files", "load",
                    "reload", "export", "share", "dialog", "remove"}]
    /\ batch \subseteq Id /\ current \in Id \cup {None}
    /\ finalKek \in Buf \cup {None} /\ (task["import"] = "files" => finalKek # None)
    /\ target \in [{"export", "delete"} -> Id \cup {None}]
    /\ snap \in [Load -> (SUBSET Id) \cup {None}] /\ items \subseteq Id

Init ==
    /\ A!Init
    /\ source = [i \in Id |-> "intact"] /\ temp = [i \in Id |-> "absent"]
    /\ data = [i \in Id |-> "none"] /\ meta = [i \in Id |-> "none"]
    /\ wrapped = [i \in Id |-> Zeros] /\ imp = [i \in Id |-> "unused"]
    /\ del = [i \in Id |-> "idle"] /\ saw = [i \in Id |-> {}]
    /\ deleted = {} /\ export = V!NoExport
    /\ app = "resumed" /\ route = "lock" /\ busy = "no"
    /\ task = [h \in Handler \cup {"delete"} |-> "idle"]
    /\ batch = {} /\ current = None /\ finalKek = None /\ target = [h \in {"export", "delete"} |-> None]
    /\ snap = [l \in Load |-> None] /\ items = {}

-----------------------------------------------------------------------------

Answered(h) == task[h] \in {"init", "auth", "reauth"} /\ pc[h] \in A!Ended
Turn        == \E h \in Handler : Answered(h)

\* Nothing covers HomeScreen: no prompt, picker, dialog or share sheet.
Touchable ==
    /\ ~Turn /\ app = "resumed" /\ route = "home"
    /\ \A h \in Handler : pc[h] # "prompt"
    /\ task["import"] # "picker" /\ task["delete"] # "dialog" /\ task["export"] # "share"

Go(h, there) == task' = [task EXCEPT ![h] = there]
Aim(h, i)    == target' = [target EXCEPT ![h] = i]

\* Asks for authentication on behalf of h; buffers bound how often.
Unlock(h, wait) ==
    /\ Cardinality({b \in Buf : bytes[b] = None}) >
         Cardinality({o \in Handler : pc[o] \in A!Pending})
    /\ A!CallAuthenticate(h) /\ Go(h, wait)

\* The getters isUnlocked and kek ask the clock each time: between two reads of one
\* turn the session may expire.  It does not right after an authentication, for a
\* whole timeout does not pass within that turn.
SessionEnds == A!isUnlocked /\ A!Tick /\ ~(A!isUnlocked)'

-----------------------------------------------------------------------------
(* LockScreen._unlock *)

TapUnlock ==
    /\ route = "lock" /\ app = "resumed" /\ task["enter"] = "idle"
    /\ A!CallInit("enter") /\ Go("enter", "init")
    /\ UNCHANGED <<vault, app, route, busy, work, list>>

\* After authentication the screen waits 300 ms, then gives way to HomeScreen.
UnlockContinues ==
    /\ Answered("enter")
    /\ \/ task["enter"] = "init" /\ pc["enter"] = "true" /\ Unlock("enter", "auth")
       \/ /\ pc["enter"] = "true" => task["enter"] = "auth"
          /\ Go("enter", IF pc["enter"] = "true" THEN "delay" ELSE "idle")
          /\ UNCHANGED auth
    /\ UNCHANGED <<vault, app, route, busy, work, list>>

-----------------------------------------------------------------------------
(* HomeScreen._load *)

Listable == {i \in Id : meta[i] = "whole"}

BeginLoad(l) ==
    /\ snap[l] = None
    /\ busy' = "yes" /\ snap' = [snap EXCEPT ![l] = Listable]
    /\ UNCHANGED items

\* listAll answers; entries deleted since it began, and files it could not read, may
\* be missing.  The finally clause drops _busy, whoever else has raised it.
EndLoad(l) ==
    /\ snap[l] # None
    /\ \E gone \in SUBSET {i \in snap[l] : "io" \in FileFaults \/ i \notin Listable} :
           items' = snap[l] \ gone
    /\ snap' = [snap EXCEPT ![l] = None] /\ busy' = "no"

\* initState
EnterHome ==
    /\ ~Turn /\ task["enter"] = "delay" /\ route = "lock"
    /\ route' = "home" /\ BeginLoad("refresh") /\ Go("enter", "idle")
    /\ UNCHANGED <<auth, vault, app, work>>

Refresh ==
    /\ "refresh" \in Events /\ Touchable /\ busy = "no"
    /\ BeginLoad("refresh")
    /\ UNCHANGED <<auth, vault, app, route, task, work>>

RefreshEnds ==
    /\ ~Turn /\ EndLoad("refresh")
    /\ UNCHANGED <<auth, vault, app, route, task, work>>

-----------------------------------------------------------------------------
(* HomeScreen._import: _busy is raised only once the files are picked. *)

TapImport ==
    /\ Touchable /\ busy = "no" /\ task["import"] = "idle"
    /\ \/ A!isUnlocked /\ Go("import", "picker") /\ UNCHANGED auth
       \/ ~A!isUnlocked /\ Unlock("import", "auth")
    /\ UNCHANGED <<vault, app, route, busy, work, list>>

ImportUnlocked ==
    /\ Answered("import") /\ task["import"] = "auth"
    /\ Go("import", IF pc["import"] = "true" THEN "picker" ELSE "idle")
    /\ UNCHANGED <<auth, vault, app, route, busy, work, list>>

CancelPicker ==
    /\ ~Turn /\ app = "resumed" /\ task["import"] = "picker" /\ Go("import", "idle")
    /\ UNCHANGED <<auth, vault, app, route, busy, work, list>>

\* Mistake: the session is not looked at again once the picker has closed.
PickFiles_NoRecheck(picked) ==
    /\ ~Turn /\ app = "resumed" /\ task["import"] = "picker"
    /\ picked # {} /\ \A i \in picked : imp[i] = "unused"
    /\ batch' = picked /\ busy' = "yes" /\ finalKek' = kek /\ Go("import", "files")
    /\ UNCHANGED <<auth, vault, app, route, current, target, list>>

\* The session may have ended while the picker was open: ask again.  If it ends
\* between lines 120 and 140 there is no finalKek, and the batch is given up.
PickFiles(picked) ==
    /\ ~Turn /\ app = "resumed" /\ task["import"] = "picker"
    /\ picked # {} /\ \A i \in picked : imp[i] = "unused"
    /\ UNCHANGED <<vault, app, route, current, target, list>>
    /\ \/ /\ batch' = picked /\ busy' = "yes"
          /\ \/ A!isUnlocked /\ finalKek' = kek /\ Go("import", "files") /\ UNCHANGED auth
             \/ ~A!isUnlocked /\ Unlock("import", "reauth") /\ UNCHANGED finalKek
       \/ SessionEnds /\ busy' = "no" /\ Go("import", "idle") /\ UNCHANGED <<batch, finalKek>>

ImportReauthenticated ==
    /\ Answered("import") /\ task["import"] = "reauth"
    /\ \/ /\ pc["import"] = "true"
          /\ finalKek' = kek /\ Go("import", "files") /\ UNCHANGED <<busy, batch>>
       \/ /\ pc["import"] # "true"
          /\ batch' = {} /\ busy' = "no" /\ Go("import", "idle") /\ UNCHANGED finalKek
    /\ UNCHANGED <<auth, vault, app, route, current, target, list>>

ImportNext(i) ==
    /\ ~Turn /\ task["import"] = "files" /\ current = None /\ i \in batch
    /\ UNCHANGED <<auth, ui, finalKek, target, list>>
    /\ batch' = batch \ {i} /\ current' = i
    /\ V!ImportStart(i) /\ UNCHANGED <<del, saw, deleted, export>>

\* Mistake: no finally clause, a failed batch leaves the screen busy.
ImportReturns_StaysBusy ==
    /\ ~Turn /\ current # None
    /\ current' = None
    /\ \/ imp[current] = "moved" /\ UNCHANGED <<batch, task, finalKek>>
       \/ /\ imp[current] \in {"failed", "undone"}
          /\ batch' = {} /\ Go("import", "idle") /\ finalKek' = None
    /\ UNCHANGED <<auth, vault, app, route, busy, target, list>>

\* importFile returned, or threw and ends the batch.
ImportReturns ==
    /\ ~Turn /\ current # None
    /\ current' = None
    /\ \/ imp[current] = "moved" /\ UNCHANGED <<batch, busy, task, finalKek>>
       \/ /\ imp[current] \in {"failed", "undone"}
          /\ batch' = {} /\ busy' = "no" /\ Go("import", "idle") /\ finalKek' = None
    /\ UNCHANGED <<auth, vault, app, route, target, list>>

\* Two forced loads, 200 ms apart; the first one's finally drops _busy.
ImportLoads ==
    /\ ~Turn
    /\ \/ /\ task["import"] = "files" /\ current = None /\ batch = {}
          /\ BeginLoad("import") /\ Go("import", "load") /\ finalKek' = None
       \/ /\ task["import"] = "load" /\ snap["import"] # None
          /\ EndLoad("import") /\ Go("import", "delay") /\ UNCHANGED finalKek
       \/ /\ task["import"] = "delay"
          /\ BeginLoad("import") /\ Go("import", "reload") /\ UNCHANGED finalKek
       \/ /\ task["import"] = "reload"
          /\ EndLoad("import") /\ Go("import", "idle") /\ UNCHANGED finalKek
    /\ UNCHANGED <<auth, vault, app, route, batch, current, target>>

-----------------------------------------------------------------------------
(* HomeScreen._export *)

BeginExport(i) ==
    /\ busy' = "yes" /\ Go("export", "export")
    /\ V!ExportStart(i, kek)
    /\ UNCHANGED <<auth, target>>

\* Mistake: the error of kek! is not caught, and _busy stays up.
TapExport_StaysBusy(i) ==
    /\ "export" \in Events /\ Touchable /\ busy = "no" /\ task["export"] = "idle" /\ i \in items
    /\ UNCHANGED <<app, route, batch, current, finalKek, list>>
    /\ \/ A!isUnlocked /\ BeginExport(i)
       \/ SessionEnds /\ busy' = "yes" /\ UNCHANGED <<vault, task, target>>
       \/ /\ ~A!isUnlocked /\ Unlock("export", "auth") /\ Aim("export", i)
          /\ UNCHANGED <<vault, busy>>

\* If the session ends after line 245 has tested it, kek! of line 255 throws, and
\* the finally clause has dropped _busy before anything else runs.
TapExport(i) ==
    /\ "export" \in Events /\ Touchable /\ busy = "no" /\ task["export"] = "idle" /\ i \in items
    /\ UNCHANGED <<app, route, batch, current, finalKek, list>>
    /\ \/ A!isUnlocked /\ BeginExport(i)
       \/ SessionEnds /\ UNCHANGED <<vault, busy, task, target>>
       \/ /\ ~A!isUnlocked /\ Unlock("export", "auth") /\ Aim("export", i)
          /\ UNCHANGED <<vault, busy>>

ExportUnlocked ==
    /\ Answered("export")
    /\ UNCHANGED <<app, route, batch, current, finalKek, list>>
    /\ \/ pc["export"] = "true" /\ BeginExport(target["export"])
       \/ pc["export"] # "true" /\ Go("export", "idle") /\ UNCHANGED <<auth, vault, busy, target>>

\* The share sheet is shown for what was opened, and closed by the user.
ExportReturns ==
    /\ ~Turn
    /\ \/ /\ task["export"] = "export" /\ export.at = "returned"
          /\ Go("export", "share") /\ UNCHANGED busy
       \/ /\ \/ task["export"] = "export" /\ export.at = "threw"
             \/ task["export"] = "share" /\ app = "resumed"
          /\ Go("export", "idle") /\ busy' = "no"
    /\ UNCHANGED <<auth, vault, app, route, work, list>>

-----------------------------------------------------------------------------
(* HomeScreen._delete *)

TapDelete(i) ==
    /\ "delete" \in Events /\ Touchable /\ busy = "no" /\ task["delete"] = "idle" /\ i \in items
    /\ del[i] = "idle"
    /\ Aim("delete", i) /\ Go("delete", "dialog")
    /\ UNCHANGED <<auth, vault, app, route, busy, batch, current, finalKek, list>>

CancelDelete ==
    /\ ~Turn /\ app = "resumed" /\ task["delete"] = "dialog" /\ Go("delete", "idle")
    /\ UNCHANGED <<auth, vault, app, route, busy, work, list>>

ConfirmDelete ==
    /\ ~Turn /\ app = "resumed" /\ task["delete"] = "dialog"
    /\ UNCHANGED <<auth, app, route, work, list>>
    /\ busy' = "yes" /\ Go("delete", "remove")
    /\ V!DeleteLookMeta(target["delete"])
    /\ UNCHANGED <<source, temp, wrapped, imp, export>>

\* The reload after the deletion is not forced, and _busy is still raised: unless
\* another handler has dropped it, _load returns at once.
DeleteReturns ==
    /\ ~Turn /\ task["delete"] = "remove" /\ del[target["delete"]] \in {"gone", "idle"}
    /\ \/ /\ del[target["delete"]] = "gone" /\ busy = "no"
          /\ BeginLoad("delete") /\ Go("delete", "load")
       \/ /\ del[target["delete"]] = "gone" => busy = "yes"
          /\ busy' = "no" /\ Go("delete", "idle") /\ UNCHANGED list
    /\ UNCHANGED <<auth, vault, app, route, work>>

DeleteReloads ==
    /\ ~Turn /\ task["delete"] = "load" /\ EndLoad("delete") /\ Go("delete", "idle")
    /\ UNCHANGED <<auth, vault, app, route, work>>

-----------------------------------------------------------------------------
(* The services, the lifecycle and the clock *)

\* The storage keeps the key, so authenticate never has to make a new one.
AuthStep(h) ==
    /\ ~Turn
    /\ \/ A!CheckAvailable(h) \/ A!Prompt(h) \/ A!ReadKek(h) \/ A!InitRead(h)
       \/ A!InitWrite(h) \/ A!InitVerify(h)
    /\ UNCHANGED <<vault, ui, work, list>>

VaultStep ==
    /\ ~Turn
    /\ UNCHANGED <<auth, ui, work, list>>
    /\ \/ \E i \in Id : imp[i] # "unused" /\ V!Import(i)
       \/ \E i \in Id : del[i] # "idle" /\ V!Delete(i)
       \/ V!Export

\* didChangeAppLifecycleState: HomeScreen locks; LockScreen does not listen.
Pause ==
    /\ "pause" \in Events /\ ~Turn /\ app = "resumed"
    /\ app' = "paused"
    /\ IF route = "home" /\ kek # None THEN A!Lock ELSE UNCHANGED auth
    /\ UNCHANGED <<vault, route, busy, task, work, list>>

Resume ==
    /\ ~Turn /\ app = "paused" /\ app' = "resumed"
    /\ UNCHANGED <<auth, vault, route, busy, task, work, list>>

Tick == ~Turn /\ A!Tick /\ UNCHANGED <<vault, ui, work, list>>

Next ==
    \/ TapUnlock \/ UnlockContinues \/ EnterHome \/ Refresh \/ RefreshEnds
    \/ TapImport \/ ImportUnlocked \/ CancelPicker \/ (\E S \in SUBSET Id : PickFiles(S))
    \/ ImportReauthenticated \/ (\E i \in Id : ImportNext(i)) \/ ImportReturns \/ ImportLoads
    \/ (\E i \in Id : TapExport(i)) \/ ExportUnlocked \/ ExportReturns
    \/ (\E i \in Id : TapDelete(i)) \/ CancelDelete \/ ConfirmDelete
    \/ DeleteReturns \/ DeleteReloads
    \/ (\E h \in Handler : AuthStep(h)) \/ VaultStep \/ Pause \/ Resume \/ Tick

Spec == Init /\ [][Next]_vars

\* Plugins answer, timers fire and Dart runs what is ready; a prompt or a share
\* sheet that is open is closed by its user sooner or later, at one of the times
\* the app is in front.  Nobody has to tap anything.
Fairness ==
    /\ WF_vars(UnlockContinues) /\ WF_vars(EnterHome) /\ WF_vars(RefreshEnds)
    /\ WF_vars(ImportUnlocked) /\ WF_vars(ImportReauthenticated) /\ WF_vars(ImportReturns)
    /\ WF_vars(ImportLoads) /\ WF_vars(\E i \in Id : ImportNext(i))
    /\ WF_vars(ExportUnlocked) /\ SF_vars(ExportReturns)
    /\ WF_vars(DeleteReturns) /\ WF_vars(DeleteReloads)
    /\ WF_vars(\E h \in Handler : AuthStep(h)) /\ WF_vars(VaultStep) /\ WF_vars(Resume)

FairSpec == Spec /\ Fairness

-----------------------------------------------------------------------------
(* Properties *)

\* Every entry on disk is wrapped under the key that the secure storage holds, so
\* that any later session opens it: the kek object _import took before its loop
\* must still be the session's key when the last file of the batch is sealed.
SealedUnderStoredKey ==
    \A i \in Id : V!Complete(i) /\ i \notin deleted => wrapped[i] = stored

\* init looks whether a key exists so as never to replace one (auth_service.dart, line
\* 38), but it looks and writes in separate awaits.  In the app no key is ever replaced:
\* nothing calls init beside another call, and no handler's prompt comes before it returned.
KekNeverReplaced == [][stored # None => stored' = stored]_vars

\* Where no file operation fails, an export that line 255 has given a key comes to the
\* share sheet unless its entry is deleted: whatever becomes of the session meanwhile,
\* the key opens the entry, whichever session sealed it.
ExportOpens == export.at = "threw" => export.id \in deleted

\* The screen never stays busy: each handler's finally clause, or another's, drops
\* _busy, whatever fails and however often the app is left.
BusyEnds == busy = "yes" ~> busy = "no"

\* No document is lost (see VaultRepository), with the app used as the user likes.
NoDataLoss == V!NoDataLoss

\* The app as a whole keeps SecureVault's promise to each document: the session, the
\* batch, the deletions and the reloads never take one copy before the other exists.
Promise == INSTANCE SecureVault WITH
    Doc    <- Id,
    plain  <- {i \in Id : source[i] = "intact" \/ temp[i] = "intact"},
    sealed <- {i \in Id : V!Openable(i)},
    erased <- deleted

KeepsPromise == Promise!Spec

\* "Archivo eliminado del repositorio, recargando lista...", home_screen.dart:351:
\* when _delete has returned and no load is running, its entry is not on screen.
DeletedNotShown ==
    task["delete"] = "idle" /\ (\A l \in Load : snap[l] = None) =>
        \A i \in items : del[i] # "gone"
=============================================================================
