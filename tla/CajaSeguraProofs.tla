------------------------ MODULE CajaSeguraProofs ------------------------
(***************************************************************************)
(* Theorems of the app as a whole, for any number of files, keys, buffers  *)
(* and any clock.  First what each step of the app is to the two services  *)
(* and which call or import every handler waits for; from that the typing; *)
(* then, where nothing pauses the app, which key a batch holds, what an    *)
(* export finds, and that the app keeps SecureVault's promise.             *)
(***************************************************************************)
EXTENDS CajaSegura, TLAPS

AuthOp(h) ==
    \/ A!CallInit(h) \/ A!CallAuthenticate(h) \/ A!CheckAvailable(h) \/ A!Prompt(h)
    \/ A!ReadKek(h) \/ A!InitRead(h) \/ A!InitWrite(h) \/ A!InitVerify(h)

LEMMA AuthTyped ==
    ASSUME A!TypeOK, (\E h \in Handler : AuthOp(h)) \/ A!Lock \/ A!Tick \/ UNCHANGED auth
    PROVE  A!TypeOK'
<1>. USE DistinctAssumption DEF A!TypeOK, A!Ended, A!Pending, A!Goto, A!session
<1>1. ASSUME NEW h \in Handler, AuthOp(h) PROVE A!TypeOK'
  <2>1. CASE A!CallInit(h) \/ A!CallAuthenticate(h) \/ A!CheckAvailable(h)
    BY <2>1 DEF A!CallInit, A!CallAuthenticate, A!CheckAvailable, A!Begin
  <2>2. CASE A!Prompt(h)
    BY <2>2 DEF A!Prompt, A!Throws
  <2>3. CASE A!ReadKek(h)
    BY <2>3 DEF A!ReadKek, A!Install, A!Throws
  <2>4. CASE A!InitRead(h) \/ A!InitVerify(h)
    BY <2>4 DEF A!InitRead, A!InitVerify, A!InitReturns, A!Throws
  <2>5. CASE A!InitWrite(h)
    BY <2>5 DEF A!InitWrite, A!Throws
  <2>. QED  BY <1>1, <2>1, <2>2, <2>3, <2>4, <2>5 DEF AuthOp
<1>2. CASE A!Lock
  BY <1>2 DEF A!Lock, A!ClearSession, A!calls
<1>3. CASE A!Tick
  BY <1>3 DEF A!Tick, A!calls
<1>4. CASE UNCHANGED auth
  BY <1>4 DEF auth
<1>. QED  BY <1>1, <1>2, <1>3, <1>4


LEMMA VaultSteps ==
    ASSUME VaultTyped, NEW i \in Id, bytes \in [Buf -> Key \cup {Zeros, None}],
           imp[i] = "seal" => finalKek \in Buf,
           V!Import(i) \/ V!Delete(i) \/ V!Export
    PROVE  VaultTyped'
<1>. USE DEF VaultTyped, V!FileState, V!SourceState, V!ImportPc, V!Writing, V!Sealed, V!Undoing,
         V!DeletePc, V!ExportPc, V!NoExport, V!Goto, V!Set, V!Written, V!Throws, V!Original
<1>1. CASE V!Import(i)
  <2>. UNCHANGED <<del, saw, deleted, export>>
    BY <1>1 DEF V!Import, V!deletes
  <2>1. CASE V!ImportStart(i) \/ V!ImportRead(i) \/ V!ImportCheck(i) \/ V!ImportVerify(i) \/ V!ImportPoll(i)
    BY <2>1 DEF V!ImportStart, V!ImportRead, V!ImportCheck, V!ImportVerify, V!ImportPoll, V!files
  <2>2. CASE V!ImportSeal(i)
    <3>1. V!SealingKey(i) = bytes[finalKek]
      BY DEF V!SealingKey
    <3>. QED  BY <2>2, <3>1 DEF V!ImportSeal
  <2>3. CASE V!ImportWriteData(i) \/ V!ImportWriteMeta(i)
    BY <2>3 DEF V!ImportWriteData, V!ImportWriteMeta
  <2>4. CASE V!ImportDelete(i) \/ V!ImportRename(i) \/ V!ImportDeleteTemp(i)
    BY <2>4 DEF V!ImportDelete, V!ImportRename, V!ImportDeleteTemp
  <2>5. CASE V!ImportOverwrite(i) \/ V!ImportDeleteEmptied(i)
    BY <2>5 DEF V!ImportOverwrite, V!ImportDeleteEmptied
  <2>6. CASE V!ImportCleanData(i) \/ V!ImportCleanMeta(i)
    BY <2>6 DEF V!ImportCleanData, V!ImportCleanMeta
  <2>. QED  BY <1>1, <2>1, <2>2, <2>3, <2>4, <2>5, <2>6 DEF V!Import
<1>2. CASE V!Delete(i)
  <2>. UNCHANGED <<source, temp, wrapped, imp, export>>
    BY <1>2 DEF V!Delete, V!imports
  <2>1. CASE V!DeleteLookMeta(i) \/ V!DeleteLookData(i)
    BY <2>1 DEF V!DeleteLookMeta, V!DeleteLookData
  <2>2. CASE V!DeleteMeta(i) \/ V!DeleteData(i)
    BY <2>2 DEF V!DeleteMeta, V!DeleteData, V!Remove
  <2>. QED  BY <1>2, <2>1, <2>2 DEF V!Delete
<1>3. CASE V!Export
  <2>1. UNCHANGED <<source, temp, data, meta, wrapped, imp, del, saw, deleted>>
    BY <1>3 DEF V!Export, V!ExportFindMeta, V!ExportFindData, V!ExportReadMeta, V!ExportOpen,
         V!ExportGoto, V!files, V!imports, V!deletes
  <2>2. /\ export.at \in {"meta", "data", "read", "open"}
        /\ \E at \in V!ExportPc : export' = [export EXCEPT !.at = at]
    BY <1>3 DEF V!Export, V!ExportFindMeta, V!ExportFindData, V!ExportReadMeta, V!ExportOpen,
         V!ExportGoto
  <2>. QED  BY <2>1, <2>2
<1>. QED  BY <1>1, <1>2, <1>3


-----------------------------------------------------------------------------
(* What a step of the app is to AuthService *)

LEMMA AuthNext ==
    ASSUME [Next]_vars
    PROVE  \/ (\E h \in Handler : AuthOp(h)) \/ A!Tick \/ UNCHANGED auth
           \/ "pause" \in Events /\ A!Lock
<1>. USE DEF vars, ui, work, list, Unlock, AuthOp, Handler
<1>1. CASE TapUnlock \/ UnlockContinues \/ TapImport \/ ImportUnlocked \/ ImportReauthenticated
  BY <1>1 DEF TapUnlock, UnlockContinues, TapImport, ImportUnlocked, ImportReauthenticated
<1>2. CASE (\E S \in SUBSET Id : PickFiles(S)) \/ (\E i \in Id : TapExport(i)) \/ ExportUnlocked
  BY <1>2 DEF PickFiles, TapExport, ExportUnlocked, BeginExport, SessionEnds
<1>3. CASE (\E h \in Handler : AuthStep(h)) \/ Pause \/ Tick
  BY <1>3 DEF AuthStep, Pause, Tick
<1>. QED
  BY <1>1, <1>2, <1>3
     DEF Next, EnterHome, Refresh, RefreshEnds, CancelPicker, ImportNext, ImportReturns, ImportLoads,
         ExportReturns, TapDelete, CancelDelete, ConfirmDelete, DeleteReturns, DeleteReloads,
         VaultStep, Resume

\* The app uses AuthService as its own specification allows, with no fault of a plugin:
\* what AuthServiceProofs shows of every behaviour of the service holds inside the app.
THEOREM AppRunsAuth == Spec => A!Spec
<1>1. Init => A!Init
  BY DEF Init
<1>2. [Next]_vars => [A!Next]_(A!vars)
  <2>1. UNCHANGED auth => UNCHANGED A!vars
    BY DEF auth, A!vars, A!session, A!calls
  <2>2. ASSUME NEW h \in Handler, AuthOp(h) PROVE A!Next
    BY <2>2 DEF AuthOp, A!Next, A!Step
  <2>3. A!Tick \/ A!Lock => A!Next
    BY DEF A!Next
  <2>. QED  BY <2>1, <2>2, <2>3, AuthNext
<1>. QED  BY <1>1, <1>2, PTL DEF Spec, A!Spec

-----------------------------------------------------------------------------
(* The handlers and the calls they wait for *)

Waiting   == {"init", "auth", "reauth"}
Importing == {"read", "seal", "cleanData", "cleanMeta"} \cup V!Writing \cup (V!Sealed \ {"moved"})

\* A call is under way only for a handler that waits for it, one of them at a time has
\* an answer, and one that was let in finds the session its authenticate opened.
CallsInv ==
    \A h \in Handler :
        /\ pc[h] \in A!Pending => task[h] \in Waiting
        /\ task[h] = "init" => op[h] = "init"
        /\ task[h] \in {"auth", "reauth"} => op[h] = "authenticate"
        /\ Answered(h) /\ op[h] = "authenticate" /\ pc[h] = "true" => kek # None
        /\ \A o \in Handler : Answered(h) /\ Answered(o) => h = o

\* What a handler has on its hands is what its task needs.
WorkInv ==
    /\ \A i \in Id : imp[i] \in Importing => current = i
    /\ current # None => task["import"] = "files"
    /\ task["export"] \in Waiting => task["export"] = "auth" /\ target["export"] # None
    /\ task["delete"] \in {"dialog", "remove"} => target["delete"] # None

LEMMA AuthMoves ==
    ASSUME A!TypeOK, NEW h \in Handler, AuthOp(h)
    PROVE  /\ \A o \in Handler \ {h} : pc'[o] = pc[o] /\ op'[o] = op[o]
           /\ kek' # kek => pc[h] = "read" /\ pc'[h] = "true"
           /\ \/ A!CallAuthenticate(h) \/ A!CallInit(h)
              \/ /\ pc[h] \in A!Pending /\ op' = op
                 /\ op[h] = "authenticate" /\ pc'[h] = "true" => kek' # None
<1>. USE DistinctAssumption DEF A!TypeOK, A!Goto, A!Pending, A!session
<1>1. CASE A!CallInit(h) \/ A!CallAuthenticate(h)
  BY <1>1 DEF A!CallInit, A!CallAuthenticate, A!Begin
<1>2. CASE A!CheckAvailable(h) \/ A!Prompt(h)
  BY <1>2 DEF A!CheckAvailable, A!Prompt, A!Throws
<1>3. CASE A!InitWrite(h)
  BY <1>3 DEF A!InitWrite, A!Throws
<1>4. CASE A!ReadKek(h)
  BY <1>4 DEF A!ReadKek, A!Install, A!Throws
<1>5. CASE A!InitRead(h) \/ A!InitVerify(h)
  BY <1>5 DEF A!InitRead, A!InitVerify, A!InitReturns, A!Throws
<1>. QED  BY <1>1, <1>2, <1>3, <1>4, <1>5 DEF AuthOp

\* A handler that does not wait, or stops waiting once it is answered.
LEMMA CallsKept ==
    ASSUME CallsInv, UNCHANGED <<pc, op, kek>>,
           \A h \in Handler : task'[h] = task[h] \/ (task'[h] \notin Waiting /\ pc[h] \notin A!Pending)
    PROVE  CallsInv'
  BY DEF CallsInv, Answered, Waiting

LEMMA CallsAsk ==
    ASSUME TypeOK, CallsInv, NEW h \in Handler, NEW w \in Waiting, Go(h, w),
           (A!CallInit(h) /\ w = "init") \/ (A!CallAuthenticate(h) /\ w # "init")
    PROVE  CallsInv'
<1>1. /\ \A o \in Handler \ {h} : pc'[o] = pc[o] /\ op'[o] = op[o]
      /\ pc'[h] \in {"available", "existing"} /\ kek' = kek
      /\ op'[h] = IF w = "init" THEN "init" ELSE "authenticate"
  BY DEF TypeOK, A!TypeOK, A!CallInit, A!CallAuthenticate, A!Begin, A!session
<1>2. task'[h] = w /\ \A o \in Handler \ {h} : task'[o] = task[o]
  BY DEF TypeOK, Go
<1>. QED  BY <1>1, <1>2 DEF CallsInv, Answered, Waiting, A!Ended, A!Pending

LEMMA CallsAnswered ==
    ASSUME TypeOK, CallsInv, NEW h \in Handler, AuthStep(h)
    PROVE  CallsInv'
<1>1. AuthOp(h) /\ ~A!CallAuthenticate(h) /\ ~A!CallInit(h)
  BY DEF AuthStep, AuthOp, TypeOK, A!TypeOK, A!CheckAvailable, A!Prompt, A!ReadKek, A!InitRead,
     A!InitWrite, A!InitVerify, A!InitReturns, A!Install, A!Goto, A!CallAuthenticate, A!CallInit,
     A!Begin, A!Ended
<1>2. /\ \A o \in Handler \ {h} : pc'[o] = pc[o]
      /\ pc[h] \in A!Pending /\ op' = op
      /\ op[h] = "authenticate" /\ pc'[h] = "true" => kek' # None
      /\ task' = task
  BY <1>1, AuthMoves DEF TypeOK, AuthStep, ui
<1>3. \A o \in Handler : ~Answered(o)
  BY DEF AuthStep, Turn
<1>. QED  BY <1>2, <1>3 DEF CallsInv, Answered, Waiting

LEMMA CallsStep == TypeOK /\ CallsInv /\ WorkInv /\ [Next]_vars => CallsInv'
<1>. SUFFICES ASSUME TypeOK, CallsInv, WorkInv, [Next]_vars PROVE CallsInv'
  OBVIOUS
<1>. USE DEF Handler
<1>t. task \in [Handler \cup {"delete"} -> {task[h] : h \in Handler \cup {"delete"}}]
  BY DEF TypeOK
<1>g. ASSUME NEW h \in Handler \cup {"delete"}, NEW w, Go(h, w), w \notin Waiting,
             UNCHANGED <<pc, op, kek>>, h = "delete" \/ task[h] \notin Waiting \/ Answered(h)
      PROVE  CallsInv'
  <2>1. h \in Handler => pc[h] \notin A!Pending
    BY <1>g DEF CallsInv, Answered, A!Ended, A!Pending
  <2>2. \A o \in Handler : task'[o] = IF o = h THEN w ELSE task[o]
    BY <1>g, <1>t DEF Go
  <2>. QED  BY <1>g, <2>1, <2>2, CallsKept
<1>k. ASSUME UNCHANGED <<auth, task>> PROVE CallsInv'
  BY <1>k, CallsKept DEF auth
<1>e. SessionEnds => UNCHANGED <<pc, op, kek>>
  BY DEF SessionEnds, A!Tick, A!session, A!calls
<1>u. ASSUME NEW h \in Handler, NEW w \in {"auth", "reauth"}, Unlock(h, w) PROVE CallsInv'
  BY <1>u, CallsAsk DEF Unlock, Waiting
<1>1. CASE TapUnlock
  BY <1>1, CallsAsk DEF TapUnlock, Waiting
<1>2. CASE UnlockContinues
  <2>1. CASE Unlock("enter", "auth")
    BY <1>u, <2>1
  <2>2. CASE Go("enter", IF pc["enter"] = "true" THEN "delay" ELSE "idle") /\ UNCHANGED auth
    BY <1>2, <1>g, <2>2 DEF UnlockContinues, Waiting, auth
  <2>. QED  BY <1>2, <2>1, <2>2 DEF UnlockContinues
<1>3. CASE TapImport
  BY <1>3, <1>g, <1>u DEF TapImport, Waiting, auth
<1>4. CASE ImportUnlocked \/ ImportReauthenticated
  BY <1>4, <1>g DEF ImportUnlocked, ImportReauthenticated, Waiting, auth
<1>5. ASSUME NEW S \in SUBSET Id, PickFiles(S) PROVE CallsInv'
  BY <1>5, <1>e, <1>g, <1>u DEF PickFiles, Waiting, auth
<1>6. CASE CancelPicker \/ EnterHome \/ ImportLoads \/ ExportReturns
  BY <1>6, <1>g DEF CancelPicker, EnterHome, ImportLoads, ExportReturns, Waiting, auth
<1>7. CASE ImportReturns
  <2>1. UNCHANGED auth /\ (UNCHANGED task \/ Go("import", "idle")) /\ task["import"] = "files"
    BY <1>7 DEF ImportReturns, WorkInv
  <2>. QED  BY <1>g, <1>k, <2>1 DEF Waiting, auth
<1>8. ASSUME NEW i \in Id, TapExport(i) PROVE CallsInv'
  <2>1. CASE SessionEnds /\ UNCHANGED task
    BY <1>e, <2>1, CallsKept
  <2>. QED  BY <1>8, <1>g, <1>u, <2>1 DEF TapExport, BeginExport, Waiting, auth
<1>9. CASE ExportUnlocked
  BY <1>9, <1>g DEF ExportUnlocked, BeginExport, Waiting, auth
<1>10. CASE (\E i \in Id : TapDelete(i)) \/ CancelDelete \/ ConfirmDelete \/ DeleteReturns \/ DeleteReloads
  BY <1>10, <1>g DEF TapDelete, CancelDelete, ConfirmDelete, DeleteReturns, DeleteReloads, Waiting, auth
<1>11. CASE Pause
  <2>1. \A h \in Handler : ~Answered(h)
    BY <1>11 DEF Pause, Turn
  <2>2. UNCHANGED <<pc, op, task>>
    BY <1>11 DEF Pause, A!Lock, A!calls, auth
  <2>. QED  BY <2>1, <2>2 DEF CallsInv, Answered
<1>12. CASE Tick
  BY <1>12, CallsKept DEF Tick, A!Tick, A!session, A!calls, ui
<1>. QED
  BY <1>1, <1>2, <1>3, <1>4, <1>5, <1>6, <1>7, <1>8, <1>9, <1>10, <1>11, <1>12, <1>k, CallsAnswered
     DEF Next, vars, Refresh, RefreshEnds, ImportNext, VaultStep, Resume, ui


LEMMA ImportMoves ==
    ASSUME VaultTyped, NEW i \in Id, V!Import(i)
    PROVE  /\ \A o \in Id \ {i} : imp'[o] = imp[o]
           /\ \/ imp[i] = "unused" /\ imp'[i] = "read"
              \/ imp[i] \in Importing
<1>. USE DEF VaultTyped, V!Goto, V!Set, Importing, V!Writing, V!Sealed
<1>1. \E here \in {"unused"} \cup Importing, there \in V!ImportPc :
        V!Goto(i, here, there) /\ (here = "unused" => there = "read")
  <2>. USE DEF V!ImportPc, V!Undoing
  <2>1. CASE V!ImportStart(i) \/ V!ImportRead(i) \/ V!ImportSeal(i) \/ V!ImportWriteData(i)
    BY <2>1 DEF V!ImportStart, V!ImportRead, V!ImportSeal, V!ImportWriteData
  <2>2. CASE V!ImportWriteMeta(i) \/ V!ImportCheck(i) \/ V!ImportVerify(i) \/ V!ImportDelete(i)
    BY <2>2 DEF V!ImportWriteMeta, V!ImportCheck, V!ImportVerify, V!ImportDelete
  <2>3. CASE V!ImportPoll(i) \/ V!ImportRename(i) \/ V!ImportDeleteTemp(i) \/ V!ImportOverwrite(i)
    BY <2>3 DEF V!ImportPoll, V!ImportRename, V!ImportDeleteTemp, V!ImportOverwrite
  <2>4. CASE V!ImportDeleteEmptied(i) \/ V!ImportCleanData(i) \/ V!ImportCleanMeta(i)
    BY <2>4 DEF V!ImportDeleteEmptied, V!ImportCleanData, V!ImportCleanMeta
  <2>. QED  BY <2>1, <2>2, <2>3, <2>4 DEF V!Import
<1>. QED  BY <1>1

LEMMA WorkStep == TypeOK /\ CallsInv /\ WorkInv /\ [Next]_vars => WorkInv'
<1>. SUFFICES ASSUME TypeOK, CallsInv, WorkInv, [Next]_vars PROVE WorkInv'
  OBVIOUS
<1>. USE DistinctAssumption DEF Handler, work, Waiting
<1>t. /\ task \in [Handler \cup {"delete"} -> {task[h] : h \in Handler \cup {"delete"}}]
      /\ target \in [{"export", "delete"} -> Id \cup {None}] /\ VaultTyped
  BY DEF TypeOK
<1>k. ASSUME UNCHANGED <<imp, current, task, target>> PROVE WorkInv'
  BY <1>k DEF WorkInv
<1>h. ASSUME NEW h \in Handler \cup {"delete"}, NEW w, Go(h, w), UNCHANGED <<imp, current, target>>,
             h = "import" => task[h] # "files" \/ current = None,
             h = "export" => w \notin Waiting,
             h = "delete" => task[h] = "dialog" \/ w \notin {"dialog", "remove"}
      PROVE  WorkInv'
  BY <1>h, <1>t DEF WorkInv, Go
<1>1. CASE TapUnlock \/ UnlockContinues \/ EnterHome
  BY <1>1, <1>h DEF TapUnlock, UnlockContinues, EnterHome, Unlock, vault
<1>2. CASE TapImport \/ ImportUnlocked \/ CancelPicker \/ ImportReauthenticated
  BY <1>2, <1>h DEF TapImport, ImportUnlocked, CancelPicker, ImportReauthenticated, Unlock, vault
<1>3. ASSUME NEW S \in SUBSET Id, PickFiles(S) PROVE WorkInv'
  BY <1>3, <1>h DEF PickFiles, Unlock, vault
<1>4. ASSUME NEW i \in Id, ImportNext(i) PROVE WorkInv'
  <2>1. /\ current = None /\ current' = i /\ task["import"] = "files" /\ UNCHANGED <<task, target>>
        /\ V!ImportStart(i)
    BY <1>4 DEF ImportNext, ui
  <2>2. imp' = [imp EXCEPT ![i] = "read"]
    BY <2>1 DEF V!ImportStart, V!Goto, V!Set
  <2>. QED  BY <1>t, <2>1, <2>2 DEF WorkInv, VaultTyped
<1>5. CASE ImportReturns
  <2>1. /\ current # None /\ current' = None /\ imp[current] \in {"moved", "failed", "undone"}
        /\ UNCHANGED <<imp, target>> /\ (UNCHANGED task \/ Go("import", "idle"))
    BY <1>5 DEF ImportReturns, vault
  <2>2. \A i \in Id : imp[i] \notin Importing
    BY <2>1 DEF WorkInv, Importing, V!Sealed, V!Writing
  <2>3. task'["export"] = task["export"] /\ task'["delete"] = task["delete"]
    BY <1>t, <2>1 DEF Go
  <2>. QED  BY <2>1, <2>2, <2>3 DEF WorkInv
<1>6. CASE ImportLoads
  BY <1>6, <1>h DEF ImportLoads, vault
<1>7. ASSUME NEW i \in Id, TapExport(i) PROVE WorkInv'
  <2>1. CASE BeginExport(i)
    BY <1>7, <1>h, <2>1 DEF TapExport, BeginExport, V!ExportStart, V!imports
  <2>2. CASE Unlock("export", "auth") /\ Aim("export", i) /\ UNCHANGED vault
    <3>1. /\ target' = [target EXCEPT !["export"] = i] /\ task' = [task EXCEPT !["export"] = "auth"]
          /\ UNCHANGED <<imp, current>>
      BY <1>7, <2>2 DEF TapExport, Unlock, Go, Aim, vault
    <3>. QED  BY <1>t, <3>1 DEF WorkInv
  <2>3. CASE UNCHANGED <<vault, task, target>>
    BY <1>7, <1>k, <2>3 DEF TapExport, vault
  <2>. QED  BY <1>7, <2>1, <2>2, <2>3 DEF TapExport
<1>8. CASE ExportUnlocked
  BY <1>8, <1>h DEF ExportUnlocked, BeginExport, V!ExportStart, V!imports, vault
<1>9. CASE ExportReturns
  BY <1>9, <1>h DEF ExportReturns, vault
<1>10. ASSUME NEW i \in Id, TapDelete(i) PROVE WorkInv'
  <2>1. /\ target' = [target EXCEPT !["delete"] = i] /\ task' = [task EXCEPT !["delete"] = "dialog"]
        /\ UNCHANGED <<imp, current>>
    BY <1>10 DEF TapDelete, Go, Aim, vault
  <2>. QED  BY <1>t, <2>1 DEF WorkInv
<1>11. CASE CancelDelete \/ ConfirmDelete \/ DeleteReturns \/ DeleteReloads
  BY <1>11, <1>h DEF CancelDelete, ConfirmDelete, DeleteReturns, DeleteReloads, vault
<1>12. CASE VaultStep
  <2>1. UNCHANGED <<current, task, target>>
    BY <1>12 DEF VaultStep, ui
  <2>2. CASE UNCHANGED imp
    BY <1>k, <2>1, <2>2
  <2>3. ASSUME NEW i \in Id, imp[i] # "unused", V!Import(i) PROVE WorkInv'
    BY <1>t, <2>1, <2>3, ImportMoves DEF WorkInv
  <2>4. ASSUME NEW i \in Id, V!Delete(i) PROVE UNCHANGED imp
    BY <2>4 DEF V!Delete, V!imports
  <2>5. ASSUME V!Export PROVE UNCHANGED imp
    BY <2>5 DEF V!Export, V!ExportFindMeta, V!ExportFindData, V!ExportReadMeta, V!ExportOpen,
         V!ExportGoto, V!imports
  <2>. QED  BY <1>12, <2>2, <2>3, <2>4, <2>5 DEF VaultStep
<1>. QED
  BY <1>1, <1>2, <1>3, <1>4, <1>5, <1>6, <1>7, <1>8, <1>9, <1>10, <1>11, <1>12, <1>k
     DEF Next, vars, Refresh, RefreshEnds, AuthStep, Pause, Resume, Tick, ui, vault

\* What a step of the app is to the repository.
VaultOp == \E i \in Id : V!Import(i) \/ V!Delete(i) \/ V!Export

ExportBegins ==
    \E i \in Id :
        /\ V!ExportStart(i, kek) /\ kek # None
        /\ UNCHANGED <<auth, finalKek, target, list>>
        /\ i \in items \/ (task["export"] = "auth" /\ i = target["export"])

LEMMA VaultNext ==
    ASSUME TypeOK, CallsInv, WorkInv, [Next]_vars
    PROVE  UNCHANGED vault \/ (UNCHANGED <<auth, finalKek>> /\ VaultOp) \/ ExportBegins
<1>1. ASSUME NEW i \in Id, ImportNext(i) PROVE UNCHANGED <<auth, finalKek>> /\ VaultOp
  <2>1. V!ImportStart(i) /\ UNCHANGED <<del, saw, deleted, export, auth, finalKek>>
    BY <1>1 DEF ImportNext
  <2>2. UNCHANGED bytes
    BY <2>1 DEF auth
  <2>3. V!Import(i)
    BY <2>1, <2>2 DEF V!Import, V!choice, V!deletes, V!lists
  <2>. QED  BY <2>1, <2>3 DEF VaultOp
<1>2. ASSUME ConfirmDelete PROVE UNCHANGED <<auth, finalKek>> /\ VaultOp
  <2>1. /\ V!DeleteLookMeta(target["delete"])
        /\ UNCHANGED <<auth, finalKek, source, temp, wrapped, imp, export>>
    BY <1>2 DEF ConfirmDelete, work
  <2>2. UNCHANGED bytes /\ target["delete"] \in Id
    BY <2>1 DEF auth, V!DeleteLookMeta
  <2>3. V!Delete(target["delete"])
    BY <2>1, <2>2 DEF V!Delete, V!imports, V!choice, V!lists
  <2>. QED  BY <2>1, <2>2, <2>3 DEF VaultOp
<1>3. ASSUME VaultStep PROVE UNCHANGED <<auth, finalKek>> /\ VaultOp
  <2>1. CASE V!Export
    <3>1. export.at # "idle"
      BY <2>1 DEF V!Export, V!ExportFindMeta, V!ExportFindData, V!ExportReadMeta, V!ExportOpen,
           V!ExportGoto
    <3>2. Id # {}
      BY <3>1 DEF TypeOK, VaultTyped, V!NoExport
    <3>. QED  BY <1>3, <2>1, <3>2 DEF VaultStep, VaultOp, work
  <2>. QED  BY <1>3, <2>1 DEF VaultStep, VaultOp, work
<1>4. ASSUME (\E i \in Id : TapExport(i)) \/ ExportUnlocked
      PROVE  UNCHANGED vault \/ ExportBegins
  <2>1. ASSUME NEW i \in Id, TapExport(i), A!isUnlocked, BeginExport(i) PROVE ExportBegins
    BY <2>1 DEF TapExport, BeginExport, ExportBegins, A!isUnlocked
  <2>2. ASSUME ExportUnlocked, pc["export"] = "true", BeginExport(target["export"])
        PROVE  ExportBegins
    <3>1. task["export"] = "auth" /\ op["export"] = "authenticate"
      BY <2>2 DEF ExportUnlocked, Answered, CallsInv, WorkInv, Handler, Waiting
    <3>2. kek # None /\ target["export"] \in Id
      BY <2>2, <3>1 DEF ExportUnlocked, CallsInv, WorkInv, Handler, Waiting, TypeOK
    <3>3. V!ExportStart(target["export"], kek) /\ UNCHANGED <<auth, finalKek, target, list>>
      BY <2>2 DEF BeginExport, ExportUnlocked
    <3>. QED  BY <3>1, <3>2, <3>3 DEF ExportBegins
  <2>. QED  BY <1>4, <2>1, <2>2 DEF TapExport, ExportUnlocked
<1>. QED
  BY <1>1, <1>2, <1>3, <1>4
     DEF Next, vars, TapUnlock, UnlockContinues, EnterHome, Refresh, RefreshEnds, TapImport,
         ImportUnlocked, CancelPicker, PickFiles, ImportReauthenticated, ImportReturns, ImportLoads,
         ExportReturns, TapDelete, CancelDelete, DeleteReturns, DeleteReloads, AuthStep, Pause,
         Resume, Tick


-----------------------------------------------------------------------------
(* Typing *)

Tasks == {"idle", "init", "auth", "delay", "picker", "reauth", "files", "load", "reload", "export",
          "share", "dialog", "remove"}

UiTyped ==
    /\ app \in {"resumed", "paused"} /\ route \in {"lock", "home"} /\ busy \in {"no", "yes"}
    /\ task \in [Handler \cup {"delete"} -> Tasks]
    /\ batch \subseteq Id /\ current \in Id \cup {None}
    /\ finalKek \in Buf \cup {None} /\ (task["import"] = "files" => finalKek # None)
    /\ target \in [{"export", "delete"} -> Id \cup {None}]
    /\ snap \in [Load -> (SUBSET Id) \cup {None}] /\ items \subseteq Id

LEMMA UiStep == TypeOK /\ CallsInv /\ WorkInv /\ [Next]_vars => UiTyped'
<1>. SUFFICES ASSUME TypeOK, CallsInv, WorkInv, [Next]_vars PROVE UiTyped'
  OBVIOUS
<1>. USE DEF Handler, Tasks, Load, ui, work, list
<1>t. UiTyped /\ kek \in Buf \cup {None} /\ VaultTyped
  BY DEF TypeOK, UiTyped, A!TypeOK
<1>k. ASSUME UNCHANGED <<ui, work, list>> PROVE UiTyped'
  BY <1>k, <1>t DEF UiTyped
<1>h. ASSUME NEW h \in Handler \cup {"delete"}, NEW w \in Tasks, Go(h, w), w # "files",
             busy' \in {"no", "yes"}, UNCHANGED <<app, batch, current, target>>,
             finalKek' = finalKek \/ (finalKek' \in Buf \cup {None} /\ h = "import"),
             route' \in {"lock", "home"},
             snap' \in [Load -> (SUBSET Id) \cup {None}] /\ items' \subseteq Id
      PROVE  UiTyped'
  BY <1>h, <1>t DEF UiTyped, Go
<1>b. ASSUME NEW l \in Load, BeginLoad(l)
      PROVE  /\ busy' \in {"no", "yes"}
             /\ snap' \in [Load -> (SUBSET Id) \cup {None}] /\ items' \subseteq Id
  BY <1>b, <1>t DEF BeginLoad, Listable, UiTyped
<1>e. ASSUME NEW l \in Load, EndLoad(l)
      PROVE  /\ busy' \in {"no", "yes"}
             /\ snap' \in [Load -> (SUBSET Id) \cup {None}] /\ items' \subseteq Id
  BY <1>e, <1>t DEF EndLoad, UiTyped
<1>s. snap \in [Load -> (SUBSET Id) \cup {None}] /\ items \subseteq Id /\ busy \in {"no", "yes"}
      /\ route \in {"lock", "home"}
  BY <1>t DEF UiTyped
<1>1. CASE TapUnlock \/ UnlockContinues \/ TapImport \/ ImportUnlocked \/ CancelPicker
  BY <1>1, <1>h, <1>s DEF TapUnlock, UnlockContinues, TapImport, ImportUnlocked, CancelPicker, Unlock
<1>2. CASE EnterHome
  BY <1>2, <1>b, <1>h DEF EnterHome
<1>3. CASE Refresh \/ RefreshEnds
  BY <1>3, <1>b, <1>e, <1>t DEF Refresh, RefreshEnds, UiTyped
<1>4. ASSUME NEW S \in SUBSET Id, PickFiles(S) PROVE UiTyped'
  <2>1. /\ batch' \in {S, batch} /\ busy' \in {"yes", "no"}
        /\ UNCHANGED <<app, route, current, target, list>>
        /\ \/ kek # None /\ finalKek' = kek /\ Go("import", "files")
           \/ finalKek' = finalKek /\ (Go("import", "reauth") \/ Go("import", "idle"))
    BY <1>4 DEF PickFiles, Unlock, A!isUnlocked
  <2>. QED  BY <1>t, <2>1 DEF UiTyped, Go
<1>5. CASE ImportReauthenticated
  <2>1. kek # None \/ pc["import"] # "true"
    BY <1>5 DEF ImportReauthenticated, CallsInv
  <2>. QED  BY <1>5, <1>t, <2>1 DEF ImportReauthenticated, UiTyped, Go
<1>6. ASSUME NEW i \in Id, ImportNext(i) PROVE UiTyped'
  BY <1>6, <1>t DEF ImportNext, UiTyped
<1>7. CASE ImportReturns
  BY <1>7, <1>t DEF ImportReturns, UiTyped, Go
<1>8. CASE ImportLoads
  <2>1. \E w \in {"load", "delay", "reload", "idle"} : Go("import", w)
    BY <1>8 DEF ImportLoads
  <2>2. /\ UNCHANGED <<app, route, batch, current, target>>
        /\ finalKek' \in {finalKek, None} /\ (BeginLoad("import") \/ EndLoad("import"))
    BY <1>8 DEF ImportLoads
  <2>. QED  BY <1>b, <1>e, <1>h, <1>s, <2>1, <2>2
<1>9. ASSUME NEW i \in Id, TapExport(i) PROVE UiTyped'
  BY <1>9, <1>t DEF TapExport, BeginExport, Unlock, Aim, UiTyped, Go
<1>10. CASE ExportUnlocked \/ ExportReturns
  BY <1>10, <1>h, <1>s DEF ExportUnlocked, BeginExport, ExportReturns
<1>11. ASSUME NEW i \in Id, TapDelete(i) PROVE UiTyped'
  BY <1>11, <1>t DEF TapDelete, Aim, UiTyped, Go
<1>12. CASE CancelDelete \/ ConfirmDelete
  BY <1>12, <1>h, <1>s DEF CancelDelete, ConfirmDelete
<1>13. CASE DeleteReturns \/ DeleteReloads
  BY <1>13, <1>b, <1>e, <1>h, <1>s DEF DeleteReturns, DeleteReloads
<1>14. CASE Pause \/ Resume
  BY <1>14, <1>t DEF Pause, Resume, UiTyped
<1>. QED
  BY <1>1, <1>2, <1>3, <1>4, <1>5, <1>6, <1>7, <1>8, <1>9, <1>10, <1>11, <1>12, <1>13, <1>14, <1>k
     DEF Next, vars, AuthStep, VaultStep, Tick

AppInv == TypeOK /\ CallsInv /\ WorkInv

LEMMA AppStep == AppInv /\ [Next]_vars => AppInv'
<1>. SUFFICES ASSUME TypeOK, CallsInv, WorkInv, [Next]_vars PROVE TypeOK' /\ CallsInv' /\ WorkInv'
  BY DEF AppInv
<1>1. A!TypeOK'
  BY AuthNext, AuthTyped DEF TypeOK
<1>2. VaultTyped'
  <2>1. CASE UNCHANGED vault
    BY <2>1 DEF vault, VaultTyped, TypeOK
  <2>2. CASE VaultOp
    <3>1. PICK i \in Id : V!Import(i) \/ V!Delete(i) \/ V!Export
      BY <2>2 DEF VaultOp
    <3>2. imp[i] = "seal" => finalKek \in Buf
      BY DistinctAssumption DEF TypeOK, WorkInv, Importing
    <3>. QED  BY <3>1, <3>2, VaultSteps DEF TypeOK, A!TypeOK
  <2>3. CASE ExportBegins
    <3>1. PICK i \in Id : V!ExportStart(i, kek) /\ kek # None
      BY <2>3 DEF ExportBegins
    <3>2. export' = [at |-> "meta", id |-> i, buf |-> kek]
      BY <3>1 DEF V!ExportStart
    <3>3. kek \in Buf /\ "meta" \in V!ExportPc
      BY <3>1 DEF V!ExportPc, TypeOK, A!TypeOK
    <3>4. UNCHANGED <<source, temp, data, meta, wrapped, imp, del, saw, deleted>>
      BY <3>1 DEF V!ExportStart, V!files, V!imports, V!deletes
    <3>. QED  BY <3>2, <3>3, <3>4 DEF TypeOK, VaultTyped
  <2>. QED  BY <2>1, <2>2, <2>3, VaultNext
<1>3. UiTyped'
  BY UiStep
<1>. QED  BY <1>1, <1>2, <1>3, CallsStep, WorkStep DEF TypeOK, UiTyped, Tasks

LEMMA AppStarts == Init => AppInv
<1>. SUFFICES ASSUME Init PROVE AppInv
  OBVIOUS
<1>. USE DEF Init
<1>1. A!TypeOK
  BY DEF A!Init, A!TypeOK, A!Ended
<1>2. VaultTyped
  BY DEF VaultTyped, V!SourceState, V!FileState, V!ImportPc, V!DeletePc
<1>3. CallsInv
  BY DEF A!Init, A!Pending, CallsInv, Answered, Handler
<1>4. WorkInv
  BY DEF WorkInv, Importing, V!Writing, V!Sealed, Waiting, Handler
<1>. QED  BY <1>1, <1>2, <1>3, <1>4 DEF AppInv, TypeOK, Handler

\* Every variable of the app keeps its type under all events and file faults, and _import
\* holds a key while it has files to seal.
THEOREM AppTyping == Spec => []TypeOK
<1>1. AppInv => TypeOK
  BY DEF AppInv
<1>. QED  BY <1>1, AppStarts, AppStep, PTL DEF Spec


-----------------------------------------------------------------------------
(* The stored key, and the key of every entry where the app is never left *)

\* Only one init looks for the key at a time, no authenticate has to make one, and what
\* is about to be written is written to an empty storage.
StoredInv ==
    /\ ready = "yes" => stored # None
    /\ \A h \in Handler : pc[h] \in A!Pending =>
         \/ op[h] = "authenticate" /\ ready = "yes" /\ pc[h] \in {"available", "prompt", "read"}
         \/ /\ op[h] = "init" /\ pc[h] \in {"existing", "write", "verify"}
            /\ \A o \in Handler \ {h} : pc[o] \in A!Ended
    /\ \A h \in Handler : pc[h] = "write" => stored = None /\ fresh[h] # None

LEMMA StoredStep ==
    ASSUME A!TypeOK, StoredInv,
           (\E h \in Handler : AuthOp(h)) \/ A!Tick \/ A!Lock \/ UNCHANGED auth
    PROVE  StoredInv' /\ (stored # None => stored' = stored)
<1>. USE DistinctAssumption DEF A!Ended, A!Pending, A!Goto, A!session, A!Throws, StoredInv, A!TypeOK
<1>1. ASSUME NEW h \in Handler, A!CallInit(h) \/ A!CallAuthenticate(h)
      PROVE  StoredInv' /\ UNCHANGED stored
  <2>1. /\ UNCHANGED <<stored, fresh, ready>>
        /\ \A o \in Handler \ {h} : pc'[o] = pc[o] /\ op'[o] = op[o]
    BY <1>1 DEF A!CallInit, A!CallAuthenticate, A!Begin
  <2>2. CASE A!CallInit(h)
    <3>1. pc'[h] = "existing" /\ op'[h] = "init" /\ \A o \in Handler : pc[o] \in A!Ended
      BY <2>2 DEF A!CallInit, A!Begin
    <3>. QED  BY <2>1, <3>1
  <2>3. CASE A!CallAuthenticate(h)
    <3>1. /\ pc'[h] = "available" /\ op'[h] = "authenticate" /\ ready = "yes"
          /\ \A o \in Handler : op[o] = "init" => pc[o] \in A!Ended
      BY <2>3 DEF A!CallAuthenticate, A!Begin
    <3>. QED  BY <2>1, <3>1
  <2>. QED  BY <1>1, <2>2, <2>3
<1>2. ASSUME NEW h \in Handler, A!CheckAvailable(h) \/ A!Prompt(h) \/ A!ReadKek(h)
      PROVE  StoredInv' /\ UNCHANGED stored
  <2>1. CASE A!CheckAvailable(h) \/ A!Prompt(h)
    BY <2>1 DEF A!CheckAvailable, A!Prompt
  <2>2. CASE A!ReadKek(h)
    <3>1. pc[h] = "read" /\ ready = "yes" /\ stored # None /\ UNCHANGED <<stored, op, fresh, ready>>
      BY <2>2 DEF A!ReadKek, A!Install
    <3>2. A!Install(h, "read")
      BY <2>2, <3>1 DEF A!ReadKek
    <3>. QED  BY <3>1, <3>2 DEF A!Install
  <2>. QED  BY <1>2, <2>1, <2>2
<1>3. ASSUME NEW h \in Handler, A!InitRead(h) \/ A!InitVerify(h)
      PROVE  StoredInv' /\ UNCHANGED stored
  <2>1. pc[h] \in {"existing", "verify"} /\ op[h] = "init" /\ UNCHANGED <<stored, op>>
    BY <1>3 DEF A!InitRead, A!InitVerify, A!InitReturns
  <2>2. CASE A!InitReturns(h, "existing") \/ A!InitReturns(h, "verify")
    <3>1. UNCHANGED fresh
      BY <1>3, <2>2 DEF A!InitRead, A!InitVerify, A!InitReturns
    <3>. QED  BY <2>1, <2>2, <3>1 DEF A!InitReturns
  <2>3. CASE pc'[h] = "write"
    BY <1>3, <2>1, <2>3 DEF A!InitRead, A!InitVerify, A!InitReturns
  <2>. QED  BY <1>3, <2>1, <2>2, <2>3 DEF A!InitRead, A!InitVerify
<1>4. ASSUME NEW h \in Handler, A!InitWrite(h)
      PROVE  StoredInv' /\ (stored # None => stored' = stored)
  <2>1. /\ pc[h] = "write" /\ stored = None /\ UNCHANGED <<op, fresh, ready>>
        /\ \A o \in Handler \ {h} : pc[o] \in A!Ended
    BY <1>4 DEF A!InitWrite
  <2>. QED  BY <1>4, <2>1 DEF A!InitWrite
<1>5. CASE A!Tick \/ A!Lock \/ UNCHANGED auth
  BY <1>5 DEF A!Tick, A!Lock, A!calls, auth
<1>. QED  BY <1>1, <1>2, <1>3, <1>4, <1>5 DEF AuthOp

\* However the screens are used, left and entered again, the stored key is never replaced.
THEOREM KekIsKept == Spec => KekNeverReplaced
<1>1. Init => StoredInv
  BY DEF Init, A!Init, StoredInv, A!Pending
<1>2. AppInv /\ StoredInv /\ [Next]_vars => StoredInv' /\ (stored # None => stored' = stored)
  BY AuthNext, StoredStep DEF AppInv, TypeOK
<1>3. Spec => [](AppInv /\ StoredInv)
  BY <1>1, <1>2, AppStarts, AppStep, PTL DEF Spec
<1>4. AppInv /\ StoredInv /\ [Next]_vars => [stored # None => stored' = stored]_vars
  BY <1>2
<1>. QED  BY <1>3, <1>4, PTL DEF Spec, KekNeverReplaced

\* Whatever is written has a key to be read with: the storage keeps the first key it is
\* given, and every buffer holds that key.
SessionKeys ==
    /\ StoredInv
    /\ \A b \in Buf : bytes[b] \in {None, stored}
    /\ kek # None => bytes[kek] # None

\* A buffer that a batch or an export holds stays readable, and so does each entry.
HeldKeys ==
    /\ finalKek # None => bytes[finalKek] # None
    /\ export.at # "idle" => bytes[export.buf] # None
    /\ \A i \in Id : data[i] # "none" => wrapped[i] = stored /\ stored # None

LEMMA SessionKeysStep ==
    ASSUME A!TypeOK, SessionKeys,
           (\E h \in Handler : AuthOp(h)) \/ A!Tick \/ UNCHANGED auth
    PROVE  /\ SessionKeys'
           /\ stored # None => stored' = stored
           /\ \A b \in Buf : bytes[b] # None => bytes'[b] # None
<1>1. StoredInv' /\ (stored # None => stored' = stored)
  BY StoredStep DEF SessionKeys
<1>2. CASE UNCHANGED <<bytes, kek>>
  BY <1>1, <1>2, DistinctAssumption DEF SessionKeys, A!TypeOK
<1>3. CASE \E h \in Handler : A!ReadKek(h)
  <2>1. PICK h \in Handler : A!ReadKek(h)
    BY <1>3
  <2>2. stored # None /\ pc[h] = "read"
    BY <2>1 DEF A!ReadKek, A!Install, A!Goto, A!Throws, SessionKeys, StoredInv, A!Pending, A!Ended
  <2>3. A!Install(h, "read") /\ UNCHANGED stored
    BY <2>1, <2>2 DEF A!ReadKek, A!Throws
  <2>. QED  BY <1>1, <2>2, <2>3 DEF A!Install, SessionKeys, A!TypeOK
<1>. QED
  BY <1>1, <1>2, <1>3
     DEF AuthOp, A!CallInit, A!CallAuthenticate, A!CheckAvailable, A!Prompt, A!InitRead,
         A!InitWrite, A!InitVerify, A!Tick, A!session, auth

LEMMA SealMoves ==
    ASSUME VaultTyped, NEW i \in Id, V!Import(i) \/ V!Delete(i) \/ V!Export
    PROVE  /\ \A j \in Id :
                \/ wrapped'[j] = wrapped[j] /\ (data[j] = "none" => data'[j] = "none")
                \/ j = i /\ imp[i] = "seal" /\ wrapped'[i] = bytes[finalKek]
           /\ export'.at # "idle" => export.at # "idle" /\ export'.buf = export.buf
<1>. USE DEF VaultTyped, V!Goto, V!Set, V!Written
<1>1. CASE V!Import(i)
  <2>. UNCHANGED export
    BY <1>1 DEF V!Import
  <2>1. CASE V!ImportSeal(i)
    <3>1. V!SealingKey(i) = bytes[finalKek]
      BY DEF V!SealingKey
    <3>. QED  BY <2>1, <3>1 DEF V!ImportSeal
  <2>2. CASE V!ImportWriteData(i) \/ V!ImportCleanData(i)
    BY <2>2 DEF V!ImportWriteData, V!ImportCleanData
  <2>. QED
    BY <1>1, <2>1, <2>2
       DEF V!Import, V!ImportStart, V!ImportRead, V!ImportWriteMeta, V!ImportCheck, V!ImportVerify,
           V!ImportDelete, V!ImportPoll, V!ImportRename, V!ImportDeleteTemp, V!ImportOverwrite,
           V!ImportDeleteEmptied, V!ImportCleanMeta, V!files
<1>2. CASE V!Delete(i)
  <2>1. UNCHANGED <<wrapped, export>>
    BY <1>2 DEF V!Delete, V!imports
  <2>2. \A j \in Id : data[j] = "none" => data'[j] = "none"
    BY <1>2 DEF V!Delete, V!DeleteLookMeta, V!DeleteLookData, V!DeleteMeta, V!DeleteData, V!Remove
  <2>. QED  BY <2>1, <2>2
<1>3. CASE V!Export
  <2>1. UNCHANGED <<data, wrapped>>
    BY <1>3 DEF V!Export, V!ExportFindMeta, V!ExportFindData, V!ExportReadMeta, V!ExportOpen,
         V!ExportGoto, V!files, V!imports
  <2>2. /\ export.at \in {"meta", "data", "read", "open"}
        /\ \E at \in V!ExportPc : export' = [export EXCEPT !.at = at]
    BY <1>3 DEF V!Export, V!ExportFindMeta, V!ExportFindData, V!ExportReadMeta, V!ExportOpen,
         V!ExportGoto, V!ExportPc
  <2>. QED  BY <2>1, <2>2 DEF V!NoExport
<1>. QED  BY <1>1, <1>2, <1>3

\* The key of a batch is the session's, of the moment _import picked it up.
LEMMA BatchKey ==
    ASSUME [Next]_vars
    PROVE  finalKek' \in {finalKek, kek, None}
  BY DEF Next, vars, work, TapUnlock, UnlockContinues, EnterHome, Refresh, RefreshEnds, TapImport,
     ImportUnlocked, CancelPicker, PickFiles, ImportReauthenticated, ImportNext, ImportReturns,
     ImportLoads, TapExport, ExportUnlocked, ExportReturns, TapDelete, CancelDelete, ConfirmDelete,
     DeleteReturns, DeleteReloads, AuthStep, VaultStep, Pause, Resume, Tick

LEMMA KeysStep ==
    ASSUME "pause" \notin Events
    PROVE  AppInv /\ SessionKeys /\ HeldKeys /\ [Next]_vars => SessionKeys' /\ HeldKeys'
<1>. SUFFICES ASSUME AppInv, SessionKeys, HeldKeys, [Next]_vars PROVE SessionKeys' /\ HeldKeys'
  OBVIOUS
<1>t. TypeOK /\ CallsInv /\ WorkInv /\ A!TypeOK /\ VaultTyped /\ finalKek \in Buf \cup {None}
  BY DEF AppInv, TypeOK
<1>1. /\ SessionKeys'
      /\ stored # None => stored' = stored
      /\ \A b \in Buf : bytes[b] # None => bytes'[b] # None
  BY <1>t, AuthNext, SessionKeysStep
<1>2. (finalKek # None => bytes[finalKek] # None)'
  <2>1. finalKek' \in {finalKek, kek, None} /\ kek \in Buf \cup {None}
    BY <1>t, BatchKey DEF A!TypeOK
  <2>. QED  BY <1>1, <1>t, <2>1 DEF SessionKeys, HeldKeys
<1>b. export.at # "idle" => export.buf \in Buf
  BY <1>t DEF VaultTyped, V!NoExport
<1>3. CASE UNCHANGED vault
  BY <1>1, <1>2, <1>3, <1>b DEF HeldKeys, vault
<1>4. CASE UNCHANGED <<auth, finalKek>> /\ VaultOp
  <2>1. PICK i \in Id : V!Import(i) \/ V!Delete(i) \/ V!Export
    BY <1>4 DEF VaultOp
  <2>2. imp[i] = "seal" => bytes[finalKek] = stored /\ stored # None
    <3>1. imp[i] = "seal" => finalKek \in Buf
      BY <1>t, DistinctAssumption DEF TypeOK, WorkInv, Importing
    <3>. QED  BY <3>1, DistinctAssumption DEF SessionKeys, HeldKeys
  <2>3. UNCHANGED <<bytes, stored>>
    BY <1>4 DEF auth
  <2>. QED  BY <1>1, <1>2, <1>b, <1>t, <2>1, <2>2, <2>3, SealMoves DEF HeldKeys
<1>5. CASE ExportBegins
  <2>1. PICK i \in Id : V!ExportStart(i, kek) /\ kek # None /\ UNCHANGED auth
    BY <1>5 DEF ExportBegins
  <2>2. export' = [at |-> "meta", id |-> i, buf |-> kek] /\ UNCHANGED <<data, wrapped, bytes, stored>>
    BY <2>1 DEF V!ExportStart, V!files, V!imports, auth
  <2>. QED  BY <1>1, <1>2, <2>1, <2>2 DEF HeldKeys, SessionKeys
<1>. QED  BY <1>1, <1>3, <1>4, <1>5, <1>t, VaultNext

\* As long as the app is not left, every entry on disk is sealed under the key that the
\* secure storage holds: the batch's key stays the session's across re-authentications.
THEOREM KeyOutlivesSession ==
    ASSUME "pause" \notin Events
    PROVE  Spec => []SealedUnderStoredKey
<1>1. Init => SessionKeys /\ HeldKeys
  BY DEF Init, A!Init, SessionKeys, StoredInv, HeldKeys, A!Pending, V!NoExport
<1>2. HeldKeys => SealedUnderStoredKey
  BY DEF HeldKeys, SealedUnderStoredKey, V!Complete
<1>. QED  BY <1>1, <1>2, AppStarts, AppStep, KeysStep, PTL DEF Spec


-----------------------------------------------------------------------------
(* What a tap can ask for, where no file operation fails *)

\* The metadata may be all there before its write returns.
Filed == V!Sealed \cup {"writeMeta"}

Kept(i) == imp[i] \in Filed /\ (V!Complete(i) \/ i \in deleted)

\* No import fails, so an entry is parsed only once both its files are written, and it
\* then stays whole until somebody sets out to delete it.
StagesInv ==
    \A i \in Id :
        /\ imp[i] \in {"unused", "read", "seal", "writeData", "writeMeta", "check", "verify",
                       "delete", "poll", "moved"}
        /\ imp[i] \notin {"poll", "moved"} => source[i] = "intact"
        /\ imp[i] = "poll" => source[i] = "absent"
        /\ imp[i] \notin Filed => meta[i] # "whole"
        /\ imp[i] = "writeData" => data[i] # "none" \/ i \in deleted
        /\ imp[i] = "writeMeta" => (data[i] = "whole" /\ meta[i] # "none") \/ i \in deleted
        /\ imp[i] \in V!Sealed => V!Complete(i) \/ i \in deleted
        /\ del[i] # "idle" => i \in deleted

\* The entries on screen, in a load, or already asked for.
Offered ==
    {i \in Id :
        \/ i \in items
        \/ \E l \in Load : snap[l] # None /\ i \in snap[l]
        \/ task["export"] = "auth" /\ i = target["export"]
        \/ export.at # "idle" /\ i = export.id}

ShelfInv == StagesInv /\ ExportOpens /\ \A i \in Offered : Kept(i)

LEMMA StagesStep ==
    ASSUME VaultTyped, StagesInv, FileFaults = {}, NEW i \in Id,
           V!Import(i) \/ V!Delete(i) \/ V!Export
    PROVE  /\ StagesInv' /\ deleted \subseteq deleted'
           /\ \A j \in Id : Kept(j) => Kept(j)'
<1>. USE DEF VaultTyped, StagesInv, Filed, Kept, V!Goto, V!Set, V!Written, V!Throws, V!Original, V!Sealed, V!Complete
<1>1. CASE V!Import(i)
  <2>. UNCHANGED <<del, deleted>>
    BY <1>1 DEF V!Import, V!deletes
  <2>1. CASE V!ImportStart(i) \/ V!ImportRead(i) \/ V!ImportCheck(i) \/ V!ImportVerify(i) \/ V!ImportPoll(i)
    BY <2>1 DEF V!ImportStart, V!ImportRead, V!ImportCheck, V!ImportVerify, V!ImportPoll, V!files
  <2>2. CASE V!ImportSeal(i)
    BY <2>2 DEF V!ImportSeal
  <2>3. CASE V!ImportWriteData(i)
    BY <2>3 DEF V!ImportWriteData
  <2>4. CASE V!ImportWriteMeta(i)
    BY <2>4 DEF V!ImportWriteMeta
  <2>5. CASE V!ImportDelete(i)
    BY <2>5 DEF V!ImportDelete
  <2>6. ~V!ImportRename(i) /\ ~V!ImportDeleteTemp(i) /\ ~V!ImportOverwrite(i)
        /\ ~V!ImportDeleteEmptied(i) /\ ~V!ImportCleanData(i) /\ ~V!ImportCleanMeta(i)
    BY DEF V!ImportRename, V!ImportDeleteTemp, V!ImportOverwrite, V!ImportDeleteEmptied,
       V!ImportCleanData, V!ImportCleanMeta
  <2>. QED  BY <1>1, <2>1, <2>2, <2>3, <2>4, <2>5, <2>6 DEF V!Import
<1>2. CASE V!Delete(i)
  <2>. UNCHANGED <<source, imp>>
    BY <1>2 DEF V!Delete, V!imports
  <2>1. CASE V!DeleteLookMeta(i) \/ V!DeleteLookData(i)
    BY <2>1 DEF V!DeleteLookMeta, V!DeleteLookData
  <2>2. CASE V!DeleteMeta(i)
    BY <2>2 DEF V!DeleteMeta, V!Remove
  <2>3. CASE V!DeleteData(i)
    BY <2>3 DEF V!DeleteData, V!Remove
  <2>. QED  BY <1>2, <2>1, <2>2, <2>3 DEF V!Delete
<1>3. CASE V!Export
  <2>1. UNCHANGED <<source, data, meta, imp, del, deleted>>
    BY <1>3 DEF V!Export, V!ExportFindMeta, V!ExportFindData, V!ExportReadMeta, V!ExportOpen,
         V!ExportGoto, V!files, V!imports, V!deletes
  <2>. QED  BY <2>1
<1>. QED  BY <1>1, <1>2, <1>3

\* Each step of exportClear finds what it looks for.
LEMMA ExportFinds ==
    ASSUME AppInv, SessionKeys, HeldKeys, ShelfInv, FileFaults = {}, V!Export
    PROVE  ExportOpens' /\ export.at # "idle" /\ export'.id = export.id
<1>1. VaultTyped
  BY DEF AppInv, TypeOK
<1>2. export.at \in {"meta", "data", "read", "open"}
  BY DEF V!Export, V!ExportFindMeta, V!ExportFindData, V!ExportReadMeta, V!ExportOpen, V!ExportGoto
<1>3. export.id \in Id /\ export.buf \in Buf /\ export \in [at : V!ExportPc, id : Id, buf : Buf]
  BY <1>1, <1>2 DEF VaultTyped, V!NoExport
<1>4. V!Complete(export.id) \/ export.id \in deleted
  BY <1>2, <1>3 DEF ShelfInv, Kept, Offered
<1>5. bytes[export.buf] = stored
  BY <1>2, <1>3, DistinctAssumption DEF SessionKeys, HeldKeys
<1>6. V!Complete(export.id) =>
        meta[export.id] # "none" /\ data[export.id] # "none" /\ V!Parses(export.id)
        /\ V!Opens(export.id, export.buf)
  BY <1>3, <1>5 DEF HeldKeys, V!Complete, V!Parses, V!Opens
<1>7. /\ UNCHANGED deleted
      /\ \E at \in V!ExportPc : export' = [export EXCEPT !.at = at] /\ (at = "threw" => ~V!Complete(export.id))
  BY <1>6 DEF V!Export, V!ExportFindMeta, V!ExportFindData, V!ExportReadMeta, V!ExportOpen,
     V!ExportGoto, V!Throws, V!ExportPc, V!deletes
<1>. QED  BY <1>2, <1>3, <1>4, <1>7 DEF ExportOpens

LEMMA Offers ==
    ASSUME TypeOK, [Next]_vars
    PROVE  /\ items' \subseteq items \cup {i \in Id : \E l \in Load : snap[l] # None /\ i \in snap[l]}
           /\ \A l \in Load : snap'[l] \in {snap[l], None, Listable}
           /\ task'["export"] = "auth" =>
                \/ task["export"] = "auth" /\ target'["export"] = target["export"]
                \/ target'["export"] \in items
<1>. USE DEF Handler, Load
<1>t. /\ snap \in [Load -> (SUBSET Id) \cup {None}]
      /\ task \in [Handler \cup {"delete"} -> {task[h] : h \in Handler \cup {"delete"}}]
      /\ target \in [{"export", "delete"} -> Id \cup {None}]
  BY DEF TypeOK
<1>. DEFINE Lists == /\ items' \subseteq items \cup {i \in Id : \E l \in Load : snap[l] # None /\ i \in snap[l]}
                     /\ \A l \in Load : snap'[l] \in {snap[l], None, Listable}
            Aims  == task'["export"] = "auth" =>
                       \/ task["export"] = "auth" /\ target'["export"] = target["export"]
                       \/ target'["export"] \in items
<1>1. UNCHANGED list => Lists
  BY DEF list
<1>2. ASSUME NEW l \in Load, BeginLoad(l) \/ EndLoad(l) PROVE Lists
  BY <1>2, <1>t DEF BeginLoad, EndLoad
<1>3. UNCHANGED <<task, target>> => Aims
  OBVIOUS
<1>4. ASSUME NEW h \in {"enter", "import", "delete"}, NEW w, Go(h, w), target'["export"] = target["export"]
      PROVE  Aims
  BY <1>4, <1>t DEF Go
<1>5. ASSUME NEW w, Go("export", w), w # "auth" PROVE Aims
  BY <1>5, <1>t DEF Go
<1>. HIDE DEF Lists, Aims
<1>6. Lists
  BY <1>1, <1>2 DEF Next, vars, work, TapUnlock, UnlockContinues, EnterHome, Refresh, RefreshEnds, TapImport,
     ImportUnlocked, CancelPicker, PickFiles, ImportReauthenticated, ImportNext, ImportReturns,
     ImportLoads, TapExport, ExportUnlocked, ExportReturns, TapDelete, CancelDelete, ConfirmDelete,
     DeleteReturns, DeleteReloads, AuthStep, VaultStep, Pause, Resume, Tick
<1>7. Aims
  <2>1. CASE TapUnlock \/ UnlockContinues \/ EnterHome \/ TapImport \/ ImportUnlocked \/ CancelPicker
    BY <1>4, <2>1 DEF TapUnlock, UnlockContinues, EnterHome, TapImport, ImportUnlocked, CancelPicker,
       Unlock, work
  <2>2. CASE (\E S \in SUBSET Id : PickFiles(S)) \/ ImportReauthenticated \/ ImportLoads
    BY <1>4, <2>2 DEF PickFiles, ImportReauthenticated, ImportLoads, Unlock
  <2>3. CASE ImportReturns
    BY <1>3, <1>4, <2>3 DEF ImportReturns
  <2>4. ASSUME NEW i \in Id, TapExport(i) PROVE Aims
    <3>1. CASE BeginExport(i)
      BY <1>5, <3>1 DEF BeginExport
    <3>2. CASE Aim("export", i)
      BY <1>t, <2>4, <3>2 DEF TapExport, Aim, Aims
    <3>. QED  BY <1>3, <2>4, <3>1, <3>2 DEF TapExport
  <2>5. CASE ExportUnlocked \/ ExportReturns
    BY <1>5, <2>5 DEF ExportUnlocked, BeginExport, ExportReturns
  <2>6. CASE (\E i \in Id : TapDelete(i))
    BY <1>4, <1>t, <2>6 DEF TapDelete, Aim
  <2>7. CASE CancelDelete \/ ConfirmDelete \/ DeleteReturns \/ DeleteReloads
    BY <1>4, <2>7 DEF CancelDelete, ConfirmDelete, DeleteReturns, DeleteReloads, work
  <2>. QED
    BY <1>3, <2>1, <2>2, <2>3, <2>4, <2>5, <2>6, <2>7
       DEF Next, vars, ui, work, Refresh, RefreshEnds, ImportNext, AuthStep, VaultStep, Pause, Resume, Tick
<1>. QED  BY <1>6, <1>7 DEF Lists, Aims

LEMMA ShelfStep ==
    ASSUME FileFaults = {}
    PROVE  AppInv /\ SessionKeys /\ HeldKeys /\ ShelfInv /\ [Next]_vars => ShelfInv'
<1>. SUFFICES ASSUME AppInv, SessionKeys, HeldKeys, ShelfInv, [Next]_vars PROVE ShelfInv'
  OBVIOUS
<1>t. TypeOK /\ CallsInv /\ WorkInv /\ VaultTyped
  BY DEF AppInv, TypeOK
<1>1. /\ StagesInv' /\ deleted \subseteq deleted'
      /\ \A i \in Id : Kept(i) => Kept(i)'
  <2>1. CASE UNCHANGED vault
    BY <2>1 DEF vault, ShelfInv, StagesInv, Kept, V!Complete
  <2>2. CASE VaultOp
    BY <1>t, <2>2, StagesStep DEF VaultOp, ShelfInv
  <2>3. CASE ExportBegins
    <3>1. UNCHANGED <<source, data, meta, imp, del, deleted>>
      BY <2>3 DEF ExportBegins, V!ExportStart, V!files, V!imports, V!deletes
    <3>. QED  BY <3>1 DEF ShelfInv, StagesInv, Kept, V!Complete
  <2>. QED  BY <1>t, <2>1, <2>2, <2>3, VaultNext
<1>2. \A i \in Offered : Kept(i)'
  BY <1>1 DEF ShelfInv, Offered
<1>3. \A i \in Listable : Kept(i)'
  BY <1>1 DEF ShelfInv, StagesInv, Kept, Filed, V!Complete, Listable
<1>4. ExportOpens' /\ (export'.at # "idle" => export'.id \in Offered)
  <2>1. CASE UNCHANGED export
    BY <1>1, <1>t, <2>1 DEF ShelfInv, ExportOpens, Offered, VaultTyped, V!NoExport
  <2>2. CASE V!Export
    BY <1>t, <2>2, ExportFinds DEF Offered, VaultTyped, V!NoExport
  <2>3. ASSUME NEW i \in Id, V!Import(i) \/ V!Delete(i) PROVE UNCHANGED export
    BY <2>3 DEF V!Import, V!Delete
  <2>4. ASSUME NEW i \in Id, V!ExportStart(i, kek), i \in items \/ (task["export"] = "auth" /\ i = target["export"])
        PROVE  ExportOpens' /\ export'.id \in Offered
    <3>1. export' = [at |-> "meta", id |-> i, buf |-> kek]
      BY <2>4 DEF V!ExportStart
    <3>. QED  BY <2>4, <3>1 DEF ExportOpens, Offered
  <2>. QED  BY <1>t, <2>1, <2>2, <2>3, <2>4, VaultNext DEF VaultOp, ExportBegins, vault
<1>5. \A i \in Offered' : Kept(i)'
  <2>1. ASSUME NEW i \in Offered' PROVE i \in Offered \cup Listable
    <3>1. CASE i \in items'
      BY <1>t, <3>1, Offers DEF Offered
    <3>2. CASE \E l \in Load : snap'[l] # None /\ i \in snap'[l]
      BY <1>t, <2>1, <3>2, Offers DEF Offered
    <3>3. CASE task'["export"] = "auth" /\ i = target'["export"]
      BY <1>t, <2>1, <3>3, Offers DEF Offered
    <3>. QED  BY <1>4, <2>1, <3>1, <3>2, <3>3 DEF Offered
  <2>. QED  BY <1>2, <1>3, <2>1
<1>. QED  BY <1>1, <1>4, <1>5 DEF ShelfInv

\* Where no file operation fails and the app is not left, an export that was given a
\* key opens: no list shows an entry before it is whole, whichever session sealed it the
\* key of this one fits, and neither its expiry nor a later batch takes the key away.
THEOREM OfferedOpens ==
    ASSUME FileFaults = {}, "pause" \notin Events
    PROVE  Spec => []ExportOpens
<1>1. Init => SessionKeys /\ HeldKeys
  BY DEF Init, A!Init, SessionKeys, StoredInv, HeldKeys, A!Pending, V!NoExport
<1>2. Init => ShelfInv
  BY DEF Init, ShelfInv, StagesInv, ExportOpens, Offered, Handler, V!NoExport, V!Sealed
<1>3. ShelfInv => ExportOpens
  BY DEF ShelfInv
<1>. QED  BY <1>1, <1>2, <1>3, AppStarts, AppStep, KeysStep, ShelfStep, PTL DEF Spec



-----------------------------------------------------------------------------
(* No document is lost, whatever fails, where the app is never left *)

\* What FilesInv and CustodyInv say of the repository, of the imports of the app: the
\* platform ignores no delete, so that none needs a fallback, and the only original that
\* is gone is one whose entry is beyond undoing.
SafeInv ==
    \A i \in Id :
        /\ imp[i] \in {"unused", "read", "seal", "failed", "moved", "poll", "check", "verify",
                       "delete"} \cup V!Writing \cup V!Undoing
        /\ imp[i] \notin {"poll", "moved"} => source[i] = "intact"
        /\ imp[i] = "poll" => source[i] = "absent"
        /\ temp[i] = "absent"
        /\ imp[i] = "writeData" => data[i] # "none" \/ i \in deleted
        /\ imp[i] = "writeMeta" => (data[i] = "whole" /\ meta[i] # "none") \/ i \in deleted
        /\ imp[i] \in V!Sealed => V!Complete(i) \/ i \in deleted
        /\ del[i] # "idle" => i \in deleted

LEMMA SafeMoves ==
    ASSUME VaultTyped, SafeInv, NEW i \in Id, V!Import(i) \/ V!Delete(i) \/ V!Export
    PROVE  SafeInv'
<1>. USE EventsAssumption
     DEF VaultTyped, SafeInv, V!Goto, V!Set, V!Written, V!Original, V!Sealed, V!Writing, V!Undoing,
         V!Complete, V!SourceState, V!FileState
<1>1. CASE V!Import(i)
  <2>. UNCHANGED <<del, deleted>>
    BY <1>1 DEF V!Import, V!deletes
  <2>1. CASE V!ImportStart(i) \/ V!ImportRead(i) \/ V!ImportCheck(i) \/ V!ImportVerify(i) \/ V!ImportPoll(i)
    BY <2>1 DEF V!ImportStart, V!ImportRead, V!ImportCheck, V!ImportVerify, V!ImportPoll, V!files
  <2>2. CASE V!ImportSeal(i)
    BY <2>2 DEF V!ImportSeal
  <2>3. CASE V!ImportWriteData(i)
    BY <2>3 DEF V!ImportWriteData
  <2>4. CASE V!ImportWriteMeta(i)
    BY <2>4 DEF V!ImportWriteMeta
  <2>5. CASE V!ImportDelete(i)
    BY <2>5 DEF V!ImportDelete
  <2>6. CASE V!ImportCleanData(i) \/ V!ImportCleanMeta(i)
    BY <2>6 DEF V!ImportCleanData, V!ImportCleanMeta
  <2>7. ~V!ImportRename(i) /\ ~V!ImportDeleteTemp(i) /\ ~V!ImportOverwrite(i)
        /\ ~V!ImportDeleteEmptied(i)
    BY DEF V!ImportRename, V!ImportDeleteTemp, V!ImportOverwrite, V!ImportDeleteEmptied
  <2>. QED  BY <1>1, <2>1, <2>2, <2>3, <2>4, <2>5, <2>6, <2>7 DEF V!Import
<1>2. CASE V!Delete(i)
  <2>. UNCHANGED <<source, temp, imp>>
    BY <1>2 DEF V!Delete, V!imports
  <2>1. CASE V!DeleteLookMeta(i) \/ V!DeleteLookData(i)
    BY <2>1 DEF V!DeleteLookMeta, V!DeleteLookData
  <2>2. CASE V!DeleteMeta(i)
    BY <2>2 DEF V!DeleteMeta, V!Remove
  <2>3. CASE V!DeleteData(i)
    BY <2>3 DEF V!DeleteData, V!Remove
  <2>. QED  BY <1>2, <2>1, <2>2, <2>3 DEF V!Delete
<1>3. CASE V!Export
  <2>1. UNCHANGED <<source, temp, data, meta, imp, del, deleted>>
    BY <1>3 DEF V!Export, V!ExportFindMeta, V!ExportFindData, V!ExportReadMeta, V!ExportOpen,
         V!ExportGoto, V!files, V!imports, V!deletes
  <2>. QED  BY <2>1
<1>. QED  BY <1>1, <1>2, <1>3

LEMMA SafeStep == AppInv /\ SafeInv /\ [Next]_vars => SafeInv'
<1>. SUFFICES ASSUME AppInv, SafeInv, [Next]_vars PROVE SafeInv'
  OBVIOUS
<1>t. TypeOK /\ CallsInv /\ WorkInv /\ VaultTyped
  BY DEF AppInv, TypeOK
<1>1. CASE UNCHANGED vault
  BY <1>1 DEF vault, SafeInv, V!Complete
<1>2. CASE VaultOp
  BY <1>t, <1>2, SafeMoves DEF VaultOp
<1>3. CASE ExportBegins
  <2>1. UNCHANGED <<source, temp, data, meta, imp, del, deleted>>
    BY <1>3 DEF ExportBegins, V!ExportStart, V!files, V!imports, V!deletes
  <2>. QED  BY <2>1 DEF SafeInv, V!Complete
<1>. QED  BY <1>t, <1>1, <1>2, <1>3, VaultNext

Clear    == {i \in Id : source[i] = "intact" \/ temp[i] = "intact"}
Readable == {i \in Id : V!Openable(i)}

\* What has a data file opens with a key that exists once both files are written.
LEMMA ReadableIsComplete ==
    ASSUME AppInv, HeldKeys PROVE Readable = {i \in Id : V!Complete(i)}
<1>1. \A i \in Id : V!Complete(i) => wrapped[i] \in Key
  BY DistinctAssumption DEF AppInv, TypeOK, A!TypeOK, HeldKeys, V!Complete
<1>. QED  BY <1>1 DEF Readable, V!Openable

\* Every document is in the clear, can be read in the vault, or was deleted by its user.
LEMMA InCustody ==
    ASSUME AppInv, HeldKeys, SafeInv PROVE Id = Clear \cup Readable \cup deleted
<1>1. deleted \subseteq Id
  BY DEF AppInv, TypeOK, VaultTyped
<1>2. \A i \in Id : i \in Clear \/ V!Complete(i) \/ i \in deleted
  BY DEF SafeInv, Clear, V!Sealed
<1>. QED  BY <1>1, <1>2, ReadableIsComplete DEF Clear, Readable

\* As long as the app is not left no document is lost, though files fail, batches end
\* half-way and entries are deleted: the key each import seals with is one that exists.
THEOREM NothingIsLost ==
    ASSUME "pause" \notin Events
    PROVE  Spec => []NoDataLoss
<1>1. Init => SessionKeys /\ HeldKeys
  BY DEF Init, A!Init, SessionKeys, StoredInv, HeldKeys, A!Pending, V!NoExport
<1>2. Init => SafeInv
  BY DEF Init, SafeInv, V!Writing, V!Undoing, V!Sealed
<1>3. AppInv /\ HeldKeys /\ SafeInv => NoDataLoss
  BY InCustody DEF NoDataLoss, V!NoDataLoss, V!InVault, V!Erased, Clear, Readable
<1>. QED  BY <1>1, <1>2, <1>3, AppStarts, AppStep, KeysStep, SafeStep, PTL DEF Spec



-----------------------------------------------------------------------------
(* The promise to each document *)

\* A step of the vault changes the files of one entry: an import its own, which the user
\* has not yet asked to delete or has, and a deletion those of an entry he has.
LEMMA VaultFrame ==
    ASSUME VaultTyped, SafeInv, NEW i \in Id, V!Import(i) \/ V!Delete(i) \/ V!Export
    PROVE  /\ \A j \in Id \ {i} : /\ source'[j] = source[j] /\ temp'[j] = temp[j]
                                  /\ V!Complete(j)' = V!Complete(j)
           /\ V!Import(i) => /\ deleted' = deleted
                             /\ \/ source'[i] = source[i]
                                \/ /\ source[i] = "intact" /\ source'[i] = "absent"
                                   /\ UNCHANGED <<data, meta>>
           /\ ~V!Import(i) => /\ UNCHANGED <<source, temp>>
                              /\ \/ deleted' = deleted
                                 \/ deleted' = deleted \cup {i} /\ UNCHANGED <<data, meta>>
                              /\ i \in deleted \/ UNCHANGED <<data, meta>>
<1>. USE DEF VaultTyped, V!Goto, V!Set, V!Written, V!Complete
<1>1. CASE V!Import(i)
  <2>1. deleted' = deleted
    BY <1>1 DEF V!Import, V!deletes
  <2>2. /\ \A j \in Id \ {i} : /\ source'[j] = source[j] /\ temp'[j] = temp[j]
                               /\ data'[j] = data[j] /\ meta'[j] = meta[j]
        /\ \/ source'[i] = source[i]
           \/ source[i] = "intact" /\ source'[i] = "absent" /\ UNCHANGED <<data, meta>>
    <3>1. CASE V!ImportStart(i) \/ V!ImportRead(i) \/ V!ImportCheck(i) \/ V!ImportVerify(i) \/ V!ImportPoll(i)
      BY <3>1 DEF V!ImportStart, V!ImportRead, V!ImportCheck, V!ImportVerify, V!ImportPoll, V!files
    <3>2. CASE V!ImportSeal(i) \/ V!ImportWriteData(i) \/ V!ImportWriteMeta(i)
      BY <3>2 DEF V!ImportSeal, V!ImportWriteData, V!ImportWriteMeta
    <3>3. CASE V!ImportDelete(i)
      BY <3>3 DEF V!ImportDelete, SafeInv
    <3>4. ~V!ImportRename(i) /\ ~V!ImportDeleteTemp(i) /\ ~V!ImportOverwrite(i)
          /\ ~V!ImportDeleteEmptied(i)
      BY DEF V!ImportRename, V!ImportDeleteTemp, V!ImportOverwrite, V!ImportDeleteEmptied, SafeInv,
         V!Writing, V!Undoing
    <3>5. CASE V!ImportCleanData(i) \/ V!ImportCleanMeta(i)
      BY <3>5 DEF V!ImportCleanData, V!ImportCleanMeta
    <3>. QED  BY <1>1, <3>1, <3>2, <3>3, <3>4, <3>5 DEF V!Import
  <2>. QED  BY <1>1, <2>1, <2>2
<1>2. CASE ~V!Import(i) /\ V!Delete(i)
  <2>1. UNCHANGED <<source, temp>>
    BY <1>2 DEF V!Delete
  <2>2. CASE V!DeleteLookMeta(i) \/ V!DeleteLookData(i)
    BY <1>2, <2>1, <2>2 DEF V!DeleteLookMeta, V!DeleteLookData
  <2>3. CASE V!DeleteMeta(i) \/ V!DeleteData(i)
    <3>1. i \in deleted /\ deleted' = deleted
      BY <2>3 DEF V!DeleteMeta, V!DeleteData, V!Remove, SafeInv
    <3>2. \A j \in Id \ {i} : data'[j] = data[j] /\ meta'[j] = meta[j]
      BY <2>3 DEF V!DeleteMeta, V!DeleteData, V!Remove
    <3>. QED  BY <1>2, <2>1, <3>1, <3>2
  <2>. QED  BY <1>2, <2>2, <2>3 DEF V!Delete
<1>3. CASE ~V!Import(i) /\ V!Export
  <2>1. UNCHANGED <<source, temp, data, meta, deleted>>
    BY <1>3 DEF V!Export, V!ExportFindMeta, V!ExportFindData, V!ExportReadMeta, V!ExportOpen,
         V!ExportGoto, V!files, V!deletes
  <2>. QED  BY <1>3, <2>1
<1>. QED  BY <1>1, <1>2, <1>3

LEMMA PromiseStep ==
    ASSUME AppInv, HeldKeys, SafeInv, AppInv', HeldKeys', SafeInv', [Next]_vars
    PROVE  [Promise!Next]_(Promise!custody)
<1>t. TypeOK /\ CallsInv /\ WorkInv /\ VaultTyped /\ deleted' \in SUBSET Id
  BY DEF AppInv, TypeOK, VaultTyped
<1>r. Readable = {i \in Id : V!Complete(i)} /\ Readable' = {i \in Id : V!Complete(i)'}
  <2>1. Readable = {i \in Id : V!Complete(i)}
    BY ReadableIsComplete
  <2>2. \A i \in Id : V!Complete(i)' => wrapped'[i] \in Key
    BY DistinctAssumption DEF AppInv, TypeOK, A!TypeOK, HeldKeys, V!Complete
  <2>. QED  BY <2>1, <2>2 DEF Readable, V!Openable
<1>c. /\ Id = Clear \cup Readable \cup deleted
      /\ Id = Clear' \cup Readable' \cup deleted'
  <2>1. \A i \in Id : i \in Clear' \/ V!Complete(i)' \/ i \in deleted'
    BY DEF SafeInv, Clear, V!Sealed
  <2>. QED  BY <1>r, <1>t, <2>1, InCustody DEF Clear, Readable
<1>s. /\ \A i \in Id : Clear' = Clear /\ deleted' = deleted /\ i \in Clear \cup deleted
           /\ Readable' = Readable \cup {i} => [Promise!Next]_(Promise!custody)
      /\ \A i \in Id : Clear' = Clear \ {i} /\ deleted' = deleted /\ i \in Readable \cup deleted
           /\ Readable' = Readable => [Promise!Next]_(Promise!custody)
      /\ \A i \in Id : Clear' = Clear /\ deleted' = deleted /\ i \in Clear \cup deleted
           /\ Readable' = Readable \ {i} => [Promise!Next]_(Promise!custody)
      /\ \A S \in SUBSET Id : Clear' = Clear /\ Readable' = Readable
           /\ deleted' = deleted \cup S => [Promise!Next]_(Promise!custody)
  BY DEF Promise!Next, Promise!Seal, Promise!Destroy, Promise!Drop, Promise!Erase, Clear, Readable
<1>e. Clear' = Clear /\ Readable' = Readable /\ deleted' = deleted
        => [Promise!Next]_(Promise!custody)
  BY DEF Promise!custody, Clear, Readable
<1>1. CASE UNCHANGED vault
  BY <1>1, <1>e, <1>r DEF vault, Clear, V!Complete
<1>2. CASE ExportBegins
  <2>1. UNCHANGED <<source, temp, data, meta, deleted>>
    BY <1>2 DEF ExportBegins, V!ExportStart, V!files, V!deletes
  <2>. QED  BY <1>e, <1>r, <2>1 DEF Clear, V!Complete
<1>3. CASE VaultOp
  <2>1. PICK i \in Id : V!Import(i) \/ V!Delete(i) \/ V!Export
    BY <1>3 DEF VaultOp
  <2>2. \A j \in Id \ {i} : /\ source'[j] = source[j] /\ temp'[j] = temp[j]
                            /\ V!Complete(j)' = V!Complete(j)
    BY <1>t, <2>1, VaultFrame
  <2>3. /\ Readable' \in {Readable, Readable \cup {i}, Readable \ {i}}
        /\ Clear' \in {Clear, Clear \cup {i}, Clear \ {i}}
    BY <1>r, <2>2 DEF Clear
  <2>4. UNCHANGED <<data, meta>> => Readable' = Readable
    BY <1>r DEF V!Complete
  <2>5. CASE V!Import(i)
    <3>1. /\ deleted' = deleted
          /\ source'[i] # source[i] =>
               source[i] = "intact" /\ source'[i] = "absent" /\ UNCHANGED <<data, meta>>
      BY <1>t, <2>5, VaultFrame
    <3>2. temp[i] = "absent" /\ temp'[i] = "absent"
      BY DEF SafeInv
    <3>3. CASE source'[i] = source[i]
      <4>1. Clear' = Clear
        BY <2>2, <3>2, <3>3 DEF Clear
      <4>2. CASE Readable' = Readable
        BY <1>e, <3>1, <4>1, <4>2
      <4>3. CASE Readable' # Readable
        <5>1. i \in Clear \cup deleted
          BY <1>c, <2>3, <3>1, <4>1, <4>3
        <5>. QED  BY <1>s, <2>3, <3>1, <4>1, <4>3, <5>1
      <4>. QED  BY <4>2, <4>3
    <3>4. CASE source'[i] # source[i]
      <4>1. Readable' = Readable
        BY <2>4, <3>1, <3>4
      <4>2. i \notin Clear' /\ Clear' = Clear \ {i}
        BY <2>3, <3>1, <3>2, <3>4 DEF Clear
      <4>3. i \in Readable \cup deleted
        BY <1>c, <3>1, <4>1, <4>2
      <4>. QED  BY <1>s, <3>1, <4>1, <4>2, <4>3
    <3>. QED  BY <3>3, <3>4
  <2>6. CASE ~V!Import(i)
    <3>1. /\ UNCHANGED <<source, temp>>
          /\ deleted' = deleted \/ (deleted' = deleted \cup {i} /\ UNCHANGED <<data, meta>>)
          /\ i \in deleted \/ UNCHANGED <<data, meta>>
      BY <1>t, <2>1, <2>6, VaultFrame
    <3>2. Clear' = Clear
      BY <3>1 DEF Clear
    <3>3. CASE UNCHANGED <<data, meta>>
      <4>1. \E S \in SUBSET Id : deleted' = deleted \cup S
        BY <1>t, <3>1
      <4>. QED  BY <1>s, <2>4, <3>2, <3>3, <4>1
    <3>4. CASE i \in deleted /\ deleted' = deleted
      BY <1>e, <1>s, <2>3, <3>2, <3>4
    <3>. QED  BY <3>1, <3>3, <3>4
  <2>. QED  BY <2>5, <2>6
<1>. QED  BY <1>t, <1>1, <1>2, <1>3, VaultNext

\* As long as the app is not left it keeps SecureVault's promise: of a document that its
\* user has not deleted no copy goes before the other exists, in any interleaving of the
\* screens' handlers, the session's end and the failures of the file system.
THEOREM AppKeepsItsPromise ==
    ASSUME "pause" \notin Events
    PROVE  Spec => KeepsPromise
<1>1. Init => SessionKeys /\ HeldKeys
  BY DEF Init, A!Init, SessionKeys, StoredInv, HeldKeys, A!Pending, V!NoExport
<1>2. Init => SafeInv
  BY DEF Init, SafeInv, V!Writing, V!Undoing, V!Sealed
<1>3. Init => Promise!Init
  BY DEF Init, Promise!Init, V!Openable, V!Complete
<1>. DEFINE Inv == AppInv /\ SessionKeys /\ HeldKeys /\ SafeInv
<1>4. Spec => []Inv
  BY <1>1, <1>2, AppStarts, AppStep, KeysStep, SafeStep, PTL DEF Spec
<1>5. Inv /\ Inv' /\ [Next]_vars => [Promise!Next]_(Promise!custody)
  BY PromiseStep
<1>. QED  BY <1>3, <1>4, <1>5, PTL DEF Spec, KeepsPromise, Promise!Spec
=============================================================================
