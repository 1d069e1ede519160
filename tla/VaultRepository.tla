-------------------------- MODULE VaultRepository --------------------------
(***************************************************************************)
(* The vault directory and the operations of VaultRepository on it.        *)
(*                                                                         *)
(* A vault entry is two files, <id>.enc (data) and <id>.json (meta); a     *)
(* user file is moved in by importFile, which seals it, writes both files  *)
(* and then destroys the original.  Every action is the code between two   *)
(* awaits, so any number of calls interleave at awaits, and the process    *)
(* may be killed between any two of them.                                  *)
(*                                                                         *)
(* A file that is being written is "partial" from the start and becomes    *)
(* "whole" when the write returns, or before: others may read, list or     *)
(* delete it while the flush is still under way, and the flush, the close  *)
(* or a kill may still fail the import.  Names, sizes, MIME types and      *)
(* dates are abstracted away.  moveFile is TRUE, its default and *)
(* the value its only caller passes.  exists() followed by delete() on one *)
(* file is one step, and the writes and deletes of a file that another     *)
(* call has unlinked behave as on a POSIX file system.                     *)
(***************************************************************************)
EXTENDS FiniteSets

CONSTANTS
    Doc,     \* files of the user, outside the vault
    Id,      \* the fresh v4 uuids importFile draws, one per import
    Buf,     \* the Uint8List objects a caller passes as kek
    Key,     \* values of the master key
    Zeros,   \* the content of a buffer that AuthService.lock has wiped
    Faults,  \* what the platform may do to us, see below
    Calls    \* the operations that run beside importFile

(***************************************************************************)
(* "io": a file operation throws.  "deleteIgnored": delete returns and the *)
(* user's file is still there, the case lines 136-180 defend against.      *)
(* "lock": AuthService.lock wipes a buffer that a call still holds.        *)
(* "crash": the process is killed and started again.                       *)
(***************************************************************************)
ASSUME ZerosAssumption  == Zeros \notin Key
ASSUME FaultsAssumption == Faults \subseteq {"io", "deleteIgnored", "lock", "crash"}
ASSUME CallsAssumption  == Calls \subseteq {"delete", "wipe", "list", "export"}

VARIABLES
    source,   \* Doc -> state of the file at its original path
    temp,     \* Id  -> state of <source>.temp_delete_<ms> made by that import
    data,     \* Id  -> state of <id>.enc
    meta,     \* Id  -> state of <id>.json
    wrapped,  \* Id  -> the key that wraps the entry's DEK
    bytes,    \* Buf -> the key bytes the buffer holds now
    imp,      \* Id  -> where the import that draws this id is
    from,     \* Id  -> the document it imports
    keyBuf,   \* Id  -> the kek object it is given
    del,      \* Id  -> where deleteById(id) is
    saw,      \* Id  -> which of the two files deleteById found to exist
    wipe,     \* files wipeAll has still to visit
    deleted,  \* ids deleteById or wipeAll has set out to delete
    listing,  \* "reading" while a listAll runs, else "idle"
    scan,     \* metadata files it has still to read
    found,    \* the ids it has parsed
    shown,    \* the ids the last finished listAll returned
    export    \* the running, or last, exportClear

files   == <<source, temp, data, meta>>
choice  == <<from, keyBuf>>
imports == <<wrapped, imp, choice>>
deletes == <<del, saw, wipe, deleted>>
lists   == <<listing, scan, found, shown>>
vars    == <<files, imports, bytes, deletes, lists, export>>

-----------------------------------------------------------------------------

FileState   == {"none", "partial", "whole"}
SourceState == {"absent", "emptied", "intact"}

\* The stages of an import that has written both files and has not failed.
Sealed  == {"check", "verify", "delete", "poll", "rename", "deleteTemp",
            "overwrite", "deleteEmptied", "moved"}
Undoing == {"cleanData", "cleanMeta", "undone"}
Writing == {"writeData", "writeMeta"}

ImportPc == {"unused", "read", "seal", "failed", "crashed"}
                \cup Writing \cup Sealed \cup Undoing
DeletePc == {"idle", "lookData", "rmMeta", "rmData", "gone"}
ExportPc == {"meta", "data", "read", "open", "returned", "threw"}
NoExport == [at |-> "idle"]

TypeOK ==
    /\ source  \in [Doc -> SourceState]
    /\ temp    \in [Id -> SourceState]
    /\ data    \in [Id -> FileState]
    /\ meta    \in [Id -> FileState]
    /\ wrapped \in [Id -> Key \cup {Zeros}]
    /\ bytes   \in [Buf -> Key \cup {Zeros}]
    /\ imp     \in [Id -> ImportPc]
    /\ from    \in [Id -> Doc]
    /\ keyBuf  \in [Id -> Buf]
    /\ del     \in [Id -> DeletePc]
    /\ saw     \in [Id -> SUBSET {"meta", "data"}]
    /\ wipe    \subseteq Id \X {"meta", "data"}
    /\ deleted \subseteq Id
    /\ listing \in {"idle", "reading"}
    /\ scan    \subseteq Id
    /\ found   \subseteq Id
    /\ shown   \subseteq Id
    /\ export  \in {NoExport} \cup [at: ExportPc, id: Id, buf: Buf]

\* The user's documents are outside, the vault directory is empty and every
\* buffer holds a real key.
Init ==
    /\ source  = [d \in Doc |-> "intact"]
    /\ temp    = [i \in Id |-> "absent"]
    /\ data    = [i \in Id |-> "none"]
    /\ meta    = [i \in Id |-> "none"]
    /\ wrapped = [i \in Id |-> Zeros]
    /\ bytes   \in [Buf -> Key]
    /\ imp     = [i \in Id |-> "unused"]
    /\ from    \in [Id -> Doc]
    /\ keyBuf  \in [Id -> Buf]
    /\ del     = [i \in Id |-> "idle"]
    /\ saw     = [i \in Id |-> {}]
    /\ wipe    = {}
    /\ deleted = {}
    /\ listing = "idle"
    /\ scan    = {}
    /\ found   = {}
    /\ shown   = {}
    /\ export  = NoExport

Throws == "io" \in Faults

Set(f, x, v) == [f EXCEPT ![x] = v]

\* All of a file is written; it may have been unlinked under the writer.
Written(f, i) == [f EXCEPT ![i] = IF @ = "none" THEN "none" ELSE "whole"]

-----------------------------------------------------------------------------
(* importFile.  The frame all its steps share is in Import.                  *)

Goto(i, here, there) == imp[i] = here /\ imp' = Set(imp, i, there)

Original(i) == source[from[i]]

(* Mistakes the properties must notice: each stands for the step it is       *)
(* named after, got wrong.                                                   *)

\* Keeps the caller's list in the envelope instead of what it holds.
ImportSeal_ByReference(i) ==
    /\ Goto(i, "seal", "writeData")
    /\ wrapped' = Set(wrapped, i, keyBuf[i]) /\ data' = Set(data, i, "partial")
    /\ UNCHANGED <<source, temp, meta>>

\* A failed write is logged and the import carries on.
ImportWriteData_Swallow(i) ==
    /\ Goto(i, "writeData", "writeMeta") /\ meta' = Set(meta, i, "partial")
    /\ data' = Written(data, i) \/ (Throws /\ UNCHANGED data)
    /\ UNCHANGED <<source, temp, wrapped>>

ImportWriteMeta_Swallow(i) ==
    /\ Goto(i, "writeMeta", "check")
    /\ meta' = Written(meta, i) \/ (Throws /\ UNCHANGED meta)
    /\ UNCHANGED <<source, temp, data, wrapped>>

\* The catch of line 186 does not rethrow.
ImportVerify_Swallow(i) ==
    /\ \/ Original(i) # "absent" /\ Goto(i, "verify", "delete")
       \/ (Original(i) = "absent" \/ Throws) /\ Goto(i, "verify", "moved")
    /\ UNCHANGED <<files, wrapped>>

ImportStart(i) ==
    /\ Original(i) # "absent" /\ Goto(i, "unused", "read")
    /\ UNCHANGED <<files, wrapped>>

\* readAsBytes; an empty file is refused.
ImportRead(i) ==
    /\ \/ Original(i) = "intact" /\ Goto(i, "read", "seal")
       \/ (Original(i) # "intact" \/ Throws) /\ Goto(i, "read", "failed")
    /\ UNCHANGED <<files, wrapped>>

\* encryptWithWrappedKey: a fresh DEK seals the content and is sealed in turn with
\* what the caller's kek object holds by then, long after importFile was given it.
SealingKey(i) == bytes[keyBuf[i]]

\* The envelope is made and the write of <id>.enc begins.
ImportSeal(i) ==
    /\ \/ /\ Goto(i, "seal", "writeData")
          /\ wrapped' = Set(wrapped, i, SealingKey(i))
          /\ data' = Set(data, i, "partial")
       \/ Throws /\ Goto(i, "seal", "failed") /\ UNCHANGED <<wrapped, data>>
    /\ UNCHANGED <<source, temp, meta>>

\* The write returns; or all is written and the flush goes on; or it throws, at
\* any point of the two.  Lines 106-107 are outside the try that cleans up: a
\* throw leaves the files as they are.
ImportWriteData(i) ==
    /\ \/ /\ Goto(i, "writeData", "writeMeta")
          /\ data' = Written(data, i) /\ meta' = Set(meta, i, "partial")
       \/ /\ Goto(i, "writeData", "writeData")
          /\ data' = Written(data, i) /\ UNCHANGED meta
       \/ Throws /\ Goto(i, "writeData", "failed") /\ UNCHANGED <<data, meta>>
    /\ UNCHANGED <<source, temp, wrapped>>

ImportWriteMeta(i) ==
    /\ \/ \E there \in {"check", "writeMeta"} :
             Goto(i, "writeMeta", there) /\ meta' = Written(meta, i)
       \/ Throws /\ Goto(i, "writeMeta", "failed") /\ UNCHANGED meta
    /\ UNCHANGED <<source, temp, data, wrapped>>

ImportCheck(i) ==
    /\ Goto(i, "check", IF Original(i) = "absent" THEN "moved" ELSE "verify")
    /\ UNCHANGED <<files, wrapped>>

\* stat and readAsBytes must succeed before the original is deleted.
ImportVerify(i) ==
    /\ \/ Original(i) # "absent" /\ Goto(i, "verify", "delete")
       \/ (Original(i) = "absent" \/ Throws) /\ Goto(i, "verify", "cleanData")
    /\ UNCHANGED <<files, wrapped>>

ImportDelete(i) ==
    /\ \/ /\ Original(i) # "absent" /\ Goto(i, "delete", "poll")
          /\ \/ source' = Set(source, from[i], "absent")
             \/ "deleteIgnored" \in Faults /\ UNCHANGED source
       \/ /\ Original(i) = "absent" \/ Throws
          /\ Goto(i, "delete", "cleanData") /\ UNCHANGED source
    /\ UNCHANGED <<temp, data, meta, wrapped>>

\* Three polls 50, 100 and 150 ms apart, until the file has gone.
ImportPoll(i) ==
    /\ Goto(i, "poll", IF Original(i) = "absent" THEN "moved" ELSE "rename")
    /\ UNCHANGED <<files, wrapped>>

ImportRename(i) ==
    /\ \/ /\ Original(i) # "absent" /\ Goto(i, "rename", "deleteTemp")
          /\ temp' = Set(temp, i, Original(i))
          /\ source' = Set(source, from[i], "absent")
       \/ /\ Original(i) = "absent" \/ Throws
          /\ Goto(i, "rename", "overwrite") /\ UNCHANGED <<source, temp>>
    /\ UNCHANGED <<data, meta, wrapped>>

ImportDeleteTemp(i) ==
    /\ \/ Goto(i, "deleteTemp", "moved") /\ temp' = Set(temp, i, "absent")
       \/ /\ Throws \/ "deleteIgnored" \in Faults
          /\ Goto(i, "deleteTemp", "overwrite") /\ UNCHANGED temp
    /\ UNCHANGED <<source, data, meta, wrapped>>

\* writeAsBytes([]) at the original path, which it creates if it is absent.
ImportOverwrite(i) ==
    /\ \/ /\ Goto(i, "overwrite", "deleteEmptied")
          /\ source' = Set(source, from[i], "emptied")
       \/ Throws /\ Goto(i, "overwrite", "cleanData") /\ UNCHANGED source
    /\ UNCHANGED <<temp, data, meta, wrapped>>

ImportDeleteEmptied(i) ==
    /\ \/ /\ Original(i) # "absent" /\ Goto(i, "deleteEmptied", "moved")
          /\ source' = Set(source, from[i], "absent")
       \/ /\ Original(i) = "absent" \/ Throws \/ "deleteIgnored" \in Faults
          /\ Goto(i, "deleteEmptied", "cleanData") /\ UNCHANGED source
    /\ UNCHANGED <<temp, data, meta, wrapped>>

\* The import has failed; its own files are deleted, the data file first.
ImportCleanData(i) ==
    /\ \/ Goto(i, "cleanData", "cleanMeta") /\ data' = Set(data, i, "none")
       \/ Throws /\ Goto(i, "cleanData", "undone") /\ UNCHANGED data
    /\ UNCHANGED <<source, temp, meta, wrapped>>

ImportCleanMeta(i) ==
    /\ Goto(i, "cleanMeta", "undone")
    /\ meta' = Set(meta, i, "none") \/ (Throws /\ UNCHANGED meta)
    /\ UNCHANGED <<source, temp, data, wrapped>>

Import(i) ==
    /\ \/ ImportStart(i) \/ ImportRead(i) \/ ImportSeal(i)
       \/ ImportWriteData(i) \/ ImportWriteMeta(i) \/ ImportCheck(i)
       \/ ImportVerify(i) \/ ImportDelete(i) \/ ImportPoll(i)
       \/ ImportRename(i) \/ ImportDeleteTemp(i) \/ ImportOverwrite(i)
       \/ ImportDeleteEmptied(i) \/ ImportCleanData(i) \/ ImportCleanMeta(i)
    /\ UNCHANGED <<choice, bytes, deletes, lists, export>>

-----------------------------------------------------------------------------
(* deleteById, called for an id of the last listing; wipeAll                 *)

\* Both exists() calls, in order; the first one finds the .json or not.
DeleteLookMeta(i) ==
    /\ i \in shown /\ del[i] = "idle"
    /\ del' = Set(del, i, "lookData")
    /\ saw' = Set(saw, i, IF meta[i] = "none" THEN {} ELSE {"meta"})
    /\ deleted' = deleted \cup {i}
    /\ UNCHANGED <<data, meta>>

\* Mistake: only the .json is looked for.
DeleteLookData_MetaOnly(i) ==
    /\ del[i] = "lookData"
    /\ del' = Set(del, i, IF saw[i] = {} THEN "gone" ELSE "rmMeta")
    /\ UNCHANGED <<saw, data, meta, deleted>>

DeleteLookData(i) ==
    LET exist == saw[i] \cup (IF data[i] = "none" THEN {} ELSE {"data"}) IN
    /\ del[i] = "lookData"
    /\ saw' = Set(saw, i, exist)
    /\ del' = Set(del, i, IF exist = {} THEN "gone" ELSE "rmMeta")
    /\ UNCHANGED <<data, meta, deleted>>

\* A file that exists() saw and another call has since deleted makes delete throw.
Remove(i, which, file, here, there) ==
    /\ del[i] = here
    /\ \/ which \notin saw[i] /\ del' = Set(del, i, there) /\ UNCHANGED file
       \/ /\ which \in saw[i] /\ file[i] # "none"
          /\ del' = Set(del, i, there) /\ file' = Set(file, i, "none")
       \/ /\ which \in saw[i] /\ (file[i] = "none" \/ Throws)
          /\ del' = Set(del, i, "idle") /\ UNCHANGED file
    /\ UNCHANGED <<saw, deleted>>

DeleteMeta(i) == Remove(i, "meta", meta, "rmMeta", "rmData") /\ UNCHANGED data
DeleteData(i) == Remove(i, "data", data, "rmData", "gone") /\ UNCHANGED meta

Delete(i) ==
    /\ \/ DeleteLookMeta(i) \/ DeleteLookData(i) \/ DeleteMeta(i) \/ DeleteData(i)
    /\ UNCHANGED <<source, temp, imports, bytes, wipe, lists, export>>

Stored == {<<i, "meta">> : i \in {j \in Id : meta[j] # "none"}}
            \cup {<<i, "data">> : i \in {j \in Id : data[j] # "none"}}

\* wipeAll walks the directory; an entry it cannot delete is skipped.
WipeStart ==
    /\ wipe = {} /\ Stored # {}
    /\ wipe' = Stored
    /\ deleted' = deleted \cup {e[1] : e \in Stored}
    /\ UNCHANGED <<files, imports, bytes, del, saw, lists, export>>

WipeOne(e) ==
    /\ wipe' = wipe \ {e}
    /\ \/ /\ e[2] = "meta" /\ meta' = Set(meta, e[1], "none") /\ UNCHANGED data
       \/ /\ e[2] = "data" /\ data' = Set(data, e[1], "none") /\ UNCHANGED meta
       \/ Throws /\ UNCHANGED <<data, meta>>
    /\ UNCHANGED <<source, temp, imports, bytes, del, saw, deleted, lists, export>>

-----------------------------------------------------------------------------
(* listAll: the directory is listed at once, the files are read one by one.  *)
(* A metadata file that has gone or does not parse is left out.              *)

ListStart ==
    /\ listing = "idle"
    /\ \/ /\ listing' = "reading" /\ scan' = {i \in Id : meta[i] # "none"}
          /\ UNCHANGED shown
       \/ Throws /\ shown' = {} /\ UNCHANGED <<listing, scan>>
    /\ UNCHANGED <<files, imports, bytes, deletes, found, export>>

\* Mistake: a file that does not parse is listed all the same.
ListRead_Lenient(i) ==
    /\ scan' = scan \ {i} /\ found' = found \cup {i}
    /\ UNCHANGED <<files, imports, bytes, deletes, listing, shown, export>>

\* VaultFileMeta.fromJson of the decoded file: a truncated one throws.
Parses(i) == meta[i] = "whole"

ListRead(i) ==
    /\ scan' = scan \ {i}
    /\ \/ Parses(i) /\ found' = found \cup {i}
       \/ (~Parses(i) \/ Throws) /\ UNCHANGED found
    /\ UNCHANGED <<files, imports, bytes, deletes, listing, shown, export>>

ListEnd ==
    /\ listing = "reading" /\ scan = {}
    /\ listing' = "idle" /\ shown' = found /\ found' = {}
    /\ UNCHANGED <<files, imports, bytes, deletes, scan, export>>

-----------------------------------------------------------------------------
(* exportClear: decrypts an entry with the key its caller's buffer holds     *)

ExportStart(i, b) ==
    /\ export.at \in {"idle", "returned", "threw"}
    /\ export' = [at |-> "meta", id |-> i, buf |-> b]
    /\ UNCHANGED <<files, imports, bytes, deletes, lists>>

ExportGoto(here, there, ok) ==
    /\ export.at = here
    /\ \/ ok /\ export' = [export EXCEPT !.at = there]
       \/ (~ok \/ Throws) /\ export' = [export EXCEPT !.at = "threw"]
    /\ UNCHANGED <<files, imports, bytes, deletes, lists>>

ExportFindMeta == ExportGoto("meta", "data", meta[export.id] # "none")
ExportFindData == ExportGoto("data", "read", data[export.id] # "none")
ExportReadMeta == ExportGoto("read", "open", Parses(export.id))

\* decryptWithWrappedKey: both GCM tags must verify, the DEK's under the kek and
\* the file's under the DEK.
Opens(i, b) == data[i] = "whole" /\ bytes[b] = wrapped[i]

ExportOpen == ExportGoto("open", "returned", Opens(export.id, export.buf))

Export == ExportFindMeta \/ ExportFindData \/ ExportReadMeta \/ ExportOpen

-----------------------------------------------------------------------------
(* What happens around the repository *)

\* AuthService.lock fills the KEK list with zeros in place.
Lock(b) ==
    /\ "lock" \in Faults /\ bytes[b] # Zeros
    /\ bytes' = Set(bytes, b, Zeros)
    /\ UNCHANGED <<files, imports, deletes, lists, export>>

\* The process dies: every call is gone, every file stays as it is.
Crash ==
    /\ "crash" \in Faults
    /\ imp' = [i \in Id |->
                 CASE imp[i] \in {"unused", "moved", "failed"} -> imp[i]
                   [] imp[i] \in Undoing -> "undone"
                   [] OTHER -> "crashed"]
    /\ del' = [i \in Id |-> IF del[i] = "gone" THEN "gone" ELSE "idle"]
    /\ saw' = [i \in Id |-> {}]
    /\ wipe' = {} /\ listing' = "idle"
    /\ scan' = {} /\ found' = {} /\ shown' = {}
    /\ export' = NoExport
    /\ UNCHANGED <<files, wrapped, choice, bytes, deleted>>

Next ==
    \/ \E i \in Id : Import(i)
    \/ "delete" \in Calls /\ \E i \in Id : Delete(i)
    \/ "wipe" \in Calls /\ (WipeStart \/ \E e \in wipe : WipeOne(e))
    \/ "list" \in Calls /\ (ListStart \/ ListEnd \/ \E i \in scan : ListRead(i))
    \/ "export" \in Calls /\ (Export \/ \E i \in shown, b \in Buf : ExportStart(i, b))
    \/ \E b \in Buf : Lock(b)
    \/ Crash

Spec == Init /\ [][Next]_vars

-----------------------------------------------------------------------------
(* Properties *)

Complete(i) == data[i] = "whole" /\ meta[i] = "whole"
Openable(i) == Complete(i) /\ wrapped[i] \in Key
Erased(d)   == \E i \in deleted : from[i] = d
InVault(d)  == \E i \in Id : from[i] = d /\ Openable(i)

\* A document the user has not asked to delete is always somewhere: intact at
\* its own path, intact under the temporary name of lines 151-152, or in the
\* vault under a key that exists.  (importFile deletes originals, 133-169, and
\* deletes vault files, 191-200.)
NoDataLoss ==
    \A d \in Doc :
        \/ source[d] = "intact" \/ InVault(d) \/ Erased(d)
        \/ \E i \in Id : from[i] = d /\ temp[i] = "intact"

\* The original is only ever moved, emptied or deleted by an import whose two
\* vault files are completely written, or have been deleted by the user.
SealedBeforeDestroyed ==
    [][\A d \in Doc : source[d] = "intact" /\ source'[d] # "intact" =>
         \E i \in Id : /\ from[i] = d /\ imp[i] \in Sealed
                       /\ Complete(i) \/ i \in deleted]_vars

\* An entry that parses, hence that listAll shows, has its data, unless its
\* import is being, or has been, undone or somebody deletes it.
ListedHasData ==
    \A i \in Id : meta[i] = "whole" =>
        data[i] = "whole" \/ i \in deleted \/ imp[i] \in Undoing

\* An export under way finds both files of its entry whole, at each of the awaits
\* between which they could have gone, unless the entry is deleted or its import undone.
ExportAvailable ==
    export.at \in {"meta", "data", "read", "open"} =>
        \/ Complete(export.id)
        \/ export.id \in deleted \/ imp[export.id] \in Undoing

\* After a deleteById that returned, neither file of the entry exists or ever
\* comes back, whatever imports, undos and wipes run at the same time.
DeletedIsGone ==
    \A i \in Id : del[i] = "gone" => data[i] = "none" /\ meta[i] = "none"

\* A document the user has not asked to delete is lost only to an import that
\* failed and took its sealed copy back: it is intact at its own path or under the
\* temporary name, or it is sealed, or such an import has overwritten or deleted it
\* (the catch of 186-205 deletes <id>.enc and <id>.json after either fallback of
\* 145-180 too).  Sealed says nothing of the key, see NoDataLoss for that.
LostOnlyByUndo ==
    \A d \in Doc :
        \/ source[d] = "intact" \/ Erased(d)
        \/ \E i \in Id : /\ from[i] = d
                        /\ \/ temp[i] = "intact" \/ Complete(i)
                           \/ imp[i] \in Undoing

\* An import that returned left the document nowhere in the clear: neither at
\* its path nor under the temporary name ("eliminado exitosamente", line 182).
MovedLeavesNoCopy ==
    \A i \in Id : imp[i] = "moved" =>
        source[from[i]] # "intact" /\ temp[i] # "intact"

\* The inductive core: what the files of an entry are at each stage of its
\* import, whatever fails, unless somebody has set out to delete the entry.
FilesInv ==
    /\ ListedHasData
    /\ \A i \in Id :
         /\ imp[i] \in {"unused", "read", "seal", "writeData"} => meta[i] # "whole"
         /\ imp[i] = "writeData" => data[i] # "none" \/ i \in deleted
         /\ imp[i] = "writeMeta" =>
              (data[i] = "whole" /\ meta[i] # "none") \/ i \in deleted
         /\ imp[i] \in Sealed => Complete(i) \/ i \in deleted
         /\ del[i] # "idle" => i \in deleted
    /\ \A e \in wipe : e[1] \in deleted

\* Where deletes work and buffers keep their keys: no import needs the fallbacks
\* of lines 145-180, and every original that is gone has an entry that no import
\* will undo.
Settled == {"poll", "moved", "crashed"}

CustodyInv ==
    /\ FilesInv
    /\ \A b \in Buf : bytes[b] \in Key
    /\ \A i \in Id :
         /\ imp[i] \in Writing \cup Sealed => wrapped[i] \in Key
         /\ imp[i] \notin {"rename", "deleteTemp", "overwrite", "deleteEmptied"}
         /\ imp[i] = "poll" => source[from[i]] = "absent"
    /\ \A d \in Doc :
         \/ source[d] = "intact" \/ Erased(d)
         \/ \E i \in Id : from[i] = d /\ imp[i] \in Settled /\ Openable(i)

\* The repository implements SecureVault: with dependable deletes, every step of
\* every import, deletion and crash is a step of the promise or changes nothing of it.
Promise == INSTANCE SecureVault WITH
    plain  <- {d \in Doc : source[d] = "intact" \/ \E i \in Id : from[i] = d /\ temp[i] = "intact"},
    sealed <- {d \in Doc : InVault(d)},
    erased <- {d \in Doc : Erased(d)}

KeepsPromise == Promise!Spec
=============================================================================
