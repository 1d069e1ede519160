---------------------- MODULE VaultRepositoryProofs ----------------------
(* Theorems of VaultRepository for any number of documents, entries and keys. *)
EXTENDS VaultRepository, TLAPS

\* Every variable keeps its type, whatever interleaves and whatever fails.
LEMMA TypingStep == TypeOK /\ [Next]_vars => TypeOK'
<1> SUFFICES ASSUME TypeOK, [Next]_vars PROVE TypeOK'
    OBVIOUS
<1> USE DEF TypeOK, FileState, SourceState, ImportPc, Writing, Sealed, Undoing, DeletePc
<1>1. ASSUME NEW i \in Id, Import(i) PROVE TypeOK'
  <2>0. /\ UNCHANGED <<choice, bytes, deletes, lists, export>>
        /\ \/ ImportStart(i) \/ ImportRead(i) \/ ImportSeal(i)
           \/ ImportWriteData(i) \/ ImportWriteMeta(i) \/ ImportCheck(i)
           \/ ImportVerify(i) \/ ImportDelete(i) \/ ImportPoll(i)
           \/ ImportRename(i) \/ ImportDeleteTemp(i) \/ ImportOverwrite(i)
           \/ ImportDeleteEmptied(i) \/ ImportCleanData(i) \/ ImportCleanMeta(i)
    BY <1>1 DEF Import
  <2> USE <2>0 DEF choice, deletes, lists, files, Goto, Set, Written, Original
  <2>1. CASE ImportStart(i) \/ ImportRead(i) \/ ImportCheck(i) \/ ImportVerify(i) \/ ImportPoll(i)
    BY <2>1 DEF ImportStart, ImportRead, ImportCheck, ImportVerify, ImportPoll
  <2>2. CASE ImportSeal(i)
    BY <2>2 DEF ImportSeal, SealingKey
  <2>3. CASE ImportWriteData(i) \/ ImportWriteMeta(i)
    BY <2>3 DEF ImportWriteData, ImportWriteMeta
  <2>4. CASE ImportDelete(i) \/ ImportRename(i) \/ ImportOverwrite(i) \/ ImportDeleteEmptied(i)
    BY <2>4 DEF ImportDelete, ImportRename, ImportOverwrite, ImportDeleteEmptied
  <2>5. CASE ImportDeleteTemp(i) \/ ImportCleanData(i) \/ ImportCleanMeta(i)
    BY <2>5 DEF ImportDeleteTemp, ImportCleanData, ImportCleanMeta
  <2> QED BY <2>0, <2>1, <2>2, <2>3, <2>4, <2>5
<1>2. ASSUME NEW i \in Id, Delete(i) PROVE TypeOK'
  <2> UNCHANGED <<source, temp, imports, bytes, wipe, lists, export>>
    BY <1>2 DEF Delete
  <2> USE DEF Set, imports, choice, lists
  <2>1. CASE DeleteLookMeta(i)
    BY <2>1 DEF DeleteLookMeta
  <2>2. CASE DeleteLookData(i)
    BY <2>2 DEF DeleteLookData
  <2>3. CASE DeleteMeta(i) \/ DeleteData(i)
    BY <2>3 DEF DeleteMeta, DeleteData, Remove
  <2> QED BY <1>2, <2>1, <2>2, <2>3 DEF Delete
<1>3. ASSUME WipeStart PROVE TypeOK'
  BY <1>3 DEF WipeStart, Stored, files, imports, choice, lists
<1>4. ASSUME NEW e \in wipe, WipeOne(e) PROVE TypeOK'
  BY <1>4 DEF WipeOne, Set, imports, choice, lists
<1>5. ASSUME ListStart \/ ListEnd \/ \E i \in scan : ListRead(i) PROVE TypeOK'
  BY <1>5 DEF ListStart, ListEnd, ListRead, files, imports, choice, deletes
<1>6. ASSUME Export PROVE TypeOK'
  BY <1>6 DEF Export, ExportFindMeta, ExportFindData, ExportReadMeta, ExportOpen, ExportGoto,
              NoExport, ExportPc, files, imports, choice, deletes, lists
<1>7. ASSUME NEW i \in shown, NEW b \in Buf, ExportStart(i, b) PROVE TypeOK'
  BY <1>7 DEF ExportStart, ExportPc, files, imports, choice, deletes, lists
<1>8. ASSUME NEW b \in Buf, Lock(b) PROVE TypeOK'
  BY <1>8 DEF Lock, Set, files, imports, choice, deletes, lists
<1>9. ASSUME Crash PROVE TypeOK'
  BY <1>9 DEF Crash, files, choice
<1>10. ASSUME UNCHANGED vars PROVE TypeOK'
  BY <1>10 DEF vars, files, imports, choice, deletes, lists
<1> QED BY <1>1, <1>2, <1>3, <1>4, <1>5, <1>6, <1>7, <1>8, <1>9, <1>10 DEF Next

\* The vault's state always has its type.
THEOREM Typing == Spec => []TypeOK
<1>1. Init => TypeOK
  BY DEF Init, TypeOK, FileState, SourceState, ImportPc, DeletePc
<1> QED BY <1>1, TypingStep, PTL DEF Spec

-----------------------------------------------------------------------------

\* A step that is not an import's, a deletion's or a crash leaves alone all that
\* the invariants speak of.
Quiet == UNCHANGED <<source, temp, data, meta, wrapped, imp, from, del, wipe, deleted>>

LEMMA QuietSteps ==
    ASSUME Next,
           ~ \E i \in Id : Import(i) \/ Delete(i),
           ~ WipeStart, ~ \E e \in wipe : WipeOne(e), ~ Crash
    PROVE  Quiet
BY DEF Next, Quiet, ListStart, ListEnd, ListRead, Export, ExportFindMeta, ExportFindData,
       ExportReadMeta, ExportOpen, ExportGoto, ExportStart, Lock,
       files, imports, choice, deletes

\* FilesInv is inductive, whatever faults the platform has.
LEMMA FilesStep == TypeOK /\ FilesInv /\ [Next]_vars => FilesInv'
<1> SUFFICES ASSUME TypeOK, FilesInv, [Next]_vars PROVE FilesInv'
    OBVIOUS
<1> USE DEF FilesInv, ListedHasData, Complete, Undoing, Sealed, Writing
<1>1. ASSUME NEW i \in Id, Import(i) PROVE FilesInv'
  <2> UNCHANGED <<del, wipe, deleted>>
    BY <1>1 DEF Import, deletes
  <2> /\ data \in [Id -> FileState] /\ meta \in [Id -> FileState]
      /\ imp \in [Id -> ImportPc]
    BY DEF TypeOK
  <2> USE DEF Goto, Set, Written, files, FileState
  <2>1. CASE ImportStart(i) \/ ImportRead(i) \/ ImportCheck(i) \/ ImportVerify(i) \/ ImportPoll(i)
    BY <2>1 DEF ImportStart, ImportRead, ImportCheck, ImportVerify, ImportPoll
  <2>2. CASE ImportSeal(i)
    BY <2>2 DEF ImportSeal, SealingKey
  <2>3. CASE ImportWriteData(i)
    BY <2>3 DEF ImportWriteData
  <2>4. CASE ImportWriteMeta(i)
    BY <2>4 DEF ImportWriteMeta
  <2>5. CASE ImportDelete(i) \/ ImportRename(i) \/ ImportOverwrite(i)
             \/ ImportDeleteEmptied(i) \/ ImportDeleteTemp(i)
    BY <2>5 DEF ImportDelete, ImportRename, ImportOverwrite, ImportDeleteEmptied, ImportDeleteTemp
  <2>6. CASE ImportCleanData(i)
    BY <2>6 DEF ImportCleanData
  <2>7. CASE ImportCleanMeta(i)
    BY <2>7 DEF ImportCleanMeta
  <2> QED BY <1>1, <2>1, <2>2, <2>3, <2>4, <2>5, <2>6, <2>7 DEF Import
<1>2. ASSUME NEW i \in Id, Delete(i) PROVE FilesInv'
  <2> UNCHANGED <<imp, wipe>>
    BY <1>2 DEF Delete, imports
  <2> /\ data \in [Id -> FileState] /\ meta \in [Id -> FileState]
      /\ del \in [Id -> DeletePc]
    BY DEF TypeOK
  <2> USE DEF Set
  <2>1. CASE DeleteLookMeta(i)
    BY <2>1 DEF DeleteLookMeta
  <2>2. CASE DeleteLookData(i)
    BY <2>2 DEF DeleteLookData
  <2>3. CASE DeleteMeta(i) \/ DeleteData(i)
    BY <2>3 DEF DeleteMeta, DeleteData, Remove
  <2> QED BY <1>2, <2>1, <2>2, <2>3 DEF Delete
<1>3. ASSUME WipeStart PROVE FilesInv'
  BY <1>3 DEF WipeStart, Stored, files, imports, TypeOK
<1>4. ASSUME NEW e \in wipe, WipeOne(e) PROVE FilesInv'
  <2> e \in Id \X {"meta", "data"} /\ e[1] \in deleted
    BY DEF TypeOK
  <2> QED BY <1>4 DEF WipeOne, Set, imports, TypeOK
<1>5. ASSUME Crash PROVE FilesInv'
  BY <1>5 DEF Crash, files, TypeOK, ImportPc
<1>6. ASSUME Quiet \/ UNCHANGED vars PROVE FilesInv'
  BY <1>6 DEF Quiet, vars, files, imports, deletes
<1> QED BY <1>1, <1>2, <1>3, <1>4, <1>5, <1>6, QuietSteps

\* In every state the files of an entry are those its import's stage calls for.
THEOREM FilesSound == Spec => []FilesInv
<1>1. Init => FilesInv
  BY DEF Init, FilesInv, ListedHasData, Complete, Undoing, Sealed, Writing
<1> QED BY <1>1, FilesStep, Typing, PTL DEF Spec

\* A listed entry has its data, for any number of entries and under every fault,
\* unless it was deleted or its import undone.
THEOREM ListedEntriesHaveData == Spec => []ListedHasData
<1>1. FilesInv => ListedHasData
  BY DEF FilesInv
<1> QED BY <1>1, FilesSound, PTL

\* No original is moved, emptied or deleted before its entry is on disk, under
\* every fault.
THEOREM DestroyedOnlySealed == Spec => SealedBeforeDestroyed
<1> DEFINE Step == \A d \in Doc : source[d] = "intact" /\ source'[d] # "intact" =>
                     \E i \in Id : /\ from[i] = d /\ imp[i] \in Sealed
                                   /\ Complete(i) \/ i \in deleted
<1>1. TypeOK /\ FilesInv /\ [Next]_vars => [Step]_vars
  <2> SUFFICES ASSUME TypeOK, FilesInv, [Next]_vars PROVE Step
    OBVIOUS
  <2>1. CASE source' = source
    BY <2>1
  <2>2. ASSUME NEW i \in Id, Import(i) PROVE Step
    <3>1. CASE imp[i] \in Sealed /\ source' \in {[source EXCEPT ![from[i]] = s] : s \in SourceState}
      <4>1. Complete(i) \/ i \in deleted
        BY <3>1 DEF FilesInv
      <4> QED BY <3>1, <4>1 DEF TypeOK
    <3> QED BY <2>1, <2>2, <3>1 DEF Import, ImportStart, ImportRead, ImportSeal, ImportWriteData,
               ImportWriteMeta, ImportCheck, ImportVerify, ImportDelete, ImportPoll, ImportRename,
               ImportDeleteTemp, ImportOverwrite, ImportDeleteEmptied, ImportCleanData,
               ImportCleanMeta, Goto, Set, files, Sealed, SourceState
  <2>3. CASE ~ \E i \in Id : Import(i)
    BY <2>1, <2>3 DEF Next, vars, Delete, WipeStart, WipeOne, ListStart, ListEnd, ListRead,
       Export, ExportFindMeta, ExportFindData, ExportReadMeta, ExportOpen, ExportGoto,
       ExportStart, Lock, Crash, files
  <2> QED BY <2>2, <2>3
<1> QED BY <1>1, Typing, FilesSound, PTL DEF Spec, SealedBeforeDestroyed

\* Only an import whose vault files are written takes an original away, and only
\* its undoing, or the user, takes those files away.
LEMMA LossStep ==
    TypeOK /\ FilesInv /\ LostOnlyByUndo /\ [Next]_vars => LostOnlyByUndo'
<1> SUFFICES ASSUME TypeOK, FilesInv, LostOnlyByUndo, [Next]_vars PROVE LostOnlyByUndo'
    OBVIOUS
<1>0. /\ source \in [Doc -> SourceState] /\ temp \in [Id -> SourceState] /\ imp \in [Id -> ImportPc]
      /\ data \in [Id -> FileState] /\ meta \in [Id -> FileState] /\ from \in [Id -> Doc]
      /\ \A j \in Id : imp[j] \in Sealed => Complete(j) \/ j \in deleted
      /\ \A j \in Id : imp[j] \in {"unused", "read", "seal", "writeData"} => meta[j] # "whole"
  BY DEF TypeOK, FilesInv
<1> USE DEF LostOnlyByUndo, Erased, Complete
<1>1. ASSUME NEW i \in Id, Import(i) PROVE LostOnlyByUndo'
  <2>0. UNCHANGED <<from, deleted>>
    BY <1>1 DEF Import, choice, deletes
  <2> USE <1>0, <2>0 DEF Goto, Set, Written, files, Original, Undoing, Sealed
  <2>1. CASE ImportStart(i) \/ ImportRead(i) \/ ImportCheck(i) \/ ImportVerify(i) \/ ImportPoll(i)
    BY <2>1 DEF ImportStart, ImportRead, ImportCheck, ImportVerify, ImportPoll
  <2>2. CASE ImportSeal(i)
    BY <2>2 DEF ImportSeal, SealingKey
  <2>3. CASE ImportWriteData(i) \/ ImportWriteMeta(i)
    BY <2>3 DEF ImportWriteData, ImportWriteMeta
  <2>4. CASE ImportDelete(i)
    BY <2>4 DEF ImportDelete
  <2>5. CASE ImportRename(i)
    BY <2>5 DEF ImportRename
  <2>6. CASE ImportDeleteTemp(i)
    BY <2>6 DEF ImportDeleteTemp
  <2>7. CASE ImportOverwrite(i) \/ ImportDeleteEmptied(i)
    BY <2>7 DEF ImportOverwrite, ImportDeleteEmptied
  <2>8. CASE ImportCleanData(i) \/ ImportCleanMeta(i)
    BY <2>8 DEF ImportCleanData, ImportCleanMeta
  <2> QED BY <1>1, <2>1, <2>2, <2>3, <2>4, <2>5, <2>6, <2>7, <2>8 DEF Import
<1>2. ASSUME NEW i \in Id, Delete(i) PROVE LostOnlyByUndo'
  <2>1. /\ UNCHANGED <<source, temp, imp, from>> /\ deleted \subseteq deleted' /\ i \in deleted'
        /\ \A j \in Id \ {i} : data'[j] = data[j] /\ meta'[j] = meta[j]
    BY <1>2 DEF Delete, DeleteLookMeta, DeleteLookData, DeleteMeta, DeleteData, Remove, Set,
                imports, choice, FilesInv, TypeOK
  <2> QED BY <1>0, <2>1
<1>3. ASSUME WipeStart PROVE LostOnlyByUndo'
  BY <1>0, <1>3 DEF WipeStart, files, imports, choice
<1>4. ASSUME NEW e \in wipe, WipeOne(e) PROVE LostOnlyByUndo'
  <2>1. /\ UNCHANGED <<source, temp, imp, from, deleted>> /\ e[1] \in Id /\ e[1] \in deleted
        /\ \A j \in Id \ {e[1]} : data'[j] = data[j] /\ meta'[j] = meta[j]
    BY <1>4 DEF WipeOne, Set, imports, choice, FilesInv, TypeOK
  <2> QED BY <1>0, <2>1
<1>5. ASSUME Crash PROVE LostOnlyByUndo'
  <2>1. \A j \in Id : imp[j] \in Undoing => imp'[j] \in Undoing
    BY <1>5 DEF Crash, Undoing
  <2> QED BY <1>0, <1>5, <2>1 DEF Crash, files, choice
<1>6. ASSUME Quiet \/ UNCHANGED vars PROVE LostOnlyByUndo'
  BY <1>6 DEF Quiet, vars, files, imports, choice, deletes
<1> QED BY <1>1, <1>2, <1>3, <1>4, <1>5, <1>6, QuietSteps

\* Under every fault, through both fallbacks, for any number of imports of the same
\* document: it is lost only to an import that failed and was undone.
THEOREM LossNeedsAnUndo == Spec => []LostOnlyByUndo
<1>1. Init => LostOnlyByUndo
  BY DEF Init, LostOnlyByUndo
<1> QED BY <1>1, LossStep, Typing, FilesSound, PTL DEF Spec

-----------------------------------------------------------------------------
(* Custody: where the platform deletes what it says it deleted and nobody   *)
(* wipes a buffer in use, no document is lost.                              *)

Dependable == Faults \cap {"deleteIgnored", "lock"} = {}

\* One step of an import keeps every entry that stands for a destroyed original.
LEMMA ImportKeepsCustody ==
    ASSUME Dependable, TypeOK, CustodyInv, FilesInv', NEW i \in Id, Import(i)
    PROVE  CustodyInv'
<1> UNCHANGED <<from, keyBuf, bytes, deleted>>
  BY DEF Import, choice, deletes
<1> /\ source \in [Doc -> SourceState] /\ data \in [Id -> FileState] /\ meta \in [Id -> FileState]
    /\ imp \in [Id -> ImportPc] /\ wrapped \in [Id -> Key \cup {Zeros}]
    /\ from \in [Id -> Doc] /\ keyBuf \in [Id -> Buf]
  BY DEF TypeOK
<1> /\ FilesInv
    /\ \A b \in Buf : bytes[b] \in Key
    /\ \A j \in Id :
         /\ imp[j] \in Writing \cup Sealed => wrapped[j] \in Key
         /\ imp[j] \notin {"rename", "deleteTemp", "overwrite", "deleteEmptied"}
         /\ imp[j] = "poll" => source[from[j]] = "absent"
    /\ \A d \in Doc :
         \/ source[d] = "intact" \/ Erased(d)
         \/ \E j \in Id : from[j] = d /\ imp[j] \in Settled /\ Openable(j)
  BY DEF CustodyInv
<1> USE DEF CustodyInv, Settled, Erased, Openable, Complete, Writing, Sealed, Goto, Set, Written,
            files, Original
<1>1. CASE ImportStart(i) \/ ImportRead(i)
  BY <1>1 DEF ImportStart, ImportRead
<1>2. CASE ImportSeal(i)
  BY <1>2 DEF ImportSeal, SealingKey
<1>3. CASE ImportWriteData(i) \/ ImportWriteMeta(i)
  BY <1>3 DEF ImportWriteData, ImportWriteMeta
<1>4. CASE ImportCheck(i) \/ ImportVerify(i)
  BY <1>4 DEF ImportCheck, ImportVerify
<1>5. CASE ImportDelete(i)
  \* The original goes; this import's own entry now stands for it.
  <2>1. Complete(i) \/ Erased(from[i])
    BY <1>5 DEF ImportDelete, FilesInv
  <2>2. source' = source \/ (imp'[i] = "poll" /\ source' = [source EXCEPT ![from[i]] = "absent"])
    BY <1>5 DEF ImportDelete
  <2> QED BY <1>5, <2>1, <2>2 DEF ImportDelete, Dependable
<1>6. CASE ImportPoll(i)
  BY <1>6 DEF ImportPoll
<1>7. CASE ImportCleanData(i) \/ ImportCleanMeta(i)
  BY <1>7 DEF ImportCleanData, ImportCleanMeta
<1>8. CASE ImportRename(i) \/ ImportDeleteTemp(i) \/ ImportOverwrite(i) \/ ImportDeleteEmptied(i)
  BY <1>8 DEF ImportRename, ImportDeleteTemp, ImportOverwrite, ImportDeleteEmptied
<1> QED BY <1>1, <1>2, <1>3, <1>4, <1>5, <1>6, <1>7, <1>8 DEF Import

LEMMA CustodyStep ==
    ASSUME Dependable
    PROVE  TypeOK /\ CustodyInv /\ [Next]_vars => CustodyInv'
<1> SUFFICES ASSUME TypeOK, CustodyInv, [Next]_vars PROVE CustodyInv'
    OBVIOUS
<1>0. FilesInv'
  BY FilesStep DEF CustodyInv
<1>1. ASSUME NEW i \in Id, Import(i) PROVE CustodyInv'
  BY <1>0, <1>1, ImportKeepsCustody
<1> USE DEF CustodyInv, Settled, Erased, Openable, Complete
<1>2. ASSUME NEW i \in Id, Delete(i) PROVE CustodyInv'
  \* Only the entry being deleted loses a file, and it counts as deleted.
  <2>1. /\ UNCHANGED <<source, imp, wrapped, from, bytes>>
        /\ deleted \subseteq deleted' /\ i \in deleted'
        /\ \A j \in Id \ {i} : data'[j] = data[j] /\ meta'[j] = meta[j]
    BY <1>2 DEF Delete, DeleteLookMeta, DeleteLookData, DeleteMeta, DeleteData, Remove, Set,
                imports, choice, FilesInv, TypeOK
  <2> QED BY <1>0, <2>1
<1>3. ASSUME WipeStart PROVE CustodyInv'
  BY <1>0, <1>3 DEF WipeStart, files, imports, choice
<1>4. ASSUME NEW e \in wipe, WipeOne(e) PROVE CustodyInv'
  <2>1. /\ UNCHANGED <<source, imp, wrapped, from, bytes, deleted>> /\ e[1] \in deleted
        /\ \A j \in Id \ {e[1]} : data'[j] = data[j] /\ meta'[j] = meta[j]
    BY <1>4 DEF WipeOne, Set, imports, choice, FilesInv, TypeOK
  <2> QED BY <1>0, <2>1
<1>5. ASSUME Crash PROVE CustodyInv'
  <2>1. \A i \in Id : /\ imp[i] \in Settled => imp'[i] \in Settled
                      /\ imp'[i] \in Writing \cup Sealed => imp'[i] = imp[i]
                      /\ imp'[i] # "poll"
                      /\ imp'[i] \notin {"rename", "deleteTemp", "overwrite", "deleteEmptied"}
    BY <1>5 DEF Crash, TypeOK, ImportPc, Writing, Sealed, Undoing
  <2> QED BY <1>0, <1>5, <2>1 DEF Crash, files, choice
<1>6. ASSUME Quiet, bytes' = bytes PROVE CustodyInv'
  BY <1>0, <1>6 DEF Quiet
<1>7. ASSUME Next, ~ Crash, ~ WipeStart, ~ \E e \in wipe : WipeOne(e),
             ~ \E i \in Id : Import(i) \/ Delete(i)
      PROVE  bytes' = bytes
  BY <1>7 DEF Next, ListStart, ListEnd, ListRead, Export, ExportFindMeta, ExportFindData,
              ExportReadMeta, ExportOpen, ExportGoto, ExportStart, Lock, Dependable
<1>8. ASSUME UNCHANGED vars PROVE CustodyInv'
  BY <1>0, <1>8 DEF vars, files, imports, choice, deletes
<1> QED BY <1>1, <1>2, <1>3, <1>4, <1>5, <1>6, <1>7, <1>8, QuietSteps

\* With dependable deletes and intact keys, an original that is gone has an entry
\* that opens, for any number of overlapping imports, failures and restarts.
THEOREM Custody ==
    ASSUME Dependable
    PROVE  Spec => []CustodyInv
<1>1. Init => CustodyInv
  BY DEF Init, CustodyInv, FilesInv, ListedHasData, Complete, Undoing, Sealed, Writing
<1>2. TypeOK /\ CustodyInv /\ [Next]_vars => CustodyInv'
  BY CustodyStep
<1> QED BY <1>1, <1>2, Typing, PTL DEF Spec

\* No document is ever lost, under the same assumptions.
THEOREM NothingIsLost ==
    ASSUME Dependable
    PROVE  Spec => []NoDataLoss
<1>1. CustodyInv => NoDataLoss
  BY DEF CustodyInv, NoDataLoss, InVault
<1>2. Spec => []CustodyInv
  BY Custody
<1> QED BY <1>1, <1>2, PTL

-----------------------------------------------------------------------------
(* What a listing has shown: all of both its files is written, though the    *)
(* write of the second may not have returned, or may have failed; nobody but *)
(* a deletion or the import's own undoing takes them away.                   *)

Past == Sealed \cup Undoing \cup {"writeMeta", "failed", "crashed"}

Kept(i) == Complete(i) \/ i \in deleted \/ imp[i] \in Undoing

ExportRuns == export.at \in {"meta", "data", "read", "open"}

\* What deleteById has found and left at each of its steps.
DeletionInv ==
    \A i \in Id :
        /\ del[i] # "idle" => imp[i] \in Past
        /\ del[i] \in {"lookData", "rmMeta"} /\ "meta" \notin saw[i] => meta[i] = "none"
        /\ del[i] \in {"rmMeta", "rmData"} /\ "data" \notin saw[i] => data[i] = "none"
        /\ del[i] = "rmData" => meta[i] = "none"
        /\ del[i] = "gone" => data[i] = "none" /\ meta[i] = "none"

SeenInv ==
    /\ \A i \in found \cup shown : imp[i] \in Past /\ Kept(i)
    /\ ExportRuns => imp[export.id] \in Past /\ Kept(export.id)
    /\ DeletionInv

\* An import that has its data file only ever completes the other one, where it
\* still is, and deletes both, as it is undone.
LEMMA PastImport ==
    ASSUME TypeOK, NEW i \in Id, Import(i)
    PROVE  /\ \A j \in Id \ {i} : data'[j] = data[j] /\ meta'[j] = meta[j] /\ imp'[j] = imp[j]
           /\ imp[i] \in Past =>
                /\ imp'[i] \in Past
                /\ data'[i] \in {data[i], "none"} /\ (meta[i] = "none" => meta'[i] = "none")
                /\ \/ imp'[i] \in Undoing
                   \/ /\ data'[i] = data[i] /\ (meta[i] = "whole" => meta'[i] = "whole")
                      /\ imp[i] \notin Undoing
           /\ UNCHANGED <<del, saw, wipe, deleted, found, shown, export>>
<1> /\ data \in [Id -> FileState] /\ meta \in [Id -> FileState] /\ imp \in [Id -> ImportPc]
  BY DEF TypeOK
<1>1. UNCHANGED <<del, saw, wipe, deleted, found, shown, export>>
  BY DEF Import, deletes, lists
<1> USE DEF Past, Sealed, Undoing, Goto, Set, Written, files
<1>2. CASE ImportStart(i) \/ ImportRead(i) \/ ImportCheck(i) \/ ImportVerify(i) \/ ImportPoll(i)
  BY <1>1, <1>2 DEF ImportStart, ImportRead, ImportCheck, ImportVerify, ImportPoll
<1>3. CASE ImportSeal(i)
  BY <1>1, <1>3 DEF ImportSeal
<1>4. CASE ImportWriteData(i) \/ ImportWriteMeta(i)
  BY <1>1, <1>4 DEF ImportWriteData, ImportWriteMeta
<1>5. CASE ImportDelete(i) \/ ImportRename(i) \/ ImportDeleteTemp(i)
  BY <1>1, <1>5 DEF ImportDelete, ImportRename, ImportDeleteTemp
<1>6. CASE ImportOverwrite(i) \/ ImportDeleteEmptied(i)
  BY <1>1, <1>6 DEF ImportOverwrite, ImportDeleteEmptied
<1>7. CASE ImportCleanData(i) \/ ImportCleanMeta(i)
  BY <1>1, <1>7 DEF ImportCleanData, ImportCleanMeta
<1> QED BY <1>2, <1>3, <1>4, <1>5, <1>6, <1>7 DEF Import

LEMMA SeenStep == TypeOK /\ FilesInv /\ SeenInv /\ [Next]_vars => SeenInv'
<1> SUFFICES ASSUME TypeOK, FilesInv, SeenInv, [Next]_vars PROVE SeenInv'
    OBVIOUS
<1>0. /\ data \in [Id -> FileState] /\ meta \in [Id -> FileState] /\ imp \in [Id -> ImportPc]
      /\ del \in [Id -> DeletePc] /\ saw \in [Id -> SUBSET {"meta", "data"}]
      /\ shown \subseteq Id /\ found \subseteq Id /\ scan \subseteq Id
      /\ export \in {NoExport} \cup [at: ExportPc, id: Id, buf: Buf]
  BY DEF TypeOK
<1>00. ExportRuns => export \in [at: ExportPc, id: Id, buf: Buf]
  BY <1>0 DEF ExportRuns, NoExport
<1> USE DEF SeenInv, DeletionInv, Kept, Complete, ExportRuns
<1>1. ASSUME NEW i \in Id, Import(i) PROVE SeenInv'
  BY <1>0, <1>00, <1>1, PastImport
<1>2. ASSUME NEW i \in Id, Delete(i) PROVE SeenInv'
  <2> UNCHANGED <<imp, found, shown, export>>
    BY <1>2 DEF Delete, imports, lists
  <2>1. /\ i \in deleted' /\ deleted \subseteq deleted'
        /\ \A j \in Id \ {i} : /\ data'[j] = data[j] /\ meta'[j] = meta[j]
                               /\ del'[j] = del[j] /\ saw'[j] = saw[j]
    BY <1>0, <1>2 DEF Delete, DeleteLookMeta, DeleteLookData, DeleteMeta, DeleteData, Remove, Set, FilesInv
  <2>2. /\ \A j \in found' \cup shown' : imp'[j] \in Past /\ Kept(j)'
        /\ ExportRuns' => imp'[export'.id] \in Past /\ Kept(export.id)'
    BY <1>0, <1>00, <2>1
  <2>3. CASE DeleteLookMeta(i)
    BY <1>0, <2>1, <2>2, <2>3 DEF DeleteLookMeta, Set
  <2>4. CASE DeleteLookData(i)
    BY <1>0, <2>1, <2>2, <2>4 DEF DeleteLookData, Set
  <2>5. CASE DeleteMeta(i)
    BY <1>0, <2>1, <2>2, <2>5 DEF DeleteMeta, Remove, Set
  <2>6. CASE DeleteData(i)
    BY <1>0, <2>1, <2>2, <2>6 DEF DeleteData, Remove, Set
  <2> QED BY <1>2, <2>3, <2>4, <2>5, <2>6 DEF Delete
<1>3. ASSUME WipeStart PROVE SeenInv'
  BY <1>0, <1>00, <1>3 DEF WipeStart, files, imports, lists
<1>4. ASSUME NEW e \in wipe, WipeOne(e) PROVE SeenInv'
  <2>1. /\ e[1] \in Id /\ e[1] \in deleted
    BY DEF TypeOK, FilesInv
  <2>2. /\ UNCHANGED <<imp, del, saw, deleted, found, shown, export>>
        /\ data' \in {data, [data EXCEPT ![e[1]] = "none"]}
        /\ meta' \in {meta, [meta EXCEPT ![e[1]] = "none"]}
    BY <1>4 DEF WipeOne, Set, imports, lists
  <2> QED BY <1>0, <1>00, <2>1, <2>2
<1>5. ASSUME NEW i \in scan, ListRead(i) PROVE SeenInv'
  <2>1. UNCHANGED <<data, meta, imp, del, saw, deleted, shown, export>>
    BY <1>5 DEF ListRead, files, imports, deletes
  <2>2. found' = found \/ (Parses(i) /\ found' = found \cup {i})
    BY <1>5 DEF ListRead
  <2>3. Parses(i) => imp[i] \in Past /\ Kept(i)
    BY <1>0 DEF Parses, FilesInv, ListedHasData, Past, ImportPc, Writing, Sealed, Undoing
  <2> QED BY <1>0, <1>00, <2>1, <2>2, <2>3
<1>6. ASSUME ListStart \/ ListEnd PROVE SeenInv'
  BY <1>0, <1>00, <1>6 DEF ListStart, ListEnd, files, imports, deletes
<1>7. ASSUME Export PROVE SeenInv'
  <2>1. /\ UNCHANGED <<data, meta, imp, del, saw, deleted, found, shown>>
        /\ ExportRuns' => ExportRuns /\ export'.id = export.id
    BY <1>0, <1>7 DEF Export, ExportFindMeta, ExportFindData, ExportReadMeta, ExportOpen, ExportGoto,
              NoExport, files, imports, deletes, lists
  <2> QED BY <1>0, <1>00, <2>1
<1>8. ASSUME NEW i \in shown, NEW b \in Buf, ExportStart(i, b) PROVE SeenInv'
  BY <1>0, <1>8 DEF ExportStart, files, imports, deletes, lists
<1>9. ASSUME NEW b \in Buf, Lock(b) PROVE SeenInv'
  BY <1>9 DEF Lock, files, imports, deletes, lists
<1>10. ASSUME Crash PROVE SeenInv'
  <2>1. /\ UNCHANGED <<data, meta, deleted>> /\ found' = {} /\ shown' = {} /\ ~ExportRuns'
    BY <1>10 DEF Crash, files, NoExport
  <2>2. \A j \in Id : /\ imp[j] \in Past => imp'[j] \in Past
                      /\ del'[j] # "idle" => del[j] = "gone" /\ del'[j] = "gone"
    BY <1>0, <1>10 DEF Crash, Past, Sealed, Undoing
  <2> QED BY <1>0, <2>1, <2>2
<1>11. ASSUME UNCHANGED vars PROVE SeenInv'
  BY <1>11 DEF vars, files, imports, deletes, lists
<1> QED BY <1>1, <1>2, <1>3, <1>4, <1>5, <1>6, <1>7, <1>8, <1>9, <1>10, <1>11 DEF Next

LEMMA Seen == Spec => []SeenInv
<1>1. Init => SeenInv
  BY DEF Init, SeenInv, DeletionInv, ExportRuns, NoExport
<1> QED BY <1>1, SeenStep, Typing, FilesSound, PTL DEF Spec

\* An export under way finds its files whole unless somebody deletes or undoes the
\* entry: for any number of imports, deletions and restarts, under every fault.
THEOREM ExportsFindTheirFiles == Spec => []ExportAvailable
<1>1. SeenInv => ExportAvailable
  BY DEF SeenInv, ExportAvailable, ExportRuns, Kept
<1> QED BY <1>1, Seen, PTL

\* An entry whose deletion has returned never has a file again, under every fault.
THEOREM DeletedStaysGone == Spec => []DeletedIsGone
<1>1. SeenInv => DeletedIsGone
  BY DEF SeenInv, DeletionInv, DeletedIsGone
<1> QED BY <1>1, Seen, PTL
=============================================================================
