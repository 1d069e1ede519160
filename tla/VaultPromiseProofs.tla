------------------------- MODULE VaultPromiseProofs -------------------------
(* VaultRepository implements SecureVault where the platform is Dependable.   *)
EXTENDS VaultRepositoryProofs

\* Without ignored deletes no import reaches the fallbacks of lines 145-180.
TempsUnused == \A i \in Id : temp[i] = "absent"

LEMMA TempsUnusedStep ==
    TypeOK /\ CustodyInv /\ TempsUnused /\ [Next]_vars => TempsUnused'
<1> SUFFICES ASSUME TypeOK, CustodyInv, TempsUnused, [Next]_vars PROVE TempsUnused'
    OBVIOUS
<1>0. /\ imp \in [Id -> ImportPc] /\ from \in [Id -> Doc] /\ source \in [Doc -> SourceState]
      /\ \A j \in Id : /\ imp[j] \notin {"rename", "deleteTemp", "overwrite", "deleteEmptied"}
                       /\ imp[j] = "poll" => source[from[j]] = "absent"
  BY DEF TypeOK, CustodyInv
<1> USE DEF TempsUnused
<1>1. ASSUME NEW i \in Id, Import(i) PROVE TempsUnused'
  <2> UNCHANGED from
    BY <1>1 DEF Import, choice
  <2> USE <1>0 DEF Goto, Set, files, Original
  <2>1. CASE ImportStart(i) \/ ImportRead(i) \/ ImportCheck(i) \/ ImportVerify(i) \/ ImportPoll(i)
    BY <2>1 DEF ImportStart, ImportRead, ImportCheck, ImportVerify, ImportPoll
  <2>2. CASE ImportSeal(i) \/ ImportWriteData(i) \/ ImportWriteMeta(i)
    BY <2>2 DEF ImportSeal, ImportWriteData, ImportWriteMeta
  <2>3. CASE ImportDelete(i)
    BY <2>3 DEF ImportDelete
  <2>4. CASE ImportRename(i) \/ ImportDeleteTemp(i) \/ ImportOverwrite(i) \/ ImportDeleteEmptied(i)
    BY <2>4 DEF ImportRename, ImportDeleteTemp, ImportOverwrite, ImportDeleteEmptied
  <2>5. CASE ImportCleanData(i) \/ ImportCleanMeta(i)
    BY <2>5 DEF ImportCleanData, ImportCleanMeta
  <2> QED BY <1>1, <2>1, <2>2, <2>3, <2>4, <2>5 DEF Import
<1>2. ASSUME NEW i \in Id, Delete(i) PROVE TempsUnused'
  BY <1>2 DEF Delete, imports, choice
<1>3. ASSUME WipeStart \/ \E e \in wipe : WipeOne(e) PROVE TempsUnused'
  BY <1>3 DEF WipeStart, WipeOne, files, imports, choice
<1>4. ASSUME Crash PROVE TempsUnused'
  BY <1>0, <1>4 DEF Crash, files, choice
<1>5. ASSUME Quiet \/ UNCHANGED vars PROVE TempsUnused'
  BY <1>5 DEF Quiet, vars, files, imports, choice
<1> QED BY <1>1, <1>2, <1>3, <1>4, <1>5, QuietSteps

LEMMA TempsStayUnused ==
    ASSUME Dependable
    PROVE  Spec => []TempsUnused
<1>1. Init => TempsUnused
  BY DEF Init, TempsUnused
<1>2. Spec => []CustodyInv
  BY Custody
<1> QED BY <1>1, <1>2, TempsUnusedStep, Typing, PTL DEF Spec

-----------------------------------------------------------------------------

Plain        == {d \in Doc : source[d] = "intact" \/ \E i \in Id : from[i] = d /\ temp[i] = "intact"}
SealedDocs   == {d \in Doc : InVault(d)}
ErasedDocs   == {d \in Doc : Erased(d)}

PromiseInv == TypeOK /\ CustodyInv /\ TempsUnused

\* Under PromiseInv a document is plain just while its own file is.
LEMMA PlainIsIntact == TempsUnused => Plain = {d \in Doc : source[d] = "intact"}
BY DEF TempsUnused, Plain

\* Whatever else holds, a document that is neither plain nor erased is sealed.
LEMMA InCustody ==
    ASSUME CustodyInv, NEW d \in Doc PROVE d \in Plain \cup ErasedDocs \cup SealedDocs
BY DEF CustodyInv, Settled, Plain, SealedDocs, ErasedDocs, InVault

\* A step of an import changes one set at most, and only for the document it imports.
LEMMA ImportFrame ==
    ASSUME PromiseInv, PromiseInv', NEW i \in Id, Import(i)
    PROVE  /\ ErasedDocs' = ErasedDocs
           /\ \/ Plain' = Plain
              \/ /\ Plain' = Plain \ {from[i]} /\ SealedDocs' = SealedDocs
                 /\ from[i] \in SealedDocs \cup ErasedDocs
           /\ SealedDocs' \in {SealedDocs, SealedDocs \cup {from[i]}, SealedDocs \ {from[i]}}
<1>0. /\ UNCHANGED <<from, deleted>> /\ from \in [Id -> Doc] /\ source \in [Doc -> SourceState]
      /\ data \in [Id -> FileState] /\ meta \in [Id -> FileState] /\ imp \in [Id -> ImportPc]
      /\ wrapped \in [Id -> Key \cup {Zeros}] /\ FilesInv /\ FilesInv'
      /\ \A j \in Id : /\ imp[j] \notin {"rename", "deleteTemp", "overwrite", "deleteEmptied"}
                       /\ imp[j] \in Sealed => wrapped[j] \in Key
  BY DEF Import, choice, deletes, PromiseInv, TypeOK, CustodyInv
<1>1. ErasedDocs' = ErasedDocs
  BY <1>0 DEF ErasedDocs, Erased
<1>2. Plain = {d \in Doc : source[d] = "intact"} /\ Plain' = {d \in Doc : source'[d] = "intact"}
  BY PlainIsIntact DEF PromiseInv, TempsUnused, Plain
<1>3. \A j \in Id \ {i} : data'[j] = data[j] /\ meta'[j] = meta[j] /\ wrapped'[j] = wrapped[j]
  <2> USE <1>0 DEF Goto, Set, Written, files
  <2>1. CASE ImportStart(i) \/ ImportRead(i) \/ ImportCheck(i) \/ ImportVerify(i) \/ ImportPoll(i)
    BY <2>1 DEF ImportStart, ImportRead, ImportCheck, ImportVerify, ImportPoll
  <2>2. CASE ImportSeal(i) \/ ImportWriteData(i) \/ ImportWriteMeta(i)
    BY <2>2 DEF ImportSeal, ImportWriteData, ImportWriteMeta
  <2>3. CASE ImportDelete(i) \/ ImportRename(i) \/ ImportDeleteTemp(i) \/ ImportOverwrite(i)
    BY <2>3 DEF ImportDelete, ImportRename, ImportDeleteTemp, ImportOverwrite
  <2>4. CASE ImportDeleteEmptied(i) \/ ImportCleanData(i) \/ ImportCleanMeta(i)
    BY <2>4 DEF ImportDeleteEmptied, ImportCleanData, ImportCleanMeta
  <2> QED BY <2>1, <2>2, <2>3, <2>4 DEF Import
<1>4. SealedDocs' \in {SealedDocs, SealedDocs \cup {from[i]}, SealedDocs \ {from[i]}}
  <2>1. \A d \in Doc : d # from[i] => (InVault(d)' <=> InVault(d))
    BY <1>0, <1>3 DEF InVault, Openable, Complete
  <2> QED BY <2>1 DEF SealedDocs
<1>5. CASE ImportDelete(i)
  <2>1. /\ UNCHANGED <<data, meta, wrapped>> /\ imp[i] \in Sealed
        /\ source' \in {source, Set(source, from[i], "absent")}
    BY <1>5 DEF ImportDelete, Goto, Sealed
  <2>2. SealedDocs' = SealedDocs
    BY <1>0, <2>1 DEF SealedDocs, InVault, Openable, Complete
  <2>3. from[i] \in SealedDocs \cup ErasedDocs
    BY <1>0, <2>1 DEF FilesInv, SealedDocs, ErasedDocs, InVault, Erased, Openable
  <2>4. Plain' = Plain \/ Plain' = Plain \ {from[i]}
    BY <1>0, <1>2, <2>1 DEF Set
  <2> QED BY <1>1, <1>4, <2>2, <2>3, <2>4
<1>6. CASE ~ ImportDelete(i)
  <2>1. source' = source
    BY <1>0, <1>6 DEF Import, ImportStart, ImportRead, ImportSeal, ImportWriteData, ImportWriteMeta,
       ImportCheck, ImportVerify, ImportPoll, ImportRename, ImportDeleteTemp, ImportOverwrite,
       ImportDeleteEmptied, ImportCleanData, ImportCleanMeta, Goto, files
  <2> QED BY <1>1, <1>2, <1>4, <2>1
<1> QED BY <1>5, <1>6

\* Deletions only erase, or drop what was erased.
LEMMA DeletionFrame ==
    ASSUME PromiseInv, PromiseInv', NEW i \in Id,
           UNCHANGED <<source, temp, from, wrapped>>,
           i \in deleted', deleted' \in {deleted, deleted \cup {i}},
           (data' = data /\ meta' = meta) \/ (i \in deleted /\ deleted' = deleted),
           \A j \in Id \ {i} : data'[j] = data[j] /\ meta'[j] = meta[j]
    PROVE  [Promise!Next]_(Promise!custody)
<1>0. from \in [Id -> Doc]
  BY DEF PromiseInv, TypeOK
<1>1. Plain' = Plain
  BY DEF Plain
<1>2. CASE data' = data /\ meta' = meta
  <2>1. SealedDocs' = SealedDocs
    BY <1>2 DEF SealedDocs, InVault, Openable, Complete
  <2>2. ErasedDocs' = ErasedDocs \cup (ErasedDocs' \ ErasedDocs) /\ ErasedDocs' \in SUBSET Doc
    BY DEF ErasedDocs, Erased
  <2> QED BY <1>1, <2>1, <2>2 DEF Promise!Next, Promise!Erase, Plain, SealedDocs, ErasedDocs
<1>3. CASE i \in deleted /\ deleted' = deleted
  <2>1. ErasedDocs' = ErasedDocs /\ from[i] \in ErasedDocs
    BY <1>0, <1>3 DEF ErasedDocs, Erased
  <2>2. \A d \in Doc : d # from[i] => (InVault(d)' <=> InVault(d))
    BY <1>0 DEF InVault, Openable, Complete
  <2>3. SealedDocs' \in {SealedDocs, SealedDocs \cup {from[i]}, SealedDocs \ {from[i]}}
    BY <2>2 DEF SealedDocs
  <2>4. from[i] \in Doc
    BY <1>0
  <2> QED BY <1>1, <2>1, <2>3, <2>4
      DEF Promise!Next, Promise!Seal, Promise!Drop, Promise!custody, Plain, SealedDocs, ErasedDocs
<1> QED BY <1>2, <1>3

LEMMA PromiseStep ==
    PromiseInv /\ PromiseInv' /\ [Next]_vars => [Promise!Next]_(Promise!custody)
<1> SUFFICES ASSUME PromiseInv, PromiseInv', [Next]_vars
             PROVE  [Promise!Next]_(Promise!custody)
    OBVIOUS
<1>1. ASSUME NEW i \in Id, Import(i) PROVE [Promise!Next]_(Promise!custody)
  <2>1. from[i] \in Doc /\ from[i] \in Plain \cup ErasedDocs \cup SealedDocs
    BY InCustody DEF PromiseInv, TypeOK
  <2>2. from[i] \in Plain' \cup ErasedDocs' \cup SealedDocs'
    <3>1. \A d \in Doc : d \in Plain' \cup ErasedDocs' \cup SealedDocs'
      BY DEF PromiseInv, CustodyInv, Settled, Plain, SealedDocs, ErasedDocs, InVault
    <3> QED BY <2>1, <3>1
  <2>3. CASE Plain' # Plain
    BY <1>1, <2>1, <2>3, ImportFrame
       DEF Promise!Next, Promise!Destroy, Plain, SealedDocs, ErasedDocs
  <2>4. CASE Plain' = Plain /\ SealedDocs' = SealedDocs
    BY <1>1, <2>4, ImportFrame DEF Promise!custody, Plain, SealedDocs, ErasedDocs
  <2>5. CASE Plain' = Plain /\ SealedDocs' = SealedDocs \cup {from[i]} /\ SealedDocs' # SealedDocs
    BY <1>1, <2>1, <2>5, ImportFrame DEF Promise!Next, Promise!Seal, Plain, SealedDocs, ErasedDocs
  <2>6. CASE Plain' = Plain /\ SealedDocs' = SealedDocs \ {from[i]} /\ SealedDocs' # SealedDocs
    BY <1>1, <2>1, <2>2, <2>6, ImportFrame DEF Promise!Next, Promise!Drop, Plain, SealedDocs, ErasedDocs
  <2> QED BY <1>1, <2>3, <2>4, <2>5, <2>6, ImportFrame
<1>2. ASSUME NEW i \in Id, Delete(i) PROVE [Promise!Next]_(Promise!custody)
  <2>1. UNCHANGED <<source, temp, from, wrapped>>
    BY <1>2 DEF Delete, imports, choice
  <2>2. /\ i \in deleted' /\ deleted' \in {deleted, deleted \cup {i}}
        /\ (data' = data /\ meta' = meta) \/ (i \in deleted /\ deleted' = deleted)
    BY <1>2 DEF Delete, DeleteLookMeta, DeleteLookData, DeleteMeta, DeleteData, Remove, Set,
                PromiseInv, TypeOK, CustodyInv, FilesInv
  <2>3. \A j \in Id \ {i} : data'[j] = data[j] /\ meta'[j] = meta[j]
    BY <1>2 DEF Delete, DeleteLookMeta, DeleteLookData, DeleteMeta, DeleteData, Remove, Set,
                PromiseInv, TypeOK, CustodyInv, FilesInv
  <2> QED BY ONLY PromiseInv, PromiseInv', i \in Id, <2>1, <2>2, <2>3, DeletionFrame
<1>3. ASSUME WipeStart PROVE [Promise!Next]_(Promise!custody)
  <2>1. UNCHANGED <<source, temp, data, meta, from, wrapped>>
    BY <1>3 DEF WipeStart, files, imports, choice
  <2>2. deleted \subseteq deleted'
    BY <1>3 DEF WipeStart
  <2>3. Plain' = Plain /\ SealedDocs' = SealedDocs /\ ErasedDocs' = ErasedDocs \cup ErasedDocs'
    BY <2>1, <2>2 DEF Plain, SealedDocs, ErasedDocs, Erased, InVault, Openable, Complete
  <2>4. ErasedDocs' \in SUBSET Doc
    BY DEF ErasedDocs
  <2> QED BY <2>3, <2>4 DEF Promise!Next, Promise!Erase, Plain, SealedDocs, ErasedDocs
<1>4. ASSUME NEW e \in wipe, WipeOne(e) PROVE [Promise!Next]_(Promise!custody)
  <2>1. e[1] \in Id /\ e[1] \in deleted
    BY DEF PromiseInv, TypeOK, CustodyInv, FilesInv
  <2>2. /\ UNCHANGED <<source, temp, from, wrapped, deleted>>
        /\ \A j \in Id \ {e[1]} : data'[j] = data[j] /\ meta'[j] = meta[j]
    BY <1>4 DEF WipeOne, Set, imports, choice, PromiseInv, TypeOK
  <2> QED BY <2>1, <2>2, DeletionFrame
<1>5. ASSUME Crash \/ Quiet \/ UNCHANGED vars PROVE [Promise!Next]_(Promise!custody)
  <2>1. UNCHANGED <<source, temp, data, meta, from, wrapped, deleted>>
    BY <1>5 DEF Crash, Quiet, vars, files, imports, choice, deletes
  <2> QED BY <2>1 DEF Promise!custody, InVault, Erased, Openable, Complete
<1> QED BY <1>1, <1>2, <1>3, <1>4, <1>5, QuietSteps

\* The repository does what SecureVault promises: for any documents, entries and
\* interleaving, one copy of a document never goes before the other exists.
THEOREM RepositoryKeepsItsPromise ==
    ASSUME Dependable
    PROVE  Spec => KeepsPromise
<1>1. Init => Promise!Init
  BY DEF Init, Promise!Init, InVault, Erased, Openable, Complete
<1>2. Spec => []CustodyInv
  BY Custody
<1>3. Spec => []TempsUnused
  BY TempsStayUnused
<1>4. Spec => []PromiseInv
  BY <1>2, <1>3, Typing, PTL DEF PromiseInv
<1> QED BY <1>1, <1>4, PromiseStep, PTL DEF Spec, KeepsPromise, Promise!Spec
=============================================================================
