---------------------------- MODULE SecureVault ----------------------------
(***************************************************************************)
(* What the vault promises for each document of the user: it may be there  *)
(* in the clear, or sealed, or both, and the user may have asked to delete *)
(* it.  Of a document that he has not, one copy never goes before the      *)
(* other exists.  VaultRepository implements this with two files per entry *)
(* and up to three ways of removing an original.                           *)
(***************************************************************************)
CONSTANT Doc

VARIABLES
    plain,   \* the documents that exist in the clear
    sealed,  \* those of which the vault holds a copy that opens
    erased   \* those whose deletion the user has asked for

custody == <<plain, sealed, erased>>

Init == plain = Doc /\ sealed = {} /\ erased = {}

Seal(d) ==
    /\ d \in plain \cup erased
    /\ sealed' = sealed \cup {d} /\ UNCHANGED <<plain, erased>>

\* The original goes.
Destroy(d) ==
    /\ d \in sealed \cup erased
    /\ plain' = plain \ {d} /\ UNCHANGED <<sealed, erased>>

\* The sealed copy goes: an import is undone, or the user deletes the entry.
Drop(d) ==
    /\ d \in plain \cup erased
    /\ sealed' = sealed \ {d} /\ UNCHANGED <<plain, erased>>

Erase(S) == erased' = erased \cup S /\ UNCHANGED <<plain, sealed>>

Next ==
    \/ \E d \in Doc : Seal(d) \/ Destroy(d) \/ Drop(d)
    \/ \E S \in SUBSET Doc : Erase(S)

Spec == Init /\ [][Next]_custody
=============================================================================
