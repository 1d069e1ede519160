---------------------------- MODULE AuthService ----------------------------
(***************************************************************************)
(* AuthService, and LockManager that forwards to it: the master key (KEK)  *)
(* in secure storage, the unlocked copy of it in memory, and the session.  *)
(*                                                                         *)
(* init and authenticate are asynchronous and several calls of them may be *)
(* under way; every action is the code between two awaits.  Exceptions are *)
(* one value, "threw"; messages, reasons and error codes are left out.     *)
(* local_auth and flutter_secure_storage are external: they answer as the  *)
(* code expects, or throw where Faults says so, and local_auth refuses a   *)
(* second prompt while one is showing.                                     *)
(***************************************************************************)
EXTENDS Integers

CONSTANTS
    Call,     \* concurrent calls of init, authenticate and clearAllData
    Buf,      \* the Uint8List objects base64Decode can return; bounds unlocks
    Key,      \* 32-byte keys randomBytes can return; bounds regenerations
    Zeros,    \* the content of a buffer lock() has wiped
    None,     \* null, or a buffer not yet allocated
    Timeout,  \* sessionTimeout
    MaxTime,  \* bound on the clock
    Faults,   \* "plugin": a plugin call throws; "loss": storage loses the key
    Api       \* public operations no screen calls, "extend" and "clear"

ASSUME TimeAssumption   == Timeout \in Nat /\ MaxTime \in Nat
ASSUME DistinctValues   == Zeros # None /\ Zeros \notin Key /\ None \notin Key \cup Buf \cup Nat
ASSUME AuthFaults       == Faults \subseteq {"plugin", "loss"}
ASSUME ApiAssumption    == Api \subseteq {"extend", "clear"}

VARIABLES
    device,      \* what the phone offers: biometrics, or only a screen-lock PIN
    stored,      \* the KEK in secure storage
    issued,      \* keys generated so far
    bytes,       \* Buf -> what the buffer holds
    kek,         \* _kek
    lastUnlock,  \* _lastUnlock
    ready,       \* has an init returned since the app started?
    now,         \* the clock
    pc, op, fresh  \* Call -> where it is, what it is, the key it generated

session == <<bytes, kek, lastUnlock>>
calls   == <<pc, op, fresh, ready>>
vars    == <<device, stored, issued, session, now, calls>>

Ended   == {"idle", "true", "false", "threw"}
Pending == {"available", "prompt", "read", "existing", "write", "verify", "reread", "erase"}

TypeOK ==
    /\ device \in {"biometric", "pinOnly"}
    /\ stored \in Key \cup {None}
    /\ issued \subseteq Key
    /\ bytes  \in [Buf -> Key \cup {Zeros, None}]
    /\ kek    \in Buf \cup {None}
    /\ lastUnlock \in Nat \cup {None}
    /\ now    \in Nat
    /\ pc     \in [Call -> Ended \cup Pending]
    /\ op     \in [Call -> {"init", "authenticate", "clear"}]
    /\ fresh  \in [Call -> Key \cup {None}]
    /\ ready  \in {"no", "yes"}

\* The app was installed before, and has a key, or is started for the first time.
Init ==
    /\ device \in {"biometric", "pinOnly"}
    /\ stored \in Key \cup {None}
    /\ issued = {stored} \ {None}
    /\ bytes = [b \in Buf |-> None]
    /\ kek = None /\ lastUnlock = None /\ now = 0
    /\ pc = [c \in Call |-> "idle"]
    /\ op = [c \in Call |-> "init"]
    /\ fresh = [c \in Call |-> None] /\ ready = "no"

Throws == "plugin" \in Faults

-----------------------------------------------------------------------------

isSessionExpired == IF lastUnlock = None THEN TRUE ELSE now - lastUnlock >= Timeout
isUnlocked       == kek # None /\ lastUnlock # None /\ ~isSessionExpired

Goto(c, here, there) == pc[c] = here /\ pc' = [pc EXCEPT ![c] = there]

Begin(c, what, start) ==
    /\ pc[c] \in Ended
    /\ pc' = [pc EXCEPT ![c] = start] /\ op' = [op EXCEPT ![c] = what]

\* main and LockScreen._unlock await it, while no other screen exists.
CallInit(c) ==
    /\ \A o \in Call : pc[o] \in Ended
    /\ Begin(c, "init", "existing")
    /\ UNCHANGED <<device, stored, issued, session, now, fresh, ready>>

\* LockScreen._unlock calls it after an init that returned; the handlers of
\* HomeScreen do not wait for one another.
CallAuthenticate(c) ==
    /\ ready = "yes" /\ \A o \in Call : op[o] = "init" => pc[o] \in Ended
    /\ Begin(c, "authenticate", "available")
    /\ UNCHANGED <<device, stored, issued, session, now, fresh, ready>>

\* isBiometricAvailable must answer true although the prompt itself, with
\* biometricOnly: false, would take the PIN; a throw of the plugin counts as no.
CheckAvailable(c) ==
    /\ \/ /\ device = "biometric" /\ \A o \in Call : pc[o] # "prompt"
          /\ Goto(c, "available", "prompt")
       \/ /\ device # "biometric" \/ Throws \/ \E o \in Call : pc[o] = "prompt"
          /\ Goto(c, "available", "threw")
    /\ UNCHANGED <<device, stored, issued, session, now, op, fresh, ready>>

\* The user passes the prompt, does not, or the platform reports an error.
Prompt(c) ==
    /\ \E answer \in {"read", "false"} \cup (IF Throws THEN {"threw"} ELSE {}) :
         Goto(c, "prompt", answer)
    /\ UNCHANGED <<device, stored, issued, session, now, op, fresh, ready>>

\* Mistake: the buffer of the last session is wiped, whoever still seals with it.
Install_WipesOld(c, here) ==
    /\ stored # None
    /\ Goto(c, here, "true")
    /\ \E b \in Buf :
         /\ bytes[b] = None /\ kek' = b
         /\ bytes' = [x \in Buf |-> IF x = b THEN stored ELSE IF x = kek THEN Zeros ELSE bytes[x]]
    /\ lastUnlock' = now

\* _kek = base64Decode(...): a new buffer; the old one is dropped as it is.
Install(c, here) ==
    /\ stored # None
    /\ Goto(c, here, "true")
    /\ \E b \in Buf : /\ bytes[b] = None
                      /\ bytes' = [bytes EXCEPT ![b] = stored] /\ kek' = b
    /\ lastUnlock' = now

ReadKek(c) ==
    /\ \/ Install(c, "read")
       \/ stored = None /\ Goto(c, "read", "existing") /\ UNCHANGED session
       \/ Throws /\ Goto(c, "read", "threw") /\ UNCHANGED session
    /\ UNCHANGED <<device, stored, issued, now, op, fresh, ready>>

\* init returns, to its caller or to the authenticate that regenerates the key.
InitReturns(c, here) ==
    /\ stored # None
    /\ Goto(c, here, IF op[c] = "init" THEN "true" ELSE "reread")
    /\ ready' = "yes"

\* Mistake: a key is generated whether or not one is stored.
InitRead_Always(c) ==
    /\ Goto(c, "existing", "write")
    /\ \E k \in Key \ issued : /\ issued' = issued \cup {k}
                               /\ fresh' = [fresh EXCEPT ![c] = k]
    /\ UNCHANGED <<device, stored, session, now, op, ready>>

\* Mistake: init keeps the key it found, to unlock faster.
InitRead_Unlocks(c) ==
    /\ Install(c, "existing")
    /\ UNCHANGED <<device, stored, issued, now, op, fresh, ready>>

\* init: a key is generated if none is stored, and not looked for again.
InitRead(c) ==
    /\ \/ InitReturns(c, "existing") /\ UNCHANGED <<issued, fresh>>
       \/ /\ stored = None /\ Goto(c, "existing", "write") /\ UNCHANGED ready
          /\ \E k \in Key \ issued : /\ issued' = issued \cup {k}
                                     /\ fresh' = [fresh EXCEPT ![c] = k]
       \/ /\ Throws /\ Goto(c, "existing", "threw")
          /\ UNCHANGED <<issued, fresh, ready>>
    /\ UNCHANGED <<device, stored, session, now, op>>

InitWrite(c) ==
    /\ \/ Goto(c, "write", "verify") /\ stored' = fresh[c]
       \/ Throws /\ Goto(c, "write", "threw") /\ UNCHANGED stored
    /\ UNCHANGED <<device, issued, session, now, op, fresh, ready>>

InitVerify(c) ==
    /\ \/ InitReturns(c, "verify")
       \/ (stored = None \/ Throws) /\ Goto(c, "verify", "threw") /\ UNCHANGED ready
    /\ UNCHANGED <<device, stored, issued, session, now, op, fresh>>

RereadKek(c) ==
    /\ \/ Install(c, "reread")
       \/ (stored = None \/ Throws) /\ Goto(c, "reread", "threw") /\ UNCHANGED session
    /\ UNCHANGED <<device, stored, issued, now, op, fresh, ready>>

\* Mistake: the buffer is wiped but _kek still points to it.
ClearSession_KeepReference ==
    /\ bytes' = [b \in Buf |-> IF b = kek THEN Zeros ELSE bytes[b]]
    /\ lastUnlock' = None /\ UNCHANGED kek

\* lock() fills the current buffer with zeros, in place, and forgets it.
ClearSession ==
    /\ bytes' = [b \in Buf |-> IF b = kek THEN Zeros ELSE bytes[b]]
    /\ kek' = None /\ lastUnlock' = None

Lock ==
    /\ kek # None
    /\ ClearSession
    /\ UNCHANGED <<device, stored, issued, now, calls>>

extendSession ==
    /\ "extend" \in Api /\ kek # None
    /\ lastUnlock' = now
    /\ UNCHANGED <<device, stored, issued, bytes, kek, now, calls>>

CallClearAllData(c) ==
    /\ "clear" \in Api
    /\ Begin(c, "clear", "erase")
    /\ ClearSession
    /\ UNCHANGED <<device, stored, issued, now, fresh, ready>>

EraseKek(c) ==
    /\ \/ Goto(c, "erase", "true") /\ stored' = None
       \/ Throws /\ Goto(c, "erase", "threw") /\ UNCHANGED stored
    /\ UNCHANGED <<device, issued, session, now, op, fresh, ready>>

Tick ==
    /\ now < MaxTime
    /\ now' = now + 1
    /\ UNCHANGED <<device, stored, issued, session, calls>>

\* The keystore's key is invalidated, and what it protected reads as absent.
KeystoreLoss ==
    /\ "loss" \in Faults
    /\ stored' = None
    /\ UNCHANGED <<device, issued, session, now, calls>>

Step(c) ==
    \/ CallInit(c) \/ CallAuthenticate(c) \/ CheckAvailable(c) \/ Prompt(c)
    \/ ReadKek(c) \/ InitRead(c) \/ InitWrite(c) \/ InitVerify(c) \/ RereadKek(c)
    \/ CallClearAllData(c) \/ EraseKek(c)

Next == (\E c \in Call : Step(c)) \/ Lock \/ extendSession \/ Tick \/ KeystoreLoss

Spec == Init /\ [][Next]_vars

-----------------------------------------------------------------------------
(* Properties *)

\* While there is a session its buffer holds a key that was really issued: no
\* call, however late it ends, brings back a buffer that lock() has wiped, and
\* the two fields that isUnlocked reads are set and reset together.
SessionAlive ==
    /\ kek # None => bytes[kek] \in issued
    /\ kek = None <=> lastUnlock = None

\* init looks whether a key exists so as never to replace one (comment, line 38):
\* the entries of the vault open only with the key that wrapped them.
KekNeverReplaced == [][stored # None => stored' \in {stored, None}]_vars

\* The key that seals this session's imports is the key the next session reads.
SessionKeyIsStored == kek # None => bytes[kek] = stored

\* Inductive: every key anywhere is an issued one.
IssuedInv ==
    /\ SessionAlive
    /\ stored \in issued \cup {None}
    /\ \A c \in Call : pc[c] = "write" => fresh[c] \in issued

\* Inductive where calls do not overlap and the storage loses nothing.
SequentialInv ==
    /\ SessionKeyIsStored
    /\ \A c \in Call : /\ pc[c] = "write" => stored = None
                       /\ pc[c] = "erase" => kek = None

\* A session starts only when a prompt was passed.  One that has merely expired, whose
\* key lock() has not wiped yet, can also come back by extendSession (lines 214-218),
\* which tests _kek and not the time: then with the very buffer it had.
OnlyAPromptUnlocks ==
    [][~isUnlocked /\ isUnlocked' =>
         \/ \E c \in Call : pc[c] \in {"read", "reread"}
         \/ kek # None /\ kek' = kek /\ bytes' = bytes]_vars
=============================================================================
