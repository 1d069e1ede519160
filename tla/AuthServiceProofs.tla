------------------------ MODULE AuthServiceProofs ------------------------
(* Theorems of AuthService for any number of calls, buffers and keys. *)
EXTENDS AuthService, TLAPS

\* Every variable keeps its type, however the calls interleave.
THEOREM AuthTyping == Spec => []TypeOK
<1>1. Init => TypeOK
  BY DEF Init, TypeOK, Ended
<1>2. TypeOK /\ [Next]_vars => TypeOK'
  <2> SUFFICES ASSUME TypeOK, [Next]_vars PROVE TypeOK'
    OBVIOUS
  <2> USE DEF TypeOK, Ended, Pending, Goto, session
  <2>1. ASSUME NEW c \in Call, Step(c) PROVE TypeOK'
    <3>1. CASE CallInit(c) \/ CallAuthenticate(c) \/ CheckAvailable(c)
      BY <3>1 DEF CallInit, CallAuthenticate, CheckAvailable, Begin
    <3>2. CASE Prompt(c)
      BY <3>2 DEF Prompt
    <3>3. CASE ReadKek(c) \/ RereadKek(c)
      BY <3>3 DEF ReadKek, RereadKek, Install
    <3>4. CASE InitRead(c) \/ InitVerify(c)
      BY <3>4 DEF InitRead, InitVerify, InitReturns
    <3>5. CASE InitWrite(c)
      <4>1. stored' \in {stored, fresh[c]}
        BY <3>5 DEF InitWrite
      <4> QED BY <3>5, <4>1 DEF InitWrite
    <3>6. CASE CallClearAllData(c) \/ EraseKek(c)
      BY <3>6 DEF CallClearAllData, EraseKek, Begin, ClearSession
    <3> QED BY <2>1, <3>1, <3>2, <3>3, <3>4, <3>5, <3>6 DEF Step
  <2>2. CASE Lock
    BY <2>2 DEF Lock, ClearSession, calls
  <2>3. CASE extendSession \/ Tick \/ KeystoreLoss
    BY <2>3 DEF extendSession, Tick, KeystoreLoss, calls
  <2>4. CASE UNCHANGED vars
    BY <2>4 DEF vars, calls
  <2> QED BY <2>1, <2>2, <2>3, <2>4 DEF Next
<1> QED BY <1>1, <1>2, PTL DEF Spec

-----------------------------------------------------------------------------

\* Keys in memory and in storage are issued keys, whatever overlaps or fails.
LEMMA IssuedStep == TypeOK /\ IssuedInv /\ [Next]_vars => IssuedInv'
<1> SUFFICES ASSUME TypeOK, IssuedInv, [Next]_vars PROVE IssuedInv'
    OBVIOUS
<1> USE DistinctValues DEF TypeOK, IssuedInv, SessionAlive, Goto, session
<1>1. ASSUME NEW c \in Call, Step(c) PROVE IssuedInv'
  <2>1. CASE CallInit(c) \/ CallAuthenticate(c) \/ CheckAvailable(c)
    BY <2>1 DEF CallInit, CallAuthenticate, CheckAvailable, Begin
  <2>2. CASE Prompt(c)
    BY <2>2 DEF Prompt
  <2>3. CASE ReadKek(c) \/ RereadKek(c)
    BY <2>3 DEF ReadKek, RereadKek, Install
  <2>4. CASE InitRead(c) \/ InitVerify(c)
    BY <2>4 DEF InitRead, InitVerify, InitReturns
  <2>5. CASE InitWrite(c)
    BY <2>5 DEF InitWrite
  <2>6. CASE CallClearAllData(c) \/ EraseKek(c)
    BY <2>6 DEF CallClearAllData, EraseKek, Begin, ClearSession
  <2> QED BY <1>1, <2>1, <2>2, <2>3, <2>4, <2>5, <2>6 DEF Step
<1>2. CASE Lock
  BY <1>2 DEF Lock, ClearSession, calls
<1>3. CASE extendSession \/ Tick \/ KeystoreLoss
  BY <1>3 DEF extendSession, Tick, KeystoreLoss, calls
<1>4. CASE UNCHANGED vars
  BY <1>4 DEF vars, calls
<1> QED BY <1>1, <1>2, <1>3, <1>4 DEF Next

THEOREM Issued == Spec => []IssuedInv
<1>1. Init => IssuedInv
  BY DEF Init, IssuedInv, SessionAlive
<1> QED BY <1>1, IssuedStep, AuthTyping, PTL DEF Spec

\* The session never holds a wiped buffer, for any interleaving of calls.
THEOREM SessionsAreAlive == Spec => []SessionAlive
<1>1. IssuedInv => SessionAlive
  BY DEF IssuedInv
<1> QED BY <1>1, Issued, PTL

-----------------------------------------------------------------------------

\* Nothing but a passed prompt starts a session, and nothing but extendSession
\* revives an expired one, for any number of overlapping calls and under every fault.
THEOREM PromptUnlocks == Spec => OnlyAPromptUnlocks
<1> DEFINE Unlocks == ~isUnlocked /\ isUnlocked' =>
                        \/ \E c \in Call : pc[c] \in {"read", "reread"}
                        \/ kek # None /\ kek' = kek /\ bytes' = bytes
<1>1. TypeOK /\ [Next]_vars => [Unlocks]_vars
  <2> SUFFICES ASSUME TypeOK, Next PROVE Unlocks
    BY DEF vars
  <2> USE TimeAssumption, DistinctValues DEF TypeOK, isUnlocked, isSessionExpired, session
  <2>1. ASSUME NEW c \in Call, Step(c) PROVE Unlocks
    <3>1. CASE UNCHANGED <<kek, lastUnlock, now>>
      BY <3>1
    <3>2. CASE CallClearAllData(c)
      BY <3>2 DEF CallClearAllData, ClearSession
    <3>3. CASE Install(c, "read") \/ Install(c, "reread")
      BY <3>3 DEF Install, Goto
    <3> QED BY <2>1, <3>1, <3>2, <3>3 DEF Step, CallInit, CallAuthenticate, CheckAvailable, Prompt,
               ReadKek, InitRead, InitWrite, InitVerify, RereadKek, EraseKek
  <2>2. CASE Lock
    BY <2>2 DEF Lock, ClearSession
  <2>3. CASE Tick
    BY <2>3 DEF Tick
  <2>4. CASE KeystoreLoss
    BY <2>4 DEF KeystoreLoss
  <2>5. CASE extendSession
    BY <2>5 DEF extendSession
  <2> QED BY <2>1, <2>2, <2>3, <2>4, <2>5 DEF Next
<1> QED BY <1>1, AuthTyping, PTL DEF Spec, OnlyAPromptUnlocks

-----------------------------------------------------------------------------
(* One call at a time, as a user who waits makes them, and storage that     *)
(* keeps what it was given.                                                 *)

Sequential == (\A c, o \in Call : c = o) /\ "loss" \notin Faults

LEMMA SequentialStep ==
    ASSUME Sequential
    PROVE  TypeOK /\ IssuedInv /\ SequentialInv /\ [Next]_vars => SequentialInv'
<1> SUFFICES ASSUME TypeOK, IssuedInv, SequentialInv, [Next]_vars PROVE SequentialInv'
    OBVIOUS
<1> USE DistinctValues DEF Sequential, TypeOK, SequentialInv, SessionKeyIsStored, Goto, session
<1>1. ASSUME NEW c \in Call, Step(c) PROVE SequentialInv'
  <2>1. CASE CallInit(c) \/ CallAuthenticate(c) \/ CheckAvailable(c)
    BY <2>1 DEF CallInit, CallAuthenticate, CheckAvailable, Begin
  <2>2. CASE Prompt(c)
    BY <2>2 DEF Prompt
  <2>3. CASE ReadKek(c) \/ RereadKek(c)
    BY <2>3 DEF ReadKek, RereadKek, Install
  <2>4. CASE InitRead(c) \/ InitVerify(c)
    BY <2>4 DEF InitRead, InitVerify, InitReturns
  <2>5. CASE InitWrite(c)
    \* Nothing was stored, so no session had a key from the storage.
    <3>1. pc[c] = "write" /\ stored = None
      BY <2>5 DEF InitWrite
    <3>2. kek = None
      BY <3>1 DEF IssuedInv, SessionAlive
    <3> QED BY <2>5, <3>2 DEF InitWrite
  <2>6. CASE CallClearAllData(c) \/ EraseKek(c)
    BY <2>6 DEF CallClearAllData, EraseKek, Begin, ClearSession
  <2> QED BY <1>1, <2>1, <2>2, <2>3, <2>4, <2>5, <2>6 DEF Step
<1>2. CASE Lock
  BY <1>2 DEF Lock, ClearSession, calls
<1>3. CASE extendSession \/ Tick \/ KeystoreLoss
  BY <1>3 DEF extendSession, Tick, KeystoreLoss, calls
<1>4. CASE UNCHANGED vars
  BY <1>4 DEF vars, calls
<1> QED BY <1>1, <1>2, <1>3, <1>4 DEF Next

THEOREM SequentialHolds ==
    ASSUME Sequential
    PROVE  Spec => []SequentialInv
<1>1. Init => SequentialInv
  BY DEF Init, SequentialInv, SessionKeyIsStored
<1>2. TypeOK /\ IssuedInv /\ SequentialInv /\ [Next]_vars => SequentialInv'
  BY SequentialStep
<1> QED BY <1>1, <1>2, AuthTyping, Issued, PTL DEF Spec

\* Calls that do not overlap never replace a stored key by another.
THEOREM KeyIsKept ==
    ASSUME Sequential
    PROVE  Spec => KekNeverReplaced
<1> DEFINE Kept == stored # None => stored' \in {stored, None}
<1>1. TypeOK /\ SequentialInv /\ [Next]_vars => [Kept]_vars
  <2> SUFFICES ASSUME TypeOK, SequentialInv, Next PROVE Kept
    BY DEF vars
  <2>1. ASSUME NEW c \in Call, InitWrite(c) PROVE Kept
    BY <2>1 DEF InitWrite, Goto, SequentialInv
  <2>2. CASE stored' \in {stored, None}
    BY <2>2
  <2> QED BY <2>1, <2>2 DEF Next, Step, CallInit, CallAuthenticate, CheckAvailable, Prompt,
         ReadKek, InitRead, InitVerify, RereadKek, CallClearAllData, EraseKek, Lock,
         extendSession, Tick, KeystoreLoss
<1> QED BY <1>1, AuthTyping, SequentialHolds, PTL DEF Spec, KekNeverReplaced

\* And the key a session seals with is the key the next session will read.
THEOREM SessionKeyIsKept ==
    ASSUME Sequential
    PROVE  Spec => []SessionKeyIsStored
<1>1. SequentialInv => SessionKeyIsStored
  BY DEF SequentialInv
<1>2. Spec => []SequentialInv
  BY SequentialHolds
<1> QED BY <1>1, <1>2, PTL
=============================================================================
