--------------------------- MODULE DeviceLeaseProofs ---------------------------
(***************************************************************************)
(* Lemmas about the operations on the `devices` table, cited by the proofs *)
(* about its users: each keeps the types, and each is a step that the      *)
(* lease contract allows.  The contract in turn has exclusive use.         *)
(***************************************************************************)
EXTENDS DeviceLease, TLAPS

(* The clock is bounded, so that every lease ends in LeaseEnds. *)
ClockOK == now \in 0..MaxTime

LEMMA LeaseEndsAreNat == LeaseEnds \subseteq Nat
  BY DeviceLeaseAssumption DEF LeaseEnds

LEMMA LeaseEndsReached ==
  \A t \in 0..MaxTime, s \in LeaseSeconds : t + s \in LeaseEnds
  BY DEF LeaseEnds

LEMMA ContractHolds == Contract!ContractAssumption
  BY LeaseEndsAreNat, DeviceLeaseAssumption DEF Contract!ContractAssumption

LEMMA LeaseInitOK ==
  ASSUME LeaseInit
  PROVE  LeaseTypeOK /\ ClockOK /\ Contract!Init
  BY DeviceLeaseAssumption
  DEF LeaseInit, LeaseTypeOK, Lease, Session, NoLease, NoSession, ClockOK,
      Contract!Init, Contract!Free, Contract!NoSession

-----------------------------------------------------------------------------
(* What the operations return. *)

LEMMA TakeLeaseType ==
  ASSUME LeaseTypeOK, NEW a \in Actor, NEW d \in Device, NEW until \in Nat,
         TakeLease(a, d, until)
  PROVE  lease' \in [Device -> Lease] /\ session' \in [Actor -> Session]
  BY DEF LeaseTypeOK, TakeLease, Lease, Session

LEMMA ReleaseLeaseType ==
  ASSUME LeaseTypeOK, NEW a, NEW d, NEW until, ReleaseLease(a, d, until)
  PROVE  lease' \in [Device -> Lease]
  BY DEF LeaseTypeOK, ReleaseLease, Lease, NoLease

LEMMA EndSessionsType ==
  ASSUME LeaseTypeOK, NEW A, EndSessions(A)
  PROVE  /\ session' \in [Actor -> Session]
         /\ \A a \in A \cap Actor : session'[a] = NoSession
         /\ \A a \in Actor \ A : session'[a] = session[a]
  BY DEF LeaseTypeOK, EndSessions, Session, NoSession

-----------------------------------------------------------------------------
(* Each operation is a step of the contract. *)

(* A claim takes a phone whose lease was over when the claim read the       *)
(* clock, and so is over now.                                               *)
LEMMA TakeLeaseIsAcquire ==
  ASSUME NEW a \in Actor, NEW d \in Device, NEW until \in LeaseEnds, NEW current \in Nat,
         LeaseTypeOK, ClockOK, current <= now,
         session[a] = NoSession, ~LockActive(d, current),
         TakeLease(a, d, until), UNCHANGED now
  PROVE  Contract!Next
<1>1. lease[d].until \in Nat /\ lease[d].until <= now
  BY DEF LeaseTypeOK, Lease, ClockOK, LockActive
<1>2. Contract!Acquire(a, d, until)
  BY <1>1 DEF TakeLease, Contract!Acquire, Contract!NoSession, NoSession
<1> QED
  BY <1>2 DEF Contract!Next

(* A release by a worker that has left the phone clears the lease of that   *)
(* worker or nothing.                                                       *)
LEMMA ReleaseLeaseIsGiveBack ==
  ASSUME NEW a \in Actor, NEW d \in Device, NEW until \in Nat,
         LeaseTypeOK, session[a] = NoSession,
         ReleaseLease(a, d, until), UNCHANGED <<now, session>>
  PROVE  [Contract!Next]_(Contract!contractVars)
<1>1. CASE lease[d] = [worker |-> a, until |-> until]
  <2>1. Contract!GiveBack(a, d)
    BY <1>1 DEF ReleaseLease, Contract!GiveBack, Contract!Free, Contract!NoSession,
                NoSession, NoLease
  <2> QED
    BY <2>1 DEF Contract!Next
<1>2. CASE lease[d] # [worker |-> a, until |-> until]
  BY <1>2 DEF ReleaseLease, Contract!contractVars
<1> QED
  BY <1>1, <1>2

LEMMA EndSessionsIsStop ==
  ASSUME NEW A \in SUBSET Actor, EndSessions(A), UNCHANGED <<now, lease>>
  PROVE  Contract!Next
<1>1. Contract!Stop(A)
  BY DEF EndSessions, Contract!Stop, Contract!NoSession, NoSession
<1> QED
  BY <1>1 DEF Contract!Next

(* An actor without a phone is not touched by a revocation. *)
LEMMA RevokeKeepsNoSession ==
  ASSUME NEW d \in Device, NEW a \in Actor, RevokeSessions(d), session[a] = NoSession
  PROVE  session'[a] = NoSession
<1>1. session'[a] = [session[a] EXCEPT !.revoked = @ \/ session[a].device = d]
  BY DEF RevokeSessions
<1>2. NoSession.revoked = FALSE /\ ~(NoSession.device = d)
  BY DeviceLeaseAssumption DEF NoSession
<1>3. (session[a].revoked \/ session[a].device = d) = FALSE
  BY <1>2
<1>4. session'[a] = [NoSession EXCEPT !.revoked = FALSE]
  BY <1>1, <1>3, Zenon
<1> QED
  BY <1>4 DEF NoSession

(* The clock, the operator's overrides and the edits of device rows.        *)
LEMMA DevicesStepOK ==
  ASSUME LeaseTypeOK, ClockOK, DevicesStep
  PROVE  /\ LeaseTypeOK' /\ ClockOK'
         /\ [Contract!Next]_(Contract!contractVars)
         /\ now <= now'
         /\ \A a \in Actor : session[a] = NoSession => session'[a] = NoSession
<1>1. CASE Tick
  <2>1. Contract!Tick
    BY <1>1 DEF Tick, Contract!Tick
  <2> QED
    BY <1>1, <2>1, DeviceLeaseAssumption DEF Tick, LeaseTypeOK, ClockOK, Contract!Next
<1>2. ASSUME NEW d \in Device, UnlockDevice(d)
      PROVE  /\ LeaseTypeOK' /\ ClockOK'
             /\ [Contract!Next]_(Contract!contractVars)
             /\ now <= now'
             /\ \A a \in Actor : session[a] = NoSession => session'[a] = NoSession
  <2>1. Contract!Revoke(d)
    BY <1>2 DEF UnlockDevice, RevokeSessions, Contract!Revoke, Contract!Free, NoLease
  <2>2. LeaseTypeOK'
    BY <1>2 DEF UnlockDevice, RevokeSessions, LeaseTypeOK, Lease, Session, NoLease
  <2>3. \A a \in Actor : session[a] = NoSession => session'[a] = NoSession
    BY <1>2, RevokeKeepsNoSession DEF UnlockDevice
  <2> QED
    BY <1>2, <2>1, <2>2, <2>3 DEF UnlockDevice, ClockOK, Contract!Next
<1>3. ASSUME NEW d \in Device, UpdateDevice(d)
      PROVE  /\ LeaseTypeOK' /\ ClockOK'
             /\ [Contract!Next]_(Contract!contractVars)
             /\ now <= now'
             /\ \A a \in Actor : session[a] = NoSession => session'[a] = NoSession
  BY <1>3 DEF UpdateDevice, LeaseTypeOK, ClockOK, Contract!contractVars
<1>4. ASSUME NEW d \in Device, RemoveDevice(d)
      PROVE  /\ LeaseTypeOK' /\ ClockOK'
             /\ [Contract!Next]_(Contract!contractVars)
             /\ now <= now'
             /\ \A a \in Actor : session[a] = NoSession => session'[a] = NoSession
  <2>1. Contract!Revoke(d)
    BY <1>4 DEF RemoveDevice, RevokeSessions, Contract!Revoke, Contract!Free, NoLease
  <2>2. LeaseTypeOK'
    BY <1>4 DEF RemoveDevice, RevokeSessions, LeaseTypeOK, Lease, Session, NoLease
  <2>3. \A a \in Actor : session[a] = NoSession => session'[a] = NoSession
    BY <1>4, RevokeKeepsNoSession DEF RemoveDevice
  <2> QED
    BY <1>4, <2>1, <2>2, <2>3 DEF RemoveDevice, ClockOK, Contract!Next
<1> QED
  BY <1>1, <1>2, <1>3, <1>4 DEF DevicesStep

-----------------------------------------------------------------------------
(* The contract keeps its promise.  The invariant that carries the proof is *)
(* CoveredIsLeased: a covered use pins the lease columns of its phone, and  *)
(* the columns name one worker.                                             *)

ContractInv == Contract!ContractTypeOK /\ Contract!CoveredIsLeased

LEMMA ContractInitOK ==
  ASSUME Contract!Init
  PROVE  ContractInv
<1>1. Contract!ContractTypeOK
  BY DEF Contract!Init, Contract!ContractTypeOK, Contract!Free, Contract!NoSession
<1>2. Contract!CoveredIsLeased
  BY ContractHolds
  DEF Contract!Init, Contract!CoveredIsLeased, Contract!Covered, Contract!NoSession,
      Contract!ContractAssumption
<1> QED
  BY <1>1, <1>2 DEF ContractInv

(* A step of the contract, and so of every program that implements it,      *)
(* keeps the invariant.                                                     *)
LEMMA ContractStepOK ==
  ASSUME ContractInv, [Contract!Next]_(Contract!contractVars)
  PROVE  ContractInv'
<1> USE ContractHolds DEF ContractInv, Contract!ContractTypeOK
<1>1. ASSUME NEW a \in Actor, NEW d \in Device, NEW u \in LeaseEnds, Contract!Acquire(a, d, u)
      PROVE  ContractInv'
  <2>1. Contract!ContractTypeOK'
    BY <1>1 DEF Contract!Acquire, Contract!ContractAssumption
  <2>2. Contract!CoveredIsLeased'
    BY <1>1
    DEF Contract!Acquire, Contract!CoveredIsLeased, Contract!Covered, Contract!NoSession,
        Contract!ContractAssumption
  <2> QED
    BY <2>1, <2>2
<1>2. ASSUME NEW A \in SUBSET Actor, Contract!Stop(A)
      PROVE  ContractInv'
  <2>1. Contract!ContractTypeOK'
    BY <1>2 DEF Contract!Stop, Contract!NoSession
  <2>2. Contract!CoveredIsLeased'
    BY <1>2
    DEF Contract!Stop, Contract!CoveredIsLeased, Contract!Covered, Contract!NoSession,
        Contract!ContractAssumption
  <2> QED
    BY <2>1, <2>2
<1>3. ASSUME NEW a \in Actor, NEW d \in Device, Contract!GiveBack(a, d)
      PROVE  ContractInv'
  <2>1. Contract!ContractTypeOK'
    BY <1>3 DEF Contract!GiveBack, Contract!Free
  <2>2. Contract!CoveredIsLeased'
    BY <1>3
    DEF Contract!GiveBack, Contract!CoveredIsLeased, Contract!Covered, Contract!NoSession,
        Contract!ContractAssumption
  <2> QED
    BY <2>1, <2>2
<1>4. ASSUME NEW d \in Device, Contract!Revoke(d)
      PROVE  ContractInv'
  <2>1. Contract!ContractTypeOK'
    <3>1. lease' \in [Device -> [worker : Actor \cup {Nobody}, until : Nat]]
      BY <1>4 DEF Contract!Revoke, Contract!Free
    <3>2. session' \in [Actor -> [device : Device \cup {Nobody}, until : Nat,
                                  revoked : BOOLEAN]]
      BY <1>4 DEF Contract!Revoke
    <3> QED
      BY <1>4, <3>1, <3>2 DEF Contract!Revoke
  <2>2. \A a \in Actor :
          /\ session'[a].device = session[a].device
          /\ session'[a].until = session[a].until
          /\ ~session'[a].revoked => ~session[a].revoked /\ session[a].device # d
    BY <1>4 DEF Contract!Revoke
  <2>3. (\A e \in Device \ {d} : lease'[e] = lease[e]) /\ UNCHANGED now
    BY <1>4 DEF Contract!Revoke
  <2>4. ASSUME NEW a \in Actor, Contract!Covered(a)'
        PROVE  lease'[session'[a].device] = [worker |-> a, until |-> session'[a].until]
    <3>1. Contract!Covered(a) /\ session[a].device # d
      BY <2>2, <2>3, <2>4 DEF Contract!Covered
    <3> QED
      BY <2>2, <2>3, <3>1 DEF Contract!CoveredIsLeased, Contract!Covered
  <2>5. Contract!CoveredIsLeased'
    BY <2>4 DEF Contract!CoveredIsLeased
  <2> QED
    BY <2>1, <2>5
<1>5. CASE Contract!Tick
  BY <1>5 DEF Contract!Tick, Contract!CoveredIsLeased, Contract!Covered
<1>6. CASE UNCHANGED Contract!contractVars
  BY <1>6 DEF Contract!contractVars, Contract!CoveredIsLeased, Contract!Covered
<1> QED
  BY <1>1, <1>2, <1>3, <1>4, <1>5, <1>6 DEF Contract!Next

(* The columns of a phone name one worker, so covered uses of one phone are *)
(* of one actor.                                                            *)
LEMMA CoveredIsExclusive ==
  ASSUME ContractInv
  PROVE  Contract!ExclusiveUse
<1> SUFFICES ASSUME NEW a \in Actor, NEW b \in Actor,
                    Contract!Covered(a), Contract!Covered(b),
                    session[a].device = session[b].device
             PROVE  a = b
  BY DEF Contract!ExclusiveUse
<1>1. /\ lease[session[a].device] = [worker |-> a, until |-> session[a].until]
      /\ lease[session[b].device] = [worker |-> b, until |-> session[b].until]
  BY DEF ContractInv, Contract!CoveredIsLeased
<1>2. [worker |-> a, until |-> session[a].until].worker
        = [worker |-> b, until |-> session[b].until].worker
  BY <1>1
<1> QED
  BY <1>2

(* Theorem: whatever implements the lease contract has exclusive covered    *)
(* use: two uses of phones that their leases still cover are of different   *)
(* phones (devices.py:343-390).                                             *)
THEOREM ImplementationIsExclusive == Contract!Spec => []Contract!ExclusiveUse
<1>1. Contract!Init => ContractInv
  BY ContractInitOK
<1>2. ContractInv /\ [Contract!Next]_(Contract!contractVars) => ContractInv'
  BY ContractStepOK
<1>3. ContractInv => Contract!ExclusiveUse
  BY CoveredIsExclusive
<1> QED
  BY <1>1, <1>2, <1>3, PTL DEF Contract!Spec
=============================================================================
