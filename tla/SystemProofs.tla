---------------------------- MODULE SystemProofs ----------------------------
(***************************************************************************)
(* Theorems about AutomationSystem: the invariants of the send queue and   *)
(* of the recovery hold together, although their steps interleave and a    *)
(* send failure writes into the recovery table, and so does the lease      *)
(* contract.                                                               *)
(*                                                                         *)
(* A step of one part leaves the rows of the other alone, and the lease    *)
(* columns that it writes are, for the other, those of a stranger; so the  *)
(* lemmas about each part carry over.  As in RecoveryProofs, the server    *)
(* starts one recovery thread (RP!OneThread).                              *)
(***************************************************************************)
EXTENDS AutomationSystem, SendQueueProofs

RP == INSTANCE RecoveryProofs

SystemInv == QueueInv /\ RP!RecoveryInv

(* What the lemmas of RecoveryProofs assume of the constants. *)
LEMMA RecoveryConstants == RP!RecoveryAssumption /\ RP!DeviceLeaseAssumption
<1>1. RP!DeviceLeaseAssumption
  BY DeviceLeaseAssumption DEF RP!DeviceLeaseAssumption
<1>2. RP!RecoveryAssumption
  BY SystemAssumption, SendQueueAssumption DEF RP!RecoveryAssumption
<1> QED
  BY <1>1, <1>2

-----------------------------------------------------------------------------
(* The operators of Recovery, and those of the lease, are the same through  *)
(* both instances.                                                          *)

LEMMA SameRecoveryStep == R!RecoveryStep <=> RP!RecoveryStep
  BY ZenonT(120)
  DEF
      R!RecoveryStep, RP!RecoveryStep, R!OperatorStep, RP!OperatorStep,
      R!RecovererStep, RP!RecovererStep, R!CreateRecovery,
      RP!CreateRecovery, R!RecoveryJob, RP!RecoveryJob, R!CancelRecovery,
      RP!CancelRecovery, R!FinishRetry, RP!FinishRetry, R!BeginRetry,
      RP!BeginRetry, R!BeginClaim, RP!BeginClaim, R!Claim, RP!Claim,
      R!ClaimNothing, RP!ClaimNothing, R!ClaimFails, RP!ClaimFails,
      R!Reread, RP!Reread, R!RereadFails, RP!RereadFails, R!LeaveTerminal,
      RP!LeaveTerminal, R!MarkRequestingReview, RP!MarkRequestingReview,
      R!MarkRaises, RP!MarkRaises, R!AnnounceStarted, RP!AnnounceStarted,
      R!Screen, RP!Screen, R!SeeScreen, RP!SeeScreen, R!PhoneRaises,
      RP!PhoneRaises, R!Decide, RP!Decide, R!DecideRaises, RP!DecideRaises,
      R!NotifyOutcome, RP!NotifyOutcome, R!Release, RP!Release,
      R!ReleaseRaises, RP!ReleaseRaises, R!EnqueueRecovery,
      RP!EnqueueRecovery, R!leaseVars, RP!leaseVars, R!IsActive,
      RP!IsActive, R!SetStatus, RP!SetStatus, R!NoRequest, RP!NoRequest,
      R!IdleRecoverer, RP!IdleRecoverer, R!First, RP!First, R!Claimable,
      RP!Claimable, R!Orphans, RP!Orphans, R!FailLocked, RP!FailLocked,
      R!TakeLease, RP!TakeLease, R!EndSessions, RP!EndSessions, R!Terminal,
      RP!Terminal, R!BumpAttempt, RP!BumpAttempt, R!GoTo, RP!GoTo, R!Post,
      RP!Post, R!Active, RP!Active, R!Verdict, RP!Verdict, R!WriteOutcome,
      RP!WriteOutcome, R!Outcome, RP!Outcome, R!WritesStatus,
      RP!WritesStatus, R!ReleaseLease, RP!ReleaseLease, R!ActiveOn,
      RP!ActiveOn, R!NoRow, RP!NoRow, R!UpdateActive, RP!UpdateActive,
      R!DueJobs, RP!DueJobs, R!LockActive, RP!LockActive, R!NoSession,
      RP!NoSession, R!NoLease, RP!NoLease

LEMMA SameTypes == R!TypeOK <=> RP!TypeOK
  BY ZenonT(60)
  DEF
      R!TypeOK, RP!TypeOK, R!LeaseTypeOK, RP!LeaseTypeOK, R!RecoveryJob,
      RP!RecoveryJob, R!RecoveryRow, RP!RecoveryRow, R!Recoverer,
      RP!Recoverer, R!Request, RP!Request, R!Event, RP!Event, R!Lease,
      RP!Lease, R!Session, RP!Session, R!Active, RP!Active, R!Terminal,
      RP!Terminal, R!RecovererPc, RP!RecovererPc

LEMMA SameEnqueue ==
  ASSUME NEW d, NEW secs
  PROVE  R!EnqueueRecovery(d, secs) <=> RP!EnqueueRecovery(d, secs)
  BY Zenon
  DEF
      R!EnqueueRecovery, RP!EnqueueRecovery, R!ActiveOn, RP!ActiveOn,
      R!RecoveryJob, RP!RecoveryJob, R!NoRow, RP!NoRow, R!IsActive,
      RP!IsActive, R!Active, RP!Active

LEMMA SameForget == R!ForgetRecovery <=> RP!ForgetRecovery
  BY Zenon
  DEF
      R!ForgetRecovery, RP!ForgetRecovery, R!IdleRecoverer,
      RP!IdleRecoverer, R!NoRequest, RP!NoRequest, R!NoRow, RP!NoRow

LEMMA SameDevicesStep == DevicesStep <=> RP!DevicesStep
  BY Zenon
  DEF
      DevicesStep, RP!DevicesStep, Tick, RP!Tick, UnlockDevice,
      RP!UnlockDevice, UpdateDevice, RP!UpdateDevice, RemoveDevice,
      RP!RemoveDevice, NoLease, RP!NoLease, RevokeSessions,
      RP!RevokeSessions, LockActive, RP!LockActive

LEMMA SameLease ==
  /\ LeaseTypeOK <=> RP!LeaseTypeOK
  /\ ClockOK <=> RP!ClockOK
  /\ NoSession = RP!NoSession
  /\ leaseVars = RP!leaseVars
  BY Zenon DEF LeaseTypeOK, RP!LeaseTypeOK, Lease, RP!Lease, Session, RP!Session, ClockOK,
               RP!ClockOK, NoSession, RP!NoSession, leaseVars, RP!leaseVars

LEMMA SameContract ==
  [RP!Contract!Next]_(RP!Contract!contractVars) <=> [Contract!Next]_(Contract!contractVars)
<1>1. RP!Contract!Next <=> Contract!Next
  <2>1. RP!LeaseEnds = LeaseEnds
    BY DEF RP!LeaseEnds, LeaseEnds
  <2>2. \A a, d, u : RP!Contract!Acquire(a, d, u) <=> Contract!Acquire(a, d, u)
    BY Zenon DEF RP!Contract!Acquire, Contract!Acquire, RP!Contract!NoSession,
                 Contract!NoSession
  <2>3. \A A : RP!Contract!Stop(A) <=> Contract!Stop(A)
    BY Zenon DEF RP!Contract!Stop, Contract!Stop, RP!Contract!NoSession, Contract!NoSession
  <2>4. \A a, d : RP!Contract!GiveBack(a, d) <=> Contract!GiveBack(a, d)
    BY Zenon DEF RP!Contract!GiveBack, Contract!GiveBack, RP!Contract!NoSession,
                 Contract!NoSession, RP!Contract!Free, Contract!Free
  <2>5. \A d : RP!Contract!Revoke(d) <=> Contract!Revoke(d)
    BY Zenon DEF RP!Contract!Revoke, Contract!Revoke, RP!Contract!Free, Contract!Free
  <2>6. RP!Contract!Tick <=> Contract!Tick
    BY Zenon DEF RP!Contract!Tick, Contract!Tick
  <2> QED
    BY <2>1, <2>2, <2>3, <2>4, <2>5, <2>6 DEF RP!Contract!Next, Contract!Next
<1>2. RP!Contract!contractVars = Contract!contractVars
  BY Zenon DEF RP!Contract!contractVars, Contract!contractVars
<1> QED
  BY <1>1, <1>2 DEF RP!Contract!contractVars, Contract!contractVars

LEMMA SameLeaseNext ==
  /\ LeaseTypeOK' <=> RP!LeaseTypeOK'
  /\ ClockOK' <=> RP!ClockOK'
  BY Zenon DEF LeaseTypeOK, RP!LeaseTypeOK, Lease, RP!Lease, Session, RP!Session, ClockOK,
               RP!ClockOK

-----------------------------------------------------------------------------
(* Each kind of step keeps both invariants and the contract.                *)

LEMMA SystemInitOK ==
  ASSUME SystemInit
  PROVE  SystemInv
<1>1. QueueInv
  BY QueueInit DEF SystemInit
<1>2. RP!Init
  <2>1. RP!LeaseInit
    BY DEF SystemInit, Init, LeaseInit, RP!LeaseInit, NoLease, RP!NoLease, NoSession,
           RP!NoSession
  <2>2. RP!RecoveryInit
    BY Zenon DEF SystemInit, Init, RP!RecoveryInit, R!RecoveryJob, RP!RecoveryJob, R!NoRow,
                 RP!NoRow, R!IdleRecoverer, RP!IdleRecoverer, R!NoRequest, RP!NoRequest,
                 R!Event, RP!Event
  <2> QED
    BY <2>1, <2>2 DEF RP!Init
<1>3. RP!RecoveryInv
  BY <1>2, RecoveryConstants, RP!RecoveryInitOK
<1> QED
  BY <1>1, <1>3 DEF SystemInv

(* For the recovery, the senders are strangers ... *)
LEMMA QueueKeepsSystem ==
  ASSUME SystemInv, QueueStep, UNCHANGED recoveryOnly
  PROVE  SystemInv' /\ [Contract!Next]_(Contract!contractVars)
<1>1. QueueInv' /\ [Contract!Next]_(Contract!contractVars)
  BY QueueStepOK DEF SystemInv, Next
<1>2. /\ UNCHANGED now
      /\ \A r \in RecoveryWorker : session'[r] = session[r]
  BY QueueLeavesOthers, SystemAssumption DEF SystemInv
<1>3. RP!LeaseTypeOK' /\ RP!ClockOK' /\ crashes' \in Nat
  BY <1>1, SameLeaseNext DEF QueueInv, TypeOK
<1>4. now <= now'
  BY <1>2 DEF SystemInv, QueueInv, TypeOK, LeaseTypeOK
<1>5. \A r \in RecoveryWorker : session[r] = RP!NoSession => session'[r] = RP!NoSession
  BY <1>2
<1>6. UNCHANGED <<recovery_jobs, recoverer, request, events, retries>>
  BY DEF recoveryOnly
<1>7. RP!RecoveryInv'
  BY <1>3, <1>4, <1>5, <1>6, RecoveryConstants, RP!OthersKeepRecovery DEF SystemInv
<1> QED
  BY <1>1, <1>7 DEF SystemInv

(* ... and for the senders the recovery is one.                             *)
LEMMA RecoveryKeepsSystem ==
  ASSUME RP!OneThread, SystemInv, R!RecoveryStep, UNCHANGED queueOnly
  PROVE  SystemInv' /\ [Contract!Next]_(Contract!contractVars)
<1>1. RP!RecoveryStep
  BY SameRecoveryStep
<1>2. RP!RecoveryInv' /\ [RP!Contract!Next]_(RP!Contract!contractVars)
  BY <1>1, RecoveryConstants, RP!RecoveryStepOK DEF SystemInv, RP!Next
<1>3. /\ UNCHANGED <<now, crashes>>
      /\ \A a \in Actor \ RecoveryWorker : session'[a] = session[a]
  BY <1>1, RecoveryConstants, RP!RecoveryLeavesOthers DEF SystemInv
<1>4. \A a \in QueueWorker \cup CliSend : session[a] = NoSession => session'[a] = NoSession
  BY <1>3, SystemAssumption, SendQueueAssumption
<1>5. LeaseTypeOK' /\ ClockOK'
  BY <1>2, SameLeaseNext DEF RP!RecoveryInv, RP!TypeOK
<1>6. now <= now' /\ crashes' \in Nat
  BY <1>3 DEF SystemInv, QueueInv, TypeOK, LeaseTypeOK
<1>7. UNCHANGED <<send_jobs, worker, cli, sent, alerted>>
  BY DEF queueOnly
<1>8. QueueInv'
  BY <1>4, <1>5, <1>6, <1>7, OthersKeepQueue DEF SystemInv
<1> QED
  BY <1>2, <1>8, SameContract DEF SystemInv

(* A send failure names a phone, so the row that it inserts is one that the *)
(* API could have inserted.                                                 *)
LEMMA StartRecoveryKeepsSystem ==
  ASSUME SystemInv, NEW w \in QueueWorker, SystemStartRecovery(w)
  PROVE  SystemInv' /\ [Contract!Next]_(Contract!contractVars)
<1>1. /\ StartRecovery(w) /\ OpenRecovery(w)
      /\ UNCHANGED <<recoverer, request, events, retries>>
  BY DEF SystemStartRecovery
<1>2. QueueInv' /\ [Contract!Next]_(Contract!contractVars)
  BY <1>1, QueueStepOK DEF SystemInv, Next
<1>3. /\ worker[w].pc = "recovering"
      /\ UNCHANGED <<leaseVars, crashes>>
  BY <1>1 DEF StartRecovery
<1>4. send_jobs[worker[w].job].device \in Device
  BY <1>3 DEF SystemInv, QueueInv, WorkersOK, JobsOK, Busy, WorkerPc, Taken, Terminal
<1>5. RP!RecoveryInv'
  <2>1. CASE UNCHANGED recovery_jobs
    <3>1. RP!LeaseTypeOK' /\ RP!ClockOK' /\ crashes' \in Nat
      BY <1>2, SameLeaseNext DEF QueueInv, TypeOK
    <3>2. now <= now'
      BY <1>3 DEF leaseVars, SystemInv, QueueInv, TypeOK, LeaseTypeOK
    <3>3. \A r \in RecoveryWorker : session[r] = RP!NoSession => session'[r] = RP!NoSession
      BY <1>3 DEF leaseVars
    <3> QED
      BY <1>1, <2>1, <3>1, <3>2, <3>3, RecoveryConstants, RP!OthersKeepRecovery
      DEF SystemInv
  <2>2. ASSUME NEW secs \in LeaseSeconds,
               R!EnqueueRecovery(send_jobs[worker[w].job].device, secs)
        PROVE  RP!RecoveryInv'
    <3>1. PICK d \in Device : RP!EnqueueRecovery(d, secs)
      BY <1>4, <2>2, SameEnqueue
    <3>2. UNCHANGED <<RP!leaseVars, recoverer, request, events, retries, crashes>>
      BY <1>1, <1>3 DEF leaseVars, RP!leaseVars
    <3> QED
      BY <3>1, <3>2, RecoveryConstants, RP!EnqueueOK DEF SystemInv
  <2> QED
    BY <1>1, <2>1, <2>2 DEF OpenRecovery
<1> QED
  BY <1>2, <1>5 DEF SystemInv

LEMMA RestartKeepsSystem ==
  ASSUME SystemInv, SystemRestarts
  PROVE  SystemInv' /\ [Contract!Next]_(Contract!contractVars)
<1>1. /\ LeaseTypeOK /\ ClockOK /\ EndSessions(QueueWorker \cup RecoveryWorker)
      /\ worker' = [w \in QueueWorker |-> IdleWorker] /\ R!ForgetRecovery
      /\ crashes' \in Nat
      /\ UNCHANGED <<now, registered, lease, serial, send_jobs, cli, sent, alerted>>
  BY DEF SystemInv, QueueInv, TypeOK, SystemRestarts
<1>2. /\ session' \in [Actor -> Session]
      /\ \A a \in QueueWorker \cup RecoveryWorker : session'[a] = NoSession
      /\ \A c \in CliSend : session'[c] = session[c]
  BY <1>1, EndSessionsType, SystemAssumption, SendQueueAssumption
<1>3. LeaseTypeOK' /\ ClockOK'
  BY <1>1, <1>2 DEF LeaseTypeOK, ClockOK
<1>4. QueueInv'
  BY <1>1, <1>2, <1>3, WorkersForget DEF SystemInv
<1>5. RP!LeaseTypeOK' /\ RP!ClockOK' /\ RP!ForgetRecovery
  BY <1>1, <1>3, SameLeaseNext, SameForget
<1>6. \A r \in RecoveryWorker : session'[r] = RP!NoSession
  BY <1>2, SameLease
<1>7. RP!RecoveryInv'
  BY <1>1, <1>5, <1>6, RecoveryConstants, RP!RecoveryForgets DEF SystemInv
<1>8. Contract!Next
  BY <1>1, EndSessionsIsStop, SystemAssumption, SendQueueAssumption
<1> QED
  BY <1>4, <1>7, <1>8 DEF SystemInv

LEMMA SystemStepOK ==
  ASSUME RP!OneThread, SystemInv, [SystemNext]_systemVars
  PROVE  SystemInv' /\ [Contract!Next]_(Contract!contractVars)
<1>1. CASE DevicesStep /\ UNCHANGED <<queueVars, recoveryOnly>>
  <2>1. QueueInv' /\ [Contract!Next]_(Contract!contractVars)
    BY <1>1, DevicesKeepQueue DEF SystemInv
  <2>2. RP!DevicesStep /\ UNCHANGED RP!recoveryVars
    BY <1>1, SameDevicesStep DEF queueVars, recoveryOnly, RP!recoveryVars
  <2>3. RP!RecoveryInv'
    BY <2>2, RecoveryConstants, RP!DevicesKeepRecovery DEF SystemInv
  <2> QED
    BY <2>1, <2>3 DEF SystemInv
<1>2. CASE UNCHANGED systemVars
  <2>1. UNCHANGED <<vars, RP!vars>>
    BY <1>2 DEF systemVars, recoveryOnly, vars, queueVars, leaseVars, RP!vars, RP!leaseVars,
                RP!recoveryVars
  <2>2. QueueInv' /\ [Contract!Next]_(Contract!contractVars)
    BY <2>1, QueueStepOK DEF SystemInv
  <2>3. RP!RecoveryInv'
    BY <2>1, RecoveryConstants, RP!RecoveryStepOK DEF SystemInv
  <2> QED
    BY <2>2, <2>3 DEF SystemInv
<1> QED
  BY <1>1, <1>2, QueueKeepsSystem, RecoveryKeepsSystem, StartRecoveryKeepsSystem,
     RestartKeepsSystem DEF SystemNext

-----------------------------------------------------------------------------
(* Theorem: the invariants of the send queue and of the recovery hold       *)
(* together, through every interleaving of their steps, the recoveries that *)
(* failed sends open and the restarts that end the workers of both          *)
(* (queue_worker.py:169-215, recovery_worker.py:149-206).                   *)
THEOREM SystemInvariant ==
  ASSUME RP!OneThread
  PROVE  SystemSpec => []SystemInv
<1>1. SystemInit => SystemInv
  BY SystemInitOK
<1>2. SystemInv /\ [SystemNext]_systemVars => SystemInv'
  BY SystemStepOK
<1> QED
  BY <1>1, <1>2, PTL DEF SystemSpec

(* Theorem: every variable of the server and its CLI keeps its type. *)
THEOREM SystemTypes ==
  ASSUME RP!OneThread
  PROVE  SystemSpec => []SystemTypeOK
<1>1. SystemInv => SystemTypeOK
  BY SameTypes DEF SystemInv, QueueInv, RP!RecoveryInv, SystemTypeOK
<1> QED
  BY <1>1, SystemInvariant, PTL

(* Theorem: senders and recovery together keep the lease discipline: none   *)
(* of them frees the lease of another or takes a phone whose lease runs,    *)
(* although a worker of one kind may hold a lease that one of the other     *)
(* took after it had run out (devices.py:343-390, recovery_queue.py:5-9).   *)
THEOREM SystemKeepsContract ==
  ASSUME RP!OneThread
  PROVE  SystemSpec => SystemImplementsContract
<1>1. SystemInit => Contract!Init
  BY LeaseInitOK DEF SystemInit, Init
<1>2. SystemInv /\ [SystemNext]_systemVars => [Contract!Next]_(Contract!contractVars)
  BY SystemStepOK
<1>3. SystemSpec => Contract!Spec
  BY <1>1, <1>2, SystemInvariant, PTL DEF SystemSpec, Contract!Spec
<1> QED
  BY <1>3 DEF SystemImplementsContract

(* Theorem: a queue worker, a CLI send and the recovery worker whose leases *)
(* cover them are on different phones (devices.py:343-390).                 *)
THEOREM SystemIsExclusive ==
  ASSUME RP!OneThread
  PROVE  SystemSpec => []ExclusiveUse
<1>1. SystemSpec => []Contract!ExclusiveUse
  <2>1. Contract!Spec => []Contract!ExclusiveUse
    BY ImplementationIsExclusive
  <2>2. SystemSpec => Contract!Spec
    BY SystemKeepsContract DEF SystemImplementsContract
  <2> QED
    BY <2>1, <2>2, PTL
<1> QED
  BY <1>1 DEF ExclusiveUse

-----------------------------------------------------------------------------
(* What the queue promises by itself it promises beside the recovery.       *)

LEMMA SystemSendStep ==
  ASSUME SystemInv, SendInv, [SystemNext]_systemVars
  PROVE  SendInv'
<1>1. ASSUME UNCHANGED <<send_jobs, sent, alerted>>,
             UNCHANGED worker \/ worker' = [w \in QueueWorker |-> IdleWorker]
      PROVE  SendInv'
  <2>1. \A w \in QueueWorker : WorkerFact(w)'
    BY <1>1, IdleIsWorker DEF SendInv, WorkerFact
  <2>2. \A j \in Job : JobFact(j)'
    BY <1>1 DEF SendInv, JobFact
  <2> QED
    BY <2>1, <2>2 DEF SendInv
<1>2. CASE [Next]_vars
  BY <1>2, SendStepOK DEF SystemInv
<1>3. CASE R!RecoveryStep /\ UNCHANGED queueOnly
  BY <1>1, <1>3 DEF queueOnly
<1>4. CASE SystemRestarts
  BY <1>1, <1>4 DEF SystemRestarts
<1> QED
  BY <1>2, <1>3, <1>4 DEF SystemNext, SystemStartRecovery, systemVars, Next

LEMMA SystemOrderStep ==
  ASSUME SystemInv, OrderInv, [SystemNext]_systemVars
  PROVE  OrderInv'
<1>1. CASE [Next]_vars
  BY <1>1, OrderStepOK DEF SystemInv
<1>2. CASE UNCHANGED send_jobs
  BY <1>2 DEF OrderInv, RowsArePrefix, FifoPerDevice
<1> QED
  BY <1>1, <1>2
  DEF SystemNext, SystemStartRecovery, SystemRestarts, systemVars, Next, queueOnly

(* The recovery has leases of its own; those of the senders, and the rows   *)
(* of their phones, it leaves alone.                                        *)
LEMMA SystemEndpointStep ==
  ASSUME SystemInv, ContractInv, EndpointInv, [SystemNext]_systemVars
  PROVE  EndpointInv'
<1>1. CASE [Next]_vars
  BY <1>1, EndpointStep DEF SystemInv
<1>2. CASE R!RecoveryStep /\ UNCHANGED queueOnly
  <2>1. RP!RecoveryStep
    BY <1>2, SameRecoveryStep
  <2>2. /\ UNCHANGED now
        /\ \A a \in QueueWorker \cup CliSend : session'[a] = session[a]
    BY <2>1, RecoveryConstants, RP!RecoveryLeavesOthers, SystemAssumption,
       SendQueueAssumption DEF SystemInv
  <2>3. UNCHANGED serial
    BY <2>1, RecoveryConstants, RP!RecoveryLeavesSerials
  <2>4. \A a \in QueueWorker \cup CliSend : SessionKept(a)
    BY <2>2, <2>3 DEF SessionKept, Contract!Covered
  <2>5. (\A w \in QueueWorker : WorkerKept(w)) /\ (\A c \in CliSend : CliKept(c))
    BY <1>2, <2>4 DEF queueOnly, WorkerKept, CliKept
  <2>6. JobDevicesKept
    BY <1>2 DEF queueOnly, JobDevicesKept
  <2> QED
    BY <2>5, <2>6, KeptWorkerAims, KeptCliAims DEF SystemInv, EndpointInv
<1>3. CASE SystemRestarts
  <2>1. /\ \A w \in QueueWorker : worker'[w].pc = "idle"
        /\ EndSessions(QueueWorker \cup RecoveryWorker) /\ UNCHANGED <<now, serial, cli>>
    BY <1>3 DEF SystemRestarts, IdleWorker
  <2>2. \A c \in CliSend : session'[c] = session[c]
    BY <2>1, SystemAssumption, SendQueueAssumption DEF EndSessions
  <2>3. \A c \in CliSend : CliKept(c)
    BY <2>1, <2>2 DEF CliKept, SessionKept, Contract!Covered
  <2>4. \A w \in QueueWorker : WorkerAims(w)'
    BY <2>1 DEF WorkerAims, OnPhone
  <2> QED
    BY <2>3, <2>4, KeptCliAims DEF EndpointInv
<1> QED
  BY <1>1, <1>2, <1>3 DEF SystemNext, SystemStartRecovery, systemVars, Next

(* Theorem: the message of a job is sent at most once in the whole system,  *)
(* whatever recoveries its failure opens and whoever restarts the server    *)
(* (send_queue.py:193-266, queue_worker.py:169-215).                        *)
THEOREM SystemSendsAtMostOnce ==
  ASSUME RP!OneThread
  PROVE  SystemSpec => []SentAtMostOnce
<1>1. SystemInit => SendInv
  BY SendInit DEF SystemInit
<1>2. SystemInv /\ SendInv /\ [SystemNext]_systemVars => SendInv'
  BY SystemSendStep
<1>3. SendInv => SentAtMostOnce
  BY DEF SendInv, JobFact, SentAtMostOnce
<1> QED
  BY <1>1, <1>2, <1>3, SystemInvariant, PTL DEF SystemSpec

(* Theorem: the jobs of a phone leave the queue in the order they entered   *)
(* it, while the recovery takes the phone in between                        *)
(* (send_queue.py:199-218).                                                 *)
THEOREM SystemIsFifoPerDevice ==
  ASSUME RP!OneThread
  PROVE  SystemSpec => []FifoPerDevice
<1>1. SystemInit => OrderInv
  BY OrderInit DEF SystemInit
<1>2. SystemInv /\ OrderInv /\ [SystemNext]_systemVars => OrderInv'
  BY SystemOrderStep
<1>3. OrderInv => FifoPerDevice
  BY DEF OrderInv
<1> QED
  BY <1>1, <1>2, <1>3, SystemInvariant, PTL DEF SystemSpec

(* Theorem: a sender whose lease covers it drives the endpoint that the     *)
(* device row names, whatever the recovery leases at the same time          *)
(* (devices.py:190-195, queue_worker.py:169-196, workflows.py:15-44).       *)
THEOREM SystemDrivesCurrentEndpoint ==
  ASSUME RP!OneThread
  PROVE  SystemSpec => []DrivesCurrentEndpoint
<1>1. SystemInit => ContractInv /\ EndpointInv
  <2>1. SystemInit => Contract!Init
    BY LeaseInitOK DEF SystemInit, Init
  <2> QED
    BY <2>1, ContractInitOK, EndpointInit DEF SystemInit
<1>2. SystemInv /\ ContractInv /\ EndpointInv /\ [SystemNext]_systemVars
        => ContractInv' /\ EndpointInv'
  BY SystemStepOK, ContractStepOK, SystemEndpointStep
<1>3. EndpointInv => DrivesCurrentEndpoint
  BY DEF EndpointInv, WorkerAims, CliAims, OnPhone, CliOnPhone, DrivesCurrentEndpoint
<1> QED
  BY <1>1, <1>2, <1>3, SystemInvariant, PTL DEF SystemSpec

-----------------------------------------------------------------------------
(* The recoveries that failed sends open.                                   *)

LEMMA SystemOneActiveStep ==
  ASSUME RP!OneThread, SystemInv, RP!OneActivePerDevice, [SystemNext]_systemVars
  PROVE  RP!OneActivePerDevice'
<1>1. CASE UNCHANGED recovery_jobs
  BY <1>1 DEF RP!OneActivePerDevice, RP!IsActive
<1>2. CASE R!RecoveryStep
  <2>1. RP!Next
    BY <1>2, SameRecoveryStep DEF RP!Next
  <2> QED
    BY <2>1, RecoveryConstants, RP!StepOpens, RP!StepKeepsOneActive DEF SystemInv
<1>3. ASSUME NEW w \in QueueWorker, SystemStartRecovery(w), recovery_jobs' # recovery_jobs
      PROVE  RP!OneActivePerDevice'
  <2>1. PICK secs \in LeaseSeconds :
          R!EnqueueRecovery(send_jobs[worker[w].job].device, secs)
    BY <1>3 DEF SystemStartRecovery, OpenRecovery
  <2>2. send_jobs[worker[w].job].device \in Device
    BY <1>3 DEF SystemStartRecovery, StartRecovery, SystemInv, QueueInv, WorkersOK, JobsOK,
                Busy, WorkerPc, Taken, Terminal
  <2>3. PICK d \in Device : RP!EnqueueRecovery(d, secs)
    BY <2>1, <2>2, SameEnqueue
  <2>4. RP!Opens(d)
    BY <1>3, <2>3, RecoveryConstants, RP!EnqueueRows DEF SystemInv, RP!Opens
  <2> QED
    BY <2>4, RecoveryConstants, RP!StepKeepsOneActive DEF SystemInv
<1> QED
  BY <1>1, <1>2, <1>3
  DEF SystemNext, SystemRestarts, R!ForgetRecovery, systemVars, recoveryOnly

(* Theorem: a phone never has two recoveries in flight, whether failed      *)
(* sends or API requests open them (recovery_queue.py:121-137, 247-251;     *)
(* queue_worker.py:197-208).                                                *)
THEOREM SystemOneRecoveryPerDevice ==
  ASSUME RP!OneThread
  PROVE  SystemSpec => []R!OneActivePerDevice
<1>1. SystemInit => RP!OneActivePerDevice
  BY DEF SystemInit, RP!OneActivePerDevice, RP!IsActive, RP!Active, R!RecoveryJob,
         RP!RecoveryJob, R!NoRow
<1>2. SystemInv /\ RP!OneActivePerDevice /\ [SystemNext]_systemVars
        => RP!OneActivePerDevice'
  BY SystemOneActiveStep
<1>3. RP!OneActivePerDevice => R!OneActivePerDevice
  BY Zenon DEF R!OneActivePerDevice, RP!OneActivePerDevice, R!IsActive, RP!IsActive, R!Active,
               RP!Active, R!RecoveryJob, RP!RecoveryJob
<1> QED
  BY <1>1, <1>2, <1>3, SystemInvariant, PTL DEF SystemSpec
=============================================================================
