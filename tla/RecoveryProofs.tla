---------------------------- MODULE RecoveryProofs ----------------------------
(***************************************************************************)
(* Theorems about Recovery, for every number of phones, recoveries and API *)
(* threads, every limit of attempts and every clock bound.                 *)
(*                                                                         *)
(* They assume what the server does: it starts one recovery thread         *)
(* (OneThread).  A recovery job stays claimable while it is worked on, so  *)
(* that a second thread could claim it once the lease has run out, and the *)
(* first would re-read, and then give back, the lease of the second.       *)
(***************************************************************************)
EXTENDS Recovery, FiniteSetTheorems, DeviceLeaseProofs

OneThread == \A r, s \in RecoveryWorker : r = s

(* A row that was inserted names a phone and a lease length. *)
RowsOK ==
  \A j \in RecoveryJob : recovery_jobs[j].status # "absent" =>
    recovery_jobs[j].device \in Device /\ recovery_jobs[j].seconds \in LeaseSeconds

Holding == {"claimed", "driving", "announcing", "deciding", "erring", "notifying",
            "releasing"}
OnPhone == {"claimed", "driving", "announcing"}

(* The worker's clock read is not in the future; the row of the job it      *)
(* holds names it, and so does its copy of the row; its copy is terminal    *)
(* only if the row is; it uses a phone only while it is on it.              *)
RecoverersOK ==
  \A r \in RecoveryWorker :
    /\ recoverer[r].current <= now
    /\ recoverer[r].pc \in Holding =>
         /\ recoverer[r].job \in RecoveryJob
         /\ recovery_jobs[recoverer[r].job].status # "absent"
         /\ recovery_jobs[recoverer[r].job].worker = r
    /\ recoverer[r].pc \in Holding \ {"claimed"} =>
         /\ recoverer[r].row.status # "absent"
         /\ recoverer[r].row.worker = r
         /\ recoverer[r].row.device \in Device
         /\ recoverer[r].row.status \in Terminal =>
              recovery_jobs[recoverer[r].job].status \in Terminal
    /\ recoverer[r].pc \notin OnPhone => session[r] = NoSession

(* A retry request on its way names a job that was inserted. *)
RequestsOK ==
  \A o \in Operator :
    \/ request[o] = NoRequest
    \/ /\ request[o].job \in RecoveryJob
       /\ recovery_jobs[request[o].job].status # "absent"

RecoveryInv == TypeOK /\ ClockOK /\ RowsOK /\ RecoverersOK /\ RequestsOK

LEMMA IdleIsRecoverer ==
  /\ NoRow \in RecoveryRow /\ NoRow.status = "absent"
  /\ IdleRecoverer \in Recoverer /\ IdleRecoverer.pc = "idle" /\ IdleRecoverer.current = 0
  /\ NoRequest \in Request
  BY DEF NoRow, RecoveryRow, IdleRecoverer, Recoverer, RecovererPc, NoRequest, Request,
         Active, Terminal

LEMMA RecoveryInitOK ==
  ASSUME Init
  PROVE  RecoveryInv
<1>1. LeaseTypeOK /\ ClockOK
  BY LeaseInitOK DEF Init
<1>2. TypeOK
  BY <1>1, IdleIsRecoverer DEF Init, RecoveryInit, TypeOK
<1>3. RowsOK
  BY IdleIsRecoverer DEF Init, RecoveryInit, RowsOK
<1>4. RecoverersOK
  BY RecoveryAssumption, IdleIsRecoverer
  DEF Init, LeaseInit, RecoveryInit, RecoverersOK, Holding
<1>5. RequestsOK
  BY DEF Init, RecoveryInit, RequestsOK
<1> QED
  BY <1>1, <1>2, <1>3, <1>4, <1>5 DEF RecoveryInv

-----------------------------------------------------------------------------
(* How rows of recovery_jobs change.                                        *)

(* What every step but an insert and a claim leaves of row j: its phone,    *)
(* its lease and, once it is terminal, all of it; no row becomes active.    *)
RowKept(j) ==
  /\ recovery_jobs'[j] \in RecoveryRow
  /\ recovery_jobs'[j].device = recovery_jobs[j].device
  /\ recovery_jobs'[j].seconds = recovery_jobs[j].seconds
  /\ recovery_jobs'[j].worker = recovery_jobs[j].worker
  /\ recovery_jobs'[j].status = "absent" <=> recovery_jobs[j].status = "absent"
  /\ recovery_jobs'[j].status \in Active => recovery_jobs[j].status \in Active
  /\ recovery_jobs[j].status \in Terminal => recovery_jobs'[j] = recovery_jobs[j]

RowsKept ==
  /\ recovery_jobs' \in [RecoveryJob -> RecoveryRow]
  /\ \A j \in RecoveryJob : RowKept(j)

LEMMA UnchangedRowsKept ==
  ASSUME TypeOK, UNCHANGED recovery_jobs
  PROVE  RowsKept
  BY DEF TypeOK, RowsKept, RowKept

(* A guarded UPDATE writes its row if the job is active. *)
LEMMA UpdateActiveRows ==
  ASSUME TypeOK, NEW j \in RecoveryJob, NEW row \in RecoveryRow, UpdateActive(j, row)
  PROVE  /\ recovery_jobs' \in [RecoveryJob -> RecoveryRow]
         /\ recovery_jobs'[j] = IF IsActive(j) THEN row ELSE recovery_jobs[j]
         /\ \A i \in RecoveryJob \ {j} : recovery_jobs'[i] = recovery_jobs[i]
  BY DEF TypeOK, UpdateActive

LEMMA UpdateActiveKeepsRows ==
  ASSUME TypeOK, NEW j \in RecoveryJob, NEW row \in RecoveryRow, UpdateActive(j, row),
         row.device = recovery_jobs[j].device, row.seconds = recovery_jobs[j].seconds,
         row.worker = recovery_jobs[j].worker, row.status # "absent"
  PROVE  RowsKept
<1>1. /\ recovery_jobs' \in [RecoveryJob -> RecoveryRow]
      /\ recovery_jobs'[j] = IF IsActive(j) THEN row ELSE recovery_jobs[j]
      /\ \A i \in RecoveryJob \ {j} : recovery_jobs'[i] = recovery_jobs[i]
  BY UpdateActiveRows
<1>2. \A i \in RecoveryJob : recovery_jobs[i] \in RecoveryRow
  BY DEF TypeOK
<1>3. RowKept(j)
  BY <1>1, <1>2 DEF RowKept, IsActive, Active, Terminal
<1>4. \A i \in RecoveryJob \ {j} : RowKept(i)
  BY <1>1, <1>2 DEF RowKept
<1> QED
  BY <1>1, <1>3, <1>4 DEF RowsKept

(* The rows that _set_status and bump_attempt_and_reschedule write. *)
StatusRow(j, status, due) == [recovery_jobs[j] EXCEPT !.status = status, !.due = due]
BumpRow(j, status) ==
  [recovery_jobs[j] EXCEPT !.status = status, !.attempts = @ + 1,
                           !.due = now + TransientBackoff]

LEMMA StatusRowType ==
  ASSUME TypeOK, NEW j \in RecoveryJob, NEW status \in Active \cup Terminal, NEW due \in Nat
  PROVE  /\ StatusRow(j, status, due) \in RecoveryRow
         /\ StatusRow(j, status, due).status = status
         /\ StatusRow(j, status, due).due = due
         /\ StatusRow(j, status, due).attempts = recovery_jobs[j].attempts
         /\ StatusRow(j, status, due).device = recovery_jobs[j].device
         /\ StatusRow(j, status, due).seconds = recovery_jobs[j].seconds
         /\ StatusRow(j, status, due).worker = recovery_jobs[j].worker
<1>1. recovery_jobs[j] \in RecoveryRow
  BY DEF TypeOK
<1> QED
  BY <1>1 DEF StatusRow, RecoveryRow

LEMMA BumpRowType ==
  ASSUME TypeOK, NEW j \in RecoveryJob, NEW status \in Active \cup Terminal
  PROVE  /\ BumpRow(j, status) \in RecoveryRow
         /\ BumpRow(j, status).status = status
         /\ BumpRow(j, status).attempts = recovery_jobs[j].attempts + 1
         /\ BumpRow(j, status).device = recovery_jobs[j].device
         /\ BumpRow(j, status).seconds = recovery_jobs[j].seconds
         /\ BumpRow(j, status).worker = recovery_jobs[j].worker
<1>1. /\ recovery_jobs[j] \in RecoveryRow
      /\ recovery_jobs[j].attempts + 1 \in Nat
      /\ now + TransientBackoff \in Nat
  BY RecoveryAssumption DEF TypeOK, LeaseTypeOK, RecoveryRow
<1> QED
  BY <1>1 DEF BumpRow, RecoveryRow

LEMMA SetStatusKeepsRows ==
  ASSUME TypeOK, NEW j \in RecoveryJob, NEW status \in Active \cup Terminal, NEW due \in Nat,
         SetStatus(j, status, due)
  PROVE  RowsKept
<1>1. UpdateActive(j, StatusRow(j, status, due))
  BY DEF SetStatus, StatusRow
<1>2. status # "absent"
  BY DEF Active, Terminal
<1> QED
  BY <1>1, <1>2, StatusRowType, UpdateActiveKeepsRows

LEMMA BumpAttemptKeepsRows ==
  ASSUME TypeOK, NEW j \in RecoveryJob, NEW status \in Active \cup Terminal,
         BumpAttempt(j, status)
  PROVE  RowsKept
<1>1. UpdateActive(j, BumpRow(j, status))
  BY DEF BumpAttempt, BumpRow
<1>2. status # "absent"
  BY DEF Active, Terminal
<1> QED
  BY <1>1, <1>2, BumpRowType, UpdateActiveKeepsRows

(* The one UPDATE that a verdict ends in. *)
LEMMA WriteOutcomeKeepsRows ==
  ASSUME RecoveryInv, NEW r \in RecoveryWorker, recoverer[r].pc \in {"deciding", "erring"},
         WriteOutcome(r)
  PROVE  RowsKept
<1>1. /\ TypeOK /\ now \in Nat /\ now + ReviewBackoff \in Nat
      /\ recoverer[r].job \in RecoveryJob
      /\ recoverer[r].row.status \in Active \cup Terminal
  BY RecoveryAssumption
  DEF RecoveryInv, TypeOK, LeaseTypeOK, RecoverersOK, Holding, Recoverer, RecoveryRow
<1>2. CASE BumpAttempt(recoverer[r].job, recoverer[r].row.status)
  BY <1>1, <1>2, BumpAttemptKeepsRows
<1>3. ASSUME NEW status \in Active \cup Terminal, NEW due \in Nat,
             SetStatus(recoverer[r].job, status, due)
      PROVE  RowsKept
  BY <1>1, <1>3, SetStatusKeepsRows
<1> QED
  BY <1>1, <1>2, <1>3 DEF WriteOutcome, Active, Terminal

-----------------------------------------------------------------------------
(* The shape shared by the steps of a recovery worker: the others, their    *)
(* sessions and the requests are left alone.                                *)
RecovererMove(r, x) ==
  /\ recoverer' = [recoverer EXCEPT ![r] = x]
  /\ x \in Recoverer
  /\ x.current <= now
  /\ x.pc \in Holding => recoverer[r].pc \in Holding /\ x.job = recoverer[r].job
  /\ x.pc \in Holding \ {"claimed"} =>
       /\ x.row.status # "absent"
       /\ x.row.worker = r
       /\ x.row.device \in Device
       /\ x.row.status \in Terminal => recovery_jobs[x.job].status \in Terminal
  /\ x.pc \notin OnPhone => session'[r] = NoSession
  /\ \A a \in Actor \ {r} : session'[a] = session[a]
  /\ lease' \in [Device -> Lease] /\ session' \in [Actor -> Session]
  /\ RowsKept
  /\ events' \in [RecoveryJob -> [Event -> Nat]]
  /\ UNCHANGED <<now, registered, serial, request, retries, crashes>>

LEMMA RecovererMoves ==
  ASSUME RecoveryInv, NEW r \in RecoveryWorker, NEW x, RecovererMove(r, x)
  PROVE  RecoveryInv' /\ RowsKept
<1> USE DEF RecovererMove
<1> USE RecoveryAssumption
<1>1. TypeOK'
  BY DEF RecoveryInv, TypeOK, LeaseTypeOK, RowsKept
<1>2. RowsOK' /\ ClockOK'
  BY DEF RecoveryInv, RowsOK, ClockOK, RowsKept, RowKept
<1>3. RequestsOK'
  BY DEF RecoveryInv, RequestsOK, RowsKept, RowKept
<1>4. \A j \in RecoveryJob :
        /\ recovery_jobs[j].status # "absent" => recovery_jobs'[j].status # "absent"
        /\ recovery_jobs'[j].worker = recovery_jobs[j].worker
        /\ recovery_jobs[j].status \in Terminal => recovery_jobs'[j].status \in Terminal
  BY DEF RowsKept, RowKept
<1>5. ASSUME NEW s \in RecoveryWorker
      PROVE  /\ recoverer'[s].current <= now'
             /\ recoverer'[s].pc \in Holding =>
                  /\ recoverer'[s].job \in RecoveryJob
                  /\ recovery_jobs'[recoverer'[s].job].status # "absent"
                  /\ recovery_jobs'[recoverer'[s].job].worker = s
             /\ recoverer'[s].pc \in Holding \ {"claimed"} =>
                  /\ recoverer'[s].row.status # "absent"
                  /\ recoverer'[s].row.worker = s
                  /\ recoverer'[s].row.device \in Device
                  /\ recoverer'[s].row.status \in Terminal =>
                       recovery_jobs'[recoverer'[s].job].status \in Terminal
             /\ recoverer'[s].pc \notin OnPhone => session'[s] = NoSession
  <2>1. CASE s = r
    <3>1. recoverer'[s] = x
      BY <2>1 DEF RecoveryInv, TypeOK
    <3> QED
      BY <1>4, <2>1, <3>1 DEF RecoveryInv, RecoverersOK
  <2>2. CASE s # r
    <3>1. recoverer'[s] = recoverer[s] /\ session'[s] = session[s]
      BY <2>2 DEF RecoveryInv, TypeOK
    <3> QED
      BY <1>4, <3>1 DEF RecoveryInv, RecoverersOK
  <2> QED
    BY <2>1, <2>2
<1> QED
  BY <1>1, <1>2, <1>3, <1>5 DEF RecoveryInv, RecoverersOK

(* A worker that keeps its session and leaves the leases alone. *)
StaysPut(r, x) ==
  /\ recoverer' = [recoverer EXCEPT ![r] = x]
  /\ x \in Recoverer
  /\ x.current <= now
  /\ x.pc \in Holding => recoverer[r].pc \in Holding /\ x.job = recoverer[r].job
  /\ x.pc \in Holding \ {"claimed"} =>
       /\ x.row.status # "absent"
       /\ x.row.worker = r
       /\ x.row.device \in Device
       /\ x.row.status \in Terminal => recovery_jobs[x.job].status \in Terminal
  /\ x.pc \in OnPhone \/ recoverer[r].pc \notin OnPhone
  /\ RowsKept
  /\ events' \in [RecoveryJob -> [Event -> Nat]]
  /\ UNCHANGED <<leaseVars, request, retries, crashes>>

LEMMA StaysPutOK ==
  ASSUME RecoveryInv, NEW r \in RecoveryWorker, NEW x, StaysPut(r, x)
  PROVE  RecoveryInv' /\ [Contract!Next]_(Contract!contractVars) /\ RowsKept
<1>1. RecovererMove(r, x)
  BY DEF StaysPut, RecovererMove, RecoveryInv, TypeOK, LeaseTypeOK, RecoverersOK, leaseVars
<1> QED
  BY <1>1, RecovererMoves DEF StaysPut, leaseVars, Contract!contractVars

(* A worker that leaves the phone, its lease staying as it is. *)
LeavesPhone(r, x) ==
  /\ recoverer' = [recoverer EXCEPT ![r] = x]
  /\ x \in Recoverer
  /\ x.current <= now
  /\ x.pc \in Holding => recoverer[r].pc \in Holding /\ x.job = recoverer[r].job
  /\ x.pc \in Holding \ {"claimed"} =>
       /\ x.row.status # "absent"
       /\ x.row.worker = r
       /\ x.row.device \in Device
       /\ x.row.status \in Terminal => recovery_jobs[x.job].status \in Terminal
  /\ EndSessions({r})
  /\ RowsKept
  /\ UNCHANGED <<now, registered, lease, serial, request, events, retries, crashes>>

LEMMA LeavesPhoneOK ==
  ASSUME RecoveryInv, NEW r \in RecoveryWorker, NEW x, LeavesPhone(r, x)
  PROVE  RecoveryInv' /\ [Contract!Next]_(Contract!contractVars) /\ RowsKept
<1> USE DEF LeavesPhone
<1>1. LeaseTypeOK /\ r \in Actor /\ TypeOK
  BY RecoveryAssumption DEF RecoveryInv, TypeOK
<1>2. /\ session' \in [Actor -> Session] /\ session'[r] = NoSession
      /\ \A a \in Actor \ {r} : session'[a] = session[a]
  BY <1>1, EndSessionsType
<1>3. RecovererMove(r, x)
  BY <1>1, <1>2 DEF RecovererMove, TypeOK, LeaseTypeOK
<1>4. Contract!Next
  BY <1>1, EndSessionsIsStop
<1> QED
  BY <1>3, <1>4, RecovererMoves

-----------------------------------------------------------------------------
(* The claim.                                                               *)

FailedRow(j) == FailLocked(recovery_jobs[j])

LEMMA FailLockedKeepsRow ==
  ASSUME TypeOK, NEW j \in RecoveryJob, IsActive(j), recovery_jobs'[j] = FailedRow(j)
  PROVE  RowKept(j) /\ recovery_jobs'[j].status = "failed"
<1>1. recovery_jobs[j] \in RecoveryRow
  BY DEF TypeOK
<1>2. /\ FailedRow(j) \in RecoveryRow
      /\ FailedRow(j).status = "failed"
      /\ FailedRow(j).device = recovery_jobs[j].device
      /\ FailedRow(j).seconds = recovery_jobs[j].seconds
      /\ FailedRow(j).worker = recovery_jobs[j].worker
  BY <1>1 DEF FailedRow, FailLocked, RecoveryRow, Terminal
<1> QED
  BY <1>2 DEF RowKept, IsActive, Active, Terminal

(* With one thread, the row that a claim overwrites is held by no other. *)
LEMMA ClaimOK ==
  ASSUME OneThread, RecoveryInv, NEW r \in RecoveryWorker, Claim(r)
  PROVE  RecoveryInv' /\ Contract!Next
<1> USE RecoveryAssumption, DeviceLeaseAssumption
<1>1. PICK j \in First(Claimable(recoverer[r].current)) :
        /\ recovery_jobs' =
             [i \in RecoveryJob |->
                IF i = j THEN [recovery_jobs[j] EXCEPT
                                 !.worker = r, !.until = now + recovery_jobs[j].seconds]
                ELSE IF i \in Orphans(recoverer[r].current) /\ i < j
                  THEN FailLocked(recovery_jobs[i])
                ELSE recovery_jobs[i]]
        /\ TakeLease(r, recovery_jobs[j].device, now + recovery_jobs[j].seconds)
        /\ recoverer' = [recoverer EXCEPT ![r] = [IdleRecoverer EXCEPT !.pc = "claimed",
                                                                       !.job = j]]
  BY DEF Claim
<1>2. /\ j \in RecoveryJob /\ recovery_jobs[j].status \in Active /\ r \in Actor
      /\ ~LockActive(recovery_jobs[j].device, recoverer[r].current)
      /\ recoverer[r].pc = "claiming"
      /\ UNCHANGED <<now, registered, serial, request, events, retries, crashes>>
  BY DEF First, Claimable, DueJobs, IsActive, Claim
<1>3. \A i \in RecoveryJob : recovery_jobs[i] \in RecoveryRow
  BY DEF RecoveryInv, TypeOK
<1>4. /\ TypeOK /\ LeaseTypeOK /\ ClockOK
      /\ recoverer[r].current \in Nat /\ recoverer[r].current <= now
  BY DEF RecoveryInv, TypeOK, RecoverersOK, Recoverer
<1>5. /\ recovery_jobs[j].device \in Device
      /\ recovery_jobs[j].seconds \in LeaseSeconds
  BY <1>2 DEF RecoveryInv, RowsOK, Active
<1>6. now + recovery_jobs[j].seconds \in LeaseEnds
  BY <1>4, <1>5, LeaseEndsReached DEF ClockOK
<1>7. now + recovery_jobs[j].seconds \in Nat
  BY <1>6, LeaseEndsAreNat
<1>8. /\ lease' \in [Device -> Lease] /\ session' \in [Actor -> Session]
      /\ \A a \in Actor \ {r} : session'[a] = session[a]
  BY <1>1, <1>2, <1>4, <1>5, <1>7, TakeLeaseType DEF TakeLease, LeaseTypeOK
<1>9. recovery_jobs'[j] = [recovery_jobs[j] EXCEPT
                             !.worker = r, !.until = now + recovery_jobs[j].seconds]
  BY <1>1, <1>2
<1>10. /\ recovery_jobs'[j] \in RecoveryRow
       /\ recovery_jobs'[j].status = recovery_jobs[j].status
       /\ recovery_jobs'[j].worker = r
       /\ recovery_jobs'[j].device = recovery_jobs[j].device
       /\ recovery_jobs'[j].seconds = recovery_jobs[j].seconds
  BY <1>2, <1>3, <1>7, <1>9 DEF RecoveryRow
<1>11. ASSUME NEW i \in RecoveryJob \ {j}
       PROVE  RowKept(i)
  <2>1. CASE recovery_jobs'[i] = recovery_jobs[i]
    BY <1>3, <2>1 DEF RowKept
  <2>2. CASE i \in Orphans(recoverer[r].current) /\ recovery_jobs'[i] = FailedRow(i)
    BY <1>4, <2>2, FailLockedKeepsRow DEF Orphans, DueJobs
  <2> QED
    BY <1>1, <2>1, <2>2 DEF FailedRow
<1>12. recovery_jobs' \in [RecoveryJob -> RecoveryRow]
  <2>1. recovery_jobs' = [i \in RecoveryJob |-> recovery_jobs'[i]]
    BY <1>1
  <2> QED
    BY <2>1, <1>10, <1>11 DEF RowKept
<1>13. recoverer' \in [RecoveryWorker -> Recoverer]
  BY <1>1, <1>2, IdleIsRecoverer
  DEF RecoveryInv, TypeOK, Recoverer, RecovererPc, IdleRecoverer
<1>14. TypeOK'
  BY <1>2, <1>8, <1>12, <1>13 DEF RecoveryInv, TypeOK, LeaseTypeOK
<1>15. RowsOK'
  BY <1>5, <1>10, <1>11 DEF RecoveryInv, RowsOK, RowKept
<1>16. RequestsOK' /\ ClockOK'
  BY <1>2, <1>10, <1>11 DEF RecoveryInv, RequestsOK, ClockOK, RowKept, Active
<1>17. RecoverersOK'
  <2>1. recoverer'[r].pc = "claimed" /\ recoverer'[r].job = j /\ recoverer'[r].current = 0
    BY <1>1 DEF RecoveryInv, TypeOK, IdleRecoverer
  <2>2. now' \in Nat /\ now' = now
    BY <1>2, <1>4 DEF LeaseTypeOK
  <2>3. \A s \in RecoveryWorker : s = r
    BY DEF OneThread
  <2> QED
    BY <1>2, <1>10, <2>1, <2>2, <2>3 DEF RecoverersOK, OnPhone, Active
<1>18. Contract!Next
  <2>1. session[r] = NoSession
    BY <1>2 DEF RecoveryInv, RecoverersOK, OnPhone
  <2> QED
    BY <1>1, <1>2, <1>4, <1>5, <1>6, <2>1, TakeLeaseIsAcquire
<1> QED
  BY <1>14, <1>15, <1>16, <1>17, <1>18 DEF RecoveryInv

LEMMA ClaimStepsOK ==
  ASSUME OneThread, RecoveryInv, NEW r \in RecoveryWorker,
         \/ BeginClaim(r) \/ Claim(r) \/ ClaimNothing(r) \/ ClaimFails(r)
         \/ Reread(r) \/ RereadFails(r)
  PROVE  /\ RecoveryInv'
         /\ [Contract!Next]_(Contract!contractVars)
         /\ RowsKept \/ Claim(r)
<1> USE RecoveryAssumption
<1>0. /\ TypeOK /\ now \in Nat /\ recoverer[r] \in Recoverer
      /\ recoverer[r].current <= now
      /\ recoverer \in [RecoveryWorker -> Recoverer]
      /\ recovery_jobs \in [RecoveryJob -> RecoveryRow]
      /\ events \in [RecoveryJob -> [Event -> Nat]]
  BY DEF RecoveryInv, TypeOK, LeaseTypeOK, RecoverersOK
<1>1. CASE BeginClaim(r)
  <2> DEFINE x == [IdleRecoverer EXCEPT !.pc = "claiming", !.current = now]
  <2>1. x \in Recoverer /\ x.pc = "claiming" /\ x.current = now
    BY <1>0, IdleIsRecoverer DEF Recoverer, IdleRecoverer, RecovererPc
  <2>2. /\ recoverer[r].pc = "idle" /\ recoverer' = [recoverer EXCEPT ![r] = x]
        /\ UNCHANGED <<leaseVars, recovery_jobs, request, events, retries, crashes>>
    BY <1>1 DEF BeginClaim
  <2> HIDE DEF x
  <2>3. StaysPut(r, x)
    BY <1>0, <2>1, <2>2, UnchangedRowsKept DEF StaysPut, Holding, OnPhone
  <2> QED
    BY <2>3, StaysPutOK
<1>2. CASE Claim(r)
  BY <1>2, ClaimOK
<1>3. CASE ClaimNothing(r)
  <2>1. ASSUME NEW i \in RecoveryJob
        PROVE  RowKept(i)
    <3>1. CASE i \in Orphans(recoverer[r].current)
      <4>1. IsActive(i) /\ recovery_jobs'[i] = FailedRow(i)
        BY <1>3, <3>1 DEF ClaimNothing, Orphans, DueJobs, FailedRow
      <4> QED
        BY <1>0, <4>1, FailLockedKeepsRow
    <3>2. CASE i \notin Orphans(recoverer[r].current)
      <4>1. recovery_jobs'[i] = recovery_jobs[i]
        BY <1>3, <3>2 DEF ClaimNothing
      <4> QED
        BY <1>0, <4>1 DEF RowKept
    <3> QED
      BY <3>1, <3>2
  <2>2. recovery_jobs' = [i \in RecoveryJob |-> recovery_jobs'[i]]
    BY <1>3 DEF ClaimNothing
  <2>3. RowsKept
    BY <2>1, <2>2 DEF RowsKept, RowKept
  <2>4. StaysPut(r, IdleRecoverer)
    BY <1>0, <1>3, <2>3, IdleIsRecoverer DEF ClaimNothing, StaysPut, Holding, OnPhone
  <2> QED
    BY <2>4, StaysPutOK
<1>4. CASE ClaimFails(r)
  <2>1. StaysPut(r, IdleRecoverer)
    BY <1>0, <1>4, UnchangedRowsKept, IdleIsRecoverer
    DEF ClaimFails, StaysPut, Holding, OnPhone
  <2> QED
    BY <2>1, StaysPutOK
<1>5. CASE Reread(r)
  <2> DEFINE x == [recoverer[r] EXCEPT !.pc = "driving",
                                       !.row = recovery_jobs[recoverer[r].job]]
  <2>1. /\ recoverer[r].pc = "claimed" /\ recoverer[r].job \in RecoveryJob
        /\ recovery_jobs[recoverer[r].job].status # "absent"
        /\ recovery_jobs[recoverer[r].job].worker = r
        /\ recovery_jobs[recoverer[r].job].device \in Device
        /\ recovery_jobs[recoverer[r].job] \in RecoveryRow
    BY <1>0, <1>5 DEF Reread, RecoveryInv, RecoverersOK, RowsOK, Holding
  <2>2. /\ x \in Recoverer /\ x.pc = "driving" /\ x.job = recoverer[r].job
        /\ x.current = recoverer[r].current
        /\ x.row = recovery_jobs[recoverer[r].job]
    BY <1>0, <2>1 DEF Recoverer, RecovererPc
  <2>3. /\ recoverer' = [recoverer EXCEPT ![r] = x]
        /\ UNCHANGED <<leaseVars, recovery_jobs, request, events, retries, crashes>>
    BY <1>0, <1>5 DEF Reread
  <2> HIDE DEF x
  <2>4. StaysPut(r, x)
    BY <1>0, <2>1, <2>2, <2>3, UnchangedRowsKept DEF StaysPut, Holding, OnPhone
  <2> QED
    BY <2>4, StaysPutOK
<1>6. CASE RereadFails(r)
  <2> DEFINE x == [IdleRecoverer EXCEPT !.pc = "dead"]
  <2>1. x \in Recoverer /\ x.pc = "dead" /\ x.current = 0
    BY IdleIsRecoverer DEF Recoverer, IdleRecoverer, RecovererPc
  <2>2. /\ \/ recoverer' = [recoverer EXCEPT ![r] = IdleRecoverer]
           \/ recoverer' = [recoverer EXCEPT ![r] = x]
        /\ EndSessions({r})
        /\ UNCHANGED <<now, registered, lease, serial, recovery_jobs, request, events,
                       retries, crashes>>
    BY <1>6 DEF RereadFails
  <2> HIDE DEF x
  <2>3. LeavesPhone(r, IdleRecoverer) \/ LeavesPhone(r, x)
    BY <1>0, <2>1, <2>2, UnchangedRowsKept, IdleIsRecoverer DEF LeavesPhone, Holding
  <2> QED
    BY <2>3, LeavesPhoneOK
<1> QED
  BY <1>1, <1>2, <1>3, <1>4, <1>5, <1>6

(* The worker moved on with the copy it has. *)
Went(r, pc) == [recoverer[r] EXCEPT !.pc = pc]

LEMMA WentIsRecoverer ==
  ASSUME TypeOK, NEW r \in RecoveryWorker, NEW pc \in RecovererPc
  PROVE  /\ Went(r, pc) \in Recoverer
         /\ Went(r, pc).pc = pc
         /\ Went(r, pc).job = recoverer[r].job
         /\ Went(r, pc).row = recoverer[r].row
         /\ Went(r, pc).verdict = recoverer[r].verdict
         /\ Went(r, pc).current = recoverer[r].current
  BY DEF TypeOK, Went, Recoverer

LEMMA PostIsTyped ==
  ASSUME TypeOK, NEW j \in RecoveryJob, NEW event \in Event, Post(j, event)
  PROVE  events' \in [RecoveryJob -> [Event -> Nat]]
  BY DEF TypeOK, Post

LEMMA ProcessStepsOK ==
  ASSUME RecoveryInv, NEW r \in RecoveryWorker,
         \/ LeaveTerminal(r) \/ MarkRequestingReview(r) \/ MarkRaises(r)
         \/ AnnounceStarted(r)
         \/ \E screen \in Screen : SeeScreen(r, screen)
         \/ PhoneRaises(r)
         \/ Decide(r) \/ DecideRaises(r) \/ NotifyOutcome(r)
         \/ Release(r) \/ ReleaseRaises(r)
  PROVE  RecoveryInv' /\ [Contract!Next]_(Contract!contractVars) /\ RowsKept
<1> USE RecoveryAssumption
<1>0. /\ TypeOK /\ LeaseTypeOK /\ now \in Nat /\ recoverer[r] \in Recoverer
      /\ recoverer[r].current <= now
      /\ recoverer \in [RecoveryWorker -> Recoverer]
      /\ recoverer[r].job \in RecoveryJob \cup {0}
      /\ recoverer[r].row \in RecoveryRow
      /\ events \in [RecoveryJob -> [Event -> Nat]]
      /\ lease \in [Device -> Lease] /\ session \in [Actor -> Session]
  BY DEF RecoveryInv, TypeOK, LeaseTypeOK, RecoverersOK, Recoverer
<1>c. ASSUME recoverer[r].pc \in Holding \ {"claimed"}
      PROVE  /\ recoverer[r].job \in RecoveryJob
             /\ recoverer[r].row.status \in Active \cup Terminal
             /\ recoverer[r].row.status # "absent"
             /\ recoverer[r].row.worker = r
             /\ recoverer[r].row.device \in Device
             /\ recoverer[r].row.status \in Terminal =>
                  recovery_jobs[recoverer[r].job].status \in Terminal
  BY <1>0, <1>c DEF RecoveryInv, RecoverersOK, RecoveryRow
<1>w. ASSUME NEW pc \in Holding
      PROVE  /\ Went(r, pc) \in Recoverer
             /\ Went(r, pc).pc = pc
             /\ Went(r, pc).job = recoverer[r].job
             /\ Went(r, pc).row = recoverer[r].row
             /\ Went(r, pc).current = recoverer[r].current
  BY <1>0, WentIsRecoverer DEF Holding, RecovererPc
<1>1. CASE LeaveTerminal(r)
  <2>1. /\ recoverer[r].pc = "driving"
        /\ recoverer' = [recoverer EXCEPT ![r] = Went(r, "releasing")]
    BY <1>0, <1>1 DEF LeaveTerminal, GoTo, Went
  <2>2. RowsKept
    BY <1>0, <1>1, <1>c, <2>1, BumpAttemptKeepsRows DEF LeaveTerminal, Holding
  <2>3. LeavesPhone(r, Went(r, "releasing"))
    BY <1>0, <1>1, <1>c, <1>w, <2>1, <2>2 DEF LeaveTerminal, LeavesPhone, Holding
  <2> QED
    BY <2>3, LeavesPhoneOK
<1>2. CASE MarkRequestingReview(r)
  <2> DEFINE x == [recoverer[r] EXCEPT !.pc = "announcing",
                                       !.row.status = "requesting_review"]
  <2>1. /\ recoverer[r].pc = "driving" /\ recoverer' = [recoverer EXCEPT ![r] = x]
        /\ SetStatus(recoverer[r].job, "requesting_review", now)
        /\ UNCHANGED <<leaseVars, request, events, retries, crashes>>
    <3>1. /\ recoverer[r].pc = "driving"
          /\ SetStatus(recoverer[r].job, "requesting_review", now)
          /\ recoverer' = [recoverer EXCEPT ![r].pc = "announcing",
                                            ![r].row.status = "requesting_review"]
          /\ UNCHANGED <<leaseVars, request, events, retries, crashes>>
      BY <1>2 DEF MarkRequestingReview
    <3>2. recoverer' = [recoverer EXCEPT ![r] = x]
      BY <1>0, <3>1
    <3> QED
      BY <3>1, <3>2
  <2>2. /\ x \in Recoverer /\ x.pc = "announcing" /\ x.job = recoverer[r].job
        /\ x.current = recoverer[r].current
        /\ x.row.status = "requesting_review"
        /\ x.row.worker = recoverer[r].row.worker
        /\ x.row.device = recoverer[r].row.device
    BY <1>0 DEF Recoverer, RecovererPc, RecoveryRow, Active
  <2> HIDE DEF x
  <2>3. RowsKept
    BY <1>0, <1>c, <2>1, SetStatusKeepsRows DEF Holding, Active
  <2>4. StaysPut(r, x)
    BY <1>0, <1>c, <2>1, <2>2, <2>3 DEF StaysPut, Holding, OnPhone, Terminal
  <2> QED
    BY <2>4, StaysPutOK
<1>3. CASE MarkRaises(r)
  <2>1. /\ recoverer[r].pc = "driving"
        /\ recoverer' = [recoverer EXCEPT ![r] = Went(r, "erring")]
    BY <1>0, <1>3 DEF MarkRaises, GoTo, Went
  <2>2. RowsKept
    BY <1>0, <1>3, <1>c, <2>1, SetStatusKeepsRows, UnchangedRowsKept
    DEF MarkRaises, Holding, Active
  <2>3. LeavesPhone(r, Went(r, "erring"))
    BY <1>0, <1>3, <1>c, <1>w, <2>1, <2>2 DEF MarkRaises, LeavesPhone, Holding
  <2> QED
    BY <2>3, LeavesPhoneOK
<1>4. CASE AnnounceStarted(r)
  <2>1. /\ recoverer[r].pc = "announcing"
        /\ recoverer' = [recoverer EXCEPT ![r] = Went(r, "driving")]
    BY <1>0, <1>4 DEF AnnounceStarted, GoTo, Went
  <2>2. events' \in [RecoveryJob -> [Event -> Nat]]
    BY <1>0, <1>4, <1>c, <2>1, PostIsTyped DEF AnnounceStarted, Holding, Event
  <2>3. StaysPut(r, Went(r, "driving"))
    BY <1>0, <1>4, <1>c, <1>w, <2>1, <2>2, UnchangedRowsKept
    DEF AnnounceStarted, StaysPut, Holding, OnPhone
  <2> QED
    BY <2>3, StaysPutOK
<1>5. ASSUME NEW screen \in Screen, SeeScreen(r, screen)
      PROVE  RecoveryInv' /\ [Contract!Next]_(Contract!contractVars) /\ RowsKept
  <2> DEFINE verdict == Verdict(recoverer[r].row.status, screen)
             x == [recoverer[r] EXCEPT !.pc = "deciding", !.verdict = verdict]
  <2>1. recoverer[r].pc = "driving" /\ recoverer' = [recoverer EXCEPT ![r] = x]
    BY <1>0, <1>5 DEF SeeScreen
  <2>2. verdict \in Active \cup Terminal \cup {"retry"}
    BY DEF Verdict, Active, Terminal
  <2> HIDE DEF verdict
  <2>3. /\ x \in Recoverer /\ x.pc = "deciding" /\ x.job = recoverer[r].job
        /\ x.current = recoverer[r].current
        /\ x.row = recoverer[r].row
    BY <1>0, <2>2 DEF Recoverer, RecovererPc
  <2> HIDE DEF x
  <2>4. LeavesPhone(r, x)
    BY <1>0, <1>5, <1>c, <2>1, <2>3, UnchangedRowsKept DEF SeeScreen, LeavesPhone, Holding
  <2> QED
    BY <2>4, LeavesPhoneOK
<1>6. CASE PhoneRaises(r)
  <2>1. /\ recoverer[r].pc = "driving"
        /\ recoverer' = [recoverer EXCEPT ![r] = Went(r, "erring")]
    BY <1>0, <1>6 DEF PhoneRaises, GoTo, Went
  <2>2. LeavesPhone(r, Went(r, "erring"))
    BY <1>0, <1>6, <1>c, <1>w, <2>1, UnchangedRowsKept DEF PhoneRaises, LeavesPhone, Holding
  <2> QED
    BY <2>2, LeavesPhoneOK
<1>7. CASE Decide(r)
  <2> DEFINE pc == IF Outcome(r) \in {"recovered", "failed"} /\ WritesStatus(r)
                     THEN "notifying" ELSE "releasing"
             x == [recoverer[r] EXCEPT !.pc = pc, !.verdict = Outcome(r)]
  <2>1. /\ recoverer[r].pc \in {"deciding", "erring"}
        /\ recoverer' = [recoverer EXCEPT ![r] = x]
    BY <1>0, <1>7 DEF Decide
  <2>2. Outcome(r) \in Active \cup Terminal \cup {"retry"}
    BY <1>0 DEF Outcome, Recoverer, Terminal
  <2>3. pc \in {"notifying", "releasing"}
    OBVIOUS
  <2> HIDE DEF pc
  <2>4. /\ x \in Recoverer /\ x.pc = pc /\ x.job = recoverer[r].job
        /\ x.current = recoverer[r].current
        /\ x.row = recoverer[r].row
    BY <1>0, <2>2, <2>3 DEF Recoverer, RecovererPc
  <2> HIDE DEF x
  <2>5. RowsKept
    BY <1>7, WriteOutcomeKeepsRows DEF Decide
  <2>6. StaysPut(r, x)
    BY <1>0, <1>7, <1>c, <2>1, <2>3, <2>4, <2>5 DEF Decide, StaysPut, Holding, OnPhone
  <2> QED
    BY <2>6, StaysPutOK
<1>8. CASE DecideRaises(r)
  <2> DEFINE pc == IF recoverer[r].pc = "deciding" THEN "erring" ELSE "releasing"
             x == [recoverer[r] EXCEPT !.pc = pc, !.verdict = "retry"]
  <2>1. /\ recoverer[r].pc \in {"deciding", "erring"}
        /\ recoverer' = [recoverer EXCEPT ![r] = x]
    BY <1>0, <1>8 DEF DecideRaises
  <2>2. pc \in {"erring", "releasing"}
    OBVIOUS
  <2> HIDE DEF pc
  <2>3. /\ x \in Recoverer /\ x.pc = pc /\ x.job = recoverer[r].job
        /\ x.current = recoverer[r].current
        /\ x.row = recoverer[r].row
    BY <1>0, <2>2 DEF Recoverer, RecovererPc
  <2> HIDE DEF x
  <2>4. RowsKept
    BY <1>0, <1>8, WriteOutcomeKeepsRows, UnchangedRowsKept DEF DecideRaises
  <2>5. StaysPut(r, x)
    BY <1>0, <1>8, <1>c, <2>1, <2>2, <2>3, <2>4
    DEF DecideRaises, StaysPut, Holding, OnPhone
  <2> QED
    BY <2>5, StaysPutOK
<1>9. CASE NotifyOutcome(r)
  <2>1. /\ recoverer[r].pc = "notifying"
        /\ recoverer' = [recoverer EXCEPT ![r] = Went(r, "releasing")]
    BY <1>0, <1>9 DEF NotifyOutcome, GoTo, Went
  <2>2. events' \in [RecoveryJob -> [Event -> Nat]]
    <3>1. PICK event \in Event : Post(recoverer[r].job, event)
      BY <1>9 DEF NotifyOutcome, Event
    <3> QED
      BY <1>0, <1>c, <2>1, <3>1, PostIsTyped DEF Holding
  <2>3. StaysPut(r, Went(r, "releasing"))
    BY <1>0, <1>9, <1>c, <1>w, <2>1, <2>2, UnchangedRowsKept
    DEF NotifyOutcome, StaysPut, Holding, OnPhone
  <2> QED
    BY <2>3, StaysPutOK
<1>10. CASE Release(r)
  <2> DEFINE row == recoverer[r].row
  <2>1. /\ recoverer[r].pc = "releasing" /\ row.worker = r /\ row.device \in Device
        /\ row.until \in Nat /\ session[r] = NoSession /\ r \in Actor
    BY <1>0, <1>10, <1>c
    DEF Release, Holding, RecoveryInv, RecoverersOK, OnPhone, RecoveryRow
  <2>2. /\ ReleaseLease(r, row.device, row.until)
        /\ recoverer' = [recoverer EXCEPT ![r] = IdleRecoverer]
        /\ UNCHANGED <<now, registered, serial, session, recovery_jobs, request, events,
                       retries, crashes>>
    BY <1>10, <2>1 DEF Release
  <2>3. lease' \in [Device -> Lease]
    BY <1>0, <2>2, ReleaseLeaseType
  <2>4. RecovererMove(r, IdleRecoverer)
    BY <1>0, <2>1, <2>2, <2>3, UnchangedRowsKept, IdleIsRecoverer
    DEF RecovererMove, Holding
  <2>5. [Contract!Next]_(Contract!contractVars)
    BY <1>0, <2>1, <2>2, ReleaseLeaseIsGiveBack DEF RecoveryInv
  <2> QED
    BY <2>4, <2>5, RecovererMoves
<1>11. CASE ReleaseRaises(r)
  <2>1. StaysPut(r, IdleRecoverer)
    BY <1>0, <1>11, UnchangedRowsKept, IdleIsRecoverer
    DEF ReleaseRaises, StaysPut, Holding, OnPhone
  <2> QED
    BY <2>1, StaysPutOK
<1> QED
  BY <1>1, <1>2, <1>3, <1>4, <1>5, <1>6, <1>7, <1>8, <1>9, <1>10, <1>11

-----------------------------------------------------------------------------
(* The requests of the API, the death of the server, the device rows.       *)

(* The insert, by a request of the API or by a send that failed. *)
LEMMA EnqueueRows ==
  ASSUME RecoveryInv, NEW d \in Device, NEW secs \in LeaseSeconds,
         EnqueueRecovery(d, secs), recovery_jobs' # recovery_jobs
  PROVE  \E j \in RecoveryJob :
           /\ ActiveOn(d) = {}
           /\ recovery_jobs[j].status = "absent"
           /\ recovery_jobs' \in [RecoveryJob -> RecoveryRow]
           /\ recovery_jobs'[j].status = "detected"
           /\ recovery_jobs'[j].device = d
           /\ recovery_jobs'[j].seconds = secs
           /\ recovery_jobs'[j].attempts = 0
           /\ \A i \in RecoveryJob \ {j} : recovery_jobs'[i] = recovery_jobs[i]
<1> DEFINE row == [NoRow EXCEPT !.status = "detected", !.device = d, !.seconds = secs,
                                !.due = now]
<1>1. ActiveOn(d) = {}
  BY DEF EnqueueRecovery
<1>2. PICK j \in RecoveryJob : /\ recovery_jobs[j].status = "absent"
                               /\ recovery_jobs' = [recovery_jobs EXCEPT ![j] = row]
  BY DEF EnqueueRecovery
<1>3. /\ row \in RecoveryRow /\ row.status = "detected" /\ row.device = d
      /\ row.seconds = secs /\ row.attempts = 0
  <2>1. now \in Nat /\ "detected" \in Active
    BY DEF RecoveryInv, TypeOK, LeaseTypeOK, Active
  <2>2. NoRow \in RecoveryRow /\ NoRow.attempts = 0
    BY IdleIsRecoverer DEF NoRow
  <2> QED
    BY <2>1, <2>2 DEF RecoveryRow
<1> HIDE DEF row
<1>4. /\ recovery_jobs' \in [RecoveryJob -> RecoveryRow] /\ recovery_jobs'[j] = row
      /\ \A i \in RecoveryJob \ {j} : recovery_jobs'[i] = recovery_jobs[i]
  BY <1>2, <1>3 DEF RecoveryInv, TypeOK
<1> QED
  BY <1>1, <1>2, <1>3, <1>4

LEMMA EnqueueOK ==
  ASSUME RecoveryInv, NEW d \in Device, NEW secs \in LeaseSeconds,
         EnqueueRecovery(d, secs),
         UNCHANGED <<leaseVars, recoverer, request, events, retries, crashes>>
  PROVE  RecoveryInv'
<1>1. CASE recovery_jobs' = recovery_jobs
  BY <1>1 DEF RecoveryInv, TypeOK, LeaseTypeOK, ClockOK, RowsOK, RecoverersOK, RequestsOK,
              leaseVars
<1>2. CASE recovery_jobs' # recovery_jobs
  <2>1. PICK j \in RecoveryJob :
          /\ recovery_jobs[j].status = "absent"
          /\ recovery_jobs' \in [RecoveryJob -> RecoveryRow]
          /\ recovery_jobs'[j].status = "detected"
          /\ recovery_jobs'[j].device = d
          /\ recovery_jobs'[j].seconds = secs
          /\ \A i \in RecoveryJob \ {j} : recovery_jobs'[i] = recovery_jobs[i]
    BY <1>2, EnqueueRows
  <2>2. UNCHANGED <<now, registered, lease, serial, session, recoverer, request, events,
                    retries, crashes>>
    BY DEF leaseVars
  <2>3. TypeOK' /\ ClockOK'
    BY <2>1, <2>2 DEF RecoveryInv, TypeOK, LeaseTypeOK, ClockOK
  <2>4. RowsOK'
    BY <2>1 DEF RecoveryInv, RowsOK
  <2>5. RecoverersOK'
    BY <2>1, <2>2 DEF RecoveryInv, RecoverersOK
  <2>6. RequestsOK'
    BY <2>1, <2>2 DEF RecoveryInv, RequestsOK
  <2> QED
    BY <2>3, <2>4, <2>5, <2>6 DEF RecoveryInv
<1> QED
  BY <1>1, <1>2

(* A request that keeps the rows. *)
LEMMA RequestKeepsInv ==
  ASSUME RecoveryInv, RowsKept,
         request' \in [Operator -> Request],
         \A o \in Operator :
           \/ request'[o] = request[o] \/ request'[o] = NoRequest
           \/ /\ request'[o].job \in RecoveryJob
              /\ recovery_jobs[request'[o].job].status # "absent",
         retries' \in Nat,
         UNCHANGED <<leaseVars, recoverer, events, crashes>>
  PROVE  RecoveryInv'
<1>1. UNCHANGED <<now, registered, lease, serial, session, recoverer, events, crashes>>
  BY DEF leaseVars
<1>2. TypeOK' /\ ClockOK'
  BY <1>1 DEF RecoveryInv, TypeOK, LeaseTypeOK, ClockOK, RowsKept
<1>3. RowsOK'
  BY DEF RecoveryInv, RowsOK, RowsKept, RowKept
<1>4. RecoverersOK'
  <2>1. \A j \in RecoveryJob :
          /\ recovery_jobs[j].status # "absent" => recovery_jobs'[j].status # "absent"
          /\ recovery_jobs'[j].worker = recovery_jobs[j].worker
          /\ recovery_jobs[j].status \in Terminal => recovery_jobs'[j].status \in Terminal
    BY DEF RowsKept, RowKept
  <2> QED
    BY <1>1, <2>1 DEF RecoveryInv, RecoverersOK
<1>5. RequestsOK'
  BY DEF RecoveryInv, RequestsOK, RowsKept, RowKept
<1> QED
  BY <1>2, <1>3, <1>4, <1>5 DEF RecoveryInv

LEMMA OperatorStepOK ==
  ASSUME RecoveryInv, OperatorStep
  PROVE  /\ RecoveryInv' /\ UNCHANGED leaseVars
         /\ RowsKept \/ \E d \in Device, secs \in LeaseSeconds : CreateRecovery(d, secs)
<1>0. /\ TypeOK /\ now \in Nat /\ retries \in Nat
      /\ request \in [Operator -> Request]
      /\ recovery_jobs \in [RecoveryJob -> RecoveryRow]
  BY DEF RecoveryInv, TypeOK, LeaseTypeOK
<1>1. ASSUME NEW d \in Device, NEW secs \in LeaseSeconds, CreateRecovery(d, secs)
      PROVE  RecoveryInv' /\ UNCHANGED leaseVars
  BY <1>1, EnqueueOK DEF CreateRecovery
<1>2. ASSUME NEW j \in RecoveryJob, CancelRecovery(j)
      PROVE  RecoveryInv' /\ UNCHANGED leaseVars /\ RowsKept
  <2>1. RowsKept
    BY <1>0, <1>2, SetStatusKeepsRows DEF CancelRecovery, Terminal
  <2> QED
    BY <1>0, <1>2, <2>1, RequestKeepsInv DEF CancelRecovery
<1>3. ASSUME NEW o \in Operator, NEW j \in RecoveryJob, BeginRetry(o, j)
      PROVE  RecoveryInv' /\ UNCHANGED leaseVars /\ RowsKept
  <2> DEFINE q == [job |-> j, status |-> recovery_jobs[j].status]
  <2>1. /\ q \in Request /\ q.job = j /\ recovery_jobs[j].status # "absent"
        /\ request' = [request EXCEPT ![o] = q] /\ retries' = retries + 1
        /\ UNCHANGED <<leaseVars, recovery_jobs, recoverer, events, crashes>>
    BY <1>0, <1>3 DEF BeginRetry, Request, IsActive, Active
  <2> HIDE DEF q
  <2>2. /\ request' \in [Operator -> Request] /\ request'[o] = q
        /\ \A p \in Operator \ {o} : request'[p] = request[p]
    BY <1>0, <2>1
  <2>3. RowsKept /\ retries' \in Nat
    BY <1>0, <2>1, UnchangedRowsKept
  <2> QED
    BY <2>1, <2>2, <2>3, RequestKeepsInv
<1>4. ASSUME NEW o \in Operator, FinishRetry(o)
      PROVE  RecoveryInv' /\ UNCHANGED leaseVars /\ RowsKept
  <2>1. request[o].job \in RecoveryJob /\ request[o].status \in Active
    BY <1>0, <1>4 DEF FinishRetry, RecoveryInv, RequestsOK, Request
  <2>2. RowsKept
    BY <1>0, <1>4, <2>1, SetStatusKeepsRows DEF FinishRetry
  <2>3. /\ request' \in [Operator -> Request] /\ request'[o] = NoRequest
        /\ \A p \in Operator \ {o} : request'[p] = request[p]
    BY <1>0, <1>4, IdleIsRecoverer DEF FinishRetry
  <2> QED
    BY <1>0, <1>4, <2>2, <2>3, RequestKeepsInv DEF FinishRetry
<1> QED
  BY <1>1, <1>2, <1>3, <1>4 DEF OperatorStep

(* A step of somebody else: of an operator, or of another user of the       *)
(* phones.                                                                  *)
LEMMA OthersKeepRecovery ==
  ASSUME RecoveryInv, LeaseTypeOK', ClockOK', now <= now', crashes' \in Nat,
         \A r \in RecoveryWorker : session[r] = NoSession => session'[r] = NoSession,
         UNCHANGED <<recovery_jobs, recoverer, request, events, retries>>
  PROVE  RecoveryInv'
<1>1. TypeOK' /\ RowsOK' /\ RequestsOK'
  BY DEF RecoveryInv, TypeOK, RowsOK, RequestsOK
<1>2. \A r \in RecoveryWorker : recoverer[r].current \in Nat /\ now \in Nat /\ now' \in Nat
  BY DEF RecoveryInv, TypeOK, Recoverer, LeaseTypeOK
<1>3. RecoverersOK'
  BY <1>2 DEF RecoveryInv, RecoverersOK
<1> QED
  BY <1>1, <1>3 DEF RecoveryInv

(* The worker and the API threads forget what they were doing. *)
LEMMA RecoveryForgets ==
  ASSUME RecoveryInv, LeaseTypeOK', ClockOK', UNCHANGED now, crashes' \in Nat,
         ForgetRecovery,
         \A r \in RecoveryWorker : session'[r] = NoSession
  PROVE  RecoveryInv'
<1>1. /\ recoverer' = [r \in RecoveryWorker |-> IdleRecoverer]
      /\ request' = [o \in Operator |-> NoRequest]
      /\ UNCHANGED <<recovery_jobs, events, retries>>
  BY DEF ForgetRecovery
<1>2. TypeOK' /\ RowsOK'
  BY <1>1, IdleIsRecoverer DEF RecoveryInv, TypeOK, RowsOK
<1>3. RecoverersOK'
  BY <1>1, IdleIsRecoverer DEF RecoverersOK, Holding, LeaseTypeOK
<1>4. RequestsOK'
  BY <1>1 DEF RequestsOK
<1> QED
  BY <1>2, <1>3, <1>4 DEF RecoveryInv

LEMMA ServerRestartsOK ==
  ASSUME RecoveryInv, ServerRestarts
  PROVE  RecoveryInv' /\ [Contract!Next]_(Contract!contractVars)
<1> USE RecoveryAssumption
<1>1. /\ LeaseTypeOK /\ EndSessions(RecoveryWorker) /\ ForgetRecovery /\ crashes' \in Nat
      /\ UNCHANGED <<now, registered, lease, serial>>
  BY DEF RecoveryInv, TypeOK, ServerRestarts
<1>2. /\ session' \in [Actor -> Session]
      /\ \A r \in RecoveryWorker : session'[r] = NoSession
  BY <1>1, EndSessionsType
<1>3. Contract!Next
  BY <1>1, EndSessionsIsStop
<1>4. LeaseTypeOK' /\ ClockOK'
  BY <1>1, <1>2 DEF RecoveryInv, LeaseTypeOK, ClockOK
<1> QED
  BY <1>1, <1>2, <1>3, <1>4, RecoveryForgets

LEMMA DevicesKeepRecovery ==
  ASSUME RecoveryInv, DevicesStep, UNCHANGED recoveryVars
  PROVE  RecoveryInv' /\ [Contract!Next]_(Contract!contractVars)
<1>1. /\ LeaseTypeOK' /\ ClockOK' /\ now <= now'
      /\ [Contract!Next]_(Contract!contractVars)
      /\ \A r \in RecoveryWorker : session[r] = NoSession => session'[r] = NoSession
  BY RecoveryAssumption, DevicesStepOK DEF RecoveryInv, TypeOK
<1>2. /\ UNCHANGED <<recovery_jobs, recoverer, request, events, retries>>
      /\ crashes' \in Nat
  BY DEF RecoveryInv, TypeOK, recoveryVars
<1> QED
  BY <1>1, <1>2, OthersKeepRecovery

(* The inductive step, and the step simulation of the refinement. *)
LEMMA RecoveryStepOK ==
  ASSUME OneThread, RecoveryInv, [Next]_vars
  PROVE  RecoveryInv' /\ [Contract!Next]_(Contract!contractVars)
<1>1. CASE OperatorStep
  BY <1>1, OperatorStepOK DEF leaseVars, Contract!contractVars
<1>2. ASSUME NEW r \in RecoveryWorker, RecovererStep(r)
      PROVE  RecoveryInv' /\ [Contract!Next]_(Contract!contractVars)
  BY <1>2, ClaimStepsOK, ProcessStepsOK DEF RecovererStep
<1>3. CASE ServerRestarts
  BY <1>3, ServerRestartsOK
<1>4. CASE DevicesStep /\ UNCHANGED recoveryVars
  BY <1>4, DevicesKeepRecovery
<1>5. CASE UNCHANGED vars
  BY <1>5
  DEF vars, leaseVars, recoveryVars, RecoveryInv, TypeOK, LeaseTypeOK, ClockOK, RowsOK,
      RecoverersOK, RequestsOK, Contract!contractVars
<1> QED
  BY <1>1, <1>2, <1>3, <1>4, <1>5 DEF Next, RecoveryStep

-----------------------------------------------------------------------------
(* Theorem: the types, and what the recovery thread and the retry requests  *)
(* know of the rows they hold, survive every step (recovery_worker.py,      *)
(* recovery_queue.py).                                                      *)
THEOREM RecoveryInvariant ==
  ASSUME OneThread
  PROVE  Spec => []RecoveryInv
<1>1. Init => RecoveryInv
  BY RecoveryInitOK
<1>2. RecoveryInv /\ [Next]_vars => RecoveryInv'
  BY RecoveryStepOK
<1> QED
  BY <1>1, <1>2, PTL DEF Spec

(* Theorem: every variable keeps its type. *)
THEOREM RecoveryTypes ==
  ASSUME OneThread
  PROVE  Spec => []TypeOK
<1>1. RecoveryInv => TypeOK
  BY DEF RecoveryInv
<1> QED
  BY <1>1, RecoveryInvariant, PTL

(* Theorem: the recovery thread, through crashes, failed calls, cancels and *)
(* retries, keeps the lease discipline that it shares with the senders      *)
(* (recovery_queue.py:147-230, recovery_worker.py:149-160).                 *)
THEOREM RecoveryImplementsContract ==
  ASSUME OneThread
  PROVE  Spec => ImplementsContract
<1>1. Init => Contract!Init
  BY LeaseInitOK DEF Init
<1>2. RecoveryInv /\ [Next]_vars => [Contract!Next]_(Contract!contractVars)
  BY RecoveryStepOK
<1>3. Spec => Contract!Spec
  BY <1>1, <1>2, RecoveryInvariant, PTL DEF Spec, Contract!Spec
<1> QED
  BY <1>3 DEF ImplementsContract

-----------------------------------------------------------------------------
(* What a step does to the table: it inserts one detected job for a phone   *)
(* without an active one, or it opens and reopens nothing.                  *)
OpensNothing ==
  \A j \in RecoveryJob :
    /\ recovery_jobs'[j].device = recovery_jobs[j].device
    /\ recovery_jobs'[j].status = "absent" => recovery_jobs[j].status = "absent"
    /\ recovery_jobs'[j].status \in Active => recovery_jobs[j].status \in Active
    /\ recovery_jobs[j].status \in Terminal => recovery_jobs'[j] = recovery_jobs[j]

Opens(d) ==
  \E j \in RecoveryJob :
    /\ ActiveOn(d) = {}
    /\ recovery_jobs[j].status = "absent"
    /\ recovery_jobs'[j].status = "detected"
    /\ recovery_jobs'[j].device = d
    /\ \A i \in RecoveryJob \ {j} : recovery_jobs'[i] = recovery_jobs[i]

LEMMA ClaimOpensNothing ==
  ASSUME RecoveryInv, NEW r \in RecoveryWorker, Claim(r)
  PROVE  OpensNothing
<1>1. PICK j \in First(Claimable(recoverer[r].current)) :
        recovery_jobs' =
          [i \in RecoveryJob |->
             IF i = j THEN [recovery_jobs[j] EXCEPT
                              !.worker = r, !.until = now + recovery_jobs[j].seconds]
             ELSE IF i \in Orphans(recoverer[r].current) /\ i < j
               THEN FailLocked(recovery_jobs[i])
             ELSE recovery_jobs[i]]
  BY DEF Claim
<1>2. j \in RecoveryJob /\ recovery_jobs[j].status \in Active
  BY DEF First, Claimable, DueJobs, IsActive
<1>3. \A i \in RecoveryJob : recovery_jobs[i] \in RecoveryRow
  BY DEF RecoveryInv, TypeOK
<1> SUFFICES ASSUME NEW i \in RecoveryJob
             PROVE  /\ recovery_jobs'[i].device = recovery_jobs[i].device
                    /\ recovery_jobs'[i].status = "absent" =>
                         recovery_jobs[i].status = "absent"
                    /\ recovery_jobs'[i].status \in Active =>
                         recovery_jobs[i].status \in Active
                    /\ recovery_jobs[i].status \in Terminal =>
                         recovery_jobs'[i] = recovery_jobs[i]
  BY DEF OpensNothing
<1>4. CASE i = j
  <2>1. recovery_jobs'[i] = [recovery_jobs[i] EXCEPT
                               !.worker = r, !.until = now + recovery_jobs[i].seconds]
    BY <1>1, <1>4
  <2> QED
    BY <1>2, <1>3, <1>4, <2>1 DEF RecoveryRow, Active, Terminal
<1>5. CASE recovery_jobs'[i] = recovery_jobs[i]
  BY <1>5
<1>6. CASE i \in Orphans(recoverer[r].current) /\ recovery_jobs'[i] = FailedRow(i)
  BY <1>6, FailLockedKeepsRow DEF RecoveryInv, Orphans, DueJobs, RowKept, IsActive
<1> QED
  BY <1>1, <1>4, <1>5, <1>6 DEF FailedRow

LEMMA StepOpens ==
  ASSUME OneThread, RecoveryInv, [Next]_vars
  PROVE  OpensNothing \/ \E d \in Device : Opens(d)
<1>1. RowsKept => OpensNothing
  BY DEF RowsKept, RowKept, OpensNothing
<1>2. UNCHANGED recovery_jobs => OpensNothing
  BY DEF OpensNothing
<1>3. CASE OperatorStep
  <2>1. ASSUME NEW d \in Device, NEW secs \in LeaseSeconds, CreateRecovery(d, secs)
        PROVE  OpensNothing \/ Opens(d)
    BY <1>2, <2>1, EnqueueRows DEF CreateRecovery, Opens
  <2> QED
    BY <1>1, <1>3, <2>1, OperatorStepOK
<1>4. ASSUME NEW r \in RecoveryWorker, RecovererStep(r)
      PROVE  OpensNothing
  BY <1>1, <1>4, ClaimStepsOK, ProcessStepsOK, ClaimOpensNothing DEF RecovererStep
<1>5. CASE ServerRestarts \/ UNCHANGED vars \/ (DevicesStep /\ UNCHANGED recoveryVars)
  BY <1>2, <1>5 DEF ServerRestarts, ForgetRecovery, vars, recoveryVars
<1> QED
  BY <1>3, <1>4, <1>5 DEF Next, RecoveryStep

LEMMA StepKeepsOneActive ==
  ASSUME RecoveryInv, OneActivePerDevice, OpensNothing \/ \E d \in Device : Opens(d)
  PROVE  OneActivePerDevice'
<1>1. CASE OpensNothing
  BY <1>1 DEF OpensNothing, OneActivePerDevice, IsActive
<1>2. ASSUME NEW d \in Device, Opens(d)
      PROVE  OneActivePerDevice'
  <2>1. PICK j \in RecoveryJob :
          /\ ActiveOn(d) = {}
          /\ recovery_jobs'[j].device = d
          /\ \A i \in RecoveryJob \ {j} : recovery_jobs'[i] = recovery_jobs[i]
    BY <1>2 DEF Opens
  <2>2. \A i \in RecoveryJob : IsActive(i) => recovery_jobs[i].device # d
    BY <2>1 DEF ActiveOn
  <2> QED
    BY <2>1, <2>2 DEF OneActivePerDevice, IsActive
<1> QED
  BY <1>1, <1>2

(* Theorem: a phone never has two recoveries in flight                      *)
(* (recovery_queue.py:121-137, 247-251).                                    *)
THEOREM OneRecoveryPerDevice ==
  ASSUME OneThread
  PROVE  Spec => []OneActivePerDevice
<1>1. Init => OneActivePerDevice
  BY IdleIsRecoverer DEF Init, RecoveryInit, OneActivePerDevice, IsActive, Active
<1>2. RecoveryInv /\ OneActivePerDevice /\ [Next]_vars => OneActivePerDevice'
  BY StepOpens, StepKeepsOneActive
<1> QED
  BY <1>1, <1>2, RecoveryInvariant, PTL DEF Spec

(* Theorem: no step writes to a recovery that has ended: a cancel that      *)
(* commits while the worker drives the phone stands                         *)
(* (recovery_queue.py:247-251).                                             *)
THEOREM RecoveryOutcomeIsFinal ==
  ASSUME OneThread
  PROVE  Spec => OutcomeIsFinal
<1>1. RecoveryInv /\ [Next]_vars =>
        [\A j \in RecoveryJob : recovery_jobs[j].status \in Terminal =>
           recovery_jobs'[j] = recovery_jobs[j]]_vars
  <2> SUFFICES ASSUME RecoveryInv, [Next]_vars, NEW j \in RecoveryJob,
                      recovery_jobs[j].status \in Terminal
               PROVE  recovery_jobs'[j] = recovery_jobs[j]
    OBVIOUS
  <2>1. CASE OpensNothing
    BY <2>1 DEF OpensNothing
  <2>2. ASSUME NEW d \in Device, Opens(d)
        PROVE  recovery_jobs'[j] = recovery_jobs[j]
    BY <2>2 DEF Opens, Terminal
  <2> QED
    BY <2>1, <2>2, StepOpens
<1> QED
  BY <1>1, RecoveryInvariant, PTL DEF Spec, OutcomeIsFinal

-----------------------------------------------------------------------------
(* The webhooks that report an end.  A job that is active, or that the      *)
(* thread has not reported yet, has none; the thread reports the status     *)
(* that the row has.                                                        *)
Unreported(j) ==
  events[j].session_recovered = 0 /\ events[j].session_recovery_failed = 0

Working == Holding \ {"releasing"}

EndsOK ==
  /\ \A j \in RecoveryJob :
       /\ recovery_jobs[j].status \in Active \cup {"absent"} => Unreported(j)
       /\ events[j].session_recovered <=
            IF recovery_jobs[j].status = "recovered" THEN 1 ELSE 0
       /\ events[j].session_recovery_failed <=
            IF recovery_jobs[j].status = "failed" THEN 1 ELSE 0
  /\ \A r \in RecoveryWorker :
       /\ recoverer[r].pc \in Working => Unreported(recoverer[r].job)
       /\ recoverer[r].pc = "notifying" =>
            /\ recoverer[r].verdict \in {"recovered", "failed"}
            /\ recovery_jobs[recoverer[r].job].status = recoverer[r].verdict

(* What the thread does next, when it reports nothing: it goes on with its  *)
(* job, or has claimed an active one, and it is about to report only what   *)
(* the row says.                                                            *)
GoesOn(r) ==
  /\ recoverer'[r].pc \in Working =>
       \/ recoverer[r].pc \in Working /\ recoverer'[r].job = recoverer[r].job
       \/ recoverer'[r].job \in RecoveryJob /\ IsActive(recoverer'[r].job)
  /\ recoverer'[r].pc = "notifying" =>
       \/ recoverer'[r] = recoverer[r]
       \/ /\ recoverer'[r].verdict \in {"recovered", "failed"}
          /\ recovery_jobs'[recoverer'[r].job].status = recoverer'[r].verdict

LEMMA EndsKept ==
  ASSUME RecoveryInv, RecoveryInv', EndsOK, OpensNothing \/ \E d \in Device : Opens(d),
         \A j \in RecoveryJob :
           /\ events'[j].session_recovered = events[j].session_recovered
           /\ events'[j].session_recovery_failed = events[j].session_recovery_failed,
         \A r \in RecoveryWorker : GoesOn(r)
  PROVE  EndsOK'
<1>1. \A j \in RecoveryJob :
        /\ recovery_jobs'[j].status = "absent" => recovery_jobs[j].status = "absent"
        /\ recovery_jobs'[j].status \in Active =>
             recovery_jobs[j].status \in Active \cup {"absent"}
        /\ recovery_jobs[j].status \in Terminal => recovery_jobs'[j] = recovery_jobs[j]
        /\ recovery_jobs[j].status \in Active \cup Terminal \cup {"absent"}
  BY DEF OpensNothing, Opens, Active, Terminal, RecoveryInv, TypeOK, RecoveryRow
<1>2. \A j \in RecoveryJob : Unreported(j) => Unreported(j)'
  BY DEF Unreported
<1>3. ASSUME NEW j \in RecoveryJob
      PROVE  /\ recovery_jobs'[j].status \in Active \cup {"absent"} => Unreported(j)'
             /\ events'[j].session_recovered <=
                  IF recovery_jobs'[j].status = "recovered" THEN 1 ELSE 0
             /\ events'[j].session_recovery_failed <=
                  IF recovery_jobs'[j].status = "failed" THEN 1 ELSE 0
  <2>1. CASE recovery_jobs[j].status \in Active \cup {"absent"}
    <3>1. Unreported(j)
      BY <2>1 DEF EndsOK
    <3> QED
      BY <1>2, <3>1 DEF Unreported
  <2>2. CASE recovery_jobs[j].status \in Terminal
    <3>1. recovery_jobs'[j] = recovery_jobs[j]
      BY <1>1, <2>2
    <3> QED
      BY <2>2, <3>1 DEF EndsOK, Active, Terminal
  <2> QED
    BY <1>1, <2>1, <2>2
<1>4. ASSUME NEW r \in RecoveryWorker
      PROVE  /\ recoverer'[r].pc \in Working => Unreported(recoverer[r].job)'
             /\ recoverer'[r].pc = "notifying" =>
                  /\ recoverer'[r].verdict \in {"recovered", "failed"}
                  /\ recovery_jobs'[recoverer'[r].job].status = recoverer'[r].verdict
  <2>1. GoesOn(r)
    OBVIOUS
  <2>2. recoverer[r].pc \in Working => recoverer[r].job \in RecoveryJob
    BY DEF RecoveryInv, RecoverersOK, Working
  <2>3. ASSUME recoverer'[r].pc \in Working
        PROVE  recoverer'[r].job \in RecoveryJob /\ Unreported(recoverer'[r].job)
    BY <2>1, <2>2, <2>3 DEF GoesOn, EndsOK, IsActive
  <2>4. recoverer'[r].pc \in Working => Unreported(recoverer[r].job)'
    BY <2>3 DEF Unreported
  <2>5. ASSUME recoverer'[r].pc = "notifying", recoverer'[r] = recoverer[r]
        PROVE  /\ recoverer'[r].verdict \in {"recovered", "failed"}
               /\ recovery_jobs'[recoverer'[r].job].status = recoverer'[r].verdict
    BY <1>1, <2>2, <2>5 DEF EndsOK, Working, Holding, Terminal
  <2> QED
    BY <2>1, <2>4, <2>5 DEF GoesOn
<1> QED
  BY <1>3, <1>4 DEF EndsOK

(* The UPDATE that a verdict ends in, once more: of the row of the job, and *)
(* with the outcome as its status if the job was active and it ends.        *)
LEMMA WriteOutcomeRow ==
  ASSUME RecoveryInv, NEW r \in RecoveryWorker, recoverer[r].pc \in {"deciding", "erring"},
         WriteOutcome(r)
  PROVE  LET j == recoverer[r].job IN
           /\ j \in RecoveryJob
           /\ Outcome(r) \notin {"detected", "cancelled"}
           /\ \A i \in RecoveryJob \ {j} : recovery_jobs'[i] = recovery_jobs[i]
           /\ ~IsActive(j) => recovery_jobs'[j] = recovery_jobs[j]
           /\ IsActive(j) =>
                /\ recovery_jobs'[j].status =
                     IF Outcome(r) = "retry" THEN recoverer[r].row.status ELSE Outcome(r)
                /\ recovery_jobs'[j].attempts =
                     recovery_jobs[j].attempts + IF Outcome(r) = "retry" THEN 1 ELSE 0
<1> DEFINE j == recoverer[r].job
<1>1. /\ TypeOK /\ now \in Nat /\ now + ReviewBackoff \in Nat
      /\ recoverer[r].job \in RecoveryJob
      /\ recoverer[r].row.status \in Active \cup Terminal
      /\ recovery_jobs[j].attempts \in Nat
  BY RecoveryAssumption
  DEF RecoveryInv, TypeOK, LeaseTypeOK, RecoverersOK, Holding, Recoverer, RecoveryRow
<1>o. Outcome(r) \notin {"detected", "cancelled"}
  BY DEF WriteOutcome
<1>2. CASE Outcome(r) = "retry"
  <2>1. UpdateActive(j, BumpRow(j, recoverer[r].row.status))
    BY <1>2 DEF WriteOutcome, BumpAttempt, BumpRow
  <2> QED
    BY <1>1, <1>o, <1>2, <2>1, BumpRowType, UpdateActiveRows
<1>3. CASE Outcome(r) # "retry"
  <2>1. PICK due \in Nat : /\ Outcome(r) \in Active \cup Terminal
                           /\ SetStatus(j, Outcome(r), due)
    BY <1>1, <1>3 DEF WriteOutcome, Active, Terminal
  <2>2. UpdateActive(j, StatusRow(j, Outcome(r), due))
    BY <2>1 DEF SetStatus, StatusRow
  <2> QED
    BY <1>1, <1>o, <1>3, <2>1, <2>2, StatusRowType, UpdateActiveRows
<1> QED
  BY <1>2, <1>3

(* What the steps that keep the job do to the worker's state. *)
LEMMA WorkerFields ==
  ASSUME RecoveryInv, NEW r \in RecoveryWorker
  PROVE  LET x == recoverer[r]
             y == recoverer'[r]
         IN  /\ Reread(r) =>
                  /\ x.pc = "claimed" /\ y.pc = "driving" /\ y.job = x.job
                  /\ y.row = recovery_jobs[x.job]
             /\ MarkRequestingReview(r) =>
                  /\ x.pc = "driving" /\ x.row.status = "detected"
                  /\ y.pc = "announcing" /\ y.job = x.job
                  /\ y.row.status = "requesting_review"
                  /\ y.row.attempts = x.row.attempts
             /\ LeaveTerminal(r) =>
                  x.pc = "driving" /\ y.pc = "releasing" /\ y.job = x.job /\ y.row = x.row
             /\ MarkRaises(r) \/ PhoneRaises(r) =>
                  x.pc = "driving" /\ y.pc = "erring" /\ y.job = x.job /\ y.row = x.row
             /\ AnnounceStarted(r) =>
                  x.pc = "announcing" /\ y.pc = "driving" /\ y.job = x.job /\ y.row = x.row
             /\ (\E screen \in Screen : SeeScreen(r, screen)) =>
                  /\ x.pc = "driving" /\ x.row.status \in Active \ {"detected"}
                  /\ y.pc = "deciding" /\ y.job = x.job /\ y.row = x.row
             /\ DecideRaises(r) =>
                  /\ x.pc \in {"deciding", "erring"} /\ y.job = x.job /\ y.row = x.row
                  /\ y.pc = IF x.pc = "deciding" THEN "erring" ELSE "releasing"
             /\ Decide(r) =>
                  /\ x.pc \in {"deciding", "erring"} /\ y.job = x.job /\ y.row = x.row
                  /\ y.verdict = Outcome(r)
                  /\ y.pc = IF Outcome(r) \in {"recovered", "failed"} /\ WritesStatus(r)
                              THEN "notifying" ELSE "releasing"
             /\ NotifyOutcome(r) =>
                  x.pc = "notifying" /\ y.pc = "releasing" /\ y.job = x.job /\ y.row = x.row
             /\ \/ BeginClaim(r) \/ ClaimNothing(r) \/ ClaimFails(r) \/ RereadFails(r)
                \/ Release(r) \/ ReleaseRaises(r)
                => /\ x.pc \in {"idle", "claiming", "claimed", "releasing"}
                   /\ y.pc \in {"idle", "claiming", "dead"}
             /\ Claim(r) =>
                  /\ x.pc = "claiming" /\ y.pc = "claimed"
                  /\ y.job \in RecoveryJob /\ IsActive(y.job)
<1>0. /\ recoverer \in [RecoveryWorker -> Recoverer] /\ recoverer[r] \in Recoverer
      /\ recoverer[r].row \in RecoveryRow
      /\ IdleRecoverer \in Recoverer /\ IdleRecoverer.pc = "idle"
  BY IdleIsRecoverer DEF RecoveryInv, TypeOK, Recoverer
<1>1. ASSUME Claim(r)
      PROVE  /\ recoverer[r].pc = "claiming" /\ recoverer'[r].pc = "claimed"
             /\ recoverer'[r].job \in RecoveryJob /\ IsActive(recoverer'[r].job)
  <2>1. PICK j \in First(Claimable(recoverer[r].current)) :
          recoverer' = [recoverer EXCEPT ![r] = [IdleRecoverer EXCEPT !.pc = "claimed",
                                                                      !.job = j]]
    BY <1>1 DEF Claim
  <2>2. j \in RecoveryJob /\ IsActive(j)
    BY DEF First, Claimable, DueJobs
  <2>3. recoverer'[r].job = j /\ recoverer'[r].pc = "claimed"
    BY <1>0, <2>1 DEF IdleRecoverer
  <2> QED
    BY <1>1, <2>2, <2>3 DEF Claim
<1> DEFINE x == recoverer[r]
           y == recoverer'[r]
<1>2. ASSUME Reread(r)
      PROVE  /\ x.pc = "claimed" /\ y.pc = "driving" /\ y.job = x.job
             /\ y.row = recovery_jobs[x.job]
  BY <1>0, <1>2 DEF Reread, Recoverer
<1>3. ASSUME MarkRequestingReview(r)
      PROVE  /\ x.pc = "driving" /\ x.row.status = "detected"
             /\ y.pc = "announcing" /\ y.job = x.job
             /\ y.row.status = "requesting_review"
             /\ y.row.attempts = x.row.attempts
  BY <1>0, <1>3 DEF MarkRequestingReview, Recoverer, RecoveryRow
<1>4. ASSUME LeaveTerminal(r)
      PROVE  x.pc = "driving" /\ y.pc = "releasing" /\ y.job = x.job /\ y.row = x.row
  BY <1>0, <1>4 DEF LeaveTerminal, GoTo, Recoverer
<1>5. ASSUME MarkRaises(r) \/ PhoneRaises(r)
      PROVE  x.pc = "driving" /\ y.pc = "erring" /\ y.job = x.job /\ y.row = x.row
  BY <1>0, <1>5 DEF MarkRaises, PhoneRaises, GoTo, Recoverer
<1>6. ASSUME AnnounceStarted(r)
      PROVE  x.pc = "announcing" /\ y.pc = "driving" /\ y.job = x.job /\ y.row = x.row
  BY <1>0, <1>6 DEF AnnounceStarted, GoTo, Recoverer
<1>7. ASSUME NEW screen \in Screen, SeeScreen(r, screen)
      PROVE  /\ x.pc = "driving" /\ x.row.status \in Active \ {"detected"}
             /\ y.pc = "deciding" /\ y.job = x.job /\ y.row = x.row
  BY <1>0, <1>7 DEF SeeScreen, Recoverer
<1>8. ASSUME DecideRaises(r)
      PROVE  /\ x.pc \in {"deciding", "erring"} /\ y.job = x.job /\ y.row = x.row
             /\ y.pc = IF x.pc = "deciding" THEN "erring" ELSE "releasing"
  BY <1>0, <1>8 DEF DecideRaises, Recoverer
<1>9. ASSUME Decide(r)
      PROVE  /\ x.pc \in {"deciding", "erring"} /\ y.job = x.job /\ y.row = x.row
             /\ y.verdict = Outcome(r)
             /\ y.pc = IF Outcome(r) \in {"recovered", "failed"} /\ WritesStatus(r)
                         THEN "notifying" ELSE "releasing"
  BY <1>0, <1>9 DEF Decide, Recoverer
<1>10. ASSUME NotifyOutcome(r)
       PROVE  x.pc = "notifying" /\ y.pc = "releasing" /\ y.job = x.job /\ y.row = x.row
  BY <1>0, <1>10 DEF NotifyOutcome, GoTo, Recoverer
<1>11. ASSUME \/ BeginClaim(r) \/ ClaimNothing(r) \/ ClaimFails(r) \/ RereadFails(r)
              \/ Release(r) \/ ReleaseRaises(r)
       PROVE  /\ x.pc \in {"idle", "claiming", "claimed", "releasing"}
              /\ y.pc \in {"idle", "claiming", "dead"}
  <2>1. CASE BeginClaim(r)
    BY <1>0, <2>1 DEF BeginClaim, Recoverer
  <2>2. CASE RereadFails(r)
    BY <1>0, <2>2 DEF RereadFails, Recoverer
  <2>3. CASE ClaimNothing(r) \/ ClaimFails(r) \/ Release(r) \/ ReleaseRaises(r)
    BY <1>0, <2>3 DEF ClaimNothing, ClaimFails, Release, ReleaseRaises
  <2> QED
    BY <1>11, <2>1, <2>2, <2>3
<1> QED
  BY <1>1, <1>2, <1>3, <1>4, <1>5, <1>6, <1>7, <1>8, <1>9, <1>10, <1>11

LEMMA DecideGoesOn ==
  ASSUME RecoveryInv, NEW r \in RecoveryWorker, Decide(r)
  PROVE  GoesOn(r)
<1>1. /\ recoverer[r].pc \in {"deciding", "erring"}
      /\ recoverer'[r].job = recoverer[r].job
      /\ recoverer'[r].verdict = Outcome(r)
      /\ recoverer'[r].pc = IF Outcome(r) \in {"recovered", "failed"} /\ WritesStatus(r)
                              THEN "notifying" ELSE "releasing"
  BY WorkerFields
<1>2. ASSUME Outcome(r) \in {"recovered", "failed"}, WritesStatus(r)
      PROVE  recovery_jobs'[recoverer[r].job].status = Outcome(r)
  BY <1>2, WriteOutcomeRow DEF Decide, WritesStatus
<1> QED
  BY <1>1, <1>2 DEF GoesOn, Working, Holding

LEMMA NotifyEnds ==
  ASSUME OneThread, RecoveryInv, EndsOK, NEW r \in RecoveryWorker, NotifyOutcome(r)
  PROVE  EndsOK'
<1> DEFINE j == recoverer[r].job
           event == IF recoverer[r].verdict = "recovered"
                      THEN "session_recovered" ELSE "session_recovery_failed"
<1>1. /\ recoverer[r].pc = "notifying"
      /\ events' = [events EXCEPT ![j][event] = @ + 1]
      /\ recoverer'[r].pc = "releasing"
      /\ recovery_jobs' = recovery_jobs
  BY DEF NotifyOutcome, Post, GoTo, RecoveryInv, TypeOK
<1>2. /\ j \in RecoveryJob /\ Unreported(j)
      /\ recoverer[r].verdict \in {"recovered", "failed"}
      /\ recovery_jobs[j].status = recoverer[r].verdict
  BY <1>1 DEF EndsOK, Working, Holding, RecoveryInv, RecoverersOK
<1>3. events \in [RecoveryJob -> [Event -> Nat]] /\ event \in Event
  BY DEF RecoveryInv, TypeOK, Event
<1>4. \A i \in RecoveryJob \ {j} : events'[i] = events[i]
  BY <1>1, <1>3
<1>5. /\ event = "session_recovered" =>
           events'[j].session_recovered = 1 /\ events'[j].session_recovery_failed = 0
      /\ event = "session_recovery_failed" =>
           events'[j].session_recovered = 0 /\ events'[j].session_recovery_failed = 1
  BY <1>1, <1>2, <1>3 DEF Event, Unreported
<1>6. \A i \in RecoveryJob :
        /\ recovery_jobs[i].status \in Active \cup {"absent"} => Unreported(i)'
        /\ events'[i].session_recovered <=
             IF recovery_jobs[i].status = "recovered" THEN 1 ELSE 0
        /\ events'[i].session_recovery_failed <=
             IF recovery_jobs[i].status = "failed" THEN 1 ELSE 0
  BY <1>2, <1>4, <1>5 DEF EndsOK, Unreported, Active
<1>7. \A s \in RecoveryWorker : recoverer'[s].pc = "releasing"
  BY <1>1 DEF OneThread
<1> QED
  BY <1>1, <1>6, <1>7 DEF EndsOK, Working

LEMMA WorkerEnds ==
  ASSUME OneThread, RecoveryInv, RecoveryInv', EndsOK, NEW r \in RecoveryWorker,
         RecovererStep(r), OpensNothing
  PROVE  EndsOK'
<1>1. CASE \/ BeginClaim(r) \/ ClaimNothing(r) \/ ClaimFails(r) \/ RereadFails(r)
           \/ Release(r) \/ ReleaseRaises(r) \/ Claim(r)
  <2>1. UNCHANGED events /\ GoesOn(r)
    BY <1>1, WorkerFields
    DEF BeginClaim, ClaimNothing, ClaimFails, RereadFails, Release, ReleaseRaises, Claim,
        GoesOn, Working, Holding
  <2> QED
    BY <2>1, EndsKept DEF OneThread
<1>2. CASE \/ Reread(r) \/ LeaveTerminal(r) \/ MarkRequestingReview(r) \/ MarkRaises(r)
           \/ \E screen \in Screen : SeeScreen(r, screen)
           \/ PhoneRaises(r)
           \/ DecideRaises(r)
  <2>1. UNCHANGED events
    BY <1>2
    DEF Reread, LeaveTerminal, MarkRequestingReview, MarkRaises, SeeScreen, PhoneRaises,
        DecideRaises
  <2>2. GoesOn(r)
    BY <1>2, WorkerFields DEF GoesOn, Working, Holding
  <2> QED
    BY <2>1, <2>2, EndsKept DEF OneThread
<1>3. CASE AnnounceStarted(r)
  <2>1. GoesOn(r)
    BY <1>3, WorkerFields DEF GoesOn, Working, Holding
  <2>2. \A j \in RecoveryJob :
          /\ events'[j].session_recovered = events[j].session_recovered
          /\ events'[j].session_recovery_failed = events[j].session_recovery_failed
    BY <1>3 DEF AnnounceStarted, Post, RecoveryInv, TypeOK, Event
  <2> QED
    BY <2>1, <2>2, EndsKept DEF OneThread
<1>4. CASE Decide(r)
  <2>1. UNCHANGED events /\ GoesOn(r)
    BY <1>4, DecideGoesOn DEF Decide
  <2> QED
    BY <2>1, EndsKept DEF OneThread
<1>5. CASE NotifyOutcome(r)
  BY <1>5, NotifyEnds
<1> QED
  BY <1>1, <1>2, <1>3, <1>4, <1>5 DEF RecovererStep

LEMMA EndsStep ==
  ASSUME OneThread, RecoveryInv, RecoveryInv', EndsOK, [Next]_vars
  PROVE  EndsOK'
<1>1. OpensNothing \/ \E d \in Device : Opens(d)
  BY StepOpens
<1>2. ASSUME UNCHANGED <<recoverer, events>>
      PROVE  EndsOK'
  <2>1. \A r \in RecoveryWorker : GoesOn(r)
    BY <1>2 DEF GoesOn
  <2> QED
    BY <1>1, <1>2, <2>1, EndsKept
<1>3. CASE OperatorStep
  BY <1>2, <1>3 DEF OperatorStep, CreateRecovery, CancelRecovery, BeginRetry, FinishRetry
<1>4. ASSUME NEW r \in RecoveryWorker, RecovererStep(r)
      PROVE  EndsOK'
  <2>1. OpensNothing
    BY <1>4, ClaimStepsOK, ProcessStepsOK, ClaimOpensNothing
    DEF RecovererStep, RowsKept, RowKept, OpensNothing
  <2> QED
    BY <1>4, <2>1, WorkerEnds
<1>5. CASE ServerRestarts
  <2>1. \A r \in RecoveryWorker : recoverer'[r].pc = "idle"
    BY <1>5, IdleIsRecoverer DEF ServerRestarts, ForgetRecovery
  <2>2. UNCHANGED events /\ \A r \in RecoveryWorker : GoesOn(r)
    BY <1>5, <2>1 DEF ServerRestarts, ForgetRecovery, GoesOn, Working, Holding
  <2> QED
    BY <1>1, <2>2, EndsKept
<1>6. CASE UNCHANGED vars \/ (DevicesStep /\ UNCHANGED recoveryVars)
  BY <1>2, <1>6 DEF vars, recoveryVars
<1> QED
  BY <1>3, <1>4, <1>5, <1>6 DEF Next, RecoveryStep

LEMMA EndsInit ==
  ASSUME Init
  PROVE  EndsOK
BY IdleIsRecoverer DEF Init, RecoveryInit, EndsOK, Unreported, Event, Working, Holding

-----------------------------------------------------------------------------
(* The attempts.  Only the UPDATE that a verdict ends in counts one; the    *)
(* thread's copy may lag by the one whose read-back raised.                 *)
Slack == IF DbMayFail THEN 1 ELSE 0

AttemptsOK ==
  /\ AttemptsBounded
  /\ \A r \in RecoveryWorker :
       /\ recoverer[r].pc \in {"driving", "announcing", "deciding"} =>
            recovery_jobs[recoverer[r].job].attempts <= recoverer[r].row.attempts
       /\ recoverer[r].pc = "erring" =>
            recovery_jobs[recoverer[r].job].attempts <= recoverer[r].row.attempts + Slack

AttemptsStay ==
  \A j \in RecoveryJob :
    \/ recovery_jobs'[j].attempts = recovery_jobs[j].attempts
    \/ recovery_jobs[j].status = "absent" /\ recovery_jobs'[j].attempts = 0

LEMMA SetStatusAttempts ==
  ASSUME TypeOK, NEW j \in RecoveryJob, NEW status \in Active \cup Terminal, NEW due \in Nat,
         SetStatus(j, status, due)
  PROVE  AttemptsStay
<1>1. UpdateActive(j, StatusRow(j, status, due))
  BY DEF SetStatus, StatusRow
<1> QED
  BY <1>1, StatusRowType, UpdateActiveRows DEF AttemptsStay

LEMMA OperatorAttempts ==
  ASSUME RecoveryInv, OperatorStep
  PROVE  AttemptsStay
<1>0. /\ TypeOK /\ now \in Nat /\ request \in [Operator -> Request]
  BY DEF RecoveryInv, TypeOK, LeaseTypeOK
<1>1. ASSUME NEW d \in Device, NEW secs \in LeaseSeconds, CreateRecovery(d, secs)
      PROVE  AttemptsStay
  BY <1>1, EnqueueRows DEF CreateRecovery, AttemptsStay
<1>2. ASSUME NEW j \in RecoveryJob, CancelRecovery(j)
      PROVE  AttemptsStay
  BY <1>0, <1>2, SetStatusAttempts DEF CancelRecovery, Terminal
<1>3. ASSUME NEW o \in Operator, NEW j \in RecoveryJob, BeginRetry(o, j)
      PROVE  AttemptsStay
  BY <1>3 DEF BeginRetry, AttemptsStay
<1>4. ASSUME NEW o \in Operator, FinishRetry(o)
      PROVE  AttemptsStay
  <2>1. request[o].job \in RecoveryJob /\ request[o].status \in Active
    BY <1>0, <1>4 DEF FinishRetry, RecoveryInv, RequestsOK, Request
  <2> QED
    BY <1>0, <1>4, <2>1, SetStatusAttempts DEF FinishRetry
<1> QED
  BY <1>1, <1>2, <1>3, <1>4 DEF OperatorStep

LEMMA ClaimAttempts ==
  ASSUME RecoveryInv, NEW r \in RecoveryWorker, Claim(r) \/ ClaimNothing(r)
  PROVE  AttemptsStay
<1>1. \A i \in RecoveryJob : recovery_jobs[i] \in RecoveryRow
  BY DEF RecoveryInv, TypeOK
<1>2. \A i \in RecoveryJob :
        /\ FailLocked(recovery_jobs[i]).attempts = recovery_jobs[i].attempts
        /\ \A w, u : [recovery_jobs[i] EXCEPT !.worker = w, !.until = u].attempts
                       = recovery_jobs[i].attempts
  BY <1>1 DEF FailLocked, RecoveryRow
<1>3. CASE ClaimNothing(r)
  BY <1>2, <1>3 DEF ClaimNothing, AttemptsStay
<1>4. CASE Claim(r)
  <2>1. PICK j \in First(Claimable(recoverer[r].current)) :
          recovery_jobs' =
            [i \in RecoveryJob |->
               IF i = j THEN [recovery_jobs[j] EXCEPT
                                !.worker = r, !.until = now + recovery_jobs[j].seconds]
               ELSE IF i \in Orphans(recoverer[r].current) /\ i < j
                 THEN FailLocked(recovery_jobs[i])
               ELSE recovery_jobs[i]]
    BY <1>4 DEF Claim
  <2> QED
    BY <1>2, <2>1 DEF AttemptsStay
<1> QED
  BY <1>3, <1>4

(* Every step of the thread but the two that write a verdict. *)
LEMMA WorkerAttempts ==
  ASSUME RecoveryInv, NEW r \in RecoveryWorker, RecovererStep(r),
         ~Decide(r), ~DecideRaises(r)
  PROVE  AttemptsStay
<1>0. /\ TypeOK /\ now \in Nat
      /\ recoverer[r].pc \in Holding => recoverer[r].job \in RecoveryJob
      /\ "requesting_review" \in Active
  BY DEF RecoveryInv, TypeOK, LeaseTypeOK, RecoverersOK, Active
<1>1. UNCHANGED recovery_jobs => AttemptsStay
  BY DEF AttemptsStay
<1>2. CASE Claim(r) \/ ClaimNothing(r)
  BY <1>2, ClaimAttempts
<1>3. CASE LeaveTerminal(r)
  <2>1. /\ recoverer[r].pc = "driving" /\ recoverer[r].row.status \in Terminal
        /\ BumpAttempt(recoverer[r].job, recoverer[r].row.status)
    BY <1>3 DEF LeaveTerminal
  <2>2. ~IsActive(recoverer[r].job)
    BY <2>1 DEF RecoveryInv, RecoverersOK, Holding, IsActive, Active, Terminal
  <2> QED
    BY <1>1, <2>1, <2>2 DEF BumpAttempt, UpdateActive
<1>4. CASE MarkRequestingReview(r) \/ MarkRaises(r)
  <2>1. /\ recoverer[r].pc = "driving"
        /\ \/ UNCHANGED recovery_jobs
           \/ SetStatus(recoverer[r].job, "requesting_review", now)
    BY <1>4 DEF MarkRequestingReview, MarkRaises
  <2> QED
    BY <1>0, <1>1, <2>1, SetStatusAttempts DEF Holding
<1> QED
  BY <1>1, <1>2, <1>3, <1>4
  DEF RecovererStep, BeginClaim, ClaimFails, Reread, RereadFails, AnnounceStarted, SeeScreen,
      PhoneRaises, NotifyOutcome, Release, ReleaseRaises

(* What the thread's copy is after such a step. *)
CopyGoesOn(r) ==
  recoverer'[r].pc \in {"driving", "announcing", "deciding", "erring"} =>
    /\ recoverer[r].pc \in Holding /\ recoverer'[r].job = recoverer[r].job
    /\ \/ /\ recoverer'[r].row.attempts = recovery_jobs[recoverer[r].job].attempts
       \/ /\ recoverer[r].pc \in {"driving", "announcing", "deciding"}
          /\ recoverer'[r].row.attempts = recoverer[r].row.attempts
       \/ /\ recoverer[r].pc = "erring" /\ recoverer'[r].pc = "erring"
          /\ recoverer'[r].row.attempts = recoverer[r].row.attempts

LEMMA AttemptsKept ==
  ASSUME RecoveryInv, RecoveryInv', AttemptsOK, AttemptsStay,
         \A r \in RecoveryWorker : CopyGoesOn(r)
  PROVE  AttemptsOK'
<1>1. AttemptsBounded'
  BY RecoveryAssumption DEF AttemptsOK, AttemptsBounded, AttemptsStay
<1>2. ASSUME NEW r \in RecoveryWorker,
             recoverer'[r].pc \in {"driving", "announcing", "deciding", "erring"}
      PROVE  /\ recoverer'[r].pc # "erring" =>
                  recovery_jobs'[recoverer'[r].job].attempts <= recoverer'[r].row.attempts
             /\ recovery_jobs'[recoverer'[r].job].attempts
                  <= recoverer'[r].row.attempts + Slack
  <2> DEFINE j == recoverer[r].job
  <2>1. /\ j \in RecoveryJob /\ recoverer'[r].job = j
        /\ recovery_jobs'[j].attempts = recovery_jobs[j].attempts
    BY <1>2 DEF CopyGoesOn, RecoveryInv, RecoverersOK, AttemptsStay
  <2>2. /\ recovery_jobs[j].attempts \in Nat /\ recoverer[r].row.attempts \in Nat
        /\ recoverer'[r].row.attempts \in Nat /\ Slack \in Nat
    BY <2>1 DEF RecoveryInv, TypeOK, Recoverer, RecoveryRow, Slack
  <2> QED
    BY <1>2, <2>1, <2>2 DEF CopyGoesOn, AttemptsOK
<1> QED
  BY <1>1, <1>2 DEF AttemptsOK

LEMMA WorkerKeepsAttempts ==
  ASSUME OneThread, RecoveryInv, RecoveryInv', AttemptsOK, NEW r \in RecoveryWorker,
         RecovererStep(r), ~Decide(r), ~DecideRaises(r)
  PROVE  AttemptsOK'
<1>1. CASE Reread(r) \/ MarkRequestingReview(r) \/ LeaveTerminal(r) \/ AnnounceStarted(r)
  BY <1>1, WorkerFields, WorkerAttempts, AttemptsKept DEF CopyGoesOn, Holding, OneThread
<1>2. CASE MarkRaises(r) \/ PhoneRaises(r) \/ \E screen \in Screen : SeeScreen(r, screen)
  BY <1>2, WorkerFields, WorkerAttempts, AttemptsKept DEF CopyGoesOn, Holding, OneThread
<1>3. CASE \/ BeginClaim(r) \/ ClaimNothing(r) \/ ClaimFails(r) \/ RereadFails(r)
           \/ Release(r) \/ ReleaseRaises(r) \/ Claim(r) \/ NotifyOutcome(r)
  BY <1>3, WorkerFields, WorkerAttempts, AttemptsKept DEF CopyGoesOn, OneThread
<1> QED
  BY <1>1, <1>2, <1>3 DEF RecovererStep

(* A verdict is written: if it counts an attempt, the copy has shown that   *)
(* the limit was not reached.                                               *)
LEMMA VerdictKeepsAttempts ==
  ASSUME OneThread, RecoveryInv, AttemptsOK, NEW r \in RecoveryWorker,
         Decide(r) \/ DecideRaises(r)
  PROVE  AttemptsOK'
<1> DEFINE j == recoverer[r].job
           copied == recoverer[r].row.attempts
<1>1. /\ j \in RecoveryJob /\ recovery_jobs[j].attempts \in Nat
      /\ recoverer[r].row.attempts \in Nat /\ MaxAttempts \in Nat
      /\ recoverer[r].pc \in {"deciding", "erring"}
  BY RecoveryAssumption
  DEF Decide, DecideRaises, RecoveryInv, TypeOK, RecoverersOK, Holding, Recoverer, RecoveryRow
<1>2. \/ UNCHANGED recovery_jobs
      \/ /\ \A i \in RecoveryJob \ {j} : recovery_jobs'[i] = recovery_jobs[i]
         /\ recovery_jobs'[j].attempts = recovery_jobs[j].attempts
      \/ /\ \A i \in RecoveryJob \ {j} : recovery_jobs'[i] = recovery_jobs[i]
         /\ recovery_jobs'[j].attempts = recovery_jobs[j].attempts + 1
         /\ copied + 1 < MaxAttempts
  <2>1. Outcome(r) = "retry" => copied + 1 < MaxAttempts
    BY <1>1 DEF Outcome
  <2> QED
    BY <1>1, <2>1, WriteOutcomeRow DEF Decide, DecideRaises
<1>3. /\ recoverer[r].pc = "deciding" => recovery_jobs[j].attempts <= copied
      /\ recoverer[r].pc = "erring" => recovery_jobs[j].attempts <= copied + Slack
  BY DEF AttemptsOK
<1>4. Slack \in {0, 1}
  BY DEF Slack
<1>5. AttemptsBounded'
  BY <1>1, <1>2, <1>3, <1>4 DEF AttemptsOK, AttemptsBounded, Slack
<1>6. CASE Decide(r)
  BY <1>5, <1>6, WorkerFields DEF AttemptsOK, OneThread
<1>7. CASE DecideRaises(r)
  <2>1. /\ recoverer'[r].job = j /\ recoverer'[r].row = recoverer[r].row
        /\ recoverer'[r].pc = IF recoverer[r].pc = "deciding" THEN "erring" ELSE "releasing"
        /\ Slack = 1
    BY <1>7, WorkerFields DEF DecideRaises, Slack
  <2>2. recoverer'[r].pc = "erring" => recovery_jobs'[j].attempts <= copied + Slack
    BY <1>1, <1>2, <1>3, <2>1
  <2> QED
    BY <1>1, <1>5, <2>1, <2>2 DEF AttemptsOK, OneThread
<1> QED
  BY <1>6, <1>7

LEMMA AttemptsStep ==
  ASSUME OneThread, RecoveryInv, RecoveryInv', AttemptsOK, [Next]_vars
  PROVE  AttemptsOK'
<1>1. ASSUME AttemptsStay, UNCHANGED recoverer
      PROVE  AttemptsOK'
  <2>1. \A r \in RecoveryWorker : CopyGoesOn(r)
    BY <1>1 DEF CopyGoesOn, Holding
  <2> QED
    BY <1>1, <2>1, AttemptsKept
<1>2. CASE OperatorStep
  BY <1>1, <1>2, OperatorAttempts
  DEF OperatorStep, CreateRecovery, CancelRecovery, BeginRetry, FinishRetry
<1>3. ASSUME NEW r \in RecoveryWorker, RecovererStep(r)
      PROVE  AttemptsOK'
  BY <1>3, WorkerKeepsAttempts, VerdictKeepsAttempts
<1>4. CASE ServerRestarts
  <2>1. \A r \in RecoveryWorker : recoverer'[r].pc = "idle"
    BY <1>4, IdleIsRecoverer DEF ServerRestarts, ForgetRecovery
  <2>2. AttemptsStay /\ \A r \in RecoveryWorker : CopyGoesOn(r)
    BY <1>4, <2>1 DEF ServerRestarts, ForgetRecovery, CopyGoesOn, AttemptsStay
  <2> QED
    BY <2>2, AttemptsKept
<1>5. CASE UNCHANGED vars \/ (DevicesStep /\ UNCHANGED recoveryVars)
  BY <1>1, <1>5 DEF vars, recoveryVars, AttemptsStay
<1> QED
  BY <1>2, <1>3, <1>4, <1>5 DEF Next, RecoveryStep

(* Theorem: the attempts of a recovery stay below the limit, although the   *)
(* thread compares in one step and the database counts in another; a read-  *)
(* back that raises lets it reach the limit, never pass it                  *)
(* (recovery_worker.py:265-276, recovery_queue.py:379-409).                 *)
THEOREM RecoveryAttemptsBounded ==
  ASSUME OneThread
  PROVE  Spec => []AttemptsBounded
<1>1. Init => AttemptsOK
  BY RecoveryAssumption, IdleIsRecoverer
  DEF Init, RecoveryInit, AttemptsOK, AttemptsBounded, NoRow
<1>2. RecoveryInv /\ RecoveryInv' /\ AttemptsOK /\ [Next]_vars => AttemptsOK'
  BY AttemptsStep
<1>3. AttemptsOK => AttemptsBounded
  BY DEF AttemptsOK
<1> QED
  BY <1>1, <1>2, <1>3, RecoveryInvariant, PTL DEF Spec

-----------------------------------------------------------------------------
(* The report of an end.  While every phone stays registered and no call    *)
(* fails, a verdict of the thread is all that makes a row recovered or      *)
(* failed.                                                                  *)
Ends == {"recovered", "failed"}
NoEnd ==
  \A j \in RecoveryJob :
    recovery_jobs'[j].status \in Ends => recovery_jobs'[j].status = recovery_jobs[j].status

LEMMA SetStatusEndsNothing ==
  ASSUME TypeOK, NEW j \in RecoveryJob, NEW status \in (Active \cup Terminal) \ Ends,
         NEW due \in Nat, SetStatus(j, status, due)
  PROVE  NoEnd
<1>1. UpdateActive(j, StatusRow(j, status, due))
  BY DEF SetStatus, StatusRow
<1> QED
  BY <1>1, StatusRowType, UpdateActiveRows DEF NoEnd

LEMMA OperatorEndsNothing ==
  ASSUME RecoveryInv, OperatorStep
  PROVE  NoEnd
<1>0. /\ TypeOK /\ now \in Nat /\ request \in [Operator -> Request]
      /\ Active \subseteq (Active \cup Terminal) \ Ends
      /\ "cancelled" \in (Active \cup Terminal) \ Ends
  BY DEF RecoveryInv, TypeOK, LeaseTypeOK, Active, Terminal, Ends
<1>1. ASSUME NEW d \in Device, NEW secs \in LeaseSeconds, CreateRecovery(d, secs)
      PROVE  NoEnd
  BY <1>1, EnqueueRows DEF CreateRecovery, NoEnd, Ends
<1>2. ASSUME NEW j \in RecoveryJob, CancelRecovery(j)
      PROVE  NoEnd
  BY <1>0, <1>2, SetStatusEndsNothing DEF CancelRecovery
<1>3. ASSUME NEW o \in Operator, NEW j \in RecoveryJob, BeginRetry(o, j)
      PROVE  NoEnd
  BY <1>3 DEF BeginRetry, NoEnd
<1>4. ASSUME NEW o \in Operator, FinishRetry(o)
      PROVE  NoEnd
  <2>1. request[o].job \in RecoveryJob /\ request[o].status \in Active
    BY <1>0, <1>4 DEF FinishRetry, RecoveryInv, RequestsOK, Request
  <2> QED
    BY <1>0, <1>4, <2>1, SetStatusEndsNothing DEF FinishRetry
<1> QED
  BY <1>1, <1>2, <1>3, <1>4 DEF OperatorStep

(* With every phone registered, a claim finds no orphan to fail. *)
LEMMA ClaimEndsNothing ==
  ASSUME RecoveryInv, registered = Device, NEW r \in RecoveryWorker,
         Claim(r) \/ ClaimNothing(r)
  PROVE  NoEnd
<1>1. \A i \in RecoveryJob : i \notin Orphans(recoverer[r].current)
  BY DEF Orphans, DueJobs, IsActive, RecoveryInv, RowsOK, Active
<1>2. CASE ClaimNothing(r)
  BY <1>1, <1>2 DEF ClaimNothing, NoEnd
<1>3. CASE Claim(r)
  <2>1. PICK j \in First(Claimable(recoverer[r].current)) :
          recovery_jobs' =
            [i \in RecoveryJob |->
               IF i = j THEN [recovery_jobs[j] EXCEPT
                                !.worker = r, !.until = now + recovery_jobs[j].seconds]
               ELSE IF i \in Orphans(recoverer[r].current) /\ i < j
                 THEN FailLocked(recovery_jobs[i])
               ELSE recovery_jobs[i]]
    BY <1>3 DEF Claim
  <2>2. \A i \in RecoveryJob :
          \A w, u : [recovery_jobs[i] EXCEPT !.worker = w, !.until = u].status
                      = recovery_jobs[i].status
    BY DEF RecoveryInv, TypeOK, RecoveryRow
  <2> QED
    BY <1>1, <2>1, <2>2 DEF NoEnd
<1> QED
  BY <1>2, <1>3

LEMMA WorkerEndsNothing ==
  ASSUME RecoveryInv, ~DbMayFail, registered = Device, NEW r \in RecoveryWorker,
         RecovererStep(r), ~Decide(r)
  PROVE  NoEnd
<1>0. /\ TypeOK /\ now \in Nat
      /\ recoverer[r].pc \in Holding => recoverer[r].job \in RecoveryJob
      /\ "requesting_review" \in (Active \cup Terminal) \ Ends
  BY DEF RecoveryInv, TypeOK, LeaseTypeOK, RecoverersOK, Active, Ends
<1>1. UNCHANGED recovery_jobs => NoEnd
  BY DEF NoEnd
<1>2. CASE Claim(r) \/ ClaimNothing(r)
  BY <1>2, ClaimEndsNothing
<1>3. CASE LeaveTerminal(r)
  <2>1. /\ recoverer[r].pc = "driving" /\ recoverer[r].row.status \in Terminal
        /\ BumpAttempt(recoverer[r].job, recoverer[r].row.status)
    BY <1>3 DEF LeaveTerminal
  <2>2. ~IsActive(recoverer[r].job)
    BY <2>1 DEF RecoveryInv, RecoverersOK, Holding, IsActive, Active, Terminal
  <2> QED
    BY <1>1, <2>1, <2>2 DEF BumpAttempt, UpdateActive
<1>4. CASE MarkRequestingReview(r)
  <2>1. /\ recoverer[r].pc = "driving"
        /\ SetStatus(recoverer[r].job, "requesting_review", now)
    BY <1>4 DEF MarkRequestingReview
  <2> QED
    BY <1>0, <2>1, SetStatusEndsNothing DEF Holding
<1>5. ~MarkRaises(r) /\ ~DecideRaises(r)
  BY DEF MarkRaises, DecideRaises
<1> QED
  BY <1>1, <1>2, <1>3, <1>4, <1>5
  DEF RecovererStep, BeginClaim, ClaimFails, Reread, RereadFails, AnnounceStarted, SeeScreen,
      PhoneRaises, NotifyOutcome, Release, ReleaseRaises

Reported == (~MayRemove => registered = Device) /\ OutcomeIsReported

(* No step but RemoveDevice deletes a device row. *)
LEMMA WorkerLeavesDevices ==
  ASSUME NEW r \in RecoveryWorker, RecovererStep(r)
  PROVE  UNCHANGED <<registered, request, retries, crashes>>
<1>1. CASE \/ BeginClaim(r) \/ Claim(r) \/ ClaimNothing(r) \/ ClaimFails(r)
           \/ Reread(r) \/ RereadFails(r)
  BY <1>1 DEF BeginClaim, Claim, ClaimNothing, ClaimFails, Reread, RereadFails, leaseVars
<1>2. CASE LeaveTerminal(r) \/ MarkRequestingReview(r) \/ MarkRaises(r) \/ AnnounceStarted(r)
  BY <1>2 DEF LeaveTerminal, MarkRequestingReview, MarkRaises, AnnounceStarted, leaseVars
<1>3. CASE \/ \E screen \in Screen : SeeScreen(r, screen)
           \/ PhoneRaises(r)
           \/ Decide(r) \/ DecideRaises(r) \/ NotifyOutcome(r)
           \/ Release(r) \/ ReleaseRaises(r)
  BY <1>3 DEF SeeScreen, PhoneRaises, Decide, DecideRaises, NotifyOutcome, Release,
              ReleaseRaises, leaseVars
<1> QED
  BY <1>1, <1>2, <1>3 DEF RecovererStep

LEMMA StepKeepsDevices ==
  ASSUME ~MayRemove, registered = Device, [Next]_vars
  PROVE  registered' = Device
<1>1. CASE OperatorStep
  BY <1>1 DEF OperatorStep, CreateRecovery, CancelRecovery, BeginRetry, FinishRetry, leaseVars
<1>2. CASE ServerRestarts \/ UNCHANGED vars
  BY <1>2 DEF ServerRestarts, vars, leaseVars
<1>3. CASE DevicesStep
  BY <1>3 DEF DevicesStep, Tick, UnlockDevice, UpdateDevice, RemoveDevice
<1> QED
  BY <1>1, <1>2, <1>3, WorkerLeavesDevices DEF Next, RecoveryStep

Count(j) == events[j].session_recovered + events[j].session_recovery_failed

(* The thread's verdict: its webhook comes next. *)
LEMMA DecideReports ==
  ASSUME OneThread, RecoveryInv, NEW r \in RecoveryWorker, Decide(r),
         NEW j \in RecoveryJob, recovery_jobs'[j].status \in Ends,
         recovery_jobs[j].status \in Ends =>
           \/ Count(j) = 1
           \/ \E s \in RecoveryWorker : recoverer[s].pc = "notifying" /\ recoverer[s].job = j
  PROVE  \/ Count(j)' = 1
         \/ \E s \in RecoveryWorker : recoverer'[s].pc = "notifying" /\ recoverer'[s].job = j
<1>1. /\ recoverer[r].pc \in {"deciding", "erring"} /\ recoverer'[r].job = recoverer[r].job
      /\ recoverer'[r].pc = IF Outcome(r) \in {"recovered", "failed"} /\ WritesStatus(r)
                              THEN "notifying" ELSE "releasing"
  BY WorkerFields
<1>2. Count(j)' = Count(j)
  BY DEF Decide, Count
<1>3. CASE recovery_jobs'[j] = recovery_jobs[j]
  BY <1>1, <1>2, <1>3 DEF OneThread
<1>4. CASE j = recoverer[r].job /\ IsActive(j)
  <2>1. recoverer[r].row.status \notin Ends
    BY <1>1, <1>4 DEF RecoveryInv, RecoverersOK, Holding, IsActive, Active, Terminal, Ends
  <2>2. Outcome(r) \in Ends
    BY <1>1, <1>4, <2>1, WriteOutcomeRow DEF Decide
  <2> QED
    BY <1>1, <1>4, <2>2 DEF WritesStatus, Ends
<1> QED
  BY <1>1, <1>3, <1>4, WriteOutcomeRow DEF Decide

LEMMA ReportedStep ==
  ASSUME OneThread, RecoveryInv, EndsOK, Reported, [Next]_vars
  PROVE  Reported'
<1>1. ~MayRemove => registered' = Device
  BY StepKeepsDevices DEF Reported
<1> SUFFICES ASSUME crashes' = 0, ~DbMayFail, ~MayRemove, NEW j \in RecoveryJob,
                    recovery_jobs'[j].status \in Ends
             PROVE  \/ Count(j)' = 1
                    \/ \E r \in RecoveryWorker :
                         recoverer'[r].pc = "notifying" /\ recoverer'[r].job = j
  BY <1>1 DEF Reported, OutcomeIsReported, Count, Ends
<1>2. ~ServerRestarts
  BY DEF ServerRestarts, RecoveryInv, TypeOK
<1>3. ASSUME NoEnd, UNCHANGED <<recoverer, events, crashes>>
      PROVE  \/ Count(j)' = 1
             \/ \E r \in RecoveryWorker :
                  recoverer'[r].pc = "notifying" /\ recoverer'[r].job = j
  BY <1>3 DEF NoEnd, Reported, OutcomeIsReported, Count, Ends
<1>4. CASE OperatorStep
  BY <1>3, <1>4, OperatorEndsNothing
  DEF OperatorStep, CreateRecovery, CancelRecovery, BeginRetry, FinishRetry
<1>5. CASE UNCHANGED vars \/ (DevicesStep /\ UNCHANGED recoveryVars)
  BY <1>3, <1>5 DEF vars, recoveryVars, NoEnd
<1>6. ASSUME NEW r \in RecoveryWorker, RecovererStep(r)
      PROVE  \/ Count(j)' = 1
             \/ \E s \in RecoveryWorker :
                  recoverer'[s].pc = "notifying" /\ recoverer'[s].job = j
  <2>1. /\ registered = Device
        /\ recovery_jobs[j].status \in Ends =>
             \/ Count(j) = 1
             \/ \E s \in RecoveryWorker : recoverer[s].pc = "notifying" /\ recoverer[s].job = j
    BY <1>6, WorkerLeavesDevices DEF Reported, OutcomeIsReported, Count, Ends
  <2>2. CASE Decide(r)
    BY <2>1, <2>2, DecideReports
  <2>3. CASE NotifyOutcome(r)
    <3>1. NoEnd
      BY <1>6, <2>1, <2>3, WorkerEndsNothing DEF Decide, NotifyOutcome
    <3>2. /\ recoverer[r].pc = "notifying" /\ Unreported(recoverer[r].job)
          /\ recoverer[r].job \in RecoveryJob
      BY <2>3 DEF NotifyOutcome, EndsOK, Working, Holding, RecoveryInv, RecoverersOK
    <3>3. PICK event \in {"session_recovered", "session_recovery_failed"} :
            events' = [events EXCEPT ![recoverer[r].job][event] = @ + 1]
      BY <2>3 DEF NotifyOutcome, Post
    <3>4. events \in [RecoveryJob -> [Event -> Nat]] /\ event \in Event
      BY DEF RecoveryInv, TypeOK, Event
    <3>5. CASE j = recoverer[r].job
      BY <3>2, <3>3, <3>4, <3>5 DEF Unreported, Count, Event
    <3>6. CASE j # recoverer[r].job
      <4>1. Count(j)' = Count(j)
        BY <3>3, <3>4, <3>6 DEF Count
      <4> QED
        BY <2>1, <3>1, <3>6, <4>1 DEF NoEnd, OneThread
    <3> QED
      BY <3>5, <3>6
  <2>4. CASE ~Decide(r) /\ ~NotifyOutcome(r)
    <3>1. NoEnd
      BY <1>6, <2>1, <2>4, WorkerEndsNothing
    <3>2. ~DecideRaises(r) /\ ~MarkRaises(r)
      BY DEF DecideRaises, MarkRaises
    <3>3. recoverer[r].pc # "notifying"
      BY <1>6, <2>4, <3>2, WorkerFields DEF RecovererStep
    <3>4. Count(j)' = Count(j)
      <4>1. CASE AnnounceStarted(r)
        BY <4>1 DEF AnnounceStarted, Post, RecoveryInv, TypeOK, Event, Count
      <4>2. CASE UNCHANGED events
        BY <4>2 DEF Count
      <4> QED
        BY <1>6, <2>4, <3>2, <4>1, <4>2
        DEF RecovererStep, BeginClaim, Claim, ClaimNothing, ClaimFails, Reread, RereadFails,
            LeaveTerminal, MarkRequestingReview, SeeScreen, PhoneRaises, Release, ReleaseRaises
    <3> QED
      BY <2>1, <3>1, <3>3, <3>4 DEF NoEnd, OneThread
  <2> QED
    BY <2>2, <2>3, <2>4
<1> QED
  BY <1>2, <1>4, <1>5, <1>6 DEF Next, RecoveryStep

(* Theorem: while no process dies, no call of the database fails and no     *)
(* device row is deleted, the end of a recovery is reported, once: the      *)
(* webhook was posted, or the thread is about to post it                    *)
(* (recovery_worker.py:279-288).                                            *)
THEOREM RecoveryOutcomeIsReported ==
  ASSUME OneThread
  PROVE  Spec => []OutcomeIsReported
<1>1. Init => EndsOK /\ Reported
  BY EndsInit, IdleIsRecoverer
  DEF Init, LeaseInit, RecoveryInit, Reported, OutcomeIsReported, NoRow
<1>2. RecoveryInv /\ RecoveryInv' /\ EndsOK /\ Reported /\ [Next]_vars => EndsOK' /\ Reported'
  BY EndsStep, ReportedStep
<1>3. Reported => OutcomeIsReported
  BY DEF Reported
<1> QED
  BY <1>1, <1>2, <1>3, RecoveryInvariant, PTL DEF Spec

-----------------------------------------------------------------------------
(* The webhook of the start.  What a job may still announce: the webhook    *)
(* that comes next, the `detected` that its row or the thread's copy says,  *)
(* and every retry request on its way that will write `detected` back.      *)
Started(j) == events[j].session_recovery_started
Announced(j) ==
  IF \E r \in RecoveryWorker : recoverer[r].pc = "announcing" /\ recoverer[r].job = j
    THEN 1 ELSE 0
Detected(j) ==
  IF \/ recovery_jobs[j].status = "detected"
     \/ \E r \in RecoveryWorker : /\ recoverer[r].pc \in {"driving", "erring"}
                                  /\ recoverer[r].row.status = "detected"
                                  /\ recoverer[r].job = j
    THEN 1 ELSE 0
PendingOn(j) == {o \in Operator : request[o].job = j /\ request[o].status = "detected"}

StartedOK ==
  /\ \A r \in RecoveryWorker :
       /\ recoverer[r].pc = "announcing" => recoverer[r].row.status # "detected"
       /\ recoverer[r].pc = "deciding" => recoverer[r].row.status # "detected"
  /\ \A j \in RecoveryJob :
       /\ recovery_jobs[j].status = "absent" => Started(j) = 0
       /\ IsFiniteSet(PendingOn(j))
       /\ Started(j) + Announced(j) + Detected(j) + Cardinality(PendingOn(j)) <= 1 + retries

StartedTyped ==
  \A j \in RecoveryJob :
    Started(j) \in Nat /\ Announced(j) \in {0, 1} /\ Detected(j) \in {0, 1}

LEMMA StartedTypes ==
  ASSUME RecoveryInv
  PROVE  StartedTyped /\ retries \in Nat
  BY DEF StartedTyped, Started, Announced, Detected, RecoveryInv, TypeOK, Event

(* A job that announces no more than before, with no new retry on its way. *)
LEMMA OwedKept ==
  ASSUME RecoveryInv, RecoveryInv', NEW j \in RecoveryJob,
         IsFiniteSet(PendingOn(j)),
         Started(j) + Announced(j) + Detected(j) + Cardinality(PendingOn(j)) <= 1 + retries,
         Started(j)' + Announced(j)' + Detected(j)' <= Started(j) + Announced(j) + Detected(j),
         PendingOn(j)' \subseteq PendingOn(j), retries' >= retries
  PROVE  /\ IsFiniteSet(PendingOn(j)')
         /\ Started(j)' + Announced(j)' + Detected(j)' + Cardinality(PendingOn(j)')
              <= 1 + retries'
<1>1. /\ IsFiniteSet(PendingOn(j)')
      /\ Cardinality(PendingOn(j)') <= Cardinality(PendingOn(j))
  BY FS_Subset
<1>2. Cardinality(PendingOn(j)) \in Nat /\ Cardinality(PendingOn(j)') \in Nat
  BY <1>1, FS_CardinalityType
<1>3. /\ Started(j) \in Nat /\ Announced(j) \in Nat /\ Detected(j) \in Nat /\ retries \in Nat
      /\ Started(j)' \in Nat /\ Announced(j)' \in Nat /\ Detected(j)' \in Nat
      /\ retries' \in Nat
  <2>1. StartedTyped /\ retries \in Nat
    BY StartedTypes
  <2>2. StartedTyped' /\ retries' \in Nat
    BY DEF StartedTyped, Started, Announced, Detected, RecoveryInv, TypeOK, Event
  <2> QED
    BY <2>1, <2>2 DEF StartedTyped
<1> QED
  BY <1>1, <1>2, <1>3

(* A status that an UPDATE leaves, or the one it writes. *)
LEMMA SetStatusStatuses ==
  ASSUME TypeOK, NEW j \in RecoveryJob, NEW status \in Active \cup Terminal, NEW due \in Nat,
         SetStatus(j, status, due)
  PROVE  /\ \A i \in RecoveryJob \ {j} : recovery_jobs'[i].status = recovery_jobs[i].status
         /\ recovery_jobs'[j].status = IF IsActive(j) THEN status ELSE recovery_jobs[j].status
<1>1. UpdateActive(j, StatusRow(j, status, due))
  BY DEF SetStatus, StatusRow
<1> QED
  BY <1>1, StatusRowType, UpdateActiveRows

(* The thread writes `detected` only over a job of which its copy says so. *)
LEMMA WorkerDetects ==
  ASSUME RecoveryInv, NEW r \in RecoveryWorker, RecovererStep(r), NEW i \in RecoveryJob,
         recovery_jobs'[i].status = "detected", recovery_jobs[i].status # "detected"
  PROVE  /\ recoverer[r].pc \in {"deciding", "erring"} /\ recoverer[r].job = i
         /\ recoverer[r].row.status = "detected"
         /\ Decide(r) \/ DecideRaises(r)
<1>0. /\ TypeOK /\ now \in Nat
      /\ recoverer[r].pc \in Holding => recoverer[r].job \in RecoveryJob
      /\ "requesting_review" \in Active
  BY DEF RecoveryInv, TypeOK, LeaseTypeOK, RecoverersOK, Active
<1>1. ~Claim(r) /\ ~ClaimNothing(r)
  <2>1. \A k \in RecoveryJob :
          /\ FailLocked(recovery_jobs[k]).status = "failed"
          /\ \A w, u : [recovery_jobs[k] EXCEPT !.worker = w, !.until = u].status
                         = recovery_jobs[k].status
    BY DEF FailLocked, RecoveryRow, RecoveryInv, TypeOK
  <2>2. ASSUME Claim(r)
        PROVE  FALSE
    <3>1. PICK j \in First(Claimable(recoverer[r].current)) :
            recovery_jobs' =
              [k \in RecoveryJob |->
                 IF k = j THEN [recovery_jobs[j] EXCEPT
                                  !.worker = r, !.until = now + recovery_jobs[j].seconds]
                 ELSE IF k \in Orphans(recoverer[r].current) /\ k < j
                   THEN FailLocked(recovery_jobs[k])
                 ELSE recovery_jobs[k]]
      BY <2>2 DEF Claim
    <3> QED
      BY <2>1, <3>1
  <2> QED
    BY <2>1, <2>2 DEF ClaimNothing
<1>2. ~LeaveTerminal(r)
  <2> SUFFICES ASSUME LeaveTerminal(r)
               PROVE  FALSE
    OBVIOUS
  <2>1. /\ recoverer[r].pc = "driving" /\ recoverer[r].row.status \in Terminal
        /\ BumpAttempt(recoverer[r].job, recoverer[r].row.status)
    BY DEF LeaveTerminal
  <2>2. ~IsActive(recoverer[r].job)
    BY <2>1 DEF RecoveryInv, RecoverersOK, Holding, IsActive, Active, Terminal
  <2> QED
    BY <2>1, <2>2 DEF BumpAttempt, UpdateActive
<1>3. ~MarkRequestingReview(r) /\ ~MarkRaises(r)
  BY <1>0, SetStatusStatuses DEF MarkRequestingReview, MarkRaises, Holding
<1>4. Decide(r) \/ DecideRaises(r)
  BY <1>1, <1>2, <1>3
  DEF RecovererStep, BeginClaim, ClaimFails, Reread, RereadFails, AnnounceStarted, SeeScreen,
      PhoneRaises, NotifyOutcome, Release, ReleaseRaises
<1> QED
  BY <1>4, WriteOutcomeRow DEF Decide, DecideRaises

(* What the thread has not announced, in a step that announces nothing.     *)
CopyQuiet(r) ==
  /\ recoverer'[r].pc # "announcing"
  /\ recoverer'[r].pc = "deciding" => recoverer'[r].row.status # "detected"
  /\ (recoverer'[r].pc \in {"driving", "erring"} /\ recoverer'[r].row.status = "detected") =>
       /\ recoverer[r].pc \in Holding
       /\ recoverer'[r].job = recoverer[r].job
       /\ \/ recovery_jobs[recoverer[r].job].status = "detected"
          \/ /\ recoverer[r].pc \in {"driving", "erring"}
             /\ recoverer[r].row.status = "detected"

LEMMA QuietWorkerStarts ==
  ASSUME OneThread, RecoveryInv, RecoveryInv', StartedOK, NEW r \in RecoveryWorker,
         RecovererStep(r), OpensNothing, CopyQuiet(r),
         \A j \in RecoveryJob : Started(j)' = Started(j)
  PROVE  StartedOK'
<1>1. \A s \in RecoveryWorker : s = r
  BY DEF OneThread
<1>2. UNCHANGED <<request, retries>> /\ retries \in Nat
  BY WorkerLeavesDevices, StartedTypes
<1>3. ASSUME NEW j \in RecoveryJob
      PROVE  /\ recovery_jobs'[j].status = "absent" => Started(j)' = 0
             /\ IsFiniteSet(PendingOn(j)')
             /\ Started(j)' + Announced(j)' + Detected(j)' + Cardinality(PendingOn(j)')
                  <= 1 + retries'
  <2>1. Announced(j)' = 0 /\ Announced(j) \in {0, 1} /\ Detected(j) \in {0, 1}
        /\ Detected(j)' \in {0, 1}
    BY <1>1 DEF Announced, Detected, CopyQuiet
  <2>2. ASSUME recovery_jobs'[j].status = "detected"
        PROVE  Detected(j) = 1
    <3>1. CASE recovery_jobs[j].status = "detected"
      BY <3>1 DEF Detected
    <3>2. CASE recovery_jobs[j].status # "detected"
      BY <2>2, <3>2, WorkerDetects DEF Detected, StartedOK
    <3> QED
      BY <3>1, <3>2
  <2>3. ASSUME recoverer'[r].pc \in {"driving", "erring"},
               recoverer'[r].row.status = "detected", recoverer'[r].job = j
        PROVE  Detected(j) = 1
    BY <2>3 DEF CopyQuiet, Detected
  <2>4. Detected(j)' <= Detected(j)
    BY <1>1, <2>1, <2>2, <2>3 DEF Detected
  <2>5. Started(j) \in Nat /\ Started(j)' = Started(j)
    BY StartedTypes DEF StartedTyped
  <2>6. Started(j)' + Announced(j)' + Detected(j)' <= Started(j) + Announced(j) + Detected(j)
    BY <2>1, <2>4, <2>5
  <2>7. PendingOn(j)' = PendingOn(j)
    BY <1>2 DEF PendingOn
  <2>8. recovery_jobs'[j].status = "absent" => Started(j)' = 0
    BY <2>5 DEF OpensNothing, StartedOK
  <2> QED
    BY <1>2, <2>6, <2>7, <2>8, OwedKept DEF StartedOK
<1> QED
  BY <1>1, <1>3 DEF StartedOK, CopyQuiet

(* The steps that announce: the mark, and the webhook itself. *)
LEMMA AnnouncingStarts ==
  ASSUME OneThread, RecoveryInv, RecoveryInv', StartedOK, NEW r \in RecoveryWorker,
         RecovererStep(r), OpensNothing, MarkRequestingReview(r) \/ AnnounceStarted(r)
  PROVE  StartedOK'
<1>0. recoverer[r].job \in RecoveryJob /\ recovery_jobs[recoverer[r].job].status # "absent"
  BY WorkerFields DEF RecoveryInv, RecoverersOK, Holding
<1> PICK k \in RecoveryJob : k = recoverer[r].job
  BY <1>0
<1>1. \A s \in RecoveryWorker : s = r
  BY DEF OneThread
<1>2. UNCHANGED <<request, retries>> /\ retries \in Nat
  BY WorkerLeavesDevices, StartedTypes
<1>3. /\ k \in RecoveryJob /\ recovery_jobs[k].status # "absent"
      /\ recoverer'[r].job = k /\ recoverer'[r].row.status # "detected"
      /\ recoverer'[r].pc \in {"announcing", "driving"}
  BY <1>0, WorkerFields DEF StartedOK
<1>4. \A j \in RecoveryJob :
        recovery_jobs'[j].status = "detected" => recovery_jobs[j].status = "detected"
  BY WorkerDetects, WorkerFields
<1>5. \A j \in RecoveryJob \ {k} :
        Started(j)' = Started(j) /\ Announced(j)' = 0 /\ Detected(j)' <= Detected(j)
  <2>1. \A j \in RecoveryJob \ {k} : events'[j] = events[j]
    BY <1>3 DEF MarkRequestingReview, AnnounceStarted, Post, RecoveryInv, TypeOK
  <2> QED
    BY <1>1, <1>3, <1>4, <2>1 DEF Started, Announced, Detected
<1>6. Started(k)' + Announced(k)' + Detected(k)' <= Started(k) + Announced(k) + Detected(k)
  <2>1. Started(k) \in Nat /\ Announced(k) \in {0, 1} /\ Detected(k) \in {0, 1}
    BY <1>3, StartedTypes DEF StartedTyped
  <2>2. CASE MarkRequestingReview(r)
    <3>1. Detected(k) = 1
      BY <2>2, WorkerFields DEF Detected
    <3>2. Started(k)' = Started(k) /\ Announced(k)' = 1
      BY <1>3, <2>2, WorkerFields DEF MarkRequestingReview, Started, Announced
    <3>3. recovery_jobs'[k].status # "detected"
      <4>1. SetStatus(k, "requesting_review", now) /\ now \in Nat /\ TypeOK
        BY <2>2 DEF MarkRequestingReview, RecoveryInv, TypeOK, LeaseTypeOK
      <4> QED
        BY <1>3, <4>1, SetStatusStatuses DEF IsActive, Active
    <3>4. Detected(k)' = 0
      BY <1>1, <1>3, <3>3 DEF Detected
    <3> QED
      BY <2>1, <3>1, <3>2, <3>4
  <2>3. CASE AnnounceStarted(r)
    <3>1. Announced(k) = 1
      BY <2>3, WorkerFields DEF Announced
    <3>2. Announced(k)' = 0
      BY <1>1, <2>3, WorkerFields DEF Announced
    <3>3. Started(k)' = Started(k) + 1
      BY <1>3, <2>3 DEF AnnounceStarted, Post, Started, RecoveryInv, TypeOK, Event
    <3>4. Detected(k)' <= Detected(k)
      BY <1>1, <1>3, <1>4 DEF Detected
    <3>5. Detected(k)' \in {0, 1}
      BY DEF Detected
    <3> QED
      BY <2>1, <3>1, <3>2, <3>3, <3>4, <3>5
  <2> QED
    BY <2>2, <2>3
<1>7. ASSUME NEW j \in RecoveryJob
      PROVE  /\ recovery_jobs'[j].status = "absent" => Started(j)' = 0
             /\ IsFiniteSet(PendingOn(j)')
             /\ Started(j)' + Announced(j)' + Detected(j)' + Cardinality(PendingOn(j)')
                  <= 1 + retries'
  <2>1. /\ Started(j) \in Nat /\ Announced(j) \in {0, 1} /\ Detected(j) \in {0, 1}
        /\ Detected(j)' \in {0, 1}
    BY StartedTypes DEF StartedTyped, Detected
  <2>2. Started(j)' + Announced(j)' + Detected(j)' <= Started(j) + Announced(j) + Detected(j)
    <3>1. CASE j = k
      BY <1>6, <3>1
    <3>2. CASE j # k
      BY <1>5, <2>1, <3>2
    <3> QED
      BY <3>1, <3>2
  <2>3. PendingOn(j)' = PendingOn(j)
    BY <1>2 DEF PendingOn
  <2>4. recovery_jobs'[j].status = "absent" => Started(j)' = 0
    BY <1>3, <1>5 DEF OpensNothing, StartedOK
  <2> QED
    BY <1>2, <2>2, <2>3, <2>4, OwedKept DEF StartedOK
<1>8. recoverer'[r].pc # "deciding"
  BY <1>3
<1> QED
  BY <1>1, <1>3, <1>7, <1>8 DEF StartedOK

LEMMA WorkerStarts ==
  ASSUME OneThread, RecoveryInv, RecoveryInv', StartedOK, NEW r \in RecoveryWorker,
         RecovererStep(r), OpensNothing
  PROVE  StartedOK'
<1>1. CASE MarkRequestingReview(r) \/ AnnounceStarted(r)
  BY <1>1, AnnouncingStarts
<1>2. CASE ~MarkRequestingReview(r) /\ ~AnnounceStarted(r)
  <2>1. CopyQuiet(r)
    <3>1. CASE Reread(r) \/ LeaveTerminal(r) \/ MarkRaises(r) \/ PhoneRaises(r)
      BY <3>1, WorkerFields DEF CopyQuiet, Holding
    <3>2. CASE (\E screen \in Screen : SeeScreen(r, screen)) \/ NotifyOutcome(r)
      BY <3>2, WorkerFields DEF CopyQuiet
    <3>3. CASE DecideRaises(r) \/ Decide(r)
      BY <3>3, WorkerFields DEF CopyQuiet, StartedOK
    <3>4. CASE \/ BeginClaim(r) \/ ClaimNothing(r) \/ ClaimFails(r) \/ RereadFails(r)
               \/ Release(r) \/ ReleaseRaises(r) \/ Claim(r)
      BY <3>4, WorkerFields DEF CopyQuiet
    <3> QED
      BY <1>2, <3>1, <3>2, <3>3, <3>4 DEF RecovererStep
  <2>2. \A j \in RecoveryJob : Started(j)' = Started(j)
    <3>1. CASE NotifyOutcome(r)
      BY <3>1 DEF NotifyOutcome, Post, Started, RecoveryInv, TypeOK, Event
    <3>2. CASE UNCHANGED events
      BY <3>2 DEF Started
    <3> QED
      BY <1>2, <3>1, <3>2
      DEF RecovererStep, BeginClaim, Claim, ClaimNothing, ClaimFails, Reread, RereadFails,
          LeaveTerminal, MarkRaises, SeeScreen, PhoneRaises, Decide, DecideRaises, Release,
          ReleaseRaises
  <2> QED
    BY <2>1, <2>2, QuietWorkerStarts
<1> QED
  BY <1>1, <1>2

(* The requests of the API, by what they do to one job. *)
LEMMA OperatorStarts ==
  ASSUME RecoveryInv, RecoveryInv', StartedOK, OperatorStep
  PROVE  StartedOK'
<1>0. /\ TypeOK /\ now \in Nat /\ request \in [Operator -> Request] /\ retries \in Nat
      /\ UNCHANGED <<recoverer, events>>
  BY DEF RecoveryInv, TypeOK, LeaseTypeOK, OperatorStep, CreateRecovery, CancelRecovery,
         BeginRetry, FinishRetry
<1>s. \A j \in RecoveryJob : Started(j)' = Started(j) /\ Announced(j)' = Announced(j)
  BY <1>0 DEF Started, Announced
<1>t. \A j \in RecoveryJob :
        /\ Started(j) \in Nat /\ Announced(j) \in {0, 1} /\ Detected(j) \in {0, 1}
        /\ Detected(j)' \in {0, 1}
  BY StartedTypes DEF StartedTyped, Detected
<1> SUFFICES ASSUME NEW j \in RecoveryJob
             PROVE  /\ recovery_jobs'[j].status = "absent" => Started(j)' = 0
                    /\ IsFiniteSet(PendingOn(j)')
                    /\ Started(j)' + Announced(j)' + Detected(j)' + Cardinality(PendingOn(j)')
                         <= 1 + retries'
  BY <1>0 DEF StartedOK
<1>1. ASSUME recovery_jobs'[j].status = "absent" => recovery_jobs[j].status = "absent",
             recovery_jobs'[j].status = "detected" => recovery_jobs[j].status = "detected",
             UNCHANGED <<request, retries>>
      PROVE  /\ recovery_jobs'[j].status = "absent" => Started(j)' = 0
             /\ IsFiniteSet(PendingOn(j)')
             /\ Started(j)' + Announced(j)' + Detected(j)' + Cardinality(PendingOn(j)')
                  <= 1 + retries'
  <2>1. Detected(j)' <= Detected(j)
    BY <1>0, <1>1 DEF Detected
  <2>2. PendingOn(j)' = PendingOn(j)
    BY <1>1 DEF PendingOn
  <2>3. Started(j)' + Announced(j)' + Detected(j)' <= Started(j) + Announced(j) + Detected(j)
    BY <1>s, <1>t, <2>1
  <2> QED
    BY <1>0, <1>1, <1>s, <2>2, <2>3, OwedKept DEF StartedOK
<1>2. ASSUME NEW d \in Device, NEW secs \in LeaseSeconds, CreateRecovery(d, secs)
      PROVE  /\ recovery_jobs'[j].status = "absent" => Started(j)' = 0
             /\ IsFiniteSet(PendingOn(j)')
             /\ Started(j)' + Announced(j)' + Detected(j)' + Cardinality(PendingOn(j)')
                  <= 1 + retries'
  <2>1. UNCHANGED <<request, retries>> /\ EnqueueRecovery(d, secs)
    BY <1>2 DEF CreateRecovery
  <2>2. CASE recovery_jobs'[j].status = recovery_jobs[j].status
    BY <1>1, <2>1, <2>2
  <2>3. CASE recovery_jobs'[j].status # recovery_jobs[j].status
    <3>1. recovery_jobs[j].status = "absent" /\ recovery_jobs'[j].status = "detected"
      BY <2>1, <2>3, EnqueueRows
    <3>2. Started(j) = 0
      BY <3>1 DEF StartedOK
    <3>3. Announced(j) = 0
      BY <3>1 DEF Announced, RecoveryInv, RecoverersOK, Holding
    <3>4. PendingOn(j)' = {}
      BY <2>1, <3>1 DEF PendingOn, RecoveryInv, RequestsOK, NoRequest, RecoveryJob
    <3> QED
      BY <1>0, <1>s, <1>t, <2>1, <3>1, <3>2, <3>3, <3>4, FS_EmptySet
  <2> QED
    BY <2>2, <2>3
<1>3. ASSUME NEW k \in RecoveryJob, CancelRecovery(k)
      PROVE  /\ recovery_jobs'[j].status = "absent" => Started(j)' = 0
             /\ IsFiniteSet(PendingOn(j)')
             /\ Started(j)' + Announced(j)' + Detected(j)' + Cardinality(PendingOn(j)')
                  <= 1 + retries'
  <2>1. UNCHANGED <<request, retries>> /\ SetStatus(k, "cancelled", 0)
    BY <1>3 DEF CancelRecovery
  <2>2. "cancelled" \in Active \cup Terminal
    BY DEF Terminal
  <2> QED
    BY <1>0, <1>1, <2>1, <2>2, SetStatusStatuses
<1>4. ASSUME NEW o \in Operator, NEW k \in RecoveryJob, BeginRetry(o, k)
      PROVE  /\ recovery_jobs'[j].status = "absent" => Started(j)' = 0
             /\ IsFiniteSet(PendingOn(j)')
             /\ Started(j)' + Announced(j)' + Detected(j)' + Cardinality(PendingOn(j)')
                  <= 1 + retries'
  <2>1. /\ retries' = retries + 1 /\ recovery_jobs' = recovery_jobs
        /\ \A p \in Operator \ {o} : request'[p] = request[p]
    BY <1>0, <1>4 DEF BeginRetry
  <2>2. PendingOn(j)' \subseteq PendingOn(j) \cup {o}
    BY <2>1 DEF PendingOn
  <2>3. /\ IsFiniteSet(PendingOn(j) \cup {o})
        /\ Cardinality(PendingOn(j) \cup {o}) \in Nat
        /\ Cardinality(PendingOn(j) \cup {o}) <= Cardinality(PendingOn(j)) + 1
        /\ Cardinality(PendingOn(j)) \in Nat
    <3>1. IsFiniteSet(PendingOn(j))
      BY DEF StartedOK
    <3>2. Cardinality(PendingOn(j)) \in Nat
      BY <3>1, FS_CardinalityType
    <3>3. /\ IsFiniteSet(PendingOn(j) \cup {o})
          /\ Cardinality(PendingOn(j) \cup {o}) =
               IF o \in PendingOn(j) THEN Cardinality(PendingOn(j))
               ELSE Cardinality(PendingOn(j)) + 1
      BY <3>1, FS_AddElement
    <3> QED
      BY <3>2, <3>3
  <2>4. /\ IsFiniteSet(PendingOn(j)')
        /\ Cardinality(PendingOn(j)') <= Cardinality(PendingOn(j) \cup {o})
        /\ Cardinality(PendingOn(j)') \in Nat
    BY <2>2, <2>3, FS_Subset, FS_CardinalityType
  <2>5. Detected(j)' = Detected(j)
    BY <1>0, <2>1 DEF Detected
  <2>6. Started(j) + Announced(j) + Detected(j) + Cardinality(PendingOn(j)) <= 1 + retries
    BY DEF StartedOK
  <2>7. Started(j)' + Announced(j)' + Detected(j)' + Cardinality(PendingOn(j)') <= 1 + retries'
    BY <1>0, <1>s, <1>t, <2>1, <2>3, <2>4, <2>5, <2>6
  <2> QED
    BY <1>s, <2>1, <2>4, <2>7 DEF StartedOK
<1>5. ASSUME NEW o \in Operator, FinishRetry(o)
      PROVE  /\ recovery_jobs'[j].status = "absent" => Started(j)' = 0
             /\ IsFiniteSet(PendingOn(j)')
             /\ Started(j)' + Announced(j)' + Detected(j)' + Cardinality(PendingOn(j)')
                  <= 1 + retries'
  <2> DEFINE k == request[o].job
             status == request[o].status
  <2>1. /\ k \in RecoveryJob /\ status \in Active /\ retries' = retries
        /\ SetStatus(k, status, now)
        /\ request' = [request EXCEPT ![o] = NoRequest]
    BY <1>0, <1>5 DEF FinishRetry, RecoveryInv, RequestsOK, Request
  <2>2. /\ \A i \in RecoveryJob \ {k} : recovery_jobs'[i].status = recovery_jobs[i].status
        /\ recovery_jobs'[k].status = IF IsActive(k) THEN status ELSE recovery_jobs[k].status
    BY <1>0, <2>1, SetStatusStatuses
  <2>3. /\ request'[o] = NoRequest
        /\ \A p \in Operator \ {o} : request'[p] = request[p]
    BY <1>0, <2>1
  <2>4. j \notin {NoRequest.job}
    BY DEF RecoveryJob, NoRequest
  <2>5. PendingOn(j)' = PendingOn(j) \ {o}
    BY <2>3, <2>4 DEF PendingOn
  <2>6. recovery_jobs'[j].status = "absent" => Started(j)' = 0
    BY <1>s, <2>1, <2>2 DEF StartedOK, Active
  <2>7. Started(j) + Announced(j) + Detected(j) + Cardinality(PendingOn(j)) <= 1 + retries
        /\ IsFiniteSet(PendingOn(j)) /\ Cardinality(PendingOn(j)) \in Nat
    BY FS_CardinalityType DEF StartedOK
  <2>8. CASE o \in PendingOn(j)
    <3>1. /\ IsFiniteSet(PendingOn(j)')
          /\ Cardinality(PendingOn(j)') = Cardinality(PendingOn(j)) - 1
      BY <2>5, <2>7, <2>8, FS_RemoveElement
    <3>2. Detected(j)' <= Detected(j) + 1
      BY <1>t
    <3> QED
      BY <1>0, <1>s, <1>t, <2>1, <2>6, <2>7, <3>1, <3>2
  <2>9. CASE o \notin PendingOn(j)
    <3>1. recovery_jobs'[j].status = "detected" => recovery_jobs[j].status = "detected"
      BY <2>2, <2>9 DEF PendingOn
    <3>2. Detected(j)' <= Detected(j)
      BY <1>0, <3>1 DEF Detected
    <3>3. Started(j)' + Announced(j)' + Detected(j)' <= Started(j) + Announced(j) + Detected(j)
      BY <1>s, <1>t, <3>2
    <3>4. PendingOn(j)' \subseteq PendingOn(j)
      BY <2>5
    <3> QED
      BY <1>0, <2>1, <2>6, <2>7, <3>3, <3>4, OwedKept
  <2> QED
    BY <2>8, <2>9
<1> QED
  BY <1>2, <1>3, <1>4, <1>5 DEF OperatorStep

LEMMA RestartStarts ==
  ASSUME RecoveryInv, RecoveryInv', StartedOK, ServerRestarts
  PROVE  StartedOK'
<1>1. /\ \A r \in RecoveryWorker : recoverer'[r].pc = "idle"
      /\ UNCHANGED <<recovery_jobs, events, retries>>
      /\ request' = [o \in Operator |-> NoRequest]
      /\ retries \in Nat
  BY IdleIsRecoverer, StartedTypes DEF ServerRestarts, ForgetRecovery
<1>2. ASSUME NEW j \in RecoveryJob
      PROVE  /\ recovery_jobs'[j].status = "absent" => Started(j)' = 0
             /\ IsFiniteSet(PendingOn(j)')
             /\ Started(j)' + Announced(j)' + Detected(j)' + Cardinality(PendingOn(j)')
                  <= 1 + retries'
  <2>1. /\ Started(j)' = Started(j) /\ Announced(j)' = 0 /\ Detected(j)' <= Detected(j)
        /\ Started(j) \in Nat /\ Announced(j) \in {0, 1} /\ Detected(j) \in {0, 1}
        /\ Detected(j)' \in {0, 1}
    BY <1>1, StartedTypes DEF StartedTyped, Started, Announced, Detected
  <2>2. PendingOn(j)' = {}
    BY <1>1 DEF PendingOn, RecoveryJob, NoRequest
  <2>3. Started(j)' + Announced(j)' + Detected(j)' <= Started(j) + Announced(j) + Detected(j)
    BY <2>1
  <2>4. /\ IsFiniteSet(PendingOn(j))
        /\ Started(j) + Announced(j) + Detected(j) + Cardinality(PendingOn(j)) <= 1 + retries
        /\ recovery_jobs[j].status = "absent" => Started(j) = 0
    BY DEF StartedOK
  <2>5. PendingOn(j)' \subseteq PendingOn(j) /\ retries' >= retries
    BY <1>1, <2>2
  <2>6. /\ IsFiniteSet(PendingOn(j)')
        /\ Started(j)' + Announced(j)' + Detected(j)' + Cardinality(PendingOn(j)')
             <= 1 + retries'
    BY <2>3, <2>4, <2>5, OwedKept
  <2> QED
    BY <1>1, <2>1, <2>4, <2>6
<1> QED
  BY <1>1, <1>2 DEF StartedOK

LEMMA StartedStep ==
  ASSUME OneThread, RecoveryInv, RecoveryInv', StartedOK, [Next]_vars
  PROVE  StartedOK'
<1>1. ASSUME NEW r \in RecoveryWorker, RecovererStep(r)
      PROVE  StartedOK'
  <2>1. OpensNothing
    BY <1>1, ClaimStepsOK, ProcessStepsOK, ClaimOpensNothing
    DEF RecovererStep, RowsKept, RowKept, OpensNothing
  <2> QED
    BY <1>1, <2>1, WorkerStarts
<1>2. CASE UNCHANGED vars \/ (DevicesStep /\ UNCHANGED recoveryVars)
  BY <1>2 DEF vars, recoveryVars, StartedOK, Started, Announced, Detected, PendingOn
<1> QED
  BY <1>1, <1>2, OperatorStarts, RestartStarts DEF Next, RecoveryStep

LEMMA StartedInit ==
  ASSUME Init
  PROVE  StartedOK
<1>1. /\ \A r \in RecoveryWorker : recoverer[r].pc = "idle"
      /\ \A j \in RecoveryJob : recovery_jobs[j].status = "absent" /\ Started(j) = 0
      /\ retries = 0
  BY IdleIsRecoverer DEF Init, RecoveryInit, Started, Event
<1>2. \A j \in RecoveryJob : Announced(j) = 0 /\ Detected(j) = 0 /\ PendingOn(j) = {}
  BY <1>1 DEF Init, RecoveryInit, Announced, Detected, PendingOn, RecoveryJob, NoRequest
<1> QED
  BY <1>1, <1>2, FS_EmptySet DEF StartedOK

(* Theorem: a webhook that reports an end reports the status the row ended  *)
(* in, once; and the start is announced once, plus at most once for each    *)
(* retry request (recovery_worker.py:199-206, 279-288).                     *)
THEOREM RecoveryEventsAreTrue ==
  ASSUME OneThread
  PROVE  Spec => []EventsAreTrue
<1>1. Init => EndsOK /\ StartedOK
  BY EndsInit, StartedInit
<1>2. RecoveryInv /\ RecoveryInv' /\ EndsOK /\ StartedOK /\ [Next]_vars => EndsOK' /\ StartedOK'
  BY EndsStep, StartedStep
<1>3. RecoveryInv /\ EndsOK /\ StartedOK => EventsAreTrue
  <2> SUFFICES ASSUME RecoveryInv, EndsOK, StartedOK, NEW j \in RecoveryJob
               PROVE  events[j].session_recovery_started <= 1 + retries
    BY DEF EndsOK, EventsAreTrue
  <2>1. /\ Started(j) \in Nat /\ Announced(j) \in {0, 1} /\ Detected(j) \in {0, 1}
        /\ retries \in Nat
    BY StartedTypes DEF StartedTyped
  <2>2. /\ Started(j) + Announced(j) + Detected(j) + Cardinality(PendingOn(j)) <= 1 + retries
        /\ Cardinality(PendingOn(j)) \in Nat
    BY FS_CardinalityType DEF StartedOK
  <2> QED
    BY <2>1, <2>2 DEF Started
<1> QED
  BY <1>1, <1>2, <1>3, RecoveryInvariant, PTL DEF Spec

-----------------------------------------------------------------------------
(* What a step of the recovery leaves alone: the clock, the set of device   *)
(* rows, the count of deaths and the phones of everybody else.              *)
LEMMA RecoveryLeavesOthers ==
  ASSUME RecoveryInv, RecoveryStep
  PROVE  /\ UNCHANGED <<now, registered, crashes>>
         /\ \A a \in Actor \ RecoveryWorker : session'[a] = session[a]
<1> USE DEF leaseVars
<1>0. session \in [Actor -> Session]
  BY DEF RecoveryInv, TypeOK, LeaseTypeOK
<1>1. CASE OperatorStep
  BY <1>1 DEF OperatorStep, CreateRecovery, CancelRecovery, BeginRetry, FinishRetry
<1>2. ASSUME NEW r \in RecoveryWorker, RecovererStep(r)
      PROVE  UNCHANGED now /\ \A a \in Actor \ {r} : session'[a] = session[a]
  <2>1. CASE \/ BeginClaim(r) \/ Claim(r) \/ ClaimNothing(r) \/ ClaimFails(r)
             \/ Reread(r) \/ RereadFails(r)
    BY <1>0, <2>1
    DEF BeginClaim, Claim, ClaimNothing, ClaimFails, Reread, RereadFails, TakeLease,
        EndSessions
  <2>2. CASE LeaveTerminal(r) \/ MarkRequestingReview(r) \/ MarkRaises(r) \/ AnnounceStarted(r)
    BY <2>2 DEF LeaveTerminal, MarkRequestingReview, MarkRaises, AnnounceStarted, EndSessions
  <2>3. CASE \/ \E screen \in Screen : SeeScreen(r, screen)
             \/ PhoneRaises(r)
             \/ Decide(r) \/ DecideRaises(r) \/ NotifyOutcome(r)
             \/ Release(r) \/ ReleaseRaises(r)
    BY <2>3 DEF SeeScreen, PhoneRaises, Decide, DecideRaises, NotifyOutcome, Release,
                ReleaseRaises, EndSessions
  <2> QED
    BY <1>2, <2>1, <2>2, <2>3 DEF RecovererStep
<1> QED
  BY <1>1, <1>2, WorkerLeavesDevices DEF RecoveryStep

(* Nor does it write to a device row more than its lease columns. *)
LEMMA RecoveryLeavesSerials ==
  ASSUME RecoveryStep
  PROVE  UNCHANGED serial
<1> USE DEF leaseVars
<1>1. CASE OperatorStep
  BY <1>1 DEF OperatorStep, CreateRecovery, CancelRecovery, BeginRetry, FinishRetry
<1>2. ASSUME NEW r \in RecoveryWorker, RecovererStep(r)
      PROVE  UNCHANGED serial
  BY <1>2
  DEF RecovererStep, BeginClaim, Claim, ClaimNothing, ClaimFails, Reread, RereadFails,
      LeaveTerminal, MarkRequestingReview, MarkRaises, AnnounceStarted, SeeScreen,
      PhoneRaises, Decide, DecideRaises, NotifyOutcome, Release, ReleaseRaises
<1> QED
  BY <1>1, <1>2 DEF RecoveryStep
=============================================================================
