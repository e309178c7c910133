----------------------------- MODULE DeviceLease -----------------------------
(***************************************************************************)
(* The `devices` table as the claims see it (adb_automation/devices.py):   *)
(* which rows exist, the lease columns worker_id / locked_until, the adb   *)
(* serial a row resolves to, and the operations on them.  Times are ticks  *)
(* of one clock, the seconds of now_iso(); the ISO strings the code        *)
(* compares order the same way.  A NULL locked_until is 0.                 *)
(*                                                                         *)
(* Worker ids are the actors themselves: queue-<host>-<pid>-<n>,           *)
(* recovery-<host>-<pid> and <host>-<pid> are distinct by construction,    *)
(* and a CLI --worker-id is assumed not to collide with them.              *)
(***************************************************************************)
EXTENDS Naturals

CONSTANTS Device,        \* ids of the phones registered at the start
          Actor,         \* worker ids
          Nobody,        \* NULL
          LeaseSeconds,  \* the lease lengths a job or a command may ask for
          MaxTime,       \* bound on the clock
          MaxEdits,      \* bound on the edits of one device row
          MayUnlock,     \* may the operator run `devices unlock`?
          MayRemove      \* may the operator delete a device row by hand?

ASSUME DeviceLeaseAssumption ==
  /\ Nobody \notin Actor /\ Nobody \notin Device
  /\ LeaseSeconds \subseteq Nat \ {0}
  /\ MaxTime \in Nat /\ MaxEdits \in Nat
  /\ MayUnlock \in BOOLEAN /\ MayRemove \in BOOLEAN

VARIABLES now,         \* the clock
          registered,  \* the rows of `devices` that exist
          lease,       \* lease[d] = [worker |-> worker_id, until |-> locked_until]
          serial,      \* serial[d]: which adb endpoint the row names; each edit is a new one
          session      \* history: the use of a phone that an actor's last lease started

leaseVars == <<now, registered, lease, serial, session>>

NoLease == [worker |-> Nobody, until |-> 0]
NoSession == [device |-> Nobody, until |-> 0, revoked |-> FALSE]

Lease == [worker : Actor \cup {Nobody}, until : Nat]
Session == [device : Device \cup {Nobody}, until : Nat, revoked : BOOLEAN]

LeaseTypeOK ==
  /\ now \in Nat
  /\ registered \in SUBSET Device
  /\ lease \in [Device -> Lease]
  /\ serial \in [Device -> Nat]
  /\ session \in [Actor -> Session]

LeaseInit ==
  /\ now = 0
  /\ registered = Device
  /\ lease = [d \in Device |-> NoLease]
  /\ serial = [d \in Device |-> 0]
  /\ session = [a \in Actor |-> NoSession]

-----------------------------------------------------------------------------
(* Mutant: a lease counts as ended one tick early. *)
LockActiveShort(d, current) == lease[d].until > current + 1

(* Mutant: any lease that was not released counts, run out or not. *)
LockActiveUntilCleared(d, current) == lease[d].until # 0

(* lock_is_active: NULL is inactive, and a lease that ends at `current` has *)
(* ended.                                                                   *)
LockActive(d, current) == lease[d].until > current

(* The UPDATE that writes worker_id and locked_until in the claim's         *)
(* transaction.                                                             *)
TakeLease(a, d, until) ==
  /\ lease' = [lease EXCEPT ![d] = [worker |-> a, until |-> until]]
  /\ session' = [session EXCEPT ![a] = [device |-> d, until |-> until, revoked |-> FALSE]]

(* Mutant: the UPDATE matches the row by id alone. *)
ReleaseLeaseById(a, d, until) == lease' = [lease EXCEPT ![d] = NoLease]

(* release_device_lease: UPDATE ... WHERE id AND worker_id AND locked_until *)
(* match, so a lease that has changed hands since is left alone.            *)
ReleaseLease(a, d, until) ==
  lease' = IF lease[d] = [worker |-> a, until |-> until]
             THEN [lease EXCEPT ![d] = NoLease]
             ELSE lease

(* The actors in A no longer drive a phone. *)
EndSessions(A) ==
  session' = [a \in Actor |-> IF a \in A THEN NoSession ELSE session[a]]

(* The sessions on d lose the lease that covers them. *)
RevokeSessions(d) ==
  session' = [a \in Actor |->
                [session[a] EXCEPT !.revoked = @ \/ session[a].device = d]]

-----------------------------------------------------------------------------
Tick ==
  /\ now < MaxTime
  /\ now' = now + 1
  /\ UNCHANGED <<registered, lease, serial, session>>

(* `devices unlock`: clears the lease whoever holds it. *)
UnlockDevice(d) ==
  /\ MayUnlock
  /\ d \in registered
  /\ lease[d] # NoLease
  /\ lease' = [lease EXCEPT ![d] = NoLease]
  /\ RevokeSessions(d)
  /\ UNCHANGED <<now, registered, serial>>

(* Mutant: edits of a locked device are not refused. *)
UpdateDeviceAnytime(d) ==
  /\ d \in registered
  /\ serial[d] < MaxEdits
  /\ serial' = [serial EXCEPT ![d] = @ + 1]
  /\ UNCHANGED <<now, registered, lease, session>>

(* update_device, from PUT /api/devices/<id>: refused with DeviceLockError  *)
(* while the lock is active; otherwise the row may name another endpoint.   *)
UpdateDevice(d) ==
  /\ d \in registered
  /\ ~LockActive(d, now)
  /\ serial[d] < MaxEdits
  /\ serial' = [serial EXCEPT ![d] = @ + 1]
  /\ UNCHANGED <<now, registered, lease, session>>

(* The program never deletes a device; the operator may, in the database,   *)
(* and the claims have a branch for it.                                     *)
RemoveDevice(d) ==
  /\ MayRemove
  /\ d \in registered
  /\ registered' = registered \ {d}
  /\ lease' = [lease EXCEPT ![d] = NoLease]
  /\ RevokeSessions(d)
  /\ UNCHANGED <<now, serial>>

DevicesStep ==
  \/ Tick
  \/ \E d \in Device : UnlockDevice(d) \/ UpdateDevice(d) \/ RemoveDevice(d)

-----------------------------------------------------------------------------
(* The instants a lease may run to. *)
LeaseEnds == {t + s : t \in 0..MaxTime, s \in LeaseSeconds}

Contract == INSTANCE LeaseContract WITH LeaseEnd <- LeaseEnds
=============================================================================
