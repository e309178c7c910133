---------------------------- MODULE LeaseContract ----------------------------
(***************************************************************************)
(* What the device lease promises its users, whoever they are: queue       *)
(* workers, one-off CLI sends and the recovery worker all take a phone     *)
(* through the worker_id / locked_until columns of `devices`, and this     *)
(* module states the discipline they rely on.  The detailed modules        *)
(* SendQueue, Recovery and AutomationSystem are shown to implement it.     *)
(*                                                                         *)
(* A lease is a promise with an end: it is exclusive until the instant     *)
(* `until`, unless the operator revokes it.  It does not promise that a    *)
(* phone has one user: a user whose lease ran out is not told to stop.     *)
(***************************************************************************)
EXTENDS Naturals

CONSTANTS Device,   \* the phones
          Actor,    \* who may lease a phone, by worker id
          Nobody,   \* the NULL of the lease columns
          LeaseEnd  \* the instants a lease may run to

(* What a user of this module must know of its constants. *)
ContractAssumption == Nobody \notin Device /\ LeaseEnd \subseteq Nat

VARIABLES now,      \* the clock
          lease,    \* lease[d]: the lease columns of phone d
          session   \* session[a]: the use of a phone that a's last lease started

contractVars == <<now, lease, session>>

Free == [worker |-> Nobody, until |-> 0]
NoSession == [device |-> Nobody, until |-> 0, revoked |-> FALSE]

ContractTypeOK ==
  /\ now \in Nat
  /\ lease \in [Device -> [worker : Actor \cup {Nobody}, until : Nat]]
  /\ session \in [Actor -> [device : Device \cup {Nobody}, until : Nat,
                            revoked : BOOLEAN]]

Init ==
  /\ now \in Nat
  /\ lease = [d \in Device |-> Free]
  /\ session = [a \in Actor |-> NoSession]

-----------------------------------------------------------------------------
(* A phone is taken only when its lease is NULL or has run out. *)
Acquire(a, d, u) ==
  /\ session[a] = NoSession
  /\ lease[d].until <= now
  /\ lease' = [lease EXCEPT ![d] = [worker |-> a, until |-> u]]
  /\ session' = [session EXCEPT ![a] = [device |-> d, until |-> u, revoked |-> FALSE]]
  /\ UNCHANGED now

(* Users stop: their work ended, or the process that hosts them died. *)
Stop(A) ==
  /\ session' = [a \in Actor |-> IF a \in A THEN NoSession ELSE session[a]]
  /\ UNCHANGED <<now, lease>>

(* Nobody but the worker named in the lease gives it back, and only after   *)
(* it has stopped using the phone.                                          *)
GiveBack(a, d) ==
  /\ session[a] = NoSession
  /\ lease[d].worker = a
  /\ lease' = [lease EXCEPT ![d] = Free]
  /\ UNCHANGED <<now, session>>

(* The operator's override: the one way a lease ends early under its user. *)
Revoke(d) ==
  /\ lease' = [lease EXCEPT ![d] = Free]
  /\ session' = [a \in Actor |->
                   [session[a] EXCEPT !.revoked = @ \/ session[a].device = d]]
  /\ UNCHANGED now

Tick == now' = now + 1 /\ UNCHANGED <<lease, session>>

Next ==
  \/ \E a \in Actor, d \in Device, u \in LeaseEnd : Acquire(a, d, u)
  \/ \E A \in SUBSET Actor : Stop(A)
  \/ \E a \in Actor, d \in Device : GiveBack(a, d)
  \/ \E d \in Device : Revoke(d)
  \/ Tick

Spec == Init /\ [][Next]_contractVars

-----------------------------------------------------------------------------
(* A use of a phone that the lease still covers. *)
Covered(a) ==
  /\ session[a].device \in Device
  /\ ~session[a].revoked
  /\ session[a].until > now

(* Property: as long as a use is covered, the lease columns of its phone    *)
(* are the ones the user wrote: no late release, no other claim has touched *)
(* them (devices.py:379-390, send_queue.py:211-230).                        *)
CoveredIsLeased ==
  \A a \in Actor : Covered(a) =>
    lease[session[a].device] = [worker |-> a, until |-> session[a].until]

(* Property: two covered uses are never of the same phone, which is the     *)
(* reason claims take the lease in the same transaction as the job          *)
(* (recovery_queue.py:5-9).                                                 *)
ExclusiveUse ==
  \A a, b \in Actor :
    (a # b /\ Covered(a) /\ Covered(b)) => session[a].device # session[b].device
=============================================================================
