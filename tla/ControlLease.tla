----------------------------- MODULE ControlLease -----------------------------
(***************************************************************************)
(* The table control_leases and its one operation, try_acquire_control_    *)
(* lease (gum-store/src/pg.rs): a named lease that a holder takes or renews *)
(* in one INSERT .. ON CONFLICT DO UPDATE .. WHERE statement.  The scheduler*)
(* takes "scheduler" with it and a runner "runtime_prepare:<deploy>".  The  *)
(* clock value is the caller's, so it may be older than the present.        *)
(***************************************************************************)
EXTENDS Integers

CONSTANTS
  LeaseNames,   \* names of control leases
  Holders,      \* values of holder_id
  None          \* the absent optional value

ASSUME NoneIsNoHolder == None \notin Holders

VARIABLE
  control_leases   \* [LeaseNames -> the row of that name, or NoControlLease]

NoControlLease == [holder_id |-> None, expires_at |-> 0]

ControlLeaseInit == control_leases = [name \in LeaseNames |-> NoControlLease]

\* Mutant of MayAcquire: a lease may be taken one unit before it expires.
MayAcquireEarly(name, holder, now) ==
  LET row == control_leases[name] IN
  row.holder_id \in {None, holder} \/ row.expires_at <= now + 1

MayAcquire(name, holder, now) ==
  LET row == control_leases[name] IN
  row.holder_id \in {None, holder} \/ row.expires_at <= now

\* The statement that returns a row: the caller holds the lease from now on.
Acquire(name, holder, ttl, now) ==
  /\ MayAcquire(name, holder, now)
  /\ control_leases' = [control_leases EXCEPT
                          ![name] = [holder_id |-> holder, expires_at |-> now + ttl]]
===============================================================================
