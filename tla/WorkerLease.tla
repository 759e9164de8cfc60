---------------------------- MODULE WorkerLease ----------------------------
(***************************************************************************)
(* What the campaign worker lease promises the pipeline that runs under    *)
(* it, with no clock in it: the row names at most one owner, an owner is   *)
(* replaced only after its lease lapsed or after the row was released.     *)
(* CampaignLease implements this module, and CampaignPipeline is written   *)
(* over these actions.                                                     *)
(***************************************************************************)
CONSTANTS
  Owner,    \* every owner identity the row can name
  NoOwner   \* the row is absent

ASSUME NoOwnerAssumption == NoOwner \notin Owner

VARIABLES
  holder,   \* the owner the row names
  lapsed    \* the row's expiry has passed on the wall clock

leaseVars == <<holder, lapsed>>

LeaseInit == holder = NoOwner /\ lapsed = FALSE

\* AcquireCampaignLease writes: the row is absent, the caller's, or expired.
Available(o) == holder \in {NoOwner, o} \/ lapsed

\* The expiry is counted from before the wait for the writer lock, so a
\* lease may be taken after it has already lapsed again.
Take(o) ==
  /\ Available(o)
  /\ holder' = o
  /\ lapsed' \in BOOLEAN

\* ReleaseCampaignLease deletes the row only while it names the caller.
Release(o) ==
  /\ holder = o
  /\ holder' = NoOwner
  /\ lapsed' = FALSE

Lapse ==
  /\ holder # NoOwner
  /\ ~lapsed
  /\ lapsed' = TRUE
  /\ UNCHANGED holder

\* A renewal timed before the expiry was written after it.
Revive ==
  /\ lapsed
  /\ lapsed' = FALSE
  /\ UNCHANGED holder

LeaseNext ==
  \/ \E o \in Owner : Take(o) \/ Release(o)
  \/ Lapse
  \/ Revive

LeaseSpec == LeaseInit /\ [][LeaseNext]_leaseVars
=============================================================================
