-------------------------- MODULE MCCampaignLease --------------------------
(* TLC instance of CampaignLease. *)
EXTENDS CampaignLease, TLC

WorkerSymmetry == Permutations(Worker)
=============================================================================
