------------------------- MODULE MCCampaignPipeline -------------------------
(* TLC instances of CampaignPipeline. *)
EXTENDS CampaignPipeline, TLC

CONSTANTS w1, w2, s1, s2

(* The same new binary in every process. *)
Upgraded == [w \in Worker |-> 2]

Command(id, s, n) == [id |-> id, s |-> s, n |-> n]
OneCommand == {Command(1, s1, 1)}
OneEach == {Command(1, s1, 1), Command(2, s2, 1)}
TwoCommands == {Command(1, s1, 1), Command(2, s1, 2)}

Luck(old, event, edit, restart, stall, failure, rebuild) ==
  [old |-> old, event |-> event, edit |-> edit, restart |-> restart,
   stall |-> stall, failure |-> failure, rebuild |-> rebuild]

(* The holder stalls past its lease and a tick fails; a hold may settle    *)
(* one of two sessions before the other; a crash or restart, a failed      *)
(* tick, an edit and a forced rebuild; a window written during the next    *)
(* holder's reset.                                                         *)
Troubles ==
  { Luck(TwoCommands, 4, 0, 0, 1, 1, 0), Luck(OneEach, 3, 0, 0, 1, 0, 0),
    Luck(TwoCommands, 4, 1, 1, 0, 1, 1), Luck(OneCommand, 2, 0, 0, 1, 0, 1) }
Recovery == { Luck(OneCommand, 2, 1, 1, 0, 1, 0) }
Overrun == { Luck(OneCommand, 2, 0, 0, 1, 0, 0) }

WorkerSymmetry == Permutations(Worker)
=============================================================================
