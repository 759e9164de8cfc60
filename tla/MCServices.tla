------------------------------ MODULE MCServices ------------------------------
(* TLC instances of the components that share no state with one another: a *)
(* behaviour is one component's, chosen by `focus`, while the others stay  *)
(* in an initial state.                                                    *)
EXTENDS CowrieIngest, AbuseReports, BackupBundle, SessionCaps, CampaignGroup, GeoLookup, IntelLookup,
        ScriptFamilies, TLC

VARIABLE focus

-----------------------------------------------------------------------------
(* Bounds *)

Bounds(write, rotate, truncate, mishap, purge, replace) ==
  [write |-> write, rotate |-> rotate, truncate |-> truncate, mishap |-> mishap,
   purge |-> purge, replace |-> replace]
(* Rotations, mishaps, retention and a replacement, at most two at a time. *)
MCScenario ==
  { Bounds(3, 1, 0, 1, 0, 0), Bounds(2, 1, 1, 0, 0, 0), Bounds(3, 1, 0, 0, 1, 0),
    Bounds(3, 0, 0, 1, 0, 1), Bounds(4, 0, 1, 0, 0, 0) }

Fate(fail, crash, damage, capture) ==
  [fail |-> fail, crash |-> crash, damage |-> damage, capture |-> capture]
MCFates == { Fate(1, 1, 0, 2), Fate(0, 1, 1, 2), Fate(1, 0, 0, 3) }

Lived(command, upgrade, replace, retention, failure) ==
  [command |-> command, upgrade |-> upgrade, replace |-> replace, retention |-> retention,
   failure |-> failure]
MCLife == { Lived(4, 1, 0, 0, 1), Lived(3, 0, 1, 1, 0), Lived(3, 1, 0, 2, 0) }

Seen(a, vs) == [actor |-> a, values |-> vs]
Work(start, session, purge, lose, rekey, asked) ==
  [start |-> start, session |-> session, purge |-> purge, lose |-> lose, rekey |-> rekey, edits |-> asked]
(* A session that bridges two values, and one that bridges one to a third; *)
(* a pair of sessions, two such pairs, and three values in a chain.        *)
MCSighting == { Seen("c", {1, 2}), Seen("a", {1, 3}) }
Pair == << Seen("a", {1}), Seen("b", {1}) >>
Pairs == Pair \o << Seen("b", {2}), Seen("c", {2}) >>
Chain == << Seen("b", {1, 3}), Seen("a", {3}), Seen("b", {1}), Seen("b", {3}) >>
MCAgenda ==
  { Work(Pair, 1, 0, 1, 1, <<"rename">>), Work(Pairs, 1, 1, 0, 0, <<"rename", "rename">>),
    Work(Pairs, 1, 0, 1, 0, <<"merge">>), Work(Chain, 0, 1, 0, 0, <<"remove_actor">>),
    Work(Pairs, 1, 0, 0, 0, <<"merge", "remove_actor">>),
    Work(Pairs, 1, 1, 1, 0, <<"ignore_evidence">>) }

MCStripe == [a \in Address |-> 1]

MCPage == { <<"i1", "i2", "i3">>, <<"i2">> }
Heaven(polls, views, saves, restarts, end, database, http, key) ==
  [poll |-> polls, view |-> views, save |-> saves, restart |-> restarts, end |-> end,
   database |-> database, enabled |-> http, key |-> key]
(* With and without a local database; asking over HTTP allowed or not. *)
MCSky ==
  { Heaven(2, 0, 1, 0, 0, TRUE, FALSE, TRUE), Heaven(1, 2, 0, 1, 1, FALSE, TRUE, TRUE),
    Heaven(1, 1, 0, 0, 1, TRUE, TRUE, TRUE), Heaven(1, 0, 1, 0, 0, FALSE, TRUE, TRUE),
    Heaven(2, 0, 0, 0, 0, FALSE, TRUE, TRUE) }

Lot(saves, lookups, fails, purges, restarts, end, old, env) ==
  [save |-> saves, lookup |-> lookups, fail |-> fails, purge |-> purges, restart |-> restarts,
   end |-> end, old |-> old, env |-> env]
(* Saves that overlap; lookups of a hash that overlap, with and without a  *)
(* verdict at hand; a verdict that ages and is trimmed under a lookup.     *)
MCChances ==
  { Lot(2, 0, 1, 0, 1, 0, {}, ""), Lot(1, 2, 0, 0, 0, 0, {}, "good"),
    Lot(0, 3, 1, 0, 0, 1, {}, "good"), Lot(0, 2, 1, 1, 0, 2, {}, "good"),
    Lot(1, 1, 1, 0, 1, 0, {"h1"}, ""), Lot(0, 2, 1, 0, 1, 1, {"h1"}, "good") }

(* Scripts 1 and 2, and 2 and 3, are variants of one another; 4 is plain.  *)
MCSize == (1 :> 10) @@ (2 :> 10) @@ (3 :> 12) @@ (4 :> 3)
MCGap ==
  [f \in Script |->
     [g \in Script |-> IF f = g THEN 0 ELSE IF {f, g} \in {{1, 2}, {2, 3}} THEN 1 ELSE 3]]
Trial(changes, replaces, upgrades, takeovers, typed) ==
  [change |-> changes, replace |-> replaces, upgrade |-> upgrades, takeover |-> takeovers,
   typed |-> typed, first |-> "u"]
(* Settling and filing alone, under a takeover, a replacement, a reset, and *)
(* a reset that a takeover overlaps.                                        *)
MCTrials ==
  { Trial(3, 0, 0, 0, {1, 2, 3}), Trial(3, 0, 0, 1, {1}), Trial(2, 0, 0, 1, {1, 2}),
    Trial(2, 1, 0, 0, {1, 2, 3}), Trial(2, 0, 1, 0, {1, 4}), Trial(2, 0, 1, 1, {1}) }

-----------------------------------------------------------------------------
serviceVars == <<focus, cowrieVars, abuseVars, backupVars, capsVars, groupVars, geoVars, intelVars,
                 familiesVars>>

Parts == {"cowrie", "abuse", "backup", "caps", "group", "geo", "intel", "families"}

(* A component out of focus has one initial state, and keeps it. *)
At(c, choice, choices) == focus = c \/ choice = CHOOSE x \in choices : TRUE

ServicesInit ==
  /\ focus \in Parts
  /\ CowrieInit /\ At("cowrie", spare, Scenario)
  /\ AbuseInit
  /\ BackupInit /\ At("backup", fate, Fates)
  /\ CapsInit /\ At("caps", budget, Life)
  /\ GroupInit /\ At("group", agenda, Agenda)
  /\ GeoInit /\ At("geo", sky, Sky)
  /\ IntelInit /\ At("intel", odds, Chances)
  /\ FamiliesInit /\ At("families", trial, Trials)

ServicesNext ==
  /\ UNCHANGED focus
  /\ \/ /\ focus = "cowrie" /\ CowrieNext
        /\ UNCHANGED <<abuseVars, backupVars, capsVars, groupVars, geoVars, intelVars, familiesVars>>
     \/ /\ focus = "abuse" /\ AbuseNext
        /\ UNCHANGED <<cowrieVars, backupVars, capsVars, groupVars, geoVars, intelVars, familiesVars>>
     \/ /\ focus = "backup" /\ BackupNext
        /\ UNCHANGED <<cowrieVars, abuseVars, capsVars, groupVars, geoVars, intelVars, familiesVars>>
     \/ /\ focus = "caps" /\ CapsNext
        /\ UNCHANGED <<cowrieVars, abuseVars, backupVars, groupVars, geoVars, intelVars, familiesVars>>
     \/ /\ focus = "group" /\ GroupNext
        /\ UNCHANGED <<cowrieVars, abuseVars, backupVars, capsVars, geoVars, intelVars, familiesVars>>
     \/ /\ focus = "geo" /\ GeoNext
        /\ UNCHANGED <<cowrieVars, abuseVars, backupVars, capsVars, groupVars, intelVars, familiesVars>>
     \/ /\ focus = "intel" /\ IntelNext
        /\ UNCHANGED <<cowrieVars, abuseVars, backupVars, capsVars, groupVars, geoVars, familiesVars>>
     \/ /\ focus = "families" /\ FamiliesNext
        /\ UNCHANGED <<cowrieVars, abuseVars, backupVars, capsVars, groupVars, geoVars, intelVars>>

ServicesSpec == ServicesInit /\ [][ServicesNext]_serviceVars
===============================================================================
