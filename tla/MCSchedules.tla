----------------------------- MODULE MCSchedules -----------------------------
(* TLC instances of six components that share no state, five of them under *)
(* fairness: a behaviour is one component's, chosen by `focus`, while the  *)
(* others stay in an initial state in which nothing is owed.               *)
EXTENDS UrlCapture, JournalIngest, Refetch, LiveProcess, MCShareLedgers, StoreUpgrade, TLC

VARIABLE focus

-----------------------------------------------------------------------------
(* Bounds *)

Skies(write, fail, cli, replace, age, annotated, broken) ==
  [write |-> write, fail |-> fail, cli |-> cli, replace |-> replace, age |-> age,
   annotated |-> annotated, broken |-> broken]
Weathers ==
  { Skies(3, 0, 0, 0, 0, {}, {}), Skies(2, 1, 0, 0, 0, {}, {1}), Skies(2, 0, 1, 0, 0, {1}, {}),
    Skies(1, 0, 1, 1, 0, {1}, {}), Skies(2, 0, 0, 1, 1, {1}, {}), Skies(2, 1, 0, 0, 1, {}, {}) }

MCHostOf == [u \in Url |-> IF u = "u1" THEN "h1" ELSE "h2"]
MCNames == [s \in Payload |-> IF s = "script" THEN {"u2", "u3"} ELSE {}]
MCCommand == { {"u1"}, {"u1", "u2"} }

Turns(commands, rows, mishaps, disks, misreads, busy) ==
  [command |-> commands, rows |-> rows, mishap |-> mishaps, full |-> disks,
   misread |-> misreads, busy |-> busy]
(* A script's second stage; a crash, a retention and a URL named again; a  *)
(* full disk, an unreadable file and a busy server.                        *)
MCFortune == { Turns(1, 4, 0, 0, 0, 0), Turns(2, 2, 1, 0, 1, 0), Turns(1, 2, 0, 1, 0, 1) }

Chances(keep, workers, captures, until, mishaps, busy) ==
  [keep |-> keep, running |-> workers, capture |-> captures, until |-> until,
   mishap |-> mishaps, busy |-> busy]
(* No retention and two processes; retention shorter, then longer, than the *)
(* schedule.  Every capture is early enough for its schedule to end by End. *)
MCChance ==
  { Chances(0, Worker, 1, 1, 0, 1), Chances(2, {"w1"}, 1, 2, 0, 0), Chances(5, {"w1"}, 1, 2, 1, 0) }

Left(objs, version, rows, high, opens, writes) ==
  [objects |-> objs, stamps |-> 1..version, artifacts |-> rows, seq |-> high,
   spare |-> [open |-> opens, write |-> writes, purge |-> writes]]
Stored(u, e) == [url |-> u, epoch |-> e]
Through(v) == UNION {Needed(r) : r \in 0..v}
(* Nothing; a database older than the stamps; v15; v25 without the carry   *)
(* table, its newest row purged; v26 with one of that rung's objects; v27  *)
(* without its last column.                                                *)
MCInherited ==
  { Left({}, 0, << >>, 0, 2, 0),
    Left(MadeBy(0) \cup (LegacyColumns \ {"events.command", "events.actor_id"}), 0, << >>, 0, 2, 0),
    Left(Through(15) \cup {"idx_events_raw"}, 15, << >>, 0, 3, 0),
    Left(Through(25) \ V26Objects, 25, 1 :> Stored("u1", 0), 2, 3, 2),
    Left((Through(25) \cup {"idx_events_actor_cmd"}) \ {"script_version_carry"}, 26,
         1 :> Stored("u1", 0), 1, 3, 1),
    Left(Through(27) \ {"artifacts.last_refetch_at"}, 27,
         (1 :> Stored("u1", 0)) @@ (2 :> Stored("u1", 1)), 2, 3, 1) }

-----------------------------------------------------------------------------
scheduleVars == <<focus, urlVars, journalVars, refetchVars, liveVars, shareVars, upgradeVars>>

Component == {"url", "journal", "refetch", "live", "share", "upgrade"}

(* A component out of focus has one initial state, and keeps it. *)
At(c, choice, choices) == focus = c \/ choice = CHOOSE x \in choices : TRUE

SchedulesInit ==
  /\ focus \in Component
  /\ UrlInit /\ At("url", fortune, Fortune)
  /\ JournalInit /\ At("journal", luck, Weather)
  /\ RefetchInit /\ At("refetch", chance, Chance)
  /\ LiveInit /\ At("live", parent, {"live"})
  /\ ShareInit /\ At("share", errand, {e \in Errand : e.rows = {}})
  /\ UpgradeInit /\ At("upgrade", objects, {d.objects : d \in Inherited})

SchedulesNext ==
  /\ UNCHANGED focus
  /\ \/ focus = "url" /\ UrlNext
        /\ UNCHANGED <<journalVars, refetchVars, liveVars, shareVars, upgradeVars>>
     \/ focus = "journal" /\ JournalNext
        /\ UNCHANGED <<urlVars, refetchVars, liveVars, shareVars, upgradeVars>>
     \/ focus = "refetch" /\ RefetchNext
        /\ UNCHANGED <<urlVars, journalVars, liveVars, shareVars, upgradeVars>>
     \/ focus = "live" /\ LiveNext
        /\ UNCHANGED <<urlVars, journalVars, refetchVars, shareVars, upgradeVars>>
     \/ focus = "share" /\ ShareNext
        /\ UNCHANGED <<urlVars, journalVars, refetchVars, liveVars, upgradeVars>>
     \/ focus = "upgrade" /\ UpgradeNext
        /\ UNCHANGED <<urlVars, journalVars, refetchVars, liveVars, shareVars>>

(* Each component's own fairness while it is the one that runs: out of     *)
(* focus nothing is enabled.                                               *)
SchedulesFairness ==
  /\ WF_urlVars(focus = "url" /\ PassTime) /\ SF_urlVars(focus = "url" /\ WorkerStep)
  /\ WF_urlVars(focus = "url" /\ Unlink) /\ WF_urlVars(focus = "url" /\ RefetchFrees)
  /\ WF_urlVars(focus = "url" /\ ~roomy /\ SpaceChanges)
  /\ WF_journalVars(focus = "journal" /\ TakePage)
  /\ WF_journalVars(focus = "journal" /\ WorkOne)
  /\ WF_refetchVars(focus = "refetch" /\ Tick)
  /\ \A w \in Worker : WF_refetchVars(focus = "refetch" /\ RefetchStep(w))
  /\ WF_liveVars(focus = "live" /\ Main) /\ WF_liveVars(focus = "live" /\ Work)
  /\ WF_liveVars(focus = "live" /\ Server) /\ WF_liveVars(focus = "live" /\ RefreshEnds)
  /\ \A r \in Request : WF_liveVars(focus = "live" /\ Handle(r))
  /\ \A s \in Sharer : WF_shareVars(focus = "share" /\ ShareStep(s))
  /\ \A s \in Cli : WF_shareVars(focus = "share" /\ RunCommand(s))

SchedulesSpec == SchedulesInit /\ [][SchedulesNext]_scheduleVars /\ SchedulesFairness
===============================================================================
