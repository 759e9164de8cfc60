-------------------------- MODULE CampaignPipeline --------------------------
(***************************************************************************)
(* The campaign pipeline over one database: what a worker's tick reads and *)
(* writes between taking the lease and giving it back (campaign/worker.go),*)
(* the evidence recorder, script settling, normaliser version reset and    *)
(* rebuild hold under it (store/campaign_evidence.go, scripts.go,          *)
(* script_version.go, campaigns.go), and what other processes do meanwhile:*)
(* ingest appends events, `ingest cowrie --replace` swaps them, an         *)
(* operator edits a campaign, `scripts --rebuild` drops the version.       *)
(*                                                                         *)
(* Each action is one statement or one write transaction, so another       *)
(* process can act between any two.  Only the save is fenced by the lease; *)
(* every other write defends itself with what it re-reads.                 *)
(*                                                                         *)
(* A session's n-th command is <<s, n>>, so two sessions never share a     *)
(* script; a line is a command in a normaliser version's encoding, and a   *)
(* fingerprint is the set of a script's lines ({} for none).               *)
(***************************************************************************)
EXTENDS WorkerLease, Integers, FiniteSets, FiniteSetsExt

CONSTANTS
  Worker,       \* the processes running a campaign worker
  Dead,         \* the owner ID of a process that is gone
  Session,
  VersionOf,    \* [Worker -> Nat \ {0}]: the normaliser each binary carries
  OldVersion,   \* the normaliser the database was left by
  Window,       \* recordWindow
  SlowReset,    \* a version reset may outlast the lease
  Scenario      \* a set of [old, event, edit, restart, stall, failure, rebuild]:
                \* the events the database held, all recorded, settled and
                \* grouped; the highest event id; bounds on the rest

HoldClock == "hold clock"  \* in young, beside the sessions

ASSUME OwnerIsWorker == Owner = Worker \cup {Dead} /\ Dead \notin Worker /\ Worker # {}
ASSUME VersionAssumption == VersionOf \in [Worker -> Nat \ {0}] /\ OldVersion \in Nat
ASSUME EventsAssumption ==
  /\ \A sc \in Scenario :
       IsFiniteSet(sc.old) /\ sc.old \subseteq [id : Nat \ {0}, s : Session, n : Nat \ {0}]
  /\ Window \in Nat \ {0} /\ HoldClock \notin Session

NoMark == -2       \* no hold_hwm row
Remeasure == -1    \* scriptHoldRemeasure
NoRow == [here |-> FALSE, stamp |-> <<0, 0>>, settled |-> FALSE, idle |-> FALSE, fp |-> {}]
NoHome == [n |-> 0, cid |-> 0]

VARIABLES
  \* events
  events, lastID,      \* the Cowrie rows; sqlite_sequence
  \* ingest_state
  cursor, epoch,       \* evidenceCursorState
  version,             \* the stored normaliser version, 0 for none
  mark, deadline,      \* the hold: hold_hwm; "none", "running" or "past"
  \* derived tables
  lines, rows,         \* session_script_lines, session_scripts
  carry,               \* script_version_carry: [Session -> fingerprint]
  ids, minted,         \* campaign_ids of kind script; campaign IDs issued
  edits, applied,      \* MAX(campaign_edits.id); the last one a save applied
  \* each worker
  pc, mem,             \* how far its tick is; what the tick remembers
  checked, drained, pending, wake, editsSeen,
  \* time and luck
  young,               \* the ticks in progress when a row or clock was stamped
  left,                \* what the scenario leaves of each bound
  \* history
  home,                \* the campaign each session's script was last saved in
  forced,              \* a hold ran out with sessions unsettled, or was released in a reset
  crossed              \* lines landed between a reset's last delete and its stamp

log == <<events, lastID>>
recorder == <<cursor, epoch, lines, rows>>
hold == <<mark, deadline, carry>>
grouping == <<ids, minted, applied>>
flags == <<checked, drained, pending, wake, editsSeen>>
history == <<home, forced, crossed>>
database == <<log, recorder, hold, version, grouping, edits>>
vars == <<leaseVars, database, pc, mem, flags, young, left, history>>

-----------------------------------------------------------------------------
(* Data *)

LastOf(E) == IF E = {} THEN 0 ELSE Max({e.id : e \in E})
MaxID == LastOf(events)
Line(e, v) == [id |-> e.id, s |-> e.s, n |-> e.n, v |-> v]
LinesOf(s) == {l \in lines : l.s = s}
Commands(s) == Cardinality({e \in events : e.s = s})

(* script.Fingerprint of a session's joined lines. *)
Fingerprint(ls) == {<<l.s, l.v, l.n>> : l \in ls}
Script(s, v, n) == {<<s, v, i>> : i \in 1..n}

(* The ticks in progress. *)
Ticking == {w \in Worker : pc[w] # "idle"}

NoMem == [takeover |-> FALSE, reset |-> FALSE, last |-> FALSE, cursor |-> 0, end |-> 0, epoch |-> 0,
          batch |-> {}, seen |-> 0, mark |-> 0, woken |-> FALSE,
          edits |-> 0, fps |-> {}, ids |-> << >>]

Resetting == {"check", "carry", "rows", "lines", "stamp"}
Recording == {"scan", "write", "recorded"}
Settling == {"settle", "compute", "commit"}
Holding == {"epoch", "hold", "measure", "cursor", "decide", "clock", "pending", "release"}
Regrouping == {"edits", "scripts", "ids", "classified", "save", "saved"}
Stage == {"idle", "acquire", "owe", "owed"} \cup Resetting \cup Recording
           \cup Settling \cup Holding \cup Regrouping
(* The three renewLease sites, and where each lets the tick go on. *)
AfterRenew == [recorded |-> "settle", owed |-> "edits", classified |-> "save"]

(* An installation last run by OldVersion and just upgraded: everything    *)
(* recorded, settled and grouped, one campaign per script.                 *)
Init ==
  /\ LeaseInit
  /\ left \in Scenario
  /\ events = left.old /\ lastID = LastOf(left.old)
  /\ cursor = lastID /\ epoch = 0 /\ version = OldVersion
  /\ mark = NoMark /\ deadline = "none"
  /\ lines = {Line(e, OldVersion) : e \in left.old}
  /\ rows = [s \in Session |->
       IF LinesOf(s) = {} THEN NoRow
       ELSE [here |-> TRUE, stamp |-> <<0, lastID>>, settled |-> TRUE, idle |-> TRUE,
             fp |-> Fingerprint(LinesOf(s))]]
  /\ carry = [s \in Session |-> {}]
  /\ minted = Cardinality({e.s : e \in left.old})
  /\ ids = CHOOSE f \in [{rows[s].fp : s \in Session} \ {{}} -> 1..minted] : IsInjective(f)
  /\ edits = 0 /\ applied = 0
  /\ pc = [w \in Worker |-> "idle"] /\ mem = [w \in Worker |-> NoMem]
  /\ checked = [w \in Worker |-> FALSE]
  /\ drained = [w \in Worker |-> FALSE] /\ pending = [w \in Worker |-> FALSE]
  /\ wake = [w \in Worker |-> FALSE] /\ editsSeen = [w \in Worker |-> 0]
  /\ young = [x \in Session \cup {HoldClock} |-> {}]
  /\ home = [s \in Session |->
       IF rows[s].fp = {} THEN NoHome ELSE [n |-> Commands(s), cid |-> ids[rows[s].fp]]]
  /\ forced = FALSE /\ crossed = FALSE

-----------------------------------------------------------------------------
(* A tick *)

Goto(w, to) == pc' = [pc EXCEPT ![w] = to]
Recall(w, what) == mem' = [mem EXCEPT ![w] = what]
Spend(what) == left[what] > 0 /\ left' = [left EXCEPT ![what] = @ - 1]

End(w) ==
  /\ Goto(w, "idle")
  /\ Recall(w, NoMem)
  /\ young' = [x \in DOMAIN young |-> young[x] \ {w}]

(* An error ends the tick: a regroup under way stays owed, and so does a   *)
(* wake that was taken but not yet acted on.                               *)
Abandon(w) ==
  /\ End(w)
  /\ pending' = [pending EXCEPT ![w] = @ \/ pc[w] \in Regrouping]
  /\ wake' = [wake EXCEPT ![w] = @ \/ (pc[w] = "owed" /\ mem[w].woken)]
  /\ UNCHANGED <<checked, drained, editsSeen>>

(* leaseLive: see RowRemembered in CampaignLeaseProofs. *)
Live(w) == holder = w /\ ~lapsed

(* holdLease reads the clock.  Before half-life it does nothing more; what *)
(* it decides about a takeover is from before the acquire.                 *)
BeginTick(w) ==
  /\ pc[w] = "idle"
  /\ \/ /\ Live(w)
        /\ Goto(w, IF checked[w] THEN "scan" ELSE "check")
        /\ UNCHANGED mem
     \/ /\ Available(w)
        /\ Goto(w, "acquire")
        /\ Recall(w, [NoMem EXCEPT !.takeover = ~Live(w)])
  /\ UNCHANGED <<leaseVars, database, flags, young, left, history>>

Acquire(w) ==
  /\ pc[w] = "acquire"
  /\ \/ /\ Take(w) /\ ~lapsed'
        /\ checked' = [checked EXCEPT ![w] = @ /\ ~mem[w].takeover]
        /\ Goto(w, IF checked'[w] THEN "scan" ELSE "check")
        /\ Recall(w, NoMem)
        /\ UNCHANGED young
     \/ /\ ~Available(w)
        /\ End(w)
        /\ UNCHANGED <<leaseVars, checked>>
  /\ UNCHANGED <<database, drained, pending, wake, editsSeen, left, history>>

-----------------------------------------------------------------------------
(* ResetScriptsForVersion *)

CheckVersion(w) ==
  /\ pc[w] = "check"
  /\ IF version = VersionOf[w]
       THEN /\ checked' = [checked EXCEPT ![w] = TRUE]
            /\ Goto(w, "scan")
            /\ UNCHANGED mem
       ELSE /\ Goto(w, "carry")
            /\ Recall(w, [mem[w] EXCEPT !.reset = cursor # 0])
            /\ UNCHANGED checked
  /\ UNCHANGED <<leaseVars, database, drained, pending, wake, editsSeen, young, left, history>>

(* INSERT OR IGNORE of every fingerprint: the oldest snapshot stays.  (One *)
(* step for all the windows: a fingerprint another process settles between *)
(* two of them has no assignment to carry.)                                *)
Snapshot == [s \in Session |-> IF carry[s] = {} THEN rows[s].fp ELSE carry[s]]

ResetCarry(w) ==
  /\ pc[w] = "carry"
  /\ carry' = Snapshot
  /\ Recall(w, [mem[w] EXCEPT !.reset = @ \/ \E s \in Session : rows[s].here])
  /\ Goto(w, "rows")
  /\ UNCHANGED <<leaseVars, log, recorder, mark, deadline, version, grouping, edits,
                 flags, young, left, history>>

(* Session rows go first, a chunk at a time ... *)
ResetRows(w) ==
  /\ pc[w] = "rows"
  /\ \/ \E s \in Session :
          /\ rows[s].here
          /\ rows' = [rows EXCEPT ![s] = NoRow]
          /\ young' = [young EXCEPT ![s] = {}]
          /\ Recall(w, [mem[w] EXCEPT !.reset = TRUE])
          /\ UNCHANGED pc
     \/ /\ \A s \in Session : ~rows[s].here
        /\ Goto(w, "lines")
        /\ UNCHANGED <<rows, young, mem>>
  /\ UNCHANGED <<leaseVars, log, cursor, epoch, lines, hold, version, grouping, edits,
                 flags, left, history>>

(* ... then their lines ... *)
ResetLines(w) ==
  /\ pc[w] = "lines"
  /\ \/ \E l \in lines :
          /\ lines' = lines \ {l}
          /\ Recall(w, [mem[w] EXCEPT !.reset = TRUE])
          /\ UNCHANGED pc
     \/ /\ lines = {}
        /\ Goto(w, "stamp")
        /\ UNCHANGED <<lines, mem>>
  /\ UNCHANGED <<leaseVars, log, cursor, epoch, rows, hold, version, grouping, edits,
                 flags, young, left, history>>

(* ... and the version last, with the rewind and the hold. *)
ResetStamp(w) ==
  /\ pc[w] = "stamp"
  /\ cursor' = 0 /\ epoch' = epoch + 1
  /\ deadline' = "none"
  /\ mark' = IF mem[w].reset THEN MaxID ELSE mark
  /\ version' = VersionOf[w]
  /\ checked' = [checked EXCEPT ![w] = TRUE]
  /\ young' = [young EXCEPT ![HoldClock] = {}]
  /\ Goto(w, "scan")
  /\ Recall(w, NoMem)
  /\ UNCHANGED <<leaseVars, log, lines, rows, carry, grouping, edits,
                 drained, pending, wake, editsSeen, left, history>>

-----------------------------------------------------------------------------
(* RecordCampaignEvidence *)

(* How a tick's recording ends: only a backlog that outlives the tick      *)
(* defers the regroups, and its end owes one.                              *)
Recorded(w, done) ==
  /\ drained' = [drained EXCEPT ![w] = done]
  /\ pending' = [pending EXCEPT ![w] = @ \/ (done /\ ~drained[w])]
  /\ Goto(w, "recorded")

(* Phase 1, outside the writer lock. *)
RecordScan(w) ==
  LET end == IF cursor + Window < MaxID THEN cursor + Window ELSE MaxID
  IN
  /\ pc[w] = "scan"
  /\ IF end <= cursor
       THEN /\ Recorded(w, TRUE)
            /\ UNCHANGED mem
       ELSE /\ Goto(w, "write")
            /\ Recall(w, [NoMem EXCEPT !.cursor = cursor, !.epoch = epoch, !.end = end,
                                       !.last = end = MaxID])
            /\ UNCHANGED <<drained, pending>>
  /\ UNCHANGED <<leaseVars, database, checked, wake, editsSeen, young, left, history>>

(* evidenceWriter.flush: a replayed line is neither stored nor counted.    *)
(* Phase 1 saw every row the window still holds, ids never being reused.   *)
Scanned(w) == {e \in events : e.id > mem[w].cursor /\ e.id <= mem[w].end}
NewLines(w) ==
  {Line(e, VersionOf[w]) : e \in {f \in Scanned(w) : \A l \in lines : l.id # f.id}}

RecordedRows(ls, stamp) ==
  [s \in Session |->
     IF \E l \in ls : l.s = s
       THEN [rows[s] EXCEPT !.here = TRUE, !.stamp = stamp, !.settled = FALSE, !.idle = FALSE]
       ELSE rows[s]]

NotRewound(w) == epoch = mem[w].epoch  \* mutant

CursorUnmoved(w) == cursor = mem[w].cursor /\ epoch = mem[w].epoch

(* Phase 2, one transaction; the tick then takes another window or has     *)
(* spent its budget.                                                       *)
RecordWrite(w) ==
  LET new == NewLines(w)
      done == CursorUnmoved(w) /\ mem[w].last
  IN
  /\ pc[w] = "write"
  /\ IF CursorUnmoved(w)
       THEN /\ lines' = lines \cup new
            /\ rows' = RecordedRows(new, <<epoch, mem[w].end>>)
            /\ young' = [x \in DOMAIN young |->
                           IF \E l \in new : l.s = x THEN Ticking ELSE young[x]]
            /\ cursor' = mem[w].end
            /\ crossed' = (crossed \/ (new # {} /\ \E v \in Worker : pc[v] = "stamp"))
       ELSE UNCHANGED <<lines, rows, young, cursor, crossed>>
  /\ \/ Recorded(w, done)
     \/ ~done /\ Goto(w, "scan") /\ UNCHANGED <<drained, pending>>
  /\ Recall(w, NoMem)
  /\ UNCHANGED <<leaseVars, log, epoch, hold, version, grouping, edits,
                 checked, wake, editsSeen, left, home, forced>>

-----------------------------------------------------------------------------
(* renewLease *)

(* Past its end by now, the renewal may still have been timed before it.   *)
Renew(w) ==
  /\ pc[w] \in DOMAIN AfterRenew
  /\ \/ /\ Live(w) \/ (holder = w /\ Revive)
        /\ Live(w) => UNCHANGED leaseVars
        /\ Goto(w, AfterRenew[pc[w]])
        /\ UNCHANGED <<mem, flags, young>>
     \/ /\ ~Live(w)
        /\ Abandon(w)
        /\ UNCHANGED leaseVars
  /\ UNCHANGED <<database, left, history>>

-----------------------------------------------------------------------------
(* SettleSessionScripts *)

Idle == {s \in Session : rows[s].here /\ ~rows[s].settled /\ rows[s].idle}

SettleList(w) ==
  LET batch == {[s |-> s, stamp |-> rows[s].stamp, fp |-> {}] : s \in Idle}
  IN
  /\ pc[w] = "settle"
  /\ Goto(w, IF batch = {} THEN "epoch" ELSE "compute")
  /\ Recall(w, [NoMem EXCEPT !.batch = batch])
  /\ UNCHANGED <<leaseVars, database, flags, young, left, history>>

SettleCompute(w) ==
  /\ pc[w] = "compute"
  /\ Goto(w, "commit")
  /\ Recall(w, [mem[w] EXCEPT !.batch =
       {[b EXCEPT !.fp = Fingerprint(LinesOf(b.s))] : b \in {c \in @ : LinesOf(c.s) # {}}}])
  /\ UNCHANGED <<leaseVars, database, flags, young, left, history>>

(* settleSessionsBatched: only rows stamped as they were when listed. *)
StillThere(b) == rows[b.s].here  \* mutant

Unrecorded(b) == rows[b.s].here /\ rows[b.s].stamp = b.stamp

SettleCommit(w) ==
  LET ready == {b \in mem[w].batch : Unrecorded(b)}
  IN
  /\ pc[w] = "commit"
  /\ rows' = [s \in Session |->
       IF \E b \in ready : b.s = s
         THEN [rows[s] EXCEPT !.settled = TRUE, !.fp = (CHOOSE b \in ready : b.s = s).fp]
         ELSE rows[s]]
  /\ Goto(w, "epoch")
  /\ Recall(w, NoMem)
  /\ UNCHANGED <<leaseVars, log, cursor, epoch, lines, hold, version, grouping, edits,
                 flags, young, left, history>>

-----------------------------------------------------------------------------
(* ScriptRebuildHold *)

(* EvidenceResetEpoch, before the hold is asked about. *)
ReadEpoch(w) ==
  /\ pc[w] = "epoch"
  /\ Goto(w, "hold")
  /\ Recall(w, [NoMem EXCEPT !.seen = epoch])
  /\ UNCHANGED <<leaseVars, database, flags, young, left, history>>

HoldMark(w) ==
  /\ pc[w] = "hold"
  /\ Goto(w, CASE mark = NoMark -> "owe" [] mark = Remeasure -> "measure" [] OTHER -> "cursor")
  /\ Recall(w, [mem[w] EXCEPT !.mark = mark])
  /\ UNCHANGED <<leaseVars, database, flags, young, left, history>>

(* The UPDATE is guarded by the sentinel; a hold gone by now is an error.  *)
HoldMeasure(w) ==
  /\ pc[w] = "measure"
  /\ mark' = IF mark = Remeasure THEN MaxID ELSE mark
  /\ IF mark = NoMark
       THEN Abandon(w)
       ELSE /\ Goto(w, "cursor")
            /\ Recall(w, [mem[w] EXCEPT !.mark = mark'])
            /\ UNCHANGED <<flags, young>>
  /\ UNCHANGED <<leaseVars, log, recorder, deadline, carry, version, grouping, edits,
                 left, history>>

HoldCursor(w) ==
  /\ pc[w] = "cursor"
  /\ Goto(w, "decide")
  /\ Recall(w, [mem[w] EXCEPT !.cursor = cursor, !.epoch = epoch])
  /\ UNCHANGED <<leaseVars, database, flags, young, left, history>>

(* holdRecordTarget: the mark, or what is left below it. *)
PastTarget(w) == mem[w].mark + 1  \* mutant

Target(w) == IF mem[w].mark < MaxID THEN mem[w].mark ELSE MaxID

HoldDecide(w) ==
  /\ pc[w] = "decide"
  /\ IF mem[w].cursor < Target(w)
       THEN End(w)
       ELSE /\ Goto(w, [none |-> "clock", running |-> "pending", past |-> "release"][deadline])
            /\ UNCHANGED <<mem, young>>
  /\ UNCHANGED <<leaseVars, database, flags, left, history>>

MarkUnchanged(w) == mark = mem[w].mark /\ epoch = mem[w].epoch

HoldClockStart(w) ==
  /\ pc[w] = "clock"
  /\ IF deadline = "none" /\ MarkUnchanged(w)
       THEN deadline' = "running" /\ young' = [young EXCEPT ![HoldClock] = Ticking]
                /\ Goto(w, "pending") /\ UNCHANGED mem
       ELSE /\ UNCHANGED deadline
            /\ IF deadline = "none"
                 THEN End(w)
                 ELSE /\ Goto(w, IF deadline = "past" THEN "release" ELSE "pending")
                      /\ UNCHANGED <<mem, young>>
  /\ UNCHANGED <<leaseVars, log, recorder, mark, carry, version, grouping, edits,
                 flags, left, history>>

IdleUnsettled(m) ==  \* mutant
  {s \in Idle : \E l \in LinesOf(s) : l.id <= m}

(* holdPendingQuery *)
Unsettled(m) ==
  {s \in Session : rows[s].here /\ ~rows[s].settled /\ \E l \in LinesOf(s) : l.id <= m}

HoldPending(w) ==
  /\ pc[w] = "pending"
  /\ IF Unsettled(mem[w].mark) # {}
       THEN End(w)
       ELSE Goto(w, "release") /\ UNCHANGED <<mem, young>>
  /\ UNCHANGED <<leaseVars, database, flags, left, history>>

(* carryScriptAssignments: a session's assignment moves to its new         *)
(* fingerprint.  Scripts being unshared, no two claim the same one.        *)
Moved == {s \in Session : carry[s] \in DOMAIN ids /\ rows[s].fp \notin {{}, carry[s]}}
Carried ==
  LET kept == DOMAIN ids \ {carry[s] : s \in Moved}
      moved == {rows[s].fp : s \in Moved}
  IN [f \in kept \cup moved |->
        IF f \in moved THEN ids[carry[CHOOSE s \in Moved : rows[s].fp = f]] ELSE ids[f]]

HoldRelease(w) ==
  /\ pc[w] = "release"
  /\ IF MarkUnchanged(w)
       THEN /\ ids' = Carried
            /\ carry' = [s \in Session |-> {}]
            /\ mark' = NoMark /\ deadline' = "none"
            /\ forced' = (forced \/ (deadline = "past" /\ Unsettled(mem[w].mark) # {})
                                \/ \E v \in Worker : Live(v) /\ pc[v] \in {"rows", "lines", "stamp"})
            /\ young' = [young EXCEPT ![HoldClock] = {}]
            /\ Goto(w, "owe")
            /\ Recall(w, [NoMem EXCEPT !.seen = mem[w].seen])
       ELSE /\ End(w)
            /\ UNCHANGED <<ids, hold, forced>>
  /\ UNCHANGED <<leaseVars, log, recorder, version, minted, applied, edits, flags, left, home, crossed>>

-----------------------------------------------------------------------------
(* regroup and SaveGroupingAsLeaseHolder *)

WokenHere(w) == wake[w]  \* mutant

(* A Wake in this process, or an edit any process appended. *)
Woken(w) == wake[w] \/ edits > editsSeen[w]

Owe(w) ==
  /\ pc[w] = "owe"
  /\ \/ /\ drained[w]
        /\ wake' = [wake EXCEPT ![w] = FALSE]
        /\ Goto(w, "owed")
        /\ Recall(w, [mem[w] EXCEPT !.woken = Woken(w)])
        /\ UNCHANGED young
     \/ /\ ~(drained[w] /\ (Woken(w) \/ pending[w]))
        /\ End(w)
        /\ UNCHANGED wake
  /\ UNCHANGED <<leaseVars, database, checked, drained, pending, editsSeen, left, history>>

RegroupEdits(w) ==
  /\ pc[w] = "edits"
  /\ Goto(w, "scripts")
  /\ Recall(w, [NoMem EXCEPT !.seen = mem[w].seen, !.edits = edits])
  /\ UNCHANGED <<leaseVars, database, flags, young, left, history>>

(* SettledScriptRows: any row with a fingerprint, settled since or not. *)
RegroupScripts(w) ==
  /\ pc[w] = "scripts"
  /\ Goto(w, "ids")
  /\ Recall(w, [mem[w] EXCEPT !.fps = {rows[s].fp : s \in Session} \ {{}}])
  /\ UNCHANGED <<leaseVars, database, flags, young, left, history>>

RegroupIDs(w) ==
  /\ pc[w] = "ids"
  /\ Goto(w, "classified")
  /\ Recall(w, [mem[w] EXCEPT !.ids = ids])
  /\ UNCHANGED <<leaseVars, database, flags, young, left, history>>

(* Group keeps the assignment of a script that still occurs, mints one for *)
(* a script without, and drops the rest.                                   *)
Groupings(w) ==
  LET fresh == mem[w].fps \ DOMAIN mem[w].ids
      top == minted + Cardinality(fresh)
  IN {[fp \in mem[w].fps |-> IF fp \in fresh THEN new[fp] ELSE mem[w].ids[fp]] :
        new \in {f \in [fresh -> (minted + 1)..top] : IsInjective(f)}}

Fresh(w) == epoch = mem[w].seen /\ edits = mem[w].edits

Save(w) ==
  /\ pc[w] = "save"
  /\ \/ /\ holder = w /\ Fresh(w)
        /\ \E g \in Groupings(w) :
             /\ ids' = g
             /\ home' = [s \in Session |->
                  IF rows[s].fp \in DOMAIN g /\ Cardinality(rows[s].fp) = Commands(s)
                    THEN [n |-> Commands(s), cid |-> g[rows[s].fp]]
                    ELSE home[s]]
        /\ minted' = minted + Cardinality(mem[w].fps \ DOMAIN mem[w].ids)
        /\ applied' = mem[w].edits
        /\ editsSeen' = [editsSeen EXCEPT ![w] = mem[w].edits]
        /\ Goto(w, "saved") /\ Recall(w, NoMem)
        /\ UNCHANGED <<wake, pending, checked, drained, young>>
     \/ /\ holder = w /\ ~Fresh(w)
        /\ wake' = [wake EXCEPT ![w] = TRUE]
        /\ End(w)
        /\ UNCHANGED <<grouping, home, checked, drained, pending, editsSeen>>
     \/ /\ ~Live(w)
        /\ Abandon(w)
        /\ UNCHANGED <<grouping, home>>
  /\ UNCHANGED <<leaseVars, log, recorder, hold, version, edits, left, forced, crossed>>

FinishTick(w) ==
  /\ pc[w] = "saved"
  /\ pending' = [pending EXCEPT ![w] = FALSE]
  /\ End(w)
  /\ UNCHANGED <<leaseVars, database, checked, drained, wake, editsSeen, left, history>>

-----------------------------------------------------------------------------
(* Failures, other processes and time *)

(* A store call fails or the cycle budget is spent. *)
FailTick(w) ==
  /\ pc[w] # "idle"
  /\ Spend("failure")
  /\ Abandon(w)
  /\ UNCHANGED <<leaseVars, database, history>>

Forget(w) ==
  /\ End(w)
  /\ checked' = [checked EXCEPT ![w] = FALSE]
  /\ drained' = [drained EXCEPT ![w] = FALSE]
  /\ pending' = [pending EXCEPT ![w] = FALSE]
  /\ wake' = [wake EXCEPT ![w] = FALSE]
  /\ editsSeen' = [editsSeen EXCEPT ![w] = 0]

(* Started again, a process has another owner ID: the row it left names    *)
(* nobody who runs.                                                        *)
Crash(w) ==
  /\ Spend("restart")
  /\ Forget(w)
  /\ holder' = IF holder = w THEN Dead ELSE holder
  /\ UNCHANGED <<lapsed, database, history>>

(* Worker.Close, then another start. *)
Restart(w) ==
  /\ pc[w] = "idle"
  /\ Spend("restart")
  /\ Forget(w)
  /\ IF holder = w THEN Release(w) ELSE UNCHANGED leaseVars
  /\ UNCHANGED <<database, history>>

(* The holder stalls, or backs off, past its lease. *)
Stall(w) ==
  /\ holder = w /\ Lapse
  /\ pc[w] \in Resetting => SlowReset
  /\ Spend("stall")
  /\ UNCHANGED <<database, pc, mem, flags, young, history>>

DeadLapse ==
  /\ holder = Dead /\ Lapse
  /\ UNCHANGED <<database, pc, mem, flags, young, left, history>>

Append(s) ==
  /\ s \in {e.s : e \in left.old} /\ lastID < left.event
  /\ lastID' = lastID + 1
  /\ events' = events \cup {[id |-> lastID + 1, s |-> s, n |-> Commands(s) + 1]}
  /\ UNCHANGED <<leaseVars, recorder, hold, version, grouping, edits, pc, mem, flags,
                 young, left, history>>

(* The same commands again, under new ids. *)
Reinserted ==
  {[e EXCEPT !.id = lastID + Cardinality({f \in events : f.id <= e.id})] : e \in events}

(* ReplaceSourceEventsAndActorsAgg, clearCampaignDerivedTx included. *)
Replace ==
  /\ events # {} /\ lastID + Cardinality(events) <= left.event
  /\ events' = Reinserted
  /\ lastID' = lastID + Cardinality(events)
  /\ carry' = Snapshot
  /\ lines' = {} /\ rows' = [s \in Session |-> NoRow]
  /\ cursor' = lastID /\ epoch' = epoch + 1
  /\ mark' = Remeasure /\ deadline' = "none"
  /\ young' = [x \in DOMAIN young |-> {}]
  /\ UNCHANGED <<leaseVars, version, grouping, edits, pc, mem, flags, left, history>>

(* AppendCampaignEdit in one of the processes, and its Wake. *)
Edit(w) ==
  /\ Spend("edit")
  /\ edits' = edits + 1
  /\ wake' = [wake EXCEPT ![w] = TRUE]
  /\ UNCHANGED <<leaseVars, log, recorder, hold, version, grouping, pc, mem,
                 checked, drained, pending, editsSeen, young, history>>

ForceScriptRebuild ==
  /\ Spend("rebuild")
  /\ version' = 0
  /\ UNCHANGED <<leaseVars, log, recorder, hold, grouping, edits, pc, mem, flags, young, history>>

(* settleIdle (10 min) and scriptHoldDuration (30 min) outlast any tick    *)
(* (its budget is 2 min).                                                  *)
BecomeIdle(s) ==
  /\ rows[s].here /\ ~rows[s].idle /\ young[s] = {}
  /\ rows' = [rows EXCEPT ![s].idle = TRUE]
  /\ UNCHANGED <<leaseVars, log, cursor, epoch, lines, hold, version, grouping, edits,
                 pc, mem, flags, young, left, history>>

DeadlinePasses ==
  /\ deadline = "running" /\ young[HoldClock] = {}
  /\ deadline' = "past"
  /\ UNCHANGED <<leaseVars, log, recorder, mark, carry, version, grouping, edits,
                 pc, mem, flags, young, left, history>>

-----------------------------------------------------------------------------
Reset(w) == CheckVersion(w) \/ ResetCarry(w) \/ ResetRows(w) \/ ResetLines(w) \/ ResetStamp(w)
Settle(w) == SettleList(w) \/ SettleCompute(w) \/ SettleCommit(w)
RebuildHeld(w) ==
  \/ ReadEpoch(w) \/ HoldMark(w) \/ HoldMeasure(w) \/ HoldCursor(w) \/ HoldDecide(w)
  \/ HoldClockStart(w) \/ HoldPending(w) \/ HoldRelease(w)
Regroup(w) == RegroupEdits(w) \/ RegroupScripts(w) \/ RegroupIDs(w) \/ Save(w)

TickStep(w) ==
  \/ BeginTick(w) \/ Acquire(w) \/ Reset(w) \/ RecordScan(w) \/ RecordWrite(w)
  \/ Renew(w) \/ Settle(w) \/ RebuildHeld(w) \/ Owe(w) \/ Regroup(w) \/ FinishTick(w)

Environment ==
  \/ \E s \in Session : Append(s) \/ BecomeIdle(s)
  \/ Replace \/ ForceScriptRebuild \/ DeadlinePasses \/ DeadLapse
  \/ \E w \in Worker : Edit(w) \/ FailTick(w) \/ Crash(w) \/ Restart(w) \/ Stall(w)

Next == Environment \/ \E w \in Worker : TickStep(w)

Spec == Init /\ [][Next]_vars

(* A worker that runs keeps ticking, time passes, a dead lease runs out.   *)
FairSpec ==
  /\ Spec
  /\ \A w \in Worker : WF_vars(TickStep(w))
  /\ \A s \in Session : WF_vars(BecomeIdle(s))
  /\ WF_vars(DeadlinePasses)
  /\ WF_vars(DeadLapse)

-----------------------------------------------------------------------------
(* Properties *)

(* Behind the cursor every command has its line, once and in the stored    *)
(* version's encoding, and nothing else has one: no window is skipped by a *)
(* rewind or a replace, and none lands that was read before it.  Only a    *)
(* window read under an older lease can still land just before the stamp.  *)
RecorderExact ==
  ~crossed /\ (\A w \in Worker : VersionOf[w] = version) =>
    lines = {Line(e, version) : e \in {f \in events : f.id <= cursor}}

(* A settled session's fingerprint is that of all its lines: a line        *)
(* recorded while it was computed, or a reset under it, leaves it pending. *)
SettledWhole ==
  \A s \in Session : rows[s].settled => rows[s].fp = Fingerprint(LinesOf(s))

(* A save keeps the campaign of every session whose commands did not       *)
(* change, whatever resets, replaces, restarts and takeovers came between, *)
(* unless a hold ran out its deadline before the session settled, or was   *)
(* released by a former holder in the middle of its successor's reset.     *)
Saves(w) == pc[w] = "save" /\ pc'[w] = "saved"
IdentityKept ==
  [][\A w \in Worker : Saves(w) /\ ~forced =>
       \A s \in Session : home[s].n = Commands(s) /\ home[s].n > 0 =>
         \E v \in {OldVersion} \cup {VersionOf[u] : u \in Worker} :
           LET fp == Script(s, v, home[s].n)
           IN fp \in DOMAIN ids' /\ ids'[fp] = home[s].cid]_vars

(* An operator's edit reaches a saved grouping. *)
EditsApplied == edits > applied ~> edits = applied

(* A rebuild hold ends. *)
HoldEnds == mark # NoMark ~> mark = NoMark
=============================================================================
