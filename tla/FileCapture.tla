----------------------------- MODULE FileCapture -----------------------------
(***************************************************************************)
(* Archiving the files attackers leave: discovery turns file events into   *)
(* jobs (store/capture_files.go), a worker claims a job, copies the file   *)
(* Cowrie kept into the evidence directory and records it                  *)
(* (capture/file_worker.go), the directory sync does the same for files no *)
(* event names (capture/source_scan.go), and retention removes sources,    *)
(* evidence, events and finished jobs (store/capture_retention.go).        *)
(*                                                                         *)
(* Two locks order a process's goroutines: captureMu, held from the        *)
(* publication of a file to its record and from the deletion of a record   *)
(* to the removal of its file, and writeMu.  Another process takes         *)
(* neither: it meets this one in the database only.                        *)
(*                                                                         *)
(* Downloads and evidence are content-addressed, so a file is its content. *)
(***************************************************************************)
EXTENDS Integers, FiniteSets, FiniteSetsExt

CONSTANTS
  Process,      \* the processes with a file worker
  Retainer,     \* those that run retention
  Content,
  OldEvents,    \* the file events discovery passed when only downloads were jobs
  Page,         \* rows per discovery page
  Span,         \* uploadBackfillSpan
  Lease,        \* a claim's lease
  Backoff,      \* the first retry's delay
  MaxAttempts,  \* fileCaptureMaxAttempts
  ReleaseAfter, \* uploadBackfillReleaseAfter
  MaxTime,      \* bound on the clock: it stands for all later times
  MaxEvents,    \* bound on event ids
  MaxTroubles,  \* bound on failures and crashes
  MaxSteps      \* bound on steps of the clock

ASSUME RetentionAssumption == Retainer \subseteq Process /\ \A p \in Retainer : Process = {p}
ASSUME PageAssumption == Page \in Nat \ {0} /\ Span \in Nat \ {0}
ASSUME LeaseAssumption == Lease \in Nat \ {0} /\ Backoff \in Nat \ {0} /\ MaxAttempts \in Nat \ {0}
ASSUME OldEventsAssumption ==
  /\ OldEvents \subseteq [id : Nat \ {0}, kind : {"download", "upload", "malformed"},
                         file : Content, hashed : BOOLEAN]
  /\ IsFiniteSet(OldEvents)

NoRow == -1    \* no backfill row yet
Raw == 0       \* the artifact of a file seen in the directory, not of an event

VARIABLES
  \* events and Cowrie's files
  events, lastID, logged,     \* in the database; its last id; written, not ingested
  source,                     \* the files in Cowrie's downloads directory
  \* discovery
  cursor, ceiling, progress,  \* file-downloads-v1; file-uploads-backfill-v1
  jobs,                       \* capture_file_jobs, by event id
  \* results
  artifacts,                  \* rows [of : event id or Raw, file]
  evidence,                   \* the files in the evidence directory
  \* each process
  pc, task,                   \* the file worker
  captureMu, inHand,          \* who holds it; the files that holder works on
  streak, released,           \* the runner's upload backfill failures
  \* time and luck
  wall, left,
  \* history
  lost,                       \* the events whose file was gone before they had a job
  claimant                    \* who claimed a job last

cowrie == <<events, lastID, logged, source>>
checkpoint == <<cursor, ceiling, progress>>
results == <<artifacts, evidence>>
runner == <<streak, released>>
lock == <<captureMu, inHand>>
worker == <<pc, task>>
luck == <<wall, left>>
history == <<lost, claimant>>
vars == <<cowrie, checkpoint, jobs, results, worker, lock, runner, luck, history>>

-----------------------------------------------------------------------------
LastOf(E) == IF E = {} THEN 0 ELSE Max({e.id : e \in E})
AtMost(n, ids) == {i \in ids : Cardinality({k \in ids : k <= i}) <= n}
EventOf(id) == CHOOSE e \in events : e.id = id
Retained(id) == \E e \in events : e.id = id

Live == {"pending", "retry", "leased"}
Terminal == {"archived", "rejected", "failed"}
(* Times are never NULL here: 0 is before every clock that is read. *)
Job(e) ==
  [file |-> e.file, hashed |-> e.hashed, attempts |-> 0, token |-> 0,
   state |-> IF e.kind = "malformed" THEN "rejected" ELSE "pending",
   started |-> 0, until |-> 0, clock |-> 0, next |-> 0]
LiveJobs == {id \in DOMAIN jobs : jobs[id].state \in Live}

NoTask == [id |-> 0, file |-> "", token |-> 0, now |-> 0, status |-> "", missing |-> FALSE]
Stage == {"idle", "claim", "adopt", "copy", "publish", "record", "report"}

(* A database whose discovery, for downloads only, had passed OldEvents. *)
Init ==
  /\ events = OldEvents /\ lastID = LastOf(OldEvents) /\ logged = {}
  /\ source = {e.file : e \in OldEvents}
  /\ cursor = lastID /\ ceiling = NoRow /\ progress = NoRow
  /\ jobs = [id \in {e.id : e \in {d \in OldEvents : d.kind # "upload"}} |-> Job(EventOf(id))]
  /\ artifacts = {} /\ evidence = {}
  /\ pc = [p \in Process |-> "idle"] /\ task = [p \in Process |-> NoTask]
  /\ captureMu = [p \in Process |-> "free"] /\ inHand = [p \in Process |-> {}]
  /\ streak = [p \in Process |-> 0] /\ released = [p \in Process |-> FALSE]
  /\ wall = 0
  /\ left = [trouble |-> MaxTroubles, step |-> MaxSteps]
  /\ lost = {} /\ claimant = << >>

Spend(what) == left[what] > 0 /\ left' = [left EXCEPT ![what] = @ - 1]
Goto(p, to) == pc' = [pc EXCEPT ![p] = to]
Recall(p, what) == task' = [task EXCEPT ![p] = what]
Rest(p) == Goto(p, "idle") /\ Recall(p, NoTask)
(* Every write transaction takes writeMu, which a purge holds throughout. *)
CanWrite(p) == captureMu[p] # "purge"

-----------------------------------------------------------------------------
(* Cowrie and ingest *)

(* Cowrie keeps a delivered file under its hash, once, and logs the event. *)
Deliver(kind, c, hashed) ==
  /\ lastID + Cardinality(logged) < MaxEvents
  /\ source' = source \cup {c}
  /\ logged = {} /\ logged' = {[kind |-> kind, file |-> c, hashed |-> hashed]}
  /\ UNCHANGED <<events, lastID, checkpoint, jobs, results, worker, lock, runner, luck, history>>

Sourceless(E) == {e.id : e \in {f \in E : f.file \notin source}}

Ingest(p) ==
  /\ CanWrite(p)
  /\ \E d \in logged :
       /\ logged' = logged \ {d}
       /\ lastID' = lastID + 1
       /\ events' = events \cup
            {[id |-> lastID + 1, kind |-> d.kind, file |-> d.file, hashed |-> d.hashed]}
  /\ lost' = lost \cup Sourceless(events' \ events)
  /\ UNCHANGED <<source, checkpoint, jobs, results, worker, lock, runner, luck, claimant>>

(* `ingest cowrie --replace`: the same events under new ids. *)
Replace(p) ==
  /\ CanWrite(p)
  /\ events # {} /\ lastID + Cardinality(events) + Cardinality(logged) <= MaxEvents
  /\ events' = {[e EXCEPT !.id = lastID + Cardinality({f \in events : f.id <= e.id})] : e \in events}
  /\ lastID' = lastID + Cardinality(events)
  /\ lost' = lost \cup Sourceless(events')
  /\ UNCHANGED <<logged, source, checkpoint, jobs, results, worker, lock, runner, luck, claimant>>

-----------------------------------------------------------------------------
(* Discovery *)

(* queueFileCaptureRows: INSERT OR IGNORE, one job per event. *)
Queued(ids) ==
  [id \in DOMAIN jobs \cup ids |-> IF id \in DOMAIN jobs THEN jobs[id] ELSE Job(EventOf(id))]

(* Where a new backfill row starts: just below the oldest event retained. *)
OldestRetained == IF events = {} THEN 0 ELSE Min({e.id : e \in events}) - 1

(* DiscoverFileCaptures *)
Discover(p) ==
  LET page == AtMost(Page, {e.id : e \in {f \in events : f.id > cursor}})
  IN
  /\ captureMu[p] = "free"
  /\ page # {} \/ ceiling = NoRow
  /\ IF ceiling = NoRow
       THEN ceiling' = cursor /\ progress' = Min({cursor, OldestRetained})
       ELSE UNCHANGED <<ceiling, progress>>
  /\ jobs' = Queued(page)
  /\ cursor' = Max({cursor} \cup page)
  /\ UNCHANGED <<cowrie, results, worker, lock, runner, luck, history>>

UploadsIn(low, high) == {e.id : e \in {f \in events : f.kind = "upload" /\ f.id > low /\ f.id <= high}}

(* A short page read the whole span, a full one resumes after its last row. *)
BackfillEnd(page, top) == IF Cardinality(page) < Page THEN top ELSE Max(page)

(* BackfillUploadCaptures, and the runner's failure streak. *)
Backfill(p) ==
  LET top == Min({ceiling, progress + Span})
      page == AtMost(Page, UploadsIn(progress, top))
  IN
  /\ captureMu[p] = "free"
  /\ progress < ceiling \/ streak[p] > 0
  /\ IF progress < ceiling
       THEN jobs' = Queued(page) /\ progress' = BackfillEnd(page, top)
       ELSE UNCHANGED <<jobs, progress>>
  /\ streak' = [streak EXCEPT ![p] = 0]
  /\ released' = [released EXCEPT ![p] = IF streak[p] >= ReleaseAfter THEN FALSE ELSE @]
  /\ UNCHANGED <<cowrie, cursor, ceiling, results, worker, lock, luck, history>>

BackfillFails(p) ==
  /\ captureMu[p] = "free"
  /\ Spend("trouble")
  /\ streak' = [streak EXCEPT ![p] = @ + 1]
  /\ released' = [released EXCEPT ![p] = @ \/ streak'[p] = ReleaseAfter]
  /\ UNCHANGED <<cowrie, checkpoint, jobs, results, worker, lock, wall, history>>

-----------------------------------------------------------------------------
(* ClaimFileCaptures *)

Later(t) == Min({t, MaxTime})

Unexpired(j, now) == j.until > now
SeenLater(j, now) == j.clock > now   \* the clock has gone back since

NeverExhausted(now) == {}  \* mutant

Exhausted(now) ==
  {id \in DOMAIN jobs : /\ jobs[id].state = "leased" /\ jobs[id].attempts >= MaxAttempts
                        /\ ~Unexpired(jobs[id], now) /\ ~SeenLater(jobs[id], now)}

Due(now) ==
  {id \in LiveJobs : /\ jobs[id].attempts < MaxAttempts /\ jobs[id].next <= now
                     /\ ~Unexpired(jobs[id], now) /\ ~SeenLater(jobs[id], now)}

(* ORDER BY next_attempt_at, id LIMIT 1 *)
First(ids) ==
  {i \in ids : \A k \in ids :
    jobs[i].next < jobs[k].next \/ (jobs[i].next = jobs[k].next /\ i <= k)}

GivenUp(j, now) ==
  [j EXCEPT !.state = "failed", !.token = @ + 1, !.until = 0, !.clock = now]
Claimed(j, now) ==
  [j EXCEPT !.state = "leased", !.attempts = @ + 1, !.token = @ + 1,
            !.started = now, !.until = Later(now + Lease), !.clock = now]

(* The tick reads its clock, and then waits for the writer lock. *)
BeginTick(p) ==
  /\ pc[p] = "idle"
  /\ Goto(p, "claim")
  /\ Recall(p, [NoTask EXCEPT !.now = wall])
  /\ UNCHANGED <<cowrie, checkpoint, jobs, results, lock, runner, luck, history>>

Claim(p) ==
  LET now == task[p].now
      over == Exhausted(now)
      due == Due(now)
      swept == [i \in DOMAIN jobs |-> IF i \in over THEN GivenUp(jobs[i], now) ELSE jobs[i]]
  IN
  /\ pc[p] = "claim" /\ CanWrite(p)
  /\ \/ /\ due = {}
        /\ jobs' = swept
        /\ Rest(p) /\ UNCHANGED claimant
     \/ \E id \in First(due) :
          /\ jobs' = [swept EXCEPT ![id] = Claimed(jobs[id], now)]
          /\ Goto(p, IF jobs[id].hashed THEN "adopt" ELSE "copy")
          /\ Recall(p, [NoTask EXCEPT !.id = id, !.file = jobs[id].file, !.token = jobs[id].token + 1])
          /\ claimant' = [i \in DOMAIN claimant \cup {id} |-> IF i = id THEN p ELSE claimant[i]]
  /\ UNCHANGED <<cowrie, checkpoint, results, lock, runner, luck, lost>>

-----------------------------------------------------------------------------
(* CompleteFileCapture *)

Tokenless(p) == TRUE  \* mutant

(* The job is this claim's. *)
SameClaim(p) == jobs[task[p].id].token = task[p].token

Held(p, now) ==
  /\ task[p].id \in DOMAIN jobs
  /\ SameClaim(p)
  /\ LET j == jobs[task[p].id]
     IN j.state = "leased" /\ j.started <= now /\ Unexpired(j, now) /\ ~SeenLater(j, now)

(* What the result makes of the job: an upload that is missing is not      *)
(* coming back, and a retry needs attempts left.                           *)
Outcome(id, status, missing) ==
  CASE status # "retry" -> status
    [] missing /\ Retained(id) /\ EventOf(id).kind = "upload" -> "failed"
    [] jobs[id].attempts >= MaxAttempts -> "failed"
    [] OTHER -> "retry"

Completed(id, status, missing, now) ==
  LET outcome == Outcome(id, status, missing)
  IN [jobs EXCEPT
        ![id].state = outcome,
        ![id].next = IF outcome = "retry"
                       THEN Later(now + Backoff * 2^(jobs[id].attempts - 1)) ELSE now,
        ![id].until = 0,
        ![id].clock = now]

(* A refused claim of its own ends with the lease: no later clock revives it. *)
Refused(p, now) ==
  LET id == task[p].id
  IN IF id \in DOMAIN jobs /\ SameClaim(p) /\ jobs[id].state = "leased"
       THEN [jobs EXCEPT
               ![id].state = IF jobs[id].attempts >= MaxAttempts THEN "failed" ELSE "retry",
               ![id].token = @ + 1,
               ![id].until = 0,
               ![id].next = Max({jobs[id].clock, now}),
               ![id].clock = Max({@, now})]
       ELSE jobs

(* In one transaction: the artifact with the job, or neither. *)
Complete(p) ==
  LET now == task[p].now
      id == task[p].id
      held == Held(p, now)
  IN
  /\ pc[p] \in {"record", "report"} /\ CanWrite(p)
  /\ jobs' = IF held THEN Completed(id, task[p].status, task[p].missing, now) ELSE Refused(p, now)
  /\ artifacts' = IF held /\ task[p].status = "archived"
                    THEN artifacts \cup {[of |-> id, file |-> jobs[id].file]} ELSE artifacts
  /\ captureMu' = [captureMu EXCEPT ![p] = IF pc[p] = "record" THEN "free" ELSE @]
  /\ Rest(p)
  /\ UNCHANGED <<cowrie, checkpoint, evidence, inHand, runner, luck, history>>

-----------------------------------------------------------------------------
(* archive *)

Wanted(p) == task[p].file

(* The result is recorded with a clock read now. *)
Report(p, status, missing) ==
  /\ Goto(p, "report")
  /\ Recall(p, [task[p] EXCEPT !.now = wall, !.status = status, !.missing = missing])
Record(p) ==
  /\ captureMu' = [captureMu EXCEPT ![p] = "worker"]
  /\ Goto(p, "record")
  /\ Recall(p, [task[p] EXCEPT !.now = wall, !.status = "archived"])

(* A file that is in evidence already is verified and adopted. *)
Adopt(p) ==
  /\ pc[p] = "adopt" /\ captureMu[p] = "free"
  /\ IF Wanted(p) \in evidence
       THEN Record(p)
       ELSE Goto(p, "copy") /\ UNCHANGED <<task, captureMu>>
  /\ UNCHANGED <<cowrie, checkpoint, jobs, results, inHand, runner, luck, history>>

(* The copy is made outside both locks, under a temporary name. *)
Copy(p) ==
  /\ pc[p] = "copy"
  /\ IF Wanted(p) \in source
       THEN Goto(p, "publish") /\ UNCHANGED task
       ELSE Report(p, "retry", TRUE)
  /\ UNCHANGED <<cowrie, checkpoint, jobs, results, lock, runner, luck, history>>

Publish(p) ==
  /\ pc[p] = "publish" /\ captureMu[p] = "free"
  /\ evidence' = evidence \cup {Wanted(p)}
  /\ Record(p)
  /\ UNCHANGED <<cowrie, checkpoint, jobs, artifacts, inHand, runner, luck, history>>

(* Reading, writing or verifying fails, or the time for the task is up. *)
FailTask(p) ==
  /\ pc[p] \in {"adopt", "copy", "publish"}
  /\ Spend("trouble")
  /\ \E status \in {"retry", "rejected"} : Report(p, status, FALSE)
  /\ UNCHANGED <<cowrie, checkpoint, jobs, results, lock, runner, wall, history>>

(* A store call fails: the job stays leased. *)
FailWrite(p) ==
  /\ pc[p] \in {"claim", "record", "report"}
  /\ Spend("trouble")
  /\ captureMu' = [captureMu EXCEPT ![p] = IF pc[p] = "record" THEN "free" ELSE @]
  /\ Rest(p)
  /\ UNCHANGED <<cowrie, checkpoint, jobs, results, inHand, runner, wall, history>>

-----------------------------------------------------------------------------
(* syncCowrieSources: a file no row accounts for yet. *)
SyncCopy(p, c) ==
  /\ captureMu[p] = "free"
  /\ c \in source /\ [of |-> Raw, file |-> c] \notin artifacts
  /\ evidence' = evidence \cup {c}
  /\ captureMu' = [captureMu EXCEPT ![p] = "sync"]
  /\ inHand' = [inHand EXCEPT ![p] = {c}]
  /\ UNCHANGED <<cowrie, checkpoint, jobs, artifacts, worker, runner, luck, history>>

SyncRecord(p) ==
  /\ captureMu[p] = "sync"
  /\ artifacts' = artifacts \cup {[of |-> Raw, file |-> c] : c \in inHand[p]}
  /\ captureMu' = [captureMu EXCEPT ![p] = "free"]
  /\ inHand' = [inHand EXCEPT ![p] = {}]
  /\ UNCHANGED <<cowrie, checkpoint, jobs, evidence, worker, runner, luck, history>>

-----------------------------------------------------------------------------
(* Retention.  Ages are left out: whatever the guards allow may be old     *)
(* enough.                                                                 *)

(* Retention's goroutine starts once the seed has returned, and the seed's *)
(* runner passes DiscoverFileCaptures, which commits the backfill row.     *)
Seeded == ceiling # NoRow

(* Events that no job accounts for yet. *)
Undiscovered == cursor < LastOf(events)
BackfillNear == progress + Span < ceiling  \* mutant
Unbackfilled == progress < ceiling

LeasedOnly(c) ==  \* mutant
  \E id \in LiveJobs : jobs[id].file = c /\ jobs[id].state = "leased"

(* CaptureFileProtected's query *)
Protected(c) == \E id \in LiveJobs : jobs[id].file = c

(* RemoveCaptureSourceIfSafe, both locks held. *)
RemoveSource(p, c) ==
  /\ p \in Retainer /\ Seeded /\ captureMu[p] = "free"
  /\ c \in source
  /\ ~Undiscovered
  /\ ~(Unbackfilled /\ ~released[p])
  /\ ~Protected(c)
  /\ source' = source \ {c}
  /\ lost' = lost \cup {e.id : e \in {f \in events : f.file = c /\ f.id \notin DOMAIN jobs}}
  /\ UNCHANGED <<events, lastID, logged, checkpoint, jobs, results, worker, lock, runner,
                 luck, claimant>>

(* The artifact of a job whose event is still retained stays. *)
Kept(a) ==
  a.of # Raw /\ a.of \in DOMAIN jobs /\ jobs[a.of].state = "archived" /\ Retained(a.of)

(* purgeArtifacts: the rows of a page go first ... *)
PurgeArtifacts(p) ==
  /\ p \in Retainer /\ Seeded /\ captureMu[p] = "free"
  /\ \E S \in SUBSET {a \in artifacts : ~Kept(a)} \ {{}} :
       /\ artifacts' = artifacts \ S
       /\ inHand' = [inHand EXCEPT ![p] = {a.file : a \in S}]
  /\ captureMu' = [captureMu EXCEPT ![p] = "purge"]
  /\ UNCHANGED <<cowrie, checkpoint, jobs, evidence, worker, runner, luck, history>>

(* ... then the files no row names any more. *)
Unreferenced(c) == \A a \in artifacts : a.file # c

RemoveEvidence(p) ==
  /\ captureMu[p] = "purge"
  /\ \E c \in inHand[p] :
       /\ evidence' = IF Unreferenced(c) THEN evidence \ {c} ELSE evidence
       /\ inHand' = [inHand EXCEPT ![p] = @ \ {c}]
       /\ captureMu' = [captureMu EXCEPT ![p] = IF inHand'[p] = {} THEN "free" ELSE @]
  /\ UNCHANGED <<cowrie, checkpoint, jobs, artifacts, worker, runner, luck, history>>

(* MaintenancePurgeContext: an expired event goes only behind the cursor. *)
PurgeEvent(p) ==
  /\ p \in Retainer /\ Seeded /\ captureMu[p] = "free"
  /\ \E e \in events : e.id <= cursor /\ events' = events \ {e}
  /\ UNCHANGED <<lastID, logged, source, checkpoint, jobs, results, worker, lock, runner,
                 luck, history>>

(* purgeCaptureDiagnostics: a finished job whose event is gone. *)
PurgeJob(p) ==
  /\ p \in Retainer /\ Seeded /\ CanWrite(p)
  /\ \E id \in DOMAIN jobs :
       /\ jobs[id].state \in Terminal /\ ~Retained(id)
       /\ jobs' = [i \in DOMAIN jobs \ {id} |-> jobs[i]]
  /\ UNCHANGED <<cowrie, checkpoint, results, worker, lock, runner, luck, history>>

(* A sync that cannot record, or a purge that cannot unlink, stops there. *)
StopShort(p) ==
  /\ captureMu[p] \in {"sync", "purge"}
  /\ Spend("trouble")
  /\ captureMu' = [captureMu EXCEPT ![p] = "free"] /\ inHand' = [inHand EXCEPT ![p] = {}]
  /\ UNCHANGED <<cowrie, checkpoint, jobs, results, worker, runner, wall, history>>

-----------------------------------------------------------------------------
(* Processes and the clock *)

Crash(p) ==
  /\ Spend("trouble")
  /\ Rest(p)
  /\ captureMu' = [captureMu EXCEPT ![p] = "free"] /\ inHand' = [inHand EXCEPT ![p] = {}]
  /\ streak' = [streak EXCEPT ![p] = 0] /\ released' = [released EXCEPT ![p] = FALSE]
  /\ UNCHANGED <<cowrie, checkpoint, jobs, results, wall, history>>

Tick == wall < MaxTime /\ wall' = wall + 1
        /\ UNCHANGED <<cowrie, checkpoint, jobs, results, worker, lock, runner, left, history>>

StepWall ==
  /\ Spend("step")
  /\ wall' \in 0..MaxTime
  /\ UNCHANGED <<cowrie, checkpoint, jobs, results, worker, lock, runner, history>>

WorkerStep(p) ==
  BeginTick(p) \/ Claim(p) \/ Adopt(p) \/ Copy(p) \/ Publish(p) \/ Complete(p)
RunnerStep(p) ==
  Discover(p) \/ Backfill(p) \/ SyncRecord(p) \/ \E c \in Content : SyncCopy(p, c)
Retention(p) ==
  \/ \E c \in Content : RemoveSource(p, c)
  \/ PurgeArtifacts(p) \/ RemoveEvidence(p) \/ PurgeEvent(p) \/ PurgeJob(p)
Trouble(p) == FailTask(p) \/ FailWrite(p) \/ BackfillFails(p) \/ StopShort(p) \/ Crash(p)

Next ==
  \/ \E p \in Process :
       WorkerStep(p) \/ RunnerStep(p) \/ Retention(p) \/ Trouble(p) \/ Ingest(p) \/ Replace(p)
  \/ \E c \in Content :
       \/ Deliver("upload", c, TRUE)
       \/ \E hashed \in BOOLEAN : Deliver("download", c, hashed)
       \/ Deliver("malformed", c, FALSE)
  \/ Tick \/ StepWall

Spec == Init /\ [][Next]_vars

(* The goroutines keep running (retention sleeps a day between its rounds), *)
(* and time passes.                                                         *)
FairSpec ==
  /\ Spec
  /\ \A p \in Process :
       /\ WF_vars(WorkerStep(p)) /\ WF_vars(Discover(p)) /\ WF_vars(Backfill(p))
       /\ WF_vars(SyncRecord(p)) /\ WF_vars(RemoveEvidence(p)) /\ WF_vars(Ingest(p))
  /\ WF_vars(Tick)

-----------------------------------------------------------------------------
(* Properties *)

(* No file event is skipped: behind the main cursor every retained one has *)
(* its job, but for the uploads the backfill has still to reach.           *)
NothingSkipped ==
  \A e \in events :
    /\ e.id <= cursor
    /\ e.kind = "upload" => IF ceiling = NoRow THEN FALSE ELSE e.id > ceiling \/ e.id <= progress
    => e.id \in DOMAIN jobs

(* Every artifact row's file is in evidence, whatever a purge removes or a *)
(* crash interrupts between a file and its row.                            *)
EvidenceKept == \A a \in artifacts : a.file \in evidence

(* Retention leaves a job its source: an unfinished job's file is in the   *)
(* downloads directory if it was there until the job was queued.           *)
SourceHeld == \A id \in LiveJobs \ lost : jobs[id].file \in source

(* From the event to the evidence nothing is lost on the way.              *)
NothingLost == NothingSkipped /\ SourceHeld /\ EvidenceKept

(* A source is removed only once every upload that names it has its job,   *)
(* unless the backfill keeps failing.                                       *)
QueuedFirst ==
  \A c \in source \ source' : \A e \in events :
    e.kind = "upload" /\ e.file = c /\ (\A p \in Process : ~released[p]) => e.id \in DOMAIN jobs

(* So it goes for every removal, from the first one after an upgrade on.   *)
BackfillHolds == [][QueuedFirst]_vars

(* A result is recorded only by the process that claimed the job last,     *)
(* whatever its clock did since: a claim that was overtaken is refused.    *)
FencedResult ==
  [][\A p \in Process : \A id \in DOMAIN jobs :
       /\ pc[p] \in {"record", "report"} /\ pc'[p] = "idle" /\ task[p].id = id
       /\ jobs[id].state = "leased" /\ id \in DOMAIN jobs' /\ jobs'[id] # jobs[id]
       => claimant[id] = p]_vars

(* Every job ends: archived, rejected or failed, or removed after that. *)
JobsEnd == \A id \in 1..MaxEvents : id \in LiveJobs ~> id \notin LiveJobs
=============================================================================
