------------------------------ MODULE UrlCapture ------------------------------
(***************************************************************************)
(* The queue of payload URLs (store/artifacts.go, capture_discovery.go,    *)
(* harvest.go) and what works on it: discovery queues the URLs of commands,*)
(* one worker claims, fetches and publishes them (capture/worker.go), the  *)
(* harvest reads fetched scripts for more, retention removes rows and then *)
(* the files no row names any more.  The queue is a table of numbered rows *)
(* that survives a crash; the worker, its host gate and the mutex over the *)
(* evidence files do not.                                                  *)
(*                                                                         *)
(* Time is what is left of a lease or a backoff, and what has passed since *)
(* a row was created and last seen, each up to the point that matters.     *)
(***************************************************************************)
EXTENDS Integers, Sequences, FiniteSets, FiniteSetsExt, SequencesExt

CONSTANTS
  Url, Host, HostOf,      \* the URLs and the server of each
  Command,                \* the sets of URLs a command may name
  Payload, Names,         \* file contents, and the URLs a script names (none: no script)
  NoHost, NoPayload,
  Budget,                 \* attempts per URL
  LeaseFor, Backoff,      \* the lease of a claim; the pause after a failure, doubled each time
  MaxDepth, HostQuota,    \* stages of harvesting; harvested URLs per server and day
  Day, Keep,              \* the quota's window; retention
  Fortune                 \* bounds: commands, rows, mishaps, full disks, read errors, re-fetches

ASSUME UrlAssumption ==
  /\ Command \subseteq SUBSET Url /\ HostOf \in [Url -> Host] /\ Names \in [Payload -> SUBSET Url]
  /\ Budget > 0 /\ LeaseFor > 0 /\ Backoff > 0 /\ MaxDepth >= 0 /\ HostQuota > 0
  /\ 0 < Day /\ Day <= Keep /\ NoHost \notin Host /\ NoPayload \notin Payload

Terminal == {"fetched", "empty", "failed_permanently"}

VARIABLES
  command,      \* the URLs each command event names, in event order
  discovered,   \* the discovery's checkpoint
  artifact,     \* the rows, by id
  disk,         \* evidence files, by content
  harvest,      \* the harvest's cursor
  sources,      \* rows the running harvest has yet to read
  job,          \* the worker's claim
  fetching,     \* the host the re-fetch worker holds
  guard,        \* who holds captureMu
  unlink,       \* files of the rows retention has just deleted
  roomy,        \* the space gate is open
  fortune,
  fetches,      \* fetches begun for the row of a URL
  read, unread  \* rows whose script was queued; rows skipped on a read error

tableVars == <<discovered, artifact, harvest>>
memoryVars == <<sources, job, fetching, guard, unlink>>
tallyVars == <<fetches, read, unread>>
urlVars == <<command, tableVars, disk, memoryVars, roomy, fortune, tallyVars>>

-----------------------------------------------------------------------------
NewRow(u, d, late) ==
  [url |-> u, status |-> "pending", attempt |-> 0, lease |-> 0, wait |-> 0, sha |-> NoPayload,
   depth |-> d, age |-> 0, seen |-> late, kept |-> TRUE]
NoJob == [row |-> 0, attempt |-> 0, stage |-> "idle", got |-> NoPayload]

Ids == {i \in DOMAIN artifact : artifact[i].kept}
RowsFor(t, u) == {i \in DOMAIN t : t[i].kept /\ t[i].url = u}
InFlight == {i \in Ids : artifact[i].status \in {"pending", "capturing", "failed"}}

UrlInit ==
  /\ command = << >> /\ discovered = 0
  /\ artifact = << >> /\ disk = {} /\ harvest = 0
  /\ sources = << >> /\ job = NoJob /\ fetching = NoHost
  /\ guard = "free" /\ unlink = {}
  /\ roomy = TRUE /\ fortune \in Fortune
  /\ fetches = [u \in Url |-> 0] /\ read = {} /\ unread = {}

Lucky(what) == fortune[what] > 0 /\ fortune' = [fortune EXCEPT ![what] = @ - 1]

-----------------------------------------------------------------------------
(* The honeypot and the clock *)

Log(us) ==
  /\ Lucky("command")
  /\ command' = Append(command, us)
  /\ UNCHANGED <<tableVars, disk, memoryVars, roomy, tallyVars>>

Less(n) == Max({0, n - 1})
Older(n, cap) == Min({cap, n + 1})

PassTime ==
  /\ artifact' = [i \in DOMAIN artifact |->
       [artifact[i] EXCEPT !.lease = Less(@), !.wait = Less(@),
                           !.age = Older(@, Keep), !.seen = Older(@, Keep)]]
  /\ artifact' # artifact
  /\ UNCHANGED <<command, discovered, harvest, disk, memoryVars, roomy, fortune, tallyVars>>

SpaceChanges ==
  /\ IF roomy THEN Lucky("full") ELSE UNCHANGED fortune
  /\ roomy' = ~roomy
  /\ UNCHANGED <<command, tableVars, disk, memoryVars, tallyVars>>

-----------------------------------------------------------------------------
(* Discovery: rows and checkpoint in one transaction, under captureMu *)

(* A known URL is only seen again, no earlier than it was.  The command     *)
(* ran some time before its discovery.                                     *)
Queued(t, u, late) ==
  IF RowsFor(t, u) = {} THEN Append(t, NewRow(u, 0, late))
  ELSE [i \in DOMAIN t |-> IF i \in RowsFor(t, u) THEN [t[i] EXCEPT !.seen = Min({@, late})] ELSE t[i]]

Room(us) == Len(artifact) + Cardinality(us) <= fortune.rows

Discover ==
  /\ guard = "free" /\ discovered < Len(command)
  /\ LET us == command[discovered + 1] IN
       /\ Room(us)
       /\ \E late \in {0, Keep} :
            artifact' = FoldSet(LAMBDA u, t : Queued(t, u, late), artifact, us)
  /\ discovered' = discovered + 1
  /\ UNCHANGED <<command, harvest, disk, memoryVars, roomy, fortune, tallyVars>>

-----------------------------------------------------------------------------
(* The capture worker *)

(* Retention holds the write mutex, too, until its last unlink. *)
Writable == guard # "retention"

\* mutant: only a recorded failure settles the row
ExhaustedIdle(i) == artifact[i].attempt >= Budget /\ artifact[i].status # "capturing"

(* A crash in the last attempt must not leave a row in flight for good. *)
Exhausted(i) == artifact[i].attempt >= Budget /\ artifact[i].lease = 0

(* DueArtifactCaptures settles those first. *)
SettleExhausted ==
  /\ roomy /\ job = NoJob /\ Writable
  /\ \E i \in InFlight : Exhausted(i)
  /\ artifact' = [i \in DOMAIN artifact |->
       IF i \in InFlight /\ Exhausted(i) THEN [artifact[i] EXCEPT !.status = "failed_permanently"]
       ELSE artifact[i]]
  /\ UNCHANGED <<command, discovered, harvest, disk, memoryVars, roomy, fortune, tallyVars>>

HasBudget(i) == artifact[i].attempt < Budget
Due == {i \in InFlight : HasBudget(i) /\ artifact[i].lease = 0 /\ artifact[i].wait = 0}

(* The gate: one fetch per server across the two workers. *)
GateOpen(h) == h # fetching

(* The oldest due row; the attempt is spent before the fetch begins. *)
Claim ==
  /\ roomy /\ job = NoJob /\ Writable /\ ~(\E i \in InFlight : Exhausted(i))
  /\ Due # {}
  /\ LET i == Min(Due) IN
       /\ GateOpen(HostOf[artifact[i].url])
       /\ artifact' = [artifact EXCEPT ![i].status = "capturing", ![i].attempt = @ + 1,
                                       ![i].lease = LeaseFor, ![i].wait = 0]
       /\ job' = [NoJob EXCEPT !.row = i, !.attempt = artifact[i].attempt + 1, !.stage = "fetch"]
       /\ fetches' = [fetches EXCEPT ![artifact[i].url] = @ + 1]
  /\ UNCHANGED <<command, discovered, harvest, disk, sources, fetching, guard, unlink, roomy, fortune, read, unread>>

(* The fence: this claim's attempt, under a lease that still runs. *)
Holds(i) ==
  /\ artifact[i].kept /\ artifact[i].status = "capturing"
  /\ artifact[i].attempt = job.attempt /\ artifact[i].lease > 0

(* The body arrives whole, into a temporary file. *)
Fetched(s) ==
  /\ job.stage = "fetch"
  /\ job' = [job EXCEPT !.stage = "publish", !.got = s]
  /\ UNCHANGED <<command, tableVars, disk, sources, fetching, guard, unlink, roomy, fortune, tallyVars>>

(* A failure: another attempt after the backoff, or the end of the row. *)
NotFetched(status) ==
  /\ job.stage = "fetch" /\ Writable
  /\ LET i == job.row
         final == IF status = "failed" /\ job.attempt >= Budget THEN "failed_permanently" ELSE status
     IN artifact' = IF ~Holds(i) THEN artifact
                    ELSE [artifact EXCEPT ![i].status = final, ![i].lease = 0,
                            ![i].wait = IF final = "failed" THEN Backoff * 2^(job.attempt - 1) ELSE 0]
  /\ job' = NoJob
  /\ UNCHANGED <<command, discovered, harvest, disk, sources, fetching, guard, unlink, roomy, fortune, tallyVars>>

GuardFree == guard = "free"

(* Under captureMu, unless the deadline, nine tenths of the lease, has     *)
(* passed: the file gets its name, or the one that has it is adopted.      *)
Publish ==
  /\ job.stage = "publish" /\ GuardFree /\ artifact[job.row].lease > 0
  /\ guard' = IF guard = "free" THEN "worker" ELSE guard
  /\ disk' = disk \cup {job.got}
  /\ job' = [job EXCEPT !.stage = "complete"]
  /\ UNCHANGED <<command, tableVars, sources, fetching, unlink, roomy, fortune, tallyVars>>

(* Past the deadline, or the publication failed: the lease lapses. *)
DropFetch ==
  /\ job.stage = "publish"
  /\ artifact[job.row].lease = 0 \/ fortune.mishap > 0
  /\ fortune' = IF artifact[job.row].lease = 0 THEN fortune ELSE [fortune EXCEPT !.mishap = @ - 1]
  /\ job' = NoJob
  /\ UNCHANGED <<command, tableVars, disk, sources, fetching, guard, unlink, roomy, tallyVars>>

Complete ==
  /\ job.stage = "complete" /\ Writable
  /\ artifact' = IF ~Holds(job.row) THEN artifact
                 ELSE [artifact EXCEPT ![job.row].status = "fetched", ![job.row].sha = job.got,
                                       ![job.row].lease = 0]
  /\ job' = NoJob
  /\ guard' = IF guard = "worker" THEN "free" ELSE guard
  /\ UNCHANGED <<command, discovered, harvest, disk, sources, fetching, unlink, roomy, fortune, tallyVars>>

CaptureHost == IF job.stage = "idle" THEN NoHost ELSE HostOf[artifact[job.row].url]

(* The re-fetch worker takes and frees a server in the same gate. *)
RefetchTakes(h) ==
  /\ fetching = NoHost /\ CaptureHost # h /\ Lucky("busy") /\ fetching' = h
  /\ UNCHANGED <<command, tableVars, disk, sources, job, guard, unlink, roomy, tallyVars>>

RefetchFrees ==
  /\ fetching # NoHost /\ fetching' = NoHost
  /\ UNCHANGED <<command, tableVars, disk, sources, job, guard, unlink, roomy, fortune, tallyVars>>

-----------------------------------------------------------------------------
(* The harvest *)

\* mutant: the cursor passes rows in flight
HorizonOpen == Len(artifact) + 1

(* Rows at or past the oldest in flight are held back. *)
Horizon == IF InFlight = {} THEN Len(artifact) + 1 ELSE Min(InFlight)

HarvestCandidates ==
  {i \in Ids : i > harvest /\ i < Horizon /\ artifact[i].status = "fetched" /\ artifact[i].depth < MaxDepth}

BeginHarvest ==
  /\ sources = << >> /\ HarvestCandidates # {}
  /\ sources' = SetToSortSeq(HarvestCandidates, <)
  /\ UNCHANGED <<command, tableVars, disk, job, fetching, guard, unlink, roomy, fortune, tallyVars>>

\* mutant: only what has been fetched counts
HarvestedFetched(t, h) ==
  Cardinality({i \in DOMAIN t : t[i].kept /\ t[i].depth > 0 /\ t[i].age < Day
                                 /\ HostOf[t[i].url] = h /\ t[i].status = "fetched"})

HarvestedToday(t, h) ==
  Cardinality({i \in DOMAIN t : t[i].kept /\ t[i].depth > 0 /\ t[i].age < Day
                                 /\ HostOf[t[i].url] = h})

(* INSERT OR IGNORE: a known URL is left alone. *)
Named(t, u, d) ==
  IF RowsFor(t, u) # {} \/ HarvestedToday(t, HostOf[u]) >= HostQuota THEN t
  ELSE Append(t, NewRow(u, d, 0))

(* One source: its URLs and the cursor in one transaction. *)
ReadSource ==
  /\ sources # << >> /\ guard = "free"
  /\ LET i == sources[1]
         row == artifact[i]
         us == IF row.sha \in disk THEN Names[row.sha] ELSE {}
     IN /\ Room(us)
        /\ artifact' = FoldSet(LAMBDA u, t : Named(t, u, row.depth + 1), artifact, us)
        /\ harvest' = Max({harvest, i})
        /\ read' = read \cup {i}
  /\ sources' = Tail(sources)
  /\ UNCHANGED <<command, discovered, disk, job, fetching, guard, unlink, roomy, fortune, fetches, unread>>

(* A file that cannot be read is passed over, so it stops nothing behind it. *)
SkipSource ==
  /\ sources # << >> /\ Writable /\ Lucky("misread")
  /\ harvest' = Max({harvest, sources[1]}) /\ unread' = unread \cup {sources[1]}
  /\ sources' = Tail(sources)
  /\ UNCHANGED <<command, discovered, artifact, disk, job, fetching, guard, unlink, roomy, fetches, read>>

-----------------------------------------------------------------------------
(* Retention: delete the rows, commit, then unlink what no row names,      *)
(* under captureMu to the end                                              *)

Expired == {i \in Ids \ InFlight : artifact[i].seen >= Keep}
FilesOf(is) == {artifact[i].sha : i \in is} \ {NoPayload}

PurgeRows ==
  /\ guard = "free" /\ Expired # {}
  /\ artifact' = [i \in DOMAIN artifact |->
                    IF i \in Expired THEN [artifact[i] EXCEPT !.kept = FALSE] ELSE artifact[i]]
  /\ unlink' = FilesOf(Expired)
  /\ guard' = IF FilesOf(Expired) = {} THEN "free" ELSE "retention"
  /\ fetches' = [u \in Url |-> IF \E i \in Expired : artifact[i].url = u THEN 0 ELSE fetches[u]]
  /\ UNCHANGED <<command, discovered, harvest, disk, sources, job, fetching, roomy, fortune, read, unread>>

Unnamed(s) == \A i \in Ids : artifact[i].sha # s

Unlink ==
  /\ guard = "retention"
  /\ \E s \in unlink :
       /\ disk' = IF Unnamed(s) THEN disk \ {s} ELSE disk
       /\ unlink' = unlink \ {s}
       /\ guard' = IF unlink = {s} THEN "free" ELSE guard
  /\ UNCHANGED <<command, tableVars, sources, job, fetching, roomy, fortune, tallyVars>>

-----------------------------------------------------------------------------
Crash ==
  /\ Lucky("mishap")
  /\ job' = NoJob /\ sources' = << >> /\ fetching' = NoHost
  /\ guard' = "free" /\ unlink' = {}
  /\ UNCHANGED <<command, tableVars, disk, roomy, tallyVars>>

UrlNext ==
  \/ \E us \in Command : Log(us)
  \/ PassTime \/ SpaceChanges \/ Discover
  \/ SettleExhausted \/ Claim
  \/ \E s \in Payload : Fetched(s)
  \/ \E status \in {"failed", "empty", "failed_permanently"} : NotFetched(status)
  \/ Publish \/ DropFetch \/ Complete
  \/ \E h \in Host : RefetchTakes(h)
  \/ RefetchFrees
  \/ BeginHarvest \/ ReadSource \/ SkipSource
  \/ PurgeRows \/ Unlink \/ Crash

WorkerStep ==
  \/ SettleExhausted \/ Claim
  \/ \E s \in Payload : Fetched(s)
  \/ \E status \in {"failed", "empty", "failed_permanently"} : NotFetched(status)
  \/ Publish \/ DropFetch \/ Complete

(* Time passes, the worker polls, a full disk is emptied, the re-fetch     *)
(* worker's fetch ends and leaves the gate open long enough to be seen.    *)
UrlSpec ==
  /\ UrlInit /\ [][UrlNext]_urlVars
  /\ WF_urlVars(PassTime) /\ SF_urlVars(WorkerStep) /\ WF_urlVars(Unlink)
  /\ WF_urlVars(RefetchFrees) /\ WF_urlVars(~roomy /\ SpaceChanges)

-----------------------------------------------------------------------------
(* What attackers typed makes a target of nobody: a URL is fetched at most *)
(* Budget times while its row lives, however often the process dies, a     *)
(* lease lapses or the URL is named again; and a day's harvested URLs per  *)
(* server stay within the quota, whichever scripts named them, those whose *)
(* rows retention has removed counted in.                                  *)
FetchesRationed ==
  /\ \A u \in Url : RowsFor(artifact, u) # {} => fetches[u] <= Budget
  /\ \A h \in Host :
       Cardinality({i \in DOMAIN artifact :
         artifact[i].depth > 0 /\ artifact[i].age < Day /\ HostOf[artifact[i].url] = h}) <= HostQuota

(* What was fetched is neither lost nor passed over: every row that says   *)
(* so has its file, also when two rows share it and retention removes one  *)
(* while the other is being published, and the harvest's cursor is behind  *)
(* every script nobody read, one fetched after later rows were done too.   *)
FetchedIsRead ==
  \A i \in Ids :
    artifact[i].status = "fetched" =>
      /\ artifact[i].sha \in disk
      /\ i <= harvest /\ artifact[i].depth < MaxDepth => i \in read \cup unread

(* Every queued URL comes to an end, once none are named: no row is left   *)
(* in flight by a crash, a spent budget, a full disk or a busy server.     *)
EveryUrlSettles == <>[](InFlight = {})
====
