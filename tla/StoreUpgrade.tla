---------------------------- MODULE StoreUpgrade ----------------------------
(***************************************************************************)
(* Opening the database (store/sqlite.go, artifacts_v27.go): every Open    *)
(* asserts the base schema, reads the highest version stamped, climbs the  *)
(* rungs above it, and heals what was added to a rung that some databases  *)
(* had passed.  Some rungs are statements of their own, between which an   *)
(* opener may fail or die; the others are one transaction.  A daemon and   *)
(* commands open the same database and nothing locks the ladder, so the    *)
(* version an opener read may be out of date at any later step.            *)
(*                                                                         *)
(* A table, an index or a column is an object.  Objects that are made in   *)
(* one transaction wherever they are made have one name.                   *)
(***************************************************************************)
EXTENDS Integers, FiniteSets, FiniteSetsExt, Functions

CONSTANTS
  Opener, Locator,
  Inherited    \* what earlier builds left behind; bounds: how often it is opened, rows are
              \* written and purged

VARIABLES
  objects,    \* sqlite_master and the columns of its tables
  stamps,     \* schema_migrations
  artifacts,  \* artifacts, by id: URL and fetch_epoch
  seq,        \* sqlite_sequence's row of artifacts
  opener,     \* each process: where in Open it is, or `open`
  kept,       \* history: the rows written and not purged, as they were written
  top,        \* history: the highest id given out
  spare

upgradeVars == <<objects, stamps, artifacts, seq, opener, kept, top, spare>>

-----------------------------------------------------------------------------
(* The ladder *)

(* A rung is a set of statements: columns are added before objects are     *)
(* made, and those before any is dropped.                                  *)
Makes(name) == [op |-> "make", names |-> {name}]
Each(names) == {Makes(n) : n \in names}
Adds(columns) == [op |-> "add", names |-> columns]
Drops(name) == [op |-> "drop", names |-> {name}]
Together(names) == {[op |-> "make", names |-> names]}

LegacyColumns ==
  {"events.src_port", "events.password", "events.session_id", "events.hassh", "events.ssh_client",
   "events.command", "events.sha256", "events.filename", "events.raw", "events.actor_id"}

BaseSchema ==
  Each({"events", "idx_events_ts", "idx_events_ip", "schema_migrations", "actors", "actor_ips",
        "actor_users", "ingest_state", "app_settings", "cowrie_session_hassh", "cowrie_session_meta"})
    \cup {Drops("idx_events_raw")}

EarlyRungs ==
  << {},
     {Adds(LegacyColumns), Makes("idx_events_actor")},
     {},                                     \* v3 changes rows only
     Each({"idx_events_session", "idx_actor_ips_ip"}),
     Each({"bazaar_uploads", "idx_bazaar_uploads_ts"}),
     Each({"idx_events_username", "idx_events_command", "idx_actors_last_seen"}),
     {Makes("idx_events_kind_ts")} >>
MiddleRungs ==
  << {Adds({"ingest_state.head_sig"})},
     {Drops("idx_events_identity")},
     {Makes("idx_events_actor_ts"), Drops("idx_events_actor")},
     {Adds({"events.dst_ip"}), Adds({"events.dst_port"})},
     Each({"abuseipdb_reports", "idx_abuseipdb_reports_ts"}),
     {Makes("app_settings")},
     Each({"idx_actors_primary_ip", "idx_actors_event_count", "idx_actors_rate"}),
     {Makes("idx_events_sha256")} >>

V26Objects ==
  {"script_version_carry", "idx_events_actor_cmd", "idx_events_cmd_ts", "idx_events_actor_cmd_legacy"}
ArtifactIndexes == {"idx_artifacts_capture_due", "idx_artifacts_url_epoch", "artifactsLazyIndexes"}
V27Columns == {"artifacts.fetch_epoch", "artifacts.last_refetch_at"}

migrateCaptureEvidence == Together({"artifacts.first_observed_at"})
LateRungs ==
  << Together({"sessions.observed_at"}),
     Together({"artifacts", "artifacts.attempt_count", "idx_artifacts_capture_due"}),
     {Adds({"actors.flags"})},
     migrateCaptureEvidence,
     {Adds({"events.ts_unix_ns"}), Makes("idx_events_unix_ns")} >>

migrateLedgerTimes == Together({"ledgers.time_key"})
migrateJournalSummaries == Together({"journal_summaries"})
migrateFileCaptures == Together({"capture_file_jobs"})
migrateCampaigns == Together({"campaigns", "script_version_carry"})
migrateArtifactsV27 == Together(ArtifactIndexes \cup V27Columns \cup {"refetch_schedule", "idx_refetch_due"})
LastRungs ==
  << Together({"idx_events_legacy_ts"}), migrateLedgerTimes, migrateJournalSummaries,
     migrateFileCaptures, migrateCampaigns, Together(V26Objects), migrateArtifactsV27 >>

Latest == 27
Transactions == {16, 17, 19} \cup 21..Latest
Does(rung) ==
  CASE rung = 0 -> BaseSchema
    [] rung \in 1..7 -> EarlyRungs[rung]
    [] rung \in 8..15 -> MiddleRungs[rung - 7]
    [] rung \in 16..20 -> LateRungs[rung - 15]
    [] rung \in 21..27 -> LastRungs[rung - 20]
    [] OTHER -> {}

(* Tables that have all their columns from the start. *)
Brings(name) ==
  CASE name = "events" ->
         {name, "events.dst_ip", "events.dst_port", "events.ts_unix_ns"} \cup LegacyColumns
    [] name = "ingest_state" -> {name, "ingest_state.head_sig"}
    [] OTHER -> {name}

MadeBy(rung) == UNION {st.names : st \in {x \in Does(rung) : x.op # "drop"}}
Dropped == {"idx_events_raw", "idx_events_identity", "idx_events_actor"}

(* What was added to rungs that some databases had passed. *)
Amended == V26Objects \cup {"artifacts.last_refetch_at"}
Needed(rung) == MadeBy(rung) \ Dropped

HighestId(rows) == Max(DOMAIN rows \cup {0})
KeyedByURL(rows) == \A i, j \in DOMAIN rows : rows[i].url = rows[j].url => i = j

(* The databases of earlier builds. *)
ASSUME InheritedAssumption ==
  \A d \in Inherited :
    /\ d.stamps \subseteq 1..Latest
    /\ \A v \in d.stamps : \A r \in 1..v : Needed(r) \ Amended \subseteq d.objects
    /\ IsFiniteSet(DOMAIN d.artifacts) /\ DOMAIN d.artifacts \subseteq 1..d.seq /\ d.seq \in Nat
    /\ d.artifacts \in [DOMAIN d.artifacts -> [url : Locator, epoch : Nat]]
    /\ "artifacts.fetch_epoch" \notin d.objects => \A i \in DOMAIN d.artifacts : d.artifacts[i].epoch = 0

Shut == [at |-> "shut", rung |-> 0, todo |-> {}, absent |-> {}]

UpgradeInit ==
  /\ \E d \in Inherited :
       /\ objects = d.objects /\ stamps = d.stamps /\ artifacts = d.artifacts /\ seq = d.seq
       /\ kept = d.artifacts /\ top = d.seq /\ spare = d.spare
  /\ opener = [p \in Opener |-> Shut]

Try(what) == spare[what] > 0 /\ spare' = [spare EXCEPT ![what] = @ - 1]
Stands(p, at) == opener[p].at = at
Reach(p, at) == opener' = [opener EXCEPT ![p].at = at]
Rung(p) == opener[p].rung
Todo(p) == opener[p].todo
Statement(todo) ==
  CHOOSE st \in todo : \A other \in todo :
    /\ st.op = "drop" => other.op = "drop"
    /\ st.op = "make" => other.op # "add"
Climbing(p, op) ==
  /\ Stands(p, "climb") /\ Rung(p) \notin Transactions /\ Todo(p) # {}
  /\ Statement(Todo(p)) \in Todo(p) /\ Statement(Todo(p)).op = op
Executed(p) ==
  opener' = [opener EXCEPT ![p].at = "climb", ![p].todo = @ \ {Statement(@)}]
NextRung(p, rung) == opener' = [opener EXCEPT ![p].rung = rung, ![p].todo = Does(rung)]
RowsUnchanged == UNCHANGED <<artifacts, seq, kept, top>>

-----------------------------------------------------------------------------
(* Open: the base schema, the version, the rungs *)

OpenStore(p) ==
  /\ Stands(p, "shut") /\ Try("open")
  /\ opener' = [opener EXCEPT ![p] = [Shut EXCEPT !.at = "climb", !.todo = BaseSchema]]
  /\ UNCHANGED <<objects, stamps>> /\ RowsUnchanged

(* CREATE ... IF NOT EXISTS *)
MakeObject(p) ==
  /\ Climbing(p, "make")
  /\ objects' = objects \cup UNION {Brings(o) : o \in Statement(Todo(p)).names \ objects}
  /\ Executed(p)
  /\ UNCHANGED <<stamps, spare>> /\ RowsUnchanged

DropObject(p) ==
  /\ Climbing(p, "drop")
  /\ objects' = objects \ Statement(Todo(p)).names
  /\ Executed(p)
  /\ UNCHANGED <<stamps, spare>> /\ RowsUnchanged

(* columnExists, ensureLegacyColumns: what is absent is read first.  A     *)
(* column that is there by the time it is added ends the Open.             *)
ReadColumns(p) ==
  /\ Climbing(p, "add")
  /\ opener' = [opener EXCEPT ![p].at = "alter", ![p].absent = Statement(Todo(p)).names \ objects]
  /\ UNCHANGED <<objects, stamps, spare>> /\ RowsUnchanged

AddColumn(p, c) ==
  /\ Stands(p, "alter") /\ c \in opener[p].absent \ objects
  /\ objects' = objects \cup {c}
  /\ opener' = [opener EXCEPT ![p].absent = @ \ {c}]
  /\ UNCHANGED <<stamps, spare>> /\ RowsUnchanged

ColumnsAdded(p) ==
  /\ Stands(p, "alter") /\ opener[p].absent = {}
  /\ Executed(p)
  /\ UNCHANGED <<objects, stamps, spare>> /\ RowsUnchanged

currentSchemaVersion == Max(stamps \cup {0})

ReadVersion(p) ==
  /\ Stands(p, "climb") /\ Rung(p) = 0 /\ Todo(p) = {}
  /\ NextRung(p, currentSchemaVersion + 1)
  /\ UNCHANGED <<objects, stamps, spare>> /\ RowsUnchanged

Stamp(p) ==
  /\ Stands(p, "climb") /\ Rung(p) \in (1..Latest) \ Transactions /\ Todo(p) = {}
  /\ stamps' = stamps \cup {Rung(p)}
  /\ NextRung(p, Rung(p) + 1)
  /\ UNCHANGED <<objects, spare>> /\ RowsUnchanged

(* WithTx: all of the rung, or nothing.  v19 stamps by a plain INSERT. *)
Transact(p) ==
  /\ Stands(p, "climb") /\ Rung(p) \in Transactions \ {Latest}
  /\ Rung(p) = 19 => 19 \notin stamps
  /\ objects' = objects \cup MadeBy(Rung(p))
  /\ stamps' = stamps \cup {Rung(p)}
  /\ NextRung(p, Rung(p) + 1)
  /\ UNCHANGED spare /\ RowsUnchanged

-----------------------------------------------------------------------------
(* v27: artifacts rebuilt under the key (url, fetch_epoch) *)

ArtifactsRebuilt == "artifacts.fetch_epoch" \in objects

(* AUTOINCREMENT's high-water mark is carried over, since the copy only    *)
(* advances it to the highest id that is left.                             *)
CarriedAsCopied(old, rows) == HighestId(rows)   \* mutant
Carried(old, rows) == IF old > HighestId(rows) THEN old ELSE HighestId(rows)

MigrateArtifacts(p) ==
  /\ Stands(p, "climb") /\ Rung(p) = Latest
  /\ IF ArtifactsRebuilt THEN objects' = objects \cup MadeBy(Latest) /\ RowsUnchanged
     ELSE /\ KeyedByURL(artifacts)
          /\ objects' = (objects \ ArtifactIndexes) \cup MadeBy(Latest)
          /\ artifacts' = [i \in DOMAIN artifacts |-> [artifacts[i] EXCEPT !.epoch = 0]]
          /\ seq' = Carried(seq, artifacts)
          /\ UNCHANGED <<kept, top>>
  /\ stamps' = stamps \cup {Latest}
  /\ NextRung(p, Latest + 1)
  /\ UNCHANGED spare

-----------------------------------------------------------------------------
(* healV26Objects and healV27Columns, on every Open: read first, without a *)
(* lock, and write only what is missing.                                   *)

ReadV26Objects(p) ==
  /\ Stands(p, "climb") /\ Rung(p) > Latest
  /\ Reach(p, IF V26Objects \subseteq objects THEN "columns" ELSE "heal")
  /\ UNCHANGED <<objects, stamps, spare>> /\ RowsUnchanged

HealV26Objects(p) ==
  /\ Stands(p, "heal") /\ objects' = objects \cup V26Objects /\ Reach(p, "columns")
  /\ UNCHANGED <<stamps, spare>> /\ RowsUnchanged

ReadV27Columns(p) ==
  /\ Stands(p, "columns")
  /\ Reach(p, IF Cardinality(V27Columns \cap objects) # 1 THEN "open" ELSE "amend")
  /\ UNCHANGED <<objects, stamps, spare>> /\ RowsUnchanged

HealV27Columns(p) ==
  /\ Stands(p, "amend") /\ objects' = objects \cup {"artifacts.last_refetch_at"} /\ Reach(p, "open")
  /\ UNCHANGED <<stamps, spare>> /\ RowsUnchanged

(* Close, an error, a busy database, or the death of the process. *)
Leave(p) ==
  /\ ~Stands(p, "shut")
  /\ opener' = [opener EXCEPT ![p] = Shut]
  /\ UNCHANGED <<objects, stamps, spare>> /\ RowsUnchanged

-----------------------------------------------------------------------------
(* What an open store writes *)

With(rows, id, row) == [i \in DOMAIN rows \cup {id} |-> IF i = id THEN row ELSE rows[i]]
WriteRow(row) ==
  /\ artifacts' = With(artifacts, seq + 1, row) /\ kept' = With(kept, seq + 1, row)
  /\ seq' = seq + 1 /\ top' = IF top > seq + 1 THEN top ELSE seq + 1

EpochsOf(u) == {artifacts[i].epoch : i \in {j \in DOMAIN artifacts : artifacts[j].url = u}}

(* INSERT OR IGNORE, with the default epoch. *)
FirstSight(p, u) ==
  /\ Stands(p, "open") /\ Try("write") /\ 0 \notin EpochsOf(u)
  /\ WriteRow([url |-> u, epoch |-> 0])
  /\ UNCHANGED <<objects, stamps, opener>>

(* CompleteRefetch, of a payload the URL has not served before. *)
Rotate(p, u) ==
  /\ Stands(p, "open") /\ Try("write")
  /\ WriteRow([url |-> u, epoch |-> Max(EpochsOf(u) \cup {-1}) + 1])
  /\ UNCHANGED <<objects, stamps, opener>>

Purge(p, i) ==
  /\ Stands(p, "open") /\ Try("purge") /\ i \in DOMAIN artifacts
  /\ artifacts' = Restrict(artifacts, DOMAIN artifacts \ {i})
  /\ kept' = Restrict(kept, DOMAIN kept \ {i})
  /\ UNCHANGED <<objects, stamps, seq, opener, top>>

UpgradeNext ==
  \E p \in Opener :
    \/ OpenStore(p) \/ MakeObject(p) \/ DropObject(p)
    \/ ReadColumns(p) \/ (\E c \in opener[p].absent : AddColumn(p, c)) \/ ColumnsAdded(p)
    \/ ReadVersion(p) \/ Stamp(p) \/ Transact(p) \/ MigrateArtifacts(p)
    \/ ReadV26Objects(p) \/ HealV26Objects(p) \/ ReadV27Columns(p) \/ HealV27Columns(p)
    \/ Leave(p)
    \/ (\E u \in Locator : FirstSight(p, u) \/ Rotate(p, u))
    \/ (\E i \in DOMAIN artifacts : Purge(p, i))

UpgradeSpec == UpgradeInit /\ [][UpgradeNext]_upgradeVars

-----------------------------------------------------------------------------
(* Properties *)

(* An open store has every object a rung makes, those added to a rung      *)
(* after databases had passed it included, whoever else was climbing and   *)
(* wherever earlier openers died.                                          *)
SchemaComplete ==
  \A p \in Opener : Stands(p, "open") => UNION {Needed(r) : r \in 0..Latest} \subseteq objects

(* The rebuild of artifacts loses no row and none of what a row says, and  *)
(* no id is given out again.                                               *)
ArtifactsKept == artifacts = kept
IdsAdvance == top <= seq

UpgradeHolds == SchemaComplete /\ ArtifactsKept /\ IdsAdvance
===============================================================================
