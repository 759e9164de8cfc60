----------------------------- MODULE JournalIngest -----------------------------
(***************************************************************************)
(* Ingest of the sshd journal (ingest/journal), the lifetime counters of   *)
(* its actors (store/transaction.go) and the background derivation of      *)
(* their labels (store/journal_summary.go, actor/journal_summary*.go).     *)
(* The daemon re-offers old lines at start-up, then follows the journal    *)
(* with `-n 0`, and re-offers the recent ones whenever the follower dies;  *)
(* a CLI run offers lines beside it; retention purges; the derivation      *)
(* folds an actor's usernames page by page, a transaction each.            *)
(*                                                                         *)
(* A journal line is its number, which stands for the identity the dedup   *)
(* compares.  The resident collector only caches (actor/sync.go) and is    *)
(* left out.                                                               *)
(***************************************************************************)
EXTENDS Integers, Sequences, FiniteSets, FiniteSetsExt, SequencesExt

CONSTANTS
  Attacker,     \* actor ids, 1.., in id order; one per source address
  Username,     \* usernames, 1.., in the order of the index
  PageLines,    \* lines per batch transaction
  PageUsers,    \* usernames per derivation transaction
  PageActors,   \* actors per derivation cycle
  Weather,      \* bounds: lines, follower failures, crashes, CLI runs, replacements,
                \* retention; the actors with operator notes, with an unreadable row
  Overlap       \* retention is shorter than the start-up's 30 days

ASSUME JournalAssumption ==
  /\ Attacker \subseteq Nat \ {0} /\ Username \subseteq Nat \ {0}
  /\ PageLines \in Nat \ {0} /\ PageUsers \in Nat \ {0} /\ PageActors \in Nat \ {0}
  /\ Weather \subseteq [write : Nat, fail : Nat, cli : Nat, replace : Nat, age : Nat,
                        annotated : SUBSET Attacker, broken : SUBSET Attacker]
  /\ Overlap \in BOOLEAN

Offerer == {"daemon", "cli"}

VARIABLES
  journal,      \* the lines sshd ever logged: actor (0: an accepted login) and user (0: none)
  aged,         \* the first of them are older than retention
  \* the database
  stored,       \* rows of events per line
  row,          \* the journal actors
  users,        \* actor_users counts; 0: no row
  summary,      \* journal_summaries
  published,    \* the derived columns of actors: what they were computed from
  \* the processes
  daemon,       \* what its journal worker is at
  tailAt,       \* lines the follower has delivered, or that came before it
  offer,        \* the lines a batch still has to append
  offering,     \* the stage of a batch
  cursor, page, \* the derivation's cursor and the actors left of its page
  \* luck, history
  luck,
  gone,         \* counted lines no longer in events, by actor
  tried         \* the usernames of the lines an actor's totals count

dbVars == <<stored, row, users, summary, published>>
batchVars == <<offer, offering>>
workerVars == <<cursor, page>>
countVars == <<gone, tried>>
journalVars == <<journal, aged, dbVars, daemon, tailAt, batchVars, workerVars, luck, countVars>>

-----------------------------------------------------------------------------
NoRow == [kept |-> FALSE, events |-> 0, unique |-> 0, last |-> 0]
NoUsers == [u \in Username |-> 0]
(* The trigger's row: nothing is known of the history behind an actor. *)
FreshSummary == [revision |-> 0, building |-> -1, completed |-> -1, after |-> 0,
                 fold |-> {}, folded |-> 0, started |-> FALSE, status |-> "unknown_history"]
(* What was derived, from which names, how many were taken in, and from    *)
(* which counters.                                                         *)
NoSummary == [FreshSummary EXCEPT !.status = "none"]
Nothing == [fold |-> {}, folded |-> 0, events |-> 0]

LinesOf(a) == {n \in DOMAIN journal : journal[n].actor = a}
NamesOf(us) == {u \in Username : us[u] > 0}
InDb(s) == {n \in DOMAIN s : s[n] > 0}

JournalInit ==
  /\ journal = << >> /\ aged = 0
  /\ stored = << >> /\ row = [a \in Attacker |-> NoRow]
  /\ users = [a \in Attacker |-> NoUsers]
  /\ summary = [a \in Attacker |-> NoSummary] /\ published = [a \in Attacker |-> Nothing]
  /\ daemon = "seed" /\ tailAt = 0
  /\ offer = [p \in Offerer |-> {}] /\ offering = [p \in Offerer |-> "idle"]
  /\ cursor = 0 /\ page = << >>
  /\ luck \in Weather
  /\ gone = [a \in Attacker |-> 0] /\ tried = [a \in Attacker |-> {}]

Befalls(what) == luck[what] > 0 /\ luck' = [luck EXCEPT ![what] = @ - 1]

-----------------------------------------------------------------------------
(* The triggers of journal_summaries *)

OutOfDate(s) == [s EXCEPT !.status = IF @ = "unknown_history" THEN @ ELSE "pending"]
NewRevisionUncounted(s, names) == OutOfDate(s)   \* mutant

(* One trigger fires per row of actor_users. *)
NewRevision(s, names) == [OutOfDate(s) EXCEPT !.revision = @ + Cardinality(names)]

Born == [FreshSummary EXCEPT !.status = "pending"]

(* Lines appended in one transaction: the events' rows, and per actor the  *)
(* counters, the usernames and the summary.                                *)
AbsentWhenOffered(n) == TRUE   \* mutant

Absent(n) == stored[n] = 0

AddedTo(a, ns) == {n \in ns : journal[n].actor = a /\ Absent(n)}
NamesIn(ns) == {journal[n].user : n \in ns} \ {0}
Uses(ns) == [u \in Username |-> Cardinality({n \in ns : journal[n].user = u})]
NewNames(a, ns) == NamesIn(ns) \ NamesOf(users[a])

(* Lifetime state outlives the events: the stored totals count on. *)
CountedRow(a, ns) ==
  [kept |-> TRUE, events |-> row[a].events + Cardinality(ns), last |-> Max({row[a].last} \cup ns),
   unique |-> row[a].unique + Cardinality(NewNames(a, ns))]
CountedSummary(a, ns) == NewRevision(IF row[a].kept THEN summary[a] ELSE Born, NewNames(a, ns))

Appended(ns) ==
  /\ stored' = [n \in DOMAIN stored |-> IF n \in ns /\ Absent(n) THEN stored[n] + 1 ELSE stored[n]]
  /\ row' = [a \in Attacker |->
               IF AddedTo(a, ns) = {} THEN row[a] ELSE CountedRow(a, AddedTo(a, ns))]
  /\ users' = [a \in Attacker |->
                 [u \in Username |-> users[a][u] + Uses(AddedTo(a, ns))[u]]]
  /\ summary' = [a \in Attacker |->
                   IF AddedTo(a, ns) = {} THEN summary[a] ELSE CountedSummary(a, AddedTo(a, ns))]
  /\ tried' = [a \in Attacker |-> tried[a] \cup NamesIn(AddedTo(a, ns))]
  /\ UNCHANGED <<published, gone>>

-----------------------------------------------------------------------------
(* sshd logs a line; lines grow old *)

LogLine(a, u) ==
  /\ Befalls("write")
  /\ a = 0 => u = 0
  /\ journal' = Append(journal, [actor |-> a, user |-> u])
  /\ stored' = Append(stored, 0)
  /\ UNCHANGED <<aged, row, users, summary, published, daemon, tailAt, batchVars, workerVars,
                 countVars>>

(* No batch holds a line for as long as retention keeps one. *)
GrowOld ==
  /\ luck.age > 0 /\ aged < Len(journal)
  /\ \A p \in Offerer : offer[p] = {}
  /\ luck' = [luck EXCEPT !.age = @ - 1]
  /\ aged' = aged + 1
  /\ UNCHANGED <<journal, dbVars, daemon, tailAt, batchVars, workerVars, countVars>>

(* What `journalctl -S "30 days ago"` prints: retention keeps longer, unless Overlap. *)
Reoffered == IF Overlap THEN DOMAIN journal ELSE (aged + 1)..Len(journal)

-----------------------------------------------------------------------------
(* A batch: journalctl's output, the dedup outside a transaction, the pages *)

Offer(p, ns) ==
  /\ offering[p] = "idle"
  /\ offer' = [offer EXCEPT ![p] = ns]
  /\ offering' = [offering EXCEPT ![p] = "dedup"]

OfferSeed ==
  /\ daemon = "seed" /\ Offer("daemon", Reoffered)
  /\ UNCHANGED <<journal, aged, dbVars, daemon, tailAt, workerVars, luck, countVars>>

(* "5 minutes ago": the last lines, however many. *)
OfferRecent ==
  /\ daemon = "gap"
  /\ \E from \in (aged + 1)..(Len(journal) + 1) : Offer("daemon", from..Len(journal))
  /\ UNCHANGED <<journal, aged, dbVars, daemon, tailAt, workerVars, luck, countVars>>

OfferByHand ==
  /\ Befalls("cli") /\ Offer("cli", Reoffered)
  /\ UNCHANGED <<journal, aged, dbVars, daemon, tailAt, workerVars, countVars>>

Fresh(ns) == ns \ InDb(stored)

Dedup(p) ==
  /\ offering[p] = "dedup"
  /\ offer' = [offer EXCEPT ![p] = Fresh(@)]
  /\ offering' = [offering EXCEPT ![p] = "append"]
  /\ UNCHANGED <<journal, aged, dbVars, daemon, tailAt, workerVars, luck, countVars>>

(* The next 500 lines, in the order they were offered. *)
FirstPage(ns) == {n \in ns : Cardinality({k \in ns : k < n}) < PageLines}

AppendPage(p) ==
  /\ offering[p] = "append" /\ offer[p] # {}
  /\ Appended(FirstPage(offer[p]))
  /\ offer' = [offer EXCEPT ![p] = @ \ FirstPage(@)]
  /\ UNCHANGED <<journal, aged, daemon, tailAt, offering, workerVars, luck>>

AfterBatch == "start"

BatchDone(p) ==
  /\ offering[p] = "append" /\ offer[p] = {}
  /\ offering' = [offering EXCEPT ![p] = "idle"]
  /\ daemon' = IF p = "daemon" THEN AfterBatch ELSE daemon
  /\ UNCHANGED <<journal, aged, dbVars, tailAt, offer, workerVars, luck, countVars>>

(* An error ends the batch.  The committed pages stay; start-up goes down  *)
(* with it, the gap's batch only reports it and the follower starts again. *)
BatchFails(p) ==
  /\ offering[p] # "idle" /\ Befalls("fail")
  /\ offer' = [offer EXCEPT ![p] = {}] /\ offering' = [offering EXCEPT ![p] = "idle"]
  /\ daemon' = IF p = "daemon" /\ daemon = "gap" THEN AfterBatch ELSE daemon
  /\ UNCHANGED <<journal, aged, dbVars, tailAt, workerVars, countVars>>

-----------------------------------------------------------------------------
(* The follower *)

(* `journalctl -n 0 -f`: what was logged before it is not delivered. *)
StartTail ==
  /\ daemon = "start"
  /\ daemon' = "follow" /\ tailAt' = Len(journal)
  /\ UNCHANGED <<journal, aged, dbVars, batchVars, workerVars, luck, countVars>>

TailLine ==
  /\ daemon = "follow" /\ tailAt < Len(journal)
  /\ tailAt' = tailAt + 1
  /\ Appended({tailAt + 1})
  /\ UNCHANGED <<journal, aged, daemon, batchVars, workerVars, luck>>

(* journalctl ends, or an append fails. *)
TailFails ==
  /\ daemon = "follow" /\ Befalls("fail")
  /\ daemon' = "gap"
  /\ UNCHANGED <<journal, aged, dbVars, tailAt, batchVars, workerVars, countVars>>

CrashDaemon ==
  /\ Befalls("fail")
  /\ daemon' = "seed"
  /\ offer' = [offer EXCEPT !["daemon"] = {}] /\ offering' = [offering EXCEPT !["daemon"] = "idle"]
  /\ cursor' = 0 /\ page' = << >>
  /\ UNCHANGED <<journal, aged, dbVars, tailAt, countVars>>

-----------------------------------------------------------------------------
(* `ingest --replace`: one transaction clears the source and rebuilds it   *)
(* from the lines at hand.  Annotated actors stay, without children.       *)

Survives(a) == row[a].kept /\ a \in luck.annotated
Mine(a, ns) == LinesOf(a) \cap ns

(* clearSourceTx *)
ClearedSummary(a) ==
  IF NamesOf(users[a]) = {} THEN summary[a] ELSE NewRevision(summary[a], NamesOf(users[a]))

(* BuildFromJournalAggregated and writeActorsTx. *)
RebuiltSummary(a, ns) == NewRevision(IF Survives(a) THEN ClearedSummary(a) ELSE Born, NamesIn(ns))

Rebuilt(ns) ==
  LET rebuilt(a) == Mine(a, ns) # {}
  IN
  /\ stored' = [n \in DOMAIN stored |-> IF n \in ns THEN 1 ELSE 0]
  /\ row' = [a \in Attacker |->
       IF rebuilt(a) THEN [kept |-> TRUE, events |-> Cardinality(Mine(a, ns)),
                           unique |-> Cardinality(NamesIn(Mine(a, ns))), last |-> Max(Mine(a, ns))]
       ELSE IF Survives(a) THEN row[a] ELSE NoRow]
  /\ users' = [a \in Attacker |-> Uses(Mine(a, ns))]
  /\ summary' = [a \in Attacker |->
       IF rebuilt(a) THEN RebuiltSummary(a, Mine(a, ns))
       ELSE IF Survives(a) THEN ClearedSummary(a) ELSE NoSummary]
  /\ published' = [a \in Attacker |->
       IF rebuilt(a) THEN [fold |-> NamesIn(Mine(a, ns)), folded |-> Cardinality(NamesIn(Mine(a, ns))),
                           events |-> Cardinality(Mine(a, ns))]
       ELSE IF Survives(a) THEN published[a] ELSE Nothing]
  /\ gone' = [a \in Attacker |-> IF ~rebuilt(a) /\ Survives(a) THEN row[a].events ELSE 0]
  /\ tried' = [a \in Attacker |-> IF ~rebuilt(a) /\ Survives(a) THEN tried[a] ELSE NamesIn(Mine(a, ns))]

Replace ==
  /\ Befalls("replace")
  /\ \E from \in 1..(Len(journal) + 1) : Rebuilt(from..Len(journal))
  /\ UNCHANGED <<journal, aged, daemon, tailAt, batchVars, workerVars>>

-----------------------------------------------------------------------------
(* MaintenancePurge *)

(* A chunk of expired events; totals are lifetime totals and stay. *)
PurgeEvents ==
  LET old == InDb(stored) \cap 1..aged IN
  /\ old # {}
  /\ stored' = [n \in DOMAIN stored |-> IF n \in old THEN 0 ELSE stored[n]]
  /\ gone' = [a \in Attacker |->
                gone[a] + Cardinality(old \cap LinesOf(a))]
  /\ UNCHANGED <<journal, aged, row, users, summary, published, daemon, tailAt, batchVars, workerVars,
                 luck, tried>>

Orphan(a) ==
  /\ row[a].kept /\ a \notin luck.annotated
  /\ row[a].last <= aged
  /\ LinesOf(a) \cap InDb(stored) = {}

SweepOrphans ==
  /\ \E a \in Attacker : Orphan(a)
  /\ row' = [a \in Attacker |-> IF Orphan(a) THEN NoRow ELSE row[a]]
  /\ users' = [a \in Attacker |-> IF Orphan(a) THEN NoUsers ELSE users[a]]
  /\ summary' = [a \in Attacker |-> IF Orphan(a) THEN NoSummary ELSE summary[a]]
  /\ published' = [a \in Attacker |-> IF Orphan(a) THEN Nothing ELSE published[a]]
  /\ gone' = [a \in Attacker |-> IF Orphan(a) THEN 0 ELSE gone[a]]
  /\ tried' = [a \in Attacker |-> IF Orphan(a) THEN {} ELSE tried[a]]
  /\ UNCHANGED <<journal, aged, stored, daemon, tailAt, batchVars, workerVars, luck>>

-----------------------------------------------------------------------------
(* The derivation *)

Pending == {a \in Attacker : summary[a].status = "pending"}
FirstPageAlways(c) ==   \* mutant
  {a \in Pending : Cardinality({b \in Pending : b < a}) < PageActors}

PageAfter(c) == {a \in Pending : a > c /\ Cardinality({b \in Pending : b > c /\ b < a}) < PageActors}

(* PendingJournalSummariesAfter; an empty page wraps to the start. *)
TakePage ==
  /\ page = << >>
  /\ PageAfter(cursor) # {} \/ cursor # 0
  /\ page' = SetToSortSeq(PageAfter(cursor), <)
  /\ cursor' = IF PageAfter(cursor) = {} THEN 0 ELSE cursor
  /\ UNCHANGED <<journal, aged, dbVars, daemon, tailAt, batchVars, luck, countVars>>

(* The saved fold is of this revision. *)
Resumes(s) == s.building = s.revision /\ s.started

(* The usernames of one page, the first after the cursor. *)
UserPage(a, after) ==
  LET rest == {u \in NamesOf(users[a]) : u > after}
  IN {u \in rest : Cardinality({v \in rest : v < u}) < PageUsers}

MoreAfter(a, after) == Cardinality({u \in NamesOf(users[a]) : u > after}) > PageUsers

(* Where the derivation goes on: at the saved fold or from the start. *)
Saved(s) ==
  IF Resumes(s) THEN s ELSE [s EXCEPT !.after = 0, !.fold = {}, !.folded = 0, !.completed = -1]

Folded(a) ==
  LET s == summary[a]
      from == Saved(s)
      names == IF from.completed = s.revision THEN {} ELSE UserPage(a, from.after)
  IN [from EXCEPT !.building = s.revision, !.started = TRUE,
                  !.fold = @ \cup names, !.folded = @ + Cardinality(names),
                  !.after = IF names = {} THEN @ ELSE Max(names)]

Unfinished(a) ==
  Saved(summary[a]).completed # summary[a].revision /\ MoreAfter(a, Saved(summary[a]).after)

(* Finish compares the fold with the counters it would be published under. *)
Covers(a) == Folded(a).folded = row[a].unique /\ row[a].events >= Folded(a).folded

NextPage(a) == [Folded(a) EXCEPT !.completed = -1, !.status = "pending"]
Publication(a) == [Folded(a) EXCEPT !.completed = summary[a].revision, !.status = "current"]

(* AdvanceJournalSummary: one page, or the publication, in one transaction. *)
Advance(a) ==
  \/ /\ Unfinished(a)
     /\ summary' = [summary EXCEPT ![a] = NextPage(a)]
     /\ UNCHANGED published
  \/ /\ ~Unfinished(a) /\ ~Covers(a)
     /\ summary' = [summary EXCEPT ![a].status = "unknown_history"]
     /\ UNCHANGED published
  \/ /\ ~Unfinished(a) /\ Covers(a)
     /\ summary' = [summary EXCEPT ![a] = Publication(a)]
     /\ published' = [published EXCEPT ![a] = [fold |-> Folded(a).fold, folded |-> Folded(a).folded,
                                               events |-> row[a].events]]

(* A row that cannot be read fails its actor's transaction, every time. *)
Readable(a) == a \notin luck.broken

(* A failing actor is passed over: the next lap comes back to it. *)
WorkOne ==
  /\ page # << >>
  /\ LET a == Head(page) IN
       /\ IF summary[a].status \in {"none", "unknown_history"} \/ (~Readable(a) /\ ~Unfinished(a))
            THEN UNCHANGED <<summary, published>>
            ELSE Advance(a)
       /\ page' = Tail(page) /\ cursor' = a
  /\ UNCHANGED <<journal, aged, stored, row, users, daemon, tailAt, batchVars, luck, countVars>>

-----------------------------------------------------------------------------
JournalNext ==
  \/ \E a \in Attacker \cup {0}, u \in Username \cup {0} : LogLine(a, u)
  \/ GrowOld
  \/ OfferSeed \/ OfferRecent \/ OfferByHand
  \/ \E p \in Offerer : Dedup(p) \/ AppendPage(p) \/ BatchDone(p) \/ BatchFails(p)
  \/ StartTail \/ TailLine \/ TailFails \/ CrashDaemon
  \/ Replace \/ PurgeEvents \/ SweepOrphans
  \/ TakePage \/ WorkOne

(* The derivation runs every second, whatever else runs. *)
JournalSpec ==
  JournalInit /\ [][JournalNext]_journalVars /\ WF_journalVars(TakePage) /\ WF_journalVars(WorkOne)

-----------------------------------------------------------------------------
(* No line is stored twice, whichever of the follower, the start-up's and  *)
(* the gap's batches, a CLI batch and a replacement offer it, and in       *)
(* whatever order their reads and transactions fall; and an actor's        *)
(* lifetime totals count every line ever appended for it once, retained or *)
(* taken by retention, and its distinct usernames too.                     *)
StoredAtMostOnce == \A n \in DOMAIN stored : stored[n] <= 1
AttemptsCountedOnce ==
  StoredAtMostOnce /\ \A a \in Attacker :
    /\ row[a].events = gone[a] + Cardinality(LinesOf(a) \cap InDb(stored))
    /\ a \notin luck.annotated => row[a].unique = Cardinality(tried[a])

(* A label shown as current was derived from every username behind the     *)
(* counters it stands beside, each once, and from those very counters:     *)
(* not from names that came behind the cursor, a page folded twice, an     *)
(* older corpus, or an actor whose names a replacement took away.          *)
Shown(a) == summary[a].status = "current" /\ summary[a].completed = summary[a].revision
CurrentCovers ==
  \A a \in Attacker : Shown(a) =>
    published[a] = [fold |-> tried[a], folded |-> Cardinality(tried[a]), events |-> row[a].events]

(* The derivation gets past an actor whose row it cannot read: every other *)
(* pending actor is settled, once lines stop coming.                       *)
DerivationSettles ==
  <>[](\A a \in Attacker : a \in luck.broken \/ summary[a].status # "pending")
====
