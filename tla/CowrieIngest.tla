----------------------------- MODULE CowrieIngest -----------------------------
(***************************************************************************)
(* Incremental ingest of Cowrie's JSON log (ingest/cowrie): a pass opens   *)
(* the log, decides from inode, size and head signature where to resume,   *)
(* reads the lines past its offset, moves late fingerprints, drops the     *)
(* lines the table has, folds the rest into their actors' totals, commits  *)
(* them, and saves the new offset.  Each is a step of its own: Cowrie      *)
(* writes, logrotate rotates, retention purges and the process dies in     *)
(* between.  An error or a crash before the offset is saved replays lines. *)
(*                                                                         *)
(* A file is a sequence of lines and an offset counts lines.  A line is    *)
(* its number: it stands for the identity tuple the dedup compares.        *)
(***************************************************************************)
EXTENDS Integers, Sequences, FiniteSets, FiniteSetsExt, SequencesExt

CONSTANTS
  Reader,       \* the processes that ingest: the daemon, a CLI run beside it
  Session,      \* numbers
  HeadLen,      \* lines a head signature needs
  Scenario      \* bounds: lines, renames and copytruncates of the log, failed
                \* steps and crashes, purges of events, `ingest --replace`

ASSUME HeadAssumption == HeadLen \in Nat \ {0}
ASSUME SessionAssumption == Session \subseteq Nat \ {0}
ASSUME ScenarioAssumption ==
  IsFiniteSet(Scenario) /\ Scenario # {} /\ \A s \in Scenario : s.rotate \in Nat /\ s.truncate \in Nat

Log == 0                               \* the path of the active log
Sibling == 1..Max({s.rotate + s.truncate : s \in Scenario})

Path == {Log} \cup Sibling
Hassh == 0
CowrieActor == Session \cup {Hassh}  \* an actor per address, one for the fingerprint

VARIABLES
  \* Cowrie and logrotate
  line,            \* the lines ever written: session, and whether it is the kex
  inodeOf,         \* the inode at a path; 0: no file
  content,         \* an inode's lines, the next inode being the next index
  torn,            \* the log's last line has no newline yet
  \* the database
  istate,          \* ingest_state, by path
  bound,           \* cowrie_session_hassh
  rows,            \* events; of the same line, `copy` tells them apart
  total,           \* actors.event_count
  \* each reader
  stage, frame,    \* the step of the file at hand, and what it has read
  outer, todo,     \* a log suspended for its siblings; those left
  failed, seeded,  \* an earlier sibling failed; the start-up backfill is done
  \* luck, history
  spare,           \* what is left of each bound
  ingested,        \* the lines ever committed
  purged,          \* events retention took, by actor
  blind            \* inodes truncated where no later pass could tell

fileVars == <<line, inodeOf, content, torn>>
readerVars == <<stage, frame, outer, todo, failed, seeded>>
historyVars == <<ingested, purged, blind>>
cowrieVars == <<fileVars, istate, bound, rows, total, readerVars, spare, historyVars>>

-----------------------------------------------------------------------------
NoSig == << >>
NoState == [inode |-> 0, offset |-> 0, sig |-> NoSig]
NoFrame == [path |-> Log, inode |-> 0, size |-> 0, sig |-> NoSig, start |-> 0,
            end |-> 0, late |-> {}, batch |-> {}, seed |-> [a \in CowrieActor |-> 0]]

(* headSignature: a prefix too short to be whole has none. *)
HeadOf(i) == IF Len(content[i]) < HeadLen THEN NoSig ELSE SubSeq(content[i], 1, HeadLen)

(* What parseReader consumes of a file: its terminated lines. *)
Terminated(i) == Len(content[i]) - (IF torn /\ i = inodeOf[Log] THEN 1 ELSE 0)

EventLines(s) == {n \in ToSet(s) : ~line[n].kex}
KexSessions(s) == {line[n].session : n \in {k \in ToSet(s) : line[k].kex}}

(* RecordSessionBindings; a later pass finds the fingerprint there. *)
Bind(s) == bound \cup KexSessions(s)

RowsOf(a, r) == {e \in r : e.actor = a}
ActorFor(n, known) == IF line[n].session \in known THEN Hassh ELSE line[n].session
Row(n, known) == [line |-> n, actor |-> ActorFor(n, known), copy |-> 0]
AsRows(ns, known) == {Row(n, known) : n \in ns}
Counts(r) == [a \in CowrieActor |-> Cardinality(RowsOf(a, r))]

CowrieInit ==
  /\ line = << >> /\ inodeOf = [f \in Path |-> IF f = Log THEN 1 ELSE 0]
  /\ content = << << >> >> /\ torn = FALSE
  /\ istate = [f \in Path |-> NoState]
  /\ bound = {} /\ rows = {} /\ total = [a \in CowrieActor |-> 0]
  /\ stage = [p \in Reader |-> "idle"] /\ frame = [p \in Reader |-> NoFrame]
  /\ outer = [p \in Reader |-> NoFrame] /\ todo = [p \in Reader |-> {}]
  /\ failed = [p \in Reader |-> FALSE] /\ seeded = [p \in Reader |-> FALSE]
  /\ spare \in Scenario
  /\ ingested = {} /\ purged = [a \in CowrieActor |-> 0] /\ blind = {}

Use(what) == spare[what] > 0 /\ spare' = [spare EXCEPT ![what] = @ - 1]
Stage(p, s) == stage' = [stage EXCEPT ![p] = s]
Hold(p, f) == frame' = [frame EXCEPT ![p] = f]
CallUnchanged == UNCHANGED <<outer, todo, failed, seeded>>

-----------------------------------------------------------------------------
(* Cowrie and logrotate *)

(* Sessions are numbered by their first lines, and each sends its key      *)
(* exchange at most once.                                                  *)
WriteLine(s, kex) ==
  /\ ~torn /\ Use("write")
  /\ \A r \in Session : r < s => \E n \in DOMAIN line : line[n].session = r
  /\ kex => \A n \in DOMAIN line : ~(line[n].session = s /\ line[n].kex)
  /\ line' = Append(line, [session |-> s, kex |-> kex])
  /\ content' = [content EXCEPT ![inodeOf[Log]] = Append(@, Len(line) + 1)]
  /\ torn' \in BOOLEAN
  /\ UNCHANGED <<inodeOf, istate, bound, rows, total, readerVars, historyVars>>

FinishLine ==
  /\ torn /\ torn' = FALSE
  /\ UNCHANGED <<line, inodeOf, content, istate, bound, rows, total, readerVars, spare, historyVars>>

NextSibling == Min({f \in Sibling : inodeOf[f] = 0})

(* The log is renamed and Cowrie opens a new one. *)
Rename ==
  /\ Use("rotate") /\ ~torn /\ content[inodeOf[Log]] # << >>
  /\ content' = Append(content, << >>)
  /\ inodeOf' = [inodeOf EXCEPT ![NextSibling] = inodeOf[Log], ![Log] = Len(content) + 1]
  /\ UNCHANGED <<line, torn, istate, bound, rows, total, readerVars, historyVars>>

(* What a truncation in place is told by: a saved offset beyond a whole    *)
(* head, and no pass that opened the file before and reads it after.       *)
Tells(i) ==
  /\ istate[Log].inode = i /\ istate[Log].sig # NoSig /\ istate[Log].offset >= HeadLen
  /\ \A p \in Reader : i \notin {frame[p].inode, outer[p].inode}

(* The log is copied and truncated; it keeps its inode. *)
CopyTruncate ==
  /\ Use("truncate") /\ ~torn /\ content[inodeOf[Log]] # << >>
  /\ content' = Append([content EXCEPT ![inodeOf[Log]] = << >>], content[inodeOf[Log]])
  /\ inodeOf' = [inodeOf EXCEPT ![NextSibling] = Len(content) + 1]
  /\ blind' = blind \cup (IF Tells(inodeOf[Log]) THEN {} ELSE {inodeOf[Log]})
  /\ UNCHANGED <<line, torn, istate, bound, rows, total, readerVars, ingested, purged>>

-----------------------------------------------------------------------------
(* One pass over one file *)

(* Open and fstat. *)
Opened(f) == [NoFrame EXCEPT !.path = f, !.inode = inodeOf[f], !.size = Len(content[inodeOf[f]])]

(* A live tick, which the start-up backfill precedes. *)
Poll(p) ==
  /\ stage[p] = "idle"
  /\ IF seeded[p]
       THEN Stage(p, "examine") /\ Hold(p, Opened(Log)) /\ UNCHANGED todo
       ELSE Stage(p, "backfill") /\ todo' = [todo EXCEPT ![p] = {f \in Sibling : inodeOf[f] # 0}]
            /\ UNCHANGED frame
  /\ UNCHANGED <<fileVars, istate, bound, rows, total, outer, failed, seeded, spare, historyVars>>

ReplacedInPlace(prev, inode, sig) ==
  prev.inode = inode /\ prev.sig # NoSig /\ sig # NoSig /\ prev.sig # sig
Rotated(prev, inode, sig) ==
  (prev.inode # 0 /\ prev.inode # inode) \/ ReplacedInPlace(prev, inode, sig)
SizeAlone(prev, inode, size, sig) == IF prev.inode # inode \/ size < prev.offset THEN 0 ELSE prev.offset  \* mutant
ResumeAt(prev, inode, size, sig) ==
  IF prev.inode # inode \/ size < prev.offset \/ ReplacedInPlace(prev, inode, sig)
    THEN 0 ELSE prev.offset

(* The saved state and the head signature.  The siblings of a rotated log  *)
(* go first; a sibling has none of its own.                                *)
Examine(p) ==
  LET at == frame[p]
      prev == istate[at.path]
      sig == HeadOf(at.inode)
      next == [at EXCEPT !.sig = sig, !.start = ResumeAt(prev, at.inode, at.size, sig)]
  IN
  /\ stage[p] = "examine"
  /\ IF Rotated(prev, at.inode, sig) /\ at.path = Log
       THEN /\ Stage(p, "backfill") /\ Hold(p, NoFrame)
            /\ outer' = [outer EXCEPT ![p] = next]
            /\ todo' = [todo EXCEPT ![p] = {f \in Sibling : inodeOf[f] # 0}]
       ELSE Stage(p, "read") /\ Hold(p, next) /\ UNCHANGED <<outer, todo>>
  /\ UNCHANGED <<fileVars, istate, bound, rows, total, failed, seeded, spare, historyVars>>

(* BackfillRotatedLogsContext: the next sibling, or back to the caller.    *)
NextFile(p) ==
  /\ stage[p] = "backfill"
  /\ \/ /\ todo[p] # {}
        /\ Stage(p, "examine") /\ Hold(p, Opened(Min(todo[p])))
        /\ todo' = [todo EXCEPT ![p] = @ \ {Min(todo[p])}]
        /\ UNCHANGED <<outer, failed, seeded>>
     \/ /\ todo[p] = {} /\ outer[p] # NoFrame /\ ~failed[p]
        /\ Stage(p, "read") /\ Hold(p, outer[p]) /\ outer' = [outer EXCEPT ![p] = NoFrame]
        /\ UNCHANGED <<todo, failed, seeded>>
     \/ /\ todo[p] = {} /\ (outer[p] = NoFrame \/ failed[p])
        /\ Stage(p, "idle")
        /\ seeded' = [seeded EXCEPT ![p] = @ \/ ~failed[p]]
        /\ failed' = [failed EXCEPT ![p] = FALSE] /\ outer' = [outer EXCEPT ![p] = NoFrame]
        /\ UNCHANGED <<todo, frame>>
  /\ UNCHANGED <<fileVars, istate, bound, rows, total, spare, historyVars>>

(* newOffset: what was consumed, never past the size the file had. *)
NewOffset(at, end) == Min({Max({at.start, end}), at.size})

(* parseReader, persistBindings and stampHASSH.  The lines stay in the     *)
(* frame, so what Cowrie writes in between does not matter.                *)
Read(p) ==
  LET at == frame[p]
      end == Terminated(at.inode)
      read == SubSeq(content[at.inode], at.start + 1, end)
      known == Bind(read)
  IN
  /\ stage[p] = "read"
  /\ bound' = known
  /\ Stage(p, "reconcile")
  /\ Hold(p, [at EXCEPT !.end = NewOffset(at, end), !.late = KexSessions(read),
                        !.batch = {Row(n, known) : n \in EventLines(read)}])
  /\ CallUnchanged
  /\ UNCHANGED <<fileVars, istate, rows, total, spare, historyVars>>

(* ReconcileSessionHASSH: the rows a late fingerprint moves, one at a time *)
(* out of their actor's total into the fingerprint's.                      *)
Strays(s) == {e \in rows : line[e.line].session = s /\ e.actor # Hassh}
Moved(s) == (rows \ Strays(s)) \cup {[e EXCEPT !.actor = Hassh] : e \in Strays(s)}

MovedTotals(s) ==
  [a \in CowrieActor |->
     IF a = Hassh THEN total[a] + Cardinality(Strays(s))
     ELSE total[a] - Cardinality(Strays(s) \cap RowsOf(a, rows))]
CanMove(s) == \A a \in CowrieActor : Cardinality(Strays(s) \cap RowsOf(a, rows)) <= total[a]

(* reconcileLateHASSH: a transaction for each session of this pass. *)
ReconcileSession(p) ==
  /\ stage[p] = "reconcile"
  /\ \E s \in frame[p].late :
       /\ CanMove(s)
       /\ rows' = Moved(s) /\ total' = MovedTotals(s)
       /\ Hold(p, [frame[p] EXCEPT !.late = @ \ {s}])
  /\ CallUnchanged
  /\ UNCHANGED <<fileVars, istate, bound, stage, spare, historyVars>>

Reconciled(p) ==
  /\ stage[p] = "reconcile" /\ frame[p].late = {}
  /\ Stage(p, "dedup")
  /\ CallUnchanged
  /\ UNCHANGED <<fileVars, istate, bound, rows, total, frame, spare, historyVars>>

(* batchDedupCowrie, which reads the table outside any transaction. *)
Stored(n) == \E e \in rows : e.line = n
TrustOffset(batch) == batch  \* mutant
Unseen(batch) == {r \in batch : ~Stored(r.line)}

Dedup(p) ==
  /\ stage[p] = "dedup"
  /\ Hold(p, [frame[p] EXCEPT !.batch = Unseen(@)])
  /\ Stage(p, IF Unseen(frame[p].batch) = {} THEN "save" ELSE "fold")
  /\ CallUnchanged
  /\ UNCHANGED <<fileVars, istate, bound, rows, total, spare, historyVars>>

(* buildCowrieActorsForIDs reads the totals it folds into. *)
Fold(p) ==
  /\ stage[p] = "fold"
  /\ Hold(p, [frame[p] EXCEPT !.seed = total])
  /\ Stage(p, "commit")
  /\ CallUnchanged
  /\ UNCHANGED <<fileVars, istate, bound, rows, total, spare, historyVars>>

BatchOf(a, batch) == Cardinality({r \in batch : r.actor = a})
Copies(n) == Cardinality({e \in rows : e.line = n})
Appended(batch) == rows \cup {[r EXCEPT !.copy = Copies(r.line)] : r \in batch}
Folded(seed, batch) ==
  [a \in CowrieActor |-> IF BatchOf(a, batch) = 0 THEN total[a] ELSE seed[a] + BatchOf(a, batch)]

(* AppendEventsAndUpsertActorsAgg: totals are written as computed. *)
CommitBatch(p) ==
  /\ stage[p] = "commit"
  /\ rows' = Appended(frame[p].batch)
  /\ total' = Folded(frame[p].seed, frame[p].batch)
  /\ ingested' = ingested \cup {r.line : r \in frame[p].batch}
  /\ Stage(p, "save")
  /\ CallUnchanged
  /\ UNCHANGED <<fileVars, istate, bound, frame, spare, purged, blind>>

(* A file is done: the next sibling if there is a backfill to go back to. *)
InBackfill(p) == outer[p] # NoFrame \/ ~seeded[p]
Return(p) == Stage(p, IF InBackfill(p) THEN "backfill" ELSE "idle") /\ Hold(p, NoFrame)

SaveOffset(p) ==
  /\ stage[p] = "save"
  /\ istate' = [istate EXCEPT ![frame[p].path] =
                  [inode |-> frame[p].inode, offset |-> frame[p].end, sig |-> frame[p].sig]]
  /\ Return(p)
  /\ CallUnchanged
  /\ UNCHANGED <<fileVars, bound, rows, total, spare, historyVars>>

-----------------------------------------------------------------------------
(* Errors, crashes, and the other writers of the same tables *)

(* Any read or write fails.  A sibling's error lets its siblings go on. *)
FailPass(p) ==
  /\ Use("mishap") /\ stage[p] \notin {"idle", "backfill"}
  /\ failed' = [failed EXCEPT ![p] = InBackfill(p)]
  /\ Return(p)
  /\ UNCHANGED <<fileVars, istate, bound, rows, total, outer, todo, seeded, historyVars>>

Die(p) ==
  /\ Use("mishap")
  /\ Stage(p, "idle") /\ Hold(p, NoFrame)
  /\ outer' = [outer EXCEPT ![p] = NoFrame] /\ todo' = [todo EXCEPT ![p] = {}]
  /\ failed' = [failed EXCEPT ![p] = FALSE] /\ seeded' = [seeded EXCEPT ![p] = FALSE]
  /\ UNCHANGED <<fileVars, istate, bound, rows, total, historyVars>>

(* MaintenancePurge: events older than the cutoff, their actors' totals    *)
(* kept; then an actor without events may go, in its own transaction.      *)
PurgeEvents(cutoff) ==
  LET kept == {e \in rows : e.line > cutoff}
  IN
  /\ Use("purge") /\ kept # rows
  /\ rows' = kept
  /\ purged' = [a \in CowrieActor |-> purged[a] + Cardinality(RowsOf(a, rows)) - Cardinality(RowsOf(a, kept))]
  /\ UNCHANGED <<fileVars, istate, bound, total, readerVars, ingested, blind>>

PurgeOrphan(a) ==
  /\ purged[a] > 0 /\ total[a] > 0 /\ RowsOf(a, rows) = {}
  /\ total' = [total EXCEPT ![a] = 0]
  /\ UNCHANGED <<fileVars, istate, bound, rows, readerVars, spare, historyVars>>

(* IngestFile (--replace): the events of the log's present lines, its last *)
(* one whole or not, are the table; ingest_state stays as it was.          *)
Replace(p) ==
  /\ Use("replace") /\ stage[p] = "idle"
  /\ \E end \in {Terminated(inodeOf[Log]), Len(content[inodeOf[Log]])} :
       LET read == SubSeq(content[inodeOf[Log]], 1, end)
           known == Bind(read)
       IN /\ bound' = known
          /\ rows' = AsRows(EventLines(read), known)
          /\ total' = Counts(rows')
          /\ ingested' = ingested \cup EventLines(read)
  /\ UNCHANGED <<fileVars, istate, readerVars, purged, blind>>

-----------------------------------------------------------------------------
PassStep(p) ==
  \/ Examine(p) \/ NextFile(p) \/ Read(p) \/ ReconcileSession(p) \/ Reconciled(p)
  \/ Dedup(p) \/ Fold(p) \/ CommitBatch(p) \/ SaveOffset(p)

CowrieNext ==
  \/ \E s \in Session, kex \in BOOLEAN : WriteLine(s, kex)
  \/ FinishLine \/ Rename \/ CopyTruncate
  \/ \E p \in Reader : Poll(p) \/ PassStep(p) \/ FailPass(p) \/ Die(p) \/ Replace(p)
  \/ \E n \in DOMAIN line : PurgeEvents(n)
  \/ \E a \in CowrieActor : PurgeOrphan(a)

CowrieSpec == CowrieInit /\ [][CowrieNext]_cowrieVars

-----------------------------------------------------------------------------
(* Properties *)

(* Replays after a crash, a failed pass, a rotation or a replacement store *)
(* no line twice, and an actor's event_count is never below the events it  *)
(* holds (the next late fingerprint would be refused, and the log with it) *)
(* nor above those and the ones retention took: what the dedup drops is    *)
(* exactly what is there, and a move counts an event once.                 *)
StoredOnce == \A e, f \in rows : e.line = f.line => e = f
LinesCountedOnce ==
  StoredOnce /\ \A a \in CowrieActor :
    /\ Cardinality(RowsOf(a, rows)) <= total[a]
    /\ total[a] <= Cardinality(RowsOf(a, rows)) + purged[a]

ResumesWhere(f) ==
  ResumeAt(istate[f], inodeOf[f], Len(content[inodeOf[f]]), HeadOf(inodeOf[f]))

(* Where the next pass over a file would resume, nothing before is left    *)
(* undone, however the log was rotated, truncated or regrown since the     *)
(* last: no line is left out, and of a session whose key exchange is       *)
(* there no event is left with the address actor, whichever pass stored it.*)
OffsetEarned ==
  \A f \in Path : inodeOf[f] \notin blind \cup {0} =>
    LET passed == SubSeq(content[inodeOf[f]], 1, ResumesWhere(f))
    IN /\ EventLines(passed) \subseteq ingested
       /\ \A s \in KexSessions(passed) : Strays(s) = {}
=============================================================================
