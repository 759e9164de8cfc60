-------------------------- MODULE FileCaptureProofs --------------------------
(***************************************************************************)
(* Proofs about FileCapture, for any processes, files, page and span       *)
(* sizes, leases, clocks and failures: no file event is skipped, a queued  *)
(* file's source is held, every artifact's file is in evidence, source     *)
(* retention waits for the upload backfill, and only the process that      *)
(* claimed a job last records its result.                                  *)
(***************************************************************************)
EXTENDS FileCapture, FiniteOrder

Kind == {"download", "upload", "malformed"}
Event == [id : Nat \ {0}, kind : Kind, file : Content, hashed : BOOLEAN]
Logged == [kind : Kind, file : Content, hashed : BOOLEAN]
IsJob(j) ==
  /\ {"file", "hashed", "attempts", "token", "state", "started", "until", "clock", "next"} \subseteq DOMAIN j
  /\ j.token \in Nat
IsTask(t) ==
  /\ {"id", "file", "token", "now", "status", "missing"} \subseteq DOMAIN t
  /\ t.id \in Nat /\ t.token \in Nat

FileTypeOK ==
  /\ events \in SUBSET Event /\ IsFiniteSet(events) /\ logged \in SUBSET Logged
  /\ lastID \in Nat /\ cursor \in Nat
  /\ ceiling \in Nat \cup {NoRow} /\ progress \in Nat \cup {NoRow}
  /\ \A id \in DOMAIN jobs : IsJob(jobs[id])
  /\ pc \in [Process -> Stage]
  /\ DOMAIN task = Process /\ \A p \in Process : IsTask(task[p])
  /\ DOMAIN captureMu = Process /\ DOMAIN inHand = Process

(* An event without its job still has its file, or had lost it by then. *)
QueueInv == \A e \in events : e.id \in DOMAIN jobs \/ e.file \in source \/ e.id \in lost
DataInv ==
  /\ \A e \in events : e.id <= lastID
  /\ \A id \in DOMAIN jobs : id \in Nat /\ id <= lastID
  /\ cursor <= lastID
  /\ QueueInv /\ NothingSkipped /\ SourceHeld

(* A task knows its job's file, and its token is the job's only while no    *)
(* other process has claimed it: an id is never used again, so a job that   *)
(* was removed does not come back.                                          *)
Busy == {"adopt", "copy", "publish", "record", "report"}
ClaimInv(p) ==
  pc[p] \in Busy =>
    /\ task[p].id <= lastID
    /\ Retained(task[p].id) => task[p].id \in DOMAIN jobs
    /\ task[p].id \in DOMAIN jobs =>
         /\ jobs[task[p].id].file = task[p].file
         /\ task[p].token <= jobs[task[p].id].token
         /\ task[p].token = jobs[task[p].id].token =>
              task[p].id \in DOMAIN claimant /\ claimant[task[p].id] = p
(* A file that is published or adopted stays until it is recorded: whoever  *)
(* purges holds the lock, and no other process does.                        *)
LockInv(p) ==
  /\ pc[p] = "record" <=> captureMu[p] = "worker"
  /\ pc[p] = "record" => task[p].file \in evidence
  /\ pc[p] = "report" => task[p].status # "archived"
  /\ captureMu[p] = "sync" => inHand[p] \subseteq evidence
  /\ captureMu[p] = "purge" => p \in Retainer
TaskInv == EvidenceKept /\ \A p \in Process : ClaimInv(p) /\ LockInv(p)

-----------------------------------------------------------------------------
(* Operators *)

LEMMA Constants ==
  /\ Page \in Nat /\ Page > 0 /\ Span \in Nat /\ Span > 0 /\ NoRow \in Int /\ NoRow = -1
  /\ OldEvents \in SUBSET Event /\ IsFiniteSet(OldEvents)
  /\ Retainer \subseteq Process /\ \A p \in Retainer : Process = {p}
BY PageAssumption, RetentionAssumption, OldEventsAssumption DEF Event, Kind, NoRow

(* A page is the start of what it is taken from ... *)
LEMMA PagePrefix ==
  ASSUME NEW n \in Nat, NEW S \in SUBSET Nat, IsFiniteSet(S), NEW i \in AtMost(n, S), NEW k \in S, k <= i
  PROVE  k \in AtMost(n, S)
<1>1. IsFiniteSet({j \in S : j <= i}) /\ {j \in S : j <= k} \in SUBSET {j \in S : j <= i}
  <2>1. i \in Nat /\ k \in Nat /\ \A j \in S : j \in Nat
    BY DEF AtMost
  <2>2. \A j \in S : j <= k => j <= i
    BY <2>1
  <2>3. IsFiniteSet({j \in S : j <= i})
    BY FS_Subset
  <2> QED
    BY <2>2, <2>3
<1>2. IsFiniteSet({j \in S : j <= k}) /\ Cardinality({j \in S : j <= k}) <= Cardinality({j \in S : j <= i})
  BY <1>1, FS_Subset
<1>3. Cardinality({j \in S : j <= i}) <= n
  BY DEF AtMost
<1>4. Cardinality({j \in S : j <= i}) \in Nat /\ Cardinality({j \in S : j <= k}) \in Nat
  BY <1>1, <1>2, FS_CardinalityType
<1> QED
  BY <1>2, <1>3, <1>4 DEF AtMost

(* ... and all of it unless it is full. *)
LEMMA ShortPage ==
  ASSUME NEW n \in Nat, NEW S \in SUBSET Nat, IsFiniteSet(S), Cardinality(AtMost(n, S)) < n
  PROVE  AtMost(n, S) = S
<1>1. PICK A : A = AtMost(n, S)
  OBVIOUS
<1>2. A \in SUBSET S /\ IsFiniteSet(A) /\ Cardinality(A) \in Nat
  <2>1. A \in SUBSET S
    BY <1>1 DEF AtMost
  <2> QED
    BY <2>1, FS_Subset, FS_CardinalityType
<1>3. ASSUME S \ A # {} PROVE FALSE
  <2>1. PICK m \in S \ A : \A k \in S \ A : m <= k
    BY <1>3, NatMin
  <2>2. PICK B : B = A \cup {m}
    OBVIOUS
  <2>3. IsFiniteSet(B) /\ Cardinality(B) = Cardinality(A) + 1
    BY <1>2, <2>1, <2>2, FS_AddElement
  <2>4. PICK U : U = {k \in S : k <= m}
    OBVIOUS
  <2>5. U \in SUBSET B
    <3>1. \A k \in U : k \in Nat /\ m \in Nat /\ k <= m /\ (k \notin A => m <= k)
      BY <2>1, <2>4
    <3>2. \A k \in U : k = m \/ k \in A
      BY <3>1
    <3> QED
      BY <2>2, <3>2
  <2>6. Cardinality(U) <= Cardinality(B) /\ Cardinality(U) \in Nat
    BY <2>3, <2>5, FS_Subset, FS_CardinalityType
  <2>7. Cardinality(U) <= n
    BY <1>1, <1>2, <2>3, <2>6
  <2> QED
    BY <1>1, <2>1, <2>4, <2>7 DEF AtMost
<1> QED
  BY <1>1, <1>2, <1>3

(* A discovery keeps the jobs there are and makes those of its events. *)
LEMMA QueuedJobs ==
  ASSUME FileTypeOK, NEW ids, ids \subseteq {e.id : e \in events}, jobs' = Queued(ids)
  PROVE  /\ DOMAIN jobs' = DOMAIN jobs \cup ids
         /\ \A id \in DOMAIN jobs : jobs'[id] = jobs[id]
         /\ \A id \in ids \ DOMAIN jobs :
              IsJob(jobs'[id]) /\ \E e \in events : e.id = id /\ jobs'[id].file = e.file
<1>1. /\ DOMAIN jobs' = DOMAIN jobs \cup ids
      /\ \A id \in DOMAIN jobs : jobs'[id] = jobs[id]
      /\ \A id \in ids \ DOMAIN jobs : jobs'[id] = Job(EventOf(id))
  BY DEF Queued
<1>2. ASSUME NEW id \in ids \ DOMAIN jobs
      PROVE  IsJob(jobs'[id]) /\ \E e \in events : e.id = id /\ jobs'[id].file = e.file
  <2>1. PICK e : e = EventOf(id)
    OBVIOUS
  <2>2. e \in events /\ e.id = id
    BY <2>1 DEF EventOf
  <2>3. jobs'[id] = Job(e)
    BY <1>1, <2>1
  <2> QED
    BY <2>2, <2>3 DEF Job, IsJob
<1> QED
  BY <1>1, <1>2

-----------------------------------------------------------------------------
(* Events, sources and jobs *)

(* A job keeps its file, its token does not fall and it does not rise from the dead. *)
JobsKept ==
  /\ DOMAIN jobs' = DOMAIN jobs
  /\ \A id \in DOMAIN jobs :
       /\ IsJob(jobs'[id]) /\ jobs'[id].file = jobs[id].file /\ jobs'[id].token >= jobs[id].token
       /\ jobs'[id].state \in Live => jobs[id].state \in Live

LEMMA DataKept ==
  ASSUME DataInv, JobsKept, UNCHANGED <<events, lastID, cursor, ceiling, progress, source, lost>>
  PROVE  DataInv'
BY DEF DataInv, JobsKept, QueueInv, NothingSkipped, SourceHeld, LiveJobs

LEMMA DeliverData ==
  ASSUME FileTypeOK, DataInv, NEW kind \in Kind, NEW c \in Content, NEW hashed \in BOOLEAN,
         Deliver(kind, c, hashed)
  PROVE  FileTypeOK' /\ DataInv'
<1>1. /\ UNCHANGED <<events, lastID, cursor, ceiling, progress, jobs, lost, pc, task, captureMu, inHand>>
      /\ source' = source \cup {c} /\ logged' = {[kind |-> kind, file |-> c, hashed |-> hashed]}
  BY DEF Deliver, checkpoint, worker, lock, history
<1>2. FileTypeOK'
  BY <1>1 DEF FileTypeOK, Logged
<1> QED
  BY <1>1, <1>2 DEF DataInv, QueueInv, NothingSkipped, SourceHeld, LiveJobs

LEMMA IngestData ==
  ASSUME FileTypeOK, DataInv, NEW p \in Process, Ingest(p)
  PROVE  /\ FileTypeOK' /\ DataInv' /\ lastID' > lastID
         /\ \A e \in events' : e.id <= lastID => e \in events
<1>1. UNCHANGED <<cursor, ceiling, progress, jobs, source, pc, task, captureMu, inHand>>
  BY DEF Ingest, checkpoint, worker, lock
<1>2. PICK d \in logged : /\ logged' = logged \ {d} /\ lastID' = lastID + 1
                          /\ events' = events \cup
                               {[id |-> lastID + 1, kind |-> d.kind, file |-> d.file, hashed |-> d.hashed]}
  BY DEF Ingest
<1>3. PICK new : new = [id |-> lastID + 1, kind |-> d.kind, file |-> d.file, hashed |-> d.hashed]
  OBVIOUS
<1>4. new \in Event /\ new.id = lastID + 1 /\ events' = events \cup {new}
  BY <1>2, <1>3 DEF FileTypeOK, Logged, Event
<1>5. lost' = lost \cup Sourceless(events' \ events)
  BY DEF Ingest
<1>6. IsFiniteSet(events')
  BY <1>4, FS_AddElement DEF FileTypeOK
<1>7. FileTypeOK'
  BY <1>1, <1>2, <1>4, <1>6 DEF FileTypeOK
<1>8. \A e \in events : e.id \in Nat /\ e.id <= lastID
  BY DEF DataInv, FileTypeOK, Event
<1>9. lastID \in Nat /\ cursor \in Nat /\ cursor <= lastID
  BY DEF FileTypeOK, DataInv
<1>10. lastID' > lastID /\ \A e \in events' : e.id <= lastID => e \in events
  BY <1>2, <1>4, <1>9
<1>11. (\A e \in events' : e.id <= lastID') /\ cursor' <= lastID'
  BY <1>1, <1>2, <1>4, <1>8, <1>9
<1>12. QueueInv'
  <2>1. \A e \in events' \ events : e.file \notin source => e.id \in lost'
    BY <1>5 DEF Sourceless
  <2> QED
    BY <1>1, <1>5, <2>1 DEF DataInv, QueueInv
<1>13. NothingSkipped'
  BY <1>1, <1>4, <1>9 DEF DataInv, NothingSkipped
<1>14. SourceHeld'
  BY <1>1, <1>5 DEF DataInv, SourceHeld, LiveJobs
<1>15. \A id \in DOMAIN jobs' : id \in Nat /\ id <= lastID'
  BY <1>1, <1>2, <1>9 DEF DataInv
<1> QED
  BY <1>7, <1>10, <1>11, <1>12, <1>13, <1>14, <1>15 DEF DataInv

LEMMA ReplaceData ==
  ASSUME FileTypeOK, DataInv, NEW p \in Process, Replace(p)
  PROVE  FileTypeOK' /\ DataInv' /\ lastID' >= lastID /\ \A e \in events' : e.id > lastID
<1> DEFINE upto(e) == {f \in events : f.id <= e.id}
           move == [e \in events |-> [e EXCEPT !.id = lastID + Cardinality(upto(e))]]
<1>1. /\ UNCHANGED <<logged, source, cursor, ceiling, progress, jobs, pc, task, captureMu, inHand>>
      /\ lastID' = lastID + Cardinality(events) /\ lost' = lost \cup Sourceless(events')
      /\ events' = {move[e] : e \in events}
  BY DEF Replace, checkpoint, worker, lock
<1>2. Cardinality(events) \in Nat /\ lastID \in Nat /\ cursor \in Nat /\ cursor <= lastID
  BY FS_CardinalityType DEF FileTypeOK, DataInv
<1>3. ASSUME NEW e \in events
      PROVE  Cardinality(upto(e)) \in Nat \ {0} /\ Cardinality(upto(e)) <= Cardinality(events)
  <2>1. IsFiniteSet(upto(e)) /\ Cardinality(upto(e)) <= Cardinality(events)
    BY FS_Subset DEF FileTypeOK
  <2>2. e \in upto(e)
    BY DEF FileTypeOK, Event
  <2> QED
    BY <2>1, <2>2, FS_CardinalityType, FS_EmptySet
<1>4. ASSUME NEW e \in events
      PROVE  move[e] \in Event /\ move[e].id > lastID /\ move[e].id <= lastID + Cardinality(events)
  <2>1. PICK i : i = lastID + Cardinality(upto(e))
    OBVIOUS
  <2>2. i \in Nat \ {0} /\ i > lastID /\ i <= lastID + Cardinality(events)
    <3> HIDE DEF upto
    <3> QED
      BY <1>2, <1>3, <2>1
  <2>3. move[e] = [id |-> i, kind |-> e.kind, file |-> e.file, hashed |-> e.hashed] /\ e \in Event
    BY <2>1 DEF FileTypeOK, Event
  <2> HIDE DEF move
  <2> QED
    BY <2>2, <2>3 DEF Event
<1>5. DOMAIN move = events /\ move = [e \in events |-> move[e]] /\ IsFiniteSet(events)
  BY DEF FileTypeOK
<1> HIDE DEF move
<1>6. IsFiniteSet(events')
  BY <1>1, <1>5, FiniteImage
<1>7. \A e \in events' : e \in Event /\ e.id > lastID /\ e.id <= lastID'
  BY <1>1, <1>4
<1>8. FileTypeOK'
  BY <1>1, <1>2, <1>6, <1>7 DEF FileTypeOK
<1>9. cursor' <= lastID' /\ lastID' >= lastID /\ \A e \in events' : ~(e.id <= cursor')
  <2>1. \A e \in events' : e.id \in Nat
    BY <1>7 DEF Event
  <2> QED
    BY <1>1, <1>2, <1>7, <2>1
<1>10. QueueInv'
  BY <1>1 DEF QueueInv, Sourceless
<1>11. NothingSkipped' /\ SourceHeld'
  BY <1>1, <1>9 DEF DataInv, NothingSkipped, SourceHeld, LiveJobs
<1>12. \A id \in DOMAIN jobs' : id \in Nat /\ id <= lastID'
  BY <1>1, <1>2 DEF DataInv
<1> QED
  BY <1>7, <1>8, <1>9, <1>10, <1>11, <1>12 DEF DataInv

(* What a discovery queues of the events leaves the rest as it was. *)
LEMMA QueueData ==
  ASSUME FileTypeOK, DataInv, NEW ids, ids \subseteq {e.id : e \in events}, jobs' = Queued(ids),
         UNCHANGED <<events, lastID, source, lost>>
  PROVE  /\ \A id \in DOMAIN jobs' : IsJob(jobs'[id])
         /\ \A id \in DOMAIN jobs' : id \in Nat /\ id <= lastID
         /\ QueueInv' /\ SourceHeld'
<1>1. /\ DOMAIN jobs' = DOMAIN jobs \cup ids
      /\ \A id \in DOMAIN jobs : jobs'[id] = jobs[id]
      /\ \A id \in ids \ DOMAIN jobs :
           IsJob(jobs'[id]) /\ \E e \in events : e.id = id /\ jobs'[id].file = e.file
  BY QueuedJobs
<1>2. \A id \in DOMAIN jobs' : IsJob(jobs'[id]) /\ id \in Nat /\ id <= lastID
  <2>1. \A id \in ids : id \in Nat /\ id <= lastID
    BY DEF FileTypeOK, Event, DataInv
  <2> QED
    BY <1>1, <2>1 DEF FileTypeOK, DataInv
<1>3. QueueInv'
  BY <1>1 DEF DataInv, QueueInv
<1>4. SourceHeld'
  <2>1. ASSUME NEW id \in DOMAIN jobs', jobs'[id].state \in Live, id \notin lost PROVE jobs'[id].file \in source
    <3>1. CASE id \in DOMAIN jobs
      BY <1>1, <2>1, <3>1 DEF DataInv, SourceHeld, LiveJobs
    <3>2. CASE id \notin DOMAIN jobs
      BY <1>1, <2>1, <3>2 DEF DataInv, QueueInv
    <3> QED
      BY <3>1, <3>2
  <2> QED
    BY <2>1 DEF SourceHeld, LiveJobs
<1> QED
  BY <1>2, <1>3, <1>4

(* The ids of some of the events. *)
LEMMA EventIds ==
  ASSUME FileTypeOK, NEW E \in SUBSET events
  PROVE  {e.id : e \in E} \in SUBSET (Nat \ {0}) /\ IsFiniteSet({e.id : e \in E})
<1>1. {e.id : e \in E} \in SUBSET (Nat \ {0})
  BY DEF FileTypeOK, Event
<1>2. IsFiniteSet(E)
  BY FS_Subset DEF FileTypeOK
<1> DEFINE id == [e \in E |-> e.id]
<1>3. {e.id : e \in E} = {id[e] : e \in E} /\ DOMAIN id = E /\ id = [e \in E |-> id[e]]
  OBVIOUS
<1> HIDE DEF id
<1>4. IsFiniteSet({id[e] : e \in E})
  BY <1>2, <1>3, FiniteImage
<1> QED
  BY <1>1, <1>3, <1>4

LEMMA PageOf ==
  ASSUME NEW S \in SUBSET (Nat \ {0}), IsFiniteSet(S)
  PROVE  /\ AtMost(Page, S) \in SUBSET S /\ IsFiniteSet(AtMost(Page, S))
         /\ \A i \in AtMost(Page, S), k \in S : k <= i => k \in AtMost(Page, S)
         /\ Cardinality(AtMost(Page, S)) < Page => AtMost(Page, S) = S
<1>1. S \in SUBSET Nat /\ Page \in Nat
  BY Constants
<1>2. AtMost(Page, S) \in SUBSET S
  BY DEF AtMost
<1>3. IsFiniteSet(AtMost(Page, S))
  BY <1>2, FS_Subset
<1> QED
  BY <1>1, <1>2, <1>3, PagePrefix, ShortPage

LEMMA DiscoverData ==
  ASSUME FileTypeOK, DataInv, NEW p \in Process, Discover(p)
  PROVE  FileTypeOK' /\ DataInv' /\ \E ids : ids \subseteq {e.id : e \in events} /\ jobs' = Queued(ids)
<1>1. PICK later : later = {e.id : e \in {f \in events : f.id > cursor}}
  OBVIOUS
<1>2. later \in SUBSET (Nat \ {0}) /\ IsFiniteSet(later) /\ later \subseteq {e.id : e \in events}
  BY <1>1, EventIds
<1>3. PICK page : page = AtMost(Page, later)
  OBVIOUS
<1>4. /\ page \in SUBSET later /\ IsFiniteSet(page)
      /\ \A i \in page, k \in later : k <= i => k \in page
  BY <1>2, <1>3, PageOf
<1>5. /\ UNCHANGED <<events, lastID, logged, source, lost, pc, task, captureMu, inHand>>
      /\ jobs' = Queued(page) /\ cursor' = Max({cursor} \cup page)
      /\ IF ceiling = NoRow
           THEN ceiling' = cursor /\ progress' = Min({cursor, OldestRetained})
           ELSE UNCHANGED <<ceiling, progress>>
  BY <1>1, <1>3 DEF Discover, cowrie, history, worker, lock
<1>6. page \subseteq {e.id : e \in events}
  BY <1>2, <1>4
<1>7. (\A id \in DOMAIN jobs' : IsJob(jobs'[id]) /\ id \in Nat /\ id <= lastID) /\ QueueInv' /\ SourceHeld'
  BY <1>5, <1>6, QueueData
<1>8. DOMAIN jobs' = DOMAIN jobs \cup page
  BY <1>5, <1>6, QueuedJobs
<1>9. cursor' \in {cursor} \cup page /\ \A y \in {cursor} \cup page : cursor' >= y
  <2>1. {cursor} \cup page \in SUBSET Int /\ {cursor} \cup page # {}
    BY <1>2, <1>4 DEF FileTypeOK
  <2>2. IsFiniteSet({cursor} \cup page)
    <3>1. {cursor} \cup page = page \cup {cursor}
      OBVIOUS
    <3> QED
      BY <1>4, <3>1, FS_AddElement
  <2> QED
    BY <1>5, <2>1, <2>2, FiniteMax
<1>10. cursor' \in Nat /\ cursor' <= lastID
  BY <1>2, <1>4, <1>6, <1>9 DEF FileTypeOK, DataInv
<1>11. /\ OldestRetained \in Nat
       /\ \A e \in events : OldestRetained < e.id
  <2>1. CASE events = {}
    BY <2>1 DEF OldestRetained
  <2>2. CASE events # {}
    <3>1. PICK Ids : Ids = {e.id : e \in events}
      OBVIOUS
    <3>2. Ids \in SUBSET (Nat \ {0}) /\ Ids # {} /\ \A e \in events : e.id \in Ids
      BY <2>2, <3>1, EventIds
    <3>3. Min(Ids) \in Ids /\ \A i \in Ids : Min(Ids) <= i
      BY <3>2, NatMin
    <3>4. OldestRetained = Min(Ids) - 1
      BY <2>2, <3>1 DEF OldestRetained
    <3>5. Min(Ids) \in Nat \ {0} /\ \A e \in events : e.id \in Nat /\ Min(Ids) <= e.id
      BY <3>2, <3>3
    <3> QED
      BY <3>4, <3>5
  <2> QED
    BY <2>1, <2>2
<1>12. ceiling = NoRow => ceiling' = cursor /\ progress' \in Nat /\ progress' <= OldestRetained
  <2>1. cursor \in Int /\ OldestRetained \in Int
    BY <1>11 DEF FileTypeOK
  <2>2. Min({cursor, OldestRetained}) \in {cursor, OldestRetained} /\ Min({cursor, OldestRetained}) <= OldestRetained
    BY <2>1, LeastOfTwo
  <2> QED
    BY <1>5, <1>11, <2>2 DEF FileTypeOK
<1>13. FileTypeOK'
  BY <1>5, <1>7, <1>10, <1>12 DEF FileTypeOK
<1>14. NothingSkipped'
  <2>1. SUFFICES ASSUME NEW e \in events, e.id <= cursor',
                        e.kind = "upload" => ceiling' # NoRow /\ (e.id > ceiling' \/ e.id <= progress')
                 PROVE  e.id \in DOMAIN jobs'
    BY <1>5 DEF NothingSkipped
  <2>2. e.id \in Nat /\ OldestRetained < e.id
    BY <1>11 DEF FileTypeOK, Event
  <2>3. CASE e.id <= cursor
    <3>1. CASE ceiling = NoRow
      <4>1. e.kind # "upload"
        BY <1>11, <1>12, <2>1, <2>2, <2>3, <3>1 DEF FileTypeOK
      <4> QED
        BY <1>8, <2>3, <4>1 DEF DataInv, NothingSkipped
    <3>2. CASE ceiling # NoRow
      <4>1. ceiling' = ceiling /\ progress' = progress
        BY <1>5, <3>2
      <4> QED
        BY <1>8, <2>1, <2>3, <3>2, <4>1 DEF DataInv, NothingSkipped
    <3> QED
      BY <3>1, <3>2
  <2>4. CASE ~(e.id <= cursor)
    <3>1. e.id \in later /\ cursor' \in page
      BY <1>1, <1>9, <2>1, <2>2, <2>4 DEF FileTypeOK
    <3> QED
      BY <1>4, <1>8, <2>1, <3>1
  <2> QED
    BY <2>3, <2>4
<1> QED
  BY <1>5, <1>6, <1>7, <1>10, <1>13, <1>14 DEF DataInv

LEMMA BackfillData ==
  ASSUME FileTypeOK, DataInv, NEW p \in Process, Backfill(p)
  PROVE  /\ FileTypeOK' /\ DataInv'
         /\ jobs' = jobs \/ \E ids : ids \subseteq {e.id : e \in events} /\ jobs' = Queued(ids)
<1>1. UNCHANGED <<events, lastID, logged, source, lost, cursor, ceiling, pc, task, captureMu, inHand>>
  BY DEF Backfill, cowrie, history, worker, lock
<1>2. CASE ~(progress < ceiling)
  <2>1. UNCHANGED <<jobs, progress>>
    BY <1>2 DEF Backfill
  <2>2. FileTypeOK' /\ DataInv'
    BY <1>1, <2>1 DEF FileTypeOK, DataInv, QueueInv, NothingSkipped, SourceHeld, LiveJobs
  <2> QED
    BY <2>1, <2>2
<1>3. CASE progress < ceiling
  <2>1. ceiling \in Nat /\ progress \in Int /\ progress >= -1 /\ Span \in Nat /\ Span > 0
    BY <1>3, Constants DEF FileTypeOK
  <2>2. PICK top : top = Min({ceiling, progress + Span})
    OBVIOUS
  <2>3. top \in Nat /\ top > progress /\ top <= ceiling
    <3>1. progress + Span \in Int
      BY <2>1
    <3>2. top \in {ceiling, progress + Span} /\ top <= ceiling /\ top <= progress + Span
      BY <2>1, <2>2, <3>1, LeastOfTwo
    <3> QED
      BY <1>3, <2>1, <3>2
  <2>4. PICK uploads : uploads = UploadsIn(progress, top)
    OBVIOUS
  <2>5. uploads \in SUBSET (Nat \ {0}) /\ IsFiniteSet(uploads) /\ uploads \subseteq {e.id : e \in events}
        /\ \A i \in uploads : i > progress /\ i <= top
    <3>1. uploads = {e.id : e \in {f \in events : f.kind = "upload" /\ f.id > progress /\ f.id <= top}}
      BY <2>4 DEF UploadsIn
    <3> QED
      BY <3>1, EventIds
  <2>6. \A e \in events : e.kind = "upload" /\ e.id > progress /\ e.id <= top => e.id \in uploads
    BY <2>4 DEF UploadsIn
  <2>7. PICK page : page = AtMost(Page, uploads)
    OBVIOUS
  <2>8. /\ page \in SUBSET uploads /\ IsFiniteSet(page)
        /\ \A i \in page, k \in uploads : k <= i => k \in page
        /\ Cardinality(page) < Page => page = uploads
    BY <2>5, <2>7, PageOf
  <2>9. jobs' = Queued(page) /\ progress' = BackfillEnd(page, top)
    BY <1>3, <2>2, <2>4, <2>7 DEF Backfill
  <2>10. page \subseteq {e.id : e \in events}
    BY <2>5, <2>8
  <2>11. (\A id \in DOMAIN jobs' : IsJob(jobs'[id]) /\ id \in Nat /\ id <= lastID) /\ QueueInv' /\ SourceHeld'
    BY <1>1, <2>9, <2>10, QueueData
  <2>12. DOMAIN jobs' = DOMAIN jobs \cup page
    BY <2>9, <2>10, QueuedJobs
  <2>13. progress' \in Nat /\ progress' <= top
         /\ \A k \in uploads : k <= progress' => k \in page
    <3>1. CASE Cardinality(page) < Page
      BY <2>3, <2>8, <2>9, <3>1 DEF BackfillEnd
    <3>2. CASE ~(Cardinality(page) < Page)
      <4>1. progress' = Max(page)
        BY <2>9, <3>2 DEF BackfillEnd
      <4>2. page # {}
        BY <3>2, Constants, FS_EmptySet
      <4>3. page \in SUBSET Int
        BY <2>5, <2>8
      <4>4. Max(page) \in page
        BY <2>8, <4>2, <4>3, FiniteMax
      <4> QED
        BY <2>5, <2>8, <4>1, <4>4
    <3> QED
      BY <3>1, <3>2
  <2>14. FileTypeOK'
    BY <1>1, <2>11, <2>13 DEF FileTypeOK
  <2>15. NothingSkipped'
    <3>1. SUFFICES ASSUME NEW e \in events, e.id <= cursor,
                          e.kind = "upload" => ceiling # NoRow /\ (e.id > ceiling \/ e.id <= progress')
                   PROVE  e.id \in DOMAIN jobs'
      BY <1>1 DEF NothingSkipped
    <3>2. e.id \in Nat
      BY DEF FileTypeOK, Event
    <3>3. CASE e.kind = "upload" /\ e.id <= progress' /\ ~(e.id <= progress)
      <4>1. e.id > progress /\ e.id <= top
        BY <2>1, <2>3, <2>13, <3>2, <3>3
      <4>2. e.id \in page
        BY <2>6, <2>13, <3>3, <4>1
      <4> QED
        BY <2>12, <4>2
    <3>4. CASE ~(e.kind = "upload" /\ e.id <= progress' /\ ~(e.id <= progress))
      BY <2>12, <3>1, <3>4 DEF DataInv, NothingSkipped
    <3> QED
      BY <3>3, <3>4
  <2> QED
    BY <1>1, <2>9, <2>10, <2>11, <2>14, <2>15 DEF DataInv
<1> QED
  BY <1>2, <1>3

LEMMA RemoveSourceData ==
  ASSUME FileTypeOK, DataInv, NEW p \in Process, NEW c \in Content, RemoveSource(p, c)
  PROVE  FileTypeOK' /\ DataInv'
<1>1. /\ UNCHANGED <<events, lastID, logged, cursor, ceiling, progress, jobs, pc, task, captureMu, inHand>>
      /\ source' = source \ {c} /\ ~Protected(c)
      /\ lost' = lost \cup {e.id : e \in {f \in events : f.file = c /\ f.id \notin DOMAIN jobs}}
  BY DEF RemoveSource, checkpoint, worker, lock
<1>2. FileTypeOK'
  BY <1>1 DEF FileTypeOK
<1>3. QueueInv'
  BY <1>1 DEF DataInv, QueueInv
<1>4. SourceHeld'
  BY <1>1 DEF DataInv, SourceHeld, LiveJobs, Protected
<1>5. NothingSkipped'
  BY <1>1 DEF DataInv, NothingSkipped
<1> QED
  BY <1>1, <1>2, <1>3, <1>4, <1>5 DEF DataInv

LEMMA PurgeEventData ==
  ASSUME FileTypeOK, DataInv, NEW p \in Process, PurgeEvent(p)
  PROVE  FileTypeOK' /\ DataInv' /\ events' \subseteq events
<1>1. /\ UNCHANGED <<source, lastID, logged, cursor, ceiling, progress, jobs, lost, pc, task, captureMu, inHand>>
      /\ events' \subseteq events
  BY DEF PurgeEvent, checkpoint, worker, lock, history
<1>2. IsFiniteSet(events')
  BY <1>1, FS_Subset DEF FileTypeOK
<1>3. FileTypeOK'
  BY <1>1, <1>2 DEF FileTypeOK
<1> QED
  BY <1>1, <1>3 DEF DataInv, QueueInv, NothingSkipped, SourceHeld, LiveJobs

LEMMA PurgeJobData ==
  ASSUME FileTypeOK, DataInv, NEW p \in Process, PurgeJob(p)
  PROVE  /\ FileTypeOK' /\ DataInv' /\ DOMAIN jobs' \subseteq DOMAIN jobs
         /\ \A id \in DOMAIN jobs' : jobs'[id] = jobs[id]
         /\ \A id \in DOMAIN jobs : Retained(id) => id \in DOMAIN jobs'
<1>1. UNCHANGED <<events, source, lastID, logged, cursor, ceiling, progress, lost, pc, task, captureMu, inHand>>
  BY DEF PurgeJob, checkpoint, worker, lock, history, cowrie
<1>2. PICK id \in DOMAIN jobs : ~Retained(id) /\ jobs' = [i \in DOMAIN jobs \ {id} |-> jobs[i]]
  BY DEF PurgeJob
<1>3. FileTypeOK'
  BY <1>1, <1>2 DEF FileTypeOK
<1>4. QueueInv' /\ NothingSkipped'
  BY <1>1, <1>2 DEF DataInv, QueueInv, NothingSkipped, Retained
<1>5. SourceHeld'
  BY <1>1, <1>2 DEF DataInv, SourceHeld, LiveJobs
<1> QED
  BY <1>1, <1>2, <1>3, <1>4, <1>5 DEF DataInv

-----------------------------------------------------------------------------
(* Claims and their results *)

LEMMA GivenUpJob ==
  ASSUME NEW j, IsJob(j), NEW now
  PROVE  /\ IsJob(GivenUp(j, now)) /\ GivenUp(j, now).file = j.file
         /\ GivenUp(j, now).token = j.token + 1 /\ GivenUp(j, now).state \notin Live
BY DEF GivenUp, IsJob, Live

LEMMA ClaimedJob ==
  ASSUME NEW j, IsJob(j), NEW now
  PROVE  /\ IsJob(Claimed(j, now)) /\ Claimed(j, now).file = j.file /\ Claimed(j, now).token = j.token + 1
BY DEF Claimed, IsJob

LEMMA ClaimMoves ==
  ASSUME FileTypeOK, NEW p \in Process, Claim(p)
  PROVE  /\ JobsKept /\ UNCHANGED <<cowrie, checkpoint, results, lock, runner, luck, lost>>
         /\ \/ Rest(p) /\ UNCHANGED claimant
            \/ \E id \in LiveJobs :
                 /\ jobs'[id].token = jobs[id].token + 1
                 /\ \E to \in {"adopt", "copy"} : Goto(p, to)
                 /\ Recall(p, [NoTask EXCEPT !.id = id, !.file = jobs[id].file, !.token = jobs[id].token + 1])
                 /\ DOMAIN claimant' = DOMAIN claimant \cup {id}
                 /\ \A i \in DOMAIN claimant' : claimant'[i] = (IF i = id THEN p ELSE claimant[i])
<1>1. PICK now : now = task[p].now
  OBVIOUS
<1>2. PICK swept : swept = [i \in DOMAIN jobs |-> IF i \in Exhausted(now) THEN GivenUp(jobs[i], now) ELSE jobs[i]]
  OBVIOUS
<1>3. \A i \in DOMAIN jobs : IsJob(jobs[i])
  BY DEF FileTypeOK
<1>4. ASSUME NEW i \in DOMAIN jobs
      PROVE  /\ IsJob(swept[i]) /\ swept[i].file = jobs[i].file /\ swept[i].token >= jobs[i].token
             /\ swept[i].state \in Live => jobs[i].state \in Live
  <2>1. CASE i \in Exhausted(now)
    <3>1. swept[i] = GivenUp(jobs[i], now) /\ jobs[i].token \in Nat
      BY <1>2, <1>3, <2>1 DEF IsJob
    <3> QED
      BY <1>3, <3>1, GivenUpJob
  <2>2. CASE i \notin Exhausted(now)
    <3>1. swept[i] = jobs[i] /\ jobs[i].token \in Nat
      BY <1>2, <1>3, <2>2 DEF IsJob
    <3> QED
      BY <1>3, <3>1
  <2> QED
    BY <2>1, <2>2
<1>5. UNCHANGED <<cowrie, checkpoint, results, lock, runner, luck, lost>>
  BY DEF Claim
<1>6. CASE jobs' = swept /\ Rest(p) /\ UNCHANGED claimant
  <2>1. JobsKept
    BY <1>2, <1>4, <1>6 DEF JobsKept
  <2> QED
    BY <1>5, <1>6, <2>1
<1>7. ASSUME NEW id \in First(Due(now)),
             jobs' = [swept EXCEPT ![id] = Claimed(jobs[id], now)],
             Goto(p, IF jobs[id].hashed THEN "adopt" ELSE "copy"),
             Recall(p, [NoTask EXCEPT !.id = id, !.file = jobs[id].file, !.token = jobs[id].token + 1]),
             claimant' = [i \in DOMAIN claimant \cup {id} |-> IF i = id THEN p ELSE claimant[i]]
      PROVE  JobsKept /\ id \in LiveJobs /\ jobs'[id].token = jobs[id].token + 1
  <2>1. id \in LiveJobs /\ id \in DOMAIN jobs /\ jobs[id].state \in Live
    BY <1>7 DEF First, Due, LiveJobs
  <2>2. IsJob(jobs[id]) /\ jobs[id].token \in Nat
    BY <1>3, <2>1 DEF IsJob
  <2>3. DOMAIN jobs' = DOMAIN jobs /\ \A i \in DOMAIN jobs : jobs'[i] = (IF i = id THEN Claimed(jobs[id], now) ELSE swept[i])
    BY <1>2, <1>7
  <2>4. jobs'[id].token = jobs[id].token + 1 /\ IsJob(jobs'[id]) /\ jobs'[id].file = jobs[id].file
    BY <2>1, <2>2, <2>3, ClaimedJob
  <2>5. JobsKept
    BY <1>4, <2>1, <2>2, <2>3, <2>4 DEF JobsKept
  <2> QED
    BY <2>1, <2>4, <2>5
<1>8. \/ jobs' = swept /\ Rest(p) /\ UNCHANGED claimant
      \/ \E id \in First(Due(now)) :
           /\ jobs' = [swept EXCEPT ![id] = Claimed(jobs[id], now)]
           /\ Goto(p, IF jobs[id].hashed THEN "adopt" ELSE "copy")
           /\ Recall(p, [NoTask EXCEPT !.id = id, !.file = jobs[id].file, !.token = jobs[id].token + 1])
           /\ claimant' = [i \in DOMAIN claimant \cup {id} |-> IF i = id THEN p ELSE claimant[i]]
  BY <1>1, <1>2 DEF Claim
<1>9. CASE \E id \in First(Due(now)) :
           /\ jobs' = [swept EXCEPT ![id] = Claimed(jobs[id], now)]
           /\ Goto(p, IF jobs[id].hashed THEN "adopt" ELSE "copy")
           /\ Recall(p, [NoTask EXCEPT !.id = id, !.file = jobs[id].file, !.token = jobs[id].token + 1])
           /\ claimant' = [i \in DOMAIN claimant \cup {id} |-> IF i = id THEN p ELSE claimant[i]]
  <2>1. PICK id \in First(Due(now)) :
           /\ jobs' = [swept EXCEPT ![id] = Claimed(jobs[id], now)]
           /\ Goto(p, IF jobs[id].hashed THEN "adopt" ELSE "copy")
           /\ Recall(p, [NoTask EXCEPT !.id = id, !.file = jobs[id].file, !.token = jobs[id].token + 1])
           /\ claimant' = [i \in DOMAIN claimant \cup {id} |-> IF i = id THEN p ELSE claimant[i]]
    BY <1>9
  <2>2. JobsKept /\ id \in LiveJobs /\ jobs'[id].token = jobs[id].token + 1
    BY <1>7, <2>1
  <2>3. \E to \in {"adopt", "copy"} : Goto(p, to)
    BY <2>1
  <2>4. /\ DOMAIN claimant' = DOMAIN claimant \cup {id}
        /\ \A i \in DOMAIN claimant' : claimant'[i] = (IF i = id THEN p ELSE claimant[i])
    BY <2>1
  <2> QED
    BY <1>5, <2>1, <2>2, <2>3, <2>4
<1> QED
  BY <1>6, <1>8, <1>9

(* A result changes a job only for the claim whose token it still has. *)
LEMMA CompleteMoves ==
  ASSUME FileTypeOK, NEW p \in Process, Complete(p)
  PROVE  /\ JobsKept
         /\ \A id \in DOMAIN jobs : jobs'[id] # jobs[id] => id = task[p].id /\ SameClaim(p)
<1>1. PICK now : now = task[p].now
  OBVIOUS
<1>2. PICK id : id = task[p].id
  OBVIOUS
<1>3. \A i \in DOMAIN jobs : IsJob(jobs[i]) /\ jobs[i].token \in Nat
  BY DEF FileTypeOK, IsJob
<1>4. PICK status, missing : status = task[p].status /\ missing = task[p].missing
  OBVIOUS
<1>5. jobs' = IF Held(p, now) THEN Completed(id, status, missing, now) ELSE Refused(p, now)
  BY <1>1, <1>2, <1>4 DEF Complete
<1>6. CASE Held(p, now)
  <2>1. id \in DOMAIN jobs /\ SameClaim(p) /\ jobs[id].state \in Live
    BY <1>2, <1>6 DEF Held, Live
  <2>2. PICK j : j = jobs[id]
    OBVIOUS
  <2>3. PICK state, next : jobs' = [jobs EXCEPT ![id].state = state, ![id].next = next,
                                                ![id].until = 0, ![id].clock = now]
    BY <1>5, <1>6 DEF Completed
  <2>4. jobs' = [jobs EXCEPT ![id] = [j EXCEPT !.state = state, !.next = next, !.until = 0, !.clock = now]]
    BY <2>2, <2>3
  <2>5. IsJob(j)
    BY <1>3, <2>1, <2>2
  <2>6. /\ DOMAIN jobs' = DOMAIN jobs
        /\ jobs'[id] = [j EXCEPT !.state = state, !.next = next, !.until = 0, !.clock = now]
        /\ \A i \in DOMAIN jobs : i # id => jobs'[i] = jobs[i]
    BY <2>1, <2>4
  <2>7. IsJob(jobs'[id]) /\ jobs'[id].file = j.file /\ jobs'[id].token = j.token
    BY <2>5, <2>6 DEF IsJob
  <2>8. JobsKept
    <3>1. jobs'[id].token >= jobs[id].token /\ jobs'[id].file = jobs[id].file
      BY <1>3, <2>1, <2>2, <2>7
    <3>2. \A i \in DOMAIN jobs : i # id => IsJob(jobs'[i]) /\ jobs'[i].file = jobs[i].file /\ jobs'[i].token >= jobs[i].token
      BY <1>3, <2>6
    <3> QED
      BY <2>1, <2>6, <2>7, <3>1, <3>2 DEF JobsKept
  <2> QED
    BY <1>2, <2>1, <2>6, <2>8
<1>7. CASE ~Held(p, now) /\ id \in DOMAIN jobs /\ SameClaim(p) /\ jobs[id].state = "leased"
  <2>1. PICK j : j = jobs[id]
    OBVIOUS
  <2>2. PICK state, next, clock :
          /\ state = IF j.attempts >= MaxAttempts THEN "failed" ELSE "retry"
          /\ next = Max({j.clock, now}) /\ clock = Max({j.clock, now})
    OBVIOUS
  <2>3. jobs' = [jobs EXCEPT ![id] = [j EXCEPT !.state = state, !.token = j.token + 1, !.until = 0,
                                               !.next = next, !.clock = clock]]
    <3>1. jobs' = Refused(p, now)
      BY <1>5, <1>7
    <3> QED
      BY <1>2, <1>7, <2>1, <2>2, <3>1 DEF Refused
  <2>4. IsJob(j)
    BY <1>3, <1>7, <2>1
  <2>5. /\ DOMAIN jobs' = DOMAIN jobs
        /\ jobs'[id] = [j EXCEPT !.state = state, !.token = j.token + 1, !.until = 0,
                                 !.next = next, !.clock = clock]
        /\ \A i \in DOMAIN jobs : i # id => jobs'[i] = jobs[i]
    BY <1>7, <2>3
  <2>6. IsJob(jobs'[id]) /\ jobs'[id].file = j.file /\ jobs'[id].token = j.token + 1
    BY <2>4, <2>5 DEF IsJob
  <2>7. JobsKept
    <3>1. jobs'[id].token >= jobs[id].token /\ jobs'[id].file = jobs[id].file /\ jobs[id].state \in Live
      BY <1>3, <1>7, <2>1, <2>6 DEF Live
    <3>2. \A i \in DOMAIN jobs : i # id => IsJob(jobs'[i]) /\ jobs'[i].file = jobs[i].file /\ jobs'[i].token >= jobs[i].token
      BY <1>3, <2>5
    <3> QED
      BY <2>5, <2>6, <3>1, <3>2 DEF JobsKept
  <2> QED
    BY <1>2, <1>7, <2>5, <2>7
<1>8. CASE ~Held(p, now) /\ ~(id \in DOMAIN jobs /\ SameClaim(p) /\ jobs[id].state = "leased")
  <2>1. jobs' = jobs
    BY <1>2, <1>5, <1>8 DEF Refused
  <2> QED
    BY <1>3, <2>1 DEF JobsKept
<1> QED
  BY <1>6, <1>7, <1>8

-----------------------------------------------------------------------------
(* Tasks and locks *)

(* What changes events or jobs elsewhere leaves the claims alone: a new job *)
(* is one of an event that is retained.                                     *)
ClaimsApart ==
  /\ UNCHANGED <<pc, task, claimant>> /\ lastID' \in Nat /\ lastID' >= lastID
  /\ \A e \in events' : e.id <= lastID => e \in events
  /\ \A id \in DOMAIN jobs' : id \in DOMAIN jobs \/ Retained(id)
  /\ \A id \in DOMAIN jobs : id \in DOMAIN jobs' => jobs'[id] = jobs[id]
  /\ \A id \in DOMAIN jobs : Retained(id) => id \in DOMAIN jobs'

LEMMA ApartClaims ==
  ASSUME FileTypeOK, NEW p \in Process, ClaimInv(p), ClaimsApart
  PROVE  ClaimInv(p)'
<1>1. PICK t : t = task[p]
  OBVIOUS
<1>2. task'[p] = t /\ pc'[p] = pc[p] /\ claimant' = claimant
  BY <1>1 DEF ClaimsApart
<1>3. SUFFICES ASSUME pc[p] \in Busy
               PROVE  /\ t.id <= lastID'
                      /\ (\E e \in events' : e.id = t.id) => t.id \in DOMAIN jobs'
                      /\ t.id \in DOMAIN jobs' =>
                           /\ jobs'[t.id].file = t.file /\ t.token <= jobs'[t.id].token
                           /\ t.token = jobs'[t.id].token => t.id \in DOMAIN claimant /\ claimant[t.id] = p
  BY <1>2 DEF ClaimInv, Retained
<1>4. /\ t.id <= lastID
      /\ Retained(t.id) => t.id \in DOMAIN jobs
      /\ t.id \in DOMAIN jobs =>
           /\ jobs[t.id].file = t.file /\ t.token <= jobs[t.id].token
           /\ t.token = jobs[t.id].token => t.id \in DOMAIN claimant /\ claimant[t.id] = p
  BY <1>1, <1>3 DEF ClaimInv
<1>5. t.id \in Nat /\ lastID \in Nat /\ lastID' \in Nat /\ lastID' >= lastID
  BY <1>1 DEF FileTypeOK, IsTask, ClaimsApart
<1>6. t.id <= lastID'
  BY <1>4, <1>5
<1>7. ASSUME NEW e \in events', e.id = t.id PROVE t.id \in DOMAIN jobs'
  BY <1>4, <1>7 DEF ClaimsApart, Retained
<1>8. t.id \in DOMAIN jobs' => t.id \in DOMAIN jobs /\ jobs'[t.id] = jobs[t.id]
  BY <1>4 DEF ClaimsApart
<1> QED
  BY <1>4, <1>6, <1>7, <1>8

(* A step of one process: the others' tasks and locks stay, and evidence    *)
(* goes only where there are no others.                                     *)
StepOf(p) ==
  /\ UNCHANGED <<cowrie, checkpoint, lost>>
  /\ \A q \in Process \ {p} : /\ pc'[q] = pc[q] /\ task'[q] = task[q]
                              /\ captureMu'[q] = captureMu[q] /\ inHand'[q] = inHand[q]
  /\ Process = {p} \/ evidence \subseteq evidence'
(* One that claims no job and records no result. *)
Quiet(p) ==
  /\ StepOf(p) /\ UNCHANGED <<jobs, claimant>>
  /\ pc'[p] \in Busy => /\ pc[p] \in Busy /\ task'[p].id = task[p].id
                        /\ task'[p].file = task[p].file /\ task'[p].token = task[p].token

LEMMA OthersLocks ==
  ASSUME NEW p \in Process, StepOf(p), NEW q \in Process \ {p}, LockInv(q)
  PROVE  LockInv(q)'
<1>1. /\ pc'[q] = pc[q] /\ task'[q] = task[q] /\ captureMu'[q] = captureMu[q] /\ inHand'[q] = inHand[q]
      /\ evidence \subseteq evidence'
  BY DEF StepOf
<1> QED
  BY <1>1 DEF LockInv

LEMMA QuietClaims ==
  ASSUME NEW p \in Process, Quiet(p), \A q \in Process : ClaimInv(q)
  PROVE  \A q \in Process : ClaimInv(q)'
<1>1. UNCHANGED <<jobs, claimant, events, lastID>>
  BY DEF Quiet, StepOf, cowrie
<1>2. ASSUME NEW q \in Process PROVE ClaimInv(q)'
  <2>1. pc'[q] \in Busy => /\ pc[q] \in Busy /\ task'[q].id = task[q].id
                           /\ task'[q].file = task[q].file /\ task'[q].token = task[q].token
    BY DEF Quiet, StepOf
  <2>2. ClaimInv(q)
    OBVIOUS
  <2> QED
    BY <1>1, <2>1, <2>2 DEF ClaimInv, Retained
<1> QED
  BY <1>2

LEMMA Turned ==
  ASSUME FileTypeOK, NEW p \in Process, NEW to \in Stage, NEW t, IsTask(t), Goto(p, to), Recall(p, t)
  PROVE  /\ pc' \in [Process -> Stage] /\ DOMAIN task' = Process /\ \A q \in Process : IsTask(task'[q])
         /\ pc'[p] = to /\ task'[p] = t
         /\ \A q \in Process \ {p} : pc'[q] = pc[q] /\ task'[q] = task[q]
<1>1. pc' = [pc EXCEPT ![p] = to] /\ task' = [task EXCEPT ![p] = t]
  BY DEF Goto, Recall
<1> QED
  BY <1>1 DEF FileTypeOK

LEMMA Rested ==
  ASSUME FileTypeOK, NEW p \in Process, Rest(p)
  PROVE  /\ pc' \in [Process -> Stage] /\ DOMAIN task' = Process /\ \A q \in Process : IsTask(task'[q])
         /\ pc'[p] = "idle"
         /\ \A q \in Process \ {p} : pc'[q] = pc[q] /\ task'[q] = task[q]
<1>1. IsTask(NoTask) /\ "idle" \in Stage
  BY DEF NoTask, IsTask, Stage
<1> QED
  BY <1>1, Turned DEF Rest

(* A task that reports is the same task, and reports a failure. *)
LEMMA Reported ==
  ASSUME FileTypeOK, NEW p \in Process, NEW status, NEW missing, Report(p, status, missing)
  PROVE  /\ pc' \in [Process -> Stage] /\ DOMAIN task' = Process /\ \A q \in Process : IsTask(task'[q])
         /\ pc'[p] = "report" /\ task'[p].status = status
         /\ task'[p].id = task[p].id /\ task'[p].file = task[p].file /\ task'[p].token = task[p].token
         /\ \A q \in Process \ {p} : pc'[q] = pc[q] /\ task'[q] = task[q]
<1>1. PICK t : t = [task[p] EXCEPT !.now = wall, !.status = status, !.missing = missing]
  OBVIOUS
<1>2. IsTask(task[p])
  BY DEF FileTypeOK
<1>3. IsTask(t) /\ t.status = status /\ t.id = task[p].id /\ t.file = task[p].file /\ t.token = task[p].token
  BY <1>1, <1>2 DEF IsTask
<1>4. Goto(p, "report") /\ Recall(p, t) /\ "report" \in Stage
  BY <1>1 DEF Report, Stage
<1> QED
  BY <1>3, <1>4, Turned

LEMMA Recorded ==
  ASSUME FileTypeOK, NEW p \in Process, Record(p)
  PROVE  /\ pc' \in [Process -> Stage] /\ DOMAIN task' = Process /\ \A q \in Process : IsTask(task'[q])
         /\ pc'[p] = "record" /\ task'[p].id = task[p].id /\ task'[p].file = task[p].file
         /\ task'[p].token = task[p].token
         /\ DOMAIN captureMu' = Process /\ captureMu'[p] = "worker"
         /\ \A q \in Process \ {p} : pc'[q] = pc[q] /\ task'[q] = task[q] /\ captureMu'[q] = captureMu[q]
<1>1. PICK t : t = [task[p] EXCEPT !.now = wall, !.status = "archived"]
  OBVIOUS
<1>2. IsTask(task[p])
  BY DEF FileTypeOK
<1>3. IsTask(t) /\ t.id = task[p].id /\ t.file = task[p].file /\ t.token = task[p].token
  BY <1>1, <1>2 DEF IsTask
<1>4. Goto(p, "record") /\ Recall(p, t) /\ "record" \in Stage
  BY <1>1 DEF Record, Stage
<1>5. captureMu' = [captureMu EXCEPT ![p] = "worker"]
  BY DEF Record
<1>6. DOMAIN captureMu' = Process /\ captureMu'[p] = "worker"
      /\ \A q \in Process \ {p} : captureMu'[q] = captureMu[q]
  BY <1>5 DEF FileTypeOK
<1> QED
  BY <1>3, <1>4, <1>6, Turned

(* The same events and jobs, and typed tasks and locks. *)
LEMMA QuietType ==
  ASSUME FileTypeOK, NEW p \in Process, Quiet(p),
         pc' \in [Process -> Stage], DOMAIN task' = Process, \A q \in Process : IsTask(task'[q]),
         DOMAIN captureMu' = Process, DOMAIN inHand' = Process
  PROVE  FileTypeOK'
BY DEF FileTypeOK, Quiet, StepOf, cowrie, checkpoint

LEMMA QuietData ==
  ASSUME FileTypeOK, DataInv, NEW p \in Process, Quiet(p)
  PROVE  DataInv'
<1>1. UNCHANGED <<events, lastID, cursor, ceiling, progress, source, lost, jobs>>
  BY DEF Quiet, StepOf, cowrie, checkpoint
<1>2. JobsKept
  BY <1>1 DEF JobsKept, FileTypeOK, IsJob
<1> QED
  BY <1>1, <1>2, DataKept

FileInv == FileTypeOK /\ DataInv /\ TaskInv

LEMMA QuietKeeps ==
  ASSUME FileInv, NEW p \in Process, Quiet(p), FileTypeOK', LockInv(p)', EvidenceKept'
  PROVE  FileInv'
<1>1. DataInv'
  BY QuietData DEF FileInv
<1>2. \A q \in Process : ClaimInv(q)'
  BY QuietClaims DEF FileInv, TaskInv
<1>3. \A q \in Process : LockInv(q)'
  <2>1. ASSUME NEW q \in Process \ {p} PROVE LockInv(q)'
    BY OthersLocks DEF FileInv, TaskInv, Quiet
  <2> QED
    BY <2>1
<1> QED
  BY <1>1, <1>2, <1>3 DEF FileInv, TaskInv

LEMMA IdleKeeps ==
  ASSUME FileInv, UNCHANGED <<cowrie, checkpoint, jobs, results, worker, lock, history>>
  PROVE  FileInv'
<1>1. UNCHANGED <<events, lastID, logged, source, cursor, ceiling, progress, jobs, artifacts, evidence,
                  pc, task, captureMu, inHand, lost, claimant>>
  BY DEF cowrie, checkpoint, results, worker, lock, history
<1>2. FileTypeOK'
  BY <1>1 DEF FileInv, FileTypeOK
<1>3. DataInv'
  BY <1>1 DEF FileInv, DataInv, QueueInv, NothingSkipped, SourceHeld, LiveJobs
<1>4. ASSUME NEW p \in Process PROVE ClaimInv(p)' /\ LockInv(p)'
  <2>1. ClaimInv(p) /\ LockInv(p)
    BY DEF FileInv, TaskInv
  <2> QED
    BY <1>1, <2>1 DEF ClaimInv, LockInv, Retained
<1> QED
  BY <1>1, <1>2, <1>3, <1>4 DEF FileInv, TaskInv, EvidenceKept

LEMMA BeginTickKeeps ==
  ASSUME FileInv, NEW p \in Process, BeginTick(p)
  PROVE  FileInv'
<1>1. UNCHANGED <<events, lastID, logged, source, cursor, ceiling, progress, jobs, artifacts, evidence,
                  captureMu, inHand, lost, claimant>>
  BY DEF BeginTick, cowrie, checkpoint, results, lock, history
<1>2. PICK t : t = [NoTask EXCEPT !.now = wall]
  OBVIOUS
<1>3. IsTask(t)
  BY <1>2 DEF NoTask, IsTask
<1>4. Goto(p, "claim") /\ Recall(p, t) /\ "claim" \in Stage /\ pc[p] = "idle"
  BY <1>2 DEF BeginTick, Stage
<1>5. /\ pc' \in [Process -> Stage] /\ DOMAIN task' = Process /\ \A q \in Process : IsTask(task'[q])
      /\ pc'[p] = "claim" /\ \A q \in Process \ {p} : pc'[q] = pc[q] /\ task'[q] = task[q]
  BY <1>3, <1>4, Turned DEF FileInv
<1>6. Quiet(p)
  BY <1>1, <1>5 DEF Quiet, StepOf, Busy, cowrie, checkpoint
<1>7. FileTypeOK'
  BY <1>1, <1>5, <1>6, QuietType DEF FileInv, FileTypeOK
<1>8. LockInv(p)
  BY DEF FileInv, TaskInv
<1>9. LockInv(p)' /\ EvidenceKept'
  BY <1>1, <1>4, <1>5, <1>8 DEF LockInv, FileInv, TaskInv, EvidenceKept
<1> QED
  BY <1>6, <1>7, <1>9, QuietKeeps

LEMMA AdoptKeeps ==
  ASSUME FileInv, NEW p \in Process, Adopt(p)
  PROVE  FileInv'
<1>1. UNCHANGED <<events, lastID, logged, source, cursor, ceiling, progress, jobs, artifacts, evidence,
                  inHand, lost, claimant>>
  BY DEF Adopt, cowrie, checkpoint, results, history
<1>2. pc[p] = "adopt" /\ captureMu[p] = "free"
  BY DEF Adopt
<1>3. EvidenceKept'
  BY <1>1 DEF FileInv, TaskInv, EvidenceKept
<1>4. CASE task[p].file \in evidence
  <2>1. /\ pc' \in [Process -> Stage] /\ DOMAIN task' = Process /\ \A q \in Process : IsTask(task'[q])
        /\ pc'[p] = "record" /\ task'[p].id = task[p].id /\ task'[p].file = task[p].file
        /\ task'[p].token = task[p].token
        /\ DOMAIN captureMu' = Process /\ captureMu'[p] = "worker"
        /\ \A q \in Process \ {p} : pc'[q] = pc[q] /\ task'[q] = task[q] /\ captureMu'[q] = captureMu[q]
    BY <1>4, Recorded DEF Adopt, Wanted, FileInv
  <2>2. Quiet(p)
    BY <1>1, <1>2, <2>1 DEF Quiet, StepOf, Busy, cowrie, checkpoint
  <2>3. FileTypeOK'
    BY <1>1, <2>1, <2>2, QuietType DEF FileInv, FileTypeOK
  <2>4. LockInv(p)'
    BY <1>1, <1>4, <2>1 DEF LockInv
  <2> QED
    BY <1>3, <2>2, <2>3, <2>4, QuietKeeps
<1>5. CASE task[p].file \notin evidence
  <2>1. pc' = [pc EXCEPT ![p] = "copy"] /\ UNCHANGED <<task, captureMu>>
    BY <1>5 DEF Adopt, Wanted, Goto
  <2>2. pc' \in [Process -> Stage] /\ pc'[p] = "copy" /\ \A q \in Process \ {p} : pc'[q] = pc[q]
    BY <2>1 DEF FileInv, FileTypeOK, Stage
  <2>3. Quiet(p)
    BY <1>1, <1>2, <2>1, <2>2 DEF Quiet, StepOf, Busy, cowrie, checkpoint
  <2>4. FileTypeOK'
    BY <1>1, <2>1, <2>2, <2>3, QuietType DEF FileInv, FileTypeOK
  <2>5. LockInv(p)'
    BY <1>2, <2>1, <2>2 DEF LockInv
  <2> QED
    BY <1>3, <2>3, <2>4, <2>5, QuietKeeps
<1> QED
  BY <1>4, <1>5

LEMMA CopyKeeps ==
  ASSUME FileInv, NEW p \in Process, Copy(p)
  PROVE  FileInv'
<1>1. UNCHANGED <<events, lastID, logged, source, cursor, ceiling, progress, jobs, artifacts, evidence,
                  captureMu, inHand, lost, claimant>>
  BY DEF Copy, cowrie, checkpoint, results, lock, history
<1>2. pc[p] = "copy" /\ LockInv(p)
  BY DEF Copy, FileInv, TaskInv
<1>3. /\ pc' \in [Process -> Stage] /\ DOMAIN task' = Process /\ \A q \in Process : IsTask(task'[q])
      /\ task'[p].id = task[p].id /\ task'[p].file = task[p].file /\ task'[p].token = task[p].token
      /\ pc'[p] \in {"publish", "report"} /\ (pc'[p] = "report" => task'[p].status = "retry")
      /\ \A q \in Process \ {p} : pc'[q] = pc[q] /\ task'[q] = task[q]
  <2>1. CASE Wanted(p) \in source
    <3>1. pc' = [pc EXCEPT ![p] = "publish"] /\ task' = task
      BY <2>1 DEF Copy, Goto
    <3>2. pc' \in [Process -> Stage] /\ pc'[p] = "publish" /\ \A q \in Process \ {p} : pc'[q] = pc[q]
      BY <3>1 DEF FileInv, FileTypeOK, Stage
    <3>3. DOMAIN task' = Process /\ \A q \in Process : IsTask(task'[q])
      BY <3>1 DEF FileInv, FileTypeOK
    <3>4. \A q \in Process : task'[q] = task[q]
      BY <3>1
    <3>5. task'[p].id = task[p].id /\ task'[p].file = task[p].file /\ task'[p].token = task[p].token
      BY <3>1
    <3> QED
      BY <3>2, <3>3, <3>4, <3>5
  <2>2. CASE Wanted(p) \notin source
    <3>1. Report(p, "retry", TRUE)
      BY <2>2 DEF Copy
    <3> QED
      BY <3>1, Reported DEF FileInv
  <2> QED
    BY <2>1, <2>2
<1>4. Quiet(p)
  BY <1>1, <1>2, <1>3 DEF Quiet, StepOf, Busy, cowrie, checkpoint
<1>5. FileTypeOK'
  BY <1>1, <1>3, <1>4, QuietType DEF FileInv, FileTypeOK
<1>6. LockInv(p)' /\ EvidenceKept'
  BY <1>1, <1>2, <1>3 DEF LockInv, FileInv, TaskInv, EvidenceKept
<1> QED
  BY <1>4, <1>5, <1>6, QuietKeeps

LEMMA PublishKeeps ==
  ASSUME FileInv, NEW p \in Process, Publish(p)
  PROVE  FileInv'
<1>1. /\ UNCHANGED <<events, lastID, logged, source, cursor, ceiling, progress, jobs, artifacts, inHand,
                     lost, claimant>>
      /\ evidence' = evidence \cup {task[p].file} /\ pc[p] = "publish"
  BY DEF Publish, cowrie, checkpoint, history, Wanted
<1>2. /\ pc' \in [Process -> Stage] /\ DOMAIN task' = Process /\ \A q \in Process : IsTask(task'[q])
      /\ pc'[p] = "record" /\ task'[p].id = task[p].id /\ task'[p].file = task[p].file
      /\ task'[p].token = task[p].token
      /\ DOMAIN captureMu' = Process /\ captureMu'[p] = "worker"
      /\ \A q \in Process \ {p} : pc'[q] = pc[q] /\ task'[q] = task[q] /\ captureMu'[q] = captureMu[q]
  BY Recorded DEF Publish, FileInv
<1>3. Quiet(p)
  BY <1>1, <1>2 DEF Quiet, StepOf, Busy, cowrie, checkpoint
<1>4. FileTypeOK'
  BY <1>1, <1>2, <1>3, QuietType DEF FileInv, FileTypeOK
<1>5. LockInv(p)' /\ EvidenceKept'
  BY <1>1, <1>2 DEF LockInv, FileInv, TaskInv, EvidenceKept
<1> QED
  BY <1>3, <1>4, <1>5, QuietKeeps

LEMMA FailTaskKeeps ==
  ASSUME FileInv, NEW p \in Process, FailTask(p)
  PROVE  FileInv'
<1>1. UNCHANGED <<events, lastID, logged, source, cursor, ceiling, progress, jobs, artifacts, evidence,
                  captureMu, inHand, lost, claimant>>
  BY DEF FailTask, cowrie, checkpoint, results, lock, history
<1>2. pc[p] \in {"adopt", "copy", "publish"} /\ LockInv(p)
  BY DEF FailTask, FileInv, TaskInv
<1>3. PICK status \in {"retry", "rejected"} : Report(p, status, FALSE)
  BY DEF FailTask
<1>4. /\ pc' \in [Process -> Stage] /\ DOMAIN task' = Process /\ \A q \in Process : IsTask(task'[q])
      /\ pc'[p] = "report" /\ task'[p].status = status
      /\ task'[p].id = task[p].id /\ task'[p].file = task[p].file /\ task'[p].token = task[p].token
      /\ \A q \in Process \ {p} : pc'[q] = pc[q] /\ task'[q] = task[q]
  BY <1>3, Reported DEF FileInv
<1>5. Quiet(p)
  BY <1>1, <1>2, <1>4 DEF Quiet, StepOf, Busy, cowrie, checkpoint
<1>6. FileTypeOK'
  BY <1>1, <1>4, <1>5, QuietType DEF FileInv, FileTypeOK
<1>7. LockInv(p)' /\ EvidenceKept'
  BY <1>1, <1>2, <1>4 DEF LockInv, FileInv, TaskInv, EvidenceKept
<1> QED
  BY <1>5, <1>6, <1>7, QuietKeeps

LEMMA FailWriteKeeps ==
  ASSUME FileInv, NEW p \in Process, FailWrite(p)
  PROVE  FileInv'
<1>1. /\ UNCHANGED <<events, lastID, logged, source, cursor, ceiling, progress, jobs, artifacts, evidence,
                     inHand, lost, claimant>>
      /\ captureMu' = [captureMu EXCEPT ![p] = IF pc[p] = "record" THEN "free" ELSE @]
  BY DEF FailWrite, cowrie, checkpoint, results, history
<1>2. LockInv(p)
  BY DEF FileInv, TaskInv
<1>3. /\ pc' \in [Process -> Stage] /\ DOMAIN task' = Process /\ \A q \in Process : IsTask(task'[q])
      /\ pc'[p] = "idle" /\ \A q \in Process \ {p} : pc'[q] = pc[q] /\ task'[q] = task[q]
  BY Rested DEF FailWrite, FileInv
<1>4. /\ DOMAIN captureMu' = Process /\ \A q \in Process \ {p} : captureMu'[q] = captureMu[q]
      /\ captureMu'[p] = IF pc[p] = "record" THEN "free" ELSE captureMu[p]
  BY <1>1 DEF FileInv, FileTypeOK
<1>5. Quiet(p)
  BY <1>1, <1>3, <1>4 DEF Quiet, StepOf, Busy, cowrie, checkpoint
<1>6. FileTypeOK'
  BY <1>1, <1>3, <1>4, <1>5, QuietType DEF FileInv, FileTypeOK
<1>7. LockInv(p)' /\ EvidenceKept'
  BY <1>1, <1>2, <1>3, <1>4 DEF LockInv, FileInv, TaskInv, EvidenceKept
<1> QED
  BY <1>5, <1>6, <1>7, QuietKeeps

(* The directory sync and retention move only the lock and what is in hand. *)
LEMMA LockMoves ==
  ASSUME FileInv, NEW p \in Process, UNCHANGED <<cowrie, checkpoint, jobs, worker, history>>,
         NEW mode, NEW files,
         captureMu' = [captureMu EXCEPT ![p] = mode], inHand' = [inHand EXCEPT ![p] = files],
         Process = {p} \/ evidence \subseteq evidence'
  PROVE  /\ Quiet(p) /\ FileTypeOK'
         /\ captureMu'[p] = mode /\ inHand'[p] = files /\ pc'[p] = pc[p] /\ task'[p] = task[p]
<1>1. /\ DOMAIN captureMu' = Process /\ DOMAIN inHand' = Process
      /\ \A q \in Process \ {p} : captureMu'[q] = captureMu[q] /\ inHand'[q] = inHand[q]
      /\ captureMu'[p] = mode /\ inHand'[p] = files
  BY DEF FileInv, FileTypeOK
<1>2. UNCHANGED <<pc, task, lost, claimant>>
  BY DEF worker, history
<1>3. Quiet(p)
  BY <1>1, <1>2 DEF Quiet, StepOf
<1>4. FileTypeOK'
  BY <1>1, <1>2, <1>3, QuietType DEF FileInv, FileTypeOK
<1> QED
  BY <1>1, <1>2, <1>3, <1>4

LEMMA SyncCopyKeeps ==
  ASSUME FileInv, NEW p \in Process, NEW c \in Content, SyncCopy(p, c)
  PROVE  FileInv'
<1>1. /\ evidence' = evidence \cup {c} /\ artifacts' = artifacts /\ captureMu[p] = "free" /\ LockInv(p)
  BY DEF SyncCopy, FileInv, TaskInv
<1>2. /\ Quiet(p) /\ FileTypeOK'
      /\ captureMu'[p] = "sync" /\ inHand'[p] = {c} /\ pc'[p] = pc[p] /\ task'[p] = task[p]
  BY <1>1, LockMoves DEF SyncCopy
<1>3. LockInv(p)' /\ EvidenceKept'
  BY <1>1, <1>2 DEF LockInv, FileInv, TaskInv, EvidenceKept
<1> QED
  BY <1>2, <1>3, QuietKeeps

LEMMA SyncRecordKeeps ==
  ASSUME FileInv, NEW p \in Process, SyncRecord(p)
  PROVE  FileInv'
<1>1. /\ evidence' = evidence /\ captureMu[p] = "sync" /\ LockInv(p)
      /\ artifacts' = artifacts \cup {[of |-> Raw, file |-> c] : c \in inHand[p]}
  BY DEF SyncRecord, FileInv, TaskInv
<1>2. /\ Quiet(p) /\ FileTypeOK'
      /\ captureMu'[p] = "free" /\ inHand'[p] = {} /\ pc'[p] = pc[p] /\ task'[p] = task[p]
  BY <1>1, LockMoves DEF SyncRecord
<1>3. LockInv(p)' /\ EvidenceKept'
  BY <1>1, <1>2 DEF LockInv, FileInv, TaskInv, EvidenceKept
<1> QED
  BY <1>2, <1>3, QuietKeeps

LEMMA PurgeArtifactsKeeps ==
  ASSUME FileInv, NEW p \in Process, PurgeArtifacts(p)
  PROVE  FileInv'
<1>1. PICK S : artifacts' = artifacts \ S /\ inHand' = [inHand EXCEPT ![p] = {a.file : a \in S}]
  BY DEF PurgeArtifacts
<1>2. evidence' = evidence /\ captureMu[p] = "free" /\ LockInv(p) /\ p \in Retainer
  BY DEF PurgeArtifacts, FileInv, TaskInv
<1>3. /\ Quiet(p) /\ FileTypeOK' /\ captureMu'[p] = "purge" /\ pc'[p] = pc[p] /\ task'[p] = task[p]
  BY <1>1, <1>2, LockMoves DEF PurgeArtifacts
<1>4. LockInv(p)' /\ EvidenceKept'
  BY <1>1, <1>2, <1>3 DEF LockInv, FileInv, TaskInv, EvidenceKept
<1> QED
  BY <1>3, <1>4, QuietKeeps

(* A purge removes no file that a row names, and no task can hold one.      *)
LEMMA RemoveEvidenceKeeps ==
  ASSUME FileInv, NEW p \in Process, RemoveEvidence(p)
  PROVE  FileInv'
<1>1. PICK c \in inHand[p] :
        /\ evidence' = IF Unreferenced(c) THEN evidence \ {c} ELSE evidence
        /\ inHand' = [inHand EXCEPT ![p] = @ \ {c}]
        /\ captureMu' = [captureMu EXCEPT ![p] = IF inHand'[p] = {} THEN "free" ELSE @]
  BY DEF RemoveEvidence
<1>2. artifacts' = artifacts /\ captureMu[p] = "purge" /\ LockInv(p)
  BY DEF RemoveEvidence, FileInv, TaskInv
<1>3. p \in Retainer /\ Process = {p} /\ pc[p] # "record"
  BY <1>2, Constants DEF LockInv
<1>4. PICK mode, files : mode = (IF inHand'[p] = {} THEN "free" ELSE captureMu[p]) /\ files = inHand[p] \ {c}
  OBVIOUS
<1>5. captureMu' = [captureMu EXCEPT ![p] = mode] /\ inHand' = [inHand EXCEPT ![p] = files]
  BY <1>1, <1>4
<1>6. /\ Quiet(p) /\ FileTypeOK' /\ captureMu'[p] = mode /\ pc'[p] = pc[p] /\ task'[p] = task[p]
  BY <1>3, <1>5, LockMoves DEF RemoveEvidence
<1>7. mode \in {"free", "purge"}
  BY <1>2, <1>4
<1>8. LockInv(p)'
  BY <1>2, <1>3, <1>6, <1>7 DEF LockInv
<1>9. EvidenceKept'
  BY <1>1, <1>2 DEF FileInv, TaskInv, EvidenceKept, Unreferenced
<1> QED
  BY <1>6, <1>8, <1>9, QuietKeeps

LEMMA StopShortKeeps ==
  ASSUME FileInv, NEW p \in Process, StopShort(p)
  PROVE  FileInv'
<1>1. UNCHANGED <<artifacts, evidence>> /\ captureMu[p] \in {"sync", "purge"} /\ LockInv(p)
  BY DEF StopShort, results, FileInv, TaskInv
<1>2. /\ Quiet(p) /\ FileTypeOK'
      /\ captureMu'[p] = "free" /\ inHand'[p] = {} /\ pc'[p] = pc[p] /\ task'[p] = task[p]
  BY <1>1, LockMoves DEF StopShort
<1>3. LockInv(p)' /\ EvidenceKept'
  BY <1>1, <1>2 DEF LockInv, FileInv, TaskInv, EvidenceKept
<1> QED
  BY <1>2, <1>3, QuietKeeps

LEMMA CrashKeeps ==
  ASSUME FileInv, NEW p \in Process, Crash(p)
  PROVE  FileInv'
<1>1. /\ UNCHANGED <<events, lastID, logged, source, cursor, ceiling, progress, jobs, artifacts, evidence,
                     lost, claimant>>
      /\ captureMu' = [captureMu EXCEPT ![p] = "free"] /\ inHand' = [inHand EXCEPT ![p] = {}]
  BY DEF Crash, cowrie, checkpoint, results, history
<1>2. /\ pc' \in [Process -> Stage] /\ DOMAIN task' = Process /\ \A q \in Process : IsTask(task'[q])
      /\ pc'[p] = "idle" /\ \A q \in Process \ {p} : pc'[q] = pc[q] /\ task'[q] = task[q]
  BY Rested DEF Crash, FileInv
<1>3. /\ DOMAIN captureMu' = Process /\ DOMAIN inHand' = Process /\ captureMu'[p] = "free"
      /\ \A q \in Process \ {p} : captureMu'[q] = captureMu[q] /\ inHand'[q] = inHand[q]
  BY <1>1 DEF FileInv, FileTypeOK
<1>4. Quiet(p)
  BY <1>1, <1>2, <1>3 DEF Quiet, StepOf, Busy, cowrie, checkpoint
<1>5. FileTypeOK'
  BY <1>1, <1>2, <1>3, <1>4, QuietType DEF FileInv
<1>6. LockInv(p)' /\ EvidenceKept'
  BY <1>1, <1>2, <1>3 DEF LockInv, FileInv, TaskInv, EvidenceKept
<1> QED
  BY <1>4, <1>5, <1>6, QuietKeeps

(* A claim gives the job a token nobody has, and its own task that token.   *)
LEMMA ClaimKeeps ==
  ASSUME FileInv, NEW p \in Process, Claim(p)
  PROVE  FileInv'
<1>1. /\ JobsKept /\ UNCHANGED <<cowrie, checkpoint, results, lock, runner, luck, lost>>
      /\ \/ Rest(p) /\ UNCHANGED claimant
         \/ \E id \in LiveJobs :
              /\ jobs'[id].token = jobs[id].token + 1
              /\ \E to \in {"adopt", "copy"} : Goto(p, to)
              /\ Recall(p, [NoTask EXCEPT !.id = id, !.file = jobs[id].file, !.token = jobs[id].token + 1])
              /\ DOMAIN claimant' = DOMAIN claimant \cup {id}
              /\ \A i \in DOMAIN claimant' : claimant'[i] = (IF i = id THEN p ELSE claimant[i])
  BY ClaimMoves DEF FileInv
<1>2. UNCHANGED <<events, lastID, logged, source, cursor, ceiling, progress, artifacts, evidence,
                  captureMu, inHand, lost>>
  BY <1>1 DEF cowrie, checkpoint, results, lock
<1>3. pc[p] = "claim" /\ LockInv(p) /\ \A q \in Process : ClaimInv(q)
  BY DEF Claim, FileInv, TaskInv
<1>4. \A id \in DOMAIN jobs : jobs[id].token \in Nat /\ jobs'[id].token \in Nat
  BY <1>1 DEF JobsKept, FileInv, FileTypeOK, IsJob
<1>5. DataInv'
  BY <1>1, <1>2, DataKept DEF FileInv
<1>6. \A id \in DOMAIN jobs' : IsJob(jobs'[id])
  BY <1>1 DEF JobsKept
<1>7. EvidenceKept'
  BY <1>2 DEF FileInv, TaskInv, EvidenceKept
<1>8. ASSUME NEW q \in Process, pc'[q] = pc[q], task'[q] = task[q], captureMu' = captureMu, inHand' = inHand
      PROVE  LockInv(q)'
  BY <1>2, <1>8 DEF FileInv, TaskInv, LockInv
<1>9. CASE Rest(p) /\ UNCHANGED claimant
  <2>1. /\ pc' \in [Process -> Stage] /\ DOMAIN task' = Process /\ \A q \in Process : IsTask(task'[q])
        /\ pc'[p] = "idle" /\ \A q \in Process \ {p} : pc'[q] = pc[q] /\ task'[q] = task[q]
    BY <1>9, Rested DEF FileInv
  <2>2. FileTypeOK'
    BY <1>2, <1>6, <2>1 DEF FileInv, FileTypeOK
  <2>3. ASSUME NEW q \in Process PROVE ClaimInv(q)' /\ LockInv(q)'
    <3>1. CASE q = p
      BY <1>2, <1>3, <2>1, <3>1 DEF ClaimInv, LockInv, Busy
    <3>2. CASE q # p
      <4>1. pc'[q] = pc[q] /\ task'[q] = task[q]
        BY <2>1, <3>2
      <4>2. pc[q] \in Busy /\ task[q].id \in DOMAIN jobs => task[q].token \in Nat
        BY DEF FileInv, FileTypeOK, IsTask
      <4>3. ClaimInv(q)'
        BY <1>1, <1>2, <1>3, <1>4, <1>9, <4>1, <4>2 DEF ClaimInv, Retained, JobsKept
      <4> QED
        BY <1>2, <1>8, <4>1, <4>3
    <3> QED
      BY <3>1, <3>2
  <2> QED
    BY <1>5, <1>7, <2>2, <2>3 DEF FileInv, TaskInv
<1>10. ASSUME NEW id \in LiveJobs, jobs'[id].token = jobs[id].token + 1,
              NEW to \in {"adopt", "copy"}, Goto(p, to),
              Recall(p, [NoTask EXCEPT !.id = id, !.file = jobs[id].file, !.token = jobs[id].token + 1]),
              DOMAIN claimant' = DOMAIN claimant \cup {id},
              \A i \in DOMAIN claimant' : claimant'[i] = (IF i = id THEN p ELSE claimant[i])
       PROVE  FileInv'
  <2>1. id \in DOMAIN jobs /\ id \in Nat /\ id <= lastID
    BY <1>10 DEF LiveJobs, FileInv, DataInv
  <2>2. PICK t : t = [NoTask EXCEPT !.id = id, !.file = jobs[id].file, !.token = jobs[id].token + 1]
    OBVIOUS
  <2>3. t.id = id /\ t.file = jobs[id].file /\ t.token = jobs[id].token + 1 /\ IsTask(t)
    BY <1>4, <2>1, <2>2 DEF NoTask, IsTask
  <2>4. Recall(p, t) /\ to \in Stage
    BY <1>10, <2>2 DEF Stage
  <2>5. /\ pc' \in [Process -> Stage] /\ DOMAIN task' = Process /\ \A q \in Process : IsTask(task'[q])
        /\ pc'[p] = to /\ task'[p] = t /\ \A q \in Process \ {p} : pc'[q] = pc[q] /\ task'[q] = task[q]
    BY <1>10, <2>3, <2>4, Turned DEF FileInv
  <2>6. FileTypeOK'
    BY <1>2, <1>6, <2>5 DEF FileInv, FileTypeOK
  <2>7. ClaimInv(p)' /\ LockInv(p)'
    <3>1. jobs'[id].file = jobs[id].file /\ id \in DOMAIN jobs'
      BY <1>1, <2>1 DEF JobsKept
    <3>2. t.token <= jobs'[id].token
      BY <1>4, <1>10, <2>1, <2>3
    <3>3. id \in DOMAIN claimant' /\ claimant'[id] = p
      BY <1>10
    <3>4. ClaimInv(p)'
      BY <1>2, <2>1, <2>3, <2>5, <3>1, <3>2, <3>3 DEF ClaimInv
    <3>5. LockInv(p)'
      BY <1>2, <1>3, <2>5 DEF LockInv
    <3> QED
      BY <3>4, <3>5
  <2>8. ASSUME NEW q \in Process, q # p PROVE ClaimInv(q)' /\ LockInv(q)'
    <3>1. pc'[q] = pc[q] /\ task'[q] = task[q]
      BY <2>5, <2>8
    <3>2. PICK r : r = task[q]
      OBVIOUS
    <3>3. r.token \in Nat /\ task'[q] = r
      BY <3>1, <3>2 DEF FileInv, FileTypeOK, IsTask
    <3>4. ASSUME pc[q] \in Busy, r.id \in DOMAIN jobs
          PROVE  /\ jobs'[r.id].file = r.file /\ r.token <= jobs'[r.id].token
                 /\ r.token = jobs'[r.id].token => r.id # id /\ r.token = jobs[r.id].token
      <4>1. /\ jobs[r.id].file = r.file /\ r.token <= jobs[r.id].token
        BY <1>3, <3>2, <3>4 DEF ClaimInv
      <4>2. jobs'[r.id].file = jobs[r.id].file /\ jobs'[r.id].token >= jobs[r.id].token
        BY <1>1, <3>4 DEF JobsKept
      <4>3. jobs[r.id].token \in Nat /\ jobs'[r.id].token \in Nat
        BY <1>4, <3>4
      <4>4. r.id = id => r.token < jobs'[r.id].token
        BY <1>10, <3>3, <4>1, <4>3
      <4> QED
        BY <3>3, <4>1, <4>2, <4>3, <4>4
    <3>5. ASSUME pc[q] \in Busy, r.id \in DOMAIN jobs, r.token = jobs'[r.id].token
          PROVE  r.id \in DOMAIN claimant' /\ claimant'[r.id] = q
      <4>1. r.id # id /\ r.token = jobs[r.id].token
        BY <3>4, <3>5
      <4>2. r.id \in DOMAIN claimant /\ claimant[r.id] = q
        BY <1>3, <3>2, <3>5, <4>1 DEF ClaimInv
      <4> QED
        BY <1>10, <4>1, <4>2
    <3>6. pc[q] \in Busy => r.id <= lastID /\ (Retained(r.id) => r.id \in DOMAIN jobs)
      BY <1>3, <3>2 DEF ClaimInv
    <3>7. DOMAIN jobs' = DOMAIN jobs
      BY <1>1 DEF JobsKept
    <3>8. ClaimInv(q)'
      BY <1>2, <3>1, <3>3, <3>4, <3>5, <3>6, <3>7 DEF ClaimInv, Retained
    <3> QED
      BY <1>2, <1>8, <3>1, <3>8
  <2> QED
    BY <1>5, <1>7, <2>6, <2>7, <2>8 DEF FileInv, TaskInv
<1> QED
  BY <1>1, <1>9, <1>10

LEMMA CompleteKeeps ==
  ASSUME FileInv, NEW p \in Process, Complete(p)
  PROVE  FileInv'
<1>1. JobsKept
  BY CompleteMoves DEF FileInv
<1>2. /\ UNCHANGED <<events, lastID, logged, source, cursor, ceiling, progress, evidence, inHand, lost, claimant>>
      /\ captureMu' = [captureMu EXCEPT ![p] = IF pc[p] = "record" THEN "free" ELSE @]
  BY DEF Complete, cowrie, checkpoint, history
<1>3. pc[p] \in {"record", "report"} /\ LockInv(p) /\ \A q \in Process : ClaimInv(q)
  BY DEF Complete, FileInv, TaskInv
<1>4. /\ pc' \in [Process -> Stage] /\ DOMAIN task' = Process /\ \A q \in Process : IsTask(task'[q])
      /\ pc'[p] = "idle" /\ \A q \in Process \ {p} : pc'[q] = pc[q] /\ task'[q] = task[q]
  BY Rested DEF Complete, FileInv
<1>5. /\ DOMAIN captureMu' = Process /\ \A q \in Process \ {p} : captureMu'[q] = captureMu[q]
      /\ captureMu'[p] = IF pc[p] = "record" THEN "free" ELSE captureMu[p]
  BY <1>2 DEF FileInv, FileTypeOK
<1>6. DataInv'
  BY <1>1, <1>2, DataKept DEF FileInv
<1>7. FileTypeOK'
  BY <1>1, <1>2, <1>4, <1>5 DEF FileInv, FileTypeOK, JobsKept
<1>8. EvidenceKept'
  <2>1. CASE Held(p, task[p].now) /\ task[p].status = "archived"
    <3>1. artifacts' = artifacts \cup {[of |-> task[p].id, file |-> jobs[task[p].id].file]}
      BY <2>1 DEF Complete
    <3>2. pc[p] = "record" /\ task[p].file \in evidence
      BY <1>3, <2>1 DEF LockInv
    <3>3. task[p].id \in DOMAIN jobs
      BY <2>1 DEF Held
    <3>4. jobs[task[p].id].file = task[p].file
      BY <1>3, <3>2, <3>3 DEF ClaimInv, Busy
    <3> QED
      BY <1>2, <3>1, <3>2, <3>4 DEF FileInv, TaskInv, EvidenceKept
  <2>2. CASE ~(Held(p, task[p].now) /\ task[p].status = "archived")
    <3>1. artifacts' = artifacts
      BY <2>2 DEF Complete
    <3> QED
      BY <1>2, <3>1 DEF FileInv, TaskInv, EvidenceKept
  <2> QED
    BY <2>1, <2>2
<1>9. ASSUME NEW q \in Process PROVE ClaimInv(q)' /\ LockInv(q)'
  <2>1. CASE q = p
    BY <1>2, <1>3, <1>4, <1>5, <2>1 DEF ClaimInv, LockInv, Busy
  <2>2. CASE q # p
    <3>1. pc'[q] = pc[q] /\ task'[q] = task[q] /\ captureMu'[q] = captureMu[q] /\ inHand' = inHand
      BY <1>2, <1>4, <1>5, <2>2
    <3>2. LockInv(q)'
      BY <1>2, <3>1 DEF LockInv, FileInv, TaskInv
    <3>3. task[q].token \in Nat
      BY DEF FileInv, FileTypeOK, IsTask
    <3>4. \A id \in DOMAIN jobs : jobs[id].token \in Nat /\ jobs'[id].token \in Nat
      BY <1>1 DEF JobsKept, FileInv, FileTypeOK, IsJob
    <3>5. ClaimInv(q)'
      BY <1>1, <1>2, <1>3, <3>1, <3>3, <3>4 DEF ClaimInv, Retained, JobsKept
    <3> QED
      BY <3>2, <3>5
  <2> QED
    BY <2>1, <2>2
<1> QED
  BY <1>6, <1>7, <1>8, <1>9 DEF FileInv, TaskInv

(* Cowrie, ingest, discovery and the purges of sources, events and jobs.    *)
LEMMA ApartKeeps ==
  ASSUME FileInv, FileTypeOK', DataInv', ClaimsApart, UNCHANGED <<results, lock>>
  PROVE  FileInv'
<1>1. UNCHANGED <<artifacts, evidence, captureMu, inHand, pc, task>>
  BY DEF results, lock, ClaimsApart
<1>2. ASSUME NEW p \in Process PROVE ClaimInv(p)' /\ LockInv(p)'
  <2>1. ClaimInv(p)'
    BY ApartClaims DEF FileInv, TaskInv
  <2>2. LockInv(p)'
    BY <1>1 DEF FileInv, TaskInv, LockInv
  <2> QED
    BY <2>1, <2>2
<1> QED
  BY <1>1, <1>2 DEF FileInv, TaskInv, EvidenceKept

LEMMA DeliverKeeps ==
  ASSUME FileInv, NEW kind \in Kind, NEW c \in Content, NEW hashed \in BOOLEAN, Deliver(kind, c, hashed)
  PROVE  FileInv'
<1>1. FileTypeOK' /\ DataInv'
  BY DeliverData DEF FileInv
<1>2. UNCHANGED <<events, lastID, jobs, pc, task, claimant, results, lock>>
  BY DEF Deliver, worker, history
<1>3. lastID \in Nat
  BY DEF FileInv, FileTypeOK
<1>4. ClaimsApart
  BY <1>2, <1>3 DEF ClaimsApart
<1> QED
  BY <1>1, <1>2, <1>4, ApartKeeps

LEMMA IngestKeeps ==
  ASSUME FileInv, NEW p \in Process, Ingest(p)
  PROVE  FileInv'
<1>1. FileTypeOK' /\ DataInv' /\ lastID' > lastID /\ \A e \in events' : e.id <= lastID => e \in events
  BY IngestData DEF FileInv
<1>2. UNCHANGED <<jobs, pc, task, claimant, results, lock>>
  BY DEF Ingest, worker
<1>3. lastID \in Nat /\ lastID' \in Nat /\ lastID' >= lastID
  BY <1>1 DEF FileInv, FileTypeOK
<1>4. ClaimsApart
  BY <1>1, <1>2, <1>3 DEF ClaimsApart
<1> QED
  BY <1>1, <1>2, <1>4, ApartKeeps

LEMMA ReplaceKeeps ==
  ASSUME FileInv, NEW p \in Process, Replace(p)
  PROVE  FileInv'
<1>1. FileTypeOK' /\ DataInv' /\ lastID' >= lastID /\ \A e \in events' : e.id > lastID
  BY ReplaceData DEF FileInv
<1>2. UNCHANGED <<jobs, pc, task, claimant, results, lock>>
  BY DEF Replace, worker
<1>3. lastID \in Nat /\ lastID' \in Nat /\ \A e \in events' : e.id \in Nat
  BY <1>1 DEF FileInv, FileTypeOK, Event
<1>4. \A e \in events' : ~(e.id <= lastID)
  BY <1>1, <1>3
<1>5. ClaimsApart
  BY <1>1, <1>2, <1>3, <1>4 DEF ClaimsApart
<1> QED
  BY <1>1, <1>2, <1>5, ApartKeeps

LEMMA QueueKeeps ==
  ASSUME FileInv, NEW ids, ids \subseteq {e.id : e \in events}, jobs' = Queued(ids), FileTypeOK', DataInv',
         UNCHANGED <<events, lastID, pc, task, claimant, results, lock>>
  PROVE  FileInv'
<1>1. DOMAIN jobs' = DOMAIN jobs \cup ids /\ \A id \in DOMAIN jobs : jobs'[id] = jobs[id]
  BY QueuedJobs DEF FileInv
<1>2. \A id \in ids : Retained(id)
  BY DEF Retained
<1>3. lastID \in Nat
  BY DEF FileInv, FileTypeOK
<1>4. ClaimsApart
  BY <1>1, <1>2, <1>3 DEF ClaimsApart
<1> QED
  BY <1>4, ApartKeeps

LEMMA DiscoverKeeps ==
  ASSUME FileInv, NEW p \in Process, Discover(p)
  PROVE  FileInv'
<1>1. FileTypeOK' /\ DataInv' /\ \E ids : ids \subseteq {e.id : e \in events} /\ jobs' = Queued(ids)
  BY DiscoverData DEF FileInv
<1>2. UNCHANGED <<events, lastID, pc, task, claimant, results, lock>>
  BY DEF Discover, cowrie, worker, history
<1> QED
  BY <1>1, <1>2, QueueKeeps

LEMMA SameKeeps ==
  ASSUME FileInv, FileTypeOK', DataInv', UNCHANGED <<events, lastID, jobs, pc, task, claimant, results, lock>>
  PROVE  FileInv'
<1>1. lastID \in Nat
  BY DEF FileInv, FileTypeOK
<1>2. ClaimsApart
  BY <1>1 DEF ClaimsApart
<1> QED
  BY <1>2, ApartKeeps

LEMMA BackfillKeeps ==
  ASSUME FileInv, NEW p \in Process, Backfill(p)
  PROVE  FileInv'
<1>1. /\ FileTypeOK' /\ DataInv'
      /\ (jobs' = jobs \/ \E ids : ids \subseteq {e.id : e \in events} /\ jobs' = Queued(ids))
  BY BackfillData DEF FileInv
<1>2. UNCHANGED <<events, lastID, pc, task, claimant, results, lock>>
  BY DEF Backfill, cowrie, worker, history
<1> QED
  BY <1>1, <1>2, QueueKeeps, SameKeeps

LEMMA RemoveSourceKeeps ==
  ASSUME FileInv, NEW p \in Process, NEW c \in Content, RemoveSource(p, c)
  PROVE  FileInv'
<1>1. FileTypeOK' /\ DataInv'
  BY RemoveSourceData DEF FileInv
<1>2. UNCHANGED <<events, lastID, jobs, pc, task, claimant, results, lock>>
  BY DEF RemoveSource, worker
<1> QED
  BY <1>1, <1>2, SameKeeps

LEMMA PurgeEventKeeps ==
  ASSUME FileInv, NEW p \in Process, PurgeEvent(p)
  PROVE  FileInv'
<1>1. FileTypeOK' /\ DataInv' /\ events' \subseteq events
  BY PurgeEventData DEF FileInv
<1>2. UNCHANGED <<lastID, jobs, pc, task, claimant, results, lock>>
  BY DEF PurgeEvent, worker, history
<1>3. lastID \in Nat
  BY DEF FileInv, FileTypeOK
<1>4. ClaimsApart
  BY <1>1, <1>2, <1>3 DEF ClaimsApart
<1> QED
  BY <1>1, <1>2, <1>4, ApartKeeps

LEMMA PurgeJobKeeps ==
  ASSUME FileInv, NEW p \in Process, PurgeJob(p)
  PROVE  FileInv'
<1>1. /\ FileTypeOK' /\ DataInv' /\ DOMAIN jobs' \subseteq DOMAIN jobs
      /\ \A id \in DOMAIN jobs' : jobs'[id] = jobs[id]
      /\ \A id \in DOMAIN jobs : Retained(id) => id \in DOMAIN jobs'
  BY PurgeJobData DEF FileInv
<1>2. UNCHANGED <<events, lastID, pc, task, claimant, results, lock>>
  BY DEF PurgeJob, cowrie, worker, history
<1>3. lastID \in Nat
  BY DEF FileInv, FileTypeOK
<1>4. ClaimsApart
  BY <1>1, <1>2, <1>3 DEF ClaimsApart
<1> QED
  BY <1>1, <1>2, <1>4, ApartKeeps

-----------------------------------------------------------------------------
(* The invariant *)

LEMMA LastTyped ==
  ASSUME NEW E \in SUBSET Event, IsFiniteSet(E)
  PROVE  LastOf(E) \in Nat /\ \A e \in E : e.id <= LastOf(E)
<1>1. CASE E = {}
  BY <1>1 DEF LastOf
<1>2. CASE E # {}
  <2>1. PICK S : S = {e.id : e \in E}
    OBVIOUS
  <2>2. S \in SUBSET (Nat \ {0}) /\ S # {} /\ \A e \in E : e.id \in S
    BY <1>2, <2>1 DEF Event
  <2>3. IsFiniteSet(S)
    <3> DEFINE id == [e \in E |-> e.id]
    <3>1. S = {id[e] : e \in E} /\ DOMAIN id = E /\ id = [e \in E |-> id[e]]
      BY <2>1
    <3> HIDE DEF id
    <3> QED
      BY <3>1, FiniteImage
  <2>4. LastOf(E) = Max(S)
    BY <1>2, <2>1 DEF LastOf
  <2>5. S \in SUBSET Int
    BY <2>2
  <2>6. Max(S) \in S /\ \A i \in S : Max(S) >= i
    BY <2>2, <2>3, <2>5, FiniteMax
  <2> QED
    BY <2>2, <2>4, <2>6
<1> QED
  BY <1>1, <1>2

LEMMA InitFile == Init => FileInv
<1> SUFFICES ASSUME Init PROVE FileInv
  OBVIOUS
<1>1. /\ events = OldEvents /\ lastID = LastOf(OldEvents) /\ logged = {} /\ source = {e.file : e \in OldEvents}
      /\ cursor = lastID /\ ceiling = NoRow /\ progress = NoRow /\ artifacts = {} /\ evidence = {} /\ lost = {}
      /\ pc = [p \in Process |-> "idle"] /\ task = [p \in Process |-> NoTask]
      /\ captureMu = [p \in Process |-> "free"] /\ inHand = [p \in Process |-> {}]
      /\ jobs = [id \in {e.id : e \in {d \in OldEvents : d.kind # "upload"}} |-> Job(EventOf(id))]
  BY DEF Init
<1>2. lastID \in Nat /\ \A e \in events : e \in Event /\ e.id \in Nat /\ e.id <= lastID
  BY <1>1, Constants, LastTyped DEF Event
<1>3. \A id \in DOMAIN jobs : id \in Nat /\ id <= lastID /\ \E e \in events : e.id = id /\ jobs[id] = Job(e)
  <2>1. ASSUME NEW id \in DOMAIN jobs
        PROVE  id \in Nat /\ id <= lastID /\ \E e \in events : e.id = id /\ jobs[id] = Job(e)
    <3>1. \E e \in events : e.id = id
      BY <1>1
    <3>2. PICK e : e = EventOf(id)
      OBVIOUS
    <3>3. e \in events /\ e.id = id
      BY <3>1, <3>2 DEF EventOf
    <3>4. jobs[id] = Job(e)
      BY <1>1, <3>2
    <3> QED
      BY <1>2, <3>3, <3>4
  <2> QED
    BY <2>1
<1>4. FileTypeOK
  <2>1. \A id \in DOMAIN jobs : IsJob(jobs[id])
    BY <1>3 DEF IsJob, Job
  <2>2. IsTask(NoTask) /\ "idle" \in Stage
    BY DEF IsTask, NoTask, Stage
  <2>3. pc \in [Process -> Stage] /\ DOMAIN task = Process /\ (\A p \in Process : IsTask(task[p]))
        /\ DOMAIN captureMu = Process /\ DOMAIN inHand = Process
    BY <1>1, <2>2
  <2> QED
    BY <1>1, <1>2, <2>1, <2>3, Constants DEF FileTypeOK
<1>5. \A id \in DOMAIN jobs : jobs[id].file \in source
  <2>1. ASSUME NEW id \in DOMAIN jobs PROVE jobs[id].file \in source
    <3>1. PICK e \in events : jobs[id] = Job(e)
      BY <1>3
    <3>2. jobs[id].file = e.file
      BY <3>1 DEF Job
    <3> QED
      BY <1>1, <3>2
  <2> QED
    BY <2>1
<1>6. NothingSkipped
  <2>1. ASSUME NEW e \in events, e.kind # "upload" PROVE e.id \in DOMAIN jobs
    BY <1>1, <2>1
  <2> QED
    BY <1>1, <2>1 DEF NothingSkipped
<1>7. DataInv
  BY <1>1, <1>2, <1>3, <1>5, <1>6 DEF DataInv, QueueInv, SourceHeld, LiveJobs
<1>8. TaskInv
  BY <1>1 DEF TaskInv, EvidenceKept, ClaimInv, LockInv, Busy
<1> QED
  BY <1>4, <1>7, <1>8 DEF FileInv

LEMMA StepKeeps ==
  ASSUME FileInv, [Next]_vars
  PROVE  FileInv'
<1>1. CASE UNCHANGED vars
  BY <1>1, IdleKeeps DEF vars
<1>2. CASE Tick \/ StepWall
  BY <1>2, IdleKeeps DEF Tick, StepWall
<1>3. ASSUME NEW c \in Content,
             \/ Deliver("upload", c, TRUE)
             \/ \E hashed \in BOOLEAN : Deliver("download", c, hashed)
             \/ Deliver("malformed", c, FALSE)
      PROVE  FileInv'
  BY <1>3, DeliverKeeps DEF Kind
<1>4. ASSUME NEW p \in Process,
             WorkerStep(p) \/ RunnerStep(p) \/ Retention(p) \/ Trouble(p) \/ Ingest(p) \/ Replace(p)
      PROVE  FileInv'
  <2>1. CASE WorkerStep(p)
    BY <2>1, BeginTickKeeps, ClaimKeeps, AdoptKeeps, CopyKeeps, PublishKeeps, CompleteKeeps DEF WorkerStep
  <2>2. CASE RunnerStep(p)
    BY <2>2, DiscoverKeeps, BackfillKeeps, SyncRecordKeeps, SyncCopyKeeps DEF RunnerStep
  <2>3. CASE Retention(p)
    BY <2>3, RemoveSourceKeeps, PurgeArtifactsKeeps, RemoveEvidenceKeeps, PurgeEventKeeps, PurgeJobKeeps
    DEF Retention
  <2>4. CASE Trouble(p)
    <3>1. CASE BackfillFails(p)
      BY <3>1, IdleKeeps DEF BackfillFails
    <3> QED
      BY <2>4, <3>1, FailTaskKeeps, FailWriteKeeps, StopShortKeeps, CrashKeeps DEF Trouble
  <2> QED
    BY <1>4, <2>1, <2>2, <2>3, <2>4, IngestKeeps, ReplaceKeeps
<1> QED
  BY <1>1, <1>2, <1>3, <1>4 DEF Next

LEMMA FileInvariant == Spec => []FileInv
<1>1. FileInv /\ [Next]_vars => FileInv'
  BY StepKeeps
<1> QED
  BY InitFile, <1>1, PTL DEF Spec

-----------------------------------------------------------------------------
(* Theorems *)

(* Nothing is lost from the event to the evidence: no file event passes     *)
(* discovery without its job, no unfinished job its source, and no artifact *)
(* row its file.                                                            *)
THEOREM NothingIsLost == Spec => []NothingLost
<1>1. FileInv => NothingSkipped /\ SourceHeld
  BY DEF FileInv, DataInv
<1>2. FileInv => EvidenceKept
  BY DEF FileInv, TaskInv
<1>3. FileInv => NothingLost
  BY <1>1, <1>2 DEF NothingLost
<1> QED
  BY FileInvariant, <1>3, PTL

(* Only retention takes a source. *)
LEMMA SourcesShrink ==
  ASSUME [Next]_vars
  PROVE  source \subseteq source' \/ \E p \in Process, c \in Content : RemoveSource(p, c)
<1>1. CASE UNCHANGED vars \/ Tick \/ StepWall
  BY <1>1 DEF vars, Tick, StepWall, cowrie
<1>2. ASSUME NEW c \in Content, NEW kind, NEW hashed, Deliver(kind, c, hashed)
      PROVE  source \subseteq source'
  BY <1>2 DEF Deliver
<1>3. ASSUME NEW p \in Process, Ingest(p) \/ Replace(p) PROVE source' = source
  BY <1>3 DEF Ingest, Replace
<1>4. ASSUME NEW p \in Process, WorkerStep(p) PROVE source' = source
  BY <1>4 DEF WorkerStep, BeginTick, Claim, Adopt, Copy, Publish, Complete, cowrie
<1>5. ASSUME NEW p \in Process, RunnerStep(p) PROVE source' = source
  BY <1>5 DEF RunnerStep, Discover, Backfill, SyncRecord, SyncCopy, cowrie
<1>6. ASSUME NEW p \in Process, Trouble(p) PROVE source' = source
  BY <1>6 DEF Trouble, FailTask, FailWrite, BackfillFails, StopShort, Crash, cowrie
<1>7. ASSUME NEW p \in Process, Retention(p)
      PROVE  source' = source \/ \E c \in Content : RemoveSource(p, c)
  BY <1>7 DEF Retention, PurgeArtifacts, RemoveEvidence, PurgeEvent, PurgeJob, cowrie
<1> QED
  BY <1>1, <1>2, <1>3, <1>4, <1>5, <1>6, <1>7 DEF Next

(* Retention removes no source before every upload that names it has its    *)
(* job, unless the backfill keeps failing: it starts behind a discovery,    *)
(* which has pinned what the backfill queues.                               *)
THEOREM BackfillIsAwaited == Spec => BackfillHolds
<1>1. ASSUME FileInv, [Next]_vars
      PROVE  QueuedFirst
  <2>1. ASSUME NEW p \in Process, NEW c \in Content, RemoveSource(p, c),
               NEW e \in events, e.kind = "upload", e.file = c, \A q \in Process : ~released[q]
        PROVE  e.id \in DOMAIN jobs
    <3>1. ~Undiscovered /\ ~Unbackfilled /\ ceiling # NoRow
      BY <2>1 DEF RemoveSource, Seeded
    <3>2. LastOf(events) \in Nat /\ e.id <= LastOf(events)
      BY <1>1, LastTyped DEF FileInv, FileTypeOK
    <3>3. cursor \in Nat /\ e.id \in Nat /\ ceiling \in Nat /\ progress \in Int
      BY <1>1, <3>1, Constants DEF FileInv, FileTypeOK, Event
    <3>4. e.id <= cursor
      BY <3>1, <3>2, <3>3 DEF Undiscovered
    <3>5. e.id > ceiling \/ e.id <= progress
      BY <1>1, <3>1, <3>3 DEF Unbackfilled
    <3> QED
      BY <1>1, <2>1, <3>1, <3>4, <3>5 DEF FileInv, DataInv, NothingSkipped
  <2>2. CASE \E p \in Process, c \in Content : RemoveSource(p, c)
    <3>1. PICK p \in Process, c \in Content : RemoveSource(p, c)
      BY <2>2
    <3>2. SUFFICES ASSUME NEW x \in source \ source', NEW e \in events, e.kind = "upload", e.file = x,
                          \A q \in Process : ~released[q]
                   PROVE  e.id \in DOMAIN jobs
      BY DEF QueuedFirst
    <3>3. x = c
      BY <3>1 DEF RemoveSource
    <3> QED
      BY <2>1, <3>1, <3>2, <3>3
  <2>3. CASE source \subseteq source'
    BY <2>3 DEF QueuedFirst
  <2> QED
    BY <1>1, <2>2, <2>3, SourcesShrink
<1>2. FileInv /\ [Next]_vars => [QueuedFirst]_vars
  BY <1>1
<1> QED
  BY FileInvariant, <1>2, PTL DEF Spec, BackfillHolds

(* Only a claim or a result changes a job that stays. *)
LEMMA JobsChange ==
  ASSUME FileTypeOK, [Next]_vars
  PROVE  \/ \A id \in DOMAIN jobs : id \in DOMAIN jobs' => jobs'[id] = jobs[id]
         \/ \E p \in Process : Claim(p) \/ Complete(p)
<1>1. CASE UNCHANGED vars \/ Tick \/ StepWall
  BY <1>1 DEF vars, Tick, StepWall
<1>2. ASSUME NEW c \in Content, NEW kind, NEW hashed, Deliver(kind, c, hashed) PROVE jobs' = jobs
  BY <1>2 DEF Deliver
<1>3. ASSUME NEW p \in Process, Ingest(p) \/ Replace(p) PROVE jobs' = jobs
  BY <1>3 DEF Ingest, Replace
<1>4. ASSUME NEW p \in Process, WorkerStep(p) PROVE jobs' = jobs \/ Claim(p) \/ Complete(p)
  BY <1>4 DEF WorkerStep, BeginTick, Adopt, Copy, Publish
<1>5. ASSUME NEW p \in Process, RunnerStep(p)
      PROVE  \A id \in DOMAIN jobs : id \in DOMAIN jobs' => jobs'[id] = jobs[id]
  BY <1>5 DEF RunnerStep, Discover, Backfill, SyncRecord, SyncCopy, Queued
<1>6. ASSUME NEW p \in Process, Trouble(p) PROVE jobs' = jobs
  BY <1>6 DEF Trouble, FailTask, FailWrite, BackfillFails, StopShort, Crash
<1>7. ASSUME NEW p \in Process, Retention(p)
      PROVE  \A id \in DOMAIN jobs : id \in DOMAIN jobs' => jobs'[id] = jobs[id]
  BY <1>7 DEF Retention, RemoveSource, PurgeArtifacts, RemoveEvidence, PurgeEvent, PurgeJob
<1> QED
  BY <1>1, <1>2, <1>3, <1>4, <1>5, <1>6, <1>7 DEF Next

(* A result that changes its job is of the process that claimed it last:    *)
(* leases that run out, clocks that are set and jobs that are claimed again *)
(* leave an overtaken claim with a token that is not the job's.             *)
THEOREM ResultsAreFenced == Spec => FencedResult
<1>1. ASSUME FileInv, [Next]_vars, NEW p \in Process, NEW id \in DOMAIN jobs,
             pc[p] \in {"record", "report"}, pc'[p] = "idle", task[p].id = id,
             id \in DOMAIN jobs', jobs'[id] # jobs[id]
      PROVE  claimant[id] = p
  <2>1. PICK q \in Process : Claim(q) \/ Complete(q)
    BY <1>1, JobsChange DEF FileInv
  <2>2. q = p
    <3>1. CASE Claim(q)
      <4>1. Rest(q) \/ \E to \in {"adopt", "copy"} : Goto(q, to)
        BY <1>1, <3>1, ClaimMoves DEF FileInv
      <4> QED
        BY <1>1, <4>1 DEF Rest, Goto, FileInv, FileTypeOK
    <3>2. CASE Complete(q)
      BY <1>1, <3>2 DEF Complete, Rest, Goto, FileInv, FileTypeOK
    <3> QED
      BY <2>1, <3>1, <3>2
  <2>3. Complete(p)
    BY <1>1, <2>1, <2>2 DEF Claim
  <2>4. SameClaim(p)
    BY <1>1, <2>3, CompleteMoves DEF FileInv
  <2> QED
    BY <1>1, <2>4 DEF SameClaim, FileInv, TaskInv, ClaimInv, Busy
<1>2. FileInv /\ [Next]_vars =>
        [\A p \in Process : \A id \in DOMAIN jobs :
           /\ pc[p] \in {"record", "report"} /\ pc'[p] = "idle" /\ task[p].id = id
           /\ jobs[id].state = "leased" /\ id \in DOMAIN jobs' /\ jobs'[id] # jobs[id]
           => claimant[id] = p]_vars
  BY <1>1
<1> QED
  BY FileInvariant, <1>2, PTL DEF Spec, FencedResult
=============================================================================
