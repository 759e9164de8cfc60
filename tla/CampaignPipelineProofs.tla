----------------------- MODULE CampaignPipelineProofs -----------------------
(***************************************************************************)
(* Proofs about CampaignPipeline, for any workers, sessions, versions,     *)
(* window, events and mishaps: a settled session's fingerprint is that of  *)
(* all its lines, and behind the recorder's cursor every command has its   *)
(* line once.                                                              *)
(***************************************************************************)
EXTENDS CampaignPipeline, FiniteOrder, TLAPS

Command == [id : Nat \ {0}, s : Session, n : Nat \ {0}]
Stored == [id : Nat \ {0}, s : Session, n : Nat \ {0}, v : Nat]
Code == Session \X Nat \X Nat
Row == [here : BOOLEAN, stamp : Nat \X Nat, settled : BOOLEAN, idle : BOOLEAN, fp : SUBSET Code]
Listed == [s : Session, stamp : Nat \X Nat, fp : SUBSET Code]

PipelineTypeOK ==
  /\ events \in SUBSET Command /\ IsFiniteSet(events) /\ lastID \in Nat
  /\ cursor \in Nat /\ epoch \in Nat /\ deadline \in {"none", "running", "past"}
  /\ lines \in SUBSET Stored
  /\ rows \in [Session -> Row]
  /\ pc \in [Worker -> Stage]
  /\ DOMAIN mem = Worker
  /\ young \in [Session \cup {HoldClock} -> SUBSET Worker]
  /\ \A w \in Worker :
       /\ pc[w] \in {"compute", "commit"} => mem[w].batch \in SUBSET Listed
       /\ pc[w] = "write" => mem[w].cursor \in Nat /\ mem[w].end \in Nat

(* A stamp is not of a window yet to be written. *)
Past(stamp) == stamp[1] < epoch \/ (stamp[1] = epoch /\ stamp[2] <= cursor)

(* A fingerprint is right while the row's stamp is: a window that adds     *)
(* lines to a session stamps it anew, and lines are deleted only where the *)
(* row is gone or was written during the deleting tick (so not yet idle,   *)
(* and neither listed nor settled).                                        *)
RowInv(s) ==
  /\ rows[s].settled => rows[s].here /\ rows[s].idle /\ rows[s].fp = Fingerprint(LinesOf(s))
  /\ young[s] # {} => ~rows[s].idle
  /\ rows[s].here => Past(rows[s].stamp)
  /\ \A w \in Worker : pc[w] = "lines" /\ rows[s].here => w \in young[s]
TickInv(w) ==
  /\ pc[w] = "write" => mem[w].end > mem[w].cursor
  /\ pc[w] = "compute" => mem[w] = [NoMem EXCEPT !.batch = mem[w].batch]
  /\ pc[w] \in {"compute", "commit"} =>
       \A b \in mem[w].batch :
         /\ Past(b.stamp)
         /\ Unrecorded(b) => rows[b.s].idle
         /\ Unrecorded(b) /\ pc[w] = "commit" => b.fp = Fingerprint(LinesOf(b.s))
SettleInv == (\A s \in Session : RowInv(s)) /\ \A w \in Worker : TickInv(w)

-----------------------------------------------------------------------------
(* Most steps of a tick only move the tick on: the stages whose remembered *)
(* batch or window the invariant speaks of are entered elsewhere.          *)
Special == {"lines", "write", "compute", "commit"}
PlainStep(w) ==
  \/ BeginTick(w) \/ Acquire(w) \/ CheckVersion(w) \/ ResetCarry(w) \/ Renew(w) \/ RebuildHeld(w)
  \/ Owe(w) \/ Regroup(w) \/ FinishTick(w) \/ FailTick(w) \/ Crash(w) \/ Restart(w)
OtherStep ==
  \/ \E s \in Session : Append(s) \/ BecomeIdle(s)
  \/ Replace \/ ForceScriptRebuild \/ DeadlinePasses \/ DeadLapse
  \/ \E w \in Worker : Edit(w) \/ Stall(w)
WriteStep(w) ==
  \/ ResetRows(w) \/ ResetLines(w) \/ ResetStamp(w) \/ RecordScan(w) \/ RecordWrite(w)
  \/ SettleList(w) \/ SettleCompute(w) \/ SettleCommit(w)

MovesOn(w) ==
  /\ \E to \in Stage \ Special : pc' = [pc EXCEPT ![w] = to]
  /\ DOMAIN mem' = Worker /\ \A v \in Worker \ {w} : mem'[v] = mem[v]
  /\ young' \in [Session \cup {HoldClock} -> SUBSET Worker]
  /\ \A s \in Session : young'[s] = young[s] \/ young'[s] = young[s] \ {w}

LEMMA Constants ==
  /\ HoldClock \notin Session /\ Window \in Nat /\ Window > 0
  /\ VersionOf \in [Worker -> Nat \ {0}] /\ OldVersion \in Nat
  /\ Dead \notin Worker /\ NoOwner \notin Worker /\ Worker # {}
BY EventsAssumption, VersionAssumption, OwnerIsWorker, NoOwnerAssumption

LEMMA Steps == Next <=> OtherStep \/ \E w \in Worker : PlainStep(w) \/ WriteStep(w)
BY DEF Next, Environment, TickStep, Reset, Settle, OtherStep, PlainStep, WriteStep

LEMMA EndMoves ==
  ASSUME PipelineTypeOK, NEW w \in Worker, End(w)
  PROVE  MovesOn(w) /\ pc' = [pc EXCEPT ![w] = "idle"]
<1>1. /\ pc' = [pc EXCEPT ![w] = "idle"] /\ mem' = [mem EXCEPT ![w] = NoMem]
      /\ young' = [x \in Session \cup {HoldClock} |-> young[x] \ {w}]
  BY DEF End, Goto, Recall, PipelineTypeOK
<1>2. "idle" \in Stage \ Special
  BY DEF Stage, Special
<1> QED
  BY <1>1, <1>2 DEF MovesOn, PipelineTypeOK

LEMMA GotoMoves ==
  ASSUME PipelineTypeOK, NEW w \in Worker, NEW to \in Stage \ Special, Goto(w, to),
         UNCHANGED mem \/ \E m : Recall(w, m),
         UNCHANGED young \/ \E T \in SUBSET Worker : young' = [young EXCEPT ![HoldClock] = T]
  PROVE  MovesOn(w)
<1>1. DOMAIN mem' = Worker /\ \A v \in Worker \ {w} : mem'[v] = mem[v]
  BY DEF Recall, PipelineTypeOK
<1>2. /\ young' \in [Session \cup {HoldClock} -> SUBSET Worker]
      /\ \A s \in Session : young'[s] = young[s]
  BY Constants DEF PipelineTypeOK
<1> QED
  BY <1>1, <1>2 DEF MovesOn, Goto

LEMMA PlainUnchanged ==
  ASSUME NEW w \in Worker, PlainStep(w)
  PROVE  UNCHANGED <<events, lastID, cursor, epoch, lines, rows, version, crossed>>
<1>1. CASE BeginTick(w)
  BY <1>1 DEF BeginTick, database, log, recorder, history
<1>2. CASE Acquire(w)
  BY <1>2 DEF Acquire, database, log, recorder, history
<1>3. CASE CheckVersion(w)
  BY <1>3 DEF CheckVersion, database, log, recorder, history
<1>4. CASE ResetCarry(w)
  BY <1>4 DEF ResetCarry, log, recorder, history
<1>5. CASE Renew(w)
  BY <1>5 DEF Renew, database, log, recorder, history
<1>6. CASE RebuildHeld(w)
  BY <1>6 DEF RebuildHeld, ReadEpoch, HoldMark, HoldMeasure, HoldCursor, HoldDecide, HoldClockStart,
     HoldPending, HoldRelease, database, log, recorder, history
<1>7. CASE Owe(w)
  BY <1>7 DEF Owe, database, log, recorder, history
<1>8. CASE Regroup(w)
  BY <1>8 DEF Regroup, RegroupEdits, RegroupScripts, RegroupIDs, Save, database, log, recorder, history
<1>9. CASE FinishTick(w) \/ FailTick(w)
  BY <1>9 DEF FinishTick, FailTick, database, log, recorder, history
<1>10. CASE Crash(w) \/ Restart(w)
  BY <1>10 DEF Crash, Restart, database, log, recorder, history
<1> QED
  BY <1>1, <1>2, <1>3, <1>4, <1>5, <1>6, <1>7, <1>8, <1>9, <1>10 DEF PlainStep

LEMMA PlainMoves ==
  ASSUME PipelineTypeOK, NEW w \in Worker, PlainStep(w)
  PROVE  MovesOn(w)
<1> DEFINE Names == {"idle", "acquire", "check", "carry", "rows", "scan", "settle", "epoch", "hold", "measure",
                     "cursor", "decide", "clock", "pending", "release", "owe", "owed", "edits", "scripts", "ids",
                     "classified", "save", "saved"}
<1>0. Names \subseteq Stage \ Special
  BY DEF Stage, Special, Resetting, Recording, Settling, Holding, Regrouping
<1>a. ASSUME NEW to \in Names, Goto(w, to), UNCHANGED young, UNCHANGED mem \/ \E m : Recall(w, m)
      PROVE  MovesOn(w)
  BY <1>0, <1>a, GotoMoves
<1>b. ASSUME End(w) PROVE MovesOn(w)
  BY <1>b, EndMoves
<1> HIDE DEF Names
<1>1. CASE BeginTick(w)
  <2>1. "scan" \in Names /\ "check" \in Names /\ "acquire" \in Names
    BY DEF Names
  <2> QED
    BY <1>1, <1>a, <2>1 DEF BeginTick
<1>2. CASE Acquire(w)
  <2>1. "scan" \in Names /\ "check" \in Names
    BY DEF Names
  <2> QED
    BY <1>2, <1>a, <1>b, <2>1 DEF Acquire
<1>3. CASE CheckVersion(w) \/ ResetCarry(w)
  <2>1. "scan" \in Names /\ "carry" \in Names /\ "rows" \in Names
    BY DEF Names
  <2> QED
    BY <1>3, <1>a, <2>1 DEF CheckVersion, ResetCarry
<1>4. CASE Renew(w)
  <2>1. \A site \in DOMAIN AfterRenew : AfterRenew[site] \in Names
    BY DEF Names, AfterRenew
  <2> QED
    BY <1>4, <1>a, <1>b, <2>1 DEF Renew, Abandon
<1>5. CASE RebuildHeld(w)
  <2>1. {"hold", "owe", "measure", "cursor", "decide", "clock", "pending", "release"} \subseteq Names
    BY DEF Names
  <2>2. CASE ReadEpoch(w) \/ HoldMark(w) \/ HoldMeasure(w) \/ HoldCursor(w)
    BY <1>a, <1>b, <2>1, <2>2 DEF ReadEpoch, HoldMark, HoldMeasure, HoldCursor, Abandon
  <2>3. CASE HoldDecide(w) /\ mem[w].cursor < Target(w)
    BY <1>b, <2>3 DEF HoldDecide
  <2>4. CASE HoldDecide(w) /\ ~(mem[w].cursor < Target(w))
    <3>1. PICK to \in {"clock", "pending", "release"} : Goto(w, to) /\ UNCHANGED <<mem, young>>
      BY <2>4 DEF HoldDecide, PipelineTypeOK
    <3> QED
      BY <1>a, <2>1, <3>1
  <2>5. CASE HoldClockStart(w)
    <3>1. CASE deadline = "none" /\ MarkUnchanged(w)
      <4>1. Goto(w, "pending") /\ UNCHANGED mem /\ young' = [young EXCEPT ![HoldClock] = Ticking]
        BY <2>5, <3>1 DEF HoldClockStart
      <4>2. "pending" \in Stage \ Special /\ Ticking \in SUBSET Worker
        BY <1>0, <2>1 DEF Ticking
      <4> QED
        BY <4>1, <4>2, GotoMoves
    <3>2. CASE ~(deadline = "none" /\ MarkUnchanged(w))
      BY <1>a, <1>b, <2>1, <2>5, <3>2 DEF HoldClockStart
    <3> QED
      BY <3>1, <3>2
  <2>6. CASE HoldPending(w)
    BY <1>a, <1>b, <2>1, <2>6 DEF HoldPending
  <2>7. CASE HoldRelease(w)
    <3>1. CASE MarkUnchanged(w)
      <4>1. Goto(w, "owe") /\ (\E m : Recall(w, m)) /\ young' = [young EXCEPT ![HoldClock] = {}]
        BY <2>7, <3>1 DEF HoldRelease
      <4>2. "owe" \in Stage \ Special /\ {} \in SUBSET Worker
        BY <1>0, <2>1
      <4> QED
        BY <4>1, <4>2, GotoMoves
    <3>2. CASE ~MarkUnchanged(w)
      BY <1>b, <2>7, <3>2 DEF HoldRelease
    <3> QED
      BY <3>1, <3>2
  <2> QED
    BY <1>5, <2>2, <2>3, <2>4, <2>5, <2>6, <2>7 DEF RebuildHeld
<1>6. CASE Owe(w)
  <2>1. "owed" \in Names
    BY DEF Names
  <2> QED
    BY <1>6, <1>a, <1>b, <2>1 DEF Owe
<1>7. CASE Regroup(w)
  <2>1. {"scripts", "ids", "classified", "saved"} \subseteq Names
    BY DEF Names
  <2>2. CASE RegroupEdits(w) \/ RegroupScripts(w) \/ RegroupIDs(w)
    BY <1>a, <2>1, <2>2 DEF RegroupEdits, RegroupScripts, RegroupIDs
  <2>3. CASE Save(w)
    BY <1>a, <1>b, <2>1, <2>3 DEF Save, Abandon
  <2> QED
    BY <1>7, <2>2, <2>3 DEF Regroup
<1>8. CASE FinishTick(w) \/ FailTick(w) \/ Crash(w) \/ Restart(w)
  BY <1>8, <1>b DEF FinishTick, FailTick, Crash, Restart, Forget, Abandon
<1> QED
  BY <1>1, <1>2, <1>3, <1>4, <1>5, <1>6, <1>7, <1>8 DEF PlainStep

LEMMA PlainType ==
  ASSUME PipelineTypeOK, NEW w \in Worker, PlainStep(w)
  PROVE  PipelineTypeOK'
<1>1. UNCHANGED <<events, lastID, cursor, epoch, lines, rows>>
  BY PlainUnchanged
<1>2. MovesOn(w)
  BY PlainMoves
<1>3. pc' \in [Worker -> Stage] /\ \A v \in Worker : pc'[v] \in Special => pc'[v] = pc[v] /\ mem'[v] = mem[v]
  BY <1>2 DEF MovesOn, PipelineTypeOK
<1>4. deadline' \in {"none", "running", "past"}
  BY DEF PlainStep, BeginTick, Acquire, CheckVersion, ResetCarry, Renew, RebuildHeld, ReadEpoch,
     HoldMark, HoldMeasure, HoldCursor, HoldDecide, HoldClockStart, HoldPending, HoldRelease, Owe,
     Regroup, RegroupEdits, RegroupScripts, RegroupIDs, Save, FinishTick, FailTick, Crash, Restart,
     database, hold, PipelineTypeOK
<1> QED
  BY <1>1, <1>2, <1>3, <1>4 DEF PipelineTypeOK, MovesOn, Special

(* A tick that moves on disturbs neither a row nor another tick. *)
LEMMA PlainSettle ==
  ASSUME PipelineTypeOK, SettleInv, NEW w \in Worker, MovesOn(w), UNCHANGED <<cursor, epoch, lines, rows>>
  PROVE  SettleInv'
<1>1. \A v \in Worker : pc'[v] \in Special => v # w /\ pc'[v] = pc[v] /\ mem'[v] = mem[v]
  BY DEF MovesOn, PipelineTypeOK
<1>2. ASSUME NEW s \in Session PROVE RowInv(s)'
  <2>1. RowInv(s) /\ young'[s] \subseteq young[s]
    BY DEF SettleInv, MovesOn
  <2>2. \A v \in Worker : pc'[v] = "lines" /\ rows[s].here => v \in young'[s]
    BY <1>1, <2>1 DEF RowInv, Special, MovesOn
  <2> QED
    BY <2>1, <2>2 DEF RowInv, Past, LinesOf
<1>3. ASSUME NEW v \in Worker PROVE TickInv(v)'
  BY <1>1 DEF SettleInv, TickInv, Special, Past, LinesOf, Unrecorded
<1> QED
  BY <1>2, <1>3 DEF SettleInv

-----------------------------------------------------------------------------
(* The steps that write the rows, the lines or the cursor. *)

LEMMA LinesTyped ==
  ASSUME PipelineTypeOK, NEW s
  PROVE  Fingerprint(LinesOf(s)) \in SUBSET Code
BY DEF PipelineTypeOK, Fingerprint, LinesOf, Stored, Code

(* The largest event id is an event's, or 0 with no events. *)
LEMMA LastTyped ==
  ASSUME NEW E \in SUBSET Command, IsFiniteSet(E)
  PROVE  /\ LastOf(E) \in Nat /\ (LastOf(E) = 0 \/ \E e \in E : e.id = LastOf(E))
         /\ \A e \in E : e.id <= LastOf(E)
<1> DEFINE Ids == {e.id : e \in E}
<1>1. CASE E = {}
  BY <1>1 DEF LastOf
<1>2. CASE E # {}
  <2>1. Ids \in SUBSET (Nat \ {0}) /\ Ids # {} /\ \A e \in E : e.id \in Ids
    BY <1>2 DEF Command
  <2>2. IsFiniteSet(Ids)
    <3> DEFINE id == [e \in E |-> e.id]
    <3>1. Ids = {id[e] : e \in E}
      OBVIOUS
    <3>2. DOMAIN id = E /\ id = [e \in E |-> id[e]]
      OBVIOUS
    <3> HIDE DEF id, Ids
    <3> QED
      BY <3>1, <3>2, FiniteImage
  <2>3. \A i \in Ids : \E e \in E : e.id = i
    OBVIOUS
  <2>4. LastOf(E) = Max(Ids)
    BY <1>2 DEF LastOf
  <2> HIDE DEF Ids
  <2>5. Max(Ids) \in Ids /\ \A i \in Ids : Max(Ids) >= i
    BY <2>1, <2>2, FiniteMax
  <2> QED
    BY <2>1, <2>3, <2>4, <2>5
<1> QED
  BY <1>1, <1>2

LEMMA MaxIDTyped ==
  ASSUME PipelineTypeOK
  PROVE  MaxID \in Nat /\ (MaxID = 0 \/ \E e \in events : e.id = MaxID)
BY LastTyped DEF PipelineTypeOK, MaxID

LEMMA ResetRowsKeeps ==
  ASSUME PipelineTypeOK, SettleInv, NEW w \in Worker, ResetRows(w)
  PROVE  PipelineTypeOK' /\ SettleInv'
<1>1. UNCHANGED <<events, lastID, cursor, epoch, lines, deadline>>
  BY DEF ResetRows, log, hold
<1>2. CASE \E s \in Session :
          /\ rows[s].here
          /\ rows' = [rows EXCEPT ![s] = NoRow]
          /\ young' = [young EXCEPT ![s] = {}]
          /\ Recall(w, [mem[w] EXCEPT !.reset = TRUE])
          /\ UNCHANGED pc
  <2>1. PICK s \in Session :
          /\ rows' = [rows EXCEPT ![s] = NoRow]
          /\ young' = [young EXCEPT ![s] = {}]
          /\ Recall(w, [mem[w] EXCEPT !.reset = TRUE])
          /\ UNCHANGED pc
    BY <1>2
  <2>2. pc[w] = "rows" /\ \A v \in Worker : pc[v] \in Special => mem'[v] = mem[v]
    BY <2>1 DEF ResetRows, Recall, PipelineTypeOK, Special
  <2>3. NoRow \in Row /\ ~NoRow.here /\ ~NoRow.settled
    BY DEF NoRow, Row
  <2>4. PipelineTypeOK'
    <3>1. DOMAIN mem' = Worker
      BY <2>1 DEF Recall, PipelineTypeOK
    <3> QED
      BY <1>1, <2>1, <2>2, <2>3, <3>1 DEF PipelineTypeOK, Special
  <2>5. \A t \in Session : rows'[t] = (IF t = s THEN NoRow ELSE rows[t])
                           /\ young'[t] = (IF t = s THEN {} ELSE young[t])
    BY <2>1 DEF PipelineTypeOK
  <2>6. ASSUME NEW t \in Session PROVE RowInv(t)'
    BY <1>1, <2>1, <2>3, <2>5 DEF SettleInv, RowInv, Past, LinesOf
  <2>7. ASSUME NEW v \in Worker PROVE TickInv(v)'
    <3>1. ASSUME pc[v] \in Special, NEW b \in Listed, Unrecorded(b)' PROVE Unrecorded(b) /\ rows'[b.s] = rows[b.s]
      BY <2>3, <2>5, <3>1 DEF Unrecorded, Listed
    <3>2. pc[v] \in {"compute", "commit"} => mem[v].batch \in SUBSET Listed
      BY DEF PipelineTypeOK
    <3> QED
      BY <1>1, <2>1, <2>2, <3>1, <3>2 DEF SettleInv, TickInv, Special, Past, LinesOf
  <2> QED
    BY <2>4, <2>6, <2>7 DEF SettleInv
<1>3. CASE (\A s \in Session : ~rows[s].here) /\ Goto(w, "lines") /\ UNCHANGED <<rows, young, mem>>
  <2>1. pc[w] = "rows" /\ pc' = [pc EXCEPT ![w] = "lines"] /\ "lines" \in Stage
    BY <1>3 DEF Goto, ResetRows, Stage, Resetting
  <2>2. PipelineTypeOK'
    BY <1>1, <1>3, <2>1 DEF PipelineTypeOK
  <2>3. ASSUME NEW t \in Session PROVE RowInv(t)'
    BY <1>1, <1>3, <2>1 DEF SettleInv, RowInv, Past, LinesOf
  <2>4. ASSUME NEW v \in Worker PROVE TickInv(v)'
    <3>1. pc'[v] \in {"write", "compute", "commit"} => pc'[v] = pc[v]
      BY <2>1 DEF PipelineTypeOK
    <3> QED
      BY <1>1, <1>3, <3>1 DEF SettleInv, TickInv, Past, LinesOf, Unrecorded
  <2> QED
    BY <2>2, <2>3, <2>4 DEF SettleInv
<1> QED
  BY <1>2, <1>3 DEF ResetRows

LEMMA ResetLinesKeeps ==
  ASSUME PipelineTypeOK, SettleInv, NEW w \in Worker, ResetLines(w)
  PROVE  PipelineTypeOK' /\ SettleInv'
<1>1. UNCHANGED <<events, lastID, cursor, epoch, rows, young, deadline>> /\ pc[w] = "lines"
  BY DEF ResetLines, log, hold
<1>2. CASE \E l \in lines :
          /\ lines' = lines \ {l}
          /\ Recall(w, [mem[w] EXCEPT !.reset = TRUE])
          /\ UNCHANGED pc
  <2>1. PICK l \in lines :
          /\ lines' = lines \ {l}
          /\ Recall(w, [mem[w] EXCEPT !.reset = TRUE])
          /\ UNCHANGED pc
    BY <1>2
  <2>2. DOMAIN mem' = Worker /\ \A v \in Worker : pc[v] \in {"write", "compute", "commit"} => mem'[v] = mem[v]
    BY <1>1, <2>1 DEF Recall, PipelineTypeOK
  <2>3. PipelineTypeOK'
    BY <1>1, <2>1, <2>2 DEF PipelineTypeOK
  <2>4. \A s \in Session : rows[s].here => ~rows[s].idle
    BY <1>1 DEF SettleInv, RowInv
  <2>5. ASSUME NEW s \in Session PROVE RowInv(s)'
    BY <1>1, <2>1, <2>4 DEF SettleInv, RowInv, Past
  <2>6. ASSUME NEW v \in Worker PROVE TickInv(v)'
    <3>1. \A b \in Listed : ~(Unrecorded(b) /\ rows[b.s].idle)
      BY <2>4 DEF Unrecorded, Listed
    <3>2. pc[v] \in {"compute", "commit"} => mem[v].batch \in SUBSET Listed
      BY DEF PipelineTypeOK
    <3> QED
      BY <1>1, <2>1, <2>2, <3>1, <3>2 DEF SettleInv, TickInv, Past, Unrecorded
  <2> QED
    BY <2>3, <2>5, <2>6 DEF SettleInv
<1>3. CASE Goto(w, "stamp") /\ UNCHANGED <<lines, mem>>
  <2>1. MovesOn(w)
    <3>1. "stamp" \in Stage \ Special
      BY DEF Stage, Special, Resetting
    <3> QED
      BY <1>1, <1>3, <3>1, GotoMoves
  <2>2. SettleInv'
    BY <1>1, <1>3, <2>1, PlainSettle
  <2>3. PipelineTypeOK'
    <3>1. pc' \in [Worker -> Stage] /\ \A v \in Worker : pc'[v] \in Special => pc'[v] = pc[v]
      BY <2>1 DEF MovesOn, PipelineTypeOK
    <3> QED
      BY <1>1, <1>3, <3>1 DEF PipelineTypeOK, Special
  <2> QED
    BY <2>2, <2>3
<1> QED
  BY <1>2, <1>3 DEF ResetLines

(* A rewind makes every stamp one of an earlier epoch. *)
LEMMA ResetStampKeeps ==
  ASSUME PipelineTypeOK, SettleInv, NEW w \in Worker, ResetStamp(w)
  PROVE  PipelineTypeOK' /\ SettleInv'
<1>1. /\ UNCHANGED <<events, lastID, rows, lines>> /\ cursor' = 0 /\ epoch' = epoch + 1
      /\ deadline' = "none" /\ young' = [young EXCEPT ![HoldClock] = {}]
      /\ Goto(w, "scan") /\ Recall(w, NoMem)
  BY DEF ResetStamp, log
<1>2. MovesOn(w)
  <2>1. "scan" \in Stage \ Special /\ {} \in SUBSET Worker
    BY DEF Stage, Special, Recording
  <2> QED
    BY <1>1, <2>1, GotoMoves
<1>3. pc' \in [Worker -> Stage] /\ \A v \in Worker : pc'[v] \in Special => pc'[v] = pc[v] /\ mem'[v] = mem[v]
  BY <1>2 DEF MovesOn, PipelineTypeOK
<1>4. PipelineTypeOK'
  BY <1>1, <1>2, <1>3 DEF PipelineTypeOK, Special, MovesOn
<1>5. \A stamp \in Nat \X Nat : Past(stamp) => Past(stamp)'
  BY <1>1 DEF Past, PipelineTypeOK
<1>6. ASSUME NEW s \in Session PROVE RowInv(s)'
  <2>1. young'[s] = young[s] /\ rows[s].stamp \in Nat \X Nat
    BY <1>1, Constants DEF PipelineTypeOK, Row
  <2> QED
    BY <1>1, <1>3, <1>5, <2>1 DEF SettleInv, RowInv, Special, LinesOf
<1>7. ASSUME NEW v \in Worker PROVE TickInv(v)'
  <2>1. pc[v] \in {"compute", "commit"} => \A b \in mem[v].batch : b.stamp \in Nat \X Nat
    BY DEF PipelineTypeOK, Listed
  <2> QED
    BY <1>1, <1>3, <1>5, <2>1 DEF SettleInv, TickInv, Special, LinesOf, Unrecorded
<1> QED
  BY <1>4, <1>6, <1>7 DEF SettleInv

LEMMA RecordScanKeeps ==
  ASSUME PipelineTypeOK, SettleInv, NEW w \in Worker, RecordScan(w)
  PROVE  PipelineTypeOK' /\ SettleInv' /\ (pc'[w] = "write" => mem'[w].end <= MaxID /\ mem'[w].end \in Nat)
<1> DEFINE end == IF cursor + Window < MaxID THEN cursor + Window ELSE MaxID
<1>1. UNCHANGED <<events, lastID, cursor, epoch, rows, lines, young, deadline>>
  BY DEF RecordScan, database, log, recorder, hold
<1>2. end \in Nat /\ end <= MaxID
  BY MaxIDTyped, Constants DEF PipelineTypeOK
<1>3. CASE end <= cursor
  <2>1. Goto(w, "recorded") /\ UNCHANGED mem
    BY <1>3 DEF RecordScan, Recorded
  <2>2. "recorded" \in Stage \ Special /\ "recorded" # "write"
    BY DEF Stage, Special, Recording
  <2>3. MovesOn(w)
    BY <1>1, <2>1, <2>2, GotoMoves
  <2>4. SettleInv'
    BY <1>1, <2>3, PlainSettle
  <2>5. pc' \in [Worker -> Stage] /\ (\A v \in Worker : pc'[v] \in Special => pc'[v] = pc[v]) /\ pc'[w] # "write"
    BY <2>1, <2>2 DEF Goto, PipelineTypeOK
  <2>6. PipelineTypeOK'
    BY <1>1, <2>1, <2>5 DEF PipelineTypeOK, Special
  <2> QED
    BY <2>4, <2>5, <2>6
<1>4. CASE ~(end <= cursor)
  <2>1. PICK m : m = [NoMem EXCEPT !.cursor = cursor, !.epoch = epoch, !.end = end, !.last = end = MaxID]
    OBVIOUS
  <2>2. Goto(w, "write") /\ Recall(w, m)
    BY <1>4, <2>1 DEF RecordScan
  <2>3. m.cursor = cursor /\ m.end = end
    BY <2>1 DEF NoMem
  <2> HIDE DEF end
  <2>4. "write" \in Stage
    BY DEF Stage, Recording
  <2>5. pc' = [pc EXCEPT ![w] = "write"] /\ mem' = [mem EXCEPT ![w] = m]
    BY <2>2 DEF Goto, Recall
  <2>6. PipelineTypeOK'
    BY <1>1, <1>2, <2>3, <2>4, <2>5 DEF PipelineTypeOK
  <2>7. \A v \in Worker \ {w} : pc'[v] = pc[v] /\ mem'[v] = mem[v]
    BY <2>5 DEF PipelineTypeOK
  <2>8. pc'[w] = "write" /\ mem'[w] = m /\ m.end > m.cursor
    BY <1>2, <1>4, <2>3, <2>5 DEF PipelineTypeOK
  <2>9. ASSUME NEW s \in Session PROVE RowInv(s)'
    BY <1>1, <2>7, <2>8 DEF SettleInv, RowInv, Past, LinesOf
  <2>10. ASSUME NEW v \in Worker PROVE TickInv(v)'
    <3>1. CASE v = w
      BY <2>8, <3>1 DEF TickInv
    <3>2. CASE v # w
      BY <1>1, <2>7, <3>2 DEF SettleInv, TickInv, Past, LinesOf, Unrecorded
    <3> QED
      BY <3>1, <3>2
  <2> QED
    BY <1>2, <2>3, <2>6, <2>8, <2>9, <2>10 DEF SettleInv
<1> QED
  BY <1>3, <1>4

LEMMA NewLinesTyped ==
  ASSUME PipelineTypeOK, NEW w \in Worker
  PROVE  NewLines(w) \in SUBSET Stored
<1>1. VersionOf[w] \in Nat
  BY Constants
<1>2. \A e \in events : Line(e, VersionOf[w]) \in Stored
  BY <1>1 DEF Line, Stored, PipelineTypeOK, Command
<1> QED
  BY <1>2 DEF NewLines, Scanned

(* The stamp of the window being written is later than any in a row. *)
LEMMA WindowStamp ==
  ASSUME PipelineTypeOK, NEW end \in Nat, end > cursor, epoch' = epoch, cursor' = end
  PROVE  /\ <<epoch, end>> \in Nat \X Nat /\ ~Past(<<epoch, end>>)
         /\ \A stamp \in Nat \X Nat : stamp = <<epoch, end>> \/ Past(stamp) => Past(stamp)'
<1>1. cursor \in Nat /\ epoch \in Nat
  BY DEF PipelineTypeOK
<1>2. ~Past(<<epoch, end>>)
  BY <1>1 DEF Past
<1>3. ASSUME NEW stamp \in Nat \X Nat, stamp = <<epoch, end>> \/ Past(stamp) PROVE Past(stamp)'
  BY <1>1, <1>3 DEF Past
<1> QED
  BY <1>1, <1>2, <1>3

LEMMA RecordWriteKeeps ==
  ASSUME PipelineTypeOK, SettleInv, NEW w \in Worker, RecordWrite(w)
  PROVE  PipelineTypeOK' /\ SettleInv'
<1>1. pc[w] = "write" /\ Recall(w, NoMem) /\ UNCHANGED <<events, lastID, epoch, deadline>>
  BY DEF RecordWrite, log, hold
<1>2. PICK to \in {"recorded", "scan"} : Goto(w, to)
  BY DEF RecordWrite, Recorded
<1>3. to \in Stage \ Special
  BY DEF Stage, Special, Recording
<1>4. pc' = [pc EXCEPT ![w] = to] /\ mem' = [mem EXCEPT ![w] = NoMem]
  BY <1>1, <1>2 DEF Goto, Recall
<1>5. pc' \in [Worker -> Stage] /\ \A v \in Worker : pc'[v] \in Special => v # w /\ pc'[v] = pc[v] /\ mem'[v] = mem[v]
  BY <1>3, <1>4 DEF PipelineTypeOK
<1>6. CASE ~CursorUnmoved(w)
  <2>1. UNCHANGED <<lines, rows, young, cursor>>
    BY <1>6 DEF RecordWrite
  <2>2. MovesOn(w)
    BY <1>1, <1>2, <1>3, <2>1, GotoMoves
  <2>3. SettleInv'
    BY <1>1, <2>1, <2>2, PlainSettle
  <2>4. PipelineTypeOK'
    BY <1>1, <1>4, <1>5, <2>1 DEF PipelineTypeOK, Special
  <2> QED
    BY <2>3, <2>4
<1>7. CASE CursorUnmoved(w)
  <2>1. PICK end : end = mem[w].end
    OBVIOUS
  <2>2. PICK new : new = NewLines(w)
    OBVIOUS
  <2>3. PICK stamp : stamp = <<epoch, end>>
    OBVIOUS
  <2>4. /\ lines' = lines \cup new /\ rows' = RecordedRows(new, stamp) /\ cursor' = end
        /\ young' = [x \in DOMAIN young |-> IF \E l \in new : l.s = x THEN Ticking ELSE young[x]]
    BY <1>7, <2>1, <2>2, <2>3 DEF RecordWrite
  <2>5. end \in Nat /\ end > cursor
    BY <1>1, <1>7, <2>1 DEF PipelineTypeOK, SettleInv, TickInv, CursorUnmoved
  <2>6. /\ stamp \in Nat \X Nat /\ ~Past(stamp) /\ Past(stamp)'
        /\ \A old \in Nat \X Nat : Past(old) => Past(old)'
    BY <1>1, <2>3, <2>4, <2>5, WindowStamp
  <2>7. new \in SUBSET Stored
    BY <2>2, NewLinesTyped
  <2> DEFINE Touched(s) == \E l \in new : l.s = s
  <2>8. \A s \in Session : Touched(s) =>
          /\ rows'[s] = [rows[s] EXCEPT !.here = TRUE, !.stamp = stamp, !.settled = FALSE, !.idle = FALSE]
          /\ young'[s] = Ticking
    BY <2>4 DEF RecordedRows, PipelineTypeOK
  <2>9. \A s \in Session : ~Touched(s) => rows'[s] = rows[s] /\ young'[s] = young[s] /\ (LinesOf(s))' = LinesOf(s)
    BY <2>4 DEF RecordedRows, PipelineTypeOK, LinesOf
  <2>10. ASSUME NEW s \in Session, Touched(s)
         PROVE /\ rows'[s] \in Row /\ rows'[s].here /\ rows'[s].stamp = stamp
               /\ ~rows'[s].settled /\ ~rows'[s].idle
    <3>1. rows[s] \in Row
      BY DEF PipelineTypeOK
    <3>2. rows'[s] = [rows[s] EXCEPT !.here = TRUE, !.stamp = stamp, !.settled = FALSE, !.idle = FALSE]
      BY <2>8, <2>10
    <3>3. PICK row : row = rows[s]
      OBVIOUS
    <3>4. /\ rows'[s] = [here |-> TRUE, stamp |-> stamp, settled |-> FALSE, idle |-> FALSE, fp |-> row.fp]
          /\ row.fp \in SUBSET Code
      BY <3>1, <3>2, <3>3 DEF Row
    <3> QED
      BY <2>6, <3>4 DEF Row
  <2> HIDE DEF Touched
  <2>11. rows' \in [Session -> Row]
    <3>1. \A s \in Session : rows'[s] \in Row
      BY <2>9, <2>10 DEF PipelineTypeOK
    <3>2. rows' = [s \in Session |-> rows'[s]]
      BY <2>4 DEF RecordedRows
    <3> QED
      BY <3>1, <3>2
  <2>12. young' \in [Session \cup {HoldClock} -> SUBSET Worker]
    BY <2>4 DEF PipelineTypeOK, Ticking
  <2>13. PipelineTypeOK'
    BY <1>1, <1>4, <1>5, <2>4, <2>5, <2>7, <2>11, <2>12 DEF PipelineTypeOK, Special
  <2>14. ASSUME NEW s \in Session PROVE RowInv(s)'
    <3>1. CASE Touched(s)
      <4>1. \A v \in Worker : pc'[v] = "lines" => v \in Ticking
        BY <1>5 DEF Ticking, Special
      <4> QED
        BY <2>6, <2>8, <2>10, <3>1, <4>1 DEF RowInv
    <3>2. CASE ~Touched(s)
      <4>1. rows[s].stamp \in Nat \X Nat
        BY DEF PipelineTypeOK, Row
      <4> QED
        BY <1>5, <2>6, <2>9, <3>2, <4>1 DEF SettleInv, RowInv, Special
    <3> QED
      BY <3>1, <3>2
  <2>15. ASSUME NEW v \in Worker PROVE TickInv(v)'
    <3>1. CASE pc'[v] \in {"compute", "commit"}
      <4>1. v # w /\ pc[v] = pc'[v] /\ mem'[v] = mem[v] /\ TickInv(v) /\ mem[v].batch \in SUBSET Listed
        BY <1>5, <3>1 DEF SettleInv, Special, PipelineTypeOK
      <4>2. ASSUME NEW b \in mem[v].batch
            PROVE  /\ b.s \in Session /\ Past(b.stamp) /\ Past(b.stamp)'
                   /\ Unrecorded(b)' => ~Touched(b.s)
        <5>1. b \in Listed /\ Past(b.stamp)
          BY <3>1, <4>1, <4>2 DEF TickInv
        <5>2. b.s \in Session /\ b.stamp \in Nat \X Nat /\ b.stamp # stamp
          BY <2>6, <5>1 DEF Listed
        <5> QED
          BY <2>6, <2>10, <5>1, <5>2 DEF Unrecorded
      <4>3. \A b \in mem[v].batch : Unrecorded(b)' =>
              Unrecorded(b) /\ rows'[b.s] = rows[b.s] /\ (LinesOf(b.s))' = LinesOf(b.s)
        BY <2>9, <4>2 DEF Unrecorded
      <4>4. ASSUME NEW b \in mem[v].batch
            PROVE  /\ Past(b.stamp)'
                   /\ Unrecorded(b)' => rows'[b.s].idle
                   /\ Unrecorded(b)' /\ pc'[v] = "commit" => b.fp = Fingerprint(LinesOf(b.s))'
        BY <3>1, <4>1, <4>2, <4>3, <4>4 DEF TickInv, Fingerprint
      <4>5. pc'[v] = "compute" => mem'[v] = [NoMem EXCEPT !.batch = mem'[v].batch]
        BY <4>1 DEF TickInv
      <4>6. pc'[v] # "write" /\ mem'[v].batch = mem[v].batch
        BY <3>1, <4>1
      <4> QED
        BY <4>4, <4>5, <4>6 DEF TickInv
    <3>2. CASE pc'[v] \notin {"compute", "commit"}
      BY <1>5, <3>2 DEF SettleInv, TickInv, Special
    <3> QED
      BY <3>1, <3>2
  <2> QED
    BY <2>13, <2>14, <2>15 DEF SettleInv
<1> QED
  BY <1>6, <1>7

LEMMA SettleListKeeps ==
  ASSUME PipelineTypeOK, SettleInv, NEW w \in Worker, SettleList(w)
  PROVE  PipelineTypeOK' /\ SettleInv'
<1>1. UNCHANGED <<events, lastID, cursor, epoch, rows, lines, young, deadline>>
  BY DEF SettleList, database, log, recorder, hold
<1>2. PICK batch : batch = {[s |-> s, stamp |-> rows[s].stamp, fp |-> {}] : s \in Idle}
  OBVIOUS
<1>3. PICK m : m = [NoMem EXCEPT !.batch = batch]
  OBVIOUS
<1>4. m.batch = batch /\ m = [NoMem EXCEPT !.batch = m.batch]
  BY <1>3 DEF NoMem
<1>5. PICK to \in {"epoch", "compute"} : pc' = [pc EXCEPT ![w] = to]
  BY DEF SettleList, Goto
<1>6. to \in Stage
  BY DEF Stage, Holding, Settling
<1>7. mem' = [mem EXCEPT ![w] = m]
  BY <1>2, <1>3 DEF SettleList, Recall
<1>8. ASSUME NEW b \in batch PROVE b \in Listed /\ Past(b.stamp) /\ (Unrecorded(b) => rows[b.s].idle)
  <2>1. PICK s \in Session : b = [s |-> s, stamp |-> rows[s].stamp, fp |-> {}] /\ rows[s].here /\ rows[s].idle
    BY <1>2, <1>8 DEF Idle
  <2>2. rows[s].stamp \in Nat \X Nat /\ Past(rows[s].stamp)
    BY <2>1 DEF SettleInv, RowInv, PipelineTypeOK, Row
  <2>3. b.s = s /\ b.stamp = rows[s].stamp /\ {} \in SUBSET Code
    BY <2>1
  <2>4. b \in Listed
    BY <2>1, <2>2, <2>3 DEF Listed
  <2> QED
    BY <2>1, <2>2, <2>3, <2>4
<1>9. batch \in SUBSET Listed
  BY <1>8
<1>10. \A v \in Worker : v # w => pc'[v] = pc[v] /\ mem'[v] = mem[v]
  BY <1>5, <1>7 DEF PipelineTypeOK
<1>11. pc'[w] = to /\ mem'[w] = m
  BY <1>5, <1>7 DEF PipelineTypeOK
<1>12. PipelineTypeOK'
  BY <1>1, <1>4, <1>5, <1>6, <1>7, <1>9 DEF PipelineTypeOK
<1>13. ASSUME NEW s \in Session PROVE RowInv(s)'
  BY <1>1, <1>10, <1>11 DEF SettleInv, RowInv, Past, LinesOf
<1>14. ASSUME NEW v \in Worker PROVE TickInv(v)'
  <2>1. CASE v = w
    <3>1. ASSUME NEW b \in batch PROVE Past(b.stamp)' /\ (Unrecorded(b)' => rows'[b.s].idle)
      BY <1>1, <1>8, <3>1 DEF Past, Unrecorded
    <3>2. pc'[v] # "write" /\ pc'[v] # "commit" /\ mem'[v].batch = batch
      BY <1>4, <1>11, <2>1
    <3>3. mem'[v] = [NoMem EXCEPT !.batch = mem'[v].batch]
      BY <1>4, <1>11, <2>1
    <3> QED
      BY <3>1, <3>2, <3>3 DEF TickInv
  <2>2. CASE v # w
    <3>1. pc'[v] = pc[v] /\ mem'[v] = mem[v] /\ TickInv(v)
      BY <1>10, <2>2 DEF SettleInv
    <3> QED
      BY <1>1, <3>1 DEF TickInv, Past, LinesOf, Unrecorded
  <2> QED
    BY <2>1, <2>2
<1> QED
  BY <1>12, <1>13, <1>14 DEF SettleInv

LEMMA SettleComputeKeeps ==
  ASSUME PipelineTypeOK, SettleInv, NEW w \in Worker, SettleCompute(w)
  PROVE  PipelineTypeOK' /\ SettleInv'
<1>1. UNCHANGED <<events, lastID, cursor, epoch, rows, lines, young, deadline>>
  BY DEF SettleCompute, database, log, recorder, hold
<1>2. PICK old : old = mem[w].batch
  OBVIOUS
<1>3. pc[w] = "compute" /\ old \in SUBSET Listed /\ mem[w] = [NoMem EXCEPT !.batch = old]
  BY <1>2 DEF SettleCompute, PipelineTypeOK, SettleInv, TickInv
<1>4. \A b \in old : Past(b.stamp) /\ (Unrecorded(b) => rows[b.s].idle)
  BY <1>2, <1>3 DEF SettleInv, TickInv
<1>5. PICK batch : batch = {[b EXCEPT !.fp = Fingerprint(LinesOf(b.s))] : b \in {c \in old : LinesOf(c.s) # {}}}
  OBVIOUS
<1>6. PICK m : m = [mem[w] EXCEPT !.batch = batch]
  OBVIOUS
<1>7. m.batch = batch
  BY <1>3, <1>6 DEF NoMem
<1>8. pc' = [pc EXCEPT ![w] = "commit"] /\ mem' = [mem EXCEPT ![w] = m]
  BY <1>2, <1>5, <1>6 DEF SettleCompute, Goto, Recall
<1>9. ASSUME NEW b \in batch
      PROVE  /\ b \in Listed /\ Past(b.stamp) /\ (Unrecorded(b) => rows[b.s].idle)
             /\ b.fp = Fingerprint(LinesOf(b.s))
  <2>1. PICK c \in old : b = [c EXCEPT !.fp = Fingerprint(LinesOf(c.s))]
    BY <1>5, <1>9
  <2>2. c \in Listed
    BY <1>3
  <2>3. PICK f : f = Fingerprint(LinesOf(c.s))
    OBVIOUS
  <2>4. f \in SUBSET Code
    BY <2>3, LinesTyped
  <2>5. b = [s |-> c.s, stamp |-> c.stamp, fp |-> f]
    BY <2>1, <2>2, <2>3 DEF Listed
  <2>6. b \in Listed /\ b.s = c.s /\ b.stamp = c.stamp /\ b.fp = f
    BY <2>2, <2>4, <2>5 DEF Listed
  <2>7. b.fp = Fingerprint(LinesOf(b.s))
    BY <2>3, <2>6
  <2> QED
    BY <1>4, <2>6, <2>7 DEF Unrecorded
<1>10. batch \in SUBSET Listed /\ "commit" \in Stage
  BY <1>9 DEF Stage, Settling
<1>11. \A v \in Worker : v # w => pc'[v] = pc[v] /\ mem'[v] = mem[v]
  BY <1>8 DEF PipelineTypeOK
<1>12. pc'[w] = "commit" /\ mem'[w] = m
  BY <1>8 DEF PipelineTypeOK
<1>13. PipelineTypeOK'
  BY <1>1, <1>7, <1>8, <1>10 DEF PipelineTypeOK
<1>14. ASSUME NEW s \in Session PROVE RowInv(s)'
  BY <1>1, <1>11, <1>12 DEF SettleInv, RowInv, Past, LinesOf
<1>15. ASSUME NEW v \in Worker PROVE TickInv(v)'
  <2>1. CASE v = w
    BY <1>1, <1>7, <1>9, <1>12, <2>1 DEF TickInv, Past, Unrecorded, LinesOf
  <2>2. CASE v # w
    BY <1>1, <1>11, <2>2 DEF SettleInv, TickInv, Past, LinesOf, Unrecorded
  <2> QED
    BY <2>1, <2>2
<1> QED
  BY <1>13, <1>14, <1>15 DEF SettleInv

LEMMA SettleCommitKeeps ==
  ASSUME PipelineTypeOK, SettleInv, NEW w \in Worker, SettleCommit(w)
  PROVE  PipelineTypeOK' /\ SettleInv'
<1>1. UNCHANGED <<events, lastID, cursor, epoch, lines, young, deadline>> /\ pc[w] = "commit"
  BY DEF SettleCommit, log, hold
<1>2. PICK ready : ready = {b \in mem[w].batch : Unrecorded(b)}
  OBVIOUS
<1>3. rows' = [s \in Session |->
         IF \E b \in ready : b.s = s
           THEN [rows[s] EXCEPT !.settled = TRUE, !.fp = (CHOOSE b \in ready : b.s = s).fp]
           ELSE rows[s]]
  BY <1>2 DEF SettleCommit
<1>4. MovesOn(w)
  <2>1. "epoch" \in Stage \ Special
    BY DEF Stage, Special, Holding
  <2> QED
    BY <1>1, <2>1, GotoMoves DEF SettleCommit
<1>5. pc' \in [Worker -> Stage] /\ \A v \in Worker : pc'[v] \in Special => v # w /\ pc'[v] = pc[v] /\ mem'[v] = mem[v]
  <2>1. pc' = [pc EXCEPT ![w] = "epoch"] /\ "epoch" \in Stage \ Special
    BY DEF SettleCommit, Goto, Stage, Special, Holding
  <2> QED
    BY <1>4, <2>1 DEF MovesOn, PipelineTypeOK
<1>6. ASSUME NEW b \in ready
      PROVE  /\ b.s \in Session /\ b.fp \in SUBSET Code
             /\ rows[b.s].here /\ rows[b.s].idle /\ b.fp = Fingerprint(LinesOf(b.s))
  <2>1. b \in mem[w].batch /\ Unrecorded(b) /\ b \in Listed
    BY <1>1, <1>2, <1>6 DEF PipelineTypeOK
  <2> QED
    BY <1>1, <2>1 DEF SettleInv, TickInv, Listed, Unrecorded
<1>7. ASSUME NEW s \in Session
      PROVE  \/ rows'[s] = rows[s]
             \/ /\ rows[s].here /\ rows[s].idle
                /\ rows'[s] = [rows[s] EXCEPT !.settled = TRUE, !.fp = Fingerprint(LinesOf(s))]
  <2>1. CASE \E b \in ready : b.s = s
    <3>1. PICK b : b = (CHOOSE c \in ready : c.s = s)
      OBVIOUS
    <3>2. b \in ready /\ b.s = s
      BY <2>1, <3>1
    <3>3. rows'[s] = [rows[s] EXCEPT !.settled = TRUE, !.fp = b.fp]
      BY <1>3, <2>1, <3>1
    <3> QED
      BY <1>6, <3>2, <3>3
  <2>2. CASE ~\E b \in ready : b.s = s
    BY <1>3, <2>2
  <2> QED
    BY <2>1, <2>2
<1>8. ASSUME NEW s \in Session
      PROVE  /\ rows'[s] \in Row /\ rows'[s].here = rows[s].here /\ rows'[s].idle = rows[s].idle
             /\ rows'[s].stamp = rows[s].stamp
             /\ rows'[s].settled => rows'[s].here /\ rows'[s].idle /\ rows'[s].fp = Fingerprint(LinesOf(s))
  <2>1. RowInv(s) /\ rows[s] \in Row
    BY DEF SettleInv, PipelineTypeOK
  <2>2. CASE rows'[s] = rows[s]
    BY <2>1, <2>2 DEF RowInv
  <2>3. CASE rows'[s] # rows[s]
    <3>1. PICK f : f = Fingerprint(LinesOf(s))
      OBVIOUS
    <3>2. PICK row : row = rows[s]
      OBVIOUS
    <3>3. f \in SUBSET Code
      BY <3>1, LinesTyped
    <3>4. row.here /\ row.idle /\ rows'[s] = [row EXCEPT !.settled = TRUE, !.fp = f]
      BY <1>7, <2>3, <3>1, <3>2
    <3>5. rows'[s] = [here |-> row.here, stamp |-> row.stamp, settled |-> TRUE, idle |-> row.idle, fp |-> f]
      BY <2>1, <3>2, <3>4 DEF Row
    <3>6. row.here \in BOOLEAN /\ row.stamp \in Nat \X Nat /\ row.idle \in BOOLEAN
      BY <2>1, <3>2 DEF Row
    <3>7. rows'[s] \in Row
      BY <3>3, <3>5, <3>6 DEF Row
    <3>8. rows'[s].here = row.here /\ rows'[s].stamp = row.stamp /\ rows'[s].idle = row.idle /\ rows'[s].fp = f
      BY <3>5
    <3> QED
      BY <3>1, <3>2, <3>4, <3>7, <3>8
  <2> QED
    BY <2>2, <2>3
<1>9. rows' \in [Session -> Row]
  <2>1. rows' = [s \in Session |-> rows'[s]]
    BY <1>3
  <2> QED
    BY <1>8, <2>1
<1>10. PipelineTypeOK'
  BY <1>1, <1>4, <1>5, <1>9 DEF PipelineTypeOK, MovesOn, Special
<1>11. ASSUME NEW s \in Session PROVE RowInv(s)'
  <2>1. RowInv(s)
    BY DEF SettleInv
  <2>2. /\ rows'[s].settled => rows'[s].here /\ rows'[s].idle /\ rows'[s].fp = Fingerprint(LinesOf(s))'
        /\ young'[s] # {} => ~rows'[s].idle
        /\ rows'[s].here => Past(rows[s].stamp)'
    BY <1>1, <1>8, <2>1 DEF RowInv, Past, LinesOf, Fingerprint
  <2>3. \A v \in Worker : pc'[v] = "lines" /\ rows'[s].here => v \in young'[s]
    BY <1>1, <1>5, <1>8, <2>1 DEF RowInv, Special
  <2> QED
    BY <2>2, <2>3 DEF RowInv
<1>12. ASSUME NEW v \in Worker PROVE TickInv(v)'
  <2>1. CASE pc'[v] \in {"compute", "commit"}
    <3>1. v # w /\ pc[v] = pc'[v] /\ mem'[v] = mem[v] /\ TickInv(v) /\ mem[v].batch \in SUBSET Listed
      BY <1>5, <2>1 DEF SettleInv, Special, PipelineTypeOK
    <3>2. ASSUME NEW b \in mem[v].batch
          PROVE  /\ Past(b.stamp)'
                 /\ Unrecorded(b)' => rows'[b.s].idle
                 /\ Unrecorded(b)' /\ pc'[v] = "commit" => b.fp = Fingerprint(LinesOf(b.s))'
      <4>1. b.s \in Session
        BY <3>1, <3>2 DEF Listed
      <4>2. /\ Past(b.stamp) /\ (Unrecorded(b) => rows[b.s].idle)
            /\ Unrecorded(b) /\ pc[v] = "commit" => b.fp = Fingerprint(LinesOf(b.s))
        BY <2>1, <3>1, <3>2 DEF TickInv
      <4>3. Unrecorded(b)' <=> Unrecorded(b)
        BY <1>8, <4>1 DEF Unrecorded
      <4> QED
        BY <1>1, <1>8, <3>1, <4>1, <4>2, <4>3 DEF Past, LinesOf, Fingerprint
    <3>3. mem'[v].batch = mem[v].batch /\ pc'[v] # "write"
      BY <2>1, <3>1
    <3>4. pc'[v] = "compute" => mem'[v] = [NoMem EXCEPT !.batch = mem'[v].batch]
      BY <3>1 DEF TickInv
    <3> QED
      BY <3>2, <3>3, <3>4 DEF TickInv
  <2>2. CASE pc'[v] \notin {"compute", "commit"}
    BY <1>5, <2>2 DEF SettleInv, TickInv, Special
  <2> QED
    BY <2>1, <2>2
<1> QED
  BY <1>10, <1>11, <1>12 DEF SettleInv

-----------------------------------------------------------------------------
(* Other processes and time *)

LEMMA AppendKeeps ==
  ASSUME PipelineTypeOK, SettleInv, NEW t \in Session, Append(t)
  PROVE  PipelineTypeOK' /\ SettleInv'
<1>1. UNCHANGED <<cursor, epoch, rows, lines, young, deadline, pc, mem>>
  BY DEF Append, recorder, hold
<1>2. PICK new : new = [id |-> lastID + 1, s |-> t, n |-> Commands(t) + 1]
  OBVIOUS
<1>3. Commands(t) \in Nat
  <2>1. IsFiniteSet({e \in events : e.s = t})
    BY FS_Subset DEF PipelineTypeOK
  <2> QED
    BY <2>1, FS_CardinalityType DEF Commands
<1>4. new \in Command
  BY <1>2, <1>3 DEF PipelineTypeOK, Command
<1>5. events' = events \cup {new} /\ lastID' = lastID + 1
  BY <1>2 DEF Append
<1>6. IsFiniteSet(events \cup {new})
  BY FS_AddElement DEF PipelineTypeOK
<1>7. PipelineTypeOK'
  BY <1>1, <1>4, <1>5, <1>6 DEF PipelineTypeOK
<1> QED
  BY <1>1, <1>7 DEF SettleInv, RowInv, TickInv, Past, LinesOf, Unrecorded

(* Only events that occupy ids after the last one are ever stored. *)
LEMMA ReinsertedTyped ==
  ASSUME PipelineTypeOK
  PROVE  /\ Reinserted \in SUBSET Command /\ IsFiniteSet(Reinserted)
         /\ Cardinality(events) \in Nat
         /\ \A e \in Reinserted : e.id > lastID /\ e.id <= lastID + Cardinality(events)
<1> DEFINE upto(e) == {f \in events : f.id <= e.id}
           move == [e \in events |-> [e EXCEPT !.id = lastID + Cardinality(upto(e))]]
<1>1. Cardinality(events) \in Nat
  BY FS_CardinalityType DEF PipelineTypeOK
<1>2. ASSUME NEW e \in events
      PROVE  Cardinality(upto(e)) \in Nat \ {0} /\ Cardinality(upto(e)) <= Cardinality(events)
  <2>1. IsFiniteSet(upto(e)) /\ Cardinality(upto(e)) <= Cardinality(events)
    BY FS_Subset DEF PipelineTypeOK
  <2>2. e \in upto(e)
    BY DEF PipelineTypeOK, Command
  <2> QED
    BY <2>1, <2>2, FS_CardinalityType, FS_EmptySet
<1>3. ASSUME NEW e \in events
      PROVE  move[e] \in Command /\ move[e].id > lastID /\ move[e].id <= lastID + Cardinality(events)
  <2>1. PICK i : i = lastID + Cardinality(upto(e))
    OBVIOUS
  <2>2. i \in Nat \ {0} /\ i > lastID /\ i <= lastID + Cardinality(events)
    <3> HIDE DEF upto
    <3> QED
      BY <1>1, <1>2, <2>1 DEF PipelineTypeOK
  <2>3. move[e] = [id |-> i, s |-> e.s, n |-> e.n] /\ e \in Command
    BY <2>1 DEF PipelineTypeOK, Command
  <2> HIDE DEF move
  <2> QED
    BY <2>2, <2>3 DEF Command
<1>4. Reinserted = {move[e] : e \in events}
  BY DEF Reinserted
<1>5. DOMAIN move = events /\ move = [e \in events |-> move[e]] /\ IsFiniteSet(events)
  BY DEF PipelineTypeOK
<1> HIDE DEF move
<1>6. IsFiniteSet({move[e] : e \in events})
  BY <1>5, FiniteImage
<1> QED
  BY <1>1, <1>3, <1>4, <1>6

LEMMA ReplaceKeeps ==
  ASSUME PipelineTypeOK, SettleInv, Replace
  PROVE  PipelineTypeOK' /\ SettleInv'
<1>1. /\ events' = Reinserted /\ lastID' = lastID + Cardinality(events) /\ lines' = {}
      /\ rows' = [s \in Session |-> NoRow] /\ cursor' = lastID /\ epoch' = epoch + 1
      /\ deadline' = "none" /\ young' = [x \in DOMAIN young |-> {}] /\ UNCHANGED <<pc, mem>>
  BY DEF Replace
<1>2. NoRow \in Row /\ ~NoRow.here /\ ~NoRow.settled
  BY DEF NoRow, Row
<1>3. PipelineTypeOK'
  BY <1>1, <1>2, ReinsertedTyped DEF PipelineTypeOK
<1>4. \A stamp \in Nat \X Nat : Past(stamp) => Past(stamp)'
  BY <1>1 DEF Past, PipelineTypeOK
<1>5. ASSUME NEW s \in Session PROVE RowInv(s)'
  BY <1>1, <1>2 DEF RowInv, PipelineTypeOK
<1>6. ASSUME NEW v \in Worker PROVE TickInv(v)'
  <2>1. pc[v] \in {"compute", "commit"} => \A b \in mem[v].batch : b.stamp \in Nat \X Nat /\ b.s \in Session
    BY DEF PipelineTypeOK, Listed
  <2>2. TickInv(v)
    BY DEF SettleInv
  <2> QED
    BY <1>1, <1>2, <1>4, <2>1, <2>2 DEF TickInv, Unrecorded
<1> QED
  BY <1>3, <1>5, <1>6 DEF SettleInv

LEMMA BecomeIdleKeeps ==
  ASSUME PipelineTypeOK, SettleInv, NEW t \in Session, BecomeIdle(t)
  PROVE  PipelineTypeOK' /\ SettleInv'
<1>1. UNCHANGED <<events, lastID, cursor, epoch, lines, young, deadline, pc, mem>>
  BY DEF BecomeIdle, log, hold
<1>2. /\ rows' = [rows EXCEPT ![t].idle = TRUE] /\ rows[t].here /\ young[t] = {}
      /\ rows[t] \in Row
  BY DEF BecomeIdle, PipelineTypeOK
<1>3. PICK row : row = rows[t]
  OBVIOUS
<1>4. rows' = [rows EXCEPT ![t] = [row EXCEPT !.idle = TRUE]]
  BY <1>2, <1>3
<1>5. row \in Row
  BY <1>2, <1>3
<1>6. PICK new : new = [row EXCEPT !.idle = TRUE]
  OBVIOUS
<1>7. /\ new \in Row /\ new.idle /\ new.here = row.here /\ new.stamp = row.stamp
      /\ new.settled = row.settled /\ new.fp = row.fp
  <2>1. /\ new = [here |-> row.here, stamp |-> row.stamp, settled |-> row.settled,
                 idle |-> TRUE, fp |-> row.fp]
        /\ row.here \in BOOLEAN /\ row.stamp \in Nat \X Nat /\ row.settled \in BOOLEAN
        /\ row.fp \in SUBSET Code
    BY <1>5, <1>6 DEF Row
  <2> QED
    BY <2>1 DEF Row
<1>8. rows' \in [Session -> Row] /\ \A s \in Session : rows'[s] = (IF s = t THEN new ELSE rows[s])
  BY <1>4, <1>6, <1>7 DEF PipelineTypeOK
<1>9. PipelineTypeOK'
  BY <1>1, <1>8 DEF PipelineTypeOK
<1>10. ASSUME NEW s \in Session PROVE RowInv(s)'
  <2>1. CASE s # t
    BY <1>1, <1>8, <2>1 DEF SettleInv, RowInv, Past, LinesOf
  <2>2. CASE s = t
    <3>1. RowInv(t) /\ rows'[s] = new /\ rows[s] = row
      BY <1>3, <1>8, <2>2 DEF SettleInv
    <3> QED
      BY <1>1, <1>2, <1>3, <1>7, <2>2, <3>1 DEF RowInv, Past, LinesOf
  <2> QED
    BY <2>1, <2>2
<1>11. ASSUME NEW v \in Worker PROVE TickInv(v)'
  <2>1. pc[v] \in {"compute", "commit"} => \A b \in mem[v].batch : b.s \in Session
    BY DEF PipelineTypeOK, Listed
  <2>2. \A s \in Session : /\ rows'[s].here = rows[s].here /\ rows'[s].stamp = rows[s].stamp
                           /\ rows[s].idle => rows'[s].idle
    BY <1>3, <1>7, <1>8
  <2>3. TickInv(v)
    BY DEF SettleInv
  <2> QED
    BY <1>1, <2>1, <2>2, <2>3 DEF TickInv, Past, LinesOf, Unrecorded
<1> QED
  BY <1>9, <1>10, <1>11 DEF SettleInv

LEMMA OtherKeeps ==
  ASSUME PipelineTypeOK, SettleInv, OtherStep
  PROVE  PipelineTypeOK' /\ SettleInv'
<1>1. CASE \E s \in Session : Append(s) \/ BecomeIdle(s)
  BY <1>1, AppendKeeps, BecomeIdleKeeps
<1>2. CASE Replace
  BY <1>2, ReplaceKeeps
<1>3. CASE ForceScriptRebuild \/ DeadlinePasses \/ DeadLapse \/ \E w \in Worker : Edit(w) \/ Stall(w)
  <2>1. UNCHANGED <<events, lastID, cursor, epoch, rows, lines, young, pc, mem>>
    BY <1>3 DEF ForceScriptRebuild, DeadlinePasses, DeadLapse, Edit, Stall, database, log, recorder
  <2>2. deadline' \in {"none", "running", "past"}
    BY <1>3 DEF ForceScriptRebuild, DeadlinePasses, DeadLapse, Edit, Stall, database, hold, PipelineTypeOK
  <2>3. PipelineTypeOK'
    BY <2>1, <2>2 DEF PipelineTypeOK
  <2> QED
    BY <2>1, <2>3 DEF SettleInv, RowInv, TickInv, Past, LinesOf, Unrecorded
<1> QED
  BY <1>1, <1>2, <1>3 DEF OtherStep

LEMMA SettleInit ==
  ASSUME Init
  PROVE  PipelineTypeOK /\ SettleInv
<1>1. left.old \in SUBSET Command /\ IsFiniteSet(left.old)
  BY EventsAssumption DEF Init, Command
<1>2. lastID \in Nat
  BY <1>1, LastTyped DEF Init
<1>3. lines \in SUBSET Stored
  BY <1>1, Constants DEF Init, Line, Stored, Command
<1>4. /\ cursor = lastID /\ epoch = 0 /\ events = left.old /\ deadline = "none"
      /\ pc = [w \in Worker |-> "idle"] /\ mem = [w \in Worker |-> NoMem]
      /\ young = [x \in Session \cup {HoldClock} |-> {}]
  BY DEF Init
<1>5. ASSUME NEW s \in Session
      PROVE  /\ rows[s] \in Row
             /\ rows[s].settled => rows[s].here /\ rows[s].idle /\ rows[s].fp = Fingerprint(LinesOf(s))
             /\ rows[s].here => rows[s].stamp = <<0, lastID>>
  <2>1. CASE LinesOf(s) = {}
    <3>1. rows[s] = NoRow
      BY <2>1 DEF Init
    <3> QED
      BY <3>1 DEF NoRow, Row
  <2>2. CASE LinesOf(s) # {}
    <3>1. PICK f : f = Fingerprint(LinesOf(s))
      OBVIOUS
    <3>2. f \in SUBSET Code
      BY <1>3, <3>1 DEF Fingerprint, LinesOf, Stored, Code
    <3>3. rows[s] = [here |-> TRUE, stamp |-> <<0, lastID>>, settled |-> TRUE, idle |-> TRUE, fp |-> f]
      BY <2>2, <3>1 DEF Init
    <3> QED
      BY <1>2, <3>1, <3>2, <3>3 DEF Row
  <2> QED
    BY <2>1, <2>2
<1>6. rows = [s \in Session |-> rows[s]]
  BY DEF Init
<1>7. "idle" \in Stage
  BY DEF Stage
<1>8. PipelineTypeOK
  BY <1>1, <1>2, <1>3, <1>4, <1>5, <1>6, <1>7 DEF PipelineTypeOK
<1>9. ASSUME NEW s \in Session PROVE RowInv(s)
  BY <1>2, <1>4, <1>5 DEF RowInv, Past
<1>10. ASSUME NEW w \in Worker PROVE TickInv(w)
  BY <1>4 DEF TickInv
<1> QED
  BY <1>8, <1>9, <1>10 DEF SettleInv

LEMMA SettleStep ==
  ASSUME PipelineTypeOK, SettleInv, [Next]_vars
  PROVE  PipelineTypeOK' /\ SettleInv'
<1>1. CASE OtherStep
  BY <1>1, OtherKeeps
<1>2. ASSUME NEW w \in Worker, PlainStep(w) PROVE PipelineTypeOK' /\ SettleInv'
  <2>1. PipelineTypeOK'
    BY <1>2, PlainType
  <2>2. MovesOn(w) /\ UNCHANGED <<cursor, epoch, lines, rows>>
    BY <1>2, PlainMoves, PlainUnchanged
  <2> QED
    BY <2>1, <2>2, PlainSettle
<1>3. ASSUME NEW w \in Worker, WriteStep(w) PROVE PipelineTypeOK' /\ SettleInv'
  BY <1>3, ResetRowsKeeps, ResetLinesKeeps, ResetStampKeeps, RecordScanKeeps, RecordWriteKeeps,
     SettleListKeeps, SettleComputeKeeps, SettleCommitKeeps DEF WriteStep
<1>4. CASE UNCHANGED vars
  <2>1. UNCHANGED <<events, lastID, cursor, epoch, rows, lines, young, deadline, pc, mem>>
    BY <1>4 DEF vars, database, log, recorder, hold
  <2>2. PipelineTypeOK'
    BY <2>1 DEF PipelineTypeOK
  <2> QED
    BY <2>1, <2>2 DEF SettleInv, RowInv, TickInv, Past, LinesOf, Unrecorded
<1> QED
  BY <1>1, <1>2, <1>3, <1>4, Steps

(* A settled session's fingerprint is that of all its lines, whatever is    *)
(* recorded, reset or replaced between the statements of SettleSessionScripts. *)
THEOREM SettledAreWhole == Spec => []SettledWhole
<1>1. Init => PipelineTypeOK /\ SettleInv
  BY SettleInit
<1>2. PipelineTypeOK /\ SettleInv /\ [Next]_vars => PipelineTypeOK' /\ SettleInv'
  BY SettleStep
<1>3. SettleInv => SettledWhole
  BY DEF SettleInv, RowInv, SettledWhole
<1> QED
  BY <1>1, <1>2, <1>3, PTL DEF Spec

-----------------------------------------------------------------------------
(* The recorder.  While no reset outlasts the lease, the worker resetting   *)
(* the scripts is the row's holder, so there is one at most, and the stored *)
(* version is not its own: nothing the reset deletes was under a cursor     *)
(* that RecorderExact speaks of.                                            *)
ResetInv(w) ==
  /\ pc[w] \in Resetting => Live(w)
  /\ pc[w] \in Resetting \ {"check"} => version # VersionOf[w]
  /\ pc[w] = "stamp" /\ ~crossed => lines = {}
  /\ pc[w] = "write" => mem[w].end <= lastID
RecordInv ==
  /\ cursor <= lastID
  /\ \A e \in events : e.id <= lastID
  /\ \A w \in Worker : ResetInv(w)
  /\ RecorderExact

(* A step of a tick that writes none of what the recorder does. *)
LEMMA QuietRecord ==
  ASSUME RecordInv, NEW w \in Worker,
         UNCHANGED <<events, lastID, cursor, lines, version, crossed>>,
         \A v \in Worker \ {w} : pc'[v] = pc[v] /\ mem'[v] = mem[v] /\ (Live(v) => Live(v)'),
         ResetInv(w)'
  PROVE  RecordInv'
<1>1. ASSUME NEW v \in Worker PROVE ResetInv(v)'
  <2>1. CASE v = w
    BY <2>1 DEF ResetInv, Live
  <2>2. CASE v # w
    <3>1. ResetInv(v) /\ pc'[v] = pc[v] /\ mem'[v] = mem[v] /\ (Live(v) => Live(v)')
      BY <2>2 DEF RecordInv
    <3> QED
      BY <3>1 DEF ResetInv
  <2> QED
    BY <2>1, <2>2
<1>2. RecorderExact'
  BY DEF RecordInv, RecorderExact, Line
<1> QED
  BY <1>1, <1>2 DEF RecordInv

(* Only the start of a tick enters a reset. *)
LEMMA OnwardMoves ==
  ASSUME PipelineTypeOK, NEW w \in Worker,
         \/ Renew(w) \/ RebuildHeld(w) \/ Owe(w) \/ Regroup(w) \/ FinishTick(w)
         \/ FailTick(w) \/ Crash(w) \/ Restart(w)
  PROVE  pc'[w] \notin Resetting
<1>a. ASSUME NEW to, Goto(w, to), to \notin Resetting PROVE pc'[w] \notin Resetting
  BY <1>a DEF Goto, PipelineTypeOK
<1>b. ASSUME End(w) PROVE pc'[w] \notin Resetting
  BY <1>b, EndMoves DEF PipelineTypeOK, Resetting
<1>1. CASE Renew(w)
  <2>1. \A site \in DOMAIN AfterRenew : AfterRenew[site] \notin Resetting
    BY DEF AfterRenew, Resetting
  <2> QED
    BY <1>1, <1>a, <1>b, <2>1 DEF Renew, Abandon
<1>2. CASE RebuildHeld(w)
  <2>1. \A to \in {"hold", "owe", "measure", "cursor", "decide", "clock", "pending", "release"} : to \notin Resetting
    BY DEF Resetting
  <2>2. CASE ReadEpoch(w) \/ HoldMark(w) \/ HoldMeasure(w) \/ HoldCursor(w)
    BY <1>a, <1>b, <2>1, <2>2 DEF ReadEpoch, HoldMark, HoldMeasure, HoldCursor, Abandon
  <2>3. CASE HoldDecide(w) /\ mem[w].cursor < Target(w)
    BY <1>b, <2>3 DEF HoldDecide
  <2>4. CASE HoldDecide(w) /\ ~(mem[w].cursor < Target(w))
    <3>1. PICK to \in {"clock", "pending", "release"} : Goto(w, to)
      BY <2>4 DEF HoldDecide, PipelineTypeOK
    <3> QED
      BY <1>a, <2>1, <3>1
  <2>5. CASE HoldClockStart(w)
    BY <1>a, <1>b, <2>1, <2>5 DEF HoldClockStart
  <2>6. CASE HoldPending(w)
    BY <1>a, <1>b, <2>1, <2>6 DEF HoldPending
  <2>7. CASE HoldRelease(w)
    BY <1>a, <1>b, <2>1, <2>7 DEF HoldRelease
  <2> QED
    BY <1>2, <2>2, <2>3, <2>4, <2>5, <2>6, <2>7 DEF RebuildHeld
<1>3. CASE Owe(w) \/ Regroup(w)
  <2>1. \A to \in {"owed", "scripts", "ids", "classified", "saved"} : to \notin Resetting
    BY DEF Resetting
  <2> QED
    BY <1>3, <1>a, <1>b, <2>1 DEF Owe, Regroup, RegroupEdits, RegroupScripts, RegroupIDs, Save, Abandon
<1>4. CASE FinishTick(w) \/ FailTick(w) \/ Crash(w) \/ Restart(w)
  BY <1>4, <1>b DEF FinishTick, FailTick, Crash, Restart, Forget, Abandon
<1> QED
  BY <1>1, <1>2, <1>3, <1>4

LEMMA PlainLease ==
  ASSUME NEW w \in Worker, PlainStep(w), NEW v \in Worker \ {w}, Live(v)
  PROVE  Live(v)'
<1>1. holder = v /\ ~lapsed /\ holder # w /\ holder # NoOwner
  BY Constants DEF Live
<1>2. CASE Acquire(w)
  BY <1>1, <1>2 DEF Acquire, Available, Take, leaseVars, Live
<1>3. CASE Renew(w)
  BY <1>1, <1>3 DEF Renew, Live, leaseVars
<1>4. CASE Crash(w) \/ Restart(w)
  BY <1>1, <1>4 DEF Crash, Restart, Live, leaseVars
<1>5. CASE ~(Acquire(w) \/ Renew(w) \/ Crash(w) \/ Restart(w))
  <2>1. UNCHANGED leaseVars
    BY <1>5 DEF PlainStep, BeginTick, CheckVersion, ResetCarry, RebuildHeld, ReadEpoch,
       HoldMark, HoldMeasure, HoldCursor, HoldDecide, HoldClockStart, HoldPending, HoldRelease, Owe,
       Regroup, RegroupEdits, RegroupScripts, RegroupIDs, Save, FinishTick, FailTick
  <2> QED
    BY <1>1, <2>1 DEF leaseVars, Live
<1> QED
  BY <1>2, <1>3, <1>4, <1>5

LEMMA PlainRecord ==
  ASSUME PipelineTypeOK, RecordInv, NEW w \in Worker, PlainStep(w)
  PROVE  RecordInv'
<1>1. UNCHANGED <<events, lastID, cursor, lines, version, crossed>>
  BY PlainUnchanged
<1>2. MovesOn(w)
  BY PlainMoves
<1>3. \A v \in Worker \ {w} : pc'[v] = pc[v] /\ mem'[v] = mem[v] /\ (Live(v) => Live(v)')
  BY <1>2, PlainLease DEF MovesOn, PipelineTypeOK
<1>4. pc'[w] \in Stage \ Special
  BY <1>2 DEF MovesOn, PipelineTypeOK
<1>5. /\ pc'[w] \in Resetting => Live(w)'
      /\ pc'[w] \in Resetting \ {"check"} => version # VersionOf[w]
      /\ pc'[w] # "stamp"
  <2>1. CASE BeginTick(w)
    <3>1. UNCHANGED leaseVars
      BY <2>1 DEF BeginTick
    <3>2. (Live(w) /\ pc'[w] \in {"scan", "check"}) \/ pc'[w] = "acquire"
      BY <2>1 DEF BeginTick, Goto, PipelineTypeOK
    <3> QED
      BY <3>1, <3>2 DEF Resetting, Live, leaseVars
  <2>2. CASE Acquire(w)
    <3>1. (holder' = w /\ ~lapsed' /\ pc'[w] \in {"scan", "check"}) \/ pc'[w] = "idle"
      BY <2>2 DEF Acquire, Take, End, Goto, PipelineTypeOK
    <3> QED
      BY <3>1 DEF Resetting, Live
  <2>3. CASE CheckVersion(w) \/ ResetCarry(w)
    <3>1. UNCHANGED leaseVars /\ pc[w] \in {"check", "carry"} /\ pc'[w] \in {"scan", "carry", "rows"}
      BY <2>3 DEF CheckVersion, ResetCarry, Goto, PipelineTypeOK
    <3>2. pc'[w] # "scan" => version # VersionOf[w]
      BY <2>3 DEF CheckVersion, ResetCarry, Goto, PipelineTypeOK, RecordInv, ResetInv, Resetting
    <3>3. Live(w)
      BY <3>1 DEF RecordInv, ResetInv, Resetting
    <3> QED
      BY <3>1, <3>2, <3>3 DEF Resetting, Live, leaseVars
  <2>4. CASE ~(BeginTick(w) \/ Acquire(w) \/ CheckVersion(w) \/ ResetCarry(w))
    BY <2>4, OnwardMoves DEF PlainStep, Resetting
  <2> QED
    BY <2>1, <2>2, <2>3, <2>4
<1>6. ResetInv(w)'
  BY <1>1, <1>4, <1>5 DEF ResetInv, Special
<1> QED
  BY <1>1, <1>3, <1>6, QuietRecord

LEMMA WriteLease ==
  ASSUME NEW w \in Worker, WriteStep(w)
  PROVE  UNCHANGED leaseVars
BY DEF WriteStep, ResetRows, ResetLines, ResetStamp, RecordScan, RecordWrite, SettleList, SettleCompute, SettleCommit

(* Only the holder of a lease that has not run out resets. *)
LEMMA OneResets ==
  ASSUME RecordInv, NEW v \in Worker, NEW w \in Worker, pc[v] \in Resetting, pc[w] \in Resetting
  PROVE  v = w
BY DEF RecordInv, ResetInv, Live

LEMMA QuietWrites ==
  ASSUME PipelineTypeOK, SettleInv, RecordInv, NEW w \in Worker,
         ResetRows(w) \/ RecordScan(w) \/ SettleList(w) \/ SettleCompute(w) \/ SettleCommit(w)
  PROVE  RecordInv'
<1>1. UNCHANGED <<events, lastID, cursor, lines, version, crossed, holder, lapsed>>
  BY DEF ResetRows, RecordScan, SettleList, SettleCompute, SettleCommit, database, log, recorder, history, leaseVars
<1>2. \A v \in Worker \ {w} : pc'[v] = pc[v] /\ mem'[v] = mem[v] /\ (Live(v) => Live(v)')
  BY <1>1 DEF ResetRows, RecordScan, SettleList, SettleCompute, SettleCommit, Recorded, Goto, Recall, Live, PipelineTypeOK
<1>3. CASE ResetRows(w)
  <2>1. pc[w] = "rows" /\ pc'[w] \in {"rows", "lines"}
    BY <1>3 DEF ResetRows, Goto, PipelineTypeOK
  <2>2. ResetInv(w)
    BY DEF RecordInv
  <2>3. ResetInv(w)'
    BY <1>1, <2>1, <2>2 DEF ResetInv, Live, Resetting
  <2> QED
    BY <1>1, <1>2, <2>3, QuietRecord
<1>4. CASE RecordScan(w)
  <2>1. pc'[w] \in {"recorded", "write"}
    BY <1>4 DEF RecordScan, Recorded, Goto, PipelineTypeOK
  <2>2. MaxID <= lastID
    BY MaxIDTyped DEF RecordInv, PipelineTypeOK
  <2>3. pc'[w] = "write" => mem'[w].end <= MaxID /\ mem'[w].end \in Nat
    BY <1>4, RecordScanKeeps
  <2>4. pc'[w] = "write" => mem'[w].end <= lastID
    BY <2>2, <2>3, MaxIDTyped DEF PipelineTypeOK
  <2>5. ResetInv(w)'
    BY <1>1, <2>1, <2>4 DEF ResetInv, Resetting
  <2> QED
    BY <1>1, <1>2, <2>5, QuietRecord
<1>5. CASE SettleList(w) \/ SettleCompute(w) \/ SettleCommit(w)
  <2>1. pc'[w] \in {"epoch", "compute", "commit"}
    BY <1>5 DEF SettleList, SettleCompute, SettleCommit, Goto, PipelineTypeOK
  <2>2. ResetInv(w)'
    BY <2>1 DEF ResetInv, Resetting
  <2> QED
    BY <1>1, <1>2, <2>2, QuietRecord
<1> QED
  BY <1>3, <1>4, <1>5

LEMMA ResetLinesRecord ==
  ASSUME PipelineTypeOK, RecordInv, NEW w \in Worker, ResetLines(w)
  PROVE  RecordInv'
<1>1. UNCHANGED <<events, lastID, cursor, version, crossed, holder, lapsed>> /\ pc[w] = "lines"
  BY DEF ResetLines, log, history, leaseVars
<1>2. \A v \in Worker \ {w} : pc'[v] = pc[v] /\ mem'[v] = mem[v]
  BY DEF ResetLines, Goto, Recall, PipelineTypeOK
<1>3. pc'[w] = "lines" \/ (pc'[w] = "stamp" /\ lines' = {})
  BY <1>1 DEF ResetLines, Goto, PipelineTypeOK
<1>4. version # VersionOf[w] /\ Live(w)
  BY <1>1 DEF RecordInv, ResetInv, Resetting
<1>5. ASSUME NEW v \in Worker PROVE ResetInv(v)'
  <2>1. CASE v = w
    BY <1>1, <1>3, <1>4, <2>1 DEF ResetInv, Live
  <2>2. CASE v # w
    <3>1. ResetInv(v) /\ pc'[v] = pc[v] /\ mem'[v] = mem[v]
      BY <1>2, <2>2 DEF RecordInv
    <3>2. pc[v] \notin Resetting
      BY <1>1, <2>2, OneResets DEF Resetting
    <3> QED
      BY <1>1, <3>1, <3>2 DEF ResetInv, Resetting
  <2> QED
    BY <2>1, <2>2
<1>6. RecorderExact'
  BY <1>1, <1>4 DEF RecorderExact
<1> QED
  BY <1>1, <1>5, <1>6 DEF RecordInv

LEMMA ResetStampRecord ==
  ASSUME PipelineTypeOK, RecordInv, NEW w \in Worker, ResetStamp(w)
  PROVE  RecordInv'
<1>1. /\ UNCHANGED <<events, lastID, lines, crossed, holder, lapsed>> /\ pc[w] = "stamp"
      /\ cursor' = 0 /\ version' = VersionOf[w]
  BY DEF ResetStamp, log, history, leaseVars
<1>2. pc'[w] = "scan" /\ \A v \in Worker \ {w} : pc'[v] = pc[v] /\ mem'[v] = mem[v]
  BY DEF ResetStamp, Goto, Recall, PipelineTypeOK
<1>3. ASSUME NEW v \in Worker PROVE ResetInv(v)'
  <2>1. CASE v = w
    BY <1>2, <2>1 DEF ResetInv, Resetting
  <2>2. CASE v # w
    <3>1. ResetInv(v) /\ pc'[v] = pc[v] /\ mem'[v] = mem[v]
      BY <1>2, <2>2 DEF RecordInv
    <3>2. pc[v] \notin Resetting
      BY <1>1, <2>2, OneResets DEF Resetting
    <3> QED
      BY <1>1, <3>1, <3>2 DEF ResetInv, Resetting
  <2> QED
    BY <2>1, <2>2
<1>4. RecorderExact'
  <2>1. ~crossed => lines = {}
    BY <1>1 DEF RecordInv, ResetInv
  <2>2. \A e \in events : ~(e.id <= 0)
    BY DEF PipelineTypeOK, Command
  <2> QED
    BY <1>1, <2>1, <2>2 DEF RecorderExact
<1>5. cursor' <= lastID'
  BY <1>1 DEF PipelineTypeOK
<1> QED
  BY <1>1, <1>3, <1>4, <1>5 DEF RecordInv

(* The window carries the lines from one cursor to the next: below the old  *)
(* one nothing is missing, so every event it scans is new.                  *)
LEMMA WindowExact ==
  ASSUME PipelineTypeOK, NEW w \in Worker, NEW end \in Nat, end >= cursor,
         mem[w].cursor = cursor, mem[w].end = end,
         lines = {Line(e, VersionOf[w]) : e \in {f \in events : f.id <= cursor}}
  PROVE  lines \cup NewLines(w) = {Line(e, VersionOf[w]) : e \in {f \in events : f.id <= end}}
<1>1. \A e \in events : e.id \in Nat
  BY DEF PipelineTypeOK, Command
<1>2. cursor \in Nat
  BY DEF PipelineTypeOK
<1>3. \A l \in lines : l.id <= cursor
  BY DEF Line
<1>4. {f \in Scanned(w) : \A l \in lines : l.id # f.id} = {f \in events : f.id > cursor /\ f.id <= end}
  BY <1>1, <1>2, <1>3 DEF Scanned
<1>5. {f \in events : f.id <= end}
        = {f \in events : f.id <= cursor} \cup {f \in events : f.id > cursor /\ f.id <= end}
  BY <1>1, <1>2
<1> QED
  BY <1>4, <1>5 DEF NewLines

LEMMA RecordWriteRecord ==
  ASSUME PipelineTypeOK, SettleInv, RecordInv, NEW w \in Worker, RecordWrite(w)
  PROVE  RecordInv'
<1>1. UNCHANGED <<events, lastID, version, holder, lapsed>> /\ pc[w] = "write"
  BY DEF RecordWrite, log, leaseVars
<1>2. pc'[w] \in {"recorded", "scan"} /\ \A v \in Worker \ {w} : pc'[v] = pc[v] /\ mem'[v] = mem[v]
  BY DEF RecordWrite, Recorded, Goto, Recall, PipelineTypeOK
<1>3. ResetInv(w)'
  BY <1>2 DEF ResetInv, Resetting
<1>4. CASE ~CursorUnmoved(w)
  <2>1. UNCHANGED <<lines, cursor, crossed>>
    BY <1>4 DEF RecordWrite
  <2>2. \A v \in Worker \ {w} : Live(v) => Live(v)'
    BY <1>1 DEF Live
  <2> QED
    BY <1>1, <1>2, <1>3, <2>1, <2>2, QuietRecord
<1>5. CASE CursorUnmoved(w)
  <2>1. /\ lines' = lines \cup NewLines(w) /\ cursor' = mem[w].end
        /\ crossed' = (crossed \/ (NewLines(w) # {} /\ \E v \in Worker : pc[v] = "stamp"))
    BY <1>5 DEF RecordWrite
  <2>2. mem[w].end \in Nat /\ mem[w].end > cursor /\ mem[w].cursor = cursor /\ mem[w].end <= lastID
    BY <1>1, <1>5 DEF PipelineTypeOK, SettleInv, TickInv, RecordInv, ResetInv, CursorUnmoved
  <2>3. ASSUME NEW v \in Worker PROVE ResetInv(v)'
    <3>1. CASE v = w
      BY <1>2, <3>1 DEF ResetInv, Resetting
    <3>2. CASE v # w
      <4>1. ResetInv(v) /\ pc'[v] = pc[v] /\ mem'[v] = mem[v]
        BY <1>2, <3>2 DEF RecordInv
      <4>2. pc[v] = "stamp" /\ ~crossed' => lines' = lines /\ ~crossed
        BY <2>1
      <4> QED
        BY <1>1, <4>1, <4>2 DEF ResetInv, Live
    <3> QED
      BY <3>1, <3>2
  <2>4. RecorderExact'
    <3>1. SUFFICES ASSUME ~crossed', \A v \in Worker : VersionOf[v] = version
                   PROVE  lines' = {Line(e, version) : e \in {f \in events : f.id <= mem[w].end}}
      BY <1>1, <2>1 DEF RecorderExact
    <3>2. ~crossed /\ VersionOf[w] = version
      BY <2>1, <3>1
    <3>3. lines = {Line(e, VersionOf[w]) : e \in {f \in events : f.id <= cursor}}
      BY <3>1, <3>2 DEF RecordInv, RecorderExact
    <3>4. PICK end \in Nat : end = mem[w].end
      BY <2>2
    <3>5. cursor \in Nat /\ end >= cursor
      BY <2>2, <3>4 DEF PipelineTypeOK
    <3>6. lines \cup NewLines(w) = {Line(e, VersionOf[w]) : e \in {f \in events : f.id <= end}}
      BY <2>2, <3>3, <3>4, <3>5, WindowExact
    <3> QED
      BY <2>1, <3>2, <3>4, <3>6
  <2> QED
    BY <1>1, <2>1, <2>2, <2>3, <2>4 DEF RecordInv
<1> QED
  BY <1>4, <1>5

LEMMA AppendRecord ==
  ASSUME PipelineTypeOK, RecordInv, NEW t \in Session, Append(t)
  PROVE  RecordInv'
<1>1. UNCHANGED <<cursor, lines, version, crossed, holder, lapsed, pc, mem>>
  BY DEF Append, recorder, history, leaseVars
<1>2. PICK new : new = [id |-> lastID + 1, s |-> t, n |-> Commands(t) + 1]
  OBVIOUS
<1>3. new.id = lastID + 1 /\ events' = events \cup {new} /\ lastID' = lastID + 1
  BY <1>2 DEF Append
<1>4. \A e \in events : e.id \in Nat
  BY DEF PipelineTypeOK, Command
<1>5. lastID \in Nat /\ cursor \in Nat /\ cursor <= lastID
  BY DEF PipelineTypeOK, RecordInv
<1>6. cursor' <= lastID' /\ \A e \in events' : e.id <= lastID'
  BY <1>1, <1>3, <1>4, <1>5 DEF RecordInv
<1>7. ASSUME NEW w \in Worker PROVE ResetInv(w)'
  <2>1. ResetInv(w) /\ (pc[w] = "write" => mem[w].end \in Nat)
    BY DEF RecordInv, PipelineTypeOK
  <2> QED
    BY <1>1, <1>3, <1>5, <2>1 DEF ResetInv, Live
<1>8. RecorderExact'
  <2>1. {f \in events' : f.id <= cursor} = {f \in events : f.id <= cursor}
    BY <1>3, <1>5
  <2> QED
    BY <1>1, <2>1 DEF RecordInv, RecorderExact, Line
<1> QED
  BY <1>6, <1>7, <1>8 DEF RecordInv

LEMMA ReplaceRecord ==
  ASSUME PipelineTypeOK, RecordInv, Replace
  PROVE  RecordInv'
<1>1. /\ events' = Reinserted /\ lastID' = lastID + Cardinality(events) /\ lines' = {} /\ cursor' = lastID
      /\ UNCHANGED <<version, crossed, holder, lapsed, pc, mem>>
  BY DEF Replace, history, leaseVars
<1>2. lastID \in Nat /\ Cardinality(events) \in Nat
  BY ReinsertedTyped DEF PipelineTypeOK
<1>3. cursor' <= lastID' /\ \A e \in events' : e.id <= lastID'
  BY <1>1, <1>2, ReinsertedTyped
<1>4. ASSUME NEW w \in Worker PROVE ResetInv(w)'
  <2>1. ResetInv(w) /\ (pc[w] = "write" => mem[w].end \in Nat)
    BY DEF RecordInv, PipelineTypeOK
  <2> QED
    BY <1>1, <1>2, <2>1 DEF ResetInv, Live
<1>5. RecorderExact'
  <2>1. \A e \in events' : e.id > lastID /\ e.id \in Nat
    BY <1>1, ReinsertedTyped DEF Command
  <2>2. {f \in events' : f.id <= cursor'} = {}
    BY <1>1, <1>2, <2>1
  <2> QED
    BY <1>1, <2>2 DEF RecorderExact
<1> QED
  BY <1>3, <1>4, <1>5 DEF RecordInv

LEMMA OtherRecord ==
  ASSUME ~SlowReset, PipelineTypeOK, RecordInv, OtherStep
  PROVE  RecordInv'
<1>1. CASE \E s \in Session : Append(s)
  BY <1>1, AppendRecord
<1>2. CASE Replace
  BY <1>2, ReplaceRecord
<1>3. CASE ForceScriptRebuild
  <2>1. UNCHANGED <<events, lastID, cursor, lines, crossed, holder, lapsed, pc, mem>> /\ version' = 0
    BY <1>3 DEF ForceScriptRebuild, log, recorder, history, leaseVars
  <2>2. \A w \in Worker : VersionOf[w] # 0
    BY Constants
  <2>3. ASSUME NEW w \in Worker PROVE ResetInv(w)'
    BY <2>1, <2>2 DEF RecordInv, ResetInv, Live
  <2>4. RecorderExact'
    BY <2>1, <2>2, Constants DEF RecorderExact
  <2> QED
    BY <2>1, <2>3, <2>4 DEF RecordInv
<1>4. CASE DeadLapse \/ \E w \in Worker : Stall(w)
  <2>1. UNCHANGED <<events, lastID, cursor, lines, crossed, version, pc, mem>>
    BY <1>4 DEF DeadLapse, Stall, database, log, recorder, history
  <2>2. \A v \in Worker : pc[v] \in Resetting => holder # v
    BY <1>4, Constants DEF DeadLapse, Stall, RecordInv, ResetInv, Live
  <2>3. ASSUME NEW v \in Worker PROVE ResetInv(v)' /\ pc[v] \notin Resetting
    BY <2>1, <2>2 DEF RecordInv, ResetInv, Live, Resetting
  <2>4. RecorderExact'
    BY <2>1 DEF RecordInv, RecorderExact, Line
  <2> QED
    BY <2>1, <2>3, <2>4 DEF RecordInv
<1>5. CASE (\E s \in Session : BecomeIdle(s)) \/ DeadlinePasses \/ \E w \in Worker : Edit(w)
  <2>1. UNCHANGED <<events, lastID, cursor, lines, crossed, version, pc, mem, holder, lapsed>>
    BY <1>5 DEF BecomeIdle, DeadlinePasses, Edit, database, log, recorder, history, leaseVars
  <2>2. ASSUME NEW v \in Worker PROVE ResetInv(v)'
    BY <2>1 DEF RecordInv, ResetInv, Live
  <2>3. RecorderExact'
    BY <2>1 DEF RecordInv, RecorderExact, Line
  <2> QED
    BY <2>1, <2>2, <2>3 DEF RecordInv
<1> QED
  BY <1>1, <1>2, <1>3, <1>4, <1>5 DEF OtherStep

LEMMA RecordInit ==
  ASSUME Init
  PROVE  RecordInv
<1>1. left.old \in SUBSET Command /\ IsFiniteSet(left.old)
  BY EventsAssumption DEF Init, Command
<1>2. /\ cursor = lastID /\ events = left.old /\ lastID = LastOf(left.old) /\ version = OldVersion
      /\ pc = [w \in Worker |-> "idle"] /\ lines = {Line(e, OldVersion) : e \in left.old}
  BY DEF Init
<1>3. lastID \in Nat /\ \A e \in events : e.id <= lastID
  BY <1>1, <1>2, LastTyped
<1>4. \A w \in Worker : ResetInv(w)
  BY <1>2 DEF ResetInv, Resetting
<1>5. RecorderExact
  <2>1. {f \in events : f.id <= cursor} = left.old
    BY <1>2, <1>3
  <2> QED
    BY <1>2, <2>1 DEF RecorderExact
<1> QED
  BY <1>2, <1>3, <1>4, <1>5 DEF RecordInv

LEMMA RecordStep ==
  ASSUME ~SlowReset, PipelineTypeOK, SettleInv, RecordInv, [Next]_vars
  PROVE  RecordInv'
<1>1. CASE OtherStep
  BY <1>1, OtherRecord
<1>2. CASE \E w \in Worker : PlainStep(w)
  BY <1>2, PlainRecord
<1>3. CASE \E w \in Worker : WriteStep(w)
  BY <1>3, QuietWrites, ResetLinesRecord, ResetStampRecord, RecordWriteRecord DEF WriteStep
<1>4. CASE UNCHANGED vars
  <2>1. UNCHANGED <<events, lastID, cursor, lines, crossed, version, pc, mem, holder, lapsed>>
    BY <1>4 DEF vars, database, log, recorder, history, leaseVars
  <2>2. ASSUME NEW v \in Worker PROVE ResetInv(v)'
    BY <2>1 DEF RecordInv, ResetInv, Live
  <2>3. RecorderExact'
    BY <2>1 DEF RecordInv, RecorderExact, Line
  <2> QED
    BY <2>1, <2>2, <2>3 DEF RecordInv
<1> QED
  BY <1>1, <1>2, <1>3, <1>4, Steps

(* Behind the cursor every command has its line, and nothing else has one,  *)
(* while no version reset outlasts the lease it began under.                *)
THEOREM RecorderIsExact == ~SlowReset /\ Spec => []RecorderExact
<1> SUFFICES ASSUME ~SlowReset PROVE Spec => []RecorderExact
  OBVIOUS
<1>1. Init => PipelineTypeOK /\ SettleInv /\ RecordInv
  BY SettleInit, RecordInit
<1>2. PipelineTypeOK /\ SettleInv /\ RecordInv /\ [Next]_vars => (PipelineTypeOK /\ SettleInv /\ RecordInv)'
  BY SettleStep, RecordStep
<1>3. RecordInv => RecorderExact
  BY DEF RecordInv
<1> QED
  BY <1>1, <1>2, <1>3, PTL DEF Spec
=============================================================================
