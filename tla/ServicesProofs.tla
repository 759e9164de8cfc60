---------------------------- MODULE ServicesProofs ----------------------------
(* Proofs about AbuseReports, BackupBundle, CowrieIngest, ScriptFamilies.   *)
(*                                                                          *)
(* For any addresses, striping, requests, window and mishaps, an address    *)
(* with a fresh row is never reported.  For any evidence, failures, crashes *)
(* and damage, an output of backup or restore without its marker is whole,  *)
(* and one that was reported stays.  For any log and scenarios, where one   *)
(* process reads, no line is stored twice, totals agree with the events,    *)
(* and the next pass leaves out no line.  For any workers, sessions and     *)
(* scripts, families, settled sessions and the view agree.                  *)
EXTENDS AbuseReports, BackupBundle, CowrieIngest, ScriptFamilies, FiniteOrder, SequenceTheorems, TLAPS

-----------------------------------------------------------------------------
(* Reports to AbuseIPDB *)

(* A request past its gate holds the gate of its address ... *)
Inside(c) == call[c].at \in {"check", "send", "record"}
Gated == \A c \in Caller : Inside(c) => gateHolder[Stripe[call[c].ip]] = c

(* ... and what the ledger said when it looked is still so when it sends. *)
StillClear == \A c \in Caller : call[c].at = "send" => ~WithinWindow(call[c].ip)

Call == [at : {"idle", "target", "check", "send", "record"}, ip : Address \cup {Nobody},
         rest : Seq(Address)]

AbuseTypeOK ==
  /\ clock \in Int
  /\ ledgerRow \in [Address -> Int]
  /\ gateHolder \in [Gates -> Caller \cup {Nobody}]
  /\ call \in [Caller -> Call]
  /\ \A c \in Caller : call[c].at # "idle" => call[c].ip \in Address

AbuseInv == AbuseTypeOK /\ Gated /\ StillClear /\ OneReportPerWindow

-----------------------------------------------------------------------------
(* A batch's ranking is a sequence of addresses, and not empty. *)
LEMMA RankingTyped ==
  ASSUME NEW targets \in Ranking
  PROVE  targets \in Seq(Address) /\ targets # <<>> /\ Head(targets) \in Address
         /\ Tail(targets) \in Seq(Address)
<1>1. PICK n \in 1..Cardinality(Address) : targets \in [1..n -> Address]
  BY DEF Ranking
<1>2. n \in Nat /\ n > 0
  BY <1>1
<1>3. targets \in Seq(Address) /\ Len(targets) = n
  BY <1>1, <1>2
<1> QED
  BY <1>2, <1>3, HeadTailProperties

(* Letting a gate go keeps every other request's. *)
LEMMA FreeGateKeeps ==
  ASSUME AbuseInv, NEW c \in Caller, FreeGate(c)
  PROVE  /\ gateHolder' \in [Gates -> Caller \cup {Nobody}]
         /\ \A d \in Caller \ {c} : Inside(d) => gateHolder'[Stripe[call[d].ip]] = d
BY DEF AbuseInv, AbuseTypeOK, Gated, Inside, FreeGate, Gates, Call

(* A request that is through with its address, or goes on to its next one, *)
(* leaves the gates and the ledger's answers of all others as they were.   *)
LEMMA ThroughKeeps ==
  ASSUME AbuseInv, NEW c \in Caller, Returns(c) \/ NextTarget(c),
         UNCHANGED <<clock, repeated>>,
         \/ UNCHANGED ledgerRow
         \/ call[c].at = "record" /\ ledgerRow' = [ledgerRow EXCEPT ![call[c].ip] = clock]
  PROVE  AbuseInv'
<1>1. FreeGate(c)
  BY DEF Returns, NextTarget
<1>2. PICK next \in Call :
        /\ call' = [call EXCEPT ![c] = next]
        /\ next.at \in {"idle", "target"} /\ (next.at # "idle" => next.ip \in Address)
  <2>1. CASE Returns(c)
    <3>1. Rest \in Call /\ Rest.at = "idle"
      BY DEF Rest, Call
    <3>2. call' = [call EXCEPT ![c] = Rest]
      BY <2>1 DEF Returns
    <3> QED
      BY <3>1, <3>2
  <2>2. CASE ~Returns(c)
    <3>1. call[c].rest # <<>> /\ call[c].rest \in Seq(Address)
      BY <2>2 DEF NextTarget, AbuseInv, AbuseTypeOK, Call
    <3>2. Head(call[c].rest) \in Address /\ Tail(call[c].rest) \in Seq(Address)
      BY <3>1, HeadTailProperties
    <3> DEFINE onward == [at |-> "target", ip |-> Head(call[c].rest), rest |-> Tail(call[c].rest)]
    <3>3. onward \in Call /\ onward.at = "target" /\ onward.ip \in Address
      BY <3>2 DEF Call
    <3>4. call' = [call EXCEPT ![c] = onward]
      BY <2>2, <3>1 DEF NextTarget
    <3> HIDE DEF onward
    <3> QED
      BY <3>3, <3>4
  <2> QED
    BY <2>1, <2>2
<1>3. ledgerRow' \in [Address -> Int]
  BY DEF AbuseInv, AbuseTypeOK
<1>4. AbuseTypeOK'
  BY <1>1, <1>2, <1>3, FreeGateKeeps DEF AbuseInv, AbuseTypeOK
<1>5. Gated'
  BY <1>1, <1>2, FreeGateKeeps DEF AbuseInv, AbuseTypeOK, Gated, Inside
<1>6. StillClear'
  <2>1. SUFFICES ASSUME NEW d \in Caller, call'[d].at = "send"
                 PROVE  ~WithinWindow(call[d].ip)'
    BY DEF StillClear
  <2>2. d # c /\ call'[d] = call[d]
    BY <1>2, <2>1 DEF AbuseInv, AbuseTypeOK
  <2>3. ~WithinWindow(call[d].ip)
    BY <2>1, <2>2 DEF AbuseInv, StillClear
  <2>4. CASE UNCHANGED ledgerRow
    BY <2>2, <2>3, <2>4 DEF WithinWindow
  <2>5. CASE call[c].at = "record" /\ ledgerRow' = [ledgerRow EXCEPT ![call[c].ip] = clock]
    <3>1. call[d].ip # call[c].ip
      BY <2>1, <2>2, <2>5 DEF AbuseInv, Gated, Inside
    <3> QED
      BY <2>1, <2>2, <2>3, <2>5, <3>1 DEF WithinWindow, AbuseInv, AbuseTypeOK
  <2> QED
    BY <2>4, <2>5
<1> QED
  BY <1>4, <1>5, <1>6 DEF AbuseInv, OneReportPerWindow

-----------------------------------------------------------------------------
(* Each step of a request keeps the invariant. *)

LEMMA AcquireTargetKeeps ==
  ASSUME AbuseInv, NEW c \in Caller, AcquireTarget(c)
  PROVE  AbuseInv'
<1>1. CASE Returns(c)
  BY <1>1, ThroughKeeps DEF AcquireTarget
<1>2. CASE /\ GateFree(c, Stripe[call[c].ip])
           /\ gateHolder' = [gateHolder EXCEPT ![Stripe[call[c].ip]] = c]
           /\ Moves(c, "check")
  <2>1. call[c].ip \in Address /\ Stripe[call[c].ip] \in Gates
    BY DEF AcquireTarget, AbuseInv, AbuseTypeOK, Gates
  <2>2. call' = [call EXCEPT ![c].at = "check"] /\ call' \in [Caller -> Call]
    BY <1>2 DEF Moves, AbuseInv, AbuseTypeOK, Call
  <2>3. AbuseTypeOK'
    BY <1>2, <2>1, <2>2 DEF AcquireTarget, AbuseInv, AbuseTypeOK, Call
  <2>4. Gated'
    <3>1. SUFFICES ASSUME NEW d \in Caller, Inside(d)'
                   PROVE  gateHolder'[Stripe[call'[d].ip]] = d
      BY DEF Gated
    <3>2. CASE d = c
      BY <1>2, <2>1, <2>2, <3>2 DEF AbuseInv, AbuseTypeOK, Call
    <3>3. CASE d # c
      <4>1. call'[d] = call[d] /\ gateHolder[Stripe[call[d].ip]] = d
        BY <2>2, <3>1, <3>3 DEF AbuseInv, AbuseTypeOK, Gated, Inside
      <4>2. Stripe[call[d].ip] # Stripe[call[c].ip]
        BY <1>2, <4>1, CallerAssumption DEF GateFree
      <4> QED
        BY <1>2, <4>1, <4>2 DEF AbuseInv, AbuseTypeOK
    <3> QED
      BY <3>2, <3>3
  <2>5. StillClear'
    BY <2>2 DEF AcquireTarget, AbuseInv, AbuseTypeOK, StillClear, WithinWindow
  <2> QED
    BY <2>3, <2>4, <2>5 DEF AcquireTarget, AbuseInv, OneReportPerWindow
<1> QED
  BY <1>1, <1>2 DEF AcquireTarget

(* A request that only moves on inside its gate. *)
LEMMA MovesKeeps ==
  ASSUME AbuseInv, NEW c \in Caller, NEW to \in {"send", "record"}, Inside(c), Moves(c, to),
         UNCHANGED <<clock, ledgerRow, gateHolder>>, repeated' = {},
         to = "send" => ~WithinWindow(call[c].ip)
  PROVE  AbuseInv'
<1>1. call' = [call EXCEPT ![c].at = to] /\ call' \in [Caller -> Call]
  BY DEF Moves, AbuseInv, AbuseTypeOK, Call
<1>2. \A d \in Caller : call'[d].ip = call[d].ip /\ (d # c => call'[d] = call[d])
  BY <1>1 DEF AbuseInv, AbuseTypeOK, Call
<1>3. AbuseTypeOK' /\ Gated'
  BY <1>1, <1>2 DEF AbuseInv, AbuseTypeOK, Gated, Inside
<1>4. StillClear'
  BY <1>1, <1>2 DEF AbuseInv, AbuseTypeOK, StillClear, WithinWindow
<1> QED
  BY <1>3, <1>4 DEF AbuseInv, OneReportPerWindow

LEMMA CheckTargetKeeps ==
  ASSUME AbuseInv, NEW c \in Caller, CheckTarget(c)
  PROVE  AbuseInv'
<1>1. CASE ~WithinWindow(call[c].ip) /\ Moves(c, "send") /\ UNCHANGED <<gateHolder, lane, mishaps>>
  BY <1>1, MovesKeeps DEF CheckTarget, Inside, AbuseInv, OneReportPerWindow
<1>2. CASE NextTarget(c)
  BY <1>2, ThroughKeeps DEF CheckTarget
<1> QED
  BY <1>1, <1>2 DEF CheckTarget

(* What is sent is clear of the window: the report repeats nothing. *)
LEMMA SubmitReportKeeps ==
  ASSUME AbuseInv, NEW c \in Caller, SubmitReport(c)
  PROVE  AbuseInv'
<1>1. CASE Accepted(c)
  <2>1. ~WithinWindow(call[c].ip) /\ call[c].ip \in Address
    BY DEF SubmitReport, AbuseInv, StillClear, AbuseTypeOK
  <2>2. ~(ledgerRow[call[c].ip] >= 0 /\ clock - ledgerRow[call[c].ip] <= Window)
    BY <2>1, WindowAssumption DEF WithinWindow, AbuseInv, AbuseTypeOK
  <2>3. repeated' = {}
    BY <1>1, <2>2 DEF Accepted, AbuseInv, OneReportPerWindow
  <2> QED
    BY <1>1, <2>3, MovesKeeps DEF Accepted, SubmitReport, Inside
<1>2. CASE UNCHANGED repeated /\ (NextTarget(c) \/ Returns(c))
  BY <1>2, ThroughKeeps DEF SubmitReport
<1> QED
  BY <1>1, <1>2 DEF SubmitReport

LEMMA RecordReportKeeps ==
  ASSUME AbuseInv, NEW c \in Caller, RecordReport(c)
  PROVE  AbuseInv'
BY ThroughKeeps DEF RecordReport

(* A request enters at its target, outside every gate. *)
LEMMA EntryKeeps ==
  ASSUME AbuseInv, NEW c \in Caller, NEW a \in Address, NEW rest \in Seq(Address),
         call' = [call EXCEPT ![c] = [at |-> "target", ip |-> a, rest |-> rest]],
         UNCHANGED <<clock, ledgerRow, gateHolder, repeated>>
  PROVE  AbuseInv'
<1>1. [at |-> "target", ip |-> a, rest |-> rest] \in Call
  BY DEF Call
<1>2. AbuseTypeOK'
  BY <1>1 DEF AbuseInv, AbuseTypeOK
<1>3. Gated' /\ StillClear'
  BY <1>1 DEF AbuseInv, AbuseTypeOK, Gated, StillClear, Inside, WithinWindow
<1> QED
  BY <1>2, <1>3 DEF AbuseInv, OneReportPerWindow

-----------------------------------------------------------------------------
(* However the buttons are pressed together, no address is reported again  *)
(* within the window of its row (web/api_intel.go, report.go).             *)
THEOREM ReportsAreNotRepeated == AbuseSpec => []OneReportPerWindow
<1>1. AbuseInit => AbuseInv
  <2>1. SUFFICES ASSUME AbuseInit PROVE AbuseInv
    OBVIOUS
  <2>2. Rest \in Call /\ Rest.at = "idle"
    BY DEF Rest, Call
  <2>3. AbuseTypeOK
    BY <2>1, <2>2 DEF AbuseInit, AbuseTypeOK
  <2> QED
    BY <2>1, <2>2, <2>3 DEF AbuseInit, AbuseInv, Gated, StillClear, Inside, OneReportPerWindow
<1>2. AbuseInv /\ [AbuseNext]_abuseVars => AbuseInv'
  <2>1. SUFFICES ASSUME AbuseInv, [AbuseNext]_abuseVars PROVE AbuseInv'
    OBVIOUS
  <2>2. CASE UNCHANGED abuseVars
    BY <2>1, <2>2 DEF abuseVars, AbuseInv, AbuseTypeOK, Gated, StillClear, OneReportPerWindow,
                      Inside, WithinWindow
  <2>3. CASE ClockTicks
    <3>1. AbuseTypeOK' /\ Gated'
      BY <2>1, <2>3 DEF ClockTicks, AbuseInv, AbuseTypeOK, Gated, Inside
    <3>2. StillClear'
      BY <2>1, <2>3, WindowAssumption
      DEF ClockTicks, AbuseInv, AbuseTypeOK, StillClear, WithinWindow
    <3> QED
      BY <2>1, <2>3, <3>1, <3>2 DEF ClockTicks, AbuseInv, OneReportPerWindow
  <2>4. ASSUME NEW c \in Click, NEW a \in Address, PressOne(c, a) PROVE AbuseInv'
    BY <2>1, <2>4, EntryKeeps, EmptySeq DEF PressOne, Caller
  <2>5. ASSUME NEW c \in Batch, NEW targets \in Ranking, PressAll(c, targets) PROVE AbuseInv'
    BY <2>1, <2>5, EntryKeeps, RankingTyped DEF PressAll, Caller
  <2>6. ASSUME NEW c \in Caller, ReportStep(c) PROVE AbuseInv'
    BY <2>1, <2>6, AcquireTargetKeeps, CheckTargetKeeps, SubmitReportKeeps, RecordReportKeeps
    DEF ReportStep
  <2> QED
    BY <2>1, <2>2, <2>3, <2>4, <2>5, <2>6 DEF AbuseNext
<1>3. AbuseInv => OneReportPerWindow
  BY DEF AbuseInv
<1> QED
  BY <1>1, <1>2, <1>3, PTL DEF AbuseSpec

-----------------------------------------------------------------------------
(* Backup and restore *)

Place == {"none", "stage", "out"}
Content == {"good", "part", "bad", "absent"}
BackupTypeOK ==
  /\ place \in [Output -> Place] /\ placed \in [Output -> Place]
  /\ holds \in [Output -> [Files -> Content]] /\ durable \in [Output -> [Files -> Content]]
  /\ refs \in SUBSET Item /\ rowed \in SUBSET Item
  /\ active \in Output \cup {"none"} /\ at \in Early \cup {"parent", "unmark", "seal", "idle"}
  /\ active = "none" <=> at = "idle"
  /\ hand \in Files \cup {"none"}

(* What the directory being made holds by now, and durably so. *)
Fine(d, n) == holds[d][n] = "good" /\ durable[d][n] = "good"
StageInv ==
  /\ at \in Early => place[active] = "stage" /\ placed[active] = "stage"
  /\ at \in Early \ {"mark"} => Fine(active, "marker")
  /\ at \in {"snapshot", "plan"} => active = "bundle"
  /\ at = "remap" => active = "restored"
  /\ at \in {"parent", "unmark", "seal"} => place[active] = "out"
  /\ at \in {"unmark", "seal"} => placed[active] = "out"
  /\ at = "seal" => holds[active]["marker"] = "absent"
CopyInv ==
  /\ uncopied \subseteq Entries /\ (at \notin {"copy", "sync"} => uncopied = {})
  /\ hand = "none" <=> at # "sync"
  /\ active = "bundle" => "db" \notin uncopied /\ hand # "db"
  /\ at = "sync" => hand \in Entries /\ (hand # "db" => holds[active][hand] = "good")
  /\ at = "plan" => Fine(active, "db")
  /\ at \in {"copy", "sync", "remap"} =>
       \A n \in Entries : n \notin uncopied /\ n # hand /\ (active = "restored" => n # "db") => Fine(active, n)
  /\ at \in {"check", "manifest", "verify", "publish"} => \A n \in Entries : Fine(active, n)
  /\ at \in {"verify", "publish"} => Fine(active, "manifest")

(* What has been renamed to its output is whole, durable but for its       *)
(* marker, and marked until the rename is durable too.                     *)
Whole(d, n) == holds[d][n] = "good" \/ (d = "bundle" /\ n \in damaged)
Published(d) ==
  /\ placed[d] = "out" => place[d] = "out"
  /\ place[d] = "out" =>
       \A n \in Entries \cup {"manifest"} : holds[d][n] = durable[d][n] /\ Whole(d, n)
  /\ place[d] = "out" /\ placed[d] # "out" => Fine(d, "marker")

(* A bundle that was restored, or reported, is there to stay. *)
Lasting ==
  /\ success \in SUBSET Output
  /\ \A d \in success : /\ placed[d] = "out" /\ d # active
                        /\ holds[d]["marker"] = "absent" /\ durable[d]["marker"] = "absent"
  /\ active = "restored" \/ place["restored"] = "out" => placed["bundle"] = "out"

BackupInv == BackupTypeOK /\ StageInv /\ CopyInv /\ (\A d \in Output : Published(d)) /\ Lasting

-----------------------------------------------------------------------------
LEMMA Names ==
  /\ Item \cap {"db", "other", "manifest", "marker", "none"} = {}
  /\ \A n \in Item \cup {"db", "other"} : n \in Files /\ n \notin {"marker", "manifest", "none"}
  /\ "none" \notin Files /\ "none" \notin Output /\ {"db", "other", "manifest", "marker"} \subseteq Files
BY ItemAssumption DEF Files, Output

LEMMA EntriesAreFiles ==
  ASSUME BackupTypeOK
  PROVE  \A n \in Entries : n \in Files /\ n \notin {"marker", "manifest", "none"}
BY Names DEF BackupTypeOK, Entries

LEMMA Wrote ==
  ASSUME NEW h \in [Output -> [Files -> Content]], NEW d \in Output, NEW n \in Files, NEW c \in Content
  PROVE  /\ [h EXCEPT ![d][n] = c] \in [Output -> [Files -> Content]]
         /\ [h EXCEPT ![d][n] = c][d][n] = c
         /\ \A e \in Output, m \in Files : e # d \/ m # n => [h EXCEPT ![d][n] = c][e][m] = h[e][m]
OBVIOUS

LEMMA Relocated ==
  ASSUME NEW f \in [Output -> Place], NEW d \in Output, NEW p \in Place
  PROVE  /\ [f EXCEPT ![d] = p] \in [Output -> Place] /\ [f EXCEPT ![d] = p][d] = p
         /\ \A e \in Output : e # d => [f EXCEPT ![d] = p][e] = f[e]
OBVIOUS

LEMMA BackupStart == BackupInit => BackupInv
BY Names DEF BackupInit, BackupInv, BackupTypeOK, StageInv, CopyInv, Published, Lasting, Empty, Place,
   Content, Output, Early, Entries

-----------------------------------------------------------------------------
(* Steps that change nothing of the outputs *)

LEMMA DaemonInv ==
  ASSUME BackupInv, NEW i \in Item, Capture(i) \/ Retire(i)
  PROVE  BackupInv'
<1>1. UNCHANGED <<place, placed, holds, durable, refs, plan, active, at, uncopied, hand, success, damaged>>
  BY DEF Capture, Retire, diskVars, runVars
<1>2. rowed' \in SUBSET Item
  BY DEF Capture, Retire, BackupInv, BackupTypeOK
<1> QED
  BY <1>1, <1>2 DEF BackupInv, BackupTypeOK, StageInv, CopyInv, Published, Lasting, Entries, Fine, Whole

LEMMA BeginInv ==
  ASSUME BackupInv, NEW d \in Output, BeginOutput(d)
  PROVE  BackupInv'
<1> USE DEF BackupInv
<1>1. /\ at = "idle" /\ active = "none" /\ place[d] # "out" /\ placed[d] # "out" /\ active' = d /\ at' = "mark"
      /\ UNCHANGED <<rowed, refs, uncopied, hand, success, damaged>>
      /\ d = "restored" => Verified
  BY DEF BeginOutput, BackupTypeOK, Published, sourceVars
<1>2. /\ place' \in [Output -> Place] /\ placed' \in [Output -> Place]
      /\ place'[d] = "stage" /\ placed'[d] = "stage"
      /\ \A e \in Output : e # d => place'[e] = place[e] /\ placed'[e] = placed[e]
  BY Relocated DEF BeginOutput, BackupTypeOK, Place
<1>3. /\ holds' \in [Output -> [Files -> Content]] /\ durable' \in [Output -> [Files -> Content]]
      /\ \A e \in Output : e # d => holds'[e] = holds[e] /\ durable'[e] = durable[e]
  BY DEF BeginOutput, BackupTypeOK, Empty, Content
<1>4. BackupTypeOK'
  BY <1>1, <1>2, <1>3, Names DEF BackupTypeOK, Early
<1>5. StageInv' /\ CopyInv'
  BY <1>1, <1>2 DEF StageInv, CopyInv, Early, Entries
<1>6. ASSUME NEW e \in Output PROVE Published(e)'
  <2>1. CASE e = d
    BY <1>2, <2>1 DEF Published
  <2>2. CASE e # d
    BY <1>1, <1>2, <1>3, <2>2 DEF Published, Entries, Fine, Whole
  <2> QED
    BY <2>1, <2>2
<1>7. d \notin success
  BY <1>1 DEF Lasting
<1>8. d = "restored" => placed["bundle"] = "out"
  BY <1>1, Names DEF Verified, Published, Fine, Output
<1>9. d = "bundle" => place["restored"] # "out"
  BY <1>1 DEF Lasting
<1>10. "bundle" \in Output /\ "restored" \in Output /\ (d = "bundle" \/ d = "restored")
  BY DEF Output
<1>11. Lasting'
  BY <1>1, <1>2, <1>3, <1>7, <1>8, <1>9, <1>10 DEF Lasting
<1> QED
  BY <1>4, <1>5, <1>6, <1>11

-----------------------------------------------------------------------------
(* Steps in the staging directory *)

(* What is done to the staging directory leaves the outputs as they are. *)
LEMMA StagedStep ==
  ASSUME BackupInv, at \in Early, UNCHANGED <<place, placed, refs, active, success, damaged>>,
         \A e \in Output : e # active => holds'[e] = holds[e] /\ durable'[e] = durable[e]
  PROVE  /\ active \in Output /\ active # "none" /\ place[active] = "stage" /\ placed[active] = "stage"
         /\ (\A d \in Output : Published(d)') /\ Lasting'
<1> USE DEF BackupInv
<1>1. active \in Output /\ active # "none" /\ place[active] = "stage" /\ placed[active] = "stage"
  BY Names DEF BackupTypeOK, StageInv, Early
<1>2. ASSUME NEW d \in Output PROVE Published(d)'
  <2>1. CASE d = active
    BY <1>1, <2>1 DEF Published
  <2>2. CASE d # active
    BY <2>2 DEF Published, Entries, Fine, Whole
  <2> QED
    BY <2>1, <2>2
<1>3. Lasting'
  BY DEF Lasting, Output
<1> QED
  BY <1>1, <1>2, <1>3

(* One entry made durable. *)
LEMMA Secured ==
  ASSUME BackupInv, active \in Output, NEW n \in Files, NEW c \in Content, Secure(n, c)
  PROVE  /\ holds' \in [Output -> [Files -> Content]] /\ durable' \in [Output -> [Files -> Content]]
         /\ holds'[active][n] = c /\ durable'[active][n] = c
         /\ \A m \in Files : m # n => /\ holds'[active][m] = holds[active][m]
                                      /\ durable'[active][m] = durable[active][m]
         /\ \A e \in Output : e # active => holds'[e] = holds[e] /\ durable'[e] = durable[e]
<1>1. holds \in [Output -> [Files -> Content]] /\ durable \in [Output -> [Files -> Content]]
  BY DEF BackupInv, BackupTypeOK
<1>2. holds' = [holds EXCEPT ![active][n] = c] /\ durable' = [durable EXCEPT ![active][n] = c]
  BY DEF Secure
<1>3. \A e \in Output : e # active => holds'[e] = holds[e] /\ durable'[e] = durable[e]
  BY <1>1, <1>2
<1> QED
  BY <1>1, <1>2, <1>3, Wrote

LEMMA WriteMarkerInv == ASSUME BackupInv, WriteMarker PROVE BackupInv'
<1> USE DEF BackupInv
<1>1. /\ at = "mark" /\ at' = (IF active = "bundle" THEN "snapshot" ELSE "copy")
      /\ uncopied' = (IF active = "bundle" THEN {} ELSE Entries) /\ Secure("marker", "good")
      /\ UNCHANGED <<rowed, place, placed, refs, active, hand, success, damaged>>
  BY DEF WriteMarker, Step, sourceVars
<1>2. active \in Output /\ active # "none" /\ "marker" \in Files /\ "good" \in Content
  BY <1>1, Names DEF BackupTypeOK, Content
<1>3. /\ holds' \in [Output -> [Files -> Content]] /\ durable' \in [Output -> [Files -> Content]]
      /\ holds'[active]["marker"] = "good" /\ durable'[active]["marker"] = "good"
      /\ \A e \in Output : e # active => holds'[e] = holds[e] /\ durable'[e] = durable[e]
  BY <1>1, <1>2, Secured
<1>4. place[active] = "stage" /\ placed[active] = "stage" /\ (\A d \in Output : Published(d)') /\ Lasting'
  BY <1>1, <1>3, StagedStep DEF Early
<1>5. BackupTypeOK'
  BY <1>1, <1>2, <1>3 DEF BackupTypeOK, Early
<1>6. StageInv'
  BY <1>1, <1>2, <1>3, <1>4 DEF StageInv, Early, Fine
<1>7. CopyInv'
  BY <1>1, <1>2, Names, EntriesAreFiles DEF CopyInv, Entries, Output
<1> QED
  BY <1>4, <1>5, <1>6, <1>7

LEMMA SnapshotInv == ASSUME BackupInv, Snapshot PROVE BackupInv'
<1> USE DEF BackupInv
<1>1. /\ at = "snapshot" /\ at' = "plan" /\ refs' = rowed /\ Secure("db", "good")
      /\ UNCHANGED <<rowed, place, placed, active, uncopied, hand, success, damaged>>
  BY DEF Snapshot, Step, sourceVars
<1>2. active = "bundle" /\ active \in Output /\ active # "none" /\ "db" \in Files /\ "good" \in Content
  BY <1>1, Names DEF BackupTypeOK, Content, StageInv, Output
<1>3. /\ holds' \in [Output -> [Files -> Content]] /\ durable' \in [Output -> [Files -> Content]]
      /\ holds'[active]["db"] = "good" /\ durable'[active]["db"] = "good"
      /\ \A m \in Files : m # "db" => /\ holds'[active][m] = holds[active][m]
                                      /\ durable'[active][m] = durable[active][m]
      /\ \A e \in Output : e # active => holds'[e] = holds[e] /\ durable'[e] = durable[e]
  BY <1>1, <1>2, Secured
<1>4. place[active] = "stage" /\ placed[active] = "stage" /\ Fine(active, "marker")
  BY <1>1 DEF StageInv, Early
<1>5. place["restored"] # "out"
  BY <1>2, <1>4 DEF Lasting
<1>6. ASSUME NEW d \in Output PROVE Published(d)'
  BY <1>1, <1>2, <1>4, <1>5 DEF Published, Output
<1>7. Lasting'
  BY <1>1, <1>3 DEF Lasting, Output
<1>8. BackupTypeOK'
  BY <1>1, <1>2, <1>3 DEF BackupTypeOK, Early
<1>9. StageInv'
  BY <1>1, <1>2, <1>3, <1>4, Names DEF StageInv, Early, Fine
<1>10. uncopied = {} /\ hand = "none"
  BY <1>1 DEF CopyInv
<1>11. CopyInv'
  BY <1>1, <1>2, <1>3, <1>10, Names DEF CopyInv, Fine
<1> QED
  BY <1>6, <1>7, <1>8, <1>9, <1>11

LEMMA InventoryInv == ASSUME BackupInv, Inventory PROVE BackupInv'
<1> USE DEF BackupInv
<1>1. /\ at = "plan" /\ at' = "copy" /\ uncopied' = refs \cup {"other"}
      /\ UNCHANGED <<rowed, place, placed, holds, durable, refs, active, hand, success, damaged>>
  BY DEF Inventory, Step, sourceVars, diskVars
<1>2. /\ active = "bundle" /\ place[active] = "stage" /\ placed[active] = "stage"
      /\ (\A d \in Output : Published(d)') /\ Lasting'
  BY <1>1, StagedStep DEF Early, StageInv
<1>3. BackupTypeOK'
  BY <1>1 DEF BackupTypeOK, Early
<1>4. StageInv'
  BY <1>1, <1>2 DEF StageInv, Early, Fine
<1>5. Fine(active, "db") /\ hand = "none" /\ "db" \notin refs /\ "other" # "db"
  BY <1>1, Names DEF CopyInv, BackupTypeOK
<1>6. CopyInv'
  BY <1>1, <1>2, <1>5, Names DEF CopyInv, Entries, Fine
<1> QED
  BY <1>2, <1>3, <1>4, <1>6

LEMMA CopyEntryInv == ASSUME BackupInv, NEW n \in Files, CopyEntry(n) PROVE BackupInv'
<1> USE DEF BackupInv
<1>1. /\ n \in uncopied /\ Copyable(n) /\ at = "copy" /\ at' = "sync"
      /\ uncopied' = uncopied \ {n} /\ hand' = n
      /\ holds' = [holds EXCEPT ![active][n] = Contents(n)]
      /\ UNCHANGED <<rowed, place, placed, durable, refs, active, success, damaged>>
  BY DEF CopyEntry, Step, sourceVars
<1>2. /\ active \in Output /\ active # "none" /\ n \in Entries /\ n # "none" /\ n # "marker"
      /\ active = "bundle" => n # "db"
  BY <1>1, Names, EntriesAreFiles DEF BackupTypeOK, CopyInv
<1>3. Contents(n) \in Content /\ (n # "db" => Contents(n) = "good")
  BY <1>1, <1>2 DEF Contents, Copyable, Rehashed, Content
<1>4. holds \in [Output -> [Files -> Content]]
  BY DEF BackupTypeOK
<1>5. /\ holds' \in [Output -> [Files -> Content]] /\ holds'[active][n] = Contents(n)
      /\ \A m \in Files : m # n => holds'[active][m] = holds[active][m]
      /\ \A e \in Output : e # active => holds'[e] = holds[e]
  BY <1>1, <1>2, <1>3, <1>4, Wrote
<1>6. place[active] = "stage" /\ placed[active] = "stage" /\ (\A d \in Output : Published(d)') /\ Lasting'
  BY <1>1, <1>5, StagedStep DEF Early
<1>7. BackupTypeOK'
  BY <1>1, <1>2, <1>5 DEF BackupTypeOK, Early
<1>8. StageInv'
  BY <1>1, <1>2, <1>5, <1>6, Names DEF StageInv, Early, Fine
<1>9. \A m \in Entries : m # n /\ m \notin uncopied' /\ (active = "restored" => m # "db") => Fine(active, m)'
  BY <1>1, <1>5, EntriesAreFiles DEF CopyInv, Fine
<1>10. CopyInv'
  BY <1>1, <1>2, <1>3, <1>5, <1>9 DEF CopyInv, Entries
<1> QED
  BY <1>6, <1>7, <1>8, <1>10

LEMMA SyncEntryInv == ASSUME BackupInv, SyncEntry PROVE BackupInv'
<1> USE DEF BackupInv
<1>1. /\ at = "sync"
      /\ at' = (IF uncopied # {} THEN "copy" ELSE IF active = "bundle" THEN "manifest" ELSE "remap")
      /\ hand' = "none" /\ durable' = [durable EXCEPT ![active][hand] = holds[active][hand]]
      /\ UNCHANGED <<rowed, place, placed, holds, refs, active, uncopied, success, damaged>>
  BY DEF SyncEntry, Step, sourceVars
<1>2. /\ active \in Output /\ active # "none" /\ hand \in Entries /\ hand \in Files /\ hand # "marker"
      /\ active = "bundle" => hand # "db"
      /\ hand # "db" => holds[active][hand] = "good"
  BY <1>1, Names, EntriesAreFiles DEF BackupTypeOK, CopyInv
<1>3. durable \in [Output -> [Files -> Content]] /\ holds[active][hand] \in Content
  BY <1>2 DEF BackupTypeOK
<1>4. PICK c \in Content : c = holds[active][hand]
  BY <1>3
<1>5. /\ durable' \in [Output -> [Files -> Content]] /\ durable'[active][hand] = holds[active][hand]
      /\ \A m \in Files : m # hand => durable'[active][m] = durable[active][m]
      /\ \A e \in Output : e # active => durable'[e] = durable[e]
  BY <1>1, <1>2, <1>3, <1>4, Wrote
<1>6. place[active] = "stage" /\ placed[active] = "stage" /\ (\A d \in Output : Published(d)') /\ Lasting'
  BY <1>1, <1>5, StagedStep DEF Early
<1>7. BackupTypeOK'
  BY <1>1, <1>2, <1>5 DEF BackupTypeOK, Early
<1>8. StageInv'
  BY <1>1, <1>2, <1>5, <1>6, Names DEF StageInv, Early, Fine, Output
<1>9. \A m \in Entries : m \notin uncopied /\ (active = "restored" => m # "db") => Fine(active, m)'
  <2> SUFFICES ASSUME NEW m \in Entries, m \notin uncopied, active = "restored" => m # "db"
               PROVE  Fine(active, m)'
    OBVIOUS
  <2>1. CASE m = hand
    BY <1>1, <1>2, <1>5, <2>1 DEF Fine, Output
  <2>2. CASE m # hand
    BY <1>1, <1>5, <2>2, EntriesAreFiles DEF CopyInv, Fine
  <2> QED
    BY <2>1, <2>2
<1>10. CopyInv'
  BY <1>1, <1>2, <1>9, Names DEF CopyInv, Entries, Output
<1> QED
  BY <1>6, <1>7, <1>8, <1>10

LEMMA RemapInv == ASSUME BackupInv, Remap PROVE BackupInv'
<1> USE DEF BackupInv
<1>1. /\ at = "remap" /\ at' = "check" /\ Secure("db", "good")
      /\ UNCHANGED <<rowed, place, placed, refs, active, uncopied, hand, success, damaged>>
  BY DEF Remap, Step, sourceVars
<1>2. active \in Output /\ active # "none" /\ "db" \in Files /\ "good" \in Content
  BY <1>1, Names DEF BackupTypeOK, Content
<1>3. /\ holds' \in [Output -> [Files -> Content]] /\ durable' \in [Output -> [Files -> Content]]
      /\ holds'[active]["db"] = "good" /\ durable'[active]["db"] = "good"
      /\ \A m \in Files : m # "db" => /\ holds'[active][m] = holds[active][m]
                                      /\ durable'[active][m] = durable[active][m]
      /\ \A e \in Output : e # active => holds'[e] = holds[e] /\ durable'[e] = durable[e]
  BY <1>1, <1>2, Secured
<1>4. place[active] = "stage" /\ placed[active] = "stage" /\ (\A d \in Output : Published(d)') /\ Lasting'
  BY <1>1, <1>3, StagedStep DEF Early
<1>5. BackupTypeOK'
  BY <1>1, <1>2, <1>3 DEF BackupTypeOK, Early
<1>6. StageInv'
  BY <1>1, <1>3, <1>4, Names DEF StageInv, Early, Fine
<1>7. uncopied = {} /\ hand = "none"
  BY <1>1 DEF CopyInv
<1>8. \A m \in Entries : Fine(active, m)'
  BY <1>1, <1>3, <1>7, Names, EntriesAreFiles DEF CopyInv, Fine
<1>9. CopyInv'
  BY <1>1, <1>7, <1>8, Names DEF CopyInv, Entries
<1> QED
  BY <1>4, <1>5, <1>6, <1>9

LEMMA CheckInv == ASSUME BackupInv, CheckEvidence \/ VerifyStage PROVE BackupInv'
<1> USE DEF BackupInv
<1>1. /\ \/ at = "check" /\ at' = "manifest"
         \/ at = "verify" /\ at' = "publish"
      /\ UNCHANGED <<rowed, place, placed, holds, durable, refs, active, uncopied, hand, success, damaged>>
  BY DEF CheckEvidence, VerifyStage, Step, sourceVars, diskVars
<1>2. (\A d \in Output : Published(d)') /\ Lasting'
  BY <1>1, StagedStep DEF Early
<1>3. BackupTypeOK'
  BY <1>1 DEF BackupTypeOK, Early
<1>4. StageInv'
  BY <1>1 DEF StageInv, Early, Fine
<1>5. CopyInv'
  BY <1>1 DEF CopyInv, Entries, Fine
<1> QED
  BY <1>2, <1>3, <1>4, <1>5

LEMMA WriteManifestInv == ASSUME BackupInv, WriteManifest PROVE BackupInv'
<1> USE DEF BackupInv
<1>1. /\ at = "manifest" /\ at' = (IF active = "bundle" THEN "verify" ELSE "publish")
      /\ Secure("manifest", "good")
      /\ UNCHANGED <<rowed, place, placed, refs, active, uncopied, hand, success, damaged>>
  BY DEF WriteManifest, Step, sourceVars
<1>2. active \in Output /\ active # "none" /\ "manifest" \in Files /\ "good" \in Content
  BY <1>1, Names DEF BackupTypeOK, Content
<1>3. /\ holds' \in [Output -> [Files -> Content]] /\ durable' \in [Output -> [Files -> Content]]
      /\ holds'[active]["manifest"] = "good" /\ durable'[active]["manifest"] = "good"
      /\ \A m \in Files : m # "manifest" => /\ holds'[active][m] = holds[active][m]
                                            /\ durable'[active][m] = durable[active][m]
      /\ \A e \in Output : e # active => holds'[e] = holds[e] /\ durable'[e] = durable[e]
  BY <1>1, <1>2, Secured
<1>4. place[active] = "stage" /\ placed[active] = "stage" /\ (\A d \in Output : Published(d)') /\ Lasting'
  BY <1>1, <1>3, StagedStep DEF Early
<1>5. BackupTypeOK'
  BY <1>1, <1>2, <1>3 DEF BackupTypeOK, Early
<1>6. StageInv'
  BY <1>1, <1>3, <1>4, Names DEF StageInv, Early, Fine
<1>7. uncopied = {} /\ hand = "none" /\ \A m \in Entries : Fine(active, m)
  BY <1>1 DEF CopyInv
<1>8. \A m \in Entries : Fine(active, m)'
  BY <1>1, <1>3, <1>7, EntriesAreFiles DEF Fine
<1>9. Fine(active, "manifest")'
  BY <1>1, <1>3 DEF Fine
<1>10. CopyInv'
  BY <1>1, <1>7, <1>8, <1>9, Names DEF CopyInv, Entries
<1> QED
  BY <1>4, <1>5, <1>6, <1>10

-----------------------------------------------------------------------------
(* Publication *)

LEMMA RenameInv == ASSUME BackupInv, RenameStage PROVE BackupInv'
<1> USE DEF BackupInv
<1>1. /\ at = "publish" /\ at' = "parent" /\ place' = [place EXCEPT ![active] = "out"]
      /\ UNCHANGED <<rowed, placed, holds, durable, refs, active, uncopied, hand, success, damaged>>
  BY DEF RenameStage, Step, sourceVars
<1>2. active \in Output /\ active # "none" /\ place \in [Output -> Place] /\ "out" \in Place
  BY <1>1 DEF BackupTypeOK, Place
<1>3. /\ place' \in [Output -> Place] /\ place'[active] = "out"
      /\ \A e \in Output : e # active => place'[e] = place[e]
  BY <1>1, <1>2, Relocated
<1>4. /\ placed[active] = "stage" /\ Fine(active, "marker") /\ uncopied = {} /\ hand = "none"
      /\ \A n \in Entries \cup {"manifest"} : Fine(active, n)
  BY <1>1 DEF StageInv, CopyInv, Early
<1>5. BackupTypeOK'
  BY <1>1, <1>2, <1>3 DEF BackupTypeOK, Early
<1>6. StageInv' /\ CopyInv'
  BY <1>1, <1>3, <1>4, Names DEF StageInv, CopyInv, Early, Entries
<1>7. ASSUME NEW d \in Output PROVE Published(d)'
  <2>1. CASE d = active
    BY <1>1, <1>3, <1>4, <2>1 DEF Published, Fine, Whole, Entries
  <2>2. CASE d # active
    BY <1>1, <1>3, <2>2 DEF Published, Fine, Whole, Entries
  <2> QED
    BY <2>1, <2>2
<1>8. Lasting'
  BY <1>1, <1>2, <1>3 DEF Lasting, Output
<1> QED
  BY <1>5, <1>6, <1>7, <1>8

LEMMA SyncParentInv == ASSUME BackupInv, SyncParent PROVE BackupInv'
<1> USE DEF BackupInv
<1>1. /\ at = "parent" /\ at' = "unmark" /\ placed' = [placed EXCEPT ![active] = "out"]
      /\ UNCHANGED <<rowed, place, holds, durable, refs, active, uncopied, hand, success, damaged>>
  BY DEF SyncParent, Step, sourceVars
<1>2. /\ active \in Output /\ active # "none" /\ place[active] = "out"
      /\ placed \in [Output -> Place] /\ "out" \in Place
  BY <1>1 DEF BackupTypeOK, StageInv, Place
<1>3. /\ placed' \in [Output -> Place] /\ placed'[active] = "out"
      /\ \A e \in Output : e # active => placed'[e] = placed[e]
  BY <1>1, <1>2, Relocated
<1>4. BackupTypeOK'
  BY <1>1, <1>2, <1>3 DEF BackupTypeOK
<1>5. StageInv' /\ CopyInv'
  BY <1>1, <1>2, <1>3 DEF StageInv, CopyInv, Early, Entries
<1>6. ASSUME NEW d \in Output PROVE Published(d)'
  <2>1. CASE d = active
    BY <1>1, <1>2, <1>3, <2>1 DEF Published, Whole, Entries
  <2>2. CASE d # active
    BY <1>1, <1>3, <2>2 DEF Published, Fine, Whole, Entries
  <2> QED
    BY <2>1, <2>2
<1>7. Lasting'
  BY <1>1, <1>3, Names DEF Lasting, Output
<1> QED
  BY <1>4, <1>5, <1>6, <1>7

LEMMA UnmarkInv == ASSUME BackupInv, Unmark PROVE BackupInv'
<1> USE DEF BackupInv
<1>1. /\ at = "unmark" /\ at' = "seal" /\ holds' = [holds EXCEPT ![active]["marker"] = "absent"]
      /\ UNCHANGED <<rowed, place, placed, durable, refs, active, uncopied, hand, success, damaged>>
  BY DEF Unmark, Step, sourceVars
<1>2. /\ active \in Output /\ active # "none" /\ place[active] = "out" /\ placed[active] = "out"
      /\ holds \in [Output -> [Files -> Content]] /\ "marker" \in Files /\ "absent" \in Content
  BY <1>1, Names DEF BackupTypeOK, StageInv, Content
<1>3. /\ holds' \in [Output -> [Files -> Content]] /\ holds'[active]["marker"] = "absent"
      /\ \A m \in Files : m # "marker" => holds'[active][m] = holds[active][m]
      /\ \A e \in Output : e # active => holds'[e] = holds[e]
  BY <1>1, <1>2, Wrote
<1>4. BackupTypeOK'
  BY <1>1, <1>2, <1>3 DEF BackupTypeOK
<1>5. StageInv' /\ CopyInv'
  BY <1>1, <1>2, <1>3 DEF StageInv, CopyInv, Early, Entries
<1>6. ASSUME NEW d \in Output PROVE Published(d)'
  <2>1. CASE d = active
    BY <1>1, <1>2, <1>3, <2>1, Names, EntriesAreFiles DEF Published, Whole, Entries
  <2>2. CASE d # active
    BY <1>1, <1>3, <2>2 DEF Published, Fine, Whole, Entries
  <2> QED
    BY <2>1, <2>2
<1>7. Lasting'
  BY <1>1, <1>3 DEF Lasting, Output
<1> QED
  BY <1>4, <1>5, <1>6, <1>7

LEMMA SealInv == ASSUME BackupInv, Seal PROVE BackupInv'
<1> USE DEF BackupInv
<1>1. /\ at = "seal" /\ at' = "idle" /\ active' = "none" /\ success' = success \cup {active}
      /\ durable' = [durable EXCEPT ![active]["marker"] = "absent"]
      /\ UNCHANGED <<rowed, place, placed, holds, refs, uncopied, hand, damaged>>
  BY DEF Seal, Synced, Step, sourceVars
<1>2. /\ active \in Output /\ active # "none" /\ placed[active] = "out"
      /\ place[active] = "out" /\ holds[active]["marker"] = "absent"
      /\ durable \in [Output -> [Files -> Content]] /\ "marker" \in Files /\ "absent" \in Content
  BY <1>1, Names DEF BackupTypeOK, StageInv, Content
<1>3. /\ durable' \in [Output -> [Files -> Content]] /\ durable'[active]["marker"] = "absent"
      /\ \A m \in Files : m # "marker" => durable'[active][m] = durable[active][m]
      /\ \A e \in Output : e # active => durable'[e] = durable[e]
  BY <1>1, <1>2, Wrote
<1>4. BackupTypeOK'
  BY <1>1, <1>3 DEF BackupTypeOK
<1>5. StageInv' /\ CopyInv'
  BY <1>1 DEF StageInv, CopyInv, Early, Entries
<1>6. ASSUME NEW d \in Output PROVE Published(d)'
  <2>1. CASE d = active
    BY <1>1, <1>2, <1>3, <2>1, Names, EntriesAreFiles DEF Published, Whole, Entries
  <2>2. CASE d # active
    BY <1>1, <1>3, <2>2 DEF Published, Fine, Whole, Entries
  <2> QED
    BY <2>1, <2>2
<1>7. Lasting'
  BY <1>1, <1>2, <1>3, Names DEF Lasting, Output
<1> QED
  BY <1>4, <1>5, <1>6, <1>7

-----------------------------------------------------------------------------
(* Failures, crashes and damage *)

LEMMA FailEarlyInv == ASSUME BackupInv, FailEarly PROVE BackupInv'
<1> USE DEF BackupInv
<1>1. /\ at \in Early /\ at' = "idle" /\ active' = "none" /\ uncopied' = {} /\ hand' = "none"
      /\ place' = [place EXCEPT ![active] = IF active = "bundle" THEN "none" ELSE place[active]]
      /\ UNCHANGED <<rowed, placed, holds, durable, refs, success, damaged>>
  BY DEF FailEarly, StopRun, sourceVars
<1>2. /\ active \in Output /\ place[active] = "stage" /\ placed[active] = "stage"
      /\ place \in [Output -> Place]
  BY <1>1 DEF BackupTypeOK, StageInv, Early
<1>3. PICK p \in Place : p # "out" /\ place' = [place EXCEPT ![active] = p]
  BY <1>1, <1>2 DEF Place
<1>4. /\ place' \in [Output -> Place] /\ place'[active] # "out"
      /\ \A e \in Output : e # active => place'[e] = place[e]
  BY <1>2, <1>3, Relocated
<1>5. BackupTypeOK'
  BY <1>1, <1>4 DEF BackupTypeOK
<1>6. StageInv' /\ CopyInv'
  BY <1>1 DEF StageInv, CopyInv, Early
<1>7. ASSUME NEW d \in Output PROVE Published(d)'
  <2>1. CASE d = active
    BY <1>1, <1>2, <1>4, <2>1 DEF Published
  <2>2. CASE d # active
    BY <1>1, <1>4, <2>2 DEF Published, Fine, Whole, Entries
  <2> QED
    BY <2>1, <2>2
<1>8. Lasting'
  BY <1>1, <1>4, Names DEF Lasting, Output
<1> QED
  BY <1>5, <1>6, <1>7, <1>8

(* What a late failure may do to the marker: nothing, or write it again. *)
LEMMA FailLateInv == ASSUME BackupInv, FailLate PROVE BackupInv'
<1> USE DEF BackupInv
<1>1. /\ at \in {"parent", "unmark", "seal"}
      /\ at' = "idle" /\ active' = "none" /\ uncopied' = {} /\ hand' = "none"
      /\ \/ at = "seal" /\ Secure("marker", "good")
         \/ UNCHANGED <<holds, durable>>
      /\ UNCHANGED <<rowed, place, placed, refs, success, damaged>>
  BY DEF FailLate, StopRun, sourceVars
<1>2. active \in Output /\ active # "none" /\ "marker" \in Files /\ "good" \in Content
  BY <1>1, Names DEF BackupTypeOK, Content
<1>3. /\ holds' \in [Output -> [Files -> Content]] /\ durable' \in [Output -> [Files -> Content]]
      /\ \A m \in Files : m # "marker" => /\ holds'[active][m] = holds[active][m]
                                          /\ durable'[active][m] = durable[active][m]
      /\ \A e \in Output : e # active => holds'[e] = holds[e] /\ durable'[e] = durable[e]
      /\ at # "seal" => UNCHANGED <<holds, durable>>
  <2>1. CASE at = "seal" /\ Secure("marker", "good")
    BY <1>2, <2>1, Secured
  <2>2. CASE UNCHANGED <<holds, durable>>
    BY <2>2 DEF BackupTypeOK
  <2> QED
    BY <1>1, <2>1, <2>2
<1>4. BackupTypeOK'
  BY <1>1, <1>3 DEF BackupTypeOK
<1>5. StageInv' /\ CopyInv'
  BY <1>1 DEF StageInv, CopyInv, Early
<1>6. at = "seal" => placed[active] = "out"
  BY DEF StageInv
<1>7. ASSUME NEW d \in Output PROVE Published(d)'
  <2>1. \A m \in Entries \cup {"manifest"} : holds'[d][m] = holds[d][m] /\ durable'[d][m] = durable[d][m]
    BY <1>3, Names, EntriesAreFiles
  <2>2. placed[d] # "out" => holds'[d] = holds[d] /\ durable'[d] = durable[d]
    BY <1>3, <1>6
  <2> QED
    BY <1>1, <2>1, <2>2 DEF Published, Fine, Whole, Entries
<1>8. Lasting'
  BY <1>1, <1>3, Names DEF Lasting, Output
<1> QED
  BY <1>4, <1>5, <1>7, <1>8

LEMMA CrashInv == ASSUME BackupInv, CrashMachine PROVE BackupInv'
<1> USE DEF BackupInv
<1>1. /\ at' = "idle" /\ active' = "none" /\ uncopied' = {} /\ hand' = "none"
      /\ place' \in [Output -> Place] /\ (\A d \in Output : place'[d] \in {place[d], placed[d]})
      /\ placed' = place' /\ durable' = holds'
      /\ UNCHANGED <<rowed, refs, success, damaged>>
  BY DEF CrashMachine, StopRun, sourceVars, Place
<1>2. PICK undone \in SUBSET Unsettled, cut \in SUBSET Unsettled :
         /\ cut \subseteq undone
         /\ holds' = [d \in Output |-> [n \in Files |->
                        IF <<d, n>> \in cut THEN "part"
                        ELSE IF <<d, n>> \in undone THEN durable[d][n] ELSE holds[d][n]]]
  <2>1. PICK undone \in SUBSET Unsettled :
          \E cut \in SUBSET {f \in undone : f[2] # "marker"} :
            holds' = [d \in Output |-> [n \in Files |->
                        IF <<d, n>> \in cut THEN "part"
                        ELSE IF <<d, n>> \in undone THEN durable[d][n] ELSE holds[d][n]]]
    BY DEF CrashMachine
  <2>2. PICK cut \in SUBSET {f \in undone : f[2] # "marker"} :
            holds' = [d \in Output |-> [n \in Files |->
                        IF <<d, n>> \in cut THEN "part"
                        ELSE IF <<d, n>> \in undone THEN durable[d][n] ELSE holds[d][n]]]
    BY <2>1
  <2>3. cut \subseteq undone
    BY <2>2
  <2> QED
    BY <2>2, <2>3
<1>3. ASSUME NEW d \in Output, NEW n \in Files, holds[d][n] = durable[d][n]
      PROVE  holds'[d][n] = holds[d][n]
  <2>1. <<d, n>> \notin Unsettled
    BY <1>3 DEF Unsettled
  <2> QED
    BY <1>2, <2>1
<1>4. holds' \in [Output -> [Files -> Content]]
  BY <1>2 DEF BackupTypeOK, Content
<1>5. BackupTypeOK'
  BY <1>1, <1>4 DEF BackupTypeOK
<1>6. StageInv' /\ CopyInv'
  BY <1>1 DEF StageInv, CopyInv, Early
<1>7. ASSUME NEW d \in Output PROVE place'[d] = "out" => place[d] = "out"
  BY <1>1 DEF Published
<1>8. ASSUME NEW d \in Output, placed[d] = "out" PROVE place'[d] = "out"
  BY <1>1, <1>8 DEF Published
<1>9. ASSUME NEW d \in Output PROVE Published(d)'
  <2>1. ASSUME place'[d] = "out", NEW n \in Entries \cup {"manifest"}
        PROVE  holds'[d][n] = holds[d][n] /\ Whole(d, n)
    BY <1>3, <1>7, <2>1, Names, EntriesAreFiles DEF Published
  <2> QED
    BY <1>1, <2>1 DEF Published, Whole, Entries
<1>10. \A d \in success : holds'[d]["marker"] = "absent"
  BY <1>3, Names DEF Lasting
<1>11. Lasting'
  BY <1>1, <1>7, <1>8, <1>10, Names DEF Lasting, Output
<1> QED
  BY <1>5, <1>6, <1>9, <1>11

LEMMA DamageInv == ASSUME BackupInv, NEW n \in Files, DamageBundle(n) PROVE BackupInv'
<1> USE DEF BackupInv
<1>1. /\ n \in Entries /\ "bundle" \in success /\ damaged' = damaged \cup {n}
      /\ holds' = [holds EXCEPT !["bundle"][n] = "bad"]
      /\ durable' = [durable EXCEPT !["bundle"][n] = "bad"]
      /\ UNCHANGED <<rowed, place, placed, refs, active, at, uncopied, hand, success>>
  BY DEF DamageBundle, sourceVars, runVars
<1>2. /\ placed["bundle"] = "out" /\ active # "bundle" /\ "bundle" \in Output /\ "bad" \in Content
      /\ holds \in [Output -> [Files -> Content]] /\ durable \in [Output -> [Files -> Content]]
      /\ n # "marker"
  BY <1>1, EntriesAreFiles DEF Lasting, BackupTypeOK, Output, Content
<1>3. /\ holds' \in [Output -> [Files -> Content]] /\ durable' \in [Output -> [Files -> Content]]
      /\ holds'["bundle"][n] = "bad" /\ durable'["bundle"][n] = "bad"
      /\ \A m \in Files : m # n => /\ holds'["bundle"][m] = holds["bundle"][m]
                                   /\ durable'["bundle"][m] = durable["bundle"][m]
      /\ \A e \in Output : e # "bundle" => holds'[e] = holds[e] /\ durable'[e] = durable[e]
  BY <1>1, <1>2, Wrote
<1>4. BackupTypeOK'
  BY <1>1, <1>3 DEF BackupTypeOK
<1>5. active \in Output => holds'[active] = holds[active] /\ durable'[active] = durable[active]
  BY <1>2, <1>3
<1>6. StageInv'
  BY <1>1, <1>5 DEF StageInv, BackupTypeOK, Fine, Early
<1>7. CopyInv'
  BY <1>1, <1>5 DEF CopyInv, BackupTypeOK, Fine, Entries
<1>8. ASSUME NEW d \in Output PROVE Published(d)'
  <2>1. CASE d = "bundle"
    BY <1>1, <1>2, <1>3, <2>1, Names, EntriesAreFiles DEF Published, Whole, Entries
  <2>2. CASE d # "bundle"
    BY <1>1, <1>3, <2>2 DEF Published, Fine, Whole, Entries
  <2> QED
    BY <2>1, <2>2
<1>9. Lasting'
  BY <1>1, <1>2, <1>3, Names DEF Lasting, Output
<1> QED
  BY <1>4, <1>6, <1>7, <1>8, <1>9

LEMMA BackupStep == ASSUME BackupInv, [BackupNext]_backupVars PROVE BackupInv'
<1>1. CASE UNCHANGED backupVars
  BY <1>1 DEF backupVars, sourceVars, diskVars, runVars, BackupInv, BackupTypeOK, StageInv, CopyInv,
     Published, Lasting, Fine, Whole, Entries
<1>2. CASE BackupNext
  BY <1>2, DaemonInv, BeginInv, WriteMarkerInv, SnapshotInv, InventoryInv, CopyEntryInv, SyncEntryInv,
     RemapInv, CheckInv, WriteManifestInv, RenameInv, SyncParentInv, UnmarkInv, SealInv, FailEarlyInv,
     FailLateInv, CrashInv, DamageInv DEF BackupNext
<1> QED
  BY <1>1, <1>2

(* An output without its marker holds all that the snapshot's rows name,   *)
(* and one that was reported stays, for every set of evidence, any number  *)
(* of failures and crashes at any point of either command (backup/create.go*)
(* and restore.go).                                                        *)
THEOREM BackupsAreWhole == BackupSpec => []OutputTrusted
<1>1. ASSUME BackupInv PROVE OutputTrusted
  <2>1. UnmarkedWhole
    BY <1>1 DEF BackupInv, Published, UnmarkedWhole, Whole
  <2>2. SuccessKept
    BY <1>1 DEF BackupInv, Lasting, Published, SuccessKept
  <2> QED
    BY <2>1, <2>2 DEF OutputTrusted
<1> QED
  BY BackupStart, BackupStep, <1>1, PTL DEF BackupSpec

-----------------------------------------------------------------------------
(* Cowrie ingest *)

Event == [line : Nat, actor : CowrieActor, copy : Nat]
Fresh == [line : Nat, actor : CowrieActor, copy : {0}]
Apart(batch) == IsFiniteSet(batch) /\ \A r, q \in batch : r.line = q.line => r = q
Total == [CowrieActor -> Int]
States == [inode : Nat, offset : Nat, sig : Seq(Nat)]

(* The log, its siblings and what is saved of each. *)
LogInv ==
  /\ line \in Seq([session : Session, kex : BOOLEAN])
  /\ content \in Seq(Seq(1 .. Len(line)))
  /\ inodeOf \in [Path -> {0} \cup DOMAIN content] /\ inodeOf[Log] # 0
  /\ istate \in [Path -> States]

Frame == [path : Path, inode : Nat, size : Nat, sig : Seq(Nat), start : Nat, end : Nat,
          late : SUBSET Session, batch : SUBSET Fresh,
          seed : Total]

Stages == {"idle", "backfill", "examine", "read", "reconcile", "dedup", "fold", "commit", "save"}

(* What a reader has in hand is of files that are there. *)
OpenInv ==
  /\ frame \in [Reader -> Frame] /\ outer \in [Reader -> Frame]
  /\ stage \in [Reader -> Stages]
  /\ todo \in [Reader -> SUBSET Sibling]
  /\ \A p \in Reader :
       /\ stage[p] \in {"examine", "read"} => frame[p].inode \in DOMAIN content /\ frame[p].batch = {}
       /\ outer[p].batch = {} /\ (outer[p] # NoFrame => outer[p].inode \in DOMAIN content)
       /\ \A f \in todo[p] : inodeOf[f] # 0

(* A total, saved or about to be, that agrees with the events. *)
Agrees(a, n) == LET held == Cardinality(RowsOf(a, rows)) IN held <= n /\ n <= held + purged[a]

TableInv ==
  /\ rows \in SUBSET Event /\ IsFiniteSet(rows) /\ StoredOnce
  /\ total \in Total /\ purged \in Total
  /\ \A a \in CowrieActor : Agrees(a, total[a])

(* A batch has a line once; past the dedup the table has none of it; and   *)
(* the totals it was folded into agree with the events that are there now. *)
BatchInv ==
  \A p \in Reader :
    /\ Apart(frame[p].batch)
    /\ stage[p] \in {"fold", "commit"} => \A r \in frame[p].batch : ~Stored(r.line)
    /\ stage[p] = "commit" => \A a \in CowrieActor : Agrees(a, frame[p].seed[a])

CowrieInv == LogInv /\ OpenInv /\ TableInv /\ BatchInv

(* The daemon ingests, and no command line ingests the same log beside it. *)
OneReader == \A p, q \in Reader : p = q

-----------------------------------------------------------------------------
(* Sets of events *)

LEMMA CowrieNames ==
  /\ Log \in Path /\ Sibling \in SUBSET Nat /\ Hassh \in CowrieActor /\ Session \subseteq CowrieActor
  /\ \A s \in Session : s # Hassh
<1> DEFINE R == {s.rotate + s.truncate : s \in Scenario}
<1>1. IsFiniteSet(R)
  <2>1. PICK f : f = [s \in Scenario |-> s.rotate + s.truncate]
    OBVIOUS
  <2>2. DOMAIN f = Scenario /\ f = [s \in Scenario |-> f[s]] /\ R = {f[s] : s \in Scenario}
    BY <2>1
  <2> HIDE DEF R
  <2> QED
    BY <2>2, FiniteImage, ScenarioAssumption
<1>2. R \in SUBSET Int /\ R # {}
  BY ScenarioAssumption
<1>3. Max(R) \in R
  <2> HIDE DEF R
  <2> QED
    BY <1>1, <1>2, FiniteMax
<1>4. Max(R) \in Int
  BY <1>2, <1>3
<1>5. Sibling \in SUBSET Nat
  BY <1>4 DEF Sibling
<1> QED
  BY <1>5, SessionAssumption DEF Path, CowrieActor, Hassh, Log

(* Part of a sequence has a subset of its elements, and finitely many. *)
LEMMA PartOf ==
  ASSUME NEW S, NEW s \in Seq(S), NEW a \in Nat, NEW b \in Int, b <= Len(s)
  PROVE  ToSet(SubSeq(s, a + 1, b)) \subseteq S /\ IsFiniteSet(ToSet(SubSeq(s, a + 1, b)))
         /\ SubSeq(s, a + 1, b) \in Seq(S)
<1>1. PICK t, m : t = SubSeq(s, a + 1, b) /\ m = a + 1
  OBVIOUS
<1>2. m \in Int /\ m >= 1 /\ \A i \in m .. b : s[i] \in S
  BY <1>1
<1>3. t \in Seq(S)
  BY <1>1, <1>2, SubSeqProperties
<1>4. DOMAIN t = 1 .. Len(t) /\ Len(t) \in Nat /\ \A i \in 1 .. Len(t) : t[i] \in S
  BY <1>3
<1>5. IsFiniteSet(1 .. Len(t))
  BY <1>4, FS_Interval
<1>6. IsFiniteSet({t[i] : i \in DOMAIN t})
  BY <1>3, <1>4, <1>5, FiniteImage
<1> QED
  BY <1>1, <1>3, <1>4, <1>6 DEF ToSet

LEMMA WiderSeq ==
  ASSUME NEW A, NEW B, A \subseteq B, NEW t \in Seq(A)
  PROVE  t \in Seq(B)
OBVIOUS

(* The events of a set are finitely many, and count. *)
LEMMA Counted ==
  ASSUME TableInv, NEW a \in CowrieActor
  PROVE  IsFiniteSet(RowsOf(a, rows)) /\ Cardinality(RowsOf(a, rows)) \in Nat
<1>1. RowsOf(a, rows) \in SUBSET rows
  BY DEF RowsOf
<1> QED
  BY <1>1, FS_Subset, FS_CardinalityType DEF TableInv

LEMMA CowrieStart == CowrieInit => CowrieInv
<1> SUFFICES ASSUME CowrieInit PROVE CowrieInv
  OBVIOUS
<1>1. 0 \in Nat /\ << >> \in Seq(Nat) /\ << >> \in Seq(1 .. 0) /\ {} \in SUBSET Session
  OBVIOUS
<1>2. NoFrame \in Frame /\ NoFrame.batch = {}
  BY CowrieNames, <1>1 DEF NoFrame, NoSig, Frame, Total
<1>3. LogInv
  <2>1. line = << >> /\ Len(line) = 0 /\ line \in Seq([session : Session, kex : BOOLEAN])
    BY DEF CowrieInit
  <2>2. content = << << >> >> /\ content \in Seq(Seq(1 .. Len(line))) /\ DOMAIN content = 1 .. 1
    BY <1>1, <2>1 DEF CowrieInit
  <2>3. inodeOf \in [Path -> {0} \cup DOMAIN content] /\ inodeOf[Log] # 0
    BY <2>2, CowrieNames DEF CowrieInit
  <2>4. istate \in [Path -> States]
    BY <1>1 DEF CowrieInit, NoState, NoSig, States
  <2> QED
    BY <2>1, <2>2, <2>3, <2>4 DEF LogInv
<1>4. OpenInv
  BY <1>2 DEF CowrieInit, OpenInv, Stages
<1>5. \A a \in CowrieActor : RowsOf(a, rows) = {}
  BY DEF CowrieInit, RowsOf
<1>6. TableInv
  <2>1. /\ rows = {} /\ total = [a \in CowrieActor |-> 0] /\ purged = [a \in CowrieActor |-> 0]
        /\ Cardinality({}) = 0 /\ IsFiniteSet({})
    BY FS_EmptySet DEF CowrieInit
  <2>2. \A a \in CowrieActor : Agrees(a, total[a])
    BY <1>5, <2>1 DEF Agrees
  <2> QED
    BY <2>1, <2>2 DEF TableInv, Total, StoredOnce
<1>7. BatchInv
  BY <1>2, FS_EmptySet DEF CowrieInit, BatchInv, Apart
<1> QED
  BY <1>3, <1>4, <1>6, <1>7 DEF CowrieInv

-----------------------------------------------------------------------------
(* Cowrie and logrotate *)

LEMMA LogStep ==
  ASSUME CowrieInv, UNCHANGED <<rows, total, purged, stage, frame, outer, todo>>, LogInv',
         \A i \in DOMAIN content : i \in DOMAIN content',
         \A f \in Sibling : inodeOf[f] # 0 => inodeOf'[f] # 0
  PROVE  CowrieInv'
<1>1. OpenInv'
  BY DEF CowrieInv, OpenInv
<1>2. TableInv'
  BY DEF CowrieInv, TableInv, StoredOnce, Agrees
<1>3. BatchInv'
  BY DEF CowrieInv, BatchInv, Stored, Agrees
<1> QED
  BY <1>1, <1>2, <1>3 DEF CowrieInv

LEMMA WriteLineInv == ASSUME CowrieInv, NEW s \in Session, NEW kex \in BOOLEAN, WriteLine(s, kex) PROVE CowrieInv'
<1>1. LogInv
  BY DEF CowrieInv
<1>2. /\ line' = Append(line, [session |-> s, kex |-> kex])
      /\ content' = [content EXCEPT ![inodeOf[Log]] = Append(content[inodeOf[Log]], Len(line) + 1)]
      /\ UNCHANGED <<inodeOf, istate, rows, total, purged, stage, frame, outer, todo>>
  BY DEF WriteLine, readerVars, historyVars
<1>3. PICK n, i : n = Len(line) /\ i = inodeOf[Log]
  OBVIOUS
<1>4. n \in Nat /\ i \in DOMAIN content
  BY <1>1, <1>3, CowrieNames DEF LogInv
<1>5. line' \in Seq([session : Session, kex : BOOLEAN]) /\ Len(line') = n + 1
  BY <1>1, <1>2, <1>3 DEF LogInv
<1>6. content \in Seq(Seq(1 .. n + 1))
  <2>1. 1 .. n \subseteq 1 .. n + 1
    BY <1>4
  <2>2. \A t \in Seq(1 .. n) : t \in Seq(1 .. n + 1)
    BY <2>1, WiderSeq
  <2>3. Seq(1 .. n) \subseteq Seq(1 .. n + 1) /\ content \in Seq(Seq(1 .. n))
    BY <1>1, <1>3, <2>2 DEF LogInv
  <2> QED
    BY <2>3, WiderSeq
<1>7. Append(content[i], n + 1) \in Seq(1 .. n + 1)
  BY <1>4, <1>6
<1>8. content' \in Seq(Seq(1 .. n + 1)) /\ DOMAIN content' = DOMAIN content
  BY <1>2, <1>3, <1>4, <1>6, <1>7
<1>9. LogInv'
  BY <1>1, <1>2, <1>5, <1>8 DEF LogInv
<1> QED
  BY <1>2, <1>8, <1>9, LogStep

(* A new file at the log's path or beside it. *)
LEMMA NewFile ==
  ASSUME CowrieInv, NEW s, NEW c \in Seq(Seq(1 .. Len(line))), DOMAIN c = DOMAIN content, content' = Append(c, s),
         s \in Seq(1 .. Len(line)), UNCHANGED <<line, istate, rows, total, purged, stage, frame, outer, todo>>,
         inodeOf' \in [Path -> {0} \cup DOMAIN content'], inodeOf'[Log] # 0,
         \A f \in Sibling : inodeOf[f] # 0 => inodeOf'[f] # 0
  PROVE  CowrieInv'
<1>1. content' \in Seq(Seq(1 .. Len(line))) /\ \A i \in DOMAIN content : i \in DOMAIN content'
  OBVIOUS
<1>2. LogInv'
  BY <1>1 DEF CowrieInv, LogInv
<1> QED
  BY <1>1, <1>2, LogStep

LEMMA RotateInv == ASSUME CowrieInv, Rename \/ CopyTruncate PROVE CowrieInv'
<1>1. /\ LogInv /\ DOMAIN content = 1 .. Len(content) /\ Len(content) \in Nat /\ Len(content) + 1 # 0
      /\ << >> \in Seq(1 .. Len(line)) /\ inodeOf[Log] \in DOMAIN content
  BY CowrieNames DEF CowrieInv, LogInv
<1>2. PICK m, x : m = Len(content) + 1 /\ x = NextSibling
  OBVIOUS
<1>3. UNCHANGED <<line, istate, rows, total, purged, stage, frame, outer, todo>>
  BY DEF Rename, CopyTruncate, readerVars, historyVars
<1>4. CASE Rename
  <2>1. /\ content' = Append(content, << >>)
        /\ inodeOf' = [inodeOf EXCEPT ![x] = inodeOf[Log], ![Log] = m]
    BY <1>2, <1>4 DEF Rename
  <2>2. DOMAIN content' = 1 .. m
    BY <1>1, <1>2, <2>1 DEF LogInv
  <2>3. inodeOf' \in [Path -> {0} \cup DOMAIN content'] /\ inodeOf'[Log] # 0
        /\ \A f \in Sibling : inodeOf[f] # 0 => inodeOf'[f] # 0
    <3>1. inodeOf \in [Path -> {0} \cup 1 .. Len(content)] /\ inodeOf[Log] # 0 /\ Log \in Path
      BY <1>1, CowrieNames DEF LogInv
    <3>2. DOMAIN inodeOf' = Path /\ inodeOf'[Log] = m
      BY <2>1, <3>1
    <3>3. \A f \in Path : inodeOf'[f] \in {inodeOf[f], inodeOf[Log], m} /\ (inodeOf'[f] = inodeOf[f] \/ inodeOf'[f] # 0)
      BY <1>1, <1>2, <2>1, <3>1
    <3>4. \A f \in Path : inodeOf'[f] \in {0} \cup 1 .. m
      BY <1>1, <1>2, <3>1, <3>3
    <3>5. inodeOf' = [inodeOf EXCEPT ![x] = inodeOf[Log], ![Log] = m]
      BY <2>1
    <3>6. inodeOf' \in [Path -> {0} \cup 1 .. m]
      BY <3>1, <3>2, <3>4, <3>5
    <3> QED
      BY <1>1, <1>2, <2>2, <3>2, <3>3, <3>6 DEF Path
  <2> QED
    BY <1>1, <1>3, <2>1, <2>3, NewFile DEF LogInv
<1>5. CASE CopyTruncate
  <2>1. PICK c, s : c = [content EXCEPT ![inodeOf[Log]] = << >>] /\ s = content[inodeOf[Log]]
    OBVIOUS
  <2>2. content' = Append(c, s) /\ inodeOf' = [inodeOf EXCEPT ![x] = m]
    BY <1>2, <1>5, <2>1 DEF CopyTruncate
  <2>3. c \in Seq(Seq(1 .. Len(line))) /\ DOMAIN c = DOMAIN content /\ s \in Seq(1 .. Len(line))
    BY <1>1, <2>1 DEF LogInv
  <2>4. DOMAIN content' = 1 .. m
    BY <1>1, <1>2, <2>2, <2>3
  <2>5. inodeOf' \in [Path -> {0} \cup DOMAIN content'] /\ inodeOf'[Log] # 0
        /\ \A f \in Sibling : inodeOf[f] # 0 => inodeOf'[f] # 0
    <3>1. inodeOf \in [Path -> {0} \cup 1 .. Len(content)] /\ inodeOf[Log] # 0 /\ Log \in Path
      BY <1>1, CowrieNames DEF LogInv
    <3>2. \A f \in Path : inodeOf'[f] \in {inodeOf[f], m} /\ (inodeOf'[f] = inodeOf[f] \/ inodeOf'[f] # 0)
      BY <1>1, <1>2, <2>2, <3>1
    <3>3. \A f \in Path : inodeOf'[f] \in {0} \cup 1 .. m
      BY <1>1, <1>2, <3>1, <3>2
    <3>4. inodeOf' \in [Path -> {0} \cup 1 .. m]
      BY <2>2, <3>1, <3>3
    <3> QED
      BY <1>1, <1>2, <2>4, <3>1, <3>2, <3>4 DEF Path
  <2> QED
    BY <1>3, <2>2, <2>3, <2>5, NewFile
<1> QED
  BY <1>4, <1>5

LEMMA FinishInv == ASSUME CowrieInv, FinishLine PROVE CowrieInv'
<1>1. UNCHANGED <<line, inodeOf, content, istate, rows, total, purged, stage, frame, outer, todo>>
  BY DEF FinishLine, readerVars, historyVars
<1>2. LogInv'
  BY <1>1 DEF CowrieInv, LogInv
<1> QED
  BY <1>1, <1>2, LogStep

-----------------------------------------------------------------------------
(* A pass up to its transaction *)

(* What a reader takes in hand next. *)
Good(s, g, o, t) ==
  /\ s \in Stages /\ g \in Frame /\ o \in Frame /\ t \in SUBSET Sibling
  /\ s \in {"examine", "read"} => g.inode \in DOMAIN content /\ g.batch = {}
  /\ o.batch = {} /\ (o # NoFrame => o.inode \in DOMAIN content)
  /\ \A f \in t : inodeOf[f] # 0
  /\ Apart(g.batch)
  /\ s \in {"fold", "commit"} => \A r \in g.batch : ~Stored(r.line)
  /\ s = "commit" => \A a \in CowrieActor : Agrees(a, g.seed[a])

LEMMA HandStep ==
  ASSUME CowrieInv, NEW p \in Reader, NEW s, NEW g, NEW o, NEW t, Good(s, g, o, t),
         stage' = [stage EXCEPT ![p] = s], frame' = [frame EXCEPT ![p] = g],
         outer' = [outer EXCEPT ![p] = o], todo' = [todo EXCEPT ![p] = t],
         UNCHANGED <<line, inodeOf, content, rows, total, purged>>, istate' \in [Path -> States]
  PROVE  CowrieInv'
<1>1. LogInv' /\ TableInv'
  BY DEF CowrieInv, LogInv, TableInv, StoredOnce, Agrees
<1>2. /\ stage' \in [Reader -> Stages] /\ frame' \in [Reader -> Frame] /\ outer' \in [Reader -> Frame]
      /\ todo' \in [Reader -> SUBSET Sibling]
      /\ stage'[p] = s /\ frame'[p] = g /\ outer'[p] = o /\ todo'[p] = t
      /\ \A q \in Reader : q # p => /\ stage'[q] = stage[q] /\ frame'[q] = frame[q]
                                     /\ outer'[q] = outer[q] /\ todo'[q] = todo[q]
  BY DEF CowrieInv, OpenInv, Good
<1>3. OpenInv'
  BY <1>2 DEF CowrieInv, OpenInv, Good
<1>4. ASSUME NEW a, NEW n PROVE Agrees(a, n)' <=> Agrees(a, n)
  BY DEF Agrees
<1>5. ASSUME NEW n PROVE Stored(n)' <=> Stored(n)
  BY DEF Stored
<1>6. BatchInv'
  <2> SUFFICES ASSUME NEW q \in Reader
               PROVE  /\ Apart(frame'[q].batch)
                      /\ stage'[q] \in {"fold", "commit"} => \A r \in frame'[q].batch : ~Stored(r.line)'
                      /\ stage'[q] = "commit" => \A a \in CowrieActor : Agrees(a, frame[q].seed[a])'
    BY DEF BatchInv
  <2>1. CASE q = p
    BY <1>2, <1>4, <1>5, <2>1 DEF Good, Agrees, Stored
  <2>2. CASE q # p
    BY <1>2, <1>4, <1>5, <2>2 DEF CowrieInv, BatchInv, Agrees, Stored
  <2> QED
    BY <2>1, <2>2
<1> QED
  BY <1>1, <1>3, <1>6 DEF CowrieInv

LEMMA InHand ==
  ASSUME CowrieInv, NEW p \in Reader
  PROVE  /\ Good(stage[p], frame[p], outer[p], todo[p])
         /\ stage = [stage EXCEPT ![p] = stage[p]] /\ frame = [frame EXCEPT ![p] = frame[p]]
         /\ outer = [outer EXCEPT ![p] = outer[p]] /\ todo = [todo EXCEPT ![p] = todo[p]]
         /\ istate \in [Path -> States]
BY DEF CowrieInv, LogInv, OpenInv, BatchInv, Good

(* The same when only the reader's own step and frame change. *)
LEMMA FrameStep ==
  ASSUME CowrieInv, NEW p \in Reader, NEW s, NEW g, Good(s, g, outer[p], todo[p]),
         stage' = [stage EXCEPT ![p] = s], frame' = [frame EXCEPT ![p] = g],
         UNCHANGED <<outer, todo, line, inodeOf, content, rows, total, purged, istate>>
  PROVE  CowrieInv'
<1>1. PICK o, t : o = outer[p] /\ t = todo[p]
  OBVIOUS
<1>2. Good(s, g, o, t)
  BY <1>1
<1>3. outer' = [outer EXCEPT ![p] = o] /\ todo' = [todo EXCEPT ![p] = t]
  BY <1>1, InHand
<1>4. istate' \in [Path -> States]
  BY InHand
<1>5. UNCHANGED <<line, inodeOf, content, rows, total, purged>>
  OBVIOUS
<1> QED
  BY <1>2, <1>3, <1>4, <1>5, HandStep

LEMMA EmptyFrame == NoFrame \in Frame /\ NoFrame.batch = {} /\ Apart(NoFrame.batch)
<1>1. 0 \in Nat /\ << >> \in Seq(Nat) /\ {} \in SUBSET Session
  OBVIOUS
<1>2. NoFrame \in Frame /\ NoFrame.batch = {}
  BY CowrieNames, <1>1 DEF NoFrame, NoSig, Frame, Total
<1> QED
  BY <1>2, FS_EmptySet DEF Apart

LEMMA OpenedFrame ==
  ASSUME CowrieInv, NEW f \in Path, inodeOf[f] # 0
  PROVE  /\ Opened(f) \in Frame /\ Opened(f).inode \in DOMAIN content
         /\ Opened(f).batch = {} /\ Apart(Opened(f).batch)
<1>1. inodeOf[f] \in DOMAIN content /\ content \in Seq(Seq(1 .. Len(line)))
  BY DEF CowrieInv, LogInv
<1>2. PICK i, n : i = inodeOf[f] /\ n = Len(content[inodeOf[f]])
  OBVIOUS
<1>3. i \in Nat /\ n \in Nat
  BY <1>1, <1>2
<1>4. PICK g : g = Opened(f)
  OBVIOUS
<1>5. g = [NoFrame EXCEPT !.path = f, !.inode = i, !.size = n]
  BY <1>2, <1>4 DEF Opened
<1>6. g \in Frame /\ g.inode = i /\ g.batch = {}
  BY <1>3, <1>5, EmptyFrame DEF Frame
<1> QED
  BY <1>1, <1>2, <1>4, <1>6, FS_EmptySet DEF Apart

LEMMA PollInv == ASSUME CowrieInv, NEW p \in Reader, Poll(p) PROVE CowrieInv'
<1>1. /\ UNCHANGED <<line, inodeOf, content, rows, total, purged, istate, outer>>
      /\ \/ stage' = [stage EXCEPT ![p] = "examine"] /\ frame' = [frame EXCEPT ![p] = Opened(Log)] /\ todo' = todo
         \/ /\ stage' = [stage EXCEPT ![p] = "backfill"] /\ frame' = frame
            /\ todo' = [todo EXCEPT ![p] = {f \in Sibling : inodeOf[f] # 0}]
  BY DEF Poll, Stage, Hold, fileVars, historyVars
<1>2. inodeOf[Log] # 0 /\ Log \in Path
  BY CowrieNames DEF CowrieInv, LogInv
<1>3. Good("examine", Opened(Log), outer[p], todo[p])
  BY <1>2, InHand, OpenedFrame DEF Good, Stages
<1>4. Good("backfill", frame[p], outer[p], {f \in Sibling : inodeOf[f] # 0})
  BY InHand DEF Good, Stages
<1>5. CASE stage' = [stage EXCEPT ![p] = "examine"] /\ frame' = [frame EXCEPT ![p] = Opened(Log)] /\ todo' = todo
  <2>1. PICK s, g : s = "examine" /\ g = Opened(Log)
    OBVIOUS
  <2>2. Good(s, g, outer[p], todo[p])
    BY <1>3, <2>1
  <2>3. stage' = [stage EXCEPT ![p] = s] /\ frame' = [frame EXCEPT ![p] = g]
    BY <1>5, <2>1
  <2>4. UNCHANGED <<outer, todo, line, inodeOf, content, rows, total, purged, istate>>
    BY <1>1, <1>5
  <2> QED
    BY <2>2, <2>3, <2>4, FrameStep
<1>6. CASE /\ stage' = [stage EXCEPT ![p] = "backfill"] /\ frame' = frame
           /\ todo' = [todo EXCEPT ![p] = {f \in Sibling : inodeOf[f] # 0}]
  <2>1. PICK t : t = {f \in Sibling : inodeOf[f] # 0}
    OBVIOUS
  <2>2. /\ outer' = [outer EXCEPT ![p] = outer[p]] /\ frame' = [frame EXCEPT ![p] = frame[p]]
        /\ todo' = [todo EXCEPT ![p] = t] /\ stage' = [stage EXCEPT ![p] = "backfill"]
        /\ istate' \in [Path -> States]
    BY <1>1, <1>6, <2>1, InHand
  <2>3. Good("backfill", frame[p], outer[p], t)
    BY <1>4, <2>1
  <2>4. UNCHANGED <<line, inodeOf, content, rows, total, purged>>
    BY <1>1
  <2> QED
    BY <2>2, <2>3, <2>4, HandStep
<1> QED
  BY <1>1, <1>5, <1>6

LEMMA ExamineInv == ASSUME CowrieInv, NEW p \in Reader, Examine(p) PROVE CowrieInv'
<1>1. PICK h, prev, sig, next :
        /\ h = frame[p] /\ prev = istate[h.path] /\ sig = HeadOf(h.inode)
        /\ next = [h EXCEPT !.sig = sig, !.start = ResumeAt(prev, h.inode, h.size, sig)]
  OBVIOUS
<1>2. /\ stage[p] = "examine" /\ UNCHANGED <<line, inodeOf, content, rows, total, purged, istate>>
      /\ \/ /\ stage' = [stage EXCEPT ![p] = "backfill"] /\ frame' = [frame EXCEPT ![p] = NoFrame]
            /\ outer' = [outer EXCEPT ![p] = next]
            /\ todo' = [todo EXCEPT ![p] = {f \in Sibling : inodeOf[f] # 0}]
         \/ /\ stage' = [stage EXCEPT ![p] = "read"] /\ frame' = [frame EXCEPT ![p] = next]
            /\ UNCHANGED <<outer, todo>>
  BY <1>1 DEF Examine, Stage, Hold, fileVars, historyVars
<1>3. /\ h \in Frame /\ h.inode \in DOMAIN content /\ Good("examine", h, outer[p], todo[p])
      /\ istate[h.path] \in States /\ content \in Seq(Seq(1 .. Len(line)))
  <2>1. Good(stage[p], frame[p], outer[p], todo[p]) /\ istate \in [Path -> States]
    BY InHand
  <2>2. h \in Frame /\ Good("examine", h, outer[p], todo[p])
    BY <1>1, <1>2, <2>1 DEF Good
  <2>3. h.path \in Path
    BY <2>2 DEF Frame
  <2> QED
    BY <2>1, <2>2, <2>3 DEF Good, CowrieInv, LogInv
<1>4. sig \in Seq(Nat)
  <2>1. PICK c : c = content[h.inode]
    OBVIOUS
  <2>2. c \in Seq(1 .. Len(line)) /\ Len(c) \in Nat /\ HeadLen \in Nat /\ 0 \in Nat /\ 0 + 1 = 1
    BY <1>3, <2>1, HeadAssumption
  <2>3. sig = IF Len(c) < HeadLen THEN << >> ELSE SubSeq(c, 1, HeadLen)
    BY <1>1, <2>1 DEF HeadOf, NoSig
  <2>4. CASE HeadLen <= Len(c)
    <3>1. \A i \in 1 .. HeadLen : c[i] \in Nat
      BY <2>2, <2>4
    <3>2. SubSeq(c, 1, HeadLen) \in Seq(Nat)
      BY <2>2, <3>1, SubSeqProperties
    <3> QED
      BY <2>2, <2>3, <2>4, <3>2
  <2> QED
    BY <2>2, <2>3, <2>4
<1>5. PICK start : start = ResumeAt(prev, h.inode, h.size, sig)
  OBVIOUS
<1>6. start \in Nat
  <2>1. prev.offset \in Nat
    BY <1>1, <1>3 DEF States
  <2> QED
    BY <1>5, <2>1 DEF ResumeAt
<1>7. next = [h EXCEPT !.sig = sig, !.start = start]
  BY <1>1, <1>5
<1>8. next \in Frame /\ next.inode = h.inode /\ next.batch = h.batch
  BY <1>3, <1>4, <1>6, <1>7 DEF Frame
<1>9. Good("read", next, outer[p], todo[p])
  BY <1>3, <1>8 DEF Good, Stages
<1>10. Good("backfill", NoFrame, next, {f \in Sibling : inodeOf[f] # 0})
  BY <1>3, <1>8, EmptyFrame DEF Good, Stages
<1>11. /\ outer = [outer EXCEPT ![p] = outer[p]] /\ todo = [todo EXCEPT ![p] = todo[p]]
       /\ istate' \in [Path -> States]
  BY <1>2, InHand
<1>12. CASE /\ stage' = [stage EXCEPT ![p] = "backfill"] /\ frame' = [frame EXCEPT ![p] = NoFrame]
            /\ outer' = [outer EXCEPT ![p] = next]
            /\ todo' = [todo EXCEPT ![p] = {f \in Sibling : inodeOf[f] # 0}]
  BY <1>2, <1>10, <1>11, <1>12, HandStep
<1>13. CASE /\ stage' = [stage EXCEPT ![p] = "read"] /\ frame' = [frame EXCEPT ![p] = next]
            /\ UNCHANGED <<outer, todo>>
  <2>1. /\ outer' = [outer EXCEPT ![p] = outer[p]] /\ todo' = [todo EXCEPT ![p] = todo[p]]
        /\ stage' = [stage EXCEPT ![p] = "read"] /\ frame' = [frame EXCEPT ![p] = next]
    BY <1>11, <1>13
  <2>2. UNCHANGED <<line, inodeOf, content, rows, total, purged>> /\ istate' \in [Path -> States]
    BY <1>2, <1>11
  <2> QED
    BY <1>9, <2>1, <2>2, HandStep
<1> QED
  BY <1>2, <1>12, <1>13

LEMMA NextFileInv == ASSUME CowrieInv, NEW p \in Reader, NextFile(p) PROVE CowrieInv'
<1>1. stage[p] = "backfill" /\ UNCHANGED <<line, inodeOf, content, rows, total, purged, istate>>
  BY DEF NextFile, fileVars, historyVars
<1>2. /\ Good("backfill", frame[p], outer[p], todo[p])
      /\ frame = [frame EXCEPT ![p] = frame[p]] /\ outer = [outer EXCEPT ![p] = outer[p]]
      /\ todo = [todo EXCEPT ![p] = todo[p]] /\ istate' \in [Path -> States]
  BY <1>1, InHand
<1>3. CASE /\ todo[p] # {} /\ stage' = [stage EXCEPT ![p] = "examine"]
           /\ frame' = [frame EXCEPT ![p] = Opened(Min(todo[p]))]
           /\ todo' = [todo EXCEPT ![p] = todo[p] \ {Min(todo[p])}] /\ outer' = outer
  <2>1. PICK f, t : f = Min(todo[p]) /\ t = todo[p] \ {f}
    OBVIOUS
  <2>2. todo[p] \in SUBSET Nat /\ todo[p] # {}
    BY <1>2, <1>3, CowrieNames DEF Good
  <2>3. f \in todo[p]
    BY <2>1, <2>2, NatMin
  <2>4. f \in Path /\ inodeOf[f] # 0
    BY <1>2, <2>3 DEF Good, Path
  <2>5. Good("examine", Opened(f), outer[p], t)
    BY <1>2, <2>1, <2>4, OpenedFrame DEF Good, Stages
  <2>6. outer' = [outer EXCEPT ![p] = outer[p]] /\ frame' = [frame EXCEPT ![p] = Opened(f)]
        /\ todo' = [todo EXCEPT ![p] = t] /\ stage' = [stage EXCEPT ![p] = "examine"]
    BY <1>2, <1>3, <2>1
  <2>7. UNCHANGED <<line, inodeOf, content, rows, total, purged>> /\ istate' \in [Path -> States]
    BY <1>1, <1>2
  <2> QED
    BY <2>5, <2>6, <2>7, HandStep
<1>4. CASE /\ outer[p] # NoFrame /\ stage' = [stage EXCEPT ![p] = "read"]
           /\ frame' = [frame EXCEPT ![p] = outer[p]] /\ outer' = [outer EXCEPT ![p] = NoFrame]
           /\ todo' = todo
  <2>1. PICK g : g = outer[p]
    OBVIOUS
  <2>2. Good("read", g, NoFrame, todo[p])
    BY <1>2, <1>4, <2>1, FS_EmptySet, EmptyFrame DEF Good, Stages, Apart
  <2>3. /\ stage' = [stage EXCEPT ![p] = "read"] /\ frame' = [frame EXCEPT ![p] = g]
        /\ outer' = [outer EXCEPT ![p] = NoFrame] /\ todo' = [todo EXCEPT ![p] = todo[p]]
    BY <1>2, <1>4, <2>1
  <2>4. UNCHANGED <<line, inodeOf, content, rows, total, purged>> /\ istate' \in [Path -> States]
    BY <1>1, <1>2
  <2> QED
    BY <2>2, <2>3, <2>4, HandStep
<1>5. CASE /\ stage' = [stage EXCEPT ![p] = "idle"] /\ outer' = [outer EXCEPT ![p] = NoFrame]
           /\ todo' = todo /\ frame' = frame
  <2>1. Good("idle", frame[p], NoFrame, todo[p])
    BY <1>2, EmptyFrame DEF Good, Stages
  <2>2. frame' = [frame EXCEPT ![p] = frame[p]] /\ todo' = [todo EXCEPT ![p] = todo[p]]
    BY <1>2, <1>5
  <2> QED
    BY <1>1, <1>2, <1>5, <2>1, <2>2, HandStep
<1> QED
  BY <1>3, <1>4, <1>5 DEF NextFile, Stage, Hold

LEMMA LineTyped ==
  ASSUME CowrieInv, NEW n \in 1 .. Len(line)
  PROVE  n \in Nat /\ line[n].session \in Session
<1>1. PICK T : T = [session : Session, kex : BOOLEAN]
  OBVIOUS
<1>2. line \in Seq(T)
  BY <1>1 DEF CowrieInv, LogInv
<1>3. line[n] \in T /\ n \in Nat
  BY <1>2
<1> QED
  BY <1>1, <1>3

(* The events of some lines: finitely many, each of a line of its own. *)
LEMMA EventsOf ==
  ASSUME CowrieInv, NEW N, N \subseteq 1 .. Len(line), IsFiniteSet(N), NEW known,
         NEW batch, \A x : x \in batch <=> \E n \in N : ~line[n].kex /\ x = Row(n, known)
  PROVE  batch \in SUBSET Fresh /\ Apart(batch)
<1>1. PICK K : K = {k \in N : ~line[k].kex}
  OBVIOUS
<1>2. IsFiniteSet(K) /\ K \subseteq 1 .. Len(line)
  BY <1>1, FS_Subset
<1>3. PICK f : f = [n \in K |-> Row(n, known)]
  OBVIOUS
<1>4. batch = {f[n] : n \in K}
  <2>1. \A x : x \in batch <=> \E n \in K : x = Row(n, known)
    BY <1>1
  <2>2. \A n \in K : f[n] = Row(n, known)
    BY <1>3
  <2>3. \A x : x \in batch <=> \E n \in K : x = f[n]
    BY <2>1, <2>2
  <2> QED
    BY <2>3
<1>5. IsFiniteSet(batch)
  <2>1. DOMAIN f = K /\ f = [n \in K |-> f[n]]
    BY <1>3
  <2> QED
    BY <1>2, <1>4, <2>1, FiniteImage
<1>6. ASSUME NEW n \in K
      PROVE  f[n] \in Fresh /\ f[n].line = n
  <2>1. n \in 1 .. Len(line)
    BY <1>2
  <2>2. n \in Nat /\ line[n].session \in Session
    BY <2>1, LineTyped
  <2>3. ActorFor(n, known) \in CowrieActor
    BY <2>2, CowrieNames DEF ActorFor
  <2>4. f[n] = [line |-> n, actor |-> ActorFor(n, known), copy |-> 0]
    BY <1>3 DEF Row
  <2> QED
    BY <2>2, <2>3, <2>4 DEF Fresh
<1>8. \A r, q \in batch : r.line = q.line => r = q
  <2>1. ASSUME NEW r \in batch PROVE r = f[r.line] /\ r.line \in K
    BY <1>4, <1>6
  <2> QED
    BY <2>1
<1>9. batch \in SUBSET Fresh
  BY <1>4, <1>6
<1> QED
  BY <1>5, <1>8, <1>9 DEF Apart

LEMMA OffsetTyped ==
  ASSUME NEW h \in Frame, NEW end \in Int
  PROVE  NewOffset(h, end) \in Nat
<1>1. PICK a, b : a = h.start /\ b = h.size
  OBVIOUS
<1>2. a \in Nat /\ b \in Nat
  BY <1>1 DEF Frame
<1>3. PICK m : m = Max({a, end})
  OBVIOUS
<1>4. IsFiniteSet({a, end})
  <2>1. IsFiniteSet({a}) /\ {a, end} = {a} \cup {end}
    BY FS_Singleton
  <2> QED
    BY <2>1, FS_AddElement
<1>5. m \in {a, end} /\ m >= a
  BY <1>2, <1>3, <1>4, FiniteMax
<1>6. m \in Nat
  <2>1. m \in Int /\ a \in Int /\ 0 <= a
    BY <1>2, <1>5
  <2> QED
    BY <1>5, <2>1
<1>7. Min({m, b}) \in {m, b}
  <2>1. m \in Int /\ b \in Int
    BY <1>2, <1>6
  <2> QED
    BY <2>1, LeastOfTwo
<1> QED
  BY <1>1, <1>2, <1>3, <1>6, <1>7 DEF NewOffset

LEMMA ReadInv == ASSUME CowrieInv, NEW p \in Reader, Read(p) PROVE CowrieInv'
<1>1. PICK h, end, c, read, known :
        /\ h = frame[p] /\ end = Terminated(h.inode) /\ c = content[h.inode]
        /\ read = SubSeq(c, h.start + 1, end) /\ known = Bind(read)
  OBVIOUS
<1>2. PICK e, late, batch : /\ e = NewOffset(h, end) /\ late = KexSessions(read)
                            /\ batch = {Row(n, known) : n \in EventLines(read)}
  OBVIOUS
<1>3. PICK g : g = [h EXCEPT !.end = e, !.late = late, !.batch = batch]
  OBVIOUS
<1>4. /\ stage[p] = "read" /\ stage' = [stage EXCEPT ![p] = "reconcile"]
      /\ frame' = [frame EXCEPT ![p] = g]
      /\ UNCHANGED <<outer, todo, line, inodeOf, content, rows, total, purged, istate>>
  BY <1>1, <1>2, <1>3 DEF Read, Stage, Hold, CallUnchanged, fileVars, historyVars
<1>5. Good("read", h, outer[p], todo[p])
  BY <1>1, <1>4, InHand
<1>6. h \in Frame /\ h.start \in Nat /\ c \in Seq(1 .. Len(line)) /\ Len(c) \in Nat
  <2>1. h \in Frame /\ h.inode \in DOMAIN content
    BY <1>5 DEF Good
  <2>2. content \in Seq(Seq(1 .. Len(line)))
    BY DEF CowrieInv, LogInv
  <2>3. c \in Seq(1 .. Len(line))
    BY <1>1, <2>1, <2>2
  <2> QED
    BY <2>1, <2>3 DEF Frame
<1>7. end \in Int /\ end <= Len(c)
  <2>1. PICK m : m = IF torn /\ h.inode = inodeOf[Log] THEN 1 ELSE 0
    OBVIOUS
  <2>2. m \in {0, 1} /\ end = Len(c) - m
    BY <1>1, <2>1 DEF Terminated
  <2> QED
    BY <1>6, <2>2
<1>8. ToSet(read) \subseteq 1 .. Len(line) /\ IsFiniteSet(ToSet(read))
  BY <1>1, <1>6, <1>7, PartOf
<1>9. late \in SUBSET Session
  BY <1>2, <1>8, LineTyped DEF KexSessions
<1>10. batch \in SUBSET Fresh /\ Apart(batch)
  <2>1. PICK N : N = ToSet(read)
    OBVIOUS
  <2>2. ASSUME NEW x PROVE x \in batch <=> \E n \in N : ~line[n].kex /\ x = Row(n, known)
    BY <1>2, <2>1 DEF EventLines
  <2>3. N \subseteq 1 .. Len(line) /\ IsFiniteSet(N)
    BY <1>8, <2>1
  <2>4. \A x : x \in batch <=> \E n \in N : ~line[n].kex /\ x = Row(n, known)
    BY <2>2
  <2>5. CowrieInv
    OBVIOUS
  <2> QED
    BY <2>3, <2>4, <2>5, EventsOf
<1>11. e \in Nat
  BY <1>2, <1>6, <1>7, OffsetTyped
<1>12. g \in Frame /\ g.batch = batch
  BY <1>3, <1>6, <1>9, <1>10, <1>11 DEF Frame
<1>13. Good("reconcile", g, outer[p], todo[p])
  BY <1>5, <1>10, <1>12 DEF Good, Stages
<1> QED
  BY <1>4, <1>13, FrameStep

LEMMA ReconciledInv == ASSUME CowrieInv, NEW p \in Reader, Reconciled(p) PROVE CowrieInv'
<1>1. /\ stage[p] = "reconcile" /\ stage' = [stage EXCEPT ![p] = "dedup"]
      /\ UNCHANGED <<frame, outer, todo, line, inodeOf, content, rows, total, purged, istate>>
  BY DEF Reconciled, Stage, CallUnchanged, fileVars, historyVars
<1>2. Good("dedup", frame[p], outer[p], todo[p])
  BY InHand DEF Good, Stages
<1>3. frame' = [frame EXCEPT ![p] = frame[p]]
  BY <1>1, InHand
<1>4. /\ stage' = [stage EXCEPT ![p] = "dedup"]
      /\ UNCHANGED <<outer, todo, line, inodeOf, content, rows, total, purged, istate>>
  BY <1>1
<1> QED
  BY <1>2, <1>3, <1>4, FrameStep

(* What the dedup lets through is not stored. *)
LEMMA DedupInv == ASSUME CowrieInv, NEW p \in Reader, Dedup(p) PROVE CowrieInv'
<1>1. PICK h, batch, g, s :
        /\ h = frame[p] /\ batch = Unseen(h.batch) /\ g = [h EXCEPT !.batch = batch]
        /\ s = IF batch = {} THEN "save" ELSE "fold"
  OBVIOUS
<1>2. /\ stage' = [stage EXCEPT ![p] = s] /\ frame' = [frame EXCEPT ![p] = g]
      /\ UNCHANGED <<outer, todo, line, inodeOf, content, rows, total, purged, istate>>
  BY <1>1 DEF Dedup, Stage, Hold, CallUnchanged, fileVars, historyVars
<1>3. Good(stage[p], h, outer[p], todo[p])
  BY <1>1, InHand
<1>4. batch \subseteq h.batch /\ \A r \in batch : ~Stored(r.line)
  BY <1>1 DEF Unseen
<1>5. Apart(batch)
  BY <1>3, <1>4, FS_Subset DEF Good, Apart
<1>6. g \in Frame /\ g.batch = batch
  BY <1>1, <1>3, <1>4 DEF Good, Frame
<1>7. Good(s, g, outer[p], todo[p])
  BY <1>1, <1>3, <1>4, <1>5, <1>6 DEF Good, Stages
<1> QED
  BY <1>2, <1>7, FrameStep

LEMMA FoldInv == ASSUME CowrieInv, NEW p \in Reader, Fold(p) PROVE CowrieInv'
<1>1. PICK h, g : h = frame[p] /\ g = [h EXCEPT !.seed = total]
  OBVIOUS
<1>2. /\ stage[p] = "fold" /\ stage' = [stage EXCEPT ![p] = "commit"] /\ frame' = [frame EXCEPT ![p] = g]
      /\ UNCHANGED <<outer, todo, line, inodeOf, content, rows, total, purged, istate>>
  BY <1>1 DEF Fold, Stage, Hold, CallUnchanged, fileVars, historyVars
<1>3. Good("fold", h, outer[p], todo[p])
  BY <1>1, <1>2, InHand
<1>4. total \in Total /\ \A a \in CowrieActor : Agrees(a, total[a])
  BY DEF CowrieInv, TableInv
<1>5. g \in Frame /\ g.batch = h.batch /\ g.seed = total
  BY <1>1, <1>3, <1>4 DEF Good, Frame
<1>6. Good("commit", g, outer[p], todo[p])
  BY <1>3, <1>4, <1>5 DEF Good, Stages
<1> QED
  BY <1>2, <1>6, FrameStep

LEMMA SaveOffsetInv == ASSUME CowrieInv, NEW p \in Reader, SaveOffset(p) PROVE CowrieInv'
<1>1. PICK h, saved, s :
        /\ h = frame[p] /\ saved = [inode |-> h.inode, offset |-> h.end, sig |-> h.sig]
        /\ s = IF InBackfill(p) THEN "backfill" ELSE "idle"
  OBVIOUS
<1>2. /\ istate' = [istate EXCEPT ![h.path] = saved]
      /\ stage' = [stage EXCEPT ![p] = s] /\ frame' = [frame EXCEPT ![p] = NoFrame]
      /\ UNCHANGED <<outer, todo, line, inodeOf, content, rows, total, purged>>
  BY <1>1 DEF SaveOffset, Return, Stage, Hold, CallUnchanged, fileVars, historyVars
<1>3. Good(stage[p], h, outer[p], todo[p]) /\ istate \in [Path -> States]
  BY <1>1, InHand
<1>4. h.path \in Path /\ saved \in States
  BY <1>1, <1>3 DEF Good, Frame, States
<1>5. istate' \in [Path -> States]
  BY <1>2, <1>3, <1>4
<1>6. Good(s, NoFrame, outer[p], todo[p])
  BY <1>1, <1>3, EmptyFrame DEF Good, Stages
<1>7. outer' = [outer EXCEPT ![p] = outer[p]] /\ todo' = [todo EXCEPT ![p] = todo[p]]
  BY <1>2, InHand
<1> QED
  BY <1>2, <1>5, <1>6, <1>7, HandStep

LEMMA FailInv == ASSUME CowrieInv, NEW p \in Reader, FailPass(p) \/ Die(p) PROVE CowrieInv'
<1>1. UNCHANGED <<line, inodeOf, content, rows, total, purged, istate>>
  BY DEF FailPass, Die, fileVars, historyVars
<1>2. /\ Good(stage[p], frame[p], outer[p], todo[p])
      /\ outer = [outer EXCEPT ![p] = outer[p]] /\ todo = [todo EXCEPT ![p] = todo[p]]
      /\ istate' \in [Path -> States]
  BY <1>1, InHand
<1>3. CASE FailPass(p)
  <2>1. PICK s : s = IF InBackfill(p) THEN "backfill" ELSE "idle"
    OBVIOUS
  <2>2. /\ stage' = [stage EXCEPT ![p] = s] /\ frame' = [frame EXCEPT ![p] = NoFrame]
        /\ outer' = [outer EXCEPT ![p] = outer[p]] /\ todo' = [todo EXCEPT ![p] = todo[p]]
    BY <1>2, <1>3, <2>1 DEF FailPass, Return, Stage, Hold
  <2>3. Good(s, NoFrame, outer[p], todo[p])
    BY <1>2, <2>1, EmptyFrame DEF Good, Stages
  <2> QED
    BY <1>1, <1>2, <2>2, <2>3, HandStep
<1>4. CASE Die(p)
  <2>1. /\ stage' = [stage EXCEPT ![p] = "idle"] /\ frame' = [frame EXCEPT ![p] = NoFrame]
        /\ outer' = [outer EXCEPT ![p] = NoFrame] /\ todo' = [todo EXCEPT ![p] = {}]
    BY <1>4 DEF Die, Stage, Hold
  <2>2. Good("idle", NoFrame, NoFrame, {})
    BY EmptyFrame DEF Good, Stages
  <2> QED
    BY <1>1, <1>2, <2>1, <2>2, HandStep
<1> QED
  BY <1>3, <1>4

-----------------------------------------------------------------------------
(* Transactions *)

(* A late fingerprint takes its rows out of their actors' totals. *)
LEMMA MovedRows ==
  ASSUME CowrieInv, NEW s, rows' = Moved(s), total' = MovedTotals(s), UNCHANGED purged
  PROVE  TableInv'
<1>1. /\ rows \in SUBSET Event /\ IsFiniteSet(rows) /\ StoredOnce /\ total \in Total /\ purged \in Total
      /\ \A a \in CowrieActor : Agrees(a, total[a])
  BY DEF CowrieInv, TableInv
<1>2. PICK M, f : M = Strays(s) /\ f = [e \in M |-> [e EXCEPT !.actor = Hassh]]
  OBVIOUS
<1>3. M \in SUBSET rows /\ IsFiniteSet(M) /\ Cardinality(M) \in Nat /\ \A e \in M : e.actor # Hassh
  <2>1. M \in SUBSET rows /\ \A e \in M : e.actor # Hassh
    BY <1>2 DEF Strays
  <2> QED
    BY <1>1, <2>1, FS_Subset, FS_CardinalityType
<1>4. PICK I : I = {f[e] : e \in M}
  OBVIOUS
<1>5. rows' = (rows \ M) \cup I
  BY <1>2, <1>4 DEF Moved
<1>6. ASSUME NEW e \in M PROVE f[e] \in Event /\ f[e].line = e.line /\ f[e].actor = Hassh /\ e \in rows
  <2>1. e \in Event /\ f[e] = [e EXCEPT !.actor = Hassh]
    BY <1>1, <1>2, <1>3
  <2> QED
    BY <1>3, <2>1, CowrieNames DEF Event
<1>7. ASSUME NEW x \in I PROVE \E e \in M : x = f[e] /\ x.line = e.line
  BY <1>4, <1>6
<1>8. ASSUME NEW e \in rows, NEW g \in rows, e.line = g.line PROVE e = g
  BY <1>1, <1>8 DEF StoredOnce
<1>9. IsFiniteSet(I) /\ Cardinality(I) = Cardinality(M)
  <2>1. f \in [M -> I] /\ \A x \in I : \E e \in M : f[e] = x
    BY <1>2, <1>4
  <2>2. \A e, g \in M : f[e] = f[g] => e = g
    BY <1>6, <1>8
  <2>3. f \in Bijection(M, I)
    BY <2>1, <2>2 DEF Bijection, Injection, Surjection, IsInjective
  <2>4. ExistsBijection(M, I)
    BY <2>3 DEF ExistsBijection
  <2> QED
    BY <1>3, <2>4, FS_Bijection
<1>10. rows' \in SUBSET Event /\ IsFiniteSet(rows')
  <2>1. IsFiniteSet(rows \ M)
    BY <1>1, FS_Difference
  <2>2. IsFiniteSet((rows \ M) \cup I)
    BY <1>9, <2>1, FS_Union
  <2> QED
    BY <1>1, <1>5, <1>6, <1>7, <2>2
<1>11. StoredOnce'
  <2>1. ASSUME NEW x \in rows', NEW y \in rows', x.line = y.line PROVE x = y
    <3>1. CASE x \in I /\ y \in I
      BY <1>3, <1>7, <1>8, <2>1, <3>1
    <3>2. CASE x \in rows \ M /\ y \in I
      BY <1>3, <1>7, <1>8, <2>1, <3>2
    <3>3. CASE x \in I /\ y \in rows \ M
      BY <1>3, <1>7, <1>8, <2>1, <3>3
    <3>4. CASE x \in rows \ M /\ y \in rows \ M
      BY <1>8, <2>1, <3>4
    <3> QED
      BY <1>5, <3>1, <3>2, <3>3, <3>4
  <2> QED
    BY <2>1 DEF StoredOnce
<1>12. ASSUME NEW a \in CowrieActor
       PROVE  total'[a] - total[a] = Cardinality(RowsOf(a, rows')) - Cardinality(RowsOf(a, rows))
              /\ total'[a] \in Int
  <2>1. total[a] \in Int /\ DOMAIN total' = CowrieActor
        /\ IsFiniteSet(RowsOf(a, rows)) /\ Cardinality(RowsOf(a, rows)) \in Nat
    BY <1>1, Counted DEF CowrieInv, Total, MovedTotals
  <2>2. CASE a = Hassh
    <3>1. total'[a] = total[a] + Cardinality(M)
      BY <1>2, <2>2 DEF MovedTotals
    <3>2. RowsOf(a, rows') = RowsOf(a, rows) \cup I
      BY <1>3, <1>4, <1>5, <1>6, <2>2 DEF RowsOf
    <3>3. RowsOf(a, rows) \cap I = {}
      <4>1. ASSUME NEW x \in RowsOf(a, rows), x \in I PROVE FALSE
        <5>1. x \in rows /\ x.actor = Hassh
          BY <2>2 DEF RowsOf
        <5>2. PICK e \in M : x.line = e.line
          BY <1>7, <4>1
        <5> QED
          BY <1>3, <1>8, <5>1, <5>2
      <4> QED
        BY <4>1
    <3>4. Cardinality(RowsOf(a, rows) \cup I) = Cardinality(RowsOf(a, rows)) + Cardinality(I) - Cardinality({})
      BY <1>9, <2>1, <3>3, FS_Union
    <3>5. Cardinality({}) = 0
      BY FS_EmptySet
    <3> QED
      BY <1>3, <1>9, <2>1, <3>1, <3>2, <3>4, <3>5
  <2>3. CASE a # Hassh
    <3>1. PICK R : R = RowsOf(a, rows)
      OBVIOUS
    <3>2. total'[a] = total[a] - Cardinality(M \cap R)
      BY <1>2, <2>3, <3>1 DEF MovedTotals
    <3>3. RowsOf(a, rows') = R \ M
      BY <1>4, <1>5, <1>6, <2>3, <3>1 DEF RowsOf
    <3>4. Cardinality(R \ M) = Cardinality(R) - Cardinality(R \cap M) /\ R \cap M = M \cap R
      BY <2>1, <3>1, FS_Difference
    <3>5. Cardinality(M \cap R) \in Nat
      BY <1>3, FS_Intersection, FS_CardinalityType
    <3> QED
      BY <2>1, <3>1, <3>2, <3>3, <3>4, <3>5
  <2> QED
    BY <2>2, <2>3
<1>13. ASSUME NEW a \in CowrieActor PROVE Agrees(a, total[a])'
  <2>1. IsFiniteSet(RowsOf(a, rows'))
    <3>1. RowsOf(a, rows') \in SUBSET rows'
      BY DEF RowsOf
    <3> QED
      BY <1>10, <3>1, FS_Subset
  <2>2. Cardinality(RowsOf(a, rows')) \in Nat /\ Cardinality(RowsOf(a, rows)) \in Nat
    BY <2>1, FS_CardinalityType, Counted DEF CowrieInv
  <2>3. Agrees(a, total[a]) /\ purged[a] \in Int /\ total[a] \in Int
    BY <1>1 DEF Total
  <2> QED
    BY <1>12, <2>2, <2>3 DEF Agrees
<1>14. total' \in Total
  BY <1>12 DEF MovedTotals, Total
<1> QED
  BY <1>1, <1>10, <1>11, <1>13, <1>14 DEF TableInv

LEMMA ReconcileInv ==
  ASSUME CowrieInv, OneReader, NEW p \in Reader, ReconcileSession(p)
  PROVE  CowrieInv'
<1>1. PICK s \in frame[p].late :
        /\ rows' = Moved(s) /\ total' = MovedTotals(s)
        /\ frame' = [frame EXCEPT ![p] = [frame[p] EXCEPT !.late = @ \ {s}]]
  BY DEF ReconcileSession, Hold
<1>2. /\ stage[p] = "reconcile"
      /\ UNCHANGED <<stage, outer, todo, line, inodeOf, content, purged, istate>>
  BY DEF ReconcileSession, CallUnchanged, fileVars, historyVars
<1>3. TableInv'
  BY <1>1, <1>2, MovedRows
<1>4. PICK h, g : h = frame[p] /\ g = [h EXCEPT !.late = h.late \ {s}]
  OBVIOUS
<1>5. h \in Frame /\ frame \in [Reader -> Frame] /\ frame' = [frame EXCEPT ![p] = g]
  BY <1>1, <1>4 DEF CowrieInv, OpenInv
<1>6. g \in Frame /\ g.batch = h.batch
  BY <1>4, <1>5 DEF Frame
<1>7. frame' \in [Reader -> Frame] /\ frame'[p] = g /\ \A q \in Reader : q # p => frame'[q] = frame[q]
  BY <1>5, <1>6
<1>8. LogInv' /\ OpenInv'
  BY <1>2, <1>7 DEF CowrieInv, LogInv, OpenInv
<1>9. BatchInv'
  BY <1>2, <1>4, <1>6, <1>7 DEF CowrieInv, BatchInv, OneReader
<1> QED
  BY <1>3, <1>8, <1>9 DEF CowrieInv

(* A batch adds its lines, each once, to rows and totals alike. *)
LEMMA CommitInv ==
  ASSUME CowrieInv, OneReader, NEW p \in Reader, CommitBatch(p)
  PROVE  CowrieInv'
<1>1. PICK batch, seed : batch = frame[p].batch /\ seed = frame[p].seed
  OBVIOUS
<1>2. /\ stage[p] = "commit" /\ stage' = [stage EXCEPT ![p] = "save"]
      /\ rows' = Appended(batch) /\ total' = Folded(seed, batch)
      /\ UNCHANGED <<frame, outer, todo, line, inodeOf, content, purged, istate>>
  BY <1>1 DEF CommitBatch, Stage, CallUnchanged, fileVars
<1>3. /\ batch \in SUBSET Fresh /\ seed \in Total /\ Apart(batch)
      /\ \A r \in batch : ~Stored(r.line)
      /\ \A a \in CowrieActor : Agrees(a, seed[a])
  BY <1>1, <1>2 DEF CowrieInv, OpenInv, BatchInv, Frame
<1>4. ASSUME NEW r \in batch PROVE [r EXCEPT !.copy = Copies(r.line)] = r
  <2>1. {e \in rows : e.line = r.line} = {}
    BY <1>3 DEF Stored
  <2>2. Copies(r.line) = 0
    BY <2>1, FS_EmptySet DEF Copies
  <2>3. r \in Fresh
    BY <1>3
  <2> QED
    BY <2>2, <2>3 DEF Fresh
<1>5. rows' = rows \cup batch
  BY <1>2, <1>4 DEF Appended
<1>6. /\ rows \in SUBSET Event /\ IsFiniteSet(rows) /\ StoredOnce /\ total \in Total /\ purged \in Total
      /\ \A a \in CowrieActor : Agrees(a, total[a])
  BY DEF CowrieInv, TableInv
<1>7. rows' \in SUBSET Event /\ IsFiniteSet(rows')
  <2>1. batch \subseteq Event /\ IsFiniteSet(batch)
    BY <1>3 DEF Fresh, Event, Apart
  <2>2. IsFiniteSet(rows \cup batch)
    BY <1>6, <2>1, FS_Union
  <2> QED
    BY <1>5, <1>6, <2>1, <2>2
<1>8. StoredOnce'
  BY <1>3, <1>5, <1>6 DEF StoredOnce, Stored, Apart
<1>9. ASSUME NEW a \in CowrieActor PROVE Agrees(a, total[a])' /\ total'[a] \in Int
  <2>1. PICK R, B : R = RowsOf(a, rows) /\ B = {r \in batch : r.actor = a}
    OBVIOUS
  <2>2. IsFiniteSet(R) /\ Cardinality(R) \in Nat
    BY <2>1, Counted DEF CowrieInv
  <2>3. B \in SUBSET batch /\ IsFiniteSet(B) /\ Cardinality(B) \in Nat
    BY <1>3, <2>1, FS_Subset, FS_CardinalityType DEF Apart
  <2>4. RowsOf(a, rows') = R \cup B /\ R \cap B = {}
    BY <1>3, <1>5, <2>1 DEF RowsOf, Stored
  <2>5. Cardinality(R \cup B) = Cardinality(R) + Cardinality(B)
    <3>1. Cardinality(R \cup B) = Cardinality(R) + Cardinality(B) - Cardinality(R \cap B)
      BY <2>2, <2>3, FS_Union
    <3>2. R \cap B = {}
      BY <2>4
    <3>3. Cardinality(R \cap B) = 0
      BY <3>2, FS_EmptySet
    <3> QED
      BY <2>2, <2>3, <3>1, <3>3
  <2>6. total'[a] = IF Cardinality(B) = 0 THEN total[a] ELSE seed[a] + Cardinality(B)
    BY <1>2, <2>1 DEF Folded, BatchOf
  <2>7. /\ total[a] \in Int /\ seed[a] \in Int /\ purged[a] \in Int
        /\ Cardinality(R) <= total[a] /\ total[a] <= Cardinality(R) + purged[a]
        /\ Cardinality(R) <= seed[a] /\ seed[a] <= Cardinality(R) + purged[a]
    BY <1>3, <1>6, <2>1 DEF Total, Agrees
  <2>8. /\ total'[a] \in Int /\ Cardinality(R) + Cardinality(B) <= total'[a]
        /\ total'[a] <= Cardinality(R) + Cardinality(B) + purged[a]
    BY <2>2, <2>3, <2>6, <2>7
  <2> QED
    BY <1>2, <2>4, <2>5, <2>8 DEF Agrees
<1>10. TableInv'
  <2>1. total' \in Total
    BY <1>2, <1>9 DEF Folded, Total
  <2> QED
    BY <1>2, <1>6, <1>7, <1>8, <1>9, <2>1 DEF TableInv
<1>11. LogInv' /\ OpenInv'
  BY <1>2 DEF CowrieInv, LogInv, OpenInv, Stages
<1>12. BatchInv'
  BY <1>2 DEF CowrieInv, OpenInv, BatchInv, OneReader
<1> QED
  BY <1>10, <1>11, <1>12 DEF CowrieInv

(* Retention: fewer rows, the same totals, and those about to be written. *)
LEMMA PurgeInv == ASSUME CowrieInv, NEW n \in DOMAIN line, PurgeEvents(n) PROVE CowrieInv'
<1>1. /\ rows' = {e \in rows : e.line > n}
      /\ purged' = [a \in CowrieActor |-> purged[a] + Cardinality(RowsOf(a, rows)) - Cardinality(RowsOf(a, rows'))]
      /\ UNCHANGED <<total, stage, frame, outer, todo, line, inodeOf, content, istate>>
  BY DEF PurgeEvents, fileVars, readerVars
<1>2. rows' \in SUBSET rows /\ rows' \in SUBSET Event /\ IsFiniteSet(rows')
  BY <1>1, FS_Subset DEF CowrieInv, TableInv
<1>3. ASSUME NEW a \in CowrieActor, NEW m \in Int, Agrees(a, m)
      PROVE  Agrees(a, m)' /\ purged'[a] \in Int
  <2>1. PICK R, S : R = RowsOf(a, rows) /\ S = RowsOf(a, rows')
    OBVIOUS
  <2>2. IsFiniteSet(R) /\ Cardinality(R) \in Nat /\ S \in SUBSET R
    BY <1>2, <2>1, Counted DEF CowrieInv, RowsOf
  <2>3. Cardinality(S) \in Nat /\ Cardinality(S) <= Cardinality(R)
    BY <2>2, FS_Subset, FS_CardinalityType
  <2>4. purged[a] \in Int /\ purged'[a] = purged[a] + Cardinality(R) - Cardinality(S)
    BY <1>1, <2>1 DEF CowrieInv, TableInv, Total
  <2>5. Cardinality(R) <= m /\ m <= Cardinality(R) + purged[a]
    BY <1>3, <2>1 DEF Agrees
  <2>6. Cardinality(S) <= m /\ m <= Cardinality(S) + purged'[a] /\ purged'[a] \in Int
    BY <2>2, <2>3, <2>4, <2>5
  <2> QED
    BY <2>1, <2>6 DEF Agrees
<1>4. /\ total \in Total /\ \A a \in CowrieActor : Agrees(a, total[a])
      /\ StoredOnce
  BY DEF CowrieInv, TableInv
<1>5. TableInv'
  <2>1. \A a \in CowrieActor : Agrees(a, total[a])' /\ purged'[a] \in Int
    BY <1>1, <1>3, <1>4 DEF Total, Agrees
  <2>2. purged' \in Total
    BY <1>1, <2>1 DEF Total
  <2>3. StoredOnce'
    BY <1>2, <1>4 DEF StoredOnce
  <2> QED
    BY <1>1, <1>2, <1>4, <2>1, <2>2, <2>3 DEF TableInv
<1>6. LogInv' /\ OpenInv'
  BY <1>1 DEF CowrieInv, LogInv, OpenInv
<1>7. BatchInv'
  <2>1. ASSUME NEW q \in Reader, stage[q] = "commit", NEW a \in CowrieActor
        PROVE  Agrees(a, frame[q].seed[a])'
    <3>1. frame[q].seed[a] \in Int /\ Agrees(a, frame[q].seed[a])
      BY <2>1 DEF CowrieInv, OpenInv, BatchInv, Frame, Total
    <3> QED
      BY <1>1, <1>3, <3>1 DEF Agrees
  <2>2. ASSUME NEW k, ~Stored(k) PROVE ~Stored(k)'
    BY <1>2, <2>2 DEF Stored
  <2> QED
    BY <1>1, <2>1, <2>2 DEF CowrieInv, BatchInv, Stored
<1> QED
  BY <1>5, <1>6, <1>7 DEF CowrieInv

LEMMA OrphanInv == ASSUME CowrieInv, NEW b \in CowrieActor, PurgeOrphan(b) PROVE CowrieInv'
<1>1. /\ RowsOf(b, rows) = {} /\ purged[b] > 0 /\ total' = [total EXCEPT ![b] = 0]
      /\ UNCHANGED <<rows, purged, stage, frame, outer, todo, line, inodeOf, content, istate>>
  BY DEF PurgeOrphan, fileVars, readerVars, historyVars
<1>2. total \in Total /\ purged \in Total /\ \A a \in CowrieActor : Agrees(a, total[a])
  BY DEF CowrieInv, TableInv
<1>3. total' \in Total /\ total'[b] = 0 /\ \A a \in CowrieActor : a # b => total'[a] = total[a]
  BY <1>1, <1>2 DEF Total
<1>4. ASSUME NEW a \in CowrieActor PROVE Agrees(a, total[a])'
  <2>1. CASE a = b
    <3>1. Cardinality(RowsOf(a, rows)) = 0 /\ purged[a] \in Int /\ purged[a] > 0
      BY <1>1, <1>2, <2>1, FS_EmptySet DEF Total
    <3> QED
      BY <1>1, <1>3, <2>1, <3>1 DEF Agrees
  <2>2. CASE a # b
    BY <1>1, <1>2, <1>3, <2>2 DEF Agrees
  <2> QED
    BY <2>1, <2>2
<1>5. TableInv'
  BY <1>1, <1>3, <1>4 DEF CowrieInv, TableInv, StoredOnce
<1>6. LogInv' /\ OpenInv'
  BY <1>1 DEF CowrieInv, LogInv, OpenInv
<1>7. BatchInv'
  BY <1>1 DEF CowrieInv, BatchInv, Stored, Agrees
<1> QED
  BY <1>5, <1>6, <1>7 DEF CowrieInv

(* `ingest --replace`: the log's lines are the table, and its counts the totals. *)
LEMMA ReplaceInv == ASSUME CowrieInv, OneReader, NEW p \in Reader, Replace(p) PROVE CowrieInv'
<1>0. PICK end \in {Terminated(inodeOf[Log]), Len(content[inodeOf[Log]])} :
        LET read == SubSeq(content[inodeOf[Log]], 1, end)
        IN  rows' = AsRows(EventLines(read), Bind(read)) /\ total' = Counts(rows')
  BY DEF Replace
<1>2a. PICK read, known : read = SubSeq(content[inodeOf[Log]], 1, end) /\ known = Bind(read)
  OBVIOUS
<1>1. /\ end \in {Terminated(inodeOf[Log]), Len(content[inodeOf[Log]])}
      /\ read = SubSeq(content[inodeOf[Log]], 1, end)
      /\ rows' = AsRows(EventLines(read), known) /\ total' = Counts(rows')
  BY <1>0, <1>2a
<1>2. /\ stage[p] = "idle"
      /\ UNCHANGED <<purged, stage, frame, outer, todo, line, inodeOf, content, istate>>
  BY DEF Replace, fileVars, readerVars
<1>3. PICK c : c = content[inodeOf[Log]]
  OBVIOUS
<1>4. c \in Seq(1 .. Len(line)) /\ Len(c) \in Nat
  <2>1. content \in Seq(Seq(1 .. Len(line))) /\ inodeOf[Log] \in DOMAIN content
    BY CowrieNames DEF CowrieInv, LogInv
  <2> QED
    BY <1>3, <2>1
<1>5. end \in Int /\ end <= Len(c)
  <2>1. PICK m : m = IF torn /\ inodeOf[Log] = inodeOf[Log] THEN 1 ELSE 0
    OBVIOUS
  <2>2. m \in {0, 1} /\ end \in {Len(c) - m, Len(c)}
    BY <1>1, <1>3, <2>1 DEF Terminated
  <2> QED
    BY <1>4, <2>2
<1>6. ToSet(read) \subseteq 1 .. Len(line) /\ IsFiniteSet(ToSet(read))
  <2>1. 0 \in Nat /\ 0 + 1 = 1
    OBVIOUS
  <2>2. ToSet(SubSeq(c, 0 + 1, end)) \subseteq 1 .. Len(line) /\ IsFiniteSet(ToSet(SubSeq(c, 0 + 1, end)))
    BY <1>4, <1>5, <2>1, PartOf
  <2> QED
    BY <1>1, <1>3, <2>1, <2>2
<1>7. PICK batch, N : batch = AsRows(EventLines(read), known) /\ N = ToSet(read)
  OBVIOUS
<1>8. batch \in SUBSET Fresh /\ Apart(batch)
  <2>1. \A x : x \in batch <=> \E n \in N : ~line[n].kex /\ x = Row(n, known)
    BY <1>7 DEF AsRows, EventLines
  <2>2. N \subseteq 1 .. Len(line) /\ IsFiniteSet(N) /\ CowrieInv
    BY <1>6, <1>7
  <2> QED
    BY <2>1, <2>2, EventsOf
<1>9. rows' \in SUBSET Event /\ IsFiniteSet(rows') /\ StoredOnce'
  BY <1>1, <1>7, <1>8 DEF Fresh, Event, Apart, StoredOnce
<1>10. ASSUME NEW a \in CowrieActor PROVE Agrees(a, total[a])' /\ total'[a] \in Int
  <2>1. total'[a] = Cardinality(RowsOf(a, rows'))
    BY <1>1 DEF Counts
  <2>2. RowsOf(a, rows') \in SUBSET rows'
    BY DEF RowsOf
  <2>3. Cardinality(RowsOf(a, rows')) \in Nat
    BY <1>9, <2>2, FS_Subset, FS_CardinalityType
  <2>4. purged[a] \in Int /\ purged[a] >= 0
    <3>1. purged[a] \in Int /\ total[a] \in Int /\ Agrees(a, total[a])
      BY DEF CowrieInv, TableInv, Total
    <3>2. Cardinality(RowsOf(a, rows)) \in Nat
      BY Counted DEF CowrieInv
    <3> QED
      BY <3>1, <3>2 DEF Agrees
  <2> QED
    BY <1>2, <2>1, <2>3, <2>4 DEF Agrees
<1>11. total' \in Total
  BY <1>1, <1>10 DEF Counts, Total
<1>12. TableInv'
  BY <1>2, <1>9, <1>10, <1>11 DEF CowrieInv, TableInv
<1>13. LogInv' /\ OpenInv'
  BY <1>2 DEF CowrieInv, LogInv, OpenInv
<1>14. BatchInv'
  BY <1>2 DEF CowrieInv, BatchInv, OneReader
<1> QED
  BY <1>12, <1>13, <1>14 DEF CowrieInv

LEMMA CowrieStep == ASSUME CowrieInv, OneReader, [CowrieNext]_cowrieVars PROVE CowrieInv'
<1>1. CASE UNCHANGED cowrieVars
  <2>1. UNCHANGED <<line, inodeOf, content, istate, rows, total, purged, stage, frame, outer, todo>>
    BY <1>1 DEF cowrieVars, fileVars, readerVars, historyVars
  <2> QED
    BY <2>1 DEF CowrieInv, LogInv, OpenInv, TableInv, BatchInv, StoredOnce, Stored, Agrees
<1>2. CASE CowrieNext
  BY <1>2, WriteLineInv, FinishInv, RotateInv, PollInv, ExamineInv, NextFileInv, ReadInv, ReconcileInv,
     ReconciledInv, DedupInv, FoldInv, CommitInv, SaveOffsetInv, FailInv, ReplaceInv, PurgeInv, OrphanInv
     DEF CowrieNext, PassStep
<1> QED
  BY <1>1, <1>2

(* Where one process ingests, no line is stored twice and every total      *)
(* agrees with the events, for any log, rotation, failures, crashes,       *)
(* retention and replacement between any two steps (cowrie/ingest.go).     *)
THEOREM LinesAreCountedOnce ==
  ASSUME OneReader
  PROVE  CowrieSpec => []LinesCountedOnce
<1>1. ASSUME CowrieInv PROVE LinesCountedOnce
  BY <1>1 DEF CowrieInv, TableInv, Agrees, LinesCountedOnce
<1>2. CowrieInv /\ [CowrieNext]_cowrieVars => CowrieInv'
  BY CowrieStep
<1> QED
  BY CowrieStart, <1>1, <1>2, PTL DEF CowrieSpec

-----------------------------------------------------------------------------
(* Where a pass resumes, nothing before is left undone *)

(* A line of a file is dealt with: an event is in the table's history, or  *)
(* among the lines in hand; the session of a key exchange is bound, and    *)
(* has no event left with its address, unless it is in hand to be moved.   *)
TakenIn(l, ns, ss) ==
  IF line[l].kex THEN line[l].session \in bound /\ (line[l].session \in ss \/ Strays(line[l].session) = {})
                 ELSE l \in ingested \cup ns

(* The first n lines of a file are, unless it was truncated unnoticeably.  *)
PassedTo(i, n, ns, ss) ==
  i \in DOMAIN content \ blind =>
    n <= Len(content[i]) /\ \A k \in 1 .. n : TakenIn(content[i][k], ns, ss)

(* A saved state of a file that was truncated since, and shows it. *)
ShowsTruncation(st) ==
  /\ st.sig # NoSig /\ st.offset >= HeadLen
  /\ \A k \in 1 .. Len(content[st.inode]) : content[st.inode][k] # st.sig[1]

(* An inode a sibling's state refers to is not the log's, nor will be.     *)
Elsewhere(f, i) == f \in Sibling => i # inodeOf[Log]
Referable(f, i, sig) == i \in {0} \cup DOMAIN content /\ Elsewhere(f, i) /\ sig \in Seq(1 .. Len(line))

(* A saved state is earned, or will not be believed. *)
StatesEarned ==
  \A f \in Path :
    /\ Referable(f, istate[f].inode, istate[f].sig)
    /\ PassedTo(istate[f].inode, istate[f].offset, {}, {}) \/ ShowsTruncation(istate[f])

RowsTaken == ingested \subseteq 1 .. Len(line) /\ \A e \in rows : e.line \in ingested

(* So is what a reader has in hand, at each stage of a pass. *)
LinesOf(g) == {r.line : r \in g.batch}
ActorsRight(g) == \A r \in g.batch : r.line \in 1 .. Len(line) /\ (line[r.line].session \in bound => r.actor = Hassh)
SizeHeld(g) == g.inode \in DOMAIN content \ blind => g.size <= Len(content[g.inode])
Started(g) == SizeHeld(g) /\ PassedTo(g.inode, g.start, {}, {})

Parsed == {"reconcile", "dedup", "fold", "commit", "save"}

FrameEarned(s, g) ==
  /\ Referable(g.path, g.inode, g.sig)
  /\ s = "examine" => SizeHeld(g)
  /\ s = "read" => Started(g)
  /\ s \in Parsed => ActorsRight(g) /\ PassedTo(g.inode, g.end, LinesOf(g), g.late)
  /\ s \in Parsed \ {"reconcile"} => g.late = {}
  /\ s = "save" => LinesOf(g) \subseteq ingested

FramesEarned ==
  \A p \in Reader : FrameEarned(stage[p], frame[p])
                    /\ Referable(outer[p].path, outer[p].inode, outer[p].sig) /\ (outer[p] # NoFrame => Started(outer[p]))

EarnedInv == RowsTaken /\ StatesEarned /\ FramesEarned /\ \A f \in Sibling : inodeOf[f] # inodeOf[Log]

(* A step after which what was taken in still is. *)
Carries ==
  /\ Len(line) <= Len(line') /\ \A l \in 1 .. Len(line) : line'[l] = line[l]
  /\ bound \subseteq bound' /\ ingested \subseteq ingested'
  /\ \A s \in bound : Strays(s) = {} => Strays(s)' = {}

(* A file that only grew, or is not told from one that did. *)
Grows(i) ==
  i \notin blind' => /\ i \notin blind /\ Len(content[i]) <= Len(content'[i])
                     /\ \A k \in 1 .. Len(content[i]) : content'[i][k] = content[i][k]

-----------------------------------------------------------------------------
(* What is saved of a file is earned *)

LEMMA ContentTyped ==
  ASSUME CowrieInv
  PROVE  /\ Len(line) \in Nat /\ 0 \notin DOMAIN content
         /\ \A i \in DOMAIN content : /\ content[i] \in Seq(1 .. Len(line)) /\ Len(content[i]) \in Nat
                                      /\ \A k \in 1 .. Len(content[i]) : content[i][k] \in 1 .. Len(line)
<1>1. line \in Seq([session : Session, kex : BOOLEAN]) /\ content \in Seq(Seq(1 .. Len(line)))
  BY DEF CowrieInv, LogInv
<1>2. Len(line) \in Nat /\ 0 \notin DOMAIN content
  BY <1>1
<1>3. \A i \in DOMAIN content : content[i] \in Seq(1 .. Len(line))
  BY <1>1
<1> QED
  BY <1>2, <1>3

LEMMA TakenStays ==
  ASSUME Carries, NEW l \in 1 .. Len(line), NEW ns, NEW ss, TakenIn(l, ns, ss)
  PROVE  TakenIn(l, ns, ss)'
<1>1. PICK s, b : s = line[l].session /\ b = line[l].kex
  OBVIOUS
<1>2. line'[l] = line[l] /\ line'[l].session = s /\ line'[l].kex = b
  BY <1>1 DEF Carries
<1>3. IF b THEN s \in bound /\ (s \in ss \/ Strays(s) = {}) ELSE l \in ingested \cup ns
  BY <1>1 DEF TakenIn
<1>4. IF b THEN s \in bound' /\ (s \in ss \/ Strays(s)' = {}) ELSE l \in ingested' \cup ns
  BY <1>3 DEF Carries
<1> QED
  BY <1>2, <1>4 DEF TakenIn, Strays

LEMMA PassedStays ==
  ASSUME CowrieInv, Carries, NEW i \in DOMAIN content, Grows(i),
         NEW n \in Nat, NEW ns, NEW ss, PassedTo(i, n, ns, ss)
  PROVE  PassedTo(i, n, ns, ss)'
<1>1. CASE i \in blind'
  BY <1>1 DEF PassedTo
<1>2. CASE i \notin blind'
  <2>1. /\ n <= Len(content[i]) /\ \A k \in 1 .. n : TakenIn(content[i][k], ns, ss)
        /\ Len(content[i]) <= Len(content'[i]) /\ \A k \in 1 .. Len(content[i]) : content'[i][k] = content[i][k]
    BY <1>2 DEF PassedTo, Grows
  <2>2. Len(content[i]) \in Nat /\ \A k \in 1 .. Len(content[i]) : content[i][k] \in 1 .. Len(line)
    BY ContentTyped
  <2>3. ASSUME NEW k \in 1 .. n PROVE TakenIn(content[i][k], ns, ss)'
    <3>1. PICK l : l = content[i][k]
      OBVIOUS
    <3>2. l \in 1 .. Len(line) /\ TakenIn(l, ns, ss) /\ content'[i][k] = l
      BY <2>1, <2>2, <3>1
    <3>3. TakenIn(l, ns, ss)'
      BY <3>2, TakenStays
    <3> QED
      BY <3>2, <3>3 DEF TakenIn
  <2>4. n <= Len(content'[i])
    BY <2>1, <2>2
  <2> QED
    BY <2>3, <2>4 DEF PassedTo
<1> QED
  BY <1>1, <1>2

LEMMA LogNoSibling == Log \notin Sibling
BY CowrieNames DEF Log, Sibling

LEMMA EarnedStart == CowrieInit => EarnedInv
<1> SUFFICES ASSUME CowrieInit PROVE EarnedInv
  OBVIOUS
<1>1. /\ line = << >> /\ Len(line) = 0 /\ << >> \in Seq(1 .. Len(line)) /\ rows = {} /\ ingested = {}
      /\ istate = [f \in Path |-> NoState] /\ stage = [p \in Reader |-> "idle"]
      /\ frame = [p \in Reader |-> NoFrame] /\ outer = [p \in Reader |-> NoFrame]
  BY DEF CowrieInit
<1>2. inodeOf[Log] = 1 /\ Log \notin Sibling /\ \A f \in Sibling : inodeOf[f] = 0
  BY LogNoSibling, CowrieNames DEF CowrieInit, Path
<1>3. \A f \in Path : Referable(f, 0, NoSig)
  BY <1>1, <1>2 DEF Referable, Elsewhere, NoSig
<1>4. 0 \notin DOMAIN content
  BY DEF CowrieInit
<1>5. StatesEarned
  BY <1>1, <1>3, <1>4 DEF StatesEarned, NoState, PassedTo
<1>6. Referable(Log, 0, NoSig)
  BY <1>3, CowrieNames
<1>7. FramesEarned
  BY <1>1, <1>6 DEF FramesEarned, FrameEarned, Parsed, NoFrame
<1> QED
  BY <1>1, <1>2, <1>5, <1>7 DEF EarnedInv, RowsTaken

(* Readers and tables change; the log does not. *)
LogStill == UNCHANGED <<line, inodeOf, content, blind>>
TablesStill == UNCHANGED <<bound, rows, ingested>>

LEMMA PassedSame ==
  ASSUME LogStill, TablesStill, NEW i, NEW n, NEW ns, NEW ss
  PROVE  PassedTo(i, n, ns, ss)' <=> PassedTo(i, n, ns, ss)
<1>1. ASSUME NEW l PROVE TakenIn(l, ns, ss)' <=> TakenIn(l, ns, ss)
  BY DEF LogStill, TablesStill, TakenIn, Strays
<1>2. ASSUME NEW k PROVE TakenIn(content[i][k], ns, ss)' <=> TakenIn(content[i][k], ns, ss)
  <2>1. PICK l : l = content[i][k]
    OBVIOUS
  <2>2. content'[i][k] = l
    BY <2>1 DEF LogStill
  <2> QED
    BY <1>1, <2>1, <2>2
<1> QED
  BY <1>2 DEF PassedTo, LogStill

LEMMA FrameSame ==
  ASSUME LogStill, TablesStill, NEW s, NEW g, FrameEarned(s, g)
  PROVE  FrameEarned(s, g)'
<1>1. Referable(g.path, g.inode, g.sig)' /\ (SizeHeld(g) => SizeHeld(g)') /\ (ActorsRight(g) => ActorsRight(g)')
  BY DEF FrameEarned, LogStill, TablesStill, Referable, Elsewhere, SizeHeld, ActorsRight
<1>2. PICK i, n, m, ns, ss : i = g.inode /\ n = g.start /\ m = g.end /\ ns = LinesOf(g) /\ ss = g.late
  OBVIOUS
<1>3. /\ PassedTo(i, n, {}, {}) => PassedTo(i, n, {}, {})'
      /\ PassedTo(i, m, ns, ss) => PassedTo(i, m, ns, ss)'
  BY PassedSame
<1>4. Started(g) => Started(g)'
  BY <1>1, <1>2, <1>3 DEF Started
<1> QED
  BY <1>1, <1>2, <1>3, <1>4 DEF FrameEarned, TablesStill

LEMMA StateSame ==
  ASSUME LogStill, TablesStill, NEW f, NEW st,
         Referable(f, st.inode, st.sig), PassedTo(st.inode, st.offset, {}, {}) \/ ShowsTruncation(st)
  PROVE  Referable(f, st.inode, st.sig)' /\ (PassedTo(st.inode, st.offset, {}, {})' \/ ShowsTruncation(st)')
<1>1. Referable(f, st.inode, st.sig)' /\ (ShowsTruncation(st) => ShowsTruncation(st)')
  BY DEF LogStill, Referable, Elsewhere, ShowsTruncation
<1>2. PICK i, n : i = st.inode /\ n = st.offset
  OBVIOUS
<1>3. PassedTo(i, n, {}, {}) => PassedTo(i, n, {}, {})'
  BY PassedSame
<1> QED
  BY <1>1, <1>2, <1>3

LEMMA EarnedSame ==
  ASSUME EarnedInv, LogStill, TablesStill, UNCHANGED <<istate, stage, frame, outer>>
  PROVE  EarnedInv'
<1>1. RowsTaken'
  BY DEF EarnedInv, RowsTaken, LogStill, TablesStill
<1>2. StatesEarned'
  <2> SUFFICES ASSUME NEW f \in Path
               PROVE  /\ Referable(f, istate[f].inode, istate[f].sig)'
                      /\ PassedTo(istate[f].inode, istate[f].offset, {}, {})' \/ ShowsTruncation(istate[f])'
    BY DEF StatesEarned
  <2>1. PICK st : st = istate[f]
    OBVIOUS
  <2>2. Referable(f, st.inode, st.sig) /\ (PassedTo(st.inode, st.offset, {}, {}) \/ ShowsTruncation(st))
    BY <2>1 DEF EarnedInv, StatesEarned
  <2>3. istate'[f] = st
    BY <2>1
  <2> QED
    BY <2>2, <2>3, StateSame
<1>3. FramesEarned'
  <2> SUFFICES ASSUME NEW p \in Reader
               PROVE  /\ FrameEarned(stage[p], frame[p])' /\ Referable(outer[p].path, outer[p].inode, outer[p].sig)'
                      /\ (outer[p] # NoFrame => Started(outer[p]))'
    BY DEF FramesEarned
  <2>1. PICK s, g, o : s = stage[p] /\ g = frame[p] /\ o = outer[p]
    OBVIOUS
  <2>2. FrameEarned(s, g) /\ Referable(o.path, o.inode, o.sig) /\ (o # NoFrame => FrameEarned("read", o))
    BY <2>1 DEF EarnedInv, FramesEarned, FrameEarned, Parsed
  <2>3. FrameEarned(s, g)' /\ Referable(o.path, o.inode, o.sig)' /\ (o # NoFrame => FrameEarned("read", o)')
    BY <2>2, FrameSame DEF LogStill, Referable, Elsewhere
  <2>4. stage'[p] = s /\ frame'[p] = g /\ outer'[p] = o
    BY <2>1
  <2> QED
    BY <2>3, <2>4 DEF FrameEarned
<1> QED
  BY <1>1, <1>2, <1>3 DEF EarnedInv, LogStill

(* What the readers hold and have saved, when only files change. *)
LEMMA FilesEarned ==
  ASSUME CowrieInv, CowrieInv', EarnedInv, UNCHANGED <<istate, rows, bound, ingested, stage, frame, outer>>,
         Len(line) <= Len(line'), \A l \in 1 .. Len(line) : line'[l] = line[l],
         DOMAIN content \subseteq DOMAIN content', inodeOf'[Log] \in {inodeOf[Log]} \cup (DOMAIN content' \ DOMAIN content),
         \A f \in Sibling : inodeOf'[f] # inodeOf'[Log],
         \A p \in Reader : \A i \in {frame[p].inode, outer[p].inode} : i \in DOMAIN content => Grows(i),
         \A f \in Path : istate[f].inode \in DOMAIN content =>
           \/ Grows(istate[f].inode) /\ (ShowsTruncation(istate[f]) => ShowsTruncation(istate[f])')
           \/ ShowsTruncation(istate[f])'
  PROVE  EarnedInv'
<1>1. Len(line) \in Nat /\ Len(line') \in Nat /\ 0 \notin DOMAIN content /\ 0 \notin DOMAIN content'
  BY ContentTyped DEF CowrieInv, LogInv
<1>2. 1 .. Len(line) \subseteq 1 .. Len(line')
  BY <1>1
<1>3. RowsTaken /\ StatesEarned /\ FramesEarned
  BY DEF EarnedInv
<1>4. RowsTaken'
  BY <1>2, <1>3 DEF RowsTaken
<1>5. Carries
  <2>1. ASSUME NEW s PROVE Strays(s)' = Strays(s)
    <3>1. \A e \in rows : line'[e.line] = line[e.line]
      BY <1>3 DEF RowsTaken
    <3> QED
      BY <3>1 DEF Strays
  <2> QED
    BY <2>1 DEF Carries
<1>6. ASSUME NEW f, NEW i, NEW sig, Referable(f, i, sig) PROVE Referable(f, i, sig)'
  <2>1. sig \in Seq(1 .. Len(line'))
    BY <1>2, <1>6, WiderSeq DEF Referable
  <2> QED
    BY <1>1, <1>6, <2>1 DEF Referable, Elsewhere
<1>7. StatesEarned'
  <2> SUFFICES ASSUME NEW f \in Path
               PROVE  /\ Referable(f, istate[f].inode, istate[f].sig)'
                      /\ PassedTo(istate[f].inode, istate[f].offset, {}, {})' \/ ShowsTruncation(istate[f])'
    BY DEF StatesEarned
  <2>1. PICK st : st = istate[f]
    OBVIOUS
  <2>2. st \in States /\ st.offset \in Nat /\ istate'[f] = st
    BY <2>1 DEF CowrieInv, LogInv, States
  <2>3. Referable(f, st.inode, st.sig) /\ (PassedTo(st.inode, st.offset, {}, {}) \/ ShowsTruncation(st))
    BY <1>3, <2>1 DEF StatesEarned
  <2>4. Referable(f, st.inode, st.sig)'
    BY <1>6, <2>3
  <2>5. CASE st.inode = 0
    <3>1. PassedTo(st.inode, st.offset, {}, {})'
      BY <1>1, <2>5 DEF PassedTo
    <3> QED
      BY <2>2, <2>4, <3>1
  <2>6. CASE st.inode # 0
    <3>1. st.inode \in DOMAIN content
      BY <2>3, <2>6 DEF Referable
    <3>2. \/ Grows(st.inode) /\ (ShowsTruncation(st) => ShowsTruncation(st)')
          \/ ShowsTruncation(st)'
      BY <2>1, <2>2, <3>1
    <3>3. PassedTo(st.inode, st.offset, {}, {})' \/ ShowsTruncation(st)'
      BY <1>5, <2>2, <2>3, <3>1, <3>2, PassedStays
    <3> QED
      BY <2>2, <2>4, <3>3
  <2> QED
    BY <2>5, <2>6
<1>8. ASSUME NEW g \in Frame, NEW n \in Nat, NEW ns, NEW ss, PassedTo(g.inode, n, ns, ss),
             Referable(Log, g.inode, g.sig), g.inode \in DOMAIN content => Grows(g.inode)
      PROVE  PassedTo(g.inode, n, ns, ss)'
  <2>1. CASE g.inode = 0
    BY <1>1, <2>1 DEF PassedTo
  <2>2. CASE g.inode # 0
    <3>1. g.inode \in DOMAIN content
      BY <1>8, <2>2 DEF Referable
    <3>2. PICK i : i = g.inode
      OBVIOUS
    <3> QED
      BY <1>5, <1>8, <3>1, <3>2, PassedStays
  <2> QED
    BY <2>1, <2>2
<1>9. ASSUME NEW g \in Frame, SizeHeld(g), Referable(Log, g.inode, g.sig), g.inode \in DOMAIN content => Grows(g.inode)
      PROVE  SizeHeld(g)'
  <2>1. g.inode \in {0} \cup DOMAIN content /\ g.size \in Nat
    BY <1>9 DEF Referable, Frame
  <2>2. g.inode \in DOMAIN content => Len(content[g.inode]) \in Nat
    BY ContentTyped
  <2>3. g.inode \in DOMAIN content' => Len(content'[g.inode]) \in Nat
    BY DEF CowrieInv, LogInv
  <2> QED
    BY <1>1, <1>9, <2>1, <2>2, <2>3 DEF SizeHeld, Grows
<1>10. ASSUME NEW g \in Frame, ActorsRight(g) PROVE ActorsRight(g)'
  BY <1>2, <1>10 DEF ActorsRight
<1>11. FramesEarned'
  <2> SUFFICES ASSUME NEW p \in Reader
               PROVE  /\ FrameEarned(stage[p], frame[p])' /\ Referable(outer[p].path, outer[p].inode, outer[p].sig)'
                      /\ (outer[p] # NoFrame => Started(outer[p]))'
    BY DEF FramesEarned
  <2>1. PICK s, g, o : s = stage[p] /\ g = frame[p] /\ o = outer[p]
    OBVIOUS
  <2>2. /\ g \in Frame /\ o \in Frame /\ g.start \in Nat /\ o.start \in Nat /\ g.end \in Nat
        /\ stage'[p] = s /\ frame'[p] = g /\ outer'[p] = o
    BY <2>1 DEF CowrieInv, OpenInv, Frame
  <2>3. /\ FrameEarned(s, g) /\ Referable(o.path, o.inode, o.sig) /\ (o # NoFrame => Started(o))
        /\ (g.inode \in DOMAIN content => Grows(g.inode)) /\ (o.inode \in DOMAIN content => Grows(o.inode))
    BY <1>3, <2>1 DEF FramesEarned
  <2>4. Referable(g.path, g.inode, g.sig)' /\ Referable(o.path, o.inode, o.sig)'
    BY <1>6, <2>3 DEF FrameEarned
  <2>5. Referable(Log, g.inode, g.sig) /\ Referable(Log, o.inode, o.sig)
    BY <2>3, LogNoSibling DEF FrameEarned, Referable, Elsewhere
  <2>6. o # NoFrame => Started(o)'
    BY <1>8, <1>9, <2>2, <2>3, <2>5 DEF Started
  <2>7. s = "examine" => SizeHeld(g)'
    BY <1>9, <2>2, <2>3, <2>5 DEF FrameEarned
  <2>8. s = "read" => Started(g)'
    BY <1>8, <1>9, <2>2, <2>3, <2>5 DEF FrameEarned, Started
  <2>9. s \in Parsed => ActorsRight(g)' /\ PassedTo(g.inode, g.end, LinesOf(g), g.late)'
    BY <1>8, <1>10, <2>2, <2>3, <2>5 DEF FrameEarned
  <2>10. (s \in Parsed \ {"reconcile"} => g.late = {}) /\ (s = "save" => LinesOf(g) \subseteq ingested)
    BY <2>3 DEF FrameEarned
  <2>11. FrameEarned(s, g)'
    BY <2>4, <2>7, <2>8, <2>9, <2>10 DEF FrameEarned
  <2> QED
    BY <2>2, <2>4, <2>6, <2>11
<1> QED
  BY <1>4, <1>7, <1>11 DEF EarnedInv

(* A line goes to the end of one file, after every line there ever was. *)
LEMMA WriteEarned ==
  ASSUME CowrieInv, EarnedInv, NEW s \in Session, NEW kex \in BOOLEAN, WriteLine(s, kex)
  PROVE  EarnedInv'
<1>1. CowrieInv'
  BY WriteLineInv
<1>2. /\ line' = Append(line, [session |-> s, kex |-> kex])
      /\ content' = [content EXCEPT ![inodeOf[Log]] = Append(content[inodeOf[Log]], Len(line) + 1)]
      /\ UNCHANGED <<inodeOf, istate, bound, rows, ingested, blind, stage, frame, outer>>
  BY DEF WriteLine, readerVars, historyVars
<1>3. PICK n, i : n = Len(line) /\ i = inodeOf[Log]
  OBVIOUS
<1>4. /\ line \in Seq([session : Session, kex : BOOLEAN]) /\ content \in Seq(Seq(1 .. n))
      /\ n \in Nat /\ i \in DOMAIN content
  BY <1>3, ContentTyped, CowrieNames DEF CowrieInv, LogInv
<1>5. Len(line) <= Len(line') /\ \A l \in 1 .. Len(line) : line'[l] = line[l]
  BY <1>2, <1>4
<1>6. PICK c : c = content[i]
  OBVIOUS
<1>7. /\ c \in Seq(1 .. n) /\ Len(c) \in Nat /\ DOMAIN content' = DOMAIN content
      /\ content'[i] = Append(c, n + 1) /\ \A j \in DOMAIN content : j # i => content'[j] = content[j]
  BY <1>2, <1>3, <1>4, <1>6
<1>8. /\ Len(content'[i]) = Len(c) + 1 /\ content'[i][Len(c) + 1] = n + 1
      /\ \A k \in 1 .. Len(c) : content'[i][k] = c[k]
  <2>1. PICK m, d : m = n + 1 /\ d = Append(c, m)
    OBVIOUS
  <2>2. c \in Seq(Nat) /\ m \in Nat
    BY <1>4, <1>7, <2>1
  <2>3. Len(d) = Len(c) + 1 /\ d[Len(c) + 1] = m /\ \A k \in 1 .. Len(c) : d[k] = c[k]
    BY <1>7, <2>1, <2>2
  <2> QED
    BY <1>7, <2>1, <2>3
<1>9. ASSUME NEW j \in DOMAIN content PROVE Grows(j)
  BY <1>2, <1>6, <1>7, <1>8, ContentTyped DEF Grows
<1>10. ASSUME NEW f \in Path, istate[f].inode \in DOMAIN content, ShowsTruncation(istate[f])
       PROVE  ShowsTruncation(istate[f])'
  <2>1. PICK st : st = istate[f]
    OBVIOUS
  <2>2. st.sig \in Seq(1 .. n) /\ st.sig # << >> /\ st.offset >= HeadLen
        /\ \A k \in 1 .. Len(content[st.inode]) : content[st.inode][k] # st.sig[1]
    BY <1>3, <1>10, <2>1 DEF EarnedInv, StatesEarned, Referable, ShowsTruncation, NoSig
  <2>3. st.sig[1] \in 1 .. n
    <3>1. PICK q, S : q = st.sig /\ S = 1 .. n
      OBVIOUS
    <3>2. q \in Seq(S) /\ q # << >>
      BY <2>2, <3>1
    <3>3. q[1] \in S
      BY <3>2
    <3> QED
      BY <3>1, <3>3
  <2>4. \A k \in 1 .. Len(content'[st.inode]) : content'[st.inode][k] # st.sig[1]
    <3>1. CASE st.inode = i
      <4>1. st.sig[1] # n + 1
        BY <1>4, <2>3
      <4>2. \A k \in 1 .. Len(c) + 1 : content'[i][k] # st.sig[1]
        BY <1>6, <1>7, <1>8, <2>2, <3>1, <4>1
      <4> QED
        BY <1>8, <3>1, <4>2
    <3>2. CASE st.inode # i
      BY <1>7, <1>10, <2>1, <2>2, <3>2
    <3> QED
      BY <3>1, <3>2
  <2>5. istate'[f] = st
    BY <1>2, <2>1
  <2> QED
    BY <2>2, <2>4, <2>5 DEF ShowsTruncation, NoSig
<1>11. \A f \in Sibling : inodeOf'[f] # inodeOf'[Log]
  BY <1>2 DEF EarnedInv
<1> QED
  BY <1>1, <1>2, <1>5, <1>7, <1>9, <1>10, <1>11, FilesEarned

LEMMA FinishEarned == ASSUME CowrieInv, EarnedInv, FinishLine PROVE EarnedInv'
<1>1. UNCHANGED <<line, inodeOf, content, istate, bound, rows, ingested, blind, stage, frame, outer>>
  BY DEF FinishLine, readerVars, historyVars
<1> QED
  BY <1>1, EarnedSame DEF LogStill, TablesStill

(* A rename touches no lines. *)
LEMMA RenameEarned == ASSUME CowrieInv, EarnedInv, Rename PROVE EarnedInv'
<1>1. CowrieInv'
  BY RotateInv
<1>2. PICK m, x : m = Len(content) + 1 /\ x = NextSibling
  OBVIOUS
<1>3. /\ content' = Append(content, << >>) /\ inodeOf' = [inodeOf EXCEPT ![x] = inodeOf[Log], ![Log] = m]
      /\ UNCHANGED <<line, istate, bound, rows, ingested, blind, stage, frame, outer>>
  BY <1>2 DEF Rename, readerVars, historyVars
<1>4. /\ content \in Seq(Seq(1 .. Len(line))) /\ DOMAIN content = 1 .. Len(content) /\ Len(content) \in Nat
      /\ inodeOf \in [Path -> {0} \cup DOMAIN content] /\ inodeOf[Log] # 0
      /\ << >> \in Seq(1 .. Len(line)) /\ Len(line) \in Nat
  BY ContentTyped DEF CowrieInv, LogInv
<1>5. DOMAIN content \subseteq DOMAIN content' /\ m \in DOMAIN content' /\ m \notin DOMAIN content
      /\ \A i \in DOMAIN content : content'[i] = content[i]
  BY <1>2, <1>3, <1>4
<1>6. ASSUME NEW i \in DOMAIN content PROVE Grows(i)
  BY <1>3, <1>5, ContentTyped DEF Grows
<1>7. inodeOf'[Log] = m /\ \A f \in Sibling : f \in Path /\ inodeOf'[f] \in {inodeOf[f], inodeOf[Log]}
  BY <1>3, <1>4, LogNoSibling DEF Path
<1>8. \A f \in Sibling : inodeOf'[f] # inodeOf'[Log]
  <2>1. m # 0 /\ Log \in Path
    BY <1>2, <1>4, CowrieNames
  <2>2. \A f \in Path : inodeOf[f] # m
    BY <1>4, <1>5, <2>1
  <2> QED
    BY <1>7, <2>1, <2>2
<1>9. ASSUME NEW f \in Path, istate[f].inode \in DOMAIN content, ShowsTruncation(istate[f])
      PROVE  ShowsTruncation(istate[f])'
  BY <1>3, <1>5, <1>9 DEF ShowsTruncation
<1>10. Len(line) <= Len(line') /\ \A l \in 1 .. Len(line) : line'[l] = line[l]
  BY <1>3, <1>4
<1>11. inodeOf'[Log] \in {inodeOf[Log]} \cup (DOMAIN content' \ DOMAIN content)
  BY <1>5, <1>7
<1>12. \A p \in Reader : \A i \in {frame[p].inode, outer[p].inode} : i \in DOMAIN content => Grows(i)
  BY <1>6
<1>13. \A f \in Path : istate[f].inode \in DOMAIN content =>
         \/ Grows(istate[f].inode) /\ (ShowsTruncation(istate[f]) => ShowsTruncation(istate[f])')
         \/ ShowsTruncation(istate[f])'
  BY <1>6, <1>9
<1> QED
  BY <1>1, <1>3, <1>5, <1>8, <1>10, <1>11, <1>12, <1>13, FilesEarned

(* A truncation shows in the log's saved state, or the file is given up on. *)
LEMMA TruncateEarned == ASSUME CowrieInv, EarnedInv, CopyTruncate PROVE EarnedInv'
<1>1. CowrieInv'
  BY RotateInv
<1>2. PICK m, x, t : m = Len(content) + 1 /\ x = NextSibling /\ t = inodeOf[Log]
  OBVIOUS
<1>3. /\ content' = Append([content EXCEPT ![t] = << >>], content[t])
      /\ inodeOf' = [inodeOf EXCEPT ![x] = m]
      /\ blind' = blind \cup (IF Tells(t) THEN {} ELSE {t})
      /\ UNCHANGED <<line, istate, bound, rows, ingested, stage, frame, outer>>
  BY <1>2 DEF CopyTruncate, readerVars
<1>4. /\ content \in Seq(Seq(1 .. Len(line))) /\ DOMAIN content = 1 .. Len(content) /\ Len(content) \in Nat
      /\ inodeOf \in [Path -> {0} \cup DOMAIN content] /\ t \in DOMAIN content
      /\ << >> \in Seq(1 .. Len(line)) /\ Len(line) \in Nat /\ Log \in Path
  BY <1>2, ContentTyped, CowrieNames DEF CowrieInv, LogInv
<1>5. PICK c : c = [content EXCEPT ![t] = << >>]
  OBVIOUS
<1>6. /\ c \in Seq(Seq(1 .. Len(line))) /\ Len(c) = Len(content) /\ DOMAIN c = DOMAIN content
      /\ c[t] = << >> /\ \A i \in DOMAIN content : i # t => c[i] = content[i]
  BY <1>4, <1>5
<1>7. content[t] \in Seq(1 .. Len(line))
  BY <1>4
<1>8. /\ DOMAIN content \subseteq DOMAIN content' /\ m \in DOMAIN content' /\ m \notin DOMAIN content
      /\ content'[t] = << >> /\ \A i \in DOMAIN content : i # t => content'[i] = content[i]
  BY <1>2, <1>3, <1>4, <1>5, <1>6, <1>7
<1>9. ASSUME NEW i \in DOMAIN content, i # t \/ ~Tells(t) PROVE Grows(i)
  BY <1>3, <1>8, <1>9, ContentTyped DEF Grows
<1>10. /\ inodeOf'[Log] \in {t, m} /\ \A f \in Sibling : inodeOf'[f] \in {inodeOf[f], m}
       /\ \A f \in Sibling : inodeOf'[f] # inodeOf'[Log]
  <2>1. \A f \in Path : inodeOf'[f] = IF f = x THEN m ELSE inodeOf[f]
    BY <1>3, <1>4
  <2>2. \A f \in Sibling : f \in Path /\ f # Log /\ inodeOf[f] # t /\ inodeOf[f] # m
    BY <1>2, <1>4, <1>8, LogNoSibling DEF EarnedInv, Path
  <2> QED
    BY <1>2, <1>4, <1>8, <2>1, <2>2
<1>11. ASSUME NEW p \in Reader, NEW i \in {frame[p].inode, outer[p].inode}, i \in DOMAIN content
       PROVE  Grows(i)
  BY <1>9, <1>11 DEF Tells
<1>12. ASSUME NEW f \in Path, istate[f].inode \in DOMAIN content
       PROVE  \/ Grows(istate[f].inode) /\ (ShowsTruncation(istate[f]) => ShowsTruncation(istate[f])')
              \/ ShowsTruncation(istate[f])'
  <2>1. PICK st : st = istate[f]
    OBVIOUS
  <2>2. istate'[f] = st /\ st.inode \in DOMAIN content
    BY <1>3, <1>12, <2>1
  <2>3. CASE st.inode # t
    <3>1. Grows(st.inode)
      BY <1>9, <2>2, <2>3
    <3>2. ShowsTruncation(st) => ShowsTruncation(st)'
      BY <1>8, <2>2, <2>3 DEF ShowsTruncation
    <3> QED
      BY <2>1, <2>2, <3>1, <3>2
  <2>4. CASE st.inode = t /\ ~Tells(t)
    <3>1. Grows(st.inode)
      BY <1>9, <2>2, <2>4
    <3>2. ShowsTruncation(st) => ShowsTruncation(st)'
      BY <1>8, <2>4 DEF ShowsTruncation
    <3> QED
      BY <2>1, <2>2, <3>1, <3>2
  <2>5. CASE st.inode = t /\ Tells(t)
    <3>1. f = Log
      BY <1>2, <2>1, <2>5 DEF EarnedInv, StatesEarned, Referable, Elsewhere, Path
    <3>2. st.sig # NoSig /\ st.offset >= HeadLen
      BY <2>1, <2>5, <3>1 DEF Tells
    <3>3. ShowsTruncation(st)'
      BY <1>8, <2>5, <3>2 DEF ShowsTruncation
    <3> QED
      BY <2>2, <3>3
  <2> QED
    BY <2>3, <2>4, <2>5
<1>13. Len(line) <= Len(line') /\ \A l \in 1 .. Len(line) : line'[l] = line[l]
  BY <1>3, <1>4
<1>14. inodeOf'[Log] \in {inodeOf[Log]} \cup (DOMAIN content' \ DOMAIN content)
  BY <1>2, <1>8, <1>10
<1> QED
  BY <1>1, <1>3, <1>8, <1>10, <1>11, <1>12, <1>13, <1>14, FilesEarned

-----------------------------------------------------------------------------
(* A pass up to its transaction *)

LEMMA StillCarries == ASSUME LogStill, TablesStill PROVE Carries
<1>1. ASSUME NEW s PROVE Strays(s)' = Strays(s)
  BY DEF LogStill, TablesStill, Strays
<1> QED
  BY <1>1 DEF LogStill, TablesStill, Carries

LEMMA StillPassed ==
  ASSUME CowrieInv, LogStill, Carries, NEW i, NEW n \in Nat, NEW ns, NEW ss, PassedTo(i, n, ns, ss)
  PROVE  PassedTo(i, n, ns, ss)'
<1>1. CASE i \in DOMAIN content
  <2>1. Grows(i)
    BY <1>1, ContentTyped DEF Grows, LogStill
  <2> QED
    BY <1>1, <2>1, PassedStays
<1>2. CASE i \notin DOMAIN content
  BY <1>2 DEF PassedTo, LogStill
<1> QED
  BY <1>1, <1>2

LEMMA StatesStill ==
  ASSUME CowrieInv, EarnedInv, LogStill, Carries, UNCHANGED istate
  PROVE  StatesEarned'
<1> SUFFICES ASSUME NEW f \in Path
             PROVE  /\ Referable(f, istate[f].inode, istate[f].sig)'
                    /\ PassedTo(istate[f].inode, istate[f].offset, {}, {})' \/ ShowsTruncation(istate[f])'
  BY DEF StatesEarned
<1>1. PICK st : st = istate[f]
  OBVIOUS
<1>2. istate'[f] = st /\ st.offset \in Nat
  BY <1>1 DEF CowrieInv, LogInv, States
<1>3. Referable(f, st.inode, st.sig) /\ (PassedTo(st.inode, st.offset, {}, {}) \/ ShowsTruncation(st))
  BY <1>1 DEF EarnedInv, StatesEarned
<1>4. Referable(f, st.inode, st.sig)'
  BY <1>3 DEF LogStill, Referable, Elsewhere
<1>5. ShowsTruncation(st) => ShowsTruncation(st)'
  BY DEF LogStill, ShowsTruncation
<1>6. PassedTo(st.inode, st.offset, {}, {}) => PassedTo(st.inode, st.offset, {}, {})'
  BY <1>2, StillPassed
<1> QED
  BY <1>2, <1>3, <1>4, <1>5, <1>6

LEMMA StillStarted ==
  ASSUME CowrieInv, LogStill, Carries, NEW o \in Frame, Started(o)
  PROVE  Started(o)'
<1>1. PICK i, n : i = o.inode /\ n = o.start
  OBVIOUS
<1>2. n \in Nat /\ PassedTo(i, n, {}, {})
  BY <1>1 DEF Frame, Started
<1>3. PassedTo(i, n, {}, {})'
  BY <1>2, StillPassed
<1> QED
  BY <1>1, <1>3 DEF LogStill, Started, SizeHeld

(* A reader's step: what it leaves in hand and saved is earned. *)
LEMMA ReaderStep ==
  ASSUME CowrieInv, EarnedInv, OneReader, LogStill, Carries, RowsTaken', StatesEarned',
         NEW p \in Reader, NEW s, NEW g, NEW o \in Frame,
         stage'[p] = s, frame'[p] = g, outer'[p] = o,
         FrameEarned(s, g)', Referable(o.path, o.inode, o.sig), o # NoFrame => Started(o)
  PROVE  EarnedInv'
<1>1. Referable(o.path, o.inode, o.sig)' /\ (o # NoFrame => Started(o)')
  BY StillStarted DEF LogStill, Referable, Elsewhere
<1>2. /\ FrameEarned(stage[p], frame[p])' /\ Referable(outer[p].path, outer[p].inode, outer[p].sig)'
      /\ (outer[p] # NoFrame => Started(outer[p]))'
  BY <1>1
<1>3. \A q \in Reader : q = p
  BY DEF OneReader
<1>4. FramesEarned'
  BY <1>2, <1>3 DEF FramesEarned
<1> QED
  BY <1>4 DEF EarnedInv, LogStill

(* The same when no table changes either. *)
LEMMA QuietStep ==
  ASSUME CowrieInv, EarnedInv, OneReader, LogStill, TablesStill, StatesEarned',
         NEW p \in Reader, NEW s, NEW g, NEW o \in Frame,
         stage'[p] = s, frame'[p] = g, outer'[p] = o,
         FrameEarned(s, g), Referable(o.path, o.inode, o.sig), o # NoFrame => Started(o)
  PROVE  EarnedInv'
<1>1. Carries
  BY StillCarries
<1>2. RowsTaken'
  BY DEF EarnedInv, RowsTaken, LogStill, TablesStill
<1>3. FrameEarned(s, g)'
  BY FrameSame
<1> QED
  BY <1>1, <1>2, <1>3, ReaderStep

LEMMA QuietStates ==
  ASSUME CowrieInv, EarnedInv, LogStill, TablesStill, UNCHANGED istate
  PROVE  StatesEarned'
BY StillCarries, StatesStill

(* What a reader has in hand, in short. *)
LEMMA HeldEarned ==
  ASSUME CowrieInv, EarnedInv, NEW p \in Reader
  PROVE  /\ FrameEarned(stage[p], frame[p]) /\ frame[p] \in Frame /\ outer[p] \in Frame
         /\ Referable(outer[p].path, outer[p].inode, outer[p].sig) /\ (outer[p] # NoFrame => Started(outer[p]))
         /\ DOMAIN stage = Reader /\ DOMAIN frame = Reader /\ DOMAIN outer = Reader
BY DEF CowrieInv, OpenInv, EarnedInv, FramesEarned

LEMMA NothingEarned ==
  ASSUME NEW s \in {"idle", "backfill"}
  PROVE  FrameEarned(s, NoFrame) /\ Referable(NoFrame.path, NoFrame.inode, NoFrame.sig)
<1>1. NoFrame.inode = 0 /\ NoFrame.path = Log /\ NoFrame.sig = << >> /\ << >> \in Seq(1 .. Len(line))
  BY DEF NoFrame, NoSig
<1>2. Referable(Log, 0, << >>)
  BY <1>1, LogNoSibling DEF Referable, Elsewhere
<1> QED
  BY <1>1, <1>2 DEF FrameEarned, Parsed

LEMMA OpenedEarned ==
  ASSUME CowrieInv, EarnedInv, NEW f \in Path, inodeOf[f] # 0
  PROVE  FrameEarned("examine", Opened(f)) /\ Opened(f) \in Frame
<1>1. inodeOf[f] \in DOMAIN content /\ Elsewhere(f, inodeOf[f])
  BY DEF CowrieInv, LogInv, EarnedInv, Elsewhere
<1>2. Opened(f) \in Frame
  BY OpenedFrame
<1>3. /\ Opened(f).path = f /\ Opened(f).inode = inodeOf[f] /\ Opened(f).sig = << >>
      /\ Opened(f).size = Len(content[inodeOf[f]]) /\ << >> \in Seq(1 .. Len(line))
  BY DEF Opened, NoFrame, NoSig
<1>4. SizeHeld(Opened(f))
  BY <1>1, <1>3, ContentTyped DEF SizeHeld
<1>5. Referable(f, inodeOf[f], << >>)
  BY <1>1, <1>3 DEF Referable
<1> QED
  BY <1>2, <1>3, <1>4, <1>5 DEF FrameEarned, Parsed

LEMMA PollEarned == ASSUME CowrieInv, EarnedInv, OneReader, NEW p \in Reader, Poll(p) PROVE EarnedInv'
<1>1. /\ UNCHANGED <<line, inodeOf, content, blind, istate, bound, rows, ingested, outer>> /\ stage[p] = "idle"
      /\ \/ stage' = [stage EXCEPT ![p] = "examine"] /\ frame' = [frame EXCEPT ![p] = Opened(Log)]
         \/ stage' = [stage EXCEPT ![p] = "backfill"] /\ frame' = frame
  BY DEF Poll, Stage, Hold, fileVars, historyVars
<1>2. LogStill /\ TablesStill /\ StatesEarned'
  BY <1>1, QuietStates DEF LogStill, TablesStill
<1>3. PICK g, o : g = frame[p] /\ o = outer[p]
  OBVIOUS
<1>4. /\ FrameEarned("idle", g) /\ o \in Frame /\ Referable(o.path, o.inode, o.sig) /\ (o # NoFrame => Started(o))
      /\ DOMAIN stage = Reader /\ DOMAIN frame = Reader
  BY <1>1, <1>3, HeldEarned
<1>5. CASE stage' = [stage EXCEPT ![p] = "examine"] /\ frame' = [frame EXCEPT ![p] = Opened(Log)]
  <2>1. inodeOf[Log] # 0 /\ Log \in Path
    BY CowrieNames DEF CowrieInv, LogInv
  <2>2. PICK n : n = Opened(Log)
    OBVIOUS
  <2>3. FrameEarned("examine", n)
    BY <2>1, <2>2, OpenedEarned
  <2>4. stage'[p] = "examine" /\ frame'[p] = n /\ outer'[p] = o
    BY <1>1, <1>3, <1>4, <1>5, <2>2
  <2> QED
    BY <1>2, <1>4, <2>3, <2>4, QuietStep
<1>6. CASE stage' = [stage EXCEPT ![p] = "backfill"] /\ frame' = frame
  <2>1. FrameEarned("backfill", g)
    BY <1>4 DEF FrameEarned, Parsed
  <2>2. stage'[p] = "backfill" /\ frame'[p] = g /\ outer'[p] = o
    BY <1>1, <1>3, <1>4, <1>6
  <2> QED
    BY <1>2, <1>4, <2>1, <2>2, QuietStep
<1> QED
  BY <1>1, <1>5, <1>6

(* Where a pass resumes, what is before was dealt with: a truncation that  *)
(* the saved state shows is told by the size or by the head.               *)
LEMMA ResumeEarned ==
  ASSUME CowrieInv, EarnedInv, NEW f \in Path, NEW i \in DOMAIN content, NEW size \in Nat,
         i \notin blind => size <= Len(content[i])
  PROVE  /\ ResumeAt(istate[f], i, size, HeadOf(i)) \in Nat
         /\ PassedTo(i, ResumeAt(istate[f], i, size, HeadOf(i)), {}, {})
<1>1. PICK st, sig, r, c : st = istate[f] /\ sig = HeadOf(i) /\ r = ResumeAt(st, i, size, sig) /\ c = content[i]
  OBVIOUS
<1>2. st.offset \in Nat /\ (PassedTo(st.inode, st.offset, {}, {}) \/ ShowsTruncation(st))
  BY <1>1 DEF CowrieInv, LogInv, States, EarnedInv, StatesEarned
<1>3. r \in Nat /\ (r # 0 => r = st.offset /\ st.inode = i /\ st.offset <= size /\ ~ReplacedInPlace(st, i, sig))
  BY <1>1, <1>2 DEF ResumeAt
<1>4. c \in Seq(1 .. Len(line)) /\ Len(c) \in Nat /\ HeadLen \in Nat \ {0}
  BY <1>1, ContentTyped, HeadAssumption
<1>5. CASE r = 0
  <2>1. PassedTo(i, 0, {}, {})
    BY <1>1, <1>4 DEF PassedTo
  <2> QED
    BY <1>1, <1>5, <2>1
<1>6. CASE r # 0 /\ i \notin blind
  <2>1. ~ShowsTruncation(st)
    <3> SUFFICES ASSUME ShowsTruncation(st) PROVE FALSE
      OBVIOUS
    <3>1. /\ st.sig # NoSig /\ st.offset >= HeadLen /\ st.inode = i /\ st.offset <= Len(c)
          /\ \A k \in 1 .. Len(c) : c[k] # st.sig[1]
      <4>1. size <= Len(c) /\ st.inode = i /\ st.offset <= size
        BY <1>1, <1>3, <1>6
      <4>2. st.offset <= Len(c)
        BY <1>2, <1>4, <4>1
      <4> QED
        BY <1>1, <4>1, <4>2 DEF ShowsTruncation
    <3>2. HeadLen <= Len(c) /\ 1 \in 1 .. Len(c)
      BY <1>2, <1>4, <3>1
    <3>3. sig = SubSeq(c, 1, HeadLen)
      BY <1>1, <1>4, <3>2 DEF HeadOf
    <3>4. Len(sig) = HeadLen /\ sig[1] = c[1]
      BY <1>4, <3>2, <3>3
    <3>5. sig # NoSig /\ sig # st.sig
      BY <1>4, <3>1, <3>2, <3>4 DEF NoSig
    <3>6. ReplacedInPlace(st, i, sig)
      BY <3>1, <3>5 DEF ReplacedInPlace
    <3> QED
      BY <1>3, <1>6, <3>6
  <2> QED
    BY <1>1, <1>2, <1>3, <1>6, <2>1
<1>7. CASE i \in blind
  BY <1>1, <1>3, <1>7 DEF PassedTo
<1> QED
  BY <1>5, <1>6, <1>7

LEMMA ExamineEarned == ASSUME CowrieInv, EarnedInv, OneReader, NEW p \in Reader, Examine(p) PROVE EarnedInv'
<1>1. PICK h, o, sig, start, next :
        /\ h = frame[p] /\ o = outer[p] /\ sig = HeadOf(h.inode)
        /\ start = ResumeAt(istate[h.path], h.inode, h.size, sig)
        /\ next = [h EXCEPT !.sig = sig, !.start = start]
  OBVIOUS
<1>2. /\ stage[p] = "examine" /\ UNCHANGED <<line, inodeOf, content, blind, istate, bound, rows, ingested>>
      /\ \/ /\ stage' = [stage EXCEPT ![p] = "backfill"] /\ frame' = [frame EXCEPT ![p] = NoFrame]
            /\ outer' = [outer EXCEPT ![p] = next]
         \/ /\ stage' = [stage EXCEPT ![p] = "read"] /\ frame' = [frame EXCEPT ![p] = next]
            /\ UNCHANGED outer
  BY <1>1 DEF Examine, Stage, Hold, fileVars, historyVars
<1>3. LogStill /\ TablesStill /\ StatesEarned'
  BY <1>2, QuietStates DEF LogStill, TablesStill
<1>4. /\ FrameEarned("examine", h) /\ h \in Frame /\ o \in Frame /\ Referable(o.path, o.inode, o.sig)
      /\ (o # NoFrame => Started(o)) /\ DOMAIN stage = Reader /\ DOMAIN frame = Reader /\ DOMAIN outer = Reader
  BY <1>1, <1>2, HeldEarned
<1>5. h.inode \in DOMAIN content
  BY <1>1, <1>2 DEF CowrieInv, OpenInv
<1>6. SizeHeld(h) /\ Referable(h.path, h.inode, h.sig) /\ h.path \in Path /\ h.size \in Nat
  BY <1>4 DEF FrameEarned, Frame
<1>7. start \in Nat /\ PassedTo(h.inode, start, {}, {})
  BY <1>1, <1>5, <1>6, ResumeEarned DEF SizeHeld
<1>8. sig \in Seq(1 .. Len(line))
  <2>1. PICK c : c = content[h.inode]
    OBVIOUS
  <2>2. c \in Seq(1 .. Len(line)) /\ Len(c) \in Nat /\ HeadLen \in Nat
    BY <1>5, <2>1, ContentTyped, HeadAssumption
  <2>3. CASE Len(c) < HeadLen
    BY <1>1, <2>1, <2>3 DEF HeadOf, NoSig
  <2>4. CASE ~(Len(c) < HeadLen)
    <3>1. PICK S : S = 1 .. Len(line)
      OBVIOUS
    <3>2. \A k \in 1 .. HeadLen : c[k] \in S
      BY <2>2, <2>4, <3>1
    <3>3. SubSeq(c, 1, HeadLen) \in Seq(S)
      BY <2>2, <3>2, SubSeqProperties
    <3> QED
      BY <1>1, <2>1, <2>4, <3>1, <3>3 DEF HeadOf
  <2> QED
    BY <2>3, <2>4
<1>9. /\ next.path = h.path /\ next.inode = h.inode /\ next.size = h.size /\ next.sig = sig /\ next.start = start
      /\ next \in Frame
  <2>1. /\ next.path = h.path /\ next.inode = h.inode /\ next.size = h.size /\ next.sig = sig /\ next.start = start
    BY <1>1, <1>4 DEF Frame
  <2>2. sig \in Seq(Nat)
    BY <1>8, WiderSeq
  <2> QED
    BY <1>1, <1>4, <1>7, <2>1, <2>2 DEF Frame
<1>10. Started(next) /\ Referable(next.path, next.inode, next.sig)
  BY <1>6, <1>7, <1>8, <1>9 DEF Started, SizeHeld, Referable
<1>11. CASE /\ stage' = [stage EXCEPT ![p] = "backfill"] /\ frame' = [frame EXCEPT ![p] = NoFrame]
            /\ outer' = [outer EXCEPT ![p] = next]
  <2>1. stage'[p] = "backfill" /\ frame'[p] = NoFrame /\ outer'[p] = next
    BY <1>4, <1>11
  <2>2. FrameEarned("backfill", NoFrame)
    BY NothingEarned
  <2> QED
    BY <1>3, <1>9, <1>10, <2>1, <2>2, QuietStep
<1>12. CASE /\ stage' = [stage EXCEPT ![p] = "read"] /\ frame' = [frame EXCEPT ![p] = next]
            /\ UNCHANGED outer
  <2>1. stage'[p] = "read" /\ frame'[p] = next /\ outer'[p] = o
    BY <1>1, <1>4, <1>12
  <2>2. FrameEarned("read", next)
    BY <1>10 DEF FrameEarned, Parsed
  <2> QED
    BY <1>3, <1>4, <2>1, <2>2, QuietStep
<1> QED
  BY <1>2, <1>11, <1>12

LEMMA NextFileEarned == ASSUME CowrieInv, EarnedInv, OneReader, NEW p \in Reader, NextFile(p) PROVE EarnedInv'
<1>1. stage[p] = "backfill" /\ UNCHANGED <<line, inodeOf, content, blind, istate, bound, rows, ingested>>
  BY DEF NextFile, fileVars, historyVars
<1>2. LogStill /\ TablesStill /\ StatesEarned'
  BY <1>1, QuietStates DEF LogStill, TablesStill
<1>3. PICK g, o : g = frame[p] /\ o = outer[p]
  OBVIOUS
<1>4. /\ FrameEarned("backfill", g) /\ o \in Frame /\ Referable(o.path, o.inode, o.sig) /\ (o # NoFrame => Started(o))
      /\ DOMAIN stage = Reader /\ DOMAIN frame = Reader /\ DOMAIN outer = Reader
  BY <1>1, <1>3, HeldEarned
<1>5. NoFrame \in Frame /\ Referable(NoFrame.path, NoFrame.inode, NoFrame.sig)
  BY EmptyFrame, NothingEarned
<1>6. CASE /\ todo[p] # {} /\ stage' = [stage EXCEPT ![p] = "examine"]
           /\ frame' = [frame EXCEPT ![p] = Opened(Min(todo[p]))] /\ outer' = outer
  <2>1. PICK f : f = Min(todo[p])
    OBVIOUS
  <2>2. todo[p] \in SUBSET Sibling /\ Sibling \in SUBSET Nat /\ \A x \in todo[p] : inodeOf[x] # 0
    BY CowrieNames DEF CowrieInv, OpenInv
  <2>3. f \in todo[p]
    BY <1>6, <2>1, <2>2, NatMin
  <2>4. f \in Path /\ inodeOf[f] # 0
    BY <2>2, <2>3 DEF Path
  <2>5. PICK n : n = Opened(f)
    OBVIOUS
  <2>6. FrameEarned("examine", n)
    BY <2>4, <2>5, OpenedEarned
  <2>7. stage'[p] = "examine" /\ frame'[p] = n /\ outer'[p] = o
    BY <1>3, <1>4, <1>6, <2>1, <2>5
  <2> QED
    BY <1>2, <1>4, <2>6, <2>7, QuietStep
<1>7. CASE /\ outer[p] # NoFrame /\ stage' = [stage EXCEPT ![p] = "read"]
           /\ frame' = [frame EXCEPT ![p] = outer[p]] /\ outer' = [outer EXCEPT ![p] = NoFrame]
  <2>1. stage'[p] = "read" /\ frame'[p] = o /\ outer'[p] = NoFrame
    BY <1>3, <1>4, <1>7
  <2>2. FrameEarned("read", o)
    BY <1>3, <1>4, <1>7 DEF FrameEarned, Parsed
  <2> QED
    BY <1>2, <1>5, <2>1, <2>2, QuietStep
<1>8. CASE /\ stage' = [stage EXCEPT ![p] = "idle"] /\ outer' = [outer EXCEPT ![p] = NoFrame] /\ frame' = frame
  <2>1. stage'[p] = "idle" /\ frame'[p] = g /\ outer'[p] = NoFrame
    BY <1>3, <1>4, <1>8
  <2>2. FrameEarned("idle", g)
    BY <1>4 DEF FrameEarned, Parsed
  <2> QED
    BY <1>2, <1>5, <2>1, <2>2, QuietStep
<1> QED
  BY <1>6, <1>7, <1>8 DEF NextFile, Stage, Hold

(* What is consumed never passes what was read, nor the size at opening. *)
LEMMA OffsetBounded ==
  ASSUME NEW h \in Frame, NEW end \in Int
  PROVE  NewOffset(h, end) <= h.size /\ (NewOffset(h, end) <= h.start \/ NewOffset(h, end) <= end)
<1>1. PICK a, b, m, r : a = h.start /\ b = h.size /\ m = Max({a, end}) /\ r = Min({m, b})
  OBVIOUS
<1>2. a \in Int /\ b \in Int /\ {a, end} \in SUBSET Int /\ {a, end} # {}
  BY <1>1 DEF Frame
<1>3. IsFiniteSet({a, end})
  <2>1. IsFiniteSet({a}) /\ {a, end} = {a} \cup {end}
    BY FS_Singleton
  <2> QED
    BY <2>1, FS_AddElement
<1>4. m \in {a, end}
  BY <1>1, <1>2, <1>3, FiniteMax
<1>5. m \in Int
  BY <1>2, <1>4
<1>6. r \in {m, b} /\ r <= m /\ r <= b
  BY <1>1, <1>2, <1>5, LeastOfTwo
<1>7. NewOffset(h, end) = r
  BY <1>1 DEF NewOffset
<1> QED
  BY <1>1, <1>4, <1>6, <1>7

LEMMA PlaceIn ==
  ASSUME NEW x \in Nat, NEW k \in Nat, NEW n \in Int, k > x, k <= n
  PROVE  n \in Nat /\ k - x \in 1 .. (n - (x + 1) + 1)
OBVIOUS

LEMMA TakenWiden ==
  ASSUME NEW l, NEW ns, NEW ss, TakenIn(l, {}, {})
  PROVE  TakenIn(l, ns, ss)
BY DEF TakenIn

LEMMA ReadEarned == ASSUME CowrieInv, EarnedInv, OneReader, NEW p \in Reader, Read(p) PROVE EarnedInv'
<1>1. PICK h, o, i, end, c, read, known :
        /\ h = frame[p] /\ o = outer[p] /\ i = h.inode /\ end = Terminated(i) /\ c = content[i]
        /\ read = SubSeq(c, h.start + 1, end) /\ known = Bind(read)
  OBVIOUS
<1>2. PICK e, late, batch : /\ e = NewOffset(h, end) /\ late = KexSessions(read)
                            /\ batch = {Row(n, known) : n \in EventLines(read)}
  OBVIOUS
<1>3. PICK g : g = [h EXCEPT !.end = e, !.late = late, !.batch = batch]
  OBVIOUS
<1>4. /\ stage[p] = "read" /\ stage' = [stage EXCEPT ![p] = "reconcile"] /\ bound' = known
      /\ frame' = [frame EXCEPT ![p] = g]
      /\ UNCHANGED <<outer, line, inodeOf, content, rows, ingested, blind, istate>>
  BY <1>1, <1>2, <1>3 DEF Read, Stage, Hold, CallUnchanged, fileVars, historyVars
<1>5. /\ FrameEarned("read", h) /\ h \in Frame /\ o \in Frame /\ Referable(o.path, o.inode, o.sig)
      /\ (o # NoFrame => Started(o)) /\ DOMAIN stage = Reader /\ DOMAIN frame = Reader
  BY <1>1, <1>4, HeldEarned
<1>6. i \in DOMAIN content
  BY <1>1, <1>4 DEF CowrieInv, OpenInv
<1>7. /\ c \in Seq(1 .. Len(line)) /\ Len(c) \in Nat /\ Len(line) \in Nat
      /\ \A k \in 1 .. Len(c) : c[k] \in 1 .. Len(line)
  BY <1>1, <1>6, ContentTyped
<1>8. end \in Int /\ end <= Len(c)
  <2>1. PICK m : m = IF torn /\ i = inodeOf[Log] THEN 1 ELSE 0
    OBVIOUS
  <2>2. m \in {0, 1} /\ end = Len(c) - m
    BY <1>1, <2>1 DEF Terminated
  <2> QED
    BY <1>7, <2>2
<1>9. h.start \in Nat /\ h.size \in Nat /\ Started(h) /\ Referable(h.path, i, h.sig)
  BY <1>1, <1>5 DEF FrameEarned, Parsed, Frame
<1>10. e \in Nat /\ e <= h.size /\ (e <= h.start \/ e <= end)
  BY <1>2, <1>5, <1>8, OffsetTyped, OffsetBounded
<1>11. ToSet(read) \subseteq 1 .. Len(line)
  BY <1>1, <1>7, <1>8, <1>9, PartOf
<1>12. LogStill /\ Carries
  <2>1. bound \subseteq known
    BY <1>1 DEF Bind
  <2>2. ASSUME NEW s PROVE Strays(s)' = Strays(s)
    BY <1>4 DEF Strays
  <2> QED
    BY <1>4, <2>1, <2>2 DEF LogStill, Carries
<1>13. RowsTaken' /\ StatesEarned'
  BY <1>4, <1>12, StatesStill DEF EarnedInv, RowsTaken
<1>14. /\ g.path = h.path /\ g.inode = i /\ g.sig = h.sig /\ g.end = e /\ g.late = late /\ g.batch = batch
  BY <1>1, <1>3, <1>5 DEF Frame
<1>15. ActorsRight(g)'
  <2>1. ASSUME NEW r \in batch
        PROVE  r.line \in 1 .. Len(line) /\ (line[r.line].session \in known => r.actor = Hassh)
    <3>1. PICK n \in EventLines(read) : r = Row(n, known)
      BY <1>2
    <3>2. n \in 1 .. Len(line) /\ r.line = n /\ r.actor = ActorFor(n, known)
      BY <1>11, <3>1 DEF EventLines, Row
    <3> QED
      BY <3>2 DEF ActorFor
  <2> QED
    BY <1>4, <1>14, <2>1 DEF ActorsRight
<1>16. PassedTo(i, e, LinesOf(g), late)'
  <2>1. CASE i \in blind
    BY <1>4, <2>1 DEF PassedTo
  <2>2. CASE i \notin blind
    <3>1. h.size <= Len(c) /\ PassedTo(i, h.start, {}, {})
      BY <1>1, <1>6, <1>9, <2>2 DEF Started, SizeHeld
    <3>2. e <= Len(c)
      BY <1>7, <1>9, <1>10, <3>1
    <3>3. ASSUME NEW k \in 1 .. e PROVE TakenIn(content[i][k], LinesOf(g), late)'
      <4>1. PICK l : l = c[k]
        OBVIOUS
      <4>2. k \in 1 .. Len(c) /\ l \in 1 .. Len(line) /\ k \in Nat
        BY <1>7, <1>10, <3>2, <4>1
      <4>3. CASE k <= h.start
        <5>1. TakenIn(c[k], {}, {})
          BY <1>1, <1>6, <1>9, <2>2, <3>1, <4>2, <4>3 DEF PassedTo
        <5>2. TakenIn(l, LinesOf(g), late)
          BY <4>1, <5>1, TakenWiden
        <5>3. TakenIn(l, LinesOf(g), late)'
          BY <1>12, <4>2, <5>2, TakenStays
        <5> QED
          BY <1>1, <1>4, <4>1, <5>3
      <4>4. CASE ~(k <= h.start)
        <5>1. k <= end /\ k - h.start \in 1 .. (end - h.start)
          BY <1>8, <1>9, <1>10, <4>2, <4>4
        <5>2. PICK x, a, j : x = h.start /\ a = x + 1 /\ j = k - x
          OBVIOUS
        <5>3. a \in 1 .. Len(c) /\ end \in Nat /\ a <= end /\ j \in 1 .. (end - a + 1) /\ a + j - 1 = k
          <6>1. x \in Nat /\ k > x /\ k \in Nat /\ k <= end /\ Len(c) \in Nat /\ end \in Int /\ end <= Len(c)
            BY <1>7, <1>8, <1>9, <4>2, <4>4, <5>1, <5>2
          <6>2. PICK m : m = Len(c)
            OBVIOUS
          <6>3. a \in Int /\ j \in Int /\ 1 <= a /\ a <= k /\ a <= m /\ m \in Nat /\ a + j - 1 = k
            BY <5>2, <6>1, <6>2
          <6>4. end \in Nat /\ j \in 1 .. (end - (x + 1) + 1)
            BY <5>2, <6>1, PlaceIn
          <6> QED
            BY <5>2, <6>1, <6>2, <6>3, <6>4
        <5>4. read[j] = l /\ j \in DOMAIN read
          <6>1. PICK S : S = 1 .. Len(line)
            OBVIOUS
          <6>2. c \in Seq(S) /\ a \in Int /\ end \in Int /\ \A y \in a .. end : c[y] \in S
            BY <1>7, <1>8, <5>3, <6>1
          <6>3. read = SubSeq(c, a, end)
            BY <1>1, <5>2
          <6>4. Len(read) = end - a + 1 /\ read \in Seq(S) /\ \A y \in 1 .. (end - a + 1) : read[y] = c[a + y - 1]
            BY <5>3, <6>2, <6>3, SubSeqProperties
          <6>5. read[j] = c[a + j - 1] /\ j \in 1 .. Len(read) /\ DOMAIN read = 1 .. Len(read)
            BY <5>3, <6>4
          <6> QED
            BY <4>1, <5>3, <6>5
        <5>5. l \in ToSet(read)
          BY <5>4 DEF ToSet
        <5>6. CASE line[l].kex
          <6>1. line[l].session \in late /\ line[l].session \in known
            BY <1>1, <1>2, <5>5, <5>6 DEF KexSessions, Bind
          <6> QED
            BY <1>1, <1>4, <4>1, <5>6, <6>1 DEF TakenIn
        <5>7. CASE ~line[l].kex
          <6>1. Row(l, known) \in batch
            BY <1>2, <5>5, <5>7 DEF EventLines
          <6>2. l \in LinesOf(g)
            BY <1>14, <6>1 DEF LinesOf, Row
          <6> QED
            BY <1>1, <1>4, <4>1, <5>7, <6>2 DEF TakenIn
        <5> QED
          BY <5>6, <5>7
      <4> QED
        BY <4>3, <4>4
    <3>4. e <= Len(content'[i])
      BY <1>1, <1>4, <3>2
    <3> QED
      BY <3>3, <3>4 DEF PassedTo
  <2> QED
    BY <2>1, <2>2
<1>17. FrameEarned("reconcile", g)'
  <2>1. Referable(g.path, g.inode, g.sig)'
    BY <1>4, <1>9, <1>14 DEF Referable, Elsewhere
  <2> QED
    BY <1>14, <1>15, <1>16, <2>1 DEF FrameEarned, Parsed
<1>18. stage'[p] = "reconcile" /\ frame'[p] = g /\ outer'[p] = o
  BY <1>1, <1>4, <1>5
<1> QED
  BY <1>5, <1>12, <1>13, <1>17, <1>18, ReaderStep

LEMMA ReconciledEarned ==
  ASSUME CowrieInv, EarnedInv, OneReader, NEW p \in Reader, Reconciled(p)
  PROVE  EarnedInv'
<1>1. /\ stage[p] = "reconcile" /\ stage' = [stage EXCEPT ![p] = "dedup"] /\ frame[p].late = {}
      /\ UNCHANGED <<line, inodeOf, content, blind, istate, bound, rows, ingested, frame, outer>>
  BY DEF Reconciled, Stage, CallUnchanged, fileVars, historyVars
<1>2. LogStill /\ TablesStill /\ StatesEarned'
  BY <1>1, QuietStates DEF LogStill, TablesStill
<1>3. PICK g, o : g = frame[p] /\ o = outer[p]
  OBVIOUS
<1>4. /\ FrameEarned("reconcile", g) /\ o \in Frame /\ Referable(o.path, o.inode, o.sig)
      /\ (o # NoFrame => Started(o)) /\ DOMAIN stage = Reader
  BY <1>1, <1>3, HeldEarned
<1>5. FrameEarned("dedup", g)
  BY <1>1, <1>3, <1>4 DEF FrameEarned, Parsed
<1>6. stage'[p] = "dedup" /\ frame'[p] = g /\ outer'[p] = o
  BY <1>1, <1>3, <1>4
<1> QED
  BY <1>2, <1>4, <1>5, <1>6, QuietStep

(* What the dedup drops is stored, so it was taken in. *)
LEMMA DedupEarned == ASSUME CowrieInv, EarnedInv, OneReader, NEW p \in Reader, Dedup(p) PROVE EarnedInv'
<1>1. PICK h, o, batch, g, s :
        /\ h = frame[p] /\ o = outer[p] /\ batch = Unseen(h.batch) /\ g = [h EXCEPT !.batch = batch]
        /\ s = IF batch = {} THEN "save" ELSE "fold"
  OBVIOUS
<1>2. /\ stage[p] = "dedup" /\ stage' = [stage EXCEPT ![p] = s] /\ frame' = [frame EXCEPT ![p] = g]
      /\ UNCHANGED <<line, inodeOf, content, blind, istate, bound, rows, ingested, outer>>
  BY <1>1 DEF Dedup, Stage, Hold, CallUnchanged, fileVars, historyVars
<1>3. LogStill /\ TablesStill /\ StatesEarned'
  BY <1>2, QuietStates DEF LogStill, TablesStill
<1>4. /\ FrameEarned("dedup", h) /\ h \in Frame /\ o \in Frame /\ Referable(o.path, o.inode, o.sig)
      /\ (o # NoFrame => Started(o)) /\ DOMAIN stage = Reader /\ DOMAIN frame = Reader
  BY <1>1, <1>2, HeldEarned
<1>5. /\ g.path = h.path /\ g.inode = h.inode /\ g.sig = h.sig /\ g.end = h.end /\ g.late = h.late /\ g.batch = batch
  BY <1>1, <1>4 DEF Frame
<1>6. Referable(h.path, h.inode, h.sig) /\ ActorsRight(h) /\ PassedTo(h.inode, h.end, LinesOf(h), {}) /\ h.late = {}
  BY <1>4 DEF FrameEarned, Parsed
<1>7. \A l \in LinesOf(h) : l \in ingested \/ l \in LinesOf(g)
  <2>1. ASSUME NEW r \in h.batch PROVE r.line \in ingested \/ r \in batch
    BY <1>1 DEF Unseen, Stored, EarnedInv, RowsTaken
  <2> QED
    BY <1>5, <2>1 DEF LinesOf
<1>8. ASSUME NEW l, TakenIn(l, LinesOf(h), {}) PROVE TakenIn(l, LinesOf(g), {})
  BY <1>7, <1>8 DEF TakenIn
<1>9. PassedTo(h.inode, h.end, LinesOf(g), {})
  BY <1>6, <1>8 DEF PassedTo
<1>10. ActorsRight(g)
  BY <1>1, <1>5, <1>6 DEF ActorsRight, Unseen
<1>11. s = "save" => LinesOf(g) \subseteq ingested
  BY <1>1, <1>5 DEF LinesOf
<1>12. FrameEarned(s, g)
  BY <1>1, <1>5, <1>6, <1>9, <1>10, <1>11 DEF FrameEarned, Parsed
<1>13. stage'[p] = s /\ frame'[p] = g /\ outer'[p] = o
  BY <1>1, <1>2, <1>4
<1> QED
  BY <1>3, <1>4, <1>12, <1>13, QuietStep

LEMMA FoldEarned == ASSUME CowrieInv, EarnedInv, OneReader, NEW p \in Reader, Fold(p) PROVE EarnedInv'
<1>1. PICK h, o, g : h = frame[p] /\ o = outer[p] /\ g = [h EXCEPT !.seed = total]
  OBVIOUS
<1>2. /\ stage[p] = "fold" /\ stage' = [stage EXCEPT ![p] = "commit"] /\ frame' = [frame EXCEPT ![p] = g]
      /\ UNCHANGED <<line, inodeOf, content, blind, istate, bound, rows, ingested, outer>>
  BY <1>1 DEF Fold, Stage, Hold, CallUnchanged, fileVars, historyVars
<1>3. LogStill /\ TablesStill /\ StatesEarned'
  BY <1>2, QuietStates DEF LogStill, TablesStill
<1>4. /\ FrameEarned("fold", h) /\ h \in Frame /\ o \in Frame /\ Referable(o.path, o.inode, o.sig)
      /\ (o # NoFrame => Started(o)) /\ DOMAIN stage = Reader /\ DOMAIN frame = Reader
  BY <1>1, <1>2, HeldEarned
<1>5. /\ g.path = h.path /\ g.inode = h.inode /\ g.sig = h.sig /\ g.end = h.end /\ g.late = h.late
      /\ g.batch = h.batch
  BY <1>1, <1>4 DEF Frame
<1>6. FrameEarned("commit", g)
  BY <1>4, <1>5 DEF FrameEarned, Parsed, ActorsRight, LinesOf
<1>7. stage'[p] = "commit" /\ frame'[p] = g /\ outer'[p] = o
  BY <1>1, <1>2, <1>4
<1> QED
  BY <1>3, <1>4, <1>6, <1>7, QuietStep

(* The offset is saved when all before it is in the tables. *)
LEMMA SaveEarned == ASSUME CowrieInv, EarnedInv, OneReader, NEW p \in Reader, SaveOffset(p) PROVE EarnedInv'
<1>1. PICK h, o, saved, s :
        /\ h = frame[p] /\ o = outer[p] /\ saved = [inode |-> h.inode, offset |-> h.end, sig |-> h.sig]
        /\ s = IF InBackfill(p) THEN "backfill" ELSE "idle"
  OBVIOUS
<1>2. /\ stage[p] = "save" /\ istate' = [istate EXCEPT ![h.path] = saved]
      /\ stage' = [stage EXCEPT ![p] = s] /\ frame' = [frame EXCEPT ![p] = NoFrame]
      /\ UNCHANGED <<line, inodeOf, content, blind, bound, rows, ingested, outer>>
  BY <1>1 DEF SaveOffset, Return, Stage, Hold, CallUnchanged, fileVars, historyVars
<1>3. LogStill /\ TablesStill
  BY <1>2 DEF LogStill, TablesStill
<1>4. /\ FrameEarned("save", h) /\ h \in Frame /\ o \in Frame /\ Referable(o.path, o.inode, o.sig)
      /\ (o # NoFrame => Started(o)) /\ DOMAIN stage = Reader /\ DOMAIN frame = Reader
  BY <1>1, <1>2, HeldEarned
<1>5. /\ Referable(h.path, h.inode, h.sig) /\ PassedTo(h.inode, h.end, LinesOf(h), {}) /\ LinesOf(h) \subseteq ingested
      /\ h.path \in Path
  BY <1>4 DEF FrameEarned, Parsed, Frame
<1>6. PassedTo(h.inode, h.end, {}, {})
  <2>1. ASSUME NEW l, TakenIn(l, LinesOf(h), {}) PROVE TakenIn(l, {}, {})
    BY <1>5, <2>1 DEF TakenIn
  <2> QED
    BY <1>5, <2>1 DEF PassedTo
<1>7. StatesEarned'
  <2> SUFFICES ASSUME NEW f \in Path
               PROVE  /\ Referable(f, istate[f].inode, istate[f].sig)'
                      /\ PassedTo(istate[f].inode, istate[f].offset, {}, {})' \/ ShowsTruncation(istate[f])'
    BY DEF StatesEarned
  <2>1. PICK st : st = istate'[f]
    OBVIOUS
  <2>2. Referable(f, st.inode, st.sig) /\ (PassedTo(st.inode, st.offset, {}, {}) \/ ShowsTruncation(st))
    <3>1. istate \in [Path -> States]
      BY DEF CowrieInv, LogInv
    <3>2. CASE f = h.path
      <4>1. st = saved
        BY <1>2, <2>1, <3>1, <3>2
      <4> QED
        BY <1>1, <1>5, <1>6, <3>2, <4>1
    <3>3. CASE f # h.path
      <4>1. st = istate[f]
        BY <1>2, <2>1, <3>1, <3>3
      <4> QED
        BY <4>1 DEF EarnedInv, StatesEarned
    <3> QED
      BY <3>2, <3>3
  <2>3. Referable(f, st.inode, st.sig)' /\ (PassedTo(st.inode, st.offset, {}, {})' \/ ShowsTruncation(st)')
    BY <1>3, <2>2, StateSame
  <2> QED
    BY <2>1, <2>3
<1>8. FrameEarned(s, NoFrame)
  BY <1>1, NothingEarned
<1>9. stage'[p] = s /\ frame'[p] = NoFrame /\ outer'[p] = o
  BY <1>1, <1>2, <1>4
<1> QED
  BY <1>3, <1>4, <1>7, <1>8, <1>9, QuietStep

LEMMA FailEarned ==
  ASSUME CowrieInv, EarnedInv, OneReader, NEW p \in Reader, FailPass(p) \/ Die(p)
  PROVE  EarnedInv'
<1>1. UNCHANGED <<line, inodeOf, content, blind, istate, bound, rows, ingested>>
  BY DEF FailPass, Die, fileVars, historyVars
<1>2. LogStill /\ TablesStill /\ StatesEarned'
  BY <1>1, QuietStates DEF LogStill, TablesStill
<1>3. PICK o, s : o = outer[p] /\ s = IF FailPass(p) /\ InBackfill(p) THEN "backfill" ELSE "idle"
  OBVIOUS
<1>4. /\ o \in Frame /\ Referable(o.path, o.inode, o.sig) /\ (o # NoFrame => Started(o))
      /\ DOMAIN stage = Reader /\ DOMAIN frame = Reader /\ DOMAIN outer = Reader
  BY <1>3, HeldEarned
<1>5. NoFrame \in Frame /\ Referable(NoFrame.path, NoFrame.inode, NoFrame.sig)
  BY EmptyFrame, NothingEarned
<1>6. CASE FailPass(p)
  <2>1. stage'[p] = s /\ frame'[p] = NoFrame /\ outer'[p] = o
    BY <1>3, <1>4, <1>6 DEF FailPass, Return, Stage, Hold
  <2>2. FrameEarned(s, NoFrame)
    BY <1>3, NothingEarned
  <2> QED
    BY <1>2, <1>4, <2>1, <2>2, QuietStep
<1>7. CASE Die(p)
  <2>1. stage'[p] = "idle" /\ frame'[p] = NoFrame /\ outer'[p] = NoFrame
    BY <1>4, <1>7 DEF Die, Stage, Hold
  <2>2. FrameEarned("idle", NoFrame)
    BY NothingEarned
  <2> QED
    BY <1>2, <1>5, <2>1, <2>2, QuietStep
<1> QED
  BY <1>6, <1>7

-----------------------------------------------------------------------------
(* Transactions, and what they leave earned *)

(* A step of the tables: what a reader has in hand is as good as it was. *)
LEMMA FrameCarried ==
  ASSUME CowrieInv, LogStill, Carries, NEW s, NEW g \in Frame, FrameEarned(s, g),
         s \in Parsed => bound' = bound
  PROVE  FrameEarned(s, g)'
<1>1. Referable(g.path, g.inode, g.sig)' /\ (SizeHeld(g) => SizeHeld(g)')
  BY DEF FrameEarned, LogStill, Referable, Elsewhere, SizeHeld
<1>2. s = "read" => Started(g)'
  BY StillStarted DEF FrameEarned
<1>3. s \in Parsed => ActorsRight(g)' /\ PassedTo(g.inode, g.end, LinesOf(g), g.late)'
  <2>1. PICK i, n, ns, ss : i = g.inode /\ n = g.end /\ ns = LinesOf(g) /\ ss = g.late
    OBVIOUS
  <2>2. n \in Nat
    BY <2>1 DEF Frame
  <2>3. PassedTo(i, n, ns, ss) => PassedTo(i, n, ns, ss)'
    BY <2>2, StillPassed
  <2>4. s \in Parsed /\ ActorsRight(g) => ActorsRight(g)'
    BY DEF LogStill, ActorsRight
  <2> QED
    BY <2>1, <2>3, <2>4 DEF FrameEarned
<1>4. s = "save" => LinesOf(g) \subseteq ingested'
  BY DEF FrameEarned, Carries
<1> QED
  BY <1>1, <1>2, <1>3, <1>4 DEF FrameEarned

LEMMA ReconcileEarned ==
  ASSUME CowrieInv, EarnedInv, OneReader, NEW p \in Reader, ReconcileSession(p)
  PROVE  EarnedInv'
<1>1. PICK s \in frame[p].late :
        /\ rows' = Moved(s)
        /\ frame' = [frame EXCEPT ![p] = [frame[p] EXCEPT !.late = frame[p].late \ {s}]]
  BY DEF ReconcileSession, Hold
<1>2. /\ stage[p] = "reconcile"
      /\ UNCHANGED <<line, inodeOf, content, blind, istate, bound, ingested, stage, outer>>
  BY DEF ReconcileSession, CallUnchanged, fileVars, historyVars
<1>3. PICK h, o, g : h = frame[p] /\ o = outer[p] /\ g = [h EXCEPT !.late = h.late \ {s}]
  OBVIOUS
<1>4. /\ FrameEarned("reconcile", h) /\ h \in Frame /\ o \in Frame /\ Referable(o.path, o.inode, o.sig)
      /\ (o # NoFrame => Started(o)) /\ DOMAIN frame = Reader
  BY <1>2, <1>3, HeldEarned
<1>5. /\ g.path = h.path /\ g.inode = h.inode /\ g.sig = h.sig /\ g.end = h.end /\ g.late = h.late \ {s}
      /\ g.batch = h.batch /\ h.end \in Nat
  BY <1>3, <1>4 DEF Frame
<1>6. ASSUME NEW e \in rows'
      PROVE  \E d \in rows : e.line = d.line /\ (e = d \/ e.actor = Hassh) /\ (e = d => d \notin Strays(s))
  <2>1. CASE e \in rows \ Strays(s)
    BY <2>1
  <2>2. CASE e \notin rows \ Strays(s)
    <3>1. PICK d \in Strays(s) : e = [d EXCEPT !.actor = Hassh]
      BY <1>1, <1>6, <2>2 DEF Moved
    <3>2. d \in rows /\ d.actor # Hassh /\ d \in Event
      BY <3>1 DEF Strays, CowrieInv, TableInv
    <3>3. e.line = d.line /\ e.actor = Hassh
      BY <3>1, <3>2 DEF Event
    <3> QED
      BY <3>2, <3>3
  <2> QED
    BY <2>1, <2>2
<1>7. ASSUME NEW t, Strays(t) = {} PROVE Strays(t)' = {}
  <2>1. ASSUME NEW e \in rows', line[e.line].session = t, e.actor # Hassh PROVE FALSE
    BY <1>6, <1>7, <2>1 DEF Strays
  <2> QED
    BY <1>2, <2>1 DEF Strays
<1>8. Strays(s)' = {}
  <2>1. ASSUME NEW e \in rows', line[e.line].session = s, e.actor # Hassh PROVE FALSE
    BY <1>6, <2>1 DEF Strays
  <2> QED
    BY <1>2, <2>1 DEF Strays
<1>9. LogStill /\ Carries
  BY <1>2, <1>7, ContentTyped DEF LogStill, Carries
<1>10. RowsTaken' /\ StatesEarned'
  BY <1>2, <1>6, <1>9, StatesStill DEF EarnedInv, RowsTaken
<1>11. Referable(h.path, h.inode, h.sig) /\ ActorsRight(h) /\ PassedTo(h.inode, h.end, LinesOf(h), h.late)
  BY <1>4 DEF FrameEarned, Parsed
<1>12. LinesOf(g) = LinesOf(h)
  BY <1>5 DEF LinesOf
<1>13. PassedTo(g.inode, g.end, LinesOf(g), g.late)'
  <2>1. PICK i, n, ns, ss : i = h.inode /\ n = h.end /\ ns = LinesOf(h) /\ ss = h.late
    OBVIOUS
  <2>2. PassedTo(i, n, ns, ss)'
    BY <1>5, <1>9, <1>11, <2>1, StillPassed
  <2>3. ASSUME NEW l, TakenIn(l, ns, ss)' PROVE TakenIn(l, ns, ss \ {s})'
    BY <1>8, <2>3 DEF TakenIn
  <2>4. PassedTo(i, n, ns, ss \ {s})'
    BY <2>2, <2>3 DEF PassedTo
  <2> QED
    BY <1>5, <1>12, <2>1, <2>4
<1>14. FrameEarned("reconcile", g)'
  BY <1>2, <1>5, <1>11, <1>13 DEF FrameEarned, Parsed, Referable, Elsewhere, ActorsRight
<1>15. stage'[p] = "reconcile" /\ frame'[p] = g /\ outer'[p] = o
  BY <1>1, <1>2, <1>3, <1>4
<1> QED
  BY <1>4, <1>9, <1>10, <1>14, <1>15, ReaderStep

LEMMA CommitEarned ==
  ASSUME CowrieInv, EarnedInv, OneReader, NEW p \in Reader, CommitBatch(p)
  PROVE  EarnedInv'
<1>1. PICK h, o : h = frame[p] /\ o = outer[p]
  OBVIOUS
<1>2. /\ stage[p] = "commit" /\ stage' = [stage EXCEPT ![p] = "save"]
      /\ rows' = Appended(h.batch) /\ ingested' = ingested \cup {r.line : r \in h.batch}
      /\ UNCHANGED <<line, inodeOf, content, blind, istate, bound, frame, outer>>
  BY <1>1 DEF CommitBatch, Stage, CallUnchanged, fileVars
<1>3. /\ FrameEarned("commit", h) /\ h \in Frame /\ o \in Frame /\ Referable(o.path, o.inode, o.sig)
      /\ (o # NoFrame => Started(o)) /\ DOMAIN stage = Reader
  BY <1>1, <1>2, HeldEarned
<1>4. ActorsRight(h) /\ h.batch \in SUBSET Fresh
  BY <1>3 DEF FrameEarned, Parsed, Frame
<1>5. ASSUME NEW e \in rows'
      PROVE  e \in rows \/ \E r \in h.batch : e.line = r.line /\ e.actor = r.actor
  <2>1. CASE e \notin rows
    <3>1. PICK r \in h.batch : e = [r EXCEPT !.copy = Copies(r.line)]
      BY <1>2, <1>5, <2>1 DEF Appended
    <3>2. r \in Fresh
      BY <1>4
    <3> QED
      BY <3>1, <3>2 DEF Fresh
  <2> QED
    BY <2>1
<1>6. ASSUME NEW s \in bound, Strays(s) = {} PROVE Strays(s)' = {}
  <2>1. ASSUME NEW e \in rows', line[e.line].session = s, e.actor # Hassh PROVE FALSE
    BY <1>4, <1>5, <1>6, <2>1 DEF Strays, ActorsRight
  <2> QED
    BY <1>2, <2>1 DEF Strays
<1>7. LogStill /\ Carries
  BY <1>2, <1>6, ContentTyped DEF LogStill, Carries
<1>8. RowsTaken' /\ StatesEarned'
  BY <1>2, <1>4, <1>5, <1>7, StatesStill DEF EarnedInv, RowsTaken, ActorsRight
<1>9. FrameEarned("commit", h)'
  BY <1>2, <1>3, <1>7, FrameCarried
<1>10. FrameEarned("save", h)'
  BY <1>2, <1>9 DEF FrameEarned, Parsed, LinesOf
<1>11. stage'[p] = "save" /\ frame'[p] = h /\ outer'[p] = o
  BY <1>1, <1>2, <1>3
<1> QED
  BY <1>3, <1>7, <1>8, <1>10, <1>11, ReaderStep

(* A step of the tables beside the reader: retention, a replacement. *)
LEMMA TableStep ==
  ASSUME CowrieInv, EarnedInv, OneReader, LogStill, Carries, RowsTaken', UNCHANGED <<istate, stage, frame, outer>>,
         NEW p \in Reader, stage[p] \in Parsed => bound' = bound
  PROVE  EarnedInv'
<1>1. PICK s, g, o : s = stage[p] /\ g = frame[p] /\ o = outer[p]
  OBVIOUS
<1>2. /\ FrameEarned(s, g) /\ g \in Frame /\ o \in Frame /\ Referable(o.path, o.inode, o.sig)
      /\ (o # NoFrame => Started(o)) /\ (s \in Parsed => bound' = bound)
  BY <1>1, HeldEarned
<1>3. FrameEarned(s, g)'
  BY <1>2, FrameCarried
<1>4. StatesEarned'
  BY StatesStill
<1>5. stage'[p] = s /\ frame'[p] = g /\ outer'[p] = o
  BY <1>1
<1> QED
  BY <1>2, <1>3, <1>4, <1>5, ReaderStep

LEMMA PurgeEarned ==
  ASSUME CowrieInv, EarnedInv, OneReader, NEW n \in DOMAIN line, PurgeEvents(n)
  PROVE  EarnedInv'
<1>1. /\ rows' \subseteq rows
      /\ UNCHANGED <<line, inodeOf, content, blind, istate, bound, ingested, stage, frame, outer>>
  BY DEF PurgeEvents, fileVars, readerVars
<1>2. LogStill /\ Carries
  <2>1. ASSUME NEW s, Strays(s) = {} PROVE Strays(s)' = {}
    BY <1>1, <2>1 DEF Strays
  <2> QED
    BY <1>1, <2>1, ContentTyped DEF LogStill, Carries
<1>3. RowsTaken'
  BY <1>1 DEF EarnedInv, RowsTaken
<1>4. CASE Reader = {}
  BY <1>1, <1>2, <1>3, <1>4, StatesStill DEF EarnedInv, FramesEarned, LogStill
<1>5. CASE Reader # {}
  <2>1. PICK p \in Reader : TRUE
    BY <1>5
  <2> QED
    BY <1>1, <1>2, <1>3, TableStep
<1> QED
  BY <1>4, <1>5

LEMMA OrphanEarned ==
  ASSUME CowrieInv, EarnedInv, NEW b \in CowrieActor, PurgeOrphan(b)
  PROVE  EarnedInv'
<1>1. UNCHANGED <<line, inodeOf, content, blind, istate, bound, rows, ingested, stage, frame, outer>>
  BY DEF PurgeOrphan, fileVars, readerVars, historyVars
<1> QED
  BY <1>1, EarnedSame DEF LogStill, TablesStill

LEMMA ReplaceEarned ==
  ASSUME CowrieInv, EarnedInv, OneReader, NEW p \in Reader, Replace(p)
  PROVE  EarnedInv'
<1>1. PICK end \in {Terminated(inodeOf[Log]), Len(content[inodeOf[Log]])} :
        LET read == SubSeq(content[inodeOf[Log]], 1, end)
            known == Bind(read)
        IN  /\ bound' = known /\ rows' = AsRows(EventLines(read), known)
            /\ ingested' = ingested \cup EventLines(read)
  BY DEF Replace
<1>2. PICK c, read, known :
        c = content[inodeOf[Log]] /\ read = SubSeq(content[inodeOf[Log]], 1, end) /\ known = Bind(read)
  OBVIOUS
<1>3. /\ bound' = known /\ rows' = AsRows(EventLines(read), known) /\ ingested' = ingested \cup EventLines(read)
      /\ read = SubSeq(c, 1, end)
  BY <1>1, <1>2
<1>4. stage[p] = "idle" /\ UNCHANGED <<line, inodeOf, content, blind, istate, stage, frame, outer>>
  BY DEF Replace, fileVars, readerVars
<1>5. ToSet(read) \subseteq 1 .. Len(line)
  <2>1. inodeOf[Log] \in DOMAIN content
    BY CowrieNames DEF CowrieInv, LogInv
  <2>2. c \in Seq(1 .. Len(line)) /\ Len(c) \in Nat
    BY <1>2, <2>1, ContentTyped
  <2>3. PICK m : m = IF torn /\ inodeOf[Log] = inodeOf[Log] THEN 1 ELSE 0
    OBVIOUS
  <2>4. end \in {Len(c) - m, Len(c)} /\ m \in {0, 1}
    BY <1>1, <1>2, <2>3 DEF Terminated
  <2>5. end \in Int /\ end <= Len(c) /\ 0 \in Nat /\ 0 + 1 = 1
    BY <2>2, <2>4
  <2>6. ToSet(SubSeq(c, 0 + 1, end)) \subseteq 1 .. Len(line)
    BY <2>2, <2>5, PartOf
  <2> QED
    BY <1>3, <2>5, <2>6
<1>6. EventLines(read) \subseteq 1 .. Len(line)
  BY <1>5 DEF EventLines
<1>7. ASSUME NEW e \in rows'
      PROVE  e.line \in EventLines(read) /\ (line[e.line].session \in known => e.actor = Hassh)
  <2>1. PICK n \in EventLines(read) : e = Row(n, known)
    BY <1>3, <1>7 DEF AsRows
  <2> QED
    BY <2>1 DEF Row, ActorFor
<1>8. bound \subseteq known
  BY <1>2 DEF Bind
<1>9. ASSUME NEW s \in known PROVE Strays(s)' = {}
  <2>1. ASSUME NEW e \in rows', line[e.line].session = s, e.actor # Hassh PROVE FALSE
    BY <1>7, <2>1
  <2> QED
    BY <1>4, <2>1 DEF Strays
<1>10. LogStill /\ Carries
  BY <1>3, <1>4, <1>8, <1>9, ContentTyped DEF LogStill, Carries
<1>11. RowsTaken'
  BY <1>3, <1>4, <1>6, <1>7 DEF EarnedInv, RowsTaken
<1>12. stage[p] \notin Parsed
  BY <1>4 DEF Parsed
<1> QED
  BY <1>4, <1>10, <1>11, <1>12, TableStep

LEMMA EarnedStep ==
  ASSUME CowrieInv, EarnedInv, OneReader, [CowrieNext]_cowrieVars
  PROVE  EarnedInv'
<1>1. CASE UNCHANGED cowrieVars
  <2>1. UNCHANGED <<line, inodeOf, content, blind, istate, bound, rows, ingested, stage, frame, outer>>
    BY <1>1 DEF cowrieVars, fileVars, readerVars, historyVars
  <2> QED
    BY <2>1, EarnedSame DEF LogStill, TablesStill
<1>2. CASE CowrieNext
  BY <1>2, WriteEarned, FinishEarned, RenameEarned, TruncateEarned, PollEarned, ExamineEarned, NextFileEarned,
     ReadEarned, ReconcileEarned, ReconciledEarned, DedupEarned, FoldEarned, CommitEarned, SaveEarned,
     FailEarned, ReplaceEarned, PurgeEarned, OrphanEarned DEF CowrieNext, PassStep
<1> QED
  BY <1>1, <1>2

LEMMA EarnedMeans == ASSUME CowrieInv, EarnedInv PROVE OffsetEarned
<1> SUFFICES ASSUME NEW f \in Path, inodeOf[f] \notin blind \cup {0}
             PROVE  LET passed == SubSeq(content[inodeOf[f]], 1, ResumesWhere(f))
                    IN  /\ EventLines(passed) \subseteq ingested
                        /\ \A s \in KexSessions(passed) : Strays(s) = {}
  BY DEF OffsetEarned
<1>1. PICK i, c, r, passed :
        i = inodeOf[f] /\ c = content[i] /\ r = ResumesWhere(f) /\ passed = SubSeq(c, 1, r)
  OBVIOUS
<1>2. i \in DOMAIN content
  BY <1>1 DEF CowrieInv, LogInv
<1>3. c \in Seq(1 .. Len(line)) /\ Len(c) \in Nat
  BY <1>1, <1>2, ContentTyped
<1>4. r \in Nat /\ PassedTo(i, r, {}, {})
  BY <1>1, <1>2, <1>3, ResumeEarned DEF ResumesWhere
<1>5. r <= Len(c) /\ \A k \in 1 .. r : TakenIn(c[k], {}, {})
  BY <1>1, <1>2, <1>4 DEF PassedTo
<1>6. ASSUME NEW l \in ToSet(passed) PROVE TakenIn(l, {}, {})
  <2>1. PICK S : S = 1 .. Len(line)
    OBVIOUS
  <2>2. r \in Int /\ 1 \in Int /\ \A y \in 1 .. r : c[y] \in S
    BY <1>3, <1>4, <1>5, <2>1
  <2>3. passed \in Seq(S) /\ Len(passed) = (IF 1 <= r THEN r - 1 + 1 ELSE 0)
        /\ \A y \in 1 .. r - 1 + 1 : passed[y] = c[1 + y - 1]
    BY <1>1, <2>2, SubSeqProperties
  <2>4. DOMAIN passed = 1 .. r /\ \A y \in 1 .. r : passed[y] = c[y]
    BY <1>4, <2>3
  <2>5. PICK k \in DOMAIN passed : l = passed[k]
    BY <1>6 DEF ToSet
  <2> QED
    BY <1>5, <2>4, <2>5
<1>7. EventLines(passed) \subseteq ingested
  BY <1>6 DEF EventLines, TakenIn
<1>8. \A s \in KexSessions(passed) : Strays(s) = {}
  BY <1>6 DEF KexSessions, TakenIn
<1> QED
  BY <1>1, <1>7, <1>8

(* Where one process ingests, the next pass over a file leaves no line out *)
(* and no event of a bound session with the address actor, for any log,    *)
(* rotations, truncations that can be told, failures, crashes, retention   *)
(* and replacement between any two steps (cowrie/ingest.go).               *)
THEOREM OffsetsAreEarned ==
  ASSUME OneReader
  PROVE  CowrieSpec => []OffsetEarned
<1>1. CowrieInv /\ EarnedInv => OffsetEarned
  BY EarnedMeans
<1>2. CowrieInit => CowrieInv /\ EarnedInv
  BY CowrieStart, EarnedStart
<1>3. CowrieInv /\ EarnedInv /\ [CowrieNext]_cowrieVars => CowrieInv' /\ EarnedInv'
  BY CowrieStep, EarnedStep
<1> QED
  BY <1>1, <1>2, <1>3, PTL DEF CowrieSpec

-----------------------------------------------------------------------------
(* Script families *)

Fields ==
  {"at", "settled", "regrouped", "steady", "queue", "reps", "read", "gone", "out", "want", "drop",
   "write", "orphans"}
IsMap(f) == f = [x \in DOMAIN f |-> f[x]]

(* Rows and ticks have their shape. *)
TablesInv ==
  /\ DOMAIN use = SessionID
  /\ \A s \in SessionID :
       /\ {"now", "fp"} \subseteq DOMAIN use[s]
       /\ use[s].now \in Script \/ use[s] = NoRow
  /\ DOMAIN scripts \subseteq Script
  /\ \A f \in DOMAIN scripts : {"family", "gap", "first"} \subseteq DOMAIN scripts[f]
  /\ IsMap(families)
  /\ DOMAIN pass = Worker /\ \A w \in Worker : Fields \subseteq DOMAIN pass[w]

(* Where no tick began during another, one worker has one; a reset that   *)
(* none overlaps is alone, and has emptied the tables it is done with.     *)
Resetting == {"rows", "scripts", "families"}
AloneInv ==
  /\ met = {} => \A w \in Worker : \A o \in Worker \ {w} : pass[w].at = "idle" \/ pass[o].at = "idle"
  /\ "reset" \notin met => \A w \in Worker : pass[w].at \in Resetting =>
       /\ versionDue /\ \A o \in Worker \ {w} : pass[o].at = "idle"
       /\ pass[w].at # "rows" => \A s \in SessionID : use[s] = NoRow
       /\ pass[w].at = "families" => DOMAIN scripts = {}

(* What a pass listed is as it was, or a replacement took it all; it files *)
(* every script under itself or under a representative near to it.         *)
Filing(t) ==
  \/ DOMAIN scripts = {}
  \/ /\ DOMAIN t.queue \cup DOMAIN t.out \cup t.reps \subseteq DOMAIN scripts
     /\ DOMAIN t.queue \cap DOMAIN t.out = {}
     /\ \A f \in DOMAIN t.queue : scripts[f].family = 0
     /\ \A r \in t.reps :
          r \in Distinctive /\ (Leads(r) \/ (r \in DOMAIN t.out /\ scripts[r].family = 0 /\ t.out[r].family = r))
     /\ \A f \in DOMAIN t.out :
          \/ t.out[f].family = f
          \/ /\ t.out[f].family \in t.reps /\ f \in Distinctive
             /\ t.out[f].gap = Gap[f][t.out[f].family] /\ Gap[f][t.out[f].family] <= FamilyThreshold

(* What a rebuild has still to drop and to write is all that differs. *)
Rebuilding(t) ==
  /\ IsMap(t.want) /\ t.drop \cap DOMAIN t.want = {} /\ t.write \subseteq DOMAIN t.want
  /\ DOMAIN families \subseteq DOMAIN t.want \cup t.drop
  /\ \A id \in DOMAIN t.want \ t.write : id \in DOMAIN families /\ families[id] = t.want[id]

TickInv(t) ==
  /\ t.regrouped => t.at \in {"snapshot", "rebuild", "prune", "chunks"}
  /\ t.at # "assign" => DOMAIN t.out = {}
  /\ t.at = "assign" => Filing(t)
  /\ t.regrouped /\ t.steady /\ t.at = "rebuild" => Rebuilding(t)
  /\ t.regrouped /\ t.steady /\ t.at \in {"prune", "chunks"} => families = t.want

TicksInv == met = {} => \A w \in Worker : TickInv(pass[w])

FamiliesInv == TablesInv /\ AloneInv /\ TicksInv /\ FamiliesLed /\ SettledHasScript

-----------------------------------------------------------------------------

LEMMA NoTickShape == Fields \subseteq DOMAIN NoTick /\ NoTick.at = "idle" /\ ~NoTick.regrouped /\ DOMAIN NoTick.out = {}
BY DEF NoTick, Fields

LEMMA NoScriptZero == 0 \notin Script
BY FamiliesAssumption

(* A tick is looked at through the scripts, the families and who has met. *)
LEMMA TicksStay ==
  ASSUME TicksInv, UNCHANGED <<scripts, families, pass, met>>
  PROVE  TicksInv'
<1> SUFFICES ASSUME met = {}, NEW w \in Worker PROVE TickInv(pass[w])'
  BY DEF TicksInv
<1>1. PICK t : t = pass[w]
  OBVIOUS
<1>2. TickInv(t) /\ pass'[w] = t
  BY <1>1 DEF TicksInv
<1>3. (Filing(t) => Filing(t)') /\ (Rebuilding(t) => Rebuilding(t)')
  BY DEF Filing, Rebuilding, Leads
<1>4. TickInv(t)'
  BY <1>2, <1>3 DEF TickInv
<1> QED
  BY <1>2, <1>4

LEMMA FamiliesStart == FamiliesInit => FamiliesInv
<1> SUFFICES ASSUME FamiliesInit PROVE FamiliesInv
  OBVIOUS
<1>1. /\ use = [s \in SessionID |-> NoRow] /\ DOMAIN scripts = {} /\ IsMap(families)
      /\ pass = [w \in Worker |-> NoTick] /\ met = {}
  BY DEF FamiliesInit, IsMap
<1>2. TablesInv
  BY <1>1, NoTickShape DEF TablesInv, NoRow
<1>3. AloneInv
  BY <1>1, NoTickShape DEF AloneInv, Resetting
<1>4. TicksInv
  BY <1>1, NoTickShape DEF TicksInv, TickInv
<1>5. FamiliesLed /\ SettledHasScript
  BY <1>1 DEF FamiliesLed, SettledHasScript, NoRow
<1> QED
  BY <1>2, <1>3, <1>4, <1>5 DEF FamiliesInv

(* A tick's step that touches no table: its own record is what is left to  *)
(* look at.                                                                *)
LEMMA OwnStep ==
  ASSUME FamiliesInv, NEW w \in Worker, NEW t,
         pass[w].at # "idle", pass' = [pass EXCEPT ![w] = t], Fields \subseteq DOMAIN t,
         t.at \notin Resetting, TickInv(pass[w]) => TickInv(t),
         UNCHANGED <<use, scripts, families, versionDue, met>>
  PROVE  FamiliesInv'
<1>1. /\ DOMAIN pass = Worker /\ pass'[w] = t /\ DOMAIN pass' = Worker
      /\ \A o \in Worker \ {w} : pass'[o] = pass[o]
  BY DEF FamiliesInv, TablesInv
<1>2. TablesInv'
  BY <1>1 DEF FamiliesInv, TablesInv, IsMap, NoRow
<1>3. AloneInv'
  <2>1. ASSUME met = {}, NEW v \in Worker, NEW o \in Worker \ {v}
        PROVE  pass'[v].at = "idle" \/ pass'[o].at = "idle"
    BY <1>1, <2>1 DEF FamiliesInv, AloneInv
  <2>2. ASSUME "reset" \notin met, NEW v \in Worker, pass'[v].at \in Resetting
        PROVE  FALSE
    <3>1. v # w /\ pass[v].at \in Resetting
      BY <1>1, <2>2
    <3> QED
      BY <2>2, <3>1 DEF FamiliesInv, AloneInv
  <2> QED
    BY <2>1, <2>2 DEF AloneInv
<1>4. TicksInv'
  <2>1. ASSUME met = {}, NEW v \in Worker PROVE TickInv(pass'[v])
    <3>1. TickInv(pass[v])
      BY <2>1 DEF FamiliesInv, TicksInv
    <3> QED
      BY <1>1, <3>1
  <2>2. ASSUME met = {}, NEW v \in Worker PROVE TickInv(pass[v])'
    <3>1. PICK r : r = pass'[v]
      OBVIOUS
    <3>2. TickInv(r)
      BY <2>1, <2>2, <3>1
    <3>3. Filing(r) => Filing(r)'
      BY DEF Filing, Leads
    <3>4. Rebuilding(r) => Rebuilding(r)'
      BY DEF Rebuilding
    <3>5. TickInv(r)'
      BY <3>2, <3>3, <3>4 DEF TickInv
    <3> QED
      BY <3>1, <3>5
  <2> QED
    BY <2>2 DEF TicksInv
<1>5. FamiliesLed' /\ SettledHasScript'
  BY DEF FamiliesInv, FamiliesLed, SettledHasScript, Led, Leads
<1> QED
  BY <1>2, <1>3, <1>4, <1>5 DEF FamiliesInv

LEMMA ListInv == ASSUME FamiliesInv, NEW w \in Worker, ListScripts(w) PROVE FamiliesInv'
<1>1. Fields \subseteq DOMAIN pass[w] /\ pass[w].at = "list"
  BY DEF FamiliesInv, TablesInv, ListScripts, InStage
<1>2. CASE DOMAIN Unfiled = {}
  <2>1. PICK t : t = [pass[w] EXCEPT !.at = "decide"]
    OBVIOUS
  <2>2. pass' = [pass EXCEPT ![w] = t]
    BY <1>2, <2>1 DEF ListScripts
  <2>3. Fields \subseteq DOMAIN t /\ t.at = "decide" /\ t.regrouped = pass[w].regrouped /\ t.out = pass[w].out
    BY <1>1, <2>1 DEF Fields
  <2>4. TickInv(pass[w]) => TickInv(t)
    BY <1>1, <2>3 DEF TickInv
  <2> QED
    BY <1>1, <2>2, <2>3, <2>4, OwnStep DEF ListScripts, Resetting
<1>3. CASE DOMAIN Unfiled # {}
  <2>1. PICK t : t = [pass[w] EXCEPT !.at = "assign", !.queue = Unfiled, !.reps = Representatives]
    OBVIOUS
  <2>2. pass' = [pass EXCEPT ![w] = t]
    BY <1>3, <2>1 DEF ListScripts
  <2>3. /\ Fields \subseteq DOMAIN t /\ t.at = "assign" /\ t.regrouped = pass[w].regrouped
        /\ t.queue = Unfiled /\ t.reps = Representatives /\ t.out = pass[w].out
    BY <1>1, <2>1 DEF Fields
  <2>4. DOMAIN Unfiled \subseteq {g \in DOMAIN scripts : scripts[g].family = 0}
    BY DEF Unfiled, Restrict
  <2>5. TickInv(pass[w]) => TickInv(t)
    BY <1>1, <2>3, <2>4 DEF TickInv, Filing, Representatives
  <2> QED
    BY <1>1, <2>2, <2>3, <2>5, OwnStep DEF ListScripts, Resetting
<1> QED
  BY <1>2, <1>3

LEMMA AssignInv == ASSUME FamiliesInv, NEW w \in Worker, NEW f \in Script, AssignOne(w, f) PROVE FamiliesInv'
<1>1. PICK t : t = pass[w]
  OBVIOUS
<1>2. PICK near : near = IF f \in Distinctive THEN NearestReps(t.reps, Size[f]) ELSE {}
  OBVIOUS
<1>3. PICK gone : gone = t.gone \cup {r \in near \ t.read : r \notin DOMAIN scripts}
  OBVIOUS
<1>4. PICK match : match = AssignFamily(f, near \ gone)
  OBVIOUS
<1>5. PICK family : family = IF match = {} THEN f ELSE CHOOSE r \in match : TRUE
  OBVIOUS
<1>6. PICK led : led = IF match = {} /\ f \in Distinctive THEN {f} ELSE {}
  OBVIOUS
<1>7. PICK queue : queue = Restrict(t.queue, DOMAIN t.queue \ {f})
  OBVIOUS
<1>8. PICK out : out = [g \in DOMAIN t.out \cup {f} |->
                          IF g \in DOMAIN t.out THEN t.out[g]
                          ELSE [family |-> family, gap |-> IF match = {} THEN 0 ELSE Gap[f][family]]]
  OBVIOUS
<1>9. PICK n : n = [t EXCEPT !.queue = queue, !.gone = gone, !.read = @ \cup (near \ gone) \cup led,
                             !.reps = @ \cup led, !.out = out]
  OBVIOUS
<1>10. /\ Fields \subseteq DOMAIN t /\ t.at = "assign" /\ f \in DOMAIN t.queue
       /\ pass' = [pass EXCEPT ![w] = n]
  <2>1. Fields \subseteq DOMAIN t
    BY <1>1 DEF FamiliesInv, TablesInv
  <2>2. t.at = "assign" /\ f \in DOMAIN t.queue
    BY <1>1 DEF AssignOne, InStage
  <2>3. pass' = [pass EXCEPT ![w] = n]
    <3>1. pass' = [pass EXCEPT ![w] =
            [t EXCEPT !.queue = queue, !.gone = gone,
                      !.read = @ \cup (near \ gone) \cup led, !.reps = @ \cup led,
                      !.out = [g \in DOMAIN @ \cup {f} |->
                                 IF g \in DOMAIN @ THEN @[g]
                                 ELSE [family |-> family, gap |-> IF match = {} THEN 0 ELSE Gap[f][family]]]]]
      BY <1>1, <1>2, <1>3, <1>4, <1>5, <1>6, <1>7 DEF AssignOne
    <3> QED
      BY <1>8, <1>9, <3>1
  <2> QED
    BY <2>1, <2>2, <2>3
<1>11. /\ Fields \subseteq DOMAIN n /\ n.at = "assign" /\ n.regrouped = t.regrouped
       /\ n.queue = queue /\ n.reps = t.reps \cup led /\ n.out = out
  BY <1>9, <1>10 DEF Fields
<1>12. /\ match \subseteq t.reps /\ (match # {} => f \in Distinctive /\ family \in match)
       /\ \A r \in match : Gap[f][r] <= FamilyThreshold
  BY <1>2, <1>4, <1>5 DEF AssignFamily, NearestReps
<1>13. DOMAIN queue = DOMAIN t.queue \ {f} /\ DOMAIN out = DOMAIN t.out \cup {f}
  BY <1>7, <1>8 DEF Restrict
<1>14. /\ \A g \in DOMAIN t.out : out[g] = t.out[g]
       /\ f \notin DOMAIN t.out => out[f].family = family /\ (match # {} => out[f].gap = Gap[f][family])
  BY <1>8
<1>15. ASSUME Filing(t), DOMAIN scripts # {} PROVE Filing(n)
  <2>1. /\ DOMAIN t.queue \cup DOMAIN t.out \cup t.reps \subseteq DOMAIN scripts
        /\ DOMAIN t.queue \cap DOMAIN t.out = {} /\ f \notin DOMAIN t.out
        /\ \A g \in DOMAIN t.queue : scripts[g].family = 0
    BY <1>10, <1>15 DEF Filing
  <2>2. /\ DOMAIN queue \cup DOMAIN out \cup (t.reps \cup led) \subseteq DOMAIN scripts
        /\ DOMAIN queue \cap DOMAIN out = {} /\ \A g \in DOMAIN queue : scripts[g].family = 0
    BY <1>6, <1>10, <1>13, <2>1
  <2>3. ASSUME NEW r \in t.reps \cup led
        PROVE  r \in Distinctive /\ (Leads(r) \/ (r \in DOMAIN out /\ scripts[r].family = 0 /\ out[r].family = r))
    <3>1. CASE r \in t.reps
      BY <1>13, <1>14, <1>15, <3>1 DEF Filing
    <3>2. CASE r \in led
      BY <1>5, <1>6, <1>10, <1>13, <1>14, <2>1, <3>2
    <3> QED
      BY <3>1, <3>2
  <2>4. ASSUME NEW g \in DOMAIN out
        PROVE  \/ out[g].family = g
               \/ /\ out[g].family \in t.reps \cup led /\ g \in Distinctive
                  /\ out[g].gap = Gap[g][out[g].family] /\ Gap[g][out[g].family] <= FamilyThreshold
    <3>1. CASE g \in DOMAIN t.out
      <4>1. PICK o : o = t.out[g]
        OBVIOUS
      <4>2. \/ o.family = g
            \/ /\ o.family \in t.reps /\ g \in Distinctive
               /\ o.gap = Gap[g][o.family] /\ Gap[g][o.family] <= FamilyThreshold
        BY <1>15, <3>1, <4>1 DEF Filing
      <4>3. out[g] = o
        BY <1>14, <3>1, <4>1
      <4> QED
        BY <4>2, <4>3
    <3>2. CASE g = f
      BY <1>5, <1>12, <1>14, <2>1, <3>2
    <3> QED
      BY <1>13, <3>1, <3>2
  <2> QED
    BY <1>11, <2>2, <2>3, <2>4 DEF Filing
<1>16. TickInv(t) => TickInv(n)
  <2>1. Filing(t) => Filing(n)
    BY <1>15 DEF Filing
  <2> QED
    BY <1>10, <1>11, <2>1 DEF TickInv
<1> QED
  BY <1>1, <1>10, <1>11, <1>16, OwnStep DEF AssignOne, Resetting

LEMMA RegroupInv == ASSUME FamiliesInv, NEW w \in Worker, SaveRegroup(w) PROVE FamiliesInv'
<1>1. Fields \subseteq DOMAIN pass[w] /\ pass[w].at = "decide"
  BY DEF FamiliesInv, TablesInv, SaveRegroup, InStage
<1>2. PICK t : t = [pass[w] EXCEPT !.at = "snapshot", !.regrouped = TRUE]
  OBVIOUS
<1>3. Fields \subseteq DOMAIN t /\ t.at = "snapshot" /\ t.out = pass[w].out
  BY <1>1, <1>2 DEF Fields
<1>4. pass' = [pass EXCEPT ![w] = t]
  BY <1>2 DEF SaveRegroup
<1>5. TickInv(pass[w]) => TickInv(t)
  BY <1>1, <1>3 DEF TickInv
<1> QED
  BY <1>1, <1>3, <1>4, <1>5, OwnStep DEF SaveRegroup, Resetting

LEMMA SnapshotFamiliesInv == ASSUME FamiliesInv, NEW w \in Worker, SnapshotFamilies(w) PROVE FamiliesInv'
<1>1. Fields \subseteq DOMAIN pass[w] /\ pass[w].at = "snapshot"
  BY DEF FamiliesInv, TablesInv, SnapshotFamilies, InStage
<1>2. PICK t : t = [pass[w] EXCEPT !.at = "rebuild", !.want = FamilyRows, !.steady = TRUE,
                      !.drop = DOMAIN families \ DOMAIN FamilyRows, !.write = Differs(FamilyRows)]
  OBVIOUS
<1>3. /\ Fields \subseteq DOMAIN t /\ t.at = "rebuild" /\ t.out = pass[w].out /\ t.want = FamilyRows
      /\ t.drop = DOMAIN families \ DOMAIN FamilyRows /\ t.write = Differs(FamilyRows)
  BY <1>1, <1>2 DEF Fields
<1>4. pass' = [pass EXCEPT ![w] = t]
  BY <1>2 DEF SnapshotFamilies
<1>5. IsMap(FamilyRows)
  BY DEF IsMap, FamilyRows
<1>6. PICK want : want = FamilyRows
  OBVIOUS
<1>7. Rebuilding(t)
  BY <1>3, <1>5, <1>6 DEF Rebuilding, Differs
<1>8. TickInv(pass[w]) => TickInv(t)
  BY <1>1, <1>3, <1>7 DEF TickInv
<1> QED
  BY <1>1, <1>3, <1>4, <1>8, OwnStep DEF SnapshotFamilies, Resetting

LEMMA ProceedInv == ASSUME FamiliesInv, NEW w \in Worker, Proceed(w) PROVE FamiliesInv'
<1>1. Fields \subseteq DOMAIN pass[w] /\ (pass[w].at = "decide" \/ Regrouped(w))
  BY DEF FamiliesInv, TablesInv, Proceed, InStage
<1>2. PICK t : t = [pass[w] EXCEPT !.at = "prune"]
  OBVIOUS
<1>3. /\ Fields \subseteq DOMAIN t /\ t.at = "prune" /\ t.out = pass[w].out
      /\ t.want = pass[w].want /\ t.regrouped = pass[w].regrouped /\ t.steady = pass[w].steady
  BY <1>1, <1>2 DEF Fields
<1>4. pass' = [pass EXCEPT ![w] = t]
  BY <1>2 DEF Proceed, GoesOn
<1>5. ASSUME TickInv(pass[w]) PROVE TickInv(t)
  <2>1. CASE pass[w].at = "decide"
    BY <1>3, <1>5, <2>1 DEF TickInv
  <2>2. CASE Regrouped(w)
    <3>1. pass[w].at = "rebuild" /\ pass[w].drop = {} /\ pass[w].write = {}
      BY <2>2 DEF Regrouped, InStage
    <3>2. ASSUME t.regrouped, t.steady PROVE families = t.want
      <4>1. /\ IsMap(t.want) /\ DOMAIN families \subseteq DOMAIN t.want
            /\ \A id \in DOMAIN t.want : id \in DOMAIN families /\ families[id] = t.want[id]
        BY <1>3, <1>5, <3>1, <3>2 DEF TickInv, Rebuilding
      <4>2. IsMap(families)
        BY DEF FamiliesInv, TablesInv
      <4> QED
        BY <4>1, <4>2 DEF IsMap
    <3> QED
      BY <1>3, <1>5, <3>1, <3>2 DEF TickInv
  <2> QED
    BY <1>1, <2>1, <2>2
<1>6. pass[w].at # "idle"
  BY <1>1 DEF Regrouped, InStage
<1> QED
  BY <1>3, <1>4, <1>5, <1>6, OwnStep DEF Proceed, Resetting

LEMMA CandidatesInv == ASSUME FamiliesInv, NEW w \in Worker, OrphanCandidates(w) PROVE FamiliesInv'
<1>1. Fields \subseteq DOMAIN pass[w] /\ pass[w].at = "prune"
  BY DEF FamiliesInv, TablesInv, OrphanCandidates, InStage
<1>2. PICK t : t = [pass[w] EXCEPT !.at = "chunks", !.orphans = {f \in DOMAIN scripts : Unused(f)}]
  OBVIOUS
<1>3. /\ Fields \subseteq DOMAIN t /\ t.at = "chunks" /\ t.out = pass[w].out
      /\ t.want = pass[w].want /\ t.regrouped = pass[w].regrouped /\ t.steady = pass[w].steady
  BY <1>1, <1>2 DEF Fields
<1>4. pass' = [pass EXCEPT ![w] = t]
  BY <1>2 DEF OrphanCandidates
<1>5. TickInv(pass[w]) => TickInv(t)
  BY <1>1, <1>3 DEF TickInv
<1> QED
  BY <1>1, <1>3, <1>4, <1>5, OwnStep DEF OrphanCandidates, Resetting

LEMMA EndTickInv == ASSUME FamiliesInv, NEW w \in Worker, EndTick(w) PROVE FamiliesInv'
<1>1. pass[w].at # "idle" /\ pass' = [pass EXCEPT ![w] = NoTick]
  BY DEF EndTick, InStage
<1>2. TickInv(pass[w]) => TickInv(NoTick)
  BY NoTickShape DEF TickInv
<1> QED
  BY <1>1, <1>2, NoTickShape, OwnStep DEF EndTick, Resetting

-----------------------------------------------------------------------------
(* Steps that write a table *)

(* A tick that no reset is part of writes: if no tick began during another, *)
(* every other one is idle, and no reset is under way.                      *)
LEMMA SoleTick ==
  ASSUME FamiliesInv, NEW w \in Worker, NEW t,
         pass[w].at # "idle", pass[w].at \notin Resetting,
         pass' = [pass EXCEPT ![w] = t], t.at \notin Resetting, UNCHANGED met,
         met = {} => TickInv(t)'
  PROVE  AloneInv' /\ TicksInv'
<1>1. /\ DOMAIN pass = Worker /\ pass'[w] = t
      /\ \A o \in Worker \ {w} : pass'[o] = pass[o]
  BY DEF FamiliesInv, TablesInv
<1>2. ASSUME met = {}, NEW v \in Worker, NEW o \in Worker \ {v}
      PROVE  pass'[v].at = "idle" \/ pass'[o].at = "idle"
  BY <1>1, <1>2 DEF FamiliesInv, AloneInv
<1>3. ASSUME "reset" \notin met, NEW v \in Worker, pass'[v].at \in Resetting
      PROVE  FALSE
  <2>1. v # w /\ pass[v].at \in Resetting
    BY <1>1, <1>3
  <2> QED
    BY <1>3, <2>1 DEF FamiliesInv, AloneInv
<1>4. AloneInv'
  BY <1>2, <1>3 DEF AloneInv
<1>5. ASSUME met = {}, NEW v \in Worker PROVE TickInv(pass[v])'
  <2>1. CASE v = w
    <3>1. pass'[v] = t /\ TickInv(t)'
      BY <1>1, <1>5, <2>1
    <3>2. PICK r : r = pass'[v]
      OBVIOUS
    <3> QED
      BY <3>1, <3>2
  <2>2. CASE v # w
    <3>1. pass'[v] = pass[v] /\ pass[v].at = "idle" /\ TickInv(pass[v])
      BY <1>1, <1>5, <2>2 DEF FamiliesInv, AloneInv, TicksInv
    <3> QED
      BY <3>1 DEF TickInv
  <2> QED
    BY <2>1, <2>2
<1>6. TicksInv'
  BY <1>5 DEF TicksInv
<1> QED
  BY <1>4, <1>6

LEMMA RecordLinesInv == ASSUME FamiliesInv, NEW w \in Worker, RecordLines(w) PROVE FamiliesInv'
<1>1. PICK s \in SessionID, f \in Script : use' = [use EXCEPT ![s].now = f]
  BY DEF RecordLines
<1>2. pass[w].at = "record" /\ UNCHANGED <<scripts, families, pass, versionDue, met>>
  BY DEF RecordLines, InStage
<1>3. PICK row : row = [use[s] EXCEPT !.now = f]
  OBVIOUS
<1>4. use' = [use EXCEPT ![s] = row]
  BY <1>1, <1>3
<1>5. {"now", "fp"} \subseteq DOMAIN row /\ row.now = f /\ row.fp = use[s].fp
  BY <1>3 DEF FamiliesInv, TablesInv
<1>6. TablesInv'
  BY <1>1, <1>2, <1>4, <1>5 DEF FamiliesInv, TablesInv, IsMap, NoRow
<1>8. AloneInv'
  BY <1>2 DEF FamiliesInv, AloneInv, Resetting
<1>9. TicksInv'
  BY <1>2, TicksStay DEF FamiliesInv
<1>10. FamiliesLed'
  BY <1>2 DEF FamiliesInv, FamiliesLed, Led, Leads
<1>11. SettledHasScript'
  BY <1>2, <1>4, <1>5 DEF FamiliesInv, TablesInv, SettledHasScript
<1> QED
  BY <1>6, <1>8, <1>9, <1>10, <1>11 DEF FamiliesInv

LEMMA SettleInv == ASSUME FamiliesInv, NEW w \in Worker, Settle(w) PROVE FamiliesInv'
<1>1. PICK done \in SUBSET Pending :
        /\ use' = [s \in SessionID |-> IF s \in done THEN [use[s] EXCEPT !.fp = use[s].now] ELSE use[s]]
        /\ scripts' = WithScripts(done)
        /\ pass' = [pass EXCEPT ![w].at = "list", ![w].settled = (done # {})]
  BY DEF Settle
<1>2. pass[w].at = "record" /\ UNCHANGED <<families, versionDue, met>>
  BY DEF Settle, InStage
<1>3. PICK new : new = {use[s].now : s \in done}
  OBVIOUS
<1>4. ASSUME NEW s \in done PROVE use[s].now \in Script
  BY NoScriptZero DEF FamiliesInv, TablesInv, Pending, NoRow
<1>5. /\ DOMAIN scripts' = DOMAIN scripts \cup new
      /\ \A f \in DOMAIN scripts' :
           /\ {"family", "gap", "first"} \subseteq DOMAIN scripts'[f]
           /\ f \in DOMAIN scripts => scripts'[f].family = scripts[f].family /\ scripts'[f].gap = scripts[f].gap
           /\ f \notin DOMAIN scripts => scripts'[f].family = 0
  <2>1. scripts' = [f \in DOMAIN scripts \cup new |->
         IF f \notin DOMAIN scripts
         THEN [family |-> 0, gap |-> 0, first |-> FirstOf(MadeBy(done, f))]
         ELSE IF f \notin new THEN scripts[f]
         ELSE [scripts[f] EXCEPT !.first = IF @ <= FirstOf(MadeBy(done, f)) THEN @ ELSE FirstOf(MadeBy(done, f))]]
    BY <1>1, <1>3 DEF WithScripts
  <2>2. ASSUME NEW f \in DOMAIN scripts, NEW n
        PROVE  /\ {"family", "gap", "first"} \subseteq DOMAIN [scripts[f] EXCEPT !.first = n]
               /\ [scripts[f] EXCEPT !.first = n].family = scripts[f].family
               /\ [scripts[f] EXCEPT !.first = n].gap = scripts[f].gap
    BY DEF FamiliesInv, TablesInv
  <2>3. \A f \in DOMAIN scripts : {"family", "gap", "first"} \subseteq DOMAIN scripts[f]
    BY DEF FamiliesInv, TablesInv
  <2> QED
    BY <2>1, <2>2, <2>3
<1>6. DOMAIN scripts' \subseteq Script
  BY <1>3, <1>4, <1>5 DEF FamiliesInv, TablesInv
<1>7. PICK t : t = [pass[w] EXCEPT !.at = "list", !.settled = (done # {})]
  OBVIOUS
<1>8. pass' = [pass EXCEPT ![w] = t]
  BY <1>1, <1>7
<1>9. Fields \subseteq DOMAIN t /\ t.at = "list" /\ t.regrouped = pass[w].regrouped /\ t.out = pass[w].out
  BY <1>7 DEF FamiliesInv, TablesInv, Fields
<1>10. ASSUME NEW s \in SessionID
       PROVE  /\ {"now", "fp"} \subseteq DOMAIN use'[s] /\ use'[s].now = use[s].now
              /\ use'[s].now \in Script \/ use'[s] = NoRow
              /\ use'[s].fp = IF s \in done THEN use[s].now ELSE use[s].fp
  <2>1. CASE s \in done
    <3>1. use'[s] = [use[s] EXCEPT !.fp = use[s].now] /\ {"now", "fp"} \subseteq DOMAIN use[s]
      BY <1>1, <2>1 DEF FamiliesInv, TablesInv
    <3> QED
      BY <1>4, <2>1, <3>1
  <2>2. CASE s \notin done
    BY <1>1, <2>2 DEF FamiliesInv, TablesInv
  <2> QED
    BY <2>1, <2>2
<1>11. TablesInv'
  <2>1. DOMAIN use' = SessionID
    BY <1>1
  <2>2. DOMAIN pass' = Worker /\ \A v \in Worker : Fields \subseteq DOMAIN pass'[v]
    BY <1>8, <1>9 DEF FamiliesInv, TablesInv
  <2>3. IsMap(families')
    BY <1>2 DEF FamiliesInv, TablesInv
  <2> QED
    BY <1>5, <1>6, <1>10, <2>1, <2>2, <2>3 DEF TablesInv, NoRow
<1>12. met = {} => TickInv(t)'
  <2>1. met = {} => ~t.regrouped /\ DOMAIN t.out = {}
    BY <1>2, <1>9 DEF FamiliesInv, TicksInv, TickInv
  <2> QED
    BY <1>9, <2>1 DEF TickInv
<1>13. AloneInv' /\ TicksInv'
  BY <1>2, <1>8, <1>9, <1>12, SoleTick DEF Resetting
<1>14. FamiliesLed'
  <2>1. SUFFICES ASSUME met = {}, ~versionDue, NEW f \in DOMAIN scripts' PROVE Led(f)'
    BY <1>2 DEF FamiliesLed
  <2>2. CASE f \in DOMAIN scripts
    <3>1. Led(f)
      BY <2>1, <2>2 DEF FamiliesInv, FamiliesLed
    <3> QED
      BY <1>5, <2>1, <2>2, <3>1 DEF Led, Leads
  <2>3. CASE f \notin DOMAIN scripts
    BY <1>5, <2>1, <2>3 DEF Led
  <2> QED
    BY <2>2, <2>3
<1>15. SettledHasScript'
  <2>1. SUFFICES ASSUME "reset" \notin met, NEW s \in SessionID, use'[s].fp # 0
                 PROVE  use'[s].fp \in DOMAIN scripts'
    BY <1>2 DEF SettledHasScript
  <2> QED
    BY <1>3, <1>5, <1>10, <2>1 DEF FamiliesInv, SettledHasScript
<1> QED
  BY <1>11, <1>13, <1>14, <1>15 DEF FamiliesInv

LEMMA WriteFamiliesInv == ASSUME FamiliesInv, NEW w \in Worker, WriteFamilies(w) PROVE FamiliesInv'
<1>1. PICK out : out = pass[w].out
  OBVIOUS
<1>2. /\ pass[w].at = "assign" /\ scripts' = Filed(out) /\ UNCHANGED <<use, families, versionDue, met>>
      /\ pass' = [pass EXCEPT ![w] = [NoTick EXCEPT !.at = "decide", !.settled = pass[w].settled]]
  BY <1>1 DEF WriteFamilies, InStage
<1>3. PICK t : t = [NoTick EXCEPT !.at = "decide", !.settled = pass[w].settled]
  OBVIOUS
<1>4. pass' = [pass EXCEPT ![w] = t]
  BY <1>2, <1>3
<1>5. Fields \subseteq DOMAIN t /\ t.at = "decide" /\ ~t.regrouped /\ DOMAIN t.out = {}
  BY <1>3, NoTickShape DEF Fields
<1>6. ASSUME NEW f \in DOMAIN scripts
      PROVE  /\ {"family", "gap", "first"} \subseteq DOMAIN scripts'[f]
             /\ f \in DOMAIN out /\ scripts[f].family = 0
                => scripts'[f].family = out[f].family /\ scripts'[f].gap = out[f].gap
             /\ ~(f \in DOMAIN out /\ scripts[f].family = 0) => scripts'[f] = scripts[f]
  <2>1. {"family", "gap", "first"} \subseteq DOMAIN scripts[f]
    BY DEF FamiliesInv, TablesInv
  <2>2. scripts'[f] = IF f \in DOMAIN out /\ scripts[f].family = 0
                      THEN [scripts[f] EXCEPT !.family = out[f].family, !.gap = out[f].gap] ELSE scripts[f]
    BY <1>2 DEF Filed
  <2>3. PICK row : row = [scripts[f] EXCEPT !.family = out[f].family, !.gap = out[f].gap]
    OBVIOUS
  <2>4. {"family", "gap", "first"} \subseteq DOMAIN row /\ row.family = out[f].family /\ row.gap = out[f].gap
    BY <2>1, <2>3
  <2> QED
    BY <2>1, <2>2, <2>3, <2>4
<1>7. DOMAIN scripts' = DOMAIN scripts
  BY <1>2 DEF Filed
<1>8. TablesInv'
  <2>1. DOMAIN pass' = Worker /\ \A v \in Worker : Fields \subseteq DOMAIN pass'[v]
    BY <1>4, <1>5 DEF FamiliesInv, TablesInv
  <2> QED
    BY <1>2, <1>6, <1>7, <2>1 DEF FamiliesInv, TablesInv, IsMap, NoRow
<1>9. AloneInv' /\ TicksInv'
  <2>1. met = {} => TickInv(t)'
    BY <1>5 DEF TickInv
  <2> QED
    BY <1>2, <1>4, <1>5, <2>1, SoleTick DEF Resetting
<1>10. FamiliesLed'
  <2>1. SUFFICES ASSUME met = {}, ~versionDue, NEW f \in DOMAIN scripts PROVE Led(f)'
    BY <1>2, <1>7 DEF FamiliesLed
  <2>2. f \in Script /\ \A x \in DOMAIN scripts : x # 0
    BY NoScriptZero DEF FamiliesInv, TablesInv
  <2>3. ASSUME NEW r \in DOMAIN scripts, scripts[r].family = r PROVE scripts'[r].family = r
    BY <1>6, <2>2, <2>3
  <2>4. CASE f \in DOMAIN out /\ scripts[f].family = 0
    <3>1. PICK o : o = out[f]
      OBVIOUS
    <3>2. PICK reps : reps = pass[w].reps
      OBVIOUS
    <3>3. /\ reps \subseteq DOMAIN scripts
          /\ \A r \in reps : r \in Distinctive
               /\ (scripts[r].family = r \/ (r \in DOMAIN out /\ scripts[r].family = 0 /\ out[r].family = r))
          /\ \/ o.family = f
             \/ /\ o.family \in reps /\ f \in Distinctive
                /\ o.gap = Gap[f][o.family] /\ Gap[f][o.family] <= FamilyThreshold
      BY <1>1, <1>2, <2>1, <2>4, <3>1, <3>2 DEF FamiliesInv, TicksInv, TickInv, Filing, Leads
    <3>4. scripts'[f].family = o.family /\ scripts'[f].gap = o.gap
      BY <1>6, <2>4, <3>1
    <3>5. \A r \in reps : r \in DOMAIN scripts /\ r \in Distinctive /\ scripts'[r].family = r
      BY <1>6, <2>3, <3>3
    <3> QED
      BY <1>7, <3>3, <3>4, <3>5 DEF Led, Leads
  <2>5. CASE ~(f \in DOMAIN out /\ scripts[f].family = 0)
    <3>1. scripts'[f] = scripts[f] /\ Led(f)
      BY <1>6, <2>1, <2>5 DEF FamiliesInv, FamiliesLed
    <3> QED
      BY <1>7, <2>3, <3>1 DEF Led, Leads
  <2> QED
    BY <2>4, <2>5
<1>11. SettledHasScript'
  BY <1>2, <1>7 DEF FamiliesInv, SettledHasScript
<1> QED
  BY <1>8, <1>9, <1>10, <1>11 DEF FamiliesInv

LEMMA FirstOnes == \A S : FirstChunk(S) \subseteq S
BY DEF FirstChunk

LEMMA DropFamiliesInv == ASSUME FamiliesInv, NEW w \in Worker, DropFamilies(w) PROVE FamiliesInv'
<1>1. PICK chunk : chunk = FirstChunk(pass[w].drop)
  OBVIOUS
<1>2. /\ pass[w].at = "rebuild" /\ UNCHANGED <<use, scripts, versionDue, met>>
      /\ families' = Restrict(families, DOMAIN families \ chunk)
      /\ chunk \subseteq pass[w].drop
  BY <1>1, FirstOnes DEF DropFamilies, InStage
<1>3. PICK t : t = [pass[w] EXCEPT !.drop = @ \ chunk]
  OBVIOUS
<1>4. pass' = [pass EXCEPT ![w] = t]
  BY <1>1, <1>3 DEF DropFamilies
<1>5. /\ Fields \subseteq DOMAIN t /\ t.at = "rebuild" /\ t.out = pass[w].out /\ t.want = pass[w].want
      /\ t.regrouped = pass[w].regrouped /\ t.steady = pass[w].steady
      /\ t.drop = pass[w].drop \ chunk /\ t.write = pass[w].write
  BY <1>2, <1>3 DEF FamiliesInv, TablesInv, Fields
<1>6. /\ DOMAIN families' = DOMAIN families \ chunk /\ IsMap(families')
      /\ \A id \in DOMAIN families' : families'[id] = families[id]
  BY <1>2 DEF Restrict, IsMap
<1>7. TablesInv'
  <2>1. DOMAIN pass' = Worker /\ \A v \in Worker : Fields \subseteq DOMAIN pass'[v]
    BY <1>4, <1>5 DEF FamiliesInv, TablesInv
  <2> QED
    BY <1>2, <1>6, <2>1 DEF FamiliesInv, TablesInv, NoRow
<1>8. AloneInv' /\ TicksInv'
  <2>1. ASSUME met = {} PROVE TickInv(t)'
    <3>1. TickInv(pass[w])
      BY <2>1 DEF FamiliesInv, TicksInv
    <3>2. ASSUME t.regrouped, t.steady PROVE Rebuilding(t)'
      <4>1. /\ IsMap(t.want) /\ pass[w].drop \cap DOMAIN t.want = {} /\ t.write \subseteq DOMAIN t.want
            /\ DOMAIN families \subseteq DOMAIN t.want \cup pass[w].drop
            /\ \A id \in DOMAIN t.want \ t.write : id \in DOMAIN families /\ families[id] = t.want[id]
        BY <1>2, <1>5, <3>1, <3>2 DEF TickInv, Rebuilding
      <4>2. \A id \in DOMAIN t.want \ t.write : id \in DOMAIN families' /\ families'[id] = t.want[id]
        BY <1>2, <1>6, <4>1
      <4> QED
        BY <1>2, <1>5, <1>6, <4>1, <4>2 DEF Rebuilding
    <3> QED
      BY <1>2, <1>5, <3>1, <3>2 DEF TickInv
  <2> QED
    BY <1>2, <1>4, <1>5, <2>1, SoleTick DEF DropFamilies, Resetting
<1>9. FamiliesLed' /\ SettledHasScript'
  BY <1>2 DEF FamiliesInv, FamiliesLed, SettledHasScript, Led, Leads
<1> QED
  BY <1>7, <1>8, <1>9 DEF FamiliesInv

LEMMA UpsertFamiliesInv == ASSUME FamiliesInv, NEW w \in Worker, UpsertFamilies(w) PROVE FamiliesInv'
<1>1. PICK chunk : chunk = FirstChunk(pass[w].write)
  OBVIOUS
<1>2. /\ pass[w].at = "rebuild" /\ UNCHANGED <<use, scripts, versionDue, met>>
      /\ families' = [id \in DOMAIN families \cup chunk |->
                        IF id \in chunk THEN pass[w].want[id] ELSE families[id]]
      /\ chunk \subseteq pass[w].write
  BY <1>1, FirstOnes DEF UpsertFamilies, InStage
<1>3. PICK t : t = [pass[w] EXCEPT !.write = @ \ chunk]
  OBVIOUS
<1>4. pass' = [pass EXCEPT ![w] = t]
  BY <1>1, <1>3 DEF UpsertFamilies
<1>5. /\ Fields \subseteq DOMAIN t /\ t.at = "rebuild" /\ t.out = pass[w].out /\ t.want = pass[w].want
      /\ t.regrouped = pass[w].regrouped /\ t.steady = pass[w].steady
      /\ t.drop = pass[w].drop /\ t.write = pass[w].write \ chunk
  BY <1>2, <1>3 DEF FamiliesInv, TablesInv, Fields
<1>6. /\ DOMAIN families' = DOMAIN families \cup chunk /\ IsMap(families')
      /\ \A id \in DOMAIN families' : families'[id] = IF id \in chunk THEN t.want[id] ELSE families[id]
  BY <1>2, <1>5 DEF IsMap
<1>7. TablesInv'
  <2>1. DOMAIN pass' = Worker /\ \A v \in Worker : Fields \subseteq DOMAIN pass'[v]
    BY <1>4, <1>5 DEF FamiliesInv, TablesInv
  <2> QED
    BY <1>2, <1>6, <2>1 DEF FamiliesInv, TablesInv, NoRow
<1>8. AloneInv' /\ TicksInv'
  <2>1. ASSUME met = {} PROVE TickInv(t)'
    <3>1. TickInv(pass[w])
      BY <2>1 DEF FamiliesInv, TicksInv
    <3>2. ASSUME t.regrouped, t.steady PROVE Rebuilding(t)'
      <4>1. /\ IsMap(t.want) /\ t.drop \cap DOMAIN t.want = {} /\ pass[w].write \subseteq DOMAIN t.want
            /\ DOMAIN families \subseteq DOMAIN t.want \cup t.drop
            /\ \A id \in DOMAIN t.want \ pass[w].write : id \in DOMAIN families /\ families[id] = t.want[id]
        BY <1>2, <1>5, <3>1, <3>2 DEF TickInv, Rebuilding
      <4>2. \A id \in DOMAIN t.want \ t.write : id \in DOMAIN families' /\ families'[id] = t.want[id]
        BY <1>2, <1>5, <1>6, <4>1
      <4> QED
        BY <1>2, <1>5, <1>6, <4>1, <4>2 DEF Rebuilding
    <3> QED
      BY <1>2, <1>5, <3>1, <3>2 DEF TickInv
  <2> QED
    BY <1>2, <1>4, <1>5, <2>1, SoleTick DEF UpsertFamilies, Resetting
<1>9. FamiliesLed' /\ SettledHasScript'
  BY <1>2 DEF FamiliesInv, FamiliesLed, SettledHasScript, Led, Leads
<1> QED
  BY <1>7, <1>8, <1>9 DEF FamiliesInv

(* What a chunk dissolves and deletes, when every family is led. *)
Pruned(left) ==
  /\ DOMAIN scripts' = left /\ left \subseteq DOMAIN scripts
  /\ \A f \in left :
       /\ {"family", "gap", "first"} \subseteq DOMAIN scripts'[f]
       /\ scripts'[f] = scripts[f] \/ scripts'[f].family = 0
  /\ \A f \in DOMAIN scripts : UsedBy(f) # {} => f \in left
  /\ \A f \in left : scripts'[f].family # 0 =>
       scripts'[f] = scripts[f] /\ (scripts[f].family \in DOMAIN scripts /\ f # scripts[f].family
                                    => scripts[f].family \in left)
  /\ \A id \in left : scripts[id].family = id /\ scripts'[id].family = 0 =>
       \A f \in left : scripts[f].family = id => scripts'[f].family = 0

LEMMA PrunedRows ==
  ASSUME FamiliesInv, NEW chunk, NEW loose, NEW left,
         loose = Loose(chunk), left = DOMAIN loose \ Deleted(chunk, loose),
         scripts' = Restrict(loose, left)
  PROVE  Pruned(left)
<1>1. /\ DOMAIN loose = DOMAIN scripts /\ left \subseteq DOMAIN scripts /\ DOMAIN scripts' = left
      /\ \A f \in left : scripts'[f] = loose[f]
  BY DEF Loose, Restrict
<1>2. ASSUME NEW f \in DOMAIN scripts
      PROVE  /\ {"family", "gap", "first"} \subseteq DOMAIN loose[f]
             /\ scripts[f].family \in Dissolved(chunk) => loose[f].family = 0
             /\ scripts[f].family \notin Dissolved(chunk) => loose[f] = scripts[f]
  <2>1. {"family", "gap", "first"} \subseteq DOMAIN scripts[f]
    BY DEF FamiliesInv, TablesInv
  <2>2. PICK row : row = [scripts[f] EXCEPT !.family = 0, !.gap = 0]
    OBVIOUS
  <2>3. {"family", "gap", "first"} \subseteq DOMAIN row /\ row.family = 0
    BY <2>1, <2>2
  <2>4. loose[f] = IF scripts[f].family \in Dissolved(chunk) THEN row ELSE scripts[f]
    BY <2>2 DEF Loose
  <2> QED
    BY <2>1, <2>3, <2>4
<1>3. \A f \in DOMAIN scripts : UsedBy(f) # {} => f \in left
  BY <1>1 DEF Deleted, Unused
<1>4. ASSUME NEW f \in left, scripts'[f].family # 0, scripts[f].family \in DOMAIN scripts, f # scripts[f].family
      PROVE  scripts[f].family \in left
  <2>1. loose[f].family = scripts[f].family
    BY <1>1, <1>2, <1>4
  <2>2. scripts[f].family \notin Deleted(chunk, loose)
    BY <1>1, <1>4, <2>1 DEF Deleted
  <2> QED
    BY <1>1, <1>4, <2>2
<1>5. ASSUME NEW f \in left, scripts'[f].family # 0 PROVE scripts'[f] = scripts[f]
  BY <1>1, <1>2, <1>5
<1>6. ASSUME NEW id \in left, scripts[id].family = id, scripts'[id].family = 0,
             NEW f \in left, scripts[f].family = id
      PROVE  scripts'[f].family = 0
  <2>1. id \in Script /\ id # 0
    BY <1>1, NoScriptZero DEF FamiliesInv, TablesInv
  <2>2. id \in Dissolved(chunk)
    BY <1>1, <1>2, <1>6, <2>1
  <2>3. f \in DOMAIN scripts /\ scripts[f].family \in Dissolved(chunk) /\ scripts'[f] = loose[f]
    BY <1>1, <1>6, <2>2
  <2> QED
    BY <1>2, <2>3
<1>7. ASSUME NEW f \in left
      PROVE  /\ {"family", "gap", "first"} \subseteq DOMAIN scripts'[f]
             /\ scripts'[f] = scripts[f] \/ scripts'[f].family = 0
  <2>1. f \in DOMAIN scripts /\ scripts'[f] = loose[f]
    BY <1>1
  <2>2. /\ {"family", "gap", "first"} \subseteq DOMAIN loose[f]
        /\ loose[f] = scripts[f] \/ loose[f].family = 0
    BY <1>2, <2>1
  <2> QED
    BY <2>1, <2>2
<1>8. \A f \in left : scripts'[f].family # 0 =>
        scripts'[f] = scripts[f] /\ (scripts[f].family \in DOMAIN scripts /\ f # scripts[f].family
                                     => scripts[f].family \in left)
  BY <1>4, <1>5
<1>9. \A id \in left : scripts[id].family = id /\ scripts'[id].family = 0 =>
        \A f \in left : scripts[f].family = id => scripts'[f].family = 0
  BY <1>6
<1> QED
  BY <1>1, <1>3, <1>7, <1>8, <1>9 DEF Pruned

LEMMA PruneChunkInv == ASSUME FamiliesInv, NEW w \in Worker, PruneChunk(w) PROVE FamiliesInv'
<1>1. PICK chunk : chunk = FirstChunk(pass[w].orphans)
  OBVIOUS
<1>2. PICK loose : loose = Loose(chunk)
  OBVIOUS
<1>3. PICK left : left = DOMAIN loose \ Deleted(chunk, loose)
  OBVIOUS
<1>4. /\ pass[w].at = "chunks" /\ UNCHANGED <<use, families, versionDue, met>>
      /\ scripts' = Restrict(loose, left)
  BY <1>1, <1>2, <1>3 DEF PruneChunk, InStage
<1>5a. Pruned(left)
  BY <1>2, <1>3, <1>4, PrunedRows
<1>5. /\ DOMAIN scripts' = left /\ left \subseteq DOMAIN scripts
      /\ \A f \in left :
           /\ {"family", "gap", "first"} \subseteq DOMAIN scripts'[f]
           /\ scripts'[f] = scripts[f] \/ scripts'[f].family = 0
      /\ \A f \in DOMAIN scripts : UsedBy(f) # {} => f \in left
      /\ \A f \in left : scripts'[f].family # 0 =>
           scripts'[f] = scripts[f] /\ (scripts[f].family \in DOMAIN scripts /\ f # scripts[f].family
                                        => scripts[f].family \in left)
      /\ \A id \in left : scripts[id].family = id /\ scripts'[id].family = 0 =>
           \A f \in left : scripts[f].family = id => scripts'[f].family = 0
  BY <1>5a DEF Pruned
<1>6. PICK t : t = [pass[w] EXCEPT !.orphans = @ \ chunk]
  OBVIOUS
<1>7. pass' = [pass EXCEPT ![w] = t]
  BY <1>1, <1>6 DEF PruneChunk
<1>8. /\ Fields \subseteq DOMAIN t /\ t.at = "chunks" /\ t.out = pass[w].out /\ t.want = pass[w].want
      /\ t.regrouped = pass[w].regrouped /\ t.steady = pass[w].steady
  BY <1>4, <1>6 DEF FamiliesInv, TablesInv, Fields
<1>9. TablesInv'
  <2>1. DOMAIN pass' = Worker /\ \A v \in Worker : Fields \subseteq DOMAIN pass'[v]
    BY <1>7, <1>8 DEF FamiliesInv, TablesInv
  <2> QED
    BY <1>4, <1>5, <2>1 DEF FamiliesInv, TablesInv, IsMap, NoRow
<1>10. AloneInv' /\ TicksInv'
  <2>1. ASSUME met = {} PROVE TickInv(t)'
    <3>1. TickInv(pass[w])
      BY <2>1 DEF FamiliesInv, TicksInv
    <3> QED
      BY <1>4, <1>8, <3>1 DEF TickInv
  <2> QED
    BY <1>4, <1>7, <1>8, <2>1, SoleTick DEF Resetting
<1>11. FamiliesLed'
  <2>1. SUFFICES ASSUME met = {}, ~versionDue, NEW f \in left, scripts'[f].family # 0 PROVE Led(f)'
    BY <1>4, <1>5 DEF FamiliesLed, Led
  <2>2. scripts'[f] = scripts[f] /\ Led(f)
    BY <1>5, <2>1 DEF FamiliesInv, FamiliesLed
  <2>3. PICK id : id = scripts[f].family
    OBVIOUS
  <2>4. CASE id = f
    BY <2>2, <2>3, <2>4 DEF Led
  <2>5. CASE id # f
    <3>1. /\ id \in DOMAIN scripts /\ scripts[id].family = id /\ {f, id} \subseteq Distinctive
          /\ scripts[f].gap = Gap[f][id] /\ Gap[f][id] <= FamilyThreshold
      BY <2>1, <2>2, <2>3, <2>5 DEF Led, Leads
    <3>2. id \in left
      BY <1>5, <2>1, <2>3, <2>5, <3>1
    <3>3. scripts'[id].family = id
      BY <1>5, <2>1, <2>3, <3>1, <3>2
    <3> QED
      BY <1>5, <2>2, <2>3, <3>1, <3>2, <3>3 DEF Led, Leads
  <2> QED
    BY <2>4, <2>5
<1>12. SettledHasScript'
  <2>1. SUFFICES ASSUME "reset" \notin met, NEW s \in SessionID, use[s].fp # 0
                 PROVE  use[s].fp \in DOMAIN scripts'
    BY <1>4 DEF SettledHasScript
  <2>2. use[s].fp \in DOMAIN scripts /\ UsedBy(use[s].fp) # {}
    BY <2>1 DEF FamiliesInv, SettledHasScript, UsedBy
  <2> QED
    BY <1>5, <2>2
<1> QED
  BY <1>9, <1>10, <1>11, <1>12 DEF FamiliesInv

-----------------------------------------------------------------------------
(* The reset, and what comes between *)

LEMMA BeginTickInv == ASSUME FamiliesInv, NEW w \in Worker, BeginTick(w) PROVE FamiliesInv'
<1>1. /\ pass[w].at = "idle" /\ UNCHANGED <<use, scripts, families, versionDue>>
      /\ met' = IF Others(w) = {} THEN met
                ELSE met \cup {"tick"} \cup (IF versionDue THEN {"reset"} ELSE {})
  BY DEF BeginTick, InStage
<1>2. PICK t : t = [pass[w] EXCEPT !.at = IF versionDue THEN "rows" ELSE "record"]
  OBVIOUS
<1>3. pass' = [pass EXCEPT ![w] = t]
  BY <1>2 DEF BeginTick, GoesOn
<1>4. /\ Fields \subseteq DOMAIN t /\ t.at = IF versionDue THEN "rows" ELSE "record"
      /\ t.out = pass[w].out /\ t.regrouped = pass[w].regrouped
  BY <1>2 DEF FamiliesInv, TablesInv, Fields
<1>5. /\ DOMAIN pass' = Worker /\ pass'[w] = t /\ \A o \in Worker \ {w} : pass'[o] = pass[o]
  BY <1>3 DEF FamiliesInv, TablesInv
<1>6. TablesInv'
  BY <1>1, <1>4, <1>5 DEF FamiliesInv, TablesInv, IsMap, NoRow
<1>7. CASE Others(w) = {}
  <2>1. met' = met /\ \A o \in Worker \ {w} : pass[o].at = "idle"
    BY <1>1, <1>7 DEF Others, InStage
  <2>2. AloneInv'
    BY <1>1, <1>4, <1>5, <2>1 DEF FamiliesInv, AloneInv, Resetting
  <2>3. TicksInv'
    <3>1. ASSUME met = {}, NEW v \in Worker PROVE TickInv(pass[v])'
      <4>1. TickInv(pass[v]) /\ pass[v].at = "idle"
        BY <1>1, <2>1, <3>1 DEF FamiliesInv, TicksInv
      <4>2. /\ pass'[v].regrouped = pass[v].regrouped /\ pass'[v].out = pass[v].out
            /\ pass'[v].at \in {"idle", "rows", "record"}
        BY <1>1, <1>4, <1>5, <2>1
      <4> QED
        BY <4>1, <4>2 DEF TickInv
    <3> QED
      BY <2>1, <3>1 DEF TicksInv
  <2> QED
    BY <1>1, <1>6, <2>1, <2>2, <2>3 DEF FamiliesInv, FamiliesLed, SettledHasScript, Led, Leads
<1>8. CASE Others(w) # {}
  <2>1. met' # {} /\ ("reset" \notin met' => "reset" \notin met /\ ~versionDue)
    BY <1>1, <1>8
  <2>2. AloneInv'
    BY <1>1, <1>4, <1>5, <2>1 DEF FamiliesInv, AloneInv, Resetting
  <2> QED
    BY <1>1, <1>6, <2>1, <2>2 DEF FamiliesInv, TicksInv, FamiliesLed, SettledHasScript
<1> QED
  BY <1>7, <1>8

(* One step of a reset. *)
LEMMA ResetStep ==
  ASSUME FamiliesInv, NEW w \in Worker, NEW t, pass[w].at \in Resetting,
         pass'[w] = t, \A o \in Worker \ {w} : pass'[o] = pass[o],
         t.at \in Resetting \cup {"record"},
         t.out = pass[w].out, t.regrouped = pass[w].regrouped, UNCHANGED met,
         t.at \in Resetting => UNCHANGED versionDue,
         t.at \notin {"rows", "record"} => \A s \in SessionID : use'[s] = NoRow,
         t.at = "families" => DOMAIN scripts' = {}
  PROVE  AloneInv' /\ TicksInv'
<1>1. pass'[w] = t /\ \A o \in Worker \ {w} : pass'[o] = pass[o]
  OBVIOUS
<1>2. "reset" \notin met => versionDue /\ \A o \in Worker \ {w} : pass[o].at = "idle"
  BY DEF FamiliesInv, AloneInv
<1>3. AloneInv'
  <2>1. ASSUME met = {}, NEW v \in Worker, NEW o \in Worker \ {v}
        PROVE  pass'[v].at = "idle" \/ pass'[o].at = "idle"
    BY <1>1, <1>2, <2>1
  <2>2. ASSUME "reset" \notin met, NEW v \in Worker, pass'[v].at \in Resetting
        PROVE  /\ v = w /\ versionDue' /\ \A o \in Worker \ {v} : pass'[o].at = "idle"
               /\ pass'[v].at # "rows" => \A s \in SessionID : use'[s] = NoRow
               /\ pass'[v].at = "families" => DOMAIN scripts' = {}
    <3>1. /\ versionDue /\ pass'[w] = t
          /\ \A o \in Worker \ {w} : pass[o].at = "idle" /\ pass'[o].at = "idle"
      BY <1>1, <1>2, <2>2
    <3>2. v = w /\ pass'[v] = t
      BY <2>2, <3>1 DEF Resetting
    <3>3. t.at \in Resetting /\ versionDue'
      BY <2>2, <3>1, <3>2
    <3>4. t.at # "rows" => \A s \in SessionID : use'[s] = NoRow
      BY <3>3 DEF Resetting
    <3> QED
      BY <3>1, <3>2, <3>3, <3>4
  <2> QED
    BY <2>1, <2>2 DEF AloneInv
<1>4. TicksInv'
  <2>1. ASSUME met = {}, NEW v \in Worker PROVE TickInv(pass[v])'
    <3>1. TickInv(pass[v])
      BY <2>1 DEF FamiliesInv, TicksInv
    <3>2. /\ pass'[v].regrouped = pass[v].regrouped /\ pass'[v].out = pass[v].out
          /\ pass'[v].at \in {"idle", "record"} \cup Resetting
          /\ pass[v].at \in {"idle"} \cup Resetting
      BY <1>1, <1>2, <2>1
    <3> QED
      BY <3>1, <3>2 DEF TickInv, Resetting
  <2> QED
    BY <2>1 DEF TicksInv
<1> QED
  BY <1>3, <1>4

LEMMA GoesOnTo ==
  ASSUME FamiliesInv, NEW w \in Worker, NEW to, GoesOn(w, to)
  PROVE  \E t : /\ pass'[w] = t /\ (\A o \in Worker \ {w} : pass'[o] = pass[o]) /\ DOMAIN pass' = Worker
                /\ Fields \subseteq DOMAIN t /\ t.at = to
                /\ t.out = pass[w].out /\ t.regrouped = pass[w].regrouped
<1>1. PICK t : t = [pass[w] EXCEPT !.at = to]
  OBVIOUS
<1>2. pass' = [pass EXCEPT ![w] = t]
  BY <1>1 DEF GoesOn
<1>3. Fields \subseteq DOMAIN t /\ t.at = to /\ t.out = pass[w].out /\ t.regrouped = pass[w].regrouped
  BY <1>1 DEF FamiliesInv, TablesInv, Fields
<1>4. pass'[w] = t /\ (\A o \in Worker \ {w} : pass'[o] = pass[o]) /\ DOMAIN pass' = Worker
  BY <1>2 DEF FamiliesInv, TablesInv
<1> QED
  BY <1>3, <1>4

LEMMA ResetRowsInv == ASSUME FamiliesInv, NEW w \in Worker, ResetRows(w) PROVE FamiliesInv'
<1>1. pass[w].at = "rows" /\ UNCHANGED <<scripts, families, versionDue, met>>
  BY DEF ResetRows, InStage
<1>2. CASE \E s \in SessionID : use' = [use EXCEPT ![s] = NoRow] /\ UNCHANGED pass
  <2>1. PICK s \in SessionID : use' = [use EXCEPT ![s] = NoRow] /\ UNCHANGED pass
    BY <1>2
  <2>2. TablesInv'
    BY <1>1, <2>1 DEF FamiliesInv, TablesInv, IsMap, NoRow
  <2>3. pass'[w] = pass[w] /\ \A o \in Worker \ {w} : pass'[o] = pass[o]
    BY <2>1
  <2>4. PICK t : t = pass[w]
    OBVIOUS
  <2>5. pass'[w] = t /\ t.at = "rows" /\ t.at \in Resetting /\ pass[w].at \in Resetting
    BY <1>1, <2>3, <2>4 DEF Resetting
  <2>6. AloneInv' /\ TicksInv'
    BY <1>1, <2>3, <2>4, <2>5, ResetStep
  <2> QED
    BY <1>1, <2>1, <2>2, <2>6 DEF FamiliesInv, TablesInv, FamiliesLed, SettledHasScript, Led, Leads, NoRow
<1>3. CASE (\A s \in SessionID : use[s] = NoRow) /\ GoesOn(w, "scripts") /\ UNCHANGED use
  <2>1. PICK t : /\ pass'[w] = t /\ (\A o \in Worker \ {w} : pass'[o] = pass[o]) /\ DOMAIN pass' = Worker
                 /\ Fields \subseteq DOMAIN t /\ t.at = "scripts"
                 /\ t.out = pass[w].out /\ t.regrouped = pass[w].regrouped
    BY <1>3, GoesOnTo
  <2>2. TablesInv'
    BY <1>1, <1>3, <2>1 DEF FamiliesInv, TablesInv, IsMap, NoRow
  <2>3. AloneInv' /\ TicksInv'
    <3>1. /\ t.at \in Resetting /\ pass[w].at \in Resetting /\ t.at # "families"
          /\ \A s \in SessionID : use'[s] = NoRow
      BY <1>1, <1>3, <2>1 DEF Resetting
    <3> QED
      BY <1>1, <2>1, <3>1, ResetStep
  <2> QED
    BY <1>1, <1>3, <2>2, <2>3 DEF FamiliesInv, FamiliesLed, SettledHasScript, Led, Leads
<1> QED
  BY <1>2, <1>3 DEF ResetRows

LEMMA ResetScriptsInv == ASSUME FamiliesInv, NEW w \in Worker, ResetScripts(w) PROVE FamiliesInv'
<1>1. pass[w].at = "scripts" /\ UNCHANGED <<use, families, versionDue, met>> /\ pass[w].at \in Resetting
  BY DEF ResetScripts, InStage, Resetting
<1>2. "reset" \notin met => versionDue /\ \A s \in SessionID : use[s] = NoRow
  BY <1>1 DEF FamiliesInv, AloneInv
<1>3. met = {} => versionDue'
  BY <1>1, <1>2
<1>4. FamiliesLed'
  BY <1>1, <1>3 DEF FamiliesLed
<1>5. SettledHasScript'
  BY <1>1, <1>2 DEF SettledHasScript, NoRow
<1>6. CASE \E f \in DOMAIN scripts : scripts' = Restrict(scripts, DOMAIN scripts \ {f}) /\ UNCHANGED pass
  <2>1. PICK f \in DOMAIN scripts : scripts' = Restrict(scripts, DOMAIN scripts \ {f}) /\ UNCHANGED pass
    BY <1>6
  <2>2. DOMAIN scripts' \subseteq DOMAIN scripts /\ \A g \in DOMAIN scripts' : scripts'[g] = scripts[g]
    BY <2>1 DEF Restrict
  <2>3. TablesInv'
    BY <1>1, <2>1, <2>2 DEF FamiliesInv, TablesInv, IsMap, NoRow
  <2>4. PICK t : t = pass[w]
    OBVIOUS
  <2>5. /\ pass'[w] = t /\ \A o \in Worker \ {w} : pass'[o] = pass[o]
        /\ t.at = "scripts" /\ t.at \in Resetting
    BY <1>1, <2>1, <2>4 DEF Resetting
  <2>6. CASE "reset" \in met
    <3>1. AloneInv' /\ TicksInv'
      BY <1>1, <2>6 DEF AloneInv, TicksInv
    <3> QED
      BY <1>4, <1>5, <2>3, <3>1 DEF FamiliesInv
  <2>7. CASE "reset" \notin met
    <3>1. \A s \in SessionID : use'[s] = NoRow
      BY <1>1, <1>2, <2>7
    <3>2. AloneInv' /\ TicksInv'
      BY <1>1, <2>4, <2>5, <3>1, ResetStep
    <3> QED
      BY <1>4, <1>5, <2>3, <3>2 DEF FamiliesInv
  <2> QED
    BY <2>6, <2>7
<1>7. CASE DOMAIN scripts = {} /\ GoesOn(w, "families") /\ UNCHANGED scripts
  <2>1. PICK t : /\ pass'[w] = t /\ (\A o \in Worker \ {w} : pass'[o] = pass[o]) /\ DOMAIN pass' = Worker
                 /\ Fields \subseteq DOMAIN t /\ t.at = "families"
                 /\ t.out = pass[w].out /\ t.regrouped = pass[w].regrouped
    BY <1>7, GoesOnTo
  <2>2. TablesInv'
    BY <1>1, <1>7, <2>1 DEF FamiliesInv, TablesInv, IsMap, NoRow
  <2>3. CASE "reset" \in met
    <3>1. AloneInv' /\ TicksInv'
      BY <1>1, <2>3 DEF AloneInv, TicksInv
    <3> QED
      BY <1>4, <1>5, <2>2, <3>1 DEF FamiliesInv
  <2>4. CASE "reset" \notin met
    <3>1. (\A s \in SessionID : use'[s] = NoRow) /\ t.at \in Resetting
      BY <1>1, <1>2, <2>1, <2>4 DEF Resetting
    <3>2. AloneInv' /\ TicksInv'
      BY <1>1, <1>7, <2>1, <3>1, ResetStep
    <3> QED
      BY <1>4, <1>5, <2>2, <3>2 DEF FamiliesInv
  <2> QED
    BY <2>3, <2>4
<1> QED
  BY <1>6, <1>7 DEF ResetScripts

LEMMA ResetFamiliesInv == ASSUME FamiliesInv, NEW w \in Worker, ResetFamilies(w) PROVE FamiliesInv'
<1>1. pass[w].at = "families" /\ UNCHANGED <<use, scripts, met>> /\ pass[w].at \in Resetting
  BY DEF ResetFamilies, InStage, Resetting
<1>2. "reset" \notin met => /\ versionDue /\ DOMAIN scripts = {}
                            /\ \A s \in SessionID : use[s] = NoRow
  BY <1>1 DEF FamiliesInv, AloneInv
<1>3. FamiliesLed'
  BY <1>1, <1>2 DEF FamiliesLed
<1>4. SettledHasScript'
  BY <1>1 DEF FamiliesInv, SettledHasScript
<1>5. CASE \E id \in DOMAIN families :
             families' = Restrict(families, DOMAIN families \ {id}) /\ UNCHANGED <<pass, versionDue>>
  <2>1. PICK id \in DOMAIN families :
          families' = Restrict(families, DOMAIN families \ {id}) /\ UNCHANGED <<pass, versionDue>>
    BY <1>5
  <2>2. IsMap(families')
    BY <2>1 DEF IsMap, Restrict
  <2>3. TablesInv'
    BY <1>1, <2>1, <2>2 DEF FamiliesInv, TablesInv, IsMap, NoRow
  <2>4. PICK t : t = pass[w]
    OBVIOUS
  <2>5. /\ pass'[w] = t /\ \A o \in Worker \ {w} : pass'[o] = pass[o]
        /\ t.at = "families" /\ t.at \in Resetting
    BY <1>1, <2>1, <2>4 DEF Resetting
  <2>6. CASE "reset" \in met
    <3>1. AloneInv' /\ TicksInv'
      BY <1>1, <2>6 DEF AloneInv, TicksInv
    <3> QED
      BY <1>3, <1>4, <2>3, <3>1 DEF FamiliesInv
  <2>7. CASE "reset" \notin met
    <3>1. (\A s \in SessionID : use'[s] = NoRow) /\ DOMAIN scripts' = {}
      BY <1>1, <1>2, <2>7
    <3>2. AloneInv' /\ TicksInv'
      BY <1>1, <2>1, <2>4, <2>5, <3>1, ResetStep
    <3> QED
      BY <1>3, <1>4, <2>3, <3>2 DEF FamiliesInv
  <2> QED
    BY <2>6, <2>7
<1>6. CASE GoesOn(w, "record") /\ UNCHANGED families
  <2>1. PICK t : /\ pass'[w] = t /\ (\A o \in Worker \ {w} : pass'[o] = pass[o]) /\ DOMAIN pass' = Worker
                 /\ Fields \subseteq DOMAIN t /\ t.at = "record"
                 /\ t.out = pass[w].out /\ t.regrouped = pass[w].regrouped
    BY <1>6, GoesOnTo
  <2>2. TablesInv'
    BY <1>1, <1>6, <2>1 DEF FamiliesInv, TablesInv, IsMap, NoRow
  <2>3. AloneInv' /\ TicksInv'
    <3>1. t.at \notin Resetting /\ t.at \in {"rows", "record"} /\ t.at # "families"
      BY <2>1 DEF Resetting
    <3> QED
      BY <1>1, <2>1, <3>1, ResetStep
  <2> QED
    BY <1>3, <1>4, <2>2, <2>3 DEF FamiliesInv
<1> QED
  BY <1>5, <1>6 DEF ResetFamilies

LEMMA PurgeDerivedInv == ASSUME FamiliesInv, NEW s \in SessionID, PurgeDerived(s) PROVE FamiliesInv'
<1>1. use' = [use EXCEPT ![s] = NoRow] /\ UNCHANGED <<scripts, families, pass, versionDue, met>>
  BY DEF PurgeDerived
<1>2. \A o \in SessionID : use'[o] = IF o = s THEN NoRow ELSE use[o]
  BY <1>1 DEF FamiliesInv, TablesInv
<1>3. TablesInv'
  BY <1>1, <1>2 DEF FamiliesInv, TablesInv, IsMap, NoRow
<1>4. AloneInv' /\ TicksInv'
  <2>1. AloneInv'
    BY <1>1, <1>2 DEF FamiliesInv, AloneInv
  <2>2. ASSUME met = {}, NEW w \in Worker PROVE TickInv(pass[w])'
    <3>1. TickInv(pass[w])
      BY <2>2 DEF FamiliesInv, TicksInv
    <3> QED
      BY <1>1, <3>1 DEF TickInv, Filing, Rebuilding, Leads
  <2> QED
    BY <1>1, <2>1, <2>2 DEF TicksInv
<1>5. FamiliesLed' /\ SettledHasScript'
  BY <1>1, <1>2 DEF FamiliesInv, FamiliesLed, SettledHasScript, Led, Leads, NoRow
<1> QED
  BY <1>3, <1>4, <1>5 DEF FamiliesInv

LEMMA ClearDerivedInv == ASSUME FamiliesInv, ClearDerived PROVE FamiliesInv'
<1>1. /\ use' = [s \in SessionID |-> NoRow] /\ scripts' = << >> /\ families' = << >>
      /\ pass' = [w \in Worker |-> [pass[w] EXCEPT !.steady = FALSE]]
      /\ UNCHANGED <<versionDue, met>>
  BY DEF ClearDerived
<1>2. DOMAIN scripts' = {} /\ IsMap(families') /\ \A s \in SessionID : use'[s] = NoRow
  BY <1>1 DEF IsMap
<1>3. ASSUME NEW w \in Worker
      PROVE  /\ Fields \subseteq DOMAIN pass'[w] /\ pass'[w].at = pass[w].at /\ ~pass'[w].steady
             /\ pass'[w].out = pass[w].out /\ pass'[w].regrouped = pass[w].regrouped
  <2>1. Fields \subseteq DOMAIN pass[w]
    BY DEF FamiliesInv, TablesInv
  <2>2. PICK t : t = [pass[w] EXCEPT !.steady = FALSE]
    OBVIOUS
  <2>3. pass'[w] = t
    BY <1>1, <2>2
  <2>4. Fields \subseteq DOMAIN t /\ t.at = pass[w].at /\ ~t.steady /\ t.out = pass[w].out /\ t.regrouped = pass[w].regrouped
    BY <2>1, <2>2 DEF Fields
  <2> QED
    BY <2>3, <2>4
<1>4. TablesInv'
  <2>1. DOMAIN use' = SessionID /\ DOMAIN pass' = Worker
    BY <1>1
  <2>2. \A s \in SessionID : {"now", "fp"} \subseteq DOMAIN use'[s] /\ use'[s] = NoRow
    BY <1>2 DEF NoRow
  <2> QED
    BY <1>2, <1>3, <2>1, <2>2 DEF TablesInv
<1>5. AloneInv'
  <2>1. (met = {} => \A w \in Worker : \A o \in Worker \ {w} : pass[w].at = "idle" \/ pass[o].at = "idle")'
    BY <1>1, <1>3 DEF FamiliesInv, AloneInv
  <2>2. ASSUME "reset" \notin met, NEW w \in Worker, pass[w].at \in Resetting
        PROVE  versionDue /\ \A o \in Worker \ {w} : pass'[o].at = "idle"
    BY <1>3, <2>2 DEF FamiliesInv, AloneInv
  <2> QED
    BY <1>1, <1>2, <1>3, <2>1, <2>2 DEF AloneInv
<1>6. TicksInv'
  <2>1. ASSUME met = {}, NEW w \in Worker PROVE TickInv(pass[w])'
    <3>1. TickInv(pass[w])
      BY <2>1 DEF FamiliesInv, TicksInv
    <3>2. Filing(pass[w])'
      BY <1>2 DEF Filing
    <3> QED
      BY <1>3, <3>1, <3>2 DEF TickInv
  <2> QED
    BY <1>1, <2>1 DEF TicksInv
<1>7. FamiliesLed' /\ SettledHasScript'
  BY <1>1, <1>2 DEF FamiliesLed, SettledHasScript, NoRow
<1> QED
  BY <1>4, <1>5, <1>6, <1>7 DEF FamiliesInv

LEMMA UpgradeInv == ASSUME FamiliesInv, Upgrade PROVE FamiliesInv'
<1>1. ~versionDue /\ versionDue' /\ UNCHANGED <<use, scripts, families, pass, met>>
  BY DEF Upgrade
<1>2. TablesInv' /\ AloneInv'
  BY <1>1 DEF FamiliesInv, TablesInv, AloneInv, IsMap, NoRow
<1>3. TicksInv'
  BY <1>1, TicksStay DEF FamiliesInv
<1>4. FamiliesLed' /\ SettledHasScript'
  BY <1>1 DEF FamiliesInv, FamiliesLed, SettledHasScript
<1> QED
  BY <1>2, <1>3, <1>4 DEF FamiliesInv

LEMMA FamiliesStutters == ASSUME FamiliesInv, UNCHANGED familiesVars PROVE FamiliesInv'
<1>1. UNCHANGED <<use, scripts, families, pass, versionDue, met>>
  BY DEF familiesVars
<1>2. TablesInv' /\ AloneInv'
  BY <1>1 DEF FamiliesInv, TablesInv, AloneInv, IsMap, NoRow
<1>3. TicksInv'
  BY <1>1, TicksStay DEF FamiliesInv
<1>4. FamiliesLed' /\ SettledHasScript'
  BY <1>1 DEF FamiliesInv, FamiliesLed, SettledHasScript, Led, Leads
<1> QED
  BY <1>2, <1>3, <1>4 DEF FamiliesInv

LEMMA FamiliesStep == FamiliesInv /\ [FamiliesNext]_familiesVars => FamiliesInv'
<1> SUFFICES ASSUME FamiliesInv, [FamiliesNext]_familiesVars PROVE FamiliesInv'
  OBVIOUS
<1>1. ASSUME NEW w \in Worker,
             BeginTick(w) \/ RecordLines(w) \/ Settle(w)
             \/ ListScripts(w) \/ (\E f \in Script : AssignOne(w, f)) \/ WriteFamilies(w)
      PROVE  FamiliesInv'
  BY <1>1, BeginTickInv, RecordLinesInv, SettleInv, ListInv, AssignInv, WriteFamiliesInv
<1>2. ASSUME NEW w \in Worker,
             SaveRegroup(w) \/ SnapshotFamilies(w) \/ DropFamilies(w) \/ UpsertFamilies(w)
             \/ Proceed(w) \/ OrphanCandidates(w) \/ PruneChunk(w) \/ EndTick(w)
             \/ ResetRows(w) \/ ResetScripts(w) \/ ResetFamilies(w)
      PROVE  FamiliesInv'
  BY <1>2, RegroupInv, SnapshotFamiliesInv, DropFamiliesInv, UpsertFamiliesInv, ProceedInv, CandidatesInv,
     PruneChunkInv, EndTickInv, ResetRowsInv, ResetScriptsInv, ResetFamiliesInv
<1>3. ASSUME (\E s \in SessionID : PurgeDerived(s)) \/ ClearDerived \/ Upgrade PROVE FamiliesInv'
  BY <1>3, PurgeDerivedInv, ClearDerivedInv, UpgradeInv
<1>4. CASE UNCHANGED familiesVars
  BY <1>4, FamiliesStutters
<1> QED
  BY <1>1, <1>2, <1>3, <1>4 DEF FamiliesNext

(* Script families: a lone tick files a script under a representative it  *)
(* was measured close to, a settled session's script outlives every late   *)
(* prune, and a rebuild leaves the view its snapshot called for.           *)
THEOREM FamiliesStayTrue == FamiliesSpec => []FamiliesHold
<1>1. FamiliesInv => FamiliesHold
  <2> SUFFICES ASSUME FamiliesInv PROVE FamiliesHold
    OBVIOUS
  <2>1. ViewRebuilt
    BY DEF FamiliesInv, TicksInv, TickInv, ViewRebuilt
  <2> QED
    BY <2>1 DEF FamiliesInv, FamiliesHold
<1> QED
  BY FamiliesStart, FamiliesStep, <1>1, PTL DEF FamiliesSpec
=============================================================================
