---------------------------- MODULE AbuseReports ----------------------------
(* Reports of attackers to AbuseIPDB from one server process: the button of *)
(* a row and the button that reports every suggested target share a ledger, *)
(* a gate per target (addresses are striped over the gates) and a lane that *)
(* admits one batch.  A report is looked up in the ledger, sent, and then   *)
(* recorded; a target may be reported again when its window is over.        *)
EXTENDS Integers, Sequences, FiniteSets

CONSTANTS
  Address,
  Click,            \* requests for a single address
  Batch,            \* requests for every suggested target
  Stripe,           \* [Address -> the gate it shares]
  Window,           \* the re-report window, in ticks
  LastTick,         \* the clock's bound
  Mishaps           \* bound on answers lost, ledger writes and reads failed

ASSUME WindowAssumption == Window \in Nat \ {0}

Caller == Click \cup Batch
Gates == {Stripe[a] : a \in Address}
Nobody == "nobody"

ASSUME CallerAssumption == Nobody \notin Caller

VARIABLES
  clock,            \* the wall clock
  ledgerRow,        \* [Address -> the time of its row, or -1]
  gateHolder,       \* [Gates -> Caller \cup {Nobody}]
  lane,             \* the batch that runs, or Nobody
  call,             \* [Caller -> [at, ip, rest]]
  mishaps,          \* mishaps left
  repeated          \* addresses reported again within the window of their row

abuseVars == <<clock, ledgerRow, gateHolder, lane, call, mishaps, repeated>>

Rest == [at |-> "idle", ip |-> Nobody, rest |-> <<>>]

AbuseInit ==
  /\ clock = 0 /\ ledgerRow = [a \in Address |-> -1]
  /\ gateHolder = [g \in Gates |-> Nobody] /\ lane = Nobody
  /\ call = [c \in Caller |-> Rest]
  /\ mishaps = Mishaps
  /\ repeated = {}

ClockTicks ==
  /\ clock < LastTick /\ clock' = clock + 1
  /\ UNCHANGED <<ledgerRow, gateHolder, lane, call, mishaps, repeated>>

Moves(c, at) == call' = [call EXCEPT ![c].at = at]

(* What a caller gives back when it is through with its address: the gate, *)
(* and for a batch the next candidate; a batch that returns leaves the lane. *)
FreeGate(c) == gateHolder' = [g \in Gates |-> IF gateHolder[g] = c THEN Nobody ELSE gateHolder[g]]

Returns(c) ==
  /\ FreeGate(c) /\ call' = [call EXCEPT ![c] = Rest]
  /\ lane' = IF lane = c THEN Nobody ELSE lane

NextTarget(c) ==
  IF call[c].rest = <<>> THEN Returns(c)
  ELSE /\ FreeGate(c) /\ UNCHANGED lane
       /\ call' = [call EXCEPT ![c] = [at |-> "target", ip |-> Head(@.rest), rest |-> Tail(@.rest)]]

-----------------------------------------------------------------------------
PressOne(c, a) ==
  /\ c \in Click /\ call[c].at = "idle"
  /\ call' = [call EXCEPT ![c] = [at |-> "target", ip |-> a, rest |-> <<>>]]
  /\ UNCHANGED <<clock, ledgerRow, gateHolder, lane, mishaps, repeated>>

(* A second batch is refused.  The first works through the suggested targets *)
(* in their order, passing over those the evidence does not bear out.        *)
PressAll(c, targets) ==
  /\ c \in Batch /\ call[c].at = "idle" /\ lane = Nobody
  /\ lane' = c
  /\ call' = [call EXCEPT ![c] = [at |-> "target", ip |-> Head(targets), rest |-> Tail(targets)]]
  /\ UNCHANGED <<clock, ledgerRow, gateHolder, mishaps, repeated>>

\* mutant: a batch trusts its lane and takes no gate
FreeForBatch(c, g) == gateHolder[g] = Nobody \/ c \in Batch
GateFree(c, g) == gateHolder[g] = Nobody

(* The gate is held from the first look at the ledger to the row's write. *)
(* Waiting for it ends with the request, too.                             *)
AcquireTarget(c) ==
  /\ call[c].at = "target"
  /\ \/ /\ GateFree(c, Stripe[call[c].ip])
        /\ gateHolder' = [gateHolder EXCEPT ![Stripe[call[c].ip]] = c]
        /\ Moves(c, "check") /\ UNCHANGED lane
     \/ Returns(c)
  /\ UNCHANGED <<clock, ledgerRow, mishaps, repeated>>

(* A row exactly one window old still counts. *)
WithinWindow(a) == ledgerRow[a] >= 0 /\ ledgerRow[a] >= clock - Window

(* Reported within the window: skipped.  A failed look skips it as well. *)
CheckTarget(c) ==
  /\ call[c].at = "check"
  /\ \/ ~WithinWindow(call[c].ip) /\ Moves(c, "send") /\ UNCHANGED <<gateHolder, lane, mishaps>>
     \/ WithinWindow(call[c].ip) /\ NextTarget(c) /\ UNCHANGED mishaps
     \/ mishaps > 0 /\ mishaps' = mishaps - 1 /\ NextTarget(c)
  /\ UNCHANGED <<clock, ledgerRow, repeated>>

(* The submission: paced, then accepted, refused, lost, or over the day's   *)
(* limit, which ends the request.  A refusal and a lost answer are the same *)
(* to the caller: no row, on to the next.                                   *)
Accepted(c) ==
  /\ repeated' = IF ledgerRow[call[c].ip] >= 0 /\ clock - ledgerRow[call[c].ip] <= Window
                 THEN repeated \cup {call[c].ip} ELSE repeated
  /\ Moves(c, "record") /\ UNCHANGED <<gateHolder, lane, mishaps>>

SubmitReport(c) ==
  /\ call[c].at = "send"
  /\ \/ Accepted(c)
     \/ mishaps > 0 /\ mishaps' = mishaps - 1 /\ NextTarget(c) /\ UNCHANGED repeated
     \/ Returns(c) /\ UNCHANGED <<mishaps, repeated>>
  /\ UNCHANGED <<clock, ledgerRow>>

(* The row, upserted, lets the gate go.  Without it a later run would send *)
(* the report again, so nothing more is sent.                              *)
RecordReport(c) ==
  /\ call[c].at = "record"
  /\ \/ /\ ledgerRow' = [ledgerRow EXCEPT ![call[c].ip] = clock]
        /\ NextTarget(c) /\ UNCHANGED mishaps
     \/ /\ mishaps > 0 /\ mishaps' = mishaps - 1
        /\ Returns(c) /\ UNCHANGED ledgerRow
  /\ UNCHANGED <<clock, repeated>>

-----------------------------------------------------------------------------
(* The orders in which a batch may come by its targets. *)
Ranking ==
  UNION {{s \in [1..n -> Address] : \A i, j \in 1..n : s[i] = s[j] => i = j} : n \in 1..Cardinality(Address)}

ReportStep(c) == AcquireTarget(c) \/ CheckTarget(c) \/ SubmitReport(c) \/ RecordReport(c)

AbuseNext ==
  \/ ClockTicks
  \/ \E c \in Click, a \in Address : PressOne(c, a)
  \/ \E c \in Batch, targets \in Ranking : PressAll(c, targets)
  \/ \E c \in Caller : ReportStep(c)

AbuseSpec == AbuseInit /\ [][AbuseNext]_abuseVars

-----------------------------------------------------------------------------
(* Whatever buttons are pressed together, an address whose report has a row *)
(* is not reported again before its window is over.                        *)
OneReportPerWindow == repeated = {}

====
