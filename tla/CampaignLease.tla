--------------------------- MODULE CampaignLease ---------------------------
(***************************************************************************)
(* The campaign worker lease: one ingest_state row shared by every process *)
(* on the database (store/campaign_lease.go), and the way a worker's tick  *)
(* takes, keeps, loses and is fenced by it (campaign/worker.go).           *)
(*                                                                         *)
(* Two clocks matter.  The row stores wall-clock time; a process compares  *)
(* its own leaseUntil with Go's time.Now, whose monotonic reading decides  *)
(* Before and Add.  A wall-clock step (or a suspended machine) moves one   *)
(* and not the other.  Every store call gets a time its caller read BEFORE *)
(* it waited for the writer lock, so reading the clock and writing the row *)
(* are separate steps here.                                                *)
(***************************************************************************)
EXTENDS Integers

CONSTANTS
  Worker,       \* the processes that may run the campaign worker
  NoOwner,      \* no lease row
  TTL,          \* campaignLeaseTTL
  MaxTime,      \* bound on either clock
  MaxStarts,    \* bound on process starts, per worker
  MaxSteps      \* bound on wall-clock steps

ASSUME TTLAssumption == TTL \in Nat /\ TTL >= 2
ASSUME BoundsAssumption == MaxTime \in Nat /\ MaxStarts \in Nat /\ MaxSteps \in Nat
ASSUME OwnerAssumption == NoOwner \notin Worker \X Nat

VARIABLES
  lease,          \* the ingest_state row: owner (head_sig) and until (offset)
  wall, mono,     \* the host's two clocks
  steps,          \* wall-clock steps so far
  pc,             \* how far each worker's tick has come
  renewing,       \* the tick is inside RenewCampaignLease
  gen,            \* how often each process was started: half of its owner ID
  leaseUntil,     \* Worker.leaseUntil on the monotonic clock, 0 for none
  now,            \* the time the tick read last, on both clocks
  versionChecked, \* Worker.versionChecked
  intruded,       \* history: another owner took the row since holdLease passed
  unseen          \* history: another owner took the row since the version check

clocks == <<wall, mono, steps>>
history == <<intruded, unseen>>
vars == <<lease, clocks, pc, renewing, gen, leaseUntil, now, versionChecked, history>>

Half == TTL \div 2
NoLease == [owner |-> NoOwner, until |-> 0]
OwnerID(w) == <<w, gen[w]>>

(* The three renewLease sites of a tick, and what each one guards. *)
RenewSite == {"recorded", "owed", "classified"}
AfterRenew == [recorded |-> "settled", owed |-> "classified", classified |-> "grouped"]
(* Past holdLease. *)
Running == RenewSite \cup {"check", "settled", "grouped", "save", "saved"}
Stage == Running \cup {"admit", "acquire", "idle", "down"}

TypeOK ==
  /\ lease \in [owner : (Worker \X Nat) \cup {NoOwner}, until : Nat]
  /\ wall \in Nat /\ mono \in Nat /\ steps \in Nat
  /\ pc \in [Worker -> Stage]
  /\ renewing \in [Worker -> BOOLEAN]
  /\ gen \in [Worker -> Nat]
  /\ leaseUntil \in [Worker -> Nat]
  /\ now \in [Worker -> [wall : Nat, mono : Nat]]
  /\ versionChecked \in [Worker -> BOOLEAN]
  /\ intruded \in [Worker -> BOOLEAN]
  /\ unseen \in [Worker -> BOOLEAN]

Init ==
  /\ lease = NoLease
  /\ wall = 0 /\ mono = 0 /\ steps = 0
  /\ pc = [w \in Worker |-> "down"]
  /\ renewing = [w \in Worker |-> FALSE]
  /\ gen = [w \in Worker |-> 0]
  /\ leaseUntil = [w \in Worker |-> 0]
  /\ now = [w \in Worker |-> [wall |-> 0, mono |-> 0]]
  /\ versionChecked = [w \in Worker |-> FALSE]
  /\ intruded = [w \in Worker |-> FALSE]
  /\ unseen = [w \in Worker |-> FALSE]

-----------------------------------------------------------------------------
(* Steps of the tick *)

Expiry(t) == t + TTL

Goto(w, to) == pc' = [pc EXCEPT ![w] = to]
ReadClock(w) == now' = [now EXCEPT ![w] = [wall |-> wall, mono |-> mono]]
Hold(w, until) == leaseUntil' = [leaseUntil EXCEPT ![w] = until]

(* leaseLive, at the monotonic time t. *)
LeaseLive(w, t) == leaseUntil[w] # 0 /\ t < leaseUntil[w]
(* Neither holdLease nor renewLease touches the store before half-life. *)
Fresh(w, t) == leaseUntil[w] # 0 /\ t < leaseUntil[w] - Half

(* The tick ends with ErrLeaseLapsed or ErrLeaseHeldElsewhere: the next    *)
(* acquire is a takeover.                                                  *)
GiveUp(w) ==
  /\ Hold(w, 0)
  /\ Goto(w, "idle")

(* holdLease, first half: the clock is read; before half-life nothing else *)
(* happens, otherwise AcquireCampaignLease is called with that time.       *)
BeginTick(w) ==
  /\ pc[w] = "idle"
  /\ ReadClock(w)
  /\ IF Fresh(w, mono)
       THEN /\ Goto(w, "check")
            /\ intruded' = [intruded EXCEPT ![w] = FALSE]
       ELSE /\ Goto(w, "admit")
            /\ UNCHANGED intruded
  /\ UNCHANGED <<lease, clocks, renewing, gen, leaseUntil, versionChecked, unseen>>

HeldElsewhere(w) ==
  /\ lease.owner \notin {NoOwner, OwnerID(w)}
  /\ lease.until > now[w].wall

(* AcquireCampaignLease's admission read: a row held elsewhere ends the    *)
(* tick without a write.                                                   *)
Admit(w) ==
  /\ pc[w] = "admit"
  /\ IF HeldElsewhere(w)
       THEN GiveUp(w)
       ELSE Goto(w, "acquire") /\ UNCHANGED leaseUntil
  /\ UNCHANGED <<lease, clocks, renewing, gen, now, versionChecked, history>>

(* The WHERE of AcquireCampaignLease's upsert; when it is false the row is *)
(* left to its holder and the read-back says so.                           *)
UnconditionalUpsert(w) == TRUE  \* mutant

AcquireAllowed(w) ==
  \/ lease.owner \in {NoOwner, OwnerID(w)}
  \/ lease.until <= now[w].wall

(* A takeover: no lease of our own, or it lapsed on our own clock. *)
Takeover(w) == leaseUntil[w] = 0 \/ now[w].mono >= leaseUntil[w]

Acquire(w) ==
  /\ pc[w] = "acquire"
  /\ IF AcquireAllowed(w)
       THEN /\ lease' = [owner |-> OwnerID(w), until |-> Expiry(now[w].wall)]
            /\ Hold(w, Expiry(now[w].mono))
            /\ Goto(w, "check")
            /\ versionChecked' =
                 [versionChecked EXCEPT ![w] = IF Takeover(w) THEN FALSE ELSE @]
            /\ intruded' = [v \in Worker |-> IF v = w THEN FALSE ELSE TRUE]
            /\ unseen' = [v \in Worker |-> IF v = w THEN unseen[v] ELSE TRUE]
       ELSE /\ GiveUp(w)
            /\ UNCHANGED <<lease, versionChecked, history>>
  /\ UNCHANGED <<clocks, renewing, gen, now>>

(* ResetScriptsForVersion runs only while versionChecked is false. *)
CheckVersion(w) ==
  /\ pc[w] = "check"
  /\ versionChecked' = [versionChecked EXCEPT ![w] = TRUE]
  /\ unseen' = [unseen EXCEPT ![w] = IF versionChecked[w] THEN @ ELSE FALSE]
  /\ Goto(w, "recorded")
  /\ UNCHANGED <<lease, clocks, renewing, gen, leaseUntil, now, intruded>>

(* renewLease reads the clock: a lease lapsed on it ends the tick, one     *)
(* before half-life is left alone.                                         *)
RenewRead(w) ==
  /\ pc[w] \in RenewSite /\ ~renewing[w]
  /\ ReadClock(w)
  /\ \/ /\ ~LeaseLive(w, mono)
        /\ GiveUp(w)
        /\ UNCHANGED renewing
     \/ /\ LeaseLive(w, mono) /\ Fresh(w, mono)
        /\ Goto(w, AfterRenew[pc[w]])
        /\ UNCHANGED <<leaseUntil, renewing>>
     \/ /\ LeaseLive(w, mono) /\ ~Fresh(w, mono)
        /\ renewing' = [renewing EXCEPT ![w] = TRUE]
        /\ UNCHANGED <<leaseUntil, pc>>
  /\ UNCHANGED <<lease, clocks, gen, versionChecked, history>>

(* campaignLeaseHeldTx, and the WHERE of RenewCampaignLease. *)
AnyUnexpired(w) == lease.until > now[w].wall  \* mutant

HeldAtNow(w) ==
  /\ lease.owner = OwnerID(w)
  /\ lease.until > now[w].wall

RenewWrite(w) ==
  /\ pc[w] \in RenewSite /\ renewing[w]
  /\ renewing' = [renewing EXCEPT ![w] = FALSE]
  /\ IF HeldAtNow(w)
       THEN /\ lease' = [lease EXCEPT !.until = Expiry(now[w].wall)]
            /\ Hold(w, Expiry(now[w].mono))
            /\ Goto(w, AfterRenew[pc[w]])
       ELSE GiveUp(w) /\ UNCHANGED lease
  /\ UNCHANGED <<clocks, gen, now, versionChecked, history>>

(* Settled: either a regroup is owed, or the tick is over. *)
Owe(w) ==
  /\ pc[w] = "settled"
  /\ \/ Goto(w, "owed")
     \/ Goto(w, "idle")
  /\ UNCHANGED <<lease, clocks, renewing, gen, leaseUntil, now, versionChecked, history>>

(* SaveGroupingAsLeaseHolder is handed the clock before it waits for the   *)
(* writer lock ...                                                         *)
SaveRead(w) ==
  /\ pc[w] = "grouped"
  /\ ReadClock(w)
  /\ Goto(w, "save")
  /\ UNCHANGED <<lease, clocks, renewing, gen, leaseUntil, versionChecked, history>>

(* ... and replaces the grouping only behind its fence. *)
SaveWrite(w) ==
  /\ pc[w] = "save"
  /\ IF HeldAtNow(w)
       THEN Goto(w, "saved") /\ UNCHANGED leaseUntil
       ELSE GiveUp(w)
  /\ UNCHANGED <<lease, clocks, renewing, gen, now, versionChecked, history>>

(* RebuildScriptFamilies, and PruneOrphanScripts behind leaseLive. *)
FinishTick(w) ==
  /\ pc[w] = "saved"
  /\ Goto(w, "idle")
  /\ UNCHANGED <<lease, clocks, renewing, gen, leaseUntil, now, versionChecked, history>>

(* Any store call may fail, and the cycle budget may end a tick anywhere. *)
FailTick(w) ==
  /\ pc[w] \notin {"idle", "down"}
  /\ Goto(w, "idle")
  /\ renewing' = [renewing EXCEPT ![w] = FALSE]
  /\ UNCHANGED <<lease, clocks, gen, leaseUntil, now, versionChecked, history>>

-----------------------------------------------------------------------------
(* Processes and clocks *)

Start(w) ==
  /\ pc[w] = "down" /\ gen[w] < MaxStarts
  /\ gen' = [gen EXCEPT ![w] = @ + 1]
  /\ Goto(w, "idle")
  /\ UNCHANGED <<lease, clocks, renewing, leaseUntil, now, versionChecked, history>>

Forget(w) ==
  /\ Goto(w, "down")
  /\ Hold(w, 0)
  /\ renewing' = [renewing EXCEPT ![w] = FALSE]
  /\ versionChecked' = [versionChecked EXCEPT ![w] = FALSE]

(* ReleaseCampaignLease deletes the row only while it names the caller. *)
EvictedRow(w) == NoLease  \* mutant

ReleasedRow(w) == IF lease.owner = OwnerID(w) THEN NoLease ELSE lease

(* Close releases only what the process believes it holds. *)
Close(w) ==
  /\ pc[w] = "idle"
  /\ lease' = IF leaseUntil[w] # 0 THEN ReleasedRow(w) ELSE lease
  /\ Forget(w)
  /\ UNCHANGED <<clocks, gen, now, history>>

Crash(w) ==
  /\ pc[w] # "down"
  /\ Forget(w)
  /\ UNCHANGED <<lease, clocks, gen, now, history>>

Tick ==
  /\ wall < MaxTime /\ mono < MaxTime
  /\ wall' = wall + 1 /\ mono' = mono + 1
  /\ UNCHANGED <<lease, steps, pc, renewing, gen, leaseUntil, now, versionChecked, history>>

(* The wall clock is set, or the machine resumes: only it moves. *)
StepWall ==
  /\ steps < MaxSteps
  /\ steps' = steps + 1
  /\ wall' \in 0..MaxTime
  /\ UNCHANGED <<lease, mono, pc, renewing, gen, leaseUntil, now, versionChecked, history>>

TickStep(w) ==
  \/ BeginTick(w) \/ Admit(w) \/ Acquire(w) \/ CheckVersion(w)
  \/ RenewRead(w) \/ RenewWrite(w) \/ Owe(w)
  \/ SaveRead(w) \/ SaveWrite(w) \/ FinishTick(w) \/ FailTick(w)

Next ==
  \/ \E w \in Worker : TickStep(w) \/ Start(w) \/ Close(w) \/ Crash(w)
  \/ Tick
  \/ StepWall

Spec == Init /\ [][Next]_vars

-----------------------------------------------------------------------------
(* Properties *)

(* A SaveGroupingAsLeaseHolder that writes. *)
Saves(w) == pc[w] = "save" /\ pc'[w] = "saved"

(* No grouping is saved by a tick during which another process owned the   *)
(* lease, however long the tick stalled and however the wall clock moved:  *)
(* the fence inside the save's transaction, not the renewals, decides.     *)
FencedSave == [][\A w \in Worker : Saves(w) => ~intruded[w]]_vars

(* A running process that still believes in its lease on its own clock.    *)
Believes(w) == pc[w] # "down" /\ LeaseLive(w, mono)

(* While the wall clock is not stepped, at most one process believes it    *)
(* holds the lease, so leaseLive (all PruneOrphanScripts is fenced by) is  *)
(* as good as asking the store.                                            *)
OneBeliever ==
  steps = 0 => \A v, w \in Worker : Believes(v) /\ Believes(w) => v = w

(* A grouping is saved only under a version check made after the last time *)
(* another process owned the lease: holdLease re-runs the check on every   *)
(* takeover so that a rebuild or another normaliser's reset done meanwhile *)
(* is not missed.                                                          *)
FreshCheckSave == [][\A w \in Worker : Saves(w) => ~unseen[w]]_vars

(* While the wall clock is not stepped, the row behaves as the clockless   *)
(* lease the pipeline is written over.  The first step ends the mapping: a *)
(* row no clock dates any more is an absent one.                           *)
Abstract == INSTANCE WorkerLease WITH
  Owner <- Worker \X (0..MaxStarts),
  holder <- IF steps = 0 THEN lease.owner ELSE NoOwner,
  lapsed <- steps = 0 /\ lease.owner # NoOwner /\ lease.until <= wall

ImplementsWorkerLease == Abstract!LeaseSpec
=============================================================================
