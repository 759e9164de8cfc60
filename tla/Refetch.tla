------------------------------- MODULE Refetch -------------------------------
(***************************************************************************)
(* The re-fetch schedule (store/refetch.go) and its workers                *)
(* (capture/refetch_worker.go).  A URL whose first capture served a        *)
(* payload is fetched again, often at first, then more rarely, so that a   *)
(* server that rotates its binary yields every build; nothing is fetched   *)
(* MaxAge after the URL was first seen.  A worker leases a row, fetches    *)
(* outside any transaction, and records what it found.  A second worker is *)
(* another process on the same database.                                   *)
(*                                                                         *)
(* The clock counts ticks; the store compares times, so it is absolute.    *)
(***************************************************************************)
EXTENDS Integers, FiniteSets, FiniteSetsExt

CONSTANTS
  Link, Worker, Body,                     \* URLs, processes, file contents
  FirstPhase, SecondPhase, MaxAge,        \* ages that end the hourly, six-hourly and last phase
  Hourly, SixHourly, Daily,               \* the steps of the schedule
  OfflineAfter, MaxNew,                   \* failures in a row; rotated payloads per URL
  ClaimFor, ReleaseDelay,
  End,                                    \* the clock's bound
  Chance                                  \* retention, the processes; bounds: captures and their last
                                          \* time, mishaps, busy hosts

ASSUME RefetchAssumption ==
  /\ {FirstPhase, SecondPhase, MaxAge, Hourly, SixHourly, Daily, OfflineAfter, MaxNew,
      ClaimFor, ReleaseDelay} \subseteq Nat \ {0}
  /\ FirstPhase <= SecondPhase /\ SecondPhase <= MaxAge
  /\ End \in Nat /\ Body \subseteq Nat

VARIABLES
  now,
  sample,       \* the fetched artifact rows: [link, epoch, body, depth, first, seen]
  schedule,     \* a URL's row, or Unscheduled
  claim,        \* what each worker holds
  captured,     \* first captures recorded and not yet offered to the schedule
  purging,      \* the cutoff of a retention run between its two parts
  chance,
  named,        \* URLs a command has named, not only a script
  claimant,     \* the last worker to claim a URL
  oldest        \* the greatest age at which a payload was recorded

rowVars == <<sample, schedule>>
refetchHistory == <<named, claimant, oldest>>
refetchVars == <<now, rowVars, claim, captured, purging, chance, refetchHistory>>

-----------------------------------------------------------------------------
Unscheduled == [state |-> "none"]
NoClaim == [stage |-> "idle"]
NoClaimant == "nobody"

Scheduled(u) == schedule[u].state # "none"
Open(u) == schedule[u].state \in {"active", "offline"}
FetchedAt(u) == {r \in sample : r.link = u}
Epochs(u) == {r.epoch : r \in FetchedAt(u)}
FirstRow(u) == {r \in FetchedAt(u) : r.epoch = 0}

(* NextRefetch: the next check and the state it leaves the row in. *)
NextRefetch(first, at, failures) ==
  LET age == at - first
      step == IF failures >= OfflineAfter THEN Daily
              ELSE IF age < FirstPhase THEN Hourly ELSE SixHourly
  IN IF \/ age >= MaxAge \/ at + step - first >= MaxAge
        \/ failures < OfflineAfter /\ age >= SecondPhase
     THEN [next |-> at, state |-> "done"]
     ELSE [next |-> at + step, state |-> IF failures >= OfflineAfter THEN "offline" ELSE "active"]

RefetchInit ==
  /\ now = 0 /\ sample = {} /\ schedule = [u \in Link |-> Unscheduled]
  /\ claim = [w \in Worker |-> NoClaim] /\ captured = {} /\ purging = {}
  /\ chance \in Chance
  /\ named = {} /\ claimant = [u \in Link |-> NoClaimant]
  /\ oldest = 0

Spend(what) == chance[what] > 0 /\ chance' = [chance EXCEPT ![what] = @ - 1]

Tick ==
  /\ now < End /\ now' = now + 1
  /\ UNCHANGED <<rowVars, claim, captured, purging, chance, refetchHistory>>

(* Bodies are only ever compared, so of those nothing holds any one will do. *)
Served == {r.body : r \in sample} \cup {c.body : c \in captured}
            \cup UNION {claim[w].body : w \in {v \in Worker : claim[v] # NoClaim}}
Answers == Served \cup (IF Body \subseteq Served THEN {} ELSE {Min(Body \ Served)})

-----------------------------------------------------------------------------
(* The capture worker's side *)

(* The first capture of a URL, first seen some time ago, in a script       *)
(* (depth 1) or a command (depth 0).                                       *)
FirstCapture(u, b, depth, ago) ==
  /\ FirstRow(u) = {} /\ ago <= now /\ now <= chance.until /\ Spend("capture")
  /\ sample' = sample \cup {[link |-> u, epoch |-> 0, body |-> b, depth |-> depth,
                             first |-> now - ago, seen |-> now - ago]}
  /\ captured' = captured \cup {[link |-> u, body |-> b]}
  /\ named' = IF depth = 0 THEN named \cup {u} ELSE named
  /\ UNCHANGED <<now, schedule, claim, purging, claimant, oldest>>

(* SeedRefetchForCapture: after that commit, if the row still says so.     *)
(* INSERT OR IGNORE: a second seed moves nothing.                          *)
Seed ==
  \E c \in captured :
    LET row == {r \in FirstRow(c.link) : r.body = c.body}
        first == (CHOOSE r \in row : TRUE).first
        plan == NextRefetch(first, now, 0)
    IN /\ schedule' = IF row = {} \/ Scheduled(c.link) THEN schedule
                      ELSE [schedule EXCEPT ![c.link] =
                             [state |-> plan.state, first |-> first, next |-> plan.next, lease |-> 0,
                              checks |-> 0, failures |-> 0, last |-> first]]
       /\ captured' = captured \ {c}
       /\ UNCHANGED <<now, sample, claim, purging, chance, named, claimant, oldest>>

-----------------------------------------------------------------------------
(* The re-fetch worker *)

Leased(row) == row.lease > now
Age(u) == now - schedule[u].first

(* What a claim settles first: rows past the age no worker is on. *)
Overage(u) == Open(u) /\ Age(u) >= MaxAge /\ ~Leased(schedule[u])
\* mutant: a claim settles nothing
SettledNever == schedule

Settled ==
  [u \in Link |-> IF Overage(u) THEN [schedule[u] EXCEPT !.state = "done", !.next = now, !.lease = 0]
                  ELSE schedule[u]]

Young(u) == Age(u) < MaxAge
Claimable == {u \in Link : Open(u) /\ schedule[u].next <= now /\ ~Leased(schedule[u]) /\ Young(u)}
MostOverdue == {u \in Claimable : \A v \in Claimable : schedule[u].next <= schedule[v].next}

(* ClaimRefetch: checks and the lease's end are the claim's token. *)
ClaimRefetch(w) ==
  /\ w \in chance.running /\ claim[w] = NoClaim
  /\ \/ /\ Claimable = {} /\ Settled # schedule
        /\ schedule' = Settled /\ UNCHANGED <<claim, claimant>>
     \/ \E u \in MostOverdue :
          /\ schedule' = [Settled EXCEPT ![u].lease = now + ClaimFor]
          /\ claim' = [claim EXCEPT ![w] = [stage |-> "gate", link |-> u, checks |-> schedule[u].checks,
                                            lease |-> now + ClaimFor, body |-> {}]]
          /\ claimant' = [claimant EXCEPT ![u] = w]
  /\ UNCHANGED <<now, sample, captured, purging, chance, named, oldest>>

\* mutant: checks alone is the token
SameChecks(row, c) == row.checks = c.checks

(* The token: the row as this claim left it. *)
SameLease(row, c) == row.checks = c.checks /\ row.lease = c.lease
TokenHolds(c) == Scheduled(c.link) /\ SameLease(schedule[c.link], c)

(* The host is busy: handed back, a little later, with nothing counted. *)
ReleaseRefetch(w) ==
  /\ claim[w].stage = "gate" /\ Spend("busy")
  /\ schedule' = IF TokenHolds(claim[w])
                 THEN [schedule EXCEPT ![claim[w].link].lease = 0, ![claim[w].link].next = now + ReleaseDelay]
                 ELSE schedule
  /\ claim' = [claim EXCEPT ![w] = NoClaim]
  /\ UNCHANGED <<now, sample, captured, purging, refetchHistory>>

BeginFetch(w) ==
  /\ claim[w].stage = "gate"
  /\ claim' = [claim EXCEPT ![w].stage = "fetch"]
  /\ UNCHANGED <<now, rowVars, captured, purging, chance, refetchHistory>>

(* Published before the deadline, which is inside the lease. *)
PublishBody(w, b) ==
  /\ claim[w].stage = "fetch" /\ now < claim[w].lease
  /\ claim' = [claim EXCEPT ![w].stage = "record", ![w].body = {b}]
  /\ UNCHANGED <<now, rowVars, captured, purging, chance, refetchHistory>>

(* CompleteRefetch is refused unless the token holds and the lease lives. *)
Recordable(c) == TokenHolds(c) /\ Leased(schedule[c.link])

\* mutant: an unknown depth is the default one
DefaultDepth(u) == IF FirstRow(u) = {} THEN 0 ELSE (CHOOSE r \in FirstRow(u) : TRUE).depth

InferredDepth(u) == IF FirstRow(u) = {} THEN 1 ELSE (CHOOSE r \in FirstRow(u) : TRUE).depth
FirstSeen(u) == IF FirstRow(u) = {} THEN schedule[u].first ELSE (CHOOSE r \in FirstRow(u) : TRUE).first
NextEpoch(u) == IF Epochs(u) = {} THEN 0 ELSE Max(Epochs(u)) + 1

(* A body the URL's rows hold already adds none. *)
WithBody(u, b) ==
  IF \E r \in FetchedAt(u) : r.body = b THEN sample
  ELSE sample \cup {[link |-> u, epoch |-> NextEpoch(u), body |-> b, depth |-> InferredDepth(u),
                     first |-> FirstSeen(u), seen |-> now]}

Full(u, rows) == Cardinality({r \in rows : r.link = u /\ r.epoch > 0}) >= MaxNew

Advanced(row, failures, stop) ==
  LET plan == NextRefetch(row.first, now, failures)
  IN [row EXCEPT !.checks = @ + 1, !.failures = failures, !.last = now, !.lease = 0,
                 !.next = IF stop THEN now ELSE plan.next,
                 !.state = IF stop THEN "done" ELSE plan.state]

CompleteRefetch(w) ==
  /\ claim[w].stage = "record"
  /\ LET u == claim[w].link
         rows == UNION {WithBody(u, b) : b \in claim[w].body}
     IN IF Recordable(claim[w])
        THEN /\ sample' = rows
             /\ schedule' = [schedule EXCEPT ![u] = Advanced(@, 0, rows # sample /\ Full(u, rows))]
             /\ oldest' = Max({oldest, Age(u)})
        ELSE UNCHANGED <<rowVars, oldest>>
  /\ claim' = [claim EXCEPT ![w] = NoClaim]
  /\ UNCHANGED <<now, captured, purging, chance, named, claimant>>

(* Nothing served, or nothing shaped like a payload. *)
FailedCheck(w) ==
  /\ claim[w].stage = "fetch"
  /\ schedule' = IF Recordable(claim[w])
                 THEN [schedule EXCEPT ![claim[w].link] = Advanced(@, @.failures + 1, FALSE)]
                 ELSE schedule
  /\ claim' = [claim EXCEPT ![w] = NoClaim]
  /\ UNCHANGED <<now, sample, captured, purging, chance, refetchHistory>>

(* The publication failed, or the process stops or dies: the lease lapses. *)
Abandon(w) ==
  /\ claim[w] # NoClaim /\ Spend("mishap")
  /\ claim' = [claim EXCEPT ![w] = NoClaim] /\ captured' = {}
  /\ UNCHANGED <<now, rowVars, purging, refetchHistory>>

-----------------------------------------------------------------------------
(* The retention run: artifact rows, then schedule rows, by one cutoff *)

PurgeArtifacts ==
  /\ purging = {} /\ chance.keep > 0
  /\ LET cutoff == now - chance.keep IN
       /\ \/ \E r \in sample : r.seen < cutoff
          \/ \E u \in Link : Scheduled(u) /\ schedule[u].last < cutoff
       /\ sample' = {r \in sample : r.seen >= cutoff}
       /\ purging' = {cutoff}
  /\ UNCHANGED <<now, schedule, claim, captured, chance, refetchHistory>>

Spent(u, cutoff) ==
  \/ schedule[u].state = "done" /\ schedule[u].last < cutoff
  \/ schedule[u].first < cutoff /\ Age(u) > MaxAge

(* A row mid-fetch keeps its schedule. *)
Purgeable(u, cutoff) == Scheduled(u) /\ Spent(u, cutoff) /\ ~Leased(schedule[u])

PurgeRefetchSchedule ==
  /\ \E cutoff \in purging :
       schedule' = [u \in Link |-> IF Purgeable(u, cutoff) THEN Unscheduled ELSE schedule[u]]
  /\ purging' = {}
  /\ UNCHANGED <<now, sample, claim, captured, chance, refetchHistory>>

-----------------------------------------------------------------------------
RefetchStep(w) ==
  \/ ClaimRefetch(w) \/ BeginFetch(w) \/ CompleteRefetch(w) \/ FailedCheck(w)
  \/ \E b \in Answers : PublishBody(w, b)

RefetchNext ==
  \/ Tick \/ Seed
  \/ \E u \in Link, b \in Answers, depth \in {0, 1}, ago \in {0, FirstPhase} : FirstCapture(u, b, depth, ago)
  \/ \E w \in Worker : RefetchStep(w) \/ ReleaseRefetch(w) \/ Abandon(w)
  \/ PurgeArtifacts \/ PurgeRefetchSchedule

(* Time passes and each process polls every thirty seconds. *)
RefetchFairness == WF_refetchVars(Tick) /\ \A w \in Worker : WF_refetchVars(RefetchStep(w))

RefetchSpec == RefetchInit /\ [][RefetchNext]_refetchVars /\ RefetchFairness

-----------------------------------------------------------------------------
(* No payload is recorded once it could no longer be shared: a fetch that  *)
(* begins in time ends within its lease, also for a row that lay overdue,  *)
(* was handed back, or was claimed again.                                  *)
RecordedFresh == oldest < MaxAge + ClaimFor

(* What may happen to a row that stays scheduled: its last claimant ends   *)
(* its claim on it, or no lease runs and nobody ends a claim.              *)
FencedMove(u) ==
  schedule'[u] \notin {schedule[u], Unscheduled} =>
    \/ \E w \in Worker : /\ claimant[u] = w /\ claim[w] # NoClaim /\ claim[w].link = u
                         /\ claim'[w] = NoClaim
    \/ ~Leased(schedule[u]) /\ \A w \in Worker : claim'[w] = NoClaim => claim[w] = NoClaim

(* A row is checked, failed or handed back by the worker that claimed it   *)
(* last; all that happens to it otherwise is to be claimed or settled      *)
(* while no lease runs.  So a worker whose lease lapsed and was taken over *)
(* neither records nor releases, neither while its successor fetches nor   *)
(* afterwards.                                                             *)
OnlyClaimantMoves == [][\A u \in Link : Scheduled(u) => FencedMove(u)]_refetchVars

(* A payload of a URL that only scripts named never passes for one a       *)
(* command named, not even when retention has removed the first row its    *)
(* provenance would come from.                                             *)
ProvenanceKept == \A r \in sample : r.depth = 0 => r.link \in named

(* Every schedule ends, and not too late for what it fetched to be shared. *)
ScheduleEnds == \A u \in Link : []<>(~Open(u) /\ RecordedFresh)
====
