---------------------------- MODULE RefetchProofs ----------------------------
(* Proofs about Refetch: for any URLs, processes, schedule and lease, only *)
(* the last claimant of a URL moves its row, nothing is recorded too       *)
(* late to be shared, and the provenance of a payload is never promoted.   *)
(* And about StoreUpgrade, whose rebuild gives a URL its epochs: whatever  *)
(* earlier builds left, an open store is complete and no artifact is lost. *)
EXTENDS Refetch, StoreUpgrade, FiniteOrder, FiniteSetTheorems, TLAPS

Row == [state : {"active", "offline", "done"}, first : Int, next : Int, lease : Int,
        checks : Int, failures : Int, last : Int]
Claim == [stage : {"gate", "fetch", "record"}, link : Link, checks : Int, lease : Int,
          body : SUBSET Body]

RefetchTypeOK ==
  /\ now \in Int /\ oldest \in Int
  /\ schedule \in [Link -> Row \cup {Unscheduled}]
  /\ claim \in [Worker -> Claim \cup {NoClaim}]
  /\ claimant \in [Link -> Worker \cup {NoClaimant}]
  /\ \A r \in sample : r.first \in Int /\ r.body \in Body
  /\ \A c \in captured : c.body \in Body

(* While a claim's lease runs, the row is as the claim left it, the worker *)
(* is its last claimant, and the URL was young when the lease was given.   *)
Running(w) == claim[w] # NoClaim /\ claim[w].lease > now
Held(w) ==
  /\ TokenHolds(claim[w]) /\ claimant[claim[w].link] = w
  /\ claim[w].lease - schedule[claim[w].link].first < MaxAge + ClaimFor

ClaimInv == RefetchTypeOK /\ RecordedFresh /\ \A w \in Worker : Running(w) => Held(w)

-----------------------------------------------------------------------------
LEMMA Constants ==
  /\ MaxAge \in Int /\ ClaimFor \in Int /\ MaxAge > 0 /\ ClaimFor > 0
  /\ FirstPhase \in Int /\ SecondPhase \in Int /\ OfflineAfter \in Int
  /\ Hourly \in Int /\ SixHourly \in Int /\ Daily \in Int /\ ReleaseDelay \in Int
BY RefetchAssumption

(* The greater of two ages is one of them. *)
LEMMA MaxOfTwo ==
  ASSUME NEW a \in Int, NEW b \in Int
  PROVE  Max({a, b}) \in {a, b}
<1>1. \E x \in {a, b} : \A y \in {a, b} : x >= y
  BY SMT
<1> QED
  BY <1>1 DEF Max

LEMMA PlanTyped ==
  ASSUME NEW first \in Int, NEW at \in Int, NEW failures \in Int
  PROVE  /\ NextRefetch(first, at, failures).next \in Int
         /\ NextRefetch(first, at, failures).state \in {"active", "offline", "done"}
BY Constants DEF NextRefetch

(* A row is told from the absence of one, and a claim from the absence. *)
LEMMA Typed ==
  ASSUME RefetchTypeOK
  PROVE  /\ \A u \in Link : Scheduled(u) <=> schedule[u] \in Row
         /\ \A w \in Worker : claim[w] # NoClaim <=> claim[w] \in Claim
         /\ \A w \in Worker : claim[w] # NoClaim <=> claim[w].stage # "idle"
BY DEF RefetchTypeOK, Row, Claim, NoClaim, Unscheduled, Scheduled

LEMMA AdvancedTyped ==
  ASSUME RefetchTypeOK, NEW row \in Row, NEW failures \in Int, NEW stop \in BOOLEAN
  PROVE  /\ Advanced(row, failures, stop) \in Row
         /\ Advanced(row, failures, stop).first = row.first
         /\ Advanced(row, failures, stop).checks = row.checks + 1
<1> DEFINE plan == NextRefetch(row.first, now, failures)
<1>1. plan.next \in Int /\ plan.state \in {"active", "offline", "done"} /\ now \in Int
  BY PlanTyped DEF RefetchTypeOK, Row
<1> HIDE DEF plan
<1> DEFINE next == IF stop THEN now ELSE plan.next
           state == IF stop THEN "done" ELSE plan.state
<1>2. next \in Int /\ state \in {"active", "offline", "done"}
  BY <1>1
<1>3. Advanced(row, failures, stop) =
        [row EXCEPT !.checks = row.checks + 1, !.failures = failures, !.last = now, !.lease = 0,
                    !.next = next, !.state = state]
  BY Zenon DEF Advanced, plan
<1> HIDE DEF next, state
<1>4. row.checks + 1 \in Int /\ 0 \in Int
  BY DEF Row
<1>5. Advanced(row, failures, stop) \in Row
  BY <1>1, <1>2, <1>3, <1>4, Zenon DEF Row
<1>6. /\ Advanced(row, failures, stop).first = row.first
      /\ Advanced(row, failures, stop).checks = row.checks + 1
  BY <1>3 DEF Row
<1> QED
  BY <1>5, <1>6

(* A step that leaves the rows under a running lease alone, and the claims, *)
(* keeps the invariant.                                                     *)
LEMMA RowsKept ==
  ASSUME ClaimInv, RefetchTypeOK', oldest' = oldest, UNCHANGED <<claim, claimant>>,
         now' >= now,
         \A u \in Link : Scheduled(u) /\ schedule[u].lease > now => schedule'[u] = schedule[u]
  PROVE  ClaimInv'
<1>1. SUFFICES ASSUME NEW w \in Worker, Running(w)' PROVE Held(w)'
  BY DEF ClaimInv, RecordedFresh
<1>2. Running(w) /\ claim[w] \in Claim /\ claim[w].link \in Link
  BY <1>1, Typed DEF Running, ClaimInv, RefetchTypeOK, Claim
<1>3. Held(w)
  BY <1>1, <1>2 DEF ClaimInv
<1>4. schedule'[claim[w].link] = schedule[claim[w].link]
  BY <1>2, <1>3 DEF Held, Running, TokenHolds, SameLease
<1> QED
  BY <1>3, <1>4 DEF Held, TokenHolds, SameLease, Scheduled
(* A claim that ends takes with it at most its own row: under the token, no *)
(* other claim on that row is running.                                      *)
LEMMA ClaimEnds ==
  ASSUME ClaimInv, RefetchTypeOK', RecordedFresh', UNCHANGED <<now, claimant>>,
         NEW w \in Worker, claim[w] # NoClaim, claim' = [claim EXCEPT ![w] = NoClaim],
         \/ schedule' = schedule
         \/ /\ TokenHolds(claim[w])
            /\ \A u \in Link \ {claim[w].link} : schedule'[u] = schedule[u]
  PROVE  ClaimInv'
<1>1. SUFFICES ASSUME NEW v \in Worker, Running(v)' PROVE Held(v)'
  BY DEF ClaimInv
<1>2. v # w /\ claim'[v] = claim[v]
  BY <1>1 DEF Running, ClaimInv, RefetchTypeOK
<1>3. Running(v) /\ Held(v) /\ claim[v].link \in Link
  BY <1>1, <1>2, Typed DEF Running, ClaimInv, RefetchTypeOK, Claim
<1>4. schedule'[claim[v].link] = schedule[claim[v].link]
  <2>1. SUFFICES ASSUME TokenHolds(claim[w]), claim[v].link = claim[w].link PROVE FALSE
    BY <1>3
  <2>2. claim[w].lease = claim[v].lease
    BY <1>3, <2>1 DEF Held, TokenHolds, SameLease
  <2>3. Running(w)
    BY <1>3, <2>2 DEF Running
  <2> QED
    BY <1>2, <1>3, <2>1, <2>3 DEF ClaimInv, Held
<1> QED
  BY <1>2, <1>3, <1>4 DEF Held, TokenHolds, SameLease, Scheduled

LEMMA SettledTyped ==
  ASSUME RefetchTypeOK
  PROVE  /\ Settled \in [Link -> Row \cup {Unscheduled}]
         /\ \A u \in Link : Scheduled(u) /\ schedule[u].lease > now => Settled[u] = schedule[u]
         /\ \A u \in Link : Young(u) => Settled[u] = schedule[u]
<1>1. ASSUME NEW u \in Link, Overage(u)
      PROVE  [schedule[u] EXCEPT !.state = "done", !.next = now, !.lease = 0] \in Row
  <2>1. schedule[u] \in Row
    BY <1>1, Typed DEF Overage, Open, Scheduled
  <2>2. 0 \in Int
    OBVIOUS
  <2> QED
    BY <2>1, <2>2, Zenon DEF Row, RefetchTypeOK
<1>2. \A u \in Link : Settled[u] = IF Overage(u) THEN [schedule[u] EXCEPT !.state = "done", !.next = now, !.lease = 0]
                                   ELSE schedule[u]
  BY DEF Settled
<1>3. \A u \in Link : Settled[u] \in Row \cup {Unscheduled}
  BY <1>1, <1>2 DEF RefetchTypeOK
<1>4. Settled \in [Link -> Row \cup {Unscheduled}]
  BY <1>3 DEF Settled
<1>5. \A u \in Link : Scheduled(u) /\ schedule[u].lease > now => ~Overage(u)
  BY DEF Overage, Leased
<1>6. \A u \in Link : Young(u) => ~Overage(u)
  BY Typed, Constants DEF Overage, Young, Age, Open, Scheduled, RefetchTypeOK, Row
<1> QED
  BY <1>2, <1>4, <1>5, <1>6

(* A claim is given on a row no running lease covers. *)
LEMMA ClaimRefetchKeeps ==
  ASSUME ClaimInv, NEW w \in Worker, ClaimRefetch(w)
  PROVE  ClaimInv'
<1>1. CASE schedule' = Settled /\ UNCHANGED <<claim, claimant>>
  BY <1>1, RowsKept, SettledTyped DEF ClaimRefetch, ClaimInv, RefetchTypeOK
<1>2. CASE \E u \in MostOverdue :
          /\ schedule' = [Settled EXCEPT ![u].lease = now + ClaimFor]
          /\ claim' = [claim EXCEPT ![w] = [stage |-> "gate", link |-> u, checks |-> schedule[u].checks,
                                            lease |-> now + ClaimFor, body |-> {}]]
          /\ claimant' = [claimant EXCEPT ![u] = w]
  <2>1. PICK u \in MostOverdue :
          /\ schedule' = [Settled EXCEPT ![u].lease = now + ClaimFor]
          /\ claim' = [claim EXCEPT ![w] = [stage |-> "gate", link |-> u, checks |-> schedule[u].checks,
                                            lease |-> now + ClaimFor, body |-> {}]]
          /\ claimant' = [claimant EXCEPT ![u] = w]
    BY <1>2
  <2> DEFINE row == [schedule[u] EXCEPT !.lease = now + ClaimFor]
             held == [stage |-> "gate", link |-> u, checks |-> schedule[u].checks,
                      lease |-> now + ClaimFor, body |-> {}]
  <2>2. u \in Link /\ schedule[u] \in Row /\ schedule[u].lease <= now /\ Young(u)
    BY Typed DEF MostOverdue, Claimable, Open, Scheduled, Leased, ClaimInv, RefetchTypeOK, Row
  <2>3. now \in Int /\ now + ClaimFor \in Int /\ now + ClaimFor > now /\ schedule[u].checks \in Int
    BY <2>2, Constants DEF ClaimInv, RefetchTypeOK, Row
  <2>4. Settled[u] = schedule[u]
    BY <2>2, SettledTyped DEF ClaimInv
  <2>5. row \in Row
    BY <2>2, <2>3, Zenon DEF Row
  <2>6. row.lease = now + ClaimFor /\ row.checks = schedule[u].checks /\ row.first = schedule[u].first
    BY <2>2 DEF Row
  <2>7. schedule' = [Settled EXCEPT ![u] = row]
    BY <2>1, <2>4
  <2>8. held \in Claim
    BY <2>2, <2>3 DEF Claim
  <2>9. held # NoClaim /\ held.link = u /\ held.lease = now + ClaimFor /\ held.checks = schedule[u].checks
    BY DEF NoClaim
  <2>10. claim' = [claim EXCEPT ![w] = held]
    BY <2>1
  <2> HIDE DEF row, held
  <2>11. RefetchTypeOK'
    <3>1. schedule' \in [Link -> Row \cup {Unscheduled}]
      BY <2>5, <2>7, SettledTyped DEF ClaimInv
    <3>2. claim' \in [Worker -> Claim \cup {NoClaim}]
      BY <2>8, <2>10 DEF ClaimInv, RefetchTypeOK
    <3>3. claimant' \in [Link -> Worker \cup {NoClaimant}]
      BY <2>1 DEF ClaimInv, RefetchTypeOK
    <3> QED
      BY <3>1, <3>2, <3>3 DEF ClaimRefetch, ClaimInv, RefetchTypeOK
  <2>12. schedule'[u] = row /\ \A t \in Link \ {u} : schedule'[t] = Settled[t]
    BY <2>2, <2>7, SettledTyped DEF ClaimInv
  <2>13. ASSUME NEW v \in Worker, Running(v)' PROVE Held(v)'
    <3>1. CASE v = w
      <4>1. claim'[v] = held /\ claimant'[u] = w /\ now' = now
        BY <2>1, <2>2, <2>10, <3>1 DEF ClaimInv, RefetchTypeOK, ClaimRefetch
      <4>2. now + ClaimFor - schedule[u].first < MaxAge + ClaimFor
        BY <2>2, Constants DEF Young, Age, ClaimInv, RefetchTypeOK, Row
      <4>3. schedule'[u].state # "none"
        BY <2>5, <2>12 DEF Row
      <4>4. schedule'[u].checks = claim'[v].checks /\ schedule'[u].lease = claim'[v].lease
        BY <2>6, <2>9, <2>12, <4>1
      <4>5. /\ claim'[v].lease = now + ClaimFor /\ claim'[v].link = u
            /\ schedule'[u].first = schedule[u].first
        BY <2>6, <2>9, <2>12, <4>1
      <4>6. claim'[v].lease - schedule'[u].first < MaxAge + ClaimFor
        BY <2>2, <2>3, <4>2, <4>5, Constants DEF Row
      <4> QED
        BY <3>1, <4>1, <4>3, <4>4, <4>5, <4>6 DEF Held, TokenHolds, SameLease, Scheduled
    <3>2. CASE v # w
      <4>1. claim'[v] = claim[v] /\ now' = now
        BY <2>1, <3>2 DEF ClaimInv, RefetchTypeOK, ClaimRefetch
      <4>2. Running(v) /\ Held(v) /\ claim[v] \in Claim /\ claim[v].link \in Link
        BY <2>13, <4>1, Typed DEF Running, ClaimInv, RefetchTypeOK, Claim
      <4>3. schedule[claim[v].link].lease > now /\ Scheduled(claim[v].link)
        BY <4>2 DEF Running, Held, TokenHolds, SameLease
      <4>4. claim[v].link # u
        BY <2>2, <4>3 DEF ClaimInv, RefetchTypeOK, Row
      <4>5. /\ schedule'[claim[v].link] = schedule[claim[v].link]
            /\ claimant'[claim[v].link] = claimant[claim[v].link]
        BY <2>1, <2>12, <4>2, <4>3, <4>4, SettledTyped DEF ClaimInv, RefetchTypeOK
      <4> QED
        BY <4>1, <4>2, <4>5 DEF Held, TokenHolds, SameLease, Scheduled
    <3> QED
      BY <3>1, <3>2
  <2> QED
    BY <2>11, <2>13 DEF ClaimInv, ClaimRefetch, RecordedFresh
<1> QED
  BY <1>1, <1>2 DEF ClaimRefetch

(* A seed fills only the place of a row that is not there. *)
LEMMA SeedKeeps ==
  ASSUME ClaimInv, Seed
  PROVE  ClaimInv'
<1>1. PICK c \in captured :
        LET row == {r \in FirstRow(c.link) : r.body = c.body}
            first == (CHOOSE r \in row : TRUE).first
            plan == NextRefetch(first, now, 0)
        IN schedule' = IF row = {} \/ Scheduled(c.link) THEN schedule
                       ELSE [schedule EXCEPT ![c.link] =
                              [state |-> plan.state, first |-> first, next |-> plan.next, lease |-> 0,
                               checks |-> 0, failures |-> 0, last |-> first]]
  BY DEF Seed
<1> DEFINE row == {r \in FirstRow(c.link) : r.body = c.body}
           first == (CHOOSE r \in row : TRUE).first
           plan == NextRefetch(first, now, 0)
           new == [state |-> plan.state, first |-> first, next |-> plan.next, lease |-> 0,
                   checks |-> 0, failures |-> 0, last |-> first]
<1>2. CASE row = {} \/ Scheduled(c.link)
  <2>1. schedule' = schedule
    BY <1>1, <1>2
  <2>2. RefetchTypeOK' /\ now \in Int
    BY <2>1 DEF Seed, ClaimInv, RefetchTypeOK
  <2> QED
    BY <2>1, <2>2, RowsKept DEF Seed
<1>3. CASE row # {} /\ ~Scheduled(c.link)
  <2>1. first \in Int
    <3>1. (CHOOSE r \in row : TRUE) \in sample
      BY <1>3 DEF FirstRow, FetchedAt
    <3> QED
      BY <3>1 DEF ClaimInv, RefetchTypeOK
  <2>2. plan.next \in Int /\ plan.state \in {"active", "offline", "done"}
    <3> HIDE DEF first
    <3> QED
      BY <2>1, PlanTyped DEF ClaimInv, RefetchTypeOK
  <2>3. schedule' = [schedule EXCEPT ![c.link] = new]
    BY <1>1, <1>3
  <2> HIDE DEF plan, first
  <2>4. new \in Row
    BY <2>1, <2>2 DEF Row
  <2> HIDE DEF new
  <2>5. RefetchTypeOK'
    BY <2>3, <2>4 DEF Seed, ClaimInv, RefetchTypeOK
  <2>6. \A u \in Link : Scheduled(u) => schedule'[u] = schedule[u]
    BY <1>3, <2>3 DEF ClaimInv, RefetchTypeOK
  <2>7. oldest' = oldest /\ UNCHANGED <<claim, claimant>> /\ now' = now
    BY DEF Seed
  <2>8. now' >= now
    BY <2>7 DEF ClaimInv, RefetchTypeOK
  <2> QED
    BY <2>5, <2>6, <2>7, <2>8, RowsKept
<1> QED
  BY <1>2, <1>3

(* A check is recorded under the token and inside the lease, so the age of *)
(* the URL is still below the limit the lease was given under.             *)
LEMMA AdvanceKeeps ==
  ASSUME ClaimInv, NEW w \in Worker, claim[w] # NoClaim, Recordable(claim[w]),
         NEW row \in Row, schedule' = [schedule EXCEPT ![claim[w].link] = row]
  PROVE  /\ schedule' \in [Link -> Row \cup {Unscheduled}]
         /\ \A u \in Link \ {claim[w].link} : schedule'[u] = schedule[u]
         /\ Age(claim[w].link) \in Int /\ Age(claim[w].link) < MaxAge + ClaimFor
<1> DEFINE u == claim[w].link
<1>1. u \in Link /\ claim[w] \in Claim
  BY Typed DEF ClaimInv, RefetchTypeOK, Claim
<1>2. schedule[u] \in Row
  BY <1>1, Typed DEF Recordable, TokenHolds, ClaimInv
<1>3. /\ schedule' \in [Link -> Row \cup {Unscheduled}]
      /\ \A t \in Link \ {u} : schedule'[t] = schedule[t]
  BY <1>1 DEF ClaimInv, RefetchTypeOK
<1>4. claim[w].lease = schedule[u].lease /\ schedule[u].lease > now
  BY DEF Recordable, TokenHolds, SameLease, Leased
<1>5. claim[w].lease - schedule[u].first < MaxAge + ClaimFor
  BY <1>4 DEF ClaimInv, Running, Held
<1>6. now \in Int /\ claim[w].lease \in Int /\ schedule[u].first \in Int /\ claim[w].lease > now
  BY <1>1, <1>2, <1>4 DEF ClaimInv, RefetchTypeOK, Row, Claim
<1>7. now - schedule[u].first \in Int /\ now - schedule[u].first < MaxAge + ClaimFor
  BY <1>5, <1>6, Constants
<1> QED
  BY <1>3, <1>7 DEF Age

LEMMA CompleteRefetchKeeps ==
  ASSUME ClaimInv, NEW w \in Worker, CompleteRefetch(w)
  PROVE  ClaimInv'
<1>1. claim[w] # NoClaim /\ claim[w] \in Claim /\ claim[w].link \in Link
  BY Typed DEF CompleteRefetch, NoClaim, ClaimInv, Claim
<1>2. claim' \in [Worker -> Claim \cup {NoClaim}]
  BY DEF CompleteRefetch, ClaimInv, RefetchTypeOK
<1> DEFINE u == claim[w].link
           rows == UNION {WithBody(u, b) : b \in claim[w].body}
<1>3. CASE Recordable(claim[w])
  <2>1. /\ sample' = rows
        /\ schedule' = [schedule EXCEPT ![u] = Advanced(schedule[u], 0, rows # sample /\ Full(u, rows))]
        /\ oldest' = Max({oldest, Age(u)})
    BY <1>3 DEF CompleteRefetch
  <2> DEFINE stop == rows # sample /\ Full(u, rows)
             new == Advanced(schedule[u], 0, stop)
  <2>2. new \in Row
    <3>1. stop \in BOOLEAN /\ 0 \in Int
      OBVIOUS
    <3>2. schedule[u] \in Row
      BY <1>1, <1>3, Typed DEF Recordable, TokenHolds, ClaimInv
    <3> HIDE DEF stop
    <3> QED
      BY <3>1, <3>2, AdvancedTyped DEF ClaimInv
  <2>3. /\ schedule' \in [Link -> Row \cup {Unscheduled}]
        /\ \A t \in Link \ {claim[w].link} : schedule'[t] = schedule[t]
        /\ Age(claim[w].link) \in Int /\ Age(claim[w].link) < MaxAge + ClaimFor
    <3>1. schedule' = [schedule EXCEPT ![claim[w].link] = new]
      BY <2>1
    <3> HIDE DEF new
    <3> QED
      BY <1>1, <1>3, <2>2, <3>1, AdvanceKeeps
  <2>4. oldest' \in {oldest, Age(u)}
    BY <2>1, <2>3, MaxOfTwo DEF ClaimInv, RefetchTypeOK
  <2>5. ASSUME NEW r \in sample' PROVE r.first \in Int /\ r.body \in Body
    <3>1. PICK b \in claim[w].body : r \in WithBody(u, b)
      BY <2>1, <2>5
    <3>2. FirstSeen(u) \in Int
      <4>1. CASE FirstRow(u) = {}
        BY <1>1, <1>3, <4>1, Typed DEF FirstSeen, Recordable, TokenHolds, Row, ClaimInv
      <4>2. CASE FirstRow(u) # {}
        <5>1. (CHOOSE x \in FirstRow(u) : TRUE) \in sample
          BY <4>2 DEF FirstRow, FetchedAt
        <5> QED
          BY <4>2, <5>1 DEF FirstSeen, ClaimInv, RefetchTypeOK
      <4> QED
        BY <4>1, <4>2
    <3>3. r \in sample \/ (r.first = FirstSeen(u) /\ r.body = b)
      BY <3>1 DEF WithBody
    <3>4. b \in Body
      BY <1>1 DEF Claim
    <3> QED
      BY <3>2, <3>3, <3>4 DEF ClaimInv, RefetchTypeOK
  <2> HIDE DEF rows, u
  <2>6. RefetchTypeOK' /\ RecordedFresh'
    BY <1>2, <2>3, <2>4, <2>5 DEF CompleteRefetch, ClaimInv, RefetchTypeOK, RecordedFresh, u
  <2> QED
    BY <1>1, <1>3, <2>3, <2>6, ClaimEnds DEF CompleteRefetch, Recordable
<1>4. CASE ~Recordable(claim[w])
  <2>1. UNCHANGED <<rowVars, oldest>>
    BY <1>4 DEF CompleteRefetch
  <2>2. RefetchTypeOK' /\ RecordedFresh'
    BY <1>2, <2>1 DEF CompleteRefetch, ClaimInv, RefetchTypeOK, RecordedFresh, rowVars
  <2> QED
    BY <1>1, <2>1, <2>2, ClaimEnds DEF CompleteRefetch, rowVars
<1> QED
  BY <1>3, <1>4

LEMMA FailedCheckKeeps ==
  ASSUME ClaimInv, NEW w \in Worker, FailedCheck(w)
  PROVE  ClaimInv'
<1>1. claim[w] # NoClaim /\ claim[w] \in Claim /\ claim[w].link \in Link
  BY Typed DEF FailedCheck, NoClaim, ClaimInv, Claim
<1>2. claim' \in [Worker -> Claim \cup {NoClaim}] /\ UNCHANGED <<now, sample, captured, oldest, claimant>>
  BY DEF FailedCheck, ClaimInv, RefetchTypeOK, refetchHistory
<1> DEFINE u == claim[w].link
           new == Advanced(schedule[u], schedule[u].failures + 1, FALSE)
<1>3. CASE Recordable(claim[w])
  <2>1. schedule[u] \in Row
    BY <1>1, <1>3, Typed DEF Recordable, TokenHolds, ClaimInv
  <2>2. schedule[u].failures + 1 \in Int /\ FALSE \in BOOLEAN
    BY <2>1 DEF Row
  <2>3. new \in Row
    BY <2>1, <2>2, AdvancedTyped DEF ClaimInv
  <2>4. schedule' = [schedule EXCEPT ![claim[w].link] = new]
    BY <1>3 DEF FailedCheck
  <2> HIDE DEF new
  <2>5. /\ schedule' \in [Link -> Row \cup {Unscheduled}]
        /\ \A t \in Link \ {claim[w].link} : schedule'[t] = schedule[t]
    BY <1>1, <1>3, <2>3, <2>4, AdvanceKeeps
  <2>6. RefetchTypeOK' /\ RecordedFresh'
    BY <1>2, <2>5 DEF ClaimInv, RefetchTypeOK, RecordedFresh
  <2> QED
    BY <1>1, <1>2, <1>3, <2>5, <2>6, ClaimEnds DEF FailedCheck, Recordable
<1>4. CASE ~Recordable(claim[w])
  <2>1. schedule' = schedule
    BY <1>4 DEF FailedCheck
  <2>2. RefetchTypeOK' /\ RecordedFresh'
    BY <1>2, <2>1 DEF ClaimInv, RefetchTypeOK, RecordedFresh
  <2> QED
    BY <1>1, <1>2, <2>1, <2>2, ClaimEnds DEF FailedCheck
<1> QED
  BY <1>3, <1>4

LEMMA ReleaseRefetchKeeps ==
  ASSUME ClaimInv, NEW w \in Worker, ReleaseRefetch(w)
  PROVE  ClaimInv'
<1>1. claim[w] # NoClaim /\ claim[w] \in Claim /\ claim[w].link \in Link
  BY Typed DEF ReleaseRefetch, NoClaim, ClaimInv, Claim
<1>2. claim' \in [Worker -> Claim \cup {NoClaim}] /\ UNCHANGED <<now, sample, captured, oldest, claimant>>
  BY DEF ReleaseRefetch, ClaimInv, RefetchTypeOK, refetchHistory
<1> DEFINE u == claim[w].link
           new == [schedule[u] EXCEPT !.lease = 0, !.next = now + ReleaseDelay]
<1>3. CASE TokenHolds(claim[w])
  <2>1. schedule[u] \in Row
    BY <1>1, <1>3, Typed DEF TokenHolds, ClaimInv
  <2>2. now + ReleaseDelay \in Int /\ 0 \in Int
    BY Constants DEF ClaimInv, RefetchTypeOK
  <2>3. new \in Row
    BY <2>1, <2>2, Zenon DEF Row
  <2>4. schedule' = [schedule EXCEPT ![u] = new]
    BY <1>1, <1>3 DEF ReleaseRefetch, ClaimInv, RefetchTypeOK
  <2> HIDE DEF new
  <2>5. /\ schedule' \in [Link -> Row \cup {Unscheduled}]
        /\ \A t \in Link \ {claim[w].link} : schedule'[t] = schedule[t]
    BY <1>1, <2>3, <2>4 DEF ClaimInv, RefetchTypeOK
  <2>6. RefetchTypeOK' /\ RecordedFresh'
    BY <1>2, <2>5 DEF ClaimInv, RefetchTypeOK, RecordedFresh
  <2> QED
    BY <1>1, <1>2, <1>3, <2>5, <2>6, ClaimEnds DEF ReleaseRefetch
<1>4. CASE ~TokenHolds(claim[w])
  <2>1. schedule' = schedule
    BY <1>4 DEF ReleaseRefetch
  <2>2. RefetchTypeOK' /\ RecordedFresh'
    BY <1>2, <2>1 DEF ClaimInv, RefetchTypeOK, RecordedFresh
  <2> QED
    BY <1>1, <1>2, <2>1, <2>2, ClaimEnds DEF ReleaseRefetch
<1> QED
  BY <1>3, <1>4

LEMMA AbandonKeeps ==
  ASSUME ClaimInv, NEW w \in Worker, Abandon(w)
  PROVE  ClaimInv'
<1>1. UNCHANGED <<now, sample, schedule, oldest, claimant>>
  BY DEF Abandon, rowVars, refetchHistory
<1>2. RefetchTypeOK' /\ RecordedFresh'
  BY <1>1 DEF Abandon, ClaimInv, RefetchTypeOK, RecordedFresh
<1> QED
  BY <1>1, <1>2, ClaimEnds DEF Abandon

(* A claim that only goes on to its next stage. *)
LEMMA StageKeeps ==
  ASSUME ClaimInv, NEW w \in Worker, claim[w] \in Claim, NEW c \in Claim,
         c.link = claim[w].link, c.checks = claim[w].checks, c.lease = claim[w].lease,
         claim' = [claim EXCEPT ![w] = c],
         UNCHANGED <<now, sample, schedule, captured, oldest, claimant>>
  PROVE  ClaimInv'
<1>1. RefetchTypeOK' /\ RecordedFresh'
  BY DEF ClaimInv, RefetchTypeOK, RecordedFresh
<1>2. ASSUME NEW v \in Worker, Running(v)' PROVE Held(v)'
  <2>1. CASE v = w
    <3>1. claim'[v] = c
      BY <2>1 DEF ClaimInv, RefetchTypeOK
    <3>2. Running(v)
      BY <1>2, <2>1, <3>1, Typed DEF Running, ClaimInv
    <3>3. Held(v)
      BY <3>2 DEF ClaimInv
    <3> QED
      BY <2>1, <3>1, <3>3 DEF Held, TokenHolds, SameLease, Scheduled
  <2>2. CASE v # w
    <3>1. claim'[v] = claim[v]
      BY <2>2 DEF ClaimInv, RefetchTypeOK
    <3>2. Held(v)
      BY <1>2, <3>1 DEF Running, ClaimInv
    <3> QED
      BY <3>1, <3>2 DEF Held, TokenHolds, SameLease, Scheduled
  <2> QED
    BY <2>1, <2>2
<1> QED
  BY <1>1, <1>2 DEF ClaimInv

LEMMA BeginFetchKeeps ==
  ASSUME ClaimInv, NEW w \in Worker, BeginFetch(w)
  PROVE  ClaimInv'
<1> DEFINE c == [claim[w] EXCEPT !.stage = "fetch"]
<1>1. claim[w] \in Claim
  BY Typed DEF BeginFetch, NoClaim, ClaimInv
<1>2. c \in Claim /\ c.link = claim[w].link /\ c.checks = claim[w].checks /\ c.lease = claim[w].lease
  BY <1>1 DEF Claim
<1>3. claim' = [claim EXCEPT ![w] = c] /\ UNCHANGED <<now, sample, schedule, captured, oldest, claimant>>
  BY DEF BeginFetch, rowVars, refetchHistory
<1> HIDE DEF c
<1> QED
  BY <1>1, <1>2, <1>3, StageKeeps

(* What a host may serve is a file content. *)
LEMMA AnswersTyped ==
  ASSUME RefetchTypeOK
  PROVE  Answers \subseteq Body
<1>1. Served \subseteq Body
  <2>1. ASSUME NEW w \in {v \in Worker : claim[v] # NoClaim} PROVE claim[w].body \subseteq Body
    BY Typed DEF Claim
  <2> QED
    BY <2>1 DEF Served, RefetchTypeOK
<1>2. CASE ~(Body \subseteq Served)
  <2>1. Body \ Served \in SUBSET Nat /\ Body \ Served # {}
    BY <1>2, RefetchAssumption
  <2>2. Min(Body \ Served) \in Body \ Served
    BY <2>1, NatMin
  <2> QED
    BY <1>1, <2>2 DEF Answers
<1> QED
  BY <1>1, <1>2 DEF Answers

LEMMA PublishBodyKeeps ==
  ASSUME ClaimInv, NEW w \in Worker, NEW b \in Answers, PublishBody(w, b)
  PROVE  ClaimInv'
<1> DEFINE c == [claim[w] EXCEPT !.stage = "record", !.body = {b}]
<1>1. claim[w] \in Claim /\ b \in Body
  BY Typed, AnswersTyped DEF PublishBody, NoClaim, ClaimInv
<1>2. c \in Claim /\ c.link = claim[w].link /\ c.checks = claim[w].checks /\ c.lease = claim[w].lease
  <2>1. {b} \in SUBSET Body
    BY <1>1
  <2>2. c \in Claim
    BY <1>1, <2>1, Zenon DEF Claim
  <2> QED
    BY <1>1, <2>2 DEF Claim
<1>3. claim' = [claim EXCEPT ![w] = c] /\ UNCHANGED <<now, sample, schedule, captured, oldest, claimant>>
  BY <1>1 DEF PublishBody, rowVars, refetchHistory, ClaimInv, RefetchTypeOK
<1> HIDE DEF c
<1> QED
  BY <1>1, <1>2, <1>3, StageKeeps

LEMMA TickKeeps ==
  ASSUME ClaimInv, Tick
  PROVE  ClaimInv'
<1>1. now' \in Int /\ now' >= now
  BY DEF Tick, ClaimInv, RefetchTypeOK
<1>2. UNCHANGED <<sample, schedule, claim, captured, oldest, claimant>>
  BY DEF Tick, rowVars, refetchHistory
<1>3. RefetchTypeOK'
  BY <1>1, <1>2 DEF ClaimInv, RefetchTypeOK
<1> QED
  BY <1>1, <1>2, <1>3, RowsKept

LEMMA FirstCaptureKeeps ==
  ASSUME ClaimInv, NEW u \in Link, NEW b \in Answers, NEW depth \in {0, 1},
         NEW ago \in {0, FirstPhase}, FirstCapture(u, b, depth, ago)
  PROVE  ClaimInv'
<1>1. b \in Body /\ now \in Int /\ now - ago \in Int
  BY AnswersTyped, Constants DEF ClaimInv, RefetchTypeOK
<1>2. UNCHANGED <<now, schedule, claim, oldest, claimant>>
  BY DEF FirstCapture
<1>3. \A r \in sample' : r.first \in Int /\ r.body \in Body
  BY <1>1 DEF FirstCapture, ClaimInv, RefetchTypeOK
<1>4. \A c \in captured' : c.body \in Body
  BY <1>1 DEF FirstCapture, ClaimInv, RefetchTypeOK
<1>5. RefetchTypeOK'
  BY <1>2, <1>3, <1>4 DEF ClaimInv, RefetchTypeOK
<1> QED
  BY <1>1, <1>2, <1>5, RowsKept

LEMMA PurgeArtifactsKeeps ==
  ASSUME ClaimInv, PurgeArtifacts
  PROVE  ClaimInv'
<1>1. UNCHANGED <<now, schedule, claim, captured, oldest, claimant>> /\ sample' \subseteq sample
  BY DEF PurgeArtifacts, refetchHistory
<1>2. RefetchTypeOK' /\ now \in Int
  BY <1>1 DEF ClaimInv, RefetchTypeOK
<1> QED
  BY <1>1, <1>2, RowsKept

LEMMA PurgeRefetchScheduleKeeps ==
  ASSUME ClaimInv, PurgeRefetchSchedule
  PROVE  ClaimInv'
<1>1. UNCHANGED <<now, sample, claim, captured, oldest, claimant>>
  BY DEF PurgeRefetchSchedule, refetchHistory
<1>2. PICK cutoff \in purging :
        schedule' = [u \in Link |-> IF Purgeable(u, cutoff) THEN Unscheduled ELSE schedule[u]]
  BY DEF PurgeRefetchSchedule
<1>3. schedule' \in [Link -> Row \cup {Unscheduled}]
  BY <1>2 DEF ClaimInv, RefetchTypeOK
<1>4. \A u \in Link : schedule[u].lease > now => schedule'[u] = schedule[u]
  BY <1>2 DEF Purgeable, Leased
<1>5. RefetchTypeOK' /\ now \in Int
  BY <1>1, <1>3 DEF ClaimInv, RefetchTypeOK
<1> QED
  BY <1>1, <1>4, <1>5, RowsKept

-----------------------------------------------------------------------------
LEMMA InitClaim == RefetchInit => ClaimInv
<1>1. SUFFICES ASSUME RefetchInit PROVE ClaimInv
  OBVIOUS
<1>2. RefetchTypeOK
  BY <1>1 DEF RefetchInit, RefetchTypeOK
<1>3. RecordedFresh
  BY <1>1, Constants DEF RefetchInit, RecordedFresh
<1> QED
  BY <1>1, <1>2, <1>3 DEF RefetchInit, ClaimInv, Running

LEMMA NextClaim == ClaimInv /\ [RefetchNext]_refetchVars => ClaimInv'
<1>1. SUFFICES ASSUME ClaimInv, [RefetchNext]_refetchVars PROVE ClaimInv'
  OBVIOUS
<1>2. CASE UNCHANGED refetchVars
  BY <1>1, <1>2, RowsKept DEF refetchVars, rowVars, refetchHistory, ClaimInv, RefetchTypeOK
<1>3. CASE Tick
  BY <1>1, <1>3, TickKeeps
<1>4. CASE Seed
  BY <1>1, <1>4, SeedKeeps
<1>5. ASSUME NEW u \in Link, NEW b \in Answers, NEW depth \in {0, 1}, NEW ago \in {0, FirstPhase},
             FirstCapture(u, b, depth, ago)
      PROVE  ClaimInv'
  BY <1>1, <1>5, FirstCaptureKeeps
<1>6. ASSUME NEW w \in Worker, RefetchStep(w) \/ ReleaseRefetch(w) \/ Abandon(w)
      PROVE  ClaimInv'
  BY <1>1, <1>6, ClaimRefetchKeeps, BeginFetchKeeps, CompleteRefetchKeeps, FailedCheckKeeps,
     PublishBodyKeeps, ReleaseRefetchKeeps, AbandonKeeps DEF RefetchStep
<1>7. CASE PurgeArtifacts
  BY <1>1, <1>7, PurgeArtifactsKeeps
<1>8. CASE PurgeRefetchSchedule
  BY <1>1, <1>8, PurgeRefetchScheduleKeeps
<1> QED
  BY <1>1, <1>2, <1>3, <1>4, <1>5, <1>6, <1>7, <1>8 DEF RefetchNext

LEMMA ClaimsHeld == RefetchSpec => []ClaimInv
BY InitClaim, NextClaim, PTL DEF RefetchSpec

(* However long rows lie overdue, and whoever takes a lapsed lease over:   *)
(* CompleteRefetch records a payload only while the URL is younger than    *)
(* MaxAge and one lease (ClaimRefetch settles older rows first).           *)
THEOREM NothingRecordedLate == RefetchSpec => []RecordedFresh
<1>1. ClaimInv => RecordedFresh
  BY DEF ClaimInv
<1> QED
  BY <1>1, ClaimsHeld, PTL

(* The token outlives the lease: as long as the row carries a claim's      *)
(* token, lapsed or not, that claim was the last one on it.  A row without *)
(* a lease has 0 there, and no claim does.                                 *)
Tokened(w) ==
  claim[w] # NoClaim =>
    claim[w].lease > 0 /\ (TokenHolds(claim[w]) => claimant[claim[w].link] = w)
TokenInv == ClaimInv /\ now >= 0 /\ \A w \in Worker : Tokened(w)

(* A claim that is there after the step is there before it. *)
ClaimsStay ==
  \A w \in Worker :
    claim'[w] # NoClaim =>
      /\ claim[w] # NoClaim /\ claim'[w].link = claim[w].link
      /\ claim'[w].checks = claim[w].checks /\ claim'[w].lease = claim[w].lease

LEMMA TokensStay ==
  ASSUME TokenInv, ClaimInv', now' >= now, claimant' = claimant, ClaimsStay,
         \A u \in Link : schedule'[u] \in {schedule[u], Unscheduled} \/ schedule'[u].lease = 0
  PROVE  TokenInv'
<1>1. ASSUME NEW w \in Worker PROVE Tokened(w)'
  <2>1. SUFFICES ASSUME claim'[w] # NoClaim
                 PROVE  claim'[w].lease > 0 /\ (TokenHolds(claim[w])' => claimant'[claim'[w].link] = w)
    BY DEF Tokened
  <2>2. /\ claim[w] # NoClaim /\ claim'[w].link = claim[w].link
        /\ claim'[w].checks = claim[w].checks /\ claim'[w].lease = claim[w].lease
    BY <2>1 DEF ClaimsStay
  <2>3. claim[w].lease > 0 /\ claim[w] \in Claim /\ claim[w].link \in Link
    BY <2>2, Typed DEF TokenInv, Tokened, ClaimInv, Claim
  <2>4. ASSUME TokenHolds(claim[w])' PROVE TokenHolds(claim[w])
    <3>1. schedule'[claim[w].link].state # "none" /\ schedule'[claim[w].link].lease = claim[w].lease
      BY <2>2, <2>4 DEF TokenHolds, SameLease, Scheduled
    <3>2. schedule'[claim[w].link] = schedule[claim[w].link]
      BY <2>3, <3>1 DEF Unscheduled, Claim
    <3> QED
      BY <2>2, <2>4, <3>2 DEF TokenHolds, SameLease, Scheduled
  <2> QED
    BY <2>2, <2>3, <2>4 DEF TokenInv, Tokened
<1>2. now' >= 0
  BY DEF TokenInv, ClaimInv, RefetchTypeOK
<1> QED
  BY <1>1, <1>2 DEF TokenInv

(* A claim is given only where no lease runs, so its lease ends later than *)
(* that of any claim there was on the row.                                 *)
LEMMA ClaimRefetchTokens ==
  ASSUME TokenInv, ClaimInv', NEW w \in Worker, ClaimRefetch(w)
  PROVE  TokenInv'
<1>1. now' = now /\ now \in Int /\ now >= 0 /\ claim[w] = NoClaim
  BY DEF ClaimRefetch, TokenInv, ClaimInv, RefetchTypeOK
<1>2. \A u \in Link : Settled[u] = schedule[u] \/ Settled[u].lease = 0
  <2>1. ASSUME NEW u \in Link, Overage(u) PROVE Settled[u].lease = 0
    <3>1. schedule[u] \in Row
      BY <2>1, Typed DEF Overage, Open, Scheduled, TokenInv, ClaimInv
    <3> QED
      BY <2>1, <3>1 DEF Settled, Row
  <2>2. \A u \in Link : ~Overage(u) => Settled[u] = schedule[u]
    BY DEF Settled
  <2> QED
    BY <2>1, <2>2
<1>3. CASE schedule' = Settled /\ UNCHANGED <<claim, claimant>>
  BY <1>1, <1>2, <1>3, TokensStay DEF ClaimsStay
<1>4. CASE \E u \in MostOverdue :
          /\ schedule' = [Settled EXCEPT ![u].lease = now + ClaimFor]
          /\ claim' = [claim EXCEPT ![w] = [stage |-> "gate", link |-> u, checks |-> schedule[u].checks,
                                            lease |-> now + ClaimFor, body |-> {}]]
          /\ claimant' = [claimant EXCEPT ![u] = w]
  <2>1. PICK u \in MostOverdue :
          /\ schedule' = [Settled EXCEPT ![u].lease = now + ClaimFor]
          /\ claim' = [claim EXCEPT ![w] = [stage |-> "gate", link |-> u, checks |-> schedule[u].checks,
                                            lease |-> now + ClaimFor, body |-> {}]]
          /\ claimant' = [claimant EXCEPT ![u] = w]
    BY <1>4
  <2>2. u \in Link /\ schedule[u] \in Row /\ schedule[u].lease <= now /\ Young(u)
    BY Typed DEF MostOverdue, Claimable, Open, Scheduled, Leased, TokenInv, ClaimInv, RefetchTypeOK, Row
  <2>3. Settled[u] = schedule[u] /\ Settled \in [Link -> Row \cup {Unscheduled}]
    BY <2>2, SettledTyped DEF TokenInv, ClaimInv
  <2>4. schedule'[u].lease = now + ClaimFor /\ \A t \in Link \ {u} : schedule'[t] = Settled[t]
    BY <2>1, <2>2, <2>3 DEF Row
  <2>5. /\ claimant'[u] = w /\ \A t \in Link \ {u} : claimant'[t] = claimant[t]
        /\ claim'[w].link = u /\ claim'[w].lease = now + ClaimFor
        /\ \A v \in Worker \ {w} : claim'[v] = claim[v]
    BY <2>1, <2>2 DEF TokenInv, ClaimInv, RefetchTypeOK
  <2>6. Tokened(w)'
    BY <1>1, <2>5, Constants DEF Tokened
  <2>7. ASSUME NEW v \in Worker \ {w}, claim[v] # NoClaim PROVE Tokened(v)'
    <3>1. /\ claim'[v] = claim[v] /\ claim[v] \in Claim /\ claim[v].link \in Link
          /\ claim[v].lease > 0 /\ claim[v].lease \in Int
      BY <2>5, <2>7, Typed DEF TokenInv, Tokened, ClaimInv, Claim
    <3>2. CASE claim[v].link = u
      <4>1. claim[v].lease <= now
        <5>1. SUFFICES ASSUME claim[v].lease > now PROVE FALSE
          BY <1>1, <3>1
        <5>2. TokenHolds(claim[v])
          BY <2>7, <5>1 DEF TokenInv, ClaimInv, Running, Held
        <5> QED
          BY <1>1, <2>2, <3>1, <3>2, <5>1, <5>2 DEF TokenHolds, SameLease, Row
      <4>2. schedule'[u].lease # claim[v].lease
        BY <1>1, <2>4, <3>1, <4>1, Constants
      <4> QED
        BY <3>1, <3>2, <4>2 DEF Tokened, TokenHolds, SameLease
    <3>3. CASE claim[v].link # u
      <4>1. ASSUME TokenHolds(claim[v])' PROVE TokenHolds(claim[v])
        <5>1. schedule'[claim[v].link] = Settled[claim[v].link]
          BY <2>4, <3>1, <3>3
        <5>2. schedule'[claim[v].link].lease = claim[v].lease
          BY <3>1, <4>1 DEF TokenHolds, SameLease
        <5>3. Settled[claim[v].link] = schedule[claim[v].link]
          BY <1>2, <3>1, <5>1, <5>2
        <5> QED
          BY <3>1, <4>1, <5>1, <5>3 DEF TokenHolds, SameLease, Scheduled
      <4> QED
        BY <2>5, <2>7, <3>1, <3>3, <4>1 DEF TokenInv, Tokened
    <3> QED
      BY <3>2, <3>3
  <2>8. ASSUME NEW v \in Worker \ {w}, claim[v] = NoClaim PROVE Tokened(v)'
    BY <2>5, <2>8 DEF Tokened
  <2> QED
    BY <1>1, <2>6, <2>7, <2>8 DEF TokenInv
<1> QED
  BY <1>3, <1>4 DEF ClaimRefetch

(* A claim that ends leaves no lease behind, or the row as it was.         *)
LEMMA EndTokens ==
  ASSUME TokenInv, ClaimInv', NEW w \in Worker, CompleteRefetch(w) \/ FailedCheck(w) \/ ReleaseRefetch(w)
  PROVE  TokenInv'
<1>1. claim' = [claim EXCEPT ![w] = NoClaim] /\ now' = now /\ claimant' = claimant
  BY DEF CompleteRefetch, FailedCheck, ReleaseRefetch, refetchHistory
<1>2. ClaimsStay
  BY <1>1 DEF ClaimsStay, TokenInv, ClaimInv, RefetchTypeOK
<1>3. claim[w].link \in Link
  BY Typed DEF CompleteRefetch, FailedCheck, ReleaseRefetch, TokenInv, ClaimInv, Claim
<1>4. \A t \in Link \ {claim[w].link} : schedule'[t] = schedule[t]
  BY DEF CompleteRefetch, FailedCheck, ReleaseRefetch, rowVars, TokenInv, ClaimInv, RefetchTypeOK
<1>5. schedule' = schedule \/ schedule'[claim[w].link].lease = 0
  <2>1. CASE TokenHolds(claim[w])
    <3>1. schedule[claim[w].link] \in Row /\ DOMAIN schedule = Link
      BY <1>3, <2>1, Typed DEF TokenHolds, TokenInv, ClaimInv, RefetchTypeOK
    <3>2. \A f, stop : Advanced(schedule[claim[w].link], f, stop).lease = 0
      BY <3>1 DEF Advanced, Row
    <3>3. CASE ReleaseRefetch(w)
      BY <1>3, <2>1, <3>1, <3>3 DEF ReleaseRefetch, Row
    <3>4. CASE FailedCheck(w)
      BY <1>3, <3>1, <3>2, <3>4 DEF FailedCheck
    <3>5. CASE CompleteRefetch(w)
      BY <1>3, <3>1, <3>2, <3>5 DEF CompleteRefetch, rowVars
    <3> QED
      BY <3>3, <3>4, <3>5
  <2>2. CASE ~TokenHolds(claim[w])
    BY <2>2 DEF CompleteRefetch, FailedCheck, ReleaseRefetch, Recordable, rowVars
  <2> QED
    BY <2>1, <2>2
<1>6. now' >= now
  BY <1>1 DEF TokenInv, ClaimInv, RefetchTypeOK
<1> QED
  BY <1>1, <1>2, <1>4, <1>5, <1>6, TokensStay

LEMMA NextToken == TokenInv /\ [RefetchNext]_refetchVars => TokenInv'
<1> SUFFICES ASSUME TokenInv, [RefetchNext]_refetchVars PROVE TokenInv'
  OBVIOUS
<1>1. ClaimInv /\ ClaimInv' /\ now \in Int /\ DOMAIN claim = Worker
  BY NextClaim DEF TokenInv, ClaimInv, RefetchTypeOK
<1>2. CASE UNCHANGED refetchVars
  BY <1>1, <1>2, TokensStay DEF refetchVars, rowVars, refetchHistory, ClaimsStay
<1>3. CASE Tick
  BY <1>1, <1>3, TokensStay DEF Tick, rowVars, refetchHistory, ClaimsStay
<1>4. CASE Seed
  <2>1. \A u \in Link : schedule'[u] = schedule[u] \/ schedule'[u].lease = 0
    BY <1>1, <1>4 DEF Seed, ClaimInv, RefetchTypeOK
  <2> QED
    BY <1>1, <1>4, <2>1, TokensStay DEF Seed, ClaimsStay
<1>5. CASE \E u \in Link, b \in Answers, depth \in {0, 1}, ago \in {0, FirstPhase} :
             FirstCapture(u, b, depth, ago)
  BY <1>1, <1>5, TokensStay DEF FirstCapture, ClaimsStay
<1>6. ASSUME NEW w \in Worker, BeginFetch(w) \/ Abandon(w) \/ \E b \in Answers : PublishBody(w, b)
      PROVE  TokenInv'
  <2>1. UNCHANGED <<now, schedule, claimant>>
    BY <1>6 DEF BeginFetch, Abandon, PublishBody, rowVars, refetchHistory
  <2>2. ClaimsStay
    <3>1. CASE Abandon(w)
      BY <1>1, <3>1 DEF Abandon, ClaimsStay
    <3>2. CASE BeginFetch(w)
      <4>1. claim[w] \in Claim /\ claim[w] # NoClaim
        BY <1>1, <3>2, Typed DEF BeginFetch, ClaimInv
      <4>2. \A v \in Worker \ {w} : claim'[v] = claim[v]
        BY <1>1, <3>2 DEF BeginFetch
      <4>3. claim'[w].link = claim[w].link /\ claim'[w].checks = claim[w].checks /\ claim'[w].lease = claim[w].lease
        BY <1>1, <3>2, <4>1 DEF BeginFetch, Claim
      <4> QED
        BY <4>1, <4>2, <4>3 DEF ClaimsStay
    <3>3. CASE \E b \in Answers : PublishBody(w, b)
      <4>1. PICK b \in Answers : PublishBody(w, b)
        BY <3>3
      <4>2. claim[w] \in Claim /\ claim[w] # NoClaim
        BY <1>1, <4>1, Typed DEF PublishBody, ClaimInv
      <4>3. \A v \in Worker \ {w} : claim'[v] = claim[v]
        BY <1>1, <4>1 DEF PublishBody
      <4>4. claim'[w].link = claim[w].link /\ claim'[w].checks = claim[w].checks /\ claim'[w].lease = claim[w].lease
        BY <1>1, <4>1, <4>2 DEF PublishBody, Claim
      <4> QED
        BY <4>2, <4>3, <4>4 DEF ClaimsStay
    <3> QED
      BY <1>6, <3>1, <3>2, <3>3
  <2> QED
    BY <1>1, <2>1, <2>2, TokensStay
<1>7. ASSUME NEW w \in Worker, RefetchStep(w) \/ ReleaseRefetch(w) \/ Abandon(w)
      PROVE  TokenInv'
  BY <1>1, <1>6, <1>7, ClaimRefetchTokens, EndTokens DEF RefetchStep
<1>8. CASE PurgeArtifacts
  BY <1>1, <1>8, TokensStay DEF PurgeArtifacts, refetchHistory, ClaimsStay
<1>9. CASE PurgeRefetchSchedule
  <2>1. UNCHANGED <<now, claim, claimant>>
    BY <1>9 DEF PurgeRefetchSchedule, refetchHistory
  <2>2. \A u \in Link : schedule'[u] \in {schedule[u], Unscheduled}
    BY <1>9 DEF PurgeRefetchSchedule
  <2> QED
    BY <1>1, <2>1, <2>2, TokensStay DEF ClaimsStay
<1> QED
  BY <1>2, <1>3, <1>4, <1>5, <1>7, <1>8, <1>9 DEF RefetchNext

LEMMA TokensHeld == RefetchSpec => []TokenInv
<1>1. RefetchInit => TokenInv
  BY InitClaim DEF RefetchInit, TokenInv, Tokened
<1> QED
  BY <1>1, NextToken, PTL DEF RefetchSpec

LEMMA ClaimantMoves ==
  ASSUME TokenInv, RefetchNext, NEW u \in Link,
         Scheduled(u), schedule'[u] \notin {schedule[u], Unscheduled}
  PROVE  FencedMove(u)
<1>1. ClaimInv /\ schedule[u] \in Row /\ DOMAIN claim = Worker /\ DOMAIN schedule = Link
  BY Typed DEF TokenInv, ClaimInv, RefetchTypeOK
<1>2. ASSUME NEW w \in Worker, CompleteRefetch(w) \/ FailedCheck(w) \/ ReleaseRefetch(w)
      PROVE  FencedMove(u)
  <2>1. claim[w] # NoClaim
    BY <1>1, <1>2, Typed DEF CompleteRefetch, FailedCheck, ReleaseRefetch, ClaimInv
  <2>2. claim'[w] = NoClaim
    BY <1>1, <1>2 DEF CompleteRefetch, FailedCheck, ReleaseRefetch
  <2>3. TokenHolds(claim[w])
    BY <1>2 DEF CompleteRefetch, FailedCheck, ReleaseRefetch, Recordable, rowVars
  <2>4. claim[w].link = u
    BY <1>1, <1>2 DEF CompleteRefetch, FailedCheck, ReleaseRefetch, rowVars
  <2>5. claimant[u] = w
    BY <2>1, <2>3, <2>4 DEF TokenInv, Tokened
  <2> QED
    BY <2>1, <2>2, <2>4, <2>5 DEF FencedMove
<1>3. ASSUME NEW w \in Worker, ClaimRefetch(w) PROVE FencedMove(u)
  <2>1. ~Leased(schedule[u])
    <3>1. SUFFICES ASSUME Leased(schedule[u]) PROVE FALSE
      OBVIOUS
    <3>2. Settled[u] = schedule[u] /\ Settled \in [Link -> Row \cup {Unscheduled}]
      BY <1>1, <3>1, SettledTyped DEF Leased, ClaimInv
    <3>3. PICK t \in Claimable : schedule' = [Settled EXCEPT ![t].lease = now + ClaimFor]
      BY <1>3, <3>2 DEF ClaimRefetch, MostOverdue
    <3>4. t # u
      BY <3>1, <3>3 DEF Claimable
    <3> QED
      BY <3>2, <3>3, <3>4
  <2>2. \A v \in Worker : claim'[v] = NoClaim => claim[v] = NoClaim
    <3>1. \A v \in Worker \ {w} : claim'[v] = claim[v]
      BY <1>1, <1>3 DEF ClaimRefetch
    <3> QED
      BY <1>3, <3>1 DEF ClaimRefetch
  <2> QED
    BY <2>1, <2>2 DEF FencedMove
<1>4. ASSUME NEW w \in Worker, BeginFetch(w) \/ Abandon(w) \/ \E b \in Answers : PublishBody(w, b)
      PROVE  FALSE
  BY <1>4 DEF BeginFetch, Abandon, PublishBody, rowVars
<1>5. ~Seed
  BY <1>1 DEF Seed
<1>6. ~Tick /\ ~PurgeArtifacts /\ \A t, b, depth, ago : ~FirstCapture(t, b, depth, ago)
  BY DEF Tick, PurgeArtifacts, FirstCapture, rowVars
<1>7. ~PurgeRefetchSchedule
  BY DEF PurgeRefetchSchedule
<1> QED
  BY <1>2, <1>3, <1>4, <1>5, <1>6, <1>7 DEF RefetchNext, RefetchStep

(* CompleteRefetch, its failed check and ReleaseRefetch are fenced by the  *)
(* token, for any workers, lapsed leases and purges: nobody but the last   *)
(* claimant moves a row, be it in use or free again, and no running lease  *)
(* is taken away from under its holder.                                    *)
THEOREM TokenFencesRows == RefetchSpec => OnlyClaimantMoves
<1>1. TokenInv /\ [RefetchNext]_refetchVars =>
        [\A u \in Link : Scheduled(u) => FencedMove(u)]_refetchVars
  BY ClaimantMoves DEF FencedMove
<1> QED
  BY <1>1, TokensHeld, PTL DEF RefetchSpec, OnlyClaimantMoves

(* A rotated payload takes its depth from the URL's first row, and from no *)
(* row at all the cautious one, so a payload only scripts named is never   *)
(* shared as one a command named (refetchProvenance).                      *)
THEOREM ProvenanceNotPromoted == RefetchSpec => []ProvenanceKept
<1>1. RefetchInit => ProvenanceKept
  BY DEF RefetchInit, ProvenanceKept
<1>2. ASSUME ProvenanceKept, [RefetchNext]_refetchVars PROVE ProvenanceKept'
  <2>1. ASSUME NEW w \in Worker, CompleteRefetch(w) PROVE ProvenanceKept'
    <3> DEFINE u == claim[w].link
    <3>1. ASSUME NEW b, NEW r \in WithBody(u, b), r.depth = 0 PROVE r.link \in named
      <4>1. CASE r \in sample
        BY <1>2, <3>1, <4>1 DEF ProvenanceKept
      <4>2. CASE r \notin sample
        <5>1. r.link = u /\ r.depth = InferredDepth(u)
          BY <3>1, <4>2 DEF WithBody
        <5>2. FirstRow(u) # {}
          BY <3>1, <5>1 DEF InferredDepth
        <5> DEFINE f == CHOOSE x \in FirstRow(u) : TRUE
        <5>3. f \in sample /\ f.link = u
          BY <5>2 DEF FirstRow, FetchedAt
        <5>4. f.depth = 0
          BY <3>1, <5>1, <5>2 DEF InferredDepth
        <5> QED
          BY <1>2, <5>1, <5>3, <5>4 DEF ProvenanceKept
      <4> QED
        BY <4>1, <4>2
    <3>2. named' = named
      BY <2>1 DEF CompleteRefetch
    <3>3. sample' = sample \/ sample' = UNION {WithBody(u, b) : b \in claim[w].body}
      BY <2>1 DEF CompleteRefetch, rowVars
    <3> QED
      BY <1>2, <3>1, <3>2, <3>3 DEF ProvenanceKept
  <2>2. ASSUME NEW u \in Link, NEW b, NEW depth \in {0, 1}, NEW ago, FirstCapture(u, b, depth, ago)
        PROVE  ProvenanceKept'
    BY <1>2, <2>2 DEF FirstCapture, ProvenanceKept
  <2>3. ASSUME sample' \subseteq sample, named' = named PROVE ProvenanceKept'
    BY <1>2, <2>3 DEF ProvenanceKept
  <2>4. ASSUME NEW w \in Worker,
               \/ ClaimRefetch(w) \/ BeginFetch(w) \/ FailedCheck(w) \/ ReleaseRefetch(w) \/ Abandon(w)
               \/ \E b \in Answers : PublishBody(w, b)
        PROVE  sample' \subseteq sample /\ named' = named
    BY <2>4 DEF ClaimRefetch, BeginFetch, FailedCheck, ReleaseRefetch, Abandon, PublishBody, rowVars, refetchHistory
  <2>5. ASSUME Tick \/ Seed \/ PurgeArtifacts \/ PurgeRefetchSchedule \/ UNCHANGED refetchVars
        PROVE  sample' \subseteq sample /\ named' = named
    BY <2>5 DEF Tick, Seed, PurgeArtifacts, PurgeRefetchSchedule, refetchVars, rowVars, refetchHistory
  <2> QED
    BY <1>2, <2>1, <2>2, <2>3, <2>4, <2>5 DEF RefetchNext, RefetchStep
<1> QED
  BY <1>1, <1>2, PTL DEF RefetchSpec

-----------------------------------------------------------------------------
(* StoreUpgrade.  A statement that is no drop leaves its objects, unless   *)
(* another rung's drop or a late heal decides about them.                  *)
Have(names) == names \ (Dropped \cup Amended) \subseteq objects

LadderInv ==
  /\ stamps \subseteq 1..Latest
  /\ \A v \in stamps : \A r \in 1..v : Have(MadeBy(r))

RowsInv ==
  /\ artifacts = kept /\ seq \in Nat /\ top \in Nat /\ top <= seq
  /\ IsFiniteSet(DOMAIN artifacts) /\ DOMAIN artifacts \subseteq 1..seq
  /\ artifacts \in [DOMAIN artifacts -> [url : Locator, epoch : Nat]]
  /\ ~ArtifactsRebuilt => \A i \in DOMAIN artifacts : artifacts[i].epoch = 0

(* What an opener has behind it is there, whatever it has read. *)
Behind(o) ==
  /\ \A r \in 0..Latest : r < o.rung => Have(MadeBy(r))
  /\ \A st \in Does(o.rung) \ o.todo : st.op # "drop" => Have(st.names)
  /\ o.at = "alter" => Have(Statement(o.todo).names \ o.absent)
  /\ o.at \in {"heal", "columns", "amend", "open"} => o.rung > Latest
  /\ o.at \in {"columns", "amend", "open"} => V26Objects \subseteq objects
  /\ o.at = "open" => "artifacts.last_refetch_at" \in objects
OpenerInv(o) ==
  /\ {"at", "rung", "todo", "absent"} \subseteq DOMAIN o
  /\ o.rung \in 0..(Latest + 1) /\ o.todo \subseteq Does(o.rung)
  /\ o.at # "shut" => Behind(o)
OpenersInv == DOMAIN opener = Opener /\ \A p \in Opener : \A o : o = opener[p] => OpenerInv(o)

UpgradeInv == LadderInv /\ RowsInv /\ OpenersInv

-----------------------------------------------------------------------------

LEMMA StatementKinds ==
  /\ \A names : \A st \in Together(names) : st.op = "make"
  /\ \A names : \A st \in Each(names) : st.op = "make"
  /\ \A names : \A st \in {Adds(names)} : st.op = "add"
  /\ \A name : Makes(name).op = "make"
BY DEF Together, Each, Makes, Adds

LEMMA DropsOnly == \A r \in 0..(Latest + 1) : \A st \in Does(r) : st.op = "drop" => st.names \subseteq Dropped
<1> SUFFICES ASSUME NEW r \in 0..(Latest + 1), NEW st \in Does(r), st.op = "drop" PROVE st.names \subseteq Dropped
  OBVIOUS
<1>1. CASE r = 0
  BY <1>1 DEF Does, BaseSchema, Each, Makes, Drops, Dropped
<1>2. CASE r \in 1..7
  <2>1. st \in EarlyRungs[r]
    BY <1>2 DEF Does
  <2>2. r \in {1, 2, 3, 4, 5, 6, 7}
    BY <1>2
  <2> QED
    BY <2>1, <2>2 DEF EarlyRungs, Each, Makes, Adds, Drops, Dropped
<1>3. CASE r \in 8..15
  <2>1. st \in MiddleRungs[r - 7]
    BY <1>3 DEF Does
  <2>2. r - 7 \in {1, 2, 3, 4, 5, 6, 7, 8}
    BY <1>3
  <2> QED
    BY <2>1, <2>2 DEF MiddleRungs, Each, Makes, Adds, Drops, Dropped
<1>4. CASE r \in 16..20
  <2>1. st \in LateRungs[r - 15]
    BY <1>4 DEF Does
  <2>2. r - 15 \in {1, 2, 3, 4, 5}
    BY <1>4
  <2> QED
    BY <2>1, <2>2, StatementKinds DEF LateRungs, migrateCaptureEvidence
<1>5. CASE r \in 21..27
  <2>1. st \in LastRungs[r - 20]
    BY <1>5 DEF Does
  <2>2. r - 20 \in {1, 2, 3, 4, 5, 6, 7}
    BY <1>5
  <2> QED
    BY <2>1, <2>2, StatementKinds
       DEF LastRungs, migrateLedgerTimes, migrateJournalSummaries, migrateFileCaptures, migrateCampaigns,
           migrateArtifactsV27
<1>6. CASE r = Latest + 1
  BY <1>6 DEF Does, Latest
<1> QED
  BY <1>1, <1>2, <1>3, <1>4, <1>5, <1>6 DEF Latest

LEMMA RebuildMakes == ArtifactIndexes \cup V27Columns \subseteq MadeBy(Latest)
<1>1. Does(Latest) = LastRungs[7]
  BY DEF Does, Latest
<1>2. PICK st : st = [op |-> "make", names |-> ArtifactIndexes \cup V27Columns \cup {"refetch_schedule", "idx_refetch_due"}]
  OBVIOUS
<1>3. st \in Does(Latest)
  BY <1>1, <1>2 DEF LastRungs, migrateArtifactsV27, Together
<1>4. st.op # "drop" /\ ArtifactIndexes \cup V27Columns \subseteq st.names
  BY <1>2
<1> QED
  BY <1>3, <1>4 DEF MadeBy

LEMMA KeptObjects ==
  /\ V26Objects \cap Dropped = {} /\ V27Columns \cap Dropped = {}
  /\ "artifacts.fetch_epoch" \in V27Columns \ Amended
  /\ V27Columns = {"artifacts.fetch_epoch", "artifacts.last_refetch_at"}
BY DEF V26Objects, Dropped, V27Columns, Amended

LEMMA MadeOf == ASSUME NEW r, NEW st \in Does(r), st.op # "drop" PROVE st.names \subseteq MadeBy(r)
BY DEF MadeBy

(* What a rung makes is there when each of its statements was executed. *)
LEMMA AllDone ==
  ASSUME NEW r, \A st \in Does(r) : st.op # "drop" => Have(st.names)
  PROVE  Have(MadeBy(r))
BY DEF MadeBy, Have

(* An object that is no rung's to drop stays. *)
LEMMA HaveStays ==
  ASSUME objects \ Dropped \subseteq objects', NEW names, Have(names)
  PROVE  Have(names)'
BY DEF Have

LEMMA BehindStays ==
  ASSUME objects \ Dropped \subseteq objects', NEW o, Behind(o)
  PROVE  Behind(o)'
<1>1. \A names : Have(names) => Have(names)'
  BY HaveStays
<1>2. \A r \in 0..Latest : r < o.rung => Have(MadeBy(r))'
  BY <1>1 DEF Behind
<1>3. \A st \in Does(o.rung) \ o.todo : st.op # "drop" => Have(st.names)'
  BY <1>1 DEF Behind
<1>4. o.at = "alter" => Have(Statement(o.todo).names \ o.absent)'
  BY <1>1 DEF Behind
<1>5. o.at \in {"columns", "amend", "open"} => V26Objects \subseteq objects'
  BY KeptObjects DEF Behind
<1>6. o.at = "open" => "artifacts.last_refetch_at" \in objects'
  BY KeptObjects DEF Behind
<1> QED
  BY <1>2, <1>3, <1>4, <1>5, <1>6 DEF Behind

(* A step of one opener that takes away nothing but what rungs drop. *)
LEMMA OpenerStep ==
  ASSUME UpgradeInv, NEW p \in Opener, NEW o,
         opener' = [opener EXCEPT ![p] = o], OpenerInv(o)',
         objects \ Dropped \subseteq objects'
  PROVE  OpenersInv'
<1>1. DOMAIN opener' = Opener
  BY DEF UpgradeInv, OpenersInv
<1>2. ASSUME NEW q \in Opener, NEW r, r = opener'[q] PROVE OpenerInv(r)'
  <2>1. CASE q = p
    <3>1. r = o
      BY <1>2, <2>1 DEF UpgradeInv, OpenersInv
    <3> QED
      BY <3>1
  <2>2. CASE q # p
    <3>1. r = opener[q]
      BY <1>2, <2>2 DEF UpgradeInv, OpenersInv
    <3>2. OpenerInv(r)
      BY <3>1 DEF UpgradeInv, OpenersInv
    <3> QED
      BY <3>2, BehindStays DEF OpenerInv
  <2> QED
    BY <2>1, <2>2
<1> QED
  BY <1>1, <1>2 DEF OpenersInv

LEMMA LadderStays ==
  ASSUME LadderInv, objects \ Dropped \subseteq objects', stamps' = stamps
  PROVE  LadderInv'
<1>1. \A names : Have(names) => Have(names)'
  BY HaveStays
<1> QED
  BY <1>1 DEF LadderInv

LEMMA LadderStamped ==
  ASSUME LadderInv, objects \ Dropped \subseteq objects', NEW v \in 1..Latest, stamps' = stamps \cup {v},
         \A r \in 1..v : Have(MadeBy(r))'
  PROVE  LadderInv'
<1>1. \A names : Have(names) => Have(names)'
  BY HaveStays
<1>2. \A u \in stamps : \A r \in 1..u : Have(MadeBy(r))'
  BY <1>1 DEF LadderInv
<1>3. \A u \in stamps' : \A r \in 1..u : Have(MadeBy(r))'
  BY <1>2
<1> QED
  BY <1>3 DEF LadderInv

LEMMA RowsStay ==
  ASSUME RowsInv, objects \ Dropped \subseteq objects', RowsUnchanged
  PROVE  RowsInv'
<1>1. ArtifactsRebuilt => ArtifactsRebuilt'
  BY KeptObjects DEF ArtifactsRebuilt
<1> QED
  BY <1>1 DEF RowsInv, RowsUnchanged

-----------------------------------------------------------------------------
(* The parts a step leaves alone, and the opener it moves. *)
LEMMA QuietStep ==
  ASSUME UpgradeInv, NEW p \in Opener, NEW o,
         opener' = [opener EXCEPT ![p] = o], OpenerInv(o)',
         objects \ Dropped \subseteq objects', stamps' = stamps, RowsUnchanged
  PROVE  UpgradeInv'
<1>1. LadderInv /\ RowsInv
  BY DEF UpgradeInv
<1> QED
  BY <1>1, OpenerStep, LadderStays, RowsStay DEF UpgradeInv

LEMMA OpenerHas ==
  ASSUME UpgradeInv, NEW p \in Opener
  PROVE  /\ DOMAIN opener = Opener /\ {"at", "rung", "todo", "absent"} \subseteq DOMAIN opener[p]
         /\ OpenerInv(opener[p])
BY DEF UpgradeInv, OpenersInv, OpenerInv

LEMMA OpenStoreInv == ASSUME UpgradeInv, NEW p \in Opener, OpenStore(p) PROVE UpgradeInv'
<1>1. PICK o : o = [Shut EXCEPT !.at = "climb", !.todo = BaseSchema]
  OBVIOUS
<1>2. opener' = [opener EXCEPT ![p] = o] /\ objects' = objects /\ stamps' = stamps /\ RowsUnchanged
  BY <1>1 DEF OpenStore
<1>3. o.at = "climb" /\ o.rung = 0 /\ o.todo = BaseSchema /\ {"at", "rung", "todo", "absent"} \subseteq DOMAIN o
  BY <1>1 DEF Shut
<1>4. Does(0) = BaseSchema
  BY DEF Does
<1>5. OpenerInv(o)'
  BY <1>3, <1>4 DEF OpenerInv, Behind, Latest
<1> QED
  BY <1>2, <1>5, QuietStep

LEMMA LeaveInv == ASSUME UpgradeInv, NEW p \in Opener, Leave(p) PROVE UpgradeInv'
<1>1. opener' = [opener EXCEPT ![p] = Shut] /\ objects' = objects /\ stamps' = stamps /\ RowsUnchanged
  BY DEF Leave
<1>2. PICK o : o = Shut
  OBVIOUS
<1>3. o.at = "shut" /\ o.rung = 0 /\ o.todo = {} /\ {"at", "rung", "todo", "absent"} \subseteq DOMAIN o
  BY <1>2 DEF Shut
<1>4. OpenerInv(o)'
  BY <1>3 DEF OpenerInv, Latest
<1> QED
  BY <1>1, <1>2, <1>4, QuietStep

(* A statement executed: what it made is there. *)
LEMMA ExecutedInv ==
  ASSUME UpgradeInv, NEW p \in Opener, NEW st,
         opener[p].at \in {"climb", "alter"}, st = Statement(opener[p].todo), Executed(p),
         objects \ Dropped \subseteq objects', stamps' = stamps, RowsUnchanged,
         st.op # "drop" => Have(st.names)'
  PROVE  UpgradeInv'
<1>1. PICK r : r = opener[p]
  OBVIOUS
<1>2. {"at", "rung", "todo", "absent"} \subseteq DOMAIN r /\ OpenerInv(r) /\ DOMAIN opener = Opener
  BY <1>1, OpenerHas
<1>3. PICK o : o = [r EXCEPT !.at = "climb", !.todo = @ \ {st}]
  OBVIOUS
<1>4. opener' = [opener EXCEPT ![p] = o]
  BY <1>1, <1>3 DEF Executed
<1>5. o.at = "climb" /\ o.rung = r.rung /\ o.todo = r.todo \ {st} /\ {"at", "rung", "todo", "absent"} \subseteq DOMAIN o
  BY <1>2, <1>3
<1>6. Behind(r)'
  BY <1>1, <1>2, BehindStays DEF OpenerInv
<1>7. \A x \in Does(r.rung) \ o.todo : x.op # "drop" => Have(x.names)'
  BY <1>5, <1>6 DEF Behind
<1>8. \A v \in 0..Latest : v < r.rung => Have(MadeBy(v))'
  BY <1>6 DEF Behind
<1>9. Behind(o)'
  BY <1>5, <1>7, <1>8 DEF Behind
<1>10. OpenerInv(o)'
  BY <1>2, <1>5, <1>9 DEF OpenerInv
<1> QED
  BY <1>4, <1>10, QuietStep

LEMMA MakeInv == ASSUME UpgradeInv, NEW p \in Opener, MakeObject(p) PROVE UpgradeInv'
<1>1. PICK st : st = Statement(opener[p].todo)
  OBVIOUS
<1>2. opener[p].at = "climb" /\ Executed(p) /\ stamps' = stamps /\ RowsUnchanged
  BY DEF MakeObject, Climbing, Stands
<1>3. objects' = objects \cup UNION {Brings(x) : x \in st.names \ objects}
  BY <1>1 DEF MakeObject, Todo
<1>4. \A x : x \in Brings(x)
  BY DEF Brings
<1>5. Have(st.names)'
  BY <1>3, <1>4 DEF Have
<1> QED
  BY <1>1, <1>2, <1>3, <1>5, ExecutedInv

LEMMA DropInv == ASSUME UpgradeInv, NEW p \in Opener, DropObject(p) PROVE UpgradeInv'
<1>1. PICK st : st = Statement(opener[p].todo)
  OBVIOUS
<1>2. opener[p].at = "climb" /\ Executed(p) /\ stamps' = stamps /\ RowsUnchanged
  BY DEF DropObject, Climbing, Stands
<1>3. objects' = objects \ st.names /\ st.op = "drop" /\ st \in opener[p].todo
  BY <1>1 DEF DropObject, Climbing, Todo
<1>4. opener[p].todo \subseteq Does(opener[p].rung) /\ opener[p].rung \in 0..(Latest + 1)
  BY OpenerHas DEF OpenerInv
<1>5. st.names \subseteq Dropped
  BY <1>3, <1>4, DropsOnly
<1> QED
  BY <1>1, <1>2, <1>3, <1>5, ExecutedInv

LEMMA AddedInv == ASSUME UpgradeInv, NEW p \in Opener, ColumnsAdded(p) PROVE UpgradeInv'
<1>1. PICK st : st = Statement(opener[p].todo)
  OBVIOUS
<1>2. opener[p].at = "alter" /\ opener[p].absent = {} /\ Executed(p) /\ objects' = objects /\ stamps' = stamps /\ RowsUnchanged
  BY DEF ColumnsAdded, Stands
<1>3. Have(st.names \ opener[p].absent)
  BY <1>1, <1>2, OpenerHas DEF OpenerInv, Behind
<1>4. Have(st.names)'
  BY <1>2, <1>3 DEF Have
<1> QED
  BY <1>1, <1>2, <1>4, ExecutedInv

LEMMA ReadColumnsInv == ASSUME UpgradeInv, NEW p \in Opener, ReadColumns(p) PROVE UpgradeInv'
<1>1. PICK r : r = opener[p]
  OBVIOUS
<1>2. {"at", "rung", "todo", "absent"} \subseteq DOMAIN r /\ OpenerInv(r) /\ DOMAIN opener = Opener
  BY <1>1, OpenerHas
<1>3. PICK o : o = [r EXCEPT !.at = "alter", !.absent = Statement(r.todo).names \ objects]
  OBVIOUS
<1>4. /\ opener' = [opener EXCEPT ![p] = o] /\ r.at = "climb"
      /\ objects' = objects /\ stamps' = stamps /\ RowsUnchanged
  BY <1>1, <1>3 DEF ReadColumns, Climbing, Stands, Todo
<1>5. /\ o.at = "alter" /\ o.rung = r.rung /\ o.todo = r.todo /\ o.absent = Statement(r.todo).names \ objects
      /\ {"at", "rung", "todo", "absent"} \subseteq DOMAIN o
  BY <1>2, <1>3
<1>6. Behind(o)'
  BY <1>2, <1>4, <1>5 DEF OpenerInv, Behind, Have
<1>7. OpenerInv(o)'
  BY <1>2, <1>5, <1>6 DEF OpenerInv
<1> QED
  BY <1>4, <1>7, QuietStep

LEMMA AddColumnInv == ASSUME UpgradeInv, NEW p \in Opener, NEW c, AddColumn(p, c) PROVE UpgradeInv'
<1>1. PICK r : r = opener[p]
  OBVIOUS
<1>2. {"at", "rung", "todo", "absent"} \subseteq DOMAIN r /\ OpenerInv(r) /\ DOMAIN opener = Opener
  BY <1>1, OpenerHas
<1>3. PICK o : o = [r EXCEPT !.absent = @ \ {c}]
  OBVIOUS
<1>4. /\ opener' = [opener EXCEPT ![p] = o] /\ r.at = "alter"
      /\ objects' = objects \cup {c} /\ stamps' = stamps /\ RowsUnchanged
  BY <1>1, <1>3 DEF AddColumn, Stands
<1>5. /\ o.at = "alter" /\ o.rung = r.rung /\ o.todo = r.todo /\ o.absent = r.absent \ {c}
      /\ {"at", "rung", "todo", "absent"} \subseteq DOMAIN o
  BY <1>2, <1>3, <1>4
<1>6. Have(Statement(o.todo).names \ o.absent)'
  <2>1. Have(Statement(r.todo).names \ r.absent)
    BY <1>2, <1>4 DEF OpenerInv, Behind
  <2>2. PICK S : S = Statement(r.todo).names
    OBVIOUS
  <2>3. Have(S \ o.absent)'
    BY <1>4, <1>5, <2>1, <2>2 DEF Have
  <2> QED
    BY <1>5, <2>2, <2>3
<1>7. Behind(r)'
  BY <1>2, <1>4, BehindStays DEF OpenerInv
<1>8. Behind(o)'
  BY <1>5, <1>6, <1>7 DEF Behind
<1>9. OpenerInv(o)'
  BY <1>2, <1>5, <1>8 DEF OpenerInv
<1> QED
  BY <1>4, <1>9, QuietStep

(* A rung's end: everything up to it is there. *)
LEMMA RungDone ==
  ASSUME UpgradeInv, NEW p \in Opener, opener[p].at = "climb", opener[p].todo = {}
  PROVE  Have(MadeBy(opener[p].rung))
<1>1. Behind(opener[p])
  BY OpenerHas DEF OpenerInv
<1>2. \A st \in Does(opener[p].rung) : st.op # "drop" => Have(st.names)
  BY <1>1 DEF Behind
<1> QED
  BY <1>2, AllDone

LEMMA NextRungInv ==
  ASSUME UpgradeInv, NEW p \in Opener, opener[p].at = "climb", NEW v \in 0..(Latest + 1), NextRung(p, v),
         \A r \in 0..Latest : r < v => Have(MadeBy(r))'
  PROVE  \E o : opener' = [opener EXCEPT ![p] = o] /\ OpenerInv(o)'
<1>1. PICK r : r = opener[p]
  OBVIOUS
<1>2. {"at", "rung", "todo", "absent"} \subseteq DOMAIN r /\ r.at = "climb"
  BY <1>1, OpenerHas
<1>3. PICK o : o = [r EXCEPT !.rung = v, !.todo = Does(v)]
  OBVIOUS
<1>4. opener' = [opener EXCEPT ![p] = o]
  BY <1>1, <1>3 DEF NextRung
<1>5. o.at = "climb" /\ o.rung = v /\ o.todo = Does(v) /\ {"at", "rung", "todo", "absent"} \subseteq DOMAIN o
  BY <1>2, <1>3
<1>6. OpenerInv(o)'
  BY <1>5 DEF OpenerInv, Behind
<1> QED
  BY <1>4, <1>6

LEMMA VersionRead ==
  ASSUME LadderInv
  PROVE  currentSchemaVersion \in stamps \cup {0}
<1>1. IsFiniteSet(stamps)
  <2>1. 1 \in Int /\ Latest \in Int
    BY DEF Latest
  <2>2. IsFiniteSet(1..Latest)
    BY <2>1, FS_Interval
  <2> QED
    BY <2>2, FS_Subset DEF LadderInv
<1>2. IsFiniteSet(stamps \cup {0})
  BY <1>1, FS_AddElement
<1>3. stamps \cup {0} \in SUBSET Int /\ stamps \cup {0} # {}
  BY DEF LadderInv, Latest
<1> QED
  BY <1>2, <1>3, FiniteMax DEF currentSchemaVersion

LEMMA ReadVersionInv == ASSUME UpgradeInv, NEW p \in Opener, ReadVersion(p) PROVE UpgradeInv'
<1>1. /\ opener[p].at = "climb" /\ opener[p].rung = 0 /\ opener[p].todo = {}
      /\ NextRung(p, currentSchemaVersion + 1) /\ objects' = objects /\ stamps' = stamps /\ RowsUnchanged
  BY DEF ReadVersion, Stands, Rung, Todo
<1>2. PICK v : v = currentSchemaVersion
  OBVIOUS
<1>3. v \in stamps \cup {0} /\ v \in 0..Latest
  <2>1. LadderInv
    BY DEF UpgradeInv
  <2>2. v \in stamps \cup {0}
    BY <1>2, <2>1, VersionRead
  <2> QED
    BY <2>1, <2>2 DEF LadderInv, Latest
<1>4. Have(MadeBy(0))
  BY <1>1, RungDone
<1>5. \A r \in 0..Latest : r < v + 1 => Have(MadeBy(r))
  BY <1>3, <1>4 DEF UpgradeInv, LadderInv, Latest
<1>6. \A r \in 0..Latest : r < v + 1 => Have(MadeBy(r))'
  BY <1>1, <1>5 DEF Have
<1>7. v + 1 \in 0..(Latest + 1) /\ NextRung(p, v + 1)
  BY <1>1, <1>2, <1>3 DEF Latest
<1>8. PICK o : opener' = [opener EXCEPT ![p] = o] /\ OpenerInv(o)'
  BY <1>1, <1>6, <1>7, NextRungInv
<1> QED
  BY <1>1, <1>8, QuietStep

(* A rung's end and its stamp. *)
LEMMA StampedInv ==
  ASSUME UpgradeInv, NEW p \in Opener, opener[p].at = "climb", NEW v \in 1..Latest, opener[p].rung = v,
         NextRung(p, v + 1), objects \ Dropped \subseteq objects', stamps' = stamps \cup {v},
         Have(MadeBy(v))'
  PROVE  LadderInv' /\ OpenersInv'
<1>1. Behind(opener[p])
  BY OpenerHas DEF OpenerInv
<1>2. \A r \in 0..Latest : r < v => Have(MadeBy(r))
  BY <1>1 DEF Behind
<1>3. \A names : Have(names) => Have(names)'
  BY HaveStays
<1>4. \A r \in 0..Latest : r < v + 1 => Have(MadeBy(r))'
  BY <1>2, <1>3
<1>5. v + 1 \in 0..(Latest + 1)
  BY DEF Latest
<1>6. PICK o : opener' = [opener EXCEPT ![p] = o] /\ OpenerInv(o)'
  BY <1>4, <1>5, NextRungInv
<1>7. OpenersInv'
  BY <1>6, OpenerStep
<1>8. \A r \in 1..v : Have(MadeBy(r))'
  BY <1>4 DEF Latest
<1>9. LadderInv'
  BY <1>8, LadderStamped DEF UpgradeInv
<1> QED
  BY <1>7, <1>9

LEMMA StampInv == ASSUME UpgradeInv, NEW p \in Opener, Stamp(p) PROVE UpgradeInv'
<1>1. PICK v : v = opener[p].rung
  OBVIOUS
<1>2. /\ opener[p].at = "climb" /\ v \in 1..Latest /\ opener[p].todo = {} /\ stamps' = stamps \cup {v}
      /\ NextRung(p, v + 1) /\ objects' = objects /\ RowsUnchanged
  BY <1>1 DEF Stamp, Stands, Rung, Todo
<1>3. Have(MadeBy(v))'
  BY <1>1, <1>2, RungDone DEF Have
<1>4. LadderInv' /\ OpenersInv'
  BY <1>1, <1>2, <1>3, StampedInv
<1>5. RowsInv'
  BY <1>2, RowsStay DEF UpgradeInv
<1> QED
  BY <1>4, <1>5 DEF UpgradeInv

LEMMA TransactInv == ASSUME UpgradeInv, NEW p \in Opener, Transact(p) PROVE UpgradeInv'
<1>1. PICK v : v = opener[p].rung
  OBVIOUS
<1>2. /\ opener[p].at = "climb" /\ v \in 1..Latest /\ stamps' = stamps \cup {v}
      /\ NextRung(p, v + 1) /\ objects' = objects \cup MadeBy(v) /\ RowsUnchanged
  BY <1>1 DEF Transact, Stands, Rung, Transactions, Latest
<1>3. Have(MadeBy(v))'
  BY <1>2 DEF Have
<1>4. LadderInv' /\ OpenersInv'
  BY <1>1, <1>2, <1>3, StampedInv
<1>5. RowsInv'
  BY <1>2, RowsStay DEF UpgradeInv
<1> QED
  BY <1>4, <1>5 DEF UpgradeInv

(* The rebuild: a table not rebuilt holds rows of epoch 0 only. *)
LEMMA RebuildKeeps ==
  ASSUME RowsInv, ~ArtifactsRebuilt, ArtifactsRebuilt',
         artifacts' = [i \in DOMAIN artifacts |-> [artifacts[i] EXCEPT !.epoch = 0]],
         seq' = Carried(seq, artifacts), kept' = kept, top' = top
  PROVE  RowsInv'
<1>1. \A i \in DOMAIN artifacts : artifacts[i] \in [url : Locator, epoch : Nat] /\ artifacts[i].epoch = 0
  BY DEF RowsInv
<1>2. \A i \in DOMAIN artifacts : [artifacts[i] EXCEPT !.epoch = 0] = artifacts[i]
  BY <1>1
<1>3. artifacts = [i \in DOMAIN artifacts |-> artifacts[i]]
  BY DEF RowsInv
<1>4. artifacts' = artifacts
  BY <1>2, <1>3
<1>5. PICK S : S = DOMAIN artifacts \cup {0}
  OBVIOUS
<1>6. S \in SUBSET Int /\ S # {} /\ IsFiniteSet(S) /\ \A x \in S : x <= seq
  BY <1>5, FS_AddElement DEF RowsInv
<1>7. Max(S) \in S
  BY <1>6, FiniteMax
<1>8. HighestId(artifacts) \in S
  BY <1>5, <1>7 DEF HighestId
<1>9. HighestId(artifacts) <= seq /\ HighestId(artifacts) \in Int
  BY <1>6, <1>8
<1>10. seq' = seq
  BY <1>9 DEF Carried, RowsInv
<1> QED
  BY <1>4, <1>10 DEF RowsInv

LEMMA MigrateArtifactsInv == ASSUME UpgradeInv, NEW p \in Opener, MigrateArtifacts(p) PROVE UpgradeInv'
<1>1. /\ opener[p].at = "climb" /\ opener[p].rung = Latest /\ stamps' = stamps \cup {Latest}
      /\ NextRung(p, Latest + 1) /\ Latest \in 1..Latest
  BY DEF MigrateArtifacts, Stands, Rung, Latest
<1>2. objects \subseteq objects' /\ MadeBy(Latest) \subseteq objects'
  BY RebuildMakes DEF MigrateArtifacts
<1>3. Have(MadeBy(Latest))'
  BY <1>2 DEF Have
<1>4. LadderInv' /\ OpenersInv'
  BY <1>1, <1>2, <1>3, StampedInv
<1>5. RowsInv'
  <2>1. CASE ArtifactsRebuilt
    BY <1>2, <2>1, RowsStay DEF MigrateArtifacts, UpgradeInv
  <2>2. CASE ~ArtifactsRebuilt
    <3>1. ArtifactsRebuilt'
      BY <1>2, RebuildMakes, KeptObjects DEF ArtifactsRebuilt
    <3> QED
      BY <2>2, <3>1, RebuildKeeps DEF MigrateArtifacts, UpgradeInv
  <2> QED
    BY <2>1, <2>2
<1> QED
  BY <1>4, <1>5 DEF UpgradeInv

(* The steps of the two heals: the opener moves to `at`. *)
LEMMA HealStep ==
  ASSUME UpgradeInv, NEW p \in Opener, NEW at, Reach(p, at), opener[p].rung > Latest, opener[p].at # "shut",
         at \in {"heal", "columns", "amend", "open"},
         objects \subseteq objects', stamps' = stamps, RowsUnchanged,
         at # "heal" => V26Objects \subseteq objects',
         at = "open" => "artifacts.last_refetch_at" \in objects'
  PROVE  UpgradeInv'
<1>1. PICK r : r = opener[p]
  OBVIOUS
<1>2. {"at", "rung", "todo", "absent"} \subseteq DOMAIN r /\ OpenerInv(r) /\ DOMAIN opener = Opener
  BY <1>1, OpenerHas
<1>3. PICK o : o = [r EXCEPT !.at = at]
  OBVIOUS
<1>4. opener' = [opener EXCEPT ![p] = o]
  BY <1>1, <1>3 DEF Reach
<1>5. o.at = at /\ o.rung = r.rung /\ o.todo = r.todo /\ {"at", "rung", "todo", "absent"} \subseteq DOMAIN o
  BY <1>2, <1>3
<1>6. objects \ Dropped \subseteq objects'
  OBVIOUS
<1>7. Behind(r)'
  BY <1>1, <1>2, <1>6, BehindStays DEF OpenerInv
<1>8. Behind(o)'
  BY <1>1, <1>5, <1>7 DEF Behind
<1>9. OpenerInv(o)'
  BY <1>2, <1>5, <1>8 DEF OpenerInv
<1> QED
  BY <1>4, <1>6, <1>9, QuietStep

LEMMA ReadV26ObjectsInv == ASSUME UpgradeInv, NEW p \in Opener, ReadV26Objects(p) PROVE UpgradeInv'
<1>1. PICK at : at = IF V26Objects \subseteq objects THEN "columns" ELSE "heal"
  OBVIOUS
<1>2. /\ opener[p].at = "climb" /\ opener[p].rung > Latest /\ Reach(p, at)
      /\ objects' = objects /\ stamps' = stamps /\ RowsUnchanged
  BY <1>1 DEF ReadV26Objects, Stands, Rung
<1> QED
  BY <1>1, <1>2, HealStep

LEMMA AtHas ==
  ASSUME UpgradeInv, NEW p \in Opener, opener[p].at \in {"heal", "columns", "amend", "open"}
  PROVE  Behind(opener[p]) /\ opener[p].rung > Latest
BY OpenerHas DEF OpenerInv, Behind

LEMMA HealV26ObjectsInv == ASSUME UpgradeInv, NEW p \in Opener, HealV26Objects(p) PROVE UpgradeInv'
<1>1. /\ opener[p].at = "heal" /\ Reach(p, "columns")
      /\ objects' = objects \cup V26Objects /\ stamps' = stamps /\ RowsUnchanged
  BY DEF HealV26Objects, Stands
<1>2. opener[p].rung > Latest
  BY <1>1, AtHas
<1> QED
  BY <1>1, <1>2, HealStep

LEMMA RebuiltBehind ==
  ASSUME UpgradeInv, NEW p \in Opener, opener[p].at \in {"heal", "columns", "amend", "open"}
  PROVE  ArtifactsRebuilt
<1>1. Behind(opener[p]) /\ opener[p].rung > Latest /\ Latest \in 0..Latest
  BY AtHas DEF Latest
<1>2. Latest < opener[p].rung
  BY <1>1, OpenerHas DEF OpenerInv, Latest
<1>3. Have(MadeBy(Latest))
  BY <1>1, <1>2 DEF Behind
<1> QED
  BY <1>3, RebuildMakes, KeptObjects DEF Have, ArtifactsRebuilt

LEMMA ReadV27ColumnsInv == ASSUME UpgradeInv, NEW p \in Opener, ReadV27Columns(p) PROVE UpgradeInv'
<1>1. PICK at : at = IF Cardinality(V27Columns \cap objects) # 1 THEN "open" ELSE "amend"
  OBVIOUS
<1>2. /\ opener[p].at = "columns" /\ Reach(p, at)
      /\ objects' = objects /\ stamps' = stamps /\ RowsUnchanged
  BY <1>1 DEF ReadV27Columns, Stands
<1>3. opener[p].rung > Latest /\ V26Objects \subseteq objects /\ "artifacts.fetch_epoch" \in objects
  BY <1>2, AtHas, RebuiltBehind DEF Behind, ArtifactsRebuilt
<1>4. ASSUME "artifacts.last_refetch_at" \notin objects PROVE at = "amend"
  <2>1. V27Columns \cap objects = {"artifacts.fetch_epoch"}
    BY <1>3, <1>4, KeptObjects
  <2>2. Cardinality(V27Columns \cap objects) = 1
    BY <2>1, FS_Singleton
  <2> QED
    BY <1>1, <2>2
<1>5. at \in {"open", "amend"} /\ (at = "open" => "artifacts.last_refetch_at" \in objects)
  BY <1>1, <1>4
<1> QED
  BY <1>2, <1>3, <1>5, HealStep

LEMMA HealV27ColumnsInv == ASSUME UpgradeInv, NEW p \in Opener, HealV27Columns(p) PROVE UpgradeInv'
<1>1. /\ opener[p].at = "amend" /\ Reach(p, "open")
      /\ objects' = objects \cup {"artifacts.last_refetch_at"} /\ stamps' = stamps /\ RowsUnchanged
  BY DEF HealV27Columns, Stands
<1>2. opener[p].rung > Latest /\ V26Objects \subseteq objects
  BY <1>1, AtHas DEF Behind
<1> QED
  BY <1>1, <1>2, HealStep

-----------------------------------------------------------------------------
(* What an open store writes leaves the schema and the openers alone. *)
LEMMA RowStep ==
  ASSUME UpgradeInv, objects' = objects, stamps' = stamps, opener' = opener, RowsInv'
  PROVE  UpgradeInv'
<1>1. objects \ Dropped \subseteq objects'
  OBVIOUS
<1>2. LadderInv'
  BY <1>1, LadderStays DEF UpgradeInv
<1>3. ASSUME NEW q \in Opener, NEW r, r = opener'[q] PROVE OpenerInv(r)'
  <2>1. OpenerInv(r)
    BY <1>3 DEF UpgradeInv, OpenersInv
  <2> QED
    BY <1>1, <2>1, BehindStays DEF OpenerInv
<1>4. OpenersInv'
  BY <1>3 DEF UpgradeInv, OpenersInv
<1> QED
  BY <1>2, <1>4 DEF UpgradeInv

LEMMA WriteRowInv ==
  ASSUME RowsInv, ArtifactsRebuilt, objects' = objects, NEW u \in Locator, NEW e \in Nat,
         WriteRow([url |-> u, epoch |-> e])
  PROVE  RowsInv'
<1>1. PICK row : row = [url |-> u, epoch |-> e]
  OBVIOUS
<1>2. row \in [url : Locator, epoch : Nat]
  BY <1>1
<1>3. /\ artifacts' = With(artifacts, seq + 1, row) /\ kept' = With(kept, seq + 1, row)
      /\ seq' = seq + 1 /\ top' = IF top > seq + 1 THEN top ELSE seq + 1
  BY <1>1 DEF WriteRow
<1>4. artifacts' = kept' /\ seq' \in Nat /\ top' \in Nat /\ top' <= seq'
  BY <1>3 DEF RowsInv
<1>5. DOMAIN artifacts' = DOMAIN artifacts \cup {seq + 1}
  BY <1>3 DEF With
<1>6. IsFiniteSet(DOMAIN artifacts')
  <2>1. IsFiniteSet(DOMAIN artifacts)
    BY DEF RowsInv
  <2> QED
    BY <1>5, <2>1, FS_AddElement
<1>7. DOMAIN artifacts' \subseteq 1..seq'
  BY <1>3, <1>5 DEF RowsInv
<1>8. artifacts' \in [DOMAIN artifacts' -> [url : Locator, epoch : Nat]]
  <2>1. \A i \in DOMAIN artifacts : artifacts[i] \in [url : Locator, epoch : Nat]
    BY DEF RowsInv
  <2> QED
    BY <1>2, <1>3, <2>1 DEF With
<1>9. ArtifactsRebuilt'
  BY DEF ArtifactsRebuilt
<1> QED
  BY <1>4, <1>6, <1>7, <1>8, <1>9 DEF RowsInv

LEMMA FirstSightInv == ASSUME UpgradeInv, NEW p \in Opener, NEW u \in Locator, FirstSight(p, u) PROVE UpgradeInv'
<1>1. /\ opener[p].at = "open" /\ WriteRow([url |-> u, epoch |-> 0])
      /\ objects' = objects /\ stamps' = stamps /\ opener' = opener
  BY DEF FirstSight, Stands
<1>2. ArtifactsRebuilt /\ RowsInv
  BY <1>1, RebuiltBehind DEF UpgradeInv
<1>3. RowsInv'
  BY <1>1, <1>2, WriteRowInv
<1> QED
  BY <1>1, <1>3, RowStep

LEMMA FollowingEpoch ==
  ASSUME RowsInv, NEW u
  PROVE  Max(EpochsOf(u) \cup {-1}) + 1 \in Nat
<1>1. PICK D : D = {j \in DOMAIN artifacts : artifacts[j].url = u}
  OBVIOUS
<1>2. PICK f : f = [i \in D |-> artifacts[i].epoch]
  OBVIOUS
<1>3. D \subseteq DOMAIN artifacts
  BY <1>1
<1>4. IsFiniteSet(D)
  BY <1>3, FS_Subset DEF RowsInv
<1>5. IsFiniteSet({f[i] : i \in D})
  <2>1. DOMAIN f = D /\ f = [i \in D |-> f[i]]
    BY <1>2
  <2> QED
    BY <1>4, <2>1, FiniteImage
<1>6. EpochsOf(u) = {f[i] : i \in D}
  BY <1>1, <1>2 DEF EpochsOf
<1>7. \A i \in D : f[i] \in Nat
  BY <1>2, <1>3 DEF RowsInv
<1>8. PICK S : S = EpochsOf(u) \cup {-1}
  OBVIOUS
<1>9. S \in SUBSET Int /\ S # {} /\ \A x \in S : x >= -1
  BY <1>6, <1>7, <1>8
<1>10. IsFiniteSet(S)
  BY <1>5, <1>6, <1>8, FS_AddElement
<1>11. Max(S) \in S
  BY <1>9, <1>10, FiniteMax
<1>12. Max(S) \in Int /\ Max(S) >= -1
  BY <1>9, <1>11
<1>13. Max(S) + 1 \in Nat
  BY <1>12
<1> QED
  BY <1>8, <1>13

LEMMA RotateInv == ASSUME UpgradeInv, NEW p \in Opener, NEW u \in Locator, Rotate(p, u) PROVE UpgradeInv'
<1>1. PICK e : e = Max(EpochsOf(u) \cup {-1}) + 1
  OBVIOUS
<1>2. /\ opener[p].at = "open" /\ WriteRow([url |-> u, epoch |-> e])
      /\ objects' = objects /\ stamps' = stamps /\ opener' = opener
  BY <1>1 DEF Rotate, Stands
<1>3. ArtifactsRebuilt /\ RowsInv
  BY <1>2, RebuiltBehind DEF UpgradeInv
<1>4. e \in Nat
  BY <1>1, <1>3, FollowingEpoch
<1>5. RowsInv'
  BY <1>2, <1>3, <1>4, WriteRowInv
<1> QED
  BY <1>2, <1>5, RowStep

LEMMA PurgeInv == ASSUME UpgradeInv, NEW p \in Opener, NEW i, Purge(p, i) PROVE UpgradeInv'
<1>1. /\ artifacts' = Restrict(artifacts, DOMAIN artifacts \ {i}) /\ kept' = Restrict(kept, DOMAIN kept \ {i})
      /\ objects' = objects /\ stamps' = stamps /\ opener' = opener /\ seq' = seq /\ top' = top
  BY DEF Purge
<1>2. RowsInv
  BY DEF UpgradeInv
<1>3. artifacts' = kept' /\ DOMAIN artifacts' = DOMAIN artifacts \ {i}
  BY <1>1, <1>2 DEF RowsInv, Restrict
<1>4. \A j \in DOMAIN artifacts' : artifacts'[j] = artifacts[j]
  BY <1>1 DEF Restrict
<1>5. IsFiniteSet(DOMAIN artifacts')
  BY <1>2, <1>3, FS_RemoveElement DEF RowsInv
<1>6. artifacts' \in [DOMAIN artifacts' -> [url : Locator, epoch : Nat]]
  <2>1. \A j \in DOMAIN artifacts : artifacts[j] \in [url : Locator, epoch : Nat]
    BY <1>2 DEF RowsInv
  <2> QED
    BY <1>1, <2>1 DEF Restrict
<1>7. ~ArtifactsRebuilt' => \A j \in DOMAIN artifacts' : artifacts'[j].epoch = 0
  BY <1>1, <1>2, <1>3, <1>4 DEF RowsInv, ArtifactsRebuilt
<1>8. RowsInv'
  BY <1>1, <1>2, <1>3, <1>5, <1>6, <1>7 DEF RowsInv
<1> QED
  BY <1>1, <1>8, RowStep

-----------------------------------------------------------------------------

LEMMA UpgradeStart == UpgradeInit => UpgradeInv
<1> SUFFICES ASSUME UpgradeInit PROVE UpgradeInv
  OBVIOUS
<1>1. PICK d \in Inherited :
        /\ objects = d.objects /\ stamps = d.stamps /\ artifacts = d.artifacts /\ seq = d.seq
        /\ kept = d.artifacts /\ top = d.seq
  BY DEF UpgradeInit
<1>2. LadderInv
  BY <1>1, InheritedAssumption DEF LadderInv, Have, Needed
<1>3. RowsInv
  BY <1>1, InheritedAssumption DEF RowsInv, ArtifactsRebuilt
<1>4. OpenersInv
  BY DEF UpgradeInit, OpenersInv, OpenerInv, Shut, Latest
<1> QED
  BY <1>2, <1>3, <1>4 DEF UpgradeInv

LEMMA UpgradeNextInv == UpgradeInv /\ [UpgradeNext]_upgradeVars => UpgradeInv'
<1> SUFFICES ASSUME UpgradeInv, [UpgradeNext]_upgradeVars PROVE UpgradeInv'
  OBVIOUS
<1>1. CASE UNCHANGED upgradeVars
  <2>1. /\ objects' = objects /\ stamps' = stamps /\ opener' = opener
        /\ artifacts' = artifacts /\ seq' = seq /\ kept' = kept /\ top' = top
    BY <1>1 DEF upgradeVars
  <2>2. RowsInv'
    BY <2>1 DEF UpgradeInv, RowsInv, ArtifactsRebuilt
  <2> QED
    BY <2>1, <2>2, RowStep
<1>2. CASE UpgradeNext
  <2>1. PICK p \in Opener :
          \/ OpenStore(p) \/ MakeObject(p) \/ DropObject(p)
          \/ ReadColumns(p) \/ (\E c \in opener[p].absent : AddColumn(p, c)) \/ ColumnsAdded(p)
          \/ ReadVersion(p) \/ Stamp(p) \/ Transact(p) \/ MigrateArtifacts(p)
          \/ ReadV26Objects(p) \/ HealV26Objects(p) \/ ReadV27Columns(p) \/ HealV27Columns(p)
          \/ Leave(p)
          \/ (\E u \in Locator : FirstSight(p, u) \/ Rotate(p, u))
          \/ (\E i \in DOMAIN artifacts : Purge(p, i))
    BY <1>2 DEF UpgradeNext
  <2>2. CASE OpenStore(p) \/ Leave(p)
    BY <2>2, OpenStoreInv, LeaveInv
  <2>3. CASE MakeObject(p) \/ DropObject(p) \/ ReadColumns(p) \/ ColumnsAdded(p)
    BY <2>3, MakeInv, DropInv, ReadColumnsInv, AddedInv
  <2>4. CASE \E c \in opener[p].absent : AddColumn(p, c)
    BY <2>4, AddColumnInv
  <2>5. CASE ReadVersion(p) \/ Stamp(p) \/ Transact(p) \/ MigrateArtifacts(p)
    BY <2>5, ReadVersionInv, StampInv, TransactInv, MigrateArtifactsInv
  <2>6. CASE ReadV26Objects(p) \/ HealV26Objects(p) \/ ReadV27Columns(p) \/ HealV27Columns(p)
    BY <2>6, ReadV26ObjectsInv, HealV26ObjectsInv, ReadV27ColumnsInv, HealV27ColumnsInv
  <2>7. CASE \E u \in Locator : FirstSight(p, u) \/ Rotate(p, u)
    BY <2>7, FirstSightInv, RotateInv
  <2>8. CASE \E i \in DOMAIN artifacts : Purge(p, i)
    BY <2>8, PurgeInv
  <2> QED
    BY <2>1, <2>2, <2>3, <2>4, <2>5, <2>6, <2>7, <2>8
<1> QED
  BY <1>1, <1>2

LEMMA UpgradeInvSafe == UpgradeInv => UpgradeHolds
<1> SUFFICES ASSUME UpgradeInv PROVE UpgradeHolds
  OBVIOUS
<1>1. ASSUME NEW p \in Opener, opener[p].at = "open", NEW r \in 0..Latest PROVE Needed(r) \subseteq objects
  <2>1. Behind(opener[p]) /\ opener[p].rung > Latest
    BY <1>1, AtHas
  <2>2. opener[p].rung \in Int
    BY OpenerHas DEF OpenerInv
  <2>3. r < opener[p].rung
    BY <2>1, <2>2 DEF Latest
  <2>4. Have(MadeBy(r))
    BY <2>1, <2>3 DEF Behind
  <2>5. Amended \subseteq objects
    BY <1>1, <2>1 DEF Behind, Amended
  <2> QED
    BY <2>4, <2>5 DEF Have, Needed
<1>2. SchemaComplete
  BY <1>1 DEF SchemaComplete, Stands
<1> QED
  BY <1>2 DEF UpgradeInv, RowsInv, UpgradeHolds, ArtifactsKept, IdsAdvance

(* Whatever earlier builds left behind, however many processes climb the   *)
(* ladder at once and wherever they die, an open store is complete, no row *)
(* of artifacts is lost or altered by the rebuild, and no id is given out  *)
(* again.                                                                  *)
THEOREM UpgradesAreSafe == UpgradeSpec => []UpgradeHolds
<1>1. UpgradeInit => UpgradeInv
  BY UpgradeStart
<1>2. UpgradeInv /\ [UpgradeNext]_upgradeVars => UpgradeInv'
  BY UpgradeNextInv
<1>3. UpgradeInv => UpgradeHolds
  BY UpgradeInvSafe
<1> QED
  BY <1>1, <1>2, <1>3, PTL DEF UpgradeSpec
===============================================================================
