------------------------ MODULE CampaignLeaseProofs ------------------------
(***************************************************************************)
(* What CampaignLease guarantees for every number of workers, lease        *)
(* lifetime and length of run.                                             *)
(***************************************************************************)
EXTENDS CampaignLease, TLAPS

(* Type correctness of the lease row, the clocks and every worker's tick.  *)
LEMMA TypeInit == Init => TypeOK
BY TTLAssumption, BoundsAssumption, OwnerAssumption
   DEF Init, TypeOK, NoLease, Stage, Running, RenewSite

LEMMA StageNames ==
  /\ {"admit", "acquire", "check", "settled", "grouped", "save", "saved", "idle", "down"}
       \subseteq Stage
  /\ \A site \in RenewSite : AfterRenew[site] \in Stage
BY DEF Stage, Running, RenewSite, AfterRenew

LEMMA GotoType ==
  ASSUME TypeOK, NEW w \in Worker, NEW to \in Stage, Goto(w, to)
  PROVE  pc' \in [Worker -> Stage]
BY DEF TypeOK, Goto

LEMMA HoldType ==
  ASSUME TypeOK, NEW w \in Worker, NEW until \in Nat, Hold(w, until)
  PROVE  leaseUntil' \in [Worker -> Nat]
BY DEF TypeOK, Hold

LEMMA GiveUpType ==
  ASSUME TypeOK, NEW w \in Worker, GiveUp(w)
  PROVE  /\ pc' \in [Worker -> Stage]
         /\ leaseUntil' \in [Worker -> Nat]
BY StageNames, GotoType, HoldType DEF GiveUp

LEMMA ExpiryType ==
  ASSUME TypeOK, NEW w \in Worker
  PROVE  Expiry(now[w].wall) \in Nat /\ Expiry(now[w].mono) \in Nat
BY TTLAssumption DEF TypeOK, Expiry

LEMMA TypeStep == TypeOK /\ [Next]_vars => TypeOK'
<1> SUFFICES ASSUME TypeOK, [Next]_vars PROVE TypeOK'
  OBVIOUS
<1>1. ASSUME NEW w \in Worker, BeginTick(w) PROVE TypeOK'
  <2>1. pc' \in [Worker -> Stage]
    BY <1>1, StageNames, GotoType DEF BeginTick
  <2>2. now' \in [Worker -> [wall : Nat, mono : Nat]] /\ intruded' \in [Worker -> BOOLEAN]
    BY <1>1 DEF TypeOK, BeginTick, ReadClock
  <2> QED BY <1>1, <2>1, <2>2 DEF TypeOK, BeginTick, clocks
<1>2. ASSUME NEW w \in Worker, Admit(w) PROVE TypeOK'
  <2>1. /\ pc' \in [Worker -> Stage]
        /\ leaseUntil' \in [Worker -> Nat]
    BY <1>2, StageNames, GotoType, GiveUpType DEF Admit, TypeOK, HeldElsewhere
  <2> QED BY <1>2, <2>1 DEF TypeOK, Admit, clocks, history
<1>3. ASSUME NEW w \in Worker, Acquire(w) PROVE TypeOK'
  <2>1. CASE AcquireAllowed(w)
    <3>1. /\ pc' \in [Worker -> Stage]
          /\ leaseUntil' \in [Worker -> Nat]
      BY <1>3, <2>1, StageNames, ExpiryType, GotoType, HoldType DEF Acquire
    <3>2. lease' \in [owner : (Worker \X Nat) \cup {NoOwner}, until : Nat]
      BY <1>3, <2>1, ExpiryType DEF TypeOK, Acquire, OwnerID
    <3>3. versionChecked' \in [Worker -> BOOLEAN]
      BY <1>3, <2>1 DEF TypeOK, Acquire, Takeover
    <3>4. intruded' \in [Worker -> BOOLEAN] /\ unseen' \in [Worker -> BOOLEAN]
      BY <1>3, <2>1 DEF TypeOK, Acquire
    <3> QED BY <1>3, <3>1, <3>2, <3>3, <3>4 DEF TypeOK, Acquire, clocks
  <2>2. CASE ~AcquireAllowed(w)
    <3>1. GiveUp(w) /\ UNCHANGED <<lease, versionChecked, history>>
      BY <1>3, <2>2 DEF Acquire
    <3> QED BY <1>3, <3>1, GiveUpType DEF TypeOK, Acquire, clocks, history
  <2> QED BY <2>1, <2>2
<1>4. ASSUME NEW w \in Worker, CheckVersion(w) PROVE TypeOK'
  <2>1. /\ versionChecked' \in [Worker -> BOOLEAN]
        /\ unseen' \in [Worker -> BOOLEAN]
    BY <1>4 DEF TypeOK, CheckVersion
  <2>2. pc' \in [Worker -> Stage]
    BY <1>4, GotoType DEF CheckVersion, Stage, Running, RenewSite
  <2> QED BY <1>4, <2>1, <2>2 DEF TypeOK, CheckVersion, clocks
<1>5. ASSUME NEW w \in Worker, RenewRead(w) PROVE TypeOK'
  <2>1. now' \in [Worker -> [wall : Nat, mono : Nat]]
    BY <1>5 DEF TypeOK, RenewRead, ReadClock
  <2>2. CASE GiveUp(w) /\ UNCHANGED renewing
    BY <1>5, <2>1, <2>2, GiveUpType DEF TypeOK, RenewRead, clocks, history
  <2>3. CASE Goto(w, AfterRenew[pc[w]]) /\ UNCHANGED <<leaseUntil, renewing>>
    <3>1. pc' \in [Worker -> Stage]
      BY <1>5, <2>3, StageNames, GotoType DEF RenewRead
    <3> QED BY <1>5, <2>1, <2>3, <3>1 DEF TypeOK, RenewRead, clocks, history
  <2>4. CASE renewing' = [renewing EXCEPT ![w] = TRUE] /\ UNCHANGED <<leaseUntil, pc>>
    BY <1>5, <2>1, <2>4 DEF TypeOK, RenewRead, clocks, history
  <2> QED BY <1>5, <2>2, <2>3, <2>4 DEF RenewRead
<1>6. ASSUME NEW w \in Worker, RenewWrite(w) PROVE TypeOK'
  <2>1. renewing' \in [Worker -> BOOLEAN]
    BY <1>6 DEF TypeOK, RenewWrite
  <2>2. CASE HeldAtNow(w)
    <3>1. lease' \in [owner : (Worker \X Nat) \cup {NoOwner}, until : Nat]
      BY <1>6, <2>2, ExpiryType DEF TypeOK, RenewWrite
    <3>2. /\ pc' \in [Worker -> Stage]
          /\ leaseUntil' \in [Worker -> Nat]
      BY <1>6, <2>2, StageNames, ExpiryType, GotoType, HoldType DEF RenewWrite
    <3> QED BY <1>6, <2>1, <3>1, <3>2 DEF TypeOK, RenewWrite, clocks, history
  <2>3. CASE ~HeldAtNow(w)
    <3>1. GiveUp(w) /\ UNCHANGED lease
      BY <1>6, <2>3 DEF RenewWrite
    <3> QED BY <1>6, <2>1, <3>1, GiveUpType DEF TypeOK, RenewWrite, clocks, history
  <2> QED BY <2>2, <2>3
<1>7. ASSUME NEW w \in Worker, Owe(w) \/ SaveRead(w) \/ FinishTick(w) PROVE TypeOK'
  <2>1. pc' \in [Worker -> Stage]
    BY <1>7, GotoType DEF Owe, SaveRead, FinishTick, Stage, Running, RenewSite
  <2>2. now' \in [Worker -> [wall : Nat, mono : Nat]]
    BY <1>7 DEF TypeOK, Owe, SaveRead, FinishTick, ReadClock
  <2> QED BY <1>7, <2>1, <2>2 DEF TypeOK, Owe, SaveRead, FinishTick, clocks, history
<1>8. ASSUME NEW w \in Worker, SaveWrite(w) PROVE TypeOK'
  <2>1. /\ pc' \in [Worker -> Stage]
        /\ leaseUntil' \in [Worker -> Nat]
    BY <1>8, StageNames, GotoType, GiveUpType DEF TypeOK, SaveWrite, HeldAtNow
  <2> QED BY <1>8, <2>1 DEF TypeOK, SaveWrite, clocks, history
<1>9. ASSUME NEW w \in Worker, FailTick(w) PROVE TypeOK'
  <2>1. pc' \in [Worker -> Stage]
    BY <1>9, StageNames, GotoType DEF FailTick
  <2>2. renewing' \in [Worker -> BOOLEAN]
    BY <1>9 DEF TypeOK, FailTick
  <2> QED BY <1>9, <2>1, <2>2 DEF TypeOK, FailTick, clocks, history
<1>10. ASSUME NEW w \in Worker, Start(w) PROVE TypeOK'
  <2>1. pc' \in [Worker -> Stage]
    BY <1>10, StageNames, GotoType DEF Start
  <2>2. gen' \in [Worker -> Nat]
    BY <1>10 DEF TypeOK, Start
  <2> QED BY <1>10, <2>1, <2>2 DEF TypeOK, Start, clocks, history
<1>11. ASSUME NEW w \in Worker, Close(w) \/ Crash(w) PROVE TypeOK'
  <2>1. Forget(w)
    BY <1>11 DEF Close, Crash
  <2>2. /\ pc' \in [Worker -> Stage]
        /\ leaseUntil' \in [Worker -> Nat]
    BY <2>1, StageNames, GotoType, HoldType DEF Forget
  <2>3. /\ renewing' \in [Worker -> BOOLEAN]
        /\ versionChecked' \in [Worker -> BOOLEAN]
    BY <2>1 DEF TypeOK, Forget
  <2>4. lease' \in [owner : (Worker \X Nat) \cup {NoOwner}, until : Nat]
    BY <1>11 DEF TypeOK, Close, Crash, ReleasedRow, NoLease
  <2> QED BY <1>11, <2>2, <2>3, <2>4 DEF TypeOK, Close, Crash, clocks, history
<1>12. CASE Tick
  BY <1>12 DEF TypeOK, Tick, history
<1>13. CASE StepWall
  BY <1>13, BoundsAssumption DEF TypeOK, StepWall, history
<1>14. CASE UNCHANGED vars
  BY <1>14 DEF TypeOK, vars, clocks, history
<1> QED
  BY <1>1, <1>2, <1>3, <1>4, <1>5, <1>6, <1>7, <1>8, <1>9, <1>10, <1>11,
     <1>12, <1>13, <1>14 DEF Next, TickStep

THEOREM TypeSafe == Spec => []TypeOK
BY TypeInit, TypeStep, PTL DEF Spec

-----------------------------------------------------------------------------
(* The fence *)

(* Once another process took the row over a running tick, the row cannot   *)
(* come back to that tick: only holdLease takes over, and it starts a new  *)
(* tick.  This is what the check inside the save's transaction rests on.   *)
IntrudedOut ==
  \A w \in Worker : pc[w] \in Running /\ intruded[w] => lease.owner # OwnerID(w)

LEMMA IntrudedOutStep == TypeOK /\ IntrudedOut /\ [Next]_vars => IntrudedOut'
<1> SUFFICES ASSUME TypeOK, IntrudedOut, [Next]_vars,
                    NEW v \in Worker, pc'[v] \in Running, intruded'[v]
             PROVE (lease.owner # OwnerID(v))'
  BY DEF IntrudedOut
<1> USE DEF TypeOK, Stage, Running, RenewSite, OwnerID
<1>0. pc[v] \in Running /\ intruded[v] => lease.owner # <<v, gen[v]>>
  BY DEF IntrudedOut
<1>1. ASSUME NEW w \in Worker, BeginTick(w) PROVE (lease.owner # OwnerID(v))'
  BY <1>0, <1>1 DEF BeginTick, Goto
<1>2. ASSUME NEW w \in Worker, Admit(w) PROVE (lease.owner # OwnerID(v))'
  BY <1>0, <1>2 DEF Admit, GiveUp, Goto, history
<1>3. ASSUME NEW w \in Worker, Acquire(w) PROVE (lease.owner # OwnerID(v))'
  <2>1. CASE AcquireAllowed(w)
    <3>1. v # w
      BY <1>3, <2>1 DEF Acquire
    <3>2. lease'.owner = <<w, gen[w]>> /\ gen' = gen
      BY <1>3, <2>1 DEF Acquire
    <3> QED BY <3>1, <3>2
  <2>2. CASE ~AcquireAllowed(w)
    BY <1>0, <1>3, <2>2 DEF Acquire, GiveUp, Goto, history
  <2> QED BY <2>1, <2>2
<1>4. ASSUME NEW w \in Worker, CheckVersion(w) PROVE (lease.owner # OwnerID(v))'
  BY <1>0, <1>4 DEF CheckVersion, Goto
<1>5. ASSUME NEW w \in Worker, RenewRead(w) PROVE (lease.owner # OwnerID(v))'
  BY <1>0, <1>5 DEF RenewRead, GiveUp, Goto, AfterRenew, history
<1>6. ASSUME NEW w \in Worker, RenewWrite(w) PROVE (lease.owner # OwnerID(v))'
  BY <1>0, <1>6 DEF RenewWrite, GiveUp, Goto, AfterRenew, history
<1>7. ASSUME NEW w \in Worker, Owe(w) \/ SaveRead(w) \/ SaveWrite(w)
                              \/ FinishTick(w) \/ FailTick(w)
      PROVE (lease.owner # OwnerID(v))'
  BY <1>0, <1>7 DEF Owe, SaveRead, SaveWrite, FinishTick, FailTick, GiveUp, Goto, history
<1>8. ASSUME NEW w \in Worker, Start(w) PROVE (lease.owner # OwnerID(v))'
  BY <1>0, <1>8 DEF Start, Goto, history
<1>9. ASSUME NEW w \in Worker, Close(w) \/ Crash(w) PROVE (lease.owner # OwnerID(v))'
  BY <1>0, <1>9, OwnerAssumption
     DEF Close, Crash, Forget, Goto, ReleasedRow, NoLease, history
<1>10. CASE Tick \/ StepWall
  BY <1>0, <1>10 DEF Tick, StepWall, history
<1>11. CASE UNCHANGED vars
  BY <1>0, <1>11 DEF vars, history
<1> QED
  BY <1>1, <1>2, <1>3, <1>4, <1>5, <1>6, <1>7, <1>8, <1>9, <1>10, <1>11
     DEF Next, TickStep

(* A grouping is never saved by a tick during which another process owned  *)
(* the lease: any number of workers, any stall, any wall-clock step.       *)
THEOREM SaveIsFenced == Spec => FencedSave
<1>1. Init => IntrudedOut
  BY DEF Init, IntrudedOut
<1>2. TypeOK /\ IntrudedOut /\ [Next]_vars
        => [\A w \in Worker : Saves(w) => ~intruded[w]]_vars
  <2> SUFFICES ASSUME TypeOK, IntrudedOut, Next, NEW w \in Worker, Saves(w)
               PROVE ~intruded[w]
    OBVIOUS
  <2> USE DEF Saves, TypeOK, Stage, Running, RenewSite
  <2>1. SaveWrite(w)
    <3>1. ASSUME NEW u \in Worker, u # w,
                 TickStep(u) \/ Start(u) \/ Close(u) \/ Crash(u)
          PROVE pc'[w] = pc[w]
      BY <3>1 DEF TickStep, BeginTick, Admit, Acquire, CheckVersion, RenewRead, RenewWrite,
           Owe, SaveRead, SaveWrite, FinishTick, FailTick, Start, Close, Crash,
           Forget, GiveUp, Goto
    <3>2. (Tick \/ StepWall) => pc' = pc
      BY DEF Tick, StepWall
    <3>3. TickStep(w) \/ Start(w) \/ Close(w) \/ Crash(w) => SaveWrite(w)
      BY DEF TickStep, BeginTick, Admit, Acquire, CheckVersion, RenewRead, RenewWrite,
           Owe, SaveRead, FinishTick, FailTick, Start, Close, Crash,
           Forget, GiveUp, Goto
    <3> QED BY <3>1, <3>2, <3>3 DEF Next
  <2>2. HeldAtNow(w)
    BY <2>1 DEF SaveWrite, GiveUp, Goto
  <2> QED BY <2>2 DEF HeldAtNow, IntrudedOut
<1> QED
  BY <1>1, <1>2, IntrudedOutStep, TypeSafe, PTL DEF Spec, FencedSave

-----------------------------------------------------------------------------
(* While the wall clock has not been stepped *)

(* It had not been stepped a step earlier either. *)
LEMMA StillUnstepped ==
  ASSUME TypeOK, [Next]_vars, steps' = 0
  PROVE  steps = 0 /\ ~StepWall
<1>1. ~StepWall
  BY DEF StepWall, TypeOK
<1>2. steps' = steps
  BY <1>1 DEF Next, TickStep, BeginTick, Admit, Acquire, CheckVersion, RenewRead,
     RenewWrite, Owe, SaveRead, SaveWrite, FinishTick, FailTick, Start, Close, Crash,
     Tick, clocks, vars
<1> QED BY <1>1, <1>2

(* A time the tick read is not in the future, and both clocks agree.       *)
ClocksAgree ==
  steps = 0 =>
    /\ wall = mono
    /\ \A w \in Worker : now[w].wall = now[w].mono /\ now[w].wall <= wall

LEMMA ClocksAgreeInit == ASSUME Init PROVE ClocksAgree
BY DEF Init, ClocksAgree

LEMMA ClocksAgreeStep ==
  ASSUME TypeOK, ClocksAgree, [Next]_vars
  PROVE  ClocksAgree'
<1> SUFFICES ASSUME steps' = 0 PROVE ClocksAgree'
  BY DEF ClocksAgree
<1>0. steps = 0 /\ ~StepWall
  BY StillUnstepped
<1>1. CASE UNCHANGED <<clocks, now>>
  BY <1>0, <1>1 DEF ClocksAgree, clocks
<1>2. ASSUME NEW w \in Worker, ReadClock(w), UNCHANGED clocks
      PROVE  ClocksAgree'
  BY <1>0, <1>2 DEF ClocksAgree, ReadClock, clocks, TypeOK
<1>3. CASE Tick
  BY <1>0, <1>3 DEF ClocksAgree, Tick, TypeOK
<1>5. ASSUME NEW w \in Worker, TickStep(w)
      PROVE  \/ UNCHANGED <<clocks, now>>
             \/ ReadClock(w) /\ UNCHANGED clocks
  BY <1>5 DEF TickStep, BeginTick, Admit, Acquire, CheckVersion, RenewRead,
     RenewWrite, Owe, SaveRead, SaveWrite, FinishTick, FailTick
<1>6. ASSUME NEW w \in Worker, Start(w) \/ Close(w) \/ Crash(w)
      PROVE  UNCHANGED <<clocks, now>>
  BY <1>6 DEF Start, Close, Crash
<1>7. CASE UNCHANGED vars
  BY <1>1, <1>7 DEF vars
<1> QED BY <1>0, <1>1, <1>2, <1>3, <1>5, <1>6, <1>7 DEF Next

(* What a worker remembers of its lease: exactly the row's expiry while    *)
(* the row is its own, and something already over once the row is not.     *)
Remembers(w) ==
  leaseUntil[w] # 0 =>
    /\ pc[w] # "down"
    /\ lease.owner = OwnerID(w) => leaseUntil[w] = lease.until
    /\ lease.owner # OwnerID(w) => leaseUntil[w] <= mono

RowRemembered == steps = 0 => \A w \in Worker : Remembers(w)

LEMMA RowRememberedStep ==
  ASSUME TypeOK, ClocksAgree, RowRemembered, [Next]_vars
  PROVE  RowRemembered'
<1> SUFFICES ASSUME steps' = 0, NEW v \in Worker, leaseUntil'[v] # 0
             PROVE  /\ pc'[v] # "down"
                    /\ lease'.owner = <<v, gen'[v]>> => leaseUntil'[v] = lease'.until
                    /\ lease'.owner # <<v, gen'[v]>> => leaseUntil'[v] <= mono'
  BY DEF RowRemembered, Remembers, OwnerID
<1> DEFINE Goal == /\ pc'[v] # "down"
                   /\ lease'.owner = <<v, gen'[v]>> => leaseUntil'[v] = lease'.until
                   /\ lease'.owner # <<v, gen'[v]>> => leaseUntil'[v] <= mono'
<1> USE DEF TypeOK
<1>a. steps = 0 /\ ~StepWall
  BY StillUnstepped
<1>b. wall = mono /\ \A w \in Worker : now[w].wall = now[w].mono /\ now[w].wall <= wall
  BY <1>a DEF ClocksAgree
<1>0. leaseUntil[v] # 0 =>
        /\ pc[v] # "down"
        /\ lease.owner = <<v, gen[v]>> => leaseUntil[v] = lease.until
        /\ lease.owner # <<v, gen[v]>> => leaseUntil[v] <= mono
  BY <1>a DEF RowRemembered, Remembers, OwnerID
<1>1. ASSUME NEW w \in Worker, UNCHANGED <<lease, gen, mono>>,
             NEW to \in Stage \ {"down"}, Goto(w, to),
             UNCHANGED leaseUntil \/ Hold(w, 0)
      PROVE  Goal
  <2>1. leaseUntil'[v] = leaseUntil[v]
    BY <1>1 DEF Hold
  <2>2. pc'[v] # "down"
    BY <1>0, <1>1, <2>1 DEF Goto
  <2> QED BY <1>0, <1>1, <2>1, <2>2
<1>2. ASSUME NEW w \in Worker, lease'.owner = <<w, gen[w]>>,
             \/ lease.owner \in {NoOwner, <<w, gen[w]>>}
             \/ lease.until <= mono,
             Hold(w, lease'.until), UNCHANGED <<gen, mono>>,
             NEW to \in Stage \ {"down"}, Goto(w, to), lease'.until \in Nat
      PROVE  Goal
  <2>1. CASE v = w
    BY <1>2, <2>1 DEF Hold, Goto
  <2>2. CASE v # w
    <3>1. leaseUntil'[v] = leaseUntil[v] /\ pc'[v] = pc[v]
      BY <1>2, <2>2 DEF Hold, Goto
    <3>2. lease.owner = <<v, gen[v]>> => lease.until <= mono
      BY <1>2, <2>2, OwnerAssumption
    <3> QED BY <1>0, <1>2, <2>2, <3>1, <3>2
  <2> QED BY <2>1, <2>2
<1>3. ASSUME NEW w \in Worker,
             BeginTick(w) \/ Admit(w) \/ CheckVersion(w) \/ Owe(w) \/ SaveRead(w)
               \/ SaveWrite(w) \/ FinishTick(w) \/ FailTick(w)
      PROVE  Goal
  BY <1>1, <1>3, StageNames
     DEF BeginTick, Admit, CheckVersion, Owe, SaveRead, SaveWrite, FinishTick, FailTick,
         GiveUp, HeldElsewhere, HeldAtNow, Fresh, clocks, Stage, Running, RenewSite
<1>4. ASSUME NEW w \in Worker, Acquire(w) PROVE Goal
  <2>1. CASE AcquireAllowed(w)
    <3>1. /\ lease' = [owner |-> OwnerID(w), until |-> Expiry(now[w].wall)]
          /\ Hold(w, Expiry(now[w].mono)) /\ Goto(w, "check")
          /\ UNCHANGED <<gen, mono>>
      BY <1>4, <2>1 DEF Acquire, clocks
    <3>2. now[w].wall = now[w].mono /\ now[w].wall <= mono /\ now[w].wall \in Nat /\ mono \in Nat
      BY <1>b
    <3>3. lease'.owner = <<w, gen[w]>> /\ Hold(w, lease'.until) /\ lease'.until \in Nat
      BY <3>1, <3>2, ExpiryType DEF OwnerID
    <3>4. lease.owner \in {NoOwner, <<w, gen[w]>>} \/ lease.until <= mono
      BY <2>1, <3>2 DEF AcquireAllowed, OwnerID
    <3>5. "check" \in Stage \ {"down"}
      BY DEF Stage, Running, RenewSite
    <3> QED BY <1>2, <3>1, <3>3, <3>4, <3>5
  <2>2. CASE ~AcquireAllowed(w)
    BY <1>1, <1>4, <2>2, StageNames DEF Acquire, GiveUp, clocks
  <2> QED BY <2>1, <2>2
<1>5. ASSUME NEW w \in Worker, RenewRead(w) PROVE Goal
  <2>0. UNCHANGED <<lease, gen, mono>>
    BY <1>5 DEF RenewRead, clocks
  <2>1. CASE GiveUp(w)
    BY <1>1, <2>0, <2>1, StageNames DEF GiveUp
  <2>2. CASE Goto(w, AfterRenew[pc[w]]) /\ UNCHANGED leaseUntil
    <3>1. AfterRenew[pc[w]] \in Stage \ {"down"}
      BY <1>5 DEF RenewRead, AfterRenew, RenewSite, Stage, Running
    <3> QED BY <1>1, <2>0, <2>2, <3>1
  <2>3. CASE UNCHANGED <<leaseUntil, pc>>
    BY <1>0, <2>0, <2>3
  <2> QED BY <1>5, <2>1, <2>2, <2>3 DEF RenewRead
<1>6. ASSUME NEW w \in Worker, RenewWrite(w) PROVE Goal
  <2>0. UNCHANGED <<gen, mono>>
    BY <1>6 DEF RenewWrite, clocks
  <2>1. CASE HeldAtNow(w)
    <3>1. /\ lease' = [lease EXCEPT !.until = Expiry(now[w].wall)]
          /\ Hold(w, Expiry(now[w].mono)) /\ Goto(w, AfterRenew[pc[w]])
      BY <1>6, <2>1 DEF RenewWrite
    <3>2. AfterRenew[pc[w]] \in Stage \ {"down"}
      BY <1>6 DEF RenewWrite, AfterRenew, RenewSite, Stage, Running
    <3>3. now[w].wall = now[w].mono
      BY <1>b
    <3>4. lease'.owner = <<w, gen[w]>> /\ Hold(w, lease'.until) /\ lease'.until \in Nat
      BY <2>1, <3>1, <3>3, ExpiryType DEF HeldAtNow, OwnerID
    <3>5. lease.owner = <<w, gen[w]>>
      BY <2>1 DEF HeldAtNow, OwnerID
    <3> QED BY <1>2, <2>0, <3>1, <3>2, <3>4, <3>5
  <2>2. CASE ~HeldAtNow(w)
    BY <1>1, <1>6, <2>0, <2>2, StageNames DEF RenewWrite, GiveUp
  <2> QED BY <2>1, <2>2
<1>7. ASSUME NEW w \in Worker, Start(w) PROVE Goal
  BY <1>0, <1>7 DEF Start, Goto, clocks
<1>8. ASSUME NEW w \in Worker, Close(w) \/ Crash(w) PROVE Goal
  <2>1. v # w
    BY <1>8 DEF Close, Crash, Forget, Hold
  <2>2. leaseUntil'[v] = leaseUntil[v] /\ pc'[v] = pc[v] /\ UNCHANGED <<gen, mono>>
    BY <1>8, <2>1 DEF Close, Crash, Forget, Hold, Goto, clocks
  <2>3. lease' = lease \/ (lease.owner = <<w, gen[w]>> /\ lease'.owner = NoOwner)
    BY <1>8 DEF Close, Crash, ReleasedRow, NoLease, OwnerID
  <2>4. CASE lease' = lease
    BY <1>0, <2>2, <2>4
  <2>5. CASE lease.owner = <<w, gen[w]>> /\ lease'.owner = NoOwner
    <3>1. lease.owner # <<v, gen[v]>> /\ lease'.owner # <<v, gen[v]>>
      BY <2>1, <2>5, OwnerAssumption
    <3> QED BY <1>0, <2>2, <3>1
  <2> QED BY <2>3, <2>4, <2>5
<1>9. CASE Tick
  BY <1>0, <1>9 DEF Tick
<1>11. CASE UNCHANGED vars
  BY <1>0, <1>11 DEF vars, clocks
<1> QED
  BY <1>3, <1>4, <1>5, <1>6, <1>7, <1>8, <1>9, <1>a, <1>11 DEF Next, TickStep

(* Until the wall clock is stepped, two workers never both believe they  *)
(* hold the lease, so the phases fenced only by leaseLive run alone.       *)
THEOREM AtMostOneBeliever == Spec => []OneBeliever
<1>1. Init => ClocksAgree /\ RowRemembered
  BY ClocksAgreeInit DEF Init, RowRemembered, Remembers
<1>2. TypeOK /\ ClocksAgree /\ RowRemembered /\ [Next]_vars => (ClocksAgree /\ RowRemembered)'
  BY ClocksAgreeStep, RowRememberedStep
<1>3. TypeOK /\ RowRemembered => OneBeliever
  <2> SUFFICES ASSUME TypeOK, RowRemembered, steps = 0, NEW v \in Worker, NEW w \in Worker,
                      Believes(v), Believes(w)
               PROVE v = w
    BY DEF OneBeliever
  <2>1. ASSUME NEW u \in Worker, Believes(u) PROVE lease.owner = OwnerID(u)
    BY <2>1 DEF Believes, LeaseLive, RowRemembered, Remembers, TypeOK
  <2> QED BY <2>1 DEF OwnerID
<1> QED BY <1>1, <1>2, <1>3, TypeSafe, PTL DEF Spec

(* No process outlives its budget of starts, so its owner ID, and the      *)
(* row's, is one of the abstract owners.                                   *)
Owners == Worker \X (0..MaxStarts)

GenBounded ==
  /\ \A w \in Worker : gen[w] <= MaxStarts
  /\ lease.owner \in Owners \cup {NoOwner}

LEMMA GenBoundedStep == ASSUME TypeOK, GenBounded, [Next]_vars PROVE GenBounded'
<1>a. \A w \in Worker : OwnerID(w) \in Owners
  BY BoundsAssumption DEF OwnerID, GenBounded, TypeOK, Owners
<1>1. ASSUME NEW w \in Worker, Start(w) PROVE GenBounded'
  BY <1>1, BoundsAssumption DEF Start, GenBounded, TypeOK
<1>2. ASSUME NEW w \in Worker, Acquire(w) PROVE GenBounded'
  <2>1. lease'.owner \in {lease.owner, OwnerID(w)} /\ gen' = gen
    <3>1. CASE AcquireAllowed(w)
      BY <1>2, <3>1 DEF Acquire
    <3>2. CASE ~AcquireAllowed(w)
      BY <1>2, <3>2 DEF Acquire
    <3> QED BY <3>1, <3>2
  <2> QED BY <1>a, <2>1 DEF GenBounded
<1>3. ASSUME NEW w \in Worker, RenewWrite(w) PROVE GenBounded'
  <2>1. lease'.owner = lease.owner /\ gen' = gen
    <3>1. CASE HeldAtNow(w)
      BY <1>3, <3>1 DEF RenewWrite, TypeOK
    <3>2. CASE ~HeldAtNow(w)
      BY <1>3, <3>2 DEF RenewWrite
    <3> QED BY <3>1, <3>2
  <2> QED BY <2>1 DEF GenBounded
<1>4. ASSUME NEW w \in Worker, Close(w) PROVE GenBounded'
  BY <1>4 DEF Close, ReleasedRow, NoLease, GenBounded
<1>5. \/ gen' = gen /\ lease' = lease
      \/ \E w \in Worker : Start(w) \/ Acquire(w) \/ RenewWrite(w) \/ Close(w)
  BY DEF Next, TickStep, BeginTick, Admit, CheckVersion, RenewRead,
     Owe, SaveRead, SaveWrite, FinishTick, FailTick, Crash,
     Tick, StepWall, vars
<1> QED BY <1>1, <1>2, <1>3, <1>4, <1>5 DEF GenBounded

(* The lease row refines the clockless lease until the wall clock is       *)
(* stepped: the row changes hands only after it lapsed or was released by  *)
(* its owner.  The first step maps to a release, and nothing after it.     *)
THEOREM RowImplementsLease == Spec => ImplementsWorkerLease
<1>1. Init => Abstract!LeaseInit
  BY DEF Init, NoLease, Abstract!LeaseInit
<1>2. Init => ClocksAgree /\ GenBounded
  BY ClocksAgreeInit, BoundsAssumption DEF Init, GenBounded, NoLease
<1>3. TypeOK /\ ClocksAgree /\ GenBounded /\ [Next]_vars => (ClocksAgree /\ GenBounded)'
  BY ClocksAgreeStep, GenBoundedStep
<1>4. ASSUME TypeOK, ClocksAgree, GenBounded, [Next]_vars
      PROVE  [Abstract!LeaseNext]_(Abstract!leaseVars)
  <2> DEFINE holder == IF steps = 0 THEN lease.owner ELSE NoOwner
             lapsed == steps = 0 /\ lease.owner # NoOwner /\ lease.until <= wall
  <2>b. CASE steps' # 0
    <3>1. holder' = NoOwner /\ lapsed' = FALSE
      BY <2>b
    <3>2. CASE steps = 0 /\ lease.owner # NoOwner
      <4>1. holder = lease.owner /\ lease.owner \in Worker \X (0..MaxStarts)
        BY <1>4, <3>2 DEF GenBounded, Owners
      <4>2. Abstract!Release(lease.owner)
        BY <3>1, <4>1 DEF Abstract!Release
      <4> QED BY <4>1, <4>2 DEF Abstract!LeaseNext
    <3>3. CASE ~(steps = 0 /\ lease.owner # NoOwner)
      <4>1. holder = NoOwner /\ lapsed = FALSE
        BY <3>3
      <4> QED BY <3>1, <4>1 DEF Abstract!leaseVars
    <3> QED BY <3>2, <3>3
  <2> SUFFICES ASSUME steps' = 0
               PROVE  [Abstract!LeaseNext]_(Abstract!leaseVars)
    BY <2>b
  <2>c. steps = 0
    BY <1>4, StillUnstepped
  <2>d. holder = lease.owner /\ holder' = lease'.owner
    BY <2>c
  <2>a. \A w \in Worker : OwnerID(w) \in Worker \X (0..MaxStarts) /\ OwnerID(w) # NoOwner
    BY <1>4, BoundsAssumption, OwnerAssumption DEF OwnerID, GenBounded, TypeOK
  <2>1. CASE lease' = lease
    <3>1. lapsed' = lapsed \/ (~lapsed /\ lapsed') \/ (lapsed /\ ~lapsed')
      OBVIOUS
    <3> QED BY <2>1, <2>c, <2>d, <3>1
         DEF Abstract!LeaseNext, Abstract!Lapse, Abstract!Revive, Abstract!leaseVars
  <2>2. ASSUME NEW w \in Worker, AcquireAllowed(w), lease'.owner = OwnerID(w),
               UNCHANGED clocks
        PROVE  Abstract!Take(OwnerID(w))
    <3>1. lease.owner \in {NoOwner, OwnerID(w)} \/ lapsed
      BY <1>4, <2>2, <2>a, <2>c DEF AcquireAllowed, ClocksAgree, TypeOK
    <3>2. lapsed' \in BOOLEAN
      OBVIOUS
    <3> QED BY <2>2, <2>c, <2>d, <3>1, <3>2 DEF Abstract!Take, Abstract!Available
  <2>3. ASSUME NEW w \in Worker, HeldAtNow(w), lease'.owner = lease.owner
        PROVE  [Abstract!LeaseNext]_(Abstract!leaseVars)
    <3>1. lease.owner # NoOwner
      BY <2>a, <2>3 DEF HeldAtNow
    <3>2. lapsed' = lapsed \/ (~lapsed /\ lapsed') \/ (lapsed /\ ~lapsed')
      OBVIOUS
    <3> QED BY <2>3, <2>c, <2>d, <3>1, <3>2
         DEF Abstract!LeaseNext, Abstract!Lapse, Abstract!Revive, Abstract!leaseVars
  <2>4. ASSUME NEW w \in Worker, lease.owner = OwnerID(w), lease' = NoLease
        PROVE  Abstract!Release(OwnerID(w))
    BY <2>4, <2>a, <2>c, <2>d DEF Abstract!Release, NoLease
  <2>5. ASSUME NEW w \in Worker, TickStep(w) \/ Start(w) \/ Close(w) \/ Crash(w)
        PROVE  \/ lease' = lease
               \/ AcquireAllowed(w) /\ lease'.owner = OwnerID(w) /\ UNCHANGED clocks
               \/ HeldAtNow(w) /\ lease'.owner = lease.owner
               \/ lease.owner = OwnerID(w) /\ lease' = NoLease
    <3>1. CASE Acquire(w)
      <4>1. CASE AcquireAllowed(w)
        BY <3>1, <4>1 DEF Acquire
      <4>2. CASE ~AcquireAllowed(w)
        BY <3>1, <4>2 DEF Acquire
      <4> QED BY <4>1, <4>2
    <3>2. CASE RenewWrite(w)
      <4>1. CASE HeldAtNow(w)
        BY <1>4, <3>2, <4>1 DEF RenewWrite, TypeOK
      <4>2. CASE ~HeldAtNow(w)
        BY <3>2, <4>2 DEF RenewWrite
      <4> QED BY <4>1, <4>2
    <3>3. CASE Close(w)
      BY <3>3 DEF Close, ReleasedRow
    <3> QED BY <2>5, <3>1, <3>2, <3>3
         DEF TickStep, BeginTick, Admit, CheckVersion, RenewRead,
             Owe, SaveRead, SaveWrite, FinishTick, FailTick, Start, Crash
  <2>6. Tick \/ StepWall \/ UNCHANGED vars => lease' = lease
    BY DEF Tick, StepWall, vars
  <2>7. ASSUME NEW w \in Worker, TickStep(w) \/ Start(w) \/ Close(w) \/ Crash(w)
        PROVE  [Abstract!LeaseNext]_(Abstract!leaseVars)
    <3>1. \/ lease' = lease
          \/ Abstract!Take(OwnerID(w))
          \/ HeldAtNow(w) /\ lease'.owner = lease.owner
          \/ Abstract!Release(OwnerID(w))
      BY <2>2, <2>4, <2>5, <2>7
    <3>2. CASE Abstract!Take(OwnerID(w)) \/ Abstract!Release(OwnerID(w))
      BY <2>a, <3>2 DEF Abstract!LeaseNext
    <3> QED BY <2>1, <2>3, <3>1, <3>2
  <2> QED
    BY <1>4, <2>1, <2>6, <2>7 DEF Next
<1> QED
  BY <1>1, <1>2, <1>3, <1>4, TypeSafe, PTL
     DEF Spec, ImplementsWorkerLease, Abstract!LeaseSpec
=============================================================================
