-------------------------- MODULE LiveProcessProofs --------------------------
(* Proofs about LiveProcess: for any requests, samples and number of        *)
(* uploads, the store outlives what uses it, the panel never takes back     *)
(* what a reply said, and the exit code tells an owner's failure; and about *)
(* JournalIngest, one of the workers that process runs: its totals count    *)
(* every attempt once, and a label shown as current covers all of them.     *)
EXTENDS LiveProcess, JournalIngest, FiniteOrder, FiniteSetTheorems, TLAPS

Ending == {"nil", "cancelled", "genuine"}
Reading == [at : {"idle", "get", "computing"}, of : Sample \cup {None},
            floor : SUBSET Sample, pool : SUBSET Sample]
Sending == [at : {"check", "share", "shared", "refused"}, of : Sample,
            floor : SUBSET Sample, pool : SUBSET Sample]
Refresh == [gen : Nat, read : BOOLEAN, pool : SUBSET Sample]
Cache == [ok : BOOLEAN, pool : SUBSET Sample, fresh : BOOLEAN, refreshing : BOOLEAN, gen : Nat]

LifeTypeOK ==
  /\ parent \in {"live", "ended"} /\ cause \in {None, "signal", "owner"}
  /\ main \in {"start", "run", "join", "exited"} /\ verdict \in {None, "clean", "failed"}
  /\ server \in {"bind", "refused", "accept", "shutdown", "close", "joined", "ended"}
  /\ leaving \in Ending
  /\ work \in {"wait", "seed", "seeded", "workers", "ended"}
  /\ result \in [Owner \cup {"store"} -> Ending \cup {None}] /\ workErr \in Ending
  /\ store \in {"open", "closed"}

PanelTypeOK ==
  /\ request \in [Request -> Reading \cup Sending]
  /\ cache \in Cache
  /\ refresh \in SUBSET Refresh
  /\ ledger \in SUBSET Sample /\ told \in SUBSET Sample

LiveTypeOK == LifeTypeOK /\ PanelTypeOK

(* What a value of the panel was computed from is what is still to share   *)
(* after every reply so far: the cache's while it is kept, a refresh's     *)
(* while its generation is the cache's, a reader's while it holds the      *)
(* mutex.  A request's own floor is older, so it is covered too.           *)
Untold(pool) == pool \cap told = {}
Honest(q) ==
  /\ q.floor \subseteq told
  /\ q.at = "computing" => Untold(q.pool)
  /\ q.at = "shared" => q.of \in ledger
  /\ q.at = "idle" => q.pool \cap q.floor = {}
PanelInv ==
  /\ told \subseteq ledger
  /\ cache.ok => Untold(cache.pool)
  /\ \A f \in refresh : f.gen <= cache.gen /\ (f.read /\ Current(f) => Untold(f.pool))
  /\ \A r \in Request : Honest(request[r])

(* The process exits before it started anything or after both owners       *)
(* returned; a server that returned joined its requests, and then, no      *)
(* request being left to start another, its refreshes.                     *)
ExitInv ==
  /\ store = "closed" <=> main = "exited"
  /\ result["server"] # None <=> server \in {"refused", "ended"}
  /\ result["work"] # None <=> work = "ended"
  /\ main = "start" => server = "bind" /\ work = "wait"
  /\ main = "exited" => \/ server = "bind" /\ work = "wait"
                        \/ server \in {"refused", "ended"} /\ work = "ended"
  /\ server \in {"bind", "refused", "joined", "ended"} => Quiet
  /\ server \in {"bind", "refused", "ended"} => refresh = {}

(* What cancelled first decides what the first error may be forgiven. *)
VerdictInv ==
  /\ cause = "signal" => parent = "ended"
  /\ cause = "owner" => workErr # "nil" /\ main # "start"
  /\ workErr = "genuine" => \E o \in Owner : result[o] = "genuine"
  /\ main = "join" => Ended
  /\ VerdictTrue

-----------------------------------------------------------------------------
(* The steps of the process and its owners, and those of the panel. *)
LifeStep == Main \/ Work \/ Server \/ Signal \/ ServeFails
PanelStep ==
  \/ \E r \in Viewer : Ask(r)
  \/ \E r \in Uploader, s \in Sample : Post(r, s)
  \/ \E r \in Request : Handle(r)
  \/ RefreshReads \/ RefreshEnds \/ Expire
  \/ \E s \in Sample : ShareElsewhere(s)

LEMMA TwoSides ==
  /\ LiveNext <=> LifeStep \/ PanelStep
  /\ LifeStep => UNCHANGED panelVars
  /\ PanelStep => UNCHANGED <<lifeVars, server, leaving, stopping>>
<1>1. LiveNext <=> LifeStep \/ PanelStep
  BY DEF LiveNext, LifeStep, PanelStep
<1>2. LifeStep => UNCHANGED panelVars
  BY DEF LifeStep, Main, Work, Server, Signal, ServeFails, Start, BeginDraining, Exit,
         SeedBegins, SeedEnds, WorkersBegin, WorkersEnd, Listen, BeginShutdown, ShutdownReturns,
         HandlersJoined, ServerReturns, ServerGoes, ServerEnds
<1>3. PanelStep => UNCHANGED <<lifeVars, server, leaving, stopping>>
  BY DEF PanelStep, Handle, Ask, Post, Get, Computed, CheckLedger, ShareSample, Invalidate,
         RefreshReads, RefreshEnds, Expire, ShareElsewhere
<1> QED
  BY <1>1, <1>2, <1>3

LEMMA ReturnsTyped ==
  ASSUME LifeTypeOK, NEW o \in Owner, NEW e \in Ending, OwnerReturns(o, e)
  PROVE  /\ result' \in [Owner \cup {"store"} -> Ending \cup {None}] /\ workErr' \in Ending
         /\ cause' \in {None, "signal", "owner"}
         /\ result'[o] \in Ending /\ \A p \in Owner \cup {"store"} : p # o => result'[p] = result[p]
<1> DEFINE err == IF e = "nil" /\ ~Ended THEN "genuine" ELSE e
<1>1. err \in Ending
  BY DEF Ending
<1>2. /\ result' = [result EXCEPT ![o] = err]
      /\ workErr' = IF workErr = "nil" THEN err ELSE workErr
      /\ cause' = IF err # "nil" /\ ~Ended THEN "owner" ELSE cause
  BY DEF OwnerReturns
<1> HIDE DEF err
<1> QED
  BY <1>1, <1>2 DEF LifeTypeOK

LEMMA CloseTyped ==
  ASSUME LifeTypeOK, NEW errs, CloseStore(errs)
  PROVE  /\ result' \in [Owner \cup {"store"} -> Ending \cup {None}]
         /\ \A o \in Owner : result'[o] = result[o]
         /\ verdict' \in {"clean", "failed"} /\ store' = "closed" /\ main' = "exited"
BY DEF CloseStore, ShutdownResult, LifeTypeOK, Ending, Owner

LEMMA LifeType ==
  ASSUME LifeTypeOK, LifeStep
  PROVE  LifeTypeOK'
<1>1. CASE Start
  BY <1>1, CloseTyped DEF Start, LifeTypeOK
<1>2. CASE BeginDraining
  BY <1>2 DEF BeginDraining, LifeTypeOK
<1>3. CASE Exit
  BY <1>3, CloseTyped DEF Exit, LifeTypeOK
<1>4. CASE Work
  <2>1. ASSUME NEW e \in Ending, WorkEnds(e) PROVE result' \in [Owner \cup {"store"} -> Ending \cup {None}]
          /\ workErr' \in Ending /\ cause' \in {None, "signal", "owner"} /\ work' = "ended"
    BY <2>1, ReturnsTyped DEF WorkEnds, Owner
  <2>2. "cancelled" \in Ending /\ "genuine" \in Ending /\ "nil" \in Ending
    BY DEF Ending
  <2>3. /\ result' \in [Owner \cup {"store"} -> Ending \cup {None}]
        /\ workErr' \in Ending /\ cause' \in {None, "signal", "owner"}
        /\ work' \in {"seed", "seeded", "workers", "ended"}
    BY <1>4, <2>1, <2>2 DEF Work, SeedBegins, SeedEnds, WorkersBegin, WorkersEnd, WorkGoes, LifeTypeOK
  <2>4. UNCHANGED <<parent, main, verdict, store, server, leaving>>
    BY <1>4 DEF Work, SeedBegins, SeedEnds, WorkersBegin, WorkersEnd
  <2> QED
    BY <2>3, <2>4 DEF LifeTypeOK
<1>5. CASE Server \/ ServeFails
  <2>1. ASSUME NEW at \in {"refused", "ended"}, NEW e \in Ending, ServerEnds(at, e) PROVE LifeTypeOK'
    BY <2>1, ReturnsTyped DEF ServerEnds, LifeTypeOK, Owner
  <2>2. ASSUME NEW at \in {"accept", "shutdown", "close", "joined"}, NEW e \in Ending, ServerGoes(at, e)
        PROVE  LifeTypeOK'
    BY <2>2 DEF ServerGoes, LifeTypeOK, lifeVars
  <2>3. "cancelled" \in Ending /\ "genuine" \in Ending /\ "nil" \in Ending /\ leaving \in Ending
    BY DEF Ending, LifeTypeOK
  <2> QED
    BY <1>5, <2>1, <2>2, <2>3 DEF Server, ServeFails, Listen, BeginShutdown, ShutdownReturns,
       HandlersJoined, ServerReturns
<1>6. CASE Signal
  BY <1>6 DEF Signal, LifeTypeOK
<1> QED
  BY <1>1, <1>2, <1>3, <1>4, <1>5, <1>6 DEF LifeStep, Main

(* A request keeps its fields' types under a new stage or a new pool. *)
LEMMA RequestTyped ==
  ASSUME PanelTypeOK, NEW r \in Request
  PROVE  /\ Idle \in Reading
         /\ \A at \in {"idle", "get", "computing"}, pool \in SUBSET Sample :
              request[r] \in Reading => [request[r] EXCEPT !.at = at, !.pool = pool] \in Reading
         /\ \A at \in {"idle", "get", "computing"} :
              request[r] \in Reading => [request[r] EXCEPT !.at = at] \in Reading
         /\ \A at \in {"check", "share", "shared", "refused"} :
              request[r] \in Sending => [request[r] EXCEPT !.at = at] \in Sending
         /\ request[r].at \in {"idle", "get", "computing"} => request[r] \in Reading
         /\ request[r].at \in {"check", "share", "shared", "refused"} => request[r] \in Sending
<1>1. request[r] \in Reading \cup Sending /\ None \in Sample \cup {None} /\ {} \in SUBSET Sample
  BY DEF PanelTypeOK
<1>2. Idle \in Reading
  BY <1>1 DEF Idle, Reading
<1>3. ASSUME NEW at \in {"idle", "get", "computing"}, NEW pool \in SUBSET Sample, request[r] \in Reading
      PROVE  [request[r] EXCEPT !.at = at, !.pool = pool] \in Reading
  BY <1>3, Zenon DEF Reading
<1>4. ASSUME NEW at \in {"idle", "get", "computing"}, request[r] \in Reading
      PROVE  [request[r] EXCEPT !.at = at] \in Reading
  BY <1>4, Zenon DEF Reading
<1>5. ASSUME NEW at \in {"check", "share", "shared", "refused"}, request[r] \in Sending
      PROVE  [request[r] EXCEPT !.at = at] \in Sending
  BY <1>5, Zenon DEF Sending
<1>6. /\ request[r].at \in {"idle", "get", "computing"} => request[r] \in Reading
      /\ request[r].at \in {"check", "share", "shared", "refused"} => request[r] \in Sending
  BY <1>1 DEF Reading, Sending
<1> QED
  BY <1>2, <1>3, <1>4, <1>5, <1>6

LEMMA CacheTyped ==
  ASSUME PanelTypeOK
  PROVE  /\ \A pool \in SUBSET Sample :
              /\ [cache EXCEPT !.ok = TRUE, !.pool = pool, !.fresh = TRUE] \in Cache
              /\ [cache EXCEPT !.refreshing = FALSE, !.pool = pool, !.fresh = TRUE] \in Cache
         /\ \A b \in BOOLEAN : [cache EXCEPT !.refreshing = b] \in Cache
         /\ [cache EXCEPT !.fresh = FALSE] \in Cache
         /\ [cache EXCEPT !.ok = FALSE, !.gen = @ + 1] \in Cache
<1>1. cache \in Cache /\ TRUE \in BOOLEAN /\ FALSE \in BOOLEAN
  BY DEF PanelTypeOK
<1>2. ASSUME NEW pool \in SUBSET Sample
      PROVE  /\ [cache EXCEPT !.ok = TRUE, !.pool = pool, !.fresh = TRUE] \in Cache
             /\ [cache EXCEPT !.refreshing = FALSE, !.pool = pool, !.fresh = TRUE] \in Cache
  <2>1. [cache EXCEPT !.ok = TRUE, !.pool = pool, !.fresh = TRUE] \in Cache
    BY <1>1, Zenon DEF Cache
  <2>2. [cache EXCEPT !.refreshing = FALSE, !.pool = pool, !.fresh = TRUE] \in Cache
    BY <1>1, Zenon DEF Cache
  <2> QED
    BY <2>1, <2>2
<1>3. ASSUME NEW b \in BOOLEAN PROVE [cache EXCEPT !.refreshing = b] \in Cache
  BY <1>1, Zenon DEF Cache
<1>4. [cache EXCEPT !.fresh = FALSE] \in Cache
  BY <1>1, Zenon DEF Cache
<1>5. [cache EXCEPT !.ok = FALSE, !.gen = @ + 1] \in Cache
  <2>1. cache.gen + 1 \in Nat
    BY <1>1 DEF Cache
  <2> QED
    BY <1>1, <2>1, Zenon DEF Cache
<1> QED
  BY <1>2, <1>3, <1>4, <1>5

LEMMA HandleType ==
  ASSUME PanelTypeOK, NEW r \in Request, Handle(r)
  PROVE  PanelTypeOK'
<1>0. {} \in SUBSET Sample /\ Sample \ ledger \in SUBSET Sample /\ cache.pool \in SUBSET Sample
  BY DEF PanelTypeOK, Cache
<1>1. ASSUME NEW new \in Reading \cup Sending, request' = [request EXCEPT ![r] = new]
      PROVE  request' \in [Request -> Reading \cup Sending]
  BY <1>1 DEF PanelTypeOK
<1>2. ASSUME request[r] \in Reading, NEW pool \in SUBSET Sample, Reply(r, pool)
      PROVE  request' \in [Request -> Reading \cup Sending]
  <2>1. request' = [request EXCEPT ![r] = [request[r] EXCEPT !.at = "idle", !.pool = pool]]
    BY <1>2 DEF Reply, PanelTypeOK, Reading
  <2> QED
    BY <1>1, <1>2, <2>1, RequestTyped
<1>3. ASSUME NEW at \in {"check", "share", "shared", "refused"}, request[r] \in Sending, Goes(r, at)
      PROVE  request' \in [Request -> Reading \cup Sending]
  <2>1. request' = [request EXCEPT ![r] = [request[r] EXCEPT !.at = at]]
    BY <1>3, Zenon DEF Goes
  <2> QED
    BY <1>1, <1>3, <2>1, RequestTyped
<1>4. ASSUME Done(r) PROVE request' \in [Request -> Reading \cup Sending]
  BY <1>1, <1>4, RequestTyped DEF Done
<1>5. CASE Get(r)
  <2>1. request[r] \in Reading
    BY <1>5, RequestTyped DEF Get
  <2>2. request' \in [Request -> Reading \cup Sending]
    <3>1. CASE cache.ok
      BY <1>0, <1>2, <1>5, <2>1, <3>1 DEF Get
    <3>2. CASE ~cache.ok
      <4>1. request' = [request EXCEPT ![r] =
                          [request[r] EXCEPT !.at = "computing", !.pool = Sample \ ledger]]
        BY <1>5, <2>1, <3>2 DEF Get, PanelTypeOK, Reading
      <4> QED
        BY <1>0, <1>1, <2>1, <4>1, RequestTyped
    <3> QED
      BY <3>1, <3>2
  <2>3. cache' \in Cache /\ refresh' \in SUBSET Refresh
    <3>1. cache.gen \in Nat
      BY DEF PanelTypeOK, Cache
    <3>2. [gen |-> cache.gen, read |-> FALSE, pool |-> {}] \in Refresh
      BY <3>1 DEF Refresh
    <3> QED
      BY <1>5, <3>2, CacheTyped DEF Get, PanelTypeOK
  <2> QED
    BY <1>5, <2>2, <2>3 DEF Get, PanelTypeOK
<1>6. CASE Computed(r)
  <2>1. request[r] \in Reading /\ request[r].pool \in SUBSET Sample
    BY <1>6, RequestTyped DEF Computed, Reading
  <2>2. request' \in [Request -> Reading \cup Sending]
    <3>1. CASE Goes(r, "idle")
      <4>1. request' = [request EXCEPT ![r] = [request[r] EXCEPT !.at = "idle"]]
        BY <3>1, Zenon DEF Goes
      <4> QED
        BY <1>1, <2>1, <4>1, RequestTyped
    <3> QED
      BY <1>0, <1>2, <1>6, <2>1, <3>1 DEF Computed
  <2>3. cache' \in Cache
    BY <1>6, <2>1, CacheTyped DEF Computed, PanelTypeOK
  <2> QED
    BY <1>6, <2>2, <2>3 DEF Computed, PanelTypeOK
<1>7. CASE CheckLedger(r)
  <2>1. request[r] \in Sending
    BY <1>7, RequestTyped DEF CheckLedger
  <2> QED
    BY <1>3, <1>4, <1>7, <2>1 DEF CheckLedger, PanelTypeOK
<1>8. CASE ShareSample(r)
  <2>1. request[r] \in Sending /\ request[r].of \in Sample
    BY <1>8, RequestTyped DEF ShareSample, Sending
  <2>2. request' \in [Request -> Reading \cup Sending]
    BY <1>3, <1>8, <2>1 DEF ShareSample
  <2> QED
    BY <1>8, <2>1, <2>2 DEF ShareSample, PanelTypeOK
<1>9. CASE Invalidate(r)
  <2>1. request[r] \in Sending /\ request[r].of \in Sample
    BY <1>9, RequestTyped DEF Invalidate, Sending
  <2>2. request' \in [Request -> Reading \cup Sending] /\ cache' \in Cache
    BY <1>4, <1>9, CacheTyped DEF Invalidate
  <2> QED
    BY <1>9, <2>1, <2>2 DEF Invalidate, PanelTypeOK
<1> QED
  BY <1>5, <1>6, <1>7, <1>8, <1>9 DEF Handle

LEMMA PanelType ==
  ASSUME PanelTypeOK, PanelStep
  PROVE  PanelTypeOK'
<1>1. ASSUME NEW r \in Viewer, Ask(r) PROVE PanelTypeOK'
  <2>1. [Idle EXCEPT !.at = "get", !.floor = told] \in Reading
    <3>1. Idle \in Reading /\ told \in SUBSET Sample
      BY RequestTyped DEF PanelTypeOK, Request
    <3> QED
      BY <3>1, Zenon DEF Reading
  <2> QED
    BY <1>1, <2>1 DEF Ask, PanelTypeOK, Request
<1>2. ASSUME NEW r \in Uploader, NEW s \in Sample, Post(r, s) PROVE PanelTypeOK'
  <2>1. [Idle EXCEPT !.at = "check", !.of = s] \in Sending
    BY DEF Idle, Sending
  <2> QED
    BY <1>2, <2>1 DEF Post, PanelTypeOK, Request
<1>3. CASE RefreshReads
  <2>1. PICK f \in refresh :
          refresh' = (refresh \ {f}) \cup {[f EXCEPT !.read = TRUE, !.pool = Sample \ ledger]}
    BY <1>3 DEF RefreshReads
  <2>2. f \in Refresh /\ TRUE \in BOOLEAN /\ Sample \ ledger \in SUBSET Sample
    BY DEF PanelTypeOK
  <2>3. [f EXCEPT !.read = TRUE, !.pool = Sample \ ledger] \in Refresh
    BY <2>2, Zenon DEF Refresh
  <2> QED
    BY <1>3, <2>1, <2>3 DEF RefreshReads, PanelTypeOK
<1>4. CASE RefreshEnds
  <2>1. PICK f \in refresh, good \in BOOLEAN :
          /\ refresh' = refresh \ {f}
          /\ cache' = IF good /\ Current(f)
                      THEN [cache EXCEPT !.refreshing = FALSE, !.pool = f.pool, !.fresh = TRUE]
                      ELSE [cache EXCEPT !.refreshing = FALSE]
    BY <1>4 DEF RefreshEnds
  <2>2. f.pool \in SUBSET Sample /\ FALSE \in BOOLEAN
    BY DEF PanelTypeOK, Refresh
  <2>3. cache' \in Cache
    BY <2>1, <2>2, CacheTyped
  <2> QED
    BY <1>4, <2>1, <2>3 DEF RefreshEnds, PanelTypeOK
<1>5. CASE Expire
  BY <1>5, CacheTyped DEF Expire, PanelTypeOK
<1>6. ASSUME NEW s \in Sample, ShareElsewhere(s) PROVE PanelTypeOK'
  BY <1>6 DEF ShareElsewhere, PanelTypeOK
<1> QED
  BY <1>1, <1>2, <1>3, <1>4, <1>5, <1>6, HandleType DEF PanelStep

-----------------------------------------------------------------------------
(* A step that tells nothing leaves every other request honest, and what   *)
(* was computed from the ledger is untold.                                 *)
LEMMA StillHonest ==
  ASSUME PanelTypeOK, PanelInv, told' = told, ledger \subseteq ledger', NEW r \in Request, NEW new,
         request' = [request EXCEPT ![r] = new], Honest(new)'
  PROVE  \A q \in Request : Honest(request[q])'
BY DEF PanelTypeOK, PanelInv, Honest, Untold

LEMMA GetKeeps ==
  ASSUME PanelTypeOK, PanelInv, NEW r \in Request, Get(r)
  PROVE  PanelInv'
<1>1. UNCHANGED <<ledger, told>> /\ request[r] \in Reading /\ request[r].at = "get"
  BY RequestTyped DEF Get
<1>2. Honest(request[r]) /\ Untold(Sample \ ledger)
  BY DEF PanelInv, Untold
<1>3. CASE cache.ok
  <2>0. PICK new : new = [request[r] EXCEPT !.at = "idle", !.pool = cache.pool]
    OBVIOUS
  <2>1. request' = [request EXCEPT ![r] = new]
    BY <1>1, <1>3, <2>0 DEF Get, Reply, PanelTypeOK, Reading
  <2>2. new.at = "idle" /\ new.pool = cache.pool /\ new.floor = request[r].floor
    BY <1>1, <2>0 DEF Reading
  <2>3. Honest(new)'
    BY <1>1, <1>2, <1>3, <2>2 DEF Honest, PanelInv, Untold
  <2>4. \A q \in Request : Honest(request[q])'
    <3> QED
      BY <1>1, <2>1, <2>3, StillHonest
  <2>5. /\ cache'.ok = cache.ok /\ cache'.pool = cache.pool /\ cache'.gen = cache.gen
        /\ refresh' = refresh \/ refresh' = refresh \cup {[gen |-> cache.gen, read |-> FALSE, pool |-> {}]}
    BY <1>3 DEF Get, PanelTypeOK, Cache
  <2>6. \A f \in refresh' : f.gen <= cache'.gen /\ (f.read /\ Current(f)' => Untold(f.pool)')
    BY <1>1, <2>5 DEF PanelInv, Current, Untold, PanelTypeOK, Cache
  <2> QED
    BY <1>1, <2>4, <2>5, <2>6 DEF PanelInv, Untold
<1>4. CASE ~cache.ok
  <2>0. PICK new : new = [request[r] EXCEPT !.at = "computing", !.pool = Sample \ ledger]
    OBVIOUS
  <2>1. request' = [request EXCEPT ![r] = new] /\ UNCHANGED <<cache, refresh>>
    BY <1>1, <1>4, <2>0 DEF Get, PanelTypeOK, Reading
  <2>2. new.at = "computing" /\ new.pool = Sample \ ledger /\ new.floor = request[r].floor
    BY <1>1, <2>0 DEF Reading
  <2>3. Honest(new)'
    BY <1>1, <1>2, <2>2 DEF Honest, Untold
  <2>4. \A q \in Request : Honest(request[q])'
    <3> QED
      BY <1>1, <2>1, <2>3, StillHonest
  <2> QED
    BY <1>1, <2>1, <2>4 DEF PanelInv, Untold, Current
<1> QED
  BY <1>3, <1>4

LEMMA ComputedKeeps ==
  ASSUME PanelTypeOK, PanelInv, NEW r \in Request, Computed(r)
  PROVE  PanelInv'
<1>1. UNCHANGED <<ledger, told, refresh>> /\ request[r] \in Reading /\ Untold(request[r].pool)
  BY RequestTyped DEF Computed, PanelInv, Honest
<1>2. \E pool \in {request[r].pool, {}} :
         request' = [request EXCEPT ![r] = [request[r] EXCEPT !.at = "idle", !.pool = pool]]
  <2>1. CASE Goes(r, "idle")
    <3>1. [request[r] EXCEPT !.at = "idle"] = [request[r] EXCEPT !.at = "idle", !.pool = request[r].pool]
      BY <1>1 DEF Reading
    <3> QED
      BY <2>1, <3>1 DEF Goes
  <2>2. CASE Reply(r, {})
    <3>1. request' = [request EXCEPT ![r] = [request[r] EXCEPT !.at = "idle", !.pool = {}]]
      BY <1>1, <2>2 DEF Reply, PanelTypeOK, Reading
    <3> QED
      BY <3>1
  <2> QED
    BY <2>1, <2>2 DEF Computed
<1>3. PICK pool \in {request[r].pool, {}} :
         request' = [request EXCEPT ![r] = [request[r] EXCEPT !.at = "idle", !.pool = pool]]
  BY <1>2
<1>0. PICK new : new = [request[r] EXCEPT !.at = "idle", !.pool = pool]
  OBVIOUS
<1>4. new.at = "idle" /\ new.pool = pool /\ new.floor = request[r].floor
  BY <1>0, <1>1 DEF Reading
<1>5. Honest(new)'
  BY <1>1, <1>3, <1>4 DEF Honest, PanelInv, Untold
<1>6. \A q \in Request : Honest(request[q])'
  <2> QED
    BY <1>0, <1>1, <1>3, <1>5, StillHonest
<1>7. cache'.gen = cache.gen /\ (cache'.ok => Untold(cache'.pool))
  BY <1>1 DEF Computed, PanelTypeOK, Cache, PanelInv
<1> QED
  BY <1>1, <1>6, <1>7 DEF PanelInv, Untold, Current

LEMMA UploadKeeps ==
  ASSUME PanelTypeOK, PanelInv, NEW r \in Request, CheckLedger(r) \/ ShareSample(r)
  PROVE  PanelInv'
<1>1. UNCHANGED <<told, cache, refresh>> /\ request[r] \in Sending /\ ledger \subseteq ledger'
  BY RequestTyped DEF CheckLedger, ShareSample
<1>2. PICK new : /\ request' = [request EXCEPT ![r] = new] /\ Honest(new)'
  <2>1. ASSUME NEW at \in {"share", "shared", "refused"}, Goes(r, at),
               at = "shared" => request[r].of \in ledger'
        PROVE  \E new : request' = [request EXCEPT ![r] = new] /\ Honest(new)'
    <3>0. PICK new : new = [request[r] EXCEPT !.at = at]
      OBVIOUS
    <3>1. new.at = at /\ new.floor = request[r].floor /\ new.of = request[r].of
      BY <1>1, <3>0 DEF Sending
    <3>2. Honest(new)'
      BY <1>1, <2>1, <3>1 DEF Honest, PanelInv, Untold
    <3>3. request' = [request EXCEPT ![r] = new]
      BY <2>1, <3>0, Zenon DEF Goes
    <3> QED
      BY <3>2, <3>3
  <2>2. ASSUME Done(r) PROVE \E new : request' = [request EXCEPT ![r] = new] /\ Honest(new)'
    <3>1. Honest(Idle)'
      BY DEF Idle, Honest
    <3> QED
      BY <2>2, <3>1 DEF Done
  <2> QED
    BY <2>1, <2>2 DEF CheckLedger, ShareSample
<1>3. \A q \in Request : Honest(request[q])'
  BY <1>1, <1>2, StillHonest
<1> QED
  BY <1>1, <1>3 DEF PanelInv, Untold, Current

(* A reply that calls a sample shared ends every value computed before it. *)
LEMMA InvalidateKeeps ==
  ASSUME PanelTypeOK, PanelInv, NEW r \in Request, Invalidate(r)
  PROVE  PanelInv'
<1>1. /\ UNCHANGED <<refresh, ledger>> /\ told \subseteq told' /\ told' \subseteq ledger
      /\ \A q \in Request : request[q].at # "computing"
  BY DEF Invalidate, PanelInv, Honest, Unlocked
<1>2. /\ cache'.ok = FALSE /\ cache'.gen = cache.gen + 1 /\ cache.gen \in Nat
      /\ \A f \in refresh : f.gen \in Nat
  BY DEF Invalidate, PanelTypeOK, Cache, Refresh
<1>3. \A f \in refresh' : f.gen <= cache'.gen /\ ~Current(f)'
  BY <1>1, <1>2 DEF PanelInv, Current
<1>4. request' = [request EXCEPT ![r] = Idle]
  BY DEF Invalidate, Done
<1>5. Honest(Idle)'
  BY DEF Idle, Honest
<1>6. ASSUME NEW q \in Request PROVE Honest(request[q])'
  <2>1. CASE q = r
    <3>1. request'[q] = Idle
      BY <1>4, <2>1 DEF PanelTypeOK
    <3> QED
      BY <1>5, <3>1 DEF Honest, Untold
  <2>2. CASE q # r
    <3>1. request'[q] = request[q]
      BY <1>4, <2>2 DEF PanelTypeOK
    <3> QED
      BY <1>1, <3>1 DEF PanelInv, Honest
  <2> QED
    BY <2>1, <2>2
<1> QED
  BY <1>1, <1>2, <1>3, <1>6 DEF PanelInv

LEMMA PanelKeeps ==
  ASSUME PanelTypeOK, PanelInv, PanelStep
  PROVE  PanelInv'
<1>1. ASSUME NEW r \in Request, NEW new, request' = [request EXCEPT ![r] = new], Honest(new)',
             UNCHANGED <<told, ledger, cache, refresh>>
      PROVE  PanelInv'
  BY <1>1, StillHonest DEF PanelInv, Untold, Current
<1>2. ASSUME NEW r \in Viewer, Ask(r) PROVE PanelInv'
  <2>0. PICK new : new = [Idle EXCEPT !.at = "get", !.floor = told]
    OBVIOUS
  <2>1. new.at = "get" /\ new.floor = told
    BY <2>0 DEF Idle
  <2>2. Honest(new)' /\ request' = [request EXCEPT ![r] = new] /\ UNCHANGED <<told, ledger, cache, refresh>>
    BY <1>2, <2>0, <2>1 DEF Ask, Honest
  <2> QED
    BY <1>1, <2>2 DEF Request
<1>3. ASSUME NEW r \in Uploader, NEW s \in Sample, Post(r, s) PROVE PanelInv'
  <2>0. PICK new : new = [Idle EXCEPT !.at = "check", !.of = s]
    OBVIOUS
  <2>1. new.at = "check" /\ new.floor = {}
    BY <2>0 DEF Idle
  <2>2. Honest(new)' /\ request' = [request EXCEPT ![r] = new] /\ UNCHANGED <<told, ledger, cache, refresh>>
    BY <1>3, <2>0, <2>1 DEF Post, Honest
  <2> QED
    BY <1>1, <2>2 DEF Request
<1>4. ASSUME UNCHANGED <<told, request>>, ledger \subseteq ledger'
      PROVE  told' \subseteq ledger' /\ \A r \in Request : Honest(request[r])'
  BY <1>4 DEF PanelInv, Honest, Untold
<1>5. CASE RefreshReads
  <2>1. UNCHANGED <<told, ledger, cache, request>>
    BY <1>5 DEF RefreshReads
  <2>2. PICK f \in refresh :
          refresh' = (refresh \ {f}) \cup {[f EXCEPT !.read = TRUE, !.pool = Sample \ ledger]}
    BY <1>5 DEF RefreshReads
  <2>3. /\ [f EXCEPT !.read = TRUE, !.pool = Sample \ ledger].gen = f.gen
        /\ [f EXCEPT !.read = TRUE, !.pool = Sample \ ledger].pool = Sample \ ledger
    BY DEF PanelTypeOK, Refresh
  <2>4. \A g \in refresh' : g.gen <= cache.gen /\ (g.read /\ Current(g) => Untold(g.pool))
    BY <2>2, <2>3 DEF PanelInv, Untold
  <2> QED
    BY <1>4, <2>1, <2>4 DEF PanelInv, Current, Untold
<1>6. CASE RefreshEnds
  <2>1. UNCHANGED <<told, ledger, request>>
    BY <1>6 DEF RefreshEnds
  <2>2. PICK f \in refresh, good \in BOOLEAN :
          /\ good => f.read
          /\ refresh' = refresh \ {f}
          /\ cache' = IF good /\ Current(f)
                      THEN [cache EXCEPT !.refreshing = FALSE, !.pool = f.pool, !.fresh = TRUE]
                      ELSE [cache EXCEPT !.refreshing = FALSE]
    BY <1>6 DEF RefreshEnds
  <2>3. cache'.gen = cache.gen /\ (cache'.ok => Untold(cache'.pool))
    BY <2>2 DEF PanelInv, PanelTypeOK, Cache
  <2> QED
    BY <1>4, <2>1, <2>2, <2>3 DEF PanelInv, Current, Untold
<1>7. CASE Expire
  <2>1. UNCHANGED <<told, ledger, request, refresh>>
    BY <1>7 DEF Expire
  <2>2. cache'.gen = cache.gen /\ cache'.ok = cache.ok /\ cache'.pool = cache.pool
    BY <1>7 DEF Expire, PanelTypeOK, Cache
  <2> QED
    BY <1>4, <2>1, <2>2 DEF PanelInv, Current, Untold
<1>8. ASSUME NEW s \in Sample, ShareElsewhere(s) PROVE PanelInv'
  BY <1>4, <1>8 DEF ShareElsewhere, PanelInv, Current, Untold
<1> QED
  BY <1>2, <1>3, <1>5, <1>6, <1>7, <1>8, GetKeeps, ComputedKeeps, UploadKeeps, InvalidateKeeps
     DEF PanelStep, Handle

-----------------------------------------------------------------------------
(* Where the server takes no request and has none, none comes to be. *)
LEMMA QuietStays ==
  ASSUME PanelStep, Quiet, server # "accept"
  PROVE  request' = request /\ (refresh = {} => refresh' = {})
<1>1. \A r \in Request : ~Handle(r)
  BY DEF Quiet, Running, Handle, Get, Computed, CheckLedger, ShareSample, Invalidate
<1>2. (\A r : ~Ask(r)) /\ \A r, s : ~Post(r, s)
  BY DEF Ask, Post
<1>3. RefreshReads \/ RefreshEnds \/ Expire \/ \E s \in Sample : ShareElsewhere(s)
  BY <1>1, <1>2 DEF PanelStep
<1> QED
  BY <1>3 DEF RefreshReads, RefreshEnds, Expire, ShareElsewhere

LEMMA ExitKeeps ==
  ASSUME LifeTypeOK, ExitInv, LifeStep \/ PanelStep
  PROVE  ExitInv'
<1>1. CASE PanelStep
  <2>1. UNCHANGED <<store, main, result, server, work>>
    BY <1>1, TwoSides DEF lifeVars
  <2>2. server \in {"bind", "refused", "joined", "ended"} => Quiet'
    BY <1>1, QuietStays DEF ExitInv, Quiet, Running
  <2>3. server \in {"bind", "refused", "ended"} => refresh' = {}
    BY <1>1, QuietStays DEF ExitInv
  <2> QED
    BY <2>1, <2>2, <2>3 DEF ExitInv
<1>2. ASSUME LifeStep PROVE UNCHANGED <<request, refresh>> /\ Quiet' = Quiet
  BY <1>2, TwoSides DEF panelVars, Quiet, Running
<1>3. CASE Start
  BY <1>2, <1>3, CloseTyped DEF LifeStep, Main, Start, ExitInv, LifeTypeOK, Owner
<1>4. CASE BeginDraining
  BY <1>2, <1>4 DEF LifeStep, Main, BeginDraining, ExitInv, LifeTypeOK
<1>5. CASE Exit
  BY <1>2, <1>5, CloseTyped DEF LifeStep, Main, Exit, ExitInv, LifeTypeOK, Owner
<1>6. CASE Work
  <2>1. UNCHANGED <<main, store, server>> /\ main # "start" /\ work' # "wait"
    BY <1>6 DEF Work, SeedBegins, SeedEnds, WorkersBegin, WorkersEnd, WorkEnds, WorkGoes, ExitInv, Launched
  <2>2. main # "exited"
    BY <1>6 DEF Work, SeedBegins, SeedEnds, WorkersBegin, WorkersEnd, ExitInv, Launched
  <2>3. /\ result'["server"] = result["server"]
        /\ result'["work"] # None <=> work' = "ended"
    <3>1. ASSUME NEW e \in Ending, WorkEnds(e)
          PROVE  result'["server"] = result["server"] /\ result'["work"] # None /\ work' = "ended"
      BY <3>1, ReturnsTyped DEF WorkEnds, Owner, Ending, None
    <3>2. ASSUME NEW at \in {"seed", "seeded", "workers"}, WorkGoes(at), work # "ended"
          PROVE  result' = result /\ work' # "ended" /\ result["work"] = None
      BY <3>2 DEF WorkGoes, ExitInv
    <3>3. "cancelled" \in Ending /\ "genuine" \in Ending /\ "nil" \in Ending
      BY DEF Ending
    <3> QED
      BY <1>6, <3>1, <3>2, <3>3 DEF Work, SeedBegins, SeedEnds, WorkersBegin, WorkersEnd
  <2> QED
    BY <1>2, <1>6, <2>1, <2>2, <2>3 DEF LifeStep, ExitInv
<1>7. CASE Server \/ ServeFails
  <2>1. UNCHANGED <<main, store, work>>
    BY <1>7 DEF Server, ServeFails, Listen, BeginShutdown, ShutdownReturns, HandlersJoined,
       ServerReturns, ServerGoes, ServerEnds, lifeVars
  <2>2. server \notin {"refused", "ended"} /\ main \notin {"start", "exited"}
    BY <1>7 DEF Server, ServeFails, Listen, BeginShutdown, ShutdownReturns, HandlersJoined,
       ServerReturns, ExitInv, Launched
  <2>3. /\ server' # "bind"
        /\ server' \in {"refused", "joined", "ended"} => Quiet
        /\ server' \in {"refused", "ended"} => refresh = {}
    BY <1>7 DEF Server, ServeFails, Listen, BeginShutdown, ShutdownReturns, HandlersJoined,
       ServerReturns, ServerGoes, ServerEnds, ExitInv, RefreshesJoined
  <2>4. /\ result'["work"] = result["work"]
        /\ result'["server"] # None <=> server' \in {"refused", "ended"}
    <3>1. ASSUME NEW at \in {"refused", "ended"}, NEW e \in Ending, ServerEnds(at, e)
          PROVE  result'["work"] = result["work"] /\ result'["server"] # None /\ server' = at
      BY <3>1, ReturnsTyped DEF ServerEnds, Owner, Ending, None
    <3>2. ASSUME NEW at \in {"accept", "shutdown", "close", "joined"}, NEW e, ServerGoes(at, e)
          PROVE  result' = result /\ server' = at /\ result["server"] = None
      BY <2>2, <3>2 DEF ServerGoes, lifeVars, ExitInv
    <3>3. "cancelled" \in Ending /\ "genuine" \in Ending /\ leaving \in Ending
      BY DEF Ending, LifeTypeOK
    <3> QED
      BY <1>7, <3>1, <3>2, <3>3 DEF Server, ServeFails, Listen, BeginShutdown, ShutdownReturns,
         HandlersJoined, ServerReturns
  <2> QED
    BY <1>2, <1>7, <2>1, <2>2, <2>3, <2>4 DEF LifeStep, ExitInv
<1>8. CASE Signal
  BY <1>2, <1>8 DEF LifeStep, Signal, ExitInv
<1> QED
  BY <1>1, <1>3, <1>4, <1>5, <1>6, <1>7, <1>8 DEF LifeStep, Main

(* The first error an owner returns is the one that is judged. *)
LEMMA ReturnsJudged ==
  ASSUME LifeTypeOK, VerdictInv, main \in {"run", "join"}, main' = main, parent' = parent,
         NEW o \in Owner, NEW e \in Ending, result[o] = None, OwnerReturns(o, e)
  PROVE  VerdictInv'
<1> DEFINE err == IF e = "nil" /\ ~Ended THEN "genuine" ELSE e
<1>1. err \in Ending /\ (e = "genuine" => err = "genuine")
  BY DEF Ending
<1>2. /\ result' = [result EXCEPT ![o] = err]
      /\ workErr' = IF workErr = "nil" THEN err ELSE workErr
      /\ cause' = IF err # "nil" /\ ~Ended THEN "owner" ELSE cause
  BY DEF OwnerReturns
<1> HIDE DEF err
<1>3. workErr' = "genuine" => \E p \in Owner : result'[p] = "genuine"
  <2>1. CASE workErr = "genuine"
    <3>1. PICK p \in Owner : result[p] = "genuine"
      BY <2>1 DEF VerdictInv
    <3>2. p # o
      BY <3>1 DEF None
    <3> QED
      BY <1>2, <3>1, <3>2 DEF LifeTypeOK
  <2>2. CASE workErr # "genuine"
    BY <1>2, <2>2 DEF LifeTypeOK
  <2> QED
    BY <2>1, <2>2
<1>4. cause' = "owner" => workErr' # "nil"
  BY <1>2 DEF VerdictInv
<1>5. /\ cause' = "signal" => parent' = "ended"
      /\ main' = "join" => Ended'
  BY <1>2 DEF VerdictInv, Ended, None
<1> QED
  BY <1>3, <1>4, <1>5 DEF VerdictInv, VerdictTrue

LEMMA VerdictKeeps ==
  ASSUME LifeTypeOK, ExitInv, VerdictInv, LifeStep \/ PanelStep
  PROVE  VerdictInv'
<1>1. CASE UNCHANGED <<parent, cause, main, verdict, result, workErr>>
  BY <1>1 DEF VerdictInv, VerdictTrue, Ended
<1>2. CASE PanelStep
  BY <1>1, <1>2, TwoSides DEF lifeVars
<1>3. CASE Start
  <2>1. CASE Ended
    <3>1. CloseStore({"cancelled"}) /\ UNCHANGED <<parent, cause, workErr>>
      BY <1>3, <2>1 DEF Start
    <3>2. cause = "signal" /\ parent = "ended"
      BY <1>3, <2>1 DEF Start, Ended, VerdictInv, LifeTypeOK
    <3>3. verdict' = "failed" => result'["store"] = "genuine"
      BY <3>1, <3>2 DEF CloseStore, ShutdownResult, Signalled, LifeTypeOK
    <3>4. \A o \in Owner : result'[o] = result[o]
      BY <3>1, CloseTyped
    <3> QED
      BY <3>1, <3>2, <3>3, <3>4, CloseTyped DEF VerdictInv, VerdictTrue, Ended, LifeTypeOK
  <2>2. CASE ~Ended
    BY <1>3, <2>2 DEF Start, VerdictInv, VerdictTrue, Ended, None
  <2> QED
    BY <2>1, <2>2
<1>4. CASE BeginDraining
  BY <1>4 DEF BeginDraining, VerdictInv, VerdictTrue, Ended
<1>5. CASE Exit
  <2> DEFINE err == IF ~serving /\ workErr = "nil" THEN "cancelled" ELSE workErr
  <2>1. CloseStore({err}) /\ UNCHANGED <<parent, cause, workErr>> /\ main = "join" /\ Ended
    BY <1>5 DEF Exit, VerdictInv
  <2>2. cause = "owner" => err # "nil"
    BY DEF VerdictInv
  <2>3. err = "genuine" => workErr = "genuine"
    OBVIOUS
  <2>4. err \in Ending
    BY DEF LifeTypeOK, Ending
  <2> HIDE DEF err
  <2>5. PICK closing \in {"nil", "genuine"} :
          /\ result' = [result EXCEPT !["store"] = closing]
          /\ verdict' = ShutdownResult(Signalled(parent, cause), {err} \cup {closing})
    BY <2>1 DEF CloseStore
  <2>6. cause = "owner" => verdict' = "failed"
    BY <2>2, <2>4, <2>5 DEF ShutdownResult, Signalled, Ending
  <2>7. cause # "owner" => Signalled(parent, cause)
    BY <2>1 DEF VerdictInv, Ended, Signalled, LifeTypeOK
  <2>8. cause # "owner" /\ verdict' = "failed" => err = "genuine" \/ closing = "genuine"
    BY <2>4, <2>5, <2>7 DEF ShutdownResult, Ending
  <2>9. \A o \in Owner : result'[o] = result[o]
    BY <2>1, CloseTyped
  <2>10. result'["store"] = closing /\ DOMAIN result' = Owner \cup {"store"}
    BY <2>5 DEF LifeTypeOK
  <2>11. cause # "owner" /\ verdict' = "failed" => \E p \in DOMAIN result' : result'[p] = "genuine"
    BY <2>3, <2>8, <2>9, <2>10 DEF VerdictInv
  <2> QED
    BY <2>1, <2>6, <2>9, <2>11, CloseTyped DEF VerdictInv, VerdictTrue, Ended
<1>6. CASE Work
  <2>1. UNCHANGED <<main, parent, verdict>> /\ main \in {"run", "join"} /\ result["work"] = None
    BY <1>6 DEF Work, SeedBegins, SeedEnds, WorkersBegin, WorkersEnd, ExitInv, Launched, LifeTypeOK
  <2>2. ASSUME NEW e \in Ending, WorkEnds(e) PROVE VerdictInv'
    BY <2>1, <2>2, ReturnsJudged DEF WorkEnds, Owner
  <2>3. ASSUME NEW at, WorkGoes(at) PROVE VerdictInv'
    BY <1>1, <2>1, <2>3 DEF WorkGoes
  <2>4. "cancelled" \in Ending /\ "genuine" \in Ending /\ "nil" \in Ending
    BY DEF Ending
  <2> QED
    BY <1>6, <2>2, <2>3, <2>4 DEF Work, SeedBegins, SeedEnds, WorkersBegin, WorkersEnd
<1>7. CASE Server \/ ServeFails
  <2>1. UNCHANGED <<main, parent, verdict>> /\ main \in {"run", "join"} /\ result["server"] = None
    BY <1>7 DEF Server, ServeFails, Listen, BeginShutdown, ShutdownReturns, HandlersJoined,
       ServerReturns, ServerGoes, ServerEnds, lifeVars, ExitInv, Launched, LifeTypeOK
  <2>2. ASSUME NEW at, NEW e \in Ending, ServerEnds(at, e) PROVE VerdictInv'
    BY <2>1, <2>2, ReturnsJudged DEF ServerEnds, Owner
  <2>3. ASSUME NEW at, NEW e, ServerGoes(at, e) PROVE VerdictInv'
    BY <1>1, <2>3 DEF ServerGoes, lifeVars
  <2>4. "cancelled" \in Ending /\ "genuine" \in Ending /\ leaving \in Ending
    BY DEF Ending, LifeTypeOK
  <2> QED
    BY <1>7, <2>2, <2>3, <2>4 DEF Server, ServeFails, Listen, BeginShutdown, ShutdownReturns,
       HandlersJoined, ServerReturns
<1>8. CASE Signal
  BY <1>8 DEF Signal, VerdictInv, VerdictTrue, Ended, None
<1> QED
  BY <1>2, <1>3, <1>4, <1>5, <1>6, <1>7, <1>8 DEF LifeStep, Main

-----------------------------------------------------------------------------
LiveInv == LiveTypeOK /\ PanelInv /\ ExitInv /\ VerdictInv

LEMMA LiveInvInit == LiveInit => LiveInv
<1>1. SUFFICES ASSUME LiveInit PROVE LiveInv
  OBVIOUS
<1>2. Idle \in Reading /\ Honest(Idle)
  BY DEF Idle, Reading, Honest
<1>3. LifeTypeOK
  BY <1>1 DEF LiveInit, LifeTypeOK, Ending
<1>4. PanelTypeOK
  BY <1>1, <1>2 DEF LiveInit, PanelTypeOK, Cache
<1>5. PanelInv
  BY <1>1, <1>2 DEF LiveInit, PanelInv
<1>6. ExitInv
  BY <1>1 DEF LiveInit, ExitInv, Quiet, Running, Idle, Owner
<1>7. VerdictInv
  BY <1>1 DEF LiveInit, VerdictInv, VerdictTrue, Ended, None
<1> QED
  BY <1>3, <1>4, <1>5, <1>6, <1>7 DEF LiveInv, LiveTypeOK

LEMMA LiveInvNext == LiveInv /\ [LiveNext]_liveVars => LiveInv'
<1>1. SUFFICES ASSUME LiveInv, [LiveNext]_liveVars PROVE LiveInv'
  OBVIOUS
<1>2. CASE UNCHANGED liveVars
  BY <1>1, <1>2 DEF liveVars, lifeVars, panelVars, LiveInv, LiveTypeOK, LifeTypeOK, PanelTypeOK,
     PanelInv, Honest, Untold, Current, ExitInv, Quiet, Running, VerdictInv, VerdictTrue, Ended
<1>3. ASSUME UNCHANGED panelVars PROVE PanelTypeOK' /\ PanelInv'
  BY <1>1, <1>3 DEF panelVars, LiveInv, LiveTypeOK, PanelTypeOK, PanelInv, Honest, Untold, Current
<1>4. ASSUME UNCHANGED <<lifeVars, server, leaving, stopping>> PROVE LifeTypeOK'
  BY <1>1, <1>4 DEF lifeVars, LiveInv, LiveTypeOK, LifeTypeOK
<1>5. CASE LifeStep
  BY <1>1, <1>3, <1>5, TwoSides, LifeType, ExitKeeps, VerdictKeeps DEF LiveInv, LiveTypeOK
<1>6. CASE PanelStep
  BY <1>1, <1>4, <1>6, TwoSides, PanelType, PanelKeeps, ExitKeeps, VerdictKeeps DEF LiveInv, LiveTypeOK
<1> QED
  BY <1>1, <1>2, <1>5, <1>6, TwoSides

LEMMA LiveInvariant == LiveSpec => []LiveInv
BY LiveInvInit, LiveInvNext, PTL DEF LiveSpec

(* openLiveStore's close is the last thing the live process does: neither  *)
(* a request nor a background refresh nor the seed nor a worker is left to *)
(* use the store, however the drains, failures and signals interleave.     *)
THEOREM StoreClosesLast == LiveSpec => []StoreOutlives
<1>1. LiveInv => StoreOutlives
  BY DEF LiveInv, ExitInv, StoreOutlives
<1> QED
  BY <1>1, LiveInvariant, PTL

(* A panel asked for after an upload's reply called a sample shared does   *)
(* not offer it (swrCache's generation, invalidate before the reply).      *)
THEOREM PanelNeverStale == LiveSpec => []PanelFresh
<1>1. LiveInv => PanelFresh
  <2>1. SUFFICES ASSUME LiveInv, NEW r \in Viewer, ~Running(r)
                 PROVE  request[r].pool \cap request[r].floor = {}
    BY DEF PanelFresh
  <2> QED
    BY <2>1 DEF LiveInv, PanelInv, Honest, Running, Request
<1> QED
  BY <1>1, LiveInvariant, PTL

(* The exit code: an owner that failed before any signal fails the         *)
(* process, and a failed exit has an owner's or the store's genuine error  *)
(* behind it or was not asked for (shutdownResult, signalled).             *)
THEOREM VerdictsAreTrue == LiveSpec => []VerdictTrue
<1>1. LiveInv => VerdictTrue
  BY DEF LiveInv, VerdictInv
<1> QED
  BY <1>1, LiveInvariant, PTL

-----------------------------------------------------------------------------
(* JournalIngest, for any actors, usernames, page sizes and retention.     *)

Entry == [actor : Attacker \cup {0}, user : Username \cup {0}]
Folding == [revision : Nat, building : Int, completed : Int, after : Nat, fold : SUBSET Username,
            folded : Nat, started : BOOLEAN,
            status : {"none", "unknown_history", "pending", "current"}]

(* The totals of an actor: the events counted, the usernames counted, and  *)
(* what they were counted from.                                            *)
Totals(events, unique, past, lines, names, kept, annotated) ==
  /\ past \in Nat /\ unique \in Nat
  /\ IsFiniteSet(lines) /\ IsFiniteSet(names)
  /\ events = past + Cardinality(lines)
  /\ kept \subseteq names /\ Cardinality(names) <= unique
  /\ annotated \/ (kept = names /\ unique = Cardinality(names))

(* A fold of the present revision holds the usernames up to its cursor.    *)
FoldKept(s, kept) ==
  /\ s \in Folding
  /\ s.building <= s.revision /\ s.completed <= s.revision
  /\ Resumes(s) => s.fold = {u \in kept : u <= s.after} /\ s.folded = Cardinality(s.fold)
  /\ s.completed = s.revision => Resumes(s) /\ s.fold = kept

(* Sizes of disjoint sets add up.                                           *)
LEMMA DisjointUnion ==
  ASSUME NEW S, NEW T, IsFiniteSet(S), IsFiniteSet(T), S \cap T = {}
  PROVE  IsFiniteSet(S \cup T) /\ Cardinality(S \cup T) = Cardinality(S) + Cardinality(T)
<1>1. Cardinality(S) \in Nat /\ Cardinality(T) \in Nat /\ Cardinality({}) = 0
  BY FS_CardinalityType, FS_EmptySet
<1>2. IsFiniteSet(S \cup T) /\ Cardinality(S \cup T) = Cardinality(S) + Cardinality(T) - Cardinality(S \cap T)
  BY FS_Union
<1>3. Cardinality(S \cap T) = 0
  BY <1>1
<1> QED
  BY <1>1, <1>2, <1>3

(* Lines and names counted anew, each once, keep the totals.                *)
LEMMA TotalsGrow ==
  ASSUME NEW ev, NEW un, NEW past, NEW lines, NEW names, NEW kept, NEW ann,
         Totals(ev, un, past, lines, names, kept, ann),
         NEW more, IsFiniteSet(more), more \cap lines = {},
         NEW N, IsFiniteSet(N)
  PROVE  Totals(ev + Cardinality(more), un + Cardinality(N \ kept), past, lines \cup more,
                names \cup N, kept \cup N, ann)
<1>1. /\ past \in Nat /\ un \in Nat /\ IsFiniteSet(lines) /\ IsFiniteSet(names)
      /\ ev = past + Cardinality(lines)
      /\ kept \subseteq names /\ Cardinality(names) <= un
      /\ ann \/ (kept = names /\ un = Cardinality(names))
  BY DEF Totals
<1>2. IsFiniteSet(lines \cup more) /\ Cardinality(lines \cup more) = Cardinality(lines) + Cardinality(more)
  BY <1>1, DisjointUnion
<1>3. /\ Cardinality(lines) \in Nat /\ Cardinality(more) \in Nat /\ Cardinality(names) \in Nat
  BY <1>1, FS_CardinalityType
<1>4. /\ IsFiniteSet(N \ kept) /\ Cardinality(N \ kept) \in Nat
      /\ IsFiniteSet(N \ names) /\ Cardinality(N \ names) \in Nat
  BY FS_Difference, FS_CardinalityType
<1>5. Cardinality(N \ names) <= Cardinality(N \ kept)
  <2>1. (N \ names) \in SUBSET (N \ kept)
    BY <1>1
  <2> QED
    BY <2>1, <1>4, FS_Subset
<1>6. /\ IsFiniteSet(names \cup N)
      /\ Cardinality(names \cup N) = Cardinality(names) + Cardinality(N \ names)
  <2>1. names \cup N = names \cup (N \ names) /\ names \cap (N \ names) = {}
    OBVIOUS
  <2> QED
    BY <2>1, <1>1, <1>4, DisjointUnion
<1>7. un + Cardinality(N \ kept) \in Nat /\ Cardinality(names \cup N) <= un + Cardinality(N \ kept)
  BY <1>1, <1>3, <1>4, <1>5, <1>6
<1>8. ann \/ (kept \cup N = names \cup N /\ un + Cardinality(N \ kept) = Cardinality(names \cup N))
  <2>1. CASE ann
    BY <2>1
  <2>2. CASE kept = names /\ un = Cardinality(names)
    BY <2>2, <1>6
  <2> QED
    BY <1>1, <2>1, <2>2
<1>9. ev + Cardinality(more) = past + Cardinality(lines \cup more)
  BY <1>1, <1>2, <1>3
<1>10. kept \cup N \subseteq names \cup N
  BY <1>1
<1> QED
  BY <1>1, <1>2, <1>6, <1>7, <1>8, <1>9, <1>10 DEF Totals

(* Totals rebuilt from the lines at hand.                                   *)
LEMMA TotalsRestart ==
  ASSUME NEW lines, NEW N, IsFiniteSet(lines), IsFiniteSet(N), NEW ann
  PROVE  Totals(Cardinality(lines), Cardinality(N), 0, lines, N, N, ann)
<1>1. Cardinality(lines) \in Nat /\ Cardinality(N) \in Nat
  BY FS_CardinalityType
<1> QED
  BY <1>1 DEF Totals

(* A new revision outdates the fold, unless no name changed.                *)
LEMMA RevisionKept ==
  ASSUME NEW s, NEW kept, NEW now, FoldKept(s, kept),
         NEW K, IsFiniteSet(K), K = {} => now = kept
  PROVE  FoldKept(NewRevision(s, K), now) /\ NewRevision(s, K).status # "current"
<1>1. /\ s \in Folding /\ s.building <= s.revision /\ s.completed <= s.revision
      /\ Resumes(s) => s.fold = {u \in kept : u <= s.after} /\ s.folded = Cardinality(s.fold)
      /\ s.completed = s.revision => Resumes(s) /\ s.fold = kept
  BY DEF FoldKept
<1>2. Cardinality(K) \in Nat /\ (K # {} => Cardinality(K) > 0)
  BY FS_CardinalityType, FS_EmptySet
<1>3. PICK c : c = NewRevision(s, K)
  OBVIOUS
<1>4. /\ c \in Folding /\ c.status # "current"
      /\ c.revision = s.revision + Cardinality(K) /\ c.building = s.building /\ c.completed = s.completed
      /\ c.after = s.after /\ c.fold = s.fold /\ c.folded = s.folded /\ c.started = s.started
  <2>1. PICK o : o = OutOfDate(s)
    OBVIOUS
  <2>2. /\ {"revision", "building", "completed", "after", "fold", "folded", "started", "status"}
             \subseteq DOMAIN s
        /\ s.revision \in Nat /\ s.building \in Int /\ s.completed \in Int /\ s.after \in Nat
        /\ s.fold \in SUBSET Username /\ s.folded \in Nat /\ s.started \in BOOLEAN
    BY <1>1 DEF Folding
  <2>3. o \in Folding
    BY <1>1, <2>1 DEF OutOfDate, Folding
  <2>4. /\ o.status # "current"
        /\ o.revision = s.revision /\ o.building = s.building /\ o.completed = s.completed
        /\ o.after = s.after /\ o.fold = s.fold /\ o.folded = s.folded /\ o.started = s.started
    BY <2>1, <2>2 DEF OutOfDate
  <2>5. c = [o EXCEPT !.revision = @ + Cardinality(K)]
    BY <1>3, <2>1 DEF NewRevision
  <2>6. o.revision + Cardinality(K) \in Nat
    BY <1>2, <2>2, <2>4
  <2>7. c \in Folding
    BY <2>3, <2>5, <2>6 DEF Folding
  <2>8. {"revision", "building", "completed", "after", "fold", "folded", "started", "status"}
          \subseteq DOMAIN o
    BY <2>3 DEF Folding
  <2>9. /\ c.status = o.status /\ c.revision = o.revision + Cardinality(K)
        /\ c.building = o.building /\ c.completed = o.completed
        /\ c.after = o.after /\ c.fold = o.fold /\ c.folded = o.folded /\ c.started = o.started
    BY <2>5, <2>8
  <2> QED
    BY <2>4, <2>7, <2>9
<1>5. c.building <= c.revision /\ c.completed <= c.revision
  BY <1>1, <1>2, <1>4 DEF Folding
<1>6. CASE K = {}
  <2>1. c.revision = s.revision
    <3>1. Cardinality(K) = 0
      BY <1>6, FS_EmptySet
    <3> QED
      BY <3>1, <1>1, <1>4 DEF Folding
  <2>2. Resumes(c) <=> Resumes(s)
    BY <2>1, <1>4 DEF Resumes
  <2> QED
    BY <1>1, <1>3, <1>4, <1>5, <1>6, <2>1, <2>2 DEF FoldKept
<1>7. CASE K # {}
  <2>1. c.building # c.revision /\ c.completed # c.revision
    BY <1>1, <1>2, <1>4, <1>7 DEF Folding
  <2> QED
    BY <1>3, <1>4, <1>5, <2>1 DEF FoldKept, Resumes
<1> QED
  BY <1>6, <1>7

(* A fresh summary holds no fold.                                           *)
LEMMA FreshKept ==
  ASSUME NEW kept
  PROVE  FoldKept(Born, kept) /\ FoldKept(NoSummary, kept) /\ NoSummary.status # "current"
<1>1. PICK f : f = FreshSummary
  OBVIOUS
<1>2. /\ f \in Folding /\ f.revision = 0 /\ f.building = -1 /\ f.completed = -1
      /\ {"revision", "building", "completed", "status"} \subseteq DOMAIN f
  BY <1>1 DEF FreshSummary, Folding
<1>3. PICK c : c = Born
  OBVIOUS
<1>4. /\ c \in Folding /\ c.revision = 0 /\ c.building = -1 /\ c.completed = -1
  <2>1. c = [f EXCEPT !.status = "pending"]
    BY <1>1, <1>3 DEF Born
  <2>2. c \in Folding
    BY <1>2, <2>1 DEF Folding
  <2>3. c.revision = f.revision /\ c.building = f.building /\ c.completed = f.completed
    BY <1>2, <2>1
  <2> QED
    BY <1>2, <2>2, <2>3
<1>5. PICK e : e = NoSummary
  OBVIOUS
<1>6. /\ e \in Folding /\ e.revision = 0 /\ e.building = -1 /\ e.completed = -1 /\ e.status = "none"
  <2>1. e = [f EXCEPT !.status = "none"]
    BY <1>1, <1>5 DEF NoSummary
  <2>2. e \in Folding
    BY <1>2, <2>1 DEF Folding
  <2>3. e.revision = f.revision /\ e.building = f.building /\ e.completed = f.completed /\ e.status = "none"
    BY <1>2, <2>1
  <2> QED
    BY <1>2, <2>2, <2>3
<1>7. FoldKept(c, kept)
  BY <1>4 DEF FoldKept, Resumes
<1>8. FoldKept(e, kept)
  BY <1>6 DEF FoldKept, Resumes
<1> QED
  BY <1>3, <1>5, <1>6, <1>7, <1>8

(* The next page of usernames, for any set of them. *)
Rest(N, c) == {u \in N : u > c}
PageOf(N, c) == {u \in Rest(N, c) : Cardinality({v \in Rest(N, c) : v < u}) < PageUsers}

(* A page extends the names up to the cursor to those up to its last one.   *)
LEMMA PageCut ==
  ASSUME NEW N, IsFiniteSet(N), N \subseteq Username, NEW c \in Nat
  PROVE  /\ PageOf(N, c) \subseteq Rest(N, c) /\ IsFiniteSet(PageOf(N, c))
         /\ PageOf(N, c) = {} => Rest(N, c) = {}
         /\ PageOf(N, c) # {} =>
              /\ Max(PageOf(N, c)) \in Nat /\ Max(PageOf(N, c)) \in Username
              /\ {u \in N : u <= c} \cup PageOf(N, c) = {u \in N : u <= Max(PageOf(N, c))}
         /\ ~(Cardinality(Rest(N, c)) > PageUsers) => PageOf(N, c) = Rest(N, c)
<1> DEFINE R == Rest(N, c)
           P == PageOf(N, c)
           Below(u) == {v \in R : v < u}
<1>1. /\ R \subseteq N /\ R \subseteq Nat /\ N \subseteq Nat /\ P \subseteq R
      /\ IsFiniteSet(R) /\ IsFiniteSet(P)
      /\ PageUsers \in Nat /\ PageUsers > 0
  <2>1. R \in SUBSET N /\ P \in SUBSET R /\ N \subseteq Nat
    BY JournalAssumption DEF Rest, PageOf
  <2>2. IsFiniteSet(R)
    BY <2>1, FS_Subset
  <2>3. IsFiniteSet(P)
    BY <2>1, <2>2, FS_Subset
  <2>4. PageUsers \in Nat /\ PageUsers > 0
    BY JournalAssumption
  <2>5. R \subseteq Nat /\ R \subseteq N /\ P \subseteq R
    BY <2>1
  <2> QED
    BY <2>1, <2>2, <2>3, <2>4, <2>5
<1>2. \A u \in R : u \in P <=> Cardinality(Below(u)) < PageUsers
  BY DEF PageOf
<1>3. \A u \in N : u \in R <=> u > c
  BY DEF Rest
<1>4. \A u : IsFiniteSet(Below(u)) /\ Cardinality(Below(u)) \in Nat
  <2>1. \A u : Below(u) \in SUBSET R
    OBVIOUS
  <2> QED
    BY <2>1, <1>1, FS_Subset, FS_CardinalityType
<1>5. ASSUME P = {} PROVE R = {}
  <2>1. SUFFICES ASSUME R # {} PROVE FALSE
    OBVIOUS
  <2>2. Min(R) \in R /\ \A y \in R : Min(R) <= y
    <3>1. R \in SUBSET Nat
      BY <1>1
    <3> QED
      BY <3>1, <2>1, NatMin
  <2>3. Below(Min(R)) = {}
    BY <1>1, <2>2
  <2>4. Cardinality(Below(Min(R))) = 0
    BY <2>3, FS_EmptySet
  <2>5. Min(R) \in P
    BY <1>1, <1>2, <2>2, <2>4
  <2> QED
    BY <1>5, <2>5
<1>6. ASSUME P # {}
      PROVE  /\ Max(P) \in Nat /\ Max(P) \in Username
             /\ {u \in N : u <= c} \cup P = {u \in N : u <= Max(P)}
  <2>1. Max(P) \in P /\ \A y \in P : Max(P) >= y
    <3>1. P \in SUBSET Int
      BY <1>1
    <3> QED
      BY <3>1, <1>1, <1>6, FiniteMax
  <2>2. PICK m : m = Max(P)
    OBVIOUS
  <2>3. m \in P /\ m \in R /\ m \in N /\ m \in Nat /\ m \in Username /\ m > c
    BY <2>1, <2>2, <1>1, <1>3
  <2>4. ASSUME NEW u \in R, u <= m PROVE u \in P
    <3>1. Below(u) \in SUBSET Below(m)
      BY <1>1, <2>3, <2>4
    <3>2. Cardinality(Below(u)) <= Cardinality(Below(m))
      BY <3>1, <1>4, FS_Subset
    <3>3. Cardinality(Below(m)) < PageUsers
      BY <1>2, <2>3
    <3>4. Cardinality(Below(u)) \in Nat /\ Cardinality(Below(m)) \in Nat
      BY <1>4
    <3>5. Cardinality(Below(u)) < PageUsers
      BY <1>1, <3>2, <3>3, <3>4
    <3> QED
      BY <3>5, <1>2
  <2>5. \A u \in N : u \in Nat
    BY <1>1
  <2>6. \A u \in N : (u <= c \/ u \in P) <=> u <= m
    <3> TAKE u \in N
    <3>1. CASE u <= c
      BY <3>1, <2>3, <2>5
    <3>2. CASE ~(u <= c)
      <4>1. u \in R
        BY <3>2, <1>3, <2>5
      <4>2. u \in P => u <= m
        BY <2>1, <2>2, <2>3, <2>5
      <4> QED
        BY <3>2, <4>1, <4>2, <2>4
    <3> QED
      BY <3>1, <3>2
  <2>7. P \subseteq N
    BY <1>1
  <2> HIDE DEF P, R
  <2>8. {u \in N : u <= c} \cup P = {u \in N : u <= m}
    BY <2>6, <2>7
  <2> QED
    BY <2>2, <2>3, <2>8
<1>7. ASSUME ~(Cardinality(R) > PageUsers) PROVE P = R
  <2>1. SUFFICES ASSUME NEW u \in R PROVE u \in P
    BY <1>1
  <2>2. Below(u) \in SUBSET (R \ {u})
    BY <1>1
  <2>3. IsFiniteSet(R \ {u}) /\ Cardinality(R \ {u}) = Cardinality(R) - 1
    BY <1>1, <2>1, FS_RemoveElement
  <2>4. Cardinality(Below(u)) <= Cardinality(R \ {u})
    BY <2>2, <2>3, FS_Subset
  <2>5. Cardinality(R) \in Nat
    BY <1>1, FS_CardinalityType
  <2>6. Cardinality(Below(u)) < PageUsers
    BY <1>1, <1>4, <1>7, <2>3, <2>4, <2>5
  <2> QED
    BY <2>6, <1>2
<1> HIDE DEF P, R, Below
<1> QED
  BY <1>1, <1>5, <1>6, <1>7 DEF P, R

(* What the derivation's step folds. *)
LEMMA FoldAdvances ==
  ASSUME NEW a, FoldKept(summary[a], NamesOf(users[a])), IsFiniteSet(NamesOf(users[a]))
  PROVE  /\ Unfinished(a) => FoldKept(NextPage(a), NamesOf(users[a])) /\ NextPage(a).status = "pending"
         /\ ~Unfinished(a) =>
              /\ FoldKept(Publication(a), NamesOf(users[a]))
              /\ Folded(a).fold = NamesOf(users[a])
              /\ Folded(a).folded = Cardinality(NamesOf(users[a]))
<1>1. PICK s : s = summary[a]
  OBVIOUS
<1>2. PICK N : N = NamesOf(users[a])
  OBVIOUS
<1>3. /\ s \in Folding
      /\ s.building <= s.revision /\ s.completed <= s.revision
      /\ Resumes(s) => s.fold = {u \in N : u <= s.after} /\ s.folded = Cardinality(s.fold)
      /\ s.completed = s.revision => Resumes(s) /\ s.fold = N
  BY <1>1, <1>2 DEF FoldKept
<1>4. /\ N \subseteq Username /\ IsFiniteSet(N) /\ \A u \in N : u \in Nat /\ u > 0
  <2>1. N \subseteq Username
    BY <1>2 DEF NamesOf
  <2>2. \A u \in Username : u \in Nat /\ u > 0
    BY JournalAssumption
  <2> QED
    BY <1>2, <2>1, <2>2
<1>5. PICK from : from = Saved(s)
  OBVIOUS
<1> DEFINE Fields == {"revision", "building", "completed", "after", "fold", "folded", "started", "status"}
<1>6. /\ s.revision \in Nat /\ s.building \in Int /\ s.completed \in Int /\ s.after \in Nat
      /\ s.fold \in SUBSET Username /\ s.folded \in Nat /\ s.started \in BOOLEAN
      /\ Fields \subseteq DOMAIN s
  BY <1>3 DEF Folding
(* Where it goes on from holds the names up to its cursor. *)
<1>7. /\ from \in Folding /\ from.revision = s.revision
      /\ from.completed <= s.revision
      /\ from.fold = {u \in N : u <= from.after} /\ from.folded = Cardinality(from.fold)
      /\ from.completed = s.revision => from.fold = N
  <2>1. CASE Resumes(s)
    <3>1. from = s
      BY <1>5, <2>1 DEF Saved
    <3> QED
      BY <1>3, <2>1, <3>1
  <2>2. CASE ~Resumes(s)
    <3>1. from = [s EXCEPT !.after = 0, !.fold = {}, !.folded = 0, !.completed = -1]
      BY <1>5, <2>2 DEF Saved
    <3>2. from \in Folding
      <4>1. PICK x \in Int : x = -1
        OBVIOUS
      <4>2. from = [s EXCEPT !.after = 0, !.fold = {}, !.folded = 0, !.completed = x]
        BY <3>1, <4>1
      <4> QED
        BY <1>3, <4>2 DEF Folding
    <3>3. /\ from.revision = s.revision /\ from.completed = -1
          /\ from.after = 0 /\ from.fold = {} /\ from.folded = 0
      BY <1>6, <3>1
    <3>4. {u \in N : u <= 0} = {}
      BY <1>4
    <3>5. Cardinality({}) = 0
      BY FS_EmptySet
    <3> QED
      BY <1>6, <3>2, <3>3, <3>4, <3>5
  <2> QED
    BY <2>1, <2>2
<1>8. /\ from.after \in Nat /\ from.folded \in Nat /\ from.completed \in Int /\ from.fold \in SUBSET Username
      /\ Fields \subseteq DOMAIN from
  BY <1>7 DEF Folding
<1>9. PICK names : names = IF from.completed = s.revision THEN {} ELSE PageOf(N, from.after)
  OBVIOUS
<1>10. PICK g : g = Folded(a)
  OBVIOUS
<1>11. g = [from EXCEPT !.building = s.revision, !.started = TRUE,
                        !.fold = @ \cup names, !.folded = @ + Cardinality(names),
                        !.after = IF names = {} THEN @ ELSE Max(names)]
  <2>1. \A c : UserPage(a, c) = PageOf(N, c)
    BY <1>2 DEF UserPage, PageOf, Rest
  <2> QED
    BY <1>1, <1>5, <1>9, <1>10, <2>1 DEF Folded
<1>12. /\ PageOf(N, from.after) \subseteq Rest(N, from.after) /\ IsFiniteSet(PageOf(N, from.after))
       /\ PageOf(N, from.after) = {} => Rest(N, from.after) = {}
       /\ PageOf(N, from.after) # {} =>
            /\ Max(PageOf(N, from.after)) \in Nat /\ Max(PageOf(N, from.after)) \in Username
            /\ {u \in N : u <= from.after} \cup PageOf(N, from.after)
                 = {u \in N : u <= Max(PageOf(N, from.after))}
       /\ ~(Cardinality(Rest(N, from.after)) > PageUsers) => PageOf(N, from.after) = Rest(N, from.after)
  BY <1>4, <1>8, PageCut
<1>13. /\ IsFiniteSet(names) /\ Cardinality(names) \in Nat
       /\ names \subseteq N /\ \A u \in names : u > from.after
  <2>1. Rest(N, from.after) \subseteq N /\ \A u \in Rest(N, from.after) : u > from.after
    BY DEF Rest
  <2>2. CASE from.completed = s.revision
    BY <1>9, <2>2, FS_EmptySet
  <2>3. CASE from.completed # s.revision
    <3>1. names = PageOf(N, from.after)
      BY <1>9, <2>3
    <3> QED
      BY <1>12, <2>1, <3>1, FS_CardinalityType
  <2> QED
    BY <2>2, <2>3
<1>14. /\ g.revision = s.revision /\ g.building = s.revision /\ g.started = TRUE
       /\ g.completed = from.completed
       /\ g.fold = from.fold \cup names /\ g.folded = from.folded + Cardinality(names)
       /\ g.after = IF names = {} THEN from.after ELSE Max(names)
       /\ Fields \subseteq DOMAIN g
  BY <1>7, <1>8, <1>11
<1>15. g.fold = {u \in N : u <= g.after} /\ g.after \in Nat
  <2>1. CASE names = {}
    BY <1>7, <1>8, <1>14, <2>1
  <2>2. CASE names # {}
    <3>1. names = PageOf(N, from.after)
      BY <1>9, <2>2
    <3> QED
      BY <1>7, <1>12, <1>14, <2>2, <3>1
  <2> QED
    BY <2>1, <2>2
<1>16. IsFiniteSet(g.fold) /\ g.folded = Cardinality(g.fold) /\ g.folded \in Nat /\ g.fold \in SUBSET Username
  <2>1. from.fold \in SUBSET N /\ from.fold \cap names = {}
    BY <1>4, <1>7, <1>8, <1>13
  <2>2. IsFiniteSet(from.fold)
    BY <2>1, <1>4, FS_Subset
  <2>3. /\ IsFiniteSet(from.fold \cup names)
        /\ Cardinality(from.fold \cup names) = Cardinality(from.fold) + Cardinality(names)
    BY <1>13, <2>1, <2>2, DisjointUnion
  <2>4. g.folded \in Nat
    BY <1>8, <1>13, <1>14
  <2> QED
    BY <1>4, <1>7, <1>13, <1>14, <2>1, <2>3, <2>4
<1>17. g \in Folding
  <2>1. PICK f : f = from.fold \cup names
    OBVIOUS
  <2>2. PICK k : k = from.folded + Cardinality(names)
    OBVIOUS
  <2>3. PICK m : m = IF names = {} THEN from.after ELSE Max(names)
    OBVIOUS
  <2>4. f \in SUBSET Username /\ k \in Nat /\ m \in Nat /\ s.revision \in Int
    BY <1>6, <1>14, <1>15, <1>16, <2>1, <2>2, <2>3
  <2>5. g = [from EXCEPT !.building = s.revision, !.started = TRUE, !.fold = f, !.folded = k, !.after = m]
    BY <1>11, <2>1, <2>2, <2>3
  <2> HIDE DEF Fields
  <2> QED
    BY <1>7, <2>4, <2>5 DEF Folding
<1>18. ASSUME Unfinished(a)
       PROVE  FoldKept(NextPage(a), NamesOf(users[a])) /\ NextPage(a).status = "pending"
  <2>1. PICK c : c = NextPage(a)
    OBVIOUS
  <2>2. c = [g EXCEPT !.completed = -1, !.status = "pending"]
    BY <1>10, <2>1 DEF NextPage
  <2>3. c \in Folding
    <3>1. PICK x \in Int : x = -1
      OBVIOUS
    <3>2. c = [g EXCEPT !.completed = x, !.status = "pending"]
      BY <2>2, <3>1
    <3> QED
      BY <1>17, <3>2 DEF Folding
  <2>4. /\ c.revision = g.revision /\ c.building = g.building /\ c.completed = -1 /\ c.after = g.after
        /\ c.fold = g.fold /\ c.folded = g.folded /\ c.started = g.started /\ c.status = "pending"
    BY <1>14, <2>2
  <2>5. FoldKept(c, N)
    BY <1>6, <1>14, <1>15, <1>16, <2>3, <2>4 DEF FoldKept
  <2> QED
    BY <1>2, <2>1, <2>4, <2>5
<1>19. ASSUME ~Unfinished(a)
       PROVE  /\ FoldKept(Publication(a), NamesOf(users[a]))
              /\ Folded(a).fold = NamesOf(users[a])
              /\ Folded(a).folded = Cardinality(NamesOf(users[a]))
  <2>1. g.fold = N
    <3>1. CASE from.completed = s.revision
      BY <1>7, <1>9, <1>14, <3>1
    <3>2. CASE from.completed # s.revision
      <4>1. ~(Cardinality(Rest(N, from.after)) > PageUsers)
        BY <1>1, <1>2, <1>5, <1>19, <3>2 DEF Unfinished, MoreAfter, Rest
      <4>2. names = Rest(N, from.after)
        BY <1>9, <1>12, <3>2, <4>1
      <4>3. \A u \in N : u <= from.after \/ u > from.after
        BY <1>4, <1>8
      <4>4. {u \in N : u <= from.after} \cup Rest(N, from.after) = N
        BY <4>3 DEF Rest
      <4> QED
        BY <1>7, <1>14, <4>2, <4>4
    <3> QED
      BY <3>1, <3>2
  <2>2. PICK c : c = Publication(a)
    OBVIOUS
  <2>3. c = [g EXCEPT !.completed = s.revision, !.status = "current"]
    BY <1>1, <1>10, <2>2 DEF Publication
  <2>4. c \in Folding
    <3>1. PICK x \in Int : x = s.revision
      BY <1>6
    <3>2. c = [g EXCEPT !.completed = x, !.status = "current"]
      BY <2>3, <3>1
    <3> QED
      BY <1>17, <3>2 DEF Folding
  <2>5. /\ c.revision = g.revision /\ c.building = g.building /\ c.completed = s.revision /\ c.after = g.after
        /\ c.fold = g.fold /\ c.folded = g.folded /\ c.started = g.started
    BY <1>14, <2>3
  <2>6. Resumes(c)
    BY <1>14, <2>5 DEF Resumes
  <2>7. c.building <= c.revision /\ c.completed <= c.revision
    BY <1>6, <1>14, <2>5
  <2>8. FoldKept(c, N)
    BY <1>14, <1>15, <1>16, <2>1, <2>4, <2>5, <2>6, <2>7 DEF FoldKept
  <2> QED
    BY <1>2, <1>10, <1>16, <2>1, <2>2, <2>8
<1> QED
  BY <1>18, <1>19

(* The lines of an actor still in events. *)
Retained(a) == LinesOf(a) \cap InDb(stored)

Holding(r, us, s, p, past, names, lines, annotated) ==
  /\ us \in [Username -> Nat]
  /\ Totals(r.events, r.unique, past, lines, names, NamesOf(us), annotated)
  /\ FoldKept(s, NamesOf(us))
  /\ s.status = "current" /\ s.completed = s.revision
       => p = [fold |-> names, folded |-> Cardinality(names), events |-> r.events]

ActorHolds(a) ==
  Holding(row[a], users[a], summary[a], published[a], gone[a], tried[a], Retained(a), a \in luck.annotated)

JournalTypeOK ==
  /\ journal \in Seq(Entry)
  /\ stored \in [DOMAIN journal -> {0, 1}]
  /\ aged \in 0..Len(journal) /\ tailAt \in 0..Len(journal)
  /\ offer \in [Offerer -> SUBSET DOMAIN journal]
  /\ "annotated" \in DOMAIN luck
  /\ DOMAIN summary = Attacker /\ DOMAIN published = Attacker

JournalInv == JournalTypeOK /\ \A a \in Attacker : ActorHolds(a)

(* Some lines of the journal: their names, and how often each is used.      *)
LEMMA LinesAtHand ==
  ASSUME JournalTypeOK, NEW ns \in SUBSET DOMAIN journal
  PROVE  /\ IsFiniteSet(ns) /\ IsFiniteSet(NamesIn(ns)) /\ NamesIn(ns) \subseteq Username
         /\ Uses(ns) \in [Username -> Nat] /\ NamesOf(Uses(ns)) = NamesIn(ns)
<1>1. /\ DOMAIN journal = 1..Len(journal) /\ Len(journal) \in Nat
      /\ \A n \in DOMAIN journal : journal[n] \in Entry
  BY DEF JournalTypeOK
<1>2. IsFiniteSet(DOMAIN journal)
  <2>1. 1 \in Int /\ Len(journal) \in Int
    BY <1>1
  <2> QED
    BY <1>1, <2>1, FS_Interval
<1>3. IsFiniteSet(ns)
  BY <1>2, FS_Subset
<1>4. PICK f : f = [n \in ns |-> journal[n].user]
  OBVIOUS
<1>5. IsFiniteSet({f[n] : n \in ns})
  BY <1>3, <1>4, FiniteImage
<1>6. {journal[n].user : n \in ns} = {f[n] : n \in ns}
  BY <1>4
<1>7. IsFiniteSet(NamesIn(ns))
  BY <1>5, <1>6, FS_Difference DEF NamesIn
<1>8. NamesIn(ns) \subseteq Username
  BY <1>1 DEF NamesIn, Entry
<1>9. \A u : IsFiniteSet({n \in ns : journal[n].user = u})
  <2>1. \A u : {n \in ns : journal[n].user = u} \in SUBSET ns
    OBVIOUS
  <2> QED
    BY <2>1, <1>3, FS_Subset
<1>10. \A u : Cardinality({n \in ns : journal[n].user = u}) \in Nat
  BY <1>9, FS_CardinalityType
<1>11. \A u : Cardinality({n \in ns : journal[n].user = u}) > 0 <=> {n \in ns : journal[n].user = u} # {}
  <2> TAKE u
  <2>1. Cardinality({n \in ns : journal[n].user = u}) = 0 <=> {n \in ns : journal[n].user = u} = {}
    BY <1>9, FS_EmptySet
  <2> QED
    BY <1>10, <2>1
<1>12. Uses(ns) \in [Username -> Nat]
  BY <1>10 DEF Uses
<1>13. \A u \in Username : Uses(ns)[u] > 0 <=> \E n \in ns : journal[n].user = u
  BY <1>11 DEF Uses
<1>14. \A u \in Username : u # 0
  BY JournalAssumption
<1>15. NamesOf(Uses(ns)) = NamesIn(ns)
  <2>1. \A u : u \in NamesOf(Uses(ns)) <=> u \in Username /\ \E n \in ns : journal[n].user = u
    BY <1>13 DEF NamesOf
  <2>2. \A u : u \in NamesIn(ns) <=> u # 0 /\ \E n \in ns : journal[n].user = u
    BY DEF NamesIn
  <2> QED
    BY <1>8, <1>14, <2>1, <2>2
<1> QED
  BY <1>3, <1>7, <1>8, <1>12, <1>15

(* The names used in either count are used in their sum.                    *)
LEMMA NamesSum ==
  ASSUME NEW us \in [Username -> Nat], NEW ws \in [Username -> Nat]
  PROVE  /\ [u \in Username |-> us[u] + ws[u]] \in [Username -> Nat]
         /\ NamesOf([u \in Username |-> us[u] + ws[u]]) = NamesOf(us) \cup NamesOf(ws)
<1>1. \A u \in Username : us[u] \in Nat /\ ws[u] \in Nat
  OBVIOUS
<1>2. \A u \in Username : us[u] + ws[u] > 0 <=> us[u] > 0 \/ ws[u] > 0
  BY <1>1
<1> QED
  BY <1>1, <1>2 DEF NamesOf

LEMMA ActorUntouched ==
  ASSUME NEW a, ActorHolds(a),
         row'[a] = row[a], users'[a] = users[a], summary'[a] = summary[a], published'[a] = published[a],
         gone'[a] = gone[a], tried'[a] = tried[a], Retained(a)' = Retained(a),
         luck'.annotated = luck.annotated
  PROVE  ActorHolds(a)'
BY DEF ActorHolds

(* An append stores the lines that are absent, and only those.              *)
LEMMA AppendedRows ==
  ASSUME JournalInv, NEW ns \in SUBSET DOMAIN journal, Appended(ns), UNCHANGED <<journal, luck>>
  PROVE  /\ stored' \in [DOMAIN journal -> {0, 1}]
         /\ DOMAIN summary' = Attacker /\ DOMAIN published' = Attacker
         /\ \A a \in Attacker : /\ Retained(a)' = Retained(a) \cup AddedTo(a, ns)
                               /\ Retained(a) \cap AddedTo(a, ns) = {}
<1>1. /\ stored \in [DOMAIN journal -> {0, 1}] /\ DOMAIN stored = DOMAIN journal
      /\ DOMAIN published = Attacker
  BY DEF JournalInv, JournalTypeOK
<1>2. stored' = [n \in DOMAIN stored |-> IF n \in ns /\ Absent(n) THEN stored[n] + 1 ELSE stored[n]]
  BY DEF Appended
<1>3. \A n \in DOMAIN journal : stored[n] \in {0, 1}
  BY <1>1
<1>4. \A n \in DOMAIN journal : stored'[n] = IF n \in ns THEN 1 ELSE stored[n]
  BY <1>1, <1>2, <1>3 DEF Absent
<1>5. stored' \in [DOMAIN journal -> {0, 1}]
  BY <1>1, <1>2, <1>3, <1>4
<1>6. ASSUME NEW a \in Attacker
      PROVE  /\ Retained(a)' = Retained(a) \cup AddedTo(a, ns)
             /\ Retained(a) \cap AddedTo(a, ns) = {}
  <2>1. \A n : n \in Retained(a) <=> n \in DOMAIN journal /\ journal[n].actor = a /\ stored[n] > 0
    BY <1>1 DEF Retained, LinesOf, InDb
  <2>2. \A n : n \in Retained(a)' <=> n \in DOMAIN journal /\ journal[n].actor = a /\ stored'[n] > 0
    BY <1>5 DEF Retained, LinesOf, InDb
  <2>3. \A n : n \in AddedTo(a, ns) <=> n \in ns /\ journal[n].actor = a /\ stored[n] = 0
    BY DEF AddedTo, Absent
  <2>4. \A n \in DOMAIN journal : stored[n] > 0 <=> stored[n] # 0
    BY <1>3
  <2>5. \A n \in DOMAIN journal : stored'[n] > 0 <=> n \in ns \/ stored[n] > 0
    BY <1>3, <1>4
  <2> QED
    BY <2>1, <2>2, <2>3, <2>4, <2>5
<1>7. DOMAIN summary' = Attacker /\ DOMAIN published' = Attacker
  BY <1>1 DEF Appended
<1> QED
  BY <1>5, <1>6, <1>7

(* The append transaction, for one actor.                                   *)
LEMMA AppendedHolds ==
  ASSUME JournalInv, NEW ns \in SUBSET DOMAIN journal, Appended(ns), UNCHANGED <<journal, luck>>,
         NEW a \in Attacker
  PROVE  ActorHolds(a)'
<1>1. JournalTypeOK /\ ActorHolds(a)
  BY DEF JournalInv
<1>2. PICK A : A = AddedTo(a, ns)
  OBVIOUS
<1>3. A \in SUBSET DOMAIN journal
  BY <1>2 DEF AddedTo
<1>4. PICK N : N = NamesIn(A)
  OBVIOUS
<1>5. /\ IsFiniteSet(A) /\ IsFiniteSet(N) /\ Uses(A) \in [Username -> Nat] /\ NamesOf(Uses(A)) = N
  BY <1>1, <1>3, <1>4, LinesAtHand
<1>6. Retained(a)' = Retained(a) \cup A /\ A \cap Retained(a) = {}
  BY <1>2, AppendedRows
<1>7. /\ users[a] \in [Username -> Nat]
      /\ Totals(row[a].events, row[a].unique, gone[a], Retained(a), tried[a], NamesOf(users[a]),
                a \in luck.annotated)
      /\ FoldKept(summary[a], NamesOf(users[a]))
  BY <1>1 DEF ActorHolds, Holding
<1>8. users'[a] \in [Username -> Nat] /\ NamesOf(users'[a]) = NamesOf(users[a]) \cup N
  <2>1. users'[a] = [u \in Username |-> users[a][u] + Uses(A)[u]]
    BY <1>2 DEF Appended
  <2> QED
    BY <1>5, <1>7, <2>1, NamesSum
<1>9. tried'[a] = tried[a] \cup N /\ gone'[a] = gone[a] /\ published'[a] = published[a]
  BY <1>2, <1>4 DEF Appended
<1>10. CASE A = {}
  <2>1. N = {}
    BY <1>4, <1>10 DEF NamesIn
  <2>2. row'[a] = row[a] /\ summary'[a] = summary[a]
    BY <1>2, <1>10 DEF Appended
  <2>3. Retained(a)' = Retained(a) /\ tried'[a] = tried[a]
    BY <1>6, <1>9, <1>10, <2>1
  <2>4. NamesOf(users'[a]) = NamesOf(users[a])
    BY <1>8, <2>1
  <2> QED
    BY <1>1, <1>8, <1>9, <2>2, <2>3, <2>4 DEF ActorHolds, Holding
<1>11. CASE A # {}
  <2>1. PICK K : K = N \ NamesOf(users[a])
    OBVIOUS
  <2>2. row'[a] = CountedRow(a, A) /\ summary'[a] = CountedSummary(a, A)
    BY <1>2, <1>11 DEF Appended
  <2>3. row'[a].events = row[a].events + Cardinality(A) /\ row'[a].unique = row[a].unique + Cardinality(K)
    BY <1>4, <2>1, <2>2 DEF CountedRow, NewNames
  <2>4. Totals(row'[a].events, row'[a].unique, gone[a], Retained(a) \cup A, tried[a] \cup N,
               NamesOf(users[a]) \cup N, a \in luck.annotated)
    BY <1>5, <1>6, <1>7, <2>1, <2>3, TotalsGrow
  <2>5. PICK base : base = IF row[a].kept THEN summary[a] ELSE Born
    OBVIOUS
  <2>6. FoldKept(base, NamesOf(users[a]))
    BY <1>7, <2>5, FreshKept
  <2>7. summary'[a] = NewRevision(base, K)
    BY <1>4, <2>1, <2>2, <2>5 DEF CountedSummary, NewNames
  <2>8. IsFiniteSet(K) /\ (K = {} => NamesOf(users'[a]) = NamesOf(users[a]))
    BY <1>5, <1>8, <2>1, FS_Difference
  <2>9. FoldKept(summary'[a], NamesOf(users'[a])) /\ summary'[a].status # "current"
    BY <2>6, <2>7, <2>8, RevisionKept
  <2> QED
    BY <1>6, <1>8, <1>9, <2>4, <2>9 DEF ActorHolds, Holding
<1> QED
  BY <1>10, <1>11

(* The replacement, for one actor: rebuilt, surviving or gone.              *)
LEMMA RebuiltHolds ==
  ASSUME JournalInv, NEW ns \in SUBSET DOMAIN journal, Rebuilt(ns), UNCHANGED journal,
         luck'.annotated = luck.annotated, NEW a \in Attacker
  PROVE  ActorHolds(a)'
<1>1. JournalTypeOK /\ ActorHolds(a)
  BY DEF JournalInv
<1>2. PICK M : M = Mine(a, ns)
  OBVIOUS
<1>3. M \in SUBSET DOMAIN journal
  BY <1>2 DEF Mine
<1>4. PICK N : N = NamesIn(M)
  OBVIOUS
<1>5. IsFiniteSet(M) /\ IsFiniteSet(N) /\ Uses(M) \in [Username -> Nat] /\ NamesOf(Uses(M)) = N
  BY <1>1, <1>3, <1>4, LinesAtHand
<1>6. Retained(a)' = M
  <2>1. DOMAIN stored = DOMAIN journal
    BY <1>1 DEF JournalTypeOK
  <2>2. DOMAIN stored' = DOMAIN journal /\ \A n \in DOMAIN journal : stored'[n] = IF n \in ns THEN 1 ELSE 0
    BY <2>1 DEF Rebuilt
  <2>3. \A n : n \in Retained(a)' <=> n \in DOMAIN journal /\ journal[n].actor = a /\ stored'[n] > 0
    BY <2>2 DEF Retained, LinesOf, InDb
  <2>4. \A n : n \in M <=> n \in DOMAIN journal /\ journal[n].actor = a /\ n \in ns
    BY <1>2 DEF Mine, LinesOf
  <2> QED
    BY <2>2, <2>3, <2>4
<1>7. /\ users[a] \in [Username -> Nat]
      /\ Totals(row[a].events, row[a].unique, gone[a], Retained(a), tried[a], NamesOf(users[a]),
                a \in luck.annotated)
      /\ FoldKept(summary[a], NamesOf(users[a]))
      /\ summary[a].status = "current" /\ summary[a].completed = summary[a].revision
           => published[a] = [fold |-> tried[a], folded |-> Cardinality(tried[a]), events |-> row[a].events]
  BY <1>1 DEF ActorHolds, Holding
<1>8. users'[a] = Uses(M)
  BY <1>2 DEF Rebuilt
(* The children of a surviving actor go: so may the fold. *)
<1>9. /\ FoldKept(ClearedSummary(a), {})
      /\ ClearedSummary(a) = summary[a] \/ ClearedSummary(a).status # "current"
  <2>1. CASE NamesOf(users[a]) = {}
    BY <1>7, <2>1 DEF ClearedSummary
  <2>2. CASE NamesOf(users[a]) # {}
    <3>1. IsFiniteSet(tried[a]) /\ NamesOf(users[a]) \in SUBSET tried[a]
      BY <1>7 DEF Totals
    <3>2. IsFiniteSet(NamesOf(users[a]))
      BY <3>1, FS_Subset
    <3>3. ClearedSummary(a) = NewRevision(summary[a], NamesOf(users[a]))
      BY <2>2 DEF ClearedSummary
    <3> QED
      BY <1>7, <2>2, <3>2, <3>3, RevisionKept
  <2> QED
    BY <2>1, <2>2
<1>10. CASE M # {}
  <2>1. /\ row'[a].events = Cardinality(M) /\ row'[a].unique = Cardinality(N)
        /\ summary'[a] = RebuiltSummary(a, M) /\ gone'[a] = 0 /\ tried'[a] = N
    BY <1>2, <1>4, <1>10 DEF Rebuilt
  <2>2. Totals(row'[a].events, row'[a].unique, 0, M, N, N, a \in luck.annotated)
    BY <1>5, <2>1, TotalsRestart
  <2>3. PICK base : base = IF Survives(a) THEN ClearedSummary(a) ELSE Born
    OBVIOUS
  <2>4. FoldKept(base, {})
    BY <1>9, <2>3, FreshKept
  <2>5. summary'[a] = NewRevision(base, N)
    BY <1>4, <2>1, <2>3 DEF RebuiltSummary
  <2>6. FoldKept(summary'[a], N) /\ summary'[a].status # "current"
    BY <1>5, <2>4, <2>5, RevisionKept
  <2> QED
    BY <1>5, <1>6, <1>8, <2>1, <2>2, <2>6 DEF ActorHolds, Holding
<1>11. CASE M = {} /\ Survives(a)
  <2>1. /\ row'[a] = row[a] /\ summary'[a] = ClearedSummary(a) /\ published'[a] = published[a]
        /\ gone'[a] = row[a].events /\ tried'[a] = tried[a]
    BY <1>2, <1>11 DEF Rebuilt
  <2>2. N = {}
    BY <1>4, <1>11 DEF NamesIn
  <2>3. a \in luck'.annotated
    BY <1>11 DEF Survives
  <2>4. Totals(row[a].events, row[a].unique, row[a].events, {}, tried[a], {}, TRUE)
    <3>1. /\ gone[a] \in Nat /\ row[a].unique \in Nat /\ IsFiniteSet(Retained(a)) /\ IsFiniteSet(tried[a])
          /\ row[a].events = gone[a] + Cardinality(Retained(a)) /\ Cardinality(tried[a]) <= row[a].unique
      BY <1>7 DEF Totals
    <3>2. Cardinality(Retained(a)) \in Nat
      BY <3>1, FS_CardinalityType
    <3>3. row[a].events \in Nat
      BY <3>1, <3>2
    <3>4. IsFiniteSet({}) /\ Cardinality({}) = 0
      BY FS_EmptySet
    <3>5. row[a].events = row[a].events + Cardinality({})
      BY <3>3, <3>4
    <3> QED
      BY <3>1, <3>3, <3>4, <3>5 DEF Totals
  <2>5. Totals(row'[a].events, row'[a].unique, gone'[a], M, tried'[a], N, a \in luck'.annotated)
    BY <1>11, <2>1, <2>2, <2>3, <2>4 DEF Totals
  <2>6. summary'[a].status = "current" /\ summary'[a].completed = summary'[a].revision
          => published'[a] = [fold |-> tried'[a], folded |-> Cardinality(tried'[a]), events |-> row'[a].events]
    BY <1>7, <1>9, <2>1
  <2> QED
    BY <1>5, <1>6, <1>8, <1>9, <2>1, <2>2, <2>5, <2>6 DEF ActorHolds, Holding
<1>12. CASE M = {} /\ ~Survives(a)
  <2>1. /\ row'[a] = NoRow /\ summary'[a] = NoSummary /\ gone'[a] = 0 /\ tried'[a] = N
    BY <1>2, <1>4, <1>12 DEF Rebuilt
  <2>2. row'[a].events = 0 /\ row'[a].unique = 0
    BY <2>1 DEF NoRow
  <2>3. N = {}
    BY <1>4, <1>12 DEF NamesIn
  <2>4. Cardinality(M) = 0 /\ Cardinality(N) = 0
    BY <1>12, <2>3, FS_EmptySet
  <2>5. Totals(Cardinality(M), Cardinality(N), 0, M, N, N, a \in luck.annotated)
    BY <1>5, TotalsRestart
  <2>6. Totals(row'[a].events, row'[a].unique, gone'[a], M, tried'[a], N, a \in luck'.annotated)
    BY <2>1, <2>2, <2>4, <2>5
  <2>7. FoldKept(summary'[a], N) /\ summary'[a].status # "current"
    BY <2>1, FreshKept
  <2> QED
    BY <1>5, <1>6, <1>8, <2>6, <2>7 DEF ActorHolds, Holding
<1> QED
  BY <1>10, <1>11, <1>12

(* Retention moves lines from the retained to the past.                     *)
LEMMA PurgeHolds ==
  ASSUME JournalInv, PurgeEvents, NEW a \in Attacker
  PROVE  ActorHolds(a)'
<1>1. JournalTypeOK /\ ActorHolds(a)
  BY DEF JournalInv
<1>2. PICK old : old = InDb(stored) \cap 1..aged
  OBVIOUS
<1>3. PICK taken : taken = old \cap LinesOf(a)
  OBVIOUS
<1>4. /\ gone'[a] = gone[a] + Cardinality(taken)
      /\ row'[a] = row[a] /\ users'[a] = users[a] /\ summary'[a] = summary[a]
      /\ published'[a] = published[a] /\ tried'[a] = tried[a] /\ luck' = luck /\ journal' = journal
      /\ stored' = [n \in DOMAIN stored |-> IF n \in old THEN 0 ELSE stored[n]]
  BY <1>2, <1>3 DEF PurgeEvents
<1>5. taken \subseteq Retained(a) /\ Retained(a)' = Retained(a) \ taken
  <2>1. /\ DOMAIN stored = DOMAIN journal /\ DOMAIN stored' = DOMAIN journal
        /\ \A n \in DOMAIN journal : stored'[n] = IF n \in old THEN 0 ELSE stored[n]
    BY <1>1, <1>4 DEF JournalTypeOK
  <2>2. \A n : n \in Retained(a) <=> n \in DOMAIN journal /\ journal[n].actor = a /\ stored[n] > 0
    BY <2>1 DEF Retained, LinesOf, InDb
  <2>3. \A n : n \in Retained(a)' <=> n \in DOMAIN journal /\ journal[n].actor = a /\ stored'[n] > 0
    BY <1>4, <2>1 DEF Retained, LinesOf, InDb
  <2>4. \A n : n \in taken <=> n \in old /\ n \in DOMAIN journal /\ journal[n].actor = a
    BY <1>3 DEF LinesOf
  <2>5. \A n \in old : stored[n] > 0
    BY <1>2 DEF InDb
  <2> QED
    BY <2>1, <2>2, <2>3, <2>4, <2>5
<1>6. /\ users[a] \in [Username -> Nat]
      /\ Totals(row[a].events, row[a].unique, gone[a], Retained(a), tried[a], NamesOf(users[a]),
                a \in luck.annotated)
  BY <1>1 DEF ActorHolds, Holding
<1>7. Totals(row[a].events, row[a].unique, gone[a] + Cardinality(taken), Retained(a) \ taken, tried[a],
             NamesOf(users[a]), a \in luck.annotated)
  <2>1. /\ gone[a] \in Nat /\ IsFiniteSet(Retained(a))
        /\ row[a].events = gone[a] + Cardinality(Retained(a))
    BY <1>6 DEF Totals
  <2>2. IsFiniteSet(taken) /\ IsFiniteSet(Retained(a) \ taken)
    <3>1. taken \in SUBSET Retained(a) /\ (Retained(a) \ taken) \in SUBSET Retained(a)
      BY <1>5
    <3> QED
      BY <3>1, <2>1, FS_Subset
  <2>3. Cardinality(Retained(a)) = Cardinality(taken) + Cardinality(Retained(a) \ taken)
    <3>1. taken \cup (Retained(a) \ taken) = Retained(a) /\ taken \cap (Retained(a) \ taken) = {}
      BY <1>5
    <3> QED
      BY <3>1, <2>2, DisjointUnion
  <2>4. Cardinality(taken) \in Nat /\ Cardinality(Retained(a) \ taken) \in Nat
    BY <2>2, FS_CardinalityType
  <2>5. /\ gone[a] + Cardinality(taken) \in Nat
        /\ row[a].events = (gone[a] + Cardinality(taken)) + Cardinality(Retained(a) \ taken)
    BY <2>1, <2>3, <2>4
  <2> QED
    BY <1>6, <2>2, <2>5 DEF Totals
<1> QED
  BY <1>1, <1>4, <1>5, <1>7 DEF ActorHolds, Holding

(* The sweep forgets an actor whole.                                        *)
LEMMA SweepHolds ==
  ASSUME JournalInv, SweepOrphans, NEW a \in Attacker
  PROVE  ActorHolds(a)'
<1>1. JournalTypeOK /\ ActorHolds(a)
  BY DEF JournalInv
<1>2. luck' = luck /\ Retained(a)' = Retained(a)
  BY DEF SweepOrphans, Retained, LinesOf, InDb
<1>3. CASE ~Orphan(a)
  <2>1. /\ row'[a] = row[a] /\ users'[a] = users[a] /\ summary'[a] = summary[a]
        /\ published'[a] = published[a] /\ gone'[a] = gone[a] /\ tried'[a] = tried[a]
    BY <1>3 DEF SweepOrphans
  <2> QED
    BY <1>1, <1>2, <2>1, ActorUntouched
<1>4. CASE Orphan(a)
  <2>1. /\ row'[a] = NoRow /\ users'[a] = NoUsers /\ summary'[a] = NoSummary
        /\ gone'[a] = 0 /\ tried'[a] = {}
    BY <1>4 DEF SweepOrphans
  <2>2. row'[a].events = 0 /\ row'[a].unique = 0
    BY <2>1 DEF NoRow
  <2>3. Retained(a) = {}
    BY <1>4 DEF Orphan, Retained
  <2>4. IsFiniteSet({}) /\ Cardinality({}) = 0
    BY FS_EmptySet
  <2>5. Totals(0, 0, 0, {}, {}, {}, a \in luck.annotated)
    <3>1. Totals(Cardinality({}), Cardinality({}), 0, {}, {}, {}, a \in luck.annotated)
      BY <2>4, TotalsRestart
    <3> QED
      BY <2>4, <3>1
  <2>6. users'[a] \in [Username -> Nat] /\ NamesOf(users'[a]) = {}
    BY <2>1 DEF NoUsers, NamesOf
  <2>7. FoldKept(summary'[a], NamesOf(users'[a])) /\ summary'[a].status # "current"
    BY <2>1, FreshKept
  <2> QED
    BY <1>2, <2>1, <2>2, <2>3, <2>5, <2>6, <2>7 DEF ActorHolds, Holding
<1> QED
  BY <1>3, <1>4

(* Names and totals agree where the fold may be published. *)
LEMMA CoveredNames ==
  ASSUME NEW ev, NEW un, NEW past, NEW lines, NEW names, NEW kept, NEW ann,
         Totals(ev, un, past, lines, names, kept, ann), Cardinality(kept) = un
  PROVE  kept = names
<1>1. IsFiniteSet(names) /\ kept \in SUBSET names /\ un \in Nat /\ Cardinality(names) <= un
  BY DEF Totals
<1>2. Cardinality(kept) <= Cardinality(names) /\ Cardinality(names) \in Nat
  BY <1>1, FS_Subset, FS_CardinalityType
<1>3. Cardinality(names) = Cardinality(kept)
  BY <1>1, <1>2
<1> QED
  BY <1>1, <1>3, FS_Subset

(* The step of the derivation: a page, a refusal or a publication.          *)
LEMMA AdvanceHolds ==
  ASSUME JournalInv, NEW b, Advance(b), UNCHANGED <<journal, stored, row, users, luck, gone, tried>>,
         NEW a \in Attacker
  PROVE  ActorHolds(a)'
<1>1. /\ JournalTypeOK /\ ActorHolds(a)
      /\ DOMAIN summary = Attacker /\ DOMAIN published = Attacker
  BY DEF JournalInv, JournalTypeOK
<1>2. Retained(a)' = Retained(a)
  BY DEF Retained, LinesOf, InDb
<1>3. CASE a # b
  <2>1. summary'[a] = summary[a] /\ published'[a] = published[a]
    BY <1>1, <1>3 DEF Advance
  <2> QED
    BY <1>1, <1>2, <2>1, ActorUntouched
<1>4. CASE a = b
  <2>1. /\ users[a] \in [Username -> Nat]
        /\ Totals(row[a].events, row[a].unique, gone[a], Retained(a), tried[a], NamesOf(users[a]),
                  a \in luck.annotated)
        /\ FoldKept(summary[a], NamesOf(users[a]))
    BY <1>1 DEF ActorHolds, Holding
  <2>2. IsFiniteSet(NamesOf(users[a]))
    <3>1. IsFiniteSet(tried[a]) /\ NamesOf(users[a]) \in SUBSET tried[a]
      BY <2>1 DEF Totals
    <3> QED
      BY <3>1, FS_Subset
  <2>3. FoldKept(summary'[a], NamesOf(users[a]))
    <3>1. CASE Unfinished(a)
      <4>1. summary'[a] = NextPage(a)
        BY <1>1, <1>4, <3>1 DEF Advance
      <4> QED
        BY <2>1, <2>2, <3>1, <4>1, FoldAdvances
    <3>2. CASE ~Unfinished(a) /\ Covers(a)
      <4>1. summary'[a] = Publication(a)
        BY <1>1, <1>4, <3>2 DEF Advance
      <4> QED
        BY <2>1, <2>2, <3>2, <4>1, FoldAdvances
    <3>3. CASE ~Unfinished(a) /\ ~Covers(a)
      <4>1. PICK s : s = summary[a]
        OBVIOUS
      <4>2. PICK c : c = summary'[a]
        OBVIOUS
      <4>3. c = [s EXCEPT !.status = "unknown_history"]
        BY <1>1, <1>4, <3>3, <4>1, <4>2 DEF Advance
      <4>4. s \in Folding
        BY <2>1, <4>1 DEF FoldKept
      <4>5. c \in Folding
        BY <4>3, <4>4 DEF Folding
      <4>6. {"revision", "building", "completed", "after", "fold", "folded", "started"} \subseteq DOMAIN s
        BY <4>4 DEF Folding
      <4>7. /\ c.revision = s.revision /\ c.building = s.building /\ c.completed = s.completed
            /\ c.after = s.after /\ c.fold = s.fold /\ c.folded = s.folded /\ c.started = s.started
        BY <4>3, <4>6
      <4> QED
        BY <2>1, <4>1, <4>2, <4>5, <4>7 DEF FoldKept, Resumes
    <3> QED
      BY <3>1, <3>2, <3>3
  <2>4. summary'[a].status = "current" =>
          published'[a] = [fold |-> tried[a], folded |-> Cardinality(tried[a]), events |-> row[a].events]
    <3>1. CASE Unfinished(a)
      <4>1. summary'[a] = NextPage(a)
        BY <1>1, <1>4, <3>1 DEF Advance
      <4> QED
        BY <2>1, <2>2, <3>1, <4>1, FoldAdvances
    <3>2. CASE ~Unfinished(a) /\ Covers(a)
      <4>1. Folded(a).fold = NamesOf(users[a]) /\ Folded(a).folded = Cardinality(NamesOf(users[a]))
        BY <2>1, <2>2, <3>2, FoldAdvances
      <4>2. Cardinality(NamesOf(users[a])) = row[a].unique
        BY <3>2, <4>1 DEF Covers
      <4>3. NamesOf(users[a]) = tried[a]
        BY <2>1, <4>2, CoveredNames
      <4>4. published'[a] = [fold |-> Folded(a).fold, folded |-> Folded(a).folded, events |-> row[a].events]
        BY <1>1, <1>4, <3>2 DEF Advance
      <4> QED
        BY <4>1, <4>3, <4>4
    <3>3. CASE ~Unfinished(a) /\ ~Covers(a)
      <4>1. summary'[a] = [summary[a] EXCEPT !.status = "unknown_history"]
        BY <1>1, <1>4, <3>3 DEF Advance
      <4>2. "status" \in DOMAIN summary[a]
        BY <2>1 DEF FoldKept, Folding
      <4>3. summary'[a].status = "unknown_history"
        BY <4>1, <4>2
      <4> QED
        BY <4>3
    <3> QED
      BY <3>1, <3>2, <3>3
  <2> QED
    BY <1>2, <2>1, <2>3, <2>4 DEF ActorHolds, Holding
<1> QED
  BY <1>3, <1>4

LEMMA JournalInitHolds == JournalInit => JournalInv
<1> SUFFICES ASSUME JournalInit PROVE JournalInv
  OBVIOUS
<1>1. JournalTypeOK
  <2>1. journal = << >> /\ stored = << >> /\ DOMAIN journal = {} /\ DOMAIN stored = {} /\ Len(journal) = 0
    BY DEF JournalInit
  <2>2. journal \in Seq(Entry) /\ stored \in [DOMAIN journal -> {0, 1}]
    BY <2>1
  <2>3. "annotated" \in DOMAIN luck
    BY JournalAssumption DEF JournalInit
  <2>4. /\ offer \in [Offerer -> SUBSET DOMAIN journal]
        /\ DOMAIN summary = Attacker /\ DOMAIN published = Attacker
    BY DEF JournalInit
  <2>5. aged \in 0..Len(journal) /\ tailAt \in 0..Len(journal)
    BY <2>1 DEF JournalInit
  <2> QED
    BY <2>2, <2>3, <2>4, <2>5 DEF JournalTypeOK
<1>2. ASSUME NEW a \in Attacker PROVE ActorHolds(a)
  <2>1. /\ row[a] = NoRow /\ users[a] = NoUsers /\ summary[a] = NoSummary /\ gone[a] = 0 /\ tried[a] = {}
    BY DEF JournalInit
  <2>2. row[a].events = 0 /\ row[a].unique = 0
    BY <2>1 DEF NoRow
  <2>3. Retained(a) = {}
    BY DEF JournalInit, Retained, LinesOf
  <2>4. IsFiniteSet({}) /\ Cardinality({}) = 0
    BY FS_EmptySet
  <2>5. Totals(0, 0, 0, {}, {}, {}, a \in luck.annotated)
    <3>1. Totals(Cardinality({}), Cardinality({}), 0, {}, {}, {}, a \in luck.annotated)
      BY <2>4, TotalsRestart
    <3> QED
      BY <2>4, <3>1
  <2>6. users[a] \in [Username -> Nat] /\ NamesOf(users[a]) = {}
    BY <2>1 DEF NoUsers, NamesOf
  <2>7. FoldKept(summary[a], NamesOf(users[a])) /\ summary[a].status # "current"
    BY <2>1, FreshKept
  <2> QED
    BY <2>1, <2>2, <2>3, <2>5, <2>6, <2>7 DEF ActorHolds, Holding
<1> QED
  BY <1>1, <1>2 DEF JournalInv

(* The actors with operator notes stay the same ones. *)
LEMMA LuckKept ==
  ASSUME JournalTypeOK, NEW what, what # "annotated", Befalls(what)
  PROVE  "annotated" \in DOMAIN luck' /\ luck'.annotated = luck.annotated
<1>1. "annotated" \in DOMAIN luck
  BY DEF JournalTypeOK
<1>2. luck' = [luck EXCEPT ![what] = luck[what] - 1]
  BY DEF Befalls
<1> QED
  BY <1>1, <1>2

(* The steps that leave the tables of the actors alone. *)
LEMMA TablesUntouched ==
  ASSUME JournalInv, UNCHANGED <<row, users, summary, published, gone, tried>>,
         luck'.annotated = luck.annotated, \A a \in Attacker : Retained(a)' = Retained(a)
  PROVE  \A a \in Attacker : ActorHolds(a)'
<1> TAKE a \in Attacker
<1>1. ActorHolds(a)
  BY DEF JournalInv
<1>2. /\ row'[a] = row[a] /\ users'[a] = users[a] /\ summary'[a] = summary[a]
      /\ published'[a] = published[a] /\ gone'[a] = gone[a] /\ tried'[a] = tried[a]
  OBVIOUS
<1>3. Retained(a)' = Retained(a)
  OBVIOUS
<1> QED
  BY <1>1, <1>2, <1>3, ActorUntouched

(* A line logged is not stored yet.                                         *)
LEMMA LogHolds ==
  ASSUME JournalInv, NEW who \in Attacker \cup {0}, NEW u \in Username \cup {0}, LogLine(who, u)
  PROVE  JournalInv'
<1>1. JournalTypeOK
  BY DEF JournalInv
<1>2. PICK e : e = [actor |-> who, user |-> u]
  OBVIOUS
<1>3. /\ e \in Entry /\ journal' = Append(journal, e) /\ stored' = Append(stored, 0)
      /\ UNCHANGED <<aged, row, users, summary, published, tailAt, offer, gone, tried>>
  BY <1>2 DEF LogLine, Entry, batchVars, countVars
<1>4. "annotated" \in DOMAIN luck' /\ luck'.annotated = luck.annotated
  BY <1>1, LuckKept DEF LogLine
<1>5. PICK len : len = Len(journal)
  OBVIOUS
<1>6. len \in Nat /\ DOMAIN journal = 1..len /\ journal \in Seq(Entry) /\ stored \in [1..len -> {0, 1}]
  BY <1>1, <1>5 DEF JournalTypeOK
<1>7. /\ journal' \in Seq(Entry) /\ Len(journal') = len + 1 /\ DOMAIN journal' = 1..(len + 1)
      /\ \A n \in 1..len : journal'[n] = journal[n]
  BY <1>3, <1>5, <1>6
<1>8. /\ stored \in Seq({0, 1}) /\ Len(stored) = len
  BY <1>6
<1>9. /\ stored' \in Seq({0, 1}) /\ Len(stored') = len + 1 /\ DOMAIN stored' = 1..(len + 1)
      /\ stored'[len + 1] = 0 /\ \A n \in 1..len : stored'[n] = stored[n]
  BY <1>3, <1>8
<1>10. stored' \in [DOMAIN journal' -> {0, 1}]
  BY <1>7, <1>9
<1>11. \A a \in Attacker : Retained(a)' = Retained(a)
  <2> TAKE a \in Attacker
  <2>1. \A n : n \in Retained(a) <=> n \in 1..len /\ journal[n].actor = a /\ stored[n] > 0
    BY <1>6 DEF Retained, LinesOf, InDb
  <2>2. \A n : n \in Retained(a)' <=> n \in 1..(len + 1) /\ journal'[n].actor = a /\ stored'[n] > 0
    BY <1>7, <1>9 DEF Retained, LinesOf, InDb
  <2>3. \A n \in 1..(len + 1) : n \in 1..len \/ n = len + 1
    BY <1>6
  <2>4. 1..len \subseteq 1..(len + 1) /\ ~(stored'[len + 1] > 0)
    BY <1>6, <1>9
  <2>5. \A n \in Retained(a)' : n \in 1..len
    BY <2>2, <2>3, <2>4
  <2>6. \A n \in 1..len : n \in Retained(a)' <=> n \in Retained(a)
    <3> TAKE n \in 1..len
    <3>1. journal'[n] = journal[n] /\ stored'[n] = stored[n] /\ n \in 1..(len + 1)
      BY <1>7, <1>9, <2>4
    <3> QED
      BY <2>1, <2>2, <3>1
  <2>7. \A n \in Retained(a) : n \in 1..len
    BY <2>1
  <2> QED
    BY <2>5, <2>6, <2>7
<1>12. JournalTypeOK'
  <2>1. aged' \in 0..Len(journal') /\ tailAt' \in 0..Len(journal')
    BY <1>1, <1>3, <1>5, <1>6, <1>7 DEF JournalTypeOK
  <2>2. offer' \in [Offerer -> SUBSET DOMAIN journal']
    <3>1. DOMAIN journal \subseteq DOMAIN journal' /\ offer' = offer
      BY <1>3, <1>6, <1>7
    <3> QED
      BY <1>1, <3>1 DEF JournalTypeOK
  <2>3. DOMAIN summary' = Attacker /\ DOMAIN published' = Attacker
    BY <1>1, <1>3 DEF JournalTypeOK
  <2> QED
    BY <1>4, <1>7, <1>10, <2>1, <2>2, <2>3 DEF JournalTypeOK
<1>13. \A a \in Attacker : ActorHolds(a)'
  BY <1>3, <1>4, <1>11, TablesUntouched
<1> QED
  BY <1>12, <1>13 DEF JournalInv

(* The steps that touch neither the log nor a table. *)
LEMMA ProcessHolds ==
  ASSUME JournalInv, UNCHANGED <<journal, dbVars, countVars>>,
         aged' \in 0..Len(journal), tailAt' \in 0..Len(journal),
         offer' \in [Offerer -> SUBSET DOMAIN journal],
         "annotated" \in DOMAIN luck', luck'.annotated = luck.annotated
  PROVE  JournalInv'
<1>1. /\ UNCHANGED <<journal, stored, row, users, summary, published, gone, tried>>
  BY DEF dbVars, countVars
<1>2. \A a \in Attacker : Retained(a)' = Retained(a)
  BY <1>1 DEF Retained, LinesOf, InDb
<1>3. \A a \in Attacker : ActorHolds(a)'
  BY <1>1, <1>2, TablesUntouched
<1>4. JournalTypeOK'
  BY <1>1 DEF JournalInv, JournalTypeOK
<1> QED
  BY <1>3, <1>4 DEF JournalInv

LEMMA OfferHolds ==
  ASSUME JournalTypeOK, NEW p \in Offerer, NEW ns \in SUBSET DOMAIN journal, offer' = [offer EXCEPT ![p] = ns]
  PROVE  offer' \in [Offerer -> SUBSET DOMAIN journal]
BY DEF JournalTypeOK

(* An append by a batch or by the follower.                                 *)
LEMMA AppendHolds ==
  ASSUME JournalInv, NEW ns \in SUBSET DOMAIN journal, Appended(ns), UNCHANGED <<journal, luck, aged>>,
         tailAt' \in 0..Len(journal), offer' \in [Offerer -> SUBSET DOMAIN journal]
  PROVE  JournalInv'
<1>1. UNCHANGED <<journal, luck>>
  OBVIOUS
<1>2. \A a \in Attacker : ActorHolds(a)'
  BY <1>1, AppendedHolds
<1>3. stored' \in [DOMAIN journal -> {0, 1}] /\ DOMAIN summary' = Attacker /\ DOMAIN published' = Attacker
  BY <1>1, AppendedRows
<1>4. JournalTypeOK'
  BY <1>3 DEF JournalInv, JournalTypeOK
<1> QED
  BY <1>2, <1>4 DEF JournalInv

LEMMA JournalStep == JournalInv /\ [JournalNext]_journalVars => JournalInv'
<1> SUFFICES ASSUME JournalInv, [JournalNext]_journalVars PROVE JournalInv'
  OBVIOUS
<1>1. JournalTypeOK
  BY DEF JournalInv
<1>2. /\ aged \in 0..Len(journal) /\ tailAt \in 0..Len(journal) /\ Len(journal) \in Nat
      /\ offer \in [Offerer -> SUBSET DOMAIN journal] /\ "annotated" \in DOMAIN luck
      /\ DOMAIN journal = 1..Len(journal)
      /\ "daemon" \in Offerer /\ "cli" \in Offerer
  BY <1>1 DEF JournalTypeOK, Offerer
<1>3. ASSUME NEW a \in Attacker \cup {0}, NEW u \in Username \cup {0}, LogLine(a, u) PROVE JournalInv'
  BY <1>3, LogHolds
<1>4. CASE GrowOld
  <2>1. UNCHANGED <<journal, dbVars, countVars>> /\ tailAt' = tailAt /\ offer' = offer /\ aged' = aged + 1
    BY <1>4 DEF GrowOld, batchVars
  <2>2. aged' \in 0..Len(journal)
    BY <1>2, <1>4 DEF GrowOld
  <2>3. "annotated" \in DOMAIN luck' /\ luck'.annotated = luck.annotated
    BY <1>2, <1>4 DEF GrowOld
  <2> QED
    BY <1>2, <2>1, <2>2, <2>3, ProcessHolds
<1>5. Reoffered \in SUBSET DOMAIN journal
  BY <1>2 DEF Reoffered
<1>6. CASE OfferSeed
  <2>1. /\ UNCHANGED <<journal, dbVars, countVars>> /\ tailAt' = tailAt /\ aged' = aged /\ luck' = luck
        /\ offer' = [offer EXCEPT !["daemon"] = Reoffered]
    BY <1>6 DEF OfferSeed, Offer
  <2>2. offer' \in [Offerer -> SUBSET DOMAIN journal]
    BY <1>1, <1>2, <1>5, <2>1, OfferHolds
  <2> QED
    BY <1>2, <2>1, <2>2, ProcessHolds
<1>7. CASE OfferRecent
  <2>1. /\ UNCHANGED <<journal, dbVars, countVars>> /\ tailAt' = tailAt /\ aged' = aged /\ luck' = luck
    BY <1>7 DEF OfferRecent
  <2>2. PICK from \in (aged + 1)..(Len(journal) + 1) : offer' = [offer EXCEPT !["daemon"] = from..Len(journal)]
    BY <1>7 DEF OfferRecent, Offer
  <2>3. from..Len(journal) \in SUBSET DOMAIN journal
    BY <1>2
  <2>4. offer' \in [Offerer -> SUBSET DOMAIN journal]
    BY <1>1, <1>2, <2>2, <2>3, OfferHolds
  <2> QED
    BY <1>2, <2>1, <2>4, ProcessHolds
<1>8. CASE OfferByHand
  <2>1. /\ UNCHANGED <<journal, dbVars, countVars>> /\ tailAt' = tailAt /\ aged' = aged
        /\ offer' = [offer EXCEPT !["cli"] = Reoffered]
    BY <1>8 DEF OfferByHand, Offer
  <2>2. offer' \in [Offerer -> SUBSET DOMAIN journal]
    BY <1>1, <1>2, <1>5, <2>1, OfferHolds
  <2>3. "annotated" \in DOMAIN luck' /\ luck'.annotated = luck.annotated
    BY <1>1, <1>8, LuckKept DEF OfferByHand
  <2> QED
    BY <1>2, <2>1, <2>2, <2>3, ProcessHolds
<1>9. ASSUME NEW p \in Offerer, Dedup(p) PROVE JournalInv'
  <2>1. /\ UNCHANGED <<journal, dbVars, countVars>> /\ tailAt' = tailAt /\ aged' = aged /\ luck' = luck
        /\ offer' = [offer EXCEPT ![p] = Fresh(offer[p])]
    BY <1>9 DEF Dedup
  <2>2. Fresh(offer[p]) \in SUBSET DOMAIN journal
    BY <1>2 DEF Fresh
  <2>3. offer' \in [Offerer -> SUBSET DOMAIN journal]
    BY <1>1, <2>1, <2>2, OfferHolds
  <2> QED
    BY <1>2, <2>1, <2>3, ProcessHolds
<1>10. ASSUME NEW p \in Offerer, AppendPage(p) PROVE JournalInv'
  <2>1. /\ UNCHANGED <<journal, luck, aged>> /\ tailAt' = tailAt /\ Appended(FirstPage(offer[p]))
        /\ offer' = [offer EXCEPT ![p] = offer[p] \ FirstPage(offer[p])]
    BY <1>10 DEF AppendPage
  <2>2. offer[p] \in SUBSET DOMAIN journal /\ FirstPage(offer[p]) \in SUBSET DOMAIN journal
    BY <1>2 DEF FirstPage
  <2>3. offer' \in [Offerer -> SUBSET DOMAIN journal]
    <3>1. offer[p] \ FirstPage(offer[p]) \in SUBSET DOMAIN journal
      BY <2>2
    <3> QED
      BY <1>1, <2>1, <3>1, OfferHolds
  <2> QED
    BY <1>2, <2>1, <2>2, <2>3, AppendHolds
<1>11. ASSUME NEW p \in Offerer, BatchDone(p) PROVE JournalInv'
  <2>1. /\ UNCHANGED <<journal, dbVars, countVars>> /\ tailAt' = tailAt /\ aged' = aged /\ luck' = luck
        /\ offer' = offer
    BY <1>11 DEF BatchDone
  <2> QED
    BY <1>2, <2>1, ProcessHolds
<1>12. ASSUME NEW p \in Offerer, BatchFails(p) PROVE JournalInv'
  <2>1. /\ UNCHANGED <<journal, dbVars, countVars>> /\ tailAt' = tailAt /\ aged' = aged
        /\ offer' = [offer EXCEPT ![p] = {}]
    BY <1>12 DEF BatchFails
  <2>2. offer' \in [Offerer -> SUBSET DOMAIN journal]
    BY <1>2, <2>1
  <2>3. "annotated" \in DOMAIN luck' /\ luck'.annotated = luck.annotated
    BY <1>1, <1>12, LuckKept DEF BatchFails
  <2> QED
    BY <1>2, <2>1, <2>2, <2>3, ProcessHolds
<1>13. CASE StartTail
  <2>1. /\ UNCHANGED <<journal, dbVars, countVars>> /\ tailAt' = Len(journal) /\ aged' = aged /\ luck' = luck
        /\ offer' = offer
    BY <1>13 DEF StartTail, batchVars
  <2>2. tailAt' \in 0..Len(journal)
    BY <1>2, <2>1
  <2> QED
    BY <1>2, <2>1, <2>2, ProcessHolds
<1>14. CASE TailLine
  <2>1. /\ UNCHANGED <<journal, luck, aged>> /\ tailAt' = tailAt + 1 /\ offer' = offer
        /\ Appended({tailAt + 1}) /\ tailAt < Len(journal)
    BY <1>14 DEF TailLine, batchVars
  <2>2. {tailAt + 1} \in SUBSET DOMAIN journal /\ tailAt' \in 0..Len(journal)
    BY <1>2, <2>1
  <2> QED
    BY <1>2, <2>1, <2>2, AppendHolds
<1>15. CASE TailFails
  <2>1. /\ UNCHANGED <<journal, dbVars, countVars>> /\ tailAt' = tailAt /\ aged' = aged /\ offer' = offer
    BY <1>15 DEF TailFails, batchVars
  <2>2. "annotated" \in DOMAIN luck' /\ luck'.annotated = luck.annotated
    BY <1>1, <1>15, LuckKept DEF TailFails
  <2> QED
    BY <1>2, <2>1, <2>2, ProcessHolds
<1>16. CASE CrashDaemon
  <2>1. /\ UNCHANGED <<journal, dbVars, countVars>> /\ tailAt' = tailAt /\ aged' = aged
        /\ offer' = [offer EXCEPT !["daemon"] = {}]
    BY <1>16 DEF CrashDaemon
  <2>2. offer' \in [Offerer -> SUBSET DOMAIN journal]
    BY <1>2, <2>1
  <2>3. "annotated" \in DOMAIN luck' /\ luck'.annotated = luck.annotated
    BY <1>1, <1>16, LuckKept DEF CrashDaemon
  <2> QED
    BY <1>2, <2>1, <2>2, <2>3, ProcessHolds
<1>17. CASE Replace
  <2>1. PICK from \in 1..(Len(journal) + 1) : Rebuilt(from..Len(journal))
    BY <1>17 DEF Replace
  <2>2. PICK ns : ns = from..Len(journal)
    OBVIOUS
  <2>3. ns \in SUBSET DOMAIN journal /\ Rebuilt(ns)
    BY <1>2, <2>1, <2>2
  <2>4. UNCHANGED <<journal, aged, tailAt, offer>>
    BY <1>17 DEF Replace, batchVars
  <2>5. "annotated" \in DOMAIN luck' /\ luck'.annotated = luck.annotated
    BY <1>1, <1>17, LuckKept DEF Replace
  <2>6. \A a \in Attacker : ActorHolds(a)'
    BY <2>3, <2>4, <2>5, RebuiltHolds
  <2>7. /\ stored' \in [DOMAIN journal -> {0, 1}] /\ DOMAIN summary' = Attacker /\ DOMAIN published' = Attacker
    <3>1. DOMAIN stored = DOMAIN journal
      BY <1>1 DEF JournalTypeOK
    <3> QED
      BY <2>3, <3>1 DEF Rebuilt
  <2>8. JournalTypeOK'
    BY <1>1, <2>4, <2>5, <2>7 DEF JournalTypeOK
  <2> QED
    BY <2>6, <2>8 DEF JournalInv
<1>18. CASE PurgeEvents
  <2>1. \A a \in Attacker : ActorHolds(a)'
    BY <1>18, PurgeHolds
  <2>2. UNCHANGED <<journal, aged, tailAt, offer, luck, summary, published>>
    BY <1>18 DEF PurgeEvents, batchVars
  <2>3. stored' \in [DOMAIN journal -> {0, 1}]
    BY <1>1, <1>18 DEF PurgeEvents, JournalTypeOK
  <2>4. JournalTypeOK'
    BY <1>1, <2>2, <2>3 DEF JournalTypeOK
  <2> QED
    BY <2>1, <2>4 DEF JournalInv
<1>19. CASE SweepOrphans
  <2>1. \A a \in Attacker : ActorHolds(a)'
    BY <1>19, SweepHolds
  <2>2. UNCHANGED <<journal, stored, aged, tailAt, offer, luck>>
    BY <1>19 DEF SweepOrphans, batchVars
  <2>3. DOMAIN summary' = Attacker /\ DOMAIN published' = Attacker
    BY <1>19 DEF SweepOrphans
  <2>4. JournalTypeOK'
    BY <1>1, <2>2, <2>3 DEF JournalTypeOK
  <2> QED
    BY <2>1, <2>4 DEF JournalInv
<1>20. CASE TakePage
  <2>1. /\ UNCHANGED <<journal, dbVars, countVars>> /\ tailAt' = tailAt /\ aged' = aged /\ luck' = luck
        /\ offer' = offer
    BY <1>20 DEF TakePage, batchVars
  <2> QED
    BY <1>2, <2>1, ProcessHolds
<1>21. CASE WorkOne
  <2>1. UNCHANGED <<journal, stored, row, users, luck, gone, tried, aged, tailAt, offer>>
    BY <1>21 DEF WorkOne, batchVars, countVars
  <2>2. CASE UNCHANGED <<summary, published>>
    <3>1. UNCHANGED <<journal, dbVars, countVars>>
      BY <2>1, <2>2 DEF dbVars, countVars
    <3> QED
      BY <1>2, <2>1, <3>1, ProcessHolds
  <2>3. ASSUME Advance(Head(page)) PROVE JournalInv'
    <3>1. UNCHANGED <<journal, stored, row, users, luck, gone, tried>>
      BY <2>1
    <3>2. \A a \in Attacker : ActorHolds(a)'
      BY <2>3, <3>1, AdvanceHolds
    <3>3. DOMAIN summary' = Attacker /\ DOMAIN published' = Attacker
      BY <1>1, <2>3 DEF Advance, JournalTypeOK
    <3>4. JournalTypeOK'
      BY <1>1, <2>1, <3>3 DEF JournalTypeOK
    <3> QED
      BY <3>2, <3>4 DEF JournalInv
  <2>4. UNCHANGED <<summary, published>> \/ Advance(Head(page))
    BY <1>21 DEF WorkOne
  <2> QED
    BY <2>2, <2>3, <2>4
<1>22. CASE UNCHANGED journalVars
  <2>1. /\ UNCHANGED <<journal, dbVars, countVars>> /\ tailAt' = tailAt /\ aged' = aged /\ luck' = luck
        /\ offer' = offer
    BY <1>22 DEF journalVars, batchVars
  <2> QED
    BY <1>2, <2>1, ProcessHolds
<1> QED
  BY <1>3, <1>4, <1>6, <1>7, <1>8, <1>9, <1>10, <1>11, <1>12, <1>13, <1>14, <1>15, <1>16, <1>17,
     <1>18, <1>19, <1>20, <1>21, <1>22 DEF JournalNext

(* The totals, the folds and the labels hold together in every state.      *)
LEMMA JournalSafe == JournalSpec => []JournalInv
BY JournalInitHolds, JournalStep, PTL DEF JournalSpec

(* No journal line is stored twice, and lifetime totals count each appended *)
(* line and each distinct username once, whoever offers them and whatever   *)
(* retention took (appendJournalEventTx, incrementJournalActorTx,           *)
(* MaintenancePurgeContext, clearSourceTx).                                 *)
THEOREM EveryAttemptCountedOnce == JournalSpec => []AttemptsCountedOnce
<1>1. JournalInv => AttemptsCountedOnce
  <2> SUFFICES ASSUME JournalInv PROVE AttemptsCountedOnce
    OBVIOUS
  <2>1. StoredAtMostOnce
    BY DEF JournalInv, JournalTypeOK, StoredAtMostOnce
  <2>2. ASSUME NEW a \in Attacker
        PROVE  /\ row[a].events = gone[a] + Cardinality(LinesOf(a) \cap InDb(stored))
               /\ a \notin luck.annotated => row[a].unique = Cardinality(tried[a])
    <3>1. ActorHolds(a)
      BY DEF JournalInv
    <3> QED
      BY <3>1 DEF ActorHolds, Holding, Totals, Retained
  <2> QED
    BY <2>1, <2>2 DEF AttemptsCountedOnce
<1> QED
  BY <1>1, JournalSafe, PTL

(* A label shown as current was derived from all the usernames behind the  *)
(* counters it stands beside, each folded once (the revision triggers of   *)
(* journal_summaries, AdvanceJournalSummary and Finish).                   *)
THEOREM CurrentLabelsCover == JournalSpec => []CurrentCovers
<1>1. JournalInv => CurrentCovers
  BY DEF JournalInv, ActorHolds, Holding, CurrentCovers, Shown
<1> QED
  BY <1>1, JournalSafe, PTL
==============================================================================
