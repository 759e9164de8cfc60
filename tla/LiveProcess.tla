---------------------------- MODULE LiveProcess ----------------------------
(* The live process from its start to its exit: the owner of the           *)
(* cancellation tree, the HTTP server with its two drains, the seed and the *)
(* workers, and the requests that read or change the MalwareBazaar panel    *)
(* through its stale-while-revalidate cache.                                *)
(*                                                                          *)
(* An owner (the server; the seed, which becomes the workers) ends with     *)
(* nil, with an error that is nothing but a cancellation, or with a genuine *)
(* failure.  What the seed and the workers do with the store is a step that *)
(* may end either way; what a request does is modelled as far as the panel  *)
(* and the ledger of uploads reach.                                         *)
EXTENDS Integers, FiniteSets

CONSTANTS
  Viewer,     \* requests that show the panel, each asked again and again
  Uploader,   \* requests that upload a sample
  Sample,     \* the samples in the pool
  Uploads     \* bound on upload requests over the process's life

ASSUME UploadsAssumption == Uploads \in Nat

Owner == {"server", "work"}

None == "none"
Request == Viewer \cup Uploader

VARIABLES
  parent,     \* the signal context: "live" or "ended"
  cause,      \* what cancelled the process's own context first, or None
  main,       \* the owner of both: "start", "run", "join", "exited"
  verdict,    \* None until the process exits, "clean" or "failed"
  server,     \* RunContext's progress, see the actions
  leaving,    \* the error RunContext will return
  work,       \* the seed's and then the workers' progress
  result,     \* [Owner \cup {"store"} -> {"nil", "cancelled", "genuine", None}]: what each returned
  workErr,    \* the first error recorded, "nil" if none
  phase,      \* 0 starting, 1 serving, 2 draining
  serving,    \* the workers were reached
  stopping,   \* [handlers, refreshes -> BOOLEAN]: the two drains
  request,    \* [Request -> [at, of, floor, pool]]
  cache,      \* [ok, pool, fresh, refreshing, gen]
  refresh,    \* the background refreshes running: a set of [gen, read, pool]
  ledger,     \* the samples recorded as uploaded
  told,       \* the samples a reply has called shared
  uploads,    \* upload requests begun
  store       \* "open" or "closed"

lifeVars == <<parent, cause, main, verdict, work, result, workErr, phase, serving, store>>
panelVars == <<request, cache, refresh, ledger, told, uploads>>
liveVars == <<lifeVars, server, leaving, stopping, panelVars>>

Idle == [at |-> "idle", of |-> None, floor |-> {}, pool |-> {}]

LiveInit ==
  /\ parent \in {"live", "ended"}
  /\ cause = (IF parent = "ended" THEN "signal" ELSE None)
  /\ main = "start" /\ verdict = None
  /\ server = "bind" /\ leaving = "nil" /\ work = "wait"
  /\ result = [o \in Owner \cup {"store"} |-> None] /\ workErr = "nil"
  /\ phase = 0 /\ serving = FALSE /\ store = "open"
  /\ stopping = [handlers |-> FALSE, refreshes |-> FALSE]
  /\ request = [r \in Request |-> Idle]
  /\ cache = [ok |-> FALSE, pool |-> {}, fresh |-> FALSE, refreshing |-> FALSE, gen |-> 0]
  /\ refresh = {}
  /\ ledger = {} /\ told = {} /\ uploads = 0

Ended == cause # None                    \* the process's context is done
Launched == main \in {"run", "join"}     \* both owners have been started

(* ---------------- the owner of the cancellation tree ---------------- *)

(* SIGTERM or SIGINT: the parent's cancellation reaches the context at once *)
(* and owns its cause, unless an owner's failure came first.                *)
Signal ==
  /\ parent = "live" /\ main # "exited"
  /\ parent' = "ended"
  /\ cause' = IF Ended THEN cause ELSE "signal"
  /\ UNCHANGED <<main, verdict, work, result, workErr, phase, serving, store,
                 server, leaving, stopping, panelVars>>

(* Whether the stop was asked for: judged by what cancelled first. *)
Signalled(p, c) == p = "ended" /\ c # "owner"

(* A stop that was asked for forgives what is nothing but a cancellation. *)
ShutdownResult(asked, errs) ==
  IF errs \ ({"nil"} \cup (IF asked THEN {"cancelled"} ELSE {})) = {} THEN "clean" ELSE "failed"

CloseStore(errs) ==
  /\ store' = "closed" /\ main' = "exited" /\ phase' = 2
  /\ \E closing \in {"nil", "genuine"} :
       /\ result' = [result EXCEPT !["store"] = closing]
       /\ verdict' = ShutdownResult(Signalled(parent, cause), errs \cup {closing})

(* A context that has ended before anything starts: draining, close, exit. *)
Start ==
  /\ main = "start"
  /\ IF Ended THEN CloseStore({"cancelled"})
     ELSE main' = "run" /\ UNCHANGED <<phase, store, verdict, result>>
  /\ UNCHANGED <<parent, cause, work, workErr, serving, server, leaving, stopping, panelVars>>

BeginDraining ==
  /\ main = "run" /\ Ended
  /\ main' = "join" /\ phase' = 2
  /\ UNCHANGED <<parent, cause, verdict, work, result, workErr, serving, store,
                 server, leaving, stopping, panelVars>>

(* Both owners have returned: the store closes and the verdict is given. *)
Exit ==
  /\ main = "join" /\ \A o \in Owner : result[o] # None
  /\ CloseStore({IF ~serving /\ workErr = "nil" THEN "cancelled" ELSE workErr})
  /\ UNCHANGED <<parent, cause, work, workErr, serving, server, leaving, stopping, panelVars>>

(* An owner returns e.  A nil while the context lives is itself a failure;   *)
(* only the first error is kept, and it cancels the context.                 *)
OwnerReturns(o, e) ==
  LET err == IF e = "nil" /\ ~Ended THEN "genuine" ELSE e
  IN  /\ result' = [result EXCEPT ![o] = err]
      /\ workErr' = IF workErr = "nil" THEN err ELSE workErr
      /\ cause' = IF err # "nil" /\ ~Ended THEN "owner" ELSE cause

(* ---------------- the seed and the workers ---------------- *)

WorkEnds(e) == work' = "ended" /\ OwnerReturns("work", e) /\ UNCHANGED <<phase, serving>>
WorkGoes(at) == work' = at /\ UNCHANGED <<cause, result, workErr>>
Bound == server \notin {"bind", "refused"}

\* mutant: the seed waits for the listener alone
ReleasedByListener == Bound
(* The seed waits for the listener or for the end of the context. *)
Released == Bound \/ Ended

SeedBegins ==
  /\ work = "wait" /\ Launched /\ Released
  /\ \/ Ended /\ WorkEnds("cancelled")
     \/ Bound /\ WorkGoes("seed") /\ UNCHANGED <<phase, serving>>
  /\ UNCHANGED <<parent, main, verdict, store, server, leaving, stopping, panelVars>>

(* The seed reads and writes the store; any step of it may fail, with an *)
(* inner timeout's cancellation too.                                     *)
SeedEnds ==
  /\ work = "seed"
  /\ \/ \E e \in {"cancelled", "genuine"} : WorkEnds(e)
     \/ ~Ended /\ WorkGoes("seeded") /\ UNCHANGED <<phase, serving>>
  /\ UNCHANGED <<parent, main, verdict, store, server, leaving, stopping, panelVars>>

(* The phase moves to serving unless draining has begun since the context *)
(* was last looked at.                                                    *)
WorkersBegin ==
  /\ work = "seeded"
  /\ IF phase = 2 THEN WorkEnds("cancelled")
     ELSE WorkGoes("workers") /\ phase' = 1 /\ serving' = TRUE
  /\ UNCHANGED <<parent, main, verdict, store, server, leaving, stopping, panelVars>>

(* The workers end with the context, joined, and return nil. *)
WorkersEnd ==
  /\ work = "workers" /\ Ended /\ WorkEnds("nil")
  /\ UNCHANGED <<parent, main, verdict, store, server, leaving, stopping, panelVars>>

(* ---------------- the server ---------------- *)

Running(r) == request[r].at # "idle"
Quiet == \A r \in Request : ~Running(r)

ServerGoes(at, e) ==
  /\ server' = at /\ leaving' = e
  /\ UNCHANGED <<lifeVars, panelVars>>

ServerEnds(at, e) ==
  /\ server' = at /\ OwnerReturns("server", e)
  /\ UNCHANGED <<parent, main, verdict, work, phase, serving, store, leaving, stopping, panelVars>>

(* The listener binds; or the context has ended, the address is taken or *)
(* the configuration is refused.                                         *)
Listen ==
  /\ server = "bind" /\ Launched
  /\ \/ ~Ended /\ ServerGoes("accept", "nil") /\ UNCHANGED stopping
     \/ ServerEnds("refused", IF Ended THEN "cancelled" ELSE "genuine")

(* The context ended: no new request, no new refresh, and what both compute *)
(* is cancelled, before the requests in flight are waited for.              *)
BeginShutdown ==
  /\ server = "accept" /\ Ended
  /\ ServerGoes("shutdown", "nil")
  /\ stopping' = [handlers |-> TRUE, refreshes |-> TRUE]

(* Shutdown returns once the requests are done, with a listener's error if *)
(* there was one, or after 30 seconds with a deadline's.                   *)
ShutdownReturns ==
  /\ server = "shutdown"
  /\ \/ Quiet /\ \E e \in {"nil", "genuine"} : ServerGoes("close", e)
     \/ ServerGoes("close", "cancelled")
  /\ UNCHANGED stopping

(* The accept loop fails: the deferred steps close the server. *)
ServeFails ==
  /\ server = "accept"
  /\ ServerGoes("close", "genuine")
  /\ stopping' = [stopping EXCEPT !.handlers = TRUE]

(* Every request has returned: refreshes are stopped, then joined. *)
HandlersJoined ==
  /\ server = "close" /\ Quiet
  /\ ServerGoes("joined", leaving)
  /\ stopping' = [stopping EXCEPT !.refreshes = TRUE]

\* mutant: the background refreshes are stopped and not waited for
RefreshesCancelled == TRUE
RefreshesJoined == refresh = {}

ServerReturns ==
  /\ server = "joined" /\ RefreshesJoined
  /\ ServerEnds("ended", leaving)

(* ---------------- the panel's cache ---------------- *)

Unlocked == \A r \in Request : request[r].at # "computing"     \* the cache's mutex is free
Reply(r, offered) == request' = [request EXCEPT ![r].at = "idle", ![r].pool = offered]
Goes(r, at) == request' = [request EXCEPT ![r].at = at]

(* A reader is admitted; `floor` is what replies before it called shared. *)
Ask(r) ==
  /\ server = "accept" /\ ~stopping.handlers /\ ~Running(r)
  /\ request' = [request EXCEPT ![r] = [Idle EXCEPT !.at = "get", !.floor = told]]
  /\ UNCHANGED <<lifeVars, server, leaving, stopping, cache, refresh, ledger, told, uploads>>

(* A value is served at once, expired or not; an expired one starts a refresh *)
(* unless one runs or the drain stops.  Without one the reader computes it,   *)
(* holding the mutex.                                                         *)
Get(r) ==
  /\ request[r].at = "get" /\ Unlocked
  /\ IF cache.ok
     THEN /\ Reply(r, cache.pool)
          /\ IF cache.fresh \/ cache.refreshing \/ stopping.refreshes
             THEN UNCHANGED <<cache, refresh>>
             ELSE /\ cache' = [cache EXCEPT !.refreshing = TRUE]
                  /\ refresh' = refresh \cup {[gen |-> cache.gen, read |-> FALSE, pool |-> {}]}
     ELSE /\ request' = [request EXCEPT ![r].at = "computing", ![r].pool = Sample \ ledger]
          /\ UNCHANGED <<cache, refresh>>
  /\ UNCHANGED <<lifeVars, server, leaving, stopping, ledger, told, uploads>>

(* The reader's own computation ends, or fails and answers an error. *)
Computed(r) ==
  /\ request[r].at = "computing"
  /\ \/ /\ cache' = [cache EXCEPT !.ok = TRUE, !.pool = request[r].pool, !.fresh = TRUE]
        /\ Goes(r, "idle")
     \/ Reply(r, {}) /\ UNCHANGED cache
  /\ UNCHANGED <<lifeVars, server, leaving, stopping, refresh, ledger, told, uploads>>

Expire ==
  /\ cache.fresh /\ Unlocked /\ cache' = [cache EXCEPT !.fresh = FALSE]
  /\ UNCHANGED <<lifeVars, server, leaving, stopping, request, refresh, ledger, told, uploads>>

(* The refresh reads the pool and the ledger without the mutex. *)
RefreshReads ==
  /\ \E f \in refresh :
       /\ ~f.read
       /\ refresh' = (refresh \ {f}) \cup {[f EXCEPT !.read = TRUE, !.pool = Sample \ ledger]}
  /\ UNCHANGED <<lifeVars, server, leaving, stopping, request, cache, ledger, told, uploads>>

\* mutant: what a refresh computed is always published
CurrentAlways(f) == TRUE
Current(f) == f.gen = cache.gen

(* It publishes what it read unless it failed, was cancelled, or an *)
(* invalidation came after it began.                                *)
RefreshEnds ==
  /\ Unlocked
  /\ \E f \in refresh, good \in BOOLEAN :
       /\ good => f.read /\ ~stopping.refreshes
       /\ refresh' = refresh \ {f}
       /\ cache' = IF good /\ Current(f)
                   THEN [cache EXCEPT !.refreshing = FALSE, !.pool = f.pool, !.fresh = TRUE]
                   ELSE [cache EXCEPT !.refreshing = FALSE]
  /\ UNCHANGED <<lifeVars, server, leaving, stopping, request, ledger, told, uploads>>

(* ---------------- uploads ---------------- *)

Done(r) == request' = [request EXCEPT ![r] = Idle]

Post(r, s) ==
  /\ server = "accept" /\ ~stopping.handlers /\ ~Running(r) /\ uploads < Uploads
  /\ uploads' = uploads + 1
  /\ request' = [request EXCEPT ![r] = [Idle EXCEPT !.at = "check", !.of = s]]
  /\ UNCHANGED <<lifeVars, server, leaving, stopping, cache, refresh, ledger, told>>

(* A sample in the ledger is not sent; any other waits for its slot, which a *)
(* closed connection ends.                                                   *)
CheckLedger(r) ==
  /\ request[r].at = "check"
  /\ \/ request[r].of \in ledger /\ Goes(r, "shared")
     \/ request[r].of \notin ledger /\ (Goes(r, "share") \/ Done(r))
  /\ UNCHANGED <<lifeVars, server, leaving, stopping, cache, refresh, ledger, told, uploads>>

(* Share looks at the ledger again, sends the sample and records it; a    *)
(* refusal, a failed call or a failed record leaves the ledger as it was. *)
ShareSample(r) ==
  /\ request[r].at = "share"
  /\ \/ ledger' = ledger \cup {request[r].of} /\ Goes(r, "shared")
     \/ request[r].of \notin ledger /\ Goes(r, "refused") /\ UNCHANGED ledger
  /\ UNCHANGED <<lifeVars, server, leaving, stopping, cache, refresh, told, uploads>>

(* Whatever came of it the panel's value is dropped, then the reply goes out. *)
Invalidate(r) ==
  /\ request[r].at \in {"shared", "refused"} /\ Unlocked
  /\ cache' = [cache EXCEPT !.ok = FALSE, !.gen = @ + 1]
  /\ told' = IF request[r].at = "shared" THEN told \cup {request[r].of} ELSE told
  /\ Done(r)
  /\ UNCHANGED <<lifeVars, server, leaving, stopping, refresh, ledger, uploads>>

(* Another process, a command-line share, writes the same ledger. *)
ShareElsewhere(s) ==
  /\ main # "exited" /\ s \notin ledger /\ ledger' = ledger \cup {s}
  /\ UNCHANGED <<lifeVars, server, leaving, stopping, request, cache, refresh, told, uploads>>

(* ---------------- the specification ---------------- *)

Handle(r) == Get(r) \/ Computed(r) \/ CheckLedger(r) \/ ShareSample(r) \/ Invalidate(r)
Main == Start \/ BeginDraining \/ Exit
Work == SeedBegins \/ SeedEnds \/ WorkersBegin \/ WorkersEnd
Server == Listen \/ BeginShutdown \/ ShutdownReturns \/ HandlersJoined \/ ServerReturns

LiveNext ==
  \/ Main \/ Work \/ Server \/ Signal \/ ServeFails
  \/ \E r \in Viewer : Ask(r)
  \/ \E r \in Uploader, s \in Sample : Post(r, s)
  \/ \E r \in Request : Handle(r)
  \/ RefreshReads \/ RefreshEnds \/ Expire
  \/ \E s \in Sample : ShareElsewhere(s)

(* The goroutines run; a request in flight and a refresh end, their calls *)
(* being bounded by timeouts and by the contexts that stop cancels.       *)
LiveFairness ==
  /\ WF_liveVars(Main) /\ WF_liveVars(Work) /\ WF_liveVars(Server) /\ WF_liveVars(RefreshEnds)
  /\ \A r \in Request : WF_liveVars(Handle(r))

LiveSpec == LiveInit /\ [][LiveNext]_liveVars /\ LiveFairness

(* ---------------- properties ---------------- *)

(* The store closes only when nothing of the process uses it any more: no *)
(* request, no refresh, no seed and no worker (live_lifecycle.go and      *)
(* RunContext's deferred joins).                                          *)
StoreOutlives ==
  store = "closed" => Quiet /\ refresh = {} /\ work \notin {"seed", "seeded", "workers"}

(* The panel never offers a sample that a reply before the request has called *)
(* shared, whatever refresh was in flight when it was recorded.               *)
PanelFresh == \A r \in Viewer : ~Running(r) => request[r].pool \cap request[r].floor = {}

(* An owner that failed before any signal is never forgiven, and a stop that *)
(* was asked for with no genuine failure exits clean, whenever it came.      *)
VerdictTrue ==
  main = "exited" =>
    /\ cause = "owner" => verdict = "failed"
    /\ verdict = "failed" => cause = "owner" \/ \E p \in DOMAIN result : result[p] = "genuine"

(* The claim of shutdownResult's comment: a genuine failure exits non-zero. *)
GenuineFailureReported == verdict = "clean" => \A p \in DOMAIN result : result[p] # "genuine"

(* Once its context has ended the process exits, with a verdict that is true. *)
Drains == []<>(Ended => main = "exited" /\ VerdictTrue)
=============================================================================
