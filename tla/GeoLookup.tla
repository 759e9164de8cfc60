------------------------------- MODULE GeoLookup -------------------------------
(***************************************************************************)
(* Geolocation of attackers for the dashboard (web/geo.go, geo_mmdb.go).   *)
(* Every poll of a panel starts a prefetch of the page's addresses and     *)
(* then reads what is known of each: from memory, or from the row a former *)
(* lookup left (store/enrichment.go).  A prefetch claims its addresses,    *)
(* answers what the local database covers and asks ip-api.com for the      *)
(* rest, a few at a time and inside a budget.                              *)
(*                                                                         *)
(* Addresses are public ones; where one is located does not matter.        *)
(***************************************************************************)
EXTENDS Integers, Sequences, FiniteSets, FiniteSetsExt, SequencesExt, Functions

CONSTANTS
  Ip, Prefetch, Viewer,
  Page,         \* the addresses of a panel, in order
  Covered,      \* addresses in the local database, when there is one
  CacheMax, SweepMax, Permits, PerCall,
  MissFor, RefusedFor, PauseFor, FreshFor, RowFor,   \* lifetimes of what is known
  Sky           \* bounds: the hour, polls, views, settings saved and restarts; the database
                \* and the configuration

ASSUME GeoAssumption ==
  /\ {CacheMax, SweepMax, Permits, PerCall} \subseteq Nat \ {0}
  /\ {MissFor, RefusedFor, PauseFor, FreshFor, RowFor} \subseteq Nat
  /\ 0 < MissFor /\ MissFor <= RefusedFor /\ RefusedFor < PauseFor /\ PauseFor < FreshFor
  /\ FreshFor < RowFor
  /\ Covered \subseteq Ip /\ Page \subseteq Seq(Ip)

VARIABLES
  hour,
  settings,     \* the saved geo flag ("": none), and whether there is a way to ask over HTTP
  row,          \* ip_enrichment: when an address was last located; -1: never
  cache,        \* in memory: entries and their order of use
  inflight,     \* the addresses marked as being looked up
  poll,         \* prefetches: the addresses to go over and those still claimed
  job,          \* lookups begun for a prefetch
  view,         \* panels reading what is known of an address
  answered,     \* history: when a lookup last answered for an address, or was saved
  sky

geoVars == <<hour, settings, row, cache, inflight, poll, job, view, answered, sky>>

NoPrefetch == [at |-> "idle", todo |-> << >>, need |-> << >>, late |-> FALSE]
NoView == [at |-> "idle", ip |-> "", row |-> -1]
EmptyCache == [entry |-> << >>, order |-> << >>]

GeoInit ==
  /\ sky \in Sky
  /\ hour = 0 /\ settings = [flag |-> "", key |-> sky.key]
  /\ row = [ip \in Ip |-> -1] /\ cache = EmptyCache /\ inflight = {}
  /\ poll = [p \in Prefetch |-> NoPrefetch] /\ job = {} /\ view = [v \in Viewer |-> NoView]
  /\ answered = [ip \in Ip |-> -1]

Occurs(what) == sky[what] > 0 /\ sky' = [sky EXCEPT ![what] = @ - 1]

-----------------------------------------------------------------------------
(* Which tiers answer, as the settings are at this moment *)

Askable == settings.key
HttpTier ==
  /\ Askable
  /\ \/ settings.flag = "1"
     \/ settings.flag = "" /\ sky.enabled
Enabled == sky.database \/ HttpTier
InDatabase(ip) == sky.database /\ ip \in Covered

SaveFlag ==
  /\ Occurs("save")
  /\ \/ \E f \in {"", "0", "1"} \ {settings.flag} : settings' = [settings EXCEPT !.flag = f]
     \/ settings' = [settings EXCEPT !.key = ~@]
  /\ UNCHANGED <<hour, row, cache, inflight, poll, job, view, answered>>

-----------------------------------------------------------------------------
(* The cache *)

Located(until) == [ok |-> TRUE, expiry |-> until]
Unlocated(until) == [ok |-> FALSE, expiry |-> until]

Fresh(c, ip) == ip \in DOMAIN c.entry /\ hour < c.entry[ip].expiry
Shortened(c, n) ==
  LET kept == SubSeq(c.order, 1, n)
  IN [entry |-> Restrict(c.entry, ToSet(kept)), order |-> kept]
Touched(c, ip) == [c EXCEPT !.order = <<ip>> \o RemoveAt(@, CHOOSE i \in DOMAIN @ : @[i] = ip)]

(* Behind n, nothing but expired entries, at most SweepMax of them. *)
Swept(c) ==
  LET total == Len(c.order)
      Dead(n) == \A i \in n + 1 .. total : ~Fresh(c, c.order[i])
  IN Shortened(c, Min({n \in 0 .. total : Dead(n) /\ total - n <= SweepMax}))

Put(c, ip, e) ==
  LET entry == [x \in DOMAIN c.entry \cup {ip} |-> IF x = ip THEN e ELSE c.entry[x]]
  IN IF ip \in DOMAIN c.entry
     THEN Touched([c EXCEPT !.entry = entry], ip)
     ELSE Swept(Shortened([entry |-> entry, order |-> <<ip>> \o c.order],
                          Min({CacheMax, Len(c.order) + 1})))

-----------------------------------------------------------------------------
(* Prefetch *)

Request(ip, p, at, permit) == [ip |-> ip, by |-> p, at |-> at, permit |-> permit]
JobsOf(p) == {j \in job : j.by = p}
Permitted == {j \in job : j.permit}

Begin(p) ==
  /\ poll[p].at = "idle" /\ Enabled /\ Occurs("poll")
  /\ \E page \in Page : poll' = [poll EXCEPT ![p] = [NoPrefetch EXCEPT !.at = "claim", !.todo = page]]
  /\ UNCHANGED <<hour, settings, row, cache, inflight, job, view, answered>>

Answers(ip) == answered' = [answered EXCEPT ![ip] = hour]
Claimable(ip) == ~Fresh(cache, ip) /\ ip \notin inflight

(* Under the lock that read the cache. *)
Claim(p) ==
  /\ poll[p].at = "claim" /\ poll[p].todo # << >>
  /\ LET ip == Head(poll[p].todo)
     IN IF Claimable(ip)
        THEN /\ inflight' = inflight \cup {ip}
             /\ poll' = [poll EXCEPT ![p].todo = Tail(@), ![p].need = Append(@, ip)]
        ELSE /\ poll' = [poll EXCEPT ![p].todo = Tail(@)]
             /\ UNCHANGED inflight
  /\ UNCHANGED <<hour, settings, row, cache, job, view, sky, answered>>

Claimed(p) ==
  /\ poll[p].at = "claim" /\ poll[p].todo = << >>
  /\ poll' = [poll EXCEPT ![p] =
       IF @.need = << >> THEN NoPrefetch
       ELSE IF sky.database THEN [NoPrefetch EXCEPT !.at = "sweep", !.todo = poll[p].need]
       ELSE [@ EXCEPT !.at = "launch"]]
  /\ UNCHANGED <<hour, settings, row, cache, inflight, job, view, sky, answered>>

(* The local database first, for any number of addresses. *)
Sweep(p) ==
  /\ poll[p].at = "sweep" /\ poll[p].todo # << >> /\ JobsOf(p) = {}
  /\ LET ip == Head(poll[p].todo)
     IN IF InDatabase(ip)
        THEN /\ inflight' = inflight \ {ip}
             /\ cache' = Put(cache, ip, Located(hour + FreshFor))
             /\ Answers(ip)
             /\ job' = job \cup {Request(ip, p, "save", FALSE)}
             /\ poll' = [poll EXCEPT ![p].todo = Tail(@)]
        ELSE /\ poll' = [poll EXCEPT ![p].todo = Tail(@), ![p].need = Append(@, ip)]
             /\ UNCHANGED <<inflight, cache, job, answered>>
  /\ UNCHANGED <<hour, settings, row, view, sky>>

(* What the database does not cover goes on to the network, if it may. *)
EndSweep(p) ==
  /\ poll[p].at = "sweep" /\ poll[p].todo = << >> /\ JobsOf(p) = {}
  /\ IF poll[p].need # << >> /\ HttpTier
     THEN poll' = [poll EXCEPT ![p].at = "launch"] /\ UNCHANGED inflight
     ELSE poll' = [poll EXCEPT ![p] = NoPrefetch] /\ inflight' = inflight \ ToSet(poll[p].need)
  /\ UNCHANGED <<hour, settings, row, cache, job, view, sky, answered>>

ReleasedPastCap(need, k) == ToSet(SubSeq(need, PerCall + 1, Len(need)))   \* mutant

Released(need, k) == ToSet(SubSeq(need, k + 1, Len(need)))

(* One lookup per address, up to the cap, until the budget ends. *)
Launch(p) ==
  /\ poll[p].at = "launch"
  /\ LET need == poll[p].need
         most == Min({PerCall, Len(need)})
     IN \E k \in 0 .. most :
          /\ job' = job \cup {Request(need[i], p, "launched", FALSE) : i \in 1 .. k}
          /\ inflight' = inflight \ Released(need, k)
          /\ poll' = [poll EXCEPT ![p] = [NoPrefetch EXCEPT !.at = "wait", !.late = k < most]]
  /\ UNCHANGED <<hour, settings, row, cache, view, sky, answered>>

BudgetEnds(p) ==
  /\ poll[p].at = "wait" /\ ~poll[p].late
  /\ poll' = [poll EXCEPT ![p].late = TRUE]
  /\ UNCHANGED <<hour, settings, row, cache, inflight, job, view, sky, answered>>

EndPrefetch(p) ==
  /\ poll[p].at = "wait" /\ JobsOf(p) = {}
  /\ poll' = [poll EXCEPT ![p] = NoPrefetch]
  /\ UNCHANGED <<hour, settings, row, cache, inflight, job, view, sky, answered>>

-----------------------------------------------------------------------------
(* One lookup *)

Onward(j, next) == job' = (job \ {j}) \cup next
Ends(j) == Onward(j, {})
Unclaim(j) == inflight' = inflight \ {j.ip}

(* Without a free permit, or past the budget, the address is let go. *)
Drop(j) ==
  /\ j.at = "launched"
  /\ poll[j.by].late \/ Cardinality(Permitted) >= Permits
  /\ Unclaim(j) /\ Ends(j)
  /\ UNCHANGED <<hour, settings, row, cache, poll, view, sky, answered>>

Enter(j) ==
  /\ j.at = "launched" /\ Cardinality(Permitted) < Permits
  /\ IF HttpTier /\ ~InDatabase(j.ip)
     THEN /\ Onward(j, {[j EXCEPT !.at = "allowed", !.permit = TRUE]})
          /\ UNCHANGED <<inflight, cache, answered>>
     ELSE /\ Unclaim(j)
          /\ IF InDatabase(j.ip)
             THEN /\ cache' = Put(cache, j.ip, Located(hour + FreshFor)) /\ Answers(j.ip)
                  /\ Onward(j, {[j EXCEPT !.at = "save", !.permit = TRUE]})
             ELSE /\ cache' = Put(cache, j.ip, Unlocated(hour + PauseFor))
                  /\ Ends(j) /\ UNCHANGED answered
  /\ UNCHANGED <<hour, settings, row, poll, view, sky>>

(* The settings are read again for the URL. *)
Ask(j) ==
  /\ j.at = "allowed"
  /\ IF Askable THEN Onward(j, {[j EXCEPT !.at = "asking"]}) /\ UNCHANGED inflight
                ELSE Ends(j) /\ Unclaim(j)
  /\ UNCHANGED <<hour, settings, row, cache, poll, view, sky, answered>>

Responds(j) ==
  /\ j.at = "asking" /\ Unclaim(j)
  /\ UNCHANGED <<hour, settings, row, poll, view, sky>>

(* No answer, or one that cannot be read; cut off by the budget, nothing   *)
(* is learnt of the address.                                               *)
Fail(j) ==
  /\ Responds(j) /\ Ends(j) /\ UNCHANGED answered
  /\ cache' = Put(cache, j.ip, Unlocated(hour + PauseFor))
CutOff(j) == poll[j.by].late /\ Responds(j) /\ Ends(j) /\ UNCHANGED <<cache, answered>>
Reject(j) ==
  /\ Responds(j) /\ Ends(j) /\ UNCHANGED answered
  /\ cache' = Put(cache, j.ip, Unlocated(hour + RefusedFor))
Locate(j) ==
  /\ Responds(j) /\ Answers(j.ip) /\ Onward(j, {[j EXCEPT !.at = "save"]})
  /\ cache' = Put(cache, j.ip, Located(hour + FreshFor))

(* persist; a row that cannot be written is not missed. *)
Save(j) ==
  /\ j.at = "save" /\ Ends(j)
  /\ \/ row' = [row EXCEPT ![j.ip] = hour] /\ Answers(j.ip)
     \/ UNCHANGED <<row, answered>>
  /\ UNCHANGED <<hour, settings, cache, inflight, poll, view, sky>>

-----------------------------------------------------------------------------
(* What a panel shows *)

(* Memory answers; where it knows nothing, a row does. *)
Look(v) ==
  /\ view[v].at = "idle" /\ Enabled /\ Occurs("view")
  /\ \E ip \in Ip :
       IF Fresh(cache, ip)
       THEN cache' = Touched(cache, ip) /\ UNCHANGED view
       ELSE view' = [view EXCEPT ![v] = [NoView EXCEPT !.at = "row", !.ip = ip]] /\ UNCHANGED cache
  /\ UNCHANGED <<hour, settings, row, inflight, poll, job, answered>>

ReadRow(v) ==
  /\ view[v].at = "row"
  /\ view' = [view EXCEPT ![v].at = "read", ![v].row = row[view[v].ip]]
  /\ UNCHANGED <<hour, settings, row, cache, inflight, poll, job, answered, sky>>

RowFresh(at) == at >= 0 /\ hour - at < RowFor
FromNow(at) == hour + RowFor   \* mutant

UntilOld(at) == at + RowFor

Remember(v) ==
  /\ view[v].at = "read"
  /\ LET ip == view[v].ip
         at == view[v].row
         known == ip \in DOMAIN cache.entry /\ cache.entry[ip].ok
     IN cache' = IF RowFresh(at) THEN Put(cache, ip, Located(UntilOld(at)))
                 ELSE IF known THEN cache
                 ELSE Put(cache, ip, Unlocated(hour + MissFor))
  /\ view' = [view EXCEPT ![v] = NoView]
  /\ UNCHANGED <<hour, settings, row, inflight, poll, job, answered, sky>>

-----------------------------------------------------------------------------
(* The process ends and starts: only the rows and the settings remain. *)
Restart ==
  /\ Occurs("restart")
  /\ cache' = EmptyCache /\ inflight' = {} /\ job' = {}
  /\ poll' = [p \in Prefetch |-> NoPrefetch] /\ view' = [v \in Viewer |-> NoView]
  /\ UNCHANGED <<hour, settings, row, answered>>

PassTime ==
  /\ hour < sky.end
  /\ hour' = hour + 1
  /\ UNCHANGED <<settings, row, cache, inflight, poll, job, view, sky, answered>>

GeoNext ==
  \/ SaveFlag \/ Restart \/ PassTime
  \/ \E p \in Prefetch : \/ Begin(p) \/ Claim(p) \/ Claimed(p) \/ Sweep(p) \/ EndSweep(p)
                     \/ Launch(p) \/ BudgetEnds(p) \/ EndPrefetch(p)
  \/ \E j \in job : \/ Drop(j) \/ Enter(j) \/ Ask(j) \/ Fail(j) \/ CutOff(j) \/ Reject(j)
                    \/ Locate(j) \/ Save(j)
  \/ \E v \in Viewer : Look(v) \/ ReadRow(v) \/ Remember(v)

GeoSpec == GeoInit /\ [][GeoNext]_geoVars

-----------------------------------------------------------------------------
(* Properties *)

(* Who answers for an address being looked up: a prefetch that claimed it, *)
(* or the lookup it began.                                                 *)
Claims(p) == IF poll[p].at = "sweep" THEN ToSet(poll[p].need) \cup ToSet(poll[p].todo)
             ELSE ToSet(poll[p].need)
Holders(ip) == {p \in Prefetch : ip \in Claims(p)} \cup {j \in job : j.ip = ip /\ j.at # "save"}

(* An address is marked while exactly one prefetch or lookup answers for   *)
(* it: an orphaned mark would keep it from ever being looked up again, an  *)
(* unmarked lookup lets an overlapping poll ask for it a second time.      *)
MarkHeldOnce == \A ip \in Ip : Cardinality(Holders(ip)) = IF ip \in inflight THEN 1 ELSE 0

(* A panel shows a location for RowFor after its lookup and no longer,     *)
(* however often it was evicted, or the process restarted, and its row was *)
(* read back.                                                              *)
NothingOutdated ==
  \A ip \in DOMAIN cache.entry :
    cache.entry[ip].ok => cache.entry[ip].expiry <= answered[ip] + RowFor
===============================================================================
