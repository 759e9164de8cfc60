---------------------------- MODULE ScriptFamilies ----------------------------
(***************************************************************************)
(* Script families (store/scripts.go, script/distance.go): a tick of the   *)
(* campaign worker settles sessions, files new scripts under the closest   *)
(* representative, rebuilds the Scripts view with a regroup and prunes the *)
(* scripts no session has any more.  The store fences none of it, so a     *)
(* worker that stalls past its lease goes on under its successor; and      *)
(* retention, `ingest cowrie --replace` and errors come at any step.       *)
(*                                                                         *)
(* A script stands for its fingerprint and a session for its first_seen;   *)
(* both are compared as numbers.                                           *)
(***************************************************************************)
EXTENDS Integers, FiniteSets, Functions

CONSTANTS
  Worker, SessionID, Script,
  Distinctive,      \* scripts with enough of their own to link sessions
  Size, Gap,        \* tokens in a script; distance of two scripts
  FamilyThreshold, FamilyNearestReps, FamilyBatch, FamilyVariantCap, MaxLinkActors,
  Chunk,            \* rows in one transaction of a prune or a rebuild
  Trials            \* bounds: sessions that change, replacements, upgrades, takeovers; the
                    \* scripts typed, and whose lease it is at first

ASSUME FamiliesAssumption ==
  /\ SessionID \subseteq Nat /\ Script \subseteq Nat \ {0} /\ Distinctive \subseteq Script
  /\ Size \in [Script -> Nat] /\ Gap \in [Script -> [Script -> Nat]]
  /\ FamilyThreshold \in Nat
  /\ \A t \in Trials : t.first \in Worker

VARIABLES
  use,         \* session_scripts: what a session's lines make now, what it settled to; 0: nothing
  scripts,     \* scripts, by fingerprint: its family ('': 0), the distance to it, first_seen
  families,    \* script_families, by family
  turn,        \* whose lease it is
  pass,        \* the pass each worker is in, and what it read
  versionDue,  \* the stored normaliser version is not this binary's
  met,         \* what has begun while another worker's tick was under way
  trial

familiesVars == <<use, scripts, families, turn, pass, versionDue, met, trial>>

NoRow == [now |-> 0, fp |-> 0]
NoTick ==
  [at |-> "idle", settled |-> FALSE, regrouped |-> FALSE, steady |-> TRUE,
   queue |-> << >>, reps |-> {}, read |-> {}, gone |-> {}, out |-> << >>,
   want |-> << >>, drop |-> {}, write |-> {}, orphans |-> {}]

FamiliesInit ==
  /\ use = [s \in SessionID |-> NoRow] /\ scripts = << >> /\ families = << >>
  /\ pass = [w \in Worker |-> NoTick]
  /\ versionDue = FALSE /\ met = {}
  /\ trial \in Trials /\ turn = trial.first

Try(what) == trial[what] > 0 /\ trial' = [trial EXCEPT ![what] = @ - 1]
InStage(w, at) == pass[w].at = at
GoesOn(w, at) == pass' = [pass EXCEPT ![w].at = at]

-----------------------------------------------------------------------------
(* The tick *)

Others(w) == {o \in Worker \ {w} : ~InStage(o, "idle")}

(* holdLease: a lease lapses at any time.  ResetScriptsForVersion is next, *)
(* if the version calls for it.                                            *)
BeginTick(w) ==
  /\ InStage(w, "idle") /\ turn' = w
  /\ IF turn = w THEN UNCHANGED trial ELSE Try("takeover")
  /\ met' = IF Others(w) = {} THEN met
            ELSE met \cup {"tick"} \cup (IF versionDue THEN {"reset"} ELSE {})
  /\ GoesOn(w, IF versionDue THEN "rows" ELSE "record")
  /\ UNCHANGED <<use, scripts, families, versionDue>>

(* RecordCampaignEvidence: a session's lines make another script. *)
RecordLines(w) ==
  /\ InStage(w, "record") /\ Try("change")
  /\ \E s \in SessionID, f \in Script :
       f \in trial.typed /\ use[s].now # f /\ use' = [use EXCEPT ![s].now = f]
  /\ UNCHANGED <<scripts, families, turn, pass, versionDue, met>>

Pending == {s \in SessionID : use[s].now # use[s].fp}
MadeBy(done, f) == {s \in done : use[s].now = f}
FirstOf(ss) == CHOOSE s \in ss : \A o \in ss : s <= o

(* The scripts upsert: a row there already keeps its family. *)
WithScripts(done) ==
  LET settled == {use[s].now : s \in done}
  IN  [f \in DOMAIN scripts \cup settled |->
         IF f \notin DOMAIN scripts
         THEN [family |-> 0, gap |-> 0, first |-> FirstOf(MadeBy(done, f))]
         ELSE IF f \notin settled THEN scripts[f]
         ELSE [scripts[f] EXCEPT !.first = IF @ <= FirstOf(MadeBy(done, f)) THEN @ ELSE FirstOf(MadeBy(done, f))]]

(* renewLease, then SettleSessionScripts for the sessions idle by now.     *)
Settle(w) ==
  /\ InStage(w, "record") /\ turn = w
  /\ \E done \in SUBSET Pending :
       /\ use' = [s \in SessionID |-> IF s \in done THEN [use[s] EXCEPT !.fp = use[s].now] ELSE use[s]]
       /\ scripts' = WithScripts(done)
       /\ pass' = [pass EXCEPT ![w].at = "list", ![w].settled = (done # {})]
  /\ UNCHANGED <<families, turn, versionDue, met, trial>>

-----------------------------------------------------------------------------
(* AssignScriptFamilies: list, compare one script after the other, write.  *)

Earlier(first, f, g) == first[f] < first[g] \/ (first[f] = first[g] /\ f < g)
Unfiled ==
  LET first == [f \in {g \in DOMAIN scripts : scripts[g].family = 0} |-> scripts[f].first]
  IN  Restrict(first, {f \in DOMAIN first : Cardinality({g \in DOMAIN first : Earlier(first, g, f)}) < FamilyBatch})
Leads(f) == scripts[f].family = f
Representatives == {f \in DOMAIN scripts : Leads(f) /\ f \in Distinctive}

ListScripts(w) ==
  /\ InStage(w, "list")
  /\ pass' = IF DOMAIN Unfiled = {} THEN [pass EXCEPT ![w].at = "decide"]
             ELSE [pass EXCEPT ![w].at = "assign", ![w].queue = Unfiled, ![w].reps = Representatives]
  /\ UNCHANGED <<use, scripts, families, turn, versionDue, met, trial>>

InLengthBand(a, b) == a > 0 /\ b > 0 /\ 5 * a >= 4 * b /\ 5 * b >= 4 * a

TokensApart(n, r) == IF Size[r] >= n THEN Size[r] - n ELSE n - Size[r]
Nearer(n, q, r) == TokensApart(n, q) < TokensApart(n, r) \/ (TokensApart(n, q) = TokensApart(n, r) /\ q < r)
NearestReps(reps, n) ==
  LET band == {r \in reps : InLengthBand(n, Size[r])}
  IN  {r \in band : Cardinality({q \in band : Nearer(n, q, r)}) < FamilyNearestReps}

(* The closest of them, the smallest fingerprint first, if close enough.   *)
AssignFamily(f, cands) ==
  {r \in cands : /\ Gap[f][r] <= FamilyThreshold
                 /\ \A q \in cands : Gap[f][r] < Gap[f][q] \/ (Gap[f][r] = Gap[f][q] /\ r <= q)}

(* A representative's text is loaded once a pass, unless it is gone by then. *)
AssignOne(w, f) ==
  LET t == pass[w]
      near == IF f \in Distinctive THEN NearestReps(t.reps, Size[f]) ELSE {}
      gone == t.gone \cup {r \in near \ t.read : r \notin DOMAIN scripts}
      match == AssignFamily(f, near \ gone)
      family == IF match = {} THEN f ELSE CHOOSE r \in match : TRUE
      led == IF match = {} /\ f \in Distinctive THEN {f} ELSE {}
  IN
  /\ InStage(w, "assign")
  /\ f \in DOMAIN t.queue /\ \A g \in DOMAIN t.queue \ {f} : Earlier(t.queue, f, g)
  /\ pass' = [pass EXCEPT ![w] =
       [t EXCEPT !.queue = Restrict(@, DOMAIN @ \ {f}), !.gone = gone,
                 !.read = @ \cup (near \ gone) \cup led, !.reps = @ \cup led,
                 !.out = [g \in DOMAIN @ \cup {f} |->
                            IF g \in DOMAIN @ THEN @[g]
                            ELSE [family |-> family, gap |-> IF match = {} THEN 0 ELSE Gap[f][family]]]]]
  /\ UNCHANGED <<use, scripts, families, turn, versionDue, met, trial>>

Filed(out) ==
  [f \in DOMAIN scripts |->
     IF f \in DOMAIN out /\ scripts[f].family = 0
     THEN [scripts[f] EXCEPT !.family = out[f].family, !.gap = out[f].gap] ELSE scripts[f]]

(* When the queue is empty or, after at least one, the budget is spent.    *)
WriteFamilies(w) ==
  /\ InStage(w, "assign") /\ DOMAIN pass[w].out # {}
  /\ scripts' = Filed(pass[w].out)
  /\ pass' = [pass EXCEPT ![w] = [NoTick EXCEPT !.at = "decide", !.settled = pass[w].settled]]
  /\ UNCHANGED <<use, families, turn, versionDue, met, trial>>

-----------------------------------------------------------------------------
(* The regroup's RebuildScriptFamilies: one snapshot, then only the rows   *)
(* that differ, deletions first, a chunk at a time.                        *)

SaveRegroup(w) ==
  /\ InStage(w, "decide") /\ turn = w
  /\ pass' = [pass EXCEPT ![w].at = "snapshot", ![w].regrouped = TRUE]
  /\ UNCHANGED <<use, scripts, families, turn, versionDue, met, trial>>

UsedBy(f) == {s \in SessionID : use[s].fp = f}
Members(id) == {f \in DOMAIN scripts : scripts[f].family = id}
Links(f) == f \in Distinctive /\ Cardinality(UsedBy(f)) <= MaxLinkActors

(* capFamilyVariants: the largest, in the order of their distance, and the *)
(* representative.                                                         *)
Larger(f, g) ==
  LET n(x) == Cardinality(UsedBy(x)) IN
  \/ n(f) > n(g)
  \/ n(f) = n(g) /\ (scripts[f].gap < scripts[g].gap \/ (scripts[f].gap = scripts[g].gap /\ f < g))
Variants(id) ==
  {f \in Members(id) : f = id \/ Cardinality({g \in Members(id) : Larger(g, f)}) < FamilyVariantCap}

FamilyRows ==
  LET used == {id \in Script : \E f \in Members(id) : UsedBy(f) # {}}
  IN  [id \in used |->
         [sessions |-> UNION {UsedBy(f) : f \in Members(id)},
          variants |-> [f \in Variants(id) |-> Cardinality(UsedBy(f))],
          links |-> \E f \in Members(id) : Links(f)]]

Differs(want) == {id \in DOMAIN want : id \notin DOMAIN families \/ families[id] # want[id]}

SnapshotFamilies(w) ==
  /\ InStage(w, "snapshot")
  /\ pass' = [pass EXCEPT ![w].at = "rebuild", ![w].want = FamilyRows, ![w].steady = TRUE,
                          ![w].drop = DOMAIN families \ DOMAIN FamilyRows, ![w].write = Differs(FamilyRows)]
  /\ UNCHANGED <<use, scripts, families, turn, versionDue, met, trial>>

FirstChunk(S) == {x \in S : Cardinality({y \in S : y <= x}) <= Chunk}

DropFamilies(w) ==
  LET chunk == FirstChunk(pass[w].drop) IN
  /\ InStage(w, "rebuild") /\ pass[w].drop # {}
  /\ families' = Restrict(families, DOMAIN families \ chunk)
  /\ pass' = [pass EXCEPT ![w].drop = @ \ chunk]
  /\ UNCHANGED <<use, scripts, turn, versionDue, met, trial>>

UpsertFamilies(w) ==
  LET chunk == FirstChunk(pass[w].write) IN
  /\ InStage(w, "rebuild") /\ pass[w].drop = {} /\ pass[w].write # {}
  /\ families' = [id \in DOMAIN families \cup chunk |->
                    IF id \in chunk THEN pass[w].want[id] ELSE families[id]]
  /\ pass' = [pass EXCEPT ![w].write = @ \ chunk]
  /\ UNCHANGED <<use, scripts, turn, versionDue, met, trial>>

-----------------------------------------------------------------------------
(* PruneOrphanScripts, after a settle or a regroup.  The lease is looked   *)
(* at once before it.                                                      *)

Regrouped(w) == InStage(w, "rebuild") /\ pass[w].drop = {} /\ pass[w].write = {}
Proceed(w) ==
  /\ turn = w
  /\ (InStage(w, "decide") /\ pass[w].settled) \/ Regrouped(w)
  /\ GoesOn(w, "prune")
  /\ UNCHANGED <<use, scripts, families, turn, versionDue, met, trial>>

Unused(f) == UsedBy(f) = {}

OrphanCandidates(w) ==
  /\ InStage(w, "prune")
  /\ pass' = [pass EXCEPT ![w].at = "chunks", ![w].orphans = {f \in DOMAIN scripts : Unused(f)}]
  /\ UNCHANGED <<use, scripts, families, turn, versionDue, met, trial>>

(* A representative nobody uses dissolves its family; what nobody uses and *)
(* no other script is filed under is deleted.                              *)
Dissolved(chunk) ==
  {f \in chunk \cap DOMAIN scripts : Leads(f) /\ Unused(f) /\ \E m \in Members(f) : m # f}
Loose(chunk) ==
  [f \in DOMAIN scripts |->
     IF scripts[f].family \in Dissolved(chunk) THEN [scripts[f] EXCEPT !.family = 0, !.gap = 0] ELSE scripts[f]]

DeletedAsListed(chunk, rows) ==   \* mutant
  {f \in chunk \cap DOMAIN rows : \A m \in DOMAIN rows \ {f} : rows[m].family # f}

Deleted(chunk, rows) ==
  {f \in chunk \cap DOMAIN rows : Unused(f) /\ \A m \in DOMAIN rows \ {f} : rows[m].family # f}

PruneChunk(w) ==
  LET chunk == FirstChunk(pass[w].orphans)
      loose == Loose(chunk)
  IN
  /\ InStage(w, "chunks") /\ pass[w].orphans # {}
  /\ scripts' = Restrict(loose, DOMAIN loose \ Deleted(chunk, loose))
  /\ pass' = [pass EXCEPT ![w].orphans = @ \ chunk]
  /\ UNCHANGED <<use, families, turn, versionDue, met, trial>>

(* A tick that is through, or that an error, a crash or a lapse ends.      *)
EndTick(w) ==
  /\ ~InStage(w, "idle")
  /\ pass' = [pass EXCEPT ![w] = NoTick]
  /\ UNCHANGED <<use, scripts, families, turn, versionDue, met, trial>>

-----------------------------------------------------------------------------
(* ResetScriptsForVersion's second step, row by row: a table is left when  *)
(* it is found empty.                                                      *)

ResetRows(w) ==
  /\ InStage(w, "rows")
  /\ \/ \E s \in SessionID :
          /\ use[s] # NoRow /\ \A o \in SessionID : o < s => use[o] = NoRow
          /\ use' = [use EXCEPT ![s] = NoRow] /\ UNCHANGED pass
     \/ (\A s \in SessionID : use[s] = NoRow) /\ GoesOn(w, "scripts") /\ UNCHANGED use
  /\ UNCHANGED <<scripts, families, turn, versionDue, met, trial>>

ResetScripts(w) ==
  /\ InStage(w, "scripts")
  /\ \/ \E f \in DOMAIN scripts :
          /\ \A g \in DOMAIN scripts : f <= g
          /\ scripts' = Restrict(scripts, DOMAIN scripts \ {f}) /\ UNCHANGED pass
     \/ DOMAIN scripts = {} /\ GoesOn(w, "families") /\ UNCHANGED scripts
  /\ UNCHANGED <<use, families, turn, versionDue, met, trial>>

ResetFamilies(w) ==
  /\ InStage(w, "families")
  /\ \/ \E id \in DOMAIN families :
          /\ \A other \in DOMAIN families : id <= other
          /\ families' = Restrict(families, DOMAIN families \ {id}) /\ UNCHANGED <<pass, versionDue>>
     \/ DOMAIN families = {} /\ versionDue' = FALSE /\ GoesOn(w, "record") /\ UNCHANGED families
  /\ UNCHANGED <<use, scripts, turn, met, trial>>

-----------------------------------------------------------------------------
(* What comes between *)

(* purgeCampaignDerived takes a session whole, and no script. *)
PurgeDerived(s) ==
  /\ use[s] # NoRow /\ Try("change")
  /\ use' = [use EXCEPT ![s] = NoRow]
  /\ UNCHANGED <<scripts, families, turn, pass, versionDue, met>>

(* clearCampaignDerivedTx *)
ClearDerived ==
  /\ Try("replace")
  /\ use' = [s \in SessionID |-> NoRow] /\ scripts' = << >> /\ families' = << >>
  /\ pass' = [w \in Worker |-> [pass[w] EXCEPT !.steady = FALSE]]
  /\ UNCHANGED <<turn, versionDue, met>>

(* A binary with another normaliser takes this one's place. *)
Upgrade ==
  /\ ~versionDue /\ Try("upgrade") /\ versionDue' = TRUE
  /\ UNCHANGED <<use, scripts, families, turn, pass, met>>

FamiliesNext ==
  \/ \E w \in Worker :
       \/ BeginTick(w) \/ RecordLines(w) \/ Settle(w)
       \/ ListScripts(w) \/ (\E f \in Script : AssignOne(w, f)) \/ WriteFamilies(w)
       \/ SaveRegroup(w) \/ SnapshotFamilies(w) \/ DropFamilies(w) \/ UpsertFamilies(w)
       \/ Proceed(w) \/ OrphanCandidates(w) \/ PruneChunk(w) \/ EndTick(w)
       \/ ResetRows(w) \/ ResetScripts(w) \/ ResetFamilies(w)
  \/ \E s \in SessionID : PurgeDerived(s)
  \/ ClearDerived \/ Upgrade

FamiliesSpec == FamiliesInit /\ [][FamiliesNext]_familiesVars

-----------------------------------------------------------------------------
(* Properties *)

(* A script's family is a representative that is there, leads itself and   *)
(* was measured to be close enough, while the worker's tick is the only    *)
(* one and no reset is under way.                                          *)
Led(f) ==
  LET id == scripts[f].family IN
  \/ id = 0
  \/ id = f
  \/ /\ id \in DOMAIN scripts /\ Leads(id) /\ {f, id} \subseteq Distinctive
     /\ scripts[f].gap = Gap[f][id] /\ Gap[f][id] <= FamilyThreshold
FamiliesLed == met = {} /\ ~versionDue => \A f \in DOMAIN scripts : Led(f)

(* However late a prune comes, and under however many successors, a        *)
(* settled session's script is there; only a reset that another tick       *)
(* overlaps can take it.                                                   *)
SettledHasScript ==
  "reset" \notin met => \A s \in SessionID : use[s].fp # 0 => use[s].fp \in DOMAIN scripts

(* A rebuild leaves the view of its snapshot, whatever an earlier one left *)
(* half done.                                                              *)
ViewRebuilt ==
  \A w \in Worker :
    (met = {} /\ pass[w].regrouped /\ pass[w].steady /\ pass[w].at \in {"prune", "chunks"}) =>
      families = pass[w].want

FamiliesHold == FamiliesLed /\ SettledHasScript /\ ViewRebuilt
===============================================================================
