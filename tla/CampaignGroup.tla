----------------------------- MODULE CampaignGroup -----------------------------
(***************************************************************************)
(* How campaigns are grouped and keep their identity (campaign/group.go,   *)
(* worker.go linkingOccurrences and regroup, store/campaigns.go and        *)
(* web/api_campaigns.go): sessions that share evidence are one campaign,   *)
(* and every regroup feeds on the assignments and aliases of the last.     *)
(*                                                                         *)
(* Sessions are numbered in the order they were first seen and values in   *)
(* the order of their names, so evidence is ordered by <<session, value>>. *)
(* An ID is <<value, n>>: the hash of an anchor value, n-th attempt.       *)
(* A regroup is one that was saved: its lease, fence and stale checks are  *)
(* CampaignPipeline's.                                                     *)
(***************************************************************************)
EXTENDS Integers, Sequences, FiniteSets, FiniteSetsExt, SequencesExt, Functions, TLC

CONSTANTS
  Value,        \* linking values, numbers
  Actor,
  CommonFrom,   \* a value this many actors carry is common, and links nothing
  Sighting,     \* what a further session may bring: an actor and its values
  Agenda        \* bounds: the sessions recorded before the first regroup, and how many more,
                \* purges, failures to read, re-keys and which edits may follow

ASSUME GroupAssumption == Value \subseteq Nat /\ CommonFrom \in Nat \ {0, 1}

VARIABLES
  seen,         \* per session seen so far: its actor, and the values its rows still hold
  unread,       \* payload values whose files cannot be read now
  assign,       \* campaign_ids: [value -> [id, seq]]
  aliases,      \* campaign_aliases: [id -> id]
  edits,        \* campaign_edits
  campaigns,    \* campaigns and campaign_members
  applied,      \* edits the saved grouping has read
  due,          \* something changed since that grouping
  noted,        \* a grouping, with what it was computed from
  agenda

groupVars == <<seen, unread, assign, aliases, edits, campaigns, applied, due, noted, agenda>>

NoName == ""
Nothing == << >>

GroupInit ==
  /\ unread = {} /\ assign = << >> /\ aliases = << >> /\ edits = << >>
  /\ campaigns = {} /\ applied = 0 /\ due = TRUE /\ noted = Nothing
  /\ agenda \in Agenda /\ seen = agenda.start

-----------------------------------------------------------------------------
(* Linking evidence *)

Sessions == DOMAIN seen
Carriers(v) == {seen[s].actor : s \in {t \in Sessions : v \in seen[t].values}}
Common(v) == Cardinality(Carriers(v)) >= CommonFrom

(* linkingOccurrences: a common value is never read, and an unread one     *)
(* links nothing this cycle.                                               *)
Linking == {<<s, v>> \in Sessions \X Value : v \in seen[s].values /\ ~Common(v) /\ v \notin unread}
Unreadable == {v \in unread : Carriers(v) # {} /\ ~Common(v)}

-----------------------------------------------------------------------------
(* Identity *)

(* Resolve: follow a map of IDs to its end. *)
Follow(map, id) ==
  LET walk[n \in Nat] == IF n = 0 THEN id
                         ELSE IF walk[n - 1] \in DOMAIN map THEN map[walk[n - 1]] ELSE walk[n - 1]
  IN walk[Cardinality(DOMAIN map) + 1]

(* MergeAliases: the merges alone, in the order they were made, each side  *)
(* resolved through those before it.                                       *)
Merges(ledger) ==
  LET Merge(map, e) ==
        LET from == Follow(map, e.id)
            to == Follow(map, e.arg)
        IN IF e.action = "merge" /\ from # to THEN map @@ (from :> to) ELSE map
  IN FoldLeft(Merge, << >>, ledger)

Rep(id) == Follow(Merges(edits), id)
Assigned == DOMAIN assign
LineageOf(v) == Rep(assign[v].id)
InGroup == {Rep(id) : id \in DOMAIN Merges(edits)}

EditsOf(action) == {i \in DOMAIN edits : edits[i].action = action}
Ignored == {edits[i].arg : i \in EditsOf("ignore_evidence")}
Removed(l) == {edits[i].arg : i \in {j \in EditsOf("remove_actor") : Rep(edits[j].id) = l}}
Edited(l) == \E i \in DOMAIN edits : edits[i].action # "ignore_evidence" /\ Rep(edits[i].id) = l

(* latestEdit over some lineages.  Notes are kept the way names are. *)
NameOf(ls) ==
  LET named == {i \in EditsOf("rename") : Rep(edits[i].id) \in ls}
  IN IF named = {} THEN NoName ELSE edits[Max(named)].arg

-----------------------------------------------------------------------------
(* Components: partitions of the sessions of a set of occurrences *)

ValuesIn(occ) == {o[2] : o \in occ}
Holding(occ, v) == {o[1] : o \in {p \in occ : p[2] = v}}
In(occ, piece) == {o \in occ : o[1] \in piece}
PieceOf(pieces, s) == CHOOSE p \in pieces : s \in p

Fuse(pieces, ss) ==
  LET met == {p \in pieces : p \cap ss # {}}
  IN IF ss = {} THEN pieces ELSE (pieces \ met) \cup {UNION met}

SessionUnion(occ) ==
  FoldSet(LAMBDA v, pieces : Fuse(pieces, Holding(occ, v)), {{o[1]} : o \in occ}, ValuesIn(occ))

(* The earliest assigned of some values. *)
Earliest(vs) == CHOOSE v \in vs : \A w \in vs : assign[v].seq <= assign[w].seq

LineagesIn(occ) == {LineageOf(v) : v \in ValuesIn(occ) \cap Assigned}
OfLineage(occ, l) == {v \in ValuesIn(occ) \cap Assigned : LineageOf(v) = l}
(* The component of a lineage is the one with its earliest assigned value. *)
Root(occ, pieces, l) == PieceOf(pieces, CHOOSE s \in Holding(occ, Earliest(OfLineage(occ, l))) : TRUE)

(* unite's claims on a merged lineage: of the piece that owns the recorded *)
(* ID, and of a piece nothing severed from it that has a session of that   *)
(* lineage alone.                                                          *)
Standing(occ, parents, l) ==
  LET pieces == SessionUnion(occ)
      Recorded(id) == {v \in ValuesIn(occ) \cap Assigned : assign[v].id = id}
      OwnerOf(id) == CHOOSE s \in Holding(occ, Earliest(Recorded(id))) : TRUE
      Pure(piece) == \E s \in piece : LineagesIn(In(occ, {s})) = {l}
      Claims(s, v) ==
        LET own == OwnerOf(assign[v].id)
        IN \/ PieceOf(pieces, s) = PieceOf(pieces, own)
           \/ PieceOf(parents, s) # PieceOf(parents, own) /\ Pure(PieceOf(pieces, s))
  IN {o[1] : o \in {p \in occ : p[2] \in OfLineage(occ, l) /\ Claims(p[1], p[2])}}

Unite(occ, parents) ==
  FoldSet(LAMBDA l, pieces : Fuse(pieces, Standing(occ, parents, l)), SessionUnion(occ),
          InGroup \cap LineagesIn(occ))

(* remove_actor, before any union: out of every component that owns a      *)
(* lineage it was removed from, until nothing changes.                     *)
Removable(occ, parents) ==
  LET pieces == Unite(occ, parents)
  IN {o \in occ : \E l \in LineagesIn(occ) :
        o[1] \in Root(occ, pieces, l) /\ seen[o[1]].actor \in Removed(l)}

\* mutant: one pass over the components
KeptOnce(all) == all \ Removable(all, SessionUnion(all))

Kept(all) ==
  LET parents == SessionUnion(all)
      kept[occ \in SUBSET all] ==
        LET out == Removable(occ, parents) IN IF out = {} THEN occ ELSE kept[occ \ out]
  IN kept[all]

-----------------------------------------------------------------------------
(* Ownership and IDs *)

Owned(occ, pieces, piece) == {l \in LineagesIn(In(occ, piece)) : Root(occ, pieces, l) = piece}
MinSeq(occ, l) == assign[Earliest(OfLineage(occ, l))].seq

(* A lineage the last grouping pointed at another that is here defers. *)
Defers(owned, l) ==
  LET next(id) == IF id \in DOMAIN aliases THEN aliases[id] ELSE id
      step[n \in Nat] == IF n = 0 THEN l ELSE next(step[n - 1])
  IN \E n \in 1..Cardinality(DOMAIN aliases) :
       /\ step[n - 1] \in DOMAIN aliases
       /\ step[n] \in owned \/ Rep(step[n]) \in owned

(* Edited first, then what does not defer, then the earliest assigned. *)
Ranked(occ, owned) ==
  LET Before(a, b) ==
        IF Edited(a) # Edited(b) THEN Edited(a)
        ELSE IF Defers(owned, a) # Defers(owned, b) THEN Defers(owned, b)
        ELSE MinSeq(occ, a) < MinSeq(occ, b)
  IN SetToSortSeq(owned, Before)

Reserved ==
  {assign[v].id : v \in Assigned} \cup DOMAIN aliases \cup Range(aliases)
    \cup {edits[i].id : i \in DOMAIN edits \ EditsOf("ignore_evidence")}
    \cup {edits[i].arg : i \in EditsOf("merge")}

First(occ) ==
  CHOOSE o \in occ : \A p \in occ : o[1] < p[1] \/ (o[1] = p[1] /\ o[2] <= p[2])

(* uniqueID: minted from the oldest occurrence's value. *)
Minted(occ) ==
  LET v == First(occ)[2]
      n == CHOOSE k \in 0..Cardinality(Reserved) :
             <<v, k>> \notin Reserved /\ \A j \in 0..(k - 1) : <<v, j>> \in Reserved
  IN <<v, n>>

(* The lineages of a piece that did not give it its ID keep pointing at    *)
(* the one they deferred to, or else at the ID.                            *)
Attached(ranked) ==
  LET id == Head(ranked)
      rest == Tail(ranked)
      kept(l) == IF l \in DOMAIN aliases THEN Rep(aliases[l]) ELSE id
      forest == [l \in ToSet(rest) |-> IF kept(l) # l /\ kept(l) \in ToSet(ranked) THEN kept(l) ELSE id]
      Reattach(map, l) == IF Follow(map, l) = id THEN map ELSE [map EXCEPT ![l] = id]
  IN FoldLeft(Reattach, forest, rest)

-----------------------------------------------------------------------------
(* Attribution *)

(* One round: what the actors of a floating value say of it, when each     *)
(* votes with the values it has that are stable or stamped so far.  A      *)
(* session has one actor, so its own lineages are among its actor's.       *)
Picked(occ, marks, v) ==
  LET votes(a) == {w \in DOMAIN marks : \E s \in Holding(occ, w) : seen[s].actor = a}
      actors == {seen[s].actor : s \in Holding(occ, v)}
      lineages == {Rep(marks[w]) : w \in UNION {votes(a) : a \in actors}}
      count(id) == Cardinality({a \in actors : \E w \in votes(a) : marks[w] = id})
      ids == {marks[w] : w \in UNION {votes(a) : a \in actors}}
      best == Max({count(id) : id \in ids})
      winners == {Rep(id) : id \in {i \in ids : count(i) = best}}
  IN IF Cardinality(lineages) = 1 THEN lineages
     ELSE IF lineages = {} \/ best < 2 \/ Cardinality(winners) > 1 THEN {}
     ELSE winners

(* attribute: the recorded IDs in a piece that owns several lineages,      *)
(* after the rounds that stamp something.                                  *)
Attributed(occ, stable) ==
  LET round[n \in Nat] ==
        IF n = 0 THEN stable
        ELSE LET marks == round[n - 1]
                 new == {v \in ValuesIn(occ) \ DOMAIN marks : Picked(occ, marks, v) # {}}
             IN [v \in new |-> CHOOSE l \in Picked(occ, marks, v) : TRUE] @@ marks
  IN round[Cardinality(ValuesIn(occ))]

-----------------------------------------------------------------------------
(* A regroup *)

(* The values that keep the ID and number they were assigned. *)
\* mutant: only those of the lineage that gave the component its ID
StableOfHead(occ, ranked) ==
  {w \in ValuesIn(occ) \cap Assigned : LineageOf(w) \in ToSet(ranked) /\ LineageOf(w) = Head(ranked)}
StableIn(occ, ranked) == {w \in ValuesIn(occ) \cap Assigned : LineageOf(w) \in ToSet(ranked)}

(* A component with its lineages in rank order: ID, name, actors, stamps. *)
Component(occ, ranked) ==
  LET stable == [v \in StableIn(occ, ranked) |-> assign[v].id]
      id == IF ranked = << >> THEN Minted(occ) ELSE Head(ranked)
      name == NameOf(ToSet(ranked))
      members == {seen[o[1]].actor : o \in occ}
      emitted == Cardinality(members) > 1 \/ name # NoName
  IN [id |-> id, name |-> name, members |-> members, emitted |-> emitted,
      aliased |-> IF Len(ranked) < 2 THEN << >> ELSE Attached(ranked),
      owned |-> ToSet(ranked), stable |-> DOMAIN stable,
      marks |-> IF ~emitted THEN stable
                ELSE IF Len(ranked) < 2
                THEN [v \in ValuesIn(occ) |-> IF v \in DOMAIN stable THEN stable[v] ELSE id]
                ELSE Attributed(occ, stable)]

(* Fresh sequence numbers go to the stamped values, oldest first. *)
Numbered(occ, fresh) ==
  LET Before(v, w) == LET o == First({p \in occ : p[2] \in {v, w}}) IN o[2] = v
      last == Max({0} \cup {assign[v].seq : v \in Assigned})
      order == SetToSortSeq(fresh, Before)
  IN [v \in fresh |-> last + CHOOSE n \in DOMAIN order : order[n] = v]

(* What only a removed actor carries, or cannot be read, keeps what it had. *)
Carried(all, occ) ==
  ((ValuesIn(all) \cup (Unreadable \ Ignored)) \ ValuesIn(occ)) \cap Assigned

Components(occ, pieces) == {Component(In(occ, p), Ranked(occ, Owned(occ, pieces, p))) : p \in pieces}

(* What is saved of the components of the evidence. *)
Saved(all, occ, comps) ==
  LET marks == FoldSet(LAMBDA c, m : c.marks @@ m, << >>, comps)
      stable == UNION {c.stable : c \in comps}
      seqs == Numbered(occ, DOMAIN marks \ stable)
      owned == UNION {c.owned : c \in comps}
      shells == {l \in {Rep(edits[i].id) : i \in EditsOf("rename")} \ owned : NameOf({l}) # NoName}
  IN [assign |-> [v \in DOMAIN marks \ stable |-> [id |-> marks[v], seq |-> seqs[v]]]
                   @@ Restrict(assign, stable \cup Carried(all, occ)),
      aliases |-> FoldSet(LAMBDA c, m : c.aliased @@ m, Merges(edits), comps),
      campaigns |-> {[id |-> c.id, name |-> c.name, members |-> c.members] : c \in {d \in comps : d.emitted}}
                      \cup {[id |-> l, name |-> NameOf({l}), members |-> {}] : l \in shells}]

(* Group, given the evidence and everything saved so far. *)
Grouping ==
  LET all == {o \in Linking : o[2] \notin Ignored}
      saved(occ) == Saved(all, occ, Components(occ, Unite(occ, SessionUnion(all))))
  IN saved(Kept(all))

(* regroup and SaveGrouping: campaigns, identity and aliases are replaced  *)
(* whole.  `noted` remembers one grouping with what it was computed from.  *)
(* A session with no rows left is the same to it as one never recorded.    *)
Evidence == {<<s, v, seen[s].actor>> : <<s, v>> \in {<<t, w>> \in Sessions \X Value : w \in seen[t].values}}
Inputs == [evidence |-> Evidence, unread |-> unread, edits |-> edits]
Regroup ==
  /\ \E g \in {Grouping} :
        /\ assign' = g.assign /\ aliases' = g.aliases /\ campaigns' = g.campaigns
        /\ \/ noted' = noted
           \/ noted = Nothing /\ noted' = [inputs |-> Inputs, campaigns |-> g.campaigns]
  /\ applied' = Len(edits) /\ due' = FALSE
  /\ UNCHANGED <<seen, unread, edits, agenda>>

-----------------------------------------------------------------------------
(* What changes between regroups *)

Spend(what) == agenda[what] > 0 /\ agenda' = [agenda EXCEPT ![what] = @ - 1]

(* The recorder adds a session's evidence. *)
Record ==
  /\ Spend("session")
  /\ \E x \in Sighting : seen' = Append(seen, x)
  /\ due' = TRUE
  /\ UNCHANGED <<unread, assign, aliases, edits, campaigns, applied, noted>>

(* Retention deletes a session's rows, by their last activity. *)
PurgeEvidence ==
  /\ Spend("purge")
  /\ \E s \in Sessions : seen[s].values # {} /\ seen' = [seen EXCEPT ![s].values = {}]
  /\ due' = TRUE
  /\ UNCHANGED <<unread, assign, aliases, edits, campaigns, applied, noted>>

(* A payload's file stops being readable, and is readable again. *)
LoseFile ==
  /\ Spend("lose")
  /\ \E v \in Value \ unread : unread' = unread \cup {v}
  /\ due' = TRUE
  /\ UNCHANGED <<seen, assign, aliases, edits, campaigns, applied, noted>>
FindFile ==
  /\ \E v \in unread : unread' = unread \ {v}
  /\ due' = TRUE
  /\ UNCHANGED <<seen, assign, aliases, edits, campaigns, applied, noted, agenda>>

(* removeCampaignMembersTx *)
WithoutMember(a) == {[c EXCEPT !.members = @ \ {a}] : c \in campaigns}

(* A session's late HASSH moves its evidence to another actor; an actor    *)
(* left with nothing is deleted, and leaves every campaign at once.        *)
Rekey ==
  /\ Spend("rekey")
  /\ \E s \in Sessions, a \in Actor :
       /\ a # seen[s].actor /\ seen' = [seen EXCEPT ![s].actor = a]
       /\ campaigns' = IF \E t \in Sessions \ {s} : seen[t].actor = seen[s].actor THEN campaigns
                       ELSE WithoutMember(seen[s].actor)
  /\ due' = TRUE
  /\ UNCHANGED <<unread, assign, aliases, edits, applied, noted>>

(* ResolveCampaignID *)
Exists(id) == \E c \in campaigns : c.id = Follow(aliases, id)
Known == {id \in DOMAIN aliases \cup {c.id : c \in campaigns} : Exists(id)}

(* campaignHoldsActor: a stored member of a campaign of the same merge     *)
(* group, whatever the stored aliases say.                                 *)
HoldsActor(id, a) ==
  \E c \in campaigns : a \in c.members /\ (c.id = id \/ Rep(c.id) = Rep(id))

(* validateCampaignEdit and handleCampaignEdit *)
Allowed(e) ==
  \/ e.action = "rename" /\ e.id \in Known
  \/ e.action = "merge" /\ e.id \in Known /\ e.arg \in Known /\ e.id # e.arg
  \/ e.action = "remove_actor" /\ e.id \in Known /\ HoldsActor(e.id, e.arg)
  \/ e.action = "ignore_evidence"

Drafts(action) ==
  IF action = "ignore_evidence" THEN [action : {action}, arg : Value]
  ELSE [action : {action}, id : Known,
        arg : CASE action = "rename" -> {NoName, "name", "other"} [] action = "merge" -> Known
                [] OTHER -> Actor]

EditCampaign ==
  /\ agenda.edits # << >>
  /\ \E e \in Drafts(Head(agenda.edits)) : Allowed(e) /\ edits' = Append(edits, e)
  /\ agenda' = [agenda EXCEPT !.edits = Tail(@)]
  /\ due' = TRUE
  /\ UNCHANGED <<seen, unread, assign, aliases, campaigns, applied, noted>>

GroupNext ==
  Regroup \/ Record \/ PurgeEvidence \/ LoseFile \/ FindFile \/ Rekey \/ EditCampaign

GroupSpec == GroupInit /\ [][GroupNext]_groupVars

-----------------------------------------------------------------------------
(* Properties *)

(* A grouping is decided by its evidence and edits alone, not by what was  *)
(* grouped in between: when a session that bridged campaigns is purged, or *)
(* a payload that could not be read can be again, the rows that are left   *)
(* give the campaigns they gave before, under the same IDs and names       *)
(* (Group's rules 1 and 4, Input.Unreadable).                              *)
IdentityReturns ==
  noted # Nothing /\ ~due /\ noted.inputs = Inputs => campaigns = noted.campaigns

(* What an operator asked holds at every later regroup: whatever campaign  *)
(* answers to an ID, an actor removed from that ID is not in it (Group's   *)
(* rule 6); and a name is shown by the campaign that answers to the ID it  *)
(* was given to, unless a later rename reached the same campaign.          *)
EditsKept ==
  ~due =>
    /\ \A i \in EditsOf("remove_actor") : \A c \in campaigns :
         c.id = Follow(aliases, edits[i].id) => edits[i].arg \notin c.members
    /\ \A i \in EditsOf("rename") :
         LET id == Follow(aliases, edits[i].id)
             last == Max({j \in EditsOf("rename") : Follow(aliases, edits[j].id) = id})
         IN IF edits[last].arg = NoName THEN \A c \in campaigns : c.id = id => c.name = NoName
            ELSE \E c \in campaigns : c.id = id /\ c.name = edits[last].arg
===============================================================================
