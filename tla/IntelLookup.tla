------------------------------ MODULE IntelLookup ------------------------------
(***************************************************************************)
(* What the dashboard asks third parties about an attacker's address       *)
(* (intel/enrich) and about the hash of a payload (intel/vt), with the     *)
(* settings an operator saves meanwhile (settings/keystore.go,             *)
(* web/api_settings.go).  Answers are cached in two tables that retention  *)
(* trims.                                                                  *)
(*                                                                         *)
(* An address stands for a public address at one of the seven providers,   *)
(* each with a cache row and a request of its own.  One key serves them    *)
(* all, as VirusTotal's serves both of its uses.                           *)
(***************************************************************************)
EXTENDS Integers, FiniteSets

CONSTANTS
  Host, Hash,
  Keyless,        \* addresses at a provider that needs no key
  Saver, Asker,   \* requests that save a setting, and that look something up
  GoodKey,        \* the keys third parties accept
  Typed,          \* what can be saved
  AnswerFor, VerdictFor, UnseenFor,   \* enrich.CacheTTL, vt.CacheTTL, vt.NotFoundTTL
  KeptFor,        \* retention, in the same unit
  Chances         \* bounds: saves, lookups, failures, purges, restarts and the last date; the
                  \* rows an older layout left, and the key in the environment

ASSUME IntelAssumption ==
  /\ Host \cap Hash = {} /\ Keyless \subseteq Host
  /\ "" \notin Typed /\ "no one" \notin Saver
  /\ {AnswerFor, VerdictFor, UnseenFor, KeptFor} \subseteq Nat \ {0} /\ UnseenFor <= VerdictFor
  /\ \A c \in Chances : c.old \subseteq Hash

VARIABLES
  date,
  saved, memory,   \* app_settings, and the Keystore's copy; "": no row
  writeMu, save,   \* the Keystore's writers
  intel,           \* ip_enrichment and payload_intel, by what was asked about
  lookup,          \* lookups under way, what they tell, and, as history, whether they sent a
                   \* request and whether the row they began with is still there
  flight,          \* the resolver's current Once for a hash: which, whether it is still in
                   \* the map, and whether somebody runs it
  odds

intelVars == <<date, saved, memory, writeMu, save, intel, lookup, flight, odds>>

Subject == Host \cup Hash
Setting == {"key", "knob", "token"}
NoWriter == "no one"

CurrentLayout == 1
NoAnswer == [at |-> -1, found |-> FALSE, layout |-> 0]
OldAnswer == [at |-> 0, found |-> TRUE, layout |-> 0]

NoSave == [at |-> "idle", setting |-> "key", value |-> ""]
NoLookup ==
  [at |-> "idle", of |-> "", test |-> FALSE, held |-> NoAnswer, fresh |-> NoAnswer, turn |-> 0,
   spent |-> FALSE, known |-> FALSE, told |-> "", shown |-> NoAnswer]
NoFlight == [turn |-> 0, open |-> FALSE, led |-> FALSE]

IntelInit ==
  /\ odds \in Chances
  /\ date = 0
  /\ saved = [k \in Setting |-> ""] /\ memory = saved
  /\ writeMu = NoWriter /\ save = [s \in Saver |-> NoSave]
  /\ intel = [x \in Subject |-> IF x \in odds.old THEN OldAnswer ELSE NoAnswer]
  /\ lookup = [a \in Asker |-> NoLookup] /\ flight = [h \in Hash |-> NoFlight]

Chance(what) == odds[what] > 0 /\ odds' = [odds EXCEPT ![what] = @ - 1]

-----------------------------------------------------------------------------
(* The keystore.  A setting is persisted, then remembered, under writeMu;  *)
(* readers take neither step's lock for long and see the one or the other. *)

Get(k) == IF memory[k] # "" THEN memory[k] ELSE IF k = "key" THEN odds.env ELSE ""

Saving(s, at) == save[s].at = at
SaveAt(s, at) == save' = [save EXCEPT ![s].at = at]
LookupsKept == UNCHANGED <<intel, lookup, flight>>

(* An empty secret is the masked form sent back and changes nothing; an    *)
(* empty knob, or the button, clears.                                      *)
RequestSave(s) ==
  /\ Saving(s, "idle") /\ Chance("save")
  /\ \E k \in Setting \ {"token"}, v \in Typed \cup {""} :
       save' = [save EXCEPT ![s] = [at |-> "lock", setting |-> k, value |-> v]]
  /\ UNCHANGED <<date, saved, memory, writeMu>> /\ LookupsKept

RotateToken(s) ==
  /\ Saving(s, "idle") /\ Chance("save")
  /\ \E v \in Typed : save' = [save EXCEPT ![s] = [at |-> "lock", setting |-> "token", value |-> v]]
  /\ UNCHANGED <<date, saved, memory, writeMu>> /\ LookupsKept

LockFree == writeMu = NoWriter

Lock(s) ==
  /\ Saving(s, "lock") /\ LockFree
  /\ writeMu' = s /\ SaveAt(s, "persist")
  /\ UNCHANGED <<date, saved, memory, odds>> /\ LookupsKept

Persist(s) ==
  /\ Saving(s, "persist")
  /\ saved' = [saved EXCEPT ![save[s].setting] = save[s].value]
  /\ SaveAt(s, "remember")
  /\ UNCHANGED <<date, memory, writeMu, odds>> /\ LookupsKept

FailToPersist(s) ==
  /\ Saving(s, "persist") /\ Chance("fail")
  /\ SaveAt(s, "unlock")
  /\ UNCHANGED <<date, saved, memory, writeMu>> /\ LookupsKept

RememberSetting(s) ==
  /\ Saving(s, "remember")
  /\ memory' = [memory EXCEPT ![save[s].setting] = save[s].value]
  /\ SaveAt(s, "unlock")
  /\ UNCHANGED <<date, saved, writeMu, odds>> /\ LookupsKept

Unlock(s) ==
  /\ Saving(s, "unlock")
  /\ writeMu' = NoWriter /\ save' = [save EXCEPT ![s] = NoSave]
  /\ UNCHANGED <<date, saved, memory, odds>> /\ LookupsKept

-----------------------------------------------------------------------------
(* What is cached *)

Configured(x) == x \in Keyless \/ Get("key") # ""

(* A verdict kept in another layout is a miss. *)
Has(r) == r.at >= 0
Current(r) == Has(r) /\ r.layout = CurrentLayout
Readable(x, r) == IF x \in Hash THEN Current(r) ELSE Has(r)

Expired(r) == date - r.at > (IF r.found THEN VerdictFor ELSE UnseenFor)
Unexpired(x, r) == IF x \in Hash THEN ~Expired(r) ELSE date - r.at < AnswerFor

-----------------------------------------------------------------------------
(* One lookup *)

Of(a) == lookup[a].of
AtStep(a, at) == lookup[a].at = at
Goes(a, at) == lookup' = [lookup EXCEPT ![a].at = at]
Tell(a, what, r) == lookup' = [lookup EXCEPT ![a].at = "told", ![a].told = what, ![a].shown = r]
SettingsKept == UNCHANGED <<date, saved, memory, writeMu, save>>

(* The handler of a hash looks for a key first. *)
Inquire(a) ==
  /\ AtStep(a, "idle") /\ Chance("lookup")
  /\ \E x \in Subject :
       LET begun == [NoLookup EXCEPT !.at = "read", !.of = x, !.known = Readable(x, intel[x])]
       IN lookup' = [lookup EXCEPT ![a] =
            IF x \in Host \/ Configured(x) THEN begun
            ELSE [begun EXCEPT !.at = "told", !.told = "unconfigured"]]
  /\ SettingsKept /\ UNCHANGED <<intel, flight>>

(* The button that tries a key neither reads nor fills the cache. *)
Test(a) ==
  /\ AtStep(a, "idle") /\ Chance("lookup")
  /\ \E x \in Host : lookup' = [lookup EXCEPT ![a] = [NoLookup EXCEPT !.at = "fetch", !.of = x, !.test = TRUE]]
  /\ SettingsKept /\ UNCHANGED <<intel, flight>>

(* What is cached of a hash, never asked for: one payload's, and a page's. *)
Glance(a) ==
  /\ AtStep(a, "idle") /\ Chance("lookup")
  /\ \E h \in Hash :
       /\ Current(intel[h])
       /\ lookup' = [lookup EXCEPT ![a] =
            [NoLookup EXCEPT !.at = "told", !.of = h, !.told = "answer", !.shown = intel[h]]]
  /\ SettingsKept /\ UNCHANGED <<intel, flight>>

Decorate(a) ==
  /\ AtStep(a, "idle") /\ Chance("lookup")
  /\ \E h \in Hash :
       /\ Has(intel[h])
       /\ lookup' = [lookup EXCEPT ![a] =
            [NoLookup EXCEPT !.at = "told", !.of = h, !.told = "answer", !.shown = intel[h]]]
  /\ SettingsKept /\ UNCHANGED <<intel, flight>>

ReadCache(a) ==
  /\ AtStep(a, "read")
  /\ LET r == intel[Of(a)]
     IN IF Readable(Of(a), r) /\ Unexpired(Of(a), r) THEN Tell(a, "answer", r)
        ELSE lookup' = [lookup EXCEPT ![a].at = IF Of(a) \in Hash THEN "check" ELSE "fetch", ![a].held = r]
  /\ SettingsKept /\ UNCHANGED <<intel, flight, odds>>

(* A table of answers that cannot be read starts no request; verdicts that *)
(* cannot be read are a miss.                                              *)
Misread(a) ==
  /\ AtStep(a, "read") /\ Chance("fail")
  /\ IF Of(a) \in Hash THEN Goes(a, "check") ELSE Tell(a, "unreadable", NoAnswer)
  /\ SettingsKept /\ UNCHANGED <<intel, flight>>

CheckKey(a) ==
  /\ AtStep(a, "check")
  /\ IF Configured(Of(a)) THEN Goes(a, "join") ELSE Tell(a, "unconfigured", NoAnswer)
  /\ SettingsKept /\ UNCHANGED <<intel, flight, odds>>

OwnFlight(c) == [turn |-> c.turn + 1, open |-> TRUE, led |-> FALSE]   \* mutant

OnFlight(c) == IF c.open THEN c ELSE [turn |-> c.turn + 1, open |-> TRUE, led |-> FALSE]

(* LoadOrStore. *)
Join(a) ==
  /\ AtStep(a, "join")
  /\ flight' = [flight EXCEPT ![Of(a)] = OnFlight(@)]
  /\ lookup' = [lookup EXCEPT ![a].at = "do", ![a].turn = OnFlight(flight[Of(a)]).turn]
  /\ SettingsKept /\ UNCHANGED <<intel, odds>>

(* Do: the first runs it, the others wait until it is done. *)
Lead(a) ==
  /\ AtStep(a, "do") /\ flight[Of(a)] = [turn |-> lookup[a].turn, open |-> TRUE, led |-> FALSE]
  /\ flight' = [flight EXCEPT ![Of(a)].led = TRUE] /\ Goes(a, "fetch")
  /\ SettingsKept /\ UNCHANGED <<intel, odds>>

(* Another read of the cache, which can fail like the first. *)
FallBackTo(a, r) ==
  IF Readable(Of(a), r) THEN Tell(a, "answer", r) ELSE Tell(a, "nothing", NoAnswer)
FailsToReadAgain(a) == Of(a) \in Hash /\ Chance("fail") /\ Tell(a, "unreadable", NoAnswer)

FollowLead(a) ==
  /\ AtStep(a, "do") /\ ~(flight[Of(a)].open /\ flight[Of(a)].turn = lookup[a].turn)
  /\ \/ FallBackTo(a, intel[Of(a)]) /\ UNCHANGED odds
     \/ FailsToReadAgain(a)
  /\ SettingsKept /\ UNCHANGED <<intel, flight>>

(* Do is over: the hash leaves the map. *)
Done(a) == IF Of(a) \in Hash THEN flight' = [flight EXCEPT ![Of(a)].open = FALSE] ELSE UNCHANGED flight

(* The key as it is now. *)
Fetch(a) ==
  /\ AtStep(a, "fetch")
  /\ IF Configured(Of(a))
     THEN /\ lookup' = [lookup EXCEPT ![a].spent = TRUE,
               ![a].at = IF Of(a) \in Keyless \/ Get("key") \in GoodKey THEN "asked" ELSE "refused"]
          /\ UNCHANGED flight
     ELSE /\ IF Of(a) \in Hash THEN Goes(a, "failed") ELSE Tell(a, "unconfigured", NoAnswer)
          /\ Done(a)
  /\ SettingsKept /\ UNCHANGED <<intel, odds>>

(* Not to know an address or a hash is an answer too. *)
Answered(a) ==
  /\ AtStep(a, "asked")
  /\ \E found \in BOOLEAN :
       LET r == [at |-> date, found |-> found, layout |-> CurrentLayout]
       IN IF lookup[a].test THEN Tell(a, "answer", r)
          ELSE lookup' = [lookup EXCEPT ![a].at = "keep", ![a].fresh = r]
  /\ SettingsKept /\ UNCHANGED <<intel, flight, odds>>

(* Unreachable, rate limited, not to be read; a key rejected. *)
Unanswered(a) ==
  /\ \/ AtStep(a, "asked") /\ Chance("fail")
     \/ AtStep(a, "refused") /\ UNCHANGED odds
  /\ Goes(a, "failed") /\ Done(a)
  /\ SettingsKept /\ UNCHANGED intel

(* A provider that says, or whose answer shows, that the lookup failed. *)
Declined(a) ==
  /\ AtStep(a, "asked") /\ Of(a) \in Host /\ Chance("fail")
  /\ Tell(a, "declined", NoAnswer)
  /\ SettingsKept /\ UNCHANGED <<intel, flight>>

(* A row that cannot be written is missed by the next lookup only. *)
Keep(a) ==
  /\ AtStep(a, "keep")
  /\ \/ intel' = [intel EXCEPT ![Of(a)] = lookup[a].fresh] /\ UNCHANGED odds
     \/ UNCHANGED intel /\ Chance("fail")
  /\ Tell(a, "answer", lookup[a].fresh)
  /\ Done(a) /\ SettingsKept

OnlyFresh(a) == NoAnswer   \* mutant

(* A failed request does not take away what was known, however old: for an *)
(* address the row the lookup began with, for a hash the row there is.     *)
LastKnown(a) == IF Of(a) \in Hash THEN intel[Of(a)] ELSE lookup[a].held

GiveUp(a) ==
  /\ AtStep(a, "failed")
  /\ \/ FallBackTo(a, LastKnown(a)) /\ UNCHANGED odds
     \/ FailsToReadAgain(a)
  /\ SettingsKept /\ UNCHANGED <<intel, flight>>

Respond(a) ==
  /\ AtStep(a, "told")
  /\ lookup' = [lookup EXCEPT ![a] = NoLookup]
  /\ SettingsKept /\ UNCHANGED <<intel, flight, odds>>

-----------------------------------------------------------------------------
(* Retention, a chunk of a table at a time.  What a lookup under way knew   *)
(* of may go.                                                              *)
Trim(T) ==
  /\ Chance("purge")
  /\ LET old == {x \in T : Has(intel[x]) /\ date - intel[x].at > KeptFor}
     IN /\ intel' = [x \in Subject |-> IF x \in old THEN NoAnswer ELSE intel[x]]
        /\ lookup' = [a \in Asker |-> [lookup[a] EXCEPT !.known = @ /\ Of(a) \notin old]]
  /\ SettingsKept /\ UNCHANGED flight

EndAndStart ==
  /\ Chance("restart")
  /\ memory' = saved /\ writeMu' = NoWriter /\ save' = [s \in Saver |-> NoSave]
  /\ lookup' = [a \in Asker |-> NoLookup] /\ flight' = [h \in Hash |-> NoFlight]
  /\ UNCHANGED <<date, saved, intel>>

DatePasses ==
  /\ date < odds.end /\ date' = date + 1
  /\ UNCHANGED <<saved, memory, writeMu, save, odds>> /\ LookupsKept

SaveSteps(s) ==
  \/ RequestSave(s) \/ RotateToken(s) \/ Lock(s) \/ Persist(s) \/ FailToPersist(s)
  \/ RememberSetting(s) \/ Unlock(s)
Begins(a) == Inquire(a) \/ Test(a) \/ Glance(a) \/ Decorate(a)
Proceeds(a) ==
  \/ ReadCache(a) \/ Misread(a) \/ CheckKey(a) \/ Join(a) \/ Lead(a) \/ FollowLead(a) \/ Fetch(a)
  \/ Answered(a) \/ Unanswered(a) \/ Declined(a) \/ Keep(a) \/ GiveUp(a) \/ Respond(a)

IntelNext ==
  \/ EndAndStart \/ DatePasses
  \/ \E T \in SUBSET Host \cup SUBSET Hash : Trim(T)
  \/ \E s \in Saver : SaveSteps(s)
  \/ \E a \in Asker : Begins(a) \/ Proceeds(a)

IntelSpec == IntelInit /\ [][IntelNext]_intelVars

-----------------------------------------------------------------------------
(* Properties *)

(* The keystore's copy is what is saved, whenever nobody is writing:       *)
(* writers that overlap leave the value that was committed last in both.   *)
MemoryIsSaved == writeMu = NoWriter => memory = saved

SameHash(a, b) == Of(a) = Of(b) /\ Of(a) \in Hash

(* A hash is never asked about twice at the same moment, and the lookups   *)
(* that met in one Once send one request of the quota between them, however *)
(* it ends and however late they come to it.                               *)
RequestsShared ==
  \A a, b \in Asker : SameHash(a, b) /\ a # b =>
    /\ ~({lookup[a].at, lookup[b].at} \subseteq {"asked", "refused"})
    /\ lookup[a].spent /\ lookup[b].spent => lookup[a].turn # lookup[b].turn

(* Two lookups of one hash that are under way together cost one request:   *)
(* "collapse concurrent lookups of the same hash into one API call".       *)
OverlapCostsOne ==
  \A a, b \in Asker : SameHash(a, b) /\ lookup[a].spent /\ lookup[b].spent => a = b

(* A request that fails takes nothing away.  Whoever asks while a row is   *)
(* there to fall back to is shown an answer, be the failure his request's  *)
(* own or that of another he waited for, unless his own last read of the   *)
(* cache fails, no key is set when one is looked for, or a provider        *)
(* answers an address with an error of its own: those three are told       *)
(* without the row.                                                        *)
KnownNotLost ==
  \A a \in Asker : AtStep(a, "told") /\ lookup[a].known =>
    \/ lookup[a].told \in {"answer", "unreadable"}
    \/ lookup[a].told = "unconfigured" /\ Of(a) \notin Keyless
    \/ lookup[a].told = "declined" /\ Of(a) \in Host

(* A verdict gives way to a later one, or to retention; never to an        *)
(* earlier one that took longer to store.                                  *)
VerdictsAdvance ==
  [][\A h \in Hash : Has(intel'[h]) => intel'[h].at >= intel[h].at]_intelVars
===============================================================================
