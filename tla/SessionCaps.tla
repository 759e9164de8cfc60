------------------------------ MODULE SessionCaps ------------------------------
(***************************************************************************)
(* One session's recorded script under its caps (store/campaign_evidence.go*)
(* flush, sessionAtCap, purgeCampaignDerived; scripts.go settling;         *)
(* script_version.go reset).  The worker records a window at a time,       *)
(* settles and resets in turn; retention, `ingest cowrie --replace` and    *)
(* restarts come between any two of its transactions.                      *)
(*                                                                         *)
(* A command is its event id, and all the model knows of it is the length  *)
(* of its encoded line.  Ids are in time order.                            *)
(***************************************************************************)
EXTENDS Integers, Sequences, FiniteSets, SequencesExt

CONSTANTS
  Length,           \* lengths a line may have; 0: it normalised to nothing
  MaxCommands, MaxNormalizedBytes,
  Life              \* bounds: commands, upgrades, replacements, retention runs, failures

ASSUME CapsAssumption ==
  Length \subseteq Nat /\ MaxCommands \in Nat \ {0} /\ MaxNormalizedBytes \in Nat \ {0}

VARIABLES
  length,           \* the commands ever logged: [id -> length]
  base, aged,       \* events up to here: of a replaced source; past retention
  reached, rewinds, \* the recorder's cursor and reset epoch
  kept, script,     \* session_script_lines: ids; the session_scripts row
  tick,             \* what the worker is at, and what it read
  outdated,         \* the stored version is not this binary's: a reset is due
  whole,            \* retention has taken no command the recorder has not read, nor the row
  budget

capsVars == <<length, base, aged, reached, rewinds, kept, script, tick, outdated, whole, budget>>

NoScript == [here |-> FALSE, count |-> 0, bytes |-> 0, last |-> 0, stamp |-> <<0, 0>>, settled |-> FALSE, fp |-> {}]
Between == [at |-> "between"]
LastID == Len(length)

CapsInit ==
  /\ length = << >> /\ base = 0 /\ aged = 0
  /\ reached = 0 /\ rewinds = 0
  /\ kept = {} /\ script = NoScript
  /\ tick = Between /\ outdated = FALSE /\ whole = TRUE
  /\ budget \in Life

Pay(what) == budget[what] > 0 /\ budget' = [budget EXCEPT ![what] = @ - 1]

LogCommand(n) ==
  /\ Pay("command") /\ length' = Append(length, n)
  /\ UNCHANGED <<base, aged, reached, rewinds, kept, script, tick, outdated, whole>>

-----------------------------------------------------------------------------
(* RecordCampaignEvidence *)

Present(lo, hi) == {i \in (lo + 1)..hi : i > base /\ i > aged}

(* Phase 1's scan.  The byte budget may end the window at any row. *)
ScanWindow ==
  /\ tick = Between /\ ~outdated
  /\ \E end \in (reached + 1)..LastID :
       tick' = [at |-> "encode", cursor |-> reached, epoch |-> rewinds, end |-> end,
                seen |-> Present(reached, end)]
  /\ UNCHANGED <<length, base, aged, reached, rewinds, kept, script, outdated, whole, budget>>

AtCap(s) == s.count >= MaxCommands \/ s.bytes >= MaxNormalizedBytes

(* sessionAtCap: the lines of a full session are not encoded. *)
EncodeLines ==
  /\ tick.at = "encode"
  /\ tick' = [tick EXCEPT !.at = "flush",
                !.seen = IF script.here /\ AtCap(script) THEN {} ELSE {i \in @ : length[i] > 0}]
  /\ UNCHANGED <<length, base, aged, reached, rewinds, kept, script, outdated, whole, budget>>

Cost(acc, i) == length[i] + (IF acc.count > 0 THEN 1 ELSE 0)

(* One line against the caps: the first that does not fit closes the       *)
(* session, by spending its budget.                                        *)
Admit(acc, i) ==
  IF AtCap(acc) THEN acc
  ELSE IF acc.bytes + Cost(acc, i) > MaxNormalizedBytes
       THEN [acc EXCEPT !.bytes = MaxNormalizedBytes, !.closedBy = {i}]
  ELSE [acc EXCEPT !.count = @ + 1, !.bytes = @ + Cost(acc, i), !.new = @ \cup {i}]

Ascending(ids) == SetToSortSeq(ids, <)
Admitted(ids) ==
  FoldLeft(Admit, [count |-> script.count, bytes |-> script.bytes, new |-> {}, closedBy |-> {}],
           Ascending(ids))

\* mutant: a closed session's budget is only spent while its row is being made
FlushedOpen(acc, stamp) ==
  IF acc.new # {}
  THEN [script EXCEPT !.here = TRUE, !.count = acc.count,
                      !.bytes = IF acc.closedBy = {} THEN acc.bytes ELSE @,
                      !.last = Last(Ascending(acc.new)), !.stamp = stamp, !.settled = FALSE]
  ELSE script

(* A row that gains lines is unsettled again.  Closing alone touches       *)
(* nothing but the bytes; a session whose first line is refused gets a row *)
(* of no lines that is settled from the start.                             *)
Flushed(acc, stamp) ==
  IF acc.new # {}
  THEN [script EXCEPT !.here = TRUE, !.count = acc.count, !.bytes = acc.bytes,
                      !.last = Last(Ascending(acc.new)), !.stamp = stamp, !.settled = FALSE]
  ELSE IF acc.closedBy = {} THEN script
  ELSE IF script.here THEN [script EXCEPT !.bytes = acc.bytes]
  ELSE [NoScript EXCEPT !.here = TRUE, !.bytes = acc.bytes, !.last = CHOOSE i \in acc.closedBy : TRUE,
                        !.stamp = stamp, !.settled = TRUE]

(* A replayed line is neither stored nor counted again. *)
Unstored(ids) == ids \ kept

(* Phase 2, one transaction, unless the cursor or the epoch has moved.     *)
(* Stamps are times: the window's own is later than any before.            *)
FlushWindow ==
  LET live == tick.seen \cap Present(tick.cursor, tick.end)
      acc == Admitted(Unstored(live))
  IN
  /\ tick.at = "flush"
  /\ IF reached = tick.cursor /\ rewinds = tick.epoch
     THEN /\ kept' = kept \cup acc.new
          /\ script' = Flushed(acc, <<rewinds, tick.end>>)
          /\ reached' = tick.end
     ELSE UNCHANGED <<kept, script, reached>>
  /\ tick' = Between
  /\ UNCHANGED <<length, base, aged, rewinds, outdated, whole, budget>>

-----------------------------------------------------------------------------
(* SettleSessionScripts: list, read the lines, write. *)

ListIdle ==
  /\ tick = Between /\ ~outdated /\ script.here /\ ~script.settled
  /\ tick' = [at |-> "join", stamp |-> script.stamp]
  /\ UNCHANGED <<length, base, aged, reached, rewinds, kept, script, outdated, whole, budget>>

JoinLines ==
  /\ tick.at = "join"
  /\ tick' = IF kept = {} THEN Between ELSE [at |-> "settle", stamp |-> tick.stamp, fp |-> kept]
  /\ UNCHANGED <<length, base, aged, reached, rewinds, kept, script, outdated, whole, budget>>

SettleRow ==
  /\ tick.at = "settle"
  /\ script' = IF script.here /\ script.stamp = tick.stamp
               THEN [script EXCEPT !.settled = TRUE, !.fp = tick.fp] ELSE script
  /\ tick' = Between
  /\ UNCHANGED <<length, base, aged, reached, rewinds, kept, outdated, whole, budget>>

-----------------------------------------------------------------------------
(* ResetScriptsForVersion: the row, then its lines, then the cursor with   *)
(* the version.  An interrupted one runs again.                            *)

ResetScript ==
  /\ outdated
  /\ \/ /\ tick = Between /\ script' = NoScript /\ tick' = [at |-> "lines"]
        /\ UNCHANGED <<kept, reached, rewinds, outdated, whole>>
     \/ /\ tick.at = "lines" /\ kept # {}
        /\ \E chunk \in SUBSET kept \ {{}} : kept' = kept \ chunk
        /\ UNCHANGED <<script, tick, reached, rewinds, outdated, whole>>
     \/ /\ tick.at = "lines" /\ kept = {}
        /\ reached' = 0 /\ rewinds' = rewinds + 1
        /\ outdated' = FALSE /\ tick' = Between
        /\ whole' = (aged <= base)
        /\ UNCHANGED <<script, kept>>
  /\ UNCHANGED <<length, base, aged, budget>>

-----------------------------------------------------------------------------
(* What comes between *)

(* An error ends the tick, a crash or a restart the process; the binary it *)
(* comes back with may carry another normaliser.                           *)
LoseTick ==
  /\ \/ Pay("failure") /\ tick # Between /\ UNCHANGED outdated
     \/ Pay("upgrade") /\ outdated' = TRUE
  /\ tick' = Between
  /\ UNCHANGED <<length, base, aged, reached, rewinds, kept, script, whole>>

(* clearCampaignDerivedTx, and the same commands under new ids. *)
ReplaceEvents ==
  LET old == SelectSeq([i \in 1..LastID |-> i], LAMBDA i : i > base)
  IN
  /\ Pay("replace")
  /\ length' = length \o [k \in DOMAIN old |-> length[old[k]]]
  /\ base' = LastID /\ reached' = LastID /\ rewinds' = rewinds + 1
  /\ kept' = {} /\ script' = NoScript
  /\ whole' = TRUE
  /\ UNCHANGED <<aged, tick, outdated>>

AgeEvents(cutoff) ==
  /\ Pay("retention") /\ cutoff > aged /\ cutoff > base
  /\ aged' = cutoff
  /\ whole' = (whole /\ cutoff <= reached)
  /\ UNCHANGED <<length, base, reached, rewinds, kept, script, tick, outdated>>

(* Row and lines in one transaction. *)
PurgedWhole(chunk) == kept' = {} /\ script' = NoScript

(* purgeCampaignDerived, by last_seen and after the events. *)
PurgeSession ==
  /\ script.here /\ script.last <= aged
  /\ \E chunk \in {{i} : i \in kept} \cup {kept} : PurgedWhole(chunk)
  /\ whole' = FALSE
  /\ UNCHANGED <<length, base, aged, reached, rewinds, tick, outdated, budget>>

CapsNext ==
  \/ \E n \in Length : LogCommand(n)
  \/ ScanWindow \/ EncodeLines \/ FlushWindow
  \/ ListIdle \/ JoinLines \/ SettleRow \/ ResetScript
  \/ LoseTick \/ ReplaceEvents \/ PurgeSession
  \/ \E cutoff \in 1..LastID : AgeEvents(cutoff)

CapsSpec == CapsInit /\ [][CapsNext]_capsVars

-----------------------------------------------------------------------------
(* Properties *)

(* The length of a script of these lines, joined. *)
Joined(ids) == FoldLeft(LAMBDA sum, i : sum + length[i] + 1, 0, Ascending(ids)) - (IF ids = {} THEN 0 ELSE 1)
Fits(ids) == Cardinality(ids) <= MaxCommands /\ Joined(ids) <= MaxNormalizedBytes

(* However its commands fell into windows, and through replays, resets,    *)
(* replacements and lost ticks, a session's script is the longest prefix   *)
(* of its commands within the caps: no later, smaller command gets in      *)
(* behind one that was refused (evidenceWriter.flush).  And once settled   *)
(* it is all of them, also when retention takes the session, or the        *)
(* recorder records it anew, between the settle's reads and its write.     *)
Recorded == {i \in (base + 1)..reached : length[i] > 0}
PrefixSets == {{i \in Recorded : i <= n} : n \in {base} \cup Recorded}
CappedPrefix ==
  /\ script.here /\ script.settled => script.fp = kept
  /\ whole /\ ~outdated =>
    /\ kept \in PrefixSets /\ Fits(kept)
    /\ \A longer \in PrefixSets : kept \subseteq longer /\ Fits(longer) => kept = longer
=============================================================================
