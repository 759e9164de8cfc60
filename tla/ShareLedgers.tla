----------------------------- MODULE ShareLedgers -----------------------------
(***************************************************************************)
(* Giving back to abuse.ch: URLs to URLhaus, indicators to ThreatFox and   *)
(* samples to MalwareBazaar (intel/urlhaus, intel/threatfox, intel/bazaar, *)
(* share.go in each).  A ledger per channel remembers what was accepted.   *)
(* The dashboard's requests run in one process and the command line's runs *)
(* in another; they read the same rows and write the same ledger.          *)
(*                                                                         *)
(* A behaviour is one channel's.  A run reads its candidates, vets each    *)
(* against the ledger and the policy, posts what is left and records what  *)
(* the provider took.  It is short beside a day: no row ages meanwhile.    *)
(***************************************************************************)
EXTENDS Integers, Sequences, FiniteSets, FiniteSetsExt, SequencesExt

CONSTANTS
  Site, ServerOf, Private,  \* payload URLs, the server of each, servers without a public address
  Button, Cli,          \* requests of the dashboard's process; processes of the command line
  Active, Freshness,        \* days after which a URL may be dead, and a sample is stale
  BatchSize, Streak,        \* URLs in a POST; failed lookups in a row that end the lookups
  Errand                    \* channel, rows, budget and bounds

ASSUME ShareAssumption ==
  /\ ServerOf \in [Site -> {ServerOf[u] : u \in Site}] /\ Button \cap Cli = {}
  /\ Active \in Nat /\ Freshness \in Nat /\ BatchSize \in Nat \ {0} /\ Streak \in Nat \ {0}

VARIABLES
  fetched,   \* fetched rows
  table,     \* the channel's table: status of a key
  provider,   \* the keys it has
  share,      \* the run of each sharer
  posted,       \* the keys each process has recorded
  errand

shareVars == <<fetched, table, provider, share, posted, errand>>

Sharer == Button \cup Cli
ProcessOf(s) == IF s \in Button THEN "web" ELSE s
Spends(what) == errand[what] > 0 /\ errand' = [errand EXCEPT ![what] = @ - 1]
Mishap == Spends("mishap")
Only(c) == errand.channel = c

-----------------------------------------------------------------------------
(* Rows, keys and the gate *)

Row(id, site, sha, age, shape, depth, file) ==
  [id |-> id, site |-> site, sha |-> sha, age |-> age, shape |-> shape, depth |-> depth, file |-> file]

(* What a candidate is submitted as: its URL; its URL, server and hash;    *)
(* its hash.                                                               *)
KeysOf(r) ==
  LET url == <<"url", r.site>>
      host == <<"host", ServerOf[r.site]>>
      sha == <<"sha", r.sha>>
  IN [urlhaus |-> <<url>>, threatfox |-> <<url, host, sha>>, bazaar |-> <<sha>>][errand.channel]

Recorded(k) == k \in DOMAIN table
FreshKeys(r) == SelectSeq(KeysOf(r), LAMBDA k : ~Recorded(k))

(* Classify reads the file: a recognised shape, a family, or neither. *)
Classified(r) == [r EXCEPT !.shape = IF r.file = "there" THEN @ ELSE "none"]
OnDisk(r) == \E q \in fetched : q.id = r.id /\ q.file = "there"

(* A clock that ran ahead leaves rows of negative age. *)
Vet(r) ==
  LET serving == r.age \in 0..Active /\ ServerOf[r.site] \notin Private /\ r.depth = 0
  IN [urlhaus |-> serving /\ r.shape # "none",
      threatfox |-> serving /\ r.shape = "family",
      bazaar |-> /\ r.age <= Freshness
                 /\ r.shape = "family" \/ (r.shape = "script" /\ r.depth = 0)][errand.channel]

Acceptable(r) == Vet(r) /\ FreshKeys(r) # << >> /\ (Only("bazaar") => OnDisk(r))

-----------------------------------------------------------------------------
(* Candidates *)

Newer(q, r) == q.age < r.age \/ (q.age = r.age /\ q.id > r.id)

(* Rows dated ahead of the clock rank last. *)
Ahead(q, r) ==
  IF (q.age < 0) # (r.age < 0) THEN r.age < 0 ELSE Newer(q, r)

Unshared == {r \in fetched : r.age <= Active /\ ~Recorded(<<"url", r.site>>)}

(* The row of a sample: one with a path, the latest, at the least depth. *)
Judged(sha) ==
  LET rows == {r \in fetched : r.sha = sha}
      Better(q, r) == IF (q.file # "none") # (r.file # "none") THEN q.file # "none" ELSE Newer(q, r)
      best == CHOOSE r \in rows : \A q \in rows \ {r} : Better(r, q)
  IN [best EXCEPT !.depth = Min({r.depth : r \in rows})]

Pool ==
  [urlhaus |-> {r \in Unshared : \A q \in Unshared : q.site = r.site => ~Ahead(q, r)},
   threatfox |-> Unshared,
   bazaar |-> {Judged(r.sha) : r \in {q \in fetched : q.age <= Freshness}}][errand.channel]

Offered == SetToSortSeq({Classified(r) : r \in Pool}, Newer)

-----------------------------------------------------------------------------
(* A run *)

NoRun ==
  [at |-> "idle", cands |-> << >>, todo |-> << >>, batch |-> << >>, status |-> "none",
   fails |-> 0, spent |-> 0, counted |-> FALSE, broken |-> FALSE]

ShareInit ==
  /\ errand \in Errand
  /\ fetched = errand.rows /\ provider = errand.listed
  /\ table = << >> /\ posted = {}
  /\ share = [s \in Sharer |-> NoRun]

Becomes(s, run) == share' = [share EXCEPT ![s] = run]
Begin(s, cands) ==
  /\ cands # << >> /\ share[s].at = "idle"
  /\ Becomes(s, [NoRun EXCEPT !.at = "lock", !.cands = cands])

(* A button: everything that passes the gate, the rows of one URL, or one  *)
(* sample that is not in the ledger.                                       *)
Click(s) ==
  /\ Spends("click")
  /\ LET vetted == SelectSeq(Offered, Vet)
     IN IF Only("bazaar")
        THEN \E r \in fetched : ~Recorded(<<"sha", r.sha>>) /\ Begin(s, << Classified(Judged(r.sha)) >>)
        ELSE \/ Begin(s, vetted)
             \/ \E u \in Site : Begin(s, SelectSeq(vetted, LAMBDA r : r.site = u))
  /\ UNCHANGED <<fetched, table, provider, posted>>

RunCommand(s) ==
  /\ Begin(s, Offered)
  /\ UNCHANGED <<fetched, table, provider, posted, errand>>

\* mutant: the dashboard takes no lock
LockedNever(s) == FALSE

(* urlhausBatchMu and threatfoxBatchMu: a second batch of the process is   *)
(* refused.  An upload of one sample takes none.                           *)
Locked(s) ==
  ~Only("bazaar") /\ s \in Button /\ \E q \in Button \ {s} : share[q].at \notin {"idle", "lock"}

TakeLock(s) ==
  /\ share[s].at = "lock"
  /\ Becomes(s, IF Locked(s) THEN NoRun ELSE [share[s] EXCEPT !.at = "examine"])
  /\ UNCHANGED <<fetched, table, provider, posted, errand>>

(* The budget is a command's: URLs queued, candidates with an indicator    *)
(* recorded, uploads tried.                                                *)
BudgetSpent(s) == s \in Cli /\ errand.limit > 0 /\ share[s].spent >= errand.limit

\* mutant: the budget counts the candidates examined
SkippedCharged(x) == [x EXCEPT !.cands = Tail(@), !.at = "examine", !.spent = @ + 1]

Skipped(x) == [x EXCEPT !.cands = Tail(@), !.at = "examine"]

Taken(x) ==
  IF Only("urlhaus") THEN [x EXCEPT !.at = "lookup"]
  ELSE [Skipped(x) EXCEPT !.at = "post", !.todo = FreshKeys(Head(x.cands)), !.counted = FALSE,
                          !.spent = x.spent + IF Only("bazaar") THEN 1 ELSE 0]

Examine(s) ==
  LET x == share[s]
      over == x.cands = << >> \/ BudgetSpent(s)
  IN /\ x.at = "examine"
     /\ \/ /\ over /\ UNCHANGED errand
           /\ Becomes(s, IF x.todo = << >> THEN NoRun ELSE [x EXCEPT !.at = "post", !.cands = << >>])
        \/ /\ ~over /\ UNCHANGED errand
           /\ Becomes(s, IF Acceptable(Head(x.cands)) THEN Taken(x) ELSE Skipped(x))
        \/ ~over /\ Mishap /\ Becomes(s, Skipped(x))     \* the ledger or the file is unreadable
     /\ UNCHANGED <<fetched, table, provider, posted>>

(* URLhaus is asked whether it lists a URL.  A URL that cannot be checked  *)
(* is not submitted; a failing endpoint ends the checks and keeps the rest.*)
Lookup(s) ==
  LET x == share[s]
      key == KeysOf(Head(x.cands))[1]
      failed == [Skipped(x) EXCEPT !.fails = @ + 1]
  IN /\ x.at = "lookup"
     /\ \/ key \in provider /\ Becomes(s, [x EXCEPT !.at = "note", !.fails = 0]) /\ UNCHANGED errand
        \/ /\ key \notin provider /\ UNCHANGED errand
           /\ Becomes(s, [Skipped(x) EXCEPT !.todo = Append(@, key), !.spent = @ + 1, !.fails = 0])
        \/ /\ Mishap
           /\ \/ Becomes(s, NoRun) \/ Becomes(s, Skipped(x))
              \/ Becomes(s, IF failed.fails < Streak THEN failed ELSE [failed EXCEPT !.cands = << >>])
     /\ UNCHANGED <<fetched, table, provider, posted>>

\* mutant: every write updates the row
UpsertedAlways(k, status) == (k :> status) @@ table

(* A row that says a URL was ours is not overwritten by a listing. *)
Upserted(k, status) ==
  IF status = "already_listed" /\ Recorded(k) THEN table ELSE (k :> status) @@ table

SetStatus(s, k, status) ==
  table' = Upserted(k, status) /\ posted' = posted \cup {<<ProcessOf(s), k>>}

Note(s) ==
  LET x == share[s]
  IN /\ x.at = "note"
     /\ \/ /\ SetStatus(s, KeysOf(Head(x.cands))[1], "already_listed")
           /\ Becomes(s, Skipped(x)) /\ UNCHANGED errand
        \/ Mishap /\ Becomes(s, NoRun) /\ UNCHANGED <<table, posted>>
     /\ UNCHANGED <<fetched, provider>>

(* After a batch: the next one, or the next candidate. *)
Moved(x) == [x EXCEPT !.batch = << >>, !.at = IF x.todo = << >> THEN "examine" ELSE "post"]

Answer(held) ==
  IF held = {} THEN "ok" ELSE IF Only("urlhaus") THEN "already_listed" ELSE "known"

(* One POST.  A batch with a duplicate is answered in a form that is not   *)
(* read; a call that failed may have been taken or not, and ends the run   *)
(* when it is the key or the account that was refused.                     *)
Submit(s) ==
  LET size == Min({Len(share[s].todo), IF Only("urlhaus") THEN BatchSize ELSE 1})
      batch == SubSeq(share[s].todo, 1, size)
      held == ToSet(batch) \cap provider
      x == [share[s] EXCEPT !.todo = SubSeq(@, size + 1, Len(@)), !.batch = batch]
      Unsure == \E taken \in {{}, ToSet(batch)} : provider' = provider \cup taken
  IN /\ share[s].at = "post"
     /\ \/ /\ held = {} \/ size = 1
           /\ provider' = provider \cup ToSet(batch)
           /\ Becomes(s, [x EXCEPT !.at = "record", !.status = Answer(held)])
           /\ UNCHANGED errand
        \/ held # {} /\ size > 1 /\ Unsure /\ Becomes(s, Moved(x)) /\ UNCHANGED errand
        \/ Mishap /\ Unsure /\ (Becomes(s, Moved(x)) \/ Becomes(s, NoRun))
     /\ UNCHANGED <<fetched, table, posted>>

(* One row per key of the batch; a row that cannot be written ends the run *)
(* after the batch.                                                        *)
Record(s) ==
  LET x == share[s]
      first == Only("threatfox") /\ ~x.counted
      done == [x EXCEPT !.batch = Tail(@), !.counted = TRUE, !.spent = @ + IF first THEN 1 ELSE 0]
      Continues(y) ==
        Becomes(s, IF y.batch # << >> THEN y ELSE IF y.broken THEN NoRun ELSE Moved(y))
  IN /\ x.at = "record"
     /\ \/ SetStatus(s, Head(x.batch), x.status) /\ Continues(done) /\ UNCHANGED errand
        \/ /\ Mishap /\ Continues([x EXCEPT !.batch = Tail(@), !.broken = TRUE])
           /\ UNCHANGED <<table, posted>>
     /\ UNCHANGED <<fetched, provider>>

-----------------------------------------------------------------------------
(* What else happens *)

(* The request's client leaves, or the command is interrupted. *)
Cancel(s) ==
  /\ share[s].at \notin {"idle", "note", "record"} /\ Mishap
  /\ Becomes(s, NoRun)
  /\ UNCHANGED <<fetched, table, provider, posted>>

CrashProcess(p) ==
  /\ Mishap /\ \E s \in Sharer : ProcessOf(s) = p /\ share[s].at # "idle"
  /\ share' = [s \in Sharer |-> IF ProcessOf(s) = p THEN NoRun ELSE share[s]]
  /\ UNCHANGED <<fetched, table, provider, posted>>

(* A fetch completes: a new URL, or the next payload of an old one. *)
FetchCompletes ==
  /\ \E r \in errand.later :
       fetched' = fetched \cup {r} /\ errand' = [errand EXCEPT !.later = @ \ {r}]
  /\ UNCHANGED <<table, provider, share, posted>>

FileGone ==
  /\ Mishap
  /\ \E r \in fetched : r.file = "there" /\ fetched' = (fetched \ {r}) \cup {[r EXCEPT !.file = "gone"]}
  /\ UNCHANGED <<table, provider, share, posted>>

ShareStep(s) == TakeLock(s) \/ Examine(s) \/ Lookup(s) \/ Note(s) \/ Submit(s) \/ Record(s)

ShareNext ==
  \/ \E s \in Button : Click(s)
  \/ \E s \in Cli : RunCommand(s)
  \/ \E s \in Sharer : ShareStep(s) \/ Cancel(s)
  \/ \E p \in {ProcessOf(s) : s \in Sharer} : CrashProcess(p)
  \/ FetchCompletes \/ FileGone

(* A run goes on, and the command is run again while it has candidates. *)
ShareFairness ==
  /\ \A s \in Sharer : WF_shareVars(ShareStep(s))
  /\ \A s \in Cli : WF_shareVars(RunCommand(s))

ShareSpec == ShareInit /\ [][ShareNext]_shareVars /\ ShareFairness

-----------------------------------------------------------------------------
(* Properties *)

(* A URL recorded as our own submission stays so: a run that looked before *)
(* another one posted must not note it down as listed by someone else.     *)
CreditKept ==
  [][\A k \in DOMAIN table : Only("urlhaus") /\ table[k] = "ok" => table'[k] = "ok"]_shareVars

(* No process is about to post what it has already recorded, however its   *)
(* requests read their candidates and take turns.                          *)
PostsOnce ==
  \A s \in Sharer :
    ~Only("bazaar") /\ share[s].at = "post" =>
      \A k \in ToSet(share[s].todo) : <<ProcessOf(s), k>> \notin posted

(* Once nothing fails any more, every candidate the gate accepts is        *)
(* recorded: refused ones, duplicates upstream and answers that were lost  *)
(* never use up the budget of each run or spoil its batches.               *)
PoolDrains == <>[](\A r \in ToSet(Offered) : ~Acceptable(r))

(* "a re-fetch that produces one new IOC still submits it"                 *)
(* (intel/threatfox/share.go): between runs, what the gate accepts and has *)
(* an indicator that is not in the ledger is among the candidates.         *)
NewIndicatorOffered ==
  (\A s \in Sharer : share[s].at = "idle") =>
    \A r \in fetched : Acceptable(Classified(r)) => r \in Pool
===============================================================================
