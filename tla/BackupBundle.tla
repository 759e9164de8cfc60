---------------------------- MODULE BackupBundle ----------------------------
(***************************************************************************)
(* `shardlure backup create` beside a running daemon, and `backup restore` *)
(* of what it made (backup/create.go, restore.go, verify.go).  Both fill a *)
(* private staging directory under an incomplete marker, make every file   *)
(* durable, rename the directory to its output without replacing anything, *)
(* then take the marker away.  A step can fail and the machine can crash   *)
(* between any two: what was not synced may or may not be there afterwards.*)
(*                                                                         *)
(* A name's content is "good" (what its entry must hold), "part" (written  *)
(* or remapped in part), "bad" (damaged) or "absent".  Everything a bundle *)
(* holds beside the database, its evidence and the manifest (config, logs, *)
(* downloads, TTY logs, included files) is the one entry "other".          *)
(***************************************************************************)
EXTENDS Integers, FiniteSets

CONSTANTS
  Item,       \* evidence files
  Fates       \* a set of [fail, crash, damage, capture]: bounds on each

(* Evidence lies in a directory of its own. *)
ASSUME ItemAssumption == Item \cap {"db", "other", "manifest", "marker", "none"} = {}

VARIABLES
  rowed, born,         \* live: the evidence rows; each file's inode, 0 for none
  place, placed,       \* each directory: "none", "stage" or "out"; what is durable
  holds, durable,      \* its files' content; what is durable of it
  refs, plan,          \* the snapshot's evidence rows; the inodes it inventoried
  active, at,          \* the directory being made, and how far
  uncopied, hand,          \* entries still to copy; the one copied and not synced
  success,             \* the commands that reported success
  damaged,             \* the bundle's entries damaged after it was made
  fate

sourceVars == <<rowed, born>>
diskVars == <<place, placed, holds, durable>>
runVars == <<refs, plan, active, at, uncopied, hand>>
backupVars == <<sourceVars, diskVars, runVars, success, damaged, fate>>

Output == {"bundle", "restored"}
Files == Item \cup {"db", "other", "manifest", "marker"}
Empty == [n \in Files |-> "absent"]
(* The manifest's entries. *)
Entries == refs \cup {"db", "other"}

BackupInit ==
  /\ rowed = {} /\ born = [i \in Item |-> 0]
  /\ place = [d \in Output |-> "none"] /\ placed = place
  /\ holds = [d \in Output |-> Empty] /\ durable = holds
  /\ refs = {} /\ plan = born
  /\ active = "none" /\ at = "idle"
  /\ uncopied = {} /\ hand = "none"
  /\ success = {} /\ damaged = {}
  /\ fate \in Fates

Risk(what) == fate[what] > 0 /\ fate' = [fate EXCEPT ![what] = @ - 1]
Step(from, to) == at = from /\ at' = to
(* Written, synced, and so is the directory that names it. *)
Secure(n, content) ==
  /\ holds' = [holds EXCEPT ![active][n] = content]
  /\ durable' = [durable EXCEPT ![active][n] = content]

-----------------------------------------------------------------------------
(* The daemon: a file before its row, a row's end before the file's. *)

Capture(i) ==
  /\ \/ /\ born[i] = 0 /\ Risk("capture")
        /\ born' = [born EXCEPT ![i] = 1 + fate.capture] /\ UNCHANGED rowed
     \/ /\ born[i] # 0 /\ i \notin rowed
        /\ rowed' = rowed \cup {i} /\ UNCHANGED <<born, fate>>
  /\ UNCHANGED <<diskVars, runVars, success, damaged>>

Retire(i) ==
  /\ \/ i \in rowed /\ rowed' = rowed \ {i} /\ UNCHANGED born
     \/ i \notin rowed /\ born[i] # 0 /\ born' = [born EXCEPT ![i] = 0] /\ UNCHANGED rowed
  /\ UNCHANGED <<diskVars, runVars, success, damaged, fate>>

-----------------------------------------------------------------------------
(* A staging directory *)

(* A bundle restore accepts: unmarked, and every checksum right. *)
Verified ==
  /\ place["bundle"] = "out" /\ holds["bundle"]["marker"] = "absent"
  /\ \A n \in Entries \cup {"manifest"} : holds["bundle"][n] = "good"

(* An older run's staging directory has a name of its own. *)
BeginOutput(d) ==
  /\ at = "idle" /\ place[d] # "out"
  /\ d = "restored" => Verified
  /\ active' = d /\ at' = "mark"
  /\ place' = [place EXCEPT ![d] = "stage"] /\ placed' = [placed EXCEPT ![d] = "stage"]
  /\ holds' = [holds EXCEPT ![d] = Empty] /\ durable' = [durable EXCEPT ![d] = Empty]
  /\ UNCHANGED <<sourceVars, refs, plan, uncopied, hand, success, damaged, fate>>

WriteMarker ==
  /\ Step("mark", IF active = "bundle" THEN "snapshot" ELSE "copy")
  /\ Secure("marker", "good")
  /\ uncopied' = IF active = "bundle" THEN {} ELSE Entries
  /\ UNCHANGED <<sourceVars, place, placed, refs, plan, active, hand, success, damaged, fate>>

(* SnapshotDatabase: one read transaction, whatever is written meanwhile. *)
Snapshot ==
  /\ Step("snapshot", "plan")
  /\ refs' = rowed
  /\ Secure("db", "good")
  /\ UNCHANGED <<sourceVars, place, placed, plan, active, uncopied, hand, success, damaged, fate>>

(* The inventory follows the snapshot's rows, not the live ones. *)
Inventory ==
  /\ \A i \in refs : born[i] # 0
  /\ Step("plan", "copy")
  /\ plan' = born
  /\ uncopied' = refs \cup {"other"}
  /\ UNCHANGED <<sourceVars, diskVars, refs, active, hand, success, damaged, fate>>

(* What a restore copies still has the manifest's hash. *)
Rehashed(n) == holds["bundle"][n] = "good"

(* copyPlanned refuses a file that is not the one it inventoried, before   *)
(* the copy or after it.                                                   *)
Copyable(n) ==
  IF active = "bundle" THEN n \in Item => born[n] = plan[n] ELSE Rehashed(n)

Contents(n) ==
  IF active = "bundle" THEN "good"
  ELSE IF n = "db" THEN "part" ELSE holds["bundle"][n]

CopyEntry(n) ==
  /\ n \in uncopied /\ Copyable(n)
  /\ Step("copy", "sync")
  /\ uncopied' = uncopied \ {n} /\ hand' = n
  /\ holds' = [holds EXCEPT ![active][n] = Contents(n)]
  /\ UNCHANGED <<sourceVars, place, placed, durable, refs, plan, active, success, damaged, fate>>

(* The file, then its directory. *)
SyncEntry ==
  /\ Step("sync", IF uncopied # {} THEN "copy" ELSE IF active = "bundle" THEN "manifest" ELSE "remap")
  /\ durable' = [durable EXCEPT ![active][hand] = holds[active][hand]]
  /\ hand' = "none"
  /\ UNCHANGED <<sourceVars, place, placed, holds, refs, plan, active, uncopied, success, damaged, fate>>

(* RemapSnapshotPaths: the database's own commits are durable; a copied    *)
(* one names the old paths until the last of them.                         *)
Remap ==
  /\ Step("remap", "check")
  /\ Secure("db", "good")
  /\ UNCHANGED <<sourceVars, place, placed, refs, plan, active, uncopied, hand, success, damaged, fate>>

CheckEvidence ==
  /\ Step("check", "manifest")
  /\ \A n \in refs : holds[active][n] = "good"
  /\ UNCHANGED <<sourceVars, diskVars, refs, plan, active, uncopied, hand, success, damaged, fate>>

(* The manifest, or the recovery configuration and report. *)
WriteManifest ==
  /\ Step("manifest", IF active = "bundle" THEN "verify" ELSE "publish")
  /\ Secure("manifest", "good")
  /\ UNCHANGED <<sourceVars, place, placed, refs, plan, active, uncopied, hand, success, damaged, fate>>

(* verifyRoot, of what was just written. *)
VerifyStage ==
  /\ Step("verify", "publish")
  /\ \A n \in Entries : holds[active][n] = "good"
  /\ UNCHANGED <<sourceVars, diskVars, refs, plan, active, uncopied, hand, success, damaged, fate>>

-----------------------------------------------------------------------------
(* Publication *)

(* PublishNoReplace: the rename, then the parent's sync. *)
RenameStage ==
  /\ Step("publish", "parent")
  /\ place' = [place EXCEPT ![active] = "out"]
  /\ UNCHANGED <<sourceVars, placed, holds, durable, refs, plan, active, uncopied, hand, success,
                 damaged, fate>>

SyncParent ==
  /\ Step("parent", "unmark")
  /\ placed' = [placed EXCEPT ![active] = "out"]
  /\ UNCHANGED <<sourceVars, place, holds, durable, refs, plan, active, uncopied, hand, success,
                 damaged, fate>>

Unmark ==
  /\ Step("unmark", "seal")
  /\ holds' = [holds EXCEPT ![active]["marker"] = "absent"]
  /\ UNCHANGED <<sourceVars, place, placed, durable, refs, plan, active, uncopied, hand, success,
                 damaged, fate>>

Unsynced == durable  \* mutant

(* The output's directory is synced: the marker's removal is durable. *)
Synced == [durable EXCEPT ![active]["marker"] = "absent"]

Seal ==
  /\ Step("seal", "idle")
  /\ durable' = Synced
  /\ success' = success \cup {active}
  /\ active' = "none"
  /\ UNCHANGED <<sourceVars, place, placed, holds, refs, plan, uncopied, hand, damaged, fate>>

-----------------------------------------------------------------------------
(* Failures *)

Early == {"mark", "snapshot", "plan", "copy", "sync", "remap", "check", "manifest", "verify",
          "publish"}

(* A refusal: evidence gone, a source that changed, a checksum.  Any step  *)
(* may fail for reasons of its own.                                        *)
Refused ==
  \/ at = "plan" /\ \E i \in refs : born[i] = 0
  \/ at = "copy" /\ \E n \in uncopied : ~Copyable(n)
  \/ at = "check" /\ \E n \in refs : holds[active][n] # "good"
  \/ at = "verify" /\ \E n \in Entries : holds[active][n] # "good"

StopRun ==
  /\ at' = "idle" /\ active' = "none" /\ uncopied' = {} /\ hand' = "none"

(* Before publication a create removes its own staging; a restore keeps it.*)
FailEarly ==
  /\ at \in Early
  /\ \/ Refused /\ UNCHANGED fate
     \/ Risk("fail")
  /\ StopRun
  /\ place' = [place EXCEPT ![active] = IF active = "bundle" THEN "none" ELSE @]
  /\ UNCHANGED <<sourceVars, placed, holds, durable, refs, plan, success, damaged>>

(* A published output keeps its marker; if the sync that makes its removal *)
(* durable fails, the marker is written again, as far as that works.       *)
FailLate ==
  /\ at \in {"parent", "unmark", "seal"}
  /\ Risk("fail")
  /\ StopRun
  /\ \/ at = "seal" /\ Secure("marker", "good")
     \/ UNCHANGED <<holds, durable>>
  /\ UNCHANGED <<sourceVars, place, placed, refs, plan, success, damaged>>

Unsettled == {f \in Output \X Files : holds[f[1]][f[2]] # durable[f[1]][f[2]]}

(* The machine stops: what was not synced is as it was, as it became, or,  *)
(* but for the removal of a marker, torn.                                  *)
CrashMachine ==
  /\ Risk("crash")
  /\ StopRun
  /\ place' \in {p \in [Output -> {"none", "stage", "out"}] :
                   \A d \in Output : p[d] \in {place[d], placed[d]}}
  /\ placed' = place'
  /\ \E undone \in SUBSET Unsettled :
       \E torn \in SUBSET {f \in undone : f[2] # "marker"} :
         holds' = [d \in Output |-> [n \in Files |->
                     IF <<d, n>> \in torn THEN "part"
                     ELSE IF <<d, n>> \in undone THEN durable[d][n] ELSE holds[d][n]]]
  /\ durable' = holds'
  /\ UNCHANGED <<sourceVars, refs, plan, success, damaged>>

(* A finished bundle is damaged where it lies. *)
DamageBundle(n) ==
  /\ place["bundle"] = "out" /\ at \in {"mark", "copy", "sync", "idle"}
  /\ "bundle" \in success /\ n \in Entries
  /\ Risk("damage")
  /\ damaged' = damaged \cup {n}
  /\ holds' = [holds EXCEPT !["bundle"][n] = "bad"]
  /\ durable' = [durable EXCEPT !["bundle"][n] = "bad"]
  /\ UNCHANGED <<sourceVars, place, placed, runVars, success>>

BackupNext ==
  \/ \E i \in Item : Capture(i) \/ Retire(i)
  \/ \E d \in Output : BeginOutput(d)
  \/ WriteMarker \/ Snapshot \/ Inventory \/ SyncEntry \/ Remap \/ CheckEvidence
  \/ \E n \in Files : CopyEntry(n) \/ DamageBundle(n)
  \/ WriteManifest \/ VerifyStage
  \/ RenameStage \/ SyncParent \/ Unmark \/ Seal
  \/ FailEarly \/ FailLate \/ CrashMachine

BackupSpec == BackupInit /\ [][BackupNext]_backupVars

-----------------------------------------------------------------------------
(* Properties *)

(* An output without its marker is whole: the database, the manifest and   *)
(* everything the snapshot's rows name, whatever the daemon captured and   *)
(* retired meanwhile, wherever a run failed or the machine crashed, and    *)
(* for a restore however its bundle was damaged.                           *)
UnmarkedWhole ==
  \A d \in Output : place[d] = "out" /\ holds[d]["marker"] = "absent" =>
    \A n \in Entries \cup {"manifest"} :
      holds[d][n] = "good" \/ (d = "bundle" /\ n \in damaged)

(* A command that reported success left an output that stays, unmarked,    *)
(* through a crash.                                                        *)
SuccessKept ==
  \A d \in success : place[d] = "out" /\ holds[d]["marker"] = "absent"

(* Both: an output may be trusted for want of its marker, and stays so. *)
OutputTrusted == UnmarkedWhole /\ SuccessKept
=============================================================================
