--------------------------- MODULE FileReplacement ---------------------------
(***************************************************************************)
(* The two files this program replaces: the user's codeplug                *)
(* (codeplug.Save) and the consents in the settings file                   *)
(* (userconfig.setConsent).  Each writes a temporary file beside the old   *)
(* one, syncs it and renames it; the settings are read, changed and        *)
(* written back by processes that know nothing of each other.              *)
(*                                                                         *)
(* A rename is durable once the directory is synced, the bytes of a file   *)
(* once the file is: until then a power failure may leave the old ones.    *)
(***************************************************************************)
EXTENDS Naturals, FiniteSets

CONSTANTS
  Processes,  (* who saves                                                 *)
  Keys,       (* what a file holds: a decision per radio, parts of a codeplug *)
  Values,     (* what may be recorded for a key                            *)
  MaxSaves,   (* bound: saves begun                                        *)
  MaxFailures (* bound: steps that fail, processes killed, power failures  *)

Nothing == "nothing"  \* no value for a key

(* A file has something in it, and no decision looks like a missing one or *)
(* like damage.                                                            *)
ASSUME FileAssumption ==
  Keys # {} /\ {Nothing, "torn", "corrupt"} \cap Values = {}

(* What a file may read: a whole document, the empty one of a missing file *)
(* too; less than was written; what no settings file is, from an edit by   *)
(* hand or a bad disk.                                                     *)
Whole   == [Keys -> Values \cup {Nothing}]
Empty   == [k \in Keys |-> Nothing]
Torn    == [k \in Keys |-> "torn"]
Corrupt == [k \in Keys |-> "corrupt"]

VARIABLES
  file,      (* which file this is about: "codeplug" or "settings"         *)
  path,      (* what a process that opens it reads                         *)
  bytes,     (* what the file now at path may read after a power failure   *)
  mayBe,     (* the same for path, which may be an older file again        *)
  pc,        (* per process: "idle", "write", "sync", "rename", "syncdir"  *)
  task,      (* the key and the value it was asked to record               *)
  doc,       (* what it is about to write                                  *)
  temp,      (* what its temporary file reads                              *)
  stored,    (* what that file may read after a power failure              *)
  saves, failures,
  decided,   (* history: what the completed saves recorded                 *)
  stale,     (* history: processes that read before another's rename       *)
  lost       (* history: keys a stale process may have put back            *)

system  == <<path, bytes, mayBe>>
process == <<pc, task, doc, temp, stored>>
counts  == <<saves, failures>>
history == <<decided, stale, lost>>
vars    == <<file, system, process, counts, history>>

Init ==
  /\ file \in {"codeplug", "settings"}
  /\ path \in {Empty} \cup (IF file = "settings" THEN {Corrupt} ELSE {})
  /\ bytes = {path} /\ mayBe = {path}
  /\ pc = [p \in Processes |-> "idle"]
  /\ task = [p \in Processes |-> [key |-> Nothing, value |-> Nothing]]
  /\ doc = [p \in Processes |-> Empty]
  /\ temp = [p \in Processes |-> Torn] /\ stored = [p \in Processes |-> {Torn}]
  /\ saves = 0 /\ failures = 0
  /\ decided = path /\ stale = {} /\ lost = {}

Goto(p, label) == pc' = [pc EXCEPT ![p] = label]
Fault == failures < MaxFailures /\ failures' = failures + 1

-----------------------------------------------------------------------------
(* Mutant: a file that cannot be read counts as an empty one.              *)
ReadableOrEmpty == TRUE
(* loadRawObject and decodeConsent refuse what is not a settings file.     *)
Readable == path # Corrupt

(* Mutant: only what this build knows of is written back.                  *)
OnlyTheDecision(old, k, v) == [Empty EXCEPT ![k] = v]
(* setConsent sets one entry; the raw object keeps all the others.         *)
WithDecision(old, k, v) == [old EXCEPT ![k] = v]

(* setConsent reads the file it will replace; Save has all in memory.      *)
Begin(p, k, v) ==
  /\ pc[p] = "idle" /\ saves < MaxSaves
  /\ saves' = saves + 1 /\ Goto(p, "write")
  /\ task' = [task EXCEPT ![p] = [key |-> k, value |-> v]]
  /\ \/ file = "codeplug" /\ doc' = [doc EXCEPT ![p] = [i \in Keys |-> v]]
     \/ /\ file = "settings" /\ Readable
        /\ doc' = [doc EXCEPT ![p] = WithDecision(path, k, v)]
  /\ stale' = stale \ {p}
  /\ UNCHANGED <<file, system, temp, stored, failures, decided, lost>>

(* A new temporary file.  A file system may say that it stored the bytes   *)
(* and not have done it: settings are read back for that, codeplugs not.   *)
Write(p) ==
  /\ pc[p] = "write" /\ Goto(p, "sync")
  /\ \/ temp' = [temp EXCEPT ![p] = doc[p]] /\ UNCHANGED failures
     \/ file = "settings" /\ Fault /\ temp' = [temp EXCEPT ![p] = Torn]
  /\ stored' = [stored EXCEPT ![p] = {Torn, temp'[p]}]
  /\ UNCHANGED <<file, system, task, doc, saves, history>>

(* Mutant: when the bytes are stored is left to the operating system.      *)
LeftToTheSystem(p) == stored[p]
(* tmp.Sync                                                                *)
Synced(p) == {temp[p]}

Sync(p) ==
  /\ pc[p] = "sync" /\ Goto(p, "rename")
  /\ stored' = [stored EXCEPT ![p] = Synced(p)]
  /\ UNCHANGED <<file, system, task, doc, temp, counts, history>>

(* Mutant: the buffer is verified, not the file.                           *)
BufferVerifies(p) == doc[p][task[p].key] = task[p].value
(* verifyEncoded, of the bytes read back.                                  *)
Verifies(p) == temp[p][task[p].key] = task[p].value

Refuse(p) ==
  /\ pc[p] = "rename" /\ file = "settings" /\ ~Verifies(p)
  /\ Goto(p, "idle")
  /\ UNCHANGED <<file, system, task, doc, temp, stored, counts, history>>

Rename(p) ==
  /\ pc[p] = "rename" /\ (file = "settings" => Verifies(p))
  /\ Goto(p, "syncdir")
  /\ path' = temp[p] /\ bytes' = stored[p] /\ mayBe' = mayBe \cup stored[p]
  /\ decided' = IF file = "codeplug" THEN doc[p]
                ELSE IF decided = Corrupt THEN decided
                ELSE [decided EXCEPT ![task[p].key] = task[p].value]
  /\ lost' = IF file = "codeplug" THEN {}
             ELSE (lost \cup (IF p \in stale THEN Keys ELSE {})) \ {task[p].key}
  /\ stale' = stale \cup {q \in Processes \ {p} : pc[q] # "idle"}
  /\ UNCHANGED <<file, task, doc, temp, stored, counts>>

(* The directory, as well as may be: the save is over either way.          *)
SyncDirectory(p) ==
  /\ pc[p] = "syncdir" /\ Goto(p, "idle")
  /\ mayBe' \in {mayBe, bytes}
  /\ UNCHANGED <<file, path, bytes, task, doc, temp, stored, counts, history>>

(* A step fails, and the temporary file is removed; or the process is      *)
(* killed, and the file stays behind under a name nobody reads.            *)
Fails(p) ==
  /\ pc[p] # "idle" /\ Fault /\ Goto(p, "idle")
  /\ UNCHANGED <<file, system, task, doc, temp, stored, saves, history>>

(* After a power failure the file is one it may be, and what it records is *)
(* what it is held to from then on.                                        *)
PowerFails ==
  /\ Fault
  /\ path' \in mayBe /\ bytes' = {path'} /\ mayBe' = {path'}
  /\ pc' = [p \in Processes |-> "idle"] /\ stale' = {} /\ lost' = {}
  /\ decided' = IF decided = Corrupt THEN decided ELSE path'
  /\ UNCHANGED <<file, task, doc, temp, stored, saves>>

Next ==
  \/ \E p \in Processes :
       \/ \E k \in Keys, v \in Values : Begin(p, k, v)
       \/ Write(p) \/ Sync(p) \/ Refuse(p) \/ Rename(p) \/ SyncDirectory(p) \/ Fails(p)
  \/ PowerFails

Spec == Init /\ [][Next]_vars

-----------------------------------------------------------------------------
(* Properties.                                                             *)

(* Every variable has its type.                                            *)
TypeOK ==
  /\ file \in {"codeplug", "settings"}
  /\ path \in mayBe /\ bytes \subseteq mayBe /\ mayBe \subseteq Whole \cup {Torn, Corrupt}
  /\ pc \in [Processes -> {"idle", "write", "sync", "rename", "syncdir"}]
  /\ doc \in [Processes -> Whole] /\ temp \in [Processes -> Whole \cup {Torn}]
  /\ decided \in Whole \cup {Corrupt} /\ stale \subseteq Processes /\ lost \subseteq Keys

(* Whatever fails, and at whatever step, what a reader finds at path, now  *)
(* or after a power failure, is a whole file: the old one or a new one.    *)
PathIsWhole == Torn \notin mayBe

(* A settings file records the last completed decision for every radio,    *)
(* and has kept whatever else was in it.  Two processes at once may undo   *)
(* each other's decisions, but never that of the one who was last; and a   *)
(* file that cannot be read is left for the user to repair.                *)
DecisionKept ==
  IF decided = Corrupt THEN path = Corrupt
  ELSE \A k \in Keys \ lost : path[k] = decided[k]

=============================================================================
