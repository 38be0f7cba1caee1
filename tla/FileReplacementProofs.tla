------------------------ MODULE FileReplacementProofs ------------------------
(***************************************************************************)
(* For any number of processes, keys, saves and failures: a file that is   *)
(* replaced is never torn, and a settings file keeps the decisions that    *)
(* were recorded in it.                                                    *)
(***************************************************************************)
EXTENDS FileReplacement, TLAPS

Saving == {"write", "sync", "rename", "syncdir"}
Tasks  == [key : Keys \cup {Nothing}, value : Values \cup {Nothing}]

(* The types the proof needs; unlike TypeOK, of every variable.            *)
Types ==
  /\ file \in {"codeplug", "settings"}
  /\ mayBe \subseteq Whole \cup {Torn, Corrupt}
  /\ path \in bytes /\ bytes \subseteq mayBe
  /\ pc \in [Processes -> Saving \cup {"idle"}]
  /\ task \in [Processes -> Tasks]
  /\ doc \in [Processes -> Whole]
  /\ temp \in [Processes -> Whole \cup {Torn}]
  /\ stored \in [Processes -> SUBSET (Whole \cup {Torn})]
  /\ decided \in Whole \cup {Corrupt}
  /\ stale \subseteq Processes /\ lost \subseteq Keys

(* Who is saving records a decision, and will write that decision.         *)
TaskInv ==
  \A p \in Processes : pc[p] # "idle" =>
    /\ task[p].key \in Keys /\ task[p].value \in Values
    /\ doc[p][task[p].key] = task[p].value

(* Before it is renamed, a temporary file reads what was meant, unless the *)
(* write went wrong; after the sync nothing else can come of it.           *)
TempInv ==
  \A p \in Processes :
    /\ pc[p] \in {"sync", "rename"} =>
         temp[p] = doc[p] \/ (file = "settings" /\ temp[p] = Torn)
    /\ pc[p] = "rename" => stored[p] = {temp[p]}

(* The document of a process that no other has overtaken differs from the  *)
(* file in its own decision only.                                          *)
FreshInv ==
  file = "settings" =>
    \A p \in Processes \ stale : pc[p] \in {"write", "sync", "rename"} =>
      \A k \in Keys \ {task[p].key} : doc[p][k] = path[k]

(* A file that cannot be read is touched by nobody.                        *)
CorruptInv ==
  IF decided = Corrupt
    THEN file = "settings" /\ mayBe = {Corrupt} /\ \A p \in Processes : pc[p] = "idle"
    ELSE Corrupt \notin mayBe

IInv ==
  /\ Types /\ TaskInv /\ TempInv /\ FreshInv /\ CorruptInv /\ PathIsWhole /\ DecisionKept

-----------------------------------------------------------------------------

(* Damage is no document, and has nothing in it that was decided.          *)
LEMMA Damage ==
  /\ Torn \notin Whole /\ Corrupt \notin Whole /\ Torn # Corrupt /\ Empty \in Whole
  /\ \A k \in Keys : Torn[k] \notin Values
<1>1. PICK k \in Keys : TRUE
  BY FileAssumption
<1>2. Torn[k] = "torn" /\ Corrupt[k] = "corrupt"
  BY DEF Torn, Corrupt
<1>3. \A w \in Whole : w[k] \in Values \cup {Nothing}
  BY DEF Whole
<1>4. "torn" \notin Values \cup {Nothing} /\ "corrupt" \notin Values \cup {Nothing}
  BY FileAssumption DEF Nothing
<1>5. Empty \in Whole
  BY DEF Empty, Whole
<1>6. \A j \in Keys : Torn[j] \notin Values
  BY FileAssumption DEF Torn
<1> QED
  BY <1>2, <1>3, <1>4, <1>5, <1>6

(* A document with one more decision is a document.                        *)
LEMMA Recording ==
  ASSUME NEW d \in Whole, NEW k \in Keys, NEW v \in Values
  PROVE  /\ WithDecision(d, k, v) \in Whole
         /\ WithDecision(d, k, v)[k] = v
         /\ \A j \in Keys \ {k} : WithDecision(d, k, v)[j] = d[j]
BY DEF WithDecision, Whole

LEMMA Initially ==
  ASSUME Init
  PROVE  IInv
<1>1. Types
  BY Damage DEF Init, Types, Tasks, Saving
<1>2. TaskInv /\ TempInv /\ FreshInv
  BY DEF Init, TaskInv, TempInv, FreshInv
<1>3. CorruptInv /\ PathIsWhole
  BY Damage DEF Init, CorruptInv, PathIsWhole
<1>4. DecisionKept
  BY DEF Init, DecisionKept
<1> QED
  BY <1>1, <1>2, <1>3, <1>4 DEF IInv

-----------------------------------------------------------------------------
(* One lemma per action.                                                   *)

LEMMA BeginStep ==
  ASSUME IInv, NEW p \in Processes, NEW k \in Keys, NEW v \in Values,
         Begin(p, k, v)
  PROVE  IInv'
<1>. USE DEF IInv
<1>1. doc'[p] \in Whole /\ doc'[p][k] = v
      /\ (file = "settings" => \A j \in Keys \ {k} : doc'[p][j] = path[j])
      /\ doc' = [doc EXCEPT ![p] = doc'[p]]
  <2>1. CASE file = "codeplug"
    <3>1. doc' = [doc EXCEPT ![p] = [i \in Keys |-> v]]
      BY <2>1 DEF Begin
    <3>2. [i \in Keys |-> v] \in Whole
      BY DEF Whole
    <3> QED
      BY <2>1, <3>1, <3>2 DEF Types
  <2>2. CASE file = "settings"
    <3>1. doc' = [doc EXCEPT ![p] = WithDecision(path, k, v)] /\ path # Corrupt
      BY <2>2 DEF Begin, Readable
    <3>2. path \in Whole
      BY <3>1 DEF Types, PathIsWhole
    <3> QED
      BY <3>1, <3>2, Recording DEF Types
  <2> QED
    BY <2>1, <2>2 DEF Types
<1>2. decided # Corrupt
  <2>1. CASE file = "codeplug"
    BY <2>1 DEF CorruptInv
  <2>2. CASE file = "settings"
    BY <2>2 DEF Begin, Readable, CorruptInv, Types
  <2> QED
    BY <2>1, <2>2 DEF Types
<1>3. Types'
  BY <1>1 DEF Begin, Goto, Types, Tasks, Saving, system
<1>4. TaskInv'
  BY <1>1 DEF Begin, Goto, Types, TaskInv
<1>5. TempInv'
  BY <1>1 DEF Begin, Goto, Types, TempInv
<1>6. FreshInv'
  BY <1>1 DEF Begin, Goto, Types, FreshInv, system
<1>7. CorruptInv' /\ PathIsWhole' /\ DecisionKept'
  BY <1>2 DEF Begin, CorruptInv, PathIsWhole, DecisionKept, system
<1> QED
  BY <1>3, <1>4, <1>5, <1>6, <1>7

LEMMA WriteStep ==
  ASSUME IInv, NEW p \in Processes, Write(p)
  PROVE  IInv'
<1>. USE DEF IInv
<1>1. temp' = [temp EXCEPT ![p] = temp'[p]]
      /\ (temp'[p] = doc[p] \/ (file = "settings" /\ temp'[p] = Torn))
  BY DEF Write, Types
<1>2. Types'
  BY <1>1 DEF Write, Goto, Types, Saving, system, history
<1>3. TaskInv'
  BY DEF Write, Goto, Types, TaskInv
<1>4. TempInv'
  BY <1>1 DEF Write, Goto, Types, TempInv
<1>5. FreshInv'
  BY DEF Write, Goto, Types, FreshInv, system, history
<1>6. CorruptInv' /\ PathIsWhole' /\ DecisionKept'
  BY DEF Write, Goto, CorruptInv, PathIsWhole, DecisionKept, system, history
<1> QED
  BY <1>2, <1>3, <1>4, <1>5, <1>6

LEMMA SyncStep ==
  ASSUME IInv, NEW p \in Processes, Sync(p)
  PROVE  IInv'
<1>. USE DEF IInv
<1>1. Types'
  BY DEF Sync, Synced, Goto, Types, Saving, system, history
<1>2. TaskInv'
  BY DEF Sync, Goto, Types, TaskInv
<1>3. TempInv'
  BY DEF Sync, Synced, Goto, Types, TempInv
<1>4. FreshInv'
  BY DEF Sync, Goto, Types, FreshInv, system, history
<1>5. CorruptInv' /\ PathIsWhole' /\ DecisionKept'
  BY DEF Sync, Goto, CorruptInv, PathIsWhole, DecisionKept, system, history
<1> QED
  BY <1>1, <1>2, <1>3, <1>4, <1>5

(* A process that is done, or gives up, leaves no more than a temporary    *)
(* file: the file and what is known of it stay.                            *)
LEMMA IdleStep ==
  ASSUME IInv, NEW p \in Processes, Goto(p, "idle"),
         UNCHANGED <<file, system, task, doc, temp, stored, history>>
  PROVE  IInv'
<1>. USE DEF IInv
<1>1. Types'
  BY DEF Goto, Types, Saving, system, history
<1>2. TaskInv' /\ TempInv' /\ FreshInv'
  BY DEF Goto, Types, TaskInv, TempInv, FreshInv, system, history
<1>3. CorruptInv' /\ PathIsWhole' /\ DecisionKept'
  BY DEF Goto, Types, CorruptInv, PathIsWhole, DecisionKept, system, history
<1> QED
  BY <1>1, <1>2, <1>3

(* What is renamed is what was meant: a torn settings file does not verify. *)
LEMMA RenameStep ==
  ASSUME IInv, NEW p \in Processes, Rename(p)
  PROVE  IInv'
<1>. USE DEF IInv
<1>1. /\ task[p].key \in Keys /\ task[p].value \in Values
      /\ doc[p] \in Whole /\ doc[p][task[p].key] = task[p].value
  BY DEF Rename, TaskInv, Types
<1>2. temp[p] = doc[p] /\ stored[p] = {doc[p]}
  BY <1>1, Damage DEF Rename, Verifies, TempInv, Types
<1>3. path' = doc[p] /\ bytes' = {doc[p]} /\ mayBe' = mayBe \cup {doc[p]}
  BY <1>2 DEF Rename
<1>4. decided # Corrupt
  BY DEF Rename, CorruptInv
<1>5. /\ decided' \in Whole
      /\ file = "codeplug" => decided' = doc[p] /\ lost' = {}
      /\ file = "settings" =>
           /\ decided'[task[p].key] = task[p].value
           /\ \A k \in Keys \ {task[p].key} : decided'[k] = decided[k]
           /\ lost' = (lost \cup (IF p \in stale THEN Keys ELSE {})) \ {task[p].key}
  <2>1. CASE file = "codeplug"
    BY <2>1, <1>1 DEF Rename
  <2>2. CASE file = "settings"
    <3>1. decided \in Whole
      BY <1>4 DEF Types
    <3>2. decided' = WithDecision(decided, task[p].key, task[p].value)
      BY <2>2, <1>4 DEF Rename, WithDecision
    <3>3. lost' = (lost \cup (IF p \in stale THEN Keys ELSE {})) \ {task[p].key}
      BY <2>2 DEF Rename
    <3> QED
      BY <2>2, <3>1, <3>2, <3>3, <1>1, Recording
  <2> QED
    BY <2>1, <2>2 DEF Types
<1>6. decided' # Corrupt
  BY <1>5, Damage
<1>7. Types'
  <2>1. lost' \subseteq Keys /\ stale' \subseteq Processes
    BY <1>5 DEF Rename, Types
  <2>2. mayBe' \subseteq Whole \cup {Torn, Corrupt} /\ path' \in bytes' /\ bytes' \subseteq mayBe'
    BY <1>1, <1>3 DEF Types
  <2> QED
    BY <1>5, <2>1, <2>2 DEF Rename, Goto, Types, Saving
<1>8. TaskInv' /\ TempInv'
  BY DEF Rename, Goto, Types, TaskInv, TempInv
<1>9. FreshInv'
  BY DEF Rename, Goto, Types, FreshInv
<1>10. CorruptInv' /\ PathIsWhole'
  BY <1>1, <1>3, <1>4, <1>6, Damage DEF CorruptInv, PathIsWhole
<1>11. DecisionKept'
  <2>1. CASE file = "codeplug"
    BY <2>1, <1>3, <1>5, <1>6 DEF DecisionKept
  <2>2. CASE file = "settings"
    <3>1. SUFFICES ASSUME NEW k \in Keys \ lost' PROVE doc[p][k] = decided'[k]
      BY <1>3, <1>6 DEF DecisionKept
    <3>2. CASE k = task[p].key
      BY <2>2, <3>2, <1>1, <1>5
    <3>3. CASE k # task[p].key
      <4>1. p \notin stale /\ k \notin lost
        BY <2>2, <3>3, <1>5
      <4>2. doc[p][k] = path[k]
        BY <2>2, <3>3, <4>1 DEF Rename, FreshInv
      <4>3. path[k] = decided[k]
        BY <1>4, <4>1 DEF DecisionKept
      <4> QED
        BY <2>2, <3>3, <4>2, <4>3, <1>5
    <3> QED
      BY <3>2, <3>3
  <2> QED
    BY <2>1, <2>2 DEF Types
<1> QED
  BY <1>7, <1>8, <1>9, <1>10, <1>11

LEMMA SyncDirectoryStep ==
  ASSUME IInv, NEW p \in Processes, SyncDirectory(p)
  PROVE  IInv'
<1>. USE DEF IInv
<1>1. mayBe' \subseteq mayBe /\ path \in bytes /\ bytes \subseteq mayBe'
  BY DEF SyncDirectory, Types
<1>2. decided # Corrupt
  BY DEF SyncDirectory, CorruptInv
<1>3. Types'
  BY <1>1 DEF SyncDirectory, Goto, Types, Saving, history
<1>4. TaskInv' /\ TempInv' /\ FreshInv'
  BY DEF SyncDirectory, Goto, Types, TaskInv, TempInv, FreshInv, history
<1>5. CorruptInv' /\ PathIsWhole' /\ DecisionKept'
  BY <1>1, <1>2 DEF SyncDirectory, CorruptInv, PathIsWhole, DecisionKept, history
<1> QED
  BY <1>3, <1>4, <1>5

LEMMA PowerStep ==
  ASSUME IInv, PowerFails
  PROVE  IInv'
<1>. USE DEF IInv
<1>1. path' \in mayBe /\ bytes' = {path'} /\ mayBe' = {path'}
      /\ path' # Torn /\ (decided # Corrupt => path' \in Whole)
  BY DEF PowerFails, Types, PathIsWhole, CorruptInv
<1>2. Types'
  BY <1>1 DEF PowerFails, Types, Saving
<1>3. TaskInv' /\ TempInv' /\ FreshInv'
  BY DEF PowerFails, TaskInv, TempInv, FreshInv
<1>4. CorruptInv'
  BY <1>1, Damage DEF PowerFails, CorruptInv
<1>5. PathIsWhole' /\ DecisionKept'
  BY <1>1, Damage DEF PowerFails, PathIsWhole, DecisionKept, CorruptInv
<1> QED
  BY <1>2, <1>3, <1>4, <1>5

(* The steps together; saves and failures are only counted.                *)
LEMMA Inductive ==
  ASSUME IInv, [Next]_vars
  PROVE  IInv'
<1>1. ASSUME NEW p \in Processes, NEW k \in Keys, NEW v \in Values, Begin(p, k, v)
      PROVE  IInv'
  BY <1>1, BeginStep
<1>2. ASSUME NEW p \in Processes, Write(p) PROVE IInv'
  BY <1>2, WriteStep
<1>3. ASSUME NEW p \in Processes, Sync(p) PROVE IInv'
  BY <1>3, SyncStep
<1>4. ASSUME NEW p \in Processes, Refuse(p) PROVE IInv'
  BY <1>4, IdleStep DEF Refuse, counts
<1>5. ASSUME NEW p \in Processes, Rename(p) PROVE IInv'
  BY <1>5, RenameStep
<1>6. ASSUME NEW p \in Processes, SyncDirectory(p) PROVE IInv'
  BY <1>6, SyncDirectoryStep
<1>7. ASSUME NEW p \in Processes, Fails(p) PROVE IInv'
  BY <1>7, IdleStep DEF Fails
<1>8. CASE PowerFails
  BY <1>8, PowerStep
<1>9. CASE UNCHANGED vars
  BY <1>9 DEF vars, system, process, counts, history, IInv, Types, TaskInv, TempInv,
     FreshInv, CorruptInv, PathIsWhole, DecisionKept
<1> QED
  BY <1>1, <1>2, <1>3, <1>4, <1>5, <1>6, <1>7, <1>8, <1>9 DEF Next

-----------------------------------------------------------------------------

(* The invariant that carries the two properties holds in every state of   *)
(* the two replacement protocols.                                          *)
THEOREM Invariance ==
  Spec => []IInv
<1>1. Init => IInv
  BY Initially
<1>2. IInv /\ [Next]_vars => IInv'
  BY Inductive
<1> QED
  BY <1>1, <1>2, PTL DEF Spec

(* codeplug.Save and userconfig.replaceAtomically: whatever fails, a       *)
(* reader finds a whole file, the old one or a new one, now and after a    *)
(* power failure.                                                          *)
THEOREM NeverTorn ==
  Spec => []PathIsWhole
<1>1. IInv => PathIsWhole
  BY DEF IInv
<1> QED
  BY <1>1, Invariance, PTL

(* userconfig.setConsent: the last decision recorded for each radio stays, *)
(* with everything else in the file, unless two processes overlapped; and  *)
(* a file that cannot be read is left alone.                               *)
THEOREM DecisionsStay ==
  Spec => []DecisionKept
<1>1. IInv => DecisionKept
  BY DEF IInv
<1> QED
  BY <1>1, Invariance, PTL

=============================================================================
