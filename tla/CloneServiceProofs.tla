-------------------------- MODULE CloneServiceProofs --------------------------
(***************************************************************************)
(* For any number of clients, slots, settings, files and sessions, and     *)
(* with every failure, cancellation, edit and crash the model has: what a  *)
(* send destroys was saved, it writes what was confirmed and only in its   *)
(* session, and its journal and its report tell the truth about it.        *)
(***************************************************************************)
EXTENDS CloneService, TLAPS, FiniteSetTheorems, WellFoundedInduction

(* What PrepareSend and the reads do, the delta-write loop of Execute, its *)
(* body once a slot is chosen, once its attempt is on record, and once it  *)
(* is written; the settings; all of Execute but its end.                   *)
Reading   == {"read", "items"}
Preparing == {"check", "vfo", "sel"}
InDoubt   == {"result", "diagnose", "verify", "verdict"}
InPair    == {"write", "result", "diagnose", "verify", "verdict"}
Visiting  == {"attempt", "write", "result", "diagnose", "verify", "verdict"}
InLoop    == {"slot", "attempt", "write", "result", "diagnose", "verify", "verdict"}
InBatch   == {"settings", "set", "setresult"}
Running   == {"check", "vfo", "sel", "slot", "attempt", "write", "result", "diagnose",
              "verify", "verdict", "settings", "set", "setresult"}

Busy(c)      == pc[c] # "idle"
Executing(c) == job[c].op = "Execute"
Ending(c)    == pc[c] \in {"restore", "return"} /\ Executing(c)

(* What the plan asks for; and, by run, what the journals and the radio     *)
(* know of it.                                                             *)
Todo(c)  == Deltas(Plan(c))
Batch(c) == SettingDeltas(Plan(c))
AttemptLog == [r \in Nat |-> Attempted(r)]
ConfirmLog == [r \in Nat |-> Confirmed(r)]
ChangeLog  == [r \in Nat |-> Touched(r)]

(* The try-lock: one operation at a time, and the operator's state in      *)
(* place when there is none.                                               *)
LockInv ==
  /\ \A c \in Clients : Busy(c) => opBusy
  /\ \A c, d \in Clients : Busy(c) /\ Busy(d) => c = d
  /\ ~opBusy => displaced = {}

(* The snapshot beside a plan's journal is the plan's baseline.            *)
PlanInv == \A p \in DOMAIN plans : disk[plans[p].journal].snap = plans[p].baseline

(* No journal speaks of a run to come; of each run, a slot is confirmed    *)
(* after it was attempted, changed after it was attempted, and at most one *)
(* slot attempted is not confirmed.                                        *)
JournalInv ==
  /\ \A r \in Nat : r > runs => AttemptLog[r] = {} /\ ConfirmLog[r] = {}
  /\ \A r \in Nat : /\ ChangeLog[r] \subseteq AttemptLog[r]
                    /\ ConfirmLog[r] \subseteq AttemptLog[r]
                    /\ \E s : AttemptLog[r] \ ConfirmLog[r] \subseteq {s}

(* Which operation is at which label, and on what.                         *)
OpInv(c) ==
  /\ pc[c] = "read" => job[c].op \in {"ReadAll", "PrepareSend"}
  /\ pc[c] = "items" => job[c].op \in {"ReadSettings", "PrepareSend"}
  /\ pc[c] \in Running \cup {"restore"} => Executing(c)
  /\ Executing(c) =>
       /\ job[c].plan \in DOMAIN plans /\ job[c].confirmed \in DOMAIN plans
       /\ job[c].journal = Plan(c).journal /\ job[c].run = runs /\ runs # 0
  /\ job[c].op = "PrepareSend" => job[c].file \in DOMAIN Files
  /\ pc[c] = "items" /\ job[c].op = "PrepareSend" =>
       job[c].journal \in DOMAIN disk /\ disk[job[c].journal].snap = job[c].seen

(* The checks made at "check" stand until the end.                         *)
SessionInv(c) ==
  pc[c] \in Running \ {"check"} =>
    /\ Plan(c).generation = generation
    /\ Plan(c).baseline = Shown(c).baseline /\ Plan(c).candidate = Shown(c).candidate

(* What is still to be visited.                                            *)
LoopInv(c) ==
  /\ pc[c] = "read" => job[c].left \subseteq Slots
  /\ pc[c] = "items" => job[c].left \subseteq Items
  /\ pc[c] \in {"vfo", "sel"} => job[c].left = Todo(c) /\ job[c].left # {}
  /\ pc[c] \in InLoop => job[c].left \subseteq Todo(c) /\ job[c].left # {}
  /\ pc[c] \in Visiting => job[c].at \in job[c].left
  /\ pc[c] \in InBatch => job[c].left \subseteq Batch(c)
  /\ pc[c] \in InBatch \ {"settings"} => job[c].at \in job[c].left

(* The slot about to be written is as the baseline has it, or was edited   *)
(* after it was read.                                                      *)
DriftInv(c) ==
  pc[c] \in {"attempt", "write"} =>
    mem[job[c].at] = Plan(c).baseline[job[c].at] \/ job[c].at \in strayed

(* Where the run stands in its journal.                                    *)
AttemptInv(c) ==
  LET attempted == AttemptLog[job[c].run]
      confirmed == ConfirmLog[job[c].run]
  IN /\ pc[c] \in Preparing => attempted = {} /\ confirmed = {}
     /\ pc[c] \in {"slot", "attempt"} \cup InBatch => attempted = confirmed
     /\ pc[c] \in InPair => job[c].at \in attempted /\ attempted \ confirmed \subseteq {job[c].at}
     /\ Ending(c) /\ ~job[c].fault => attempted = confirmed

(* What counts as a failure.                                               *)
FaultInv(c) ==
  /\ pc[c] = "result" /\ job[c].result # "sent" => job[c].fault
  /\ pc[c] = "diagnose" => job[c].fault
  /\ pc[c] = "verdict" /\ job[c].result # "match" => job[c].fault

(* What the report has counted.                                            *)
ReportInv(c) ==
  LET report  == job[c].report
      changed == ChangeLog[job[c].run]
  IN /\ pc[c] \in Preparing => report.verified = {}
     /\ pc[c] \in InLoop => report.verified = Todo(c) \ job[c].left
     /\ pc[c] \in InBatch => report.verified = Todo(c)
     /\ pc[c] \in Running \ {"diagnose"} => report.failed = {}
     /\ pc[c] = "diagnose" => report.failed = {job[c].at}
     /\ pc[c] \in Running => report.verified \subseteq report.written
     /\ pc[c] \in {"verify", "verdict"} => job[c].at \in report.written
     /\ pc[c] \in Running \ InDoubt => changed \subseteq report.verified
     /\ pc[c] \in InDoubt => changed \subseteq report.verified \cup {job[c].at}

(* What the report says in the end.                                        *)
AnswerInv(c) ==
  LET report  == job[c].report
      changed == ChangeLog[job[c].run]
  IN Ending(c) =>
       /\ job[c].answer # "none"
       /\ job[c].answer = "refused" => changed = {}
       /\ job[c].answer = "done" =>
            report.verified = Todo(c) /\ report.failed = {}
       /\ job[c].answer = "aborted" =>
            /\ changed \subseteq report.verified \cup report.failed
            /\ \E s : report.failed \subseteq {s}
            /\ report.verified \subseteq report.written

(* Whatever a write may displace is held, or known to be lost.             *)
SeamInv(c) ==
  /\ pc[c] \in Reading \cup Preparing => displaced = {} /\ job[c].unheld = {}
  /\ pc[c] = "sel" => job[c].held = {"vfo"} \cap Seams
  /\ pc[c] \in InLoop => Seams \subseteq job[c].held \cup job[c].unheld
  /\ pc[c] \in InBatch \cup {"restore"} => displaced \subseteq job[c].held \cup job[c].unheld
  /\ pc[c] = "return" => displaced \subseteq job[c].unheld

ClientInv(c) ==
  /\ OpInv(c) /\ SessionInv(c) /\ LoopInv(c) /\ DriftInv(c) /\ AttemptInv(c)
  /\ FaultInv(c) /\ ReportInv(c) /\ AnswerInv(c) /\ SeamInv(c)

IInv ==
  /\ TypeOK /\ LockInv /\ PlanInv /\ JournalInv
  /\ \A c \in Clients : Busy(c) => ClientInv(c)

-----------------------------------------------------------------------------
(* The operators the actions are built from.                               *)

Less == {ss \in Nat \X Nat : ss[1] < ss[2]}

(* The slot visited next is one of those left.                             *)
LEMMA MinIsMember ==
  ASSUME NEW S, S \subseteq Nat, S # {}
  PROVE  Min(S) \in S
<1>1. IsWellFoundedOn(Less, Nat)
  <2>1. IsWellFoundedOn(OpToRel(<, Nat), Nat)
    BY ONLY NatLessThanWellFounded, Zenon
  <2> QED BY <2>1, Zenon DEF OpToRel, Less
<1>2. PICK x \in S : \A y \in S : ~(<<y, x>> \in Less)
  BY <1>1, WFMin, Zenon
<1>3. \A y \in S : x =< y
  <2> TAKE y \in S
  <2>1. ~(<<y, x>>[1] < <<y, x>>[2])
    BY <1>2 DEF Less
  <2> QED
    BY <2>1
<1> QED
  BY <1>3 DEF Min

LEMMA NoJobIsJob == NoJob \in Jobs
  BY CloneAssumption DEF NoJob, Jobs, Memories, Wishing, Reports, NoReport

LEMMA Numbered == /\ Slots \subseteq Nat /\ Items \subseteq Nat
                  /\ \A n \in Slots \cup Items \cup {0} : n \in Nat
<1>1. Slots \subseteq Nat \ {0} /\ Items \subseteq Nat \ {0}
  BY CloneAssumption
<1> QED
  BY <1>1

LEMMA NumbersOfJob ==
  ASSUME NEW j \in Jobs
  PROVE  j.run \in Nat /\ j.at \in Nat
<1>1. j.run \in Nat /\ j.at \in Slots \cup Items \cup {0}
  BY DEF Jobs
<1> QED
  BY <1>1, Numbered

LEMMA LineIsRecord ==
  ASSUME TypeOK, NEW c \in Clients, NEW event \in Events, NEW s \in Slots \cup Items \cup {0},
         NEW ok \in BOOLEAN
  PROVE  /\ Line(c, event, s, ok) \in Records
         /\ Line(c, event, s, ok).run = job[c].run
         /\ Line(c, event, s, ok).event = event
         /\ Line(c, event, s, ok).slot = s
         /\ Line(c, event, s, ok).ok = ok
<1>1. job[c].run \in Nat /\ s \in Nat
  BY Numbered DEF TypeOK, Jobs
<1> QED
  BY <1>1 DEF Line, Records

(* What lines say of a run: the slots of its lines of one kind.            *)
Named(lines, r, event) ==
  {lines[i].slot : i \in {i \in DOMAIN lines :
       lines[i].run = r /\ lines[i].event = event /\ lines[i].ok = TRUE}}

LEMMA NamedNone ==
  ASSUME NEW r, NEW event
  PROVE  Named(<<>>, r, event) = {}
  BY DEF Named

LEMMA NamedOne ==
  ASSUME NEW l \in Records, NEW r, NEW event
  PROVE  Named(<<l>>, r, event) =
           IF l.run = r /\ l.event = event /\ l.ok THEN {l.slot} ELSE {}
  BY DEF Named, Records

LEMMA NamedBoth ==
  ASSUME NEW a \in Seq(Records), NEW b \in Seq(Records), NEW r, NEW event
  PROVE  Named(a \o b, r, event) = Named(a, r, event) \cup Named(b, r, event)
<1> DEFINE l == a \o b
<1>1. ASSUME NEW x \in Named(l, r, event)
      PROVE  x \in Named(a, r, event) \cup Named(b, r, event)
  <2>1. PICK i \in DOMAIN l : l[i].run = r /\ l[i].event = event /\ l[i].ok = TRUE
                              /\ l[i].slot = x
    BY <1>1 DEF Named
  <2>2. \/ i \in DOMAIN a /\ l[i] = a[i]
        \/ i - Len(a) \in DOMAIN b /\ l[i] = b[i - Len(a)]
    OBVIOUS
  <2> HIDE DEF l
  <2> QED
    BY <2>1, <2>2 DEF Named
<1>2. ASSUME NEW x \in Named(a, r, event)
      PROVE  x \in Named(l, r, event)
  <2>1. PICK i \in DOMAIN a : a[i].run = r /\ a[i].event = event /\ a[i].ok = TRUE
                              /\ a[i].slot = x
    BY <1>2 DEF Named
  <2>2. i \in DOMAIN l /\ l[i] = a[i]
    OBVIOUS
  <2> HIDE DEF l
  <2> QED
    BY <2>1, <2>2 DEF Named
<1>3. ASSUME NEW x \in Named(b, r, event)
      PROVE  x \in Named(l, r, event)
  <2>1. PICK i \in DOMAIN b : b[i].run = r /\ b[i].event = event /\ b[i].ok = TRUE
                              /\ b[i].slot = x
    BY <1>3 DEF Named
  <2>2. Len(a) + i \in DOMAIN l /\ l[Len(a) + i] = b[i]
    OBVIOUS
  <2> HIDE DEF l
  <2> QED
    BY <2>1, <2>2 DEF Named
<1> HIDE DEF l
<1>4. Named(l, r, event) = Named(a, r, event) \cup Named(b, r, event)
  BY <1>1, <1>2, <1>3
<1> QED
  BY <1>4 DEF l

(* The snapshots that are there stay there, as they are.                   *)
KeepsSnapshots ==
  /\ disk' \in Seq(Saved) /\ Len(disk) =< Len(disk')
  /\ \A f \in DOMAIN disk : disk'[f].snap = disk[f].snap

(* Appending lines to a journal adds what they say, and no more.           *)
LEMMA LogAdds ==
  ASSUME disk \in Seq(Saved), NEW c, job[c].journal \in DOMAIN disk,
         NEW lines \in Seq(Records), Log(c, lines)
  PROVE  /\ KeepsSnapshots /\ Len(disk') = Len(disk)
         /\ \A r \in Nat : /\ AttemptLog'[r] = AttemptLog[r] \cup Named(lines, r, "write_attempt")
                           /\ ConfirmLog'[r] = ConfirmLog[r] \cup Named(lines, r, "verify_result")
<1> DEFINE j == job[c].journal
           old == disk[j].lines
           new == old \o lines
<1>0. disk[j] \in Saved
  OBVIOUS
<1>1. old \in Seq(Records) /\ disk[j].snap \in Memories
  BY <1>0 DEF Saved
<1>2. new \in Seq(Records)
  BY <1>1
<1> DEFINE entry == [disk[j] EXCEPT !.lines = new]
<1>3. disk' = [disk EXCEPT ![j] = entry]
  BY DEF Log
<1> HIDE DEF new
<1>4. entry \in Saved /\ entry.lines = new /\ entry.snap = disk[j].snap
  BY <1>0, <1>2 DEF Saved
<1> HIDE DEF entry
<1>5. /\ disk' \in Seq(Saved) /\ Len(disk') = Len(disk) /\ disk'[j] = entry
      /\ \A f \in DOMAIN disk \ {j} : disk'[f] = disk[f]
  BY <1>3, <1>4
<1>6. KeepsSnapshots
  BY <1>4, <1>5 DEF KeepsSnapshots
<1>7. ASSUME NEW r, NEW event
      PROVE  Lines(r, event, TRUE)' = Lines(r, event, TRUE) \cup Named(lines, r, event)
  <2>1. \A x : x \in Lines(r, event, TRUE) <=>
                \E f \in DOMAIN disk : x \in Named(disk[f].lines, r, event)
    BY DEF Lines, Named
  <2>2. \A x : x \in Lines(r, event, TRUE)' <=>
                \E f \in DOMAIN disk' : x \in Named(disk'[f].lines, r, event)
    BY DEF Lines, Named
  <2>3. Named(entry.lines, r, event) = Named(disk[j].lines, r, event) \cup Named(lines, r, event)
    BY <1>1, <1>4, NamedBoth DEF new
  <2>4. DOMAIN disk' = DOMAIN disk /\ j \in DOMAIN disk
    BY <1>5
  <2> HIDE DEF j
  <2>5. \A x : x \in Lines(r, event, TRUE)' <=>
                x \in Lines(r, event, TRUE) \/ x \in Named(lines, r, event)
    BY <1>5, <2>1, <2>2, <2>3, <2>4
  <2> QED
    BY <2>5
<1> QED
  BY <1>5, <1>6, <1>7 DEF AttemptLog, ConfirmLog, Attempted, Confirmed

-----------------------------------------------------------------------------
(* A step of an operation.                                                 *)

SameOp(j, k)     == /\ j.op = k.op /\ j.file = k.file /\ j.run = k.run
                    /\ j.plan = k.plan /\ j.confirmed = k.confirmed
                    /\ j.journal = k.journal
SameLoop(j, k)   == j.left = k.left /\ j.at = k.at
SameReport(j, k) == j.report = k.report /\ j.answer = k.answer
SameSeams(j, k)  == j.held = k.held /\ j.unheld = k.unheld

LEMMA SetJob ==
  ASSUME TypeOK, NEW c \in Clients, NEW j \in Jobs, Set(c, j)
  PROVE  job' \in [Clients -> Jobs] /\ job'[c] = j /\ \A d \in Clients \ {c} : job'[d] = job[d]
  BY DEF TypeOK, Set

LEMMA GoTo ==
  ASSUME TypeOK, NEW c \in Clients, NEW l \in Labels, Goto(c, l)
  PROVE  pc' \in [Clients -> Labels] /\ pc'[c] = l /\ \A d \in Clients \ {c} : pc'[d] = pc[d]
  BY DEF TypeOK, Goto

(* What holds of a client in an operation, and of no other.                *)
LEMMA OneIsBusy ==
  ASSUME IInv, NEW c \in Clients, pc[c] # "idle"
  PROVE  /\ ClientInv(c) /\ Busy(c) /\ opBusy
         /\ \A d \in Clients \ {c} : ~Busy(d)
         /\ job[c] \in Jobs /\ InRange(job[c])
         /\ pc[c] \in Running \cup {"restore"} => Executing(c) /\ job[c].journal \in DOMAIN disk
  <1>1. /\ ClientInv(c) /\ Busy(c) /\ opBusy
        /\ \A d \in Clients \ {c} : ~Busy(d)
    BY DEF IInv, LockInv, Busy
  <1>2. job[c] \in Jobs /\ InRange(job[c])
    BY DEF IInv, TypeOK
  <1>3. pc[c] \in Running \cup {"restore"} => Executing(c) /\ job[c].journal \in DOMAIN disk
    BY <1>1 DEF ClientInv, OpInv, IInv, TypeOK, Plan
  <1> QED
    BY <1>1, <1>2, <1>3

(* The common part of every step of Execute after Begin and before Return. *)
LEMMA ExecuteStep ==
  ASSUME IInv, NEW c \in Clients, pc[c] \in Running \cup {"restore"},
         pc[c] = "check" => SessionInv(c)' \/ pc'[c] = "return",
         pc[c] = "restore" => pc'[c] = "return",
         NEW l \in (Running \ {"check"}) \cup {"restore", "return"}, Goto(c, l),
         NEW j \in Jobs, Set(c, j), SameOp(j, job[c]),
         UNCHANGED <<serviceVars, cancelled, countVars>>,
         KeepsSnapshots, Len(disk') = Len(disk),
         mem' \in Memories, menu' \in [Items -> Values], displaced' \subseteq Seams,
         strayed' \subseteq Slots, touched' \subseteq (1 .. runs) \X Slots
  PROVE  /\ TypeOK' /\ LockInv' /\ PlanInv' /\ OpInv(c)' /\ SessionInv(c)'
         /\ \A d \in Clients \ {c} : ~Busy(d)'
         /\ Plan(c)' = Plan(c) /\ Shown(c)' = Shown(c) /\ Todo(c)' = Todo(c) /\ Batch(c)' = Batch(c)
         /\ Executing(c)' /\ pc'[c] = l /\ job'[c] = j /\ job'[c].run = job[c].run
         /\ runs' = runs
<1>1. /\ ClientInv(c) /\ opBusy /\ Executing(c)
      /\ \A d \in Clients \ {c} : ~Busy(d)
      /\ job[c] \in Jobs /\ InRange(job[c])
  BY OneIsBusy DEF Running
<1>2. /\ pc' \in [Clients -> Labels] /\ pc'[c] = l
      /\ \A d \in Clients \ {c} : pc'[d] = pc[d]
  BY GoTo DEF IInv, Labels, Running
<1>3. /\ job' \in [Clients -> Jobs] /\ job'[c] = j
      /\ \A d \in Clients \ {c} : job'[d] = job[d]
  BY SetJob DEF IInv
<1>4. UNCHANGED <<plans, generation, opBusy, cancelled, runs, reads, edits>>
  BY DEF serviceVars, countVars
<1>5. TypeOK'
  <2>1. \A d \in Clients : InRange(job[d])'
    BY <1>1, <1>3, <1>4 DEF InRange, SameOp, IInv, TypeOK
  <2>2. \A p \in DOMAIN plans : plans[p].journal \in DOMAIN disk'
    BY DEF IInv, TypeOK, KeepsSnapshots
  <2> QED
    BY <1>2, <1>3, <1>4, <2>1, <2>2 DEF IInv, TypeOK, KeepsSnapshots
<1>6. Executing(c)' /\ \A d \in Clients \ {c} : ~Busy(d)'
  BY <1>1, <1>2, <1>3 DEF SameOp, Executing, Busy
<1>7. LockInv'
  BY <1>1, <1>4, <1>6 DEF LockInv, Busy
<1>8. PlanInv'
  <2> SUFFICES ASSUME NEW p \in DOMAIN plans
               PROVE  disk'[plans[p].journal].snap = plans[p].baseline
    BY <1>4 DEF PlanInv
  <2>1. plans[p].journal \in DOMAIN disk
    BY DEF IInv, TypeOK
  <2> QED
    BY <2>1 DEF IInv, PlanInv, KeepsSnapshots
<1>9. /\ Plan(c)' = Plan(c) /\ Shown(c)' = Shown(c)
      /\ Todo(c)' = Todo(c) /\ Batch(c)' = Batch(c)
  BY <1>3, <1>4 DEF SameOp, Plan, Shown, Todo, Batch, Deltas, SettingDeltas
<1>10. OpInv(c)'
  BY <1>1, <1>2, <1>3, <1>4, <1>6, <1>9 DEF OpInv, ClientInv, SameOp, Executing, Running
<1>11. SessionInv(c)'
  BY <1>1, <1>2, <1>4, <1>9 DEF ClientInv, SessionInv, Running
<1> QED
  BY <1>2, <1>3, <1>4, <1>5, <1>6, <1>7, <1>8, <1>9, <1>10, <1>11 DEF SameOp

-----------------------------------------------------------------------------
(* The journal, step by step.                                              *)

(* Lines that neither attempt nor confirm a slot change neither.           *)
Quiet(l) == l.ok => l.event \notin {"write_attempt", "verify_result"}

LEMMA JournalUntouched ==
  ASSUME IInv, UNCHANGED <<disk, runs, touched>>
  PROVE  /\ KeepsSnapshots /\ Len(disk') = Len(disk) /\ JournalInv'
         /\ AttemptLog' = AttemptLog /\ ConfirmLog' = ConfirmLog /\ ChangeLog' = ChangeLog
<1>1. AttemptLog' = AttemptLog /\ ConfirmLog' = ConfirmLog
  BY DEF AttemptLog, ConfirmLog, Attempted, Confirmed, Lines
<1>2. ChangeLog' = ChangeLog
  BY DEF ChangeLog, Touched
<1>3. JournalInv'
  BY <1>1, <1>2 DEF IInv, JournalInv
<1>4. KeepsSnapshots /\ Len(disk') = Len(disk)
  BY DEF KeepsSnapshots, IInv, TypeOK
<1> QED
  BY <1>1, <1>2, <1>3, <1>4

LEMMA AtMostOne ==
  ASSUME NEW S, NEW x \in S, NEW lines \in {<<>>, <<x>>}
  PROVE  lines \in Seq(S)
<1>1. <<>> \in Seq(S) /\ <<x>> \in Seq(S)
  OBVIOUS
<1> QED
  BY <1>1

LEMMA QuietLine ==
  ASSUME IInv, NEW c \in Clients, job[c].journal \in DOMAIN disk,
         NEW line \in Records, Quiet(line), NEW lines \in {<<>>, <<line>>}, Log(c, lines),
         UNCHANGED <<runs, touched>>
  PROVE  /\ KeepsSnapshots /\ Len(disk') = Len(disk) /\ JournalInv'
         /\ AttemptLog' = AttemptLog /\ ConfirmLog' = ConfirmLog /\ ChangeLog' = ChangeLog
<1>1. lines \in Seq(Records)
  BY AtMostOne
<1>2. /\ KeepsSnapshots /\ Len(disk') = Len(disk)
      /\ \A r \in Nat : /\ AttemptLog'[r] = AttemptLog[r] \cup Named(lines, r, "write_attempt")
                        /\ ConfirmLog'[r] = ConfirmLog[r] \cup Named(lines, r, "verify_result")
  BY <1>1, LogAdds DEF IInv, TypeOK
<1>3. \A r \in Nat : /\ Named(lines, r, "write_attempt") = {}
                     /\ Named(lines, r, "verify_result") = {}
  BY NamedNone, NamedOne DEF Quiet
<1>4. AttemptLog' = AttemptLog /\ ConfirmLog' = ConfirmLog
  BY <1>2, <1>3 DEF AttemptLog, ConfirmLog
<1>5. ChangeLog' = ChangeLog
  BY DEF ChangeLog, Touched
<1>6. JournalInv'
  BY <1>4, <1>5 DEF IInv, JournalInv
<1> QED
  BY <1>2, <1>4, <1>5, <1>6

(* What an abort puts on record: of the lines before it, those that speak  *)
(* of a slot.                                                              *)
LEMMA AbortAdds ==
  ASSUME IInv, NEW c \in Clients, pc[c] \in Running,
         NEW line \in Records, line.run = job[c].run, NEW before \in {<<>>, <<line>>},
         NEW report, NEW fault, AbortAfter(c, before, report, fault)
  PROVE  /\ KeepsSnapshots /\ Len(disk') = Len(disk)
         /\ \A r \in Nat :
              /\ AttemptLog'[r] = AttemptLog[r] \cup Named(before, r, "write_attempt")
              /\ ConfirmLog'[r] = ConfirmLog[r] \cup Named(before, r, "verify_result")
         /\ \A r \in Nat, event \in {"write_attempt", "verify_result"} :
              Named(before, r, event) \subseteq
                IF r = job[c].run /\ line.event = event /\ ~Quiet(line) THEN {line.slot} ELSE {}
<1>1. job[c] \in Jobs /\ job[c].journal \in DOMAIN disk
  BY OneIsBusy DEF Running
<1> DEFINE closing == Line(c, "abort", job[c].at, FALSE)
<1>2. closing \in Records /\ Quiet(closing)
  <2>1. job[c].run \in Nat /\ job[c].at \in Nat
    BY <1>1, NumbersOfJob
  <2> QED
    BY <2>1 DEF Line, Records, Events, Quiet
<1> HIDE DEF closing
<1>3. PICK last \in {<<>>, <<closing>>} : Log(c, before \o last)
  BY DEF AbortAfter, closing
<1>4. before \in Seq(Records) /\ last \in Seq(Records) /\ before \o last \in Seq(Records)
  <2>1. before \in Seq(Records) /\ last \in Seq(Records)
    BY <1>2, AtMostOne
  <2> QED
    BY <2>1
<1>5. /\ KeepsSnapshots /\ Len(disk') = Len(disk)
      /\ \A r \in Nat :
           /\ AttemptLog'[r] = AttemptLog[r] \cup Named(before \o last, r, "write_attempt")
           /\ ConfirmLog'[r] = ConfirmLog[r] \cup Named(before \o last, r, "verify_result")
  BY <1>1, <1>3, <1>4, LogAdds DEF IInv, TypeOK
<1>6. ASSUME NEW r \in Nat, NEW event \in {"write_attempt", "verify_result"}
      PROVE  Named(before \o last, r, event) = Named(before, r, event)
  <2>1. Named(last, r, event) = {}
    BY <1>2, NamedNone, NamedOne DEF Quiet
  <2>2. Named(before \o last, r, event) = Named(before, r, event) \cup Named(last, r, event)
    BY <1>4, NamedBoth
  <2> QED
    BY <2>1, <2>2
<1>7. \A r \in Nat :
        /\ AttemptLog'[r] = AttemptLog[r] \cup Named(before, r, "write_attempt")
        /\ ConfirmLog'[r] = ConfirmLog[r] \cup Named(before, r, "verify_result")
  BY <1>5, <1>6
<1>8. \A r \in Nat, event \in {"write_attempt", "verify_result"} :
        Named(before, r, event) \subseteq
          IF r = job[c].run /\ line.event = event /\ ~Quiet(line) THEN {line.slot} ELSE {}
  BY NamedNone, NamedOne DEF Quiet
<1> QED
  BY <1>5, <1>7, <1>8

(* Wherever Execute aborts, what it has put on record, and what its report *)
(* says by then, is enough.                                                *)
LEMMA Aborts ==
  ASSUME IInv, NEW c \in Clients, pc[c] \in Running \ {"check", "sel"},
         NEW line \in Records, line.run = job[c].run, NEW before \in {<<>>, <<line>>},
         Quiet(line) \/ (line.slot = job[c].at /\ pc[c] = "attempt" /\ line.event = "write_attempt")
           \/ (line.slot = job[c].at /\ pc[c] = "verdict" /\ line.event = "verify_result"),
         NEW report \in Reports, NEW fault \in BOOLEAN,
         AbortAfter(c, before, report, fault),
         fault \/ (Quiet(line) /\ AttemptLog[job[c].run] = ConfirmLog[job[c].run]),
         ChangeLog[job[c].run] \subseteq report.verified \cup report.failed,
         \E s : report.failed \subseteq {s}, report.verified \subseteq report.written,
         UNCHANGED <<radioVars, serviceVars, cancelled, countVars, histVars>>
  PROVE  IInv'
<1>1. /\ ClientInv(c) /\ Executing(c) /\ job[c] \in Jobs /\ InRange(job[c])
      /\ job[c].journal \in DOMAIN disk
  BY OneIsBusy DEF Running
<1> DEFINE run == job[c].run
<1>2. run \in Nat /\ run = runs /\ runs # 0
  BY <1>1, NumbersOfJob DEF ClientInv, OpInv
<1>5. /\ KeepsSnapshots /\ Len(disk') = Len(disk)
      /\ \A r \in Nat :
           /\ AttemptLog'[r] = AttemptLog[r] \cup Named(before, r, "write_attempt")
           /\ ConfirmLog'[r] = ConfirmLog[r] \cup Named(before, r, "verify_result")
      /\ \A r \in Nat, event \in {"write_attempt", "verify_result"} :
           Named(before, r, event) \subseteq
             IF r = run /\ line.event = event /\ ~Quiet(line) THEN {line.slot} ELSE {}
  BY AbortAdds
<1>7. \A r \in Nat :
        /\ AttemptLog'[r] = AttemptLog[r] \cup Named(before, r, "write_attempt")
        /\ ConfirmLog'[r] = ConfirmLog[r] \cup Named(before, r, "verify_result")
  BY <1>5
<1>8. \A r \in Nat, event \in {"write_attempt", "verify_result"} :
        Named(before, r, event) \subseteq
          IF r = run /\ line.event = event /\ ~Quiet(line) THEN {line.slot} ELSE {}
  BY <1>5
<1>9. ChangeLog' = ChangeLog
  BY DEF histVars, ChangeLog, Touched
<1>10. JournalInv'
  <2>1. runs' = runs
    BY DEF countVars
  <2>2. ASSUME NEW r \in Nat
        PROVE  /\ r > runs => AttemptLog'[r] = {} /\ ConfirmLog'[r] = {}
               /\ ChangeLog[r] \subseteq AttemptLog'[r] /\ ConfirmLog'[r] \subseteq AttemptLog'[r]
               /\ \E s : AttemptLog'[r] \ ConfirmLog'[r] \subseteq {s}
    <3>0. /\ r > runs => AttemptLog[r] = {} /\ ConfirmLog[r] = {}
          /\ ChangeLog[r] \subseteq AttemptLog[r] /\ ConfirmLog[r] \subseteq AttemptLog[r]
          /\ \E s : AttemptLog[r] \ ConfirmLog[r] \subseteq {s}
      BY <2>2 DEF IInv, JournalInv
    <3>1. CASE r # run \/ Quiet(line)
      BY <1>7, <1>8, <3>0, <3>1
    <3>2. CASE r = run /\ ~Quiet(line) /\ pc[c] = "attempt"
      <4>1. AttemptLog[r] = ConfirmLog[r]
        BY <1>1, <3>2 DEF ClientInv, AttemptInv
      <4>2. AttemptLog'[r] \subseteq AttemptLog[r] \cup {job[c].at} /\ ConfirmLog'[r] = ConfirmLog[r]
        <5>1. line.event = "write_attempt" /\ line.slot = job[c].at
          BY <3>2
        <5>2. /\ Named(before, r, "write_attempt") \subseteq {job[c].at}
              /\ Named(before, r, "verify_result") = {}
          BY <1>8, <2>2, <5>1
        <5> QED
          BY <1>7, <2>2, <5>2
      <4> QED
        <5>1. AttemptLog[r] \subseteq AttemptLog'[r]
          BY <1>7, <2>2
        <5>2. AttemptLog'[r] \ ConfirmLog'[r] \subseteq {job[c].at}
          BY <4>1, <4>2
        <5>3. ~(r > runs)
          BY <1>2, <3>2
        <5>4. ChangeLog[r] \subseteq AttemptLog'[r] /\ ConfirmLog'[r] \subseteq AttemptLog'[r]
          BY <3>0, <4>2, <5>1
        <5> QED
          BY <5>2, <5>3, <5>4
    <3>3. CASE r = run /\ ~Quiet(line) /\ pc[c] = "verdict"
      <4>1. job[c].at \in AttemptLog[r] /\ AttemptLog[r] \ ConfirmLog[r] \subseteq {job[c].at}
        BY <1>1, <3>3 DEF ClientInv, AttemptInv, InPair
      <4>2. AttemptLog'[r] = AttemptLog[r] /\ ConfirmLog'[r] \subseteq ConfirmLog[r] \cup {job[c].at}
        <5>1. line.event = "verify_result" /\ line.slot = job[c].at
          BY <3>3
        <5>2. /\ Named(before, r, "verify_result") \subseteq {job[c].at}
              /\ Named(before, r, "write_attempt") = {}
          BY <1>8, <2>2, <5>1
        <5> QED
          BY <1>7, <2>2, <5>2
      <4> QED
        <5>1. ConfirmLog[r] \subseteq ConfirmLog'[r]
          BY <1>7, <2>2
        <5> QED
          BY <1>2, <3>0, <3>3, <4>1, <4>2, <5>1
    <3> QED
      BY <3>1, <3>2, <3>3
  <2> QED
    BY <1>9, <2>1, <2>2 DEF JournalInv
<1>11. fault \/ AttemptLog'[run] = ConfirmLog'[run]
  BY <1>2, <1>7, <1>8
<1> DEFINE j == [job[c] EXCEPT !.report = [report EXCEPT !.aborted = TRUE],
                               !.answer = "aborted", !.fault = fault]
<1>12. [report EXCEPT !.aborted = TRUE] \in Reports
  BY DEF Reports
<1>13. /\ j \in Jobs /\ SameOp(j, job[c]) /\ SameSeams(j, job[c])
       /\ j.report = [report EXCEPT !.aborted = TRUE] /\ j.answer = "aborted"
       /\ j.fault = fault
  BY <1>1, <1>12 DEF Jobs, SameOp, SameSeams
<1>14. Set(c, j) /\ Goto(c, Unwind(c)) /\ Unwind(c) \in {"restore", "return"}
  BY DEF AbortAfter, Unwind
<1> HIDE DEF j
<1>15. /\ mem' \in Memories /\ menu' \in [Items -> Values] /\ displaced' \subseteq Seams
       /\ strayed' \subseteq Slots /\ touched' \subseteq (1 .. runs) \X Slots
       /\ displaced' = displaced
  BY DEF IInv, TypeOK, radioVars, histVars
<1>16. /\ TypeOK' /\ LockInv' /\ PlanInv' /\ OpInv(c)' /\ SessionInv(c)'
       /\ \A d \in Clients \ {c} : ~Busy(d)'
       /\ pc'[c] = Unwind(c) /\ job'[c] = j /\ job'[c].run = run
  <2>1. pc[c] \in Running \cup {"restore"} /\ pc[c] # "check" /\ pc[c] # "restore"
    BY DEF Running
  <2> QED
    BY <1>5, <1>13, <1>14, <1>15, <2>1, ExecuteStep DEF SameOp
<1>17. LoopInv(c)' /\ DriftInv(c)' /\ FaultInv(c)' /\ ReportInv(c)'
  BY <1>14, <1>16 DEF LoopInv, DriftInv, FaultInv, ReportInv, Preparing, InDoubt, Visiting,
                      InLoop, InBatch, Running
<1>18. AttemptInv(c)'
  BY <1>11, <1>13, <1>14, <1>16 DEF AttemptInv, Preparing, InBatch, InPair
<1>19. AnswerInv(c)'
  <2>1. j.report.verified = report.verified /\ j.report.failed = report.failed
        /\ j.report.written = report.written
    BY <1>13 DEF Reports
  <2> QED
    BY <1>9, <1>13, <1>16, <2>1 DEF AnswerInv
<1>20. SeamInv(c)'
  <2>1. displaced \subseteq job[c].held \cup job[c].unheld
    BY <1>1 DEF ClientInv, SeamInv, Running, Preparing, InLoop, InBatch, IInv, TypeOK
  <2> QED
    BY <1>13, <1>14, <1>15, <1>16, <2>1
       DEF SeamInv, SameSeams, Unwind, Reading, Preparing, InLoop, InBatch
<1> QED
  BY <1>10, <1>16, <1>17, <1>18, <1>19, <1>20 DEF IInv, ClientInv

-----------------------------------------------------------------------------
(* Execute, up to the first write.                                         *)

(* The radio and the histories have their types after a step that leaves   *)
(* them alone.                                                             *)
LEMMA StillTyped ==
  ASSUME IInv
  PROVE  /\ UNCHANGED mem => mem' \in Memories
         /\ UNCHANGED menu => menu' \in [Items -> Values]
         /\ UNCHANGED displaced => displaced' \subseteq Seams
         /\ UNCHANGED strayed => strayed' \subseteq Slots
         /\ UNCHANGED touched => touched' \subseteq (1 .. runs) \X Slots
  BY DEF IInv, TypeOK

(* An abort between two slots.                                             *)
LEMMA AbortsBetween ==
  ASSUME IInv, NEW c \in Clients, pc[c] \in {"vfo", "slot", "settings"}, Abort(c),
         UNCHANGED <<radioVars, serviceVars, cancelled, countVars, histVars>>
  PROVE  IInv'
<1>1. /\ ClientInv(c) /\ job[c] \in Jobs
      /\ pc[c] \in Running \ {"check", "sel"}
      /\ pc[c] # "attempt" /\ pc[c] # "verdict"
  BY OneIsBusy DEF Running
<1> DEFINE line == Line(c, "abort", 0, FALSE)
<1>2. line \in Records /\ line.run = job[c].run /\ Quiet(line)
  <2>1. job[c].run \in Nat
    BY <1>1 DEF Jobs
  <2> QED
    BY <2>1 DEF Line, Records, Events, Quiet
<1> HIDE DEF line
<1>3. job[c].report \in Reports /\ job[c].fault \in BOOLEAN
  BY <1>1 DEF Jobs
<1>4. AttemptLog[job[c].run] = ConfirmLog[job[c].run]
  BY <1>1 DEF ClientInv, AttemptInv, Preparing, InBatch
<1>5. /\ ChangeLog[job[c].run] \subseteq job[c].report.verified
      /\ job[c].report.failed = {}
      /\ job[c].report.verified \subseteq job[c].report.written
  BY <1>1 DEF ClientInv, ReportInv, Running, InDoubt
<1>6. AbortAfter(c, <<>>, job[c].report, job[c].fault)
  BY DEF Abort
<1>7. /\ ChangeLog[job[c].run] \subseteq job[c].report.verified \cup job[c].report.failed
      /\ \E s : job[c].report.failed \subseteq {s}
  BY <1>5
<1> QED
  BY <1>1, <1>2, <1>3, <1>4, <1>5, <1>6, <1>7, Aborts

LEMMA AcceptPlanKeeps ==
  ASSUME IInv, NEW c \in Clients, AcceptPlan(c)
  PROVE  IInv'
<1>1. pc[c] = "check"
  BY DEF AcceptPlan
<1>2. ClientInv(c) /\ Executing(c) /\ job[c] \in Jobs
  BY <1>1, OneIsBusy DEF Running
<1>3. Todo(c) \subseteq Slots /\ Batch(c) \subseteq Items
  BY DEF Todo, Batch, Deltas, SettingDeltas
<1>4. PICK l \in {"settings", "vfo"}, left \in {Todo(c), Batch(c)} :
        /\ Goto(c, l) /\ Set(c, [job[c] EXCEPT !.left = left])
        /\ l = "settings" => left = Batch(c) /\ Todo(c) = {}
        /\ l = "vfo" => left = Todo(c) /\ Todo(c) # {}
  BY DEF AcceptPlan, Todo, Batch
<1> DEFINE j == [job[c] EXCEPT !.left = left]
<1>5. /\ j \in Jobs /\ SameOp(j, job[c]) /\ SameReport(j, job[c]) /\ SameSeams(j, job[c])
      /\ j.left = left
  BY <1>2, <1>3 DEF Jobs, SameOp, SameReport, SameSeams
<1> HIDE DEF j
<1>6. /\ UNCHANGED <<mem, menu, displaced, disk, runs, strayed, touched>>
      /\ UNCHANGED <<serviceVars, cancelled, countVars>> /\ UNCHANGED <<plans, generation>>
  BY DEF AcceptPlan, radioVars, serviceVars, countVars, histVars
<1>7. /\ KeepsSnapshots /\ Len(disk') = Len(disk) /\ JournalInv'
      /\ AttemptLog' = AttemptLog /\ ConfirmLog' = ConfirmLog /\ ChangeLog' = ChangeLog
  BY <1>6, JournalUntouched
<1>8. SessionInv(c)'
  <2>1. job'[c] = j
    BY <1>4, <1>5, SetJob DEF j, IInv
  <2>2. Plan(c)' = Plan(c) /\ Shown(c)' = Shown(c)
    BY <1>5, <1>6, <2>1 DEF Plan, Shown, SameOp
  <2>3. /\ Plan(c).generation = generation
        /\ Plan(c).baseline = Shown(c).baseline /\ Plan(c).candidate = Shown(c).candidate
    BY DEF AcceptPlan, SameSession, Confirms, ConfirmationDigest
  <2> QED
    BY <1>6, <2>2, <2>3 DEF SessionInv
<1>9. /\ TypeOK' /\ LockInv' /\ PlanInv' /\ OpInv(c)'
      /\ \A d \in Clients \ {c} : ~Busy(d)'
      /\ Todo(c)' = Todo(c) /\ Batch(c)' = Batch(c)
      /\ pc'[c] = l /\ job'[c] = j /\ job'[c].run = job[c].run
  <2>1. l \in (Running \ {"check"}) \cup {"restore", "return"} /\ pc[c] \in Running
    BY <1>1 DEF Running
  <2>2. Set(c, j)
    BY <1>4 DEF j
  <2> QED
    BY <1>1, <1>4, <1>5, <1>6, <1>7, <1>8, <2>1, <2>2, StillTyped, ExecuteStep
<1>10. LoopInv(c)' /\ DriftInv(c)' /\ FaultInv(c)'
  BY <1>4, <1>5, <1>9 DEF LoopInv, DriftInv, FaultInv, InLoop, Visiting, InBatch
<1>11. AttemptInv(c)'
  BY <1>1, <1>2, <1>7, <1>9 DEF ClientInv, AttemptInv, Preparing, InPair, InBatch, Ending
<1>12. ReportInv(c)' /\ AnswerInv(c)'
  BY <1>1, <1>2, <1>4, <1>5, <1>7, <1>9
     DEF ClientInv, ReportInv, AnswerInv, SameReport, Preparing, InLoop, InBatch, InDoubt,
         Running, Ending
<1>13. SeamInv(c)'
  BY <1>1, <1>2, <1>5, <1>6, <1>9
     DEF ClientInv, SeamInv, SameSeams, Reading, Preparing, InLoop, InBatch
<1> QED
  BY <1>7, <1>8, <1>9, <1>10, <1>11, <1>12, <1>13 DEF IInv, ClientInv

-----------------------------------------------------------------------------
(* Execute, the snapshots and the verify-read.                             *)

LEMMA SnapshotVFOKeeps ==
  ASSUME IInv, NEW c \in Clients, SnapshotVFO(c)
  PROVE  IInv'
<1>1. pc[c] = "vfo" /\ UNCHANGED <<radioVars, serviceVars, cancelled, countVars, histVars>>
  BY DEF SnapshotVFO
<1>2. CASE Abort(c)
  BY <1>1, <1>2, AbortsBetween
<1>3. CASE ~Abort(c)
  <2>1. /\ Goto(c, "sel") /\ Set(c, [job[c] EXCEPT !.held = {"vfo"} \cap Seams])
        /\ UNCHANGED disk
    BY <1>3 DEF SnapshotVFO
  <2>2. ClientInv(c) /\ Executing(c) /\ job[c] \in Jobs
    BY <1>1, OneIsBusy DEF Running
  <2> DEFINE j == [job[c] EXCEPT !.held = {"vfo"} \cap Seams]
  <2>3. /\ j \in Jobs /\ SameOp(j, job[c]) /\ SameLoop(j, job[c]) /\ SameReport(j, job[c])
        /\ j.held = {"vfo"} \cap Seams /\ j.unheld = job[c].unheld
    BY <2>2 DEF Jobs, SameOp, SameLoop, SameReport
  <2>4. Set(c, j)
    BY <2>1
  <2> HIDE DEF j
  <2>5. UNCHANGED <<mem, menu, displaced, runs, strayed, touched>>
    BY <1>1 DEF radioVars, countVars, histVars
  <2>6. /\ KeepsSnapshots /\ Len(disk') = Len(disk) /\ JournalInv'
        /\ AttemptLog' = AttemptLog /\ ConfirmLog' = ConfirmLog /\ ChangeLog' = ChangeLog
    BY <2>1, <2>5, JournalUntouched
  <2>7. /\ TypeOK' /\ LockInv' /\ PlanInv' /\ OpInv(c)' /\ SessionInv(c)'
        /\ \A d \in Clients \ {c} : ~Busy(d)'
        /\ Todo(c)' = Todo(c) /\ pc'[c] = "sel" /\ job'[c] = j /\ job'[c].run = job[c].run
    <3>1. "sel" \in (Running \ {"check"}) \cup {"restore", "return"} /\ pc[c] \in Running
      BY <1>1 DEF Running
    <3> QED
      BY <1>1, <2>1, <2>3, <2>4, <2>5, <2>6, <3>1, StillTyped, ExecuteStep
  <2>8. LoopInv(c)' /\ DriftInv(c)' /\ FaultInv(c)'
    BY <1>1, <2>2, <2>3, <2>7
       DEF ClientInv, LoopInv, DriftInv, FaultInv, SameLoop, InLoop, Visiting, InBatch
  <2>9. AttemptInv(c)'
    BY <1>1, <2>2, <2>6, <2>7 DEF ClientInv, AttemptInv, Preparing, InPair, InBatch, Ending
  <2>10. ReportInv(c)' /\ AnswerInv(c)'
    BY <1>1, <2>2, <2>3, <2>6, <2>7
       DEF ClientInv, ReportInv, AnswerInv, SameReport, Preparing, InLoop, InBatch, InDoubt,
           Running, Ending
  <2>11. SeamInv(c)'
    BY <1>1, <2>2, <2>3, <2>5, <2>7
       DEF ClientInv, SeamInv, Reading, Preparing, InLoop, InBatch
  <2> QED
    BY <2>6, <2>7, <2>8, <2>9, <2>10, <2>11 DEF IInv, ClientInv
<1> QED
  BY <1>2, <1>3

LEMMA SnapshotSelectionKeeps ==
  ASSUME IInv, NEW c \in Clients, SnapshotSelection(c)
  PROVE  IInv'
<1>1. /\ pc[c] = "sel" /\ UNCHANGED <<serviceVars, cancelled, countVars>>
      /\ UNCHANGED <<mem, menu, displaced, disk, runs, strayed, touched>>
  BY DEF SnapshotSelection, radioVars, countVars, histVars
<1>2. ClientInv(c) /\ Executing(c) /\ job[c] \in Jobs
  BY <1>1, OneIsBusy DEF Running
<1>3. PICK held \in SUBSET Seams, unheld \in SUBSET Seams :
        /\ Goto(c, "slot") /\ Set(c, [job[c] EXCEPT !.held = held, !.unheld = unheld])
        /\ Seams \subseteq held \cup unheld
  <2>1. job[c].held = {"vfo"} \cap Seams /\ job[c].unheld = {}
    BY <1>1, <1>2 DEF ClientInv, SeamInv, Preparing
  <2>2. CASE Set(c, [job[c] EXCEPT !.held = @ \cup ({"sel"} \cap Seams)])
    <3> DEFINE held == job[c].held \cup ({"sel"} \cap Seams)
    <3>1. [job[c] EXCEPT !.held = held] = [job[c] EXCEPT !.held = held, !.unheld = {}]
      BY <1>2, <2>1 DEF Jobs
    <3>2. held \in SUBSET Seams /\ {} \in SUBSET Seams /\ Seams \subseteq held \cup {}
      BY <2>1, CloneAssumption
    <3> QED
      BY <2>2, <3>1, <3>2 DEF SnapshotSelection
  <2>3. CASE Set(c, [job[c] EXCEPT !.unheld = {"sel"} \cap Seams])
    <3> DEFINE unheld == {"sel"} \cap Seams
    <3>1. [job[c] EXCEPT !.unheld = unheld]
            = [job[c] EXCEPT !.held = job[c].held, !.unheld = unheld]
      BY <1>2 DEF Jobs
    <3>2. job[c].held \in SUBSET Seams /\ unheld \in SUBSET Seams
          /\ Seams \subseteq job[c].held \cup unheld
      BY <2>1, CloneAssumption
    <3> QED
      BY <2>3, <3>1, <3>2 DEF SnapshotSelection
  <2> QED
    BY <2>2, <2>3 DEF SnapshotSelection
<1> DEFINE j == [job[c] EXCEPT !.held = held, !.unheld = unheld]
<1>4. /\ j \in Jobs /\ SameOp(j, job[c]) /\ SameLoop(j, job[c]) /\ SameReport(j, job[c])
      /\ j.held = held /\ j.unheld = unheld
  BY <1>2 DEF Jobs, SameOp, SameLoop, SameReport
<1>5. Set(c, j)
  BY <1>3
<1> HIDE DEF j
<1>6. /\ KeepsSnapshots /\ Len(disk') = Len(disk) /\ JournalInv'
      /\ AttemptLog' = AttemptLog /\ ConfirmLog' = ConfirmLog /\ ChangeLog' = ChangeLog
  BY <1>1, JournalUntouched
<1>7. /\ TypeOK' /\ LockInv' /\ PlanInv' /\ OpInv(c)' /\ SessionInv(c)'
      /\ \A d \in Clients \ {c} : ~Busy(d)'
      /\ Todo(c)' = Todo(c) /\ pc'[c] = "slot" /\ job'[c] = j /\ job'[c].run = job[c].run
  <2>1. "slot" \in (Running \ {"check"}) \cup {"restore", "return"} /\ pc[c] \in Running
    BY <1>1 DEF Running
  <2> QED
    BY <1>1, <1>3, <1>4, <1>5, <1>6, <2>1, StillTyped, ExecuteStep
<1>8. LoopInv(c)' /\ DriftInv(c)' /\ FaultInv(c)'
  BY <1>1, <1>2, <1>4, <1>7
     DEF ClientInv, LoopInv, DriftInv, FaultInv, SameLoop, InLoop, Visiting, InBatch
<1>9. AttemptInv(c)'
  BY <1>1, <1>2, <1>6, <1>7 DEF ClientInv, AttemptInv, Preparing, InPair, InBatch, Ending
<1>10. ReportInv(c)' /\ AnswerInv(c)'
  BY <1>1, <1>2, <1>4, <1>6, <1>7
     DEF ClientInv, ReportInv, AnswerInv, LoopInv, SameReport, SameLoop, Preparing, InLoop,
         InBatch, InDoubt, Running, Ending
<1>11. SeamInv(c)'
  BY <1>1, <1>2, <1>3, <1>4, <1>7
     DEF SeamInv, Reading, Preparing, InLoop, InBatch
<1> QED
  BY <1>6, <1>7, <1>8, <1>9, <1>10, <1>11 DEF IInv, ClientInv

LEMMA StoppedKeeps ==
  ASSUME IInv, NEW c \in Clients, Stopped(c)
  PROVE  IInv'
  BY AbortsBetween DEF Stopped

LEMMA VerifyReadAbortsKeeps ==
  ASSUME IInv, NEW c \in Clients, VerifyReadAborts(c)
  PROVE  IInv'
  BY AbortsBetween DEF VerifyReadAborts

LEMMA VerifyReadKeeps ==
  ASSUME IInv, NEW c \in Clients, VerifyRead(c)
  PROVE  IInv'
<1>1. /\ pc[c] = "slot" /\ UNCHANGED <<serviceVars, cancelled, countVars>>
      /\ UNCHANGED <<mem, menu, displaced, disk, runs, touched>>
  BY DEF VerifyRead, radioVars, countVars
<1>2. ClientInv(c) /\ Executing(c) /\ job[c] \in Jobs
  BY <1>1, OneIsBusy DEF Running
<1> DEFINE s == Min(job[c].left)
<1>3. s \in job[c].left /\ s \in Slots
  <2>1. job[c].left # {} /\ job[c].left \subseteq Todo(c) /\ Todo(c) \subseteq Slots
    BY <1>1, <1>2 DEF ClientInv, LoopInv, InLoop, Todo, Deltas
  <2> QED
    BY <2>1, MinIsMember, Numbered
<1>4. /\ mem[s] = Plan(c).baseline[s] /\ strayed' = strayed \ {s}
      /\ Goto(c, "attempt") /\ Set(c, [job[c] EXCEPT !.at = s])
  BY DEF VerifyRead, Drifted
<1> HIDE DEF s
<1> DEFINE j == [job[c] EXCEPT !.at = s]
<1>5. /\ j \in Jobs /\ SameOp(j, job[c]) /\ SameReport(j, job[c]) /\ SameSeams(j, job[c])
      /\ j.left = job[c].left /\ j.at = s
  BY <1>2, <1>3 DEF Jobs, SameOp, SameReport, SameSeams
<1>6. Set(c, j) /\ strayed' \subseteq Slots
  BY <1>4 DEF IInv, TypeOK
<1> HIDE DEF j
<1>7. /\ KeepsSnapshots /\ Len(disk') = Len(disk) /\ JournalInv'
      /\ AttemptLog' = AttemptLog /\ ConfirmLog' = ConfirmLog /\ ChangeLog' = ChangeLog
  BY <1>1, JournalUntouched
<1>8. /\ TypeOK' /\ LockInv' /\ PlanInv' /\ OpInv(c)' /\ SessionInv(c)'
      /\ \A d \in Clients \ {c} : ~Busy(d)'
      /\ Plan(c)' = Plan(c) /\ Todo(c)' = Todo(c)
      /\ pc'[c] = "attempt" /\ job'[c] = j /\ job'[c].run = job[c].run
  <2>1. "attempt" \in (Running \ {"check"}) \cup {"restore", "return"} /\ pc[c] \in Running
    BY <1>1 DEF Running
  <2> QED
    BY <1>1, <1>4, <1>5, <1>6, <1>7, <2>1, StillTyped, ExecuteStep
<1>9. LoopInv(c)' /\ FaultInv(c)'
  BY <1>1, <1>2, <1>3, <1>5, <1>8
     DEF ClientInv, LoopInv, FaultInv, InLoop, Visiting, InBatch
<1>10. DriftInv(c)'
  BY <1>1, <1>4, <1>5, <1>8 DEF DriftInv
<1>11. AttemptInv(c)'
  BY <1>1, <1>2, <1>7, <1>8 DEF ClientInv, AttemptInv, Preparing, InPair, InBatch, Ending
<1>12. ReportInv(c)' /\ AnswerInv(c)'
  BY <1>1, <1>2, <1>5, <1>7, <1>8
     DEF ClientInv, ReportInv, AnswerInv, SameReport, Preparing, InLoop, InBatch, InDoubt,
         Running, Ending
<1>13. SeamInv(c)'
  BY <1>1, <1>2, <1>5, <1>8 DEF ClientInv, SeamInv, SameSeams, Reading, Preparing, InLoop, InBatch
<1> QED
  BY <1>7, <1>8, <1>9, <1>10, <1>11, <1>12, <1>13 DEF IInv, ClientInv

-----------------------------------------------------------------------------
(* Execute, a write and its verification.                                  *)

LEMMA JournalAttemptKeeps ==
  ASSUME IInv, NEW c \in Clients, JournalAttempt(c)
  PROVE  IInv'
<1>1. pc[c] = "attempt" /\ UNCHANGED <<radioVars, serviceVars, cancelled, countVars, histVars>>
  BY DEF JournalAttempt
<1>2. /\ ClientInv(c) /\ Executing(c) /\ job[c] \in Jobs /\ job[c].journal \in DOMAIN disk
      /\ pc[c] \in Running \ {"check", "sel"}
  BY <1>1, OneIsBusy DEF Running
<1> DEFINE line == Line(c, "write_attempt", job[c].at, TRUE)
           run  == job[c].run
           at   == job[c].at
<1>3. /\ line \in Records /\ line.run = run /\ line.slot = at
      /\ line.event = "write_attempt" /\ line.ok = TRUE
  <2>1. job[c].run \in Nat /\ job[c].at \in Nat
    BY <1>2, NumbersOfJob
  <2> QED
    BY <2>1 DEF Line, Records, Events
<1>4. run \in Nat /\ run = runs /\ runs' = runs
  BY <1>1, <1>2 DEF countVars, Jobs, ClientInv, OpInv
<1>5. /\ ChangeLog[run] \subseteq job[c].report.verified
      /\ job[c].report.failed = {} /\ job[c].report.verified \subseteq job[c].report.written
      /\ AttemptLog[run] = ConfirmLog[run]
  BY <1>1, <1>2 DEF ClientInv, ReportInv, AttemptInv, Running, InDoubt
<1>6. CASE AbortUnlogged(c, line, job[c].report)
  <2> HIDE DEF line
  <2>1. PICK lost \in {<<>>, <<line>>} : AbortAfter(c, lost, job[c].report, TRUE)
    BY <1>6 DEF AbortUnlogged
  <2>2. /\ ChangeLog[run] \subseteq job[c].report.verified \cup job[c].report.failed
        /\ \E s : job[c].report.failed \subseteq {s}
        /\ job[c].report \in Reports
    BY <1>2, <1>5 DEF Jobs
  <2> QED
    BY <1>1, <1>2, <1>3, <1>5, <2>1, <2>2, Aborts
<1>7. CASE Log(c, <<line>>) /\ Goto(c, "write") /\ UNCHANGED job
  <2> HIDE DEF line
  <2>1. /\ KeepsSnapshots /\ Len(disk') = Len(disk)
        /\ \A r \in Nat :
             /\ AttemptLog'[r] = AttemptLog[r] \cup Named(<<line>>, r, "write_attempt")
             /\ ConfirmLog'[r] = ConfirmLog[r] \cup Named(<<line>>, r, "verify_result")
    <3>1. <<line>> \in Seq(Records)
      BY <1>3
    <3> QED
      BY <1>2, <1>7, <3>1, LogAdds DEF IInv, TypeOK
  <2>2. \A r \in Nat : /\ Named(<<line>>, r, "verify_result") = {}
                       /\ Named(<<line>>, r, "write_attempt") = IF r = run THEN {at} ELSE {}
    BY <1>3, NamedOne
  <2>3. /\ \A r \in Nat \ {run} : AttemptLog'[r] = AttemptLog[r]
        /\ \A r \in Nat : ConfirmLog'[r] = ConfirmLog[r]
        /\ AttemptLog'[run] = AttemptLog[run] \cup {at}
    BY <1>4, <2>1, <2>2
  <2>4. UNCHANGED <<mem, menu, displaced, strayed, touched>> /\ ChangeLog' = ChangeLog
    BY <1>1 DEF radioVars, histVars, ChangeLog, Touched
  <2>5. at \in AttemptLog'[run] /\ AttemptLog'[run] \ ConfirmLog'[run] \subseteq {at}
    BY <1>4, <1>5, <2>3
  <2>6. JournalInv'
    <3>1. ASSUME NEW r \in Nat
          PROVE  /\ r > runs => AttemptLog'[r] = {} /\ ConfirmLog'[r] = {}
                 /\ ChangeLog[r] \subseteq AttemptLog'[r] /\ ConfirmLog'[r] \subseteq AttemptLog'[r]
                 /\ \E s : AttemptLog'[r] \ ConfirmLog'[r] \subseteq {s}
      <4>1. /\ r > runs => AttemptLog[r] = {} /\ ConfirmLog[r] = {}
            /\ ChangeLog[r] \subseteq AttemptLog[r] /\ ConfirmLog[r] \subseteq AttemptLog[r]
            /\ \E s : AttemptLog[r] \ ConfirmLog[r] \subseteq {s}
        BY <3>1 DEF IInv, JournalInv
      <4>2. CASE r = run
        BY <1>4, <2>3, <2>5, <4>1, <4>2
      <4>3. CASE r # run
        BY <2>3, <4>1, <4>3
      <4> QED
        BY <4>2, <4>3
    <3> QED
      BY <1>4, <2>4, <3>1 DEF JournalInv
  <2>7. Set(c, job[c])
    BY <1>7 DEF Set, IInv, TypeOK
  <2>8. /\ TypeOK' /\ LockInv' /\ PlanInv' /\ OpInv(c)' /\ SessionInv(c)'
        /\ \A d \in Clients \ {c} : ~Busy(d)'
        /\ Plan(c)' = Plan(c) /\ Todo(c)' = Todo(c)
        /\ pc'[c] = "write" /\ job'[c] = job[c]
    <3>1. "write" \in (Running \ {"check"}) \cup {"restore", "return"} /\ pc[c] \in Running
      BY <1>1 DEF Running
    <3> QED
      BY <1>1, <1>2, <1>7, <2>1, <2>4, <2>7, <3>1, StillTyped, ExecuteStep DEF SameOp
  <2>9. LoopInv(c)' /\ FaultInv(c)'
    BY <1>1, <1>2, <2>8 DEF ClientInv, LoopInv, FaultInv, InLoop, Visiting, InBatch
  <2>10. DriftInv(c)'
    BY <1>1, <1>2, <2>4, <2>8 DEF ClientInv, DriftInv
  <2>11. AttemptInv(c)'
    BY <2>5, <2>8 DEF AttemptInv, Preparing, InPair, InBatch, Ending
  <2>12. ReportInv(c)' /\ AnswerInv(c)'
    BY <1>1, <1>2, <2>4, <2>8
       DEF ClientInv, ReportInv, AnswerInv, Preparing, InLoop, InBatch, InDoubt, Running, Ending
  <2>13. SeamInv(c)'
    BY <1>1, <1>2, <2>8 DEF ClientInv, SeamInv, Reading, Preparing, InLoop, InBatch
  <2> QED
    BY <2>6, <2>8, <2>9, <2>10, <2>11, <2>12, <2>13 DEF IInv, ClientInv
<1> QED
  BY <1>6, <1>7 DEF JournalAttempt

LEMMA WriteChannelKeeps ==
  ASSUME IInv, NEW c \in Clients, WriteChannel(c)
  PROVE  IInv'
<1> DEFINE run == job[c].run
           s   == job[c].at
<1>1. /\ pc[c] = "write" /\ Goto(c, "result")
      /\ UNCHANGED <<serviceVars, cancelled, countVars>>
      /\ UNCHANGED <<menu, disk, strayed>> /\ displaced' = displaced \cup Seams
  BY DEF WriteChannel
<1>2. ClientInv(c) /\ Executing(c) /\ job[c] \in Jobs
  BY <1>1, OneIsBusy DEF Running
<1>3. s \in job[c].left /\ s \in Slots /\ Wanted(c) \in Contents
  <2>1. s \in job[c].left /\ job[c].left \subseteq Todo(c) /\ Todo(c) \subseteq Slots
    BY <1>1, <1>2 DEF ClientInv, LoopInv, InLoop, Visiting, Todo, Deltas
  <2>2. Plan(c) \in PlanSet
    BY <1>2 DEF ClientInv, OpInv, Plan, IInv, TypeOK
  <2> QED
    BY <2>1, <2>2 DEF Wanted, PlanSet, Memories
<1>4. PICK landed \in {mem[s], Wanted(c), Mangled}, result \in {"sent", "error"}, fault \in BOOLEAN :
        /\ mem' = [mem EXCEPT ![s] = landed]
        /\ touched' = IF landed = mem[s] THEN touched ELSE touched \cup {<<run, s>>}
        /\ Set(c, [job[c] EXCEPT !.result = result, !.fault = fault])
        /\ result # "sent" => fault
  <2>1. PICK landed \in {mem[s], Wanted(c), Mangled}, ok \in BOOLEAN :
          /\ mem' = [mem EXCEPT ![s] = landed]
          /\ touched' = IF landed = mem[s] THEN touched ELSE touched \cup {<<run, s>>}
          /\ Set(c, [job[c] EXCEPT !.result = IF ok THEN "sent" ELSE "error",
                                  !.fault = @ \/ ~ok \/ landed # Wanted(c)])
    BY DEF WriteChannel
  <2> DEFINE result == IF ok THEN "sent" ELSE "error"
             fault  == job[c].fault \/ ~ok \/ landed # Wanted(c)
  <2>2. result \in {"sent", "error"} /\ fault \in BOOLEAN /\ (result # "sent" => fault)
    OBVIOUS
  <2> QED
    BY <2>1, <2>2
<1> DEFINE j == [job[c] EXCEPT !.result = result, !.fault = fault]
<1>5. /\ j \in Jobs /\ SameOp(j, job[c]) /\ SameLoop(j, job[c]) /\ SameReport(j, job[c])
      /\ SameSeams(j, job[c]) /\ j.result = result /\ j.fault = fault
  BY <1>2 DEF Jobs, SameOp, SameLoop, SameReport, SameSeams
<1>6. Set(c, j)
  BY <1>4
<1> HIDE DEF j
<1>7. run \in Nat /\ run = runs /\ runs' = runs /\ runs # 0 /\ runs \in Nat
  BY <1>1, <1>2 DEF countVars, Jobs, ClientInv, OpInv, IInv, TypeOK
<1>8. /\ mem' \in Memories /\ displaced' \subseteq Seams
      /\ touched' \subseteq (1 .. runs) \X Slots
  BY <1>1, <1>3, <1>4, <1>7, CloneAssumption DEF IInv, TypeOK, Memories
<1>9. /\ KeepsSnapshots /\ Len(disk') = Len(disk)
      /\ AttemptLog' = AttemptLog /\ ConfirmLog' = ConfirmLog
  BY <1>1 DEF KeepsSnapshots, IInv, TypeOK, AttemptLog, ConfirmLog, Attempted, Confirmed, Lines
<1>10. \A r \in Nat : ChangeLog'[r] \subseteq ChangeLog[r] \cup (IF r = run THEN {s} ELSE {})
  BY <1>4 DEF ChangeLog, Touched
<1>11. s \in AttemptLog[run] /\ AttemptLog[run] \ ConfirmLog[run] \subseteq {s}
  BY <1>1, <1>2 DEF ClientInv, AttemptInv, InPair
<1>12. JournalInv'
  <2>1. \A r \in Nat : ChangeLog'[r] \subseteq AttemptLog[r]
    <3> TAKE r \in Nat
    <3>1. ChangeLog[r] \subseteq AttemptLog[r]
      BY DEF IInv, JournalInv
    <3> QED
      BY <1>10, <1>11, <3>1
  <2> QED
    BY <1>7, <1>9, <2>1 DEF IInv, JournalInv
<1>13. /\ TypeOK' /\ LockInv' /\ PlanInv' /\ OpInv(c)' /\ SessionInv(c)'
       /\ \A d \in Clients \ {c} : ~Busy(d)'
       /\ Todo(c)' = Todo(c) /\ pc'[c] = "result" /\ job'[c] = j /\ job'[c].run = run
  <2>1. "result" \in (Running \ {"check"}) \cup {"restore", "return"} /\ pc[c] \in Running
    BY <1>1 DEF Running
  <2> QED
    BY <1>1, <1>5, <1>6, <1>8, <1>9, <2>1, StillTyped, ExecuteStep
<1>14. LoopInv(c)' /\ DriftInv(c)'
  BY <1>1, <1>2, <1>5, <1>13
     DEF ClientInv, LoopInv, DriftInv, SameLoop, InLoop, Visiting, InBatch
<1>15. FaultInv(c)'
  BY <1>4, <1>5, <1>13 DEF FaultInv
<1>16. AttemptInv(c)'
  BY <1>5, <1>9, <1>11, <1>13 DEF AttemptInv, SameLoop, Preparing, InPair, InBatch, Ending
<1>17. ReportInv(c)' /\ AnswerInv(c)'
  <2>1. /\ job[c].report.verified = Todo(c) \ job[c].left /\ job[c].report.failed = {}
        /\ job[c].report.verified \subseteq job[c].report.written
        /\ ChangeLog[run] \subseteq job[c].report.verified
    BY <1>1, <1>2 DEF ClientInv, ReportInv, InLoop, Running, InDoubt
  <2>2. ChangeLog'[run] \subseteq job[c].report.verified \cup {s}
    BY <1>7, <1>10, <2>1
  <2>3. ReportInv(c)'
    BY <1>5, <1>13, <2>1, <2>2
       DEF ReportInv, SameReport, SameLoop, Preparing, InLoop, InBatch, InDoubt, Running
  <2>4. AnswerInv(c)'
    BY <1>13 DEF AnswerInv, Ending
  <2> QED
    BY <2>3, <2>4
<1>18. SeamInv(c)'
  BY <1>1, <1>2, <1>5, <1>13
     DEF ClientInv, SeamInv, SameSeams, Reading, Preparing, InLoop, InBatch
<1> QED
  BY <1>12, <1>13, <1>14, <1>15, <1>16, <1>17, <1>18 DEF IInv, ClientInv

-----------------------------------------------------------------------------
(* Execute, what is made of a write.                                       *)

(* A slot in the pair, and its report.                                     *)
LEMMA InTheLoop ==
  ASSUME IInv, NEW c \in Clients, pc[c] \in InLoop
  PROVE  /\ ClientInv(c) /\ Executing(c) /\ job[c] \in Jobs /\ job[c].journal \in DOMAIN disk
         /\ pc[c] \in Running \ {"check", "sel"}
         /\ job[c].left \subseteq Todo(c) /\ Todo(c) \subseteq Slots
         /\ pc[c] \in Visiting => job[c].at \in job[c].left /\ job[c].at \in Slots
         /\ job[c].report \in Reports
         /\ job[c].report.verified = Todo(c) \ job[c].left
         /\ job[c].report.verified \subseteq job[c].report.written
         /\ job[c].run \in Nat /\ job[c].run = runs
<1>1. /\ ClientInv(c) /\ Executing(c) /\ job[c] \in Jobs /\ job[c].journal \in DOMAIN disk
      /\ pc[c] \in Running \ {"check", "sel"}
  BY OneIsBusy DEF Running, InLoop
<1>2. /\ job[c].left \subseteq Todo(c) /\ Todo(c) \subseteq Slots
      /\ pc[c] \in Visiting => job[c].at \in job[c].left
  BY <1>1 DEF ClientInv, LoopInv, Todo, Deltas
<1>3. /\ job[c].report.verified = Todo(c) \ job[c].left
      /\ job[c].report.verified \subseteq job[c].report.written
  BY <1>1 DEF ClientInv, ReportInv
<1>4. job[c].report \in Reports
  BY <1>1 DEF Jobs
<1>5. job[c].run \in Nat /\ job[c].run = runs
  BY <1>1, NumbersOfJob DEF ClientInv, OpInv
<1> QED
  BY <1>1, <1>2, <1>3, <1>4, <1>5

LEMMA JournalResultKeeps ==
  ASSUME IInv, NEW c \in Clients, JournalResult(c)
  PROVE  IInv'
<1> DEFINE run == job[c].run
           at  == job[c].at
           line == Line(c, "write_result", at, job[c].result = "sent")
           counted == IF job[c].result = "sent" THEN Written(c) ELSE job[c].report
           blamed == Blamed(counted, c)
<1>1. /\ pc[c] = "result" /\ UNCHANGED <<serviceVars, cancelled, countVars>>
      /\ UNCHANGED <<mem, menu, displaced, runs, strayed, touched>>
  BY DEF JournalResult, radioVars, countVars, histVars
<1>2. /\ ClientInv(c) /\ Executing(c) /\ job[c] \in Jobs /\ job[c].journal \in DOMAIN disk
      /\ at \in job[c].left /\ at \in Slots /\ job[c].report \in Reports
      /\ job[c].report.verified = Todo(c) \ job[c].left
      /\ job[c].report.verified \subseteq job[c].report.written
      /\ run \in Nat
  BY <1>1, InTheLoop DEF InLoop, Visiting
<1>3. line \in Records /\ Quiet(line)
  <2>1. run \in Nat /\ at \in Nat
    BY <1>2, NumbersOfJob
  <2> QED
    BY <2>1 DEF Line, Records, Events, Quiet
<1>4. /\ counted \in Reports /\ counted.verified = job[c].report.verified
      /\ counted.failed = job[c].report.failed
      /\ job[c].report.written \subseteq counted.written
      /\ job[c].result = "sent" => at \in counted.written
  BY <1>2 DEF Written, Reports
<1>5. /\ job[c].report.failed = {} /\ ChangeLog[run] \subseteq job[c].report.verified \cup {at}
      /\ job[c].result # "sent" => job[c].fault
  BY <1>1, <1>2 DEF ClientInv, ReportInv, FaultInv, Running, InDoubt
<1> HIDE DEF line, counted
<1>6. /\ blamed \in Reports /\ blamed.verified = counted.verified /\ blamed.failed = {at}
      /\ blamed.written = counted.written
  BY <1>2, <1>4, <1>5 DEF Blamed, Reports
<1> HIDE DEF blamed
<1>7. PICK lines \in {<<>>, <<line>>}, l \in {"verify", "diagnose"}, fault \in BOOLEAN,
           report \in Reports :
        /\ Log(c, lines) /\ Goto(c, l)
        /\ Set(c, [job[c] EXCEPT !.report = report, !.fault = fault])
        /\ l = "verify" => report = counted /\ job[c].result = "sent"
        /\ l = "diagnose" => report = blamed /\ fault
  <2>1. ASSUME NEW r \in Reports
        PROVE  [job[c] EXCEPT !.report = r] = [job[c] EXCEPT !.report = r, !.fault = job[c].fault]
    BY <1>2 DEF Jobs
  <2>2. job[c].fault \in BOOLEAN
    BY <1>2 DEF Jobs
  <2>3. CASE Log(c, <<line>>) /\ job[c].result = "sent" /\ Goto(c, "verify")
             /\ Set(c, [job[c] EXCEPT !.report = counted])
    BY <1>4, <2>1, <2>2, <2>3
  <2>4. CASE Log(c, <<line>>) /\ job[c].result # "sent" /\ Goto(c, "diagnose")
             /\ Set(c, [job[c] EXCEPT !.report = blamed])
    BY <1>5, <1>6, <2>1, <2>2, <2>4
  <2>5. CASE LogFails(c, line) /\ Goto(c, "diagnose")
             /\ Set(c, [job[c] EXCEPT !.report = blamed, !.fault = TRUE])
    BY <1>6, <2>5 DEF LogFails
  <2> QED
    BY <2>3, <2>4, <2>5 DEF JournalResult, line, counted, blamed
<1> DEFINE j == [job[c] EXCEPT !.report = report, !.fault = fault]
<1>8. /\ j \in Jobs /\ SameOp(j, job[c]) /\ SameLoop(j, job[c]) /\ SameSeams(j, job[c])
      /\ j.report = report /\ j.fault = fault
  BY <1>2 DEF Jobs, SameOp, SameLoop, SameSeams
<1>9. Set(c, j)
  BY <1>7
<1> HIDE DEF j
<1>10. /\ KeepsSnapshots /\ Len(disk') = Len(disk) /\ JournalInv'
       /\ AttemptLog' = AttemptLog /\ ConfirmLog' = ConfirmLog /\ ChangeLog' = ChangeLog
  BY <1>1, <1>2, <1>3, <1>7, QuietLine
<1>11. /\ TypeOK' /\ LockInv' /\ PlanInv' /\ OpInv(c)' /\ SessionInv(c)'
       /\ \A d \in Clients \ {c} : ~Busy(d)'
       /\ Todo(c)' = Todo(c) /\ pc'[c] = l /\ job'[c] = j /\ job'[c].run = run
  <2>1. l \in (Running \ {"check"}) \cup {"restore", "return"} /\ pc[c] \in Running
    BY <1>1 DEF Running
  <2> QED
    BY <1>1, <1>7, <1>8, <1>9, <1>10, <2>1, StillTyped, ExecuteStep
<1>12. LoopInv(c)' /\ DriftInv(c)' /\ FaultInv(c)'
  BY <1>1, <1>2, <1>7, <1>8, <1>11
     DEF ClientInv, LoopInv, DriftInv, FaultInv, SameLoop, InLoop, Visiting, InBatch
<1>13. AttemptInv(c)'
  BY <1>1, <1>2, <1>8, <1>10, <1>11
     DEF ClientInv, AttemptInv, SameLoop, Preparing, InPair, InBatch, Ending
<1>14. ReportInv(c)'
  <2>1. CASE l = "verify"
    BY <1>2, <1>4, <1>5, <1>7, <1>8, <1>10, <1>11, <2>1
       DEF ReportInv, SameLoop, Preparing, InLoop, InBatch, InDoubt, Running
  <2>2. CASE l = "diagnose"
    BY <1>2, <1>4, <1>5, <1>6, <1>7, <1>8, <1>10, <1>11, <2>2
       DEF ReportInv, SameLoop, Preparing, InLoop, InBatch, InDoubt, Running
  <2> QED
    BY <2>1, <2>2
<1>15. AnswerInv(c)'
  BY <1>11 DEF AnswerInv, Ending
<1>16. SeamInv(c)'
  BY <1>1, <1>2, <1>8, <1>11
     DEF ClientInv, SeamInv, SameSeams, Reading, Preparing, InLoop, InBatch
<1> QED
  BY <1>10, <1>11, <1>12, <1>13, <1>14, <1>15, <1>16 DEF IInv, ClientInv

LEMMA DiagnoseKeeps ==
  ASSUME IInv, NEW c \in Clients, Diagnose(c)
  PROVE  IInv'
<1> DEFINE line == Line(c, "post_failure_readback", job[c].at, TRUE)
           report == job[c].report
<1>1. pc[c] = "diagnose" /\ UNCHANGED <<radioVars, serviceVars, cancelled, countVars, histVars>>
  BY DEF Diagnose
<1>2. /\ ClientInv(c) /\ job[c] \in Jobs /\ pc[c] \in Running \ {"check", "sel"}
      /\ report \in Reports /\ report.verified \subseteq report.written
  BY <1>1, InTheLoop DEF InLoop
<1>3. line \in Records /\ line.run = job[c].run /\ Quiet(line)
  <2>1. job[c].run \in Nat /\ job[c].at \in Nat
    BY <1>2, NumbersOfJob
  <2> QED
    BY <2>1 DEF Line, Records, Events, Quiet
<1>4. job[c].fault = TRUE
  BY <1>1, <1>2 DEF ClientInv, FaultInv, Jobs
<1>5. /\ ChangeLog[job[c].run] \subseteq report.verified \cup report.failed
      /\ \E s : report.failed \subseteq {s}
  <2>1. report.failed = {job[c].at}
    BY <1>1, <1>2 DEF ClientInv, ReportInv
  <2>2. ChangeLog[job[c].run] \subseteq report.verified \cup {job[c].at}
    BY <1>1, <1>2 DEF ClientInv, ReportInv, InDoubt
  <2> QED
    BY <2>1, <2>2
<1> HIDE DEF line
<1>6. PICK note \in {<<>>, <<line>>} : AbortAfter(c, note, report, job[c].fault)
  BY DEF Diagnose, line
<1> QED
  BY <1>1, <1>2, <1>3, <1>4, <1>5, <1>6, Aborts

LEMMA ReadBackKeeps ==
  ASSUME IInv, NEW c \in Clients, ReadBack(c)
  PROVE  IInv'
<1>1. /\ pc[c] = "verify" /\ Goto(c, "verdict") /\ UNCHANGED <<serviceVars, cancelled, countVars>>
      /\ UNCHANGED <<mem, menu, displaced, disk, runs, strayed, touched>>
  BY DEF ReadBack, radioVars, countVars, histVars
<1>2. ClientInv(c) /\ Executing(c) /\ job[c] \in Jobs
  BY <1>1, OneIsBusy DEF Running
<1>3. PICK result \in {"match", "mismatch", "unread"}, fault \in BOOLEAN :
        /\ Set(c, [job[c] EXCEPT !.result = result, !.fault = fault])
        /\ result # "match" => fault
  <2>1. [job[c] EXCEPT !.result = "match"]
          = [job[c] EXCEPT !.result = "match", !.fault = job[c].fault]
    BY <1>2 DEF Jobs
  <2>2. job[c].fault \in BOOLEAN /\ (job[c].fault \/ ~FALSE) = TRUE
    BY <1>2 DEF Jobs
  <2>3. CASE Set(c, [job[c] EXCEPT !.result = "match"])
    BY <2>1, <2>2, <2>3
  <2>4. CASE Set(c, [job[c] EXCEPT !.result = "mismatch", !.fault = TRUE])
    BY <2>4
  <2>5. CASE Set(c, [job[c] EXCEPT !.result = "unread", !.fault = @ \/ ~FALSE])
    <3>1. Set(c, [job[c] EXCEPT !.result = "unread", !.fault = TRUE])
      BY <2>2, <2>5
    <3> QED
      BY <3>1
  <2> QED
    BY <2>3, <2>4, <2>5 DEF ReadBack, PairCancelled
<1> DEFINE j == [job[c] EXCEPT !.result = result, !.fault = fault]
<1>4. /\ j \in Jobs /\ SameOp(j, job[c]) /\ SameLoop(j, job[c]) /\ SameReport(j, job[c])
      /\ SameSeams(j, job[c]) /\ j.result = result /\ j.fault = fault
  BY <1>2 DEF Jobs, SameOp, SameLoop, SameReport, SameSeams
<1>5. Set(c, j)
  BY <1>3
<1> HIDE DEF j
<1>6. /\ KeepsSnapshots /\ Len(disk') = Len(disk) /\ JournalInv'
      /\ AttemptLog' = AttemptLog /\ ConfirmLog' = ConfirmLog /\ ChangeLog' = ChangeLog
  BY <1>1, JournalUntouched
<1>7. /\ TypeOK' /\ LockInv' /\ PlanInv' /\ OpInv(c)' /\ SessionInv(c)'
      /\ \A d \in Clients \ {c} : ~Busy(d)'
      /\ Todo(c)' = Todo(c) /\ pc'[c] = "verdict" /\ job'[c] = j /\ job'[c].run = job[c].run
  <2>1. "verdict" \in (Running \ {"check"}) \cup {"restore", "return"} /\ pc[c] \in Running
    BY <1>1 DEF Running
  <2> QED
    BY <1>1, <1>4, <1>5, <1>6, <2>1, StillTyped, ExecuteStep
<1>8. LoopInv(c)' /\ DriftInv(c)' /\ FaultInv(c)'
  BY <1>1, <1>2, <1>3, <1>4, <1>7
     DEF ClientInv, LoopInv, DriftInv, FaultInv, SameLoop, InLoop, Visiting, InBatch
<1>9. AttemptInv(c)'
  BY <1>1, <1>2, <1>4, <1>6, <1>7
     DEF ClientInv, AttemptInv, SameLoop, Preparing, InPair, InBatch, Ending
<1>10. ReportInv(c)' /\ AnswerInv(c)'
  BY <1>1, <1>2, <1>4, <1>6, <1>7
     DEF ClientInv, ReportInv, AnswerInv, SameReport, SameLoop, Preparing, InLoop, InBatch,
         InDoubt, Running, Ending
<1>11. SeamInv(c)'
  BY <1>1, <1>2, <1>4, <1>7
     DEF ClientInv, SeamInv, SameSeams, Reading, Preparing, InLoop, InBatch
<1> QED
  BY <1>6, <1>7, <1>8, <1>9, <1>10, <1>11 DEF IInv, ClientInv

-----------------------------------------------------------------------------
(* Execute, the verdict.                                                   *)

LEMMA JournalVerdictKeeps ==
  ASSUME IInv, NEW c \in Clients, JournalVerdict(c)
  PROVE  IInv'
<1> DEFINE run == job[c].run
           at  == job[c].at
           line == Line(c, "verify_result", at, job[c].result = "match")
           verified == Verified(c)
           blamed == Blamed(job[c].report, c)
           rest == job[c].left \ {at}
<1>1. pc[c] = "verdict" /\ UNCHANGED <<radioVars, serviceVars, cancelled, countVars, histVars>>
  BY DEF JournalVerdict
<1>2. /\ ClientInv(c) /\ Executing(c) /\ job[c] \in Jobs /\ job[c].journal \in DOMAIN disk
      /\ pc[c] \in Running \ {"check", "sel"}
      /\ at \in job[c].left /\ at \in Slots /\ job[c].report \in Reports
      /\ job[c].left \subseteq Todo(c) /\ Todo(c) \subseteq Slots
      /\ job[c].report.verified = Todo(c) \ job[c].left
      /\ job[c].report.verified \subseteq job[c].report.written
      /\ run \in Nat /\ run = runs
  BY <1>1, InTheLoop DEF InLoop, Visiting
<1>3. /\ line \in Records /\ line.run = run /\ line.slot = at
      /\ line.event = "verify_result" /\ (job[c].result = "match" => line.ok = TRUE)
  <2>1. run \in Nat /\ at \in Nat
    BY <1>2, NumbersOfJob
  <2> QED
    BY <2>1 DEF Line, Records, Events
<1>4. /\ job[c].report.failed = {} /\ ChangeLog[run] \subseteq job[c].report.verified \cup {at}
      /\ at \in job[c].report.written
      /\ job[c].result # "match" => job[c].fault
  BY <1>1, <1>2 DEF ClientInv, ReportInv, FaultInv, Running, InDoubt
<1>5. /\ verified \in Reports /\ verified.verified = job[c].report.verified \cup {at}
      /\ verified.failed = {} /\ verified.written = job[c].report.written
  BY <1>2, <1>4 DEF Verified, Reports
<1>6. /\ blamed \in Reports /\ blamed.verified = job[c].report.verified
      /\ blamed.failed = {at} /\ blamed.written = job[c].report.written
  BY <1>2, <1>4 DEF Blamed, Reports
<1> HIDE DEF line, verified, blamed
<1>7. CASE AbortUnlogged(c, line, verified)
  <2>1. PICK lost \in {<<>>, <<line>>} : AbortAfter(c, lost, verified, TRUE)
    BY <1>7 DEF AbortUnlogged
  <2>2. /\ ChangeLog[run] \subseteq verified.verified \cup verified.failed
        /\ \E s : verified.failed \subseteq {s}
        /\ verified.verified \subseteq verified.written
    BY <1>2, <1>4, <1>5
  <2>3. Quiet(line) \/ (line.slot = job[c].at /\ pc[c] = "attempt" /\ line.event = "write_attempt")
          \/ (line.slot = job[c].at /\ pc[c] = "verdict" /\ line.event = "verify_result")
    BY <1>1, <1>3
  <2>4. line.run = job[c].run /\ pc[c] \in Running \ {"check", "sel"}
    BY <1>2, <1>3
  <2> QED
    BY <1>1, <1>3, <1>5, <2>1, <2>2, <2>3, <2>4, Aborts
<1>8. CASE /\ job[c].result # "match"
           /\ \E lines \in {<<>>, <<line>>} : AbortAfter(c, lines, blamed, job[c].fault)
  <2>1. PICK lines \in {<<>>, <<line>>} : AbortAfter(c, lines, blamed, job[c].fault)
    BY <1>8
  <2>2. /\ ChangeLog[run] \subseteq blamed.verified \cup blamed.failed
        /\ \E s : blamed.failed \subseteq {s}
        /\ blamed.verified \subseteq blamed.written
    BY <1>2, <1>4, <1>6
  <2>3. job[c].fault = TRUE
    BY <1>2, <1>4, <1>8 DEF Jobs
  <2>4. Quiet(line) \/ (line.slot = job[c].at /\ pc[c] = "attempt" /\ line.event = "write_attempt")
          \/ (line.slot = job[c].at /\ pc[c] = "verdict" /\ line.event = "verify_result")
    BY <1>1, <1>3
  <2>5. AbortAfter(c, lines, blamed, TRUE)
    BY <2>1, <2>3
  <2>6. line.run = job[c].run /\ pc[c] \in Running \ {"check", "sel"}
    BY <1>2, <1>3
  <2> QED
    BY <1>1, <1>3, <1>6, <2>2, <2>4, <2>5, <2>6, Aborts
<1>9. CASE job[c].result = "match" /\ Log(c, <<line>>) /\ NextSlot(c, verified)
  <2>1. /\ KeepsSnapshots /\ Len(disk') = Len(disk)
        /\ \A r \in Nat :
             /\ AttemptLog'[r] = AttemptLog[r] \cup Named(<<line>>, r, "write_attempt")
             /\ ConfirmLog'[r] = ConfirmLog[r] \cup Named(<<line>>, r, "verify_result")
    <3>1. <<line>> \in Seq(Records)
      BY <1>3
    <3> QED
      BY <1>2, <1>9, <3>1, LogAdds DEF IInv, TypeOK
  <2>2. \A r \in Nat : /\ Named(<<line>>, r, "write_attempt") = {}
                       /\ Named(<<line>>, r, "verify_result") = IF r = run THEN {at} ELSE {}
    <3>1. line.ok = TRUE
      BY <1>3, <1>9
    <3> QED
      BY <1>3, <3>1, NamedOne
  <2>3. /\ \A r \in Nat \ {run} : ConfirmLog'[r] = ConfirmLog[r]
        /\ \A r \in Nat : AttemptLog'[r] = AttemptLog[r]
        /\ ConfirmLog'[run] = ConfirmLog[run] \cup {at}
    <3>1. run \in Nat
      BY <1>2
    <3> QED
      BY <2>1, <2>2, <3>1
  <2>4. UNCHANGED <<mem, menu, displaced, strayed, touched>> /\ ChangeLog' = ChangeLog
    BY <1>1 DEF radioVars, histVars, ChangeLog, Touched
  <2>5. runs' = runs
    BY <1>1 DEF countVars
  <2>6. AttemptLog'[run] = ConfirmLog'[run]
    <3>1. at \in AttemptLog[run] /\ AttemptLog[run] \ ConfirmLog[run] \subseteq {at}
      BY <1>1, <1>2 DEF ClientInv, AttemptInv, InPair
    <3>2. ConfirmLog[run] \subseteq AttemptLog[run]
      BY <1>2 DEF IInv, JournalInv
    <3> QED
      BY <1>2, <2>3, <3>1, <3>2
  <2>7. JournalInv'
    <3>1. ASSUME NEW r \in Nat
          PROVE  /\ r > runs => AttemptLog'[r] = {} /\ ConfirmLog'[r] = {}
                 /\ ChangeLog[r] \subseteq AttemptLog'[r] /\ ConfirmLog'[r] \subseteq AttemptLog'[r]
                 /\ \E s : AttemptLog'[r] \ ConfirmLog'[r] \subseteq {s}
      <4>1. /\ r > runs => AttemptLog[r] = {} /\ ConfirmLog[r] = {}
            /\ ChangeLog[r] \subseteq AttemptLog[r] /\ ConfirmLog[r] \subseteq AttemptLog[r]
            /\ \E s : AttemptLog[r] \ ConfirmLog[r] \subseteq {s}
        BY <3>1 DEF IInv, JournalInv
      <4>2. CASE r = run
        BY <1>2, <2>3, <2>6, <4>1, <4>2
      <4>3. CASE r # run
        BY <2>3, <4>1, <4>3
      <4> QED
        BY <4>2, <4>3
    <3> QED
      BY <2>4, <2>5, <3>1 DEF JournalInv
  <2>8. Batch(c) \subseteq Items /\ rest \subseteq Slots
    BY <1>2 DEF Batch, SettingDeltas
  <2>9. PICK l \in {"slot", "settings"}, left \in {rest, Batch(c)} :
          /\ Goto(c, l) /\ Set(c, [job[c] EXCEPT !.left = left, !.report = verified])
          /\ l = "slot" => left = rest /\ rest # {}
          /\ l = "settings" => left = Batch(c) /\ rest = {}
    BY <1>9 DEF NextSlot, Batch
  <2> DEFINE j == [job[c] EXCEPT !.left = left, !.report = verified]
  <2>10. /\ j \in Jobs /\ SameOp(j, job[c]) /\ SameSeams(j, job[c])
         /\ j.left = left /\ j.at = at /\ j.report = verified
    BY <1>2, <1>5, <2>8 DEF Jobs, SameOp, SameSeams
  <2>11. Set(c, j)
    BY <2>9
  <2> HIDE DEF j
  <2>12. /\ TypeOK' /\ LockInv' /\ PlanInv' /\ OpInv(c)' /\ SessionInv(c)'
         /\ \A d \in Clients \ {c} : ~Busy(d)'
         /\ Todo(c)' = Todo(c) /\ Batch(c)' = Batch(c)
         /\ pc'[c] = l /\ job'[c] = j /\ job'[c].run = run
    <3>1. l \in (Running \ {"check"}) \cup {"restore", "return"} /\ pc[c] \in Running
      BY <1>1 DEF Running
    <3> QED
      BY <1>1, <2>1, <2>4, <2>9, <2>10, <2>11, <3>1, StillTyped, ExecuteStep
  <2>13. LoopInv(c)' /\ DriftInv(c)' /\ FaultInv(c)'
    BY <1>2, <2>9, <2>10, <2>12
       DEF LoopInv, DriftInv, FaultInv, InLoop, Visiting, InBatch
  <2>14. AttemptInv(c)'
    BY <2>6, <2>12 DEF AttemptInv, Preparing, InPair, InBatch, Ending
  <2>15. ReportInv(c)'
    <3>1. ChangeLog'[run] \subseteq verified.verified /\ verified.verified \subseteq verified.written
      BY <1>2, <1>4, <1>5, <2>4
    <3>2. l = "slot" => verified.verified = Todo(c) \ left
      BY <1>2, <1>5, <2>9
    <3>3. l = "settings" => verified.verified = Todo(c)
      BY <1>2, <1>5, <2>9
    <3> QED
      BY <1>5, <2>9, <2>10, <2>12, <3>1, <3>2, <3>3
         DEF ReportInv, Preparing, InLoop, InBatch, InDoubt, Running
  <2>16. AnswerInv(c)'
    BY <2>9, <2>12 DEF AnswerInv, Ending
  <2>17. SeamInv(c)'
    <3>1. Seams \subseteq job[c].held \cup job[c].unheld
      BY <1>1, <1>2 DEF ClientInv, SeamInv, InLoop
    <3>2. displaced' \subseteq Seams
      BY <2>4 DEF IInv, TypeOK
    <3> QED
      BY <2>9, <2>10, <2>12, <3>1, <3>2
         DEF SeamInv, SameSeams, Reading, Preparing, InLoop, InBatch
  <2> QED
    BY <2>7, <2>12, <2>13, <2>14, <2>15, <2>16, <2>17 DEF IInv, ClientInv
<1> QED
  BY <1>7, <1>8, <1>9 DEF JournalVerdict, line, verified, blamed

-----------------------------------------------------------------------------
(* Execute, the settings and the end.                                      *)

LEMMA InTheBatch ==
  ASSUME IInv, NEW c \in Clients, pc[c] \in InBatch
  PROVE  /\ ClientInv(c) /\ Executing(c) /\ job[c] \in Jobs /\ job[c].journal \in DOMAIN disk
         /\ pc[c] \in Running \ {"check", "sel"}
         /\ job[c].left \subseteq Batch(c) /\ Batch(c) \subseteq Items
         /\ pc[c] # "settings" => job[c].at \in job[c].left
         /\ job[c].report \in Reports
         /\ job[c].report.verified = Todo(c) /\ job[c].report.failed = {}
         /\ job[c].report.verified \subseteq job[c].report.written
         /\ ChangeLog[job[c].run] \subseteq job[c].report.verified
         /\ AttemptLog[job[c].run] = ConfirmLog[job[c].run]
         /\ job[c].run \in Nat /\ job[c].at \in Nat
<1>1. /\ ClientInv(c) /\ Executing(c) /\ job[c] \in Jobs /\ job[c].journal \in DOMAIN disk
      /\ pc[c] \in Running \ {"check", "sel"}
  BY OneIsBusy DEF Running, InBatch
<1>2. /\ job[c].left \subseteq Batch(c) /\ Batch(c) \subseteq Items
      /\ pc[c] # "settings" => job[c].at \in job[c].left
  BY <1>1 DEF ClientInv, LoopInv, Batch, SettingDeltas
<1>3. /\ job[c].report.verified = Todo(c) /\ job[c].report.failed = {}
      /\ job[c].report.verified \subseteq job[c].report.written
      /\ ChangeLog[job[c].run] \subseteq job[c].report.verified
  BY <1>1 DEF ClientInv, ReportInv, InBatch, InDoubt, Running
<1>4. AttemptLog[job[c].run] = ConfirmLog[job[c].run]
  BY <1>1 DEF ClientInv, AttemptInv
<1>5. job[c].report \in Reports
  BY <1>1 DEF Jobs
<1>6. job[c].run \in Nat /\ job[c].at \in Nat
  BY <1>1, NumbersOfJob
<1> QED
  BY <1>1, <1>2, <1>3, <1>4, <1>5, <1>6

(* A quiet line, an abort or none: the batch ends as it stands.            *)
LEMMA AbortsBatch ==
  ASSUME IInv, NEW c \in Clients, pc[c] \in InBatch,
         NEW line \in Records, line.run = job[c].run, Quiet(line),
         NEW before \in {<<>>, <<line>>}, NEW fault \in BOOLEAN,
         AbortAfter(c, before, job[c].report, fault),
         UNCHANGED <<radioVars, serviceVars, cancelled, countVars, histVars>>
  PROVE  IInv'
<1> DEFINE report == job[c].report
<1>1. /\ pc[c] \in Running \ {"check", "sel"} /\ report \in Reports
      /\ ChangeLog[job[c].run] \subseteq report.verified \cup report.failed
      /\ report.failed = {} /\ report.verified \subseteq report.written
      /\ AttemptLog[job[c].run] = ConfirmLog[job[c].run]
  BY InTheBatch
<1>2. \E s : report.failed \subseteq {s}
  BY <1>1
<1> QED
  BY <1>1, <1>2, Aborts

(* A step of the batch that goes on with it.                               *)
LEMMA BatchGoesOn ==
  ASSUME IInv, NEW c \in Clients, pc[c] \in InBatch,
         NEW l \in InBatch, Goto(c, l), NEW j \in Jobs, Set(c, j),
         SameOp(j, job[c]), SameReport(j, job[c]), SameSeams(j, job[c]),
         j.left \subseteq Batch(c), l # "settings" => j.at \in j.left,
         UNCHANGED <<serviceVars, cancelled, countVars>>,
         UNCHANGED <<mem, displaced, strayed, touched>>, menu' \in [Items -> Values],
         KeepsSnapshots, Len(disk') = Len(disk), JournalInv',
         AttemptLog' = AttemptLog, ConfirmLog' = ConfirmLog, ChangeLog' = ChangeLog
  PROVE  IInv'
<1>1. /\ ClientInv(c) /\ Executing(c)
      /\ pc[c] \in Running /\ pc[c] # "check" /\ pc[c] # "restore"
      /\ job[c].report.verified = Todo(c) /\ job[c].report.failed = {}
      /\ job[c].report.verified \subseteq job[c].report.written
      /\ ChangeLog[job[c].run] \subseteq job[c].report.verified
      /\ AttemptLog[job[c].run] = ConfirmLog[job[c].run]
  BY InTheBatch DEF InBatch
<1>2. /\ TypeOK' /\ LockInv' /\ PlanInv' /\ OpInv(c)' /\ SessionInv(c)'
      /\ \A d \in Clients \ {c} : ~Busy(d)'
      /\ Todo(c)' = Todo(c) /\ Batch(c)' = Batch(c)
      /\ pc'[c] = l /\ job'[c] = j /\ job'[c].run = job[c].run
  <2>1. l \in (Running \ {"check"}) \cup {"restore", "return"}
    BY DEF Running, InBatch
  <2> QED
    BY <1>1, <2>1, StillTyped, ExecuteStep
<1>3. LoopInv(c)' /\ DriftInv(c)' /\ FaultInv(c)'
  BY <1>2 DEF LoopInv, DriftInv, FaultInv, InLoop, Visiting, InBatch
<1>4. AttemptInv(c)'
  BY <1>1, <1>2 DEF AttemptInv, Preparing, InPair, InBatch, Ending
<1>5. ReportInv(c)' /\ AnswerInv(c)'
  BY <1>1, <1>2
     DEF ReportInv, AnswerInv, SameReport, Preparing, InLoop, InBatch, InDoubt, Running, Ending
<1>6. SeamInv(c)'
  BY <1>1, <1>2 DEF ClientInv, SeamInv, SameSeams, Reading, Preparing, InLoop, InBatch
<1> QED
  BY <1>2, <1>3, <1>4, <1>5, <1>6 DEF IInv, ClientInv

LEMMA SettingAttemptKeeps ==
  ASSUME IInv, NEW c \in Clients, SettingAttempt(c)
  PROVE  IInv'
<1> DEFINE i == Min(job[c].left)
           line == Line(c, "setting_write_attempt", i, TRUE)
<1>1. /\ pc[c] = "settings" /\ job[c].left # {} /\ pc[c] \in InBatch
      /\ UNCHANGED <<radioVars, serviceVars, cancelled, countVars, histVars>>
  BY DEF SettingAttempt, InBatch
<1>2. /\ job[c] \in Jobs /\ job[c].journal \in DOMAIN disk
      /\ job[c].left \subseteq Batch(c) /\ Batch(c) \subseteq Items
      /\ job[c].run \in Nat /\ job[c].report \in Reports
  BY <1>1, InTheBatch
<1>3. i \in job[c].left /\ i \in Items /\ i \in Nat
  BY <1>1, <1>2, MinIsMember, Numbered
<1>4. (Log(c, <<line>>) /\ Goto(c, "set") /\ Set(c, [job[c] EXCEPT !.at = i]))
      \/ AbortUnlogged(c, line, job[c].report)
  BY DEF SettingAttempt
<1> HIDE DEF i
<1>5. line \in Records /\ line.run = job[c].run /\ Quiet(line)
  BY <1>2, <1>3 DEF Line, Records, Events, Quiet
<1> HIDE DEF line
<1>6. CASE AbortUnlogged(c, line, job[c].report)
  BY <1>1, <1>5, <1>6, AbortsBatch DEF AbortUnlogged
<1>7. CASE Log(c, <<line>>) /\ Goto(c, "set") /\ Set(c, [job[c] EXCEPT !.at = i])
  <2> DEFINE j == [job[c] EXCEPT !.at = i]
  <2>1. /\ j \in Jobs /\ SameOp(j, job[c]) /\ SameReport(j, job[c]) /\ SameSeams(j, job[c])
        /\ j.left = job[c].left /\ j.at = i
    BY <1>2, <1>3 DEF Jobs, SameOp, SameReport, SameSeams
  <2>2. Set(c, j)
    BY <1>7
  <2> HIDE DEF j
  <2>3. /\ UNCHANGED <<mem, displaced, strayed, touched, runs>>
        /\ menu' \in [Items -> Values]
    BY <1>1 DEF radioVars, histVars, countVars, IInv, TypeOK
  <2>4. /\ KeepsSnapshots /\ Len(disk') = Len(disk) /\ JournalInv'
        /\ AttemptLog' = AttemptLog /\ ConfirmLog' = ConfirmLog /\ ChangeLog' = ChangeLog
    BY <1>2, <1>5, <1>7, <2>3, QuietLine
  <2>5. "set" \in InBatch /\ j.left \subseteq Batch(c) /\ j.at \in j.left
    BY <1>2, <1>3, <2>1 DEF InBatch
  <2> QED
    BY <1>1, <1>7, <2>1, <2>2, <2>3, <2>4, <2>5, BatchGoesOn
<1> QED
  BY <1>4, <1>6, <1>7

LEMMA WriteSettingKeeps ==
  ASSUME IInv, NEW c \in Clients, WriteSetting(c)
  PROVE  IInv'
<1>1. /\ pc[c] = "set" /\ pc[c] \in InBatch /\ Goto(c, "setresult")
      /\ UNCHANGED <<serviceVars, cancelled, countVars>>
      /\ UNCHANGED <<mem, displaced, disk, strayed, touched, runs>>
  BY DEF WriteSetting, InBatch, histVars, countVars
<1>2. /\ job[c] \in Jobs /\ Executing(c) /\ ClientInv(c)
      /\ job[c].left \subseteq Batch(c) /\ job[c].at \in job[c].left
      /\ Batch(c) \subseteq Items
  BY <1>1, InTheBatch
<1>3. Setting(c) \in Values
  <2>1. Plan(c) \in PlanSet
    BY <1>2 DEF ClientInv, OpInv, Plan, IInv, TypeOK
  <2>2. job[c].at \in Items /\ Setting(c) # NoWish
    BY <1>2 DEF Batch, SettingDeltas, Setting
  <2> QED
    BY <2>1, <2>2 DEF PlanSet, Wishing, Setting
<1>4. menu' \in [Items -> Values]
  <2>1. menu \in [Items -> Values]
    BY DEF IInv, TypeOK
  <2>2. menu' = menu \/ menu' = [menu EXCEPT ![job[c].at] = Setting(c)]
    BY DEF WriteSetting
  <2> QED
    BY <1>3, <2>1, <2>2
<1>5. PICK result \in {"match", "error"}, fault \in BOOLEAN :
        Set(c, [job[c] EXCEPT !.result = result, !.fault = fault])
  <2>1. [job[c] EXCEPT !.result = "match"]
          = [job[c] EXCEPT !.result = "match", !.fault = job[c].fault]
    BY <1>2 DEF Jobs
  <2>2. job[c].fault \in BOOLEAN
    BY <1>2 DEF Jobs
  <2>3. CASE Set(c, [job[c] EXCEPT !.result = "match"])
    BY <2>1, <2>2, <2>3
  <2>4. CASE Set(c, [job[c] EXCEPT !.result = "error", !.fault = TRUE])
    BY <2>4
  <2> QED
    BY <2>3, <2>4 DEF WriteSetting
<1> DEFINE j == [job[c] EXCEPT !.result = result, !.fault = fault]
<1>6. /\ j \in Jobs /\ SameOp(j, job[c]) /\ SameReport(j, job[c]) /\ SameSeams(j, job[c])
      /\ j.left = job[c].left /\ j.at = job[c].at
  BY <1>2 DEF Jobs, SameOp, SameReport, SameSeams
<1>7. Set(c, j)
  BY <1>5
<1> HIDE DEF j
<1>8. /\ KeepsSnapshots /\ Len(disk') = Len(disk) /\ JournalInv'
      /\ AttemptLog' = AttemptLog /\ ConfirmLog' = ConfirmLog /\ ChangeLog' = ChangeLog
  BY <1>1, JournalUntouched
<1>9. "setresult" \in InBatch /\ j.left \subseteq Batch(c) /\ j.at \in j.left
  BY <1>2, <1>6 DEF InBatch
<1> QED
  BY <1>1, <1>4, <1>6, <1>7, <1>8, <1>9, BatchGoesOn

LEMMA SettingResultKeeps ==
  ASSUME IInv, NEW c \in Clients, SettingResult(c)
  PROVE  IInv'
<1> DEFINE line == Line(c, "setting_write_result", job[c].at, job[c].result = "match")
<1>1. /\ pc[c] = "setresult" /\ pc[c] \in InBatch
      /\ UNCHANGED <<radioVars, serviceVars, cancelled, countVars, histVars>>
  BY DEF SettingResult, InBatch
<1>2. /\ job[c] \in Jobs /\ job[c].journal \in DOMAIN disk
      /\ job[c].left \subseteq Batch(c) /\ Batch(c) \subseteq Items
      /\ job[c].run \in Nat /\ job[c].at \in Nat
  BY <1>1, InTheBatch
<1>3. line \in Records /\ line.run = job[c].run /\ Quiet(line)
  BY <1>2 DEF Line, Records, Events, Quiet
<1>4. \/ Log(c, <<line>>) /\ Goto(c, "settings")
           /\ Set(c, [job[c] EXCEPT !.left = job[c].left \ {job[c].at}])
      \/ AbortAfter(c, <<line>>, job[c].report, job[c].fault)
      \/ AbortUnlogged(c, line, job[c].report)
  BY DEF SettingResult
<1> HIDE DEF line
<1>5. CASE AbortUnlogged(c, line, job[c].report)
  BY <1>1, <1>3, <1>5, AbortsBatch DEF AbortUnlogged
<1>6. CASE AbortAfter(c, <<line>>, job[c].report, job[c].fault)
  <2>1. job[c].fault \in BOOLEAN
    BY <1>2 DEF Jobs
  <2> QED
    BY <1>1, <1>3, <1>6, <2>1, AbortsBatch
<1>7. CASE Log(c, <<line>>) /\ Goto(c, "settings")
           /\ Set(c, [job[c] EXCEPT !.left = job[c].left \ {job[c].at}])
  <2> DEFINE j == [job[c] EXCEPT !.left = job[c].left \ {job[c].at}]
  <2>1. /\ j \in Jobs /\ SameOp(j, job[c]) /\ SameReport(j, job[c]) /\ SameSeams(j, job[c])
        /\ j.left \subseteq job[c].left
    BY <1>2 DEF Jobs, SameOp, SameReport, SameSeams
  <2>2. Set(c, j)
    BY <1>7
  <2> HIDE DEF j
  <2>3. /\ UNCHANGED <<mem, displaced, strayed, touched, runs>>
        /\ menu' \in [Items -> Values]
    BY <1>1 DEF radioVars, histVars, countVars, IInv, TypeOK
  <2>4. /\ KeepsSnapshots /\ Len(disk') = Len(disk) /\ JournalInv'
        /\ AttemptLog' = AttemptLog /\ ConfirmLog' = ConfirmLog /\ ChangeLog' = ChangeLog
    BY <1>2, <1>3, <1>7, <2>3, QuietLine
  <2>5. "settings" \in InBatch /\ j.left \subseteq Batch(c)
    BY <1>2, <2>1 DEF InBatch
  <2> QED
    BY <1>1, <1>7, <2>1, <2>2, <2>3, <2>4, <2>5, BatchGoesOn
<1> QED
  BY <1>4, <1>5, <1>6, <1>7

LEMMA CompleteKeeps ==
  ASSUME IInv, NEW c \in Clients, Complete(c)
  PROVE  IInv'
<1> DEFINE line == Line(c, "completion", 0, TRUE)
           l == Unwind(c)
<1>1. /\ pc[c] = "settings" /\ pc[c] \in InBatch /\ LogFails(c, line)
      /\ Goto(c, l) /\ Set(c, [job[c] EXCEPT !.answer = "done"])
      /\ UNCHANGED <<serviceVars, cancelled, countVars>>
      /\ UNCHANGED <<mem, menu, displaced, strayed, touched, runs>>
  BY DEF Complete, InBatch, radioVars, histVars, countVars
<1>2. /\ ClientInv(c) /\ Executing(c) /\ job[c] \in Jobs /\ job[c].journal \in DOMAIN disk
      /\ pc[c] \in Running
      /\ job[c].report.verified = Todo(c) /\ job[c].report.failed = {}
      /\ AttemptLog[job[c].run] = ConfirmLog[job[c].run]
      /\ job[c].run \in Nat
  BY <1>1, InTheBatch
<1>3. line \in Records /\ Quiet(line)
  BY <1>2 DEF Line, Records, Events, Quiet
<1> HIDE DEF line
<1> DEFINE j == [job[c] EXCEPT !.answer = "done"]
<1>4. /\ j \in Jobs /\ SameOp(j, job[c]) /\ SameSeams(j, job[c])
      /\ j.report = job[c].report /\ j.answer = "done"
  BY <1>2 DEF Jobs, SameOp, SameSeams
<1>5. Set(c, j)
  BY <1>1
<1> HIDE DEF j
<1>6. /\ KeepsSnapshots /\ Len(disk') = Len(disk) /\ JournalInv'
      /\ AttemptLog' = AttemptLog /\ ConfirmLog' = ConfirmLog /\ ChangeLog' = ChangeLog
  BY <1>1, <1>2, <1>3, QuietLine DEF LogFails
<1>7. l \in {"restore", "return"}
  BY DEF Unwind
<1>8. displaced \subseteq job[c].held \cup job[c].unheld
  BY <1>1, <1>2 DEF ClientInv, SeamInv
<1>9. l = "return" => job[c].held = {}
  BY DEF Unwind
<1> HIDE DEF l
<1>10. /\ TypeOK' /\ LockInv' /\ PlanInv' /\ OpInv(c)' /\ SessionInv(c)'
       /\ \A d \in Clients \ {c} : ~Busy(d)'
       /\ Todo(c)' = Todo(c) /\ pc'[c] = l /\ job'[c] = j /\ job'[c].run = job[c].run
  <2>1. l \in (Running \ {"check"}) \cup {"restore", "return"} /\ pc[c] \in Running
    BY <1>2, <1>7
  <2> QED
    BY <1>1, <1>4, <1>5, <1>6, <2>1, StillTyped, ExecuteStep
<1>11. LoopInv(c)' /\ DriftInv(c)' /\ FaultInv(c)' /\ ReportInv(c)'
  BY <1>7, <1>10 DEF LoopInv, DriftInv, FaultInv, ReportInv, Preparing, InDoubt, Visiting,
                     InLoop, InBatch, Running
<1>12. AttemptInv(c)'
  BY <1>2, <1>6, <1>7, <1>10 DEF AttemptInv, Preparing, InBatch, InPair
<1>13. AnswerInv(c)'
  BY <1>2, <1>4, <1>10 DEF AnswerInv
<1>14. SeamInv(c)'
  BY <1>1, <1>4, <1>7, <1>8, <1>9, <1>10
     DEF SeamInv, SameSeams, Reading, Preparing, InLoop, InBatch
<1> QED
  BY <1>6, <1>10, <1>11, <1>12, <1>13, <1>14 DEF IInv, ClientInv

LEMMA RestoreKeeps ==
  ASSUME IInv, NEW c \in Clients, Restore(c)
  PROVE  IInv'
<1>1. /\ pc[c] = "restore" /\ Goto(c, "return") /\ UNCHANGED <<serviceVars, cancelled, countVars>>
      /\ UNCHANGED <<mem, menu, disk, strayed, touched, runs>>
  BY DEF Restore, histVars, countVars
<1>2. ClientInv(c) /\ Executing(c) /\ job[c] \in Jobs
  BY <1>1, OneIsBusy
<1>3. PICK done \in SUBSET job[c].held :
        /\ displaced' = displaced \ done
        /\ Set(c, [job[c] EXCEPT !.unheld = job[c].unheld \cup (job[c].held \ done)])
  BY DEF Restore
<1> DEFINE j == [job[c] EXCEPT !.unheld = job[c].unheld \cup (job[c].held \ done)]
<1>4. /\ j \in Jobs /\ SameOp(j, job[c]) /\ SameLoop(j, job[c]) /\ SameReport(j, job[c])
      /\ j.unheld = job[c].unheld \cup (job[c].held \ done) /\ j.fault = job[c].fault
  BY <1>2 DEF Jobs, SameOp, SameLoop, SameReport
<1>5. Set(c, j)
  BY <1>3
<1> HIDE DEF j
<1>6. /\ KeepsSnapshots /\ Len(disk') = Len(disk) /\ JournalInv'
      /\ AttemptLog' = AttemptLog /\ ConfirmLog' = ConfirmLog /\ ChangeLog' = ChangeLog
  BY <1>1, JournalUntouched
<1>7. displaced' \subseteq Seams /\ displaced' \subseteq displaced
  BY <1>3 DEF IInv, TypeOK
<1>8. /\ TypeOK' /\ LockInv' /\ PlanInv' /\ OpInv(c)' /\ SessionInv(c)'
      /\ \A d \in Clients \ {c} : ~Busy(d)'
      /\ Todo(c)' = Todo(c) /\ pc'[c] = "return" /\ job'[c] = j /\ job'[c].run = job[c].run
      /\ Executing(c)'
  <2>1. "return" \in (Running \ {"check"}) \cup {"restore", "return"}
        /\ pc[c] \in Running \cup {"restore"} /\ pc'[c] = "return"
    BY <1>1 DEF Running, Goto, IInv, TypeOK
  <2> QED
    BY <1>1, <1>4, <1>5, <1>6, <1>7, <2>1, StillTyped, ExecuteStep
<1>9. LoopInv(c)' /\ DriftInv(c)' /\ FaultInv(c)' /\ ReportInv(c)'
  BY <1>8 DEF LoopInv, DriftInv, FaultInv, ReportInv, Preparing, InDoubt, Visiting,
              InLoop, InBatch, Running
<1>10. AttemptInv(c)' /\ AnswerInv(c)'
  <2>1. Ending(c)
    BY <1>1, <1>2 DEF Ending
  <2> QED
    BY <1>2, <1>4, <1>6, <1>8, <2>1
       DEF ClientInv, AttemptInv, AnswerInv, SameReport, Preparing, InBatch, InPair
<1>11. SeamInv(c)'
  <2>1. displaced \subseteq job[c].held \cup job[c].unheld
    BY <1>1, <1>2 DEF ClientInv, SeamInv
  <2> QED
    BY <1>3, <1>4, <1>8, <2>1 DEF SeamInv, Reading, Preparing, InLoop, InBatch
<1> QED
  BY <1>6, <1>8, <1>9, <1>10, <1>11 DEF IInv, ClientInv

LEMMA ReturnKeeps ==
  ASSUME IInv, NEW c \in Clients, Return(c)
  PROVE  IInv'
<1>1. /\ pc[c] = "return" /\ Goto(c, "idle") /\ Set(c, NoJob)
      /\ opBusy' = FALSE /\ displaced' = {} /\ strayed' = {}
      /\ cancelled' = [cancelled EXCEPT ![c] = FALSE]
      /\ UNCHANGED <<mem, menu, generation, plans, disk, countVars, touched>>
      /\ UNCHANGED <<reads, edits, runs>>
  BY DEF Return, Release, Set, countVars
<1>2. \A d \in Clients \ {c} : ~Busy(d)
  BY <1>1, OneIsBusy
<1>3. /\ pc' \in [Clients -> Labels] /\ pc'[c] = "idle"
      /\ \A d \in Clients \ {c} : pc'[d] = pc[d]
  BY <1>1, GoTo DEF IInv, Labels
<1>4. /\ job' \in [Clients -> Jobs] /\ job'[c] = NoJob
      /\ \A d \in Clients \ {c} : job'[d] = job[d]
  BY <1>1, NoJobIsJob, SetJob DEF IInv
<1>5. \A d \in Clients : ~Busy(d)'
  BY <1>2, <1>3 DEF Busy
<1>6. TypeOK'
  <2>1. InRange(NoJob)
    BY DEF InRange, NoJob, IInv, TypeOK
  <2>2. \A d \in Clients : InRange(job[d])'
    BY <1>1, <1>4, <2>1 DEF InRange, IInv, TypeOK
  <2>3. cancelled' \in [Clients -> BOOLEAN]
    BY <1>1 DEF IInv, TypeOK
  <2> QED
    BY <1>1, <1>3, <1>4, <2>2, <2>3 DEF IInv, TypeOK
<1>7. LockInv' /\ PlanInv'
  BY <1>1, <1>5 DEF LockInv, PlanInv, IInv
<1>8. JournalInv'
  BY <1>1, JournalUntouched
<1> QED
  BY <1>5, <1>6, <1>7, <1>8 DEF IInv

-----------------------------------------------------------------------------
(* ReadAll, ReadSettings and PrepareSend.                                  *)

(* The common part of their steps.                                         *)
LEMMA ReadingStep ==
  ASSUME IInv, NEW c \in Clients, pc[c] \in Reading,
         NEW l \in {"read", "items", "return"}, Goto(c, l),
         NEW j \in Jobs, Set(c, j),
         j.op = job[c].op, j.file = job[c].file, j.run = job[c].run,
         j.plan = job[c].plan, j.confirmed = job[c].confirmed, SameSeams(j, job[c]),
         j.journal \in 0 .. Len(disk'),
         l = "read" => pc[c] = "read" /\ j.left \subseteq Slots,
         l = "items" => /\ j.op \in {"ReadSettings", "PrepareSend"} /\ j.left \subseteq Items
                        /\ j.op = "PrepareSend" =>
                             j.journal \in DOMAIN disk' /\ disk'[j.journal].snap = j.seen,
         UNCHANGED <<mem, menu, displaced, generation, opBusy, cancelled, reads, edits, runs,
                     strayed, touched>>,
         KeepsSnapshots, JournalInv', PlanInv',
         plans' \in Seq(PlanSet), Len(plans) =< Len(plans'),
         \A p \in DOMAIN plans' : plans'[p].journal \in DOMAIN disk'
  PROVE  IInv'
<1>1. /\ ClientInv(c) /\ Busy(c) /\ opBusy
      /\ \A d \in Clients \ {c} : ~Busy(d)
      /\ job[c] \in Jobs /\ InRange(job[c])
  BY OneIsBusy DEF Reading
<1>2. /\ pc' \in [Clients -> Labels] /\ pc'[c] = l
      /\ \A d \in Clients \ {c} : pc'[d] = pc[d]
  BY GoTo DEF IInv, Labels
<1>3. /\ job' \in [Clients -> Jobs] /\ job'[c] = j
      /\ \A d \in Clients \ {c} : job'[d] = job[d]
  BY SetJob DEF IInv
<1>4. TypeOK'
  <2>1. Len(disk) \in Nat /\ Len(disk') \in Nat /\ Len(plans) \in Nat /\ Len(plans') \in Nat
        /\ Len(disk) =< Len(disk')
    BY DEF KeepsSnapshots, IInv, TypeOK
  <2>2. ASSUME NEW d \in Clients \ {c}
        PROVE  InRange(job[d])'
    <3>1. InRange(job[d]) /\ job'[d] = job[d] /\ runs' = runs
      BY <1>3 DEF IInv, TypeOK
    <3> QED
      BY <2>1, <3>1 DEF InRange
  <2>3. InRange(job[c])'
    BY <1>1, <1>3, <2>1 DEF InRange
  <2> QED
    BY <1>2, <1>3, <2>2, <2>3 DEF IInv, TypeOK, KeepsSnapshots
<1>5. ~Executing(c) /\ job[c].op \in {"ReadAll", "ReadSettings", "PrepareSend"}
  BY <1>1 DEF ClientInv, OpInv, Reading, Executing
<1>6. ~Executing(c)' /\ ~Ending(c)' /\ \A d \in Clients \ {c} : ~Busy(d)'
  BY <1>1, <1>2, <1>3, <1>5 DEF Executing, Busy, Ending
<1>7. LockInv'
  BY <1>1, <1>6 DEF LockInv
<1>8. OpInv(c)'
  BY <1>1, <1>2, <1>3, <1>6 DEF ClientInv, OpInv, Running
<1>9. SessionInv(c)' /\ LoopInv(c)' /\ DriftInv(c)' /\ FaultInv(c)'
  BY <1>2, <1>3
     DEF SessionInv, LoopInv, DriftInv, FaultInv, Running, InLoop, Visiting, InBatch
<1>10. AttemptInv(c)' /\ ReportInv(c)' /\ AnswerInv(c)'
  BY <1>2, <1>6
     DEF AttemptInv, ReportInv, AnswerInv, Preparing, InLoop, InBatch, InPair, InDoubt, Running
<1>11. SeamInv(c)'
  BY <1>1, <1>2, <1>3 DEF ClientInv, SeamInv, SameSeams, Reading, Preparing, InLoop, InBatch
<1> QED
  BY <1>4, <1>6, <1>7, <1>8, <1>9, <1>10, <1>11 DEF IInv, ClientInv

(* The plans stand when none is handed over.                               *)
LEMMA PlansStand ==
  ASSUME IInv, KeepsSnapshots, UNCHANGED plans
  PROVE  /\ PlanInv' /\ plans' \in Seq(PlanSet) /\ Len(plans) =< Len(plans')
         /\ \A p \in DOMAIN plans' : plans'[p].journal \in DOMAIN disk'
<1>1. /\ plans \in Seq(PlanSet) /\ Len(plans) \in Nat
      /\ \A p \in DOMAIN plans : plans[p].journal \in DOMAIN disk
  BY DEF IInv, TypeOK
<1>2. \A p \in DOMAIN plans : plans[p].journal \in DOMAIN disk'
  BY <1>1 DEF KeepsSnapshots, IInv, TypeOK
<1>3. PlanInv'
  BY <1>1 DEF PlanInv, IInv, KeepsSnapshots
<1> QED
  BY <1>1, <1>2, <1>3

LEMMA FilesAreTyped ==
  ASSUME NEW f \in DOMAIN Files
  PROVE  Files[f].channels \in Memories /\ Files[f].menus \in Wishing
<1> DEFINE Codeplugs == [channels : Memories, menus : Wishing]
<1>1. Files \in Seq(Codeplugs)
  BY CloneAssumption DEF Memories, Wishing
<1> HIDE DEF Codeplugs
<1>2. Files[f] \in Codeplugs
  BY <1>1
<1> QED
  BY <1>2 DEF Codeplugs

(* A snapshot saved is there, with an empty journal beside it.             *)
LEMMA SnapshotAdds ==
  ASSUME IInv, NEW snap \in Memories, disk' = Append(disk, [snap |-> snap, lines |-> <<>>]),
         UNCHANGED <<runs, touched>>
  PROVE  /\ KeepsSnapshots /\ JournalInv' /\ Len(disk) \in Nat
         /\ Len(disk') = Len(disk) + 1 /\ disk'[Len(disk) + 1].snap = snap
         /\ AttemptLog' = AttemptLog /\ ConfirmLog' = ConfirmLog /\ ChangeLog' = ChangeLog
<1> DEFINE entry == [snap |-> snap, lines |-> <<>>]
<1>1. entry \in Saved /\ entry.snap = snap /\ entry.lines = <<>>
  BY DEF Saved
<1>2. disk \in Seq(Saved) /\ disk' = Append(disk, entry)
  BY DEF IInv, TypeOK
<1> HIDE DEF entry
<1>3. /\ disk' \in Seq(Saved) /\ Len(disk) \in Nat /\ Len(disk') = Len(disk) + 1
      /\ disk'[Len(disk) + 1] = entry
      /\ \A f \in DOMAIN disk : disk'[f] = disk[f]
      /\ DOMAIN disk' = DOMAIN disk \cup {Len(disk) + 1}
  BY <1>1, <1>2
<1>4. KeepsSnapshots
  BY <1>3 DEF KeepsSnapshots
<1>5. ASSUME NEW r, NEW event
      PROVE  Lines(r, event, TRUE)' = Lines(r, event, TRUE)
  <2>1. \A x : x \in Lines(r, event, TRUE) <=>
                \E f \in DOMAIN disk : x \in Named(disk[f].lines, r, event)
    BY DEF Lines, Named
  <2>2. \A x : x \in Lines(r, event, TRUE)' <=>
                \E f \in DOMAIN disk' : x \in Named(disk'[f].lines, r, event)
    BY DEF Lines, Named
  <2>3. Named(entry.lines, r, event) = {}
    BY <1>1, NamedNone
  <2>4. \A x : x \in Lines(r, event, TRUE)' <=> x \in Lines(r, event, TRUE)
    BY <1>3, <2>1, <2>2, <2>3
  <2> QED
    BY <2>4
<1>6. AttemptLog' = AttemptLog /\ ConfirmLog' = ConfirmLog /\ ChangeLog' = ChangeLog
  BY <1>5 DEF AttemptLog, ConfirmLog, Attempted, Confirmed, ChangeLog, Touched
<1>7. JournalInv'
  BY <1>6 DEF IInv, JournalInv
<1> QED
  BY <1>1, <1>3, <1>4, <1>6, <1>7

(* An operation that reads is refused.                                     *)
LEMMA RefusedReading ==
  ASSUME IInv, NEW c \in Clients, pc[c] \in Reading, Refuse(c), KeepsSnapshots, JournalInv'
  PROVE  IInv'
<1> DEFINE j == [job[c] EXCEPT !.answer = "refused"]
<1>1. job[c] \in Jobs /\ InRange(job[c])
  BY OneIsBusy DEF Reading
<1>2. /\ j \in Jobs /\ SameOp(j, job[c]) /\ SameSeams(j, job[c])
  BY <1>1 DEF Jobs, SameOp, SameSeams
<1>3. /\ Set(c, j) /\ Goto(c, "return")
      /\ UNCHANGED <<mem, menu, displaced, generation, opBusy, plans, cancelled, reads, edits,
                     runs, strayed, touched>>
  BY DEF Refuse, radioVars, serviceVars, countVars, histVars
<1> HIDE DEF j
<1>4. j.journal \in 0 .. Len(disk')
  BY <1>1, <1>2 DEF SameOp, InRange, KeepsSnapshots, IInv, TypeOK
<1>5. /\ PlanInv' /\ plans' \in Seq(PlanSet) /\ Len(plans) =< Len(plans')
      /\ \A p \in DOMAIN plans' : plans'[p].journal \in DOMAIN disk'
  BY <1>3, PlansStand
<1> QED
  BY <1>2, <1>3, <1>4, <1>5, ReadingStep DEF SameOp

(* A step of the reads that goes on with them, or returns what they read.  *)
LEMMA ReadingGoesOn ==
  ASSUME IInv, NEW c \in Clients, pc[c] \in Reading,
         NEW l \in {pc[c], "return"}, Goto(c, l),
         NEW j \in Jobs, Set(c, j), SameOp(j, job[c]), SameSeams(j, job[c]),
         j.left \subseteq job[c].left,
         pc[c] = "items" => j.seen = job[c].seen,
         UNCHANGED <<radioVars, serviceVars, cancelled, disk, countVars, histVars>>
  PROVE  IInv'
<1>1. ClientInv(c) /\ job[c] \in Jobs /\ InRange(job[c])
  BY OneIsBusy DEF Reading
<1>2. UNCHANGED <<mem, menu, displaced, generation, opBusy, plans, cancelled, reads, edits,
                  runs, strayed, touched, disk>>
  BY DEF radioVars, serviceVars, countVars, histVars
<1>3. KeepsSnapshots /\ JournalInv'
  BY <1>2, JournalUntouched
<1>4. /\ PlanInv' /\ plans' \in Seq(PlanSet) /\ Len(plans) =< Len(plans')
      /\ \A p \in DOMAIN plans' : plans'[p].journal \in DOMAIN disk'
  BY <1>2, <1>3, PlansStand
<1>5. j.journal \in 0 .. Len(disk')
  BY <1>1, <1>2 DEF SameOp, InRange
<1>6. l \in {"read", "items", "return"}
  BY DEF Reading
<1>7. l = "read" => pc[c] = "read" /\ j.left \subseteq Slots
  BY <1>1 DEF ClientInv, LoopInv
<1>8. l = "items" => /\ j.op \in {"ReadSettings", "PrepareSend"} /\ j.left \subseteq Items
                     /\ j.op = "PrepareSend" =>
                          j.journal \in DOMAIN disk' /\ disk'[j.journal].snap = j.seen
  BY <1>1, <1>2 DEF ClientInv, LoopInv, OpInv, SameOp
<1> QED
  BY <1>2, <1>3, <1>4, <1>5, <1>6, <1>7, <1>8, ReadingStep DEF SameOp

LEMMA ReadSlotKeeps ==
  ASSUME IInv, NEW c \in Clients, ReadSlot(c)
  PROVE  IInv'
<1> DEFINE s == Min(job[c].left)
           rest == job[c].left \ {s}
<1>1. /\ pc[c] = "read" /\ pc[c] \in Reading /\ UNCHANGED pc /\ job[c].left # {}
      /\ UNCHANGED <<radioVars, serviceVars, cancelled, disk, countVars, histVars>>
  BY DEF ReadSlot, Reading
<1>2. ClientInv(c) /\ job[c] \in Jobs
  BY <1>1, OneIsBusy
<1>3. Goto(c, pc[c])
  BY <1>1 DEF Goto, IInv, TypeOK
<1>4. s \in Slots
  BY <1>1, <1>2, MinIsMember, Numbered DEF ClientInv, LoopInv
<1>5. PICK seen \in Memories, partial \in BOOLEAN :
        Set(c, [job[c] EXCEPT !.left = rest, !.seen = seen, !.partial = partial])
  <2> HIDE DEF s
  <2> DEFINE seen == [job[c].seen EXCEPT ![s] = mem[s]]
  <2>1. job[c].seen \in Memories /\ job[c].partial \in BOOLEAN /\ mem \in Memories
    BY <1>2 DEF Jobs, IInv, TypeOK
  <2>2. seen \in Memories
    BY <1>4, <2>1 DEF Memories
  <2>3. CASE Set(c, [job[c] EXCEPT !.left = rest, !.seen = seen])
    <3>1. [job[c] EXCEPT !.left = rest, !.seen = seen]
            = [job[c] EXCEPT !.left = rest, !.seen = seen, !.partial = job[c].partial]
      BY <1>2 DEF Jobs
    <3> HIDE DEF seen, rest
    <3> QED
      BY <2>1, <2>2, <2>3, <3>1
  <2>4. CASE Set(c, [job[c] EXCEPT !.left = rest, !.partial = TRUE])
    <3>1. [job[c] EXCEPT !.left = rest, !.partial = TRUE]
            = [job[c] EXCEPT !.left = rest, !.seen = job[c].seen, !.partial = TRUE]
      BY <1>2 DEF Jobs
    <3> HIDE DEF rest
    <3> QED
      BY <2>1, <2>4, <3>1
  <2> QED
    BY <2>3, <2>4 DEF ReadSlot, s
<1> DEFINE j == [job[c] EXCEPT !.left = rest, !.seen = seen, !.partial = partial]
<1>6. /\ j \in Jobs /\ SameOp(j, job[c]) /\ SameSeams(j, job[c])
      /\ j.left \subseteq job[c].left
  BY <1>2 DEF Jobs, SameOp, SameSeams
<1>7. Set(c, j)
  BY <1>5
<1> HIDE DEF j
<1> QED
  BY <1>1, <1>3, <1>6, <1>7, ReadingGoesOn

LEMMA ReadItemKeeps ==
  ASSUME IInv, NEW c \in Clients, ReadItem(c)
  PROVE  IInv'
<1> DEFINE i == Min(job[c].left)
           rest == job[c].left \ {i}
<1>1. /\ pc[c] = "items" /\ pc[c] \in Reading /\ UNCHANGED pc /\ job[c].left # {}
      /\ UNCHANGED <<radioVars, serviceVars, cancelled, disk, countVars, histVars>>
  BY DEF ReadItem, Reading
<1>2. ClientInv(c) /\ job[c] \in Jobs
  BY <1>1, OneIsBusy
<1>3. Goto(c, pc[c])
  BY <1>1 DEF Goto, IInv, TypeOK
<1>4. i \in Items
  BY <1>1, <1>2, MinIsMember, Numbered DEF ClientInv, LoopInv
<1>5. PICK settings \in Wishing :
        Set(c, [job[c] EXCEPT !.left = rest, !.settings = settings])
  <2> HIDE DEF i
  <2> DEFINE settings == [job[c].settings EXCEPT ![i] = Files[job[c].file].menus[i]]
  <2>1. job[c].settings \in Wishing
    BY <1>2 DEF Jobs
  <2>2. CASE Set(c, [job[c] EXCEPT !.left = rest])
    <3>1. [job[c] EXCEPT !.left = rest]
            = [job[c] EXCEPT !.left = rest, !.settings = job[c].settings]
      BY <1>2 DEF Jobs
    <3> HIDE DEF rest
    <3> QED
      BY <2>1, <2>2, <3>1
  <2>3. CASE job[c].op = "PrepareSend"
             /\ Set(c, [job[c] EXCEPT !.left = rest, !.settings = settings])
    <3>1. job[c].file \in DOMAIN Files
      BY <1>2, <2>3 DEF ClientInv, OpInv
    <3>2. Files[job[c].file].menus \in Wishing
      BY <3>1, FilesAreTyped
    <3>3. settings \in Wishing
      BY <1>4, <2>1, <3>2 DEF Wishing
    <3> HIDE DEF rest, settings
    <3> QED
      BY <2>3, <3>3
  <2> QED
    BY <2>2, <2>3 DEF ReadItem, i
<1> DEFINE j == [job[c] EXCEPT !.left = rest, !.settings = settings]
<1>6. /\ j \in Jobs /\ SameOp(j, job[c]) /\ SameSeams(j, job[c])
      /\ j.left \subseteq job[c].left /\ j.seen = job[c].seen
  BY <1>2 DEF Jobs, SameOp, SameSeams
<1>7. Set(c, j)
  BY <1>5
<1> HIDE DEF j
<1> QED
  BY <1>1, <1>3, <1>6, <1>7, ReadingGoesOn

LEMMA ReadFailsKeeps ==
  ASSUME IInv, NEW c \in Clients, ReadFails(c)
  PROVE  IInv'
<1>1. pc[c] \in Reading /\ Refuse(c) /\ UNCHANGED <<disk, runs, touched>>
  BY DEF ReadFails, Reading, Refuse, countVars, histVars
<1> QED
  BY <1>1, JournalUntouched, RefusedReading

LEMMA ReadReturnsKeeps ==
  ASSUME IInv, NEW c \in Clients, ReadReturns(c)
  PROVE  IInv'
<1> DEFINE j == [job[c] EXCEPT !.answer = "done"]
<1>1. /\ pc[c] \in Reading /\ Goto(c, "return") /\ Set(c, j)
      /\ UNCHANGED <<radioVars, serviceVars, cancelled, disk, countVars, histVars>>
  BY DEF ReadReturns, Reading
<1>2. job[c] \in Jobs
  BY <1>1, OneIsBusy DEF Reading
<1>3. /\ j \in Jobs /\ SameOp(j, job[c]) /\ SameSeams(j, job[c])
      /\ j.left = job[c].left /\ j.seen = job[c].seen
  BY <1>2 DEF Jobs, SameOp, SameSeams
<1> HIDE DEF j
<1> QED
  BY <1>1, <1>3, ReadingGoesOn

LEMMA SaveSnapshotKeeps ==
  ASSUME IInv, NEW c \in Clients, SaveSnapshot(c)
  PROVE  IInv'
<1>1. /\ pc[c] = "read" /\ pc[c] \in Reading /\ job[c].op = "PrepareSend"
      /\ disk' = Append(disk, [snap |-> job[c].seen, lines |-> <<>>])
  BY DEF SaveSnapshot, Reading
<1>2. ClientInv(c) /\ job[c] \in Jobs /\ InRange(job[c])
  BY <1>1, OneIsBusy
<1>3. UNCHANGED <<mem, menu, displaced, generation, opBusy, plans, cancelled, reads, edits,
                  runs, strayed, touched>>
  BY DEF SaveSnapshot, Refuse, radioVars, serviceVars, countVars, histVars
<1>4. job[c].seen \in Memories
  BY <1>2 DEF Jobs
<1>5. /\ KeepsSnapshots /\ JournalInv' /\ Len(disk) \in Nat
      /\ Len(disk') = Len(disk) + 1 /\ disk'[Len(disk) + 1].snap = job[c].seen
  BY <1>1, <1>3, <1>4, SnapshotAdds
<1>6. CASE Refuse(c)
  BY <1>1, <1>5, <1>6, RefusedReading
<1>7. CASE /\ Goto(c, "items")
           /\ Set(c, [job[c] EXCEPT !.journal = NextJournal, !.left = Wishes(job[c].file)])
  <2> DEFINE journal == Len(disk) + 1
             wishes == Wishes(job[c].file)
             j == [job[c] EXCEPT !.journal = journal, !.left = wishes]
  <2>1. journal \in Nat /\ wishes \subseteq Items
    BY <1>5 DEF Wishes
  <2>2. Set(c, j)
    BY <1>7 DEF NextJournal
  <2> HIDE DEF journal, wishes
  <2>3. /\ j \in Jobs /\ SameSeams(j, job[c])
        /\ j.op = job[c].op /\ j.file = job[c].file /\ j.run = job[c].run
        /\ j.plan = job[c].plan /\ j.confirmed = job[c].confirmed
        /\ j.journal = journal /\ j.left = wishes /\ j.seen = job[c].seen
    BY <1>2, <2>1 DEF Jobs, SameSeams
  <2> HIDE DEF j
  <2>4. journal \in DOMAIN disk' /\ journal \in 0 .. Len(disk')
        /\ disk'[journal].snap = job[c].seen
    BY <1>5 DEF journal, KeepsSnapshots
  <2>5. /\ PlanInv' /\ plans' \in Seq(PlanSet) /\ Len(plans) =< Len(plans')
        /\ \A p \in DOMAIN plans' : plans'[p].journal \in DOMAIN disk'
    BY <1>3, <1>5, PlansStand
  <2> QED
    BY <1>1, <1>3, <1>5, <1>7, <2>1, <2>2, <2>3, <2>4, <2>5, ReadingStep
<1> QED
  BY <1>6, <1>7 DEF SaveSnapshot

LEMMA SnapshotFailsKeeps ==
  ASSUME IInv, NEW c \in Clients, SnapshotFails(c)
  PROVE  IInv'
<1>1. pc[c] \in Reading /\ Refuse(c) /\ UNCHANGED <<disk, runs, touched>>
  BY DEF SnapshotFails, Reading, Refuse, countVars, histVars
<1> QED
  BY <1>1, JournalUntouched, RefusedReading

LEMMA HandOverPlanKeeps ==
  ASSUME IInv, NEW c \in Clients, HandOverPlan(c)
  PROVE  IInv'
<1> DEFINE line == Line(c, "prepare", 0, TRUE)
           plan == [baseline |-> job[c].seen, candidate |-> Files[job[c].file].channels,
                    settings |-> job[c].settings, generation |-> generation,
                    journal |-> job[c].journal]
<1>1. pc[c] = "items" /\ pc[c] \in Reading /\ job[c].op = "PrepareSend"
  BY DEF HandOverPlan, Reading
<1>2. /\ ClientInv(c) /\ job[c] \in Jobs /\ InRange(job[c])
      /\ job[c].journal \in DOMAIN disk /\ disk[job[c].journal].snap = job[c].seen
      /\ job[c].file \in DOMAIN Files
  BY <1>1, OneIsBusy DEF ClientInv, OpInv
<1>3. line \in Records /\ Quiet(line)
  <2>1. job[c].run \in Nat
    BY <1>2 DEF Jobs
  <2> QED
    BY <2>1 DEF Line, Records, Events, Quiet
<1>4. UNCHANGED <<mem, menu, displaced, generation, opBusy, cancelled, reads, edits,
                  runs, strayed, touched>>
  BY DEF HandOverPlan, Refuse, radioVars, serviceVars, countVars, histVars
<1>5. \/ Log(c, <<line>>) /\ plans' = Append(plans, plan) /\ Goto(c, "return")
           /\ Set(c, [job[c] EXCEPT !.answer = "done"])
      \/ LogFails(c, line) /\ Refuse(c)
  BY DEF HandOverPlan
<1> HIDE DEF line
<1>6. PICK lines \in {<<>>, <<line>>} : Log(c, lines)
  BY <1>5 DEF LogFails
<1>7. KeepsSnapshots /\ Len(disk') = Len(disk) /\ JournalInv'
  BY <1>2, <1>3, <1>4, <1>6, QuietLine
<1>8. CASE Refuse(c)
  BY <1>1, <1>7, <1>8, RefusedReading
<1>9. CASE plans' = Append(plans, plan) /\ Goto(c, "return")
           /\ Set(c, [job[c] EXCEPT !.answer = "done"])
  <2>1. /\ plan \in PlanSet /\ plan.baseline = job[c].seen /\ plan.journal = job[c].journal
    <3>1. Files[job[c].file].channels \in Memories
      BY <1>2, FilesAreTyped
    <3>2. /\ job[c].seen \in Memories /\ job[c].settings \in Wishing
          /\ job[c].journal \in Nat /\ generation \in Nat
      BY <1>2 DEF Jobs, IInv, TypeOK
    <3> QED
      BY <3>1, <3>2 DEF PlanSet
  <2> HIDE DEF plan
  <2>2. plans \in Seq(PlanSet)
    BY DEF IInv, TypeOK
  <2>3. /\ plans' \in Seq(PlanSet) /\ Len(plans) =< Len(plans')
        /\ DOMAIN plans' = DOMAIN plans \cup {Len(plans) + 1}
        /\ plans'[Len(plans) + 1] = plan
        /\ \A p \in DOMAIN plans : plans'[p] = plans[p]
    BY <1>9, <2>1, <2>2
  <2>4. \A p \in DOMAIN plans' : plans'[p].journal \in DOMAIN disk
    BY <1>2, <2>1, <2>3 DEF IInv, TypeOK
  <2>5. DOMAIN disk' = DOMAIN disk
    BY <1>7 DEF KeepsSnapshots, IInv, TypeOK
  <2>6. PlanInv'
    <3>1. \A p \in DOMAIN plans' : disk[plans'[p].journal].snap = plans'[p].baseline
      BY <1>2, <2>1, <2>3 DEF IInv, PlanInv
    <3> QED
      BY <1>7, <2>4, <3>1 DEF PlanInv, KeepsSnapshots
  <2> DEFINE j == [job[c] EXCEPT !.answer = "done"]
  <2>7. j \in Jobs /\ SameOp(j, job[c]) /\ SameSeams(j, job[c])
    BY <1>2 DEF Jobs, SameOp, SameSeams
  <2>8. Set(c, j)
    BY <1>9
  <2> HIDE DEF j
  <2>9. j.journal \in 0 .. Len(disk')
    BY <1>2, <1>7, <2>7 DEF SameOp, InRange
  <2> QED
    BY <1>1, <1>4, <1>7, <1>9, <2>3, <2>4, <2>5, <2>6, <2>7, <2>8, <2>9, ReadingStep
       DEF SameOp
<1> QED
  BY <1>5, <1>8, <1>9

(* Execute is refused before it has done anything.                         *)
LEMMA RefusePlanKeeps ==
  ASSUME IInv, NEW c \in Clients, RefusePlan(c)
  PROVE  IInv'
<1> DEFINE j == [job[c] EXCEPT !.answer = "refused"]
<1>1. /\ pc[c] = "check" /\ Set(c, j) /\ Goto(c, "return")
      /\ UNCHANGED <<serviceVars, cancelled, countVars>>
      /\ UNCHANGED <<mem, menu, displaced, disk, runs, strayed, touched>>
  BY DEF RefusePlan, Refuse, radioVars, countVars, histVars
<1>2. ClientInv(c) /\ Executing(c) /\ job[c] \in Jobs
  BY <1>1, OneIsBusy DEF Running
<1>3. /\ j \in Jobs /\ SameOp(j, job[c]) /\ SameSeams(j, job[c])
      /\ j.answer = "refused"
  BY <1>2 DEF Jobs, SameOp, SameSeams
<1> HIDE DEF j
<1>4. /\ KeepsSnapshots /\ Len(disk') = Len(disk) /\ JournalInv'
      /\ AttemptLog' = AttemptLog /\ ConfirmLog' = ConfirmLog /\ ChangeLog' = ChangeLog
  BY <1>1, JournalUntouched
<1>5. /\ TypeOK' /\ LockInv' /\ PlanInv' /\ OpInv(c)' /\ SessionInv(c)'
      /\ \A d \in Clients \ {c} : ~Busy(d)'
      /\ pc'[c] = "return" /\ job'[c] = j /\ job'[c].run = job[c].run
  <2>1. "return" \in (Running \ {"check"}) \cup {"restore", "return"}
        /\ pc[c] \in Running \cup {"restore"} /\ pc'[c] = "return"
    BY <1>1 DEF Running, Goto, IInv, TypeOK
  <2> QED
    BY <1>1, <1>3, <1>4, <2>1, StillTyped, ExecuteStep
<1>6. LoopInv(c)' /\ DriftInv(c)' /\ FaultInv(c)' /\ ReportInv(c)'
  BY <1>5 DEF LoopInv, DriftInv, FaultInv, ReportInv, Preparing, InDoubt, Visiting,
              InLoop, InBatch, Running
<1>7. /\ AttemptLog[job[c].run] = ConfirmLog[job[c].run]
      /\ ChangeLog[job[c].run] = {} /\ displaced = {}
  BY <1>1, <1>2 DEF ClientInv, AttemptInv, ReportInv, SeamInv, Preparing, Running, InDoubt
<1>8. AttemptInv(c)' /\ AnswerInv(c)'
  BY <1>3, <1>4, <1>5, <1>7 DEF AttemptInv, AnswerInv, Preparing, InBatch, InPair
<1>9. SeamInv(c)'
  BY <1>1, <1>5, <1>7 DEF SeamInv, Reading, Preparing, InLoop, InBatch
<1> QED
  BY <1>4, <1>5, <1>6, <1>8, <1>9 DEF IInv, ClientInv

-----------------------------------------------------------------------------
(* The beginning of an operation.                                          *)

LEMMA BeginKeeps ==
  ASSUME IInv, NEW c \in Clients, NEW l \in {"read", "items", "check"}, NEW start \in Jobs,
         Begin(c, l, start), InRange(start)',
         start.held = {}, start.unheld = {}, start.report = NoReport, start.answer = "none",
         reads' \in Nat, runs' \in Nat, runs =< runs',
         l = "read" => start.op \in {"ReadAll", "PrepareSend"} /\ start.left \subseteq Slots,
         l = "items" => start.op = "ReadSettings" /\ start.left \subseteq Items,
         l = "check" => start.op = "Execute",
         start.op = "Execute" =>
           /\ l = "check" /\ start.plan \in DOMAIN plans /\ start.confirmed \in DOMAIN plans
           /\ start.journal = plans[start.plan].journal
           /\ start.run = runs + 1 /\ runs' = runs + 1,
         start.op = "PrepareSend" => start.file \in DOMAIN Files
  PROVE  IInv'
<1>1. /\ pc[c] = "idle" /\ ~opBusy /\ opBusy' = TRUE /\ Goto(c, l) /\ Set(c, start)
      /\ UNCHANGED <<mem, menu, displaced, generation, plans, cancelled, disk, edits,
                     strayed, touched>>
  BY DEF Begin, Acquire, Set, radioVars, histVars
<1>2. displaced = {} /\ \A d \in Clients : ~Busy(d)
  BY <1>1 DEF IInv, LockInv
<1>3. /\ pc' \in [Clients -> Labels] /\ pc'[c] = l
      /\ \A d \in Clients \ {c} : pc'[d] = pc[d]
  BY <1>1, GoTo DEF IInv, Labels
<1>4. /\ job' \in [Clients -> Jobs] /\ job'[c] = start
      /\ \A d \in Clients \ {c} : job'[d] = job[d]
  BY <1>1, SetJob DEF IInv
<1>5. TypeOK'
  <2>1. ASSUME NEW d \in Clients \ {c}
        PROVE  InRange(job[d])'
    <3>1. InRange(job[d]) /\ job'[d] = job[d] /\ runs \in Nat
      BY <1>4 DEF IInv, TypeOK
    <3> QED
      BY <1>1, <3>1 DEF InRange
  <2>2. InRange(job[c])'
    BY <1>4 DEF InRange
  <2>3. touched' \subseteq (1 .. runs') \X Slots
    <3>1. touched \subseteq (1 .. runs) \X Slots /\ runs \in Nat
      BY DEF IInv, TypeOK
    <3>2. 1 .. runs \subseteq 1 .. runs'
      BY <3>1
    <3> QED
      BY <1>1, <3>1, <3>2
  <2> QED
    BY <1>1, <1>3, <1>4, <2>1, <2>2, <2>3 DEF IInv, TypeOK
<1>6. \A d \in Clients \ {c} : ~Busy(d)'
  BY <1>2, <1>3 DEF Busy
<1>7. LockInv' /\ PlanInv'
  BY <1>1, <1>6 DEF LockInv, PlanInv, IInv
<1>8. AttemptLog' = AttemptLog /\ ConfirmLog' = ConfirmLog /\ ChangeLog' = ChangeLog
  BY <1>1 DEF AttemptLog, ConfirmLog, ChangeLog, Attempted, Confirmed, Touched, Lines
<1>9. JournalInv'
  <2>1. runs \in Nat
    BY DEF IInv, TypeOK
  <2> QED
    BY <1>8, <2>1 DEF IInv, JournalInv
<1>10. OpInv(c)'
  <2>1. Executing(c)' <=> start.op = "Execute"
    BY <1>4 DEF Executing
  <2>2. Plan(c)' = plans[start.plan]
    BY <1>1, <1>4 DEF Plan
  <2>3. start.op = "Execute" => runs' # 0
    BY DEF IInv, TypeOK
  <2> QED
    BY <1>1, <1>3, <1>4, <2>1, <2>2, <2>3 DEF OpInv, Running
<1>11. SessionInv(c)' /\ LoopInv(c)' /\ DriftInv(c)' /\ FaultInv(c)'
  BY <1>3, <1>4
     DEF SessionInv, LoopInv, DriftInv, FaultInv, Running, InLoop, Visiting, InBatch
<1>12. l = "check" =>
         /\ AttemptLog[start.run] = {} /\ ConfirmLog[start.run] = {}
         /\ ChangeLog[start.run] = {}
  <2>1. runs \in Nat
    BY DEF IInv, TypeOK
  <2> QED
    BY <2>1 DEF IInv, JournalInv
<1>13. AttemptInv(c)' /\ ReportInv(c)' /\ AnswerInv(c)'
  <2>1. NoReport.verified = {} /\ NoReport.failed = {} /\ NoReport.written = {}
    BY DEF NoReport
  <2> QED
    BY <1>3, <1>4, <1>8, <1>12, <2>1
       DEF AttemptInv, ReportInv, AnswerInv, Preparing, InLoop, InBatch, InPair, InDoubt,
           Running, Ending
<1>14. SeamInv(c)'
  BY <1>1, <1>2, <1>3, <1>4 DEF SeamInv, Reading, Preparing, InLoop, InBatch
<1> QED
  BY <1>5, <1>6, <1>7, <1>9, <1>10, <1>11, <1>13, <1>14 DEF IInv, ClientInv

LEMMA StartKeeps ==
  ASSUME IInv, NEW c \in Clients, Start(c)
  PROVE  IInv'
<1>1. /\ runs \in Nat /\ reads \in Nat /\ Len(Files) \in Nat /\ Len(plans) \in Nat
      /\ Len(disk) \in Nat
  BY CloneAssumption DEF IInv, TypeOK
<1>2. CASE BeginReadAll(c)
  <2> DEFINE start == [NoJob EXCEPT !.op = "ReadAll", !.left = Slots]
  <2>1. /\ start \in Jobs /\ start.op = "ReadAll" /\ start.left = Slots
        /\ start.file = 0 /\ start.journal = 0 /\ start.plan = 0 /\ start.confirmed = 0
        /\ start.run = 0 /\ start.held = {} /\ start.unheld = {}
        /\ start.report = NoReport /\ start.answer = "none"
    BY NoJobIsJob DEF Jobs, NoJob
  <2>2. Begin(c, "read", start) /\ reads' \in Nat /\ runs' = runs
    BY <1>1, <1>2 DEF BeginReadAll
  <2> HIDE DEF start
  <2>3. InRange(start)'
    BY <1>1, <2>1, <2>2 DEF InRange, Begin
  <2> QED
    BY <1>1, <2>1, <2>2, <2>3, BeginKeeps
<1>3. CASE BeginReadSettings(c)
  <2> DEFINE start == [NoJob EXCEPT !.op = "ReadSettings", !.left = Items]
  <2>1. /\ start \in Jobs /\ start.op = "ReadSettings" /\ start.left = Items
        /\ start.file = 0 /\ start.journal = 0 /\ start.plan = 0 /\ start.confirmed = 0
        /\ start.run = 0 /\ start.held = {} /\ start.unheld = {}
        /\ start.report = NoReport /\ start.answer = "none"
    BY NoJobIsJob DEF Jobs, NoJob
  <2>2. Begin(c, "items", start) /\ reads' \in Nat /\ runs' = runs
    BY <1>1, <1>3 DEF BeginReadSettings
  <2> HIDE DEF start
  <2>3. InRange(start)'
    BY <1>1, <2>1, <2>2 DEF InRange, Begin
  <2> QED
    BY <1>1, <2>1, <2>2, <2>3, BeginKeeps
<1>4. ASSUME NEW f \in DOMAIN Files, BeginPrepare(c, f)
      PROVE  IInv'
  <2> DEFINE start == [NoJob EXCEPT !.op = "PrepareSend", !.file = f, !.left = Slots]
  <2>1. f \in Nat /\ f \in 0 .. Len(Files)
    BY CloneAssumption
  <2>2. /\ start \in Jobs /\ start.op = "PrepareSend" /\ start.left = Slots
        /\ start.file = f /\ start.journal = 0 /\ start.plan = 0 /\ start.confirmed = 0
        /\ start.run = 0 /\ start.held = {} /\ start.unheld = {}
        /\ start.report = NoReport /\ start.answer = "none"
    BY <2>1, NoJobIsJob DEF Jobs, NoJob
  <2>3. Begin(c, "read", start) /\ reads' = reads /\ runs' = runs
    BY <1>4 DEF BeginPrepare
  <2> HIDE DEF start
  <2>4. InRange(start)'
    BY <1>1, <2>1, <2>2, <2>3 DEF InRange, Begin
  <2> QED
    BY <1>1, <2>2, <2>3, <2>4, BeginKeeps
<1>5. ASSUME NEW p \in DOMAIN plans, NEW q \in DOMAIN plans, BeginExecute(c, p, q)
      PROVE  IInv'
  <2>1. /\ p \in Nat /\ p \in 0 .. Len(plans) /\ q \in Nat /\ q \in 0 .. Len(plans)
        /\ plans[p].journal \in Nat /\ plans[p].journal \in 0 .. Len(disk) /\ runs + 1 \in Nat
    BY <1>1 DEF IInv, TypeOK
  <2>2. PICK journal \in Nat, run \in Nat : journal = plans[p].journal /\ run = runs + 1
    BY <2>1
  <2> DEFINE start == [NoJob EXCEPT !.op = "Execute", !.plan = p, !.confirmed = q,
                                    !.journal = journal, !.run = run]
  <2>3. /\ start \in Jobs /\ start.op = "Execute"
        /\ start.file = 0 /\ start.journal = journal /\ start.plan = p /\ start.confirmed = q
        /\ start.run = run /\ start.held = {} /\ start.unheld = {}
        /\ start.report = NoReport /\ start.answer = "none"
    BY <2>1, NoJobIsJob DEF Jobs, NoJob
  <2>4. Begin(c, "check", start) /\ reads' = reads /\ runs' = run
    BY <1>5, <2>2 DEF BeginExecute
  <2> HIDE DEF start
  <2>5. run \in 0 .. runs' /\ runs =< runs'
    BY <1>1, <2>2, <2>4
  <2>6. start.journal = plans[start.plan].journal
    BY <2>2, <2>3
  <2>7. InRange(start)'
    <3>1. plans' = plans /\ disk' = disk
      BY <2>4 DEF Begin
    <3> QED
      BY <1>1, <2>1, <2>2, <2>3, <2>5, <3>1 DEF InRange
  <2> QED
    BY <1>1, <2>2, <2>3, <2>4, <2>5, <2>6, <2>7, BeginKeeps
<1> QED
  BY <1>2, <1>3, <1>4, <1>5 DEF Start

-----------------------------------------------------------------------------
(* The environment.                                                        *)

(* A client stands where it stood when others move, and what they change   *)
(* of its slot is counted as strayed.                                      *)
LEMMA ClientStands ==
  ASSUME IInv, NEW c \in Clients, ClientInv(c), DriftInv(c)',
         UNCHANGED <<pc, job, plans, disk, runs, touched, displaced, generation>>
  PROVE  ClientInv(c)'
<1>1. AttemptLog' = AttemptLog /\ ConfirmLog' = ConfirmLog /\ ChangeLog' = ChangeLog
  BY DEF AttemptLog, ConfirmLog, ChangeLog, Attempted, Confirmed, Touched, Lines
<1>2. /\ Plan(c)' = Plan(c) /\ Shown(c)' = Shown(c)
      /\ Todo(c)' = Todo(c) /\ Batch(c)' = Batch(c)
      /\ Executing(c)' = Executing(c) /\ Ending(c)' = Ending(c)
  BY DEF Plan, Shown, Todo, Batch, Deltas, SettingDeltas, Executing, Ending
<1>3. OpInv(c)' /\ SessionInv(c)' /\ LoopInv(c)'
  BY <1>2 DEF ClientInv, OpInv, SessionInv, LoopInv
<1>4. AttemptInv(c)' /\ FaultInv(c)' /\ ReportInv(c)' /\ AnswerInv(c)' /\ SeamInv(c)'
  BY <1>1, <1>2 DEF ClientInv, AttemptInv, FaultInv, ReportInv, AnswerInv, SeamInv
<1> QED
  BY <1>3, <1>4 DEF ClientInv

LEMMA OthersKeep ==
  ASSUME IInv, UNCHANGED <<pc, job, plans, disk, runs, touched, displaced, generation, opBusy>>,
         mem' \in Memories, menu' \in [Items -> Values], strayed' \subseteq Slots,
         cancelled' \in [Clients -> BOOLEAN], reads' \in Nat, edits' \in Nat,
         \A c \in Clients : Busy(c) => DriftInv(c)'
  PROVE  IInv'
<1>1. TypeOK'
  BY DEF IInv, TypeOK, InRange
<1>2. LockInv' /\ PlanInv'
  BY DEF IInv, LockInv, PlanInv, Busy
<1>3. JournalInv'
  BY JournalUntouched
<1>4. \A c \in Clients : Busy(c)' => ClientInv(c)'
  BY ClientStands DEF IInv, Busy
<1> QED
  BY <1>1, <1>2, <1>3, <1>4 DEF IInv

LEMMA CancelKeeps ==
  ASSUME IInv, NEW c \in Clients, Cancel(c)
  PROVE  IInv'
<1>1. /\ UNCHANGED <<pc, job, plans, disk, runs, touched, displaced, generation, opBusy>>
      /\ UNCHANGED <<mem, menu, strayed, reads, edits>>
      /\ cancelled' = [cancelled EXCEPT ![c] = TRUE]
  BY DEF Cancel, radioVars, serviceVars, countVars, histVars
<1>2. /\ mem' \in Memories /\ menu' \in [Items -> Values] /\ strayed' \subseteq Slots
      /\ cancelled' \in [Clients -> BOOLEAN] /\ reads' \in Nat /\ edits' \in Nat
  BY <1>1 DEF IInv, TypeOK
<1>3. \A d \in Clients : Busy(d) => DriftInv(d)'
  BY <1>1 DEF IInv, ClientInv, DriftInv, Plan
<1> QED
  BY <1>1, <1>2, <1>3, OthersKeep

LEMMA OperatorEditsKeeps ==
  ASSUME IInv, NEW s \in Slots, NEW v \in Contents, OperatorEdits(s, v)
  PROVE  IInv'
<1>1. /\ UNCHANGED <<pc, job, plans, disk, runs, touched, displaced, generation, opBusy>>
      /\ UNCHANGED <<menu, cancelled, reads>> /\ edits' = edits + 1
      /\ mem' = [mem EXCEPT ![s] = v] /\ strayed' = strayed \cup {s}
  BY DEF OperatorEdits, serviceVars, clientVars
<1>2. /\ mem' \in Memories /\ menu' \in [Items -> Values] /\ strayed' \subseteq Slots
      /\ cancelled' \in [Clients -> BOOLEAN] /\ reads' \in Nat /\ edits' \in Nat
  BY <1>1 DEF IInv, TypeOK, Memories
<1>3. \A d \in Clients : Busy(d) => DriftInv(d)'
  <2> SUFFICES ASSUME NEW d \in Clients, pc[d] \in {"attempt", "write"}
               PROVE  \/ mem'[job[d].at] = Plan(d).baseline[job[d].at]
                      \/ job[d].at \in strayed'
    BY <1>1 DEF DriftInv, Plan
  <2>1. job[d].at \in Slots /\ ClientInv(d)
    BY InTheLoop DEF InLoop, Visiting
  <2>2. job[d].at = s \/ mem'[job[d].at] = mem[job[d].at]
    BY <1>1, <2>1 DEF IInv, TypeOK, Memories
  <2> QED
    BY <1>1, <2>1, <2>2 DEF ClientInv, DriftInv
<1> QED
  BY <1>1, <1>2, <1>3, OthersKeep

LEMMA OperatorSetsKeeps ==
  ASSUME IInv, NEW i \in Items, NEW v \in Values, OperatorSets(i, v)
  PROVE  IInv'
<1>1. /\ UNCHANGED <<pc, job, plans, disk, runs, touched, displaced, generation, opBusy>>
      /\ UNCHANGED <<mem, cancelled, reads, strayed>> /\ edits' = edits + 1
      /\ menu' = [menu EXCEPT ![i] = v]
  BY DEF OperatorSets, serviceVars, clientVars, histVars
<1>2. /\ mem' \in Memories /\ menu' \in [Items -> Values] /\ strayed' \subseteq Slots
      /\ cancelled' \in [Clients -> BOOLEAN] /\ reads' \in Nat /\ edits' \in Nat
  BY <1>1 DEF IInv, TypeOK
<1>3. \A d \in Clients : Busy(d) => DriftInv(d)'
  BY <1>1 DEF IInv, ClientInv, DriftInv, Plan
<1> QED
  BY <1>1, <1>2, <1>3, OthersKeep

LEMMA ReconnectKeeps ==
  ASSUME IInv, Reconnect
  PROVE  IInv'
<1>1. /\ ~opBusy /\ generation' = generation + 1
      /\ UNCHANGED <<menu, displaced, opBusy, plans, pc, job, cancelled, disk, reads, edits,
                     runs, strayed, touched>>
      /\ mem' = mem \/ mem' \in [Slots -> Contents \ {Mangled}]
  BY DEF Reconnect, clientVars, countVars, histVars
<1>2. mem' \in Memories
  BY <1>1 DEF IInv, TypeOK, Memories
<1>3. TypeOK'
  BY <1>1, <1>2 DEF IInv, TypeOK, InRange
<1>4. LockInv' /\ PlanInv' /\ \A c \in Clients : ~Busy(c)'
  BY <1>1 DEF IInv, LockInv, PlanInv, Busy
<1>5. JournalInv'
  BY <1>1, JournalUntouched
<1> QED
  BY <1>3, <1>4, <1>5 DEF IInv

LEMMA CrashKeeps ==
  ASSUME IInv, Crash
  PROVE  IInv'
<1>1. /\ generation' = generation + 1 /\ opBusy' = FALSE /\ plans' = <<>>
      /\ pc' = [c \in Clients |-> "idle"] /\ job' = [c \in Clients |-> NoJob]
      /\ cancelled' = [c \in Clients |-> FALSE] /\ displaced' = {} /\ strayed' = {}
      /\ UNCHANGED <<mem, menu, disk, reads, edits, runs, touched>>
  BY DEF Crash, countVars
<1>2. TypeOK'
  <2>1. /\ pc' \in [Clients -> Labels] /\ job' \in [Clients -> Jobs]
        /\ cancelled' \in [Clients -> BOOLEAN]
    BY <1>1, NoJobIsJob DEF Labels
  <2>2. \A c \in Clients : InRange(job[c])'
    BY <1>1 DEF InRange, NoJob, IInv, TypeOK
  <2>3. /\ mem' \in Memories /\ menu' \in [Items -> Values] /\ displaced' \subseteq Seams
        /\ generation' \in Nat /\ opBusy' \in BOOLEAN
        /\ disk' \in Seq(Saved) /\ reads' \in Nat /\ edits' \in Nat /\ runs' \in Nat
        /\ strayed' \subseteq Slots /\ touched' \subseteq (1 .. runs') \X Slots
    <3>1. generation \in Nat /\ generation' \in Nat
      BY <1>1 DEF IInv, TypeOK
    <3> QED
      BY <1>1, <3>1 DEF IInv, TypeOK
  <2>4. plans' \in Seq(PlanSet) /\ DOMAIN plans' = {}
    BY <1>1
  <2> QED
    BY <2>1, <2>2, <2>3, <2>4 DEF TypeOK
<1>3. LockInv' /\ PlanInv' /\ \A c \in Clients : ~Busy(c)'
  BY <1>1 DEF LockInv, PlanInv, Busy
<1>4. JournalInv'
  BY <1>1, JournalUntouched
<1> QED
  BY <1>2, <1>3, <1>4 DEF IInv

LEMMA StutterKeeps ==
  ASSUME IInv, UNCHANGED vars
  PROVE  IInv'
<1>1. /\ UNCHANGED <<pc, job, plans, disk, runs, touched, displaced, generation, opBusy>>
      /\ UNCHANGED <<mem, menu, strayed, reads, edits, cancelled>>
  BY DEF vars, radioVars, serviceVars, clientVars, countVars, histVars
<1>2. /\ mem' \in Memories /\ menu' \in [Items -> Values] /\ strayed' \subseteq Slots
      /\ cancelled' \in [Clients -> BOOLEAN] /\ reads' \in Nat /\ edits' \in Nat
  BY <1>1 DEF IInv, TypeOK
<1>3. \A d \in Clients : Busy(d) => DriftInv(d)'
  BY <1>1 DEF IInv, ClientInv, DriftInv, Plan
<1> QED
  BY <1>1, <1>2, <1>3, OthersKeep

-----------------------------------------------------------------------------
(* The invariant, and what follows from it.                                *)

LEMMA InitEstablishes == Init => IInv
<1> SUFFICES ASSUME Init
             PROVE  IInv
  OBVIOUS
<1>1. /\ disk = <<>> /\ plans = <<>> /\ runs = 0 /\ touched = {} /\ displaced = {}
      /\ pc = [c \in Clients |-> "idle"] /\ job = [c \in Clients |-> NoJob]
      /\ opBusy = FALSE
  BY DEF Init
<1>2. TypeOK
  <2>1. mem \in Memories
    BY DEF Init, Memories
  <2>2. pc \in [Clients -> Labels] /\ job \in [Clients -> Jobs]
    BY <1>1, NoJobIsJob DEF Labels
  <2>3. \A c \in Clients : InRange(job[c])
    BY <1>1, CloneAssumption DEF InRange, NoJob
  <2>4. disk \in Seq(Saved) /\ plans \in Seq(PlanSet) /\ DOMAIN plans = {}
    BY <1>1
  <2> QED
    BY <2>1, <2>2, <2>3, <2>4 DEF Init, TypeOK
<1>3. LockInv /\ PlanInv /\ \A c \in Clients : ~Busy(c)
  BY <1>1 DEF LockInv, PlanInv, Busy
<1>4. JournalInv
  <2>1. \A r \in Nat : AttemptLog[r] = {} /\ ConfirmLog[r] = {}
    BY <1>1 DEF AttemptLog, ConfirmLog, Attempted, Confirmed, Lines
  <2>2. \A r \in Nat : ChangeLog[r] = {}
    BY <1>1 DEF ChangeLog, Touched
  <2> QED
    BY <2>1, <2>2 DEF JournalInv
<1> QED
  BY <1>2, <1>3, <1>4 DEF IInv

LEMMA StepKeeps ==
  ASSUME IInv, NEW c \in Clients, Step(c)
  PROVE  IInv'
<1>1. CASE \/ ReadSlot(c) \/ ReadFails(c) \/ ReadReturns(c)
           \/ SaveSnapshot(c) \/ SnapshotFails(c) \/ ReadItem(c) \/ HandOverPlan(c)
  BY <1>1, ReadSlotKeeps, ReadFailsKeeps, ReadReturnsKeeps, SaveSnapshotKeeps,
     SnapshotFailsKeeps, ReadItemKeeps, HandOverPlanKeeps
<1>2. CASE \/ AcceptPlan(c) \/ RefusePlan(c) \/ SnapshotVFO(c) \/ SnapshotSelection(c)
           \/ Stopped(c) \/ VerifyRead(c) \/ VerifyReadAborts(c)
  BY <1>2, AcceptPlanKeeps, RefusePlanKeeps, SnapshotVFOKeeps, SnapshotSelectionKeeps,
     StoppedKeeps, VerifyReadKeeps, VerifyReadAbortsKeeps
<1>3. CASE \/ JournalAttempt(c) \/ WriteChannel(c) \/ JournalResult(c) \/ Diagnose(c)
           \/ ReadBack(c) \/ JournalVerdict(c)
  BY <1>3, JournalAttemptKeeps, WriteChannelKeeps, JournalResultKeeps, DiagnoseKeeps,
     ReadBackKeeps, JournalVerdictKeeps
<1>4. CASE \/ SettingAttempt(c) \/ WriteSetting(c) \/ SettingResult(c)
           \/ Complete(c) \/ Restore(c) \/ Return(c)
  BY <1>4, SettingAttemptKeeps, WriteSettingKeeps, SettingResultKeeps, CompleteKeeps,
     RestoreKeeps, ReturnKeeps
<1> QED
  BY <1>1, <1>2, <1>3, <1>4 DEF Step

LEMMA NextKeeps == IInv /\ [Next]_vars => IInv'
<1> SUFFICES ASSUME IInv, [Next]_vars
             PROVE  IInv'
  OBVIOUS
<1>1. ASSUME NEW c \in Clients, Start(c) \/ Step(c) \/ Cancel(c)
      PROVE  IInv'
  BY <1>1, StartKeeps, StepKeeps, CancelKeeps
<1>2. ASSUME NEW s \in Slots, NEW v \in Contents \ {Mangled}, OperatorEdits(s, v)
      PROVE  IInv'
  BY <1>2, OperatorEditsKeeps
<1>3. ASSUME NEW i \in Items, NEW v \in Values, OperatorSets(i, v)
      PROVE  IInv'
  BY <1>3, OperatorSetsKeeps
<1>4. CASE Reconnect
  BY <1>4, ReconnectKeeps
<1>5. CASE Crash
  BY <1>5, CrashKeeps
<1>6. CASE UNCHANGED vars
  BY <1>6, StutterKeeps
<1> QED
  BY <1>1, <1>2, <1>3, <1>4, <1>5, <1>6 DEF Next

(* The whole of the invariant: the lock, the plans and their snapshots,    *)
(* the journals, and the operation under way.                              *)
THEOREM IInvHolds == Spec => []IInv
<1>1. Init => IInv
  BY InitEstablishes
<1>2. IInv /\ [Next]_vars => IInv'
  BY NextKeeps
<1> QED
  BY <1>1, <1>2, PTL DEF Spec

(* Every variable of the Service, its clients and the radio has its type,  *)
(* and no operation refers to a plan, a file or a journal that is gone.    *)
THEOREM TypeCorrect == Spec => []TypeOK
<1>1. IInv => TypeOK
  BY DEF IInv
<1> QED
  BY <1>1, IInvHolds, PTL

LEMMA CardinalityOfDoubt ==
  ASSUME NEW S, \E s : S \subseteq {s}
  PROVE  Cardinality(S) =< 1
<1>1. PICK s : S \subseteq {s}
  OBVIOUS
<1>2. CASE S = {}
  BY <1>2, FS_EmptySet
<1>3. CASE S = {s}
  <2>1. Cardinality({s}) = 1
    BY FS_Singleton
  <2> QED
    BY <1>3, <2>1
<1> QED
  BY <1>1, <1>2, <1>3

(* Obligation 8, with the durability policy of journal.go: at every        *)
(* moment, also after a crash between any two steps, the journals name     *)
(* every slot a run has changed and leave at most one slot in doubt.       *)
THEOREM JournalIsTrue == Spec => []JournalNamesTheDoubt
<1>1. IInv => JournalNamesTheDoubt
  <2> SUFFICES ASSUME IInv, NEW r \in 1 .. runs
               PROVE  /\ Touched(r) \subseteq Attempted(r)
                      /\ Cardinality(Attempted(r) \ Confirmed(r)) =< 1
    BY DEF JournalNamesTheDoubt
  <2>1. r \in Nat
    BY DEF IInv, TypeOK
  <2>2. /\ ChangeLog[r] = Touched(r) /\ AttemptLog[r] = Attempted(r)
        /\ ConfirmLog[r] = Confirmed(r)
    BY <2>1 DEF ChangeLog, AttemptLog, ConfirmLog
  <2>3. /\ Touched(r) \subseteq Attempted(r)
        /\ \E s : Attempted(r) \ Confirmed(r) \subseteq {s}
    BY <2>1, <2>2 DEF IInv, JournalInv
  <2> QED
    BY <2>3, CardinalityOfDoubt
<1> QED
  BY <1>1, IInvHolds, PTL

(* A client at the end of Execute, before it leaves the Service.           *)
LEMMA AtTheEnd ==
  ASSUME IInv, NEW c \in Clients, Finished(c)
  PROVE  /\ ClientInv(c) /\ Ending(c) /\ pc[c] = "return"
         /\ ChangeLog[job[c].run] = Touched(job[c].run)
         /\ AttemptLog[job[c].run] = Attempted(job[c].run)
         /\ ConfirmLog[job[c].run] = Confirmed(job[c].run)
<1>1. pc[c] = "return" /\ Ending(c)
  BY DEF Finished, Ending, Executing
<1>2. ClientInv(c) /\ job[c].run \in Nat
  BY <1>1, OneIsBusy, NumbersOfJob
<1> QED
  BY <1>1, <1>2 DEF ChangeLog, AttemptLog, ConfirmLog

(* What Execute answers its caller is true of the radio: "refused", "done" *)
(* and "aborted" mean what they say, and no answer is missing.             *)
THEOREM ReportIsTrue == Spec => []ReportNamesEveryWrite
<1>1. IInv => ReportNamesEveryWrite
  <2> SUFFICES ASSUME IInv, NEW c \in Clients, Finished(c)
               PROVE  LET report == job[c].report
                          changed == Touched(job[c].run)
                          answer == job[c].answer
                      IN /\ answer = "refused" => changed = {}
                         /\ answer = "done" =>
                              report.verified = Deltas(Plan(c)) /\ report.failed = {}
                         /\ answer = "aborted" =>
                              /\ changed \subseteq report.verified \cup report.failed
                              /\ Cardinality(report.failed) =< 1
                              /\ report.verified \subseteq report.written
                         /\ answer # "none"
    BY DEF ReportNamesEveryWrite
  <2>1. AnswerInv(c) /\ Ending(c) /\ ChangeLog[job[c].run] = Touched(job[c].run)
    BY AtTheEnd DEF ClientInv
  <2>2. job[c].answer = "aborted" => Cardinality(job[c].report.failed) =< 1
    BY <2>1, CardinalityOfDoubt DEF AnswerInv
  <2> QED
    BY <2>1, <2>2 DEF AnswerInv, Todo
<1> QED
  BY <1>1, IInvHolds, PTL

(* A cancellation takes effect between two slots: an Execute in which      *)
(* nothing failed leaves no slot attempted and not confirmed.              *)
THEOREM CancelIsClean == Spec => []CancelLeavesNoDoubt
<1>1. IInv => CancelLeavesNoDoubt
  <2> SUFFICES ASSUME IInv, NEW c \in Clients, Finished(c), ~job[c].fault
               PROVE  Attempted(job[c].run) = Confirmed(job[c].run)
    BY DEF CancelLeavesNoDoubt
  <2> QED
    BY AtTheEnd DEF ClientInv, AttemptInv
<1> QED
  BY <1>1, IInvHolds, PTL

(* Obligation 12 and the VFOStateRestorer seam: whatever path Execute      *)
(* takes, what its writes displaced of the operator's state is back when   *)
(* it returns, unless it could not be read or put back.                    *)
THEOREM OperatorStateIsReturned == Spec => []OperatorStateReturned
<1>1. IInv => OperatorStateReturned
  <2> SUFFICES ASSUME IInv, NEW c \in Clients, Finished(c)
               PROVE  displaced \subseteq job[c].unheld
    BY DEF OperatorStateReturned
  <2> QED
    BY AtTheEnd DEF ClientInv, SeamInv
<1> QED
  BY <1>1, IInvHolds, PTL

(* What holds of a client about to write a channel, or a setting.          *)
LEMMA AboutToWrite ==
  ASSUME IInv, NEW c \in Clients, pc[c] \in {"write", "set"}
  PROVE  /\ ClientInv(c) /\ SessionInv(c)
         /\ Plan(c).generation = generation
         /\ Plan(c).baseline = Shown(c).baseline /\ Plan(c).candidate = Shown(c).candidate
         /\ pc[c] = "write" => job[c].at \in Todo(c)
<1>1. ClientInv(c)
  BY OneIsBusy
<1>2. pc[c] = "write" => job[c].at \in Todo(c)
  BY InTheLoop DEF InLoop, Visiting
<1> QED
  BY <1>1, <1>2 DEF ClientInv, SessionInv, Running

(* Obligations 1, 9 and 11: every write of a channel finds in the slot     *)
(* what the snapshot on disk preserves, unless the operator changed the    *)
(* slot between Execute's read of it and the write.                        *)
THEOREM NothingIsLost == Spec => OverwrittenIsSaved
<1> DEFINE Saves(c) ==
      LET s == job[c].at IN
        mem'[s] = mem[s] \/ s \in strayed \/ mem[s] = disk[job[c].journal].snap[s]
<1>1. IInv => \A c \in Clients : Writes(c) => Saves(c)
  <2> SUFFICES ASSUME IInv, NEW c \in Clients, Writes(c)
               PROVE  Saves(c)
    OBVIOUS
  <2>1. pc[c] = "write"
    BY DEF Writes
  <2>2. DriftInv(c) /\ OpInv(c)
    BY <2>1, AboutToWrite DEF ClientInv
  <2>3. /\ job[c].plan \in DOMAIN plans /\ job[c].journal = Plan(c).journal
    BY <2>1, <2>2 DEF OpInv, Running, Executing
  <2>4. disk[job[c].journal].snap = Plan(c).baseline
    BY <2>3 DEF IInv, PlanInv, Plan
  <2> QED
    BY <2>1, <2>2, <2>4 DEF DriftInv
<1>2. IInv => [\A c \in Clients : Writes(c) => Saves(c)]_vars
  BY <1>1
<1> QED
  BY <1>2, IInvHolds, PTL DEF OverwrittenIsSaved

(* Obligation 5: what a send writes into the channels stood in the plan    *)
(* whose confirmation the caller gave, whichever plan it passed.           *)
THEOREM OnlyWhatWasConfirmed == Spec => OnlyConfirmedChannels
<1> DEFINE WasShown(c) == /\ job[c].at \in Deltas(Shown(c))
                          /\ Wanted(c) = Shown(c).candidate[job[c].at]
<1>1. IInv => \A c \in Clients : Writes(c) => WasShown(c)
  <2> SUFFICES ASSUME IInv, NEW c \in Clients, Writes(c)
               PROVE  WasShown(c)
    OBVIOUS
  <2>1. pc[c] = "write"
    BY DEF Writes
  <2>2. /\ Plan(c).baseline = Shown(c).baseline /\ Plan(c).candidate = Shown(c).candidate
        /\ job[c].at \in Todo(c)
    BY <2>1, AboutToWrite
  <2> QED
    BY <2>2 DEF Todo, Deltas, Wanted
<1>2. IInv => [\A c \in Clients : Writes(c) => WasShown(c)]_vars
  BY <1>1
<1> QED
  BY <1>2, IInvHolds, PTL DEF OnlyConfirmedChannels

(* Obligation 4: neither a channel nor a setting is ever written in        *)
(* another session than the one the plan was prepared in, however often    *)
(* the program reconnects or restarts.                                     *)
THEOREM NeverInAnotherSession == Spec => OnlyInItsSession
<1>1. IInv => \A c \in Clients : Writes(c) \/ Sets(c) => Plan(c).generation = generation
  BY AboutToWrite DEF Writes, Sets
<1>2. IInv => [\A c \in Clients : Writes(c) \/ Sets(c) => Plan(c).generation = generation]_vars
  BY <1>1
<1> QED
  BY <1>2, IInvHolds, PTL DEF OnlyInItsSession

=============================================================================
