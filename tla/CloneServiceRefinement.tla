------------------------ MODULE CloneServiceRefinement ------------------------
(***************************************************************************)
(* CloneService implements SendLedger, for every value of the constants:   *)
(* whatever fails, is cancelled, is edited or dies, a send declares a slot *)
(* on disk before it writes it and settles it before the next, it writes   *)
(* nothing but what its caller confirmed, and the answer it gives agrees   *)
(* with the journal about every slot but the one in doubt.                 *)
(***************************************************************************)
EXTENDS CloneServiceProofs

(* While Execute runs nothing is decided, and its report counts as         *)
(* verified exactly the slots its journal confirms.                        *)
RecordInv(c) ==
  pc[c] \in Running =>
    job[c].answer = "none" /\ ConfirmLog[job[c].run] = job[c].report.verified

LedgerInv ==
  /\ IInv
  /\ runs =< MaxRuns
  /\ \A c \in Clients : RecordInv(c)

(* A step of the Service is one of the ledger's, or none.                  *)
Simulated == Ledger!Next \/ UNCHANGED Ledger!vars

SameLogs == AttemptLog' = AttemptLog /\ ConfirmLog' = ConfirmLog /\ ChangeLog' = ChangeLog

-----------------------------------------------------------------------------
(* What the ledger sees of a state.                                        *)

LEMMA LogsSeen ==
  /\ Declared = [r \in 1 .. MaxRuns |-> AttemptLog[r]]
  /\ Settled = [r \in 1 .. MaxRuns |-> ConfirmLog[r]]
  /\ Changed = [r \in 1 .. MaxRuns |-> ChangeLog[r]]
  /\ Declared' = [r \in 1 .. MaxRuns |-> AttemptLog'[r]]
  /\ Settled' = [r \in 1 .. MaxRuns |-> ConfirmLog'[r]]
  /\ Changed' = [r \in 1 .. MaxRuns |-> ChangeLog'[r]]
<1>1. \A r \in 1 .. MaxRuns : r \in Nat
  BY CloneAssumption
<1> QED
  BY <1>1 DEF Declared, Settled, Changed, AttemptLog, ConfirmLog, ChangeLog,
              Attempted, Confirmed, Touched, Lines

LEMMA SendingSeen ==
  ASSUME IInv, NEW c \in Clients, pc[c] # "idle", Executing(c)
  PROVE  /\ Live /\ Sender = c
         /\ Order = OrderOf(plans[job[c].confirmed])
         /\ Bound = plans[job[c].plan].generation
         /\ Answered = job[c].answer
         /\ Told = IF job[c].answer = "none" THEN Ledger!NoReport
                   ELSE [verified |-> job[c].report.verified, failed |-> job[c].report.failed]
<1>1. Sending(c) /\ \A d \in Clients : Sending(d) => d = c
  BY DEF Sending, Executing, IInv, LockInv, Busy
<1>2. Live /\ Sender = c
  BY <1>1 DEF Live, Sender
<1> QED
  BY <1>2 DEF Order, Bound, Answered, Told, Shown, Plan, Ledger!NoReport

LEMMA SendingSeenNext ==
  ASSUME IInv', NEW c \in Clients, pc'[c] # "idle", job'[c].op = "Execute"
  PROVE  /\ Live' /\ Sender' = c
         /\ Order' = OrderOf(plans'[job'[c].confirmed])
         /\ Bound' = plans'[job'[c].plan].generation
         /\ Answered' = job'[c].answer
         /\ Told' = IF job'[c].answer = "none" THEN Ledger!NoReport
                    ELSE [verified |-> job'[c].report.verified, failed |-> job'[c].report.failed]
<1>1. Sending(c)' /\ \A d \in Clients : Sending(d)' => d = c
  BY DEF Sending, IInv, LockInv, Busy
<1>2. Live' /\ Sender' = c
  BY <1>1 DEF Live, Sender, Sending
<1> QED
  BY <1>2 DEF Order, Bound, Answered, Told, Shown, Plan, Ledger!NoReport, OrderOf, Deltas

(* The same send, of the same plan in the same session.                    *)
LEMMA SameSight ==
  ASSUME IInv, IInv', NEW c \in Clients, pc[c] # "idle", Executing(c),
         pc'[c] # "idle", job'[c].op = "Execute", plans' = plans,
         job'[c].plan = job[c].plan, job'[c].confirmed = job[c].confirmed
  PROVE  UNCHANGED <<Live, Order, Bound>>
<1>1. /\ Live /\ Order = OrderOf(plans[job[c].confirmed])
      /\ Bound = plans[job[c].plan].generation
  BY SendingSeen
<1>2. /\ Live' /\ Order' = OrderOf(plans'[job'[c].confirmed])
      /\ Bound' = plans'[job'[c].plan].generation
  BY SendingSeenNext
<1>3. Live' = Live
  <2>1. Live \in BOOLEAN /\ Live' \in BOOLEAN
    BY DEF Live
  <2> QED
    BY <1>1, <1>2, <2>1
<1>4. Order' = Order /\ Bound' = Bound
  BY <1>1, <1>2
<1> QED
  BY <1>3, <1>4

LEMMA NobodySeen ==
  ASSUME \A c \in Clients : pc[c] # "idle" => ~Executing(c)
  PROVE  ~Live /\ Order = Ledger!NoOrder /\ Bound = 0 /\ Answered = "none"
         /\ Told = Ledger!NoReport
<1>1. ~Live
  BY DEF Live, Sending, Executing
<1> QED
  BY <1>1 DEF Order, Bound, Answered, Told, Ledger!NoReport, Ledger!NoOrder

LEMMA NobodySeenNext ==
  ASSUME \A c \in Clients : pc'[c] # "idle" => job'[c].op # "Execute"
  PROVE  ~Live' /\ Order' = Ledger!NoOrder /\ Bound' = 0 /\ Answered' = "none"
         /\ Told' = Ledger!NoReport
<1>1. ~Live'
  BY DEF Live, Sending
<1> QED
  BY <1>1 DEF Order, Bound, Answered, Told, Ledger!NoReport, Ledger!NoOrder

(* Nothing the ledger sees has changed.                                    *)
LEMMA Unseen ==
  ASSUME SameLogs, UNCHANGED <<mem, generation, runs, Live, Order, Bound, Answered, Told>>
  PROVE  UNCHANGED Ledger!vars
<1>1. UNCHANGED <<Declared, Settled, Changed>>
  BY LogsSeen DEF SameLogs
<1> QED
  BY <1>1 DEF Ledger!vars, Ledger!radioVars, Ledger!runVars, Ledger!diskVars, Ledger!tellVars

-----------------------------------------------------------------------------
(* The shapes of a step of Execute.                                        *)

LEMMA JobSet ==
  ASSUME IInv, NEW c \in Clients, NEW j, Set(c, j)
  PROVE  job'[c] = j
  BY DEF IInv, TypeOK, Set

LEMMA WentTo ==
  ASSUME IInv, NEW c \in Clients, NEW l, Goto(c, l)
  PROVE  pc'[c] = l
  BY DEF IInv, TypeOK, Goto

(* The run under way is the last one there has been.                       *)
LEMMA RunUnderWay ==
  ASSUME LedgerInv, NEW c \in Clients, pc[c] \in Running \cup {"restore"}
  PROVE  /\ IInv /\ ClientInv(c) /\ Executing(c) /\ job[c] \in Jobs /\ RecordInv(c)
         /\ job[c].run = runs /\ runs \in 1 .. MaxRuns /\ runs \in Nat
         /\ job[c].journal \in DOMAIN disk /\ job[c].report \in Reports
         /\ pc[c] # "idle" /\ pc[c] # "return"
<1>1. /\ ClientInv(c) /\ Executing(c) /\ job[c] \in Jobs /\ job[c].journal \in DOMAIN disk
      /\ pc[c] # "idle" /\ pc[c] # "return"
  BY OneIsBusy DEF LedgerInv, Running
<1>2. job[c].run = runs /\ runs # 0 /\ runs \in Nat /\ runs =< MaxRuns
  BY <1>1 DEF ClientInv, OpInv, LedgerInv, IInv, TypeOK
<1>3. MaxRuns \in Nat
  BY CloneAssumption
<1>4. job[c].report \in Reports
  BY <1>1 DEF Jobs
<1> QED
  BY <1>1, <1>2, <1>3, <1>4 DEF LedgerInv

(* Of the clients at most one is in an operation, so its record is enough. *)
LEMMA Linked ==
  ASSUME IInv', runs' =< MaxRuns, NEW c \in Clients, pc'[c] # "idle",
         pc'[c] \in Running =>
           job'[c].answer = "none" /\ ConfirmLog'[job'[c].run] = job'[c].report.verified
  PROVE  LedgerInv'
<1>1. ASSUME NEW d \in Clients
      PROVE  RecordInv(d)'
  <2>1. CASE d = c
    BY <2>1 DEF RecordInv
  <2>2. CASE d # c
    <3>1. pc'[d] = "idle"
      BY <2>2 DEF IInv, LockInv, Busy
    <3> QED
      BY <3>1 DEF RecordInv, Running
  <2> QED
    BY <2>1, <2>2
<1> QED
  BY <1>1 DEF LedgerInv

LEMMA LinkedNobody ==
  ASSUME IInv', runs' =< MaxRuns, \A c \in Clients : pc'[c] \notin Running
  PROVE  LedgerInv'
<1>1. \A d \in Clients : RecordInv(d)'
  BY DEF RecordInv
<1> QED
  BY <1>1 DEF LedgerInv

(* Nothing more is to be heard of the send than before.                    *)
LEMMA SilentStep ==
  ASSUME IInv, IInv', NEW c \in Clients, pc[c] # "idle", Executing(c), pc'[c] # "idle",
         SameOp(job'[c], job[c]), plans' = plans, job'[c].answer = job[c].answer,
         job[c].answer # "none" => job'[c].report = job[c].report
  PROVE  UNCHANGED <<Live, Order, Bound, Answered, Told>>
<1>1. job'[c].op = "Execute" /\ job'[c].plan = job[c].plan
      /\ job'[c].confirmed = job[c].confirmed
  BY DEF SameOp, Executing
<1>2. UNCHANGED <<Live, Order, Bound>>
  BY <1>1, SameSight
<1>3. /\ Answered = job[c].answer
      /\ Told = IF job[c].answer = "none" THEN Ledger!NoReport
                ELSE [verified |-> job[c].report.verified, failed |-> job[c].report.failed]
  BY SendingSeen
<1>4. /\ Answered' = job'[c].answer
      /\ Told' = IF job'[c].answer = "none" THEN Ledger!NoReport
                 ELSE [verified |-> job'[c].report.verified, failed |-> job'[c].report.failed]
  BY <1>1, SendingSeenNext
<1>5. UNCHANGED <<Answered, Told>>
  BY <1>3, <1>4
<1> QED
  BY <1>2, <1>5

(* A step the ledger does not see.                                         *)
LEMMA QuietStep ==
  ASSUME LedgerInv, IInv', NEW c \in Clients, pc[c] \in Running \cup {"restore"},
         pc'[c] # "idle", pc'[c] \in Running => pc[c] \in Running,
         SameOp(job'[c], job[c]), UNCHANGED <<plans, generation, runs, mem>>, SameLogs,
         job'[c].answer = job[c].answer,
         job'[c].report.verified = job[c].report.verified,
         job[c].answer # "none" => job'[c].report = job[c].report
  PROVE  LedgerInv' /\ Simulated
<1>1. IInv /\ Executing(c) /\ RecordInv(c) /\ pc[c] # "idle" /\ runs =< MaxRuns
  BY RunUnderWay DEF LedgerInv
<1>2. LedgerInv'
  <2>1. pc'[c] \in Running =>
          job'[c].answer = "none" /\ ConfirmLog'[job'[c].run] = job'[c].report.verified
    BY <1>1 DEF RecordInv, SameLogs, SameOp
  <2> QED
    BY <1>1, <2>1, Linked
<1>3. UNCHANGED <<Live, Order, Bound, Answered, Told>>
  BY <1>1, SilentStep
<1> QED
  BY <1>2, <1>3, Unseen DEF Simulated

(* An operation other than Execute is nothing to the ledger.               *)
LEMMA NobodyStep ==
  ASSUME LedgerInv, IInv', \A c \in Clients : pc[c] # "idle" => ~Executing(c),
         \A c \in Clients : pc'[c] # "idle" => job'[c].op # "Execute",
         UNCHANGED <<generation, runs, mem>>, SameLogs
  PROVE  LedgerInv' /\ Simulated
<1>1. LedgerInv'
  <2>1. \A c \in Clients : pc'[c] \notin Running
    <3> SUFFICES ASSUME NEW c \in Clients, pc'[c] \in Running
                 PROVE  FALSE
      OBVIOUS
    <3>1. job'[c].op = "Execute"
      BY DEF IInv, ClientInv, OpInv, Executing, Busy, Running
    <3>2. pc'[c] # "idle"
      BY DEF Running
    <3> QED
      BY <3>1, <3>2
  <2> QED
    BY <2>1, LinkedNobody DEF LedgerInv
<1>2. UNCHANGED <<Live, Order, Bound, Answered, Told>>
  <2>1. /\ ~Live /\ Order = Ledger!NoOrder /\ Bound = 0 /\ Answered = "none"
        /\ Told = Ledger!NoReport
    BY NobodySeen
  <2>2. /\ ~Live' /\ Order' = Ledger!NoOrder /\ Bound' = 0 /\ Answered' = "none"
        /\ Told' = Ledger!NoReport
    BY NobodySeenNext
  <2>3. Live \in BOOLEAN /\ Live' \in BOOLEAN
    BY DEF Live
  <2> QED
    BY <2>1, <2>2, <2>3
<1> QED
  BY <1>1, <1>2, Unseen DEF Simulated

(* What the caller is about to hear agrees with the ledger.                *)
Agrees(a, v, f, attempted, confirmed, written, ordered) ==
  /\ v \cap f = {} /\ v \subseteq Slots /\ f \subseteq Slots
  /\ a = "refused" => attempted = {} /\ written = {} /\ v = {} /\ f = {}
  /\ a = "done" => /\ confirmed = ordered /\ attempted = confirmed
                   /\ v = confirmed /\ f = {}
  /\ a = "aborted" => /\ confirmed \subseteq v /\ v \cup f \subseteq attempted
                      /\ written \subseteq v \cup f

LEMMA AnswerTold ==
  ASSUME LedgerInv, IInv', NEW c \in Clients, pc[c] \in Running, pc'[c] # "idle",
         SameOp(job'[c], job[c]), UNCHANGED <<plans, generation, runs>>,
         NEW a \in {"refused", "aborted", "done"}, job'[c].answer = a,
         NEW v, NEW f, job'[c].report.verified = v, job'[c].report.failed = f,
         Agrees(a, v, f, AttemptLog'[runs], ConfirmLog'[runs], ChangeLog'[runs],
                Deltas(plans[job[c].confirmed]))
  PROVE  /\ Ledger!Undecided /\ Ledger!Tells(a)
         /\ UNCHANGED <<generation, runs, Live, Order, Bound>>
<1>1. /\ IInv /\ Executing(c) /\ RecordInv(c) /\ pc[c] # "idle"
      /\ runs \in 1 .. MaxRuns
  BY RunUnderWay
<1>2. job'[c].op = "Execute" /\ job'[c].plan = job[c].plan
      /\ job'[c].confirmed = job[c].confirmed
  BY <1>1 DEF SameOp, Executing
<1>3. Live /\ Answered = "none"
  BY <1>1, SendingSeen DEF RecordInv
<1>4. UNCHANGED <<Live, Order, Bound>>
  BY <1>1, <1>2, SameSight
<1>5. Answered' = a /\ Told' = [verified |-> v, failed |-> f]
  BY <1>2, SendingSeenNext
<1>6. /\ Declared'[runs'] = AttemptLog'[runs] /\ Settled'[runs'] = ConfirmLog'[runs]
      /\ Changed'[runs'] = ChangeLog'[runs]
  BY <1>1, LogsSeen
<1>7. DOMAIN Order' = Deltas(plans[job[c].confirmed])
  BY <1>1, <1>4, SendingSeen DEF OrderOf
<1>8. Ledger!Truthful'
  BY <1>5, <1>6, <1>7 DEF Agrees, Ledger!Truthful, Ledger!NoReport
<1>9. v \in SUBSET Slots /\ f \in SUBSET Slots
  BY DEF Agrees
<1> QED
  BY <1>3, <1>4, <1>5, <1>8, <1>9 DEF Ledger!Undecided, Ledger!Tells

-----------------------------------------------------------------------------
(* The ledger grows.                                                       *)

(* Once accepted, a plan is the one confirmed, and of this session.        *)
LEMMA UnderContract ==
  ASSUME LedgerInv, NEW c \in Clients, pc[c] \in Running \ {"check"}
  PROVE  /\ Ledger!Undecided /\ Bound = generation
         /\ DOMAIN Order = Todo(c) /\ Todo(c) \subseteq Slots
         /\ \A s \in Todo(c) : Order[s] = Plan(c).candidate[s]
         /\ Deltas(plans[job[c].confirmed]) = Todo(c)
         /\ Declared[runs] = AttemptLog[runs] /\ Settled[runs] = ConfirmLog[runs]
<1>1. IInv /\ ClientInv(c) /\ Executing(c) /\ RecordInv(c) /\ runs \in 1 .. MaxRuns
      /\ pc[c] # "idle"
  BY RunUnderWay
<1>2. /\ Plan(c).generation = generation
      /\ Plan(c).baseline = Shown(c).baseline /\ Plan(c).candidate = Shown(c).candidate
  BY <1>1 DEF ClientInv, SessionInv
<1>3. Deltas(Shown(c)) = Todo(c) /\ Todo(c) \subseteq Slots
  BY <1>2 DEF Todo, Deltas
<1>4. /\ Live /\ Order = OrderOf(Shown(c)) /\ Bound = generation /\ Answered = "none"
  BY <1>1, <1>2, SendingSeen DEF RecordInv, Shown, Plan
<1>5. DOMAIN Order = Todo(c) /\ \A s \in Todo(c) : Order[s] = Plan(c).candidate[s]
  BY <1>2, <1>3, <1>4 DEF OrderOf
<1>6. Declared[runs] = AttemptLog[runs] /\ Settled[runs] = ConfirmLog[runs]
  BY <1>1, LogsSeen
<1> QED
  BY <1>3, <1>4, <1>5, <1>6 DEF Ledger!Undecided, Shown

(* The journals say one thing more of the run.                             *)
More(new, old, s) ==
  /\ \A r \in Nat \ {runs} : new[r] = old[r]
  /\ new[runs] = old[runs] \cup {s}

Same(new, old) == \A r \in Nat : new[r] = old[r]

LEMMA SameSeen ==
  /\ Same(AttemptLog', AttemptLog) => Declared' = Declared
  /\ Same(ConfirmLog', ConfirmLog) => Settled' = Settled
  /\ Same(ChangeLog', ChangeLog) => Changed' = Changed
<1>1. \A r \in 1 .. MaxRuns : r \in Nat
  BY CloneAssumption
<1> QED
  BY <1>1, LogsSeen DEF Same

LEMMA MoreSeen ==
  ASSUME runs \in 1 .. MaxRuns, NEW s
  PROVE  /\ More(AttemptLog', AttemptLog, s) =>
              Declared' = [Declared EXCEPT ![runs] = @ \cup {s}]
         /\ More(ConfirmLog', ConfirmLog, s) =>
              Settled' = [Settled EXCEPT ![runs] = @ \cup {s}]
         /\ More(ChangeLog', ChangeLog, s) =>
              Changed' = [Changed EXCEPT ![runs] = @ \cup {s}]
<1>1. \A r \in 1 .. MaxRuns : r \in Nat
  BY CloneAssumption
<1>2. More(AttemptLog', AttemptLog, s) => Declared' = [Declared EXCEPT ![runs] = @ \cup {s}]
  BY <1>1, LogsSeen DEF More
<1>3. More(ConfirmLog', ConfirmLog, s) => Settled' = [Settled EXCEPT ![runs] = @ \cup {s}]
  BY <1>1, LogsSeen DEF More
<1>4. More(ChangeLog', ChangeLog, s) => Changed' = [Changed EXCEPT ![runs] = @ \cup {s}]
  BY <1>1, LogsSeen DEF More
<1> QED
  BY <1>2, <1>3, <1>4

(* What a run hears of its own line.                                       *)
Heard == UNCHANGED <<Answered, Told>> \/ Ledger!Tells("aborted")

LEMMA Declares ==
  ASSUME LedgerInv, NEW c \in Clients, pc[c] = "attempt",
         More(AttemptLog', AttemptLog, job[c].at), Same(ConfirmLog', ConfirmLog),
         Same(ChangeLog', ChangeLog),
         UNCHANGED <<mem, generation, runs, Live, Order, Bound>>, Heard
  PROVE  Ledger!Declare(job[c].at) /\ Simulated
<1>1. pc[c] \in Running \ {"check"} /\ pc[c] \in InLoop /\ pc[c] \in Visiting
  BY DEF Running, InLoop, Visiting
<1>2. /\ IInv /\ ClientInv(c) /\ runs \in 1 .. MaxRuns /\ job[c].run = runs
      /\ ConfirmLog[runs] = job[c].report.verified
  BY <1>1, RunUnderWay DEF RecordInv
<1>3. AttemptLog[runs] = ConfirmLog[runs]
  BY <1>2 DEF ClientInv, AttemptInv
<1>4. /\ job[c].at \in job[c].left /\ job[c].at \in Slots /\ job[c].at \in Todo(c)
      /\ job[c].report.verified = Todo(c) \ job[c].left
  BY <1>1, <1>2, InTheLoop
<1>5. Ledger!Undecided /\ Bound = generation /\ DOMAIN Order = Todo(c)
      /\ Declared[runs] = AttemptLog[runs] /\ Settled[runs] = ConfirmLog[runs]
  BY <1>1, UnderContract
<1>6. Declared' = [Declared EXCEPT ![runs] = @ \cup {job[c].at}]
      /\ Settled' = Settled /\ Changed' = Changed
  BY <1>2, MoreSeen, SameSeen
<1>7. Ledger!Doubt = {} /\ job[c].at \in DOMAIN Order \ Declared[runs]
  BY <1>2, <1>3, <1>4, <1>5 DEF Ledger!Doubt
<1>8. Ledger!Declare(job[c].at)
  BY <1>5, <1>6, <1>7
     DEF Heard, Ledger!Declare, Ledger!GoesOn, Ledger!tellVars, Ledger!radioVars, Ledger!runVars
<1> QED
  BY <1>4, <1>8 DEF Simulated, Ledger!Next

LEMMA Settles ==
  ASSUME LedgerInv, NEW c \in Clients, pc[c] = "verdict",
         More(ConfirmLog', ConfirmLog, job[c].at), Same(AttemptLog', AttemptLog),
         Same(ChangeLog', ChangeLog),
         UNCHANGED <<mem, generation, runs, Live, Order, Bound>>, Heard
  PROVE  Ledger!Settle(job[c].at) /\ Simulated
<1>1. pc[c] \in Running \ {"check"} /\ pc[c] \in InLoop /\ pc[c] \in Visiting
  BY DEF Running, InLoop, Visiting
<1>2. /\ IInv /\ ClientInv(c) /\ runs \in 1 .. MaxRuns /\ job[c].run = runs
      /\ ConfirmLog[runs] = job[c].report.verified
  BY <1>1, RunUnderWay DEF RecordInv
<1>3. job[c].at \in AttemptLog[runs]
  BY <1>2 DEF ClientInv, AttemptInv, InPair
<1>4. /\ job[c].at \in job[c].left /\ job[c].at \in Slots
      /\ job[c].report.verified = Todo(c) \ job[c].left
  BY <1>1, <1>2, InTheLoop
<1>5. Ledger!Undecided
      /\ Declared[runs] = AttemptLog[runs] /\ Settled[runs] = ConfirmLog[runs]
  BY <1>1, UnderContract
<1>6. Settled' = [Settled EXCEPT ![runs] = @ \cup {job[c].at}]
      /\ Declared' = Declared /\ Changed' = Changed
  BY <1>2, MoreSeen, SameSeen
<1>7. job[c].at \in Ledger!Doubt
  BY <1>2, <1>3, <1>4, <1>5 DEF Ledger!Doubt
<1>8. Ledger!Settle(job[c].at)
  BY <1>5, <1>6, <1>7
     DEF Heard, Ledger!Settle, Ledger!GoesOn, Ledger!tellVars, Ledger!radioVars, Ledger!runVars
<1> QED
  BY <1>4, <1>8 DEF Simulated, Ledger!Next

(* A line that could be in the file although persisting it failed adds a   *)
(* slot to one log of the run, or nothing.                                 *)
LEMMA AbortLogs ==
  ASSUME LedgerInv, NEW c \in Clients, pc[c] \in Running, UNCHANGED touched,
         NEW line \in Records, line.run = job[c].run, NEW before \in {<<>>, <<line>>},
         NEW report, NEW fault, AbortAfter(c, before, report, fault)
  PROVE  /\ Same(ChangeLog', ChangeLog)
         /\ Quiet(line) => Same(AttemptLog', AttemptLog) /\ Same(ConfirmLog', ConfirmLog)
         /\ line.event = "write_attempt" =>
              /\ Same(ConfirmLog', ConfirmLog)
              /\ Same(AttemptLog', AttemptLog) \/ More(AttemptLog', AttemptLog, line.slot)
         /\ line.event = "verify_result" =>
              /\ Same(AttemptLog', AttemptLog)
              /\ Same(ConfirmLog', ConfirmLog) \/ More(ConfirmLog', ConfirmLog, line.slot)
<1>1. IInv /\ job[c].run = runs /\ runs \in Nat
  BY RunUnderWay
<1>2. /\ KeepsSnapshots /\ Len(disk') = Len(disk)
      /\ \A r \in Nat :
           /\ AttemptLog'[r] = AttemptLog[r] \cup Named(before, r, "write_attempt")
           /\ ConfirmLog'[r] = ConfirmLog[r] \cup Named(before, r, "verify_result")
      /\ \A r \in Nat, event \in {"write_attempt", "verify_result"} :
           Named(before, r, event) \subseteq
             IF r = job[c].run /\ line.event = event /\ ~Quiet(line) THEN {line.slot} ELSE {}
  BY <1>1, AbortAdds
<1> DEFINE attempts(r) == Named(before, r, "write_attempt")
           confirms(r) == Named(before, r, "verify_result")
<1>3. ASSUME NEW r \in Nat
      PROVE  /\ attempts(r) \subseteq
                  IF r = runs /\ line.event = "write_attempt" /\ ~Quiet(line)
                    THEN {line.slot} ELSE {}
             /\ confirms(r) \subseteq
                  IF r = runs /\ line.event = "verify_result" /\ ~Quiet(line)
                    THEN {line.slot} ELSE {}
  BY <1>1, <1>2
<1>4. \A r \in Nat : /\ AttemptLog'[r] = AttemptLog[r] \cup attempts(r)
                     /\ ConfirmLog'[r] = ConfirmLog[r] \cup confirms(r)
  BY <1>2
<1> HIDE DEF attempts, confirms
<1>5. Same(ChangeLog', ChangeLog)
  BY DEF Same, ChangeLog, Touched
<1>6. ASSUME \A r \in Nat : attempts(r) = {}
      PROVE  Same(AttemptLog', AttemptLog)
  BY <1>4, <1>6 DEF Same
<1>7. ASSUME \A r \in Nat : confirms(r) = {}
      PROVE  Same(ConfirmLog', ConfirmLog)
  BY <1>4, <1>7 DEF Same
<1>8. Quiet(line) => Same(AttemptLog', AttemptLog) /\ Same(ConfirmLog', ConfirmLog)
  BY <1>3, <1>6, <1>7
<1>9. ASSUME line.event = "write_attempt"
      PROVE  /\ Same(ConfirmLog', ConfirmLog)
             /\ Same(AttemptLog', AttemptLog) \/ More(AttemptLog', AttemptLog, line.slot)
  <2>1. Same(ConfirmLog', ConfirmLog)
    BY <1>3, <1>7, <1>9
  <2>2. \A r \in Nat \ {runs} : attempts(r) = {}
    BY <1>3
  <2>3. attempts(runs) = {} \/ attempts(runs) = {line.slot}
    BY <1>1, <1>3
  <2>4. attempts(runs) = {} => Same(AttemptLog', AttemptLog)
    BY <1>6, <2>2
  <2>5. ASSUME attempts(runs) = {line.slot}
        PROVE  More(AttemptLog', AttemptLog, line.slot)
    <3>1. AttemptLog'[runs] = AttemptLog[runs] \cup {line.slot}
      BY <1>1, <1>4, <2>5
    <3>2. \A r \in Nat \ {runs} : AttemptLog'[r] = AttemptLog[r]
      BY <1>4, <2>2
    <3> QED
      BY <3>1, <3>2 DEF More
  <2> QED
    BY <2>1, <2>3, <2>4, <2>5
<1>10. ASSUME line.event = "verify_result"
       PROVE  /\ Same(AttemptLog', AttemptLog)
              /\ Same(ConfirmLog', ConfirmLog) \/ More(ConfirmLog', ConfirmLog, line.slot)
  <2>1. Same(AttemptLog', AttemptLog)
    BY <1>3, <1>6, <1>10
  <2>2. \A r \in Nat \ {runs} : confirms(r) = {}
    BY <1>3
  <2>3. confirms(runs) = {} \/ confirms(runs) = {line.slot}
    BY <1>1, <1>3
  <2>4. confirms(runs) = {} => Same(ConfirmLog', ConfirmLog)
    BY <1>7, <2>2
  <2>5. ASSUME confirms(runs) = {line.slot}
        PROVE  More(ConfirmLog', ConfirmLog, line.slot)
    <3>1. ConfirmLog'[runs] = ConfirmLog[runs] \cup {line.slot}
      BY <1>1, <1>4, <2>5
    <3>2. \A r \in Nat \ {runs} : ConfirmLog'[r] = ConfirmLog[r]
      BY <1>4, <2>2
    <3> QED
      BY <3>1, <3>2 DEF More
  <2> QED
    BY <2>1, <2>3, <2>4, <2>5
<1> QED
  BY <1>5, <1>8, <1>9, <1>10

(* Wherever Execute aborts, its answer agrees with the ledger.             *)
LEMMA AbortRefines ==
  ASSUME LedgerInv, IInv', NEW c \in Clients, pc[c] \in Running \ {"check", "sel"},
         NEW line \in Records, line.run = job[c].run, NEW before \in {<<>>, <<line>>},
         NEW report \in Reports,
         Quiet(line) \/ (line.slot = job[c].at /\ pc[c] = "attempt" /\ line.event = "write_attempt")
           \/ (line.slot = job[c].at /\ pc[c] = "verdict" /\ line.event = "verify_result"
               /\ job[c].at \in report.verified),
         NEW fault, AbortAfter(c, before, report, fault),
         report.verified \cap report.failed = {}, ConfirmLog[runs] \subseteq report.verified,
         report.verified \cup report.failed \subseteq AttemptLog[runs],
         ChangeLog[runs] \subseteq report.verified \cup report.failed,
         UNCHANGED <<radioVars, serviceVars, cancelled, countVars, histVars>>
  PROVE  LedgerInv' /\ Simulated
<1>1. /\ IInv /\ Executing(c) /\ job[c] \in Jobs /\ runs \in 1 .. MaxRuns /\ runs \in Nat
      /\ pc[c] \in Running /\ runs =< MaxRuns
  BY RunUnderWay DEF LedgerInv
<1>2. UNCHANGED <<mem, plans, generation, runs, touched>>
  BY DEF radioVars, serviceVars, countVars, histVars
<1>3. pc'[c] \notin Running /\ pc'[c] # "idle"
  BY <1>1, WentTo DEF AbortAfter, Unwind, Running
<1>4. job'[c] = [job[c] EXCEPT !.report = [report EXCEPT !.aborted = TRUE],
                              !.answer = "aborted", !.fault = fault]
  BY <1>1, JobSet DEF AbortAfter
<1>5. /\ SameOp(job'[c], job[c]) /\ job'[c].answer = "aborted"
      /\ job'[c].report.verified = report.verified /\ job'[c].report.failed = report.failed
  BY <1>1, <1>4 DEF SameOp, Jobs, Reports
<1>6. LedgerInv'
  BY <1>1, <1>2, <1>3, Linked
<1>7. report.verified \subseteq Slots /\ report.failed \subseteq Slots
  BY DEF Reports
<1>8. /\ Same(ChangeLog', ChangeLog)
      /\ Quiet(line) => Same(AttemptLog', AttemptLog) /\ Same(ConfirmLog', ConfirmLog)
      /\ line.event = "write_attempt" =>
           /\ Same(ConfirmLog', ConfirmLog)
           /\ Same(AttemptLog', AttemptLog) \/ More(AttemptLog', AttemptLog, line.slot)
      /\ line.event = "verify_result" =>
           /\ Same(AttemptLog', AttemptLog)
           /\ Same(ConfirmLog', ConfirmLog) \/ More(ConfirmLog', ConfirmLog, line.slot)
  BY <1>1, <1>2, AbortLogs
<1>9. /\ AttemptLog[runs] \subseteq AttemptLog'[runs] /\ ChangeLog'[runs] = ChangeLog[runs]
      /\ ConfirmLog'[runs] \subseteq report.verified
  BY <1>1, <1>8 DEF Same, More
<1>10. /\ Ledger!Undecided /\ Ledger!Tells("aborted")
       /\ UNCHANGED <<generation, runs, Live, Order, Bound>>
  <2>1. Agrees("aborted", report.verified, report.failed, AttemptLog'[runs], ConfirmLog'[runs],
               ChangeLog'[runs], Deltas(plans[job[c].confirmed]))
    BY <1>7, <1>9 DEF Agrees
  <2> QED
    BY <1>1, <1>2, <1>3, <1>5, <2>1, AnswerTold
<1>11. CASE Same(AttemptLog', AttemptLog) /\ Same(ConfirmLog', ConfirmLog)
  <2>1. Declared' = Declared /\ Settled' = Settled /\ Changed' = Changed
    BY <1>8, <1>11, SameSeen
  <2>2. Ledger!Conclude
    BY <1>2, <1>10, <2>1
       DEF Ledger!Conclude, Ledger!radioVars, Ledger!runVars, Ledger!diskVars
  <2> QED
    BY <1>6, <2>2 DEF Simulated, Ledger!Next
<1>12. CASE /\ line.slot = job[c].at /\ pc[c] = "attempt" /\ line.event = "write_attempt"
            /\ ~Same(AttemptLog', AttemptLog)
  BY <1>2, <1>6, <1>8, <1>10, <1>12, Declares DEF Heard
<1>13. CASE /\ line.slot = job[c].at /\ pc[c] = "verdict" /\ line.event = "verify_result"
            /\ ~Same(ConfirmLog', ConfirmLog)
  BY <1>2, <1>6, <1>8, <1>10, <1>13, Settles DEF Heard
<1> QED
  BY <1>8, <1>11, <1>12, <1>13

(* With no slot in doubt, and a line that decides nothing.                 *)
LEMMA QuietAbortRefines ==
  ASSUME LedgerInv, IInv', NEW c \in Clients, pc[c] \in {"vfo", "slot"} \cup InBatch,
         NEW line \in Records, Quiet(line), line.run = job[c].run,
         NEW before \in {<<>>, <<line>>},
         NEW fault, AbortAfter(c, before, job[c].report, fault),
         UNCHANGED <<radioVars, serviceVars, cancelled, countVars, histVars>>
  PROVE  LedgerInv' /\ Simulated
<1>1. /\ ClientInv(c) /\ RecordInv(c) /\ job[c].run = runs /\ job[c].report \in Reports
      /\ pc[c] \in Running \ {"check", "sel"}
  BY RunUnderWay DEF Running, InBatch
<1>2. AttemptLog[runs] = ConfirmLog[runs] /\ ConfirmLog[runs] = job[c].report.verified
  BY <1>1 DEF ClientInv, AttemptInv, Preparing, InBatch, RecordInv
<1>3. ChangeLog[runs] \subseteq job[c].report.verified /\ job[c].report.failed = {}
  BY <1>1 DEF ClientInv, ReportInv, Running, InDoubt, InBatch
<1> QED
  BY <1>1, <1>2, <1>3, AbortRefines

LEMMA AbortBetweenRefines ==
  ASSUME LedgerInv, IInv', NEW c \in Clients, pc[c] \in {"vfo", "slot", "settings"}, Abort(c),
         UNCHANGED <<radioVars, serviceVars, cancelled, countVars, histVars>>
  PROVE  LedgerInv' /\ Simulated
<1>1. pc[c] \in {"vfo", "slot"} \cup InBatch /\ pc[c] \in Running
  BY DEF InBatch, Running
<1>2. job[c].run = runs /\ runs \in Nat
  BY <1>1, RunUnderWay
<1> DEFINE line == Line(c, "abort", 0, FALSE)
<1>3. line \in Records /\ line.run = job[c].run /\ Quiet(line)
  BY <1>2 DEF Line, Records, Events, Quiet
<1> HIDE DEF line
<1>4. AbortAfter(c, <<>>, job[c].report, job[c].fault)
  BY DEF Abort
<1> QED
  BY <1>1, <1>3, <1>4, QuietAbortRefines

-----------------------------------------------------------------------------
(* Execute, step by step.                                                  *)

(* An action that neither answers nor puts anything on record.             *)
LEMMA PlainStep ==
  ASSUME LedgerInv, IInv', NEW c \in Clients, pc[c] \in Running,
         NEW l \in Running \cup {"restore", "return"}, Goto(c, l),
         NEW j, Set(c, j), SameOp(j, job[c]), j.answer = job[c].answer,
         j.report.verified = job[c].report.verified,
         UNCHANGED <<plans, generation, runs, mem>>, SameLogs
  PROVE  LedgerInv' /\ Simulated
<1>1. IInv /\ RecordInv(c)
  BY RunUnderWay
<1>2. pc'[c] = l /\ job'[c] = j /\ pc'[c] # "idle"
  BY <1>1, WentTo, JobSet DEF Running
<1>3. job[c].answer = "none"
  BY <1>1 DEF RecordInv
<1> QED
  BY <1>2, <1>3, QuietStep

LEMMA AcceptPlanRefines ==
  ASSUME LedgerInv, IInv', NEW c \in Clients, AcceptPlan(c)
  PROVE  LedgerInv' /\ Simulated
<1>1. pc[c] \in Running /\ UNCHANGED <<mem, plans, generation, runs, disk, touched>>
  BY DEF AcceptPlan, Running, radioVars, serviceVars, countVars, histVars
<1>2. IInv /\ job[c] \in Jobs
  BY <1>1, RunUnderWay
<1>3. PICK left : \E l \in {"settings", "vfo"} :
        Goto(c, l) /\ Set(c, [job[c] EXCEPT !.left = left])
  BY DEF AcceptPlan
<1>4. PICK l \in {"settings", "vfo"} :
        Goto(c, l) /\ Set(c, [job[c] EXCEPT !.left = left])
  BY <1>3
<1> DEFINE j == [job[c] EXCEPT !.left = left]
<1>5. SameOp(j, job[c]) /\ j.answer = job[c].answer /\ j.report = job[c].report
  BY <1>2 DEF Jobs, SameOp
<1>6. Set(c, j) /\ l \in Running
  BY <1>4 DEF Running
<1> HIDE DEF j
<1>7. SameLogs
  BY <1>1, <1>2, JournalUntouched DEF SameLogs
<1> QED
  BY <1>1, <1>4, <1>5, <1>6, <1>7, PlainStep

LEMMA SnapshotVFORefines ==
  ASSUME LedgerInv, IInv', NEW c \in Clients, SnapshotVFO(c)
  PROVE  LedgerInv' /\ Simulated
<1>1. /\ pc[c] = "vfo" /\ UNCHANGED <<radioVars, serviceVars, cancelled, countVars, histVars>>
      /\ UNCHANGED <<mem, plans, generation, runs, touched>>
  BY DEF SnapshotVFO, radioVars, serviceVars, countVars, histVars
<1>2. pc[c] \in Running
  BY <1>1 DEF Running
<1>3. IInv /\ job[c] \in Jobs
  BY <1>2, RunUnderWay
<1>4. CASE Abort(c)
  BY <1>1, <1>4, AbortBetweenRefines
<1>5. CASE ~Abort(c)
  <2> DEFINE j == [job[c] EXCEPT !.held = {"vfo"} \cap Seams]
  <2>1. Goto(c, "sel") /\ Set(c, j) /\ UNCHANGED disk
    BY <1>5 DEF SnapshotVFO
  <2>2. SameOp(j, job[c]) /\ j.answer = job[c].answer /\ j.report = job[c].report
    BY <1>3 DEF Jobs, SameOp
  <2> HIDE DEF j
  <2>3. SameLogs /\ "sel" \in Running
    BY <1>1, <1>3, <2>1, JournalUntouched DEF SameLogs, Running
  <2> QED
    BY <1>1, <1>2, <2>1, <2>2, <2>3, PlainStep
<1> QED
  BY <1>4, <1>5

LEMMA SnapshotSelectionRefines ==
  ASSUME LedgerInv, IInv', NEW c \in Clients, SnapshotSelection(c)
  PROVE  LedgerInv' /\ Simulated
<1>1. pc[c] \in Running /\ UNCHANGED <<mem, plans, generation, runs, disk, touched>>
  BY DEF SnapshotSelection, Running, radioVars, serviceVars, countVars, histVars
<1>2. IInv /\ job[c] \in Jobs
  BY <1>1, RunUnderWay
<1>3. PICK held, unheld : /\ Goto(c, "slot")
                          /\ Set(c, [job[c] EXCEPT !.held = held, !.unheld = unheld])
  <2>1. CASE Set(c, [job[c] EXCEPT !.held = @ \cup ({"sel"} \cap Seams)])
    <3>1. Set(c, [job[c] EXCEPT !.held = job[c].held \cup ({"sel"} \cap Seams),
                                !.unheld = job[c].unheld])
      BY <1>2, <2>1 DEF Jobs
    <3> QED
      BY <3>1 DEF SnapshotSelection
  <2>2. CASE Set(c, [job[c] EXCEPT !.unheld = {"sel"} \cap Seams])
    <3>1. Set(c, [job[c] EXCEPT !.held = job[c].held, !.unheld = {"sel"} \cap Seams])
      BY <1>2, <2>2 DEF Jobs
    <3> QED
      BY <3>1 DEF SnapshotSelection
  <2> QED
    BY <2>1, <2>2 DEF SnapshotSelection
<1> DEFINE j == [job[c] EXCEPT !.held = held, !.unheld = unheld]
<1>4. SameOp(j, job[c]) /\ j.answer = job[c].answer /\ j.report = job[c].report
  BY <1>2 DEF Jobs, SameOp
<1>5. Set(c, j) /\ "slot" \in Running
  BY <1>3 DEF Running
<1> HIDE DEF j
<1>6. SameLogs
  BY <1>1, <1>2, JournalUntouched DEF SameLogs
<1> QED
  BY <1>1, <1>3, <1>4, <1>5, <1>6, PlainStep

LEMMA StoppedRefines ==
  ASSUME LedgerInv, IInv', NEW c \in Clients, Stopped(c)
  PROVE  LedgerInv' /\ Simulated
  BY AbortBetweenRefines DEF Stopped

LEMMA VerifyReadAbortsRefines ==
  ASSUME LedgerInv, IInv', NEW c \in Clients, VerifyReadAborts(c)
  PROVE  LedgerInv' /\ Simulated
  BY AbortBetweenRefines DEF VerifyReadAborts

LEMMA VerifyReadRefines ==
  ASSUME LedgerInv, IInv', NEW c \in Clients, VerifyRead(c)
  PROVE  LedgerInv' /\ Simulated
<1>1. pc[c] \in Running /\ UNCHANGED <<mem, plans, generation, runs, disk, touched>>
  BY DEF VerifyRead, Running, radioVars, serviceVars, countVars
<1>2. IInv /\ job[c] \in Jobs
  BY <1>1, RunUnderWay
<1> DEFINE j == [job[c] EXCEPT !.at = Min(job[c].left)]
<1>3. Goto(c, "attempt") /\ Set(c, j) /\ "attempt" \in Running
  BY DEF VerifyRead, Running
<1>4. SameOp(j, job[c]) /\ j.answer = job[c].answer /\ j.report = job[c].report
  BY <1>2 DEF Jobs, SameOp
<1> HIDE DEF j
<1>5. SameLogs
  BY <1>1, <1>2, JournalUntouched DEF SameLogs
<1> QED
  BY <1>1, <1>3, <1>4, <1>5, PlainStep

LEMMA JournalAttemptRefines ==
  ASSUME LedgerInv, IInv', NEW c \in Clients, JournalAttempt(c)
  PROVE  LedgerInv' /\ Simulated
<1>1. /\ pc[c] = "attempt" /\ UNCHANGED <<radioVars, serviceVars, cancelled, countVars, histVars>>
      /\ UNCHANGED <<mem, plans, generation, runs, touched>>
  BY DEF JournalAttempt, radioVars, serviceVars, countVars, histVars
<1>2. pc[c] \in Running /\ pc[c] \in Running \ {"check", "sel"}
  BY <1>1 DEF Running
<1>3. /\ IInv /\ ClientInv(c) /\ Executing(c) /\ RecordInv(c) /\ job[c] \in Jobs
      /\ job[c].run = runs /\ runs \in Nat /\ runs \in 1 .. MaxRuns /\ runs =< MaxRuns
      /\ job[c].journal \in DOMAIN disk /\ job[c].report \in Reports /\ pc[c] # "idle"
  BY <1>2, RunUnderWay DEF LedgerInv
<1> DEFINE line == Line(c, "write_attempt", job[c].at, TRUE)
<1>4. /\ line \in Records /\ line.run = job[c].run /\ line.slot = job[c].at
      /\ line.event = "write_attempt" /\ line.ok = TRUE
  <2>1. job[c].run \in Nat /\ job[c].at \in Nat
    BY <1>3, NumbersOfJob
  <2> QED
    BY <2>1 DEF Line, Records, Events
<1>5. AbortUnlogged(c, line, job[c].report)
        \/ (Log(c, <<line>>) /\ Goto(c, "write") /\ UNCHANGED job)
  BY DEF JournalAttempt
<1> HIDE DEF line
<1>6. CASE AbortUnlogged(c, line, job[c].report)
  <2>1. PICK lost \in {<<>>, <<line>>} : AbortAfter(c, lost, job[c].report, TRUE)
    BY <1>6 DEF AbortUnlogged
  <2>2. /\ ConfirmLog[runs] = job[c].report.verified /\ AttemptLog[runs] = ConfirmLog[runs]
        /\ ChangeLog[runs] \subseteq job[c].report.verified /\ job[c].report.failed = {}
    BY <1>1, <1>2, <1>3 DEF ClientInv, AttemptInv, ReportInv, RecordInv, Running, InDoubt
  <2> QED
    BY <1>1, <1>2, <1>3, <1>4, <2>1, <2>2, AbortRefines
<1>7. CASE Log(c, <<line>>) /\ Goto(c, "write") /\ UNCHANGED job
  <2>1. \A r \in Nat :
          /\ AttemptLog'[r] = AttemptLog[r] \cup Named(<<line>>, r, "write_attempt")
          /\ ConfirmLog'[r] = ConfirmLog[r] \cup Named(<<line>>, r, "verify_result")
    <3>1. <<line>> \in Seq(Records)
      BY <1>4
    <3> QED
      BY <1>3, <1>7, <3>1, LogAdds DEF IInv, TypeOK
  <2>2. \A r \in Nat :
          /\ Named(<<line>>, r, "verify_result") = {}
          /\ Named(<<line>>, r, "write_attempt") = IF r = runs THEN {job[c].at} ELSE {}
    BY <1>3, <1>4, NamedOne
  <2>3. More(AttemptLog', AttemptLog, job[c].at) /\ Same(ConfirmLog', ConfirmLog)
    BY <1>3, <2>1, <2>2 DEF More, Same
  <2>4. Same(ChangeLog', ChangeLog)
    BY <1>1 DEF Same, ChangeLog, Touched
  <2>5. pc'[c] = "write" /\ job'[c] = job[c]
    BY <1>3, <1>7, WentTo
  <2>6. LedgerInv'
    <3>1. job'[c].answer = "none" /\ ConfirmLog'[job'[c].run] = job'[c].report.verified
      BY <1>2, <1>3, <2>3, <2>5 DEF RecordInv, Same
    <3> QED
      BY <1>1, <1>3, <2>5, <3>1, Linked
  <2>7. UNCHANGED <<Live, Order, Bound, Answered, Told>>
    BY <1>1, <1>3, <2>5, SilentStep DEF SameOp
  <2>8. Heard
    BY <2>7 DEF Heard
  <2> QED
    BY <1>1, <2>3, <2>4, <2>6, <2>7, <2>8, Declares
<1> QED
  BY <1>5, <1>6, <1>7

LEMMA WriteChannelRefines ==
  ASSUME LedgerInv, IInv', NEW c \in Clients, WriteChannel(c)
  PROVE  LedgerInv' /\ Simulated
<1>1. /\ pc[c] = "write" /\ Goto(c, "result")
      /\ UNCHANGED <<plans, generation, runs, disk>>
  BY DEF WriteChannel, serviceVars, countVars
<1>2. pc[c] \in Running \ {"check"} /\ pc[c] \in InLoop /\ pc[c] \in Visiting
      /\ "result" \in Running
  BY <1>1 DEF Running, InLoop, Visiting
<1>3. /\ IInv /\ ClientInv(c) /\ Executing(c) /\ RecordInv(c) /\ job[c] \in Jobs
      /\ job[c].run = runs /\ runs \in Nat /\ runs \in 1 .. MaxRuns /\ runs =< MaxRuns
      /\ pc[c] # "idle"
  BY <1>2, RunUnderWay DEF LedgerInv
<1> DEFINE s == job[c].at
<1>4. PICK landed \in {mem[s], Wanted(c), Mangled}, result \in {"sent", "error"}, fault \in BOOLEAN :
        /\ mem' = [mem EXCEPT ![s] = landed]
        /\ touched' = IF landed = mem[s] THEN touched ELSE touched \cup {<<job[c].run, s>>}
        /\ Set(c, [job[c] EXCEPT !.result = result, !.fault = fault])
  <2>1. PICK landed \in {mem[s], Wanted(c), Mangled}, ok \in BOOLEAN :
          /\ mem' = [mem EXCEPT ![s] = landed]
          /\ touched' = IF landed = mem[s] THEN touched ELSE touched \cup {<<job[c].run, s>>}
          /\ Set(c, [job[c] EXCEPT !.result = IF ok THEN "sent" ELSE "error",
                                  !.fault = @ \/ ~ok \/ landed # Wanted(c)])
    BY DEF WriteChannel
  <2> DEFINE result == IF ok THEN "sent" ELSE "error"
             fault  == job[c].fault \/ ~ok \/ landed # Wanted(c)
  <2>2. result \in {"sent", "error"} /\ fault \in BOOLEAN
    OBVIOUS
  <2> QED
    BY <2>1, <2>2
<1> DEFINE j == [job[c] EXCEPT !.result = result, !.fault = fault]
<1>5. SameOp(j, job[c]) /\ j.answer = job[c].answer /\ j.report = job[c].report
  BY <1>3 DEF Jobs, SameOp
<1>6. Set(c, j)
  BY <1>4
<1> HIDE DEF j
<1>7. pc'[c] = "result" /\ job'[c] = j
  BY <1>1, <1>3, <1>6, WentTo, JobSet
<1>8. s \in Slots /\ s \in Todo(c)
  BY <1>2, <1>3, InTheLoop
<1>9. CASE landed = mem[s]
  <2>1. mem' = mem /\ touched' = touched
    BY <1>3, <1>4, <1>9 DEF IInv, TypeOK, Memories
  <2>2. SameLogs
    BY <1>1, <1>3, <2>1, JournalUntouched DEF SameLogs
  <2> QED
    BY <1>1, <1>2, <1>5, <1>6, <2>1, <2>2, PlainStep
<1>10. CASE landed # mem[s]
  <2>1. Same(AttemptLog', AttemptLog) /\ ConfirmLog' = ConfirmLog
    BY <1>1 DEF Same, AttemptLog, ConfirmLog, Attempted, Confirmed, Lines
  <2>2. Same(ConfirmLog', ConfirmLog)
    BY <2>1 DEF Same
  <2>3. More(ChangeLog', ChangeLog, s)
    <3>1. touched' = touched \cup {<<runs, s>>}
      BY <1>3, <1>4, <1>10
    <3>2. ASSUME NEW r \in Nat
          PROVE  /\ r = runs => Touched(r)' = Touched(r) \cup {s}
                 /\ r # runs => Touched(r)' = Touched(r)
      <4> DEFINE pair == <<runs, s>>
      <4>1. touched' = touched \cup {pair} /\ pair[1] = runs /\ pair[2] = s
        BY <3>1
      <4> HIDE DEF pair
      <4>2. Touched(r) \subseteq Touched(r)'
        BY <4>1 DEF Touched
      <4>3. Touched(r)' \subseteq Touched(r) \cup (IF r = runs THEN {s} ELSE {})
        BY <4>1 DEF Touched
      <4>4. r = runs => s \in Touched(r)'
        BY <4>1 DEF Touched
      <4> QED
        BY <4>2, <4>3, <4>4
    <3> QED
      BY <1>3, <3>2 DEF More, ChangeLog
  <2>4. /\ Declared' = Declared /\ Settled' = Settled
        /\ Changed' = [Changed EXCEPT ![runs] = @ \cup {s}]
    BY <1>3, <2>1, <2>2, <2>3, SameSeen, MoreSeen
  <2>5. LedgerInv'
    <3>1. job'[c].answer = "none" /\ ConfirmLog'[job'[c].run] = job'[c].report.verified
      BY <1>2, <1>3, <1>5, <1>7, <2>1 DEF RecordInv, SameOp
    <3> QED
      BY <1>1, <1>3, <1>7, <3>1, Linked
  <2>6. UNCHANGED <<Live, Order, Bound, Answered, Told>>
    BY <1>1, <1>3, <1>5, <1>7, SilentStep
  <2>7. /\ Ledger!Undecided /\ Bound = generation /\ s \in DOMAIN Order
        /\ Order[s] = Wanted(c)
        /\ Declared[runs] = AttemptLog[runs] /\ Settled[runs] = ConfirmLog[runs]
    BY <1>2, <1>8, UnderContract DEF Wanted
  <2>8. s \in Ledger!Doubt
    <3>1. s \in AttemptLog[runs]
      BY <1>1, <1>3 DEF ClientInv, AttemptInv, InPair
    <3>2. s \in job[c].left /\ job[c].report.verified = Todo(c) \ job[c].left
      BY <1>2, <1>3, InTheLoop
    <3>3. s \notin ConfirmLog[runs]
      BY <1>2, <1>3, <3>2 DEF RecordInv
    <3> QED
      BY <2>7, <3>1, <3>3 DEF Ledger!Doubt
  <2>9. Ledger!Write(s)
    BY <1>1, <1>4, <1>10, <2>4, <2>6, <2>7, <2>8
       DEF Ledger!Write, Ledger!runVars, Ledger!diskVars, Ledger!tellVars
  <2> QED
    BY <1>8, <2>5, <2>9 DEF Simulated, Ledger!Next
<1> QED
  BY <1>9, <1>10

LEMMA JournalResultRefines ==
  ASSUME LedgerInv, IInv', NEW c \in Clients, JournalResult(c)
  PROVE  LedgerInv' /\ Simulated
<1> DEFINE line == Line(c, "write_result", job[c].at, job[c].result = "sent")
           counted == IF job[c].result = "sent" THEN Written(c) ELSE job[c].report
           blamed == Blamed(counted, c)
<1>1. /\ pc[c] = "result" /\ UNCHANGED <<mem, plans, generation, runs, touched>>
  BY DEF JournalResult, radioVars, serviceVars, countVars, histVars
<1>2. pc[c] \in Running /\ "verify" \in Running /\ "diagnose" \in Running
  BY <1>1 DEF Running
<1>3. /\ IInv /\ job[c] \in Jobs /\ job[c].journal \in DOMAIN disk /\ job[c].report \in Reports
  BY <1>2, RunUnderWay
<1>4. line \in Records /\ Quiet(line)
  <2>1. job[c].run \in Nat /\ job[c].at \in Nat
    BY <1>3, NumbersOfJob
  <2> QED
    BY <2>1 DEF Line, Records, Events, Quiet
<1>5. counted \in Reports /\ counted.verified = job[c].report.verified
  <2>1. job[c].at \in Slots
    BY <1>1, <1>3, InTheLoop DEF InLoop, Visiting
  <2> QED
    BY <1>3, <2>1 DEF Written, Reports
<1>6. blamed.verified = counted.verified
  BY <1>5 DEF Blamed, Reports
<1> HIDE DEF line, counted, blamed
<1>7. PICK lines \in {<<>>, <<line>>}, l \in {"verify", "diagnose"}, fault \in BOOLEAN,
           report \in {counted, blamed} :
        /\ Log(c, lines) /\ Goto(c, l)
        /\ Set(c, [job[c] EXCEPT !.report = report, !.fault = fault])
  <2>1. ASSUME NEW r
        PROVE  [job[c] EXCEPT !.report = r] = [job[c] EXCEPT !.report = r, !.fault = job[c].fault]
    BY <1>3 DEF Jobs
  <2>2. job[c].fault \in BOOLEAN
    BY <1>3 DEF Jobs
  <2>3. CASE Log(c, <<line>>) /\ Goto(c, "verify") /\ Set(c, [job[c] EXCEPT !.report = counted])
    BY <2>1, <2>2, <2>3
  <2>4. CASE Log(c, <<line>>) /\ Goto(c, "diagnose") /\ Set(c, [job[c] EXCEPT !.report = blamed])
    BY <2>1, <2>2, <2>4
  <2>5. CASE /\ LogFails(c, line) /\ Goto(c, "diagnose")
             /\ Set(c, [job[c] EXCEPT !.report = blamed, !.fault = TRUE])
    BY <2>5 DEF LogFails
  <2> QED
    BY <2>3, <2>4, <2>5 DEF JournalResult, line, counted, blamed
<1> DEFINE j == [job[c] EXCEPT !.report = report, !.fault = fault]
<1>8. SameOp(j, job[c]) /\ j.answer = job[c].answer /\ j.report = report
  BY <1>3 DEF Jobs, SameOp
<1>9. Set(c, j)
  BY <1>7
<1> HIDE DEF j
<1>10. SameLogs
  BY <1>1, <1>3, <1>4, <1>7, QuietLine DEF SameLogs
<1> QED
  BY <1>1, <1>2, <1>5, <1>6, <1>7, <1>8, <1>9, <1>10, PlainStep

LEMMA DiagnoseRefines ==
  ASSUME LedgerInv, IInv', NEW c \in Clients, Diagnose(c)
  PROVE  LedgerInv' /\ Simulated
<1> DEFINE line == Line(c, "post_failure_readback", job[c].at, TRUE)
<1>1. /\ pc[c] = "diagnose"
      /\ UNCHANGED <<radioVars, serviceVars, cancelled, countVars, histVars>>
  BY DEF Diagnose
<1>2. pc[c] \in Running \ {"check", "sel"} /\ pc[c] \in InLoop /\ pc[c] \in Visiting
  BY <1>1 DEF Running, InLoop, Visiting
<1>3. /\ IInv /\ ClientInv(c) /\ RecordInv(c) /\ job[c] \in Jobs
      /\ job[c].run = runs /\ job[c].report \in Reports
  BY <1>2, RunUnderWay
<1>4. line \in Records /\ Quiet(line) /\ line.run = job[c].run
  <2>1. job[c].run \in Nat /\ job[c].at \in Nat
    BY <1>3, NumbersOfJob
  <2> QED
    BY <2>1 DEF Line, Records, Events, Quiet
<1> HIDE DEF line
<1>5. PICK note \in {<<>>, <<line>>} : AbortAfter(c, note, job[c].report, job[c].fault)
  BY DEF Diagnose, line
<1>6. /\ job[c].report.failed = {job[c].at} /\ ConfirmLog[runs] = job[c].report.verified
      /\ ChangeLog[runs] \subseteq job[c].report.verified \cup job[c].report.failed
      /\ job[c].at \in AttemptLog[runs]
  BY <1>1, <1>2, <1>3 DEF ClientInv, ReportInv, AttemptInv, RecordInv, InDoubt, InPair
<1>7. ConfirmLog[runs] \subseteq AttemptLog[runs]
  BY <1>2, <1>3, RunUnderWay DEF IInv, JournalInv
<1>8. job[c].at \notin job[c].report.verified
  BY <1>2, <1>3, InTheLoop
<1> QED
  <2>1. /\ job[c].report.verified \cap job[c].report.failed = {}
        /\ job[c].report.verified \cup job[c].report.failed \subseteq AttemptLog[runs]
        /\ ConfirmLog[runs] \subseteq job[c].report.verified
        /\ ChangeLog[runs] \subseteq job[c].report.verified \cup job[c].report.failed
    BY <1>6, <1>7, <1>8
  <2>2. job[c].report \in Reports /\ pc[c] \in Running \ {"check", "sel"}
    BY <1>2, <1>3
  <2>3. Quiet(line) /\ line \in Records /\ line.run = job[c].run
    BY <1>4
  <2> QED
    BY <1>1, <1>5, <2>1, <2>2, <2>3, AbortRefines

LEMMA ReadBackRefines ==
  ASSUME LedgerInv, IInv', NEW c \in Clients, ReadBack(c)
  PROVE  LedgerInv' /\ Simulated
<1>1. pc[c] \in Running /\ UNCHANGED <<mem, plans, generation, runs, disk, touched>>
  BY DEF ReadBack, Running, radioVars, serviceVars, countVars, histVars
<1>2. IInv /\ job[c] \in Jobs
  BY <1>1, RunUnderWay
<1>3. PICK result, fault : /\ Goto(c, "verdict")
                           /\ Set(c, [job[c] EXCEPT !.result = result, !.fault = fault])
  <2>1. CASE Set(c, [job[c] EXCEPT !.result = "match"])
    <3>1. Set(c, [job[c] EXCEPT !.result = "match", !.fault = job[c].fault])
      BY <1>2, <2>1 DEF Jobs
    <3> QED
      BY <3>1 DEF ReadBack
  <2>2. CASE Set(c, [job[c] EXCEPT !.result = "mismatch", !.fault = TRUE])
    BY <2>2 DEF ReadBack
  <2>3. CASE Set(c, [job[c] EXCEPT !.result = "unread", !.fault = @ \/ ~PairCancelled(c)])
    <3> DEFINE fault == job[c].fault \/ ~PairCancelled(c)
    <3>1. Set(c, [job[c] EXCEPT !.result = "unread", !.fault = fault])
      BY <2>3
    <3> HIDE DEF fault
    <3> QED
      BY <3>1 DEF ReadBack
  <2> QED
    BY <2>1, <2>2, <2>3 DEF ReadBack
<1> DEFINE j == [job[c] EXCEPT !.result = result, !.fault = fault]
<1>4. SameOp(j, job[c]) /\ j.answer = job[c].answer /\ j.report = job[c].report
  BY <1>2 DEF Jobs, SameOp
<1>5. Set(c, j) /\ "verdict" \in Running
  BY <1>3 DEF Running
<1> HIDE DEF j
<1>6. SameLogs
  BY <1>1, <1>2, JournalUntouched DEF SameLogs
<1> QED
  BY <1>1, <1>3, <1>4, <1>5, <1>6, PlainStep

LEMMA JournalVerdictRefines ==
  ASSUME LedgerInv, IInv', NEW c \in Clients, JournalVerdict(c)
  PROVE  LedgerInv' /\ Simulated
<1> DEFINE at == job[c].at
           line == Line(c, "verify_result", at, job[c].result = "match")
           verified == Verified(c)
           blamed == Blamed(job[c].report, c)
<1>1. /\ pc[c] = "verdict" /\ UNCHANGED <<radioVars, serviceVars, cancelled, countVars, histVars>>
      /\ UNCHANGED <<mem, plans, generation, runs, touched>>
  BY DEF JournalVerdict, radioVars, serviceVars, countVars, histVars
<1>2. /\ pc[c] \in Running /\ pc[c] \in Running \ {"check", "sel"}
      /\ pc[c] \in InLoop /\ pc[c] \in Visiting
  BY <1>1 DEF Running, InLoop, Visiting
<1>3. /\ IInv /\ ClientInv(c) /\ Executing(c) /\ RecordInv(c) /\ job[c] \in Jobs
      /\ job[c].run = runs /\ runs \in Nat /\ runs \in 1 .. MaxRuns /\ runs =< MaxRuns
      /\ job[c].journal \in DOMAIN disk /\ job[c].report \in Reports /\ pc[c] # "idle"
  BY <1>2, RunUnderWay DEF LedgerInv
<1>4. at \in job[c].left /\ at \in Slots /\ job[c].report.verified = Todo(c) \ job[c].left
  BY <1>2, <1>3, InTheLoop
<1>5. /\ line \in Records /\ line.run = runs /\ line.slot = at
      /\ line.event = "verify_result" /\ (line.ok <=> job[c].result = "match")
  <2>1. job[c].run \in Nat /\ at \in Nat
    BY <1>3, NumbersOfJob
  <2> QED
    BY <1>3, <2>1 DEF Line, Records, Events
<1>6. /\ job[c].report.failed = {} /\ ChangeLog[runs] \subseteq job[c].report.verified \cup {at}
      /\ at \in AttemptLog[runs] /\ ConfirmLog[runs] = job[c].report.verified
  BY <1>1, <1>2, <1>3 DEF ClientInv, AttemptInv, ReportInv, RecordInv, Running, InDoubt, InPair
<1>7. ConfirmLog[runs] \subseteq AttemptLog[runs]
  BY <1>3 DEF IInv, JournalInv
<1>8. /\ verified \in Reports /\ verified.verified = job[c].report.verified \cup {at}
      /\ verified.failed = {}
  BY <1>3, <1>4, <1>6 DEF Verified, Reports
<1>9. /\ blamed \in Reports /\ blamed.verified = job[c].report.verified
      /\ blamed.failed = {at}
  BY <1>3, <1>4, <1>6 DEF Blamed, Reports
<1>10. \/ /\ job[c].result = "match"
          /\ \/ Log(c, <<line>>) /\ NextSlot(c, verified)
             \/ AbortUnlogged(c, line, verified)
       \/ /\ job[c].result # "match"
          /\ \E lines \in {<<>>, <<line>>} : AbortAfter(c, lines, blamed, job[c].fault)
  BY DEF JournalVerdict
<1> HIDE DEF line, verified, blamed
<1>11. CASE AbortUnlogged(c, line, verified)
  <2>1. PICK lost \in {<<>>, <<line>>} : AbortAfter(c, lost, verified, TRUE)
    BY <1>11 DEF AbortUnlogged
  <2>2. /\ verified.verified \cap verified.failed = {} /\ at \in verified.verified
        /\ ConfirmLog[runs] \subseteq verified.verified
        /\ verified.verified \cup verified.failed \subseteq AttemptLog[runs]
        /\ ChangeLog[runs] \subseteq verified.verified \cup verified.failed
    BY <1>6, <1>7, <1>8
  <2>3. line \in Records /\ line.run = job[c].run /\ verified \in Reports
    BY <1>3, <1>5, <1>8
  <2>4. line.slot = at /\ line.event = "verify_result"
    BY <1>5
  <2> QED
    BY <1>1, <1>2, <2>1, <2>2, <2>3, <2>4, AbortRefines
<1>12. CASE /\ job[c].result # "match"
            /\ \E lines \in {<<>>, <<line>>} : AbortAfter(c, lines, blamed, job[c].fault)
  <2>1. PICK lines \in {<<>>, <<line>>} : AbortAfter(c, lines, blamed, job[c].fault)
    BY <1>12
  <2>2. /\ blamed.verified \cap blamed.failed = {}
        /\ ConfirmLog[runs] \subseteq blamed.verified
        /\ blamed.verified \cup blamed.failed \subseteq AttemptLog[runs]
        /\ ChangeLog[runs] \subseteq blamed.verified \cup blamed.failed
    BY <1>4, <1>6, <1>7, <1>9
  <2>3. line \in Records /\ line.run = job[c].run /\ blamed \in Reports
    BY <1>3, <1>5, <1>9
  <2>4. Quiet(line)
    BY <1>5, <1>12 DEF Quiet
  <2> QED
    BY <1>1, <1>2, <2>1, <2>2, <2>3, <2>4, AbortRefines
<1>13. CASE job[c].result = "match" /\ Log(c, <<line>>) /\ NextSlot(c, verified)
  <2>1. \A r \in Nat :
          /\ AttemptLog'[r] = AttemptLog[r] \cup Named(<<line>>, r, "write_attempt")
          /\ ConfirmLog'[r] = ConfirmLog[r] \cup Named(<<line>>, r, "verify_result")
    <3>1. <<line>> \in Seq(Records)
      BY <1>5
    <3> QED
      BY <1>3, <1>13, <3>1, LogAdds DEF IInv, TypeOK
  <2>2. \A r \in Nat :
          /\ Named(<<line>>, r, "write_attempt") = {}
          /\ Named(<<line>>, r, "verify_result") = IF r = runs THEN {at} ELSE {}
    BY <1>5, <1>13, NamedOne
  <2>3. More(ConfirmLog', ConfirmLog, at) /\ Same(AttemptLog', AttemptLog)
    BY <1>3, <2>1, <2>2 DEF More, Same
  <2>4. Same(ChangeLog', ChangeLog)
    BY <1>1 DEF Same, ChangeLog, Touched
  <2>5. PICK left : \E l \in {"slot", "settings"} :
          Goto(c, l) /\ Set(c, [job[c] EXCEPT !.left = left, !.report = verified])
    BY <1>13 DEF NextSlot
  <2>6. PICK l \in {"slot", "settings"} :
          Goto(c, l) /\ Set(c, [job[c] EXCEPT !.left = left, !.report = verified])
    BY <2>5
  <2> DEFINE j == [job[c] EXCEPT !.left = left, !.report = verified]
  <2>7. SameOp(j, job[c]) /\ j.answer = job[c].answer /\ j.report = verified
    BY <1>3 DEF Jobs, SameOp
  <2>8. Set(c, j)
    BY <2>6
  <2> HIDE DEF j
  <2>9. pc'[c] = l /\ job'[c] = j /\ pc'[c] # "idle"
    BY <1>3, <2>6, <2>8, WentTo, JobSet
  <2>10. job[c].answer = "none"
    BY <1>2, <1>3 DEF RecordInv
  <2>11. LedgerInv'
    <3>1. ConfirmLog'[runs] = verified.verified
      BY <1>6, <1>8, <2>3 DEF More
    <3>2. job'[c].answer = "none" /\ ConfirmLog'[job'[c].run] = job'[c].report.verified
      BY <1>3, <2>7, <2>9, <2>10, <3>1 DEF SameOp
    <3> QED
      BY <1>1, <1>3, <2>9, <3>2, Linked
  <2>12. UNCHANGED <<Live, Order, Bound, Answered, Told>>
    BY <1>1, <1>3, <2>7, <2>9, <2>10, SilentStep
  <2>13. Heard
    BY <2>12 DEF Heard
  <2> QED
    BY <1>1, <2>3, <2>4, <2>11, <2>12, <2>13, Settles
<1> QED
  BY <1>10, <1>11, <1>12, <1>13

LEMMA SettingAttemptRefines ==
  ASSUME LedgerInv, IInv', NEW c \in Clients, SettingAttempt(c)
  PROVE  LedgerInv' /\ Simulated
<1> DEFINE i == Min(job[c].left)
           line == Line(c, "setting_write_attempt", i, TRUE)
           j == [job[c] EXCEPT !.at = i]
<1>1. /\ pc[c] = "settings"
      /\ UNCHANGED <<radioVars, serviceVars, cancelled, countVars, histVars>>
      /\ UNCHANGED <<mem, plans, generation, runs, touched>>
  BY DEF SettingAttempt, radioVars, serviceVars, countVars, histVars
<1>2. pc[c] \in Running /\ "set" \in Running /\ pc[c] \in {"vfo", "slot"} \cup InBatch
  BY <1>1 DEF Running, InBatch
<1>3. /\ IInv /\ ClientInv(c) /\ job[c] \in Jobs /\ job[c].run = runs /\ runs \in Nat
      /\ job[c].journal \in DOMAIN disk
  BY <1>2, RunUnderWay
<1>4. i \in Nat
  <2>1. job[c].left \subseteq Items /\ job[c].left # {}
    BY <1>1, <1>3 DEF SettingAttempt, ClientInv, LoopInv, InBatch, Batch, SettingDeltas
  <2> QED
    BY <2>1, MinIsMember, Numbered
<1>5. AbortUnlogged(c, line, job[c].report) \/ (Log(c, <<line>>) /\ Goto(c, "set") /\ Set(c, j))
  BY DEF SettingAttempt
<1> HIDE DEF i
<1>6. line \in Records /\ Quiet(line) /\ line.run = job[c].run
  BY <1>3, <1>4 DEF Line, Records, Events, Quiet
<1>7. SameOp(j, job[c]) /\ j.answer = job[c].answer /\ j.report = job[c].report
  BY <1>3 DEF Jobs, SameOp
<1> HIDE DEF line, j
<1>8. CASE AbortUnlogged(c, line, job[c].report)
  <2>1. PICK lost \in {<<>>, <<line>>} : AbortAfter(c, lost, job[c].report, TRUE)
    BY <1>8 DEF AbortUnlogged
  <2> QED
    BY <1>1, <1>2, <1>6, <2>1, QuietAbortRefines
<1>9. CASE Log(c, <<line>>) /\ Goto(c, "set") /\ Set(c, j)
  <2>1. SameLogs
    BY <1>1, <1>3, <1>6, <1>9, QuietLine DEF SameLogs
  <2> QED
    BY <1>1, <1>2, <1>7, <1>9, <2>1, PlainStep
<1> QED
  BY <1>5, <1>8, <1>9

LEMMA WriteSettingRefines ==
  ASSUME LedgerInv, IInv', NEW c \in Clients, WriteSetting(c)
  PROVE  LedgerInv' /\ Simulated
<1>1. /\ pc[c] \in Running /\ UNCHANGED <<mem, plans, generation, runs, disk, touched>>
      /\ Goto(c, "setresult") /\ "setresult" \in Running
  BY DEF WriteSetting, Running, serviceVars, countVars, histVars
<1>2. IInv /\ job[c] \in Jobs
  BY <1>1, RunUnderWay
<1>3. PICK result, fault : Set(c, [job[c] EXCEPT !.result = result, !.fault = fault])
  <2>1. CASE Set(c, [job[c] EXCEPT !.result = "match"])
    <3>1. Set(c, [job[c] EXCEPT !.result = "match", !.fault = job[c].fault])
      BY <1>2, <2>1 DEF Jobs
    <3> QED
      BY <3>1
  <2>2. CASE Set(c, [job[c] EXCEPT !.result = "error", !.fault = TRUE])
    BY <2>2
  <2> QED
    BY <2>1, <2>2 DEF WriteSetting
<1> DEFINE j == [job[c] EXCEPT !.result = result, !.fault = fault]
<1>4. SameOp(j, job[c]) /\ j.answer = job[c].answer /\ j.report = job[c].report
  BY <1>2 DEF Jobs, SameOp
<1>5. Set(c, j)
  BY <1>3
<1> HIDE DEF j
<1>6. SameLogs
  BY <1>1, <1>2, JournalUntouched DEF SameLogs
<1> QED
  BY <1>1, <1>4, <1>5, <1>6, PlainStep

LEMMA SettingResultRefines ==
  ASSUME LedgerInv, IInv', NEW c \in Clients, SettingResult(c)
  PROVE  LedgerInv' /\ Simulated
<1> DEFINE line == Line(c, "setting_write_result", job[c].at, job[c].result = "match")
           j == [job[c] EXCEPT !.left = @ \ {job[c].at}]
<1>1. /\ pc[c] = "setresult"
      /\ UNCHANGED <<radioVars, serviceVars, cancelled, countVars, histVars>>
      /\ UNCHANGED <<mem, plans, generation, runs, touched>>
  BY DEF SettingResult, radioVars, serviceVars, countVars, histVars
<1>2. pc[c] \in Running /\ "settings" \in Running /\ pc[c] \in {"vfo", "slot"} \cup InBatch
  BY <1>1 DEF Running, InBatch
<1>3. /\ IInv /\ job[c] \in Jobs /\ job[c].run = runs /\ runs \in Nat
      /\ job[c].journal \in DOMAIN disk
  BY <1>2, RunUnderWay
<1>4. line \in Records /\ Quiet(line) /\ line.run = job[c].run
  <2>1. job[c].at \in Nat
    BY <1>3, NumbersOfJob
  <2> QED
    BY <1>3, <2>1 DEF Line, Records, Events, Quiet
<1>5. \/ Log(c, <<line>>) /\ Goto(c, "settings") /\ Set(c, j)
      \/ AbortAfter(c, <<line>>, job[c].report, job[c].fault)
      \/ AbortUnlogged(c, line, job[c].report)
  BY DEF SettingResult
<1>6. SameOp(j, job[c]) /\ j.answer = job[c].answer /\ j.report = job[c].report
  BY <1>3 DEF Jobs, SameOp
<1> HIDE DEF line, j
<1>7. CASE Log(c, <<line>>) /\ Goto(c, "settings") /\ Set(c, j)
  <2>1. SameLogs
    BY <1>1, <1>3, <1>4, <1>7, QuietLine DEF SameLogs
  <2> QED
    BY <1>1, <1>2, <1>6, <1>7, <2>1, PlainStep
<1>8. CASE AbortAfter(c, <<line>>, job[c].report, job[c].fault)
  BY <1>1, <1>2, <1>4, <1>8, QuietAbortRefines
<1>9. CASE AbortUnlogged(c, line, job[c].report)
  <2>1. PICK lost \in {<<>>, <<line>>} : AbortAfter(c, lost, job[c].report, TRUE)
    BY <1>9 DEF AbortUnlogged
  <2> QED
    BY <1>1, <1>2, <1>4, <2>1, QuietAbortRefines
<1> QED
  BY <1>5, <1>7, <1>8, <1>9

(* Execute ends with nothing in doubt: refused, or done.                   *)
LEMMA Concludes ==
  ASSUME LedgerInv, IInv', NEW c \in Clients, pc[c] \in Running,
         NEW l \in {"restore", "return"}, Goto(c, l),
         NEW a \in {"refused", "done"}, Set(c, [job[c] EXCEPT !.answer = a]),
         UNCHANGED <<plans, generation, runs, mem>>, SameLogs,
         Agrees(a, job[c].report.verified, job[c].report.failed, AttemptLog[runs],
                ConfirmLog[runs], ChangeLog[runs], Deltas(plans[job[c].confirmed]))
  PROVE  LedgerInv' /\ Simulated
<1>1. IInv /\ job[c] \in Jobs /\ runs \in 1 .. MaxRuns /\ runs =< MaxRuns
  BY RunUnderWay DEF LedgerInv
<1> DEFINE j == [job[c] EXCEPT !.answer = a]
<1>2. SameOp(j, job[c]) /\ j.answer = a /\ j.report = job[c].report
  BY <1>1 DEF Jobs, SameOp
<1> HIDE DEF j
<1>3. pc'[c] = l /\ job'[c] = j /\ pc'[c] # "idle" /\ pc'[c] \notin Running
  BY <1>1, WentTo, JobSet DEF j, Running
<1>4. LedgerInv'
  BY <1>1, <1>3, Linked
<1>5. Ledger!Undecided /\ Ledger!Tells(a) /\ UNCHANGED <<generation, runs, Live, Order, Bound>>
  BY <1>2, <1>3, AnswerTold DEF SameLogs
<1>6. Declared' = Declared /\ Settled' = Settled /\ Changed' = Changed
  BY LogsSeen DEF SameLogs
<1>7. Ledger!Conclude
  BY <1>5, <1>6 DEF Ledger!Conclude, Ledger!radioVars, Ledger!runVars, Ledger!diskVars
<1> QED
  BY <1>4, <1>7 DEF Simulated, Ledger!Next

LEMMA CompleteRefines ==
  ASSUME LedgerInv, IInv', NEW c \in Clients, Complete(c)
  PROVE  LedgerInv' /\ Simulated
<1> DEFINE line == Line(c, "completion", 0, TRUE)
<1>1. pc[c] = "settings" /\ UNCHANGED <<mem, plans, generation, runs, touched>>
  BY DEF Complete, radioVars, serviceVars, countVars, histVars
<1>2. pc[c] \in Running \ {"check"} /\ pc[c] \in InBatch
  BY <1>1 DEF Running, InBatch
<1>3. /\ IInv /\ ClientInv(c) /\ RecordInv(c) /\ job[c] \in Jobs /\ job[c].run = runs
      /\ runs \in Nat /\ job[c].journal \in DOMAIN disk /\ job[c].report \in Reports
  BY <1>2, RunUnderWay
<1>4. line \in Records /\ Quiet(line)
  BY <1>3 DEF Line, Records, Events, Quiet
<1>5. LogFails(c, line)
  BY DEF Complete
<1> HIDE DEF line
<1>6. SameLogs
  BY <1>1, <1>3, <1>4, <1>5, QuietLine DEF SameLogs, LogFails
<1>7. /\ AttemptLog[runs] = ConfirmLog[runs] /\ ConfirmLog[runs] = job[c].report.verified
      /\ job[c].report.verified = Todo(c) /\ job[c].report.failed = {}
  BY <1>1, <1>2, <1>3 DEF ClientInv, AttemptInv, ReportInv, RecordInv, Running
<1>8. Deltas(plans[job[c].confirmed]) = Todo(c) /\ Todo(c) \subseteq Slots
  BY <1>2, UnderContract
<1>9. Agrees("done", job[c].report.verified, job[c].report.failed, AttemptLog[runs],
             ConfirmLog[runs], ChangeLog[runs], Deltas(plans[job[c].confirmed]))
  BY <1>7, <1>8 DEF Agrees
<1>10. PICK l \in {"restore", "return"} : Goto(c, l)
  BY DEF Complete, Unwind
<1>11. Set(c, [job[c] EXCEPT !.answer = "done"])
  BY DEF Complete
<1> QED
  BY <1>1, <1>2, <1>6, <1>9, <1>10, <1>11, Concludes

LEMMA RefusePlanRefines ==
  ASSUME LedgerInv, IInv', NEW c \in Clients, RefusePlan(c)
  PROVE  LedgerInv' /\ Simulated
<1>1. /\ pc[c] = "check" /\ UNCHANGED <<mem, plans, generation, runs, disk, touched>>
      /\ Goto(c, "return") /\ Set(c, [job[c] EXCEPT !.answer = "refused"])
  BY DEF RefusePlan, Refuse, radioVars, serviceVars, countVars, histVars
<1>2. pc[c] \in Running
  BY <1>1 DEF Running
<1>3. IInv /\ ClientInv(c) /\ RecordInv(c) /\ job[c].run = runs
  BY <1>2, RunUnderWay
<1>4. SameLogs
  BY <1>1, <1>3, JournalUntouched DEF SameLogs
<1>5. /\ AttemptLog[runs] = {} /\ ConfirmLog[runs] = {} /\ ChangeLog[runs] = {}
      /\ job[c].report.verified = {} /\ job[c].report.failed = {}
  BY <1>1, <1>3 DEF ClientInv, AttemptInv, ReportInv, Preparing, Running, InDoubt
<1>6. Agrees("refused", job[c].report.verified, job[c].report.failed, AttemptLog[runs],
             ConfirmLog[runs], ChangeLog[runs], Deltas(plans[job[c].confirmed]))
  BY <1>5 DEF Agrees
<1> QED
  BY <1>1, <1>2, <1>4, <1>6, Concludes

LEMMA RestoreRefines ==
  ASSUME LedgerInv, IInv', NEW c \in Clients, Restore(c)
  PROVE  LedgerInv' /\ Simulated
<1>1. /\ pc[c] = "restore" /\ Goto(c, "return")
      /\ UNCHANGED <<mem, plans, generation, runs, disk, touched>>
  BY DEF Restore, serviceVars, countVars, histVars
<1>2. IInv /\ job[c] \in Jobs
  BY <1>1, RunUnderWay
<1>3. PICK unheld : Set(c, [job[c] EXCEPT !.unheld = unheld])
  BY DEF Restore
<1> DEFINE j == [job[c] EXCEPT !.unheld = unheld]
<1>4. SameOp(j, job[c]) /\ j.answer = job[c].answer /\ j.report = job[c].report
  BY <1>2 DEF Jobs, SameOp
<1>5. Set(c, j)
  BY <1>3
<1> HIDE DEF j
<1>6. pc'[c] = "return" /\ job'[c] = j /\ pc'[c] \notin Running
  BY <1>1, <1>2, <1>5, WentTo, JobSet DEF Running
<1>7. SameLogs
  BY <1>1, <1>2, JournalUntouched DEF SameLogs
<1> QED
  BY <1>1, <1>4, <1>6, <1>7, QuietStep

(* Execute returns; or another operation does, which the ledger never saw. *)
LEMMA ReturnRefines ==
  ASSUME LedgerInv, IInv', NEW c \in Clients, Return(c)
  PROVE  LedgerInv' /\ Simulated
<1>1. /\ pc[c] = "return" /\ Goto(c, "idle") /\ UNCHANGED <<mem, generation, runs, disk, touched>>
  BY DEF Return, countVars
<1>2. /\ IInv /\ ClientInv(c) /\ Busy(c) /\ \A d \in Clients \ {c} : ~Busy(d)
      /\ runs =< MaxRuns
  BY <1>1, OneIsBusy DEF LedgerInv
<1>3. \A d \in Clients : pc'[d] = "idle"
  BY <1>1, <1>2 DEF Goto, Busy, IInv, TypeOK
<1>4. SameLogs
  BY <1>1, <1>2, JournalUntouched DEF SameLogs
<1>5. CASE ~Executing(c)
  <2>1. \A d \in Clients : pc[d] # "idle" => ~Executing(d)
    BY <1>2, <1>5 DEF Busy
  <2> QED
    BY <1>1, <1>3, <1>4, <2>1, NobodyStep
<1>6. CASE Executing(c)
  <2>1. Live /\ Answered = job[c].answer
    BY <1>1, <1>2, <1>6, SendingSeen
  <2>2. Answered # "none"
    BY <1>1, <1>2, <1>6, <2>1 DEF ClientInv, AnswerInv, Ending
  <2>3. /\ ~Live' /\ Order' = Ledger!NoOrder /\ Bound' = 0 /\ Answered' = "none"
        /\ Told' = Ledger!NoReport
    BY <1>3, NobodySeenNext
  <2>4. Live' = FALSE
    <3>1. Live' \in BOOLEAN
      BY DEF Live
    <3> QED
      BY <2>3, <3>1
  <2>5. Declared' = Declared /\ Settled' = Settled /\ Changed' = Changed
    BY <1>4, LogsSeen DEF SameLogs
  <2>6. Ledger!Return
    BY <1>1, <2>1, <2>2, <2>3, <2>4, <2>5
       DEF Ledger!Return, Ledger!Closes, Ledger!radioVars, Ledger!diskVars
  <2>7. LedgerInv'
    BY <1>1, <1>2, <1>3, LinkedNobody DEF Running
  <2> QED
    BY <2>6, <2>7 DEF Simulated, Ledger!Next
<1> QED
  BY <1>5, <1>6

-----------------------------------------------------------------------------
(* The operations that only read.                                          *)

LEMMA ReadingRefines ==
  ASSUME LedgerInv, IInv', NEW c \in Clients, pc[c] \in Reading,
         UNCHANGED pc \/ \E l \in Labels : Goto(c, l),
         NEW j, Set(c, j), j.op = job[c].op,
         UNCHANGED <<mem, generation, runs>>, SameLogs
  PROVE  LedgerInv' /\ Simulated
<1>1. /\ IInv /\ ClientInv(c) /\ \A d \in Clients \ {c} : ~Busy(d)
  BY OneIsBusy DEF LedgerInv, Reading
<1>2. ~Executing(c)
  BY <1>1 DEF ClientInv, OpInv, Reading, Executing
<1>3. \A d \in Clients : pc[d] # "idle" => ~Executing(d)
  BY <1>1, <1>2 DEF Busy
<1>4. \A d \in Clients : pc'[d] # "idle" => job'[d].op # "Execute"
  <2>1. \A d \in Clients \ {c} : pc'[d] = "idle"
    BY <1>1 DEF Goto, Busy, IInv, TypeOK
  <2>2. job'[c].op # "Execute"
    BY <1>1, <1>2, JobSet DEF Executing
  <2> QED
    BY <2>1, <2>2
<1> QED
  BY <1>3, <1>4, NobodyStep

LEMMA RefusedReadingRefines ==
  ASSUME LedgerInv, IInv', NEW c \in Clients, pc[c] \in Reading, Refuse(c), SameLogs
  PROVE  LedgerInv' /\ Simulated
<1> DEFINE j == [job[c] EXCEPT !.answer = "refused"]
<1>1. job[c] \in Jobs
  BY OneIsBusy DEF LedgerInv, Reading
<1>2. /\ Set(c, j) /\ j.op = job[c].op
      /\ \E l \in Labels : Goto(c, l)
      /\ UNCHANGED <<mem, generation, runs>>
  BY <1>1 DEF Refuse, Jobs, Labels, radioVars, serviceVars, countVars
<1> HIDE DEF j
<1> QED
  BY <1>2, ReadingRefines

LEMMA ReadSlotRefines ==
  ASSUME LedgerInv, IInv', NEW c \in Clients, ReadSlot(c) \/ ReadItem(c) \/ ReadReturns(c)
  PROVE  LedgerInv' /\ Simulated
<1>1. /\ pc[c] \in Reading /\ UNCHANGED <<mem, generation, runs, disk, touched>>
      /\ UNCHANGED pc \/ \E l \in Labels : Goto(c, l)
  BY DEF ReadSlot, ReadItem, ReadReturns, Reading, Labels, radioVars, serviceVars, countVars,
         histVars
<1>2. IInv /\ job[c] \in Jobs
  BY <1>1, OneIsBusy DEF LedgerInv, Reading
<1>3. PICK j : Set(c, j) /\ j.op = job[c].op
  <2> DEFINE n == Min(job[c].left)
             rest == job[c].left \ {n}
             seen == [job[c].seen EXCEPT ![n] = mem[n]]
             settings == [job[c].settings EXCEPT ![n] = Files[job[c].file].menus[n]]
             read == [job[c] EXCEPT !.left = rest, !.seen = seen]
             unread == [job[c] EXCEPT !.left = rest, !.partial = TRUE]
             skipped == [job[c] EXCEPT !.left = rest]
             wished == [job[c] EXCEPT !.left = rest, !.settings = settings]
  <2>0. /\ read.op = job[c].op /\ unread.op = job[c].op
        /\ skipped.op = job[c].op /\ wished.op = job[c].op
    <3> HIDE DEF rest, seen, settings
    <3> QED
      BY <1>2 DEF Jobs
  <2>1. CASE ReadSlot(c)
    <3>1. Set(c, read) \/ Set(c, unread)
      BY <2>1 DEF ReadSlot
    <3> HIDE DEF read, unread
    <3> QED
      BY <2>0, <3>1
  <2>2. CASE ReadItem(c)
    <3>1. Set(c, skipped) \/ Set(c, wished)
      BY <2>2 DEF ReadItem
    <3> HIDE DEF skipped, wished
    <3> QED
      BY <2>0, <3>1
  <2>3. CASE ReadReturns(c)
    BY <1>2, <2>3 DEF ReadReturns, Jobs
  <2> QED
    BY <2>1, <2>2, <2>3
<1>4. SameLogs
  BY <1>1, <1>2, JournalUntouched DEF SameLogs
<1> QED
  BY <1>1, <1>3, <1>4, ReadingRefines

LEMMA ReadFailsRefines ==
  ASSUME LedgerInv, IInv', NEW c \in Clients, ReadFails(c) \/ SnapshotFails(c)
  PROVE  LedgerInv' /\ Simulated
<1>1. pc[c] \in Reading /\ Refuse(c) /\ UNCHANGED <<disk, runs, touched>>
  BY DEF ReadFails, SnapshotFails, Reading, Refuse, countVars, histVars
<1>2. SameLogs
  BY <1>1, JournalUntouched DEF SameLogs, LedgerInv
<1> QED
  BY <1>1, <1>2, RefusedReadingRefines

LEMMA SaveSnapshotRefines ==
  ASSUME LedgerInv, IInv', NEW c \in Clients, SaveSnapshot(c)
  PROVE  LedgerInv' /\ Simulated
<1>1. /\ pc[c] \in Reading /\ UNCHANGED <<mem, generation, runs, touched>>
      /\ disk' = Append(disk, [snap |-> job[c].seen, lines |-> <<>>])
  BY DEF SaveSnapshot, Reading, Refuse, radioVars, serviceVars, countVars, histVars
<1>2. IInv /\ job[c] \in Jobs /\ job[c].seen \in Memories
  BY <1>1, OneIsBusy DEF LedgerInv, Reading, Jobs
<1>3. SameLogs
  BY <1>1, <1>2, SnapshotAdds DEF SameLogs
<1>4. CASE Refuse(c)
  BY <1>1, <1>3, <1>4, RefusedReadingRefines
<1>5. CASE ~Refuse(c)
  <2> DEFINE j == [job[c] EXCEPT !.journal = NextJournal, !.left = Wishes(job[c].file)]
  <2>1. Set(c, j) /\ \E l \in Labels : Goto(c, l)
    BY <1>5 DEF SaveSnapshot, Labels
  <2>2. j.op = job[c].op
    BY <1>2 DEF Jobs
  <2> HIDE DEF j
  <2> QED
    BY <1>1, <1>3, <2>1, <2>2, ReadingRefines
<1> QED
  BY <1>4, <1>5

LEMMA HandOverPlanRefines ==
  ASSUME LedgerInv, IInv', NEW c \in Clients, HandOverPlan(c)
  PROVE  LedgerInv' /\ Simulated
<1> DEFINE line == Line(c, "prepare", 0, TRUE)
           j == [job[c] EXCEPT !.answer = "done"]
<1>1. /\ pc[c] \in Reading /\ pc[c] = "items" /\ job[c].op = "PrepareSend"
      /\ UNCHANGED <<mem, generation, runs, touched>>
  BY DEF HandOverPlan, Reading, Refuse, radioVars, serviceVars, countVars, histVars
<1>2. IInv /\ ClientInv(c) /\ job[c] \in Jobs
  BY <1>1, OneIsBusy DEF LedgerInv
<1>3. job[c].run \in Nat /\ job[c].journal \in DOMAIN disk
  BY <1>1, <1>2 DEF Jobs, ClientInv, OpInv
<1>4. line \in Records /\ Quiet(line)
  BY <1>3 DEF Line, Records, Events, Quiet
<1>5. \/ Log(c, <<line>>) /\ Goto(c, "return") /\ Set(c, j)
      \/ LogFails(c, line) /\ Refuse(c)
  BY DEF HandOverPlan
<1>6. j.op = job[c].op
  BY <1>2 DEF Jobs
<1> HIDE DEF line, j
<1>7. PICK lines \in {<<>>, <<line>>} : Log(c, lines)
  BY <1>5 DEF LogFails
<1>8. SameLogs
  BY <1>1, <1>2, <1>3, <1>4, <1>7, QuietLine DEF SameLogs
<1>9. CASE Refuse(c)
  BY <1>1, <1>8, <1>9, RefusedReadingRefines
<1>10. CASE Goto(c, "return") /\ Set(c, j)
  <2>1. \E l \in Labels : Goto(c, l)
    BY <1>10 DEF Labels
  <2> QED
    BY <1>1, <1>6, <1>8, <1>10, <2>1, ReadingRefines
<1> QED
  BY <1>5, <1>9, <1>10

-----------------------------------------------------------------------------
(* The beginning of an operation.                                          *)

LEMMA Beginning ==
  ASSUME IInv, NEW c \in Clients, NEW l, NEW start, Begin(c, l, start)
  PROVE  /\ \A d \in Clients : pc[d] = "idle"
         /\ \A d \in Clients \ {c} : pc'[d] = "idle"
         /\ pc'[c] = l /\ job'[c] = start
         /\ UNCHANGED <<mem, generation, plans, disk, touched>>
<1>1. \A d \in Clients : pc[d] = "idle"
  BY DEF Begin, Acquire, IInv, LockInv, Busy
<1>2. Goto(c, l) /\ Set(c, start) /\ UNCHANGED <<mem, generation, plans, disk, touched>>
  BY DEF Begin, Set, radioVars, histVars
<1>3. pc'[c] = l /\ job'[c] = start /\ \A d \in Clients \ {c} : pc'[d] = pc[d]
  BY <1>2, WentTo, JobSet DEF Goto, IInv, TypeOK
<1> QED
  BY <1>1, <1>2, <1>3

(* What the journals hold and the radio has taken does not change when     *)
(* neither does.                                                           *)
LEMMA LogsStand ==
  ASSUME UNCHANGED <<disk, touched>>
  PROVE  SameLogs
  BY DEF SameLogs, AttemptLog, ConfirmLog, ChangeLog, Attempted, Confirmed, Touched, Lines

LEMMA BeginReadingRefines ==
  ASSUME LedgerInv, IInv', NEW c \in Clients, NEW l, NEW start, Begin(c, l, start),
         start.op # "Execute", runs' = runs
  PROVE  LedgerInv' /\ Simulated
<1>1. /\ \A d \in Clients : pc[d] # "idle" => ~Executing(d)
      /\ \A d \in Clients : pc'[d] # "idle" => job'[d].op # "Execute"
      /\ UNCHANGED <<mem, generation, disk, touched>>
  BY Beginning DEF LedgerInv
<1> QED
  BY <1>1, LogsStand, NobodyStep

LEMMA BeginExecuteRefines ==
  ASSUME LedgerInv, IInv', NEW c \in Clients, NEW p \in DOMAIN plans, NEW q \in DOMAIN plans,
         BeginExecute(c, p, q)
  PROVE  LedgerInv' /\ Simulated
<1>1. /\ IInv /\ runs \in Nat /\ MaxRuns \in Nat /\ plans \in Seq(PlanSet)
      /\ plans[p] \in PlanSet /\ plans[q] \in PlanSet
      /\ plans[p].journal \in Nat /\ runs + 1 \in Nat /\ p \in Nat /\ q \in Nat
  <2>1. /\ IInv /\ runs \in Nat /\ MaxRuns \in Nat /\ plans \in Seq(PlanSet)
    BY CloneAssumption DEF LedgerInv, IInv, TypeOK
  <2>2. plans[p] \in PlanSet /\ plans[q] \in PlanSet /\ p \in Nat /\ q \in Nat
    BY <2>1
  <2>3. plans[p].journal \in Nat
    BY <2>2 DEF PlanSet
  <2> QED
    BY <2>1, <2>2, <2>3
<1>2. PICK journal \in Nat, run \in Nat : journal = plans[p].journal /\ run = runs + 1
  BY <1>1
<1> DEFINE start == [NoJob EXCEPT !.op = "Execute", !.plan = p, !.confirmed = q,
                                  !.journal = journal, !.run = run]
<1>3. Begin(c, "check", start) /\ runs < MaxRuns /\ runs' = runs + 1
  BY <1>2 DEF BeginExecute
<1>4. /\ start.op = "Execute" /\ start.plan = p /\ start.confirmed = q /\ start.run = runs + 1
      /\ start.answer = "none" /\ start.report.verified = {}
  <2>1. /\ start.op = "Execute" /\ start.plan = p /\ start.confirmed = q /\ start.run = run
        /\ start.answer = "none" /\ start.report = NoReport
    BY <1>1, NoJobIsJob DEF Jobs, NoJob
  <2>2. NoReport.verified = {}
    BY DEF NoReport
  <2> QED
    BY <1>2, <2>1, <2>2
<1> HIDE DEF start
<1>5. /\ \A d \in Clients : pc[d] = "idle"
      /\ pc'[c] = "check" /\ job'[c] = start
      /\ UNCHANGED <<mem, generation, plans, disk, touched>>
  BY <1>1, <1>3, Beginning
<1>6. SameLogs
  BY <1>5, LogsStand
<1>7. LedgerInv'
  <2>1. ConfirmLog[runs + 1] = {}
    BY <1>1 DEF IInv, JournalInv
  <2>2. runs' =< MaxRuns /\ pc'[c] # "idle"
    BY <1>3, <1>1, <1>5
  <2> QED
    BY <1>4, <1>5, <1>6, <2>1, <2>2, Linked DEF SameLogs
<1>8. /\ ~Live /\ Answered = "none" /\ Told = Ledger!NoReport
  BY <1>5, NobodySeen
<1>9. /\ Live' /\ Order' = OrderOf(plans[q]) /\ Bound' = plans[p].generation
      /\ Answered' = "none" /\ Told' = Ledger!NoReport
  BY <1>4, <1>5, SendingSeenNext
<1>10. Live' = TRUE
  <2>1. Live' \in BOOLEAN
    BY DEF Live
  <2> QED
    BY <1>9, <2>1
<1>11. /\ Deltas(plans[q]) \in SUBSET Slots
       /\ OrderOf(plans[q]) \in [Deltas(plans[q]) -> Contents]
  BY <1>1 DEF Deltas, OrderOf, PlanSet, Memories
<1>12. plans[p].generation \in Nat
  BY <1>1 DEF PlanSet
<1>13. Declared' = Declared /\ Settled' = Settled /\ Changed' = Changed
  BY <1>6, LogsSeen DEF SameLogs
<1>14. runs \in 0 .. MaxRuns - 1
  BY <1>3, <1>1
<1>15. Ledger!Begin
  BY <1>3, <1>5, <1>8, <1>9, <1>10, <1>11, <1>12, <1>13, <1>14
     DEF Ledger!Begin, Ledger!radioVars, Ledger!diskVars, Ledger!tellVars
<1> QED
  BY <1>7, <1>15 DEF Simulated, Ledger!Next

LEMMA StartRefines ==
  ASSUME LedgerInv, IInv', NEW c \in Clients, Start(c)
  PROVE  LedgerInv' /\ Simulated
<1>1. CASE BeginReadAll(c)
  <2> DEFINE start == [NoJob EXCEPT !.op = "ReadAll", !.left = Slots]
  <2>1. start.op = "ReadAll"
    BY DEF NoJob
  <2>2. Begin(c, "read", start) /\ runs' = runs
    BY <1>1 DEF BeginReadAll
  <2> HIDE DEF start
  <2> QED
    BY <2>1, <2>2, BeginReadingRefines
<1>2. CASE BeginReadSettings(c)
  <2> DEFINE start == [NoJob EXCEPT !.op = "ReadSettings", !.left = Items]
  <2>1. start.op = "ReadSettings"
    BY DEF NoJob
  <2>2. Begin(c, "items", start) /\ runs' = runs
    BY <1>2 DEF BeginReadSettings
  <2> HIDE DEF start
  <2> QED
    BY <2>1, <2>2, BeginReadingRefines
<1>3. ASSUME NEW f \in DOMAIN Files, BeginPrepare(c, f)
      PROVE  LedgerInv' /\ Simulated
  <2> DEFINE start == [NoJob EXCEPT !.op = "PrepareSend", !.file = f, !.left = Slots]
  <2>1. start.op = "PrepareSend"
    BY DEF NoJob
  <2>2. Begin(c, "read", start) /\ runs' = runs
    BY <1>3 DEF BeginPrepare
  <2> HIDE DEF start
  <2> QED
    BY <2>1, <2>2, BeginReadingRefines
<1> QED
  BY <1>1, <1>2, <1>3, BeginExecuteRefines DEF Start

-----------------------------------------------------------------------------
(* The environment.                                                        *)

(* Where no client, plan or journal moves the ledger sees the radio only.  *)
LEMMA StandStill ==
  ASSUME LedgerInv, IInv', UNCHANGED <<pc, job, plans, disk, runs, touched>>
  PROVE  LedgerInv' /\ SameLogs /\ UNCHANGED <<Live, Order, Bound, Answered, Told>>
<1>1. IInv /\ runs =< MaxRuns /\ \A c \in Clients : RecordInv(c)
  BY DEF LedgerInv
<1>2. SameLogs
  BY LogsStand
<1>3. LedgerInv'
  <2>1. \A c \in Clients : RecordInv(c)'
    BY <1>1, <1>2 DEF RecordInv, SameLogs
  <2> QED
    BY <1>1, <2>1 DEF LedgerInv
<1>4. UNCHANGED <<Live, Order, Bound, Answered, Told>>
  <2>1. ASSUME NEW c \in Clients, pc[c] # "idle", Executing(c)
        PROVE  UNCHANGED <<Live, Order, Bound, Answered, Told>>
    <3>1. SameOp(job'[c], job[c])
      BY DEF SameOp
    <3> QED
      BY <1>1, <2>1, <3>1, SilentStep
  <2>2. CASE \A c \in Clients : pc[c] # "idle" => ~Executing(c)
    <3>1. \A c \in Clients : pc'[c] # "idle" => job'[c].op # "Execute"
      BY <2>2 DEF Executing
    <3>2. /\ ~Live /\ Order = Ledger!NoOrder /\ Bound = 0 /\ Answered = "none"
          /\ Told = Ledger!NoReport
      BY <2>2, NobodySeen
    <3>3. /\ ~Live' /\ Order' = Ledger!NoOrder /\ Bound' = 0 /\ Answered' = "none"
          /\ Told' = Ledger!NoReport
      BY <3>1, NobodySeenNext
    <3>4. Live \in BOOLEAN /\ Live' \in BOOLEAN
      BY DEF Live
    <3> QED
      BY <3>2, <3>3, <3>4
  <2> QED
    BY <2>1, <2>2
<1> QED
  BY <1>2, <1>3, <1>4

LEMMA CancelRefines ==
  ASSUME LedgerInv, IInv', NEW c \in Clients, Cancel(c)
  PROVE  LedgerInv' /\ Simulated
<1>1. UNCHANGED <<mem, generation, pc, job, plans, disk, runs, touched>>
  BY DEF Cancel, radioVars, serviceVars, countVars, histVars
<1> QED
  BY <1>1, StandStill, Unseen DEF Simulated

LEMMA OperatorSetsRefines ==
  ASSUME LedgerInv, IInv', NEW i \in Items, NEW v \in Values, OperatorSets(i, v)
  PROVE  LedgerInv' /\ Simulated
<1>1. UNCHANGED <<mem, generation, pc, job, plans, disk, runs, touched>>
  BY DEF OperatorSets, serviceVars, clientVars, histVars
<1> QED
  BY <1>1, StandStill, Unseen DEF Simulated

LEMMA StutterRefines ==
  ASSUME LedgerInv, IInv', UNCHANGED vars
  PROVE  LedgerInv' /\ Simulated
<1>1. UNCHANGED <<mem, generation, pc, job, plans, disk, runs, touched>>
  BY DEF vars, radioVars, serviceVars, clientVars, countVars, histVars
<1> QED
  BY <1>1, StandStill, Unseen DEF Simulated

LEMMA OperatorEditsRefines ==
  ASSUME LedgerInv, IInv', NEW s \in Slots, NEW v \in Contents, OperatorEdits(s, v)
  PROVE  LedgerInv' /\ Simulated
<1>1. /\ UNCHANGED <<generation, pc, job, plans, disk, runs, touched>>
      /\ mem' = [mem EXCEPT ![s] = v]
  BY DEF OperatorEdits, serviceVars, clientVars
<1>2. LedgerInv' /\ SameLogs /\ UNCHANGED <<Live, Order, Bound, Answered, Told>>
  BY <1>1, StandStill
<1>3. Declared' = Declared /\ Settled' = Settled /\ Changed' = Changed
  BY <1>2, LogsSeen DEF SameLogs
<1>4. Ledger!Edit(s)
  BY <1>1, <1>2, <1>3 DEF Ledger!Edit, Ledger!runVars, Ledger!diskVars, Ledger!tellVars
<1> QED
  BY <1>2, <1>4 DEF Simulated, Ledger!Next

LEMMA ReconnectRefines ==
  ASSUME LedgerInv, IInv', Reconnect
  PROVE  LedgerInv' /\ Simulated
<1>1. /\ ~opBusy /\ generation' = generation + 1
      /\ UNCHANGED <<pc, job, plans, disk, runs, touched>>
  BY DEF Reconnect, clientVars, countVars, histVars
<1>2. LedgerInv' /\ SameLogs /\ UNCHANGED <<Live, Order, Bound, Answered, Told>>
  BY <1>1, StandStill
<1>3. Declared' = Declared /\ Settled' = Settled /\ Changed' = Changed
  BY <1>2, LogsSeen DEF SameLogs
<1>4. mem' \in [Slots -> Contents]
  BY DEF IInv, TypeOK, Memories
<1>5. ~Live
  <2>1. \A c \in Clients : pc[c] # "idle" => ~Executing(c)
    BY <1>1 DEF LedgerInv, IInv, LockInv, Busy
  <2> QED
    BY <2>1, NobodySeen
<1>6. Ledger!Reopen
  BY <1>1, <1>2, <1>3, <1>4, <1>5
     DEF Ledger!Reopen, Ledger!runVars, Ledger!diskVars, Ledger!tellVars
<1> QED
  BY <1>2, <1>6 DEF Simulated, Ledger!Next

(* A send that is cut short leaves what is on disk, and no answer.         *)
LEMMA CrashRefines ==
  ASSUME LedgerInv, IInv', Crash
  PROVE  LedgerInv' /\ Simulated
<1>1. /\ generation' = generation + 1 /\ \A c \in Clients : pc'[c] = "idle"
      /\ UNCHANGED <<mem, disk, runs, touched>>
  BY DEF Crash, countVars
<1>2. LedgerInv'
  BY <1>1, LinkedNobody DEF Running, LedgerInv
<1>3. SameLogs
  BY <1>1, LogsStand
<1>4. Declared' = Declared /\ Settled' = Settled /\ Changed' = Changed
  BY <1>3, LogsSeen DEF SameLogs
<1>5. /\ ~Live' /\ Order' = Ledger!NoOrder /\ Bound' = 0 /\ Answered' = "none"
      /\ Told' = Ledger!NoReport
  BY <1>1, NobodySeenNext
<1>6. Live' = FALSE
  <2>1. Live' \in BOOLEAN
    BY DEF Live
  <2> QED
    BY <1>5, <2>1
<1>7. ASSUME NEW c \in Clients, pc[c] # "idle", Executing(c)
      PROVE  Ledger!Die
  <2>1. Live
    BY <1>7, SendingSeen DEF LedgerInv
  <2> QED
    BY <1>1, <1>4, <1>5, <1>6, <2>1
       DEF Ledger!Die, Ledger!Closes, Ledger!radioVars, Ledger!diskVars
<1>8. CASE \A c \in Clients : pc[c] # "idle" => ~Executing(c)
  <2>1. /\ ~Live /\ Order = Ledger!NoOrder /\ Bound = 0 /\ Answered = "none"
        /\ Told = Ledger!NoReport
    BY <1>8, NobodySeen
  <2>2. Live' = Live
    <3>1. Live \in BOOLEAN
      BY DEF Live
    <3> QED
      BY <1>6, <2>1, <3>1
  <2>3. mem' \in [Slots -> Contents]
    BY DEF IInv, TypeOK, Memories
  <2>4. Ledger!Reopen
    BY <1>1, <1>4, <1>5, <2>1, <2>2, <2>3
       DEF Ledger!Reopen, Ledger!runVars, Ledger!diskVars, Ledger!tellVars
  <2> QED
    BY <1>2, <2>4 DEF Simulated, Ledger!Next
<1> QED
  BY <1>2, <1>7, <1>8 DEF Simulated, Ledger!Next

-----------------------------------------------------------------------------
(* Every step, and the refinement.                                         *)

LEMMA StepRefines ==
  ASSUME LedgerInv, IInv', NEW c \in Clients, Step(c)
  PROVE  LedgerInv' /\ Simulated
<1>1. CASE \/ ReadSlot(c) \/ ReadFails(c) \/ ReadReturns(c)
           \/ SaveSnapshot(c) \/ SnapshotFails(c) \/ ReadItem(c) \/ HandOverPlan(c)
  BY <1>1, ReadSlotRefines, ReadFailsRefines, SaveSnapshotRefines, HandOverPlanRefines
<1>2. CASE \/ AcceptPlan(c) \/ RefusePlan(c) \/ SnapshotVFO(c) \/ SnapshotSelection(c)
           \/ Stopped(c) \/ VerifyRead(c) \/ VerifyReadAborts(c)
  BY <1>2, AcceptPlanRefines, RefusePlanRefines, SnapshotVFORefines,
     SnapshotSelectionRefines, StoppedRefines, VerifyReadRefines, VerifyReadAbortsRefines
<1>3. CASE \/ JournalAttempt(c) \/ WriteChannel(c) \/ JournalResult(c) \/ Diagnose(c)
           \/ ReadBack(c) \/ JournalVerdict(c)
  BY <1>3, JournalAttemptRefines, WriteChannelRefines, JournalResultRefines,
     DiagnoseRefines, ReadBackRefines, JournalVerdictRefines
<1>4. CASE \/ SettingAttempt(c) \/ WriteSetting(c) \/ SettingResult(c)
           \/ Complete(c) \/ Restore(c) \/ Return(c)
  BY <1>4, SettingAttemptRefines, WriteSettingRefines, SettingResultRefines,
     CompleteRefines, RestoreRefines, ReturnRefines
<1> QED
  BY <1>1, <1>2, <1>3, <1>4 DEF Step

LEMMA NextRefines == LedgerInv /\ [Next]_vars => LedgerInv' /\ [Ledger!Next]_(Ledger!vars)
<1> SUFFICES ASSUME LedgerInv, [Next]_vars
             PROVE  LedgerInv' /\ Simulated
  BY DEF Simulated
<1>1. IInv'
  BY NextKeeps DEF LedgerInv
<1>2. ASSUME NEW c \in Clients, Start(c) \/ Step(c) \/ Cancel(c)
      PROVE  LedgerInv' /\ Simulated
  BY <1>1, <1>2, StartRefines, StepRefines, CancelRefines
<1>3. ASSUME NEW s \in Slots, NEW v \in Contents \ {Mangled}, OperatorEdits(s, v)
      PROVE  LedgerInv' /\ Simulated
  BY <1>1, <1>3, OperatorEditsRefines
<1>4. ASSUME NEW i \in Items, NEW v \in Values, OperatorSets(i, v)
      PROVE  LedgerInv' /\ Simulated
  BY <1>1, <1>4, OperatorSetsRefines
<1>5. CASE Reconnect
  BY <1>1, <1>5, ReconnectRefines
<1>6. CASE Crash
  BY <1>1, <1>6, CrashRefines
<1>7. CASE UNCHANGED vars
  BY <1>1, <1>7, StutterRefines
<1> QED
  BY <1>2, <1>3, <1>4, <1>5, <1>6, <1>7 DEF Next

LEMMA InitRefines == Init => LedgerInv /\ Ledger!Init
<1> SUFFICES ASSUME Init
             PROVE  LedgerInv /\ Ledger!Init
  OBVIOUS
<1>1. /\ disk = <<>> /\ runs = 0 /\ touched = {} /\ generation = 1
      /\ \A c \in Clients : pc[c] = "idle"
      /\ mem \in [Slots -> Contents]
  BY DEF Init
<1>2. LedgerInv
  <2>1. runs =< MaxRuns
    BY <1>1, CloneAssumption
  <2>2. \A c \in Clients : RecordInv(c)
    BY <1>1 DEF RecordInv, Running
  <2> QED
    BY <2>1, <2>2, InitEstablishes DEF LedgerInv
<1>3. /\ ~Live /\ Order = Ledger!NoOrder /\ Bound = 0 /\ Answered = "none"
      /\ Told = Ledger!NoReport
  BY <1>1, NobodySeen
<1>4. Live = FALSE
  <2>1. Live \in BOOLEAN
    BY DEF Live
  <2> QED
    BY <1>3, <2>1
<1>5. \A r \in Nat : AttemptLog[r] = {} /\ ConfirmLog[r] = {} /\ ChangeLog[r] = {}
  <2>1. \A r \in Nat : AttemptLog[r] = {} /\ ConfirmLog[r] = {}
    BY <1>1 DEF AttemptLog, ConfirmLog, Attempted, Confirmed, Lines
  <2>2. \A r \in Nat : ChangeLog[r] = {}
    BY <1>1 DEF ChangeLog, Touched
  <2> QED
    BY <2>1, <2>2
<1>6. /\ Declared = [r \in Ledger!Runs |-> {}] /\ Settled = [r \in Ledger!Runs |-> {}]
      /\ Changed = [r \in Ledger!Runs |-> {}]
  <2>1. \A r \in 1 .. MaxRuns : r \in Nat
    BY CloneAssumption
  <2> QED
    BY <1>5, <2>1, LogsSeen DEF Ledger!Runs
<1>7. Ledger!Init
  BY <1>1, <1>3, <1>4, <1>6 DEF Ledger!Init
<1> QED
  BY <1>2, <1>7

(* While a run of Execute is under way its report names as verified just   *)
(* the slots its journal confirms, and nothing has been answered yet.      *)
THEOREM LedgerInvHolds == Spec => []LedgerInv
<1>1. Init => LedgerInv
  BY InitRefines
<1>2. LedgerInv /\ [Next]_vars => LedgerInv'
  BY NextRefines
<1> QED
  BY <1>1, <1>2, PTL DEF Spec

(* The Service keeps SendLedger's promises in every behaviour, crashes and *)
(* failures included: Init maps to the ledger's, and every step of a       *)
(* client or of the environment to one of its steps or to a stutter.       *)
THEOREM LedgerRefinement == Spec => ImplementsLedger
<1>1. Init => Ledger!Init
  BY InitRefines
<1>2. LedgerInv /\ [Next]_vars => [Ledger!Next]_(Ledger!vars)
  BY NextRefines
<1> QED
  BY <1>1, <1>2, LedgerInvHolds, PTL DEF Spec, ImplementsLedger, Ledger!Spec

=============================================================================
