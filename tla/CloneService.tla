---------------------------- MODULE CloneService ----------------------------
(***************************************************************************)
(* core/clone: the choreography that sends a codeplug file to a radio.     *)
(*                                                                         *)
(* A Service is bound to one session with one radio.  Its operations       *)
(* ReadAll, ReadSettings, PrepareSend and Execute share a try-lock.        *)
(* PrepareSend reads the radio afresh, saves that read as a snapshot and   *)
(* returns a plan; Execute writes the plan's differences slot by slot,     *)
(* each between a read that looks for drift and a read that verifies it,   *)
(* with journal lines before and after.                                    *)
(*                                                                         *)
(* The environment may edit the radio at its front panel at any moment,    *)
(* fail any read, write or file operation, cancel any operation, connect   *)
(* anew, and kill the program between any two steps.                       *)
(***************************************************************************)
EXTENDS Naturals, Sequences, FiniteSetsExt

CONSTANTS
  Clients,      (* goroutines that call the Service                        *)
  Slots,        (* memory slots, numbered in the order they are visited    *)
  Contents,     (* what a slot may hold; Empty and Mangled are among them  *)
  Empty,        (* the content of an unused slot                           *)
  Mangled,      (* what half a write leaves behind                         *)
  Gated,        (* contents the capability gate does not let through       *)
  Items,        (* settings the session admits for writing                 *)
  Values,       (* the values of a setting                                 *)
  NoWish,       (* stands for a setting the candidate file does not name   *)
  Files,        (* candidate files, a sequence of [channels, menus]        *)
  Seams,        (* the optional interfaces the session implements: "vfo"   *)
                (* for VFOStateRestorer, "sel" for MemorySelector          *)
  MaxPlans,     (* bound: snapshots saved by PrepareSend                   *)
  MaxRuns,      (* bound: calls of Execute                                 *)
  MaxReads,     (* bound: calls of ReadAll and ReadSettings                *)
  MaxEdits,     (* bound: edits at the front panel                         *)
  MaxSessions   (* bound: sessions opened, by reconnecting or restarting   *)

ASSUME CloneAssumption ==
  /\ Clients # {}
  /\ IsFiniteSet(Slots) /\ IsFiniteSet(Items)
  /\ Slots \subseteq Nat \ {0} /\ Items \subseteq Nat \ {0}
  /\ {Empty, Mangled} \subseteq Contents /\ Gated \subseteq Contents
  /\ NoWish \notin Values
  /\ Files \in Seq([channels : [Slots -> Contents],
                    menus : [Items -> Values \cup {NoWish}]])
  /\ Seams \subseteq {"vfo", "sel"}
  /\ {MaxPlans, MaxRuns, MaxReads, MaxEdits, MaxSessions} \subseteq Nat

VARIABLES
  mem,        (* the radio: what each slot holds                           *)
  menu,       (* the radio: the value of each setting                      *)
  displaced,  (* what of the operator's VFO and selection a write moved    *)
  generation, (* Service.generation of the Service bound to the session    *)
  opBusy,     (* Service.opBusy                                            *)
  pc,         (* where each client is; "idle" outside the Service          *)
  job,        (* the local variables of each client's operation            *)
  cancelled,  (* whether its context is cancelled                          *)
  plans,      (* the plans in memory                                       *)
  disk,       (* the snapshots saved, each with the journal beside it      *)
  reads, edits, runs,  (* how many there have been, for the bounds         *)
  strayed,    (* history: slots edited since Execute last read them        *)
  touched     (* history: <<run, slot>> pairs that a run's write changed   *)

radioVars   == <<mem, menu, displaced>>
serviceVars == <<generation, opBusy, plans>>
clientVars  == <<pc, job, cancelled>>
countVars   == <<reads, edits, runs>>
histVars    == <<strayed, touched>>
vars == <<radioVars, serviceVars, clientVars, disk, countVars, histVars>>

(* Report: the slots counted as Written and as Verified, those listed as   *)
(* written with VerifyOK false, and Aborted.                               *)
NoReport == [written |-> {}, verified |-> {}, failed |-> {}, aborted |-> FALSE]

(* left are the slots or settings still to be visited, at is the one being *)
(* visited; held are the snapshots of the operator's state, and unheld the *)
(* parts of it whose snapshot or restoration failed.  fault (history) says *)
(* that a device or a file failed, or a verification.                      *)
NoJob == [op |-> "none", file |-> 0, journal |-> 0, plan |-> 0, confirmed |-> 0,
          run |-> 0, seen |-> [s \in Slots |-> Empty], partial |-> FALSE,
          settings |-> [i \in Items |-> NoWish], left |-> {}, at |-> 0, held |-> {},
          unheld |-> {}, result |-> "none", report |-> NoReport, answer |-> "none",
          fault |-> FALSE]

Init ==
  /\ mem \in [Slots -> Contents \ {Mangled}] /\ menu \in [Items -> Values]
  /\ displaced = {}
  /\ generation = 1 /\ opBusy = FALSE /\ plans = <<>>
  /\ pc = [c \in Clients |-> "idle"] /\ job = [c \in Clients |-> NoJob]
  /\ cancelled = [c \in Clients |-> FALSE]
  /\ disk = <<>>
  /\ reads = 0 /\ edits = 0 /\ runs = 0
  /\ strayed = {} /\ touched = {}

-----------------------------------------------------------------------------
(* Plans.                                                                  *)

(* codeplug.Diff: the entries that are Added or Modified and not Blocked.  *)
(* An erased slot is always blocked.                                       *)
Deltas(p) ==
  {s \in Slots : /\ p.candidate[s] # p.baseline[s]
                 /\ p.candidate[s] \notin Gated \cup {Empty}}

SettingDeltas(p) == {i \in Items : p.settings[i] # NoWish}

(* What Execute compares with the digest its caller confirmed.             *)
ConfirmationDigest(p) == <<p.baseline, p.candidate, p.generation>>

(* Mutants: the digest the baseline alone; a Service like any other.       *)
ConfirmsBaseline(p, digest) == p.baseline = digest[1]
AnySession(p) == TRUE

Confirms(p, digest) == ConfirmationDigest(p) = digest
SameSession(p)      == p.generation = generation

-----------------------------------------------------------------------------
(* Parts of steps.                                                         *)

Goto(c, label) == pc' = [pc EXCEPT ![c] = label]
Set(c, locals) == job' = [job EXCEPT ![c] = locals]

Plan(c)    == plans[job[c].plan]
Shown(c)   == plans[job[c].confirmed]
Wanted(c)  == Plan(c).candidate[job[c].at]
Setting(c) == Plan(c).settings[job[c].at]

(* Mutant: a slot counted as verified once its write is reported.          *)
VerifiedUnread(c) == [job[c].report EXCEPT !.written = @ \cup {job[c].at},
                                           !.verified = @ \cup {job[c].at}]

(* The report with the slot being visited counted, or listed as failed.    *)
Written(c)   == [job[c].report EXCEPT !.written = @ \cup {job[c].at}]
Verified(c)  == [job[c].report EXCEPT !.verified = @ \cup {job[c].at}]

(* Mutant: no SlotResult on the failure paths.                             *)
BlamesNobody(r, c) == r
Blamed(r, c) == [r EXCEPT !.failed = @ \cup {job[c].at}]

Line(c, event, s, ok) == [run |-> job[c].run, event |-> event, slot |-> s, ok |-> ok]
Log(c, lines) == disk' = [disk EXCEPT ![job[c].journal].lines = @ \o lines]

(* A write or an fsync that fails may leave the line in the file all the   *)
(* same.                                                                   *)
LogFails(c, line) == \E lines \in {<<>>, <<line>>} : Log(c, lines)

(* Mutant: the restores stand behind the loop instead of being deferred.   *)
UnwindWhenDone(c) ==
  IF job[c].held = {} \/ pc[c] # "settings" THEN "return" ELSE "restore"

(* Where Execute goes when it ends: to its deferred functions.             *)
Unwind(c) == IF job[c].held = {} THEN "return" ELSE "restore"

(* Service.abort after the lines "before"; its own line is best effort.    *)
AbortAfter(c, before, report, fault) ==
  /\ \E last \in {<<>>, <<Line(c, "abort", job[c].at, FALSE)>>} : Log(c, before \o last)
  /\ Goto(c, Unwind(c))
  /\ Set(c, [job[c] EXCEPT !.report = [report EXCEPT !.aborted = TRUE],
                          !.answer = "aborted", !.fault = fault])

Abort(c) == AbortAfter(c, <<>>, job[c].report, job[c].fault)

(* The same because the line could not be persisted.                       *)
AbortUnlogged(c, line, report) ==
  \E lost \in {<<>>, <<line>>} : AbortAfter(c, lost, report, TRUE)

-----------------------------------------------------------------------------
(* Entering and leaving an operation.                                      *)

(* acquireOp.  A client that finds the Service busy is refused at once     *)
(* with a *BusyError: no step of this model.                               *)
Acquire == ~opBusy /\ opBusy' = TRUE
(* Mutant: an abort that misses releaseOp.                                 *)
ReleaseUnlessAborted(c) == opBusy' = (job[c].answer = "aborted")
Release(c) == opBusy' = FALSE

Begin(c, label, start) ==
  /\ pc[c] = "idle"
  /\ Acquire /\ Goto(c, label)
  /\ job' = [job EXCEPT ![c] = start]
  /\ UNCHANGED <<radioVars, generation, plans, cancelled, disk, edits, histVars>>

BeginReadAll(c) ==
  /\ reads < MaxReads /\ reads' = reads + 1
  /\ Begin(c, "read", [NoJob EXCEPT !.op = "ReadAll", !.left = Slots])
  /\ UNCHANGED runs

BeginReadSettings(c) ==
  /\ reads < MaxReads /\ reads' = reads + 1
  /\ Begin(c, "items", [NoJob EXCEPT !.op = "ReadSettings", !.left = Items])
  /\ UNCHANGED runs

(* f is the candidate as it is now: the plan's copies are private.         *)
BeginPrepare(c, f) ==
  /\ Len(disk) < MaxPlans
  /\ Begin(c, "read", [NoJob EXCEPT !.op = "PrepareSend", !.file = f, !.left = Slots])
  /\ UNCHANGED <<reads, runs>>

(* The caller confirms the plan q it was shown and executes p.             *)
BeginExecute(c, p, q) ==
  /\ runs < MaxRuns /\ runs' = runs + 1
  /\ Begin(c, "check", [NoJob EXCEPT !.op = "Execute", !.plan = p, !.confirmed = q,
                                     !.journal = plans[p].journal, !.run = runs + 1])
  /\ UNCHANGED reads

Cancel(c) ==
  /\ pc[c] # "idle" /\ ~cancelled[c]
  /\ cancelled' = [cancelled EXCEPT ![c] = TRUE]
  /\ UNCHANGED <<radioVars, serviceVars, pc, job, disk, countVars, histVars>>

(* The operation returns with an error and has done nothing to the radio.  *)
Refuse(c) ==
  /\ Goto(c, "return")
  /\ Set(c, [job[c] EXCEPT !.answer = "refused"])
  /\ UNCHANGED <<radioVars, serviceVars, cancelled, countVars, histVars>>

(* From here on the radio's VFO and selection are the operator's, as they  *)
(* are.                                                                    *)
Return(c) ==
  /\ pc[c] = "return"
  /\ Release(c) /\ Goto(c, "idle")
  /\ job' = [job EXCEPT ![c] = NoJob]
  /\ cancelled' = [cancelled EXCEPT ![c] = FALSE]
  /\ displaced' = {} /\ strayed' = {}
  /\ UNCHANGED <<mem, menu, generation, plans, disk, countVars, touched>>

-----------------------------------------------------------------------------
(* ReadAll, ReadSettings and PrepareSend.                                  *)

(* One slot of readAll.  A corrupt or undecodable answer makes the read    *)
(* partial; any other failure, or a dead context, ends the operation.      *)
ReadSlot(c) ==
  /\ pc[c] = "read" /\ job[c].left # {} /\ ~cancelled[c]
  /\ LET s == Min(job[c].left) IN
       \/ Set(c, [job[c] EXCEPT !.left = @ \ {s}, !.seen = [@ EXCEPT ![s] = mem[s]]])
       \/ Set(c, [job[c] EXCEPT !.left = @ \ {s}, !.partial = TRUE])
  /\ UNCHANGED <<radioVars, serviceVars, pc, cancelled, disk, countVars, histVars>>

ReadFails(c) ==
  /\ pc[c] \in {"read", "items"} /\ job[c].left # {}
  /\ Refuse(c) /\ UNCHANGED disk

(* ReadAll and ReadSettings return what they read.                         *)
ReadReturns(c) ==
  /\ pc[c] \in {"read", "items"} /\ job[c].left = {}
  /\ job[c].op \in {"ReadAll", "ReadSettings"}
  /\ Goto(c, "return") /\ Set(c, [job[c] EXCEPT !.answer = "done"])
  /\ UNCHANGED <<radioVars, serviceVars, cancelled, disk, countVars, histVars>>

Wishes(f) == {i \in Items : Files[f].menus[i] # NoWish}

(* Mutant: a journal path that is no sibling of the snapshot's.            *)
WrongJournal == Len(disk) + 2

(* journalPathFor: the journal lives beside the snapshot about to be saved.*)
NextJournal == Len(disk) + 1

(* SaveSnapshot, durable before anything is decided; then the refusal of a *)
(* partial read and those of Validate and Diff.                            *)
SaveSnapshot(c) ==
  /\ pc[c] = "read" /\ job[c].left = {} /\ job[c].op = "PrepareSend"
  /\ disk' = Append(disk, [snap |-> job[c].seen, lines |-> <<>>])
  /\ \/ /\ ~job[c].partial
        /\ Goto(c, "items")
        /\ Set(c, [job[c] EXCEPT !.journal = NextJournal, !.left = Wishes(job[c].file)])
        /\ UNCHANGED <<radioVars, serviceVars, cancelled, countVars, histVars>>
     \/ Refuse(c)

SnapshotFails(c) ==
  /\ pc[c] = "read" /\ job[c].left = {} /\ job[c].op = "PrepareSend"
  /\ Refuse(c) /\ UNCHANGED disk

(* One setting of settingsDeltas, or of ReadSettings.  An unavailable one  *)
(* makes no delta.                                                         *)
ReadItem(c) ==
  /\ pc[c] = "items" /\ job[c].left # {} /\ ~cancelled[c]
  /\ LET i == Min(job[c].left)
         rest == job[c].left \ {i}
     IN \/ Set(c, [job[c] EXCEPT !.left = rest])
        \/ /\ job[c].op = "PrepareSend" /\ menu[i] # Files[job[c].file].menus[i]
           /\ Set(c, [job[c] EXCEPT !.left = rest,
                        !.settings = [@ EXCEPT ![i] = Files[job[c].file].menus[i]]])
  /\ UNCHANGED <<radioVars, serviceVars, pc, cancelled, disk, countVars, histVars>>

(* No plan without its "prepare" line.                                     *)
HandOverPlan(c) ==
  /\ pc[c] = "items" /\ job[c].left = {} /\ job[c].op = "PrepareSend"
  /\ LET line == Line(c, "prepare", 0, TRUE) IN
       \/ /\ Log(c, <<line>>)
          /\ plans' = Append(plans,
               [baseline |-> job[c].seen, candidate |-> Files[job[c].file].channels,
                settings |-> job[c].settings, generation |-> generation,
                journal |-> job[c].journal])
          /\ Goto(c, "return") /\ Set(c, [job[c] EXCEPT !.answer = "done"])
          /\ UNCHANGED <<radioVars, generation, opBusy, cancelled, countVars, histVars>>
       \/ LogFails(c, line) /\ Refuse(c)

-----------------------------------------------------------------------------
(* Execute, up to its first write.                                         *)

(* The refusals: a dead context, a candidate that no longer validates, a   *)
(* plan of another session, the wrong confirmation.  The digest rechecks   *)
(* cannot fail, the plan's copies being private.                           *)
AcceptPlan(c) ==
  /\ pc[c] = "check" /\ ~cancelled[c]
  /\ SameSession(Plan(c)) /\ Confirms(Plan(c), ConfirmationDigest(Shown(c)))
  /\ IF Deltas(Plan(c)) = {}
       THEN /\ Goto(c, "settings")
            /\ Set(c, [job[c] EXCEPT !.left = SettingDeltas(Plan(c))])
       ELSE Goto(c, "vfo") /\ Set(c, [job[c] EXCEPT !.left = Deltas(Plan(c))])
  /\ UNCHANGED <<radioVars, serviceVars, cancelled, disk, countVars, histVars>>

RefusePlan(c) ==
  /\ pc[c] = "check"
  /\ Refuse(c) /\ UNCHANGED disk

(* snapshotVFOState must succeed where it is implemented;                  *)
SnapshotVFO(c) ==
  /\ pc[c] = "vfo"
  /\ \/ /\ Goto(c, "sel") /\ Set(c, [job[c] EXCEPT !.held = {"vfo"} \cap Seams])
        /\ UNCHANGED disk
     \/ "vfo" \in Seams /\ Abort(c)
  /\ UNCHANGED <<radioVars, serviceVars, cancelled, countVars, histVars>>

(* snapshotMemorySelection need not.                                       *)
SnapshotSelection(c) ==
  /\ pc[c] = "sel"
  /\ Goto(c, "slot")
  /\ \/ Set(c, [job[c] EXCEPT !.held = @ \cup ({"sel"} \cap Seams)])
     \/ Set(c, [job[c] EXCEPT !.unheld = {"sel"} \cap Seams])
  /\ UNCHANGED <<radioVars, serviceVars, cancelled, disk, countVars, histVars>>

-----------------------------------------------------------------------------
(* Execute, the delta-write loop.                                          *)

Stopped(c) ==
  /\ pc[c] \in {"slot", "settings"} /\ job[c].left # {}
  /\ cancelled[c] /\ Abort(c)
  /\ UNCHANGED <<radioVars, serviceVars, cancelled, countVars, histVars>>

(* Mutant: the fresh read is not compared with the baseline.               *)
DriftIgnored(c, s) == FALSE

(* baselineChannelEqual on the fresh read of a slot.                       *)
Drifted(c, s) == mem[s] # Plan(c).baseline[s]

VerifyRead(c) ==
  /\ pc[c] = "slot" /\ ~cancelled[c]
  /\ LET s == Min(job[c].left) IN
       /\ ~Drifted(c, s)
       /\ Goto(c, "attempt") /\ Set(c, [job[c] EXCEPT !.at = s])
       /\ strayed' = strayed \ {s}
  /\ UNCHANGED <<radioVars, serviceVars, cancelled, disk, countVars, touched>>

(* Drift, or a read that fails.                                            *)
VerifyReadAborts(c) ==
  /\ pc[c] = "slot" /\ ~cancelled[c]
  /\ Abort(c)
  /\ UNCHANGED <<radioVars, serviceVars, cancelled, countVars, histVars>>

(* Mutant: write_attempt appended like the best-effort lines.              *)
AttemptUnchecked(c) ==
  /\ pc[c] = "attempt"
  /\ LET line == Line(c, "write_attempt", job[c].at, TRUE) IN
       Log(c, <<line>>) \/ LogFails(c, line)
  /\ Goto(c, "write")
  /\ UNCHANGED <<radioVars, serviceVars, job, cancelled, countVars, histVars>>

(* write_attempt: no write without it.                                     *)
JournalAttempt(c) ==
  /\ pc[c] = "attempt"
  /\ LET line == Line(c, "write_attempt", job[c].at, TRUE) IN
       \/ Log(c, <<line>>) /\ Goto(c, "write") /\ UNCHANGED job
       \/ AbortUnlogged(c, line, job[c].report)
  /\ UNCHANGED <<radioVars, serviceVars, cancelled, countVars, histVars>>

(* Session.WriteChannel: several frames, none of them acknowledged by some *)
(* radios.  The slot takes the content, or half of it, or nothing, whether *)
(* an error is reported or not; the radio's selection moves.               *)
WriteChannel(c) ==
  /\ pc[c] = "write"
  /\ Goto(c, "result")
  /\ LET s == job[c].at IN
       \E landed \in {mem[s], Wanted(c), Mangled}, ok \in BOOLEAN :
         /\ mem' = [mem EXCEPT ![s] = landed]
         /\ displaced' = displaced \cup Seams
         /\ touched' = IF landed = mem[s] THEN touched
                       ELSE touched \cup {<<job[c].run, s>>}
         /\ Set(c, [job[c] EXCEPT !.result = IF ok THEN "sent" ELSE "error",
                                 !.fault = @ \/ ~ok \/ landed # Wanted(c)])
  /\ UNCHANGED <<menu, serviceVars, cancelled, disk, countVars, strayed>>

(* write_result, and what the report says of the slot.  A failure of the   *)
(* write or of the line leads through postFailureReadback to an abort.     *)
JournalResult(c) ==
  /\ pc[c] = "result"
  /\ LET line == Line(c, "write_result", job[c].at, job[c].result = "sent")
         counted == IF job[c].result = "sent" THEN Written(c) ELSE job[c].report
         blamed == [job[c] EXCEPT !.report = Blamed(counted, c)]
     IN \/ /\ Log(c, <<line>>)
           /\ IF job[c].result = "sent"
                THEN Goto(c, "verify") /\ Set(c, [job[c] EXCEPT !.report = counted])
                ELSE Goto(c, "diagnose") /\ Set(c, blamed)
        \/ /\ LogFails(c, line)
           /\ Goto(c, "diagnose")
           /\ Set(c, [blamed EXCEPT !.fault = TRUE])
  /\ UNCHANGED <<radioVars, serviceVars, cancelled, countVars, histVars>>

(* postFailureReadback: its outcome only reaches the journal, at best.     *)
Diagnose(c) ==
  /\ pc[c] = "diagnose"
  /\ \E note \in {<<>>, <<Line(c, "post_failure_readback", job[c].at, TRUE)>>} :
       AbortAfter(c, note, job[c].report, job[c].fault)
  /\ UNCHANGED <<radioVars, serviceVars, cancelled, countVars, histVars>>

(* Mutant: the read-back runs under the caller's context.                  *)
PairOfCaller(c) == cancelled[c]

(* The write and its read-back run under a context of their own.           *)
PairCancelled(c) == FALSE

ReadBack(c) ==
  /\ pc[c] = "verify"
  /\ Goto(c, "verdict")
  /\ \/ /\ ~PairCancelled(c) /\ mem[job[c].at] = Wanted(c)
        /\ Set(c, [job[c] EXCEPT !.result = "match"])
     \/ /\ ~PairCancelled(c) /\ mem[job[c].at] # Wanted(c)
        /\ Set(c, [job[c] EXCEPT !.result = "mismatch", !.fault = TRUE])
     \/ Set(c, [job[c] EXCEPT !.result = "unread", !.fault = @ \/ ~PairCancelled(c)])
  /\ UNCHANGED <<radioVars, serviceVars, cancelled, disk, countVars, histVars>>

(* After the last slot, the settings.                                      *)
NextSlot(c, report) ==
  LET rest == job[c].left \ {job[c].at} IN
    IF rest # {}
      THEN Goto(c, "slot") /\ Set(c, [job[c] EXCEPT !.left = rest, !.report = report])
      ELSE /\ Goto(c, "settings")
           /\ Set(c, [job[c] EXCEPT !.left = SettingDeltas(Plan(c)), !.report = report])

(* verify_result and verifyWriteResult: go on only with a match on record. *)
JournalVerdict(c) ==
  /\ pc[c] = "verdict"
  /\ LET line == Line(c, "verify_result", job[c].at, job[c].result = "match") IN
       IF job[c].result = "match"
         THEN \/ Log(c, <<line>>) /\ NextSlot(c, Verified(c))
              \/ AbortUnlogged(c, line, Verified(c))
         ELSE \E lines \in {<<>>, <<line>>} :
                AbortAfter(c, lines, Blamed(job[c].report, c), job[c].fault)
  /\ UNCHANGED <<radioVars, serviceVars, cancelled, countVars, histVars>>

-----------------------------------------------------------------------------
(* Execute, writeSettingsBatch and the end.                                *)

SettingAttempt(c) ==
  /\ pc[c] = "settings" /\ job[c].left # {} /\ ~cancelled[c]
  /\ LET i == Min(job[c].left)
         line == Line(c, "setting_write_attempt", i, TRUE)
     IN \/ /\ Log(c, <<line>>)
           /\ Goto(c, "set") /\ Set(c, [job[c] EXCEPT !.at = i])
        \/ AbortUnlogged(c, line, job[c].report)
  /\ UNCHANGED <<radioVars, serviceVars, cancelled, countVars, histVars>>

(* SettingsWriter.WriteSetting, which verifies what it set.                *)
WriteSetting(c) ==
  /\ pc[c] = "set"
  /\ Goto(c, "setresult")
  /\ \/ /\ menu' = [menu EXCEPT ![job[c].at] = Setting(c)]
        /\ Set(c, [job[c] EXCEPT !.result = "match"])
     \/ /\ menu' = menu \/ menu' = [menu EXCEPT ![job[c].at] = Setting(c)]
        /\ Set(c, [job[c] EXCEPT !.result = "error", !.fault = TRUE])
  /\ UNCHANGED <<mem, displaced, serviceVars, cancelled, disk, countVars, histVars>>

SettingResult(c) ==
  /\ pc[c] = "setresult"
  /\ LET line == Line(c, "setting_write_result", job[c].at, job[c].result = "match") IN
       \/ /\ job[c].result = "match" /\ Log(c, <<line>>)
          /\ Goto(c, "settings") /\ Set(c, [job[c] EXCEPT !.left = @ \ {job[c].at}])
       \/ /\ job[c].result # "match"
          /\ AbortAfter(c, <<line>>, job[c].report, job[c].fault)
       \/ AbortUnlogged(c, line, job[c].report)
  /\ UNCHANGED <<radioVars, serviceVars, cancelled, countVars, histVars>>

(* The completion line is best effort.                                     *)
Complete(c) ==
  /\ pc[c] = "settings" /\ job[c].left = {}
  /\ LogFails(c, Line(c, "completion", 0, TRUE))
  /\ Goto(c, Unwind(c)) /\ Set(c, [job[c] EXCEPT !.answer = "done"])
  /\ UNCHANGED <<radioVars, serviceVars, cancelled, countVars, histVars>>

(* restoreMemorySelection, then restoreVFOState; each may fail.            *)
Restore(c) ==
  /\ pc[c] = "restore"
  /\ Goto(c, "return")
  /\ \E done \in SUBSET job[c].held :
       /\ displaced' = displaced \ done
       /\ Set(c, [job[c] EXCEPT !.unheld = @ \cup (job[c].held \ done)])
  /\ UNCHANGED <<mem, menu, serviceVars, cancelled, disk, countVars, histVars>>

-----------------------------------------------------------------------------
(* The environment.                                                        *)

OperatorEdits(s, v) ==
  /\ edits < MaxEdits /\ edits' = edits + 1
  /\ v # mem[s] /\ mem' = [mem EXCEPT ![s] = v]
  /\ strayed' = strayed \cup {s}
  /\ UNCHANGED <<menu, displaced, serviceVars, clientVars, disk, reads, runs, touched>>

OperatorSets(i, v) ==
  /\ edits < MaxEdits /\ edits' = edits + 1
  /\ v # menu[i] /\ menu' = [menu EXCEPT ![i] = v]
  /\ UNCHANGED <<mem, displaced, serviceVars, clientVars, disk, reads, runs, histVars>>

(* A new session, with this radio or another, and a new Service for it;    *)
(* the program keeps the plans it has.                                     *)
Reconnect ==
  /\ ~opBusy /\ generation < MaxSessions
  /\ generation' = generation + 1
  /\ mem' = mem \/ mem' \in [Slots -> Contents \ {Mangled}]
  /\ UNCHANGED <<menu, displaced, opBusy, plans, clientVars, disk, countVars, histVars>>

(* The program dies in the middle of an operation and is started again.    *)
(* The radio stays as it is, and what was saved stays on disk.             *)
Crash ==
  /\ opBusy /\ generation < MaxSessions
  /\ generation' = generation + 1
  /\ opBusy' = FALSE /\ plans' = <<>>
  /\ pc' = [c \in Clients |-> "idle"] /\ job' = [c \in Clients |-> NoJob]
  /\ cancelled' = [c \in Clients |-> FALSE]
  /\ displaced' = {} /\ strayed' = {}
  /\ UNCHANGED <<mem, menu, disk, countVars, touched>>

-----------------------------------------------------------------------------

Step(c) ==
  \/ ReadSlot(c) \/ ReadFails(c) \/ ReadReturns(c)
  \/ SaveSnapshot(c) \/ SnapshotFails(c) \/ ReadItem(c) \/ HandOverPlan(c)
  \/ AcceptPlan(c) \/ RefusePlan(c) \/ SnapshotVFO(c) \/ SnapshotSelection(c)
  \/ Stopped(c) \/ VerifyRead(c) \/ VerifyReadAborts(c)
  \/ JournalAttempt(c) \/ WriteChannel(c) \/ JournalResult(c) \/ Diagnose(c)
  \/ ReadBack(c) \/ JournalVerdict(c)
  \/ SettingAttempt(c) \/ WriteSetting(c) \/ SettingResult(c)
  \/ Complete(c) \/ Restore(c) \/ Return(c)

Start(c) ==
  \/ BeginReadAll(c) \/ BeginReadSettings(c)
  \/ \E f \in DOMAIN Files : BeginPrepare(c, f)
  \/ \E p, q \in DOMAIN plans : BeginExecute(c, p, q)

Next ==
  \/ \E c \in Clients : Start(c) \/ Step(c) \/ Cancel(c)
  \/ \E s \in Slots, v \in Contents \ {Mangled} : OperatorEdits(s, v)
  \/ \E i \in Items, v \in Values : OperatorSets(i, v)
  \/ Reconnect \/ Crash

Spec == Init /\ [][Next]_vars

(* For the liveness property only: an operation that can go on does.       *)
(* Every exchange with the radio is bounded by the engine's timeouts.      *)
FairSpec == Spec /\ \A c \in Clients : WF_vars(Step(c))

-----------------------------------------------------------------------------
(* Properties.                                                             *)

Labels == {"idle", "read", "items", "check", "vfo", "sel", "slot", "attempt", "write",
           "result", "diagnose", "verify", "verdict", "settings", "set", "setresult",
           "restore", "return"}

Events == {"prepare", "write_attempt", "write_result", "post_failure_readback",
           "verify_result", "setting_write_attempt", "setting_write_result",
           "completion", "abort"}

Memories   == [Slots -> Contents]
Wishing    == [Items -> Values \cup {NoWish}]
PlanSet    == [baseline : Memories, candidate : Memories, settings : Wishing,
               generation : Nat, journal : Nat]
Records    == [run : Nat, event : Events, slot : Nat, ok : BOOLEAN]
Saved      == [snap : Memories, lines : Seq(Records)]
Reports    == [written : SUBSET Slots, verified : SUBSET Slots, failed : SUBSET Slots,
               aborted : BOOLEAN]
Jobs       == [op : {"none", "ReadAll", "ReadSettings", "PrepareSend", "Execute"},
               file : Nat, journal : Nat, plan : Nat, confirmed : Nat, run : Nat,
               seen : Memories, partial : BOOLEAN, settings : Wishing,
               left : SUBSET (Slots \cup Items), at : Slots \cup Items \cup {0},
               held : SUBSET Seams, unheld : SUBSET Seams,
               result : {"none", "sent", "error", "match", "mismatch", "unread"},
               report : Reports, answer : {"none", "refused", "aborted", "done"},
               fault : BOOLEAN]

(* The operation works on a file, plan and journal that there are.         *)
InRange(j) ==
  /\ j.file \in 0 .. Len(Files) /\ j.journal \in 0 .. Len(disk)
  /\ j.plan \in 0 .. Len(plans) /\ j.confirmed \in 0 .. Len(plans)
  /\ j.run \in 0 .. runs

(* Every variable has its type, and what refers to a file, a plan or a     *)
(* journal refers to one that exists.                                      *)
TypeOK ==
  /\ mem \in Memories /\ menu \in [Items -> Values] /\ displaced \subseteq Seams
  /\ generation \in Nat /\ opBusy \in BOOLEAN
  /\ pc \in [Clients -> Labels] /\ cancelled \in [Clients -> BOOLEAN]
  /\ job \in [Clients -> Jobs] /\ \A c \in Clients : InRange(job[c])
  /\ plans \in Seq(PlanSet) /\ \A p \in DOMAIN plans : plans[p].journal \in DOMAIN disk
  /\ disk \in Seq(Saved)
  /\ reads \in Nat /\ edits \in Nat /\ runs \in Nat
  /\ strayed \subseteq Slots /\ touched \subseteq (1 .. runs) \X Slots

Writes(c)   == pc[c] = "write" /\ pc'[c] = "result"
Sets(c)     == pc[c] = "set" /\ pc'[c] = "setresult"
Finished(c) == pc[c] = "return" /\ job[c].op = "Execute"

(* Obligations 1, 9 and 11: the only content a send ever destroys is that  *)
(* which the plan's snapshot on disk preserves, or one that was put into   *)
(* the slot after Execute's own read of it a moment before.                *)
OverwrittenIsSaved ==
  [][\A c \in Clients : Writes(c) =>
       LET s == job[c].at IN
         mem'[s] = mem[s] \/ s \in strayed \/ mem[s] = disk[job[c].journal].snap[s]]_vars

Lines(r, event, ok) ==
  UNION {{disk[f].lines[i].slot : i \in {i \in DOMAIN disk[f].lines :
             LET l == disk[f].lines[i] IN l.run = r /\ l.event = event /\ l.ok = ok}}
         : f \in DOMAIN disk}
Attempted(r) == Lines(r, "write_attempt", TRUE)
Confirmed(r) == Lines(r, "verify_result", TRUE)
Touched(r)   == {t[2] : t \in {t \in touched : t[1] = r}}

(* Obligation 8 and the journal durability policy: at every moment, so     *)
(* also after a crash at any step, the journals name every slot a run has  *)
(* changed, and leave at most one slot of that run in doubt.               *)
JournalNamesTheDoubt ==
  \A r \in 1 .. runs :
    /\ Touched(r) \subseteq Attempted(r)
    /\ Cardinality(Attempted(r) \ Confirmed(r)) =< 1

(* What Execute returns tells the truth about the radio: a refusal has     *)
(* changed nothing, a completion has verified every delta, and an abort    *)
(* names every slot that it may have changed, at most one of them failed.  *)
ReportNamesEveryWrite ==
  \A c \in Clients : Finished(c) =>
    LET report == job[c].report
        changed == Touched(job[c].run)
        answer == job[c].answer
    IN /\ answer = "refused" => changed = {}
       /\ answer = "done" => report.verified = Deltas(Plan(c)) /\ report.failed = {}
       /\ answer = "aborted" =>
            /\ changed \subseteq report.verified \cup report.failed
            /\ Cardinality(report.failed) =< 1
            /\ report.verified \subseteq report.written
       /\ answer # "none"

(* Cancellation falls between slots only: unless something failed, Execute *)
(* leaves no slot written and not verified.                                *)
CancelLeavesNoDoubt ==
  \A c \in Clients : (Finished(c) /\ ~job[c].fault) =>
    Attempted(job[c].run) = Confirmed(job[c].run)

(* Obligation 5: each channel written, and its content, stood in the plan  *)
(* whose confirmation the caller passed, whatever plan it passed.          *)
OnlyConfirmedChannels ==
  [][\A c \in Clients : Writes(c) =>
       /\ job[c].at \in Deltas(Shown(c))
       /\ Wanted(c) = Shown(c).candidate[job[c].at]]_vars

(* Obligation 4: a plan is never carried out in another session than the   *)
(* one it was prepared in.                                                 *)
OnlyInItsSession ==
  [][\A c \in Clients : Writes(c) \/ Sets(c) => Plan(c).generation = generation]_vars

(* Obligation 12 and the VFOStateRestorer seam: when Execute has returned, *)
(* by whatever path, what its writes moved is back where the operator had  *)
(* it, unless its snapshot or its restoration failed.                      *)
OperatorStateReturned ==
  \A c \in Clients : Finished(c) => displaced \subseteq job[c].unheld

(* The try-lock never stays behind: every operation comes to its end and   *)
(* the Service can be used again.                                          *)
ServiceBecomesFree == opBusy ~> ~opBusy

(* doc.go, obligation 5: the confirmed value is "specific to the exact     *)
(* plan being executed", hence to the settings it writes as well.          *)
OnlyConfirmedSettings ==
  [][\A c \in Clients : Sets(c) =>
       /\ job[c].at \in SettingDeltas(Shown(c))
       /\ Setting(c) = Shown(c).settings[job[c].at]]_vars

-----------------------------------------------------------------------------
(* The Service implements SendLedger.                                      *)

(* The client whose Execute is under way, if there is one.                 *)
Sending(c) == pc[c] # "idle" /\ job[c].op = "Execute"
Live       == \E c \in Clients : Sending(c)
Sender     == CHOOSE c \in Clients : Sending(c)

(* The order is what the caller was shown, whatever plan it passed.        *)
OrderOf(p) == [s \in Deltas(p) |-> p.candidate[s]]
Order      == IF Live THEN OrderOf(Shown(Sender)) ELSE [s \in {} |-> Mangled]
Bound      == IF Live THEN Plan(Sender).generation ELSE 0

(* The journals and the radio, run by run; and what the caller will hear.  *)
Declared == [r \in 1 .. MaxRuns |-> Attempted(r)]
Settled  == [r \in 1 .. MaxRuns |-> Confirmed(r)]
Changed  == [r \in 1 .. MaxRuns |-> Touched(r)]
Answered == IF Live THEN job[Sender].answer ELSE "none"
Told     == IF Answered = "none" THEN [verified |-> {}, failed |-> {}]
            ELSE [verified |-> job[Sender].report.verified, failed |-> job[Sender].report.failed]

Ledger == INSTANCE SendLedger WITH
  radio <- mem, epoch <- generation, run <- runs, live <- Live, order <- Order,
  bound <- Bound, declared <- Declared, settled <- Settled, changed <- Changed,
  answer <- Answered, report <- Told

(* Seen from its caller and from its journals a send is the abstract       *)
(* ledger: declared before written, settled before the next, nothing but   *)
(* what was confirmed, and an answer that agrees with the record.          *)
ImplementsLedger == Ledger!Spec

=============================================================================
