------------------------------ MODULE AppSession ------------------------------
(***************************************************************************)
(* app: the methods of App bound to the window, and the goroutine that     *)
(* carries out a send.                                                     *)
(*                                                                         *)
(* Every bound call runs on a goroutine of its own and takes a.mu only for *)
(* short sections: a section is one step here, and what happens between    *)
(* two of them (a radio operation, a file, a dialog) interleaves with the  *)
(* other calls.  Two reservations keep them apart: a.opBusy, a name, and   *)
(* a.transfer.  They do not exclude each other in every method.            *)
(*                                                                         *)
(* CloneService is abstracted to its try-lock and to what an operation     *)
(* ends with; a working copy or a file to a token that names its content.  *)
(***************************************************************************)
EXTENDS Naturals, Sequences, FiniteSets

CONSTANTS
  Threads,      (* goroutines of bound calls; each may own a send          *)
  Paths,        (* files the user may name                                 *)
  UIOrders,     (* whether calls come as the window's dialogues allow, or  *)
                (* in any order of the exported methods, or each in turn   *)
  Methods,      (* for each of these, the methods called                   *)
  MaxCalls,     (* bound, for each of these: calls                         *)
  MaxSessions   (* bound: connections made                                 *)

RadioMethods == {"ReadRadio", "PrepareSend", "ReadSettingsRadio", "WriteSetting"}
CloneMethods == {"ArmCloneRead", "CancelCloneRead", "ReceiveCloneImage"}
FileMethods  == {"UpdateChannel", "SaveFile", "LoadFile"}
SendMethods  == {"ConfirmSend", "CancelTransfer"}
AllMethods   == {"Connect", "Disconnect"} \cup RadioMethods \cup CloneMethods \cup FileMethods
                  \cup SendMethods

ASSUME AppAssumption ==
  /\ IsFiniteSet(Threads) /\ UIOrders \subseteq BOOLEAN /\ MaxSessions \in Nat
  /\ Methods \in [UIOrders -> SUBSET AllMethods]
  /\ MaxCalls \in [UIOrders -> Nat]

VARIABLES
  uiOrder,       (* who calls: one of UIOrders                             *)
  conn,          (* App.conn: a session, or 0                              *)
  closed,        (* sessions whose closer has run                          *)
  sessions,      (* how many there have been                               *)
  svcBusy,       (* sessions whose Service's try-lock is held              *)
  opBusy,        (* App.opBusy                                             *)
  transfer,      (* App.transfer; cancel names the send it would cancel    *)
  currentPlan,   (* App.currentPlan: the session it was prepared in, or 0  *)
  working, workingPath, dirty, workingRev, baselineStale,  (* of App       *)
  files,         (* what each file holds                                   *)
  cloneState,    (* App.cloneState: an index of arms, or 0                 *)
  arms,          (* the cloneReadState of each ArmCloneRead                *)
  pc, local,     (* each call: where it is, and its local variables        *)
  send, stopped, (* each send: where it is; whether its context is dead    *)
  calls,         (* how many there have been, for the bound                *)
  sent, baseline,(* history: sends that touched the radio; as of the read  *)
  told           (* history: how sends ended, with the outcome reported    *)

connVars  == <<conn, closed, sessions>>
busyVars  == <<opBusy, transfer>>
copyVars  == <<working, workingPath, dirty, workingRev, baselineStale, baseline>>
cloneVars == <<cloneState, arms>>
callVars  == <<pc, local>>
sendVars  == <<send, stopped, sent, told>>
vars == <<uiOrder, connVars, svcBusy, busyVars, currentPlan, copyVars, files, cloneVars,
          callVars, sendVars, calls>>

Nothing == 0
Foreign == MaxCalls[uiOrder] + 1   (* the content of a file made elsewhere  *)
NoOp    == ""                      (* opBusy when nothing is reserved   *)
NoPath  == "none"
Nobody  == "nobody"
NoSend  == [running |-> FALSE, cancel |-> Nobody]
NoLocal == [op |-> "none", conn |-> 0, seen |-> Nothing, rev |-> 0, path |-> NoPath,
            cs |-> 0, port |-> "none", epoch |-> 0]
Quiet   == [at |-> "none", conn |-> 0, plan |-> 0, cause |-> "none"]

Init ==
  /\ uiOrder \in UIOrders
  /\ conn = 0 /\ closed = {} /\ sessions = 0 /\ svcBusy = {}
  /\ opBusy = NoOp /\ transfer = NoSend /\ currentPlan = 0
  /\ working = Nothing /\ workingPath = NoPath /\ dirty = FALSE
  /\ workingRev = 0 /\ baselineStale = FALSE /\ baseline = 0
  /\ files \in [Paths -> {Nothing, Foreign}]
  /\ cloneState = 0 /\ arms = <<>>
  /\ pc = [t \in Threads |-> "idle"] /\ local = [t \in Threads |-> NoLocal]
  /\ send = [t \in Threads |-> Quiet] /\ stopped = [t \in Threads |-> FALSE]
  /\ calls = 0 /\ sent = 0 /\ told = {}

-----------------------------------------------------------------------------
(* Parts of steps.                                                         *)

(* A call begins with a section of its own and goes on at label.           *)
Call(t, method, label, locals) ==
  /\ pc[t] = "idle" /\ method \in Methods[uiOrder]
  /\ calls < MaxCalls[uiOrder] /\ calls' = calls + 1
  /\ pc' = [pc EXCEPT ![t] = label]
  /\ local' = [local EXCEPT ![t] = [locals EXCEPT !.op = method]]

Goto(t, label) ==
  /\ pc' = [pc EXCEPT ![t] = label]
  /\ local' = IF label = "idle" THEN [local EXCEPT ![t] = NoLocal] ELSE local
  /\ UNCHANGED calls

(* checkNotBusyLocked                                                      *)
NotBusy == opBusy = NoOp /\ ~transfer.running

(* Mutant: an edit looks at the transfer only, as before the reservation.  *)
EditRefusedBySendOnly == ~transfer.running
EditAllowed == NotBusy

(* reserveOpLocked: of the two reservations it looks at its own only.      *)
Reserve(name) == opBusy = NoOp /\ opBusy' = name /\ UNCHANGED transfer

(* The working copy replaced by something new that stems from no file.     *)
FreshCopy ==
  /\ working' = workingRev + 1 /\ workingRev' = workingRev + 1
  /\ workingPath' = NoPath /\ dirty' = FALSE /\ baselineStale' = FALSE

(* The working copy changed in place.                                      *)
Touched ==
  /\ working' = workingRev + 1 /\ workingRev' = workingRev + 1 /\ dirty' = TRUE
  /\ UNCHANGED <<workingPath, baselineStale, baseline>>

-----------------------------------------------------------------------------
(* connect and Disconnect.                                                 *)

Connect(t) ==
  /\ conn = 0 /\ ~transfer.running /\ sessions < MaxSessions
  /\ Call(t, "Connect", "opening", NoLocal)
  /\ UNCHANGED <<connVars, svcBusy, busyVars, currentPlan, copyVars, files, cloneVars,
                 sendVars>>

(* The port opens or not; a second connect that was as fast has won.       *)
ConnectEnds(t) ==
  /\ pc[t] = "opening" /\ Goto(t, "idle")
  /\ \/ conn = 0 /\ sessions < MaxSessions
        /\ sessions' = sessions + 1 /\ conn' = sessions + 1
     \/ UNCHANGED <<sessions, conn>>
  /\ UNCHANGED <<closed, svcBusy, busyVars, currentPlan, copyVars, files, cloneVars,
                 sendVars>>

(* Mutants: Disconnect looks at the transfer only; the plan survives it.   *)
SessionFreeOfSend == ~transfer.running
PlanKept == currentPlan

SessionFree == NotBusy
PlanDropped == 0

Disconnect(t) ==
  /\ SessionFree /\ conn # 0
  /\ Call(t, "Disconnect", "closing", [NoLocal EXCEPT !.conn = conn])
  /\ conn' = 0 /\ currentPlan' = PlanDropped
  /\ UNCHANGED <<closed, sessions, svcBusy, busyVars, copyVars, files, cloneVars, sendVars>>

SessionCloses(t) ==
  /\ pc[t] = "closing" /\ Goto(t, "idle")
  /\ closed' = closed \cup {local[t].conn}
  /\ UNCHANGED <<conn, sessions, svcBusy, busyVars, currentPlan, copyVars, files, cloneVars,
                 sendVars>>

-----------------------------------------------------------------------------
(* ReadRadio, PrepareSend, ReadSettingsRadio and WriteSetting.             *)

(* Mutant: the reservation does not name its holder.                       *)
ReserveUnnamed(m) == Reserve("busy")
ReserveFor(m) == Reserve(m)

(* WriteSetting talks to the session itself, the others to its Service.    *)
(* The window disables its read button while a send is active.             *)
BeginRadioMethod(t, m) ==
  /\ conn # 0
  /\ m \in {"PrepareSend", "ReadSettingsRadio"} => working # Nothing
  /\ m = "PrepareSend" => ~transfer.running
  /\ uiOrder /\ m = "ReadRadio" => \A u \in Threads : send[u].at = "none" /\ pc[u] # "confirm"
  /\ ReserveFor(m)
  /\ Call(t, m, IF m = "WriteSetting" THEN "wire" ELSE "service",
          [NoLocal EXCEPT !.conn = conn, !.seen = working])
  /\ UNCHANGED <<connVars, svcBusy, currentPlan, copyVars, files, cloneVars, sendVars>>

(* Mutant: an early return before the deferred release.                    *)
ReturnAtOnce == "idle"
AfterRefusal == "release"

(* Mutant: the try-lock always succeeds.                                   *)
NeverBusy(s) == FALSE
(* Service.acquireOp ends with its *BusyError.                             *)
ServiceBusy(s) == s \in svcBusy

EnterService(t) ==
  /\ pc[t] = "service"
  /\ IF ServiceBusy(local[t].conn)
       THEN Goto(t, AfterRefusal) /\ UNCHANGED svcBusy
       ELSE Goto(t, "wire") /\ svcBusy' = svcBusy \cup {local[t].conn}
  /\ UNCHANGED <<connVars, busyVars, currentPlan, copyVars, files, cloneVars, sendVars>>

(* The operation on the radio ends, well or with an error.  What a read    *)
(* has seen is the radio as the sends so far have left it.                 *)
RadioMethodEnds(t) ==
  /\ pc[t] = "wire" /\ UNCHANGED calls
  /\ svcBusy' = IF local[t].op = "WriteSetting" THEN svcBusy ELSE svcBusy \ {local[t].conn}
  /\ local' = [local EXCEPT ![t].epoch = sent]
  /\ \/ pc' = [pc EXCEPT ![t] = "release"]
     \/ local[t].op # "WriteSetting" /\ pc' = [pc EXCEPT ![t] = "finish"]
  /\ UNCHANGED <<connVars, busyVars, currentPlan, copyVars, files, cloneVars, sendVars>>

(* The last section of ReadRadio, of PrepareSend, of ReadSettingsRadio.    *)
FinishRead(t) ==
  /\ pc[t] = "finish" /\ local[t].op = "ReadRadio"
  /\ FreshCopy /\ baseline' = local[t].epoch
  /\ Goto(t, "release")
  /\ UNCHANGED <<connVars, svcBusy, busyVars, currentPlan, files, cloneVars, sendVars>>

FinishPrepare(t) ==
  /\ pc[t] = "finish" /\ local[t].op = "PrepareSend"
  /\ currentPlan' = local[t].conn
  /\ Goto(t, "release")
  /\ UNCHANGED <<connVars, svcBusy, busyVars, copyVars, files, cloneVars, sendVars>>

FinishSettings(t) ==
  /\ pc[t] = "finish" /\ local[t].op = "ReadSettingsRadio"
  /\ Touched
  /\ Goto(t, "release")
  /\ UNCHANGED <<connVars, svcBusy, busyVars, currentPlan, files, cloneVars, sendVars>>

(* releaseOp, deferred or called                                           *)
ReleaseOp(t) ==
  /\ pc[t] = "release" /\ Goto(t, "idle")
  /\ opBusy' = NoOp
  /\ UNCHANGED <<connVars, svcBusy, transfer, currentPlan, copyVars, files, cloneVars,
                 sendVars>>

-----------------------------------------------------------------------------
(* ConfirmSend, its goroutine, and CancelTransfer.                         *)

(* Mutant: the transfer is taken only once the checks have passed.         *)
CheckOnly == NotBusy /\ UNCHANGED busyVars

TakeTransfer ==
  /\ NotBusy
  /\ transfer' = [running |-> TRUE, cancel |-> Nobody] /\ UNCHANGED opBusy

ConfirmSend(t) ==
  /\ send[t].at = "none"
  /\ TakeTransfer
  /\ Call(t, "ConfirmSend", "confirm", [NoLocal EXCEPT !.conn = conn, !.seen = currentPlan])
  /\ UNCHANGED <<connVars, svcBusy, currentPlan, copyVars, files, cloneVars, sendVars>>

(* No connection, no plan, or the digest of another plan.                  *)
ConfirmRefused(t) ==
  /\ pc[t] = "confirm" /\ Goto(t, "idle")
  /\ transfer' = NoSend
  /\ UNCHANGED <<connVars, svcBusy, opBusy, currentPlan, copyVars, files, cloneVars, sendVars>>

ConfirmStarts(t) ==
  /\ pc[t] = "confirm" /\ local[t].conn # 0 /\ local[t].seen # 0
  /\ Goto(t, "idle")
  /\ transfer' = [running |-> TRUE, cancel |-> t]
  /\ send' = [send EXCEPT ![t] = [Quiet EXCEPT !.at = "started", !.conn = local[t].conn,
                                               !.plan = local[t].seen]]
  /\ stopped' = [stopped EXCEPT ![t] = FALSE]
  /\ UNCHANGED <<connVars, svcBusy, opBusy, currentPlan, copyVars, files, cloneVars, sent,
                 told>>

SendEnters(t) ==
  /\ send[t].at = "started"
  /\ IF ServiceBusy(send[t].conn)
       THEN /\ send' = [send EXCEPT ![t].at = "ended", ![t].cause = "busy"]
            /\ UNCHANGED svcBusy
       ELSE /\ send' = [send EXCEPT ![t].at = "executing"]
            /\ svcBusy' = svcBusy \cup {send[t].conn}
  /\ UNCHANGED <<connVars, busyVars, currentPlan, copyVars, files, cloneVars, callVars,
                 stopped, sent, told, calls>>

Reporting == {"completed", "cancelled", "pair timed out", "failed"}

(* What Execute may return: a refusal, with no report; or a report, and an *)
(* abort unless all went well.  The context of a write and its read-back   *)
(* is Execute's own and may time out.                                      *)
Endings(t) ==
  IF send[t].plan # send[t].conn THEN {"refused"}
  ELSE {"refused", "completed", "pair timed out", "failed"}
       \cup IF stopped[t] THEN {"cancelled early", "cancelled"} ELSE {}

SendReturns(t) ==
  /\ send[t].at = "executing"
  /\ \E cause \in Endings(t) :
       /\ send' = [send EXCEPT ![t].at = "ended", ![t].cause = cause]
       /\ sent' = IF cause \in Reporting THEN sent + 1 ELSE sent
  /\ svcBusy' = svcBusy \ {send[t].conn}
  /\ UNCHANGED <<connVars, busyVars, currentPlan, copyVars, files, cloneVars, callVars,
                 stopped, told, calls>>

(* classifyExecuteOutcome                                                  *)
Classify(cause) ==
  CASE cause = "completed" -> "ok"
    [] cause \in {"cancelled", "cancelled early", "pair timed out"} -> "cancelled"
    [] cause = "failed" -> "aborted"
    [] cause = "refused" -> "refused"
    [] cause = "busy" -> "error"

(* Mutant: a partial send leaves the baseline as fresh as it was.          *)
StaleIfCompleted(cause) == cause = "completed"
MakesStale(cause) == cause \in Reporting

(* The goroutine's last section, and transfer:done.                        *)
SendEnds(t) ==
  /\ send[t].at = "ended"
  /\ transfer' = NoSend /\ currentPlan' = 0
  /\ baselineStale' = (baselineStale \/ MakesStale(send[t].cause))
  /\ told' = told \cup {<<send[t].cause, Classify(send[t].cause)>>}
  /\ send' = [send EXCEPT ![t] = Quiet]
  /\ UNCHANGED <<connVars, svcBusy, opBusy, working, workingPath, dirty, workingRev, baseline,
                 files, cloneVars, callVars, stopped, sent, calls>>

(* A send that has ended in the meantime is not harmed.                    *)
CancelTransfer(t) ==
  /\ transfer.running /\ transfer.cancel \in Threads
  /\ Call(t, "CancelTransfer", "idle", NoLocal)
  /\ stopped' = [stopped EXCEPT ![transfer.cancel] = TRUE]
  /\ UNCHANGED <<connVars, svcBusy, busyVars, currentPlan, copyVars, files, cloneVars, send,
                 sent, told>>

-----------------------------------------------------------------------------
(* ArmCloneRead, CancelCloneRead and ReceiveCloneImage.                    *)

ArmCloneRead(t) ==
  /\ Reserve("ArmCloneRead")
  /\ Call(t, "ArmCloneRead", "arming", [NoLocal EXCEPT !.cs = Len(arms) + 1])
  /\ arms' = Append(arms, [cancelled |-> FALSE, port |-> "none", reception |-> FALSE])
  /\ cloneState' = Len(arms) + 1
  /\ UNCHANGED <<connVars, svcBusy, currentPlan, copyVars, files, sendVars>>

(* Mutant: the port and the reception are published regardless.            *)
NeverCancelled(cs) == FALSE
Cancelled(cs) == arms[cs].cancelled

(* The port opens, and publishClonePort; or it does not open.              *)
ArmOpensPort(t) ==
  /\ pc[t] = "arming"
  /\ LET cs == local[t].cs IN
       \/ Cancelled(cs) /\ Goto(t, "idle") /\ UNCHANGED arms
       \/ /\ ~Cancelled(cs) /\ Goto(t, "listening")
          /\ arms' = [arms EXCEPT ![cs].port = "open"]
       \/ Goto(t, "abandon") /\ UNCHANGED arms
  /\ UNCHANGED <<connVars, svcBusy, busyVars, currentPlan, copyVars, files, cloneState,
                 sendVars>>

(* clonewire.Arm, and publishCloneReception; or Arm fails.                 *)
ArmListens(t) ==
  /\ pc[t] = "listening"
  /\ LET cs == local[t].cs IN
       \/ /\ Cancelled(cs) /\ Goto(t, "idle")
          /\ arms' = [arms EXCEPT ![cs].port = "closed"]
       \/ /\ ~Cancelled(cs) /\ Goto(t, "idle")
          /\ arms' = [arms EXCEPT ![cs].reception = TRUE]
       \/ Goto(t, "abandon") /\ arms' = [arms EXCEPT ![cs].port = "closed"]
  /\ UNCHANGED <<connVars, svcBusy, busyVars, currentPlan, copyVars, files, cloneState,
                 sendVars>>

(* Mutant: abandonCloneArm releases without a look at cancelled.           *)
NeverOvertaken(t) == FALSE

(* CancelCloneRead was faster, and has released the reservation.           *)
Overtaken(t) == arms[local[t].cs].cancelled

(* abandonCloneArm                                                         *)
AbandonArm(t) ==
  /\ pc[t] = "abandon"
  /\ IF Overtaken(t)
       THEN Goto(t, "idle") /\ UNCHANGED cloneState
       ELSE Goto(t, "release") /\ cloneState' = 0
  /\ UNCHANGED <<connVars, svcBusy, busyVars, currentPlan, copyVars, files, arms, sendVars>>

Receiving(t) == pc[t] \in {"receiving", "received", "unport", "unarm", "panicked"}

(* The dialogue cannot be closed while it receives.                        *)
CancelCloneRead(t) ==
  /\ cloneState # 0
  /\ uiOrder => \A u \in Threads : ~Receiving(u)
  /\ Call(t, "CancelCloneRead", "unport",
          [NoLocal EXCEPT !.cs = cloneState, !.port = arms[cloneState].port])
  /\ arms' = [arms EXCEPT ![cloneState].cancelled = TRUE]
  /\ cloneState' = 0
  /\ UNCHANGED <<connVars, svcBusy, busyVars, currentPlan, copyVars, files, sendVars>>

(* The dialogue offers it once, when clone:armed has arrived.  Before the  *)
(* reception is there, the code calls a method of a nil pointer.           *)
ReceiveCloneImage(t) ==
  /\ cloneState # 0
  /\ LET armed == arms[cloneState].reception IN
       /\ uiOrder => armed /\ \A u \in Threads : ~Receiving(u)
       /\ Call(t, "ReceiveCloneImage", IF armed THEN "receiving" ELSE "panicked",
               [NoLocal EXCEPT !.cs = cloneState, !.seen = working])
  /\ UNCHANGED <<connVars, svcBusy, busyVars, currentPlan, copyVars, files, cloneVars,
                 sendVars>>

ImageArrives(t) ==
  /\ pc[t] = "receiving"
  /\ \/ arms[local[t].cs].port = "open" /\ Goto(t, "received")
     \/ Goto(t, "unport")
  /\ UNCHANGED <<connVars, svcBusy, busyVars, currentPlan, copyVars, files, cloneVars,
                 sendVars>>

ImageLoads(t) ==
  /\ pc[t] = "received" /\ Goto(t, "unport")
  /\ FreshCopy /\ baseline' = sent
  /\ UNCHANGED <<connVars, svcBusy, busyVars, currentPlan, files, cloneVars, sendVars>>

(* The deferred function of ReceiveCloneImage, or the end of               *)
(* CancelCloneRead: the port, App.cloneState, then releaseOp.              *)
ClosePort(t) ==
  /\ pc[t] = "unport"
  /\ Goto(t, IF local[t].op = "CancelCloneRead" THEN "release" ELSE "unarm")
  /\ arms' = [arms EXCEPT ![local[t].cs].port =
               IF local[t].op = "CancelCloneRead" /\ local[t].port = "none" THEN @
               ELSE "closed"]
  /\ UNCHANGED <<connVars, svcBusy, busyVars, currentPlan, copyVars, files, cloneState,
                 sendVars>>

Unarm(t) ==
  /\ pc[t] = "unarm" /\ Goto(t, "release")
  /\ cloneState' = 0
  /\ UNCHANGED <<connVars, svcBusy, busyVars, currentPlan, copyVars, files, arms, sendVars>>

-----------------------------------------------------------------------------
(* The working copy and its file.                                          *)

(* UpdateChannel, UpdateChannels, and the last section of ImportCSV and of *)
(* ImportCHIRP.                                                            *)
UpdateChannel(t) ==
  /\ EditAllowed /\ working # Nothing
  /\ Call(t, "UpdateChannel", "idle", NoLocal)
  /\ Touched
  /\ UNCHANGED <<connVars, svcBusy, busyVars, currentPlan, files, cloneVars, sendVars>>

(* The window holds back a second save until the first has ended.          *)
SaveFile(t, p) ==
  /\ NotBusy /\ working # Nothing
  /\ uiOrder => \A u \in Threads : pc[u] \notin {"saving", "saved"}
  /\ Call(t, "SaveFile", "saving",
          [NoLocal EXCEPT !.seen = working, !.rev = workingRev, !.path = p])
  /\ UNCHANGED <<connVars, svcBusy, busyVars, currentPlan, copyVars, files, cloneVars,
                 sendVars>>

(* codeplug.Save replaces the file or leaves it alone.                     *)
SaveWrites(t) ==
  /\ pc[t] = "saving"
  /\ \/ Goto(t, "saved") /\ files' = [files EXCEPT ![local[t].path] = local[t].seen]
     \/ Goto(t, "idle") /\ UNCHANGED files
  /\ UNCHANGED <<connVars, svcBusy, busyVars, currentPlan, copyVars, cloneVars, sendVars>>

(* Mutant: the mark goes whatever happened since the copy was taken.       *)
AlwaysCurrent(t) == TRUE
StillCurrent(t) == workingRev = local[t].rev

SaveConcludes(t) ==
  /\ pc[t] = "saved" /\ Goto(t, "idle")
  /\ workingPath' = local[t].path
  /\ dirty' = (dirty /\ ~StillCurrent(t))
  /\ UNCHANGED <<connVars, svcBusy, busyVars, currentPlan, working, workingRev,
                 baselineStale, baseline, files, cloneVars, sendVars>>

(* LoadFile, after its dialog, and loadFilePath.                           *)
LoadFile(t, p) ==
  /\ NotBusy
  /\ Call(t, "LoadFile", "loading", [NoLocal EXCEPT !.path = p])
  /\ UNCHANGED <<connVars, svcBusy, busyVars, currentPlan, copyVars, files, cloneVars,
                 sendVars>>

LoadReads(t) ==
  /\ pc[t] = "loading" /\ UNCHANGED calls
  /\ \/ /\ files[local[t].path] # Nothing
        /\ pc' = [pc EXCEPT ![t] = "loaded"]
        /\ local' = [local EXCEPT ![t].seen = files[local[t].path]]
     \/ pc' = [pc EXCEPT ![t] = "idle"] /\ local' = [local EXCEPT ![t] = NoLocal]
  /\ UNCHANGED <<connVars, svcBusy, busyVars, currentPlan, copyVars, files, cloneVars,
                 sendVars>>

LoadConcludes(t) ==
  /\ pc[t] = "loaded" /\ Goto(t, "idle")
  /\ IF NotBusy
       THEN /\ working' = local[t].seen /\ workingRev' = workingRev + 1
            /\ workingPath' = local[t].path /\ dirty' = FALSE
       ELSE UNCHANGED <<working, workingRev, workingPath, dirty>>
  /\ UNCHANGED <<connVars, svcBusy, busyVars, currentPlan, baselineStale, baseline, files,
                 cloneVars, sendVars>>

-----------------------------------------------------------------------------

ConnectionStep(t) ==
  Connect(t) \/ ConnectEnds(t) \/ Disconnect(t) \/ SessionCloses(t)

RadioStep(t) ==
  \/ \E m \in RadioMethods : BeginRadioMethod(t, m)
  \/ EnterService(t) \/ RadioMethodEnds(t) \/ FinishRead(t)
  \/ FinishPrepare(t) \/ FinishSettings(t) \/ ReleaseOp(t)

SendStep(t) ==
  \/ ConfirmSend(t) \/ ConfirmRefused(t) \/ ConfirmStarts(t) \/ CancelTransfer(t)
  \/ SendEnters(t) \/ SendReturns(t) \/ SendEnds(t)

CloneStep(t) ==
  \/ ArmCloneRead(t) \/ ArmOpensPort(t) \/ ArmListens(t) \/ AbandonArm(t)
  \/ CancelCloneRead(t) \/ ReceiveCloneImage(t) \/ ImageArrives(t) \/ ImageLoads(t)
  \/ ClosePort(t) \/ Unarm(t)

FileStep(t) ==
  \/ UpdateChannel(t) \/ SaveWrites(t) \/ SaveConcludes(t)
  \/ LoadReads(t) \/ LoadConcludes(t)
  \/ \E p \in Paths : SaveFile(t, p) \/ LoadFile(t, p)

Next == UNCHANGED uiOrder /\ \E t \in Threads :
  ConnectionStep(t) \/ RadioStep(t) \/ SendStep(t) \/ CloneStep(t) \/ FileStep(t)

Spec == Init /\ [][Next]_vars

-----------------------------------------------------------------------------
(* Properties.                                                             *)

Labels == {"idle", "opening", "closing", "service", "wire", "finish", "release", "confirm",
           "arming", "listening", "abandon", "receiving", "received", "unport", "unarm",
           "panicked", "saving", "saved", "loading", "loaded"}
Names  == RadioMethods \cup {"ArmCloneRead"}
Causes == Reporting \cup {"none", "refused", "cancelled early", "busy"}
Ports  == {"none", "open", "closed"}
Arms   == [cancelled : BOOLEAN, port : Ports, reception : BOOLEAN]
Locals == [op : AllMethods \cup {"none"}, conn : Nat, seen : Nat, rev : Nat,
           path : Paths \cup {NoPath}, cs : Nat, port : Ports, epoch : Nat]
Sends  == [at : {"none", "started", "executing", "ended"}, conn : Nat, plan : Nat,
           cause : Causes]

(* A call speaks of a session, an arm and a send that there have been.     *)
InRange(l) ==
  /\ l.op \in Methods[uiOrder] \cup {"none"}
  /\ l.conn \in 0 .. sessions /\ l.cs \in 0 .. Len(arms) /\ l.epoch \in 0 .. sent

(* Every variable has its type, and what refers to a session or an arm     *)
(* refers to one there has been.                                           *)
TypeOK ==
  /\ uiOrder \in UIOrders
  /\ conn \in 0 .. sessions /\ closed \subseteq 1 .. sessions /\ sessions \in Nat
  /\ svcBusy \subseteq 1 .. sessions
  /\ opBusy \in Names \cup {NoOp}
  /\ transfer \in [running : BOOLEAN, cancel : Threads \cup {Nobody}]
  /\ currentPlan \in 0 .. sessions /\ working \in Nat /\ workingPath \in Paths \cup {NoPath}
  /\ dirty \in BOOLEAN /\ workingRev \in Nat /\ baselineStale \in BOOLEAN
  /\ files \in [Paths -> Nat] /\ cloneState \in 0 .. Len(arms) /\ arms \in Seq(Arms)
  /\ pc \in [Threads -> Labels]
  /\ local \in [Threads -> Locals] /\ \A t \in Threads : InRange(local[t])
  /\ send \in [Threads -> Sends]
  /\ \A t \in Threads : send[t].conn \in 0 .. sessions /\ send[t].plan \in 0 .. sessions
  /\ stopped \in [Threads -> BOOLEAN]
  /\ calls \in Nat /\ sent \in Nat /\ baseline \in 0 .. sent

InUse(t)    == pc[t] \in {"service", "wire", "finish"}
OnWire(t)   == pc[t] = "wire"
Sending(t)  == send[t].at \in {"started", "executing"}

(* Disconnect never closes a session under an operation: whatever call is  *)
(* on its way to the radio, its session is still open.                     *)
SessionOpenWhileUsed ==
  \A t \in Threads : /\ InUse(t) => local[t].conn \notin closed
                     /\ Sending(t) => send[t].conn \notin closed

(* Two operations never mix their traffic with one radio.  The exception   *)
(* is the code's: WriteSetting goes past the Service and does not look at  *)
(* transfer, and may fall between the frames of a send.                    *)
TrafficNeverMixes ==
  \A t, u \in Threads :
    /\ t # u /\ OnWire(t) /\ OnWire(u) => local[t].conn # local[u].conn
    /\ OnWire(t) /\ send[u].at = "executing" /\ local[t].op # "WriteSetting" =>
         local[t].conn # send[u].conn

(* While a send is under way, transfer says so and names it: there is one  *)
(* at most, and CancelTransfer reaches it.                                 *)
SendIsReachable ==
  \A t \in Threads : send[t].at # "none" => transfer = [running |-> TRUE, cancel |-> t]

(* The active plan was prepared in the session that is open now: a plan    *)
(* from before a reconnect is never there to be confirmed.                 *)
PlanOfThisSession == currentPlan # 0 => currentPlan = conn

(* Once every call has returned and every send has ended, nothing is still *)
(* reserved: no error path, and no order in which CancelCloneRead overtakes*)
(* ArmCloneRead, leaves the App busy, or a port open, for good.            *)
NothingLeaked ==
  (\A t \in Threads : pc[t] = "idle") =>
    /\ cloneState = 0 => opBusy = NoOp /\ \A i \in DOMAIN arms : arms[i].port # "open"
    /\ (\A t \in Threads : send[t].at = "none") => ~transfer.running

(* A reservation is never released by another call than its holder's.      *)
ReservationHeld ==
  /\ \A t \in Threads :
       /\ local[t].op \in RadioMethods => opBusy = local[t].op
       /\ pc[t] \in {"arming", "listening"} /\ ~arms[local[t].cs].cancelled =>
            opBusy = "ArmCloneRead"
       /\ Receiving(t) => opBusy = "ArmCloneRead"
  /\ cloneState # 0 => opBusy = "ArmCloneRead"

(* A read that replaces the working copy replaces the one that was there   *)
(* when it began, the one the user agreed to lose: no edit, import or load *)
(* made meanwhile is swallowed.                                            *)
NoEditSwallowed ==
  [][\A t \in Threads :
       (\/ pc[t] = "finish" /\ pc'[t] = "release" /\ local[t].op = "ReadRadio"
        \/ pc[t] = "received" /\ pc'[t] = "unport")
       => working = local[t].seen]_vars

(* The dirty mark is only ever taken away by a save if the file holds the  *)
(* working copy as it is then, whatever changed it during the save.        *)
SaveClearsHonestly ==
  [][\A t \in Threads :
       pc[t] = "saved" /\ pc'[t] = "idle" /\ dirty /\ ~dirty' =>
         files[workingPath'] = working']_vars

(* In the window's order, a baseline older than the last send that touched *)
(* the radio is marked as such when that send's goroutine has ended.       *)
StaleIsMarked ==
  (uiOrder /\ baseline < sent /\ \A t \in Threads : send[t].at = "none") => baselineStale

(* app.go, workingPath and workingRev: a save that ends never leaves a      *)
(* working copy that is not in the file it is bound to, marked clean: not  *)
(* "the newer working copy marked clean behind a stale on-disk snapshot",  *)
(* and no radio read bound to "an unrelated file".                         *)
CleanMeansSaved ==
  [][\A t \in Threads :
       pc[t] = "saved" /\ pc'[t] = "idle" /\ ~dirty' => files[workingPath'] = working']_vars

(* send.go: a send is reported as cancelled, its write and read-back       *)
(* completed, only if that is how it ended.                                *)
CancelledIsHonest ==
  \A x \in told : x[2] = "cancelled" => x[1] \in {"cancelled", "cancelled early"}

=============================================================================
