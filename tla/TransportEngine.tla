--------------------------- MODULE TransportEngine ---------------------------
(***************************************************************************)
(* The transaction engine of core/transport/engine.go: request/response    *)
(* semantics over a serial line that has no request ids and acknowledges   *)
(* no successful write.                                                    *)
(*                                                                         *)
(* Three kinds of process interleave:                                      *)
(*   - callers, each inside Engine.Do or Engine.DrainToQuiet, serialised   *)
(*     by the mutex e.mu;                                                  *)
(*   - readLoop, the goroutine that owns Port.Read and feeds e.events;     *)
(*   - whoever calls Engine.Close.                                         *)
(* The radio and the line are the environment: commands wait in "radio",   *)
(* frames for the host in "wire".                                          *)
(*                                                                         *)
(* Time is not a number here.  A deadline may pass at any moment, which is *)
(* every order the clock can produce.  The one timing assumption, that the *)
(* silence a drain waits for outlasts the radio's slowest reply, is the    *)
(* constant Punctual.                                                      *)
(***************************************************************************)
EXTENDS Naturals, Sequences

CONSTANTS
  Callers,       (* goroutines that call Do or DrainToQuiet               *)
  MaxCalls,      (* bound: calls made in one behaviour                    *)
  CallKinds,     (* the kinds of call the callers make                    *)
  RetryReads,    (* CommandSpec.RetryReads of every read                  *)
  FatalFraming,  (* TRUE: the Framing implements FatalFramer              *)
  Punctual,      (* TRUE: nothing is still on its way after an IdleGap    *)
  EventCap,      (* capacity of e.events (16 in the code)                 *)
  WireCap,       (* bound: frames on the line at once                     *)
  ChunkMax,      (* bound: frames completed by one Port.Read              *)
  PurgeBound,    (* maxPurgeFrames (1024 in the code)                     *)
  Unsolicited    (* the kinds of frames the radio sends unasked           *)

ASSUME EngineAssumption ==
  /\ Callers # {} /\ {"none", "reader"} \cap Callers = {}
  /\ MaxCalls \in Nat \ {0} /\ CallKinds \subseteq {"Read", "Write", "Ack", "Drain"}
  /\ RetryReads \in Nat
  /\ FatalFraming \in BOOLEAN /\ Punctual \in BOOLEAN
  /\ EventCap \in Nat \ {0} /\ WireCap \in Nat \ {0} /\ ChunkMax \in Nat \ {0}
  /\ PurgeBound \in Nat /\ PurgeBound > EventCap
  /\ Unsolicited \subseteq {"push", "garbage", "fatal"}

Calls   == 1 .. MaxCalls
Classes == {"Read", "Write", "Ack", "Drain"}  \* ClassWriteWithAck is "Ack"
Outcomes ==
  {"none", "Ok", "Rejected", "Timeout", "Ctx", "Closed", "Contaminated",
   "Disallowed", "QuarantineFailed", "DrainCap"}

(* Where a caller is; outside its call it is "idle".                       *)
Labels  == {"idle", "lock", "purge", "send", "write", "failed", "wait", "drain"}

(* Who asked for the drain under way: DrainToQuiet, Do's entry, a retry,   *)
(* or the quarantine after a write.                                        *)
Reasons == {"none", "caller", "entry", "retry", "after"}

(* A frame names the call it answers, 0 when it answers none; the engine   *)
(* itself never looks at that field.  "garbage" is a run of bytes longer   *)
(* than maxFrame.  An event is a frame, or one of readerEvent's two errors.*)
FrameKinds == {"data", "ack", "nak", "push", "garbage", "fatal"}
Frames     == [kind : FrameKinds, id : 0 .. MaxCalls]
Events     == [kind : FrameKinds \cup {"tooLong", "io"}, id : 0 .. MaxCalls]
TooLong    == [kind |-> "tooLong", id |-> 0]
IoError    == [kind |-> "io", id |-> 0]

VARIABLES
  pc,            (* where each caller is in Do or DrainToQuiet            *)
  call,          (* the number of each caller's latest call, 0 before any *)
  ctxDone,       (* the caller's context is cancelled or expired          *)
  outcome,       (* what the latest call returned, or will return         *)
  decided,       (* the call whose frame decided that outcome, or 0       *)
  mu,            (* holder of e.mu                                        *)
  attempt,       (* the holder's attempt counter                          *)
  why,           (* which drain the holder is running                     *)
  discarded,     (* frames the holder's purge or drain threw away         *)
  suspect, contaminated,
  closed,        (* e.closed and e.closeCh                                *)
  port,          (* the OS-level port, closed once by closePort           *)
  fatalGate,     (* holder of e.fatalGate                                 *)
  published,     (* history: publishFatal has run to its Unlock           *)
  events,        (* e.events                                              *)
  rpc, chunk,    (* readLoop: where it is, what it has still to deliver   *)
  closer,        (* the goroutine calling Engine.Close                    *)
  radio, wire,   (* unanswered commands; frames on their way to the host  *)
  calls, class,  (* history: calls made so far and the class of each      *)
  sent,          (* history: how often each call's frame left the host    *)
  astray         (* history: a read has begun a retry since the last      *)
                 (* drain, other than a retry's own, that found quiet     *)

callerVars == <<pc, call, ctxDone, outcome, decided>>
doVars     == <<mu, attempt, why, discarded>>
flagVars   == <<suspect, contaminated>>
portVars   == <<closed, port, fatalGate, published>>
readVars   == <<rpc, chunk>>
lineVars   == <<radio, wire>>
histVars   == <<calls, class, sent, astray>>
vars == <<callerVars, doVars, flagVars, portVars, readVars, lineVars,
          histVars, events, closer>>

Init ==
  /\ pc = [c \in Callers |-> "idle"]
  /\ call = [c \in Callers |-> 0]
  /\ ctxDone = [c \in Callers |-> FALSE]
  /\ outcome = [c \in Callers |-> "none"]
  /\ decided = [c \in Callers |-> 0]
  /\ mu = "none" /\ attempt = 0 /\ why = "none" /\ discarded = 0
  /\ suspect = FALSE /\ contaminated = FALSE
  /\ closed = FALSE /\ port = "open" /\ fatalGate = "none" /\ published = FALSE
  /\ events = <<>> /\ rpc = "run" /\ chunk = <<>> /\ closer = "none"
  /\ radio = <<>> /\ wire = <<>>
  /\ calls = 0 /\ class = [i \in Calls |-> "unset"]
  /\ sent = [i \in Calls |-> 0] /\ astray = FALSE

-----------------------------------------------------------------------------
(* Steps shared by several actions.                                        *)

(* closePort: first call wins; the port itself is closed by PortClosed.    *)
ClosePort ==
  /\ closed' = TRUE
  /\ port' = IF closed THEN port ELSE "closing"

(* sync.Once lets every later caller of closePort go on only then.         *)
PortDone == port \in {"closed", "stuck"}

Goto(c, label) == pc' = [pc EXCEPT ![c] = label]

Decide(c, o, id) ==
  /\ outcome' = [outcome EXCEPT ![c] = o]
  /\ decided' = [decided EXCEPT ![c] = id]

(* Mutant: a missing Unlock.                                               *)
ReturnLocked(c) ==
  /\ Goto(c, "idle")
  /\ attempt' = 0 /\ why' = "none" /\ discarded' = 0 /\ UNCHANGED mu

(* Do or DrainToQuiet returns and the deferred e.mu.Unlock runs.           *)
Return(c) ==
  /\ Goto(c, "idle")
  /\ mu' = "none" /\ attempt' = 0 /\ why' = "none" /\ discarded' = 0

ReturnWith(c, o) == Return(c) /\ Decide(c, o, 0)

(* drainToQuietLocked, from its first line to its loop: w says who asked.  *)
StartDrain(c, w) ==
  /\ Goto(c, "drain")
  /\ why' = w /\ discarded' = 0

Class(c) == class[call[c]]
Match(c, e) == e.kind = (IF Class(c) = "Read" THEN "data" ELSE "ack")

-----------------------------------------------------------------------------
(* Do and DrainToQuiet.                                                    *)

StartCall(c, k) ==
  /\ pc[c] = "idle" /\ calls < MaxCalls
  /\ calls' = calls + 1
  /\ class' = [class EXCEPT ![calls + 1] = k]
  /\ call' = [call EXCEPT ![c] = calls + 1]
  /\ ctxDone' = [ctxDone EXCEPT ![c] = FALSE]
  /\ Decide(c, "none", 0)
  /\ Goto(c, "lock")
  /\ UNCHANGED <<doVars, flagVars, portVars, readVars, lineVars, sent, astray,
                 events, closer>>

CancelContext(c) ==
  /\ pc[c] \in {"lock", "purge", "wait", "drain"}  \* where Do looks at it next
  /\ ~ctxDone[c]
  /\ ctxDone' = [ctxDone EXCEPT ![c] = TRUE]
  /\ UNCHANGED <<pc, call, outcome, decided, doVars, flagVars, portVars, readVars,
                 lineVars, histVars, events, closer>>

(* Do's first ctx.Err check, before e.mu is taken.                         *)
RefuseDeadContext(c) ==
  /\ pc[c] = "lock" /\ ctxDone[c] /\ Class(c) # "Drain"
  /\ Goto(c, "idle") /\ Decide(c, "Ctx", 0)
  /\ UNCHANGED <<call, ctxDone, doVars, flagVars, portVars, readVars, lineVars,
                 histVars, events, closer>>

(* Mutants: the suspect marker or the contaminated flag ignored.           *)
SuspectIgnored    == ~contaminated
ContaminatedSends == ~suspect

MuFree        == mu = "none"
StreamTrusted == ~contaminated /\ ~suspect

(* e.mu is taken and released again: closed, or contaminated and not a drain. *)
RefuseAtEntry(c) ==
  /\ pc[c] = "lock" /\ MuFree
  /\ Goto(c, "idle")
  /\ \/ closed /\ Decide(c, "Closed", 0)
     \/ ~closed /\ contaminated /\ Class(c) # "Drain" /\ Decide(c, "Contaminated", 0)
  /\ UNCHANGED <<call, ctxDone, doVars, flagVars, portVars, readVars, lineVars,
                 histVars, events, closer>>

(* DrainToQuiet, and Do's entry drain when the last exchange left suspect. *)
EnterDrain(c) ==
  /\ pc[c] = "lock" /\ MuFree /\ ~closed
  /\ mu' = c
  /\ \/ Class(c) = "Drain" /\ StartDrain(c, "caller")
     \/ Class(c) # "Drain" /\ ~contaminated /\ suspect /\ StartDrain(c, "entry")
  /\ UNCHANGED <<call, ctxDone, outcome, decided, attempt, flagVars, portVars,
                 readVars, lineVars, histVars, events, closer>>

EnterPurge(c) ==
  /\ pc[c] = "lock" /\ MuFree /\ ~closed
  /\ Class(c) # "Drain" /\ StreamTrusted
  /\ mu' = c /\ Goto(c, "purge")
  /\ UNCHANGED <<call, ctxDone, outcome, decided, attempt, why, discarded,
                 flagVars, portVars, readVars, lineVars, histVars, events, closer>>

(* purgeBufferedLocked takes one buffered event.                           *)
PurgeEvent(c) ==
  /\ pc[c] = "purge" /\ events # <<>> /\ discarded < PurgeBound
  /\ events' = Tail(events)
  /\ \/ /\ Head(events).kind = "io"
        /\ ReturnWith(c, "Closed") /\ UNCHANGED contaminated
     \/ /\ Head(events).kind = "tooLong"
        /\ ReturnWith(c, "Contaminated") /\ contaminated' = TRUE
     \/ /\ Head(events).kind \notin {"io", "tooLong"}
        /\ discarded' = discarded + 1
        /\ UNCHANGED <<pc, outcome, decided, mu, attempt, why, contaminated>>
  /\ UNCHANGED <<call, ctxDone, suspect, portVars, readVars, lineVars, histVars,
                 closer>>

(* The purge ends, e.events empty or a bound reached, and Do looks at its  *)
(* context again.  A purge of a few frames that takes a whole Cap is part  *)
(* of what Punctual excludes.                                              *)
PurgeDone(c) ==
  /\ pc[c] = "purge"
  /\ events = <<>> \/ discarded >= PurgeBound \/ ~Punctual
  /\ \/ ctxDone[c] /\ ReturnWith(c, "Ctx")
     \/ /\ ~ctxDone[c] /\ Goto(c, "send") /\ discarded' = 0
        /\ attempt' = 1
        /\ UNCHANGED <<mu, why, outcome, decided>>
  /\ UNCHANGED <<call, ctxDone, flagVars, portVars, readVars, lineVars, histVars,
                 events, closer>>

(* The gate (AllowFunc) refuses the frame.                                 *)
Disallow(c) ==
  /\ pc[c] = "send"
  /\ ReturnWith(c, "Disallowed")
  /\ UNCHANGED <<call, ctxDone, flagVars, portVars, readVars, lineVars, histVars,
                 events, closer>>

(* Mutant: gatedWrite without the recheck of e.closed.                     *)
GateOpenUnchecked == FatalFraming => fatalGate = "none"

GateOpen == FatalFraming => fatalGate = "none" /\ ~closed

(* gatedWrite up to the start of Port.Write: with a FatalFramer, e.closed  *)
(* is read again under fatalGate; without one it is not.                   *)
BeginWrite(c) ==
  /\ pc[c] = "send"
  /\ GateOpen
  /\ port # "closed"
  /\ fatalGate' = IF FatalFraming THEN c ELSE fatalGate
  /\ Goto(c, "write")
  /\ UNCHANGED <<call, ctxDone, outcome, decided, doVars, flagVars, closed, port,
                 published, readVars, lineVars, histVars, events, closer>>

(* gatedWrite's recheck, or Port.Write itself, finds the engine closed.    *)
RefuseWrite(c) ==
  /\ pc[c] = "send"
  /\ IF FatalFraming THEN fatalGate = "none" /\ closed ELSE port = "closed"
  /\ ReturnWith(c, "Closed")
  /\ UNCHANGED <<call, ctxDone, flagVars, portVars, readVars, lineVars, histVars,
                 events, closer>>

Ungate(c) == fatalGate' = IF fatalGate = c THEN "none" ELSE fatalGate

(* Port.Write returns: the frame has left the host.                        *)
FrameLeaves(c) ==
  /\ pc[c] = "write"
  /\ sent' = [sent EXCEPT ![call[c]] = @ + 1]
  /\ radio' = Append(radio, call[c])
  /\ Ungate(c) /\ Goto(c, "wait")
  /\ UNCHANGED <<call, ctxDone, outcome, decided, doVars, flagVars, closed, port,
                 published, readVars, wire, calls, class, astray, events, closer>>

(* Port.Write fails: writeFrame closes the port, still inside the gate.    *)
WriteFails(c) ==
  /\ pc[c] = "write"
  /\ ClosePort /\ Goto(c, "failed")
  /\ UNCHANGED <<call, ctxDone, outcome, decided, doVars, flagVars, fatalGate,
                 published, readVars, lineVars, histVars, events, closer>>

(* Mutant: the write-error branch returns with fatalGate held.             *)
WriteFailedGated(c) ==
  /\ pc[c] = "failed" /\ PortDone
  /\ ReturnWith(c, "Closed")
  /\ UNCHANGED <<call, ctxDone, flagVars, portVars, readVars, lineVars, histVars,
                 events, closer>>

WriteFailed(c) ==
  /\ pc[c] = "failed" /\ PortDone
  /\ Ungate(c) /\ ReturnWith(c, "Closed")
  /\ UNCHANGED <<call, ctxDone, flagVars, closed, port, published, readVars,
                 lineVars, histVars, events, closer>>

(* Mutant: a terminal timeout forgets to mark the stream.                  *)
UncertainIfCancelled(o) == o = "Ctx"

(* The verdicts that leave a reply possibly on its way.                    *)
Uncertain(o) == o \in {"Ctx", "Timeout"}

(* Mutants: an acknowledged write that timed out is sent again too; one    *)
(* retry too many.                                                         *)
RetriesAnything(c, o) == o = "Timeout" /\ attempt =< RetryReads
RetriesOneMore(c, o)  == Class(c) = "Read" /\ o = "Timeout" /\ attempt =< RetryReads + 1

(* What Do does with the verdict of its wait: o, decided by call id's frame. *)
Retries(c, o) == Class(c) = "Read" /\ o = "Timeout" /\ attempt =< RetryReads

Quarantines(c, o) == Class(c) # "Read" /\ o \in {"Ok", "Rejected"}

Conclude(c, o, id) ==
  \/ /\ Retries(c, o)
     /\ StartDrain(c, "retry") /\ astray' = TRUE
     /\ UNCHANGED <<mu, attempt, outcome, decided, suspect>>
  \/ /\ Quarantines(c, o)
     /\ StartDrain(c, "after") /\ Decide(c, o, id)
     /\ UNCHANGED <<mu, attempt, suspect, astray>>
  \/ /\ ~Retries(c, o) /\ ~Quarantines(c, o)
     /\ Return(c) /\ Decide(c, o, id)
     /\ suspect' = (suspect \/ Uncertain(o))
     /\ UNCHANGED astray

(* Mutant: queued events are served before the deadline is looked at.      *)
WaitDeadlineStarved(c) ==
  /\ pc[c] = "wait" /\ events = <<>>
  /\ Conclude(c, IF Class(c) = "Write" THEN "Ok" ELSE "Timeout", 0)
  /\ UNCHANGED <<call, ctxDone, contaminated, portVars, readVars, lineVars,
                 calls, class, sent, events, closer>>

(* wait: the deadline is looked at before any queued event, so it ends the *)
(* wait whatever is queued.  For a ClassWrite silence is success.          *)
WaitDeadline(c) ==
  /\ pc[c] = "wait"
  /\ Conclude(c, IF Class(c) = "Write" THEN "Ok" ELSE "Timeout", 0)
  /\ UNCHANGED <<call, ctxDone, contaminated, portVars, readVars, lineVars,
                 calls, class, sent, events, closer>>

(* wait: one event, in the order of its tests.                             *)
WaitEvent(c) ==
  /\ pc[c] = "wait" /\ events # <<>>
  /\ events' = Tail(events)
  /\ LET e == Head(events) IN
     \/ e.kind = "io" /\ Conclude(c, "Closed", 0) /\ UNCHANGED contaminated
     \/ /\ e.kind = "tooLong"
        /\ Conclude(c, "Contaminated", 0) /\ contaminated' = TRUE
     \/ e.kind = "nak" /\ Conclude(c, "Rejected", e.id) /\ UNCHANGED contaminated
     \/ /\ Class(c) # "Write" /\ Match(c, e)
        /\ Conclude(c, "Ok", e.id) /\ UNCHANGED contaminated
     \/ /\ e.kind \notin {"io", "tooLong", "nak"}
        /\ Class(c) = "Write" \/ ~Match(c, e)
        /\ UNCHANGED <<pc, outcome, decided, doVars, flagVars, astray>>
  /\ UNCHANGED <<call, ctxDone, portVars, readVars, lineVars, calls, class, sent,
                 closer>>

(* Mutant: the select may prefer closeCh to a queued event.                *)
WaitClosedEarly(c) ==
  /\ pc[c] = "wait" /\ closed
  /\ Conclude(c, "Closed", 0)
  /\ UNCHANGED <<call, ctxDone, contaminated, portVars, readVars, lineVars,
                 calls, class, sent, events, closer>>

(* nextEventAfterClose: closure is reported once the queue is empty.       *)
WaitClosed(c) ==
  /\ pc[c] = "wait" /\ closed /\ events = <<>>
  /\ Conclude(c, "Closed", 0)
  /\ UNCHANGED <<call, ctxDone, contaminated, portVars, readVars, lineVars,
                 calls, class, sent, events, closer>>

WaitCancelled(c) ==
  /\ pc[c] = "wait" /\ ctxDone[c]
  /\ Conclude(c, "Ctx", 0)
  /\ UNCHANGED <<call, ctxDone, contaminated, portVars, readVars, lineVars,
                 calls, class, sent, events, closer>>

-----------------------------------------------------------------------------
(* drainToQuietLocked.  Its context is the caller's own for a retry and    *)
(* for DrainToQuiet, a fresh one for the two quarantines.                  *)

DrainEvent(c) ==
  /\ pc[c] = "drain" /\ events # <<>> /\ Head(events).kind # "io"
  /\ events' = Tail(events) /\ discarded' = 1
  /\ UNCHANGED <<callerVars, mu, attempt, why, flagVars, portVars, readVars,
                 lineVars, histVars, closer>>

(* A whole IdleGap passed in silence.                                      *)
Silent == Punctual => radio = <<>> /\ wire = <<>> /\ chunk = <<>>

DrainQuiet(c) ==
  /\ pc[c] = "drain" /\ Silent
  /\ contaminated' = FALSE /\ suspect' = FALSE
  /\ astray' = (astray /\ why = "retry")
  /\ \/ why = "caller" /\ ReturnWith(c, "Ok")
     \/ why = "after" /\ Return(c) /\ UNCHANGED <<outcome, decided>>
     \/ /\ why = "entry" /\ Goto(c, "purge") /\ why' = "none" /\ discarded' = 0
        /\ UNCHANGED <<outcome, decided, mu, attempt>>
     \/ /\ why = "retry" /\ Goto(c, "send") /\ why' = "none" /\ discarded' = 0
        /\ attempt' = attempt + 1
        /\ UNCHANGED <<outcome, decided, mu>>
  /\ UNCHANGED <<call, ctxDone, portVars, readVars, lineVars, calls, class, sent,
                 events, closer>>

(* The drain failed with o: each of its four callers treats that its way.  *)
DrainFails(c, o) ==
  /\ Return(c)
  /\ \/ why \in {"caller", "retry"} /\ Decide(c, o, 0) /\ UNCHANGED suspect
     \/ why = "entry" /\ Decide(c, "QuarantineFailed", 0) /\ UNCHANGED suspect
     \/ why = "after" /\ suspect' = TRUE /\ UNCHANGED <<outcome, decided>>
  /\ UNCHANGED <<call, ctxDone, contaminated, portVars, readVars, lineVars,
                 histVars, closer>>

(* Only a drain that heard something can fail to find an IdleGap by Cap.   *)
DrainCapReached(c) ==
  /\ pc[c] = "drain" /\ discarded > 0
  /\ DrainFails(c, "DrainCap") /\ UNCHANGED events

(* Closed is seen on entry, as a queued error, or once e.events is empty.  *)
DrainClosed(c) ==
  /\ pc[c] = "drain"
  /\ \/ events # <<>> /\ Head(events).kind = "io" /\ events' = Tail(events)
     \/ closed /\ (discarded = 0 \/ events = <<>>) /\ UNCHANGED events
  /\ DrainFails(c, "Closed")

DrainCancelled(c) ==
  /\ pc[c] = "drain" /\ why \in {"caller", "retry"} /\ ctxDone[c]
  /\ DrainFails(c, "Ctx") /\ UNCHANGED events

-----------------------------------------------------------------------------
(* readLoop.                                                               *)

(* Port.Read brings n frames, possibly with an error in the same call.     *)
(* Push returns the m frames before the first over-long run, reports that  *)
(* run and discards the rest.  fatalCause looks at all m frames first, and *)
(* one fatal frame suppresses the whole chunk.                             *)
ReadChunk(n, m, lost) ==
  /\ rpc = "run" /\ chunk = <<>> /\ n =< Len(wire) /\ m =< n
  /\ \A i \in 1 .. m : wire[i].kind # "garbage"
  /\ m < n => wire[m + 1].kind = "garbage"
  /\ wire' = SubSeq(wire, n + 1, Len(wire))
  /\ IF FatalFraming /\ \E i \in 1 .. m : wire[i].kind = "fatal"
     THEN rpc' = "publish" /\ UNCHANGED chunk
     ELSE /\ chunk' = SubSeq(wire, 1, m) \o (IF m < n THEN <<TooLong>> ELSE <<>>)
                                        \o (IF lost THEN <<IoError>> ELSE <<>>)
          /\ UNCHANGED rpc
  /\ UNCHANGED <<callerVars, doVars, flagVars, portVars, radio, histVars,
                 events, closer>>

ReadError ==
  /\ rpc = "run" /\ chunk = <<>>
  /\ chunk' = <<IoError>>
  /\ UNCHANGED <<callerVars, doVars, flagVars, portVars, rpc, lineVars, histVars,
                 events, closer>>

(* Mutants: a send that does not wait for room; one that nothing releases. *)
RoomAlways   == TRUE
ReleaseNever == FALSE

Room     == Len(events) < EventCap
Released == closed

(* sendEvent: a blocking send that the closing of closeCh releases.        *)
SendEvent ==
  /\ rpc = "run" /\ chunk # <<>> /\ Head(chunk).kind # "io"
  /\ \/ /\ Room
        /\ events' = Append(events, Head(chunk)) /\ chunk' = Tail(chunk)
        /\ UNCHANGED rpc
     \/ /\ Released
        /\ rpc' = "done" /\ chunk' = <<>> /\ UNCHANGED events
  /\ UNCHANGED <<callerVars, doVars, flagVars, portVars, lineVars, histVars, closer>>

(* A read error: closePort first, then a best-effort send.                 *)
ReaderCloses ==
  /\ rpc = "run" /\ chunk # <<>> /\ Head(chunk).kind = "io"
  /\ ClosePort /\ rpc' = "closing"
  /\ UNCHANGED <<callerVars, doVars, flagVars, fatalGate, published, chunk,
                 lineVars, histVars, events, closer>>

ReaderClosed ==
  /\ rpc = "closing" /\ PortDone
  /\ rpc' = "last"
  /\ UNCHANGED <<callerVars, doVars, flagVars, portVars, chunk, lineVars, histVars,
                 events, closer>>

(* publishFatal, to its closePort and to its Unlock.                       *)
Publish ==
  /\ rpc = "publish" /\ fatalGate = "none"
  /\ fatalGate' = "reader" /\ ClosePort
  /\ rpc' = "publishing"
  /\ UNCHANGED <<callerVars, doVars, flagVars, published, chunk, lineVars, histVars,
                 events, closer>>

Published ==
  /\ rpc = "publishing" /\ PortDone
  /\ fatalGate' = "none" /\ published' = TRUE
  /\ rpc' = "last"
  /\ UNCHANGED <<callerVars, doVars, flagVars, closed, port, chunk, lineVars,
                 histVars, events, closer>>

LastEvent ==
  /\ rpc = "last"
  /\ rpc' = "done" /\ chunk' = <<>>
  /\ \/ Room /\ events' = Append(events, IoError)
     \/ UNCHANGED events
  /\ UNCHANGED <<callerVars, doVars, flagVars, portVars, lineVars, histVars, closer>>

Reader ==
  \/ \E n \in 1 .. ChunkMax, m \in 0 .. ChunkMax, lost \in BOOLEAN :
       ReadChunk(n, m, lost)
  \/ ReadError \/ SendEvent \/ ReaderCloses \/ ReaderClosed
  \/ Publish \/ Published \/ LastEvent

-----------------------------------------------------------------------------
(* Engine.Close, and the port closing underneath closePort.                *)

CloseEngine ==
  /\ closer = "none"
  /\ ClosePort /\ closer' = "joining"
  /\ UNCHANGED <<callerVars, doVars, flagVars, fatalGate, published, readVars,
                 lineVars, histVars, events>>

CloseReturns ==
  /\ closer = "joining" /\ PortDone /\ rpc = "done"
  /\ closer' = "joined"
  /\ UNCHANGED <<callerVars, doVars, flagVars, portVars, readVars, lineVars,
                 histVars, events>>

(* Port.Close returns: with an error the port may still carry bytes.       *)
PortClosed ==
  /\ port = "closing"
  /\ port' \in {"closed", "stuck"}
  /\ UNCHANGED <<callerVars, doVars, flagVars, closed, fatalGate, published,
                 readVars, lineVars, histVars, events, closer>>

-----------------------------------------------------------------------------
(* The environment: a radio that takes commands in order and answers each  *)
(* at most once, and that may send unsolicited frames at any time.         *)

Replies(k) == CASE k = "Read" -> {"data", "nak"}
                [] k = "Ack"  -> {"ack", "nak"}
                [] OTHER      -> {"nak"}

RadioReply ==
  /\ radio # <<>>
  /\ radio' = Tail(radio)
  /\ \/ UNCHANGED wire
     \/ /\ Len(wire) < WireCap
        /\ \E k \in Replies(class[Head(radio)]) :
             wire' = Append(wire, [kind |-> k, id |-> Head(radio)])
  /\ UNCHANGED <<callerVars, doVars, flagVars, portVars, readVars, histVars, events,
                 closer>>

RadioUnsolicited(k) ==
  /\ Len(wire) < WireCap
  /\ wire' = Append(wire, [kind |-> k, id |-> 0])
  /\ UNCHANGED <<callerVars, doVars, flagVars, portVars, readVars, radio, histVars,
                 events, closer>>

-----------------------------------------------------------------------------

Step(c) ==
  \/ RefuseDeadContext(c) \/ RefuseAtEntry(c) \/ EnterDrain(c) \/ EnterPurge(c)
  \/ PurgeEvent(c) \/ PurgeDone(c)
  \/ Disallow(c) \/ BeginWrite(c) \/ RefuseWrite(c)
  \/ FrameLeaves(c) \/ WriteFails(c) \/ WriteFailed(c)
  \/ WaitDeadline(c) \/ WaitEvent(c) \/ WaitClosed(c) \/ WaitCancelled(c)
  \/ DrainEvent(c) \/ DrainQuiet(c) \/ DrainCapReached(c) \/ DrainClosed(c)
  \/ DrainCancelled(c)

Next ==
  \/ \E c \in Callers, k \in CallKinds : StartCall(c, k)
  \/ \E c \in Callers : CancelContext(c) \/ Step(c)
  \/ Reader \/ CloseEngine \/ CloseReturns \/ PortClosed
  \/ RadioReply \/ \E k \in Unsolicited : RadioUnsolicited(k)

Spec == Init /\ [][Next]_vars

-----------------------------------------------------------------------------
(* Fairness, for the liveness properties only.  Runnable goroutines run, a *)
(* deadline or an idle gap that a call waits for comes, Port.Write and     *)
(* Port.Close return, the reader keeps reading what arrives and sees the   *)
(* port close.  Nothing makes a context die, a device fail, a radio talk   *)
(* unasked, or anybody call Do or Close.                                   *)
Fairness ==
  /\ \A c \in Callers :
       /\ WF_vars(Step(c))
       /\ WF_vars(WaitDeadline(c))
       /\ WF_vars(DrainQuiet(c)) /\ WF_vars(DrainCapReached(c))
  /\ WF_vars(\E n \in 1 .. ChunkMax, m \in 0 .. ChunkMax : ReadChunk(n, m, FALSE))
  /\ WF_vars(closed /\ ReadError)
  /\ WF_vars(SendEvent) /\ WF_vars(ReaderCloses) /\ WF_vars(ReaderClosed)
  /\ WF_vars(Publish) /\ WF_vars(Published) /\ WF_vars(LastEvent)
  /\ WF_vars(PortClosed) /\ WF_vars(CloseReturns) /\ WF_vars(RadioReply)

FairSpec == Spec /\ Fairness

-----------------------------------------------------------------------------
(* Properties.                                                             *)

CallerTypes ==
  /\ pc \in [Callers -> Labels]
  /\ call \in [Callers -> 0 .. MaxCalls] /\ ctxDone \in [Callers -> BOOLEAN]
  /\ outcome \in [Callers -> Outcomes] /\ decided \in [Callers -> 0 .. MaxCalls]
HolderTypes ==
  /\ mu \in Callers \cup {"none"} /\ attempt \in 0 .. RetryReads + 1
  /\ why \in Reasons /\ discarded \in Nat
  /\ suspect \in BOOLEAN /\ contaminated \in BOOLEAN
PortTypes ==
  /\ closed \in BOOLEAN /\ port \in {"open", "closing", "closed", "stuck"}
  /\ fatalGate \in Callers \cup {"none", "reader"} /\ published \in BOOLEAN
  /\ closer \in {"none", "joining", "joined"}
ReaderTypes ==
  /\ events \in Seq(Events) /\ Len(events) =< EventCap
  /\ rpc \in {"run", "publish", "publishing", "closing", "last", "done"}
  /\ chunk \in Seq(Events)
LineTypes ==
  /\ radio \in Seq(Calls) /\ wire \in Seq(Frames)
  /\ calls \in 0 .. MaxCalls /\ class \in [Calls -> Classes \cup {"unset"}]
  /\ sent \in [Calls -> Nat] /\ astray \in BOOLEAN

(* Every variable has its type; the queues respect their capacities.       *)
TypeOK == CallerTypes /\ HolderTypes /\ PortTypes /\ ReaderTypes /\ LineTypes

(* No answer and no rejection is credited to a call that did not cause it, *)
(* as long as the radio is Punctual: the purge, the post-write drain and   *)
(* the suspect marker together keep a late reply away from later calls.    *)
(* The exception is a line on which a read has begun a retry: Do leaves    *)
(* its reply unmarked when the retry's drain fails, and a second reply     *)
(* behind the first when the late answer to one attempt satisfies the      *)
(* next; every later exchange may then be one reply behind until a drain.  *)
ReplyIsOwn ==
  [][(Punctual /\ ~astray) =>
       \A c \in Callers : decided'[c] \in {0, call'[c], decided[c]}]_vars

(* doc.go, "Inter-transaction quarantine": a stale reply belonging to an   *)
(* abandoned exchange is never trusted as the answer to a new command.     *)
StaleReplyNeverTrusted ==
  Punctual => \A c \in Callers : decided[c] \in {0, call[c]}

Ids(frames) == {frames[i].id : i \in DOMAIN frames} \ {0}

(* The calls that have a reply still on its way to e.events.               *)
Outstanding == {radio[i] : i \in DOMAIN radio} \cup Ids(wire) \cup Ids(chunk)

(* Between exchanges, an open and uncontaminated engine that is not        *)
(* suspect has no reply outstanding: Do left nobody's answer behind        *)
(* without marking it (again but for a read that began a retry).           *)
AbandonedIsSuspect ==
  (Punctual /\ mu = "none" /\ ~closed /\ ~contaminated /\ ~suspect)
    => astray \/ Outstanding = {}

(* Safety obligation 2: a write leaves the host at most once, whatever     *)
(* times out or fails, and a read at most once more than its retries.      *)
NeverResent ==
  \A i \in Calls : sent[i] =< (IF class[i] = "Read" THEN RetryReads + 1 ELSE 1)

(* The FatalFramer guarantee: no frame leaves the host once publishFatal   *)
(* has released fatalGate, even when Port.Close failed and the port would  *)
(* still carry bytes.                                                      *)
NoFrameAfterFatal == [][published => sent' = sent]_vars

(* Nothing is written into a stream whose frame boundaries are lost, on    *)
(* the first attempt or on a retry.                                        *)
NoWriteWhileContaminated == [][contaminated => sent' = sent]_vars

(* A reply that readLoop queued before the port went away is not lost to   *)
(* the closure: a wait that is told of the closure, and not by its own     *)
(* deadline, leaves no matching frame in e.events.                         *)
ClosureHidesNoReply ==
  [][\A c \in Callers :
       (pc[c] = "wait" /\ outcome'[c] = "Closed" /\ Class(c) # "Write")
         => \A i \in DOMAIN events' : ~Match(c, events'[i])]_vars

(* Only the holder of e.mu is past it, and only one caller holds it.       *)
OneExchangeAtATime ==
  \A c \in Callers : pc[c] \notin {"idle", "lock"} => mu = c

(* Every Do and every DrainToQuiet returns: no flood of frames, dead port, *)
(* full event queue or lock held elsewhere keeps one waiting for ever.     *)
CallsReturn == \A c \in Callers : pc[c] = "lock" ~> pc[c] = "idle"

(* Close always gets to join the reader goroutine, whether that one was    *)
(* reading, blocked on a full e.events, or publishing a fatal frame.       *)
CloseJoins == closer = "joining" ~> closer = "joined"

(* The engine implements SerialExchange.                                   *)
Phase(c) == CASE pc[c] = "idle" -> "idle"
              [] pc[c] = "lock" -> "waiting"
              [] OTHER          -> "exchange"

Exchange == INSTANCE SerialExchange WITH
  phase  <- [c \in Callers |-> Phase(c)],
  result <- [c \in Callers |-> IF pc[c] = "idle" THEN outcome[c] ELSE "none"],
  over   <- published

(* Seen from its callers the engine is the abstract exchange: one at a     *)
(* time, never a frame too many, and a truthful result.                    *)
ImplementsExchange == Exchange!Spec

=============================================================================
