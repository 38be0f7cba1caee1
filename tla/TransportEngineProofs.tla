------------------------ MODULE TransportEngineProofs ------------------------
(***************************************************************************)
(* What holds of TransportEngine for every number of callers and calls,    *)
(* every capacity, bound and class of framing.                             *)
(*                                                                         *)
(* The inductive invariant IInv is a conjunction of six parts, each with a *)
(* lemma for its initial state, for the steps of a caller and for the      *)
(* others: TypeOK; LockInv, who holds e.mu; TrustInv, what an exchange may *)
(* assume of the stream it writes into; GateInv, the handshake of the      *)
(* write gate with publishFatal; SentInv, how often each frame has left    *)
(* the host against the attempt counter; TruthInv, what a caller may be    *)
(* told at each point of its exchange.                                     *)
(***************************************************************************)
EXTENDS TransportEngine, TLAPS, SequenceTheorems

-----------------------------------------------------------------------------
(* The parts of the inductive invariant.                                   *)

Busy == {"purge", "send", "write", "failed", "wait", "drain"}

(* Whoever is past the Lock of e.mu is its holder, is serving a call, and  *)
(* retries only while attempts are left.                                   *)
LockInv ==
  /\ \A c \in Callers : pc[c] \in Busy => mu = c
  /\ \A c \in Callers : pc[c] # "idle" => call[c] \in Calls
  /\ \A c \in Callers : pc[c] = "drain" /\ why = "retry" => attempt =< RetryReads

(* An exchange past its entry checks has a stream with frame boundaries.   *)
TrustInv == \A c \in Callers : pc[c] \in {"purge", "send", "write"} => ~contaminated

(* With a FatalFramer a write in progress holds fatalGate, so readLoop     *)
(* publishes only between writes, and closed stays TRUE from then on.      *)
GateInv ==
  /\ FatalFraming => \A c \in Callers : pc[c] \in {"write", "failed"} => fatalGate = c
  /\ rpc \in {"publish", "publishing"} => FatalFraming
  /\ rpc = "publishing" => fatalGate = "reader" /\ closed
  /\ published => FatalFraming /\ closed /\ rpc \in {"last", "done"}
  /\ published => \A c \in Callers : pc[c] # "write"

(* Calls are numbered apart, and a call not yet made has sent nothing.     *)
CallsDistinct ==
  /\ \A c \in Callers : call[c] =< calls
  /\ \A c, d \in Callers : c # d /\ call[c] = call[d] => call[c] = 0
  /\ \A i \in Calls : i > calls => sent[i] = 0 /\ class[i] = "unset"

(* The frames a call has sent so far, by where its caller is.              *)
Counted(c) ==
  /\ pc[c] \in {"lock", "purge"} => sent[call[c]] = 0
  /\ pc[c] = "drain" /\ why \in {"caller", "entry"} => sent[call[c]] = 0
  /\ pc[c] \in {"send", "write"} => sent[call[c]] = attempt - 1
  /\ pc[c] = "wait" => sent[call[c]] = attempt
  /\ pc[c] = "drain" /\ why = "retry" => sent[call[c]] = attempt /\ Class(c) = "Read"
  /\ pc[c] \in {"send", "write", "wait"} /\ Class(c) # "Read" => attempt = 1

SentInv == CallsDistinct /\ NeverResent /\ \A c \in Callers : Counted(c)

(* Which class of call can be where, and what a post-write drain holds     *)
(* back to return.                                                         *)
Truth(c) ==
  /\ pc[c] # "idle" => Class(c) \in Classes
  /\ pc[c] \in {"purge", "send", "write", "failed", "wait"} => Class(c) # "Drain"
  /\ pc[c] = "drain" => why # "none" /\ (why = "caller" <=> Class(c) = "Drain")
  /\ pc[c] \in {"send", "write", "wait"} => attempt > 0
  /\ pc[c] = "drain" /\ why = "retry" => attempt > 0
  /\ pc[c] = "drain" /\ why = "after" =>
       outcome[c] \in {"Ok", "Rejected"} /\ sent[call[c]] > 0

TruthInv == \A c \in Callers : Truth(c)

IInv == TypeOK /\ LockInv /\ TrustInv /\ GateInv /\ SentInv /\ TruthInv

-----------------------------------------------------------------------------
(* Facts the proofs use throughout.                                        *)

(* Every name the actions write is a member of its set.                    *)
LEMMA Names ==
  /\ {"idle", "lock", "purge", "send", "write", "failed", "wait", "drain"} \subseteq Labels
  /\ {"none", "caller", "entry", "retry", "after"} \subseteq Reasons
  /\ {"none", "Ok", "Rejected", "Timeout", "Ctx", "Closed", "Contaminated",
      "Disallowed", "QuarantineFailed", "DrainCap"} \subseteq Outcomes
BY DEF Labels, Reasons, Outcomes

(* The constants that bound something are natural numbers.                 *)
LEMMA Bounds == MaxCalls \in Nat /\ RetryReads \in Nat /\ EventCap \in Nat
BY EngineAssumption DEF EngineAssumption

(* The two names that are not callers hold nothing on a caller's behalf.   *)
LEMMA NoSuchCaller == "none" \notin Callers /\ "reader" \notin Callers
BY EngineAssumption DEF EngineAssumption

(* The head and the tail of a non-empty queue.                             *)
LEMMA SeqHeadTail ==
  ASSUME NEW S, NEW s \in Seq(S), s # <<>>
  PROVE  Head(s) \in S /\ Tail(s) \in Seq(S) /\ Len(s) \in Nat /\ Len(Tail(s)) = Len(s) - 1
BY HeadTailProperties

(* The two errors a readerEvent carries are events.                        *)
LEMMA Markers == TooLong \in Events /\ IoError \in Events
BY Bounds DEF TooLong, IoError, Events

-----------------------------------------------------------------------------
(* TypeOK.                                                                 *)

LEMMA TypeInit == Init => TypeOK
<1> SUFFICES ASSUME Init PROVE TypeOK
  OBVIOUS
<1>1. CallerTypes  BY Names, Bounds DEF Init, CallerTypes
<1>2. HolderTypes
  <2>1. why \in Reasons /\ discarded \in Nat /\ mu \in Callers \cup {"none"}
    BY Names DEF Init
  <2>2. attempt \in 0 .. RetryReads + 1
    BY Bounds DEF Init
  <2>3. suspect \in BOOLEAN /\ contaminated \in BOOLEAN
    BY DEF Init
  <2> QED BY <2>1, <2>2, <2>3 DEF HolderTypes
<1>3. PortTypes    BY DEF Init, PortTypes
<1>4. ReaderTypes  BY Bounds, EmptySeq DEF Init, ReaderTypes
<1>5. LineTypes
  <2>1. radio \in Seq(Calls) /\ wire \in Seq(Frames)
    BY EmptySeq DEF Init
  <2>2. calls \in 0 .. MaxCalls /\ sent \in [Calls -> Nat]
    BY Bounds DEF Init
  <2>3. class \in [Calls -> Classes \cup {"unset"}]
    BY DEF Init
  <2>4. astray \in BOOLEAN
    BY DEF Init
  <2> QED BY <2>1, <2>2, <2>3, <2>4 DEF LineTypes
<1> QED BY <1>1, <1>2, <1>3, <1>4, <1>5 DEF TypeOK

(* A caller that moves on, with or without a verdict, keeps its types.      *)
LEMMA CallerMoves ==
  ASSUME CallerTypes, NEW c \in Callers, NEW l \in Labels, Goto(c, l),
         UNCHANGED <<call, ctxDone>>,
         \/ UNCHANGED <<outcome, decided>>
         \/ \E o \in Outcomes, id \in 0 .. MaxCalls : Decide(c, o, id)
  PROVE  CallerTypes'
BY DEF CallerTypes, Goto, Decide

(* Return, whatever the call returns.                                       *)
LEMMA CallerReturns ==
  ASSUME CallerTypes, HolderTypes, NEW c \in Callers, Return(c),
         UNCHANGED <<call, ctxDone>>, suspect' \in BOOLEAN, contaminated' \in BOOLEAN,
         \/ UNCHANGED <<outcome, decided>>
         \/ \E o \in Outcomes, id \in 0 .. MaxCalls : Decide(c, o, id)
  PROVE  CallerTypes' /\ HolderTypes'
<1>1. CallerTypes'  BY CallerMoves, Names DEF Return
<1>2. HolderTypes'  BY Names, Bounds DEF HolderTypes, Return
<1> QED  BY <1>1, <1>2

(* StartDrain, whoever asked for it.                                        *)
LEMMA CallerDrains ==
  ASSUME CallerTypes, HolderTypes, NEW c \in Callers, NEW w \in Reasons, StartDrain(c, w),
         UNCHANGED <<call, ctxDone, attempt>>, mu' \in Callers \cup {"none"},
         suspect' \in BOOLEAN, contaminated' \in BOOLEAN,
         \/ UNCHANGED <<outcome, decided>>
         \/ \E o \in Outcomes, id \in 0 .. MaxCalls : Decide(c, o, id)
  PROVE  CallerTypes' /\ HolderTypes'
<1>1. CallerTypes'  BY CallerMoves, Names DEF StartDrain
<1>2. HolderTypes'  BY DEF HolderTypes, StartDrain
<1> QED  BY <1>1, <1>2

(* Conclude, whatever the wait ended with.                                  *)
LEMMA ConcludeTypes ==
  ASSUME CallerTypes, HolderTypes, LineTypes,
         NEW c \in Callers, NEW o \in Outcomes, NEW id \in 0 .. MaxCalls,
         Conclude(c, o, id), contaminated' \in BOOLEAN,
         UNCHANGED <<call, ctxDone, radio, wire, calls, class, sent>>
  PROVE  CallerTypes' /\ HolderTypes' /\ LineTypes'
<1>1. suspect' \in BOOLEAN /\ astray' \in BOOLEAN /\ suspect \in BOOLEAN
  BY DEF Conclude, Uncertain, HolderTypes, LineTypes
<1>2. mu \in Callers \cup {"none"}
  BY DEF HolderTypes
<1>3. CallerTypes' /\ HolderTypes'
  <2>1. CASE StartDrain(c, "retry") /\ UNCHANGED <<mu, attempt, outcome, decided, suspect>>
    BY <1>1, <1>2, <2>1, CallerDrains, Names
  <2>2. CASE StartDrain(c, "after") /\ Decide(c, o, id) /\ UNCHANGED <<mu, attempt, suspect, astray>>
    BY <1>1, <1>2, <2>2, CallerDrains, Names
  <2>3. CASE Return(c) /\ Decide(c, o, id)
    BY <1>1, <2>3, CallerReturns
  <2> QED BY <2>1, <2>2, <2>3 DEF Conclude
<1>4. LineTypes'
  BY <1>1 DEF LineTypes, Conclude
<1> QED BY <1>3, <1>4

(* DrainFails, whatever made the drain fail.                                *)
LEMMA DrainFailsTypes ==
  ASSUME CallerTypes, HolderTypes, PortTypes, LineTypes, NEW c \in Callers, NEW o \in Outcomes,
         DrainFails(c, o)
  PROVE  CallerTypes' /\ HolderTypes' /\ PortTypes' /\ LineTypes'
<1>1. suspect' \in BOOLEAN /\ contaminated' \in BOOLEAN
  BY DEF DrainFails, HolderTypes
<1>2. CallerTypes' /\ HolderTypes'
  BY <1>1, CallerReturns, Names, Bounds DEF DrainFails
<1>3. PortTypes' /\ LineTypes'
  BY DEF DrainFails, PortTypes, LineTypes, portVars, lineVars, histVars
<1> QED BY <1>2, <1>3

(* A step of a caller inside its call.                                     *)
LEMMA StepTypes ==
  ASSUME TypeOK, LockInv, NEW c \in Callers, Step(c)
  PROVE  TypeOK'
<1> USE DEF callerVars, doVars, flagVars, portVars, lineVars, readVars, histVars
<1> SUFFICES ASSUME CallerTypes, HolderTypes, PortTypes, ReaderTypes, LineTypes
             PROVE  CallerTypes' /\ HolderTypes' /\ PortTypes' /\ ReaderTypes' /\ LineTypes'
  BY DEF TypeOK
<1>1. CASE RefuseDeadContext(c)
  <2>1. CallerTypes'
    BY <1>1, Names, Bounds DEF CallerTypes, RefuseDeadContext, Goto, Decide
  <2> QED
    BY <1>1, <2>1 DEF RefuseDeadContext, HolderTypes, PortTypes, ReaderTypes,
         LineTypes
<1>2. CASE RefuseAtEntry(c)
  <2>1. CallerTypes'
    BY <1>2, Names, Bounds DEF CallerTypes, RefuseAtEntry, Goto, Decide
  <2> QED
    BY <1>2, <2>1 DEF RefuseAtEntry, HolderTypes, PortTypes, ReaderTypes,
         LineTypes
<1>3. CASE EnterDrain(c)
  <2>1. CallerTypes'
    BY <1>3, Names DEF CallerTypes, EnterDrain, StartDrain, Goto
  <2>2. HolderTypes'
    BY <1>3, Names DEF HolderTypes, EnterDrain, StartDrain
  <2> QED
    BY <1>3, <2>1, <2>2 DEF EnterDrain, PortTypes, ReaderTypes, LineTypes
<1>4. CASE EnterPurge(c)
  <2>1. CallerTypes'
    BY <1>4, Names DEF CallerTypes, EnterPurge, Goto
  <2>2. HolderTypes'
    BY <1>4 DEF HolderTypes, EnterPurge
  <2> QED
    BY <1>4, <2>1, <2>2 DEF EnterPurge, PortTypes, ReaderTypes, LineTypes
<1>5. CASE PurgeEvent(c)
  <2>1. CallerTypes' /\ HolderTypes'
    <3>1. CASE ReturnWith(c, "Closed") /\ UNCHANGED contaminated
      BY <1>5, <3>1, CallerReturns, Names, Bounds DEF PurgeEvent, ReturnWith,
           HolderTypes
    <3>2. CASE ReturnWith(c, "Contaminated") /\ contaminated' = TRUE
      BY <1>5, <3>2, CallerReturns, Names, Bounds DEF PurgeEvent, ReturnWith,
           HolderTypes
    <3>3. CASE discarded' = discarded + 1 /\ UNCHANGED <<pc, outcome, decided, mu, attempt, why, contaminated>>
      BY <1>5, <3>3 DEF PurgeEvent, CallerTypes, HolderTypes
    <3> QED BY <1>5, <3>1, <3>2, <3>3 DEF PurgeEvent
  <2>2. ReaderTypes'
    BY <1>5, SeqHeadTail, Bounds DEF ReaderTypes, PurgeEvent
  <2> QED
    BY <1>5, <2>1, <2>2 DEF PurgeEvent, PortTypes, LineTypes
<1>6. CASE PurgeDone(c)
  <2>1. CallerTypes' /\ HolderTypes'
    <3>1. CASE ReturnWith(c, "Ctx")
      BY <1>6, <3>1, CallerReturns, Names, Bounds DEF PurgeDone, ReturnWith,
           HolderTypes
    <3>2. CASE Goto(c, "send") /\ discarded' = 0 /\ attempt' = 1 /\ UNCHANGED <<mu, why, outcome, decided>>
      BY <1>6, <3>2, CallerMoves, Names, Bounds DEF PurgeDone, HolderTypes
    <3> QED BY <1>6, <3>1, <3>2 DEF PurgeDone
  <2> QED
    BY <1>6, <2>1 DEF PurgeDone, PortTypes, ReaderTypes, LineTypes
<1>7. CASE Disallow(c)
  <2>1. CallerTypes'
    BY <1>7, Names, Bounds DEF CallerTypes, Disallow, ReturnWith, Return,
         Decide, Goto
  <2>2. HolderTypes'
    BY <1>7, Names, Bounds DEF HolderTypes, Disallow, ReturnWith, Return
  <2> QED
    BY <1>7, <2>1, <2>2 DEF Disallow, PortTypes, ReaderTypes, LineTypes
<1>8. CASE BeginWrite(c)
  <2>1. CallerTypes'
    BY <1>8, Names DEF CallerTypes, BeginWrite, Goto
  <2>2. PortTypes'
    BY <1>8 DEF PortTypes, BeginWrite
  <2> QED
    BY <1>8, <2>1, <2>2 DEF BeginWrite, HolderTypes, ReaderTypes, LineTypes
<1>9. CASE RefuseWrite(c)
  <2>1. CallerTypes'
    BY <1>9, Names, Bounds DEF CallerTypes, RefuseWrite, ReturnWith, Return,
         Decide, Goto
  <2>2. HolderTypes'
    BY <1>9, Names, Bounds DEF HolderTypes, RefuseWrite, ReturnWith, Return
  <2> QED
    BY <1>9, <2>1, <2>2 DEF RefuseWrite, PortTypes, ReaderTypes, LineTypes
<1>10. CASE FrameLeaves(c)
  <2>1. CallerTypes'
    BY <1>10, Names DEF CallerTypes, FrameLeaves, Goto
  <2>2. PortTypes'
    BY <1>10 DEF PortTypes, FrameLeaves, Ungate
  <2>3. LineTypes'
    BY <1>10 DEF LineTypes, FrameLeaves, LockInv
  <2> QED
    BY <1>10, <2>1, <2>2, <2>3 DEF FrameLeaves, HolderTypes, ReaderTypes
<1>11. CASE WriteFails(c)
  <2>1. CallerTypes'
    BY <1>11, Names DEF CallerTypes, WriteFails, Goto
  <2>2. PortTypes'
    BY <1>11 DEF PortTypes, WriteFails, ClosePort
  <2> QED
    BY <1>11, <2>1, <2>2 DEF WriteFails, HolderTypes, ReaderTypes, LineTypes
<1>12. CASE WriteFailed(c)
  <2>1. CallerTypes'
    BY <1>12, Names, Bounds DEF CallerTypes, WriteFailed, ReturnWith, Return,
         Decide, Goto
  <2>2. HolderTypes'
    BY <1>12, Names, Bounds DEF HolderTypes, WriteFailed, ReturnWith, Return
  <2>3. PortTypes'
    BY <1>12 DEF PortTypes, WriteFailed, Ungate
  <2> QED
    BY <1>12, <2>1, <2>2, <2>3 DEF WriteFailed, ReaderTypes, LineTypes
<1>13. CASE WaitDeadline(c)
  <2>1. PICK o \in Outcomes : Conclude(c, o, 0)
    BY <1>13, Names DEF WaitDeadline
  <2>2. contaminated' \in BOOLEAN
    BY <1>13 DEF WaitDeadline, HolderTypes
  <2>3. CallerTypes' /\ HolderTypes' /\ LineTypes'
    BY <1>13, <2>1, <2>2, ConcludeTypes, Bounds DEF WaitDeadline
  <2> QED BY <1>13, <2>3 DEF WaitDeadline, PortTypes, ReaderTypes, portVars, readVars
<1>14. CASE WaitEvent(c)
  <2>1. /\ Head(events) \in Events /\ Tail(events) \in Seq(Events)
        /\ Len(Tail(events)) =< EventCap
    BY <1>14, SeqHeadTail, Bounds DEF WaitEvent, ReaderTypes
  <2> Head(events).id \in 0 .. MaxCalls
    BY <2>1 DEF Events
  <2>2. ReaderTypes' /\ PortTypes'
    BY <1>14, <2>1 DEF WaitEvent, ReaderTypes, PortTypes
  <2>3. contaminated' \in BOOLEAN
    BY <1>14 DEF WaitEvent, HolderTypes
  <2>4. CASE \E o \in Outcomes, id \in 0 .. MaxCalls : Conclude(c, o, id)
    BY <1>14, <2>2, <2>3, <2>4, ConcludeTypes DEF WaitEvent
  <2>5. CASE UNCHANGED <<pc, outcome, decided, doVars, flagVars, astray>>
    <3>1. CallerTypes' BY <1>14, <2>5 DEF WaitEvent, CallerTypes
    <3>2. HolderTypes' BY <1>14, <2>5 DEF WaitEvent, HolderTypes, doVars, flagVars
    <3>3. LineTypes' BY <1>14, <2>5 DEF WaitEvent, LineTypes, lineVars
    <3> QED BY <2>2, <3>1, <3>2, <3>3
  <2> QED BY <1>14, <2>1, <2>4, <2>5, Names, Bounds DEF WaitEvent
<1>15. CASE WaitClosed(c)
  <2>1. contaminated' \in BOOLEAN
    BY <1>15 DEF WaitClosed, HolderTypes
  <2>2. CallerTypes' /\ HolderTypes' /\ LineTypes'
    BY <1>15, <2>1, ConcludeTypes, Names, Bounds DEF WaitClosed
  <2> QED BY <1>15, <2>2 DEF WaitClosed, PortTypes, ReaderTypes, portVars, readVars
<1>16. CASE WaitCancelled(c)
  <2>1. contaminated' \in BOOLEAN
    BY <1>16 DEF WaitCancelled, HolderTypes
  <2>2. CallerTypes' /\ HolderTypes' /\ LineTypes'
    BY <1>16, <2>1, ConcludeTypes, Names, Bounds DEF WaitCancelled
  <2> QED BY <1>16, <2>2 DEF WaitCancelled, PortTypes, ReaderTypes, portVars, readVars
<1>17. CASE DrainEvent(c)
  <2>1. HolderTypes'
    BY <1>17 DEF HolderTypes, DrainEvent
  <2>2. ReaderTypes'
    BY <1>17, SeqHeadTail, Bounds DEF ReaderTypes, DrainEvent
  <2> QED
    BY <1>17, <2>1, <2>2 DEF DrainEvent, CallerTypes, PortTypes, LineTypes
<1>18. CASE DrainQuiet(c)
  <2>1. CallerTypes' /\ HolderTypes'
    <3> suspect' \in BOOLEAN /\ contaminated' \in BOOLEAN
      BY <1>18 DEF DrainQuiet
    <3>1. CASE ReturnWith(c, "Ok")
      BY <1>18, <3>1, CallerReturns, Names, Bounds DEF DrainQuiet, ReturnWith
    <3>2. CASE Return(c) /\ UNCHANGED <<outcome, decided>>
      BY <1>18, <3>2, CallerReturns DEF DrainQuiet
    <3>3. CASE Goto(c, "purge") /\ why' = "none" /\ discarded' = 0 /\ UNCHANGED <<outcome, decided, mu, attempt>>
      BY <1>18, <3>3, CallerMoves, Names DEF DrainQuiet, HolderTypes
    <3>4. CASE /\ why = "retry" /\ Goto(c, "send") /\ why' = "none" /\ discarded' = 0
               /\ attempt' = attempt + 1 /\ UNCHANGED <<outcome, decided, mu>>
      <4>1. attempt' \in 0 .. RetryReads + 1
        BY <1>18, <3>4, Bounds DEF DrainQuiet, HolderTypes, LockInv
      <4>2. CallerTypes'  BY <1>18, <3>4, CallerMoves, Names DEF DrainQuiet
      <4>3. HolderTypes'  BY <3>4, <4>1, Names DEF HolderTypes
      <4> QED BY <4>2, <4>3
    <3> QED BY <1>18, <3>1, <3>2, <3>3, <3>4 DEF DrainQuiet
  <2>2. LineTypes'
    BY <1>18, Zenon DEF LineTypes, DrainQuiet
  <2> QED
    BY <1>18, <2>1, <2>2 DEF DrainQuiet, PortTypes, ReaderTypes
<1>19. CASE DrainCapReached(c)
  <2>1. CallerTypes' /\ HolderTypes' /\ PortTypes' /\ LineTypes'
    BY <1>19, DrainFailsTypes, Names DEF DrainCapReached
  <2> QED
    BY <1>19, <2>1 DEF DrainCapReached, DrainFails, ReaderTypes
<1>20. CASE DrainClosed(c)
  <2>1. CallerTypes' /\ HolderTypes' /\ PortTypes' /\ LineTypes'
    BY <1>20, DrainFailsTypes, Names DEF DrainClosed
  <2>2. ReaderTypes'
    BY <1>20, SeqHeadTail, Bounds DEF ReaderTypes, DrainClosed, DrainFails
  <2> QED
    BY <2>1, <2>2
<1>21. CASE DrainCancelled(c)
  <2>1. CallerTypes' /\ HolderTypes' /\ PortTypes' /\ LineTypes'
    BY <1>21, DrainFailsTypes, Names DEF DrainCancelled
  <2> QED
    BY <1>21, <2>1 DEF DrainCancelled, DrainFails, ReaderTypes
<1> QED BY <1>1, <1>2, <1>3, <1>4, <1>5, <1>6, <1>7, <1>8, <1>9, <1>10, <1>11,
     <1>12, <1>13, <1>14, <1>15, <1>16, <1>17, <1>18, <1>19, <1>20, <1>21 DEF
     Step

(* A step of readLoop.                                                     *)
LEMMA ReaderTypesStep ==
  ASSUME TypeOK, Reader
  PROVE  TypeOK'
<1> USE DEF callerVars, doVars, flagVars, portVars, lineVars, readVars, histVars
<1> SUFFICES ASSUME CallerTypes, HolderTypes, PortTypes, ReaderTypes, LineTypes
             PROVE  CallerTypes' /\ HolderTypes' /\ PortTypes' /\ ReaderTypes' /\ LineTypes'
  BY DEF TypeOK
<1>1. CASE ReadError
  <2>1. ReaderTypes'
    BY <1>1, Markers DEF ReaderTypes, ReadError
  <2> QED
    BY <1>1, <2>1 DEF ReadError, CallerTypes, HolderTypes, PortTypes,
         LineTypes
<1>2. CASE SendEvent
  <2>1. ReaderTypes'
    <3>1. Head(chunk) \in Events /\ Tail(chunk) \in Seq(Events)
      BY <1>2, SeqHeadTail DEF SendEvent, ReaderTypes
    <3>2. Append(events, Head(chunk)) \in Seq(Events)
          /\ Len(Append(events, Head(chunk))) = Len(events) + 1
      BY <3>1, AppendProperties DEF ReaderTypes
    <3>3. Len(events) \in Nat
      BY LenProperties DEF ReaderTypes
    <3>4. CASE Room /\ events' = Append(events, Head(chunk)) /\ chunk' = Tail(chunk) /\ UNCHANGED rpc
      BY <3>1, <3>2, <3>3, <3>4, Bounds DEF ReaderTypes, Room
    <3>5. CASE rpc' = "done" /\ chunk' = <<>> /\ UNCHANGED events
      BY <3>5, EmptySeq DEF ReaderTypes
    <3> QED BY <1>2, <3>4, <3>5 DEF SendEvent
  <2> QED
    BY <1>2, <2>1 DEF SendEvent, CallerTypes, HolderTypes, PortTypes,
         LineTypes
<1>3. CASE ReaderCloses
  <2>1. PortTypes'
    BY <1>3 DEF PortTypes, ReaderCloses, ClosePort
  <2>2. ReaderTypes'
    BY <1>3 DEF ReaderTypes, ReaderCloses
  <2> QED
    BY <1>3, <2>1, <2>2 DEF ReaderCloses, CallerTypes, HolderTypes, LineTypes
<1>4. CASE ReaderClosed
  <2>1. ReaderTypes'
    BY <1>4 DEF ReaderTypes, ReaderClosed
  <2> QED
    BY <1>4, <2>1 DEF ReaderClosed, CallerTypes, HolderTypes, PortTypes,
         LineTypes
<1>5. CASE Publish
  <2>1. PortTypes'
    BY <1>5 DEF PortTypes, Publish, ClosePort
  <2>2. ReaderTypes'
    BY <1>5 DEF ReaderTypes, Publish
  <2> QED
    BY <1>5, <2>1, <2>2 DEF Publish, CallerTypes, HolderTypes, LineTypes
<1>6. CASE Published
  <2>1. PortTypes'
    BY <1>6 DEF PortTypes, Published
  <2>2. ReaderTypes'
    BY <1>6 DEF ReaderTypes, Published
  <2> QED
    BY <1>6, <2>1, <2>2 DEF Published, CallerTypes, HolderTypes, LineTypes
<1>7. CASE LastEvent
  <2>1. ReaderTypes'
    BY <1>7, Markers, AppendProperties, Bounds, EmptySeq DEF ReaderTypes,
         LastEvent, Room
  <2> QED
    BY <1>7, <2>1 DEF LastEvent, CallerTypes, HolderTypes, PortTypes,
         LineTypes
<1>8. ASSUME NEW n \in 1 .. ChunkMax, NEW m \in 0 .. ChunkMax, NEW lost \in BOOLEAN,
            ReadChunk(n, m, lost)
     PROVE  CallerTypes' /\ HolderTypes' /\ PortTypes' /\ ReaderTypes' /\ LineTypes'
  <2>1. n \in Nat /\ m \in Nat /\ n =< Len(wire) /\ m =< n /\ wire \in Seq(Frames)
    BY <1>8, Bounds DEF ReadChunk, LineTypes
  <2>2. SubSeq(wire, n + 1, Len(wire)) \in Seq(Frames)
    BY <2>1, SubSeqProperties
  <2>3. SubSeq(wire, 1, m) \in Seq(Events)
    <3>1. SubSeq(wire, 1, m) \in Seq(Frames)  BY <2>1, SubSeqProperties
    <3>2. Frames \subseteq Events             BY DEF Frames, Events
    <3> QED BY <3>1, <3>2, SeqMonotonic
  <2>4. (IF m < n THEN <<TooLong>> ELSE <<>>) \in Seq(Events)
        /\ (IF lost THEN <<IoError>> ELSE <<>>) \in Seq(Events)
    BY Markers
  <2>5. chunk' \in Seq(Events)
    <3>1. SubSeq(wire, 1, m) \o (IF m < n THEN <<TooLong>> ELSE <<>>)
            \o (IF lost THEN <<IoError>> ELSE <<>>) \in Seq(Events)
      BY <2>3, <2>4, ConcatProperties
    <3>2. CASE UNCHANGED chunk
      BY <3>2 DEF ReaderTypes
    <3> QED BY <1>8, <3>1, <3>2 DEF ReadChunk
  <2>6. ReaderTypes'
    BY <1>8, <2>5 DEF ReadChunk, ReaderTypes
  <2>7. LineTypes'
    BY <1>8, <2>2 DEF ReadChunk, LineTypes
  <2> QED BY <1>8, <2>6, <2>7 DEF ReadChunk, CallerTypes, HolderTypes, PortTypes
<1> QED BY <1>1, <1>2, <1>3, <1>4, <1>5, <1>6, <1>7, <1>8 DEF Reader

(* The steps of the closer, the port, the radio, and a caller's context,   *)
(* and the beginning of a call.                                            *)
LEMMA OtherTypesStep ==
  ASSUME TypeOK, LockInv,
         \/ \E c \in Callers, k \in CallKinds : StartCall(c, k)
         \/ \E c \in Callers : CancelContext(c)
         \/ CloseEngine \/ CloseReturns \/ PortClosed
         \/ RadioReply \/ \E k \in Unsolicited : RadioUnsolicited(k)
  PROVE  TypeOK'
<1> USE DEF callerVars, doVars, flagVars, portVars, lineVars, readVars, histVars
<1> SUFFICES ASSUME CallerTypes, HolderTypes, PortTypes, ReaderTypes, LineTypes
             PROVE  CallerTypes' /\ HolderTypes' /\ PortTypes' /\ ReaderTypes' /\ LineTypes'
  BY DEF TypeOK
<1>1. ASSUME NEW c \in Callers, NEW k \in CallKinds, StartCall(c, k)
      PROVE  CallerTypes' /\ HolderTypes' /\ PortTypes' /\ ReaderTypes' /\ LineTypes'
  <2>1. calls + 1 \in Calls /\ k \in Classes
    BY <1>1, EngineAssumption DEF EngineAssumption, StartCall, LineTypes, Calls, Classes
  <2>2. CallerTypes'
    BY <1>1, <2>1, Names, Bounds DEF StartCall, CallerTypes, Decide, Goto, Calls
  <2>3. LineTypes'
    BY <1>1, <2>1 DEF StartCall, LineTypes, Calls
  <2> QED BY <1>1, <2>2, <2>3 DEF StartCall, HolderTypes, PortTypes, ReaderTypes
<1>2. ASSUME NEW c \in Callers, CancelContext(c)
      PROVE  CallerTypes' /\ HolderTypes' /\ PortTypes' /\ ReaderTypes' /\ LineTypes'
  <2>1. CallerTypes'  BY <1>2 DEF CancelContext, CallerTypes
  <2> QED BY <1>2, <2>1 DEF CancelContext, HolderTypes, PortTypes, ReaderTypes, LineTypes
<1>3. CASE CloseEngine
  <2>1. PortTypes'  BY <1>3 DEF CloseEngine, ClosePort, PortTypes
  <2> QED BY <1>3, <2>1 DEF CloseEngine, CallerTypes, HolderTypes, ReaderTypes, LineTypes
<1>4. CASE CloseReturns
  <2>1. PortTypes'  BY <1>4 DEF CloseReturns, PortTypes
  <2> QED BY <1>4, <2>1 DEF CloseReturns, CallerTypes, HolderTypes, ReaderTypes, LineTypes
<1>5. CASE PortClosed
  <2>1. PortTypes'  BY <1>5 DEF PortClosed, PortTypes
  <2> QED BY <1>5, <2>1 DEF PortClosed, CallerTypes, HolderTypes, ReaderTypes, LineTypes
<1>6. CASE RadioReply
  <2>1. Head(radio) \in Calls /\ Tail(radio) \in Seq(Calls)
    BY <1>6, SeqHeadTail DEF RadioReply, LineTypes
  <2>2. ASSUME NEW k \in Replies(class[Head(radio)])
        PROVE  [kind |-> k, id |-> Head(radio)] \in Frames
    BY <2>1, Bounds DEF Replies, Frames, FrameKinds, Calls
  <2>3. wire' \in Seq(Frames)
    <3>1. CASE UNCHANGED wire
      BY <3>1 DEF LineTypes
    <3>2. ASSUME NEW k \in Replies(class[Head(radio)]),
                 wire' = Append(wire, [kind |-> k, id |-> Head(radio)])
          PROVE  wire' \in Seq(Frames)
      BY <2>2, <3>2, AppendProperties DEF LineTypes
    <3> QED BY <1>6, <3>1, <3>2 DEF RadioReply
  <2>4. LineTypes'  BY <1>6, <2>1, <2>3 DEF RadioReply, LineTypes
  <2> QED BY <1>6, <2>4 DEF RadioReply, CallerTypes, HolderTypes, PortTypes, ReaderTypes
<1>7. ASSUME NEW k \in Unsolicited, RadioUnsolicited(k)
      PROVE  CallerTypes' /\ HolderTypes' /\ PortTypes' /\ ReaderTypes' /\ LineTypes'
  <2>1. [kind |-> k, id |-> 0] \in Frames
    BY EngineAssumption, Bounds DEF EngineAssumption, Frames, FrameKinds
  <2>2. LineTypes'  BY <1>7, <2>1, AppendProperties DEF RadioUnsolicited, LineTypes
  <2> QED BY <1>7, <2>2 DEF RadioUnsolicited, CallerTypes, HolderTypes, PortTypes, ReaderTypes
<1> QED BY <1>1, <1>2, <1>3, <1>4, <1>5, <1>6, <1>7

-----------------------------------------------------------------------------
(* The steps of readLoop, the closer, the port, the radio, and the end of  *)
(* a context, seen from a caller's program counter.                        *)

Elsewhere ==
  \/ Reader \/ CloseEngine \/ CloseReturns \/ PortClosed \/ RadioReply
  \/ \E k \in Unsolicited : RadioUnsolicited(k)
  \/ \E c \in Callers : CancelContext(c)
  \/ UNCHANGED vars

(* They move no caller, touch neither e.mu nor the marks on the stream,    *)
(* and send nothing.                                                       *)
LEMMA ElsewhereKeeps ==
  ASSUME Elsewhere
  PROVE  UNCHANGED <<pc, call, outcome, doVars, contaminated, calls, class, sent>>
<1> USE DEF vars, callerVars, doVars, flagVars, portVars, lineVars, readVars, histVars
<1>1. CASE Reader
  BY <1>1 DEF Reader, ReadChunk, ReadError, SendEvent, ReaderCloses, ReaderClosed,
       Publish, Published, LastEvent
<1>2. CASE CloseEngine \/ CloseReturns \/ PortClosed
  BY <1>2 DEF CloseEngine, CloseReturns, PortClosed
<1>3. CASE RadioReply \/ \E k \in Unsolicited : RadioUnsolicited(k)
  BY <1>3 DEF RadioReply, RadioUnsolicited
<1>4. CASE \E c \in Callers : CancelContext(c)
  BY <1>4 DEF CancelContext
<1>5. CASE UNCHANGED vars
  BY <1>5
<1> QED BY <1>1, <1>2, <1>3, <1>4, <1>5 DEF Elsewhere

(* Every step is a caller's, the beginning of a call, or one of those.     *)
LEMMA Steps ==
  ASSUME [Next]_vars
  PROVE  \/ \E c \in Callers : Step(c)
         \/ \E c \in Callers, k \in CallKinds : StartCall(c, k)
         \/ Elsewhere
BY DEF Next, Elsewhere

LEMMA TypeStep == ASSUME TypeOK, LockInv, [Next]_vars PROVE TypeOK'
<1>1. CASE UNCHANGED vars
  BY <1>1 DEF vars, callerVars, doVars, flagVars, portVars, readVars, lineVars, histVars,
       TypeOK, CallerTypes, HolderTypes, PortTypes, ReaderTypes, LineTypes
<1>2. CASE Next
  BY <1>2, StepTypes, ReaderTypesStep, OtherTypesStep DEF Next
<1> QED BY <1>1, <1>2

-----------------------------------------------------------------------------
(* LockInv.                                                                *)

LEMMA LockStep ==
  ASSUME TypeOK, LockInv, NEW c \in Callers, Step(c)
  PROVE  LockInv'
<1> USE DEF callerVars, doVars, flagVars, portVars, lineVars, readVars, histVars
<1>1. CASE RefuseDeadContext(c)
  BY <1>1 DEF RefuseDeadContext, Goto, LockInv, Busy, TypeOK, CallerTypes,
       HolderTypes
<1>2. CASE RefuseAtEntry(c)
  BY <1>2 DEF RefuseAtEntry, Goto, LockInv, Busy, TypeOK, CallerTypes,
       HolderTypes
<1>3. CASE EnterDrain(c)
  BY <1>3, NoSuchCaller DEF EnterDrain, MuFree, StartDrain, Goto, LockInv,
       Busy, TypeOK, CallerTypes, HolderTypes
<1>4. CASE EnterPurge(c)
  BY <1>4, NoSuchCaller DEF EnterPurge, MuFree, Goto, LockInv, Busy, TypeOK,
       CallerTypes, HolderTypes
<1>5. CASE PurgeEvent(c)
  BY <1>5 DEF PurgeEvent, ReturnWith, Return, Goto, LockInv, Busy, TypeOK,
       CallerTypes, HolderTypes
<1>6. CASE PurgeDone(c)
  BY <1>6 DEF PurgeDone, ReturnWith, Return, Goto, LockInv, Busy, TypeOK,
       CallerTypes, HolderTypes
<1>7. CASE Disallow(c)
  BY <1>7 DEF Disallow, ReturnWith, Return, Goto, LockInv, Busy, TypeOK,
       CallerTypes, HolderTypes
<1>8. CASE BeginWrite(c)
  BY <1>8 DEF BeginWrite, Goto, LockInv, Busy, TypeOK, CallerTypes,
       HolderTypes
<1>9. CASE RefuseWrite(c)
  BY <1>9 DEF RefuseWrite, ReturnWith, Return, Goto, LockInv, Busy, TypeOK,
       CallerTypes, HolderTypes
<1>10. CASE FrameLeaves(c)
  BY <1>10 DEF FrameLeaves, Goto, LockInv, Busy, TypeOK, CallerTypes,
       HolderTypes
<1>11. CASE WriteFails(c)
  BY <1>11 DEF WriteFails, Goto, LockInv, Busy, TypeOK, CallerTypes,
       HolderTypes
<1>12. CASE WriteFailed(c)
  BY <1>12 DEF WriteFailed, ReturnWith, Return, Goto, LockInv, Busy, TypeOK,
       CallerTypes, HolderTypes
<1>13. CASE WaitDeadline(c)
  BY <1>13 DEF WaitDeadline, Conclude, Retries, StartDrain, Return, Goto,
       LockInv, Busy, TypeOK, CallerTypes, HolderTypes
<1>14. CASE WaitEvent(c)
  BY <1>14 DEF WaitEvent, Conclude, Retries, StartDrain, Return, Goto,
       LockInv, Busy, TypeOK, CallerTypes, HolderTypes
<1>15. CASE WaitClosed(c)
  BY <1>15 DEF WaitClosed, Conclude, Retries, StartDrain, Return, Goto,
       LockInv, Busy, TypeOK, CallerTypes, HolderTypes
<1>16. CASE WaitCancelled(c)
  BY <1>16 DEF WaitCancelled, Conclude, Retries, StartDrain, Return, Goto,
       LockInv, Busy, TypeOK, CallerTypes, HolderTypes
<1>17. CASE DrainEvent(c)
  BY <1>17 DEF DrainEvent, LockInv, Busy, TypeOK, CallerTypes, HolderTypes
<1>18. CASE DrainQuiet(c)
  BY <1>18 DEF DrainQuiet, ReturnWith, Return, Goto, LockInv, Busy, TypeOK,
       CallerTypes, HolderTypes
<1>19. CASE DrainCapReached(c)
  BY <1>19 DEF DrainCapReached, DrainFails, Return, Goto, LockInv, Busy,
       TypeOK, CallerTypes, HolderTypes
<1>20. CASE DrainClosed(c)
  BY <1>20 DEF DrainClosed, DrainFails, Return, Goto, LockInv, Busy, TypeOK,
       CallerTypes, HolderTypes
<1>21. CASE DrainCancelled(c)
  BY <1>21 DEF DrainCancelled, DrainFails, Return, Goto, LockInv, Busy,
       TypeOK, CallerTypes, HolderTypes
<1> QED BY <1>1, <1>2, <1>3, <1>4, <1>5, <1>6, <1>7, <1>8, <1>9, <1>10, <1>11,
     <1>12, <1>13, <1>14, <1>15, <1>16, <1>17, <1>18, <1>19, <1>20, <1>21 DEF
     Step


LEMMA LockStart ==
  ASSUME TypeOK, LockInv, NEW c \in Callers, NEW k \in CallKinds, StartCall(c, k)
  PROVE  LockInv'
BY Bounds DEF StartCall, Goto, LockInv, Busy, TypeOK, CallerTypes, LineTypes, Calls, doVars

-----------------------------------------------------------------------------
(* TrustInv.                                                               *)

LEMMA TrustStep ==
  ASSUME TypeOK, LockInv, TrustInv, NEW c \in Callers, Step(c)
  PROVE  TrustInv'
<1> USE DEF callerVars, doVars, flagVars, portVars, lineVars, readVars, histVars
<1>1. CASE RefuseDeadContext(c)
  BY <1>1 DEF RefuseDeadContext, Goto, TrustInv, LockInv, Busy, TypeOK,
       CallerTypes, HolderTypes, StreamTrusted
<1>2. CASE RefuseAtEntry(c)
  BY <1>2 DEF RefuseAtEntry, Goto, TrustInv, LockInv, Busy, TypeOK,
       CallerTypes, HolderTypes, StreamTrusted
<1>3. CASE EnterDrain(c)
  BY <1>3, NoSuchCaller DEF EnterDrain, MuFree, StartDrain, Goto, TrustInv,
       LockInv, Busy, TypeOK, CallerTypes, HolderTypes, StreamTrusted
<1>4. CASE EnterPurge(c)
  BY <1>4, NoSuchCaller DEF EnterPurge, MuFree, Goto, TrustInv, LockInv, Busy,
       TypeOK, CallerTypes, HolderTypes, StreamTrusted
<1>5. CASE PurgeEvent(c)
  BY <1>5 DEF PurgeEvent, ReturnWith, Return, Goto, TrustInv, LockInv, Busy,
       TypeOK, CallerTypes, HolderTypes, StreamTrusted
<1>6. CASE PurgeDone(c)
  BY <1>6 DEF PurgeDone, ReturnWith, Return, Goto, TrustInv, LockInv, Busy,
       TypeOK, CallerTypes, HolderTypes, StreamTrusted
<1>7. CASE Disallow(c)
  BY <1>7 DEF Disallow, ReturnWith, Return, Goto, TrustInv, LockInv, Busy,
       TypeOK, CallerTypes, HolderTypes, StreamTrusted
<1>8. CASE BeginWrite(c)
  BY <1>8 DEF BeginWrite, Goto, TrustInv, LockInv, Busy, TypeOK, CallerTypes,
       HolderTypes, StreamTrusted
<1>9. CASE RefuseWrite(c)
  BY <1>9 DEF RefuseWrite, ReturnWith, Return, Goto, TrustInv, LockInv, Busy,
       TypeOK, CallerTypes, HolderTypes, StreamTrusted
<1>10. CASE FrameLeaves(c)
  BY <1>10 DEF FrameLeaves, Goto, TrustInv, LockInv, Busy, TypeOK,
       CallerTypes, HolderTypes, StreamTrusted
<1>11. CASE WriteFails(c)
  BY <1>11 DEF WriteFails, Goto, TrustInv, LockInv, Busy, TypeOK, CallerTypes,
       HolderTypes, StreamTrusted
<1>12. CASE WriteFailed(c)
  BY <1>12 DEF WriteFailed, ReturnWith, Return, Goto, TrustInv, LockInv, Busy,
       TypeOK, CallerTypes, HolderTypes, StreamTrusted
<1>13. CASE WaitDeadline(c)
  BY <1>13 DEF WaitDeadline, Conclude, Retries, StartDrain, Return, Goto,
       TrustInv, LockInv, Busy, TypeOK, CallerTypes, HolderTypes,
       StreamTrusted
<1>14. CASE WaitEvent(c)
  BY <1>14 DEF WaitEvent, Conclude, Retries, StartDrain, Return, Goto,
       TrustInv, LockInv, Busy, TypeOK, CallerTypes, HolderTypes,
       StreamTrusted
<1>15. CASE WaitClosed(c)
  BY <1>15 DEF WaitClosed, Conclude, Retries, StartDrain, Return, Goto,
       TrustInv, LockInv, Busy, TypeOK, CallerTypes, HolderTypes,
       StreamTrusted
<1>16. CASE WaitCancelled(c)
  BY <1>16 DEF WaitCancelled, Conclude, Retries, StartDrain, Return, Goto,
       TrustInv, LockInv, Busy, TypeOK, CallerTypes, HolderTypes,
       StreamTrusted
<1>17. CASE DrainEvent(c)
  BY <1>17 DEF DrainEvent, TrustInv, LockInv, Busy, TypeOK, CallerTypes,
       HolderTypes, StreamTrusted
<1>18. CASE DrainQuiet(c)
  BY <1>18 DEF DrainQuiet, ReturnWith, Return, Goto, TrustInv, LockInv, Busy,
       TypeOK, CallerTypes, HolderTypes, StreamTrusted
<1>19. CASE DrainCapReached(c)
  BY <1>19 DEF DrainCapReached, DrainFails, Return, Goto, TrustInv, LockInv,
       Busy, TypeOK, CallerTypes, HolderTypes, StreamTrusted
<1>20. CASE DrainClosed(c)
  BY <1>20 DEF DrainClosed, DrainFails, Return, Goto, TrustInv, LockInv, Busy,
       TypeOK, CallerTypes, HolderTypes, StreamTrusted
<1>21. CASE DrainCancelled(c)
  BY <1>21 DEF DrainCancelled, DrainFails, Return, Goto, TrustInv, LockInv,
       Busy, TypeOK, CallerTypes, HolderTypes, StreamTrusted
<1> QED BY <1>1, <1>2, <1>3, <1>4, <1>5, <1>6, <1>7, <1>8, <1>9, <1>10, <1>11,
     <1>12, <1>13, <1>14, <1>15, <1>16, <1>17, <1>18, <1>19, <1>20, <1>21 DEF
     Step


LEMMA TrustStart ==
  ASSUME TypeOK, TrustInv, NEW c \in Callers, NEW k \in CallKinds, StartCall(c, k)
  PROVE  TrustInv'
BY DEF StartCall, Goto, TrustInv, TypeOK, CallerTypes, flagVars

-----------------------------------------------------------------------------
(* GateInv.                                                                *)

LEMMA GateStep ==
  ASSUME TypeOK, LockInv, GateInv, NEW c \in Callers, Step(c)
  PROVE  GateInv'
<1> USE DEF callerVars, doVars, flagVars, portVars, lineVars, readVars, histVars
<1>1. CASE RefuseDeadContext(c)
  BY <1>1, NoSuchCaller DEF RefuseDeadContext, Goto, GateInv, LockInv, Busy,
       TypeOK, CallerTypes, PortTypes
<1>2. CASE RefuseAtEntry(c)
  BY <1>2, NoSuchCaller DEF RefuseAtEntry, Goto, GateInv, LockInv, Busy,
       TypeOK, CallerTypes, PortTypes
<1>3. CASE EnterDrain(c)
  BY <1>3, NoSuchCaller DEF EnterDrain, MuFree, StartDrain, Goto, GateInv,
       LockInv, Busy, TypeOK, CallerTypes, PortTypes
<1>4. CASE EnterPurge(c)
  BY <1>4, NoSuchCaller DEF EnterPurge, MuFree, Goto, GateInv, LockInv, Busy,
       TypeOK, CallerTypes, PortTypes
<1>5. CASE PurgeEvent(c)
  BY <1>5, NoSuchCaller DEF PurgeEvent, ReturnWith, Return, Goto, GateInv,
       LockInv, Busy, TypeOK, CallerTypes, PortTypes
<1>6. CASE PurgeDone(c)
  BY <1>6, NoSuchCaller DEF PurgeDone, ReturnWith, Return, Goto, GateInv,
       LockInv, Busy, TypeOK, CallerTypes, PortTypes
<1>7. CASE Disallow(c)
  BY <1>7, NoSuchCaller DEF Disallow, ReturnWith, Return, Goto, GateInv,
       LockInv, Busy, TypeOK, CallerTypes, PortTypes
<1>8. CASE BeginWrite(c)
  BY <1>8, NoSuchCaller DEF BeginWrite, GateOpen, Goto, GateInv, LockInv,
       Busy, TypeOK, CallerTypes, PortTypes
<1>9. CASE RefuseWrite(c)
  BY <1>9, NoSuchCaller DEF RefuseWrite, ReturnWith, Return, Goto, GateInv,
       LockInv, Busy, TypeOK, CallerTypes, PortTypes
<1>10. CASE FrameLeaves(c)
  BY <1>10, NoSuchCaller DEF FrameLeaves, Ungate, ReturnWith, Return, Goto,
       GateInv, LockInv, Busy, TypeOK, CallerTypes, PortTypes
<1>11. CASE WriteFails(c)
  BY <1>11, NoSuchCaller DEF WriteFails, ClosePort, Goto, GateInv, LockInv,
       Busy, TypeOK, CallerTypes, PortTypes
<1>12. CASE WriteFailed(c)
  BY <1>12, NoSuchCaller DEF WriteFailed, Ungate, ReturnWith, Return, Goto,
       GateInv, LockInv, Busy, TypeOK, CallerTypes, PortTypes
<1>13. CASE WaitDeadline(c)
  BY <1>13, NoSuchCaller DEF WaitDeadline, Conclude, Retries, StartDrain,
       Return, Goto, GateInv, LockInv, Busy, TypeOK, CallerTypes, PortTypes
<1>14. CASE WaitEvent(c)
  BY <1>14, NoSuchCaller DEF WaitEvent, Conclude, Retries, StartDrain, Return,
       Goto, GateInv, LockInv, Busy, TypeOK, CallerTypes, PortTypes
<1>15. CASE WaitClosed(c)
  BY <1>15, NoSuchCaller DEF WaitClosed, Conclude, Retries, StartDrain,
       Return, Goto, GateInv, LockInv, Busy, TypeOK, CallerTypes, PortTypes
<1>16. CASE WaitCancelled(c)
  BY <1>16, NoSuchCaller DEF WaitCancelled, Conclude, Retries, StartDrain,
       Return, Goto, GateInv, LockInv, Busy, TypeOK, CallerTypes, PortTypes
<1>17. CASE DrainEvent(c)
  BY <1>17, NoSuchCaller DEF DrainEvent, GateInv, LockInv, Busy, TypeOK,
       CallerTypes, PortTypes
<1>18. CASE DrainQuiet(c)
  BY <1>18, NoSuchCaller DEF DrainQuiet, ReturnWith, Return, Goto, GateInv,
       LockInv, Busy, TypeOK, CallerTypes, PortTypes
<1>19. CASE DrainCapReached(c)
  BY <1>19, NoSuchCaller DEF DrainCapReached, DrainFails, Return, Goto,
       GateInv, LockInv, Busy, TypeOK, CallerTypes, PortTypes
<1>20. CASE DrainClosed(c)
  BY <1>20, NoSuchCaller DEF DrainClosed, DrainFails, Return, Goto, GateInv,
       LockInv, Busy, TypeOK, CallerTypes, PortTypes
<1>21. CASE DrainCancelled(c)
  BY <1>21, NoSuchCaller DEF DrainCancelled, DrainFails, Return, Goto,
       GateInv, LockInv, Busy, TypeOK, CallerTypes, PortTypes
<1> QED BY <1>1, <1>2, <1>3, <1>4, <1>5, <1>6, <1>7, <1>8, <1>9, <1>10, <1>11,
     <1>12, <1>13, <1>14, <1>15, <1>16, <1>17, <1>18, <1>19, <1>20, <1>21 DEF
     Step


LEMMA GateElsewhere ==
  ASSUME TypeOK, GateInv, Elsewhere
  PROVE  GateInv'
<1> USE DEF callerVars, doVars, flagVars, portVars, lineVars, readVars, histVars
<1> UNCHANGED pc
  BY ElsewhereKeeps
<1>1. CASE Reader
  <2>1. CASE \E n \in 1 .. ChunkMax, m \in 0 .. ChunkMax, lost \in BOOLEAN : ReadChunk(n, m, lost)
    BY <2>1 DEF ReadChunk, GateInv
  <2>2. CASE ReadError \/ SendEvent \/ ReaderClosed \/ LastEvent
    BY <2>2 DEF ReadError, SendEvent, ReaderClosed, LastEvent, GateInv
  <2>3. CASE ReaderCloses
    BY <2>3 DEF ReaderCloses, ClosePort, GateInv
  <2>4. CASE Publish
    BY <2>4, NoSuchCaller DEF Publish, ClosePort, GateInv
  <2>5. CASE Published
    BY <2>5, NoSuchCaller DEF Published, GateInv
  <2> QED BY <1>1, <2>1, <2>2, <2>3, <2>4, <2>5 DEF Reader
<1>2. CASE CloseEngine
  BY <1>2 DEF CloseEngine, ClosePort, GateInv
<1>3. CASE CloseReturns \/ PortClosed
  BY <1>3 DEF CloseReturns, PortClosed, GateInv
<1>4. CASE RadioReply \/ \E k \in Unsolicited : RadioUnsolicited(k)
  <2> UNCHANGED <<closed, fatalGate, published, rpc>>
    BY <1>4 DEF RadioReply, RadioUnsolicited
  <2> QED BY DEF GateInv
<1>5. CASE \E c \in Callers : CancelContext(c)
  BY <1>5 DEF CancelContext, GateInv
<1>6. CASE UNCHANGED vars
  BY <1>6 DEF vars, GateInv
<1> QED BY <1>1, <1>2, <1>3, <1>4, <1>5, <1>6 DEF Elsewhere

LEMMA GateStart ==
  ASSUME TypeOK, GateInv, NEW c \in Callers, NEW k \in CallKinds, StartCall(c, k)
  PROVE  GateInv'
BY DEF StartCall, Goto, GateInv, TypeOK, CallerTypes, portVars, readVars

-----------------------------------------------------------------------------
(* SentInv.                                                                *)

LEMMA SentStep ==
  ASSUME TypeOK, LockInv, SentInv, NEW c \in Callers, Step(c)
  PROVE  SentInv'
<1> USE DEF callerVars, doVars, flagVars, portVars, lineVars, readVars, histVars
<1> SUFFICES ASSUME CallsDistinct, NeverResent, \A d \in Callers : Counted(d)
             PROVE  CallsDistinct' /\ NeverResent' /\ \A d \in Callers : Counted(d)'
  BY DEF SentInv
<1>1. CASE RefuseDeadContext(c)
  <2>1. CallsDistinct' /\ NeverResent'
    BY <1>1 DEF RefuseDeadContext, CallsDistinct, NeverResent
  <2>2. Counted(c)'
    BY <1>1, Bounds DEF RefuseDeadContext, Goto, Counted, LockInv, Busy,
         TypeOK, CallerTypes, HolderTypes, LineTypes, Class
  <2>3. ASSUME NEW d \in Callers, d # c PROVE Counted(d)'
    BY <1>1, <2>3, NoSuchCaller DEF RefuseDeadContext, Goto, Counted, LockInv,
         Busy, TypeOK, CallerTypes, HolderTypes, LineTypes, Class
  <2> QED BY <2>1, <2>2, <2>3
<1>2. CASE RefuseAtEntry(c)
  <2>1. CallsDistinct' /\ NeverResent'
    BY <1>2 DEF RefuseAtEntry, CallsDistinct, NeverResent
  <2>2. Counted(c)'
    BY <1>2, Bounds DEF RefuseAtEntry, Goto, Counted, LockInv, Busy, TypeOK,
         CallerTypes, HolderTypes, LineTypes, Class
  <2>3. ASSUME NEW d \in Callers, d # c PROVE Counted(d)'
    BY <1>2, <2>3, NoSuchCaller DEF RefuseAtEntry, Goto, Counted, LockInv,
         Busy, TypeOK, CallerTypes, HolderTypes, LineTypes, Class
  <2> QED BY <2>1, <2>2, <2>3
<1>3. CASE EnterDrain(c)
  <2>1. CallsDistinct' /\ NeverResent'
    BY <1>3 DEF EnterDrain, CallsDistinct, NeverResent
  <2>2. Counted(c)'
    BY <1>3, Bounds DEF EnterDrain, MuFree, StartDrain, Goto, Counted,
         LockInv, Busy, TypeOK, CallerTypes, HolderTypes, LineTypes, Class
  <2>3. ASSUME NEW d \in Callers, d # c PROVE Counted(d)'
    BY <1>3, <2>3, NoSuchCaller DEF EnterDrain, MuFree, StartDrain, Goto,
         Counted, LockInv, Busy, TypeOK, CallerTypes, HolderTypes, LineTypes,
         Class
  <2> QED BY <2>1, <2>2, <2>3
<1>4. CASE EnterPurge(c)
  <2>1. CallsDistinct' /\ NeverResent'
    BY <1>4 DEF EnterPurge, CallsDistinct, NeverResent
  <2>2. Counted(c)'
    BY <1>4, Bounds DEF EnterPurge, MuFree, Goto, Counted, LockInv, Busy,
         TypeOK, CallerTypes, HolderTypes, LineTypes, Class
  <2>3. ASSUME NEW d \in Callers, d # c PROVE Counted(d)'
    BY <1>4, <2>3, NoSuchCaller DEF EnterPurge, MuFree, Goto, Counted,
         LockInv, Busy, TypeOK, CallerTypes, HolderTypes, LineTypes, Class
  <2> QED BY <2>1, <2>2, <2>3
<1>5. CASE PurgeEvent(c)
  <2>1. CallsDistinct' /\ NeverResent'
    BY <1>5 DEF PurgeEvent, CallsDistinct, NeverResent
  <2>2. Counted(c)'
    BY <1>5, Bounds DEF PurgeEvent, ReturnWith, Return, Goto, Counted,
         LockInv, Busy, TypeOK, CallerTypes, HolderTypes, LineTypes, Class
  <2>3. ASSUME NEW d \in Callers, d # c PROVE Counted(d)'
    BY <1>5, <2>3, NoSuchCaller DEF PurgeEvent, ReturnWith, Return, Goto,
         Counted, LockInv, Busy, TypeOK, CallerTypes, HolderTypes, LineTypes,
         Class
  <2> QED BY <2>1, <2>2, <2>3
<1>6. CASE PurgeDone(c)
  <2>1. CallsDistinct' /\ NeverResent'
    BY <1>6 DEF PurgeDone, CallsDistinct, NeverResent
  <2>2. Counted(c)'
    BY <1>6, Bounds DEF PurgeDone, ReturnWith, Return, Goto, Counted, LockInv,
         Busy, TypeOK, CallerTypes, HolderTypes, LineTypes, Class
  <2>3. ASSUME NEW d \in Callers, d # c PROVE Counted(d)'
    BY <1>6, <2>3, NoSuchCaller DEF PurgeDone, ReturnWith, Return, Goto,
         Counted, LockInv, Busy, TypeOK, CallerTypes, HolderTypes, LineTypes,
         Class
  <2> QED BY <2>1, <2>2, <2>3
<1>7. CASE Disallow(c)
  <2>1. CallsDistinct' /\ NeverResent'
    BY <1>7 DEF Disallow, CallsDistinct, NeverResent
  <2>2. Counted(c)'
    BY <1>7, Bounds DEF Disallow, ReturnWith, Return, Goto, Counted, LockInv,
         Busy, TypeOK, CallerTypes, HolderTypes, LineTypes, Class
  <2>3. ASSUME NEW d \in Callers, d # c PROVE Counted(d)'
    BY <1>7, <2>3, NoSuchCaller DEF Disallow, ReturnWith, Return, Goto,
         Counted, LockInv, Busy, TypeOK, CallerTypes, HolderTypes, LineTypes,
         Class
  <2> QED BY <2>1, <2>2, <2>3
<1>8. CASE BeginWrite(c)
  <2>1. CallsDistinct' /\ NeverResent'
    BY <1>8 DEF BeginWrite, CallsDistinct, NeverResent
  <2>2. Counted(c)'
    BY <1>8, Bounds DEF BeginWrite, Goto, Counted, LockInv, Busy, TypeOK,
         CallerTypes, HolderTypes, LineTypes, Class
  <2>3. ASSUME NEW d \in Callers, d # c PROVE Counted(d)'
    BY <1>8, <2>3, NoSuchCaller DEF BeginWrite, Goto, Counted, LockInv, Busy,
         TypeOK, CallerTypes, HolderTypes, LineTypes, Class
  <2> QED BY <2>1, <2>2, <2>3
<1>9. CASE RefuseWrite(c)
  <2>1. CallsDistinct' /\ NeverResent'
    BY <1>9 DEF RefuseWrite, CallsDistinct, NeverResent
  <2>2. Counted(c)'
    BY <1>9, Bounds DEF RefuseWrite, ReturnWith, Return, Goto, Counted,
         LockInv, Busy, TypeOK, CallerTypes, HolderTypes, LineTypes, Class
  <2>3. ASSUME NEW d \in Callers, d # c PROVE Counted(d)'
    BY <1>9, <2>3, NoSuchCaller DEF RefuseWrite, ReturnWith, Return, Goto,
         Counted, LockInv, Busy, TypeOK, CallerTypes, HolderTypes, LineTypes,
         Class
  <2> QED BY <2>1, <2>2, <2>3
<1>10. CASE FrameLeaves(c)
  <2>1. CallsDistinct' /\ NeverResent'
    BY <1>10, Bounds DEF FrameLeaves, Goto, CallsDistinct, Counted, LockInv,
         Busy, TypeOK, CallerTypes, HolderTypes, LineTypes, NeverResent,
         Class, Calls
  <2>2. Counted(c)'
    BY <1>10, Bounds DEF FrameLeaves, Goto, CallsDistinct, Counted, LockInv,
         Busy, TypeOK, CallerTypes, HolderTypes, LineTypes, NeverResent,
         Class, Calls
  <2>3. ASSUME NEW d \in Callers, d # c PROVE Counted(d)'
    BY <1>10, <2>3, Bounds DEF FrameLeaves, Goto, CallsDistinct, Counted,
         LockInv, Busy, TypeOK, CallerTypes, HolderTypes, LineTypes,
         NeverResent, Class, Calls
  <2> QED BY <2>1, <2>2, <2>3
<1>11. CASE WriteFails(c)
  <2>1. CallsDistinct' /\ NeverResent'
    BY <1>11 DEF WriteFails, CallsDistinct, NeverResent
  <2>2. Counted(c)'
    BY <1>11, Bounds DEF WriteFails, Goto, Counted, LockInv, Busy, TypeOK,
         CallerTypes, HolderTypes, LineTypes, Class
  <2>3. ASSUME NEW d \in Callers, d # c PROVE Counted(d)'
    BY <1>11, <2>3, NoSuchCaller DEF WriteFails, Goto, Counted, LockInv, Busy,
         TypeOK, CallerTypes, HolderTypes, LineTypes, Class
  <2> QED BY <2>1, <2>2, <2>3
<1>12. CASE WriteFailed(c)
  <2>1. CallsDistinct' /\ NeverResent'
    BY <1>12 DEF WriteFailed, CallsDistinct, NeverResent
  <2>2. Counted(c)'
    BY <1>12, Bounds DEF WriteFailed, ReturnWith, Return, Goto, Counted,
         LockInv, Busy, TypeOK, CallerTypes, HolderTypes, LineTypes, Class
  <2>3. ASSUME NEW d \in Callers, d # c PROVE Counted(d)'
    BY <1>12, <2>3, NoSuchCaller DEF WriteFailed, ReturnWith, Return, Goto,
         Counted, LockInv, Busy, TypeOK, CallerTypes, HolderTypes, LineTypes,
         Class
  <2> QED BY <2>1, <2>2, <2>3
<1>13. CASE WaitDeadline(c)
  <2>1. CallsDistinct' /\ NeverResent'
    BY <1>13 DEF WaitDeadline, CallsDistinct, NeverResent
  <2>2. Counted(c)'
    BY <1>13, Bounds DEF WaitDeadline, Conclude, Retries, StartDrain, Return,
         Goto, Counted, LockInv, Busy, TypeOK, CallerTypes, HolderTypes,
         LineTypes, Class
  <2>3. ASSUME NEW d \in Callers, d # c PROVE Counted(d)'
    BY <1>13, <2>3, NoSuchCaller DEF WaitDeadline, Conclude, Retries,
         StartDrain, Return, Goto, Counted, LockInv, Busy, TypeOK,
         CallerTypes, HolderTypes, LineTypes, Class
  <2> QED BY <2>1, <2>2, <2>3
<1>14. CASE WaitEvent(c)
  <2>1. CallsDistinct' /\ NeverResent'
    BY <1>14 DEF WaitEvent, CallsDistinct, NeverResent
  <2>2. Counted(c)'
    BY <1>14, Bounds DEF WaitEvent, Conclude, Retries, StartDrain, Return,
         Goto, Counted, LockInv, Busy, TypeOK, CallerTypes, HolderTypes,
         LineTypes, Class
  <2>3. ASSUME NEW d \in Callers, d # c PROVE Counted(d)'
    BY <1>14, <2>3, NoSuchCaller DEF WaitEvent, Conclude, Retries, StartDrain,
         Return, Goto, Counted, LockInv, Busy, TypeOK, CallerTypes,
         HolderTypes, LineTypes, Class
  <2> QED BY <2>1, <2>2, <2>3
<1>15. CASE WaitClosed(c)
  <2>1. CallsDistinct' /\ NeverResent'
    BY <1>15 DEF WaitClosed, CallsDistinct, NeverResent
  <2>2. Counted(c)'
    BY <1>15, Bounds DEF WaitClosed, Conclude, Retries, StartDrain, Return,
         Goto, Counted, LockInv, Busy, TypeOK, CallerTypes, HolderTypes,
         LineTypes, Class
  <2>3. ASSUME NEW d \in Callers, d # c PROVE Counted(d)'
    BY <1>15, <2>3, NoSuchCaller DEF WaitClosed, Conclude, Retries,
         StartDrain, Return, Goto, Counted, LockInv, Busy, TypeOK,
         CallerTypes, HolderTypes, LineTypes, Class
  <2> QED BY <2>1, <2>2, <2>3
<1>16. CASE WaitCancelled(c)
  <2>1. CallsDistinct' /\ NeverResent'
    BY <1>16 DEF WaitCancelled, CallsDistinct, NeverResent
  <2>2. Counted(c)'
    BY <1>16, Bounds DEF WaitCancelled, Conclude, Retries, StartDrain, Return,
         Goto, Counted, LockInv, Busy, TypeOK, CallerTypes, HolderTypes,
         LineTypes, Class
  <2>3. ASSUME NEW d \in Callers, d # c PROVE Counted(d)'
    BY <1>16, <2>3, NoSuchCaller DEF WaitCancelled, Conclude, Retries,
         StartDrain, Return, Goto, Counted, LockInv, Busy, TypeOK,
         CallerTypes, HolderTypes, LineTypes, Class
  <2> QED BY <2>1, <2>2, <2>3
<1>17. CASE DrainEvent(c)
  <2>1. CallsDistinct' /\ NeverResent'
    BY <1>17 DEF DrainEvent, CallsDistinct, NeverResent
  <2>2. Counted(c)'
    BY <1>17, Bounds DEF DrainEvent, Counted, LockInv, Busy, TypeOK,
         CallerTypes, HolderTypes, LineTypes, Class
  <2>3. ASSUME NEW d \in Callers, d # c PROVE Counted(d)'
    BY <1>17, <2>3, NoSuchCaller DEF DrainEvent, Counted, LockInv, Busy,
         TypeOK, CallerTypes, HolderTypes, LineTypes, Class
  <2> QED BY <2>1, <2>2, <2>3
<1>18. CASE DrainQuiet(c)
  <2>1. CallsDistinct' /\ NeverResent'
    BY <1>18 DEF DrainQuiet, CallsDistinct, NeverResent
  <2>2. Counted(c)'
    BY <1>18, Bounds DEF DrainQuiet, ReturnWith, Return, Goto, Counted,
         LockInv, Busy, TypeOK, CallerTypes, HolderTypes, LineTypes, Class
  <2>3. ASSUME NEW d \in Callers, d # c PROVE Counted(d)'
    BY <1>18, <2>3, NoSuchCaller DEF DrainQuiet, ReturnWith, Return, Goto,
         Counted, LockInv, Busy, TypeOK, CallerTypes, HolderTypes, LineTypes,
         Class
  <2> QED BY <2>1, <2>2, <2>3
<1>19. CASE DrainCapReached(c)
  <2>1. CallsDistinct' /\ NeverResent'
    BY <1>19 DEF DrainCapReached, CallsDistinct, NeverResent, DrainFails
  <2>2. Counted(c)'
    BY <1>19, Bounds DEF DrainCapReached, DrainFails, Return, Goto, Counted,
         LockInv, Busy, TypeOK, CallerTypes, HolderTypes, LineTypes, Class
  <2>3. ASSUME NEW d \in Callers, d # c PROVE Counted(d)'
    BY <1>19, <2>3, NoSuchCaller DEF DrainCapReached, DrainFails, Return,
         Goto, Counted, LockInv, Busy, TypeOK, CallerTypes, HolderTypes,
         LineTypes, Class
  <2> QED BY <2>1, <2>2, <2>3
<1>20. CASE DrainClosed(c)
  <2>1. CallsDistinct' /\ NeverResent'
    BY <1>20 DEF DrainClosed, CallsDistinct, NeverResent, DrainFails
  <2>2. Counted(c)'
    BY <1>20, Bounds DEF DrainClosed, DrainFails, Return, Goto, Counted,
         LockInv, Busy, TypeOK, CallerTypes, HolderTypes, LineTypes, Class
  <2>3. ASSUME NEW d \in Callers, d # c PROVE Counted(d)'
    BY <1>20, <2>3, NoSuchCaller DEF DrainClosed, DrainFails, Return, Goto,
         Counted, LockInv, Busy, TypeOK, CallerTypes, HolderTypes, LineTypes,
         Class
  <2> QED BY <2>1, <2>2, <2>3
<1>21. CASE DrainCancelled(c)
  <2>1. CallsDistinct' /\ NeverResent'
    BY <1>21 DEF DrainCancelled, CallsDistinct, NeverResent, DrainFails
  <2>2. Counted(c)'
    BY <1>21, Bounds DEF DrainCancelled, DrainFails, Return, Goto, Counted,
         LockInv, Busy, TypeOK, CallerTypes, HolderTypes, LineTypes, Class
  <2>3. ASSUME NEW d \in Callers, d # c PROVE Counted(d)'
    BY <1>21, <2>3, NoSuchCaller DEF DrainCancelled, DrainFails, Return, Goto,
         Counted, LockInv, Busy, TypeOK, CallerTypes, HolderTypes, LineTypes,
         Class
  <2> QED BY <2>1, <2>2, <2>3
<1> QED BY <1>1, <1>2, <1>3, <1>4, <1>5, <1>6, <1>7, <1>8, <1>9, <1>10, <1>11,
     <1>12, <1>13, <1>14, <1>15, <1>16, <1>17, <1>18, <1>19, <1>20, <1>21 DEF
     Step


LEMMA SentStart ==
  ASSUME TypeOK, LockInv, SentInv, NEW c \in Callers, NEW k \in CallKinds, StartCall(c, k)
  PROVE  SentInv'
<1> USE DEF callerVars, doVars, flagVars, portVars, lineVars, readVars, histVars
<1>1. calls + 1 \in Calls /\ call[c] \in 0 .. MaxCalls
  BY Bounds DEF StartCall, TypeOK, CallerTypes, LineTypes, Calls
<1>2. CallsDistinct'
  BY <1>1, Bounds DEF StartCall, SentInv, CallsDistinct, TypeOK, CallerTypes, LineTypes, Calls
<1>3. NeverResent'
  <2>1. sent' = sent /\ sent[calls + 1] = 0
    BY <1>1, Bounds DEF StartCall, SentInv, CallsDistinct, TypeOK, LineTypes
  <2>2. ASSUME NEW i \in Calls, i # calls + 1 PROVE class'[i] = class[i]
    BY <2>2, <1>1 DEF StartCall, TypeOK, LineTypes
  <2> QED BY <1>1, <2>1, <2>2, Bounds DEF SentInv, NeverResent
<1>4. Counted(c)'
  BY <1>1, Bounds DEF StartCall, Goto, SentInv, CallsDistinct, Counted, TypeOK, CallerTypes,
       LineTypes, Calls
<1>5. ASSUME NEW d \in Callers, d # c PROVE Counted(d)'
  <2>1. pc'[d] = pc[d] /\ call'[d] = call[d]
    BY <1>5 DEF StartCall, Goto, TypeOK, CallerTypes
  <2>2. pc[d] # "idle" => class'[call[d]] = class[call[d]]
    BY <1>5, <1>1, Bounds DEF StartCall, LockInv, SentInv, CallsDistinct, TypeOK, LineTypes, Calls
  <2> QED BY <1>5, <2>1, <2>2 DEF StartCall, SentInv, Counted, Class
<1> QED BY <1>2, <1>3, <1>4, <1>5 DEF SentInv

-----------------------------------------------------------------------------
(* TruthInv.                                                               *)

LEMMA TruthStep ==
  ASSUME TypeOK, LockInv, SentInv, TruthInv, NEW c \in Callers, Step(c)
  PROVE  TruthInv'
<1> USE DEF callerVars, doVars, flagVars, portVars, lineVars, readVars, histVars
<1> SUFFICES ASSUME CallsDistinct, \A d \in Callers : Counted(d), \A d \in Callers : Truth(d)
             PROVE  \A d \in Callers : Truth(d)'
  BY DEF SentInv, TruthInv
<1>1. CASE RefuseDeadContext(c)
  <2>1. Truth(c)'
    BY <1>1, Bounds DEF RefuseDeadContext, Goto, Decide, Truth, LockInv, Busy,
         TypeOK, CallerTypes, HolderTypes, LineTypes, Class
  <2>2. ASSUME NEW d \in Callers, d # c PROVE Truth(d)'
    BY <1>1, <2>2, NoSuchCaller DEF RefuseDeadContext, Goto, Decide, Truth,
         LockInv, Busy, TypeOK, CallerTypes, HolderTypes, LineTypes, Class
  <2> QED BY <2>1, <2>2
<1>2. CASE RefuseAtEntry(c)
  <2>1. Truth(c)'
    BY <1>2, Bounds DEF RefuseAtEntry, Goto, Decide, Truth, LockInv, Busy,
         TypeOK, CallerTypes, HolderTypes, LineTypes, Class
  <2>2. ASSUME NEW d \in Callers, d # c PROVE Truth(d)'
    BY <1>2, <2>2, NoSuchCaller DEF RefuseAtEntry, Goto, Decide, Truth,
         LockInv, Busy, TypeOK, CallerTypes, HolderTypes, LineTypes, Class
  <2> QED BY <2>1, <2>2
<1>3. CASE EnterDrain(c)
  <2>1. Truth(c)'
    BY <1>3, Bounds DEF EnterDrain, MuFree, StartDrain, Goto, Truth, LockInv,
         Busy, TypeOK, CallerTypes, HolderTypes, LineTypes, Class
  <2>2. ASSUME NEW d \in Callers, d # c PROVE Truth(d)'
    BY <1>3, <2>2, NoSuchCaller DEF EnterDrain, MuFree, StartDrain, Goto,
         Truth, LockInv, Busy, TypeOK, CallerTypes, HolderTypes, LineTypes,
         Class
  <2> QED BY <2>1, <2>2
<1>4. CASE EnterPurge(c)
  <2>1. Truth(c)'
    BY <1>4, Bounds DEF EnterPurge, MuFree, Goto, Truth, LockInv, Busy,
         TypeOK, CallerTypes, HolderTypes, LineTypes, Class
  <2>2. ASSUME NEW d \in Callers, d # c PROVE Truth(d)'
    BY <1>4, <2>2, NoSuchCaller DEF EnterPurge, MuFree, Goto, Truth, LockInv,
         Busy, TypeOK, CallerTypes, HolderTypes, LineTypes, Class
  <2> QED BY <2>1, <2>2
<1>5. CASE PurgeEvent(c)
  <2>1. Truth(c)'
    BY <1>5, Bounds DEF PurgeEvent, ReturnWith, Return, Goto, Truth, LockInv,
         Busy, TypeOK, CallerTypes, HolderTypes, LineTypes, Class
  <2>2. ASSUME NEW d \in Callers, d # c PROVE Truth(d)'
    BY <1>5, <2>2, NoSuchCaller DEF PurgeEvent, ReturnWith, Return, Goto,
         Truth, LockInv, Busy, TypeOK, CallerTypes, HolderTypes, LineTypes,
         Class
  <2> QED BY <2>1, <2>2
<1>6. CASE PurgeDone(c)
  <2>1. Truth(c)'
    BY <1>6, Bounds DEF PurgeDone, ReturnWith, Return, Goto, Truth, LockInv,
         Busy, TypeOK, CallerTypes, HolderTypes, LineTypes, Class
  <2>2. ASSUME NEW d \in Callers, d # c PROVE Truth(d)'
    BY <1>6, <2>2, NoSuchCaller DEF PurgeDone, ReturnWith, Return, Goto,
         Truth, LockInv, Busy, TypeOK, CallerTypes, HolderTypes, LineTypes,
         Class
  <2> QED BY <2>1, <2>2
<1>7. CASE Disallow(c)
  <2>1. Truth(c)'
    BY <1>7, Bounds DEF Disallow, ReturnWith, Return, Goto, Truth, LockInv,
         Busy, TypeOK, CallerTypes, HolderTypes, LineTypes, Class
  <2>2. ASSUME NEW d \in Callers, d # c PROVE Truth(d)'
    BY <1>7, <2>2, NoSuchCaller DEF Disallow, ReturnWith, Return, Goto, Truth,
         LockInv, Busy, TypeOK, CallerTypes, HolderTypes, LineTypes, Class
  <2> QED BY <2>1, <2>2
<1>8. CASE BeginWrite(c)
  <2>1. Truth(c)'
    BY <1>8, Bounds DEF BeginWrite, Goto, Truth, LockInv, Busy, TypeOK,
         CallerTypes, HolderTypes, LineTypes, Class
  <2>2. ASSUME NEW d \in Callers, d # c PROVE Truth(d)'
    BY <1>8, <2>2, NoSuchCaller DEF BeginWrite, Goto, Truth, LockInv, Busy,
         TypeOK, CallerTypes, HolderTypes, LineTypes, Class
  <2> QED BY <2>1, <2>2
<1>9. CASE RefuseWrite(c)
  <2>1. Truth(c)'
    BY <1>9, Bounds DEF RefuseWrite, ReturnWith, Return, Goto, Truth, LockInv,
         Busy, TypeOK, CallerTypes, HolderTypes, LineTypes, Class
  <2>2. ASSUME NEW d \in Callers, d # c PROVE Truth(d)'
    BY <1>9, <2>2, NoSuchCaller DEF RefuseWrite, ReturnWith, Return, Goto,
         Truth, LockInv, Busy, TypeOK, CallerTypes, HolderTypes, LineTypes,
         Class
  <2> QED BY <2>1, <2>2
<1>10. CASE FrameLeaves(c)
  <2>1. Truth(c)'
    BY <1>10, Bounds DEF FrameLeaves, Goto, Truth, LockInv, Busy, TypeOK,
         CallerTypes, HolderTypes, LineTypes, Class
  <2>2. ASSUME NEW d \in Callers, d # c PROVE Truth(d)'
    BY <1>10, <2>2, NoSuchCaller DEF FrameLeaves, Goto, Truth, LockInv, Busy,
         TypeOK, CallerTypes, HolderTypes, LineTypes, Class, CallsDistinct
  <2> QED BY <2>1, <2>2
<1>11. CASE WriteFails(c)
  <2>1. Truth(c)'
    BY <1>11, Bounds DEF WriteFails, Goto, Truth, LockInv, Busy, TypeOK,
         CallerTypes, HolderTypes, LineTypes, Class
  <2>2. ASSUME NEW d \in Callers, d # c PROVE Truth(d)'
    BY <1>11, <2>2, NoSuchCaller DEF WriteFails, Goto, Truth, LockInv, Busy,
         TypeOK, CallerTypes, HolderTypes, LineTypes, Class
  <2> QED BY <2>1, <2>2
<1>12. CASE WriteFailed(c)
  <2>1. Truth(c)'
    BY <1>12, Bounds DEF WriteFailed, ReturnWith, Return, Goto, Truth,
         LockInv, Busy, TypeOK, CallerTypes, HolderTypes, LineTypes, Class
  <2>2. ASSUME NEW d \in Callers, d # c PROVE Truth(d)'
    BY <1>12, <2>2, NoSuchCaller DEF WriteFailed, ReturnWith, Return, Goto,
         Truth, LockInv, Busy, TypeOK, CallerTypes, HolderTypes, LineTypes,
         Class
  <2> QED BY <2>1, <2>2
<1>13. CASE WaitDeadline(c)
  <2>1. Truth(c)'
    BY <1>13, Bounds DEF WaitDeadline, Conclude, Retries, StartDrain, Return,
         Goto, Decide, Quarantines, Counted, Truth, LockInv, Busy, TypeOK,
         CallerTypes, HolderTypes, LineTypes, Class
  <2>2. ASSUME NEW d \in Callers, d # c PROVE Truth(d)'
    BY <1>13, <2>2, NoSuchCaller DEF WaitDeadline, Conclude, Retries,
         StartDrain, Return, Goto, Decide, Quarantines, Counted, Truth,
         LockInv, Busy, TypeOK, CallerTypes, HolderTypes, LineTypes, Class
  <2> QED BY <2>1, <2>2
<1>14. CASE WaitEvent(c)
  <2>1. Truth(c)'
    BY <1>14, Bounds DEF WaitEvent, Conclude, Retries, StartDrain, Return,
         Goto, Decide, Quarantines, Counted, Truth, LockInv, Busy, TypeOK,
         CallerTypes, HolderTypes, LineTypes, Class
  <2>2. ASSUME NEW d \in Callers, d # c PROVE Truth(d)'
    BY <1>14, <2>2, NoSuchCaller DEF WaitEvent, Conclude, Retries, StartDrain,
         Return, Goto, Decide, Quarantines, Counted, Truth, LockInv, Busy,
         TypeOK, CallerTypes, HolderTypes, LineTypes, Class
  <2> QED BY <2>1, <2>2
<1>15. CASE WaitClosed(c)
  <2>1. Truth(c)'
    BY <1>15, Bounds DEF WaitClosed, Conclude, Retries, StartDrain, Return,
         Goto, Decide, Quarantines, Counted, Truth, LockInv, Busy, TypeOK,
         CallerTypes, HolderTypes, LineTypes, Class
  <2>2. ASSUME NEW d \in Callers, d # c PROVE Truth(d)'
    BY <1>15, <2>2, NoSuchCaller DEF WaitClosed, Conclude, Retries,
         StartDrain, Return, Goto, Decide, Quarantines, Counted, Truth,
         LockInv, Busy, TypeOK, CallerTypes, HolderTypes, LineTypes, Class
  <2> QED BY <2>1, <2>2
<1>16. CASE WaitCancelled(c)
  <2>1. Truth(c)'
    BY <1>16, Bounds DEF WaitCancelled, Conclude, Retries, StartDrain, Return,
         Goto, Decide, Quarantines, Counted, Truth, LockInv, Busy, TypeOK,
         CallerTypes, HolderTypes, LineTypes, Class
  <2>2. ASSUME NEW d \in Callers, d # c PROVE Truth(d)'
    BY <1>16, <2>2, NoSuchCaller DEF WaitCancelled, Conclude, Retries,
         StartDrain, Return, Goto, Decide, Quarantines, Counted, Truth,
         LockInv, Busy, TypeOK, CallerTypes, HolderTypes, LineTypes, Class
  <2> QED BY <2>1, <2>2
<1>17. CASE DrainEvent(c)
  <2>1. Truth(c)'
    BY <1>17, Bounds DEF DrainEvent, Truth, LockInv, Busy, TypeOK,
         CallerTypes, HolderTypes, LineTypes, Class
  <2>2. ASSUME NEW d \in Callers, d # c PROVE Truth(d)'
    BY <1>17, <2>2, NoSuchCaller DEF DrainEvent, Truth, LockInv, Busy, TypeOK,
         CallerTypes, HolderTypes, LineTypes, Class
  <2> QED BY <2>1, <2>2
<1>18. CASE DrainQuiet(c)
  <2>1. Truth(c)'
    BY <1>18, Bounds DEF DrainQuiet, ReturnWith, Return, Goto, Truth, LockInv,
         Busy, TypeOK, CallerTypes, HolderTypes, LineTypes, Class
  <2>2. ASSUME NEW d \in Callers, d # c PROVE Truth(d)'
    BY <1>18, <2>2, NoSuchCaller DEF DrainQuiet, ReturnWith, Return, Goto,
         Truth, LockInv, Busy, TypeOK, CallerTypes, HolderTypes, LineTypes,
         Class
  <2> QED BY <2>1, <2>2
<1>19. CASE DrainCapReached(c)
  <2>1. Truth(c)'
    BY <1>19, Bounds DEF DrainCapReached, DrainFails, Return, Goto, Truth,
         LockInv, Busy, TypeOK, CallerTypes, HolderTypes, LineTypes, Class
  <2>2. ASSUME NEW d \in Callers, d # c PROVE Truth(d)'
    BY <1>19, <2>2, NoSuchCaller DEF DrainCapReached, DrainFails, Return,
         Goto, Truth, LockInv, Busy, TypeOK, CallerTypes, HolderTypes,
         LineTypes, Class
  <2> QED BY <2>1, <2>2
<1>20. CASE DrainClosed(c)
  <2>1. Truth(c)'
    BY <1>20, Bounds DEF DrainClosed, DrainFails, Return, Goto, Truth,
         LockInv, Busy, TypeOK, CallerTypes, HolderTypes, LineTypes, Class
  <2>2. ASSUME NEW d \in Callers, d # c PROVE Truth(d)'
    BY <1>20, <2>2, NoSuchCaller DEF DrainClosed, DrainFails, Return, Goto,
         Truth, LockInv, Busy, TypeOK, CallerTypes, HolderTypes, LineTypes,
         Class
  <2> QED BY <2>1, <2>2
<1>21. CASE DrainCancelled(c)
  <2>1. Truth(c)'
    BY <1>21, Bounds DEF DrainCancelled, DrainFails, Return, Goto, Truth,
         LockInv, Busy, TypeOK, CallerTypes, HolderTypes, LineTypes, Class
  <2>2. ASSUME NEW d \in Callers, d # c PROVE Truth(d)'
    BY <1>21, <2>2, NoSuchCaller DEF DrainCancelled, DrainFails, Return, Goto,
         Truth, LockInv, Busy, TypeOK, CallerTypes, HolderTypes, LineTypes,
         Class
  <2> QED BY <2>1, <2>2
<1> QED BY <1>1, <1>2, <1>3, <1>4, <1>5, <1>6, <1>7, <1>8, <1>9, <1>10, <1>11,
     <1>12, <1>13, <1>14, <1>15, <1>16, <1>17, <1>18, <1>19, <1>20, <1>21 DEF
     Step


LEMMA TruthStart ==
  ASSUME TypeOK, LockInv, SentInv, TruthInv,
         NEW c \in Callers, NEW k \in CallKinds, StartCall(c, k)
  PROVE  TruthInv'
<1> USE DEF callerVars, doVars, flagVars, portVars, lineVars, readVars, histVars
<1>1. Truth(c)'
  <2>1. k \in Classes /\ calls + 1 \in Calls
    BY EngineAssumption, Bounds DEF EngineAssumption, Classes, StartCall, TypeOK, LineTypes, Calls
  <2>2. Class(c)' = k
    BY <2>1 DEF StartCall, Class, TypeOK, CallerTypes, LineTypes
  <2> QED BY <2>1, <2>2 DEF StartCall, Goto, Truth, TypeOK, CallerTypes
<1>2. ASSUME NEW d \in Callers, d # c PROVE Truth(d)'
  <2>1. pc'[d] = pc[d] /\ call'[d] = call[d] /\ outcome'[d] = outcome[d]
    BY <1>2 DEF StartCall, Goto, Decide, TypeOK, CallerTypes
  <2>2. pc[d] # "idle" => class'[call[d]] = class[call[d]]
    BY <1>2, Bounds DEF StartCall, LockInv, SentInv, CallsDistinct, TypeOK, LineTypes, Calls
  <2> QED BY <1>2, <2>1, <2>2 DEF StartCall, TruthInv, Truth, Class
<1> QED BY <1>1, <1>2 DEF TruthInv

-----------------------------------------------------------------------------
(* The inductive invariant, and what follows from it.                      *)

LEMMA IInvInit == Init => IInv
<1> SUFFICES ASSUME Init PROVE IInv
  OBVIOUS
<1>1. TypeOK
  BY TypeInit
<1>2. LockInv /\ TrustInv /\ GateInv /\ TruthInv
  BY DEF Init, LockInv, Busy, TrustInv, GateInv, TruthInv, Truth
<1>3. SentInv
  BY Bounds DEF Init, SentInv, CallsDistinct, NeverResent, Counted, Calls
<1> QED BY <1>1, <1>2, <1>3 DEF IInv

LEMMA IInvStep == IInv /\ [Next]_vars => IInv'
<1> SUFFICES ASSUME IInv, [Next]_vars PROVE IInv'
  OBVIOUS
<1> USE DEF IInv
<1>1. TypeOK'
  BY TypeStep
<1>2. ASSUME NEW c \in Callers, Step(c) PROVE IInv'
  BY <1>1, <1>2, LockStep, TrustStep, GateStep, SentStep, TruthStep
<1>3. ASSUME NEW c \in Callers, NEW k \in CallKinds, StartCall(c, k) PROVE IInv'
  BY <1>1, <1>3, LockStart, TrustStart, GateStart, SentStart, TruthStart
<1>4. CASE Elsewhere
  <2> UNCHANGED <<pc, call, outcome, mu, attempt, why, contaminated, calls, class, sent>>
    BY <1>4, ElsewhereKeeps DEF doVars
  <2>1. LockInv' /\ TrustInv'
    BY DEF LockInv, TrustInv
  <2>2. GateInv'
    BY <1>4, GateElsewhere
  <2>3. SentInv'
    BY DEF SentInv, CallsDistinct, NeverResent, Counted, Class
  <2>4. TruthInv'
    BY DEF TruthInv, Truth, Class
  <2> QED BY <1>1, <2>1, <2>2, <2>3, <2>4
<1> QED BY <1>2, <1>3, <1>4, Steps

THEOREM Invariance == Spec => []IInv
BY IInvInit, IInvStep, PTL DEF Spec

(* Every variable keeps its type and every queue its capacity, in every    *)
(* behaviour of the engine.                                                *)
THEOREM TypeCorrect == Spec => []TypeOK
BY Invariance, PTL DEF IInv

(* e.mu serialises exchanges: one caller at most is past its Lock.         *)
THEOREM MutualExclusion == Spec => []OneExchangeAtATime
<1>1. IInv => OneExchangeAtATime
  BY DEF IInv, LockInv, Busy, OneExchangeAtATime, TypeOK, CallerTypes, Labels
<1> QED BY <1>1, Invariance, PTL

(* Safety obligation 2, for any number of callers, retries and failures: a *)
(* write's frame leaves the host at most once.                             *)
THEOREM SentAtMostOnce == Spec => []NeverResent
<1>1. IInv => NeverResent
  BY DEF IInv, SentInv
<1> QED BY <1>1, Invariance, PTL

(* Only FrameLeaves sends.                                                 *)
LEMMA OnlyWritesSend ==
  ASSUME IInv, [Next]_vars, sent' # sent
  PROVE  \E c \in Callers : pc[c] = "write" /\ FrameLeaves(c)
<1>1. ASSUME NEW c \in Callers, Step(c), ~FrameLeaves(c) PROVE sent' = sent
  BY <1>1 DEF Step, RefuseDeadContext, RefuseAtEntry, EnterDrain, EnterPurge, PurgeEvent,
       PurgeDone, Disallow, BeginWrite, RefuseWrite, WriteFails, WriteFailed, WaitDeadline,
       WaitEvent, WaitClosed, WaitCancelled, DrainEvent, DrainQuiet, DrainCapReached,
       DrainClosed, DrainCancelled, DrainFails, histVars
<1>2. ASSUME NEW c \in Callers, NEW k \in CallKinds, StartCall(c, k) PROVE sent' = sent
  BY <1>2 DEF StartCall
<1>3. ASSUME Elsewhere PROVE sent' = sent
  BY <1>3, ElsewhereKeeps
<1> QED BY <1>1, <1>2, <1>3, Steps DEF FrameLeaves

(* The FatalFramer guarantee, for any number of callers: once publishFatal *)
(* has released fatalGate no frame leaves the host.                        *)
THEOREM FatalIsFinal == Spec => NoFrameAfterFatal
<1>1. IInv /\ [Next]_vars => (published => sent' = sent)
  BY OnlyWritesSend DEF IInv, GateInv
<1> QED BY <1>1, Invariance, PTL DEF Spec, NoFrameAfterFatal

(* No frame is written into a stream whose frame boundaries are lost.      *)
THEOREM NoContaminatedWrite == Spec => NoWriteWhileContaminated
<1>1. IInv /\ [Next]_vars => (contaminated => sent' = sent)
  BY OnlyWritesSend DEF IInv, TrustInv
<1> QED BY <1>1, Invariance, PTL DEF Spec, NoWriteWhileContaminated
=============================================================================
