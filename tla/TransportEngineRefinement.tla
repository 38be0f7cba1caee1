---------------------- MODULE TransportEngineRefinement ----------------------
(***************************************************************************)
(* TransportEngine implements SerialExchange, for every value of the       *)
(* constants: whatever readLoop, the queue, the drains and the line do, a  *)
(* caller sees one exchange at a time, never a frame too many, and a       *)
(* verdict that is true of what was sent.                                  *)
(***************************************************************************)
EXTENDS TransportEngineProofs

(* The abstract variables that are not the engine's own.                   *)
phaseOf  == [c \in Callers |-> Phase(c)]
resultOf == [c \in Callers |-> IF pc[c] = "idle" THEN outcome[c] ELSE "none"]

(* A step that leaves caller c where the abstraction cannot see it move.   *)
LEMMA Inside ==
  ASSUME TypeOK, NEW c \in Callers, pc[c] \in Busy, NEW l \in Busy, Goto(c, l),
         \A d \in Callers : d # c => outcome'[d] = outcome[d],
         UNCHANGED <<call, class, sent, published>>
  PROVE  UNCHANGED Exchange!vars
<1>1. phaseOf' = phaseOf
  BY DEF phaseOf, Phase, Goto, Busy, TypeOK, CallerTypes
<1>2. resultOf' = resultOf
  BY DEF resultOf, Goto, Busy, TypeOK, CallerTypes
<1> QED BY <1>1, <1>2 DEF Exchange!vars, phaseOf, resultOf

(* A return from the exchange, with a verdict that is true.                *)
LEMMA Ends ==
  ASSUME TypeOK, NEW c \in Callers, pc[c] \in Busy, Goto(c, "idle"),
         NEW r \in Exchange!Results, outcome' = [outcome EXCEPT ![c] = r],
         Exchange!Truthful(class[call[c]], sent[call[c]], r),
         UNCHANGED <<call, class, sent, published>>
  PROVE  Exchange!Next
<1>1. phaseOf[c] = "exchange" /\ phaseOf' = [phaseOf EXCEPT ![c] = "idle"]
  BY DEF phaseOf, Phase, Goto, Busy, TypeOK, CallerTypes
<1>2. resultOf' = [resultOf EXCEPT ![c] = r]
  BY DEF resultOf, Goto, Busy, TypeOK, CallerTypes
<1>3. Exchange!Finish(c, r)
  BY <1>1, <1>2 DEF Exchange!Finish, phaseOf, resultOf
<1> QED BY <1>3 DEF Exchange!Next

(* Refused before its turn.                                                *)
LEMMA Refused ==
  ASSUME TypeOK, NEW c \in Callers, pc[c] = "lock", Goto(c, "idle"),
         NEW r \in {"Ctx", "Closed", "Contaminated"}, outcome' = [outcome EXCEPT ![c] = r],
         UNCHANGED <<call, class, sent, published>>
  PROVE  Exchange!Next
<1>1. phaseOf[c] = "waiting" /\ phaseOf' = [phaseOf EXCEPT ![c] = "idle"]
  BY DEF phaseOf, Phase, Goto, TypeOK, CallerTypes
<1>2. resultOf' = [resultOf EXCEPT ![c] = r]
  BY DEF resultOf, Goto, TypeOK, CallerTypes
<1>3. Exchange!Refuse(c)
  BY <1>1, <1>2 DEF Exchange!Refuse, phaseOf, resultOf
<1> QED BY <1>3 DEF Exchange!Next

(* The Lock of e.mu is passed.                                             *)
LEMMA Begun ==
  ASSUME TypeOK, LockInv, NEW c \in Callers, pc[c] = "lock", mu = "none",
         NEW l \in Busy, Goto(c, l), UNCHANGED <<outcome, call, class, sent, published>>
  PROVE  Exchange!Next
<1>1. \A d \in Callers : phaseOf[d] # "exchange"
  BY NoSuchCaller DEF phaseOf, Phase, LockInv, Busy, TypeOK, CallerTypes, Labels
<1>2. phaseOf[c] = "waiting" /\ phaseOf' = [phaseOf EXCEPT ![c] = "exchange"]
  BY DEF phaseOf, Phase, Goto, Busy, TypeOK, CallerTypes
<1>3. resultOf' = resultOf
  BY DEF resultOf, Goto, Busy, TypeOK, CallerTypes
<1>4. Exchange!Begin(c)
  BY <1>1, <1>2, <1>3 DEF Exchange!Begin, phaseOf, resultOf
<1> QED BY <1>4 DEF Exchange!Next

(* The verdicts of a wait.                                                 *)
LEMMA WaitRefines ==
  ASSUME IInv, NEW c \in Callers, pc[c] = "wait", NEW o, NEW id, Conclude(c, o, id),
         o \in {"Ok", "Rejected", "Timeout", "Ctx", "Closed", "Contaminated"},
         o = "Timeout" => Class(c) # "Write",
         UNCHANGED <<call, class, sent, published>>
  PROVE  Exchange!Next \/ UNCHANGED Exchange!vars
<1> USE DEF IInv
<1>1. /\ attempt > 0 /\ sent[call[c]] = attempt /\ attempt \in Nat /\ attempt =< RetryReads + 1
      /\ Class(c) # "Drain" /\ (Class(c) # "Read" => attempt = 1)
  BY Bounds DEF SentInv, Counted, TruthInv, Truth, TypeOK, HolderTypes
<1>2. pc[c] \in Busy /\ "drain" \in Busy
  BY DEF Busy
<1>3. CASE StartDrain(c, "retry") /\ UNCHANGED outcome
  BY <1>2, <1>3, Inside DEF StartDrain
<1>4. CASE StartDrain(c, "after") /\ Decide(c, o, id)
  BY <1>2, <1>4, Inside DEF StartDrain, Decide, TypeOK, CallerTypes
<1>5. CASE ~Retries(c, o) /\ Return(c) /\ Decide(c, o, id)
  <2>1. Exchange!Truthful(class[call[c]], sent[call[c]], o)
    <3>1. CASE o = "Timeout"
      <4>1. class[call[c]] \in {"Read", "Ack"}
        BY <1>1, <3>1 DEF TruthInv, Truth, Class, Classes
      <4> QED BY <1>1, <1>5, <3>1, <4>1, Bounds
               DEF Exchange!Truthful, Exchange!Limit, Retries, Class
    <3>2. CASE o # "Timeout"
      BY <1>1, <3>2 DEF Exchange!Truthful
    <3> QED BY <3>1, <3>2
  <2> QED BY <1>2, <1>5, <2>1, Ends DEF Return, Decide, Exchange!Results
<1> QED BY <1>3, <1>4, <1>5 DEF Conclude
(* A drain that fails.                                                     *)
LEMMA DrainRefines ==
  ASSUME IInv, NEW c \in Callers, pc[c] = "drain", NEW o, DrainFails(c, o),
         o \in {"DrainCap", "Closed", "Ctx"}
  PROVE  Exchange!Next
<1> USE DEF IInv, portVars, histVars
<1>1. /\ pc[c] \in Busy /\ UNCHANGED <<call, class, sent, published>>
      /\ Goto(c, "idle") /\ outcome[c] \in Outcomes
  BY DEF Busy, DrainFails, Return, TypeOK, CallerTypes
<1>2. CASE why \in {"caller", "retry"} /\ Decide(c, o, 0)
  <2>1. Exchange!Truthful(class[call[c]], sent[call[c]], o)
    BY <1>2, Bounds DEF Exchange!Truthful, SentInv, Counted, TruthInv, Truth, Class, TypeOK, HolderTypes
  <2> QED BY <1>1, <1>2, <2>1, Ends DEF Decide, Exchange!Results
<1>3. CASE why = "entry" /\ Decide(c, "QuarantineFailed", 0)
  <2>1. Exchange!Truthful(class[call[c]], sent[call[c]], "QuarantineFailed")
    BY <1>3 DEF Exchange!Truthful, SentInv, Counted, TruthInv, Truth, Class
  <2> QED BY <1>1, <1>3, <2>1, Ends DEF Decide, Exchange!Results
<1>4. CASE why = "after" /\ UNCHANGED outcome
  <2>1. /\ outcome[c] \in {"Ok", "Rejected"}
        /\ Exchange!Truthful(class[call[c]], sent[call[c]], outcome[c])
    BY <1>4 DEF Exchange!Truthful, TruthInv, Truth
  <2>2. outcome' = [outcome EXCEPT ![c] = outcome[c]]
    BY <1>4 DEF TypeOK, CallerTypes
  <2> QED BY <1>1, <2>1, <2>2, Ends DEF Exchange!Results
<1> QED BY <1>2, <1>3, <1>4 DEF DrainFails

(* A return that says the engine is closed, the stream contaminated, the   *)
(* context dead or the frame disallowed is true of any exchange but a      *)
(* DrainToQuiet's.                                                         *)
LEMMA Excused ==
  ASSUME IInv, NEW c \in Callers, pc[c] \in {"purge", "send", "failed"},
         NEW r \in {"Ctx", "Closed", "Contaminated", "Disallowed"}, ReturnWith(c, r),
         UNCHANGED <<call, class, sent, published>>
  PROVE  Exchange!Next
<1>1. Exchange!Truthful(class[call[c]], sent[call[c]], r)
  BY DEF IInv, Exchange!Truthful, TruthInv, Truth, Class
<1> QED BY <1>1, Ends DEF IInv, Busy, ReturnWith, Return, Decide, Exchange!Results

LEMMA StepRefines ==
  ASSUME IInv, NEW c \in Callers, Step(c)
  PROVE  Exchange!Next \/ UNCHANGED Exchange!vars
<1> USE DEF IInv, callerVars, doVars, flagVars, portVars, lineVars, readVars, histVars
<1>1. CASE RefuseDeadContext(c)
  BY <1>1, Refused DEF RefuseDeadContext, Decide
<1>2. CASE RefuseAtEntry(c)
  BY <1>2, Refused DEF RefuseAtEntry, Decide
<1>3. CASE EnterDrain(c)
  BY <1>3, Begun DEF EnterDrain, MuFree, StartDrain, Busy
<1>4. CASE EnterPurge(c)
  BY <1>4, Begun DEF EnterPurge, MuFree, Busy
<1>5. CASE PurgeEvent(c)
  <2>1. CASE ReturnWith(c, "Closed") \/ ReturnWith(c, "Contaminated")
    BY <1>5, <2>1, Excused DEF PurgeEvent
  <2>2. CASE UNCHANGED <<pc, outcome>>
    BY <1>5, <2>2 DEF PurgeEvent, Exchange!vars, Phase
  <2> QED BY <1>5, <2>1, <2>2 DEF PurgeEvent
<1>6. CASE PurgeDone(c)
  <2>1. CASE ReturnWith(c, "Ctx")
    BY <1>6, <2>1, Excused DEF PurgeDone
  <2>2. CASE Goto(c, "send") /\ UNCHANGED outcome
    BY <1>6, <2>2, Inside DEF PurgeDone, Busy
  <2> QED BY <1>6, <2>1, <2>2 DEF PurgeDone
<1>7. CASE Disallow(c)
  BY <1>7, Excused DEF Disallow
<1>8. CASE BeginWrite(c)
  BY <1>8, Inside DEF BeginWrite, Busy
<1>9. CASE RefuseWrite(c)
  BY <1>9, Excused DEF RefuseWrite
<1>10. CASE FrameLeaves(c)
  <2>1. phaseOf[c] = "exchange" /\ phaseOf' = phaseOf
    BY <1>10 DEF FrameLeaves, Goto, phaseOf, Phase, TypeOK, CallerTypes
  <2>2. resultOf' = resultOf
    BY <1>10 DEF FrameLeaves, Goto, resultOf, TypeOK, CallerTypes
  <2>3. ~published
    BY <1>10 DEF FrameLeaves, GateInv
  <2>4. sent[call[c]] < Exchange!Limit(class[call[c]])
    BY <1>10, Bounds DEF FrameLeaves, SentInv, Counted, TruthInv, Truth, Class, Classes,
         Exchange!Limit, TypeOK, HolderTypes
  <2>5. Exchange!Transmit(c)
    BY <1>10, <2>1, <2>2, <2>3, <2>4 DEF FrameLeaves, Exchange!Transmit, phaseOf, resultOf
  <2> QED BY <2>5 DEF Exchange!Next
<1>11. CASE WriteFails(c)
  BY <1>11, Inside DEF WriteFails, Busy
<1>12. CASE WriteFailed(c)
  BY <1>12, Excused DEF WriteFailed
<1>13. CASE WaitDeadline(c)
  BY <1>13, WaitRefines DEF WaitDeadline
<1>14. CASE WaitEvent(c)
  <2>1. CASE UNCHANGED <<pc, outcome>>
    BY <1>14, <2>1 DEF WaitEvent, Exchange!vars, Phase
  <2>2. CASE \E o \in {"Ok", "Rejected", "Closed", "Contaminated"} :
               \E id : Conclude(c, o, id)
    BY <1>14, <2>2, WaitRefines DEF WaitEvent
  <2> QED BY <1>14, <2>1, <2>2 DEF WaitEvent
<1>15. CASE WaitClosed(c)
  BY <1>15, WaitRefines DEF WaitClosed
<1>16. CASE WaitCancelled(c)
  BY <1>16, WaitRefines DEF WaitCancelled
<1>17. CASE DrainEvent(c)
  BY <1>17 DEF DrainEvent, Exchange!vars, Phase
<1>18. CASE DrainQuiet(c)
  <2>0. pc[c] \in Busy /\ {"purge", "send"} \subseteq Busy
    BY <1>18 DEF DrainQuiet, Busy
  <2>1. CASE why = "caller" /\ ReturnWith(c, "Ok")
    <3>1. Exchange!Truthful(class[call[c]], sent[call[c]], "Ok")
      BY <1>18, <2>1 DEF DrainQuiet, Exchange!Truthful, TruthInv, Truth, Class
    <3> QED BY <1>18, <2>0, <2>1, <3>1, Ends
            DEF DrainQuiet, ReturnWith, Return, Decide, Exchange!Results
  <2>2. CASE why = "after" /\ Return(c) /\ UNCHANGED outcome
    <3>1. /\ outcome[c] \in {"Ok", "Rejected"}
          /\ Exchange!Truthful(class[call[c]], sent[call[c]], outcome[c])
      BY <1>18, <2>2 DEF DrainQuiet, Exchange!Truthful, TruthInv, Truth
    <3>2. outcome' = [outcome EXCEPT ![c] = outcome[c]]
      BY <2>2 DEF TypeOK, CallerTypes
    <3> QED BY <1>18, <2>0, <2>2, <3>1, <3>2, Ends DEF DrainQuiet, Return, Exchange!Results
  <2>3. CASE (Goto(c, "purge") \/ Goto(c, "send")) /\ UNCHANGED outcome
    BY <1>18, <2>0, <2>3, Inside DEF DrainQuiet
  <2> QED BY <1>18, <2>1, <2>2, <2>3 DEF DrainQuiet
<1>19. CASE DrainCapReached(c)
  BY <1>19, DrainRefines DEF DrainCapReached
<1>20. CASE DrainClosed(c)
  BY <1>20, DrainRefines DEF DrainClosed
<1>21. CASE DrainCancelled(c)
  BY <1>21, DrainRefines DEF DrainCancelled
<1> QED BY <1>1, <1>2, <1>3, <1>4, <1>5, <1>6, <1>7, <1>8, <1>9, <1>10, <1>11,
     <1>12, <1>13, <1>14, <1>15, <1>16, <1>17, <1>18, <1>19, <1>20, <1>21 DEF
     Step

LEMMA StartRefines ==
  ASSUME IInv, NEW c \in Callers, NEW k \in CallKinds, StartCall(c, k)
  PROVE  Exchange!Next
<1> USE DEF IInv, portVars
<1>1. calls + 1 \in Calls /\ k \in Classes /\ class[calls + 1] = "unset"
  BY EngineAssumption, Bounds DEF EngineAssumption, StartCall, Calls, Classes, TypeOK, LineTypes,
       SentInv, CallsDistinct
<1>2. phaseOf[c] = "idle" /\ phaseOf' = [phaseOf EXCEPT ![c] = "waiting"]
  BY DEF StartCall, Goto, phaseOf, Phase, TypeOK, CallerTypes
<1>3. resultOf' = [resultOf EXCEPT ![c] = "none"]
  BY DEF StartCall, Goto, Decide, resultOf, TypeOK, CallerTypes
<1>4. Exchange!Request(c, calls + 1, k)
  BY <1>1, <1>2, <1>3 DEF StartCall, Exchange!Request, phaseOf, resultOf
<1> QED BY <1>1, <1>4 DEF Exchange!Next, Exchange!Calls, Exchange!Classes, Calls, Classes

LEMMA ElsewhereRefines ==
  ASSUME IInv, Elsewhere
  PROVE  Exchange!Next \/ UNCHANGED Exchange!vars
<1>1. UNCHANGED <<pc, call, outcome, class, sent>>
  BY ElsewhereKeeps
<1>2. phaseOf' = phaseOf /\ resultOf' = resultOf
  BY <1>1 DEF phaseOf, Phase, resultOf
<1>3. published' = published \/ published' = TRUE
  BY DEF Elsewhere, Reader, ReadChunk, ReadError, SendEvent, ReaderCloses, ReaderClosed, Publish,
       Published, LastEvent, CloseEngine, CloseReturns, PortClosed, RadioReply,
       RadioUnsolicited, CancelContext, vars, portVars
<1>4. CASE published' = published
  BY <1>1, <1>2, <1>4 DEF Exchange!vars, phaseOf, resultOf
<1>5. CASE published' = TRUE
  BY <1>1, <1>2, <1>5 DEF Exchange!LinkEnds, Exchange!Next, phaseOf, resultOf
<1> QED BY <1>3, <1>4, <1>5

(* The engine keeps SerialExchange's promises in every behaviour: Init     *)
(* maps to its Init, and every step to one of its steps or to a stutter.   *)
THEOREM Refinement == Spec => ImplementsExchange
<1>1. Init => Exchange!Init
  BY DEF Init, Exchange!Init, Phase, Calls, Exchange!Calls
<1>2. IInv /\ [Next]_vars => [Exchange!Next]_(Exchange!vars)
  BY Steps, StepRefines, StartRefines, ElsewhereRefines
<1> QED BY <1>1, <1>2, Invariance, PTL DEF Spec, ImplementsExchange, Exchange!Spec

=============================================================================
