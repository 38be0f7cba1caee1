---------------------------- MODULE SerialExchange ----------------------------
(***************************************************************************)
(* What core/transport promises its callers, with the reader goroutine,    *)
(* the queue, the quarantines and the line left out: exchanges happen one  *)
(* at a time; a call's frame leaves the host only inside its own exchange, *)
(* at most as often as its class allows, and never once a fatal frame has  *)
(* been published; and what a call returns tells the truth about whether   *)
(* its frame was sent.                                                     *)
(***************************************************************************)
EXTENDS Naturals

CONSTANTS Callers, MaxCalls, RetryReads

Calls   == 1 .. MaxCalls
Classes == {"Read", "Write", "Ack", "Drain"}

VARIABLES
  phase,    (* idle, waiting for its turn, or in its exchange   *)
  call,     (* the number of each caller's latest call          *)
  result,   (* what that call returned, "none" until it does    *)
  class,    (* the class of each call                           *)
  sent,     (* how often each call's frame left the host        *)
  over      (* a fatal frame has been published                 *)

vars == <<phase, call, result, class, sent, over>>

Init ==
  /\ phase = [c \in Callers |-> "idle"]
  /\ call = [c \in Callers |-> 0]
  /\ result = [c \in Callers |-> "none"]
  /\ class = [i \in Calls |-> "unset"]
  /\ sent = [i \in Calls |-> 0]
  /\ over = FALSE

(* How often the frame of a call of class k may leave the host.            *)
Limit(k) == CASE k = "Read"  -> RetryReads + 1
              [] k = "Drain" -> 0
              [] OTHER       -> 1

Request(c, i, k) ==
  /\ phase[c] = "idle" /\ class[i] = "unset"
  /\ phase' = [phase EXCEPT ![c] = "waiting"]
  /\ call' = [call EXCEPT ![c] = i]
  /\ class' = [class EXCEPT ![i] = k]
  /\ result' = [result EXCEPT ![c] = "none"]
  /\ UNCHANGED <<sent, over>>

(* Refused before its turn, nothing sent.                                  *)
Refuse(c) ==
  /\ phase[c] = "waiting"
  /\ phase' = [phase EXCEPT ![c] = "idle"]
  /\ \E r \in {"Ctx", "Closed", "Contaminated"} :
       result' = [result EXCEPT ![c] = r]
  /\ UNCHANGED <<call, class, sent, over>>

Begin(c) ==
  /\ phase[c] = "waiting"
  /\ \A d \in Callers : phase[d] # "exchange"
  /\ phase' = [phase EXCEPT ![c] = "exchange"]
  /\ UNCHANGED <<call, result, class, sent, over>>

Transmit(c) ==
  /\ phase[c] = "exchange" /\ ~over
  /\ sent[call[c]] < Limit(class[call[c]])
  /\ sent' = [sent EXCEPT ![call[c]] = @ + 1]
  /\ UNCHANGED <<phase, call, result, class, over>>

(* What a call of class k that was transmitted n times may return.         *)
Truthful(k, n, r) ==
  CASE r = "Ok"               -> k = "Drain" \/ n > 0
    [] r = "Rejected"         -> n > 0
    [] r = "Timeout"          -> k \in {"Read", "Ack"} /\ n = Limit(k)
    [] r = "QuarantineFailed" -> k # "Drain" /\ n = 0
    [] r = "Disallowed"       -> k # "Drain"
    [] r = "DrainCap"         -> k = "Drain" \/ (k = "Read" /\ n > 0)
    [] OTHER                  -> r \in {"Ctx", "Closed", "Contaminated"}

Finish(c, r) ==
  /\ phase[c] = "exchange"
  /\ Truthful(class[call[c]], sent[call[c]], r)
  /\ phase' = [phase EXCEPT ![c] = "idle"]
  /\ result' = [result EXCEPT ![c] = r]
  /\ UNCHANGED <<call, class, sent, over>>

LinkEnds ==
  /\ over' = TRUE
  /\ UNCHANGED <<phase, call, result, class, sent>>

Results == {"Ok", "Rejected", "Timeout", "Ctx", "Closed", "Contaminated",
            "Disallowed", "QuarantineFailed", "DrainCap"}

Next ==
  \/ \E c \in Callers :
       \/ \E i \in Calls, k \in Classes : Request(c, i, k)
       \/ Refuse(c) \/ Begin(c) \/ Transmit(c)
       \/ \E r \in Results : Finish(c, r)
  \/ LinkEnds

Spec == Init /\ [][Next]_vars

=============================================================================
