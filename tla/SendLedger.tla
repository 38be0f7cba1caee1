------------------------------ MODULE SendLedger ------------------------------
(***************************************************************************)
(* What core/clone promises to the caller of Execute, and to whoever reads *)
(* the journals after a crash, with the choreography, the radio's other    *)
(* state and the file format left out.  A send is a ledger: a slot is      *)
(* declared on disk before the radio is touched, one at a time; a write    *)
(* changes the declared slot only, to what the caller confirmed or, half   *)
(* done, to something mangled; it is settled on disk before the next one   *)
(* is declared; and the answer given in the end agrees with the ledger     *)
(* about every slot but the one in doubt.                                  *)
(***************************************************************************)
EXTENDS Naturals

CONSTANTS Slots, Contents, Mangled, MaxRuns

Runs == 1 .. MaxRuns

VARIABLES
  radio,     (* what each slot holds                                       *)
  epoch,     (* the sessions there have been                               *)
  run,       (* the calls of Execute there have been                       *)
  live,      (* the last of them has not returned                          *)
  order,     (* what its caller confirmed: the changed slots' contents     *)
  bound,     (* the session its plan was made in                           *)
  declared,  (* for each run, the slots announced on disk                  *)
  settled,   (* for each run, the slots attested on disk as verified       *)
  changed,   (* for each run, the slots a write of it changed              *)
  answer,    (* what the run under way is about to return, or "none"       *)
  report     (* the slots it names as verified and as failed               *)

diskVars  == <<declared, settled>>
radioVars == <<radio, changed>>
tellVars  == <<answer, report>>
runVars   == <<run, live, order, bound>>
vars == <<radioVars, epoch, runVars, diskVars, tellVars>>

NoOrder  == [s \in {} |-> Mangled]
NoReport == [verified |-> {}, failed |-> {}]

Init ==
  /\ radio \in [Slots -> Contents] /\ epoch = 1
  /\ run = 0 /\ live = FALSE /\ order = NoOrder /\ bound = 0
  /\ declared = [r \in Runs |-> {}] /\ settled = [r \in Runs |-> {}]
  /\ changed = [r \in Runs |-> {}]
  /\ answer = "none" /\ report = NoReport

(* What is told of the run agrees with what it did and put on record.      *)
Truthful ==
  /\ report.verified \cap report.failed = {}
  /\ answer = "refused" =>
       declared[run] = {} /\ changed[run] = {} /\ report = NoReport
  /\ answer = "done" =>
       /\ settled[run] = DOMAIN order /\ declared[run] = settled[run]
       /\ report.verified = settled[run] /\ report.failed = {}
  /\ answer = "aborted" =>
       /\ settled[run] \subseteq report.verified
       /\ report.verified \cup report.failed \subseteq declared[run]
       /\ changed[run] \subseteq report.verified \cup report.failed

GoesOn == UNCHANGED tellVars
Tells(a) ==
  /\ answer' = a
  /\ \E v, f \in SUBSET Slots : report' = [verified |-> v, failed |-> f]
  /\ Truthful'

Undecided == live /\ answer = "none"
Doubt     == declared[run] \ settled[run]

Begin ==
  /\ ~live /\ run \in 0 .. MaxRuns - 1
  /\ live' = TRUE /\ run' = run + 1
  /\ \E S \in SUBSET Slots : order' \in [S -> Contents]
  /\ bound' \in Nat
  /\ UNCHANGED <<radioVars, epoch, diskVars, tellVars>>

(* The line may be in the file although persisting it failed: then the run *)
(* ends.  So, too, in Settle.                                              *)
Declare(s) ==
  /\ Undecided /\ bound = epoch
  /\ Doubt = {} /\ s \in DOMAIN order \ declared[run]
  /\ declared' = [declared EXCEPT ![run] = @ \cup {s}]
  /\ GoesOn \/ Tells("aborted")
  /\ UNCHANGED <<radioVars, epoch, runVars, settled>>

Write(s) ==
  /\ Undecided /\ bound = epoch
  /\ s \in Doubt /\ s \in DOMAIN order
  /\ \E v \in {order[s], Mangled} :
       v # radio[s] /\ radio' = [radio EXCEPT ![s] = v]
  /\ changed' = [changed EXCEPT ![run] = @ \cup {s}]
  /\ UNCHANGED <<epoch, runVars, diskVars, tellVars>>

Settle(s) ==
  /\ Undecided
  /\ s \in Doubt
  /\ settled' = [settled EXCEPT ![run] = @ \cup {s}]
  /\ GoesOn \/ Tells("aborted")
  /\ UNCHANGED <<radioVars, epoch, runVars, declared>>

Conclude ==
  /\ Undecided
  /\ \E a \in {"refused", "aborted", "done"} : Tells(a)
  /\ UNCHANGED <<radioVars, epoch, runVars, diskVars>>

Closes ==
  /\ live /\ live' = FALSE
  /\ order' = NoOrder /\ bound' = 0 /\ answer' = "none" /\ report' = NoReport
  /\ UNCHANGED <<radioVars, run, diskVars>>

Return == answer # "none" /\ Closes /\ UNCHANGED epoch

(* The program dies: the ledger on disk is all that is left of the run.    *)
Die == Closes /\ epoch' = epoch + 1

(* Another session, with this radio or another, between runs.              *)
Reopen ==
  /\ ~live
  /\ epoch' = epoch + 1 /\ radio' \in [Slots -> Contents]
  /\ UNCHANGED <<changed, runVars, diskVars, tellVars>>

(* At the radio's front panel.                                             *)
Edit(s) ==
  /\ \E v \in Contents : radio' = [radio EXCEPT ![s] = v]
  /\ UNCHANGED <<epoch, changed, runVars, diskVars, tellVars>>

Next ==
  \/ Begin \/ Conclude \/ Return \/ Die \/ Reopen
  \/ \E s \in Slots : Declare(s) \/ Write(s) \/ Settle(s) \/ Edit(s)

Spec == Init /\ [][Next]_vars

=============================================================================
