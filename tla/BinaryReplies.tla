---------------------------- MODULE BinaryReplies ----------------------------
(***************************************************************************)
(* core/bincat: replies without a terminator.  How long a reply is, the    *)
(* accumulator knows only from the request, which is noted as it is sent;  *)
(* the bytes carry nothing that says which request they answer.  Seen here *)
(* from one session of core/driver/ft890900: two probes for the identity   *)
(* of the radio, the second of which one model never answers, then reads.  *)
(*                                                                         *)
(* The line is in order; an answer to a read may be late, but not later    *)
(* than a drain, when the engine runs one to its end: before it sends      *)
(* again, and before the next call if suspect says so.  Writes are never   *)
(* answered and note nothing; they are left out.                           *)
(***************************************************************************)
EXTENDS Naturals, Sequences, FiniteSets, SequencesExt

CONSTANTS
  RecordLen,     (* length of a memory record, which both probes ask for   *)
  ReadLens,      (* lengths of the other replies: both VFOs, operating data *)
  ReadRetries,   (* RetryReads of a read; a probe has none                 *)
  MaxFrame,      (* the accumulator's max                                  *)
  MaxWantQueue,  (* maxWantQueue                                           *)
  Faults,        (* what befalls a read's reply: "silent", "byte" lost     *)
  MaxRequests    (* bound: exchanges of a session                          *)

VARIABLES
  want,      (* accumulator.want                                           *)
  buf,       (* accumulator.buf                                            *)
  link,      (* "open", in Do "waiting" or "retrying", or "closed"         *)
  suspect,   (* Engine.suspect                                             *)
  boundary,  (* does the radio answer the second probe, is it expected to  *)
  request,   (* number of the exchange: 1 and 2 are the probes             *)
  length,    (* ReplyLength of its frame                                   *)
  attempt,   (* transmissions of this request before the latest one        *)
  sent,      (* history: transmissions of the session                      *)
  line,      (* bytes on their way to the host                             *)
  answer,    (* what Do returned for the latest request, <<>> for none     *)
  astray     (* history: a call was given up in its retry drain, its reply *)
             (* still on the line, and no drain has cleared that since     *)

callVars == <<request, length, attempt, sent>>
vars == <<want, buf, link, suspect, boundary, callVars, line, answer, astray>>

Init ==
  /\ want = <<>> /\ buf = <<>> /\ link = "open" /\ request = 0
  /\ suspect = FALSE /\ astray = FALSE
  /\ length = 0 /\ attempt = 0 /\ sent = 0 /\ line = <<>> /\ answer = <<>>
  /\ boundary \in [answered : BOOLEAN, expected : BOOLEAN]

Lengths == ReadLens \cup {RecordLen}

-----------------------------------------------------------------------------
(* The answer to transmission t, and what the line leaves of it.           *)
Reply(t, n) == [i \in 1 .. n |-> <<t, i>>]

Arrives(t, r, n) ==
  CASE r = 2 -> {IF boundary.answered THEN Reply(t, n) ELSE <<>>}
    [] r = 1 -> {Reply(t, n)}
    [] r > 2 -> {Reply(t, n)} \cup (IF "silent" \in Faults THEN {<<>>} ELSE {})
                  \cup (IF "byte" \in Faults THEN {RemoveAt(Reply(t, n), i) : i \in 1 .. n}
                        ELSE {})

(* accumulator.noteWant: the oldest length makes room for the newest.      *)
NoteWant(n) ==
  want' = Append(IF Len(want) >= MaxWantQueue THEN Tail(want) ELSE want, n)

(* Engine.Do sends a frame: its reply's length is noted first.             *)
Transmit(r, n) ==
  /\ NoteWant(n) /\ sent' = sent + 1
  /\ \E bytes \in Arrives(sent', r, n) : line' = line \o bytes

(* drainToQuietLocked ends well: all that was to arrive was handed to the  *)
(* accumulator (Deliver) and its frames dropped.  Nothing is astray if     *)
(* each length met its reply.                                              *)
Drain ==
  /\ line = <<>>
  /\ suspect' = FALSE
  /\ astray' = (astray /\ (want # <<>> \/ buf # <<>>))

(* Do begins: the drain at its entry runs on a suspect stream only.  The   *)
(* caller may be gone when it ends; then nothing is sent.                  *)
EntryDrain ==
  /\ link = "open" /\ suspect /\ Drain
  /\ UNCHANGED <<want, buf, link, boundary, callVars, line, answer>>

(* probeIdentity's probes, then readRecord and readStatusUpdate.  A stream *)
(* that is not suspect is trusted, whatever is on the line.                *)
Ask(n) ==
  /\ link = "open" /\ request < MaxRequests /\ ~suspect
  /\ request < 2 => n = RecordLen
  /\ link' = "waiting" /\ request' = request + 1 /\ length' = n /\ attempt' = 0
  /\ answer' = <<>>
  /\ Transmit(request + 1, n) /\ UNCHANGED <<buf, suspect, boundary, astray>>

(* accumulator.push: a frame for each length at the front of the queue     *)
(* that the buffer satisfies.                                              *)
Push(w, b) ==
  LET cut[k \in 0 .. Len(w)] ==
        LET done == Len(w) - k
            rest == SubSeq(b, 1 + FoldLeft(LAMBDA s, n : s + n, 0, SubSeq(w, 1, done)), Len(b))
        IN IF k = 0 \/ Len(rest) < w[done + 1]
             THEN [frames |-> <<>>, want |-> SubSeq(w, done + 1, Len(w)), rest |-> rest]
             ELSE [cut[k - 1] EXCEPT !.frames = <<SubSeq(rest, 1, w[done + 1])>> \o @]
  IN cut[Len(w)]

(* A verdict on the second probe: only the expected one opens the session. *)
OpenUnless(wrong) == IF request = 2 /\ wrong THEN "closed" ELSE "open"

(* The reader goroutine pushes a chunk.  The first frame of a chunk is the *)
(* answer: ExactLengthMatcher takes any.  Without a call that waits, and   *)
(* after the first, frames are dropped.                                    *)
Deliver(k) ==
  LET cut == Push(want, buf \o SubSeq(line, 1, k))
      over == Len(cut.rest) > MaxFrame
      first == IF cut.frames # <<>> /\ link = "waiting" THEN cut.frames[1] ELSE <<>>
  IN /\ line' = SubSeq(line, k + 1, Len(line))
     /\ buf' = IF over THEN <<>> ELSE cut.rest
     /\ want' = IF over THEN <<>> ELSE cut.want
     /\ answer' = IF first # <<>> THEN first ELSE answer
     /\ link' = IF first # <<>> THEN OpenUnless(~boundary.expected) ELSE link
     /\ UNCHANGED <<suspect, boundary, callVars, astray>>

(* A wait for a read is over, its answer late or lost: Do drains, then     *)
(* sends again.                                                            *)
Retries == request > 2 /\ attempt < ReadRetries

TimedOutOnce ==
  /\ link = "waiting" /\ Retries
  /\ link' = "retrying"
  /\ UNCHANGED <<want, buf, suspect, boundary, callVars, line, answer, astray>>

Retry ==
  /\ link = "retrying" /\ Drain
  /\ link' = "waiting" /\ attempt' = attempt + 1
  /\ Transmit(request, length)
  /\ UNCHANGED <<buf, boundary, request, length, answer>>

(* Mutant: the length noted for the silent probe stays.                    *)
CancelNothing == UNCHANGED want
(* CancelPendingWant: the length noted last will never be needed.          *)
CancelPendingWant == want' = IF want = <<>> THEN want ELSE Front(want)

(* The last attempt is over.  Silence is what one model says to the second *)
(* probe, and it is not late; to the first it says that there is no radio. *)
TimedOut ==
  /\ link = "waiting" /\ ~Retries
  /\ request <= 2 => line = <<>>
  /\ suspect' = TRUE
  /\ link' = IF request = 1 THEN "closed" ELSE OpenUnless(boundary.expected)
  /\ IF request = 2 /\ ~boundary.expected THEN CancelPendingWant ELSE UNCHANGED want
  /\ UNCHANGED <<buf, boundary, callVars, line, answer, astray>>

(* The caller gives up its wait.  A probe given up is a session never      *)
(* opened.                                                                 *)
Cancelled ==
  /\ link = "waiting"
  /\ link' = IF request <= 2 THEN "closed" ELSE "open"
  /\ suspect' = TRUE
  /\ UNCHANGED <<want, buf, boundary, callVars, line, answer, astray>>

(* The drain before a retry fails: the caller is gone, or the line was not *)
(* quiet until the cap.  Do returns and does not mark the stream suspect.  *)
GivenUp ==
  /\ link = "retrying"
  /\ link' = "open"
  /\ astray' = (astray \/ line # <<>>)
  /\ UNCHANGED <<want, buf, suspect, boundary, callVars, line, answer>>

Next ==
  \/ EntryDrain
  \/ \E n \in Lengths : Ask(n)
  \/ \E k \in 1 .. Len(line) : Deliver(k)
  \/ TimedOutOnce
  \/ Retry
  \/ TimedOut
  \/ Cancelled
  \/ GivenUp

Spec == Init /\ [][Next]_vars

-----------------------------------------------------------------------------
(* Properties.                                                             *)

(* Every variable has its type.                                            *)
Bytes == (1 .. sent) \X (1 .. MaxFrame)
TypeOK ==
  /\ want \in Seq(Lengths) /\ Len(want) <= MaxWantQueue
  /\ buf \in Seq(Bytes) /\ Len(buf) <= MaxFrame
  /\ link \in {"open", "waiting", "retrying", "closed"}
  /\ request \in 0 .. MaxRequests /\ length \in Lengths \cup {0}
  /\ attempt \in 0 .. ReadRetries /\ line \in Seq(Bytes) /\ answer \in Seq(Bytes)
  /\ suspect \in BOOLEAN /\ astray \in BOOLEAN

(* The answer that Do hands to a caller is one whole reply, and to one of  *)
(* the transmissions of that caller's own request: never the end of one    *)
(* spliced to the beginning of the next, never an earlier request's, which *)
(* nothing downstream could tell (a spliced record decodes).  So it is     *)
(* after every wait that timed out or was cancelled, at any moment, since  *)
(* suspect then makes the next call drain.  It is not so after a call that *)
(* was given up in the drain before a retry (engine.go:676 marks nothing): *)
(* the next call sends at once, and ExactLengthMatcher takes the late      *)
(* reply for its own.  astray excepts what follows until a drain is done.  *)
AnswerIsTheReply ==
  (answer # <<>> /\ ~astray) => \E t \in (sent - attempt) .. sent : answer = Reply(t, length)

=============================================================================
