--------------------------- MODULE FrameAccumulators ---------------------------
(***************************************************************************)
(* core/civ/accumulator.go, core/cat/accumulator.go and its twin in        *)
(* core/kw: frames put together from the chunks in which the reader        *)
(* goroutine happens to receive the bytes of a radio.                      *)
(*                                                                         *)
(* A byte stream is any sequence over the bytes that matter.  CI-V opens a *)
(* frame with two preamble bytes, ends it with an end byte and addresses   *)
(* it; it may come back as an echo of what this program has written.  CAT  *)
(* and Kenwood frames only end, with a semicolon.                          *)
(***************************************************************************)
EXTENDS Naturals, Sequences, FiniteSets, SequencesExt

CONSTANTS
  Families,     (* "civ" and "cat"                                         *)
  MaxFrame,     (* the accumulator's max, in bytes                         *)
  MinFrameLen,  (* minFrameLen of CI-V                                     *)
  MaxNotedSent, (* maxNotedSent                                            *)
  SentFrames,   (* CI-V frames written: to the radio, never to ourselves   *)
  MaxNotes,     (* bound: writes                                           *)
  Chunks,       (* of each family: the chunks that may arrive              *)
  MaxPushes     (* bound: chunks                                           *)

Pre == "FE"   End == "FD"   Controller == "E0"   Radio == "94"
Semicolon == ";"

Alphabet(fam) == IF fam = "civ" THEN {Pre, End, Controller, Radio} ELSE {Semicolon, "a"}

VARIABLES
  family,    (* which accumulator                                          *)
  buf,       (* FrameAccumulator.buf                                       *)
  noted,     (* FrameAccumulator.noted                                     *)
  notes,     (* how many writes there have been, for the bound             *)
  pushes,    (* how many chunks, for the bound                             *)
  stream,    (* history: every byte pushed so far                          *)
  returned,  (* history: every frame Push has returned                     *)
  tooLong    (* history: Push has returned a FrameTooLongError             *)

vars == <<family, buf, noted, notes, pushes, stream, returned, tooLong>>

Init ==
  /\ family \in Families
  /\ buf = <<>> /\ noted = <<>> /\ notes = 0 /\ pushes = 0
  /\ stream = <<>> /\ returned = <<>> /\ tooLong = FALSE

-----------------------------------------------------------------------------
(* What one Push cuts out of a buffer: the complete frames, the bytes kept *)
(* for the next one, and whether it stops at a frame longer than MaxFrame, *)
(* which discards the rest of the buffer.                                  *)

Cut(frames, rest, long) == [frames |-> frames, rest |-> rest, long |-> long]
AndThen(frame, cut) == [cut EXCEPT !.frames = <<frame>> \o @]

(* indexPreamblePair                                                       *)
PreamblePair(b, i) ==
  SelectInSubSeq([j \in 1 .. Len(b) |-> j], i, Len(b) - 1,
                 LAMBDA j : b[j] = Pre /\ b[j + 1] = Pre)

(* The last preamble byte of the run that begins at p.                     *)
RunEnd(b, p) ==
  CHOOSE l \in p .. Len(b) : /\ \A j \in p .. l : b[j] = Pre
                             /\ l < Len(b) => b[l + 1] # Pre

(* A half preamble at the end may be the first byte of a pair.             *)
KeepLone(b, i) ==
  IF i <= Len(b) /\ b[Len(b)] = Pre THEN <<Pre>> ELSE <<>>

(* Mutants: the terminator is counted twice; a frame without a terminator  *)
(* is spliced into its successor.                                          *)
BoundCountsTwice(last) == last + MaxFrame - 3
StopsAtEndOnly(byte) == byte = End
(* The last place where a terminator makes a frame of at most MaxFrame.    *)
LastInBound(last) == last + MaxFrame - 2
Stops(byte) == byte \in {Pre, End}

CutCIV(b) ==
  LET cut[i \in 1 .. Len(b) + 1] ==
        LET p    == PreamblePair(b, i)
            last == RunEnd(b, p)
            stop == SelectInSubSeq(b, last + 1, Len(b), Stops)
            frame == <<Pre, Pre>> \o SubSeq(b, last + 1, stop)
        IN CASE p = 0 -> Cut(<<>>, KeepLone(b, i), FALSE)
             [] p # 0 /\ last = Len(b) -> Cut(<<>>, <<Pre, Pre>>, FALSE)
             [] p # 0 /\ last < Len(b) /\
                  (IF stop = 0 THEN Len(b) ELSE stop) > LastInBound(last) ->
                  Cut(<<>>, <<>>, TRUE)
             [] OTHER ->
                  IF stop = 0 THEN Cut(<<>>, <<Pre, Pre>> \o SubSeq(b, last + 1, Len(b)), FALSE)
                  ELSE IF b[stop] = Pre THEN cut[stop]
                  ELSE IF Len(frame) < MinFrameLen THEN cut[stop + 1]
                  ELSE AndThen(frame, cut[stop + 1])
  IN cut[1]

(* SplitFrames, and the bound on each frame and on the rest.               *)
CutCAT(b) ==
  LET cut[i \in 1 .. Len(b) + 1] ==
        LET stop == SelectInSubSeq(b, i, Len(b), LAMBDA x : x = Semicolon)
            piece == SubSeq(b, i, IF stop = 0 THEN Len(b) ELSE stop)
        IN IF Len(piece) > MaxFrame THEN Cut(<<>>, <<>>, TRUE)
           ELSE IF stop = 0 THEN Cut(<<>>, piece, FALSE)
           ELSE AndThen(piece, cut[stop + 1])
  IN cut[1]

CutOut(b) == IF family = "civ" THEN CutCIV(b) ELSE CutCAT(b)

(* Mutants: whatever comes first is the echo; the filter looks at the      *)
(* sender.                                                                 *)
FirstIsEcho(frame, ns) == ns # <<>>
IsOursBySender(frame) == frame[4] # Radio
IsOurs(frame) == frame[3] = Controller
(* takeEcho: byte for byte, and a note is used up by its first echo.       *)
IsEcho(frame, ns) == Contains(ns, frame)

(* CI-V drops echoes first, then what is addressed to anybody else.        *)
Accept(state, frame) ==
  IF IsEcho(frame, state.noted) THEN [state EXCEPT !.noted = RemoveFirst(@, frame)]
  ELSE IF ~IsOurs(frame) THEN state
  ELSE [state EXCEPT !.frames = Append(@, frame)]

Filter(frames) ==
  IF family = "civ"
    THEN FoldLeft(Accept, [frames |-> <<>>, noted |-> noted], frames)
    ELSE [frames |-> frames, noted |-> noted]

-----------------------------------------------------------------------------

(* The engine is about to write a frame.  The oldest note makes room.      *)
NoteSent(frame) ==
  /\ family = "civ" /\ notes < MaxNotes /\ notes' = notes + 1
  /\ noted' = Append(IF Len(noted) >= MaxNotedSent THEN Tail(noted) ELSE noted, frame)
  /\ UNCHANGED <<family, buf, pushes, stream, returned, tooLong>>

(* Mutant: what is left over is forgotten between two chunks.              *)
ForgetRest(rest) == IF Len(rest) = 1 THEN <<>> ELSE rest
Retain(rest) == rest

Push(chunk) ==
  LET cut == CutOut(buf \o chunk)
      got == Filter(cut.frames)
  IN /\ pushes < MaxPushes /\ pushes' = pushes + 1
     /\ stream' = stream \o chunk
     /\ buf' = Retain(cut.rest)
     /\ noted' = got.noted
     /\ returned' = returned \o got.frames
     /\ tooLong' = (tooLong \/ cut.long)
     /\ UNCHANGED <<family, notes>>

Next ==
  \/ \E f \in SentFrames : NoteSent(f)
  \/ \E chunk \in Chunks[family] : Push(chunk)

Spec == Init /\ [][Next]_vars

-----------------------------------------------------------------------------
(* Properties.                                                             *)

(* Every variable has its type, and no stream makes the buffer grow.       *)
TypeOK ==
  /\ family \in Families
  /\ buf \in Seq(Alphabet(family)) /\ Len(buf) <= MaxFrame
  /\ noted \in Seq(SentFrames) /\ Len(noted) <= MaxNotedSent /\ notes \in 0 .. MaxNotes
  /\ pushes \in 0 .. MaxPushes
  /\ stream \in Seq(Alphabet(family)) /\ returned \in Seq(Seq(Alphabet(family)))
  /\ tooLong \in BOOLEAN

(* A whole stream, chunks or no chunks.  A CI-V frame has a preamble pair, *)
(* an end byte, nothing structural between, and no fewer bytes than a      *)
(* frame has; a CAT frame is what lies between two semicolons.             *)
Plain(s, a, z) == \A j \in a .. z : s[j] \notin {Pre, End, Semicolon}
Paired(s, p)   == p > 1 /\ s[p] = Pre /\ s[p - 1] = Pre
Begins(s, p)   == p = 0 \/ s[p] = Semicolon

(* Where a frame's body lies in s: after p, up to e.                       *)
Bodies(s) ==
  LET starts == {p \in 0 .. Len(s) : IF family = "cat" THEN Begins(s, p) ELSE Paired(s, p)}
      ends   == {e \in DOMAIN s : s[e] \in {End, Semicolon}}
  IN {b \in starts \X ends :
        /\ b[1] < b[2] /\ Plain(s, b[1] + 1, b[2] - 1)
        /\ family = "civ" => 2 + b[2] - b[1] >= MinFrameLen}

FramesOf(s) ==
  LET frame(b) == (IF family = "civ" THEN <<Pre, Pre>> ELSE <<>>) \o SubSeq(s, b[1] + 1, b[2])
      bodies   == SetToSortSeq(Bodies(s), LAMBDA b, c : b[2] < c[2])
      all      == [n \in DOMAIN bodies |-> frame(bodies[n])]
  IN IF family = "civ" THEN SelectSeq(all, LAMBDA f : f[3] = Controller) ELSE all

(* A body too long for a frame, ended or not.                              *)
HasLongBody(s) ==
  \E p \in 0 .. Len(s) :
    IF family = "cat" THEN Begins(s, p) /\ p + MaxFrame < Len(s) /\ Plain(s, p + 1, p + MaxFrame)
    ELSE /\ Paired(s, p) /\ p + MaxFrame - 1 <= Len(s)
         /\ Plain(s, p + 1, p + MaxFrame - 2)

(* s is t with elements left out.                                          *)
SomeOf(s, t) ==
  \E at \in [DOMAIN s -> DOMAIN t] :
    /\ \A i \in DOMAIN s : s[i] = t[at[i]]
    /\ \A i, j \in DOMAIN s : i < j => at[i] < at[j]

(* However the bytes are cut into chunks, and whatever was written in      *)
(* between, echoed or not, and forgotten when the list of notes was full:  *)
(* what Push returns is the stream's frames addressed to this program, all *)
(* of them, once, in order.  Push gives up only on a body that is too      *)
(* long; after that frames may be missing, but CI-V still returns nothing  *)
(* that is not one (CAT may return the end of one, and the engine drains). *)
FramesOfStream ==
  /\ ~tooLong => returned = FramesOf(stream)
  /\ tooLong => HasLongBody(stream)
  /\ tooLong /\ family = "civ" => SomeOf(returned, FramesOf(stream))

=============================================================================
