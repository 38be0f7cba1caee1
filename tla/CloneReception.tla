---------------------------- MODULE CloneReception ----------------------------
(***************************************************************************)
(* core/clonewire: the one image that a radio in clone mode sends, in      *)
(* blocks, each framed by its number and a checksum and acknowledged.  The *)
(* operator starts the transfer at the radio; the host can only listen,    *)
(* against three deadlines, and take the image whole or not at all.        *)
(*                                                                         *)
(* A byte is <<block, position, intact>>.  The checksum, an 8-bit sum, is  *)
(* taken to tell every slice that is not one block from one that is.       *)
(***************************************************************************)
EXTENDS Naturals, Sequences, FiniteSets, SequencesExt, FiniteSetsExt

CONSTANTS
  Blocks,      (* BlockSchedule of the first candidate: lengths on the wire *)
  Candidates,  (* lists of the lengths of image the caller can use         *)
  Faulty       (* may there be one fault of the line or the radio          *)

VARIABLES
  wire,        (* bytes of the radio that Read has not returned            *)
  radio,       (* "quiet", "sent" or "gone wrong"                          *)
  port,        (* "open", "failed", or "closed" by the caller of Receive   *)
  reader,      (* readLoop: "new", "reading", "offering", "failing", "gone" *)
  chunk,       (* what it offers                                           *)
  phase,       (* Receive: "armed", "blocks", "trailing" or "ended"        *)
  candidates,  (* Reception.candidates                                     *)
  raw,         (* Receive's raw                                            *)
  pending,     (* its pending                                              *)
  blockIdx,    (* blocks taken so far                                      *)
  result       (* "none", "image", "incomplete", "incompatible" or "ambiguous" *)

link    == <<wire, radio, port>>
receive == <<phase, candidates, raw, pending, blockIdx, result>>
vars    == <<link, reader, chunk, receive>>

Init ==
  /\ wire = <<>> /\ radio = "quiet" /\ port = "open"
  /\ reader = "new" /\ chunk = <<>>
  /\ phase = "armed" /\ candidates \in Candidates
  /\ raw = <<>> /\ pending = <<>> /\ blockIdx = 0 /\ result = "none"

-----------------------------------------------------------------------------
(* The radio and the line, with at most one fault: the radio stops, a byte *)
(* is lost, changed or too many, a block is sent again because its ACK was *)
(* not heard, or the port fails.                                           *)

Block(i) == [p \in 1 .. Blocks[i] |-> <<i, p, TRUE>>]
Sent     == FlattenSeq([i \in DOMAIN Blocks |-> Block(i)])
Noise    == <<0, 0, FALSE>>

(* Where block i ends on the wire.                                         *)
End(i) == FoldLeft(LAMBDA n, len : n + len, 0, SubSeq(Blocks, 1, i))

Damaged ==
       {SubSeq(Sent, 1, n) : n \in 0 .. Len(Sent)}
  \cup {RemoveAt(Sent, n) : n \in DOMAIN Sent}
  \cup {[Sent EXCEPT ![n][3] = FALSE] : n \in DOMAIN Sent}
  \cup {InsertAt(Sent, n, Noise) : n \in 1 .. Len(Sent) + 1}
  \cup {SubSeq(Sent, 1, End(i)) \o SubSeq(Sent, 1 + End(i - 1), Len(Sent)) : i \in DOMAIN Blocks}

Transmit(bytes) ==
  /\ radio = "quiet"
  /\ wire' = bytes /\ radio' = IF bytes = Sent THEN "sent" ELSE "gone wrong"
  /\ UNCHANGED <<port, reader, chunk, receive>>

PortFails ==
  /\ Faulty /\ port = "open" /\ radio # "gone wrong"
  /\ port' = "failed" /\ radio' = "gone wrong" /\ wire' = <<>>
  /\ UNCHANGED <<reader, chunk, receive>>

-----------------------------------------------------------------------------
(* readLoop, a goroutine.                                                  *)

Read(n) ==
  /\ reader = "reading" /\ port = "open"
  /\ chunk' = SubSeq(wire, 1, n) /\ wire' = SubSeq(wire, n + 1, Len(wire))
  /\ reader' = "offering"
  /\ UNCHANGED <<radio, port, receive>>

ReadFails ==
  /\ reader = "reading" /\ port # "open"
  /\ reader' = "failing"
  /\ UNCHANGED <<link, chunk, receive>>

(* Mutant: only an error is dropped when nobody listens any more.          *)
DropsErrorsOnly == phase = "ended" /\ reader = "failing"
(* Receive's done is closed: what the loop offers nobody will take.        *)
Done == phase = "ended"

ReaderLeaves ==
  /\ reader \in {"offering", "failing"} /\ Done
  /\ reader' = "gone" /\ chunk' = <<>>
  /\ UNCHANGED <<link, receive>>

-----------------------------------------------------------------------------
(* Receive.                                                                *)

Ends(verdict) == phase' = "ended" /\ result' = verdict

StartReceive ==
  /\ phase = "armed"
  /\ phase' = "blocks" /\ reader' = "reading"
  /\ UNCHANGED <<link, chunk, candidates, raw, pending, blockIdx, result>>

(* The slice of bytes that is to be block j, the first after blockIdx      *)
(* beginning at its first byte; and the last block that is all there.      *)
Slice(bytes, j) == SubSeq(bytes, 1 + End(j - 1) - End(blockIdx), End(j) - End(blockIdx))
LastComplete(bytes) ==
  Max({j \in blockIdx .. Len(Blocks) : End(j) - End(blockIdx) <= Len(bytes)})

(* Mutant: a checksum that accepts everything.                             *)
AnyPasses(slice) == TRUE
(* yaesuChecksum: of the payload alone, whatever the block number says.    *)
ChecksumPasses(slice) ==
  \E i \in DOMAIN Blocks : Tail(slice) = Tail(Block(i))

Stripped(slice) == SubSeq(slice, 2, Len(slice) - 1)

(* Mutant: bytes after the last block are not looked at.                   *)
NeverTrailing(rest) == FALSE
Trailing(rest) == rest # <<>>

(* A chunk is handed over and every block it completes is taken.           *)
TakeChunk ==
  LET bytes == pending \o chunk
      last  == LastComplete(bytes)
      rest  == SubSeq(bytes, 1 + End(last) - End(blockIdx), Len(bytes))
      taken == [j \in 1 .. last - blockIdx |-> Slice(bytes, blockIdx + j)]
      sound == \A j \in DOMAIN taken : ChecksumPasses(taken[j])
  IN /\ phase = "blocks" /\ reader = "offering"
     /\ reader' = "reading" /\ chunk' = <<>>
     /\ IF sound
          THEN /\ raw' = raw \o FlattenSeq([j \in DOMAIN taken |-> Stripped(taken[j])])
               /\ pending' = rest /\ blockIdx' = last
               /\ CASE last < Len(Blocks) -> UNCHANGED <<phase, result>>
                    [] last = Len(Blocks) /\ Trailing(rest) -> Ends("incomplete")
                    [] OTHER -> phase' = "trailing" /\ UNCHANGED result
          ELSE Ends("incomplete") /\ UNCHANGED <<raw, pending, blockIdx>>
     /\ UNCHANGED <<link, candidates>>

(* A block is complete and sound, but its ACK cannot be written.           *)
AckFails ==
  /\ phase = "blocks" /\ reader = "offering" /\ port # "open"
  /\ LastComplete(pending \o chunk) > blockIdx
  /\ reader' = "reading" /\ chunk' = <<>> /\ Ends("incomplete")
  /\ UNCHANGED <<link, candidates, raw, pending, blockIdx>>

(* The start, inter-block or total deadline, or the caller's context.      *)
GivesUp ==
  /\ phase = "blocks" /\ Ends("incomplete")
  /\ UNCHANGED <<link, reader, chunk, candidates, raw, pending, blockIdx>>

TakeError ==
  /\ phase = "blocks" /\ reader = "failing"
  /\ reader' = "gone" /\ Ends("incomplete")
  /\ UNCHANGED <<link, chunk, candidates, raw, pending, blockIdx>>

(* One more inter-block window: a chunk in it is too much.                 *)
TakeTrailing ==
  /\ phase = "trailing" /\ reader = "offering"
  /\ reader' = "reading" /\ chunk' = <<>> /\ Ends("incomplete")
  /\ UNCHANGED <<link, candidates, raw, pending, blockIdx>>

(* matchAndParse.                                                          *)
Matches == Cardinality({i \in DOMAIN candidates : candidates[i] = Len(raw)})
Verdict == CASE Matches = 0 -> "incompatible" [] Matches = 1 -> "image" [] OTHER -> "ambiguous"

(* Nothing came in that window (which is as long as a radio pauses between *)
(* two blocks), or only the news that the port is gone.                    *)
Accept ==
  /\ phase = "trailing" /\ Ends(Verdict)
  /\ \/ reader = "reading" /\ wire = <<>> /\ UNCHANGED reader
     \/ reader = "failing" /\ reader' = "gone"
  /\ UNCHANGED <<link, chunk, candidates, raw, pending, blockIdx>>

(* The caller of Receive closes the port when it is back.                  *)
ClosePort ==
  /\ phase = "ended" /\ port # "closed" /\ port' = "closed"
  /\ UNCHANGED <<wire, radio, reader, chunk, receive>>

Next ==
  \/ \E bytes \in {Sent} \cup (IF Faulty THEN Damaged ELSE {}) : Transmit(bytes)
  \/ PortFails
  \/ \E n \in DOMAIN wire : Read(n)
  \/ ReadFails \/ ReaderLeaves
  \/ StartReceive \/ TakeChunk \/ AckFails \/ GivesUp \/ TakeError
  \/ TakeTrailing \/ Accept \/ ClosePort

Spec == Init /\ [][Next]_vars

(* Timers fire, both goroutines run, and the caller closes its port.       *)
Fairness ==
  /\ WF_vars(GivesUp) /\ WF_vars(TakeTrailing) /\ WF_vars(Accept) /\ WF_vars(ClosePort)
  /\ WF_vars(\E n \in DOMAIN wire : Read(n)) /\ WF_vars(ReadFails) /\ WF_vars(ReaderLeaves)

FairSpec == Spec /\ Fairness

-----------------------------------------------------------------------------
(* Properties.                                                             *)

(* Every variable has its type.                                            *)
Bytes == {Noise} \cup UNION {{<<i, p, ok>> : p \in 1 .. Blocks[i], ok \in BOOLEAN} : i \in DOMAIN Blocks}
TypeOK ==
  /\ {wire, chunk, raw, pending} \subseteq Seq(Bytes)
  /\ radio \in {"quiet", "sent", "gone wrong"} /\ port \in {"open", "failed", "closed"}
  /\ reader \in {"new", "reading", "offering", "failing", "gone"}
  /\ phase \in {"armed", "blocks", "trailing", "ended"}
  /\ candidates \in Candidates /\ blockIdx \in 0 .. Len(Blocks)
  /\ result \in {"none", "image", "incomplete", "incompatible", "ambiguous"}

(* What Receive returns as an image is the payload of every block the      *)
(* radio sent, once each and in order, and it fits exactly one candidate,  *)
(* whatever one fault did to the transfer and however it was cut up.       *)
Image == FlattenSeq([i \in DOMAIN Blocks |-> Stripped(Block(i))])
ImageIsWhole ==
  result = "image" =>
    raw = Image /\ Cardinality({i \in DOMAIN candidates : candidates[i] = Len(Image)}) = 1

(* Receive returns, and the goroutine it started does not outlive the port. *)
ReceptionEnds == phase = "blocks" ~> phase = "ended" /\ reader = "gone"

=============================================================================
