-------------------------- MODULE MCWholeOrNothing --------------------------
(***************************************************************************)
(* Five components whose unit of work comes or goes in pieces (frames,     *)
(* replies, an image, a file, a channel), side by side on small instances: *)
(* each must deal with it whole or not at all.  They share nothing; part   *)
(* says which one moves, and the others stay in one initial state.  The    *)
(* names of the files and of the channel are FileReplacement's and         *)
(* ChannelWrite's own.                                                     *)
(***************************************************************************)
EXTENDS FileReplacement, ChannelWrite

VARIABLES
  part,
  family, buf, noted, notes, pushes, stream, returned, tooLong,
  want, replyBuf, session, suspect, boundary, request, length, attempt, sent, line, answer, astray,
  wire, sender, port, reader, chunk, wait, candidates, raw, pending, blockIdx, result

(* Single bytes, a frame for this program and one that may be an echo, the *)
(* end of a frame with the beginning of the next, and a body too long.     *)
CIVChunks ==
  {<<"FE">>, <<"FD">>, <<"E0">>, <<"94">>, <<"FE", "FE", "E0">>, <<"FE", "FE", "94", "FD">>,
   <<"94", "FD", "FE", "FE", "E0", "94", "FD", "FE">>, <<"94", "94", "94">>}
CATChunks == {<<";">>, <<"a">>, <<"a", ";", "a">>, <<"a", "a", "a", "a">>}

Frames == INSTANCE FrameAccumulators WITH
  Families <- {"civ", "cat"}, MaxFrame <- 5, MinFrameLen <- 4, MaxNotedSent <- 1,
  SentFrames <- {<<"FE", "FE", "94", "FD">>, <<"FE", "FE", "94", "94", "FD">>},
  MaxNotes <- 2, MaxPushes <- 5,
  Chunks <- [fam \in {"civ", "cat"} |-> IF fam = "civ" THEN CIVChunks ELSE CATChunks]

Replies == INSTANCE BinaryReplies WITH
  buf <- replyBuf, link <- session,
  RecordLen <- 3, ReadLens <- {1, 2}, ReadRetries <- 1, MaxFrame <- 4,
  MaxWantQueue <- 2, Faults <- {}, MaxRequests <- 5

Reception == INSTANCE CloneReception WITH
  radio <- sender, phase <- wait,
  Blocks <- <<3, 4, 4>>, Candidates <- {<<5>>, <<5, 5>>, <<4, 6>>, <<6, 5>>}, Faulty <- TRUE

(* One initial state of each component while another one moves.            *)
MCInit ==
  /\ part \in {"frames", "replies", "reception", "files", "writes"}
  /\ Frames!Init    /\ (part # "frames" => family = "civ")
  /\ Replies!Init   /\ (part # "replies" => boundary = [answered |-> TRUE, expected |-> TRUE])
  /\ Reception!Init /\ (part # "reception" => candidates = <<5>>)
  /\ Init           /\ (part # "files" => file = "codeplug")
  /\ ChannelInit
  /\ part # "writes" =>
       model = "ftdx10" /\ grade["tag"] = "Supported" /\ radio = Absent /\ after = Absent

accumulators == <<family, buf, noted, notes, pushes, stream, returned, tooLong>>
replies      == <<want, replyBuf, session, suspect, boundary, request, length, attempt, sent, line,
                  answer, astray>>
reception    == <<wire, sender, port, reader, chunk, wait, candidates, raw, pending, blockIdx,
                  result>>
allVars      == <<part, accumulators, replies, reception, vars, channelVars>>

MCNext ==
  /\ UNCHANGED part
  /\ \/ part = "frames" /\ Frames!Next /\ UNCHANGED <<replies, reception, vars, channelVars>>
     \/ part = "replies" /\ Replies!Next
          /\ UNCHANGED <<accumulators, reception, vars, channelVars>>
     \/ part = "reception" /\ Reception!Next
          /\ UNCHANGED <<accumulators, replies, vars, channelVars>>
     \/ part = "files" /\ Next /\ UNCHANGED <<accumulators, replies, reception, channelVars>>
     \/ part = "writes" /\ ChannelNext /\ UNCHANGED <<accumulators, replies, reception, vars>>

MCSpec == MCInit /\ [][MCNext]_allVars /\ (part = "reception" => Reception!Fairness)

(* Every variable has its type.                                            *)
AllTypesOK ==
  /\ Frames!TypeOK /\ Replies!TypeOK /\ Reception!TypeOK /\ TypeOK /\ ChannelTypeOK

(* What the accumulators return is the frames of the byte stream.          *)
FramesOfStream == Frames!FramesOfStream
(* What a binary exchange answers is one whole reply to its own request,   *)
(* unless one before it was given up in its retry drain.                   *)
AnswerIsTheReply == Replies!AnswerIsTheReply
(* An image that is accepted is the one the radio holds.                   *)
ImageIsWhole == Reception!ImageIsWhole
(* A reception ends, and leaves no goroutine behind.                       *)
ReceptionEnds == Reception!ReceptionEnds

=============================================================================
