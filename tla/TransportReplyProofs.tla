------------------------- MODULE TransportReplyProofs -------------------------
(***************************************************************************)
(* Whose reply an exchange of TransportEngine is answered with, for every  *)
(* number of callers and calls, every capacity and bound, and every frame  *)
(* the radio may send unasked.                                             *)
(*                                                                         *)
(* Where a reply can be is a matter of the four queues between the radio   *)
(* and a caller: radio, wire, chunk, events.  The invariant RInv says what *)
(* they hold at each point of an exchange: nothing that answers anybody    *)
(* before a frame is written, one reply at most, the caller's own, while   *)
(* it waits, and again nothing once it has left an engine it calls         *)
(* trusted.  It stands on IInv of TransportEngineProofs.                   *)
(***************************************************************************)
EXTENDS TransportEngineProofs

(* Frames by whom they may answer: nobody, or call i alone; and frames     *)
(* that answer somebody whenever Do takes them for an answer.              *)
Unowned == {e \in Events : e.id = 0}
Own(i)  == {e \in Events : e.id \in {0, i}}
Signed  == {e \in Events : e.kind \in {"data", "ack", "nak"} => e.id # 0}

SignedInv ==
  wire \in Seq(Signed) /\ chunk \in Seq(Signed) /\ events \in Seq(Signed)

(* The end of the stream: once readLoop reports an error the engine is     *)
(* closed, and the report is the last event there is.                      *)
EndInv ==
  /\ rpc \in {"closing", "publishing", "last", "done"} => closed
  /\ \A i \in DOMAIN events : events[i].kind = "io" => i = Len(events) /\ rpc = "done"
  /\ \A c \in Callers : pc[c] = "failed" => closed

(* A call has no verdict before its wait ends.                             *)
OutcomeInv ==
  \A c \in Callers :
    /\ pc[c] \in {"lock", "purge", "send", "write", "failed", "wait"} => outcome[c] = "none"
    /\ pc[c] = "drain" /\ why # "after" => outcome[c] = "none"

(* Nothing on its way to e.events answers anybody.                         *)
Quiet == radio = <<>> /\ wire \in Seq(Unowned) /\ chunk \in Seq(Unowned)

(* What a purge may still find in e.events that answers somebody was there *)
(* when it began, and a purge may discard more frames than e.events holds. *)
Stale == \A i \in DOMAIN events : events[i].id # 0 => i + discarded =< EventCap

(* The one command, and then the one reply, of call i on its way.          *)
One(s) == \A i, j \in DOMAIN s : s[i].id # 0 /\ s[j].id # 0 => i = j
OneReply(i) ==
  /\ radio \in {<<>>, <<i>>}
  /\ wire \in Seq(Own(i)) /\ chunk \in Seq(Own(i)) /\ events \in Seq(Own(i))
  /\ One(wire) /\ One(chunk) /\ One(events)
  /\ radio # <<>> => wire \in Seq(Unowned)
  /\ radio # <<>> \/ wire \notin Seq(Unowned) => chunk \in Seq(Unowned)
  /\ radio # <<>> \/ wire \notin Seq(Unowned) \/ chunk \notin Seq(Unowned) =>
       events \in Seq(Unowned)

Trusted == ~closed /\ ~contaminated /\ ~suspect

At(c) ==
  /\ pc[c] = "drain" /\ why \in {"caller", "entry"} /\ Trusted => Quiet
  /\ pc[c] = "drain" => why # "retry"
  /\ pc[c] = "purge" => Quiet /\ Stale
  /\ pc[c] \in {"send", "write"} => Quiet /\ events \in Seq(Unowned)
  /\ pc[c] = "wait" => OneReply(call[c])

(* An exchange finds e.mu with nothing counted yet.                        *)
FreeInv == mu = "none" => discarded = 0

LineInv ==
  Punctual /\ ~astray =>
    /\ mu = "none" /\ Trusted => Quiet
    /\ \A c \in Callers : At(c)

RInv == SignedInv /\ EndInv /\ OutcomeInv /\ FreeInv /\ LineInv

-----------------------------------------------------------------------------
(* Queues.                                                                 *)

LEMMA TailOf ==
  ASSUME NEW S, NEW s \in Seq(S), s # <<>>
  PROVE  /\ Head(s) = s[1] /\ 1 \in DOMAIN s /\ s[1] \in S
         /\ Tail(s) \in Seq(S) /\ Len(Tail(s)) = Len(s) - 1 /\ Len(s) \in Nat
         /\ DOMAIN Tail(s) = 1 .. Len(s) - 1 /\ DOMAIN s = 1 .. Len(s)
         /\ \A i \in DOMAIN Tail(s) : i \in Nat /\ i + 1 \in DOMAIN s /\ Tail(s)[i] = s[i + 1]
<1>1. Len(s) \in Nat /\ Len(s) > 0 /\ DOMAIN s = 1 .. Len(s)
  OBVIOUS
<1>2. Tail(s) \in Seq(S) /\ Len(Tail(s)) = Len(s) - 1
  BY HeadTailProperties
<1>3. \A i \in 1 .. Len(Tail(s)) : Tail(s)[i] = s[i + 1]
  BY HeadTailProperties
<1>4. DOMAIN Tail(s) = 1 .. Len(s) - 1
  BY <1>1, <1>2
<1>5. Head(s) = s[1] /\ 1 \in DOMAIN s /\ s[1] \in S
  BY <1>1
<1> QED
  BY <1>1, <1>2, <1>3, <1>4, <1>5

LEMMA AppendOf ==
  ASSUME NEW S, NEW s \in Seq(S), NEW e \in S
  PROVE  /\ Append(s, e) \in Seq(S) /\ Len(Append(s, e)) = Len(s) + 1 /\ Len(s) \in Nat
         /\ DOMAIN Append(s, e) = 1 .. Len(s) + 1 /\ DOMAIN s = 1 .. Len(s)
         /\ \A i \in DOMAIN s : Append(s, e)[i] = s[i]
         /\ Append(s, e)[Len(s) + 1] = e
OBVIOUS

LEMMA SeqOfMore ==
  ASSUME NEW S, NEW T, S \subseteq T, NEW s \in Seq(S)
  PROVE  s \in Seq(T)
OBVIOUS

LEMMA Kinds ==
  /\ Frames \subseteq Events /\ Unowned \subseteq Events /\ Signed \subseteq Events
  /\ \A i : Own(i) \subseteq Events /\ Unowned \subseteq Own(i)
  /\ TooLong \in Unowned /\ IoError \in Unowned /\ TooLong \in Signed /\ IoError \in Signed
BY Bounds, Markers DEF Frames, Events, Unowned, Signed, Own, TooLong, IoError

(* A queue of which no frame answers anybody.                              *)
LEMMA CleanSeq ==
  ASSUME NEW s \in Seq(Events)
  PROVE  s \in Seq(Unowned) <=> \A i \in DOMAIN s : s[i].id = 0
BY DEF Unowned

LEMMA CleanIsOne ==
  ASSUME NEW s \in Seq(Unowned)
  PROVE  One(s)
BY DEF One, Unowned

LEMMA OneTail ==
  ASSUME NEW s \in Seq(Events), s # <<>>, One(s)
  PROVE  /\ One(Tail(s))
         /\ Head(s).id # 0 => Tail(s) \in Seq(Unowned)
         /\ s \in Seq(Unowned) => Tail(s) \in Seq(Unowned)
<1>1. /\ Tail(s) \in Seq(Events) /\ Head(s) = s[1] /\ 1 \in DOMAIN s
      /\ \A i \in DOMAIN Tail(s) : i \in Nat \ {0} /\ i + 1 \in DOMAIN s /\ Tail(s)[i] = s[i + 1]
  BY TailOf
<1>2. One(Tail(s))
  BY <1>1 DEF One
<1>3. Head(s).id # 0 => \A i \in DOMAIN Tail(s) : Tail(s)[i].id = 0
  BY <1>1 DEF One
<1>4. s \in Seq(Unowned) => \A i \in DOMAIN Tail(s) : Tail(s)[i].id = 0
  BY <1>1, CleanSeq
<1> QED
  BY <1>1, <1>2, <1>3, <1>4, CleanSeq

LEMMA OneAppend ==
  ASSUME NEW s \in Seq(Events), NEW e \in Events, One(s), e.id = 0 \/ s \in Seq(Unowned)
  PROVE  /\ One(Append(s, e))
         /\ s \in Seq(Unowned) /\ e.id = 0 => Append(s, e) \in Seq(Unowned)
<1> DEFINE q == Append(s, e)
<1>1. /\ q \in Seq(Events) /\ Len(s) \in Nat
      /\ DOMAIN q = 1 .. Len(s) + 1 /\ DOMAIN s = 1 .. Len(s)
      /\ \A i \in DOMAIN s : q[i] = s[i]
      /\ q[Len(s) + 1] = e
  BY AppendOf
<1> HIDE DEF q
<1>2. \A i \in DOMAIN q : \/ i \in DOMAIN s /\ q[i] = s[i]
                          \/ i = Len(s) + 1 /\ q[i] = e
  BY <1>1
<1>3. s \in Seq(Unowned) => \A i \in DOMAIN s : s[i].id = 0
  BY CleanSeq
<1>4. One(q)
  BY <1>2, <1>3 DEF One
<1>5. s \in Seq(Unowned) /\ e.id = 0 => \A i \in DOMAIN q : q[i].id = 0
  BY <1>2, <1>3
<1>6. s \in Seq(Unowned) /\ e.id = 0 => q \in Seq(Unowned)
  BY <1>1, <1>5, CleanSeq
<1> QED
  BY <1>4, <1>6 DEF q

LEMMA Marker ==
  ASSUME NEW S, NEW e \in S, NEW s \in {<<>>, <<e>>}
  PROVE  s \in Seq(S) /\ Len(s) \in Nat /\ \A i \in 1 .. Len(s) : s[i] = e
<1>1. CASE s = <<>>
  BY <1>1
<1>2. CASE s = <<e>>
  BY <1>2
<1> QED
  BY <1>1, <1>2

(* What one Port.Read makes of the line: the first m frames, and markers.  *)
Chunk(s, m, a, b) == SubSeq(s, 1, m) \o a \o b

LEMMA ChunkOf ==
  ASSUME NEW S, NEW s \in Seq(S), NEW m \in Nat, m =< Len(s),
         NEW a \in {<<>>, <<TooLong>>}, NEW b \in {<<>>, <<IoError>>},
         TooLong \in S, IoError \in S
  PROVE  /\ Chunk(s, m, a, b) \in Seq(S)
         /\ \A i \in DOMAIN Chunk(s, m, a, b) :
              \/ i \in 1 .. m /\ i \in DOMAIN s /\ Chunk(s, m, a, b)[i] = s[i]
              \/ Chunk(s, m, a, b)[i] \in {TooLong, IoError}
<1> DEFINE q == Chunk(s, m, a, b)
<1> DEFINE p  == SubSeq(s, 1, m)
           pa == p \o a
<1>1. /\ p \in Seq(S) /\ Len(p) = m /\ \A i \in 1 .. m : p[i] = s[i]
  BY SubSeqProperties
<1>3. /\ a \in Seq(S) /\ Len(a) \in Nat /\ \A i \in 1 .. Len(a) : a[i] = TooLong
      /\ b \in Seq(S) /\ Len(b) \in Nat /\ \A i \in 1 .. Len(b) : b[i] = IoError
  BY Marker
<1>0. q = pa \o b
  BY DEF Chunk
<1> HIDE DEF p, q
<1>4. /\ pa \in Seq(S) /\ Len(pa) = m + Len(a)
      /\ \A i \in 1 .. m + Len(a) : pa[i] = IF i =< m THEN p[i] ELSE a[i - m]
  <2>1. /\ p \o a \in Seq(S) /\ Len(p \o a) = Len(p) + Len(a)
        /\ \A i \in 1 .. Len(p) + Len(a) :
             (p \o a)[i] = IF i =< Len(p) THEN p[i] ELSE a[i - Len(p)]
    BY ONLY <1>1, <1>3, ConcatProperties
  <2> QED
    BY <1>1, <2>1
<1> HIDE DEF pa
<1>5. /\ q \in Seq(S) /\ Len(q) = Len(pa) + Len(b)
      /\ \A i \in 1 .. Len(pa) + Len(b) : q[i] = IF i =< Len(pa) THEN pa[i] ELSE b[i - Len(pa)]
  <2>1. /\ pa \o b \in Seq(S) /\ Len(pa \o b) = Len(pa) + Len(b)
        /\ \A i \in 1 .. Len(pa) + Len(b) :
             (pa \o b)[i] = IF i =< Len(pa) THEN pa[i] ELSE b[i - Len(pa)]
    BY ONLY <1>3, <1>4, ConcatProperties
  <2> QED
    BY ONLY <1>0, <2>1
<1>6. DOMAIN q = 1 .. Len(pa) + Len(b) /\ DOMAIN s = 1 .. Len(s) /\ Len(s) \in Nat
  BY <1>3, <1>5
<1>7. ASSUME NEW i \in DOMAIN q
      PROVE  \/ i \in 1 .. m /\ i \in DOMAIN s /\ q[i] = s[i]
             \/ q[i] \in {TooLong, IoError}
  <2>0. i \in 1 .. Len(pa) + Len(b) /\ Len(pa) \in Nat /\ Len(pa) = m + Len(a)
    BY <1>3, <1>4, <1>6
  <2>1. CASE i =< m
    <3>1. i \in 1 .. m /\ i =< Len(pa) /\ i \in 1 .. m + Len(a) /\ i \in DOMAIN s
      BY <1>3, <1>6, <2>0, <2>1
    <3>2. q[i] = pa[i] /\ pa[i] = p[i] /\ p[i] = s[i]
      BY ONLY <1>1, <1>4, <1>5, <2>0, <2>1, <3>1
    <3> QED
      BY <3>1, <3>2
  <2>2. CASE ~(i =< m) /\ i =< Len(pa)
    <3>1. i - m \in 1 .. Len(a)
      BY <1>3, <1>4, <1>6, <2>2
    <3>2. q[i] = pa[i] /\ pa[i] = a[i - m]
      BY ONLY <1>3, <1>4, <1>5, <2>0, <2>2, m \in Nat
    <3> QED
      BY <1>3, <3>1, <3>2
  <2>3. CASE ~(i =< Len(pa))
    <3>1. i - Len(pa) \in 1 .. Len(b)
      BY <1>3, <1>4, <1>6, <2>3
    <3> QED
      BY <1>3, <1>5, <1>6, <2>3, <3>1
  <2> QED
    BY <1>4, <1>6, <2>1, <2>2, <2>3
<1> QED
  BY <1>5, <1>7 DEF q

(* What it leaves on the line.                                             *)
LEMMA RestOf ==
  ASSUME NEW S, NEW s \in Seq(S), NEW n \in Nat, n =< Len(s),
         NEW r, r = SubSeq(s, n + 1, Len(s))
  PROVE  /\ r \in Seq(S)
         /\ \A i \in DOMAIN r : i \in Nat \ {0} /\ n + i \in DOMAIN s /\ r[i] = s[n + i]
<1>1. Len(s) \in Nat /\ n + 1 \in Int /\ DOMAIN s = 1 .. Len(s)
  OBVIOUS
<1>2. \A i \in n + 1 .. Len(s) : s[i] \in S
  BY <1>1
<1>3. /\ SubSeq(s, n + 1, Len(s)) \in Seq(S)
      /\ Len(SubSeq(s, n + 1, Len(s))) = IF n + 1 =< Len(s) THEN Len(s) - (n + 1) + 1 ELSE 0
      /\ \A i \in 1 .. Len(s) - (n + 1) + 1 : SubSeq(s, n + 1, Len(s))[i] = s[n + 1 + i - 1]
  BY ONLY <1>1, <1>2, SubSeqProperties, n \in Nat
<1>4. /\ r \in Seq(S)
      /\ Len(r) = IF n + 1 =< Len(s) THEN Len(s) - (n + 1) + 1 ELSE 0
      /\ \A i \in 1 .. Len(s) - (n + 1) + 1 : r[i] = s[n + 1 + i - 1]
  BY ONLY <1>3, r = SubSeq(s, n + 1, Len(s))
<1>5. DOMAIN r = 1 .. Len(s) - n
  BY <1>1, <1>4
<1>6. ASSUME NEW i \in DOMAIN r
      PROVE  i \in Nat \ {0} /\ n + i \in DOMAIN s /\ r[i] = s[n + i]
  <2>1. i \in 1 .. Len(s) - n
    BY <1>5
  <2>2. i \in 1 .. Len(s) - (n + 1) + 1 /\ n + 1 + i - 1 = n + i /\ i \in Nat \ {0}
    BY <1>1, <2>1
  <2>3. r[i] = s[n + 1 + i - 1]
    BY <1>4, <2>2
  <2> QED
    BY <1>1, <2>1, <2>2, <2>3
<1> QED
  BY <1>4, <1>6

-----------------------------------------------------------------------------
(* The reader, the radio and the line: steps that leave the callers alone. *)

(* What such a step has to keep of the queues.                             *)
LEMMA LineMoves ==
  ASSUME LockInv, LineInv,
         UNCHANGED <<pc, call, mu, why, discarded, suspect, contaminated, astray>>,
         closed => closed',
         Quiet => Quiet',
         Quiet /\ Stale => Stale',
         Quiet /\ events \in Seq(Unowned) => events' \in Seq(Unowned),
         \A i \in Calls : OneReply(i) => OneReply(i)'
  PROVE  LineInv'
<1> SUFFICES ASSUME Punctual, ~astray
             PROVE  /\ mu = "none" /\ Trusted' => Quiet'
                    /\ \A c \in Callers : At(c)'
  BY DEF LineInv
<1>1. Trusted' => Trusted
  BY DEF Trusted
<1>2. mu = "none" /\ Trusted' => Quiet'
  BY <1>1 DEF LineInv
<1>3. ASSUME NEW c \in Callers PROVE At(c)'
  <2>1. At(c) /\ (pc[c] = "wait" => call[c] \in Calls)
    BY DEF LineInv, LockInv
  <2> QED
    BY <1>1, <2>1 DEF At
<1> QED
  BY <1>2, <1>3

LEMMA QuietTypes ==
  ASSUME TypeOK
  PROVE  /\ wire \in Seq(Events) /\ chunk \in Seq(Events) /\ events \in Seq(Events)
         /\ radio \in Seq(Calls) /\ Len(events) \in Nat /\ Len(events) =< EventCap
<1>1. wire \in Seq(Frames) /\ Frames \subseteq Events
  BY Kinds DEF TypeOK, LineTypes
<1>2. wire \in Seq(Events)
  BY <1>1, SeqOfMore
<1> QED
  BY <1>2 DEF TypeOK, ReaderTypes, LineTypes

(* A reply joins the wire, or is lost.                                     *)
LEMMA RadioReplies ==
  ASSUME TypeOK, LockInv, SignedInv, LineInv, RadioReply
  PROVE  SignedInv' /\ LineInv'
<1>1. /\ radio # <<>> /\ radio' = Tail(radio)
      /\ UNCHANGED <<callerVars, doVars, flagVars, portVars, readVars, histVars, events>>
  BY DEF RadioReply
<1>2. ASSUME NEW i \in Calls, OneReply(i)
      PROVE  /\ radio = <<i>> /\ radio' = <<>> /\ Head(radio) = i
             /\ wire \in Seq(Unowned) /\ chunk \in Seq(Unowned) /\ events \in Seq(Unowned)
  <2>1. radio = <<i>>
    BY <1>1, <1>2 DEF OneReply
  <2>2. Head(<<i>>) = i /\ Tail(<<i>>) = <<>>
    OBVIOUS
  <2> QED
    BY <1>1, <1>2, <2>1, <2>2 DEF OneReply
<1>3. CASE wire' = wire
  <2>1. SignedInv'
    BY <1>1, <1>3 DEF SignedInv, readVars
  <2>2. \A i \in Calls : OneReply(i) => OneReply(i)'
    <3> SUFFICES ASSUME NEW i \in Calls, OneReply(i) PROVE OneReply(i)'
      OBVIOUS
    <3>1. radio' = <<>> /\ UNCHANGED <<wire, chunk, events>>
      BY <1>1, <1>2, <1>3 DEF readVars
    <3> QED
      BY <1>2, <3>1 DEF OneReply, One
  <2> QED
    BY <1>1, <2>1, <2>2, LineMoves
    DEF Quiet, callerVars, doVars, flagVars, portVars, readVars, histVars, Stale
<1>4. ASSUME NEW k \in Replies(class[Head(radio)]),
             wire' = Append(wire, [kind |-> k, id |-> Head(radio)])
      PROVE  SignedInv' /\ LineInv'
  <2> DEFINE f == [kind |-> k, id |-> Head(radio)]
  <2>1. Head(radio) \in Calls
    BY <1>1, QuietTypes, SeqHeadTail
  <2>2. Head(radio) \in Nat /\ Head(radio) # 0 /\ Head(radio) \in 0 .. MaxCalls
    BY <2>1, Bounds DEF Calls
  <2>3. k \in {"data", "ack", "nak"}
    BY <1>4 DEF Replies
  <2>4. f \in Events /\ f \in Signed /\ f.id = Head(radio)
    BY <2>2, <2>3 DEF Events, FrameKinds, Signed
  <2> HIDE DEF f
  <2>5. wire' = Append(wire, f)
    BY <1>4 DEF f
  <2>6. SignedInv'
    BY <1>1, <2>4, <2>5, AppendOf DEF SignedInv, readVars
  <2>7. ASSUME NEW i \in Calls, OneReply(i) PROVE OneReply(i)'
    <3>1. /\ radio' = <<>> /\ f.id = i /\ UNCHANGED <<chunk, events>>
          /\ wire \in Seq(Unowned) /\ chunk \in Seq(Unowned) /\ events \in Seq(Unowned)
      BY <1>1, <1>2, <2>4, <2>7 DEF readVars
    <3>2. f \in Own(i) /\ wire \in Seq(Own(i))
      BY <2>4, <2>7, <3>1 DEF Own, OneReply
    <3>3. wire' \in Seq(Own(i))
      BY <2>5, <3>2, AppendOf
    <3>4. One(wire')
      BY <2>4, <2>5, <3>1, OneAppend, CleanIsOne, QuietTypes
    <3> QED
      BY <2>7, <3>1, <3>3, <3>4 DEF OneReply, One
  <2> QED
    BY <1>1, <2>6, <2>7, LineMoves
    DEF Quiet, callerVars, doVars, flagVars, portVars, readVars, histVars, Stale
<1> QED
  BY <1>3, <1>4 DEF RadioReply

(* A frame nobody asked for joins the wire.                                *)
LEMMA RadioSpeaks ==
  ASSUME TypeOK, LockInv, SignedInv, LineInv, NEW k \in Unsolicited, RadioUnsolicited(k)
  PROVE  SignedInv' /\ LineInv'
<1> DEFINE f == [kind |-> k, id |-> 0]
<1>1. /\ wire' = Append(wire, f)
      /\ UNCHANGED <<callerVars, doVars, flagVars, portVars, readVars, radio, histVars, events>>
  BY DEF RadioUnsolicited
<1>2. k \in {"push", "garbage", "fatal"}
  BY EngineAssumption DEF EngineAssumption
<1>3. f \in Events /\ f \in Unowned /\ f \in Signed /\ f.id = 0
  BY <1>2, Bounds DEF Events, FrameKinds, Unowned, Signed
<1> HIDE DEF f
<1>4. SignedInv'
  BY <1>1, <1>3, AppendOf DEF SignedInv, readVars
<1>5. wire \in Seq(Unowned) => wire' \in Seq(Unowned)
  BY <1>1, <1>3, AppendOf
<1>6. ASSUME NEW i \in Calls, OneReply(i) PROVE OneReply(i)'
  <2>1. f \in Own(i) /\ wire \in Seq(Own(i))
    BY <1>3, <1>6, Kinds DEF OneReply
  <2>2. wire' \in Seq(Own(i))
    BY <1>1, <2>1, AppendOf
  <2>3. One(wire')
    BY <1>1, <1>3, <1>6, OneAppend, QuietTypes DEF OneReply
  <2>4. UNCHANGED <<radio, chunk, events>>
    BY <1>1 DEF readVars
  <2> QED
    BY <1>5, <1>6, <2>2, <2>3, <2>4 DEF OneReply, One
<1>7. Quiet => Quiet'
  BY <1>1, <1>5 DEF Quiet, readVars
<1> QED
  BY <1>1, <1>4, <1>6, <1>7, LineMoves
  DEF callerVars, doVars, flagVars, portVars, readVars, histVars, Stale

(* Port.Read moves a stretch of the wire into the chunk.                   *)
LEMMA Reads ==
  ASSUME TypeOK, LockInv, SignedInv, LineInv,
         NEW n \in 1 .. ChunkMax, NEW m \in 0 .. ChunkMax, NEW lost \in BOOLEAN,
         ReadChunk(n, m, lost)
  PROVE  SignedInv' /\ LineInv'
<1> DEFINE a == IF m < n THEN <<TooLong>> ELSE <<>>
           b == IF lost THEN <<IoError>> ELSE <<>>
           q == Chunk(wire, m, a, b)
           r == SubSeq(wire, n + 1, Len(wire))
<1>1. n \in Nat /\ m \in Nat /\ m =< n /\ n =< Len(wire)
  BY EngineAssumption DEF EngineAssumption, ReadChunk
<1>2. /\ chunk = <<>> /\ wire' = r /\ chunk' \in {q, <<>>}
      /\ UNCHANGED <<callerVars, doVars, flagVars, portVars, radio, histVars, events>>
  BY DEF ReadChunk, Chunk
<1>3. a \in {<<>>, <<TooLong>>} /\ b \in {<<>>, <<IoError>>}
  OBVIOUS
<1>4. ASSUME NEW S, wire \in Seq(S), TooLong \in S, IoError \in S
      PROVE  /\ q \in Seq(S) /\ r \in Seq(S)
             /\ \A i \in DOMAIN q : \/ i \in 1 .. m /\ i \in DOMAIN wire /\ q[i] = wire[i]
                                    \/ q[i] \in {TooLong, IoError}
             /\ \A i \in DOMAIN r : i \in Nat \ {0} /\ n + i \in DOMAIN wire /\ r[i] = wire[n + i]
  <2>1. q = Chunk(wire, m, a, b) /\ r = SubSeq(wire, n + 1, Len(wire))
    OBVIOUS
  <2> HIDE DEF a, b, r
  <2> QED
    <3>1. m =< Len(wire)
      BY <1>1, QuietTypes
    <3>2. /\ q \in Seq(S)
          /\ \A i \in DOMAIN q : \/ i \in 1 .. m /\ i \in DOMAIN wire /\ q[i] = wire[i]
                                 \/ q[i] \in {TooLong, IoError}
      <4>1. wire \in Seq(S) /\ m \in Nat /\ TooLong \in S /\ IoError \in S
        BY <1>1, <1>4
      <4> QED
        BY ONLY <1>3, <3>1, <4>1, ChunkOf
    <3>3. /\ r \in Seq(S)
          /\ \A i \in DOMAIN r : i \in Nat \ {0} /\ n + i \in DOMAIN wire /\ r[i] = wire[n + i]
      BY ONLY <1>1, <1>4, <2>1, RestOf
    <3> QED
      BY <3>2, <3>3
<1> HIDE DEF a, b, q, r
<1>5. /\ wire \in Seq(Events) /\ wire \in Seq(Signed)
      /\ TooLong \in Events /\ IoError \in Events /\ TooLong.id = 0 /\ IoError.id = 0
  BY QuietTypes, Markers DEF SignedInv, TooLong, IoError
<1>6. SignedInv'
  <2>1. q \in Seq(Signed) /\ r \in Seq(Signed)
    BY <1>4, <1>5, Kinds
  <2> QED
    BY <1>2, <2>1 DEF SignedInv
<1>7. wire \in Seq(Unowned) => chunk' \in Seq(Unowned) /\ wire' \in Seq(Unowned)
  <2> SUFFICES ASSUME wire \in Seq(Unowned) PROVE q \in Seq(Unowned) /\ r \in Seq(Unowned)
    BY <1>2, EmptySeq
  <2>1. TooLong \in Unowned /\ IoError \in Unowned
    BY Kinds
  <2> QED
    BY <1>4, <2>1
<1>8. /\ q \in Seq(Events) /\ r \in Seq(Events)
      /\ \A i \in DOMAIN q : q[i].id # 0 => i \in 1 .. m /\ i \in DOMAIN wire /\ q[i] = wire[i]
      /\ \A i \in DOMAIN r : i \in Nat \ {0} /\ n + i \in DOMAIN wire /\ r[i] = wire[n + i]
  BY <1>4, <1>5
<1>9. ASSUME NEW i \in Calls, OneReply(i) PROVE OneReply(i)'
  <2>1. /\ chunk' \in Seq(Own(i)) /\ wire' \in Seq(Own(i))
    <3>1. wire \in Seq(Own(i)) /\ TooLong \in Own(i) /\ IoError \in Own(i)
      BY <1>9, Kinds DEF OneReply
    <3>2. q \in Seq(Own(i)) /\ r \in Seq(Own(i))
      BY <1>4, <3>1
    <3> QED
      BY <1>2, <3>2, EmptySeq
  <2>2. One(q)
    BY <1>8, <1>9 DEF One, OneReply
  <2>3. One(r)
    <3>1. ASSUME NEW j \in DOMAIN r, NEW k \in DOMAIN r, r[j].id # 0, r[k].id # 0
          PROVE  j = k
      <4>0. /\ n + j \in DOMAIN wire /\ wire[n + j].id # 0
            /\ n + k \in DOMAIN wire /\ wire[n + k].id # 0
        BY <1>8, <3>1
      <4>1. n + j = n + k
        BY <1>9, <4>0 DEF One, OneReply
      <4>2. j \in Nat /\ k \in Nat
        BY <1>8
      <4> QED
        BY <1>1, <4>1, <4>2
    <3> QED
      BY <3>1 DEF One
  <2>4. One(chunk') /\ One(wire')
    BY <1>2, <2>2, <2>3 DEF One
  <2>5. r \in Seq(Unowned) \/ q \in Seq(Unowned)
    <3>1. SUFFICES ASSUME r \notin Seq(Unowned), q \notin Seq(Unowned) PROVE FALSE
      OBVIOUS
    <3>2. PICK j \in DOMAIN r : r[j].id # 0
      BY <1>8, <3>1, CleanSeq
    <3>3. PICK k \in DOMAIN q : q[k].id # 0
      BY <1>8, <3>1, CleanSeq
    <3>4. n + j \in DOMAIN wire /\ k \in DOMAIN wire /\ wire[n + j].id # 0 /\ wire[k].id # 0
      BY <1>8, <3>2, <3>3
    <3>5. n + j = k
      BY <1>9, <3>4 DEF One, OneReply
    <3>6. j \in Nat \ {0} /\ k \in 1 .. m
      BY <1>8, <3>2, <3>3
    <3> QED
      BY <1>1, <3>5, <3>6
  <2>6. /\ radio # <<>> => wire' \in Seq(Unowned) /\ chunk' \in Seq(Unowned)
        /\ wire' \notin Seq(Unowned) => chunk' \in Seq(Unowned)
    BY <1>2, <1>7, <1>9, <2>5 DEF OneReply
  <2>7. \/ radio # <<>> \/ wire' \notin Seq(Unowned) \/ chunk' \notin Seq(Unowned)
        => events \in Seq(Unowned)
    BY <1>7, <1>9 DEF OneReply
  <2> QED
    BY <1>2, <1>9, <2>1, <2>4, <2>6, <2>7 DEF OneReply, One
<1>10. Quiet => Quiet'
  BY <1>2, <1>7 DEF Quiet
<1> QED
  BY <1>2, <1>6, <1>9, <1>10, LineMoves
  DEF callerVars, doVars, flagVars, portVars, histVars, Stale

(* sendEvent moves the head of the chunk into e.events, or gives up.       *)
LEMMA Sends ==
  ASSUME TypeOK, LockInv, SignedInv, EndInv, LineInv, SendEvent
  PROVE  SignedInv' /\ EndInv' /\ LineInv'
<1> DEFINE f == Head(chunk)
<1>1. /\ rpc = "run" /\ chunk # <<>> /\ f.kind # "io"
      /\ UNCHANGED <<callerVars, doVars, flagVars, portVars, lineVars, histVars>>
  BY DEF SendEvent
<1>2. UNCHANGED <<pc, call, mu, why, discarded, suspect, contaminated, astray,
                  closed, radio, wire>>
  BY <1>1 DEF callerVars, doVars, flagVars, portVars, lineVars, histVars
<1>3. \A i \in DOMAIN events : events[i].kind # "io"
  BY <1>1 DEF EndInv
<1>4. CASE /\ events' = Append(events, f) /\ chunk' = Tail(chunk)
           /\ UNCHANGED rpc
  <2>1. ASSUME NEW S, chunk \in Seq(S)
        PROVE  /\ f \in S /\ chunk' \in Seq(S)
               /\ events \in Seq(S) => events' \in Seq(S)
    BY <1>1, <1>4, <2>1, TailOf, AppendOf
  <2>2. f \in Events /\ chunk \in Seq(Events)
    BY <2>1, QuietTypes
  <2>3. /\ DOMAIN events' = 1 .. Len(events) + 1 /\ DOMAIN events = 1 .. Len(events)
        /\ \A i \in DOMAIN events : events'[i] = events[i]
        /\ events'[Len(events) + 1] = f /\ Len(events) \in Nat
    BY <1>4, <2>2, QuietTypes, AppendOf
  <2> HIDE DEF f
  <2>4. SignedInv'
    BY <1>2, <2>1 DEF SignedInv
  <2>5. EndInv'
    <3>1. \A i \in DOMAIN events' : events'[i].kind # "io"
      BY <1>1, <1>3, <2>3
    <3> QED
      BY <1>1, <1>2, <1>4, <3>1 DEF EndInv
  <2>6. chunk \in Seq(Unowned) =>
          chunk' \in Seq(Unowned) /\ f.id = 0 /\ (events \in Seq(Unowned) => events' \in Seq(Unowned))
    BY <2>1 DEF Unowned
  <2>7. ASSUME NEW i \in Calls, OneReply(i) PROVE OneReply(i)'
    <3>1. /\ One(chunk) /\ One(events) /\ chunk \in Seq(Own(i)) /\ events \in Seq(Own(i))
          /\ chunk \notin Seq(Unowned) => events \in Seq(Unowned)
      BY <2>7 DEF OneReply
    <3>2. chunk' \in Seq(Own(i)) /\ events' \in Seq(Own(i))
      BY <2>1, <3>1
    <3>3. One(chunk') /\ (f.id # 0 => chunk' \in Seq(Unowned))
      BY <1>1, <1>4, <2>2, <3>1, OneTail DEF f
    <3>4. One(events')
      BY <1>4, <2>2, <2>6, <3>1, QuietTypes, OneAppend
    <3>5. chunk' \notin Seq(Unowned) => events' \in Seq(Unowned)
      <4>1. SUFFICES ASSUME chunk' \notin Seq(Unowned) PROVE events' \in Seq(Unowned)
        OBVIOUS
      <4>2. f.id = 0 /\ chunk \notin Seq(Unowned)
        BY <2>6, <3>3, <4>1
      <4> QED
        BY <1>4, <2>2, <3>1, <4>2, QuietTypes, OneAppend, CleanIsOne
    <3> QED
      BY <1>2, <2>6, <2>7, <3>2, <3>3, <3>4, <3>5 DEF OneReply, One
  <2>8. Quiet => Quiet' /\ (events \in Seq(Unowned) => events' \in Seq(Unowned))
    BY <1>2, <2>6 DEF Quiet
  <2>9. Quiet /\ Stale => Stale'
    BY <1>2, <2>3, <2>6 DEF Quiet, Stale
  <2> QED
    BY <1>2, <2>4, <2>5, <2>7, <2>8, <2>9, LineMoves
<1>5. CASE Released /\ rpc' = "done" /\ chunk' = <<>> /\ UNCHANGED events
  <2>1. SignedInv'
    BY <1>2, <1>5, EmptySeq DEF SignedInv
  <2>2. EndInv'
    BY <1>2, <1>3, <1>5 DEF EndInv, Released
  <2>3. ASSUME NEW i \in Calls, OneReply(i) PROVE OneReply(i)'
    <3>1. chunk' \in Seq(Unowned) /\ chunk' \in Seq(Own(i)) /\ One(chunk')
      BY <1>5, EmptySeq DEF One
    <3> QED
      BY <1>2, <1>5, <2>3, <3>1 DEF OneReply, One
  <2>4. Quiet => Quiet'
    BY <1>2, <1>5, EmptySeq DEF Quiet
  <2> QED
    BY <1>2, <1>5, <2>1, <2>2, <2>3, <2>4, LineMoves DEF Stale
<1> QED
  BY <1>1, <1>4, <1>5 DEF SendEvent

(* The reader's own marker in the chunk.                                   *)
LEMMA ReadFails ==
  ASSUME TypeOK, LockInv, SignedInv, EndInv, LineInv, ReadError
  PROVE  SignedInv' /\ EndInv' /\ LineInv'
<1>1. /\ chunk = <<>> /\ chunk' = <<IoError>>
      /\ UNCHANGED <<callerVars, doVars, flagVars, portVars, rpc, lineVars, histVars, events>>
  BY DEF ReadError
<1>2. UNCHANGED <<pc, call, mu, why, discarded, suspect, contaminated, astray,
                  closed, radio, wire, rpc, events>>
  BY <1>1 DEF callerVars, doVars, flagVars, portVars, lineVars, histVars
<1>3. chunk' \in Seq(Unowned) /\ chunk' \in Seq(Signed) /\ One(chunk')
  <2>1. <<IoError>> \in Seq(Unowned) /\ <<IoError>> \in Seq(Signed)
    BY Kinds
  <2> QED
    BY <1>1, <2>1, CleanIsOne
<1>4. \A i : chunk' \in Seq(Own(i))
  BY <1>3, Kinds, SeqOfMore
<1>5. \A i \in Calls : OneReply(i) => OneReply(i)'
  BY <1>2, <1>3, <1>4 DEF OneReply, One
<1>6. SignedInv' /\ EndInv'
  BY <1>2, <1>3 DEF SignedInv, EndInv
<1>7. Quiet => Quiet'
  BY <1>2, <1>3 DEF Quiet
<1> QED
  BY <1>2, <1>5, <1>6, <1>7, LineMoves DEF Stale

(* readLoop's last send.                                                   *)
LEMMA ReaderEnds ==
  ASSUME TypeOK, LockInv, SignedInv, EndInv, LineInv, LastEvent
  PROVE  SignedInv' /\ EndInv' /\ LineInv'
<1>1. /\ rpc = "last" /\ rpc' = "done" /\ chunk' = <<>>
      /\ UNCHANGED <<callerVars, doVars, flagVars, portVars, lineVars, histVars>>
      /\ events' \in {events, Append(events, IoError)}
  BY DEF LastEvent
<1>2. UNCHANGED <<pc, call, mu, why, discarded, suspect, contaminated, astray,
                  closed, radio, wire>>
  BY <1>1 DEF callerVars, doVars, flagVars, portVars, lineVars, histVars
<1>3. /\ IoError \in Unowned /\ IoError \in Signed /\ IoError \in Events
      /\ IoError.id = 0 /\ IoError.kind = "io"
  BY Kinds, Markers DEF IoError
<1>4. closed /\ \A i \in DOMAIN events : events[i].kind # "io"
  BY <1>1 DEF EndInv
<1>5. \/ events' = events
      \/ /\ DOMAIN events' = 1 .. Len(events) + 1 /\ DOMAIN events = 1 .. Len(events)
         /\ \A i \in DOMAIN events : events'[i] = events[i]
         /\ events'[Len(events) + 1] = IoError
         /\ Len(events) \in Nat /\ Len(events') = Len(events) + 1
  <2>1. CASE events' = Append(events, IoError)
    <3>1. events \in Seq(Events)
      BY QuietTypes
    <3>2. /\ DOMAIN Append(events, IoError) = 1 .. Len(events) + 1
          /\ DOMAIN events = 1 .. Len(events) /\ Len(events) \in Nat
          /\ \A i \in DOMAIN events : Append(events, IoError)[i] = events[i]
          /\ Append(events, IoError)[Len(events) + 1] = IoError
          /\ Len(Append(events, IoError)) = Len(events) + 1
      BY ONLY <1>3, <3>1, AppendOf
    <3> QED
      BY ONLY <2>1, <3>2
  <2> QED
    BY <1>1, <2>1
<1>6. ASSUME NEW S, IoError \in S, events \in Seq(S) PROVE events' \in Seq(S)
  BY <1>1, <1>6, AppendOf
<1>7. One(events) => One(events')
  BY <1>1, <1>3, OneAppend, QuietTypes
<1>8. SignedInv'
  BY <1>1, <1>2, <1>3, <1>6, EmptySeq DEF SignedInv
<1>9. EndInv'
  <2>1. \A i \in DOMAIN events' : events'[i].kind = "io" => i = Len(events')
    BY <1>3, <1>4, <1>5
  <2> QED
    BY <1>1, <1>2, <1>4, <2>1 DEF EndInv
<1>10. ASSUME NEW i \in Calls, OneReply(i) PROVE OneReply(i)'
  <2>1. chunk' \in Seq(Unowned) /\ chunk' \in Seq(Own(i)) /\ One(chunk')
    BY <1>1, EmptySeq DEF One
  <2>2. events' \in Seq(Own(i)) /\ One(events')
    BY <1>3, <1>6, <1>7, <1>10, Kinds DEF OneReply
  <2>3. events \in Seq(Unowned) => events' \in Seq(Unowned)
    BY <1>3, <1>6
  <2> QED
    BY <1>2, <1>10, <2>1, <2>2, <2>3 DEF OneReply, One
<1>11. Quiet => Quiet'
  BY <1>1, <1>2, EmptySeq DEF Quiet
<1>12. Quiet /\ events \in Seq(Unowned) => events' \in Seq(Unowned)
  BY <1>3, <1>6
<1>13. Quiet /\ Stale => Stale'
  BY <1>2, <1>3, <1>5 DEF Stale
<1> QED
  BY <1>2, <1>8, <1>9, <1>10, <1>11, <1>12, <1>13, LineMoves

(* A step that touches no queue and opens nothing.                         *)
LEMMA LineStays ==
  ASSUME LockInv, SignedInv, EndInv, LineInv,
         UNCHANGED <<pc, call, mu, why, discarded, suspect, contaminated, astray,
                     radio, wire, chunk, events>>,
         closed => closed',
         \/ UNCHANGED rpc
         \/ rpc # "done" /\ closed'
  PROVE  SignedInv' /\ EndInv' /\ LineInv'
<1>1. \A i \in Calls : OneReply(i) => OneReply(i)'
  BY DEF OneReply, One
<1>2. SignedInv' /\ EndInv'
  BY DEF SignedInv, EndInv
<1>3. Quiet => Quiet'
  BY DEF Quiet
<1> QED
  BY <1>1, <1>2, <1>3, LineMoves DEF Stale

(* All that is not a caller's step.                                        *)
LEMMA LineElsewhere ==
  ASSUME TypeOK, LockInv, GateInv, RInv, Elsewhere
  PROVE  RInv'
<1> USE DEF RInv
<1>1. UNCHANGED <<pc, call, outcome, mu, why, discarded, suspect, contaminated, astray>>
  BY DEF Elsewhere, vars, callerVars, doVars, flagVars, histVars, Reader, ReadChunk,
     ReadError, SendEvent, ReaderCloses, ReaderClosed, Publish, Published, LastEvent,
     CloseEngine, CloseReturns, PortClosed, RadioReply, RadioUnsolicited, CancelContext
<1>2. OutcomeInv' /\ FreeInv'
  BY <1>1 DEF OutcomeInv, FreeInv
<1>3. CASE RadioReply
  <2>1. EndInv'
    BY <1>1, <1>3 DEF RadioReply, EndInv, portVars, readVars
  <2> QED
    BY <1>2, <1>3, <2>1, RadioReplies
<1>4. ASSUME NEW k \in Unsolicited, RadioUnsolicited(k) PROVE RInv'
  <2>1. EndInv'
    BY <1>1, <1>4 DEF RadioUnsolicited, EndInv, portVars, readVars
  <2> QED
    BY <1>2, <1>4, <2>1, RadioSpeaks
<1>5. ASSUME NEW n \in 1 .. ChunkMax, NEW m \in 0 .. ChunkMax, NEW lost \in BOOLEAN,
             ReadChunk(n, m, lost)
      PROVE  RInv'
  <2>1. /\ rpc = "run" /\ rpc' \in {"run", "publish"}
        /\ UNCHANGED <<events, closed>>
    BY <1>5 DEF ReadChunk, portVars
  <2>2. EndInv'
    BY <1>1, <2>1 DEF EndInv
  <2> QED
    BY <1>2, <1>5, <2>2, Reads
<1>6. CASE ReadError
  BY <1>2, <1>6, ReadFails
<1>7. CASE SendEvent
  BY <1>2, <1>7, Sends
<1>8. CASE LastEvent
  BY <1>2, <1>8, ReaderEnds
<1>9. CASE \/ ReaderCloses \/ ReaderClosed \/ Publish \/ Published \/ CloseEngine
           \/ CloseReturns \/ PortClosed \/ (\E c \in Callers : CancelContext(c))
           \/ UNCHANGED vars
  <2>1. UNCHANGED <<radio, wire, chunk, events>>
    BY <1>9 DEF vars, lineVars, readVars, ReaderCloses, ReaderClosed, Publish, Published,
       CloseEngine, CloseReturns, PortClosed, CancelContext
  <2>2. closed => closed'
    BY <1>9 DEF vars, portVars, ReaderCloses, ReaderClosed, Publish, Published,
       CloseEngine, CloseReturns, PortClosed, CancelContext, ClosePort
  <2>3. \/ UNCHANGED rpc
        \/ rpc # "done" /\ closed'
    <3>1. rpc \in {"closing", "publishing"} => closed
      BY DEF EndInv
    <3> QED
      BY <1>9, <2>2, <3>1 DEF vars, readVars, ReaderCloses, ReaderClosed, Publish, Published,
         CloseEngine, CloseReturns, PortClosed, CancelContext, ClosePort
  <2> QED
    BY <1>1, <1>2, <2>1, <2>2, <2>3, LineStays
<1> QED
  BY <1>3, <1>4, <1>5, <1>6, <1>7, <1>8, <1>9 DEF Elsewhere, Reader

-----------------------------------------------------------------------------
(* The steps of a caller.                                                  *)

(* A caller touches neither the wire nor the chunk, takes events from the  *)
(* head of e.events, and never opens what is closed.                       *)
LEMMA CallerLine ==
  ASSUME NEW c \in Callers, Step(c)
  PROVE  /\ UNCHANGED <<wire, chunk, rpc>>
         /\ closed => closed'
         /\ events' = events \/ (events # <<>> /\ events' = Tail(events))
         /\ radio' = radio \/ FrameLeaves(c)
<1> USE DEF callerVars, doVars, flagVars, portVars, lineVars, readVars, histVars
<1>1. CASE RefuseDeadContext(c)
  BY <1>1 DEF RefuseDeadContext
<1>2. CASE RefuseAtEntry(c)
  BY <1>2 DEF RefuseAtEntry
<1>3. CASE EnterDrain(c)
  BY <1>3 DEF EnterDrain
<1>4. CASE EnterPurge(c)
  BY <1>4 DEF EnterPurge
<1>5. CASE PurgeEvent(c)
  BY <1>5 DEF PurgeEvent
<1>6. CASE PurgeDone(c)
  BY <1>6 DEF PurgeDone
<1>7. CASE Disallow(c)
  BY <1>7 DEF Disallow
<1>8. CASE BeginWrite(c)
  BY <1>8 DEF BeginWrite
<1>9. CASE RefuseWrite(c)
  BY <1>9 DEF RefuseWrite
<1>10. CASE FrameLeaves(c)
  BY <1>10 DEF FrameLeaves
<1>11. CASE WriteFails(c)
  BY <1>11 DEF WriteFails, ClosePort
<1>12. CASE WriteFailed(c)
  BY <1>12 DEF WriteFailed
<1>13. CASE WaitDeadline(c)
  BY <1>13 DEF WaitDeadline
<1>14. CASE WaitEvent(c)
  BY <1>14 DEF WaitEvent
<1>15. CASE WaitClosed(c)
  BY <1>15 DEF WaitClosed
<1>16. CASE WaitCancelled(c)
  BY <1>16 DEF WaitCancelled
<1>17. CASE DrainEvent(c)
  BY <1>17 DEF DrainEvent
<1>18. CASE DrainQuiet(c)
  BY <1>18 DEF DrainQuiet
<1>19. CASE DrainCapReached(c)
  BY <1>19 DEF DrainCapReached, DrainFails
<1>20. CASE DrainClosed(c)
  BY <1>20 DEF DrainClosed, DrainFails
<1>21. CASE DrainCancelled(c)
  BY <1>21 DEF DrainCancelled, DrainFails
<1> QED
  BY <1>1, <1>2, <1>3, <1>4, <1>5, <1>6, <1>7, <1>8, <1>9, <1>10, <1>11, <1>12, <1>13,
     <1>14, <1>15, <1>16, <1>17, <1>18, <1>19, <1>20, <1>21 DEF Step

(* What a call will return is not known before its wait ends.              *)
LEMMA OutcomeStep ==
  ASSUME TypeOK, LockInv, OutcomeInv, FreeInv, NEW c \in Callers, Step(c)
  PROVE  OutcomeInv' /\ FreeInv'
<1> USE NoSuchCaller DEF callerVars, doVars, flagVars, OutcomeInv, FreeInv, LockInv, Busy,
      TypeOK, CallerTypes, HolderTypes
<1>1. CASE RefuseDeadContext(c)
  BY <1>1 DEF RefuseDeadContext, Goto, Decide
<1>2. CASE RefuseAtEntry(c)
  BY <1>2 DEF RefuseAtEntry, Goto, Decide, MuFree
<1>3. CASE EnterDrain(c)
  BY <1>3 DEF EnterDrain, MuFree, StartDrain, Goto
<1>4. CASE EnterPurge(c)
  BY <1>4 DEF EnterPurge, MuFree, Goto
<1>5. CASE PurgeEvent(c)
  BY <1>5 DEF PurgeEvent, ReturnWith, Return, Goto, Decide
<1>6. CASE PurgeDone(c)
  BY <1>6 DEF PurgeDone, ReturnWith, Return, Goto, Decide
<1>7. CASE Disallow(c)
  BY <1>7 DEF Disallow, ReturnWith, Return, Goto, Decide
<1>8. CASE BeginWrite(c)
  BY <1>8 DEF BeginWrite, Goto
<1>9. CASE RefuseWrite(c)
  BY <1>9 DEF RefuseWrite, ReturnWith, Return, Goto, Decide
<1>10. CASE FrameLeaves(c)
  BY <1>10 DEF FrameLeaves, Goto
<1>11. CASE WriteFails(c)
  BY <1>11 DEF WriteFails, Goto
<1>12. CASE WriteFailed(c)
  BY <1>12 DEF WriteFailed, ReturnWith, Return, Goto, Decide
<1>13. CASE WaitDeadline(c)
  BY <1>13 DEF WaitDeadline, Conclude, StartDrain, Return, Goto, Decide
<1>14. CASE WaitEvent(c)
  BY <1>14 DEF WaitEvent, Conclude, StartDrain, Return, Goto, Decide
<1>15. CASE WaitClosed(c)
  BY <1>15 DEF WaitClosed, Conclude, StartDrain, Return, Goto, Decide
<1>16. CASE WaitCancelled(c)
  BY <1>16 DEF WaitCancelled, Conclude, StartDrain, Return, Goto, Decide
<1>17. CASE DrainEvent(c)
  BY <1>17 DEF DrainEvent
<1>18. CASE DrainQuiet(c)
  BY <1>18 DEF DrainQuiet, ReturnWith, Return, Goto, Decide
<1>19. CASE DrainCapReached(c)
  BY <1>19 DEF DrainCapReached, DrainFails, Return, Goto, Decide
<1>20. CASE DrainClosed(c)
  BY <1>20 DEF DrainClosed, DrainFails, Return, Goto, Decide
<1>21. CASE DrainCancelled(c)
  BY <1>21 DEF DrainCancelled, DrainFails, Return, Goto, Decide
<1> QED
  BY <1>1, <1>2, <1>3, <1>4, <1>5, <1>6, <1>7, <1>8, <1>9, <1>10, <1>11, <1>12, <1>13,
     <1>14, <1>15, <1>16, <1>17, <1>18, <1>19, <1>20, <1>21 DEF Step

(* Callers only take events away, so what is signed stays signed.          *)
LEMMA SignedStep ==
  ASSUME TypeOK, SignedInv, NEW c \in Callers, Step(c)
  PROVE  SignedInv'
<1>1. events' \in Seq(Signed)
  BY CallerLine, TailOf DEF SignedInv
<1> QED
  BY <1>1, CallerLine DEF SignedInv

(* The error stays the last event there is.                                *)
LEMMA EndStep ==
  ASSUME TypeOK, EndInv, NEW c \in Callers, Step(c)
  PROVE  EndInv'
<1>1. rpc' = rpc /\ (closed => closed')
  BY CallerLine
<1>2. ASSUME NEW i \in DOMAIN events', events'[i].kind = "io"
      PROVE  i = Len(events') /\ rpc' = "done"
  <2>1. CASE events' = events
    BY <1>1, <1>2, <2>1 DEF EndInv
  <2>2. CASE events # <<>> /\ events' = Tail(events)
    <3>1. /\ i \in Nat /\ i + 1 \in DOMAIN events /\ events[i + 1].kind = "io"
          /\ Len(events') = Len(events) - 1
      BY <1>2, <2>2, QuietTypes, TailOf
    <3>2. i + 1 = Len(events) /\ rpc = "done"
      BY <3>1 DEF EndInv
    <3> QED
      BY <1>1, <3>1, <3>2
  <2> QED
    BY <2>1, <2>2, CallerLine
<1>3. ASSUME NEW d \in Callers, pc'[d] = "failed", pc[d] # "failed"
      PROVE  closed'
  BY <1>3 DEF Step, TypeOK, CallerTypes, callerVars, doVars, RefuseDeadContext,
     RefuseAtEntry, EnterDrain, EnterPurge, PurgeEvent, PurgeDone, Disallow,
     BeginWrite, RefuseWrite, FrameLeaves, WriteFails, WriteFailed, WaitDeadline,
     WaitEvent, WaitClosed, WaitCancelled, DrainEvent, DrainQuiet, DrainCapReached,
     DrainClosed, DrainCancelled, ReturnWith, Return, Goto, StartDrain, Conclude,
     DrainFails, ClosePort
<1> QED
  BY <1>1, <1>2, <1>3 DEF EndInv

(* The shapes of a caller's step, as LineInv sees them.                    *)
LEMMA LineHeld ==
  ASSUME LockInv', NEW c \in Callers, mu' = c, Punctual /\ ~astray' => At(c)'
  PROVE  LineInv'
<1>1. ASSUME NEW d \in Callers, d # c PROVE At(d)'
  <2>1. pc'[d] \notin Busy
    BY <1>1 DEF LockInv
  <2> QED
    BY <2>1 DEF At, Busy
<1> QED
  BY <1>1, NoSuchCaller DEF LineInv

LEMMA LineFreed ==
  ASSUME LockInv', mu' = "none", Punctual /\ ~astray' /\ Trusted' => Quiet'
  PROVE  LineInv'
<1>1. ASSUME NEW d \in Callers PROVE At(d)'
  <2>1. pc'[d] \notin Busy
    BY NoSuchCaller DEF LockInv
  <2> QED
    BY <2>1 DEF At, Busy
<1> QED
  BY <1>1 DEF LineInv

LEMMA LineApart ==
  ASSUME LineInv, NEW c \in Callers, pc'[c] \notin Busy,
         \A d \in Callers : d # c => pc'[d] = pc[d] /\ call'[d] = call[d],
         UNCHANGED <<mu, why, discarded, suspect, contaminated, astray, closed,
                     radio, wire, chunk, events>>
  PROVE  LineInv'
<1>1. /\ Quiet' = Quiet /\ Stale' = Stale /\ Trusted' = Trusted
      /\ \A i : OneReply(i)' = OneReply(i)
  BY DEF Quiet, Stale, Trusted, OneReply, One
<1>2. ASSUME NEW d \in Callers, d # c, At(d) PROVE At(d)'
  BY <1>1, <1>2 DEF At
<1>3. At(c)'
  BY DEF At, Busy
<1> QED
  BY <1>1, <1>2, <1>3 DEF LineInv

(* The end of a wait with verdict o.                                       *)
LEMMA ConcludeLine ==
  ASSUME LockInv', NEW c \in Callers, mu = c, TypeOK,
         NEW o \in {"Ok", "Rejected", "Timeout", "Ctx", "Closed", "Contaminated"},
         NEW id, Conclude(c, o, id),
         Punctual /\ ~astray /\ o \in {"Ok", "Rejected"} /\ Class(c) = "Read" => Quiet',
         o = "Closed" => closed',
         o = "Contaminated" => contaminated'
  PROVE  LineInv'
<1>1. CASE StartDrain(c, "retry") /\ astray' = TRUE
  BY <1>1 DEF LineInv
<1>2. CASE StartDrain(c, "after") /\ mu' = mu
  <2>1. pc'[c] = "drain" /\ why' = "after"
    BY <1>2 DEF StartDrain, Goto, TypeOK, CallerTypes
  <2> QED
    BY <1>2, <2>1, LineHeld DEF At
<1>3. CASE /\ ~Quarantines(c, o) /\ Return(c)
           /\ suspect' = (suspect \/ Uncertain(o)) /\ UNCHANGED astray
  <2>1. Punctual /\ ~astray' /\ Trusted' => Quiet'
    BY <1>3 DEF Quarantines, Uncertain, Trusted
  <2> QED
    BY <1>3, <2>1, LineFreed DEF Return
<1> QED
  BY <1>1, <1>2, <1>3 DEF Conclude

(* A drain that failed.                                                    *)
LEMMA DrainFailsLine ==
  ASSUME TypeOK, LockInv', LineInv, NEW c \in Callers, pc[c] = "drain", why # "none",
         NEW o, DrainFails(c, o), events' = events \/ events' = Tail(events)
  PROVE  LineInv'
<1>1. mu' = "none" /\ UNCHANGED <<closed, contaminated, astray, radio, wire, chunk>>
  BY DEF DrainFails, Return, portVars, readVars, lineVars, histVars
<1>2. (why \in {"caller", "retry", "entry"} /\ UNCHANGED suspect) \/ suspect'
  BY DEF DrainFails
<1>3. ASSUME Punctual, ~astray', Trusted' PROVE Quiet'
  <2>1. At(c) /\ Trusted /\ why \in {"caller", "retry", "entry"}
    BY <1>1, <1>2, <1>3 DEF LineInv, Trusted
  <2>2. Quiet
    BY <2>1 DEF At
  <2> QED
    BY <1>1, <2>2 DEF Quiet
<1> QED
  BY <1>1, <1>3, LineFreed

(* A purge that has discarded nothing.                                     *)
LEMMA FreshPurge ==
  ASSUME TypeOK, discarded' = 0, events' = events
  PROVE  Stale'
<1>1. /\ Len(events) \in Nat /\ Len(events) =< EventCap /\ EventCap \in Nat
      /\ DOMAIN events = 1 .. Len(events)
  BY QuietTypes, Bounds
<1>2. \A i \in DOMAIN events : i + 0 =< EventCap
  BY <1>1
<1> QED
  BY <1>2 DEF Stale

(* Every step of a caller.                                                 *)
LEMMA LineStep ==
  ASSUME TypeOK, LockInv, LockInv', TruthInv, RInv, NEW c \in Callers, Step(c)
  PROVE  LineInv'
<1> USE DEF RInv, callerVars, doVars, flagVars, portVars, readVars, lineVars, histVars
<1>1. CASE RefuseDeadContext(c)
  <2>1. /\ pc'[c] \notin Busy /\ \A d \in Callers : d # c => pc'[d] = pc[d]
        /\ UNCHANGED <<call, mu, why, discarded, suspect, contaminated, astray, closed,
                       radio, wire, chunk, events>>
    BY <1>1 DEF RefuseDeadContext, Goto, Busy, TypeOK, CallerTypes
  <2> QED
    BY <2>1, LineApart
<1>2. CASE RefuseAtEntry(c)
  <2>1. /\ pc'[c] \notin Busy /\ \A d \in Callers : d # c => pc'[d] = pc[d]
        /\ UNCHANGED <<call, mu, why, discarded, suspect, contaminated, astray, closed,
                       radio, wire, chunk, events>>
    BY <1>2 DEF RefuseAtEntry, Goto, Busy, TypeOK, CallerTypes
  <2> QED
    BY <2>1, LineApart
<1>3. CASE EnterDrain(c)
  <2>1. /\ mu = "none" /\ mu' = c /\ pc'[c] = "drain" /\ why' \in {"caller", "entry"}
        /\ UNCHANGED <<suspect, contaminated, astray, closed, radio, wire, chunk>>
    BY <1>3 DEF EnterDrain, MuFree, StartDrain, Goto, TypeOK, CallerTypes
  <2>2. Punctual /\ ~astray' => At(c)'
    BY <2>1 DEF LineInv, At, Trusted, Quiet
  <2> QED
    BY <2>1, <2>2, LineHeld
<1>4. CASE EnterPurge(c)
  <2>1. /\ mu = "none" /\ mu' = c /\ pc'[c] = "purge" /\ Trusted
        /\ UNCHANGED <<suspect, contaminated, astray, closed, radio, wire, chunk,
                       events, discarded>>
    BY <1>4 DEF EnterPurge, MuFree, StreamTrusted, Trusted, Goto, TypeOK, CallerTypes
  <2>2. Stale'
    BY <2>1, FreshPurge DEF FreeInv
  <2>3. Punctual /\ ~astray' => At(c)'
    BY <2>1, <2>2 DEF LineInv, At, Quiet
  <2> QED
    BY <2>1, <2>3, LineHeld
<1>5. CASE PurgeEvent(c)
  <2>1. /\ pc[c] = "purge" /\ mu = c /\ events # <<>> /\ events' = Tail(events)
        /\ UNCHANGED <<call, closed, astray, radio, wire, chunk>>
    BY <1>5 DEF PurgeEvent, LockInv, Busy
  <2>2. CASE Head(events).kind = "io" /\ ReturnWith(c, "Closed")
    <3>1. closed
      BY <2>1, <2>2, QuietTypes, TailOf DEF EndInv
    <3> QED
      BY <2>1, <2>2, <3>1, LineFreed DEF ReturnWith, Return, Trusted
  <2>3. CASE ReturnWith(c, "Contaminated") /\ contaminated' = TRUE
    BY <2>3, LineFreed DEF ReturnWith, Return, Trusted
  <2>4. CASE discarded' = discarded + 1 /\ UNCHANGED <<pc, mu>>
    <3>1. Quiet /\ Stale => Quiet' /\ Stale'
      <4>1. /\ discarded \in Nat /\ EventCap \in Nat
            /\ \A i \in DOMAIN events' :
                 i \in Nat /\ i + 1 \in DOMAIN events /\ events'[i] = events[i + 1]
        BY <2>1, QuietTypes, TailOf, Bounds DEF TypeOK, HolderTypes
      <4> QED
        BY <2>1, <2>4, <4>1 DEF Quiet, Stale
    <3>2. Punctual /\ ~astray' => At(c)'
      BY <2>1, <2>4, <3>1 DEF LineInv, At
    <3> QED
      BY <2>1, <2>4, <3>2, LineHeld
  <2> QED
    BY <1>5, <2>2, <2>3, <2>4 DEF PurgeEvent
<1>6. CASE PurgeDone(c)
  <2>1. /\ pc[c] = "purge" /\ mu = c
        /\ events = <<>> \/ discarded >= PurgeBound \/ ~Punctual
        /\ UNCHANGED <<call, closed, suspect, contaminated, astray, radio, wire, chunk, events>>
    BY <1>6 DEF PurgeDone, LockInv, Busy
  <2>2. Punctual /\ ~astray' => Quiet' /\ Stale
    BY <2>1 DEF LineInv, At, Quiet
  <2>3. CASE ReturnWith(c, "Ctx")
    BY <2>2, <2>3, LineFreed DEF ReturnWith, Return
  <2>4. CASE Goto(c, "send") /\ UNCHANGED mu
    <3>1. pc'[c] = "send"
      BY <2>4 DEF Goto, TypeOK, CallerTypes
    <3>2. ASSUME Punctual, ~astray' PROVE events' \in Seq(Unowned)
      <4>1. CASE events = <<>>
        BY <2>1, <4>1, EmptySeq
      <4>2. CASE discarded >= PurgeBound
        <5>1. PurgeBound > EventCap /\ PurgeBound \in Nat /\ EventCap \in Nat
          BY EngineAssumption DEF EngineAssumption
        <5>2. \A i \in DOMAIN events : i \in Nat /\ i > 0
          BY QuietTypes
        <5>3. discarded \in Nat
          BY DEF TypeOK, HolderTypes
        <5>4. \A i \in DOMAIN events : events[i].id = 0
          BY <2>2, <3>2, <4>2, <5>1, <5>2, <5>3 DEF Stale
        <5> QED
          BY <2>1, <5>4, QuietTypes, CleanSeq
      <4> QED
        BY <2>1, <3>2, <4>1, <4>2
    <3>3. Punctual /\ ~astray' => At(c)'
      BY <2>2, <3>1, <3>2 DEF At
    <3> QED
      BY <2>1, <2>4, <3>3, LineHeld
  <2> QED
    BY <1>6, <2>3, <2>4 DEF PurgeDone
<1>7. CASE Disallow(c)
  <2>1. mu' = "none" /\ pc[c] = "send" /\ UNCHANGED <<astray, radio, wire, chunk>>
    BY <1>7 DEF Disallow, ReturnWith, Return
  <2> QED
    BY <2>1, LineFreed DEF LineInv, At, Quiet
<1>8. CASE BeginWrite(c)
  <2>1. /\ mu' = c /\ pc[c] = "send" /\ pc'[c] = "write"
        /\ UNCHANGED <<astray, radio, wire, chunk, events>>
    BY <1>8 DEF BeginWrite, Goto, LockInv, Busy, TypeOK, CallerTypes
  <2>2. Punctual /\ ~astray' => At(c)'
    BY <2>1 DEF LineInv, At, Quiet
  <2> QED
    BY <2>1, <2>2, LineHeld
<1>9. CASE RefuseWrite(c)
  <2>1. mu' = "none" /\ pc[c] = "send" /\ UNCHANGED <<astray, radio, wire, chunk>>
    BY <1>9 DEF RefuseWrite, ReturnWith, Return
  <2> QED
    BY <2>1, LineFreed DEF LineInv, At, Quiet
<1>10. CASE FrameLeaves(c)
  <2>1. /\ mu' = c /\ pc[c] = "write" /\ pc'[c] = "wait" /\ call[c] \in Calls
        /\ radio' = Append(radio, call[c])
        /\ UNCHANGED <<call, astray, wire, chunk, events>>
    BY <1>10 DEF FrameLeaves, Goto, LockInv, Busy, TypeOK, CallerTypes
  <2>2. ASSUME Punctual, ~astray' PROVE OneReply(call[c])'
    <3>1. /\ radio = <<>> /\ wire \in Seq(Unowned) /\ chunk \in Seq(Unowned)
          /\ events \in Seq(Unowned)
      BY <2>1, <2>2 DEF LineInv, At, Quiet
    <3>2. radio' = <<call[c]>>
      BY <2>1, <3>1
    <3>3. /\ wire \in Seq(Own(call[c])) /\ chunk \in Seq(Own(call[c]))
          /\ events \in Seq(Own(call[c]))
      BY <3>1, Kinds, SeqOfMore
    <3>4. One(wire) /\ One(chunk) /\ One(events)
      BY <3>1, CleanIsOne
    <3> QED
      BY <2>1, <3>1, <3>2, <3>3, <3>4 DEF OneReply, One
  <2>3. Punctual /\ ~astray' => At(c)'
    BY <2>1, <2>2 DEF At
  <2> QED
    BY <2>1, <2>3, LineHeld
<1>11. CASE WriteFails(c)
  <2>1. mu' = c /\ pc'[c] = "failed"
    BY <1>11 DEF WriteFails, Goto, LockInv, Busy, TypeOK, CallerTypes
  <2> QED
    BY <2>1, LineHeld DEF At
<1>12. CASE WriteFailed(c)
  <2>1. mu' = "none" /\ closed'
    BY <1>12 DEF WriteFailed, ReturnWith, Return, EndInv
  <2> QED
    BY <2>1, LineFreed DEF Trusted
<1>13. CASE WaitDeadline(c)
  <2>1. mu = c
    BY <1>13 DEF WaitDeadline, LockInv, Busy
  <2>2. CASE Class(c) = "Write" /\ Conclude(c, "Ok", 0)
    BY <2>1, <2>2, ConcludeLine
  <2>3. CASE Conclude(c, "Timeout", 0)
    BY <2>1, <2>3, ConcludeLine
  <2> QED
    BY <1>13, <2>2, <2>3 DEF WaitDeadline
<1>14. CASE WaitEvent(c)
  <2> DEFINE e == Head(events)
  <2>1. /\ mu = c /\ pc[c] = "wait" /\ events # <<>> /\ events' = Tail(events)
        /\ UNCHANGED <<call, closed, radio, wire, chunk>> /\ call[c] \in Calls
    BY <1>14 DEF WaitEvent, LockInv, Busy
  <2>2. /\ e \in Events /\ e \in Signed /\ e = events[1] /\ 1 \in DOMAIN events
    BY <2>1, QuietTypes, TailOf DEF SignedInv
  <2> HIDE DEF e
  <2>3. CASE e.kind = "io" /\ Conclude(c, "Closed", 0)
    <3>1. closed'
      BY <2>1, <2>2, <2>3 DEF EndInv
    <3> QED
      BY <2>1, <2>3, <3>1, ConcludeLine
  <2>4. CASE Conclude(c, "Contaminated", 0) /\ contaminated' = TRUE
    BY <2>1, <2>4, ConcludeLine
  <2>5. ASSUME e.kind \in {"nak", "data"}, Punctual, ~astray PROVE Quiet'
    <3>1. e.id # 0
      BY <2>2, <2>5 DEF Signed
    <3>2. events \notin Seq(Unowned)
      BY <2>2, <3>1, QuietTypes, CleanSeq
    <3>3. OneReply(call[c])
      BY <2>1, <2>5 DEF LineInv, At
    <3> QED
      BY <2>1, <3>2, <3>3 DEF OneReply, Quiet
  <2>6. CASE e.kind = "nak" /\ Conclude(c, "Rejected", e.id)
    BY <2>1, <2>5, <2>6, ConcludeLine
  <2>7. CASE Match(c, e) /\ Conclude(c, "Ok", e.id)
    BY <2>1, <2>5, <2>7, ConcludeLine DEF Match
  <2>8. CASE UNCHANGED <<pc, outcome, decided, doVars, flagVars, astray>>
    <3>1. ASSUME Punctual, ~astray' PROVE OneReply(call[c])'
      <4>1. OneReply(call[c])
        BY <2>1, <2>8, <3>1 DEF LineInv, At
      <4>2. /\ One(events') /\ events' \in Seq(Own(call[c]))
            /\ events \in Seq(Unowned) => events' \in Seq(Unowned)
        <5>1. events \in Seq(Own(call[c])) /\ One(events) /\ events \in Seq(Events)
          BY <4>1, QuietTypes DEF OneReply
        <5> QED
          BY <2>1, <5>1, OneTail, TailOf
      <4> QED
        BY <2>1, <4>1, <4>2 DEF OneReply, One
    <3>2. Punctual /\ ~astray' => At(c)'
      BY <2>1, <2>8, <3>1 DEF At
    <3> QED
      BY <2>1, <2>8, <3>2, LineHeld
  <2> QED
    BY <1>14, <2>3, <2>4, <2>6, <2>7, <2>8 DEF WaitEvent, e
<1>15. CASE WaitClosed(c)
  <2>1. mu = c /\ closed' /\ Conclude(c, "Closed", 0)
    BY <1>15 DEF WaitClosed, LockInv, Busy
  <2> QED
    BY <2>1, ConcludeLine
<1>16. CASE WaitCancelled(c)
  <2>1. mu = c /\ Conclude(c, "Ctx", 0)
    BY <1>16 DEF WaitCancelled, LockInv, Busy
  <2> QED
    BY <2>1, ConcludeLine
<1>17. CASE DrainEvent(c)
  <2>1. /\ mu' = c /\ pc[c] = "drain"
        /\ UNCHANGED <<pc, why, closed, suspect, contaminated, astray, radio, wire, chunk>>
    BY <1>17 DEF DrainEvent, LockInv, Busy
  <2>2. Punctual /\ ~astray' => At(c)'
    BY <2>1 DEF LineInv, At, Trusted, Quiet
  <2> QED
    BY <2>1, <2>2, LineHeld
<1>18. CASE DrainQuiet(c)
  <2>1. /\ pc[c] = "drain" /\ mu = c /\ astray' = (astray /\ why = "retry")
        /\ UNCHANGED <<radio, wire, chunk, events>>
    BY <1>18 DEF DrainQuiet, LockInv, Busy
  <2>2. Punctual => Quiet'
    BY <1>18, <2>1, EmptySeq DEF DrainQuiet, Silent, Quiet
  <2>3. CASE why = "caller" /\ ReturnWith(c, "Ok")
    BY <2>2, <2>3, LineFreed DEF ReturnWith, Return
  <2>4. CASE Return(c)
    BY <2>2, <2>4, LineFreed DEF Return
  <2>5. CASE Goto(c, "purge") /\ discarded' = 0 /\ UNCHANGED mu
    <3>1. pc'[c] = "purge"
      BY <2>5 DEF Goto, TypeOK, CallerTypes
    <3>2. Stale'
      BY <2>1, <2>5, FreshPurge
    <3>3. Punctual /\ ~astray' => At(c)'
      BY <2>2, <3>1, <3>2 DEF At
    <3> QED
      BY <2>1, <2>5, <3>3, LineHeld
  <2>6. CASE why = "retry" /\ UNCHANGED mu
    <3>1. Punctual => astray
      BY <2>1, <2>6 DEF LineInv, At
    <3>2. Punctual => astray'
      BY <2>1, <2>6, <3>1
    <3> QED
      BY <3>2 DEF LineInv
  <2> QED
    BY <1>18, <2>3, <2>4, <2>5, <2>6 DEF DrainQuiet
<1>19. CASE \/ DrainCapReached(c) \/ DrainClosed(c) \/ DrainCancelled(c)
  <2>1. /\ pc[c] = "drain" /\ why # "none" /\ (events' = events \/ events' = Tail(events))
    BY <1>19 DEF DrainCapReached, DrainClosed, DrainCancelled, TruthInv, Truth
  <2>2. PICK o : DrainFails(c, o)
    BY <1>19 DEF DrainCapReached, DrainClosed, DrainCancelled
  <2> QED
    BY <2>1, <2>2, DrainFailsLine
<1> QED
  BY <1>1, <1>2, <1>3, <1>4, <1>5, <1>6, <1>7, <1>8, <1>9, <1>10, <1>11, <1>12, <1>13,
     <1>14, <1>15, <1>16, <1>17, <1>18, <1>19 DEF Step

(* The beginning of a call.                                                *)
LEMMA LineStart ==
  ASSUME TypeOK, RInv, NEW c \in Callers, NEW k \in CallKinds, StartCall(c, k)
  PROVE  RInv'
<1> USE DEF RInv
<1>1. /\ pc[c] = "idle" /\ pc' = [pc EXCEPT ![c] = "lock"]
      /\ \A d \in Callers : d # c => call'[d] = call[d] /\ outcome'[d] = outcome[d]
      /\ outcome'[c] = "none"
      /\ UNCHANGED <<mu, why, discarded, suspect, contaminated, astray, closed, rpc,
                     radio, wire, chunk, events>>
  BY DEF StartCall, Goto, Decide, TypeOK, CallerTypes, doVars, flagVars, portVars,
     readVars, lineVars
<1>2. pc'[c] = "lock" /\ \A d \in Callers : d # c => pc'[d] = pc[d]
  BY <1>1 DEF TypeOK, CallerTypes
<1>3. SignedInv' /\ FreeInv'
  BY <1>1 DEF SignedInv, FreeInv
<1>4. EndInv' /\ OutcomeInv'
  BY <1>1, <1>2 DEF EndInv, OutcomeInv
<1>5. LineInv'
  BY <1>1, <1>2, LineApart DEF Busy
<1> QED
  BY <1>3, <1>4, <1>5

-----------------------------------------------------------------------------
(* The invariant, and what follows from it.                                *)

LEMMA RInvInit == Init => RInv
<1> SUFFICES ASSUME Init PROVE RInv
  OBVIOUS
<1>1. radio = <<>> /\ wire = <<>> /\ chunk = <<>> /\ events = <<>>
  BY DEF Init
<1>2. SignedInv /\ Quiet
  BY <1>1, EmptySeq DEF SignedInv, Quiet
<1>3. EndInv /\ OutcomeInv /\ FreeInv
  BY <1>1 DEF Init, EndInv, OutcomeInv, FreeInv
<1>4. LineInv
  BY <1>2 DEF Init, LineInv, At
<1> QED
  BY <1>2, <1>3, <1>4 DEF RInv

LEMMA RInvStep == IInv /\ IInv' /\ RInv /\ [Next]_vars => RInv'
<1> SUFFICES ASSUME IInv, IInv', RInv, [Next]_vars PROVE RInv'
  OBVIOUS
<1> USE DEF IInv
<1>1. ASSUME NEW c \in Callers, Step(c) PROVE RInv'
  <2>1. SignedInv' /\ EndInv' /\ OutcomeInv' /\ FreeInv'
    BY <1>1, SignedStep, EndStep, OutcomeStep DEF RInv
  <2>2. LineInv'
    BY <1>1, LineStep
  <2> QED
    BY <2>1, <2>2 DEF RInv
<1>2. ASSUME NEW c \in Callers, NEW k \in CallKinds, StartCall(c, k) PROVE RInv'
  BY <1>2, LineStart
<1>3. CASE Elsewhere
  BY <1>3, LineElsewhere
<1> QED
  BY <1>1, <1>2, <1>3, Steps

(* RInv holds together with IInv in every behaviour of the engine.         *)
THEOREM ReplyInvariance == Spec => [](IInv /\ RInv)
<1>1. Init => IInv /\ RInv
  BY IInvInit, RInvInit
<1>2. IInv /\ RInv /\ [Next]_vars => IInv' /\ RInv'
  BY IInvStep, RInvStep
<1> QED
  BY <1>1, <1>2, PTL DEF Spec

(* Between exchanges an open engine that neither calls its stream suspect  *)
(* nor contaminated has nobody's reply on its way, whatever the radio, the *)
(* contexts and the deadlines did: Do marks what it abandons.              *)
THEOREM NoReplyLeftBehind == Spec => []AbandonedIsSuspect
<1>1. IInv /\ RInv => AbandonedIsSuspect
  <2> SUFFICES ASSUME RInv, Punctual, mu = "none", Trusted, ~astray PROVE Outstanding = {}
    BY DEF AbandonedIsSuspect, Trusted
  <2>1. Quiet
    BY DEF RInv, LineInv
  <2> QED
    BY <2>1 DEF Quiet, Outstanding, Ids, Unowned
<1> QED
  BY <1>1, ReplyInvariance, PTL

(* A call is answered or rejected by its own reply and by no earlier       *)
(* call's, on a line where the radio is Punctual and no read has begun a   *)
(* retry since a drain last found it quiet.                                *)
THEOREM OwnReplyOnly == Spec => ReplyIsOwn
<1>1. IInv /\ RInv /\ [Next]_vars =>
        (Punctual /\ ~astray =>
           \A c \in Callers : decided'[c] \in {0, call'[c], decided[c]})
  <2> SUFFICES ASSUME IInv, RInv, [Next]_vars, Punctual, ~astray, NEW d \in Callers
               PROVE  decided'[d] \in {0, call'[d], decided[d]}
    OBVIOUS
  <2> USE DEF callerVars, doVars, flagVars, portVars, readVars, lineVars, histVars
  <2>1. decided \in [Callers -> 0 .. MaxCalls]
    BY DEF IInv, TypeOK, CallerTypes
  <2>2. ASSUME NEW c \in Callers, Step(c), ~WaitEvent(c)
        PROVE  decided'[d] \in {0, decided[d]}
    <3>1. \/ UNCHANGED decided
          \/ \E o : Decide(c, o, 0)
      BY <2>2 DEF Step, RefuseDeadContext, RefuseAtEntry, EnterDrain, EnterPurge, PurgeEvent,
         PurgeDone, Disallow, BeginWrite, RefuseWrite, FrameLeaves, WriteFails, WriteFailed,
         WaitDeadline, WaitClosed, WaitCancelled, DrainEvent, DrainQuiet, DrainCapReached,
         DrainClosed, DrainCancelled, DrainFails, ReturnWith, Conclude
    <3> QED
      BY <2>1, <3>1 DEF Decide
  <2>3. ASSUME NEW c \in Callers, WaitEvent(c)
        PROVE  decided'[d] \in {0, call'[d], decided[d]}
    <3> DEFINE e == Head(events)
    <3>1. pc[c] = "wait" /\ events # <<>> /\ call' = call
      BY <2>3 DEF WaitEvent
    <3>2. e.id \in {0, call[c]}
      <4>1. OneReply(call[c])
        BY <3>1 DEF RInv, LineInv, At
      <4>2. events \in Seq(Own(call[c]))
        BY <4>1 DEF OneReply
      <4>3. e \in Own(call[c])
        BY <3>1, <4>2, TailOf
      <4> QED
        BY <4>3 DEF Own
    <3> HIDE DEF e
    <3>3. \/ UNCHANGED decided
          \/ \E o, id : id \in {0, e.id} /\ Decide(c, o, id)
      BY <2>3 DEF WaitEvent, Conclude, e
    <3> QED
      BY <2>1, <3>1, <3>2, <3>3 DEF Decide
  <2>4. ASSUME NEW c \in Callers, NEW k \in CallKinds, StartCall(c, k)
        PROVE  decided'[d] \in {0, decided[d]}
    BY <2>1, <2>4 DEF StartCall, Decide
  <2>5. CASE Elsewhere
    BY <2>5 DEF Elsewhere, vars, Reader, ReadChunk, ReadError, SendEvent, ReaderCloses,
       ReaderClosed, Publish, Published, LastEvent, CloseEngine, CloseReturns, PortClosed,
       RadioReply, RadioUnsolicited, CancelContext
  <2> QED
    BY <2>2, <2>3, <2>4, <2>5, Steps
<1> QED
  BY <1>1, ReplyInvariance, PTL DEF Spec, ReplyIsOwn

(* What readLoop queued before the port went away is not lost: a wait told *)
(* of the closure leaves no frame behind that would have answered it.      *)
THEOREM ClosureTellsTheTruth == Spec => ClosureHidesNoReply
<1>1. IInv /\ RInv /\ [Next]_vars =>
        \A c \in Callers :
          (pc[c] = "wait" /\ outcome'[c] = "Closed" /\ Class(c) # "Write")
            => \A i \in DOMAIN events' : ~Match(c, events'[i])
  <2> SUFFICES ASSUME IInv, RInv, [Next]_vars, NEW d \in Callers,
                      pc[d] = "wait", outcome'[d] = "Closed"
               PROVE  events' = <<>>
    OBVIOUS
  <2> USE DEF callerVars, doVars, flagVars, portVars, readVars, lineVars, histVars
  <2>1. outcome[d] = "none" /\ outcome \in [Callers -> Outcomes]
    BY DEF IInv, TypeOK, CallerTypes, RInv, OutcomeInv
  <2>2. ASSUME NEW c \in Callers, Step(c) PROVE events' = <<>>
    <3>1. outcome'[c] # outcome[c] /\ c = d
      <4>1. \/ UNCHANGED outcome
            \/ \E o, id : Decide(c, o, id)
        BY <2>2 DEF Step, RefuseDeadContext, RefuseAtEntry, EnterDrain, EnterPurge, PurgeEvent,
           PurgeDone, Disallow, BeginWrite, RefuseWrite, FrameLeaves, WriteFails, WriteFailed,
           WaitDeadline, WaitEvent, WaitClosed, WaitCancelled, DrainEvent, DrainQuiet,
           DrainCapReached, DrainClosed, DrainCancelled, DrainFails, ReturnWith, Conclude
      <4> QED
        BY <2>1, <4>1 DEF Decide
    <3>2. \/ WaitDeadline(c) \/ WaitEvent(c) \/ WaitClosed(c) \/ WaitCancelled(c)
      BY <2>2, <3>1 DEF Step, RefuseDeadContext, RefuseAtEntry, EnterDrain, EnterPurge,
         PurgeEvent, PurgeDone, Disallow, BeginWrite, RefuseWrite, FrameLeaves, WriteFails,
         WriteFailed, DrainEvent, DrainQuiet, DrainCapReached, DrainClosed, DrainCancelled
    <3>3. CASE WaitDeadline(c) \/ WaitCancelled(c)
      BY <2>1, <3>1, <3>3 DEF WaitDeadline, WaitCancelled, Conclude, Decide
    <3>4. CASE WaitClosed(c)
      BY <3>4 DEF WaitClosed
    <3>5. CASE WaitEvent(c)
      <4>1. events # <<>> /\ events' = Tail(events) /\ Head(events).kind = "io"
        BY <2>1, <3>1, <3>5 DEF WaitEvent, Conclude, Decide
      <4>2. 1 = Len(events)
        BY <4>1, QuietTypes, TailOf DEF RInv, EndInv, IInv
      <4>3. events' \in Seq(Events) /\ Len(events') = 0
        BY <4>1, <4>2, QuietTypes, TailOf DEF IInv
      <4> QED
        BY <4>3, EmptySeq
    <3> QED
      BY <3>2, <3>3, <3>4, <3>5
  <2>3. ASSUME NEW c \in Callers, NEW k \in CallKinds, StartCall(c, k) PROVE FALSE
    BY <2>1, <2>3 DEF StartCall, Decide
  <2>4. CASE Elsewhere
    BY <2>1, <2>4, ElsewhereKeeps
  <2> QED
    BY <2>2, <2>3, <2>4, Steps
<1> QED
  BY <1>1, ReplyInvariance, PTL DEF Spec, ClosureHidesNoReply
=============================================================================
