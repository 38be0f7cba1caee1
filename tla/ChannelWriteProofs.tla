-------------------------- MODULE ChannelWriteProofs --------------------------
(***************************************************************************)
(* For every content of a slot and every channel a file may hold, whatever *)
(* became of the frames: a channel whose frames were stored is in the      *)
(* radio as it was asked for, the steps of a write tell what is known of   *)
(* it, and a Yaesu driver writes what the plan let through.                *)
(*                                                                         *)
(* ChannelInit tries slots and edits that tell the fields apart.  AnyInit  *)
(* has every slot in which nothing but a tone, or what no channel shows,   *)
(* is outside its vocabulary, and every channel whose fields without a     *)
(* state have a value, as they always do.                                  *)
(***************************************************************************)
EXTENDS ChannelWrite, TLAPS, SequenceTheorems

Grades == {"Supported", "Unverified", "ConsentedUnverified", "Inert", "Unsupported"}

AnySlot ==
  {Absent} \cup {s \in [Raw -> 0 .. OutOfDomain] :
                   \A f \in Fields \ {"tone_tx"} : s[f] # OutOfDomain}

AnyChannel ==
  {Absent} \cup
    {c \in [Fields -> [state : {"Known", "Unknown", "Unavailable", "Absent"}, value : {0, 1}]] :
       \A f \in Plain : Carries(c, f)}

(* The channel of an empty slot is none, as it was read.                   *)
ReadOf(m, slot) == IF slot = Absent THEN Absent ELSE ReadChannel(m, slot)

AnyInit ==
  /\ model \in Models
  /\ \E profile \in Profiles(model), consented \in BOOLEAN :
       grade = LET g == BankFields(model, profile)
               IN IF consented THEN ConsentUnverifiedWrites(g) ELSE g
  /\ radio \in AnySlot
  /\ before = ReadOf(model, radio)
  /\ after \in AnyChannel
  /\ phase = "prepare" /\ frames = <<>> /\ steps = <<>> /\ fates = <<>> /\ was = radio

AnySpec == AnyInit /\ [][ChannelNext]_channelVars

-----------------------------------------------------------------------------
(* The inductive invariant.                                                *)

(* What never changes: the capabilities are one grade for all a record     *)
(* expresses, what is ignored excepted, and none of the rest.              *)
GradeInv ==
  /\ grade \in [Fields \cup {"erase"} -> Grades]
  /\ ~CanWrite("erase")
  /\ \A f \in Fields \ Expressed(model) : grade[f] = "Unsupported"
  /\ \A f \in Expressed(model) : grade[f] = grade["frequency"] \/ grade[f] = "Inert"
  /\ \A f \in Fields : grade[f] = "Inert" => f \in Clarifier /\ model = "ft710"

ChannelInv ==
  /\ was \in AnySlot /\ before = ReadOf(model, was) /\ after \in AnyChannel

(* What the plan let through; what the driver then let through.            *)
Planned  == (after # Absent => Validate(after)) /\ ~Blocked
Accepted ==
  /\ after # Absent /\ CheckFieldStates(after) /\ Unwritable(after) = {}
  /\ ~Missing(after) /\ ~RefusesTxClar(after)

(* The slot a record is built over, the record, and what of each frame the *)
(* radio stores.                                                           *)
Template == IF Icom(model) /\ was # Absent THEN was ELSE New
Keepable == Icom(model) => IF was = Absent THEN Carries(after, "tone_tx") ELSE was["unmapped"] = 0

PhaseInv ==
  /\ phase \in {"prepare", "invalid", "blocked", "planned", "reading", "sending",
                "refused", "failed", "written"}
  /\ phase \notin {"prepare", "invalid", "blocked"} => Planned
  /\ phase \in {"reading", "sending", "failed", "written"} => Accepted
  /\ phase = "reading" => Icom(model)
  /\ phase = "refused" => Icom(model) \/ ~Accepted
  /\ phase \in {"sending", "written"} => frames # <<>>
  /\ frames # <<>> => phase \in {"sending", "failed", "written"} /\ Keepable

Record == Build(Template)
Kept   == [i \in DOMAIN Layout |-> {f \in Layout[i] : ~(f \in Fields /\ grade[f] = "Inert")}]

FrameInv == frames # <<>> => frames = Record

(* Of the frames tried, all but the last went unrefused; the steps say so. *)
Quiet == {"accepted", "unnoticed"}
StepInv ==
  /\ steps \in Seq([sent : BOOLEAN, confirmed : BOOLEAN]) /\ fates \in Seq(Outcomes)
  /\ Len(steps) = Len(frames) /\ Len(fates) =< Len(steps)
  /\ phase = "sending" => Len(fates) < Len(steps)
  /\ phase = "written" => Len(fates) = Len(steps)
  /\ \A i \in 1 .. Len(fates) :
       fates[i] \in Quiet \/ (i = Len(fates) /\ phase = "failed")
  /\ \A i \in 1 .. Len(fates) :
       steps[i] = [sent |-> fates[i] \in Quiet \/ fates[i] = "rejected",
                   confirmed |-> fates[i] \in Quiet]
  /\ \A i \in 1 .. Len(steps) :
       i > Len(fates) => steps[i] = [sent |-> FALSE, confirmed |-> FALSE]

(* What the slot holds when the radio has stored every frame so far.       *)
Under == IF was = Absent THEN New ELSE was
RadioInv ==
  /\ fates = <<>> => radio = was
  /\ radio = Absent \/ radio \in [Raw -> 0 .. OutOfDomain]
  /\ fates # <<>> /\ (\A i \in 1 .. Len(fates) : fates[i] = "accepted") =>
       /\ radio # Absent
       /\ \A f \in Raw :
            /\ \A i \in 1 .. Len(fates) : f \in Kept[i] => radio[f] = frames[i][f]
            /\ (\A i \in 1 .. Len(fates) : f \notin Kept[i]) => radio[f] = Under[f]

IInv ==
  /\ model \in Models
  /\ GradeInv /\ ChannelInv /\ PhaseInv /\ FrameInv /\ StepInv /\ RadioInv

-----------------------------------------------------------------------------
(* Drivers, fields and layouts.                                            *)

USE DEF OutOfDomain, Absent

LEMMA FieldFacts ==
  /\ Clarifier \subseteq Plain /\ Fields = Plain \cup Stateful /\ Raw = Fields \cup {"unmapped"}
  /\ Plain \cap Stateful = {} /\ "unmapped" \notin Fields /\ "erase" \notin Fields
  /\ "frequency" \in Plain \ Clarifier /\ "tag" \in Plain \ Clarifier /\ "tone_tx" \in Stateful
BY DEF Fields, Raw, Plain, Stateful, Tier, Clarifier

LEMMA ExpressedFacts ==
  ASSUME model \in Models
  PROVE  /\ Expressed(model) \subseteq Fields /\ "frequency" \in Expressed(model)
         /\ ~Icom(model) => Plain \subseteq Expressed(model)
         /\ ~Icom(model) => Expressed(model) \subseteq Plain \cup {"tag_display"}
         /\ Icom(model) => Expressed(model) = {"frequency", "tag", "filter", "tone_tx"}
<1>1. model \in {"ft710", "ft891", "ftdx10", "ic7610"}
  BY ModelAssumption
<1> QED
  BY <1>1 DEF Expressed, Icom, Fields, Plain, Stateful, Tier, Clarifier

LEMMA LayoutFacts ==
  ASSUME model \in Models
  PROVE  /\ Len(Layout) \in {1, 2} /\ DOMAIN Layout = 1 .. Len(Layout)
         /\ \A i \in DOMAIN Layout : Layout[i] \subseteq Raw
         /\ \A i, j \in DOMAIN Layout, f \in Raw : f \in Layout[i] /\ f \in Layout[j] => i = j
         /\ \A f \in Expressed(model) : \E i \in DOMAIN Layout : f \in Layout[i]
         /\ \A i \in DOMAIN Layout : \A f \in Layout[i] :
              f \in Expressed(model) \/ (f = "unmapped" /\ Icom(model))
<1>1. model \in {"ft710", "ft891", "ftdx10", "ic7610"}
  BY ModelAssumption
<1>2. CASE model = "ft710"
  <2>1. Layout = <<{"frequency", "shift"} \cup Clarifier, {"tag", "tag_display"}>>
    BY <1>2 DEF Layout
  <2>2. Expressed(model) = Plain \cup {"tag_display"}
    BY <1>2 DEF Expressed, Icom
  <2> QED
    BY <1>2, <2>1, <2>2 DEF Raw, Fields, Plain, Stateful, Clarifier
<1>3. CASE model = "ic7610"
  <2>1. Layout = <<Expressed(model) \cup {"unmapped"}>>
    BY <1>3 DEF Layout, Icom
  <2>2. Expressed(model) \subseteq Raw
    BY ExpressedFacts DEF Raw
  <2> QED
    BY <1>3, <2>1, <2>2 DEF Raw, Icom
<1>4. CASE model \in {"ft891", "ftdx10"}
  <2>1. Layout = <<Expressed(model)>>
    BY <1>4 DEF Layout, Icom
  <2>2. Expressed(model) \subseteq Raw
    BY ExpressedFacts DEF Raw
  <2> QED
    BY <2>1, <2>2
<1> QED
  BY <1>1, <1>2, <1>3, <1>4

LEMMA BuildFacts ==
  ASSUME model \in Models, NEW slot
  PROVE  /\ DOMAIN Build(slot) = 1 .. Len(Layout) /\ Len(Build(slot)) = Len(Layout)
         /\ Build(slot) # <<>>
         /\ \A i \in DOMAIN Layout : DOMAIN Build(slot)[i] = Layout[i]
<1>1. DOMAIN Build(slot) = 1 .. Len(Layout) /\ Len(Layout) \in {1, 2}
  BY LayoutFacts DEF Build
<1>2. \A i \in DOMAIN Layout : DOMAIN Build(slot)[i] = Layout[i]
  BY DEF Build
<1>3. Len(Build(slot)) = Len(Layout)
  BY <1>1
<1>4. Build(slot) # <<>>
  BY <1>1
<1> QED
  BY <1>1, <1>2, <1>3, <1>4, LayoutFacts

LEMMA GradeFacts ==
  ASSUME model \in Models,
         NEW profile \in Profiles(model), NEW consented \in BOOLEAN,
         grade = LET g == BankFields(model, profile)
                 IN IF consented THEN ConsentUnverifiedWrites(g) ELSE g
  PROVE  GradeInv
<1>1. profile \in {"Supported", "Unverified", "Unsupported"}
  BY DEF Profiles
<1> DEFINE g == BankFields(model, profile)
<1>2. /\ g \in [Fields \cup {"erase"} -> Grades] /\ g["erase"] \in {"Unverified", "Unsupported"}
      /\ \A f \in Fields \ Expressed(model) : g[f] = "Unsupported"
      /\ \A f \in Expressed(model) : g[f] = profile \/ g[f] = "Inert"
      /\ \A f \in Fields : g[f] = "Inert" => f \in Clarifier /\ model = "ft710"
      /\ g["frequency"] = profile
  BY <1>1, FieldFacts, ExpressedFacts DEF BankFields, Grades
<1> HIDE DEF g
<1>3. DOMAIN g = Fields \cup {"erase"}
  BY <1>2
<1>4. \A f \in DOMAIN g : grade[f] = IF consented /\ f # "erase" /\ g[f] = "Unverified"
                                      THEN "ConsentedUnverified" ELSE g[f]
  BY DEF ConsentUnverifiedWrites, g
<1>5. DOMAIN grade = DOMAIN g /\ grade = [f \in DOMAIN g |-> grade[f]]
  BY <1>2 DEF ConsentUnverifiedWrites, g
<1>6. grade \in [Fields \cup {"erase"} -> Grades]
  BY <1>2, <1>3, <1>4, <1>5 DEF Grades
<1>7. \A f \in Expressed(model) : grade[f] = grade["frequency"] \/ grade[f] = "Inert"
  BY <1>2, <1>3, <1>4, FieldFacts, ExpressedFacts
<1> QED
  BY <1>2, <1>3, <1>4, <1>6, <1>7, FieldFacts DEF GradeInv, CanWrite

(* All the run keeps is what was planned and the driver.                   *)
Fixed == <<model, grade, before, after, was>>

LEMMA FixedKeeps ==
  ASSUME UNCHANGED Fixed
  PROVE  /\ Planned' = Planned /\ Accepted' = Accepted /\ Keepable' = Keepable
         /\ Record' = Record /\ Kept' = Kept /\ Under' = Under
         /\ GradeInv' = GradeInv /\ ChannelInv' = ChannelInv
         /\ Layout' = Layout
<1> USE DEF Fixed, Expressed, Reached, Icom, CanWrite
<1>1. Planned' = Planned
  BY DEF Planned, Validate, Blocked, Touched, InertChanged, Changed, Shaped, Recorded, Carries
<1>2. Accepted' = Accepted
  BY DEF Accepted, CheckFieldStates, Unwritable, RequestedFields, Missing, RefusesTxClar, Carries
<1>3. Layout' = Layout /\ Keepable' = Keepable
  BY DEF Keepable, Layout, Carries
<1>4. Record' = Record
  BY DEF Record, Build, Layout, ToneSource, Template, Carries
<1>5. Kept' = Kept /\ Under' = Under
  BY DEF Kept, Layout, Under
<1>6. GradeInv' = GradeInv /\ ChannelInv' = ChannelInv
  BY DEF GradeInv, ChannelInv, ReadOf, ReadChannel
<1> QED
  BY <1>1, <1>2, <1>3, <1>4, <1>5, <1>6

LEMMA NewIsAny == New \in AnySlot /\ New # Absent /\ New \in [Raw -> {0}]
<1>1. New \in [Raw -> {0}] 
  BY DEF New, Raw
<1>2. New \in AnySlot
  BY <1>1, FieldFacts DEF AnySlot
<1>3. DOMAIN New = Raw /\ "tag" \in Raw
  BY <1>1, FieldFacts
<1>4. New # Absent
  BY <1>3
<1> QED
  BY <1>1, <1>2, <1>4

LEMMA SlotIsAny == Slots(model) \subseteq AnySlot
<1> SUFFICES ASSUME NEW s \in Slots(model), s # Absent PROVE s \in AnySlot
  BY DEF AnySlot
<1>1. PICK c \in {0, 1}, t \in {0, 1, OutOfDomain}, u \in {0, 1} :
        s = [New EXCEPT !["clarifier"] = c, !["tag"] = 1, !["tone_tx"] = t, !["unmapped"] = u]
  <2>1. \E c \in IF model = "ft710" THEN {0, 1} ELSE {0},
           t \in IF Icom(model) THEN {1, OutOfDomain} ELSE {0},
           u \in IF Icom(model) THEN {0, 1} ELSE {0} :
          s = [New EXCEPT !["clarifier"] = c, !["tag"] = 1, !["tone_tx"] = t, !["unmapped"] = u]
    BY DEF Slots
  <2>2. PICK c \in IF model = "ft710" THEN {0, 1} ELSE {0},
             t \in IF Icom(model) THEN {1, OutOfDomain} ELSE {0},
             u \in IF Icom(model) THEN {0, 1} ELSE {0} :
          s = [New EXCEPT !["clarifier"] = c, !["tag"] = 1, !["tone_tx"] = t, !["unmapped"] = u]
    BY <2>1
  <2>3. c \in {0, 1} /\ t \in {0, 1, OutOfDomain} /\ u \in {0, 1}
    OBVIOUS
  <2> QED
    BY <2>2, <2>3
<1>2. s = [f \in Raw |-> IF f = "unmapped" THEN u ELSE IF f = "tone_tx" THEN t
                        ELSE IF f = "tag" THEN 1 ELSE IF f = "clarifier" THEN c ELSE 0]
  BY <1>1 DEF New
<1>3. s \in [Raw -> 0 .. 2]
  BY <1>2
<1>4. \A f \in Fields \ {"tone_tx"} : s[f] \in {0, 1}
  BY <1>2, FieldFacts
<1> QED
  BY <1>3, <1>4 DEF AnySlot

LEMMA ReadIsAny ==
  ASSUME model \in Models, NEW slot \in AnySlot, slot # Absent
  PROVE  /\ ReadChannel(model, slot) \in AnyChannel /\ ReadChannel(model, slot) # Absent
         /\ \A f \in Plain : f \in Expressed(model) => ReadChannel(model, slot)[f] = Known(slot[f])
<1> DEFINE c == ReadChannel(model, slot)
<1>1. /\ slot \in [Raw -> 0 .. OutOfDomain]
      /\ \A f \in Fields \ {"tone_tx"} : slot[f] \in {0, 1}
  BY FieldFacts DEF AnySlot
<1>2. \A f \in Fields : slot[f] # OutOfDomain => slot[f] \in {0, 1}
  BY <1>1, FieldFacts
<1>3. c \in [Fields -> [state : {"Known", "Unknown", "Unavailable", "Absent"}, value : {0, 1}]]
  BY <1>2 DEF ReadChannel, Known, Silent
<1>4. \A f \in Plain : Carries(c, f) /\ (f \in Expressed(model) => c[f] = Known(slot[f]))
  <2> SUFFICES ASSUME NEW f \in Plain
               PROVE  Carries(c, f) /\ (f \in Expressed(model) => c[f] = Known(slot[f]))
    OBVIOUS
  <2>1. f \in Fields /\ f # "tone_tx" /\ f # "ctcss_tone"
    BY FieldFacts DEF Plain, Clarifier
  <2>2. slot[f] # OutOfDomain
    BY <1>1, <2>1
  <2>3. c[f] = IF f \in Expressed(model) THEN Known(slot[f]) ELSE Known(0)
    BY <2>1, <2>2 DEF ReadChannel
  <2> QED
    BY <2>3 DEF Carries, Known
<1>5. DOMAIN c = Fields /\ "tag" \in Fields
  BY FieldFacts DEF ReadChannel
<1>6. c # Absent
  BY <1>5
<1> QED
  BY <1>3, <1>4, <1>6 DEF AnyChannel

LEMMA EditIsAny == ASSUME NEW c \in AnyChannel, c # Absent PROVE Edits(c) \subseteq AnyChannel
<1> SUFFICES ASSUME NEW d \in Edits(c), d # Absent PROVE d \in AnyChannel
  BY DEF AnyChannel
<1>1. PICK f \in Fields \ {"frequency"}, n \in {0, 1} :
        \E v \in Contents(f) : d = [c EXCEPT !["frequency"] = Known(n), ![f] = v]
  BY DEF Edits
<1>2. PICK v \in Contents(f) : d = [c EXCEPT !["frequency"] = Known(n), ![f] = v]
  BY <1>1
<1>3. /\ v \in [state : {"Known", "Unknown", "Unavailable", "Absent"}, value : {0, 1}]
      /\ f \in Plain => v.state = "Known"
  BY <1>2 DEF Contents, Known, Silent
<1>4. /\ Known(n) \in [state : {"Known", "Unknown", "Unavailable", "Absent"}, value : {0, 1}]
      /\ Known(n).state = "Known"
  BY DEF Known
<1>5. c \in [Fields -> [state : {"Known", "Unknown", "Unavailable", "Absent"}, value : {0, 1}]]
  BY DEF AnyChannel
<1>6. d \in [Fields -> [state : {"Known", "Unknown", "Unavailable", "Absent"}, value : {0, 1}]]
  BY <1>2, <1>3, <1>4, <1>5
<1>7. \A g \in Plain : d[g].state = "Known"
  BY <1>2, <1>3, <1>4, <1>5, FieldFacts DEF AnyChannel, Carries
<1> QED
  BY <1>6, <1>7 DEF AnyChannel, Carries

LEMMA InitIsAny == ChannelInit => AnyInit
<1> SUFFICES ASSUME ChannelInit PROVE AnyInit
  OBVIOUS
<1>1. model \in Models /\ radio \in AnySlot
  BY SlotIsAny DEF ChannelInit
<1>2. before = ReadOf(model, radio)
  BY DEF ChannelInit, ReadOf
<1>3. after \in AnyChannel
  <2> DEFINE slot == IF radio = Absent THEN New ELSE radio
  <2>1. slot \in AnySlot /\ slot # Absent
    BY <1>1, NewIsAny
  <2>2. after \in Edits(ReadChannel(model, slot))
    BY DEF ChannelInit
  <2> HIDE DEF slot
  <2> QED
    BY <1>1, <2>1, <2>2, ReadIsAny, EditIsAny
<1> QED
  BY <1>1, <1>2, <1>3 DEF ChannelInit, AnyInit

LEMMA InitInv == AnyInit => IInv
<1> SUFFICES ASSUME AnyInit PROVE IInv
  OBVIOUS
<1>1. model \in Models /\ GradeInv
  BY GradeFacts DEF AnyInit
<1>2. ChannelInv /\ PhaseInv /\ FrameInv
  BY DEF AnyInit, ChannelInv, PhaseInv, FrameInv
<1>3. StepInv
  BY DEF AnyInit, StepInv
<1>4. RadioInv
  BY DEF AnyInit, RadioInv, AnySlot
<1> QED
  BY <1>1, <1>2, <1>3, <1>4 DEF IInv

-----------------------------------------------------------------------------
(* Steps.                                                                  *)

(* Before a frame is built.                                                *)
LEMMA Before ==
  ASSUME IInv, phase \notin {"sending", "failed", "written"}
  PROVE  frames = <<>> /\ steps = <<>> /\ fates = <<>> /\ radio = was
<1>1. frames = <<>>
  BY DEF IInv, PhaseInv
<1>2. Len(steps) = 0 /\ Len(fates) = 0
  BY <1>1 DEF IInv, StepInv
<1>3. steps = <<>> /\ fates = <<>>
  BY <1>2, EmptySeq DEF IInv, StepInv
<1> QED
  BY <1>1, <1>3 DEF IInv, RadioInv

(* A step that sends nothing.                                              *)
LEMMA NothingSent ==
  ASSUME IInv, frames = <<>>, steps = <<>>, fates = <<>>, PhaseInv',
         phase' \notin {"sending", "written"},
         UNCHANGED <<Fixed, radio, frames, steps, fates>>
  PROVE  IInv'
<1>1. model' \in Models /\ GradeInv' /\ ChannelInv'
  BY FixedKeeps DEF IInv, Fixed
<1>2. FrameInv' /\ RadioInv'
  BY FixedKeeps DEF IInv, FrameInv, RadioInv, Fixed
<1>3. StepInv'
  BY DEF IInv, StepInv
<1> QED
  BY <1>1, <1>2, <1>3 DEF IInv

(* The record is built, and every step listed as not yet taken.            *)
LEMMA Started ==
  ASSUME IInv, frames = <<>>, fates = <<>>, NEW slot,
         StartSending(slot), Build(slot) = Record,
         Planned, Accepted, Keepable, UNCHANGED <<Fixed, radio, fates>>
  PROVE  IInv'
<1>1. model' \in Models /\ GradeInv' /\ ChannelInv'
  BY FixedKeeps DEF IInv, Fixed
<1>2. /\ frames' = Record /\ frames' # <<>> /\ DOMAIN frames' = 1 .. Len(frames')
      /\ Len(frames') \in {1, 2}
  BY BuildFacts, LayoutFacts DEF StartSending, IInv
<1>3. FrameInv' /\ PhaseInv'
  BY <1>2, FixedKeeps DEF FrameInv, PhaseInv, StartSending
<1>4. /\ steps' = [i \in 1 .. Len(frames') |-> [sent |-> FALSE, confirmed |-> FALSE]]
      /\ steps' \in Seq([sent : BOOLEAN, confirmed : BOOLEAN]) /\ Len(steps') = Len(frames')
  BY <1>2 DEF StartSending, Unsent
<1>5. phase' = "sending" /\ fates' = <<>> /\ fates' \in Seq(Outcomes)
  BY DEF StartSending
<1>6. StepInv'
  BY <1>2, <1>4, <1>5 DEF StepInv
<1>7. RadioInv'
  BY <1>5 DEF IInv, RadioInv, Fixed
<1> QED
  BY <1>1, <1>3, <1>6, <1>7 DEF IInv

LEMMA PrepareStep == IInv /\ PrepareSend => IInv'
<1> SUFFICES ASSUME IInv, PrepareSend PROVE IInv'
  OBVIOUS
<1>1. UNCHANGED <<Fixed, radio, frames, steps, fates>>
  BY DEF PrepareSend, Fixed
<1>2. frames = <<>> /\ steps = <<>> /\ fates = <<>>
  BY Before DEF PrepareSend
<1>3. phase' \in {"invalid", "blocked", "planned"} /\ (phase' = "planned" => Planned)
  BY DEF PrepareSend, Planned
<1>4. PhaseInv'
  BY <1>1, <1>2, <1>3, FixedKeeps DEF PhaseInv
<1> QED
  BY <1>1, <1>2, <1>3, <1>4, NothingSent

LEMMA WriteStep == IInv /\ WriteChannel => IInv'
<1> SUFFICES ASSUME IInv, WriteChannel PROVE IInv'
  OBVIOUS
<1>1. UNCHANGED <<Fixed, radio, fates>> /\ phase = "planned"
  BY DEF WriteChannel, Fixed
<1>2. frames = <<>> /\ steps = <<>> /\ fates = <<>> /\ Planned
  BY <1>1, Before DEF IInv, PhaseInv
<1>3. CASE ~Accepted
  <2>1. phase' = "refused" /\ UNCHANGED <<frames, steps>>
    BY <1>3 DEF WriteChannel, RefuseWrite, Accepted
  <2>2. PhaseInv'
    BY <1>1, <1>2, <1>3, <2>1, FixedKeeps DEF PhaseInv
  <2> QED
    BY <1>1, <1>2, <2>1, <2>2, NothingSent
<1>4. CASE Accepted /\ Icom(model)
  <2>1. phase' = "reading" /\ UNCHANGED <<frames, steps>>
    BY <1>4 DEF WriteChannel, Accepted
  <2>2. PhaseInv'
    BY <1>1, <1>2, <1>4, <2>1, FixedKeeps DEF PhaseInv, Icom, Fixed
  <2> QED
    BY <1>1, <1>2, <2>1, <2>2, NothingSent
<1>5. CASE Accepted /\ ~Icom(model)
  <2>1. StartSending(New)
    BY <1>5 DEF WriteChannel, Accepted
  <2>2. Build(New) = Record /\ Keepable
    BY <1>5 DEF Record, Template, Keepable
  <2> QED
    BY <1>1, <1>2, <1>5, <2>1, <2>2, Started
<1> QED
  BY <1>3, <1>4, <1>5

LEMMA ReadStep == IInv /\ PreservationRead => IInv'
<1> SUFFICES ASSUME IInv, PreservationRead PROVE IInv'
  OBVIOUS
<1>1. UNCHANGED <<Fixed, radio, fates>> /\ phase = "reading"
  BY DEF PreservationRead, Fixed
<1>2. /\ frames = <<>> /\ steps = <<>> /\ fates = <<>> /\ radio = was
      /\ Planned /\ Accepted /\ Icom(model)
  BY <1>1, Before DEF IInv, PhaseInv
<1>3. CASE ~Keepable
  <2>1. phase' = "refused" /\ UNCHANGED <<frames, steps>>
    BY <1>2, <1>3 DEF PreservationRead, RefuseWrite, Keepable
  <2>2. PhaseInv'
    BY <1>1, <1>2, <2>1, FixedKeeps DEF PhaseInv, Icom, Fixed
  <2> QED
    BY <1>1, <1>2, <2>1, <2>2, NothingSent
<1>4. CASE Keepable
  <2>1. StartSending(IF radio = Absent THEN New ELSE radio)
    BY <1>2, <1>4 DEF PreservationRead, Keepable
  <2>2. Build(IF radio = Absent THEN New ELSE radio) = Record
    BY <1>2 DEF Record, Template
  <2> QED
    BY <1>1, <1>2, <1>4, <2>1, <2>2, Started
<1> QED
  BY <1>3, <1>4

LEMMA ReadFailsStep == IInv /\ ReadFails => IInv'
<1> SUFFICES ASSUME IInv, ReadFails PROVE IInv'
  OBVIOUS
<1>1. UNCHANGED <<Fixed, radio, frames, steps, fates>> /\ phase = "reading" /\ phase' = "failed"
  BY DEF ReadFails, Fixed
<1>2. frames = <<>> /\ steps = <<>> /\ fates = <<>> /\ Planned /\ Accepted
  BY <1>1, Before DEF IInv, PhaseInv
<1>3. PhaseInv'
  BY <1>1, <1>2, FixedKeeps DEF PhaseInv
<1> QED
  BY <1>1, <1>2, <1>3, NothingSent

(* What a record holds is what a slot may hold.                            *)
LEMMA RecordFacts ==
  ASSUME IInv, Accepted
  PROVE  /\ DOMAIN Record = 1 .. Len(Layout) /\ Len(Record) = Len(Layout)
         /\ \A i \in DOMAIN Layout : /\ DOMAIN Record[i] = Layout[i]
                                     /\ \A f \in Layout[i] : Record[i][f] \in 0 .. OutOfDomain
<1>1. /\ DOMAIN Record = 1 .. Len(Layout) /\ Len(Record) = Len(Layout)
      /\ \A i \in DOMAIN Layout : DOMAIN Record[i] = Layout[i]
  BY BuildFacts DEF Record, IInv
<1>2. \A f \in Fields : after[f].value \in {0, 1}
  BY DEF IInv, ChannelInv, AnyChannel, Accepted
<1>3. Template \in AnySlot /\ Template # Absent
  BY NewIsAny DEF Template, IInv, ChannelInv
<1>4. Template["tone_tx"] \in 0 .. OutOfDomain
  BY <1>3, FieldFacts DEF AnySlot
<1>5. ASSUME NEW i \in DOMAIN Layout, NEW f \in Layout[i] PROVE Record[i][f] \in 0 .. OutOfDomain
  <2>1. f \in Raw
    BY <1>5, LayoutFacts DEF IInv
  <2>2. Record[i][f] = IF f = "tone_tx" THEN ToneSource(after, Template)
                       ELSE IF f = "unmapped" THEN 0 ELSE after[f].value
    BY <1>5 DEF Record, Build
  <2>3. ToneSource(after, Template) \in 0 .. OutOfDomain
    BY <1>2, <1>4, FieldFacts DEF ToneSource
  <2>4. f \in Fields \/ f = "unmapped"
    BY <2>1, FieldFacts
  <2> QED
    BY <1>2, <2>2, <2>3, <2>4
<1> QED
  BY <1>1, <1>5

(* The radio after it has stored frame i.                                  *)
LEMMA StoreFacts ==
  ASSUME IInv, Accepted, NEW i \in DOMAIN Layout,
         NEW slot, slot = IF radio = Absent THEN New ELSE radio
  PROVE  /\ Store(Record[i]) \in [Raw -> 0 .. OutOfDomain] /\ Store(Record[i]) # Absent
         /\ \A f \in Raw : Store(Record[i])[f] = IF f \in Kept[i] THEN Record[i][f] ELSE slot[f]
<1>1. /\ DOMAIN Record[i] = Layout[i] /\ Layout[i] \subseteq Raw
      /\ \A f \in Layout[i] : Record[i][f] \in 0 .. OutOfDomain
  BY RecordFacts, LayoutFacts DEF IInv
<1>2. Kept[i] = {f \in Layout[i] : ~(f \in Fields /\ grade[f] = "Inert")}
  BY DEF Kept
<1>3. Store(Record[i]) = [f \in Raw |-> IF f \in Kept[i] THEN Record[i][f] ELSE slot[f]]
  BY <1>1, <1>2 DEF Store
<1>4. slot \in [Raw -> 0 .. OutOfDomain]
  BY NewIsAny DEF IInv, RadioInv, AnySlot
<1>5. Store(Record[i]) \in [Raw -> 0 .. OutOfDomain]
  BY <1>1, <1>2, <1>3, <1>4
<1>6. Store(Record[i]) # Absent
  <2>1. DOMAIN Store(Record[i]) = Raw /\ "tag" \in Raw
    BY <1>3, FieldFacts
  <2> QED
    BY <2>1
<1> QED
  BY <1>3, <1>5, <1>6

LEMMA TransmitFacts ==
  ASSUME IInv, NEW outcome \in Outcomes, Transmit(outcome)
  PROVE  /\ phase = "sending" /\ UNCHANGED Fixed /\ UNCHANGED frames
         /\ Len(fates) + 1 \in DOMAIN Layout /\ frames = Record /\ Planned /\ Accepted
         /\ Len(fates') = Len(fates) + 1 /\ Len(fates) \in Nat
         /\ \A j \in 1 .. Len(fates) : fates'[j] = fates[j]
         /\ fates'[Len(fates) + 1] = outcome
         /\ phase' \in {"failed", "sending", "written"}
         /\ (phase' = "failed") = (outcome \notin Quiet)
         /\ StepInv'
<1> DEFINE n == Len(fates) + 1
           step == [sent |-> outcome \in Quiet \/ outcome = "rejected", confirmed |-> outcome \in Quiet]
<1>1. phase = "sending" /\ UNCHANGED Fixed /\ UNCHANGED frames
  BY DEF Transmit, Fixed
<1>2. frames # <<>> /\ frames = Record /\ Planned /\ Accepted
  BY <1>1 DEF IInv, PhaseInv, FrameInv
<1>3. /\ steps \in Seq([sent : BOOLEAN, confirmed : BOOLEAN]) /\ fates \in Seq(Outcomes)
      /\ Len(steps) = Len(frames) /\ Len(fates) < Len(steps)
      /\ Len(fates) \in Nat /\ Len(steps) \in Nat
  BY <1>1 DEF IInv, StepInv
<1>4. n \in DOMAIN Layout
  BY <1>2, <1>3, RecordFacts, LayoutFacts DEF IInv
<1>5. /\ fates' = Append(fates, outcome)
      /\ steps' = [steps EXCEPT ![n] = step]
      /\ phase' = IF outcome \notin Quiet THEN "failed"
                  ELSE IF n < Len(frames) THEN "sending" ELSE "written"
  BY DEF Transmit, Quiet
<1>6. /\ fates' \in Seq(Outcomes) /\ Len(fates') = n /\ fates'[n] = outcome
      /\ \A j \in 1 .. Len(fates) : fates'[j] = fates[j]
  BY <1>3, <1>5
<1>7. /\ steps' \in Seq([sent : BOOLEAN, confirmed : BOOLEAN]) /\ Len(steps') = Len(steps)
      /\ steps'[n] = step
      /\ \A j \in 1 .. Len(steps) : j # n => steps'[j] = steps[j]
  BY <1>3, <1>5
<1>8. \A j \in 1 .. Len(fates) : fates[j] \in Quiet
  BY <1>1 DEF IInv, StepInv
<1>9. \A j \in 1 .. n : j \in 1 .. Len(fates) \/ j = n
  BY <1>3
<1>10. \A j \in 1 .. Len(fates') : fates'[j] \in Quiet \/ (j = Len(fates') /\ phase' = "failed")
  BY <1>5, <1>6, <1>8, <1>9
<1>11. \A j \in 1 .. Len(fates') :
         steps'[j] = [sent |-> fates'[j] \in Quiet \/ fates'[j] = "rejected",
                      confirmed |-> fates'[j] \in Quiet]
  <2> SUFFICES ASSUME NEW j \in 1 .. n
               PROVE  steps'[j] = [sent |-> fates'[j] \in Quiet \/ fates'[j] = "rejected",
                                   confirmed |-> fates'[j] \in Quiet]
    BY <1>6
  <2>1. CASE j = n
    BY <2>1, <1>6, <1>7
  <2>2. CASE j # n
    <3>1. j \in 1 .. Len(fates) /\ j \in 1 .. Len(steps)
      BY <2>2, <1>3, <1>9
    <3>2. steps'[j] = steps[j] /\ fates'[j] = fates[j]
      BY <2>2, <3>1, <1>6, <1>7
    <3> QED
      BY <3>1, <3>2 DEF IInv, StepInv
  <2> QED
    BY <2>1, <2>2
<1>12. \A j \in 1 .. Len(steps') :
         j > Len(fates') => steps'[j] = [sent |-> FALSE, confirmed |-> FALSE]
  <2> SUFFICES ASSUME NEW j \in 1 .. Len(steps), j > n
               PROVE  steps'[j] = [sent |-> FALSE, confirmed |-> FALSE]
    BY <1>6, <1>7
  <2>1. j # n /\ j > Len(fates)
    BY <1>3
  <2> QED
    BY <2>1, <1>7 DEF IInv, StepInv
<1>13. StepInv'
  <2>1. /\ Len(steps') = Len(frames') /\ Len(fates') =< Len(steps')
        /\ phase' = "sending" => Len(fates') < Len(steps')
        /\ phase' = "written" => Len(fates') = Len(steps')
    BY <1>1, <1>3, <1>5, <1>6, <1>7
  <2> QED
    BY <1>6, <1>7, <1>10, <1>11, <1>12, <2>1 DEF StepInv
<1>14. phase' \in {"failed", "sending", "written"} /\ (phase' = "failed") = (outcome \notin Quiet)
  BY <1>5
<1> QED
  BY <1>1, <1>2, <1>3, <1>4, <1>6, <1>13, <1>14

LEMMA TransmitStep ==
  ASSUME IInv, NEW outcome \in Outcomes, Transmit(outcome) PROVE IInv'
<1> DEFINE n == Len(fates) + 1
           slot == IF radio = Absent THEN New ELSE radio
<1>1. /\ phase = "sending" /\ UNCHANGED Fixed /\ UNCHANGED frames
      /\ n \in DOMAIN Layout /\ frames = Record /\ Planned /\ Accepted
      /\ Len(fates') = n /\ Len(fates) \in Nat
      /\ \A j \in 1 .. Len(fates) : fates'[j] = fates[j]
      /\ fates'[n] = outcome
      /\ phase' \in {"failed", "sending", "written"}
      /\ StepInv'
  BY TransmitFacts
<1>2. model' \in Models /\ GradeInv' /\ ChannelInv' /\ FrameInv'
  BY <1>1, FixedKeeps DEF IInv, Fixed, FrameInv
<1>3. PhaseInv'
  <2>1. frames # <<>> /\ Keepable
    BY <1>1 DEF IInv, PhaseInv
  <2> QED
    BY <1>1, <2>1, FixedKeeps DEF PhaseInv
<1>4. radio' = IF outcome \in {"accepted", "unheard"} THEN Store(Record[n]) ELSE radio
  BY <1>1 DEF Transmit
<1>5. /\ Store(Record[n]) \in [Raw -> 0 .. OutOfDomain] /\ Store(Record[n]) # Absent
      /\ \A f \in Raw : Store(Record[n])[f] = IF f \in Kept[n] THEN Record[n][f] ELSE slot[f]
  BY <1>1, StoreFacts
<1>6. radio' = Absent \/ radio' \in [Raw -> 0 .. OutOfDomain]
  BY <1>4, <1>5 DEF IInv, RadioInv
<1>7. fates' # <<>>
  BY <1>1
<1>8. ASSUME \A i \in 1 .. Len(fates') : fates'[i] = "accepted"
      PROVE  /\ radio' # Absent
             /\ \A f \in Raw :
                  /\ \A i \in 1 .. Len(fates') : f \in Kept[i] => radio'[f] = Record[i][f]
                  /\ (\A i \in 1 .. Len(fates') : f \notin Kept[i]) => radio'[f] = Under[f]
  <2>1. outcome = "accepted" /\ \A i \in 1 .. Len(fates) : fates[i] = "accepted"
    BY <1>1, <1>8
  <2>2. radio' = Store(Record[n])
    BY <1>4, <2>1
  <2>3. \A f \in Raw :
          /\ \A i \in 1 .. Len(fates) : f \in Kept[i] => slot[f] = Record[i][f]
          /\ (\A i \in 1 .. Len(fates) : f \notin Kept[i]) => slot[f] = Under[f]
    <3>1. CASE fates = <<>>
      BY <3>1 DEF IInv, RadioInv, Under
    <3>2. CASE fates # <<>>
      BY <3>2, <2>1, <1>1 DEF IInv, RadioInv
    <3> QED
      BY <3>1, <3>2
  <2>4. \A i, j \in DOMAIN Layout, f \in Raw : f \in Kept[i] /\ f \in Kept[j] => i = j
    BY LayoutFacts DEF IInv, Kept
  <2>5. 1 .. n \subseteq DOMAIN Layout
    BY <1>1, LayoutFacts DEF IInv
  <2> SUFFICES ASSUME NEW f \in Raw
               PROVE  /\ \A i \in 1 .. n : f \in Kept[i] => radio'[f] = Record[i][f]
                      /\ (\A i \in 1 .. n : f \notin Kept[i]) => radio'[f] = Under[f]
    BY <1>1, <1>5, <2>2
  <2>6. radio'[f] = IF f \in Kept[n] THEN Record[n][f] ELSE slot[f]
    BY <1>5, <2>2
  <2>7. \A i \in 1 .. n : i \in 1 .. Len(fates) \/ i = n
    BY <1>1
  <2>8. ASSUME NEW i \in 1 .. n, f \in Kept[i] PROVE radio'[f] = Record[i][f]
    BY <2>3, <2>4, <2>5, <2>6, <2>7, <2>8
  <2>9. ASSUME \A i \in 1 .. n : f \notin Kept[i] PROVE radio'[f] = Under[f]
    BY <1>1, <2>3, <2>6, <2>9
  <2> QED
    BY <2>8, <2>9
<1>9. RadioInv'
  BY <1>1, <1>6, <1>7, <1>8, FixedKeeps DEF RadioInv
<1> QED
  BY <1>1, <1>2, <1>3, <1>9 DEF IInv

LEMMA InvStep == IInv /\ [ChannelNext]_channelVars => IInv'
<1> SUFFICES ASSUME IInv, [ChannelNext]_channelVars PROVE IInv'
  OBVIOUS
<1>1. CASE UNCHANGED channelVars
  <2>1. UNCHANGED Fixed
    BY <1>1 DEF channelVars, Fixed
  <2> QED
    BY <1>1, <2>1, FixedKeeps
    DEF channelVars, IInv, PhaseInv, FrameInv, StepInv, RadioInv
<1> QED
  BY <1>1, PrepareStep, WriteStep, ReadStep, ReadFailsStep, TransmitStep DEF ChannelNext

-----------------------------------------------------------------------------
(* Theorems.                                                               *)

LEMMA SpecIsAny == ChannelSpec => AnySpec
BY InitIsAny DEF ChannelSpec, AnySpec

(* The invariant holds whatever the slot and the file held.                *)
THEOREM ChannelInvariance == AnySpec => []IInv
BY InitInv, InvStep, PTL DEF AnySpec

LEMMA TypesFollow == IInv => ChannelTypeOK
<1> SUFFICES ASSUME IInv PROVE ChannelTypeOK
  OBVIOUS
<1>1. /\ grade \in [Fields \cup {"erase"} ->
                      {"Supported", "Unverified", "ConsentedUnverified", "Inert", "Unsupported"}]
      /\ phase \in {"prepare", "invalid", "blocked", "planned", "reading", "sending",
                    "refused", "failed", "written"}
  BY DEF IInv, GradeInv, PhaseInv, Grades
<1>2. before \in Channels /\ after \in Channels
  BY ReadIsAny DEF IInv, ChannelInv, ReadOf, AnyChannel, Channels
<1>3. radio \in RawSlots /\ was \in RawSlots
  BY DEF IInv, ChannelInv, RadioInv, AnySlot, RawSlots
<1>4. Len(frames) <= 2
  BY BuildFacts, LayoutFacts DEF IInv, FrameInv, Record
<1> QED
  BY <1>1, <1>2, <1>3, <1>4 DEF ChannelTypeOK, IInv, StepInv

(* Every variable keeps its type.                                          *)
THEOREM ChannelTypeCorrect == AnySpec => []ChannelTypeOK
BY ChannelInvariance, TypesFollow, PTL

LEMMA StepsFollow == IInv => StepsTellTheWire
<1> SUFFICES ASSUME IInv PROVE StepsTellTheWire
  OBVIOUS
<1>1. /\ Len(steps) = Len(frames) /\ Len(fates) <= Len(steps)
      /\ DOMAIN steps = 1 .. Len(steps) /\ Len(steps) \in Nat /\ Len(fates) \in Nat
  BY DEF IInv, StepInv
<1>2. frames = <<>> => radio = was
  <2> SUFFICES ASSUME frames = <<>> PROVE radio = was
    OBVIOUS
  <2>1. Len(fates) = 0
    BY <1>1
  <2>2. fates = <<>>
    BY <2>1, EmptySeq DEF IInv, StepInv
  <2> QED
    BY <2>2 DEF IInv, RadioInv
<1>3. frames # <<>> => Len(frames) = Len(Layout) /\ phase \in {"sending", "failed", "written"}
  BY BuildFacts DEF IInv, FrameInv, PhaseInv, Record
<1>4. ASSUME NEW i \in DOMAIN steps
      PROVE  /\ steps[i].sent => i <= Len(fates) /\ steps[i].confirmed = (fates[i] # "rejected")
             /\ ~steps[i].sent => /\ ~steps[i].confirmed
                                  /\ i <= Len(fates) => i = Len(fates) /\ phase = "failed"
  <2>1. CASE i <= Len(fates)
    <3>1. i \in 1 .. Len(fates)
      BY <1>1, <2>1
    <3>2. /\ steps[i] = [sent |-> fates[i] \in Quiet \/ fates[i] = "rejected",
                         confirmed |-> fates[i] \in Quiet]
          /\ fates[i] \in Quiet \/ (i = Len(fates) /\ phase = "failed")
      BY <3>1 DEF IInv, StepInv
    <3>3. steps[i].sent = (fates[i] \in Quiet \/ fates[i] = "rejected")
      BY <3>2
    <3>4. steps[i].confirmed = (fates[i] \in Quiet)
      BY <3>2
    <3>5. steps[i].sent <=> fates[i] \in Quiet \/ fates[i] = "rejected"
      BY <3>3, Zenon
    <3>6. steps[i].confirmed <=> fates[i] \in Quiet
      BY <3>4, Zenon
    <3>7. CASE fates[i] \in Quiet
      <4>1. (fates[i] \in Quiet) = (fates[i] # "rejected")
        BY <3>7 DEF Quiet
      <4>2. steps[i].confirmed = (fates[i] # "rejected")
        BY <3>4, <4>1, Zenon
      <4> QED
        BY <2>1, <3>5, <3>7, <4>2, Zenon
    <3>8. CASE fates[i] = "rejected"
      <4>1. (fates[i] \in Quiet) = (fates[i] # "rejected")
        BY <3>8 DEF Quiet
      <4>2. steps[i].confirmed = (fates[i] # "rejected")
        BY <3>4, <4>1, Zenon
      <4> QED
        BY <2>1, <3>5, <3>8, <4>2, Zenon
    <3>9. CASE fates[i] \notin Quiet /\ fates[i] # "rejected"
      BY <3>2, <3>5, <3>6, <3>9, Zenon
    <3> QED
      BY <3>7, <3>8, <3>9
  <2>2. CASE ~(i <= Len(fates))
    <3>1. i > Len(fates) /\ i \in 1 .. Len(steps)
      BY <1>1, <2>2
    <3>2. steps[i] = [sent |-> FALSE, confirmed |-> FALSE]
      BY <3>1 DEF IInv, StepInv
    <3> QED
      BY <2>2, <3>2
  <2> QED
    BY <2>1, <2>2
<1> QED
  BY <1>1, <1>2, <1>3, <1>4 DEF StepsTellTheWire

(* WriteResult.Steps tells of each frame what is known of it, in every     *)
(* driver's choreography, whatever becomes of the frames.                  *)
THEOREM StepsAreTrue == AnySpec => []StepsTellTheWire
BY ChannelInvariance, StepsFollow, PTL

(* A planned channel is not an erasure, for no driver can erase.           *)
LEMMA PlannedIsChannel == IInv /\ Planned => after # Absent
BY DEF IInv, GradeInv, Planned, Blocked

LEMMA GatesAgree == IInv /\ Planned /\ ~Icom(model) => Unwritable(after) = {} /\ ~Missing(after)
<1> SUFFICES ASSUME IInv, Planned, ~Icom(model) PROVE Unwritable(after) = {} /\ ~Missing(after)
  OBVIOUS
<1>1. after # Absent /\ ~Blocked
  BY PlannedIsChannel DEF Planned
<1>2. Plain \subseteq Expressed(model) /\ Expressed(model) \subseteq Plain \cup {"tag_display"}
  BY ExpressedFacts DEF IInv
<1>3. \A f \in Touched(after) : CanWrite(f) \/ grade[f] = "Inert"
  BY <1>1 DEF Blocked
<1>4. Plain \subseteq Touched(after) /\ \A f \in Stateful : Carries(after, f) => f \in Touched(after)
  BY <1>2 DEF Touched, Reached
<1>5. Unwritable(after) = {}
  BY <1>3, <1>4 DEF Unwritable, RequestedFields
<1>6. ~Missing(after)
  <2>1. ~Reached("filter")
    BY <1>2, FieldFacts DEF Reached, Plain, Stateful, Tier, Clarifier
  <2>2. "tag_display" \in Expressed(model) => grade["tag_display"] # "Unsupported"
    <3>1. "frequency" \in Expressed(model) /\ grade["frequency"] # "Unsupported"
      BY <1>1, <1>2, FieldFacts DEF Blocked, CanWrite
    <3>2. "tag_display" \in Expressed(model) =>
            grade["tag_display"] = grade["frequency"] \/ grade["tag_display"] = "Inert"
      BY DEF IInv, GradeInv
    <3> QED
      BY <3>1, <3>2
  <2>3. Carries(after, "tag_display") \/ grade["tag_display"] = "Unsupported"
    BY <1>1 DEF Blocked
  <2> QED
    BY <2>1, <2>2, <2>3 DEF Missing, Reached
<1> QED
  BY <1>5, <1>6

(* A Yaesu driver refuses nothing the plan has let through, for any        *)
(* capabilities, consent, slot and channel, but for the two exceptions the *)
(* property names.                                                         *)
THEOREM PlannedGoesThrough == AnySpec => []PlannedIsWritable
<1>1. IInv => PlannedIsWritable
  <2> SUFFICES ASSUME IInv, phase = "refused", ~Icom(model)
               PROVE  after # Absent /\ (~CheckFieldStates(after) \/ RefusesTxClar(after))
    BY DEF PlannedIsWritable
  <2>1. Planned /\ ~Accepted
    BY DEF IInv, PhaseInv
  <2> QED
    BY <2>1, PlannedIsChannel, GatesAgree DEF Accepted
<1> QED
  BY <1>1, ChannelInvariance, PTL

(* Of what was planned, a driver accepts only what has its place in the    *)
(* record.                                                                 *)
LEMMA AskedIsReached ==
  ASSUME IInv, Planned, Accepted, NEW f \in Fields, Asked(f)
  PROVE  Reached(f) /\ (f \in Stateful => Carries(after, f))
<1>1. after # Absent /\ Validate(after) /\ CheckFieldStates(after) /\ Unwritable(after) = {}
  BY DEF Planned, Accepted
<1>2. ASSUME f \in RequestedFields(after) PROVE Reached(f)
  <2>1. CanWrite(f) \/ grade[f] = "Inert"
    BY <1>1, <1>2 DEF Unwritable
  <2>2. grade[f] # "Unsupported"
    BY <2>1 DEF CanWrite
  <2> QED
    BY <2>2 DEF IInv, GradeInv, Reached
<1>3. CASE f \in Plain
  <2>1. CASE ~Icom(model)
    BY <2>1, <1>3, ExpressedFacts, FieldFacts DEF Reached, IInv
  <2>2. CASE Icom(model)
    <3>1. Reached(f) \/ (f \in Clarifier \cup {"shift"} /\ after[f] # Known(0))
      BY <1>3, <2>2, ExpressedFacts DEF Asked, Reached, IInv, Plain
    <3>2. f \in Clarifier \cup {"shift"} /\ after[f] # Known(0) => f \in RequestedFields(after)
      BY <2>2 DEF RequestedFields
    <3> QED
      BY <3>1, <3>2, <1>2, <1>3, FieldFacts
  <2> QED
    BY <2>1, <2>2, <1>3, FieldFacts
<1>4. CASE f \in Stateful
  <2>1. Carries(after, f)
    <3>1. after[f].value # 0 => after[f].state = "Known"
      BY <1>1, <1>4 DEF CheckFieldStates
    <3> QED
      BY <3>1, <1>4, FieldFacts DEF Asked, Carries
  <2>2. CASE f \in Tier
    BY <1>1, <1>4, <2>1, <2>2 DEF Validate, Recorded, Carries
  <2>3. CASE f \in {"tag_display", "ctcss_tone"}
    <3>1. f \in RequestedFields(after)
      BY <1>4, <2>1, <2>3 DEF RequestedFields
    <3> QED
      BY <3>1, <1>2, <2>1
  <2> QED
    BY <1>4, <2>1, <2>2, <2>3 DEF Stateful
<1> QED
  BY <1>3, <1>4, FieldFacts

(* What the radio ignores is what it holds already.                        *)
LEMMA InertIsThere ==
  ASSUME IInv, Planned, Accepted, NEW f \in Fields, Reached(f), grade[f] = "Inert"
  PROVE  after[f].value = Under[f]
<1>1. f \in Clarifier /\ f \in Plain /\ ~Icom(model) /\ f # "tone_tx" /\ f \in Raw
  BY FieldFacts DEF IInv, GradeInv, Icom
<1>2. ~CanWrite(f)
  BY DEF CanWrite
<1>3. f \in Touched(after)
  BY <1>1 DEF Touched
<1>4. ~InertChanged(f)
  BY <1>2, <1>3 DEF Planned, Accepted, Blocked
<1>5. after[f] = (IF before = Absent THEN ReadChannel(model, New) ELSE before)[f]
  BY <1>4 DEF InertChanged, Changed
<1>6. f \in Expressed(model)
  BY DEF Reached
<1>7. model \in Models /\ was \in AnySlot /\ before = ReadOf(model, was)
  BY DEF IInv, ChannelInv
<1>8. CASE was = Absent
  <2>1. ReadChannel(model, New)[f] = Known(New[f])
    BY <1>1, <1>6, <1>7, NewIsAny, ReadIsAny
  <2> QED
    BY <1>5, <1>7, <1>8, <2>1 DEF ReadOf, Known, Under
<1>9. CASE was # Absent
  <2>1. ReadChannel(model, was) # Absent /\ ReadChannel(model, was)[f] = Known(was[f])
    BY <1>1, <1>6, <1>7, <1>9, ReadIsAny
  <2> QED
    BY <1>5, <1>7, <1>9, <2>1 DEF ReadOf, Known, Under
<1> QED
  BY <1>8, <1>9

LEMMA WrittenFollows == IInv => WrittenIsAsked
<1> SUFFICES ASSUME IInv, phase = "written", \A i \in DOMAIN fates : fates[i] = "accepted"
             PROVE  /\ after # Absent
                    /\ \A f \in Fields : Asked(f) => Reached(f) /\ radio[f] = after[f].value
                    /\ was # Absent =>
                         \A f \in Raw \ {g \in Fields : Asked(g)} : radio[f] = was[f]
  BY DEF WrittenIsAsked
<1>1. Planned /\ Accepted /\ Keepable /\ frames = Record /\ frames # <<>>
  BY DEF IInv, PhaseInv, FrameInv
<1>2. after # Absent
  BY <1>1 DEF Accepted
<1>3. /\ DOMAIN Layout = 1 .. Len(fates) /\ DOMAIN fates = 1 .. Len(fates)
      /\ Len(fates) \in {1, 2}
  <2>1. Len(fates) = Len(frames) /\ DOMAIN fates = 1 .. Len(fates)
    BY DEF IInv, StepInv
  <2>2. Len(frames) = Len(Layout)
    BY <1>1, RecordFacts
  <2>3. Len(Layout) \in {1, 2} /\ DOMAIN Layout = 1 .. Len(Layout)
    BY LayoutFacts DEF IInv
  <2> QED
    BY <2>1, <2>2, <2>3
<1>4. fates # <<>>
  BY <1>3
<1>5. \A f \in Raw : /\ \A i \in DOMAIN Layout : f \in Kept[i] => radio[f] = Record[i][f]
                     /\ (\A i \in DOMAIN Layout : f \notin Kept[i]) => radio[f] = Under[f]
  BY <1>1, <1>3, <1>4 DEF IInv, RadioInv
<1>6. \A i \in DOMAIN Layout : \A f \in Layout[i] :
        /\ Record[i][f] = IF f = "tone_tx" THEN ToneSource(after, Template)
                          ELSE IF f = "unmapped" THEN 0 ELSE after[f].value
        /\ f \in Kept[i] <=> ~(f \in Fields /\ grade[f] = "Inert")
  BY DEF Record, Build, Kept
<1>7. \A i \in DOMAIN Layout : Kept[i] \subseteq Layout[i]
  BY DEF Kept
<1>8. ASSUME NEW f \in Fields, Asked(f) PROVE Reached(f) /\ radio[f] = after[f].value
  <2>1. Reached(f) /\ (f \in Stateful => Carries(after, f))
    BY <1>1, <1>8, AskedIsReached
  <2>2. PICK i \in DOMAIN Layout : f \in Layout[i]
    BY <2>1, LayoutFacts DEF IInv, Reached
  <2>3. f \in Raw /\ f # "unmapped"
    BY FieldFacts
  <2>4. Record[i][f] = after[f].value
    BY <1>6, <2>1, <2>2, <2>3, FieldFacts DEF ToneSource
  <2>5. CASE grade[f] # "Inert"
    BY <1>5, <1>6, <2>1, <2>2, <2>3, <2>4, <2>5
  <2>6. CASE grade[f] = "Inert"
    <3>1. \A j \in DOMAIN Layout : f \notin Kept[j]
      BY <1>6, <1>7, <2>6
    <3>2. radio[f] = Under[f]
      BY <1>5, <2>3, <3>1
    <3> QED
      BY <1>1, <2>1, <2>6, <3>2, InertIsThere
  <2> QED
    BY <2>1, <2>5, <2>6
<1>9. ASSUME was # Absent, NEW f \in Raw \ {g \in Fields : Asked(g)} PROVE radio[f] = was[f]
  <2>1. Under[f] = was[f]
    BY <1>9 DEF Under
  <2>2. CASE \A i \in DOMAIN Layout : f \notin Kept[i]
    BY <1>5, <1>9, <2>1, <2>2
  <2>3. ASSUME NEW i \in DOMAIN Layout, f \in Kept[i] PROVE radio[f] = was[f]
    <3>1. radio[f] = Record[i][f] /\ f \in Layout[i]
      BY <1>5, <1>7, <1>9, <2>3
    <3>2. f \in Expressed(model) \/ (f = "unmapped" /\ Icom(model))
      BY <3>1, LayoutFacts DEF IInv
    <3>3. CASE f = "unmapped"
      BY <1>1, <1>6, <1>9, <3>1, <3>2, <3>3, FieldFacts, ExpressedFacts DEF Keepable, IInv
    <3>4. CASE f # "unmapped"
      <4>1. f \in Fields /\ ~Asked(f) /\ f \in Expressed(model)
        BY <1>9, <3>2, <3>4, FieldFacts
      <4>2. f \in Stateful /\ ~Carries(after, f)
        BY <4>1, FieldFacts DEF Asked, Reached
      <4>3. ~Missing(after)
        BY <1>1 DEF Accepted
      <4>4. f # "tag_display" /\ f # "filter"
        BY <4>1, <4>2, <4>3 DEF Missing, Reached
      <4>5. f = "tone_tx" /\ Icom(model)
        BY <4>1, <4>2, <4>4, ExpressedFacts, FieldFacts DEF IInv
      <4>6. Record[i][f] = was["tone_tx"]
        BY <1>6, <1>9, <3>1, <4>2, <4>5 DEF ToneSource, Template
      <4> QED
        BY <3>1, <4>5, <4>6
    <3> QED
      BY <3>3, <3>4
  <2> QED
    BY <2>2, <2>3
<1> QED
  BY <1>2, <1>8, <1>9

(* A channel whose frames the radio has stored is in it as the file has    *)
(* it, and the rest of the slot as it was, for any slot and any channel.   *)
THEOREM WrittenAsAsked == AnySpec => []WrittenIsAsked
BY ChannelInvariance, WrittenFollows, PTL

=============================================================================
