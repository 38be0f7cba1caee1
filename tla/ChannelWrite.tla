----------------------------- MODULE ChannelWrite -----------------------------
(***************************************************************************)
(* One channel on its way into a radio: what a send plan lets through      *)
(* (Validate and Diff of core/codeplug, over the capabilities of the       *)
(* session), what the driver then refuses, and the frames it sends (the    *)
(* drivers of the FT-710, of the Yaesu radios of one MT frame, and of the  *)
(* Icom radios of core/driver/internal/icom).                              *)
(*                                                                         *)
(* A field stands for its like: "frequency" for mode, "clarifier" and      *)
(* "tx_clarifier", one field of the capabilities, for its two flags,       *)
(* "shift" for the CTCSS state, "ctcss_tone" for scan skip, "filter" for   *)
(* tone mode, "tone_tx" for tone_rx, "ip_plus" for the other receiver      *)
(* fields.  Values are 0 and 1, of which 0 is the one a new channel has.   *)
(* What lies outside a radio's vocabulary is not among them.               *)
(***************************************************************************)
EXTENDS Naturals, Sequences

CONSTANT Models   (* the drivers                                            *)

ASSUME ModelAssumption == Models \subseteq {"ft710", "ft891", "ftdx10", "ic7610"}

Clarifier == {"clarifier", "tx_clarifier"}
Plain     == {"frequency", "shift", "tag"} \cup Clarifier
Tier      == {"filter", "tone_tx", "ip_plus"}
Stateful  == {"tag_display", "ctcss_tone"} \cup Tier
Fields    == Plain \cup Stateful
Raw       == Fields \cup {"unmapped"}   (* and what no channel shows       *)
OutOfDomain == 2                        (* a tone in no table              *)
Absent    == <<>>                       (* no channel, an empty slot       *)

VARIABLES
  model,    (* the driver                                                  *)
  grade,    (* FieldSupport.Write of each field in the channel's bank      *)
  before,   (* the baseline's channel, as it was read                      *)
  after,    (* the channel of the file                                     *)
  radio,    (* the radio's slot, byte for byte                             *)
  phase,    (* "prepare", "invalid", "blocked", "planned", "reading",      *)
            (* "sending", "refused", "failed", "written"                   *)
  frames,   (* what WriteChannel has built: field values                   *)
  steps,    (* WriteResult.Steps                                           *)
  fates,    (* history: what became of each frame that was tried           *)
  was       (* history: the slot before WriteChannel                       *)

channelVars == <<model, grade, before, after, radio, phase, frames, steps, fates, was>>

-----------------------------------------------------------------------------
(* Capabilities.                                                           *)

Icom(m) == m = "ic7610"

(* The fields of a memory record, all of which are in each write.          *)
Expressed(m) ==
  IF Icom(m) THEN {"frequency", "tag", "filter", "tone_tx"}
  ELSE Plain \cup (IF m = "ftdx10" THEN {} ELSE {"tag_display"})

Reached(f) == f \in Expressed(model)   (* not FieldSupport.Unreachable     *)

(* bankFields under a profile, which grades what the record expresses; the *)
(* FT-710 ignores the clarifier, and its fail-safe profile has not settled *)
(* whether it can erase.  The banks it discovers are read only.            *)
BankFields(m, profile) ==
  [f \in Fields \cup {"erase"} |->
    IF f \in Expressed(m)
      THEN IF f \in Clarifier /\ m = "ft710" /\ profile # "Unsupported" THEN "Inert" ELSE profile
      ELSE IF f = "erase" /\ m = "ft710" /\ profile = "Unverified" THEN profile
           ELSE "Unsupported"]

Profiles(m) == {"Supported", "Unverified"} \cup (IF m = "ft710" THEN {"Unsupported"} ELSE {})

(* Mutant: consent to whatever is unverified.                              *)
ConsentToAll(g) == [f \in DOMAIN g |-> IF g[f] = "Unverified" THEN "ConsentedUnverified" ELSE g[f]]
ConsentUnverifiedWrites(g) ==
  [f \in DOMAIN g |-> IF f # "erase" /\ g[f] = "Unverified" THEN "ConsentedUnverified" ELSE g[f]]

CanWrite(f) == grade[f] \in {"Supported", "ConsentedUnverified"}

-----------------------------------------------------------------------------
(* Channels.                                                               *)

Known(v) == [state |-> "Known", value |-> v]
Silent(s) == [state |-> s, value |-> 0]
Carries(c, f) == c[f].state = "Known"

(* ReadChannel of a slot that is not empty.  A tone outside the table is   *)
(* Unknown; what the record lacks is Unavailable (Unknown, a Yaesu's       *)
(* tone), or zero where a channel has no state.                            *)
ReadChannel(m, slot) ==
  [f \in Fields |->
    IF f \in Expressed(m) /\ slot[f] # OutOfDomain THEN Known(slot[f])
    ELSE IF f \in Expressed(m) \/ (f = "ctcss_tone" /\ ~Icom(m)) THEN Silent("Unknown")
    ELSE IF f \in Plain THEN Known(0)
    ELSE Silent("Unavailable")]

New == [f \in Raw |-> 0]
Slots(m) ==
  {Absent} \cup
    {[New EXCEPT !["clarifier"] = c, !["tag"] = 1, !["tone_tx"] = t, !["unmapped"] = u] :
       c \in IF m = "ft710" THEN {0, 1} ELSE {0},
       t \in IF Icom(m) THEN {1, OutOfDomain} ELSE {0},
       u \in IF Icom(m) THEN {0, 1} ELSE {0}}

(* A field as a file, an import or the editor leaves it; a value may come  *)
(* with a state that says there is none.                                   *)
Contents(f) ==
  {Known(0), Known(1)} \cup
    IF f \in Plain THEN {}
    ELSE {Silent(s) : s \in {"Unknown", "Unavailable", "Absent"}}
           \cup {[Known(1) EXCEPT !.state = s] : s \in {"Unavailable", "Absent"}}

(* The channel of the file: erased, or with two fields of its own.         *)
Edits(c) ==
  {Absent} \cup
    UNION {{[c EXCEPT !["frequency"] = Known(n), ![f] = v] : v \in Contents(f)} :
             f \in Fields \ {"frequency"}, n \in {0, 1}}

ChannelInit ==
  /\ model \in Models
  /\ \E profile \in Profiles(model), consented \in BOOLEAN :
       grade = LET g == BankFields(model, profile)
               IN IF consented THEN ConsentUnverifiedWrites(g) ELSE g
  /\ radio \in Slots(model)
  /\ before = IF radio = Absent THEN Absent ELSE ReadChannel(model, radio)
  /\ after \in Edits(ReadChannel(model, IF radio = Absent THEN New ELSE radio))
  /\ phase = "prepare" /\ frames = <<>> /\ steps = <<>> /\ fates = <<>> /\ was = radio

-----------------------------------------------------------------------------
(* PrepareSend: Validate, then Diff's gates.                               *)

Recorded(x) == x.state \in {"Known", "Unknown"}

(* The fields' Valid: a state, and no value unless it is Known.            *)
Shaped(x) == x.state \in {"Known", "Unknown", "Unavailable"} /\ (x.state # "Known" => x.value = 0)

(* validateChannelData: what a bank does not reach may not be recorded,    *)
(* and is not looked at any further.  A clarifier here is one of the       *)
(* flags, which no bound applies to.                                       *)
Validate(c) ==
  \A f \in Stateful : IF f \in Tier /\ ~Reached(f) THEN ~Recorded(c[f]) ELSE Shaped(c[f])

Changed(c, d) == {f \in Fields : c[f] # d[f]}

(* touchedFields                                                           *)
Touched(c) == {f \in Plain : Reached(f)} \cup {f \in Stateful : Carries(c, f)}

(* Mutant: what the radio ignores may be sent, changed or not.             *)
InertIsHarmless(f) == FALSE
InertChanged(f) ==
  grade[f] = "Inert" /\ f \in Changed(IF before = Absent THEN ReadChannel(model, New) ELSE before, after)

(* Diff's gates: the bank, erasing, the display flag, then every field.    *)
Blocked ==
  \/ ~CanWrite("frequency") /\ grade["frequency"] # "Inert"
  \/ after = Absent /\ ~CanWrite("erase")
  \/ /\ after # Absent
     /\ \/ ~Carries(after, "tag_display") /\ grade["tag_display"] # "Unsupported"
        \/ \E f \in Touched(after) : ~CanWrite(f) /\ (grade[f] = "Inert" => InertChanged(f))

PrepareSend ==
  /\ phase = "prepare" /\ after # before
  /\ phase' = IF after # Absent /\ ~Validate(after) THEN "invalid"
              ELSE IF Blocked THEN "blocked" ELSE "planned"
  /\ UNCHANGED <<model, grade, before, after, radio, frames, steps, fates, was>>

-----------------------------------------------------------------------------
(* WriteChannel.  Everything that can be refused without the radio is      *)
(* refused before a byte is sent.                                          *)

(* Mutant: the states are taken as they come.                              *)
StatesUnchecked(c) == TRUE
(* CheckFieldStates, RefuseIncoherentFields: a field left Absent is well   *)
(* formed as long as it has no value.                                      *)
CheckFieldStates(c) == \A f \in Stateful : c[f].state # "Known" => c[f].value = 0

(* RequestedFields.  The Icom table of conditional fields lacks those of   *)
(* the receivers.                                                          *)
RequestedFields(c) ==
  IF Icom(model)
    THEN Expressed(model) \cup {f \in Clarifier \cup {"shift"} : c[f] # Known(0)}
           \cup {f \in {"tag_display", "ctcss_tone"} : Carries(c, f)}
    ELSE Plain \cup {f \in Stateful : Carries(c, f)}

Unwritable(c) ==
  {f \in RequestedFields(c) : ~CanWrite(f) /\ (grade[f] = "Inert" => Icom(model))}

(* missingMandatory, or the display flag of a record that has one.         *)
Missing(c) ==
  \E f \in {"tag_display", "filter"} : Reached(f) /\ ~Carries(c, f)

(* RefuseTxClar: a record with no place for that flag.                     *)
RefusesTxClar(c) == model = "ft891" /\ c["tx_clarifier"] = Known(1)

(* The frames of a write and the fields in each.                           *)
Layout ==
  IF model = "ft710" THEN <<{"frequency", "shift"} \cup Clarifier, {"tag", "tag_display"}>>
  ELSE <<Expressed(model) \cup (IF Icom(model) THEN {"unmapped"} ELSE {})>>

(* Mutant: no tone is tone 0.                                              *)
ToneOrNone(c, slot) == IF Carries(c, "tone_tx") THEN c["tone_tx"].value ELSE 0
(* toneSource: a tone not Known goes back as it was read.                  *)
ToneSource(c, slot) == IF Carries(c, "tone_tx") THEN c["tone_tx"].value ELSE slot["tone_tx"]

(* What is not mapped is filled in from the template, all zero.            *)
Build(slot) ==
  [i \in DOMAIN Layout |->
    [f \in Layout[i] |-> IF f = "tone_tx" THEN ToneSource(after, slot)
                         ELSE IF f = "unmapped" THEN 0 ELSE after[f].value]]

(* Mutant: a step is listed when its frame is sent.                        *)
FirstStep(built) == <<[sent |-> FALSE, confirmed |-> FALSE]>>
(* The steps of a write are listed before the first is taken.              *)
Unsent(built) == [i \in DOMAIN built |-> [sent |-> FALSE, confirmed |-> FALSE]]

StartSending(slot) ==
  /\ phase' = "sending" /\ frames' = Build(slot) /\ steps' = Unsent(frames')

RefuseWrite == phase' = "refused" /\ UNCHANGED <<frames, steps>>

WriteChannel ==
  /\ phase = "planned"
  /\ IF \/ after = Absent \/ ~CheckFieldStates(after)
        \/ Unwritable(after) # {} \/ Missing(after) \/ RefusesTxClar(after)
       THEN RefuseWrite
     ELSE IF Icom(model)
       THEN phase' = "reading" /\ UNCHANGED <<frames, steps>>
     ELSE StartSending(New)
  /\ UNCHANGED <<model, grade, before, after, radio, fates, was>>

(* The one read before an Icom write.  What no channel shows must be what  *)
(* the template would put there, and an empty slot has no tone to keep.    *)
PreservationRead ==
  /\ phase = "reading"
  /\ IF radio = Absent
       THEN IF Carries(after, "tone_tx") THEN StartSending(New) ELSE RefuseWrite
     ELSE IF radio["unmapped"] # 0 THEN RefuseWrite
     ELSE StartSending(radio)
  /\ UNCHANGED <<model, grade, before, after, radio, fates, was>>

ReadFails ==
  /\ phase = "reading" /\ phase' = "failed"
  /\ UNCHANGED <<model, grade, before, after, radio, frames, steps, fates, was>>

(* The radio stores a frame; what is Inert it leaves as it was.            *)
Store(frame) ==
  LET slot == IF radio = Absent THEN New ELSE radio
  IN [f \in Raw |-> IF f \in DOMAIN frame /\ ~(f \in Fields /\ grade[f] = "Inert")
                     THEN frame[f] ELSE slot[f]]

(* Engine.Do of the next frame: accepted; rejected by the radio; stored    *)
(* but the link failed before that could be known; never there.  A Yaesu   *)
(* radio only ever says no, so what it misses can go unnoticed.            *)
Outcomes == {"accepted", "rejected", "unheard", "lost", "unnoticed"}

Transmit(outcome) ==
  LET i == Len(fates) + 1
      stored == outcome \in {"accepted", "unheard"}
      quiet  == outcome \in {"accepted", "unnoticed"}
  IN /\ phase = "sending" /\ (outcome = "unnoticed" => ~Icom(model))
     /\ radio' = IF stored THEN Store(frames[i]) ELSE radio
     /\ fates' = Append(fates, outcome)
     /\ steps' = [steps EXCEPT ![i] = [sent |-> quiet \/ outcome = "rejected",
                                       confirmed |-> quiet]]
     /\ phase' = IF ~quiet THEN "failed" ELSE IF i < Len(frames) THEN "sending" ELSE "written"
     /\ UNCHANGED <<model, grade, before, after, frames, was>>

ChannelNext ==
  \/ PrepareSend
  \/ WriteChannel
  \/ PreservationRead
  \/ ReadFails
  \/ \E outcome \in Outcomes : Transmit(outcome)

ChannelSpec == ChannelInit /\ [][ChannelNext]_channelVars

-----------------------------------------------------------------------------
(* Properties.                                                             *)

(* Every variable has its type.                                            *)
Channels == {Absent} \cup [Fields -> [state : {"Known", "Unknown", "Unavailable", "Absent"},
                                      value : {0, 1}]]
RawSlots == {Absent} \cup [Raw -> 0 .. OutOfDomain]

ChannelTypeOK ==
  /\ model \in Models
  /\ grade \in [Fields \cup {"erase"} ->
                  {"Supported", "Unverified", "ConsentedUnverified", "Inert", "Unsupported"}]
  /\ before \in Channels /\ after \in Channels
  /\ radio \in RawSlots /\ was \in RawSlots
  /\ phase \in {"prepare", "invalid", "blocked", "planned", "reading", "sending",
                "refused", "failed", "written"}
  /\ Len(frames) <= 2 /\ steps \in Seq([sent : BOOLEAN, confirmed : BOOLEAN])
  /\ fates \in Seq(Outcomes)

(* A value somebody put into the channel of the file.                      *)
Asked(f) == IF f \in Plain THEN Reached(f) \/ after[f] # Known(0)
            ELSE Carries(after, f) \/ after[f].value # 0

(* A channel whose frames the radio has all stored is in it as the file    *)
(* has it: each value that was asked for, none dropped because the frame   *)
(* has no place for it or the radio ignores it, and beside them what the   *)
(* slot held before, down to what no channel can show.                     *)
WrittenIsAsked ==
  phase = "written" /\ (\A i \in DOMAIN fates : fates[i] = "accepted") =>
    /\ after # Absent
    /\ \A f \in Fields : Asked(f) => Reached(f) /\ radio[f] = after[f].value
    /\ was # Absent => \A f \in Raw \ {g \in Fields : Asked(g)} : radio[f] = was[f]

(* The steps of a write tell, frame by frame, what is known of it: the     *)
(* whole list as soon as one frame may be sent; not refused, refused, or   *)
(* in doubt, and in doubt at most one, the last that was tried; and a      *)
(* refused channel has reached the radio with nothing.                     *)
StepsTellTheWire ==
  /\ Len(steps) = Len(frames) /\ Len(fates) <= Len(steps)
  /\ frames = <<>> => radio = was
  /\ frames # <<>> => Len(frames) = Len(Layout) /\ phase \in {"sending", "failed", "written"}
  /\ \A i \in DOMAIN steps :
       /\ steps[i].sent => i <= Len(fates) /\ steps[i].confirmed = (fates[i] # "rejected")
       /\ ~steps[i].sent => /\ ~steps[i].confirmed
                            /\ i <= Len(fates) => i = Len(fates) /\ phase = "failed"

(* A Yaesu driver refuses nothing that the plan has let through: that ends *)
(* the whole send, with the channels before it written.  It does refuse a  *)
(* value without a state, which Validate overlooks in a field the radio    *)
(* has not, and the TX clarifier of an FT-891, which nothing checks first. *)
PlannedIsWritable ==
  phase = "refused" /\ ~Icom(model) =>
    after # Absent /\ (~CheckFieldStates(after) \/ RefusesTxClar(after))

(* internal/icom/write.go, rung 2, of its own gate: "Defence in depth      *)
(* below the clone service, which has already made the same check."        *)
SameCheck == phase = "refused" => after # Absent /\ Unwritable(after) = {}

=============================================================================
