# A verification project for open-rig-programmer

open-rig-programmer reads and writes the memory channels of amateur radios over
a serial link. Its core promise is about failure: no matter what the wire, the
radio, the disk or the user does, a send never destroys a channel that was not
saved first, and the program never says more about the radio than it knows. This
directory holds TLA+ models of the parts that carry that promise, the TLC runs
that check them, and TLAPS proofs. Paths below are relative to the repository.

## 1. The system

| Component | State | Operations | Interacts with |
|---|---|---|---|
| Transaction engine, `core/transport/engine.go` | mutex `e.mu`; `suspect`, `contaminated`, `fatalGate`, `closeOnce`; the reader's event channel | `Init`, `Do`, `DrainToQuiet`, `Close`; the reader goroutine | the port below; drivers above, one `Do` per frame |
| Framings, `framing.go`, `catframing.go`, codecs | bytes of a partial frame, echo notes (CI-V) | `Push`, `NoteSent`, `SettleDrain` | called by the engine and its reader |
| Codecs `core/cat`, `core/civ`, `core/kw`, `core/bincat` | none | build, gate and parse frames | drivers |
| Drivers `core/driver/...` | an open session, capabilities | `Open`, `ReadChannel`, `WriteChannel`, settings, VFO and selection seams | engine below, clone service above |
| Clone service, `core/clone` | try-lock `opBusy`, `generation`; plans in memory; snapshots and journals on disk | `ReadAll`, `ReadSettings`, `PrepareSend`, `Execute` | one driver session; the disk |
| Clone-wire reception, `core/clonewire` | three deadlines, bytes received | `Arm`, `Receive` | the port; `app`'s clone read |
| Codeplug, `core/codeplug` | the file format | `Load`, `Save`, `Diff`, `Validate`, digests | clone service, application |
| Capabilities and consent, `core/spec`, `internal/userconfig` | settings file of recorded decisions | `WithConsent`, `SetUnverifiedWrites` | drivers, application |
| CSV, `core/csvio`, `internal/csvmerge` | none | import, merge, export | application, command line |
| Application session, `app/*.go` | connection, reservations `opBusy` and `transfer`, active plan, working copy with its file, dirty mark, revision and stale mark, armed clone read | the methods bound to the window | clone service, clone-wire, codeplug files |
| Window `app/frontend`, command line `cmd/rigprog` | view state | call the above | application, clone service |
| Wiring, EX tables, simulators `internal/fake*` | tables, test doubles | | |

Where it is hard, and what must hold:

* **Engine.** Replies carry no identity: a late one looks like the answer to the
  next command. Timeouts, cancellation, unsolicited frames, a fatal frame and
  `Close` race the caller, the writer and the reader. *Must hold:* what a call
  abandoned is drained before anything else is believed; writes are never
  repeated; nothing is written after a fatal frame; calls and `Close` return.
* **Clone service.** A plan is older than the radio it is sent to; each write may
  land, half land or not, whatever is reported; journal lines can fail; the
  program can die between any two steps. *Must hold:* what is overwritten is on
  disk; the journal names the slot in doubt; the report is true; only what was
  confirmed is written, in the session it was confirmed for; the operator gets
  VFO and selection back; the service becomes free.
* **Application session.** Every bound call is a goroutine; operations hold no
  lock while they run, only two reservations that do not exclude each other
  everywhere. *Must hold:* a session is not closed under an operation; a plan,
  a baseline and a dirty mark mean what they say; nothing stays reserved.
* **Frames and replies.** Bytes come in arbitrary chunks, with echoes, half
  frames and floods; a binary reply is recognised by its length alone. *Must
  hold:* what is returned is the frames of the stream, whatever the chunks; an
  answer is one whole reply to the request it is returned for.
* **Clone-wire reception.** A radio that cannot be asked sends its image once,
  against three deadlines. *Must hold:* the image is accepted whole or not at
  all; `Receive` ends and so does the goroutine it started.
* **Files.** A save can fail, be killed, or lose power at any step, beside
  another process that saves the same file. *Must hold:* the path is never torn;
  a settings file keeps what was decided.
* **One channel.** Validation, the plan's gate, the driver's gate, and frames
  that carry whole records judge the same channel in turn. *Must hold:* what is
  written is what was asked for and nothing else is disturbed; what the plan lets
  through the driver can write; a partial write says so.

`PROJECT.json` lists each hazard at its line with the properties that cover it,
and those that none covers yet with the reason.

## 2. The modules

| Module | Models | Built on |
|---|---|---|
| `TransportEngine` | `core/transport/engine.go` in full: callers, the reader goroutine, `Close`, the port, the wire and a radio | |
| `SerialExchange` | what the engine promises: serial calls with bounded transmissions and truthful outcomes | refined by `TransportEngine` |
| `TransportEngineProofs`, `TransportEngineRefinement` | inductive invariant and theorems; the refinement | `TransportEngine`, TLAPS |
| `TransportReplyProofs` | whose reply is where: a second invariant and its theorems | `TransportEngineProofs` |
| `CloneService` | `core/clone`: the service, its clients, one radio, the disk, the operator | |
| `SendLedger` | what a send promises its caller and whoever reads the journals: declared, written, settled, told | refined by `CloneService` |
| `CloneServiceProofs` | its inductive invariant and theorems | `CloneService`, TLAPS |
| `CloneServiceRefinement` | the refinement of `SendLedger` | `CloneServiceProofs` |
| `AppSession` | `app/*.go`: bound methods as threads, the send goroutine, clone reads, files | |
| `AppSessionProofs` | its inductive invariant and theorems | `AppSession`, TLAPS |
| `FrameAccumulators` | `core/civ/accumulator.go`, `core/cat/accumulator.go` and its twin in `core/kw`: frames out of chunks | |
| `BinaryReplies` | `core/bincat`'s accumulator, with the engine's retries and the identity probe of `core/driver/ft890900` | |
| `CloneReception` | `core/clonewire`: `Arm`, `readLoop`, `Receive`, `matchAndParse` | |
| `FileReplacement` | `codeplug.Save` and `userconfig.setConsent` on a disk that may lose what was not synced | |
| `FileReplacementProofs` | its inductive invariant and theorems | `FileReplacement`, TLAPS |
| `ChannelWrite` | one channel from `Validate` and `Diff` (`core/codeplug`) through `WriteChannel` of the FT-710, other Yaesu and Icom drivers | |
| `ChannelWriteProofs` | its inductive invariant and theorems | `ChannelWrite`, TLAPS |
| `MCTransportEngine`, `MCCloneService`, `MCAppSession` | constants, symmetry and inputs for TLC | one component each |
| `MCWholeOrNothing` | `FrameAccumulators` to `ChannelWrite`, side by side | extends `FileReplacement` and `ChannelWrite`, instantiates the others |

How they fit: `TransportEngine` takes frames from where `FrameAccumulators` and
`BinaryReplies` leave them; `CloneService`'s write step, with its nondeterministic
endings, is what `ChannelWrite` does in detail (its outcomes *accepted*,
*unheard*, *lost* and a first frame alone are the slot's new, half and old
contents); `AppSession` takes a clone read from where `CloneReception` leaves
it, and files from `FileReplacement`. The five modules from `FrameAccumulators`
to `ChannelWrite` share no state with
each other, in the code either, so `MCWholeOrNothing` composes them only in the
sense that one of them moves and the others stay.

### TransportEngine

A caller is at `pc` *idle, lock, purge, send, write, failed, wait* or *drain*:
the blocking points of `Do` and `DrainToQuiet`. `mu`, `suspect`, `contaminated`
`events` and `fatalGate` (the mutex) are the fields of the same name. `closed`
and `port` split `closePort` into its two visible effects, and `published` is
history: `publishFatal` has run to its Unlock. `rpc` and `chunk` are the
reader's position and what it has read; `radio` and `wire` are the answers a
radio owes and those under way.
`attempt`, `why` and `discarded` are locals of `Do` and of the drain.

A byte stream is abstracted to frames: an answer that belongs to a call, an
acknowledgement, a rejection, a push, garbage and a fatal frame. Chunks of
several frames are kept, because the reader treats a fatal frame specially only
by its place in a chunk. Time is abstracted: with `Punctual` FALSE a deadline
may pass at any moment, with it TRUE only when nothing is on its way, which is
what a radio that answers within its timeout gives; `ReplyIsOwn` is stated for
punctual radios and deliberately includes abandoned ones. `sent`, `astray` and
`class` are history.

### CloneService

`pc` and `job` are a client's place and local variables; each exchange with the
radio and each journal line is a step of its own, so that cancellation, an edit
at the front panel, reconnection and `Crash` fall between any two. `mem`, `menu`
and `displaced` are the radio; `disk` holds each snapshot with the journal
beside it. `WriteChannel` lets the slot take the content, half of it or
nothing, whether or not an error is reported: several frames, some radios
acknowledge none. Journal lines can fail with or without being left behind.
`touched`, `strayed` and `fault` are history. A candidate's contents are model
values; refusals by `Validate` and the gate are a set of gated contents and a
nondeterministic refusal.

### AppSession

Each bound method is a thread that takes `a.mu` for one section at a time; a
section is a step. `send` is the goroutine that `ConfirmSend` starts. Working
copies and file contents are tokens that name when they were made. `UIOrder`
TRUE keeps the order the window's dialogues impose on the calls (Cancel before
Receive, one save at a time, no read beside a send), FALSE allows any order of
the exported methods. Imports act on the state by the section they share with
`UpdateChannel`. The clone service is reduced to its try-lock (`svcBusy`) and to
the ways an operation ends, each of which `CloneService` shows possible.

### FrameAccumulators

`buf` and `noted` are the fields; `Push` is the whole method, cut into the loop
over the buffer (`CutCIV`, `CutCAT`) and the filter over its frames (`Filter`).
The reference, `FramesOf`, is a definition on the whole stream that knows of no
chunks, no buffer and no notes. CI-V's five kinds of byte (preamble, end, this
program's address, the radio's, which is also any payload) and CAT's two are
what the code tells apart.

### BinaryReplies

A session: two probes, then reads. `want` and `buf` are the accumulator's; a
byte carries the number of the transmission it answers, which nothing in the
program can see. `suspect` is the engine's: set when a wait times out for the
last time or is cancelled (`TimedOut`, `Cancelled`), it makes the next call drain
at its entry (`EntryDrain`) before it may send (`Ask`); a retry drains too
(`Retry`). An answer may be late, but not later than a drain that runs to its
end. Nothing else stands between a late reply and the next request, whose
matcher accepts any frame, so `AnswerIsTheReply` fails if any of these marks or
drains is left out. One is left out by the code: a drain before a retry that
fails, because the caller is gone or the line does not fall quiet, marks nothing
(`GivenUp`; finding 1). The history `astray` records that, if the reply was still
on the line, until a drain leaves the accumulator empty, and `AnswerIsTheReply`
excepts what is answered in between. The radio of one model never answers the
second probe, and `boundary.expected` is what the driver takes it for. With
`Faults` a reply can be lost or lose a byte; without, the line is perfect and
only timing is bad.

### CloneReception

`reader` is `readLoop`'s goroutine, which offers each chunk to `Receive` until
`done` is closed. The line has at most one fault: a transfer that stops, a byte
lost, added or changed, a block repeated, a port that fails. A deadline may pass at any
moment, except that of the last window, after the last block: it passes without
a byte only if the radio has no more to send.

### FileReplacement

`path` is what a reader finds, `bytes` what that file would read after a power
failure, `mayBe` what the path would then read, which may be an older file. Data
become certain with the file's sync, the rename with the directory's; the
second may fail in silence. A write that is reported done and is not is caught
by the read-back of the settings file; `Save` has none, so there a write is taken
to be what it says.

### ChannelWrite

A channel maps fields to values with a state; a field stands for its like, as
the module's head lists. `ChannelInit` takes any slot of the radio (empty, with
bits no channel shows, with a tone in no table), the channel read from it, any
of the profiles and of the two decisions on consent, and a file that erases the
channel or sets one or two fields to any state and value, also those no editor
offers but a file may hold. Then `PrepareSend`, the driver's refusals, the one
read of an Icom write, and the frames, each with any outcome. `steps` is
`WriteResult.Steps`; `fates` is what really happened, which a Yaesu driver cannot
see: a `Confirmed` step there says only that no refusal came in time
(`core/driver/driver.go:63-83`), and the read-back of the clone service is the
proof.

## 3. The runs

State counts are TLC's distinct states, rounded.

| Run | Shows | States |
|---|---|---|
| `engine_calls` | two callers, every kind of call: `TypeOK`; after a timeout or cancellation the stream is suspect or drained (`AbandonedIsSuspect`); nothing but a read is transmitted twice (`NeverResent`); a reply handed to a caller was made for its call (`ReplyIsOwn`); the engine implements `SerialExchange` (`ImplementsExchange`) | 1.4 M |
| `engine_ends` | floods, over-long and fatal frames, a failing port, `Close`: no frame goes out once a fatal one is published (`NoFrameAfterFatal`) or while the stream is contaminated (`NoWriteWhileContaminated`); an answer received before the end is delivered (`ClosureHidesNoReply`); `CallsReturn` and `CloseJoins` | 320 k |
| `engine_stale` | *violated*: see findings | |
| `clone_send` | a send with VFO and selection seams, failures, a cancellation, a reconnection, a crash: `JournalNamesTheDoubt`, `ReportNamesEveryWrite`, `CancelLeavesNoDoubt`, `OperatorStateReturned`, `OnlyInItsSession`; the service implements `SendLedger` (`ImplementsLedger`); and `ServiceBecomesFree` under fairness | 310 k |
| `clone_replay` | two plans executed twice, any confirmation, an edit at the radio: `OverwrittenIsSaved`, `OnlyConfirmedChannels` | 4.6 M |
| `clone_settings` | *violated*: see findings | |
| `app_calls` | three threads, in any order over the radio's methods and in the window's order over everything else (clone reads cancelled at every step, edits, saves, loads, sends): `SessionOpenWhileUsed`, `TrafficNeverMixes`, `SendIsReachable`, `PlanOfThisSession`, `NothingLeaked`, `ReservationHeld`, `StaleIsMarked`, `NoEditSwallowed`, `SaveClearsHonestly` | 1.6 M |
| `app_overlap`, `app_pair` | *violated*: see findings | |
| `whole_or_nothing` | five components in turn. What the accumulators return is the frames of the byte stream (`FramesOfStream`); a binary exchange answers with one whole reply to itself, except after a call given up in its retry drain (`AnswerIsTheReply`); an image that is accepted is the radio's (`ImageIsWhole`) and reception ends (`ReceptionEnds`, under fairness); the replaced files are never torn (`PathIsWhole`) and keep what was decided (`DecisionKept`); a channel that was written is as asked and the rest of the slot as before (`WrittenIsAsked`), its steps are true (`StepsTellTheWire`), and a Yaesu driver can write what the plan let through (`PlannedIsWritable`) | 296 k |
| `bincat_retry`, `channel_gate` | *violated*: see findings | |

### Bounds

* *Engine:* two calls, because every hazard is about one call's remains meeting
  the next; one retry of a read; an event channel, wire and chunk of one, so
  that each is full at some time (the reader blocks only on a full channel);
  two frames thrown away by a purge (`PurgeBound` stands for `maxPurgeFrames`
  and exceeds the channel's capacity, as it does there). Longer chunks are the
  proofs' part: the theorems of section 4 hold for every `ChunkMax`.
* *Clone service:* two slots give a first and a last one, and one slot is enough
  where only repetition matters (`clone_replay`). Three contents
  and the mangled one tell apart before, wanted and foreign. Two plans and
  sessions are the least for a plan of another session, two runs the least for
  a replay, one edit the least for drift. `clone_send` leaves the edit out: its
  properties are about what is known, which an edit does not change, and
  `clone_replay` has it. One client suffices for liveness: the try-lock refuses
  and never queues.
* *Application:* three threads, since the conflicts need an operation, a send
  and a third party; nine calls in any order reach connect, read, prepare,
  confirm, cancel, disconnect and connect again, six in the window's order an
  armed read, its cancellation and an edit or a save beside it. The methods of
  the radio touch no file, so the runs in any order start with empty files.
* *Frames:* five chunks and two writes, with a bound of five bytes and one note
  kept: enough for a preamble, a frame and an overrun split anywhere, an echo,
  and an echo whose note was dropped. The chunks are single bytes of each kind
  and the pieces that end one frame and begin the next.
* *Replies:* five requests, of three lengths: the two probes and three reads,
  the least for a leftover of one read to reach the second after it; a queue of
  two, so that it overflows; one retry, as the engine's drivers ask for.
* *Reception:* three blocks, the last two of equal length, so that a repeated
  block fits; candidates that fit once, twice, not at all. Every single fault at every
  byte, and every way to cut the bytes into chunks.
* *Files:* two processes, two keys, two saves begun and two failures: a lost
  update needs the first, a save after a failed one and a power cut after a
  failed directory sync the rest.
* *One channel:* one slot, since the drivers keep nothing between slots; two values
  a field, since gates compare for equality; four drivers: two frames, one frame
  with and without the display flag and the TX clarifier, and Icom's one record.

`CHECK_DEADLOCK FALSE` is set in every run: with the calls used up and all
operations returned, the system rightly stops.

### Fairness

`TransportEngine!FairSpec`: weak fairness of each caller's next step, of the
reader's steps, of timers (a deadline that has passed is noticed: Go's `select`
over a `time.Timer`) and of a radio that owes an answer. Nothing is assumed of
the unsolicited frames, which may go on for ever or stop. Reading what has
arrived is fair because the reader does nothing else; `Close` unblocks it
through the port.
`CloneService!FairSpec` (`clone_send`): weak fairness of each client's next step,
justified by the former: every exchange is bounded by the engine's timeouts, and journal
writes are file operations that return.
`CloneReception!Fairness`: the deadlines are Go timers and fire; each goroutine
that can run does; a read of a closed port returns; and the caller of `Receive`
closes the port once it is back (`app/clone.go:225-231`), without which a reader
blocked in `Read` would stay. Nothing is assumed of the radio.
`AppSession` and the other modules have no liveness property.

## 4. What is proved

For every value of the constants allowed by `EngineAssumption` (any set of
callers, any number of calls, any capacities), in `TransportEngineProofs`:

* `Invariance`: `Spec => []IInv`, where `IInv` is the conjunction of
  * `TypeOK`;
  * `LockInv`: whoever is past the Lock of `e.mu` is its holder, serves a
    call, and is about to retry only while attempts are left;
  * `TrustInv`: a caller that purges, sends or writes finds the stream
    uncontaminated; only the holder of `mu` sets `contaminated`, so this needs
    `LockInv` to be inductive;
  * `GateInv`: with a framing that has fatal frames, a write in progress holds
    `fatalGate`; the reader publishes while it holds the gate itself, so only
    between writes, and after the port has closed for good;
  * `SentInv`: calls are numbered apart, and at each place of `Do` the frames a
    call has sent are fixed by its attempt number;
  * `TruthInv`: which class of call can be at which place, and that a drain
    after a write holds back only a verdict on a frame that was sent.
* `TypeCorrect`, `SentAtMostOnce`, `FatalIsFinal` and `NoContaminatedWrite`
  follow: the properties `TypeOK`, `NeverResent`, `NoFrameAfterFatal` and
  `NoWriteWhileContaminated` of the runs. So does `MutualExclusion`
  (`OneExchangeAtATime`: past the Lock of `e.mu` there is one caller, its
  holder), which no run states because `ImplementsExchange` contains it: the
  exchange it implements has one caller inside at a time.

In `TransportEngineRefinement`: `Refinement`, `Spec => ImplementsExchange`, by
step simulation under the mapping at the end of `TransportEngine`, from `IInv`.

The argument of both, step by step: one lemma per action says which part of `IInv` it
touches; actions of the reader, of `Close` and of the radio leave the callers'
parts alone, and actions of a caller other than the holder of `mu` leave the
rest alone.

In `FileReplacementProofs`, for any number of processes, keys, saves and
failures under `FileAssumption` (a file has something in it, and no decision
looks like damage): `NeverTorn` and `DecisionsStay`, the properties `PathIsWhole`
and `DecisionKept` of `whole_or_nothing`, from an invariant `IInv` that adds

* `TaskInv`: a process that saves has a document with the decision it was given;
* `TempInv`: between sync and rename the temporary file has one content, the
  document, or damage if a settings write went wrong, which does not verify;
* `FreshInv`: the document of a process nobody has overtaken differs from the
  file in its own decision only, without which the last rename could undo others;
* `CorruptInv`: nobody saves over a file that cannot be read.

Whose reply a call is answered with is the subject of `TransportReplyProofs`,
under the same assumption. A reply is in one of four queues (`radio`, `wire`,
`chunk`, `events`), and `RInv`, which stands on `IInv`, says what these hold:

* `LineInv`, for a `Punctual` radio and no retry drain under way (`astray`,
  finding 1): between exchanges an engine that trusts its stream has nothing on
  its way that answers anybody; the same holds from the Lock to the write, but
  for what a purge has still to discard, which was in `events` when it began
  and is fewer frames than a purge may discard (`EventCap < PurgeBound`, as in
  the code); and while a call waits there is one reply at most, its own, in one
  of the four queues;
* `SignedInv`: whatever can pass for an answer was made for some call;
* `EndInv`: a read error is the last event, reported once the engine is closed;
* `OutcomeInv`, `FreeInv`: no verdict before the wait ends, no count of
  discarded frames before a drain begins.

From it follow `ReplyInvariance` (`Spec => [](IInv /\ RInv)`),
`NoReplyLeftBehind` (`AbandonedIsSuspect`), `OwnReplyOnly` (`ReplyIsOwn`) and
`ClosureTellsTheTruth` (`ClosureHidesNoReply`). The first two say nothing of a
radio that is not punctual, which no program could tell from one that answers:
that is in the statement of the properties, not an assumption of the proof. The
third holds of any radio.

In `CloneServiceProofs`, for any number of clients, slots, settings, files,
plans, runs and sessions under `CloneAssumption`, with every failure,
cancellation, edit, reconnection and crash of the model:

| Theorem | Property |
|---|---|
| `IInvHolds` | the invariant below |
| `TypeCorrect` | `TypeOK` |
| `NothingIsLost` | `OverwrittenIsSaved` |
| `JournalIsTrue` | `JournalNamesTheDoubt` |
| `ReportIsTrue` | `ReportNamesEveryWrite` |
| `CancelIsClean` | `CancelLeavesNoDoubt` |
| `OperatorStateIsReturned` | `OperatorStateReturned` |
| `OnlyWhatWasConfirmed` | `OnlyConfirmedChannels` |
| `NeverInAnotherSession` | `OnlyInItsSession` |

`IInv` relates five accounts of one send: the plan, the radio, the journal, the
report and the operator's state.

* `LockInv`: one operation at a time; nothing of the operator's is displaced
  when there is none.
* `PlanInv`: the snapshot beside a plan's journal is the plan's baseline. With
  `DriftInv` (a slot about to be written still is as the baseline has it, unless
  the operator edited it after it was read) this gives `NothingIsLost`.
* `JournalInv`, for every run there ever was: confirmed slots and changed slots
  are attempted ones, and at most one attempted slot is not confirmed. It
  survives a crash because no conjunct of it speaks of memory; a crash ends the
  run at any of the steps it describes, so it must hold at all of them.
* `OpInv`, `LoopInv`, `SessionInv`: which operation is at which label with which
  work left, and that the checks of generation and digest still stand.
* `AttemptInv`, `ReportInv`, `AnswerInv`: at each label, how far the journal, the
  report and the radio are apart, by one slot at most.
* `FaultInv`: an unexpected result is a fault. `SeamInv`: what a write may
  displace is held for the restore chain, or known to be lost.

In `CloneServiceRefinement`, under the same assumption: `LedgerRefinement`,
`Spec => ImplementsLedger`. `SendLedger` leaves out the try-lock, the reads,
the labels, the files and the operator's state. What remains of a send is its
record: `declared`, `settled` and `changed`, by run, are what the journals of
all plans say was attempted and confirmed and what the radio took; `order` is
what the caller was shown; `answer` and `report` appear in the step in which
`Execute` decides them and vanish when it returns. Declaring and writing are
possible only in the session of the plan and one slot at a time, and telling
requires that what is told agree with the record. A crash is `Die`: the record
stays. The mapping stands at the end of `CloneService`.

The theorems of `CloneServiceProofs` each look at one moment or one step; this
one says that nothing else happens: a step of any client, of the operator or of
the environment is one step of the ledger, or the ledger does not see it. An
abort that leaves the verification's own line behind, for example, is a single
`Settle` that also answers. The proof has a lemma for each action under a dozen
lemmas for the shapes a step can have (nobody sends; a send goes on unseen;
something is declared, settled or told). It needs more than `IInv`:

* `RecordInv`: while `Execute` runs it has answered nothing, and its report
  counts as verified *exactly* the slots its journal confirms. `IInv` has the
  inclusion that `ReportIsTrue` needs; the ledger's `done` (what is settled is
  what was ordered and what is reported) needs equality. It ends where an abort
  begins: a confirmation whose line could not be persisted is reported and may
  not be on record;
* `runs =< MaxRuns`, since the ledger numbers its runs.

`LedgerInvHolds` (`Spec => []LedgerInv`) is proved together with the refinement,
since a step's place in the ledger tells what it does to the record.

In `AppSessionProofs`, for any number of threads, files, sessions and calls,
under `DialoguesKept`:

| Theorem | Property |
|---|---|
| `IInvHolds` | the invariant below |
| `TypeCorrect` | `TypeOK` |
| `SessionStaysOpen` | `SessionOpenWhileUsed` |
| `TrafficIsKeptApart` | `TrafficNeverMixes` |
| `SendStaysReachable` | `SendIsReachable` |
| `PlanIsOfThisSession` | `PlanOfThisSession` |
| `NothingStaysReserved` | `NothingLeaked` |
| `ReservationIsHeld` | `ReservationHeld` |
| `StaleBaselineIsMarked` | `StaleIsMarked` |
| `NoEditIsSwallowed` | `NoEditSwallowed` |
| `SaveTellsTheTruth` | `SaveClearsHonestly` |

`DialoguesKept` says that in the runs without the window's order no clone-mode
method and no save is called. It is a hypothesis because the theorems are false
without it, for two reasons of section 5 (`app/clone.go:192` and finding 3): the
methods alone do not guarantee what the dialogues do. In the window's order
nothing is assumed, and the methods of the radio may come in any order.

* `LockInv`, `LabelInv`: App.opBusy has one holder, determined by where the calls
  are, and carries its name; a call cancelled by another holds nothing.
* `CloneInv`, `PortInv`: what the armed read is in state for, and that an open
  port has somebody who will close it.
* `SessionInv`, `SendInv`, `ServiceInv`: an operation, a plan and a send work on
  the open session; `transfer` is one send's, or that of a call about to start
  it; who holds the Service's try-lock.
* `CopyInv`, `StaleInv`: what a save and a read took with them is the working
  copy unless its revision has moved on; a baseline that a send outdates is
  marked, or the send's last section is still to come.

In `ChannelWriteProofs`, for every model among the four, profile and decision on
consent: `ChannelInvariance`, and from it `WrittenAsAsked` (`WrittenIsAsked`),
`StepsAreTrue` (`StepsTellTheWire`), `PlannedGoesThrough` (`PlannedIsWritable`) and
`ChannelTypeCorrect`. They are proved of `AnySpec`, which starts from every
content of the slot (nothing but a tone, or what no channel shows, outside its
vocabulary) and every channel of the file; `SpecIsAny` says that the runs'
`ChannelSpec`, with its one or two edited fields, is an instance. The runs are
thus the sample and the theorems the whole input space. `IInv`:

* `GradeInv`: a session grades all that a record expresses alike, but for what
  the FT-710 ignores, the rest as unsupported, and nothing can erase;
* `PhaseInv`: past the plan the channel satisfies the plan's gates (`Planned`),
  past the driver's refusals its gates too (`Accepted`), and what a record would
  not preserve was found preservable (`Keepable`). `GatesAgree`, `AskedIsReached`
  and `InertIsThere` are what these gates guarantee together;
* `FrameInv`, `StepInv`: the frames are the record built over the right template;
  each frame tried has the step its fate calls for, and only the last was refused;
* `RadioInv`: with every frame so far stored, the slot is field by field what
  those frames hold, or what it held.

Each inductive invariant was first checked by TLC, as an invariant beside those
of the runs, on the same constants: `RInv` on `engine_calls` and `engine_ends`,
the clone service's `IInv` on `clone_send` and `clone_replay`, `LedgerInv` on
`clone_send`, the application's on
`app_calls`, the channel's on the whole of `ChannelSpec`, without a violation.

Only model-checked:

* all liveness (`CallsReturn`, `CloseJoins`, `ServiceBecomesFree`,
  `ReceptionEnds`): fairness and `ENABLED` are beyond the prover;
* `FramesOfStream`, `AnswerIsTheReply`, `ImageIsWhole`: what a recursive cut of a
  byte stream or a fold over chunks computes for every input is induction over
  data;
* `AllTypesOK`, of which the files' and the channel's parts are proved.

## 5. Findings

Each is a run that TLC finds violated; the quoted line is in `PROJECT.json`.

1. `engine_stale`, `core/transport/engine.go:676`: the drain between two
   attempts of a read returns an error without marking the stream suspect,
   though the first attempt was transmitted. The next call may take its answer.
   On a binary link it takes it whatever its length, since
   `bincat.ExactLengthMatcher` accepts any frame and the old length is at the
   front of the queue: without `~astray`, `AnswerIsTheReply` fails in
   `BinaryReplies` on this path (`GivenUp`, then `Ask`) with a perfect line.
   `core/bincat/matcher.go:16-18` says there is nothing "that could deliver an
   unrelated frame".
2. `clone_settings`, `core/clone/plan.go:117`: the confirmation digest does not
   cover the plan's settings; a plan confirmed for one file can be replaced by
   one that writes other settings.
3. `app_overlap`, `app/fileio.go:52`: a read or load that concludes while a save
   is writing leaves a clean working copy bound to a file with other content.
4. `app_pair`, `app/send.go:167`: the ten-second deadline of a write and its
   read-back is reported as the user's cancellation.

5. `bincat_retry`, `core/bincat/framing.go:180`: when a reply loses a byte, the
   bytes that did arrive stay in the accumulator, and a retried read returns
   bytes of two transmissions as one reply of the right length.
6. `channel_gate`, `core/driver/internal/icom/write.go:199`: the Icom driver's gate
   counts a shift, CTCSS state or clarifier flag that the plan's gate drops, and
   refuses in the middle of a send what the plan let through.

The models show more that no run states:

* `core/clone/doc.go:226-230` calls a candidate's `Menus` inert to `PrepareSend`
  and `Execute`; the code reads and writes the settings it names (`ReadItem`,
  `WriteSetting`).
* `app/clone.go:192`: overlapping `CancelCloneRead` and `ReceiveCloneImage`
  release the reservation twice, the second time perhaps another call's. With
  `UIOrder` FALSE `ReservationHeld` fails; the window does not offer that order.
* `app/codeplug.go:68`: a read begun just before a send enters the service may
  conclude after it and declare its baseline current. With `UIOrder` FALSE
  `StaleIsMarked` fails; the window disables the button, the method does not
  refuse. `StaleIsMarked` is therefore stated for the window's order.
* The TX clarifier of an FT-891 passes `Validate` and `Diff`, which know one
  field for its three parts; the driver refuses it (`core/driver/ft891/params.go:40`,
  `core/driver/internal/yaesu/write.go:271`) and the send ends there. A value
  without a state in a field the radio has not is refused by the driver alone as
  well. `PlannedIsWritable` names both exceptions.
* The table of conditional fields in `core/driver/internal/icom/write.go` omits
  the receiver fields, against its own comment; `Validate` and `Diff` refuse
  them first, so nothing is lost.
* `core/clonewire/profile.go:149-151` promises that a misread checksum is "never a
  silently-accepted wrong image". With two faults, a block repeated and the
  last one missing, an image whose last two blocks have equal length passes: no
  block number is compared. `ImageIsWhole` is checked for one fault.
* The comment at `internal/userconfig/userconfig.go:190` says a lost update can
  at worst mean one session with the previous decision; the decision is lost for
  every session until the user answers again.

## 6. Mutants

Each property of a passing run has a mutant: a definition of the model, replaced
by a plausible mistake in the code it stands for, written just before it and
marked `Mutant`. TLC finds the property violated under it. `PROJECT.json` pairs
them.

## 7. Assumptions and what is not modelled

Taken on trust by a model, and true of the code only as far as it goes:

* the 8-bit checksum of a clone-mode block tells every slice that is not a block
  from one that is;
* the window after the last block outlasts any pause of the radio inside its
  transfer, so that a byte too many is seen;
* a drain of a binary link that runs to its end outlasts a late answer
  (`BinaryReplies`), as the engine's quiet time is chosen to do; that a drain
  runs is not assumed, it follows from `suspect` as in the code; the engine's own models do not assume it
  except under `Punctual`;
* a file that was synced is stored, and a rename is atomic.

Not modelled: formatting and parsing of frames, records, CSV and JSON (golden
tests pin them); the tables of some forty radios; the EX menu tables; the
simulators; the GUI beyond the order of calls; progress numbers and wording. Of
the repository's lines these are by far the most (the ten longest sources are
tables, test doubles, parsers and wording): they have no states to explore, and
a model of them would be a copy. Of the parts that are modelled:

* clone service: a session that cannot write settings; the rules of `Validate`
  one by one (`ChannelWrite` has those of one channel);
* application: dialogs, event payloads, `ExportCSV`, `OnBeforeClose`;
* codecs: the matchers and parsers behind the accumulators; writes on a binary
  link, which are never answered;
* drivers: `Open` except the FT-890's probe, settings, the families with a
  choreography of their own besides the FT-710's (among them Kenwood's, and the
  FT-890's, whose limits on tone and offset its documentation states);
* files: locations and permissions, symbolic links, the directory entry of a
  journal.

A crash in `CloneService` loses memory and keeps what was synced; directory
entries of its journals that were never synced are in the list of hazards.

## 8. Plan and what is left

Done, and described above:

1. Engine with proofs and refinement; clone service; application session.
2. `FrameAccumulators` and `BinaryReplies` behind the engine's framing.
3. `CloneReception`.
4. `FileReplacement`, with proofs.
5. `ChannelWrite`: `Validate`, `Diff`, consent and the write choreography of the
   Yaesu and Icom drivers for one channel, with proofs.
6. The proofs of the engine's replies, the clone service and the application.
7. `SendLedger`, with `CloneService` as its implementation, proved.

Left:

* the settings' part of a send in the ledger: its journal lines and verification
  are in `CloneService`, no abstract promise is stated of them, and their write
  has no re-read for drift in the code (a hazard no property covers);
* the directory entry of a journal, which the code never syncs;
* proofs of `FramesOfStream`, `AnswerIsTheReply` and `ImageIsWhole` for streams
  of any length, which need induction over data.
