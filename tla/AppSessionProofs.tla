--------------------------- MODULE AppSessionProofs ---------------------------
(***************************************************************************)
(* For any number of goroutines, files, sessions and calls: no session is  *)
(* closed under an operation, a plan and a send belong to the session that *)
(* is open, what is reserved is released once and by its holder, no edit   *)
(* is swallowed and no mark on the working copy lies.                      *)
(***************************************************************************)
EXTENDS AppSession, TLAPS

(* The window's dialogues decide when clone mode and a save may be asked   *)
(* for; what is said of them is said of calls that come through it.        *)
DialoguesKept ==
  FALSE \in UIOrders => Methods[FALSE] \cap (CloneMethods \cup {"SaveFile"}) = {}

Arming == {"arming", "listening", "abandon"}

(* What a call at each label is a call of.                                 *)
LabelInv(t) ==
  LET op == local[t].op
  IN /\ InUse(t) => op \in RadioMethods
     /\ op \in RadioMethods => InUse(t) \/ pc[t] = "release"
     /\ pc[t] = "service" => op # "WriteSetting"
     /\ pc[t] \in Arming => op = "ArmCloneRead"
     /\ pc[t] \in {"receiving", "received", "unarm"} => op = "ReceiveCloneImage"
     /\ pc[t] = "unport" => op \in {"CancelCloneRead", "ReceiveCloneImage"}
     /\ pc[t] \in Arming \cup {"receiving", "received", "unarm", "unport"} =>
          local[t].cs \in DOMAIN arms /\ uiOrder
     /\ pc[t] \in {"saving", "saved"} => op = "SaveFile" /\ uiOrder
     /\ pc[t] \in {"saving", "saved", "loading", "loaded"} => local[t].path \in Paths
     /\ pc[t] # "panicked"

(* Who is to release App.opBusy, and under which name.                     *)
ArmHolds(t) == pc[t] \in Arming /\ ~arms[local[t].cs].cancelled
Holds(t)    == InUse(t) \/ pc[t] = "release" \/ ArmHolds(t) \/ Receiving(t)
Name(t)     == IF local[t].op \in RadioMethods THEN local[t].op ELSE "ArmCloneRead"

LockInv ==
  /\ \A t, u \in Threads : Holds(t) /\ Holds(u) => t = u
  /\ \A t \in Threads : Holds(t) => opBusy = Name(t)
  /\ cloneState # 0 => opBusy = "ArmCloneRead"
  /\ opBusy # NoOp => cloneState # 0 \/ \E t \in Threads : Holds(t)

(* The clone-mode read that is current, and the calls that serve it.       *)
Serves(t) ==
  /\ ArmHolds(t) => local[t].cs = cloneState
  /\ Receiving(t) /\ local[t].op = "ReceiveCloneImage" => local[t].cs = cloneState
  /\ pc[t] = "release" => cloneState = 0
  /\ pc[t] = "unport" /\ local[t].op = "CancelCloneRead" => cloneState = 0
  /\ pc[t] \in Arming => ~arms[local[t].cs].reception
  /\ pc[t] \in {"arming", "abandon", "unarm"} => arms[local[t].cs].port # "open"

CloneInv ==
  /\ cloneState # 0 => ~arms[cloneState].cancelled
  /\ \A t \in Threads : Serves(t)
  /\ \A t, u \in Threads :
       pc[t] \in Arming /\ pc[u] \in Arming /\ local[t].cs = local[u].cs => t = u

(* A call that closes port i is on its way.                                *)
Closes(t, i) ==
  /\ pc[t] = "unport" /\ local[t].cs = i
  /\ local[t].op = "CancelCloneRead" => local[t].port # "none"

PortInv ==
  \A i \in DOMAIN arms : arms[i].port = "open" =>
    i = cloneState \/ \E t \in Threads : Closes(t, i)

(* What is done with a session is done with the one that is open.          *)
SessionInv ==
  /\ conn \notin closed
  /\ currentPlan # 0 => currentPlan = conn
  /\ \A t \in Threads :
       /\ InUse(t) => local[t].conn = conn /\ conn # 0
       /\ pc[t] = "closing" => local[t].conn # conn /\ local[t].conn # 0
       /\ pc[t] = "confirm" /\ local[t].conn # 0 => local[t].conn = conn
       /\ pc[t] = "confirm" => local[t].seen \in 0 .. sessions
       /\ send[t].at # "none" => send[t].conn = conn /\ conn # 0

(* App.transfer stands for one send, or for the call about to start it.    *)
SendInv ==
  /\ \A t \in Threads :
       /\ send[t].at # "none" => transfer = [running |-> TRUE, cancel |-> t]
       /\ pc[t] = "confirm" =>
            /\ transfer.running
            /\ \A u \in Threads : send[u].at = "none" /\ (pc[u] = "confirm" => u = t)
  /\ transfer.running => \E t \in Threads : send[t].at # "none" \/ pc[t] = "confirm"

(* The try-lock of the Service is held by a read or by a send.             *)
Serving(t) == OnWire(t) /\ local[t].op # "WriteSetting"
ServiceInv ==
  \A u \in Threads :
    /\ send[u].at = "executing" =>
         /\ send[u].conn \in svcBusy
         /\ \A t \in Threads : Serving(t) => local[t].conn # send[u].conn
    /\ Serving(u) => local[u].conn \in svcBusy

(* What a read and a save took away with them is the working copy as it    *)
(* is, or as its revision says it was.                                     *)
Saving(t) == pc[t] \in {"saving", "saved"}
CopyInv ==
  /\ \A t \in Threads :
       /\ InUse(t) /\ local[t].op = "ReadRadio" => local[t].seen = working
       /\ pc[t] \in {"receiving", "received"} => local[t].seen = working
       /\ Saving(t) => local[t].rev =< workingRev
       /\ Saving(t) /\ local[t].rev = workingRev => local[t].seen = working
       /\ pc[t] = "saved" => files[local[t].path] = local[t].seen
  /\ \A t, u \in Threads : Saving(t) /\ Saving(u) => t = u

(* In the window's order, a send and a read of the radio exclude each      *)
(* other, and a baseline that a send outdates is marked, or about to be.   *)
Marking(t) == send[t].at = "ended" /\ send[t].cause \in Reporting
StaleInv ==
  uiOrder =>
    /\ \A t \in Threads : InUse(t) /\ local[t].op = "ReadRadio" =>
         /\ \A u \in Threads : send[u].at = "none" /\ pc[u] # "confirm"
         /\ pc[t] = "finish" => local[t].epoch = sent
    /\ baseline < sent => baselineStale \/ \E t \in Threads : Marking(t)

IInv ==
  /\ TypeOK /\ (\A t \in Threads : LabelInv(t)) /\ LockInv /\ CloneInv /\ PortInv
  /\ SessionInv /\ SendInv /\ ServiceInv /\ CopyInv /\ StaleInv

-----------------------------------------------------------------------------
(* Steps of calls.                                                         *)

(* What a step of thread t does to the calls.                              *)
Moves(t, label, l) ==
  /\ pc' = [pc EXCEPT ![t] = label]
  /\ local' = [local EXCEPT ![t] = l]

(* What no step takes back: sessions, arms and sends that there have been. *)
Grows ==
  /\ uiOrder' = uiOrder
  /\ sessions' \in Nat /\ sessions =< sessions'
  /\ sent' \in Nat /\ sent =< sent'
  /\ arms' \in Seq(Arms) /\ Len(arms) =< Len(arms')

LEMMA MoveFacts ==
  ASSUME TypeOK, NEW t \in Threads, NEW label, NEW l, Moves(t, label, l)
  PROVE  pc'[t] = label /\ local'[t] = l
         /\ \A u \in Threads : u # t => pc'[u] = pc[u] /\ local'[u] = local[u]
BY DEF TypeOK, Moves

LEMMA MoveTyped ==
  ASSUME TypeOK, NEW t \in Threads, NEW label \in Labels, NEW l \in Locals,
         Moves(t, label, l), Grows,
         /\ l.op \in Methods[uiOrder] \cup {"none"}
         /\ l.conn \in 0 .. sessions' /\ l.cs \in 0 .. Len(arms') /\ l.epoch \in 0 .. sent'
  PROVE  /\ pc' \in [Threads -> Labels] /\ local' \in [Threads -> Locals]
         /\ \A u \in Threads : InRange(local[u])'
<1>1. pc' \in [Threads -> Labels] /\ local' \in [Threads -> Locals]
  BY DEF TypeOK, Moves
<1>2. ASSUME NEW u \in Threads
      PROVE  InRange(local[u])'
  <2>1. InRange(local[u])
    BY DEF TypeOK
  <2>2. sessions \in Nat /\ sent \in Nat /\ Len(arms) \in Nat /\ Len(arms') \in Nat
    BY DEF TypeOK, Grows
  <2>3. CASE u = t
    <3>1. local'[u] = l
      BY <2>3, MoveFacts
    <3> QED
      BY <3>1 DEF InRange, Grows
  <2>4. CASE u # t
    <3>1. local'[u] = local[u]
      BY <2>4, MoveFacts
    <3>2. /\ local[u].conn \in 0 .. sessions' /\ local[u].epoch \in 0 .. sent'
          /\ local[u].op \in Methods[uiOrder'] \cup {"none"}
      BY <2>1, <2>2 DEF InRange, Grows
    <3>3. local[u].cs \in 0 .. Len(arms')
      BY <2>1, <2>2 DEF InRange, Grows
    <3> QED
      BY <3>1, <3>2, <3>3 DEF InRange
  <2> QED
    BY <2>3, <2>4
<1> QED
  BY <1>1, <1>2

LEMMA CallMoves ==
  ASSUME NEW t \in Threads, NEW method, NEW label, NEW l, Call(t, method, label, l)
  PROVE  /\ pc[t] = "idle" /\ method \in Methods[uiOrder]
         /\ Moves(t, label, [l EXCEPT !.op = method])
BY DEF Call, Moves

LEMMA GotoMoves ==
  ASSUME TypeOK, NEW t \in Threads, NEW label, Goto(t, label)
  PROVE  Moves(t, label, IF label = "idle" THEN NoLocal ELSE local[t])
BY DEF TypeOK, Goto, Moves
-----------------------------------------------------------------------------
(* What a step that goes on, or a call that begins, does to its thread.    *)

LEMMA IdleTyped ==
  ASSUME TypeOK, NEW t \in Threads, Moves(t, "idle", NoLocal), Grows
  PROVE  /\ pc' \in [Threads -> Labels] /\ local' \in [Threads -> Locals]
         /\ \A u \in Threads : InRange(local[u])'
<1>1. "idle" \in Labels /\ NoLocal \in Locals
  BY DEF Labels, NoLocal, Locals, NoPath, Nothing, Ports
<1>2. /\ NoLocal.op \in Methods[uiOrder] \cup {"none"}
      /\ NoLocal.conn \in 0 .. sessions' /\ NoLocal.cs \in 0 .. Len(arms')
      /\ NoLocal.epoch \in 0 .. sent'
  BY DEF NoLocal, Grows
<1> QED
  BY <1>1, <1>2, MoveTyped

LEMMA GotoFacts ==
  ASSUME TypeOK, NEW t \in Threads, NEW label, Goto(t, label)
  PROVE  /\ pc'[t] = label
         /\ local'[t] = IF label = "idle" THEN NoLocal ELSE local[t]
         /\ \A u \in Threads : u # t => pc'[u] = pc[u] /\ local'[u] = local[u]
         /\ calls' = calls
<1>1. Moves(t, label, IF label = "idle" THEN NoLocal ELSE local[t])
  BY GotoMoves
<1> QED
  BY <1>1, MoveFacts DEF Goto

LEMMA GotoTyped ==
  ASSUME TypeOK, NEW t \in Threads, NEW label \in Labels, Goto(t, label), Grows
  PROVE  /\ pc' \in [Threads -> Labels] /\ local' \in [Threads -> Locals]
         /\ \A u \in Threads : InRange(local[u])'
<1>1. CASE label = "idle"
  BY <1>1, GotoMoves, IdleTyped
<1>2. CASE label # "idle"
  <2>1. Moves(t, label, local[t])
    BY <1>2, GotoMoves
  <2>2. local[t] \in Locals /\ InRange(local[t]) /\ Len(arms) \in Nat /\ Len(arms') \in Nat
    BY DEF TypeOK, Grows
  <2>3. /\ local[t].op \in Methods[uiOrder] \cup {"none"}
        /\ local[t].conn \in 0 .. sessions' /\ local[t].cs \in 0 .. Len(arms')
        /\ local[t].epoch \in 0 .. sent'
    BY <2>2 DEF TypeOK, InRange, Grows
  <2> QED
    BY <2>1, <2>2, <2>3, MoveTyped
<1> QED
  BY <1>1, <1>2

LEMMA CallFacts ==
  ASSUME TypeOK, NEW t \in Threads, NEW method, NEW label, NEW l \in Locals,
         Call(t, method, label, l)
  PROVE  /\ pc[t] = "idle" /\ pc'[t] = label /\ method \in Methods[uiOrder]
         /\ local'[t].op = method /\ local'[t].conn = l.conn /\ local'[t].seen = l.seen
         /\ local'[t].rev = l.rev /\ local'[t].path = l.path /\ local'[t].cs = l.cs
         /\ local'[t].port = l.port /\ local'[t].epoch = l.epoch
         /\ \A u \in Threads : u # t => pc'[u] = pc[u] /\ local'[u] = local[u]
<1>1. /\ pc[t] = "idle" /\ method \in Methods[uiOrder]
      /\ Moves(t, label, [l EXCEPT !.op = method])
  BY CallMoves
<1>2. /\ pc'[t] = label /\ local'[t] = [l EXCEPT !.op = method]
      /\ \A u \in Threads : u # t => pc'[u] = pc[u] /\ local'[u] = local[u]
  BY <1>1, MoveFacts
<1> QED
  BY <1>1, <1>2 DEF Locals

LEMMA CallTyped ==
  ASSUME TypeOK, NEW t \in Threads, NEW method \in AllMethods, NEW label \in Labels,
         NEW l \in Locals, Call(t, method, label, l), Grows,
         l.conn \in 0 .. sessions', l.cs \in 0 .. Len(arms'), l.epoch \in 0 .. sent'
  PROVE  /\ pc' \in [Threads -> Labels] /\ local' \in [Threads -> Locals]
         /\ \A u \in Threads : InRange(local[u])'
         /\ calls' \in Nat
<1> DEFINE m == [l EXCEPT !.op = method]
<1>1. method \in Methods[uiOrder] /\ Moves(t, label, m)
  BY CallMoves
<1>2. /\ m \in Locals
      /\ m.op = method /\ m.conn = l.conn /\ m.cs = l.cs /\ m.epoch = l.epoch
  BY DEF Locals
<1>3. calls' \in Nat
  BY DEF Call, TypeOK
<1> HIDE DEF m
<1> QED
  BY <1>1, <1>2, <1>3, MoveTyped

LEMMA NoLocalTyped ==
  /\ NoLocal \in Locals
  /\ NoLocal.op = "none" /\ NoLocal.conn = 0 /\ NoLocal.seen = 0 /\ NoLocal.rev = 0
  /\ NoLocal.path = NoPath /\ NoLocal.cs = 0 /\ NoLocal.port = "none" /\ NoLocal.epoch = 0
BY DEF NoLocal, Locals, NoPath, Nothing, Ports

(* Clone mode and a save are asked for through the window only.            *)
LEMMA OnlyInWindow ==
  ASSUME DialoguesKept, TypeOK, NEW method \in CloneMethods \cup {"SaveFile"},
         method \in Methods[uiOrder]
  PROVE  uiOrder
<1>1. uiOrder \in UIOrders /\ uiOrder \in BOOLEAN
  BY AppAssumption DEF TypeOK
<1> QED
  BY <1>1 DEF DialoguesKept

-----------------------------------------------------------------------------
(* Frames: parts of the invariant a step leaves alone.                     *)

SessionLabels == {"service", "wire", "finish", "closing", "confirm"}
CloneLabels   == {"arming", "listening", "abandon", "receiving", "received", "unport",
                  "unarm"}
HoldLabels    == {"service", "wire", "finish", "release", "arming", "listening", "abandon",
                  "receiving", "received", "unport", "unarm", "panicked"}
CopyLabels    == {"service", "wire", "finish", "receiving", "received", "saving", "saved"}
ReadLabels    == {"service", "wire", "finish", "confirm"}

Apart(t, labels) ==
  /\ pc[t] \notin labels /\ pc'[t] \notin labels
  /\ \A u \in Threads : u # t => pc'[u] = pc[u] /\ local'[u] = local[u]

LEMMA LockFrame ==
  ASSUME LockInv, NEW t \in Threads, Apart(t, HoldLabels), UNCHANGED <<opBusy, cloneVars>>
  PROVE  LockInv'
BY DEF LockInv, Apart, HoldLabels, Holds, InUse, Arming, ArmHolds, Receiving, Name,
   cloneVars

LEMMA CloneFrame ==
  ASSUME CloneInv, PortInv, NEW t \in Threads, Apart(t, CloneLabels),
         UNCHANGED cloneVars, pc'[t] = "release" => cloneState = 0,
         pc'[t] # "panicked"
  PROVE  CloneInv' /\ PortInv'
<1>1. CloneInv'
  BY DEF CloneInv, Serves, Apart, CloneLabels, ArmHolds, Arming, Receiving, cloneVars
<1>2. PortInv'
  BY DEF PortInv, Apart, CloneLabels, Closes, cloneVars
<1> QED
  BY <1>1, <1>2

LEMMA SessionFrame ==
  ASSUME SessionInv, SendInv, ServiceInv, NEW t \in Threads, Apart(t, SessionLabels),
         UNCHANGED <<connVars, svcBusy, currentPlan, transfer, sendVars>>
  PROVE  SessionInv' /\ SendInv' /\ ServiceInv'
<1>1. SessionInv'
  BY DEF SessionInv, Apart, SessionLabels, InUse, connVars, sendVars
<1>2. SendInv'
  BY DEF SendInv, Apart, SessionLabels, sendVars
<1>3. ServiceInv'
  BY DEF ServiceInv, Apart, SessionLabels, Serving, OnWire, sendVars
<1> QED
  BY <1>1, <1>2, <1>3

LEMMA SendFrame ==
  ASSUME SendInv, ServiceInv, NEW t \in Threads, Apart(t, {"wire", "confirm"}),
         UNCHANGED <<svcBusy, transfer, sendVars>>
  PROVE  SendInv' /\ ServiceInv'
<1>1. SendInv'
  BY DEF SendInv, Apart, sendVars
<1>2. ServiceInv'
  BY DEF ServiceInv, Apart, Serving, OnWire, sendVars
<1> QED
  BY <1>1, <1>2

LEMMA CopyFrame ==
  ASSUME CopyInv, NEW t \in Threads, Apart(t, CopyLabels),
         UNCHANGED <<working, workingRev, files>>
  PROVE  CopyInv'
BY DEF CopyInv, Apart, CopyLabels, InUse, Saving

LEMMA StaleFrame ==
  ASSUME StaleInv, NEW t \in Threads, Apart(t, ReadLabels),
         UNCHANGED <<uiOrder, baseline, baselineStale, sendVars>>
  PROVE  StaleInv'
BY DEF StaleInv, Apart, ReadLabels, InUse, Marking, sendVars
-----------------------------------------------------------------------------
(* What the reservations and the numbers say.                              *)

LEMMA Numbers ==
  ASSUME TypeOK
  PROVE  /\ sessions \in Nat /\ conn \in Nat /\ conn =< sessions /\ currentPlan \in Nat
         /\ currentPlan =< sessions /\ working \in Nat /\ workingRev \in Nat /\ sent \in Nat
         /\ Len(arms) \in Nat /\ cloneState \in Nat /\ cloneState =< Len(arms)
         /\ \A u \in Threads :
              /\ local[u] \in Locals /\ InRange(local[u])
              /\ local[u].conn \in Nat /\ local[u].conn =< sessions /\ local[u].rev \in Nat
<1>1. /\ sessions \in Nat /\ conn \in Nat /\ conn =< sessions /\ currentPlan \in Nat
      /\ currentPlan =< sessions /\ working \in Nat /\ workingRev \in Nat /\ sent \in Nat
  BY DEF TypeOK
<1>2. Len(arms) \in Nat /\ cloneState \in Nat /\ cloneState =< Len(arms)
  BY DEF TypeOK
<1>3. \A u \in Threads : local[u] \in Locals /\ InRange(local[u])
  BY DEF TypeOK
<1>4. \A u \in Threads : local[u].conn \in Nat /\ local[u].conn =< sessions
  BY <1>1, <1>3 DEF InRange
<1>5. \A u \in Threads : local[u].rev \in Nat
  BY <1>3 DEF Locals
<1> QED
  BY <1>1, <1>2, <1>3, <1>4, <1>5

LEMMA NoOpIsNoName == NoOp \notin Names
BY Zenon DEF NoOp, Names, RadioMethods

LEMMA FreeOfHolders ==
  ASSUME IInv, opBusy = NoOp
  PROVE  cloneState = 0 /\ \A u \in Threads : ~Holds(u)
<1>1. \A u \in Threads : Name(u) \in Names
  BY DEF Name, Names
<1>2. "ArmCloneRead" \in Names
  BY DEF Names
<1> QED
  BY <1>1, <1>2, NoOpIsNoName DEF IInv, LockInv

LEMMA FreeOfSends ==
  ASSUME IInv, ~transfer.running
  PROVE  \A u \in Threads : send[u].at = "none" /\ pc[u] # "confirm"
BY DEF IInv, SendInv

LEMMA ArmTyped ==
  ASSUME TypeOK, NEW i \in DOMAIN arms
  PROVE  arms[i] \in Arms /\ arms[i].port \in Ports
<1>1. arms[i] \in Arms
  BY DEF TypeOK
<1> QED
  BY <1>1 DEF Arms

LEMMA CurrentArmTyped ==
  ASSUME TypeOK, cloneState # 0
  PROVE  cloneState \in DOMAIN arms /\ arms[cloneState].port \in Ports
<1>1. cloneState \in DOMAIN arms
  BY DEF TypeOK
<1> QED
  BY <1>1, ArmTyped

-----------------------------------------------------------------------------
(* Connection steps.                                                       *)

LEMMA ConnectKeeps ==
  ASSUME IInv, NEW t \in Threads, Connect(t), UNCHANGED uiOrder
  PROVE  IInv'
<1>1. /\ TypeOK
      /\ Call(t, "Connect", "opening", NoLocal)
  BY DEF IInv, Connect
<1>2. /\ pc[t] = "idle" /\ pc'[t] = "opening" /\ local'[t].op = "Connect"
      /\ local'[t].conn = 0 /\ local'[t].seen = 0 /\ local'[t].rev = 0
      /\ local'[t].path = NoPath /\ local'[t].cs = 0 /\ local'[t].port = "none"
      /\ local'[t].epoch = 0
      /\ \A u \in Threads : u # t => pc'[u] = pc[u] /\ local'[u] = local[u]
  BY <1>1, NoLocalTyped, CallFacts
<1>3. /\ UNCHANGED <<connVars, svcBusy, busyVars, currentPlan, copyVars, files,
         cloneVars, sendVars>>
  BY DEF Connect
<1>4. TypeOK'
  <2>1. Grows
    BY <1>1, <1>3 DEF TypeOK, Grows, cloneVars, sendVars, connVars
  <2>2. /\ pc' \in [Threads -> Labels] /\ local' \in [Threads -> Locals]
        /\ \A u \in Threads : InRange(local[u])'
        /\ calls' \in Nat
    <3>1. /\ NoLocal.conn \in 0 .. sessions' /\ NoLocal.cs \in 0 .. Len(arms')
          /\ NoLocal.epoch \in 0 .. sent'
      BY <1>1, <1>3, <2>1, NoLocalTyped DEF TypeOK, Grows
    <3>2. "Connect" \in AllMethods /\ "opening" \in Labels
      BY DEF AllMethods, Labels, RadioMethods, CloneMethods, FileMethods, SendMethods
    <3> QED
      BY <1>1, NoLocalTyped, <2>1, <3>1, <3>2, CallTyped
  <2> QED
    BY <1>1, <1>3, <2>1, <2>2 DEF TypeOK, Grows, busyVars, copyVars, cloneVars, sendVars,
       connVars
<1>5. \A u \in Threads : LabelInv(u)'
  BY <1>1, <1>2, <1>3 DEF IInv, LabelInv, InUse, Arming, cloneVars, RadioMethods
<1>6. LockInv'
  BY <1>1, <1>2, <1>3, LockFrame DEF IInv, Apart, HoldLabels, busyVars
<1>7. CloneInv' /\ PortInv'
  BY <1>1, <1>2, <1>3, CloneFrame DEF IInv, Apart, CloneLabels
<1>8. SessionInv' /\ SendInv' /\ ServiceInv'
  BY <1>1, <1>2, <1>3, SessionFrame DEF IInv, Apart, SessionLabels, busyVars
<1>9. CopyInv'
  BY <1>1, <1>2, <1>3, CopyFrame DEF IInv, Apart, CopyLabels, copyVars
<1>10. StaleInv'
  BY <1>1, <1>2, <1>3, StaleFrame DEF IInv, Apart, ReadLabels, copyVars
<1> QED
  BY <1>4, <1>5, <1>6, <1>7, <1>8, <1>9, <1>10 DEF IInv

LEMMA ConnectEndsKeeps ==
  ASSUME IInv, NEW t \in Threads, ConnectEnds(t), UNCHANGED uiOrder
  PROVE  IInv'
<1>1. /\ TypeOK /\ pc[t] = "opening"
      /\ Goto(t, "idle")
  BY DEF IInv, ConnectEnds
<1>2. /\ pc'[t] = "idle" /\ local'[t] = NoLocal
      /\ \A u \in Threads : u # t => pc'[u] = pc[u] /\ local'[u] = local[u]
      /\ calls' = calls
  BY <1>1, GotoFacts
<1>3. /\ UNCHANGED <<closed, svcBusy, busyVars, currentPlan, copyVars, files,
         cloneVars, sendVars>>
      /\ \/ conn = 0 /\ sessions' = sessions + 1 /\ conn' = sessions + 1
         \/ UNCHANGED <<sessions, conn>>
  BY DEF ConnectEnds
<1>4. closed \subseteq 1 .. sessions
  BY <1>1 DEF TypeOK
<1>5. TypeOK'
  <2>1. Grows
    BY <1>1, <1>3 DEF TypeOK, Grows, cloneVars, sendVars
  <2>2. /\ pc' \in [Threads -> Labels] /\ local' \in [Threads -> Locals]
        /\ \A u \in Threads : InRange(local[u])'
    BY <1>1, <2>1, GotoTyped DEF Labels
  <2> QED
    BY <1>1, <1>3, <1>2, <2>1, <2>2 DEF TypeOK, Grows, busyVars, copyVars, cloneVars,
       sendVars
<1>6. \A u \in Threads : LabelInv(u)'
  BY <1>1, <1>4, <1>2, <1>3 DEF IInv, LabelInv, InUse, Arming, cloneVars, RadioMethods,
     NoLocal
<1>7. LockInv'
  BY <1>1, <1>2, <1>3, LockFrame DEF IInv, Apart, HoldLabels, busyVars
<1>8. CloneInv' /\ PortInv'
  BY <1>1, <1>2, <1>3, <1>4, CloneFrame DEF IInv, Apart, CloneLabels
<1>9. SessionInv'
  BY <1>1, <1>4, <1>2, <1>3, Numbers DEF IInv, SessionInv, InUse, sendVars
<1>10. SendInv' /\ ServiceInv'
  BY <1>1, <1>2, <1>3, SendFrame DEF IInv, Apart, busyVars
<1>11. CopyInv'
  BY <1>1, <1>2, <1>3, CopyFrame DEF IInv, Apart, CopyLabels, copyVars
<1>12. StaleInv'
  BY <1>1, <1>2, <1>3, StaleFrame DEF IInv, Apart, ReadLabels, copyVars
<1> QED
  BY <1>5, <1>6, <1>7, <1>8, <1>9, <1>10, <1>11, <1>12 DEF IInv

LEMMA DisconnectKeeps ==
  ASSUME IInv, NEW t \in Threads, Disconnect(t), UNCHANGED uiOrder
  PROVE  IInv'
<1> DEFINE l == [NoLocal EXCEPT !.conn = conn]
<1>1. /\ TypeOK
      /\ opBusy = NoOp /\ ~transfer.running /\ conn # 0
      /\ Call(t, "Disconnect", "closing", l)
  BY DEF IInv, Disconnect, SessionFree, NotBusy
<1>2. /\ l \in Locals
      /\ l.conn = conn /\ l.seen = 0 /\ l.rev = 0 /\ l.path = NoPath
      /\ l.cs = 0 /\ l.port = "none" /\ l.epoch = 0
  BY <1>1, NoLocalTyped, Numbers DEF Locals
<1> HIDE DEF l
<1>3. /\ pc[t] = "idle" /\ pc'[t] = "closing" /\ local'[t].op = "Disconnect"
      /\ local'[t].conn = conn /\ local'[t].seen = 0 /\ local'[t].rev = 0
      /\ local'[t].path = NoPath /\ local'[t].cs = 0 /\ local'[t].port = "none"
      /\ local'[t].epoch = 0
      /\ \A u \in Threads : u # t => pc'[u] = pc[u] /\ local'[u] = local[u]
  BY <1>1, <1>2, CallFacts
<1>4. /\ UNCHANGED <<closed, sessions, svcBusy, busyVars, copyVars, files, cloneVars,
         sendVars>>
      /\ conn' = 0 /\ currentPlan' = 0
  BY DEF Disconnect, PlanDropped
<1>5. /\ \A u \in Threads : ~InUse(u) /\ send[u].at = "none" /\ pc[u] # "confirm"
      /\ 0 \notin closed
  BY <1>1, FreeOfHolders, FreeOfSends DEF Holds, TypeOK
<1>6. TypeOK'
  <2>1. Grows
    BY <1>1, <1>4 DEF TypeOK, Grows, cloneVars, sendVars
  <2>2. /\ pc' \in [Threads -> Labels] /\ local' \in [Threads -> Locals]
        /\ \A u \in Threads : InRange(local[u])'
        /\ calls' \in Nat
    <3>1. /\ l.conn \in 0 .. sessions' /\ l.cs \in 0 .. Len(arms')
          /\ l.epoch \in 0 .. sent'
      BY <1>1, <1>4, <2>1, <1>2 DEF TypeOK, Grows
    <3>2. "Disconnect" \in AllMethods /\ "closing" \in Labels
      BY DEF AllMethods, Labels, RadioMethods, CloneMethods, FileMethods, SendMethods
    <3> QED
      BY <1>1, <1>2, <2>1, <3>1, <3>2, CallTyped
  <2> QED
    BY <1>1, <1>4, <2>1, <2>2 DEF TypeOK, Grows, busyVars, copyVars, cloneVars, sendVars
<1>7. \A u \in Threads : LabelInv(u)'
  BY <1>1, <1>5, <1>3, <1>4 DEF IInv, LabelInv, InUse, Arming, cloneVars, RadioMethods
<1>8. LockInv'
  BY <1>1, <1>3, <1>4, LockFrame DEF IInv, Apart, HoldLabels, busyVars
<1>9. CloneInv' /\ PortInv'
  BY <1>1, <1>3, <1>4, <1>5, CloneFrame DEF IInv, Apart, CloneLabels
<1>10. SessionInv'
  BY <1>1, <1>5, <1>3, <1>4 DEF IInv, SessionInv, InUse, sendVars
<1>11. SendInv' /\ ServiceInv'
  BY <1>1, <1>3, <1>4, SendFrame DEF IInv, Apart, busyVars
<1>12. CopyInv'
  BY <1>1, <1>3, <1>4, CopyFrame DEF IInv, Apart, CopyLabels, copyVars
<1>13. StaleInv'
  BY <1>1, <1>3, <1>4, StaleFrame DEF IInv, Apart, ReadLabels, copyVars
<1> QED
  BY <1>6, <1>7, <1>8, <1>9, <1>10, <1>11, <1>12, <1>13 DEF IInv

LEMMA SessionClosesKeeps ==
  ASSUME IInv, NEW t \in Threads, SessionCloses(t), UNCHANGED uiOrder
  PROVE  IInv'
<1>1. /\ TypeOK /\ pc[t] = "closing"
      /\ Goto(t, "idle")
  BY DEF IInv, SessionCloses
<1>2. /\ pc'[t] = "idle" /\ local'[t] = NoLocal
      /\ \A u \in Threads : u # t => pc'[u] = pc[u] /\ local'[u] = local[u]
      /\ calls' = calls
  BY <1>1, GotoFacts
<1>3. /\ UNCHANGED <<conn, sessions, svcBusy, busyVars, currentPlan, copyVars, files,
         cloneVars, sendVars>>
      /\ closed' = closed \cup {local[t].conn}
  BY DEF SessionCloses
<1>4. TypeOK'
  <2>1. Grows
    BY <1>1, <1>3 DEF TypeOK, Grows, cloneVars, sendVars
  <2>2. /\ pc' \in [Threads -> Labels] /\ local' \in [Threads -> Locals]
        /\ \A u \in Threads : InRange(local[u])'
    BY <1>1, <2>1, GotoTyped DEF Labels
  <2>3. local[t].conn \in 1 .. sessions
    BY <1>1 DEF TypeOK, InRange, IInv, SessionInv
  <2> QED
    BY <1>1, <1>3, <1>2, <2>1, <2>2, <2>3 DEF TypeOK, Grows, busyVars, copyVars, cloneVars,
       sendVars
<1>5. \A u \in Threads : LabelInv(u)'
  BY <1>1, <1>2, <1>3 DEF IInv, LabelInv, InUse, Arming, cloneVars, RadioMethods, NoLocal
<1>6. LockInv'
  BY <1>1, <1>2, <1>3, LockFrame DEF IInv, Apart, HoldLabels, busyVars
<1>7. CloneInv' /\ PortInv'
  BY <1>1, <1>2, <1>3, CloneFrame DEF IInv, Apart, CloneLabels
<1>8. SessionInv'
  BY <1>1, <1>2, <1>3 DEF IInv, SessionInv, InUse, sendVars
<1>9. SendInv' /\ ServiceInv'
  BY <1>1, <1>2, <1>3, SendFrame DEF IInv, Apart, busyVars
<1>10. CopyInv'
  BY <1>1, <1>2, <1>3, CopyFrame DEF IInv, Apart, CopyLabels, copyVars
<1>11. StaleInv'
  BY <1>1, <1>2, <1>3, StaleFrame DEF IInv, Apart, ReadLabels, copyVars
<1> QED
  BY <1>4, <1>5, <1>6, <1>7, <1>8, <1>9, <1>10, <1>11 DEF IInv

-----------------------------------------------------------------------------
(* Reads and single settings: steps of the radio methods.                  *)

(* A call on its way to the radio holds App.opBusy in its own name.        *)
LEMMA RadioHolds ==
  ASSUME IInv, NEW t \in Threads, InUse(t)
  PROVE  /\ Holds(t) /\ local[t].op \in RadioMethods /\ opBusy = local[t].op
         /\ cloneState = 0
         /\ opBusy # NoOp /\ \A u \in Threads : u # t => ~InUse(u) /\ ~Receiving(u)
<1>1. LabelInv(t) /\ Holds(t)
  BY DEF IInv, Holds
<1>2. local[t].op \in RadioMethods /\ local[t].op # "ArmCloneRead"
  BY <1>1 DEF LabelInv, RadioMethods
<1>3. opBusy = local[t].op
  BY <1>1, <1>2 DEF IInv, LockInv, Name
<1>4. \A u \in Threads : u # t => ~InUse(u) /\ ~Receiving(u)
  BY <1>1 DEF IInv, LockInv, Holds
<1> QED
  BY <1>1, <1>2, <1>3, <1>4, NoOpIsNoName DEF IInv, LockInv, Names

LEMMA BeginRadioMethodKeeps ==
  ASSUME IInv, NEW t \in Threads, NEW m \in RadioMethods,
         BeginRadioMethod(t, m), UNCHANGED uiOrder
  PROVE  IInv'
<1> DEFINE l == [NoLocal EXCEPT !.conn = conn, !.seen = working]
<1>1. /\ TypeOK
      /\ conn # 0 /\ opBusy = NoOp
      /\ Call(t, m, (IF m = "WriteSetting" THEN "wire" ELSE "service"), l)
  BY DEF IInv, BeginRadioMethod, ReserveFor, Reserve
<1>2. /\ l \in Locals
      /\ l.conn = conn /\ l.seen = working /\ l.rev = 0 /\ l.path = NoPath
      /\ l.cs = 0 /\ l.port = "none" /\ l.epoch = 0
  BY <1>1, NoLocalTyped, Numbers DEF Locals
<1> HIDE DEF l
<1>3. /\ pc[t] = "idle" /\ pc'[t] = (IF m = "WriteSetting" THEN "wire" ELSE "service")
      /\ local'[t].op = m
      /\ local'[t].conn = conn /\ local'[t].seen = working /\ local'[t].rev = 0
      /\ local'[t].path = NoPath /\ local'[t].cs = 0 /\ local'[t].port = "none"
      /\ local'[t].epoch = 0
      /\ \A u \in Threads : u # t => pc'[u] = pc[u] /\ local'[u] = local[u]
  BY <1>1, <1>2, CallFacts
<1>4. /\ UNCHANGED <<connVars, svcBusy, transfer, currentPlan, copyVars, files,
         cloneVars, sendVars>>
      /\ opBusy' = m
      /\ uiOrder /\ m = "ReadRadio" =>
           \A u \in Threads : send[u].at = "none" /\ pc[u] # "confirm"
      /\ m = "PrepareSend" => ~transfer.running
  BY DEF BeginRadioMethod, ReserveFor, Reserve
<1>5. cloneState = 0 /\ \A u \in Threads : ~Holds(u)
  BY <1>1, FreeOfHolders
<1>6. TypeOK'
  <2>1. Grows
    BY <1>1, <1>4 DEF TypeOK, Grows, cloneVars, sendVars, connVars
  <2>2. /\ pc' \in [Threads -> Labels] /\ local' \in [Threads -> Locals]
        /\ \A u \in Threads : InRange(local[u])'
        /\ calls' \in Nat
    <3>1. /\ l.conn \in 0 .. sessions' /\ l.cs \in 0 .. Len(arms')
          /\ l.epoch \in 0 .. sent'
      BY <1>1, <1>4, <2>1, <1>2 DEF TypeOK, Grows
    <3>2. m \in AllMethods /\ (IF m = "WriteSetting" THEN "wire" ELSE "service") \in Labels
      BY DEF AllMethods, Labels, RadioMethods, CloneMethods, FileMethods, SendMethods
    <3> QED
      BY <1>1, <1>2, <2>1, <3>1, <3>2, CallTyped
  <2> QED
    BY <1>1, <1>4, <2>1, <2>2 DEF TypeOK, Grows, copyVars, cloneVars, sendVars, connVars,
       Names
<1>7. \A u \in Threads : LabelInv(u)'
  BY <1>1, <1>5, <1>3, <1>4 DEF IInv, LabelInv, InUse, Arming, cloneVars, RadioMethods
<1>8. LockInv'
  BY <1>1, <1>5, <1>3, <1>4 DEF IInv, LockInv, Holds, InUse, Arming, ArmHolds, Receiving,
     Name, cloneVars
<1>9. CloneInv' /\ PortInv'
  BY <1>1, <1>3, <1>4, <1>5, CloneFrame DEF IInv, Apart, CloneLabels
<1>10. SessionInv'
  BY <1>1, <1>5, <1>3, <1>4 DEF IInv, SessionInv, InUse, connVars, sendVars
<1>11. SendInv'
  BY <1>1, <1>5, <1>3, <1>4 DEF IInv, SendInv, sendVars
<1>12. ServiceInv'
  BY <1>1, <1>5, <1>3, <1>4 DEF IInv, ServiceInv, Serving, OnWire, sendVars
<1>13. CopyInv'
  BY <1>1, <1>5, <1>3, <1>4 DEF IInv, CopyInv, InUse, Saving, copyVars
<1>14. StaleInv'
  BY <1>1, <1>5, <1>3, <1>4 DEF IInv, StaleInv, InUse, Marking, copyVars, sendVars
<1> QED
  BY <1>6, <1>7, <1>8, <1>9, <1>10, <1>11, <1>12, <1>13, <1>14 DEF IInv

LEMMA EnterServiceRefusedKeeps ==
  ASSUME IInv, NEW t \in Threads,
         EnterService(t), ServiceBusy(local[t].conn), UNCHANGED uiOrder
  PROVE  IInv'
<1>1. /\ TypeOK /\ pc[t] = "service"
      /\ Goto(t, "release")
  BY DEF IInv, EnterService, AfterRefusal
<1>2. /\ pc'[t] = "release" /\ local'[t] = local[t]
      /\ \A u \in Threads : u # t => pc'[u] = pc[u] /\ local'[u] = local[u]
      /\ calls' = calls
  BY <1>1, GotoFacts
<1>3. /\ UNCHANGED <<connVars, svcBusy, busyVars, currentPlan, copyVars, files,
         cloneVars, sendVars>>
  BY DEF EnterService
<1>4. cloneState = 0 /\ local[t].op \in RadioMethods
  BY <1>1, RadioHolds DEF InUse
<1>5. TypeOK'
  <2>1. Grows
    BY <1>1, <1>3 DEF TypeOK, Grows, cloneVars, sendVars, connVars
  <2>2. /\ pc' \in [Threads -> Labels] /\ local' \in [Threads -> Locals]
        /\ \A u \in Threads : InRange(local[u])'
    BY <1>1, <2>1, GotoTyped DEF Labels
  <2> QED
    BY <1>1, <1>3, <1>2, <2>1, <2>2 DEF TypeOK, Grows, busyVars, copyVars, cloneVars,
       sendVars,
       connVars
<1>6. \A u \in Threads : LabelInv(u)'
  BY <1>1, <1>4, <1>2, <1>3 DEF IInv, LabelInv, InUse, Arming, cloneVars, RadioMethods
<1>7. LockInv'
  BY <1>1, <1>4, <1>2, <1>3 DEF IInv, LockInv, Holds, InUse, Arming, ArmHolds, Receiving,
     Name, busyVars, cloneVars
<1>8. CloneInv' /\ PortInv'
  BY <1>1, <1>2, <1>3, <1>4, CloneFrame, <1>4 DEF IInv, Apart, CloneLabels
<1>9. SessionInv'
  BY <1>1, <1>4, <1>2, <1>3 DEF IInv, SessionInv, InUse, connVars, sendVars
<1>10. SendInv' /\ ServiceInv'
  BY <1>1, <1>2, <1>3, SendFrame DEF IInv, Apart, busyVars
<1>11. CopyInv'
  BY <1>1, <1>4, <1>2, <1>3 DEF IInv, CopyInv, InUse, Saving, copyVars
<1>12. StaleInv'
  BY <1>1, <1>4, <1>2, <1>3 DEF IInv, StaleInv, InUse, Marking, copyVars, sendVars
<1> QED
  BY <1>5, <1>6, <1>7, <1>8, <1>9, <1>10, <1>11, <1>12 DEF IInv

LEMMA EnterServiceKeeps ==
  ASSUME IInv, NEW t \in Threads,
         EnterService(t), ~ServiceBusy(local[t].conn), UNCHANGED uiOrder
  PROVE  IInv'
<1>1. /\ TypeOK /\ pc[t] = "service"
      /\ Goto(t, "wire")
  BY DEF IInv, EnterService
<1>2. /\ pc'[t] = "wire" /\ local'[t] = local[t]
      /\ \A u \in Threads : u # t => pc'[u] = pc[u] /\ local'[u] = local[u]
      /\ calls' = calls
  BY <1>1, GotoFacts
<1>3. /\ UNCHANGED <<connVars, busyVars, currentPlan, copyVars, files, cloneVars,
         sendVars>>
      /\ local[t].conn \notin svcBusy /\ svcBusy' = svcBusy \cup {local[t].conn}
  BY DEF EnterService, ServiceBusy
<1>4. local[t].conn = conn /\ conn # 0 /\ opBusy # NoOp
  BY <1>1, RadioHolds DEF IInv, SessionInv, InUse
<1>5. TypeOK'
  <2>1. Grows
    BY <1>1, <1>3 DEF TypeOK, Grows, cloneVars, sendVars, connVars
  <2>2. /\ pc' \in [Threads -> Labels] /\ local' \in [Threads -> Locals]
        /\ \A u \in Threads : InRange(local[u])'
    BY <1>1, <2>1, GotoTyped DEF Labels
  <2>3. local[t].conn \in 1 .. sessions
    BY <1>1, <1>4, Numbers
  <2> QED
    BY <1>1, <1>3, <1>2, <2>1, <2>2, <2>3 DEF TypeOK, Grows, busyVars, copyVars, cloneVars,
       sendVars, connVars
<1>6. \A u \in Threads : LabelInv(u)'
  BY <1>1, <1>4, <1>2, <1>3 DEF IInv, LabelInv, InUse, Arming, cloneVars, RadioMethods
<1>7. LockInv'
  BY <1>1, <1>4, <1>2, <1>3 DEF IInv, LockInv, Holds, InUse, Arming, ArmHolds, Receiving,
     Name, busyVars, cloneVars
<1>8. CloneInv' /\ PortInv'
  BY <1>1, <1>2, <1>3, <1>4, CloneFrame DEF IInv, Apart, CloneLabels
<1>9. SessionInv'
  BY <1>1, <1>4, <1>2, <1>3 DEF IInv, SessionInv, InUse, connVars, sendVars
<1>10. SendInv'
  BY <1>1, <1>4, <1>2, <1>3 DEF IInv, SendInv, busyVars, sendVars
<1>11. ServiceInv'
  BY <1>1, <1>4, <1>2, <1>3 DEF IInv, ServiceInv, Serving, OnWire, sendVars
<1>12. CopyInv'
  BY <1>1, <1>4, <1>2, <1>3 DEF IInv, CopyInv, InUse, Saving, copyVars
<1>13. StaleInv'
  BY <1>1, <1>4, <1>2, <1>3 DEF IInv, StaleInv, InUse, Marking, copyVars, sendVars
<1> QED
  BY <1>5, <1>6, <1>7, <1>8, <1>9, <1>10, <1>11, <1>12, <1>13 DEF IInv

LEMMA FinishReadKeeps ==
  ASSUME IInv, NEW t \in Threads, FinishRead(t), UNCHANGED uiOrder
  PROVE  IInv'
<1>1. /\ TypeOK /\ pc[t] = "finish" /\ local[t].op = "ReadRadio"
      /\ Goto(t, "release")
  BY DEF IInv, FinishRead
<1>2. /\ pc'[t] = "release" /\ local'[t] = local[t]
      /\ \A u \in Threads : u # t => pc'[u] = pc[u] /\ local'[u] = local[u]
      /\ calls' = calls
  BY <1>1, GotoFacts
<1>3. /\ UNCHANGED <<connVars, svcBusy, busyVars, currentPlan, files, cloneVars,
         sendVars>>
      /\ working' = workingRev + 1 /\ workingRev' = workingRev + 1
      /\ workingPath' = NoPath /\ dirty' = FALSE /\ baselineStale' = FALSE
      /\ baseline' = local[t].epoch
  BY DEF FinishRead, FreshCopy
<1>4. /\ cloneState = 0 /\ local[t].op \in RadioMethods
      /\ \A u \in Threads : u # t => ~InUse(u) /\ ~Receiving(u)
  BY <1>1, RadioHolds DEF InUse
<1>5. TypeOK'
  <2>1. Grows
    BY <1>1, <1>3 DEF TypeOK, Grows, cloneVars, sendVars, connVars
  <2>2. /\ pc' \in [Threads -> Labels] /\ local' \in [Threads -> Locals]
        /\ \A u \in Threads : InRange(local[u])'
    BY <1>1, <2>1, GotoTyped DEF Labels
  <2>3. local[t].epoch \in 0 .. sent /\ workingRev + 1 \in Nat
    BY <1>1, Numbers DEF InRange
  <2> QED
    BY <1>1, <1>3, <1>2, <2>1, <2>2, <2>3 DEF TypeOK, Grows, busyVars, cloneVars, sendVars,
       connVars
<1>6. \A u \in Threads : LabelInv(u)'
  BY <1>1, <1>4, <1>2, <1>3 DEF IInv, LabelInv, InUse, Arming, cloneVars, RadioMethods
<1>7. LockInv'
  BY <1>1, <1>4, <1>2, <1>3 DEF IInv, LockInv, Holds, InUse, Arming, ArmHolds, Receiving,
     Name, busyVars, cloneVars
<1>8. CloneInv' /\ PortInv'
  BY <1>1, <1>2, <1>3, <1>4, CloneFrame DEF IInv, Apart, CloneLabels
<1>9. SessionInv'
  BY <1>1, <1>4, <1>2, <1>3 DEF IInv, SessionInv, InUse, connVars, sendVars
<1>10. SendInv' /\ ServiceInv'
  BY <1>1, <1>2, <1>3, SendFrame DEF IInv, Apart, busyVars
<1>11. CopyInv'
  <2>1. \A u \in Threads :
          pc'[u] \notin {"service", "wire", "finish", "receiving", "received"}
    BY <1>1, <1>2, <1>4 DEF InUse, Holds, Receiving
  <2>2. \A u \in Threads :
          pc'[u] \in {"saving", "saved"} => u # t /\ local'[u].rev < workingRev'
    BY <1>1, <1>2, <1>3, Numbers DEF IInv, CopyInv, Saving
  <2>3. \A u \in Threads : ~InUse(u)' /\ pc'[u] \notin {"receiving", "received"}
    BY <2>1 DEF InUse
  <2>4. \A u \in Threads :
          Saving(u)' => /\ Saving(u) /\ pc'[u] = pc[u] /\ local'[u] = local[u]
                        /\ local'[u].rev < workingRev'
    BY <1>2, <2>2 DEF Saving
  <2>5. workingRev' \in Nat /\ \A u \in Threads : local[u].rev \in Nat
    BY <1>1, <1>3, Numbers
  <2>6. \A u \in Threads : pc'[u] = "saved" => files'[local'[u].path] = local'[u].seen
    BY <1>3, <2>4 DEF IInv, CopyInv, Saving
  <2>7. \A u, v \in Threads : Saving(u)' /\ Saving(v)' => u = v
    BY <2>4 DEF IInv, CopyInv
  <2> QED
    BY <2>3, <2>4, <2>5, <2>6, <2>7 DEF CopyInv
<1>12. StaleInv'
  BY <1>1, <1>4, <1>2, <1>3, Numbers DEF IInv, StaleInv, InUse, Marking, sendVars
<1> QED
  BY <1>5, <1>6, <1>7, <1>8, <1>9, <1>10, <1>11, <1>12 DEF IInv

LEMMA FinishPrepareKeeps ==
  ASSUME IInv, NEW t \in Threads, FinishPrepare(t), UNCHANGED uiOrder
  PROVE  IInv'
<1>1. /\ TypeOK /\ pc[t] = "finish" /\ local[t].op = "PrepareSend"
      /\ Goto(t, "release")
  BY DEF IInv, FinishPrepare
<1>2. /\ pc'[t] = "release" /\ local'[t] = local[t]
      /\ \A u \in Threads : u # t => pc'[u] = pc[u] /\ local'[u] = local[u]
      /\ calls' = calls
  BY <1>1, GotoFacts
<1>3. /\ UNCHANGED <<connVars, svcBusy, busyVars, copyVars, files, cloneVars, sendVars>>
      /\ currentPlan' = local[t].conn
  BY DEF FinishPrepare
<1>4. /\ cloneState = 0 /\ local[t].op \in RadioMethods
      /\ \A u \in Threads : u # t => ~InUse(u) /\ ~Receiving(u)
  BY <1>1, RadioHolds DEF InUse
<1>5. TypeOK'
  <2>1. Grows
    BY <1>1, <1>3 DEF TypeOK, Grows, cloneVars, sendVars, connVars
  <2>2. /\ pc' \in [Threads -> Labels] /\ local' \in [Threads -> Locals]
        /\ \A u \in Threads : InRange(local[u])'
    BY <1>1, <2>1, GotoTyped DEF Labels
  <2>3. local[t].conn \in 0 .. sessions
    BY <1>1, Numbers DEF InRange
  <2> QED
    BY <1>1, <1>3, <1>2, <2>1, <2>2, <2>3 DEF TypeOK, Grows, busyVars, copyVars, cloneVars,
       sendVars, connVars
<1>6. \A u \in Threads : LabelInv(u)'
  BY <1>1, <1>4, <1>2, <1>3 DEF IInv, LabelInv, InUse, Arming, cloneVars, RadioMethods
<1>7. LockInv'
  BY <1>1, <1>4, <1>2, <1>3 DEF IInv, LockInv, Holds, InUse, Arming, ArmHolds, Receiving,
     Name, busyVars, cloneVars
<1>8. CloneInv' /\ PortInv'
  BY <1>1, <1>2, <1>3, <1>4, CloneFrame DEF IInv, Apart, CloneLabels
<1>9. SessionInv'
  BY <1>1, <1>4, <1>2, <1>3 DEF IInv, SessionInv, InUse, connVars, sendVars
<1>10. SendInv' /\ ServiceInv'
  BY <1>1, <1>2, <1>3, SendFrame DEF IInv, Apart, busyVars
<1>11. CopyInv'
  BY <1>1, <1>4, <1>2, <1>3, Numbers DEF IInv, CopyInv, InUse, Saving, copyVars, Receiving
<1>12. StaleInv'
  BY <1>1, <1>4, <1>2, <1>3 DEF IInv, StaleInv, InUse, Marking, copyVars, sendVars
<1> QED
  BY <1>5, <1>6, <1>7, <1>8, <1>9, <1>10, <1>11, <1>12 DEF IInv

LEMMA FinishSettingsKeeps ==
  ASSUME IInv, NEW t \in Threads, FinishSettings(t), UNCHANGED uiOrder
  PROVE  IInv'
<1>1. /\ TypeOK /\ pc[t] = "finish" /\ local[t].op = "ReadSettingsRadio"
      /\ Goto(t, "release")
  BY DEF IInv, FinishSettings
<1>2. /\ pc'[t] = "release" /\ local'[t] = local[t]
      /\ \A u \in Threads : u # t => pc'[u] = pc[u] /\ local'[u] = local[u]
      /\ calls' = calls
  BY <1>1, GotoFacts
<1>3. /\ UNCHANGED <<connVars, svcBusy, busyVars, currentPlan, files, cloneVars,
         sendVars>>
      /\ working' = workingRev + 1 /\ workingRev' = workingRev + 1 /\ dirty' = TRUE
      /\ UNCHANGED <<workingPath, baselineStale, baseline>>
  BY DEF FinishSettings, Touched
<1>4. /\ cloneState = 0 /\ local[t].op \in RadioMethods
      /\ \A u \in Threads : u # t => ~InUse(u) /\ ~Receiving(u)
  BY <1>1, RadioHolds DEF InUse
<1>5. TypeOK'
  <2>1. Grows
    BY <1>1, <1>3 DEF TypeOK, Grows, cloneVars, sendVars, connVars
  <2>2. /\ pc' \in [Threads -> Labels] /\ local' \in [Threads -> Locals]
        /\ \A u \in Threads : InRange(local[u])'
    BY <1>1, <2>1, GotoTyped DEF Labels
  <2>3. local[t].epoch \in 0 .. sent /\ workingRev + 1 \in Nat
    BY <1>1, Numbers DEF InRange
  <2> QED
    BY <1>1, <1>3, <1>2, <2>1, <2>2, <2>3 DEF TypeOK, Grows, busyVars, cloneVars, sendVars,
       connVars
<1>6. \A u \in Threads : LabelInv(u)'
  BY <1>1, <1>4, <1>2, <1>3 DEF IInv, LabelInv, InUse, Arming, cloneVars, RadioMethods
<1>7. LockInv'
  BY <1>1, <1>4, <1>2, <1>3 DEF IInv, LockInv, Holds, InUse, Arming, ArmHolds, Receiving,
     Name, busyVars, cloneVars
<1>8. CloneInv' /\ PortInv'
  BY <1>1, <1>2, <1>3, <1>4, CloneFrame DEF IInv, Apart, CloneLabels
<1>9. SessionInv'
  BY <1>1, <1>4, <1>2, <1>3 DEF IInv, SessionInv, InUse, connVars, sendVars
<1>10. SendInv' /\ ServiceInv'
  BY <1>1, <1>2, <1>3, SendFrame DEF IInv, Apart, busyVars
<1>11. CopyInv'
  <2>1. \A u \in Threads :
          pc'[u] \notin {"service", "wire", "finish", "receiving", "received"}
    BY <1>1, <1>2, <1>4 DEF InUse, Holds, Receiving
  <2>2. \A u \in Threads :
          pc'[u] \in {"saving", "saved"} => u # t /\ local'[u].rev < workingRev'
    BY <1>1, <1>2, <1>3, Numbers DEF IInv, CopyInv, Saving
  <2>3. \A u \in Threads : ~InUse(u)' /\ pc'[u] \notin {"receiving", "received"}
    BY <2>1 DEF InUse
  <2>4. \A u \in Threads :
          Saving(u)' => /\ Saving(u) /\ pc'[u] = pc[u] /\ local'[u] = local[u]
                        /\ local'[u].rev < workingRev'
    BY <1>2, <2>2 DEF Saving
  <2>5. workingRev' \in Nat /\ \A u \in Threads : local[u].rev \in Nat
    BY <1>1, <1>3, Numbers
  <2>6. \A u \in Threads : pc'[u] = "saved" => files'[local'[u].path] = local'[u].seen
    BY <1>3, <2>4 DEF IInv, CopyInv, Saving
  <2>7. \A u, v \in Threads : Saving(u)' /\ Saving(v)' => u = v
    BY <2>4 DEF IInv, CopyInv
  <2> QED
    BY <2>3, <2>4, <2>5, <2>6, <2>7 DEF CopyInv
<1>12. StaleInv'
  BY <1>1, <1>4, <1>2, <1>3 DEF IInv, StaleInv, InUse, Marking, sendVars
<1> QED
  BY <1>5, <1>6, <1>7, <1>8, <1>9, <1>10, <1>11, <1>12 DEF IInv

LEMMA ReleaseOpKeeps ==
  ASSUME IInv, NEW t \in Threads, ReleaseOp(t), UNCHANGED uiOrder
  PROVE  IInv'
<1>1. /\ TypeOK /\ pc[t] = "release"
      /\ Goto(t, "idle")
  BY DEF IInv, ReleaseOp
<1>2. /\ pc'[t] = "idle" /\ local'[t] = NoLocal
      /\ \A u \in Threads : u # t => pc'[u] = pc[u] /\ local'[u] = local[u]
      /\ calls' = calls
  BY <1>1, GotoFacts
<1>3. /\ UNCHANGED <<connVars, svcBusy, transfer, currentPlan, copyVars, files,
         cloneVars, sendVars>>
      /\ opBusy' = NoOp
  BY DEF ReleaseOp
<1>4. cloneState = 0 /\ Holds(t)
  BY <1>1 DEF IInv, CloneInv, Serves, Holds
<1>5. TypeOK'
  <2>1. Grows
    BY <1>1, <1>3 DEF TypeOK, Grows, cloneVars, sendVars, connVars
  <2>2. /\ pc' \in [Threads -> Labels] /\ local' \in [Threads -> Locals]
        /\ \A u \in Threads : InRange(local[u])'
    BY <1>1, <2>1, GotoTyped DEF Labels
  <2> QED
    BY <1>1, <1>3, <1>2, <2>1, <2>2 DEF TypeOK, Grows, copyVars, cloneVars, sendVars,
       connVars
<1>6. \A u \in Threads : LabelInv(u)'
  BY <1>1, <1>4, <1>2, <1>3 DEF IInv, LabelInv, InUse, Arming, cloneVars, RadioMethods,
     NoLocal
<1>7. LockInv'
  BY <1>1, <1>4, <1>2, <1>3 DEF IInv, LockInv, Holds, InUse, Arming, ArmHolds, Receiving,
     Name, cloneVars
<1>8. CloneInv' /\ PortInv'
  BY <1>1, <1>2, <1>3, <1>4, CloneFrame DEF IInv, Apart, CloneLabels
<1>9. SessionInv' /\ SendInv' /\ ServiceInv'
  BY <1>1, <1>2, <1>3, SessionFrame DEF IInv, Apart, SessionLabels
<1>10. CopyInv'
  BY <1>1, <1>2, <1>3, CopyFrame DEF IInv, Apart, CopyLabels, copyVars
<1>11. StaleInv'
  BY <1>1, <1>2, <1>3, StaleFrame DEF IInv, Apart, ReadLabels, copyVars
<1> QED
  BY <1>5, <1>6, <1>7, <1>8, <1>9, <1>10, <1>11 DEF IInv

-----------------------------------------------------------------------------
(* The operation of a radio method ends.                                   *)

LEMMA RadioMethodEndsKeeps ==
  ASSUME IInv, NEW t \in Threads, RadioMethodEnds(t), UNCHANGED uiOrder
  PROVE  IInv'
<1>1. PICK label \in {"release", "finish"} :
        /\ pc' = [pc EXCEPT ![t] = label]
        /\ label = "finish" => local[t].op # "WriteSetting"
  BY DEF RadioMethodEnds
<1> DEFINE l == [local[t] EXCEPT !.epoch = sent]
<1>2. /\ TypeOK /\ pc[t] = "wire" /\ calls' = calls
      /\ UNCHANGED <<connVars, busyVars, currentPlan, copyVars, files, cloneVars, sendVars>>
      /\ svcBusy' = IF local[t].op = "WriteSetting" THEN svcBusy
                    ELSE svcBusy \ {local[t].conn}
  BY DEF IInv, RadioMethodEnds
<1>3. /\ l \in Locals
      /\ l.op = local[t].op /\ l.conn = local[t].conn /\ l.seen = local[t].seen
      /\ l.path = local[t].path /\ l.cs = local[t].cs /\ l.epoch = sent
  BY <1>2, Numbers DEF Locals
<1>4. Moves(t, label, l)
  BY <1>1, <1>2 DEF RadioMethodEnds, Moves, TypeOK
<1> HIDE DEF l
<1>5. /\ pc'[t] = label /\ local'[t] = l
      /\ \A u \in Threads : u # t => pc'[u] = pc[u] /\ local'[u] = local[u]
  BY <1>2, <1>4, MoveFacts
<1>6. /\ cloneState = 0 /\ local[t].op \in RadioMethods
      /\ \A u \in Threads : u # t => ~InUse(u) /\ ~Receiving(u)
  BY <1>2, RadioHolds DEF InUse
<1>7. TypeOK'
  <2>1. Grows
    BY <1>2 DEF TypeOK, Grows, connVars, cloneVars, sendVars
  <2>2. /\ pc' \in [Threads -> Labels] /\ local' \in [Threads -> Locals]
        /\ \A u \in Threads : InRange(local[u])'
    <3>1. /\ l.op \in Methods[uiOrder] \cup {"none"}
          /\ l.conn \in 0 .. sessions' /\ l.cs \in 0 .. Len(arms') /\ l.epoch \in 0 .. sent'
      BY <1>2, <1>3, <2>1, Numbers DEF InRange, connVars, cloneVars, sendVars
    <3>2. label \in Labels
      BY <1>1 DEF Labels
    <3> QED
      BY <1>2, <1>3, <1>4, <2>1, <3>1, <3>2, MoveTyped
  <2>3. svcBusy' \subseteq svcBusy
    BY <1>2
  <2> QED
    BY <1>2, <2>1, <2>2, <2>3 DEF TypeOK, connVars, busyVars, copyVars, cloneVars, sendVars
<1>8. \A u \in Threads : LabelInv(u)'
  BY <1>1, <1>2, <1>3, <1>5, <1>6 DEF IInv, LabelInv, InUse, Arming, cloneVars, RadioMethods
<1>9. LockInv'
  BY <1>1, <1>2, <1>3, <1>5 DEF IInv, LockInv, Holds, InUse, Arming, ArmHolds, Receiving,
     Name,
     busyVars, cloneVars
<1>10. CloneInv' /\ PortInv'
  BY <1>1, <1>2, <1>5, <1>6, CloneFrame DEF IInv, Apart, CloneLabels
<1>11. SessionInv'
  BY <1>1, <1>2, <1>3, <1>5 DEF IInv, SessionInv, InUse, connVars, sendVars
<1>12. SendInv'
  BY <1>1, <1>2, <1>5 DEF IInv, SendInv, busyVars, sendVars
<1>13. ServiceInv'
  BY <1>1, <1>2, <1>3, <1>5, <1>6 DEF IInv, ServiceInv, Serving, OnWire, InUse, sendVars
<1>14. CopyInv'
  BY <1>1, <1>2, <1>3, <1>5 DEF IInv, CopyInv, InUse, Saving, copyVars
<1>15. StaleInv'
  BY <1>1, <1>2, <1>3, <1>5 DEF IInv, StaleInv, InUse, Marking, copyVars, sendVars
<1> QED
  BY <1>7, <1>8, <1>9, <1>10, <1>11, <1>12, <1>13, <1>14, <1>15 DEF IInv

-----------------------------------------------------------------------------
(* ConfirmSend, and the call that cancels.                                 *)

(* Once a send, or the call about to start it, has App.transfer, there is  *)
(* no other.                                                               *)
LEMMA ConfirmAlone ==
  ASSUME IInv, NEW t \in Threads, pc[t] = "confirm"
  PROVE  /\ transfer.running
         /\ \A u \in Threads : send[u].at = "none" /\ (u # t => pc[u] # "confirm")
BY DEF IInv, SendInv

LEMMA ConfirmSendKeeps ==
  ASSUME IInv, NEW t \in Threads, ConfirmSend(t), UNCHANGED uiOrder
  PROVE  IInv'
<1> DEFINE l == [NoLocal EXCEPT !.conn = conn, !.seen = currentPlan]
<1>1. /\ TypeOK
      /\ opBusy = NoOp /\ ~transfer.running
      /\ Call(t, "ConfirmSend", "confirm", l)
  BY DEF IInv, ConfirmSend, TakeTransfer, NotBusy
<1>2. /\ l \in Locals
      /\ l.conn = conn /\ l.seen = currentPlan /\ l.rev = 0 /\ l.path = NoPath
      /\ l.cs = 0 /\ l.port = "none" /\ l.epoch = 0
  BY <1>1, NoLocalTyped, Numbers DEF Locals
<1> HIDE DEF l
<1>3. /\ pc[t] = "idle" /\ pc'[t] = "confirm" /\ local'[t].op = "ConfirmSend"
      /\ local'[t].conn = conn /\ local'[t].seen = currentPlan /\ local'[t].rev = 0
      /\ local'[t].path = NoPath /\ local'[t].cs = 0 /\ local'[t].port = "none"
      /\ local'[t].epoch = 0
      /\ \A u \in Threads : u # t => pc'[u] = pc[u] /\ local'[u] = local[u]
  BY <1>1, <1>2, CallFacts
<1>4. /\ UNCHANGED <<connVars, svcBusy, opBusy, currentPlan, copyVars, files,
         cloneVars, sendVars>>
      /\ transfer' = [running |-> TRUE, cancel |-> Nobody]
  BY DEF ConfirmSend, TakeTransfer
<1>5. /\ \A u \in Threads : ~InUse(u) /\ send[u].at = "none" /\ pc[u] # "confirm"
  BY <1>1, FreeOfHolders, FreeOfSends DEF Holds
<1>6. TypeOK'
  <2>1. Grows
    BY <1>1, <1>4 DEF TypeOK, Grows, cloneVars, sendVars, connVars
  <2>2. /\ pc' \in [Threads -> Labels] /\ local' \in [Threads -> Locals]
        /\ \A u \in Threads : InRange(local[u])'
        /\ calls' \in Nat
    <3>1. /\ l.conn \in 0 .. sessions' /\ l.cs \in 0 .. Len(arms')
          /\ l.epoch \in 0 .. sent'
      BY <1>1, <1>4, <2>1, <1>2 DEF TypeOK, Grows
    <3>2. "ConfirmSend" \in AllMethods /\ "confirm" \in Labels
      BY DEF AllMethods, Labels, RadioMethods, CloneMethods, FileMethods, SendMethods
    <3> QED
      BY <1>1, <1>2, <2>1, <3>1, <3>2, CallTyped
  <2>3. transfer' \in [running : BOOLEAN, cancel : Threads \cup {Nobody}]
    BY <1>4
  <2> QED
    BY <1>1, <1>4, <2>1, <2>2, <2>3 DEF TypeOK, Grows, copyVars, cloneVars, sendVars,
       connVars
<1>7. \A u \in Threads : LabelInv(u)'
  BY <1>1, <1>5, <1>3, <1>4 DEF IInv, LabelInv, InUse, Arming, cloneVars, RadioMethods
<1>8. LockInv'
  BY <1>1, <1>3, <1>4, LockFrame DEF IInv, Apart, HoldLabels
<1>9. CloneInv' /\ PortInv'
  BY <1>1, <1>3, <1>4, <1>5, CloneFrame DEF IInv, Apart, CloneLabels
<1>10. SessionInv'
  BY <1>1, <1>5, <1>3, <1>4, Numbers DEF IInv, SessionInv, InUse, connVars, sendVars
<1>11. SendInv'
  BY <1>1, <1>5, <1>3, <1>4 DEF IInv, SendInv, sendVars
<1>12. ServiceInv'
  BY <1>1, <1>5, <1>3, <1>4 DEF IInv, ServiceInv, Serving, OnWire, sendVars
<1>13. CopyInv'
  BY <1>1, <1>3, <1>4, CopyFrame DEF IInv, Apart, CopyLabels, copyVars
<1>14. StaleInv'
  BY <1>1, <1>5, <1>3, <1>4 DEF IInv, StaleInv, InUse, Marking, copyVars, sendVars
<1> QED
  BY <1>6, <1>7, <1>8, <1>9, <1>10, <1>11, <1>12, <1>13, <1>14 DEF IInv

LEMMA ConfirmRefusedKeeps ==
  ASSUME IInv, NEW t \in Threads, ConfirmRefused(t), UNCHANGED uiOrder
  PROVE  IInv'
<1>1. /\ TypeOK /\ pc[t] = "confirm"
      /\ Goto(t, "idle")
  BY DEF IInv, ConfirmRefused
<1>2. /\ pc'[t] = "idle" /\ local'[t] = NoLocal
      /\ \A u \in Threads : u # t => pc'[u] = pc[u] /\ local'[u] = local[u]
      /\ calls' = calls
  BY <1>1, GotoFacts
<1>3. /\ UNCHANGED <<connVars, svcBusy, opBusy, currentPlan, copyVars, files,
         cloneVars, sendVars>>
      /\ transfer' = NoSend
  BY DEF ConfirmRefused
<1>4. \A u \in Threads : send[u].at = "none" /\ (u # t => pc[u] # "confirm")
  BY <1>1, ConfirmAlone
<1>5. TypeOK'
  <2>1. Grows
    BY <1>1, <1>3 DEF TypeOK, Grows, cloneVars, sendVars, connVars
  <2>2. /\ pc' \in [Threads -> Labels] /\ local' \in [Threads -> Locals]
        /\ \A u \in Threads : InRange(local[u])'
    BY <1>1, <2>1, GotoTyped DEF Labels
  <2>3. transfer' \in [running : BOOLEAN, cancel : Threads \cup {Nobody}]
    BY <1>3 DEF NoSend
  <2> QED
    BY <1>1, <1>3, <1>2, <2>1, <2>2, <2>3 DEF TypeOK, Grows, copyVars, cloneVars, sendVars,
       connVars
<1>6. \A u \in Threads : LabelInv(u)'
  BY <1>1, <1>4, <1>2, <1>3 DEF IInv, LabelInv, InUse, Arming, cloneVars, RadioMethods,
     NoLocal
<1>7. LockInv'
  BY <1>1, <1>2, <1>3, LockFrame DEF IInv, Apart, HoldLabels
<1>8. CloneInv' /\ PortInv'
  BY <1>1, <1>2, <1>3, <1>4, CloneFrame DEF IInv, Apart, CloneLabels
<1>9. SessionInv'
  BY <1>1, <1>4, <1>2, <1>3 DEF IInv, SessionInv, InUse, connVars, sendVars
<1>10. SendInv'
  BY <1>1, <1>4, <1>2, <1>3 DEF IInv, SendInv, sendVars, NoSend
<1>11. ServiceInv'
  BY <1>1, <1>4, <1>2, <1>3 DEF IInv, ServiceInv, Serving, OnWire, sendVars
<1>12. CopyInv'
  BY <1>1, <1>2, <1>3, CopyFrame DEF IInv, Apart, CopyLabels, copyVars
<1>13. StaleInv'
  BY <1>1, <1>4, <1>2, <1>3 DEF IInv, StaleInv, InUse, Marking, copyVars, sendVars
<1> QED
  BY <1>5, <1>6, <1>7, <1>8, <1>9, <1>10, <1>11, <1>12, <1>13 DEF IInv

LEMMA ConfirmStartsKeeps ==
  ASSUME IInv, NEW t \in Threads, ConfirmStarts(t), UNCHANGED uiOrder
  PROVE  IInv'
<1> DEFINE s == [Quiet EXCEPT !.at = "started", !.conn = local[t].conn,
!.plan = local[t].seen]
<1>1. /\ TypeOK /\ pc[t] = "confirm" /\ local[t].conn # 0
      /\ Goto(t, "idle")
  BY DEF IInv, ConfirmStarts
<1>2. /\ pc'[t] = "idle" /\ local'[t] = NoLocal
      /\ \A u \in Threads : u # t => pc'[u] = pc[u] /\ local'[u] = local[u]
      /\ calls' = calls
  BY <1>1, GotoFacts
<1>3. /\ local[t].conn \in 0 .. sessions /\ local[t].seen \in 0 .. sessions
      /\ local[t].conn \in Nat /\ local[t].seen \in Nat
  BY <1>1, Numbers DEF IInv, SessionInv, InRange
<1>4. /\ s \in Sends /\ s.at = "started" /\ s.conn = local[t].conn
      /\ s.plan = local[t].seen /\ s.conn \in 0 .. sessions /\ s.plan \in 0 .. sessions
  BY <1>3 DEF Sends, Quiet, Causes
<1>5. /\ UNCHANGED <<connVars, svcBusy, opBusy, currentPlan, copyVars, files,
         cloneVars, sent, told>>
      /\ transfer' = [running |-> TRUE, cancel |-> t]
      /\ send' = [send EXCEPT ![t] = s]
      /\ stopped' = [stopped EXCEPT ![t] = FALSE]
  BY DEF ConfirmStarts
<1> HIDE DEF s
<1>6. /\ \A u \in Threads : send[u].at = "none" /\ (u # t => pc[u] # "confirm")
      /\ local[t].conn = conn /\ conn # 0
  BY <1>1, ConfirmAlone DEF IInv, SessionInv
<1>7. send'[t] = s /\ \A u \in Threads : u # t => send'[u] = send[u]
  BY <1>1, <1>5 DEF TypeOK
<1>8. TypeOK'
  <2>1. Grows
    BY <1>1, <1>5 DEF TypeOK, Grows, cloneVars, connVars
  <2>2. /\ pc' \in [Threads -> Labels] /\ local' \in [Threads -> Locals]
        /\ \A u \in Threads : InRange(local[u])'
    BY <1>1, <2>1, GotoTyped DEF Labels
  <2>3. transfer' \in [running : BOOLEAN, cancel : Threads \cup {Nobody}]
    BY <1>5
  <2>4. send' \in [Threads -> Sends] /\ stopped' \in [Threads -> BOOLEAN]
    BY <1>1, <1>5, <1>4 DEF TypeOK
  <2>5. \A u \in Threads :
          send'[u].conn \in 0 .. sessions /\ send'[u].plan \in 0 .. sessions
    BY <1>1, <1>4, <1>7 DEF TypeOK
  <2> QED
    BY <1>1, <1>5, <1>2, <2>1, <2>2, <2>3, <2>4, <2>5 DEF TypeOK, Grows, copyVars,
       cloneVars,
       connVars
<1>9. \A u \in Threads : LabelInv(u)'
  BY <1>1, <1>6, <1>2, <1>5 DEF IInv, LabelInv, InUse, Arming, cloneVars, RadioMethods,
     NoLocal
<1>10. LockInv'
  BY <1>1, <1>2, <1>5, LockFrame DEF IInv, Apart, HoldLabels
<1>11. CloneInv' /\ PortInv'
  BY <1>1, <1>2, <1>5, <1>6, CloneFrame DEF IInv, Apart, CloneLabels
<1>12. SessionInv'
  BY <1>1, <1>6, <1>2, <1>5, <1>4, <1>7 DEF IInv, SessionInv, InUse, connVars
<1>13. SendInv'
  <2>1. \A u \in Threads : pc'[u] # "confirm" /\ (send'[u].at # "none" => u = t)
    BY <1>2, <1>6, <1>7
  <2>2. send'[t].at # "none"
    BY <1>4, <1>7
  <2> QED
    BY <1>5, <2>1, <2>2 DEF SendInv
<1>14. ServiceInv'
  BY <1>1, <1>6, <1>2, <1>5, <1>4, <1>7 DEF IInv, ServiceInv, Serving, OnWire
<1>15. CopyInv'
  BY <1>1, <1>2, <1>5, CopyFrame DEF IInv, Apart, CopyLabels, copyVars
<1>16. StaleInv'
  BY <1>1, <1>6, <1>2, <1>5, <1>4, <1>7 DEF IInv, StaleInv, InUse, Marking, copyVars
<1> QED
  BY <1>8, <1>9, <1>10, <1>11, <1>12, <1>13, <1>14, <1>15, <1>16 DEF IInv

LEMMA CancelTransferKeeps ==
  ASSUME IInv, NEW t \in Threads, CancelTransfer(t), UNCHANGED uiOrder
  PROVE  IInv'
<1>1. /\ TypeOK
      /\ transfer.cancel \in Threads
      /\ Call(t, "CancelTransfer", "idle", NoLocal)
  BY DEF IInv, CancelTransfer
<1>2. /\ pc[t] = "idle" /\ pc'[t] = "idle" /\ local'[t].op = "CancelTransfer"
      /\ local'[t].conn = 0 /\ local'[t].seen = 0 /\ local'[t].rev = 0
      /\ local'[t].path = NoPath /\ local'[t].cs = 0 /\ local'[t].port = "none"
      /\ local'[t].epoch = 0
      /\ \A u \in Threads : u # t => pc'[u] = pc[u] /\ local'[u] = local[u]
  BY <1>1, NoLocalTyped, CallFacts
<1>3. /\ UNCHANGED <<connVars, svcBusy, busyVars, currentPlan, copyVars, files,
         cloneVars, send, sent, told>>
      /\ stopped' = [stopped EXCEPT ![transfer.cancel] = TRUE]
  BY DEF CancelTransfer
<1>4. TypeOK'
  <2>1. Grows
    BY <1>1, <1>3 DEF TypeOK, Grows, cloneVars, connVars
  <2>2. /\ pc' \in [Threads -> Labels] /\ local' \in [Threads -> Locals]
        /\ \A u \in Threads : InRange(local[u])'
        /\ calls' \in Nat
    <3>1. /\ NoLocal.conn \in 0 .. sessions' /\ NoLocal.cs \in 0 .. Len(arms')
          /\ NoLocal.epoch \in 0 .. sent'
      BY <1>1, <1>3, <2>1, NoLocalTyped DEF TypeOK, Grows
    <3>2. "CancelTransfer" \in AllMethods /\ "idle" \in Labels
      BY DEF AllMethods, Labels, RadioMethods, CloneMethods, FileMethods, SendMethods
    <3> QED
      BY <1>1, NoLocalTyped, <2>1, <3>1, <3>2, CallTyped
  <2>3. stopped' \in [Threads -> BOOLEAN]
    BY <1>1, <1>3 DEF TypeOK
  <2> QED
    BY <1>1, <1>3, <2>1, <2>2, <2>3 DEF TypeOK, Grows, busyVars, copyVars, cloneVars,
       connVars
<1>5. \A u \in Threads : LabelInv(u)'
  BY <1>1, <1>2, <1>3 DEF IInv, LabelInv, InUse, Arming, cloneVars, RadioMethods
<1>6. LockInv'
  BY <1>1, <1>2, <1>3, LockFrame DEF IInv, Apart, HoldLabels, busyVars
<1>7. CloneInv' /\ PortInv'
  BY <1>1, <1>2, <1>3, CloneFrame DEF IInv, Apart, CloneLabels
<1>8. SessionInv'
  BY <1>1, <1>2, <1>3 DEF IInv, SessionInv, InUse, connVars
<1>9. SendInv'
  BY <1>1, <1>2, <1>3 DEF IInv, SendInv, busyVars
<1>10. ServiceInv'
  BY <1>1, <1>2, <1>3 DEF IInv, ServiceInv, Serving, OnWire
<1>11. CopyInv'
  BY <1>1, <1>2, <1>3, CopyFrame DEF IInv, Apart, CopyLabels, copyVars
<1>12. StaleInv'
  BY <1>1, <1>2, <1>3 DEF IInv, StaleInv, InUse, Marking, copyVars
<1> QED
  BY <1>4, <1>5, <1>6, <1>7, <1>8, <1>9, <1>10, <1>11, <1>12 DEF IInv

-----------------------------------------------------------------------------
(* The goroutine of a send.                                                *)

LEMMA SendAlone ==
  ASSUME IInv, NEW t \in Threads, send[t].at # "none"
  PROVE  /\ transfer = [running |-> TRUE, cancel |-> t] /\ send[t].conn = conn /\ conn # 0
         /\ \A u \in Threads : pc[u] # "confirm" /\ (u # t => send[u].at = "none")
<1>1. transfer = [running |-> TRUE, cancel |-> t] /\ send[t].conn = conn /\ conn # 0
  BY DEF IInv, SendInv, SessionInv
<1>2. \A u \in Threads : pc[u] # "confirm"
  BY DEF IInv, SendInv
<1>3. ASSUME NEW u \in Threads, send[u].at # "none"
      PROVE  u = t
  <2>1. transfer = [running |-> TRUE, cancel |-> u]
    BY <1>3 DEF IInv, SendInv
  <2> QED
    BY <1>1, <2>1
<1> QED
  BY <1>1, <1>2, <1>3

(* What a send that goes on leaves as it was.                              *)
LEMMA SendMoves ==
  ASSUME IInv, NEW t \in Threads, NEW s \in Sends,
         send[t].at # "none", send' = [send EXCEPT ![t] = s],
         s.at # "none", s.conn = send[t].conn, s.plan = send[t].plan,
         sent' \in Nat, sent =< sent', svcBusy' \subseteq svcBusy \cup {conn},
         UNCHANGED <<uiOrder, connVars, busyVars, currentPlan, copyVars, files, cloneVars,
                     callVars, stopped, calls>>
  PROVE  /\ TypeOK'
         /\ (\A u \in Threads : LabelInv(u)') /\ LockInv' /\ CloneInv' /\ PortInv'
         /\ SessionInv' /\ SendInv' /\ CopyInv'
         /\ send'[t] = s /\ \A u \in Threads : u # t => send'[u] = send[u]
<1>1. /\ TypeOK
      /\ send'[t] = s /\ \A u \in Threads : u # t => send'[u] = send[u]
  BY DEF IInv, TypeOK
<1>2. /\ transfer = [running |-> TRUE, cancel |-> t] /\ send[t].conn = conn /\ conn # 0
      /\ \A u \in Threads : pc[u] # "confirm" /\ (u # t => send[u].at = "none")
  BY SendAlone
<1>3. TypeOK'
  <2>1. svcBusy' \subseteq 1 .. sessions
    BY <1>1, <1>2, Numbers DEF TypeOK
  <2>2. \A u \in Threads : InRange(local[u])'
    <3> SUFFICES ASSUME NEW u \in Threads
                 PROVE  InRange(local[u])'
      OBVIOUS
    <3>1. InRange(local[u]) /\ sent \in Nat /\ sessions \in Nat /\ Len(arms) \in Nat
      BY <1>1, Numbers
    <3> QED
      BY <3>1 DEF InRange, connVars, cloneVars, callVars
  <2>3. send' \in [Threads -> Sends]
    BY <1>1 DEF TypeOK
  <2>4. \A u \in Threads :
          send'[u].conn \in 0 .. sessions /\ send'[u].plan \in 0 .. sessions
    BY <1>1 DEF TypeOK
  <2>5. baseline' \in 0 .. sent'
    BY <1>1, Numbers DEF TypeOK, copyVars
  <2> QED
    BY <1>1, <2>1, <2>2, <2>3, <2>4, <2>5
    DEF TypeOK, connVars, busyVars, copyVars, cloneVars, callVars
<1>4. \A u \in Threads : LabelInv(u)'
  BY DEF IInv, LabelInv, InUse, cloneVars, callVars
<1>5. LockInv'
  BY DEF IInv, LockInv, Holds, InUse, ArmHolds, Receiving, Name, busyVars, cloneVars,
     callVars
<1>6. CloneInv' /\ PortInv'
  BY DEF IInv, CloneInv, Serves, PortInv, ArmHolds, Receiving, Closes, cloneVars, callVars
<1>7. SessionInv'
  BY <1>1, <1>2 DEF IInv, SessionInv, InUse, connVars, callVars
<1>8. SendInv'
  BY <1>1, <1>2 DEF IInv, SendInv, busyVars, callVars
<1>9. CopyInv'
  BY DEF IInv, CopyInv, InUse, Saving, copyVars, callVars
<1> QED
  BY <1>1, <1>3, <1>4, <1>5, <1>6, <1>7, <1>8, <1>9

LEMMA SendEntersKeeps ==
  ASSUME IInv, NEW t \in Threads, SendEnters(t), UNCHANGED uiOrder
  PROVE  IInv'
<1>1. /\ TypeOK /\ send[t].at = "started"
      /\ UNCHANGED <<connVars, busyVars, currentPlan, copyVars, files, cloneVars, callVars,
                     stopped, sent, told, calls>>
  BY DEF IInv, SendEnters
<1>2. /\ send[t].conn = conn /\ sent' \in Nat /\ sent =< sent'
      /\ \A u \in Threads : pc[u] # "confirm" /\ (u # t => send[u].at = "none")
  BY <1>1, SendAlone, Numbers
<1>3. CASE ServiceBusy(send[t].conn)
  <2> DEFINE s == [send[t] EXCEPT !.at = "ended", !.cause = "busy"]
  <2>1. /\ s \in Sends /\ s.at = "ended" /\ s.conn = send[t].conn /\ s.plan = send[t].plan
        /\ s.cause = "busy" /\ s.at # "none"
    BY <1>1 DEF TypeOK, Sends, Causes
  <2>2. /\ send' = [send EXCEPT ![t] = s]
        /\ svcBusy' = svcBusy /\ svcBusy' \subseteq svcBusy \cup {conn}
    BY <1>1, <1>3 DEF SendEnters, TypeOK
  <2> HIDE DEF s
  <2>3. /\ TypeOK' /\ (\A u \in Threads : LabelInv(u)') /\ LockInv' /\ CloneInv' /\ PortInv'
        /\ SessionInv' /\ SendInv' /\ CopyInv'
        /\ send'[t] = s /\ \A u \in Threads : u # t => send'[u] = send[u]
    BY <1>1, <1>2, <2>1, <2>2, SendMoves
  <2>4. ServiceInv'
    BY <1>1, <1>2, <2>1, <2>2, <2>3 DEF IInv, ServiceInv, Serving, OnWire, callVars
  <2>5. StaleInv'
    BY <1>1, <1>2, <2>1, <2>3 DEF IInv, StaleInv, InUse, Marking, copyVars, callVars
  <2> QED
    BY <2>3, <2>4, <2>5 DEF IInv
<1>4. CASE ~ServiceBusy(send[t].conn)
  <2> DEFINE s == [send[t] EXCEPT !.at = "executing"]
  <2>1. /\ s \in Sends /\ s.at = "executing" /\ s.conn = send[t].conn
        /\ s.plan = send[t].plan
        /\ s.at # "none"
    BY <1>1 DEF TypeOK, Sends
  <2>2. /\ send' = [send EXCEPT ![t] = s]
        /\ svcBusy' = svcBusy \cup {conn} /\ conn \notin svcBusy
        /\ svcBusy' \subseteq svcBusy \cup {conn}
    BY <1>1, <1>2, <1>4 DEF SendEnters, TypeOK, ServiceBusy
  <2> HIDE DEF s
  <2>3. /\ TypeOK' /\ (\A u \in Threads : LabelInv(u)') /\ LockInv' /\ CloneInv' /\ PortInv'
        /\ SessionInv' /\ SendInv' /\ CopyInv'
        /\ send'[t] = s /\ \A u \in Threads : u # t => send'[u] = send[u]
    BY <1>1, <1>2, <2>1, <2>2, SendMoves
  <2>4. ServiceInv'
    BY <1>1, <1>2, <2>1, <2>2, <2>3 DEF IInv, ServiceInv, Serving, OnWire, callVars
  <2>5. StaleInv'
    BY <1>1, <1>2, <2>1, <2>3 DEF IInv, StaleInv, InUse, Marking, copyVars, callVars
  <2> QED
    BY <2>3, <2>4, <2>5 DEF IInv
<1> QED
  BY <1>3, <1>4

LEMMA SendReturnsKeeps ==
  ASSUME IInv, NEW t \in Threads, SendReturns(t), UNCHANGED uiOrder
  PROVE  IInv'
<1>1. PICK cause \in Endings(t) :
        /\ send' = [send EXCEPT ![t].at = "ended", ![t].cause = cause]
        /\ sent' = IF cause \in Reporting THEN sent + 1 ELSE sent
  BY DEF SendReturns
<1> DEFINE s == [send[t] EXCEPT !.at = "ended", !.cause = cause]
<1>2. /\ TypeOK /\ send[t].at = "executing" /\ svcBusy' = svcBusy \ {send[t].conn}
      /\ UNCHANGED <<connVars, busyVars, currentPlan, copyVars, files, cloneVars, callVars,
                     stopped, calls>>
  BY DEF IInv, SendReturns
<1>3. /\ s \in Sends /\ s.at = "ended" /\ s.conn = send[t].conn /\ s.plan = send[t].plan
      /\ s.cause = cause
  <2>1. cause \in Causes
    BY DEF Endings, Causes, Reporting
  <2> QED
    BY <1>2, <2>1 DEF TypeOK, Sends
<1>4. send' = [send EXCEPT ![t] = s]
  BY <1>1, <1>2 DEF TypeOK
<1> HIDE DEF s
<1>5. /\ send[t].conn = conn
      /\ \A u \in Threads : pc[u] # "confirm" /\ (u # t => send[u].at = "none")
  BY <1>2, SendAlone
<1>6. /\ sent \in Nat /\ sent' \in Nat /\ sent =< sent'
      /\ svcBusy' \subseteq svcBusy \cup {conn}
  BY <1>1, <1>2, Numbers
<1>7. /\ TypeOK' /\ (\A u \in Threads : LabelInv(u)') /\ LockInv' /\ CloneInv' /\ PortInv'
      /\ SessionInv' /\ SendInv' /\ CopyInv'
      /\ send'[t] = s /\ \A u \in Threads : u # t => send'[u] = send[u]
  BY <1>2, <1>3, <1>4, <1>6, SendMoves
<1>8. ServiceInv'
  BY <1>2, <1>3, <1>5, <1>7 DEF IInv, ServiceInv, Serving, OnWire, callVars
<1>9. StaleInv'
  BY <1>1, <1>2, <1>3, <1>5, <1>6, <1>7 DEF IInv, StaleInv, InUse, Marking, copyVars,
     callVars
<1> QED
  BY <1>7, <1>8, <1>9 DEF IInv

LEMMA SendEndsKeeps ==
  ASSUME IInv, NEW t \in Threads, SendEnds(t), UNCHANGED uiOrder
  PROVE  IInv'
<1>1. /\ TypeOK /\ send[t].at = "ended"
      /\ transfer' = NoSend /\ currentPlan' = 0 /\ send' = [send EXCEPT ![t] = Quiet]
      /\ UNCHANGED <<connVars, svcBusy, opBusy, working, workingPath, dirty, workingRev,
                     baseline, files, cloneVars, callVars, stopped, sent, calls>>
  BY DEF IInv, SendEnds
<1>2. \A u \in Threads : pc[u] # "confirm" /\ (u # t => send[u].at = "none")
  BY <1>1, SendAlone
<1>3. Quiet \in Sends /\ Quiet.at = "none" /\ Quiet.conn = 0 /\ Quiet.plan = 0
  BY DEF Quiet, Sends, Causes
<1>4. /\ send'[t] = Quiet /\ \A u \in Threads : u # t => send'[u] = send[u]
      /\ send' \in [Threads -> Sends]
  BY <1>1, <1>3 DEF TypeOK
<1>5. baselineStale' \in BOOLEAN
  BY DEF SendEnds
<1>6. baselineStale \/ Marking(t) => baselineStale'
  BY DEF SendEnds, MakesStale, Marking
<1>7. TypeOK'
  <2>1. transfer' \in [running : BOOLEAN, cancel : Threads \cup {Nobody}]
    BY <1>1 DEF NoSend
  <2>2. \A u \in Threads :
          send'[u].conn \in 0 .. sessions /\ send'[u].plan \in 0 .. sessions
    BY <1>1, <1>3, <1>4, Numbers DEF TypeOK
  <2>3. currentPlan' \in 0 .. sessions
    BY <1>1, Numbers
  <2>4. \A u \in Threads : InRange(local[u])'
    BY <1>1 DEF TypeOK, InRange, connVars, cloneVars, callVars
  <2> QED
    BY <1>1, <1>4, <1>5, <2>1, <2>2, <2>3, <2>4 DEF TypeOK, connVars, cloneVars, callVars
<1>8. \A u \in Threads : LabelInv(u)'
  BY <1>1 DEF IInv, LabelInv, InUse, cloneVars, callVars
<1>9. LockInv'
  BY <1>1 DEF IInv, LockInv, Holds, InUse, ArmHolds, Receiving, Name, cloneVars, callVars
<1>10. CloneInv' /\ PortInv'
  BY <1>1 DEF IInv, CloneInv, Serves, PortInv, ArmHolds, Receiving, Closes, cloneVars,
     callVars
<1>11. SessionInv'
  BY <1>1, <1>2, <1>3, <1>4 DEF IInv, SessionInv, InUse, connVars, callVars
<1>12. SendInv'
  BY <1>1, <1>2, <1>3, <1>4 DEF SendInv, NoSend, callVars
<1>13. ServiceInv'
  BY <1>1, <1>2, <1>3, <1>4 DEF IInv, ServiceInv, Serving, OnWire, callVars
<1>14. CopyInv'
  BY <1>1 DEF IInv, CopyInv, InUse, Saving, callVars
<1>15. StaleInv'
  BY <1>1, <1>2, <1>3, <1>4, <1>6 DEF IInv, StaleInv, InUse, Marking, callVars
<1> QED
  BY <1>7, <1>8, <1>9, <1>10, <1>11, <1>12, <1>13, <1>14, <1>15 DEF IInv

-----------------------------------------------------------------------------
(* Clone mode: ArmCloneRead.                                               *)

(* The cloneReadState of one arm changes.                                  *)
LEMMA ArmChanges ==
  ASSUME TypeOK, NEW i \in DOMAIN arms, NEW a \in Arms, arms' = [arms EXCEPT ![i] = a]
  PROVE  /\ arms' \in Seq(Arms) /\ Len(arms') = Len(arms) /\ DOMAIN arms' = DOMAIN arms
         /\ arms'[i] = a /\ \A j \in DOMAIN arms : j # i => arms'[j] = arms[j]
BY DEF TypeOK

LEMMA PortChanges ==
  ASSUME TypeOK, NEW i \in DOMAIN arms, NEW port \in Ports,
         arms' = [arms EXCEPT ![i].port = port]
  PROVE  /\ arms' \in Seq(Arms) /\ Len(arms') = Len(arms) /\ DOMAIN arms' = DOMAIN arms
         /\ arms'[i].port = port /\ arms'[i].cancelled = arms[i].cancelled
         /\ arms'[i].reception = arms[i].reception
         /\ \A j \in DOMAIN arms : j # i => arms'[j] = arms[j]
<1> DEFINE a == [arms[i] EXCEPT !.port = port]
<1>1. arms[i] \in Arms /\ arms' = [arms EXCEPT ![i] = a]
  BY DEF TypeOK
<1>2. /\ a \in Arms /\ a.port = port /\ a.cancelled = arms[i].cancelled
      /\ a.reception = arms[i].reception
  BY <1>1 DEF Arms
<1> HIDE DEF a
<1> QED
  BY <1>1, <1>2, ArmChanges

(* An arm that has not been cancelled holds App.opBusy.                    *)
LEMMA ArmingHolds ==
  ASSUME IInv, NEW t \in Threads, pc[t] \in Arming
  PROVE  /\ local[t].cs \in DOMAIN arms /\ local[t].cs # 0 /\ local[t].op = "ArmCloneRead"
         /\ uiOrder
         /\ ~arms[local[t].cs].cancelled =>
              /\ cloneState = local[t].cs
              /\ \A u \in Threads : u # t => ~Holds(u)
<1>1. local[t].cs \in DOMAIN arms /\ local[t].op = "ArmCloneRead" /\ uiOrder
  BY DEF IInv, LabelInv, Arming
<1>2. local[t].cs # 0
  BY <1>1 DEF IInv, TypeOK
<1>3. ~arms[local[t].cs].cancelled => ArmHolds(t) /\ Holds(t)
  BY DEF ArmHolds, Holds
<1> QED
  BY <1>1, <1>2, <1>3 DEF IInv, LockInv, CloneInv, Serves

LEMMA ArmCloneReadKeeps ==
  ASSUME DialoguesKept, IInv, NEW t \in Threads, ArmCloneRead(t), UNCHANGED uiOrder
  PROVE  IInv'
<1> DEFINE a == [cancelled |-> FALSE, port |-> "none", reception |-> FALSE]
<1> DEFINE l == [NoLocal EXCEPT !.cs = Len(arms) + 1]
<1>1. /\ TypeOK
      /\ opBusy = NoOp
      /\ Call(t, "ArmCloneRead", "arming", l)
  BY DEF IInv, ArmCloneRead, Reserve
<1>2. /\ l \in Locals
      /\ l.conn = 0 /\ l.seen = 0 /\ l.rev = 0 /\ l.path = NoPath
      /\ l.cs = Len(arms) + 1 /\ l.port = "none" /\ l.epoch = 0
  BY <1>1, NoLocalTyped, Numbers DEF Locals
<1> HIDE DEF l
<1>3. /\ pc[t] = "idle" /\ pc'[t] = "arming" /\ local'[t].op = "ArmCloneRead"
      /\ local'[t].conn = 0 /\ local'[t].seen = 0 /\ local'[t].rev = 0
      /\ local'[t].path = NoPath /\ local'[t].cs = Len(arms) + 1 /\ local'[t].port = "none"
      /\ local'[t].epoch = 0
      /\ \A u \in Threads : u # t => pc'[u] = pc[u] /\ local'[u] = local[u]
  BY <1>1, <1>2, CallFacts
<1>4. uiOrder
  BY <1>1, CallMoves, OnlyInWindow DEF CloneMethods
<1>5. a \in Arms /\ ~a.cancelled /\ a.port = "none" /\ ~a.reception
  BY DEF Arms, Ports
<1>6. /\ UNCHANGED <<connVars, svcBusy, transfer, currentPlan, copyVars, files,
         sendVars>>
      /\ opBusy' = "ArmCloneRead" /\ cloneState' = Len(arms) + 1
      /\ arms' = Append(arms, a)
  BY DEF ArmCloneRead, Reserve
<1>7. /\ cloneState = 0 /\ \A u \in Threads : ~Holds(u)
  BY <1>1, FreeOfHolders
<1>8. /\ arms' \in Seq(Arms) /\ Len(arms') = Len(arms) + 1
      /\ DOMAIN arms' = 1 .. Len(arms) + 1
      /\ arms'[Len(arms) + 1] = a /\ \A j \in DOMAIN arms : arms'[j] = arms[j]
      /\ DOMAIN arms = 1 .. Len(arms) /\ Len(arms) \in Nat
  BY <1>1, <1>5, <1>6 DEF TypeOK
<1>9. Holds(t)' /\ \A u \in Threads : u # t => ~Holds(u)'
  BY <1>1, <1>7, <1>3, <1>5, <1>8 DEF IInv, LabelInv, Holds, InUse, ArmHolds, Receiving,
     Arming
<1>10. TypeOK'
  <2>1. Grows
    BY <1>1, <1>6, <1>8 DEF TypeOK, Grows, sendVars, connVars
  <2>2. /\ pc' \in [Threads -> Labels] /\ local' \in [Threads -> Locals]
        /\ \A u \in Threads : InRange(local[u])'
        /\ calls' \in Nat
    <3>1. /\ l.conn \in 0 .. sessions' /\ l.cs \in 0 .. Len(arms')
          /\ l.epoch \in 0 .. sent'
      BY <1>1, <1>6, <2>1, <1>2, <1>8 DEF TypeOK, Grows
    <3>2. "ArmCloneRead" \in AllMethods /\ "arming" \in Labels
      BY DEF AllMethods, Labels, RadioMethods, CloneMethods, FileMethods, SendMethods
    <3> QED
      BY <1>1, <1>2, <2>1, <3>1, <3>2, CallTyped
  <2> QED
    BY <1>1, <1>6, <2>1, <2>2 DEF TypeOK, Grows, copyVars, sendVars, connVars, Names
<1>11. \A u \in Threads : LabelInv(u)'
  BY <1>1, <1>7, <1>3, <1>6, <1>4, <1>8 DEF IInv, LabelInv, InUse, Arming, RadioMethods
<1>12. LockInv'
  BY <1>3, <1>6, <1>7, <1>9 DEF IInv, LockInv, Name, RadioMethods
<1>13. CloneInv'
  <2>1. cloneState' # 0 => ~arms'[cloneState'].cancelled
    BY <1>1, <1>3, <1>6, <1>7, <1>5, <1>8, <1>9 DEF IInv, CloneInv, Holds, InUse
  <2>2. \A u \in Threads : u # t => Serves(u)'
    BY <1>1, <1>3, <1>6, <1>7, <1>5, <1>8, <1>9 DEF IInv, CloneInv, LabelInv, Serves,
       ArmHolds,
       Arming, Receiving, Holds, InUse
  <2>3. Serves(t)'
    BY <1>1, <1>3, <1>6, <1>7, <1>5, <1>8, <1>9 DEF IInv, CloneInv, Serves, ArmHolds,
       Arming,
       Receiving, Holds, InUse
  <2>4. \A u, v \in Threads :
          pc'[u] \in Arming /\ pc'[v] \in Arming /\ local'[u].cs = local'[v].cs
            => u = v
    BY <1>1, <1>3, <1>6, <1>7, <1>5, <1>8, <1>9 DEF IInv, CloneInv, LabelInv, Arming, Holds,
       InUse
  <2> QED
    BY <2>1, <2>2, <2>3, <2>4 DEF CloneInv
<1>14. PortInv'
  <2> SUFFICES ASSUME NEW i \in DOMAIN arms', arms'[i].port = "open"
               PROVE  \E u \in Threads : Closes(u, i)'
    BY DEF PortInv
  <2>1. i \in DOMAIN arms /\ arms[i].port = "open" /\ i # 0
    BY <1>5, <1>8
  <2>2. PICK u \in Threads : Closes(u, i)
    BY <1>7, <2>1 DEF IInv, PortInv
  <2>3. u # t
    BY <1>3, <2>2 DEF Closes
  <2> QED
    BY <1>3, <2>2, <2>3 DEF Closes
<1>15. SessionInv' /\ SendInv' /\ ServiceInv'
  BY <1>1, <1>3, <1>6, <1>4, SessionFrame DEF IInv, Apart, SessionLabels
<1>16. CopyInv'
  BY <1>1, <1>3, <1>6, <1>4, CopyFrame DEF IInv, Apart, CopyLabels, copyVars
<1>17. StaleInv'
  BY <1>1, <1>3, <1>6, <1>4, StaleFrame DEF IInv, Apart, ReadLabels, copyVars
<1> QED
  BY <1>10, <1>11, <1>12, <1>13, <1>14, <1>15, <1>16, <1>17 DEF IInv

LEMMA ArmOpensPortLateKeeps ==
  ASSUME IInv, NEW t \in Threads,
         ArmOpensPort(t), Cancelled(local[t].cs), Goto(t, "idle"), UNCHANGED arms,
         UNCHANGED uiOrder
  PROVE  IInv'
<1>1. /\ TypeOK /\ pc[t] = "arming" /\ arms[local[t].cs].cancelled
      /\ Goto(t, "idle")
  BY DEF IInv, ArmOpensPort, Cancelled
<1>2. /\ pc'[t] = "idle" /\ local'[t] = NoLocal
      /\ \A u \in Threads : u # t => pc'[u] = pc[u] /\ local'[u] = local[u]
      /\ calls' = calls
  BY <1>1, GotoFacts
<1>3. /\ UNCHANGED <<connVars, svcBusy, busyVars, currentPlan, copyVars, files,
         cloneVars, sendVars>>
  BY DEF ArmOpensPort, cloneVars
<1>4. TypeOK'
  <2>1. Grows
    BY <1>1, <1>3 DEF TypeOK, Grows, cloneVars, sendVars, connVars
  <2>2. /\ pc' \in [Threads -> Labels] /\ local' \in [Threads -> Locals]
        /\ \A u \in Threads : InRange(local[u])'
    BY <1>1, <2>1, GotoTyped DEF Labels
  <2> QED
    BY <1>1, <1>3, <1>2, <2>1, <2>2 DEF TypeOK, Grows, busyVars, copyVars, cloneVars,
       sendVars,
       connVars
<1>5. \A u \in Threads : LabelInv(u)'
  BY <1>1, <1>2, <1>3 DEF IInv, LabelInv, InUse, Arming, cloneVars, RadioMethods, NoLocal
<1>6. LockInv'
  BY <1>1, <1>2, <1>3 DEF IInv, LockInv, Holds, InUse, Arming, ArmHolds, Receiving, Name,
     busyVars, cloneVars
<1>7. CloneInv'
  BY <1>1, <1>2, <1>3 DEF IInv, CloneInv, Serves, Arming, ArmHolds, Receiving, cloneVars
<1>8. PortInv'
  BY <1>1, <1>2, <1>3 DEF IInv, PortInv, Closes, cloneVars
<1>9. SessionInv' /\ SendInv' /\ ServiceInv'
  BY <1>1, <1>2, <1>3, SessionFrame DEF IInv, Apart, SessionLabels, busyVars
<1>10. CopyInv'
  BY <1>1, <1>2, <1>3, CopyFrame DEF IInv, Apart, CopyLabels, copyVars
<1>11. StaleInv'
  BY <1>1, <1>2, <1>3, StaleFrame DEF IInv, Apart, ReadLabels, copyVars
<1> QED
  BY <1>4, <1>5, <1>6, <1>7, <1>8, <1>9, <1>10, <1>11 DEF IInv

LEMMA ArmOpensPortKeeps ==
  ASSUME IInv, NEW t \in Threads,
         ArmOpensPort(t), ~Cancelled(local[t].cs), Goto(t, "listening"),
         arms' = [arms EXCEPT ![local[t].cs].port = "open"], UNCHANGED uiOrder
  PROVE  IInv'
<1>1. /\ TypeOK /\ pc[t] = "arming" /\ ~arms[local[t].cs].cancelled
      /\ Goto(t, "listening")
  BY DEF IInv, ArmOpensPort, Cancelled
<1>2. /\ pc'[t] = "listening" /\ local'[t] = local[t]
      /\ \A u \in Threads : u # t => pc'[u] = pc[u] /\ local'[u] = local[u]
      /\ calls' = calls
  BY <1>1, GotoFacts
<1>3. /\ UNCHANGED <<connVars, svcBusy, busyVars, currentPlan, copyVars, files,
         cloneState, sendVars>>
  BY DEF ArmOpensPort
<1>4. /\ local[t].cs \in DOMAIN arms /\ local[t].cs # 0 /\ local[t].op = "ArmCloneRead"
      /\ uiOrder
      /\ ~arms[local[t].cs].cancelled =>
           cloneState = local[t].cs /\ \A u \in Threads : u # t => ~Holds(u)
  BY <1>1, ArmingHolds DEF Arming
<1>5. /\ arms' \in Seq(Arms) /\ Len(arms') = Len(arms) /\ DOMAIN arms' = DOMAIN arms
      /\ arms'[local[t].cs].port = "open" /\ ~arms'[local[t].cs].cancelled
      /\ arms'[local[t].cs].reception = arms[local[t].cs].reception
      /\ \A j \in DOMAIN arms : j # local[t].cs => arms'[j] = arms[j]
  BY <1>1, <1>4, PortChanges DEF Ports
<1>6. TypeOK'
  <2>1. Grows
    BY <1>1, <1>3, <1>5 DEF TypeOK, Grows, sendVars, connVars
  <2>2. /\ pc' \in [Threads -> Labels] /\ local' \in [Threads -> Locals]
        /\ \A u \in Threads : InRange(local[u])'
    BY <1>1, <2>1, GotoTyped DEF Labels
  <2>3. Len(arms) \in Nat
    BY <1>1, Numbers
  <2> QED
    BY <1>1, <1>3, <1>2, <2>1, <2>2, <2>3 DEF TypeOK, Grows, busyVars, copyVars, sendVars,
       connVars
<1>7. \A u \in Threads : LabelInv(u)'
  BY <1>1, <1>4, <1>2, <1>3, <1>5 DEF IInv, LabelInv, InUse, Arming, RadioMethods
<1>8. LockInv'
  BY <1>1, <1>4, <1>2, <1>3, <1>5 DEF IInv, LockInv, Holds, InUse, Arming, ArmHolds,
     Receiving, Name, busyVars
<1>9. CloneInv'
  <2>1. cloneState' # 0 => ~arms'[cloneState'].cancelled
    BY <1>1, <1>2, <1>3, <1>4, <1>5 DEF IInv, CloneInv, Holds
  <2>2. \A u \in Threads : u # t => Serves(u)'
    BY <1>1, <1>2, <1>3, <1>4, <1>5 DEF IInv, CloneInv, LabelInv, Serves, ArmHolds, Arming,
       Receiving, Holds
  <2>3. Serves(t)'
    BY <1>1, <1>2, <1>3, <1>4, <1>5 DEF IInv, CloneInv, Serves, ArmHolds, Arming, Receiving,
       Holds
  <2>4. \A u, v \in Threads :
          pc'[u] \in Arming /\ pc'[v] \in Arming /\ local'[u].cs = local'[v].cs
            => u = v
    BY <1>1, <1>2, <1>3, <1>4, <1>5 DEF IInv, CloneInv, LabelInv, Arming, Holds
  <2> QED
    BY <2>1, <2>2, <2>3, <2>4 DEF CloneInv
<1>10. PortInv'
  BY <1>1, <1>4, <1>2, <1>3, <1>5 DEF IInv, PortInv, Closes
<1>11. SessionInv' /\ SendInv' /\ ServiceInv'
  BY <1>1, <1>2, <1>3, SessionFrame DEF IInv, Apart, SessionLabels, busyVars
<1>12. CopyInv'
  BY <1>1, <1>2, <1>3, CopyFrame DEF IInv, Apart, CopyLabels, copyVars
<1>13. StaleInv'
  BY <1>1, <1>2, <1>3, StaleFrame DEF IInv, Apart, ReadLabels, copyVars
<1> QED
  BY <1>6, <1>7, <1>8, <1>9, <1>10, <1>11, <1>12, <1>13 DEF IInv

LEMMA ArmOpensPortFailsKeeps ==
  ASSUME IInv, NEW t \in Threads,
         ArmOpensPort(t), Goto(t, "abandon"), UNCHANGED arms, UNCHANGED uiOrder
  PROVE  IInv'
<1>1. /\ TypeOK /\ pc[t] = "arming"
      /\ Goto(t, "abandon")
  BY DEF IInv, ArmOpensPort
<1>2. /\ pc'[t] = "abandon" /\ local'[t] = local[t]
      /\ \A u \in Threads : u # t => pc'[u] = pc[u] /\ local'[u] = local[u]
      /\ calls' = calls
  BY <1>1, GotoFacts
<1>3. /\ UNCHANGED <<connVars, svcBusy, busyVars, currentPlan, copyVars, files,
         cloneVars, sendVars>>
  BY DEF ArmOpensPort, cloneVars
<1>4. /\ local[t].cs \in DOMAIN arms /\ local[t].cs # 0 /\ local[t].op = "ArmCloneRead"
      /\ uiOrder
      /\ ~arms[local[t].cs].cancelled =>
           cloneState = local[t].cs /\ \A u \in Threads : u # t => ~Holds(u)
  BY <1>1, ArmingHolds DEF Arming
<1>5. TypeOK'
  <2>1. Grows
    BY <1>1, <1>3 DEF TypeOK, Grows, cloneVars, sendVars, connVars
  <2>2. /\ pc' \in [Threads -> Labels] /\ local' \in [Threads -> Locals]
        /\ \A u \in Threads : InRange(local[u])'
    BY <1>1, <2>1, GotoTyped DEF Labels
  <2> QED
    BY <1>1, <1>3, <1>2, <2>1, <2>2 DEF TypeOK, Grows, busyVars, copyVars, cloneVars,
       sendVars,
       connVars
<1>6. \A u \in Threads : LabelInv(u)'
  BY <1>1, <1>4, <1>2, <1>3 DEF IInv, LabelInv, InUse, Arming, cloneVars, RadioMethods
<1>7. LockInv'
  BY <1>1, <1>4, <1>2, <1>3 DEF IInv, LockInv, Holds, InUse, Arming, ArmHolds, Receiving,
     Name, busyVars, cloneVars
<1>8. CloneInv'
  BY <1>1, <1>4, <1>2, <1>3 DEF IInv, CloneInv, Serves, Arming, ArmHolds, Receiving,
     cloneVars
<1>9. PortInv'
  BY <1>1, <1>4, <1>2, <1>3 DEF IInv, PortInv, Closes, cloneVars
<1>10. SessionInv' /\ SendInv' /\ ServiceInv'
  BY <1>1, <1>2, <1>3, SessionFrame DEF IInv, Apart, SessionLabels, busyVars
<1>11. CopyInv'
  BY <1>1, <1>2, <1>3, CopyFrame DEF IInv, Apart, CopyLabels, copyVars
<1>12. StaleInv'
  BY <1>1, <1>2, <1>3, StaleFrame DEF IInv, Apart, ReadLabels, copyVars
<1> QED
  BY <1>5, <1>6, <1>7, <1>8, <1>9, <1>10, <1>11, <1>12 DEF IInv

LEMMA ArmListensLateKeeps ==
  ASSUME IInv, NEW t \in Threads,
         ArmListens(t), Cancelled(local[t].cs), Goto(t, "idle"),
         arms' = [arms EXCEPT ![local[t].cs].port = "closed"], UNCHANGED uiOrder
  PROVE  IInv'
<1>1. /\ TypeOK /\ pc[t] = "listening" /\ arms[local[t].cs].cancelled
      /\ Goto(t, "idle")
  BY DEF IInv, ArmListens, Cancelled
<1>2. /\ pc'[t] = "idle" /\ local'[t] = NoLocal
      /\ \A u \in Threads : u # t => pc'[u] = pc[u] /\ local'[u] = local[u]
      /\ calls' = calls
  BY <1>1, GotoFacts
<1>3. /\ UNCHANGED <<connVars, svcBusy, busyVars, currentPlan, copyVars, files,
         cloneState, sendVars>>
  BY DEF ArmListens
<1>4. /\ local[t].cs \in DOMAIN arms /\ local[t].cs # 0 /\ local[t].op = "ArmCloneRead"
      /\ uiOrder
      /\ ~arms[local[t].cs].cancelled =>
           cloneState = local[t].cs /\ \A u \in Threads : u # t => ~Holds(u)
  BY <1>1, ArmingHolds DEF Arming
<1>5. /\ arms' \in Seq(Arms) /\ Len(arms') = Len(arms) /\ DOMAIN arms' = DOMAIN arms
      /\ arms'[local[t].cs].port = "closed"
      /\ arms'[local[t].cs].cancelled = arms[local[t].cs].cancelled
      /\ arms'[local[t].cs].reception = arms[local[t].cs].reception
      /\ \A j \in DOMAIN arms : j # local[t].cs => arms'[j] = arms[j]
  BY <1>1, <1>4, PortChanges DEF Ports
<1>6. TypeOK'
  <2>1. Grows
    BY <1>1, <1>3, <1>5 DEF TypeOK, Grows, sendVars, connVars
  <2>2. /\ pc' \in [Threads -> Labels] /\ local' \in [Threads -> Locals]
        /\ \A u \in Threads : InRange(local[u])'
    BY <1>1, <2>1, GotoTyped DEF Labels
  <2>3. Len(arms) \in Nat
    BY <1>1, Numbers
  <2> QED
    BY <1>1, <1>3, <1>2, <2>1, <2>2, <2>3 DEF TypeOK, Grows, busyVars, copyVars, sendVars,
       connVars
<1>7. \A u \in Threads : LabelInv(u)'
  BY <1>1, <1>4, <1>2, <1>3, <1>5 DEF IInv, LabelInv, InUse, Arming, RadioMethods, NoLocal
<1>8. LockInv'
  BY <1>1, <1>4, <1>2, <1>3, <1>5 DEF IInv, LockInv, Holds, InUse, Arming, ArmHolds,
     Receiving, Name, busyVars
<1>9. CloneInv'
  <2>1. cloneState' # 0 => ~arms'[cloneState'].cancelled
    BY <1>1, <1>2, <1>3, <1>4, <1>5 DEF IInv, CloneInv, Holds
  <2>2. \A u \in Threads : u # t => Serves(u)'
    BY <1>1, <1>2, <1>3, <1>4, <1>5 DEF IInv, CloneInv, LabelInv, Serves, ArmHolds, Arming,
       Receiving, Holds
  <2>3. Serves(t)'
    BY <1>1, <1>2, <1>3, <1>4, <1>5 DEF IInv, CloneInv, Serves, ArmHolds, Arming, Receiving,
       Holds
  <2>4. \A u, v \in Threads :
          pc'[u] \in Arming /\ pc'[v] \in Arming /\ local'[u].cs = local'[v].cs
            => u = v
    BY <1>1, <1>2, <1>3, <1>4, <1>5 DEF IInv, CloneInv, LabelInv, Arming, Holds
  <2> QED
    BY <2>1, <2>2, <2>3, <2>4 DEF CloneInv
<1>10. PortInv'
  BY <1>1, <1>4, <1>2, <1>3, <1>5 DEF IInv, PortInv, Closes
<1>11. SessionInv' /\ SendInv' /\ ServiceInv'
  BY <1>1, <1>2, <1>3, SessionFrame DEF IInv, Apart, SessionLabels, busyVars
<1>12. CopyInv'
  BY <1>1, <1>2, <1>3, CopyFrame DEF IInv, Apart, CopyLabels, copyVars
<1>13. StaleInv'
  BY <1>1, <1>2, <1>3, StaleFrame DEF IInv, Apart, ReadLabels, copyVars
<1> QED
  BY <1>6, <1>7, <1>8, <1>9, <1>10, <1>11, <1>12, <1>13 DEF IInv

LEMMA ArmListensKeeps ==
  ASSUME IInv, NEW t \in Threads,
         ArmListens(t), ~Cancelled(local[t].cs), Goto(t, "idle"),
         arms' = [arms EXCEPT ![local[t].cs].reception = TRUE], UNCHANGED uiOrder
  PROVE  IInv'
<1> DEFINE a == [arms[local[t].cs] EXCEPT !.reception = TRUE]
<1>1. /\ TypeOK /\ pc[t] = "listening" /\ ~arms[local[t].cs].cancelled
      /\ Goto(t, "idle")
  BY DEF IInv, ArmListens, Cancelled
<1>2. /\ pc'[t] = "idle" /\ local'[t] = NoLocal
      /\ \A u \in Threads : u # t => pc'[u] = pc[u] /\ local'[u] = local[u]
      /\ calls' = calls
  BY <1>1, GotoFacts
<1>3. /\ UNCHANGED <<connVars, svcBusy, busyVars, currentPlan, copyVars, files,
         cloneState, sendVars>>
  BY DEF ArmListens
<1>4. /\ local[t].cs \in DOMAIN arms /\ local[t].cs # 0 /\ local[t].op = "ArmCloneRead"
      /\ uiOrder
      /\ ~arms[local[t].cs].cancelled =>
           cloneState = local[t].cs /\ \A u \in Threads : u # t => ~Holds(u)
  BY <1>1, ArmingHolds DEF Arming
<1>5. arms[local[t].cs] \in Arms
  BY <1>1, <1>4 DEF TypeOK
<1>6. a \in Arms /\ a.port = arms[local[t].cs].port /\ ~a.cancelled
  BY <1>1, <1>5 DEF Arms
<1>7. /\ arms' \in Seq(Arms) /\ Len(arms') = Len(arms) /\ DOMAIN arms' = DOMAIN arms
      /\ arms'[local[t].cs].port = arms[local[t].cs].port
      /\ ~arms'[local[t].cs].cancelled
      /\ \A j \in DOMAIN arms : j # local[t].cs => arms'[j] = arms[j]
  BY <1>1, <1>4, <1>6, ArmChanges DEF TypeOK
<1>8. TypeOK'
  <2>1. Grows
    BY <1>1, <1>3, <1>7 DEF TypeOK, Grows, sendVars, connVars
  <2>2. /\ pc' \in [Threads -> Labels] /\ local' \in [Threads -> Locals]
        /\ \A u \in Threads : InRange(local[u])'
    BY <1>1, <2>1, GotoTyped DEF Labels
  <2>3. Len(arms) \in Nat
    BY <1>1, Numbers
  <2> QED
    BY <1>1, <1>3, <1>2, <2>1, <2>2, <2>3 DEF TypeOK, Grows, busyVars, copyVars, sendVars,
       connVars
<1>9. \A u \in Threads : LabelInv(u)'
  BY <1>1, <1>4, <1>2, <1>3, <1>7 DEF IInv, LabelInv, InUse, Arming, RadioMethods, NoLocal
<1>10. LockInv'
  BY <1>1, <1>4, <1>2, <1>3, <1>7 DEF IInv, LockInv, Holds, InUse, Arming, ArmHolds,
     Receiving, Name, busyVars
<1>11. CloneInv'
  <2>1. cloneState' # 0 => ~arms'[cloneState'].cancelled
    BY <1>1, <1>2, <1>3, <1>4, <1>7 DEF IInv, CloneInv, Holds
  <2>2. \A u \in Threads : u # t => Serves(u)'
    BY <1>1, <1>2, <1>3, <1>4, <1>7 DEF IInv, CloneInv, LabelInv, Serves, ArmHolds, Arming,
       Receiving, Holds
  <2>3. Serves(t)'
    BY <1>1, <1>2, <1>3, <1>4, <1>7 DEF IInv, CloneInv, Serves, ArmHolds, Arming, Receiving,
       Holds
  <2>4. \A u, v \in Threads :
          pc'[u] \in Arming /\ pc'[v] \in Arming /\ local'[u].cs = local'[v].cs
            => u = v
    BY <1>1, <1>2, <1>3, <1>4, <1>7 DEF IInv, CloneInv, LabelInv, Arming, Holds
  <2> QED
    BY <2>1, <2>2, <2>3, <2>4 DEF CloneInv
<1>12. PortInv'
  BY <1>1, <1>4, <1>2, <1>3, <1>7 DEF IInv, PortInv, Closes
<1>13. SessionInv' /\ SendInv' /\ ServiceInv'
  BY <1>1, <1>2, <1>3, SessionFrame DEF IInv, Apart, SessionLabels, busyVars
<1>14. CopyInv'
  BY <1>1, <1>2, <1>3, CopyFrame DEF IInv, Apart, CopyLabels, copyVars
<1>15. StaleInv'
  BY <1>1, <1>2, <1>3, StaleFrame DEF IInv, Apart, ReadLabels, copyVars
<1> QED
  BY <1>8, <1>9, <1>10, <1>11, <1>12, <1>13, <1>14, <1>15 DEF IInv

LEMMA ArmListensFailsKeeps ==
  ASSUME IInv, NEW t \in Threads,
         ArmListens(t), Goto(t, "abandon"),
         arms' = [arms EXCEPT ![local[t].cs].port = "closed"], UNCHANGED uiOrder
  PROVE  IInv'
<1>1. /\ TypeOK /\ pc[t] = "listening"
      /\ Goto(t, "abandon")
  BY DEF IInv, ArmListens
<1>2. /\ pc'[t] = "abandon" /\ local'[t] = local[t]
      /\ \A u \in Threads : u # t => pc'[u] = pc[u] /\ local'[u] = local[u]
      /\ calls' = calls
  BY <1>1, GotoFacts
<1>3. /\ UNCHANGED <<connVars, svcBusy, busyVars, currentPlan, copyVars, files,
         cloneState, sendVars>>
  BY DEF ArmListens
<1>4. /\ local[t].cs \in DOMAIN arms /\ local[t].cs # 0 /\ local[t].op = "ArmCloneRead"
      /\ uiOrder
      /\ ~arms[local[t].cs].cancelled =>
           cloneState = local[t].cs /\ \A u \in Threads : u # t => ~Holds(u)
  BY <1>1, ArmingHolds DEF Arming
<1>5. /\ arms' \in Seq(Arms) /\ Len(arms') = Len(arms) /\ DOMAIN arms' = DOMAIN arms
      /\ arms'[local[t].cs].port = "closed"
      /\ arms'[local[t].cs].cancelled = arms[local[t].cs].cancelled
      /\ arms'[local[t].cs].reception = arms[local[t].cs].reception
      /\ \A j \in DOMAIN arms : j # local[t].cs => arms'[j] = arms[j]
  BY <1>1, <1>4, PortChanges DEF Ports
<1>6. TypeOK'
  <2>1. Grows
    BY <1>1, <1>3, <1>5 DEF TypeOK, Grows, sendVars, connVars
  <2>2. /\ pc' \in [Threads -> Labels] /\ local' \in [Threads -> Locals]
        /\ \A u \in Threads : InRange(local[u])'
    BY <1>1, <2>1, GotoTyped DEF Labels
  <2>3. Len(arms) \in Nat
    BY <1>1, Numbers
  <2> QED
    BY <1>1, <1>3, <1>2, <2>1, <2>2, <2>3 DEF TypeOK, Grows, busyVars, copyVars, sendVars,
       connVars
<1>7. \A u \in Threads : LabelInv(u)'
  BY <1>1, <1>4, <1>2, <1>3, <1>5 DEF IInv, LabelInv, InUse, Arming, RadioMethods
<1>8. LockInv'
  BY <1>1, <1>4, <1>2, <1>3, <1>5 DEF IInv, LockInv, Holds, InUse, Arming, ArmHolds,
     Receiving, Name, busyVars
<1>9. CloneInv'
  <2>1. cloneState' # 0 => ~arms'[cloneState'].cancelled
    BY <1>1, <1>2, <1>3, <1>4, <1>5 DEF IInv, CloneInv, Holds
  <2>2. \A u \in Threads : u # t => Serves(u)'
    BY <1>1, <1>2, <1>3, <1>4, <1>5 DEF IInv, CloneInv, LabelInv, Serves, ArmHolds, Arming,
       Receiving, Holds
  <2>3. Serves(t)'
    BY <1>1, <1>2, <1>3, <1>4, <1>5 DEF IInv, CloneInv, Serves, ArmHolds, Arming, Receiving,
       Holds
  <2>4. \A u, v \in Threads :
          pc'[u] \in Arming /\ pc'[v] \in Arming /\ local'[u].cs = local'[v].cs
            => u = v
    BY <1>1, <1>2, <1>3, <1>4, <1>5 DEF IInv, CloneInv, LabelInv, Arming, Holds
  <2> QED
    BY <2>1, <2>2, <2>3, <2>4 DEF CloneInv
<1>10. PortInv'
  BY <1>1, <1>4, <1>2, <1>3, <1>5 DEF IInv, PortInv, Closes
<1>11. SessionInv' /\ SendInv' /\ ServiceInv'
  BY <1>1, <1>2, <1>3, SessionFrame DEF IInv, Apart, SessionLabels, busyVars
<1>12. CopyInv'
  BY <1>1, <1>2, <1>3, CopyFrame DEF IInv, Apart, CopyLabels, copyVars
<1>13. StaleInv'
  BY <1>1, <1>2, <1>3, StaleFrame DEF IInv, Apart, ReadLabels, copyVars
<1> QED
  BY <1>6, <1>7, <1>8, <1>9, <1>10, <1>11, <1>12, <1>13 DEF IInv

LEMMA AbandonArmLateKeeps ==
  ASSUME IInv, NEW t \in Threads, AbandonArm(t), Overtaken(t), UNCHANGED uiOrder
  PROVE  IInv'
<1>1. /\ TypeOK /\ pc[t] = "abandon" /\ arms[local[t].cs].cancelled
      /\ Goto(t, "idle")
  BY DEF IInv, AbandonArm, Overtaken
<1>2. /\ pc'[t] = "idle" /\ local'[t] = NoLocal
      /\ \A u \in Threads : u # t => pc'[u] = pc[u] /\ local'[u] = local[u]
      /\ calls' = calls
  BY <1>1, GotoFacts
<1>3. /\ UNCHANGED <<connVars, svcBusy, busyVars, currentPlan, copyVars, files,
         cloneVars, sendVars>>
  BY DEF AbandonArm, cloneVars
<1>4. TypeOK'
  <2>1. Grows
    BY <1>1, <1>3 DEF TypeOK, Grows, cloneVars, sendVars, connVars
  <2>2. /\ pc' \in [Threads -> Labels] /\ local' \in [Threads -> Locals]
        /\ \A u \in Threads : InRange(local[u])'
    BY <1>1, <2>1, GotoTyped DEF Labels
  <2> QED
    BY <1>1, <1>3, <1>2, <2>1, <2>2 DEF TypeOK, Grows, busyVars, copyVars, cloneVars,
       sendVars,
       connVars
<1>5. \A u \in Threads : LabelInv(u)'
  BY <1>1, <1>2, <1>3 DEF IInv, LabelInv, InUse, Arming, cloneVars, RadioMethods, NoLocal
<1>6. LockInv'
  BY <1>1, <1>2, <1>3 DEF IInv, LockInv, Holds, InUse, Arming, ArmHolds, Receiving, Name,
     busyVars, cloneVars
<1>7. CloneInv'
  BY <1>1, <1>2, <1>3 DEF IInv, CloneInv, Serves, Arming, ArmHolds, Receiving, cloneVars
<1>8. PortInv'
  BY <1>1, <1>2, <1>3 DEF IInv, PortInv, Closes, cloneVars
<1>9. SessionInv' /\ SendInv' /\ ServiceInv'
  BY <1>1, <1>2, <1>3, SessionFrame DEF IInv, Apart, SessionLabels, busyVars
<1>10. CopyInv'
  BY <1>1, <1>2, <1>3, CopyFrame DEF IInv, Apart, CopyLabels, copyVars
<1>11. StaleInv'
  BY <1>1, <1>2, <1>3, StaleFrame DEF IInv, Apart, ReadLabels, copyVars
<1> QED
  BY <1>4, <1>5, <1>6, <1>7, <1>8, <1>9, <1>10, <1>11 DEF IInv

LEMMA AbandonArmKeeps ==
  ASSUME IInv, NEW t \in Threads, AbandonArm(t), ~Overtaken(t), UNCHANGED uiOrder
  PROVE  IInv'
<1>1. /\ TypeOK /\ pc[t] = "abandon" /\ ~arms[local[t].cs].cancelled
      /\ Goto(t, "release")
  BY DEF IInv, AbandonArm, Overtaken
<1>2. /\ pc'[t] = "release" /\ local'[t] = local[t]
      /\ \A u \in Threads : u # t => pc'[u] = pc[u] /\ local'[u] = local[u]
      /\ calls' = calls
  BY <1>1, GotoFacts
<1>3. /\ UNCHANGED <<connVars, svcBusy, busyVars, currentPlan, copyVars, files, arms,
         sendVars>>
      /\ cloneState' = 0
  BY DEF AbandonArm
<1>4. /\ local[t].cs \in DOMAIN arms /\ local[t].cs # 0 /\ local[t].op = "ArmCloneRead"
      /\ uiOrder
      /\ ~arms[local[t].cs].cancelled =>
           cloneState = local[t].cs /\ \A u \in Threads : u # t => ~Holds(u)
  BY <1>1, ArmingHolds DEF Arming
<1>5. TypeOK'
  <2>1. Grows
    BY <1>1, <1>3 DEF TypeOK, Grows, sendVars, connVars
  <2>2. /\ pc' \in [Threads -> Labels] /\ local' \in [Threads -> Locals]
        /\ \A u \in Threads : InRange(local[u])'
    BY <1>1, <2>1, GotoTyped DEF Labels
  <2>3. Len(arms) \in Nat
    BY <1>1, Numbers
  <2> QED
    BY <1>1, <1>3, <1>2, <2>1, <2>2, <2>3 DEF TypeOK, Grows, busyVars, copyVars, sendVars,
       connVars
<1>6. \A u \in Threads : LabelInv(u)'
  BY <1>1, <1>4, <1>2, <1>3 DEF IInv, LabelInv, InUse, Arming, RadioMethods
<1>7. LockInv'
  BY <1>1, <1>4, <1>2, <1>3 DEF IInv, LockInv, Holds, InUse, Arming, ArmHolds, Receiving,
     Name, busyVars
<1>8. CloneInv'
  <2>1. cloneState' # 0 => ~arms'[cloneState'].cancelled
    BY <1>1, <1>2, <1>3, <1>4 DEF IInv, CloneInv, Holds, InUse
  <2>2. \A u \in Threads : u # t => Serves(u)'
    BY <1>1, <1>2, <1>3, <1>4 DEF IInv, CloneInv, LabelInv, Serves, ArmHolds, Arming,
       Receiving,
       Holds, InUse
  <2>3. Serves(t)'
    BY <1>1, <1>2, <1>3, <1>4 DEF IInv, CloneInv, Serves, ArmHolds, Arming, Receiving,
       Holds,
       InUse
  <2>4. \A u, v \in Threads :
          pc'[u] \in Arming /\ pc'[v] \in Arming /\ local'[u].cs = local'[v].cs
            => u = v
    BY <1>1, <1>2, <1>3, <1>4 DEF IInv, CloneInv, LabelInv, Arming, Holds, InUse
  <2> QED
    BY <2>1, <2>2, <2>3, <2>4 DEF CloneInv
<1>9. PortInv'
  BY <1>1, <1>4, <1>2, <1>3 DEF IInv, PortInv, Closes, CloneInv, Serves
<1>10. SessionInv' /\ SendInv' /\ ServiceInv'
  BY <1>1, <1>2, <1>3, SessionFrame DEF IInv, Apart, SessionLabels, busyVars
<1>11. CopyInv'
  BY <1>1, <1>2, <1>3, CopyFrame DEF IInv, Apart, CopyLabels, copyVars
<1>12. StaleInv'
  BY <1>1, <1>2, <1>3, StaleFrame DEF IInv, Apart, ReadLabels, copyVars
<1> QED
  BY <1>5, <1>6, <1>7, <1>8, <1>9, <1>10, <1>11, <1>12 DEF IInv

-----------------------------------------------------------------------------
(* Clone mode: CancelCloneRead and ReceiveCloneImage.                      *)

(* While a clone-mode read is current, nobody else has App.opBusy.         *)
LEMMA CloneReadHolds ==
  ASSUME IInv, cloneState # 0
  PROVE  /\ opBusy = "ArmCloneRead" /\ cloneState \in DOMAIN arms
         /\ \A u \in Threads : ~InUse(u) /\ pc[u] # "release"
<1>1. opBusy = "ArmCloneRead" /\ cloneState \in DOMAIN arms
  BY DEF IInv, LockInv, TypeOK
<1>2. \A u \in Threads : pc[u] # "release"
  BY DEF IInv, CloneInv, Serves
<1>3. \A u \in Threads : ~InUse(u)
  BY RadioHolds
<1> QED
  BY <1>1, <1>2, <1>3

(* A call that receives holds App.opBusy.                                  *)
LEMMA ReceivingHolds ==
  ASSUME IInv, NEW t \in Threads, pc[t] \in {"receiving", "received", "unport", "unarm"}
  PROVE  /\ local[t].cs \in DOMAIN arms /\ local[t].cs # 0 /\ uiOrder
         /\ local[t].op \in {"CancelCloneRead", "ReceiveCloneImage"}
         /\ Holds(t) /\ \A u \in Threads : u # t => ~Holds(u)
         /\ local[t].op = "ReceiveCloneImage" => local[t].cs = cloneState
<1>1. /\ local[t].cs \in DOMAIN arms /\ uiOrder
      /\ local[t].op \in {"CancelCloneRead", "ReceiveCloneImage"}
  BY DEF IInv, LabelInv
<1>2. Receiving(t) /\ Holds(t)
  BY DEF Receiving, Holds
<1>3. local[t].cs # 0
  BY <1>1 DEF IInv, TypeOK
<1> QED
  BY <1>1, <1>2, <1>3 DEF IInv, LockInv, CloneInv, Serves

LEMMA CancelCloneReadKeeps ==
  ASSUME DialoguesKept, IInv, NEW t \in Threads, CancelCloneRead(t), UNCHANGED uiOrder
  PROVE  IInv'
<1> DEFINE a == [arms[cloneState] EXCEPT !.cancelled = TRUE]
<1> DEFINE l == [NoLocal EXCEPT !.cs = cloneState, !.port = arms[cloneState].port]
<1>1. /\ TypeOK
      /\ cloneState # 0
      /\ Call(t, "CancelCloneRead", "unport", l)
  BY DEF IInv, CancelCloneRead
<1>2. /\ l \in Locals
      /\ l.conn = 0 /\ l.seen = 0 /\ l.rev = 0 /\ l.path = NoPath
      /\ l.cs = cloneState /\ l.port = arms[cloneState].port /\ l.epoch = 0
  BY <1>1, NoLocalTyped, Numbers, CurrentArmTyped DEF Locals, Ports
<1> HIDE DEF l
<1>3. /\ pc[t] = "idle" /\ pc'[t] = "unport" /\ local'[t].op = "CancelCloneRead"
      /\ local'[t].conn = 0 /\ local'[t].seen = 0 /\ local'[t].rev = 0
      /\ local'[t].path = NoPath /\ local'[t].cs = cloneState
      /\ local'[t].port = arms[cloneState].port /\ local'[t].epoch = 0
      /\ \A u \in Threads : u # t => pc'[u] = pc[u] /\ local'[u] = local[u]
  BY <1>1, <1>2, CallFacts
<1>4. uiOrder
  BY <1>1, CallMoves, OnlyInWindow DEF CloneMethods
<1>5. /\ UNCHANGED <<connVars, svcBusy, busyVars, currentPlan, copyVars, files,
         sendVars>>
      /\ arms' = [arms EXCEPT ![cloneState] = a] /\ cloneState' = 0
      /\ uiOrder => \A u \in Threads : ~Receiving(u)
  BY DEF CancelCloneRead
<1>6. /\ opBusy = "ArmCloneRead" /\ cloneState \in DOMAIN arms
      /\ \A u \in Threads : ~InUse(u) /\ pc[u] # "release" /\ ~Receiving(u)
  BY <1>1, <1>5, <1>4, CloneReadHolds
<1>7. arms[cloneState] \in Arms
  BY <1>1, <1>6 DEF TypeOK
<1>8. /\ a \in Arms /\ a.cancelled /\ a.port = arms[cloneState].port
      /\ a.reception = arms[cloneState].reception
  BY <1>7 DEF Arms
<1>9. /\ arms' \in Seq(Arms) /\ Len(arms') = Len(arms) /\ DOMAIN arms' = DOMAIN arms
      /\ arms'[cloneState] = a
      /\ \A j \in DOMAIN arms : j # cloneState => arms'[j] = arms[j]
  BY <1>1, <1>6, <1>5, <1>8, ArmChanges
<1>10. \A u \in Threads : u # t => ~ArmHolds(u)'
  <2> SUFFICES ASSUME NEW u \in Threads, u # t, pc[u] \in Arming
               PROVE  arms'[local[u].cs].cancelled
    BY <1>3 DEF ArmHolds
  <2>1. local[u].cs \in DOMAIN arms
    BY DEF IInv, LabelInv, Arming
  <2>2. CASE local[u].cs = cloneState
    BY <1>8, <1>9, <2>2
  <2>3. CASE local[u].cs # cloneState
    <3>1. arms'[local[u].cs] = arms[local[u].cs]
      BY <1>9, <2>1, <2>3
    <3>2. arms[local[u].cs].cancelled
      BY <2>3 DEF IInv, CloneInv, Serves, ArmHolds
    <3> QED
      BY <3>1, <3>2
  <2> QED
    BY <2>2, <2>3
<1>11. Holds(t)' /\ \A u \in Threads : u # t => ~Holds(u)'
  BY <1>6, <1>3, <1>10 DEF Holds, InUse, Receiving
<1>12. TypeOK'
  <2>1. Grows
    BY <1>1, <1>5, <1>9 DEF TypeOK, Grows, sendVars, connVars
  <2>2. /\ pc' \in [Threads -> Labels] /\ local' \in [Threads -> Locals]
        /\ \A u \in Threads : InRange(local[u])'
        /\ calls' \in Nat
    <3>1. /\ l.conn \in 0 .. sessions' /\ l.cs \in 0 .. Len(arms')
          /\ l.epoch \in 0 .. sent'
      BY <1>1, <1>5, <2>1, <1>2, <1>9, Numbers DEF TypeOK, Grows
    <3>2. "CancelCloneRead" \in AllMethods /\ "unport" \in Labels
      BY DEF AllMethods, Labels, RadioMethods, CloneMethods, FileMethods, SendMethods
    <3> QED
      BY <1>1, <1>2, <2>1, <3>1, <3>2, CallTyped
  <2>3. Len(arms) \in Nat
    BY <1>1, Numbers
  <2> QED
    BY <1>1, <1>5, <2>1, <2>2, <2>3 DEF TypeOK, Grows, busyVars, copyVars, sendVars,
       connVars
<1>13. \A u \in Threads : LabelInv(u)'
  BY <1>1, <1>6, <1>3, <1>5, <1>4, <1>9 DEF IInv, LabelInv, InUse, Arming, RadioMethods
<1>14. LockInv'
  BY <1>3, <1>5, <1>6, <1>11 DEF IInv, LockInv, Name, RadioMethods, busyVars
<1>15. CloneInv'
  <2>1. cloneState' # 0 => ~arms'[cloneState'].cancelled
    BY <1>1, <1>3, <1>5, <1>6, <1>8, <1>9, <1>11 DEF IInv, CloneInv, Holds, InUse
  <2>2. \A u \in Threads : u # t => Serves(u)'
    BY <1>1, <1>3, <1>5, <1>6, <1>8, <1>9, <1>11 DEF IInv, CloneInv, LabelInv, Serves,
       ArmHolds,
       Arming, Receiving, Holds, InUse
  <2>3. Serves(t)'
    BY <1>1, <1>3, <1>5, <1>6, <1>8, <1>9, <1>11 DEF IInv, CloneInv, Serves, ArmHolds,
       Arming,
       Receiving, Holds, InUse
  <2>4. \A u, v \in Threads :
          pc'[u] \in Arming /\ pc'[v] \in Arming /\ local'[u].cs = local'[v].cs
            => u = v
    BY <1>1, <1>3, <1>5, <1>6, <1>8, <1>9, <1>11 DEF IInv, CloneInv, LabelInv, Arming,
       Holds, InUse
  <2> QED
    BY <2>1, <2>2, <2>3, <2>4 DEF CloneInv
<1>16. PortInv'
  BY <1>1, <1>6, <1>3, <1>5, <1>4, <1>8, <1>9 DEF IInv, PortInv, Closes, Receiving
<1>17. SessionInv' /\ SendInv' /\ ServiceInv'
  BY <1>1, <1>3, <1>5, <1>4, SessionFrame DEF IInv, Apart, SessionLabels, busyVars
<1>18. CopyInv'
  BY <1>1, <1>3, <1>5, <1>4, CopyFrame DEF IInv, Apart, CopyLabels, copyVars
<1>19. StaleInv'
  BY <1>1, <1>3, <1>5, <1>4, StaleFrame DEF IInv, Apart, ReadLabels, copyVars
<1> QED
  BY <1>12, <1>13, <1>14, <1>15, <1>16, <1>17, <1>18, <1>19 DEF IInv

LEMMA ReceiveCloneImageKeeps ==
  ASSUME DialoguesKept, IInv, NEW t \in Threads, ReceiveCloneImage(t), UNCHANGED uiOrder
  PROVE  IInv'
<1> DEFINE l == [NoLocal EXCEPT !.cs = cloneState, !.seen = working]
<1>1. /\ TypeOK
      /\ cloneState # 0
      /\ Call(t, "ReceiveCloneImage",
              (IF arms[cloneState].reception THEN "receiving" ELSE "panicked"), l)
  BY DEF IInv, ReceiveCloneImage
<1>2. /\ l \in Locals
      /\ l.conn = 0 /\ l.seen = working /\ l.rev = 0 /\ l.path = NoPath
      /\ l.cs = cloneState /\ l.port = "none" /\ l.epoch = 0
  BY <1>1, NoLocalTyped, Numbers DEF Locals
<1> HIDE DEF l
<1>3. /\ pc[t] = "idle"
      /\ pc'[t] = (IF arms[cloneState].reception THEN "receiving" ELSE "panicked")
      /\ local'[t].op = "ReceiveCloneImage"
      /\ local'[t].conn = 0 /\ local'[t].seen = working /\ local'[t].rev = 0
      /\ local'[t].path = NoPath /\ local'[t].cs = cloneState /\ local'[t].port = "none"
      /\ local'[t].epoch = 0
      /\ \A u \in Threads : u # t => pc'[u] = pc[u] /\ local'[u] = local[u]
  BY <1>1, <1>2, CallFacts
<1>4. uiOrder
  BY <1>1, CallMoves, OnlyInWindow DEF CloneMethods
<1>5. /\ UNCHANGED <<connVars, svcBusy, busyVars, currentPlan, copyVars, files,
         cloneVars, sendVars>>
      /\ uiOrder => arms[cloneState].reception /\ \A u \in Threads : ~Receiving(u)
  BY DEF ReceiveCloneImage
<1>6. /\ opBusy = "ArmCloneRead" /\ cloneState \in DOMAIN arms /\ arms[cloneState].reception
      /\ \A u \in Threads : ~InUse(u) /\ pc[u] # "release" /\ ~Receiving(u)
      /\ pc'[t] = "receiving"
  BY <1>1, <1>3, <1>5, <1>4, CloneReadHolds
<1>7. \A u \in Threads : ~Holds(u)
  BY <1>6 DEF IInv, CloneInv, Serves, Holds, ArmHolds
<1>8. Holds(t)' /\ \A u \in Threads : u # t => ~Holds(u)'
  BY <1>6, <1>3, <1>5, <1>7 DEF Holds, InUse, ArmHolds, Receiving, cloneVars
<1>9. TypeOK'
  <2>1. Grows
    BY <1>1, <1>5 DEF TypeOK, Grows, cloneVars, sendVars, connVars
  <2>2. /\ pc' \in [Threads -> Labels] /\ local' \in [Threads -> Locals]
        /\ \A u \in Threads : InRange(local[u])'
        /\ calls' \in Nat
    <3>1. /\ l.conn \in 0 .. sessions' /\ l.cs \in 0 .. Len(arms')
          /\ l.epoch \in 0 .. sent'
      BY <1>1, <1>5, <2>1, <1>2, Numbers DEF TypeOK, Grows
    <3>2. /\ "ReceiveCloneImage" \in AllMethods
          /\ (IF arms[cloneState].reception THEN "receiving" ELSE "panicked") \in Labels
      BY DEF AllMethods, Labels, RadioMethods, CloneMethods, FileMethods, SendMethods
    <3> QED
      BY <1>1, <1>2, <2>1, <3>1, <3>2, CallTyped
  <2> QED
    BY <1>1, <1>5, <2>1, <2>2 DEF TypeOK, Grows, busyVars, copyVars, cloneVars, sendVars,
       connVars
<1>10. \A u \in Threads : LabelInv(u)'
  BY <1>1, <1>6, <1>3, <1>5, <1>4 DEF IInv, LabelInv, InUse, Arming, cloneVars, RadioMethods
<1>11. LockInv'
  BY <1>3, <1>5, <1>6, <1>8 DEF IInv, LockInv, Name, RadioMethods, busyVars, cloneVars
<1>12. CloneInv'
  <2>1. cloneState' # 0 => ~arms'[cloneState'].cancelled
    BY <1>1, <1>3, <1>5, <1>6, <1>7, <1>8 DEF IInv, CloneInv, Holds, InUse, cloneVars
  <2>2. \A u \in Threads : u # t => Serves(u)'
    BY <1>1, <1>3, <1>5, <1>6, <1>7, <1>8 DEF IInv, CloneInv, LabelInv, Serves, ArmHolds,
       Arming,
       Receiving, Holds, InUse, cloneVars
  <2>3. Serves(t)'
    BY <1>1, <1>3, <1>5, <1>6, <1>7, <1>8 DEF IInv, CloneInv, Serves, ArmHolds, Arming,
       Receiving, Holds, InUse, cloneVars
  <2>4. \A u, v \in Threads :
          pc'[u] \in Arming /\ pc'[v] \in Arming /\ local'[u].cs = local'[v].cs
            => u = v
    BY <1>1, <1>3, <1>5, <1>6, <1>7, <1>8 DEF IInv, CloneInv, LabelInv, Arming, Holds,
       InUse,
       cloneVars
  <2> QED
    BY <2>1, <2>2, <2>3, <2>4 DEF CloneInv
<1>13. PortInv'
  BY <1>1, <1>6, <1>3, <1>5, <1>4 DEF IInv, PortInv, Closes, cloneVars
<1>14. SessionInv' /\ SendInv' /\ ServiceInv'
  BY <1>1, <1>3, <1>5, <1>4, SessionFrame DEF IInv, Apart, SessionLabels, busyVars
<1>15. CopyInv'
  BY <1>1, <1>6, <1>3, <1>5, <1>4 DEF IInv, CopyInv, InUse, Saving, copyVars
<1>16. StaleInv'
  BY <1>1, <1>3, <1>5, <1>4, StaleFrame DEF IInv, Apart, ReadLabels, copyVars
<1> QED
  BY <1>9, <1>10, <1>11, <1>12, <1>13, <1>14, <1>15, <1>16 DEF IInv

LEMMA ImageArrivesKeeps ==
  ASSUME IInv, NEW t \in Threads, ImageArrives(t), Goto(t, "received"), UNCHANGED uiOrder
  PROVE  IInv'
<1>1. /\ TypeOK /\ pc[t] = "receiving"
      /\ Goto(t, "received")
  BY DEF IInv, ImageArrives
<1>2. /\ pc'[t] = "received" /\ local'[t] = local[t]
      /\ \A u \in Threads : u # t => pc'[u] = pc[u] /\ local'[u] = local[u]
      /\ calls' = calls
  BY <1>1, GotoFacts
<1>3. /\ UNCHANGED <<connVars, svcBusy, busyVars, currentPlan, copyVars, files,
         cloneVars, sendVars>>
  BY DEF ImageArrives
<1>4. /\ local[t].cs \in DOMAIN arms /\ local[t].cs # 0 /\ uiOrder
      /\ local[t].op \in {"CancelCloneRead", "ReceiveCloneImage"}
      /\ Holds(t) /\ \A u \in Threads : u # t => ~Holds(u)
      /\ local[t].op = "ReceiveCloneImage" => local[t].cs = cloneState
  BY <1>1, ReceivingHolds
<1>5. TypeOK'
  <2>1. Grows
    BY <1>1, <1>3 DEF TypeOK, Grows, cloneVars, sendVars, connVars
  <2>2. /\ pc' \in [Threads -> Labels] /\ local' \in [Threads -> Locals]
        /\ \A u \in Threads : InRange(local[u])'
    BY <1>1, <2>1, GotoTyped DEF Labels
  <2> QED
    BY <1>1, <1>3, <1>2, <2>1, <2>2 DEF TypeOK, Grows, busyVars, copyVars, cloneVars,
       sendVars,
       connVars
<1>6. \A u \in Threads : LabelInv(u)'
  BY <1>1, <1>4, <1>2, <1>3 DEF IInv, LabelInv, InUse, Arming, cloneVars, RadioMethods
<1>7. LockInv'
  BY <1>1, <1>4, <1>2, <1>3 DEF IInv, LockInv, Holds, InUse, Arming, ArmHolds, Receiving,
     Name, busyVars, cloneVars
<1>8. CloneInv'
  <2>1. cloneState' # 0 => ~arms'[cloneState'].cancelled
    BY <1>1, <1>2, <1>3, <1>4 DEF IInv, CloneInv, Holds, InUse, cloneVars
  <2>2. \A u \in Threads : u # t => Serves(u)'
    BY <1>1, <1>2, <1>3, <1>4 DEF IInv, CloneInv, LabelInv, Serves, ArmHolds, Arming,
       Receiving,
       Holds, InUse, cloneVars
  <2>3. Serves(t)'
    BY <1>1, <1>2, <1>3, <1>4 DEF IInv, CloneInv, Serves, ArmHolds, Arming, Receiving,
       Holds,
       InUse, cloneVars
  <2>4. \A u, v \in Threads :
          pc'[u] \in Arming /\ pc'[v] \in Arming /\ local'[u].cs = local'[v].cs
            => u = v
    BY <1>1, <1>2, <1>3, <1>4 DEF IInv, CloneInv, LabelInv, Arming, Holds, InUse, cloneVars
  <2> QED
    BY <2>1, <2>2, <2>3, <2>4 DEF CloneInv
<1>9. PortInv'
  BY <1>1, <1>4, <1>2, <1>3 DEF IInv, PortInv, Closes, cloneVars
<1>10. SessionInv' /\ SendInv' /\ ServiceInv'
  BY <1>1, <1>2, <1>3, SessionFrame DEF IInv, Apart, SessionLabels, busyVars
<1>11. CopyInv'
  BY <1>1, <1>4, <1>2, <1>3 DEF IInv, CopyInv, InUse, Saving, copyVars
<1>12. StaleInv'
  BY <1>1, <1>2, <1>3, StaleFrame DEF IInv, Apart, ReadLabels, copyVars
<1> QED
  BY <1>5, <1>6, <1>7, <1>8, <1>9, <1>10, <1>11, <1>12 DEF IInv

LEMMA ImageLostKeeps ==
  ASSUME IInv, NEW t \in Threads, ImageArrives(t), Goto(t, "unport"), UNCHANGED uiOrder
  PROVE  IInv'
<1>1. /\ TypeOK /\ pc[t] = "receiving"
      /\ Goto(t, "unport")
  BY DEF IInv, ImageArrives
<1>2. /\ pc'[t] = "unport" /\ local'[t] = local[t]
      /\ \A u \in Threads : u # t => pc'[u] = pc[u] /\ local'[u] = local[u]
      /\ calls' = calls
  BY <1>1, GotoFacts
<1>3. /\ UNCHANGED <<connVars, svcBusy, busyVars, currentPlan, copyVars, files,
         cloneVars, sendVars>>
  BY DEF ImageArrives
<1>4. local[t].op = "ReceiveCloneImage"
  BY <1>1 DEF IInv, LabelInv
<1>5. /\ local[t].cs \in DOMAIN arms /\ local[t].cs # 0 /\ uiOrder
      /\ local[t].op \in {"CancelCloneRead", "ReceiveCloneImage"}
      /\ Holds(t) /\ \A u \in Threads : u # t => ~Holds(u)
      /\ local[t].op = "ReceiveCloneImage" => local[t].cs = cloneState
  BY <1>1, ReceivingHolds
<1>6. TypeOK'
  <2>1. Grows
    BY <1>1, <1>3 DEF TypeOK, Grows, cloneVars, sendVars, connVars
  <2>2. /\ pc' \in [Threads -> Labels] /\ local' \in [Threads -> Locals]
        /\ \A u \in Threads : InRange(local[u])'
    BY <1>1, <2>1, GotoTyped DEF Labels
  <2> QED
    BY <1>1, <1>3, <1>2, <2>1, <2>2 DEF TypeOK, Grows, busyVars, copyVars, cloneVars,
       sendVars,
       connVars
<1>7. \A u \in Threads : LabelInv(u)'
  BY <1>1, <1>5, <1>2, <1>3 DEF IInv, LabelInv, InUse, Arming, cloneVars, RadioMethods
<1>8. LockInv'
  BY <1>1, <1>5, <1>2, <1>3 DEF IInv, LockInv, Holds, InUse, Arming, ArmHolds, Receiving,
     Name, busyVars, cloneVars
<1>9. CloneInv'
  <2>1. cloneState' # 0 => ~arms'[cloneState'].cancelled
    BY <1>1, <1>2, <1>3, <1>5, <1>4 DEF IInv, CloneInv, Holds, InUse, cloneVars
  <2>2. \A u \in Threads : u # t => Serves(u)'
    BY <1>1, <1>2, <1>3, <1>5, <1>4 DEF IInv, CloneInv, LabelInv, Serves, ArmHolds, Arming,
       Receiving, Holds, InUse, cloneVars
  <2>3. Serves(t)'
    BY <1>1, <1>2, <1>3, <1>5, <1>4 DEF IInv, CloneInv, Serves, ArmHolds, Arming, Receiving,
       Holds, InUse, cloneVars
  <2>4. \A u, v \in Threads :
          pc'[u] \in Arming /\ pc'[v] \in Arming /\ local'[u].cs = local'[v].cs
            => u = v
    BY <1>1, <1>2, <1>3, <1>5, <1>4 DEF IInv, CloneInv, LabelInv, Arming, Holds, InUse,
       cloneVars
  <2> QED
    BY <2>1, <2>2, <2>3, <2>4 DEF CloneInv
<1>10. PortInv'
  BY <1>1, <1>5, <1>2, <1>3 DEF IInv, PortInv, Closes, cloneVars
<1>11. SessionInv' /\ SendInv' /\ ServiceInv'
  BY <1>1, <1>2, <1>3, SessionFrame DEF IInv, Apart, SessionLabels, busyVars
<1>12. CopyInv'
  BY <1>1, <1>5, <1>2, <1>3 DEF IInv, CopyInv, InUse, Saving, copyVars
<1>13. StaleInv'
  BY <1>1, <1>2, <1>3, StaleFrame DEF IInv, Apart, ReadLabels, copyVars
<1> QED
  BY <1>6, <1>7, <1>8, <1>9, <1>10, <1>11, <1>12, <1>13 DEF IInv

LEMMA ImageLoadsKeeps ==
  ASSUME IInv, NEW t \in Threads, ImageLoads(t), UNCHANGED uiOrder
  PROVE  IInv'
<1>1. /\ TypeOK /\ pc[t] = "received"
      /\ Goto(t, "unport")
  BY DEF IInv, ImageLoads
<1>2. /\ pc'[t] = "unport" /\ local'[t] = local[t]
      /\ \A u \in Threads : u # t => pc'[u] = pc[u] /\ local'[u] = local[u]
      /\ calls' = calls
  BY <1>1, GotoFacts
<1>3. /\ UNCHANGED <<connVars, svcBusy, busyVars, currentPlan, files, cloneVars,
         sendVars>>
      /\ working' = workingRev + 1 /\ workingRev' = workingRev + 1
      /\ workingPath' = NoPath /\ dirty' = FALSE /\ baselineStale' = FALSE
      /\ baseline' = sent
  BY DEF ImageLoads, FreshCopy
<1>4. local[t].op = "ReceiveCloneImage"
  BY <1>1 DEF IInv, LabelInv
<1>5. /\ local[t].cs \in DOMAIN arms /\ local[t].cs # 0 /\ uiOrder
      /\ local[t].op \in {"CancelCloneRead", "ReceiveCloneImage"}
      /\ Holds(t) /\ \A u \in Threads : u # t => ~Holds(u)
      /\ local[t].op = "ReceiveCloneImage" => local[t].cs = cloneState
  BY <1>1, ReceivingHolds
<1>6. ~(baseline' < sent')
  BY <1>1, <1>3, Numbers DEF sendVars
<1>7. TypeOK'
  <2>1. Grows
    BY <1>1, <1>3 DEF TypeOK, Grows, cloneVars, sendVars, connVars
  <2>2. /\ pc' \in [Threads -> Labels] /\ local' \in [Threads -> Locals]
        /\ \A u \in Threads : InRange(local[u])'
    BY <1>1, <2>1, GotoTyped DEF Labels
  <2>3. baseline' \in 0 .. sent' /\ workingRev + 1 \in Nat
    BY <1>1, <1>3, Numbers DEF sendVars
  <2> QED
    BY <1>1, <1>3, <1>2, <2>1, <2>2, <2>3 DEF TypeOK, Grows, busyVars, cloneVars, sendVars,
       connVars
<1>8. \A u \in Threads : LabelInv(u)'
  BY <1>1, <1>5, <1>2, <1>3 DEF IInv, LabelInv, InUse, Arming, cloneVars, RadioMethods
<1>9. LockInv'
  BY <1>1, <1>5, <1>2, <1>3 DEF IInv, LockInv, Holds, InUse, Arming, ArmHolds, Receiving,
     Name, busyVars, cloneVars
<1>10. CloneInv'
  <2>1. cloneState' # 0 => ~arms'[cloneState'].cancelled
    BY <1>1, <1>2, <1>3, <1>5, <1>4 DEF IInv, CloneInv, Holds, InUse, cloneVars
  <2>2. \A u \in Threads : u # t => Serves(u)'
    BY <1>1, <1>2, <1>3, <1>5, <1>4 DEF IInv, CloneInv, LabelInv, Serves, ArmHolds, Arming,
       Receiving, Holds, InUse, cloneVars
  <2>3. Serves(t)'
    BY <1>1, <1>2, <1>3, <1>5, <1>4 DEF IInv, CloneInv, Serves, ArmHolds, Arming, Receiving,
       Holds, InUse, cloneVars
  <2>4. \A u, v \in Threads :
          pc'[u] \in Arming /\ pc'[v] \in Arming /\ local'[u].cs = local'[v].cs
            => u = v
    BY <1>1, <1>2, <1>3, <1>5, <1>4 DEF IInv, CloneInv, LabelInv, Arming, Holds, InUse,
       cloneVars
  <2> QED
    BY <2>1, <2>2, <2>3, <2>4 DEF CloneInv
<1>11. PortInv'
  BY <1>1, <1>5, <1>2, <1>3 DEF IInv, PortInv, Closes, cloneVars
<1>12. SessionInv' /\ SendInv' /\ ServiceInv'
  BY <1>1, <1>2, <1>3, SessionFrame DEF IInv, Apart, SessionLabels, busyVars
<1>13. CopyInv'
  <2>1. \A u \in Threads :
          pc'[u] \notin {"service", "wire", "finish", "receiving", "received"}
    BY <1>1, <1>2, <1>5 DEF InUse, Holds, Receiving
  <2>2. \A u \in Threads :
          pc'[u] \in {"saving", "saved"} => u # t /\ local'[u].rev < workingRev'
    BY <1>1, <1>2, <1>3, Numbers DEF IInv, CopyInv, Saving
  <2>3. \A u \in Threads : ~InUse(u)' /\ pc'[u] \notin {"receiving", "received"}
    BY <2>1 DEF InUse
  <2>4. \A u \in Threads :
          Saving(u)' => /\ Saving(u) /\ pc'[u] = pc[u] /\ local'[u] = local[u]
                        /\ local'[u].rev < workingRev'
    BY <1>2, <2>2 DEF Saving
  <2>5. workingRev' \in Nat /\ \A u \in Threads : local[u].rev \in Nat
    BY <1>1, <1>3, Numbers
  <2>6. \A u \in Threads : pc'[u] = "saved" => files'[local'[u].path] = local'[u].seen
    BY <1>3, <2>4 DEF IInv, CopyInv, Saving
  <2>7. \A u, v \in Threads : Saving(u)' /\ Saving(v)' => u = v
    BY <2>4 DEF IInv, CopyInv
  <2> QED
    BY <2>3, <2>4, <2>5, <2>6, <2>7 DEF CopyInv
<1>14. StaleInv'
  BY <1>1, <1>5, <1>2, <1>3, <1>6 DEF IInv, StaleInv, InUse, Marking, sendVars
<1> QED
  BY <1>7, <1>8, <1>9, <1>10, <1>11, <1>12, <1>13, <1>14 DEF IInv

LEMMA ClosePortKeeps ==
  ASSUME IInv, NEW t \in Threads, ClosePort(t), UNCHANGED uiOrder
  PROVE  IInv'
<1> DEFINE port == IF local[t].op = "CancelCloneRead" /\ local[t].port = "none"
                   THEN arms[local[t].cs].port ELSE "closed"
<1>1. /\ TypeOK /\ pc[t] = "unport"
      /\ Goto(t, (IF local[t].op = "CancelCloneRead" THEN "release" ELSE "unarm"))
  BY DEF IInv, ClosePort
<1>2. /\ pc'[t] = (IF local[t].op = "CancelCloneRead" THEN "release" ELSE "unarm")
      /\ local'[t] = local[t]
      /\ \A u \in Threads : u # t => pc'[u] = pc[u] /\ local'[u] = local[u]
      /\ calls' = calls
  BY <1>1, GotoFacts
<1>3. /\ UNCHANGED <<connVars, svcBusy, busyVars, currentPlan, copyVars, files,
         cloneState, sendVars>>
      /\ arms' = [arms EXCEPT ![local[t].cs].port = port]
  BY DEF ClosePort
<1>4. /\ local[t].cs \in DOMAIN arms /\ local[t].cs # 0 /\ uiOrder
      /\ local[t].op \in {"CancelCloneRead", "ReceiveCloneImage"}
      /\ Holds(t) /\ \A u \in Threads : u # t => ~Holds(u)
      /\ local[t].op = "ReceiveCloneImage" => local[t].cs = cloneState
  BY <1>1, ReceivingHolds
<1>5. port \in Ports
  BY <1>1, <1>4, ArmTyped DEF Ports
<1>6. /\ arms' \in Seq(Arms) /\ Len(arms') = Len(arms) /\ DOMAIN arms' = DOMAIN arms
      /\ arms'[local[t].cs].port = port
      /\ arms'[local[t].cs].cancelled = arms[local[t].cs].cancelled
      /\ arms'[local[t].cs].reception = arms[local[t].cs].reception
      /\ \A j \in DOMAIN arms : j # local[t].cs => arms'[j] = arms[j]
  BY <1>1, <1>4, <1>3, <1>5, PortChanges
<1>7. TypeOK'
  <2>1. Grows
    BY <1>1, <1>3, <1>6 DEF TypeOK, Grows, sendVars, connVars
  <2>2. /\ pc' \in [Threads -> Labels] /\ local' \in [Threads -> Locals]
        /\ \A u \in Threads : InRange(local[u])'
    BY <1>1, <2>1, GotoTyped DEF Labels
  <2>3. arms' \in Seq(Arms) /\ cloneState' \in 0 .. Len(arms') /\ Len(arms') = Len(arms)
    BY <1>1, <1>3, <1>6 DEF TypeOK
  <2> QED
    BY <1>1, <1>3, <1>2, <2>1, <2>2, <2>3 DEF TypeOK, Grows, busyVars, copyVars, sendVars,
       connVars
<1>8. \A u \in Threads : LabelInv(u)'
  BY <1>1, <1>4, <1>2, <1>3, <1>6 DEF IInv, LabelInv, InUse, Arming, RadioMethods
<1>9. LockInv'
  BY <1>1, <1>4, <1>2, <1>3, <1>6 DEF IInv, LockInv, Holds, InUse, Arming, ArmHolds,
     Receiving, Name, busyVars
<1>10. CloneInv'
  <2>1. cloneState' # 0 => ~arms'[cloneState'].cancelled
    BY <1>1, <1>2, <1>3, <1>4, <1>6 DEF IInv, CloneInv, Holds, InUse
  <2>2. \A u \in Threads : u # t => Serves(u)'
    BY <1>1, <1>2, <1>3, <1>4, <1>6 DEF IInv, CloneInv, LabelInv, Serves, ArmHolds, Arming,
       Receiving, Holds, InUse
  <2>3. Serves(t)'
    BY <1>1, <1>2, <1>3, <1>4, <1>6 DEF IInv, CloneInv, Serves, ArmHolds, Arming, Receiving,
       Holds, InUse
  <2>4. \A u, v \in Threads :
          pc'[u] \in Arming /\ pc'[v] \in Arming /\ local'[u].cs = local'[v].cs
            => u = v
    BY <1>1, <1>2, <1>3, <1>4, <1>6 DEF IInv, CloneInv, LabelInv, Arming, Holds, InUse
  <2> QED
    BY <2>1, <2>2, <2>3, <2>4 DEF CloneInv
<1>11. PortInv'
  BY <1>1, <1>4, <1>2, <1>3, <1>6 DEF IInv, PortInv, Closes
<1>12. SessionInv' /\ SendInv' /\ ServiceInv'
  BY <1>1, <1>2, <1>3, SessionFrame DEF IInv, Apart, SessionLabels, busyVars
<1>13. CopyInv'
  BY <1>1, <1>2, <1>3, CopyFrame DEF IInv, Apart, CopyLabels, copyVars
<1>14. StaleInv'
  BY <1>1, <1>2, <1>3, StaleFrame DEF IInv, Apart, ReadLabels, copyVars
<1> QED
  BY <1>7, <1>8, <1>9, <1>10, <1>11, <1>12, <1>13, <1>14 DEF IInv

LEMMA UnarmKeeps ==
  ASSUME IInv, NEW t \in Threads, Unarm(t), UNCHANGED uiOrder
  PROVE  IInv'
<1>1. /\ TypeOK /\ pc[t] = "unarm"
      /\ Goto(t, "release")
  BY DEF IInv, Unarm
<1>2. /\ pc'[t] = "release" /\ local'[t] = local[t]
      /\ \A u \in Threads : u # t => pc'[u] = pc[u] /\ local'[u] = local[u]
      /\ calls' = calls
  BY <1>1, GotoFacts
<1>3. /\ UNCHANGED <<connVars, svcBusy, busyVars, currentPlan, copyVars, files, arms,
         sendVars>>
      /\ cloneState' = 0
  BY DEF Unarm
<1>4. local[t].op = "ReceiveCloneImage"
  BY <1>1 DEF IInv, LabelInv
<1>5. /\ local[t].cs \in DOMAIN arms /\ local[t].cs # 0 /\ uiOrder
      /\ local[t].op \in {"CancelCloneRead", "ReceiveCloneImage"}
      /\ Holds(t) /\ \A u \in Threads : u # t => ~Holds(u)
      /\ local[t].op = "ReceiveCloneImage" => local[t].cs = cloneState
  BY <1>1, ReceivingHolds
<1>6. TypeOK'
  <2>1. Grows
    BY <1>1, <1>3 DEF TypeOK, Grows, sendVars, connVars
  <2>2. /\ pc' \in [Threads -> Labels] /\ local' \in [Threads -> Locals]
        /\ \A u \in Threads : InRange(local[u])'
    BY <1>1, <2>1, GotoTyped DEF Labels
  <2>3. Len(arms) \in Nat
    BY <1>1, Numbers
  <2> QED
    BY <1>1, <1>3, <1>2, <2>1, <2>2, <2>3 DEF TypeOK, Grows, busyVars, copyVars, sendVars,
       connVars
<1>7. \A u \in Threads : LabelInv(u)'
  BY <1>1, <1>5, <1>2, <1>3 DEF IInv, LabelInv, InUse, Arming, RadioMethods
<1>8. LockInv'
  BY <1>1, <1>5, <1>2, <1>3 DEF IInv, LockInv, Holds, InUse, Arming, ArmHolds, Receiving,
     Name, busyVars
<1>9. CloneInv'
  <2>1. cloneState' # 0 => ~arms'[cloneState'].cancelled
    BY <1>1, <1>2, <1>3, <1>5, <1>4 DEF IInv, CloneInv, Holds, InUse
  <2>2. \A u \in Threads : u # t => Serves(u)'
    BY <1>1, <1>2, <1>3, <1>5, <1>4 DEF IInv, CloneInv, LabelInv, Serves, ArmHolds, Arming,
       Receiving, Holds, InUse
  <2>3. Serves(t)'
    BY <1>1, <1>2, <1>3, <1>5, <1>4 DEF IInv, CloneInv, Serves, ArmHolds, Arming, Receiving,
       Holds, InUse
  <2>4. \A u, v \in Threads :
          pc'[u] \in Arming /\ pc'[v] \in Arming /\ local'[u].cs = local'[v].cs
            => u = v
    BY <1>1, <1>2, <1>3, <1>5, <1>4 DEF IInv, CloneInv, LabelInv, Arming, Holds, InUse
  <2> QED
    BY <2>1, <2>2, <2>3, <2>4 DEF CloneInv
<1>10. PortInv'
  BY <1>1, <1>5, <1>2, <1>3, <1>4 DEF IInv, PortInv, Closes, CloneInv, Serves
<1>11. SessionInv' /\ SendInv' /\ ServiceInv'
  BY <1>1, <1>2, <1>3, SessionFrame DEF IInv, Apart, SessionLabels, busyVars
<1>12. CopyInv'
  BY <1>1, <1>2, <1>3, CopyFrame DEF IInv, Apart, CopyLabels, copyVars
<1>13. StaleInv'
  BY <1>1, <1>2, <1>3, StaleFrame DEF IInv, Apart, ReadLabels, copyVars
<1> QED
  BY <1>6, <1>7, <1>8, <1>9, <1>10, <1>11, <1>12, <1>13 DEF IInv

-----------------------------------------------------------------------------
(* The working copy and its file.                                          *)

(* An edit and a load happen while nothing reads or receives.              *)
LEMMA FreeOfReads ==
  ASSUME IInv, opBusy = NoOp
  PROVE  \A u \in Threads : ~InUse(u) /\ pc[u] \notin {"receiving", "received"}
BY FreeOfHolders DEF Holds, Receiving

LEMMA UpdateChannelKeeps ==
  ASSUME IInv, NEW t \in Threads, UpdateChannel(t), UNCHANGED uiOrder
  PROVE  IInv'
<1>1. /\ TypeOK
      /\ opBusy = NoOp
      /\ Call(t, "UpdateChannel", "idle", NoLocal)
  BY DEF IInv, UpdateChannel, EditAllowed, NotBusy
<1>2. /\ pc[t] = "idle" /\ pc'[t] = "idle" /\ local'[t].op = "UpdateChannel"
      /\ local'[t].conn = 0 /\ local'[t].seen = 0 /\ local'[t].rev = 0
      /\ local'[t].path = NoPath /\ local'[t].cs = 0 /\ local'[t].port = "none"
      /\ local'[t].epoch = 0
      /\ \A u \in Threads : u # t => pc'[u] = pc[u] /\ local'[u] = local[u]
  BY <1>1, NoLocalTyped, CallFacts
<1>3. /\ UNCHANGED <<connVars, svcBusy, busyVars, currentPlan, files, cloneVars,
         sendVars>>
      /\ working' = workingRev + 1 /\ workingRev' = workingRev + 1 /\ dirty' = TRUE
      /\ UNCHANGED <<workingPath, baselineStale, baseline>>
  BY DEF UpdateChannel, Touched
<1>4. \A u \in Threads : ~InUse(u) /\ pc[u] \notin {"receiving", "received"}
  BY <1>1, FreeOfReads
<1>5. TypeOK'
  <2>1. Grows
    BY <1>1, <1>3 DEF TypeOK, Grows, cloneVars, sendVars, connVars
  <2>2. /\ pc' \in [Threads -> Labels] /\ local' \in [Threads -> Locals]
        /\ \A u \in Threads : InRange(local[u])'
        /\ calls' \in Nat
    <3>1. /\ NoLocal.conn \in 0 .. sessions' /\ NoLocal.cs \in 0 .. Len(arms')
          /\ NoLocal.epoch \in 0 .. sent'
      BY <1>1, <1>3, <2>1, NoLocalTyped DEF TypeOK, Grows
    <3>2. "UpdateChannel" \in AllMethods /\ "idle" \in Labels
      BY DEF AllMethods, Labels, RadioMethods, CloneMethods, FileMethods, SendMethods
    <3> QED
      BY <1>1, NoLocalTyped, <2>1, <3>1, <3>2, CallTyped
  <2>3. workingRev + 1 \in Nat
    BY <1>1, Numbers
  <2> QED
    BY <1>1, <1>3, <2>1, <2>2, <2>3 DEF TypeOK, Grows, busyVars, cloneVars, sendVars,
       connVars
<1>6. \A u \in Threads : LabelInv(u)'
  BY <1>1, <1>4, <1>2, <1>3 DEF IInv, LabelInv, InUse, Arming, cloneVars, RadioMethods
<1>7. LockInv'
  BY <1>1, <1>2, <1>3, LockFrame DEF IInv, Apart, HoldLabels, busyVars
<1>8. CloneInv' /\ PortInv'
  BY <1>1, <1>2, <1>3, <1>4, CloneFrame DEF IInv, Apart, CloneLabels
<1>9. SessionInv' /\ SendInv' /\ ServiceInv'
  BY <1>1, <1>2, <1>3, SessionFrame DEF IInv, Apart, SessionLabels, busyVars
<1>10. CopyInv'
  <2>1. \A u \in Threads :
          pc'[u] \notin {"service", "wire", "finish", "receiving", "received"}
    BY <1>1, <1>2, <1>4 DEF InUse, Holds, Receiving
  <2>2. \A u \in Threads :
          pc'[u] \in {"saving", "saved"} => u # t /\ local'[u].rev < workingRev'
    BY <1>1, <1>2, <1>3, Numbers DEF IInv, CopyInv, Saving
  <2>3. \A u \in Threads : ~InUse(u)' /\ pc'[u] \notin {"receiving", "received"}
    BY <2>1 DEF InUse
  <2>4. \A u \in Threads :
          Saving(u)' => /\ Saving(u) /\ pc'[u] = pc[u] /\ local'[u] = local[u]
                        /\ local'[u].rev < workingRev'
    BY <1>2, <2>2 DEF Saving
  <2>5. workingRev' \in Nat /\ \A u \in Threads : local[u].rev \in Nat
    BY <1>1, <1>3, Numbers
  <2>6. \A u \in Threads : pc'[u] = "saved" => files'[local'[u].path] = local'[u].seen
    BY <1>3, <2>4 DEF IInv, CopyInv, Saving
  <2>7. \A u, v \in Threads : Saving(u)' /\ Saving(v)' => u = v
    BY <2>4 DEF IInv, CopyInv
  <2> QED
    BY <2>3, <2>4, <2>5, <2>6, <2>7 DEF CopyInv
<1>11. StaleInv'
  BY <1>1, <1>2, <1>3, StaleFrame DEF IInv, Apart, ReadLabels
<1> QED
  BY <1>5, <1>6, <1>7, <1>8, <1>9, <1>10, <1>11 DEF IInv

LEMMA SaveFileKeeps ==
  ASSUME DialoguesKept, IInv, NEW t \in Threads, NEW p \in Paths,
         SaveFile(t, p), UNCHANGED uiOrder
  PROVE  IInv'
<1> DEFINE l == [NoLocal EXCEPT !.seen = working, !.rev = workingRev, !.path = p]
<1>1. /\ TypeOK
      /\ Call(t, "SaveFile", "saving", l)
  BY DEF IInv, SaveFile
<1>2. /\ l \in Locals
      /\ l.conn = 0 /\ l.seen = working /\ l.rev = workingRev /\ l.path = p
      /\ l.cs = 0 /\ l.port = "none" /\ l.epoch = 0
  BY <1>1, NoLocalTyped, Numbers DEF Locals
<1> HIDE DEF l
<1>3. /\ pc[t] = "idle" /\ pc'[t] = "saving" /\ local'[t].op = "SaveFile"
      /\ local'[t].conn = 0 /\ local'[t].seen = working /\ local'[t].rev = workingRev
      /\ local'[t].path = p /\ local'[t].cs = 0 /\ local'[t].port = "none"
      /\ local'[t].epoch = 0
      /\ \A u \in Threads : u # t => pc'[u] = pc[u] /\ local'[u] = local[u]
  BY <1>1, <1>2, CallFacts
<1>4. uiOrder
  BY <1>1, CallMoves, OnlyInWindow DEF CloneMethods
<1>5. /\ UNCHANGED <<connVars, svcBusy, busyVars, currentPlan, copyVars, files,
         cloneVars, sendVars>>
      /\ uiOrder => \A u \in Threads : pc[u] \notin {"saving", "saved"}
  BY DEF SaveFile
<1>6. TypeOK'
  <2>1. Grows
    BY <1>1, <1>5 DEF TypeOK, Grows, cloneVars, sendVars, connVars
  <2>2. /\ pc' \in [Threads -> Labels] /\ local' \in [Threads -> Locals]
        /\ \A u \in Threads : InRange(local[u])'
        /\ calls' \in Nat
    <3>1. /\ l.conn \in 0 .. sessions' /\ l.cs \in 0 .. Len(arms')
          /\ l.epoch \in 0 .. sent'
      BY <1>1, <1>5, <2>1, <1>2 DEF TypeOK, Grows
    <3>2. "SaveFile" \in AllMethods /\ "saving" \in Labels
      BY DEF AllMethods, Labels, RadioMethods, CloneMethods, FileMethods, SendMethods
    <3> QED
      BY <1>1, <1>2, <2>1, <3>1, <3>2, CallTyped
  <2> QED
    BY <1>1, <1>5, <2>1, <2>2 DEF TypeOK, Grows, busyVars, copyVars, cloneVars, sendVars,
       connVars
<1>7. \A u \in Threads : LabelInv(u)'
  BY <1>1, <1>3, <1>5, <1>4 DEF IInv, LabelInv, InUse, Arming, cloneVars, RadioMethods
<1>8. LockInv'
  BY <1>1, <1>3, <1>5, <1>4, LockFrame DEF IInv, Apart, HoldLabels, busyVars
<1>9. CloneInv' /\ PortInv'
  BY <1>1, <1>3, <1>5, <1>4, CloneFrame DEF IInv, Apart, CloneLabels
<1>10. SessionInv' /\ SendInv' /\ ServiceInv'
  BY <1>1, <1>3, <1>5, <1>4, SessionFrame DEF IInv, Apart, SessionLabels, busyVars
<1>11. CopyInv'
  BY <1>1, <1>3, <1>5, <1>4, Numbers DEF IInv, CopyInv, InUse, Saving, copyVars
<1>12. StaleInv'
  BY <1>1, <1>3, <1>5, <1>4, StaleFrame DEF IInv, Apart, ReadLabels, copyVars
<1> QED
  BY <1>6, <1>7, <1>8, <1>9, <1>10, <1>11, <1>12 DEF IInv

LEMMA SaveWritesKeeps ==
  ASSUME IInv, NEW t \in Threads,
         SaveWrites(t), Goto(t, "saved"),
         files' = [files EXCEPT ![local[t].path] = local[t].seen], UNCHANGED uiOrder
  PROVE  IInv'
<1>1. /\ TypeOK /\ pc[t] = "saving"
      /\ Goto(t, "saved")
  BY DEF IInv, SaveWrites
<1>2. /\ pc'[t] = "saved" /\ local'[t] = local[t]
      /\ \A u \in Threads : u # t => pc'[u] = pc[u] /\ local'[u] = local[u]
      /\ calls' = calls
  BY <1>1, GotoFacts
<1>3. /\ UNCHANGED <<connVars, svcBusy, busyVars, currentPlan, copyVars, cloneVars,
         sendVars>>
  BY DEF SaveWrites
<1>4. local[t].path \in Paths /\ local[t].seen \in Nat
  BY <1>1, Numbers DEF IInv, LabelInv, Locals
<1>5. files' \in [Paths -> Nat] /\ files'[local[t].path] = local[t].seen
  BY <1>1, <1>4 DEF TypeOK
<1>6. \A u \in Threads : u # t => pc[u] \notin {"saving", "saved"}
  BY <1>1 DEF IInv, CopyInv, Saving
<1>7. TypeOK'
  <2>1. Grows
    BY <1>1, <1>3 DEF TypeOK, Grows, cloneVars, sendVars, connVars
  <2>2. /\ pc' \in [Threads -> Labels] /\ local' \in [Threads -> Locals]
        /\ \A u \in Threads : InRange(local[u])'
    BY <1>1, <2>1, GotoTyped DEF Labels
  <2> QED
    BY <1>1, <1>3, <1>2, <1>5, <2>1, <2>2 DEF TypeOK, Grows, busyVars, copyVars, cloneVars,
       sendVars, connVars
<1>8. \A u \in Threads : LabelInv(u)'
  BY <1>1, <1>6, <1>2, <1>3 DEF IInv, LabelInv, InUse, Arming, cloneVars, RadioMethods
<1>9. LockInv'
  BY <1>1, <1>2, <1>3, LockFrame DEF IInv, Apart, HoldLabels, busyVars
<1>10. CloneInv' /\ PortInv'
  BY <1>1, <1>2, <1>3, <1>6, CloneFrame DEF IInv, Apart, CloneLabels
<1>11. SessionInv' /\ SendInv' /\ ServiceInv'
  BY <1>1, <1>2, <1>3, SessionFrame DEF IInv, Apart, SessionLabels, busyVars
<1>12. CopyInv'
  BY <1>1, <1>6, <1>2, <1>3, <1>5 DEF IInv, CopyInv, InUse, Saving, copyVars
<1>13. StaleInv'
  BY <1>1, <1>2, <1>3, StaleFrame DEF IInv, Apart, ReadLabels, copyVars
<1> QED
  BY <1>7, <1>8, <1>9, <1>10, <1>11, <1>12, <1>13 DEF IInv

LEMMA SaveFailsKeeps ==
  ASSUME IInv, NEW t \in Threads,
         SaveWrites(t), Goto(t, "idle"), UNCHANGED files, UNCHANGED uiOrder
  PROVE  IInv'
<1>1. /\ TypeOK /\ pc[t] = "saving"
      /\ Goto(t, "idle")
  BY DEF IInv, SaveWrites
<1>2. /\ pc'[t] = "idle" /\ local'[t] = NoLocal
      /\ \A u \in Threads : u # t => pc'[u] = pc[u] /\ local'[u] = local[u]
      /\ calls' = calls
  BY <1>1, GotoFacts
<1>3. /\ UNCHANGED <<connVars, svcBusy, busyVars, currentPlan, copyVars, files,
         cloneVars, sendVars>>
  BY DEF SaveWrites
<1>4. TypeOK'
  <2>1. Grows
    BY <1>1, <1>3 DEF TypeOK, Grows, cloneVars, sendVars, connVars
  <2>2. /\ pc' \in [Threads -> Labels] /\ local' \in [Threads -> Locals]
        /\ \A u \in Threads : InRange(local[u])'
    BY <1>1, <2>1, GotoTyped DEF Labels
  <2> QED
    BY <1>1, <1>3, <1>2, <2>1, <2>2 DEF TypeOK, Grows, busyVars, copyVars, cloneVars,
       sendVars,
       connVars
<1>5. \A u \in Threads : LabelInv(u)'
  BY <1>1, <1>2, <1>3 DEF IInv, LabelInv, InUse, Arming, cloneVars, RadioMethods, NoLocal
<1>6. LockInv'
  BY <1>1, <1>2, <1>3, LockFrame DEF IInv, Apart, HoldLabels, busyVars
<1>7. CloneInv' /\ PortInv'
  BY <1>1, <1>2, <1>3, CloneFrame DEF IInv, Apart, CloneLabels
<1>8. SessionInv' /\ SendInv' /\ ServiceInv'
  BY <1>1, <1>2, <1>3, SessionFrame DEF IInv, Apart, SessionLabels, busyVars
<1>9. CopyInv'
  BY <1>1, <1>2, <1>3 DEF IInv, CopyInv, InUse, Saving, copyVars
<1>10. StaleInv'
  BY <1>1, <1>2, <1>3, StaleFrame DEF IInv, Apart, ReadLabels, copyVars
<1> QED
  BY <1>4, <1>5, <1>6, <1>7, <1>8, <1>9, <1>10 DEF IInv

LEMMA SaveConcludesKeeps ==
  ASSUME IInv, NEW t \in Threads, SaveConcludes(t), UNCHANGED uiOrder
  PROVE  IInv'
<1>1. /\ TypeOK /\ pc[t] = "saved"
      /\ Goto(t, "idle")
  BY DEF IInv, SaveConcludes
<1>2. /\ pc'[t] = "idle" /\ local'[t] = NoLocal
      /\ \A u \in Threads : u # t => pc'[u] = pc[u] /\ local'[u] = local[u]
      /\ calls' = calls
  BY <1>1, GotoFacts
<1>3. /\ UNCHANGED <<connVars, svcBusy, busyVars, currentPlan, working, workingRev,
         baselineStale, baseline, files, cloneVars, sendVars>>
      /\ workingPath' = local[t].path /\ dirty' \in BOOLEAN
  BY DEF SaveConcludes
<1>4. TypeOK'
  <2>1. Grows
    BY <1>1, <1>3 DEF TypeOK, Grows, cloneVars, sendVars, connVars
  <2>2. /\ pc' \in [Threads -> Labels] /\ local' \in [Threads -> Locals]
        /\ \A u \in Threads : InRange(local[u])'
    BY <1>1, <2>1, GotoTyped DEF Labels
  <2>3. local[t].path \in Paths
    BY <1>1 DEF IInv, LabelInv
  <2> QED
    BY <1>1, <1>3, <1>2, <2>1, <2>2, <2>3 DEF TypeOK, Grows, busyVars, cloneVars, sendVars,
       connVars
<1>5. \A u \in Threads : LabelInv(u)'
  BY <1>1, <1>2, <1>3 DEF IInv, LabelInv, InUse, Arming, cloneVars, RadioMethods, NoLocal
<1>6. LockInv'
  BY <1>1, <1>2, <1>3, LockFrame DEF IInv, Apart, HoldLabels, busyVars
<1>7. CloneInv' /\ PortInv'
  BY <1>1, <1>2, <1>3, CloneFrame DEF IInv, Apart, CloneLabels
<1>8. SessionInv' /\ SendInv' /\ ServiceInv'
  BY <1>1, <1>2, <1>3, SessionFrame DEF IInv, Apart, SessionLabels, busyVars
<1>9. CopyInv'
  BY <1>1, <1>2, <1>3 DEF IInv, CopyInv, InUse, Saving
<1>10. StaleInv'
  BY <1>1, <1>2, <1>3, StaleFrame DEF IInv, Apart, ReadLabels
<1> QED
  BY <1>4, <1>5, <1>6, <1>7, <1>8, <1>9, <1>10 DEF IInv

LEMMA LoadFileKeeps ==
  ASSUME IInv, NEW t \in Threads, NEW p \in Paths, LoadFile(t, p), UNCHANGED uiOrder
  PROVE  IInv'
<1> DEFINE l == [NoLocal EXCEPT !.path = p]
<1>1. /\ TypeOK
      /\ Call(t, "LoadFile", "loading", l)
  BY DEF IInv, LoadFile
<1>2. /\ l \in Locals
      /\ l.conn = 0 /\ l.seen = 0 /\ l.rev = 0 /\ l.path = p
      /\ l.cs = 0 /\ l.port = "none" /\ l.epoch = 0
  BY <1>1, NoLocalTyped, Numbers DEF Locals
<1> HIDE DEF l
<1>3. /\ pc[t] = "idle" /\ pc'[t] = "loading" /\ local'[t].op = "LoadFile"
      /\ local'[t].conn = 0 /\ local'[t].seen = 0 /\ local'[t].rev = 0
      /\ local'[t].path = p /\ local'[t].cs = 0 /\ local'[t].port = "none"
      /\ local'[t].epoch = 0
      /\ \A u \in Threads : u # t => pc'[u] = pc[u] /\ local'[u] = local[u]
  BY <1>1, <1>2, CallFacts
<1>4. /\ UNCHANGED <<connVars, svcBusy, busyVars, currentPlan, copyVars, files,
         cloneVars, sendVars>>
  BY DEF LoadFile
<1>5. TypeOK'
  <2>1. Grows
    BY <1>1, <1>4 DEF TypeOK, Grows, cloneVars, sendVars, connVars
  <2>2. /\ pc' \in [Threads -> Labels] /\ local' \in [Threads -> Locals]
        /\ \A u \in Threads : InRange(local[u])'
        /\ calls' \in Nat
    <3>1. /\ l.conn \in 0 .. sessions' /\ l.cs \in 0 .. Len(arms')
          /\ l.epoch \in 0 .. sent'
      BY <1>1, <1>4, <2>1, <1>2 DEF TypeOK, Grows
    <3>2. "LoadFile" \in AllMethods /\ "loading" \in Labels
      BY DEF AllMethods, Labels, RadioMethods, CloneMethods, FileMethods, SendMethods
    <3> QED
      BY <1>1, <1>2, <2>1, <3>1, <3>2, CallTyped
  <2> QED
    BY <1>1, <1>4, <2>1, <2>2 DEF TypeOK, Grows, busyVars, copyVars, cloneVars, sendVars,
       connVars
<1>6. \A u \in Threads : LabelInv(u)'
  BY <1>1, <1>3, <1>4 DEF IInv, LabelInv, InUse, Arming, cloneVars, RadioMethods
<1>7. LockInv'
  BY <1>1, <1>3, <1>4, LockFrame DEF IInv, Apart, HoldLabels, busyVars
<1>8. CloneInv' /\ PortInv'
  BY <1>1, <1>3, <1>4, CloneFrame DEF IInv, Apart, CloneLabels
<1>9. SessionInv' /\ SendInv' /\ ServiceInv'
  BY <1>1, <1>3, <1>4, SessionFrame DEF IInv, Apart, SessionLabels, busyVars
<1>10. CopyInv'
  BY <1>1, <1>3, <1>4, CopyFrame DEF IInv, Apart, CopyLabels, copyVars
<1>11. StaleInv'
  BY <1>1, <1>3, <1>4, StaleFrame DEF IInv, Apart, ReadLabels, copyVars
<1> QED
  BY <1>5, <1>6, <1>7, <1>8, <1>9, <1>10, <1>11 DEF IInv

LEMMA LoadFailsKeeps ==
  ASSUME IInv, NEW t \in Threads,
         LoadReads(t), pc' = [pc EXCEPT ![t] = "idle"],
         local' = [local EXCEPT ![t] = NoLocal], UNCHANGED uiOrder
  PROVE  IInv'
<1>1. /\ TypeOK /\ pc[t] = "loading"
      /\ Goto(t, "idle")
  BY DEF IInv, LoadReads, Goto
<1>2. /\ pc'[t] = "idle" /\ local'[t] = NoLocal
      /\ \A u \in Threads : u # t => pc'[u] = pc[u] /\ local'[u] = local[u]
      /\ calls' = calls
  BY <1>1, GotoFacts
<1>3. /\ UNCHANGED <<connVars, svcBusy, busyVars, currentPlan, copyVars, files,
         cloneVars, sendVars>>
  BY DEF LoadReads
<1>4. TypeOK'
  <2>1. Grows
    BY <1>1, <1>3 DEF TypeOK, Grows, cloneVars, sendVars, connVars
  <2>2. /\ pc' \in [Threads -> Labels] /\ local' \in [Threads -> Locals]
        /\ \A u \in Threads : InRange(local[u])'
    BY <1>1, <2>1, GotoTyped DEF Labels
  <2> QED
    BY <1>1, <1>3, <1>2, <2>1, <2>2 DEF TypeOK, Grows, busyVars, copyVars, cloneVars,
       sendVars,
       connVars
<1>5. \A u \in Threads : LabelInv(u)'
  BY <1>1, <1>2, <1>3 DEF IInv, LabelInv, InUse, Arming, cloneVars, RadioMethods, NoLocal
<1>6. LockInv'
  BY <1>1, <1>2, <1>3, LockFrame DEF IInv, Apart, HoldLabels, busyVars
<1>7. CloneInv' /\ PortInv'
  BY <1>1, <1>2, <1>3, CloneFrame DEF IInv, Apart, CloneLabels
<1>8. SessionInv' /\ SendInv' /\ ServiceInv'
  BY <1>1, <1>2, <1>3, SessionFrame DEF IInv, Apart, SessionLabels, busyVars
<1>9. CopyInv'
  BY <1>1, <1>2, <1>3, CopyFrame DEF IInv, Apart, CopyLabels, copyVars
<1>10. StaleInv'
  BY <1>1, <1>2, <1>3, StaleFrame DEF IInv, Apart, ReadLabels, copyVars
<1> QED
  BY <1>4, <1>5, <1>6, <1>7, <1>8, <1>9, <1>10 DEF IInv

LEMMA LoadReadsKeeps ==
  ASSUME IInv, NEW t \in Threads, LoadReads(t), UNCHANGED uiOrder,
         pc' = [pc EXCEPT ![t] = "loaded"],
         local' = [local EXCEPT ![t].seen = files[local[t].path]]
  PROVE  IInv'
<1> DEFINE l == [local[t] EXCEPT !.seen = files[local[t].path]]
<1>1. /\ TypeOK /\ pc[t] = "loading"
      /\ UNCHANGED <<connVars, svcBusy, busyVars, currentPlan, copyVars, files, cloneVars,
                     sendVars, calls>>
  BY DEF IInv, LoadReads
<1>2. local[t].path \in Paths /\ files[local[t].path] \in Nat
  BY <1>1 DEF IInv, LabelInv, TypeOK
<1>3. /\ l \in Locals
      /\ l.op = local[t].op /\ l.conn = local[t].conn /\ l.path = local[t].path
      /\ l.cs = local[t].cs /\ l.epoch = local[t].epoch
  BY <1>1, <1>2, Numbers DEF Locals
<1>4. Moves(t, "loaded", l)
  BY <1>1 DEF Moves, TypeOK
<1> HIDE DEF l
<1>5. /\ pc'[t] = "loaded" /\ local'[t] = l
      /\ \A u \in Threads : u # t => pc'[u] = pc[u] /\ local'[u] = local[u]
  BY <1>1, <1>4, MoveFacts
<1>6. TypeOK'
  <2>1. Grows
    BY <1>1 DEF TypeOK, Grows, connVars, cloneVars, sendVars
  <2>2. /\ pc' \in [Threads -> Labels] /\ local' \in [Threads -> Locals]
        /\ \A u \in Threads : InRange(local[u])'
    <3>1. /\ l.op \in Methods[uiOrder] \cup {"none"}
          /\ l.conn \in 0 .. sessions' /\ l.cs \in 0 .. Len(arms') /\ l.epoch \in 0 .. sent'
      BY <1>1, <1>3, <2>1, Numbers DEF InRange, connVars, cloneVars, sendVars
    <3>2. "loaded" \in Labels
      BY DEF Labels
    <3> QED
      BY <1>1, <1>3, <1>4, <2>1, <3>1, <3>2, MoveTyped
  <2> QED
    BY <1>1, <2>1, <2>2 DEF TypeOK, connVars, busyVars, copyVars, cloneVars, sendVars
<1>7. \A u \in Threads : LabelInv(u)'
  BY <1>1, <1>2, <1>3, <1>5 DEF IInv, LabelInv, InUse, Arming, cloneVars, RadioMethods
<1>8. LockInv'
  BY <1>1, <1>5, LockFrame DEF IInv, Apart, HoldLabels, busyVars
<1>9. CloneInv' /\ PortInv'
  BY <1>1, <1>5, CloneFrame DEF IInv, Apart, CloneLabels
<1>10. SessionInv' /\ SendInv' /\ ServiceInv'
  BY <1>1, <1>5, SessionFrame DEF IInv, Apart, SessionLabels, busyVars
<1>11. CopyInv'
  BY <1>1, <1>5, CopyFrame DEF IInv, Apart, CopyLabels, copyVars
<1>12. StaleInv'
  BY <1>1, <1>5, StaleFrame DEF IInv, Apart, ReadLabels, copyVars
<1> QED
  BY <1>6, <1>7, <1>8, <1>9, <1>10, <1>11, <1>12 DEF IInv

LEMMA LoadRefusedKeeps ==
  ASSUME IInv, NEW t \in Threads, LoadConcludes(t), ~NotBusy, UNCHANGED uiOrder
  PROVE  IInv'
<1>1. /\ TypeOK /\ pc[t] = "loaded"
      /\ Goto(t, "idle")
  BY DEF IInv, LoadConcludes
<1>2. /\ pc'[t] = "idle" /\ local'[t] = NoLocal
      /\ \A u \in Threads : u # t => pc'[u] = pc[u] /\ local'[u] = local[u]
      /\ calls' = calls
  BY <1>1, GotoFacts
<1>3. /\ UNCHANGED <<connVars, svcBusy, busyVars, currentPlan, copyVars, files,
         cloneVars, sendVars>>
  BY DEF LoadConcludes, copyVars
<1>4. TypeOK'
  <2>1. Grows
    BY <1>1, <1>3 DEF TypeOK, Grows, cloneVars, sendVars, connVars
  <2>2. /\ pc' \in [Threads -> Labels] /\ local' \in [Threads -> Locals]
        /\ \A u \in Threads : InRange(local[u])'
    BY <1>1, <2>1, GotoTyped DEF Labels
  <2> QED
    BY <1>1, <1>3, <1>2, <2>1, <2>2 DEF TypeOK, Grows, busyVars, copyVars, cloneVars,
       sendVars,
       connVars
<1>5. \A u \in Threads : LabelInv(u)'
  BY <1>1, <1>2, <1>3 DEF IInv, LabelInv, InUse, Arming, cloneVars, RadioMethods, NoLocal
<1>6. LockInv'
  BY <1>1, <1>2, <1>3, LockFrame DEF IInv, Apart, HoldLabels, busyVars
<1>7. CloneInv' /\ PortInv'
  BY <1>1, <1>2, <1>3, CloneFrame DEF IInv, Apart, CloneLabels
<1>8. SessionInv' /\ SendInv' /\ ServiceInv'
  BY <1>1, <1>2, <1>3, SessionFrame DEF IInv, Apart, SessionLabels, busyVars
<1>9. CopyInv'
  BY <1>1, <1>2, <1>3, CopyFrame DEF IInv, Apart, CopyLabels, copyVars
<1>10. StaleInv'
  BY <1>1, <1>2, <1>3, StaleFrame DEF IInv, Apart, ReadLabels, copyVars
<1> QED
  BY <1>4, <1>5, <1>6, <1>7, <1>8, <1>9, <1>10 DEF IInv

LEMMA LoadConcludesKeeps ==
  ASSUME IInv, NEW t \in Threads, LoadConcludes(t), NotBusy, UNCHANGED uiOrder
  PROVE  IInv'
<1>1. /\ TypeOK /\ pc[t] = "loaded" /\ opBusy = NoOp
      /\ Goto(t, "idle")
  BY DEF IInv, LoadConcludes, NotBusy
<1>2. /\ pc'[t] = "idle" /\ local'[t] = NoLocal
      /\ \A u \in Threads : u # t => pc'[u] = pc[u] /\ local'[u] = local[u]
      /\ calls' = calls
  BY <1>1, GotoFacts
<1>3. /\ UNCHANGED <<connVars, svcBusy, busyVars, currentPlan, baselineStale,
         baseline, files, cloneVars, sendVars>>
      /\ working' = local[t].seen /\ workingRev' = workingRev + 1
      /\ workingPath' = local[t].path /\ dirty' = FALSE
  BY DEF LoadConcludes
<1>4. \A u \in Threads : ~InUse(u) /\ pc[u] \notin {"receiving", "received"}
  BY <1>1, FreeOfReads
<1>5. TypeOK'
  <2>1. Grows
    BY <1>1, <1>3 DEF TypeOK, Grows, cloneVars, sendVars, connVars
  <2>2. /\ pc' \in [Threads -> Labels] /\ local' \in [Threads -> Locals]
        /\ \A u \in Threads : InRange(local[u])'
    BY <1>1, <2>1, GotoTyped DEF Labels
  <2>3. local[t].path \in Paths /\ local[t].seen \in Nat /\ workingRev + 1 \in Nat
    BY <1>1, Numbers DEF IInv, LabelInv, Locals
  <2> QED
    BY <1>1, <1>3, <1>2, <2>1, <2>2, <2>3 DEF TypeOK, Grows, busyVars, cloneVars, sendVars,
       connVars
<1>6. \A u \in Threads : LabelInv(u)'
  BY <1>1, <1>4, <1>2, <1>3 DEF IInv, LabelInv, InUse, Arming, cloneVars, RadioMethods,
     NoLocal
<1>7. LockInv'
  BY <1>1, <1>2, <1>3, LockFrame DEF IInv, Apart, HoldLabels, busyVars
<1>8. CloneInv' /\ PortInv'
  BY <1>1, <1>2, <1>3, <1>4, CloneFrame DEF IInv, Apart, CloneLabels
<1>9. SessionInv' /\ SendInv' /\ ServiceInv'
  BY <1>1, <1>2, <1>3, SessionFrame DEF IInv, Apart, SessionLabels, busyVars
<1>10. CopyInv'
  <2>1. \A u \in Threads :
          pc'[u] \notin {"service", "wire", "finish", "receiving", "received"}
    BY <1>1, <1>2, <1>4 DEF InUse, Holds, Receiving
  <2>2. \A u \in Threads :
          pc'[u] \in {"saving", "saved"} => u # t /\ local'[u].rev < workingRev'
    BY <1>1, <1>2, <1>3, Numbers DEF IInv, CopyInv, Saving
  <2>3. \A u \in Threads : ~InUse(u)' /\ pc'[u] \notin {"receiving", "received"}
    BY <2>1 DEF InUse
  <2>4. \A u \in Threads :
          Saving(u)' => /\ Saving(u) /\ pc'[u] = pc[u] /\ local'[u] = local[u]
                        /\ local'[u].rev < workingRev'
    BY <1>2, <2>2 DEF Saving
  <2>5. workingRev' \in Nat /\ \A u \in Threads : local[u].rev \in Nat
    BY <1>1, <1>3, Numbers
  <2>6. \A u \in Threads : pc'[u] = "saved" => files'[local'[u].path] = local'[u].seen
    BY <1>3, <2>4 DEF IInv, CopyInv, Saving
  <2>7. \A u, v \in Threads : Saving(u)' /\ Saving(v)' => u = v
    BY <2>4 DEF IInv, CopyInv
  <2> QED
    BY <2>3, <2>4, <2>5, <2>6, <2>7 DEF CopyInv
<1>11. StaleInv'
  BY <1>1, <1>2, <1>3, StaleFrame DEF IInv, Apart, ReadLabels
<1> QED
  BY <1>5, <1>6, <1>7, <1>8, <1>9, <1>10, <1>11 DEF IInv

-----------------------------------------------------------------------------
(* The inductive invariant.                                                *)

LEMMA InitEstablishes == Init => IInv
<1> SUFFICES ASSUME Init
             PROVE  IInv
  OBVIOUS
<1>1. /\ NoLocal \in Locals /\ NoLocal.conn = 0 /\ NoLocal.seen = 0 /\ NoLocal.cs = 0
      /\ NoLocal.epoch = 0 /\ NoLocal.op = "none" /\ NoLocal.path = NoPath
      /\ Quiet \in Sends /\ Quiet.at = "none" /\ Quiet.conn = 0 /\ Quiet.plan = 0
  BY NoLocalTyped DEF Quiet, Sends, Causes
<1>2. /\ \A t \in Threads : pc[t] = "idle" /\ local[t] = NoLocal /\ send[t] = Quiet
      /\ arms = <<>> /\ cloneState = 0 /\ opBusy = NoOp /\ transfer = NoSend
  BY DEF Init
<1>3. TypeOK
  <2>1. uiOrder \in UIOrders /\ MaxCalls[uiOrder] \in Nat
    BY AppAssumption DEF Init
  <2>2. files \in [Paths -> Nat]
    BY <2>1 DEF Init, Nothing, Foreign
  <2>3. arms \in Seq(Arms) /\ Len(arms) = 0
    BY <1>2
  <2>4. transfer \in [running : BOOLEAN, cancel : Threads \cup {Nobody}]
    BY <1>2 DEF NoSend
  <2>5. /\ pc \in [Threads -> Labels] /\ local \in [Threads -> Locals]
        /\ send \in [Threads -> Sends] /\ stopped \in [Threads -> BOOLEAN]
    BY <1>1 DEF Init, Labels
  <2>6. \A t \in Threads : InRange(local[t])
    BY <1>1, <1>2, <2>3 DEF Init, InRange
  <2>7. \A t \in Threads : send[t].conn \in 0 .. sessions /\ send[t].plan \in 0 .. sessions
    BY <1>1, <1>2 DEF Init
  <2>8. /\ conn \in 0 .. sessions /\ closed \subseteq 1 .. sessions /\ sessions \in Nat
        /\ svcBusy \subseteq 1 .. sessions /\ currentPlan \in 0 .. sessions
        /\ cloneState \in 0 .. Len(arms) /\ baseline \in 0 .. sent
    BY <2>3 DEF Init
  <2> QED
    BY <2>1, <2>2, <2>3, <2>4, <2>5, <2>6, <2>7, <2>8 DEF Init, TypeOK, Nothing
<1>4. \A t \in Threads : LabelInv(t)
  BY <1>1, <1>2 DEF LabelInv, InUse, Arming, RadioMethods
<1>5. LockInv
  BY <1>2 DEF LockInv, Holds, InUse, Arming, ArmHolds, Receiving
<1>6. CloneInv /\ PortInv
  BY <1>2 DEF CloneInv, Serves, PortInv, ArmHolds, Arming, Receiving
<1>7. SessionInv
  BY <1>1, <1>2 DEF Init, SessionInv, InUse
<1>8. SendInv
  BY <1>1, <1>2 DEF SendInv, NoSend
<1>9. ServiceInv
  BY <1>1, <1>2 DEF ServiceInv, Serving, OnWire
<1>10. CopyInv
  BY <1>2 DEF CopyInv, InUse, Saving
<1>11. StaleInv
  BY <1>2 DEF Init, StaleInv, InUse
<1> QED
  BY <1>3, <1>4, <1>5, <1>6, <1>7, <1>8, <1>9, <1>10, <1>11 DEF IInv

LEMMA StutterKeeps ==
  ASSUME IInv, UNCHANGED vars
  PROVE  IInv'
<1>1. UNCHANGED <<uiOrder, conn, closed, sessions, svcBusy, opBusy, transfer, currentPlan,
                  working, workingPath, dirty, workingRev, baselineStale, baseline, files,
                  cloneState, arms, pc, local, send, stopped, sent, calls>>
  BY DEF vars, connVars, busyVars, copyVars, cloneVars, callVars, sendVars
<1>2. TypeOK'
  BY <1>1 DEF IInv, TypeOK, InRange
<1>3. \A t \in Threads : LabelInv(t)'
  BY <1>1 DEF IInv, LabelInv, InUse
<1>4. LockInv'
  BY <1>1 DEF IInv, LockInv, Holds, InUse, ArmHolds, Receiving, Name
<1>5. CloneInv' /\ PortInv'
  BY <1>1 DEF IInv, CloneInv, Serves, PortInv, ArmHolds, Receiving, Closes
<1>6. SessionInv'
  BY <1>1 DEF IInv, SessionInv, InUse
<1>7. SendInv' /\ ServiceInv'
  BY <1>1 DEF IInv, SendInv, ServiceInv, Serving, OnWire
<1>8. CopyInv'
  BY <1>1 DEF IInv, CopyInv, InUse, Saving
<1>9. StaleInv'
  BY <1>1 DEF IInv, StaleInv, InUse, Marking
<1> QED
  BY <1>2, <1>3, <1>4, <1>5, <1>6, <1>7, <1>8, <1>9 DEF IInv

LEMMA ConnectionStepKeeps ==
  ASSUME IInv, NEW t \in Threads, ConnectionStep(t), UNCHANGED uiOrder
  PROVE  IInv'
BY ConnectKeeps, ConnectEndsKeeps, DisconnectKeeps, SessionClosesKeeps DEF ConnectionStep

LEMMA RadioStepKeeps ==
  ASSUME IInv, NEW t \in Threads, RadioStep(t), UNCHANGED uiOrder
  PROVE  IInv'
<1>1. CASE \E m \in RadioMethods : BeginRadioMethod(t, m)
  BY <1>1, BeginRadioMethodKeeps
<1>2. CASE EnterService(t)
  BY <1>2, EnterServiceRefusedKeeps, EnterServiceKeeps
<1>3. CASE RadioMethodEnds(t)
  BY <1>3, RadioMethodEndsKeeps
<1>4. CASE FinishRead(t) \/ FinishPrepare(t) \/ FinishSettings(t) \/ ReleaseOp(t)
  BY <1>4, FinishReadKeeps, FinishPrepareKeeps, FinishSettingsKeeps, ReleaseOpKeeps
<1> QED
  BY <1>1, <1>2, <1>3, <1>4 DEF RadioStep

LEMMA SendStepKeeps ==
  ASSUME IInv, NEW t \in Threads, SendStep(t), UNCHANGED uiOrder
  PROVE  IInv'
<1>1. CASE ConfirmSend(t) \/ ConfirmRefused(t) \/ ConfirmStarts(t) \/ CancelTransfer(t)
  BY <1>1, ConfirmSendKeeps, ConfirmRefusedKeeps, ConfirmStartsKeeps, CancelTransferKeeps
<1>2. CASE SendEnters(t) \/ SendReturns(t) \/ SendEnds(t)
  BY <1>2, SendEntersKeeps, SendReturnsKeeps, SendEndsKeeps
<1> QED
  BY <1>1, <1>2 DEF SendStep

LEMMA CloneStepKeeps ==
  ASSUME DialoguesKept, IInv, NEW t \in Threads, CloneStep(t), UNCHANGED uiOrder
  PROVE  IInv'
<1>1. CASE ArmCloneRead(t) \/ CancelCloneRead(t) \/ ReceiveCloneImage(t)
  BY <1>1, ArmCloneReadKeeps, CancelCloneReadKeeps, ReceiveCloneImageKeeps
<1>2. CASE ArmOpensPort(t)
  <2>1. \/ Cancelled(local[t].cs) /\ Goto(t, "idle") /\ UNCHANGED arms
        \/ /\ ~Cancelled(local[t].cs) /\ Goto(t, "listening")
           /\ arms' = [arms EXCEPT ![local[t].cs].port = "open"]
        \/ Goto(t, "abandon") /\ UNCHANGED arms
    BY <1>2 DEF ArmOpensPort
  <2> QED
    BY <1>2, <2>1, ArmOpensPortLateKeeps, ArmOpensPortKeeps, ArmOpensPortFailsKeeps
<1>3. CASE ArmListens(t)
  <2>1. \/ /\ Cancelled(local[t].cs) /\ Goto(t, "idle")
           /\ arms' = [arms EXCEPT ![local[t].cs].port = "closed"]
        \/ /\ ~Cancelled(local[t].cs) /\ Goto(t, "idle")
           /\ arms' = [arms EXCEPT ![local[t].cs].reception = TRUE]
        \/ Goto(t, "abandon") /\ arms' = [arms EXCEPT ![local[t].cs].port = "closed"]
    BY <1>3 DEF ArmListens
  <2> QED
    BY <1>3, <2>1, ArmListensLateKeeps, ArmListensKeeps, ArmListensFailsKeeps
<1>4. CASE AbandonArm(t)
  BY <1>4, AbandonArmLateKeeps, AbandonArmKeeps
<1>5. CASE ImageArrives(t)
  <2>1. Goto(t, "received") \/ Goto(t, "unport")
    BY <1>5 DEF ImageArrives
  <2> QED
    BY <1>5, <2>1, ImageArrivesKeeps, ImageLostKeeps
<1>6. CASE ImageLoads(t) \/ ClosePort(t) \/ Unarm(t)
  BY <1>6, ImageLoadsKeeps, ClosePortKeeps, UnarmKeeps
<1> QED
  BY <1>1, <1>2, <1>3, <1>4, <1>5, <1>6 DEF CloneStep

LEMMA FileStepKeeps ==
  ASSUME DialoguesKept, IInv, NEW t \in Threads, FileStep(t), UNCHANGED uiOrder
  PROVE  IInv'
<1>1. CASE UpdateChannel(t) \/ SaveConcludes(t)
  BY <1>1, UpdateChannelKeeps, SaveConcludesKeeps
<1>2. CASE SaveWrites(t)
  <2>1. \/ Goto(t, "saved") /\ files' = [files EXCEPT ![local[t].path] = local[t].seen]
        \/ Goto(t, "idle") /\ UNCHANGED files
    BY <1>2 DEF SaveWrites
  <2> QED
    BY <1>2, <2>1, SaveWritesKeeps, SaveFailsKeeps
<1>3. CASE LoadReads(t)
  <2>1. \/ /\ pc' = [pc EXCEPT ![t] = "loaded"]
           /\ local' = [local EXCEPT ![t].seen = files[local[t].path]]
        \/ pc' = [pc EXCEPT ![t] = "idle"] /\ local' = [local EXCEPT ![t] = NoLocal]
    BY <1>3 DEF LoadReads
  <2> QED
    BY <1>3, <2>1, LoadReadsKeeps, LoadFailsKeeps
<1>4. CASE LoadConcludes(t)
  BY <1>4, LoadRefusedKeeps, LoadConcludesKeeps
<1>5. CASE \E p \in Paths : SaveFile(t, p) \/ LoadFile(t, p)
  BY <1>5, SaveFileKeeps, LoadFileKeeps
<1> QED
  BY <1>1, <1>2, <1>3, <1>4, <1>5 DEF FileStep

LEMMA NextKeeps ==
  ASSUME DialoguesKept, IInv, [Next]_vars
  PROVE  IInv'
<1>1. CASE UNCHANGED vars
  BY <1>1, StutterKeeps
<1>2. CASE Next
  <2>1. PICK t \in Threads :
          ConnectionStep(t) \/ RadioStep(t) \/ SendStep(t) \/ CloneStep(t)
                               \/ FileStep(t)
    BY <1>2 DEF Next
  <2>2. UNCHANGED uiOrder
    BY <1>2 DEF Next
  <2> QED
    BY <2>1, <2>2, ConnectionStepKeeps, RadioStepKeeps, SendStepKeeps, CloneStepKeeps,
       FileStepKeeps
<1> QED
  BY <1>1, <1>2

(* The inductive invariant holds of every behaviour in which clone mode    *)
(* and the save are asked for through the window's dialogues, in whatever  *)
(* order the other methods are called.                                     *)
THEOREM IInvHolds ==
  ASSUME DialoguesKept
  PROVE  Spec => []IInv
<1>1. IInv /\ [Next]_vars => IInv'
  BY NextKeeps
<1> QED
  BY <1>1, InitEstablishes, PTL DEF Spec

-----------------------------------------------------------------------------
(* What the invariant says of the application.                             *)

(* Every variable of the App keeps its type, and no call or send speaks of *)
(* a session, an arm or a send there has not been.                         *)
THEOREM TypeCorrect ==
  ASSUME DialoguesKept
  PROVE  Spec => []TypeOK
<1>1. IInv => TypeOK
  BY DEF IInv
<1> QED
  BY <1>1, IInvHolds, PTL

(* Disconnect never closes a session under an operation on it.             *)
THEOREM SessionStaysOpen ==
  ASSUME DialoguesKept
  PROVE  Spec => []SessionOpenWhileUsed
<1>1. IInv => SessionOpenWhileUsed
  BY DEF IInv, SessionInv, SessionOpenWhileUsed, Sending
<1> QED
  BY <1>1, IInvHolds, PTL

(* Two operations never mix their traffic with one radio, but for          *)
(* WriteSetting, which may fall between the frames of a send.              *)
THEOREM TrafficIsKeptApart ==
  ASSUME DialoguesKept
  PROVE  Spec => []TrafficNeverMixes
<1>1. IInv => TrafficNeverMixes
  <2> SUFFICES ASSUME IInv, NEW t \in Threads, NEW u \in Threads, OnWire(t)
               PROVE  /\ t # u => ~OnWire(u)
                      /\ send[u].at = "executing" /\ local[t].op # "WriteSetting" =>
                           local[t].conn # send[u].conn
    BY DEF TrafficNeverMixes
  <2>1. t # u => ~OnWire(u)
    BY RadioHolds DEF OnWire, InUse
  <2>2. send[u].at = "executing" /\ local[t].op # "WriteSetting" =>
          local[t].conn # send[u].conn
    BY DEF IInv, ServiceInv, Serving
  <2> QED
    BY <2>1, <2>2
<1> QED
  BY <1>1, IInvHolds, PTL

(* While a send is under way, App.transfer names it: there is one at most, *)
(* and CancelTransfer reaches it.                                          *)
THEOREM SendStaysReachable ==
  ASSUME DialoguesKept
  PROVE  Spec => []SendIsReachable
<1>1. IInv => SendIsReachable
  BY DEF IInv, SendInv, SendIsReachable
<1> QED
  BY <1>1, IInvHolds, PTL

(* A plan that is there to be confirmed was prepared in the session that   *)
(* is open now.                                                            *)
THEOREM PlanIsOfThisSession ==
  ASSUME DialoguesKept
  PROVE  Spec => []PlanOfThisSession
<1>1. IInv => PlanOfThisSession
  BY DEF IInv, SessionInv, PlanOfThisSession
<1> QED
  BY <1>1, IInvHolds, PTL

(* Once every call has returned, nothing is reserved that is not in use    *)
(* and no port of a clone-mode read that is over is open.                  *)
THEOREM NothingStaysReserved ==
  ASSUME DialoguesKept
  PROVE  Spec => []NothingLeaked
<1>1. IInv => NothingLeaked
  <2> SUFFICES ASSUME IInv, \A t \in Threads : pc[t] = "idle"
               PROVE  /\ cloneState = 0 =>
                           opBusy = NoOp /\ \A i \in DOMAIN arms : arms[i].port # "open"
                      /\ (\A t \in Threads : send[t].at = "none") => ~transfer.running
    BY DEF NothingLeaked
  <2>1. \A t \in Threads : ~Holds(t)
    BY DEF Holds, InUse, ArmHolds, Arming, Receiving
  <2>2. cloneState = 0 => opBusy = NoOp
    BY <2>1 DEF IInv, LockInv
  <2>3. cloneState = 0 => \A i \in DOMAIN arms : arms[i].port # "open"
    BY DEF IInv, PortInv, Closes, TypeOK
  <2>4. (\A t \in Threads : send[t].at = "none") => ~transfer.running
    BY DEF IInv, SendInv
  <2> QED
    BY <2>2, <2>3, <2>4
<1> QED
  BY <1>1, IInvHolds, PTL

(* App.opBusy names the operation in progress until its holder releases    *)
(* it; no call releases another's, however ArmCloneRead, CancelCloneRead   *)
(* and ReceiveCloneImage overlap as far as the window's dialogues let them *)
(* (DialoguesKept).                                                        *)
THEOREM ReservationIsHeld ==
  ASSUME DialoguesKept
  PROVE  Spec => []ReservationHeld
<1>1. IInv => ReservationHeld
  <2> SUFFICES ASSUME IInv
               PROVE  ReservationHeld
    OBVIOUS
  <2>1. ASSUME NEW t \in Threads, local[t].op \in RadioMethods
        PROVE  opBusy = local[t].op
    <3>1. InUse(t) \/ pc[t] = "release"
      BY <2>1 DEF IInv, LabelInv
    <3> QED
      BY <2>1, <3>1 DEF IInv, LockInv, Holds, Name
  <2>2. ASSUME NEW t \in Threads, pc[t] \in {"arming", "listening"},
               ~arms[local[t].cs].cancelled
        PROVE  opBusy = "ArmCloneRead"
    <3>1. Holds(t)
      BY <2>2 DEF Holds, ArmHolds, Arming
    <3>2. local[t].op = "ArmCloneRead"
      BY <2>2, ArmingHolds DEF Arming
    <3> QED
      BY <3>1, <3>2 DEF IInv, LockInv, Name, RadioMethods
  <2>3. ASSUME NEW t \in Threads, Receiving(t)
        PROVE  opBusy = "ArmCloneRead"
    <3>1. Holds(t) /\ pc[t] \in {"receiving", "received", "unport", "unarm"}
      BY <2>3 DEF IInv, LabelInv, Holds, Receiving
    <3>2. local[t].op \in {"CancelCloneRead", "ReceiveCloneImage"}
      BY <3>1, ReceivingHolds
    <3> QED
      BY <3>1, <3>2 DEF IInv, LockInv, Name, RadioMethods
  <2>4. cloneState # 0 => opBusy = "ArmCloneRead"
    BY DEF IInv, LockInv
  <2> QED
    BY <2>1, <2>2, <2>3, <2>4 DEF ReservationHeld
<1> QED
  BY <1>1, IInvHolds, PTL

(* In the window's order, once no send is under way, a baseline older than *)
(* the last send that touched the radio is marked as such.                 *)
THEOREM StaleBaselineIsMarked ==
  ASSUME DialoguesKept
  PROVE  Spec => []StaleIsMarked
<1>1. IInv => StaleIsMarked
  BY DEF IInv, StaleInv, Marking, StaleIsMarked
<1> QED
  BY <1>1, IInvHolds, PTL

(* A read of the radio replaces the working copy that was there when it    *)
(* began: no edit, import or load made meanwhile is swallowed.             *)
THEOREM NoEditIsSwallowed ==
  ASSUME DialoguesKept
  PROVE  Spec => NoEditSwallowed
<1> DEFINE Replaces(t) ==
      \/ pc[t] = "finish" /\ pc'[t] = "release" /\ local[t].op = "ReadRadio"
      \/ pc[t] = "received" /\ pc'[t] = "unport"
<1>1. IInv => \A t \in Threads : Replaces(t) => working = local[t].seen
  BY DEF IInv, CopyInv, InUse
<1>2. IInv => [\A t \in Threads : Replaces(t) => working = local[t].seen]_vars
  BY <1>1
<1> QED
  BY <1>2, IInvHolds, PTL DEF NoEditSwallowed

-----------------------------------------------------------------------------
(* The end of a save.                                                      *)

(* No step moves another thread's call.                                    *)
LEMMA OneThreadMoves ==
  ASSUME TypeOK, NEW t \in Threads, NEW u \in Threads, u # t,
         ConnectionStep(u) \/ RadioStep(u) \/ SendStep(u) \/ CloneStep(u) \/ FileStep(u)
  PROVE  pc'[t] = pc[t]
<1>1. CASE ConnectionStep(u)
  BY <1>1 DEF TypeOK, ConnectionStep, Connect, ConnectEnds, Disconnect, SessionCloses, Call,
     Goto
<1>2. CASE RadioStep(u)
  BY <1>2 DEF TypeOK, RadioStep, BeginRadioMethod, EnterService, RadioMethodEnds,
     FinishRead, FinishPrepare, FinishSettings, ReleaseOp, Call, Goto
<1>3. CASE SendStep(u)
  BY <1>3 DEF TypeOK, SendStep, ConfirmSend, ConfirmRefused, ConfirmStarts, CancelTransfer,
     SendEnters, SendReturns, SendEnds, Call, Goto, callVars
<1>4. CASE CloneStep(u)
  BY <1>4 DEF TypeOK, CloneStep, ArmCloneRead, ArmOpensPort, ArmListens, AbandonArm,
     CancelCloneRead, ReceiveCloneImage, ImageArrives, ImageLoads, ClosePort, Unarm, Call,
     Goto
<1>5. CASE FileStep(u)
  BY <1>5 DEF TypeOK, FileStep, UpdateChannel, SaveWrites, SaveConcludes, LoadReads,
     LoadConcludes, SaveFile, LoadFile, Call, Goto
<1> QED
  BY <1>1, <1>2, <1>3, <1>4, <1>5

(* A call that has written its file ends in SaveFile's last section.       *)
LEMMA SaveEndsHere ==
  ASSUME IInv, NEW t \in Threads, pc[t] = "saved", pc'[t] = "idle", Next
  PROVE  SaveConcludes(t)
<1>1. TypeOK
  BY DEF IInv
<1>2. PICK u \in Threads :
        ConnectionStep(u) \/ RadioStep(u) \/ SendStep(u) \/ CloneStep(u) \/ FileStep(u)
  BY DEF Next
<1>3. u = t
  BY <1>1, <1>2, OneThreadMoves
<1>4. ~ConnectionStep(t)
  BY DEF ConnectionStep, Connect, ConnectEnds, Disconnect, SessionCloses, Call
<1>5. ~RadioStep(t)
  BY DEF RadioStep, BeginRadioMethod, EnterService, RadioMethodEnds, FinishRead,
     FinishPrepare, FinishSettings, ReleaseOp, Call
<1>6. ~SendStep(t)
  BY DEF SendStep, ConfirmSend, ConfirmRefused, ConfirmStarts, CancelTransfer, SendEnters,
     SendReturns, SendEnds, Call, callVars
<1>7. ~CloneStep(t)
  BY DEF CloneStep, ArmCloneRead, ArmOpensPort, ArmListens, AbandonArm, CancelCloneRead,
     ReceiveCloneImage, ImageArrives, ImageLoads, ClosePort, Unarm, Call
<1> QED
  BY <1>2, <1>3, <1>4, <1>5, <1>6, <1>7
  DEF FileStep, UpdateChannel, SaveWrites, LoadReads, LoadConcludes, SaveFile, LoadFile,
  Call

(* A save takes the dirty mark away only if the file holds the working     *)
(* copy as it is at that moment, whatever changed it during the save.      *)
THEOREM SaveTellsTheTruth ==
  ASSUME DialoguesKept
  PROVE  Spec => SaveClearsHonestly
<1> DEFINE Clears(t) == pc[t] = "saved" /\ pc'[t] = "idle" /\ dirty /\ ~dirty'
<1>1. ASSUME IInv, Next, NEW t \in Threads, Clears(t)
      PROVE  files[workingPath'] = working'
  <2>1. SaveConcludes(t)
    BY <1>1, SaveEndsHere
  <2>2. workingRev = local[t].rev /\ workingPath' = local[t].path /\ working' = working
    BY <1>1, <2>1 DEF SaveConcludes, StillCurrent
  <2>3. local[t].seen = working /\ files[local[t].path] = local[t].seen
    BY <1>1, <2>2 DEF IInv, CopyInv, Saving
  <2> QED
    BY <2>2, <2>3
<1>2. IInv /\ [Next]_vars =>
        [\A t \in Threads : Clears(t) => files[workingPath'] = working']_vars
  BY <1>1
<1> QED
  BY <1>2, IInvHolds, PTL DEF SaveClearsHonestly, Spec

=============================================================================
