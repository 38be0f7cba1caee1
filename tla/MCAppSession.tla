----------------------------- MODULE MCAppSession -----------------------------
(* AppSession for TLC.                                                     *)
EXTENDS AppSession, TLC

CONSTANTS t1, t2, t3

ThreadSymmetry == Permutations(Threads)

(* The radio controls; everything the window offers beside them; a save    *)
(* and a read; a send and a read.                                          *)
RadioCalls == {"Connect", "Disconnect", "UpdateChannel"} \cup RadioMethods \cup SendMethods
WindowCalls ==
  {"Connect", "Disconnect", "ReadRadio", "PrepareSend", "ReadSettingsRadio"}
    \cup CloneMethods \cup FileMethods \cup SendMethods
ReadCalls  == {"Connect", "ReadRadio", "UpdateChannel", "SaveFile"}
SendCalls  == SendMethods \cup {"Connect", "ReadRadio", "PrepareSend"}

(* Every exported method of the radio in any order, and everything in the  *)
(* window's order.                                                         *)
AppMethods == (TRUE :> WindowCalls @@ FALSE :> RadioCalls)
AppBounds  == (TRUE :> 6 @@ FALSE :> 9)
ReadOrder  == (TRUE :> ReadCalls)
SendOrder  == (TRUE :> SendCalls)
SixCalls   == (TRUE :> 6)

(* The radio's methods touch no file: one content of the disk is enough.   *)
AppInit == Init /\ (~uiOrder => \A p \in Paths : files[p] = Nothing)
AppSpec == AppInit /\ [][Next]_vars

=============================================================================
