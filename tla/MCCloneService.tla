---------------------------- MODULE MCCloneService ----------------------------
(* CloneService for TLC.                                                   *)
EXTENDS CloneService, TLC

CONSTANTS a, b, c1, c2, none, half

ClientSymmetry == Permutations(Clients)

File1(one, m) == [channels |-> (1 :> one), menus |-> (1 :> m)]
File(one, two, m) == [channels |-> (1 :> one @@ 2 :> two), menus |-> (1 :> m)]

(* Two channels and a setting change; or one channel is to be erased.      *)
SendFiles == <<File(a, a, "on"), File(a, none, "on")>>
(* Files that differ in their channels, or in their settings only.         *)
BindFiles == <<File(a, none, "on"), File(b, none, "on"), File(a, none, "off")>>

(* The same over one slot.                                                 *)
TwoFiles == <<File1(a, NoWish), File1(b, NoWish)>>

(* Neither asks for a setting: one initial value is enough.                *)
ReplayInit == Init /\ \A i \in Items : menu[i] = "on"
ReplaySpec == ReplayInit /\ [][Next]_vars

=============================================================================
