---------------------------- MODULE MCConfigStore ----------------------------
(***************************************************************************)
(* Commands over a configuration in which destinations d2 and d3 share one *)
(* keychain item and d2 has another, connection c1 has one of its own, and *)
(* connection c4 and destination d5 do not exist yet.                      *)
(***************************************************************************)
EXTENDS ConfigStore, TLC

CONSTANTS c1, d2, d3, c4, d5, k1, k2, k3, k4, p1, p2, p3, p4, p5

Does(op, entry, ref, dest) == [op |-> op, entry |-> entry, ref |-> ref, dest |-> dest]

MCInitialFile == c1 :> {k1} @@ d2 :> {k2, k3} @@ d3 :> {k2} @@ c4 :> Unlisted @@ d5 :> Unlisted

\* No two commands store in the same keychain item, and none removes what another
\* stores: a connection is added again, a destination is removed, the wizard makes a
\* connection and its destination, which is also added by hand, and a run uses the
\* connection that is added again and the destination that shares an item.
Disjoint ==
  p1 :> Does("add", c1, k1, d3) @@ p2 :> Does("rm", d2, NoRef, d3) @@ p3 :> Does("init", c4, k4, d5)
  @@ p4 :> Does("put", d5, NoRef, d5) @@ p5 :> Does("use", c1, NoRef, d3)

\* What the theorems about the keychain ask of the commands is true of these.
ASSUME DisjointAssumption == Command = Disjoint => Apart

\* A connection is added again while it is removed.
AddWhileRm == p1 :> Does("add", c1, k1, d3) @@ p2 :> Does("rm", c1, NoRef, d3)
=============================================================================
