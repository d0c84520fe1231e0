----------------------------- MODULE MCMitmSlots ----------------------------
(* Small instances of MitmSlots: a Puck that counts the first of its two   *)
(* pads, and a controller that is its handler's only pad.                  *)
EXTENDS MitmSlots, TLC

CONSTANTS puck, wired, p1, p2, p3, c1, c2, a, b

MCOwner == p1 :> puck @@ p2 :> puck @@ p3 :> wired

\* The reports and the clients are alike; the pads are not.
Symmetric == {g @@ h : g \in Permutations(Client), h \in Permutations(Report)}
=============================================================================
