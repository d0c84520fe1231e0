------------------------- MODULE ControllerRegistry -------------------------
(***************************************************************************)
(* What sys-con promises about the set of controllers it serves, seen from *)
(* outside: a handler serves a group of USB interfaces, no interface is    *)
(* served twice, the number of handlers is bounded, and handlers appear    *)
(* and disappear one at a time.  UsbLifecycle implements this with four    *)
(* threads, a recursive mutex, a mutex and a vector.                       *)
(***************************************************************************)
EXTENDS Naturals, FiniteSets

CONSTANTS Iface,          \* the USB interfaces of the console's ports
          MaxHandlers     \* most handlers served at the same time

VARIABLE served           \* the groups of interfaces that have a handler

Free(g) == \A s \in served : s \cap g = {}

\* A controller was found and initialised.
Serve(g) ==
    /\ g # {}
    /\ Free(g)
    /\ Cardinality(served) < MaxHandlers
    /\ served' = served \cup {g}

\* A controller was unplugged, or the console sleeps or shuts down.
Release(g) ==
    /\ g \in served
    /\ served' = served \ {g}

Init == served = {}

Next == \E g \in SUBSET Iface : Serve(g) \/ Release(g)

Spec == Init /\ [][Next]_served
=============================================================================
