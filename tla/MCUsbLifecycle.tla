--------------------------- MODULE MCUsbLifecycle ---------------------------
(* Small instances of UsbLifecycle: one class of interfaces, every         *)
(* interface a device of its own.                                          *)
EXTENDS UsbLifecycle, TLC

CONSTANTS i1, i2, i3, h1, h2, h3

OneClass == [i \in Iface |-> 1]
Separate == [i \in Iface |-> i]

SymmetricHandlers == Permutations(Handler)
\* Sound where no interface is told from another: TakesAll, Broken empty, one class.
SymmetricAll == {p @@ q : p \in Permutations(Handler), q \in Permutations(Iface)}
=============================================================================
