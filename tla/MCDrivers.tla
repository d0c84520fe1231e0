------------------------------ MODULE MCDrivers ------------------------------
(* A small instance of Drivers, with combinations of config.ini's [default].*)
EXTENDS Drivers

MCRaw == {"1", "2", "x", "12"}
MCButton == {"a", "minus", "up", "down", "home", "capture"}
MCBinding ==
  [b \in MCButton |->
     CASE b = "minus" -> <<"1">>
       [] b = "up"    -> <<"99", "2", "x", "junk">>
       [] b = "down"  -> <<"x">>
       [] b = "home"  -> <<"12">>
       [] b = "a"     -> <<"12", "2", "1", "x", "99">>
       [] OTHER       -> <<>>]
MCCombos == <<[simulated |-> "capture", keys |-> {"minus", "up"}],
              [simulated |-> "home", keys |-> {"minus", "down"}]>>

ASSUME CombosKeepTo == NoKeySimulated
=============================================================================
