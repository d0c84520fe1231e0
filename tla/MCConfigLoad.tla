---------------------------- MODULE MCConfigLoad ----------------------------
(* Small instances of ConfigLoad.                                          *)
EXTENDS ConfigLoad

Block(s, l) == <<Section(s), l>>
Sections == {"default", "1-1", "wii"}

\* Two sections of those that a load looks at, in any order, or the controller's twice; a profile
\* that is named before it is there, and behind.
TwoSections ==
  {Block(st[1], Pair("b", "1")) \o <<Indented("b", "2")>> \o Block(st[2], Indented("b", "3")) :
     st \in {st \in Sections \X Sections : st[1] = st[2] => st[1] = "1-1"}}
    \cup {Block(s, Pair("profile", "wii")) \o Block("wii", Indented("b", "3")) : s \in {"default", "1-1"}}
    \cup {Block(s, Pair("b", "1")) \o Block("1-1", Pair("profile", "wii")) : s \in {"default", "wii"}}

\* A line that is not understood, or too long, a comment before a continuation line, more
\* combinations than slots.
OddLines ==
  {Block("1-1", Pair("b", "1")) \o <<l>> \o Block(s, Pair("b", "3")) : l \in {Bad, Long}, s \in Sections}
    \cup {Block("1-1", Pair("b", "1")) \o <<Blank, Indented("b", "2")>>,
          Block("default", Pair("simulate_home", "L+R")) \o Block("1-1", Pair("simulate_home", "a+b"))}

Discovery(mode, auto) ==
  <<Section("global"), Pair("discovery_mode", mode), Pair("auto_add_controller", auto)>>

\* The controllers to watch: over several lines, in one, in both ways and with empty items, with
\* a continuation line, which replaces nothing, and one that begins a setting.
Lists ==
  {Discovery(mode, "0") \o [i \in DOMAIN lists |-> Pair("discovery_vidpid", lists[i])] :
     mode \in {"1", "2"},
     lists \in {<<"1-1", "2-2", "3-3", "4-4">>, <<"1-1,2-2,3-3,4-4">>, <<"", ",4-4,", "2-2,1-1">>}}
    \cup {Discovery("1", "0") \o <<Pair("discovery_vidpid", "2-2,1-1"), l, Indented("discovery_vidpid", "3-3")>> :
            l \in {Blank, Pair("", "9")}}
    \cup {Discovery("0", "1") \o <<Pair("discovery_vidpid", "1-1")>>,
          Discovery("3", "0") \o <<Pair("discovery_vidpid", "1-1")>>}

\* An empty file, and sections that are there without a setting, or whose settings belong to the
\* next one.
Sparse ==
  {<<>>, <<Section("1-1")>>, <<Section("1-1"), Indented("b", "1")>>,
   <<Section("1-1")>> \o Block("2-2", Pair("profile", "wii"))}

MCUserFile == Sparse \cup TwoSections \cup OddLines \cup Lists

MCItems ==
  [v \in {"1-1,2-2,3-3,4-4", "2-2,1-1", ",4-4,"} |->
     CASE v = "1-1,2-2,3-3,4-4" -> <<"1-1", "2-2", "3-3", "4-4">>
       [] v = "2-2,1-1" -> <<"2-2", "1-1">>
       [] v = ",4-4," -> <<"4-4">>]

MCUserRest == {Blank, Section("1-1"), Pair("b", "4")}

MCDefaultProfile == [c \in Controller |-> IF c = "1-1" THEN "wii" ELSE ""]
=============================================================================
