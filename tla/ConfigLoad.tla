------------------------------- MODULE ConfigLoad -------------------------------
(***************************************************************************)
(* The configuration file: how config.ini is parsed (ini_parse_stream with *)
(* the handlers of config_handler.cpp), how the sections of a controller   *)
(* override one another, and how a controller that has no section gets one *)
(* appended, which a power cut or a full card may leave half written.      *)
(*                                                                         *)
(* The file is a sequence of lines, each of them what the parser makes of  *)
(* its text, followed by the rest: a last line that has no newline, which  *)
(* the reader does not deliver.  Names are compared without case, so that  *)
(* a name stands for its spellings.                                        *)
(* External: the SD card (reads that fail, what a torn write leaves), the  *)
(* clock.                                                                  *)
(***************************************************************************)
EXTENDS Integers, Sequences, FiniteSets

CONSTANTS
  Controller,      \* the vid-pid of the controllers that get plugged in
  DefaultProfile,  \* default_profile, by the class of the interfaces: "" for a HID one
  UserFile,        \* the files a user may have written
  UserRest,        \* and how they may end
  MaxEvents,       \* MaxUsbEvents
  MaxCombos,       \* MAX_CONTROLLER_COMBO
  Items,           \* the values with a comma, and what strtok finds in them
  MaxLoads,        \* bound: controllers plugged in
  MaxTorn,         \* bound: appends that do not reach the card whole
  MaxCut           \* bound: passes that a failing read ends

Key == {"driver", "profile", "b"}      \* of a controller: driver and b stand for the others
Simulated == {"simulate_home", "simulate_capture"}
Garbled == "?"                         \* the value that a continuation line or a torn one gives

Line(kind, name, value) == [kind |-> kind, name |-> name, value |-> value]
Section(s)     == Line("section", s, "")
Pair(key, v)   == Line("pair", key, v)
Indented(k, v) == Line("indented", k, v)   \* a pair behind leading blanks
Bad   == Line("bad", "", "")               \* neither a section with its ], nor a pair
Blank == Line("blank", "", "")             \* or a comment
Long  == Line("long", "", "")              \* INI_MAX_LINE characters without a newline

Text  == STRING
Lines == [kind : {"section", "pair", "indented", "bad", "blank", "long"}, name : Text, value : Text]

ASSUME ConfigConstantsOK ==
  /\ \A f \in UserFile : f \in Seq(Lines)
  /\ \A l \in UserRest : l \in Lines
  /\ Controller \subseteq Text \ {"global", "default", ""}
  /\ DefaultProfile \in [Controller -> Text]
  /\ \A v \in DOMAIN Items : Items[v] \in Seq(Text)
  /\ MaxEvents \in Nat /\ MaxCombos \in Nat /\ MaxLoads \in Nat /\ MaxTorn \in Nat
  /\ MaxCut \in Nat

\* The names and values that the code has of its own (no prover knows that a string is one).
ASSUME OwnText ==
  {"", "0", "1", "2", "a", "b", "hid", "xbox", "profile", "global", "default", Garbled} \subseteq Text

VARIABLES
  file,      \* the terminated lines
  rest,      \* the last line, when it has no newline: Blank if there is nothing
  global,    \* GlobalConfig: discovery_mode, discovery_vidpid, auto_add_controller
  filters,   \* the events of usb_module
  config,    \* ControllerConfig of the controller that is being plugged in
  combos,    \* simulateCombos
  target,    \* that controller
  pass,      \* which call of ReadFromConfig is under way, or what comes before and after
  wanted,    \* ini_section
  line,      \* lineno of the line to parse
  section,   \* the parser's section
  prev,      \* its prev_name
  error,     \* its error: the first line it did not understand
  found,     \* cfg_controller.ini_section_found
  rc,        \* what LoadControllerConfig returned
  loads,     \* controllers plugged in so far
  shown,     \* history: the lines that the load began with
  cut,       \* history: the passes that a failing read ended, each with the loads at that time
  appended,  \* history: the sections appended to the file, by controller
  torn,      \* history: how many of them did not reach the card whole
  boot       \* history: the lines that the sysmodule started with

store  == <<file, rest, appended, torn, boot>>
parser == <<wanted, line, section, prev, error>>
loaded == <<config, combos, found>>
plug   == <<target, loads, shown, cut>>
vars == <<store, parser, loaded, plug, global, filters, pass, rc>>

Empty == [k \in Key |-> ""]

StartsParser == line' = 1 /\ section' = "" /\ prev' = "" /\ error' = 0

Reads(p, s) == pass' = p /\ wanted' = s /\ StartsParser

Init ==
  /\ file \in UserFile /\ rest \in UserRest
  /\ global = [mode |-> "0", listed |-> <<>>, autoAdd |-> TRUE]
  /\ filters = <<>>
  /\ config = Empty /\ combos = <<>> /\ found = FALSE
  /\ target = "" /\ loads = 0 /\ shown = <<>> /\ cut = {} /\ rc = 0
  /\ pass = "global" /\ wanted = "global"
  /\ line = 1 /\ section = "" /\ prev = "" /\ error = 0
  /\ appended = [c \in Controller |-> 0] /\ torn = 0 /\ boot = file

-----------------------------------------------------------------------------
(* The handlers: one setting of the section that is wanted.                *)

Number(v) == v \notin {"0", "", Garbled}   \* atoi(v) # 0

\* The controllers of a discovery_vidpid value: a comma list, one, or none.
Tokens(v) == IF v \in DOMAIN Items THEN Items[v] ELSE IF v = "" THEN <<>> ELSE <<v>>

GloballyLast(key, v) ==                                           \* mutant
  /\ global' = [global EXCEPT !.mode   = IF key = "discovery_mode" THEN v ELSE @,
                              !.listed = IF key = "discovery_vidpid" THEN Tokens(v) ELSE @]
  /\ UNCHANGED loaded

\* ParseGlobalConfigLine.  A discovery_vidpid line adds each controller of its comma list.
Globally(key, v) ==
  /\ global' =
       [mode    |-> IF key = "discovery_mode" THEN v ELSE global.mode,
        listed  |-> IF key = "discovery_vidpid" THEN global.listed \o Tokens(v) ELSE global.listed,
        autoAdd |-> IF key = "auto_add_controller" THEN Number(v) ELSE global.autoAdd]
  /\ UNCHANGED loaded

ToControllerUncapped(key, v) ==                                   \* mutant
  /\ config' = IF key \in Key THEN [config EXCEPT ![key] = v] ELSE config
  /\ combos' = IF key \in Simulated THEN Append(combos, <<key, v>>) ELSE combos
  /\ found' = (found \/ pass \in {"own", "added", "again"})
  /\ UNCHANGED global

\* ParseControllerConfigLine.  A simulate_ line takes the first free slot.
ToController(key, v) ==
  /\ config' = IF key \in Key THEN [config EXCEPT ![key] = v] ELSE config
  /\ combos' = IF key \in Simulated /\ Len(combos) < MaxCombos THEN Append(combos, <<key, v>>)
                                                               ELSE combos
  /\ found' = (found \/ pass \in {"own", "added", "again"})
  /\ UNCHANGED global

Handle(key, v) ==
  IF section # wanted THEN UNCHANGED <<loaded, global>>
  ELSE IF pass = "global" THEN Globally(key, v) ELSE ToController(key, v)

-----------------------------------------------------------------------------
(* ini_parse_stream, line by line.                                         *)

Reading == pass \in {"global", "default", "own", "added", "profile", "again"}
AtLine(kinds) == Reading /\ line <= Len(file) /\ file[line].kind \in kinds
Parsed == line' = line + 1 /\ UNCHANGED <<store, plug, filters, pass, wanted, rc>>

Skips == AtLine({"blank"}) /\ Parsed /\ UNCHANGED <<section, prev, error, loaded, global>>

EntersSection ==
  /\ AtLine({"section"}) /\ Parsed
  /\ section' = file[line].name
  /\ prev' = ""
  /\ UNCHANGED <<error, loaded, global>>

\* "More of the same" counts only behind a name; otherwise an indented pair is a pair.
TakesPair ==
  /\ AtLine({"pair"} \cup IF prev = "" THEN {"indented"} ELSE {}) /\ Parsed
  /\ prev' = file[line].name
  /\ Handle(file[line].name, file[line].value)
  /\ UNCHANGED <<section, error>>

\* A line with leading blanks continues the setting above it: its text is the new value.
Continues ==
  /\ AtLine({"indented"}) /\ prev # "" /\ Parsed
  /\ Handle(prev, Garbled)
  /\ UNCHANGED <<section, prev, error>>

\* The rest of the file is parsed all the same (INI_STOP_ON_FIRST_ERROR is 0).
Misreads ==
  /\ AtLine({"bad"}) /\ Parsed
  /\ error' = IF error = 0 THEN line ELSE error
  /\ UNCHANGED <<section, prev, loaded, global>>

\* The reader delivers no line that is not terminated within INI_MAX_LINE characters, and none
\* after it.
AtEnd == Reading /\ (line <= Len(file) => file[line].kind = "long")

\* A read fails before that.  The reader delivers no more lines, as at the end of the file, and
\* the parser does not know the difference.  A file that cannot be opened for the global pass,
\* whose result main ignores, is the case of the first line.
ReadFails ==
  /\ Reading /\ ~AtEnd /\ Cardinality(cut) < MaxCut
  /\ line' = Len(file) + 1
  /\ cut' = cut \cup {<<loads, pass>>}
  /\ UNCHANGED <<store, loaded, target, loads, shown, global, filters, pass, wanted, section, prev,
                 error, rc>>

-----------------------------------------------------------------------------
(* LoadGlobalConfig, whose result main ignores, and usb::Initialize.       *)

Filters ==
  (IF global.mode \in {"0", "1"} THEN <<"xbox">> ELSE <<>>)
    \o (IF global.mode = "0" THEN <<"hid">> ELSE <<>>)
    \o (IF global.mode \in {"1", "2"} THEN global.listed ELSE <<>>)

\* AddEvent, once per filter: usb:hs offers MaxUsbEvents events, and the others are dropped.
Discovers ==
  /\ AtEnd /\ pass = "global"
  /\ filters' = SubSeq(Filters, 1, IF Len(Filters) < MaxEvents THEN Len(Filters) ELSE MaxEvents)
  /\ pass' = "idle"
  /\ UNCHANGED <<store, parser, loaded, plug, global, rc>>

-----------------------------------------------------------------------------
(* LoadControllerConfig.                                                   *)

Plug(c) ==
  /\ pass = "idle" /\ loads < MaxLoads
  /\ Reads("default", "default")
  /\ config' = Empty /\ combos' = <<>> /\ found' = FALSE
  /\ target' = c /\ loads' = loads + 1 /\ shown' = file /\ rc' = 0
  /\ UNCHANGED <<store, global, filters, cut>>

Returns(r) == pass' = "idle" /\ rc' = r /\ UNCHANGED parser

ReadsOn(p, s) == Reads(p, s) /\ rc' = rc

NeedsSection == pass = "own" /\ ~found /\ global.autoAdd

ToProfile == IF config["profile"] # "" THEN ReadsOn("profile", config["profile"]) ELSE Returns(0)

PassEndsWithProfile ==                                            \* mutant
  /\ AtEnd /\ pass # "global"
  /\ \/ error # 0 /\ Returns(error)
     \/ error = 0 /\ pass = "default" /\ ReadsOn("own", target)
     \/ error = 0 /\ NeedsSection /\ pass' = "append" /\ rc' = rc /\ UNCHANGED parser
     \/ error = 0 /\ ~NeedsSection /\ pass \in {"own", "added"} /\ ToProfile
     \/ error = 0 /\ pass = "profile" /\ Returns(0)
  /\ UNCHANGED <<store, loaded, plug, global, filters>>

\* A pass ends.  One that met a line it does not understand ends the load, whoever's line it is.
PassEnds ==
  /\ AtEnd /\ pass # "global"
  /\ \/ error # 0 /\ Returns(error)
     \/ error = 0 /\ pass = "default" /\ ReadsOn("own", target)
     \/ error = 0 /\ NeedsSection /\ pass' = "append" /\ rc' = rc /\ UNCHANGED parser
     \/ error = 0 /\ ~NeedsSection /\ pass \in {"own", "added"} /\ ToProfile
     \/ error = 0 /\ pass = "profile" /\ ReadsOn("again", target)
     \/ error = 0 /\ pass = "again" /\ Returns(0)
  /\ UNCHANGED <<store, loaded, plug, global, filters>>

\* The file cannot be opened, for a pass of a load or for the append.
OpenFails ==
  /\ \/ line = 1 /\ pass \in {"default", "own", "added", "profile", "again"}
     \/ pass = "append"
  /\ Returns(-1)
  /\ UNCHANGED <<store, loaded, plug, global, filters>>

-----------------------------------------------------------------------------
(* AddControllerToConfig.  What it writes begins with a newline, which     *)
(* terminates the rest of the file.                                        *)

NewSection == <<Section(target)>> \o
  (IF DefaultProfile[target] # "" THEN <<Pair("profile", DefaultProfile[target])>>
                                  ELSE <<Pair("b", "1"), Pair("a", "2")>>)

Terminated == IF rest = Blank THEN file ELSE Append(file, rest)

AppendsUnterminated ==                                            \* mutant
  /\ pass = "append"
  /\ file' = IF rest = Blank THEN file \o NewSection
             ELSE Append(file, [rest EXCEPT !.value = Garbled]) \o Tail(NewSection)
  /\ rest' = Blank
  /\ appended' = [appended EXCEPT ![target] = @ + 1]
  /\ ReadsOn("added", target)
  /\ UNCHANGED <<torn, boot, loaded, plug, global, filters>>

Appends ==
  /\ pass = "append"
  /\ file' = Terminated \o NewSection
  /\ rest' = Blank
  /\ appended' = [appended EXCEPT ![target] = @ + 1]
  /\ ReadsOn("added", target)
  /\ UNCHANGED <<torn, boot, loaded, plug, global, filters>>

\* What may be left of a line that was not written to its end.
Torn(l) == {Blank, Bad, l} \cup IF l.kind = "pair" THEN {Pair(l.name, ""), Pair(l.name, Garbled)} ELSE {}

\* The card is full, or the power goes.  The code looks at fail() while the text is still in
\* the stream's buffer, so that it does not notice the first.
AppendTears(n, last, powerCut) ==
  /\ pass = "append" /\ torn < MaxTorn
  /\ n < Len(NewSection) /\ last \in Torn(NewSection[n + 1])
  /\ file' = Terminated \o SubSeq(NewSection, 1, n)
  /\ rest' = last
  /\ appended' = [appended EXCEPT ![target] = @ + 1]
  /\ torn' = torn + 1
  /\ IF powerCut THEN Returns(-1) ELSE ReadsOn("added", target)
  /\ UNCHANGED <<boot, loaded, plug, global, filters>>

Unplugged == pass = "idle" /\ loads = MaxLoads /\ UNCHANGED vars

-----------------------------------------------------------------------------

Parser == Skips \/ EntersSection \/ TakesPair \/ Continues \/ Misreads
Load == Discovers \/ PassEnds \/ OpenFails \/ Appends

Tear == /\ pass = "append"
        /\ \E n \in 0 .. Len(NewSection) - 1, powerCut \in BOOLEAN :
             \E last \in Torn(NewSection[n + 1]) : AppendTears(n, last, powerCut)

Next == Parser \/ ReadFails \/ Load \/ Tear \/ (\E c \in Controller : Plug(c)) \/ Unplugged
Spec == Init /\ [][Next]_vars
-----------------------------------------------------------------------------
(* What a file says, from its lines alone.                                 *)

Visible(lines, i) == \A j \in 1 .. i : lines[j].kind # "long"

IsHeader(l) == l.kind = "section"
IsSetting(l) == l.kind \in {"pair", "indented"}

\* Line i follows the header [s], with no other header in between.
In(lines, s, i) ==
  \E j \in 1 .. i - 1 :
    /\ IsHeader(lines[j]) /\ lines[j].name = s
    /\ \A m \in j + 1 .. i - 1 : ~IsHeader(lines[m])

\* Nothing above line i can be continued: a setting is followed by a header, or by a pair
\* without a name.
Alone(lines, i) ==
  \A j \in 1 .. i - 1 : IsSetting(lines[j]) /\ lines[j].name # "" =>
    \E m \in j + 1 .. i - 1 : IsHeader(lines[m]) \/ (lines[m].kind = "pair" /\ lines[m].name = "")

\* Line i begins a setting; otherwise an indented one adds to the setting that began last.
Begins(lines, i) == lines[i].kind = "pair" \/ (lines[i].kind = "indented" /\ Alone(lines, i))

Continued(lines, i, j) ==
  /\ lines[i].kind = "indented" /\ ~Begins(lines, i)
  /\ Begins(lines, j)
  /\ \A m \in j + 1 .. i - 1 : ~IsHeader(lines[m]) /\ ~Begins(lines, m)

\* Line i says something about a name in section s.
Says(lines, s, i, name) ==
  /\ \/ Begins(lines, i) /\ lines[i].name = name
     \/ \E j \in 1 .. i - 1 : lines[j].name = name /\ Continued(lines, i, j)
  /\ In(lines, s, i) /\ Visible(lines, i)

Sayers(lines, s, name) == {i \in DOMAIN lines : Says(lines, s, i, name)}

Value(lines, i) == IF Begins(lines, i) THEN lines[i].value ELSE Garbled

\* The last line wins.
Override(lines, s, name, otherwise) ==
  LET sayers == Sayers(lines, s, name)
      last == CHOOSE i \in sayers : \A j \in sayers : j <= i
  IN IF sayers = {} THEN otherwise
     ELSE Value(lines, last)

\* A controller's profile, and its value of a key: its own section before its profile before
\* [default].
ProfileOf(c) == Override(file, c, "profile", Override(shown, "default", "profile", ""))
ValueOf(c, key) ==
  LET default == Override(shown, "default", key, "")
      profile == IF ProfileOf(c) = "" THEN default ELSE Override(file, ProfileOf(c), key, default)
  IN Override(file, c, key, profile)

-----------------------------------------------------------------------------
(* Properties.                                                             *)

TypeOK ==
  /\ file \in Seq(Lines) /\ rest \in Lines
  /\ DOMAIN config = Key /\ Len(combos) <= MaxCombos
  /\ target \in Controller \cup {""}
  /\ pass \in {"global", "idle", "default", "own", "append", "added", "profile", "again"}
  /\ line \in 1 .. Len(file) + 1 /\ error \in 0 .. Len(file) /\ rc \in -1 .. Len(file)
  /\ found \in BOOLEAN /\ global.autoAdd \in BOOLEAN
  /\ Len(filters) <= MaxEvents
  /\ loads \in 0 .. MaxLoads /\ torn \in 0 .. MaxTorn /\ Cardinality(cut) \in 0 .. MaxCut
  /\ appended \in [Controller -> 0 .. MaxLoads]

Loaded == pass = "idle" /\ loads > 0 /\ rc = 0

\* A load that reports success has given every key what the file says, in the order of
\* precedence: [vid-pid], profile, [default].  The passes over the file, the section appended
\* in between, continuation lines, sections that are reopened, what an earlier append left half
\* written and read errors of earlier loads change nothing about it.  A read that fails in one
\* of its own passes does: the load reports success all the same.
LoadedRight ==
  Loaded /\ (\A k \in cut : k[1] # loads) => \A key \in Key : config[key] = ValueOf(target, key)

\* A controller is added to the file once: its section is found from then on, even when the
\* user's file did not end with a newline, held an empty section of it, or could not be opened
\* again.  A further append has a torn one before it, or a search for the section that a read
\* error ended.
AppendedOnce ==
  (\A i \in DOMAIN file : file[i].kind # "long") =>
    \A c \in Controller : appended[c] <= 1 + torn + Cardinality({k \in cut : k[2] = "own"})

\* "Automatically add unknown controller to the configuration file" (config.ini:32): the file
\* says nothing about a controller that is about to be added.
OnlyUnknownAreAdded ==
  pass = "append" =>
    \A i \in DOMAIN file : In(file, target, i) /\ Visible(file, i) => ~IsSetting(file[i])

\* "In other words we would like to have [default] overrided by [profile] overrided by
\* [vid-pid]" (config_handler.cpp:557): a button is simulated by one combination.
CombosOverride ==
  Loaded => \A i, j \in DOMAIN combos : combos[i][1] = combos[j][1] => i = j

\* The controllers that lines list, in one comma list or in several, each by its line and its
\* place there, and those listed up to one of them.
Listed(lines) ==
  UNION {{i} \X DOMAIN Tokens(Value(lines, i)) : i \in Sayers(lines, "global", "discovery_vidpid")}
UpTo(lines, l) == {k \in Listed(lines) : k[1] < l[1] \/ (k[1] = l[1] /\ k[2] <= l[2])}

\* "This list is limited to 2 or 3 depending which mode you choose - if you set more than 2 or
\* 3, it will be ignored and only the first 2 or 3 will be used" (config.ini:29): with the Xbox
\* filter the first two controllers that the file listed at the start are watched, without it
\* the first three, unless the sysmodule could not read the file.
FirstListedAreWatched ==
  pass # "global" /\ <<0, "global">> \notin cut /\ global.mode \in {"1", "2"} =>
    \A l \in Listed(boot) :
      Cardinality(UpTo(boot, l)) <= (IF global.mode = "1" THEN 2 ELSE 3) =>
        \E j \in DOMAIN filters : filters[j] = Tokens(Value(boot, l[1]))[l[2]]
=============================================================================
