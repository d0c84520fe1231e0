--------------------------- MODULE ConfigLoad_proofs ---------------------------
(***************************************************************************)
(* Proofs about ConfigLoad, for any file, any controllers and any number   *)
(* of loads, torn writes and failing reads.                                *)
(***************************************************************************)
EXTENDS ConfigLoad, SequenceTheorems, FiniteSetTheorems, TLAPS

-----------------------------------------------------------------------------
(* Types.                                                                  *)

ComboSet == Simulated \X Text
Passes == {"default", "own", "added", "profile", "again"}

TypeInv ==
  /\ file \in Seq(Lines) /\ rest \in Lines /\ boot \in Seq(Lines) /\ shown \in Seq(Lines)
  /\ global \in [mode : Text, listed : Seq(Text), autoAdd : BOOLEAN]
  /\ filters \in Seq(Text) /\ Len(filters) <= MaxEvents
  /\ config \in [Key -> Text]
  /\ combos \in Seq(ComboSet) /\ Len(combos) <= MaxCombos
  /\ found \in BOOLEAN
  /\ target \in Controller \cup {""} /\ (pass \in Passes \cup {"append"} => target \in Controller)
  /\ pass \in Passes \cup {"global", "idle", "append"}
  /\ line \in 1 .. Len(file) + 1 /\ error \in 0 .. Len(file) /\ rc \in -1 .. Len(file)
  /\ section \in Text /\ prev \in Text /\ wanted \in Text
  /\ loads \in 0 .. MaxLoads /\ torn \in 0 .. MaxTorn
  /\ appended \in [Controller -> Nat]
  /\ \A c \in Controller :
       appended[c] <= IF pass \in {"default", "own", "append"} THEN loads - 1 ELSE loads

LEMMA Constants ==
  /\ Controller \subseteq Text \ {"global", "default", ""}
  /\ \A c \in Controller : DefaultProfile[c] \in Text
  /\ \A f \in UserFile : f \in Seq(Lines)
  /\ UserRest \subseteq Lines
BY ConfigConstantsOK

LEMMA Bounds ==
  MaxEvents \in Nat /\ MaxCombos \in Nat /\ MaxLoads \in Nat /\ MaxTorn \in Nat /\ MaxCut \in Nat
BY ConfigConstantsOK

LEMMA LineTypes ==
  /\ \A l \in Lines : l.name \in Text /\ l.value \in Text
  /\ \A t \in Text : Section(t) \in Lines
  /\ \A k, v \in Text : Pair(k, v) \in Lines
  /\ Blank \in Lines /\ Bad \in Lines
BY OwnText DEF Lines, Section, Pair, Blank, Bad, Line

\* A controller's new section.
LEMMA NewSectionType ==
  ASSUME target \in Controller
  PROVE  /\ NewSection \in Seq(Lines) /\ Len(NewSection) \in Nat /\ Len(NewSection) >= 2
         /\ NewSection[1] = Section(target) /\ NewSection[2].kind = "pair"
<1> DEFINE pairs == IF DefaultProfile[target] # "" THEN <<Pair("profile", DefaultProfile[target])>>
                                                   ELSE <<Pair("b", "1"), Pair("a", "2")>>
<1>1. Section(target) \in Lines /\ DefaultProfile[target] \in Text
  BY Constants, LineTypes
<1>2. pairs \in Seq(Lines) /\ Len(pairs) \in 1 .. 2 /\ pairs[1].kind = "pair"
  <2>1. \A k, v \in Text : Pair(k, v) \in Lines /\ Pair(k, v).kind = "pair"
    BY LineTypes DEF Pair, Line
  <2>2. \A l \in Lines : <<l>> \in Seq(Lines) /\ Len(<<l>>) = 1 /\ <<l>>[1] = l
    OBVIOUS
  <2>3. \A l, m \in Lines : <<l, m>> \in Seq(Lines) /\ Len(<<l, m>>) = 2 /\ <<l, m>>[1] = l
    OBVIOUS
  <2>4. CASE DefaultProfile[target] # ""
    <3>1. Pair("profile", DefaultProfile[target]) \in Lines /\ Pair("profile", DefaultProfile[target]).kind = "pair"
      BY <1>1, <2>1, OwnText
    <3>2. pairs = <<Pair("profile", DefaultProfile[target])>>
      BY <2>4
    <3> HIDE DEF pairs
    <3> QED
      BY <2>2, <3>1, <3>2
  <2>5. CASE DefaultProfile[target] = ""
    <3>1. /\ Pair("b", "1") \in Lines /\ Pair("b", "1").kind = "pair" /\ Pair("a", "2") \in Lines
      BY <2>1, OwnText
    <3>2. pairs = <<Pair("b", "1"), Pair("a", "2")>>
      BY <2>5
    <3> HIDE DEF pairs
    <3> QED
      BY <2>3, <3>1, <3>2
  <2> QED
    BY <2>4, <2>5
<1>3. <<Section(target)>> \in Seq(Lines) /\ Len(<<Section(target)>>) = 1
  BY <1>1
<1>4. NewSection = <<Section(target)>> \o pairs
  BY DEF NewSection
<1> HIDE DEF pairs
<1>5. /\ NewSection \in Seq(Lines) /\ Len(NewSection) = 1 + Len(pairs)
      /\ \A i \in 1 .. 1 + Len(pairs) :
           NewSection[i] = IF i <= 1 THEN <<Section(target)>>[i] ELSE pairs[i - 1]
  BY <1>2, <1>3, <1>4, ConcatProperties
<1>6. NewSection[1] = Section(target) /\ NewSection[2] = pairs[1]
  BY <1>2, <1>5
<1> QED
  BY <1>2, <1>5, <1>6

\* The file with its last line terminated.
LEMMA TerminatedType ==
  ASSUME file \in Seq(Lines), rest \in Lines
  PROVE  /\ Terminated \in Seq(Lines) /\ Len(Terminated) \in Nat /\ Len(Terminated) >= Len(file)
         /\ \A i \in 1 .. Len(file) : Terminated[i] = file[i]
BY AppendProperties, LenProperties DEF Terminated

\* The file grows by lines: those that it had stay where they are.
Grows(lines) ==
  /\ file' \in Seq(Lines) /\ Len(file') = Len(Terminated) + Len(lines)
  /\ \A i \in 1 .. Len(file) : file'[i] = file[i]
  /\ \A i \in 1 .. Len(lines) : file'[Len(Terminated) + i] = lines[i]

LEMMA FileGrows ==
  ASSUME file \in Seq(Lines), rest \in Lines, NEW lines \in Seq(Lines), file' = Terminated \o lines
  PROVE  Grows(lines)
<1>1. /\ Terminated \in Seq(Lines) /\ Len(Terminated) \in Nat /\ Len(Terminated) >= Len(file)
      /\ Len(file) \in Nat /\ Len(lines) \in Nat
      /\ \A i \in 1 .. Len(file) : Terminated[i] = file[i]
  BY TerminatedType, LenProperties
<1>2. /\ file' \in Seq(Lines) /\ Len(file') = Len(Terminated) + Len(lines)
      /\ \A i \in 1 .. Len(Terminated) + Len(lines) :
           file'[i] = IF i <= Len(Terminated) THEN Terminated[i] ELSE lines[i - Len(Terminated)]
  BY <1>1, ConcatProperties
<1>3. \A i \in 1 .. Len(file) : file'[i] = file[i]
  BY <1>1, <1>2
<1>4. \A i \in 1 .. Len(lines) : file'[Len(Terminated) + i] = lines[i]
  BY <1>1, <1>2
<1> QED
  BY <1>2, <1>3, <1>4 DEF Grows

\* How often a controller's section was appended.
LEMMA Counts ==
  ASSUME TypeInv
  PROVE  /\ appended \in [Controller -> Nat] /\ loads \in Nat
         /\ \A c \in Controller :
              /\ appended[c] \in Nat
              /\ appended[c] <= IF pass \in {"default", "own", "append"} THEN loads - 1 ELSE loads
<1>1. appended \in [Controller -> Nat] /\ loads \in 0 .. MaxLoads
      /\ \A c \in Controller :
           appended[c] <= IF pass \in {"default", "own", "append"} THEN loads - 1 ELSE loads
  BY DEF TypeInv
<1>2. loads \in Nat /\ \A c \in Controller : appended[c] \in Nat
  BY <1>1
<1> QED
  BY ONLY <1>1, <1>2

LEMMA InitTypes == Init => TypeInv
<1> SUFFICES ASSUME Init PROVE TypeInv
  OBVIOUS
<1>1. file \in Seq(Lines) /\ rest \in Lines /\ Len(file) \in Nat
  BY Constants, LenProperties DEF Init
<1>2. config \in [Key -> Text]
  BY OwnText DEF Init, Empty
<1>3. \A S : <<>> \in Seq(S) /\ Len(<<>>) = 0
  BY EmptySeq
<1>4. global \in [mode : Text, listed : Seq(Text), autoAdd : BOOLEAN]
  BY <1>3, OwnText DEF Init
<1>5. /\ boot \in Seq(Lines) /\ shown \in Seq(Lines) /\ filters \in Seq(Text) /\ Len(filters) = 0
      /\ combos \in Seq(ComboSet) /\ Len(combos) = 0
  BY <1>1, <1>3 DEF Init
<1>6. /\ line \in 1 .. Len(file) + 1 /\ error \in 0 .. Len(file) /\ rc \in -1 .. Len(file)
      /\ loads \in 0 .. MaxLoads /\ torn \in 0 .. MaxTorn
  <2>1. line = 1 /\ error = 0 /\ rc = 0 /\ loads = 0 /\ torn = 0
    BY DEF Init
  <2>2. Len(file) \in Nat /\ MaxLoads \in Nat /\ MaxTorn \in Nat
    BY <1>1, Bounds
  <2> QED
    BY ONLY <2>1, <2>2
<1>7. section \in Text /\ prev \in Text /\ wanted \in Text
  BY OwnText DEF Init
<1>8. /\ appended \in [Controller -> Nat] /\ loads = 0 /\ pass = "global" /\ target = ""
      /\ \A c \in Controller : appended[c] = 0
  BY DEF Init
<1>9. found \in BOOLEAN
  BY DEF Init
<1>10. /\ target \in Controller \cup {""} /\ pass \notin Passes \cup {"append"}
       /\ pass \in Passes \cup {"global", "idle", "append"}
  BY <1>8 DEF Passes
<1>11. ASSUME NEW c \in Controller
       PROVE  appended[c] <= IF pass \in {"default", "own", "append"} THEN loads - 1 ELSE loads
  <2>1. pass \notin {"default", "own", "append"} /\ appended[c] = 0 /\ loads = 0
    BY <1>8
  <2> QED
    BY ONLY <2>1
<1>12. Len(filters) <= MaxEvents /\ Len(combos) <= MaxCombos
  BY ONLY <1>5, Bounds
<1> QED
  BY <1>1, <1>2, <1>4, <1>5, <1>6, <1>7, <1>8, <1>9, <1>10, <1>11, <1>12 DEF TypeInv

LEMMA TokenTypes ==
  ASSUME NEW v \in Text
  PROVE  Tokens(v) \in Seq(Text)
<1>1. <<v>> \in Seq(Text) /\ <<>> \in Seq(Text)
  BY EmptySeq
<1> QED
  BY <1>1, ConfigConstantsOK DEF Tokens

\* What a handler does to its structures.
LEMMA HandleTypes ==
  ASSUME TypeInv, NEW key \in Text, NEW v \in Text, Handle(key, v)
  PROVE  /\ global' \in [mode : Text, listed : Seq(Text), autoAdd : BOOLEAN]
         /\ config' \in [Key -> Text] /\ found' \in BOOLEAN
         /\ combos' \in Seq(ComboSet) /\ Len(combos') <= MaxCombos
<1>0. /\ global \in [mode : Text, listed : Seq(Text), autoAdd : BOOLEAN]
      /\ config \in [Key -> Text] /\ found \in BOOLEAN
      /\ combos \in Seq(ComboSet) /\ Len(combos) <= MaxCombos /\ Len(combos) \in Nat
  BY LenProperties DEF TypeInv
<1>1. CASE UNCHANGED <<loaded, global>>
  BY <1>0, <1>1 DEF loaded
<1>2. CASE Globally(key, v)
  <2>1. global.listed \o Tokens(v) \in Seq(Text) /\ Number(v) \in BOOLEAN
    BY <1>0, TokenTypes, ConcatProperties DEF Number
  <2> QED
    BY <1>0, <1>2, <2>1 DEF Globally, loaded
<1>3. CASE ToController(key, v)
  <2>1. config' \in [Key -> Text] /\ found' \in BOOLEAN /\ UNCHANGED global
    BY <1>0, <1>3 DEF ToController
  <2>2. CASE key \in Simulated /\ Len(combos) < MaxCombos
    <3>1. <<key, v>> \in ComboSet /\ combos' = Append(combos, <<key, v>>)
      BY <1>3, <2>2 DEF ToController, ComboSet
    <3>2. combos' \in Seq(ComboSet) /\ Len(combos') = Len(combos) + 1
      BY ONLY <1>0, <3>1, AppendProperties
    <3>3. Len(combos') <= MaxCombos
      BY ONLY <1>0, <2>2, <3>2, Bounds
    <3> QED
      BY <1>0, <2>1, <3>2, <3>3
  <2>3. CASE ~ (key \in Simulated /\ Len(combos) < MaxCombos)
    BY <1>0, <1>3, <2>1, <2>3 DEF ToController
  <2> QED
    BY <2>2, <2>3
<1> QED
  BY <1>1, <1>2, <1>3 DEF Handle

\* What the parser leaves alone.
LEMMA ParserKeeps ==
  Parser => /\ Reading /\ line <= Len(file) /\ line' = line + 1
            /\ UNCHANGED <<file, rest, boot, shown, filters, target, pass, wanted, loads, cut, torn, appended, rc>>
BY DEF Parser, Skips, EntersSection, TakesPair, Continues, Misreads, AtLine, Parsed, store, plug

LEMMA ParserTypes ==
  ASSUME TypeInv, Parser
  PROVE  TypeInv'
<1>0. /\ Reading /\ line <= Len(file) /\ line' = line + 1
      /\ UNCHANGED <<file, rest, boot, shown, filters, target, pass, wanted, loads, cut, torn, appended, rc>>
  BY ParserKeeps
<1>1. file[line] \in Lines /\ Len(file) \in Nat /\ line \in 1 .. Len(file)
  <2>1. file \in Seq(Lines) /\ Len(file) \in Nat /\ line \in 1 .. Len(file) + 1
    BY LenProperties DEF TypeInv
  <2>2. line \in 1 .. Len(file)
    BY <1>0, <2>1
  <2> QED
    BY <2>1, <2>2, ElementOfSeq
<1>2. file[line].name \in Text /\ file[line].value \in Text
  BY <1>1, LineTypes
<1>3. /\ global' \in [mode : Text, listed : Seq(Text), autoAdd : BOOLEAN]
      /\ config' \in [Key -> Text] /\ found' \in BOOLEAN
      /\ combos' \in Seq(ComboSet) /\ Len(combos') <= MaxCombos
  <2>1. CASE UNCHANGED <<loaded, global>>
    BY <2>1 DEF TypeInv, loaded
  <2>2. CASE TakesPair
    BY <1>2, <2>2, HandleTypes DEF TakesPair
  <2>3. CASE Continues
    <3>1. Handle(prev, Garbled) /\ prev \in Text /\ Garbled \in Text
      BY <2>3, OwnText DEF Continues, TypeInv
    <3> QED
      BY <3>1, HandleTypes
  <2> QED
    BY <2>1, <2>2, <2>3 DEF Parser, Skips, EntersSection, Misreads
<1>4. section' \in Text /\ prev' \in Text
  <2>1. section \in Text /\ prev \in Text /\ "" \in Text
    BY OwnText DEF TypeInv
  <2> QED
    BY <1>2, <2>1 DEF Parser, Skips, EntersSection, TakesPair, Continues, Misreads
<1>5. error' \in 0 .. Len(file)
  <2>1. error \in 0 .. Len(file)
    BY DEF TypeInv
  <2>2. line \in 0 .. Len(file)
    BY <1>1
  <2>3. error' \in {error, line}
    BY DEF Parser, Skips, EntersSection, TakesPair, Continues, Misreads
  <2> QED
    BY <2>1, <2>2, <2>3
<1>6. line' \in 1 .. Len(file) + 1
  BY <1>0, <1>1
<1> QED
  BY <1>0, <1>3, <1>4, <1>5, <1>6 DEF TypeInv

LEMMA FilterTypes ==
  ASSUME TypeInv
  PROVE  Filters \in Seq(Text) /\ Len(Filters) \in Nat
<1>1. \A str \in Text : <<str>> \in Seq(Text)
  OBVIOUS
<1>2. <<>> \in Seq(Text) /\ global.listed \in Seq(Text)
  BY EmptySeq DEF TypeInv
<1>3. Filters \in Seq(Text)
  <2> DEFINE a == IF global.mode \in {"0", "1"} THEN <<"xbox">> ELSE <<>>
             b == IF global.mode = "0" THEN <<"hid">> ELSE <<>>
             c == IF global.mode \in {"1", "2"} THEN global.listed ELSE <<>>
  <2>1. "xbox" \in Text /\ "hid" \in Text
    BY OwnText
  <2>2. a \in Seq(Text) /\ b \in Seq(Text) /\ c \in Seq(Text)
    BY <1>1, <1>2, <2>1
  <2>3. Filters = a \o b \o c
    BY DEF Filters
  <2> HIDE DEF a, b, c
  <2>4. a \o b \in Seq(Text)
    BY <2>2, ConcatProperties
  <2> QED
    BY <2>2, <2>3, <2>4, ConcatProperties
<1> QED
  BY <1>3, LenProperties

\* The parser at the start of a pass, in a file that may have grown.
LEMMA ReadsTypes ==
  ASSUME NEW p, NEW str \in Text, Reads(p, str), Len(file') \in Nat
  PROVE  /\ pass' = p
         /\ section' \in Text /\ prev' \in Text /\ wanted' \in Text
         /\ line' \in 1 .. Len(file') + 1 /\ error' \in 0 .. Len(file')
<1>1. pass' = p /\ wanted' = str /\ line' = 1 /\ section' = "" /\ prev' = "" /\ error' = 0
  BY DEF Reads, StartsParser
<1>2. line' \in 1 .. Len(file') + 1 /\ error' \in 0 .. Len(file')
  <2>1. 1 \in 1 .. Len(file') + 1 /\ 0 \in 0 .. Len(file')
    OBVIOUS
  <2> QED
    BY ONLY <1>1, <2>1
<1> QED
  BY <1>1, <1>2, OwnText

\* A load goes on, or returns.
LEMMA GoesOnTypes ==
  ASSUME TypeInv, file' \in Seq(Lines), Len(file') >= Len(file),
         \/ \E p \in Passes, str \in Text : ReadsOn(p, str)
         \/ \E r \in {-1, 0, error} : Returns(r)
         \/ pass' = "append" /\ rc' = rc /\ UNCHANGED parser
  PROVE  /\ pass' \in Passes \cup {"idle", "append"}
         /\ section' \in Text /\ prev' \in Text /\ wanted' \in Text
         /\ line' \in 1 .. Len(file') + 1 /\ error' \in 0 .. Len(file') /\ rc' \in -1 .. Len(file')
<1>1. /\ Len(file) \in Nat /\ Len(file') \in Nat /\ Len(file') >= Len(file)
      /\ line \in 1 .. Len(file) + 1 /\ error \in 0 .. Len(file) /\ rc \in -1 .. Len(file)
  BY LenProperties DEF TypeInv
<1>2. /\ line \in 1 .. Len(file') + 1 /\ error \in 0 .. Len(file') /\ rc \in -1 .. Len(file')
      /\ \A r \in {-1, 0, error} : r \in -1 .. Len(file')
  BY ONLY <1>1
<1>3. section \in Text /\ prev \in Text /\ wanted \in Text
  BY DEF TypeInv
<1>4. CASE \E p \in Passes, str \in Text : ReadsOn(p, str)
  <2>1. PICK p \in Passes, str \in Text : Reads(p, str) /\ rc' = rc
    BY <1>4 DEF ReadsOn
  <2> QED
    BY <1>1, <1>2, <2>1, ReadsTypes
<1>5. CASE \E r \in {-1, 0, error} : Returns(r)
  BY <1>2, <1>3, <1>5 DEF Returns, parser
<1>6. CASE pass' = "append" /\ rc' = rc /\ UNCHANGED parser
  BY <1>2, <1>3, <1>6 DEF parser
<1> QED
  BY <1>4, <1>5, <1>6

\* How the sections of a load follow one another.
LEMMA PassEndsGoesOn ==
  ASSUME TypeInv, PassEnds
  PROVE  /\ \/ \E p \in Passes, str \in Text : ReadsOn(p, str)
            \/ \E r \in {-1, 0, error} : Returns(r)
            \/ pass' = "append" /\ rc' = rc /\ UNCHANGED parser
         /\ pass \in Passes
         /\ pass' \in {"default", "own", "append"} => pass \in {"default", "own", "append"}
<1>1. /\ pass \in Passes
      /\ target \in Controller /\ target \in Text /\ config["profile"] \in Text
  BY Constants DEF PassEnds, AtEnd, Reading, Passes, TypeInv, Key
<1>2. CASE error # 0 /\ Returns(error)
  BY <1>1, <1>2 DEF Returns
<1>3. CASE error = 0 /\ pass = "default" /\ ReadsOn("own", target)
  BY <1>1, <1>3 DEF Passes
<1>4. CASE error = 0 /\ NeedsSection /\ pass' = "append" /\ rc' = rc /\ UNCHANGED parser
  BY <1>1, <1>4 DEF NeedsSection
<1>5. CASE error = 0 /\ ~NeedsSection /\ pass \in {"own", "added"} /\ ToProfile
  BY <1>1, <1>5 DEF ToProfile, Passes, ReadsOn, Reads, Returns
<1>6. CASE error = 0 /\ pass = "profile" /\ ReadsOn("again", target)
  BY <1>1, <1>6 DEF Passes, ReadsOn, Reads
<1>7. CASE error = 0 /\ pass = "again" /\ Returns(0)
  BY <1>1, <1>7 DEF Returns
<1> QED
  BY <1>2, <1>3, <1>4, <1>5, <1>6, <1>7 DEF PassEnds

LEMMA DiscoversTypes ==
  ASSUME TypeInv, Discovers
  PROVE  TypeInv'
<1>1. /\ UNCHANGED <<store, parser, loaded, plug, global, rc>> /\ pass = "global" /\ pass' = "idle"
  BY DEF Discovers
<1> DEFINE n == IF Len(Filters) < MaxEvents THEN Len(Filters) ELSE MaxEvents
<1>2. Filters \in Seq(Text) /\ Len(Filters) \in Nat /\ MaxEvents \in Nat
  BY FilterTypes, Bounds
<1>3. n \in 0 .. Len(Filters) /\ n <= MaxEvents
  BY ONLY <1>2
<1>4. filters' = SubSeq(Filters, 1, n)
  BY DEF Discovers
<1> HIDE DEF n
<1>5. filters' \in Seq(Text) /\ Len(filters') = n
  BY <1>2, <1>3, <1>4
<1>6. filters' \in Seq(Text) /\ Len(filters') <= MaxEvents
  BY ONLY <1>3, <1>5
<1>7. \A c \in Controller : appended[c] <= loads
  BY <1>1 DEF TypeInv
<1> QED
  BY <1>1, <1>6, <1>7 DEF TypeInv, store, parser, loaded, plug, Passes

LEMMA PlugTypes ==
  ASSUME TypeInv, NEW c \in Controller, Plug(c)
  PROVE  TypeInv'
<1>1. /\ Reads("default", "default") /\ UNCHANGED <<store, global, filters>> /\ pass = "idle"
      /\ config' = Empty /\ combos' = <<>> /\ found' = FALSE
      /\ target' = c /\ loads' = loads + 1 /\ shown' = file /\ rc' = 0 /\ loads < MaxLoads
  BY DEF Plug
<1>2. file' = file /\ file \in Seq(Lines) /\ Len(file) \in Nat /\ Len(file') \in Nat
  BY <1>1, LenProperties DEF TypeInv, store
<1>3. /\ pass' = "default"
      /\ section' \in Text /\ prev' \in Text /\ wanted' \in Text
      /\ line' \in 1 .. Len(file') + 1 /\ error' \in 0 .. Len(file')
  BY <1>1, <1>2, OwnText, ReadsTypes
<1>4. config' \in [Key -> Text]
  BY <1>1, OwnText DEF Empty
<1>5. combos' \in Seq(ComboSet) /\ Len(combos') <= MaxCombos
  <2>1. combos' \in Seq(ComboSet) /\ Len(combos') = 0
    BY <1>1, EmptySeq
  <2> QED
    BY ONLY <2>1, Bounds
<1>6. loads' \in 0 .. MaxLoads /\ rc' \in -1 .. Len(file')
  <2>1. loads \in 0 .. MaxLoads
    BY DEF TypeInv
  <2> QED
    BY ONLY <1>1, <1>2, <2>1, Bounds
<1>7. ASSUME NEW d \in Controller
      PROVE  appended'[d] <= IF pass' \in {"default", "own", "append"} THEN loads' - 1 ELSE loads'
  <2>1. /\ appended' = appended /\ loads \in Nat /\ appended[d] \in Nat /\ appended[d] <= loads
    <3>1. appended' = appended /\ pass \notin {"default", "own", "append"}
      BY <1>1 DEF store
    <3> QED
      BY <3>1, Counts
  <2>2. appended'[d] <= loads' - 1
    BY <1>1, <2>1
  <2> QED
    BY <1>3, <2>2
<1>8. /\ UNCHANGED <<file, rest, boot, appended, torn, global, filters>>
      /\ found' \in BOOLEAN /\ shown' \in Seq(Lines)
  BY <1>1, <1>2 DEF store
<1> QED
  BY <1>1, <1>2, <1>3, <1>4, <1>5, <1>6, <1>7, <1>8 DEF TypeInv, Passes

LEMMA PassEndsTypes ==
  ASSUME TypeInv, PassEnds
  PROVE  TypeInv'
<1>1. UNCHANGED <<store, loaded, plug, global, filters>>
  BY DEF PassEnds
<1>2. /\ \/ \E p \in Passes, str \in Text : ReadsOn(p, str)
         \/ \E r \in {-1, 0, error} : Returns(r)
         \/ pass' = "append" /\ rc' = rc /\ UNCHANGED parser
      /\ pass \in Passes
      /\ pass' \in {"default", "own", "append"} => pass \in {"default", "own", "append"}
  BY PassEndsGoesOn
<1>3. file' = file /\ file' \in Seq(Lines) /\ Len(file') >= Len(file)
  <2>1. file' = file /\ file \in Seq(Lines)
    BY <1>1 DEF store, TypeInv
  <2>2. Len(file) \in Nat
    BY <2>1, LenProperties
  <2> QED
    BY <2>1, <2>2
<1>4. /\ pass' \in Passes \cup {"idle", "append"}
      /\ section' \in Text /\ prev' \in Text /\ wanted' \in Text
      /\ line' \in 1 .. Len(file') + 1 /\ error' \in 0 .. Len(file') /\ rc' \in -1 .. Len(file')
  BY <1>2, <1>3, GoesOnTypes
<1>5. ASSUME NEW c \in Controller
      PROVE  appended'[c] <= IF pass' \in {"default", "own", "append"} THEN loads' - 1 ELSE loads'
  <2>1. appended' = appended /\ loads' = loads /\ loads \in Nat /\ appended[c] \in Nat
        /\ appended[c] <= IF pass \in {"default", "own", "append"} THEN loads - 1 ELSE loads
    BY <1>1, Counts DEF store, plug
  <2> QED
    BY <1>2, <2>1
<1> QED
  BY <1>1, <1>2, <1>3, <1>4, <1>5 DEF TypeInv, store, loaded, plug

LEMMA OpenFailsTypes ==
  ASSUME TypeInv, OpenFails
  PROVE  TypeInv'
<1>1. UNCHANGED <<store, loaded, plug, global, filters>> /\ Returns(-1)
  BY DEF OpenFails
<1>2. file' = file /\ file' \in Seq(Lines) /\ Len(file') >= Len(file)
  <2>1. file' = file /\ file \in Seq(Lines)
    BY <1>1 DEF store, TypeInv
  <2>2. Len(file) \in Nat
    BY <2>1, LenProperties
  <2> QED
    BY <2>1, <2>2
<1>3. /\ section' \in Text /\ prev' \in Text /\ wanted' \in Text
      /\ line' \in 1 .. Len(file') + 1 /\ error' \in 0 .. Len(file') /\ rc' \in -1 .. Len(file')
  BY <1>1, <1>2, GoesOnTypes
<1>4. ASSUME NEW c \in Controller
      PROVE  appended'[c] <= IF pass' \in {"default", "own", "append"} THEN loads' - 1 ELSE loads'
  <2>1. appended' = appended /\ loads' = loads /\ loads \in Nat /\ appended[c] \in Nat
        /\ appended[c] <= IF pass \in {"default", "own", "append"} THEN loads - 1 ELSE loads
    BY <1>1, Counts DEF store, plug
  <2>2. pass' = "idle"
    BY <1>1 DEF Returns
  <2> QED
    BY <2>1, <2>2
<1>5. pass' = "idle"
  BY <1>1 DEF Returns
<1> QED
  BY <1>1, <1>2, <1>3, <1>4, <1>5 DEF TypeInv, store, loaded, plug, Passes

\* Both appends: the file ends with a line of its own, or with what is left of one.
LEMMA AppendingTypes ==
  ASSUME TypeInv, pass = "append", NEW lines \in Seq(Lines), file' = Terminated \o lines,
         rest' \in Lines, appended' = [appended EXCEPT ![target] = @ + 1],
         torn' \in 0 .. MaxTorn, UNCHANGED <<boot, loaded, plug, global, filters>>,
         Returns(-1) \/ ReadsOn("added", target)
  PROVE  TypeInv'
<1>1. file \in Seq(Lines) /\ rest \in Lines /\ Len(file) \in Nat /\ target \in Controller
  BY LenProperties DEF TypeInv
<1>2. file' \in Seq(Lines) /\ Len(file') >= Len(file)
  <2>1. /\ Grows(lines) /\ Len(lines) \in Nat
        /\ Len(Terminated) \in Nat /\ Len(Terminated) >= Len(file)
    BY <1>1, FileGrows, TerminatedType, LenProperties
  <2>2. file' \in Seq(Lines) /\ Len(file') = Len(Terminated) + Len(lines)
    BY <2>1 DEF Grows
  <2> QED
    BY ONLY <1>1, <2>1, <2>2
<1>3. \/ \E p \in Passes, str \in Text : ReadsOn(p, str)
      \/ \E r \in {-1, 0, error} : Returns(r)
  BY <1>1, Constants DEF Passes
<1>4. /\ pass' \in {"idle", "added"}
      /\ section' \in Text /\ prev' \in Text /\ wanted' \in Text
      /\ line' \in 1 .. Len(file') + 1 /\ error' \in 0 .. Len(file') /\ rc' \in -1 .. Len(file')
  <2>1. pass' \in {"idle", "added"}
    BY DEF Returns, ReadsOn, Reads
  <2> QED
    BY <1>2, <1>3, <2>1, GoesOnTypes
<1>5. appended' \in [Controller -> Nat]
  BY <1>1, Counts
<1>6. ASSUME NEW c \in Controller
      PROVE  appended'[c] <= IF pass' \in {"default", "own", "append"} THEN loads' - 1 ELSE loads'
  <2>1. loads' = loads /\ loads \in Nat /\ appended[c] \in Nat /\ appended[c] <= loads - 1
    BY Counts DEF plug
  <2>2. appended'[c] \in {appended[c], appended[c] + 1}
    BY <1>1, Counts
  <2>3. appended'[c] <= loads'
    BY <2>1, <2>2
  <2> QED
    BY <1>4, <2>3
<1> QED
  BY <1>1, <1>2, <1>4, <1>5, <1>6 DEF TypeInv, loaded, plug, Passes

\* The lines of a new section, and what may be left of them.
LEMMA PartsTypes ==
  ASSUME target \in Controller, NEW n \in Nat, n < Len(NewSection)
  PROVE  /\ SubSeq(NewSection, 1, n) \in Seq(Lines) /\ Len(SubSeq(NewSection, 1, n)) = n
         /\ \A i \in 1 .. n : SubSeq(NewSection, 1, n)[i] = NewSection[i]
         /\ NewSection[n + 1] \in Lines /\ Torn(NewSection[n + 1]) \subseteq Lines
<1>1. NewSection \in Seq(Lines) /\ Len(NewSection) \in Nat
  BY NewSectionType
<1>2. NewSection[n + 1] \in Lines
  <2>1. n + 1 \in 1 .. Len(NewSection)
    BY <1>1
  <2> QED
    BY <1>1, <2>1, ElementOfSeq
<1>3. Torn(NewSection[n + 1]) \subseteq Lines
  <2>1. NewSection[n + 1].name \in Text /\ Blank \in Lines /\ Bad \in Lines
    BY <1>2, LineTypes
  <2>2. Pair(NewSection[n + 1].name, "") \in Lines /\ Pair(NewSection[n + 1].name, Garbled) \in Lines
    BY <2>1, LineTypes, OwnText
  <2> QED
    BY <1>2, <2>1, <2>2 DEF Torn
<1>4. /\ SubSeq(NewSection, 1, n) \in Seq(Lines) /\ Len(SubSeq(NewSection, 1, n)) = n
      /\ \A i \in 1 .. n : SubSeq(NewSection, 1, n)[i] = NewSection[i]
  BY <1>1
<1> QED
  BY <1>2, <1>3, <1>4

\* A tear, with the part of the section that was written.
TearsAt(n, last, powerCut) ==
  /\ n \in Nat /\ n < Len(NewSection) /\ last \in Torn(NewSection[n + 1]) /\ powerCut \in BOOLEAN
  /\ AppendTears(n, last, powerCut)

LEMMA TearIsAt ==
  ASSUME TypeInv, Tear
  PROVE  \E n, last, powerCut : TearsAt(n, last, powerCut)
<1>1. PICK n \in 0 .. Len(NewSection) - 1, powerCut \in BOOLEAN :
        \E last \in Torn(NewSection[n + 1]) : AppendTears(n, last, powerCut)
  BY DEF Tear
<1>2. Len(NewSection) \in Nat
  BY NewSectionType DEF Tear, TypeInv
<1>3. n \in Nat /\ n < Len(NewSection)
  BY <1>2
<1> QED
  BY <1>1, <1>3 DEF TearsAt

LEMMA AppendsTypes ==
  ASSUME TypeInv, Appends
  PROVE  TypeInv'
<1>1. NewSection \in Seq(Lines) /\ rest' \in Lines
  BY NewSectionType, LineTypes DEF Appends, TypeInv
<1>2. torn' \in 0 .. MaxTorn
  BY DEF Appends, TypeInv
<1> QED
  BY <1>1, <1>2, AppendingTypes DEF Appends

LEMMA TearTypes ==
  ASSUME TypeInv, Tear
  PROVE  TypeInv'
<1>1. PICK n, last, powerCut : TearsAt(n, last, powerCut)
  BY TearIsAt
<1>2. target \in Controller /\ n \in Nat /\ n < Len(NewSection) /\ pass = "append"
  BY <1>1 DEF TypeInv, TearsAt, AppendTears
<1>3. SubSeq(NewSection, 1, n) \in Seq(Lines) /\ rest' \in Lines
  BY <1>1, <1>2, PartsTypes DEF TearsAt, AppendTears
<1>4. torn' \in 0 .. MaxTorn
  <2>1. torn \in 0 .. MaxTorn /\ torn < MaxTorn /\ torn' = torn + 1
    BY <1>1 DEF TypeInv, TearsAt, AppendTears
  <2> QED
    BY ONLY <2>1, Bounds
<1>5. /\ file' = Terminated \o SubSeq(NewSection, 1, n)
      /\ appended' = [appended EXCEPT ![target] = @ + 1]
      /\ UNCHANGED <<boot, loaded, plug, global, filters>>
      /\ Returns(-1) \/ ReadsOn("added", target)
  BY <1>1 DEF TearsAt, AppendTears
<1> QED
  BY <1>2, <1>3, <1>4, <1>5, AppendingTypes

LEMMA ReadFailsTypes ==
  ASSUME TypeInv, ReadFails
  PROVE  TypeInv'
<1>1. /\ UNCHANGED <<store, loaded, target, loads, shown, global, filters, pass, wanted, section, prev,
                    error, rc>>
      /\ line' = Len(file) + 1
  BY DEF ReadFails
<1>2. line' \in 1 .. Len(file) + 1
  <2>1. Len(file) \in Nat
    BY LenProperties DEF TypeInv
  <2> QED
    BY ONLY <1>1, <2>1
<1> QED
  BY <1>1, <1>2 DEF TypeInv, store, loaded

LEMMA StutterTypes ==
  ASSUME TypeInv, UNCHANGED vars
  PROVE  TypeInv'
BY DEF TypeInv, vars, store, parser, loaded, plug

LEMMA StepTypes == TypeInv /\ [Next]_vars => TypeInv'
<1> SUFFICES ASSUME TypeInv, [Next]_vars PROVE TypeInv'
  OBVIOUS
<1> QED
  BY ParserTypes, ReadFailsTypes, DiscoversTypes, PlugTypes, PassEndsTypes, OpenFailsTypes,
     AppendsTypes, TearTypes, StutterTypes DEF Next, Load, Unplugged

-----------------------------------------------------------------------------
(* The passes that a failing read ended.                                   *)

Cut(p) == <<loads, p>> \in cut

CutInv ==
  /\ \A k \in cut : k[1] \in 0 .. loads
  /\ IsFiniteSet(cut) /\ Cardinality(cut) \in 0 .. MaxCut

LEMMA StepCut ==
  ASSUME TypeInv, CutInv, [Next]_vars
  PROVE  CutInv'
<1>1. CASE UNCHANGED <<cut, loads>>
  BY <1>1 DEF CutInv
<1>2. CASE ReadFails
  <2>1. cut' = cut \cup {<<loads, pass>>} /\ loads' = loads /\ Cardinality(cut) < MaxCut
    BY <1>2 DEF ReadFails
  <2>2. IsFiniteSet(cut') /\ Cardinality(cut') \in {Cardinality(cut), Cardinality(cut) + 1}
    BY <2>1, FS_AddElement DEF CutInv
  <2>3. Cardinality(cut') \in 0 .. MaxCut
    <3>1. Cardinality(cut) \in 0 .. MaxCut
      BY DEF CutInv
    <3> QED
      BY ONLY <2>1, <2>2, <3>1, Bounds
  <2>4. \A k \in cut' : k[1] \in 0 .. loads'
    <3>1. loads \in 0 .. MaxLoads
      BY DEF TypeInv
    <3>2. loads \in 0 .. loads
      BY ONLY <3>1, Bounds
    <3> QED
      BY <2>1, <3>2 DEF CutInv
  <2> QED
    BY <2>2, <2>3, <2>4 DEF CutInv
<1>3. CASE \E c \in Controller : Plug(c)
  <2>1. cut' = cut /\ loads' = loads + 1 /\ loads \in 0 .. MaxLoads
    BY <1>3 DEF Plug, TypeInv
  <2>2. \A i \in 0 .. loads : i \in 0 .. loads'
    BY ONLY <2>1, Bounds
  <2> QED
    BY <2>1, <2>2 DEF CutInv
<1>4. CASE Parser
  BY <1>1, <1>4, ParserKeeps
<1>5. CASE Load \/ Tear \/ UNCHANGED vars
  BY <1>1, <1>5 DEF Load, Discovers, PassEnds, OpenFails, Appends, Tear, AppendTears, vars, plug
<1> QED
  BY <1>2, <1>3, <1>4, <1>5 DEF Next, Unplugged

LEMMA InitCut == Init => CutInv
<1>1. Init => cut = {}
  BY DEF Init
<1>2. 0 \in 0 .. MaxCut
  BY Bounds
<1> QED
  BY <1>1, <1>2, FS_EmptySet DEF CutInv

LEMMA Types == Spec => [](TypeInv /\ CutInv)
BY InitTypes, InitCut, StepTypes, StepCut, PTL DEF Spec

\* The structures of a configuration keep their types and bounds, whatever the file holds: the
\* parser stays within the file that an append may have extended, and no controller is added
\* more often than it was plugged in.
THEOREM TypeCorrect == Spec => []TypeOK
<1>1. ASSUME TypeInv, CutInv
      PROVE  TypeOK
  <2>1. appended \in [Controller -> 0 .. MaxLoads]
    <3>1. ASSUME NEW c \in Controller
          PROVE  appended[c] \in 0 .. MaxLoads
      <4>1. appended[c] \in Nat /\ loads \in 0 .. MaxLoads
            /\ appended[c] <= IF pass \in {"default", "own", "append"} THEN loads - 1 ELSE loads
        BY <1>1 DEF TypeInv
      <4> QED
        BY ONLY <4>1, Bounds
    <3> QED
      BY <1>1, <3>1 DEF TypeInv
  <2> QED
    BY <1>1, <2>1 DEF TypeInv, CutInv, TypeOK, Passes
<1> QED
  BY <1>1, Types, PTL
-----------------------------------------------------------------------------
(* What the parser knows at a line, and what the lines above it say.       *)

\* The setting that an indented line n adds to.
LastBegun(lines, n, j) ==
  /\ j \in 1 .. n - 1 /\ Begins(lines, j)
  /\ \A m \in j + 1 .. n - 1 : ~IsHeader(lines[m]) /\ ~Begins(lines, m)

ReadInv ==
  Reading /\ ~Cut(pass) =>
    /\ \A j \in 1 .. line - 1 : file[j].kind # "long"
    /\ section # "" => In(file, section, line)
    /\ \A j \in 1 .. line - 1 :
         IsHeader(file[j]) /\ (\A m \in j + 1 .. line - 1 : ~IsHeader(file[m])) => section = file[j].name
    /\ prev = "" <=> Alone(file, line)
    /\ prev # "" => \E j \in 1 .. line - 1 : LastBegun(file, line, j) /\ file[j].name = prev

LEMMA InNext ==
  ASSUME NEW lines, NEW n \in Nat \ {0}, NEW s
  PROVE  In(lines, s, n + 1) <=> IF IsHeader(lines[n]) THEN lines[n].name = s ELSE In(lines, s, n)
<1>1. ASSUME IsHeader(lines[n])
      PROVE  In(lines, s, n + 1) <=> lines[n].name = s
  <2>1. ASSUME lines[n].name = s
        PROVE  In(lines, s, n + 1)
    <3>1. n \in 1 .. (n + 1) - 1 /\ \A m \in n + 1 .. (n + 1) - 1 : FALSE
      OBVIOUS
    <3> QED
      BY <1>1, <2>1, <3>1 DEF In
  <2>2. ASSUME In(lines, s, n + 1)
        PROVE  lines[n].name = s
    <3>1. PICK j \in 1 .. (n + 1) - 1 :
            lines[j].name = s /\ \A m \in j + 1 .. (n + 1) - 1 : ~IsHeader(lines[m])
      BY <2>2 DEF In
    <3>2. j = n \/ n \in j + 1 .. (n + 1) - 1
      BY <3>1
    <3> QED
      BY <1>1, <3>1, <3>2
  <2> QED
    BY <2>1, <2>2
<1>2. ASSUME ~IsHeader(lines[n])
      PROVE  In(lines, s, n + 1) <=> In(lines, s, n)
  <2>1. ASSUME In(lines, s, n)
        PROVE  In(lines, s, n + 1)
    <3>1. PICK j \in 1 .. n - 1 :
            IsHeader(lines[j]) /\ lines[j].name = s /\ \A m \in j + 1 .. n - 1 : ~IsHeader(lines[m])
      BY <2>1 DEF In
    <3>2. j \in 1 .. (n + 1) - 1 /\ \A m \in j + 1 .. (n + 1) - 1 : m = n \/ m \in j + 1 .. n - 1
      BY <3>1
    <3> QED
      BY <1>2, <3>1, <3>2 DEF In
  <2>2. ASSUME In(lines, s, n + 1)
        PROVE  In(lines, s, n)
    <3>1. PICK j \in 1 .. (n + 1) - 1 :
            /\ IsHeader(lines[j]) /\ lines[j].name = s
            /\ \A m \in j + 1 .. (n + 1) - 1 : ~IsHeader(lines[m])
      BY <2>2 DEF In
    <3>2. (j = n \/ j \in 1 .. n - 1) /\ \A m \in j + 1 .. n - 1 : m \in j + 1 .. (n + 1) - 1
      BY <3>1
    <3> QED
      BY <1>2, <3>1, <3>2 DEF In
  <2> QED
    BY <2>1, <2>2
<1> QED
  BY <1>1, <1>2

LEMMA AloneNext ==
  ASSUME NEW lines, NEW n \in Nat \ {0}
  PROVE  Alone(lines, n + 1) <=>
           \/ IsHeader(lines[n]) \/ (lines[n].kind = "pair" /\ lines[n].name = "")
           \/ Alone(lines, n) /\ ~(IsSetting(lines[n]) /\ lines[n].name # "")
<1> DEFINE ends(m) == IsHeader(lines[m]) \/ (lines[m].kind = "pair" /\ lines[m].name = "")
           set(j) == IsSetting(lines[j]) /\ lines[j].name # ""
<1>1. /\ \A k : Alone(lines, k) <=> \A j \in 1 .. k - 1 : set(j) => \E m \in j + 1 .. k - 1 : ends(m)
      /\ \A j : ends(j) => ~set(j)
  BY DEF Alone, IsHeader, IsSetting
<1> HIDE DEF ends, set
<1>2. /\ \A j : j \in 1 .. (n + 1) - 1 <=> j \in 1 .. n - 1 \/ j = n
      /\ \A j \in 1 .. n - 1 : \A m : m \in j + 1 .. (n + 1) - 1 <=> m \in j + 1 .. n - 1 \/ m = n
      /\ \A m \in n + 1 .. (n + 1) - 1 : FALSE
  OBVIOUS
<1>3. Alone(lines, n + 1) <=>
        /\ set(n) => FALSE
        /\ \A j \in 1 .. n - 1 : set(j) => ends(n) \/ \E m \in j + 1 .. n - 1 : ends(m)
  BY <1>1, <1>2
<1>4. Alone(lines, n + 1) <=> ~set(n) /\ (ends(n) \/ Alone(lines, n))
  BY <1>1, <1>3
<1>5. Alone(lines, n + 1) <=> ends(n) \/ (Alone(lines, n) /\ ~set(n))
  BY <1>1, <1>4
<1> QED
  BY <1>5 DEF ends, set

LEMMA LastBegunNext ==
  ASSUME NEW lines, NEW n \in Nat \ {0}
  PROVE  /\ Begins(lines, n) => LastBegun(lines, n + 1, n)
         /\ \A j : LastBegun(lines, n, j) /\ ~IsHeader(lines[n]) /\ ~Begins(lines, n)
                     => LastBegun(lines, n + 1, j)
<1>1. n \in 1 .. (n + 1) - 1 /\ \A m \in n + 1 .. (n + 1) - 1 : FALSE
  OBVIOUS
<1>2. \A j \in 1 .. n - 1 :
        j \in 1 .. (n + 1) - 1 /\ \A m \in j + 1 .. (n + 1) - 1 : m \in j + 1 .. n - 1 \/ m = n
  OBVIOUS
<1> QED
  BY <1>1, <1>2 DEF LastBegun

LEMMA LastBegunUnique ==
  ASSUME NEW lines, NEW n \in Nat, NEW i, NEW j, LastBegun(lines, n, i), LastBegun(lines, n, j)
  PROVE  i = j
<1>1. i \in 1 .. n - 1 /\ j \in 1 .. n - 1
  BY DEF LastBegun
<1>2. i = j \/ i \in j + 1 .. n - 1 \/ j \in i + 1 .. n - 1
  BY <1>1
<1> QED
  BY <1>2 DEF LastBegun

LEMMA InitReads == Init => ReadInv
<1> SUFFICES ASSUME Init PROVE ReadInv
  OBVIOUS
<1>1. line = 1 /\ section = "" /\ prev = ""
  BY DEF Init
<1>2. \A j \in 1 .. 1 - 1 : FALSE
  OBVIOUS
<1> QED
  BY <1>1, <1>2 DEF ReadInv, Alone

\* At the start of a pass nothing is known yet.
LEMMA StartReads ==
  ASSUME StartsParser
  PROVE  ReadInv'
<1>1. line' = 1 /\ section' = "" /\ prev' = ""
  BY DEF StartsParser
<1>2. \A j \in 1 .. 1 - 1 : FALSE
  OBVIOUS
<1> QED
  BY <1>1, <1>2 DEF ReadInv, Alone

LEMMA ParserReads ==
  ASSUME TypeInv, ReadInv, Parser
  PROVE  ReadInv'
<1>c. Cut(pass)' <=> Cut(pass)
  BY ParserKeeps DEF Cut
<1> SUFFICES ASSUME ~Cut(pass) PROVE ReadInv'
  BY <1>c DEF ReadInv
<1>0. /\ Reading /\ line' = line + 1 /\ UNCHANGED <<file, pass>>
      /\ line \in Nat \ {0} /\ file[line].kind # "long"
  <2>1. Reading /\ line' = line + 1 /\ UNCHANGED <<file, pass>>
    BY ParserKeeps
  <2>2. line \in 1 .. Len(file) + 1 /\ Len(file) \in Nat
    BY LenProperties DEF TypeInv
  <2>3. file[line].kind # "long"
    BY DEF Parser, Skips, EntersSection, TakesPair, Continues, Misreads, AtLine
  <2> QED
    BY <2>1, <2>2, <2>3
<1>1. /\ \A j \in 1 .. line - 1 : file[j].kind # "long"
      /\ section # "" => In(file, section, line)
      /\ \A j \in 1 .. line - 1 :
           IsHeader(file[j]) /\ (\A m \in j + 1 .. line - 1 : ~IsHeader(file[m])) => section = file[j].name
      /\ prev = "" <=> Alone(file, line)
      /\ prev # "" => \E j \in 1 .. line - 1 : LastBegun(file, line, j) /\ file[j].name = prev
  BY <1>0 DEF ReadInv
<1>2. \A j \in 1 .. (line + 1) - 1 : j = line \/ j \in 1 .. line - 1
  BY <1>0
<1>3. \A j \in 1 .. (line + 1) - 1 : file[j].kind # "long"
  BY <1>0, <1>1, <1>2
<1>4. IF IsHeader(file[line]) THEN section' = file[line].name ELSE section' = section
  BY DEF Parser, Skips, EntersSection, TakesPair, Continues, Misreads, AtLine, IsHeader
<1>5. section' # "" => In(file, section', line + 1)
  <2>1. In(file, section', line + 1)
          <=> IF IsHeader(file[line]) THEN file[line].name = section' ELSE In(file, section', line)
    BY <1>0, InNext
  <2> QED
    BY <1>1, <1>4, <2>1
<1>6. ASSUME NEW j \in 1 .. (line + 1) - 1, IsHeader(file[j]),
             \A m \in j + 1 .. (line + 1) - 1 : ~IsHeader(file[m])
      PROVE  section' = file[j].name
  <2>1. CASE j = line
    BY <1>4, <1>6, <2>1
  <2>2. CASE j # line
    <3>1. j \in 1 .. line - 1 /\ line \in j + 1 .. (line + 1) - 1
      BY <1>0, <2>2
    <3>2. \A m \in j + 1 .. line - 1 : m \in j + 1 .. (line + 1) - 1
      BY <1>0, <3>1
    <3> QED
      BY <1>1, <1>4, <1>6, <3>1, <3>2
  <2> QED
    BY <2>1, <2>2
<1>7. prev' = "" <=> Alone(file, line + 1)
  <2>1. Alone(file, line + 1) <=>
           \/ IsHeader(file[line]) \/ (file[line].kind = "pair" /\ file[line].name = "")
           \/ Alone(file, line) /\ ~(IsSetting(file[line]) /\ file[line].name # "")
    BY <1>0, AloneNext
  <2>2. CASE Skips \/ Misreads
    BY <1>1, <2>1, <2>2 DEF Skips, Misreads, AtLine, IsHeader, IsSetting
  <2>3. CASE EntersSection
    BY <2>1, <2>3 DEF EntersSection, AtLine, IsHeader
  <2>4. CASE TakesPair
    BY <1>1, <2>1, <2>4 DEF TakesPair, AtLine, IsHeader, IsSetting
  <2>5. CASE Continues
    BY <1>1, <2>1, <2>5 DEF Continues, AtLine, IsHeader, IsSetting
  <2> QED
    BY <2>2, <2>3, <2>4, <2>5 DEF Parser
<1>8. ASSUME prev' # ""
      PROVE  \E j \in 1 .. (line + 1) - 1 : LastBegun(file, line + 1, j) /\ file[j].name = prev'
  <2>1. CASE TakesPair
    <3>1. Begins(file, line) /\ prev' = file[line].name
      BY <1>1, <2>1 DEF TakesPair, AtLine, Begins
    <3>2. LastBegun(file, line + 1, line) /\ line \in 1 .. (line + 1) - 1
      BY <1>0, <3>1, LastBegunNext
    <3> QED
      BY <3>1, <3>2
  <2>2. CASE Skips \/ Misreads \/ Continues
    <3>1. prev' = prev /\ prev # "" /\ ~IsHeader(file[line]) /\ ~Begins(file, line)
      BY <1>1, <1>8, <2>2 DEF Skips, Misreads, Continues, AtLine, Begins, IsHeader
    <3>2. PICK j \in 1 .. line - 1 : LastBegun(file, line, j) /\ file[j].name = prev
      BY <1>1, <3>1
    <3>3. LastBegun(file, line + 1, j)
      BY <1>0, <3>1, <3>2, LastBegunNext
    <3>4. j \in 1 .. (line + 1) - 1
      BY ONLY <1>0, <3>2
    <3> QED
      BY <3>1, <3>2, <3>3, <3>4
  <2>3. CASE EntersSection
    BY <1>8, <2>3 DEF EntersSection
  <2> QED
    BY <2>1, <2>2, <2>3 DEF Parser
<1>9. /\ file' = file /\ line' = line + 1
  BY <1>0
<1> QED
  BY <1>3, <1>5, <1>6, <1>7, <1>8, <1>9 DEF ReadInv

LEMMA StepReads ==
  ASSUME TypeInv, ReadInv, [Next]_vars
  PROVE  ReadInv'
<1>1. CASE Parser
  BY <1>1, ParserReads
<1>2. CASE StartsParser
  BY <1>2, StartReads
<1>3. CASE pass' \in {"idle", "append"}
  BY <1>3 DEF ReadInv, Reading
<1>4. CASE UNCHANGED vars
  <2>1. UNCHANGED <<file, pass, line, section, prev, loads, cut>>
    BY <1>4 DEF vars, store, parser, plug
  <2> QED
    BY <2>1 DEF ReadInv, Reading, Cut
<1>5. CASE Load
  BY <1>2, <1>3, <1>5 DEF Load, Discovers, PassEnds, OpenFails, Appends, ToProfile, ReadsOn, Reads, Returns
<1>6. CASE Tear
  BY <1>2, <1>3, <1>6 DEF Tear, AppendTears, ReadsOn, Reads, Returns
<1>7. CASE \E c \in Controller : Plug(c)
  BY <1>2, <1>7 DEF Plug, Reads
<1>8. CASE ReadFails
  <2>1. Cut(pass)'
    BY <1>8 DEF ReadFails, Cut
  <2> QED
    BY <2>1 DEF ReadInv
<1> QED
  BY <1>1, <1>4, <1>5, <1>6, <1>7, <1>8 DEF Next, Unplugged

-----------------------------------------------------------------------------
(* What the handlers are given, and what the file says.                    *)

\* The parser's section is the one that the lines above it say.
LEMMA SectionIs ==
  ASSUME TypeInv, ReadInv, Reading, ~Cut(pass), NEW s, s # ""
  PROVE  In(file, s, line) <=> section = s
<1>1. ASSUME In(file, s, line)
      PROVE  section = s
  BY <1>1 DEF ReadInv, In
<1> QED
  BY <1>1 DEF ReadInv

\* Line n of the file is a setting of this key with this value, and nothing else.
Sets(s, n, key, v) ==
  Value(file, n) = v /\ \A name : Says(file, s, n, name) <=> name = key

LEMMA SettingSays ==
  ASSUME TypeInv, ReadInv, Reading, ~Cut(pass), line \in 1 .. Len(file), file[line].kind # "long",
         NEW s, s # ""
  PROVE  /\ section # s \/ ~IsSetting(file[line]) => \A name : ~Says(file, s, line, name)
         /\ section = s /\ Begins(file, line) => Sets(s, line, file[line].name, file[line].value)
         /\ section = s /\ file[line].kind = "indented" /\ prev # "" => Sets(s, line, prev, Garbled)
<1>0. line \in Nat \ {0}
  <2>1. Len(file) \in Nat /\ line \in 1 .. Len(file)
    BY LenProperties DEF TypeInv
  <2> QED
    BY ONLY <2>1
<1>1. In(file, s, line) <=> section = s
  BY SectionIs
<1>2. Visible(file, line)
  <2>1. \A j \in 1 .. line - 1 : file[j].kind # "long"
    BY DEF ReadInv
  <2>2. \A j \in 1 .. line : j = line \/ j \in 1 .. line - 1
    BY ONLY <1>0
  <2> QED
    BY <2>1, <2>2 DEF Visible
<1>3. ASSUME section # s \/ ~IsSetting(file[line])
      PROVE  \A name : ~Says(file, s, line, name)
  BY <1>1, <1>3 DEF Says, Begins, Continued, IsSetting
<1>4. ASSUME section = s, Begins(file, line)
      PROVE  Sets(s, line, file[line].name, file[line].value)
  BY <1>1, <1>2, <1>4 DEF Sets, Says, Continued, Value
<1>5. ASSUME section = s, file[line].kind = "indented", prev # ""
      PROVE  Sets(s, line, prev, Garbled)
  <2>1. ~Begins(file, line)
    BY <1>5 DEF Begins, ReadInv
  <2>2. PICK j \in 1 .. line - 1 : LastBegun(file, line, j) /\ file[j].name = prev
    BY <1>5 DEF ReadInv
  <2>3. \A i \in 1 .. line - 1 : Continued(file, line, i) <=> i = j
    <3>1. \A i \in 1 .. line - 1 : Continued(file, line, i) <=> LastBegun(file, line, i)
      BY <1>5, <2>1 DEF Continued, LastBegun
    <3> QED
      BY <1>0, <2>2, <3>1, LastBegunUnique
  <2> QED
    BY <1>1, <1>2, <1>5, <2>1, <2>2, <2>3 DEF Sets, Says, Value
<1> QED
  BY <1>3, <1>4, <1>5

\* A step of the parser hands the handlers what the line says, and nothing else.
HandledRight ==
  \/ UNCHANGED <<loaded, global>> /\ \A name : ~Says(file, wanted, line, name)
  \/ \E key, v \in Text :
       /\ Sets(wanted, line, key, v)
       /\ IF pass = "global" THEN Globally(key, v) ELSE ToController(key, v)

LEMMA ParserHandles ==
  ASSUME TypeInv, ReadInv, Parser, ~Cut(pass), wanted # ""
  PROVE  HandledRight
<1>0. Reading /\ line \in 1 .. Len(file) /\ file[line] \in Lines
  <2>1. Reading /\ line <= Len(file)
    BY ParserKeeps
  <2>2. line \in 1 .. Len(file) + 1 /\ Len(file) \in Nat /\ file \in Seq(Lines)
    BY LenProperties DEF TypeInv
  <2>3. line \in 1 .. Len(file)
    BY ONLY <2>1, <2>2
  <2> QED
    BY <2>1, <2>2, <2>3, ElementOfSeq
<1>1. file[line].name \in Text /\ file[line].value \in Text /\ prev \in Text /\ Garbled \in Text
  BY <1>0, LineTypes, OwnText DEF TypeInv
<1>2. file[line].kind # "long"
  BY DEF Parser, Skips, EntersSection, TakesPair, Continues, Misreads, AtLine
<1>3. /\ section # wanted \/ ~IsSetting(file[line]) => \A name : ~Says(file, wanted, line, name)
      /\ section = wanted /\ Begins(file, line) => Sets(wanted, line, file[line].name, file[line].value)
      /\ section = wanted /\ file[line].kind = "indented" /\ prev # ""
           => Sets(wanted, line, prev, Garbled)
  BY <1>0, <1>2, SettingSays
<1>4. CASE Skips \/ EntersSection \/ Misreads
  <2>1. UNCHANGED <<loaded, global>> /\ ~IsSetting(file[line])
    BY <1>4 DEF Skips, EntersSection, Misreads, AtLine, IsSetting
  <2> QED
    BY <1>3, <2>1 DEF HandledRight
<1>5. ASSUME NEW key \in Text, NEW v \in Text, Handle(key, v),
             section = wanted => Sets(wanted, line, key, v)
      PROVE  HandledRight
  <2>1. CASE section # wanted
    BY <1>3, <1>5, <2>1 DEF Handle, HandledRight
  <2>2. CASE section = wanted
    BY <1>5, <2>2 DEF Handle, HandledRight
  <2> QED
    BY <2>1, <2>2
<1>6. CASE TakesPair
  <2>1. Begins(file, line)
    BY <1>6 DEF TakesPair, AtLine, Begins, ReadInv
  <2>2. Handle(file[line].name, file[line].value)
    BY <1>6 DEF TakesPair
  <2> QED
    BY <1>1, <1>3, <1>5, <2>1, <2>2
<1>7. CASE Continues
  <2>1. file[line].kind = "indented" /\ prev # "" /\ Handle(prev, Garbled)
    BY <1>7 DEF Continues, AtLine
  <2> QED
    BY <1>1, <1>3, <1>5, <2>1
<1> QED
  BY <1>4, <1>6, <1>7 DEF Parser

\* Each structure is filled by the passes that are its own.
LEMMA ParserFills ==
  ASSUME TypeInv, Parser
  PROVE  /\ pass # "global" => global' = global
         /\ pass = "default" => found' = found
<1>1. ASSUME NEW key, NEW v, Handle(key, v), pass # "global"
      PROVE  global' = global /\ (pass = "default" => found' = found)
  <2>1. found \in BOOLEAN
    BY DEF TypeInv
  <2> QED
    BY <1>1, <2>1 DEF Handle, ToController, loaded
<1> QED
  BY <1>1 DEF Parser, Skips, EntersSection, TakesPair, Continues, Misreads, loaded

-----------------------------------------------------------------------------
(* The passes over the file, and the section that is looked for.           *)

Silent(s, i) == \A name : ~Says(file, s, i, name)

PassInv ==
  /\ pass = "global" => wanted = "global" /\ loads = 0 /\ file = boot
  /\ pass = "default" => wanted = "default"
  /\ pass \in {"own", "added", "again"} => wanted = target
  /\ pass = "profile" => wanted # ""
  /\ pass \in {"default", "own", "append"} => file = shown
  /\ pass = "default" => ~found /\ ~Cut("own")
  /\ pass = "own" /\ ~Cut("own") /\ ~found => \A i \in 1 .. line - 1 : Silent(target, i)
  /\ pass = "append" /\ ~Cut("own") => \A i \in 1 .. Len(file) : Silent(target, i)

LEMMA WantedIsNamed ==
  ASSUME TypeInv, PassInv, Reading
  PROVE  wanted # ""
<1>1. target \in Controller => target # ""
  BY Constants
<1> QED
  BY <1>1 DEF Reading, PassInv, TypeInv, Passes

\* Nothing is said behind the line at which the reader stops.
LEMMA EndIsSilent ==
  ASSUME TypeInv, AtEnd, NEW s, NEW i \in 1 .. Len(file), i >= line
  PROVE  Silent(s, i)
<1>1. line \in Nat \ {0} /\ Len(file) \in Nat
  <2>1. line \in 1 .. Len(file) + 1 /\ Len(file) \in Nat
    BY LenProperties DEF TypeInv
  <2> QED
    BY ONLY <2>1
<1>2. line <= Len(file) /\ line \in 1 .. i
  BY <1>1
<1>3. file[line].kind = "long"
  BY <1>2 DEF AtEnd
<1> QED
  BY <1>2, <1>3 DEF Silent, Says, Visible

LEMMA InitPasses == Init => PassInv
BY DEF Init, PassInv, Cut

LEMMA ParserPasses ==
  ASSUME TypeInv, ReadInv, PassInv, Parser
  PROVE  PassInv'
<1>0. /\ Reading /\ line' = line + 1 /\ UNCHANGED <<file, boot, shown, target, pass, wanted, loads, cut>>
      /\ line \in Nat \ {0}
  <2>1. /\ Reading /\ line' = line + 1
        /\ UNCHANGED <<file, boot, shown, target, pass, wanted, loads, cut>>
    BY ParserKeeps
  <2>2. line \in 1 .. Len(file) + 1 /\ Len(file) \in Nat
    BY LenProperties DEF TypeInv
  <2>3. line \in Nat \ {0}
    BY ONLY <2>2
  <2> QED
    BY <2>1, <2>3
<1>1. ~Cut(pass) => HandledRight
  BY <1>0, WantedIsNamed, ParserHandles
<1>2. pass = "default" => ~found'
  BY ParserFills DEF PassInv
<1>3. ASSUME pass = "own", ~Cut("own"), ~found', NEW i \in 1 .. (line + 1) - 1
      PROVE  Silent(target, i)
  <2>0. \A key, v : ~ToController(key, v)
    BY <1>3 DEF ToController
  <2>1. UNCHANGED <<loaded, global>> /\ Silent(wanted, line)
    BY <1>1, <1>3, <2>0 DEF HandledRight, Silent
  <2>2. found' = found /\ wanted = target
    BY <1>3, <2>1 DEF loaded, PassInv
  <2>3. CASE i = line
    BY <2>1, <2>2, <2>3
  <2>4. CASE i # line
    <3>1. i \in 1 .. line - 1
      BY ONLY <1>0, <2>4, i \in 1 .. (line + 1) - 1
    <3> QED
      BY <1>3, <2>2, <3>1 DEF PassInv
  <2> QED
    BY <2>3, <2>4
<1>4. (\A s, i : Silent(s, i)' <=> Silent(s, i)) /\ (Cut("own")' <=> Cut("own"))
  BY <1>0 DEF Silent, Cut
<1>5. pass # "append"
  BY <1>0 DEF Reading
<1> QED
  BY <1>0, <1>2, <1>3, <1>4, <1>5 DEF PassInv

LEMMA PassEndsPasses ==
  ASSUME TypeInv, PassInv, PassEnds
  PROVE  PassInv'
<1>1. /\ UNCHANGED <<file, boot, shown, target, loads, found>> /\ AtEnd
      /\ (\A s, i : Silent(s, i)' <=> Silent(s, i)) /\ (Cut("own")' <=> Cut("own"))
  <2>1. UNCHANGED <<file, boot, shown, target, loads, found, cut>> /\ AtEnd
    BY DEF PassEnds, store, plug, loaded
  <2> QED
    BY <2>1 DEF Silent, Cut
<1>2. CASE pass' = "idle"
  BY <1>2 DEF PassInv
<1>3. CASE pass = "default" /\ ReadsOn("own", target)
  <2>1. pass' = "own" /\ wanted' = target /\ line' = 1
    BY <1>3 DEF ReadsOn, Reads, StartsParser
  <2>2. \A i \in 1 .. 1 - 1 : FALSE
    OBVIOUS
  <2> QED
    BY <1>1, <1>3, <2>1, <2>2 DEF PassInv
<1>4. CASE NeedsSection /\ pass' = "append"
  <2>1. pass = "own" /\ ~found
    BY <1>4 DEF NeedsSection
  <2>2. ~Cut("own") => \A i \in 1 .. line - 1 : Silent(target, i)
    BY <2>1 DEF PassInv
  <2>3. line \in 1 .. Len(file) + 1 /\ Len(file) \in Nat
    BY LenProperties DEF TypeInv
  <2>4. \A i \in 1 .. Len(file) : i \in 1 .. line - 1 \/ i >= line
    BY ONLY <2>3
  <2>5. ~Cut("own") => \A i \in 1 .. Len(file) : Silent(target, i)
    BY <1>1, <2>2, <2>4, EndIsSilent
  <2> QED
    BY <1>1, <1>4, <2>1, <2>5 DEF PassInv
<1>5. CASE pass \in {"own", "added"} /\ ToProfile
  BY <1>1, <1>2, <1>5 DEF ToProfile, ReadsOn, Reads, Returns, PassInv
<1>6. CASE ReadsOn("again", target)
  BY <1>1, <1>6 DEF ReadsOn, Reads, PassInv
<1> QED
  BY <1>2, <1>3, <1>4, <1>5, <1>6 DEF PassEnds, Returns

LEMMA StepPasses ==
  ASSUME TypeInv, CutInv, ReadInv, PassInv, [Next]_vars
  PROVE  PassInv'
<1>1. CASE Parser
  BY <1>1, ParserPasses
<1>2. CASE PassEnds
  BY <1>2, PassEndsPasses
<1>3. CASE pass' = "idle"
  BY <1>3 DEF PassInv
<1>4. CASE ReadsOn("added", target) /\ target' = target
  BY <1>4 DEF ReadsOn, Reads, PassInv
<1>5. CASE \E c \in Controller : Plug(c)
  <2>1. loads' = loads + 1 /\ cut' = cut /\ loads \in 0 .. MaxLoads
    BY <1>5 DEF Plug, TypeInv
  <2>2. loads' \notin 0 .. loads
    BY ONLY <2>1, Bounds
  <2>3. ~Cut("own")'
    BY <2>1, <2>2 DEF Cut, CutInv
  <2> QED
    BY <1>5, <2>3 DEF Plug, Reads, PassInv, store
<1>6. CASE UNCHANGED vars
  BY <1>6 DEF vars, store, parser, loaded, plug, PassInv, Silent, Cut
<1>7. CASE Discovers \/ OpenFails
  BY <1>3, <1>7 DEF Discovers, OpenFails, Returns
<1>8. CASE Appends
  BY <1>4, <1>8 DEF Appends, plug
<1>9. CASE Tear
  BY <1>3, <1>4, <1>9 DEF Tear, AppendTears, Returns, plug
<1>10. CASE ReadFails
  <2>1. /\ UNCHANGED <<file, boot, shown, target, loads, found, pass, wanted>> /\ Reading
        /\ cut' = cut \cup {<<loads, pass>>}
    BY <1>10 DEF ReadFails, store, loaded
  <2>2. pass = "own" => Cut("own")'
    BY <2>1 DEF Cut
  <2>3. pass = "default" => (Cut("own")' <=> Cut("own"))
    BY <2>1 DEF Cut
  <2>4. pass # "append"
    BY <2>1 DEF Reading
  <2> QED
    BY <2>1, <2>2, <2>3, <2>4 DEF PassInv
<1> QED
  BY <1>1, <1>2, <1>5, <1>6, <1>7, <1>8, <1>9, <1>10 DEF Next, Load, Unplugged

\* What holds of the file, the parser and the passes together.
BaseInv == TypeInv /\ CutInv /\ ReadInv /\ PassInv

LEMMA Base == Spec => []BaseInv
<1>1. Init => BaseInv
  BY InitTypes, InitCut, InitReads, InitPasses DEF BaseInv
<1>2. BaseInv /\ [Next]_vars => BaseInv'
  BY StepTypes, StepCut, StepReads, StepPasses DEF BaseInv
<1> QED
  BY <1>1, <1>2, PTL DEF Spec

-----------------------------------------------------------------------------
(* A section is appended once.                                             *)

Whole == \A i \in 1 .. Len(file) : file[i].kind # "long"

\* The file has a section of this controller, with a setting in it.
Kept(c) == \E j \in 1 .. Len(file) - 1 : file[j] = Section(c) /\ file[j + 1].kind = "pair"

\* The searches for a section that a failing read ended: the last of them may still have to
\* append it.
Blind == Cardinality({k \in cut : k[2] = "own"})
Pending == IF pass \in {"own", "append"} /\ Cut("own") THEN 1 ELSE 0

KeptInv ==
  Whole => \A c \in Controller : appended[c] + Pending <= torn + Blind + (IF Kept(c) THEN 1 ELSE 0)

LEMMA KeptSays ==
  ASSUME Whole, Len(file) \in Nat, NEW c, Kept(c)
  PROVE  \E i \in 1 .. Len(file) : ~Silent(c, i)
<1>1. PICK j \in 1 .. Len(file) - 1 : file[j] = Section(c) /\ file[j + 1].kind = "pair"
  BY DEF Kept
<1>2. /\ j + 1 \in 1 .. Len(file) /\ j \in 1 .. (j + 1) - 1
      /\ \A m \in j + 1 .. (j + 1) - 1 : FALSE
      /\ \A i \in 1 .. j + 1 : i \in 1 .. Len(file)
  <2>1. j \in 1 .. Len(file) - 1 /\ Len(file) \in Nat
    BY <1>1
  <2> QED
    BY ONLY <2>1
<1>3. In(file, c, j + 1)
  <2>0. Section(c).kind = "section" /\ Section(c).name = c
    BY DEF Section, Line
  <2>1. IsHeader(file[j]) /\ file[j].name = c
    BY <1>1, <2>0 DEF IsHeader
  <2> QED
    BY <1>2, <2>1 DEF In
<1>4. Begins(file, j + 1) /\ Visible(file, j + 1)
  BY <1>1, <1>2 DEF Begins, Visible, Whole
<1>5. Says(file, c, j + 1, file[j + 1].name)
  BY <1>3, <1>4 DEF Says
<1> QED
  BY <1>2, <1>5 DEF Silent

LEMMA CountsTorn ==
  ASSUME TypeInv, CutInv
  PROVE  torn \in Nat /\ Blind \in Nat
<1>1. torn \in 0 .. MaxTorn
  BY DEF TypeInv
<1>2. IsFiniteSet({k \in cut : k[2] = "own"})
  BY FS_Subset DEF CutInv
<1>3. Blind \in Nat
  BY <1>2, FS_CardinalityType DEF Blind
<1> QED
  BY ONLY <1>1, <1>3, Bounds

\* A search that a read ends counts, and is then pending.
LEMMA ReadFailsCounts ==
  ASSUME TypeInv, CutInv, ReadFails
  PROVE  Pending' \in Nat /\ Blind' \in Nat /\ Blind + Pending' <= Blind' + Pending
<1>1. /\ cut' = cut \cup {<<loads, pass>>} /\ UNCHANGED <<pass, loads>> /\ pass # "append"
  BY DEF ReadFails, Reading
<1> DEFINE S == {k \in cut : k[2] = "own"}
<1>2. IsFiniteSet(S) /\ Blind = Cardinality(S) /\ Blind \in Nat
  BY CountsTorn, FS_Subset DEF CutInv, Blind
<1>3. Blind' = Cardinality({k \in cut' : k[2] = "own"})
  BY DEF Blind
<1>4. CASE pass = "own"
  <2>1. {k \in cut' : k[2] = "own"} = S \cup {<<loads, "own">>}
    BY <1>1, <1>4
  <2>2. <<loads, "own">> \in S <=> Cut("own")
    BY DEF Cut
  <2>3. Pending' = 1 /\ Pending = IF Cut("own") THEN 1 ELSE 0
    BY <1>1, <1>4 DEF Pending, Cut
  <2> HIDE DEF S
  <2>4. Blind' = IF Cut("own") THEN Blind ELSE Blind + 1
    BY <1>2, <1>3, <2>1, <2>2, FS_AddElement
  <2> QED
    BY <1>2, <2>3, <2>4
<1>5. CASE pass # "own"
  <2>1. {k \in cut' : k[2] = "own"} = S
    BY <1>1, <1>5
  <2>2. Pending' = 0 /\ Pending = 0
    BY <1>1, <1>5 DEF Pending
  <2> HIDE DEF S
  <2>3. Blind' = Blind
    BY <1>2, <1>3, <2>1
  <2> QED
    BY <1>2, <2>2, <2>3
<1> QED
  BY <1>4, <1>5

\* The controller that gets a section has none, and the file that grows keeps those of others.
LEMMA GrowsKept ==
  ASSUME TypeInv, CutInv, PassInv, KeptInv, pass = "append",
         NEW lines \in Seq(Lines), Grows(lines), Whole'
  PROVE  /\ appended[target] <= torn + Blind
         /\ \A c \in Controller : appended[c] <= torn + Blind + (IF Kept(c)' THEN 1 ELSE 0)
<1>1. /\ Len(file) \in Nat /\ Len(lines) \in Nat /\ Len(Terminated) \in Nat
      /\ Len(Terminated) >= Len(file) /\ Len(file') = Len(Terminated) + Len(lines)
  BY TerminatedType, LenProperties DEF TypeInv, Grows
<1>2. /\ \A i \in 1 .. Len(file) : i \in 1 .. Len(file')
      /\ \A j \in 1 .. Len(file) - 1 :
           j \in 1 .. Len(file) /\ j + 1 \in 1 .. Len(file) /\ j \in 1 .. Len(file') - 1
  BY ONLY <1>1
<1>3. \A i \in 1 .. Len(file) : file'[i] = file[i]
  BY DEF Grows
<1>4. Whole
  BY <1>2, <1>3 DEF Whole
<1>5. target \in Controller /\ (Cut("own") \/ ~Kept(target))
  <2>1. ~Cut("own") => \A i \in 1 .. Len(file) : Silent(target, i)
    BY DEF PassInv
  <2> QED
    BY <1>1, <1>4, <2>1, KeptSays DEF TypeInv
<1>6. /\ Pending = IF Cut("own") THEN 1 ELSE 0
      /\ \A c \in Controller : appended[c] + Pending <= torn + Blind + (IF Kept(c) THEN 1 ELSE 0)
  BY <1>4 DEF KeptInv, Pending
<1>7. torn \in Nat /\ Blind \in Nat /\ \A c \in Controller : appended[c] \in Nat
  BY Counts, CountsTorn
<1>8. appended[target] <= torn + Blind
  BY <1>5, <1>6, <1>7
<1>9. ASSUME NEW c \in Controller
      PROVE  appended[c] <= torn + Blind + (IF Kept(c)' THEN 1 ELSE 0)
  <2>1. Kept(c) => Kept(c)'
    BY <1>2, <1>3 DEF Kept, Section, Line
  <2> QED
    BY <1>6, <1>7, <2>1
<1> QED
  BY <1>8, <1>9

LEMMA AppendsKept ==
  ASSUME TypeInv, CutInv, PassInv, KeptInv, Appends
  PROVE  KeptInv'
<1> SUFFICES ASSUME Whole'
             PROVE  \A c \in Controller :
                      appended'[c] <= torn' + Blind + (IF Kept(c)' THEN 1 ELSE 0)
  <2>1. pass' \notin {"own", "append"} /\ cut' = cut
    BY DEF Appends, Returns, ReadsOn, Reads, plug
  <2>2. Pending' = 0 /\ Blind' = Blind
    BY <2>1 DEF Pending, Blind
  <2>3. appended' \in [Controller -> Nat]
    BY StepTypes DEF TypeInv, Next, Load
  <2> QED
    BY <2>2, <2>3 DEF KeptInv
<1>0. pass = "append" /\ target \in Controller /\ file \in Seq(Lines) /\ rest \in Lines
  BY DEF Appends, TypeInv
<1>1. /\ NewSection \in Seq(Lines) /\ Len(NewSection) \in Nat /\ Len(NewSection) >= 2
      /\ NewSection[1] = Section(target) /\ NewSection[2].kind = "pair"
  BY <1>0, NewSectionType
<1>2. Grows(NewSection)
  BY <1>0, <1>1, FileGrows DEF Appends
<1>3. /\ appended[target] <= torn + Blind
      /\ \A c \in Controller : appended[c] <= torn + Blind + (IF Kept(c)' THEN 1 ELSE 0)
  BY <1>0, <1>1, <1>2, GrowsKept
<1>4. Kept(target)'
  <2>1. Len(Terminated) \in Nat /\ Len(file') = Len(Terminated) + Len(NewSection)
    BY <1>0, <1>2, TerminatedType DEF Grows
  <2>2. /\ Len(Terminated) + 1 \in 1 .. Len(file') - 1 /\ 1 \in 1 .. Len(NewSection)
        /\ 2 \in 1 .. Len(NewSection) /\ Len(Terminated) + 2 = (Len(Terminated) + 1) + 1
    BY ONLY <1>1, <2>1
  <2>3. /\ file'[Len(Terminated) + 1] = Section(target)
        /\ file'[(Len(Terminated) + 1) + 1].kind = "pair"
    BY <1>1, <1>2, <2>2 DEF Grows
  <2>4. target' = target
    BY DEF Appends, plug
  <2> QED
    BY <2>2, <2>3, <2>4 DEF Kept, Section, Line
<1>5. /\ appended' = [appended EXCEPT ![target] = @ + 1] /\ torn' = torn /\ torn \in Nat /\ Blind \in Nat
      /\ appended \in [Controller -> Nat] /\ target' = target
  BY Counts, CountsTorn DEF Appends, plug
<1>6. ASSUME NEW c \in Controller
      PROVE  appended'[c] <= torn' + Blind + (IF Kept(c)' THEN 1 ELSE 0)
  <2>1. CASE c = target
    <3>1. appended'[c] = appended[c] + 1 /\ appended[c] \in Nat /\ appended[c] <= torn + Blind /\ Kept(c)'
      BY <1>0, <1>3, <1>4, <1>5, <2>1
    <3> QED
      BY ONLY <1>5, <3>1
  <2>2. CASE c # target
    <3>1. appended'[c] = appended[c]
      BY <1>0, <1>5, <2>2
    <3> QED
      BY <1>3, <1>5, <3>1
  <2> QED
    BY <2>1, <2>2
<1> QED
  BY <1>6

LEMMA TearKept ==
  ASSUME TypeInv, CutInv, PassInv, KeptInv, Tear
  PROVE  KeptInv'
<1> SUFFICES ASSUME Whole'
             PROVE  \A c \in Controller :
                      appended'[c] <= torn' + Blind + (IF Kept(c)' THEN 1 ELSE 0)
  <2>1. pass' \notin {"own", "append"} /\ cut' = cut
    BY DEF Tear, AppendTears, Returns, ReadsOn, Reads, plug
  <2>2. Pending' = 0 /\ Blind' = Blind
    BY <2>1 DEF Pending, Blind
  <2>3. appended' \in [Controller -> Nat]
    BY StepTypes DEF TypeInv, Next, Load
  <2> QED
    BY <2>2, <2>3 DEF KeptInv
<1>1. PICK n, last, powerCut : TearsAt(n, last, powerCut)
  BY TearIsAt
<1>2. /\ target \in Controller /\ n \in Nat /\ n < Len(NewSection) /\ pass = "append"
      /\ file \in Seq(Lines) /\ rest \in Lines
  BY <1>1 DEF TypeInv, TearsAt, AppendTears
<1>3. SubSeq(NewSection, 1, n) \in Seq(Lines)
  BY <1>2, PartsTypes
<1>4. Grows(SubSeq(NewSection, 1, n))
  BY <1>1, <1>2, <1>3, FileGrows DEF TearsAt, AppendTears
<1>5. /\ appended[target] <= torn + Blind
      /\ \A c \in Controller : appended[c] <= torn + Blind + (IF Kept(c)' THEN 1 ELSE 0)
  BY <1>2, <1>3, <1>4, GrowsKept
<1>6. /\ appended' = [appended EXCEPT ![target] = @ + 1] /\ torn' = torn + 1 /\ torn \in Nat /\ Blind \in Nat
      /\ appended \in [Controller -> Nat]
  BY <1>1, Counts, CountsTorn DEF TearsAt, AppendTears
<1>7. ASSUME NEW c \in Controller
      PROVE  appended'[c] <= torn' + Blind + (IF Kept(c)' THEN 1 ELSE 0)
  <2>1. appended[c] \in Nat
    BY <1>6
  <2>2. CASE c = target
    <3>1. appended'[c] = appended[c] + 1 /\ appended[c] <= torn + Blind
      BY <1>2, <1>5, <1>6, <2>2
    <3> QED
      BY ONLY <1>6, <2>1, <3>1
  <2>3. CASE c # target
    <3>1. appended'[c] = appended[c] /\ appended[c] <= torn + Blind + (IF Kept(c)' THEN 1 ELSE 0)
      BY <1>2, <1>5, <1>6, <2>3
    <3> QED
      BY ONLY <1>6, <2>1, <3>1
  <2> QED
    BY <2>2, <2>3
<1> QED
  BY <1>7

LEMMA Balances ==
  ASSUME NEW a \in Nat, NEW t \in Nat, NEW k \in Nat, NEW b \in Nat, NEW p \in Nat,
         NEW bNext \in Nat, NEW pNext \in Nat,
         a + p <= t + b + k, b + pNext <= bNext + p
  PROVE  a + pNext <= t + bNext + k
  OBVIOUS

LEMMA StepKept ==
  ASSUME BaseInv, KeptInv, [Next]_vars
  PROVE  KeptInv'
<1>0. /\ \A c \in Controller : appended[c] \in Nat
      /\ torn \in Nat /\ Blind \in Nat /\ Pending \in {0, 1}
  BY Counts, CountsTorn DEF BaseInv, Pending
<1>1. ASSUME UNCHANGED <<file, appended, torn>>, Blind' \in Nat, Pending' \in Nat,
             Blind + Pending' <= Blind' + Pending
      PROVE  KeptInv'
  <2>1. \A c : Kept(c)' <=> Kept(c)
    BY <1>1 DEF Kept
  <2>2. Whole' => Whole
    BY <1>1 DEF Whole
  <2> SUFFICES ASSUME Whole, NEW c \in Controller
               PROVE  appended[c] + Pending' <= torn + Blind' + (IF Kept(c) THEN 1 ELSE 0)
    BY <1>1, <2>1, <2>2 DEF KeptInv
  <2>3. appended[c] + Pending <= torn + Blind + (IF Kept(c) THEN 1 ELSE 0)
    BY DEF KeptInv
  <2>4. (IF Kept(c) THEN 1 ELSE 0) \in Nat
    OBVIOUS
  <2>5. appended[c] \in Nat /\ torn \in Nat /\ Blind \in Nat /\ Pending \in Nat
    BY <1>0
  <2> QED
    BY ONLY <1>1, <2>3, <2>4, <2>5, Balances
<1>2. CASE Appends \/ Tear
  BY <1>2, AppendsKept, TearKept DEF BaseInv
<1>3. CASE Parser \/ UNCHANGED vars
  <2>1. UNCHANGED <<file, appended, torn, cut, pass, loads>>
    BY <1>3, ParserKeeps DEF vars, store, plug
  <2>2. Blind' = Blind /\ Pending' = Pending
    BY <2>1 DEF Blind, Pending, Cut
  <2> QED
    BY <1>0, <1>1, <2>1, <2>2
<1>4. CASE Discovers \/ PassEnds \/ OpenFails \/ \E c \in Controller : Plug(c)
  <2>1. UNCHANGED <<file, appended, torn, cut>>
    BY <1>4 DEF Discovers, PassEnds, OpenFails, Plug, store, plug
  <2>2. CASE pass' \notin {"own", "append"}
    BY <1>0, <1>1, <2>1, <2>2 DEF Blind, Pending
  <2>3. CASE pass' \in {"own", "append"}
    <3>1. PassEnds /\ pass \in {"default", "own"} /\ loads' = loads
      <4>1. PassEnds
        BY <1>4, <2>3 DEF Discovers, OpenFails, Plug, Returns, Reads
      <4>2. pass' = "own" => pass = "default"
        BY <4>1 DEF PassEnds, AtEnd, Reading, ToProfile, NeedsSection, ReadsOn, Reads, Returns
      <4>3. pass' = "append" => pass = "own"
        BY <4>1 DEF PassEnds, AtEnd, Reading, ToProfile, NeedsSection, ReadsOn, Reads, Returns
      <4> QED
        BY <2>3, <4>1, <4>2, <4>3 DEF PassEnds, plug
    <3>2. pass = "default" => ~Cut("own")
      BY DEF BaseInv, PassInv
    <3>3. Blind' = Blind /\ Pending' = Pending
      BY <2>1, <2>3, <3>1, <3>2 DEF Blind, Pending, Cut
    <3> QED
      BY <1>0, <1>1, <2>1, <3>3
  <2> QED
    BY <2>2, <2>3
<1>5. CASE ReadFails
  <2>1. UNCHANGED <<file, appended, torn>>
    BY <1>5 DEF ReadFails, store
  <2>2. Pending' \in Nat /\ Blind' \in Nat /\ Blind + Pending' <= Blind' + Pending
    BY <1>5, ReadFailsCounts DEF BaseInv
  <2> QED
    BY <1>0, <1>1, <2>1, <2>2
<1> QED
  BY <1>2, <1>3, <1>4, <1>5 DEF Next, Load, Unplugged

\* A controller's section is appended once, and once more for every append that did not reach
\* the card whole and for every search for it that a failing read ended, however the file was
\* written and whatever is read in between.
THEOREM SectionsAreAppendedOnce == Spec => []AppendedOnce
<1>1. Init => KeptInv
  <2>1. ASSUME Init
        PROVE  \A c \in Controller :
                 appended[c] + Pending <= torn + Blind + (IF Kept(c) THEN 1 ELSE 0)
    <3>1. torn = 0 /\ pass = "global" /\ \A c \in Controller : appended[c] = 0
      BY <2>1 DEF Init
    <3>2. Pending = 0 /\ Blind \in Nat
      BY <2>1, <3>1, InitTypes, InitCut, CountsTorn DEF Pending
    <3> QED
      BY <3>1, <3>2
  <2> QED
    BY <2>1 DEF KeptInv
<1>2. BaseInv /\ KeptInv /\ [Next]_vars => KeptInv'
  BY StepKept
<1>3. ASSUME BaseInv, KeptInv
      PROVE  AppendedOnce
  <2>1. /\ torn \in Nat /\ Blind \in Nat /\ Pending \in Nat /\ file \in Seq(Lines)
        /\ \A c \in Controller : appended[c] \in Nat
    BY <1>3, Counts, CountsTorn DEF BaseInv, TypeInv, Pending
  <2>2. ASSUME Whole, NEW c \in Controller
        PROVE  appended[c] <= 1 + torn + Blind
    <3>1. appended[c] + Pending <= torn + Blind + (IF Kept(c) THEN 1 ELSE 0)
      BY <1>3, <2>2 DEF KeptInv
    <3> QED
      BY <2>1, <3>1
  <2>3. DOMAIN file = 1 .. Len(file)
    BY <2>1, LenProperties
  <2> QED
    BY <2>2, <2>3 DEF AppendedOnce, Whole, Blind
<1> QED
  BY <1>1, <1>2, <1>3, Base, PTL DEF Spec

-----------------------------------------------------------------------------
(* What a load gives the keys.                                             *)

Last(S) == CHOOSE i \in S : \A j \in S : j <= i

\* The last line wins, of those above line n.
Below(lines, s, name, n) == {i \in Sayers(lines, s, name) : i < n}
OverrideBelow(lines, s, name, n, otherwise) ==
  IF Below(lines, s, name, n) = {} THEN otherwise ELSE Value(lines, Last(Below(lines, s, name, n)))

LEMMA OverrideStarts ==
  ASSUME NEW lines \in Seq(Lines), NEW s, NEW name, NEW otherwise
  PROVE  OverrideBelow(lines, s, name, 1, otherwise) = otherwise
<1>1. DOMAIN lines = 1 .. Len(lines) /\ Len(lines) \in Nat
  BY LenProperties
<1>2. \A i \in 1 .. Len(lines) : ~(i < 1)
  BY <1>1
<1>3. Below(lines, s, name, 1) = {}
  BY <1>1, <1>2 DEF Below, Sayers
<1> QED
  BY <1>3 DEF OverrideBelow

LEMMA OverrideGoesOn ==
  ASSUME NEW lines \in Seq(Lines), NEW n \in 1 .. Len(lines), NEW s, NEW name, NEW otherwise
  PROVE  OverrideBelow(lines, s, name, n + 1, otherwise)
           = IF Says(lines, s, n, name) THEN Value(lines, n) ELSE OverrideBelow(lines, s, name, n, otherwise)
<1>1. DOMAIN lines = 1 .. Len(lines) /\ Len(lines) \in Nat /\ n \in Nat
  BY LenProperties
<1>2. \A i \in 1 .. Len(lines) : i < n + 1 <=> i < n \/ i = n
  BY <1>1
<1>3. CASE Says(lines, s, n, name)
  <2>1. /\ n \in Below(lines, s, name, n + 1)
        /\ \A i \in Below(lines, s, name, n + 1) : i \in Nat /\ i <= n
    BY <1>1, <1>2, <1>3 DEF Below, Sayers
  <2>2. Last(Below(lines, s, name, n + 1)) \in Below(lines, s, name, n + 1)
        /\ n <= Last(Below(lines, s, name, n + 1))
    BY <2>1 DEF Last
  <2>3. Last(Below(lines, s, name, n + 1)) = n
    BY <1>1, <2>1, <2>2
  <2> QED
    BY <1>3, <2>1, <2>3 DEF OverrideBelow
<1>4. CASE ~Says(lines, s, n, name)
  <2>1. Below(lines, s, name, n + 1) = Below(lines, s, name, n)
    BY <1>1, <1>2, <1>4 DEF Below, Sayers
  <2> QED
    BY <1>4, <2>1 DEF OverrideBelow
<1> QED
  BY <1>3, <1>4

LEMMA OverrideEnds ==
  ASSUME NEW lines \in Seq(Lines), NEW n \in Nat, NEW s, NEW name, NEW otherwise,
         \A i \in 1 .. Len(lines) : i >= n => ~Says(lines, s, i, name)
  PROVE  Override(lines, s, name, otherwise) = OverrideBelow(lines, s, name, n, otherwise)
<1>1. DOMAIN lines = 1 .. Len(lines) /\ Len(lines) \in Nat
  BY LenProperties
<1>2. \A i \in 1 .. Len(lines) : i < n \/ i >= n
  BY <1>1
<1>3. Below(lines, s, name, n) = Sayers(lines, s, name)
  BY <1>1, <1>2 DEF Below, Sayers
<1> QED
  BY <1>3 DEF Override, OverrideBelow, Last

\* What another section gave in between does not matter where a section has its say.
LEMMA OverrideTwice ==
  ASSUME NEW lines, NEW s, NEW p, NEW name, NEW default
  PROVE  Override(lines, s, name, Override(lines, p, name, Override(lines, s, name, default)))
           = Override(lines, s, name, Override(lines, p, name, default))
BY DEF Override

\* The value of a key after each section that a load reads.
FromDefault(k) == Override(shown, "default", k, "")
FromOwn(k) == Override(file, target, k, FromDefault(k))
FromProfile(k) == Override(file, ProfileOf(target), k, FromOwn(k))

\* The value that a key has at the start of a pass.
Given(p, k) ==
  IF p = "default" THEN ""
  ELSE IF p \in {"own", "added"} THEN FromDefault(k)
  ELSE IF p = "profile" THEN FromOwn(k) ELSE FromProfile(k)

\* No read of this load has failed.
NoCut == \A k \in cut : k[1] # loads

RightNow == Loaded => \A key \in Key : config[key] = ValueOf(target, key)

Valued ==
  /\ pass \in Passes =>
       \A k \in Key : config[k] = OverrideBelow(file, wanted, k, line, Given(pass, k))
  /\ pass = "append" => \A k \in Key : config[k] = FromDefault(k)
  /\ pass = "profile" => wanted = ProfileOf(target)
  /\ pass = "again" => ProfileOf(target) # ""
  /\ RightNow

ValueInv == NoCut => Valued

LEMMA ValueOfIs ==
  /\ ProfileOf(target) = FromOwn("profile")
  /\ \A k : ValueOf(target, k) = IF ProfileOf(target) = "" THEN FromOwn(k)
                                 ELSE Override(file, target, k, FromProfile(k))
<1>1. ProfileOf(target) = FromOwn("profile")
  BY DEF ProfileOf, FromOwn, FromDefault
<1>2. ASSUME NEW k, ProfileOf(target) = ""
      PROVE  ValueOf(target, k) = FromOwn(k)
  BY <1>2 DEF ValueOf, FromOwn, FromDefault
<1>3. ASSUME NEW k, ProfileOf(target) # ""
      PROVE  ValueOf(target, k) = Override(file, target, k, FromProfile(k))
  <2>1. ValueOf(target, k) = Override(file, target, k, Override(file, ProfileOf(target), k, FromDefault(k)))
    BY <1>3 DEF ValueOf, FromDefault
  <2> QED
    BY <2>1, OverrideTwice DEF FromProfile, FromOwn
<1> QED
  BY <1>1, <1>2, <1>3

\* The same lines, controller and start of a load say the same.
LEMMA SameSayings ==
  ASSUME UNCHANGED <<file, shown, target>>
  PROVE  /\ \A k : FromDefault(k)' = FromDefault(k) /\ FromOwn(k)' = FromOwn(k)
         /\ \A k : FromProfile(k)' = FromProfile(k)
         /\ \A p, k : Given(p, k)' = Given(p, k)
         /\ ProfileOf(target)' = ProfileOf(target)
         /\ \A k : ValueOf(target, k)' = ValueOf(target, k)
BY DEF FromDefault, FromOwn, FromProfile, Given, ProfileOf, ValueOf

LEMMA ParserValues ==
  ASSUME BaseInv, NoCut, Valued, Parser
  PROVE  Valued'
<1>1. /\ Reading /\ line <= Len(file) /\ line' = line + 1
      /\ UNCHANGED <<file, shown, target, pass, wanted>>
  BY ParserKeeps
<1>2. pass \notin {"append", "idle"}
  BY <1>1 DEF Reading
<1>3. file \in Seq(Lines) /\ line \in 1 .. Len(file) /\ config \in [Key -> Text]
  <2>1. file \in Seq(Lines) /\ line \in 1 .. Len(file) + 1 /\ config \in [Key -> Text]
    BY DEF BaseInv, TypeInv
  <2>2. Len(file) \in Nat
    BY <2>1, LenProperties
  <2>3. line \in 1 .. Len(file)
    BY ONLY <1>1, <2>1, <2>2
  <2> QED
    BY <2>1, <2>3
<1>4. ASSUME pass \in Passes, NEW k \in Key
      PROVE  config'[k] = OverrideBelow(file, wanted, k, line + 1, Given(pass, k))
  <2>1. HandledRight
    BY <1>1, WantedIsNamed, ParserHandles DEF BaseInv, NoCut, Cut
  <2>2. config[k] = OverrideBelow(file, wanted, k, line, Given(pass, k))
    BY <1>4 DEF Valued
  <2>3. OverrideBelow(file, wanted, k, line + 1, Given(pass, k))
          = IF Says(file, wanted, line, k) THEN Value(file, line) ELSE config[k]
    BY <1>3, <2>2, OverrideGoesOn
  <2>4. CASE UNCHANGED <<loaded, global>> /\ \A name : ~Says(file, wanted, line, name)
    BY <2>3, <2>4 DEF loaded
  <2>5. ASSUME NEW key, NEW v, Sets(wanted, line, key, v), ToController(key, v)
        PROVE  config'[k] = OverrideBelow(file, wanted, k, line + 1, Given(pass, k))
    <3>1. Value(file, line) = v /\ (Says(file, wanted, line, k) <=> k = key)
      BY <2>5 DEF Sets
    <3>2. config'[k] = IF k = key THEN v ELSE config[k]
      BY <1>3, <2>5 DEF ToController
    <3> QED
      BY <2>3, <3>1, <3>2
  <2>6. pass # "global"
    BY <1>4 DEF Passes
  <2> QED
    BY <2>1, <2>4, <2>5, <2>6 DEF HandledRight
<1>5. /\ \A p, k : Given(p, k)' = Given(p, k)
      /\ ProfileOf(target)' = ProfileOf(target)
  BY <1>1, SameSayings
<1> QED
  BY <1>1, <1>2, <1>4, <1>5 DEF Valued, RightNow, Loaded

\* At the end of a pass its section has had its say.
LEMMA PassDone ==
  ASSUME BaseInv, Valued, AtEnd, pass # "global", NEW k \in Key
  PROVE  config[k] = Override(file, wanted, k, Given(pass, k))
<1>1. file \in Seq(Lines) /\ line \in Nat
  <2>1. file \in Seq(Lines) /\ line \in 1 .. Len(file) + 1
    BY DEF BaseInv, TypeInv
  <2>2. Len(file) \in Nat
    BY <2>1, LenProperties
  <2>3. line \in Nat
    BY ONLY <2>1, <2>2
  <2> QED
    BY <2>1, <2>3
<1>2. \A i \in 1 .. Len(file) : i >= line => ~Says(file, wanted, i, k)
  BY EndIsSilent DEF BaseInv, Silent
<1>3. pass \in Passes
  BY DEF AtEnd, Reading, Passes
<1>4. config[k] = OverrideBelow(file, wanted, k, line, Given(pass, k))
  BY <1>3 DEF Valued
<1>5. Override(file, wanted, k, Given(pass, k)) = OverrideBelow(file, wanted, k, line, Given(pass, k))
  BY <1>1, <1>2, OverrideEnds
<1> QED
  BY <1>4, <1>5

\* The next section is read, with the values as they are.
LEMMA NextSection ==
  ASSUME BaseInv, NEW p \in Passes, NEW s, ReadsOn(p, s), file' \in Seq(Lines),
         UNCHANGED <<shown, target, config>>,
         \A k \in Key : config[k] = Given(p, k)',
         p = "profile" => s = ProfileOf(target)',
         p = "again" => ProfileOf(target)' # ""
  PROVE  Valued'
<1>1. pass' = p /\ wanted' = s /\ line' = 1
  BY DEF ReadsOn, Reads, StartsParser
<1>2. ASSUME NEW k \in Key
      PROVE  config'[k] = OverrideBelow(file', s, k, 1, Given(p, k)')
  <2>1. \A lines \in Seq(Lines) : \A v : OverrideBelow(lines, s, k, 1, v) = v
    BY OverrideStarts
  <2>2. OverrideBelow(file', s, k, 1, Given(p, k)') = Given(p, k)'
    BY <2>1
  <2>3. config'[k] = Given(p, k)'
    OBVIOUS
  <2> QED
    BY <2>2, <2>3
<1>3. p \notin {"append", "idle"}
  BY DEF Passes
<1> QED
  BY <1>1, <1>2, <1>3 DEF Valued, RightNow, Loaded

LEMMA PassEndsValues ==
  ASSUME BaseInv, NoCut, Valued, PassEnds
  PROVE  Valued'
<1>1. /\ AtEnd /\ pass # "global" /\ pass \in Passes
      /\ UNCHANGED <<file, shown, target, config, loads>>
  BY DEF PassEnds, AtEnd, Reading, Passes, store, plug, loaded
<1>2. file' \in Seq(Lines)
  BY <1>1 DEF BaseInv, TypeInv
<1>3. \A k \in Key : config[k] = Override(file, wanted, k, Given(pass, k))
  BY <1>1, PassDone
<1>4. /\ \A k : FromDefault(k)' = FromDefault(k)
      /\ \A p, k : Given(p, k)' = Given(p, k)
      /\ ProfileOf(target)' = ProfileOf(target)
      /\ \A k : ValueOf(target, k)' = ValueOf(target, k)
  BY <1>1, SameSayings
<1>5. /\ pass = "default" => wanted = "default" /\ file = shown
      /\ pass \in {"own", "added", "again"} => wanted = target
  BY DEF BaseInv, PassInv
<1>6. CASE error # 0 /\ Returns(error)
  BY <1>6 DEF Returns, Valued, RightNow, Loaded, Passes
<1>7. CASE pass = "default" /\ ReadsOn("own", target)
  <2>1. \A k \in Key : config[k] = Given("own", k)'
    BY <1>3, <1>4, <1>5, <1>7 DEF Given, FromDefault
  <2> QED
    BY <1>1, <1>2, <1>7, <2>1, NextSection DEF Passes
<1>8. CASE NeedsSection /\ pass' = "append"
  <2>1. pass = "own" /\ wanted = target
    BY <1>5, <1>8 DEF NeedsSection
  <2>2. \A i \in 1 .. Len(file) : Silent(target, i)
    <3>1. PassInv' /\ target' = target /\ file' = file /\ ~Cut("own")'
      BY <1>1, PassEndsPasses DEF BaseInv, PassEnds, plug, NoCut, Cut
    <3> QED
      BY <1>8, <3>1 DEF PassInv, Silent
  <2>3. ASSUME NEW k \in Key
        PROVE  config[k] = FromDefault(k)
    <3>1. config[k] = Override(file, target, k, FromDefault(k))
      BY <1>3, <2>1 DEF Given
    <3>2. DOMAIN file = 1 .. Len(file)
      BY <1>1, <1>2, LenProperties
    <3>3. Sayers(file, target, k) = {}
      BY <2>2, <3>2 DEF Sayers, Silent
    <3> QED
      BY <3>1, <3>3 DEF Override
  <2> QED
    BY <1>1, <1>4, <1>8, <2>3 DEF Valued, RightNow, Loaded, Passes
<1>9. CASE pass \in {"own", "added"} /\ ToProfile
  <2>1. \A k \in Key : config[k] = FromOwn(k)
    BY <1>3, <1>5, <1>9 DEF Given, FromOwn
  <2>2. config["profile"] = ProfileOf(target)
    BY <2>1, ValueOfIs DEF Key
  <2>3. CASE config["profile"] # "" /\ ReadsOn("profile", config["profile"])
    <3>1. \A k \in Key : config[k] = Given("profile", k)'
      BY <1>4, <2>1 DEF Given
    <3> QED
      BY <1>1, <1>2, <1>4, <2>2, <2>3, <3>1, NextSection DEF Passes
  <2>4. CASE config["profile"] = "" /\ Returns(0)
    <3>1. \A k \in Key : config[k] = ValueOf(target, k)
      BY <2>1, <2>2, <2>4, ValueOfIs
    <3> QED
      BY <1>1, <1>4, <2>4, <3>1 DEF Valued, RightNow, Loaded, Passes, Returns
  <2> QED
    BY <1>9, <2>3, <2>4 DEF ToProfile
<1>10. CASE pass = "profile" /\ ReadsOn("again", target)
  <2>1. wanted = ProfileOf(target) /\ wanted # ""
    BY <1>10 DEF BaseInv, PassInv, Valued
  <2>2. \A k \in Key : config[k] = FromProfile(k)
    BY <1>3, <1>10, <2>1 DEF Given, FromProfile
  <2>3. \A k \in Key : config[k] = Given("again", k)'
    BY <1>4, <2>2 DEF Given
  <2> QED
    BY <1>1, <1>2, <1>4, <1>10, <2>1, <2>3, NextSection DEF Passes
<1>11. CASE pass = "again" /\ Returns(0)
  <2>1. ProfileOf(target) # "" /\ wanted = target
    BY <1>5, <1>11 DEF Valued
  <2>2. \A k \in Key : config[k] = Override(file, target, k, FromProfile(k))
    BY <1>3, <1>11, <2>1 DEF Given
  <2>3. \A k \in Key : config[k] = ValueOf(target, k)
    BY <2>1, <2>2, ValueOfIs
  <2> QED
    BY <1>1, <1>4, <1>11, <2>3 DEF Valued, RightNow, Loaded, Passes, Returns
<1> QED
  BY <1>6, <1>7, <1>8, <1>9, <1>10, <1>11 DEF PassEnds

\* The section that was appended is read next; the file before it says what it did.
LEMMA AppendingValues ==
  ASSUME BaseInv, Valued, pass = "append", file' \in Seq(Lines),
         UNCHANGED <<loaded, plug>>, ReadsOn("added", target)
  PROVE  Valued'
<1>1. UNCHANGED <<shown, target, config>>
  BY DEF loaded, plug
<1>2. \A k \in Key : config[k] = FromDefault(k)
  BY DEF Valued
<1>3. \A k \in Key : config[k] = Given("added", k)'
  BY <1>1, <1>2 DEF Given, FromDefault
<1> QED
  BY <1>1, <1>3, NextSection DEF Passes

LEMMA StepValues ==
  ASSUME BaseInv, ValueInv, [Next]_vars
  PROVE  ValueInv'
<1> SUFFICES ASSUME NoCut' PROVE Valued'
  BY DEF ValueInv
<1>0. TypeInv' /\ file' \in Seq(Lines)
  BY StepTypes DEF BaseInv, TypeInv
<1>1. CASE Parser
  <2>1. NoCut /\ Valued
    BY <1>1, ParserKeeps DEF ValueInv, NoCut
  <2> QED
    BY <1>1, <2>1, ParserValues
<1>2. CASE PassEnds
  <2>1. NoCut /\ Valued
    BY <1>2 DEF PassEnds, plug, ValueInv, NoCut
  <2> QED
    BY <1>2, <2>1, PassEndsValues
<1>3. CASE Appends
  <2>1. NoCut /\ Valued
    BY <1>3 DEF Appends, plug, ValueInv, NoCut
  <2> QED
    BY <1>0, <1>3, <2>1, AppendingValues DEF Appends
<1>4. CASE Returns(-1)
  <2>1. pass' = "idle" /\ rc' = -1
    BY <1>4 DEF Returns
  <2>2. ~Loaded' /\ pass' \notin Passes \cup {"append"}
    BY <2>1 DEF Loaded, Passes
  <2> QED
    BY <2>2 DEF Valued, RightNow, Passes
<1>5. CASE Tear
  <2>1. NoCut /\ Valued
    BY <1>5 DEF Tear, AppendTears, plug, ValueInv, NoCut
  <2> QED
    BY <1>0, <1>4, <1>5, <2>1, AppendingValues DEF Tear, AppendTears
<1>6. CASE OpenFails
  BY <1>4, <1>6 DEF OpenFails
<1>7. CASE Discovers
  <2>1. loads' = 0 /\ pass' = "idle"
    BY <1>7 DEF Discovers, plug, BaseInv, PassInv
  <2>2. ~Loaded' /\ pass' \notin Passes \cup {"append"}
    BY <2>1 DEF Loaded, Passes
  <2> QED
    BY <2>2 DEF Valued, RightNow, Passes
<1>8. CASE \E c \in Controller : Plug(c)
  <2>1. pass' = "default" /\ wanted' = "default" /\ line' = 1 /\ config' = Empty
    BY <1>8 DEF Plug, Reads, StartsParser
  <2>2. ASSUME NEW k \in Key
        PROVE  config'[k] = OverrideBelow(file', "default", k, 1, Given("default", k)')
    <3>1. config'[k] = "" /\ Given("default", k)' = ""
      BY <2>1 DEF Empty, Given
    <3>2. \A lines \in Seq(Lines) : \A s, v : OverrideBelow(lines, s, k, 1, v) = v
      BY OverrideStarts
    <3> QED
      BY <1>0, <3>1, <3>2, Zenon
  <2> QED
    BY <2>1, <2>2 DEF Valued, RightNow, Loaded
<1>9. CASE UNCHANGED vars
  <2>0. NoCut /\ Valued
    BY <1>9 DEF vars, plug, ValueInv, NoCut
  <2>1. UNCHANGED <<file, shown, target, config, wanted, line, pass, loads, rc>>
    BY <1>9 DEF vars, store, parser, loaded, plug
  <2>2. /\ \A k : FromDefault(k)' = FromDefault(k)
        /\ \A p, k : Given(p, k)' = Given(p, k)
        /\ ProfileOf(target)' = ProfileOf(target)
        /\ \A k : ValueOf(target, k)' = ValueOf(target, k)
    BY <2>1, SameSayings
  <2> QED
    BY <2>0, <2>1, <2>2 DEF Valued, RightNow, Loaded
\* A read that fails is one of this load.
<1>10. CASE ReadFails
  <2>1. <<loads, pass>> \in cut' /\ loads' = loads
    BY <1>10 DEF ReadFails
  <2>2. <<loads, pass>>[1] # loads'
    BY <2>1 DEF NoCut
  <2> QED
    BY <2>1, <2>2
<1> QED
  BY <1>1, <1>2, <1>3, <1>5, <1>6, <1>7, <1>8, <1>9, <1>10 DEF Next, Load, Unplugged

\* A load that reports success, and none of whose reads failed, has given every key what the
\* file says: the controller's section before its profile before [default], whatever the passes
\* appended or read twice, and whatever reads of other loads failed.
THEOREM KeysAreLoadedRight == Spec => []LoadedRight
<1>1. Init => ValueInv
  <2>1. Init => pass = "global" /\ loads = 0
    BY DEF Init
  <2> QED
    BY <2>1 DEF ValueInv, Valued, RightNow, Loaded, Passes
<1>2. BaseInv /\ ValueInv /\ [Next]_vars => ValueInv'
  BY StepValues
<1>3. ValueInv => LoadedRight
  BY DEF ValueInv, NoCut, Valued, RightNow, LoadedRight
<1> QED
  BY <1>1, <1>2, <1>3, Base, PTL DEF Spec

-----------------------------------------------------------------------------
(* The controllers that the file lists are watched in the order it lists   *)
(* them, in one comma list or in several.                                  *)

Lists(i) == i \in Sayers(boot, "global", "discovery_vidpid")
At(i) == Tokens(Value(boot, i))
Listing == Listed(boot)
Above(n) == {l \in Listing : l[1] < n}
Place(l) == Cardinality(UpTo(boot, l))

ListedInv ==
  /\ pass = "global" /\ ~Cut("global") =>
       /\ IsFiniteSet(Above(line)) /\ Len(global.listed) = Cardinality(Above(line))
       /\ \A l \in Above(line) :
            /\ Place(l) \in 1 .. Len(global.listed)
            /\ global.listed[Place(l)] = At(l[1])[l[2]]
  /\ FirstListedAreWatched

\* What is listed, by line and place in it.
LEMMA ListingIs ==
  ASSUME TypeInv
  PROVE  /\ \A l \in Listing : l = <<l[1], l[2]>>
         /\ \A i, k : <<i, k>> \in Listing <=> Lists(i) /\ k \in 1 .. Len(At(i))
         /\ \A i : Lists(i) => i \in 1 .. Len(boot) /\ i \in Nat /\ At(i) \in Seq(Text) /\ Len(At(i)) \in Nat
<1>1. DOMAIN boot = 1 .. Len(boot) /\ Len(boot) \in Nat
  BY LenProperties DEF TypeInv
<1>2. ASSUME NEW i, Lists(i)
      PROVE  i \in 1 .. Len(boot) /\ i \in Nat /\ At(i) \in Seq(Text) /\ Len(At(i)) \in Nat
                /\ DOMAIN At(i) = 1 .. Len(At(i))
  <2>1. i \in 1 .. Len(boot)
    BY <1>1, <1>2 DEF Lists, Sayers
  <2>2. Value(boot, i) \in Text
    BY <2>1, LineTypes, OwnText, ElementOfSeq DEF TypeInv, Value
  <2>3. At(i) \in Seq(Text)
    BY <2>2, TokenTypes DEF At
  <2> QED
    BY <1>1, <2>1, <2>3, LenProperties
<1>3. Listing = UNION {{i} \X DOMAIN At(i) : i \in {n \in DOMAIN boot : Lists(n)}}
  <2>1. {n \in DOMAIN boot : Lists(n)} = Sayers(boot, "global", "discovery_vidpid")
    BY DEF Lists, Sayers
  <2> QED
    BY <2>1 DEF Listing, Listed, At
<1>4. \A l : l \in Listing <=> \E i \in DOMAIN boot : Lists(i) /\ l \in {i} \X DOMAIN At(i)
  BY <1>3
<1>5. ASSUME NEW i, NEW k
      PROVE  <<i, k>> \in Listing <=> Lists(i) /\ k \in 1 .. Len(At(i))
  <2>1. <<i, k>> \in Listing <=> i \in DOMAIN boot /\ Lists(i) /\ k \in DOMAIN At(i)
    BY <1>4
  <2>2. Lists(i) => i \in DOMAIN boot
    BY <1>1, <1>2
  <2> QED
    BY <1>2, <2>1, <2>2
<1>6. \A l \in Listing : l = <<l[1], l[2]>>
  BY <1>4
<1> QED
  BY <1>2, <1>5, <1>6

\* A row of a line adds its entries to what the lines above it hold.
LEMMA Rows ==
  ASSUME NEW S, IsFiniteSet(S), NEW n, NEW k \in Nat, \A l \in S : l[1] # n
  PROVE  /\ IsFiniteSet(S \cup ({n} \X (1 .. k)))
         /\ Cardinality(S \cup ({n} \X (1 .. k))) = Cardinality(S) + k
<1> DEFINE T == {n} \X (1 .. k)
<1>1. IsFiniteSet(1 .. k) /\ Cardinality(1 .. k) = k
  BY FS_Interval
<1>2. IsFiniteSet({n}) /\ Cardinality({n}) = 1
  BY FS_Singleton
<1>3. IsFiniteSet(T) /\ Cardinality(T) = k
  BY <1>1, <1>2, FS_Product
<1>4. S \cap T = {}
  OBVIOUS
<1> HIDE DEF T
<1>5. /\ IsFiniteSet(S \cup T)
      /\ Cardinality(S \cup T) = Cardinality(S) + Cardinality(T) - Cardinality(S \cap T)
  BY <1>3, FS_Union
<1>6. Cardinality(S \cap T) = 0 /\ Cardinality(S) \in Nat
  BY <1>4, FS_EmptySet, FS_CardinalityType
<1>7. Cardinality(S \cup T) = Cardinality(S) + k
  BY <1>3, <1>5, <1>6
<1> QED
  BY <1>5, <1>7 DEF T

\* What is listed up to a line, and up to an entry of it.
LEMMA AboveNext ==
  ASSUME TypeInv, NEW n \in Nat
  PROVE  /\ ~Lists(n) => Above(n + 1) = Above(n)
         /\ Lists(n) => Above(n + 1) = Above(n) \cup ({n} \X (1 .. Len(At(n))))
         /\ Lists(n) => \A k \in 1 .. Len(At(n)) :
                          UpTo(boot, <<n, k>>) = Above(n) \cup ({n} \X (1 .. k))
         /\ \A l \in Above(n) : l[1] # n
<1>1. ASSUME NEW l \in Listing
      PROVE  /\ l = <<l[1], l[2]>> /\ Lists(l[1]) /\ l[1] \in Nat
             /\ l[2] \in 1 .. Len(At(l[1])) /\ l[2] \in Nat
  <2>1. l = <<l[1], l[2]>>
    BY ListingIs
  <2>2. Lists(l[1]) /\ l[2] \in 1 .. Len(At(l[1]))
    BY <2>1, ListingIs
  <2>3. l[1] \in Nat /\ Len(At(l[1])) \in Nat
    BY <2>2, ListingIs
  <2> QED
    BY <2>1, <2>2, <2>3
<1>2. /\ \A i \in Nat : i < n + 1 <=> i < n \/ i = n
      /\ ~(n < n)
  BY ONLY n \in Nat
<1>3. \A k : <<n, k>> \in Listing <=> Lists(n) /\ k \in 1 .. Len(At(n))
  BY ListingIs
<1>4. \A l \in Above(n) : l[1] # n
  BY <1>2 DEF Above
<1>5. \A l : l \in Above(n + 1) <=> l \in Above(n) \/ (l \in Listing /\ l[1] = n)
  BY <1>1, <1>2 DEF Above
<1>6. \A l : l \in Listing /\ l[1] = n <=> \E k : l = <<n, k>> /\ <<n, k>> \in Listing
  BY <1>1
<1>7. ~Lists(n) => Above(n + 1) = Above(n)
  BY <1>3, <1>5, <1>6
<1>8. ASSUME Lists(n)
      PROVE  Above(n + 1) = Above(n) \cup ({n} \X (1 .. Len(At(n))))
  <2>1. \A l : l \in {n} \X (1 .. Len(At(n))) <=> \E k : l = <<n, k>> /\ k \in 1 .. Len(At(n))
    OBVIOUS
  <2>2. \A l : l \in Listing /\ l[1] = n <=> l \in {n} \X (1 .. Len(At(n)))
    BY <1>3, <1>6, <1>8, <2>1
  <2> QED
    BY <1>5, <2>2
<1>9. ASSUME Lists(n), NEW k \in 1 .. Len(At(n))
      PROVE  UpTo(boot, <<n, k>>) = Above(n) \cup ({n} \X (1 .. k))
  <2>0. Len(At(n)) \in Nat
    BY <1>9, ListingIs
  <2>1. \A l : l \in UpTo(boot, <<n, k>>) <=> l \in Above(n) \/ (l \in Listing /\ l[1] = n /\ l[2] <= k)
    BY DEF UpTo, Above, Listing
  <2>2. \A j : j \in 1 .. k <=> j \in 1 .. Len(At(n)) /\ j <= k
    BY <2>0
  <2>3. \A l : l \in {n} \X (1 .. k) <=> \E j : l = <<n, j>> /\ j \in 1 .. k
    OBVIOUS
  <2>4. \A j : <<n, j>> \in Listing /\ j <= k <=> j \in 1 .. k
    BY <1>3, <1>9, <2>2
  <2>5. \A l : l \in Listing /\ l[1] = n /\ l[2] <= k <=> \E j : l = <<n, j>> /\ j \in 1 .. k
    <3>1. ASSUME NEW l, l \in Listing, l[1] = n, l[2] <= k
          PROVE  l = <<n, l[2]>> /\ l[2] \in 1 .. k
      BY <1>1, <2>4, <3>1
    <3>2. ASSUME NEW j \in 1 .. k
          PROVE  <<n, j>> \in Listing /\ <<n, j>>[1] = n /\ <<n, j>>[2] <= k
      BY <2>4, <3>2
    <3> QED
      BY <3>1, <3>2, Zenon
  <2> QED
    BY <2>1, <2>3, <2>5
<1> QED
  BY <1>4, <1>7, <1>8, <1>9

LEMMA InitListed == Init => ListedInv
<1> SUFFICES ASSUME Init PROVE ListedInv
  OBVIOUS
<1>1. line = 1 /\ pass = "global" /\ global.listed = <<>>
  BY DEF Init
<1>2. Above(1) = {}
  <2>1. TypeInv /\ Len(boot) \in Nat
    BY InitTypes, LenProperties DEF TypeInv
  <2>2. \A i \in 1 .. Len(boot) : ~(i < 1)
    BY <2>1
  <2>3. ASSUME NEW l \in Listing
        PROVE  ~(l[1] < 1)
    <3>1. l = <<l[1], l[2]>>
      BY <2>1, ListingIs
    <3>2. Lists(l[1])
      BY <2>1, <3>1, ListingIs
    <3> QED
      BY <2>1, <2>2, <3>2, ListingIs
  <2> QED
    BY <2>3 DEF Above
<1>3. Len(global.listed) = 0 /\ Cardinality({}) = 0 /\ IsFiniteSet({})
  BY <1>1, FS_EmptySet
<1> QED
  BY <1>1, <1>2, <1>3 DEF ListedInv, FirstListedAreWatched

\* A line that lists controllers adds them behind those of the lines above it.
LEMMA RowListed ==
  ASSUME TypeInv, NEW n \in Nat, Lists(n), IsFiniteSet(Above(n)),
         NEW listed \in Seq(Text), Len(listed) = Cardinality(Above(n)),
         \A l \in Above(n) : Place(l) \in 1 .. Len(listed) /\ listed[Place(l)] = At(l[1])[l[2]],
         NEW more, more = listed \o At(n)
  PROVE  /\ IsFiniteSet(Above(n + 1)) /\ Len(more) = Cardinality(Above(n + 1))
         /\ \A l \in Above(n + 1) : Place(l) \in 1 .. Len(more) /\ more[Place(l)] = At(l[1])[l[2]]
<1>1. At(n) \in Seq(Text) /\ Len(At(n)) \in Nat /\ Len(listed) \in Nat
  BY ListingIs, LenProperties
<1>2. /\ Len(more) = Len(listed) + Len(At(n))
      /\ \A i \in 1 .. Len(listed) + Len(At(n)) :
           more[i] = IF i <= Len(listed) THEN listed[i] ELSE At(n)[i - Len(listed)]
  BY <1>1, ConcatProperties
<1>3. /\ Above(n + 1) = Above(n) \cup ({n} \X (1 .. Len(At(n))))
      /\ \A l \in Above(n) : l[1] # n
      /\ \A k \in 1 .. Len(At(n)) : UpTo(boot, <<n, k>>) = Above(n) \cup ({n} \X (1 .. k))
  BY AboveNext
<1>4. \A k \in Nat : /\ IsFiniteSet(Above(n) \cup ({n} \X (1 .. k)))
                     /\ Cardinality(Above(n) \cup ({n} \X (1 .. k))) = Cardinality(Above(n)) + k
  <2> DEFINE S == Above(n)
  <2>1. IsFiniteSet(S) /\ \A l \in S : l[1] # n
    BY <1>3
  <2> HIDE DEF S
  <2>2. \A k \in Nat : /\ IsFiniteSet(S \cup ({n} \X (1 .. k)))
                       /\ Cardinality(S \cup ({n} \X (1 .. k))) = Cardinality(S) + k
    BY ONLY <2>1, Rows
  <2> QED
    BY ONLY <2>2 DEF S
<1>5. ASSUME NEW l \in Above(n)
      PROVE  Place(l) \in 1 .. Len(more) /\ more[Place(l)] = At(l[1])[l[2]]
  <2>1. Place(l) \in 1 .. Len(listed) /\ listed[Place(l)] = At(l[1])[l[2]]
    OBVIOUS
  <2>2. Place(l) \in 1 .. Len(listed) + Len(At(n)) /\ Place(l) <= Len(listed)
    BY ONLY <1>1, <2>1
  <2> QED
    BY <1>2, <2>1, <2>2
<1>6. ASSUME NEW k \in 1 .. Len(At(n))
      PROVE  /\ Place(<<n, k>>) \in 1 .. Len(more)
             /\ more[Place(<<n, k>>)] = At(n)[k]
  <2>1. k \in Nat
    BY ONLY <1>1, k \in 1 .. Len(At(n))
  <2>2. Place(<<n, k>>) = Len(listed) + k
    BY <1>3, <1>4, <2>1 DEF Place
  <2>3. /\ Len(listed) + k \in 1 .. Len(listed) + Len(At(n)) /\ ~(Len(listed) + k <= Len(listed))
        /\ (Len(listed) + k) - Len(listed) = k
    BY ONLY <1>1, k \in 1 .. Len(At(n))
  <2> QED
    BY <1>2, <2>2, <2>3
<1>7. ASSUME NEW l \in {n} \X (1 .. Len(At(n)))
      PROVE  Place(l) \in 1 .. Len(more) /\ more[Place(l)] = At(l[1])[l[2]]
  <2>1. l = <<n, l[2]>> /\ l[2] \in 1 .. Len(At(n)) /\ l[1] = n
    OBVIOUS
  <2> QED
    BY <1>6, <2>1
<1>8. IsFiniteSet(Above(n + 1)) /\ Len(more) = Cardinality(Above(n + 1))
  BY <1>1, <1>2, <1>3, <1>4
<1>9. \A l \in Above(n + 1) : l \in Above(n) \/ l \in {n} \X (1 .. Len(At(n)))
  BY <1>3, Zenon
<1> QED
  BY <1>5, <1>7, <1>8, <1>9, Zenon

LEMMA ParserListed ==
  ASSUME BaseInv, ListedInv, Parser
  PROVE  ListedInv'
<1>1. /\ Reading /\ line <= Len(file) /\ line' = line + 1
      /\ UNCHANGED <<file, boot, pass, wanted, filters, loads, cut>>
  BY ParserKeeps
<1>2. CASE pass # "global"
  <2>1. global' = global
    BY <1>2, ParserFills DEF BaseInv
  <2> QED
    BY <1>1, <1>2, <2>1 DEF ListedInv, FirstListedAreWatched
<1>3. CASE pass = "global" /\ Cut("global")
  BY <1>1, <1>3 DEF ListedInv, FirstListedAreWatched, Cut
<1>4. CASE pass = "global" /\ ~Cut("global")
  <2>1. wanted = "global" /\ file = boot /\ HandledRight
    BY <1>1, <1>4, WantedIsNamed, ParserHandles DEF BaseInv, PassInv
  <2>2. TypeInv /\ line \in Nat /\ line \in DOMAIN file /\ global.listed \in Seq(Text)
    <3>1. TypeInv /\ line \in 1 .. Len(file) + 1 /\ file \in Seq(Lines) /\ global.listed \in Seq(Text)
      BY DEF BaseInv, TypeInv
    <3>2. Len(file) \in Nat /\ DOMAIN file = 1 .. Len(file)
      BY <3>1, LenProperties
    <3>3. line \in Nat /\ line \in 1 .. Len(file)
      BY ONLY <1>1, <3>1, <3>2
    <3> QED
      BY <3>1, <3>2, <3>3
  <2>3. /\ IsFiniteSet(Above(line)) /\ Len(global.listed) = Cardinality(Above(line))
        /\ \A l \in Above(line) :
             Place(l) \in 1 .. Len(global.listed) /\ global.listed[Place(l)] = At(l[1])[l[2]]
    BY <1>4 DEF ListedInv
  <2>4. Lists(line) <=> Says(file, "global", line, "discovery_vidpid")
    BY <2>1, <2>2 DEF Lists, Sayers
  <2>5. \/ ~Lists(line) /\ global.listed' = global.listed
        \/ Lists(line) /\ global.listed' = global.listed \o At(line)
    <3>1. CASE UNCHANGED <<loaded, global>> /\ \A name : ~Says(file, wanted, line, name)
      BY <2>1, <2>4, <3>1
    <3>2. ASSUME NEW key, NEW v, Sets(wanted, line, key, v), Globally(key, v)
          PROVE  \/ ~Lists(line) /\ global.listed' = global.listed
                 \/ Lists(line) /\ global.listed' = global.listed \o At(line)
      <4>1. (Says(file, wanted, line, "discovery_vidpid") <=> key = "discovery_vidpid")
            /\ Value(file, line) = v
        BY <3>2 DEF Sets
      <4>2. global.listed' = IF key = "discovery_vidpid" THEN global.listed \o Tokens(v) ELSE global.listed
        BY <3>2 DEF Globally
      <4> QED
        BY <2>1, <2>4, <4>1, <4>2 DEF At
    <3> QED
      BY <1>4, <2>1, <3>1, <3>2 DEF HandledRight
  <2>6. /\ IsFiniteSet(Above(line + 1)) /\ Len(global.listed') = Cardinality(Above(line + 1))
        /\ \A l \in Above(line + 1) :
             Place(l) \in 1 .. Len(global.listed') /\ global.listed'[Place(l)] = At(l[1])[l[2]]
    <3>1. CASE ~Lists(line) /\ global.listed' = global.listed
      <4>1. Above(line + 1) = Above(line)
        BY <2>2, <3>1, AboveNext
      <4> QED
        BY <2>3, <3>1, <4>1
    <3>2. CASE Lists(line) /\ global.listed' = global.listed \o At(line)
      BY <2>2, <2>3, <3>2, RowListed
    <3> QED
      BY <2>5, <3>1, <3>2
  <2>7. /\ \A l : Place(l)' = Place(l) /\ At(l[1])' = At(l[1])
        /\ Above(line)' = Above(line + 1)
    BY <1>1 DEF Place, At, Above, Listing
  <2> QED
    BY <1>1, <1>4, <2>6, <2>7 DEF ListedInv, FirstListedAreWatched
<1> QED
  BY <1>2, <1>3, <1>4

\* The Xbox filter comes before the controllers that are listed, the HID filter excludes them.
LEMMA FiltersAre ==
  ASSUME TypeInv, global.mode \in {"1", "2"}
  PROVE  LET k == IF global.mode = "1" THEN 1 ELSE 0 IN
         /\ Len(Filters) = k + Len(global.listed)
         /\ \A i \in 1 .. Len(global.listed) : Filters[k + i] = global.listed[i]
<1> DEFINE xbox == <<"xbox">>
<1>1. /\ global.listed \in Seq(Text) /\ Len(global.listed) \in Nat
      /\ xbox \in Seq(Text) /\ Len(xbox) = 1 /\ <<>> \in Seq(Text)
  <2>1. global.listed \in Seq(Text) /\ <<>> \in Seq(Text)
    BY EmptySeq DEF TypeInv
  <2>2. Len(global.listed) \in Nat
    BY <2>1, LenProperties
  <2>3. "xbox" \in Text
    BY OwnText
  <2>4. \A str \in Text : <<str>> \in Seq(Text) /\ Len(<<str>>) = 1
    OBVIOUS
  <2> QED
    BY <2>1, <2>2, <2>3, <2>4
<1>2. CASE global.mode = "1"
  <2>1. Filters = xbox \o <<>> \o global.listed
    BY <1>2 DEF Filters
  <2> HIDE DEF xbox
  <2>2. Filters = xbox \o global.listed
    BY <1>1, <2>1, ConcatEmptySeq
  <2>3. /\ Len(Filters) = 1 + Len(global.listed)
        /\ \A i \in 1 .. 1 + Len(global.listed) :
             Filters[i] = IF i <= 1 THEN xbox[i] ELSE global.listed[i - 1]
    <3>1. /\ Len(Filters) = Len(xbox) + Len(global.listed)
          /\ \A i \in 1 .. Len(xbox) + Len(global.listed) :
               Filters[i] = IF i <= Len(xbox) THEN xbox[i] ELSE global.listed[i - Len(xbox)]
      BY <1>1, <2>2, ConcatProperties
    <3>2. Len(xbox) = 1
      BY <1>1
    <3> QED
      BY ONLY <3>1, <3>2
  <2>4. ASSUME NEW i \in 1 .. Len(global.listed)
        PROVE  Filters[1 + i] = global.listed[i]
    <3>1. 1 + i \in 1 .. 1 + Len(global.listed) /\ ~(1 + i <= 1) /\ (1 + i) - 1 = i
      BY ONLY <1>1, i \in 1 .. Len(global.listed)
    <3> QED
      BY <2>3, <3>1
  <2> QED
    BY <1>2, <2>3, <2>4
<1>3. CASE global.mode = "2"
  <2>1. Filters = <<>> \o <<>> \o global.listed
    BY <1>3 DEF Filters
  <2>2. Filters = global.listed
    BY <1>1, <2>1, ConcatEmptySeq
  <2>3. Len(Filters) = 0 + Len(global.listed) /\ \A i \in 1 .. Len(global.listed) : 0 + i = i
    BY <1>1, <2>2
  <2> QED
    BY <1>3, <2>2, <2>3
<1> QED
  BY <1>2, <1>3

LEMMA DiscoversListed ==
  ASSUME BaseInv, ListedInv, Discovers, MaxEvents >= 3
  PROVE  ListedInv'
<1>1. /\ TypeInv /\ pass = "global" /\ AtEnd /\ file = boot /\ pass' = "idle"
      /\ UNCHANGED <<boot, global>>
  BY DEF BaseInv, PassInv, Discovers, store
<1> DEFINE n == IF Len(Filters) < MaxEvents THEN Len(Filters) ELSE MaxEvents
<1>2. Filters \in Seq(Text) /\ Len(Filters) \in Nat /\ MaxEvents \in Nat /\ MaxEvents >= 3
  BY <1>1, FilterTypes, Bounds
<1>3. n \in 0 .. Len(Filters) /\ (n = Len(Filters) \/ n >= 3)
  BY ONLY <1>2
<1>4. filters' = SubSeq(Filters, 1, n)
  BY DEF Discovers
<1> HIDE DEF n
<1>5. Len(filters') = n /\ DOMAIN filters' = 1 .. n /\ \A j \in 1 .. n : filters'[j] = Filters[j]
  BY <1>2, <1>3, <1>4
<1>6. ASSUME ~Cut("global"), global.mode \in {"1", "2"}, NEW l \in Listing,
             Place(l) <= (IF global.mode = "1" THEN 2 ELSE 3)
      PROVE  \E j \in DOMAIN filters' : filters'[j] = At(l[1])[l[2]]
  <2> DEFINE place == Place(l)
             k == IF global.mode = "1" THEN 1 ELSE 0
  <2>1. l \in Above(line)
    <3>1. l = <<l[1], l[2]>> /\ Lists(l[1])
      BY <1>1, ListingIs, Zenon
    <3>2. l[1] \in 1 .. Len(file) /\ l[1] \in Nat /\ Len(file) \in Nat /\ line \in 1 .. Len(file) + 1
      BY <1>1, <3>1, ListingIs, LenProperties DEF TypeInv
    <3>3. Says(file, "global", l[1], "discovery_vidpid")
      BY <1>1, <3>1 DEF Lists, Sayers
    <3>4. ~(l[1] >= line)
      BY <1>1, <3>2, <3>3, EndIsSilent DEF Silent
    <3>5. l[1] < line
      BY ONLY <3>2, <3>4
    <3> QED
      BY <3>5 DEF Above
  <2>2. place \in 1 .. Len(global.listed) /\ global.listed[place] = At(l[1])[l[2]]
    BY <1>1, <1>6, <2>1 DEF ListedInv
  <2>3. Len(global.listed) \in Nat
    BY <1>1, LenProperties DEF TypeInv
  <2>4. k + place <= 3 /\ k \in {0, 1}
    <3>1. place \in Nat
      BY <2>2, <2>3
    <3> HIDE DEF place
    <3>2. CASE global.mode = "1"
      <4>1. place <= 2
        BY <1>6, <3>2 DEF place
      <4> QED
        BY <3>1, <3>2, <4>1
    <3>3. CASE global.mode = "2"
      <4>1. place <= 3
        BY <1>6, <3>3 DEF place
      <4> QED
        BY <3>1, <3>3, <4>1
    <3> QED
      BY <1>6, <3>2, <3>3
  <2>5. /\ Len(Filters) = k + Len(global.listed)
        /\ Filters[k + place] = global.listed[place]
    BY <1>1, <1>6, <2>2, FiltersAre
  <2> HIDE DEF place, k
  <2>6. k + place \in 1 .. n
    BY ONLY <1>2, <1>3, <2>2, <2>3, <2>4, <2>5
  <2> QED
    BY <1>5, <2>2, <2>5, <2>6
<1>7. FirstListedAreWatched'
  <2>1. /\ boot' = boot /\ global' = global /\ cut' = cut /\ loads = 0
        /\ Listed(boot) = Listing
    BY <1>1 DEF Listing, Discovers, plug, BaseInv, PassInv
  <2>2. Cut("global") <=> <<0, "global">> \in cut
    BY <2>1 DEF Cut
  <2> QED
    BY <1>6, <2>1, <2>2 DEF FirstListedAreWatched, Place, At
<1> QED
  BY <1>1, <1>7 DEF ListedInv

LEMMA StepListed ==
  ASSUME BaseInv, ListedInv, [Next]_vars, MaxEvents >= 3
  PROVE  ListedInv'
<1>1. CASE Parser
  BY <1>1, ParserListed
<1>2. CASE Discovers
  BY <1>2, DiscoversListed
<1>3. CASE /\ UNCHANGED <<boot, global, filters>> /\ cut \subseteq cut'
           /\ pass # "global" /\ pass' # "global"
  BY <1>3 DEF ListedInv, FirstListedAreWatched
<1>4. CASE UNCHANGED vars
  BY <1>4 DEF vars, store, parser, plug, ListedInv, FirstListedAreWatched, Cut, Above, Place, At, Listing
<1>5. CASE PassEnds
  <2>1. UNCHANGED <<boot, global, filters, cut>> /\ pass # "global" /\ AtEnd
    BY <1>5 DEF PassEnds, store, plug
  <2>2. pass' # "global"
    BY <1>5, PassEndsGoesOn DEF BaseInv, Passes, ReadsOn, Reads, Returns
  <2> QED
    BY <1>3, <2>1, <2>2
<1>6. CASE OpenFails \/ Appends \/ Tear
  BY <1>3, <1>6 DEF OpenFails, Appends, Tear, AppendTears, Returns, ReadsOn, Reads, store,
                     plug
<1>7. CASE \E c \in Controller : Plug(c)
  BY <1>3, <1>7 DEF Plug, Reads, store
\* When a read of the global pass fails, the property says nothing more.
<1>8. CASE ReadFails
  <2>1. UNCHANGED <<boot, global, filters, pass, loads>> /\ cut' = cut \cup {<<loads, pass>>}
    BY <1>8 DEF ReadFails, store
  <2>2. pass = "global" => Cut("global")'
    BY <2>1 DEF Cut
  <2> QED
    BY <1>3, <2>1, <2>2 DEF ListedInv, FirstListedAreWatched
<1> QED
  BY <1>1, <1>2, <1>4, <1>5, <1>6, <1>7, <1>8 DEF Next, Load, Unplugged

\* Behind the Xbox filter the first two controllers that the file listed at the start are
\* watched, without it the first three: the events of usb:hs go to the filters in the order of
\* the lines and of the comma lists on them, whatever the other lines of the file are, unless a
\* read of the file failed at the start.
THEOREM TheFirstListedAreWatched ==
  ASSUME MaxEvents >= 3
  PROVE  Spec => []FirstListedAreWatched
<1>1. BaseInv /\ ListedInv /\ [Next]_vars => ListedInv'
  BY StepListed
<1>2. ListedInv => FirstListedAreWatched
  BY DEF ListedInv
<1> QED
  BY <1>1, <1>2, InitListed, Base, PTL DEF Spec
=============================================================================
