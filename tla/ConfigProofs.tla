---------------------------- MODULE ConfigProofs ----------------------------
(***************************************************************************)
(* Proofs about Config, for every set of options, lines and commands.      *)
(***************************************************************************)
EXTENDS Config, TLAPS, SequenceTheorems, FiniteSetTheorems, WellFoundedInduction

-----------------------------------------------------------------------------
(* Types                                                                   *)

\* The feeds a file or the command line can define.
Texts == {l.text : l \in {x \in Lines : x.kind = "pair"}}
FeedSet == [FeedKeys -> Texts] \cup {o.feed : o \in {x \in Options : x.opt = "feed"}}

Configs ==
  [values : [Fields -> Int \cup Levels], feeds : Seq(FeedSet), help_requested : BOOLEAN]

\* A configuration whose ints fit, and all of whose feeds are valid.
Sound(c) ==
  /\ c \in Configs
  /\ \A f \in IntFields : c.values[f] \in Ints
  /\ \A f \in Durations : c.values[f] \in Int
  /\ \A i \in DOMAIN c.feeds : ValidFeed(c.feeds[i])

TypePending == DOMAIN pending \subseteq FeedKeys /\ pending \in [DOMAIN pending -> Texts]

TypeFlags == reading \in BOOLEAN /\ in_feed \in BOOLEAN

TypeScan ==
  /\ argv \in Seq(Options) /\ Len(argv) <= MaxOptions
  /\ pass \in {1, 2} /\ at \in 1 .. Len(argv) + 1 /\ TypeFlags /\ lines \in Seq(Lines)
  /\ status \in {"starting", "running", "help", "usage"}

\* What has been done when: a file is read in the first pass, main goes on after
\* the second, commands come after that.
StageInv ==
  /\ reading => pass = 1 /\ status = "starting" /\ at <= Len(argv)
  /\ status # "starting" => pass = 2 /\ at = Len(argv) + 1
  /\ status # "running" => DOMAIN typed = {}
  /\ DOMAIN typed \subseteq {"heartbeat_interval", "heartbeat_timeout"}

TypeInv == Sound(config) /\ TypePending /\ TypeScan /\ StageInv

\* The narrowing cast yields an int, and leaves an int alone.
LEMMA Narrow ==
  ASSUME NEW v \in Int
  PROVE  AsInt(v) \in Ints /\ (v \in Ints => AsInt(v) = v)
<1> DEFINE h == IntRange \div 2
<1>1. h \in Nat /\ 2 * h = IntRange
  BY ConfigAssumption
<1>2. (v + h) % IntRange \in 0 .. IntRange - 1
  BY <1>1, ConfigAssumption
<1> DEFINE r == (v + h) % IntRange
<1>3. AsInt(v) = r - h
  BY DEF AsInt
<1> HIDE DEF h, r
<1>4. r - h \in -h .. h - 1
  BY <1>1, <1>2, ConfigAssumption DEF r
<1>5. ASSUME v \in -h .. h - 1 PROVE r - h = v
  <2>1. v + h \in 0 .. IntRange - 1
    BY <1>1, <1>5, ConfigAssumption
  <2>2. r = v + h
    BY <2>1, ConfigAssumption DEF r
  <2> QED BY <1>1, <2>2
<1> QED BY <1>3, <1>4, <1>5 DEF h, Ints

\* The three groups of fields are apart.
LEMMA Groups ==
  /\ IntFields \subseteq Fields /\ Durations \subseteq Fields /\ Switches \subseteq Fields
  /\ "log_level" \in Fields
  /\ IntFields \cap Durations = {} /\ IntFields \cap Switches = {} /\ Durations \cap Switches = {}
  /\ "log_level" \notin IntFields \cup Durations \cup Switches
  BY DEF IntFields, Durations, Switches, Fields

\* A new Config: the defaults fit an int.
LEMMA NewSound == Sound(NewConfig)
<1>1. Default \in [Fields -> Int \cup Levels]
  BY ConfigAssumption DEF Default, Fields, IntFields, Durations, Switches
<1>2. NewConfig \in Configs
  BY <1>1 DEF NewConfig, Configs
<1>3. IntRange \div 2 \in Nat /\ IntRange \div 2 > 256
  BY ConfigAssumption
<1>4. Default.max_missed_heartbeats = 3 /\ Default.epoll_max_events = 256
      /\ Default.max_reconnect_attempts = -1
  BY DEF Default
<1>5. \A f \in IntFields : Default[f] \in Ints
  BY <1>3, <1>4 DEF IntFields, Ints
<1>6. \A f \in Durations : Default[f] \in Int
  BY DEF Durations, Default
<1> QED BY <1>2, <1>5, <1>6 DEF Sound, NewConfig

\* What is stored for an acceptable text.
Stored(f, text) == IF f \in IntFields THEN AsInt(text) ELSE text

LEMMA StoredType ==
  ASSUME NEW f, NEW text, Accepts(f, text)
  PROVE  /\ f \in Fields /\ Stored(f, text) \in Int \cup Levels
         /\ f \in IntFields => Stored(f, text) \in Ints
         /\ f \in Durations => Stored(f, text) \in Int
<1>1. CASE f \in IntFields
  <2>1. text \in Int
    BY <1>1, Groups DEF Accepts
  <2>2. Stored(f, text) \in Ints
    BY <1>1, <2>1, Narrow DEF Stored
  <2>3. \A x \in Ints : x \in Int
    BY ConfigAssumption DEF Ints
  <2> QED BY <1>1, <2>2, <2>3, Groups
<1>2. CASE f \notin IntFields
  BY <1>2, Groups DEF Accepts, Stored, Fields
<1> QED BY <1>1, <1>2

\* One key or flag: one field has the value stored, or nothing changes.
LEMMA ApplyEffect ==
  ASSUME NEW c, c \in Configs, NEW field, NEW text
  PROVE  /\ ApplyValue(c, field, text).feeds = c.feeds
         /\ ApplyValue(c, field, text).help_requested = c.help_requested
         /\ \A f \in Fields : ApplyValue(c, field, text).values[f]
              = IF f = field /\ Accepts(field, text) THEN Stored(field, text) ELSE c.values[f]
         /\ ApplyValue(c, field, text) \in Configs
<1>1. CASE Accepts(field, text)
  <2>1. field \in Fields /\ Stored(field, text) \in Int \cup Levels
    BY <1>1, StoredType
  <2>2. ApplyValue(c, field, text) = [c EXCEPT !.values[field] = Stored(field, text)]
    BY <1>1 DEF ApplyValue, Stored
  <2> QED BY <1>1, <2>1, <2>2 DEF Configs
<1>2. CASE ~Accepts(field, text)
  BY <1>2 DEF ApplyValue
<1> QED BY <1>1, <1>2

LEMMA ApplySound ==
  ASSUME NEW c, Sound(c), NEW field, NEW text
  PROVE  Sound(ApplyValue(c, field, text))
<1> DEFINE d == ApplyValue(c, field, text)
<1>1. /\ d \in Configs /\ d.feeds = c.feeds
      /\ \A f \in Fields : d.values[f]
              = IF f = field /\ Accepts(field, text) THEN Stored(field, text) ELSE c.values[f]
  BY ApplyEffect DEF Sound
<1> HIDE DEF d
<1>2. \A f \in IntFields : d.values[f] \in Ints
  BY <1>1, StoredType, Groups DEF Sound
<1>3. \A f \in Durations : d.values[f] \in Int
  BY <1>1, StoredType, Groups DEF Sound
<1>4. \A i \in DOMAIN d.feeds : ValidFeed(d.feeds[i])
  BY <1>1 DEF Sound
<1>5. Sound(d)
  BY <1>1, <1>2, <1>3, <1>4 DEF Sound
<1> QED BY <1>5 DEF d

\* validate_and_add_feed adds a valid feed or nothing.
LEMMA AddSound ==
  ASSUME NEW c, Sound(c), NEW feed, ValidFeed(feed) => feed \in FeedSet
  PROVE  /\ Sound(AddFeed(c, feed)) /\ AddFeed(c, feed).values = c.values
         /\ AddFeed(c, feed).help_requested = c.help_requested
<1>1. CASE ValidFeed(feed) /\ \A i \in DOMAIN c.feeds : c.feeds[i]["id"] # feed["id"]
  <2>1. AddFeed(c, feed) = [c EXCEPT !.feeds = Append(c.feeds, feed)]
    BY <1>1 DEF AddFeed
  <2>2. c \in Configs /\ c.feeds \in Seq(FeedSet) /\ feed \in FeedSet
    BY <1>1 DEF Sound, Configs
  <2>3. /\ Append(c.feeds, feed) \in Seq(FeedSet) /\ Len(Append(c.feeds, feed)) = Len(c.feeds) + 1
        /\ \A i \in 1 .. Len(c.feeds) + 1 :
             Append(c.feeds, feed)[i] = IF i <= Len(c.feeds) THEN c.feeds[i] ELSE feed
    BY <2>2, AppendProperties
  <2>4. /\ AddFeed(c, feed) \in Configs /\ AddFeed(c, feed).values = c.values
        /\ AddFeed(c, feed).feeds = Append(c.feeds, feed)
        /\ AddFeed(c, feed).help_requested = c.help_requested
    BY <2>1, <2>2, <2>3 DEF Configs
  <2>5. \A i \in DOMAIN Append(c.feeds, feed) : ValidFeed(Append(c.feeds, feed)[i])
    <3>1. \A i \in DOMAIN c.feeds : ValidFeed(c.feeds[i])
      BY DEF Sound
    <3> HIDE DEF ValidFeed
    <3> QED BY <1>1, <2>2, <2>3, <3>1
  <2> HIDE DEF AddFeed
  <2> QED BY <2>4, <2>5 DEF Sound
<1>2. CASE ~(ValidFeed(feed) /\ \A i \in DOMAIN c.feeds : c.feeds[i]["id"] # feed["id"])
  BY <1>2 DEF AddFeed
<1> QED BY <1>1, <1>2

\* The pending feed can be added.
LEMMA PendingAdds == ASSUME TypePending PROVE ValidFeed(pending) => pending \in FeedSet
  BY DEF TypePending, ValidFeed, FeedSet

\* The commit at a section or at the end of the file.
LEMMA CommitSound ==
  ASSUME TypeInv
  PROVE  /\ Sound(CommitPendingFeed(config)) /\ CommitPendingFeed(config).values = config.values
         /\ CommitPendingFeed(config).help_requested = config.help_requested
  BY AddSound, PendingAdds DEF TypeInv, CommitPendingFeed

\* One option of the second loop.
LEMMA OverriddenSound ==
  ASSUME NEW c, Sound(c), NEW option \in Options PROVE Sound(Overridden(c, option))
<1>1. CASE option.opt = "set"
  BY <1>1, ApplySound DEF Overridden
<1>2. CASE option.opt = "feed"
  BY <1>2, AddSound DEF Overridden, FeedSet
<1>3. CASE option.opt = "help"
  <2>1. Overridden(c, option) = [c EXCEPT !.help_requested = TRUE]
    BY <1>3 DEF Overridden
  <2> QED BY <2>1 DEF Sound, Configs
<1>4. CASE option.opt \notin {"set", "feed", "help"}
  BY <1>4 DEF Overridden
<1> QED BY <1>1, <1>2, <1>3, <1>4

\* The program starts with no file read and no option seen.
LEMMA TypeInit == Init => TypeInv
<1> SUFFICES ASSUME Init PROVE TypeInv
  OBVIOUS
<1>1. PICK n \in 0 .. MaxOptions : argv \in [1 .. n -> Options]
  BY DEF Init
<1>2. argv \in Seq(Options) /\ Len(argv) = n /\ n \in Nat /\ n <= MaxOptions
  BY <1>1, ConfigAssumption
<1>3. TypeScan /\ StageInv /\ TypePending
  <2>1. TypeScan
    <3>1. TypeFlags
      BY Zenon DEF Init, TypeFlags
    <3> QED BY <1>2, <3>1 DEF Init, TypeScan
  <2>2. StageInv
    BY DEF Init, StageInv
  <2>3. TypePending
    BY DEF Init, TypePending, NoFeed
  <2> QED BY <2>1, <2>2, <2>3
<1>4. Sound(config)
  BY NewSound DEF Init
<1> QED BY <1>3, <1>4 DEF TypeInv

\* Every step keeps the types and goes from one stage to the next.
LEMMA TypeStep == TypeInv /\ [Next]_vars => TypeInv'
<1> SUFFICES ASSUME TypeInv, [Next]_vars PROVE TypeInv'
  OBVIOUS
<1>a. /\ Sound(config) /\ TypePending /\ TypeScan /\ StageInv
      /\ argv \in Seq(Options) /\ Len(argv) \in Nat /\ at \in Nat
  BY LenProperties DEF TypeInv, TypeScan
<1>1. CASE ScanOption
  <2>1. TypeScan' /\ StageInv' /\ UNCHANGED <<config, pending>>
    BY <1>a, <1>1 DEF ScanOption, Scanning, parser, TypeScan, TypeFlags, StageInv
  <2> QED BY <1>a, <2>1 DEF TypeInv, Sound, TypePending
<1>2. CASE OpenFile
  <2>1. TypeScan' /\ StageInv' /\ config' = NewConfig /\ pending' = NoFeed
    <3>1. TypeScan'
      <4>1. TypeFlags'
        BY <1>a, <1>2, Zenon DEF OpenFile, TypeScan, TypeFlags
      <4> QED BY <1>a, <1>2, <4>1 DEF OpenFile, TypeScan
    <3>2. StageInv'
      BY <1>a, <1>2 DEF OpenFile, LoadsFile, StageInv
    <3> QED BY <1>2, <3>1, <3>2 DEF OpenFile
  <2>2. Sound(config')
    BY <2>1, NewSound
  <2>3. Sound(config)' /\ TypePending'
    BY <2>1, <2>2 DEF Sound, TypePending, NoFeed
  <2> QED BY <2>1, <2>3 DEF TypeInv
<1>3. CASE EndOfFile
  <2>1. TypeScan' /\ StageInv' /\ pending' = pending /\ config' = CommitPendingFeed(config)
    <3>1. TypeScan'
      <4>1. TypeFlags'
        BY <1>a, <1>3, Zenon DEF EndOfFile, TypeScan, TypeFlags
      <4> QED BY <1>a, <1>3, <4>1 DEF EndOfFile, TypeScan, StageInv
    <3>2. StageInv'
      BY <1>a, <1>3 DEF EndOfFile, StageInv
    <3> QED BY <1>3, <3>1, <3>2 DEF EndOfFile, CommitAtEnd
  <2>2. Sound(config')
    BY <2>1, CommitSound
  <2> QED BY <1>a, <2>1, <2>2 DEF TypeInv, Sound, TypePending
<1>4. ASSUME NEW line \in Lines, ReadLine(line) PROVE TypeInv'
  <2>1. lines' \in Seq(Lines)
    BY <1>a, <1>4, AppendProperties DEF ReadLine, TypeScan
  <2>2. StageInv' /\ UNCHANGED <<argv, pass, at, reading, status>>
    BY <1>a, <1>4 DEF ReadLine, StageInv
  <2>3. CASE line.kind = "section" /\ ReadSection
    <3>1. Sound(config')
      BY <2>3, CommitSound DEF ReadSection
    <3>2. in_feed' \in BOOLEAN /\ TypePending'
      BY <2>3 DEF ReadSection, TypePending, NoFeed
    <3> QED BY <1>a, <2>1, <2>2, <3>1, <3>2 DEF TypeInv, Sound, TypeScan, TypeFlags
  <2>4. CASE line.kind = "pair" /\ ReadPair(line.key, line.text)
    <3>1. Sound(config')
      BY <1>a, <2>4, ApplySound DEF ReadPair
    <3>2. in_feed' \in BOOLEAN
      BY <1>a, <2>4 DEF ReadPair, TypeScan, TypeFlags
    <3>3. line.text \in Texts
      BY <2>4 DEF Texts
    <3>4. TypePending'
      BY <1>a, <2>4, <3>3 DEF ReadPair, TypePending, With
    <3> QED BY <1>a, <2>1, <2>2, <3>1, <3>2, <3>4 DEF TypeInv, Sound, TypeScan, TypeFlags
  <2>5. CASE line.kind = "other" /\ UNCHANGED <<config, in_feed, pending>>
    BY <1>a, <2>1, <2>2, <2>5 DEF TypeInv, Sound, TypeScan, TypeFlags, TypePending
  <2> QED BY <1>4, <2>3, <2>4, <2>5 DEF ReadLine
<1>5. CASE SecondPass
  <2>1. TypeScan' /\ StageInv' /\ UNCHANGED <<config, pending>>
    BY <1>a, <1>5 DEF SecondPass, Scanning, parser, TypeScan, TypeFlags, StageInv
  <2> QED BY <1>a, <2>1 DEF TypeInv, Sound, TypePending
<1>6. CASE ApplyOption
  <2>1. TypeScan' /\ StageInv' /\ pending' = pending /\ config' = Overridden(config, argv[at])
    BY <1>a, <1>6 DEF ApplyOption, Scanning, parser, TypeScan, TypeFlags, StageInv
  <2>2. argv[at] \in Options
    BY <1>a, <1>6 DEF ApplyOption, TypeScan
  <2>3. Sound(Overridden(config, argv[at]))
    BY <1>a, <2>2, OverriddenSound
  <2> QED BY <1>a, <2>1, <2>3 DEF TypeInv, Sound, TypePending
<1>7. CASE Start
  <2>1. TypeScan' /\ StageInv' /\ UNCHANGED <<config, pending>>
    BY <1>a, <1>7 DEF Start, Scanning, parser, TypeScan, TypeFlags, StageInv
  <2> QED BY <1>a, <2>1 DEF TypeInv, Sound, TypePending
<1>8. ASSUME NEW f \in {"heartbeat_interval", "heartbeat_timeout"}, NEW t \in Typed,
             SetByCommand(f, t)
      PROVE  TypeInv'
  <2>1. TypeScan' /\ StageInv' /\ UNCHANGED pending
    BY <1>a, <1>8 DEF SetByCommand, parser, TypeScan, TypeFlags, StageInv, With
  <2>2. /\ config' = [config EXCEPT !.values[f] = t] /\ t \in Int
        /\ f \in Durations /\ f \in Fields /\ f \notin IntFields
    BY <1>8 DEF SetByCommand, Durations, IntFields, Fields
  <2>3. Sound(config')
    BY <1>a, <2>2, Groups DEF Sound, Configs
  <2> QED BY <1>a, <2>1, <2>3 DEF TypeInv, Sound, TypePending
<1>9. CASE UNCHANGED vars
  BY <1>a, <1>9 DEF vars, TypeInv, Sound, TypePending, TypeScan, TypeFlags, StageInv
<1> QED BY <1>1, <1>2, <1>3, <1>4, <1>5, <1>6, <1>7, <1>8, <1>9 DEF Next

\* Every variable keeps its type, and the counts fit an int whatever is read.
THEOREM ConfigTypeCorrect == Spec => []TypeOK
<1>1. TypeInv => TypeOK
  <2> SUFFICES ASSUME TypeInv PROVE TypeOK
    OBVIOUS
  <2>1. at \in 1 .. MaxOptions + 1
    BY ConfigAssumption, LenProperties DEF TypeInv, TypeScan
  <2>2. DOMAIN config.values = Fields
    BY DEF TypeInv, Sound, Configs
  <2> QED BY <2>1, <2>2 DEF TypeInv, Sound, TypePending, TypeScan, TypeFlags, TypeOK, ValidFeed
<1> QED BY <1>1, TypeInit, TypeStep, PTL DEF Spec

-----------------------------------------------------------------------------
(* Precedence                                                              *)

\* The value a file gives a field, and what the flags before the n-th make of it.
FileValue(f) ==
  IF Globals(f) = {} THEN Default[f] ELSE Stored(f, lines[Largest(Globals(f))].text)

FlagsTo(f, n) == {i \in Flags(f) : i < n}

FlagValue(f, n) ==
  IF FlagsTo(f, n) = {} THEN FileValue(f) ELSE Stored(f, argv[Largest(FlagsTo(f, n))].text)

\* What has been read decides each field: in the first pass the lines of the file
\* read last, in the second the flags before the current one as well.
ValueInv ==
  /\ in_feed <=> Sections # {}
  /\ pass = 1 => \A f \in Fields : config.values[f] = FileValue(f)
  /\ pass = 2 => \A f \in Fields : config.values[f] =
                   IF f \in DOMAIN typed THEN typed[f] ELSE FlagValue(f, at)

\* A set of natural numbers that is not empty has a least member.
LEMMA LeastNat ==
  ASSUME NEW S, S \subseteq Nat, S # {}
  PROVE  \E m \in S : \A k \in S : m <= k
<1>1. PICK m \in S : \A k \in S : ~(<<k, m>> \in OpToRel(<, Nat))
  BY WFMin, NatLessThanWellFounded
<1>2. ASSUME NEW k \in S PROVE m <= k
  <2>1. m \in Nat /\ k \in Nat
    OBVIOUS
  <2>2. k < m => <<k, m>> \in OpToRel(<, Nat)
    BY <2>1 DEF OpToRel
  <2>3. ~(k < m)
    BY <1>1, <2>2
  <2> QED BY <2>1, <2>3
<1> QED BY <1>2

\* A set of positions that is not empty has a largest member.
LEMMA HasLargest ==
  ASSUME NEW n \in Nat, NEW S \in SUBSET (1 .. n), S # {}
  PROVE  \E m \in S : \A j \in S : j <= m
<1> DEFINE T == {n - i : i \in S}
<1>1. T \subseteq Nat /\ T # {}
  <2>1. \A i \in S : n - i \in Nat
    OBVIOUS
  <2>2. T # {}
    BY Zenon
  <2> QED BY <2>1, <2>2
<1>2. PICK t \in T : \A u \in T : t <= u
  BY <1>1, LeastNat
<1>3. PICK m \in S : t = n - m
  BY <1>2
<1>4. \A j \in S : n - m <= n - j
  BY <1>2, <1>3
<1> QED BY <1>4

\* Largest finds the largest.
LEMMA LargestIs ==
  ASSUME NEW S \in SUBSET Int, NEW m \in S, \A j \in S : j <= m PROVE Largest(S) = m
<1>1. Largest(S) \in S /\ \A j \in S : j <= Largest(S)
  BY DEF Largest
<1>2. Largest(S) \in Int /\ m \in Int /\ m <= Largest(S) /\ Largest(S) <= m
  BY <1>1
<1> QED BY <1>2

\* A line that is no acceptable value of f before the first section leaves the
\* file's value of f alone; one that is becomes the file's value.
LEMMA FileStep ==
  ASSUME lines \in Seq(Lines), NEW line \in Lines, lines' = Append(lines, line), NEW f,
         in_feed \in BOOLEAN, in_feed <=> Sections # {}
  PROVE  /\ FileValue(f)' = IF /\ ~in_feed /\ line.kind = "pair" /\ line.key = f
                               /\ Accepts(f, line.text)
                            THEN Stored(f, line.text) ELSE FileValue(f)
         /\ Sections' # {} <=> in_feed \/ line.kind = "section"
<1> DEFINE n == Len(lines)
<1>1. /\ n \in Nat /\ DOMAIN lines = 1 .. n /\ DOMAIN lines' = 1 .. n + 1
      /\ lines'[n + 1] = line /\ \A i \in 1 .. n : lines'[i] = lines[i]
  BY AppendProperties, LenProperties
<1> HIDE DEF n
<1>2. Sections' = Sections \cup (IF line.kind = "section" THEN {n + 1} ELSE {})
  BY <1>1 DEF Sections
<1>3. Sections \subseteq 1 .. n /\ Globals(f) \subseteq 1 .. n
  BY <1>1 DEF Sections, Globals
<1>4. CASE /\ ~in_feed /\ line.kind = "pair" /\ line.key = f /\ Accepts(f, line.text)
  <2>1. Sections' = {}
    BY <1>2, <1>4
  <2>2. n + 1 \in Globals(f)' /\ Globals(f)' \subseteq 1 .. n + 1
    BY <1>1, <1>4, <2>1 DEF Globals
  <2>3. Largest(Globals(f)') = n + 1
    BY <1>1, <2>2, LargestIs
  <2>4. FileValue(f)' = Stored(f, line.text)
    BY <1>1, <2>2, <2>3 DEF FileValue, Stored
  <2> QED BY <1>2, <1>4, <2>4
<1>5. CASE ~(/\ ~in_feed /\ line.kind = "pair" /\ line.key = f /\ Accepts(f, line.text))
  <2>1. Globals(f)' = Globals(f)
    <3>1. \A i \in 1 .. n : (\A j \in Sections' : i < j) <=> \A j \in Sections : i < j
      BY <1>1, <1>2, <1>3
    <3>2. n + 1 \notin Globals(f)'
      <4>1. SUFFICES ASSUME n + 1 \in Globals(f)' PROVE FALSE
        OBVIOUS
      <4>2. line.kind = "pair" /\ line.key = f /\ Accepts(f, line.text)
            /\ \A j \in Sections' : n + 1 < j
        BY <1>1, <4>1 DEF Globals, Accepts
      <4>3. Sections # {}
        BY <1>5, <4>2
      <4>4. PICK j : j \in Sections
        BY <4>3
      <4>5. n + 1 < j /\ j \in 1 .. n
        BY <1>2, <1>3, <4>2, <4>4
      <4> QED BY <1>1, <4>5
    <3>3. \A i \in 1 .. n : i \in Globals(f)' <=> i \in Globals(f)
      BY <1>1, <3>1 DEF Globals, Accepts
    <3>4. Globals(f)' \subseteq 1 .. n + 1
      BY <1>1 DEF Globals
    <3> QED BY <1>1, <1>3, <3>2, <3>3, <3>4
  <2>2. Globals(f) # {} => Largest(Globals(f)) \in 1 .. n
    <3>1. Globals(f) # {} => \E m \in Globals(f) : \A j \in Globals(f) : j <= m
      BY <1>1, <1>3, HasLargest
    <3> QED BY <1>3, <3>1 DEF Largest
  <2>3. FileValue(f)' = FileValue(f)
    BY <1>1, <2>1, <2>2 DEF FileValue, Stored
  <2> QED BY <1>2, <1>5, <2>3
<1> QED BY <1>4, <1>5

\* A flag that is no acceptable value of f leaves the value of f alone.
LEMMA FlagStep ==
  ASSUME argv \in Seq(Options), at \in 1 .. Len(argv), NEW f
  PROVE  FlagValue(f, at + 1) = IF /\ argv[at].opt = "set" /\ argv[at].field = f
                                   /\ Accepts(f, argv[at].text)
                                THEN Stored(f, argv[at].text) ELSE FlagValue(f, at)
<1>1. Len(argv) \in Nat /\ DOMAIN argv = 1 .. Len(argv) /\ at \in Nat
  BY LenProperties
<1>2. Flags(f) \subseteq 1 .. Len(argv)
  BY <1>1 DEF Flags
<1>3. CASE at \in Flags(f)
  <2>1. at \in FlagsTo(f, at + 1) /\ \A j \in FlagsTo(f, at + 1) : j \in Int /\ j <= at
    BY <1>1, <1>2, <1>3 DEF FlagsTo
  <2>2. Largest(FlagsTo(f, at + 1)) = at
    BY <1>1, <2>1, LargestIs
  <2> QED BY <1>3, <2>1, <2>2 DEF FlagValue, Flags
<1>4. CASE at \notin Flags(f)
  <2>1. FlagsTo(f, at + 1) = FlagsTo(f, at)
    BY <1>1, <1>2, <1>4 DEF FlagsTo
  <2> QED BY <1>1, <1>4, <2>1 DEF FlagValue, Flags
<1> QED BY <1>3, <1>4

\* Which fields one option sets.
LEMMA OverriddenValue ==
  ASSUME NEW c, Sound(c), NEW option \in Options, NEW f \in Fields
  PROVE  Overridden(c, option).values[f] =
           IF option.opt = "set" /\ option.field = f /\ Accepts(f, option.text)
           THEN Stored(f, option.text) ELSE c.values[f]
<1>1. CASE option.opt = "set"
  <2>1. Overridden(c, option) = ApplyValue(c, option.field, option.text)
    BY <1>1 DEF Overridden
  <2>2. ApplyValue(c, option.field, option.text).values[f]
          = IF f = option.field /\ Accepts(option.field, option.text)
            THEN Stored(option.field, option.text) ELSE c.values[f]
    BY ApplyEffect DEF Sound
  <2> QED BY <1>1, <2>1, <2>2
<1>2. CASE option.opt = "feed"
  <2>1. option.feed \in FeedSet
    BY <1>2 DEF FeedSet
  <2> QED BY <1>2, <2>1, AddSound DEF Overridden
<1>3. CASE option.opt = "help"
  <2>1. Overridden(c, option) = [c EXCEPT !.help_requested = TRUE]
    BY <1>3 DEF Overridden
  <2> QED BY <1>3, <2>1 DEF Sound, Configs
<1>4. CASE option.opt \notin {"set", "feed", "help"}
  BY <1>4 DEF Overridden
<1> QED BY <1>1, <1>2, <1>3, <1>4

\* A step that leaves the file, the options and the settings alone keeps ValueInv.
LEMMA SameValues ==
  ASSUME ValueInv, UNCHANGED <<argv, pass, at, in_feed, lines, typed>>,
         config'.values = config.values
  PROVE  ValueInv'
<1>1. \A f : FileValue(f)' = FileValue(f)
  BY DEF FileValue, Globals, Sections, Largest, Accepts, Stored
<1>2. \A f : FlagValue(f, at)' = FlagValue(f, at)
  BY <1>1 DEF FlagValue, FlagsTo, Flags, Largest, Accepts, Stored
<1> QED BY <1>1, <1>2 DEF ValueInv, Sections

LEMMA ValueInit == Init => ValueInv
  BY DEF Init, ValueInv, Sections, FileValue, Globals, NewConfig

\* Every step keeps ValueInv.
LEMMA ValueStep == TypeInv /\ ValueInv /\ [Next]_vars => ValueInv'
<1> SUFFICES ASSUME TypeInv, ValueInv, [Next]_vars PROVE ValueInv'
  OBVIOUS
<1>a. /\ Sound(config) /\ TypePending /\ TypeScan /\ StageInv
      /\ argv \in Seq(Options) /\ Len(argv) \in Nat /\ at \in Nat
  BY LenProperties DEF TypeInv, TypeScan
<1>1. CASE ScanOption
  <2>1. pass = 1 /\ UNCHANGED <<argv, pass, in_feed, lines, typed, config>>
    BY <1>1 DEF ScanOption, Scanning, parser
  <2>2. \A f : FileValue(f)' = FileValue(f)
    BY <2>1 DEF FileValue, Globals, Sections, Largest, Accepts, Stored
  <2> QED BY <2>1, <2>2 DEF ValueInv, Sections
<1>2. CASE OpenFile
  <2>1. pass' = 1 /\ in_feed' = FALSE /\ lines' = <<>> /\ config' = NewConfig
    BY <1>2 DEF OpenFile, LoadsFile
  <2>2. Sections' = {} /\ \A f : Globals(f)' = {}
    BY <2>1 DEF Sections, Globals
  <2> QED BY <2>1, <2>2 DEF ValueInv, FileValue, NewConfig
<1>3. CASE EndOfFile
  <2>1. /\ pass = 1 /\ UNCHANGED <<argv, pass, in_feed, lines, typed>>
        /\ config' = CommitPendingFeed(config)
    BY <1>a, <1>3 DEF EndOfFile, CommitAtEnd, StageInv
  <2>2. config'.values = config.values
    BY <2>1, CommitSound
  <2>3. \A f : FileValue(f)' = FileValue(f)
    BY <2>1 DEF FileValue, Globals, Sections, Largest, Accepts, Stored
  <2> QED BY <2>1, <2>2, <2>3 DEF ValueInv, Sections
<1>4. ASSUME NEW line \in Lines, ReadLine(line) PROVE ValueInv'
  <2>1. /\ pass = 1 /\ pass' = 1 /\ lines' = Append(lines, line) /\ lines \in Seq(Lines)
        /\ in_feed \in BOOLEAN
    BY <1>a, <1>4 DEF ReadLine, StageInv, TypeScan, TypeFlags
  <2>2. /\ Sections' # {} <=> in_feed \/ line.kind = "section"
        /\ \A f : FileValue(f)' = IF /\ ~in_feed /\ line.kind = "pair" /\ line.key = f
                                     /\ Accepts(f, line.text)
                                  THEN Stored(f, line.text) ELSE FileValue(f)
    BY <2>1, FileStep DEF ValueInv
  <2>3. CASE line.kind = "section" /\ ReadSection
    <3>1. config'.values = config.values /\ in_feed' = TRUE
      BY <2>3, CommitSound DEF ReadSection
    <3> QED BY <2>1, <2>2, <2>3, <3>1 DEF ValueInv
  <2>4. CASE line.kind = "pair" /\ ReadPair(line.key, line.text)
    <3>1. in_feed' = in_feed
      BY <2>4 DEF ReadPair
    <3>2. CASE in_feed
      <4>1. config' = config
        BY <2>4, <3>2 DEF ReadPair
      <4> QED BY <2>1, <2>2, <2>4, <3>1, <3>2, <4>1 DEF ValueInv
    <3>3. CASE ~in_feed
      <4>1. config' = ApplyValue(config, line.key, line.text)
        BY <2>4, <3>3 DEF ReadPair
      <4>2. \A f \in Fields : config'.values[f] =
              IF f = line.key /\ Accepts(line.key, line.text)
              THEN Stored(line.key, line.text) ELSE config.values[f]
        BY <1>a, <4>1, ApplyEffect DEF Sound
      <4> QED BY <2>1, <2>2, <2>4, <3>1, <3>3, <4>2 DEF ValueInv
    <3> QED BY <3>2, <3>3
  <2>5. CASE line.kind = "other" /\ UNCHANGED <<config, in_feed, pending>>
    BY <2>1, <2>2, <2>5 DEF ValueInv
  <2> QED BY <1>4, <2>3, <2>4, <2>5 DEF ReadLine
<1>5. CASE SecondPass
  <2>1. /\ pass = 1 /\ pass' = 2 /\ at' = 1 /\ DOMAIN typed = {}
        /\ UNCHANGED <<argv, in_feed, lines, typed, config>>
    BY <1>a, <1>5 DEF SecondPass, Scanning, parser, StageInv
  <2>2. \A f : FileValue(f)' = FileValue(f)
    BY <2>1 DEF FileValue, Globals, Sections, Largest, Accepts, Stored
  <2>3. \A f : FlagsTo(f, 1)' = {}
    BY <1>a, <2>1 DEF FlagsTo, Flags
  <2>4. \A f : FlagValue(f, at)' = FileValue(f)
    BY <2>1, <2>2, <2>3 DEF FlagValue, FlagsTo
  <2> QED BY <2>1, <2>4 DEF ValueInv, Sections
<1>6. CASE ApplyOption
  <2>1. /\ pass = 2 /\ pass' = 2 /\ at' = at + 1 /\ at \in 1 .. Len(argv)
        /\ DOMAIN typed = {} /\ UNCHANGED <<argv, in_feed, lines, typed>>
        /\ config' = Overridden(config, argv[at])
    BY <1>a, <1>6 DEF ApplyOption, Scanning, parser, StageInv, TypeScan
  <2>2. argv[at] \in Options
    BY <1>a, <2>1
  <2>3. \A f : FlagValue(f, at)' = FlagValue(f, at + 1)
    BY <2>1 DEF FlagValue, FlagsTo, Flags, FileValue, Globals, Sections, Largest, Accepts, Stored
  <2>4. \A f \in Fields : config'.values[f] = FlagValue(f, at + 1)
    <3> SUFFICES ASSUME NEW f \in Fields PROVE config'.values[f] = FlagValue(f, at + 1)
      OBVIOUS
    <3>1. config.values[f] = FlagValue(f, at)
      BY <2>1 DEF ValueInv
    <3> QED BY <1>a, <2>1, <2>2, <3>1, FlagStep, OverriddenValue
  <2> QED BY <2>1, <2>3, <2>4 DEF ValueInv, Sections
<1>7. CASE Start
  <2>1. UNCHANGED <<argv, pass, at, in_feed, lines, typed, config>>
    BY <1>7 DEF Start, parser
  <2> QED BY <2>1, SameValues
<1>8. ASSUME NEW g \in {"heartbeat_interval", "heartbeat_timeout"}, NEW t \in Typed,
             SetByCommand(g, t)
      PROVE  ValueInv'
  <2>1. /\ pass = 2 /\ UNCHANGED <<argv, pass, at, in_feed, lines>>
        /\ config' = [config EXCEPT !.values[g] = t] /\ typed' = With(typed, g, t)
    BY <1>a, <1>8 DEF SetByCommand, parser, StageInv
  <2>2. \A f \in Fields : config'.values[f] = IF f = g THEN t ELSE config.values[f]
    BY <1>a, <2>1 DEF Sound, Configs
  <2>3. /\ DOMAIN typed' = DOMAIN typed \cup {g}
        /\ \A f \in DOMAIN typed' : typed'[f] = IF f = g THEN t ELSE typed[f]
    BY <2>1 DEF With
  <2>4. \A f : FlagValue(f, at)' = FlagValue(f, at)
    BY <2>1 DEF FlagValue, FlagsTo, Flags, FileValue, Globals, Sections, Largest, Accepts, Stored
  <2> QED BY <2>1, <2>2, <2>3, <2>4 DEF ValueInv, Sections
<1>9. CASE UNCHANGED vars
  BY <1>9, SameValues DEF vars
<1> QED BY <1>1, <1>2, <1>3, <1>4, <1>5, <1>6, <1>7, <1>8, <1>9 DEF Next

\* What a running monitor has, in terms of what the sources say: a text that an
\* int cannot hold is the one thing that is not kept as it is written.
LEMMA KeptAsWritten ==
  ASSUME TypeInv, ValueInv, status = "running", NEW f \in Fields,
         f \in IntFields => Chosen(f) \in Ints
  PROVE  config.values[f] = Chosen(f)
<1>1. pass = 2 /\ at = Len(argv) + 1 /\ Len(argv) \in Nat /\ DOMAIN argv = 1 .. Len(argv)
  BY LenProperties DEF TypeInv, StageInv, TypeScan
<1>2. FlagsTo(f, at) = Flags(f)
  BY <1>1 DEF FlagsTo, Flags
<1>3. config.values[f] = IF f \in DOMAIN typed THEN typed[f] ELSE FlagValue(f, at)
  BY <1>1 DEF ValueInv
<1>4. \A t : (f \in IntFields => t \in Ints) => Stored(f, t) = t
  <2>1. \A t \in Ints : t \in Int
    BY ConfigAssumption DEF Ints
  <2> QED BY <2>1, Narrow DEF Stored
<1> QED BY <1>2, <1>3, <1>4 DEF FlagValue, FileValue, Chosen

\* Wherever --config stands among the flags, a field has the value written last in
\* the strongest source that has an accepted one, for every text that the field
\* can hold.
THEOREM PrecedenceCorrect == Spec => []Precedence
<1>1. TypeInv /\ ValueInv => Precedence
  BY KeptAsWritten DEF Precedence
<1>2. Init => TypeInv /\ ValueInv
  BY TypeInit, ValueInit
<1>3. TypeInv /\ ValueInv /\ [Next]_vars => (TypeInv /\ ValueInv)'
  BY TypeStep, ValueStep
<1> QED BY <1>1, <1>2, <1>3, PTL DEF Spec

\* The counts the sources choose are ints.
CountsFit == \A f \in IntFields : Chosen(f) \in Ints

\* config.h: "invalid values are logged to stderr and skipped".  No file and no
\* flag brings a value into use that the checks refuse, such as a limit of no
\* missed heartbeats.
InvalidRejected ==
  status = "running" => \A f \in Fields \ DOMAIN typed : Accepts(f, config.values[f])

\* The largest of some positions is one of them.
LEMMA LargestIn ==
  ASSUME NEW n \in Nat, NEW S \in SUBSET (1 .. n), S # {} PROVE Largest(S) \in S
<1>1. \E m \in S : \A j \in S : j <= m
  BY HasLargest
<1> QED BY <1>1 DEF Largest

\* What a file or a flag gives a field, and what it has by default, is accepted.
LEMMA ChosenAccepted ==
  ASSUME TypeInv, NEW f \in Fields, f \notin DOMAIN typed PROVE Accepts(f, Chosen(f))
<1>1. /\ Len(argv) \in Nat /\ DOMAIN argv = 1 .. Len(argv)
      /\ Len(lines) \in Nat /\ DOMAIN lines = 1 .. Len(lines)
  BY LenProperties DEF TypeInv, TypeScan
<1>2. CASE Flags(f) # {}
  <2>1. Flags(f) \in SUBSET (1 .. Len(argv))
    BY <1>1 DEF Flags
  <2>2. Largest(Flags(f)) \in Flags(f)
    BY <1>1, <1>2, <2>1, LargestIn
  <2> QED BY <1>2, <2>2 DEF Chosen, Flags
<1>3. CASE Flags(f) = {} /\ Globals(f) # {}
  <2>1. Globals(f) \in SUBSET (1 .. Len(lines))
    BY <1>1 DEF Globals
  <2>2. Largest(Globals(f)) \in Globals(f)
    BY <1>1, <1>3, <2>1, LargestIn
  <2> QED BY <1>3, <2>2 DEF Chosen, Globals
<1>4. CASE Flags(f) = {} /\ Globals(f) = {}
  <2>1. Accepts(f, Default[f])
    BY ConfigAssumption DEF Accepts, Default, Fields, Durations, IntFields, Switches
  <2> QED BY <1>4, <2>1 DEF Chosen
<1> QED BY <1>2, <1>3, <1>4

\* Narrowing is the only way around the checks: while the counts that were written
\* fit an int, a running monitor has no value the checks refuse, but for what an
\* operator set.
THEOREM RejectionCorrect == Spec => [](CountsFit => InvalidRejected)
<1>1. TypeInv /\ ValueInv => (CountsFit => InvalidRejected)
  <2> SUFFICES ASSUME TypeInv, ValueInv, CountsFit, status = "running",
                      NEW f \in Fields, f \notin DOMAIN typed
               PROVE  Accepts(f, config.values[f])
    BY DEF InvalidRejected
  <2>1. config.values[f] = Chosen(f)
    BY KeptAsWritten DEF CountsFit
  <2> QED BY <2>1, ChosenAccepted
<1>2. Init => TypeInv /\ ValueInv
  BY TypeInit, ValueInit
<1>3. TypeInv /\ ValueInv /\ [Next]_vars => (TypeInv /\ ValueInv)'
  BY TypeStep, ValueStep
<1> QED BY <1>1, <1>2, <1>3, PTL DEF Spec

-----------------------------------------------------------------------------
(* Feeds                                                                   *)

\* feeds lists the first valid definitions and, what the ranks also imply,
\* nothing but them.
Exactly(feeds, defs) ==
  Lists(feeds, defs) /\ \A i \in DOMAIN feeds : \E p \in Firsts(defs) : feeds[i] = defs[p]

\* The list that validate_and_add_feed leaves.
Added(feeds, feed) ==
  IF ValidFeed(feed) /\ \A i \in DOMAIN feeds : feeds[i]["id"] # feed["id"]
  THEN Append(feeds, feed) ELSE feeds

\* A place has a rank among the members of a finite set.
LEMMA RankIn ==
  ASSUME NEW S, S \subseteq Nat, IsFiniteSet(S), NEW p \in S
  PROVE  Rank(S, p) \in 1 .. Cardinality(S)
<1> DEFINE T == {q \in S : q <= p}
<1>1. T \subseteq S /\ p \in T
  OBVIOUS
<1> HIDE DEF T
<1>2. IsFiniteSet(T) /\ Cardinality(T) <= Cardinality(S)
  BY <1>1, FS_Subset
<1>3. Cardinality(T) \in Nat /\ Cardinality(S) \in Nat /\ Cardinality(T) # 0
  BY <1>1, <1>2, FS_CardinalityType, FS_EmptySet
<1>4. Rank(S, p) = Cardinality(T)
  BY DEF Rank, T
<1> QED BY <1>2, <1>3, <1>4

\* defs and one definition more, at a place after all others.
Extends(e, d, p) ==
  /\ DOMAIN d \subseteq Nat /\ IsFiniteSet(DOMAIN d) /\ p \in Nat
  /\ DOMAIN e = DOMAIN d \cup {p}
  /\ \A q \in DOMAIN d : q < p /\ e[q] = d[q]

\* It is the first of its id if no feed of the list has that id.
LEMMA FirstsNext ==
  ASSUME NEW d, NEW e, NEW p, Extends(e, d, p), NEW feeds, Exactly(feeds, d),
         NEW S, feeds \in Seq(S)
  PROVE  /\ \A q \in DOMAIN d : q \in Firsts(e) <=> q \in Firsts(d)
         /\ p \in Firsts(e) <=>
              ValidFeed(e[p]) /\ \A i \in DOMAIN feeds : feeds[i]["id"] # e[p]["id"]
<1>1. /\ DOMAIN d \subseteq Nat /\ IsFiniteSet(DOMAIN d) /\ p \in Nat
      /\ DOMAIN e = DOMAIN d \cup {p} /\ \A q \in DOMAIN d : q < p /\ e[q] = d[q]
  BY DEF Extends
<1>2. \A q \in DOMAIN d : q \in Firsts(e) <=> q \in Firsts(d)
  <2> SUFFICES ASSUME NEW q \in DOMAIN d PROVE q \in Firsts(e) <=> q \in Firsts(d)
    OBVIOUS
  <2>1. q \in Nat /\ q < p /\ q \in DOMAIN e /\ e[q] = d[q] /\ ~(p < q)
    BY <1>1
  <2>2. \A r \in DOMAIN e : r < q => r \in DOMAIN d
    BY <1>1, <2>1
  <2> QED BY <1>1, <2>1, <2>2 DEF Firsts
<1>3. Firsts(d) \subseteq DOMAIN d /\ IsFiniteSet(Firsts(d))
  <2>1. Firsts(d) \subseteq DOMAIN d
    BY DEF Firsts
  <2> QED BY <1>1, <2>1, FS_Subset
<1>4. ASSUME p \in Firsts(e)
      PROVE  ValidFeed(e[p]) /\ \A i \in DOMAIN feeds : feeds[i]["id"] # e[p]["id"]
  <2>1. ValidFeed(e[p])
    BY <1>4 DEF Firsts
  <2>2. ASSUME NEW i \in DOMAIN feeds PROVE feeds[i]["id"] # e[p]["id"]
    <3>1. PICK q \in Firsts(d) : feeds[i] = d[q]
      BY DEF Exactly
    <3>2. q \in DOMAIN e /\ q < p /\ ValidFeed(e[q]) /\ e[q] = d[q]
      BY <1>1, <1>3 DEF Firsts
    <3>3. e[q]["id"] # e[p]["id"]
      BY <1>4, <3>2 DEF Firsts
    <3> QED BY <3>1, <3>2, <3>3
  <2> QED BY <2>1, <2>2
<1>5. ASSUME ValidFeed(e[p]), \A i \in DOMAIN feeds : feeds[i]["id"] # e[p]["id"]
      PROVE  p \in Firsts(e)
  <2> DEFINE Same == {q \in DOMAIN d : ValidFeed(d[q]) /\ d[q]["id"] = e[p]["id"]}
  <2>1. Same = {}
    <3> SUFFICES ASSUME Same # {} PROVE FALSE
      OBVIOUS
    <3>1. PICK q \in Same : \A r \in Same : q <= r
      <4>1. Same \subseteq Nat
        BY <1>1
      <4> HIDE DEF Same
      <4> QED BY <4>1, LeastNat
    <3>2. q \in DOMAIN d /\ ValidFeed(d[q]) /\ d[q]["id"] = e[p]["id"] /\ q \in Nat
      BY <1>1
    <3>3. ASSUME NEW r \in DOMAIN d, r < q PROVE r \notin Same
      BY <1>1, <3>1, <3>2, <3>3
    <3>4. \A r \in DOMAIN d : r < q => ~(ValidFeed(d[r]) /\ d[r]["id"] = d[q]["id"])
      BY <3>2, <3>3
    <3>5. q \in Firsts(d)
      BY <3>2, <3>4 DEF Firsts
    <3>6. Rank(Firsts(d), q) \in 1 .. Len(feeds) /\ feeds[Rank(Firsts(d), q)] = d[q]
      BY <1>1, <1>3, <3>5, RankIn DEF Exactly, Lists
    <3>7. Rank(Firsts(d), q) \in DOMAIN feeds
      BY <3>6, LenProperties
    <3> QED BY <1>5, <3>2, <3>6, <3>7
  <2>2. \A q \in DOMAIN e : q < p => q \in DOMAIN d /\ e[q] = d[q]
    BY <1>1
  <2> QED BY <1>1, <1>5, <2>1, <2>2 DEF Firsts
<1> QED BY <1>2, <1>4, <1>5

\* One more definition, handed to validate_and_add_feed.
LEMMA AddExact ==
  ASSUME NEW d, NEW e, NEW p, Extends(e, d, p), NEW feeds, Exactly(feeds, d),
         NEW S, feeds \in Seq(S), ValidFeed(e[p]) => e[p] \in S
  PROVE  Exactly(Added(feeds, e[p]), e)
<1> DEFINE F == Firsts(d)
           G == Firsts(e)
           n == Len(feeds)
<1>1. /\ DOMAIN d \subseteq Nat /\ IsFiniteSet(DOMAIN d) /\ p \in Nat
      /\ DOMAIN e = DOMAIN d \cup {p} /\ \A q \in DOMAIN d : q < p /\ e[q] = d[q]
  BY DEF Extends
<1>2. /\ \A q \in DOMAIN d : q \in G <=> q \in F
      /\ p \in G <=> ValidFeed(e[p]) /\ \A i \in DOMAIN feeds : feeds[i]["id"] # e[p]["id"]
  BY FirstsNext
<1>3. F \subseteq DOMAIN d /\ G \subseteq DOMAIN e /\ IsFiniteSet(F) /\ p \notin F /\ F \subseteq Nat
  <2>1. F \subseteq DOMAIN d /\ G \subseteq DOMAIN e
    BY DEF Firsts
  <2>2. p \notin DOMAIN d
    BY <1>1
  <2> QED BY <1>1, <2>1, <2>2, FS_Subset
<1>4. /\ n \in Nat /\ n = Cardinality(F) /\ \A q \in F : feeds[Rank(F, q)] = d[q]
      /\ \A i \in DOMAIN feeds : \E q \in F : feeds[i] = d[q]
      /\ DOMAIN feeds = 1 .. n
  BY LenProperties DEF Exactly, Lists
<1> HIDE DEF F, G, n
<1>5. CASE p \in G
  <2>1. Added(feeds, e[p]) = Append(feeds, e[p]) /\ e[p] \in S
    BY <1>2, <1>5 DEF Added
  <2> DEFINE t == Append(feeds, e[p])
  <2>2. /\ Len(t) = n + 1 /\ t[n + 1] = e[p] /\ \A i \in 1 .. n : t[i] = feeds[i]
        /\ DOMAIN t = 1 .. n + 1
    BY <1>4, <2>1, AppendProperties, LenProperties DEF n
  <2> HIDE DEF t
  <2>3. G = F \cup {p}
    BY <1>1, <1>2, <1>3, <1>5
  <2>4. Cardinality(G) = n + 1
    BY <1>3, <1>4, <2>3, FS_AddElement
  <2>5. Rank(G, p) = n + 1
    <3>1. {q \in G : q <= p} = G
      BY <1>1, <1>3, <2>3
    <3> QED BY <2>4, <3>1 DEF Rank
  <2>6. ASSUME NEW q \in F PROVE t[Rank(G, q)] = e[q]
    <3>1. {r \in G : r <= q} = {r \in F : r <= q}
      BY <1>1, <1>3, <2>3
    <3>2. Rank(G, q) = Rank(F, q)
      BY <3>1 DEF Rank
    <3>3. Rank(F, q) \in 1 .. n
      BY <1>3, <1>4, RankIn
    <3> QED BY <1>1, <1>3, <1>4, <2>2, <3>2, <3>3
  <2>7. Lists(t, e)
    BY <2>2, <2>3, <2>4, <2>5, <2>6 DEF Lists, G
  <2>8. ASSUME NEW i \in 1 .. n + 1 PROVE \E q \in G : t[i] = e[q]
    <3>1. CASE i = n + 1
      BY <1>5, <2>2, <3>1
    <3>2. CASE i # n + 1
      <4>1. i \in 1 .. n
        BY <1>4, <3>2
      <4>2. PICK q \in F : feeds[i] = d[q]
        BY <1>4, <4>1
      <4> QED BY <1>1, <1>3, <2>2, <2>3, <4>1, <4>2
    <3> QED BY <3>1, <3>2
  <2>9. Exactly(t, e)
    BY <2>2, <2>7, <2>8 DEF Exactly, G
  <2> QED BY <2>1, <2>9 DEF t
<1>6. CASE p \notin G
  <2>1. Added(feeds, e[p]) = feeds
    BY <1>2, <1>6 DEF Added
  <2>2. G = F
    BY <1>1, <1>2, <1>3, <1>6
  <2>3. \A q \in F : e[q] = d[q]
    BY <1>1, <1>3
  <2>4. Exactly(feeds, e)
    BY <1>4, <2>2, <2>3 DEF Exactly, Lists, G, F, n
  <2> QED BY <2>1, <2>4
<1> QED BY <1>5, <1>6

\* One more line is in the body of the last section, if it is one of its keys.
LEMMA BodyStep ==
  ASSUME lines \in Seq(Lines), NEW line \in Lines, lines' = Append(lines, line),
         NEW i \in Sections
  PROVE  Body(i)' = Body(i) \cup
           (IF line.kind = "pair" /\ line.key \in FeedKeys /\ \A s \in Sections : s <= i
            THEN {Len(lines) + 1} ELSE {})
<1> DEFINE n == Len(lines)
           mine == line.kind = "pair" /\ line.key \in FeedKeys /\ \A s \in Sections : s <= i
<1>1. /\ n \in Nat /\ DOMAIN lines = 1 .. n /\ DOMAIN lines' = 1 .. n + 1
      /\ lines'[n + 1] = line /\ \A j \in 1 .. n : lines'[j] = lines[j]
  BY AppendProperties, LenProperties
<1> HIDE DEF n
<1>2. Sections' = Sections \cup (IF line.kind = "section" THEN {n + 1} ELSE {})
  BY <1>1 DEF Sections
<1>3. Sections \subseteq 1 .. n /\ Body(i) \subseteq 1 .. n /\ Body(i)' \subseteq 1 .. n + 1
  BY <1>1 DEF Sections, Body
<1>4. ASSUME NEW j \in 1 .. n PROVE j \in Body(i)' <=> j \in Body(i)
  <2>1. (\A s \in Sections' : s <= i \/ j < s) <=> \A s \in Sections : s <= i \/ j < s
    BY <1>1, <1>2, <1>3
  <2> QED BY <1>1, <2>1 DEF Body
<1>5. n + 1 \in Body(i)' <=> mine
  <2>1. ASSUME n + 1 \in Body(i)' PROVE mine
    <3>1. /\ line.kind = "pair" /\ line.key \in FeedKeys
          /\ \A s \in Sections' : s <= i \/ n + 1 < s
      BY <1>1, <2>1 DEF Body
    <3> QED BY <1>1, <1>2, <1>3, <3>1
  <2>2. ASSUME mine PROVE n + 1 \in Body(i)'
    <3>1. Sections' = Sections
      BY <1>2, <2>2
    <3> QED BY <1>1, <1>3, <2>2, <3>1 DEF Body
  <2> QED BY <2>1, <2>2
<1> HIDE DEF mine
<1>6. Body(i)' = Body(i) \cup (IF mine THEN {n + 1} ELSE {})
  BY <1>1, <1>3, <1>4, <1>5
<1> QED BY <1>6 DEF n, mine

\* A section that has no new line defines what it did.
LEMMA SectionSame ==
  ASSUME lines \in Seq(Lines), NEW line \in Lines, lines' = Append(lines, line),
         NEW i, Body(i)' = Body(i)
  PROVE  Section(i)' = Section(i)
<1> DEFINE n == Len(lines)
           At(k) == {j \in Body(i) : lines[j].key = k}
           K == {lines[j].key : j \in Body(i)}
<1>1. /\ n \in Nat /\ DOMAIN lines = 1 .. n /\ \A j \in 1 .. n : lines'[j] = lines[j]
  BY AppendProperties, LenProperties
<1>2. Body(i) \subseteq 1 .. n
  BY <1>1 DEF Body
<1>3. \A j \in Body(i) : lines'[j] = lines[j]
  BY <1>1, <1>2
<1>4. {lines'[j].key : j \in Body(i)'} = K
  BY <1>3
<1>5. ASSUME NEW k \in K
      PROVE  /\ {j \in Body(i)' : lines'[j].key = k} = At(k)
             /\ lines'[Largest(At(k))] = lines[Largest(At(k))]
  <2>1. {j \in Body(i)' : lines'[j].key = k} = At(k)
    BY <1>3
  <2>2. At(k) \subseteq 1 .. n /\ At(k) # {}
    BY <1>2
  <2> HIDE DEF At
  <2>3. \E m \in At(k) : \A j \in At(k) : j <= m
    BY <1>1, <2>2, HasLargest
  <2>4. Largest(At(k)) \in 1 .. n
    BY <2>2, <2>3 DEF Largest
  <2> QED BY <1>1, <2>1, <2>4
<1>6. Section(i)' = [k \in {lines'[j].key : j \in Body(i)'} |->
                       lines'[Largest({j \in Body(i)' : lines'[j].key = k})].text]
  BY DEF Section, Largest
<1>7. Section(i) = [k \in K |-> lines[Largest(At(k))].text]
  BY DEF Section
<1>8. \A k \in K : lines'[Largest({j \in Body(i)' : lines'[j].key = k})].text
                     = lines[Largest(At(k))].text
  BY <1>5
<1> HIDE DEF K, At
<1> QED BY <1>4, <1>6, <1>7, <1>8

\* A new line of a section sets one key of its feed.
LEMMA SectionMore ==
  ASSUME lines \in Seq(Lines), NEW line \in Lines, lines' = Append(lines, line),
         NEW i, Body(i)' = Body(i) \cup {Len(lines) + 1}
  PROVE  Section(i)' = With(Section(i), line.key, line.text)
<1> DEFINE n == Len(lines)
           At(k) == {j \in Body(i) : lines[j].key = k}
           New(k) == {j \in Body(i)' : lines'[j].key = k}
           K == {lines[j].key : j \in Body(i)}
<1>1. /\ n \in Nat /\ DOMAIN lines = 1 .. n /\ \A j \in 1 .. n : lines'[j] = lines[j]
      /\ lines'[n + 1] = line
  BY AppendProperties, LenProperties
<1>2. Body(i) \subseteq 1 .. n
  BY <1>1 DEF Body
<1>3. \A j \in Body(i) : lines'[j] = lines[j]
  BY <1>1, <1>2
<1>4. {lines'[j].key : j \in Body(i)'} = K \cup {line.key}
  BY <1>1, <1>3
<1>5. Largest(New(line.key)) = n + 1
  <2>1. n + 1 \in New(line.key) /\ \A j \in New(line.key) : j \in Int /\ j <= n + 1
    BY <1>1, <1>2
  <2> HIDE DEF New
  <2> QED BY <2>1, LargestIs
<1>6. ASSUME NEW k \in K, k # line.key
      PROVE  New(k) = At(k) /\ lines'[Largest(At(k))] = lines[Largest(At(k))]
  <2>1. New(k) = At(k)
    BY <1>1, <1>3, <1>6
  <2>2. At(k) \subseteq 1 .. n /\ At(k) # {}
    BY <1>2
  <2> HIDE DEF At
  <2>3. \E m \in At(k) : \A j \in At(k) : j <= m
    BY <1>1, <2>2, HasLargest
  <2>4. Largest(At(k)) \in 1 .. n
    BY <2>2, <2>3 DEF Largest
  <2> QED BY <1>1, <2>1, <2>4
<1>7. Section(i)' = [k \in {lines'[j].key : j \in Body(i)'} |-> lines'[Largest(New(k))].text]
  BY DEF Section, Largest
<1>8. Section(i) = [k \in K |-> lines[Largest(At(k))].text]
  BY DEF Section
<1> HIDE DEF K, At, New
<1>9. With(Section(i), line.key, line.text) =
        [k \in K \cup {line.key} |->
           IF k = line.key THEN line.text ELSE lines[Largest(At(k))].text]
  BY <1>8 DEF With
<1>10. \A k \in K \cup {line.key} : lines'[Largest(New(k))].text
         = IF k = line.key THEN line.text ELSE lines[Largest(At(k))].text
  BY <1>1, <1>5, <1>6
<1> QED BY <1>4, <1>7, <1>9, <1>10

\* The sections that are over: while the file is read, all but the last.
Closed == IF reading THEN {i \in Sections : \E j \in Sections : i < j} ELSE Sections

FileDefs == [p \in Closed |-> Section(p)]

\* What the file and the options before the n-th define.
DefsTo(n) ==
  [p \in Sections \cup {Len(lines) + i : i \in {j \in DOMAIN argv : argv[j].opt = "feed" /\ j < n}} |->
     IF p <= Len(lines) THEN Section(p) ELSE argv[p - Len(lines)].feed]

\* The pending feed is what the last section has defined so far, and the list is
\* that of the sections that are over, then of the options gone over as well.
FeedInv ==
  /\ reading /\ in_feed => pending = Section(Largest(Sections))
  /\ pass = 1 => Exactly(config.feeds, FileDefs)
  /\ pass = 2 => Exactly(config.feeds, DefsTo(at))

\* What validate_and_add_feed does to the list.
LEMMA AddFeeds ==
  ASSUME NEW c, Sound(c), NEW feed PROVE AddFeed(c, feed).feeds = Added(c.feeds, feed)
<1>1. CASE ValidFeed(feed) /\ \A i \in DOMAIN c.feeds : c.feeds[i]["id"] # feed["id"]
  <2>1. AddFeed(c, feed) = [c EXCEPT !.feeds = Append(c.feeds, feed)]
    BY <1>1 DEF AddFeed
  <2> QED BY <1>1, <2>1 DEF Added, Sound, Configs
<1>2. CASE ~(ValidFeed(feed) /\ \A i \in DOMAIN c.feeds : c.feeds[i]["id"] # feed["id"])
  BY <1>2 DEF AddFeed, Added
<1> QED BY <1>1, <1>2

\* Where nothing is defined, the list is empty.
LEMMA NoneExact == ASSUME NEW d, DOMAIN d = {} PROVE Exactly(<<>>, d)
<1>1. Firsts(d) = {}
  BY DEF Firsts
<1> QED BY <1>1, FS_EmptySet DEF Exactly, Lists

\* The last section.
LEMMA LastSection ==
  ASSUME lines \in Seq(Lines), Sections # {}
  PROVE  /\ Largest(Sections) \in Sections /\ \A s \in Sections : s <= Largest(Sections)
         /\ Sections \subseteq 1 .. Len(lines) /\ IsFiniteSet(Sections)
         /\ {i \in Sections : \E j \in Sections : i < j} = Sections \ {Largest(Sections)}
<1>1. Len(lines) \in Nat /\ Sections \subseteq 1 .. Len(lines)
  BY LenProperties DEF Sections
<1>2. IsFiniteSet(Sections)
  <2>1. IsFiniteSet(1 .. Len(lines))
    BY <1>1, FS_Interval
  <2> QED BY <1>1, <2>1, FS_Subset
<1>3. \E m \in Sections : \A j \in Sections : j <= m
  BY <1>1, HasLargest
<1>4. Largest(Sections) \in Sections /\ \A s \in Sections : s <= Largest(Sections)
  BY <1>3 DEF Largest
<1> DEFINE m == Largest(Sections)
<1>5. \A i \in Sections : (\E j \in Sections : i < j) <=> i # m
  <2>1. m \in Sections /\ \A s \in Sections : s <= m
    BY <1>4
  <2> HIDE DEF m
  <2> QED BY <1>1, <2>1
<1> QED BY <1>1, <1>2, <1>4, <1>5

\* The last section ends: its feed joins those of the other sections.
LEMMA CommitExact ==
  ASSUME TypeInv, FeedInv, pass = 1, reading, in_feed, Sections # {},
         NEW e, DOMAIN e = Sections, \A i \in Sections : e[i] = Section(i)
  PROVE  Exactly(CommitPendingFeed(config).feeds, e)
<1> DEFINE m == Largest(Sections)
<1>1. lines \in Seq(Lines) /\ config \in Configs /\ config.feeds \in Seq(FeedSet)
  BY DEF TypeInv, TypeScan, Sound, Configs
<1>2. /\ m \in Sections /\ \A s \in Sections : s <= m
      /\ Sections \subseteq 1 .. Len(lines) /\ IsFiniteSet(Sections) /\ Len(lines) \in Nat
      /\ {i \in Sections : \E j \in Sections : i < j} = Sections \ {m}
  BY <1>1, LastSection, LenProperties
<1>3. CommitPendingFeed(config).feeds = Added(config.feeds, pending)
  BY AddFeeds DEF CommitPendingFeed, TypeInv
<1>4. Exactly(config.feeds, FileDefs) /\ pending = Section(m)
  BY DEF FeedInv
<1> HIDE DEF m
<1>5. DOMAIN FileDefs = Sections \ {m} /\ \A i \in Sections \ {m} : FileDefs[i] = Section(i)
  BY <1>2 DEF FileDefs, Closed
<1>6. IsFiniteSet(Sections \ {m}) /\ Sections \ {m} \subseteq Nat /\ m \in Nat
  BY <1>2, FS_Subset
<1>7. \A i \in Sections \ {m} : i < m
  BY <1>2, <1>6
<1>8. Extends(e, FileDefs, m)
  BY <1>2, <1>5, <1>6, <1>7 DEF Extends
<1>9. e[m] = pending /\ (ValidFeed(pending) => pending \in FeedSet)
  BY <1>2, <1>4, PendingAdds DEF TypeInv
<1> QED BY <1>1, <1>3, <1>4, <1>8, <1>9, AddExact

\* The places an option's feed and the file's feeds have.
LEMMA OptionExact ==
  ASSUME TypeInv, FeedInv, pass = 2, at \in 1 .. Len(argv)
  PROVE  Exactly(Overridden(config, argv[at]).feeds, DefsTo(at + 1))
<1> DEFINE n == Len(lines)
           before == {n + i : i \in {j \in DOMAIN argv : argv[j].opt = "feed" /\ j < at}}
           upto == {n + i : i \in {j \in DOMAIN argv : argv[j].opt = "feed" /\ j < at + 1}}
<1>1. /\ lines \in Seq(Lines) /\ argv \in Seq(Options) /\ n \in Nat /\ Len(argv) \in Nat
      /\ DOMAIN argv = 1 .. Len(argv) /\ at \in Nat /\ argv[at] \in Options
      /\ Sections \subseteq 1 .. n
  BY LenProperties, ElementOfSeq DEF TypeInv, TypeScan, Sections
<1>2. Sound(config) /\ config \in Configs /\ config.feeds \in Seq(FeedSet)
  BY DEF TypeInv, Sound, Configs
<1>3. Exactly(config.feeds, DefsTo(at))
  BY DEF FeedInv
<1>4. /\ DOMAIN DefsTo(at) = Sections \cup before
      /\ \A q \in Sections \cup before :
           DefsTo(at)[q] = IF q <= n THEN Section(q) ELSE argv[q - n].feed
  BY DEF DefsTo
<1>5. /\ DOMAIN DefsTo(at + 1) = Sections \cup upto
      /\ \A q \in Sections \cup upto :
           DefsTo(at + 1)[q] = IF q <= n THEN Section(q) ELSE argv[q - n].feed
  BY DEF DefsTo
<1>6. CASE argv[at].opt = "feed"
  <2>1. upto = before \cup {n + at}
    BY <1>1, <1>6
  <2>2. Sections \cup before \subseteq 1 .. n + Len(argv)
    <3>1. Sections \subseteq 1 .. n + Len(argv)
      <4> HIDE DEF n
      <4> QED BY <1>1
    <3>2. ASSUME NEW q \in before PROVE q \in 1 .. n + Len(argv)
      <4>1. PICK i \in DOMAIN argv : q = n + i
        BY <3>2
      <4> HIDE DEF n
      <4> QED BY <1>1, <4>1
    <3> QED BY <3>1, <3>2
  <2>3. IsFiniteSet(Sections \cup before) /\ Sections \cup before \subseteq Nat
    <3>1. IsFiniteSet(1 .. n + Len(argv))
      BY <1>1, FS_Interval
    <3> QED BY <1>1, <2>2, <3>1, FS_Subset
  <2>4. \A q \in Sections \cup before : q < n + at
    <3>1. \A q \in Sections : q < n + at
      <4> HIDE DEF n
      <4> QED BY <1>1
    <3>2. ASSUME NEW q \in before PROVE q < n + at
      <4>1. PICK i \in DOMAIN argv : i < at /\ q = n + i
        BY <3>2
      <4> HIDE DEF n
      <4> QED BY <1>1, <4>1
    <3> QED BY <3>1, <3>2
  <2>5. n + at \in Nat /\ ~(n + at <= n) /\ (n + at) - n = at
    BY <1>1
  <2>6. n + at \in upto
    BY <2>1
  <2> HIDE DEF before, upto, n
  <2>7. DefsTo(at + 1)[n + at] = argv[at].feed
    BY <1>5, <2>5, <2>6
  <2>8. Extends(DefsTo(at + 1), DefsTo(at), n + at)
    BY <1>4, <1>5, <2>1, <2>3, <2>4, <2>5 DEF Extends
  <2>9. argv[at].feed \in FeedSet
    BY <1>1, <1>6 DEF FeedSet
  <2>10. Overridden(config, argv[at]).feeds = Added(config.feeds, argv[at].feed)
    BY <1>2, <1>6, AddFeeds DEF Overridden
  <2> QED BY <1>2, <1>3, <2>7, <2>8, <2>9, <2>10, AddExact
<1>7. CASE argv[at].opt # "feed"
  <2>1. upto = before
    BY <1>1, <1>7
  <2>2. DefsTo(at + 1) = DefsTo(at)
    BY <2>1 DEF DefsTo
  <2>3. Overridden(config, argv[at]).feeds = config.feeds
    <3>1. CASE argv[at].opt = "set"
      BY <1>2, <3>1, ApplyEffect DEF Overridden
    <3>2. CASE argv[at].opt = "help"
      <4>1. Overridden(config, argv[at]) = [config EXCEPT !.help_requested = TRUE]
        BY <3>2 DEF Overridden
      <4> QED BY <1>2, <4>1 DEF Configs
    <3>3. CASE argv[at].opt \notin {"set", "feed", "help"}
      BY <3>3 DEF Overridden
    <3> QED BY <1>7, <3>1, <3>2, <3>3
  <2> QED BY <1>3, <2>2, <2>3
<1> QED BY <1>6, <1>7

\* A line that is read keeps FeedInv.
LEMMA LineExact ==
  ASSUME TypeInv, ValueInv, FeedInv, NEW line \in Lines, ReadLine(line) PROVE FeedInv'
<1> DEFINE n == Len(lines)
<1>m. PICK m : m = Largest(Sections)
  OBVIOUS
<1>1. /\ pass = 1 /\ pass' = 1 /\ reading /\ reading' /\ lines' = Append(lines, line)
      /\ lines \in Seq(Lines) /\ in_feed \in BOOLEAN /\ Sound(config)
  BY DEF ReadLine, TypeInv, StageInv, TypeScan, TypeFlags
<1>2. /\ n \in Nat /\ DOMAIN lines = 1 .. n /\ DOMAIN lines' = 1 .. n + 1
      /\ lines'[n + 1] = line /\ \A i \in 1 .. n : lines'[i] = lines[i]
      /\ lines' \in Seq(Lines)
  BY <1>1, AppendProperties, LenProperties
<1>3. Sections' = Sections \cup (IF line.kind = "section" THEN {n + 1} ELSE {})
  BY <1>2 DEF Sections
<1>4. Sections \subseteq 1 .. n /\ (in_feed <=> Sections # {})
  BY <1>2 DEF Sections, ValueInv
<1>5. Exactly(config.feeds, FileDefs) /\ (in_feed => pending = Section(m))
  BY <1>1, <1>m DEF FeedInv
<1>6. Closed = {i \in Sections : \E j \in Sections : i < j}
  BY <1>1 DEF Closed
<1>7. Closed' = {i \in Sections' : \E j \in Sections' : i < j}
  BY <1>1 DEF Closed
<1>8. FileDefs' = [p \in Closed' |-> Section(p)']
  BY DEF FileDefs
<1>9. SUFFICES /\ in_feed' => pending' = Section(Largest(Sections))'
               /\ Exactly(config'.feeds, FileDefs')
  BY <1>1 DEF FeedInv, Exactly, Lists, Firsts, Rank, ValidFeed
<1>10. CASE line.kind = "section" /\ ReadSection
  <2>1. Largest(Sections)' = n + 1
    <3>1. n + 1 \in Sections' /\ \A j \in Sections' : j \in Int /\ j <= n + 1
      BY <1>2, <1>3, <1>4, <1>10
    <3>2. Largest(Sections') = n + 1
      BY <3>1, LargestIs
    <3> QED BY <3>2 DEF Largest
  <2>2. Body(Largest(Sections))' = {}
    <3>1. \A j \in DOMAIN lines' : ~(n + 1 < j)
      BY <1>2
    <3> QED BY <2>1, <3>1 DEF Body
  <2>3. Section(Largest(Sections))' = NoFeed
    BY <2>2 DEF Section, NoFeed
  <2>4. Exactly(config'.feeds, FileDefs')
    <3>1. CASE in_feed
      <4>1. \A i \in Sections : Body(i)' = Body(i)
        BY <1>1, <1>10, BodyStep
      <4>2. \A i \in Sections : Section(i)' = Section(i)
        BY <1>1, <4>1, SectionSame
      <4>3. Closed' = Sections
        <5>1. Sections' = Sections \cup {n + 1} /\ \A i \in Sections : i < n + 1 /\ i \in Nat
          BY <1>2, <1>3, <1>4, <1>10
        <5> HIDE DEF n
        <5>2. \A i \in Sections : \E j \in Sections' : i < j
          BY <5>1
        <5>3. \A j \in Sections' : ~(n + 1 < j)
          BY <1>2, <5>1
        <5> QED BY <1>7, <5>1, <5>2, <5>3
      <4>4. DOMAIN FileDefs' = Sections /\ \A i \in Sections : FileDefs'[i] = Section(i)
        BY <1>8, <4>2, <4>3
      <4>5. config' = CommitPendingFeed(config)
        BY <1>10 DEF ReadSection
      <4> QED BY <1>1, <1>4, <3>1, <4>4, <4>5, CommitExact
    <3>2. CASE ~in_feed
      <4>1. Closed' = {} /\ Closed = {}
        BY <1>2, <1>3, <1>4, <1>6, <1>7, <1>10, <3>2
      <4>2. FileDefs' = FileDefs
        BY <1>8, <4>1 DEF FileDefs
      <4>3. config' = config
        BY <1>10, <3>2 DEF ReadSection, CommitPendingFeed
      <4> QED BY <1>5, <4>2, <4>3
    <3> QED BY <1>1, <3>1, <3>2
  <2> QED BY <1>10, <2>3, <2>4 DEF ReadSection
<1>11. CASE line.kind # "section"
  <2>1. Sections' = Sections /\ Closed' = Closed /\ Largest(Sections)' = m
    BY <1>3, <1>6, <1>7, <1>11, <1>m DEF Largest
  <2>2. \A i \in Closed : Body(i)' = Body(i)
    <3> SUFFICES ASSUME NEW i \in Closed PROVE Body(i)' = Body(i)
      OBVIOUS
    <3>1. i \in Sections /\ ~ \A s \in Sections : s <= i
      BY <1>4, <1>6
    <3> QED BY <1>1, <3>1, BodyStep
  <2>3. \A i \in Closed : Section(i)' = Section(i)
    BY <1>1, <2>2, SectionSame
  <2>4. FileDefs' = FileDefs
    BY <1>8, <2>1, <2>3 DEF FileDefs
  <2>5. CASE line.kind = "pair" /\ ReadPair(line.key, line.text)
    <3>1. in_feed' = in_feed
      BY <2>5 DEF ReadPair
    <3>2. CASE in_feed
      <4>1. m \in Sections /\ \A s \in Sections : s <= m
        BY <1>1, <1>4, <1>m, <3>2, LastSection
      <4>2. config' = config
           /\ pending' = IF line.key \in FeedKeys THEN With(pending, line.key, line.text) ELSE pending
        BY <2>5, <3>2 DEF ReadPair
      <4>3. CASE line.key \in FeedKeys
        <5>1. Body(m)' = Body(m) \cup {Len(lines) + 1}
          BY <1>1, <2>5, <4>1, <4>3, BodyStep
        <5>2. Section(m)' = With(Section(m), line.key, line.text)
          BY <1>1, <5>1, SectionMore
        <5>3. Section(Largest(Sections))' = Section(m)'
          BY <2>1 DEF Section, Body
        <5> QED BY <1>5, <2>4, <3>2, <4>2, <4>3, <5>2, <5>3
      <4>4. CASE line.key \notin FeedKeys
        <5>1. Body(m)' = Body(m)
          BY <1>1, <4>1, <4>4, BodyStep
        <5>2. Section(m)' = Section(m)
          BY <1>1, <5>1, SectionSame
        <5>3. Section(Largest(Sections))' = Section(m)'
          BY <2>1 DEF Section, Body
        <5> QED BY <1>5, <2>4, <3>2, <4>2, <4>4, <5>2, <5>3
      <4> QED BY <4>3, <4>4
    <3>3. CASE ~in_feed
      <4>1. config' = ApplyValue(config, line.key, line.text)
        BY <2>5, <3>3 DEF ReadPair
      <4>2. config'.feeds = config.feeds
        BY <1>1, <4>1, ApplyEffect DEF Sound
      <4> QED BY <1>5, <2>4, <3>1, <3>3, <4>2
    <3> QED BY <1>1, <3>2, <3>3
  <2>6. CASE line.kind = "other" /\ UNCHANGED <<config, in_feed, pending>>
    <3>1. ASSUME in_feed PROVE pending' = Section(Largest(Sections))'
      <4>1. m \in Sections
        BY <1>1, <1>4, <1>m, <3>1, LastSection
      <4>2. Body(m)' = Body(m)
        BY <1>1, <2>6, <4>1, BodyStep
      <4>3. Section(m)' = Section(m)
        BY <1>1, <4>2, SectionSame
      <4>4. Section(Largest(Sections))' = Section(m)'
        BY <2>1 DEF Section, Body
      <4> QED BY <1>5, <2>6, <3>1, <4>3, <4>4
    <3> QED BY <1>5, <2>4, <2>6, <3>1
  <2> QED BY <1>11, <2>5, <2>6 DEF ReadLine
<1> QED BY <1>10, <1>11 DEF ReadLine

\* A step that leaves what is read and the list alone keeps FeedInv.
LEMMA SameFeeds ==
  ASSUME FeedInv, UNCHANGED <<argv, pass, at, reading, in_feed, pending, lines>>,
         config'.feeds = config.feeds
  PROVE  FeedInv'
<1>1. \A i : Section(i)' = Section(i)
  BY DEF Section, Body, Sections, Largest
<1>2. Largest(Sections)' = Largest(Sections) /\ Sections' = Sections
  BY DEF Largest, Sections
<1>3. Section(Largest(Sections))' = Section(Largest(Sections))
  BY <1>2 DEF Section, Body, Sections, Largest
<1>4. FileDefs' = FileDefs
  BY <1>1, <1>2 DEF FileDefs, Closed
<1>5. DefsTo(at)' = DefsTo(at)
  BY <1>1, <1>2 DEF DefsTo
<1> QED BY <1>3, <1>4, <1>5 DEF FeedInv, Exactly, Lists, Firsts, Rank, ValidFeed

LEMMA FeedInit == Init => FeedInv
<1> SUFFICES ASSUME Init PROVE FeedInv
  OBVIOUS
<1>1. ~reading /\ pass = 1 /\ lines = <<>> /\ config.feeds = <<>>
  BY DEF Init, NewConfig
<1>2. DOMAIN FileDefs = {}
  BY <1>1 DEF FileDefs, Closed, Sections
<1> QED BY <1>1, <1>2, NoneExact DEF FeedInv

\* Every step keeps FeedInv.
LEMMA FeedStep == TypeInv /\ ValueInv /\ FeedInv /\ [Next]_vars => FeedInv'
<1> SUFFICES ASSUME TypeInv, ValueInv, FeedInv, [Next]_vars PROVE FeedInv'
  OBVIOUS
<1>a. /\ Sound(config) /\ TypePending /\ TypeScan /\ StageInv /\ config \in Configs
      /\ argv \in Seq(Options) /\ Len(argv) \in Nat /\ at \in Nat /\ lines \in Seq(Lines)
  BY LenProperties DEF TypeInv, TypeScan, Sound
<1>b. ASSUME pass' = 1, ~reading', Exactly(config'.feeds, FileDefs') PROVE FeedInv'
  BY <1>b DEF FeedInv, Exactly, Lists, Firsts, Rank, ValidFeed
<1>c. ASSUME pass' = 2, ~reading', Exactly(config'.feeds, DefsTo(at)') PROVE FeedInv'
  BY <1>c DEF FeedInv, Exactly, Lists, Firsts, Rank, ValidFeed
<1>1. CASE ScanOption
  <2>1. pass = 1 /\ UNCHANGED <<pass, reading, lines, config>> /\ ~reading
    BY <1>1 DEF ScanOption, Scanning, parser
  <2>2. FileDefs' = FileDefs
    BY <2>1 DEF FileDefs, Closed, Section, Body, Sections, Largest
  <2> QED BY <1>b, <2>1, <2>2 DEF FeedInv
<1>2. CASE OpenFile
  <2>1. pass' = 1 /\ ~in_feed' /\ lines' = <<>> /\ config'.feeds = <<>>
    BY <1>2 DEF OpenFile, LoadsFile, NewConfig
  <2>2. DOMAIN FileDefs' = {}
    BY <2>1 DEF FileDefs, Closed, Sections
  <2>3. Exactly(config'.feeds, FileDefs')
    BY <2>1, <2>2, NoneExact
  <2> QED BY <2>1, <2>3 DEF FeedInv, Exactly, Lists, Firsts, Rank, ValidFeed
<1>3. CASE EndOfFile
  <2>1. /\ pass = 1 /\ pass' = 1 /\ reading /\ ~reading' /\ lines' = lines
        /\ config' = CommitPendingFeed(config) /\ in_feed \in BOOLEAN
    BY <1>a, <1>3 DEF EndOfFile, CommitAtEnd, StageInv, TypeScan, TypeFlags
  <2>2. Sections' = Sections /\ \A i : Section(i)' = Section(i)
    BY <2>1 DEF Section, Body, Sections, Largest
  <2>3. DOMAIN FileDefs' = Sections /\ \A i \in Sections : FileDefs'[i] = Section(i)
    BY <2>1, <2>2 DEF FileDefs, Closed
  <2>4. CASE in_feed
    <3>1. Sections # {}
      BY <2>4 DEF ValueInv
    <3> QED BY <1>b, <2>1, <2>3, <2>4, <3>1, CommitExact
  <2>5. CASE ~in_feed
    <3>1. Sections = {} /\ config' = config
      BY <2>1, <2>5 DEF ValueInv, CommitPendingFeed
    <3>2. FileDefs' = FileDefs
      BY <2>1, <2>2, <3>1 DEF FileDefs, Closed
    <3> QED BY <1>b, <2>1, <3>1, <3>2 DEF FeedInv
  <2> QED BY <2>1, <2>4, <2>5
<1>4. ASSUME NEW line \in Lines, ReadLine(line) PROVE FeedInv'
  BY <1>4, LineExact
<1>5. CASE SecondPass
  <2>1. /\ pass = 1 /\ pass' = 2 /\ at' = 1 /\ ~reading /\ ~reading'
        /\ UNCHANGED <<argv, lines, config>>
    BY <1>5 DEF SecondPass, Scanning, parser
  <2>2. \A i \in Sections : i <= Len(lines)
    BY <1>a, LenProperties DEF Sections
  <2>3. {j \in DOMAIN argv : argv[j].opt = "feed" /\ j < 1} = {}
    BY <1>a, LenProperties
  <2>4. Sections' = Sections /\ \A i : Section(i)' = Section(i)
    BY <2>1 DEF Section, Body, Sections, Largest
  <2>5. DefsTo(at)' = [p \in Sections |-> Section(p)]
    BY <2>1, <2>2, <2>3, <2>4 DEF DefsTo
  <2>6. FileDefs = [p \in Sections |-> Section(p)]
    BY <2>1 DEF FileDefs, Closed
  <2> QED BY <1>c, <2>1, <2>5, <2>6 DEF FeedInv
<1>6. CASE ApplyOption
  <2>1. /\ pass = 2 /\ pass' = 2 /\ at' = at + 1 /\ at \in 1 .. Len(argv) /\ ~reading'
        /\ UNCHANGED <<argv, lines>> /\ config' = Overridden(config, argv[at])
    BY <1>a, <1>6 DEF ApplyOption, Scanning, parser, TypeScan
  <2>2. Sections' = Sections /\ \A i : Section(i)' = Section(i)
    BY <2>1 DEF Section, Body, Sections, Largest
  <2>3. DefsTo(at)' = DefsTo(at + 1)
    BY <2>1, <2>2 DEF DefsTo
  <2>4. Exactly(config'.feeds, DefsTo(at + 1))
    BY <2>1, OptionExact
  <2> QED BY <1>c, <2>1, <2>3, <2>4
<1>7. CASE Start
  <2>1. UNCHANGED <<argv, pass, at, reading, in_feed, pending, lines, config>>
    BY <1>7 DEF Start, parser
  <2> QED BY <2>1, SameFeeds
<1>8. ASSUME NEW g \in {"heartbeat_interval", "heartbeat_timeout"}, NEW t \in Typed,
             SetByCommand(g, t)
      PROVE  FeedInv'
  <2>1. /\ UNCHANGED <<argv, pass, at, reading, in_feed, pending, lines>>
        /\ config' = [config EXCEPT !.values[g] = t]
    BY <1>8 DEF SetByCommand, parser
  <2>2. config'.feeds = config.feeds
    BY <1>a, <2>1 DEF Configs
  <2> QED BY <2>1, <2>2, SameFeeds
<1>9. CASE UNCHANGED vars
  BY <1>9, SameFeeds DEF vars, parser
<1> QED BY <1>1, <1>2, <1>3, <1>4, <1>5, <1>6, <1>7, <1>8, <1>9 DEF Next

\* The monitor has the first valid definition of each id, in order: no section
\* is lost, and none lends a key to the next.
THEOREM FeedsCorrect == Spec => []FeedsExact
<1>1. TypeInv /\ FeedInv => FeedsExact
  <2> SUFFICES ASSUME TypeInv, FeedInv, status = "running" PROVE Lists(config.feeds, Defined)
    BY DEF FeedsExact
  <2>1. pass = 2 /\ at = Len(argv) + 1 /\ Len(argv) \in Nat /\ DOMAIN argv = 1 .. Len(argv)
    BY LenProperties DEF TypeInv, StageInv, TypeScan
  <2>2. {j \in DOMAIN argv : argv[j].opt = "feed" /\ j < at}
          = {j \in DOMAIN argv : argv[j].opt = "feed"}
    BY <2>1
  <2>3. DefsTo(at) = Defined
    BY <2>2 DEF DefsTo, Defined
  <2> QED BY <2>1, <2>3 DEF FeedInv, Exactly
<1>2. Init => TypeInv /\ ValueInv /\ FeedInv
  BY TypeInit, ValueInit, FeedInit
<1>3. TypeInv /\ ValueInv /\ FeedInv /\ [Next]_vars => (TypeInv /\ ValueInv /\ FeedInv)'
  BY TypeStep, ValueStep, FeedStep
<1> QED BY <1>1, <1>2, <1>3, PTL DEF Spec

=============================================================================
