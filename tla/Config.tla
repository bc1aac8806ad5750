-------------------------------- MODULE Config --------------------------------
(***************************************************************************)
(* How the monitor comes to its configuration: apply_cli_overrides goes    *)
(* over the options twice, first for --config, then for the rest;          *)
(* parse_config_file reads a file line by line; main then starts, or       *)
(* prints its usage; set-interval and set-timeout change it later.         *)
(*                                                                         *)
(* A text is the integer it denotes, or something that is no integer.      *)
(* 2^32 and 2^16 are scaled down to IntRange and PortRange.                *)
(***************************************************************************)
EXTENDS Integers, Sequences, FiniteSets

CONSTANTS
  IntRange, PortRange,  \* 2^32 and 2^16
  Blank,                \* the empty text
  Info, Levels,         \* the default log level, and all of them
  FeedKeys,             \* the keys a feed must have, of id, name, host, port
  Lines,                \* lines a file may hold
  Options,              \* options the command line may hold
  Typed,                \* arguments of set-interval and set-timeout
  MaxLines, MaxOptions  \* bounds on both

ASSUME ConfigAssumption ==
  /\ IntRange \in Nat /\ IntRange % 2 = 0 /\ IntRange > 2 * 256  \* the defaults fit
  /\ PortRange \in Nat \ {0}
  /\ Info \in Levels /\ Levels \cap Int = {} /\ Blank \notin Int
  /\ "id" \in FeedKeys /\ FeedKeys \subseteq {"id", "name", "host", "port"}
  /\ MaxLines \in Nat /\ MaxOptions \in Nat

Durations == {"heartbeat_interval", "heartbeat_timeout", "reconnect_base_delay",
              "reconnect_max_delay", "tick_interval"}
IntFields == {"max_missed_heartbeats", "epoll_max_events", "max_reconnect_attempts"}
Switches == {"tcp_nodelay", "edge_triggered"}
Fields == Durations \cup IntFields \cup Switches \cup {"log_level"}

Default ==
  [heartbeat_interval |-> 1000, heartbeat_timeout |-> 3000, max_missed_heartbeats |-> 3,
   reconnect_base_delay |-> 500, reconnect_max_delay |-> 30000,
   max_reconnect_attempts |-> -1, epoll_max_events |-> 256, tick_interval |-> 50,
   tcp_nodelay |-> 1, edge_triggered |-> 1, log_level |-> Info]

VARIABLES
  argv,               \* the options, fixed
  pass, at,           \* which of the two loops over them, and where it is
  config,             \* values, feeds, help_requested
  reading,            \* inside parse_config_file
  in_feed, pending,   \* its section flag and PendingFeed, a map of the keys seen
  status,             \* "starting", "running", "help" or "usage"
  lines, typed        \* history: the file read last, the last set-... by field

vars == <<argv, pass, at, config, reading, in_feed, pending, status, lines, typed>>
parser == <<reading, in_feed, pending, lines>>

-----------------------------------------------------------------------------
\* Definitions named Bug... are wrong on purpose, each a slip one could make in
\* the definition that follows it; nothing uses them but the sensitivity runs.

\* require_int_at_least, try_parse_bool and is_valid_log_level
Accepts(field, text) ==
  \/ field \in Durations \cup IntFields /\ text \in Int
       /\ text >= (IF field = "max_reconnect_attempts" THEN -1 ELSE 1)
  \/ field \in Switches /\ text \in {0, 1}
  \/ field = "log_level" /\ text \in Levels

\* The values of an int
Ints == -(IntRange \div 2) .. (IntRange \div 2) - 1

\* static_cast<int>, which comes after the check
AsInt(v) == ((v + IntRange \div 2) % IntRange) - IntRange \div 2

\* One key of a file or one flag; a text that is not accepted changes nothing.
ApplyValue(c, field, text) ==
  IF Accepts(field, text)
  THEN [c EXCEPT !.values[field] = IF field \in IntFields THEN AsInt(text) ELSE text]
  ELSE c

BugPortZero(feed) ==
  /\ DOMAIN feed = FeedKeys
  /\ feed["id"] \in 0 .. IntRange - 1
  /\ "host" \in FeedKeys => feed["host"] # Blank
  /\ "port" \in FeedKeys => feed["port"] \in 0 .. PortRange - 1

\* The checks of validate_and_add_feed, up to the one for duplicates
ValidFeed(feed) ==
  /\ DOMAIN feed = FeedKeys
  /\ feed["id"] \in 0 .. IntRange - 1
  /\ "host" \in FeedKeys => feed["host"] # Blank
  /\ "port" \in FeedKeys => feed["port"] \in 1 .. PortRange - 1

\* validate_and_add_feed
AddFeed(c, feed) ==
  IF ValidFeed(feed) /\ \A i \in DOMAIN c.feeds : c.feeds[i]["id"] # feed["id"]
  THEN [c EXCEPT !.feeds = Append(@, feed)]
  ELSE c

NoFeed == [k \in {} |-> Blank]

\* A key assigned to, with the other keys as they were
With(map, key, value) ==
  [k \in DOMAIN map \cup {key} |-> IF k = key THEN value ELSE map[k]]

\* commit_pending_feed
CommitPendingFeed(c) == IF in_feed THEN AddFeed(c, pending) ELSE c

BugLastFeedLost(c) == c

\* The commit after the last line
CommitAtEnd(c) == CommitPendingFeed(c)

NewConfig == [values |-> Default, feeds |-> <<>>, help_requested |-> FALSE]

Init ==
  /\ argv \in UNION {[1 .. n -> Options] : n \in 0 .. MaxOptions}
  /\ pass = 1 /\ at = 1 /\ config = NewConfig
  /\ reading = FALSE /\ in_feed = FALSE /\ pending = NoFeed /\ lines = <<>>
  /\ status = "starting" /\ typed = [f \in {} |-> 0]

-----------------------------------------------------------------------------
(* apply_cli_overrides, first loop, and parse_config_file                  *)

Scanning(p) == status = "starting" /\ pass = p /\ ~reading

BugConfigAgain(option) == option.opt = "config" /\ option.opens

\* A file that cannot be opened is passed over, and so is every other option.
LoadsFile(option) == pass = 1 /\ option.opt = "config" /\ option.opens

ScanOption ==
  /\ Scanning(1) /\ at <= Len(argv) /\ ~LoadsFile(argv[at])
  /\ at' = at + 1
  /\ UNCHANGED <<argv, pass, config, parser, status, typed>>

\* parse_config_file starts from a new Config, which replaces the caller's.
OpenFile ==
  /\ status = "starting" /\ ~reading /\ at <= Len(argv) /\ LoadsFile(argv[at])
  /\ reading' = TRUE /\ in_feed' = FALSE /\ pending' = NoFeed /\ lines' = <<>>
  /\ config' = NewConfig
  /\ UNCHANGED <<argv, pass, at, status, typed>>

ReadSection ==
  /\ config' = CommitPendingFeed(config)
  /\ in_feed' = TRUE /\ pending' = NoFeed

\* In a [feed] section only feed keys count, before the first one only others.
ReadPair(key, text) ==
  /\ config' = IF in_feed THEN config ELSE ApplyValue(config, key, text)
  /\ pending' = IF in_feed /\ key \in FeedKeys THEN With(pending, key, text) ELSE pending
  /\ UNCHANGED in_feed

\* One line; "other" is empty, a comment or malformed.
ReadLine(line) ==
  /\ reading /\ Len(lines) < MaxLines
  /\ lines' = Append(lines, line)
  /\ \/ line.kind = "section" /\ ReadSection
     \/ line.kind = "pair" /\ ReadPair(line.key, line.text)
     \/ line.kind = "other" /\ UNCHANGED <<config, in_feed, pending>>
  /\ UNCHANGED <<argv, pass, at, reading, status, typed>>

EndOfFile ==
  /\ reading /\ reading' = FALSE
  /\ config' = CommitAtEnd(config)
  /\ at' = at + 1
  /\ UNCHANGED <<argv, pass, in_feed, pending, status, lines, typed>>

-----------------------------------------------------------------------------
(* The second loop, main and the commands                                  *)

SecondPass ==
  /\ Scanning(1) /\ at > Len(argv)
  /\ pass' = 2 /\ at' = 1
  /\ UNCHANGED <<argv, config, parser, status, typed>>

\* What a flag does; --config and an unknown or malformed option do nothing here.
Overridden(c, option) ==
  CASE option.opt = "set" -> ApplyValue(c, option.field, option.text)
    [] option.opt = "feed" -> AddFeed(c, option.feed)
    [] option.opt = "help" -> [c EXCEPT !.help_requested = TRUE]
    [] OTHER -> c

ApplyOption ==
  /\ Scanning(2) /\ at <= Len(argv) /\ ~LoadsFile(argv[at])
  /\ config' = Overridden(config, argv[at])
  /\ at' = at + 1
  /\ UNCHANGED <<argv, pass, parser, status, typed>>

Start ==
  /\ Scanning(2) /\ at > Len(argv)
  /\ status' = IF config.help_requested THEN "help"
               ELSE IF config.feeds = <<>> THEN "usage" ELSE "running"
  /\ UNCHANGED <<argv, pass, at, config, parser, typed>>

\* set-interval and set-timeout: any int is taken, and one out of range refused.
SetByCommand(field, text) ==
  /\ status = "running"
  /\ text \in Int /\ AsInt(text) = text
  /\ config' = [config EXCEPT !.values[field] = text]
  /\ typed' = With(typed, field, text)
  /\ UNCHANGED <<argv, pass, at, parser, status>>

Next ==
  \/ ScanOption \/ OpenFile \/ EndOfFile
  \/ \E line \in Lines : ReadLine(line)
  \/ SecondPass \/ ApplyOption \/ Start
  \/ \E f \in {"heartbeat_interval", "heartbeat_timeout"}, t \in Typed : SetByCommand(f, t)

Spec == Init /\ [][Next]_vars

-----------------------------------------------------------------------------
(* Properties                                                              *)

\* Every variable keeps its type, and every feed can be connected to: its id is a
\* uint32_t, its host is named and its port is a TCP port, which 0 is not.
TypeOK ==
  /\ argv \in Seq(Options) /\ pass \in {1, 2} /\ at \in 1 .. MaxOptions + 1
  /\ DOMAIN config.values = Fields
  /\ \A f \in IntFields : config.values[f] \in Ints
  /\ \A f \in Durations : config.values[f] \in Int
  /\ \A i \in DOMAIN config.feeds : LET feed == config.feeds[i] IN
       /\ feed["id"] \in 0 .. IntRange - 1
       /\ "host" \in FeedKeys => feed["host"] # Blank
       /\ "port" \in FeedKeys => feed["port"] \in 1 .. PortRange - 1
  /\ reading \in BOOLEAN /\ in_feed \in BOOLEAN /\ DOMAIN pending \subseteq FeedKeys
  /\ status \in {"starting", "running", "help", "usage"} /\ lines \in Seq(Lines)

Largest(S) == CHOOSE i \in S : \A j \in S : j <= i

Sections == {i \in DOMAIN lines : lines[i].kind = "section"}

Flags(f) == {i \in DOMAIN argv : /\ argv[i].opt = "set" /\ argv[i].field = f
                                 /\ Accepts(f, argv[i].text)}

Globals(f) == {i \in DOMAIN lines : /\ lines[i].kind = "pair" /\ lines[i].key = f
                                    /\ Accepts(f, lines[i].text)
                                    /\ \A j \in Sections : i < j}

\* The value the sources give a field: the last command's, else the last
\* accepted flag's, else the last accepted line's, as it is written there
Chosen(f) ==
  IF f \in DOMAIN typed THEN typed[f]
  ELSE IF Flags(f) # {} THEN argv[Largest(Flags(f))].text
  ELSE IF Globals(f) # {} THEN lines[Largest(Globals(f))].text
  ELSE Default[f]

\* config.h's precedence, "CLI flags > --config file > base's built-in
\* defaults", wherever --config stands among the flags: a field has the value
\* written last in the strongest source that has an accepted one, what is refused
\* hides nothing, and of several files only the last that opens counts.  This is
\* so of every value the field can hold; a count that is accepted and does not fit
\* an int is stored as another value, which config.h does not say.
Precedence ==
  status = "running" =>
    \A f \in Fields : (f \in IntFields => Chosen(f) \in Ints) => config.values[f] = Chosen(f)

\* The lines of the section that starts at line i, up to the next section
Body(i) == {j \in DOMAIN lines : /\ lines[j].kind = "pair" /\ lines[j].key \in FeedKeys
                                 /\ i < j /\ \A s \in Sections : s <= i \/ j < s}

\* The feed it defines: the last text of each key
Section(i) ==
  [k \in {lines[j].key : j \in Body(i)} |->
     lines[Largest({j \in Body(i) : lines[j].key = k})].text]

\* Every feed that is defined, by its place: a line of the file, or beyond the
\* lines an option
Defined ==
  [p \in Sections \cup {Len(lines) + i : i \in {j \in DOMAIN argv : argv[j].opt = "feed"}} |->
     IF p <= Len(lines) THEN Section(p) ELSE argv[p - Len(lines)].feed]

\* The places of the first valid definition of each id
Firsts(defs) ==
  {p \in DOMAIN defs :
     /\ ValidFeed(defs[p])
     /\ \A q \in DOMAIN defs :
          q < p => ~(ValidFeed(defs[q]) /\ defs[q]["id"] = defs[p]["id"])}

Rank(S, p) == Cardinality({q \in S : q <= p})

\* feeds is the first valid definition of each id, in order, and nothing else.
Lists(feeds, defs) ==
  /\ Len(feeds) = Cardinality(Firsts(defs))
  /\ \A p \in Firsts(defs) : feeds[Rank(Firsts(defs), p)] = defs[p]

\* "One bad [feed] section never prevents the other feeds in the file (or on
\* the CLI) from being monitored": the monitor has the first valid definition of
\* each id, in order, the last section of the file included, and no section
\* lends a key to the next.
FeedsExact == status = "running" => Lists(config.feeds, Defined)
=============================================================================
