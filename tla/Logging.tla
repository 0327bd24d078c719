------------------------------- MODULE Logging -------------------------------
(***************************************************************************)
(* Log levels and PrefixedLogger (Strings.hh, Strings.cc): the program's   *)
(* level, and loggers made from each other.  A prefix is the sequence of   *)
(* the parts it was put together from; what is printed is what counts.     *)
(***************************************************************************)
EXTENDS Integers, Sequences, FiniteSetsExt

CONSTANTS
  Levels,                 \* the levels that are used, of those in LogLevel
  MaxLoggers              \* bound: how many loggers are made

VARIABLES
  current_log_level,
  loggers,                \* each [prefix, min_level, parent, own]: own is the level it was made with, parent 0 for none
  logged                  \* the last message: [logger, level, outcome]

logVars == <<current_log_level, loggers, logged>>

LogLevel == [USE_DEFAULT |-> -1, DEBUG |-> 0, INFO |-> 1, WARNING |-> 2, ERROR |-> 3, DISABLED |-> 4]
log_level_chars == <<"D", "I", "W", "E">>

LogInit ==
  /\ current_log_level = LogLevel.INFO
  /\ loggers = <<>>
  /\ logged = [logger |-> 0, level |-> -1, outcome |-> "dropped"]

set_log_level(level) == current_log_level' = level /\ UNCHANGED <<loggers, logged>>

PrefixedLogger(prefix, min_level) ==
  /\ Len(loggers) < MaxLoggers
  /\ loggers' = Append(loggers, [prefix |-> <<prefix>>, min_level |-> min_level, parent |-> 0, own |-> min_level])
  /\ UNCHANGED <<current_log_level, logged>>

\* The new logger has the level that this one was made with, not what this one logs at.
sub(logger, prefix, min_level) ==
  /\ Len(loggers) < MaxLoggers
  /\ loggers' = Append(loggers,
       [prefix |-> Append(loggers[logger].prefix, prefix),
        min_level |-> IF min_level = LogLevel.USE_DEFAULT THEN loggers[logger].min_level ELSE min_level,
        parent |-> logger, own |-> min_level])
  /\ UNCHANGED <<current_log_level, logged>>

\* Mutant: the program's level holds for every logger.
EffectiveHigher(logger) == Max({loggers[logger].min_level, current_log_level})

effective_level(logger) ==
  IF loggers[logger].min_level = LogLevel.USE_DEFAULT THEN current_log_level ELSE loggers[logger].min_level

\* print_log_prefix has no character for the levels USE_DEFAULT and DISABLED and throws.
Outcome(level, min_level) ==
  IF level < min_level THEN "dropped" ELSE IF level + 1 \in DOMAIN log_level_chars THEN "printed" ELSE "thrown"

\* log_f, of the program (logger 0) or of a logger
log_f(logger, level) ==
  /\ logged' = [logger |-> logger, level |-> level,
                outcome |-> Outcome(level, IF logger = 0 THEN current_log_level ELSE effective_level(logger))]
  /\ UNCHANGED <<current_log_level, loggers>>

LogNext ==
  \/ \E level \in Levels :
       \/ set_log_level(level)
       \/ PrefixedLogger("a", level)
       \/ \E logger \in DOMAIN loggers : sub(logger, "b", level)
       \/ \E logger \in 0..Len(loggers) : log_f(logger, level)

LogSpec == LogInit /\ [][LogNext]_logVars
-----------------------------------------------------------------------------
\* The loggers from this one up to the first that has no parent or was made with
\* a level of its own, which is the level of the last of them.
Paths == UNION {[1..n -> DOMAIN loggers] : n \in 1..Len(loggers)}
IsPath(path, logger) ==
  /\ path[1] = logger
  /\ \A i \in 1..(Len(path) - 1) :
       loggers[path[i]].own = LogLevel.USE_DEFAULT /\ loggers[path[i]].parent = path[i + 1]
  /\ LET last == loggers[path[Len(path)]] IN last.own # LogLevel.USE_DEFAULT \/ last.parent = 0

\* The level that such a path gives; the program's when it ends in a logger without one.
LevelOf(path) ==
  LET own == loggers[path[Len(path)]].own
  IN  IF own = LogLevel.USE_DEFAULT THEN current_log_level ELSE own

Wants(logger, min_level) ==
  IF logger = 0 THEN min_level = current_log_level
  ELSE \E path \in Paths : IsPath(path, logger) /\ min_level = LevelOf(path)

PrintsAtItsLevel ==
  logged' # logged =>
    \E min_level \in Levels \cup {LogLevel.INFO} :
      /\ Wants(logged'.logger, min_level)
      /\ logged'.outcome = "dropped" <=> logged'.level < min_level
      /\ logged'.level = LogLevel.DISABLED => logged'.outcome = "thrown"
      /\ logged'.outcome = "printed" => logged'.level \in 0..3

(* A logger prints at the level of its nearest ancestor that has one of its own, and follows the    *)
(* program's level, whenever that is set, when there is none; a message at the level DISABLED       *)
(* always throws, and one at USE_DEFAULT throws when it gets through.                                *)
FollowsItsParents == [][PrintsAtItsLevel]_logVars
=============================================================================
