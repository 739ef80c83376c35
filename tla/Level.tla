------------------------------- MODULE Level -------------------------------
(***************************************************************************)
(* Severity levels (src/logger_core/include/logger/level.hpp and           *)
(* src/logger_core/src/level.cpp): the enum, to_string, and               *)
(* the two configuration parsers level_from_string (case-insensitive      *)
(* ASCII) and level_from_int (Trick numeric levels).                      *)
(*                                                                         *)
(* A string is the sequence of its ASCII codes; a Level is its uint8_t     *)
(* value (Debug = 0 .. Fatal = 4); std::nullopt is None.                   *)
(***************************************************************************)
EXTENDS Integers, Sequences, FiniteSets, TLC

CONSTANTS
  StrInputs,   \* strings given to level_from_string
  IntInputs,   \* ints given to level_from_int
  None         \* std::nullopt

Debug == 0
Info  == 1
Warn  == 2
Error == 3
Fatal == 4
Levels == {Debug, Info, Warn, Error, Fatal}

\* The canonical names, as ASCII codes.
DEBUG   == <<68, 69, 66, 85, 71>>
INFO    == <<73, 78, 70, 79>>
WARN    == <<87, 65, 82, 78>>
WARNING == <<87, 65, 82, 78, 73, 78, 71>>
ERROR   == <<69, 82, 82, 79, 82>>
FATAL   == <<70, 65, 84, 65, 76>>
UNKNOWN == <<85, 78, 75, 78, 79, 87, 78>>

\* Mutant: a copy-pasted case returns WARN for Error.
LevelToString_CopyPaste(lvl) ==
  CASE lvl = Debug -> DEBUG
    [] lvl = Info  -> INFO
    [] lvl \in {Warn, Error} -> WARN
    [] lvl = Fatal -> FATAL
    [] OTHER       -> UNKNOWN

\* to_string: the canonical name; "UNKNOWN" for a value outside the enum.
LevelToString(lvl) ==
  CASE lvl = Debug -> DEBUG
    [] lvl = Info  -> INFO
    [] lvl = Warn  -> WARN
    [] lvl = Error -> ERROR
    [] lvl = Fatal -> FATAL
    [] OTHER       -> UNKNOWN

\* Mutant: 'a' itself is not upper-cased.
ToUpperAscii_SkipA(c) == IF c > 97 /\ c <= 122 THEN c - 32 ELSE c

\* to_upper_ascii: 'a'..'z' to 'A'..'Z', every other byte unchanged.
ToUpperAscii(c) == IF c >= 97 /\ c <= 122 THEN c - 32 ELSE c

\* iequals_ascii: equal sizes and equal bytes after upper-casing.
IEqualsAscii(a, b) ==
  /\ Len(a) = Len(b)
  /\ \A i \in DOMAIN a : ToUpperAscii(a[i]) = ToUpperAscii(b[i])

\* level_from_string: the names tried in the code's order.
LevelFromString(s) ==
  CASE IEqualsAscii(s, DEBUG)                           -> Debug
    [] IEqualsAscii(s, INFO)                            -> Info
    [] IEqualsAscii(s, WARN) \/ IEqualsAscii(s, WARNING) -> Warn
    [] IEqualsAscii(s, ERROR)                           -> Error
    [] IEqualsAscii(s, FATAL)                           -> Fatal
    [] OTHER                                            -> None

\* Mutant: Trick "normal" (0) is not recognised.
LevelFromInt_NoNormal(v) ==
  CASE v = 1  -> Info
    [] v = 2  -> Warn
    [] v = 3  -> Error
    [] v = 10 -> Debug
    [] OTHER  -> None

\* level_from_int: the Trick numeric conventions.
LevelFromInt(v) ==
  CASE v \in {0, 1} -> Info
    [] v = 2        -> Warn
    [] v = 3        -> Error
    [] v = 10       -> Debug
    [] OTHER        -> None

VARIABLES str, num
vars == <<str, num>>

\* Every input pair is one state; nothing changes.
Init == str \in StrInputs /\ num \in IntInputs
Next == UNCHANGED vars
Spec == Init /\ [][Next]_vars

-----------------------------------------------------------------------------
(***************************************************************************)
(* Reference definitions, from the documentation in level.hpp.             *)
(***************************************************************************)
\* All spellings of a name that differ from it only in letter case.
CaseVariants(name) ==
  { [i \in DOMAIN name |-> IF i \in low /\ name[i] \in 65..90 THEN name[i] + 32 ELSE name[i]] :
      low \in SUBSET DOMAIN name }

\* The names each level accepts, as listed in the documentation of
\* to_string and level_from_string.
Accepted(lvl) == <<{DEBUG}, {INFO}, {WARN, WARNING}, {ERROR}, {FATAL}>>[lvl + 1]

RefFromString(s) ==
  IF \E l \in Levels : \E n \in Accepted(l) : s \in CaseVariants(n)
  THEN CHOOSE l \in Levels : \E n \in Accepted(l) : s \in CaseVariants(n)
  ELSE None

\* The mapping table of level_from_int's documentation.
RefFromInt == (0 :> Info) @@ (1 :> Info) @@ (2 :> Warn) @@ (3 :> Error) @@ (10 :> Debug)

\* level_from_string accepts exactly the case-insensitive spellings of the
\* five names and WARNING, and nothing else: no prefix, longer string, or
\* byte next to a letter range ('@', '[', '`', '{') is taken for a letter.
FromStringMatchesRef == LevelFromString(str) = RefFromString(str)

\* Whatever to_string prints for a level, level_from_string reads back as
\* the same level.
ToStringRoundTrip == num \in Levels => LevelFromString(LevelToString(num)) = num

\* level_from_int follows the table in its documentation and rejects
\* every other value.
FromIntMatchesDoc ==
  LevelFromInt(num) = IF num \in DOMAIN RefFromInt THEN RefFromInt[num] ELSE None
=============================================================================
