--------------------------- MODULE RotationSuffix ---------------------------
(***************************************************************************)
(* The rotated-file naming of src/logger_core/src/rotating_file_sink.cpp:  *)
(* the name rotate_locked gives a rotated file, <base>.<ts>[.<seq>], and   *)
(* parse_rotation_suffix, which the pruner uses to recognise such a name   *)
(* and to extract the (timestamp, sequence) key it sorts by.               *)
(*                                                                         *)
(* A string is the sequence of its ASCII codes.  The parser's accumulator  *)
(* is a std::uint32_t, so its arithmetic is modulo 2^32; TLC's integers    *)
(* are 32-bit signed, so a uint32 is the record of its two 16-bit halves.  *)
(* RotatingFileSink.tla abstracts a rotated name to its key [ts, seq];     *)
(* the round trip checked here is what justifies that abstraction.         *)
(***************************************************************************)
EXTENDS Naturals, Sequences, SequencesExt

CONSTANTS
  BaseName,    \* the base file name (filename part of the base path)
  Inputs,      \* directory entry names given to parse_rotation_suffix
  TsSamples,   \* timestamps make_timestamp_utc may return
  SeqSamples   \* sequence numbers the uniqueness probe may pick

DOT    == 46
USCORE == 95
B16    == 65536   \* 2^16: one half of a uint32

\* Mutant: '9' is not accepted as a digit.
IsDigit_NoNine(c) == c >= 48 /\ c < 57

\* The digit test of parse_rotation_suffix: '0' <= c <= '9'.
IsDigit(c) == c >= 48 /\ c <= 57

\* Timestamp shape: 8 digits, an underscore, 6 digits.
TsShapeOk(ts) ==
  /\ \A i \in 1..8 : IsDigit(ts[i])
  /\ ts[9] = USCORE
  /\ \A i \in 10..15 : IsDigit(ts[i])

\* The uint32 value q, for 0 <= q < 2^31.
U32Of(q) == [hi |-> q \div B16, lo |-> q % B16]

\* acc * 10 + d in uint32_t arithmetic: the carry out of the top half is lost.
MulAdd(acc, d) ==
  LET l == acc.lo * 10 + d
  IN  [hi |-> (acc.hi * 10 + l \div B16) % B16, lo |-> l % B16]

\* Mutant: the accumulator forgets to shift by one decimal place.
SeqAcc_NoShift(ds) ==
  FoldLeft(LAMBDA acc, c : MulAdd(U32Of(0), acc.lo + (c - 48)), U32Of(0), ds)

\* acc = acc * 10 + (c - '0') over the digits of seq_str.
SeqAcc(ds) == FoldLeft(LAMBDA acc, c : MulAdd(acc, c - 48), U32Of(0), ds)

\* parse_rotation_suffix(filename, base_filename, &ts, &seq): ok is its
\* return value; ts and seq are what it stores when it returns true.
ParseRotationSuffix(fn, base) ==
  LET prefix == Append(base, DOT)
      rest   == SubSeq(fn, Len(prefix) + 1, Len(fn))
      ts     == SubSeq(rest, 1, 15)
      seqStr == SubSeq(rest, 17, Len(rest))
      ok     == /\ IsPrefix(prefix, fn)
                /\ Len(rest) >= 15
                /\ TsShapeOk(ts)
                /\ Len(rest) > 15 =>
                     /\ rest[16] = DOT
                     /\ seqStr # <<>>
                     /\ \A i \in DOMAIN seqStr : IsDigit(seqStr[i])
  IN  IF ok THEN [ok |-> TRUE, ts |-> ts, seq |-> IF Len(rest) > 15 THEN SeqAcc(seqStr) ELSE U32Of(0)]
      ELSE [ok |-> FALSE, ts |-> <<>>, seq |-> U32Of(0)]

\* std::to_string of an unsigned sequence number below 10^9: its k digits,
\* most significant first, with no leading zero.
Decimal(n) ==
  LET k == CHOOSE k \in 1..9 : n < 10^k
  IN  [i \in 1..k |-> 48 + ((n \div 10^(k - i)) % 10)]

\* Mutant: the sequence number is appended without its dot.
RotatedFileName_NoDot(base, ts, q) ==
  base \o <<DOT>> \o ts \o (IF q = 0 THEN <<>> ELSE Decimal(q))

\* The name rotate_locked renames the base file to: base_path_ + "." + ts,
\* plus "." + std::to_string(seq) when the plain name was taken.
RotatedFileName(base, ts, q) ==
  base \o <<DOT>> \o ts \o (IF q = 0 THEN <<>> ELSE <<DOT>> \o Decimal(q))

VARIABLES
  fn,     \* a directory entry name
  made    \* the key of a name rotate_locked builds

Init == fn \in Inputs /\ made \in [ts : TsSamples, seq : SeqSamples]
Next == UNCHANGED <<fn, made>>
Spec == Init /\ [][Next]_<<fn, made>>

-----------------------------------------------------------------------------
(***************************************************************************)
(* Reference: the naming convention of spec section 4.4 step 2, a name is  *)
(* <base>.<ts> or <base>.<ts>.<seq> with ts 8 digits, '_', 6 digits, and   *)
(* seq a non-negative integer written in decimal.                          *)
(***************************************************************************)
Digits == 48..57
TsShape(s) == Len(s) = 15 /\ \A i \in 1..15 : IF i = 9 THEN s[i] = USCORE ELSE s[i] \in Digits
RefPrefix == Append(BaseName, DOT)
RefTs(f)   == SubSeq(f, Len(RefPrefix) + 1, Len(RefPrefix) + 15)
RefTail(f) == SubSeq(f, Len(RefPrefix) + 16, Len(f))
RefMatches(f) ==
  /\ Len(f) >= Len(RefPrefix) + 15
  /\ f = RefPrefix \o RefTs(f) \o RefTail(f)
  /\ TsShape(RefTs(f))
  /\ \/ RefTail(f) = <<>>
     \/ Len(RefTail(f)) >= 2 /\ RefTail(f)[1] = DOT /\ Tail(RefTail(f)) \in Seq(Digits)
\* Unbounded naturals as little-endian base-2^16 limbs without a zero top
\* limb: 0 is <<>>.  NatMulAdd(ls, c) is ls * 10 + c, for c < 2^16.
RECURSIVE NatMulAdd(_, _)
NatMulAdd(ls, c) ==
  IF ls = <<>> THEN IF c = 0 THEN <<>> ELSE <<c>>
  ELSE LET v == Head(ls) * 10 + c
       IN  <<v % B16>> \o NatMulAdd(Tail(ls), v \div B16)
AsNat(u) == IF u.hi # 0 THEN <<u.lo, u.hi>> ELSE IF u.lo # 0 THEN <<u.lo>> ELSE <<>>
\* The natural number a digit string denotes.
RefValue(ds) == FoldLeft(LAMBDA ls, c : NatMulAdd(ls, c - 48), <<>>, ds)
RefSeq(f) == IF RefTail(f) = <<>> THEN <<>> ELSE RefValue(Tail(RefTail(f)))

\* parse_rotation_suffix accepts exactly the names of the convention, and
\* returns their timestamp: the base name itself, another base sharing its
\* prefix, a bad timestamp byte, a missing or empty ".<seq>", and a
\* non-digit in it are all rejected.
ParseAcceptsShape ==
  LET r == ParseRotationSuffix(fn, BaseName)
  IN  r.ok = RefMatches(fn) /\ (r.ok => r.ts = RefTs(fn))

\* The sequence number the pruner sorts by is the number the name spells.
SeqIsValue ==
  LET r == ParseRotationSuffix(fn, BaseName)
  IN  r.ok => AsNat(r.seq) = RefSeq(fn)

\* Every name rotate_locked builds parses back to the timestamp and
\* sequence it was built from: the pruner sees the key rotation chose.
NamesRoundTrip ==
  ParseRotationSuffix(RotatedFileName(BaseName, made.ts, made.seq), BaseName)
    = [ok |-> TRUE, ts |-> made.ts, seq |-> U32Of(made.seq)]
=============================================================================
