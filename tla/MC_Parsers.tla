----------------------------- MODULE MC_Parsers -----------------------------
(***************************************************************************)
(* The pure parsers of the logger core in one model: the level parsers of  *)
(* Level.tla and the rotated-name parser of RotationSuffix.tla.  A state   *)
(* is one input of one of them; the other's variables hold a fixed input.  *)
(***************************************************************************)
EXTENDS MC_Level

CONSTANT SuffixInputs   \* names given to parse_rotation_suffix

VARIABLES fn, made

\* "a.b": a base file name that itself contains a dot.
MCBase == <<97, 46, 98>>
\* "20240131_235959" and "19700101_000000".
TS1 == <<50, 48, 50, 52, 48, 49, 51, 49, 95, 50, 51, 53, 57, 53, 57>>
TS2 == <<49, 57, 55, 48, 48, 49, 48, 49, 95, 48, 48, 48, 48, 48, 48>>
\* Sequence numbers the probe may pick: none, its first and last, a carry.
MCSeqs == {0, 1, 9, 10, 9999}
\* A decimal digit string, from its digits.
Digs(ds) == [i \in DOMAIN ds |-> ds[i] + 48]
\* The rotated name with timestamp ts and sequence digits ds (none: <<>>).
Name(ts, ds) == MCBase \o <<46>> \o ts \o (IF ds = <<>> THEN <<>> ELSE <<46>> \o Digs(ds))
SeqName(ds) == Name(TS1, ds)

RS == INSTANCE RotationSuffix
        WITH BaseName <- MCBase, Inputs <- SuffixInputs,
             TsSamples <- {TS1, TS2}, SeqSamples <- MCSeqs

\* '/', '0', '9', ':', '_', '.', 'a': each digit bound and its neighbours.
Alphabet == {47, 48, 57, 58, 95, 46, 97}
Valid == SeqName(<<1, 2>>)
Drop(s, i) == SubSeq(s, 1, i - 1) \o SubSeq(s, i + 1, Len(s))

\* Names the pruner may list: rotated names of both shapes, every
\* one-byte substitution, deletion and extension of one of them, every
\* prefix of it, the base file itself, a longer base sharing its prefix,
\* leading zeros, a carry into the upper half, and uint32 max.
MCSuffixInputs ==
  {Name(ts, ds) : ts \in {TS1, TS2}, ds \in {<<>>, <<1>>, <<9>>, <<1, 0>>, <<9, 9, 9, 9>>}}
  \cup {[Valid EXCEPT ![i] = c] : i \in DOMAIN Valid, c \in Alphabet}
  \cup {Drop(Valid, i) : i \in DOMAIN Valid}
  \cup {Append(Valid, c) : c \in Alphabet}
  \cup {[i \in 1..k |-> Valid[i]] : k \in 0..Len(Valid) - 1}
  \cup {<<97, 46, 98, 99, 46>> \o TS1, <<97, 46>> \o TS1, TS1}
  \cup {SeqName(<<0, 0, 7>>), SeqName(<<6, 5, 5, 3, 6>>),
        SeqName(<<4, 2, 9, 4, 9, 6, 7, 2, 9, 5>>)}

\* Sequence numbers past uint32 max: 2^32, 2^32 + 10, 99999999999.
MCOverflowInputs ==
  {SeqName(<<4, 2, 9, 4, 9, 6, 7, 2, 9, 6>>), SeqName(<<4, 2, 9, 4, 9, 6, 7, 3, 0, 6>>),
   SeqName(<<9, 9, 9, 9, 9, 9, 9, 9, 9, 9, 9>>)}

PInit ==
  \/ Init /\ fn = MCBase /\ made = [ts |-> TS1, seq |-> 0]
  \/ str = <<>> /\ num = 0 /\ RS!Init
PNext == UNCHANGED <<str, num, fn, made>>
PSpec == PInit /\ [][PNext]_<<str, num, fn, made>>

\* parse_rotation_suffix accepts exactly the names of the rotation-suffix
\* convention and returns their timestamp.
ParseAcceptsShape == RS!ParseAcceptsShape

\* The seq parse_rotation_suffix returns is the number the name spells.
SeqIsValue == RS!SeqIsValue

\* A name rotate_locked builds parses back to the key it was built from.
NamesRoundTrip == RS!NamesRoundTrip
=============================================================================
