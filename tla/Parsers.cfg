\* level_from_string and level_from_int against their documented tables;
\* parse_rotation_suffix against the rotation-suffix convention.
CONSTANTS
  StrInputs <- MCStrInputs
  IntInputs <- MCIntInputs
  None = None
  SuffixInputs <- MCSuffixInputs
SPECIFICATION PSpec
INVARIANT FromStringMatchesRef ToStringRoundTrip FromIntMatchesDoc
INVARIANT ParseAcceptsShape SeqIsValue NamesRoundTrip
