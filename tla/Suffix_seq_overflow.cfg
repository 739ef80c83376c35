\* A sequence number past uint32 max wraps in parse_rotation_suffix.
CONSTANTS
  StrInputs <- MCStrInputs
  IntInputs <- MCIntInputs
  None = None
  SuffixInputs <- MCOverflowInputs
SPECIFICATION PSpec
INVARIANT SeqIsValue
