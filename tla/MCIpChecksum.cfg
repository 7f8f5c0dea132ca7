\* Header sums from zero to thirty times 0xFFFF; TLC's integers end below 2^32.
CONSTANTS
  Headers <- MCHeaders
  WordCount <- MCWordCount
  SumMod = 1073741824
SPECIFICATION Spec
INVARIANTS TypeOK ChecksumVerifies
CHECK_DEADLOCK FALSE
