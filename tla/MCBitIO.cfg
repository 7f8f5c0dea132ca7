\* The fields the compressor writes: type bits, codes, characters, the sizes of
\* the local dictionary and of its words (one of them too long for its width).
CONSTANTS
  Fields <- MCFields
  MaxFields = 4
SPECIFICATION FairSpec
INVARIANT FieldsReadBack
PROPERTY AllFieldsArrive
CHECK_DEADLOCK FALSE
