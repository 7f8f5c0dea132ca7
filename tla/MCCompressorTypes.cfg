\* Phrases of up to three words; with four n-grams or more only repeated ones
\* are phrases.
CONSTANTS
  Texts <- MCTexts
  Dictionaries <- MCDictionaries
  Lower <- MCLower
  MaxPhrase = 3
  FewNgrams = 4
  MaxOut = 4
SPECIFICATION Spec
INVARIANT TypesAgree
CHECK_DEADLOCK FALSE
