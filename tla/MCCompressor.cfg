\* Phrases of up to three words; with four n-grams or more only repeated ones
\* are phrases.
CONSTANTS
  Texts <- MCTexts
  Dictionaries <- MCDictionaries
  Lower <- MCLower
  MaxPhrase = 3
  FewNgrams = 4
  MaxOut = 4
SPECIFICATION FairSpec
INVARIANTS CodesLeadBack PhraseStandsForItsWords 
PROPERTY DecoderReachesEnd
CHECK_DEADLOCK FALSE
