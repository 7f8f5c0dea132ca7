---------------------------- MODULE MCCompressor ----------------------------
(* Texts and dictionaries for TLC.                                         *)
EXTENDS Compressor

MCTexts ==
  { <<"a">>, <<"d">>, <<"a", "b">>, <<"a", "b", "c">>,
    <<"a", "b", "a", "c", "a">>,               \* ends with the word of "a *"
    <<"a", "b", "a", "b", "c", "a", "b">>,     \* shared node of "a b *", "* a b"
    <<"d", "a", "b", "c", "a", "b", "d">> }    \* words that stay rare

MCDictionaries == { <<"">>, <<"a", "e", "A">>, <<"b", "", "c">> }
MCLower == [l \in {"", "A", "a", "b", "c", "e"} |-> IF l = "A" THEN "a" ELSE l]
=============================================================================
