----------------------------- MODULE Compressor -----------------------------
(***************************************************************************)
(* TwoTierTextCompressor of Compression/main.cpp: compress builds a word   *)
(* dictionary and a phrase dictionary from the text, replaces phrases and  *)
(* writes variable-width codes; decompress reads the dictionaries and the  *)
(* codes back.  The stream is the sequence of its bits: that bytes hold    *)
(* them faithfully is module BitIO.  A text is its sequence of tokens, as  *)
(* tokenize_raw returns it.                                                *)
(*                                                                         *)
(* The phrases are found by iterating over unordered_maps, words of equal  *)
(* frequency are sorted by an unstable sort: both orders are left open.    *)
(***************************************************************************)
EXTENDS Integers, FiniteSets, SequencesExt

CONSTANTS
  Texts,        \* texts, without a token "*"
  Dictionaries, \* lines a dictionary file may hold
  Lower,        \* Lower[l]: line l in lower case
  MaxPhrase,    \* 5: words of the longest phrase
  FewNgrams,    \* 1000: below it n-grams that occur once are phrases too
  MaxOut        \* bound: words of the output that are recorded

MIN_PHRASE_FREQ == 2
Star == "*"           \* stands for the wildcard in a pattern
NoWord == ""          \* the empty string
NoPos == 0            \* the phrase has no wildcard
UINT32_MAX == -1      \* the code of a wildcard

ASSUME CompressorAssumption ==
  /\ \A t \in Texts : t \in Seq(ToSet(t)) /\ Star \notin ToSet(t)
  /\ \A d \in Dictionaries : d \in Seq(ToSet(d))
  /\ MaxPhrase \in Nat

VARIABLES
  phase,     \* load, wild, regular, match, encode, decode, or what failed
  text,      \* raw_tokens
  main,      \* main_decode_dict (dec) and main_encode_dict (enc)
  mainBits,  \* main_max_bit_length of the encoder
  todo,      \* patterns or n-grams the iteration has still to visit
  phrases,   \* phrase_decode_dict
  trie,      \* the ends of phrases in the trie, by the path that leads there
  at,        \* index into the text (match) or into tokens (encode)
  tokens,    \* processed_tokens, and where each stands in the text
  local,     \* local_decode_dict
  file,      \* eng.dict: the words and the phrases
  bits,      \* the token bits of the compressed file
  wrote,     \* position and type of every token written (history)
  dpos,      \* position of the reader in bits
  read,      \* position and type of the tokens read (history)
  out        \* the words of the output file, up to MaxOut

dictVars == <<main, mainBits, phrases, trie>>
streamVars == <<file, bits, wrote>>
readVars == <<dpos, read, out>>
vars == <<phase, text, dictVars, todo, at, tokens, local, streamVars, readVars>>

-----------------------------------------------------------------------------
(* Bits needed for n codes.                                                *)
Width(n) == CHOOSE b \in 0..n : 2^b >= n /\ \A c \in 0..(b - 1) : 2^c < n
ToBits(v, n) == [k \in 1..n |-> (v \div 2^(n - k)) % 2]

Count(s, P(_)) == Cardinality({k \in DOMAIN s : P(s[k])})
Freq(w) == LET n == Count(text, LAMBDA v : v = w) IN IF n = 0 THEN 1 ELSE n

(* load_dictionary_words                                                   *)
DictionaryOf(lines) ==
  LET load[n \in 0..Len(lines)] ==
        IF n = 0 THEN <<>>
        ELSE IF lines[n] = NoWord THEN load[n - 1] ELSE Append(load[n - 1], Lower[lines[n]])
  IN load[Len(lines)]

(* The dictionary in some order of descending frequency; a word that is    *)
(* listed twice keeps its last code.                                       *)
ByFrequency(words) ==
  { [k \in DOMAIN words |-> words[p[k]]] :
      p \in {q \in [DOMAIN words -> DOMAIN words] :
               /\ IsInjective(q)
               /\ \A j, k \in DOMAIN words :
                    j < k => Freq(words[q[j]]) >= Freq(words[q[k]])} }
MainDict(dec) ==
  [dec |-> dec,
   enc |-> [w \in ToSet(dec) |-> Max({k \in DOMAIN dec : dec[k] = w}) - 1]]

(* A map with key k set to v.                                              *)
Set(m, k, v) == [x \in DOMAIN m \cup {k} |-> IF x = k THEN v ELSE m[x]]

(* "Add to main dictionary if not present"                                 *)
AddWord_Late(d, w) ==  \* mutant: the size is read after push_back
  IF w \in DOMAIN d.enc THEN d
  ELSE [dec |-> Append(d.dec, w), enc |-> Set(d.enc, w, Len(d.dec) + 1)]
AddWord(d, w) ==
  IF w \in DOMAIN d.enc THEN d
  ELSE [dec |-> Append(d.dec, w), enc |-> Set(d.enc, w, Len(d.dec))]
AddWords(d, ws) ==
  LET add[n \in 0..Len(ws)] == IF n = 0 THEN d ELSE AddWord(add[n - 1], ws[n])
  IN add[Len(ws)]
CodesOf(d, ws) == [k \in DOMAIN ws |-> IF ws[k] = Star THEN UINT32_MAX ELSE d.enc[ws[k]]]

(* N-grams and the patterns they make with one word replaced.              *)
Windows(n) == {SubSeq(text, s, s + n - 1) : s \in 1..(Len(text) - n + 1)}
Ngrams == UNION {Windows(n) : n \in 2..MaxPhrase}
Patterns == UNION {{[g EXCEPT ![k] = Star] : k \in DOMAIN g} : g \in Ngrams}
FitsAt(pat, s) ==
  /\ s + Len(pat) - 1 <= Len(text)
  /\ \A k \in DOMAIN pat : pat[k] \in {Star, text[s + k - 1]}
Occurrences(pat) == {s \in DOMAIN text : FitsAt(pat, s)}
WildPos(pat) == CHOOSE k \in DOMAIN pat : pat[k] = Star
WildWords(pat) == {text[s + WildPos(pat) - 1] : s \in Occurrences(pat)}
Path(pat) == RemoveAt(pat, WildPos(pat))

Frequent(pat) == Cardinality(Occurrences(pat)) >= MIN_PHRASE_FREQ
WildPhrases == {pat \in Patterns : Frequent(pat)}
RegularPhrases == {g \in Ngrams : Frequent(g) \/ Cardinality(Ngrams) < FewNgrams}

-----------------------------------------------------------------------------
Init ==
  /\ phase = "load"
  /\ text \in Texts
  /\ main = [dec |-> <<>>, enc |-> <<>>] /\ mainBits = 0
  /\ phrases = <<>> /\ trie = <<>>
  /\ todo = {} /\ at = 1 /\ tokens = <<>> /\ local = <<>>
  /\ file = [words |-> <<>>, phrases |-> <<>>] /\ bits = <<>> /\ wrote = <<>>
  /\ dpos = 0 /\ read = {} /\ out = <<>>

(* Steps 4 and 5 of compress; an empty dictionary is an error.             *)
LoadDictionary(lines) ==
  LET words == DictionaryOf(lines) IN
  /\ phase = "load"
  /\ IF words = <<>>
     THEN phase' = "load_failed" /\ UNCHANGED <<main, mainBits, todo>>
     ELSE /\ phase' = "wild"
          /\ \E dec \in ByFrequency(words) : main' = MainDict(dec)
          /\ mainBits' = Width(Len(words))
          /\ todo' = WildPhrases
  /\ UNCHANGED <<text, phrases, trie, at, tokens, local, streamVars, readVars>>

(* find_wildcard_phrases: pattern words, then the words found in place of  *)
(* the wildcard, enter the dictionary; the path skips the wildcard, so     *)
(* that several patterns may end at the same node.                         *)
AddWildcardPhrase(pat) ==
  /\ phase = "wild" /\ pat \in todo
  /\ \E ws \in SetToSeqs(WildWords(pat)) : main' = AddWords(AddWords(main, Path(pat)), ws)
  /\ phrases' = Append(phrases, [codes |-> CodesOf(main', pat), wild |-> WildPos(pat)])
  /\ trie' = Set(trie, Path(pat), [id |-> Len(phrases), wild |-> WildPos(pat)])
  /\ todo' = todo \ {pat}
  /\ UNCHANGED <<phase, text, mainBits, at, tokens, local, streamVars, readVars>>

WildcardsDone ==
  /\ phase = "wild" /\ todo = {}
  /\ phase' = "regular" /\ todo' = RegularPhrases
  /\ UNCHANGED <<text, dictVars, at, tokens, local, streamVars, readVars>>

(* find_regular_phrases: a node that ended a wildcard phrase keeps         *)
(* has_wildcard and wildcard_pos and gets the new phrase's id.             *)
AddRegularPhrase_Keep(g) ==  \* mutant: a node that ends a phrase is kept
  /\ phase = "regular" /\ g \in todo
  /\ main' = AddWords(main, g)
  /\ phrases' = Append(phrases, [codes |-> CodesOf(main', g), wild |-> NoPos])
  /\ trie' = IF g \in DOMAIN trie THEN trie
             ELSE Set(trie, g, [id |-> Len(phrases), wild |-> NoPos])
  /\ todo' = todo \ {g}
  /\ UNCHANGED <<phase, text, mainBits, at, tokens, local, streamVars, readVars>>
AddRegularPhrase(g) ==
  /\ phase = "regular" /\ g \in todo
  /\ main' = AddWords(main, g)
  /\ phrases' = Append(phrases, [codes |-> CodesOf(main', g), wild |-> NoPos])
  /\ trie' = Set(trie, g, [id |-> Len(phrases),
                           wild |-> IF g \in DOMAIN trie THEN trie[g].wild ELSE NoPos])
  /\ todo' = todo \ {g}
  /\ UNCHANGED <<phase, text, mainBits, at, tokens, local, streamVars, readVars>>

RegularDone ==
  /\ phase = "regular" /\ todo = {}
  /\ phase' = "match"
  /\ UNCHANGED <<text, dictVars, todo, at, tokens, local, streamVars, readVars>>

-----------------------------------------------------------------------------
(* process_with_phrases: the longest phrase that starts at i, and the word *)
(* the last match with a wildcard position inside the text left behind.    *)
Ended(i) == {j \in 1..MaxPhrase : /\ i + j - 1 <= Len(text)
                                 /\ SubSeq(text, i, i + j - 1) \in DOMAIN trie}
EndNode(i, j) == trie[SubSeq(text, i, i + j - 1)]
WildSeen(i) == {j \in Ended(i) : /\ EndNode(i, j).wild # NoPos
                                 /\ i + EndNode(i, j).wild - 1 <= Len(text)}
WildcardWord(i) ==
  IF WildSeen(i) = {} THEN NoWord
  ELSE text[i + EndNode(i, Max(WildSeen(i))).wild - 1]

Token(t, w, id, n) == [type |-> t, word |-> w, phrase_id |-> id, from |-> at, len |-> n]

MatchPhrase ==
  LET n == Max(Ended(at))
      node == EndNode(at, n)
  IN /\ phase = "match" /\ at <= Len(text) /\ Ended(at) # {}
     /\ tokens' = tokens \o <<Token("PHRASE", NoWord, node.id, n)>>
          \o IF node.wild = NoPos THEN <<>>
             ELSE <<Token("WILDCARD", WildcardWord(at), node.id, 0)>>
     /\ at' = at + n
     /\ UNCHANGED <<phase, text, dictVars, todo, local, streamVars, readVars>>

MatchWord ==
  /\ phase = "match" /\ at <= Len(text) /\ Ended(at) = {}
  /\ tokens' = Append(tokens, Token("WORD", text[at], 0, 1))
  /\ at' = at + 1
  /\ UNCHANGED <<phase, text, dictVars, todo, local, streamVars, readVars>>

(* Steps 9 to 11: the words without a code, and the dictionary file.       *)
RareWord_Repeated(t) ==  \* mutant: words that occur once are left out
  t.type = "WORD" /\ t.word \notin DOMAIN main.enc /\ Freq(t.word) > 1
RareWord(t) == t.type = "WORD" /\ t.word \notin DOMAIN main.enc
AddRare(s, t) == IF RareWord(t) /\ t.word \notin ToSet(s) THEN Append(s, t.word) ELSE s
LocalWords ==
  LET add[n \in 0..Len(tokens)] == IF n = 0 THEN <<>> ELSE AddRare(add[n - 1], tokens[n])
  IN add[Len(tokens)]
WriteDictionaries == [words |-> main.dec, phrases |-> phrases]
BuildLocal ==
  /\ phase = "match" /\ at > Len(text)
  /\ local' = LocalWords
  /\ file' = WriteDictionaries
  /\ phase' = "encode" /\ at' = 1
  /\ UNCHANGED <<text, dictVars, todo, tokens, bits, wrote, readVars>>

-----------------------------------------------------------------------------
(* The width of main codes was computed before the phrases added words,    *)
(* and compress never sets phrase_max_bit_length.                          *)
PhraseBits == 0
InMain(w) == w \in DOMAIN main.enc
Encodable(t) == t.type = "PHRASE" \/ InMain(t.word) \/ t.word \in ToSet(local)
LocalCode(w) == CHOOSE k \in DOMAIN local : local[k] = w
WordBits(w) ==
  IF InMain(w) THEN <<0>> \o ToBits(main.enc[w], mainBits)
  ELSE <<1>> \o ToBits(LocalCode(w) - 1, Width(Len(local)))
TokenBits(t) ==
  CASE t.type = "WORD" -> WordBits(t.word)
    [] t.type = "PHRASE" -> <<1, 0>> \o ToBits(t.phrase_id, PhraseBits)
    [] t.type = "WILDCARD" -> <<1, 1>> \o WordBits(t.word)

EncodeToken ==
  /\ phase = "encode" /\ at <= Len(tokens) /\ Encodable(tokens[at])
  /\ bits' = bits \o TokenBits(tokens[at])
  /\ wrote' = Append(wrote, <<Len(bits), tokens[at].type>>)
  /\ at' = at + 1
  /\ UNCHANGED <<phase, text, dictVars, todo, tokens, local, file, readVars>>

EncodeFails ==
  /\ phase = "encode" /\ at <= Len(tokens) /\ ~Encodable(tokens[at])
  /\ phase' = "encode_failed"
  /\ UNCHANGED <<text, dictVars, todo, at, tokens, local, streamVars, readVars>>

(* write_to_file fills the last byte with zeros; decompress starts.        *)
EncodeDone ==
  /\ phase = "encode" /\ at > Len(tokens)
  /\ bits' = bits \o [k \in 1..((-Len(bits)) % 8) |-> 0]
  /\ phase' = "decode"
  /\ UNCHANGED <<text, dictVars, todo, at, tokens, local, file, wrote, readVars>>

-----------------------------------------------------------------------------
(* decompress.  load_dictionaries skips empty words; the widths are those  *)
(* of what it reads.  Beyond its end the stream yields no more bits.       *)
LoadedWords == SelectSeq(file.words, LAMBDA w : w # NoWord)
Skip_None(p, n) == p  \* mutant: the reader stays where it is
Skip(p, n) == IF p + n > Len(bits) THEN Len(bits) ELSE p + n
Read(p, n) == FoldLeft(LAMBDA v, b : 2 * v + b, 0, SubSeq(bits, p + 1, Skip(p, n)))

Entry(dict, p) ==
  LET c == Read(p, Width(Len(dict))) IN
  [ok |-> c < Len(dict), pos |-> Skip(p, Width(Len(dict))),
   words |-> IF c < Len(dict) THEN <<dict[c + 1]>> ELSE <<>>]

(* The word behind a wildcard phrase: type bits 11, then its dictionary.   *)
Wildcard(p) ==
  LET e == Entry(IF Read(p + 2, 1) = 0 THEN LoadedWords ELSE local, Skip(p, 3))
  IN [e EXCEPT !.ok = @ /\ Read(p, 2) = 3]

PhraseWords(ph, dict, w) ==
  [k \in DOMAIN ph.codes |-> IF k = ph.wild THEN w ELSE dict[ph.codes[k] + 1]]
PhraseAt(p) ==
  LET id == Read(p, Width(Len(file.phrases)))
      q == Skip(p, Width(Len(file.phrases)))
      ph == file.phrases[id + 1]
      w == Wildcard(q)
  IN IF id >= Len(file.phrases) THEN [ok |-> FALSE, pos |-> q, words |-> <<>>]
     ELSE IF ph.wild = NoPos
          THEN [ok |-> TRUE, pos |-> q, words |-> PhraseWords(ph, LoadedWords, NoWord)]
     ELSE [ok |-> w.ok, pos |-> w.pos,
           words |-> IF w.ok THEN PhraseWords(ph, LoadedWords, w.words[1]) ELSE <<>>]

TypeAt(p) == IF Read(p, 1) = 0 THEN "main"
             ELSE IF Read(p + 1, 1) = 0 THEN "local" ELSE "phrase"
TokenAt(p) ==
  CASE TypeAt(p) = "main" -> Entry(LoadedWords, Skip(p, 1))
    [] TypeAt(p) = "local" -> Entry(local, Skip(p, 2))
    [] TypeAt(p) = "phrase" -> PhraseAt(Skip(p, 2))

(* bits_read is below 8 between two calls, so there is always more.        *)
HasMore == dpos \div 8 < Len(bits) \div 8 \/ dpos % 8 < 8

Recorded(s) == SubSeq(s, 1, IF Len(s) > MaxOut THEN MaxOut ELSE Len(s))
NoteType ==
  read' = IF dpos = Len(bits) THEN read
          ELSE read \cup {<<dpos, IF TypeAt(dpos) = "phrase" THEN "PHRASE" ELSE "WORD">>}

DecodeToken ==
  /\ phase = "decode" /\ HasMore /\ TokenAt(dpos).ok
  /\ dpos' = TokenAt(dpos).pos
  /\ out' = Recorded(out \o TokenAt(dpos).words)
  /\ NoteType
  /\ UNCHANGED <<phase, text, dictVars, todo, at, tokens, local, streamVars>>

DecodeFails ==
  /\ phase = "decode" /\ HasMore /\ ~TokenAt(dpos).ok
  /\ phase' = "decode_failed"
  /\ NoteType
  /\ UNCHANGED <<text, dictVars, todo, at, tokens, local, streamVars, dpos, out>>

Next ==
  \/ \E lines \in Dictionaries : LoadDictionary(lines)
  \/ \E x \in todo : AddWildcardPhrase(x) \/ AddRegularPhrase(x)
  \/ WildcardsDone \/ RegularDone
  \/ MatchPhrase \/ MatchWord \/ BuildLocal
  \/ EncodeToken \/ EncodeFails \/ EncodeDone
  \/ DecodeToken \/ DecodeFails

Spec == Init /\ [][Next]_vars
FairSpec == Spec /\ WF_vars(Next)

-----------------------------------------------------------------------------
(* The two halves of the main dictionary agree however often words are     *)
(* added: the code of a word leads back to it, also for a word the         *)
(* dictionary file lists twice, and every code of a phrase is one.         *)
CodesLeadBack ==
  /\ \A w \in DOMAIN main.enc :
       main.enc[w] < Len(main.dec) /\ main.dec[main.enc[w] + 1] = w
  /\ \A k \in DOMAIN phrases : \A c \in ToSet(phrases[k].codes) :
       c = UINT32_MAX \/ c < Len(main.dec)

(* Words of the text that are a regular phrase are replaced by that        *)
(* phrase, which stands for exactly these words, although its node in the  *)
(* trie may be shared with wildcard phrases and overwritten; and nothing   *)
(* else is replaced by a phrase without a wildcard.                        *)
PhraseStandsForItsWords ==
  \A k \in DOMAIN tokens :
    LET t == tokens[k]
        words == SubSeq(text, t.from, t.from + t.len - 1)
        phrase == phrases[t.phrase_id + 1]
    IN t.type = "PHRASE" /\ (words \in RegularPhrases \/ phrase.wild = NoPos) =>
         phrase.wild = NoPos /\ PhraseWords(phrase, main.dec, NoWord) = words

(* compress finds a code for every token, the "Word not found in either    *)
(* dictionary" errors do not occur, unless a wildcard phrase is matched at *)
(* the very end of the text, where no word can stand for its wildcard.     *)
EncodingFailsOnlyAtEnd ==
  phase = "encode_failed" =>
    /\ tokens[at].type = "WILDCARD" /\ tokens[at].word = NoWord
    /\ tokens[at].from + tokens[at - 1].len - 1 = Len(text)

(* decompress reads its whole input or reports an error.                   *)
DecoderReachesEnd == phase = "decode" ~> (dpos = Len(bits) \/ phase = "decode_failed")

(* "Type bits: 10 = phrase reference": where the encoder wrote a token the *)
(* decoder reads a token of the same type.                                 *)
TypesAgree ==
  \A r \in read, w \in ToSet(wrote) : r[1] = w[1] => r[2] = w[2]
=============================================================================
