------------------------- MODULE Compressor_proofs -------------------------
(***************************************************************************)
(* Whatever the text, the dictionary file and the order in which the hash  *)
(* maps are walked: the codes of the dictionaries lead back to the words   *)
(* they were given for, a regular phrase stands for the words it replaces, *)
(* and encoding fails only for a wildcard at the very end of the text.     *)
(* Of the bit packing below it: the fields written are the fields read.    *)
(*                                                                         *)
(* The loops over words are recursive functions; what they compute is      *)
(* proved by induction on their index, in the form of UpTo.                *)
(***************************************************************************)
EXTENDS Compressor, SequenceTheorems, FiniteSetTheorems, TLAPS

-----------------------------------------------------------------------------
(* Induction on naturals.                                                  *)
LEMMA Least ==
  ASSUME NEW T \in SUBSET Nat, T # {}
  PROVE  \E x \in T : \A y \in T : x <= y
<1> DEFINE R == OpToRel(<, Nat)
<1>1. IsWellFoundedOn(R, Nat)  BY NatLessThanWellFounded
<1>2. \A x, y \in Nat : y < x => <<y, x>> \in R  BY DEF OpToRel
<1> HIDE DEF R
<1>3. \E x \in T : \A y \in T : ~ (<<y, x>> \in R)  BY <1>1, WFMin
<1>4. \E x \in T : \A y \in T : ~ (y < x)  BY <1>2, <1>3, Zenon
<1> QED  BY <1>4, SMT

(* S is the set of numbers for which what is proved holds.                 *)
LEMMA UpTo ==
  ASSUME NEW n \in Nat, NEW S,
         0 \in S, \A m \in 0..(n - 1) : m \in S => m + 1 \in S
  PROVE  \A m \in 0..n : m \in S
<1> DEFINE T == {m \in 0..n : m \notin S}
<1> SUFFICES ASSUME T # {}  PROVE FALSE
  OBVIOUS
<1>1. T \in SUBSET Nat  OBVIOUS
<1>2. PICK x \in T : \A y \in T : x <= y  BY <1>1, Least
<1>3. x \in 1..n  OBVIOUS
<1>4. x - 1 \in 0..(n - 1) /\ x - 1 \notin T  BY <1>2, <1>3
<1>5. x - 1 \in S  BY <1>4
<1> QED  BY <1>3, <1>4, <1>5

(* A bounded set of numbers has a largest one.                             *)
LEMMA MaxOf ==
  ASSUME NEW N \in Nat, NEW S \in SUBSET (1..N), S # {}
  PROVE  Max(S) \in S /\ \A x \in S : x <= Max(S)
<1> DEFINE T == {N - x : x \in S}
<1>1. T \in SUBSET Nat /\ T # {}
  <2>1. \A x \in S : N - x \in Nat  OBVIOUS
  <2>2. T \in SUBSET Nat  BY <2>1
  <2> QED  BY <2>2
<1>2. PICK t \in T : \A u \in T : t <= u  BY <1>1, Least
<1>3. PICK m \in S : t = N - m  OBVIOUS
<1>4. ASSUME NEW x \in S  PROVE m >= x
  <2>1. N - x \in T  OBVIOUS
  <2>2. N - m <= N - x  BY <1>2, <1>3, <2>1
  <2> QED  BY <2>2
<1>5. Max(S) \in S /\ \A x \in S : Max(S) >= x  BY <1>3, <1>4, Zenon DEF Max
<1> QED  BY <1>5

(* A loop over 1..N whose body keeps its value in X has a value after each *)
(* iteration.                                                              *)
Runs(g, X, base, step, m) ==
  /\ g \in [0..m -> X] /\ g[0] = base
  /\ \A n \in 1..m : g[n] = step[<<g[n - 1], n>>]

LEMMA Recursion ==
  ASSUME NEW N \in Nat, NEW X, NEW base \in X, NEW step \in [X \X (1..N) -> X]
  PROVE  \E g : Runs(g, X, base, step, N)
<1> DEFINE S == {m \in 0..N : \E g : Runs(g, X, base, step, m)}
<1>1. 0 \in S
  <2> DEFINE g == [n \in 0..0 |-> base]
  <2>1. g \in [0..0 -> X] /\ g[0] = base /\ \A n \in 1..0 : g[n] = step[<<g[n - 1], n>>]
    OBVIOUS
  <2> HIDE DEF g
  <2>2. Runs(g, X, base, step, 0)  BY <2>1 DEF Runs
  <2> QED  BY <2>2
<1>2. ASSUME NEW m \in 0..(N - 1), m \in S  PROVE m + 1 \in S
  <2>1. PICK g : Runs(g, X, base, step, m)  BY <1>2
  <2> DEFINE v == step[<<g[m], m + 1>>]
             h == [n \in 0..(m + 1) |-> IF n = m + 1 THEN v ELSE g[n]]
  <2>2. g \in [0..m -> X] /\ g[0] = base /\ \A n \in 1..m : g[n] = step[<<g[n - 1], n>>]
    BY <2>1 DEF Runs
  <2>3. v \in X
    <3>1. g[m] \in X /\ m + 1 \in 1..N  BY <2>2
    <3>2. <<g[m], m + 1>> \in X \X (1..N)  BY <3>1
    <3> QED  BY <3>2
  <2>4. h \in [0..(m + 1) -> X]
    <3> HIDE DEF v
    <3> QED  BY <2>2, <2>3
  <2>5. h[0] = base
    <3> HIDE DEF v
    <3> QED  BY <2>2
  <2>6. ASSUME NEW n \in 1..(m + 1)  PROVE h[n] = step[<<h[n - 1], n>>]
    <3>1. n - 1 \in 0..m /\ h[n - 1] = g[n - 1]
      <4> HIDE DEF v
      <4> QED  OBVIOUS
    <3>2. CASE n = m + 1
      <4>1. h[n] = v /\ n - 1 = m  BY <3>2
      <4> HIDE DEF h
      <4> QED  BY <3>1, <3>2, <4>1
    <3>3. CASE n \in 1..m
      <4>1. h[n] = g[n]
        <5> HIDE DEF v
        <5> QED  BY <3>3
      <4> HIDE DEF h
      <4> QED  BY <2>2, <3>1, <3>3, <4>1
    <3> QED  BY <3>2, <3>3
  <2> HIDE DEF h
  <2>7. Runs(h, X, base, step, m + 1)  BY <2>4, <2>5, <2>6 DEF Runs
  <2> QED  BY <2>7
<1> HIDE DEF S
<1>3. \A m \in 0..N : m \in S  BY <1>1, <1>2, UpTo
<1>4. N \in S  BY <1>3
<1> QED  BY <1>4 DEF S

-----------------------------------------------------------------------------
(* The words, and the dictionaries whose codes lead back.                  *)
TextWords == UNION {ToSet(t) : t \in Texts}
DictLines == UNION {ToSet(d) : d \in Dictionaries}
AllWords == TextWords \cup {Lower[l] : l \in DictLines}
Enc == UNION {[S -> Nat] : S \in SUBSET AllWords}
LeadsBack(d) ==
  \A w \in DOMAIN d.enc : d.enc[w] < Len(d.dec) /\ d.dec[d.enc[w] + 1] = w
Dict == {d \in [dec : Seq(AllWords), enc : Enc] : LeadsBack(d)}

Extends(d, e) ==
  /\ Len(d.dec) <= Len(e.dec) /\ \A k \in 1..Len(d.dec) : e.dec[k] = d.dec[k]
  /\ DOMAIN d.enc \subseteq DOMAIN e.enc

LEMMA EncIs ==
  ASSUME NEW f, NEW S \in SUBSET AllWords
  PROVE  (f \in Enc /\ DOMAIN f = S) <=> f \in [S -> Nat]
BY DEF Enc

LEMMA DictIs ==
  ASSUME NEW d \in Dict
  PROVE  /\ d.dec \in Seq(AllWords) /\ Len(d.dec) \in Nat /\ d = [dec |-> d.dec, enc |-> d.enc]
         /\ DOMAIN d.enc \subseteq AllWords /\ d.enc \in [DOMAIN d.enc -> Nat]
         /\ LeadsBack(d)
BY DEF Dict, Enc

LEMMA IsDict ==
  ASSUME NEW c \in Seq(AllWords), NEW S \in SUBSET AllWords, NEW f \in [S -> Nat],
         \A w \in S : f[w] < Len(c) /\ c[f[w] + 1] = w
  PROVE  [dec |-> c, enc |-> f] \in Dict
<1>1. f \in Enc  BY EncIs
<1> QED  BY <1>1 DEF Dict, LeadsBack

LEMMA ExtendsTrans ==
  ASSUME NEW d \in Dict, NEW e \in Dict, NEW f \in Dict, Extends(d, e), Extends(e, f)
  PROVE  Extends(d, f)
<1>1. Len(d.dec) \in Nat /\ Len(e.dec) \in Nat /\ Len(f.dec) \in Nat  BY DictIs
<1> QED  BY <1>1 DEF Extends

(* One word more: the code is the size before push_back.                   *)
LEMMA AddWordGood ==
  ASSUME NEW d \in Dict, NEW w \in AllWords
  PROVE  AddWord(d, w) \in Dict /\ Extends(d, AddWord(d, w)) /\ w \in DOMAIN AddWord(d, w).enc
<1> DEFINE e == AddWord(d, w)
           n == Len(d.dec)
           c == Append(d.dec, w)
           f == Set(d.enc, w, n)
           S == DOMAIN d.enc \cup {w}
<1>0. /\ d.dec \in Seq(AllWords) /\ n \in Nat /\ d = [dec |-> d.dec, enc |-> d.enc]
      /\ DOMAIN d.enc \subseteq AllWords /\ d.enc \in [DOMAIN d.enc -> Nat]
      /\ LeadsBack(d)
  BY DictIs
<1>1. CASE w \in DOMAIN d.enc
  <2>1. e = d  BY <1>1 DEF AddWord
  <2>2. Extends(d, d)  BY <1>0 DEF Extends
  <2> QED  BY <1>1, <2>1, <2>2
<1>2. CASE w \notin DOMAIN d.enc
  <2>1. e = [dec |-> c, enc |-> f]  BY <1>2 DEF AddWord
  <2>2. c \in Seq(AllWords) /\ Len(c) = n + 1 /\ c[n + 1] = w /\ \A k \in 1..n : c[k] = d.dec[k]
    BY <1>0, AppendProperties
  <2>3. S \in SUBSET AllWords /\ f \in [S -> Nat] /\ f[w] = n /\ DOMAIN f = S
        /\ \A v \in DOMAIN d.enc : v # w => f[v] = d.enc[v]
    BY <1>0 DEF Set
  <2> HIDE DEF c, f, S, n, e
  <2>4. ASSUME NEW v \in S  PROVE f[v] < Len(c) /\ c[f[v] + 1] = v
    <3>1. CASE v = w  BY <1>0, <2>2, <2>3, <3>1
    <3>2. CASE v # w
      <4>1. v \in DOMAIN d.enc /\ f[v] = d.enc[v]  BY <2>3, <3>2 DEF S
      <4>2. d.enc[v] \in Nat /\ d.enc[v] < n /\ d.dec[d.enc[v] + 1] = v
        BY <1>0, <4>1 DEF LeadsBack, n
      <4>3. d.enc[v] + 1 \in 1..n  BY <1>0, <4>2
      <4> QED  BY <1>0, <2>2, <4>1, <4>2, <4>3
    <3> QED  BY <3>1, <3>2
  <2>5. [dec |-> c, enc |-> f] \in Dict  BY <2>2, <2>3, <2>4, IsDict
  <2>6. e \in Dict /\ e.dec = c /\ e.enc = f  BY <2>1, <2>5
  <2>7. Extends(d, e)
    <3>1. DOMAIN d.enc \subseteq DOMAIN e.enc  BY <2>3, <2>6 DEF S
    <3>2. n <= Len(e.dec) /\ \A k \in 1..n : e.dec[k] = d.dec[k]  BY <1>0, <2>2, <2>6
    <3> QED  BY <3>1, <3>2 DEF Extends, n
  <2>8. w \in DOMAIN e.enc  BY <2>3, <2>6 DEF S
  <2> QED  BY <2>6, <2>7, <2>8 DEF e
<1> QED  BY <1>1, <1>2

(* The loop over the words of a phrase.                                    *)
LEMMA AddWordsGood ==
  ASSUME NEW d \in Dict, NEW ws \in Seq(AllWords)
  PROVE  /\ AddWords(d, ws) \in Dict /\ Extends(d, AddWords(d, ws))
         /\ ToSet(ws) \subseteq DOMAIN AddWords(d, ws).enc
<1> DEFINE N == Len(ws)
           step == [x \in Dict \X (1..N) |-> AddWord(x[1], ws[x[2]])]
           Loop(g) == g = [n \in 0..N |-> IF n = 0 THEN d ELSE AddWord(g[n - 1], ws[n])]
<1>0. N \in Nat /\ \A k \in 1..N : ws[k] \in AllWords  OBVIOUS
<1> HIDE DEF N
<1>1. step \in [Dict \X (1..N) -> Dict]
  <2>1. ASSUME NEW x \in Dict \X (1..N)  PROVE AddWord(x[1], ws[x[2]]) \in Dict
    <3>1. x[1] \in Dict /\ ws[x[2]] \in AllWords  BY <1>0
    <3> QED  BY <3>1, AddWordGood
  <2> QED  BY <2>1
<1>2. PICK g : Runs(g, Dict, d, step, N)
  <2> HIDE DEF step
  <2> QED  BY <1>0, <1>1, Recursion
<1>3. Loop(g)
  <2>1. g \in [0..N -> Dict] /\ g[0] = d
    BY <1>2 DEF Runs
  <2>2. ASSUME NEW n \in 1..N  PROVE g[n] = AddWord(g[n - 1], ws[n])
    <3>1. g[n] = step[<<g[n - 1], n>>]  BY <1>2 DEF Runs
    <3>2. n - 1 \in 0..N  BY <1>0
    <3>3. <<g[n - 1], n>> \in Dict \X (1..N)  BY <2>1, <3>2
    <3> QED  BY <3>1, <3>3
  <2>3. \A n \in 0..N : g[n] = IF n = 0 THEN d ELSE AddWord(g[n - 1], ws[n])
    BY <1>0, <2>1, <2>2
  <2>4. g = [n \in 0..N |-> g[n]]  BY <2>1
  <2> QED  BY <2>3, <2>4, Zenon
<1>4. \E f : Loop(f) /\ AddWords(d, ws) = f[N]
  BY <1>3 DEF AddWords, N
<1>5. PICK f : Loop(f) /\ AddWords(d, ws) = f[N]  BY <1>4
<1>6. \A n \in 0..N : f[n] = IF n = 0 THEN d ELSE AddWord(f[n - 1], ws[n])  BY <1>5
<1> DEFINE S == {m \in 0..N : /\ f[m] \in Dict /\ Extends(d, f[m])
                              /\ \A k \in 1..m : ws[k] \in DOMAIN f[m].enc}
<1>7. 0 \in S
  <2>1. Extends(d, d)
    <3>1. Len(d.dec) \in Nat  BY DictIs
    <3> QED  BY <3>1 DEF Extends
  <2>2. f[0] = d /\ 0 \in 0..N  BY <1>0, <1>6
  <2> QED  BY <2>1, <2>2
<1>8. ASSUME NEW m \in 0..(N - 1), m \in S  PROVE m + 1 \in S
  <2>1. m + 1 \in 1..N /\ m + 1 \in 0..N /\ m \in 0..N /\ (m + 1) - 1 = m  BY <1>0
  <2>2. f[m + 1] = AddWord(f[m], ws[m + 1])  BY <1>6, <2>1
  <2>3. f[m] \in Dict /\ ws[m + 1] \in AllWords /\ Extends(d, f[m])  BY <1>0, <1>8, <2>1
  <2>4. /\ f[m + 1] \in Dict /\ Extends(f[m], f[m + 1]) /\ ws[m + 1] \in DOMAIN f[m + 1].enc
    BY <2>2, <2>3, AddWordGood
  <2>5. Extends(d, f[m + 1])  BY <2>3, <2>4, ExtendsTrans
  <2>6. ASSUME NEW k \in 1..(m + 1)  PROVE ws[k] \in DOMAIN f[m + 1].enc
    <3>1. CASE k = m + 1  BY <2>4, <3>1
    <3>2. CASE k \in 1..m  BY <1>8, <2>4, <3>2 DEF Extends
    <3> QED  BY <3>1, <3>2
  <2> QED  BY <2>1, <2>4, <2>5, <2>6
<1> HIDE DEF S
<1>9. \A m \in 0..N : m \in S  BY <1>0, <1>7, <1>8, UpTo
<1>10. N \in S  BY <1>0, <1>9
<1>11. /\ f[N] \in Dict /\ Extends(d, f[N]) /\ \A k \in 1..N : ws[k] \in DOMAIN f[N].enc
  BY <1>10 DEF S
<1>12. ToSet(ws) \subseteq DOMAIN f[N].enc
  <2>1. DOMAIN ws = 1..N  BY DEF N
  <2> QED  BY <1>11, <2>1 DEF ToSet
<1> QED  BY <1>5, <1>11, <1>12

(* load_dictionary_words returns words.                                    *)
LEMMA DictionaryIs ==
  ASSUME NEW lines \in Dictionaries
  PROVE  DictionaryOf(lines) \in Seq(AllWords)
<1> DEFINE N == Len(lines)
           X == Seq(AllWords)
           Body(s, n) == IF lines[n] = NoWord THEN s ELSE Append(s, Lower[lines[n]])
           step == [x \in X \X (1..N) |-> Body(x[1], x[2])]
           Loop(g) == g = [n \in 0..N |-> IF n = 0 THEN <<>> ELSE Body(g[n - 1], n)]
<1>0. N \in Nat /\ \A k \in 1..N : Lower[lines[k]] \in AllWords
  <2>1. lines \in Seq(ToSet(lines))  BY CompressorAssumption
  <2>2. N \in Nat /\ \A k \in 1..N : lines[k] \in ToSet(lines)  BY <2>1
  <2>3. ToSet(lines) \subseteq DictLines  BY DEF DictLines
  <2>4. \A l \in DictLines : Lower[l] \in AllWords  BY DEF AllWords
  <2> QED  BY <2>2, <2>3, <2>4
<1> HIDE DEF N
<1>a. <<>> \in X  OBVIOUS
<1>b. ASSUME NEW s \in X, NEW n \in 1..N  PROVE Body(s, n) \in X
  <2>1. Append(s, Lower[lines[n]]) \in X  BY <1>0, AppendProperties
  <2> QED  BY <2>1
<1> HIDE DEF X, Body
<1>1. step \in [X \X (1..N) -> X]
  <2>1. ASSUME NEW x \in X \X (1..N)  PROVE Body(x[1], x[2]) \in X
    <3>1. x[1] \in X /\ x[2] \in 1..N  OBVIOUS
    <3> QED  BY <1>b, <3>1
  <2> QED  BY <2>1
<1>2. PICK g : Runs(g, X, <<>>, step, N)
  <2> HIDE DEF step
  <2> QED  BY <1>0, <1>a, <1>1, Recursion
<1>3. Loop(g)
  <2>1. g \in [0..N -> X] /\ g[0] = <<>>  BY <1>2 DEF Runs
  <2>2. ASSUME NEW n \in 1..N  PROVE g[n] = Body(g[n - 1], n)
    <3>1. g[n] = step[<<g[n - 1], n>>]  BY <1>2 DEF Runs
    <3>2. n - 1 \in 0..N  BY <1>0
    <3>3. <<g[n - 1], n>> \in X \X (1..N)  BY <2>1, <3>2
    <3> QED  BY <3>1, <3>3
  <2>3. \A n \in 0..N : g[n] = IF n = 0 THEN <<>> ELSE Body(g[n - 1], n)
    BY <1>0, <2>1, <2>2
  <2>4. g = [n \in 0..N |-> g[n]]  BY <2>1
  <2> QED  BY <2>3, <2>4, Zenon
<1>4. PICK f : Loop(f) /\ DictionaryOf(lines) = f[N]
  BY <1>3 DEF DictionaryOf, N, Body
<1>5. \A n \in 0..N : f[n] = IF n = 0 THEN <<>> ELSE Body(f[n - 1], n)  BY <1>4
<1> DEFINE S == {m \in 0..N : f[m] \in X}
<1>6. 0 \in S  BY <1>0, <1>a, <1>5
<1>7. ASSUME NEW m \in 0..(N - 1), m \in S  PROVE m + 1 \in S
  <2>1. m + 1 \in 1..N /\ m + 1 \in 0..N /\ (m + 1) - 1 = m /\ f[m] \in X  BY <1>0, <1>7
  <2>2. f[m + 1] = Body(f[m], m + 1)  BY <1>5, <2>1
  <2> QED  BY <1>b, <2>1, <2>2
<1> HIDE DEF S
<1>8. \A m \in 0..N : m \in S  BY <1>0, <1>6, <1>7, UpTo
<1>9. N \in S  BY <1>0, <1>8
<1> QED  BY <1>4, <1>9 DEF S, X

(* A word that is listed twice gets the code of its last place.            *)
LEMMA MainDictGood ==
  ASSUME NEW words \in Seq(AllWords), NEW dec \in ByFrequency(words)
  PROVE  MainDict(dec) \in Dict
<1> DEFINE N == Len(words)
<1>1. N \in Nat /\ DOMAIN words = 1..N  OBVIOUS
<1>2. PICK p \in [DOMAIN words -> DOMAIN words] : dec = [k \in DOMAIN words |-> words[p[k]]]
  BY DEF ByFrequency
<1>3. dec \in Seq(AllWords) /\ Len(dec) = N /\ DOMAIN dec = 1..N
  <2>1. \A k \in 1..N : words[p[k]] \in AllWords  BY <1>1, <1>2
  <2>2. dec \in [1..N -> AllWords]  BY <1>1, <1>2, <2>1
  <2> HIDE DEF N
  <2> QED  BY <1>1, <2>2, IsASeq, LenProperties
<1> HIDE DEF N
<1> DEFINE At(w) == {k \in DOMAIN dec : dec[k] = w}
           S == ToSet(dec)
           f == [w \in S |-> Max(At(w)) - 1]
<1>4. S \in SUBSET AllWords  BY <1>3, ElementOfSeq DEF ToSet
<1>5. ASSUME NEW w \in S  PROVE Max(At(w)) \in 1..N /\ dec[Max(At(w))] = w
  <2>1. At(w) \in SUBSET (1..N) /\ At(w) # {}  BY <1>3 DEF ToSet
  <2>2. Max(At(w)) \in At(w)
    <3> HIDE DEF At
    <3> QED  BY <1>1, <2>1, MaxOf
  <2> DEFINE m == Max(At(w))
  <2>3. m \in At(w)  BY <2>2
  <2> HIDE DEF m
  <2>4. m \in 1..N /\ dec[m] = w  BY <1>3, <2>3
  <2> QED  BY <2>4 DEF m
<1>6. ASSUME NEW w \in S  PROVE f[w] \in Nat /\ f[w] < Len(dec) /\ dec[f[w] + 1] = w
  <2> DEFINE m == Max(At(w))
  <2>1. f[w] = m - 1 /\ m \in 1..N /\ dec[m] = w  BY <1>5
  <2> HIDE DEF m, f
  <2>2. (m - 1) + 1 = m /\ m - 1 \in Nat /\ m - 1 < N  BY <1>1, <2>1
  <2> QED  BY <1>3, <2>1, <2>2
<1>7. f \in [S -> Nat]
  <2>1. f = [w \in S |-> f[w]]  OBVIOUS
  <2> HIDE DEF f
  <2> QED  BY <1>6, <2>1
<1>8. MainDict(dec) = [dec |-> dec, enc |-> f]  BY DEF MainDict
<1> HIDE DEF f, S
<1> QED  BY <1>3, <1>4, <1>6, <1>7, <1>8, IsDict

-----------------------------------------------------------------------------
(* The text, its n-grams and its patterns.                                 *)
LEMMA TextIs ==
  ASSUME text \in Texts
  PROVE  /\ text \in Seq(AllWords) /\ Len(text) \in Nat /\ DOMAIN text = 1..Len(text)
         /\ \A k \in 1..Len(text) : text[k] \in AllWords /\ text[k] # Star
<1>1. text \in Seq(ToSet(text)) /\ Star \notin ToSet(text)  BY CompressorAssumption
<1>2. ToSet(text) \subseteq AllWords  BY DEF AllWords, TextWords
<1>3. text \in Seq(AllWords)  BY <1>1, <1>2, SeqMonotonic
<1>4. Len(text) \in Nat /\ DOMAIN text = 1..Len(text)  BY <1>3
<1>5. \A k \in 1..Len(text) : text[k] \in ToSet(text)  BY <1>4 DEF ToSet
<1> QED  BY <1>1, <1>2, <1>3, <1>4, <1>5

(* Words n of the text from s on.                                          *)
IsPart(g, s, n) ==
  /\ g \in Seq(AllWords) /\ Len(g) = n /\ DOMAIN g = 1..n
  /\ \A k \in 1..n : g[k] = text[s + k - 1]

LEMMA PartOf ==
  ASSUME text \in Texts, NEW s \in Nat, NEW n \in Nat, 1 <= s, s + n - 1 <= Len(text)
  PROVE  IsPart(SubSeq(text, s, s + n - 1), s, n)
<1> DEFINE g == SubSeq(text, s, s + n - 1)
           e == s + n - 1
<1>1. e \in Int /\ e - s + 1 = n /\ Len(text) \in Nat  BY TextIs
<1>2. \A i \in s..e : text[i] \in AllWords  BY TextIs
<1>3. /\ g \in Seq(AllWords)
      /\ Len(g) = IF s <= e THEN e - s + 1 ELSE 0
      /\ \A i \in 1..(e - s + 1) : g[i] = text[s + i - 1]
  BY <1>1, <1>2, SubSeqProperties
<1>4. Len(g) = n  BY <1>1, <1>3
<1>5. DOMAIN g = 1..n  BY <1>3, <1>4
<1> HIDE DEF g
<1>6. \A i \in 1..n : g[i] = text[s + i - 1]  BY <1>1, <1>3
<1>7. IsPart(g, s, n)  BY <1>3, <1>4, <1>5, <1>6 DEF IsPart
<1> QED  BY <1>7 DEF g

LEMMA NgramIs ==
  ASSUME text \in Texts, NEW g \in Ngrams
  PROVE  \E n \in Nat, s \in Nat : 2 <= n /\ 1 <= s /\ s + n - 1 <= Len(text) /\ IsPart(g, s, n)
<1>1. PICK n \in 2..MaxPhrase : g \in Windows(n)  BY DEF Ngrams
<1>2. PICK s \in 1..(Len(text) - n + 1) : g = SubSeq(text, s, s + n - 1)  BY <1>1 DEF Windows
<1>3. n \in Nat /\ s \in Nat /\ 2 <= n /\ 1 <= s /\ s + n - 1 <= Len(text)
  BY CompressorAssumption, TextIs
<1>4. IsPart(g, s, n)  BY <1>2, <1>3, PartOf
<1> QED  BY <1>3, <1>4

(* An n-gram with word k replaced.                                         *)
IsPattern(pat, s, n, k) ==
  /\ Len(pat) = n /\ DOMAIN pat = 1..n
  /\ \A j \in 1..n : pat[j] = IF j = k THEN Star ELSE text[s + j - 1]
Place(s, n, k) == 2 <= n /\ 1 <= s /\ s + n - 1 <= Len(text) /\ 1 <= k /\ k <= n

LEMMA PatternIs ==
  ASSUME text \in Texts, NEW pat \in Patterns
  PROVE  \E n \in Nat, s \in Nat, k \in Nat : Place(s, n, k) /\ IsPattern(pat, s, n, k)
<1>0. PICK g \in Ngrams : pat \in {[g EXCEPT ![k] = Star] : k \in DOMAIN g}  BY DEF Patterns
<1>1. PICK k \in DOMAIN g : pat = [g EXCEPT ![k] = Star]  BY <1>0
<1>2. PICK n \in Nat, s \in Nat :
        2 <= n /\ 1 <= s /\ s + n - 1 <= Len(text) /\ IsPart(g, s, n)
  BY NgramIs
<1>3. /\ g \in Seq(AllWords) /\ Len(g) = n /\ DOMAIN g = 1..n
      /\ \A j \in 1..n : g[j] = text[s + j - 1]
  BY <1>2 DEF IsPart
<1>4. k \in Nat /\ 1 <= k /\ k <= n  BY <1>2, <1>3
<1>5. pat \in Seq(AllWords \cup {Star}) /\ Len(pat) = n /\ DOMAIN pat = 1..n
  <2>1. g \in Seq(AllWords \cup {Star})  BY <1>3, SeqMonotonic
  <2>2. k \in 1..Len(g)  BY <1>3
  <2> QED  BY <1>1, <1>3, <2>1, <2>2, ExceptSeq
<1>6. \A j \in 1..n : pat[j] = IF j = k THEN Star ELSE text[s + j - 1]
  BY <1>1, <1>3
<1> QED  BY <1>2, <1>4, <1>5, <1>6 DEF Place, IsPattern

(* The path of a pattern is the pattern without its wildcard.              *)
IsPath(w, pat, n, k) ==
  /\ w \in Seq(AllWords) /\ Len(w) = n - 1
  /\ \A j \in 1..(n - 1) : w[j] = IF j < k THEN pat[j] ELSE pat[j + 1]

LEMMA PathIs ==
  ASSUME text \in Texts, NEW pat, NEW n \in Nat, NEW s \in Nat, NEW k \in Nat,
         Place(s, n, k), IsPattern(pat, s, n, k)
  PROVE  WildPos(pat) = k /\ IsPath(Path(pat), pat, n, k)
<1>0. /\ 2 <= n /\ 1 <= s /\ s + n - 1 <= Len(text) /\ 1 <= k /\ k <= n
      /\ Len(pat) = n /\ DOMAIN pat = 1..n
      /\ \A j \in 1..n : pat[j] = IF j = k THEN Star ELSE text[s + j - 1]
  BY DEF Place, IsPattern
<1>1. \A j \in 1..n : text[s + j - 1] \in AllWords /\ text[s + j - 1] # Star
  <2>1. \A j \in 1..n : s + j - 1 \in 1..Len(text)  BY <1>0, TextIs
  <2> QED  BY <2>1, TextIs
<1>2. \A j \in DOMAIN pat : pat[j] = Star <=> j = k  BY <1>0, <1>1
<1>3. k \in DOMAIN pat  BY <1>0
<1>4. WildPos(pat) = k  BY <1>2, <1>3, Zenon DEF WildPos
<1> DEFINE a == SubSeq(pat, 1, k - 1)
           b == SubSeq(pat, k + 1, n)
           w == a \o b
<1>5. Path(pat) = w  BY <1>0, <1>4 DEF Path, RemoveAt
<1>6. /\ \A j \in 1..(k - 1) : pat[j] \in AllWords
      /\ \A j \in (k + 1)..n : pat[j] \in AllWords
  <2>1. \A j \in 1..n : j # k => pat[j] \in AllWords  BY <1>0, <1>1
  <2>2. \A j \in 1..(k - 1) : j \in 1..n /\ j # k  BY <1>0
  <2>3. \A j \in (k + 1)..n : j \in 1..n /\ j # k  BY <1>0
  <2> QED  BY <2>1, <2>2, <2>3
<1>7. /\ a \in Seq(AllWords) /\ Len(a) = (IF 1 <= k - 1 THEN (k - 1) - 1 + 1 ELSE 0)
      /\ \A i \in 1..((k - 1) - 1 + 1) : a[i] = pat[1 + i - 1]
  <2>1. 1 \in Int /\ k - 1 \in Int  OBVIOUS
  <2> QED  BY <1>6, <2>1, SubSeqProperties
<1>8. /\ b \in Seq(AllWords) /\ Len(b) = (IF k + 1 <= n THEN n - (k + 1) + 1 ELSE 0)
      /\ \A i \in 1..(n - (k + 1) + 1) : b[i] = pat[(k + 1) + i - 1]
  <2>1. k + 1 \in Int /\ n \in Int  OBVIOUS
  <2> QED  BY <1>6, <2>1, SubSeqProperties
<1> HIDE DEF a, b
<1>9. /\ Len(a) = k - 1 /\ \A i \in 1..(k - 1) : a[i] = pat[i]
  BY <1>0, <1>7
<1>10. /\ Len(b) = n - k /\ \A i \in 1..(n - k) : b[i] = pat[k + i]
  <2>1. Len(b) = n - k /\ n - (k + 1) + 1 = n - k  BY <1>0, <1>8
  <2>2. \A i \in 1..(n - k) : (k + 1) + i - 1 = k + i  OBVIOUS
  <2> QED  BY <1>8, <2>1, <2>2
<1>11. /\ w \in Seq(AllWords) /\ Len(w) = Len(a) + Len(b)
       /\ \A i \in 1..(Len(a) + Len(b)) : w[i] = IF i <= Len(a) THEN a[i] ELSE b[i - Len(a)]
  BY <1>7, <1>8, ConcatProperties
<1> HIDE DEF w
<1>12. Len(w) = n - 1  BY <1>9, <1>10, <1>11
<1>13. ASSUME NEW j \in 1..(n - 1)  PROVE w[j] = IF j < k THEN pat[j] ELSE pat[j + 1]
  <2>1. w[j] = IF j <= k - 1 THEN a[j] ELSE b[j - (k - 1)]
    BY <1>9, <1>10, <1>11
  <2>2. CASE j < k  BY <1>9, <2>1, <2>2
  <2>3. CASE ~(j < k)
    <3>1. j - (k - 1) \in 1..(n - k) /\ k + (j - (k - 1)) = j + 1  BY <1>0, <2>3
    <3>2. b[j - (k - 1)] = pat[j + 1]  BY <1>10, <3>1
    <3> QED  BY <2>1, <2>3, <3>2
  <2> QED  BY <2>2, <2>3
<1>14. IsPath(w, pat, n, k)  BY <1>11, <1>12, <1>13 DEF IsPath
<1> QED  BY <1>4, <1>5, <1>14

(* All words found in place of a wildcard are listed.                      *)
LEMMA WildWordsListed ==
  ASSUME text \in Texts, NEW pat, NEW n \in Nat, NEW s \in Nat, NEW k \in Nat,
         Place(s, n, k), IsPattern(pat, s, n, k), NEW ws \in SetToSeqs(WildWords(pat))
  PROVE  ws \in Seq(AllWords) /\ ToSet(ws) = WildWords(pat)
<1> DEFINE W == WildWords(pat)
           F == [o \in Occurrences(pat) |-> text[o + WildPos(pat) - 1]]
<1>0. WildPos(pat) = k  BY PathIs
<1>1. W \subseteq AllWords
  <2> SUFFICES ASSUME NEW o \in Occurrences(pat)  PROVE text[o + k - 1] \in AllWords
    BY <1>0 DEF WildWords
  <2>1. o \in DOMAIN text /\ o + Len(pat) - 1 <= Len(text)  BY DEF Occurrences, FitsAt
  <2>2. Len(pat) = n /\ 1 <= k /\ k <= n  BY DEF IsPattern, Place
  <2>3. o + k - 1 \in 1..Len(text)  BY <2>1, <2>2, TextIs
  <2> QED  BY <2>3, TextIs
<1>2. IsFiniteSet(W)
  <2>1. IsFiniteSet(1..Len(text))  BY TextIs, FS_Interval
  <2>2. Occurrences(pat) \subseteq 1..Len(text)  BY TextIs DEF Occurrences
  <2>3. IsFiniteSet(Occurrences(pat))  BY <2>1, <2>2, FS_Subset
  <2>4. W = {text[o + WildPos(pat) - 1] : o \in Occurrences(pat)}  BY DEF WildWords
  <2>5. F \in Surjection(Occurrences(pat), W)
    BY <2>4, Zenon DEF Surjection
  <2> HIDE DEF F, W
  <2> QED  BY <2>3, <2>5, FS_Surjection
<1> HIDE DEF W
<1> DEFINE D == 1..Cardinality(W)
<1>3. ws \in [D -> W] /\ \A i, j \in D : i # j => ws[i] # ws[j]
  BY DEF SetToSeqs, W
<1>4. Cardinality(W) \in Nat  BY <1>2, FS_CardinalityType
<1>5. IsFiniteSet(D) /\ Cardinality(D) = Cardinality(W)
  <2> DEFINE c == Cardinality(W)
  <2>1. c \in Nat  BY <1>4
  <2> HIDE DEF c
  <2>2. IsFiniteSet(1..c) /\ Cardinality(1..c) = c  BY <2>1, FS_Interval
  <2> QED  BY <2>2 DEF c
<1>6. ws \in Seq(AllWords) /\ DOMAIN ws = D
  <2>1. ws \in [D -> AllWords]  BY <1>1, <1>3
  <2> QED  BY <1>4, <2>1, IsASeq
<1>7. ws \in Surjection(D, W)
  <2>1. ws \in Injection(D, W)  BY <1>3 DEF Injection, IsInjective
  <2> HIDE DEF D
  <2> QED  BY <1>2, <1>5, <2>1, FS_Injection
<1>8. ToSet(ws) = W
  <2>1. \A w \in W : \E i \in D : ws[i] = w  BY <1>7 DEF Surjection
  <2>2. \A i \in D : ws[i] \in W  BY <1>3
  <2> HIDE DEF D
  <2> QED  BY <1>6, <2>1, <2>2 DEF ToSet
<1> QED  BY <1>6, <1>8 DEF W

-----------------------------------------------------------------------------
(* The inductive invariant.  A code of a phrase is a code of the           *)
(* dictionary, or stands for the wildcard.                                 *)
Phrase == [codes : Seq(Int), wild : Nat]
CodesIn(ph, d) ==
  \A k \in DOMAIN ph.codes :
    ph.codes[k] = UINT32_MAX \/ (ph.codes[k] \in Nat /\ ph.codes[k] < Len(d.dec))

(* The phrase is the words g, one by one.                                  *)
Stands(ph, g, d) ==
  /\ DOMAIN ph.codes = 1..Len(g)
  /\ \A k \in 1..Len(g) : /\ ph.codes[k] \in Nat /\ ph.codes[k] < Len(d.dec)
                          /\ d.dec[ph.codes[k] + 1] = g[k]

(* Every word that follows g in the text t has a code.                     *)
Follows(t, g, d) ==
  \A s \in DOMAIN t :
    /\ s + Len(g) <= Len(t)
    /\ \A k \in 1..Len(g) : t[s + k - 1] = g[k]
    => t[s + Len(g)] \in DOMAIN d.enc

(* The node at the end of path g: the words of the path have codes, and    *)
(* once the regular phrases "done" have been added their nodes lead to     *)
(* them and no longer to the wildcard phrases with the same path.          *)
NodeOk(g, nd, t, phs, d, done) ==
  /\ g \in Seq(AllWords) /\ nd.id \in Nat /\ nd.id < Len(phs)
  /\ nd.wild \in Nat /\ nd.wild <= Len(g) + 1
  /\ \A k \in 1..Len(g) : g[k] \in DOMAIN d.enc
  /\ nd.wild = Len(g) + 1 => Follows(t, g, d)
  /\ \/ phs[nd.id + 1].wild # NoPos /\ g \notin done
     \/ phs[nd.id + 1].wild = NoPos /\ Stands(phs[nd.id + 1], g, d)

Done ==
  IF phase \in {"load", "load_failed", "wild"} THEN {}
  ELSE IF phase = "regular" THEN RegularPhrases \ todo
  ELSE RegularPhrases

Types == {"PHRASE", "WILDCARD", "WORD"}
TokenType == [type : Types, word : AllWords \cup {NoWord}, phrase_id : Nat,
              from : Nat, len : Nat]

(* A phrase stands for the words it replaces, if it has no wildcard.       *)
PhraseOk(tok) ==
  LET words == SubSeq(text, tok.from, tok.from + tok.len - 1)
      phrase == phrases[tok.phrase_id + 1]
  IN words \in RegularPhrases \/ phrase.wild = NoPos =>
       phrase.wild = NoPos /\ PhraseWords(phrase, main.dec, NoWord) = words
WildcardOk(tok, last) ==
  \/ tok.word \in DOMAIN main.enc
  \/ tok.word = NoWord /\ tok.from + last.len - 1 = Len(text)
TokenOk(ts, k) ==
  /\ ts[k].type = "PHRASE" => PhraseOk(ts[k])
  /\ ts[k].type = "WILDCARD" => k > 1 /\ WildcardOk(ts[k], ts[k - 1])
TokensOk(ts) ==
  /\ ts \in Seq(TokenType)
  /\ \A k \in 1..Len(ts) : TokenOk(ts, k)

BaseInv ==
  /\ text \in Texts /\ main \in Dict /\ at \in Nat /\ 1 <= at
  /\ phase = "load" => phrases = <<>> /\ trie = <<>>
  /\ phase = "wild" => todo \subseteq WildPhrases
  /\ phase = "regular" => todo \subseteq RegularPhrases
  /\ phase \in {"load", "wild", "regular"} => tokens = <<>>
PhraseInv ==
  /\ phrases \in Seq(Phrase)
  /\ \A k \in 1..Len(phrases) : CodesIn(phrases[k], main)
TrieInv == \A g \in DOMAIN trie : NodeOk(g, trie[g], text, phrases, main, Done)
TokenInv == TokensOk(tokens)
LocalInv ==
  phase = "encode" =>
    \A k \in 1..Len(tokens) : RareWord(tokens[k]) => tokens[k].word \in ToSet(local)
IInv ==
  BaseInv /\ PhraseInv /\ TrieInv /\ TokenInv /\ LocalInv /\ EncodingFailsOnlyAtEnd

-----------------------------------------------------------------------------
(* The phrases of the text stay the same.                                  *)
LEMMA SameText ==
  ASSUME text' = text
  PROVE  RegularPhrases' = RegularPhrases /\ WildPhrases' = WildPhrases
<1>1. \A n : Windows(n)' = Windows(n)  BY DEF Windows
<1>2. Ngrams' = Ngrams  BY <1>1 DEF Ngrams
<1>3. Patterns' = Patterns  BY <1>2 DEF Patterns
<1>4. \A pat : Occurrences(pat)' = Occurrences(pat)  BY DEF Occurrences, FitsAt
<1>5. \A pat : Frequent(pat)' = Frequent(pat)  BY <1>4 DEF Frequent
<1>6. RegularPhrases' = RegularPhrases  BY <1>2, <1>5 DEF RegularPhrases
<1>7. WildPhrases' = WildPhrases  BY <1>3, <1>5 DEF WildPhrases
<1> QED  BY <1>6, <1>7

(* The codes of words that have one.                                       *)
LEMMA CodesOfGood ==
  ASSUME NEW d \in Dict, NEW ws, NEW n \in Nat, DOMAIN ws = 1..n,
         \A k \in 1..n : ws[k] = Star \/ ws[k] \in DOMAIN d.enc
  PROVE  LET c == CodesOf(d, ws) IN
         /\ c \in Seq(Int) /\ DOMAIN c = 1..n
         /\ \A k \in 1..n :
              IF ws[k] = Star THEN c[k] = UINT32_MAX
              ELSE c[k] \in Nat /\ c[k] < Len(d.dec) /\ d.dec[c[k] + 1] = ws[k]
<1> DEFINE c == CodesOf(d, ws)
<1>0. d.enc \in [DOMAIN d.enc -> Nat] /\ LeadsBack(d)  BY DictIs
<1>1. c = [k \in 1..n |-> IF ws[k] = Star THEN UINT32_MAX ELSE d.enc[ws[k]]]  BY DEF CodesOf
<1> HIDE DEF c
<1>2. \A k \in 1..n :
              IF ws[k] = Star THEN c[k] = UINT32_MAX
              ELSE c[k] \in Nat /\ c[k] < Len(d.dec) /\ d.dec[c[k] + 1] = ws[k]
  BY <1>0, <1>1 DEF LeadsBack
<1>3. c \in [1..n -> Int]
  <2>1. \A k \in 1..n : c[k] \in Int  BY <1>2 DEF UINT32_MAX
  <2> QED  BY <1>1, <2>1
<1>4. c \in Seq(Int)  BY <1>3, IsASeq
<1>5. DOMAIN c = 1..n  BY <1>1
<1> QED  BY <1>2, <1>4, <1>5 DEF c

(* What held of a node or a phrase holds when words and phrases are added. *)
LEMMA NodeKept ==
  ASSUME NEW d \in Dict, NEW e \in Dict, Extends(d, e), NEW t,
         NEW phs \in Seq(Phrase), NEW p \in Phrase, NEW g, NEW nd, NEW done, NEW more,
         NodeOk(g, nd, t, phs, d, done), g \in more => g \in done
  PROVE  NodeOk(g, nd, t, Append(phs, p), e, more)
<1> DEFINE q == Append(phs, p)
<1>1. /\ g \in Seq(AllWords) /\ nd.id \in Nat /\ nd.id < Len(phs)
      /\ nd.wild \in Nat /\ nd.wild <= Len(g) + 1
      /\ \A k \in 1..Len(g) : g[k] \in DOMAIN d.enc
      /\ nd.wild = Len(g) + 1 => Follows(t, g, d)
      /\ \/ phs[nd.id + 1].wild # NoPos /\ g \notin done
         \/ phs[nd.id + 1].wild = NoPos /\ Stands(phs[nd.id + 1], g, d)
  BY DEF NodeOk
<1>2. Len(q) = Len(phs) + 1 /\ Len(phs) \in Nat /\ \A k \in 1..Len(phs) : q[k] = phs[k]
  BY AppendProperties
<1> HIDE DEF q
<1>3. nd.id < Len(q) /\ q[nd.id + 1] = phs[nd.id + 1]  BY <1>1, <1>2
<1>4. DOMAIN d.enc \subseteq DOMAIN e.enc  BY DEF Extends
<1>5. Follows(t, g, d) => Follows(t, g, e)  BY <1>4 DEF Follows
<1>6. \A h : Stands(h, g, d) => Stands(h, g, e)
  <2>1. Len(d.dec) \in Nat /\ Len(e.dec) \in Nat /\ Len(d.dec) <= Len(e.dec)
        /\ \A k \in 1..Len(d.dec) : e.dec[k] = d.dec[k]
    BY DictIs DEF Extends
  <2> SUFFICES ASSUME NEW h, Stands(h, g, d), NEW k \in 1..Len(g)
               PROVE  h.codes[k] < Len(e.dec) /\ e.dec[h.codes[k] + 1] = g[k]
    BY DEF Stands
  <2>2. h.codes[k] \in Nat /\ h.codes[k] < Len(d.dec) /\ d.dec[h.codes[k] + 1] = g[k]
    BY DEF Stands
  <2> DEFINE c == h.codes[k]
  <2> HIDE DEF c
  <2>3. c \in Nat /\ c < Len(d.dec) /\ d.dec[c + 1] = g[k]  BY <2>2 DEF c
  <2>4. c < Len(e.dec) /\ e.dec[c + 1] = g[k]  BY <2>1, <2>3
  <2> QED  BY <2>4 DEF c
<1>7. NodeOk(g, nd, t, q, e, more)  BY <1>1, <1>3, <1>4, <1>5, <1>6 DEF NodeOk
<1> QED  BY <1>7 DEF q

LEMMA CodesKept ==
  ASSUME NEW d \in Dict, NEW e \in Dict, Extends(d, e), NEW ph, CodesIn(ph, d)
  PROVE  CodesIn(ph, e)
<1>1. Len(d.dec) \in Nat /\ Len(e.dec) \in Nat /\ Len(d.dec) <= Len(e.dec)
  BY DictIs DEF Extends
<1> QED  BY <1>1 DEF CodesIn

(* A phrase more, and a node for it.                                       *)
LEMMA PhraseAdded ==
  ASSUME NEW d \in Dict, NEW e \in Dict, Extends(d, e), NEW phs \in Seq(Phrase),
         \A k \in 1..Len(phs) : CodesIn(phs[k], d), NEW p \in Phrase, CodesIn(p, e)
  PROVE  /\ Append(phs, p) \in Seq(Phrase) /\ Len(phs) < Len(Append(phs, p))
         /\ Append(phs, p)[Len(phs) + 1] = p
         /\ \A k \in 1..Len(Append(phs, p)) : CodesIn(Append(phs, p)[k], e)
<1> DEFINE q == Append(phs, p)
<1>1. /\ q \in Seq(Phrase) /\ Len(q) = Len(phs) + 1 /\ Len(phs) \in Nat
      /\ q[Len(phs) + 1] = p /\ \A k \in 1..Len(phs) : q[k] = phs[k]
  BY AppendProperties
<1> HIDE DEF q
<1>2. \A k \in 1..Len(phs) : CodesIn(phs[k], e)  BY CodesKept
<1>3. ASSUME NEW k \in 1..Len(q)  PROVE CodesIn(q[k], e)
  <2>1. CASE k = Len(phs) + 1  BY <1>1, <2>1
  <2>2. CASE k # Len(phs) + 1
    <3>1. k \in 1..Len(phs)  BY <1>1, <2>2
    <3> QED  BY <1>1, <1>2, <3>1
  <2> QED  BY <2>1, <2>2
<1> QED  BY <1>1, <1>3 DEF q

(* A wildcard phrase: its words and the words that stand for the wildcard  *)
(* have codes from now on.                                                 *)
LEMMA WildcardNode ==
  ASSUME text \in Texts, NEW d \in Dict, NEW pat \in Patterns,
         NEW ws \in SetToSeqs(WildWords(pat)), NEW phs \in Seq(Phrase), NEW e,
         e = AddWords(AddWords(d, Path(pat)), ws)
  PROVE  LET p == [codes |-> CodesOf(e, pat), wild |-> WildPos(pat)]
             nd == [id |-> Len(phs), wild |-> WildPos(pat)] IN
         /\ e \in Dict /\ Extends(d, e) /\ p \in Phrase /\ CodesIn(p, e)
         /\ NodeOk(Path(pat), nd, text, Append(phs, p), e, {})
<1>1. PICK n \in Nat, s \in Nat, k \in Nat : Place(s, n, k) /\ IsPattern(pat, s, n, k)
  BY PatternIs
<1> DEFINE g == Path(pat)
           b == AddWords(d, g)
           p == [codes |-> CodesOf(e, pat), wild |-> k]
           nd == [id |-> Len(phs), wild |-> k]
           q == Append(phs, p)
<1>2. WildPos(pat) = k /\ IsPath(g, pat, n, k)  BY <1>1, PathIs
<1>3. 2 <= n /\ 1 <= k /\ k <= n /\ Len(pat) = n /\ DOMAIN pat = 1..n
  BY <1>1 DEF Place, IsPattern
<1>3a. pat[k] = Star  BY <1>1, <1>3 DEF IsPattern
<1>4. /\ g \in Seq(AllWords) /\ Len(g) = n - 1
      /\ \A j \in 1..(n - 1) : g[j] = IF j < k THEN pat[j] ELSE pat[j + 1]
  BY <1>2 DEF IsPath
<1>5. ws \in Seq(AllWords) /\ ToSet(ws) = WildWords(pat)  BY <1>1, WildWordsListed
<1>6. b \in Dict /\ Extends(d, b) /\ ToSet(g) \subseteq DOMAIN b.enc  BY <1>4, AddWordsGood
<1>7. e \in Dict /\ Extends(b, e) /\ ToSet(ws) \subseteq DOMAIN e.enc
  BY <1>5, <1>6, AddWordsGood
<1>8. Extends(d, e)  BY <1>6, <1>7, ExtendsTrans
<1>9. \A j \in 1..(n - 1) : g[j] \in DOMAIN e.enc
  <2>1. DOMAIN g = 1..(n - 1)  BY <1>4
  <2>2. \A j \in 1..(n - 1) : g[j] \in ToSet(g)  BY <2>1 DEF ToSet
  <2> QED  BY <1>6, <1>7, <2>2 DEF Extends
<1> HIDE DEF g, b
<1>10. \A j \in 1..n : pat[j] = Star \/ pat[j] \in DOMAIN e.enc
  <2> SUFFICES ASSUME NEW j \in 1..n  PROVE pat[j] = Star \/ pat[j] \in DOMAIN e.enc
    OBVIOUS
  <2>1. CASE j = k  BY <1>3a, <2>1
  <2>2. CASE j < k
    <3>1. j \in 1..(n - 1) /\ g[j] = pat[j]  BY <1>3, <1>4, <2>2
    <3> QED  BY <1>9, <3>1
  <2>3. CASE j > k
    <3>1. j - 1 \in 1..(n - 1) /\ ~(j - 1 < k) /\ (j - 1) + 1 = j  BY <1>3, <2>3
    <3>2. g[j - 1] = pat[j]  BY <1>4, <3>1
    <3> QED  BY <1>9, <3>1, <3>2
  <2> QED  BY <2>1, <2>2, <2>3
<1> DEFINE c == CodesOf(e, pat)
<1>11. /\ c \in Seq(Int) /\ DOMAIN c = 1..n
       /\ \A j \in 1..n : IF pat[j] = Star THEN c[j] = UINT32_MAX
                          ELSE c[j] \in Nat /\ c[j] < Len(e.dec) /\ e.dec[c[j] + 1] = pat[j]
  BY <1>3, <1>7, <1>10, CodesOfGood
<1>12. p \in Phrase /\ CodesIn(p, e)
  <2> HIDE DEF c
  <2>1. p = [codes |-> c, wild |-> k]  BY DEF c
  <2> HIDE DEF p
  <2> QED  BY <1>11, <2>1 DEF Phrase, CodesIn
<1> HIDE DEF c
<1>13. Len(q) = Len(phs) + 1 /\ Len(phs) \in Nat /\ q[Len(phs) + 1].wild = k
  BY <1>12, AppendProperties
<1>14. k = n => Follows(text, g, e)
  <2> SUFFICES ASSUME k = n, NEW o \in DOMAIN text, o + Len(g) <= Len(text),
                      \A j \in 1..Len(g) : text[o + j - 1] = g[j]
               PROVE  text[o + Len(g)] \in DOMAIN e.enc
    BY DEF Follows
  <2>0. o \in Nat /\ Len(text) \in Nat  BY TextIs
  <2>1. o + Len(pat) - 1 <= Len(text) /\ o + Len(g) = o + k - 1  BY <1>3, <1>4, <2>0
  <2>2. ASSUME NEW j \in 1..n  PROVE pat[j] \in {Star, text[o + j - 1]}
    <3>1. CASE j = n  BY <1>3a, <3>1
    <3>2. CASE j # n
      <4>1. j \in 1..(n - 1) /\ j < k  BY <3>2
      <4>2. text[o + j - 1] = g[j] /\ g[j] = pat[j]  BY <1>4, <4>1
      <4> QED  BY <4>2
    <3> QED  BY <3>1, <3>2
  <2>3. o \in Occurrences(pat)  BY <1>3, <2>1, <2>2 DEF Occurrences, FitsAt
  <2>4. text[o + k - 1] \in WildWords(pat)  BY <1>2, <2>3 DEF WildWords
  <2> QED  BY <1>5, <1>7, <2>1, <2>4
<1> HIDE DEF q
<1>15. NodeOk(g, nd, text, q, e, {})
  <2>1. nd.id = Len(phs) /\ nd.wild = k  OBVIOUS
  <2> HIDE DEF nd
  <2>2. Len(g) + 1 = n /\ k # NoPos  BY <1>3, <1>4 DEF NoPos
  <2> QED  BY <1>3, <1>4, <1>9, <1>13, <1>14, <2>1, <2>2 DEF NodeOk
<1> QED  BY <1>2, <1>7, <1>8, <1>12, <1>15 DEF q, g

(* A regular phrase: its node leads to it.                                 *)
LEMMA RegularNode ==
  ASSUME text \in Texts, NEW d \in Dict, NEW g \in Ngrams, NEW phs \in Seq(Phrase),
         NEW e, e = AddWords(d, g), NEW v \in Nat, v <= Len(g) + 1,
         v = Len(g) + 1 => Follows(text, g, d), NEW done
  PROVE  LET p == [codes |-> CodesOf(e, g), wild |-> NoPos]
             nd == [id |-> Len(phs), wild |-> v] IN
         /\ e \in Dict /\ Extends(d, e) /\ p \in Phrase /\ CodesIn(p, e)
         /\ NodeOk(g, nd, text, Append(phs, p), e, done)
<1>1. PICK n \in Nat, s \in Nat :
        2 <= n /\ 1 <= s /\ s + n - 1 <= Len(text) /\ IsPart(g, s, n)
  BY NgramIs
<1> DEFINE p == [codes |-> CodesOf(e, g), wild |-> NoPos]
           nd == [id |-> Len(phs), wild |-> v]
           q == Append(phs, p)
           c == CodesOf(e, g)
<1>2. /\ g \in Seq(AllWords) /\ Len(g) = n /\ DOMAIN g = 1..n
      /\ \A j \in 1..n : g[j] = text[s + j - 1]
  BY <1>1 DEF IsPart
<1>3. \A j \in 1..n : g[j] # Star
  <2>1. \A j \in 1..n : s + j - 1 \in 1..Len(text)  BY <1>1, TextIs
  <2> QED  BY <1>2, <2>1, TextIs
<1>4. e \in Dict /\ Extends(d, e) /\ ToSet(g) \subseteq DOMAIN e.enc  BY <1>2, AddWordsGood
<1>5. \A j \in 1..n : g[j] \in DOMAIN e.enc  BY <1>2, <1>4 DEF ToSet
<1>6. /\ c \in Seq(Int) /\ DOMAIN c = 1..n
      /\ \A j \in 1..n : IF g[j] = Star THEN c[j] = UINT32_MAX
                         ELSE c[j] \in Nat /\ c[j] < Len(e.dec) /\ e.dec[c[j] + 1] = g[j]
  BY <1>2, <1>4, <1>5, CodesOfGood
<1>7. p.codes = c /\ p.wild = NoPos /\ p = [codes |-> c, wild |-> NoPos]  OBVIOUS
<1> HIDE DEF c, p
<1>8. p \in Phrase /\ CodesIn(p, e) /\ Stands(p, g, e)
  <2>1. p \in Phrase  BY <1>6, <1>7 DEF Phrase, NoPos
  <2>2. CodesIn(p, e)  BY <1>6, <1>7 DEF CodesIn
  <2>3. Stands(p, g, e)  BY <1>2, <1>3, <1>6, <1>7 DEF Stands
  <2> QED  BY <2>1, <2>2, <2>3
<1>9. Len(q) = Len(phs) + 1 /\ Len(phs) \in Nat /\ q[Len(phs) + 1] = p
  BY <1>8, AppendProperties
<1>10. v = Len(g) + 1 => Follows(text, g, e)  BY <1>4 DEF Follows, Extends
<1> HIDE DEF q
<1>11. NodeOk(g, nd, text, q, e, done)
  <2>1. nd.id = Len(phs) /\ nd.wild = v  OBVIOUS
  <2> HIDE DEF nd
  <2> QED  BY <1>2, <1>5, <1>7, <1>8, <1>9, <1>10, <2>1 DEF NodeOk
<1> QED  BY <1>4, <1>8, <1>11 DEF q, p, c

-----------------------------------------------------------------------------
(* What steps that leave the dictionaries alone preserve.                  *)
LEMMA PhraseFrame ==
  ASSUME PhraseInv, UNCHANGED <<main, phrases>>
  PROVE  PhraseInv'
BY DEF PhraseInv, CodesIn

LEMMA TrieFrame ==
  ASSUME TrieInv, UNCHANGED <<text, main, phrases, trie>>, Done' = Done
  PROVE  TrieInv'
BY DEF TrieInv

LEMMA TokenFrame ==
  ASSUME TokensOk(tokens'), UNCHANGED <<text, main, phrases>>
  PROVE  TokenInv'
<1>1. RegularPhrases' = RegularPhrases  BY SameText
<1>2. ASSUME NEW k \in 1..Len(tokens')  PROVE TokenOk(tokens, k)'
  <2>1. TokenOk(tokens', k)  BY DEF TokensOk
  <2>2. PhraseOk(tokens[k])' <=> PhraseOk(tokens'[k])  BY <1>1 DEF PhraseOk, PhraseWords
  <2>3. WildcardOk(tokens[k], tokens[k - 1])' <=> WildcardOk(tokens'[k], tokens'[k - 1])
    BY DEF WildcardOk
  <2> QED  BY <2>1, <2>2, <2>3 DEF TokenOk
<1> QED  BY <1>2 DEF TokenInv, TokensOk

(* No token, nothing to show.                                              *)
LEMMA NoTokens ==
  ASSUME tokens = <<>>, tokens' = <<>>
  PROVE  TokenInv /\ TokenInv'
<1>1. <<>> \in Seq(TokenType) /\ Len(<<>>) = 0  OBVIOUS
<1>2. 1..0 = {}  OBVIOUS
<1>3. TokenInv  BY <1>1, <1>2 DEF TokenInv, TokensOk
<1>4. TokenInv'  BY <1>1, <1>2 DEF TokenInv, TokensOk
<1> QED  BY <1>3, <1>4

-----------------------------------------------------------------------------
LEMMA InitInv ==
  ASSUME Init
  PROVE  IInv
<1>1. /\ phase = "load" /\ text \in Texts /\ main = [dec |-> <<>>, enc |-> <<>>]
      /\ phrases = <<>> /\ trie = <<>> /\ at = 1 /\ tokens = <<>>
  BY DEF Init
<1>2. main \in Dict
  <2>1. <<>> \in Seq(AllWords) /\ {} \in SUBSET AllWords /\ <<>> \in [{} -> Nat]  OBVIOUS
  <2> QED  BY <1>1, <2>1, IsDict
<1>3. BaseInv  BY <1>1, <1>2 DEF BaseInv
<1>4. PhraseInv  BY <1>1 DEF PhraseInv
<1>5. TrieInv  BY <1>1 DEF TrieInv
<1>6. TokenInv  BY <1>1 DEF TokenInv, TokensOk
<1>7. LocalInv /\ EncodingFailsOnlyAtEnd  BY <1>1 DEF LocalInv, EncodingFailsOnlyAtEnd
<1> QED  BY <1>3, <1>4, <1>5, <1>6, <1>7 DEF IInv

LEMMA LoadDictionaryInv ==
  ASSUME IInv, NEW lines \in Dictionaries, LoadDictionary(lines)
  PROVE  IInv'
<1>0. /\ phase = "load" /\ phase' \in {"load_failed", "wild"}
      /\ UNCHANGED <<text, phrases, trie, at, tokens>>
  BY DEF LoadDictionary
<1>1. /\ text \in Texts /\ main \in Dict /\ at \in Nat /\ 1 <= at
      /\ phrases = <<>> /\ trie = <<>> /\ tokens = <<>>
  BY <1>0 DEF IInv, BaseInv
<1>2. main' \in Dict
  <2>1. CASE main' = main  BY <1>1, <2>1
  <2>2. CASE \E dec \in ByFrequency(DictionaryOf(lines)) : main' = MainDict(dec)
    BY <2>2, DictionaryIs, MainDictGood
  <2> QED  BY <2>1, <2>2 DEF LoadDictionary
<1>3. phase' = "wild" => todo' = WildPhrases  BY DEF LoadDictionary
<1>4. WildPhrases' = WildPhrases  BY <1>0, SameText
<1>5. BaseInv'  BY <1>0, <1>1, <1>2, <1>3, <1>4 DEF BaseInv
<1>6. PhraseInv'  BY <1>0, <1>1 DEF PhraseInv
<1>7. TrieInv'  BY <1>0, <1>1 DEF TrieInv
<1>8. TokenInv'  BY <1>0, <1>1, NoTokens
<1>9. LocalInv' /\ EncodingFailsOnlyAtEnd'  BY <1>0 DEF LocalInv, EncodingFailsOnlyAtEnd
<1> QED  BY <1>5, <1>6, <1>7, <1>8, <1>9 DEF IInv

LEMMA AddWildcardPhraseInv ==
  ASSUME IInv, NEW pat \in todo, AddWildcardPhrase(pat)
  PROVE  IInv'
<1>0. /\ phase = "wild" /\ phase' = phase /\ UNCHANGED <<text, at, tokens>>
      /\ todo' = todo \ {pat}
  BY DEF AddWildcardPhrase
<1>1. /\ text \in Texts /\ main \in Dict /\ at \in Nat /\ 1 <= at
      /\ todo \subseteq WildPhrases /\ tokens = <<>>
      /\ phrases \in Seq(Phrase) /\ \A k \in 1..Len(phrases) : CodesIn(phrases[k], main)
      /\ \A g \in DOMAIN trie : NodeOk(g, trie[g], text, phrases, main, {})
  BY <1>0 DEF IInv, BaseInv, PhraseInv, TrieInv, Done
<1>2. pat \in Patterns  BY <1>1 DEF WildPhrases
<1>3. PICK ws \in SetToSeqs(WildWords(pat)) : main' = AddWords(AddWords(main, Path(pat)), ws)
  BY DEF AddWildcardPhrase
<1> DEFINE p == [codes |-> CodesOf(main', pat), wild |-> WildPos(pat)]
           nd == [id |-> Len(phrases), wild |-> WildPos(pat)]
<1>4. phrases' = Append(phrases, p) /\ trie' = Set(trie, Path(pat), nd)
  BY DEF AddWildcardPhrase
<1>5. /\ main' \in Dict /\ Extends(main, main') /\ p \in Phrase /\ CodesIn(p, main')
      /\ NodeOk(Path(pat), nd, text, Append(phrases, p), main', {})
  BY <1>1, <1>2, <1>3, WildcardNode
<1> HIDE DEF p, nd
<1>6. BaseInv'
  <2>1. WildPhrases' = WildPhrases  BY <1>0, SameText
  <2> QED  BY <1>0, <1>1, <1>5, <2>1 DEF BaseInv
<1>7. PhraseInv'  BY <1>1, <1>4, <1>5, PhraseAdded DEF PhraseInv
<1>8. TrieInv'
  <2>1. Done' = {}  BY <1>0 DEF Done
  <2>2. ASSUME NEW g \in DOMAIN trie'
        PROVE  NodeOk(g, trie'[g], text, phrases', main', {})
    <3>1. CASE g = Path(pat)
      <4>1. trie'[g] = nd  BY <1>4, <3>1 DEF Set
      <4> QED  BY <1>4, <1>5, <3>1, <4>1
    <3>2. CASE g # Path(pat)
      <4>1. g \in DOMAIN trie /\ trie'[g] = trie[g]  BY <1>4, <3>2 DEF Set
      <4>2. NodeOk(g, trie[g], text, Append(phrases, p), main', {})
        BY <1>1, <1>5, <4>1, NodeKept
      <4> QED  BY <1>4, <4>1, <4>2
    <3> QED  BY <3>1, <3>2
  <2> QED  BY <1>0, <2>1, <2>2 DEF TrieInv
<1>9. TokenInv'  BY <1>0, <1>1, NoTokens
<1>10. LocalInv' /\ EncodingFailsOnlyAtEnd'  BY <1>0 DEF LocalInv, EncodingFailsOnlyAtEnd
<1> QED  BY <1>6, <1>7, <1>8, <1>9, <1>10 DEF IInv

LEMMA AddRegularPhraseInv ==
  ASSUME IInv, NEW x \in todo, AddRegularPhrase(x)
  PROVE  IInv'
<1>0. /\ phase = "regular" /\ phase' = phase /\ UNCHANGED <<text, at, tokens>>
      /\ todo' = todo \ {x} /\ main' = AddWords(main, x)
  BY DEF AddRegularPhrase
<1>1. /\ text \in Texts /\ main \in Dict /\ at \in Nat /\ 1 <= at
      /\ todo \subseteq RegularPhrases /\ tokens = <<>>
      /\ phrases \in Seq(Phrase) /\ \A k \in 1..Len(phrases) : CodesIn(phrases[k], main)
      /\ \A g \in DOMAIN trie : NodeOk(g, trie[g], text, phrases, main, Done)
  BY <1>0 DEF IInv, BaseInv, PhraseInv, TrieInv
<1>2. x \in Ngrams  BY <1>1 DEF RegularPhrases
<1> DEFINE v == IF x \in DOMAIN trie THEN trie[x].wild ELSE NoPos
           p == [codes |-> CodesOf(main', x), wild |-> NoPos]
           nd == [id |-> Len(phrases), wild |-> v]
<1>3. phrases' = Append(phrases, p) /\ trie' = Set(trie, x, nd)
  BY DEF AddRegularPhrase
<1>4. v \in Nat /\ v <= Len(x) + 1 /\ (v = Len(x) + 1 => Follows(text, x, main))
  <2>1. CASE x \in DOMAIN trie
    <3>1. NodeOk(x, trie[x], text, phrases, main, Done)  BY <1>1, <2>1
    <3> QED  BY <2>1, <3>1 DEF NodeOk
  <2>2. CASE x \notin DOMAIN trie
    <3>1. x \in Seq(AllWords)  BY <1>1, <1>2, NgramIs DEF IsPart
    <3>2. Len(x) \in Nat  BY <3>1
    <3>3. v = 0  BY <2>2 DEF NoPos
    <3> HIDE DEF v
    <3> QED  BY <3>2, <3>3
  <2> QED  BY <2>1, <2>2
<1> HIDE DEF v
<1>5. /\ main' \in Dict /\ Extends(main, main') /\ p \in Phrase /\ CodesIn(p, main')
      /\ NodeOk(x, nd, text, Append(phrases, p), main', Done')
  BY <1>0, <1>1, <1>2, <1>4, RegularNode
<1> HIDE DEF p, nd
<1>a. RegularPhrases' = RegularPhrases  BY <1>0, SameText
<1>6. BaseInv'  BY <1>0, <1>1, <1>5, <1>a DEF BaseInv
<1>7. PhraseInv'  BY <1>1, <1>3, <1>5, PhraseAdded DEF PhraseInv
<1>8. TrieInv'
  <2>1. \A g : g # x /\ g \in Done' => g \in Done  BY <1>0, <1>a DEF Done
  <2>2. ASSUME NEW g \in DOMAIN trie'
        PROVE  NodeOk(g, trie'[g], text, phrases', main', Done')
    <3>1. CASE g = x
      <4>1. trie'[g] = nd  BY <1>3, <3>1 DEF Set
      <4> QED  BY <1>3, <1>5, <3>1, <4>1
    <3>2. CASE g # x
      <4>1. g \in DOMAIN trie /\ trie'[g] = trie[g]  BY <1>3, <3>2 DEF Set
      <4>2. NodeOk(g, trie[g], text, Append(phrases, p), main', Done')
        BY <1>1, <1>5, <2>1, <3>2, <4>1, NodeKept
      <4> QED  BY <1>3, <4>1, <4>2
    <3> QED  BY <3>1, <3>2
  <2> QED  BY <1>0, <2>2 DEF TrieInv
<1>9. TokenInv'  BY <1>0, <1>1, NoTokens
<1>10. LocalInv' /\ EncodingFailsOnlyAtEnd'  BY <1>0 DEF LocalInv, EncodingFailsOnlyAtEnd
<1> QED  BY <1>6, <1>7, <1>8, <1>9, <1>10 DEF IInv

LEMMA WildcardsDoneInv ==
  ASSUME IInv, WildcardsDone
  PROVE  IInv'
<1>0. /\ phase = "wild" /\ phase' = "regular" /\ todo' = RegularPhrases
      /\ UNCHANGED <<text, main, phrases, trie, at, tokens>>
  BY DEF WildcardsDone, dictVars
<1>1. RegularPhrases' = RegularPhrases  BY <1>0, SameText
<1>2. Done' = {} /\ Done = {}  BY <1>0, <1>1 DEF Done
<1>3. BaseInv'  BY <1>0, <1>1 DEF IInv, BaseInv
<1>4. PhraseInv'  BY <1>0, PhraseFrame DEF IInv
<1>5. TrieInv'  BY <1>0, <1>2, TrieFrame DEF IInv
<1>6. TokenInv'  BY <1>0, TokenFrame DEF IInv, TokenInv
<1>7. LocalInv' /\ EncodingFailsOnlyAtEnd'  BY <1>0 DEF LocalInv, EncodingFailsOnlyAtEnd
<1> QED  BY <1>3, <1>4, <1>5, <1>6, <1>7 DEF IInv

LEMMA RegularDoneInv ==
  ASSUME IInv, RegularDone
  PROVE  IInv'
<1>0. /\ phase = "regular" /\ phase' = "match" /\ todo = {}
      /\ UNCHANGED <<text, main, phrases, trie, at, tokens>>
  BY DEF RegularDone, dictVars
<1>1. RegularPhrases' = RegularPhrases  BY <1>0, SameText
<1>2. Done' = Done  BY <1>0, <1>1 DEF Done
<1>3. BaseInv'  BY <1>0, <1>1 DEF IInv, BaseInv
<1>4. PhraseInv'  BY <1>0, PhraseFrame DEF IInv
<1>5. TrieInv'  BY <1>0, <1>2, TrieFrame DEF IInv
<1>6. TokenInv'  BY <1>0, TokenFrame DEF IInv, TokenInv
<1>7. LocalInv' /\ EncodingFailsOnlyAtEnd'  BY <1>0 DEF LocalInv, EncodingFailsOnlyAtEnd
<1> QED  BY <1>3, <1>4, <1>5, <1>6, <1>7 DEF IInv

-----------------------------------------------------------------------------
(* The match at position at.                                               *)
LEMMA EndedIs ==
  ASSUME IInv, phase = "match", NEW j \in Ended(at)
  PROVE  LET g == SubSeq(text, at, at + j - 1) IN
         /\ j \in Nat /\ 1 <= j /\ at + j - 1 <= Len(text)
         /\ IsPart(g, at, j) /\ NodeOk(g, EndNode(at, j), text, phrases, main, RegularPhrases)
<1> DEFINE g == SubSeq(text, at, at + j - 1)
<1>0. text \in Texts /\ at \in Nat /\ 1 <= at  BY DEF IInv, BaseInv
<1>1. j \in 1..MaxPhrase /\ at + j - 1 <= Len(text) /\ g \in DOMAIN trie  BY DEF Ended
<1>2. j \in Nat /\ 1 <= j  BY <1>1, CompressorAssumption
<1>3. IsPart(g, at, j)  BY <1>0, <1>1, <1>2, PartOf
<1>4. Done = RegularPhrases  BY DEF Done
<1>5. NodeOk(g, trie[g], text, phrases, main, Done)  BY <1>1 DEF IInv, TrieInv
<1>6. EndNode(at, j) = trie[g]  BY DEF EndNode
<1> HIDE DEF g
<1>7. NodeOk(g, EndNode(at, j), text, phrases, main, RegularPhrases)  BY <1>4, <1>5, <1>6
<1> QED  BY <1>1, <1>2, <1>3, <1>7 DEF g

(* The word behind the phrase has a code, or the text ends there.          *)
LEMMA WildcardWordIs ==
  ASSUME IInv, phase = "match", Ended(at) # {}, NEW n, n = Max(Ended(at)),
         EndNode(at, n).wild # NoPos
  PROVE  \/ WildcardWord(at) \in DOMAIN main.enc
         \/ WildcardWord(at) = NoWord /\ at + n - 1 = Len(text)
<1>0. text \in Texts /\ at \in Nat /\ 1 <= at /\ main \in Dict  BY DEF IInv, BaseInv
<1>1. Ended(at) \in SUBSET (1..MaxPhrase) /\ MaxPhrase \in Nat
  BY CompressorAssumption DEF Ended
<1>2. n \in Ended(at)  BY <1>1, MaxOf
<1>3. CASE WildSeen(at) = {}
  <2>1. WildcardWord(at) = NoWord  BY <1>3 DEF WildcardWord
  <2>2. ~(at + EndNode(at, n).wild - 1 <= Len(text))  BY <1>2, <1>3 DEF WildSeen
  <2> DEFINE g == SubSeq(text, at, at + n - 1)
             v == EndNode(at, n).wild
  <2>3. n \in Nat /\ 1 <= n /\ at + n - 1 <= Len(text)  BY <1>2, EndedIs
  <2>4. IsPart(g, at, n) /\ NodeOk(g, EndNode(at, n), text, phrases, main, RegularPhrases)
    BY <1>2, EndedIs
  <2> HIDE DEF g
  <2>5. Len(g) = n /\ v \in Nat /\ v <= Len(g) + 1  BY <2>4 DEF IsPart, NodeOk
  <2> HIDE DEF v
  <2>6. ~(at + v - 1 <= Len(text))  BY <2>2 DEF v
  <2>7. at + n - 1 = Len(text)  BY <1>0, <2>3, <2>5, <2>6, TextIs
  <2> QED  BY <2>1, <2>7
<1>4. CASE WildSeen(at) # {}
  <2> DEFINE j == Max(WildSeen(at))
             g == SubSeq(text, at, at + j - 1)
             v == EndNode(at, j).wild
  <2>1. WildSeen(at) \in SUBSET (1..MaxPhrase)  BY <1>1 DEF WildSeen
  <2>2. j \in WildSeen(at)  BY <1>1, <1>4, <2>1, MaxOf
  <2>3. WildcardWord(at) = text[at + v - 1]  BY <1>4 DEF WildcardWord
  <2> HIDE DEF j
  <2>4. j \in Ended(at) /\ v # NoPos /\ at + v - 1 <= Len(text)  BY <2>2 DEF WildSeen
  <2>5. j \in Nat /\ 1 <= j /\ at + j - 1 <= Len(text)  BY <2>4, EndedIs
  <2>6. IsPart(g, at, j) /\ NodeOk(g, EndNode(at, j), text, phrases, main, RegularPhrases)
    BY <2>4, EndedIs
  <2> HIDE DEF g
  <2>7. /\ Len(g) = j /\ \A k \in 1..j : g[k] = text[at + k - 1]
        /\ v \in Nat /\ v <= Len(g) + 1 /\ \A k \in 1..Len(g) : g[k] \in DOMAIN main.enc
        /\ v = Len(g) + 1 => Follows(text, g, main)
    BY <2>6 DEF IsPart, NodeOk
  <2> HIDE DEF v
  <2>8. CASE v <= j
    <3>1. v \in 1..j  BY <2>4, <2>5, <2>7, <2>8 DEF NoPos
    <3> QED  BY <2>3, <2>7, <3>1
  <2>9. CASE v = j + 1
    <3>1. at \in DOMAIN text /\ at + Len(g) <= Len(text) /\ at + Len(g) = at + v - 1
      BY <1>0, <2>4, <2>5, <2>7, <2>9, TextIs
    <3>2. \A k \in 1..Len(g) : text[at + k - 1] = g[k]  BY <2>7
    <3>3. Follows(text, g, main)  BY <2>7, <2>9
    <3>4. text[at + Len(g)] \in DOMAIN main.enc  BY <3>1, <3>2, <3>3 DEF Follows
    <3> QED  BY <2>3, <3>1, <3>4
  <2> QED  BY <2>5, <2>7, <2>8, <2>9
<1> QED  BY <1>3, <1>4

(* A regular phrase, or a phrase without a wildcard, is its words.         *)
LEMMA MatchedPhraseOk ==
  ASSUME IInv, phase = "match", Ended(at) # {}, NEW n, n = Max(Ended(at)),
         NEW w
  PROVE  /\ PhraseOk(Token("PHRASE", w, EndNode(at, n).id, n))
         /\ n \in Nat /\ 1 <= n /\ at + n - 1 <= Len(text) /\ EndNode(at, n).id \in Nat
<1>0. text \in Texts /\ at \in Nat /\ 1 <= at /\ main \in Dict  BY DEF IInv, BaseInv
<1>1. Ended(at) \in SUBSET (1..MaxPhrase) /\ MaxPhrase \in Nat
  BY CompressorAssumption DEF Ended
<1>2. n \in Ended(at)  BY <1>1, MaxOf
<1> DEFINE g == SubSeq(text, at, at + n - 1)
           i == EndNode(at, n).id
           ph == phrases[i + 1]
<1>3. n \in Nat /\ 1 <= n /\ at + n - 1 <= Len(text)  BY <1>2, EndedIs
<1>4. IsPart(g, at, n) /\ NodeOk(g, EndNode(at, n), text, phrases, main, RegularPhrases)
  BY <1>2, EndedIs
<1> HIDE DEF g
<1>5. /\ i \in Nat
      /\ \/ ph.wild # NoPos /\ g \notin RegularPhrases
         \/ ph.wild = NoPos /\ Stands(ph, g, main)
  BY <1>4 DEF NodeOk
<1>6. g \in Seq(AllWords) /\ Len(g) = n /\ DOMAIN g = 1..n  BY <1>4 DEF IsPart
<1>7. ASSUME g \in RegularPhrases \/ ph.wild = NoPos
      PROVE  ph.wild = NoPos /\ PhraseWords(ph, main.dec, NoWord) = g
  <2>1. ph.wild = NoPos /\ Stands(ph, g, main)  BY <1>5, <1>7
  <2> HIDE DEF ph
  <2>2. DOMAIN ph.codes = 1..n /\ \A k \in 1..n : main.dec[ph.codes[k] + 1] = g[k]
    BY <1>6, <2>1 DEF Stands
  <2>3. \A k \in 1..n : k # ph.wild  BY <2>1 DEF NoPos
  <2>4. PhraseWords(ph, main.dec, NoWord) = [k \in 1..n |-> g[k]]
    BY <2>2, <2>3 DEF PhraseWords
  <2>5. g = [k \in 1..n |-> g[k]]  BY <1>6
  <2> QED  BY <2>1, <2>4, <2>5
<1> DEFINE tok == Token("PHRASE", w, i, n)
<1>8. tok.from = at /\ tok.len = n /\ tok.phrase_id = i  BY DEF Token
<1> HIDE DEF tok, i
<1>9. SubSeq(text, tok.from, tok.from + tok.len - 1) = g  BY <1>8 DEF g
<1>10. phrases[tok.phrase_id + 1] = ph  BY <1>8
<1> HIDE DEF ph
<1>11. PhraseOk(tok)  BY <1>7, <1>9, <1>10 DEF PhraseOk
<1> QED  BY <1>3, <1>5, <1>11 DEF tok, i

LEMMA TokenMore ==
  ASSUME NEW ts, TokensOk(ts), NEW tok \in TokenType,
         tok.type = "PHRASE" => PhraseOk(tok),
         tok.type = "WILDCARD" => Len(ts) > 0 /\ WildcardOk(tok, ts[Len(ts)])
  PROVE  TokensOk(Append(ts, tok))
<1> DEFINE us == Append(ts, tok)
<1>0. ts \in Seq(TokenType) /\ \A k \in 1..Len(ts) : TokenOk(ts, k)  BY DEF TokensOk
<1>1. /\ us \in Seq(TokenType) /\ Len(us) = Len(ts) + 1 /\ Len(ts) \in Nat
      /\ us[Len(ts) + 1] = tok /\ \A k \in 1..Len(ts) : us[k] = ts[k]
  BY <1>0, AppendProperties
<1> HIDE DEF us
<1>2. ASSUME NEW k \in 1..Len(us)  PROVE TokenOk(us, k)
  <2>1. CASE k = Len(ts) + 1
    <3>1. us[k] = tok /\ k - 1 = Len(ts)  BY <1>1, <2>1
    <3>2. CASE tok.type = "WILDCARD"
      <4>1. Len(ts) > 0 /\ us[k - 1] = ts[Len(ts)] /\ k > 1  BY <1>1, <2>1, <3>1, <3>2
      <4> QED  BY <3>1, <3>2, <4>1 DEF TokenOk
    <3>3. CASE tok.type # "WILDCARD"  BY <3>1, <3>3 DEF TokenOk
    <3> QED  BY <3>2, <3>3
  <2>2. CASE k # Len(ts) + 1
    <3>1. k \in 1..Len(ts) /\ us[k] = ts[k]  BY <1>1, <2>2
    <3>2. TokenOk(ts, k)  BY <1>0, <3>1
    <3>3. k > 1 => us[k - 1] = ts[k - 1]  BY <1>1, <3>1
    <3> QED  BY <3>1, <3>2, <3>3 DEF TokenOk
  <2> QED  BY <2>1, <2>2
<1> QED  BY <1>1, <1>2 DEF us, TokensOk

LEMMA MatchPhraseInv ==
  ASSUME IInv, MatchPhrase
  PROVE  IInv'
<1> DEFINE n == Max(Ended(at))
           node == EndNode(at, n)
           A == Token("PHRASE", NoWord, node.id, n)
           B == Token("WILDCARD", WildcardWord(at), node.id, 0)
<1>0. /\ phase = "match" /\ phase' = phase /\ Ended(at) # {} /\ at' = at + n
      /\ tokens' = tokens \o <<A>> \o (IF node.wild = NoPos THEN <<>> ELSE <<B>>)
      /\ UNCHANGED <<text, main, phrases, trie, todo>>
  BY DEF MatchPhrase, dictVars
<1>1. text \in Texts /\ main \in Dict /\ at \in Nat /\ 1 <= at /\ TokensOk(tokens)
  BY DEF IInv, BaseInv, TokenInv
<1>2. /\ PhraseOk(A) /\ n \in Nat /\ 1 <= n /\ node.id \in Nat
  BY <1>0, MatchedPhraseOk
<1>3. node.wild # NoPos => \/ WildcardWord(at) \in DOMAIN main.enc
                           \/ WildcardWord(at) = NoWord /\ at + n - 1 = Len(text)
  BY <1>0, WildcardWordIs
<1>n. n \in Nat /\ 1 <= n /\ node.id \in Nat  BY <1>2
<1> HIDE DEF n, node
<1>4. A \in TokenType /\ A.type = "PHRASE" /\ A.len = n
  BY <1>1, <1>n DEF Token, TokenType, Types
<1>5. B.type = "WILDCARD" /\ B.word = WildcardWord(at) /\ B.from = at  BY DEF Token
<1>6. node.wild # NoPos => B \in TokenType
  <2>1. DOMAIN main.enc \subseteq AllWords  BY <1>1, DictIs
  <2>2. node.wild # NoPos => WildcardWord(at) \in AllWords \cup {NoWord}  BY <1>3, <2>1
  <2> QED  BY <1>1, <1>n, <2>2 DEF Token, TokenType, Types
<1> HIDE DEF A, B
<1> DEFINE ts == Append(tokens, A)
<1>7. tokens \in Seq(TokenType)  BY <1>1 DEF TokensOk
<1>8. TokensOk(ts)  BY <1>1, <1>2, <1>4, TokenMore
<1>9. ts \in Seq(TokenType) /\ Len(ts) > 0 /\ ts[Len(ts)] = A /\ ts = tokens \o <<A>>
  <2>1. ts \in Seq(TokenType) /\ Len(ts) = Len(tokens) + 1 /\ ts[Len(tokens) + 1] = A
        /\ Len(tokens) \in Nat
    BY <1>4, <1>7, AppendProperties
  <2>2. ts = tokens \o <<A>>  BY <1>4, <1>7, AppendIsConcat
  <2> HIDE DEF ts
  <2> QED  BY <2>1, <2>2
<1> HIDE DEF ts
<1>10. TokensOk(tokens')
  <2>1. CASE node.wild = NoPos
    <3>1. tokens' = ts \o <<>>  BY <1>0, <1>9, <2>1
    <3>2. ts \o <<>> = ts  BY <1>9, ConcatEmptySeq
    <3> QED  BY <1>8, <3>1, <3>2
  <2>2. CASE node.wild # NoPos
    <3>1. tokens' = ts \o <<B>>  BY <1>0, <1>9, <2>2
    <3>2. ts \o <<B>> = Append(ts, B)  BY <1>6, <1>9, <2>2, AppendIsConcat
    <3>3. WildcardOk(B, A)  BY <1>3, <1>4, <1>5, <2>2 DEF WildcardOk
    <3>4. TokensOk(Append(ts, B))  BY <1>5, <1>6, <1>8, <1>9, <2>2, <3>3, TokenMore
    <3> QED  BY <3>1, <3>2, <3>4
  <2> QED  BY <2>1, <2>2
<1>11. TokenInv'  BY <1>0, <1>10, TokenFrame
<1>12. BaseInv'
  <2>1. at' \in Nat /\ 1 <= at'  BY <1>0, <1>1, <1>n
  <2> QED  BY <1>0, <1>1, <2>1 DEF BaseInv
<1>13. Done' = Done
  <2>1. RegularPhrases' = RegularPhrases  BY <1>0, SameText
  <2> QED  BY <1>0, <2>1 DEF Done
<1>14. PhraseInv'  BY <1>0, PhraseFrame DEF IInv
<1>15. TrieInv'  BY <1>0, <1>13, TrieFrame DEF IInv
<1>16. LocalInv' /\ EncodingFailsOnlyAtEnd'  BY <1>0 DEF LocalInv, EncodingFailsOnlyAtEnd
<1> QED  BY <1>11, <1>12, <1>14, <1>15, <1>16 DEF IInv

LEMMA MatchWordInv ==
  ASSUME IInv, MatchWord
  PROVE  IInv'
<1> DEFINE A == Token("WORD", text[at], 0, 1)
<1>0. /\ phase = "match" /\ phase' = phase /\ at <= Len(text) /\ at' = at + 1
      /\ tokens' = Append(tokens, A)
      /\ UNCHANGED <<text, main, phrases, trie, todo>>
  BY DEF MatchWord, dictVars
<1>1. text \in Texts /\ main \in Dict /\ at \in Nat /\ 1 <= at /\ TokensOk(tokens)
  BY DEF IInv, BaseInv, TokenInv
<1>2. text[at] \in AllWords  BY <1>0, <1>1, TextIs
<1>3. A \in TokenType /\ A.type = "WORD"  BY <1>1, <1>2 DEF Token, TokenType, Types
<1> HIDE DEF A
<1>4. TokensOk(tokens')  BY <1>0, <1>1, <1>3, TokenMore
<1>5. TokenInv'  BY <1>0, <1>4, TokenFrame
<1>6. BaseInv'
  <2>1. at' \in Nat /\ 1 <= at'  BY <1>0, <1>1
  <2> QED  BY <1>0, <1>1, <2>1 DEF BaseInv
<1>7. Done' = Done
  <2>1. RegularPhrases' = RegularPhrases  BY <1>0, SameText
  <2> QED  BY <1>0, <2>1 DEF Done
<1>8. PhraseInv'  BY <1>0, PhraseFrame DEF IInv
<1>9. TrieInv'  BY <1>0, <1>7, TrieFrame DEF IInv
<1>10. LocalInv' /\ EncodingFailsOnlyAtEnd'  BY <1>0 DEF LocalInv, EncodingFailsOnlyAtEnd
<1> QED  BY <1>5, <1>6, <1>8, <1>9, <1>10 DEF IInv

-----------------------------------------------------------------------------
(* The local dictionary holds the words that have no code.                 *)
LEMMA LocalWordsGood ==
  ASSUME tokens \in Seq(TokenType)
  PROVE  \A k \in 1..Len(tokens) :
           RareWord(tokens[k]) => tokens[k].word \in ToSet(LocalWords)
<1> DEFINE N == Len(tokens)
           X == Seq(AllWords \cup {NoWord})
           step == [x \in X \X (1..N) |-> AddRare(x[1], tokens[x[2]])]
           Loop(g) == g = [n \in 0..N |-> IF n = 0 THEN <<>> ELSE AddRare(g[n - 1], tokens[n])]
<1>0. N \in Nat /\ \A k \in 1..N : tokens[k].word \in AllWords \cup {NoWord}
  <2>1. N \in Nat /\ \A k \in 1..N : tokens[k] \in TokenType  OBVIOUS
  <2>2. \A t \in TokenType : t.word \in AllWords \cup {NoWord}  BY DEF TokenType
  <2> QED  BY <2>1, <2>2
<1> HIDE DEF N
<1>a. <<>> \in X  OBVIOUS
<1>b. ASSUME NEW s \in X, NEW n \in 1..N
      PROVE  /\ AddRare(s, tokens[n]) \in X
             /\ ToSet(s) \subseteq ToSet(AddRare(s, tokens[n]))
             /\ RareWord(tokens[n]) => tokens[n].word \in ToSet(AddRare(s, tokens[n]))
  <2> DEFINE w == tokens[n].word
             u == Append(s, w)
  <2>1. w \in AllWords \cup {NoWord}  BY <1>0
  <2> HIDE DEF w
  <2>2. /\ u \in X /\ Len(u) = Len(s) + 1 /\ Len(s) \in Nat /\ u[Len(s) + 1] = w
        /\ \A k \in 1..Len(s) : u[k] = s[k]
    BY <2>1, AppendProperties
  <2>3. DOMAIN s = 1..Len(s) /\ DOMAIN u = 1..(Len(s) + 1)  BY <2>2
  <2> HIDE DEF u, X
  <2>4. w \in ToSet(u)
    <3>1. Len(s) + 1 \in DOMAIN u  BY <2>2, <2>3
    <3> QED  BY <2>2, <3>1 DEF ToSet
  <2>5. ToSet(s) \subseteq ToSet(u)
    <3>1. \A k \in DOMAIN s : k \in DOMAIN u /\ u[k] = s[k]  BY <2>2, <2>3
    <3> QED  BY <3>1 DEF ToSet
  <2>6. AddRare(s, tokens[n]) = IF RareWord(tokens[n]) /\ w \notin ToSet(s) THEN u ELSE s
    BY DEF AddRare, u, w
  <2> QED  BY <2>2, <2>4, <2>5, <2>6 DEF w
<1> HIDE DEF X
<1>1. step \in [X \X (1..N) -> X]
  <2>1. ASSUME NEW x \in X \X (1..N)  PROVE AddRare(x[1], tokens[x[2]]) \in X
    <3>1. x[1] \in X /\ x[2] \in 1..N  OBVIOUS
    <3> QED  BY <1>b, <3>1
  <2> QED  BY <2>1
<1>2. PICK g : Runs(g, X, <<>>, step, N)
  <2> HIDE DEF step
  <2> QED  BY <1>0, <1>a, <1>1, Recursion
<1>3. Loop(g)
  <2>1. g \in [0..N -> X] /\ g[0] = <<>>  BY <1>2 DEF Runs
  <2>2. ASSUME NEW n \in 1..N  PROVE g[n] = AddRare(g[n - 1], tokens[n])
    <3>1. g[n] = step[<<g[n - 1], n>>]  BY <1>2 DEF Runs
    <3>2. n - 1 \in 0..N  BY <1>0
    <3>3. <<g[n - 1], n>> \in X \X (1..N)  BY <2>1, <3>2
    <3> QED  BY <3>1, <3>3
  <2>3. \A n \in 0..N : g[n] = IF n = 0 THEN <<>> ELSE AddRare(g[n - 1], tokens[n])
    BY <1>0, <2>1, <2>2
  <2>4. g = [n \in 0..N |-> g[n]]  BY <2>1
  <2> QED  BY <2>3, <2>4, Zenon
<1>4. PICK f : Loop(f) /\ LocalWords = f[N]  BY <1>3 DEF LocalWords, N
<1>5. \A n \in 0..N : f[n] = IF n = 0 THEN <<>> ELSE AddRare(f[n - 1], tokens[n])  BY <1>4
<1> DEFINE S == {m \in 0..N : /\ f[m] \in X
                              /\ \A k \in 1..m :
                                   RareWord(tokens[k]) => tokens[k].word \in ToSet(f[m])}
<1>6. 0 \in S  BY <1>0, <1>a, <1>5
<1>7. ASSUME NEW m \in 0..(N - 1), m \in S  PROVE m + 1 \in S
  <2>1. m + 1 \in 1..N /\ m + 1 \in 0..N /\ (m + 1) - 1 = m /\ f[m] \in X  BY <1>0, <1>7
  <2>2. f[m + 1] = AddRare(f[m], tokens[m + 1])  BY <1>5, <2>1
  <2>3. /\ f[m + 1] \in X /\ ToSet(f[m]) \subseteq ToSet(f[m + 1])
        /\ RareWord(tokens[m + 1]) => tokens[m + 1].word \in ToSet(f[m + 1])
    BY <1>b, <2>1, <2>2
  <2>4. ASSUME NEW k \in 1..(m + 1), RareWord(tokens[k])
        PROVE  tokens[k].word \in ToSet(f[m + 1])
    <3>1. CASE k = m + 1  BY <2>3, <2>4, <3>1
    <3>2. CASE k \in 1..m  BY <1>7, <2>3, <2>4, <3>2
    <3> QED  BY <3>1, <3>2
  <2> QED  BY <2>1, <2>3, <2>4
<1> HIDE DEF S
<1>8. \A m \in 0..N : m \in S  BY <1>0, <1>6, <1>7, UpTo
<1>9. N \in S  BY <1>0, <1>8
<1> QED  BY <1>4, <1>9 DEF S, N

LEMMA BuildLocalInv ==
  ASSUME IInv, BuildLocal
  PROVE  IInv'
<1>0. /\ phase = "match" /\ phase' = "encode" /\ at' = 1 /\ local' = LocalWords
      /\ UNCHANGED <<text, main, phrases, trie, todo, tokens>>
  BY DEF BuildLocal, dictVars
<1>1. text \in Texts /\ main \in Dict /\ TokensOk(tokens')
  BY <1>0 DEF IInv, BaseInv, TokenInv
<1>2. BaseInv'  BY <1>0, <1>1 DEF BaseInv
<1>3. Done' = Done
  <2>1. RegularPhrases' = RegularPhrases  BY <1>0, SameText
  <2> QED  BY <1>0, <2>1 DEF Done
<1>4. PhraseInv'  BY <1>0, PhraseFrame DEF IInv
<1>5. TrieInv'  BY <1>0, <1>3, TrieFrame DEF IInv
<1>6. TokenInv'  BY <1>0, <1>1, TokenFrame
<1>7. LocalInv'
  <2>1. tokens \in Seq(TokenType)  BY <1>0, <1>1 DEF TokensOk
  <2>2. \A k \in 1..Len(tokens) : RareWord(tokens[k]) => tokens[k].word \in ToSet(LocalWords)
    BY <2>1, LocalWordsGood
  <2> QED  BY <1>0, <2>2 DEF LocalInv, RareWord
<1>8. EncodingFailsOnlyAtEnd'  BY <1>0 DEF EncodingFailsOnlyAtEnd
<1> QED  BY <1>2, <1>4, <1>5, <1>6, <1>7, <1>8 DEF IInv

(* A token without a code is a wildcard at the end of the text.            *)
LEMMA EncodeFailsInv ==
  ASSUME IInv, EncodeFails
  PROVE  IInv'
<1>0. /\ phase = "encode" /\ phase' = "encode_failed" /\ at <= Len(tokens)
      /\ ~Encodable(tokens[at]) /\ UNCHANGED <<text, main, phrases, trie, todo, at, tokens>>
  BY DEF EncodeFails, dictVars
<1>1. text \in Texts /\ main \in Dict /\ at \in Nat /\ 1 <= at /\ TokensOk(tokens')
  BY <1>0 DEF IInv, BaseInv, TokenInv
<1>2. BaseInv'  BY <1>0, <1>1 DEF BaseInv
<1>3. Done' = Done
  <2>1. RegularPhrases' = RegularPhrases  BY <1>0, SameText
  <2> QED  BY <1>0, <2>1 DEF Done
<1>4. PhraseInv'  BY <1>0, PhraseFrame DEF IInv
<1>5. TrieInv'  BY <1>0, <1>3, TrieFrame DEF IInv
<1>6. TokenInv'  BY <1>0, <1>1, TokenFrame
<1>7. LocalInv'  BY <1>0 DEF LocalInv
<1>8. EncodingFailsOnlyAtEnd'
  <2> DEFINE tok == tokens[at]
  <2>1. tokens \in Seq(TokenType) /\ at \in 1..Len(tokens) /\ TokenOk(tokens, at)
    <3>1. tokens \in Seq(TokenType)  BY <1>0, <1>1 DEF TokensOk
    <3>2. at \in 1..Len(tokens)  BY <1>0, <1>1, <3>1
    <3> QED  BY <1>0, <1>1, <3>1, <3>2 DEF TokensOk
  <2>2. tok \in TokenType  BY <2>1
  <2>3. /\ tok.type # "PHRASE" /\ tok.word \notin DOMAIN main.enc /\ tok.word \notin ToSet(local)
    BY <1>0 DEF Encodable, InMain
  <2>4. tok.type # "WORD"
    <3>1. RareWord(tok) => tok.word \in ToSet(local)  BY <1>0, <2>1 DEF IInv, LocalInv
    <3> QED  BY <2>3, <3>1 DEF RareWord
  <2>5. tok.type = "WILDCARD"  BY <2>2, <2>3, <2>4 DEF TokenType, Types
  <2>6. WildcardOk(tok, tokens[at - 1])  BY <2>1, <2>5 DEF TokenOk
  <2>7. tok.word = NoWord /\ tok.from + tokens[at - 1].len - 1 = Len(text)
    BY <2>3, <2>6 DEF WildcardOk
  <2> QED  BY <1>0, <2>5, <2>7 DEF EncodingFailsOnlyAtEnd
<1> QED  BY <1>2, <1>4, <1>5, <1>6, <1>7, <1>8 DEF IInv

(* The steps that only move the bits.                                      *)
LEMMA StreamInv ==
  ASSUME IInv, EncodeToken \/ EncodeDone \/ DecodeToken \/ DecodeFails \/ UNCHANGED vars
  PROVE  IInv'
<1>0. UNCHANGED <<text, main, phrases, trie, todo, tokens, local>>
  BY DEF EncodeToken, EncodeDone, DecodeToken, DecodeFails, vars, dictVars, streamVars, readVars
<1>1. \/ phase = "encode" /\ phase' = "encode" /\ at' = at + 1
      \/ phase = "encode" /\ phase' = "decode" /\ at' = at
      \/ phase = "decode" /\ phase' \in {"decode", "decode_failed"} /\ at' = at
      \/ phase' = phase /\ at' = at
  BY DEF EncodeToken, EncodeDone, DecodeToken, DecodeFails, vars
<1>2. text \in Texts /\ main \in Dict /\ at \in Nat /\ 1 <= at /\ TokensOk(tokens')
  BY <1>0 DEF IInv, BaseInv, TokenInv
<1>3. RegularPhrases' = RegularPhrases /\ WildPhrases' = WildPhrases  BY <1>0, SameText
<1>4. Done' = Done  BY <1>0, <1>1, <1>3 DEF Done
<1>5. BaseInv'
  <2>1. at' \in Nat /\ 1 <= at'  BY <1>1, <1>2
  <2> QED  BY <1>0, <1>1, <1>2, <1>3, <2>1 DEF IInv, BaseInv
<1>6. PhraseInv'  BY <1>0, PhraseFrame DEF IInv
<1>7. TrieInv'  BY <1>0, <1>4, TrieFrame DEF IInv
<1>8. TokenInv'  BY <1>0, <1>2, TokenFrame
<1>9. LocalInv'  BY <1>0, <1>1 DEF IInv, LocalInv, RareWord
<1>10. EncodingFailsOnlyAtEnd'  BY <1>0, <1>1 DEF IInv, EncodingFailsOnlyAtEnd
<1> QED  BY <1>5, <1>6, <1>7, <1>8, <1>9, <1>10 DEF IInv

LEMMA NextInv ==
  ASSUME IInv, [Next]_vars
  PROVE  IInv'
<1>1. CASE \E lines \in Dictionaries : LoadDictionary(lines)  BY <1>1, LoadDictionaryInv
<1>2. CASE \E x \in todo : AddWildcardPhrase(x)  BY <1>2, AddWildcardPhraseInv
<1>3. CASE \E x \in todo : AddRegularPhrase(x)  BY <1>3, AddRegularPhraseInv
<1>4. CASE WildcardsDone  BY <1>4, WildcardsDoneInv
<1>5. CASE RegularDone  BY <1>5, RegularDoneInv
<1>6. CASE MatchPhrase  BY <1>6, MatchPhraseInv
<1>7. CASE MatchWord  BY <1>7, MatchWordInv
<1>8. CASE BuildLocal  BY <1>8, BuildLocalInv
<1>9. CASE EncodeFails  BY <1>9, EncodeFailsInv
<1>10. CASE EncodeToken \/ EncodeDone \/ DecodeToken \/ DecodeFails \/ UNCHANGED vars
  BY <1>10, StreamInv
<1> QED  BY <1>1, <1>2, <1>3, <1>4, <1>5, <1>6, <1>7, <1>8, <1>9, <1>10 DEF Next

THEOREM Invariant == Spec => []IInv
<1>1. Init => IInv  BY InitInv
<1>2. IInv /\ [Next]_vars => IInv'  BY NextInv
<1> QED  BY <1>1, <1>2, PTL DEF Spec

-----------------------------------------------------------------------------
(* The code compress keeps for a word is the place where write_to_file and *)
(* load_dictionaries put that word, and every code of a phrase is one.     *)
THEOREM CodesAlwaysLeadBack == Spec => []CodesLeadBack
<1>1. IInv => CodesLeadBack
  <2> SUFFICES ASSUME IInv  PROVE CodesLeadBack  OBVIOUS
  <2>1. LeadsBack(main)  BY DictIs DEF IInv, BaseInv
  <2>2. ASSUME NEW k \in DOMAIN phrases, NEW c \in ToSet(phrases[k].codes)
        PROVE  c = UINT32_MAX \/ c < Len(main.dec)
    <3>1. k \in 1..Len(phrases) /\ CodesIn(phrases[k], main)  BY DEF IInv, PhraseInv
    <3>2. PICK j \in DOMAIN phrases[k].codes : c = phrases[k].codes[j]  BY DEF ToSet
    <3> QED  BY <3>1, <3>2 DEF CodesIn
  <2> QED  BY <2>1, <2>2 DEF CodesLeadBack, LeadsBack
<1> QED  BY <1>1, Invariant, PTL

(* Where process_with_phrases replaced words by a phrase without a         *)
(* wildcard, or could have, the phrase is exactly these words: the nodes   *)
(* that several phrases share do no harm to it.                            *)
THEOREM PhrasesStandForTheirWords == Spec => []PhraseStandsForItsWords
<1>1. IInv => PhraseStandsForItsWords
  <2> SUFFICES ASSUME IInv, NEW k \in DOMAIN tokens, tokens[k].type = "PHRASE"
               PROVE  PhraseOk(tokens[k])
    BY DEF PhraseStandsForItsWords, PhraseOk
  <2>1. tokens \in Seq(TokenType) /\ \A j \in 1..Len(tokens) : TokenOk(tokens, j)
    BY DEF IInv, TokenInv, TokensOk
  <2>2. k \in 1..Len(tokens)  BY <2>1
  <2> QED  BY <2>1, <2>2 DEF TokenOk
<1> QED  BY <1>1, Invariant, PTL

(* compress reports "Word not found in either dictionary" only for a       *)
(* wildcard behind the last word of the text.                              *)
THEOREM EncodingFailsAtEndOnly == Spec => []EncodingFailsOnlyAtEnd
<1>1. IInv => EncodingFailsOnlyAtEnd  BY DEF IInv
<1> QED  BY <1>1, Invariant, PTL

-----------------------------------------------------------------------------
(* The bytes of the stream.                                                *)
CONSTANTS Fields, MaxFields
VARIABLES
  io, written, left, buffer, current_byte, bits_used,
  fetched, wanted, result, current_byte_idx, bits_read
Packing == INSTANCE BitIO WITH phase <- io

(* Powers of two up to 2^32.                                               *)
LEMMA Doubling ==
  ASSUME NEW i \in 0..31
  PROVE  2^i \in Nat /\ 2^i > 0 /\ 2^(i + 1) = 2 * 2^i
<1> DEFINE E(j) == 2^j
<1>1. /\ E(0) = 1 /\ E(1) = 2 /\ E(2) = 4 /\ E(3) = 8 /\ E(4) = 16 /\ E(5) = 32
      /\ E(6) = 64 /\ E(7) = 128 /\ E(8) = 256 /\ E(9) = 512 /\ E(10) = 1024
      /\ E(11) = 2048 /\ E(12) = 4096 /\ E(13) = 8192 /\ E(14) = 16384 /\ E(15) = 32768
      /\ E(16) = 65536 /\ E(17) = 131072 /\ E(18) = 262144 /\ E(19) = 524288
      /\ E(20) = 1048576 /\ E(21) = 2097152 /\ E(22) = 4194304 /\ E(23) = 8388608
      /\ E(24) = 16777216 /\ E(25) = 33554432 /\ E(26) = 67108864 /\ E(27) = 134217728
      /\ E(28) = 268435456 /\ E(29) = 536870912 /\ E(30) = 1073741824
      /\ E(31) = 2147483648 /\ E(32) = 4294967296
  OBVIOUS
<1> HIDE DEF E
<1>2. E(i) \in Nat /\ E(i) > 0 /\ E(i + 1) = 2 * E(i)
  <2>1. \/ i = 0 \/ i = 1 \/ i = 2 \/ i = 3 \/ i = 4 \/ i = 5 \/ i = 6 \/ i = 7
        \/ i = 8 \/ i = 9 \/ i = 10 \/ i = 11 \/ i = 12 \/ i = 13 \/ i = 14 \/ i = 15
        \/ i = 16 \/ i = 17 \/ i = 18 \/ i = 19 \/ i = 20 \/ i = 21 \/ i = 22 \/ i = 23
        \/ i = 24 \/ i = 25 \/ i = 26 \/ i = 27 \/ i = 28 \/ i = 29 \/ i = 30 \/ i = 31
    OBVIOUS
  <2> QED  BY <1>1, <2>1
<1> QED  BY <1>2 DEF E

LEMMA Powers ==
  ASSUME NEW i \in Nat, NEW j \in Nat, i + j <= 32
  PROVE  2^i \in Nat /\ 2^i > 0 /\ 2^(i + j) = 2^i * 2^j
<1> DEFINE E(k) == 2^k
<1>1. E(0) = 1 /\ E(32) = 4294967296  OBVIOUS
<1>2. \A k \in 0..31 : E(k) \in Nat /\ E(k) > 0 /\ E(k + 1) = 2 * E(k)  BY Doubling
<1> HIDE DEF E
<1>3. \A k \in 0..32 : E(k) \in Nat /\ E(k) > 0
  <2>1. \A k \in 0..32 : k = 32 \/ k \in 0..31  OBVIOUS
  <2> QED  BY <1>1, <1>2, <2>1
<1> DEFINE S == {k \in 0..j : E(i + k) = E(i) * E(k)}
<1>4. 0 \in S
  <2>1. i + 0 = i /\ i \in 0..32 /\ 0 \in 0..j  OBVIOUS
  <2> QED  BY <1>1, <1>3, <2>1
<1>5. ASSUME NEW k \in 0..(j - 1), k \in S  PROVE k + 1 \in S
  <2>1. i + k \in 0..31 /\ k \in 0..31 /\ i + (k + 1) = (i + k) + 1 /\ k + 1 \in 0..j /\ i \in 0..32
    OBVIOUS
  <2>2. E(i + (k + 1)) = 2 * E(i + k)  BY <1>2, <2>1
  <2>3. E(k + 1) = 2 * E(k) /\ E(i + k) = E(i) * E(k)  BY <1>2, <1>5, <2>1
  <2>4. E(i) \in Nat /\ E(k) \in Nat  BY <1>2, <1>3, <2>1
  <2>5. E(i + (k + 1)) = E(i) * E(k + 1)
    <3> DEFINE a == E(i)
               b == E(k)
    <3>1. a \in Nat /\ b \in Nat  BY <2>4
    <3> HIDE DEF a, b
    <3>2. 2 * (a * b) = a * (2 * b)  BY <3>1
    <3> QED  BY <2>2, <2>3, <3>2 DEF a, b
  <2> QED  BY <2>1, <2>5
<1> HIDE DEF S
<1>6. \A k \in 0..j : k \in S  BY <1>4, <1>5, UpTo
<1>7. j \in S  BY <1>6
<1>8. E(i + j) = E(i) * E(j)  BY <1>7 DEF S
<1>9. E(i) \in Nat /\ E(i) > 0  BY <1>3
<1> QED  BY <1>8, <1>9 DEF E

(* Quotients and remainders.                                               *)
LEMMA DivDiv ==
  ASSUME NEW x \in Nat, NEW a \in Nat, NEW b \in Nat, a > 0, b > 0
  PROVE  (x \div a) \div b = x \div (a * b) /\ a * b \in Nat /\ a * b > 0
OBVIOUS

LEMMA DivUnique ==
  ASSUME NEW m \in Nat, m > 0, NEW s \in Nat, NEW u \in Nat, u < m
  PROVE  (m * s + u) % m = u /\ (m * s + u) \div m = s
OBVIOUS

LEMMA DivMod ==
  ASSUME NEW x \in Nat, NEW m \in Nat, m > 0
  PROVE  /\ x \div m \in Nat /\ x % m \in Nat /\ (x % m) < m
         /\ x = m * (x \div m) + (x % m)
OBVIOUS

(* Two slices of a number side by side.                                    *)
LEMMA Join ==
  ASSUME NEW x \in Nat, NEW a \in Nat, NEW b \in Nat, a > 0, b > 0
  PROVE  ((x \div a) % b) * a + (x % a) = x % (a * b)
<1> DEFINE q == x \div a
           r == x % a
           s == q \div b
           t == q % b
<1>1. q \in Nat /\ r \in Nat /\ r < a /\ x = a * q + r  BY DivMod
<1> HIDE DEF q, r
<1>2. s \in Nat /\ t \in Nat /\ t < b /\ q = b * s + t  BY <1>1, DivMod
<1> HIDE DEF s, t
<1>3. x = (a * b) * s + (t * a + r)  BY <1>1, <1>2
<1>4. t * a + r \in Nat /\ t * a + r < a * b
  <2>1. t * a \in Nat /\ a * b \in Nat  BY <1>2
  <2>2. (t + 1) * a <= b * a  BY <1>2
  <2>3. (t + 1) * a = t * a + a  BY <1>2
  <2> QED  BY <1>1, <2>1, <2>2, <2>3
<1>5. a * b \in Nat /\ a * b > 0  BY DivDiv
<1>6. x % (a * b) = t * a + r
  <2> DEFINE m == a * b
             u == t * a + r
  <2>1. m \in Nat /\ m > 0 /\ u \in Nat /\ u < m /\ x = m * s + u  BY <1>3, <1>4, <1>5
  <2> HIDE DEF m, u
  <2>2. x % m = u  BY <1>2, <2>1, DivUnique
  <2> QED  BY <2>2 DEF m, u
<1> QED  BY <1>6 DEF q, r, s, t

(* c is put below the bits in use and above the bits that d leaves free.   *)
PlacedAt(a, d, q, c) ==
  /\ (((a * d) * q + c * d) \div d) % a = c
  /\ (a * d) * q + c * d = d * (a * q + c)
  /\ c * d \in Nat /\ c * d < a * d
LEMMA Placed ==
  ASSUME NEW a \in Nat, a > 0, NEW d \in Nat, d > 0, NEW q \in Nat, NEW c \in Nat, c < a
  PROVE  PlacedAt(a, d, q, c)
<1>1. (a * d) * q + c * d = d * (a * q + c) + 0  OBVIOUS
<1>2. a * q + c \in Nat /\ 0 < d  OBVIOUS
<1>3. (d * (a * q + c) + 0) \div d = a * q + c  BY <1>2, DivUnique
<1>4. (a * q + c) % a = c  BY DivUnique
<1>5. c * d \in Nat /\ c * d < a * d  OBVIOUS
<1>6. d * (a * q + c) + 0 = d * (a * q + c)  BY <1>2
<1> QED  BY <1>1, <1>3, <1>4, <1>5, <1>6 DEF PlacedAt

(* What is above is not touched by it.                                     *)
LEMMA Above ==
  ASSUME NEW a \in Nat, a > 0, NEW b \in Nat, b > 0, NEW q \in Nat, NEW r \in Nat, r < a
  PROVE  (a * q + r) \div (a * b) = (a * q) \div (a * b)
<1>1. (a * q + r) \div a = q /\ a * q + r \in Nat  BY DivUnique
<1>2. (a * q + 0) \div a = q /\ a * q + 0 = a * q /\ a * q \in Nat  BY DivUnique
<1>3. (a * q + r) \div (a * b) = q \div b  BY <1>1, DivDiv
<1>4. (a * q) \div (a * b) = q \div b  BY <1>2, DivDiv
<1> QED  BY <1>3, <1>4

-----------------------------------------------------------------------------
(* Field k begins at bit S[k] of the stream.                               *)
Starts(S, ws) ==
  /\ S \in [1..(Len(ws) + 1) -> Nat] /\ S[1] = 0
  /\ \A k \in 1..Len(ws) : S[k + 1] = S[k] + ws[k][2]
  /\ \A j, k \in 1..(Len(ws) + 1) : j <= k => S[j] <= S[k]

(* The bits of field k in byte i, counted from zero: n bits from bit o on. *)
Chunk(S, ws, k, i, o, n) ==
  /\ k \in 1..Len(ws) /\ i \in Nat /\ o \in Nat /\ n \in Nat /\ 1 <= n /\ o + n <= 8
  /\ S[k] <= 8 * i + o /\ 8 * i + o + n <= S[k] + ws[k][2]
  /\ 8 * i + o = S[k] \/ o = 0
  /\ 8 * i + o + n = S[k] + ws[k][2] \/ o + n = 8

Byte(b, c, i) == IF i < Len(b) THEN b[i + 1] ELSE c

InPlace(S, ws, b, c, k, i, o, n) ==
  Packing!Slice(Byte(b, c, i), 8 - o - n, n)
    = Packing!Slice(ws[k][1], S[k] + ws[k][2] - (8 * i + o + n), n)

(* Every chunk before bit "end" is in its byte.                            *)
Packed(S, ws, b, c, end) ==
  \A k, i, o, n : Chunk(S, ws, k, i, o, n) /\ 8 * i + o + n <= end =>
    InPlace(S, ws, b, c, k, i, o, n)

PackTypes ==
  /\ written \in Seq(Fields) /\ left \in Nat
  /\ buffer \in Seq(Nat) /\ current_byte \in Nat /\ bits_used \in 0..7
  /\ fetched \in Seq(Nat) /\ wanted \in Nat /\ result \in Nat
  /\ current_byte_idx \in Nat /\ bits_read \in 0..7

WriterInv(S) ==
  LET N == Len(written) IN
  /\ io = "write" => S[N + 1] = 8 * Len(buffer) + bits_used + left
  /\ io # "write" => S[N + 1] <= 8 * Len(buffer) /\ left = 0
  /\ left > 0 => /\ N > 0 /\ left <= written[N][2]
                 /\ left = written[N][2] \/ bits_used = 0
  /\ \E q \in Nat : current_byte = 2^(8 - bits_used) * q

ReaderInv(S) ==
  LET k == Len(fetched) + 1 IN
  /\ Len(fetched) <= Len(written)
  /\ io = "write" => fetched = <<>> /\ wanted = 0
  /\ wanted = 0 => 8 * current_byte_idx + bits_read = S[k]
  /\ wanted > 0 =>
       /\ k <= Len(written) /\ wanted <= written[k][2]
       /\ wanted = written[k][2] \/ bits_read = 0
       /\ 8 * current_byte_idx + bits_read + wanted = S[k] + written[k][2]
       /\ result = Packing!Slice(written[k][1], wanted, written[k][2] - wanted)

PackInv ==
  /\ PackTypes
  /\ \E S : /\ Starts(S, written) /\ WriterInv(S) /\ ReaderInv(S)
            /\ Packed(S, written, buffer, current_byte, S[Len(written) + 1] - left)
  /\ Packing!FieldsReadBack

LEMMA FieldIs ==
  ASSUME Packing!FieldsAssumption, NEW ws \in Seq(Fields), NEW k \in 1..Len(ws)
  PROVE  ws[k][1] \in Nat /\ ws[k][2] \in Nat /\ 1 <= ws[k][2] /\ ws[k][2] <= 32
<1>1. \A f \in Fields : f[1] \in Nat /\ f[2] \in 1..32  OBVIOUS
<1>2. PICK f \in Fields : f = ws[k]  OBVIOUS
<1>3. f[1] \in Nat /\ f[2] \in 1..32  BY <1>1
<1>4. PICK w \in 1..32 : w = f[2]  BY <1>3
<1>5. w \in Nat /\ 1 <= w /\ w <= 32  OBVIOUS
<1> QED  BY <1>2, <1>3, <1>4, <1>5

LEMMA SliceIs ==
  ASSUME NEW v \in Nat, NEW lo \in Nat, NEW n \in Nat, lo <= 32, n <= 32
  PROVE  /\ Packing!Slice(v, lo, n) \in Nat /\ Packing!Slice(v, lo, n) < 2^n
         /\ v \div 2^lo \in Nat
<1> DEFINE a == 2^lo
           b == 2^n
<1>1. a \in Nat /\ a > 0 /\ b \in Nat /\ b > 0
  <2>1. 2^lo \in Nat /\ 2^lo > 0
    <3>1. 0 \in Nat /\ lo + 0 <= 32  OBVIOUS
    <3> QED  BY <3>1, Powers
  <2>2. 2^n \in Nat /\ 2^n > 0
    <3>1. 0 \in Nat /\ n + 0 <= 32  OBVIOUS
    <3> QED  BY <3>1, Powers
  <2> QED  BY <2>1, <2>2
<1>2. Packing!Slice(v, lo, n) = (v \div a) % b  BY DEF Packing!Slice
<1>3. v \div 2^lo = v \div a  OBVIOUS
<1>4. 2^n = b  OBVIOUS
<1> HIDE DEF a, b
<1>5. v \div a \in Nat  BY <1>1, DivMod
<1>6. (v \div a) % b \in Nat /\ ((v \div a) % b) < b  BY <1>1, <1>5, DivMod
<1> QED  BY <1>2, <1>3, <1>4, <1>5, <1>6

LEMMA PackInit ==
  ASSUME Packing!FieldsAssumption, Packing!Init
  PROVE  PackInv
<1>1. /\ io = "write" /\ written = <<>> /\ left = 0 /\ buffer = <<>> /\ current_byte = 0
      /\ bits_used = 0 /\ fetched = <<>> /\ wanted = 0 /\ result = 0
      /\ current_byte_idx = 0 /\ bits_read = 0
  BY DEF Packing!Init
<1>2. PackTypes  BY <1>1 DEF PackTypes
<1>3. Packing!FieldsReadBack  BY <1>1 DEF Packing!FieldsReadBack
<1> DEFINE S == [k \in 1..1 |-> 0]
<1>4. S \in [1..1 -> Nat] /\ S[1] = 0 /\ \A j \in 1..1 : S[j] = 0  OBVIOUS
<1> HIDE DEF S
<1>5. Len(written) = 0 /\ Len(buffer) = 0 /\ Len(fetched) = 0  BY <1>1
<1>6. Starts(S, written)  BY <1>4, <1>5 DEF Starts
<1>7. WriterInv(S)
  <2>1. \E q \in Nat : current_byte = 2^(8 - bits_used) * q
    <3>1. 8 - bits_used = 8 /\ 2^8 = 256  BY <1>1
    <3>2. 2^(8 - bits_used) * 0 = 0  BY <3>1
    <3> QED  BY <1>1, <3>2
  <2> QED  BY <1>1, <1>4, <1>5, <2>1 DEF WriterInv
<1>8. ReaderInv(S)  BY <1>1, <1>4, <1>5 DEF ReaderInv
<1>9. Packed(S, written, buffer, current_byte, S[Len(written) + 1] - left)
  BY <1>5 DEF Packed, Chunk
<1> QED  BY <1>2, <1>3, <1>6, <1>7, <1>8, <1>9 DEF PackInv

(* What write_bits is given next comes after all that is there.            *)
LEMMA StartsMore ==
  ASSUME Packing!FieldsAssumption, NEW ws \in Seq(Fields), NEW f \in Fields, NEW S, Starts(S, ws)
  PROVE  LET N == Len(ws)
             us == Append(ws, f)
             T == [k \in 1..(N + 2) |-> IF k = N + 2 THEN S[N + 1] + f[2] ELSE S[k]] IN
         Starts(T, us) /\ (\A k \in 1..(N + 1) : T[k] = S[k]) /\ T[N + 2] = S[N + 1] + f[2]
<1> DEFINE N == Len(ws)
           us == Append(ws, f)
           e == S[N + 1] + f[2]
           T == [k \in 1..(N + 2) |-> IF k = N + 2 THEN e ELSE S[k]]
<1>1. /\ us \in Seq(Fields) /\ Len(us) = N + 1 /\ N \in Nat /\ us[N + 1] = f
      /\ \A k \in 1..N : us[k] = ws[k]
  BY AppendProperties
<1> HIDE DEF us
<1>2. us[N + 1][2] \in Nat
  <2>1. N + 1 \in 1..Len(us)  BY <1>1
  <2> QED  BY <1>1, <2>1, FieldIs
<1>3. f[2] \in Nat  BY <1>1, <1>2
<1> HIDE DEF N
<1>4. /\ S \in [1..(N + 1) -> Nat] /\ S[1] = 0
      /\ \A k \in 1..N : S[k + 1] = S[k] + ws[k][2]
      /\ \A j, k \in 1..(N + 1) : j <= k => S[j] <= S[k]
  BY DEF Starts, N
<1>5. S[N + 1] \in Nat  BY <1>1, <1>4
<1>6. e \in Nat /\ S[N + 1] <= e  BY <1>3, <1>5
<1>e. e = S[N + 1] + f[2]  OBVIOUS
<1> HIDE DEF e
<1>7. /\ T \in [1..(N + 2) -> Nat] /\ T[N + 2] = e /\ \A k \in 1..(N + 1) : T[k] = S[k]
  BY <1>1, <1>4, <1>6
<1> HIDE DEF T
<1>8. T[1] = 0  BY <1>1, <1>4, <1>7
<1>9. ASSUME NEW k \in 1..(N + 1)  PROVE T[k + 1] = T[k] + us[k][2]
  <2>1. CASE k = N + 1  BY <1>1, <1>7, <1>e, <2>1
  <2>2. CASE k \in 1..N
    <3>1. k + 1 \in 1..(N + 1)  BY <1>1, <2>2
    <3> QED  BY <1>1, <1>4, <1>7, <2>2, <3>1
  <2> QED  BY <1>1, <2>1, <2>2
<1>10. ASSUME NEW j \in 1..(N + 2), NEW k \in 1..(N + 2), j <= k  PROVE T[j] <= T[k]
  <2>1. CASE k \in 1..(N + 1)
    <3>1. j \in 1..(N + 1)  BY <1>1, <1>10, <2>1
    <3> QED  BY <1>4, <1>7, <1>10, <2>1, <3>1
  <2>2. CASE k = N + 2 /\ j \in 1..(N + 1)
    <3>1. S[j] <= S[N + 1] /\ S[j] \in Nat  BY <1>1, <1>4, <2>2
    <3> QED  BY <1>5, <1>6, <1>7, <2>2, <3>1
  <2>3. CASE k = N + 2 /\ j = N + 2  BY <1>6, <1>7, <2>3
  <2> QED  BY <1>1, <2>1, <2>2, <2>3
<1>11. Starts(T, us)
  <2>1. Len(us) + 1 = N + 2  BY <1>1
  <2> QED  BY <1>1, <1>7, <1>8, <1>9, <1>10, <2>1 DEF Starts
<1> QED  BY <1>7, <1>11, <1>e DEF T, us, N, e

LEMMA PackWriteBits ==
  ASSUME Packing!FieldsAssumption, PackInv, NEW f \in Fields, Packing!WriteBits(f)
  PROVE  PackInv'
<1> DEFINE N == Len(written)
<1>0. /\ io = "write" /\ io' = io /\ left = 0 /\ written' = Append(written, f) /\ left' = f[2]
      /\ UNCHANGED <<buffer, current_byte, bits_used, fetched, wanted, result,
                     current_byte_idx, bits_read>>
  BY DEF Packing!WriteBits, Packing!readerVars
<1>1. PackTypes  BY DEF PackInv
<1>2. PICK S : /\ Starts(S, written) /\ WriterInv(S) /\ ReaderInv(S)
               /\ Packed(S, written, buffer, current_byte, S[N + 1] - left)
  BY DEF PackInv
<1>3. written \in Seq(Fields) /\ N \in Nat  BY <1>1 DEF PackTypes
<1>4. /\ written' \in Seq(Fields) /\ Len(written') = N + 1 /\ written'[N + 1] = f
      /\ \A k \in 1..N : written'[k] = written[k]
  BY <1>0, <1>3, AppendProperties
<1>5. f[2] \in Nat /\ 1 <= f[2]
  <2>1. N + 1 \in 1..Len(written')  BY <1>3, <1>4
  <2> QED  BY <1>4, <2>1, FieldIs
<1>6. PICK T : /\ Starts(T, written') /\ \A k \in 1..(N + 1) : T[k] = S[k]
               /\ T[N + 2] = S[N + 1] + f[2]
  <2> DEFINE T == [k \in 1..(N + 2) |-> IF k = N + 2 THEN S[N + 1] + f[2] ELSE S[k]]
  <2>1. /\ Starts(T, Append(written, f)) /\ \A k \in 1..(N + 1) : T[k] = S[k]
        /\ T[N + 2] = S[N + 1] + f[2]
    BY <1>2, <1>3, StartsMore
  <2> HIDE DEF T
  <2> QED  BY <1>0, <2>1
<1> HIDE DEF N
<1>7. S \in [1..(N + 1) -> Nat] /\ S[N + 1] \in Nat /\ S[1] = 0  BY <1>2, <1>3 DEF Starts, N
<1>t. PackTypes'  BY <1>0, <1>1, <1>4, <1>5 DEF PackTypes
<1>8. WriterInv(T)'
  <2>1. \E q \in Nat : current_byte' = 2^(8 - bits_used') * q  BY <1>0, <1>2 DEF WriterInv
  <2>2. S[N + 1] = 8 * Len(buffer) + bits_used + left  BY <1>0, <1>2 DEF WriterInv, N
  <2>3. bits_used \in Nat /\ Len(buffer) \in Nat  BY <1>1 DEF PackTypes
  <2>4. T[N + 2] = 8 * Len(buffer) + bits_used + f[2]  BY <1>0, <1>5, <1>6, <2>2, <2>3
  <2>5. Len(written') + 1 = N + 2  BY <1>3, <1>4
  <2> QED  BY <1>0, <1>3, <1>4, <1>5, <2>1, <2>4, <2>5 DEF WriterInv
<1>9. ReaderInv(T)'
  <2>1. /\ fetched = <<>> /\ wanted = 0 /\ 8 * current_byte_idx + bits_read = S[Len(fetched) + 1]
    BY <1>0, <1>2 DEF ReaderInv
  <2>2. Len(fetched) = 0 /\ 1 \in 1..(N + 1)  BY <1>3, <2>1
  <2>3. T[1] = S[1]  BY <1>6, <2>2
  <2> QED  BY <1>0, <1>3, <1>4, <2>1, <2>2, <2>3 DEF ReaderInv
<1>10. Packed(T, written', buffer', current_byte', T[Len(written') + 1] - left')
  <2>1. T[Len(written') + 1] - left' = S[N + 1]
    <3>1. Len(written') + 1 = N + 2  BY <1>3, <1>4
    <3> QED  BY <1>0, <1>5, <1>6, <1>7, <3>1
  <2> SUFFICES Packed(T, written', buffer, current_byte, S[N + 1])
    BY <1>0, <2>1
  <2> SUFFICES ASSUME NEW k, NEW i, NEW o, NEW n, Chunk(T, written', k, i, o, n),
                      8 * i + o + n <= S[N + 1]
               PROVE  InPlace(T, written', buffer, current_byte, k, i, o, n)
    BY DEF Packed
  <2>2. /\ k \in 1..(N + 1) /\ i \in Nat /\ o \in Nat /\ n \in Nat /\ 1 <= n
        /\ T[k] <= 8 * i + o
    BY <1>4 DEF Chunk
  <2>3. k # N + 1
    <3>1. k = N + 1 => S[N + 1] <= 8 * i + o  BY <1>6, <2>2
    <3> QED  BY <1>7, <2>2, <3>1
  <2>4. k \in 1..N  BY <1>3, <2>2, <2>3
  <2>5. T[k] = S[k] /\ written'[k] = written[k]  BY <1>4, <1>6, <2>2, <2>4
  <2>6. Chunk(S, written, k, i, o, n)  BY <2>4, <2>5 DEF Chunk, N
  <2>7. 8 * i + o + n <= S[N + 1] - left  BY <1>0, <1>7
  <2>8. InPlace(S, written, buffer, current_byte, k, i, o, n)  BY <1>2, <2>6, <2>7 DEF Packed
  <2> QED  BY <2>5, <2>8 DEF InPlace
<1>11. Packing!FieldsReadBack'
  <2>1. fetched' = <<>>  BY <1>0, <1>2 DEF ReaderInv
  <2> QED  BY <2>1 DEF Packing!FieldsReadBack
<1> QED  BY <1>t, <1>6, <1>8, <1>9, <1>10, <1>11 DEF PackInv

LEMMA PackFlush ==
  ASSUME Packing!FieldsAssumption, PackInv, Packing!Flush
  PROVE  PackInv'
<1> DEFINE N == Len(written)
           M == Len(buffer)
<1>0. /\ io = "write" /\ io' = "flushed" /\ left = 0 /\ current_byte' = 0 /\ bits_used' = 0
      /\ buffer' = IF bits_used > 0 THEN Append(buffer, current_byte) ELSE buffer
      /\ UNCHANGED <<written, left, fetched, wanted, result, current_byte_idx, bits_read>>
  BY DEF Packing!Flush, Packing!readerVars
<1>1. PackTypes  BY DEF PackInv
<1>2. PICK S : /\ Starts(S, written) /\ WriterInv(S) /\ ReaderInv(S)
               /\ Packed(S, written, buffer, current_byte, S[N + 1] - left)
  BY DEF PackInv
<1>3. written \in Seq(Fields) /\ N \in Nat /\ M \in Nat /\ bits_used \in 0..7
      /\ buffer \in Seq(Nat) /\ current_byte \in Nat
  BY <1>1 DEF PackTypes
<1>4. S[N + 1] = 8 * M + bits_used  BY <1>0, <1>2, <1>3 DEF WriterInv
<1>5. /\ buffer' \in Seq(Nat) /\ Len(buffer') = (IF bits_used > 0 THEN M + 1 ELSE M)
      /\ \A i \in 0..(M - 1) : buffer'[i + 1] = buffer[i + 1]
      /\ bits_used > 0 => buffer'[M + 1] = current_byte
  <2>1. CASE bits_used > 0
    <3>1. buffer' = Append(buffer, current_byte)  BY <1>0, <2>1
    <3>2. /\ buffer' \in Seq(Nat) /\ Len(buffer') = M + 1 /\ buffer'[M + 1] = current_byte
          /\ \A k \in 1..M : buffer'[k] = buffer[k]
      BY <1>3, <3>1, AppendProperties
    <3> HIDE DEF M
    <3> QED  BY <1>3, <2>1, <3>2
  <2>2. CASE ~(bits_used > 0)
    <3>1. buffer' = buffer  BY <1>0, <2>2
    <3> QED  BY <1>3, <2>2, <3>1
  <2> QED  BY <2>1, <2>2
<1> HIDE DEF M, N
<1>6. PackTypes'  BY <1>0, <1>1, <1>5 DEF PackTypes
<1>7. WriterInv(S)'
  <2>1. \E q \in Nat : current_byte' = 2^(8 - bits_used') * q
    <3>1. 8 - bits_used' = 8 /\ 2^8 = 256  BY <1>0
    <3>2. 2^(8 - bits_used') * 0 = 0  BY <3>1
    <3> QED  BY <1>0, <3>2
  <2>2. S[N + 1] <= 8 * Len(buffer')  BY <1>3, <1>4, <1>5
  <2> QED  BY <1>0, <2>1, <2>2 DEF WriterInv, N
<1>8. ReaderInv(S)'
  <2>1. io' # "write" /\ Len(fetched') <= Len(written')  BY <1>0, <1>2 DEF ReaderInv
  <2> QED  BY <1>0, <1>2, <2>1 DEF ReaderInv
<1>9. Packed(S, written', buffer', current_byte', S[Len(written') + 1] - left')
  <2>1. S[Len(written') + 1] - left' = 8 * M + bits_used /\ S[N + 1] - left = 8 * M + bits_used
    BY <1>0, <1>3, <1>4 DEF N
  <2> SUFFICES Packed(S, written, buffer', current_byte', 8 * M + bits_used)
    BY <1>0, <2>1
  <2> SUFFICES ASSUME NEW k, NEW i, NEW o, NEW n, Chunk(S, written, k, i, o, n),
                      8 * i + o + n <= 8 * M + bits_used
               PROVE  InPlace(S, written, buffer', current_byte', k, i, o, n)
    BY DEF Packed
  <2>2. i \in Nat /\ o \in Nat /\ n \in Nat /\ 1 <= n  BY DEF Chunk
  <2>3. InPlace(S, written, buffer, current_byte, k, i, o, n)  BY <1>2, <2>1 DEF Packed
  <2>4. Byte(buffer', current_byte', i) = Byte(buffer, current_byte, i)
    <3>1. CASE i < M
      <4>1. i \in 0..(M - 1) /\ i < Len(buffer')  BY <1>3, <1>5, <2>2, <3>1
      <4> QED  BY <1>5, <3>1, <4>1 DEF Byte, M
    <3>2. CASE ~(i < M)
      <4>1. i = M /\ bits_used > 0  BY <1>3, <2>2, <3>2
      <4>2. i < Len(buffer') /\ buffer'[i + 1] = current_byte  BY <1>3, <1>5, <4>1
      <4> QED  BY <3>2, <4>2 DEF Byte, M
    <3> QED  BY <3>1, <3>2
  <2> QED  BY <2>3, <2>4 DEF InPlace
<1>10. Packing!FieldsReadBack'
  BY <1>0 DEF PackInv, Packing!FieldsReadBack
<1>11. Starts(S, written')  BY <1>0, <1>2
<1> QED  BY <1>6, <1>7, <1>8, <1>9, <1>10, <1>11 DEF PackInv

LEMMA PackReadBits ==
  ASSUME Packing!FieldsAssumption, PackInv, Packing!ReadBits
  PROVE  PackInv'
<1> DEFINE N == Len(written)
           k == Len(fetched) + 1
<1>0. /\ io = "flushed" /\ io' = io /\ wanted = 0 /\ Len(fetched) < N
      /\ wanted' = written[k][2] /\ result' = 0
      /\ UNCHANGED <<written, left, buffer, current_byte, bits_used, fetched,
                     current_byte_idx, bits_read>>
  BY DEF Packing!ReadBits, Packing!writerVars
<1>1. PackTypes  BY DEF PackInv
<1>2. PICK S : /\ Starts(S, written) /\ WriterInv(S) /\ ReaderInv(S)
               /\ Packed(S, written, buffer, current_byte, S[N + 1] - left)
  BY DEF PackInv
<1>3. written \in Seq(Fields) /\ N \in Nat /\ Len(fetched) \in Nat /\ k \in 1..N
      /\ current_byte_idx \in Nat /\ bits_read \in Nat
  BY <1>0, <1>1 DEF PackTypes
<1>4. /\ written[k][1] \in Nat /\ written[k][2] \in Nat /\ 1 <= written[k][2]
      /\ written[k][2] <= 32
  BY <1>3, FieldIs
<1>5. PackTypes'  BY <1>0, <1>1, <1>4 DEF PackTypes
<1>6. WriterInv(S)'  BY <1>0, <1>2 DEF WriterInv
<1>7. ReaderInv(S)'
  <2> DEFINE v == written[k][1]
             w == written[k][2]
  <2>1. v \in Nat /\ w \in Nat /\ 1 <= w /\ w <= 32  BY <1>4
  <2>2. wanted' = w  BY <1>0
  <2>3. 8 * current_byte_idx + bits_read = S[k] /\ S[k] \in Nat
    <3>1. S[k] \in Nat
      <4>1. k \in 1..(N + 1)  BY <1>3
      <4> HIDE DEF k
      <4> QED  BY <1>2, <4>1 DEF Starts
    <3> QED  BY <1>0, <1>2, <3>1 DEF ReaderInv
  <2> HIDE DEF v, w
  <2>4. 8 * current_byte_idx + bits_read + w = S[k] + w  BY <2>3
  <2>5. Packing!Slice(v, w, w - w) = 0
    <3>1. w - w = 0 /\ 2^0 = 1  BY <2>1
    <3>2. 2^(w - w) = 1
      <4>1. 2^(w - w) = 2^0  BY <3>1
      <4> QED  BY <3>1, <4>1
    <3>3. v \div 2^w \in Nat  BY <2>1, SliceIs
    <3> DEFINE x == v \div 2^w
    <3>4. Packing!Slice(v, w, w - w) = x % 1  BY <3>2 DEF Packing!Slice
    <3>5. x \in Nat  BY <3>3
    <3> HIDE DEF x
    <3>6. x % 1 = 0  BY <3>5
    <3> QED  BY <3>4, <3>6
  <2>6. w > 0 /\ k <= N /\ w <= w  BY <1>3, <2>1
  <2> QED  BY <1>0, <1>3, <2>2, <2>4, <2>5, <2>6 DEF ReaderInv, v, w
<1>8. Packed(S, written', buffer', current_byte', S[Len(written') + 1] - left')
  BY <1>0, <1>2
<1>9. Packing!FieldsReadBack'
  BY <1>0 DEF PackInv, Packing!FieldsReadBack
<1>10. Starts(S, written')  BY <1>0, <1>2
<1> QED  BY <1>5, <1>6, <1>7, <1>8, <1>9, <1>10 DEF PackInv

(* The byte with a chunk put into it: the chunk is there, what was above   *)
(* it is as it was, what is below it is still zero.                        *)
PutBelow(b, y, u, n, c) ==
  /\ y \in Nat /\ Packing!Slice(y, 8 - u - n, n) = c
  /\ \E q \in Nat : y = 2^(8 - u - n) * q
  /\ \A o, m \in Nat : o + m <= u => Packing!Slice(y, 8 - o - m, m)
                                      = Packing!Slice(b, 8 - o - m, m)
LEMMA ChunkPut ==
  ASSUME NEW u \in Nat, NEW n \in Nat, 1 <= n, u + n <= 8, NEW c \in Nat, c < 2^n,
         NEW b \in Nat, \E q \in Nat : b = 2^(8 - u) * q
  PROVE  PutBelow(b, b + c * 2^(8 - u - n), u, n, c)
<1> DEFINE a == 2^n
           d == 2^(8 - u - n)
           y == b + c * d
<1>1. PICK q \in Nat : b = 2^(8 - u) * q  OBVIOUS
<1>2. a \in Nat /\ a > 0 /\ d \in Nat /\ d > 0 /\ 2^(8 - u) = a * d
  <2>1. 8 - u - n \in Nat /\ n + (8 - u - n) = 8 - u /\ n + (8 - u - n) <= 32
        /\ (8 - u - n) + 0 <= 32 /\ 0 \in Nat
    OBVIOUS
  <2>2. 2^n \in Nat /\ 2^n > 0 /\ 2^(n + (8 - u - n)) = 2^n * 2^(8 - u - n)
    BY <2>1, Powers
  <2>3. 2^(8 - u - n) \in Nat /\ 2^(8 - u - n) > 0  BY <2>1, Powers
  <2> QED  BY <2>1, <2>2, <2>3
<1>3. c < a  OBVIOUS
<1>4. b = (a * d) * q  BY <1>1, <1>2
<1>s. Packing!Slice(y, 8 - u - n, n) = (y \div d) % a  BY DEF Packing!Slice
<1>d. d = 2^(8 - u - n)  OBVIOUS
<1>y. y = b + c * d  OBVIOUS
<1> HIDE DEF a, d, y
<1>5. /\ (((a * d) * q + c * d) \div d) % a = c
      /\ (a * d) * q + c * d = d * (a * q + c)
      /\ c * d \in Nat /\ c * d < a * d
  <2>1. PlacedAt(a, d, q, c)  BY <1>2, <1>3, Placed
  <2> QED  BY <2>1 DEF PlacedAt
<1>6. y \in Nat /\ (y \div d) % a = c /\ y = d * (a * q + c)  BY <1>4, <1>5, <1>y
<1>7. a * q + c \in Nat  BY <1>2
<1>8. ASSUME NEW o \in Nat, NEW m \in Nat, o + m <= u
      PROVE  Packing!Slice(y, 8 - o - m, m) = Packing!Slice(b, 8 - o - m, m)
  <2> DEFINE h == 2^(u - o - m)
             z == a * d
             r == c * d
  <2>1. h \in Nat /\ h > 0 /\ 2^(8 - o - m) = z * h
    <3>1. u - o - m \in Nat /\ 8 - u \in Nat /\ (8 - u) + (u - o - m) = 8 - o - m
          /\ (8 - u) + (u - o - m) <= 32 /\ (u - o - m) + 0 <= 32 /\ 0 \in Nat
      BY <1>8
    <3>2. 2^((8 - u) + (u - o - m)) = 2^(8 - u) * 2^(u - o - m)  BY <3>1, Powers
    <3>3. 2^(u - o - m) \in Nat /\ 2^(u - o - m) > 0  BY <3>1, Powers
    <3> QED  BY <1>2, <3>1, <3>2, <3>3
  <2>2. z \in Nat /\ z > 0 /\ r \in Nat /\ r < z  BY <1>2, <1>5, DivDiv
  <2>3. y = z * q + r /\ b = z * q  BY <1>4, <1>y
  <2> HIDE DEF h, z, r
  <2>4. (z * q + r) \div (z * h) = (z * q) \div (z * h)  BY <2>1, <2>2, Above
  <2>5. y \div 2^(8 - o - m) = b \div 2^(8 - o - m)  BY <2>1, <2>3, <2>4
  <2> QED  BY <2>5 DEF Packing!Slice
<1>9. PutBelow(b, y, u, n, c)  BY <1>6, <1>7, <1>8, <1>s, <1>d DEF PutBelow
<1> QED  BY <1>9 DEF y, d

LEMMA PackWriteChunk ==
  ASSUME Packing!FieldsAssumption, PackInv, Packing!WriteChunk
  PROVE  PackInv'
<1> DEFINE N == Len(written)
           M == Len(buffer)
           u == bits_used
           n == Packing!Smaller(left, 8 - u)
           v == written[N][1]
           w == written[N][2]
           c == Packing!Slice(v, left - n, n)
           y == current_byte + c * 2^(8 - u - n)
<1>0. /\ left > 0 /\ left' = left - n
      /\ buffer' = IF u + n = 8 THEN Append(buffer, y) ELSE buffer
      /\ current_byte' = IF u + n = 8 THEN 0 ELSE y
      /\ bits_used' = (u + n) % 8
      /\ io' = io
      /\ UNCHANGED <<written, fetched, wanted, result, current_byte_idx, bits_read>>
  BY DEF Packing!WriteChunk, Packing!readerVars
<1>1. PackTypes  BY DEF PackInv
<1>2. PICK S : /\ Starts(S, written) /\ WriterInv(S) /\ ReaderInv(S)
               /\ Packed(S, written, buffer, current_byte, S[N + 1] - left)
  BY DEF PackInv
<1>3. /\ written \in Seq(Fields) /\ N \in Nat /\ M \in Nat /\ u \in 0..7 /\ left \in Nat
      /\ buffer \in Seq(Nat) /\ current_byte \in Nat
  BY <1>1 DEF PackTypes
<1>4. io = "write" /\ N > 0 /\ left <= w /\ (left = w \/ u = 0)
  BY <1>0, <1>2, <1>3 DEF WriterInv
<1>5. v \in Nat /\ w \in Nat /\ 1 <= w /\ w <= 32
  <2>1. N \in 1..N  BY <1>3, <1>4
  <2> QED  BY <1>3, <2>1, FieldIs
<1>6. S[N + 1] = 8 * M + u + left /\ \E q \in Nat : current_byte = 2^(8 - u) * q
  BY <1>2, <1>4 DEF WriterInv
<1>7. /\ S \in [1..(N + 1) -> Nat] /\ S[N + 1] = S[N] + w /\ S[N] \in Nat
      /\ \A k \in 1..(N - 1) : S[k] + written[k][2] <= S[N]
  <2> HIDE DEF N
  <2>1. /\ S \in [1..(N + 1) -> Nat] /\ \A k \in 1..N : S[k + 1] = S[k] + written[k][2]
        /\ \A j, k \in 1..(N + 1) : j <= k => S[j] <= S[k]
    BY <1>2 DEF Starts, N
  <2>2. N \in 1..N /\ N \in 1..(N + 1)  BY <1>3, <1>4
  <2>3. ASSUME NEW k \in 1..(N - 1)  PROVE S[k] + written[k][2] <= S[N]
    <3>1. k \in 1..N /\ k + 1 \in 1..(N + 1) /\ k + 1 <= N  BY <1>3
    <3>2. S[k + 1] = S[k] + written[k][2] /\ S[k + 1] <= S[N]  BY <2>1, <2>2, <3>1
    <3> QED  BY <3>2
  <2> QED  BY <2>1, <2>2, <2>3
<1>8. n \in Nat /\ 1 <= n /\ u + n <= 8 /\ n <= left /\ (n = left \/ u + n = 8)
  BY <1>0, <1>3 DEF Packing!Smaller
<1> HIDE DEF n
<1>9. c \in Nat /\ c < 2^n
  <2>1. left - n \in Nat /\ left - n <= 32 /\ n <= 32  BY <1>3, <1>4, <1>5, <1>8
  <2> HIDE DEF v
  <2> QED  BY <1>5, <1>8, <2>1, SliceIs
<1>c. c = Packing!Slice(v, left - n, n)  OBVIOUS
<1> HIDE DEF c
<1>10. /\ y \in Nat /\ Packing!Slice(y, 8 - u - n, n) = c
       /\ \E q \in Nat : y = 2^(8 - u - n) * q
       /\ \A o, m \in Nat : o + m <= u => Packing!Slice(y, 8 - o - m, m)
                                           = Packing!Slice(current_byte, 8 - o - m, m)
  <2>1. u \in Nat  BY <1>3
  <2> HIDE DEF u
  <2>2. PutBelow(current_byte, y, u, n, c)  BY <1>3, <1>6, <1>8, <1>9, <2>1, ChunkPut
  <2> HIDE DEF y
  <2> QED  BY <2>2 DEF PutBelow
<1> HIDE DEF y
<1>11. /\ buffer' \in Seq(Nat) /\ Byte(buffer', current_byte', M) = y
       /\ \A i \in 0..(M - 1) : Byte(buffer', current_byte', i) = Byte(buffer, current_byte, i)
       /\ 8 * Len(buffer') + bits_used' = 8 * M + u + n /\ bits_used' \in 0..7
       /\ current_byte' \in Nat
       /\ u + n # 8 => current_byte' = y /\ bits_used' = u + n
       /\ u + n = 8 => current_byte' = 0 /\ bits_used' = 0
  <2>1. CASE u + n = 8
    <3>1. buffer' = Append(buffer, y) /\ current_byte' = 0 /\ bits_used' = 0  BY <1>0, <2>1
    <3>2. /\ buffer' \in Seq(Nat) /\ Len(buffer') = M + 1 /\ buffer'[M + 1] = y
          /\ \A k \in 1..M : buffer'[k] = buffer[k]
      BY <1>3, <1>10, <3>1, AppendProperties
    <3>3. Byte(buffer', current_byte', M) = y  BY <1>3, <3>2 DEF Byte
    <3>4. ASSUME NEW i \in 0..(M - 1)
          PROVE  Byte(buffer', current_byte', i) = Byte(buffer, current_byte, i)
      <4>1. i < M /\ i < M + 1 /\ i + 1 \in 1..M  BY <1>3
      <4> QED  BY <3>2, <4>1 DEF Byte
    <3> HIDE DEF M, u
    <3> QED  BY <1>3, <1>8, <2>1, <3>1, <3>2, <3>3, <3>4
  <2>2. CASE u + n # 8
    <3>1. u + n \in 0..7 /\ (u + n) % 8 = u + n  BY <1>3, <1>8, <2>2
    <3>2. buffer' = buffer /\ current_byte' = y /\ bits_used' = u + n  BY <1>0, <2>2, <3>1
    <3>3. Byte(buffer', current_byte', M) = y  BY <1>3, <3>2 DEF Byte
    <3>4. ASSUME NEW i \in 0..(M - 1)
          PROVE  Byte(buffer', current_byte', i) = Byte(buffer, current_byte, i)
      <4>1. i < M  BY <1>3
      <4> QED  BY <3>2, <4>1 DEF Byte
    <3> QED  BY <1>3, <1>8, <1>10, <2>2, <3>1, <3>2, <3>3, <3>4
  <2> QED  BY <2>1, <2>2
<1>12. left' \in Nat /\ left' <= w /\ S[N + 1] = 8 * Len(buffer') + bits_used' + left'
       /\ (left' > 0 => bits_used' = 0)
  <2>1. left' = left - n  BY <1>0
  <2>2. left' > 0 => u + n = 8  BY <1>3, <1>8, <2>1
  <2>3. 8 * Len(buffer') + bits_used' = 8 * M + u + n  BY <1>11
  <2>4. S[N + 1] = 8 * M + u + left  BY <1>6
  <2>5. Len(buffer') \in Nat /\ bits_used' \in Nat  BY <1>11
  <2>6. S[N + 1] = 8 * Len(buffer') + bits_used' + left'
    <3> HIDE DEF M, u
    <3>1. M \in Nat /\ u \in Nat  BY <1>3 DEF u
    <3> QED  BY <1>3, <1>8, <2>1, <2>3, <2>4, <2>5, <3>1
  <2> HIDE DEF w
  <2> QED  BY <1>3, <1>4, <1>5, <1>8, <1>11, <2>1, <2>2, <2>6
<1>13. PackTypes'  BY <1>0, <1>1, <1>11, <1>12 DEF PackTypes
<1>14. WriterInv(S)'
  <2>1. \E q \in Nat : current_byte' = 2^(8 - bits_used') * q
    <3>1. CASE u + n = 8
      <4>1. 8 - bits_used' = 8 /\ 2^8 = 256  BY <1>11, <3>1
      <4>2. 2^(8 - bits_used') * 0 = 0  BY <4>1
      <4> QED  BY <1>11, <3>1, <4>2
    <3>2. CASE u + n # 8
      <4>1. 8 - bits_used' = 8 - u - n  BY <1>3, <1>8, <1>11, <3>2
      <4> QED  BY <1>10, <1>11, <3>2, <4>1
    <3> QED  BY <3>1, <3>2
  <2> QED  BY <1>0, <1>4, <1>12, <2>1 DEF WriterInv
<1>15. ReaderInv(S)'  BY <1>0, <1>2 DEF ReaderInv
<1>16. Packed(S, written', buffer', current_byte', S[Len(written') + 1] - left')
  <2>1. /\ S[Len(written') + 1] - left' = 8 * M + u + n
        /\ S[N + 1] - left = 8 * M + u /\ S[N] + w - left = 8 * M + u
    <3>1. S[Len(written') + 1] = S[N + 1] /\ left' = left - n  BY <1>0
    <3>2. S[N + 1] = 8 * M + u + left /\ S[N + 1] = S[N] + w  BY <1>6, <1>7
    <3>3. M \in Nat /\ u \in Nat /\ left \in Nat  BY <1>3
    <3>4. S[N] \in Nat /\ w \in Nat  BY <1>5, <1>7
    <3> HIDE DEF M, u, N, w
    <3> QED  BY <1>8, <3>1, <3>2, <3>3, <3>4
  <2> SUFFICES Packed(S, written, buffer', current_byte', 8 * M + u + n)
    BY <1>0, <2>1
  <2> SUFFICES ASSUME NEW k, NEW i, NEW o, NEW m, Chunk(S, written, k, i, o, m),
                      8 * i + o + m <= 8 * M + u + n
               PROVE  InPlace(S, written, buffer', current_byte', k, i, o, m)
    BY DEF Packed
  <2>2. /\ k \in 1..N /\ i \in Nat /\ o \in Nat /\ m \in Nat /\ 1 <= m /\ o + m <= 8
        /\ S[k] <= 8 * i + o /\ 8 * i + o + m <= S[k] + written[k][2]
        /\ 8 * i + o = S[k] \/ o = 0
        /\ 8 * i + o + m = S[k] + written[k][2] \/ o + m = 8
    BY DEF Chunk
  <2>3. CASE 8 * i + o + m <= 8 * M + u
    <3>1. InPlace(S, written, buffer, current_byte, k, i, o, m)  BY <1>2, <2>1, <2>3 DEF Packed
    <3>2. CASE i < M
      <4>1. i \in 0..(M - 1)  BY <1>3, <2>2, <3>2
      <4> QED  BY <1>11, <3>1, <4>1 DEF InPlace
    <3>3. CASE ~(i < M)
      <4>1. i = M /\ o + m <= u
        <5>1. M \in Nat /\ u \in 0..7  BY <1>3
        <5>2. i \in Nat /\ o \in Nat /\ m \in Nat /\ 1 <= m  BY <2>2
        <5> HIDE DEF M, u
        <5>3. i >= M /\ 8 * i + o + m <= 8 * M + u  BY <2>3, <3>3, <5>1, <5>2
        <5>4. i = M  BY <5>1, <5>2, <5>3
        <5> QED  BY <5>1, <5>2, <5>3, <5>4
      <4>2. Byte(buffer, current_byte, i) = current_byte  BY <3>3 DEF Byte
      <4>3. Byte(buffer', current_byte', i) = y  BY <1>11, <4>1
      <4>4. Packing!Slice(y, 8 - o - m, m) = Packing!Slice(current_byte, 8 - o - m, m)
        BY <1>10, <2>2, <4>1
      <4> QED  BY <3>1, <4>2, <4>3, <4>4 DEF InPlace
    <3> QED  BY <3>2, <3>3
  <2>4. CASE 8 * i + o + m > 8 * M + u
    <3> HIDE DEF M, u, N, w, v
    <3>0. M \in Nat /\ u \in 0..7 /\ N \in Nat  BY <1>3 DEF u, N, M
    <3>1. k = N
      <4>1. S[N] <= 8 * M + u
        <5>1. S[N] \in Nat /\ w \in Nat /\ left <= w /\ left \in Nat  BY <1>3, <1>4, <1>5, <1>7
        <5> QED  BY <2>1, <3>0, <5>1
      <4>2. ASSUME k \in 1..(N - 1)  PROVE FALSE
        <5>1. S[k] + written[k][2] <= S[N] /\ 8 * i + o + m <= S[k] + written[k][2]
          BY <1>7, <2>2, <4>2
        <5>2. S[k] \in Nat /\ written[k][2] \in Nat
          <6>1. k \in 1..(N + 1)  BY <2>2, <3>0
          <6>2. written[k][2] \in Nat  BY <1>3, <2>2, FieldIs DEF N
          <6> QED  BY <1>7, <6>1, <6>2
        <5> DEFINE e == S[k] + written[k][2]
        <5>3. e \in Nat /\ e <= S[N] /\ 8 * i + o + m <= e  BY <5>1, <5>2
        <5> HIDE DEF e
        <5> QED  BY <1>7, <2>2, <2>4, <3>0, <4>1, <5>3
      <4> QED  BY <2>2, <3>0, <4>2
    <3>2. /\ S[N] <= 8 * i + o /\ 8 * i + o + m <= S[N] + w
          /\ 8 * i + o = S[N] \/ o = 0
          /\ 8 * i + o + m = S[N] + w \/ o + m = 8
      BY <2>2, <3>1 DEF w
    <3>3. S[N] + w = 8 * M + u + left /\ S[N] \in Nat /\ left \in Nat /\ w \in Nat
      <4>1. S[N] \in Nat /\ left \in Nat /\ w \in Nat  BY <1>3, <1>5, <1>7
      <4> QED  BY <2>1, <3>0, <4>1
    <3>4. i = M /\ o = u /\ m = n
      <4> DEFINE s == S[N]
      <4>1. /\ s \in Nat /\ s <= 8 * i + o /\ 8 * i + o + m <= s + w
            /\ 8 * i + o = s \/ o = 0
            /\ 8 * i + o + m = s + w \/ o + m = 8
            /\ s + w = 8 * M + u + left
            /\ left = w \/ u = 0
            /\ left <= w
        BY <1>4, <3>2, <3>3 DEF u, w
      <4> HIDE DEF s
      <4>2. i = M /\ o = u
        <5>1. CASE u = 0  BY <1>8, <2>2, <2>4, <3>0, <3>3, <4>1, <5>1
        <5>2. CASE left = w
          <6>1. s = 8 * M + u  BY <3>0, <3>3, <4>1, <5>2
          <6> QED  BY <1>8, <2>2, <2>4, <3>0, <4>1, <6>1
        <5> QED  BY <4>1, <5>1, <5>2
      <4>3. m <= n  BY <1>8, <2>2, <3>0, <4>2
      <4>4. m = n  BY <1>8, <2>2, <3>0, <3>3, <4>1, <4>2, <4>3
      <4> QED  BY <4>2, <4>4
    <3>5. Byte(buffer', current_byte', i) = y  BY <1>11, <3>4 DEF M
    <3>6. Packing!Slice(y, 8 - o - m, m) = c  BY <1>10, <3>4 DEF u
    <3>7. S[k] + written[k][2] - (8 * i + o + m) = left - n
      <4>1. S[N] + w - (8 * M + u + n) = left - n  BY <1>8, <3>0, <3>3
      <4> QED  BY <3>1, <3>4, <4>1 DEF w
    <3>8. written[k][1] = v  BY <3>1 DEF v
    <3>9. Packing!Slice(written[k][1], S[k] + written[k][2] - (8 * i + o + m), m) = c
      BY <1>c, <3>4, <3>7, <3>8
    <3> QED  BY <3>5, <3>6, <3>9 DEF InPlace
  <2>5. 8 * i + o + m \in Nat /\ 8 * M + u \in Nat  BY <1>3, <2>2
  <2> QED  BY <2>3, <2>4, <2>5
<1>17. Packing!FieldsReadBack'
  BY <1>0 DEF PackInv, Packing!FieldsReadBack
<1>18. Starts(S, written')  BY <1>0, <1>2
<1> QED  BY <1>13, <1>14, <1>15, <1>16, <1>17, <1>18 DEF PackInv

(* read_bits shifts what it has and adds the next chunk.                   *)
LEMMA SliceJoin ==
  ASSUME NEW v \in Nat, NEW lo \in Nat, NEW n \in Nat, NEW m \in Nat, lo + n + m <= 32
  PROVE  Packing!Slice(v, lo + n, m) * 2^n + Packing!Slice(v, lo, n)
           = Packing!Slice(v, lo, m + n)
<1> DEFINE a == 2^n
           b == 2^m
           e == 2^lo
           x == v \div e
<1>1. a \in Nat /\ a > 0 /\ b \in Nat /\ b > 0 /\ e \in Nat /\ e > 0
      /\ 2^(n + m) = a * b /\ 2^(lo + n) = e * a
  <2>1. n + m <= 32 /\ m + n <= 32 /\ lo + n <= 32  OBVIOUS
  <2>2. 2^n \in Nat /\ 2^n > 0 /\ 2^(n + m) = 2^n * 2^m  BY <2>1, Powers
  <2>3. 2^m \in Nat /\ 2^m > 0  BY <2>1, Powers
  <2>4. 2^lo \in Nat /\ 2^lo > 0 /\ 2^(lo + n) = 2^lo * 2^n  BY <2>1, Powers
  <2> QED  BY <2>2, <2>3, <2>4
<1>2. Packing!Slice(v, lo, n) = x % a  BY DEF Packing!Slice
<1>3. Packing!Slice(v, lo, m + n) = x % (a * b)
  <2>1. 2^(m + n) = 2^(n + m)
    <3>1. m + n = n + m  OBVIOUS
    <3> QED  BY <3>1
  <2> QED  BY <1>1, <2>1 DEF Packing!Slice
<1>4. Packing!Slice(v, lo + n, m) = (v \div (e * a)) % b  BY <1>1 DEF Packing!Slice
<1>5. 2^n = a  OBVIOUS
<1> HIDE DEF a, b, e
<1>6. (v \div e) \div a = v \div (e * a)  BY <1>1, DivDiv
<1>7. x \in Nat  BY <1>1, DivMod
<1>8. v \div (e * a) = x \div a  BY <1>6
<1> HIDE DEF x
<1>9. ((x \div a) % b) * a + (x % a) = x % (a * b)  BY <1>1, <1>7, Join
<1> QED  BY <1>2, <1>3, <1>4, <1>5, <1>8, <1>9

LEMMA PackReadChunk ==
  ASSUME Packing!FieldsAssumption, PackInv, Packing!ReadChunk
  PROVE  PackInv'
<1> DEFINE N == Len(written)
           k == Len(fetched) + 1
           o == bits_read
           i == current_byte_idx
           n == Packing!Smaller(wanted, 8 - o)
           v == written[k][1]
           w == written[k][2]
           c == Packing!Slice(buffer[i + 1], 8 - o - n, n)
           r == result * 2^n + c
<1>0. /\ wanted > 0 /\ i < Len(buffer) /\ result' = r /\ wanted' = wanted - n
      /\ fetched' = IF wanted = n THEN Append(fetched, r) ELSE fetched
      /\ current_byte_idx' = i + (o + n) \div 8 /\ bits_read' = (o + n) % 8 /\ io' = io
      /\ UNCHANGED <<written, left, buffer, current_byte, bits_used>>
  BY DEF Packing!ReadChunk, Packing!writerVars
<1>1. PackTypes  BY DEF PackInv
<1>2. PICK S : /\ Starts(S, written) /\ WriterInv(S) /\ ReaderInv(S)
               /\ Packed(S, written, buffer, current_byte, S[N + 1] - left)
  BY DEF PackInv
<1>3. /\ written \in Seq(Fields) /\ N \in Nat /\ fetched \in Seq(Nat) /\ Len(fetched) \in Nat
      /\ wanted \in Nat /\ result \in Nat /\ i \in Nat /\ o \in 0..7
  BY <1>1 DEF PackTypes
<1>4. /\ io # "write" /\ k \in 1..N /\ wanted <= w /\ (wanted = w \/ o = 0)
      /\ 8 * i + o + wanted = S[k] + w
      /\ result = Packing!Slice(v, wanted, w - wanted)
  BY <1>0, <1>2, <1>3 DEF ReaderInv
<1>5. v \in Nat /\ w \in Nat /\ 1 <= w /\ w <= 32  BY <1>3, <1>4, FieldIs
<1>6. left = 0  BY <1>2, <1>4 DEF WriterInv
<1>7. S[k] \in Nat /\ S[k + 1] = S[k] + w /\ S[k] + w <= S[N + 1] /\ S[N + 1] \in Nat
  <2> HIDE DEF k, N
  <2>1. /\ S \in [1..(N + 1) -> Nat] /\ \A j \in 1..N : S[j + 1] = S[j] + written[j][2]
        /\ \A j, l \in 1..(N + 1) : j <= l => S[j] <= S[l]
    BY <1>2 DEF Starts, N
  <2>2. k \in 1..(N + 1) /\ k + 1 \in 1..(N + 1) /\ N + 1 \in 1..(N + 1) /\ k + 1 <= N + 1
    BY <1>3, <1>4
  <2> QED  BY <1>4, <2>1, <2>2
<1>8. n \in Nat /\ 1 <= n /\ o + n <= 8 /\ n <= wanted /\ (n = wanted \/ o + n = 8)
  BY <1>0, <1>3 DEF Packing!Smaller
<1> HIDE DEF n
<1>9. c = Packing!Slice(v, wanted - n, n)
  <2> DEFINE s == S[k]
  <2>1. s \in Nat /\ 8 * i + o + wanted = s + w  BY <1>4, <1>7
  <2>2. k \in 1..Len(written) /\ i \in Nat /\ o \in Nat  BY <1>3, <1>4
  <2>3. /\ s <= 8 * i + o /\ 8 * i + o + n <= s + w
        /\ 8 * i + o = s \/ o = 0
        /\ 8 * i + o + n = s + w \/ o + n = 8
        /\ s + w - (8 * i + o + n) = wanted - n
        /\ 8 * i + o + n <= S[N + 1] - left
    <3>1. i \in Nat /\ o \in Nat /\ wanted \in Nat /\ wanted <= w /\ w \in Nat
          /\ (wanted = w \/ o = 0) /\ left = 0 /\ s + w <= S[N + 1] /\ S[N + 1] \in Nat
      BY <1>3, <1>4, <1>5, <1>6, <1>7
    <3> HIDE DEF i, o, w, s, N
    <3> QED  BY <1>8, <2>1, <3>1
  <2>4. Chunk(S, written, k, i, o, n)
    <3> HIDE DEF k, i, o
    <3> QED  BY <1>8, <2>2, <2>3 DEF Chunk
  <2>5. InPlace(S, written, buffer, current_byte, k, i, o, n)  BY <1>2, <2>3, <2>4 DEF Packed
  <2>6. Byte(buffer, current_byte, i) = buffer[i + 1]  BY <1>0 DEF Byte
  <2>7. c = Packing!Slice(v, s + w - (8 * i + o + n), n)  BY <2>5, <2>6 DEF InPlace
  <2>8. s + w - (8 * i + o + n) = wanted - n  BY <2>3
  <2> HIDE DEF c, v, w, i, o, s
  <2> QED  BY <2>7, <2>8
<1> HIDE DEF c
<1>10. r = Packing!Slice(v, wanted - n, w - (wanted - n)) /\ r \in Nat
  <2> DEFINE lo == wanted - n
             m == w - wanted
  <2>1. /\ lo \in Nat /\ m \in Nat /\ lo + n = wanted /\ m + n = w - (wanted - n)
        /\ lo + n + m <= 32 /\ m + n \in Nat /\ lo <= 32 /\ m + n <= 32
    <3>1. wanted <= w /\ w \in Nat /\ w <= 32  BY <1>4, <1>5
    <3> HIDE DEF w
    <3> QED  BY <1>3, <1>8, <3>1
  <2>2. result = Packing!Slice(v, lo + n, m)  BY <1>4, <2>1
  <2>3. c = Packing!Slice(v, lo, n)  BY <1>9
  <2> HIDE DEF lo, m, v, w
  <2>4. Packing!Slice(v, lo + n, m) * 2^n + Packing!Slice(v, lo, n) = Packing!Slice(v, lo, m + n)
    BY <1>5, <1>8, <2>1, SliceJoin
  <2>5. r = Packing!Slice(v, lo, m + n)  BY <2>2, <2>3, <2>4
  <2>6. Packing!Slice(v, lo, m + n) \in Nat  BY <1>5, <2>1, SliceIs
  <2> HIDE DEF r
  <2> QED  BY <2>1, <2>5, <2>6 DEF lo
<1> HIDE DEF r
<1>11. /\ current_byte_idx' \in Nat /\ bits_read' \in 0..7
       /\ 8 * current_byte_idx' + bits_read' = 8 * i + o + n
       /\ (o + n = 8 => bits_read' = 0)
  <2>1. i \in Nat /\ o \in 0..7  BY <1>3
  <2>2. current_byte_idx' = i + (o + n) \div 8 /\ bits_read' = (o + n) % 8  BY <1>0
  <2> HIDE DEF i, o
  <2>3. CASE o + n = 8
    <3>1. (o + n) \div 8 = 1 /\ (o + n) % 8 = 0  BY <2>3
    <3> QED  BY <1>8, <2>1, <2>2, <2>3, <3>1
  <2>4. CASE o + n # 8
    <3>1. (o + n) \div 8 = 0 /\ (o + n) % 8 = o + n  BY <1>8, <2>1, <2>4
    <3> QED  BY <1>8, <2>1, <2>2, <2>4, <3>1
  <2> QED  BY <2>3, <2>4
<1>12. wanted' = wanted - n /\ wanted' \in Nat  BY <1>0, <1>3, <1>8
<1>13. 8 * current_byte_idx' + bits_read' + wanted' = S[k] + w
  <2>1. 8 * current_byte_idx' + bits_read' = 8 * i + o + n  BY <1>11
  <2>2. 8 * i + o + wanted = S[k] + w  BY <1>4
  <2>3. /\ i \in Nat /\ o \in Nat /\ bits_read' \in Nat /\ current_byte_idx' \in Nat
        /\ wanted \in Nat
    BY <1>3, <1>11
  <2> HIDE DEF i, o, k, w
  <2>4. 8 * i + o + n + (wanted - n) = 8 * i + o + wanted  BY <1>8, <2>3
  <2>5. 8 * current_byte_idx' + bits_read' + wanted' = 8 * i + o + n + (wanted - n)
    BY <1>12, <2>1
  <2> QED  BY <2>2, <2>4, <2>5
<1>14. CASE wanted = n
  <2>1. wanted' = 0 /\ fetched' = Append(fetched, r)  BY <1>0, <1>3, <1>12, <1>14
  <2>2. /\ fetched' \in Seq(Nat) /\ Len(fetched') = k /\ fetched'[k] = r
        /\ \A j \in 1..(k - 1) : fetched'[j] = fetched[j]
    <3>1. /\ fetched' \in Seq(Nat) /\ Len(fetched') = Len(fetched) + 1
          /\ fetched'[Len(fetched) + 1] = r
          /\ \A j \in 1..Len(fetched) : fetched'[j] = fetched[j]
      BY <1>3, <1>10, <2>1, AppendProperties
    <3> QED  BY <1>3, <3>1
  <2>3. r = v % 2^w
    <3>1. wanted - n = 0 /\ w - (wanted - n) = w /\ 2^0 = 1  BY <1>3, <1>5, <1>14
    <3>2. r = Packing!Slice(v, 0, w)  BY <1>10, <3>1
    <3>3. v \div 2^0 = v  BY <1>5
    <3> QED  BY <3>2, <3>3 DEF Packing!Slice
  <2>4. PackTypes'
    BY <1>0, <1>1, <1>10, <1>11, <1>12, <2>2 DEF PackTypes
  <2>5. WriterInv(S)'  BY <1>0, <1>2 DEF WriterInv
  <2>6. ReaderInv(S)'
    <3>1. 8 * current_byte_idx' + bits_read' = S[k + 1]
      <4>1. bits_read' \in Nat /\ current_byte_idx' \in Nat  BY <1>11
      <4> HIDE DEF k, w
      <4> QED  BY <1>7, <1>13, <2>1, <4>1
    <3>2. Len(fetched') = k /\ k <= N  BY <1>4, <2>2
    <3> HIDE DEF k
    <3> QED  BY <1>0, <1>4, <2>1, <3>1, <3>2 DEF ReaderInv
  <2>7. Packing!FieldsReadBack'
    <3> SUFFICES ASSUME NEW j \in DOMAIN fetched'
                 PROVE  fetched'[j] = written[j][1] % 2^(written[j][2])
      BY <1>0 DEF Packing!FieldsReadBack
    <3>1. j \in 1..k  BY <2>2
    <3>2. CASE j = k  BY <2>2, <2>3, <3>2
    <3>3. CASE j # k
      <4>1. j \in 1..(k - 1) /\ j \in DOMAIN fetched  BY <1>3, <3>1, <3>3
      <4>2. fetched[j] = written[j][1] % 2^(written[j][2])
        BY <4>1 DEF PackInv, Packing!FieldsReadBack
      <4> QED  BY <2>2, <4>1, <4>2
    <3> QED  BY <3>2, <3>3
  <2>8. Packed(S, written', buffer', current_byte', S[Len(written') + 1] - left')
    BY <1>0, <1>2
  <2>9. Starts(S, written')  BY <1>0, <1>2
  <2> QED  BY <2>4, <2>5, <2>6, <2>7, <2>8, <2>9 DEF PackInv
<1>15. CASE wanted # n
  <2>1. fetched' = fetched /\ wanted' > 0 /\ o + n = 8
    <3>1. wanted - n > 0  BY <1>3, <1>8, <1>15
    <3> QED  BY <1>0, <1>8, <1>12, <1>15, <3>1
  <2>2. PackTypes'  BY <1>0, <1>1, <1>10, <1>11, <1>12, <2>1 DEF PackTypes
  <2>3. WriterInv(S)'  BY <1>0, <1>2 DEF WriterInv
  <2>4. ReaderInv(S)'
    <3>1. wanted' <= w /\ bits_read' = 0 /\ k <= N  BY <1>3, <1>4, <1>5, <1>8, <1>11, <1>12, <2>1
    <3>2. result' = Packing!Slice(v, wanted', w - wanted')  BY <1>0, <1>10, <1>12
    <3>3. Len(fetched') + 1 = k /\ written' = written /\ io' # "write" /\ Len(fetched') <= N
      BY <1>0, <1>3, <1>4, <2>1
    <3>4. written'[k][2] = w /\ written'[k][1] = v /\ Len(written') = N  BY <3>3
    <3> HIDE DEF v, w, N, k
    <3> QED  BY <1>13, <2>1, <3>1, <3>2, <3>3, <3>4 DEF ReaderInv
  <2>5. Packing!FieldsReadBack'
    BY <1>0, <2>1 DEF PackInv, Packing!FieldsReadBack
  <2>6. Packed(S, written', buffer', current_byte', S[Len(written') + 1] - left')
    BY <1>0, <1>2
  <2>7. Starts(S, written')  BY <1>0, <1>2
  <2> QED  BY <2>2, <2>3, <2>4, <2>5, <2>6, <2>7 DEF PackInv
<1> QED  BY <1>14, <1>15

LEMMA PackNext ==
  ASSUME Packing!FieldsAssumption, PackInv, [Packing!Next]_Packing!vars
  PROVE  PackInv'
<1>1. CASE \E f \in Fields : Packing!WriteBits(f)  BY <1>1, PackWriteBits
<1>2. CASE Packing!WriteChunk  BY <1>2, PackWriteChunk
<1>3. CASE Packing!Flush  BY <1>3, PackFlush
<1>4. CASE Packing!ReadBits  BY <1>4, PackReadBits
<1>5. CASE Packing!ReadChunk  BY <1>5, PackReadChunk
<1>6. CASE UNCHANGED Packing!vars
  <2>1. UNCHANGED <<io, written, left, buffer, current_byte, bits_used, fetched, wanted,
                    result, current_byte_idx, bits_read>>
    BY <1>6 DEF Packing!vars, Packing!writerVars, Packing!readerVars
  <2> QED  BY <2>1 DEF PackInv, PackTypes, WriterInv, ReaderInv, Packing!FieldsReadBack
<1> QED  BY <1>1, <1>2, <1>3, <1>4, <1>5, <1>6 DEF Packing!Next

(* read_bits returns field by field what write_bits was given, for any     *)
(* sequence of fields of 1 to 32 bits, wherever the byte boundaries fall.  *)
THEOREM FieldsAlwaysReadBack ==
  ASSUME Packing!FieldsAssumption
  PROVE  Packing!Spec => []Packing!FieldsReadBack
<1>1. Packing!Init => PackInv  BY PackInit
<1>2. PackInv /\ [Packing!Next]_Packing!vars => PackInv'  BY PackNext
<1>3. PackInv => Packing!FieldsReadBack  BY DEF PackInv
<1> QED  BY <1>1, <1>2, <1>3, PTL DEF Packing!Spec
=============================================================================
