-------------------------- MODULE IpChecksum_proofs --------------------------
(***************************************************************************)
(* The checksum of every header of up to 30 words verifies, for every      *)
(* accumulator wide enough.  The invariant: while words are added the sum  *)
(* has not wrapped, and folding changes it by multiples of 65535.          *)
(***************************************************************************)
EXTENDS IpChecksum, TLAPS

MaxSum == MaxWords * MaxWord

(* b is a minus some multiple of 65535.                                    *)
Congruent(a, b) == \E q \in Nat : a = b + MaxWord * q

AddInv == i <= WordCount[header] /\ sum = total /\ sum <= i * MaxWord

SumInv ==
  /\ TypeOK
  /\ pc = "add" => AddInv
  /\ Congruent(total, sum)
  /\ sum <= MaxSum
  /\ pc = "done" => sum <= MaxWord /\ check = MaxWord - sum

-----------------------------------------------------------------------------
(* Adding no multiple at all.                                              *)
LEMMA CongruentRefl == ASSUME NEW a \in Nat PROVE Congruent(a, a)
<1>1. a = a + MaxWord * 0
  BY DEF MaxWord
<1> QED BY <1>1 DEF Congruent

(* One fold takes away 65535 for every carry it moves.                     *)
LEMMA FoldOnceValue ==
  ASSUME NEW s \in Nat, s \div 65536 # 0
  PROVE  /\ FoldOnce(s) \in Nat
         /\ s = FoldOnce(s) + MaxWord * (s \div 65536)
         /\ FoldOnce(s) < s /\ s \div 65536 \in Nat
  BY DEF FoldOnce, MaxWord

(* So a fold stays congruent to what was added.                            *)
LEMMA FoldOnceCongruent ==
  ASSUME NEW t \in Nat, NEW s \in Nat, s \div 65536 # 0, Congruent(t, s)
  PROVE  Congruent(t, FoldOnce(s))
<1>1. PICK q \in Nat : t = s + MaxWord * q
  BY DEF Congruent
<1>2. PICK c \in Nat : s = FoldOnce(s) + MaxWord * c
  BY FoldOnceValue
<1>3. FoldOnce(s) \in Nat
  BY FoldOnceValue
<1>4. q + c \in Nat /\ t = FoldOnce(s) + MaxWord * (q + c)
  BY <1>1, <1>2, <1>3 DEF MaxWord
<1> QED BY <1>4 DEF Congruent

(* Adding a word stays below the next multiple of the largest word, and    *)
(* below the modulus as long as there are words left.                      *)
LEMMA AddBound ==
  ASSUME NEW s \in Nat, NEW w \in Word, NEW k \in Nat,
         s <= k * MaxWord, k + 1 <= MaxWords
  PROVE  /\ s + w \in Nat /\ s + w <= (k + 1) * MaxWord
         /\ s + w <= MaxSum /\ AddMod(s, w) = s + w /\ s + w \in 0..(SumMod - 1)
<1>1. w \in Nat /\ w <= MaxWord /\ MaxWord \in Nat
  BY DEF Word, MaxWord
<1>2. s + w \in Nat /\ s + w <= (k + 1) * MaxWord
  BY <1>1 DEF MaxWord
<1>3. s + w <= MaxSum
  BY <1>2 DEF MaxSum, MaxWords, MaxWord
<1>4. MaxSum < SumMod /\ SumMod \in Nat /\ MaxSum \in Nat
  BY WidthAssumption DEF MaxSum, MaxWords, MaxWord
<1>5. s + w \in 0..(SumMod - 1)
  BY <1>2, <1>3, <1>4
<1> QED BY <1>2, <1>3, <1>5, <1>4 DEF AddMod

(* The number of words and the words of a header.                          *)
LEMMA WordCountBound ==
  ASSUME NEW x \in Headers
  PROVE  /\ WordCount[x] \in Nat /\ WordCount[x] <= MaxWords
         /\ \A k \in Nat : k < WordCount[x] => x[k] \in Word
<1>0. MaxWords \in Nat
  BY DEF MaxWords
<1>1. WordCount[x] \in Nat /\ WordCount[x] <= MaxWords
  BY <1>0, HeaderAssumption
<1>2. x \in [0..(WordCount[x] - 1) -> Word]
  BY HeaderAssumption
<1>3. \A k \in Nat : k < WordCount[x] => k \in 0..(WordCount[x] - 1)
  BY <1>1
<1> QED BY <1>1, <1>2, <1>3

(* The complement of a congruent sum fills up to a multiple of 65535.      *)
LEMMA ComplementValue ==
  ASSUME NEW t \in Nat, NEW s \in Nat, Congruent(t, s)
  PROVE  (t + (MaxWord - s)) % MaxWord = 0 /\ t + (MaxWord - s) > 0
<1>1. PICK q \in Nat : t = s + MaxWord * q
  BY DEF Congruent
<1>2. t + (MaxWord - s) = MaxWord * (q + 1)
  BY <1>1 DEF MaxWord
<1>3. (MaxWord * (q + 1)) % MaxWord = 0 /\ MaxWord * (q + 1) > 0
  BY DEF MaxWord
<1> QED BY <1>2, <1>3

-----------------------------------------------------------------------------
(* Initially nothing has been added.                                       *)
LEMMA SumInvInit == Init => SumInv
<1> SUFFICES ASSUME Init PROVE SumInv
  OBVIOUS
<1>1. WordCount[header] \in Nat
  BY WordCountBound DEF Init
<1>2. 0 \in Word /\ 0 <= MaxSum /\ 0 <= 0 * MaxWord
  BY DEF Word, MaxSum, MaxWords, MaxWord
<1>3. 0 \in 0..(SumMod - 1)
  BY WidthAssumption DEF MaxWords, MaxWord
<1>4. Congruent(0, 0)
  BY CongruentRefl
<1>5. TypeOK
  BY <1>2, <1>3 DEF Init, TypeOK
<1> QED BY <1>1, <1>2, <1>4, <1>5 DEF Init, SumInv, AddInv

(* Every iteration keeps the invariant.                                    *)
LEMMA SumInvNext == SumInv /\ [Next]_vars => SumInv'
<1> SUFFICES ASSUME SumInv, [Next]_vars PROVE SumInv'
  OBVIOUS
<1>1. sum \in Nat /\ total \in Nat /\ i \in Nat /\ header \in Headers
  BY WidthAssumption DEF SumInv, TypeOK
<1>2. CASE AddWord
  <2> DEFINE w == header[i]
  <2>1. pc = "add" /\ AddInv /\ i < WordCount[header]
    BY <1>2 DEF AddWord, SumInv
  <2>2. w \in Word /\ i + 1 <= WordCount[header] /\ i + 1 <= MaxWords
    BY <1>1, <2>1, WordCountBound DEF MaxWords
  <2>3. /\ sum + w \in Nat /\ sum + w <= (i + 1) * MaxWord
        /\ sum + w <= MaxSum /\ AddMod(sum, w) = sum + w
        /\ sum + w \in 0..(SumMod - 1)
    BY <1>1, <2>1, <2>2, AddBound DEF AddInv
  <2>4. /\ sum' = sum + w /\ total' = total + w /\ i' = i + 1
        /\ UNCHANGED <<pc, header, check>>
    BY <1>2, <2>3 DEF AddWord
  <2>5. sum' = total' /\ total' \in Nat
    BY <2>1, <2>3, <2>4 DEF AddInv
  <2>6. Congruent(total', sum')
    BY <2>5, CongruentRefl
  <2>7. TypeOK'
    BY <1>1, <2>3, <2>4, <2>5 DEF SumInv, TypeOK
  <2>8. AddInv'
    BY <2>2, <2>3, <2>4, <2>5 DEF AddInv
  <2> QED BY <2>1, <2>3, <2>4, <2>5, <2>6, <2>7, <2>8 DEF SumInv
<1>3. CASE AddDone
  BY <1>3 DEF AddDone, SumInv, TypeOK
<1>4. CASE Fold
  <2>1. /\ pc = "fold" /\ sum' = FoldOnce(sum) /\ sum \div 65536 # 0
        /\ UNCHANGED <<pc, header, i, total, check>>
    BY <1>4 DEF Fold, Folded
  <2>2. Congruent(total', sum')
    BY <1>1, <2>1, FoldOnceCongruent DEF SumInv
  <2>3. sum' \in Nat /\ sum' < sum
    BY <1>1, <2>1, FoldOnceValue
  <2>4. sum' <= MaxSum
    <3>1. MaxSum \in Nat /\ sum <= MaxSum
      BY DEF SumInv, MaxSum, MaxWords, MaxWord
    <3> QED BY <1>1, <2>3, <3>1
  <2>5. sum' \in 0..(SumMod - 1)
    <3>1. sum \in 0..(SumMod - 1) /\ SumMod \in Nat
      BY WidthAssumption DEF SumInv, TypeOK
    <3> QED BY <2>3, <3>1
  <2>6. TypeOK'
    BY <2>1, <2>5 DEF SumInv, TypeOK
  <2> QED BY <2>1, <2>2, <2>3, <2>4, <2>6 DEF SumInv
<1>5. CASE Complement
  <2>1. pc' = "done" /\ check' = MaxWord - sum /\ UNCHANGED <<header, i, sum, total>>
    BY <1>5 DEF Complement
  <2>2. sum <= MaxWord
    BY <1>1, <1>5 DEF Complement, Folded, MaxWord
  <2>3. check' \in Word
    <3>1. MaxWord \in Nat
      BY DEF MaxWord
    <3> QED BY <1>1, <2>1, <2>2, <3>1 DEF Word
  <2>4. TypeOK'
    BY <2>1, <2>3 DEF SumInv, TypeOK
  <2> QED BY <2>1, <2>2, <2>4 DEF SumInv
<1>6. CASE UNCHANGED vars
  BY <1>6 DEF vars, SumInv, TypeOK, AddInv
<1> QED BY <1>2, <1>3, <1>4, <1>5, <1>6 DEF Next

(* calculate_ip_checksum returns 16 bits, and its accumulator holds every  *)
(* sum of a header's words.                                                *)
THEOREM TypeCorrect == Spec => []TypeOK
<1>1. SumInv => TypeOK
  BY DEF SumInv
<1> QED BY SumInvInit, SumInvNext, <1>1, PTL DEF Spec

(* The checksum that calculate_ip_checksum returns verifies at a receiver  *)
(* that sums the header, whatever the header's words.                      *)
THEOREM ChecksumCorrect == Spec => []ChecksumVerifies
<1>1. SumInv => ChecksumVerifies
  <2> SUFFICES ASSUME SumInv, pc = "done"
               PROVE  (total + check) % MaxWord = 0 /\ total + check > 0
    BY DEF ChecksumVerifies
  <2>1. /\ sum \in Nat /\ total \in Nat
        /\ check = MaxWord - sum /\ Congruent(total, sum)
    BY WidthAssumption DEF SumInv, TypeOK
  <2> QED BY <2>1, ComplementValue
<1> QED BY SumInvInit, SumInvNext, <1>1, PTL DEF Spec
=============================================================================
