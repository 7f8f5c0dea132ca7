----------------------------- MODULE IpChecksum -----------------------------
(***************************************************************************)
(* calculate_ip_checksum of packet-solutions/xdp_prog_kern_02.c: add the   *)
(* 16-bit words of the header into an unsigned sum, fold the carries back  *)
(* in, return the complement.  One step per iteration of the two loops.    *)
(*                                                                         *)
(* The length is ihl * 4 at the only call, so the branch for an odd last   *)
(* byte is never taken and is not modelled.                                *)
(***************************************************************************)
EXTENDS Integers

CONSTANTS
  Headers,    \* headers as functions 0..(n-1) -> Word
  WordCount,  \* WordCount[x] = n: the 16-bit words of header x
  SumMod      \* the accumulator wraps here: 2^32 in the code

MaxWord == 65535   \* 0xFFFF
Word == 0..MaxWord
MaxWords == 30   \* ihl is a 4-bit field: at most 60 bytes

ASSUME HeaderAssumption ==
  /\ WordCount \in [Headers -> 0..MaxWords]
  /\ \A x \in Headers : x \in [0..(WordCount[x] - 1) -> Word]

ASSUME WidthAssumption == SumMod \in Nat /\ SumMod > MaxWords * MaxWord

VARIABLES
  pc,      \* add, fold, done
  header,  \* the header
  i,       \* loop index
  sum,     \* the accumulator
  total,   \* the sum of the words read so far as a number (history)
  check    \* the value returned

vars == <<pc, header, i, sum, total, check>>

Init ==
  /\ pc = "add" /\ header \in Headers
  /\ i = 0 /\ sum = 0 /\ total = 0 /\ check = 0

AddMod(a, b) == (a + b) % SumMod
AddWord ==
  /\ pc = "add" /\ i < WordCount[header]
  /\ sum' = AddMod(sum, header[i]) /\ total' = total + header[i]
  /\ i' = i + 1
  /\ UNCHANGED <<pc, header, check>>

AddDone ==
  /\ pc = "add" /\ i >= WordCount[header]
  /\ pc' = "fold"
  /\ UNCHANGED <<header, i, sum, total, check>>

(* while (sum >> 16) sum = (sum & 0xFFFF) + (sum >> 16).                   *)
Folded_Once(s) == s \div 65536 <= 1  \* mutant: a last carry is left in place
Folded(s) == s \div 65536 = 0
FoldOnce_LoseCarry(s) == s % 65536    \* mutant: the carries are cut off
FoldOnce(s) == (s % 65536) + (s \div 65536)
Fold ==
  /\ pc = "fold" /\ ~Folded(sum)
  /\ sum' = FoldOnce(sum)
  /\ UNCHANGED <<pc, header, i, total, check>>

Complement ==
  /\ pc = "fold" /\ Folded(sum)
  /\ check' = MaxWord - sum
  /\ pc' = "done"
  /\ UNCHANGED <<header, i, sum, total>>

Next == AddWord \/ AddDone \/ Fold \/ Complement
Spec == Init /\ [][Next]_vars

-----------------------------------------------------------------------------
(* Types; the value returned fits the 16 bits of the check field.          *)
TypeOK ==
  /\ pc \in {"add", "fold", "done"} /\ header \in Headers
  /\ i \in Nat /\ total \in Nat
  /\ sum \in 0..(SumMod - 1)
  /\ check \in Word

(* A receiver that adds the returned checksum to the words of the header   *)
(* gets a multiple of 65535, and not zero: the all-ones sum of RFC 1071.   *)
(* No carry was lost in the accumulator or in the folds.                   *)
ChecksumVerifies ==
  pc = "done" => (total + check) % MaxWord = 0 /\ total + check > 0
=============================================================================
