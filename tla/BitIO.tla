-------------------------------- MODULE BitIO --------------------------------
(***************************************************************************)
(* BitWriter and BitReader of Compression/main.cpp: fields of any width    *)
(* are packed into bytes, most significant bit first, and taken out again. *)
(* One step is one iteration of the loop in write_bits or read_bits, which *)
(* moves as many bits as the current byte has left.                        *)
(***************************************************************************)
EXTENDS Integers, Sequences

CONSTANTS
  Fields,      \* <<value, bit_count>> pairs a caller may write
  MaxFields    \* bound: fields of a stream

ASSUME FieldsAssumption ==
  /\ \A f \in Fields : f[1] \in Nat /\ f[2] \in 1..32
  /\ MaxFields \in Nat

VARIABLES
  phase,      \* write, flushed
  written,    \* the fields passed to write_bits (history)
  left,       \* bit_count in write_bits
  buffer, current_byte, bits_used,                    \* BitWriter
  fetched,    \* the results of read_bits (history)
  wanted, result,                                     \* locals of read_bits
  current_byte_idx, bits_read                         \* BitReader

writerVars == <<written, left, buffer, current_byte, bits_used>>
readerVars == <<fetched, wanted, result, current_byte_idx, bits_read>>
vars == <<phase, writerVars, readerVars>>

-----------------------------------------------------------------------------
Smaller(a, b) == IF a < b THEN a ELSE b

(* Bits lo..lo+n-1 of v, as shifting and masking take them out.            *)
Slice_NoMask(v, lo, n) == v \div 2^lo  \* mutant: the higher bits stay
Slice(v, lo, n) == (v \div 2^lo) % 2^n

Init ==
  /\ phase = "write"
  /\ written = <<>> /\ left = 0
  /\ buffer = <<>> /\ current_byte = 0 /\ bits_used = 0
  /\ fetched = <<>> /\ wanted = 0 /\ result = 0
  /\ current_byte_idx = 0 /\ bits_read = 0

WriteBits(f) ==
  /\ phase = "write" /\ left = 0 /\ Len(written) < MaxFields
  /\ written' = Append(written, f)
  /\ left' = f[2]
  /\ UNCHANGED <<phase, buffer, current_byte, bits_used, readerVars>>

(* The bits go below those in use, where current_byte is zero.             *)
WriteChunk ==
  LET n == Smaller(left, 8 - bits_used)
      v == written[Len(written)][1]
      byte == current_byte + Slice(v, left - n, n) * 2^(8 - bits_used - n)
      full == bits_used + n = 8
  IN /\ left > 0
     /\ left' = left - n
     /\ buffer' = IF full THEN Append(buffer, byte) ELSE buffer
     /\ current_byte' = IF full THEN 0 ELSE byte
     /\ bits_used' = (bits_used + n) % 8
     /\ UNCHANGED <<phase, written, readerVars>>

Flush_Drop ==  \* mutant: a byte that is not full is dropped
  /\ phase = "write" /\ left = 0
  /\ phase' = "flushed"
  /\ current_byte' = 0 /\ bits_used' = 0
  /\ UNCHANGED <<written, left, buffer, readerVars>>
Flush ==
  /\ phase = "write" /\ left = 0
  /\ phase' = "flushed"
  /\ buffer' = IF bits_used > 0 THEN Append(buffer, current_byte) ELSE buffer
  /\ current_byte' = 0 /\ bits_used' = 0
  /\ UNCHANGED <<written, left, readerVars>>

(* The reader asks for the widths the writer used.                         *)
ReadBits ==
  /\ phase = "flushed" /\ wanted = 0 /\ Len(fetched) < Len(written)
  /\ wanted' = written[Len(fetched) + 1][2]
  /\ result' = 0
  /\ UNCHANGED <<phase, writerVars, fetched, current_byte_idx, bits_read>>

(* result has at most the 32 bits that were asked for.                     *)
ReadChunk ==
  LET n == Smaller(wanted, 8 - bits_read)
      r == result * 2^n + Slice(buffer[current_byte_idx + 1], 8 - bits_read - n, n)
  IN /\ wanted > 0 /\ current_byte_idx < Len(buffer)
     /\ result' = r
     /\ wanted' = wanted - n
     /\ fetched' = IF wanted = n THEN Append(fetched, r) ELSE fetched
     /\ current_byte_idx' = current_byte_idx + (bits_read + n) \div 8
     /\ bits_read' = (bits_read + n) % 8
     /\ UNCHANGED <<phase, writerVars>>

Next ==
  \/ \E f \in Fields : WriteBits(f)
  \/ WriteChunk \/ Flush \/ ReadBits \/ ReadChunk

Spec == Init /\ [][Next]_vars
FairSpec == Spec /\ WF_vars(Next)

-----------------------------------------------------------------------------
(* Whatever the widths and wherever the byte boundaries fall, read_bits    *)
(* returns field by field what write_bits was given, reduced to its width. *)
FieldsReadBack ==
  \A k \in DOMAIN fetched : fetched[k] = written[k][1] % 2^(written[k][2])

(* flush loses nothing: once the buffer is flushed every field written is  *)
(* read back, and less than one byte of padding remains.                   *)
AllFieldsArrive ==
  phase = "flushed" ~>
    /\ Len(fetched) = Len(written)
    /\ 8 * Len(buffer) - (8 * current_byte_idx + bits_read) < 8
=============================================================================
