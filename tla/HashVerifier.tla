----------------------------- MODULE HashVerifier -----------------------------
(***************************************************************************)
(* packet_handler of packet-solutions/hash_verifier.c: look for the hash   *)
(* option of a captured frame, rebuild the header without it, hash that    *)
(* and compare.  The two walks over the options are separate loops of the  *)
(* code with different rules, so each of their iterations is a step.       *)
(*                                                                         *)
(* A byte of a digest that a walk happens to read as an option type or     *)
(* length may have any value: Reading offers the ones the code treats      *)
(* differently.                                                            *)
(***************************************************************************)
EXTENDS Frames

CONSTANTS
  VERIFIER_KEY,  \* SECRET_KEY of hash_verifier.c: sequence of 16 cells
  AnyByte        \* values a digest byte is read as

ASSUME VerifierAssumption ==
  VERIFIER_KEY \in [1..16 -> ByteCells] /\ AnyByte \subseteq Byte

VARIABLES
  vpc,       \* idle, scan, remove, compare, returned
  packet,    \* the captured frame
  pos,       \* options or mod_options, as an offset from the IP header
  received,  \* received_hash, or None
  header,    \* original_header
  verdict    \* what the handler printed

verVars == <<vpc, packet, pos, received, header, verdict>>

None == -1
MATCH == "match"
MISMATCH == "mismatch"
NoVerdict == "none"

-----------------------------------------------------------------------------
HeaderLen == 4 * Ihl(packet, EthLen)

Reading(c) == IF IsLit(c) THEN {c[1]} ELSE AnyByte

(* What a walk can read at offset p of hdr: None when the code's bounds    *)
(* check keeps it from reading there at all.                               *)
Field(hdr, p) == IF p < HeaderLen THEN Reading(At(hdr, p)) ELSE {None}

(* Type and length of a complete hash option at offset p.                  *)
IsHashOption_NoFit(t, len, p) ==  \* mutant: no check that the option fits
  t = IP_OPT_HASH_ID /\ len = IP_OPT_HASH_LEN
IsHashOption(t, len, p) ==
  /\ t = IP_OPT_HASH_ID /\ len = IP_OPT_HASH_LEN
  /\ p + IP_OPT_HASH_LEN <= HeaderLen

(* options[1] is the step to the next option; 0 is taken as 1.             *)
OptStep_Zero(len) == len  \* mutant: a zero length is not skipped
OptStep(len) == IF len = 0 THEN 1 ELSE len

(* The header copy with ihl (4 bits of an 8-bit subtraction), length and   *)
(* checksum changed.                                                       *)
NewIhl == (Ihl(packet, EthLen) - IP_OPT_HASH_LEN \div 4) % 256
TrueHeaderSize == 4 * NewIhl
AdjustFields_KeepCheck(h) ==  \* mutant: the checksum is left in
  Put(Put(h, 0, <<Lit(16 * (Val(h, 0) \div 16) + (NewIhl % 16))>>),
      TotLenAt, U16Cells(U16(h, TotLenAt) + 65536 - IP_OPT_HASH_LEN))
AdjustFields(h) ==
  Put(Put(Put(h, 0, <<Lit(16 * (Val(h, 0) \div 16) + (NewIhl % 16))>>),
          TotLenAt, U16Cells(U16(h, TotLenAt) + 65536 - IP_OPT_HASH_LEN)),
      CheckAt, <<Lit(0), Lit(0)>>)

(* The memmove over the option at p: the bytes behind it move forward, the *)
(* last 36 bytes keep their values.                                        *)
ShiftOver_None(h, p) == h  \* mutant: the option stays in place
ShiftOver(h, p) ==
  [k \in 1..Len(h) |-> IF p < k /\ k <= Len(h) - IP_OPT_HASH_LEN
                       THEN h[k + IP_OPT_HASH_LEN] ELSE h[k]]

(* compute_keyed_hash of the verifier: the whole key, all header bytes.    *)
ComputedMsg == VERIFIER_KEY \o Bytes(header, 0, TrueHeaderSize)

-----------------------------------------------------------------------------
VerInit ==
  /\ vpc = "idle"
  /\ packet = <<>> /\ header = <<>>
  /\ pos = 0 /\ received = None /\ verdict = NoVerdict

(* Not an IP packet, or no options: return.                                *)
Ignore(f) ==
  /\ vpc = "idle"
  /\ U16(f, EthTypeAt) # ETH_P_IP \/ Ihl(f, EthLen) <= 5
  /\ vpc' = "returned" /\ packet' = f
  /\ UNCHANGED <<pos, received, header, verdict>>

Capture(f) ==
  /\ vpc = "idle"
  /\ U16(f, EthTypeAt) = ETH_P_IP /\ Ihl(f, EthLen) > 5
  /\ vpc' = "scan" /\ packet' = f /\ pos' = IpLen
  /\ UNCHANGED <<received, header, verdict>>

(* First walk.  End of the options without a hash: return.                 *)
ScanEnd(t, len) ==
  /\ vpc = "scan"
  /\ t \in {None, 0} \/ (t # 1 /\ len = None)
  /\ vpc' = "returned"
  /\ UNCHANGED <<packet, pos, received, header, verdict>>

ScanNop(t) ==
  /\ vpc = "scan"
  /\ t = 1
  /\ pos' = pos + 1
  /\ UNCHANGED <<vpc, packet, received, header, verdict>>

ScanSkip(t, len) ==
  /\ vpc = "scan"
  /\ t \notin {None, 0, 1} /\ len # None
  /\ ~IsHashOption(t, len, pos)
  /\ pos' = pos + OptStep(len)
  /\ UNCHANGED <<vpc, packet, received, header, verdict>>

(* Found: note the hash, copy the header and adjust its fields.            *)
ScanFound(t, len) ==
  /\ vpc = "scan"
  /\ IsHashOption(t, len, pos)
  /\ vpc' = "remove" /\ pos' = IpLen
  /\ received' = pos + 4
  /\ header' = AdjustFields(Bytes(packet, EthLen, HeaderLen))
  /\ UNCHANGED <<packet, verdict>>

(* Second walk, over the copy: neither end of options nor padding is       *)
(* recognised.                                                             *)
RemoveEnd(t, len) ==
  /\ vpc = "remove"
  /\ t = None \/ len = None
  /\ vpc' = "compare"
  /\ UNCHANGED <<packet, pos, received, header, verdict>>

RemoveSkip(t, len) ==
  /\ vpc = "remove"
  /\ t # None /\ len # None /\ ~IsHashOption(t, len, pos)
  /\ pos' = pos + OptStep(len)
  /\ UNCHANGED <<vpc, packet, received, header, verdict>>

RemoveOption(t, len) ==
  /\ vpc = "remove"
  /\ IsHashOption(t, len, pos)
  /\ vpc' = "compare"
  /\ header' = ShiftOver(header, pos)
  /\ UNCHANGED <<packet, pos, received, verdict>>

(* memcmp of the 32 received bytes with the computed digest.               *)
Compare ==
  /\ vpc = "compare"
  /\ vpc' = "returned"
  /\ verdict' = IF \A j \in 1..HashBytes :
                     At(packet, EthLen + received + j - 1) = DigestCell(ComputedMsg, j)
                THEN MATCH ELSE MISMATCH
  /\ UNCHANGED <<packet, pos, received, header>>

(* The callback's locals are gone and pcap_loop waits for a packet.        *)
Return ==
  /\ vpc = "returned"
  /\ vpc' = "idle" /\ packet' = <<>> /\ header' = <<>>
  /\ pos' = 0 /\ received' = None /\ verdict' = NoVerdict

IpHeader == Bytes(packet, EthLen, HeaderLen)

VerStep ==
  \/ /\ vpc = "scan"
     /\ \E t \in Field(IpHeader, pos), len \in Field(IpHeader, pos + 1) :
          ScanEnd(t, len) \/ ScanNop(t) \/ ScanSkip(t, len) \/ ScanFound(t, len)
  \/ /\ vpc = "remove"
     /\ \E t \in Field(header, pos), len \in Field(header, pos + 1) :
          RemoveEnd(t, len) \/ RemoveSkip(t, len) \/ RemoveOption(t, len)
  \/ Compare
  \/ Return

-----------------------------------------------------------------------------
(* A hash the verifier accepts lies behind its option header and inside    *)
(* the IP header, so neither the comparison nor the 8-bit subtraction that *)
(* gives the new header length can leave the header.                       *)
HashInsideHeader ==
  received # None =>
    /\ IpLen + 4 <= received /\ received + HashBytes <= HeaderLen
    /\ NewIhl \in 5..6

(* The header that is hashed is the received one with the fields adjusted  *)
(* and exactly the option the first walk found cut out, as long as no      *)
(* one-byte option is before it: the second walk takes the byte behind     *)
(* that for a length.  (The bytes both walks read have known values.)      *)
RebuiltWithoutOption ==
  LET h == AdjustFields(IpHeader)
      start == received - 4
      cut == Bytes(h, 0, start)
               \o Bytes(h, start + IP_OPT_HASH_LEN,
                        HeaderLen - start - IP_OPT_HASH_LEN)
      plain == \A q \in IpLen..(start + 1) : At(IpHeader, q) \in ByteCells \ {Lit(1)}
  IN vpc = "compare" /\ plain => Bytes(header, 0, TrueHeaderSize) = cut

(* Every captured packet is eventually dealt with: no option list, however *)
(* malformed, keeps a walk in its loop.                                    *)
HandlerReturns == (vpc # "idle") ~> (vpc = "idle")
=============================================================================
