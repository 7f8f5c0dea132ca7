------------------------------- MODULE Frames -------------------------------
(***************************************************************************)
(* Frames as the XDP program and the verifier see them: sequences of cells *)
(* addressed by byte offset from the start of the Ethernet header.         *)
(*                                                                         *)
(* A cell is a literal byte <<n>>, byte j of the digest of a message       *)
(* <<msg, j>>, or byte k of the checksum of a header <<hdr, 0, k>>.        *)
(* Digests are free terms: equal exactly when their messages are.          *)
(***************************************************************************)
EXTENDS Integers, Sequences

Lit(n) == <<n>>
DigestCell(msg, j) == <<msg, j>>
SumCell(hdr, k) == <<hdr, 0, k>>
IsLit(c) == Len(c) = 1
Byte == 0..255
ByteCells == {Lit(n) : n \in Byte}

At(f, o) == f[o + 1]
Val(f, o) == At(f, o)[1]
Bytes(f, o, n) == SubSeq(f, o + 1, o + n)
IsFrame(f) == Len(f) \in Nat /\ f = [k \in 1..Len(f) |-> f[k]]
Put(f, o, cells) ==
  [k \in 1..Len(f) |-> IF o < k /\ k <= o + Len(cells) THEN cells[k - o] ELSE f[k]]

(* Network byte order, 16 bits wide.                                       *)
U16(f, o) == 256 * Val(f, o) + Val(f, o + 1)
U16Cells(n) == LET m == n % 65536 IN <<Lit(m \div 256), Lit(m % 256)>>

\* sizes and field offsets of the headers
EthLen == 14
EthTypeAt == 12
VlanLen == 4
IpLen == 20
TotLenAt == 2
TtlAt == 8
CheckAt == 10

ETH_P_IP == 2048
ETH_P_8021Q == 33024
ETH_P_8021AD == 34984

\* both programs define the option alike
IP_OPT_HASH_ID == 25
IP_OPT_HASH_LEN == 36
HashBytes == 32

(* The low nibble of the first byte of the IP header at offset ip.         *)
Ihl(f, ip) == Val(f, ip) % 16
=============================================================================
