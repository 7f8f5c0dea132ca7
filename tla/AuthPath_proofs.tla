--------------------------- MODULE AuthPath_proofs --------------------------
(***************************************************************************)
(* Signing and verifying, for any frames, keys, altered bytes and option   *)
(* lists of other hosts.                                                   *)
(*                                                                         *)
(* The first half is about the operators: what each of them leaves in      *)
(* every cell of a frame, so what a signed frame looks like (IsSigned),    *)
(* what a frame on the wire has in common with it (Near), what the two     *)
(* programs hash (IsMessage, IsRebuilt) and when that is the same          *)
(* (SameMessage).  The second half is about the steps: what the XDP        *)
(* program has made of the frame that arrived (SigningInv), what is under  *)
(* way (CarryInv), where the verifier is (VerifierInv) and what it has     *)
(* found out about a signed frame (MatchInv).                              *)
(*                                                                         *)
(* Offsets are written as numbers here: 12 and 13 hold the EtherType, 14   *)
(* is the first byte of the header the programs edit, 16 and 17 its total  *)
(* length, 24 and 25 its checksum, 34 to 69 the hash option, of which 38   *)
(* to 69 are the digest.                                                   *)
(***************************************************************************)
EXTENDS AuthPath, SequenceTheorems, TLAPS

(* A frame is a sequence, and a sequence a frame.                          *)
LEMMA FrameIsSeq ==
  ASSUME NEW f, IsFrame(f)
  PROVE  f \in Seq({f[k] : k \in 1..Len(f)})
<1> DEFINE S == {f[k] : k \in 1..Len(f)}
<1>1. f \in [1..Len(f) -> S]  BY DEF IsFrame
<1>2. Len(f) \in Nat  BY DEF IsFrame
<1> HIDE DEF S
<1> QED  BY <1>1, <1>2, SeqDef

LEMMA SeqIsFrame ==
  ASSUME NEW S, NEW f \in Seq(S)
  PROVE  IsFrame(f)
BY LenProperties DEF IsFrame

(* A function on 1..n is a frame of n cells.                               *)
LEMMA FunIsFrame ==
  ASSUME NEW n \in Nat, NEW f, f = [k \in 1..n |-> f[k]]
  PROVE  IsFrame(f) /\ Len(f) = n
<1> DEFINE S == {f[k] : k \in 1..n}
<1>1. f \in [1..n -> S] /\ DOMAIN f = 1..n  OBVIOUS
<1> HIDE DEF S
<1>2. f \in Seq(S)  BY <1>1, SeqDef
<1>3. Len(f) = n  BY <1>1, <1>2, LenProperties
<1> QED  BY <1>3 DEF IsFrame

(* What Put, Bytes and \o leave at each offset.                            *)
LEMMA PutAt ==
  ASSUME NEW f, IsFrame(f), NEW o \in Nat, NEW c, Len(c) \in Nat
  PROVE  /\ IsFrame(Put(f, o, c)) /\ Len(Put(f, o, c)) = Len(f)
         /\ \A k \in Nat : k < Len(f) =>
              At(Put(f, o, c), k) = IF o <= k /\ k < o + Len(c) THEN At(c, k - o) ELSE At(f, k)
<1> DEFINE g == Put(f, o, c)
<1>1. Len(f) \in Nat  BY DEF IsFrame
<1>2. g = [k \in 1..Len(f) |-> g[k]]  BY DEF Put
<1>3. \A k \in 1..Len(f) : g[k] = IF o < k /\ k <= o + Len(c) THEN c[k - o] ELSE f[k]
  BY DEF Put
<1> HIDE DEF g
<1>4. IsFrame(g) /\ Len(g) = Len(f)  BY <1>1, <1>2, FunIsFrame
<1>5. ASSUME NEW k \in Nat, k < Len(f)
      PROVE  At(g, k) = IF o <= k /\ k < o + Len(c) THEN At(c, k - o) ELSE At(f, k)
  <2>1. k + 1 \in 1..Len(f) /\ (k + 1) - o = (k - o) + 1  BY <1>1, <1>5
  <2>2. g[k + 1] = IF o < k + 1 /\ k + 1 <= o + Len(c) THEN c[(k - o) + 1] ELSE f[k + 1]
    BY <1>3, <2>1
  <2>3. (o < k + 1 /\ k + 1 <= o + Len(c)) <=> (o <= k /\ k < o + Len(c))
    OBVIOUS
  <2> QED  BY <2>2, <2>3 DEF At
<1> QED  BY <1>4, <1>5 DEF g

LEMMA BytesAt ==
  ASSUME NEW f, IsFrame(f), NEW o \in Nat, NEW n \in Nat, o + n <= Len(f)
  PROVE  /\ IsFrame(Bytes(f, o, n)) /\ Len(Bytes(f, o, n)) = n
         /\ \A k \in Nat : k < n => At(Bytes(f, o, n), k) = At(f, o + k)
<1> DEFINE S == {f[k] : k \in 1..Len(f)}
<1>0. Len(f) \in Nat  BY DEF IsFrame
<1>1. \A i \in (o + 1)..(o + n) : f[i] \in S  BY <1>0
<1> HIDE DEF S
<1>2. /\ Bytes(f, o, n) \in Seq(S)
      /\ Len(Bytes(f, o, n)) = IF o + 1 <= o + n THEN (o + n) - (o + 1) + 1 ELSE 0
      /\ \A i \in 1..((o + n) - (o + 1) + 1) : Bytes(f, o, n)[i] = f[o + 1 + i - 1]
  BY <1>1, SubSeqProperties DEF Bytes
<1>3. IsFrame(Bytes(f, o, n)) /\ Len(Bytes(f, o, n)) = n  BY <1>2, SeqIsFrame
<1>4. ASSUME NEW k \in Nat, k < n  PROVE At(Bytes(f, o, n), k) = At(f, o + k)
  <2>1. /\ k + 1 \in 1..((o + n) - (o + 1) + 1)
        /\ o + 1 + (k + 1) - 1 = (o + k) + 1
    BY <1>4
  <2> QED  BY <1>2, <2>1 DEF At
<1> QED  BY <1>3, <1>4

LEMMA ConcatAt ==
  ASSUME NEW f, IsFrame(f), NEW g, IsFrame(g)
  PROVE  /\ IsFrame(f \o g) /\ Len(f \o g) = Len(f) + Len(g)
         /\ \A k \in Nat : k < Len(f) + Len(g) =>
              At(f \o g, k) = IF k < Len(f) THEN At(f, k) ELSE At(g, k - Len(f))
<1> DEFINE R == {f[k] : k \in 1..Len(f)}
           T == {g[k] : k \in 1..Len(g)}
           h == f \o g
<1>0. Len(f) \in Nat /\ Len(g) \in Nat  BY DEF IsFrame
<1>1. f \in Seq(R) /\ g \in Seq(T)  BY FrameIsSeq
<1> HIDE DEF R, T
<1>2. f \in Seq(R \cup T) /\ g \in Seq(R \cup T)
  BY <1>1, SeqMonotonic
<1>3. /\ h \in Seq(R \cup T) /\ Len(h) = Len(f) + Len(g)
      /\ \A i \in 1..(Len(f) + Len(g)) : h[i] = IF i <= Len(f) THEN f[i] ELSE g[i - Len(f)]
  BY <1>2, ConcatProperties
<1>4. IsFrame(h)  BY <1>3, SeqIsFrame
<1> HIDE DEF h
<1>5. ASSUME NEW k \in Nat, k < Len(f) + Len(g)
      PROVE  At(h, k) = IF k < Len(f) THEN At(f, k) ELSE At(g, k - Len(f))
  <2>1. /\ k + 1 \in 1..(Len(f) + Len(g)) /\ (k + 1) - Len(f) = (k - Len(f)) + 1
        /\ (k + 1 <= Len(f)) <=> (k < Len(f))
    BY <1>0, <1>5
  <2> QED  BY <1>3, <2>1 DEF At
<1> QED  BY <1>3, <1>4, <1>5 DEF h

(* Frames are equal when they are so at each offset.                       *)
LEMMA SameFrame ==
  ASSUME NEW f, IsFrame(f), NEW g, IsFrame(g), Len(f) = Len(g),
         \A k \in Nat : k < Len(f) => At(f, k) = At(g, k)
  PROVE  f = g
<1>1. Len(f) \in Nat  BY DEF IsFrame
<1>2. ASSUME NEW k \in 1..Len(f)  PROVE f[k] = g[k]
  <2>1. k - 1 \in Nat /\ k - 1 < Len(f) /\ (k - 1) + 1 = k  BY <1>1
  <2> QED  BY <2>1 DEF At
<1> QED  BY <1>2 DEF IsFrame

(* Short frames, written out.                                              *)
LEMMA Cells ==
  /\ \A a : Len(<<a>>) = 1 /\ At(<<a>>, 0) = a /\ IsFrame(<<a>>)
  /\ \A a, b : /\ Len(<<a, b>>) = 2 /\ At(<<a, b>>, 0) = a /\ At(<<a, b>>, 1) = b
               /\ IsFrame(<<a, b>>)
  /\ \A a, b, c, d : /\ Len(<<a, b, c, d>>) = 4 /\ IsFrame(<<a, b, c, d>>)
                     /\ At(<<a, b, c, d>>, 0) = a /\ At(<<a, b, c, d>>, 1) = b
                     /\ At(<<a, b, c, d>>, 2) = c /\ At(<<a, b, c, d>>, 3) = d
BY DEF IsFrame, At

(* What ZeroCheck leaves.                                                  *)
LEMMA ZeroAt ==
  ASSUME NEW f, IsFrame(f), NEW ip \in Nat
  PROVE  /\ IsFrame(ZeroCheck(f, ip)) /\ Len(ZeroCheck(f, ip)) = Len(f)
         /\ \A k \in Nat : k < Len(f) =>
              At(ZeroCheck(f, ip), k) = IF k \in {ip + 10, ip + 11} THEN Lit(0) ELSE At(f, k)
<1> DEFINE c == <<Lit(0), Lit(0)>>
           g == Put(f, ip + 10, c)
<1>1. Len(c) = 2 /\ At(c, 0) = Lit(0) /\ At(c, 1) = Lit(0)  BY Cells
<1>2. ZeroCheck(f, ip) = g  BY DEF ZeroCheck, CheckAt
<1> HIDE DEF c
<1>3. /\ IsFrame(g) /\ Len(g) = Len(f)
      /\ \A k \in Nat : k < Len(f) =>
           At(g, k) = IF ip + 10 <= k /\ k < ip + 10 + Len(c) THEN At(c, k - (ip + 10))
                                                            ELSE At(f, k)
  <2>1. ip + 10 \in Nat /\ Len(c) \in Nat  BY <1>1
  <2> QED  BY <2>1, PutAt, Zenon
<1>4. Len(f) \in Nat  BY DEF IsFrame
<1> HIDE DEF g
<1>5. ASSUME NEW k \in Nat, k < Len(f)
      PROVE  At(g, k) = IF k \in {ip + 10, ip + 11} THEN Lit(0) ELSE At(f, k)
  <2>1. CASE k = ip + 10
    <3>1. k - (ip + 10) = 0  BY <2>1
    <3> QED  BY <1>1, <1>3, <1>5, <2>1, <3>1
  <2>2. CASE k = ip + 11
    <3>1. k - (ip + 10) = 1  BY <2>2
    <3> QED  BY <1>1, <1>3, <1>5, <2>2, <3>1
  <2>3. CASE k \notin {ip + 10, ip + 11}  BY <1>1, <1>3, <1>5, <2>3
  <2> QED  BY <2>1, <2>2, <2>3
<1> QED  BY <1>2, <1>3, <1>5

(* g is f with ihl and tot_len changed.                                    *)
IsLengthened(g, f) ==
  /\ IsFrame(g) /\ Len(g) = Len(f)
  /\ \A k \in Nat : k < Len(f) /\ k \notin {14, 16, 17} => At(g, k) = At(f, k)
  /\ At(g, 14) = Lit(16 * (Val(f, 14) \div 16) + 14)
  /\ At(g, 16) = Lit(((U16(f, 16) + 36) % 65536) \div 256)
  /\ At(g, 17) = Lit(((U16(f, 16) + 36) % 65536) % 256)

(* What SetLengths leaves.                                                 *)
LEMMA LengthsAt ==
  ASSUME NEW f, IsFrame(f), 34 <= Len(f)
  PROVE  IsLengthened(SetLengths(f), f)
<1>0. Len(f) \in Nat  BY DEF IsFrame
<1> DEFINE c == <<Lit(16 * (Val(f, 14) \div 16) + 14)>>
           d == U16Cells(U16(f, 16) + 36)
           h == Put(f, 14, c)
           g == Put(h, 16, d)
<1>1. /\ Len(c) = 1 /\ At(c, 0) = Lit(16 * (Val(f, 14) \div 16) + 14)
      /\ Len(d) = 2 /\ At(d, 0) = Lit(((U16(f, 16) + 36) % 65536) \div 256)
      /\ At(d, 1) = Lit(((U16(f, 16) + 36) % 65536) % 256)
  BY Cells DEF U16Cells
<1>2. SetLengths(f) = g
  BY DEF SetLengths, EthLen, TotLenAt, IP_OPT_HASH_LEN
<1> HIDE DEF c, d
<1>3. /\ IsFrame(h) /\ Len(h) = Len(f)
      /\ \A k \in Nat : k < Len(f) =>
           At(h, k) = IF 14 <= k /\ k < 14 + Len(c) THEN At(c, k - 14) ELSE At(f, k)
  <2>1. 14 \in Nat /\ Len(c) \in Nat  BY <1>1
  <2> QED  BY <2>1, PutAt, Zenon
<1> HIDE DEF h
<1>4. /\ IsFrame(g) /\ Len(g) = Len(h)
      /\ \A k \in Nat : k < Len(h) =>
           At(g, k) = IF 16 <= k /\ k < 16 + Len(d) THEN At(d, k - 16) ELSE At(h, k)
  <2>1. 16 \in Nat /\ Len(d) \in Nat  BY <1>1
  <2> QED  BY <1>3, <2>1, PutAt, Zenon
<1> HIDE DEF g
<1>5. ASSUME NEW k \in Nat, k < Len(f), k \notin {14, 16, 17}  PROVE At(g, k) = At(f, k)
  BY <1>0, <1>1, <1>3, <1>4, <1>5
<1>6. 14 - 14 = 0 /\ 16 - 16 = 0 /\ 17 - 16 = 1  OBVIOUS
<1>7. At(g, 14) = At(c, 0)
  <2>1. At(g, 14) = At(h, 14)  BY <1>0, <1>1, <1>3, <1>4
  <2>2. At(h, 14) = At(c, 14 - 14)  BY <1>0, <1>1, <1>3
  <2> QED  BY <1>6, <2>1, <2>2
<1>8. At(g, 16) = At(d, 16 - 16) /\ At(g, 17) = At(d, 17 - 16)  BY <1>0, <1>1, <1>3, <1>4
<1>9. At(g, 16) = At(d, 0) /\ At(g, 17) = At(d, 1)  BY <1>6, <1>8
<1> QED  BY <1>1, <1>2, <1>3, <1>4, <1>5, <1>7, <1>9 DEF IsLengthened

(* What SetChecksum leaves.                                                *)
HeaderOf(f) == LET z == ZeroCheck(f, 14) IN Bytes(z, 14, 4 * Ihl(z, 14))
LEMMA ChecksumAt ==
  ASSUME NEW f, IsFrame(f), 34 <= Len(f)
  PROVE  LET g == SetChecksum(f)
         IN  /\ IsFrame(g) /\ Len(g) = Len(f)
             /\ \A k \in Nat : k < Len(f) /\ k \notin {24, 25} => At(g, k) = At(f, k)
             /\ At(g, 24) = SumCell(HeaderOf(f), 1) /\ At(g, 25) = SumCell(HeaderOf(f), 2)
<1> DEFINE z == ZeroCheck(f, 14)
           hdr == HeaderOf(f)
           c == <<SumCell(hdr, 1), SumCell(hdr, 2)>>
           g == Put(z, 24, c)
<1>0. Len(f) \in Nat /\ 14 \in Nat /\ 14 + 10 = 24 /\ 14 + 11 = 25  BY DEF IsFrame
<1>1. SetChecksum(f) = g  BY DEF SetChecksum, EthLen, CheckAt, HeaderOf
<1>2. /\ IsFrame(z) /\ Len(z) = Len(f)
      /\ \A k \in Nat : k < Len(f) =>
           At(z, k) = IF k \in {14 + 10, 14 + 11} THEN Lit(0) ELSE At(f, k)
  BY <1>0, ZeroAt, Zenon
<1>3. Len(c) = 2 /\ At(c, 0) = SumCell(hdr, 1) /\ At(c, 1) = SumCell(hdr, 2)  BY Cells
<1> HIDE DEF z, hdr, c
<1>4. /\ IsFrame(g) /\ Len(g) = Len(z)
      /\ \A k \in Nat : k < Len(z) =>
           At(g, k) = IF 24 <= k /\ k < 24 + Len(c) THEN At(c, k - 24) ELSE At(z, k)
  <2>1. 24 \in Nat /\ Len(c) \in Nat  BY <1>3
  <2> QED  BY <1>2, <2>1, PutAt, Zenon
<1> HIDE DEF g
<1>5. ASSUME NEW k \in Nat, k < Len(f), k \notin {24, 25}  PROVE At(g, k) = At(f, k)
  BY <1>0, <1>2, <1>3, <1>4, <1>5
<1>6. 24 - 24 = 0 /\ 25 - 24 = 1  OBVIOUS
<1>7. At(g, 24) = At(c, 24 - 24) /\ At(g, 25) = At(c, 25 - 24)  BY <1>0, <1>2, <1>3, <1>4
<1> QED  BY <1>1, <1>2, <1>3, <1>4, <1>5, <1>6, <1>7 DEF hdr

(* The hash option.                                                        *)
LEMMA OptionAt ==
  ASSUME NEW msg
  PROVE  LET o == HashOption(msg)
         IN  /\ IsFrame(o) /\ Len(o) = 36
             /\ At(o, 0) = Lit(25) /\ At(o, 1) = Lit(36)
             /\ At(o, 2) = Lit(18) /\ At(o, 3) = Lit(52)
             /\ \A k \in Nat : 4 <= k /\ k < 36 => At(o, k) = DigestCell(msg, k - 3)
<1> DEFINE a == <<Lit(25), Lit(36), Lit(18), Lit(52)>>
           d == [j \in 1..HashBytes |-> DigestCell(msg, j)]
           o == a \o d
<1>0. HashBytes = 32  BY DEF HashBytes
<1>1. HashOption(msg) = o
  BY DEF HashOption, IP_OPT_HASH_ID, IP_OPT_HASH_LEN
<1>2. /\ Len(a) = 4 /\ IsFrame(a)
      /\ At(a, 0) = Lit(25) /\ At(a, 1) = Lit(36) /\ At(a, 2) = Lit(18) /\ At(a, 3) = Lit(52)
  BY Cells
<1>3. d = [k \in 1..HashBytes |-> d[k]] /\ \A k \in 1..HashBytes : d[k] = DigestCell(msg, k)
  OBVIOUS
<1> HIDE DEF a, d
<1>4. IsFrame(d) /\ Len(d) = HashBytes  BY <1>0, <1>3, FunIsFrame
<1>5. \A k \in Nat : k < 32 => At(d, k) = DigestCell(msg, k + 1)  BY <1>0, <1>3 DEF At
<1>6. /\ IsFrame(o) /\ Len(o) = Len(a) + Len(d)
      /\ \A k \in Nat : k < Len(a) + Len(d) =>
           At(o, k) = IF k < Len(a) THEN At(a, k) ELSE At(d, k - Len(a))
  BY <1>2, <1>4, ConcatAt, Zenon
<1> HIDE DEF o
<1>7. /\ Len(o) = 36
      /\ \A k \in Nat : k < 36 => At(o, k) = IF k < 4 THEN At(a, k) ELSE At(d, k - 4)
  BY <1>0, <1>2, <1>4, <1>6
<1>8. ASSUME NEW k \in Nat, 4 <= k, k < 36  PROVE At(o, k) = DigestCell(msg, k - 3)
  <2>1. k - 4 \in Nat /\ k - 4 < 32 /\ (k - 4) + 1 = k - 3  BY <1>8
  <2>2. At(o, k) = At(d, k - 4)  BY <1>7, <1>8
  <2> QED  BY <1>5, <2>1, <2>2
<1>9. /\ At(o, 0) = At(a, 0) /\ At(o, 1) = At(a, 1)
      /\ At(o, 2) = At(a, 2) /\ At(o, 3) = At(a, 3)
  BY <1>7
<1> QED  BY <1>1, <1>2, <1>6, <1>7, <1>8, <1>9

(* s is z with the option of message msg inserted.                         *)
IsSigned(s, z, msg) ==
  /\ IsFrame(s) /\ Len(s) = Len(z) + 36
  /\ \A k \in Nat : k < 34 /\ k \notin {14, 16, 17, 24, 25} => At(s, k) = At(z, k)
  /\ At(s, 14) = Lit(16 * (Val(z, 14) \div 16) + 14)
  /\ At(s, 16) = Lit(((U16(z, 16) + 36) % 65536) \div 256)
  /\ At(s, 17) = Lit(((U16(z, 16) + 36) % 65536) % 256)
  /\ \E hdr : At(s, 24) = SumCell(hdr, 1) /\ At(s, 25) = SumCell(hdr, 2)
  /\ \E x : IsFrame(x) /\ 34 <= Len(x) /\ s = SetChecksum(x)
  /\ At(s, 34) = Lit(25) /\ At(s, 35) = Lit(36) /\ At(s, 36) = Lit(18) /\ At(s, 37) = Lit(52)
  /\ \A k \in Nat : 38 <= k /\ k < 70 => At(s, k) = DigestCell(msg, k - 37)
  /\ \A k \in Nat : 70 <= k /\ k < Len(s) => At(s, k) = At(z, k - 36)

(* What InsertOption leaves.                                               *)
LEMMA InsertedAt ==
  ASSUME NEW z, IsFrame(z), 34 <= Len(z), NEW msg
  PROVE  IsSigned(InsertOption(z, msg), z, msg)
<1> DEFINE a == Bytes(z, 0, 34)
           b == SetLengths(a)
           o == HashOption(msg)
           r == Bytes(z, 34, Len(z) - 34)
           g == b \o o
           f == g \o r
           s == SetChecksum(f)
<1>0. Len(z) \in Nat  BY DEF IsFrame
<1>1. InsertOption(z, msg) = s
  BY DEF InsertOption, CopiedHeaders, EthLen, IpLen
<1>2. IsFrame(a) /\ Len(a) = 34 /\ \A k \in Nat : k < 34 => At(a, k) = At(z, k)
  <2>1. 0 + 34 <= Len(z) /\ 0 \in Nat /\ 34 \in Nat  BY <1>0
  <2>2. IsFrame(a) /\ Len(a) = 34 /\ \A k \in Nat : k < 34 => At(a, k) = At(z, 0 + k)
    BY <2>1, BytesAt, Zenon
  <2> HIDE DEF a
  <2> QED  BY <2>2
<1>3. /\ IsFrame(r) /\ Len(r) = Len(z) - 34
      /\ \A k \in Nat : k < Len(z) - 34 => At(r, k) = At(z, 34 + k)
  <2>1. 34 + (Len(z) - 34) <= Len(z) /\ Len(z) - 34 \in Nat /\ 34 \in Nat  BY <1>0
  <2> QED  BY <2>1, BytesAt, Zenon
<1> HIDE DEF a, r
<1>4. U16(a, 16) = U16(z, 16) /\ Val(a, 14) = Val(z, 14)
  <2>1. At(a, 14) = At(z, 14) /\ At(a, 16) = At(z, 16) /\ At(a, 17) = At(z, 17)  BY <1>2
  <2>2. 16 + 1 = 17  OBVIOUS
  <2> QED  BY <2>1, <2>2, Zenon DEF U16, Val
<1>5. /\ IsFrame(b) /\ Len(b) = 34
      /\ \A k \in Nat : k < 34 /\ k \notin {14, 16, 17} => At(b, k) = At(z, k)
      /\ At(b, 14) = Lit(16 * (Val(z, 14) \div 16) + 14)
      /\ At(b, 16) = Lit(((U16(z, 16) + 36) % 65536) \div 256)
      /\ At(b, 17) = Lit(((U16(z, 16) + 36) % 65536) % 256)
  <2>1. IsFrame(a) /\ 34 <= Len(a)  BY <1>2
  <2>2. IsLengthened(b, a)  BY <2>1, LengthsAt
  <2> HIDE DEF b
  <2> QED  BY <1>2, <1>4, <2>2 DEF IsLengthened
<1>6. /\ IsFrame(o) /\ Len(o) = 36
      /\ At(o, 0) = Lit(25) /\ At(o, 1) = Lit(36) /\ At(o, 2) = Lit(18) /\ At(o, 3) = Lit(52)
      /\ \A k \in Nat : 4 <= k /\ k < 36 => At(o, k) = DigestCell(msg, k - 3)
  BY OptionAt, Zenon
<1> HIDE DEF b, o
<1>7. /\ IsFrame(g) /\ Len(g) = 70
      /\ \A k \in Nat : k < 70 => At(g, k) = IF k < 34 THEN At(b, k) ELSE At(o, k - 34)
  <2>0. IsFrame(b) /\ IsFrame(o)  BY <1>5, <1>6
  <2>1. /\ IsFrame(g) /\ Len(g) = Len(b) + Len(o)
        /\ \A k \in Nat : k < Len(b) + Len(o) =>
             At(g, k) = IF k < Len(b) THEN At(b, k) ELSE At(o, k - Len(b))
    BY <2>0, ConcatAt, Zenon
  <2> HIDE DEF g
  <2> QED  BY <1>5, <1>6, <2>1
<1> HIDE DEF g
<1>8. /\ IsFrame(f) /\ Len(f) = Len(z) + 36
      /\ \A k \in Nat : k < Len(z) + 36 =>
           At(f, k) = IF k < 70 THEN At(g, k) ELSE At(r, k - 70)
  <2>0. IsFrame(g) /\ IsFrame(r)  BY <1>3, <1>7
  <2>1. /\ IsFrame(f) /\ Len(f) = Len(g) + Len(r)
        /\ \A k \in Nat : k < Len(g) + Len(r) =>
             At(f, k) = IF k < Len(g) THEN At(g, k) ELSE At(r, k - Len(g))
    BY <2>0, ConcatAt, Zenon
  <2> HIDE DEF f
  <2> QED  BY <1>0, <1>3, <1>7, <2>1
<1> HIDE DEF f
<1>9. /\ \A k \in Nat : k < 34 => At(f, k) = At(b, k)
      /\ At(f, 34) = Lit(25) /\ At(f, 35) = Lit(36) /\ At(f, 36) = Lit(18) /\ At(f, 37) = Lit(52)
      /\ \A k \in Nat : 38 <= k /\ k < 70 => At(f, k) = DigestCell(msg, k - 37)
      /\ \A k \in Nat : 70 <= k /\ k < Len(f) => At(f, k) = At(z, k - 36)
  <2>1. \A k \in Nat : k < 70 => At(f, k) = At(g, k)  BY <1>0, <1>8
  <2>2. \A k \in Nat : k < 34 => At(f, k) = At(b, k)  BY <1>7, <2>1
  <2>3. \A k \in Nat : 34 <= k /\ k < 70 => At(f, k) = At(o, k - 34)  BY <1>7, <2>1
  <2>4. /\ At(f, 34) = At(o, 0) /\ At(f, 35) = At(o, 1)
        /\ At(f, 36) = At(o, 2) /\ At(f, 37) = At(o, 3)
    <3>1. 34 - 34 = 0 /\ 35 - 34 = 1 /\ 36 - 34 = 2 /\ 37 - 34 = 3  OBVIOUS
    <3>2. /\ At(f, 34) = At(o, 34 - 34) /\ At(f, 35) = At(o, 35 - 34)
          /\ At(f, 36) = At(o, 36 - 34) /\ At(f, 37) = At(o, 37 - 34)
      BY <2>3
    <3> QED  BY <3>1, <3>2
  <2>5. ASSUME NEW k \in Nat, 38 <= k, k < 70  PROVE At(f, k) = DigestCell(msg, k - 37)
    <3>1. k - 34 \in Nat /\ 4 <= k - 34 /\ k - 34 < 36 /\ (k - 34) - 3 = k - 37  BY <2>5
    <3>2. At(f, k) = At(o, k - 34)  BY <2>3, <2>5
    <3>3. At(o, k - 34) = DigestCell(msg, (k - 34) - 3)  BY <1>6, <3>1
    <3> QED  BY <3>1, <3>2, <3>3
  <2>6. ASSUME NEW k \in Nat, 70 <= k, k < Len(f)  PROVE At(f, k) = At(z, k - 36)
    <3>1. At(f, k) = At(r, k - 70)  BY <1>0, <1>8, <2>6
    <3>2. k - 70 \in Nat /\ k - 70 < Len(z) - 34 /\ 34 + (k - 70) = k - 36
      BY <1>0, <1>8, <2>6
    <3>3. At(r, k - 70) = At(z, 34 + (k - 70))  BY <1>3, <3>2
    <3> QED  BY <3>1, <3>2, <3>3
  <2> QED  BY <1>6, <2>2, <2>4, <2>5, <2>6
<1>10. /\ IsFrame(s) /\ Len(s) = Len(f)
       /\ \A k \in Nat : k < Len(f) /\ k \notin {24, 25} => At(s, k) = At(f, k)
       /\ \E hdr : At(s, 24) = SumCell(hdr, 1) /\ At(s, 25) = SumCell(hdr, 2)
  <2>1. 34 <= Len(f)  BY <1>0, <1>8
  <2> QED  BY <1>8, <2>1, ChecksumAt, Zenon
<1>15. \E x : IsFrame(x) /\ 34 <= Len(x) /\ s = SetChecksum(x)
  <2>1. 34 <= Len(f)  BY <1>0, <1>8
  <2> QED  BY <1>8, <2>1, Zenon
<1> HIDE DEF s
<1>11. /\ \A k \in Nat : k < 34 /\ k \notin {14, 16, 17, 24, 25} => At(s, k) = At(z, k)
       /\ At(s, 14) = At(b, 14) /\ At(s, 16) = At(b, 16) /\ At(s, 17) = At(b, 17)
  BY <1>0, <1>5, <1>8, <1>9, <1>10
<1>12. /\ At(s, 34) = At(f, 34) /\ At(s, 35) = At(f, 35)
       /\ At(s, 36) = At(f, 36) /\ At(s, 37) = At(f, 37)
  BY <1>0, <1>8, <1>10
<1>13. /\ \A k \in Nat : 38 <= k /\ k < 70 => At(s, k) = DigestCell(msg, k - 37)
       /\ \A k \in Nat : 70 <= k /\ k < Len(s) => At(s, k) = At(z, k - 36)
  BY <1>0, <1>8, <1>9, <1>10
<1>14. Len(s) = Len(z) + 36  BY <1>8, <1>10
<1> QED  BY <1>1, <1>5, <1>9, <1>10, <1>11, <1>12, <1>13, <1>14, <1>15 DEF IsSigned

-----------------------------------------------------------------------------
(* The three kinds of cells.                                               *)
LEMMA Kinds ==
  /\ \A n : IsLit(Lit(n))
  /\ \A m, j : ~IsLit(DigestCell(m, j))
  /\ \A h, k : ~IsLit(SumCell(h, k))
  /\ \A m, n, j, k : DigestCell(m, j) = DigestCell(n, k) => m = n
  /\ \A m, j, h, k : DigestCell(m, j) # SumCell(h, k)
  /\ \A m, n : Lit(m) = Lit(n) => m = n
BY DEF IsLit, Lit, DigestCell, SumCell

(* Bytes and their cells.                                                  *)
LEMMA ByteLit ==
  /\ \A n \in Byte : Lit(n) \in ByteCells
  /\ \A c \in ByteCells : IsLit(c)
  /\ \A n : n \in Byte <=> n \in Nat /\ n <= 255
<1>1. \A n : n \in Byte <=> n \in Nat /\ n <= 255  BY DEF Byte
<1>2. \A n \in Byte : Lit(n) \in ByteCells  BY DEF ByteCells
<1>3. \A c \in ByteCells : IsLit(c)  BY Kinds DEF ByteCells
<1> QED  BY <1>1, <1>2, <1>3

LEMMA ValOf ==
  ASSUME NEW f, NEW o, At(f, o) \in ByteCells
  PROVE  Val(f, o) \in Nat /\ Val(f, o) <= 255 /\ At(f, o) = Lit(Val(f, o))
<1>1. PICK n \in Byte : At(f, o) = Lit(n)  BY DEF ByteCells
<1>2. Val(f, o) = n  BY <1>1 DEF Val, Lit
<1> QED  BY <1>1, <1>2, ByteLit

LEMMA ValLit ==
  ASSUME NEW f, NEW o, NEW n, At(f, o) = Lit(n)
  PROVE  Val(f, o) = n
BY DEF Val, Lit

(* Frames that arrive.                                                     *)
LEMMA Arriving ==
  ASSUME NEW f \in Seq(ByteCells)
  PROVE  /\ IsFrame(f) /\ Len(f) \in Nat
         /\ \A k \in Nat : k < Len(f) => At(f, k) \in ByteCells
<1>1. IsFrame(f) /\ Len(f) \in Nat  BY SeqIsFrame DEF IsFrame
<1>2. ASSUME NEW k \in Nat, k < Len(f)  PROVE At(f, k) \in ByteCells
  <2>1. k + 1 \in 1..Len(f)  BY <1>1, <1>2
  <2> QED  BY <2>1, ElementOfSeq DEF At
<1> QED  BY <1>1, <1>2

(* Where the IP header is.                                                 *)
LEMMA TagsOf ==
  ASSUME NEW f
  PROVE  /\ Tags(f) \in {0, 1, 2}
         /\ Tags(f) # 0 => HasTag(f, 0)
<1> DEFINE P(d) == ~HasTag(f, d) /\ \A e \in 0..(d - 1) : HasTag(f, e)
<1>1. ~HasTag(f, 2)  BY DEF HasTag, VLAN_MAX_DEPTH
<1>2. P(0) \/ P(1) \/ P(2)
  <2>1. CASE ~HasTag(f, 0)  BY <2>1
  <2>2. CASE HasTag(f, 0) /\ ~HasTag(f, 1)  BY <2>2
  <2>3. CASE HasTag(f, 0) /\ HasTag(f, 1)  BY <1>1, <2>3
  <2> QED  BY <2>1, <2>2, <2>3
<1>3. Tags(f) = CHOOSE d \in 0..VLAN_MAX_DEPTH : P(d)  BY DEF Tags
<1> HIDE DEF P
<1>4. \E d \in 0..VLAN_MAX_DEPTH : P(d)  BY <1>2 DEF VLAN_MAX_DEPTH
<1>5. Tags(f) \in 0..VLAN_MAX_DEPTH /\ P(Tags(f))  BY <1>3, <1>4
<1>6. Tags(f) \in {0, 1, 2}  BY <1>5 DEF VLAN_MAX_DEPTH
<1>7. ASSUME Tags(f) # 0  PROVE HasTag(f, 0)
  <2>1. 0 \in 0..(Tags(f) - 1)  BY <1>6, <1>7
  <2> QED  BY <1>5, <2>1 DEF P
<1> QED  BY <1>6, <1>7

(* Zero, one or two tags precede the IP header.                            *)
LEMMA NetOffOf ==
  ASSUME NEW f
  PROVE  /\ NetOff(f) \in {14, 18, 22}
         /\ NetOff(f) = 14 => EthType(f) = U16(f, 12)
         /\ NetOff(f) # 14 => U16(f, 12) \in {33024, 34984}
<1>1. Tags(f) \in {0, 1, 2} /\ (Tags(f) # 0 => HasTag(f, 0))  BY TagsOf
<1>2. ProtoAfter(f, 0) = U16(f, 12)
  <2>1. EthTypeAt + VlanLen * 0 = 12  BY DEF EthTypeAt, VlanLen
  <2> QED  BY <2>1 DEF ProtoAfter
<1>3. NetOff(f) \in {14, 18, 22} /\ (NetOff(f) = 14 <=> Tags(f) = 0)
  BY <1>1 DEF NetOff, EthLen, VlanLen
<1>4. NetOff(f) = 14 => EthType(f) = U16(f, 12)  BY <1>2, <1>3 DEF EthType
<1>5. NetOff(f) # 14 => U16(f, 12) \in {33024, 34984}
  BY <1>1, <1>2, <1>3 DEF HasTag, ETH_P_8021Q, ETH_P_8021AD
<1> QED  BY <1>3, <1>4, <1>5

Zeroed(f) == ZeroCheck(f, NetOff(f))
Message(f) == KeyedMsg(Zeroed(f), NetOff(f))
Signable(f) == EthLen <= Len(f) /\ EthType(f) = ETH_P_IP /\ IpHeaderOk(f)

(* What the program passes on of a frame f.                                *)
SignedFrom(f, s) == Signable(f) /\ s = InsertOption(Zeroed(f), Message(f))
Outcome(f, s) ==
  \/ s = f /\ EthLen <= Len(f)
  \/ s = Zeroed(f) /\ Signable(f)
  \/ SignedFrom(f, s)

(* The frame whose header is hashed.                                       *)
LEMMA ZeroedAt ==
  ASSUME NEW f \in Seq(ByteCells), Signable(f)
  PROVE  /\ IsFrame(Zeroed(f)) /\ Len(Zeroed(f)) = Len(f) /\ Len(f) \in Nat
         /\ NetOff(f) + 20 <= Len(f) /\ 34 <= Len(f)
         /\ \A k \in Nat : k < Len(f) => At(Zeroed(f), k) \in ByteCells
         /\ \A k \in Nat : k < Len(f) /\ k \notin {NetOff(f) + 10, NetOff(f) + 11} =>
              At(Zeroed(f), k) = At(f, k)
         /\ At(Zeroed(f), NetOff(f) + 10) = Lit(0) /\ At(Zeroed(f), NetOff(f) + 11) = Lit(0)
<1>1. /\ IsFrame(f) /\ Len(f) \in Nat
      /\ \A k \in Nat : k < Len(f) => At(f, k) \in ByteCells
  BY Arriving
<1>2. NetOff(f) \in {14, 18, 22}  BY NetOffOf
<1>3. NetOff(f) + 20 <= Len(f)  BY DEF Signable, IpHeaderOk, IpLen
<1>4. 34 <= Len(f) /\ NetOff(f) \in Nat  BY <1>1, <1>2, <1>3
<1>5. /\ IsFrame(Zeroed(f)) /\ Len(Zeroed(f)) = Len(f)
      /\ \A k \in Nat : k < Len(f) =>
           At(Zeroed(f), k) = IF k \in {NetOff(f) + 10, NetOff(f) + 11} THEN Lit(0) ELSE At(f, k)
  BY <1>1, <1>4, ZeroAt, Zenon DEF Zeroed
<1>6. Lit(0) \in ByteCells  BY ByteLit
<1>7. \A k \in Nat : k < Len(f) => At(Zeroed(f), k) \in ByteCells  BY <1>1, <1>5, <1>6
<1>8. At(Zeroed(f), NetOff(f) + 10) = Lit(0) /\ At(Zeroed(f), NetOff(f) + 11) = Lit(0)
  BY <1>1, <1>3, <1>4, <1>5
<1> QED  BY <1>1, <1>3, <1>4, <1>5, <1>7, <1>8

(* A signed frame, cell by cell.                                           *)
LEMMA SignedAt ==
  ASSUME NEW f \in Seq(ByteCells), NEW s, SignedFrom(f, s)
  PROVE  IsSigned(s, Zeroed(f), Message(f)) /\ Len(s) = Len(f) + 36
<1>1. IsFrame(Zeroed(f)) /\ Len(Zeroed(f)) = Len(f) /\ 34 <= Len(f)
  BY ZeroedAt DEF SignedFrom
<1> QED  BY <1>1, InsertedAt DEF SignedFrom, IsSigned

(* What is signed is what has become longer.                               *)
LEMMA SignedIffLonger ==
  ASSUME NEW f \in Seq(ByteCells), NEW s, Outcome(f, s)
  PROVE  Len(s) = Len(f) + 36 <=> SignedFrom(f, s)
<1>1. Len(f) \in Nat  BY Arriving
<1>2. CASE s = f  BY <1>1, <1>2, SignedAt
<1>3. CASE s = Zeroed(f) /\ Signable(f)
  <2>1. Len(s) = Len(f)  BY <1>3, ZeroedAt
  <2> QED  BY <1>1, <2>1, SignedAt
<1>4. CASE SignedFrom(f, s)  BY <1>4, SignedAt
<1> QED  BY <1>2, <1>3, <1>4 DEF Outcome

-----------------------------------------------------------------------------
(* Frames under way: cells that are not of a digest or a checksum are      *)
(* bytes, and those of the headers are.                                    *)
Shape(w) ==
  /\ IsFrame(w) /\ Len(w) \in Nat
  /\ \A k \in Nat : k < Len(w) /\ IsLit(At(w, k)) => At(w, k) \in ByteCells
  /\ \A k \in Nat : k < Len(w) /\ k < 34 /\ k \notin {24, 25} => At(w, k) \in ByteCells

(* The edited fields fit their bytes.                                      *)
LEMMA Halves ==
  /\ \A v \in Nat : v <= 255 => 16 * (v \div 16) + 14 \in Byte
  /\ \A n \in Nat : /\ ((n + 36) % 65536) \div 256 \in Byte
                     /\ ((n + 36) % 65536) % 256 \in Byte
                     /\ (n + 36) % 65536
                          = 256 * (((n + 36) % 65536) \div 256) + (((n + 36) % 65536) % 256)
<1>1. ASSUME NEW v \in Nat, v <= 255
      PROVE  16 * (v \div 16) + 14 \in Nat /\ 16 * (v \div 16) + 14 <= 255
  <2>1. v \div 16 \in Nat /\ v \div 16 <= 15  BY <1>1
  <2> QED  BY <2>1
<1>2. ASSUME NEW n \in Nat
      PROVE  /\ ((n + 36) % 65536) \div 256 \in Nat /\ ((n + 36) % 65536) \div 256 <= 255
             /\ ((n + 36) % 65536) % 256 \in Nat /\ ((n + 36) % 65536) % 256 <= 255
             /\ (n + 36) % 65536
                  = 256 * (((n + 36) % 65536) \div 256) + (((n + 36) % 65536) % 256)
  <2> DEFINE m == (n + 36) % 65536
  <2>1. m \in Nat /\ m <= 65535  OBVIOUS
  <2> HIDE DEF m
  <2>2. /\ m \div 256 \in Nat /\ m \div 256 <= 255 /\ m % 256 \in Nat /\ m % 256 <= 255
        /\ m = 256 * (m \div 256) + (m % 256)
    BY <2>1
  <2> QED  BY <2>2 DEF m
<1> QED  BY <1>1, <1>2, ByteLit

(* A signed frame has the shape, and so has all that is passed on.         *)
LEMMA SignedShape ==
  ASSUME NEW f \in Seq(ByteCells), NEW s, SignedFrom(f, s)
  PROVE  Shape(s)
<1> DEFINE z == Zeroed(f)
<1>1. /\ Len(z) = Len(f) /\ Len(f) \in Nat /\ 34 <= Len(f)
      /\ \A k \in Nat : k < Len(f) => At(z, k) \in ByteCells
  BY ZeroedAt DEF SignedFrom
<1>2. IsSigned(s, z, Message(f)) /\ Len(s) = Len(f) + 36  BY SignedAt
<1> HIDE DEF z
<1>3. /\ At(z, 14) \in ByteCells /\ At(z, 16) \in ByteCells /\ At(z, 17) \in ByteCells
  BY <1>1
<1>4. Val(z, 14) \in Nat /\ Val(z, 14) <= 255  BY <1>3, ValOf
<1>5. U16(z, 16) \in Nat
  <2>1. Val(z, 16) \in Nat /\ Val(z, 17) \in Nat  BY <1>3, ValOf
  <2>2. 16 + 1 = 17  OBVIOUS
  <2> QED  BY <2>1, <2>2 DEF U16
<1>6. 16 * (Val(z, 14) \div 16) + 14 \in Byte
  BY <1>4, Halves
<1>7. /\ ((U16(z, 16) + 36) % 65536) \div 256 \in Byte
      /\ ((U16(z, 16) + 36) % 65536) % 256 \in Byte
  BY <1>5, Halves
<1>8. /\ At(s, 14) \in ByteCells /\ At(s, 16) \in ByteCells /\ At(s, 17) \in ByteCells
  BY <1>2, <1>6, <1>7, ByteLit DEF IsSigned
<1>9. ASSUME NEW k \in Nat, k < 34, k \notin {24, 25}  PROVE At(s, k) \in ByteCells
  <2>1. CASE k \in {14, 16, 17}  BY <1>8, <2>1
  <2>2. CASE k \notin {14, 16, 17}
    <3>1. At(s, k) = At(z, k)  BY <1>2, <1>9, <2>2 DEF IsSigned
    <3> QED  BY <1>1, <1>9, <3>1
  <2> QED  BY <2>1, <2>2
<1>10. ASSUME NEW k \in Nat, k < Len(s), IsLit(At(s, k))  PROVE At(s, k) \in ByteCells
  <2>1. CASE k < 34 /\ k \notin {24, 25}  BY <1>9, <2>1
  <2>2. CASE k \in {24, 25}  BY <1>2, <1>10, <2>2, Kinds DEF IsSigned
  <2>3. CASE k \in {34, 35, 36, 37}
    <3>1. Lit(25) \in ByteCells /\ Lit(36) \in ByteCells /\ Lit(18) \in ByteCells
          /\ Lit(52) \in ByteCells
      BY ByteLit
    <3> QED  BY <1>2, <2>3, <3>1 DEF IsSigned
  <2>4. CASE 38 <= k /\ k < 70
    <3>1. At(s, k) = DigestCell(Message(f), k - 37)  BY <1>2, <2>4 DEF IsSigned
    <3> QED  BY <1>10, <3>1, Kinds
  <2>5. CASE 70 <= k
    <3>1. At(s, k) = At(z, k - 36)  BY <1>2, <1>10, <2>5 DEF IsSigned
    <3>2. k - 36 \in Nat /\ k - 36 < Len(f)  BY <1>1, <1>2, <1>10, <2>5
    <3> QED  BY <1>1, <3>1, <3>2
  <2>6. k < 34 \/ k \in {34, 35, 36, 37} \/ (38 <= k /\ k < 70) \/ 70 <= k  OBVIOUS
  <2> QED  BY <2>1, <2>2, <2>3, <2>4, <2>5, <2>6
<1>11. IsFrame(s) /\ Len(s) \in Nat  BY <1>1, <1>2 DEF IsSigned
<1> QED  BY <1>9, <1>10, <1>11 DEF Shape

LEMMA OutcomeShape ==
  ASSUME NEW f \in Seq(ByteCells), NEW s, Outcome(f, s)
  PROVE  Shape(s)
<1>1. CASE s = f  BY <1>1, Arriving DEF Shape
<1>2. CASE s = Zeroed(f) /\ Signable(f)
  <2>1. /\ IsFrame(s) /\ Len(s) = Len(f) /\ Len(f) \in Nat
        /\ \A k \in Nat : k < Len(f) => At(s, k) \in ByteCells
    BY <1>2, ZeroedAt
  <2> QED  BY <2>1 DEF Shape
<1>3. CASE SignedFrom(f, s)  BY <1>3, SignedShape
<1> QED  BY <1>1, <1>2, <1>3 DEF Outcome

(* A frame like s but for one byte and the checksum.                       *)
Near(s, w) ==
  /\ Shape(w) /\ Len(w) = Len(s)
  /\ \E o \in Nat :
       /\ o < Len(s) => At(w, o) \in ByteCells
       /\ \A k \in Nat : k < Len(s) /\ k # o /\ k \notin {24, 25} => At(w, k) = At(s, k)

(* Altering a byte and rewriting the checksum keep the shape.              *)
LEMMA AlteredAt ==
  ASSUME NEW s, Shape(s), NEW o \in Nat, o < Len(s), NEW n \in Byte
  PROVE  LET w == Put(s, o, <<Lit(n)>>)
         IN  /\ Shape(w) /\ Len(w) = Len(s) /\ At(w, o) \in ByteCells
             /\ \A k \in Nat : k < Len(s) /\ k # o => At(w, k) = At(s, k)
<1> DEFINE c == <<Lit(n)>>
           w == Put(s, o, c)
<1>1. Len(c) = 1 /\ Len(c) \in Nat /\ At(c, 0) = Lit(n)  BY Cells
<1> HIDE DEF c
<1>2. IsFrame(s) /\ Len(s) \in Nat  BY DEF Shape
<1>3. /\ IsFrame(w) /\ Len(w) = Len(s)
      /\ \A k \in Nat : k < Len(s) =>
           At(w, k) = IF o <= k /\ k < o + Len(c) THEN At(c, k - o) ELSE At(s, k)
  BY <1>1, <1>2, PutAt, Zenon
<1> HIDE DEF w
<1>4. ASSUME NEW k \in Nat, k < Len(s), k # o  PROVE At(w, k) = At(s, k)
  BY <1>1, <1>3, <1>4
<1>5. At(w, o) = Lit(n)
  <2>1. o - o = 0  OBVIOUS
  <2>2. At(w, o) = At(c, o - o)  BY <1>1, <1>3
  <2> QED  BY <1>1, <2>1, <2>2
<1>6. At(w, o) \in ByteCells  BY <1>5, ByteLit
<1>7. Shape(w)  BY <1>2, <1>3, <1>4, <1>6 DEF Shape
<1> QED  BY <1>3, <1>4, <1>6, <1>7 DEF w, c

LEMMA SummedShape ==
  ASSUME NEW s, Shape(s), 34 <= Len(s)
  PROVE  LET w == SetChecksum(s)
         IN  /\ Shape(w) /\ Len(w) = Len(s)
             /\ \A k \in Nat : k < Len(s) /\ k \notin {24, 25} => At(w, k) = At(s, k)
<1> DEFINE w == SetChecksum(s)
<1>1. IsFrame(s) /\ Len(s) \in Nat  BY DEF Shape
<1>2. /\ IsFrame(w) /\ Len(w) = Len(s)
      /\ \A k \in Nat : k < Len(s) /\ k \notin {24, 25} => At(w, k) = At(s, k)
      /\ At(w, 24) = SumCell(HeaderOf(s), 1) /\ At(w, 25) = SumCell(HeaderOf(s), 2)
  BY <1>1, ChecksumAt, Zenon
<1> HIDE DEF w
<1>3. ~IsLit(At(w, 24)) /\ ~IsLit(At(w, 25))  BY <1>2, Kinds
<1>4. Shape(w)  BY <1>1, <1>2, <1>3 DEF Shape
<1> QED  BY <1>2, <1>4 DEF w

Altered(s, w) ==
  \E o \in EthTypeAt..(CopiedHeaders + IP_OPT_HASH_LEN + 1), n \in AlteredBytes :
    o < Len(s) /\ w = Put(s, o, <<Lit(n)>>)
Routed(s, w) ==
  /\ IsIp(s) /\ Val(s, EthLen + TtlAt) > 1
  /\ w = SetChecksum(Put(s, EthLen + TtlAt, <<Lit(Val(s, EthLen + TtlAt) - 1)>>))
Delivered(s, w) == w = s \/ Altered(s, w) \/ Routed(s, w)

(* The network changes one byte, and perhaps the checksum.                 *)
LEMMA DeliveredNear ==
  ASSUME NEW s, Shape(s), NEW w, Delivered(s, w)
  PROVE  Near(s, w)
<1>1. CASE w = s
  <2>1. Len(s) \in Nat /\ ~(Len(s) < Len(s))  BY DEF Shape
  <2> QED  BY <1>1, <2>1 DEF Near
<1>2. CASE Altered(s, w)
  <2>1. PICK o \in EthTypeAt..(CopiedHeaders + IP_OPT_HASH_LEN + 1), n \in AlteredBytes :
          o < Len(s) /\ w = Put(s, o, <<Lit(n)>>)
    BY <1>2 DEF Altered
  <2>2. o \in Nat /\ n \in Byte
    BY PathAssumption DEF EthTypeAt, CopiedHeaders, IP_OPT_HASH_LEN, EthLen, IpLen
  <2>3. /\ Shape(w) /\ Len(w) = Len(s) /\ At(w, o) \in ByteCells
        /\ \A k \in Nat : k < Len(s) /\ k # o => At(w, k) = At(s, k)
    BY <2>1, <2>2, AlteredAt, Zenon
  <2> QED  BY <2>2, <2>3 DEF Near
<1>3. CASE Routed(s, w)
  <2>1. Len(s) \in Nat /\ 34 <= Len(s) /\ EthLen + TtlAt = 22
    BY <1>3 DEF Routed, IsIp, EthLen, IpLen, TtlAt, Shape
  <2> DEFINE v == Val(s, 22) - 1
             t == Put(s, 22, <<Lit(v)>>)
  <2>2. At(s, 22) \in ByteCells  BY <2>1 DEF Shape
  <2>3. v \in Byte  BY <1>3, <2>1, <2>2, ValOf, ByteLit DEF Routed
  <2> HIDE DEF v
  <2>4. 22 \in Nat /\ 22 < Len(s)  BY <2>1
  <2>5. /\ Shape(t) /\ Len(t) = Len(s)
        /\ \A k \in Nat : k < Len(s) /\ k # 22 => At(t, k) = At(s, k)
    BY <2>3, <2>4, AlteredAt, Zenon
  <2>6. w = SetChecksum(t)  BY <1>3, <2>1 DEF Routed, v
  <2> HIDE DEF t
  <2>7. 34 <= Len(t)  BY <2>1, <2>5
  <2>8. /\ Shape(w) /\ Len(w) = Len(t)
        /\ \A k \in Nat : k < Len(t) /\ k \notin {24, 25} => At(w, k) = At(t, k)
    BY <2>5, <2>6, <2>7, SummedShape, Zenon
  <2>9. \A k \in Nat : k < Len(s) /\ k # 22 /\ k \notin {24, 25} => At(w, k) = At(s, k)
    BY <2>5, <2>8
  <2>10. At(w, 22) \in ByteCells  BY <2>4, <2>5, <2>8 DEF Shape
  <2> QED  BY <2>4, <2>5, <2>8, <2>9, <2>10 DEF Near
<1> QED  BY <1>1, <1>2, <1>3 DEF Delivered

-----------------------------------------------------------------------------
(* The fields of a signed frame.                                           *)
LEMMA U16At ==
  ASSUME NEW f, NEW o \in Nat, At(f, o) \in ByteCells, At(f, o + 1) \in ByteCells
  PROVE  U16(f, o) \in Nat /\ U16(f, o) <= 65535
<1>1. /\ Val(f, o) \in Nat /\ Val(f, o) <= 255
      /\ Val(f, o + 1) \in Nat /\ Val(f, o + 1) <= 255
  BY ValOf
<1> QED  BY <1>1 DEF U16

LEMMA U16Same ==
  ASSUME NEW f, NEW g, NEW o, At(f, o) = At(g, o), At(f, o + 1) = At(g, o + 1)
  PROVE  U16(f, o) = U16(g, o)
BY Zenon DEF U16, Val

LEMMA SignedFields ==
  ASSUME NEW f \in Seq(ByteCells), NEW s, SignedFrom(f, s)
  PROVE  /\ Ihl(s, 14) = 14
         /\ U16(s, 16) = (U16(f, 16) + 36) % 65536
         /\ U16(f, 16) \in Nat /\ U16(f, 16) <= 65535
<1> DEFINE z == Zeroed(f)
<1>1. /\ Len(f) \in Nat /\ 34 <= Len(f) /\ NetOff(f) \in {14, 18, 22}
      /\ \A k \in Nat : k < Len(f) /\ k \notin {NetOff(f) + 10, NetOff(f) + 11} =>
              At(z, k) = At(f, k)
  BY ZeroedAt, NetOffOf DEF SignedFrom
<1>2. IsSigned(s, z, Message(f))  BY SignedAt
<1> HIDE DEF z
<1>3. At(z, 14) = At(f, 14) /\ At(z, 16) = At(f, 16) /\ At(z, 16 + 1) = At(f, 16 + 1)
  BY <1>1
<1>4. At(f, 14) \in ByteCells /\ At(f, 16) \in ByteCells /\ At(f, 16 + 1) \in ByteCells
  BY <1>1, Arriving
<1>5. U16(f, 16) \in Nat /\ U16(f, 16) <= 65535  BY <1>4, U16At
<1>6. U16(z, 16) = U16(f, 16)  BY <1>3, U16Same
<1>7. Val(z, 14) \in Nat /\ Val(z, 14) <= 255  BY <1>3, <1>4, ValOf
<1>8. Ihl(s, 14) = 14
  <2> DEFINE q == Val(z, 14) \div 16
  <2>1. Val(s, 14) = 16 * q + 14  BY <1>2, ValLit DEF IsSigned
  <2>2. q \in Nat  BY <1>7
  <2> HIDE DEF q
  <2>3. (16 * q + 14) % 16 = 14  BY <2>2
  <2> QED  BY <2>1, <2>3 DEF Ihl
<1>9. U16(s, 16) = (U16(f, 16) + 36) % 65536
  <2> DEFINE n == U16(f, 16)
  <2>0. 16 + 1 = 17  OBVIOUS
  <2>1. Val(s, 16) = ((n + 36) % 65536) \div 256 /\ Val(s, 17) = ((n + 36) % 65536) % 256
    BY <1>2, <1>6, ValLit DEF IsSigned
  <2>2. n \in Nat  BY <1>5
  <2> HIDE DEF n
  <2>3. (n + 36) % 65536 = 256 * (((n + 36) % 65536) \div 256) + (((n + 36) % 65536) % 256)
    BY <2>2, Halves
  <2>4. U16(s, 16) = (n + 36) % 65536  BY <2>0, <2>1, <2>3 DEF U16
  <2> QED  BY <2>4 DEF n
<1> QED  BY <1>5, <1>8, <1>9

(* The checksum of a header does not depend on the checksum field.         *)
LEMMA SumTwice ==
  ASSUME NEW x, IsFrame(x), 34 <= Len(x)
  PROVE  SetChecksum(SetChecksum(x)) = SetChecksum(x)
<1> DEFINE y == SetChecksum(x)
           u == ZeroCheck(x, 14)
           v == ZeroCheck(y, 14)
           w == SetChecksum(y)
<1>0. Len(x) \in Nat /\ 14 \in Nat  BY DEF IsFrame
<1>1. /\ IsFrame(y) /\ Len(y) = Len(x)
      /\ \A k \in Nat : k < Len(x) /\ k \notin {24, 25} => At(y, k) = At(x, k)
      /\ At(y, 24) = SumCell(HeaderOf(x), 1) /\ At(y, 25) = SumCell(HeaderOf(x), 2)
  BY ChecksumAt, Zenon
<1> HIDE DEF y
<1>2. /\ IsFrame(u) /\ Len(u) = Len(x)
      /\ \A k \in Nat : k < Len(x) =>
           At(u, k) = IF k \in {14 + 10, 14 + 11} THEN Lit(0) ELSE At(x, k)
  BY <1>0, ZeroAt, Zenon
<1>3. /\ IsFrame(v) /\ Len(v) = Len(y)
      /\ \A k \in Nat : k < Len(y) =>
           At(v, k) = IF k \in {14 + 10, 14 + 11} THEN Lit(0) ELSE At(y, k)
  BY <1>0, <1>1, ZeroAt, Zenon
<1>4. u = v
  <2> HIDE DEF u, v
  <2>1. \A k \in Nat : k < Len(u) => At(u, k) = At(v, k)  BY <1>1, <1>2, <1>3
  <2>2. Len(u) = Len(v) /\ IsFrame(u) /\ IsFrame(v)  BY <1>1, <1>2, <1>3
  <2> QED  BY <2>1, <2>2, SameFrame
<1>5. HeaderOf(y) = HeaderOf(x)  BY <1>4, Zenon DEF HeaderOf
<1>6. /\ IsFrame(w) /\ Len(w) = Len(y)
      /\ \A k \in Nat : k < Len(y) /\ k \notin {24, 25} => At(w, k) = At(y, k)
      /\ At(w, 24) = SumCell(HeaderOf(y), 1) /\ At(w, 25) = SumCell(HeaderOf(y), 2)
  <2>1. 34 <= Len(y)  BY <1>1
  <2> QED  BY <1>1, <2>1, ChecksumAt, Zenon
<1> HIDE DEF w
<1>7. \A k \in Nat : k < Len(w) => At(w, k) = At(y, k)  BY <1>1, <1>5, <1>6
<1>8. w = y  BY <1>1, <1>6, <1>7, SameFrame
<1> QED  BY <1>8 DEF w, y

LEMMA SignedSummed ==
  ASSUME NEW f \in Seq(ByteCells), NEW s, SignedFrom(f, s)
  PROVE  SetChecksum(s) = s
<1>1. PICK x : IsFrame(x) /\ 34 <= Len(x) /\ s = SetChecksum(x)  BY SignedAt DEF IsSigned
<1> QED  BY <1>1, SumTwice

(* The payload of a plain frame survives the insertion.                    *)
LEMMA SignedPayload ==
  ASSUME NEW f \in Seq(ByteCells), NEW s, SignedFrom(f, s), PlainFrame(f)
  PROVE  /\ PayloadOf(s) = PayloadOf(f)
         /\ (U16(s, EthLen + TotLenAt) - 4 * Ihl(s, EthLen)) % 65536
              = (U16(f, EthLen + TotLenAt) - 4 * Ihl(f, EthLen)) % 65536
<1> DEFINE z == Zeroed(f)
           n == Len(f) - 34
           a == Bytes(s, 70, n)
           b == Bytes(f, 34, n)
<1>1. /\ Len(f) \in Nat /\ 34 <= Len(f) /\ NetOff(f) = 14 /\ Ihl(f, 14) = 5
      /\ \A k \in Nat : k < Len(f) /\ k \notin {NetOff(f) + 10, NetOff(f) + 11} =>
              At(z, k) = At(f, k)
  BY ZeroedAt DEF SignedFrom, PlainFrame, EthLen
<1>2. IsSigned(s, z, Message(f)) /\ Len(s) = Len(f) + 36  BY SignedAt
<1> HIDE DEF z
<1>3. /\ Ihl(s, 14) = 14 /\ U16(s, 16) = (U16(f, 16) + 36) % 65536
      /\ U16(f, 16) \in Nat /\ U16(f, 16) <= 65535
  BY SignedFields
<1>4. /\ EthLen + 4 * Ihl(s, EthLen) = 70 /\ EthLen + 4 * Ihl(f, EthLen) = 34
      /\ Len(s) - 70 = n
  BY <1>1, <1>2, <1>3 DEF EthLen
<1>5. PayloadOf(s) = a /\ PayloadOf(f) = b
  BY <1>4, Zenon DEF PayloadOf
<1>6. n \in Nat /\ 70 + n <= Len(s) /\ 34 + n <= Len(f)  BY <1>1, <1>2
<1>7. /\ IsFrame(a) /\ Len(a) = n
      /\ \A k \in Nat : k < n => At(a, k) = At(s, 70 + k)
  <2>1. IsFrame(s) /\ 70 \in Nat  BY <1>2 DEF IsSigned
  <2> HIDE DEF n
  <2> QED  BY <1>6, <2>1, BytesAt, Zenon
<1>8. /\ IsFrame(b) /\ Len(b) = n
      /\ \A k \in Nat : k < n => At(b, k) = At(f, 34 + k)
  <2>1. IsFrame(f) /\ 34 \in Nat  BY Arriving
  <2> HIDE DEF n
  <2> QED  BY <1>6, <2>1, BytesAt, Zenon
<1> HIDE DEF a, b
<1>9. ASSUME NEW k \in Nat, k < n  PROVE At(a, k) = At(b, k)
  <2>1. 70 + k \in Nat /\ 70 <= 70 + k /\ 70 + k < Len(s) /\ (70 + k) - 36 = 34 + k
    BY <1>1, <1>2, <1>9
  <2>2. At(s, 70 + k) = At(z, (70 + k) - 36)  BY <1>2, <2>1 DEF IsSigned
  <2>3. 34 + k \in Nat /\ 34 + k < Len(f) /\ 34 + k \notin {NetOff(f) + 10, NetOff(f) + 11}
    BY <1>1, <1>9
  <2>4. At(z, 34 + k) = At(f, 34 + k)  BY <1>1, <2>3
  <2> QED  BY <1>7, <1>8, <1>9, <2>1, <2>2, <2>4
<1>10. a = b
  <2>1. IsFrame(a) /\ IsFrame(b) /\ Len(a) = Len(b)  BY <1>7, <1>8
  <2>2. \A k \in Nat : k < Len(a) => At(a, k) = At(b, k)  BY <1>7, <1>9
  <2> QED  BY <2>1, <2>2, SameFrame
<1>11. (U16(s, 16) - 4 * Ihl(s, 14)) % 65536 = (U16(f, 16) - 4 * Ihl(f, 14)) % 65536
  <2> DEFINE u == U16(f, 16)
  <2>1. u \in Nat /\ u <= 65535  BY <1>3
  <2> HIDE DEF u
  <2>2. (((u + 36) % 65536) - 4 * 14) % 65536 = (u - 4 * 5) % 65536  BY <2>1
  <2> QED  BY <1>1, <1>3, <2>2 DEF u
<1>12. EthLen = 14 /\ EthLen + TotLenAt = 16  BY DEF EthLen, TotLenAt
<1> QED  BY <1>5, <1>10, <1>11, <1>12

(* The first headers survive it exactly when the frame is plain.           *)
LEMMA SignedHeaders ==
  ASSUME NEW f \in Seq(ByteCells), NEW s, SignedFrom(f, s)
  PROVE  ( /\ Bytes(s, 0, NetOff(f)) = Bytes(f, 0, NetOff(f))
           /\ 4 * Ihl(s, NetOff(f)) = 4 * Ihl(f, NetOff(f)) + IP_OPT_HASH_LEN )
         <=> PlainFrame(f)
<1> DEFINE z == Zeroed(f)
           ip == NetOff(f)
           a == Bytes(s, 0, ip)
           b == Bytes(f, 0, ip)
<1>1. /\ IsFrame(f) /\ Len(f) \in Nat /\ 34 <= Len(f)
      /\ ip \in {14, 18, 22} /\ ip + 20 <= Len(f)
      /\ \A k \in Nat : k < Len(f) /\ k \notin {ip + 10, ip + 11} => At(z, k) = At(f, k)
  BY ZeroedAt, NetOffOf, Arriving DEF SignedFrom
<1>2. IsSigned(s, z, Message(f)) /\ Len(s) = Len(f) + 36  BY SignedAt
<1> HIDE DEF z
<1>3. /\ Ihl(s, 14) = 14 /\ U16(s, 16) = (U16(f, 16) + 36) % 65536
      /\ U16(f, 16) \in Nat /\ U16(f, 16) <= 65535
  BY SignedFields
<1>4. PlainFrame(f) <=> ip = 14 /\ Ihl(f, 14) = 5  BY DEF PlainFrame, EthLen
<1>5. IP_OPT_HASH_LEN = 36  BY DEF IP_OPT_HASH_LEN
<1> HIDE DEF ip
<1>6. ip \in Nat /\ 0 \in Nat /\ 0 + ip <= Len(s) /\ 0 + ip <= Len(f) /\ IsFrame(s)
  BY <1>1, <1>2 DEF IsSigned
<1>7. /\ IsFrame(a) /\ Len(a) = ip /\ \A k \in Nat : k < ip => At(a, k) = At(s, 0 + k)
  BY <1>6, BytesAt, Zenon
<1>8. /\ IsFrame(b) /\ Len(b) = ip /\ \A k \in Nat : k < ip => At(b, k) = At(f, 0 + k)
  BY <1>1, <1>6, BytesAt, Zenon
<1> HIDE DEF a, b
<1>9. \A k \in Nat : 0 + k = k  OBVIOUS
<1>10. Ihl(f, 14) \in Nat
  <2>1. At(f, 14) \in ByteCells  BY <1>1, Arriving
  <2>2. Val(f, 14) \in Nat  BY <2>1, ValOf
  <2> QED  BY <2>2 DEF Ihl
<1>11. CASE ip = 14
  <2>1. \A k \in Nat : k < 14 => At(a, k) = At(b, k)
    <3>1. ASSUME NEW k \in Nat, k < 14  PROVE At(s, k) = At(f, k)
      <4>1. At(s, k) = At(z, k)  BY <1>2, <3>1 DEF IsSigned
      <4>2. At(z, k) = At(f, k)  BY <1>1, <1>11, <3>1
      <4> QED  BY <4>1, <4>2
    <3> QED  BY <1>7, <1>8, <1>9, <1>11, <3>1
  <2>2. a = b  BY <1>7, <1>8, <1>11, <2>1, SameFrame
  <2>3. 4 * Ihl(s, 14) = 4 * Ihl(f, 14) + 36 <=> Ihl(f, 14) = 5  BY <1>3, <1>10
  <2> QED  BY <1>4, <1>5, <1>11, <2>2, <2>3 DEF ip, a, b
<1>12. CASE ip # 14
  <2>1. ASSUME a = b  PROVE FALSE
    <3>1. 16 \in Nat /\ 17 \in Nat /\ 16 < ip /\ 17 < ip  BY <1>1, <1>12
    <3>2. At(s, 16) = At(f, 16) /\ At(s, 17) = At(f, 17)  BY <1>7, <1>8, <1>9, <2>1, <3>1
    <3>3. 16 + 1 = 17  OBVIOUS
    <3>4. U16(s, 16) = U16(f, 16)  BY <3>2, <3>3, U16Same
    <3> DEFINE u == U16(f, 16)
    <3>5. u \in Nat /\ u <= 65535 /\ (u + 36) % 65536 = u  BY <1>3, <3>4
    <3> HIDE DEF u
    <3> QED  BY <3>5
  <2> QED  BY <1>4, <1>12, <2>1 DEF ip, a, b
<1> QED  BY <1>11, <1>12

-----------------------------------------------------------------------------
(* What the XDP program has done of its work.                              *)
SigningInv ==
  /\ orig \in Seq(ByteCells)
  /\ xpc \in {"idle", "parse", "hashed", "out"}
  /\ xpc = "parse" => frame = orig
  /\ xpc = "hashed" => Signable(orig) /\ frame = Zeroed(orig) /\ digest = Message(orig)
  /\ xpc = "out" => action # XDP_PASS \/ Outcome(orig, frame)
  /\ xpc = "idle" /\ sent # <<>> => Outcome(orig, sent)

(* What is under way: a foreign frame, or the one that was sent as the     *)
(* network left it.                                                        *)
Carried(w, s) == IF s = <<>> THEN w \in ForeignFrames ELSE Delivered(s, w)
CarryInv ==
  /\ vpc \in {"idle", "scan", "remove", "compare", "returned"}
  /\ xpc # "idle" => sent = <<>> \/ (wire = <<>> /\ vpc = "idle")
  /\ wire # <<>> => Carried(wire, sent)
  /\ vpc # "idle" => Carried(packet, sent)

LEMMA SigningInitially == Init => SigningInv /\ CarryInv
<1>1. <<>> \in Seq(ByteCells)  OBVIOUS
<1> QED  BY <1>1 DEF Init, XdpInit, VerInit, SigningInv, CarryInv

(* Each step keeps what is known of the frame and of what is under way.    *)
LEMMA SigningStep == SigningInv /\ CarryInv /\ [Next]_vars => SigningInv' /\ CarryInv'
<1> SUFFICES ASSUME SigningInv, CarryInv, [Next]_vars  PROVE SigningInv' /\ CarryInv'
  OBVIOUS
<1>1. CASE UNCHANGED vars
  BY <1>1 DEF SigningInv, CarryInv, vars, xdpVars, verVars
<1>2. ASSUME NEW f \in InFrames, Arrive(f), wire = <<>>, vpc = "idle",
             UNCHANGED <<verVars, wire, sent>>
      PROVE  SigningInv' /\ CarryInv'
  <2>1. f \in Seq(ByteCells)  BY XdpAssumption
  <2> QED  BY <1>2, <2>1 DEF Arrive, SigningInv, CarryInv, verVars
<1>3. ASSUME XdpStep, UNCHANGED <<verVars, wire, sent>>  PROVE SigningInv' /\ CarryInv'
  <2>0. CarryInv'
    BY <1>3 DEF XdpStep, Abort, PassOther, HashHeader, AddOption, AdjustHeadFails, CarryInv,
                verVars
  <2>1. CASE Abort
    BY <1>3, <2>0, <2>1 DEF Abort, SigningInv, XDP_ABORTED, XDP_PASS
  <2>2. CASE PassOther
    BY <1>3, <2>0, <2>2 DEF PassOther, SigningInv, Outcome
  <2>3. CASE HashHeader
    <3>1. /\ frame = orig /\ xpc' = "hashed" /\ frame' = ZeroCheck(orig, NetOff(orig))
          /\ digest' = KeyedMsg(ZeroCheck(orig, NetOff(orig)), NetOff(orig))
          /\ UNCHANGED <<orig, sent>>
      BY <1>3, <2>3 DEF HashHeader, SigningInv
    <3>2. Signable(orig)  BY <2>3, <3>1 DEF HashHeader, Signable, EthLen
    <3>3. frame' = Zeroed(orig) /\ digest' = Message(orig)
      BY <3>1, Zenon DEF Zeroed, Message
    <3> QED  BY <2>0, <3>1, <3>2, <3>3 DEF SigningInv
  <2>4. CASE AddOption
    <3>1. Outcome(orig, frame')
      BY <2>4 DEF AddOption, SigningInv, Outcome, SignedFrom
    <3> QED  BY <1>3, <2>0, <2>4, <3>1 DEF AddOption, SigningInv
  <2>5. CASE AdjustHeadFails
    <3>1. Outcome(orig, frame)  BY <2>5 DEF AdjustHeadFails, SigningInv, Outcome
    <3> QED  BY <1>3, <2>0, <2>5, <3>1 DEF AdjustHeadFails, SigningInv
  <2> QED  BY <1>3, <2>1, <2>2, <2>3, <2>4, <2>5 DEF XdpStep
<1>4. CASE Emit
  <2>1. SigningInv'
    BY <1>4 DEF Emit, Out, SigningInv
  <2>2. CarryInv'
    BY <1>4 DEF Emit, Out, CarryInv, Carried, Delivered, verVars
  <2> QED  BY <2>1, <2>2
<1>5. CASE Lose
  BY <1>5 DEF Lose, SigningInv, CarryInv, xdpVars, verVars
<1>6. ASSUME NEW f \in ForeignFrames, Foreign(f)  PROVE SigningInv' /\ CarryInv'
  <2>1. SigningInv'  BY <1>6 DEF Foreign, SigningInv, xdpVars
  <2>2. CarryInv'  BY <1>6 DEF Foreign, CarryInv, Carried, xdpVars, verVars
  <2> QED  BY <2>1, <2>2
<1>7. ASSUME wire # <<>>, wire = sent, Altered(wire, wire') \/ Routed(wire, wire'),
             UNCHANGED <<xdpVars, verVars, sent>>
      PROVE  SigningInv' /\ CarryInv'
  <2>1. SigningInv'  BY <1>7 DEF SigningInv, xdpVars
  <2>2. Carried(wire', sent')  BY <1>7 DEF Carried, Delivered
  <2>3. CarryInv'  BY <1>7, <2>2 DEF CarryInv, xdpVars, verVars
  <2> QED  BY <2>1, <2>3
<1>8. CASE Route
  BY <1>7, <1>8 DEF Route, Routed
<1>9. ASSUME NEW o \in EthTypeAt..(CopiedHeaders + IP_OPT_HASH_LEN + 1), NEW n \in AlteredBytes,
             Alter(o, n)
      PROVE  SigningInv' /\ CarryInv'
  <2>1. Altered(wire, wire')  BY <1>9 DEF Alter, Altered
  <2> QED  BY <1>7, <1>9, <2>1 DEF Alter
<1>10. CASE Deliver
  <2>1. packet' = wire /\ vpc = "idle" /\ vpc' \in {"scan", "returned"}
        /\ wire # <<>> /\ wire' = <<>> /\ UNCHANGED <<xdpVars, sent>>
    BY <1>10 DEF Deliver, Ignore, Capture
  <2> QED  BY <2>1 DEF SigningInv, CarryInv, xdpVars
<1>11. ASSUME VerStep, UNCHANGED <<xdpVars, wire, sent>>  PROVE SigningInv' /\ CarryInv'
  <2>1. /\ vpc # "idle"
        /\ \/ vpc' = "idle"
           \/ packet' = packet /\ vpc' \in {"scan", "remove", "compare", "returned"}
    BY <1>11 DEF VerStep, ScanEnd, ScanNop, ScanSkip, ScanFound, RemoveEnd, RemoveSkip,
                 RemoveOption, Compare, Return
  <2> QED  BY <1>11, <2>1 DEF SigningInv, CarryInv, xdpVars
<1> QED  BY <1>1, <1>2, <1>3, <1>4, <1>5, <1>6, <1>8, <1>9, <1>10, <1>11 DEF Next

LEMMA SigningHolds == Spec => [](SigningInv /\ CarryInv)
BY SigningInitially, SigningStep, PTL DEF Spec

(* A frame that is passed on without the option (bpf_xdp_adjust_head had   *)
(* no headroom, or it is no IPv4 frame) has at most its checksum zeroed.   *)
THEOREM UnsignedFramesKept == Spec => []UnsignedAlmostUntouched
<1>1. SigningInv => UnsignedAlmostUntouched
  <2> SUFFICES ASSUME SigningInv, xpc = "idle", sent # <<>>, ~Signed
               PROVE  \/ sent = orig
                      \/ sent = ZeroCheck(orig, NetOff(orig)) /\ EthType(orig) = ETH_P_IP
    BY DEF UnsignedAlmostUntouched
  <2>1. orig \in Seq(ByteCells) /\ Outcome(orig, sent)  BY DEF SigningInv
  <2>2. ~SignedFrom(orig, sent)
    <3>1. IP_OPT_HASH_LEN = 36  BY DEF IP_OPT_HASH_LEN
    <3> QED  BY <2>1, <3>1, SignedIffLonger DEF Signed
  <2> QED  BY <2>1, <2>2 DEF Outcome, Zeroed, Signable
<1> QED  BY <1>1, SigningHolds, PTL

(* What was sent and is longer by the option was signed.                   *)
LEMMA SignedNowFrom ==
  SigningInv /\ SignedNow => orig \in Seq(ByteCells) /\ SignedFrom(orig, sent)
<1>1. IP_OPT_HASH_LEN = 36  BY DEF IP_OPT_HASH_LEN
<1> QED  BY <1>1, SignedIffLonger DEF SigningInv, SignedNow, Signed

(* add_ip_option_hash moves the payload of a plain frame as a whole and    *)
(* the new ihl and tot_len find it.                                        *)
THEOREM PayloadSurvives == Spec => []PayloadPreserved
<1>1. SigningInv => PayloadPreserved
  <2> SUFFICES ASSUME SigningInv, SignedNow, PlainFrame(orig)
               PROVE  /\ PayloadOf(sent) = PayloadOf(orig)
                      /\ (U16(sent, EthLen + TotLenAt) - 4 * Ihl(sent, EthLen)) % 65536
                           = (U16(orig, EthLen + TotLenAt) - 4 * Ihl(orig, EthLen)) % 65536
    BY DEF PayloadPreserved
  <2>1. orig \in Seq(ByteCells) /\ SignedFrom(orig, sent)  BY SignedNowFrom
  <2> QED  BY <2>1, SignedPayload
<1> QED  BY <1>1, SigningHolds, PTL

(* The checksum add_ip_option_hash writes is the one of the header it      *)
(* leaves behind, the option included.                                     *)
THEOREM ChecksumOfTheNewHeader == Spec => []ChecksumFresh
<1>1. SigningInv => ChecksumFresh
  BY SignedNowFrom, SignedSummed, Zenon DEF ChecksumFresh
<1> QED  BY <1>1, SigningHolds, PTL

(* The copy of "the original headers" keeps the headers of plain frames,   *)
(* and of no others.                                                       *)
THEOREM OnlyPlainHeadersKept == Spec => []HeadersKeptIffPlain
<1>1. SigningInv => HeadersKeptIffPlain
  BY SignedNowFrom, SignedHeaders, Zenon DEF HeadersKeptIffPlain
<1> QED  BY <1>1, SigningHolds, PTL

-----------------------------------------------------------------------------
(* The verifier.                                                           *)
LEMMA ForeignShape ==
  ASSUME NEW f \in ForeignFrames
  PROVE  Shape(f)
<1>1. /\ IsFrame(f) /\ CopiedHeaders <= Len(f) /\ ByteValued(f)
      /\ \A o \in 0..(CopiedHeaders - 1) : At(f, o) \in ByteCells
  BY PathAssumption
<1>2. CopiedHeaders = 34  BY DEF CopiedHeaders, EthLen, IpLen
<1>3. Len(f) \in Nat  BY <1>1 DEF IsFrame
<1>4. ASSUME NEW k \in Nat, k < Len(f), IsLit(At(f, k))  PROVE At(f, k) \in ByteCells
  <2>1. k \in 0..(Len(f) - 1)  BY <1>3, <1>4
  <2> QED  BY <1>1, <1>4, <2>1 DEF ByteValued
<1>5. ASSUME NEW k \in Nat, k < 34  PROVE At(f, k) \in ByteCells
  <2>1. k \in 0..(CopiedHeaders - 1)  BY <1>2, <1>5
  <2> QED  BY <1>1, <2>1
<1> QED  BY <1>1, <1>3, <1>4, <1>5 DEF Shape

(* What the verifier captures has the shape.                               *)
LEMMA PacketShape == SigningInv /\ CarryInv /\ vpc # "idle" => Shape(packet)
<1> SUFFICES ASSUME SigningInv, CarryInv, vpc # "idle"  PROVE Shape(packet)
  OBVIOUS
<1>1. Carried(packet, sent)  BY DEF CarryInv
<1>2. CASE sent = <<>>  BY <1>1, <1>2, ForeignShape DEF Carried
<1>3. CASE sent # <<>>
  <2>1. xpc = "idle"  BY <1>3 DEF CarryInv
  <2>2. orig \in Seq(ByteCells) /\ Outcome(orig, sent)  BY <1>3, <2>1 DEF SigningInv
  <2>3. Near(sent, packet)  BY <1>1, <1>3, <2>2, OutcomeShape, DeliveredNear DEF Carried
  <2> QED  BY <2>3 DEF Near
<1> QED  BY <1>2, <1>3

(* A header length is four bits wide.                                      *)
LEMMA IhlOf ==
  ASSUME NEW w, Shape(w), HoldsHeader(w)
  PROVE  /\ 34 <= Len(w) /\ Len(w) \in Nat
         /\ Ihl(w, 14) \in Nat /\ Ihl(w, 14) <= 15 /\ 14 + 4 * Ihl(w, 14) <= Len(w)
<1>1. Len(w) \in Nat /\ 34 <= Len(w) /\ 14 + 4 * Ihl(w, 14) <= Len(w)
  BY DEF HoldsHeader, Shape, EthLen, IpLen
<1>2. At(w, 14) \in ByteCells  BY <1>1 DEF Shape
<1>3. Val(w, 14) \in Nat  BY <1>2, ValOf
<1>4. Ihl(w, 14) \in Nat /\ Ihl(w, 14) <= 15  BY <1>3 DEF Ihl
<1> QED  BY <1>1, <1>4

(* What a walk reads: bytes inside the header, nothing beyond it.          *)
LEMMA HeaderAt ==
  ASSUME Shape(packet), HoldsHeader(packet)
  PROVE  /\ IsFrame(IpHeader) /\ Len(IpHeader) = HeaderLen /\ HeaderLen \in Nat
         /\ HeaderLen <= 60 /\ 14 + HeaderLen <= Len(packet) /\ HeaderLen = 4 * Ihl(packet, 14)
         /\ \A k \in Nat : k < HeaderLen => At(IpHeader, k) = At(packet, 14 + k)
<1> DEFINE n == HeaderLen
<1>1. n = 4 * Ihl(packet, 14)  BY DEF HeaderLen, EthLen
<1>2. n \in Nat /\ n <= 60 /\ 14 + n <= Len(packet)  BY <1>1, IhlOf
<1>3. IpHeader = Bytes(packet, 14, n)  BY DEF IpHeader, EthLen
<1> HIDE DEF n
<1>4. IsFrame(packet) /\ 14 \in Nat  BY DEF Shape
<1>5. /\ IsFrame(Bytes(packet, 14, n)) /\ Len(Bytes(packet, 14, n)) = n
      /\ \A k \in Nat : k < n => At(Bytes(packet, 14, n), k) = At(packet, 14 + k)
  BY <1>2, <1>4, BytesAt, Zenon
<1> QED  BY <1>1, <1>2, <1>3, <1>5 DEF n

(* A walk reads a byte, and the one that is there if that is known.        *)
LEMMA CellRead ==
  ASSUME NEW c, IsLit(c) => c \in ByteCells, NEW t \in Reading(c)
  PROVE  t \in Byte /\ (IsLit(c) => c = Lit(t))
<1>1. CASE IsLit(c)
  <2>1. PICK n \in Byte : c = Lit(n)  BY <1>1 DEF ByteCells
  <2>2. t = c[1]  BY <1>1 DEF Reading
  <2> QED  BY <2>1, <2>2 DEF Lit
<1>2. CASE ~IsLit(c)
  <2>1. t \in AnyByte  BY <1>2 DEF Reading
  <2> QED  BY <1>2, <2>1, VerifierAssumption
<1> QED  BY <1>1, <1>2

LEMMA ScanRead ==
  ASSUME Shape(packet), HoldsHeader(packet), NEW p \in Nat, NEW t \in Field(IpHeader, p)
  PROVE  /\ p < HeaderLen =>
              t \in Byte /\ (IsLit(At(packet, 14 + p)) => At(packet, 14 + p) = Lit(t))
         /\ ~(p < HeaderLen) => t = None
<1>1. CASE p < HeaderLen
  <2>1. t \in Reading(At(packet, 14 + p))  BY <1>1, HeaderAt DEF Field
  <2>2. 14 + p \in Nat /\ 14 + p < Len(packet)
    <3>1. HeaderLen \in Nat /\ 14 + HeaderLen <= Len(packet)  BY HeaderAt
    <3>2. Len(packet) \in Nat  BY DEF Shape
    <3> QED  BY <1>1, <3>1, <3>2
  <2>3. IsLit(At(packet, 14 + p)) => At(packet, 14 + p) \in ByteCells  BY <2>2 DEF Shape
  <2> QED  BY <1>1, <2>1, <2>3, CellRead
<1>2. CASE ~(p < HeaderLen)  BY <1>2 DEF Field
<1> QED  BY <1>1, <1>2

(* Where the verifier is.                                                  *)
Inside(r) == r \in Nat /\ 24 <= r /\ r + 32 <= HeaderLen
VerifierInv ==
  /\ vpc # "idle" /\ U16(packet, 12) = 2048 => HoldsHeader(packet)
  /\ vpc \in {"scan", "remove", "compare"} => U16(packet, 12) = 2048
  /\ vpc = "scan" => pos \in Nat /\ 20 <= pos /\ received = None
  /\ vpc = "idle" => received = None
  /\ received # None => Inside(received) /\ U16(packet, 12) = 2048

LEMMA VerifierInitially == Init => VerifierInv
BY DEF Init, VerInit, VerifierInv

(* No option list moves a walk out of the header.                          *)
LEMMA VerifierStep ==
  SigningInv /\ CarryInv /\ VerifierInv /\ [Next]_vars => VerifierInv'
<1> SUFFICES ASSUME SigningInv, CarryInv, VerifierInv, [Next]_vars  PROVE VerifierInv'
  OBVIOUS
<1>0. ASSUME UNCHANGED verVars  PROVE VerifierInv'
  BY <1>0 DEF VerifierInv, verVars, Inside, HeaderLen
<1>1. CASE UNCHANGED vars  BY <1>0, <1>1 DEF vars
<1>2. ASSUME NEW f \in InFrames, Arrive(f), UNCHANGED <<verVars, wire, sent>>
      PROVE  VerifierInv'
  BY <1>0, <1>2
<1>3. ASSUME XdpStep, UNCHANGED <<verVars, wire, sent>>  PROVE VerifierInv'
  BY <1>0, <1>3
<1>4. CASE Emit  BY <1>0, <1>4 DEF Emit
<1>5. CASE Lose  BY <1>0, <1>5 DEF Lose
<1>6. ASSUME NEW f \in ForeignFrames, Foreign(f)  PROVE VerifierInv'
  BY <1>0, <1>6 DEF Foreign
<1>7. CASE Route  BY <1>0, <1>7 DEF Route
<1>8. ASSUME NEW o, NEW n, Alter(o, n)  PROVE VerifierInv'
  BY <1>0, <1>8 DEF Alter
<1>9. CASE Deliver
  <2>1. /\ vpc = "idle" /\ packet' = wire /\ received' = received
        /\ U16(wire, 12) = 2048 => HoldsHeader(wire)
        /\ \/ vpc' = "returned"
           \/ vpc' = "scan" /\ U16(wire, 12) = 2048 /\ pos' = 20
    BY <1>9 DEF Deliver, Ignore, Capture, EthTypeAt, ETH_P_IP, IpLen
  <2>2. received' = None  BY <2>1 DEF VerifierInv
  <2> QED  BY <2>1, <2>2 DEF VerifierInv
<1>10. ASSUME VerStep  PROVE VerifierInv'
  <2>1. CASE Return
    <3>1. vpc' = "idle" /\ received' = None  BY <2>1 DEF Return
    <3> QED  BY <3>1 DEF VerifierInv
  <2>2. CASE Compare
    <3>1. vpc = "compare" /\ vpc' = "returned" /\ UNCHANGED <<packet, pos, received>>
      BY <2>2 DEF Compare
    <3> QED  BY <3>1 DEF VerifierInv, Inside, HeaderLen
  <2>3. ASSUME vpc = "remove",
               NEW t \in Field(header, pos), NEW len \in Field(header, pos + 1),
               RemoveEnd(t, len) \/ RemoveSkip(t, len) \/ RemoveOption(t, len)
        PROVE  VerifierInv'
    <3>1. vpc' \in {"remove", "compare"} /\ UNCHANGED <<packet, received>>
      BY <2>3 DEF RemoveEnd, RemoveSkip, RemoveOption
    <3> QED  BY <2>3, <3>1 DEF VerifierInv, Inside, HeaderLen
  <2>4. ASSUME vpc = "scan",
               NEW t \in Field(IpHeader, pos), NEW len \in Field(IpHeader, pos + 1),
               ScanEnd(t, len) \/ ScanNop(t) \/ ScanSkip(t, len) \/ ScanFound(t, len)
        PROVE  VerifierInv'
    <3>1. /\ pos \in Nat /\ 20 <= pos /\ received = None /\ U16(packet, 12) = 2048
          /\ HoldsHeader(packet)
      BY <2>4 DEF VerifierInv
    <3>2. Shape(packet)  BY <2>4, PacketShape
    <3>3. CASE ScanEnd(t, len)
      BY <2>4, <3>1, <3>3 DEF ScanEnd, VerifierInv
    <3>4. CASE ScanNop(t)
      BY <2>4, <3>1, <3>4 DEF ScanNop, VerifierInv
    <3>5. CASE ScanSkip(t, len)
      <4>1. pos + 1 \in Nat  BY <3>1
      <4>2. len \in Byte \/ len = None  BY <3>1, <3>2, <4>1, ScanRead
      <4>3. len \in Nat  BY <3>5, <4>2, ByteLit DEF ScanSkip
      <4>4. OptStep(len) \in Nat  BY <4>3 DEF OptStep
      <4> QED  BY <2>4, <3>1, <3>5, <4>4 DEF ScanSkip, VerifierInv
    <3>6. CASE ScanFound(t, len)
      <4>1. pos + 36 <= HeaderLen  BY <3>6 DEF ScanFound, IsHashOption, IP_OPT_HASH_LEN
      <4>2. HeaderLen \in Nat  BY <3>1, <3>2, HeaderAt
      <4>3. received' = pos + 4 /\ packet' = packet /\ vpc' = "remove"
        BY <3>6 DEF ScanFound
      <4>4. HeaderLen' = HeaderLen  BY <4>3 DEF HeaderLen
      <4>5. Inside(received)'
        <5>1. pos + 4 \in Nat /\ 24 <= pos + 4 /\ pos + 4 + 32 <= HeaderLen
          BY <3>1, <4>1, <4>2
        <5> QED  BY <4>3, <4>4, <5>1 DEF Inside
      <4> QED  BY <3>1, <4>3, <4>5 DEF VerifierInv
    <3> QED  BY <2>4, <3>3, <3>4, <3>5, <3>6
  <2> QED  BY <1>10, <2>1, <2>2, <2>3, <2>4 DEF VerStep
<1> QED  BY <1>1, <1>2, <1>3, <1>4, <1>5, <1>6, <1>7, <1>8, <1>9, <1>10 DEF Next

LEMMA VerifierHolds == Spec => [](SigningInv /\ CarryInv /\ VerifierInv)
BY SigningInitially, SigningStep, VerifierInitially, VerifierStep, PTL DEF Spec

(* packet_handler takes a hash only from inside the header of the captured *)
(* packet, whatever its option list; the new ihl does not wrap.            *)
THEOREM HashTakenFromHeader == Spec => []HashInsideHeader
<1>1. SigningInv /\ CarryInv /\ VerifierInv => HashInsideHeader
  <2> SUFFICES ASSUME SigningInv, CarryInv, VerifierInv, received # None
               PROVE  /\ IpLen + 4 <= received /\ received + HashBytes <= HeaderLen
                      /\ NewIhl \in 5..6
    BY DEF HashInsideHeader
  <2>1. /\ received \in Nat /\ 24 <= received /\ received + 32 <= HeaderLen /\ vpc # "idle"
        /\ HoldsHeader(packet)
    BY DEF VerifierInv, Inside
  <2>2. Shape(packet)  BY <2>1, PacketShape
  <2>3. Ihl(packet, 14) \in Nat /\ HeaderLen = 4 * Ihl(packet, 14) /\ HeaderLen <= 60
    BY <2>1, <2>2, HeaderAt, IhlOf
  <2>4. Ihl(packet, 14) \in {14, 15}  BY <2>1, <2>3
  <2>5. NewIhl = (Ihl(packet, 14) - 9) % 256
    <3>1. 36 \div 4 = 9  OBVIOUS
    <3> QED  BY <3>1 DEF NewIhl, EthLen, IP_OPT_HASH_LEN
  <2>6. NewIhl \in 5..6  BY <2>4, <2>5
  <2> QED  BY <2>1, <2>6 DEF IpLen, HashBytes
<1> QED  BY <1>1, VerifierHolds, PTL

-----------------------------------------------------------------------------
(* What the verifier hashes when the option is where the program put it.   *)
OptionThere(w) == At(w, 34) = Lit(25) /\ At(w, 35) = Lit(36) /\ 56 <= 4 * Ihl(w, 14)

IsAdjusted(g, h) ==
  /\ IsFrame(g) /\ Len(g) = Len(h)
  /\ \A k \in Nat : k < Len(h) /\ k \notin {0, 2, 3, 10, 11} => At(g, k) = At(h, k)
  /\ At(g, 0) = Lit(16 * (Val(h, 0) \div 16) + (NewIhl % 16))
  /\ At(g, 2) = Lit(((U16(h, 2) + 65536 - 36) % 65536) \div 256)
  /\ At(g, 3) = Lit(((U16(h, 2) + 65536 - 36) % 65536) % 256)
  /\ At(g, 10) = Lit(0) /\ At(g, 11) = Lit(0)

(* What AdjustFields and ShiftOver leave.                                  *)
LEMMA AdjustedAt ==
  ASSUME NEW h, IsFrame(h), 20 <= Len(h)
  PROVE  IsAdjusted(AdjustFields(h), h)
<1>0. Len(h) \in Nat  BY DEF IsFrame
<1> DEFINE c == <<Lit(16 * (Val(h, 0) \div 16) + (NewIhl % 16))>>
           d == U16Cells(U16(h, 2) + 65536 - 36)
           e == <<Lit(0), Lit(0)>>
           x == Put(h, 0, c)
           y == Put(x, 2, d)
           g == Put(y, 10, e)
<1>1. /\ Len(c) = 1 /\ At(c, 0) = Lit(16 * (Val(h, 0) \div 16) + (NewIhl % 16))
      /\ Len(d) = 2 /\ At(d, 0) = Lit(((U16(h, 2) + 65536 - 36) % 65536) \div 256)
      /\ At(d, 1) = Lit(((U16(h, 2) + 65536 - 36) % 65536) % 256)
      /\ Len(e) = 2 /\ At(e, 0) = Lit(0) /\ At(e, 1) = Lit(0)
  BY Cells DEF U16Cells
<1>2. AdjustFields(h) = g
  BY DEF AdjustFields, TotLenAt, CheckAt, IP_OPT_HASH_LEN
<1> HIDE DEF c, d, e
<1>3. /\ IsFrame(x) /\ Len(x) = Len(h)
      /\ \A k \in Nat : k < Len(h) =>
           At(x, k) = IF 0 <= k /\ k < 0 + Len(c) THEN At(c, k - 0) ELSE At(h, k)
  <2>1. 0 \in Nat /\ Len(c) \in Nat  BY <1>1
  <2> QED  BY <2>1, PutAt, Zenon
<1> HIDE DEF x
<1>4. /\ IsFrame(y) /\ Len(y) = Len(x)
      /\ \A k \in Nat : k < Len(x) =>
           At(y, k) = IF 2 <= k /\ k < 2 + Len(d) THEN At(d, k - 2) ELSE At(x, k)
  <2>1. 2 \in Nat /\ Len(d) \in Nat  BY <1>1
  <2> QED  BY <1>3, <2>1, PutAt, Zenon
<1> HIDE DEF y
<1>5. /\ IsFrame(g) /\ Len(g) = Len(y)
      /\ \A k \in Nat : k < Len(y) =>
           At(g, k) = IF 10 <= k /\ k < 10 + Len(e) THEN At(e, k - 10) ELSE At(y, k)
  <2>1. 10 \in Nat /\ Len(e) \in Nat  BY <1>1
  <2> QED  BY <1>4, <2>1, PutAt, Zenon
<1> HIDE DEF g
<1>6. ASSUME NEW k \in Nat, k < Len(h), k \notin {0, 2, 3, 10, 11}
      PROVE At(g, k) = At(h, k)
  <2>1. At(g, k) = At(y, k)  BY <1>0, <1>1, <1>3, <1>4, <1>5, <1>6
  <2>2. At(y, k) = At(x, k)  BY <1>0, <1>1, <1>3, <1>4, <1>6
  <2>3. At(x, k) = At(h, k)  BY <1>0, <1>1, <1>3, <1>6
  <2> QED  BY <2>1, <2>2, <2>3
<1>7. 0 - 0 = 0 /\ 2 - 2 = 0 /\ 3 - 2 = 1 /\ 10 - 10 = 0 /\ 11 - 10 = 1  OBVIOUS
<1>8. At(g, 0) = At(c, 0 - 0)
  <2>1. At(g, 0) = At(x, 0)  BY <1>0, <1>1, <1>3, <1>4, <1>5
  <2>2. At(x, 0) = At(c, 0 - 0)  BY <1>0, <1>1, <1>3
  <2> QED  BY <2>1, <2>2
<1>9. At(g, 2) = At(d, 2 - 2) /\ At(g, 3) = At(d, 3 - 2)
  <2>1. At(g, 2) = At(y, 2) /\ At(g, 3) = At(y, 3)  BY <1>0, <1>1, <1>3, <1>4, <1>5
  <2>2. At(y, 2) = At(d, 2 - 2) /\ At(y, 3) = At(d, 3 - 2)  BY <1>0, <1>1, <1>3, <1>4
  <2> QED  BY <2>1, <2>2
<1>10. At(g, 10) = At(e, 10 - 10) /\ At(g, 11) = At(e, 11 - 10)
  BY <1>0, <1>1, <1>3, <1>4, <1>5
<1>11. /\ At(g, 0) = At(c, 0) /\ At(g, 2) = At(d, 0) /\ At(g, 3) = At(d, 1)
       /\ At(g, 10) = At(e, 0) /\ At(g, 11) = At(e, 1)
  BY <1>7, <1>8, <1>9, <1>10
<1> QED  BY <1>1, <1>2, <1>3, <1>4, <1>5, <1>6, <1>11 DEF IsAdjusted

LEMMA ShiftedAt ==
  ASSUME NEW h, IsFrame(h)
  PROVE  /\ IsFrame(ShiftOver(h, 20)) /\ Len(ShiftOver(h, 20)) = Len(h)
         /\ \A k \in Nat : k < Len(h) /\ k < 20 => At(ShiftOver(h, 20), k) = At(h, k)
<1> DEFINE g == ShiftOver(h, 20)
<1>1. Len(h) \in Nat  BY DEF IsFrame
<1>2. g = [k \in 1..Len(h) |-> g[k]]  BY DEF ShiftOver
<1>3. \A k \in 1..Len(h) : k <= 20 => g[k] = h[k]  BY DEF ShiftOver
<1> HIDE DEF g
<1>4. IsFrame(g) /\ Len(g) = Len(h)  BY <1>1, <1>2, FunIsFrame
<1>5. ASSUME NEW k \in Nat, k < Len(h), k < 20  PROVE At(g, k) = At(h, k)
  <2>1. k + 1 \in 1..Len(h) /\ k + 1 <= 20  BY <1>1, <1>5
  <2> QED  BY <1>3, <2>1 DEF At
<1> QED  BY <1>4, <1>5 DEF g

(* Both keys are 16 bytes long.                                            *)
LEMMA KeysAre ==
  /\ IsFrame(VERIFIER_KEY) /\ Len(VERIFIER_KEY) = 16
  /\ IsFrame(KeyCells) /\ Len(KeyCells) = 16
<1>1. VERIFIER_KEY = [k \in 1..16 |-> VERIFIER_KEY[k]]  BY VerifierAssumption, Zenon
<1>2. KeyCells = [k \in 1..16 |-> KeyCells[k]]  BY Zenon DEF KeyCells
<1>3. 16 \in Nat  OBVIOUS
<1> QED  BY <1>1, <1>2, <1>3, FunIsFrame, Zenon

(* The message the program hashes: key, and 20 bytes of the header.        *)
IsMessage(m, f) ==
  /\ IsFrame(m) /\ Len(m) = 36
  /\ \A k \in Nat : k < 16 => At(m, k) = At(KeyCells, k)
  /\ \A k \in Nat : k < 20 => At(m, 16 + k) = At(Zeroed(f), NetOff(f) + k)

IsKeyed(m, key, g, o, n) ==
  /\ IsFrame(m) /\ Len(m) = 16 + n
  /\ \A k \in Nat : k < 16 => At(m, k) = At(key, k)
  /\ \A k \in Nat : k < n => At(m, 16 + k) = At(g, o + k)

(* A key followed by part of a frame.                                      *)
LEMMA KeyAndBytes ==
  ASSUME NEW key, IsFrame(key), Len(key) = 16,
         NEW g, IsFrame(g), NEW o \in Nat, NEW n \in Nat, o + n <= Len(g)
  PROVE  IsKeyed(key \o Bytes(g, o, n), key, g, o, n)
<1> DEFINE b == Bytes(g, o, n)
           m == key \o b
<1>1. /\ IsFrame(b) /\ Len(b) = n
      /\ \A k \in Nat : k < n => At(b, k) = At(g, o + k)
  BY BytesAt, Zenon
<1> HIDE DEF b
<1>2. /\ IsFrame(m) /\ Len(m) = Len(key) + Len(b)
      /\ \A k \in Nat : k < Len(key) + Len(b) =>
           At(m, k) = IF k < Len(key) THEN At(key, k) ELSE At(b, k - Len(key))
  BY <1>1, ConcatAt, Zenon
<1> HIDE DEF m
<1>3. \A k \in Nat : k < 16 => At(m, k) = At(key, k)  BY <1>1, <1>2
<1>4. ASSUME NEW k \in Nat, k < n  PROVE At(m, 16 + k) = At(g, o + k)
  <2>1. 16 + k \in Nat /\ 16 + k < 16 + n /\ ~(16 + k < 16) /\ (16 + k) - 16 = k  BY <1>4
  <2>2. At(m, 16 + k) = At(b, (16 + k) - 16)  BY <1>1, <1>2, <2>1
  <2> QED  BY <1>1, <1>4, <2>1, <2>2
<1>5. IsKeyed(m, key, g, o, n)  BY <1>1, <1>2, <1>3, <1>4 DEF IsKeyed
<1> QED  BY <1>5 DEF m, b

(* The program always hashes 20 bytes, however long the header is.         *)
LEMMA MessageAt ==
  ASSUME NEW f \in Seq(ByteCells), Signable(f)
  PROVE  IsMessage(Message(f), f)
<1> DEFINE z == Zeroed(f)
           ip == NetOff(f)
           n == IF 4 * Ihl(z, ip) > 20 THEN 20 ELSE 4 * Ihl(z, ip)
<1>1. /\ IsFrame(z) /\ Len(z) = Len(f) /\ Len(f) \in Nat
      /\ ip + 20 <= Len(f) /\ ip \in {14, 18, 22}
      /\ \A k \in Nat : k < Len(f) /\ k \notin {ip + 10, ip + 11} => At(z, k) = At(f, k)
      /\ \A k \in Nat : k < Len(f) => At(z, k) \in ByteCells
  BY ZeroedAt, NetOffOf
<1>2. 4 * Ihl(f, ip) >= 20  BY DEF Signable, IpHeaderOk, IpLen
<1>3. Message(f) = KeyCells \o Bytes(z, ip, n)  BY DEF Message, KeyedMsg
<1> HIDE DEF z, ip
<1>4. At(z, ip) = At(f, ip)  BY <1>1
<1>5. Ihl(z, ip) = Ihl(f, ip)  BY <1>4, Zenon DEF Ihl, Val
<1>6. At(z, ip) \in ByteCells  BY <1>1
<1>7. Val(z, ip) \in Nat  BY <1>6, ValOf
<1>8. Ihl(z, ip) \in Nat  BY <1>7 DEF Ihl
<1>9. n = 20  BY <1>2, <1>5, <1>8
<1> HIDE DEF n
<1>10. ip \in Nat /\ 20 \in Nat /\ ip + 20 <= Len(z)  BY <1>1
<1> DEFINE m == KeyCells \o Bytes(z, ip, 20)
<1>11. IsKeyed(m, KeyCells, z, ip, 20)
  <2>1. IsFrame(z)  BY <1>1
  <2> QED  BY <1>10, <2>1, KeysAre, KeyAndBytes
<1>12. Message(f) = m  BY <1>3, <1>9
<1> HIDE DEF m
<1>13. IsMessage(m, f)  BY <1>11 DEF IsMessage, IsKeyed, z, ip
<1> QED  BY <1>12, <1>13

(* The message the verifier hashes.                                        *)
Cut == ShiftOver(AdjustFields(IpHeader), 20)
Rebuilt == VERIFIER_KEY \o Bytes(Cut, 0, TrueHeaderSize)
IsRebuilt(m, w) ==
  /\ IsFrame(m) /\ Len(m) = 16 + 4 * (Ihl(w, 14) - 9)
  /\ \A k \in Nat : k < 16 => At(m, k) = At(VERIFIER_KEY, k)
  /\ \A k \in Nat : k < 20 /\ k \notin {0, 2, 3, 10, 11} => At(m, 16 + k) = At(w, 14 + k)
  /\ At(m, 16) = Lit(16 * (Val(w, 14) \div 16) + (Ihl(w, 14) - 9))
  /\ At(m, 18) = Lit(((U16(w, 16) + 65536 - 36) % 65536) \div 256)
  /\ At(m, 19) = Lit(((U16(w, 16) + 65536 - 36) % 65536) % 256)
  /\ At(m, 26) = Lit(0) /\ At(m, 27) = Lit(0)

(* The verifier hashes the key and 20 or 24 bytes.                         *)
LEMMA RebuiltAt ==
  ASSUME Shape(packet), HoldsHeader(packet), OptionThere(packet)
  PROVE  IsRebuilt(Rebuilt, packet)
<1> DEFINE i == Ihl(packet, 14)
           h == IpHeader
           g == AdjustFields(h)
<1>1. /\ IsFrame(h) /\ Len(h) = HeaderLen /\ HeaderLen = 4 * i
      /\ \A k \in Nat : k < HeaderLen => At(h, k) = At(packet, 14 + k)
  BY HeaderAt
<1>2. i \in {14, 15}
  <2>1. i \in Nat /\ i <= 15 /\ 56 <= 4 * i  BY IhlOf DEF OptionThere
  <2> HIDE DEF i
  <2> QED  BY <2>1
<1>3. NewIhl = i - 9
  <2>1. 36 \div 4 = 9  OBVIOUS
  <2>2. NewIhl = (i - 9) % 256  BY <2>1 DEF NewIhl, EthLen, IP_OPT_HASH_LEN
  <2> HIDE DEF i
  <2> QED  BY <1>2, <2>2
<1>4. TrueHeaderSize = 4 * (i - 9)  BY <1>3 DEF TrueHeaderSize
<1> HIDE DEF h
<1>5. 20 <= Len(h)
  <2> HIDE DEF i
  <2> QED  BY <1>1, <1>2
<1>6. IsAdjusted(g, h)  BY <1>1, <1>5, AdjustedAt
<1>7. Cut = ShiftOver(g, 20)  BY DEF Cut, h
<1> HIDE DEF g
<1>8. /\ IsFrame(Cut) /\ Len(Cut) = Len(g)
      /\ \A k \in Nat : k < Len(g) /\ k < 20 => At(Cut, k) = At(g, k)
  <2>1. IsFrame(g)  BY <1>6 DEF IsAdjusted
  <2> QED  BY <1>7, <2>1, ShiftedAt
<1>9. Len(g) = 4 * i  BY <1>1, <1>6 DEF IsAdjusted
<1> DEFINE n == TrueHeaderSize
<1>10. 0 \in Nat /\ n \in Nat /\ 0 + n <= Len(Cut) /\ 20 <= n
  <2> HIDE DEF i
  <2> QED  BY <1>2, <1>4, <1>8, <1>9
<1> HIDE DEF n
<1> DEFINE m == VERIFIER_KEY \o Bytes(Cut, 0, n)
<1>11. IsKeyed(m, VERIFIER_KEY, Cut, 0, n)
  <2>1. IsFrame(Cut)  BY <1>8
  <2> QED  BY <1>10, <2>1, KeysAre, KeyAndBytes
<1>12. Rebuilt = m  BY DEF Rebuilt, n
<1> HIDE DEF m
<1>13. ASSUME NEW k \in Nat, k < 20  PROVE At(m, 16 + k) = At(g, k)
  <2>1. 0 + k = k /\ k < n  BY <1>10, <1>13
  <2>2. k < Len(g)
    <3> HIDE DEF i
    <3> QED  BY <1>2, <1>9, <1>13
  <2> QED  BY <1>8, <1>11, <1>13, <2>1, <2>2 DEF IsKeyed
<1>14. ASSUME NEW k \in Nat, k < 20, k \notin {0, 2, 3, 10, 11}
       PROVE  At(m, 16 + k) = At(packet, 14 + k)
  <2>1. k < Len(h)  BY <1>5, <1>14, <1>1 DEF IsFrame
  <2>2. At(g, k) = At(h, k)  BY <1>6, <1>14, <2>1 DEF IsAdjusted
  <2> QED  BY <1>1, <1>13, <1>14, <2>1, <2>2
<1>15. 16 + 0 = 16 /\ 16 + 2 = 18 /\ 16 + 3 = 19 /\ 16 + 10 = 26 /\ 16 + 11 = 27  OBVIOUS
<1>16. /\ At(m, 16 + 0) = At(g, 0) /\ At(m, 16 + 2) = At(g, 2) /\ At(m, 16 + 3) = At(g, 3)
       /\ At(m, 16 + 10) = At(g, 10) /\ At(m, 16 + 11) = At(g, 11)
  BY <1>13
<1>17. /\ At(h, 0) = At(packet, 14) /\ At(h, 2) = At(packet, 16) /\ At(h, 3) = At(packet, 17)
  <2>1. 14 + 0 = 14 /\ 14 + 2 = 16 /\ 14 + 3 = 17  OBVIOUS
  <2>2. /\ At(h, 0) = At(packet, 14 + 0) /\ At(h, 2) = At(packet, 14 + 2)
        /\ At(h, 3) = At(packet, 14 + 3)
    BY <1>1, <1>5
  <2> QED  BY <2>1, <2>2
<1>18. Val(h, 0) = Val(packet, 14) /\ U16(h, 2) = U16(packet, 16)
  <2>1. 2 + 1 = 3 /\ 16 + 1 = 17  OBVIOUS
  <2> QED  BY <1>17, <2>1, Zenon DEF U16, Val
<1>19. NewIhl % 16 = i - 9
  <2> HIDE DEF i
  <2> QED  BY <1>2, <1>3
<1>20. /\ At(g, 0) = Lit(16 * (Val(packet, 14) \div 16) + (i - 9))
       /\ At(g, 2) = Lit(((U16(packet, 16) + 65536 - 36) % 65536) \div 256)
       /\ At(g, 3) = Lit(((U16(packet, 16) + 65536 - 36) % 65536) % 256)
       /\ At(g, 10) = Lit(0) /\ At(g, 11) = Lit(0)
  BY <1>6, <1>18, <1>19 DEF IsAdjusted
<1>21. Len(m) = 16 + 4 * (i - 9)  BY <1>4, <1>11 DEF n, IsKeyed
<1> QED  BY <1>11, <1>12, <1>14, <1>15, <1>16, <1>20, <1>21 DEF IsRebuilt, IsKeyed

-----------------------------------------------------------------------------
(* When the two messages are one.                                          *)
LEMMA FieldIs ==
  ASSUME NEW w, NEW o, At(w, o) \in ByteCells, At(w, o + 1) \in ByteCells,
         NEW n \in Nat, n <= 65535
  PROVE  U16(w, o) = n <=> At(w, o) = Lit(n \div 256) /\ At(w, o + 1) = Lit(n % 256)
<1> DEFINE a == Val(w, o)
           b == Val(w, o + 1)
<1>1. a \in Nat /\ a <= 255 /\ At(w, o) = Lit(a)  BY ValOf
<1>2. b \in Nat /\ b <= 255 /\ At(w, o + 1) = Lit(b)  BY ValOf
<1>3. U16(w, o) = 256 * a + b  BY DEF U16
<1> HIDE DEF a, b
<1>4. 256 * a + b = n <=> a = n \div 256 /\ b = n % 256  BY <1>1, <1>2
<1> DEFINE c == n \div 256
           d == n % 256
<1> HIDE DEF c, d
<1>5. At(w, o) = Lit(c) <=> a = c
  <2>1. At(w, o) = Lit(a)  BY <1>1
  <2>2. Lit(a) = Lit(c) <=> a = c  BY Kinds
  <2> QED  BY <2>1, <2>2
<1>6. At(w, o + 1) = Lit(d) <=> b = d
  <2>1. At(w, o + 1) = Lit(b)  BY <1>2
  <2>2. Lit(b) = Lit(d) <=> b = d  BY Kinds
  <2> QED  BY <2>1, <2>2
<1> QED  BY <1>3, <1>4, <1>5, <1>6 DEF c, d

(* Subtracting the option from the length undoes adding it, modulo 2^16.   *)
LEMMA LengthBack ==
  ASSUME NEW u \in Nat, u <= 65535, NEW v \in Nat, v <= 65535
  PROVE  v = (u + 65536 - 36) % 65536 <=> u = (v + 36) % 65536
OBVIOUS

(* Restoring ihl gives 5 back, and 5 only.                                 *)
LEMMA NibbleBack ==
  ASSUME NEW a \in Nat, a % 16 = 14, NEW b \in Nat
  PROVE  16 * (a \div 16) + 5 = b <=> b % 16 = 5 /\ a = 16 * (b \div 16) + 14
<1> DEFINE p == a \div 16
           q == b \div 16
           r == b % 16
<1>1. p \in Nat /\ a = 16 * p + 14  OBVIOUS
<1>2. q \in Nat /\ r \in Nat /\ r < 16 /\ b = 16 * q + r  OBVIOUS
<1> HIDE DEF p, q, r
<1>3. 16 * p + 5 = b <=> r = 5 /\ a = 16 * q + 14  BY <1>1, <1>2
<1> QED  BY <1>3 DEF p, q, r

HeaderSame(w, s) ==
  \A k \in Nat : 14 <= k /\ k < 34 /\ k \notin {24, 25} => At(w, k) = At(s, k)

(* Keys are equal when their bytes are.                                    *)
LEMMA KeySame ==
  SameKey <=> \A k \in Nat : k < 16 => At(VERIFIER_KEY, k) = At(KeyCells, k)
<1>1. SameKey => \A k \in Nat : k < 16 => At(VERIFIER_KEY, k) = At(KeyCells, k)
  BY DEF SameKey
<1>2. ASSUME \A k \in Nat : k < 16 => At(VERIFIER_KEY, k) = At(KeyCells, k)  PROVE SameKey
  <2>1. VERIFIER_KEY = KeyCells  BY <1>2, KeysAre, SameFrame
  <2> QED  BY <2>1 DEF SameKey
<1> QED  BY <1>1, <1>2

(* Both hash the same exactly when key and header are the same.            *)
LEMMA SameMessage ==
  ASSUME NEW f \in Seq(ByteCells), NEW s, SignedFrom(f, s), NetOff(f) = 14,
         NEW w, Shape(w), 34 <= Len(w), NEW r, IsRebuilt(r, w)
  PROVE  r = Message(f) <=> SameKey /\ PlainFrame(f) /\ HeaderSame(w, s)
<1> DEFINE m == Message(f)
           z == Zeroed(f)
           a == Val(w, 14)
           b == Val(f, 14)
<1>1. /\ Len(f) \in Nat /\ 34 <= Len(f)
      /\ \A k \in Nat : k < Len(f) => At(z, k) \in ByteCells
      /\ \A k \in Nat : k < Len(f) /\ k \notin {14 + 10, 14 + 11} => At(z, k) = At(f, k)
      /\ At(z, 14 + 10) = Lit(0) /\ At(z, 14 + 11) = Lit(0)
  BY ZeroedAt DEF SignedFrom
<1>2. IsSigned(s, z, m)  BY SignedAt
<1>3. /\ IsFrame(m) /\ Len(m) = 36
      /\ \A k \in Nat : k < 16 => At(m, k) = At(KeyCells, k)
      /\ \A k \in Nat : k < 20 => At(m, 16 + k) = At(z, 14 + k)
  BY MessageAt DEF SignedFrom, IsMessage
<1> HIDE DEF m, z
<1>4. \A k \in Nat : k < 34 /\ k \notin {24, 25} => At(w, k) \in ByteCells  BY DEF Shape
<1>5. a \in Nat /\ a <= 255 /\ At(w, 14) = Lit(a) /\ Ihl(w, 14) = a % 16
  BY <1>4, ValOf DEF Ihl
<1>6. b \in Nat /\ b <= 255 /\ At(z, 14) = Lit(b) /\ Val(z, 14) = b /\ Ihl(f, 14) = b % 16
  <2>1. At(z, 14) = At(f, 14) /\ At(z, 14) \in ByteCells  BY <1>1
  <2>2. Val(z, 14) = b  BY <2>1, Zenon DEF Val
  <2> QED  BY <2>1, <2>2, ValOf DEF Ihl
<1>7. At(s, 14) = Lit(16 * (b \div 16) + 14)  BY <1>2, <1>6 DEF IsSigned
<1>8. PlainFrame(f) <=> Ihl(f, 14) = 5  BY DEF PlainFrame, EthLen
<1> HIDE DEF a, b
<1>9. a % 16 = 14 => (At(r, 16) = At(z, 14) <=> PlainFrame(f) /\ At(w, 14) = At(s, 14))
  <2> SUFFICES ASSUME a % 16 = 14
               PROVE  At(r, 16) = At(z, 14) <=> PlainFrame(f) /\ At(w, 14) = At(s, 14)
    OBVIOUS
  <2>1. At(r, 16) = Lit(16 * (a \div 16) + 5)
    <3>1. 14 - 9 = 5  OBVIOUS
    <3>2. At(r, 16) = Lit(16 * (a \div 16) + (Ihl(w, 14) - 9))  BY DEF IsRebuilt, a
    <3> QED  BY <1>5, <3>1, <3>2
  <2>2. 16 * (a \div 16) + 5 = b <=> b % 16 = 5 /\ a = 16 * (b \div 16) + 14
    BY <1>5, <1>6, NibbleBack
  <2>3. At(r, 16) = At(z, 14) <=> 16 * (a \div 16) + 5 = b  BY <1>6, <2>1, Kinds, Zenon
  <2>4. At(w, 14) = At(s, 14) <=> a = 16 * (b \div 16) + 14  BY <1>5, <1>7, Kinds, Zenon
  <2> QED  BY <1>6, <1>8, <2>2, <2>3, <2>4
<1>10. (At(r, 18) = At(z, 16) /\ At(r, 19) = At(z, 17))
         <=> (At(w, 16) = At(s, 16) /\ At(w, 17) = At(s, 17))
  <2> DEFINE u == U16(w, 16)
             v == U16(z, 16)
  <2>0. 16 + 1 = 17  OBVIOUS
  <2>1. /\ At(w, 16) \in ByteCells /\ At(w, 16 + 1) \in ByteCells
        /\ At(z, 16) \in ByteCells /\ At(z, 16 + 1) \in ByteCells
    BY <1>1, <1>4
  <2>2. u \in Nat /\ u <= 65535 /\ v \in Nat /\ v <= 65535
    <3>1. 16 \in Nat  OBVIOUS
    <3> QED  BY <2>1, <3>1, U16At
  <2> DEFINE x == (u + 65536 - 36) % 65536
             y == (v + 36) % 65536
  <2>3. x \in Nat /\ x <= 65535 /\ y \in Nat /\ y <= 65535
    <3> HIDE DEF u, v
    <3> QED  BY <2>2
  <2>4. v = x <=> u = y
    <3> HIDE DEF u, v
    <3> QED  BY <2>2, LengthBack
  <2>5. At(r, 18) = Lit(x \div 256) /\ At(r, 19) = Lit(x % 256)  BY DEF IsRebuilt
  <2>6. At(s, 16) = Lit(y \div 256) /\ At(s, 17) = Lit(y % 256)  BY <1>2 DEF IsSigned
  <2> HIDE DEF x, y
  <2>7. v = x <=> At(z, 16) = Lit(x \div 256) /\ At(z, 16 + 1) = Lit(x % 256)
    BY <2>1, <2>3, FieldIs
  <2>8. u = y <=> At(w, 16) = Lit(y \div 256) /\ At(w, 16 + 1) = Lit(y % 256)
    BY <2>1, <2>3, FieldIs
  <2> QED  BY <2>0, <2>4, <2>5, <2>6, <2>7, <2>8, Zenon
<1>11. ASSUME NEW k \in Nat, k < 20, k \notin {0, 2, 3, 10, 11}
       PROVE  At(r, 16 + k) = At(m, 16 + k) <=> At(w, 14 + k) = At(s, 14 + k)
  <2>1. 14 + k \in Nat /\ 14 + k < 34 /\ 14 + k \notin {14, 16, 17, 24, 25}  BY <1>11
  <2>2. At(s, 14 + k) = At(z, 14 + k)  BY <1>2, <2>1 DEF IsSigned
  <2>3. At(r, 16 + k) = At(w, 14 + k)  BY <1>11 DEF IsRebuilt
  <2>4. At(m, 16 + k) = At(z, 14 + k)  BY <1>3, <1>11
  <2> QED  BY <2>2, <2>3, <2>4
<1>12. /\ At(m, 16) = At(z, 14) /\ At(m, 18) = At(z, 16) /\ At(m, 19) = At(z, 17)
       /\ At(m, 26) = Lit(0) /\ At(m, 27) = Lit(0)
  <2>1. /\ 16 + 0 = 16 /\ 16 + 2 = 18 /\ 16 + 3 = 19 /\ 16 + 10 = 26 /\ 16 + 11 = 27
        /\ 14 + 0 = 14 /\ 14 + 2 = 16 /\ 14 + 3 = 17
    OBVIOUS
  <2>2. /\ At(m, 16 + 0) = At(z, 14 + 0) /\ At(m, 16 + 2) = At(z, 14 + 2)
        /\ At(m, 16 + 3) = At(z, 14 + 3)
        /\ At(m, 16 + 10) = At(z, 14 + 10) /\ At(m, 16 + 11) = At(z, 14 + 11)
    <3>1. \A k \in {0, 2, 3, 10, 11} : k \in Nat /\ k < 20  OBVIOUS
    <3>2. \A k \in {0, 2, 3, 10, 11} : At(m, 16 + k) = At(z, 14 + k)  BY <1>3, <3>1, Zenon
    <3> QED  BY <3>2, Zenon
  <2> QED  BY <1>1, <2>1, <2>2
<1>13. ASSUME r = m  PROVE SameKey /\ PlainFrame(f) /\ HeaderSame(w, s)
  <2>1. a % 16 = 14
    <3>0. Len(r) = 16 + 4 * (Ihl(w, 14) - 9)  BY DEF IsRebuilt
    <3>1. 16 + 4 * ((a % 16) - 9) = 36  BY <1>3, <1>5, <1>13, <3>0
    <3>2. a % 16 \in Nat  BY <1>5
    <3> QED  BY <3>1, <3>2
  <2>2. SameKey  BY <1>3, <1>13, KeySame DEF IsRebuilt
  <2>3. PlainFrame(f) /\ At(w, 14) = At(s, 14)  BY <1>9, <1>12, <1>13, <2>1
  <2>4. At(w, 16) = At(s, 16) /\ At(w, 17) = At(s, 17)  BY <1>10, <1>12, <1>13
  <2>5. ASSUME NEW k \in Nat, 14 <= k, k < 34, k \notin {24, 25}
        PROVE At(w, k) = At(s, k)
    <3>1. CASE k \in {14, 16, 17}  BY <2>3, <2>4, <3>1
    <3>2. CASE k \notin {14, 16, 17}
      <4>1. /\ k - 14 \in Nat /\ k - 14 < 20 /\ k - 14 \notin {0, 2, 3, 10, 11}
            /\ 14 + (k - 14) = k
        BY <2>5, <3>2
      <4>2. At(w, 14 + (k - 14)) = At(s, 14 + (k - 14))  BY <1>11, <1>13, <4>1
      <4> QED  BY <4>1, <4>2
    <3> QED  BY <3>1, <3>2
  <2> QED  BY <2>2, <2>3, <2>5 DEF HeaderSame
<1>14. ASSUME SameKey, PlainFrame(f), HeaderSame(w, s)  PROVE r = m
  <2>1. At(w, 14) = At(s, 14) /\ At(w, 16) = At(s, 16) /\ At(w, 17) = At(s, 17)
    BY <1>14 DEF HeaderSame
  <2>2. a % 16 = 14
    <3>1. a = 16 * (b \div 16) + 14  BY <1>5, <1>7, <2>1, Kinds, Zenon
    <3> QED  BY <1>6, <3>1
  <2>3. Len(r) = 36 /\ IsFrame(r)
    <3>1. Len(r) = 16 + 4 * ((a % 16) - 9) /\ IsFrame(r)  BY <1>5 DEF IsRebuilt
    <3> QED  BY <2>2, <3>1
  <2>4. At(r, 16) = At(m, 16)  BY <1>9, <1>12, <1>14, <2>1, <2>2
  <2>5. At(r, 18) = At(m, 18) /\ At(r, 19) = At(m, 19)  BY <1>10, <1>12, <2>1
  <2>6. At(r, 26) = At(m, 26) /\ At(r, 27) = At(m, 27)  BY <1>12 DEF IsRebuilt
  <2>7. ASSUME NEW k \in Nat, k < 36  PROVE At(r, k) = At(m, k)
    <3>1. CASE k < 16  BY <1>3, <1>14, <3>1, KeySame DEF IsRebuilt
    <3>2. CASE k \in {16, 18, 19, 26, 27}  BY <2>4, <2>5, <2>6, <3>2
    <3>3. CASE 16 <= k /\ k \notin {16, 18, 19, 26, 27}
      <4>1. /\ k - 16 \in Nat /\ k - 16 < 20 /\ k - 16 \notin {0, 2, 3, 10, 11}
            /\ 16 + (k - 16) = k
        BY <2>7, <3>3
      <4>2. /\ 14 + (k - 16) \in Nat /\ 14 <= 14 + (k - 16) /\ 14 + (k - 16) < 34
            /\ 14 + (k - 16) \notin {24, 25}
        BY <4>1
      <4>3. At(w, 14 + (k - 16)) = At(s, 14 + (k - 16))  BY <1>14, <4>2 DEF HeaderSame
      <4>4. At(r, 16 + (k - 16)) = At(m, 16 + (k - 16))  BY <1>11, <4>1, <4>3
      <4> QED  BY <4>1, <4>4
    <3> QED  BY <3>1, <3>2, <3>3
  <2> QED  BY <1>3, <2>3, <2>7, SameFrame
<1> QED  BY <1>13, <1>14 DEF m

-----------------------------------------------------------------------------
(* The received bytes are the digest of the header rebuilt.                *)
Agrees == \A j \in 1..HashBytes : At(packet, EthLen + 24 + j - 1) = DigestCell(Rebuilt, j)

(* The comparison and the authenticated bytes, by offset.                  *)
LEMMA AgreesAt ==
  Agrees <=> \A k \in Nat : 38 <= k /\ k < 70 => At(packet, k) = DigestCell(Rebuilt, k - 37)
<1>0. HashBytes = 32 /\ EthLen = 14  BY DEF HashBytes, EthLen
<1>1. ASSUME Agrees, NEW k \in Nat, 38 <= k, k < 70
      PROVE  At(packet, k) = DigestCell(Rebuilt, k - 37)
  <2>1. k - 37 \in 1..HashBytes /\ EthLen + 24 + (k - 37) - 1 = k  BY <1>0, <1>1
  <2> QED  BY <1>1, <2>1 DEF Agrees
<1>2. ASSUME \A k \in Nat : 38 <= k /\ k < 70 => At(packet, k) = DigestCell(Rebuilt, k - 37),
             NEW j \in 1..HashBytes
      PROVE  At(packet, EthLen + 24 + j - 1) = DigestCell(Rebuilt, j)
  <2>0. j \in Nat /\ 1 <= j /\ j <= 32  BY <1>0
  <2>1. /\ EthLen + 24 + j - 1 = j + 37 /\ j + 37 \in Nat /\ 38 <= j + 37 /\ j + 37 < 70
        /\ (j + 37) - 37 = j
    BY <1>0, <2>0
  <2>2. At(packet, j + 37) = DigestCell(Rebuilt, (j + 37) - 37)  BY <1>2, <2>1
  <2> QED  BY <2>1, <2>2
<1> QED  BY <1>1, <1>2 DEF Agrees

LEMMA AuthenticatedAre ==
  ASSUME NEW w, NEW s
  PROVE  (\A o \in Authenticated : At(w, o) = At(s, o))
           <=> /\ At(w, 12) = At(s, 12) /\ At(w, 13) = At(s, 13) /\ HeaderSame(w, s)
               /\ At(w, 34) = At(s, 34) /\ At(w, 35) = At(s, 35)
               /\ \A k \in Nat : 38 <= k /\ k < 70 => At(w, k) = At(s, k)
<1>1. \A o : o \in Authenticated <=>
         \/ o \in {12, 13, 34, 35}
         \/ o \in Nat /\ 14 <= o /\ o < 34 /\ o \notin {24, 25}
         \/ o \in Nat /\ 38 <= o /\ o < 70
  BY DEF Authenticated, EthTypeAt, EthLen, CopiedHeaders, IpLen, CheckAt, IP_OPT_HASH_LEN
<1> QED  BY <1>1 DEF HeaderSame

(* The option of a signed frame on the way.                                *)
LEMMA OptionCells ==
  ASSUME NEW f \in Seq(ByteCells), NEW s, SignedFrom(f, s), NEW w, Near(s, w), HoldsHeader(w)
  PROVE  /\ At(w, 34) \in ByteCells /\ At(w, 35) \in ByteCells
         /\ ~OptionThere(w) => 4 * Ihl(w, 14) <= 56
<1>1. /\ Len(s) = Len(f) + 36 /\ Len(f) \in Nat /\ 34 <= Len(f)
      /\ At(s, 34) = Lit(25) /\ At(s, 35) = Lit(36)
  BY SignedAt, ZeroedAt DEF IsSigned, SignedFrom
<1>2. At(s, 34) \in ByteCells /\ At(s, 35) \in ByteCells  BY <1>1, ByteLit
<1>3. PICK o \in Nat :
        /\ o < Len(s) => At(w, o) \in ByteCells
        /\ \A k \in Nat : k < Len(s) /\ k # o /\ k \notin {24, 25} => At(w, k) = At(s, k)
  BY DEF Near
<1>4. At(w, 34) \in ByteCells /\ At(w, 35) \in ByteCells  BY <1>1, <1>2, <1>3
<1>5. Ihl(w, 14) \in Nat  BY IhlOf DEF Near
<1>6. CASE o = 14
  <2>1. At(w, 34) = At(s, 34) /\ At(w, 35) = At(s, 35)  BY <1>1, <1>3, <1>6
  <2>2. ~OptionThere(w) => ~(56 <= 4 * Ihl(w, 14))  BY <1>1, <2>1 DEF OptionThere
  <2> QED  BY <1>4, <1>5, <2>2
<1>7. CASE o # 14
  <2>1. At(w, 14) = At(s, 14)  BY <1>1, <1>3, <1>7
  <2>2. Ihl(w, 14) = Ihl(s, 14)  BY <2>1, Zenon DEF Ihl, Val
  <2>3. Ihl(w, 14) = 14  BY <2>2, SignedFields
  <2> QED  BY <1>4, <2>3
<1> QED  BY <1>6, <1>7

(* A signed frame without a tag is of type IP.                             *)
LEMMA SignedType ==
  ASSUME NEW f \in Seq(ByteCells), NEW s, SignedFrom(f, s), NetOff(f) = 14
  PROVE  U16(s, 12) = 2048
<1>1. /\ Len(f) \in Nat /\ 34 <= Len(f)
      /\ \A k \in Nat : k < Len(f) /\ k \notin {14 + 10, 14 + 11} => At(Zeroed(f), k) = At(f, k)
  BY ZeroedAt DEF SignedFrom
<1>2. At(Zeroed(f), 12) = At(f, 12) /\ At(Zeroed(f), 13) = At(f, 13)  BY <1>1
<1>3. At(s, 12) = At(Zeroed(f), 12) /\ At(s, 13) = At(Zeroed(f), 13)
  BY SignedAt DEF IsSigned
<1>4. 12 + 1 = 13  OBVIOUS
<1>5. U16(s, 12) = U16(f, 12)  BY <1>2, <1>3, <1>4, U16Same
<1>6. EthType(f) = U16(f, 12) /\ EthType(f) = 2048
  BY NetOffOf DEF SignedFrom, Signable, ETH_P_IP
<1> QED  BY <1>5, <1>6

(* What a match of a signed frame means.                                   *)
LEMMA AuthenticIff ==
  ASSUME NEW f \in Seq(ByteCells), NEW s, SignedFrom(f, s), Near(s, packet),
         U16(packet, 12) = 2048 => HoldsHeader(packet),
         U16(packet, 12) = 2048 => NetOff(f) = 14
  PROVE  (U16(packet, 12) = 2048 /\ OptionThere(packet) /\ Agrees)
           <=> /\ SameKey /\ PlainFrame(f)
               /\ \A o \in Authenticated : At(packet, o) = At(s, o)
<1>1. /\ Len(s) = Len(f) + 36 /\ Len(f) \in Nat /\ 34 <= Len(f)
      /\ At(s, 34) = Lit(25) /\ At(s, 35) = Lit(36)
      /\ \A k \in Nat : 38 <= k /\ k < 70 => At(s, k) = DigestCell(Message(f), k - 37)
  BY SignedAt, ZeroedAt DEF IsSigned, SignedFrom
<1>2. Shape(packet) /\ Len(packet) = Len(s)  BY DEF Near
<1>3. Shape(s)  BY SignedShape
<1>4. ASSUME U16(packet, 12) = 2048, OptionThere(packet), Agrees
      PROVE  /\ SameKey /\ PlainFrame(f)
             /\ \A o \in Authenticated : At(packet, o) = At(s, o)
  <2>1. NetOff(f) = 14 /\ HoldsHeader(packet) /\ IsRebuilt(Rebuilt, packet)
    BY <1>2, <1>4, RebuiltAt
  <2>2. \A k \in Nat : 38 <= k /\ k < 70 => At(packet, k) = DigestCell(Rebuilt, k - 37)
    BY <1>4, AgreesAt
  <2>3. PICK o \in Nat :
          \A k \in Nat : k < Len(s) /\ k # o /\ k \notin {24, 25} => At(packet, k) = At(s, k)
    BY DEF Near
  <2>4. PICK k \in {38, 39} : At(packet, k) = At(s, k)
    <3>1. CASE o = 38
      <4>1. At(packet, 39) = At(s, 39)  BY <1>1, <2>3, <3>1
      <4> QED  BY <4>1
    <3>2. CASE o # 38
      <4>1. At(packet, 38) = At(s, 38)  BY <1>1, <2>3, <3>2
      <4> QED  BY <4>1
    <3> QED  BY <3>1, <3>2
  <2>5. Rebuilt = Message(f)
    <3>1. k \in Nat /\ 38 <= k /\ k < 70  BY <2>4
    <3>2. DigestCell(Rebuilt, k - 37) = DigestCell(Message(f), k - 37)
      BY <1>1, <2>2, <2>4, <3>1
    <3> QED  BY <3>2, Kinds, Zenon
  <2>6. SameKey /\ PlainFrame(f) /\ HeaderSame(packet, s)
    <3>1. 34 <= Len(packet)  BY <1>1, <1>2
    <3> QED  BY <1>2, <2>1, <2>5, <3>1, SameMessage
  <2>7. At(packet, 12) = At(s, 12) /\ At(packet, 13) = At(s, 13)
    <3>1. U16(s, 12) = 2048  BY <2>1, SignedType
    <3>2. 12 + 1 = 13 /\ 2048 \in Nat /\ 2048 <= 65535  OBVIOUS
    <3>3. /\ At(packet, 12) \in ByteCells /\ At(packet, 12 + 1) \in ByteCells
          /\ At(s, 12) \in ByteCells /\ At(s, 12 + 1) \in ByteCells
      BY <1>1, <1>2, <1>3 DEF Shape
    <3> DEFINE n == 2048
    <3>4. n \in Nat /\ n <= 65535 /\ U16(packet, 12) = n /\ U16(s, 12) = n  BY <1>4, <3>1
    <3> HIDE DEF n
    <3>5. At(packet, 12) = Lit(n \div 256) /\ At(packet, 12 + 1) = Lit(n % 256)
      BY <3>3, <3>4, FieldIs
    <3>6. At(s, 12) = Lit(n \div 256) /\ At(s, 12 + 1) = Lit(n % 256)
      BY <3>3, <3>4, FieldIs
    <3> QED  BY <3>2, <3>5, <3>6
  <2>8. \A j \in Nat : 38 <= j /\ j < 70 => At(packet, j) = At(s, j)  BY <1>1, <2>2, <2>5
  <2>9. At(packet, 34) = At(s, 34) /\ At(packet, 35) = At(s, 35)
    BY <1>1, <1>4 DEF OptionThere
  <2> QED  BY <2>6, <2>7, <2>8, <2>9, AuthenticatedAre
<1>5. ASSUME SameKey, PlainFrame(f), \A o \in Authenticated : At(packet, o) = At(s, o)
      PROVE  U16(packet, 12) = 2048 /\ OptionThere(packet) /\ Agrees
  <2>1. /\ At(packet, 12) = At(s, 12) /\ At(packet, 13) = At(s, 13) /\ HeaderSame(packet, s)
        /\ At(packet, 34) = At(s, 34) /\ At(packet, 35) = At(s, 35)
        /\ \A k \in Nat : 38 <= k /\ k < 70 => At(packet, k) = At(s, k)
    BY <1>5, AuthenticatedAre
  <2>2. NetOff(f) = 14  BY <1>5 DEF PlainFrame, EthLen
  <2>3. U16(packet, 12) = 2048
    <3>1. 12 + 1 = 13  OBVIOUS
    <3> QED  BY <2>1, <2>2, <3>1, SignedType, U16Same
  <2>4. OptionThere(packet)
    <3>1. At(packet, 14) = At(s, 14)  BY <2>1 DEF HeaderSame
    <3>2. Ihl(packet, 14) = Ihl(s, 14)  BY <3>1, Zenon DEF Ihl, Val
    <3>3. Ihl(packet, 14) = 14  BY <3>2, SignedFields
    <3> QED  BY <1>1, <2>1, <3>3 DEF OptionThere
  <2>5. IsRebuilt(Rebuilt, packet)  BY <1>2, <2>3, <2>4, RebuiltAt
  <2>6. Rebuilt = Message(f)
    <3>1. 34 <= Len(packet)  BY <1>1, <1>2
    <3> QED  BY <1>2, <1>5, <2>1, <2>2, <2>5, <3>1, SameMessage
  <2>7. Agrees  BY <1>1, <2>1, <2>6, AgreesAt
  <2> QED  BY <2>3, <2>4, <2>7
<1> QED  BY <1>4, <1>5

(* The verifier at work on a signed frame.  The walk over the options      *)
(* finds the hash at once or never.                                        *)
MatchInv ==
  /\ vpc \in {"idle", "scan", "remove", "compare"} => verdict = NoVerdict
  /\ Signed =>
       /\ vpc = "scan" =>
            5 < Ihl(packet, 14) /\ (pos = 20 \/ (20 < pos /\ ~OptionThere(packet)))
       /\ vpc = "remove" => /\ OptionThere(packet) /\ received = 24 /\ pos = 20
                            /\ header = AdjustFields(IpHeader)
       /\ vpc = "compare" => OptionThere(packet) /\ received = 24 /\ header = Cut
       /\ vpc = "returned" =>
            (verdict = MATCH <=> U16(packet, 12) = 2048 /\ OptionThere(packet) /\ Agrees)

(* While Signed holds, what is under way is near the signed frame.         *)
LEMMA OwnFrame ==
  ASSUME SigningInv, CarryInv, Signed, wire # <<>> \/ vpc # "idle", NEW w, Carried(w, sent)
  PROVE  orig \in Seq(ByteCells) /\ SignedFrom(orig, sent) /\ Near(sent, w)
<1>1. orig \in Seq(ByteCells)  BY DEF SigningInv
<1>2. sent # <<>>
  <2>1. Len(orig) \in Nat  BY <1>1, Arriving
  <2>2. Len(sent) = Len(orig) + 36  BY DEF Signed, IP_OPT_HASH_LEN
  <2> QED  BY <2>1, <2>2
<1>3. xpc = "idle"  BY <1>2 DEF CarryInv
<1>4. Outcome(orig, sent)  BY <1>2, <1>3 DEF SigningInv
<1>5. SignedFrom(orig, sent)
  <2>1. Len(sent) = Len(orig) + 36  BY DEF Signed, IP_OPT_HASH_LEN
  <2> QED  BY <1>1, <1>4, <2>1, SignedIffLonger
<1>6. Near(sent, w)  BY <1>1, <1>2, <1>4, OutcomeShape, DeliveredNear DEF Carried
<1> QED  BY <1>1, <1>5, <1>6

(* What is derived from the packet alone changes with it only.             *)
LEMMA SamePacket ==
  ASSUME UNCHANGED packet
  PROVE  /\ Cut' = Cut /\ (Agrees)' = Agrees
         /\ AdjustFields(IpHeader)' = AdjustFields(IpHeader)
         /\ OptionThere(packet)' = OptionThere(packet)
BY DEF Cut, Agrees, Rebuilt, AdjustFields, IpHeader, HeaderLen, NewIhl, TrueHeaderSize,
       OptionThere

LEMMA MatchInitially == Init => MatchInv
BY DEF Init, VerInit, MatchInv

(* Each step keeps what the verifier has found out.                        *)
LEMMA MatchStep ==
  SigningInv /\ CarryInv /\ VerifierInv /\ MatchInv /\ [Next]_vars => MatchInv'
<1> SUFFICES ASSUME SigningInv, CarryInv, VerifierInv, MatchInv, [Next]_vars
      PROVE MatchInv'
  OBVIOUS
<1>0. ASSUME UNCHANGED verVars, vpc = "idle" \/ UNCHANGED <<orig, sent>>  PROVE MatchInv'
  <2>1. CASE vpc = "idle"  BY <1>0, <2>1 DEF MatchInv, verVars
  <2>2. CASE UNCHANGED <<orig, sent>>
    <3>1. Signed' = Signed  BY <2>2 DEF Signed
    <3>2. UNCHANGED <<vpc, packet, pos, received, header, verdict>>  BY <1>0 DEF verVars
    <3> QED  BY <3>1, <3>2, SamePacket DEF MatchInv
  <2> QED  BY <1>0, <2>1, <2>2
<1>1. CASE UNCHANGED vars  BY <1>0, <1>1 DEF vars, xdpVars
<1>2. ASSUME NEW f \in InFrames, Arrive(f), vpc = "idle", UNCHANGED <<verVars, wire, sent>>
      PROVE  MatchInv'
  BY <1>0, <1>2
<1>3. ASSUME XdpStep, UNCHANGED <<verVars, wire, sent>>  PROVE MatchInv'
  <2>1. UNCHANGED orig
    BY <1>3 DEF XdpStep, Abort, PassOther, HashHeader, AddOption, AdjustHeadFails
  <2> QED  BY <1>0, <1>3, <2>1
<1>4. CASE Emit  BY <1>0, <1>4 DEF Emit
<1>5. CASE Lose  BY <1>0, <1>5 DEF Lose, xdpVars
<1>6. ASSUME NEW f \in ForeignFrames, Foreign(f)  PROVE MatchInv'
  BY <1>0, <1>6 DEF Foreign
<1>7. CASE Route  BY <1>0, <1>7 DEF Route, xdpVars
<1>8. ASSUME NEW o, NEW n, Alter(o, n)  PROVE MatchInv'
  BY <1>0, <1>8 DEF Alter, xdpVars
<1>9. CASE Deliver
  <2>1. /\ vpc = "idle" /\ packet' = wire /\ verdict' = verdict /\ wire # <<>>
        /\ UNCHANGED <<orig, sent>>
        /\ U16(wire, 12) = 2048 => HoldsHeader(wire)
        /\ \/ vpc' = "returned" /\ (U16(wire, 12) # 2048 \/ Ihl(wire, 14) <= 5)
           \/ vpc' = "scan" /\ Ihl(wire, 14) > 5 /\ pos' = 20
    BY <1>9 DEF Deliver, Ignore, Capture, EthTypeAt, EthLen, ETH_P_IP, IpLen, xdpVars
  <2>2. verdict' = NoVerdict  BY <2>1 DEF MatchInv
  <2>3. CASE vpc' = "scan"
    <3>1. vpc' # "returned"  BY <2>3
    <3>2. Ihl(packet', 14) > 5 /\ pos' = 20  BY <2>1, <2>3
    <3>3. 5 < Ihl(packet', 14)  BY <3>2
    <3> QED  BY <2>2, <2>3, <3>2, <3>3 DEF MatchInv
  <2>4. CASE vpc' = "returned"
    <3>1. ASSUME Signed  PROVE ~(U16(wire, 12) = 2048 /\ OptionThere(wire))
      <4> SUFFICES ASSUME U16(wire, 12) = 2048, OptionThere(wire)  PROVE FALSE
        OBVIOUS
      <4>1. Carried(wire, sent)  BY <2>1 DEF CarryInv
      <4>2. Shape(wire)  BY <2>1, <3>1, <4>1, OwnFrame DEF Near
      <4>3. Ihl(wire, 14) \in Nat  BY <2>1, <4>2, IhlOf
      <4>4. Ihl(wire, 14) <= 5 /\ 56 <= 4 * Ihl(wire, 14)  BY <2>1, <2>4 DEF OptionThere
      <4> QED  BY <4>3, <4>4
    <3>2. Signed' => Signed  BY <2>1 DEF Signed
    <3>3. NoVerdict # MATCH  BY DEF NoVerdict, MATCH
    <3>4. Signed' => ~(U16(packet', 12) = 2048 /\ OptionThere(packet'))
      BY <2>1, <3>1, <3>2
    <3> QED  BY <2>2, <2>4, <3>3, <3>4 DEF MatchInv
  <2> QED  BY <2>1, <2>3, <2>4
<1>10. ASSUME VerStep, UNCHANGED <<xdpVars, wire, sent>>  PROVE MatchInv'
  <2>0. Signed' = Signed  BY <1>10 DEF Signed, xdpVars
  <2>1. CASE Return
    <3>1. vpc' = "idle" /\ verdict' = NoVerdict  BY <2>1 DEF Return
    <3> QED  BY <3>1 DEF MatchInv
  <2>2. CASE Compare
    <3>1. /\ vpc = "compare" /\ vpc' = "returned" /\ UNCHANGED <<packet, received, header>>
          /\ verdict' = IF \A j \in 1..HashBytes :
                             At(packet, EthLen + received + j - 1) = DigestCell(ComputedMsg, j)
                        THEN MATCH ELSE MISMATCH
      BY <2>2 DEF Compare
    <3>2. ASSUME Signed  PROVE verdict' = IF Agrees THEN MATCH ELSE MISMATCH
      <4>1. received = 24 /\ header = Cut  BY <3>1, <3>2 DEF MatchInv
      <4>2. ComputedMsg = Rebuilt  BY <4>1, Zenon DEF ComputedMsg, Rebuilt
      <4> QED  BY <3>1, <4>1, <4>2, Zenon DEF Agrees
    <3>3. MATCH # MISMATCH  BY DEF MATCH, MISMATCH
    <3>4. Signed => OptionThere(packet) /\ U16(packet, 12) = 2048
      BY <3>1 DEF MatchInv, VerifierInv
    <3> QED  BY <2>0, <3>1, <3>2, <3>3, <3>4, SamePacket DEF MatchInv
  <2>3. ASSUME vpc \in {"scan", "remove"}, packet' = packet, verdict' = verdict,
               vpc' \in {"scan", "remove", "compare", "returned"},
               Signed => /\ vpc' = "scan" => 5 < Ihl(packet, 14) /\ 20 < pos'
                                             /\ ~OptionThere(packet)
                         /\ vpc' = "remove" => /\ OptionThere(packet) /\ received' = 24
                                               /\ pos' = 20 /\ header' = AdjustFields(IpHeader)
                         /\ vpc' = "compare" => /\ OptionThere(packet) /\ received' = 24
                                                /\ header' = Cut
                         /\ vpc' = "returned" => ~OptionThere(packet)
        PROVE  MatchInv'
    <3>1. verdict' = NoVerdict /\ NoVerdict # MATCH
      BY <2>3 DEF MatchInv, NoVerdict, MATCH
    <3> QED  BY <2>0, <2>3, <3>1, SamePacket DEF MatchInv
  <2>4. ASSUME vpc \in {"scan", "remove"}, Signed
        PROVE  /\ orig \in Seq(ByteCells) /\ SignedFrom(orig, sent) /\ Near(sent, packet)
               /\ Shape(packet) /\ HoldsHeader(packet)
    <3>1. vpc # "idle" /\ Carried(packet, sent)  BY <2>4 DEF CarryInv
    <3>2. HoldsHeader(packet)  BY <2>4 DEF VerifierInv
    <3> QED  BY <2>4, <3>1, <3>2, OwnFrame DEF Near
  <2>5. ASSUME vpc = "remove",
               NEW t \in Field(header, pos), NEW len \in Field(header, pos + 1),
               RemoveEnd(t, len) \/ RemoveSkip(t, len) \/ RemoveOption(t, len)
        PROVE  MatchInv'
    <3>1. /\ packet' = packet /\ verdict' = verdict /\ received' = received
          /\ vpc' \in {"remove", "compare"}
      BY <2>5 DEF RemoveEnd, RemoveSkip, RemoveOption
    <3>2. ASSUME Signed
          PROVE  vpc' = "compare" /\ OptionThere(packet) /\ received' = 24 /\ header' = Cut
      <4>1. /\ OptionThere(packet) /\ received = 24 /\ pos = 20
            /\ header = AdjustFields(IpHeader)
        BY <2>5, <3>2 DEF MatchInv
      <4>2. Shape(packet) /\ HoldsHeader(packet)  BY <2>4, <2>5, <3>2
      <4>3. /\ IsFrame(IpHeader) /\ Len(IpHeader) = HeaderLen /\ HeaderLen \in Nat
            /\ HeaderLen = 4 * Ihl(packet, 14)
            /\ \A k \in Nat : k < HeaderLen => At(IpHeader, k) = At(packet, 14 + k)
        BY <4>2, HeaderAt
      <4>4. 56 <= HeaderLen  BY <4>1, <4>3 DEF OptionThere
      <4>5. 20 <= Len(IpHeader)  BY <4>3, <4>4
      <4>6. IsAdjusted(header, IpHeader)  BY <4>1, <4>3, <4>5, AdjustedAt
      <4>7. At(header, 20) = At(packet, 34) /\ At(header, 21) = At(packet, 35)
        <5>1. 14 + 20 = 34 /\ 14 + 21 = 35  OBVIOUS
        <5>2. At(header, 20) = At(IpHeader, 20) /\ At(header, 21) = At(IpHeader, 21)
          BY <4>3, <4>4, <4>6 DEF IsAdjusted
        <5>3. At(IpHeader, 20) = At(packet, 14 + 20) /\ At(IpHeader, 21) = At(packet, 14 + 21)
          BY <4>3, <4>4
        <5> QED  BY <5>1, <5>2, <5>3
      <4>8. t \in Reading(Lit(25)) /\ len \in Reading(Lit(36))
        <5>1. 20 + 1 = 21 /\ 20 < HeaderLen /\ 21 < HeaderLen  BY <4>3, <4>4
        <5>2. t \in Reading(At(header, 20)) /\ len \in Reading(At(header, 21))
          BY <2>5, <4>1, <5>1 DEF Field
        <5> QED  BY <4>1, <4>7, <5>2 DEF OptionThere
      <4>9. t = 25 /\ len = 36  BY <4>8, Kinds DEF Reading, Lit
      <4>10. IsHashOption(t, len, pos)
        BY <4>1, <4>4, <4>9 DEF IsHashOption, IP_OPT_HASH_ID, IP_OPT_HASH_LEN
      <4>11. t # None /\ len # None  BY <4>9 DEF None
      <4>12. RemoveOption(t, len)  BY <2>5, <4>10, <4>11 DEF RemoveEnd, RemoveSkip
      <4>13. header' = Cut  BY <4>1, <4>12 DEF RemoveOption, Cut
      <4> QED  BY <3>1, <4>1, <4>12, <4>13 DEF RemoveOption
    <3> QED  BY <2>3, <2>5, <3>1, <3>2
  <2>6. ASSUME vpc = "scan",
               NEW t \in Field(IpHeader, pos), NEW len \in Field(IpHeader, pos + 1),
               ScanEnd(t, len) \/ ScanNop(t) \/ ScanSkip(t, len) \/ ScanFound(t, len)
        PROVE  MatchInv'
    <3>1. /\ packet' = packet /\ verdict' = verdict
          /\ vpc' \in {"scan", "remove", "returned"}
      BY <2>6 DEF ScanEnd, ScanNop, ScanSkip, ScanFound
    <3>2. ASSUME Signed
          PROVE  /\ vpc' = "scan" => 5 < Ihl(packet, 14) /\ 20 < pos' /\ ~OptionThere(packet)
                 /\ vpc' = "remove" => /\ OptionThere(packet) /\ received' = 24
                                       /\ pos' = 20 /\ header' = AdjustFields(IpHeader)
                 /\ vpc' = "returned" => ~OptionThere(packet)
      <4>1. /\ orig \in Seq(ByteCells) /\ SignedFrom(orig, sent) /\ Near(sent, packet)
            /\ Shape(packet) /\ HoldsHeader(packet)
        BY <2>4, <2>6, <3>2
      <4>2. /\ 5 < Ihl(packet, 14) /\ (pos = 20 \/ (20 < pos /\ ~OptionThere(packet)))
            /\ pos \in Nat
        BY <2>6, <3>2 DEF MatchInv, VerifierInv
      <4>3. /\ HeaderLen \in Nat /\ HeaderLen = 4 * Ihl(packet, 14) /\ Ihl(packet, 14) \in Nat
        BY <4>1, HeaderAt, IhlOf
      <4>4. /\ At(packet, 34) \in ByteCells /\ At(packet, 35) \in ByteCells
            /\ ~OptionThere(packet) => HeaderLen <= 56
        BY <4>1, <4>3, OptionCells
      <4>5. pos = 20 => At(packet, 34) = Lit(t) /\ At(packet, 35) = Lit(len)
        <5> SUFFICES ASSUME pos = 20
              PROVE At(packet, 34) = Lit(t) /\ At(packet, 35) = Lit(len)
          OBVIOUS
        <5>1. /\ 20 + 1 = 21 /\ 14 + 20 = 34 /\ 14 + 21 = 35 /\ 20 \in Nat /\ 21 \in Nat
              /\ 20 < HeaderLen /\ 21 < HeaderLen
          BY <4>2, <4>3
        <5>2. t \in Field(IpHeader, 20) /\ len \in Field(IpHeader, 21)  BY <2>6, <5>1
        <5>3. IsLit(At(packet, 14 + 20)) => At(packet, 14 + 20) = Lit(t)
          BY <4>1, <5>1, <5>2, ScanRead
        <5>4. IsLit(At(packet, 14 + 21)) => At(packet, 14 + 21) = Lit(len)
          BY <4>1, <5>1, <5>2, ScanRead
        <5> QED  BY <4>4, <5>1, <5>3, <5>4, ByteLit
      <4>6. IsHashOption(t, len, pos) <=> pos = 20 /\ OptionThere(packet)
        <5>1. IsHashOption(t, len, pos) <=> t = 25 /\ len = 36 /\ pos + 36 <= HeaderLen
          BY DEF IsHashOption, IP_OPT_HASH_ID, IP_OPT_HASH_LEN
        <5>2. CASE pos = 20
          <6>1. /\ At(packet, 34) = Lit(25) <=> t = 25
                /\ At(packet, 35) = Lit(36) <=> len = 36
            <7>1. (Lit(t) = Lit(25) <=> t = 25) /\ (Lit(len) = Lit(36) <=> len = 36)
              BY Kinds
            <7> QED  BY <4>5, <5>2, <7>1
          <6> QED  BY <4>3, <5>1, <5>2, <6>1 DEF OptionThere
        <5>3. CASE pos # 20
          <6>1. ~OptionThere(packet) /\ 20 < pos  BY <4>2, <5>3
          <6>2. ~(pos + 36 <= HeaderLen)  BY <4>2, <4>3, <4>4, <6>1
          <6> QED  BY <5>1, <5>3, <6>2
        <5> QED  BY <5>2, <5>3
      <4>7. CASE OptionThere(packet)
        <5>1. pos = 20 /\ IsHashOption(t, len, pos)  BY <4>2, <4>6, <4>7
        <5>2. t = 25 /\ len = 36
          BY <5>1 DEF IsHashOption, IP_OPT_HASH_ID, IP_OPT_HASH_LEN
        <5>3. t \notin {None, 0, 1} /\ len # None  BY <5>2 DEF None
        <5>4. ScanFound(t, len)  BY <2>6, <5>1, <5>3 DEF ScanEnd, ScanNop, ScanSkip
        <5>5. /\ vpc' = "remove" /\ pos' = 20 /\ received' = pos + 4
              /\ header' = AdjustFields(IpHeader)
          BY <5>4 DEF ScanFound, IpLen, IpHeader
        <5>6. received' = 24  BY <5>1, <5>5
        <5> QED  BY <4>7, <5>5, <5>6
      <4>8. CASE ~OptionThere(packet)
        <5>1. ~IsHashOption(t, len, pos)  BY <4>6, <4>8
        <5>2. CASE ScanEnd(t, len)  BY <4>8, <5>2 DEF ScanEnd
        <5>3. CASE ScanNop(t)
          <6>1. vpc' = "scan" /\ pos' = pos + 1  BY <2>6, <5>3 DEF ScanNop
          <6>2. 20 < pos'  BY <4>2, <6>1
          <6> QED  BY <4>2, <4>8, <6>1, <6>2
        <5>4. CASE ScanSkip(t, len)
          <6>1. vpc' = "scan" /\ pos' = pos + OptStep(len) /\ len # None
            BY <2>6, <5>4 DEF ScanSkip
          <6>2. pos + 1 \in Nat  BY <4>2
          <6>3. len \in Byte  BY <4>1, <6>1, <6>2, ScanRead
          <6>4. OptStep(len) \in Nat /\ 0 < OptStep(len)  BY <6>3, ByteLit DEF OptStep
          <6>5. 20 < pos'  BY <4>2, <6>1, <6>4
          <6> QED  BY <4>2, <4>8, <6>1, <6>5
        <5>5. ~ScanFound(t, len)  BY <5>1 DEF ScanFound
        <5> QED  BY <2>6, <5>2, <5>3, <5>4, <5>5
      <4> QED  BY <4>7, <4>8
    <3> QED  BY <2>3, <2>6, <3>1, <3>2
  <2> QED  BY <1>10, <2>1, <2>2, <2>5, <2>6 DEF VerStep
<1> QED  BY <1>1, <1>2, <1>3, <1>4, <1>5, <1>6, <1>7, <1>8, <1>9, <1>10 DEF Next

(* packet_handler reports a match for a frame the XDP program signed       *)
(* exactly when that was a plain frame, both copies of the key are one and *)
(* no authenticated byte was changed on the way.                           *)
THEOREM MatchMeansAuthentic == Spec => []MatchIffAuthentic
<1>1. SigningInv /\ CarryInv /\ VerifierInv /\ MatchInv => MatchIffAuthentic
  <2> SUFFICES ASSUME SigningInv, CarryInv, VerifierInv, MatchInv,
                      vpc = "returned", Signed, ~TagLost
               PROVE  verdict = MATCH <=>
                        /\ SameKey /\ PlainFrame(orig)
                        /\ \A o \in Authenticated : At(packet, o) = At(sent, o)
    BY DEF MatchIffAuthentic
  <2>1. vpc # "idle" /\ Carried(packet, sent)  BY DEF CarryInv
  <2>2. orig \in Seq(ByteCells) /\ SignedFrom(orig, sent) /\ Near(sent, packet)
    BY <2>1, OwnFrame
  <2>3. U16(packet, 12) = 2048 => HoldsHeader(packet)  BY <2>1 DEF VerifierInv
  <2>4. U16(packet, 12) = 2048 => NetOff(orig) = 14
    BY DEF TagLost, EthLen, EthTypeAt, ETH_P_IP
  <2>5. verdict = MATCH <=> U16(packet, 12) = 2048 /\ OptionThere(packet) /\ Agrees
    BY DEF MatchInv
  <2> QED  BY <2>2, <2>3, <2>4, <2>5, AuthenticIff
<1>2. Spec => [](SigningInv /\ CarryInv /\ VerifierInv /\ MatchInv)
  BY SigningInitially, SigningStep, VerifierInitially, VerifierStep, MatchInitially, MatchStep,
     PTL DEF Spec
<1> QED  BY <1>1, <1>2, PTL

-----------------------------------------------------------------------------
(* The two walks over the options of a packet w.  Hop is where the second  *)
(* one goes from x; Leads says that it comes from a to b, as what every    *)
(* set contains that is closed under hops short of b.                      *)
Hop(w, x) == x + OptStep(Val(w, 15 + x))
Closed(w, S, b) == \A x \in S : x < b => Hop(w, x) \in S
Leads(w, a, b) == \A S \in SUBSET Nat : a \in S /\ Closed(w, S, b) => b \in S
NoNop(w, p) == \A q \in Nat : 20 <= q /\ q <= p + 1 => At(w, 14 + q) \in ByteCells \ {Lit(1)}

LEMMA HopForward ==
  ASSUME NEW w, NEW p \in Nat, NoNop(w, p), NEW x \in Nat, 20 <= x, x <= p
  PROVE  /\ Val(w, 15 + x) \in Nat /\ At(w, 15 + x) = Lit(Val(w, 15 + x))
         /\ Hop(w, x) \in Nat /\ x < Hop(w, x)
<1>1. x + 1 \in Nat /\ 20 <= x + 1 /\ x + 1 <= p + 1 /\ 14 + (x + 1) = 15 + x  OBVIOUS
<1>2. At(w, 15 + x) \in ByteCells  BY <1>1 DEF NoNop
<1>3. Val(w, 15 + x) \in Nat /\ At(w, 15 + x) = Lit(Val(w, 15 + x))  BY <1>2, ValOf
<1> QED  BY <1>3 DEF Hop, OptStep

(* A walk that comes to b does not start behind it.                        *)
LEMMA LeadsUp ==
  ASSUME NEW w, NEW a \in Nat, NEW b \in Nat, Leads(w, a, b)
  PROVE  a <= b
<1> SUFFICES ASSUME b < a  PROVE FALSE
  OBVIOUS
<1> DEFINE S == {x \in Nat : b < x}
<1>1. S \in SUBSET Nat /\ a \in S /\ b \notin S  OBVIOUS
<1>2. Closed(w, S, b)  BY DEF Closed
<1> HIDE DEF S
<1> QED  BY <1>1, <1>2 DEF Leads

(* One hop more at the end of the first walk, one less at the start of the *)
(* second.                                                                 *)
LEMMA LeadsOn ==
  ASSUME NEW w, NEW a \in Nat, NEW b \in Nat, Leads(w, a, b), Hop(w, b) \in Nat, b < Hop(w, b)
  PROVE  Leads(w, a, Hop(w, b))
<1> SUFFICES ASSUME NEW S \in SUBSET Nat, a \in S, Closed(w, S, Hop(w, b))  PROVE Hop(w, b) \in S
  BY DEF Leads
<1>1. Closed(w, S, b)
  <2> SUFFICES ASSUME NEW x \in S, x < b  PROVE Hop(w, x) \in S
    BY DEF Closed
  <2>1. x \in Nat  OBVIOUS
  <2>2. x < Hop(w, b)  BY <2>1
  <2> QED  BY <2>2 DEF Closed
<1>2. b \in S  BY <1>1 DEF Leads
<1> QED  BY <1>2 DEF Closed

LEMMA LeadsFrom ==
  ASSUME NEW w, NEW a \in Nat, NEW b \in Nat, Leads(w, a, b), a # b
  PROVE  Leads(w, Hop(w, a), b)
<1> SUFFICES ASSUME NEW S \in SUBSET Nat, Hop(w, a) \in S, Closed(w, S, b)  PROVE b \in S
  BY DEF Leads
<1> DEFINE T == S \cup {a}
<1>1. T \in SUBSET Nat /\ a \in T  OBVIOUS
<1>2. Closed(w, T, b)  BY DEF Closed
<1>3. b \in T  BY <1>1, <1>2 DEF Leads
<1> QED  BY <1>3

(* Where the walks are, while there is no one-byte option before the hash. *)
FoundAt(p) ==
  /\ p \in Nat /\ 20 <= p /\ p + 36 <= HeaderLen
  /\ NoNop(packet, p) =>
       At(packet, 14 + p) = Lit(25) /\ At(packet, 15 + p) = Lit(36)
RebuiltInv ==
  /\ vpc = "scan" => (NoNop(packet, pos) => Leads(packet, 20, pos))
  /\ vpc \in {"remove", "compare"} => FoundAt(received - 4) /\ received \in Nat
  /\ vpc = "remove" =>
       /\ header = AdjustFields(IpHeader)
       /\ NoNop(packet, received - 4) =>
            pos \in Nat /\ 20 <= pos /\ Leads(packet, pos, received - 4)
  /\ vpc = "compare" =>
       (NoNop(packet, received - 4) =>
          header = ShiftOver(AdjustFields(IpHeader), received - 4))

LEMMA RebuiltInitially == Init => RebuiltInv
BY DEF Init, VerInit, RebuiltInv

LEMMA SameWalk ==
  ASSUME UNCHANGED packet
  PROVE  /\ AdjustFields(IpHeader)' = AdjustFields(IpHeader)
         /\ HeaderLen' = HeaderLen
BY DEF AdjustFields, IpHeader, HeaderLen, NewIhl

(* What the second walk reads in the copy is what the packet holds.        *)
LEMMA RemoveRead ==
  ASSUME Shape(packet), HoldsHeader(packet), header = AdjustFields(IpHeader),
         NEW p \in Nat, 20 <= p, p < HeaderLen, NEW t \in Field(header, p),
         NEW n \in Nat, At(packet, 14 + p) = Lit(n)
  PROVE  t = n
<1>1. /\ IsFrame(IpHeader) /\ Len(IpHeader) = HeaderLen /\ HeaderLen \in Nat
      /\ At(IpHeader, p) = At(packet, 14 + p)
  BY HeaderAt
<1>2. 20 <= Len(IpHeader)  BY <1>1
<1>3. IsAdjusted(header, IpHeader)  BY <1>1, <1>2, AdjustedAt
<1>4. At(header, p) = At(IpHeader, p)  BY <1>1, <1>3 DEF IsAdjusted
<1>5. t \in Reading(Lit(n))  BY <1>1, <1>4 DEF Field
<1> QED  BY <1>5, Kinds DEF Reading, Lit

(* The second walk stops at the option the first one found.                *)
LEMMA RebuiltStep ==
  SigningInv /\ CarryInv /\ VerifierInv /\ RebuiltInv /\ [Next]_vars => RebuiltInv'
<1> SUFFICES ASSUME SigningInv, CarryInv, VerifierInv, RebuiltInv, [Next]_vars
             PROVE  RebuiltInv'
  OBVIOUS
<1>0. ASSUME UNCHANGED verVars  PROVE RebuiltInv'
  <2>1. UNCHANGED <<vpc, packet, pos, received, header>>  BY <1>0 DEF verVars
  <2> QED  BY <2>1, SameWalk DEF RebuiltInv, FoundAt
<1>1. CASE UNCHANGED vars  BY <1>0, <1>1 DEF vars
<1>2. CASE Deliver
  <2>1. \/ vpc' = "returned"
        \/ vpc' = "scan" /\ pos' = 20
    BY <1>2 DEF Deliver, Ignore, Capture, IpLen
  <2>2. \A w : Leads(w, 20, 20)  BY DEF Leads
  <2> QED  BY <2>1, <2>2 DEF RebuiltInv
<1>3. ASSUME VerStep  PROVE RebuiltInv'
  <2>1. CASE Return \/ Compare
    <3>1. vpc' \in {"idle", "returned"}  BY <2>1 DEF Return, Compare
    <3> QED  BY <3>1 DEF RebuiltInv
  <2>2. ASSUME vpc \in {"scan", "remove"}
        PROVE  Shape(packet) /\ HoldsHeader(packet) /\ HeaderLen \in Nat /\ HeaderLen <= 60
    <3>1. HoldsHeader(packet) /\ Shape(packet)  BY <2>2, PacketShape DEF VerifierInv
    <3> QED  BY <3>1, HeaderAt
  <2>3. ASSUME vpc = "remove",
               NEW t \in Field(header, pos), NEW len \in Field(header, pos + 1),
               RemoveEnd(t, len) \/ RemoveSkip(t, len) \/ RemoveOption(t, len)
        PROVE  RebuiltInv'
    <3> DEFINE start == received - 4
    <3>1. FoundAt(start) /\ received \in Nat /\ header = AdjustFields(IpHeader)
      BY <2>3 DEF RebuiltInv
    <3>2. UNCHANGED <<packet, received>> /\ start' = start
      BY <2>3 DEF RemoveEnd, RemoveSkip, RemoveOption
    <3>3. FoundAt(start)' /\ received' \in Nat
      BY <3>1, <3>2, SameWalk DEF FoundAt
    <3>4. start \in Nat /\ 20 <= start /\ start + 36 <= HeaderLen  BY <3>1 DEF FoundAt
    <3>5. ASSUME NoNop(packet, start)
          PROVE  /\ pos \in Nat /\ 20 <= pos /\ pos <= start /\ Leads(packet, pos, start)
                 /\ At(packet, 14 + start) = Lit(25) /\ At(packet, 15 + start) = Lit(36)
                 /\ Hop(packet, pos) \in Nat /\ pos < Hop(packet, pos)
                 /\ Hop(packet, pos) = pos + OptStep(len)
                 /\ t # None /\ len # None
      <4> HIDE DEF start
      <4>1. pos \in Nat /\ 20 <= pos /\ Leads(packet, pos, start)
        BY <2>3, <3>5 DEF RebuiltInv, start
      <4>2. pos <= start  BY <3>4, <4>1, LeadsUp
      <4>3. At(packet, 14 + start) = Lit(25) /\ At(packet, 15 + start) = Lit(36)
        BY <3>1, <3>5 DEF FoundAt
      <4>4. /\ Val(packet, 15 + pos) \in Nat /\ At(packet, 15 + pos) = Lit(Val(packet, 15 + pos))
            /\ Hop(packet, pos) \in Nat /\ pos < Hop(packet, pos)
        BY <3>4, <3>5, <4>1, <4>2, HopForward
      <4>5. pos < HeaderLen /\ pos + 1 < HeaderLen /\ pos + 1 \in Nat /\ 14 + (pos + 1) = 15 + pos
        BY <2>2, <2>3, <3>4, <4>1, <4>2
      <4>6. len = Val(packet, 15 + pos)
        <5>1. At(packet, 14 + (pos + 1)) = Lit(Val(packet, 15 + pos))  BY <4>4, <4>5
        <5>2. 20 <= pos + 1  BY <4>1
        <5> QED  BY <2>2, <2>3, <3>1, <4>4, <4>5, <5>1, <5>2, RemoveRead
      <4>7. PICK n \in Nat : At(packet, 14 + pos) = Lit(n)
        <5>1. At(packet, 14 + pos) \in ByteCells
          BY <3>4, <3>5, <4>1, <4>2 DEF NoNop
        <5> QED  BY <5>1, ValOf
      <4>8. t = n  BY <2>2, <2>3, <3>1, <4>1, <4>5, <4>7, RemoveRead
      <4>9. t # None /\ len # None  BY <4>4, <4>6, <4>8 DEF None
      <4> QED  BY <4>1, <4>2, <4>3, <4>4, <4>6, <4>9 DEF Hop
    <3>6. ASSUME NoNop(packet, start), pos = start  PROVE IsHashOption(t, len, pos)
      <4>1. t = 25
        <5>1. start < HeaderLen  BY <2>2, <2>3, <3>4
        <5> HIDE DEF start
        <5> QED  BY <2>2, <2>3, <3>1, <3>4, <3>5, <3>6, <5>1, RemoveRead
      <4>2. len = 36
        <5>1. start + 1 \in Nat /\ 20 <= start + 1 /\ start + 1 < HeaderLen
              /\ 14 + (start + 1) = 15 + start
          BY <2>2, <2>3, <3>4
        <5> HIDE DEF start
        <5>2. At(packet, 14 + (start + 1)) = Lit(36)  BY <3>5, <3>6, <5>1
        <5>3. len \in Field(header, start + 1)  BY <2>3, <3>6
        <5> QED  BY <2>2, <2>3, <3>1, <5>1, <5>2, <5>3, RemoveRead
      <4> QED
        BY <3>4, <3>6, <4>1, <4>2 DEF IsHashOption, IP_OPT_HASH_ID, IP_OPT_HASH_LEN
    <3>7. ASSUME NoNop(packet, start), pos # start
          PROVE  Leads(packet, Hop(packet, pos), start) /\ Hop(packet, pos) <= start
      <4> HIDE DEF start
      <4>1. Leads(packet, Hop(packet, pos), start)  BY <3>4, <3>5, <3>7, LeadsFrom
      <4> QED  BY <3>4, <3>5, <3>7, <4>1, LeadsUp
    <3>8. CASE RemoveEnd(t, len)
      <4>1. t = None \/ len = None  BY <3>8 DEF RemoveEnd
      <4>2. ~NoNop(packet, start)  BY <3>5, <4>1
      <4>3. vpc' = "compare"  BY <3>8 DEF RemoveEnd
      <4> QED  BY <3>2, <3>3, <4>2, <4>3 DEF RebuiltInv
    <3>9. CASE RemoveSkip(t, len)
      <4>1. /\ vpc' = "remove" /\ ~IsHashOption(t, len, pos) /\ pos' = pos + OptStep(len)
            /\ header' = header
        BY <2>3, <3>9 DEF RemoveSkip
      <4>2. ASSUME NoNop(packet, start)
            PROVE  pos' \in Nat /\ 20 <= pos' /\ Leads(packet, pos', start)
        <5>1. pos # start  BY <3>6, <4>1, <4>2
        <5>2. pos' = Hop(packet, pos)  BY <3>5, <4>1, <4>2
        <5>3. Leads(packet, pos', start)  BY <3>7, <4>2, <5>1, <5>2
        <5> HIDE DEF start
        <5> QED  BY <3>5, <4>2, <5>2, <5>3
      <4>3. header' = AdjustFields(IpHeader)'  BY <3>1, <3>2, <4>1, SameWalk
      <4> QED  BY <3>2, <3>3, <4>1, <4>2, <4>3 DEF RebuiltInv
    <3>10. CASE RemoveOption(t, len)
      <4>1. /\ vpc' = "compare" /\ IsHashOption(t, len, pos) /\ header' = ShiftOver(header, pos)
        BY <2>3, <3>10 DEF RemoveOption
      <4>2. ASSUME NoNop(packet, start)  PROVE pos = start
        <5> SUFFICES ASSUME pos # start  PROVE FALSE
          OBVIOUS
        <5>1. Hop(packet, pos) <= start  BY <3>7, <4>2
        <5>2. len = 36  BY <4>1 DEF IsHashOption, IP_OPT_HASH_LEN
        <5>3. OptStep(len) = 36  BY <5>2 DEF OptStep
        <5>4. Hop(packet, pos) = pos + 36 /\ pos \in Nat /\ 20 <= pos  BY <3>5, <4>2, <5>3
        <5> HIDE DEF start
        <5> QED  BY <2>2, <2>3, <3>4, <5>1, <5>4
      <4>3. NoNop(packet, start) => header' = ShiftOver(AdjustFields(IpHeader), start)
        BY <3>1, <4>1, <4>2
      <4>4. ShiftOver(AdjustFields(IpHeader), start)' = ShiftOver(AdjustFields(IpHeader), start)
        BY <3>2, SameWalk, Zenon DEF ShiftOver
      <4> QED  BY <3>2, <3>3, <4>1, <4>3, <4>4 DEF RebuiltInv
    <3> QED  BY <2>3, <3>8, <3>9, <3>10
  <2>4. ASSUME vpc = "scan",
               NEW t \in Field(IpHeader, pos), NEW len \in Field(IpHeader, pos + 1),
               ScanEnd(t, len) \/ ScanNop(t) \/ ScanSkip(t, len) \/ ScanFound(t, len)
        PROVE  RebuiltInv'
    <3>0. pos \in Nat /\ 20 <= pos  BY <2>4 DEF VerifierInv
    <3>1. NoNop(packet, pos) => Leads(packet, 20, pos)  BY <2>4 DEF RebuiltInv
    <3>2. packet' = packet  BY <2>4 DEF ScanEnd, ScanNop, ScanSkip, ScanFound
    <3>3. CASE ScanEnd(t, len)  BY <3>3 DEF ScanEnd, RebuiltInv
    <3>4. CASE ScanNop(t)
      <4>1. t = 1 /\ vpc' = "scan" /\ pos' = pos + 1  BY <2>4, <3>4 DEF ScanNop
      <4>2. ASSUME NoNop(packet, pos + 1)  PROVE FALSE
        <5>1. pos <= (pos + 1) + 1  BY <3>0
        <5>2. At(packet, 14 + pos) \in ByteCells \ {Lit(1)}  BY <3>0, <4>2, <5>1 DEF NoNop
        <5>3. IsLit(At(packet, 14 + pos))  BY <5>2, ByteLit
        <5>4. pos < HeaderLen  BY <2>2, <2>4, <3>0, <4>1, ScanRead DEF None
        <5>5. At(packet, 14 + pos) = Lit(t)  BY <2>2, <2>4, <3>0, <5>3, <5>4, ScanRead
        <5> QED  BY <4>1, <5>2, <5>5
      <4> QED  BY <3>2, <4>1, <4>2 DEF RebuiltInv
    <3>5. CASE ScanSkip(t, len)
      <4>1. vpc' = "scan" /\ pos' = pos + OptStep(len) /\ len # None
        BY <2>4, <3>5 DEF ScanSkip
      <4>2. pos + 1 \in Nat /\ 14 + (pos + 1) = 15 + pos  BY <3>0
      <4>3. pos + 1 < HeaderLen /\ len \in Byte  BY <2>2, <2>4, <4>1, <4>2, ScanRead
      <4>4. len \in Nat  BY <4>3 DEF Byte
      <4>5. pos' \in Nat /\ pos < pos'  BY <3>0, <4>1, <4>4 DEF OptStep
      <4>6. ASSUME NoNop(packet, pos')  PROVE Leads(packet, 20, pos')
        <5>1. NoNop(packet, pos)
          <6> SUFFICES ASSUME NEW q \in Nat, 20 <= q, q <= pos + 1
                       PROVE  At(packet, 14 + q) \in ByteCells \ {Lit(1)}
            BY DEF NoNop
          <6>1. \A a, b \in Nat : a < b /\ q <= a + 1 => q <= b + 1  OBVIOUS
          <6>2. q <= pos' + 1  BY <3>0, <4>5, <6>1
          <6> QED  BY <4>6, <6>2 DEF NoNop
        <5>2. pos <= pos  BY <3>0
        <5>3. /\ At(packet, 15 + pos) = Lit(Val(packet, 15 + pos))
              /\ Hop(packet, pos) \in Nat /\ pos < Hop(packet, pos)
          BY <3>0, <5>1, <5>2, HopForward
        <5>4. IsLit(At(packet, 15 + pos))  BY <5>3, Kinds
        <5>5. At(packet, 14 + (pos + 1)) = Lit(len)
          BY <2>2, <2>4, <4>2, <4>3, <5>4, ScanRead
        <5>6. len = Val(packet, 15 + pos)
          <6>1. Lit(len) = Lit(Val(packet, 15 + pos))  BY <4>2, <5>3, <5>5
          <6> QED  BY <6>1, Kinds
        <5>7. Hop(packet, pos) = pos'  BY <4>1, <5>6 DEF Hop
        <5>8. Leads(packet, 20, Hop(packet, pos))  BY <3>0, <3>1, <5>1, <5>3, LeadsOn
        <5> QED  BY <5>7, <5>8
      <4> QED  BY <3>2, <4>1, <4>6 DEF RebuiltInv
    <3>6. CASE ScanFound(t, len)
      <4>1. /\ t = 25 /\ len = 36 /\ pos + 36 <= HeaderLen
            /\ vpc' = "remove" /\ pos' = 20 /\ received' = pos + 4
            /\ header' = AdjustFields(IpHeader)
        BY <2>4, <3>6 DEF ScanFound, IsHashOption, IP_OPT_HASH_ID, IP_OPT_HASH_LEN, IpLen,
                          IpHeader
      <4>2. received' - 4 = pos /\ received' \in Nat  BY <3>0, <4>1
      <4>3. header' = AdjustFields(IpHeader)'  BY <3>2, <4>1, SameWalk
      <4>4. ASSUME NoNop(packet, pos)
            PROVE  At(packet, 14 + pos) = Lit(25) /\ At(packet, 15 + pos) = Lit(36)
        <5>1. /\ pos < HeaderLen /\ pos + 1 \in Nat /\ pos + 1 < HeaderLen
              /\ 14 + (pos + 1) = 15 + pos /\ pos <= pos + 1 /\ 20 <= pos + 1
          BY <2>2, <2>4, <3>0, <4>1
        <5>2. At(packet, 14 + pos) \in ByteCells /\ At(packet, 14 + (pos + 1)) \in ByteCells
          BY <3>0, <4>4, <5>1 DEF NoNop
        <5>3. IsLit(At(packet, 14 + pos)) /\ IsLit(At(packet, 14 + (pos + 1)))
          BY <5>2, ByteLit
        <5>4. At(packet, 14 + pos) = Lit(t)  BY <2>2, <2>4, <3>0, <5>1, <5>3, ScanRead
        <5>5. At(packet, 14 + (pos + 1)) = Lit(len)
          BY <2>2, <2>4, <5>1, <5>3, ScanRead
        <5> QED  BY <4>1, <5>1, <5>4, <5>5
      <4>6. FoundAt(received - 4)'
        BY <3>0, <3>2, <4>1, <4>2, <4>4, SameWalk DEF FoundAt
      <4> QED  BY <3>1, <3>2, <4>1, <4>2, <4>3, <4>6 DEF RebuiltInv
    <3> QED  BY <2>4, <3>3, <3>4, <3>5, <3>6
  <2> QED  BY <1>3, <2>1, <2>3, <2>4 DEF VerStep
<1>4. ASSUME ~Deliver, ~VerStep, Next  PROVE UNCHANGED verVars
  BY <1>4 DEF Next, Emit, Lose, Foreign, Route, Alter
<1> QED  BY <1>0, <1>1, <1>2, <1>3, <1>4

(* The header after the shift is the two parts around the option.          *)
LEMMA CutOut ==
  ASSUME NEW h, IsFrame(h), NEW s \in Nat, s + 36 <= Len(h)
  PROVE  Bytes(ShiftOver(h, s), 0, Len(h) - 36)
           = Bytes(h, 0, s) \o Bytes(h, s + 36, Len(h) - s - 36)
<1>0. Len(h) \in Nat  BY DEF IsFrame
<1> DEFINE g == ShiftOver(h, s)
           n == Len(h) - 36
           a == Bytes(h, 0, s)
           m == Len(h) - s - 36
           b == Bytes(h, s + 36, m)
           x == Bytes(g, 0, n)
           y == a \o b
<1>1. n \in Nat /\ m \in Nat /\ n = s + m /\ s + 36 \in Nat /\ 0 + s <= Len(h)
      /\ (s + 36) + m <= Len(h) /\ 0 \in Nat /\ 0 + n <= Len(h) /\ s <= n
  BY <1>0
<1>2. IsFrame(g) /\ Len(g) = Len(h)
  <2>1. g = [k \in 1..Len(h) |-> g[k]]  BY DEF ShiftOver
  <2> HIDE DEF g
  <2> QED  BY <1>0, <2>1, FunIsFrame
<1>3. ASSUME NEW k \in Nat, k < n
      PROVE  At(g, k) = IF k < s THEN At(h, k) ELSE At(h, k + 36)
  <2>1. k + 1 \in 1..Len(h) /\ k + 1 <= Len(h) - 36 /\ (s < k + 1 <=> ~(k < s))
        /\ (k + 1) + 36 = (k + 36) + 1
    BY <1>0, <1>3
  <2>2. g[k + 1] = IF s < k + 1 /\ k + 1 <= Len(h) - 36 THEN h[(k + 1) + 36] ELSE h[k + 1]
    BY <2>1 DEF ShiftOver, IP_OPT_HASH_LEN
  <2> HIDE DEF g
  <2> QED  BY <2>1, <2>2 DEF At
<1> HIDE DEF g, n, m
<1>4. /\ IsFrame(x) /\ Len(x) = n /\ \A k \in Nat : k < n => At(x, k) = At(g, 0 + k)
  BY <1>1, <1>2, BytesAt
<1>5. /\ IsFrame(a) /\ Len(a) = s /\ \A k \in Nat : k < s => At(a, k) = At(h, 0 + k)
  BY <1>1, BytesAt
<1>6. /\ IsFrame(b) /\ Len(b) = m /\ \A k \in Nat : k < m => At(b, k) = At(h, (s + 36) + k)
  BY <1>1, BytesAt
<1> HIDE DEF x, a, b
<1>7. /\ IsFrame(y) /\ Len(y) = Len(a) + Len(b)
      /\ \A k \in Nat : k < Len(a) + Len(b) =>
           At(y, k) = IF k < Len(a) THEN At(a, k) ELSE At(b, k - Len(a))
  BY <1>5, <1>6, ConcatAt, Zenon
<1> HIDE DEF y
<1>8. ASSUME NEW k \in Nat, k < n  PROVE At(x, k) = At(y, k)
  <2>1. At(x, k) = At(g, k)
    <3>1. 0 + k = k  OBVIOUS
    <3> QED  BY <1>4, <1>8, <3>1
  <2>2. CASE k < s
    <3>1. 0 + k = k /\ k < s + m  BY <1>1, <2>2
    <3>2. At(y, k) = At(h, k)  BY <1>5, <1>6, <1>7, <2>2, <3>1
    <3> QED  BY <1>3, <1>8, <2>1, <2>2, <3>2
  <2>3. CASE ~(k < s)
    <3>1. k < s + m /\ k - s \in Nat /\ k - s < m /\ (s + 36) + (k - s) = k + 36
      BY <1>1, <1>8, <2>3
    <3>2. At(y, k) = At(b, k - s)  BY <1>5, <1>6, <1>7, <2>3, <3>1
    <3>3. At(b, k - s) = At(h, k + 36)
      <4>1. At(b, k - s) = At(h, (s + 36) + (k - s))  BY <1>6, <3>1
      <4> QED  BY <3>1, <4>1
    <3> QED  BY <1>3, <1>8, <2>1, <2>3, <3>2, <3>3
  <2> QED  BY <2>2, <2>3
<1>9. x = y  BY <1>1, <1>4, <1>5, <1>6, <1>7, <1>8, SameFrame
<1> QED  BY <1>9 DEF x, y, g, n, a, b, m

(* packet_handler hashes the captured header without the option it found,  *)
(* whatever option list came, as long as no one-byte option is before it.  *)
THEOREM HeaderRebuilt == Spec => []RebuiltWithoutOption
<1>1. SigningInv /\ CarryInv /\ VerifierInv /\ RebuiltInv => RebuiltWithoutOption
  <2> DEFINE h == AdjustFields(IpHeader)
             start == received - 4
  <2> SUFFICES ASSUME SigningInv, CarryInv, VerifierInv, RebuiltInv, vpc = "compare",
                      \A q \in 20..(start + 1) : At(IpHeader, q) \in ByteCells \ {Lit(1)}
               PROVE  Bytes(header, 0, TrueHeaderSize)
                        = Bytes(h, 0, start) \o Bytes(h, start + 36, HeaderLen - start - 36)
    BY DEF RebuiltWithoutOption, IP_OPT_HASH_LEN, IpLen
  <2>1. HoldsHeader(packet) /\ Shape(packet)  BY PacketShape DEF VerifierInv
  <2>2. /\ IsFrame(IpHeader) /\ Len(IpHeader) = HeaderLen /\ HeaderLen \in Nat
        /\ HeaderLen <= 60 /\ HeaderLen = 4 * Ihl(packet, 14)
        /\ \A k \in Nat : k < HeaderLen => At(IpHeader, k) = At(packet, 14 + k)
    BY <2>1, HeaderAt
  <2>3. start \in Nat /\ 20 <= start /\ start + 36 <= HeaderLen
    BY DEF RebuiltInv, FoundAt
  <2>4. NoNop(packet, start)
    <3> HIDE DEF start
    <3> SUFFICES ASSUME NEW q \in Nat, 20 <= q, q <= start + 1
                 PROVE  At(packet, 14 + q) \in ByteCells \ {Lit(1)}
      BY DEF NoNop
    <3>1. q \in 20..(start + 1) /\ q < HeaderLen  BY <2>2, <2>3
    <3> QED  BY <2>2, <3>1
  <2>5. header = ShiftOver(h, start)  BY <2>4 DEF RebuiltInv
  <2>6. 20 <= Len(IpHeader)  BY <2>2, <2>3
  <2>7. IsFrame(h) /\ Len(h) = HeaderLen  BY <2>2, <2>6, AdjustedAt DEF IsAdjusted
  <2>8. TrueHeaderSize = HeaderLen - 36
    <3>1. Ihl(packet, 14) \in Nat  BY <2>1, IhlOf
    <3>2. Ihl(packet, 14) \in {14, 15}
      <4> HIDE DEF start
      <4> QED  BY <2>2, <2>3, <3>1
    <3>3. NewIhl = (Ihl(packet, 14) - 9) % 256
      <4>1. 36 \div 4 = 9  OBVIOUS
      <4> QED  BY <4>1 DEF NewIhl, EthLen, IP_OPT_HASH_LEN
    <3>4. NewIhl = Ihl(packet, 14) - 9  BY <3>2, <3>3
    <3> QED  BY <2>2, <3>1, <3>4 DEF TrueHeaderSize
  <2> HIDE DEF h, start
  <2> QED  BY <2>3, <2>5, <2>7, <2>8, CutOut
<1>2. Spec => [](SigningInv /\ CarryInv /\ VerifierInv /\ RebuiltInv)
  BY SigningInitially, SigningStep, VerifierInitially, VerifierStep, RebuiltInitially,
     RebuiltStep, PTL DEF Spec
<1> QED  BY <1>1, <1>2, PTL
=============================================================================
