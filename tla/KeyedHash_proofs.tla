-------------------------- MODULE KeyedHash_proofs --------------------------
(* Proofs about KeyedHash: type correctness, and that every digest is the  *)
(* SHA-256 of the key and the packet's own header, for any number of CPUs  *)
(* and packets and for all sizes that satisfy SizeAssumption.              *)
EXTENDS KeyedHash, SequenceTheorems, TLAPS

LEMMA CoveredIsMaxCopy ==
  ASSUME NEW p \in Packets
  PROVE  /\ Covered(p) = MaxCopy(p)
         /\ MaxCopy(p) \in Nat
         /\ MaxCopy(p) <= HdrMax
         /\ MaxCopy(p) <= HeaderLen[p]
  BY SizeAssumption, InputAssumption DEF Covered, MaxCopy

(* A message of at most one block is padded to one block if the length     *)
(* still fits behind it, and to two otherwise.                             *)
LEMMA RefBlocksValue ==
  ASSUME NEW p \in Packets
  PROVE  RefBlocks(p) = IF MsgLen(p) < LenPos THEN 1 ELSE 2
<1>1. MsgLen(p) \in Nat /\ MsgLen(p) <= BlockLen
  BY CoveredIsMaxCopy, SizeAssumption DEF MsgLen
<1> DEFINE n == MsgLen(p) + LenBytes
<1>2. n \in Nat /\ n < 2 * BlockLen /\ 0 < BlockLen
  BY <1>1, SizeAssumption DEF LenBytes
<1>3. CASE n < BlockLen
  <2>1. n \div BlockLen = 0
    BY <1>2, <1>3, SizeAssumption
  <2> QED BY <1>1, <1>3, <2>1, SizeAssumption DEF RefBlocks, LenBytes
<1>4. CASE ~(n < BlockLen)
  <2>1. n \div BlockLen = 1
    BY <1>2, <1>4, SizeAssumption
  <2> QED BY <1>1, <1>4, <2>1, SizeAssumption DEF RefBlocks, LenBytes
<1> QED BY <1>3, <1>4

LEMMA UpdateLenBounds ==
  ASSUME TypeOK, NEW c \in CPUs
  PROVE  /\ UpdateLen(c) = MsgLen(pkt[c])
         /\ UpdateLen(c) \in Nat
         /\ UpdateLen(c) <= BlockLen
<1>1. pkt[c] \in Packets
  BY DEF TypeOK
<1> QED BY <1>1, CoveredIsMaxCopy, SizeAssumption DEF UpdateLen, MsgLen

(* The copies give every cell of the buffer a byte or keep what it held.   *)
LEMMA CopyInputType ==
  ASSUME NEW p \in Packets, HeaderLen[p] <= Avail[p],
         NEW old \in [0..(BufLen - 1) -> Cell]
  PROVE  CopyInput(p, old) \in [0..(BufLen - 1) -> Cell]
<1> SUFFICES ASSUME NEW k \in 0..(BufLen - 1)
             PROVE  CopyInput(p, old)[k] \in Cell
  BY DEF CopyInput
<1>1. CASE k < KeyLen
  BY <1>1, SizeAssumption, InputAssumption DEF CopyInput, KeyByte, Cell
<1>2. CASE ~(k < KeyLen) /\ k - KeyLen < MaxCopy(p) /\ k - KeyLen < Avail[p]
  <2>1. k - KeyLen \in 0..(Avail[p] - 1)
    BY <1>2, SizeAssumption, InputAssumption
  <2> QED BY <1>2, <2>1, InputAssumption DEF CopyInput, Cell
<1>3. CASE ~(k < KeyLen) /\ ~(k - KeyLen < MaxCopy(p) /\ k - KeyLen < Avail[p])
  BY <1>3 DEF CopyInput
<1> QED BY <1>1, <1>2, <1>3

Ctx == [data : Block, datalen : Cells, bitlen : Nat, state : Seq(Block)]

LEMMA ByteOfType ==
  ASSUME NEW n \in Nat, NEW j \in Nat
  PROVE  ByteOf(n, j) \in Byte
  BY DEF ByteOf, Byte

LEMMA FinalCtxType ==
  ASSUME NEW x \in Ctx
  PROVE  FinalCtx(x) \in Ctx
<1>0. 0 \in Cell /\ 128 \in Cell
  BY DEF Cell, Byte
<1>1. ASSUME NEW end \in Nat PROVE PadTo(x, end) \in Ctx
  <2>1. [k \in Cells |-> IF k = PadStart(x) THEN 128
                          ELSE IF PadStart(x) < k /\ k < end THEN 0
                          ELSE x.data[k]] \in Block
    BY <1>0 DEF Ctx, Block
  <2> QED BY <2>1 DEF PadTo, Ctx
<1>2. ASSUME NEW y \in Ctx PROVE Compress(y) \in Ctx /\ ZeroToLen(y) \in Ctx
  <2>1. [k \in Cells |-> IF k < LenPos THEN 0 ELSE y.data[k]] \in Block
    BY <1>0 DEF Ctx, Block
  <2>2. ZeroToLen(y) \in Ctx
    BY <2>1 DEF ZeroToLen, Ctx
  <2>3. Append(y.state, y.data) \in Seq(Block)
    BY DEF Ctx
  <2>4. Compress(y) \in Ctx
    BY <2>3 DEF Compress, Ctx
  <2> QED BY <2>2, <2>4
<1>3. Pad(x) \in Ctx
  BY <1>1, <1>2, SizeAssumption DEF Pad
<1>4. ASSUME NEW y \in Ctx PROVE AppendLength(y) \in Ctx
  <2> DEFINE bits == y.bitlen + 8 * y.datalen
  <2>1. bits \in Nat
    BY SizeAssumption DEF Ctx, Cells
  <2>2. \A k \in Cells : ByteOf(bits, BlockLen - 1 - k) \in Cell
    BY <2>1, ByteOfType, SizeAssumption DEF Cells, Cell
  <2> HIDE DEF bits
  <2>3. [k \in Cells |-> IF k < LenPos THEN y.data[k]
                          ELSE ByteOf(bits, BlockLen - 1 - k)] \in Block
    BY <2>2 DEF Ctx, Block
  <2> QED BY <2>1, <2>3 DEF AppendLength, Ctx, bits
<1> QED BY <1>2, <1>3, <1>4 DEF FinalCtx

LEMMA UpdateCtxType ==
  ASSUME NEW x \in Ctx, NEW b \in Cell
  PROVE  (IF FullBlock(PutByte(x, b)) THEN EndBlock(PutByte(x, b))
          ELSE PutByte(x, b)) \in Ctx
<1> DEFINE y == PutByte(x, b)
<1>1. /\ x.datalen \in Nat /\ x.datalen < BlockLen
      /\ x.data \in Block /\ x.bitlen \in Nat /\ x.state \in Seq(Block)
  BY SizeAssumption DEF Ctx, Cells
<1>2. [x.data EXCEPT ![x.datalen] = b] \in Block
  BY DEF Ctx, Block
<1>3. /\ y.data \in Block /\ y.datalen = x.datalen + 1
      /\ y.bitlen = x.bitlen /\ y.state = x.state
      /\ y = [data |-> y.data, datalen |-> x.datalen + 1,
              bitlen |-> x.bitlen, state |-> x.state]
  <2> DEFINE d == [x.data EXCEPT ![x.datalen] = b]
  <2>1. y = [x EXCEPT !.data = d, !.datalen = x.datalen + 1]
    BY DEF PutByte, Ctx
  <2> HIDE DEF d
  <2>2. y = [data |-> d, datalen |-> x.datalen + 1,
             bitlen |-> x.bitlen, state |-> x.state]
    BY <2>1 DEF Ctx
  <2> QED BY <1>2, <2>2 DEF d
<1>4. CASE FullBlock(y)
  <2>1. Append(y.state, y.data) \in Seq(Block)
    BY <1>1, <1>3
  <2>2. EndBlock(y) = [data |-> y.data, datalen |-> 0,
                       bitlen |-> x.bitlen + 8 * BlockLen,
                       state |-> Append(y.state, y.data)]
    BY <1>3 DEF EndBlock, Compress
  <2> QED BY <1>1, <1>3, <1>4, <2>1, <2>2, SizeAssumption DEF Ctx, Cells
<1>5. CASE ~FullBlock(y)
  <2>1. x.datalen + 1 \in Cells
    BY <1>1, <1>3, <1>5, SizeAssumption DEF FullBlock, Cells
  <2> QED BY <1>1, <1>3, <1>5, <2>1 DEF Ctx
<1> QED BY <1>4, <1>5

LEMMA InitType == Init => TypeOK
<1> SUFFICES ASSUME Init PROVE TypeOK
  OBVIOUS
<1>1. 0 \in Cell /\ 0 \in Cells
  BY SizeAssumption DEF Cell, Byte, Cells
<1> QED BY <1>1 DEF Init, TypeOK, Block, Idle

(* Every step keeps the types; datalen returns to 0 when a block is full.  *)
LEMMA NextType == TypeOK /\ [Next]_vars => TypeOK'
<1> SUFFICES ASSUME TypeOK, [Next]_vars PROVE TypeOK'
  OBVIOUS
<1> USE DEF TypeOK, Slot
<1>0. ScheduleOverBuffer \in [0..(BufLen - 1) -> Cell]
  BY DEF ScheduleOverBuffer, Cell
<1>c. ctx \in [CPUs -> Ctx]
  BY DEF Ctx
<1>1. ASSUME NEW c \in CPUs, NEW p \in Packets, Reject(c, p) PROVE TypeOK'
  BY <1>1 DEF Reject, Failed
<1>2. ASSUME NEW c \in CPUs, NEW p \in Packets, CopyKeyAndHeader(c, p)
      PROVE  TypeOK'
  <2>1. CopyInput(p, temp[c]) \in [0..(BufLen - 1) -> Cell]
    BY <1>2, CopyInputType DEF CopyKeyAndHeader
  <2> QED BY <1>2, <2>1 DEF CopyKeyAndHeader, Copied
<1>3. ASSUME NEW c \in CPUs, Sha256Init(c) PROVE TypeOK'
  <2>1. InitCtx(ctx[c]) \in Ctx
    BY <1>c, SizeAssumption DEF InitCtx, Ctx, Cells
  <2>2. ctx' \in [CPUs -> Ctx]
    BY <1>3, <1>c, <2>1 DEF Sha256Init
  <2> QED BY <1>3, <2>2 DEF Sha256Init, Updating, Ctx
<1>4. ASSUME NEW c \in CPUs, Sha256UpdateByte(c) PROVE TypeOK'
  <2>1. i[c] \in 0..(BufLen - 1)
    BY <1>4, UpdateLenBounds, SizeAssumption DEF Sha256UpdateByte
  <2>2. temp[c][i[c]] \in Cell /\ ctx[c] \in Ctx
    BY <2>1, <1>c
  <2> DEFINE x == PutByte(ctx[c], temp[c][i[c]])
  <2>3. (IF FullBlock(x) THEN EndBlock(x) ELSE x) \in Ctx
    BY <2>2, UpdateCtxType
  <2>4. /\ ctx' = [ctx EXCEPT ![c] = IF FullBlock(x) THEN EndBlock(x) ELSE x]
        /\ temp' = IF FullBlock(x) THEN [temp EXCEPT ![c] = ScheduleOverBuffer]
                   ELSE temp
        /\ i' = [i EXCEPT ![c] = @ + 1]
        /\ UNCHANGED <<pc, pkt, hash>>
    BY <1>4 DEF Sha256UpdateByte
  <2> HIDE DEF x
  <2>5. ctx' \in [CPUs -> Ctx]
    BY <1>c, <2>3, <2>4
  <2> QED BY <1>0, <2>4, <2>5 DEF Ctx
<1>5. ASSUME NEW c \in CPUs, Sha256Final(c) PROVE TypeOK'
  <2>1. FinalCtx(ctx[c]) \in Ctx
    BY <1>c, FinalCtxType
  <2>2. ctx' \in [CPUs -> Ctx] /\ hash' \in [CPUs -> Seq(Block)]
    BY <1>5, <1>c, <2>1 DEF Sha256Final, Ctx
  <2> QED BY <1>0, <1>5, <2>2 DEF Sha256Final, Done, Ctx
<1>6. ASSUME NEW c \in CPUs, Return(c) PROVE TypeOK'
  BY <1>6 DEF Return, Idle
<1>7. CASE UNCHANGED vars
  BY <1>7 DEF vars
<1> QED BY <1>1, <1>2, <1>3, <1>4, <1>5, <1>6, <1>7 DEF Next

(* Type correctness of the hashing state, datalen < 64 included.           *)
THEOREM TypeCorrect == Spec => []TypeOK
BY InitType, NextType, PTL DEF Spec

-----------------------------------------------------------------------------
(* The blocks sha256_final compresses: one if the length still fits behind *)
(* the message, otherwise the padded message and a block with the length.  *)
LastBlock(x, bits) ==
  [k \in Cells |-> IF k < x.datalen THEN x.data[k]
                   ELSE IF k = x.datalen THEN 128
                   ELSE IF k < LenPos THEN 0
                   ELSE ByteOf(bits, BlockLen - 1 - k)]
PaddedBlock(x) ==
  [k \in Cells |-> IF k < x.datalen THEN x.data[k]
                   ELSE IF k = x.datalen THEN 128 ELSE 0]
LengthBlock(bits) ==
  [k \in Cells |-> IF k < LenPos THEN 0 ELSE ByteOf(bits, BlockLen - 1 - k)]

LEMMA FinalState ==
  ASSUME NEW x \in Ctx
  PROVE  LET bits == x.bitlen + 8 * x.datalen IN
         FinalCtx(x).state =
           IF x.datalen < LenPos
           THEN Append(x.state, LastBlock(x, bits))
           ELSE Append(Append(x.state, PaddedBlock(x)), LengthBlock(bits))
<1> DEFINE bits == x.bitlen + 8 * x.datalen
<1>1. x.datalen \in Nat /\ x.datalen < BlockLen /\ PadStart(x) = x.datalen
  BY SizeAssumption DEF Ctx, Cells, PadStart
<1>2. CASE x.datalen < LenPos
  <2> DEFINE d == [k \in Cells |-> IF k = x.datalen THEN 128
                     ELSE IF x.datalen < k /\ k < LenPos THEN 0 ELSE x.data[k]]
             y == [data |-> d, datalen |-> x.datalen,
                   bitlen |-> x.bitlen, state |-> x.state]
  <2>1. Pad(x) = y
    BY <1>1, <1>2 DEF Pad, PadTo, Ctx
  <2>2. FinalCtx(x).state = Append(x.state, [k \in Cells |->
           IF k < LenPos THEN d[k] ELSE ByteOf(bits, BlockLen - 1 - k)])
    BY <2>1 DEF FinalCtx, Compress, AppendLength
  <2>3. [k \in Cells |-> IF k < LenPos THEN d[k]
                          ELSE ByteOf(bits, BlockLen - 1 - k)]
        = LastBlock(x, bits)
    BY <1>1, <1>2, SizeAssumption DEF LastBlock, Cells
  <2> QED BY <1>2, <2>2, <2>3
<1>3. CASE ~(x.datalen < LenPos)
  <2> DEFINE d == [k \in Cells |-> IF k = x.datalen THEN 128
                     ELSE IF x.datalen < k /\ k < BlockLen THEN 0 ELSE x.data[k]]
             z == [k \in Cells |-> IF k < LenPos THEN 0 ELSE d[k]]
             y == [data |-> z, datalen |-> x.datalen,
                   bitlen |-> x.bitlen, state |-> Append(x.state, d)]
  <2>1. d = PaddedBlock(x)
    BY <1>1, SizeAssumption DEF PaddedBlock, Cells
  <2>2. PadTo(x, BlockLen) = [data |-> d, datalen |-> x.datalen,
                              bitlen |-> x.bitlen, state |-> x.state]
    BY <1>1 DEF PadTo, Ctx
  <2>3. Pad(x) = y
    <3> DEFINE w == [data |-> d, datalen |-> x.datalen,
                     bitlen |-> x.bitlen, state |-> Append(x.state, d)]
    <3>1. Compress(PadTo(x, BlockLen)) = w
      <4> HIDE DEF d
      <4> QED BY <2>2 DEF Compress
    <3>2. ZeroToLen(w) = y
      <4> HIDE DEF d
      <4>1. w.data = d
        OBVIOUS
      <4>2. ZeroToLen(w) = [w EXCEPT !.data = z]
        <5> HIDE DEF w
        <5> QED BY <4>1 DEF ZeroToLen
      <4> HIDE DEF z
      <4> QED BY <4>2
    <3> QED BY <1>3, <3>1, <3>2 DEF Pad
  <2>4. FinalCtx(x).state = Append(Append(x.state, d), [k \in Cells |->
           IF k < LenPos THEN z[k] ELSE ByteOf(bits, BlockLen - 1 - k)])
    BY <2>3 DEF FinalCtx, Compress, AppendLength
  <2>5. [k \in Cells |-> IF k < LenPos THEN z[k]
                          ELSE ByteOf(bits, BlockLen - 1 - k)]
        = LengthBlock(bits)
    BY DEF LengthBlock
  <2> QED BY <1>3, <2>1, <2>4, <2>5
<1> QED BY <1>2, <1>3

LEMMA AppendTwo ==
  ASSUME NEW a, NEW b
  PROVE  Append(Append(<<>>, a), b) = <<a, b>> /\ Append(<<a>>, b) = <<a, b>>
<1>1. Append(<<>>, a) = <<a>>
  OBVIOUS
<1>2. Append(<<a>>, b) = <<a, b>>
  <2>1. <<a>> \in Seq({a, b}) /\ Len(<<a>>) = 1 /\ <<a>>[1] = a
    OBVIOUS
  <2> DEFINE t == Append(<<a>>, b)
  <2>2. Len(t) = 2 /\ t[1] = a /\ t[2] = b /\ t \in Seq({a, b})
    BY <2>1
  <2>3. <<a, b>> \in Seq({a, b}) /\ Len(<<a, b>>) = 2
    OBVIOUS
  <2>4. \A n \in 1..2 : t[n] = <<a, b>>[n]
    BY <2>2
  <2> QED BY <2>2, <2>3, <2>4, SeqEqual
<1> QED BY <1>1, <1>2

(* The two shapes of the reference digest.                                 *)
LEMMA RefDigestShape ==
  ASSUME NEW p \in Packets
  PROVE  RefDigest(p) =
           IF MsgLen(p) < LenPos
           THEN <<[k \in Cells |-> RefByte(p, k)]>>
           ELSE <<[k \in Cells |-> RefByte(p, k)],
                  [k \in Cells |-> RefByte(p, BlockLen + k)]>>
<1>1. \A k \in Cells : /\ (1 - 1) * BlockLen + k = k
                       /\ (2 - 1) * BlockLen + k = BlockLen + k
  BY SizeAssumption DEF Cells
<1>2. CASE MsgLen(p) < LenPos
  <2>1. RefBlocks(p) = 1
    BY <1>2, RefBlocksValue
  <2> QED BY <1>1, <1>2, <2>1 DEF RefDigest
<1>3. CASE ~(MsgLen(p) < LenPos)
  <2>1. RefBlocks(p) = 2
    BY <1>3, RefBlocksValue
  <2> QED BY <1>1, <1>3, <2>1 DEF RefDigest
<1> QED BY <1>2, <1>3

(* sha256_final on a context that holds the message yields the reference.  *)
LEMMA FinalIsReference ==
  ASSUME NEW p \in Packets, NEW x \in Ctx,
         \/ /\ MsgLen(p) < BlockLen
            /\ x.datalen = MsgLen(p) /\ x.bitlen = 0 /\ x.state = <<>>
            /\ \A k \in 0..(MsgLen(p) - 1) : x.data[k] = Msg(p, k)
         \/ /\ MsgLen(p) = BlockLen
            /\ x.datalen = 0 /\ x.bitlen = 8 * BlockLen
            /\ x.state = <<[k \in Cells |-> Msg(p, k)]>>
  PROVE  FinalCtx(x).state = RefDigest(p)
<1> DEFINE L == MsgLen(p)
           bits == x.bitlen + 8 * x.datalen
<1>1. L \in Nat /\ L <= BlockLen
  BY CoveredIsMaxCopy, SizeAssumption DEF MsgLen
<1>2. bits = 8 * L
  BY <1>1, SizeAssumption
<1>3. RefBlocks(p) = IF L < LenPos THEN 1 ELSE 2
  BY RefBlocksValue
<1>f. FinalCtx(x).state =
        IF x.datalen < LenPos
        THEN Append(x.state, LastBlock(x, bits))
        ELSE Append(Append(x.state, PaddedBlock(x)), LengthBlock(bits))
  BY FinalState
<1>4. CASE L < LenPos
  <2>1. \A k \in Cells : LastBlock(x, bits)[k] = RefByte(p, k)
    BY <1>1, <1>2, <1>3, <1>4, SizeAssumption
       DEF LastBlock, RefByte, LenBytes, Cells
  <2>2. LastBlock(x, bits) = [k \in Cells |-> RefByte(p, k)]
    BY <2>1 DEF LastBlock
  <2>3. FinalCtx(x).state = Append(<<>>, LastBlock(x, bits))
    <3>1. x.datalen = L /\ x.state = <<>>
      BY <1>1, <1>4, SizeAssumption
    <3> QED BY <1>4, <1>f, <3>1
  <2> QED BY <1>4, <2>2, <2>3, RefDigestShape
<1>5. CASE LenPos <= L /\ L < BlockLen
  <2>1. \A k \in Cells : PaddedBlock(x)[k] = RefByte(p, k)
    BY <1>1, <1>3, <1>5, SizeAssumption
       DEF PaddedBlock, RefByte, LenBytes, Cells
  <2>2. \A k \in Cells : LengthBlock(bits)[k] = RefByte(p, BlockLen + k)
    BY <1>1, <1>2, <1>3, <1>5, SizeAssumption
       DEF LengthBlock, RefByte, LenBytes, Cells
  <2>3. FinalCtx(x).state
        = Append(Append(<<>>, PaddedBlock(x)), LengthBlock(bits))
    BY <1>1, <1>5, <1>f, SizeAssumption
  <2>4. /\ PaddedBlock(x) = [k \in Cells |-> RefByte(p, k)]
        /\ LengthBlock(bits) = [k \in Cells |-> RefByte(p, BlockLen + k)]
    BY <2>1, <2>2 DEF PaddedBlock, LengthBlock
  <2>5. RefDigest(p) = <<PaddedBlock(x), LengthBlock(bits)>>
    BY <1>1, <1>5, <2>4, SizeAssumption, RefDigestShape
  <2> QED BY <2>3, <2>5, AppendTwo
<1>6. CASE L = BlockLen
  <2>1. x.datalen = 0 /\ x.state = <<[k \in Cells |-> Msg(p, k)]>>
    BY <1>6, SizeAssumption
  <2>2. \A k \in Cells : Msg(p, k) = RefByte(p, k)
    BY <1>6, SizeAssumption DEF RefByte, Cells
  <2>3. \A k \in Cells : LastBlock(x, bits)[k] = RefByte(p, BlockLen + k)
    BY <1>2, <1>3, <1>6, <2>1, SizeAssumption
       DEF LastBlock, RefByte, LenBytes, Cells
  <2>4. LastBlock(x, bits) = [k \in Cells |-> RefByte(p, BlockLen + k)]
    BY <2>3 DEF LastBlock
  <2>5. x.state = <<[k \in Cells |-> RefByte(p, k)]>>
    BY <2>1, <2>2
  <2>6. FinalCtx(x).state = Append(x.state, LastBlock(x, bits))
    BY <1>f, <2>1, SizeAssumption
  <2>7. RefDigest(p) = <<[k \in Cells |-> RefByte(p, k)], LastBlock(x, bits)>>
    BY <1>6, <2>4, SizeAssumption, RefDigestShape
  <2> QED BY <2>5, <2>6, <2>7, AppendTwo
<1> QED BY <1>1, <1>4, <1>5, <1>6, SizeAssumption

-----------------------------------------------------------------------------
LEMMA HashInvInit == Init => HashInv
BY DEF Init, HashInv, Idle, Copied, Updating, Done

(* A step of CPU c leaves what HashInv says of the other CPUs untouched.   *)
CpuInv(c) ==
  /\ pc[c] = Copied => BufferIsMsg(c)
  /\ pc[c] = Updating =>
       /\ i[c] <= UpdateLen(c)
       /\ i[c] < BlockLen => BufferIsMsg(c) /\ ConsumedPrefix(c)
       /\ i[c] = BlockLen => ConsumedBlock(c)
  /\ pc[c] = Done => hash[c] = RefDigest(pkt[c])

LEMMA OtherCpu ==
  ASSUME NEW d \in CPUs, CpuInv(d),
         pc'[d] = pc[d], pkt'[d] = pkt[d], temp'[d] = temp[d],
         ctx'[d] = ctx[d], i'[d] = i[d], hash'[d] = hash[d]
  PROVE  CpuInv(d)'
BY DEF CpuInv, BufferIsMsg, ConsumedPrefix, ConsumedBlock, UpdateLen, Msg

LEMMA HashInvNext == TypeOK /\ HashInv /\ [Next]_vars => HashInv'
<1> SUFFICES ASSUME TypeOK, HashInv, [Next]_vars PROVE HashInv'
  OBVIOUS
<1>0. /\ \A d \in CPUs : CpuInv(d)
      /\ (\A d \in CPUs : CpuInv(d)') => HashInv'
  BY DEF HashInv, CpuInv
<1>t. /\ pc \in [CPUs -> {Idle, Copied, Updating, Done, Failed}]
      /\ pkt \in [CPUs -> Packets]
      /\ temp \in [CPUs -> [0..(BufLen - 1) -> Cell]]
      /\ ctx \in [CPUs -> Ctx]
      /\ i \in [CPUs -> Nat]
      /\ hash \in [CPUs -> Seq(Block)]
  BY DEF TypeOK, Ctx
<1> USE DEF Slot
<1> SUFFICES ASSUME NEW d \in CPUs PROVE CpuInv(d)'
  BY <1>0
<1>1. ASSUME NEW c \in CPUs, NEW p \in Packets, Reject(c, p)
      PROVE  CpuInv(d)'
  <2>1. CASE c = d
    BY <1>1, <1>t, <2>1 DEF Reject, CpuInv, Failed, Copied, Updating, Done
  <2>2. CASE c # d
    BY <1>0, <1>1, <1>t, <2>2, OtherCpu DEF Reject
  <2> QED BY <2>1, <2>2
<1>2. ASSUME NEW c \in CPUs, NEW p \in Packets, CopyKeyAndHeader(c, p)
      PROVE  CpuInv(d)'
  <2>1. CASE c = d
    <3>1. /\ pc'[d] = Copied /\ pkt'[d] = p
          /\ temp'[d] = CopyInput(p, temp[d])
          /\ HeaderLen[p] <= Avail[p]
      BY <1>2, <1>t, <2>1 DEF CopyKeyAndHeader
    <3>2. \A k \in 0..(KeyLen + MaxCopy(p) - 1) :
            CopyInput(p, temp[d])[k] = Msg(p, k)
      <4> SUFFICES ASSUME NEW k \in 0..(KeyLen + MaxCopy(p) - 1)
                   PROVE  CopyInput(p, temp[d])[k] = Msg(p, k)
        OBVIOUS
      <4>1. /\ k \in 0..(BufLen - 1)
            /\ ~(k < KeyLen) => /\ k - KeyLen < MaxCopy(p)
                                /\ k - KeyLen < Avail[p]
        BY <3>1, CoveredIsMaxCopy, SizeAssumption, InputAssumption
      <4> QED BY <4>1 DEF CopyInput, Msg
    <3>3. BufferIsMsg(d)'
      <4>1. UpdateLen(d)' = KeyLen + MaxCopy(p)
        BY <3>1 DEF UpdateLen
      <4>2. \A k \in 0..(UpdateLen(d)' - 1) : temp'[d][k] = Msg(p, k)
        BY <3>1, <3>2, <4>1, CoveredIsMaxCopy, SizeAssumption
      <4> QED BY <3>1, <4>2 DEF BufferIsMsg, Msg
    <3> QED BY <3>1, <3>3 DEF CpuInv, Copied, Updating, Done
  <2>2. CASE c # d
    BY <1>0, <1>2, <1>t, <2>2, OtherCpu DEF CopyKeyAndHeader
  <2> QED BY <2>1, <2>2
<1>3. ASSUME NEW c \in CPUs, Sha256Init(c) PROVE CpuInv(d)'
  <2>1. CASE c = d
    <3>1. /\ pc[d] = Copied /\ pc'[d] = Updating /\ i'[d] = 0
          /\ ctx'[d] = InitCtx(ctx[d])
          /\ pkt' = pkt /\ temp' = temp
      BY <1>3, <1>t, <2>1 DEF Sha256Init
    <3>2. BufferIsMsg(d)'
      <4>1. BufferIsMsg(d)
        BY <1>0, <3>1 DEF CpuInv
      <4>2. UpdateLen(d)' = UpdateLen(d)
        BY <3>1 DEF UpdateLen
      <4> QED BY <3>1, <4>1, <4>2 DEF BufferIsMsg, Msg
    <3>3. ConsumedPrefix(d)'
      BY <3>1 DEF ConsumedPrefix, InitCtx
    <3>4. UpdateLen(d)' = UpdateLen(d) /\ 0 <= UpdateLen(d)
      BY <3>1, UpdateLenBounds DEF UpdateLen
    <3> QED BY <3>1, <3>2, <3>3, <3>4, SizeAssumption
            DEF CpuInv, Copied, Updating, Done
  <2>2. CASE c # d
    BY <1>0, <1>3, <1>t, <2>2, OtherCpu DEF Sha256Init
  <2> QED BY <2>1, <2>2
<1>4. ASSUME NEW c \in CPUs, Sha256UpdateByte(c) PROVE CpuInv(d)'
  <2>0. /\ pc[c] = Updating /\ i[c] < UpdateLen(c)
        /\ pc' = pc /\ pkt' = pkt /\ hash' = hash
        /\ i' = [i EXCEPT ![c] = i[c] + 1]
    BY <1>4, <1>t DEF Sha256UpdateByte
  <2>1. CASE c = d
    <3> DEFINE x == PutByte(ctx[d], temp[d][i[d]])
    <3>1. /\ UpdateLen(d) = MsgLen(pkt[d]) /\ UpdateLen(d) \in Nat
          /\ UpdateLen(d) <= BlockLen /\ i[d] \in Nat /\ i[d] < BlockLen
          /\ UpdateLen(d)' = UpdateLen(d) /\ i'[d] = i[d] + 1
      <4>1. UpdateLen(d)' = UpdateLen(d)
        BY <2>0 DEF UpdateLen
      <4> QED BY <1>t, <2>0, <2>1, <4>1, UpdateLenBounds, SizeAssumption
    <3>2. BufferIsMsg(d) /\ ConsumedPrefix(d)
      BY <1>0, <2>0, <2>1, <3>1 DEF CpuInv
    <3>3. temp[d][i[d]] = Msg(pkt[d], i[d])
      BY <2>0, <2>1, <3>1, <3>2 DEF BufferIsMsg
    <3>4. /\ x.datalen = i[d] + 1 /\ x.bitlen = 0 /\ x.state = <<>>
          /\ x.data \in [Cells -> Cell]
          /\ \A k \in 0..i[d] : x.data[k] = Msg(pkt[d], k)
          /\ x = [data |-> x.data, datalen |-> i[d] + 1,
                  bitlen |-> 0, state |-> <<>>]
      <4> DEFINE b == temp[d][i[d]]
                 e == [ctx[d].data EXCEPT ![i[d]] = b]
      <4>1. /\ ctx[d] \in Ctx /\ ctx[d].datalen = i[d] /\ ctx[d].bitlen = 0
            /\ ctx[d].state = <<>> /\ ctx[d].data \in [Cells -> Cell]
        BY <1>t, <3>2 DEF ConsumedPrefix, Ctx, Block
      <4>2. b \in Cell
        <5>1. i[d] \in 0..(BufLen - 1)
          BY <3>1, SizeAssumption
        <5> QED BY <1>t, <5>1
      <4>3. e \in [Cells -> Cell]
        BY <4>1, <4>2
      <4>4. \A k \in 0..i[d] : e[k] = Msg(pkt[d], k)
        BY <3>1, <3>2, <3>3, <4>1, SizeAssumption DEF ConsumedPrefix, Cells
      <4>5. x = [ctx[d] EXCEPT !.data = e, !.datalen = i[d] + 1]
        BY <4>1 DEF PutByte, Ctx
      <4> HIDE DEF e
      <4>6. x = [data |-> e, datalen |-> i[d] + 1, bitlen |-> 0, state |-> <<>>]
        BY <4>1, <4>5 DEF Ctx
      <4> QED BY <4>3, <4>4, <4>6
    <3>5. /\ ctx'[d] = IF FullBlock(x) THEN EndBlock(x) ELSE x
          /\ ~FullBlock(x) => temp'[d] = temp[d]
      BY <1>4, <1>t, <2>1 DEF Sha256UpdateByte
    <3> HIDE DEF x
    <3>6. CASE FullBlock(x)
      <4>1. i[d] + 1 = BlockLen
        BY <3>4, <3>6 DEF FullBlock
      <4>2. x.data = [k \in Cells |-> Msg(pkt[d], k)]
        <5>1. \A k \in Cells : x.data[k] = Msg(pkt[d], k)
          BY <3>1, <3>4, <4>1, SizeAssumption DEF Cells
        <5> QED BY <3>4, <5>1
      <4>3. EndBlock(x) = [data |-> x.data, datalen |-> 0,
                           bitlen |-> 8 * BlockLen,
                           state |-> Compress(x).state]
        BY <3>4, SizeAssumption DEF EndBlock
      <4>4. Compress(x).state = <<x.data>>
        <5>1. Compress(x).state = Append(<<>>, x.data)
          BY <3>4 DEF Compress
        <5> QED BY <5>1
      <4>5. ConsumedBlock(d)'
        BY <2>0, <3>5, <3>6, <4>2, <4>3, <4>4 DEF ConsumedBlock, Msg
      <4> QED BY <2>0, <2>1, <3>1, <4>1, <4>5, SizeAssumption
              DEF CpuInv, Copied, Updating, Done
    <3>7. CASE ~FullBlock(x)
      <4>1. i[d] + 1 < BlockLen
        BY <3>1, <3>4, <3>7, SizeAssumption DEF FullBlock
      <4>2. ctx'[d] = x /\ temp'[d] = temp[d]
        BY <3>5, <3>7
      <4>3. BufferIsMsg(d)'
        BY <2>0, <3>1, <3>2, <4>2 DEF BufferIsMsg, Msg
      <4>4. ConsumedPrefix(d)'
        BY <2>0, <3>1, <3>4, <4>2 DEF ConsumedPrefix, Msg
      <4> QED BY <2>0, <2>1, <3>1, <4>1, <4>3, <4>4, SizeAssumption
              DEF CpuInv, Copied, Updating, Done
    <3> QED BY <3>6, <3>7
  <2>2. CASE c # d
    BY <1>0, <1>4, <1>t, <2>2, OtherCpu DEF Sha256UpdateByte
  <2> QED BY <2>1, <2>2
<1>5. ASSUME NEW c \in CPUs, Sha256Final(c) PROVE CpuInv(d)'
  <2>1. CASE c = d
    <3>1. /\ pc[d] = Updating /\ pc'[d] = Done /\ pkt'[d] = pkt[d]
          /\ hash'[d] = FinalCtx(ctx[d]).state
          /\ ctx[d] \in Ctx /\ pkt[d] \in Packets
      BY <1>5, <1>t, <2>1 DEF Sha256Final
    <3>2. /\ UpdateLen(d) = MsgLen(pkt[d]) /\ UpdateLen(d) \in Nat
          /\ UpdateLen(d) <= BlockLen
      BY UpdateLenBounds
    <3>3. i[d] = MsgLen(pkt[d])
      <4>1. ctx[d].datalen < BlockLen
        BY <3>1, SizeAssumption DEF Ctx, Cells
      <4>2. i[d] >= UpdateLen(d) /\ i[d] <= UpdateLen(d)
        BY <1>0, <1>5, <2>1, <3>1, <4>1, <1>t, SizeAssumption
           DEF Sha256Final, CpuInv, Ctx, Cells
      <4> QED BY <1>t, <3>2, <4>2
    <3>4. \/ /\ MsgLen(pkt[d]) < BlockLen /\ ConsumedPrefix(d)
          \/ /\ MsgLen(pkt[d]) = BlockLen /\ ConsumedBlock(d)
      BY <1>0, <3>1, <3>2, <3>3, SizeAssumption DEF CpuInv
    <3>5. FinalCtx(ctx[d]).state = RefDigest(pkt[d])
      BY <3>1, <3>3, <3>4, FinalIsReference DEF ConsumedPrefix, ConsumedBlock
    <3> QED BY <3>1, <3>5 DEF CpuInv, Copied, Updating, Done
  <2>2. CASE c # d
    BY <1>0, <1>5, <1>t, <2>2, OtherCpu DEF Sha256Final
  <2> QED BY <2>1, <2>2
<1>6. ASSUME NEW c \in CPUs, Return(c) PROVE CpuInv(d)'
  <2>1. CASE c = d
    BY <1>6, <1>t, <2>1 DEF Return, CpuInv, Idle, Copied, Updating, Done
  <2>2. CASE c # d
    BY <1>0, <1>6, <1>t, <2>2, OtherCpu DEF Return
  <2> QED BY <2>1, <2>2
<1>7. CASE UNCHANGED vars
  BY <1>0, <1>7, OtherCpu DEF vars
<1> QED BY <1>1, <1>2, <1>3, <1>4, <1>5, <1>6, <1>7 DEF Next

(* Every digest compute_keyed_hash returns is SHA-256 of the key bytes and *)
(* of its own packet's header, whatever the maps held before and whatever  *)
(* the other CPUs do, as long as key and header fit in one block.          *)
THEOREM DigestCorrect == Spec => []DigestIsReference
<1>1. HashInv => DigestIsReference
  BY DEF HashInv, DigestIsReference
<1> QED BY TypeCorrect, HashInvInit, HashInvNext, <1>1, PTL DEF Spec
=============================================================================
