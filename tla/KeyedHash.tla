------------------------------ MODULE KeyedHash ------------------------------
(***************************************************************************)
(* compute_keyed_hash of packet-solutions/xdp_prog_kern_02.c and the       *)
(* SHA-256 routines it drives.  The XDP program may run on every CPU at    *)
(* once and keeps its hashing state between packets in two BPF maps with a *)
(* single entry: sha256_ctx_map (the SHA256_CTX) and sha256_temp_map (the  *)
(* buffer that holds key ++ header).  Nothing clears these maps: a packet  *)
(* starts on whatever the previous one left behind, and sha256_transform   *)
(* writes its message schedule over the very bytes of the buffer.          *)
(*                                                                         *)
(* Data abstraction: a byte is a number; the eight state words stand for   *)
(* the sequence of blocks that were compressed into them, so two digests   *)
(* are equal exactly when the same blocks were compressed in the same      *)
(* order.                                                                  *)
(***************************************************************************)
EXTENDS Integers, Sequences

CONSTANTS
  CPUs,         \* CPUs the program runs on
  Packets,      \* packets handed to compute_keyed_hash
  HeaderLen,    \* data_len of each packet (ihl * 4)
  Avail,        \* bytes between data and data_end
  HeaderByte,   \* HeaderByte[p][i] is data[i] of packet p
  SECRET_KEY,   \* the secret key, indexed from 0
  KeyLen,       \* 16 in the code
  HdrMax,       \* 20: the bytes of the header that are hashed
  BlockLen,     \* 64: bytes of a SHA-256 block
  LenPos,       \* 56: where the message length starts in the last block
  BufLen        \* 128: bytes of temp->buffer

Byte == 0..255

ASSUME SizeAssumption ==
  /\ KeyLen \in Nat /\ 1 < KeyLen /\ HdrMax \in Nat
  /\ BlockLen \in Nat /\ LenPos \in Nat /\ BufLen \in Nat
  /\ 0 < LenPos /\ LenPos < BlockLen /\ BlockLen <= BufLen
  /\ KeyLen + HdrMax <= BlockLen

ASSUME InputAssumption ==
  /\ HeaderLen \in [Packets -> Nat]
  /\ Avail \in [Packets -> Nat]
  /\ \A p \in Packets : HeaderByte[p] \in [0..(Avail[p] - 1) -> Byte]
  /\ SECRET_KEY \in [0..(KeyLen - 1) -> Byte]

VARIABLES
  pc,     \* where each CPU is in compute_keyed_hash
  pkt,    \* the packet it works on
  temp,   \* sha256_temp_map: temp->buffer
  ctx,    \* sha256_ctx_map: the SHA256_CTX
  i,      \* loop index of sha256_update
  hash    \* hash_result, on the stack of the caller

vars == <<pc, pkt, temp, ctx, i, hash>>

Idle == "idle"
Copied == "copied"
Updating == "updating"
Done == "done"
Failed == "failed"

(* A byte of a message-schedule word: not the value any copy left there.   *)
Sched == -1
Cell == Byte \cup {Sched}
Cells == 0..(BlockLen - 1)
Block == [Cells -> Cell]

-----------------------------------------------------------------------------
(* Both maps are BPF_MAP_TYPE_PERCPU_ARRAY with one entry.                 *)
Slot_Shared(c) == CHOOSE d \in CPUs : TRUE  \* mutant: BPF_MAP_TYPE_ARRAY
Slot(c) == c

(* The explicit assignments of the key: index 0, then index 1 throughout.  *)
KeyByte(k) == IF k = 0 THEN SECRET_KEY[0] ELSE SECRET_KEY[1]

MaxCopy(p) == IF HeaderLen[p] > HdrMax THEN HdrMax ELSE HeaderLen[p]

(* The guarded byte copies into the buffer; what no copy covers is stale.  *)
CopyInput(p, old) ==
  [k \in 0..(BufLen - 1) |->
     IF k < KeyLen THEN KeyByte(k)
     ELSE IF k - KeyLen < MaxCopy(p) /\ k - KeyLen < Avail[p]
          THEN HeaderByte[p][k - KeyLen]
          ELSE old[k]]

(* The compression of ctx->data; m[] occupies the same bytes as buffer[].  *)
Compress(x) == [x EXCEPT !.state = Append(@, x.data)]
ScheduleOverBuffer == [k \in 0..(BufLen - 1) |-> Sched]

InitCtx(x) ==
  [data |-> x.data, datalen |-> 0, bitlen |-> 0, state |-> <<>>]

(* One iteration of the update loop.                                       *)
PutByte(x, b) ==
  [x EXCEPT !.data = [@ EXCEPT ![x.datalen] = b], !.datalen = @ + 1]
FullBlock_Late(x) == x.datalen > BlockLen  \* mutant: block ends late
FullBlock(x) == x.datalen = BlockLen
EndBlock(x) ==
  [data |-> x.data, datalen |-> 0, bitlen |-> x.bitlen + 8 * BlockLen,
   state |-> Compress(x).state]

PadStart(x) == IF x.datalen >= BlockLen THEN 0 ELSE x.datalen

(* 0x80 and zeros up to position end; the cells from end on are kept.      *)
PadTo(x, end) ==
  [x EXCEPT !.data = [k \in Cells |->
     IF k = PadStart(x) THEN 128
     ELSE IF PadStart(x) < k /\ k < end THEN 0 ELSE x.data[k]]]

ZeroToLen(x) ==
  [x EXCEPT !.data = [k \in Cells |-> IF k < LenPos THEN 0 ELSE x.data[k]]]

Pad(x) == IF x.datalen < LenPos
          THEN PadTo(x, LenPos)
          ELSE ZeroToLen(Compress(PadTo(x, BlockLen)))

(* Byte j, counted from the least significant one, of a length below 2^32. *)
ByteOf(n, j) == IF j > 3 THEN 0 ELSE (n \div 256^j) % 256

AppendLength(x) ==
  LET bits == x.bitlen + 8 * x.datalen IN
  [x EXCEPT !.bitlen = bits,
            !.data = [k \in Cells |-> IF k < LenPos THEN x.data[k]
                                      ELSE ByteOf(bits, BlockLen - 1 - k)]]

FinalCtx(x) == Compress(AppendLength(Pad(x)))

-----------------------------------------------------------------------------
Init ==
  /\ pc = [c \in CPUs |-> Idle]
  /\ pkt \in [CPUs -> Packets]
  /\ temp = [c \in CPUs |-> [k \in 0..(BufLen - 1) |-> 0]]
  /\ ctx = [c \in CPUs |-> [data |-> [k \in Cells |-> 0],
                            datalen |-> 0, bitlen |-> 0, state |-> <<>>]]
  /\ i = [c \in CPUs |-> 0]
  /\ hash = [c \in CPUs |-> <<>>]

(* Packet p arrives and extends beyond the packet bounds: return -1.       *)
Reject(c, p) ==
  /\ pc[c] = Idle
  /\ HeaderLen[p] > Avail[p]
  /\ pc' = [pc EXCEPT ![c] = Failed]
  /\ pkt' = [pkt EXCEPT ![c] = p]
  /\ UNCHANGED <<temp, ctx, i, hash>>

(* Packet p arrives; key and header go to the buffer.                      *)
CopyKeyAndHeader(c, p) ==
  /\ pc[c] = Idle
  /\ HeaderLen[p] <= Avail[p]
  /\ pc' = [pc EXCEPT ![c] = Copied]
  /\ pkt' = [pkt EXCEPT ![c] = p]
  /\ temp' = [temp EXCEPT ![Slot(c)] = CopyInput(p, @)]
  /\ UNCHANGED <<ctx, i, hash>>

Sha256Init(c) ==
  /\ pc[c] = Copied
  /\ pc' = [pc EXCEPT ![c] = Updating]
  /\ ctx' = [ctx EXCEPT ![Slot(c)] = InitCtx(@)]
  /\ i' = [i EXCEPT ![c] = 0]
  /\ UNCHANGED <<pkt, temp, hash>>

UpdateLen(c) == KeyLen + MaxCopy(pkt[c])

Sha256UpdateByte(c) ==
  LET x == PutByte(ctx[Slot(c)], temp[Slot(c)][i[c]]) IN
  /\ pc[c] = Updating
  /\ i[c] < UpdateLen(c)
  /\ ctx[Slot(c)].datalen < BlockLen
  /\ ctx' = [ctx EXCEPT ![Slot(c)] = IF FullBlock(x) THEN EndBlock(x) ELSE x]
  /\ temp' = IF FullBlock(x)
             THEN [temp EXCEPT ![Slot(c)] = ScheduleOverBuffer]
             ELSE temp
  /\ i' = [i EXCEPT ![c] = @ + 1]
  /\ UNCHANGED <<pc, pkt, hash>>

(* The update loop has ended; padding, length, last compression, output.   *)
Sha256Final(c) ==
  /\ pc[c] = Updating
  /\ i[c] >= UpdateLen(c) \/ ctx[Slot(c)].datalen >= BlockLen
  /\ pc' = [pc EXCEPT ![c] = Done]
  /\ ctx' = [ctx EXCEPT ![Slot(c)] = FinalCtx(@)]
  /\ temp' = [temp EXCEPT ![Slot(c)] = ScheduleOverBuffer]
  /\ hash' = [hash EXCEPT ![c] = FinalCtx(ctx[Slot(c)]).state]
  /\ UNCHANGED <<pkt, i>>

(* The caller takes the result and the CPU is free for another packet.     *)
Return(c) ==
  /\ pc[c] \in {Done, Failed}
  /\ pc' = [pc EXCEPT ![c] = Idle]
  /\ UNCHANGED <<pkt, temp, ctx, i, hash>>

Next ==
  \E c \in CPUs :
    \/ \E p \in Packets : Reject(c, p) \/ CopyKeyAndHeader(c, p)
    \/ Sha256Init(c)
    \/ Sha256UpdateByte(c)
    \/ Sha256Final(c)
    \/ Return(c)

Spec == Init /\ [][Next]_vars

-----------------------------------------------------------------------------
(* What SHA-256 defines (FIPS 180-4, 5.1.1): the message, a one bit, zeros *)
(* and the 64-bit length, cut into blocks.                                 *)
Covered(p) == CHOOSE n \in {HeaderLen[p], HdrMax} : n <= HeaderLen[p] /\ n <= HdrMax
MsgLen(p) == KeyLen + Covered(p)
Msg(p, k) == IF k < KeyLen THEN KeyByte(k) ELSE HeaderByte[p][k - KeyLen]
LenBytes == BlockLen - LenPos
RefBlocks(p) == (MsgLen(p) + LenBytes) \div BlockLen + 1
RefByte(p, k) ==
  IF k < MsgLen(p) THEN Msg(p, k)
  ELSE IF k = MsgLen(p) THEN 128
  ELSE IF k < RefBlocks(p) * BlockLen - LenBytes THEN 0
  ELSE ByteOf(8 * MsgLen(p), RefBlocks(p) * BlockLen - 1 - k)
RefDigest(p) ==
  [b \in 1..RefBlocks(p) |-> [k \in Cells |-> RefByte(p, (b - 1) * BlockLen + k)]]

-----------------------------------------------------------------------------
(* The maps and the program counters stay within their types; datalen is   *)
(* always a valid index of ctx->data between two steps.                    *)
TypeOK ==
  /\ pc \in [CPUs -> {Idle, Copied, Updating, Done, Failed}]
  /\ pkt \in [CPUs -> Packets]
  /\ temp \in [CPUs -> [0..(BufLen - 1) -> Cell]]
  /\ ctx \in [CPUs -> [data : Block, datalen : Cells,
                       bitlen : Nat, state : Seq(Block)]]
  /\ i \in [CPUs -> Nat]
  /\ hash \in [CPUs -> Seq(Block)]

(* The digest compute_keyed_hash returns is the SHA-256 of the key bytes   *)
(* and the header bytes of its own packet: it does not depend on what      *)
(* earlier packets left in the two maps, on packets the other CPUs are     *)
(* hashing meanwhile, or on the schedule written over the buffer.          *)
DigestIsReference ==
  \A c \in CPUs : pc[c] = Done => hash[c] = RefDigest(pkt[c])

(* The strengthening that is inductive: the buffer holds key ++ header     *)
(* until a block is full, the context holds exactly the bytes consumed so  *)
(* far, and a full block has been compressed and counted once.             *)
BufferIsMsg(c) ==
  /\ HeaderLen[pkt[c]] <= Avail[pkt[c]]
  /\ \A k \in 0..(UpdateLen(c) - 1) : temp[c][k] = Msg(pkt[c], k)

ConsumedPrefix(c) ==
  /\ ctx[c].datalen = i[c] /\ ctx[c].bitlen = 0 /\ ctx[c].state = <<>>
  /\ \A k \in 0..(i[c] - 1) : ctx[c].data[k] = Msg(pkt[c], k)

ConsumedBlock(c) ==
  /\ ctx[c].datalen = 0 /\ ctx[c].bitlen = 8 * BlockLen
  /\ ctx[c].state = <<[k \in Cells |-> Msg(pkt[c], k)]>>

HashInv ==
  \A c \in CPUs :
    /\ pc[c] = Copied => BufferIsMsg(c)
    /\ pc[c] = Updating =>
         /\ i[c] <= UpdateLen(c)
         /\ i[c] < BlockLen => BufferIsMsg(c) /\ ConsumedPrefix(c)
         /\ i[c] = BlockLen => ConsumedBlock(c)
    /\ pc[c] = Done => hash[c] = RefDigest(pkt[c])
=============================================================================
