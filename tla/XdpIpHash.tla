------------------------------ MODULE XdpIpHash ------------------------------
(***************************************************************************)
(* xdp_ip_hash_func of packet-solutions/xdp_prog_kern_02.c: parse a frame, *)
(* hash the IPv4 header with the secret key, insert the digest as an IP    *)
(* option, record the action.  The digest itself is compute_keyed_hash,    *)
(* whose byte-level execution is module KeyedHash.                         *)
(***************************************************************************)
EXTENDS Frames

CONSTANTS
  InFrames,      \* frames that arrive at the XDP hook
  SECRET_KEY,    \* sequence of 16 literal cells
  MaxFrames      \* bound: frames processed in a behaviour

(* What arrives are bytes.                                                 *)
ASSUME XdpAssumption ==
  /\ InFrames \subseteq Seq(ByteCells)
  /\ SECRET_KEY \in [1..16 -> ByteCells]
  /\ MaxFrames \in Nat

VARIABLES
  xpc,       \* where the program is: idle, parse, hashed, out
  orig,      \* the frame as it arrived (history)
  frame,     \* the bytes between ctx->data and ctx->data_end
  digest,    \* hash_result
  action,    \* the XDP action
  rx         \* xdp_stats_map: packets and bytes per action

xdpVars == <<xpc, orig, frame, digest, action, rx>>

XDP_ABORTED == "aborted"
XDP_PASS == "pass"
VLAN_MAX_DEPTH == 2

-----------------------------------------------------------------------------
(* parse_ethhdr: at most VLAN_MAX_DEPTH complete tags are skipped.         *)
ProtoAfter(f, d) == U16(f, EthTypeAt + VlanLen * d)
HasTag(f, d) ==
  /\ d < VLAN_MAX_DEPTH
  /\ ProtoAfter(f, d) \in {ETH_P_8021Q, ETH_P_8021AD}
  /\ EthLen + VlanLen * (d + 1) <= Len(f)
Tags(f) == CHOOSE d \in 0..VLAN_MAX_DEPTH :
             ~HasTag(f, d) /\ \A e \in 0..(d - 1) : HasTag(f, e)
EthType(f) == ProtoAfter(f, Tags(f))
NetOff(f) == EthLen + VlanLen * Tags(f)

(* parse_iphdr and the two checks that follow it in the caller.            *)
IpHeaderOk(f) ==
  LET ip == NetOff(f) IN
  /\ ip + IpLen <= Len(f)
  /\ 4 * Ihl(f, ip) >= IpLen
  /\ ip + 4 * Ihl(f, ip) <= Len(f)

ZeroCheck(f, ip) == Put(f, ip + CheckAt, <<Lit(0), Lit(0)>>)

(* compute_keyed_hash: the key as the program copies it, and at most 20    *)
(* bytes of the header.                                                    *)
KeyCells == [k \in 1..16 |-> IF k = 1 THEN SECRET_KEY[1] ELSE SECRET_KEY[2]]
KeyedMsg(f, ip) == KeyCells \o Bytes(f, ip, IF 4 * Ihl(f, ip) > 20 THEN 20
                                            ELSE 4 * Ihl(f, ip))

HashOption(msg) ==
  <<Lit(IP_OPT_HASH_ID), Lit(IP_OPT_HASH_LEN), Lit(18), Lit(52)>>
    \o [j \in 1..HashBytes |-> DigestCell(msg, j)]

(* add_ip_option_hash once the head has moved: the first 34 bytes are      *)
(* copied back, the header behind the first 14 is edited and the option    *)
(* follows byte 34, wherever the IP header really is.                      *)
CopiedHeaders == EthLen + IpLen
SetLengths_IhlOnly(f) ==  \* mutant: tot_len keeps its value
  Put(f, EthLen, <<Lit(16 * (Val(f, EthLen) \div 16) + 14)>>)
SetLengths_OptionOnly(f) ==  \* mutant: ihl counts the option and not the header
  LET ip == EthLen
      g == Put(f, ip, <<Lit(16 * (Val(f, ip) \div 16) + 9)>>)
  IN Put(g, ip + TotLenAt, U16Cells(U16(f, ip + TotLenAt) + IP_OPT_HASH_LEN))
SetLengths(f) ==
  LET ip == EthLen
      g == Put(f, ip, <<Lit(16 * (Val(f, ip) \div 16) + 14)>>)
  IN Put(g, ip + TotLenAt, U16Cells(U16(f, ip + TotLenAt) + IP_OPT_HASH_LEN))
SetChecksum(f) ==
  LET ip == EthLen
      z == ZeroCheck(f, ip)
      hdr == Bytes(z, ip, 4 * Ihl(z, ip))
  IN Put(z, ip + CheckAt, <<SumCell(hdr, 1), SumCell(hdr, 2)>>)
InsertOption_EarlySum(f, msg) ==  \* mutant: checksum before the new lengths
  SetLengths(SetChecksum(Bytes(f, 0, CopiedHeaders) \o HashOption(msg)
                           \o Bytes(f, CopiedHeaders, Len(f) - CopiedHeaders)))
InsertOption(f, msg) ==
  SetChecksum(SetLengths(Bytes(f, 0, CopiedHeaders)) \o HashOption(msg)
                \o Bytes(f, CopiedHeaders, Len(f) - CopiedHeaders))

-----------------------------------------------------------------------------
XdpInit ==
  /\ xpc = "idle"
  /\ orig = <<>> /\ frame = <<>> /\ digest = <<>>
  /\ action = XDP_PASS
  /\ rx = [a \in {XDP_ABORTED, XDP_PASS} |-> [packets |-> 0, bytes |-> 0]]

Processed == rx[XDP_ABORTED].packets + rx[XDP_PASS].packets

Arrive(f) ==
  /\ xpc = "idle"
  /\ Processed < MaxFrames
  /\ xpc' = "parse" /\ orig' = f /\ frame' = f
  /\ digest' = <<>> /\ action' = XDP_PASS
  /\ UNCHANGED rx

(* Too short for an Ethernet header, or not a complete IPv4 header.        *)
Abort ==
  /\ xpc = "parse"
  /\ \/ Len(frame) < EthLen
     \/ Len(frame) >= EthLen /\ EthType(frame) = ETH_P_IP /\ ~IpHeaderOk(frame)
  /\ xpc' = "out" /\ action' = XDP_ABORTED
  /\ UNCHANGED <<orig, frame, digest, rx>>

PassOther ==
  /\ xpc = "parse"
  /\ Len(frame) >= EthLen /\ EthType(frame) # ETH_P_IP
  /\ xpc' = "out" /\ action' = XDP_PASS
  /\ UNCHANGED <<orig, frame, digest, rx>>

(* iphdr->check = 0 in the packet, then the keyed hash of its header.      *)
HashHeader ==
  LET z == ZeroCheck(frame, NetOff(frame)) IN
  /\ xpc = "parse"
  /\ Len(frame) >= EthLen /\ EthType(frame) = ETH_P_IP /\ IpHeaderOk(frame)
  /\ xpc' = "hashed"
  /\ frame' = z
  /\ digest' = KeyedMsg(z, NetOff(frame))
  /\ UNCHANGED <<orig, action, rx>>

AddOption ==
  /\ xpc = "hashed"
  /\ xpc' = "out"
  /\ frame' = InsertOption(frame, digest)
  /\ UNCHANGED <<orig, digest, action, rx>>

(* bpf_xdp_adjust_head finds no headroom: the frame is passed on.          *)
AdjustHeadFails_Edited ==  \* mutant: the lengths were changed before
  /\ xpc = "hashed"
  /\ xpc' = "out" /\ action' = XDP_PASS
  /\ frame' = SetLengths(frame)
  /\ UNCHANGED <<orig, digest, rx>>
AdjustHeadFails ==
  /\ xpc = "hashed"
  /\ xpc' = "out" /\ action' = XDP_PASS
  /\ UNCHANGED <<orig, frame, digest, rx>>

(* xdp_stats_record_action, on the frame as it leaves.                     *)
RecordAction(a, f) == [rx EXCEPT ![a] = [packets |-> @.packets + 1,
                                         bytes |-> @.bytes + Len(f)]]

Out ==
  /\ xpc = "out"
  /\ xpc' = "idle"
  /\ rx' = RecordAction(action, frame)
  /\ UNCHANGED <<orig, frame, digest, action>>

XdpStep == Abort \/ PassOther \/ HashHeader \/ AddOption \/ AdjustHeadFails
=============================================================================
