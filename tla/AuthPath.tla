------------------------------ MODULE AuthPath ------------------------------
(***************************************************************************)
(* A frame's way from the XDP program that signs its header (XdpIpHash)    *)
(* over the network to the verifier that checks it (HashVerifier).  The    *)
(* network may lose a frame, route it (decrement the TTL and rewrite the   *)
(* checksum, as any IPv4 router does) or alter one byte, and it carries    *)
(* frames of other hosts, whose option lists may be anything.              *)
(***************************************************************************)
EXTENDS XdpIpHash, HashVerifier

CONSTANTS
  AlteredBytes,   \* values an altered byte takes
  ForeignFrames   \* frames of other hosts, each with its whole header

(* Bytes that are not part of a digest or a checksum have values, and the  *)
(* headers consist of those.                                               *)
ByteValued(f) == \A o \in 0..(Len(f) - 1) : IsLit(At(f, o)) => At(f, o) \in ByteCells
ASSUME PathAssumption ==
  /\ AlteredBytes \subseteq Byte
  /\ \A f \in ForeignFrames :
       /\ IsFrame(f) /\ CopiedHeaders <= Len(f) /\ ByteValued(f)
       /\ \A o \in 0..(CopiedHeaders - 1) : At(f, o) \in ByteCells

VARIABLES
  wire,   \* the frame in flight, <<>> if there is none
  sent    \* the frame as the XDP program passed it on (history)

vars == <<xdpVars, verVars, wire, sent>>

Init == XdpInit /\ VerInit /\ wire = <<>> /\ sent = <<>>

(* The program returns; XDP_PASS hands the frame on, XDP_ABORTED drops it. *)
Emit ==
  /\ wire = <<>> /\ vpc = "idle"
  /\ Out
  /\ wire' = IF action = XDP_PASS THEN frame ELSE <<>>
  /\ sent' = wire'
  /\ UNCHANGED verVars

Lose ==
  /\ wire # <<>>
  /\ wire' = <<>>
  /\ UNCHANGED <<xdpVars, verVars, sent>>

IsIp(f) == Len(f) >= EthLen + IpLen /\ U16(f, EthTypeAt) = ETH_P_IP
Route ==
  /\ wire # <<>> /\ wire = sent /\ IsIp(wire) /\ Val(wire, EthLen + TtlAt) > 1
  /\ wire' = SetChecksum(Put(wire, EthLen + TtlAt,
                             <<Lit(Val(wire, EthLen + TtlAt) - 1)>>))
  /\ UNCHANGED <<xdpVars, verVars, sent>>

Alter(o, n) ==
  /\ wire # <<>> /\ wire = sent /\ o < Len(wire)
  /\ wire' = Put(wire, o, <<Lit(n)>>)
  /\ UNCHANGED <<xdpVars, verVars, sent>>

(* Another host sends.  Bound of the model: a behaviour is about a foreign *)
(* frame or about the program's own.                                       *)
Foreign(f) ==
  /\ wire = <<>> /\ vpc = "idle" /\ orig = <<>>
  /\ wire' = f /\ sent' = <<>>
  /\ UNCHANGED <<xdpVars, verVars>>

(* libpcap hands the frame to packet_handler.  The handler never looks at  *)
(* the captured length; only frames that hold their whole header are       *)
(* delivered here.                                                         *)
HoldsHeader(f) == EthLen + IpLen <= Len(f) /\ EthLen + 4 * Ihl(f, EthLen) <= Len(f)
Deliver ==
  /\ wire # <<>>
  /\ U16(wire, EthTypeAt) = ETH_P_IP => HoldsHeader(wire)
  /\ Ignore(wire) \/ Capture(wire)
  /\ wire' = <<>>
  /\ UNCHANGED <<xdpVars, sent>>

Next ==
  \/ /\ wire = <<>> /\ vpc = "idle"   \* one frame under way at a time
     /\ \E f \in InFrames : Arrive(f)
     /\ UNCHANGED <<verVars, wire, sent>>
  \/ XdpStep /\ UNCHANGED <<verVars, wire, sent>>
  \/ Emit
  \/ Lose
  \/ \E f \in ForeignFrames : Foreign(f)
  \/ Route
  \/ \E o \in EthTypeAt..(CopiedHeaders + IP_OPT_HASH_LEN + 1), n \in AlteredBytes :
       Alter(o, n)
  \/ Deliver
  \/ VerStep /\ UNCHANGED <<xdpVars, wire, sent>>

Spec == Init /\ [][Next]_vars
FairSpec == Spec /\ WF_vars(VerStep /\ UNCHANGED <<xdpVars, wire, sent>>)

-----------------------------------------------------------------------------
(* Whether AddOption succeeded for the frame that was sent.                *)
Signed == Len(sent) = Len(orig) + IP_OPT_HASH_LEN

(* The bytes a verdict depends on: EtherType, the IP header but for its    *)
(* checksum, type and length of the option, the digest.                    *)
Authenticated ==
  {EthTypeAt, EthTypeAt + 1}
    \cup ((EthLen..(CopiedHeaders - 1)) \ {EthLen + CheckAt, EthLen + CheckAt + 1})
    \cup {CopiedHeaders, CopiedHeaders + 1}
    \cup ((CopiedHeaders + 4)..(CopiedHeaders + IP_OPT_HASH_LEN - 1))

(* The frames the program was written for: no VLAN tag, no IP options.     *)
PlainFrame(f) == NetOff(f) = EthLen /\ Ihl(f, EthLen) = 5
SignedNow == xpc = "idle" /\ sent # <<>> /\ Signed

(* The copy of the key that the XDP program hashes is the verifier's key.  *)
SameKey == VERIFIER_KEY = KeyCells

(* The type of a VLAN tag was overwritten with that of IP on the way.      *)
TagLost == NetOff(orig) # EthLen /\ U16(packet, EthTypeAt) = ETH_P_IP

(* The verifier reports a match for a signed frame exactly when it was a   *)
(* plain one, none of the authenticated bytes changed on the way and both  *)
(* programs hash with one key: a routed frame never matches, nor does a    *)
(* frame that had options, and a changed payload or checksum is never      *)
(* noticed.                                                                *)
MatchIffAuthentic ==
  vpc = "returned" /\ Signed /\ ~TagLost =>
    (verdict = MATCH <=> /\ SameKey /\ PlainFrame(orig)
                         /\ \A o \in Authenticated : At(packet, o) = At(sent, o))

(* A receiver that honours the new header length finds the payload the     *)
(* sender's receiver would have found, and the total length still spans    *)
(* header and payload (modulo its 16 bits).                                *)
PayloadOf(f) == LET p == EthLen + 4 * Ihl(f, EthLen) IN Bytes(f, p, Len(f) - p)
PayloadPreserved ==
  SignedNow /\ PlainFrame(orig) =>
    /\ PayloadOf(sent) = PayloadOf(orig)
    /\ (U16(sent, EthLen + TotLenAt) - 4 * Ihl(sent, EthLen)) % 65536
         = (U16(orig, EthLen + TotLenAt) - 4 * Ihl(orig, EthLen)) % 65536

(* When signing fails half-way the frame is passed on with nothing but its *)
(* checksum field overwritten; frames that are not IPv4 pass untouched.    *)
UnsignedAlmostUntouched ==
  xpc = "idle" /\ sent # <<>> /\ ~Signed =>
    \/ sent = orig
    \/ sent = ZeroCheck(orig, NetOff(orig)) /\ EthType(orig) = ETH_P_IP

(* Every plain frame that is signed carries the checksum of its header.    *)
ChecksumFresh == SignedNow /\ PlainFrame(orig) => SetChecksum(sent) = sent

(* "Save the original headers (Ethernet + IP)" (xdp_prog_kern_02.c:343)    *)
(* does so exactly for plain frames: whatever precedes the IP header is    *)
(* passed on as it was, and its options are still part of it.  A VLAN tag  *)
(* is edited as if it were the IP header, and options become payload.      *)
HeadersKeptIffPlain ==
  SignedNow =>
    LET ip == NetOff(orig) IN
    ( /\ Bytes(sent, 0, ip) = Bytes(orig, 0, ip)
      /\ 4 * Ihl(sent, ip) = 4 * Ihl(orig, ip) + IP_OPT_HASH_LEN )
    <=> PlainFrame(orig)

(* "The same secret key": a signed frame nobody touched matches.           *)
UntouchedMatches ==
  vpc = "returned" /\ Signed /\ packet = sent => verdict = MATCH
=============================================================================
