----------------------------- MODULE MCAuthPath -----------------------------
(* Frames and keys for the path from the XDP program to the verifier, at   *)
(* the sizes of the code.                                                  *)
EXTENDS AuthPath

CONSTANT OptionBytes   \* values of the enumerated option bytes

Macs == [k \in 1..12 |-> Lit(150 + k)]
Ip(ihl, totlen, rest) ==
  <<Lit(64 + ihl), Lit(0)>> \o U16Cells(totlen)
    \o <<Lit(1), Lit(2), Lit(0), Lit(0), Lit(64), Lit(17), Lit(171), Lit(205)>>
    \o [k \in 1..8 |-> Lit(9 + k)] \o rest
Load == [k \in 1..6 |-> Lit(60 + k)]
Opts == <<Lit(148), Lit(4), Lit(0), Lit(0)>>
Vlan(type) == <<Lit(0), Lit(42)>> \o U16Cells(type)

Untagged(ip) == Macs \o U16Cells(ETH_P_IP) \o ip
Tagged(ip) == Macs \o U16Cells(ETH_P_8021Q) \o Vlan(ETH_P_IP) \o ip
TwiceTagged(ip) ==
  Macs \o U16Cells(ETH_P_8021AD) \o Vlan(ETH_P_8021Q) \o Vlan(ETH_P_IP) \o ip
ThriceTagged(ip) ==
  Macs \o U16Cells(ETH_P_8021AD) \o Vlan(ETH_P_8021Q) \o Vlan(ETH_P_8021Q)
    \o Vlan(ETH_P_IP) \o ip

Plain == Ip(5, 26, Load)
PlainFrames == {Untagged(Plain), Untagged(Ip(5, 65510, Load))}
NotSigned ==
  { Macs,                                          \* no Ethernet header
    Untagged(SubSeq(Plain, 1, 19)),                \* no IP header
    Untagged(Ip(4, 26, Load)),                     \* ihl too small
    Untagged(Ip(8, 32, Load)),                     \* ihl beyond the frame
    Macs \o U16Cells(34525) \o Load,               \* IPv6
    Macs \o U16Cells(ETH_P_8021Q) \o <<Lit(0)>>,   \* incomplete tag
    ThriceTagged(Plain) }                          \* too many tags

OtherFrames ==
  {Untagged(Ip(6, 30, Opts \o Load)), Tagged(Plain), TwiceTagged(Plain)}
ArrivingFrames == PlainFrames \cup NotSigned \cup OtherFrames

(* An IP header of at most 60 bytes leaves 4 bytes beside a hash option:   *)
(* those before it are enumerated, those behind it are all alike.          *)
Fillers == {<<Lit(a), Lit(b), Lit(c), Lit(d)>> : a, b, c, d \in OptionBytes}
AlikeFrom(n) ==
  {w \in Fillers : \E v \in {0, 2} : \A k \in (n + 1)..4 : w[k] = Lit(v)}
HashOpt == HashOption(<<Lit(9)>>)
WithOptions(w) == Untagged(Ip(5 + Len(w) \div 4, 20, w \o <<Lit(7), Lit(7)>>))
Around(w, n) == SubSeq(w, 1, n) \o HashOpt \o SubSeq(w, n + 1, 4)
OptionFrames ==
  UNION {{WithOptions(Around(w, n)) : w \in AlikeFrom(n)} : n \in 0..4}
    \cup {WithOptions(w) : w \in Fillers}                            \* too short
    \cup {WithOptions(w \o SubSeq(HashOpt, 1, 28)) : w \in Fillers}  \* truncated
    \cup {WithOptions(HashOpt)}

\* the key of both programs, and a key that the copy in the XDP program keeps
SecretKey ==
  [k \in 1..16 |-> Lit(<<75, 117, 143, 148, 152, 211, 49, 38,
                         22, 236, 194, 97, 153, 67, 118, 69>>[k])]
UniformKey == [k \in 1..16 |-> Lit(IF k = 1 THEN 75 ELSE 117)]
=============================================================================
