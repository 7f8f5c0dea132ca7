---------------------------- MODULE MCIpChecksum ----------------------------
(* Headers of 10, 19 and 30 words: the first two words are enumerated and  *)
(* the others all equal; the extreme values make every number of carries.  *)
EXTENDS IpChecksum

First == {0, 1, 255, 32768, 65535}
Fill == {0, 32767, 65535}
MCHeaders ==
  {[k \in 0..(n - 1) |-> IF k = 0 THEN a ELSE IF k = 1 THEN b ELSE f] :
     n \in {10, 19, 30}, a \in First, b \in First, f \in Fill}
MCWordCount ==
  [x \in MCHeaders |-> CHOOSE n \in 0..MaxWords : DOMAIN x = 0..(n - 1)]
=============================================================================
