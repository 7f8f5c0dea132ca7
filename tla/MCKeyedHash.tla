---------------------------- MODULE MCKeyedHash ----------------------------
(* Instances of KeyedHash for TLC.  Packet n has n + 1 as its header bytes *)
(* so that no two packets share a byte; the key bytes are 201, 202, ...    *)
EXTENDS KeyedHash

MCPackets == DOMAIN HeaderLen
MCHeaderByte == [p \in MCPackets |-> [k \in 0..(Avail[p] - 1) |-> 40 * p + (k % 20)]]
MCKey == [k \in 0..(KeyLen - 1) |-> 201 + k]

\* scaled sizes: the message ends before, at and after LenPos and fills the block
ScaledLen == <<1, 4, 5, 9>>
ScaledAvail == <<2, 4, 8, 8>>
=============================================================================
