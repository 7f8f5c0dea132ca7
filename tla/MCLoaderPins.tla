---------------------------- MODULE MCLoaderPins ----------------------------
(* Devices of the loaders for TLC.                                         *)
EXTENDS LoaderPins

CONSTANTS l1, l2, l3, l4, d1, d2

MCDev == [p \in Loaders |-> IF p = l3 THEN d2 ELSE d1]
=============================================================================
