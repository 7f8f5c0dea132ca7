------------------------------- MODULE MCBitIO -------------------------------
(* Fields for TLC: widths below, at and above a byte.                      *)
EXTENDS BitIO

MCFields == { <<1, 1>>, <<2, 2>>, <<5, 3>>, <<181, 8>>, <<300, 8>>,
              <<341, 9>>, <<43981, 16>>, <<703710, 20>> }
=============================================================================
