--------------------------- MODULE MCPieceVerify ---------------------------
(* Two goroutines, two files, a cap of one (asked for as 0) or two hash     *)
(* passes.                                                                  *)
EXTENDS PieceVerify, TLC

CONSTANTS c1, c2, f1, f2

TwoCallers == {c1, c2}
TwoFiles   == {f1, f2}
ZeroOrTwo  == {0, 2}
=============================================================================
