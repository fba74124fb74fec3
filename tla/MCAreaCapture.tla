---------------------------- MODULE MCAreaCapture ----------------------------
(***************************************************************************)
(* Areas of one to four pixels, with and without padding; a byte of two    *)
(* bits and a sum of four, in the proportion the largest area needs.       *)
(***************************************************************************)
EXTENDS AreaCapture

MCWidths == 1..2
MCHeights == 1..2
MCPaddings == 0..1
MCSamples == {0, 3}
MCSumModulus == 16
=============================================================================
