--------------------------- MODULE MCSensorsSubHal ---------------------------
(***************************************************************************)
(* Two calling threads; room for the bytes of two calls and of the         *)
(* destructor on top of one that is left over; two failures.               *)
(***************************************************************************)
EXTENDS SensorsSubHal

CONSTANTS p1, p2

MCCallers == {p1, p2}
MCPipeCap == 4
MCMaxFaults == 2
=============================================================================
