------------------------------ MODULE MCRxFifo ------------------------------
(***************************************************************************)
(* Instance of RxFifo for TLC, at the sizes and the pace of the code; a    *)
(* garbled read is one of the four counts that the code tells apart.       *)
(***************************************************************************)
EXTENDS RxFifo

MCGarbled == [over : BOOLEAN, n : {0, Full - 1, Full, Depth}]
=============================================================================
