----------------------------- MODULE MCAerFifo -----------------------------
(* Two one-bit event words in a two-entry FIFO: the smallest instance in   *)
(* which the wrap bit, a full queue and a damaged word all occur.          *)
EXTENDS AerFifo

MCData   == {0, 1}
MCParity == [d \in MCData |-> d]
=============================================================================
