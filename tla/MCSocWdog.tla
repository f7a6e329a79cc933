----------------------------- MODULE MCSocWdog -----------------------------
(* A one-bit counter over a divide-by-two prescaler, a two-clock reset, a  *)
(* window of half the timeout; what an upset leaves of a word disarms,     *)
(* escalates and has lost every record.  The run of the rejected kick has  *)
(* a two-bit counter, more writes and no upsets.                           *)
EXTENDS SocWdog

MCFewCounts  == {0}
MCFewWindows == {1}
MCCounts     == {1, 3}
MCWindows    == {0, 1}
MCStruck     == {[NoWord EXCEPT !.dis_q = TRUE, !.dis_seen = TRUE,
                                !.nmi_pend = TRUE, !.rst_hold = RST_CYCLES]}
=============================================================================
