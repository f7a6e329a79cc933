--------------------------- MODULE MCSocRecovery ---------------------------
(* The shortest counter, one upset; the limit and the escalation are those *)
(* of the design.  Software only kicks and acknowledges; what it writes to *)
(* the watchdog besides is in MCSocWdog.                                   *)
EXTENDS SocRecovery

MCStruck     == {[NoWord EXCEPT !.dis_q = TRUE, !.dis_seen = TRUE,
                                !.rst_hold = RST_CYCLES]}
MCBootStruck == {[NoBootWord EXCEPT !.dly = 2, !.sys = TRUE]}
MCWord       == {1}
MCPcs        == {1, 2}
=============================================================================
