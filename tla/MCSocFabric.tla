---------------------------- MODULE MCSocFabric ----------------------------
(* The shipped elaboration, both register stages in, and a bound of two    *)
(* cycles on PREADY.                                                       *)
EXTENDS SocFabric

Build(q, r, t) == [req_reg |-> q, rdreg |-> r, apb_timeout |-> t]
MCBuilds  == {Build(FALSE, FALSE, 0), Build(TRUE, TRUE, 0), Build(FALSE, FALSE, 2)}
MCTimeoutBuilds == {Build(FALSE, FALSE, 2)}
=============================================================================
