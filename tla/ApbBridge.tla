----------------------------- MODULE ApbBridge -----------------------------
(***************************************************************************)
(* The bridge from the fabric to the APB peripherals,                      *)
(* hw/soc/rtl/soc_apb_bridge.v: one request at a time through IDLE, SETUP  *)
(* and ACCESS, with the optional bound on the wait for PREADY.  Address,   *)
(* data, strobes and the error flag of an answer are left out.             *)
(* A definition marked Variant is a plausible bug, there to show that a    *)
(* property notices it; no specification uses it.                          *)
(***************************************************************************)
EXTENDS Naturals

CONSTANT ApbTimeouts   (* the values of APB_TIMEOUT considered; 0 is off   *)

VARIABLES apb_timeout,   (* the elaboration parameter APB_TIMEOUT          *)
          state, rvalid, to_cnt, to_fired

bridge == <<state, rvalid, to_cnt, to_fired>>

TO_LIMIT == IF apb_timeout <= 1 THEN 0 ELSE apb_timeout - 1

Init ==
  /\ apb_timeout \in ApbTimeouts
  /\ state = "IDLE" /\ rvalid = FALSE
  /\ to_cnt = 0 /\ to_fired = FALSE

Reset ==
  /\ state' = "IDLE" /\ rvalid' = FALSE
  /\ to_cnt' = 0 /\ to_fired' = FALSE

gnt == state = "IDLE"   \* gnt_o, given req_i

(* Variant: the answer strobe is not cleared.                              *)
IdleStuckValid(req) ==
  /\ state = "IDLE"
  /\ state' = IF req THEN "SETUP" ELSE "IDLE"
  /\ UNCHANGED <<rvalid, to_cnt, to_fired>>

Idle(req) ==
  /\ state = "IDLE"
  /\ state' = IF req THEN "SETUP" ELSE "IDLE"
  /\ rvalid' = FALSE
  /\ UNCHANGED <<to_cnt, to_fired>>

Setup ==
  /\ state = "SETUP"
  /\ state' = "ACCESS"
  /\ rvalid' = FALSE
  /\ UNCHANGED <<to_cnt, to_fired>>

(* Variant: a late PREADY still completes.                                 *)
CompleteLate(pready) ==
  /\ state = "ACCESS" /\ pready
  /\ state' = "IDLE" /\ rvalid' = TRUE /\ to_cnt' = 0
  /\ UNCHANGED to_fired

Complete(pready) ==
  /\ state = "ACCESS" /\ pready /\ ~to_fired
  /\ state' = "IDLE" /\ rvalid' = TRUE /\ to_cnt' = 0
  /\ UNCHANGED to_fired

(* The fabric is released with an error; PSEL and PENABLE stay up.         *)
Expire(pready) ==
  /\ state = "ACCESS" /\ ~pready /\ ~to_fired
  /\ apb_timeout # 0 /\ to_cnt = TO_LIMIT
  /\ rvalid' = TRUE /\ to_fired' = TRUE
  /\ UNCHANGED <<state, to_cnt>>

(* Variant: the wait runs past its limit.                                  *)
WaitPastLimit(pready) ==
  /\ state = "ACCESS" /\ (to_fired \/ ~pready)
  /\ to_cnt' = IF apb_timeout # 0 /\ ~to_fired THEN to_cnt + 1 ELSE to_cnt
  /\ rvalid' = FALSE
  /\ UNCHANGED <<state, to_fired>>

Wait(pready) ==
  /\ state = "ACCESS" /\ (to_fired \/ ~pready)
  /\ to_fired \/ apb_timeout = 0 \/ to_cnt # TO_LIMIT
  /\ to_cnt' = IF apb_timeout # 0 /\ ~to_fired THEN to_cnt + 1 ELSE to_cnt
  /\ rvalid' = FALSE
  /\ UNCHANGED <<state, to_fired>>

(* One clock edge, with the fabric's req and the peripheral's answer.      *)
Edge(req, pready) ==
  \/ Idle(req)
  \/ Setup
  \/ Complete(pready)
  \/ Expire(pready)
  \/ Wait(pready)

TypeOK ==
  /\ apb_timeout \in ApbTimeouts
  /\ state \in {"IDLE", "SETUP", "ACCESS"}
  /\ rvalid \in BOOLEAN /\ to_fired \in BOOLEAN
  /\ to_cnt \in 0 .. TO_LIMIT
=============================================================================
