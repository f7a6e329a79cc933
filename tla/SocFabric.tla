----------------------------- MODULE SocFabric -----------------------------
(***************************************************************************)
(* The fabric of SocBus with two concrete slaves in place of the arbitrary *)
(* ones: a memory (hw/soc/rtl/soc_mem.v), which grants at once and answers *)
(* one or, with its read register, two edges later, and the APB bridge of  *)
(* ApbBridge, which grants only when idle and answers when its peripheral  *)
(* does.                                                                   *)
(***************************************************************************)
EXTENDS Naturals, Sequences

CONSTANTS Ram, Apb, ErrSlv, None,
          Builds   (* the settings of REQ_REG, RDREG and APB_TIMEOUT       *)

ASSUME FabricAssumption ==
  /\ Ram # Apb /\ ErrSlv \notin {Ram, Apb} /\ None \notin {Ram, Apb, ErrSlv}
  /\ Builds \subseteq [req_reg : BOOLEAN, rdreg : BOOLEAN, apb_timeout : Nat]

Slave       == {Ram, Apb}
ApbTimeouts == {b.apb_timeout : b \in Builds}

VARIABLES req_reg, rst, issue_en, last_was_d, cnt, lock, q_owner, q_fill,
          err_rvalid, reg, mreq, pend, out, passed,
          apb_timeout, state, rvalid, to_cnt, to_fired,
          rdreg,       (* the elaboration parameter RDREG of the memory    *)
          rv           (* the memory's response shift register, rv0 first  *)

Bus == INSTANCE SocBus WITH Slave0 <- Ram
Brg == INSTANCE ApbBridge

vars == <<req_reg, rst, issue_en, last_was_d, cnt, lock, q_owner, q_fill,
          err_rvalid, reg, mreq, pend, out, passed,
          apb_timeout, state, rvalid, to_cnt, to_fired, rdreg, rv>>

Init ==
  /\ Bus!Init
  /\ mreq = [m \in Bus!Master |-> None]
  /\ Brg!Init
  /\ rdreg \in BOOLEAN
  /\ [req_reg |-> req_reg, rdreg |-> rdreg, apb_timeout |-> apb_timeout] \in Builds
  /\ rv = <<FALSE, FALSE>>

mem_rvalid == IF rdreg THEN rv[2] ELSE rv[1]

(* The slaves' combinational grants and registered answers, as sets.       *)
gnt_now == {s \in Bus!Presented : s = Ram \/ (s = Apb /\ Brg!gnt)}
rv_now  == (IF mem_rvalid THEN {Ram} ELSE {}) \union (IF rvalid THEN {Apb} ELSE {})

Clock(pready) ==
  /\ Bus!Cycle(gnt_now, rv_now)
  /\ Brg!Edge(Apb \in Bus!Presented, pready)
  /\ rv' = <<Ram \in Bus!Presented, rv[1]>>
  /\ UNCHANGED <<apb_timeout, rdreg>>

(* The core holds its request ports low in reset.                          *)
Quiet == mreq' = [m \in Bus!Master |-> None]

AssertReset ==
  /\ Quiet
  /\ Bus!AssertReset
  /\ Brg!Reset
  /\ rv' = <<FALSE, FALSE>>
  /\ UNCHANGED <<apb_timeout, rdreg>>

ResetCycle ==
  /\ Quiet
  /\ Bus!ResetCycle(gnt_now)
  /\ UNCHANGED <<apb_timeout, state, rvalid, to_cnt, to_fired, rdreg, rv>>

Next ==
  \/ \E pready \in BOOLEAN : Clock(pready)
  \/ ResetCycle
  \/ AssertReset

(* The clock never stops and the reset is released after some edge; where  *)
(* the wait is unbounded, a selected peripheral eventually drives PREADY   *)
(* (those in the tree hold it at 1).                                       *)
Fairness ==
  /\ WF_vars(Next /\ ~rst')
  /\ WF_vars(apb_timeout = 0 /\ state = "ACCESS" /\ Clock(TRUE))

Spec == Init /\ [][Next]_vars /\ Fairness

-----------------------------------------------------------------------------
TypeOK ==
  /\ Bus!TypeOK
  /\ Brg!TypeOK
  /\ rdreg \in BOOLEAN /\ rv \in [1 .. 2 -> BOOLEAN]

(* The concrete slaves keep the fabric's contract: they answer only what   *)
(* they have accepted, one answer each.  Every step is then a step of the  *)
(* fabric with arbitrary contract-keeping slaves, and what is shown of     *)
(* that fabric holds of this one.                                          *)
SlavesKeepContract == rv_now \subseteq Bus!Answerable

(* The bridge and the memory hold exactly the requests the fabric has      *)
(* handed them: an answer is never sent for a request already abandoned,   *)
(* and none is forgotten when answer and acceptance share an edge.         *)
SlaveAccounting ==
  /\ Len(pend[Apb]) = (IF state # "IDLE" /\ ~to_fired THEN 1 ELSE 0)
                      + (IF rvalid THEN 1 ELSE 0)
  /\ Len(pend[Ram]) = (IF rv[1] THEN 1 ELSE 0)
                      + (IF rdreg /\ rv[2] THEN 1 ELSE 0)

(* No master waits for ever, whatever the other master does: one that asks *)
(* or has an answer outstanding is granted or answered, again and again    *)
(* until neither is left (at most MAX_OUT grants go unanswered), as long   *)
(* as no expired wait has parked the bridge.                               *)
EveryRequestServed ==
  \A m \in Bus!Master :
    (~rst /\ (mreq[m] # None \/ out[m] # <<>>)) ~>
      (rst \/ to_fired \/ Bus!Granted(m, gnt_now) \/ Bus!Rvalid(m, rv_now))

(* The bound on PREADY is there so that the core sees a bus error it can   *)
(* report instead of a hang: fetches from memory still complete after it.  *)
FetchSurvivesTimeout ==
  (~rst /\ to_fired /\ mreq["i"] = Ram) ~> (rst \/ Bus!Granted("i", gnt_now))
=============================================================================
