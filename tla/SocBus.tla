------------------------------- MODULE SocBus -------------------------------
(***************************************************************************)
(* The system fabric, hw/soc/rtl/soc_bus.v: two masters speaking Ibex's    *)
(* req/gnt/rvalid protocol, the slave ports, and the internal error slave. *)
(* One step of Cycle is one rising clock edge; the request multiplexer,    *)
(* the round-robin arbitration and the response steering are operators     *)
(* over the state before the edge.  Masters hold a request until it is     *)
(* granted (protocol rule 1), slaves grant and answer when they please but *)
(* answer only what they accepted, in order (rules S1 and S3).             *)
(* A definition marked Variant is a plausible bug, there to show that a    *)
(* property notices it; no specification uses it.                          *)
(***************************************************************************)
EXTENDS Integers, Sequences

CONSTANTS Slave,   (* the external slave ports                             *)
          Slave0,  (* the one decoded as port 0                            *)
          ErrSlv,  (* the internal slave that answers unmapped addresses   *)
          None     (* no request                                           *)

ASSUME BusAssumption ==
  /\ Slave0 \in Slave
  /\ ErrSlv \notin Slave
  /\ None \notin Slave \union {ErrSlv}

Master  == {"i", "d"}
Target  == Slave \union {ErrSlv}
MAX_OUT == 2
QD      == 2 * MAX_OUT   \* q_fill is two bits wide: it counts modulo QD

VARIABLES
  req_reg,     (* the elaboration parameter REQ_REG, fixed at the start    *)
  rst,         (* the system reset is asserted                             *)
  issue_en, last_was_d, cnt, lock, q_owner, q_fill, err_rvalid,
  reg,         (* the request register: r_val, r_tgt, r_own                *)
  mreq,        (* master -> target of the request it drives, or None       *)
  pend,        (* slave -> owners of the requests it has accepted          *)
  out,         (* history: master -> targets granted and not yet answered  *)
  passed       (* history: master -> grants to the other one while it      *)
               (* could have issued                                        *)

fabric == <<issue_en, last_was_d, cnt, lock, q_owner, q_fill, err_rvalid, reg>>
vars   == <<req_reg, rst, fabric, mreq, pend, out, passed>>

-----------------------------------------------------------------------------
(* Arbitration.                                                            *)

(* Variant: no bound on the requests in flight.                            *)
CanIssueUnbounded(m) ==
  /\ issue_en
  /\ mreq[m] # None
  /\ cnt[m] = 0 \/ lock[m] = mreq[m]

(* Variant: no lock on the target while requests are in flight.            *)
CanIssueUnlocked(m) ==
  /\ issue_en
  /\ mreq[m] # None
  /\ cnt[m] < MAX_OUT

CanIssue(m) ==
  /\ issue_en
  /\ mreq[m] # None
  /\ cnt[m] = 0 \/ (lock[m] = mreq[m] /\ cnt[m] < MAX_OUT)

(* Variant: the data port always wins.                                     *)
d_wins_fixed == CanIssue("d")

d_wins  == CanIssue("d") /\ (~CanIssue("i") \/ ~last_was_d)
i_wins  == CanIssue("i") /\ ~d_wins
any_win == d_wins \/ i_wins
winner  == IF d_wins THEN "d" ELSE "i"
tgt     == mreq[winner]

(* The request phase: handed to the slave in the cycle of the grant, or    *)
(* captured and handed on later.  gnt is the set of slaves granting.       *)
Ready(t, gnt)  == t = ErrSlv \/ t \in gnt
RXfer(gnt)     == reg.val /\ Ready(reg.tgt, gnt)
Accepted(gnt)  == any_win /\ (IF req_reg THEN ~reg.val \/ RXfer(gnt)
                                         ELSE Ready(tgt, gnt))
Granted(m, gnt) == Accepted(gnt) /\ winner = m
Xfer(gnt)      == IF req_reg THEN RXfer(gnt) ELSE Accepted(gnt)
xfer_tgt       == IF req_reg THEN reg.tgt ELSE tgt
xfer_own       == IF req_reg THEN reg.own ELSE winner

(* The slave port whose req line is high, if any.                          *)
Presented == IF req_reg THEN (IF reg.val THEN {reg.tgt} ELSE {})
                        ELSE (IF any_win THEN {tgt} ELSE {})

SlvRvalid(rv) == rv \union (IF err_rvalid THEN {ErrSlv} ELSE {})

RespTo(m, rv) == {s \in SlvRvalid(rv) : q_owner[s][0] = m}
Rvalid(m, rv) == RespTo(m, rv) # {}

-----------------------------------------------------------------------------
NoReg == [val |-> FALSE, tgt |-> Slave0, own |-> "i"]

ResetFabric ==
  /\ issue_en' = FALSE
  /\ last_was_d' = FALSE
  /\ cnt' = [m \in Master |-> 0]
  /\ lock' = [m \in Master |-> Slave0]
  /\ q_owner' = [s \in Target |-> [k \in 0 .. QD - 1 |-> "i"]]
  /\ q_fill' = [s \in Target |-> 0]
  /\ err_rvalid' = FALSE
  /\ reg' = NoReg

Init ==
  /\ req_reg \in BOOLEAN
  /\ rst = TRUE
  /\ issue_en = FALSE
  /\ last_was_d = FALSE
  /\ cnt = [m \in Master |-> 0]
  /\ lock = [m \in Master |-> Slave0]
  /\ q_owner = [s \in Target |-> [k \in 0 .. QD - 1 |-> "i"]]
  /\ q_fill = [s \in Target |-> 0]
  /\ err_rvalid = FALSE
  /\ reg = NoReg
  /\ mreq \in [Master -> Target \union {None}]
  /\ pend = [s \in Target |-> <<>>]
  /\ out = [m \in Master |-> <<>>]
  /\ passed = [m \in Master |-> 0]

ShiftOut(q) == [k \in 0 .. QD - 1 |-> IF k = QD - 1 THEN "i" ELSE q[k + 1]]

(* Variant: a push that meets a pop lands where a push alone would.        *)
OwnerNextUnshifted(s, push, pop) ==
  CASE push /\ ~pop -> [q_owner[s] EXCEPT ![q_fill[s]] = xfer_own]
    [] ~push /\ pop -> ShiftOut(q_owner[s])
    [] push /\ pop  -> [ShiftOut(q_owner[s]) EXCEPT ![q_fill[s]] = xfer_own]
    [] OTHER        -> q_owner[s]

(* The ownership queue of one slave under a push, a pop, or both.          *)
OwnerNext(s, push, pop) ==
  CASE push /\ ~pop -> [q_owner[s] EXCEPT ![q_fill[s]] = xfer_own]
    [] ~push /\ pop -> ShiftOut(q_owner[s])
    [] push /\ pop  -> [ShiftOut(q_owner[s]) EXCEPT
                          ![(q_fill[s] + QD - 1) % QD] = xfer_own]
    [] OTHER        -> q_owner[s]

Count(n, up, down) ==
  IF up /\ ~down THEN (n + 1) % QD
  ELSE IF down /\ ~up THEN (n + QD - 1) % QD ELSE n

FabricStep(gnt, rv) ==
  LET Push(s) == Xfer(gnt) /\ xfer_tgt = s
      Pop(s)  == s \in SlvRvalid(rv)
  IN  /\ issue_en' = TRUE
      /\ last_was_d' = IF Accepted(gnt) THEN d_wins ELSE last_was_d
      /\ cnt' = [m \in Master |-> Count(cnt[m], Granted(m, gnt), Rvalid(m, rv))]
      /\ lock' = [m \in Master |-> IF Granted(m, gnt) THEN mreq[m] ELSE lock[m]]
      /\ q_owner' = [s \in Target |-> OwnerNext(s, Push(s), Pop(s))]
      /\ q_fill' = [s \in Target |-> Count(q_fill[s], Push(s), Pop(s))]
      /\ err_rvalid' = Push(ErrSlv)
      /\ reg' = IF req_reg /\ Accepted(gnt)
                THEN [val |-> TRUE, tgt |-> tgt, own |-> winner]
                ELSE [reg EXCEPT !.val = @ /\ ~RXfer(gnt)]

-----------------------------------------------------------------------------
(* The masters and slaves around the fabric.                               *)

(* A request is held until granted; then another may follow at once.       *)
MastersStep(gnt) ==
  mreq' \in [Master -> Target \union {None}] /\
  \A m \in Master : mreq[m] # None /\ ~Granted(m, gnt) => mreq'[m] = mreq[m]

Drop(q) == IF q = <<>> THEN q ELSE Tail(q)
Add(q, b, x) == IF b THEN Append(q, x) ELSE q

(* What each slave has really accepted, and from whom; what each master    *)
(* has really been granted.                                                *)
Owner == IF req_reg THEN reg.own ELSE winner

SlavesStep(gnt, rv) ==
  pend' = [s \in Target |->
             Add(IF s \in SlvRvalid(rv) THEN Drop(pend[s]) ELSE pend[s],
                 Xfer(gnt) /\ s \in Presented, Owner)]

HistoryStep(gnt, rv) ==
  /\ out' = [m \in Master |->
               Add(IF Rvalid(m, rv) THEN Drop(out[m]) ELSE out[m],
                   Granted(m, gnt), mreq[m])]
  /\ passed' = [m \in Master |->
                  IF ~CanIssue(m) \/ Granted(m, gnt) THEN 0
                  ELSE IF Accepted(gnt) /\ passed[m] < 2 THEN passed[m] + 1
                  ELSE passed[m]]

(* gnt: the slaves that grant, of those asked; rv: the slaves that answer, *)
(* of those that have accepted something.                                  *)
Answerable == {s \in Slave : pend[s] # <<>>}

Cycle(gnt, rv) ==
  /\ ~rst
  /\ FabricStep(gnt, rv)
  /\ MastersStep(gnt)
  /\ SlavesStep(gnt, rv)
  /\ HistoryStep(gnt, rv)
  /\ UNCHANGED <<req_reg, rst>>

(* rst_sys_n resets the fabric, the core and every slave port at once.     *)
AssertReset ==
  /\ ~rst
  /\ rst' = TRUE
  /\ ResetFabric
  /\ mreq' \in [Master -> Target \union {None}]
  /\ pend' = [s \in Target |-> <<>>]
  /\ out' = [m \in Master |-> <<>>]
  /\ passed' = [m \in Master |-> 0]
  /\ UNCHANGED req_reg

(* An edge during reset: the registers are held, the request path is not.  *)
ResetCycle(gnt) ==
  /\ rst
  /\ MastersStep(gnt)
  /\ SlavesStep(gnt, {})
  /\ HistoryStep(gnt, {})
  /\ rst' \in BOOLEAN
  /\ UNCHANGED <<req_reg, fabric>>

Next ==
  \/ \E gnt \in SUBSET Presented, rv \in SUBSET Answerable : Cycle(gnt, rv)
  \/ \E gnt \in SUBSET Presented : ResetCycle(gnt)
  \/ AssertReset

Spec == Init /\ [][Next]_vars

-----------------------------------------------------------------------------
TypeOK ==
  /\ req_reg \in BOOLEAN /\ rst \in BOOLEAN
  /\ issue_en \in BOOLEAN /\ last_was_d \in BOOLEAN /\ err_rvalid \in BOOLEAN
  /\ cnt \in [Master -> 0 .. MAX_OUT]
  /\ lock \in [Master -> Target]
  /\ q_owner \in [Target -> [0 .. QD - 1 -> Master]]
  /\ q_fill \in [Target -> 0 .. QD - 1]
  /\ reg \in [val : BOOLEAN, tgt : Target, own : Master]
  /\ mreq \in [Master -> Target \union {None}]
  /\ pend \in [Target -> Seq(Master)]
  /\ out \in [Master -> Seq(Target)]
  /\ passed \in [Master -> 0 .. 2]

(* Requests of m that slave s has accepted and not answered.               *)
InFlight(m, s) ==
  LET At(k) == IF k <= Len(pend[s]) /\ pend[s][k] = m THEN 1 ELSE 0
  IN  At(1) + At(2) + At(3) + At(4)

Captured(m, s) == IF reg.val /\ reg.tgt = s /\ reg.own = m THEN 1 ELSE 0

(* The two-bit fill index and the ownership queue of a slave port agree    *)
(* with what the slave holds.                                              *)
SlaveBooks(s) ==
  /\ Len(pend[s]) <= QD
  /\ q_fill[s] = Len(pend[s]) % QD
  /\ \A k \in 1 .. Len(pend[s]) : q_owner[s][k - 1] = pend[s][k]

(* The counter and the lock of a master agree with what it was granted and *)
(* with where its requests are.                                            *)
MasterBooks(m) ==
  /\ cnt[m] = Len(out[m])
  /\ \A k \in 1 .. Len(out[m]) : out[m][k] = lock[m]
  /\ \A s \in Target : InFlight(m, s) + Captured(m, s) =
                       IF s = lock[m] THEN cnt[m] ELSE 0

(* The fabric's counters and two-bit fill indices, which wrap when all     *)
(* four requests wait at one slave, agree with what the masters were       *)
(* granted and what the slaves hold.                                       *)
Bookkeeping ==
  /\ TypeOK
  /\ \A s \in Target : SlaveBooks(s)
  /\ \A m \in Master : MasterBooks(m)
  /\ Len(pend[ErrSlv]) = IF err_rvalid THEN 1 ELSE 0
  /\ reg.val => req_reg
  /\ rst => ~issue_en /\ out = [m \in Master |-> <<>>]

(* Whatever slave answers next, its answer reaches the master that asked,  *)
(* it is that master's oldest unanswered request, no other slave can       *)
(* answer the same master in the same cycle, and no slave ever holds more  *)
(* than the four requests its ownership queue has room for.                *)
ResponsesRouted ==
  \A s \in Target : pend[s] # <<>> =>
    LET m == Head(pend[s]) IN
      /\ q_owner[s][0] = m
      /\ out[m] # <<>> /\ Head(out[m]) = s
      /\ \A t \in Target \ {s} : pend[t] # <<>> => Head(pend[t]) # m
      /\ Len(pend[s]) <= QD

(* A master that is able to issue sees the other one granted at most once  *)
(* before it is granted itself, however long the slaves take.              *)
BoundedOvertaking == \A m \in Master : passed[m] <= 1

(* Variant: the pending answer of the error slave is forgotten.            *)
clk_en_no_err(rv) == ~issue_en \/ mreq # [m \in Master |-> None]
                     \/ rv # {} \/ reg.val

(* clk_en_o is complete: an edge at which no master asks, no slave answers *)
(* and nothing is captured changes no register of the fabric, so gating    *)
(* that edge away loses nothing.                                           *)
clk_en(rv) == ~issue_en \/ mreq # [m \in Master |-> None]
              \/ rv # {} \/ err_rvalid \/ reg.val

GateSafe ==
  [][~rst /\ ~rst' /\ ~clk_en({s \in Slave : pend'[s] # pend[s]})
       => UNCHANGED fabric]_vars
=============================================================================
