-------------------------- MODULE SocFabric_proofs --------------------------
(***************************************************************************)
(* For every set of builds, that is every setting of REQ_REG, RDREG and    *)
(* APB_TIMEOUT: the memory and the bridge keep the contract the fabric     *)
(* relies on, and the fabric with them in place implements the fabric of   *)
(* SocBus with arbitrary slaves.                                           *)
(***************************************************************************)
EXTENDS SocFabric, Integers, SequenceTheorems, TLAPS

(* The two slaves and the error slave are distinct targets.                *)
LEMMA Slaves ==
  /\ Slave = {Ram, Apb} /\ Bus!Target = {Ram, Apb, ErrSlv}
  /\ Ram # Apb /\ Ram # ErrSlv /\ Apb # ErrSlv
  /\ Bus!Master = {"i", "d"}
BY FabricAssumption DEF Slave, Bus!Target, Bus!Master

-----------------------------------------------------------------------------
(* The requests on their way through the fabric name masters and targets,  *)
(* and while the reset is asserted none is presented: so no slave takes    *)
(* one.                                                                    *)
Requests ==
  /\ req_reg \in BOOLEAN /\ rst \in BOOLEAN /\ issue_en \in BOOLEAN
  /\ reg \in [val : BOOLEAN, tgt : Bus!Target, own : Bus!Master]
  /\ mreq \in [Bus!Master -> Bus!Target \union {None}]
  /\ pend \in [Bus!Target -> Seq(Bus!Master)]
  /\ rst => ~issue_en /\ ~reg.val

(* SlaveAccounting counts a request as answered once the bound on PREADY   *)
(* has fired; that is right only because the bridge then stays in ACCESS.  *)
Bridge ==
  /\ Brg!TypeOK /\ apb_timeout \in Nat
  /\ to_fired => state = "ACCESS"

(* The memory's response shift register.                                   *)
Port == rdreg \in BOOLEAN /\ rv \in BOOLEAN \X BOOLEAN

(* SlaveAccounting is inductive only together with where the requests come *)
(* from and what the bridge is doing.                                      *)
IInv == Requests /\ Bridge /\ Port /\ SlaveAccounting

(* A truth value as a count.                                               *)
One(b) == IF b THEN 1 ELSE 0

(* What the fabric hands to a slave names a master and a target, and it    *)
(* hands nothing over in reset.                                            *)
LEMMA Handed ==
  ASSUME Requests
  PROVE  /\ Bus!winner \in Bus!Master
         /\ Bus!any_win => Bus!tgt \in Bus!Target
         /\ Bus!Presented \subseteq Bus!Target
         /\ Bus!Owner \in Bus!Master
         /\ rst => Bus!Presented = {} /\ ~Bus!any_win
         /\ \A g : Bus!Accepted(g) => Bus!any_win
<1>1. Bus!winner \in Bus!Master
  BY Slaves DEF Bus!winner
<1>2. Bus!any_win => Bus!CanIssue(Bus!winner)
  BY DEF Bus!any_win, Bus!d_wins, Bus!i_wins, Bus!winner
<1>3. Bus!any_win => Bus!tgt \in Bus!Target
  BY <1>1, <1>2 DEF Requests, Bus!tgt, Bus!CanIssue
<1>4. rst => ~Bus!any_win
  BY <1>2 DEF Requests, Bus!CanIssue
<1>5. Bus!Presented \subseteq Bus!Target /\ (rst => Bus!Presented = {})
  BY <1>3, <1>4 DEF Requests, Bus!Presented
<1>6. Bus!Owner \in Bus!Master
  BY <1>1 DEF Requests, Bus!Owner
<1> QED BY <1>1, <1>3, <1>4, <1>5, <1>6 DEF Bus!Accepted

(* A request is handed to a slave exactly when it is presented and, for    *)
(* the bridge, the bridge is idle.                                         *)
LEMMA Accepting ==
  ASSUME Requests
  PROVE  /\ Ram \in Bus!Presented => Bus!Xfer(gnt_now)
         /\ Apb \in Bus!Presented => (Bus!Xfer(gnt_now) <=> state = "IDLE")
<1>1. req_reg \in BOOLEAN /\ reg.val \in BOOLEAN
  BY DEF Requests
<1>2. CASE req_reg
  BY <1>2, Slaves DEF Bus!Presented, Bus!Xfer, Bus!RXfer, Bus!Ready, gnt_now, Brg!gnt
<1>3. CASE ~req_reg
  BY <1>3, Slaves DEF Bus!Presented, Bus!Xfer, Bus!Accepted, Bus!Ready, gnt_now, Brg!gnt
<1> QED BY <1>1, <1>2, <1>3

(* A queue grows by one per push and shrinks by one per pop of a queue     *)
(* that was not empty, also when both share an edge.                       *)
LEMMA QueueLength ==
  ASSUME NEW S, NEW q \in Seq(S), NEW push \in BOOLEAN, NEW pop \in BOOLEAN, NEW x \in S,
         NEW d, d = (IF pop THEN Bus!Drop(q) ELSE q),
         NEW p, p = Bus!Add(d, push, x)
  PROVE  p \in Seq(S) /\ Len(p) = Len(q) + One(push) - One(pop /\ q # <<>>)
<1>1. PICK n \in Nat : n = Len(q)
  BY LenProperties
<1>2. CASE pop /\ q # <<>>
  <2>1. d \in Seq(S) /\ Len(d) = n - 1
    BY <1>1, <1>2, HeadTailProperties DEF Bus!Drop
  <2>2. One(pop /\ q # <<>>) = 1
    BY <1>2 DEF One
  <2>3. CASE push
    <3>1. p \in Seq(S) /\ Len(p) = (n - 1) + 1
      BY <2>1, <2>3, AppendProperties DEF Bus!Add
    <3>2. One(push) = 1
      BY <2>3 DEF One
    <3> QED BY <1>1, <2>2, <3>1, <3>2
  <2>4. CASE ~push
    <3>1. p = d /\ One(push) = 0
      BY <2>4 DEF Bus!Add, One
    <3> QED BY <1>1, <2>1, <2>2, <3>1
  <2> QED BY <2>3, <2>4
<1>3. CASE ~(pop /\ q # <<>>)
  <2>1. d = q /\ One(pop /\ q # <<>>) = 0
    BY <1>3 DEF Bus!Drop, One
  <2>2. CASE push
    <3>1. p \in Seq(S) /\ Len(p) = n + 1
      BY <1>1, <2>1, <2>2, AppendProperties DEF Bus!Add
    <3>2. One(push) = 1
      BY <2>2 DEF One
    <3> QED BY <1>1, <2>1, <3>1, <3>2
  <2>3. CASE ~push
    <3>1. p = q /\ One(push) = 0
      BY <2>1, <2>3 DEF Bus!Add, One
    <3> QED BY <1>1, <2>1, <3>1
  <2> QED BY <2>2, <2>3
<1> QED BY <1>2, <1>3

(* The requests a slave holds after an edge: those before, one more if one *)
(* is handed over, one fewer if one is answered.                           *)
LEMMA SlaveStep ==
  ASSUME Requests, NEW g, NEW v, Bus!SlavesStep(g, v), NEW s \in Bus!Target
  PROVE  /\ pend'[s] \in Seq(Bus!Master)
         /\ Len(pend'[s]) = Len(pend[s]) + One(Bus!Xfer(g) /\ s \in Bus!Presented)
                                         - One(s \in Bus!SlvRvalid(v) /\ pend[s] # <<>>)
<1> DEFINE push == Bus!Xfer(g) /\ s \in Bus!Presented
           pop  == s \in Bus!SlvRvalid(v)
<1>1. PICK d : d = IF pop THEN Bus!Drop(pend[s]) ELSE pend[s]
  OBVIOUS
<1>2. pend'[s] = Bus!Add(d, push, Bus!Owner)
  BY <1>1 DEF Bus!SlavesStep
<1>3. pend[s] \in Seq(Bus!Master) /\ Bus!Owner \in Bus!Master
  BY Handed DEF Requests
<1>4. push \in BOOLEAN /\ pop \in BOOLEAN
  BY DEF Bus!Xfer, Bus!RXfer, Bus!Accepted, Bus!Ready
<1> HIDE DEF push, pop
<1>5. pend'[s] \in Seq(Bus!Master)
      /\ Len(pend'[s]) = Len(pend[s]) + One(push) - One(pop /\ pend[s] # <<>>)
  <2>1. PICK u \in BOOLEAN : u = push
    BY <1>4
  <2>2. PICK w \in BOOLEAN : w = pop
    BY <1>4
  <2>3. PICK p : p = Bus!Add(d, u, Bus!Owner)
    OBVIOUS
  <2>4. d = (IF w THEN Bus!Drop(pend[s]) ELSE pend[s])
    BY <1>1, <2>2
  <2>5. p \in Seq(Bus!Master) /\ Len(p) = Len(pend[s]) + One(u) - One(w /\ pend[s] # <<>>)
    BY <1>3, <2>3, <2>4, QueueLength
  <2> QED BY <1>2, <2>1, <2>2, <2>3, <2>5
<1> QED BY <1>5 DEF push, pop

(* Which slaves answer, seen from the fabric.                              *)
LEMMA Answers ==
  ASSUME Bridge, Port
  PROVE  /\ Ram \in Bus!SlvRvalid(rv_now) <=> mem_rvalid
         /\ Apb \in Bus!SlvRvalid(rv_now) <=> rvalid
         /\ mem_rvalid \in BOOLEAN /\ rvalid \in BOOLEAN
         /\ gnt_now \in SUBSET Bus!Presented
BY Slaves DEF Bus!SlvRvalid, rv_now, Bridge, Port, Brg!TypeOK, mem_rvalid, gnt_now

(* With the accounting right, a slave that answers has a request to        *)
(* answer.                                                                 *)
LEMMA Contract ==
  ASSUME IInv
  PROVE  /\ SlavesKeepContract
         /\ mem_rvalid => pend[Ram] # <<>>
         /\ rvalid => pend[Apb] # <<>>
<1>1. Len(<<>>) = 0
  OBVIOUS
<1>2. mem_rvalid => pend[Ram] # <<>>
  <2>1. mem_rvalid => Len(pend[Ram]) # 0
    BY DEF IInv, SlaveAccounting, mem_rvalid, Port
  <2> QED BY <2>1, <1>1
<1>3. rvalid => pend[Apb] # <<>>
  <2>1. rvalid => Len(pend[Apb]) # 0
    BY DEF IInv, SlaveAccounting
  <2> QED BY <2>1, <1>1
<1> QED BY <1>2, <1>3, Slaves DEF SlavesKeepContract, rv_now, Bus!Answerable

(* The bound on the wait is a number.                                      *)
LEMMA LimitType == apb_timeout \in Nat => Brg!TO_LIMIT \in Nat /\ 0 \in 0 .. Brg!TO_LIMIT
BY DEF Brg!TO_LIMIT

(* The invariant holds at the start.                                       *)
LEMMA InitInv == Init => IInv
<1> SUFFICES ASSUME Init PROVE IInv
  OBVIOUS
<1>1. pend = [s \in Bus!Target |-> <<>>] /\ <<>> \in Seq(Bus!Master) /\ Len(<<>>) = 0
  BY DEF Init, Bus!Init
<1>2. Requests
  <2>1. reg \in [val : BOOLEAN, tgt : Bus!Target, own : Bus!Master] /\ ~reg.val
    BY Slaves DEF Init, Bus!Init, Bus!NoReg
  <2> QED BY <1>1, <2>1 DEF Init, Bus!Init, Requests
<1>3. Bridge
  <2>1. apb_timeout \in Nat
    BY FabricAssumption DEF Init
  <2>3. apb_timeout \in ApbTimeouts /\ state = "IDLE" /\ rvalid = FALSE /\ to_cnt = 0 /\ to_fired = FALSE
    BY DEF Init, Brg!Init
  <2>4. to_cnt \in 0 .. Brg!TO_LIMIT
    BY <2>1, <2>3, LimitType
  <2>5. state \in {"IDLE", "SETUP", "ACCESS"} /\ rvalid \in BOOLEAN /\ to_fired \in BOOLEAN
        /\ (to_fired => state = "ACCESS")
    BY <2>3
  <2> QED BY <2>1, <2>3, <2>4, <2>5 DEF Bridge, Brg!TypeOK
<1>4. Port
  BY DEF Init, Port
<1>5. SlaveAccounting
  BY <1>1, Slaves DEF Init, Brg!Init, SlaveAccounting
<1> QED BY <1>2, <1>3, <1>4, <1>5 DEF IInv

(* The queues hold masters.                                                *)
LEMMA PendType ==
  ASSUME Requests, NEW g, NEW v, Bus!SlavesStep(g, v)
  PROVE  pend' \in [Bus!Target -> Seq(Bus!Master)]
<1>1. \A s \in Bus!Target : pend'[s] \in Seq(Bus!Master)
  BY SlaveStep
<1>2. pend' = [s \in Bus!Target |-> pend'[s]]
  BY DEF Bus!SlavesStep
<1> QED BY <1>1, <1>2

(* An edge preserves the invariant.                                        *)
LEMMA ClockInv ==
  ASSUME IInv, NEW pready \in BOOLEAN, Clock(pready)
  PROVE  IInv'
<1>1. /\ Requests /\ Bridge /\ Port /\ SlaveAccounting
      /\ Bus!Cycle(gnt_now, rv_now) /\ Brg!Edge(Apb \in Bus!Presented, pready)
      /\ rv' = <<Ram \in Bus!Presented, rv[1]>> /\ UNCHANGED <<apb_timeout, rdreg>>
  BY DEF IInv, Clock
<1>2. /\ Bus!FabricStep(gnt_now, rv_now) /\ Bus!MastersStep(gnt_now)
      /\ Bus!SlavesStep(gnt_now, rv_now) /\ ~rst /\ UNCHANGED <<req_reg, rst>>
  BY <1>1 DEF Bus!Cycle
<1>3. Requests'
  <2>1. reg' \in [val : BOOLEAN, tgt : Bus!Target, own : Bus!Master]
    <3>1. CASE req_reg /\ Bus!Accepted(gnt_now)
      <4>1. reg' = [val |-> TRUE, tgt |-> Bus!tgt, own |-> Bus!winner]
        BY <1>2, <3>1 DEF Bus!FabricStep
      <4> QED BY <4>1, <3>1, <1>1, Handed
    <3>2. CASE ~(req_reg /\ Bus!Accepted(gnt_now))
      <4>1. reg' = [reg EXCEPT !.val = @ /\ ~Bus!RXfer(gnt_now)]
        BY <1>2, <3>2 DEF Bus!FabricStep
      <4>2. (reg.val /\ ~Bus!RXfer(gnt_now)) \in BOOLEAN
        OBVIOUS
      <4> QED BY <4>1, <4>2, <1>1 DEF Requests
    <3> QED BY <3>1, <3>2
  <2>2. pend' \in [Bus!Target -> Seq(Bus!Master)]
    BY <1>1, <1>2, PendType
  <2>3. mreq' \in [Bus!Master -> Bus!Target \union {None}] /\ issue_en' \in BOOLEAN
    BY <1>2 DEF Bus!MastersStep, Bus!FabricStep
  <2> QED BY <2>1, <2>2, <2>3, <1>1, <1>2 DEF Requests
<1>4. Bridge'
  <2>1. /\ apb_timeout \in Nat /\ apb_timeout \in ApbTimeouts /\ apb_timeout' = apb_timeout
        /\ rvalid \in BOOLEAN /\ to_fired \in BOOLEAN /\ (to_fired => state = "ACCESS")
        /\ state \in {"IDLE", "SETUP", "ACCESS"} /\ to_cnt \in 0 .. Brg!TO_LIMIT
    BY <1>1 DEF Bridge, Brg!TypeOK
  <2>2. Brg!TO_LIMIT \in Nat /\ Brg!TO_LIMIT' = Brg!TO_LIMIT
    BY <2>1, LimitType DEF Brg!TO_LIMIT
  <2>3. state' \in {"IDLE", "SETUP", "ACCESS"} /\ rvalid' \in BOOLEAN /\ to_fired' \in BOOLEAN
        /\ (to_fired' => state' = "ACCESS")
    <3> DEFINE Goal == state' \in {"IDLE", "SETUP", "ACCESS"} /\ rvalid' \in BOOLEAN
                       /\ to_fired' \in BOOLEAN /\ (to_fired' => state' = "ACCESS")
    <3>1. CASE Brg!Idle(Apb \in Bus!Presented)
      <4>1. state' \in {"IDLE", "SETUP"} /\ rvalid' = FALSE /\ to_fired' = to_fired /\ state = "IDLE"
        BY <3>1 DEF Brg!Idle
      <4> QED BY <4>1, <2>1
    <3>2. CASE Brg!Setup
      BY <3>2, <2>1 DEF Brg!Setup
    <3>3. CASE Brg!Complete(pready)
      <4>1. state' = "IDLE" /\ rvalid' = TRUE /\ to_fired' = to_fired /\ ~to_fired
        BY <3>3 DEF Brg!Complete
      <4> QED BY <4>1, <2>1
    <3>4. CASE Brg!Expire(pready)
      BY <3>4, <2>1 DEF Brg!Expire
    <3>5. CASE Brg!Wait(pready)
      BY <3>5, <2>1 DEF Brg!Wait
    <3> HIDE DEF Goal
    <3>6. Goal
      BY <1>1, <3>1, <3>2, <3>3, <3>4, <3>5 DEF Brg!Edge, Goal
    <3> QED BY <3>6 DEF Goal
  <2>4. to_cnt' \in 0 .. Brg!TO_LIMIT
    <3>1. CASE to_cnt' \in {0, to_cnt}
      BY <3>1, <2>1, <2>2
    <3>2. CASE Brg!Wait(pready) /\ to_cnt' = to_cnt + 1 /\ to_cnt # Brg!TO_LIMIT
      BY <3>2, <2>1, <2>2
    <3>3. \/ to_cnt' \in {0, to_cnt}
          \/ Brg!Wait(pready) /\ to_cnt' = to_cnt + 1 /\ to_cnt # Brg!TO_LIMIT
      BY <1>1 DEF Brg!Edge, Brg!Idle, Brg!Setup, Brg!Complete, Brg!Expire, Brg!Wait
    <3> QED BY <3>1, <3>2, <3>3
  <2>5. apb_timeout' \in ApbTimeouts /\ to_cnt' \in 0 .. Brg!TO_LIMIT'
    BY <2>1, <2>2, <2>4
  <2> QED BY <2>1, <2>3, <2>5 DEF Bridge, Brg!TypeOK
<1>5. Port'
  <2>1. (Ram \in Bus!Presented) \in BOOLEAN
    OBVIOUS
  <2> QED BY <2>1, <1>1 DEF Port
<1>6. SlaveAccounting'
  <2>1. Len(pend'[Ram]) = Len(pend[Ram]) + One(Ram \in Bus!Presented) - One(mem_rvalid)
    <3>1. Len(pend'[Ram]) = Len(pend[Ram]) + One(Bus!Xfer(gnt_now) /\ Ram \in Bus!Presented)
                            - One(Ram \in Bus!SlvRvalid(rv_now) /\ pend[Ram] # <<>>)
      BY <1>1, <1>2, SlaveStep, Slaves
    <3>2. One(Bus!Xfer(gnt_now) /\ Ram \in Bus!Presented) = One(Ram \in Bus!Presented)
      BY <1>1, Accepting DEF One
    <3>3. One(Ram \in Bus!SlvRvalid(rv_now) /\ pend[Ram] # <<>>) = One(mem_rvalid)
      BY <1>1, Answers, Contract DEF One
    <3> QED BY <3>1, <3>2, <3>3
  <2>2. Len(pend'[Apb]) = Len(pend[Apb]) + One(Apb \in Bus!Presented /\ state = "IDLE") - One(rvalid)
    <3>1. Len(pend'[Apb]) = Len(pend[Apb]) + One(Bus!Xfer(gnt_now) /\ Apb \in Bus!Presented)
                            - One(Apb \in Bus!SlvRvalid(rv_now) /\ pend[Apb] # <<>>)
      BY <1>1, <1>2, SlaveStep, Slaves
    <3>2. One(Bus!Xfer(gnt_now) /\ Apb \in Bus!Presented) = One(Apb \in Bus!Presented /\ state = "IDLE")
      BY <1>1, Accepting DEF One
    <3>3. One(Apb \in Bus!SlvRvalid(rv_now) /\ pend[Apb] # <<>>) = One(rvalid)
      BY <1>1, Answers, Contract DEF One
    <3> QED BY <3>1, <3>2, <3>3
  <2>3. Len(pend'[Ram]) = One(rv'[1]) + One(rdreg' /\ rv'[2])
    <3>1. Len(pend[Ram]) = One(rv[1]) + One(rdreg /\ rv[2])
      BY <1>1 DEF SlaveAccounting, One
    <3>2. (rv'[1] <=> Ram \in Bus!Presented) /\ (rv'[2] <=> rv[1]) /\ (rdreg' <=> rdreg)
      BY <1>1 DEF Port
    <3>3. One(rv'[1]) = One(Ram \in Bus!Presented) /\ One(rdreg' /\ rv'[2]) = One(rdreg /\ rv[1])
      BY <3>2 DEF One
    <3>4. One(rv[1]) - One(mem_rvalid) + One(rdreg /\ rv[2]) = One(rdreg /\ rv[1])
      BY <1>1 DEF One, mem_rvalid, Port
    <3>5. \A b : One(b) \in Int
      BY DEF One
    <3> QED BY <2>1, <3>1, <3>3, <3>4, <3>5
  <2>4. Len(pend'[Apb]) = One(state' # "IDLE" /\ ~to_fired') + One(rvalid')
    <3>1. Len(pend[Apb]) = One(state # "IDLE" /\ ~to_fired) + One(rvalid)
      BY <1>1 DEF SlaveAccounting, One
    <3>2. rvalid \in BOOLEAN /\ to_fired \in BOOLEAN /\ (to_fired => state = "ACCESS")
      BY <1>1 DEF Bridge, Brg!TypeOK
    <3>3. CASE Brg!Idle(Apb \in Bus!Presented)
      <4>1. /\ state = "IDLE" /\ ~rvalid' /\ to_fired' = to_fired /\ ~to_fired
            /\ state' = IF Apb \in Bus!Presented THEN "SETUP" ELSE "IDLE"
        BY <3>2, <3>3 DEF Brg!Idle
      <4> QED BY <4>1, <3>1, <3>2, <2>2 DEF One
    <3>4. CASE Brg!Setup
      <4>1. state = "SETUP" /\ state' = "ACCESS" /\ ~rvalid' /\ to_fired' = to_fired /\ ~to_fired
        BY <3>2, <3>4 DEF Brg!Setup
      <4> QED BY <4>1, <3>1, <3>2, <2>2 DEF One
    <3>5. CASE Brg!Complete(pready)
      <4>1. state = "ACCESS" /\ state' = "IDLE" /\ rvalid' /\ to_fired' = to_fired /\ ~to_fired
        BY <3>5 DEF Brg!Complete
      <4> QED BY <4>1, <3>1, <3>2, <2>2 DEF One
    <3>6. CASE Brg!Expire(pready)
      <4>1. state = "ACCESS" /\ state' = "ACCESS" /\ rvalid' /\ to_fired' /\ ~to_fired
        BY <3>6 DEF Brg!Expire
      <4> QED BY <4>1, <3>1, <3>2, <2>2 DEF One
    <3>7. CASE Brg!Wait(pready)
      <4>1. state = "ACCESS" /\ state' = "ACCESS" /\ ~rvalid' /\ to_fired' = to_fired
        BY <3>7 DEF Brg!Wait
      <4> QED BY <4>1, <3>1, <3>2, <2>2 DEF One
    <3> QED BY <1>1, <3>3, <3>4, <3>5, <3>6, <3>7 DEF Brg!Edge
  <2> QED BY <2>3, <2>4 DEF SlaveAccounting, One
<1> QED BY <1>3, <1>4, <1>5, <1>6 DEF IInv

(* The reset empties the slaves together with what the fabric believes     *)
(* they hold.                                                              *)
LEMMA AssertInv ==
  ASSUME IInv, AssertReset
  PROVE  IInv'
<1>1. /\ Requests /\ Bridge /\ Port /\ Bus!AssertReset /\ Brg!Reset
      /\ rv' = <<FALSE, FALSE>> /\ UNCHANGED <<apb_timeout, rdreg>>
  BY DEF IInv, AssertReset
<1>2. pend' = [s \in Bus!Target |-> <<>>] /\ <<>> \in Seq(Bus!Master) /\ Len(<<>>) = 0
  BY <1>1 DEF Bus!AssertReset
<1>3. Requests'
  <2>1. reg' \in [val : BOOLEAN, tgt : Bus!Target, own : Bus!Master] /\ ~reg'.val /\ ~issue_en'
    BY <1>1, Slaves DEF Bus!AssertReset, Bus!ResetFabric, Bus!NoReg
  <2> QED BY <1>1, <1>2, <2>1 DEF Bus!AssertReset, Bus!ResetFabric, Requests
<1>4. Bridge'
  <2>1. apb_timeout' \in Nat /\ apb_timeout' \in ApbTimeouts
    BY <1>1 DEF Bridge, Brg!TypeOK
  <2>2. Brg!TO_LIMIT' = Brg!TO_LIMIT /\ apb_timeout \in Nat
    BY <1>1 DEF Brg!TO_LIMIT, Bridge
  <2>3. state' = "IDLE" /\ rvalid' = FALSE /\ to_cnt' = 0 /\ to_fired' = FALSE
    BY <1>1 DEF Brg!Reset
  <2>4. to_cnt' \in 0 .. Brg!TO_LIMIT'
    BY <2>2, <2>3, LimitType
  <2>5. state' \in {"IDLE", "SETUP", "ACCESS"} /\ rvalid' \in BOOLEAN /\ to_fired' \in BOOLEAN
        /\ (to_fired' => state' = "ACCESS")
    BY <2>3
  <2> QED BY <2>1, <2>4, <2>5 DEF Bridge, Brg!TypeOK
<1>5. Port'
  BY <1>1 DEF Port
<1>6. SlaveAccounting'
  BY <1>1, <1>2, Slaves DEF Brg!Reset, SlaveAccounting
<1> QED BY <1>3, <1>4, <1>5, <1>6 DEF IInv

(* An edge in reset moves nothing in the slaves.                           *)
LEMMA ResetCycleInv ==
  ASSUME IInv, ResetCycle
  PROVE  IInv'
<1>1. /\ Requests /\ Bridge /\ Port /\ SlaveAccounting /\ Bus!ResetCycle(gnt_now)
      /\ UNCHANGED <<apb_timeout, state, rvalid, to_cnt, to_fired, rdreg, rv>>
  BY DEF IInv, ResetCycle
<1>2. /\ Bus!MastersStep(gnt_now) /\ Bus!SlavesStep(gnt_now, {}) /\ rst /\ rst' \in BOOLEAN
      /\ UNCHANGED <<req_reg, issue_en, reg>>
  BY <1>1 DEF Bus!ResetCycle, Bus!fabric
<1>3. Requests'
  <2>1. pend' \in [Bus!Target -> Seq(Bus!Master)]
    BY <1>1, <1>2, PendType
  <2> QED BY <1>1, <1>2, <2>1 DEF Requests, Bus!MastersStep
<1>4. \A s \in Slave : Len(pend'[s]) = Len(pend[s])
  <2> SUFFICES ASSUME NEW s \in Slave PROVE Len(pend'[s]) = Len(pend[s])
    OBVIOUS
  <2>1. s \in Bus!Target /\ s \notin Bus!Presented /\ s \notin Bus!SlvRvalid({})
    BY <1>1, <1>2, Handed, Slaves DEF Bus!SlvRvalid
  <2>2. Len(pend'[s]) = Len(pend[s]) + One(Bus!Xfer(gnt_now) /\ s \in Bus!Presented)
                                    - One(s \in Bus!SlvRvalid({}) /\ pend[s] # <<>>)
    BY <1>1, <1>2, <2>1, SlaveStep
  <2>3. One(Bus!Xfer(gnt_now) /\ s \in Bus!Presented) = 0
        /\ One(s \in Bus!SlvRvalid({}) /\ pend[s] # <<>>) = 0
    BY <2>1 DEF One
  <2>4. Len(pend[s]) \in Nat
    BY <1>1, <2>1, LenProperties DEF Requests
  <2> QED BY <2>2, <2>3, <2>4
<1>5. Bridge' /\ Port'
  BY <1>1 DEF Bridge, Port, Brg!TypeOK, Brg!TO_LIMIT
<1>6. SlaveAccounting'
  BY <1>1, <1>4, Slaves DEF SlaveAccounting
<1> QED BY <1>3, <1>5, <1>6 DEF IInv

(* The invariant is inductive.                                             *)
LEMMA NextInv == IInv /\ [Next]_vars => IInv'
<1> SUFFICES ASSUME IInv, [Next]_vars PROVE IInv'
  OBVIOUS
<1>1. ASSUME NEW pready \in BOOLEAN, Clock(pready) PROVE IInv'
  BY <1>1, ClockInv
<1>2. CASE ResetCycle
  BY <1>2, ResetCycleInv
<1>3. CASE AssertReset
  BY <1>3, AssertInv
<1>4. CASE UNCHANGED vars
  BY <1>4 DEF vars, IInv, Requests, Bridge, Port, SlaveAccounting, Brg!TypeOK, Brg!TO_LIMIT
<1> QED BY <1>1, <1>2, <1>3, <1>4 DEF Next

(* The invariant holds in every reachable state.                           *)
LEMMA SpecInv == Spec => []IInv
BY InitInv, NextInv, PTL DEF Spec

(* The bridge and the memory hold exactly the requests the fabric has      *)
(* handed them, whatever REQ_REG, RDREG and APB_TIMEOUT are, through       *)
(* resets and an expired wait for PREADY.                                  *)
THEOREM BridgeAndMemoryKeepAccount == Spec => []SlaveAccounting
BY SpecInv, PTL DEF IInv

(* The bridge and the memory answer only what they have accepted.          *)
THEOREM SlavesAreContractual == Spec => []SlavesKeepContract
<1>1. IInv => SlavesKeepContract
  BY Contract
<1> QED BY <1>1, SpecInv, PTL

(* The fabric with the real memory and bridge implements the fabric with   *)
(* arbitrary contract-keeping slaves: every step of it is a step of        *)
(* SocBus, so what SocBus_proofs shows of every such fabric holds of this  *)
(* one.                                                                    *)
THEOREM FabricIsABus == Spec => Bus!Spec
<1>1. Init => Bus!Init
  BY DEF Init
<1>2. IInv /\ [Next]_vars => [Bus!Next]_(Bus!vars)
  <2> SUFFICES ASSUME IInv, [Next]_vars PROVE Bus!Next \/ UNCHANGED Bus!vars
    OBVIOUS
  <2>1. gnt_now \in SUBSET Bus!Presented
    BY Answers DEF IInv
  <2>2. ASSUME NEW pready \in BOOLEAN, Clock(pready) PROVE Bus!Next
    <3>1. rv_now \in SUBSET Bus!Answerable
      BY Contract DEF SlavesKeepContract
    <3> QED BY <2>1, <2>2, <3>1 DEF Clock, Bus!Next
  <2>3. CASE ResetCycle
    BY <2>1, <2>3 DEF ResetCycle, Bus!Next
  <2>4. CASE AssertReset
    BY <2>4 DEF AssertReset, Bus!Next
  <2>5. CASE UNCHANGED vars
    BY <2>5 DEF vars, Bus!vars, Bus!fabric
  <2> QED BY <2>2, <2>3, <2>4, <2>5 DEF Next
<1> QED BY <1>1, <1>2, SpecInv, PTL DEF Spec, Bus!Spec

-----------------------------------------------------------------------------
(* The fabric of every set of slaves, with what is proved of it.           *)
Every == INSTANCE SocBus_proofs WITH Slave0 <- Ram

(* The two instances of the fabric start in the same states.               *)
LEMMA SameStart == Every!Init <=> Bus!Init
BY DEF Every!Init, Bus!Init, Every!MAX_OUT, Bus!MAX_OUT, Every!Master, Bus!Master, Every!Target, Bus!Target,
        Every!QD, Bus!QD, Every!NoReg, Bus!NoReg

(* The two instances of the fabric take the same steps.                    *)
LEMMA SameStep == Every!Next <=> Bus!Next
BY DEF Every!Master, Bus!Master, Every!Target, Bus!Target, Every!MAX_OUT, Bus!MAX_OUT,
        Every!QD, Bus!QD, Every!fabric, Bus!fabric, Every!vars, Bus!vars,
        Every!CanIssue, Bus!CanIssue, Every!d_wins, Bus!d_wins, Every!i_wins,
        Bus!i_wins, Every!any_win, Bus!any_win, Every!winner, Bus!winner, Every!tgt,
        Bus!tgt, Every!Ready, Bus!Ready, Every!RXfer, Bus!RXfer, Every!Accepted,
        Bus!Accepted, Every!Granted, Bus!Granted, Every!Xfer, Bus!Xfer, Every!xfer_tgt,
        Bus!xfer_tgt, Every!xfer_own, Bus!xfer_own, Every!Presented, Bus!Presented,
        Every!SlvRvalid, Bus!SlvRvalid, Every!RespTo, Bus!RespTo, Every!Rvalid,
        Bus!Rvalid, Every!NoReg, Bus!NoReg, Every!ResetFabric, Bus!ResetFabric,
        Every!ShiftOut, Bus!ShiftOut, Every!OwnerNext, Bus!OwnerNext, Every!Count,
        Bus!Count, Every!FabricStep, Bus!FabricStep, Every!MastersStep, Bus!MastersStep,
        Every!Drop, Bus!Drop, Every!Add, Bus!Add, Every!Owner, Bus!Owner,
        Every!SlavesStep, Bus!SlavesStep, Every!HistoryStep, Bus!HistoryStep,
        Every!Answerable, Bus!Answerable, Every!Cycle, Bus!Cycle, Every!AssertReset,
        Bus!AssertReset, Every!ResetCycle, Bus!ResetCycle, Every!Next, Bus!Next

(* What is proved of every fabric applies to this one.                     *)
LEMMA FabricIsEveryBus == Spec => Every!Spec
<1>1. Bus!Init => Every!Init
  BY SameStart
<1>2. [Bus!Next]_(Bus!vars) => [Every!Next]_(Every!vars)
  <2> SUFFICES ASSUME Bus!Next \/ UNCHANGED Bus!vars PROVE Every!Next \/ UNCHANGED Every!vars
    OBVIOUS
  <2> QED BY SameStep DEF Every!vars, Every!fabric, Bus!vars, Bus!fabric
<1> QED BY <1>1, <1>2, FabricIsABus, PTL DEF Bus!Spec, Every!Spec

(* So with the real memory and bridge behind it, too, every answer reaches *)
(* the master that asked, a waiting master is overtaken at most once, and  *)
(* the fabric's counters and queues agree with what was granted.           *)
THEOREM ShippedFabricIsRight ==
  Spec => /\ []Every!ResponsesRouted
          /\ []Every!BoundedOvertaking
          /\ []Every!Bookkeeping
<1>1. Ram \in Slave /\ ErrSlv \notin Slave /\ None \notin Slave \union {ErrSlv}
  BY FabricAssumption DEF Slave
<1>2. Every!Spec => []Every!ResponsesRouted
  BY <1>1, Every!ResponsesReachTheirMaster
<1>3. Every!Spec => []Every!BoundedOvertaking
  BY <1>1, Every!OvertakenAtMostOnce
<1>4. Every!Spec => []Every!Bookkeeping
  BY <1>1, Every!BooksAgree
<1> QED BY <1>2, <1>3, <1>4, FabricIsEveryBus
=============================================================================
