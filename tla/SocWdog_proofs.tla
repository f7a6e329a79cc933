--------------------------- MODULE SocWdog_proofs ---------------------------
(***************************************************************************)
(* For every counter width, prescaler, reset length, escalation count and  *)
(* window, with the bootstrap pin moving or not, and any number of upsets, *)
(* at most one replica of the word between two edges: who disarms the      *)
(* watchdog, what precedes a reset, what it leaves to the next boot, and   *)
(* what survives it.                                                       *)
(***************************************************************************)
EXTENDS SocWdog, Integers, TLAPS

(* The vote, as a function of the three replicas.                          *)
VoteOf(b) ==
  IF b["a"] = b["b"] \/ b["a"] = b["c"] THEN b["a"]
  ELSE IF b["b"] = b["c"] THEN b["b"]
  ELSE CHOOSE w \in Word : TRUE

(* The protected word is the vote over the bank.                           *)
LEMMA ProtIsVote == prot = VoteOf(bank)
BY DEF prot, VoteOf

(* Whatever one replica holds, two that agree carry the vote.              *)
LEMMA Outvoted ==
  ASSUME NEW b, NEW w, NEW r \in Replica, \A s \in Replica \ {r} : b[s] = w
  PROVE  VoteOf(b) = w
<1>1. Replica = {"a", "b", "c"}
  BY DEF Replica
<1>2. CASE r = "a"
  BY <1>1, <1>2 DEF VoteOf
<1>3. CASE r = "b"
  BY <1>1, <1>3 DEF VoteOf
<1>4. CASE r = "c"
  BY <1>1, <1>4 DEF VoteOf
<1> QED BY <1>1, <1>2, <1>3, <1>4

(* Three equal replicas vote for what they hold.                           *)
LEMMA Unanimous ==
  ASSUME NEW b, NEW w, \A r \in Replica : b[r] = w
  PROVE  VoteOf(b) = w
BY DEF VoteOf, Replica

-----------------------------------------------------------------------------
(* The inductive invariant.                                                *)

(* At most one replica differs from the vote, and only between an upset    *)
(* and the next edge: a second upset before it would outvote.              *)
Voted == /\ prot \in Word
         /\ \E r \in Replica : \A s \in Replica \ {r} : bank[s] = prot
         /\ ~struck => \A s \in Replica : bank[s] = prot

(* DisarmedOnlyByPin says nothing of the pin's level while it is in the    *)
(* flops; the invariant follows it from the first edge into the word.      *)
PinOnItsWay ==
  /\ dis_arm < 2 => ~prot.dis_seen
  /\ dis_arm = 1 => dis_sync[1] = pin
  /\ dis_arm = 2 => IF prot.dis_seen THEN prot.dis_q = pin ELSE dis_sync[2] = pin

(* A pending stage 1 is that of an armed watchdog, not in reset; so a      *)
(* warning never survives into a boot.                                     *)
StageOne ==
  /\ prot.nmi_pend => armed /\ ~in_reset
  /\ prot.nmi_pend <=> warned.by # "none"

(* WarningBeforeReset needs the ticks at the expiry; the invariant ties    *)
(* them to the counter on the way there.                                   *)
FullPeriod ==
  upsets = 0 /\ warned.by = "expiry" /\ warned.ticks # 0
    => warned.ticks + counter > reload

(* FreshBoot speaks of leaving the reset; what it needs was done on        *)
(* entering it and is kept through the stretch.                            *)
Undone == upsets = 0 /\ in_reset => reload = COUNT_MAX /\ prot.win_s = 0 /\ ~prot.bud_arm

IInv == TypeOK /\ Voted /\ PinOnItsWay /\ StageOne /\ FullPeriod /\ Undone

-----------------------------------------------------------------------------
(* The shape of a keyed write, and that the core's silence is None.        *)
LEMMA WriteTypes ==
  ASSUME NEW op \in Writes
  PROVE  /\ op.reg \in {"none", "counter", "reload", "ctrl", "stat", "win"}
         /\ op.reg \in {"counter", "reload"} => op.num \in 0 .. COUNT_MAX
         /\ op.reg = "ctrl" => op.ld \in BOOLEAN /\ op.ip \in BOOLEAN
         /\ op.reg = "stat" => op.nmi \in BOOLEAN
         /\ op.reg = "win" => op.wins \in 0 .. 15 /\ op.buden \in BOOLEAN /\ op.kicks \in 0 .. KICK_MAX
         /\ op.reg = "none" <=> op = None
<1>0. None.reg = "none"
  BY DEF None
<1>1. CASE op = None
  BY <1>0, <1>1
<1>2. CASE op \in [reg : {"counter", "reload"}, num : Counts]
  <2>1. op.reg \in {"counter", "reload"} /\ op.num \in 0 .. COUNT_MAX
    BY <1>2, WdogAssumption
  <2> QED BY <2>1, <1>0
<1>3. CASE op \in [reg : {"ctrl"}, ld : {TRUE}, ip : BOOLEAN]
  <2>1. op.reg = "ctrl"
    BY <1>3
  <2>2. op.ld \in BOOLEAN /\ op.ip \in BOOLEAN
    BY <1>3
  <2> QED BY <2>1, <2>2, <1>0
<1>4. CASE op \in [reg : {"ctrl"}, ld : {FALSE}, ip : {TRUE}]
  <2>1. op.reg = "ctrl"
    BY <1>4
  <2>2. op.ld \in BOOLEAN /\ op.ip \in BOOLEAN
    BY <1>4
  <2> QED BY <2>1, <2>2, <1>0
<1>5. CASE op \in [reg : {"stat"}, nmi : {TRUE}]
  <2>1. op.reg = "stat"
    BY <1>5
  <2>2. op.nmi \in BOOLEAN
    BY <1>5
  <2> QED BY <2>1, <2>2, <1>0
<1>6. CASE op \in [reg : {"win"}, wins : Windows, buden : BOOLEAN, kicks : 0 .. KICK_MAX]
  <2>1. op.reg = "win"
    BY <1>6
  <2>2. op.wins \in 0 .. 15 /\ op.buden \in BOOLEAN /\ op.kicks \in 0 .. KICK_MAX
    BY <1>6, WdogAssumption
  <2> QED BY <2>1, <2>2, <1>0
<1> QED BY <1>1, <1>2, <1>3, <1>4, <1>5, <1>6 DEF Writes

(* The conditions of an edge are truth values; a fault is of an armed      *)
(* watchdog out of reset, and stage 2 is a fault over a pending stage 1.   *)
LEMMA Conditions ==
  ASSUME TypeOK, prot \in Word, NEW op \in Writes
  PROVE  /\ armed \in BOOLEAN /\ in_reset \in BOOLEAN /\ tick \in BOOLEAN
         /\ expire \in BOOLEAN /\ violate(op) \in BOOLEAN /\ fault(op) \in BOOLEAN
         /\ stage2(op) \in BOOLEAN /\ kick(op) \in BOOLEAN /\ ack(op) \in BOOLEAN
         /\ early_kick(op) \in BOOLEAN /\ budget_out(op) \in BOOLEAN
         /\ stage2(op) <=> fault(op) /\ prot.nmi_pend
         /\ fault(op) => armed /\ ~in_reset
         /\ fault(op) <=> expire \/ early_kick(op) \/ budget_out(op)
<1>1. armed \in BOOLEAN /\ in_reset \in BOOLEAN /\ tick \in BOOLEAN /\ prot.nmi_pend \in BOOLEAN
  BY DEF armed, in_reset, tick, Word
<1>2. kick_req(op) \in BOOLEAN /\ ack(op) \in BOOLEAN
  BY WriteTypes DEF kick_req, ack
<1>3. expire \in BOOLEAN /\ early_kick(op) \in BOOLEAN /\ budget_out(op) \in BOOLEAN
  BY <1>1, <1>2 DEF expire, early_kick, budget_out
<1> QED BY <1>1, <1>2, <1>3 DEF violate, fault, stage2, kick, expire, early_kick, budget_out

(* A saturating counter stays in range and never shrinks.                  *)
LEMMA BumpType ==
  ASSUME NEW m \in Nat, NEW n \in 0 .. m
  PROVE  Bump(n, m) \in 0 .. m /\ Bump(n, m) >= n
BY DEF Bump

(* The next word is a word: no counter overflows and the stretch fits.     *)
LEMMA NextWord ==
  ASSUME TypeOK, prot \in Word, NEW op \in Writes
  PROVE  prot_n(op) \in Word
<1>1. prot = [dis_q |-> prot.dis_q, dis_seen |-> prot.dis_seen, nmi_pend |-> prot.nmi_pend,
              rst_seen |-> prot.rst_seen, rst_count |-> prot.rst_count,
              rst_hold |-> prot.rst_hold, win_s |-> prot.win_s, bud_arm |-> prot.bud_arm,
              early_seen |-> prot.early_seen, bud_seen |-> prot.bud_seen,
              tmr_err |-> prot.tmr_err, tmr_count |-> prot.tmr_count]
      /\ prot.dis_q \in BOOLEAN /\ prot.dis_seen \in BOOLEAN /\ prot.nmi_pend \in BOOLEAN
      /\ prot.rst_seen \in BOOLEAN /\ prot.rst_count \in 0 .. RST_CNT_MAX
      /\ prot.rst_hold \in 0 .. RST_CYCLES /\ prot.win_s \in 0 .. 15
      /\ prot.bud_arm \in BOOLEAN /\ prot.early_seen \in BOOLEAN /\ prot.bud_seen \in BOOLEAN
      /\ prot.tmr_err \in BOOLEAN /\ prot.tmr_count \in 0 .. TMR_CNT_MAX
  BY DEF Word
<1> DEFINE n == prot_n(op)
<1>2. n.dis_q \in BOOLEAN /\ n.dis_seen \in BOOLEAN
  BY <1>1 DEF prot_n, dis_ready, TypeOK
<1>3. n.nmi_pend \in BOOLEAN /\ n.rst_seen \in BOOLEAN /\ n.bud_arm \in BOOLEAN
      /\ n.early_seen \in BOOLEAN /\ n.bud_seen \in BOOLEAN
  BY <1>1, Conditions, WriteTypes DEF prot_n
<1>4. n.tmr_err \in BOOLEAN
  BY <1>1 DEF prot_n, prot_mismatch
<1>5. n.rst_count \in 0 .. RST_CNT_MAX /\ n.tmr_count \in 0 .. TMR_CNT_MAX
  BY <1>1, BumpType, WdogAssumption DEF prot_n
<1>6. n.rst_hold \in 0 .. RST_CYCLES
  BY <1>1, WdogAssumption DEF prot_n, in_reset
<1>7. n.win_s \in 0 .. 15
  BY <1>1, WriteTypes DEF prot_n
<1> QED BY <1>2, <1>3, <1>4, <1>5, <1>6, <1>7 DEF Word, prot_n

(* An edge loads all three replicas from the vote, so it ends every        *)
(* disagreement.                                                           *)
LEMMA ClockVote ==
  ASSUME TypeOK, prot \in Word, NEW op \in Writes, NEW dis \in BOOLEAN, Clock(op, dis)
  PROVE  prot' = prot_n(op) /\ Voted' /\ ~prot_mismatch'
<1>1. bank' = [r \in Replica |-> prot_n(op)]
  BY DEF Clock, Bank
<1>2. prot' = prot_n(op)
  <2>1. prot' = VoteOf(bank')
    BY DEF prot, VoteOf
  <2> QED BY <1>1, <2>1, Unanimous
<1>3. prot' \in Word
  BY <1>2, NextWord
<1> QED BY <1>1, <1>2, <1>3 DEF Voted, prot_mismatch, Replica

(* An upset strikes one replica of a unanimous word, or none: the vote     *)
(* stays, and a disagreement it makes shows.                               *)
LEMMA UpsetVote ==
  ASSUME Voted, TypeOK, Upset
  PROVE  prot' = prot /\ Voted' /\ (prot_mismatch => prot_mismatch')
<1>1. prot' = VoteOf(bank')
  BY DEF prot, VoteOf
<1>2. CASE UpsetReplica
  <2>1. PICK r \in Replica, w \in Struck : w # bank[r] /\ bank' = [bank EXCEPT ![r] = w]
    BY <1>2 DEF UpsetReplica
  <2>2. ~struck /\ \A s \in Replica : bank[s] = prot
    BY <1>2 DEF UpsetReplica, Voted
  <2>3. \A s \in Replica \ {r} : bank'[s] = prot
    BY <2>1, <2>2 DEF TypeOK
  <2>4. prot' = prot
    BY <1>1, <2>3, Outvoted
  <2>5. ~prot_mismatch
    BY <2>2 DEF prot_mismatch, Replica
  <2>6. struck'
    BY <1>2 DEF UpsetReplica
  <2> QED BY <2>3, <2>4, <2>5, <2>6 DEF Voted
<1>3. CASE UpsetPlain
  <2>1. bank' = bank /\ struck' = struck
    BY <1>3 DEF UpsetPlain
  <2> QED BY <2>1 DEF prot, Voted, prot_mismatch
<1> QED BY <1>2, <1>3 DEF Upset

(* An edge, whatever is written, keeps every register in range.            *)
LEMMA ClockType ==
  ASSUME TypeOK, prot \in Word, NEW op \in Writes, NEW dis \in BOOLEAN, Clock(op, dis)
  PROVE  TypeOK'
<1>1. bank' \in [Replica -> Word]
  BY NextWord DEF Clock, Bank
<1>2. dis_sync' \in BOOLEAN \X BOOLEAN /\ dis_arm' \in 0 .. 2
  BY DEF Clock, Sample, TypeOK, Bump
<1>3. reload' \in 0 .. COUNT_MAX
  BY WriteTypes, WdogAssumption DEF Clock, Reload, TypeOK
<1>4. counter' \in 0 .. COUNT_MAX
  <2>1. counter # 0 => counter - 1 \in 0 .. COUNT_MAX
    BY WdogAssumption DEF TypeOK
  <2> QED BY <2>1, WriteTypes, WdogAssumption DEF Clock, CountDown, TypeOK
<1>5. pre' \in 0 .. (PRESCALE - 1)
  BY WdogAssumption DEF Clock, Prescale, TypeOK
<1>6. kick_left' \in 0 .. KICK_MAX
  BY WriteTypes, WdogAssumption DEF Clock, Budget, TypeOK
<1>7. in_reset_q' \in BOOLEAN /\ hung' \in BOOLEAN /\ pin' \in BOOLEAN /\ struck' \in BOOLEAN
      /\ upsets' \in 0 .. MaxUpsets
  BY Conditions DEF Clock, TypeOK
<1>8. warned' \in [by : {"none", "expiry", "kick"}, ticks : 0 .. (COUNT_MAX + 2)]
  <2>1. Warning(op, prot_n(op))
    BY DEF Clock
  <2>2. warned.by \in {"none", "expiry", "kick"} /\ warned.ticks \in 0 .. (COUNT_MAX + 2)
        /\ warned \in [by : {"none", "expiry", "kick"}, ticks : 0 .. (COUNT_MAX + 2)]
        /\ COUNT_MAX + 2 \in Nat /\ 0 \in 0 .. (COUNT_MAX + 2) /\ 1 \in 0 .. (COUNT_MAX + 2)
    BY WdogAssumption DEF TypeOK
  <2>3. Bump(warned.ticks, COUNT_MAX + 2) \in 0 .. (COUNT_MAX + 2)
    BY <2>2, BumpType
  <2> QED BY <2>1, <2>2, <2>3 DEF Warning, NotWarned
<1> QED BY <1>1, <1>2, <1>3, <1>4, <1>5, <1>6, <1>7, <1>8 DEF TypeOK

(* An edge moves the pin one flop on, and takes the sample exactly when    *)
(* the first edge's level has arrived.                                     *)
LEMMA ClockPin ==
  ASSUME TypeOK, PinOnItsWay, prot \in Word, NEW op \in Writes, NEW dis \in BOOLEAN,
         Clock(op, dis)
  PROVE  PinOnItsWay'
<1>1. prot' = prot_n(op)
  BY ClockVote
<1>2. /\ prot'.dis_seen = (prot.dis_seen \/ dis_arm >= 2)
      /\ prot'.dis_q = IF ~prot.dis_seen /\ dis_arm >= 2 THEN dis_sync[2] ELSE prot.dis_q
  BY <1>1 DEF prot_n, dis_ready
<1>3. /\ dis_sync' = <<dis, dis_sync[1]>> /\ dis_arm' = Bump(dis_arm, 2)
      /\ pin' = IF dis_arm = 0 THEN dis ELSE pin
  BY DEF Clock, Sample
<1>4. dis_arm \in {0, 1, 2} /\ prot.dis_seen \in BOOLEAN
  BY DEF TypeOK, Word
<1>5. CASE dis_arm = 0
  <2>1. dis_arm' = 1 /\ prot'.dis_seen = FALSE
    BY <1>2, <1>3, <1>4, <1>5 DEF Bump, PinOnItsWay
  <2> QED BY <2>1, <1>3, <1>5 DEF PinOnItsWay
<1>6. CASE dis_arm = 1
  <2>1. dis_arm' = 2 /\ prot'.dis_seen = FALSE
    BY <1>2, <1>3, <1>4, <1>6 DEF Bump, PinOnItsWay
  <2> QED BY <2>1, <1>3, <1>6 DEF PinOnItsWay
<1>7. CASE dis_arm = 2
  <2>1. dis_arm' = 2
    BY <1>3, <1>7 DEF Bump
  <2>2. prot'.dis_seen
    <3>1. dis_arm >= 2
      BY <1>7
    <3> QED BY <3>1, <1>2, Zenon
  <2> QED BY <2>1, <2>2, <1>2, <1>3, <1>4, <1>7 DEF PinOnItsWay
<1> QED BY <1>4, <1>5, <1>6, <1>7

(* A stage 1 begins, ends or stays together with the history of how it     *)
(* began.                                                                  *)
LEMMA ClockStageOne ==
  ASSUME TypeOK, StageOne, prot \in Word, NEW op \in Writes, NEW dis \in BOOLEAN,
         Clock(op, dis)
  PROVE  StageOne'
<1>1. prot' = prot_n(op) /\ Warning(op, prot_n(op))
  BY ClockVote DEF Clock
<1>2. prot'.nmi_pend <=> ~stage2(op) /\ (fault(op) \/ (prot.nmi_pend /\ ~ack(op)))
  BY <1>1 DEF prot_n
<1>3. prot'.nmi_pend => armed' /\ ~in_reset'
  <2> SUFFICES ASSUME prot'.nmi_pend PROVE armed' /\ ~in_reset'
    OBVIOUS
  <2>1. armed /\ ~in_reset /\ ~stage2(op)
    BY <1>2, Conditions DEF StageOne
  <2>2. prot'.dis_seen /\ prot'.dis_q = prot.dis_q /\ prot'.rst_hold = 0
    BY <1>1, <2>1 DEF prot_n, armed
  <2> QED BY <2>1, <2>2 DEF armed, in_reset
<1>4. prot'.nmi_pend <=> warned'.by # "none"
  <2>1. CASE ~prot'.nmi_pend
    BY <2>1, <1>1 DEF Warning, NotWarned
  <2>2. CASE prot'.nmi_pend /\ fault(op)
    BY <2>2, <1>1 DEF Warning
  <2>3. CASE prot'.nmi_pend /\ ~fault(op)
    <3>1. warned.by # "none"
      BY <2>3, <1>2 DEF StageOne
    <3>2. warned'.by = warned.by
      BY <2>3, <1>1 DEF Warning, TypeOK
    <3> QED BY <3>1, <3>2, <2>3
  <2> QED BY <2>1, <2>2, <2>3
<1> QED BY <1>3, <1>4 DEF StageOne

(* While the core is silent, a tick takes one off the counter and adds one *)
(* to the ticks; the reload value stays.                                   *)
LEMMA ClockPeriod ==
  ASSUME TypeOK, StageOne, FullPeriod, prot \in Word, NEW op \in Writes,
         NEW dis \in BOOLEAN, Clock(op, dis)
  PROVE  FullPeriod'
<1>1. prot' = prot_n(op) /\ Warning(op, prot_n(op)) /\ CountDown(op) /\ Reload(op) /\ upsets' = upsets
  BY ClockVote DEF Clock
<1> SUFFICES ASSUME upsets = 0, warned'.by = "expiry", warned'.ticks # 0
             PROVE  warned'.ticks + counter' > reload'
  BY <1>1 DEF FullPeriod
<1>2. /\ reload \in 0 .. COUNT_MAX /\ counter \in 0 .. COUNT_MAX /\ COUNT_MAX \in Nat
      /\ warned.ticks \in 0 .. (COUNT_MAX + 2)
  BY WdogAssumption DEF TypeOK
<1>3. prot_n(op).nmi_pend /\ ~stage2(op) /\ (fault(op) \/ prot.nmi_pend)
  BY <1>1 DEF Warning, NotWarned, prot_n
<1>4. op = None
  BY <1>1, <1>3 DEF Warning, TypeOK
<1>5. op.reg = "none" /\ ~kick(op) /\ reload' = reload
  BY <1>1, <1>3, <1>4 DEF None, kick, kick_req, Reload
<1>6. armed /\ ~in_reset
  BY <1>3, Conditions DEF StageOne
<1>7. CASE fault(op)
  <2>1. ~violate(op) /\ expire /\ warned'.ticks = 1
    BY <1>1, <1>3, <1>4, <1>7 DEF Warning, fault
  <2>2. counter' = reload
    BY <2>1, <1>1, <1>5, <1>6 DEF CountDown, expire
  <2> QED BY <2>1, <2>2, <1>2, <1>5
<1>8. CASE ~fault(op)
  <2>1. warned' = IF tick /\ warned.ticks # 0
                  THEN [warned EXCEPT !.ticks = Bump(@, COUNT_MAX + 2)] ELSE warned
    BY <1>1, <1>3, <1>4, <1>8 DEF Warning
  <2>2. warned.by = "expiry" /\ warned.ticks # 0
    BY <2>1, <1>2 DEF TypeOK
  <2>3. warned.ticks + counter > reload
    BY <2>2 DEF FullPeriod
  <2>4. CASE tick
    <3>1. counter # 0
      BY <2>4, <1>6, <1>8 DEF fault, expire
    <3>2. counter' = counter - 1
      BY <3>1, <2>4, <1>1, <1>5, <1>6 DEF CountDown
    <3>3. warned'.ticks = Bump(warned.ticks, COUNT_MAX + 2)
      BY <2>1, <2>2, <2>4 DEF TypeOK
    <3>4. CASE warned.ticks < COUNT_MAX + 2
      <4>1. warned'.ticks = warned.ticks + 1
        BY <3>3, <3>4 DEF Bump
      <4> QED BY <4>1, <3>1, <3>2, <2>3, <1>2, <1>5
    <3>5. CASE ~(warned.ticks < COUNT_MAX + 2)
      <4>1. warned'.ticks = COUNT_MAX + 2
        BY <3>3, <3>5, <1>2 DEF Bump
      <4> QED BY <4>1, <3>1, <3>2, <1>2, <1>5
    <3> QED BY <3>4, <3>5
  <2>5. CASE ~tick
    <3>1. counter' = counter /\ warned'.ticks = warned.ticks
      BY <2>1, <2>5, <1>1, <1>5, <1>6 DEF CountDown
    <3> QED BY <3>1, <2>3, <1>5
  <2> QED BY <2>4, <2>5
<1> QED BY <1>7, <1>8

(* Entering the reset undoes the configuration, and no write can redo it   *)
(* there.                                                                  *)
LEMMA ClockUndone ==
  ASSUME TypeOK, Undone, prot \in Word, NEW op \in Writes, NEW dis \in BOOLEAN,
         Clock(op, dis), in_reset => op = None
  PROVE  Undone'
<1>1. prot' = prot_n(op) /\ Reload(op) /\ upsets' = upsets
  BY ClockVote DEF Clock
<1> SUFFICES ASSUME upsets = 0, in_reset'
             PROVE  reload' = COUNT_MAX /\ prot'.win_s = 0 /\ ~prot'.bud_arm
  BY <1>1 DEF Undone
<1>2. CASE stage2(op)
  BY <1>1, <1>2 DEF Reload, prot_n
<1>3. CASE ~stage2(op)
  <2>1. in_reset
    BY <1>1, <1>3 DEF in_reset, prot_n
  <2>2. op.reg = "none"
    BY <2>1 DEF None
  <2> QED BY <2>1, <2>2, <1>1, <1>3 DEF Undone, Reload, prot_n
<1> QED BY <1>2, <1>3

(* An edge preserves the invariant.  In reset nothing is written.          *)
LEMMA ClockInv ==
  ASSUME IInv, NEW op \in Writes, NEW dis \in BOOLEAN, Clock(op, dis), in_reset => op = None
  PROVE  IInv'
<1>1. TypeOK /\ Voted /\ prot \in Word
  BY DEF IInv, Voted
<1> QED BY <1>1, ClockType, ClockVote, ClockPin, ClockStageOne, ClockPeriod, ClockUndone DEF IInv

(* An upset preserves the invariant: it moves no voted word, and the parts *)
(* about the unprotected registers are of upset-free behaviours.           *)
LEMMA UpsetInv == IInv /\ Upset => IInv'
<1> SUFFICES ASSUME IInv, Upset PROVE IInv'
  OBVIOUS
<1>1. TypeOK /\ Voted /\ upsets \in Nat
  BY DEF IInv, TypeOK
<1>2. prot' = prot /\ Voted'
  BY <1>1, UpsetVote
<1>3. UNCHANGED <<dis_sync, dis_arm, pin, warned, hung>> /\ upsets' # 0
  BY <1>1 DEF Upset, UpsetReplica, UpsetPlain, plain
<1>4. armed' = armed /\ in_reset' = in_reset
  BY <1>2 DEF armed, in_reset
<1>5. TypeOK'
  <2>1. upsets' \in 0 .. MaxUpsets
    BY WdogAssumption, <1>1 DEF Upset
  <2>2. bank' \in [Replica -> Word] /\ struck' \in BOOLEAN
    BY <1>1, StruckAssumption DEF Upset, UpsetReplica, UpsetPlain, TypeOK
  <2>3. /\ reload' \in 0 .. COUNT_MAX /\ counter' \in 0 .. COUNT_MAX
        /\ pre' \in 0 .. (PRESCALE - 1) /\ kick_left' \in 0 .. KICK_MAX /\ in_reset_q' \in BOOLEAN
    BY <1>1 DEF Upset, UpsetReplica, UpsetPlain, plain, TypeOK
  <2> QED BY <1>1, <1>3, <2>1, <2>2, <2>3 DEF TypeOK
<1> QED BY <1>2, <1>3, <1>4, <1>5 DEF IInv, PinOnItsWay, StageOne, FullPeriod, Undone

(* The invariant holds at power-on.                                        *)
LEMMA InitInv == Init => IInv
<1> SUFFICES ASSUME Init PROVE IInv
  OBVIOUS
<1>1. NoWord \in Word
  BY WdogAssumption DEF NoWord, Word
<1>2. prot = NoWord /\ \A r \in Replica : bank[r] = NoWord
  BY Unanimous, ProtIsVote DEF Init
<1>3. TypeOK
  <2>1. bank \in [Replica -> Word]
    BY <1>1 DEF Init
  <2>2. warned \in [by : {"none", "expiry", "kick"}, ticks : 0 .. (COUNT_MAX + 2)]
    BY WdogAssumption DEF Init, NotWarned
  <2>3. /\ reload \in 0 .. COUNT_MAX /\ counter \in 0 .. COUNT_MAX /\ pre \in 0 .. (PRESCALE - 1)
        /\ kick_left \in 0 .. KICK_MAX /\ upsets \in 0 .. MaxUpsets
    BY WdogAssumption DEF Init
  <2>4. dis_sync \in BOOLEAN \X BOOLEAN
    <3>1. <<FALSE, FALSE>> \in BOOLEAN \X BOOLEAN
      OBVIOUS
    <3> QED BY <3>1 DEF Init
  <2>5. dis_arm \in 0 .. 2
    BY DEF Init
  <2>6. in_reset_q \in BOOLEAN /\ hung \in BOOLEAN /\ pin \in BOOLEAN /\ struck \in BOOLEAN
    BY DEF Init
  <2> QED BY <2>1, <2>2, <2>3, <2>4, <2>5, <2>6 DEF TypeOK
<1>4. Voted
  BY <1>1, <1>2 DEF Voted, Replica
<1>5. ~prot.dis_seen /\ ~prot.nmi_pend /\ prot.rst_hold = 0
  BY <1>2 DEF NoWord
<1> QED BY <1>3, <1>4, <1>5 DEF Init, IInv, PinOnItsWay, StageOne, FullPeriod, Undone, NotWarned, in_reset

(* A step is an edge with some write, none in reset, or it leaves the vote *)
(* alone.                                                                  *)
LEMMA Steps ==
  ASSUME [Next]_vars
  PROVE  \/ \E op \in Writes, dis \in BOOLEAN : Clock(op, dis) /\ (in_reset => op = None)
         \/ Hang \/ Upset \/ UNCHANGED vars
<1>1. None \in Writes
  BY DEF Writes
<1> QED BY <1>1 DEF Next, Run, Wait

(* The invariant is inductive.                                             *)
LEMMA NextInv == IInv /\ [Next]_vars => IInv'
<1> SUFFICES ASSUME IInv, [Next]_vars PROVE IInv'
  OBVIOUS
<1>1. ASSUME NEW op \in Writes, NEW dis \in BOOLEAN, Clock(op, dis), in_reset => op = None
      PROVE  IInv'
  BY <1>1, ClockInv
<1>2. CASE Upset
  BY <1>2, UpsetInv
<1>3. CASE Hang \/ UNCHANGED vars
  <2>1. UNCHANGED <<bank, dis_sync, dis_arm, reload, counter, pre, kick_left, in_reset_q,
                    pin, warned, struck, upsets>> /\ hung' \in BOOLEAN
    BY <1>3 DEF Hang, vars, plain, IInv, TypeOK
  <2>2. prot' = prot
    BY <2>1 DEF prot
  <2> QED BY <2>1, <2>2 DEF IInv, TypeOK, Voted, PinOnItsWay, StageOne, FullPeriod, Undone, armed, in_reset
<1> QED BY <1>1, <1>2, <1>3, Steps

(* The invariant holds in every reachable state.                           *)
LEMMA SpecInv == Spec => []IInv
BY InitInv, NextInv, PTL DEF Spec

-----------------------------------------------------------------------------
(* The watchdog is disarmed by the bootstrap pin as it stood at the first  *)
(* edge and by nothing later, also when the pin moves afterwards, for      *)
(* every counter width, write and number of upsets of a replica.           *)
THEOREM PinAloneDisarms == Spec => []DisarmedOnlyByPin
<1>1. IInv => DisarmedOnlyByPin
  BY DEF IInv, TypeOK, PinOnItsWay, DisarmedOnlyByPin
<1> QED BY <1>1, SpecInv, PTL

(* What a step that is no edge leaves alone: the vote, and with it arming, *)
(* reset, warning and the escalation pin.                                  *)
LEMMA OffTheEdge ==
  ASSUME IInv, Hang \/ Upset \/ UNCHANGED vars
  PROVE  /\ prot' = prot /\ armed' = armed /\ in_reset' = in_reset
         /\ nmi_o' = nmi_o /\ wdog_no' = wdog_no
         /\ prot_mismatch => prot_mismatch'
<1>1. prot' = prot /\ (prot_mismatch => prot_mismatch')
  <2>1. CASE Upset
    BY <2>1, UpsetVote DEF IInv
  <2>2. CASE Hang \/ UNCHANGED vars
    BY <2>2 DEF Hang, vars, prot, prot_mismatch
  <2> QED BY <2>1, <2>2
<1> QED BY <1>1 DEF armed, in_reset, nmi_o, wdog_no

(* A reset is entered only by stage 2.                                     *)
LEMMA EnteredByStageTwo ==
  ASSUME TypeOK, prot \in Word, NEW op \in Writes, prot' = prot_n(op), EnterReset
  PROVE  stage2(op)
BY DEF EnterReset, in_reset, prot_n

(* No reset without a pending warning, none without an expiry or a         *)
(* recorded kick violation, and after an expiry a silent core has had its  *)
(* full period, for every counter width, prescaler and reload value.       *)
THEOREM ResetIsWarned == Spec => WarningBeforeReset
<1>1. ASSUME IInv, [Next]_vars, EnterReset
      PROVE  /\ nmi_o /\ warned.by # "none"
             /\ expire \/ prot'.early_seen \/ prot'.bud_seen
             /\ expire /\ warned.by = "expiry" /\ warned.ticks # 0 /\ upsets = 0
                   => warned.ticks > reload
  <2>1. TypeOK /\ prot \in Word /\ StageOne /\ FullPeriod
    BY <1>1 DEF IInv, Voted
  <2>2. PICK op \in Writes, dis \in BOOLEAN : Clock(op, dis)
    BY <1>1, Steps, OffTheEdge DEF EnterReset
  <2>3. prot' = prot_n(op)
    BY <2>1, <2>2, ClockVote
  <2>4. stage2(op)
    BY <1>1, <2>1, <2>3, EnteredByStageTwo
  <2>5. fault(op) /\ prot.nmi_pend
    BY <2>1, <2>4, Conditions
  <2>6. nmi_o /\ warned.by # "none"
    BY <2>1, <2>5 DEF nmi_o, StageOne
  <2>7. expire \/ prot'.early_seen \/ prot'.bud_seen
    BY <2>3, <2>5, <2>1, Conditions DEF prot_n
  <2>8. ASSUME expire, warned.by = "expiry", warned.ticks # 0, upsets = 0
        PROVE  warned.ticks > reload
    <3>1. warned.ticks + counter > reload
      BY <2>1, <2>8 DEF FullPeriod
    <3>2. counter = 0
      BY <2>8 DEF expire
    <3> QED BY <3>1, <3>2, <2>1, WdogAssumption DEF TypeOK
  <2> QED BY <2>6, <2>7, <2>8
<1>2. IInv /\ [Next]_vars =>
        [EnterReset =>
           /\ nmi_o /\ warned.by # "none"
           /\ expire \/ prot'.early_seen \/ prot'.bud_seen
           /\ expire /\ warned.by = "expiry" /\ warned.ticks # 0 /\ upsets = 0
                 => warned.ticks > reload]_vars
  BY <1>1
<1> QED BY <1>2, SpecInv, PTL DEF Spec, WarningBeforeReset

(* The boot after a watchdog reset starts from the reset configuration of  *)
(* the counter, the window and the budget, whatever was configured before. *)
THEOREM NextBootIsFresh == Spec => FreshBoot
<1>1. ASSUME IInv, [Next]_vars, in_reset, ~in_reset', upsets = 0
      PROVE  /\ counter' = COUNT_MAX /\ reload' = COUNT_MAX
             /\ prot'.win_s = 0 /\ ~prot'.bud_arm /\ ~nmi_o'
  <2>1. TypeOK /\ prot \in Word /\ StageOne /\ Undone
    BY <1>1 DEF IInv, Voted
  <2>2. PICK op \in Writes, dis \in BOOLEAN : Clock(op, dis) /\ (in_reset => op = None)
    BY <1>1, Steps, OffTheEdge
  <2>3. prot' = prot_n(op) /\ CountDown(op) /\ Reload(op)
    BY <2>1, <2>2, ClockVote DEF Clock
  <2>4. op.reg = "none" /\ ~fault(op) /\ ~stage2(op) /\ ~prot.nmi_pend
    BY <1>1, <2>1, <2>2, Conditions DEF None, StageOne
  <2>5. reload = COUNT_MAX /\ prot.win_s = 0 /\ ~prot.bud_arm
    BY <1>1, <2>1 DEF Undone
  <2>6. counter' = reload /\ reload' = reload
    BY <1>1, <2>3, <2>4 DEF CountDown, Reload
  <2>7. prot'.win_s = 0 /\ ~prot'.bud_arm /\ ~prot'.nmi_pend
    BY <2>3, <2>4, <2>5 DEF prot_n
  <2> QED BY <2>5, <2>6, <2>7 DEF nmi_o
<1>2. IInv /\ [Next]_vars =>
        [in_reset /\ ~in_reset' /\ upsets = 0 =>
           /\ counter' = COUNT_MAX /\ reload' = COUNT_MAX
           /\ prot'.win_s = 0 /\ ~prot'.bud_arm /\ ~nmi_o']_vars
  BY <1>1
<1> QED BY <1>2, SpecInv, PTL DEF Spec, FreshBoot

(* The step takes nothing from the records, and adds to them the reset it  *)
(* enters and the disagreement it repairs.                                 *)
Recorded ==
  /\ prot.rst_seen => prot'.rst_seen
  /\ prot.early_seen => prot'.early_seen
  /\ prot.bud_seen => prot'.bud_seen
  /\ prot'.rst_count >= prot.rst_count
  /\ EnterReset => /\ prot'.rst_seen
                   /\ prot'.rst_count = Bump(prot.rst_count, RST_CNT_MAX)
  /\ prot'.tmr_count >= prot.tmr_count
  /\ prot_mismatch /\ ~prot_mismatch' =>
        /\ prot'.tmr_err
        /\ prot'.tmr_count = Bump(prot.tmr_count, TMR_CNT_MAX)

(* The records survive every reset, upset and write; every reset and every *)
(* corrected upset is counted, up to the saturation of the counters.       *)
THEOREM EvidenceIsKept == Spec => EvidenceSurvives
<1>1. ASSUME IInv, NEW op \in Writes, NEW dis \in BOOLEAN, Clock(op, dis)
      PROVE  Recorded
  <2>1. TypeOK /\ prot \in Word
    BY <1>1 DEF IInv, Voted
  <2>2. prot' = prot_n(op)
    BY <1>1, <2>1, ClockVote
  <2>3. prot.rst_count \in 0 .. RST_CNT_MAX /\ prot.tmr_count \in 0 .. TMR_CNT_MAX
    BY <2>1 DEF Word
  <2>4. /\ Bump(prot.rst_count, RST_CNT_MAX) >= prot.rst_count
        /\ Bump(prot.tmr_count, TMR_CNT_MAX) >= prot.tmr_count
    BY <2>3, BumpType, WdogAssumption
  <2>5. /\ prot.rst_seen => prot'.rst_seen
        /\ prot.early_seen => prot'.early_seen
        /\ prot.bud_seen => prot'.bud_seen
    BY <2>2 DEF prot_n
  <2>6. prot'.rst_count >= prot.rst_count /\ prot'.tmr_count >= prot.tmr_count
    BY <2>2, <2>3, <2>4 DEF prot_n
  <2>7. EnterReset => prot'.rst_seen /\ prot'.rst_count = Bump(prot.rst_count, RST_CNT_MAX)
    BY <2>1, <2>2, EnteredByStageTwo DEF prot_n
  <2>8. prot_mismatch => prot'.tmr_err /\ prot'.tmr_count = Bump(prot.tmr_count, TMR_CNT_MAX)
    BY <2>2 DEF prot_n
  <2> QED BY <2>5, <2>6, <2>7, <2>8 DEF Recorded
<1>2. ASSUME IInv, Hang \/ Upset \/ UNCHANGED vars
      PROVE  Recorded
  <2>1. prot' = prot /\ ~EnterReset /\ (prot_mismatch => prot_mismatch')
    BY <1>2, OffTheEdge DEF EnterReset
  <2>2. prot.rst_count \in Int /\ prot.tmr_count \in Int
    BY <1>2 DEF IInv, Voted, Word
  <2> QED BY <2>1, <2>2 DEF Recorded
<1>3. IInv /\ [Next]_vars => [Recorded]_vars
  BY <1>1, <1>2, Steps
<1> QED BY <1>3, SpecInv, PTL DEF Spec, EvidenceSurvives, Recorded

(* An upset of a replica, or of a register the source leaves unprotected,  *)
(* changes no escalation output in the cycle it strikes.                   *)
THEOREM UpsetsAreOutvoted == Spec => UpsetNeverActs
<1>1. ASSUME IInv, Upset
      PROVE  /\ rst_req_o' => in_reset
             /\ nmi_o' = nmi_o /\ wdog_no' = wdog_no /\ armed' = armed
  BY <1>1, OffTheEdge DEF rst_req_o
<1>2. IInv /\ [Next]_vars =>
        [Upset => /\ rst_req_o' => in_reset
                  /\ nmi_o' = nmi_o /\ wdog_no' = wdog_no /\ armed' = armed]_vars
  BY <1>1
<1> QED BY <1>2, SpecInv, PTL DEF Spec, UpsetNeverActs
=============================================================================
