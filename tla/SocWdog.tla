------------------------------- MODULE SocWdog -------------------------------
(***************************************************************************)
(* The watchdog, hw/soc/rtl/soc_wdog.v, with HARDEN = 1 and WINDOW = 1.    *)
(* Every register lives in the power-on domain, so a behaviour starts at   *)
(* power-on reset and no action resets anything.  Clock is one rising      *)
(* edge; op is the keyed register write of the cycle.  A write without the *)
(* key has no effect on any register and is the op "none".                 *)
(*                                                                         *)
(* The core makes no write while the watchdog holds it in reset, and none  *)
(* once it hangs, until that reset.  Upsets strike a replica of the        *)
(* protected word or one of the registers the source leaves unprotected.   *)
(*                                                                         *)
(* A definition marked Variant is a plausible bug, there to show that a    *)
(* property notices it; no specification uses it.                          *)
(***************************************************************************)
EXTENDS Naturals

CONSTANTS
  COUNT_MAX,    (* 2^WIDTH - 1                                             *)
  PRESCALE, RST_CYCLES, ESCALATE,
  RST_CNT_MAX,  (* where rst_count saturates, 2^CNT_W - 1                  *)
  TMR_CNT_MAX,  (* where tmr_count saturates, 2^TMC_W - 1                  *)
  KICK_MAX,     (* 2^KICK_W - 1                                            *)
  Counts,       (* bound: the values software writes to counter and reload *)
  Windows,      (* bound: the values software writes to WINS               *)
  Struck,       (* bound: what a struck replica of the word may decode to  *)
  PinMoves,     (* bound: the bootstrap pin may change after the first edge*)
  MaxUpsets     (* bound: upsets in a behaviour                            *)

ASSUME WdogAssumption ==
  /\ COUNT_MAX \in Nat \ {0} /\ PRESCALE \in Nat \ {0}
  /\ RST_CYCLES \in Nat \ {0} /\ ESCALATE \in Nat \ {0}
  /\ RST_CNT_MAX \in Nat /\ ESCALATE <= RST_CNT_MAX
  /\ TMR_CNT_MAX \in Nat \ {0} /\ KICK_MAX \in Nat \ {0}
  /\ Counts \subseteq 0 .. COUNT_MAX /\ Windows \subseteq 0 .. 15
  /\ PinMoves \in BOOLEAN /\ MaxUpsets \in Nat

VARIABLES
  bank,        (* replica -> the protected word as the voter sees it       *)
  dis_sync,    (* the two synchroniser flops of the bootstrap pin          *)
  dis_arm, reload, counter, pre, kick_left, in_reset_q,
  hung,        (* the core has stopped doing anything                      *)
  pin,         (* history: the bootstrap pin at the first edge             *)
  warned,      (* history: how the pending stage 1 arose, and the ticks    *)
               (* since, 0 once software has written anything              *)
  struck,      (* history: a replica has been struck since the last edge   *)
  upsets       (* history: the upsets so far                               *)

plain == <<dis_sync, dis_arm, reload, counter, pre, kick_left, in_reset_q>>
vars  == <<bank, plain, hung, pin, warned, struck, upsets>>

Replica == {"a", "b", "c"}

Word == [dis_q : BOOLEAN, dis_seen : BOOLEAN, nmi_pend : BOOLEAN,
         rst_seen : BOOLEAN, rst_count : 0 .. RST_CNT_MAX,
         rst_hold : 0 .. RST_CYCLES, win_s : 0 .. 15,
         bud_arm : BOOLEAN, early_seen : BOOLEAN, bud_seen : BOOLEAN,
         tmr_err : BOOLEAN, tmr_count : 0 .. TMR_CNT_MAX]

NoWord == [dis_q |-> FALSE, dis_seen |-> FALSE, nmi_pend |-> FALSE,
           rst_seen |-> FALSE, rst_count |-> 0,
           rst_hold |-> 0, win_s |-> 0,
           bud_arm |-> FALSE, early_seen |-> FALSE, bud_seen |-> FALSE,
           tmr_err |-> FALSE, tmr_count |-> 0]

(* A struck replica still decodes to a word.                               *)
ASSUME StruckAssumption == Struck \subseteq Word

(* The keyed writes: the counter, the reload, the control register's LD    *)
(* and IP bits, the status register's NMI bit, and the window register.    *)
NotWarned == [by |-> "none", ticks |-> 0]

None   == [reg |-> "none"]
Writes == {None}
   \union [reg : {"counter", "reload"}, num : Counts]
   \union [reg : {"ctrl"}, ld : {TRUE}, ip : BOOLEAN]
   \union [reg : {"ctrl"}, ld : {FALSE}, ip : {TRUE}]
   \union [reg : {"stat"}, nmi : {TRUE}]
   \union [reg : {"win"}, wins : Windows, buden : BOOLEAN, kicks : 0 .. KICK_MAX]

-----------------------------------------------------------------------------
(* The word two replicas agree on.  Three different words never arise from *)
(* one upset per cycle; the vote is then bit by bit, and unconstrained     *)
(* here.                                                                   *)
prot ==
  IF bank["a"] = bank["b"] \/ bank["a"] = bank["c"] THEN bank["a"]
  ELSE IF bank["b"] = bank["c"] THEN bank["b"]
  ELSE CHOOSE w \in Word : TRUE

prot_mismatch == ~(bank["a"] = bank["b"] /\ bank["a"] = bank["c"])

(* Variant: the sample is taken before the pin is through the flops.       *)
dis_ready_early == dis_arm >= 1

dis_ready == dis_arm >= 2
armed     == prot.dis_seen /\ ~prot.dis_q
in_reset  == prot.rst_hold # 0
tick      == PRESCALE <= 1 \/ pre = 0

(* Variant: an expiry over a pending stage 1 does not count.               *)
expire_once == armed /\ ~in_reset /\ tick /\ counter = 0 /\ ~prot.nmi_pend

expire == armed /\ ~in_reset /\ tick /\ counter = 0

kick_req(op) == op.reg = "ctrl" /\ op.ld
ack(op)      == (op.reg = "stat" /\ op.nmi) \/ (op.reg = "ctrl" /\ op.ip)

win_open == prot.win_s = 0 \/ counter <= reload \div 2^prot.win_s

early_kick(op) == kick_req(op) /\ armed /\ ~in_reset /\ ~win_open
budget_out(op) == kick_req(op) /\ armed /\ ~in_reset
                  /\ prot.bud_arm /\ kick_left = 0
violate(op)    == early_kick(op) \/ budget_out(op)
kick(op)       == kick_req(op) /\ ~violate(op)
fault(op)      == expire \/ violate(op)

(* Variant: stage 2 at the first fault.                                    *)
stage2_at_once(op) == fault(op)

stage2(op)     == fault(op) /\ prot.nmi_pend

(* Variant: the shadow flop alone drives the reset.                        *)
rst_req_shadow == in_reset_q

(* Variant: the pin is asserted at the count and not beyond it.            *)
wdog_no_exact == prot.rst_count # ESCALATE

nmi_o     == prot.nmi_pend
rst_req_o == in_reset /\ in_reset_q
wdog_no   == ~(prot.rst_count >= ESCALATE)

Bump(n, m) == IF n < m THEN n + 1 ELSE n

(* The next protected word, from the voted one: the bootstrap sample, the  *)
(* window write, the reset stretch, the escalation over both, the records. *)
prot_n(op) ==
  [dis_q     |-> IF ~prot.dis_seen /\ dis_ready THEN dis_sync[2] ELSE prot.dis_q,
   dis_seen  |-> prot.dis_seen \/ dis_ready,
   nmi_pend  |-> ~stage2(op) /\ (fault(op) \/ (prot.nmi_pend /\ ~ack(op))),
   rst_seen  |-> prot.rst_seen \/ stage2(op),
   rst_count |-> IF stage2(op) THEN Bump(prot.rst_count, RST_CNT_MAX)
                 ELSE prot.rst_count,
   rst_hold  |-> IF stage2(op) THEN RST_CYCLES
                 ELSE IF in_reset THEN prot.rst_hold - 1 ELSE 0,
   win_s     |-> IF stage2(op) THEN 0
                 ELSE IF op.reg = "win" THEN op.wins ELSE prot.win_s,
   bud_arm   |-> ~stage2(op) /\ (prot.bud_arm \/ (op.reg = "win" /\ op.buden)),
   early_seen |-> prot.early_seen \/ early_kick(op),
   bud_seen  |-> prot.bud_seen \/ budget_out(op),
   tmr_err   |-> prot.tmr_err \/ prot_mismatch,
   tmr_count |-> IF prot_mismatch THEN Bump(prot.tmr_count, TMR_CNT_MAX)
                 ELSE prot.tmr_count]

-----------------------------------------------------------------------------
Init ==
  /\ bank = [r \in Replica |-> NoWord]
  /\ dis_sync = <<FALSE, FALSE>> /\ dis_arm = 0
  /\ reload = COUNT_MAX /\ counter = COUNT_MAX /\ pre = 0 /\ kick_left = 0
  /\ in_reset_q = FALSE
  /\ hung = FALSE /\ pin = FALSE /\ warned = NotWarned
  /\ struck = FALSE /\ upsets = 0

Sample(dis) ==
  /\ dis_sync' = <<dis, dis_sync[1]>>
  /\ dis_arm' = Bump(dis_arm, 2)

(* Variant: the prescaler divides by one more.                             *)
PrescaleLong == pre' = IF pre = 0 THEN PRESCALE ELSE pre - 1

Prescale == pre' = IF PRESCALE <= 1 THEN pre
                   ELSE IF pre = 0 THEN PRESCALE - 1 ELSE pre - 1

CountDown(op) ==
  counter' =
    IF kick(op) \/ in_reset THEN reload
    ELSE IF op.reg = "counter" THEN op.num
    ELSE IF armed /\ tick THEN (IF counter = 0 THEN reload ELSE counter - 1)
    ELSE counter

(* Variant: a stage-2 reset keeps the timeout of the program it stopped.   *)
ReloadKept(op) == reload' = IF op.reg = "reload" THEN op.num ELSE reload

Reload(op) ==
  reload' = IF stage2(op) THEN COUNT_MAX
            ELSE IF op.reg = "reload" THEN op.num ELSE reload

Budget(op) ==
  kick_left' =
    IF op.reg = "win" /\ op.buden THEN op.kicks
    ELSE IF kick(op) /\ prot.bud_arm /\ kick_left # 0 THEN kick_left - 1
    ELSE kick_left

(* Variant: a replica that differs feeds itself, not the vote.             *)
BankOwn(w) == bank' = [r \in Replica |-> IF bank[r] = prot THEN w ELSE bank[r]]

(* All three replicas, at every edge, from the vote.                       *)
Bank(w) == bank' = [r \in Replica |-> w]

Warning(op, w) ==
  warned' =
    IF ~w.nmi_pend THEN NotWarned
    ELSE IF fault(op)
         THEN IF violate(op) THEN [by |-> "kick", ticks |-> 1]
              ELSE [by |-> "expiry", ticks |-> IF op = None THEN 1 ELSE 0]
    ELSE IF op # None THEN [warned EXCEPT !.ticks = 0]
    ELSE IF tick /\ warned.ticks # 0
         THEN [warned EXCEPT !.ticks = Bump(@, COUNT_MAX + 2)]
    ELSE warned

Clock(op, dis) ==
  /\ PinMoves \/ dis_arm = 0 \/ dis = pin
  /\ \E w \in {prot_n(op)} :
       /\ Bank(w)
       /\ in_reset_q' = (w.rst_hold # 0)
       /\ Warning(op, w)
  /\ Sample(dis)
  /\ Prescale
  /\ CountDown(op)
  /\ Reload(op)
  /\ Budget(op)
  /\ pin' = IF dis_arm = 0 THEN dis ELSE pin
  /\ hung' = (hung /\ ~stage2(op))   \* stage 2 restarts the core
  /\ struck' = FALSE
  /\ UNCHANGED upsets

Run ==
  /\ ~hung /\ ~in_reset
  /\ \E op \in Writes, dis \in BOOLEAN : Clock(op, dis)

(* The core is in reset, or hangs, and the watchdog counts on.             *)
Wait ==
  /\ hung \/ in_reset
  /\ \E dis \in BOOLEAN : Clock(None, dis)

Hang ==
  /\ ~hung /\ ~in_reset
  /\ hung' = TRUE
  /\ UNCHANGED <<bank, plain, pin, warned, struck, upsets>>

-----------------------------------------------------------------------------
(* Upsets, at most one replica of the word between two edges.  The pin's   *)
(* synchroniser and its hold-off, live for two clocks of a mission, are    *)
(* not struck.                                                             *)
UpsetReplica ==
  /\ ~struck /\ struck' = TRUE
  /\ \E r \in Replica, w \in Struck :
       /\ w # bank[r]
       /\ bank' = [bank EXCEPT ![r] = w]
  /\ UNCHANGED plain

UpsetPlain ==
  /\ \/ /\ counter' \in 0 .. COUNT_MAX
        /\ UNCHANGED <<reload, pre, kick_left, in_reset_q>>
     \/ /\ reload' \in 0 .. COUNT_MAX
        /\ UNCHANGED <<counter, pre, kick_left, in_reset_q>>
     \/ /\ pre' \in 0 .. (PRESCALE - 1)
        /\ UNCHANGED <<counter, reload, kick_left, in_reset_q>>
     \/ /\ kick_left' \in 0 .. KICK_MAX
        /\ UNCHANGED <<counter, reload, pre, in_reset_q>>
     \/ /\ in_reset_q' = ~in_reset_q
        /\ UNCHANGED <<counter, reload, pre, kick_left>>
  /\ UNCHANGED <<bank, dis_sync, dis_arm, struck>>

Upset ==
  /\ upsets < MaxUpsets
  /\ upsets' = upsets + 1
  /\ UpsetReplica \/ UpsetPlain
  /\ UNCHANGED <<hung, pin, warned>>

Next == Run \/ Wait \/ Hang \/ Upset

(* The clock does not stop under a silent core; nothing else is owed.      *)
Spec == Init /\ [][Next]_vars /\ WF_vars(Wait)

-----------------------------------------------------------------------------
TypeOK ==
  /\ bank \in [Replica -> Word]
  /\ dis_sync \in BOOLEAN \X BOOLEAN /\ dis_arm \in 0 .. 2
  /\ reload \in 0 .. COUNT_MAX /\ counter \in 0 .. COUNT_MAX
  /\ pre \in 0 .. (PRESCALE - 1) /\ kick_left \in 0 .. KICK_MAX
  /\ in_reset_q \in BOOLEAN /\ hung \in BOOLEAN /\ pin \in BOOLEAN
  /\ warned \in [by : {"none", "expiry", "kick"}, ticks : 0 .. (COUNT_MAX + 2)]
  /\ struck \in BOOLEAN /\ upsets \in 0 .. MaxUpsets

(* W1: the watchdog is disarmed by the bootstrap pin as it stood at the    *)
(* first edge after power-on and by nothing later: no register write, no   *)
(* reset, no change of the pin, no upset of a replica.                     *)
DisarmedOnlyByPin ==
  /\ TypeOK
  /\ IF dis_arm < 2 THEN ~prot.dis_seen
     ELSE prot.dis_seen => prot.dis_q = pin

EnterReset == ~in_reset /\ in_reset'

(* W3: the system is reset only over a pending stage 1; a core that stays  *)
(* silent after an expiry has one full period of the reload to be heard,   *)
(* and a reset before the counter ran out again took a rejected kick.      *)
WarningBeforeReset ==
  [][EnterReset =>
       /\ nmi_o /\ warned.by # "none"
       /\ expire \/ prot'.early_seen \/ prot'.bud_seen
       /\ expire /\ warned.by = "expiry" /\ warned.ticks # 0 /\ upsets = 0
             => warned.ticks > reload]_vars

(* "a spurious early kick from a program whose cadence drifted deserves    *)
(* the same one-timeout warning an ordinary expiry gets"                   *)
KickWarningIsFull ==
  [][EnterReset /\ expire /\ warned.by = "kick" /\ warned.ticks # 0
       => warned.ticks > reload]_vars

(* The next boot starts with the longest timeout and no cadence contract,  *)
(* whatever the software that was reset had configured.                    *)
FreshBoot ==
  [][in_reset /\ ~in_reset' /\ upsets = 0 =>
       /\ counter' = COUNT_MAX /\ reload' = COUNT_MAX
       /\ prot'.win_s = 0 /\ ~prot'.bud_arm /\ ~nmi_o']_vars

(* A core that hangs under an armed watchdog is reset, whatever it had     *)
(* configured and whatever it was doing.                                   *)
HungCoreIsReset == (hung /\ armed) ~> ~hung

(* If resetting never cures it, the external pin ends up asserted for good.*)
EscalatesInTheEnd == []<>(hung /\ armed) => <>[](~wdog_no)

(* W4, W6: the records only grow, through resets, upsets and any writes;   *)
(* every reset and every corrected upset is in them.                       *)
EvidenceSurvives ==
  [][/\ prot.rst_seen => prot'.rst_seen
     /\ prot.early_seen => prot'.early_seen
     /\ prot.bud_seen => prot'.bud_seen
     /\ prot'.rst_count >= prot.rst_count
     /\ EnterReset => /\ prot'.rst_seen
                      /\ prot'.rst_count = Bump(prot.rst_count, RST_CNT_MAX)
     /\ prot'.tmr_count >= prot.tmr_count
     /\ prot_mismatch /\ ~prot_mismatch' =>
           /\ prot'.tmr_err
           /\ prot'.tmr_count = Bump(prot.tmr_count, TMR_CNT_MAX)]_vars

(* An upset changes none of the escalation outputs in the cycle it         *)
(* strikes, except that it may open, or close again, a notch in a reset    *)
(* under way.                                                              *)
UpsetNeverActs ==
  [][Upset => /\ rst_req_o' => in_reset
              /\ nmi_o' = nmi_o /\ wdog_no' = wdog_no /\ armed' = armed]_vars
=============================================================================
