-------------------------- MODULE SocRecovery_proofs --------------------------
(***************************************************************************)
(* Recovery from a hung program, for every counter width, prescaler, reset *)
(* length and set of straps: the two blocks sample the same pin, a reset   *)
(* lasts its whole stretch, its records survive, the two counts software   *)
(* compares agree under any single upset, and under any number of them the *)
(* loader does not give up before the hardware has escalated.              *)
(***************************************************************************)
EXTENDS SocRecovery, SocWdog_proofs

(* The vote of the boot block, as a function of the three replicas.        *)
BootVoteOf(b) ==
  IF b["a"] = b["b"] \/ b["a"] = b["c"] THEN b["a"]
  ELSE IF b["b"] = b["c"] THEN b["b"]
  ELSE CHOOSE w \in BootWord : TRUE

(* The protected word is the vote over the bank.                           *)
LEMMA BootProtIsVote == boot_prot = BootVoteOf(boot_bank)
BY DEF boot_prot, BootVoteOf

(* Whatever one replica holds, two that agree carry the vote.              *)
LEMMA BootOutvoted ==
  ASSUME NEW b, NEW w, NEW r \in Copy, \A s \in Copy \ {r} : b[s] = w
  PROVE  BootVoteOf(b) = w
<1>1. CASE r = "a"
  BY <1>1 DEF BootVoteOf, Copy
<1>2. CASE r = "b"
  BY <1>2 DEF BootVoteOf, Copy
<1>3. CASE r = "c"
  BY <1>3 DEF BootVoteOf, Copy
<1> QED BY <1>1, <1>2, <1>3 DEF Copy

(* Three equal replicas vote for what they hold.                           *)
LEMMA BootUnanimous ==
  ASSUME NEW b, NEW w, \A r \in Copy : b[r] = w
  PROVE  BootVoteOf(b) = w
BY DEF BootVoteOf, Copy

-----------------------------------------------------------------------------
(* The registers of the boot block that the vote and the samples rest on.  *)
BootTyped ==
  /\ boot_bank \in [Copy -> BootWord]
  /\ DOMAIN boot_sync = 1 .. 2 /\ boot_sync[1] \in Pins /\ boot_sync[2] \in Pins

(* The boot block's word, voted as the watchdog's is; the two share the    *)
(* bound on upsets.                                                        *)
BootVoted ==
  /\ boot_prot \in BootWord
  /\ \E r \in Copy : \A s \in Copy \ {r} : boot_bank[s] = boot_prot
  /\ ~struck => \A s \in Copy : boot_bank[s] = boot_prot

(* The synchronisers; a watchdog reset holds the system's down.            *)
Synced ==
  /\ rst_sync \in BOOLEAN \X BOOLEAN /\ por_sync \in BOOLEAN \X BOOLEAN
  /\ low \in 0 .. (RST_CYCLES + 2)
  /\ rst_sync[2] => rst_sync[1]
  /\ por_sync[2] => por_sync[1]
  /\ in_reset => ~rst_sync[1] /\ ~rst_sync[2]

(* SamplesAgree compares what the two blocks have sampled; they agree      *)
(* because the hold-off is in step in both until then, and the flop that   *)
(* holds the bit to be sampled the same in both unless it was struck.      *)
InStep ==
  /\ SamplesAgree
  /\ boot_prot.dly = dis_arm
  /\ spoiled \in BOOLEAN
  /\ ~boot_prot.valid /\ ~spoiled =>
       /\ dis_arm = 1 => boot_sync[1].wdis = dis_sync[1]
       /\ dis_arm = 2 => boot_sync[2].wdis = dis_sync[2]

(* ResetIsWhole speaks of the release; the invariant counts towards it.    *)
Stretched ==
  /\ in_reset => low + prot.rst_hold >= RST_CYCLES
  /\ ~in_reset /\ prot.rst_seen /\ ~rst_sys_n => low >= RST_CYCLES

(* Before the first release no watchdog reset can have happened: the       *)
(* bootstrap pin is not sampled yet.                                       *)
StartingUp ==
  /\ ~boot_prot.armed => /\ ~prot.dis_seen /\ ~in_reset /\ ~boot_prot.sys
                         /\ prot.rst_count = 0 /\ boot_prot.cnt = 0
                         /\ rst_por_sync_n => rst_sync[1]
                         /\ dis_arm >= 1 => rst_sync[2]
                         /\ dis_arm <= 1
  /\ ~rst_por_sync_n => ~boot_prot.armed

(* Between the end of a stretch and the release it leads to a second fault *)
(* would reset a system that has not been released, and be counted in one  *)
(* of the two counters only.  It takes two upsets.                         *)
QuietGap ==
  upsets <= 1 /\ boot_prot.armed /\ ~rst_sys_n /\ ~in_reset =>
    /\ prot.nmi_pend => upsets = 1 /\ pre # 0 /\ rst_sync[1]
    /\ upsets = 0 /\ ~rst_sync[1] => counter = COUNT_MAX

(* CountersAgree in every phase of a reset, not only while the core runs.  *)
Counted ==
  boot_prot.armed /\ upsets <= 1 =>
    prot.rst_count = IF rst_sys_n /\ boot_prot.sys THEN boot_prot.cnt
                     ELSE UpTo(boot_prot.cnt, CNT_MAX)

(* With more upsets a reset may be counted by the watchdog and not by the  *)
(* boot block, never the other way round.                                  *)
Behind ==
  boot_prot.armed =>
    prot.rst_count >= IF rst_sys_n /\ boot_prot.sys THEN boot_prot.cnt
                      ELSE UpTo(boot_prot.cnt, CNT_MAX)

(* The watchdog's own invariant, and what ties it to the synchronisers and *)
(* the boot block.                                                         *)
RecInv == /\ IInv /\ BootVoted /\ BootTyped /\ Synced /\ InStep /\ Stretched /\ StartingUp
          /\ QuietGap /\ Counted /\ Behind

-----------------------------------------------------------------------------
(* The next word of the boot block is a word: no counter overflows.        *)
LEMMA BootWordNext ==
  ASSUME boot_prot \in BootWord, BootTyped, NEW rst_ni \in BOOLEAN
  PROVE  boot_n(rst_ni) \in BootWord
<1>1. /\ boot_prot.dly \in 0 .. 3 /\ boot_prot.valid \in BOOLEAN /\ boot_prot.armed \in BOOLEAN
      /\ boot_prot.strap \in Straps \union {NoStrap} /\ boot_prot.wdis \in BOOLEAN
      /\ boot_prot.cnt \in 0 .. CNT_MAX /\ boot_prot.tmr_err \in BOOLEAN
      /\ boot_prot.tmr_count \in 0 .. BOOT_TMR_MAX /\ boot_prot.sys \in BOOLEAN
  BY DEF BootWord
<1>2. boot_sync[2].strap \in Straps \union {NoStrap} /\ boot_sync[2].wdis \in BOOLEAN
  BY DEF BootTyped, Pins
<1> DEFINE n == boot_n(rst_ni)
<1>3. n.dly \in 0 .. 3
  BY <1>1 DEF boot_n
<1>4. n.valid \in BOOLEAN /\ n.armed \in BOOLEAN /\ n.sys \in BOOLEAN /\ n.tmr_err \in BOOLEAN
  BY <1>1 DEF boot_n, sampling, boot_mismatch
<1>5. n.strap \in Straps \union {NoStrap} /\ n.wdis \in BOOLEAN
  BY <1>1, <1>2 DEF boot_n
<1>6. n.cnt \in 0 .. CNT_MAX
  BY <1>1, BootAssumption DEF boot_n, UpTo
<1>7. n.tmr_count \in 0 .. BOOT_TMR_MAX
  BY <1>1, BootAssumption DEF boot_n, UpTo
<1> QED BY <1>3, <1>4, <1>5, <1>6, <1>7 DEF BootWord, boot_n

(* An edge loads all three replicas from the vote.                         *)
LEMMA BootEdge ==
  ASSUME BootVoted, BootTyped, NEW rst_ni \in BOOLEAN, NEW pins \in Pins, NEW bop, NEW seen,
         Edge(rst_ni, pins, bop, seen)
  PROVE  boot_prot' = boot_n(rst_ni) /\ BootVoted' /\ BootTyped'
<1>1. boot_bank' = [r \in Copy |-> boot_n(rst_ni)]
  BY DEF Edge
<1>2. boot_prot' = boot_n(rst_ni)
  <2>1. boot_prot' = BootVoteOf(boot_bank')
    BY DEF boot_prot, BootVoteOf
  <2> QED BY <1>1, <2>1, BootUnanimous
<1>3. boot_n(rst_ni) \in BootWord
  BY BootWordNext DEF BootVoted
<1>4. BootVoted'
  BY <1>1, <1>2, <1>3 DEF BootVoted, Copy
<1>5. DOMAIN boot_sync' = 1 .. 2 /\ boot_sync'[1] \in Pins /\ boot_sync'[2] \in Pins
  BY DEF Edge, BootTyped
<1> QED BY <1>1, <1>2, <1>3, <1>4, <1>5 DEF BootTyped

(* An upset of one replica of a unanimous word leaves the vote alone, and  *)
(* no other touches the bank.                                              *)
LEMMA BootStrike ==
  ASSUME BootVoted, BootTyped, BootUpset
  PROVE  boot_prot' = boot_prot /\ BootVoted' /\ BootTyped'
<1>1. CASE ~struck /\ struck' = TRUE /\ UpsetBank
  <2>1. PICK r \in Copy, w \in BootStruck : w # boot_bank[r] /\ boot_bank' = [boot_bank EXCEPT ![r] = w]
    BY <1>1 DEF UpsetBank
  <2>2. \A s \in Copy \ {r} : boot_bank'[s] = boot_prot
    BY <1>1, <2>1 DEF BootVoted, BootTyped
  <2>3. boot_prot' = BootVoteOf(boot_bank')
    BY DEF boot_prot, BootVoteOf
  <2>4. boot_prot' = boot_prot
    BY <2>2, <2>3, BootOutvoted
  <2>5. boot_bank' \in [Copy -> BootWord]
    BY <2>1, BootStruckAssumption DEF BootTyped
  <2> QED BY <1>1, <2>2, <2>4, <2>5 DEF BootVoted, BootTyped, UpsetBank
<1>2. CASE UNCHANGED struck /\ (UpsetSync \/ UpsetRecords)
  <2>1. boot_bank' = boot_bank
    BY <1>2 DEF UpsetSync, UpsetRecords
  <2>2. boot_prot' = boot_prot
    BY <2>1 DEF boot_prot
  <2>3. BootVoted'
    BY <1>2, <2>1, <2>2 DEF BootVoted
  <2>4. BootTyped'
    <3>1. CASE UpsetSync
      <4>1. PICK k \in 1 .. 2 :
              \/ boot_sync' = [boot_sync EXCEPT ![k].wdis = ~@]
              \/ \E s \in Straps \union {NoStrap} :
                    boot_sync' = [boot_sync EXCEPT ![k].strap = s]
        BY <3>1 DEF UpsetSync
      <4>2. \A j \in 1 .. 2 : boot_sync[j] \in Pins
        BY DEF BootTyped
      <4>3. \A x \in Pins : /\ [x EXCEPT !.wdis = ~@] \in Pins
                            /\ \A s \in Straps \union {NoStrap} : [x EXCEPT !.strap = s] \in Pins
        BY DEF Pins
      <4>4. \E x \in Pins : boot_sync' = [boot_sync EXCEPT ![k] = x]
        BY <4>1, <4>2, <4>3
      <4>5. DOMAIN boot_sync' = 1 .. 2 /\ \A j \in 1 .. 2 : boot_sync'[j] \in Pins
        BY <4>2, <4>4 DEF BootTyped
      <4> QED BY <2>1, <4>5 DEF BootTyped
    <3>2. CASE UpsetRecords
      BY <2>1, <3>2 DEF UpsetRecords, BootTyped
    <3> QED BY <1>2, <3>1, <3>2
  <2> QED BY <2>2, <2>3, <2>4
<1> QED BY <1>1, <1>2 DEF BootUpset

-----------------------------------------------------------------------------
(* A saturating counter stays in range and never shrinks.                  *)
LEMMA Upwards ==
  ASSUME NEW m \in Nat, NEW n \in 0 .. m
  PROVE  UpTo(n, m) \in 0 .. m /\ UpTo(n, m) >= n /\ (UpTo(n, m) = n + 1 \/ UpTo(n, m) = m)
BY DEF UpTo

(* The stretch counts down, and only a stage 2 starts it.                  *)
LEMMA Hold ==
  ASSUME IInv, NEW op \in Writes, NEW dis \in BOOLEAN, Clock(op, dis)
  PROVE  /\ prot.rst_hold \in Nat /\ prot'.rst_hold \in Nat
         /\ stage2(op) => ~in_reset /\ prot.nmi_pend /\ in_reset' /\ prot'.rst_hold = RST_CYCLES
         /\ ~stage2(op) /\ in_reset => prot'.rst_hold = prot.rst_hold - 1
         /\ ~stage2(op) /\ ~in_reset => ~in_reset'
         /\ prot'.rst_seen = (prot.rst_seen \/ stage2(op))
         /\ prot'.rst_count = IF stage2(op) THEN Bump(prot.rst_count, RST_CNT_MAX) ELSE prot.rst_count
         /\ in_reset_q' = in_reset'
<1>1. TypeOK /\ prot \in Word /\ RST_CYCLES \in Nat \ {0}
  BY WdogAssumption DEF IInv, Voted
<1>2. prot' = prot_n(op)
  BY <1>1, ClockVote
<1>3. prot.rst_hold \in Nat /\ prot'.rst_hold = IF stage2(op) THEN RST_CYCLES
                                                ELSE IF in_reset THEN prot.rst_hold - 1 ELSE 0
  BY <1>1, <1>2 DEF prot_n, Word
<1>4. stage2(op) => ~in_reset /\ prot.nmi_pend
  BY <1>1, Conditions
<1>5. prot'.rst_seen = (prot.rst_seen \/ stage2(op))
      /\ prot'.rst_count = IF stage2(op) THEN Bump(prot.rst_count, RST_CNT_MAX) ELSE prot.rst_count
  BY <1>2 DEF prot_n
<1>6. in_reset_q' = (prot_n(op).rst_hold # 0)
  BY DEF Clock
<1> QED BY <1>1, <1>2, <1>3, <1>4, <1>5, <1>6 DEF in_reset

(* A clock edge of the two blocks, once they are out of power-on reset:    *)
(* the core writes nothing while it is held in reset.                      *)
Awake(op, pins, bop, seen) ==
  /\ rst_por_sync_n
  /\ Clock(op, pins.wdis) /\ Edge(rst_sys_n, pins, bop, seen)
  /\ ~rst_sys_n => op = None
  /\ por_sync' = <<TRUE, por_sync[1]>> /\ SyncEdge /\ Count /\ UNCHANGED spoiled

(* One before that.                                                        *)
Asleep ==
  /\ ~rst_por_sync_n /\ UNCHANGED <<vars, boot>>
  /\ por_sync' = <<TRUE, por_sync[1]>> /\ SyncEdge /\ Count /\ UNCHANGED spoiled

(* A step is an edge of the two blocks, one before they are out of power-  *)
(* on reset, a hang or an upset.                                           *)
LEMMA RecSteps ==
  ASSUME [RecoveryNext]_recovery
  PROVE  \/ \E op \in Writes, pins \in Pins, bop \in BootWrites \union {None},
               seen \in {<<>>} \union {<<pc>> : pc \in Pcs} : Awake(op, pins, bop, seen)
         \/ Asleep \/ CoreHangs \/ Strike \/ UNCHANGED recovery
<1>1. None \in Writes
  BY DEF Writes
<1>2. ASSUME NEW op \in Writes, NEW bop \in BootWrites \union {None},
             NEW seen \in {<<>>} \union {<<pc>> : pc \in Pcs},
             ClockEdge(op, bop, seen), ~rst_sys_n => op = None
      PROVE  Asleep \/ \E pins \in Pins : Awake(op, pins, bop, seen)
  BY <1>2 DEF ClockEdge, Domain, Awake, Asleep
<1>3. CASE CoreRuns
  <2>1. rst_sys_n
    BY <1>3 DEF CoreRuns, running
  <2>2. PICK op \in Writes, bop \in BootWrites \union {None},
             seen \in {<<>>} \union {<<pc>> : pc \in Pcs} : ClockEdge(op, bop, seen)
    BY <1>1, <1>3 DEF CoreRuns
  <2> QED BY <1>2, <2>1, <2>2
<1>4. CASE CoreSilent
  <2>1. ClockEdge(None, None, <<>>)
    BY <1>4 DEF CoreSilent
  <2> QED BY <1>1, <1>2, <2>1
<1> QED BY <1>3, <1>4 DEF RecoveryNext

(* The synchroniser at an edge: cleared while the watchdog asks, and one   *)
(* flop further towards the release otherwise.                             *)
LEMMA SyncStep ==
  ASSUME Synced, SyncEdge, in_reset_q \in BOOLEAN, in_reset_q' \in BOOLEAN,
         in_reset' => in_reset_q', in_reset \in BOOLEAN, in_reset' \in BOOLEAN
  PROVE  /\ rst_sync' \in BOOLEAN \X BOOLEAN
         /\ rst_sync'[2] => rst_sync'[1] /\ ~in_reset /\ ~in_reset' /\ rst_sync[1]
         /\ in_reset' => ~rst_sync'[1] /\ ~rst_sync'[2]
         /\ ~in_reset /\ ~in_reset' => rst_sync'[1] /\ (rst_sync'[2] <=> rst_sync[1])
<1>1. rst_sync[1] \in BOOLEAN
  BY DEF Synced
<1>2. CASE rst_req_o \/ rst_req_o'
  <2>1. rst_sync' = <<FALSE, FALSE>>
    BY <1>2 DEF SyncEdge
  <2>2. in_reset \/ in_reset'
    BY <1>2 DEF rst_req_o
  <2> QED BY <2>1, <2>2
<1>3. CASE ~(rst_req_o \/ rst_req_o')
  <2>1. rst_sync' = <<TRUE, rst_sync[1]>>
    BY <1>3 DEF SyncEdge
  <2>2. ~in_reset'
    BY <1>3 DEF rst_req_o
  <2>3. in_reset => ~rst_sync[1]
    BY DEF Synced
  <2> QED BY <1>1, <2>1, <2>2, <2>3
<1> QED BY <1>2, <1>3

(* The history of edges that saw the reset low counts to the release.      *)
LEMMA CountStep ==
  ASSUME Synced, Count
  PROVE  /\ low' \in 0 .. (RST_CYCLES + 2)
         /\ rst_sys_n => low' = 0
         /\ ~rst_sys_n => low' >= low /\ (low' = low + 1 \/ low' = RST_CYCLES + 2)
<1>1. RST_CYCLES + 2 \in Nat /\ low \in 0 .. (RST_CYCLES + 2)
  BY WdogAssumption DEF Synced
<1>2. low' = IF rst_sys_n THEN 0 ELSE UpTo(low, RST_CYCLES + 2)
  BY DEF Count
<1> QED BY <1>1, <1>2, Upwards

-----------------------------------------------------------------------------
(* The two votes move as the next words say, and the watchdog's invariant  *)
(* is kept.                                                                *)
LEMMA AwakeVotes ==
  ASSUME RecInv, NEW op \in Writes, NEW pins \in Pins, NEW bop, NEW seen,
         Awake(op, pins, bop, seen)
  PROVE  /\ pins.wdis \in BOOLEAN /\ rst_sys_n \in BOOLEAN
         /\ in_reset => op = None
         /\ prot' = prot_n(op) /\ boot_prot' = boot_n(rst_sys_n)
         /\ IInv' /\ BootVoted' /\ BootTyped'
<1>1. pins.wdis \in BOOLEAN
  BY DEF Pins
<1>2. rst_sys_n \in BOOLEAN /\ (in_reset => ~rst_sys_n)
  BY DEF RecInv, Synced, rst_sys_n
<1>3. in_reset => op = None
  BY <1>2 DEF Awake
<1>4. TypeOK /\ prot \in Word /\ IInv
  BY DEF RecInv, IInv, Voted
<1>5. Clock(op, pins.wdis) /\ Edge(rst_sys_n, pins, bop, seen)
  BY DEF Awake
<1>6. prot' = prot_n(op)
  BY <1>1, <1>4, <1>5, ClockVote
<1>7. IInv'
  BY <1>1, <1>3, <1>4, <1>5, ClockInv
<1>8. BootVoted /\ BootTyped
  BY DEF RecInv
<1>9. boot_prot' = boot_n(rst_sys_n) /\ BootVoted' /\ BootTyped'
  BY <1>2, <1>5, <1>8, BootEdge
<1> QED BY <1>1, <1>2, <1>3, <1>6, <1>7, <1>9

(* The synchroniser follows the watchdog: down on stage 2, released only   *)
(* when the stretch is over.                                               *)
LEMMA AwakeSynced ==
  ASSUME RecInv, NEW op \in Writes, NEW pins \in Pins, NEW bop, NEW seen,
         Awake(op, pins, bop, seen)
  PROVE  /\ Synced'
         /\ rst_sync'[2] => ~in_reset /\ ~in_reset' /\ rst_sync[1]
         /\ ~in_reset /\ ~in_reset' => rst_sync'[1] /\ (rst_sync'[2] <=> rst_sync[1])
<1>1. pins.wdis \in BOOLEAN /\ IInv /\ IInv' /\ Clock(op, pins.wdis) /\ Synced /\ SyncEdge /\ Count
  BY AwakeVotes DEF Awake, RecInv
<1>2. in_reset_q' = in_reset' /\ in_reset_q \in BOOLEAN /\ in_reset \in BOOLEAN /\ in_reset' \in BOOLEAN
  BY <1>1, Hold DEF IInv, TypeOK, in_reset
<1>3. /\ rst_sync' \in BOOLEAN \X BOOLEAN
      /\ rst_sync'[2] => rst_sync'[1] /\ ~in_reset /\ ~in_reset' /\ rst_sync[1]
      /\ in_reset' => ~rst_sync'[1] /\ ~rst_sync'[2]
      /\ ~in_reset /\ ~in_reset' => rst_sync'[1] /\ (rst_sync'[2] <=> rst_sync[1])
  BY <1>1, <1>2, SyncStep
<1>4. low' \in 0 .. (RST_CYCLES + 2)
  BY <1>1, CountStep
<1>5. por_sync' \in BOOLEAN \X BOOLEAN /\ (por_sync'[2] => por_sync'[1])
  <2>1. por_sync' = <<TRUE, por_sync[1]>> /\ por_sync[1] \in BOOLEAN
    BY <1>1 DEF Awake, Synced
  <2> QED BY <2>1
<1> QED BY <1>3, <1>4, <1>5 DEF Synced

(* The two blocks move the pin and the hold-off together and sample at the *)
(* same edge.                                                              *)
LEMMA AwakeInStep ==
  ASSUME RecInv, NEW op \in Writes, NEW pins \in Pins, NEW bop, NEW seen,
         Awake(op, pins, bop, seen)
  PROVE  InStep'
<1>1. prot' = prot_n(op) /\ boot_prot' = boot_n(rst_sys_n) /\ InStep /\ pins.wdis \in BOOLEAN
  BY AwakeVotes DEF RecInv
<1>2. /\ dis_sync'[1] = pins.wdis /\ dis_sync'[2] = dis_sync[1] /\ dis_arm' = Bump(dis_arm, 2)
      /\ boot_sync'[1] = pins /\ boot_sync'[2] = boot_sync[1] /\ spoiled' = spoiled
  BY DEF Awake, Clock, Sample, Edge
<1>3. dis_arm \in {0, 1, 2} /\ prot.dis_seen \in BOOLEAN
  BY DEF RecInv, IInv, TypeOK, Voted, Word
<1>4. /\ prot'.dis_seen = (prot.dis_seen \/ dis_arm = 2)
      /\ prot'.dis_q = IF ~prot.dis_seen /\ dis_arm = 2 THEN dis_sync[2] ELSE prot.dis_q
  BY <1>1, <1>3 DEF prot_n, dis_ready
<1>5. /\ boot_prot'.valid = (boot_prot.valid \/ boot_prot.dly = 2)
      /\ boot_prot'.wdis = IF ~boot_prot.valid /\ boot_prot.dly = 2 THEN boot_sync[2].wdis
                           ELSE boot_prot.wdis
      /\ boot_prot'.dly = IF ~boot_prot.valid /\ boot_prot.dly # 2 THEN (boot_prot.dly + 1) % 4
                          ELSE boot_prot.dly
  BY <1>1 DEF boot_n, sampling
<1>6. SamplesAgree'
  BY <1>1, <1>2, <1>3, <1>4, <1>5 DEF InStep, SamplesAgree
<1>7. boot_prot'.dly = dis_arm'
  <2>1. boot_prot.dly = dis_arm /\ boot_prot.valid = prot.dis_seen
    BY <1>1 DEF InStep, SamplesAgree
  <2>2. dis_arm # 2 => ~prot.dis_seen
    BY <1>3 DEF RecInv, IInv, PinOnItsWay
  <2>3. (0 + 1) % 4 = 1 /\ (1 + 1) % 4 = 2
    OBVIOUS
  <2> QED BY <1>2, <1>3, <1>5, <2>1, <2>2, <2>3 DEF Bump
<1>8. ~boot_prot'.valid /\ ~spoiled' =>
         /\ dis_arm' = 1 => boot_sync'[1].wdis = dis_sync'[1]
         /\ dis_arm' = 2 => boot_sync'[2].wdis = dis_sync'[2]
  <2>1. ~boot_prot'.valid => ~boot_prot.valid /\ dis_arm # 2
    BY <1>1, <1>5 DEF InStep
  <2>2. dis_arm' = 2 /\ dis_arm # 2 => dis_arm = 1
    BY <1>2, <1>3 DEF Bump
  <2> QED BY <1>1, <1>2, <2>1, <2>2 DEF InStep
<1> QED BY <1>1, <1>2, <1>6, <1>7, <1>8 DEF InStep

(* Each edge of the stretch takes one off the hold and adds one to the     *)
(* edges that saw the reset low.                                           *)
LEMMA AwakeStretched ==
  ASSUME RecInv, NEW op \in Writes, NEW pins \in Pins, NEW bop, NEW seen,
         Awake(op, pins, bop, seen)
  PROVE  Stretched'
<1>1. pins.wdis \in BOOLEAN /\ IInv /\ Clock(op, pins.wdis) /\ Synced /\ Synced' /\ Count /\ Stretched
  BY AwakeVotes, AwakeSynced DEF Awake, RecInv
<1>2. /\ prot.rst_hold \in Nat /\ prot'.rst_hold \in Nat
      /\ stage2(op) => ~in_reset /\ prot.nmi_pend /\ in_reset' /\ prot'.rst_hold = RST_CYCLES
      /\ ~stage2(op) /\ in_reset => prot'.rst_hold = prot.rst_hold - 1
      /\ ~stage2(op) /\ ~in_reset => ~in_reset'
      /\ prot'.rst_seen = (prot.rst_seen \/ stage2(op))
  BY <1>1, Hold
<1>3. RST_CYCLES \in Nat \ {0} /\ low \in Nat /\ low' \in Nat
  BY <1>1, WdogAssumption DEF Synced
<1>4. ~rst_sys_n => low' >= low /\ (low' = low + 1 \/ low' = RST_CYCLES + 2)
  BY <1>1, CountStep
<1>5. in_reset => ~rst_sys_n
  BY <1>1 DEF Synced, rst_sys_n
<1>6. CASE stage2(op)
  BY <1>2, <1>3, <1>6 DEF Stretched
<1>7. CASE ~stage2(op) /\ in_reset
  <2>1. low' + prot'.rst_hold >= RST_CYCLES
    BY <1>1, <1>2, <1>3, <1>4, <1>5, <1>7 DEF Stretched
  <2>2. ~in_reset' => prot'.rst_hold = 0
    BY DEF in_reset
  <2> QED BY <1>3, <2>1, <2>2 DEF Stretched
<1>8. CASE ~stage2(op) /\ ~in_reset
  <2>1. ~in_reset' /\ (prot'.rst_seen <=> prot.rst_seen)
    BY <1>2, <1>8
  <2>2. rst_sys_n => rst_sys_n'
    BY <1>1, <1>8, <2>1, AwakeSynced DEF Synced, rst_sys_n
  <2> QED BY <1>1, <1>3, <1>4, <1>8, <2>1, <2>2 DEF Stretched
<1> QED BY <1>6, <1>7, <1>8

(* The first release comes before the pin is sampled, so before the        *)
(* watchdog can be armed.                                                  *)
LEMMA AwakeStartingUp ==
  ASSUME RecInv, NEW op \in Writes, NEW pins \in Pins, NEW bop, NEW seen,
         Awake(op, pins, bop, seen)
  PROVE  StartingUp'
<1>1. /\ pins.wdis \in BOOLEAN /\ rst_sys_n \in BOOLEAN /\ IInv /\ Clock(op, pins.wdis)
      /\ prot' = prot_n(op) /\ boot_prot' = boot_n(rst_sys_n) /\ rst_por_sync_n /\ StartingUp
  BY AwakeVotes DEF Awake, RecInv
<1>2. boot_prot'.armed <=> boot_prot.armed \/ (rst_sys_n /\ ~boot_prot.sys)
  BY <1>1 DEF boot_n
<1>3. rst_por_sync_n'
  <2>1. por_sync' = <<TRUE, por_sync[1]>> /\ por_sync[1]
    BY <1>1 DEF Awake, RecInv, Synced, rst_por_sync_n
  <2> QED BY <2>1 DEF rst_por_sync_n
<1>4. ASSUME ~boot_prot'.armed
      PROVE  /\ ~prot'.dis_seen /\ ~in_reset' /\ ~boot_prot'.sys
             /\ prot'.rst_count = 0 /\ boot_prot'.cnt = 0
             /\ rst_sync'[1] /\ rst_sync'[2] /\ dis_arm' <= 1
  <2>1. ~boot_prot.armed /\ ~prot.dis_seen /\ ~in_reset /\ ~boot_prot.sys /\ prot.rst_count = 0
        /\ boot_prot.cnt = 0 /\ rst_sync[1] /\ (dis_arm >= 1 => rst_sync[2]) /\ dis_arm <= 1
    BY <1>1, <1>2, <1>4 DEF StartingUp
  <2>2. ~rst_sys_n
    BY <1>2, <1>4, <2>1
  <2>3. dis_arm = 0 /\ dis_arm' = 1
    <3>1. dis_arm \in 0 .. 2 /\ dis_arm' = Bump(dis_arm, 2)
      BY <1>1 DEF Clock, Sample, IInv, TypeOK
    <3> QED BY <2>1, <2>2, <3>1 DEF rst_sys_n, Bump
  <2>4. ~stage2(op)
    <3>1. ~prot.nmi_pend
      BY <1>1, <2>1 DEF IInv, StageOne, armed
    <3> QED BY <3>1 DEF stage2
  <2>5. ~in_reset' /\ prot'.rst_count = 0
    BY <1>1, <2>1, <2>4, Hold
  <2>6. ~prot'.dis_seen /\ ~boot_prot'.sys /\ boot_prot'.cnt = 0
    BY <1>1, <2>1, <2>2, <2>3 DEF prot_n, boot_n, dis_ready, release
  <2>7. rst_sync'[1] /\ rst_sync'[2]
    BY <2>1, <2>5, AwakeSynced
  <2> QED BY <2>3, <2>5, <2>6, <2>7
<1> QED BY <1>3, <1>4 DEF StartingUp

(* With one upset at most no second fault falls between the end of a       *)
(* stretch and the release: the first one took the upset, and the          *)
(* prescaler has just been reloaded.                                       *)
LEMMA Gap ==
  ASSUME RecInv, upsets <= 1, boot_prot.armed, ~rst_sys_n, ~in_reset
  PROVE  ~stage2(None)
<1>1. prot.nmi_pend => pre # 0
  BY DEF RecInv, QuietGap
<1>2. tick => pre = 0
  BY RecoveryAssumption, WdogAssumption DEF tick
<1>3. ~violate(None)
  BY DEF violate, early_kick, budget_out, kick_req, None
<1> QED BY <1>1, <1>2, <1>3 DEF stage2, fault, expire

(* An edge keeps the gap quiet.                                            *)
LEMMA AwakeQuietGap ==
  ASSUME RecInv, NEW op \in Writes, NEW pins \in Pins, NEW bop, NEW seen,
         Awake(op, pins, bop, seen)
  PROVE  QuietGap'
<1> SUFFICES ASSUME upsets' <= 1, boot_prot'.armed, ~rst_sys_n', ~in_reset'
             PROVE  /\ prot'.nmi_pend => upsets' = 1 /\ pre' # 0 /\ rst_sync'[1]
                    /\ upsets' = 0 /\ ~rst_sync'[1] => counter' = COUNT_MAX
  BY DEF QuietGap
<1>1. /\ pins.wdis \in BOOLEAN /\ rst_sys_n \in BOOLEAN /\ IInv /\ Clock(op, pins.wdis)
      /\ prot' = prot_n(op) /\ boot_prot' = boot_n(rst_sys_n) /\ Synced /\ QuietGap
      /\ in_reset => op = None
  BY AwakeVotes DEF Awake, RecInv
<1>2. upsets' = upsets
  BY <1>1 DEF Clock
<1>3. CASE in_reset
  <2>1. op = None /\ ~prot.nmi_pend
    BY <1>1, <1>3 DEF IInv, StageOne
  <2>2. ~fault(op)
    BY <1>1, <1>3, Conditions DEF IInv, Voted
  <2>3. ~prot'.nmi_pend
    BY <1>1, <2>1, <2>2 DEF prot_n
  <2>4. upsets = 0 => counter' = COUNT_MAX
    BY <1>1, <1>3 DEF Clock, CountDown, IInv, Undone
  <2> QED BY <1>2, <2>3, <2>4
<1>4. CASE ~in_reset
  <2>1. rst_sync'[1] /\ (rst_sync'[2] <=> rst_sync[1])
    BY <1>4, AwakeSynced
  <2>2. ~rst_sync[1] /\ ~rst_sys_n /\ op = None
    BY <1>1, <2>1 DEF rst_sys_n, Synced, Awake
  <2>3. boot_prot.armed
    BY <1>1, <2>2 DEF boot_n
  <2>4. ~prot.nmi_pend /\ (upsets = 0 => counter = COUNT_MAX)
    BY <1>1, <1>2, <1>4, <2>2, <2>3 DEF QuietGap
  <2>5. prot'.nmi_pend => expire
    BY <1>1, <2>2, <2>4 DEF prot_n, fault, violate, early_kick, budget_out, kick_req, None
  <2>6. expire => upsets # 0 /\ pre' # 0
    <3>1. expire => counter = 0 /\ tick
      BY DEF expire
    <3>2. tick => pre = 0
      BY RecoveryAssumption, WdogAssumption DEF tick
    <3>3. pre = 0 => pre' # 0
      BY <1>1, RecoveryAssumption, WdogAssumption DEF Clock, Prescale
    <3> QED BY <2>4, <3>1, <3>2, <3>3, WdogAssumption
  <2>7. upsets \in Nat
    BY <1>1 DEF IInv, TypeOK
  <2> QED BY <1>2, <2>1, <2>5, <2>6, <2>7
<1> QED BY <1>3, <1>4

(* A stage 2 is counted at once, the boot it leads to at the first edge    *)
(* after the release, the power-on boot never.                             *)
LEMMA AwakeCounted ==
  ASSUME RecInv, NEW op \in Writes, NEW pins \in Pins, NEW bop, NEW seen,
         Awake(op, pins, bop, seen)
  PROVE  Counted'
<1> SUFFICES ASSUME boot_prot'.armed, upsets' <= 1
             PROVE  prot'.rst_count = IF rst_sys_n' /\ boot_prot'.sys THEN boot_prot'.cnt
                                      ELSE UpTo(boot_prot'.cnt, CNT_MAX)
  BY DEF Counted
<1>1. /\ pins.wdis \in BOOLEAN /\ rst_sys_n \in BOOLEAN /\ IInv /\ Clock(op, pins.wdis)
      /\ boot_prot' = boot_n(rst_sys_n) /\ Synced /\ Counted /\ StartingUp
      /\ ~rst_sys_n => op = None
  BY AwakeVotes DEF Awake, RecInv
<1>2. upsets <= 1
  BY <1>1 DEF Clock
<1>3. /\ boot_prot'.sys = rst_sys_n
      /\ boot_prot'.armed <=> boot_prot.armed \/ (rst_sys_n /\ ~boot_prot.sys)
      /\ boot_prot'.cnt = IF rst_sys_n /\ ~boot_prot.sys /\ boot_prot.armed
                          THEN UpTo(boot_prot.cnt, CNT_MAX) ELSE boot_prot.cnt
  BY <1>1 DEF boot_n, release
<1>4. /\ stage2(op) => prot.nmi_pend /\ in_reset' /\ prot'.rst_count = UpTo(prot.rst_count, CNT_MAX)
      /\ ~stage2(op) => prot'.rst_count = prot.rst_count
      /\ ~stage2(op) /\ ~in_reset => ~in_reset'
  <2>1. Bump(prot.rst_count, RST_CNT_MAX) = UpTo(prot.rst_count, CNT_MAX)
    BY RecoveryAssumption DEF Bump, UpTo
  <2> QED BY <1>1, <2>1, Hold
<1>5. /\ in_reset => ~rst_sys_n
      /\ in_reset' => ~rst_sys_n'
      /\ rst_sys_n /\ ~in_reset' => rst_sys_n'
  BY <1>1, AwakeSynced DEF Synced, rst_sys_n
<1>6. CASE ~boot_prot.armed
  <2>1. rst_sys_n /\ ~boot_prot.sys /\ prot.rst_count = 0 /\ boot_prot.cnt = 0 /\ ~prot.dis_seen /\ ~in_reset
    BY <1>1, <1>3, <1>6 DEF StartingUp
  <2>2. ~stage2(op)
    BY <1>1, <1>4, <2>1 DEF IInv, StageOne, armed
  <2> QED BY <1>3, <1>4, <1>5, <1>6, <2>1, <2>2
<1>7. CASE boot_prot.armed /\ rst_sys_n
  <2>1. prot.rst_count = boot_prot'.cnt
    BY <1>1, <1>2, <1>3, <1>7 DEF Counted
  <2> QED BY <1>3, <1>4, <1>5, <1>7, <2>1
<1>8. CASE boot_prot.armed /\ ~rst_sys_n
  <2>1. ~stage2(op)
    <3>1. CASE in_reset
      BY <1>1, <1>4, <3>1 DEF IInv, StageOne
    <3>2. CASE ~in_reset
      BY <1>1, <1>2, <1>8, <3>2, Gap
    <3> QED BY <3>1, <3>2
  <2>2. prot.rst_count = UpTo(boot_prot.cnt, CNT_MAX)
    BY <1>1, <1>2, <1>8 DEF Counted
  <2> QED BY <1>3, <1>4, <1>8, <2>1, <2>2
<1> QED BY <1>1, <1>6, <1>7, <1>8

(* However many upsets strike, what the boot block counts the watchdog has *)
(* counted before.                                                         *)
LEMMA AwakeBehind ==
  ASSUME RecInv, NEW op \in Writes, NEW pins \in Pins, NEW bop, NEW seen,
         Awake(op, pins, bop, seen)
  PROVE  Behind'
<1> SUFFICES ASSUME boot_prot'.armed
             PROVE  prot'.rst_count >= IF rst_sys_n' /\ boot_prot'.sys THEN boot_prot'.cnt
                                       ELSE UpTo(boot_prot'.cnt, CNT_MAX)
  BY DEF Behind
<1>1. /\ pins.wdis \in BOOLEAN /\ rst_sys_n \in BOOLEAN /\ IInv /\ Clock(op, pins.wdis)
      /\ boot_prot' = boot_n(rst_sys_n) /\ Synced /\ Behind /\ StartingUp
  BY AwakeVotes DEF Awake, RecInv
<1>2. prot.rst_count \in 0 .. CNT_MAX /\ boot_prot.cnt \in 0 .. CNT_MAX /\ CNT_MAX \in Nat
      /\ boot_prot.sys \in BOOLEAN /\ boot_prot.armed \in BOOLEAN
  BY RecoveryAssumption, BootAssumption DEF RecInv, IInv, Voted, Word, BootVoted, BootWord
<1>3. /\ boot_prot'.sys = rst_sys_n
      /\ boot_prot'.armed <=> boot_prot.armed \/ (rst_sys_n /\ ~boot_prot.sys)
      /\ boot_prot'.cnt = IF rst_sys_n /\ ~boot_prot.sys /\ boot_prot.armed
                          THEN UpTo(boot_prot.cnt, CNT_MAX) ELSE boot_prot.cnt
  BY <1>1 DEF boot_n, release
<1>4. /\ stage2(op) => prot.nmi_pend /\ in_reset' /\ prot'.rst_count = UpTo(prot.rst_count, CNT_MAX)
      /\ ~stage2(op) => prot'.rst_count = prot.rst_count
      /\ ~stage2(op) /\ ~in_reset => ~in_reset'
  <2>1. Bump(prot.rst_count, RST_CNT_MAX) = UpTo(prot.rst_count, CNT_MAX)
    BY RecoveryAssumption DEF Bump, UpTo
  <2> QED BY <1>1, <2>1, Hold
<1>5. prot'.rst_count >= prot.rst_count /\ prot'.rst_count \in 0 .. CNT_MAX
  BY <1>2, <1>4, Upwards
<1>6. /\ in_reset => ~rst_sys_n
      /\ rst_sys_n /\ ~in_reset' => rst_sys_n'
  BY <1>1, AwakeSynced DEF Synced, rst_sys_n
<1>7. CASE ~boot_prot.armed
  <2>1. rst_sys_n /\ ~boot_prot.sys /\ prot.rst_count = 0 /\ boot_prot.cnt = 0 /\ ~prot.dis_seen /\ ~in_reset
    BY <1>1, <1>3, <1>7 DEF StartingUp
  <2>2. ~stage2(op)
    BY <1>1, <1>4, <2>1 DEF IInv, StageOne, armed
  <2> QED BY <1>3, <1>4, <1>6, <1>7, <2>1, <2>2
<1>8. CASE boot_prot.armed /\ rst_sys_n
  <2>1. prot.rst_count >= boot_prot'.cnt /\ boot_prot'.cnt \in 0 .. CNT_MAX
    BY <1>1, <1>2, <1>3, <1>8, Upwards DEF Behind
  <2>2. CASE stage2(op)
    BY <1>2, <1>4, <2>1, <2>2 DEF UpTo
  <2>3. CASE ~stage2(op)
    <3>1. rst_sys_n' /\ boot_prot'.sys
      BY <1>3, <1>4, <1>6, <1>8, <2>3
    <3> QED BY <1>4, <2>1, <2>3, <3>1
  <2> QED BY <2>2, <2>3
<1>9. CASE boot_prot.armed /\ ~rst_sys_n
  <2>1. prot.rst_count >= UpTo(boot_prot.cnt, CNT_MAX) /\ UpTo(boot_prot.cnt, CNT_MAX) \in Nat
    BY <1>1, <1>2, <1>9, Upwards DEF Behind
  <2>2. boot_prot'.cnt = boot_prot.cnt /\ ~boot_prot'.sys
    BY <1>3, <1>9
  <2> QED BY <1>2, <1>5, <2>1, <2>2
<1> QED BY <1>1, <1>7, <1>8, <1>9

(* An edge of the two blocks preserves the invariant.                      *)
LEMMA AwakeInv ==
  ASSUME RecInv, NEW op \in Writes, NEW pins \in Pins, NEW bop, NEW seen,
         Awake(op, pins, bop, seen)
  PROVE  RecInv'
BY AwakeVotes, AwakeSynced, AwakeInStep, AwakeStretched, AwakeStartingUp, AwakeQuietGap, AwakeCounted,
   AwakeBehind
   DEF RecInv

-----------------------------------------------------------------------------
(* Before power-on reset ends only the synchronisers move.                 *)
LEMMA AsleepInv ==
  ASSUME RecInv, Asleep
  PROVE  RecInv'
<1>1. /\ UNCHANGED <<bank, dis_sync, dis_arm, reload, counter, pre, kick_left, in_reset_q,
                     hung, pin, warned, struck, upsets, boot_bank, boot_sync, spoiled>>
      /\ por_sync' = <<TRUE, por_sync[1]>> /\ SyncEdge /\ Count /\ ~rst_por_sync_n
  BY DEF Asleep, vars, plain, boot
<1>2. prot' = prot /\ in_reset' = in_reset /\ boot_prot' = boot_prot /\ armed' = armed
  BY <1>1 DEF prot, in_reset, boot_prot, armed
<1>3. ~boot_prot.armed /\ ~in_reset /\ Synced /\ Stretched /\ StartingUp /\ InStep /\ ~prot.dis_seen
  BY <1>1 DEF RecInv, StartingUp
<1>4. IInv'
  <2>1. UNCHANGED vars
    BY <1>1 DEF vars, plain
  <2> QED BY <2>1, NextInv DEF RecInv
<1>5. /\ rst_sync' \in BOOLEAN \X BOOLEAN /\ (rst_sync'[2] => rst_sync'[1])
      /\ rst_sync'[1] /\ (rst_sync'[2] <=> rst_sync[1])
  <2>1. in_reset_q \in BOOLEAN /\ in_reset_q' \in BOOLEAN /\ in_reset \in BOOLEAN
        /\ in_reset' \in BOOLEAN /\ ~in_reset'
    BY <1>1, <1>2, <1>3 DEF RecInv, IInv, TypeOK, in_reset
  <2> QED BY <1>1, <1>3, <2>1, SyncStep
<1>6. low' \in 0 .. (RST_CYCLES + 2) /\ (~rst_sys_n => low' >= low) /\ low \in Nat /\ RST_CYCLES \in Nat
  BY <1>1, <1>3, CountStep, WdogAssumption DEF Synced
<1>7. por_sync' \in BOOLEAN \X BOOLEAN /\ (por_sync'[2] => por_sync'[1])
  <2>1. por_sync[1] \in BOOLEAN
    BY <1>3 DEF Synced
  <2> QED BY <1>1, <2>1
<1>8. rst_sys_n => rst_sys_n'
  BY <1>3, <1>5 DEF Synced, rst_sys_n
<1>9. Synced' /\ Stretched'
  BY <1>2, <1>3, <1>5, <1>6, <1>7, <1>8 DEF Synced, Stretched
<1>10. StartingUp' /\ QuietGap' /\ Counted' /\ Behind'
  <2>1. dis_arm >= 1 => rst_sync'[2]
    BY <1>3, <1>5 DEF StartingUp, Synced
  <2> QED BY <1>1, <1>2, <1>3, <1>5, <2>1 DEF StartingUp, QuietGap, Counted, Behind
<1>11. InStep' /\ BootVoted' /\ BootTyped'
  BY <1>1, <1>2, <1>3 DEF RecInv, InStep, SamplesAgree, BootVoted, BootTyped
<1> QED BY <1>4, <1>9, <1>10, <1>11 DEF RecInv

(* A step that is no edge and leaves the votes alone preserves the         *)
(* invariant; only QuietGap reads registers an upset may change, and it    *)
(* allows for one.                                                         *)
LEMMA OffTheEdgeInv ==
  ASSUME RecInv, prot' = prot, boot_prot' = boot_prot, IInv', BootVoted', BootTyped', InStep',
         UNCHANGED <<dis_arm, rst_sync, por_sync, low>>,
         \/ upsets' = upsets + 1
         \/ UNCHANGED <<upsets, pre, counter>>
  PROVE  RecInv'
<1>1. in_reset' = in_reset /\ rst_sys_n' = rst_sys_n /\ rst_por_sync_n' = rst_por_sync_n /\ upsets \in Nat
  BY DEF in_reset, rst_sys_n, rst_por_sync_n, RecInv, IInv, TypeOK
<1>2. Synced' /\ Stretched' /\ StartingUp' /\ Behind'
  BY <1>1 DEF RecInv, Synced, Stretched, StartingUp, Behind
<1>3. upsets' <= 1 => upsets <= 1 /\ (upsets' = upsets + 1 => upsets = 0 /\ upsets' = 1)
  BY <1>1
<1>4. Counted'
  BY <1>1, <1>3 DEF RecInv, Counted
<1>5. QuietGap'
  <2>1. CASE upsets' = upsets + 1
    BY <1>1, <1>3, <2>1 DEF RecInv, QuietGap
  <2>2. CASE UNCHANGED <<upsets, pre, counter>>
    BY <1>1, <2>2 DEF RecInv, QuietGap
  <2> QED BY <2>1, <2>2
<1> QED BY <1>2, <1>4, <1>5 DEF RecInv

(* An upset that does not strike the bit on its way to the boot block's    *)
(* sample leaves it in step with the watchdog's.                           *)
LEMMA StrikeInStep ==
  ASSUME RecInv, prot' = prot, boot_prot' = boot_prot, UNCHANGED <<dis_sync, dis_arm>>,
         UNCHANGED <<boot_sync, spoiled>> \/ spoiled' = (spoiled \/ Spoils)
  PROVE  InStep'
<1>1. InStep
  BY DEF RecInv
<1>2. spoiled' \in BOOLEAN /\ (spoiled => spoiled')
  BY <1>1 DEF InStep
<1>3. SamplesAgree'
  BY <1>1, <1>2 DEF InStep, SamplesAgree
<1>4. ASSUME ~boot_prot.valid, ~spoiled'
      PROVE  /\ dis_arm = 1 => boot_sync'[1].wdis = boot_sync[1].wdis
             /\ dis_arm = 2 => boot_sync'[2].wdis = boot_sync[2].wdis
  BY <1>1, <1>4 DEF InStep, Spoils
<1> QED BY <1>1, <1>2, <1>3, <1>4 DEF InStep

(* An upset preserves the invariant.                                       *)
LEMMA StrikeInv ==
  ASSUME RecInv, Strike
  PROVE  RecInv'
<1>1. IInv /\ Voted /\ TypeOK /\ Synced /\ BootVoted /\ BootTyped
  BY DEF RecInv, IInv
<1>2. /\ prot' = prot /\ boot_prot' = boot_prot /\ IInv' /\ BootVoted' /\ BootTyped'
      /\ UNCHANGED <<dis_sync, dis_arm>> /\ upsets' = upsets + 1
      /\ UNCHANGED <<boot_sync, spoiled>> \/ spoiled' = (spoiled \/ Spoils)
  <2>1. CASE Upset /\ UNCHANGED <<boot, spoiled>>
    <3>1. prot' = prot /\ IInv'
      BY <1>1, <2>1, UpsetVote, UpsetInv
    <3>2. UNCHANGED <<dis_sync, dis_arm>> /\ upsets' = upsets + 1 /\ (struck => struck')
      BY <2>1 DEF Upset, UpsetReplica, UpsetPlain, plain
    <3>3. UNCHANGED <<boot_bank, boot_sync, spoiled>>
      BY <2>1 DEF boot
    <3>4. boot_prot' = boot_prot
      BY <3>3 DEF boot_prot
    <3>5. struck \in BOOLEAN
      BY <1>1 DEF TypeOK
    <3> QED BY <1>1, <3>1, <3>2, <3>3, <3>4, <3>5 DEF BootVoted, BootTyped
  <2>2. CASE BootUpset
    <3>1. boot_prot' = boot_prot /\ BootVoted' /\ BootTyped'
      BY <1>1, <2>2, BootStrike
    <3>2. /\ UNCHANGED <<bank, dis_sync, dis_arm, reload, counter, pre, kick_left, in_reset_q,
                         hung, pin, warned>>
          /\ upsets < MaxUpsets /\ upsets' = upsets + 1 /\ spoiled' = (spoiled \/ Spoils)
      BY <2>2 DEF BootUpset, plain
    <3>3. prot' = prot
      BY <3>2 DEF prot
    <3>4. struck' \in BOOLEAN /\ (struck => struck')
      <4>1. struck \in BOOLEAN /\ (struck' = TRUE \/ struck' = struck)
        BY <1>1, <2>2 DEF BootUpset, TypeOK
      <4> QED BY <4>1
    <3>5. armed' = armed /\ in_reset' = in_reset /\ upsets' # 0 /\ upsets' \in 0 .. MaxUpsets
      BY <1>1, <3>2, <3>3, WdogAssumption DEF armed, in_reset, TypeOK
    <3>6. TypeOK' /\ Voted'
      BY <1>1, <3>2, <3>3, <3>4, <3>5 DEF TypeOK, Voted
    <3>7. PinOnItsWay' /\ StageOne' /\ FullPeriod' /\ Undone'
      BY <1>1, <3>2, <3>3, <3>5 DEF IInv, PinOnItsWay, StageOne, FullPeriod, Undone
    <3> QED BY <3>1, <3>2, <3>3, <3>6, <3>7 DEF IInv
  <2> QED BY <2>1, <2>2 DEF Strike
<1>3. rst_sync' = rst_sync /\ UNCHANGED <<por_sync, low>>
  <2>1. rst_req_o' => in_reset
    BY <1>2 DEF rst_req_o, in_reset
  <2>2. in_reset => rst_sync = <<FALSE, FALSE>>
    <3>1. rst_sync \in BOOLEAN \X BOOLEAN /\ (in_reset => ~rst_sync[1] /\ ~rst_sync[2])
      BY <1>1 DEF Synced
    <3>2. PICK a \in BOOLEAN, b \in BOOLEAN : rst_sync = <<a, b>>
      BY <3>1
    <3>3. in_reset => a = FALSE /\ b = FALSE
      BY <3>1, <3>2
    <3> QED BY <3>2, <3>3
  <2> QED BY <2>1, <2>2 DEF Strike
<1>4. InStep'
  BY <1>2, StrikeInStep DEF Strike
<1> QED BY <1>2, <1>3, <1>4, OffTheEdgeInv

(* The invariant is inductive.                                             *)
LEMMA RecNextInv == RecInv /\ [RecoveryNext]_recovery => RecInv'
<1> SUFFICES ASSUME RecInv, [RecoveryNext]_recovery PROVE RecInv'
  OBVIOUS
<1>1. ASSUME NEW op \in Writes, NEW pins \in Pins, NEW bop, NEW seen, Awake(op, pins, bop, seen)
      PROVE  RecInv'
  BY <1>1, AwakeInv
<1>2. CASE Asleep
  BY <1>2, AsleepInv
<1>3. CASE Strike
  BY <1>3, StrikeInv
<1>4. CASE CoreHangs \/ UNCHANGED recovery
  <2>1. /\ Hang \/ UNCHANGED vars
        /\ UNCHANGED <<boot, rst_sync, por_sync, low, spoiled>>
    BY <1>4 DEF CoreHangs, recovery
  <2>2. /\ UNCHANGED <<bank, dis_sync, dis_arm, counter, pre, struck, upsets>>
        /\ UNCHANGED <<boot_bank, boot_sync, rst_sync, por_sync, low, spoiled>>
    BY <2>1 DEF Hang, vars, plain, boot
  <2>3. IInv'
    BY <2>1, NextInv DEF RecInv, Next
  <2>4. prot' = prot /\ boot_prot' = boot_prot
    BY <2>2 DEF prot, boot_prot
  <2>5. BootVoted' /\ BootTyped' /\ InStep'
    BY <2>2, <2>4 DEF RecInv, BootVoted, BootTyped, InStep, SamplesAgree
  <2> QED BY <2>2, <2>3, <2>4, <2>5, OffTheEdgeInv
<1> QED BY <1>1, <1>2, <1>3, <1>4, RecSteps

(* The invariant holds at the first edge after the external reset.         *)
LEMMA RecInitInv == RecoveryInit => RecInv
<1> SUFFICES ASSUME RecoveryInit PROVE RecInv
  OBVIOUS
<1>1. IInv /\ upsets = 0
  BY InitInv DEF RecoveryInit, Init
<1>2. prot = NoWord /\ dis_arm = 0 /\ dis_sync = <<FALSE, FALSE>>
  BY Unanimous, ProtIsVote DEF RecoveryInit, Init
<1>3. ~in_reset /\ ~prot.rst_seen /\ ~prot.dis_seen /\ ~prot.nmi_pend /\ prot.rst_count = 0
      /\ prot.dis_seen = FALSE
  BY <1>2 DEF NoWord, in_reset
<1>4. NoBootWord \in BootWord
  BY BootAssumption DEF NoBootWord, BootWord
<1>5. boot_bank = [r \in Copy |-> NoBootWord] /\ boot_prot = NoBootWord
  <2>1. boot_bank = [r \in Copy |-> NoBootWord]
    BY DEF RecoveryInit, BootInit
  <2>2. \A r \in Copy : boot_bank[r] = NoBootWord
    BY <2>1
  <2> QED BY <2>1, <2>2, BootUnanimous, BootProtIsVote
<1>6. BootVoted
  BY <1>4, <1>5 DEF BootVoted, Copy
<1>7. /\ DOMAIN boot_sync = 1 .. 2
      /\ boot_sync[1] = [strap |-> NoStrap, wdis |-> FALSE] /\ boot_sync[2] = [strap |-> NoStrap, wdis |-> FALSE]
  BY DEF RecoveryInit, BootInit
<1>8. BootTyped
  BY <1>4, <1>5, <1>7 DEF BootTyped, Pins
<1>9. /\ rst_sync \in BOOLEAN \X BOOLEAN /\ por_sync \in BOOLEAN \X BOOLEAN
      /\ ~rst_sync[2] /\ ~por_sync[2] /\ low = 0
  <2>1. <<FALSE, FALSE>> \in BOOLEAN \X BOOLEAN /\ <<TRUE, FALSE>> \in BOOLEAN \X BOOLEAN
    OBVIOUS
  <2>2. rst_sync \in BOOLEAN \X BOOLEAN /\ ~rst_sync[2]
    BY <2>1 DEF RecoveryInit
  <2>3. por_sync \in BOOLEAN \X BOOLEAN /\ ~por_sync[2]
    BY <2>1 DEF RecoveryInit
  <2> QED BY <2>2, <2>3 DEF RecoveryInit
<1>10. Synced
  BY <1>3, <1>9, WdogAssumption DEF Synced
<1>11. boot_prot.valid = FALSE /\ boot_prot.dly = 0 /\ ~boot_prot.armed /\ ~boot_prot.sys /\ boot_prot.cnt = 0
  BY <1>5 DEF NoBootWord
<1>12. InStep
  <2>1. SamplesAgree
    BY <1>3, <1>11 DEF SamplesAgree
  <2>2. spoiled \in BOOLEAN
    BY DEF RecoveryInit
  <2>3. dis_arm = 0 /\ dis_arm # 1 /\ dis_arm # 2 /\ boot_prot.dly = dis_arm
    BY <1>2, <1>11
  <2> QED BY <2>1, <2>2, <2>3 DEF InStep
<1>13. Stretched /\ StartingUp /\ QuietGap /\ Counted /\ Behind
  BY <1>2, <1>3, <1>9, <1>11 DEF Stretched, StartingUp, QuietGap, Counted, Behind, rst_por_sync_n
<1> QED BY <1>1, <1>6, <1>8, <1>10, <1>12, <1>13 DEF RecInv

(* The invariant holds in every reachable state.                           *)
LEMMA RecSpecInv == RecoverySpec => []RecInv
BY RecInitInv, RecNextInv, PTL DEF RecoverySpec

-----------------------------------------------------------------------------
(* The boot block and the watchdog take the same value of the bootstrap    *)
(* pin at the same edge, however the pin moves and however many upsets     *)
(* strike, unless one strikes the boot block's flop that holds the bit in  *)
(* one of the two clocks before the sample.                                *)
THEOREM BothSampleTheSame == RecoverySpec => []SamplesAgree
BY RecSpecInv, PTL DEF RecInv, InStep

(* While at most one upset has struck, the core never reads a boot count   *)
(* that differs from the watchdog's reset count, whatever was struck and   *)
(* however the two domains left power-on reset.  With two upsets the       *)
(* statement is false: a reload struck to zero and a prescaler struck to   *)
(* zero reset a system not yet released.                                   *)
THEOREM EveryBootIsCounted == RecoverySpec => [](upsets <= 1 => CountersAgree)
<1>1. RecInv => (upsets <= 1 => CountersAgree)
  BY DEF RecInv, Counted, StartingUp, CountersAgree
<1> QED BY <1>1, RecSpecInv, PTL

(* What SocWdog_proofs shows of the watchdog alone holds in the system:    *)
(* only the bootstrap pin disarms it.                                      *)
THEOREM PinAloneDisarmsAcrossResets == RecoverySpec => []DisarmedOnlyByPin
<1>1. RecInv => DisarmedOnlyByPin
  BY DEF RecInv, IInv, TypeOK, PinOnItsWay, DisarmedOnlyByPin
<1> QED BY <1>1, RecSpecInv, PTL

(* A watchdog reset keeps the system down for the whole stretch and one    *)
(* edge more, for every length of the stretch and any number of upsets.    *)
THEOREM EveryResetIsWhole == RecoverySpec => ResetIsWhole
<1>1. RecInv /\ RecInv' /\ [RecoveryNext]_recovery =>
        [rst_sys_n' /\ ~rst_sys_n /\ prot.rst_seen => low' >= RST_CYCLES + 1]_recovery
  <2> SUFFICES ASSUME RecInv, [RecoveryNext]_recovery, rst_sys_n', ~rst_sys_n, prot.rst_seen
               PROVE  low' >= RST_CYCLES + 1
    OBVIOUS
  <2>1. Synced /\ Stretched /\ low \in Nat /\ RST_CYCLES \in Nat
    BY WdogAssumption DEF RecInv, Synced
  <2>2. CASE ~in_reset /\ Count
    <3>1. low' = low + 1 \/ low' = RST_CYCLES + 2
      BY <2>1, <2>2, CountStep
    <3> QED BY <2>1, <2>2, <3>1 DEF Stretched
  <2>3. ASSUME NEW op \in Writes, NEW pins \in Pins, NEW bop, NEW seen, Awake(op, pins, bop, seen)
        PROVE  low' >= RST_CYCLES + 1
    <3>1. rst_sync'[2]
      BY DEF rst_sys_n
    <3>2. ~in_reset /\ Count
      BY <2>3, <3>1, AwakeSynced DEF Awake
    <3> QED BY <2>2, <3>2
  <2>4. CASE Asleep
    BY <2>2, <2>4 DEF Asleep, RecInv, StartingUp
  <2>5. Strike => FALSE
    <3>1. Strike => rst_sync' \in {<<FALSE, FALSE>>, rst_sync}
      BY DEF Strike
    <3>2. rst_sync'[2] /\ ~rst_sync[2] /\ rst_sync[2] \in BOOLEAN
      BY <2>1 DEF rst_sys_n, Synced
    <3>3. rst_sync' # <<FALSE, FALSE>>
      <4>1. ~<<FALSE, FALSE>>[2]
        OBVIOUS
      <4> QED BY <3>2, <4>1
    <3> QED BY <3>1, <3>2, <3>3
  <2>6. CoreHangs \/ UNCHANGED recovery => rst_sync' = rst_sync
    BY DEF CoreHangs, recovery
  <2>7. rst_sync' # rst_sync
    BY DEF rst_sys_n
  <2> QED BY <2>3, <2>4, <2>5, <2>6, <2>7, RecSteps
<1> QED BY <1>1, RecSpecInv, PTL DEF RecoverySpec, ResetIsWhole

(* For every width of the counters and any number of upsets: the loader's  *)
(* last attempt, and giving up after it, come only after the watchdog has  *)
(* asserted the external pin, because the limit lies beyond the escalation *)
(* and the boot count never runs ahead of the reset count.                 *)
THEOREM GivesUpAfterHardware == RecoverySpec => []GivesUpLast
<1>1. RecInv => GivesUpLast
  <2> SUFFICES ASSUME RecInv, last_attempt PROVE ~wdog_no
    BY DEF GivesUpLast
  <2>1. /\ boot_prot.cnt \in 0 .. CNT_MAX /\ CNT_MAX \in Nat /\ prot.rst_count \in 0 .. CNT_MAX
        /\ ESCALATE \in Nat \ {0} /\ LIMIT \in Nat /\ ESCALATE < LIMIT
    BY RecoveryAssumption, BootAssumption, WdogAssumption
       DEF RecInv, IInv, Voted, Word, BootVoted, BootWord
  <2>2. boot_prot.cnt >= LIMIT - 1
    BY DEF last_attempt
  <2>3. boot_prot.armed
    BY <2>1, <2>2 DEF RecInv, StartingUp
  <2>4. prot.rst_count >= boot_prot.cnt
    BY <2>1, <2>3, Upwards DEF RecInv, Behind
  <2> QED BY <2>1, <2>2, <2>4 DEF wdog_no
<1> QED BY <1>1, RecSpecInv, PTL

(* The count of boots and the sampled straps survive every reset and every *)
(* upset; the first crash, the report and the epoch every reset and every  *)
(* upset but one of their own flops, for every width of the counters.      *)
THEOREM ResetRecordsAreKept == RecoverySpec => RecordsSurvive
<1> DEFINE Guarded ==
      /\ boot_prot'.cnt >= boot_prot.cnt
      /\ boot_prot.valid => /\ boot_prot'.valid
                            /\ boot_prot'.strap = boot_prot.strap
    Plain ==
      \/ upsets' = upsets + 1 /\ UpsetRecords
      \/ /\ crash.valid => crash' = crash
         /\ ~running => UNCHANGED <<brpt_q, epoch_q>>
<1>1. RecInv /\ RecInv' /\ [RecoveryNext]_recovery => [Guarded /\ Plain]_recovery
  <2> SUFFICES ASSUME RecInv, [RecoveryNext]_recovery
               PROVE  Guarded /\ Plain
    OBVIOUS
  <2>1. boot_prot.cnt \in 0 .. CNT_MAX /\ CNT_MAX \in Nat
    BY BootAssumption DEF RecInv, BootVoted, BootWord
  <2>2. Guarded
    <3>1. ASSUME NEW op \in Writes, NEW pins \in Pins, NEW bop, NEW seen, Awake(op, pins, bop, seen)
          PROVE  Guarded
      <4>1. boot_prot' = boot_n(rst_sys_n)
        BY <3>1, AwakeVotes
      <4>2. boot_prot'.cnt >= boot_prot.cnt
        BY <2>1, <4>1, Upwards DEF boot_n
      <4> QED BY <4>1, <4>2 DEF boot_n, sampling
    <3>2. ASSUME boot_prot' = boot_prot PROVE Guarded
      BY <2>1, <3>2
    <3>3. CASE Strike
      <4>1. CASE UNCHANGED boot
        BY <3>2, <4>1 DEF boot, boot_prot
      <4>2. CASE BootUpset
        BY <3>2, <4>2, BootStrike DEF RecInv
      <4> QED BY <3>3, <4>1, <4>2 DEF Strike
    <3>4. CASE Asleep \/ CoreHangs \/ UNCHANGED recovery
      <4>1. UNCHANGED boot_bank
        BY <3>4 DEF Asleep, CoreHangs, recovery, boot
      <4> QED BY <3>2, <4>1 DEF boot_prot
    <3> QED BY <3>1, <3>3, <3>4, RecSteps
  <2>3. Plain
    <3>1. ASSUME UNCHANGED <<brpt_q, epoch_q, crash>> PROVE Plain
      BY <3>1
    <3>2. ASSUME NEW op, NEW bop, NEW seen, ClockEdge(op, bop, seen), running \/ bop = None
          PROVE  Plain
      <4>1. CASE UNCHANGED boot
        BY <3>1, <4>1 DEF boot
      <4>2. ASSUME NEW pins, Edge(rst_sys_n, pins, bop, seen) PROVE Plain
        BY <3>2, <4>2 DEF Edge, Capture, None
      <4> QED BY <3>2, <4>1, <4>2 DEF ClockEdge, Domain
    <3>3. CASE CoreRuns \/ CoreSilent
      <4>1. CASE CoreRuns
        BY <3>2, <4>1 DEF CoreRuns
      <4>2. CASE CoreSilent
        BY <3>2, <4>2 DEF CoreSilent
      <4> QED BY <3>3, <4>1, <4>2
    <3>4. CASE Strike
      <4>1. CASE UNCHANGED boot
        BY <3>1, <4>1 DEF boot
      <4>2. CASE BootUpset
        BY <3>1, <4>2 DEF BootUpset, UpsetBank, UpsetSync
      <4> QED BY <3>4, <4>1, <4>2 DEF Strike
    <3>5. CASE CoreHangs \/ UNCHANGED recovery
      BY <3>1, <3>5 DEF CoreHangs, recovery, boot
    <3> QED BY <3>3, <3>4, <3>5 DEF RecoveryNext
  <2> QED BY <2>2, <2>3
<1> QED BY <1>1, RecSpecInv, PTL DEF RecoverySpec, RecordsSurvive
==============================================================================
