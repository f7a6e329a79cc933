---------------------------- MODULE SocRecovery ----------------------------
(***************************************************************************)
(* Recovery from a hung program: the watchdog, the reset synchronisers of  *)
(* hw/soc/rtl/soc_top.v and the boot register block, across the resets     *)
(* they cause.  The core writes registers only while it runs, that is out  *)
(* of the system reset and not hung.  A behaviour starts at the first edge *)
(* after the external reset pin rises; the pin is not related to the       *)
(* clock, so each synchroniser may or may not have caught that edge.       *)
(* A definition marked Variant is a plausible bug, there to show that a    *)
(* property notices it; no specification uses it.                          *)
(***************************************************************************)
EXTENDS SocWdog, SocBoot

(* The two counts are registers of one width, and no two successive clocks *)
(* are both ticks: two lie between the end of a stretch and the release.   *)
(* The loader's limit lies beyond the watchdog's escalation.               *)
ASSUME RecoveryAssumption ==
  CNT_MAX = RST_CNT_MAX /\ PRESCALE > 1 /\ ESCALATE < LIMIT

VARIABLES
  rst_sync, por_sync,   (* the two flops of each synchroniser              *)
  low,                  (* history: edges that saw the system reset low    *)
  spoiled               (* history: an upset struck the boot block's flop  *)
                        (* that held the wdis bit it was about to sample   *)

recovery == <<vars, boot, rst_sync, por_sync, low, spoiled>>

rst_sys_n      == rst_sync[2]
rst_por_sync_n == por_sync[2]
running        == rst_sys_n /\ rst_por_sync_n /\ ~hung

RecoveryInit ==
  /\ Init
  /\ BootInit
  /\ rst_sync \in {<<FALSE, FALSE>>, <<TRUE, FALSE>>}
  /\ por_sync \in {<<FALSE, FALSE>>, <<TRUE, FALSE>>}
  /\ low = 0 /\ spoiled = FALSE

(* Variant: a single flop releases the reset.                              *)
SyncEdgeShort ==
  rst_sync' = IF rst_req_o \/ rst_req_o' THEN <<FALSE, FALSE>> ELSE <<TRUE, TRUE>>

(* The flops are cleared at once whenever the watchdog asks.               *)
SyncEdge ==
  rst_sync' = IF rst_req_o \/ rst_req_o' THEN <<FALSE, FALSE>>
              ELSE <<TRUE, rst_sync[1]>>

(* The power-on domain at a clock edge, held until its own release.        *)
Domain(op, bop, seen, pins) ==
  IF rst_por_sync_n
  THEN /\ Clock(op, pins.wdis)
       /\ Edge(rst_sys_n, pins, bop, seen)
  ELSE UNCHANGED <<vars, boot>>

Count == low' = IF rst_sys_n THEN 0 ELSE UpTo(low, RST_CYCLES + 2)

(* Once both blocks have sampled the pins these no longer move (a bound).  *)
PinsHeld(pins) ==
  boot_prot.valid => pins = [strap |-> boot_prot.strap, wdis |-> boot_prot.wdis]

ClockEdge(op, bop, seen) ==
  /\ \E pins \in Pins : PinsHeld(pins) /\ Domain(op, bop, seen, pins)
  /\ por_sync' = <<TRUE, por_sync[1]>>
  /\ SyncEdge
  /\ Count
  /\ UNCHANGED spoiled

(* The core runs: one register write at most, or a double fault.           *)
CoreRuns ==
  /\ running
  /\ \/ \E op \in Writes : ClockEdge(op, None, <<>>)
     \/ \E bop \in BootWrites : ClockEdge(None, bop, <<>>)
     \/ \E pc \in Pcs : ClockEdge(None, None, <<pc>>)

(* The core hangs or is held in reset.                                     *)
CoreSilent ==
  /\ ~running
  /\ ClockEdge(None, None, <<>>)

CoreHangs ==
  /\ running
  /\ Hang
  /\ UNCHANGED <<boot, rst_sync, por_sync, low, spoiled>>

(* An upset of the first flop is on its way to the sample one edge before  *)
(* it is taken, one of the second flop at the edge itself; the flops shed  *)
(* any other.                                                              *)
Spoils ==
  /\ ~boot_prot.valid
  /\ \/ boot_prot.dly = 1 /\ boot_sync'[1].wdis # boot_sync[1].wdis
     \/ boot_prot.dly = 2 /\ boot_sync'[2].wdis # boot_sync[2].wdis

(* At most one replica of the two words is struck between two edges.       *)
BootUpset ==
  /\ upsets < MaxUpsets /\ upsets' = upsets + 1
  /\ \/ ~struck /\ struck' = TRUE /\ UpsetBank
     \/ UNCHANGED struck /\ (UpsetSync \/ UpsetRecords)
  /\ spoiled' = (spoiled \/ Spoils)
  /\ UNCHANGED <<bank, plain, hung, pin, warned>>

(* An upset of the reset request acts on the synchroniser at once.         *)
Strike ==
  /\ rst_por_sync_n
  /\ \/ Upset /\ UNCHANGED <<boot, spoiled>>
     \/ BootUpset
  /\ rst_sync' = IF rst_req_o' THEN <<FALSE, FALSE>> ELSE rst_sync
  /\ UNCHANGED <<por_sync, low>>

RecoveryNext == CoreRuns \/ CoreSilent \/ CoreHangs \/ Strike

(* The clock does not stop under a silent core.                            *)
RecoverySpec ==
  RecoveryInit /\ [][RecoveryNext]_recovery /\ WF_recovery(CoreSilent)

-----------------------------------------------------------------------------
RecoveryTypeOK ==
  /\ TypeOK /\ BootTypeOK
  /\ rst_sync \in [1 .. 2 -> BOOLEAN] /\ por_sync \in [1 .. 2 -> BOOLEAN]
  /\ low \in 0 .. (RST_CYCLES + 2) /\ spoiled \in BOOLEAN

(* Software compares BOOTCNT, counted at the release, with RSTCNT, counted *)
(* at the assertion, and reports a difference as a fault: whenever the     *)
(* core can read them they are equal, whatever was struck and however the  *)
(* two domains left power-on reset.                                        *)
CountersAgree ==
  rst_sys_n /\ boot_prot.sys => boot_prot.cnt = prot.rst_count

(* The two blocks sample the watchdog's bootstrap pin through flops of     *)
(* their own, and read the same value of it, also while it moves.  Of the  *)
(* boot block's upsets only one in the very flop that holds the bit, in    *)
(* one of the two clocks before the sample, can part them; the watchdog's  *)
(* own four flops of the pin are not struck (module SocWdog).              *)
SamplesAgree ==
  /\ boot_prot.valid = prot.dis_seen
  /\ boot_prot.valid /\ ~spoiled => boot_prot.wdis = prot.dis_q

(* What describes a reset survives it.  The protected word's count of      *)
(* boots and sampled straps survive any upset too.  The first crash, the   *)
(* report and the epoch are in plain flops: they survive every step but an *)
(* upset of one of theirs, and software, which alone writes the report and *)
(* the epoch, does so only out of reset.                                   *)
RecordsSurvive ==
  [][/\ boot_prot'.cnt >= boot_prot.cnt
     /\ boot_prot.valid => /\ boot_prot'.valid
                           /\ boot_prot'.strap = boot_prot.strap
     /\ \/ upsets' = upsets + 1 /\ UpsetRecords
        \/ /\ crash.valid => crash' = crash
           /\ ~running => UNCHANGED <<brpt_q, epoch_q>>]_recovery

(* No upset lets the system out of reset in the middle of the stretch.     *)
ResetIsWhole ==
  [][rst_sys_n' /\ ~rst_sys_n /\ prot.rst_seen => low' >= RST_CYCLES + 1]_recovery

(* "software gives up after the hardware has escalated, never before":     *)
(* from the last boot the loader tries on, the platform has been told on   *)
(* the watchdog's pin.                                                     *)
GivesUpLast == last_attempt => ~wdog_no

(* A program that hangs at every boot is told in the end that it is over   *)
(* the limit, for good.                                                    *)
LoopTerminates == []<>(hung /\ armed) => <>[]over_limit
=============================================================================
