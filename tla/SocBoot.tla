------------------------------- MODULE SocBoot -------------------------------
(***************************************************************************)
(* The boot register block, hw/soc/rtl/soc_boot.v, with HARDEN = 1: the    *)
(* sampled bootstrap pins, the boot counter no software can write, and the *)
(* records that survive the reset they describe.  Every register lives in  *)
(* the power-on domain; the system reset is an input of Edge.              *)
(* A definition marked Variant is a plausible bug, there to show that a    *)
(* property notices it; no specification uses it.                          *)
(***************************************************************************)
EXTENDS Naturals

CONSTANTS
  Straps, NoStrap,  (* values of the strap pins, the one with all low      *)
  CNT_MAX,          (* 2^CNT_W - 1                                         *)
  BOOT_TMR_MAX,     (* where tmr_count saturates, 2^TMC_W - 1              *)
  LIMIT,            (* boots after which the loader stops trying           *)
  Reports, NoReport,(* what software writes to BRPT and EPOCH, zero        *)
  Pcs, NoPc,        (* program counters of a double fault, zero            *)
  BootStruck        (* bound: what a struck replica may decode to          *)

ASSUME BootAssumption ==
  /\ CNT_MAX \in Nat \ {0} /\ LIMIT \in 1 .. CNT_MAX
  /\ BOOT_TMR_MAX \in Nat \ {0}

VARIABLES
  boot_bank,        (* replica -> the protected word as the voter sees it  *)
  boot_sync,        (* the two synchroniser flops of all pins              *)
  brpt_q, epoch_q,
  crash             (* crash_q and crash_valid_q                           *)

boot == <<boot_bank, boot_sync, brpt_q, epoch_q, crash>>

Copy == {"a", "b", "c"}
Pins  == [strap : Straps \union {NoStrap}, wdis : BOOLEAN]
Crash == [pc : Pcs \union {NoPc}, valid : BOOLEAN]

BootWord == [dly : 0 .. 3, valid : BOOLEAN,
             strap : Straps \union {NoStrap}, wdis : BOOLEAN,
             armed : BOOLEAN, sys : BOOLEAN, cnt : 0 .. CNT_MAX,
             tmr_err : BOOLEAN, tmr_count : 0 .. BOOT_TMR_MAX]

NoBootWord == [dly |-> 0, valid |-> FALSE, strap |-> NoStrap, wdis |-> FALSE,
               armed |-> FALSE, sys |-> FALSE, cnt |-> 0,
               tmr_err |-> FALSE, tmr_count |-> 0]

(* A struck replica still decodes to a word.                               *)
ASSUME BootStruckAssumption == BootStruck \subseteq BootWord

(* Software's register writes, at most one per clock.                      *)
BootWrites == [reg : {"brpt", "epoch"}, num : Reports]

(* As in the watchdog, three different words do not arise.                 *)
boot_prot ==
  IF boot_bank["a"] = boot_bank["b"] \/ boot_bank["a"] = boot_bank["c"]
  THEN boot_bank["a"]
  ELSE IF boot_bank["b"] = boot_bank["c"] THEN boot_bank["b"]
  ELSE CHOOSE w \in BootWord : TRUE

boot_mismatch == ~(boot_bank["a"] = boot_bank["b"] /\ boot_bank["a"] = boot_bank["c"])

(* Variant: a counter that wraps.                                          *)
UpToWrap(n, m) == (n + 1) % (m + 1)

(* The counters saturate.                                                  *)
UpTo(n, m) == IF n < m THEN n + 1 ELSE n

(* Variant: the pins are taken one clock early.                            *)
sampling_early == ~boot_prot.valid /\ boot_prot.dly = 1

sampling == ~boot_prot.valid /\ boot_prot.dly = 2

(* Variant: the power-on boot is counted like any other.                   *)
release_all(rst_ni) == rst_ni /\ ~boot_prot.sys

release(rst_ni) == rst_ni /\ ~boot_prot.sys /\ boot_prot.armed

over_limit == boot_prot.cnt >= LIMIT

last_attempt == boot_prot.cnt >= LIMIT - 1

boot_n(rst_ni) ==
  [dly   |-> IF ~boot_prot.valid /\ ~sampling THEN (boot_prot.dly + 1) % 4
             ELSE boot_prot.dly,
   valid |-> boot_prot.valid \/ sampling,
   strap |-> IF sampling THEN boot_sync[2].strap ELSE boot_prot.strap,
   wdis  |-> IF sampling THEN boot_sync[2].wdis ELSE boot_prot.wdis,
   armed |-> boot_prot.armed \/ (rst_ni /\ ~boot_prot.sys),
   sys   |-> rst_ni,
   cnt   |-> IF release(rst_ni) THEN UpTo(boot_prot.cnt, CNT_MAX)
             ELSE boot_prot.cnt,
   tmr_err   |-> boot_prot.tmr_err \/ boot_mismatch,
   tmr_count |-> IF boot_mismatch THEN UpTo(boot_prot.tmr_count, BOOT_TMR_MAX)
                 ELSE boot_prot.tmr_count]

BootInit ==
  /\ boot_bank = [r \in Copy |-> NoBootWord]
  /\ boot_sync = [k \in 1 .. 2 |-> [strap |-> NoStrap, wdis |-> FALSE]]
  /\ brpt_q = NoReport /\ epoch_q = NoReport
  /\ crash = [pc |-> NoPc, valid |-> FALSE]

(* Variant: the latest crash is kept, not the first.                       *)
CaptureLast(seen) ==
  crash' = IF seen # <<>> THEN [pc |-> seen[1], valid |-> TRUE] ELSE crash

Capture(seen) ==
  crash' = IF seen # <<>> /\ ~crash.valid THEN [pc |-> seen[1], valid |-> TRUE]
           ELSE crash

(* One clock edge out of power-on reset: the system reset, the pins, the   *)
(* register written and <<pc>> of the cycle's double fault, or <<>>.       *)
Edge(rst_ni, pins, op, seen) ==
  /\ boot_bank' = [r \in Copy |-> boot_n(rst_ni)]
  /\ boot_sync' = <<pins, boot_sync[1]>>
  /\ brpt_q'  = IF op.reg = "brpt"  THEN op.num ELSE brpt_q
  /\ epoch_q' = IF op.reg = "epoch" THEN op.num ELSE epoch_q
  /\ Capture(seen)

(* Upsets.  One in a replica of the protected word, of which at most one   *)
(* is struck between two edges;                                            *)
UpsetBank ==
  /\ \E r \in Copy, w \in BootStruck :
       /\ w # boot_bank[r]
       /\ boot_bank' = [boot_bank EXCEPT ![r] = w]
  /\ UNCHANGED <<boot_sync, brpt_q, epoch_q, crash>>

(* and one in the state the block does not protect: a synchroniser flop of *)
(* a pin,                                                                  *)
UpsetSync ==
  /\ \E k \in 1 .. 2 :
       \/ boot_sync' = [boot_sync EXCEPT ![k].wdis = ~@]
       \/ \E s \in Straps \union {NoStrap} :
            /\ s # boot_sync[k].strap
            /\ boot_sync' = [boot_sync EXCEPT ![k].strap = s]
  /\ UNCHANGED <<boot_bank, brpt_q, epoch_q, crash>>

(* or the report, the epoch, the crash address or its valid flag.          *)
UpsetRecords ==
  /\ \/ /\ \E x \in Reports \union {NoReport} : x # brpt_q /\ brpt_q' = x
        /\ UNCHANGED <<epoch_q, crash>>
     \/ /\ \E x \in Reports \union {NoReport} : x # epoch_q /\ epoch_q' = x
        /\ UNCHANGED <<brpt_q, crash>>
     \/ /\ \/ crash' = [crash EXCEPT !.valid = ~@]
           \/ \E pc \in Pcs \union {NoPc} :
                pc # crash.pc /\ crash' = [crash EXCEPT !.pc = pc]
        /\ UNCHANGED <<brpt_q, epoch_q>>
  /\ UNCHANGED <<boot_bank, boot_sync>>

BootTypeOK ==
  /\ boot_bank \in [Copy -> BootWord]
  /\ boot_sync \in [1 .. 2 -> Pins]
  /\ brpt_q \in Reports \union {NoReport}
  /\ epoch_q \in Reports \union {NoReport}
  /\ crash \in Crash
=============================================================================
