------------------------------ MODULE FiRecord ------------------------------
(***************************************************************************)
(* One simulation's RECORD and what a campaign of hw/soc/fi concludes from *)
(* it: campaign.py (the core), npu_campaign.py (the NPU connection) and    *)
(* mem_campaign.py (the memories).  A record says whether the program      *)
(* finished, its answer, and which channels moved:                         *)
(*   done, end      the run finished; a complete RECORD was printed        *)
(*   out            the answer's words other than the next two             *)
(*   mask, exit     the program's own failed self-checks, its exit code    *)
(*   wdog           the watchdog stages reached, a subset of {1, 2, 3}     *)
(*   traps, alert   traps taken, an Ibex alert pin raised                  *)
(*   npu            the NPU telemetry that is not as in a clean run        *)
(*   moved          the protection mechanisms' counters that moved         *)
(*   busy           the NPU blocks that were working when the bit flipped  *)
(*   deposit        what the injector did with the requested flip          *)
(***************************************************************************)
EXTENDS Naturals, FiniteSets

(* parse_record and Runner.run: a simulation without the closing line is   *)
(* an exception of the campaign, never a record.                           *)
Complete(rec) == rec.end

answer(rec)       == <<rec.out, rec.mask, rec.exit>>
completed(rec)    == rec.done
wdog_fired(rec)   == rec.wdog # {}
wdog_stage(rec)   == IF rec.wdog = {} THEN 0 ELSE CHOOSE s \in rec.wdog : \A t \in rec.wdog : t <= s
sw_flagged(rec, golden) == rec.mask # golden.mask \/ rec.exit # golden.exit
trap_seen(rec, golden)  == rec.traps > golden.traps
alert_seen(rec)   == rec.alert

(* The channels that announce an upset, in the core and memory campaigns.  *)
Announced(rec, golden) ==
     (IF wdog_fired(rec) THEN {"wdog"} ELSE {})
\cup (IF sw_flagged(rec, golden) THEN {"sw"} ELSE {})
\cup (IF trap_seen(rec, golden) THEN {"trap"} ELSE {})
\cup (IF alert_seen(rec) THEN {"alert"} ELSE {})

(* Variant: the silent kinds are told apart before the announcements.      *)
Class_answer_first(done, announced, right, corrected) ==
  CASE ~done /\ announced = {}  -> "HANG"
    [] done /\ ~right           -> "SDC"
    [] ~done /\ announced # {}  -> "DETECTED"
    [] done /\ right /\ announced # {} -> "DETECTED"
    [] done /\ announced = {} /\ right /\ corrected  -> "CORRECTED"
    [] done /\ announced = {} /\ right /\ ~corrected -> "MASKED"

(* The chain of all three classifiers.                                     *)
Class(done, announced, right, corrected) ==
  CASE ~done /\ announced = {}                            -> "HANG"
    [] announced # {}                                     -> "DETECTED"
    [] done /\ announced = {} /\ ~right                   -> "SDC"
    [] done /\ announced = {} /\ right /\ corrected       -> "CORRECTED"
    [] done /\ announced = {} /\ right /\ ~corrected      -> "MASKED"

Verdict(cls, right, rec, announced, facts) ==
  [cls |-> cls, out_ok |-> right, done |-> rec.done, ann |-> announced,
   stage |-> wdog_stage(rec), moved |-> rec.moved, busy |-> rec.busy,
   facts |-> facts]

-----------------------------------------------------------------------------
(* campaign.py                                                             *)
corrected(rec)     == "rf_sec" \in rec.moved
uncorrectable(rec) == "rf_ded" \in rec.moved

classify(rec, golden) ==
  LET ann   == Announced(rec, golden)
      right == completed(rec) /\ answer(rec) = answer(golden)
  IN  Verdict(Class(completed(rec), ann, right, corrected(rec)), right, rec, ann, {})

-----------------------------------------------------------------------------
(* npu_campaign.py: the golden model is a second oracle.  The mask's bits  *)
(* "len", "stream" and "state" are the model check; the answer also holds  *)
(* the block's telemetry, but not its interrupt line.                      *)
npu_answer(rec) == <<answer(rec), rec.npu \ {"irq"}>>

model_wrong(rec) == rec.mask \cap {"len", "stream", "state"} # {}
model_state_only(rec) ==
  "state" \in rec.mask /\ rec.mask \cap {"len", "stream"} = {}

npu_flagged(rec) == rec.npu # {}

npu_corrected(rec)       == "q_ptr_mm" \in rec.moved
detected_no_channel(rec) == rec.moved \cap {"q_par_err", "q_rv_mm"} # {}

npu_classify(rec, golden) ==
  LET ann   == Announced(rec, golden)
               \cup (IF npu_flagged(rec) THEN {"npu"} ELSE {})
      right == completed(rec) /\ npu_answer(rec) = npu_answer(golden)
      facts ==
             (IF model_wrong(rec) THEN {"model_wrong"} ELSE {})
        \cup (IF model_state_only(rec) THEN {"state_only"} ELSE {})
        \cup (IF rec.mask \cap {"len", "stream"} # {} THEN {"spikes_bad"} ELSE {})
        \cup (IF "state" \in rec.mask THEN {"state_bad"} ELSE {})
        \cup (IF npu_corrected(rec) THEN {"silent_corr"} ELSE {})
        \cup (IF detected_no_channel(rec) THEN {"silent_det"} ELSE {})
  IN  Verdict(Class(completed(rec), ann, right, npu_corrected(rec)), right, rec, ann, facts)

-----------------------------------------------------------------------------
(* mem_campaign.py                                                         *)
scrub_counts(rec) ==
  rec.moved \cap {"ramsec", "ramrd", "ramded", "romsec", "romrd", "romded"}

mem_classify(rec, golden) ==
  LET ann   == Announced(rec, golden)
      right == completed(rec) /\ answer(rec) = answer(golden)
      fixed == scrub_counts(rec) \cap {"ramsec", "ramrd", "romsec", "romrd"} # {}
      lost  == scrub_counts(rec) \cap {"ramded", "romded"} # {}
  IN  Verdict(Class(completed(rec), ann, right, fixed), right, rec, ann,
              IF lost THEN {"uncorrectable"} ELSE {})

-----------------------------------------------------------------------------
(* What refuses a deposit: it has to hit, inside the target, a known value *)
(* (and, for the NPU, queues filled with the sentinel), and to flip        *)
(* exactly the requested bit.                                              *)
DepositRefused(rec)     == rec.deposit \in {"missed", "outside", "other", "unknown"}
verify_deposit(rec)     == rec.deposit = "exact"
MemDepositRefused(rec)  == rec.deposit \in {"missed", "outside", "other", "unknown"}

(* What the machine did with no backstop.                                  *)
truth(disarmed) ==
  IF disarmed.out_ok THEN "OK" ELSE IF disarmed.done THEN "WRONG" ELSE "DEAD"
=============================================================================
