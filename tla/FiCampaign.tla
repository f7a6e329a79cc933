----------------------------- MODULE FiCampaign -----------------------------
(***************************************************************************)
(* A fault campaign of hw/soc/fi from its first simulation to its records  *)
(* file: campaign.py, npu_campaign.py and mem_campaign.py.  The controls   *)
(* run one after another and any of them may refuse the campaign; the plan *)
(* is then simulated by a pool of workers that finish in any order, each   *)
(* injection twice (watchdog armed and held off; once for the memories),   *)
(* and the results are consumed in plan order.  The core campaign verifies *)
(* its deposits after the whole pool, the NPU campaign in the worker and   *)
(* the memory campaign as each result is consumed.                         *)
(* A simulation is external: it prints any record of Records.  "odd" names *)
(* the further checks of a clean run that a record fails.                  *)
(***************************************************************************)
EXTENDS FiReport

CONSTANTS CoreSites, NpuSites,  \* the campaigns' site lists
          Regions,              \* the memory regions, of strata(..)
          Draws,                \* injections per stratum
          Window,               \* the measured injection window
          Workers,              \* size of the pool
          Tries,                \* functions tried by the memory's control 3
          Records,              \* what a simulation of the plan may print
          ControlRecords,       \* what a simulation of a control may print
          Dumps,                \* what the bench may say of its sites
          Directed              \* the injections of earlier records files

(* Lists are finite; the bench says one of these of a deposit.             *)
Deposits == {"exact", "missed", "outside", "other", "unknown"}
ASSUME FiAssumption ==
  /\ CoreSites \in Seq([stratum : STRING, width : Nat])
  /\ NpuSites \in Seq([stratum : STRING, width : Nat])
  /\ IsFiniteSet(Regions) /\ Draws \in Nat /\ Workers \in Nat /\ Tries \in Nat
  /\ \A want \in Directed : want \in Seq(Range(want))
  /\ \A rec \in Records : rec.done \in BOOLEAN /\ rec.deposit \in Deposits

VARIABLES campaign,  \* "core", "npu" or "mem"
          mode,      \* "full" or "directed"
          phase,     \* "controls", "pool", "draining", "verify", "ended"
          todo,      \* the controls still to run
          golden,    \* the clean run's record
          plan,      \* the injections, in order
          started,   \* injections handed to a worker
          finished,  \* results by injection
          taken,     \* results consumed
          rows,      \* the rows classified so far
          file,      \* the records file: "old", "truncated" or "new" (the rows)
          outcome    \* "none", "refused", "crashed" or "reported"

fi_vars == <<campaign, mode, phase, todo, golden, plan, started, finished,
             taken, rows, file, outcome>>

-----------------------------------------------------------------------------
(* Controls, in the order of main.  A control says whether a record (or    *)
(* the bench's dump) refuses the campaign.                                 *)
SitesRefused(sites, dump) ==
  \/ dump.count # Len(sites)
  \/ \E line \in dump.lines : line[2] # sites[line[1]]

CleanRefused(rec) ==
  \/ ~completed(rec) \/ rec.mask # {} \/ rec.exit # 0
  \/ wdog_fired(rec) \/ rec.traps > 0 \/ alert_seen(rec)

core_clean_refused(rec) ==
  \/ CleanRefused(rec)
  \/ rec.odd \cap {"magic", "framing", "window", "cadence"} # {}
  \/ corrected(rec) \/ uncorrectable(rec)

npu_clean_refused(rec) ==
  \/ CleanRefused(rec)
  \/ rec.odd \cap {"magic", "framing", "window", "spins"} # {}
  \/ npu_flagged(rec) \/ npu_corrected(rec) \/ detected_no_channel(rec)
  \/ "fetch_er" \in rec.moved

mem_clean_refused(rec) == CleanRefused(rec) \/ scrub_counts(rec) # {}

NotReproduced(rec) == answer(rec) # answer(golden) \/ "cycles" \in rec.odd

(* What a run needs: the latest injection still sees a full ladder.        *)
budget(cycles, win_close, ladder) ==
  LET long == 2 * cycles + 6 * ladder  need == win_close + 4 * ladder + cycles
  IN  IF long < need THEN need ELSE long

core_control(c, rec) ==
  CASE c = "clean"    -> core_clean_refused(rec)
    [] c = "again"    -> NotReproduced(rec)
    [] c = "disarmed" -> answer(rec) # answer(golden)
    [] c = "positive" -> rec.deposit = "missed" \/ classify(rec, golden).cls = "MASKED"
    [] c = "negative" -> FALSE

(* Replica A of the cause bank: the vote masks the flip, and says so.      *)
tmr_refused(rec) ==
  \/ ~verify_deposit(rec)
  \/ model_wrong(rec) \/ rec.out # golden.out
  \/ "cause" \notin rec.npu
  \/ {"tmr_ev", "bst_tmr"} \ rec.moved # {}

npu_control(c, rec) ==
  CASE c = "clean"    -> npu_clean_refused(rec)
    [] c = "again"    -> \/ npu_answer(rec) # npu_answer(golden)
                         \/ "cycles" \in rec.odd
    [] c = "disarmed" -> npu_answer(rec) # npu_answer(golden) \/ "kicks" \in golden.odd
    [] c = "positive" -> \/ "enable" \in golden.odd \/ ~verify_deposit(rec)
                         \/ npu_classify(rec, golden).cls = "MASKED"
    [] c = "tmr"      -> tmr_refused(rec)
    [] c = "die"      -> ~verify_deposit(rec)
    [] c = "negative" -> ~verify_deposit(rec)

(* Every replicated target is the replicas' own storage.                   *)
replicas_refused(dump) == dump.voted_wire

(* The hardened build: the first candidate the build reacts to has to have *)
(* been corrected on the fetch.                                            *)
mem_control(c, rec) ==
  CASE c = "clean"    -> mem_clean_refused(rec)
    [] c = "again"    -> answer(rec) # answer(golden)
    [] c = "positive" -> \/ MemDepositRefused(rec)
                         \/ mem_classify(rec, golden).cls \notin {"MASKED", "CORRECTED"}
    [] c = "negative" -> FALSE

ControlRefuses(c, rec) ==
  CASE campaign = "core" -> core_control(c, rec)
    [] campaign = "npu"  -> npu_control(c, rec)
    [] campaign = "mem"  -> mem_control(c, rec)

Controls ==
  [core |-> <<"sites", "clean", "again", "disarmed", "positive", "negative">>,
   npu  |-> <<"sites", "clean", "again", "disarmed", "positive", "tmr", "die", "negative">>,
   mem  |-> <<"clean", "again">> \o [k \in 1 .. Tries |-> "positive"]
              \o <<"negative">>]
CampaignSites == IF campaign = "core" THEN CoreSites ELSE NpuSites

-----------------------------------------------------------------------------
(* The memory's strata are its regions; word and bit are drawn.            *)
mem_draws(region, n, window) ==
  [k \in 1 .. n |->
     [stratum |-> region, site |-> region,
      word  |-> region.lo + Seeded(region, k, region.hi + 1 - region.lo),
      bit   |-> (IF region.chk THEN 32 ELSE 0)
                + Seeded(region, k, IF region.chk /\ region.mem = "ROM" THEN 7 ELSE 32),
      cycle |-> window[1] + Seeded(region, k, window[2] - window[1])]]

(* The strata in the order of their first site, the regions in theirs.     *)
Plan ==
  IF campaign = "mem"
  THEN FlattenSeq([k \in 1 .. Cardinality(Regions) |->
                     mem_draws(SetToSeq(Regions)[k], Draws, Window)])
  ELSE LET first(s) == CHOOSE k \in stratum_sites(CampaignSites, s) :
                         \A j \in stratum_sites(CampaignSites, s) : k <= j
           before(s) == {t \in STRATA(CampaignSites) : first(t) < first(s)}
           nth(k) == CHOOSE s \in STRATA(CampaignSites) : Cardinality(before(s)) = k - 1
       IN  FlattenSeq([k \in 1 .. Cardinality(STRATA(CampaignSites)) |->
                         draws(CampaignSites, nth(k), Draws, Window)])

FiInit ==
  /\ campaign \in {"core", "npu", "mem"}
  /\ mode \in IF campaign = "mem" THEN {"full"} ELSE {"full", "directed"}
  /\ phase = "controls"
  /\ todo = Controls[campaign]
  /\ golden = CHOOSE rec \in ControlRecords : TRUE
  /\ plan = <<>>
  /\ started = 0 /\ finished = <<>> /\ taken = 0
  /\ rows = <<>> /\ file = "old" /\ outcome = "none"

End(o) == phase' = "ended" /\ outcome' = o

(* The next control runs one simulation (the site list is dumped by one).  *)
SiteControl ==
  /\ phase = "controls" /\ todo # <<>> /\ Head(todo) = "sites"
  /\ \E dump \in Dumps :
       IF \/ SitesRefused(CampaignSites, dump)
          \/ campaign = "npu" /\ replicas_refused(dump)
       THEN End("refused") /\ UNCHANGED todo
       ELSE todo' = Tail(todo) /\ UNCHANGED <<phase, outcome>>
  /\ UNCHANGED <<campaign, mode, golden, plan, started, finished, taken, rows, file>>

(* A candidate of the memory's control 3 that classifies MASKED was not    *)
(* fetched: the next one is tried, and none left refuses the campaign.     *)
Control ==
  /\ phase = "controls" /\ todo # <<>> /\ Head(todo) # "sites"
  /\ \E rec \in ControlRecords :
       /\ golden' = IF Head(todo) = "clean" THEN rec ELSE golden
       /\ LET c      == Head(todo)
              missed == /\ campaign = "mem" /\ c = "positive"
                        /\ mem_classify(rec, golden).cls = "MASKED"
              rest   == IF campaign = "mem" /\ c = "positive" /\ ~missed
                        THEN SelectSeq(todo, LAMBDA t : t # "positive")
                        ELSE Tail(todo)
          IN  IF \/ ~Complete(rec) \/ ControlRefuses(c, rec)
                 \/ missed /\ Head(rest) # "positive"
              THEN End("refused") /\ UNCHANGED todo
              ELSE todo' = rest /\ UNCHANGED <<phase, outcome>>
  /\ UNCHANGED <<campaign, mode, plan, started, finished, taken, rows, file>>

(* --directed re-runs the injections of an earlier file, verbatim, if      *)
(* every path of theirs is one of this build's.                            *)
DrawPlan ==
  /\ phase = "controls" /\ todo = <<>> /\ mode = "full"
  /\ plan' = Plan /\ phase' = "pool"
  /\ UNCHANGED <<campaign, mode, todo, golden, started, finished, taken, rows, file, outcome>>

DirectedPlan ==
  /\ phase = "controls" /\ todo = <<>> /\ mode = "directed"
  /\ \E want \in Directed :
       IF \E k \in DOMAIN want : want[k].site \notin DOMAIN CampaignSites
       THEN End("refused") /\ UNCHANGED plan
       ELSE plan' = want /\ phase' = "pool" /\ UNCHANGED outcome
  /\ UNCHANGED <<campaign, mode, todo, golden, started, finished, taken, rows, file>>

-----------------------------------------------------------------------------
(* The pool.  Jobs start in plan order, at most Workers at a time, and     *)
(* finish in any order; "failed" is an exception kept in the future.       *)
Running == {k \in 1 .. started : k \notin DOMAIN finished}

Start ==
  /\ phase = "pool" /\ started < Len(plan) /\ Cardinality(Running) < Workers
  /\ started' = started + 1
  /\ UNCHANGED <<campaign, mode, phase, todo, golden, plan, finished, taken, rows, file, outcome>>

Result(a, d) ==
  IF \/ ~Complete(a) \/ ~Complete(d)
     \/ (campaign = "npu" /\ ~(verify_deposit(a) /\ verify_deposit(d)))
  THEN [failed |-> TRUE] ELSE [failed |-> FALSE, armed |-> a, disarmed |-> d]

Finish(k) ==
  /\ phase \in {"pool", "draining"} /\ k \in Running
  /\ \E a \in Records, d \in Records :
       /\ campaign = "mem" => d = a
       /\ finished' = [j \in DOMAIN finished \cup {k} |->
                         IF j = k THEN Result(a, d) ELSE finished[j]]
  /\ UNCHANGED <<campaign, mode, phase, todo, golden, plan, started, taken, rows, file, outcome>>

(* ex.map yields in plan order: the result after the last one taken.       *)
Next_result == taken + 1

(* Taking a failed result leaves the loop; so does, for the memories, a    *)
(* deposit that did not land.  Leaving it cancels what was not started,    *)
(* and the pool is left when its workers have drained.                     *)
Take ==
  /\ phase = "pool" /\ taken < Len(plan) /\ Next_result \in DOMAIN finished
  /\ LET r == finished[Next_result]
         bad == r.failed \/ (campaign = "mem" /\ MemDepositRefused(r.armed))
     IN  IF bad
         THEN phase' = "draining" /\ UNCHANGED <<taken, rows>>
         ELSE /\ taken' = taken + 1
              /\ rows' = IF campaign = "mem"
                         THEN Append(rows, mem_row(plan[taken + 1],
                                                   mem_classify(r.armed, golden)))
                         ELSE rows
              /\ UNCHANGED phase
  /\ UNCHANGED <<campaign, mode, todo, golden, plan, started, finished, file, outcome>>

(* Variant: the pool is left when every injection has been simulated.      *)
Drained_all ==
  /\ phase = "draining" /\ Running = {} /\ started = Len(plan)
  /\ End("refused")
  /\ UNCHANGED <<campaign, mode, todo, golden, plan, started, finished, taken, rows, file>>
Drained ==
  /\ phase = "draining" /\ Running = {}
  /\ End("refused")
  /\ UNCHANGED <<campaign, mode, todo, golden, plan, started, finished, taken, rows, file>>

(* The rows of the core and NPU campaigns, after the whole pool.           *)
Row(k) ==
  IF campaign = "core"
  THEN core_row(plan[k], classify(finished[k].armed, golden),
                classify(finished[k].disarmed, golden))
  ELSE npu_row(plan[k], npu_classify(finished[k].armed, golden),
               npu_classify(finished[k].disarmed, golden))

(* Variant: only the armed run's deposit is verified.                      *)
Unverified_armed ==
  {k \in DOMAIN plan : campaign = "core" /\ DepositRefused(finished[k].armed)}
Unverified ==
  {k \in DOMAIN plan : /\ campaign = "core"
                       /\ \/ DepositRefused(finished[k].armed)
                          \/ DepositRefused(finished[k].disarmed)}

Classify ==
  /\ phase = "pool" /\ taken = Len(plan)
  /\ IF Unverified # {}
     THEN End("refused") /\ UNCHANGED rows
     ELSE /\ rows' = IF campaign = "mem" THEN rows ELSE [k \in DOMAIN plan |-> Row(k)]
          /\ phase' = "verify" /\ UNCHANGED outcome
  /\ UNCHANGED <<campaign, mode, todo, golden, plan, started, finished, taken, file>>

(* The file is opened, and truncated, before its header is taken from the  *)
(* first row.                                                              *)
Write ==
  /\ phase = "verify"
  /\ IF rows = <<>> THEN file' = "truncated" /\ End("crashed")
                    ELSE file' = "new" /\ End("reported")
  /\ UNCHANGED <<campaign, mode, todo, golden, plan, started, finished, taken, rows>>

FiNext ==
  \/ SiteControl \/ Control \/ DrawPlan \/ DirectedPlan
  \/ Start \/ (\E k \in Running : Finish(k)) \/ Take \/ Drained \/ Classify \/ Write

FiSpec == FiInit /\ [][FiNext]_fi_vars

-----------------------------------------------------------------------------
FiTypeOK ==
  /\ campaign \in {"core", "npu", "mem"} /\ mode \in {"full", "directed"}
  /\ phase \in {"controls", "pool", "draining", "verify", "ended"}
  /\ 0 <= taken /\ taken <= started /\ started <= Len(plan)
  /\ DOMAIN finished \subseteq 1 .. started /\ Cardinality(Running) <= Workers
  /\ file \in {"old", "truncated", "new"}
  /\ (outcome = "none") = (phase # "ended")

(* A records file holds one row for every injection of the plan, in the    *)
(* plan's order whatever order the workers finished in, and every row's    *)
(* simulations flipped exactly the bit the plan asked for.  A campaign     *)
(* that was refused, by a control or by a deposit, writes no file.         *)
Landed(k) ==
  /\ ~finished[k].failed /\ finished[k].armed.deposit = "exact"
  /\ campaign # "mem" => finished[k].disarmed.deposit = "exact"
EvidenceVerified ==
  /\ file = "new" => /\ Len(rows) = Len(plan)
                     /\ \A k \in DOMAIN plan : rows[k].item = plan[k] /\ Landed(k)
  /\ outcome = "refused" => file = "old"

(* The five classes and the three truths of a row tell one story: what is  *)
(* silent was announced by no channel, the disarmed class fixes the truth  *)
(* unless something announced the upset, and an inference the golden model *)
(* calls wrong is never masked, corrected or silent to the program.        *)
VerdictsCoherent ==
  campaign \in {"core", "npu"} => \A k \in DOMAIN rows :
    LET r == rows[k]
    IN  /\ r.armed \in {"SDC", "CORRECTED", "MASKED", "HANG"}
              => r.flags \cap {"wdog", "sw", "trap", "alert", "npu"} = {}
        /\ r.armed \in {"CORRECTED", "MASKED"} => "armed_out_ok" \in r.flags
        /\ r.disarmed # "DETECTED" =>
             r.truth = CASE r.disarmed \in {"MASKED", "CORRECTED"} -> "OK"
                         [] r.disarmed = "SDC"  -> "WRONG"
                         [] r.disarmed = "HANG" -> "DEAD"
        /\ "model_wrong" \in r.flags => r.armed = "DETECTED" /\ "sw" \in r.flags

(* The report printed from the saved records file is the report printed    *)
(* at the end of the campaign.                                             *)
ReplayAgrees ==
  file = "new" /\ mode = "full" =>
    /\ campaign = "core" =>
         core_report(core_replay(rows), CoreSites) = core_report(rows, CoreSites)
    /\ campaign = "npu" =>
         npu_report(npu_replay(rows), NpuSites) = npu_report(rows, NpuSites)

(* Every campaign ends, with a report or a refusal.                        *)
CampaignEnds == <>(phase = "ended")
=============================================================================
