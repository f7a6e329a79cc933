----------------------------- MODULE GlCampaign -----------------------------
(***************************************************************************)
(* The campaigns on the mapped netlist: gl_campaign.py run, sweep and wdog,*)
(* and gl_gated.py golden, campaign and direct.  Their plans are those of  *)
(* GlMap; an item here is the flip-flop it forces, its place in the        *)
(* sorted records file and whether it is run armed as well.  Unlike the    *)
(* RTL campaigns a force is judged as its result is consumed, and inside   *)
(* the gated clock domains one that could not land is counted, not refused.*)
(***************************************************************************)
EXTENDS FiRecord, Sequences, SequencesExt

CONSTANTS Plans,             \* campaign -> its plan
          Flops,             \* flip-flops the netlist parse lists
          Counts,            \* flip-flops the bench may have elaborated
          RtlAnswer,         \* what the RTL clean run published
          GlRecords,         \* what a simulation of the plan may print
          GlControlRecords,  \* what a simulation of a control may print
          GlWorkers          \* size of the pool

(* A plan is a list, and what the replay sorts by is ordered.              *)
GlAssumption ==
  /\ \A c \in {"run", "sweep", "wdog", "gated", "direct"} :
       Plans[c] \in Seq(Range(Plans[c]))
  /\ \A k \in DOMAIN Plans["run"] : Plans["run"][k].rank \in Nat

VARIABLES campaign, phase, todo, golden, plan, started, finished, taken, rows,
          file, outcome

gl_vars == <<campaign, phase, todo, golden, plan, started, finished, taken,
             rows, file, outcome>>

GlCampaigns == {"run", "sweep", "wdog", "gated", "direct"}

(* The direct test takes the clean run's log as it is.                     *)
GlControls(c) ==
  CASE c \in {"run", "sweep", "wdog"} ->
         <<"sites", "clean", "again", "disarmed", "positive", "negative">>
    [] c = "gated"  -> <<"sites", "clean", "again", "disarmed">>
    [] c = "direct" -> <<>>

Loud(rec) == \/ wdog_fired(rec) \/ rec.traps > 0 \/ alert_seen(rec)
             \/ "framing" \in rec.odd
gl_clean_refused(rec) ==
  \/ ~completed(rec) \/ rec.mask # {} \/ rec.exit # 0 \/ "magic" \in rec.odd
  \/ Loud(rec) \/ answer(rec) # RtlAnswer
  \/ rec.moved \cap {"rf_sec", "rf_ded"} # {}
gated_clean_refused(rec) == ~completed(rec) \/ Loud(rec) \/ answer(rec) # RtlAnswer

gl_controls(c, rec) ==
  CASE c = "clean"    -> IF campaign = "gated" THEN gated_clean_refused(rec)
                                               ELSE gl_clean_refused(rec)
    [] c = "again"    -> answer(rec) # answer(golden) \/ "cycles" \in rec.odd
    [] c = "disarmed" -> answer(rec) # answer(golden)
    [] c = "positive" -> rec.deposit # "exact" \/ classify(rec, golden).cls = "MASKED"
    [] c = "negative" -> FALSE

GlInit ==
  /\ campaign \in GlCampaigns /\ phase = "controls"
  /\ todo = GlControls(campaign)
  /\ golden = CHOOSE rec \in GlControlRecords : TRUE
  /\ plan = <<>> /\ started = 0 /\ finished = <<>> /\ taken = 0
  /\ rows = <<>> /\ file = "old" /\ outcome = "none"

GlEnd(o) == phase' = "ended" /\ outcome' = o

GlSiteControl ==
  /\ phase = "controls" /\ todo # <<>> /\ Head(todo) = "sites"
  /\ \E count \in Counts :
       IF count # Flops THEN GlEnd("refused") /\ UNCHANGED todo
       ELSE todo' = Tail(todo) /\ UNCHANGED <<phase, outcome>>
  /\ UNCHANGED <<campaign, golden, plan, started, finished, taken, rows, file>>

(* The gated campaign classifies against the run with the watchdog held    *)
(* off, the others against the armed one.                                  *)
GlControl ==
  /\ phase = "controls" /\ todo # <<>> /\ Head(todo) # "sites"
  /\ \E rec \in GlControlRecords :
       LET c == Head(todo)
       IN  IF ~Complete(rec) \/ gl_controls(c, rec)
           THEN GlEnd("refused") /\ UNCHANGED <<todo, golden>>
           ELSE /\ todo' = Tail(todo)
                /\ golden' = IF c = "clean" \/ (c = "disarmed" /\ campaign = "gated")
                             THEN rec ELSE golden
                /\ UNCHANGED <<phase, outcome>>
  /\ UNCHANGED <<campaign, plan, started, finished, taken, rows, file>>

GlPlan ==
  /\ phase = "controls" /\ todo = <<>>
  /\ IF campaign = "wdog" /\ "wd_shadow" \notin golden.moved
     THEN GlEnd("refused") /\ UNCHANGED plan
     ELSE plan' = Plans[campaign] /\ phase' = "pool" /\ UNCHANGED outcome
  /\ UNCHANGED <<campaign, todo, golden, started, finished, taken, rows, file>>

(* The pool, as in FiCampaign; runs of an item are made by one worker.     *)
GlRunning == {k \in 1 .. started : k \notin DOMAIN finished}
Arms(item) ==
  CASE campaign = "wdog" -> {"armed"}
    [] campaign = "run"  -> {"disarmed"} \cup (IF item.armed THEN {"armed"} ELSE {})
    [] campaign \in {"sweep", "gated", "direct"} -> {"disarmed"}

GlStart ==
  /\ phase = "pool" /\ started < Len(plan) /\ Cardinality(GlRunning) < GlWorkers
  /\ started' = started + 1
  /\ UNCHANGED <<campaign, phase, todo, golden, plan, finished, taken, rows, file, outcome>>

job(k, recs) ==
  [failed |-> \E arm \in DOMAIN recs : ~Complete(recs[arm]), recs |-> recs]
GlFinish(k) ==
  /\ phase \in {"pool", "draining"} /\ k \in GlRunning
  /\ \E recs \in [Arms(plan[k]) -> GlRecords] :
       finished' = [j \in DOMAIN finished \cup {k} |->
                      IF j = k THEN job(k, recs) ELSE finished[j]]
  /\ UNCHANGED <<campaign, phase, todo, golden, plan, started, taken, rows, file, outcome>>

-----------------------------------------------------------------------------
(* A run the vote corrected is not masked: the voted word counted, or a    *)
(* replica was seen to differ.  The direct test gives no class.            *)
wdog_class(cls, moved) == IF cls = "MASKED" /\ moved THEN "CORRECTED" ELSE cls

Verdicts(recs) ==
  [arm \in DOMAIN recs |->
     LET v == classify(recs[arm], golden)
     IN  [cls |-> IF campaign = "wdog" THEN wdog_class(v.cls, "wd_tmr" \in recs[arm].moved)
                  ELSE v.cls,
          truth |-> truth(v)]]

(* Refused: the result ends the campaign.  Skipped: a flip-flop that held  *)
(* an unknown value, or that the force left as it was, inside a domain     *)
(* whose clock may be stopped.                                             *)
GlRefused(r) ==
  \/ r.failed
  \/ \E arm \in DOMAIN r.recs : /\ r.recs[arm].deposit # "exact"
                                /\ campaign = "gated" => r.recs[arm].deposit = "missed"
Skipped(r) == \E arm \in DOMAIN r.recs : r.recs[arm].deposit # "exact"

GlTake ==
  /\ phase = "pool" /\ taken < Len(plan) /\ taken + 1 \in DOMAIN finished
  /\ LET r == finished[taken + 1]
     IN  CASE GlRefused(r) -> phase' = "draining" /\ UNCHANGED <<taken, rows, file>>
           [] ~GlRefused(r) /\ Skipped(r) ->
                taken' = taken + 1 /\ UNCHANGED <<phase, rows, file>>
           [] ~GlRefused(r) /\ ~Skipped(r) ->
                /\ taken' = taken + 1
                /\ rows' = Append(rows, [item |-> plan[taken + 1], of |-> taken + 1,
                                         verdicts |-> IF campaign = "direct" THEN <<>>
                                                      ELSE Verdicts(r.recs)])
                /\ file' = IF campaign = "gated" THEN "new" ELSE file
                /\ UNCHANGED phase
  /\ UNCHANGED <<campaign, todo, golden, plan, started, finished, outcome>>

GlDrained ==
  /\ phase = "draining" /\ GlRunning = {} /\ GlEnd("refused")
  /\ UNCHANGED <<campaign, todo, golden, plan, started, finished, taken, rows, file>>

(* The sort of the replay's records is stable: equal ranks stay in the     *)
(* order they are in.                                                      *)
Sorts(place) ==
  LET rank(i) == rows[place[i]].item.rank
  IN  \A i, j \in DOMAIN rows : i < j =>
        rank(i) < rank(j) \/ (rank(i) = rank(j) /\ place[i] < place[j])

(* The replay's records are sorted; every file is opened before its header *)
(* is taken from its first row.                                            *)
GlWrite ==
  /\ phase = "pool" /\ taken = Len(plan)
  /\ IF rows = <<>> THEN file' = "truncated" /\ GlEnd("crashed") /\ UNCHANGED rows
     ELSE /\ file' = "new" /\ GlEnd("reported")
          /\ IF campaign = "run"
             THEN \E place \in Bijection(DOMAIN rows, DOMAIN rows) :
                    Sorts(place) /\ rows' = [i \in DOMAIN rows |-> rows[place[i]]]
             ELSE UNCHANGED rows
  /\ UNCHANGED <<campaign, todo, golden, plan, started, finished, taken>>

GlNext ==
  \/ GlSiteControl \/ GlControl \/ GlPlan \/ GlStart
  \/ (\E k \in GlRunning : GlFinish(k)) \/ GlTake \/ GlDrained \/ GlWrite

GlSpec == GlInit /\ [][GlNext]_gl_vars

-----------------------------------------------------------------------------
(* A records file on disk never holds a row whose force did not flip its   *)
(* flip-flop, nor two rows of one item; a reported campaign has a row of   *)
(* every force that landed, and only inside the gated domains are there    *)
(* others; a refused campaign leaves the earlier file, except the gated    *)
(* one, whose file is then the rows so far.                                *)
GlLanded(k) ==
  /\ k \in DOMAIN finished /\ ~finished[k].failed
  /\ \A arm \in DOMAIN finished[k].recs : finished[k].recs[arm].deposit = "exact"
GlEvidence ==
  /\ file = "new" =>
       /\ \A j \in DOMAIN rows : /\ GlLanded(rows[j].of) /\ plan[rows[j].of] = rows[j].item
                                 /\ \A i \in DOMAIN rows : rows[i].of = rows[j].of => i = j
       /\ outcome = "reported" =>
            /\ {rows[j].of : j \in DOMAIN rows} = {k \in DOMAIN plan : GlLanded(k)}
            /\ campaign # "gated" => Len(rows) = Len(plan)
            /\ campaign = "run" => \A j \in 2 .. Len(rows) :
                                     rows[j - 1].item.rank <= rows[j].item.rank
  /\ outcome = "refused" /\ campaign # "gated" => file = "old"
=============================================================================
