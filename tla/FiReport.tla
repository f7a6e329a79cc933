------------------------------ MODULE FiReport ------------------------------
(***************************************************************************)
(* The records file of a campaign of hw/soc/fi and the report printed from *)
(* it.  A row is what records.csv keeps of one injection; the Boolean      *)
(* columns that are true are its "flags".  A report is the counts its      *)
(* tables print; percentages and intervals are functions of those counts.  *)
(***************************************************************************)
EXTENDS FiRecord, Sequences, SequencesExt, Functions

CONSTANT Seeded(_, _, _)  \* the seeded generator

(***************************************************************************)
(* What the three fault campaigns of hw/soc/fi may inject into, and how a  *)
(* draw picks one flip-flop: the site lists of targets.py (the core) and   *)
(* npu_targets.py (the NPU connection), the memory regions mem_campaign.py *)
(* reads from the workload's section headers, and the draws.  A site is    *)
(* its stratum and its width; its name and its hierarchical path are its   *)
(* place in the list.  The seeded generator is a parameter.                *)
(***************************************************************************)
Sites(stratum, widths) ==
  [k \in DOMAIN widths |-> [stratum |-> stratum, width |-> widths[k]]]
Copies(n, widths) == FlattenSeq([k \in 1 .. n |-> widths])

(* The core.  regfile: which register file the build contains.             *)
core_sites(regfile) ==
  FlattenSeq(<<
    Sites("regfile", Copies(31, <<32>>)),
    Sites("pc_fetch", <<32, 32, 2, 2, 1, 1>>),
    Sites("fetch_fifo", <<96, 31, 3, 3>>),
    Sites("if_id", <<32, 32, 32, 16, 16, 1, 1, 1, 2, 1, 1, 1>>),
    Sites("controller", <<4, 1, 1, 1, 1, 1, 1, 1, 1, 3>>),
    Sites("id_ctrl", <<1, 1, 1, 68>>),
    Sites("lsu", <<4, 32, 24, 2, 2, 1, 1, 1, 1, 1, 3, 1, 1>>),
    Sites("multdiv", <<3, 5, 32, 32, 1, 2>>),
    Sites("csr_trap", <<6, 32, 18, 32, 7, 32, 32, 3, 32, 7, 3, 8, 2>>),
    Sites("csr_pmp", Copies(4, <<6, 32>>) \o <<3>>),
    Sites("csr_cnt", <<64, 64, 3>>),
    Sites("csr_debug", Copies(4, <<32>>)),
    IF regfile = "secded"
    THEN Sites("regfile_ecc", Copies(31, <<8>>) \o <<5>>) ELSE <<>>,
    Sites("top_ctrl", <<4>>)>>)

(* The NPU connection.  NCAUSE and C_INJ_OVF are read out of soc_npu.v.    *)
Q_DEPTH == 8
Q_WIDTH == 16
Q_PW    == 4
PROT_W(ncause, c_sticky0) == 2 + (ncause - c_sticky0) + ncause

link_sites(ncause, c_sticky0) ==
  FlattenSeq(<<
    Sites("ser", <<2, 40, 32, 6, 2, 16, 8, 1, 1, 32, 1, 1, 1>>),
    Sites("die_ser", <<2, 2, 2, 1, 6, 32, 32, 1, 7, 1, 1>>),
    Sites("window", <<2, 1, 1, 7, 32, 1, 9, 1, 1, 32, 1, 1>>),
    Sites("cfgreg", Copies(3, <<PROT_W(ncause, c_sticky0)>>) \o <<1, 1>>)>>)
engine_sites ==
  FlattenSeq(<<
    Sites("ev_seq", <<4, 4, 1, 1, 7, 1, 1, 1, 12>>),
    Sites("ev_data", <<16, 16, 32>>),
    Sites("ev_cnt", <<16, 16>>),
    Sites("ev_pin", <<1, 1, 4>>),
    Sites("ev_oh", <<1, 16, 1, 1, 3>>),
    Sites("evq_data", Copies(2, Copies(Q_DEPTH, <<Q_WIDTH>>) \o <<Q_DEPTH, Q_WIDTH>>)),
    Sites("evq_ptr", Copies(2, Copies(6, <<Q_PW>>) \o <<1, 1>>) \o <<8, 8>>)>>)
npu_sites(ncause, c_sticky0) == link_sites(ncause, c_sticky0) \o engine_sites

FROZEN         == {"die_ser"}
ENGINE_STRATA  == {"ev_seq", "ev_data", "ev_cnt", "ev_pin", "ev_oh"}

(* Strata in the order of their first site; a stratum's sites and bits.    *)
STRATA(sites) == ToSet([k \in DOMAIN sites |-> sites[k].stratum])
stratum_sites(sites, stratum) == {k \in DOMAIN sites : sites[k].stratum = stratum}
stratum_bits(sites, stratum) ==
  SumFunctionOnSet([k \in DOMAIN sites |-> sites[k].width],
                   stratum_sites(sites, stratum))

(* The two macros the bench includes: deposit k flips the requested bits   *)
(* of site k and of nothing else, and the dump names every site.           *)
emit_vh(sites) ==
  [deposit |-> [k \in DOMAIN sites |-> k], count |-> Len(sites),
   dump |-> {<<k, sites[k]>> : k \in DOMAIN sites}]

-----------------------------------------------------------------------------
(* Variant: a draw is uniform over sites, and every bit is below the       *)
(* narrowest width.                                                        *)
chosen_last(sites, stratum, pick) ==
  LET below(k) == SumFunctionOnSet([j \in DOMAIN sites |-> sites[j].width],
                                   {j \in stratum_sites(sites, stratum) : j < k})
      k == CHOOSE k \in stratum_sites(sites, stratum) :
             pick <= below(k) + sites[k].width /\ pick >= below(k)
  IN  [site |-> k, bit |-> pick - below(k)]

(* Pick number "pick" of a stratum: uniform over its flip-flops.           *)
chosen(sites, stratum, pick) ==
  LET below(k) == SumFunctionOnSet([j \in DOMAIN sites |-> sites[j].width],
                                   {j \in stratum_sites(sites, stratum) : j < k})
      k == CHOOSE k \in stratum_sites(sites, stratum) :
             pick < below(k) + sites[k].width /\ pick >= below(k)
  IN  [site |-> k, bit |-> pick - below(k)]

(* n draws of a stratum inside the window: draw k is seeded by the stratum *)
(* and by k alone.  Seeded(stratum, k, n) is a number below n.             *)
draws(sites, stratum, n, window) ==
  [k \in 1 .. n |->
     LET at == chosen(sites, stratum,
                      Seeded(stratum, k, stratum_bits(sites, stratum)))
     IN  [stratum |-> stratum, site |-> at.site, bit |-> at.bit,
          cycle |-> window[1] + Seeded(stratum, k, window[2] - window[1])]]

-----------------------------------------------------------------------------
(* The memory campaign's regions.  secs: section name -> <<word offset of  *)
(* its first byte in its memory, bytes past it>>, in bytes from the base.  *)
RAM_WORDS   == 8192
ROM_WORDS   == 2048
STACK_WORDS == 256

(* What the link script places: .text at the reset vector, the vector      *)
(* table, .rodata; from the bottom of the RAM .data, .bss and a buffer of  *)
(* 64 bytes.  It leaves room for a stack, however small.                   *)
Linked(secs) ==
  LET end(name) == secs[name].addr + secs[name].size
  IN  /\ \A name \in {"text", "trapvec", "rodata", "data", "bss", "pmpbuf"} :
           secs[name].addr \in Nat /\ secs[name].size \in Nat
      /\ \A name \in {"rodata", "data", "bss"} :
           secs[name].addr % 4 = 0 /\ secs[name].size % 4 = 0
      /\ end("text") <= secs["trapvec"].addr /\ end("trapvec") <= secs["rodata"].addr
      /\ secs["trapvec"].addr % 256 = 0 /\ secs["trapvec"].size = 128
      /\ end("rodata") <= 4 * ROM_WORDS
      /\ end("data") <= secs["bss"].addr /\ end("bss") <= secs["pmpbuf"].addr
      /\ secs["pmpbuf"].addr % 64 = 0 /\ secs["pmpbuf"].size = 64
      /\ end("pmpbuf") <= 4 * RAM_WORDS

words(secs, name) ==
  [lo |-> secs[name].addr \div 4,
   hi |-> (secs[name].addr + secs[name].size + 3) \div 4 - 1]

strata(secs, hardened) ==
  LET text  == words(secs, "text")      vec == words(secs, "trapvec")
      ro    == words(secs, "rodata")    pmp == words(secs, "pmpbuf")
      data  == words(secs, "data")      bss == words(secs, "bss")
      d_lo  == IF data.lo < bss.lo THEN data.lo ELSE bss.lo
      d_hi  == IF bss.hi > data.hi THEN bss.hi ELSE data.hi
      region(mem, lo, hi, chk) == [mem |-> mem, lo |-> lo, hi |-> hi, chk |-> chk]
  IN  {region("ROM", text.lo, vec.hi, FALSE),
       region("ROM", ro.lo, ro.hi, FALSE),
       region("ROM", ro.hi + 1, ROM_WORDS - 1, FALSE),
       region("RAM", d_lo, d_hi, FALSE),
       region("RAM", pmp.lo, pmp.hi, FALSE),
       region("RAM", RAM_WORDS - STACK_WORDS, RAM_WORDS - 1, FALSE),
       region("RAM", pmp.hi + 1, RAM_WORDS - STACK_WORDS - 1, FALSE)}
      \cup (IF hardened
            THEN {region("RAM", d_lo, d_hi, TRUE), region("ROM", text.lo, vec.hi, TRUE)}
            ELSE {})

(* The bits a draw of a region may name, and the bit of the stored word,   *)
(* or of its check bits, that the deposit has to have flipped.             *)
mem_bits(region) ==
  IF ~region.chk THEN 0 .. 31
  ELSE IF region.mem = "RAM" THEN 32 .. 63 ELSE 32 .. 38
flipped(bit) == IF bit >= 32 THEN bit - 32 ELSE bit

-----------------------------------------------------------------------------
(* A draw is uniform over the flip-flops of its stratum: picks 0, 1, ...   *)
(* name every bit of every site once.                                      *)
DrawsUniform(sites) ==
  \A s \in STRATA(sites) :
    LET all == {[site |-> k, bit |-> b] : k \in stratum_sites(sites, s), b \in 0 .. 7}
        own == {x \in all : x.bit < sites[x.site].width}
        pick == [p \in 0 .. stratum_bits(sites, s) - 1 |-> chosen(sites, s, p)]
    IN  ToSet([p \in 1 .. stratum_bits(sites, s) |-> pick[p - 1]]) = own

(* Two data regions of one memory share no word, and none is empty.        *)
RegionsDisjoint(secs) ==
  \A a, b \in {r \in strata(secs, TRUE) : ~r.chk} :
    /\ a.lo <= a.hi
    /\ a # b /\ a.mem = b.mem => a.hi < b.lo \/ b.hi < a.lo
-----------------------------------------------------------------------------
CLASSES == {"MASKED", "CORRECTED", "SDC", "DETECTED", "HANG"}
TRUTHS  == {"OK", "WRONG", "DEAD"}

CORE_FLAGS == {"armed_out_ok", "disarmed_out_ok", "armed_done", "disarmed_done",
               "sw", "trap", "alert", "wdog"}
NPU_FLAGS  == CORE_FLAGS \cup {"npu", "model_wrong", "state_only", "spikes_bad",
                               "state_bad", "silent_corr", "silent_det", "frozen"}

(* One row from the verdicts of the armed and of the disarmed run.  The    *)
(* channels and facts are the armed run's.                                 *)
Outcomes(a, d) ==
     (IF a.out_ok THEN {"armed_out_ok"} ELSE {})
\cup (IF d.out_ok THEN {"disarmed_out_ok"} ELSE {})
\cup (IF a.done THEN {"armed_done"} ELSE {})
\cup (IF d.done THEN {"disarmed_done"} ELSE {})
\cup a.ann \cup a.facts

core_row(item, a, d) ==
  [item |-> item, stratum |-> item.stratum, site |-> item.site,
   armed |-> a.cls, disarmed |-> d.cls, truth |-> truth(d),
   flags |-> Outcomes(a, d), stage |-> a.stage, moved |-> a.moved, busy |-> {}]

npu_row(item, a, d) ==
  [item |-> item, stratum |-> item.stratum, site |-> item.site,
   armed |-> a.cls, disarmed |-> d.cls, truth |-> truth(d),
   flags |-> Outcomes(a, d) \cup (IF item.stratum \in FROZEN THEN {"frozen"} ELSE {}),
   stage |-> a.stage, moved |-> a.moved, busy |-> a.busy]

(* The memory campaign runs each injection once, armed.                    *)
mem_row(item, a) ==
  [item |-> item, stratum |-> item.stratum, cls |-> a.cls,
   flags |-> a.ann \cup a.facts, moved |-> a.moved]

(* --replay: a saved Boolean is a non-empty string, true unless the column *)
(* is converted back.                                                      *)
Replayed(rows, all, converted) ==
  [k \in DOMAIN rows |->
     [rows[k] EXCEPT !.flags = @ \cup (all \ converted)]]

core_replay(rows) ==
  Replayed(rows, CORE_FLAGS, {"armed_out_ok", "disarmed_out_ok", "armed_done",
                              "disarmed_done", "sw", "trap", "alert", "wdog"})

(* Variant: the list of columns without the frozen die's.                  *)
npu_replay_frozen_text(rows) == Replayed(rows, NPU_FLAGS, NPU_FLAGS \ {"frozen"})

npu_replay(rows) ==
  Replayed(rows, NPU_FLAGS,
           {"armed_out_ok", "disarmed_out_ok", "armed_done", "disarmed_done",
            "sw", "trap", "alert", "wdog", "npu", "model_wrong", "state_only",
            "spikes_bad", "state_bad", "silent_corr", "silent_det", "frozen"})

-----------------------------------------------------------------------------
(* The tables both reports print.  Sub is a set of row numbers.            *)
Of(rows, stratum) == {k \in DOMAIN rows : rows[k].stratum = stratum}
With(rows, sub, flag) == {k \in sub : flag \in rows[k].flags}
Present(rows, known) == {s \in known : Of(rows, s) # {}}

Classes(rows, sub, col) ==
  [c \in CLASSES |->
     Cardinality({k \in sub : (IF col = "armed" THEN rows[k].armed ELSE rows[k].disarmed) = c})]
Armed(rows, sub)    == Classes(rows, sub, "armed")
Disarmed(rows, sub) == Classes(rows, sub, "disarmed")

(* Tables 1 and 2: a line for every stratum that has rows, and a total.    *)
core_classes(rows, known) ==
  [armed    |-> [s \in Present(rows, known) |-> Armed(rows, Of(rows, s))],
   disarmed |-> [s \in Present(rows, known) |-> Disarmed(rows, Of(rows, s))],
   all      |-> <<Armed(rows, DOMAIN rows), Disarmed(rows, DOMAIN rows)>>]

detected_wrong(rows) ==
  Cardinality({k \in DOMAIN rows : /\ rows[k].disarmed = "DETECTED"
                                   /\ "disarmed_out_ok" \notin rows[k].flags})

(* Table 3: silent corruptions and rows of each stratum.                   *)
sdc_rates(rows, known) ==
  [s \in Present(rows, known) |-> <<Disarmed(rows, Of(rows, s))["SDC"],
                                     Cardinality(Of(rows, s))>>]

(* The estimator's terms: bits, hits and rows of every stratum that has    *)
(* rows, over the bits of all strata.                                      *)
weighted_rate(rows, sites, known, col, cls) ==
  [terms |-> [s \in Present(rows, known) |->
                <<stratum_bits(sites, s),
                  Classes(rows, Of(rows, s), col)[cls],
                  Cardinality(Of(rows, s))>>],
   bits  |-> SumFunction([s \in known |-> stratum_bits(sites, s)])]

(* The disarmed truth against the armed watchdog.                          *)
OfTruth(rows, t) == {k \in DOMAIN rows : rows[k].truth = t}
escalations(rows) ==
  [t \in TRUTHS |-> <<Cardinality(OfTruth(rows, t)),
                      Cardinality(With(rows, OfTruth(rows, t), "wdog"))>>]
truth_by_stratum(rows, known) ==
  [s \in Present(rows, known) |->
     [t \in TRUTHS |->
        LET sub == Of(rows, s) \cap OfTruth(rows, t)
        IN  <<Cardinality(sub), Cardinality(With(rows, sub, "wdog"))>>]]

(* The dead, the wrong and the survivors.                                  *)
backstop(rows) ==
  LET dead == OfTruth(rows, "DEAD")  wrong == OfTruth(rows, "WRONG")
  IN  [recovered |-> Cardinality(With(rows, dead, "armed_out_ok")),
       stages    |-> [st \in 0 .. 3 |-> Cardinality({k \in dead : rows[k].stage = st})],
       noticed   |-> [c \in {"sw", "trap"} |-> Cardinality(With(rows, wrong, c))],
       spurious  |-> Cardinality(With(rows, OfTruth(rows, "OK"), "wdog"))]

(* What announced the runs that went wrong.                                *)
channels(rows, names) ==
  LET bad == {k \in DOMAIN rows : "armed_out_ok" \notin rows[k].flags}
  IN  [named  |-> [c \in names |-> Cardinality(With(rows, bad, c))],
       silent |-> Cardinality({k \in bad : rows[k].flags \cap names = {}}),
       total  |-> Cardinality(bad)]

hardening(rows) ==
  LET moved(m) == {k \in DOMAIN rows : m \in rows[k].moved}
      esc      == With(rows, DOMAIN rows, "wdog")
  IN  [counts |-> [m \in {"rf_sec", "rf_ded", "early", "budget"} |-> Cardinality(moved(m))],
       right  |-> Cardinality(With(rows, moved("rf_sec"), "armed_out_ok")),
       why    |-> [m \in {"early", "budget"} |-> Cardinality(moved(m) \cap esc)]]

(* The worst sites, by silent corruptions and hangs over rows: the order   *)
(* is that of the ratio, the sites without either are left out.            *)
worst_sites(rows) ==
  LET at(site) == {k \in DOMAIN rows : rows[k].site = site}
      counts(site) == Disarmed(rows, at(site))
      hit == {rows[k].site : k \in {k \in DOMAIN rows : rows[k].disarmed \in {"SDC", "HANG"}}}
  IN  [site \in hit |-> <<counts(site)["SDC"] + counts(site)["HANG"],
                          Cardinality(at(site))>>]

core_report(rows, sites) ==
  LET all == STRATA(sites)
  IN  <<core_classes(rows, all), detected_wrong(rows), sdc_rates(rows, all),
        [col \in {"armed", "disarmed"} |->
           [c \in {"SDC", "HANG"} |-> weighted_rate(rows, sites, all, col, c)]],
        escalations(rows), truth_by_stratum(rows, all), backstop(rows),
        channels(rows, {"wdog", "sw", "trap", "alert"}), hardening(rows),
        worst_sites(rows)>>

-----------------------------------------------------------------------------
(* npu_campaign.py: the connection is what is not the frozen die.          *)
OPEN_STRATA(sites) == STRATA(sites) \ FROZEN

unknown_rows(rows, sites) == {k \in DOMAIN rows : rows[k].stratum \notin STRATA(sites)}

(* Tables 1 and 2, with the two aggregate lines.                           *)
_tbl(rows, known, col) ==
  LET frozen == With(rows, DOMAIN rows, "frozen")
  IN  [strata     |-> [s \in Present(rows, known) |-> Classes(rows, Of(rows, s), col)],
       connection |-> Classes(rows, DOMAIN rows \ frozen, col),
       die        |-> Classes(rows, frozen, col)]

(* Wrong by the golden model, and no hardware channel said so.             *)
silent_wrong(row) ==
  /\ "model_wrong" \in row.flags
  /\ row.flags \cap {"npu", "trap", "alert", "wdog"} = {}

silent_table(rows, known) ==
  [s \in Present(rows, known) |->
     <<Cardinality({k \in Of(rows, s) : silent_wrong(rows[k])}), Cardinality(Of(rows, s)),
       s \in FROZEN>>]

(* Ranked by rate times share: wrong or dead, announced, rows and bits.    *)
ranking(rows, sites) ==
  [s \in Present(rows, OPEN_STRATA(sites)) |->
     LET d == Disarmed(rows, Of(rows, s))
     IN  <<d["SDC"] + d["HANG"], d["DETECTED"], Cardinality(Of(rows, s)),
           stratum_bits(sites, s)>>]

(* What the golden model separates.                                        *)
model_table(rows) ==
  LET bad == {k \in DOMAIN rows : "armed_out_ok" \notin rows[k].flags}
      n(flag) == Cardinality(With(rows, DOMAIN rows, flag))
  IN  [differs    |-> Cardinality(bad),
       wrong      |-> Cardinality(With(rows, bad, "model_wrong")),
       spikes     |-> n("spikes_bad"), state |-> n("state_bad"),
       state_only |-> n("state_only"),
       right      |-> Cardinality(bad \ With(rows, bad, "model_wrong"))]

(* The outcome of a deposit while its block was busy, and while it was not.*)
exposure(rows) ==
  LET block(s) == CASE s \in {"ser", "die_ser"} -> "ser" [] s = "window" -> "win"
                    [] s \in ENGINE_STRATA -> "ev"
  IN  [s \in Present(rows, {"ser", "die_ser", "window"} \cup ENGINE_STRATA) |->
         [busy \in BOOLEAN |->
            Disarmed(rows, {k \in Of(rows, s) : (block(s) \in rows[k].busy) = busy})]]

(* Each mechanism: how often it moved, and how often anything was told.    *)
protection(rows) ==
  [m \in {"q_ptr_mm", "q_par_err", "q_rv_mm", "fetch_er", "oh_to", "aer_mm"} |->
     LET sub == {k \in DOMAIN rows : m \in rows[k].moved}
     IN  <<Cardinality(sub),
           Cardinality({k \in sub : rows[k].flags
                          \cap {"sw", "npu", "trap", "alert", "wdog"} # {}}),
           Cardinality(With(rows, sub, "armed_out_ok"))>>]

npu_report(rows, sites) ==
  LET all == STRATA(sites)
  IN  <<Cardinality(unknown_rows(rows, sites)),
        _tbl(rows, all, "armed"), _tbl(rows, all, "disarmed"), detected_wrong(rows),
        sdc_rates(rows, all),
        [col \in {"armed", "disarmed"} |->
           [c \in {"SDC", "HANG", "DETECTED", "CORRECTED"} |->
              weighted_rate(rows, sites, OPEN_STRATA(sites), col, c)]],
        silent_table(rows, all), ranking(rows, sites), escalations(rows),
        truth_by_stratum(rows, all), backstop(rows), model_table(rows),
        exposure(rows), protection(rows),
        channels(rows, {"wdog", "sw", "trap", "alert", "npu"}), worst_sites(rows)>>

-----------------------------------------------------------------------------
mem_report(rows, known) ==
  LET count(sub) == [c \in CLASSES |-> Cardinality({k \in sub : rows[k].cls = c})]
  IN  [lines |-> [s \in known |->
                    <<count(Of(rows, s)), Cardinality(With(rows, Of(rows, s), "trap")),
                      Cardinality(With(rows, Of(rows, s), "uncorrectable"))>>],
       all   |-> count(DOMAIN rows)]
=============================================================================
