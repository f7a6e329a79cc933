-------------------------- MODULE ArtefactDigests --------------------------
(***************************************************************************)
(* scripts/artefact_digests.py: the tracked manifest of run outputs git    *)
(* ignores.  A machine is the files of its run tree by path (a number, in  *)
(* the order of the names), the manifest, and the version of the           *)
(* extractors.  What a file holds stands for its digest; its size and      *)
(* whether its metrics would break the manifest's line are beside it.      *)
(***************************************************************************)
EXTENDS Integers, Sequences, FiniteSets, FiniteSetsExt, SequencesExt, Functions, TLC

-----------------------------------------------------------------------------
(* The extractors: the numbers a manifest                                  *)
(* row carries beside a file's digest.  A file is [size, json, lines]; a   *)
(* line is what the extractors' expressions tell apart of it, its kind t   *)
(* with a name k and a value v, or the cells of a row of a table.  JSON is *)
(* the function from a document's keys to their values.                    *)

(* 8 MiB and 201 lines in the code; 4 KiB of tail.                         *)
BIG  == 8
HEAD == 3
TAIL == 3

line(t, k, v) == [t |-> t, k |-> k, v |-> v]
Of(lines, t)  == SelectSeq(lines, LAMBDA l : l.t = t)
Count(lines, t) == Len(Of(lines, t))
Names(lines, t) == {l.k : l \in Range(Of(lines, t))}
Some(name, values, v) == IF values = <<>> THEN <<>> ELSE name :> v
LastOf(name, lines, t) == LET s == Of(lines, t) IN Some(name, s, Last(s).v)
FirstOf(name, lines, t) == LET s == Of(lines, t) IN Some(name, s, s[1].v)
(* The lines up to the first of a kind, and those after it.                *)
Cut(lines, t) == Min({Len(lines)} \cup {k \in DOMAIN lines : lines[k].t = t})
UpTo(lines, t) == SubSeq(lines, 1, Cut(lines, t))
Beyond(lines, t) == SubSeq(lines, Cut(lines, t) + 1, Len(lines))
(* The last value of every name of a kind.                                 *)
LastByName(lines, t) ==
  [k \in Names(lines, t) |-> Last(SelectSeq(lines, LAMBDA l : l.t = t /\ l.k = k)).v]

-----------------------------------------------------------------------------
METRIC_KEYS ==
  {"die_um2", "insts", "stdcells", "flops", "clkgates", "stdcell_um2", "util", "setup_ws_slow",
   "setup_ws_typ", "setup_ws_fast", "setup_tns_slow", "setup_vio_slow", "hold_ws_slow",
   "hold_ws_typ", "hold_ws_fast", "setup_bufs", "hold_bufs", "wirelength", "drc",
   "slew_vio_slow", "cap_vio_slow", "antenna_nets"}
m_metrics_json(f) ==
  IF f.json = <<>> THEN <<>>
  ELSE ("keys" :> Cardinality(DOMAIN f.json)) @@ Restrict(f.json, METRIC_KEYS \cap DOMAIN f.json)
json_keys(f) == [keys |-> Cardinality(DOMAIN f.json)]

m_netlist(f) ==
  LET cells  == Of(f.lines, "cell")
      macros == SelectSeq(cells, LAMBDA l : l.k = "macro")
      flops  == SelectSeq(cells, LAMBDA l : l.k \in {"_df", "_sdf"})
  IN  [lines |-> Len(f.lines), cells |-> Len(cells), flops |-> Len(flops)]
      @@ Some("macros", macros, Len(macros))

m_def(f) ==
  LET head == UpTo(f.lines, "COMPONENTS")
  IN  LastOf("units_per_um", head, "UNITS") @@ LastOf("diearea", head, "DIEAREA")
      @@ LastOf("components", head, "COMPONENTS")

(* A table of records: the class column tallied, the events summed.  A     *)
(* cell too few is skipped, and one that is no number.                     *)
number == "0" :> 0 @@ "1" :> 1 @@ "2" :> 2
Column(head, name) == Min({Len(head) + 1} \cup {k \in DOMAIN head : head[k] = name})
lower(class) == IF class = "SDC" THEN "sdc" ELSE class

(* Variant: classes are counted in the RTL records' column only.           *)
m_records_armed(f) ==
  LET head == f.lines[1].cells
      rows == SelectSeq(Tail(f.lines), LAMBDA l : l.cells # <<>>)
      cls  == Column(head, "armed_cls")
      has(l, c) == c <= Len(head) /\ c <= Len(l.cells)
      told == SelectSeq(rows, LAMBDA l : has(l, cls))
  IN  [rows |-> Len(rows), cols |-> Len(head)]
      @@ [k \in {lower(l.cells[cls]) : l \in Range(told)} |->
            Len(SelectSeq(told, LAMBDA l : lower(l.cells[cls]) = k))]
m_records(f) ==
  LET head == f.lines[1].cells
      rows == SelectSeq(Tail(f.lines), LAMBDA l : l.cells # <<>>)
      cls  == IF Column(head, "cls") <= Len(head) THEN Column(head, "cls")
              ELSE Column(head, "armed_cls")
      wd   == Column(head, "wdog_rst_events")
      has(l, c) == c <= Len(head) /\ c <= Len(l.cells)
      told == SelectSeq(rows, LAMBDA l : has(l, cls))
      events == SelectSeq(rows, LAMBDA l : has(l, wd) /\ l.cells[wd] \in DOMAIN number)
      names == {l.cells[cls] : l \in Range(told)}
      tally(c) == Len(SelectSeq(told, LAMBDA l : l.cells[cls] = c))
      (* of two classes whose small letters agree, the one sorted last, the *)
      (* one in small letters, has the entry                                *)
      named(k) == IF k \in names THEN k ELSE "SDC"
  IN  [rows |-> Len(rows), cols |-> Len(head)]
      @@ [k \in {lower(c) : c \in names} |-> tally(named(k))]
      @@ (IF wd > Len(head) THEN <<>>
          ELSE "wdog_rst_events" :>
                 FoldLeft(LAMBDA n, l : n + number[l.cells[wd]], 0, events))

m_provenance(f) == LastByName(f.lines, "prov")

m_text(f) ==
  [lines |-> Len(f.lines)]
  @@ LastOf("cycles", f.lines, "cycles") @@ LastOf("differing", f.lines, "differing")
  @@ LastOf("flops_parsed", f.lines, "flip-flops") @@ LastOf("compared", f.lines, "compared")

(* A map too big to parse is read down to its entries.                     *)
MAP_KEYS == {"cycles", "rtl_rows", "gl_rows", "gl_row_shift", "rtl_bits", "gl_flops"}
m_map(f) ==
  IF ~f.named_json THEN m_text(f)
  ELSE IF f.size > BIG
    THEN Restrict(LastByName(UpTo(f.lines, "entries"), "scalar"),
                  MAP_KEYS \cap Names(UpTo(f.lines, "entries"), "scalar"))
    ELSE Restrict(f.json, MAP_KEYS \cap DOMAIN f.json)
         @@ (IF "entries" \in DOMAIN f.json THEN "entries" :> f.json.entries ELSE <<>>)

m_report(f) == m_text(f) @@ FirstOf("total_w", f.lines, "TOTAL")
m_drclog(f) == m_text(f) @@ LastOf("boxes", f.lines, "COUNT")
m_drcrpt(f) ==
  LET n    == Len(f.lines)
      tail == SubSeq(f.lines, Max({1, n - TAIL + 1}), n)
  IN  (IF n > 0 THEN "top_cell" :> f.lines[1].k ELSE <<>>)
      @@ LastOf("boxes", tail, "COUNT") @@ LastOf("divisor_note", tail, "divisor")

(* The classifier's two splits, told apart by the heading above them.      *)
m_classification(f) ==
  LET step(a, l) ==
        CASE l.t = "total"   -> [a EXCEPT !.out = ("boxes" :> l.v) @@ @]
          [] l.t = "against" -> [a EXCEPT !.section = l.k]
          [] l.t = "split" /\ a.section # "none" ->
               [a EXCEPT !.out = (<<a.section, l.k>> :> l.v) @@ @]
          [] l.t = "rule"    -> [a EXCEPT !.rules = @ + 1]
          [] OTHER           -> a
      a == FoldLeft(step, [section |-> "none", rules |-> 0, out |-> <<>>], f.lines)
  IN  a.out @@ (IF a.rules = 0 THEN <<>> ELSE "rules" :> a.rules)

(* A KLayout database: the deck's rules above <items>, what fired below.   *)
m_lyrdb(f) ==
  LET decl  == UpTo(f.lines, "<items>")
      items == Beyond(f.lines, "<items>")
      bases == Names(items, "<cell>")
  IN  [items |-> Count(items, "<item>"), rules_declared |-> Count(decl, "<category>"),
       rules_fired |-> Cardinality(Names(items, "category")),
       base_cells |-> Cardinality(bases), outside_macro |-> Cardinality(bases \ {"RM", "RSC"})]

(* Netgen: the first count of each kind, its right column when it differs, *)
(* and the last verdict.                                                   *)
m_lvs(f) ==
  LET count(kind) == SelectSeq(f.lines, LAMBDA l : l.t = "Number" /\ l.k = kind)
      two(kind, other) ==
        IF count(kind) = <<>> THEN <<>>
        ELSE LET c == count(kind)[1].v
             IN  (kind :> c[1]) @@ (IF c[1] # c[2] THEN other :> c[2] ELSE <<>>)
  IN  two("devices", "devices_circuit2") @@ two("nets", "nets_circuit2")
      @@ LastOf("result", f.lines, "Final")
      @@ [mismatch_lines |-> Count(f.lines, "Mismatch")]

m_sweep(f) ==
  LET rows   == Of(f.lines, "PERIOD")
      base   == SelectSeq(rows, LAMBDA l : l.k = 20)
      closes == SelectSeq(rows, LAMBDA l : l.v = 0)
  IN  Some("endpoints_20ns", base, Last(base).v)
      @@ [periods |-> Len(rows)] @@ Some("closes_at", closes, closes[1].k)

(* Sign-off STA: of a big report only the head is scanned, but every line  *)
(* is counted.                                                             *)
m_sta(f) ==
  LET scanned == IF f.size > BIG THEN SubSeq(f.lines, 1, Min({HEAD, Len(f.lines)})) ELSE f.lines
      n == Count(scanned, "violator")
  IN  [lines |-> Len(f.lines)]
      @@ LastOf("period_min", scanned, "period_min") @@ LastByName(scanned, "corner")
      @@ FirstOf("startpoint", scanned, "Startpoint") @@ FirstOf("endpoint", scanned, "Endpoint")
      @@ (IF n = 0 THEN <<>> ELSE "violators" :> n)

m_none(f) == <<>>

EXTRACT_ROLES ==
  {"metrics", "netlist", "def", "gds", "config", "records", "provenance", "map", "report",
   "table", "log", "text", "classification", "drcrpt", "drclog", "lyrdb", "lvs", "sweep", "sta"}
EXTRACT(role, f) ==
  CASE role = "metrics" -> m_metrics_json(f)   [] role = "netlist" -> m_netlist(f)
    [] role = "def"     -> m_def(f)            [] role = "gds"     -> m_none(f)
    [] role = "config"  -> json_keys(f)        [] role = "records" -> m_records(f)
    [] role = "provenance" -> m_provenance(f)  [] role = "map"     -> m_map(f)
    [] role = "report"  -> m_report(f)         [] role = "classification" -> m_classification(f)
    [] role = "drcrpt"  -> m_drcrpt(f)         [] role = "drclog"  -> m_drclog(f)
    [] role = "lyrdb"   -> m_lyrdb(f)          [] role = "lvs"     -> m_lvs(f)
    [] role = "sweep"   -> m_sweep(f)          [] role = "sta"     -> m_sta(f)
    [] OTHER -> m_text(f)

-----------------------------------------------------------------------------
(* Of a campaign's records whose rows are whole and whose classes differ   *)
(* in more than the case of their letters, the tallies add up to the rows, *)
(* whichever campaign wrote them.                                          *)
RecordsTallied(f) ==
  LET m     == m_records(f)
      head  == f.lines[1].cells
      names == DOMAIN m \ {"rows", "cols", "wdog_rst_events"}
      classes == {l.cells[1] : l \in {x \in Range(Tail(f.lines)) : x.cells # <<>>}}
  IN  (/\ head[1] \in {"cls", "armed_cls"} /\ ~({"SDC", "sdc"} \subseteq classes)
       /\ \A k \in 2 .. Len(f.lines) : Len(f.lines[k].cells) \in {0, Len(head)}) =>
      MapThenSumSet(LAMBDA k : m[k], names) = m.rows

(* A sweep's closing period is the smallest that closes, when the file     *)
(* lists its periods in ascending order.                                   *)
SweepCloses(f) ==
  LET rows   == Of(f.lines, "PERIOD")
      closed == {r.k : r \in {x \in Range(rows) : x.v = 0}}
  IN  (\A k \in 2 .. Len(rows) : rows[k - 1].k < rows[k].k) =>
        (IF closed = {} THEN "closes_at" \notin DOMAIN m_sweep(f)
         ELSE m_sweep(f).closes_at = Min(closed))

(* Two LVS reports of one block each that differ in a count, on either     *)
(* side, or in their verdicts do not get one row.                          *)
LvsToldApart(f, g) ==
  LET same(t) == Of(f.lines, t) = Of(g.lines, t)
      block(x) == \A k \in {"devices", "nets"} :
                    Len(SelectSeq(x.lines, LAMBDA l : l.t = "Number" /\ l.k = k)) = 1
  IN  (block(f) /\ block(g) /\ m_lvs(f) = m_lvs(g)) =>
        /\ Range(Of(f.lines, "Number")) = Range(Of(g.lines, "Number"))
        /\ Count(f.lines, "Mismatch") = Count(g.lines, "Mismatch")

(* A map read line by line gives the scalars a parsed one gives, its       *)
(* header being above its entries.                                         *)
BigMapAgrees(f) ==
  LET small == [f EXCEPT !.size = 1]
      big   == [f EXCEPT !.size = BIG + 1]
  IN  LastByName(UpTo(f.lines, "entries"), "scalar")
        = Restrict(f.json, DOMAIN f.json \ {"entries"}) =>
      m_map(big) = Restrict(m_map(small), DOMAIN m_map(small) \ {"entries"})

-----------------------------------------------------------------------------
(* What is pinned: the groups and the roles of their patterns.  A campaign *)
(* names files, as a stem and an extension.                                *)
run   == <<"netlist", "def", "gds", "metrics", "config">>
pilot == <<"netlist", "netlist", "def", "gds", "metrics", "config">>
lvs   == <<"text", "text", "config", "log", "lvs">>
magicdrc(classified) ==
  (IF classified THEN <<"classification">> ELSE <<>>)
  \o <<"text", "config", "config", "drclog", "text", "drcrpt">>
sta   == [k \in 1 .. 7 |-> "sta"]
role_of(name) ==
  CASE name[1] = "records" \/ name[2] = ".csv" -> "records"
    [] name = <<"provenance", ".txt">>         -> "provenance"
    [] name[1] = "map"                         -> "map"
    [] OTHER -> LET of == ".v" :> "netlist" @@ ".rpt" :> "report" @@ ".log" :> "log"
                          @@ ".tsv" :> "table"
                IN  IF name[2] \in DOMAIN of THEN of[name[2]] ELSE "text"
campaign(names) == [k \in DOMAIN names |-> role_of(names[k])]

records    == <<"records", ".csv">>
provenance == <<"provenance", ".txt">>
mapjson    == <<"map", ".json">>
flops      == <<"flops", ".tsv">>
log(stem)  == <<stem, ".log">>
txt(stem)  == <<stem, ".txt">>
GROUPS ==
  [pilot_signoff_gated |-> pilot, pilot_submission_gated |-> pilot,
   pilot_signoff_superseded |-> pilot, pilot_submission_superseded |-> pilot,
   pilot_shape6x2 |-> run, soc_s70boot2 |-> run, soc_s71boot |-> run, soc_s75w9 |-> run,
   soc_s76gate |-> run, soc_s77base |-> run, soc_s77gate |-> run,
   soc_synth |-> [k \in 1 .. 10 |-> IF k % 2 = 1 THEN "netlist" ELSE "report"],
   fi_rtl |-> campaign(<<records, txt("fi_targets"), txt("fi_coverage"), <<"directed", ".csv">>,
                         log("golden_rtl"), txt("fi_targets"), log("golden_rtl"),
                         txt("fi_targets")>>),
   gl_74 |-> campaign(<<mapjson, txt("map"), txt("census_by_name"), <<"instants", ".csv">>,
                        flops, provenance, records, txt("reconcile"), flops, provenance,
                        records, provenance, records, records, provenance, records,
                        provenance>>),
   gl_75 |-> campaign(<<records, flops, provenance>>
                      \o FlattenSeq([k \in 1 .. 3 |-> <<records, mapjson, flops, provenance>>])),
   equiv_79 |-> <<"text", "text", "log", "netlist", "netlist">>,
   sim_77 |-> campaign(<<txt("equiv-design"), txt("equiv-whole"), log("sim"), log("sim"),
                         txt("equiv-design"), txt("equiv-vs-76"), log("sim")>>),
   power_77 |-> [k \in 1 .. 6 |-> "report"],
   deck_magic_soc |-> magicdrc(TRUE) \o magicdrc(TRUE),
   deck_inputs |-> <<"text", "text", "text", "text", "text", "config", "text">>,
   deck_magic_bare |-> magicdrc(FALSE) \o magicdrc(FALSE),
   deck_klayout |-> <<"lyrdb", "text", "log", "text", "lyrdb", "log", "lyrdb", "log", "gds",
                      "text", "text", "text">>,
   lvs_77 |-> lvs \o lvs \o lvs \o <<"config">> \o lvs \o lvs \o lvs \o lvs,
   soc_timing_factorial |-> run \o run \o run,
   sta_slow_corner |-> sta \o sta \o sta \o sta,
   sta_compare_81 |-> <<"text", "sweep", "text", "log">>]

-----------------------------------------------------------------------------
(* A content is [data, size, breaks]; metrics depend on the data and the   *)
(* version of the extractor.                                               *)
fmt_metrics(m, f) == <<m.ext, f.data>>

(* One row of every file a pattern finds, once per group.                  *)
collect(groups, m) ==
  LET row(g, role, p) ==
        [group |-> g, role |-> role, path |-> p, bytes |-> m.disk[p].size,
         sha256 |-> m.disk[p].data, metrics |-> fmt_metrics(m, m.disk[p]),
         breaks |-> m.disk[p].breaks]
      new(rows, item) ==
        SetToSortSeq({p \in item.finds \cap DOMAIN m.disk : \A r \in Range(rows) : r.path # p},
                     LAMBDA a, b : a < b)
      of(g) == FoldLeft(LAMBDA rows, item :
                          rows \o LET ps == new(rows, item)
                                  IN  [k \in DOMAIN ps |-> row(g.name, item.role, ps[k])],
                        <<>>, g.items)
  IN  FlattenSeq([k \in DOMAIN groups |-> of(groups[k])])

(* A line with a tab or a newline too many is not read back.               *)
read_manifest(m) == SelectSeq(m.manifest, LAMBDA r : ~r.breaks)
Paths(rows) == {r.path : r \in Range(rows)}

census(rows) ==
  [count |-> Len(rows), smallest |-> Min({r.bytes : r \in Range(rows)}),
   largest |-> Max({r.bytes : r \in Range(rows)}),
   total |-> FoldLeft(LAMBDA n, r : n + r.bytes, 0, rows)]

(* Variant: the manifest may not get shorter.                              *)
do_write_counting(groups, m, allow_shrink) ==
  LET new == collect(groups, m)
  IN  IF Len(new) < Len(read_manifest(m)) /\ ~allow_shrink THEN [m EXCEPT !.exit = 1]
      ELSE [m EXCEPT !.manifest = new, !.exit = 0]
(* Refused when a path that is pinned would not be.                        *)
do_write(groups, m, allow_shrink) ==
  LET new     == collect(groups, m)
      dropped == Paths(read_manifest(m)) \ Paths(new)
  IN  IF dropped # {} /\ ~allow_shrink THEN [m EXCEPT !.exit = 1]
      ELSE [m EXCEPT !.manifest = new, !.exit = 0]

do_check(m) ==
  LET rows      == Range(read_manifest(m))
      present   == {r \in rows : r.path \in DOMAIN m.disk}
      changed   == {r \in present : LET f == m.disk[r.path]
                                    IN  f.size # r.bytes \/ f.data # r.sha256}
      same      == present \ changed
      extractor == {r \in same : fmt_metrics(m, m.disk[r.path]) # r.metrics}
      vacuous   == {r \in same \ extractor : r.bytes = 0}
  IN  [missing |-> rows \ present, changed |-> changed, extractor |-> extractor,
       vacuous |-> vacuous, verified |-> same \ (extractor \cup vacuous),
       clone   |-> Cardinality(rows \ present) + Cardinality(vacuous) = Cardinality(rows),
       exit    |-> IF rows = {} \/ changed \cup extractor # {} THEN 1 ELSE 0]

(* The groups with what is pinned and what is there.                       *)
do_list(groups, m) ==
  [k \in DOMAIN groups |->
     LET have == {r \in Range(read_manifest(m)) : r.group = groups[k].name}
     IN  [pinned |-> Cardinality(have),
          on_disk |-> Cardinality({r \in have : r.path \in DOMAIN m.disk})]]

(* What may happen to a machine; the command line refuses --write with     *)
(* --check.                                                                *)
Apply(groups, m, op) ==
  CASE op.do = "write"  -> do_write(groups, m, FALSE)
    [] op.do = "shrink" -> do_write(groups, m, TRUE)
    [] op.do = "put"    -> [m EXCEPT !.disk = (op.path :> op.file) @@ @]
    [] op.do = "remove" -> [m EXCEPT !.disk = Restrict(@, DOMAIN @ \ {op.path})]
    [] op.do = "derive" -> [m EXCEPT !.ext = 1 - @]
After(groups, ops) ==
  FoldLeft(LAMBDA m, op : Apply(groups, m, op),
           [disk |-> <<>>, manifest |-> <<>>, ext |-> 0, exit |-> 0], ops)

-----------------------------------------------------------------------------
(* Every role of the shipped groups has an extractor of its own: none      *)
(* falls through to the text's.                                            *)
EveryRoleExtracted ==
  \A g \in DOMAIN GROUPS : Range(GROUPS[g]) \subseteq EXTRACT_ROLES

(* Whatever happens to the files and whenever it is rewritten, the         *)
(* manifest keeps every artefact it pins until a writer says it may        *)
(* shrink, and a check that finds nothing wrong means every pinned file    *)
(* that is there is byte for byte, and by today's extractors, the one that *)
(* was pinned when the manifest was last written; the groups' counts add   *)
(* up to it.                                                               *)
RecordKept(groups, ops) ==
  \A at \in {[k \in 0 .. Len(ops) |-> After(groups, SubSeq(ops, 1, k))]} :
    LET wrote == {k \in DOMAIN ops : ops[k].do \in {"write", "shrink"} /\ at[k].exit = 0}
        last  == at[Max({0} \cup wrote)]
        now   == at[Len(ops)]
        pinned == {p \in Paths(now.manifest) : ~last.disk[p].breaks}
        intact == {p \in pinned \cap DOMAIN now.disk : now.disk[p] = last.disk[p]}
    IN  /\ \A k \in DOMAIN ops : ops[k].do # "shrink" =>
             Paths(read_manifest(at[k - 1])) \subseteq Paths(at[k].manifest)
        /\ \A c \in {do_check(now)} :
             /\ c.exit = 0 <=> /\ pinned # {}
                               /\ pinned \cap DOMAIN now.disk = intact
                               /\ intact = {} \/ now.ext = last.ext
             /\ {r.path : r \in c.missing} = pinned \ DOMAIN now.disk
             /\ \A r \in c.verified : r.path \in intact /\ now.disk[r.path].size > 0
        /\ FoldLeft(LAMBDA n, g : n + g.pinned, 0, do_list(groups, now))
             = Len(read_manifest(now))
=============================================================================
