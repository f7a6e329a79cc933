------------------------------- MODULE MCTools -------------------------------
(***************************************************************************)
(* The repository's own programs, checked on small inputs: "tool" says     *)
(* which one a behaviour is about.  The two fault campaigns are state      *)
(* machines over the variables of FiCampaign; every other tool is a pure   *)
(* function, and its behaviours are one state each, the input chosen from  *)
(* a bounded set.                                                          *)
(***************************************************************************)
EXTENDS FiCampaign, TLC

VARIABLES tool, input

-----------------------------------------------------------------------------
(* The campaigns on the RTL.                                               *)
MCCoreSites == Sites("regfile", <<2, 1>>) \o Sites("lsu", <<3>>)
MCNpuSites  == Sites("die_ser", <<2>>) \o Sites("ev_seq", <<1, 2>>)

Layout ==
  [text    |-> [addr |-> 128, size |-> 6],   trapvec |-> [addr |-> 256, size |-> 128],
   rodata  |-> [addr |-> 384, size |-> 8],   data    |-> [addr |-> 0, size |-> 4],
   bss     |-> [addr |-> 4, size |-> 16],    pmpbuf  |-> [addr |-> 64, size |-> 64]]
MCRegions == {r \in strata(Layout, TRUE) : r.lo = 0}

MCSeeded(s, k, n) == (7 * k) % n

clean == [end |-> TRUE, done |-> TRUE, out |-> "right", mask |-> {}, exit |-> 0,
          wdog |-> {}, traps |-> 0, alert |-> FALSE, npu |-> {}, moved |-> {},
          busy |-> {}, odd |-> {}, deposit |-> "exact"]
wrong == [clean EXCEPT !.out = "wrong"]

MCRecords ==
  {clean, wrong, [wrong EXCEPT !.done = FALSE],
   [wrong EXCEPT !.mask = {"state"}, !.npu = {"cause"}, !.busy = {"ser"}, !.wdog = {1, 2}],
   [clean EXCEPT !.moved = {"rf_sec", "q_ptr_mm", "ramsec"}, !.npu = {"irq"}],
   [clean EXCEPT !.deposit = "missed"]}

MCControlRecords ==
  {clean, [clean EXCEPT !.end = FALSE], [wrong EXCEPT !.done = FALSE],
   [wrong EXCEPT !.wdog = {1}],
   [clean EXCEPT !.moved = {"rf_sec", "ramsec"}],
   [clean EXCEPT !.npu = {"cause"}, !.moved = {"tmr_ev", "bst_tmr"}],
   [clean EXCEPT !.odd = {"window", "cycles"}],
   [clean EXCEPT !.deposit = "missed"]}

honest(sites) == [count |-> emit_vh(sites).count, lines |-> emit_vh(sites).dump,
                  voted_wire |-> FALSE]
MCDumps == {honest(MCCoreSites), honest(MCNpuSites),
            [honest(MCNpuSites) EXCEPT !.voted_wire = TRUE]}

item(site) == [stratum |-> "lsu", site |-> site, bit |-> 0, cycle |-> 9]
MCDirected == {<<>>, <<item(3), item(1)>>, <<item(4)>>}
MCWindow == <<5, 40>>

-----------------------------------------------------------------------------
(* The campaigns on the netlist.                                           *)
MCPlans ==
  LET force(flop, rank, armed) == [flop |-> flop, rank |-> rank, armed |-> armed]
  IN  [run    |-> <<force(3, 2, FALSE), force(1, 1, TRUE)>>,
       sweep  |-> <<force(4, 1, FALSE)>>,
       wdog   |-> <<force(2, 1, TRUE), force(2, 2, TRUE)>>,
       gated  |-> <<force(5, 1, FALSE), force(6, 2, FALSE), force(7, 3, FALSE)>>,
       direct |-> <<force(8, 1, FALSE)>>]
MCGlRecords ==
  {clean, [wrong EXCEPT !.done = FALSE, !.moved = {"wd_tmr"}],
   [clean EXCEPT !.moved = {"wd_tmr"}]}
  \cup {[clean EXCEPT !.deposit = d] : d \in {"missed", "unchanged", "unknown"}}
MCGlControlRecords ==
  {[clean EXCEPT !.moved = {"wd_shadow"}], clean, wrong,
   [wrong EXCEPT !.done = FALSE], [clean EXCEPT !.odd = {"cycles"}],
   [wrong EXCEPT !.deposit = "unchanged"]}
Gl == INSTANCE GlCampaign WITH
        Plans <- MCPlans, Flops <- 8, Counts <- {7, 8}, RtlAnswer <- answer(clean),
        GlRecords <- MCGlRecords, GlControlRecords <- MCGlControlRecords,
        GlWorkers <- 2
ASSUME NetlistAssumption == Gl!GlAssumption

-----------------------------------------------------------------------------
(* Netlists: two gates over every choice of inputs, loops among them, a    *)
(* memory in one's way, a flip-flop of a kind the parser does not list and *)
(* four it does: two with the names of different blocks, two with none.    *)
Cov == INSTANCE GlNetlist WITH DEPTH <- 8

anon  == [base |-> "none", bit |-> "none", anonymous |-> TRUE, core |-> FALSE,
          top |-> "none", sub |-> "none"]
named(t) == [anon EXCEPT !.base = t, !.anonymous = FALSE, !.top = t]
cell(kind, pins) == [kind |-> kind, pins |-> pins]
MCNets == {"qa", "qb", "qc", "qd", "qx", "w1", "w2", "wm"}
Netlist(in1, in2, db, dc) ==
  [order  |-> <<"fb", "g1", "fc", "fx", "fa", "fd", "g2", "m">>,
   cell   |-> [fa |-> cell("dff", {"qx"}), fb |-> cell("dff", {db}), fc |-> cell("dff", {dc}),
               fd |-> cell("dff", {"qx"}),
               fx |-> cell("ff", {"w1"}), g1 |-> cell("gate", in1), g2 |-> cell("gate", in2),
               m  |-> cell("mem", {"qb"})],
   drives |-> [qa |-> "fa", qb |-> "fb", qc |-> "fc", qd |-> "fd", qx |-> "fx", w1 |-> "g1",
               w2 |-> "g2", wm |-> "m"],
   port   |-> [fa |-> [q |-> "qa", d |-> "qx", clk |-> "c", rst |-> "r"],
               fb |-> [q |-> "qb", d |-> db, clk |-> "c", rst |-> "r"],
               fc |-> [q |-> "qc", d |-> dc, clk |-> "c", rst |-> "r"],
               fd |-> [q |-> "qd", d |-> "qx", clk |-> "c", rst |-> "r"]],
   name   |-> [qa |-> named("u_ibex"), qb |-> anon, qc |-> anon, qd |-> named("u_npu"), qx |-> anon,
               w1 |-> anon, w2 |-> anon, wm |-> anon],
   nets   |-> [none |-> <<>>]]
MCText == [instances |-> {}, outputs |-> <<>>, words |-> <<>>]
UpTo2 == {{a, b} : a, b \in MCNets \ {"qx"}}
MCNetlists ==
  {Netlist(in1, in2, db, dc) :
     in1 \in UpTo2, db \in {"w1", "w2"}, dc \in {"qb", "w2"},
     in2 \in {{a, "w1"} : a \in MCNets \ {"qd"}} \cup {{"qb"}, {"qd"}}}

-----------------------------------------------------------------------------
(* Mapping worlds: two RTL bits, three flip-flops, traces of three rows,   *)
(* every twin, every name of two flip-flops, any trace of the third.       *)
PositionSeed(k, n) == n + (IF Len(k) = 2 THEN 10 * k[1] + k[2] ELSE 100 * k[1])
Map == INSTANCE GlMap WITH MIN_TRANSITIONS <- 1, MIN_PROBES <- 1, SHIFT <- 1,
                           Seeded <- PositionSeed
Columns == {<<0, 0, 0>>, <<0, 1, 0>>, <<1, 1, 0>>}
Twin == ((1 .. 2) \X {0, 1}) \cup {<<0, 0>>}
World(rtl, twin, names, third) ==
  LET of(f) == {r \in 1 .. 2 : twin[r][1] = f}
      col(f) == IF of(f) = {} THEN third
                ELSE LET r == Map!Min(of(f))
                     IN  IF twin[r][2] = 1 THEN Map!complement(rtl[r]) ELSE rtl[r]
  IN  [twin |-> twin,
       D |-> [rtl |-> rtl, gl |-> [f \in 1 .. 3 |-> col(f)], own |-> <<"n1", "n2">>,
              name |-> names, json |-> TRUE, regfile |-> {1, 2},
              net |-> [n1 |-> 11, n2 |-> 12, y |-> 11, z |-> 13],
              stored |-> {10 + r : r \in {s \in 1 .. 2 : twin[s][1] # 0}}]]
MCWorlds ==
  {w \in {World(rtl, twin, <<a, b, "z">>, third) :
            rtl \in [1 .. 2 -> Columns], twin \in [1 .. 2 -> Twin],
            a, b \in {"n1", "n2", "y", "z"}, third \in Columns} : Map!Honest(w)}

(* Alignment: a register file of two bits, the netlist's run starting up   *)
(* to a row later or earlier than the RTL's.                               *)
Late(col, sh) == [t \in DOMAIN col |-> IF t - sh \in DOMAIN col THEN col[t - sh] ELSE 0]
MCRuns ==
  {[shift |-> sh,
    D |-> [rtl |-> <<a, b>>, gl |-> <<Late(a, sh), Late(b, sh)>>, own |-> <<"n1", "n2">>,
           name |-> <<"n1", "n2">>, regfile |-> {1, 2}]] :
     sh \in -1 .. 1, a, b \in [1 .. 4 -> {0, 1}]}

-----------------------------------------------------------------------------
(* What the campaigns may inject into and what they replay.                *)
MCSiteLists ==
  {Sites("a", wa) \o Sites("b", wb) \o Sites("a", wc) :
     wa, wc \in {<<1>>, <<3, 1>>, <<2, 8>>}, wb \in {<<1, 1>>, <<5>>}}

(* Sections as the linker script places them.                              *)
MCLayouts ==
  {[text    |-> [addr |-> 128, size |-> text], trapvec |-> [addr |-> 512, size |-> 128],
    rodata  |-> [addr |-> 640, size |-> ro],
    data    |-> [addr |-> 0, size |-> d],      bss |-> [addr |-> d, size |-> b],
    pmpbuf  |-> [addr |-> 64 * ((d + b + 63) \div 64), size |-> 64]] :
     text \in {2, 384}, ro \in {4, 12}, d \in {0, 8, 64}, b \in {4, 60, 31512}}

ASSUME LayoutAssumption == \A secs \in MCLayouts : Linked(secs)

record(bit, cycle, cls, t) == [bit |-> bit, cycle |-> cycle, armed |-> cls, disarmed |-> cls,
                            truth |-> t, wdog |-> FALSE]
MCReplays ==
  {[recs |-> <<record("b1", 3, "SDC", "WRONG"), record("b2", 3, "HANG", "DEAD"),
               record("b1", c, "MASKED", "OK"), record("b4", 5, "MASKED", "OK")>>,
    measured |-> m,
    entries |-> [b1 |-> [gl |-> 1, pol |-> 0, how |-> h1], b2 |-> [gl |-> g2, pol |-> 1, how |-> h2]]] :
     c \in {4, 7}, h1 \in {"trace", "merged"}, g2 \in {0, 1}, h2 \in {"alias", "deleted", "constant"},
     m \in {<<>>, [x \in {<<"b1", 3>>, <<"b2", 3>>} |-> 9]}}

MCBanks ==
  {[banks |-> <<<<1, 2>>, <<f>>, <<4, 5>>>>, others |-> <<<<g, 7>>, <<1>>, <<8, 9>>>>,
    cone |-> <<{1, f}, {1, 3, g}>>, bit |-> [x \in {1, 3, f, g} |-> IF x = 1 THEN {0} ELSE IF x = 3 THEN {1} ELSE {}]] :
     f \in 10 .. 14, g \in 12 .. 16}

-----------------------------------------------------------------------------
Release == INSTANCE MCRelease
Physical == INSTANCE MCPhysical

PureTools == Release!Inputs @@ Physical!Inputs @@
  [netlist |-> MCNetlists, mapping |-> MCWorlds, align |-> MCRuns, sites |-> MCSiteLists,
   layout |-> MCLayouts, replay |-> MCReplays, banks |-> MCBanks]

ToolsInit ==
  \/ tool = "fi" /\ input = 0 /\ FiInit
  \/ tool = "gl" /\ input = 0 /\ mode = "full" /\ Gl!GlInit
  \/ /\ tool \in DOMAIN PureTools /\ input \in PureTools[tool]
     /\ campaign = "none" /\ mode = "full" /\ phase = "ended" /\ todo = <<>>
     /\ golden = clean /\ plan = <<>> /\ started = 0 /\ finished = <<>>
     /\ taken = 0 /\ rows = <<>> /\ file = "old" /\ outcome = "none"

ToolsNext ==
  /\ \/ tool = "fi" /\ FiNext
     \/ tool = "gl" /\ Gl!GlNext /\ UNCHANGED mode
  /\ UNCHANGED <<tool, input>>

(* A simulation ends at its cycle budget, so the pool always makes progress.*)
tools_vars == <<fi_vars, tool, input>>
Spec == ToolsInit /\ [][ToolsNext]_tools_vars /\ WF_tools_vars(ToolsNext)

-----------------------------------------------------------------------------
(* Every records file, of an RTL campaign or of one on the netlist, is     *)
(* evidence: see EvidenceVerified and GlEvidence.                          *)
RecordsAreEvidence ==
  /\ tool = "fi" => EvidenceVerified
  /\ tool = "gl" => Gl!GlEvidence

(* The cones, the attribution built on them (gl_netlist.py, gl_coverage.py)*)
NetlistSound ==
  tool = "netlist" => Cov!ConesAreReach(input) /\ Cov!AttributionSettled(input, MCText)

(* The map from RTL bits to flip-flops (gl_map.py), and what the campaigns *)
(* inject into (targets.py, mem_campaign.py) and replay (gl_campaign.py,   *)
(* gl_gated.py): every flip-flop of a stratum is as likely, the memory's   *)
(* regions share no word, every record is accounted for, and a plan keyed  *)
(* by position is the same on every netlist.                               *)
MappingSound ==
  /\ tool = "mapping" => Map!MapIsTrue(input)
  /\ tool = "align"   => Map!ShiftIsTrue(input.D, input.shift)
  /\ tool = "sites"   => DrawsUniform(input)
  /\ tool = "layout"  => RegionsDisjoint(input)
  /\ tool = "replay"  => Map!ReplayAccounts(input.recs, input.entries, input.measured, 1)
  /\ tool = "banks"   => /\ Map!PlanIsPortable(input.banks, input.others, 2)
                         /\ Map!KeysDistinct(input.cone, input.bit)

(* The golden models the RTL is checked against (secded.py, lif_core.py,   *)
(* network.py), and the maps its addresses are generated from              *)
(* (generate_memmap.py, generate.py).                                      *)
GoldenSound == Release!GoldenHolds(tool, input)

(* What is released: the Tiny Tapeout submission                           *)
(* (gen_tt_submission.py), the public mirror (gen_public_mirror.py) and    *)
(* the record of the runs the documents cite (artefact_digests.py).        *)
ReleaseSound == Release!ReleaseHolds(tool, input)

(* The tools around the layout (floorplan.py, clkgate_check.py,            *)
(* replica_placement.py) and the repository's checks of itself             *)
(* (spdx_check.py, check_claims.py).                                       *)
PhysicalSound == Physical!PhysicalHolds(tool, input)
=============================================================================
