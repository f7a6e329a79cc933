----------------------------- MODULE MCPhysical -----------------------------
(***************************************************************************)
(* Bounded inputs for the physical-design tools and the repository's own   *)
(* checkers, and what holds of each program.                               *)
(***************************************************************************)
EXTENDS Integers, Sequences, FiniteSets, SequencesExt, Functions, TLC

Fp == INSTANCE Floorplan
Cg == INSTANCE ClkgateCheck
Rc == INSTANCE RepoChecks
Rp == INSTANCE ReplicaPlacement
Fl == INSTANCE FlowConfigs
Va == INSTANCE VcdActivity

-----------------------------------------------------------------------------
(* The macros' LEF sizes, and macros a little larger or off the row grid;  *)
(* config.json with and without the check macro.                           *)
LefOf(ram_w, ram_h, rom_h, chk_w) ==
  [RAM |-> [w |-> ram_w, h |-> ram_h], ROM |-> [w |-> 41664, h |-> rom_h],
   ROM_CHK |-> [w |-> chk_w, h |-> 19134]]
MCLefs ==
  {LefOf(78448, 62670, 33646, 23680)}
  \cup {LefOf(80500, 62670, 33646, 23680), LefOf(78448, 62000, 33646, 23680)}
  \cup {LefOf(78448, 62670, h, w) : h \in {41000, 45000}, w \in {23680, 48000}}
MCBase ==
  LET chip == Fp!build(LefOf(78448, 62670, 33646, 23680), 70008)
      lines(label, leaves) == <<Fp!pdn(label, leaves, "VDD!"), Fp!pdn(label, leaves, "VDDARRAY!")>>
  IN  [DIE_AREA |-> <<0, 0, 1, 1>>, CORE_AREA |-> <<0, 0, 1, 1>>, PL_TARGET_DENSITY_PCT |-> <<"39">>,
       MACROS |-> [kind \in {"RAM", "ROM", "ROM_CHK"} |->
                     [files |-> kind,
                      instances |-> IF kind = "ROM_CHK" THEN <<>> ELSE chip.macros[kind]]],
       PDN_MACRO_CONNECTIONS |-> lines(<<"u_ram">>, {"b0", "b1", "b2", "b3"})
                                 \o lines(<<"u_rom">>, {"b0", "b1"}),
       EXTRA_SPICE_MODELS |-> <<"cdl">>, RUN_LVS |-> 0, PNR_CORNERS |-> <<"nom">>]
      @@ [k \in {"//lvs", "//signoff_decks"} |-> <<"pilot">>] @@ [k \in {"//", "//eqy"} |-> <<6>>]
MCFloorplans ==
  {[base |-> b, lef |-> l,
    opts |-> [channel |-> c, arrangement |-> a, memory |-> m, lvs |-> v]] :
     b \in {MCBase, [MCBase EXCEPT !.MACROS = Restrict(@, {"RAM", "ROM"})]}, l \in MCLefs,
     c \in {0, 1900, 2157, 40000, 58000, 70008}, a \in {"rows3", "islands"},
     m \in DOMAIN Fp!LABELS, v \in BOOLEAN}

-----------------------------------------------------------------------------
(* Dumps of a clock, an enable seen under two paths, a word of two bits    *)
(* and one excluded net aliased into the scope: every three time steps and*)
(* a second build that differs in one of them or ends early.               *)
MCHeader ==
  LET scope(n) == [t |-> "scope", name |-> n]
      var(k, i, n) == [t |-> "var", kind |-> k, id |-> i, name |-> n]
      up == [t |-> "upscope"]
  IN  <<up, scope("tb"), var("wire", "c", "clk"), var("parameter", "p", "W"), scope("dut"),
        var("wire", "e", "en"), var("wire", "w", "word"), var("wire", "g", "gated"),
        scope("gate"), var("wire", "e", "e"), var("wire", "g", "q"), up, up, up>>
change(i, v) == [t |-> "change", id |-> i, v |-> v]
mark == [t |-> "mark"]
MCSteps ==
  {<<change("c", <<"0">>)>>, <<change("c", <<"1">>)>>,
   <<change("c", <<"1">>), change("e", <<"0">>)>>,
   <<change("e", <<"1">>), change("c", <<"0">>)>>,
   <<change("w", <<"0", "1">>)>>, <<change("g", <<"1">>)>>}
Body(steps) == FlattenSeq([n \in DOMAIN steps |-> Append(steps[n], mark)])
Dump(steps) == [header |-> MCHeader, body |-> Body(<<<<change("c", <<"0">>)>>>> \o steps)]
MCDumpPairs ==
  {[base |-> Dump(s), gated |-> Dump([s EXCEPT ![n] = t])] :
     s \in [1 .. 3 -> MCSteps], n \in {2, 3},
     t \in {<<>>, <<change("c", <<"1">>), change("w", <<"1">>)>>, <<change("w", <<"1">>)>>,
           <<change("g", <<"0">>), change("c", <<"1">>)>>}}
  \cup {[base |-> Dump(s), gated |-> [Dump(s) EXCEPT !.body = SubSeq(@, 1, Len(@) - n)]] :
          s \in [1 .. 3 -> MCSteps], n \in 1 .. 2}
ClockPath == <<"tb", "clk">>
Enable == <<"tb", "dut", "en">>
GatedWindow == {[path |-> <<"tb", "dut", "word">>, value |-> <<"1">>]}

-----------------------------------------------------------------------------
(* A tree of seven kinds of file, one of them with every header: with and  *)
(* without an interpreter line, a tag in prose, in a comment, wrong, or    *)
(* further down than a header goes.                                        *)
MCFile(lines) == [utf8 |-> TRUE, lines |-> lines]
MCTexts ==
  LET pad(n) == [k \in 1 .. n |-> Rc!line("code", Rc!NONE)]
      mid == {<<>>, <<Rc!blank>>, pad(1), pad(11), pad(12)}
      tag == {<<>>} \cup {<<Rc!line(is, l)>> : is \in {"code", "#", "//"}, l \in {Rc!SW, Rc!HW, "ISC"}}
  IN  {s \o m \o t : s \in {<<>>, <<Rc!line("shebang", Rc!NONE)>>}, m \in mid, t \in tag}
MCTrees ==
  LET rest == [p \in {Rc!path(<<"tt">>, <<"x", "v">>), Rc!path(<<"out">>, <<"x", "v">>),
                      Rc!path(<<>>, <<"", "gitignore">>), Rc!path(<<"hw">>, <<"image">>)} |-> MCFile(<<>>)]
      paths == {Rc!path(<<"paper">>, <<"claims", "yaml">>), Rc!path(<<"hw">>, <<"run", "tcl", "in">>),
                Rc!path(<<"hw">>, <<"Makefile">>), Rc!path(<<"docs">>, <<"00", "md">>),
                Rc!path(<<"hw", "soc", "rvformal", "insns">>, <<"insn_div", "v">>)}
  IN  {[listed |-> IF git THEN {p, Rc!path(<<"sw">>, <<"gone", "py">>)} ELSE {},
        tree |-> (p :> MCFile(t)) @@ rest] :
         git \in BOOLEAN, p \in paths, t \in MCTexts}
      \cup {[listed |-> {}, tree |-> [p \in paths |-> [utf8 |-> FALSE, lines |-> <<>>]]]}

-----------------------------------------------------------------------------
(* Claims of every kind over checkouts with and without each of a tracked  *)
(* document and log, a run's metrics and log, and the record of the first. *)
MCContent ==
  [doc |-> [lines |-> <<{"a"}, {"a", "b"}>>], log |-> [rows |-> <<<<"when", "v">>, <<"t", "20">>>>],
   metrics |-> [json |-> [wns |-> "20"]], record |-> [json |-> [wns |-> "20"]],
   runlog |-> [lines |-> <<{"a"}>>]] @@ (Rc!RUN_TREE :> [lines |-> <<>>])
MCCheckouts ==
  LET obj(sub) == [leaf |-> FALSE, sub |-> sub]
      val(v) == [leaf |-> TRUE, value |-> v]
      json == obj((<<"a">> :> obj(<<"b", "c">> :> val("20"))) @@ (<<"d">> :> val("5")))
      out(t) == [rc |-> IF t = "broken" THEN 1 ELSE 0, text |-> t, group |-> t,
                 is_json |-> t # "none", json |-> json]
  IN  {[tree |-> tree, built |-> {"metrics", "runlog", Rc!RUN_TREE} \cap DOMAIN tree,
        record |-> [metrics |-> "record"], number |-> n, run |-> [c \in {"20", "20.0", "broken", "none"} |-> out(c)]] :
         n \in {("20" :> 20) @@ ("20.0" :> 20) @@ ("5" :> 5) @@ ("2" :> 2) @@ ("3" :> 3)},
         tree \in UNION {{Restrict(MCContent, s),
                         Restrict([MCContent EXCEPT !.log.rows = <<<<"when", "v">>, <<"t">>>>,
                                                    !.metrics.json.wns = "5"], s)} :
                          s \in SUBSET DOMAIN MCContent}}
MCClaims ==
  {[check |-> "json", file |-> f, key |-> k, value |-> v] :
     f \in {"metrics", "record", "typo"}, k \in {"wns", "tns"}, v \in {"20", "5"}}
  \cup {[check |-> "tsv", file |-> "log", column |-> c, value |-> v] : c \in {"v", "w"}, v \in {"20", "5"}}
  \cup {[check |-> "grep", pattern |-> {"a"}, paths |-> p, value |-> v, needs_run_tree |-> n] :
          p \in {<<{"doc"}>>, <<{"doc"}, {"runlog"}>>, <<{"runlog"}>>, <<{"typo"}, {"doc"}>>},
          v \in {"2", "3"}, n \in BOOLEAN}
  \cup {[check |-> "run", cmd |-> c, value |-> v, needs_run_tree |-> n] :
          c \in {"20", "20.0", "broken", "none"}, v \in {"20", "5"}, n \in BOOLEAN}
  \cup {[check |-> "run", cmd |-> "20", json_path |-> p, value |-> "20"] :
          p \in {<<"a", "b", "c">>, <<"a", "x">>, <<"d", "x">>, <<"d">>}}
  \cup {[check |-> "run", cmd |-> "20", unchecked_when |-> "20", regex |-> "r", value |-> "5"],
        [check |-> "file", file |-> "doc", contains |-> "b"], [check |-> "manual", read |-> TRUE],
        [check |-> "absent", glob |-> {"typo"}], [check |-> "blob", path |-> "typo", hash |-> <<"h">>]}
MCPaper ==
  {[claims |-> <<c, [check |-> "manual", artefact |-> TRUE, read |-> TRUE]>>, world |-> w] :
     c \in MCClaims, w \in MCCheckouts}
Lined(claims, yaml) ==
  LET pair(k, first, c) == [is |-> "pair", entry |-> first, key |-> k, value |-> c[k]]
      note(is) == [is |-> is, entry |-> FALSE]
      entry(c) == LET keys == SetToSeq(DOMAIN c)
                  IN  [n \in DOMAIN keys |-> pair(keys[n], n = 1, c)] \o <<note("blank"), note("text")>>
  IN  [pyyaml |-> yaml,
       lines |-> <<note("comment"), note("claims:")>> \o FlattenSeq([k \in DOMAIN claims |-> entry(claims[k])])]

-----------------------------------------------------------------------------
(* Two replicas of two bits: every chain of up to five buffers between a   *)
(* flip-flop and its bit, a chain that goes on to another net, a flip-flop *)
(* of neither replica; places one site or one row apart, or not placed.    *)
Flop(r, n, q) == [cell |-> Rp!FF_CELL, under |-> r, name |-> n, q |-> q]
Buffer(a, o) == [cell |-> "inv", under |-> "top", name |-> "i", a |-> a, o |-> o]
Wire(k) == <<ToString(k), "-">>
Chain(n, net) ==
  [k \in 1 .. n |-> Buffer(Wire(k), IF k = n THEN net ELSE Wire(k + 1))]
MCReplicaNetlists ==
  {<<Flop("A", "a0", <<"A", "0">>), Flop("A", "a1", IF n = 0 THEN net ELSE Wire(1)),
     Flop("B", "b0", <<"B", "0">>), Flop("B", "b1", Wire(11)), Flop("C", "c", Wire(12))>>
   \o Chain(n, net) \o <<Buffer(Wire(11), b)>> \o more :
     n \in 0 .. 5, net \in {<<"A", "1">>, <<"B", "2">>}, b \in {<<"B", "1">>, <<"A", "0">>},
     more \in {<<>>, <<Buffer(<<"A", "1">>, Wire(13)), Buffer(Wire(13), <<"A", "2">>),
                      Buffer(<<"A", "0">>, <<"A", "3">>)>>}}
MCDefs ==
  LET comp(n, is, p) == [is |-> is, name |-> n, x |-> p[1], y |-> p[2]]
      sec(is) == [is |-> is]
  IN  {<<comp("a0", "PLACED", <<0, 0>>), sec("COMPONENTS"), comp("a0", "PLACED", <<0, 0>>),
         comp("a1", s, p), comp("b0", "PLACED", q), comp("x", "PLACED", <<9, 9>>),
         comp("b1", "PLACED", <<4000, 0>>), sec("END COMPONENTS"), comp("b1", "PLACED", <<0, 0>>)>> :
         s \in {"PLACED", "FIXED"}, p, q \in {<<1296, 0>>, <<0, 378>>, <<1344, 0>>, <<2000, 800>>}}
MCPlacements ==
  {[insts |-> i, lines |-> d] : i \in MCReplicaNetlists, d \in MCDefs}
MCDeals ==
  {[places |-> p, labels |-> l] :
     p \in {q \in [1 .. 4 -> {<<0, 0>>, <<3, 0>>, <<0, 5>>, <<4, 4>>, <<9, 9>>, <<0, 9>>}] :
             Cardinality(Range(q)) = 4},
     l \in {<<"A", "A", "B", "B">>, <<"A", "B", "A", "B">>, <<"A", "B", "C", "D">>}}

-----------------------------------------------------------------------------
(* The configurations as they are: the submission before its six keys, a   *)
(* config.json edited by hand, and the other five as they were derived;    *)
(* all of them pinned, or two; every two steps from there, or three.       *)
MCSubmission ==
  <<<<"//", <<"a">>>>, <<"VERILOG_FILES", <<<<"tt", "a.v">>, <<"tt", "b.v">>>>>>,
    <<"DIE_AREA", <<"4x2">>>>, <<"//", <<"b">>>>, <<"FP_DEF_TEMPLATE", <<"tt", "4x2">>>>,
    <<"RUN_KLAYOUT_DRC", <<"0">>>>>>
MCSixKeys ==
  <<<<"TIME_DERATING_CONSTRAINT", <<"float">>>>, <<"SETUP_VIOLATION_CORNERS", Fl!ALL>>>> \o Fl!margin
MCEdited ==
  SubSeq(Fl!base(MCSubmission), 1, 5) \o <<<<"//derate", <<"fix">>>>>> \o SubSeq(MCSixKeys, 1, 2)
  \o <<<<"MAX_CAP_VIOLATION_CORNERS", Fl!ALL>>, <<"MAX_SLEW_VIOLATION_CORNERS", Fl!ALL>>>>
  \o SubSeq(Fl!base(MCSubmission), 6, 8)
MCConfigs ==
  LET ihp == [Fl!targets(MCSubmission) EXCEPT !["config"] = MCEdited]
      sky == MCEdited \o <<<<"PNR_CORNERS", <<"typ">>>>>>
      do(what) == [do |-> what]
      ops == {do("mkconfig"), do("regen"), do("mktiming"), do("pin"),
              [do |-> "src", keys |-> MCSixKeys],
              [do |-> "src", keys |-> SubSeq(MCEdited, 7, 10)],
              [do |-> "edit", name |-> "config", keys |-> <<<<"MAX_CAP_VIOLATION_CORNERS", <<"">>>>>>],
              [do |-> "edit", name |-> "config", keys |-> <<<<"MAX_SLEW_VIOLATION_CORNERS", <<"">>>>>>],
              [do |-> "edit", name |-> "config", keys |-> <<<<"TIME_DERATING_CONSTRAINT", <<"int">>>>>>],
              [do |-> "edit", name |-> "6x2", keys |-> <<<<"SETUP_VIOLATION_CORNERS", <<"*typ*">>>>>>],
              [do |-> "mkvariant", name |-> "postgrt"], [do |-> "mkvariant", name |-> "6x2-rcmodel"]}
  IN  {[start |-> [src |-> MCSubmission, ihp |-> ihp, sky |-> [config |-> x[2]], pins |-> Restrict(ihp, x[1])],
        ops |-> o] :
         x \in {<<Fl!PINNED, sky>>, <<{"config", "6x2"}, MCEdited>>},
         o \in UNION {[1 .. n -> ops] : n \in 0 .. 2}
               \cup {Append(t, do(d)) : t \in [1 .. 2 -> ops], d \in {"mkconfig", "mktiming"}}}

-----------------------------------------------------------------------------
(* A clock of three cycles, a gate and a register of two bits that is also *)
(* the port of its block: at each of five times they may change, before or *)
(* after the clock in the dump; the windows overlap, abut and are gated.   *)
MCScope == <<"tb", "dut">>
MCScopes(first) ==
  LET var(id, name, width, kind) == [t |-> "var", id |-> id, name |-> name, width |-> width, kind |-> kind]
      into(name) == [t |-> "scope", name |-> name]
      block == <<into("u"), var("q", "q", 2, "reg"), var("p", "N", 2, "parameter"), [t |-> "upscope"]>>
      port  == <<var("q", "port", 2, "wire")>>
  IN  <<into("tb"), var("c", "clk", 1, "reg"), var("o", "other", 1, "wire"), into("dut"), var("c", "clk", 1, "wire")>>
      \o (IF first THEN block \o port ELSE port \o block) \o <<var("g", "gate", 1, "wire"), [t |-> "upscope"]>>
MCActivityBodies ==
  LET set(id, v) == [t |-> "value", id |-> id, v |-> v]
      at(t, v, c) ==
        LET clk == <<set("c", <<v>>)>>
        IN  <<[t |-> "time", at |-> t]>> \o (IF c.first THEN c.what \o clk ELSE clk \o c.what)
      moved(first, what) == [first |-> first, what |-> what]
      some == {moved(TRUE, <<>>), moved(TRUE, <<set("q", <<"1">>)>>), moved(FALSE, <<set("q", <<"1", "0">>)>>),
               moved(TRUE, <<set("g", <<"1">>), set("q", <<"0">>)>>),
               moved(FALSE, <<set("g", <<"0">>), set("q", <<"x">>)>>)}
  IN  {<<set("c", <<c0>>), set("q", <<"0">>)>> \o at(1, "1", c[1]) \o at(2, "0", c[2]) \o at(3, "1", c[3])
       \o at(5, "0", c[1]) \o at(6, "1", c[2]) \o <<[t |-> "time", at |-> 8]>> : c0 \in {"0", "x"},
         c \in [1 .. 3 -> some]}
MCActivities ==
  LET win(first, last, gate) == [first |-> first, last |-> last, gate |-> gate, value |-> "1"]
      under(name) == Append(MCScope, name)
  IN  {[dump |-> [header |-> MCScopes(h), body |-> b],
        o |-> [clock |-> <<"tb", "clk">>, scope |-> MCScope, span |-> under("port"),
               derive |-> <<under("gate"), under("port")>>, window |-> w]] :
         h \in BOOLEAN, b \in MCActivityBodies,
         w \in {win(0, Va!NONE, Va!NO_GATE), win(1, 2, Va!NO_GATE), win(0, Va!NONE, under("gate"))}}

Inputs == [activity |-> MCActivities, configs |-> MCConfigs, replicas |-> MCPlacements, deals |-> MCDeals, paper |-> MCPaper, floorplan |-> MCFloorplans, dumps |-> MCDumpPairs, tags |-> MCTrees]

PhysicalHolds(tool, x) ==
  /\ tool = "floorplan" => Fp!FloorplanHolds(x.base, x.lef, x.opts)
  /\ tool = "dumps" =>
       /\ Cg!EquivHonest(x.base, x.gated, ClockPath, {<<"tb", "dut">>}, {<<"tb", "dut", "gate", "q">>})
       /\ \A w \in {{}, GatedWindow} : Cg!DutyHonest(x.gated, ClockPath, {Enable}, w)
  /\ tool = "paper" =>
       /\ Rc!CloneAgrees(x.claims[1], x.world)
       /\ \A y \in {"refuses", "absent"} :
            Rc!RegistryRead(Lined(x.claims, y), x.claims, x.world)
  /\ tool = "replicas" => Rp!PlacementMeasured(x.insts, {"A", "B"}, x.lines)
  /\ tool = "activity" => Va!ActivityMeasured(x.dump, x.o)
  /\ tool = "configs" => Fl!ConfigsFaithful(x.start, x.ops)
  /\ tool = "deals" => Rp!NullModelExact(x.places, x.labels)
  /\ tool = "tags" => Rc!TagsSettle(x)
=============================================================================
