------------------------------ MODULE MCRelease ------------------------------
(***************************************************************************)
(* Bounded inputs for the golden models, the generators of the register    *)
(* and memory maps and the release tooling, and what holds of each program.*)
(***************************************************************************)
EXTENDS Integers, Sequences, FiniteSets, SequencesExt, Functions, TLC

Tt  == INSTANCE TtSubmission
Pub == INSTANCE PublicMirror
Dig == INSTANCE ArtefactDigests
Reg == INSTANCE RegMap
Gm  == INSTANCE GoldenModel
Mem == INSTANCE MemMap

-----------------------------------------------------------------------------
(* The register map and the die, and worlds a value or two away.           *)
Shipped ==
  LET t == Reg!gen_python(Reg!NPU_REGS)
  IN  [ADDR |-> t.ADDR, ACCESS |-> t.ACCESS, FIELDS |-> t.FIELDS,
       regs |-> [ECC_INJ_POS |-> 160, TMR_INJ |-> 164, CNT_TMR |-> 168,
                 CNT_EVQ_OUT_OVF |-> 172, CNT_EVQ_PAR |-> 176],
       bits |-> [CNT_TMR |-> 5, CNT_EVQ_OUT_OVF |-> 6, CNT_EVQ_PAR |-> 7],
       rtl  |-> [p \in Range(Tt!SOURCES \o Tt!INCLUDES) |-> p[2]]]
Drop(f, x) == [y \in DOMAIN f \ {x} |-> f[y]]
MCDies ==
  {Shipped}
  \cup {[Shipped EXCEPT !.bits[n] = b, !.FIELDS["FAULT_CLR"]["CNT_DED"] = c,
                        !.regs[r] = o] :
          n \in DOMAIN Shipped.bits, b \in {1, 4, 5, 6, 8}, c \in {1, 2, 5, 9},
          r \in {"TMR_INJ", "CNT_TMR"}, o \in {160, 168, 180, 508}}
  \cup {[Shipped EXCEPT !.bits = Drop(@, n), !.regs = Drop(@, r)] :
          n \in {"CNT_TMR", "CNT_EVQ_PAR", "none"}, r \in {"CNT_TMR", "TMR_INJ", "none"}}
  \cup {[Shipped EXCEPT !.ACCESS[n] = a, !.ADDR = Drop(@, m)] :
          n \in {"CTRL", "FAULT_CLR"}, a \in {"RO", "RW", "W1C"}, m \in {"NODE_ID", "W_BASE"}}
  \cup {[Shipped EXCEPT !.rtl = Drop(@, p)] : p \in DOMAIN Shipped.rtl}

(* Submission trees: generated files that are right, edited or gone, one   *)
(* no longer generated, and a developer's artefacts.                       *)
TtFiles == Restrict(Tt!build(Shipped),
                    {<<"info", ".yaml">>, <<"src", "pilot_top", ".v">>, <<"MANIFEST", ".sha256">>})
Hand == [hand |-> "edited"]
MCTtTrees ==
  LET paths == {<<"info", ".yaml">>, <<"src", "pilot_top", ".v">>, <<"src", "old", ".v">>,
                <<"src", "user_config", ".json">>, <<"test", "sim_build", "tb", ".v">>,
                <<"test", "tb", ".fst">>, <<"tt", "README", ".md">>}
  IN  {[files |-> TtFiles,
        tree  |-> [p \in have |-> IF p \in right /\ p \in DOMAIN TtFiles THEN TtFiles[p] ELSE Hand]
                  @@ (IF whole THEN TtFiles ELSE <<>>)] :
         have \in SUBSET paths, right \in {{}, paths}, whole \in BOOLEAN}

(* Templates: the recorded one, one file of it gone or changed, and other  *)
(* texts of config.json.                                                   *)
Template == Tt!VERBATIM @@ Tt!UPSTREAM_BASE
MCTemplates ==
  {Template} \cup {Drop(Template, p) : p \in DOMAIN Template}
  \cup {[Template EXCEPT ![p] = [verbatim |-> <<"new">>]] : p \in DOMAIN Template \ {Tt!CONFIG}}
  \cup {[Template EXCEPT ![Tt!CONFIG] = [config |-> t]] :
          t \in {<<>>} \cup {SubSeq(Tt!config_text, 1, n) \o e :
                   n \in 5 .. 7, e \in {<<>>, <<"}">>, <<"}", "}">>, <<"}", "space", "}">>,
                                        <<",", "PNR_CORNERS", "}">>, <<",", "NEW", "}">>}}}

-----------------------------------------------------------------------------
(* Repositories to publish: the fragment of one file in every arrangement  *)
(* of up to three words, the section's headings in any order.              *)
Words(n, S) == UNION {[1 .. k -> S] : k \in 0 .. n}
Repo(road, market, work, cites) ==
  LET frag(a) == [text |-> <<"plain", a, "held">>]
      roadmap == "refusing to start jobs on this account"
      files ==
        (<<"ROADMAP.md">> :> [text |-> road])
        @@ (<<"scripts", "ci_local.sh">> :> frag("was refused before starting"))
        @@ (<<"docs", "07-design-review.md">> :> frag("EUR"))
        @@ (<<"docs", "05-market-positioning.md">> :> [text |-> market])
        @@ (<<"docs", "06-funding-and-shuttle.md">> :> [text |-> <<"held">>])
        @@ (<<"docs", "13-nlnet-application.md">> :> [text |-> <<"docs/06", "held">>])
        @@ (<<"docs", "14-licensing-decision.md">> :> [text |-> cites])
        @@ (<<".github", "workflows", "checks.yml">> :> [text |-> work])
        @@ (<<"README.md">> :> [text |-> <<"plain">>])
        @@ (<<"ci-local-log.tsv">> :>
              [log |-> <<<<<<"#">>>>, <<<<"when">>, <<"head">>>>, <<<<"t1">>, <<"abc">>>>,
                         <<<<"">>>>, <<<<"t2">>, <<"">>>>, <<<<"t3">>>>>>])
  IN  [tracked |-> DOMAIN files, files |-> files,
       exec |-> {<<"scripts", "ci_local.sh">>}, rev |-> "rev"]
GoodRoad == <<"refusing to start jobs on this account", "held">>
GoodMarket == <<"## 3.", "held", "## 4.", "plain">>
GoodWork == <<Pub!CHECKS_LINE, "are non-starts, on", "held">>
MCRepos ==
  {Repo(r, GoodMarket, GoodWork, c) :
     r \in Words(4, {"held", "refusing to start jobs on this account", "billing condition"}),
     c \in {<<>>, <<"docs/06", "docs/13">>}}
  \cup {Repo(GoodRoad, m, GoodWork, <<>>) : m \in Words(4, {"## 3.", "## 4.", "held"})}
  \cup {Repo(GoodRoad, GoodMarket, w, <<>>) :
          w \in Words(4, {Pub!CHECKS_LINE, "are non-starts, on", "held", "IN THIS MIRROR"})}

MirrorRepo == Repo(GoodRoad, GoodMarket, GoodWork, <<>>)
MCMirrors ==
  LET files == Pub!build(MirrorRepo)
      good  == Pub!write(MirrorRepo, files, <<>>)
      left  == {<<"docs", "99-withdrawn.md">>, <<".git", "HEAD">>, <<"sw", "__pycache__", "x.pyc">>}
  IN  {[p \in l |-> [data |-> [text |-> <<"plain">>], exec |-> FALSE]] @@ base :
         l \in SUBSET left,
         base \in {<<>>, good} \cup {[good EXCEPT ![p].exec = ~@] : p \in DOMAIN good}
                  \cup {[good EXCEPT ![p].data = [text |-> <<"edited">>]] : p \in DOMAIN good}
                  \cup {Drop(good, p) : p \in DOMAIN good}}

-----------------------------------------------------------------------------
(* Every three things done to two artefacts and their manifest, one of     *)
(* them in two groups.                                                     *)
MCGroups ==
  <<[name |-> "g1", items |-> <<[role |-> "netlist", finds |-> {1}],
                                [role |-> "text", finds |-> {1, 2}]>>],
    [name |-> "g2", items |-> <<[role |-> "text", finds |-> {2, 3}]>>]>>
op(do, p, d, n, b) == [do |-> do, path |-> p, file |-> [data |-> d, size |-> n, breaks |-> b]]
put(p, d, n, b) == op("put", p, d, n, b)
plain(do)       == op(do, 1, 0, 0, FALSE)
MCOps ==
  {start \o ops :
     start \in {<<>>, <<put(1, 1, 5, FALSE), put(2, 2, 5, FALSE), plain("write")>>},
     ops \in [1 .. 3 -> {plain("write"), plain("shrink"), plain("remove"), plain("derive"),
                         put(1, 1, 5, FALSE), put(2, 4, 5, FALSE), put(3, 3, 5, FALSE),
                         put(2, 0, 0, FALSE), put(1, 5, 5, TRUE)}]}

ln(t, k, v) == Dig!line(t, k, v)
csv(rows) == [lines |-> [k \in DOMAIN rows |-> [cells |-> rows[k]]]]
MCTables ==
  {csv(<<<<h, "wdog_rst_events">>>> \o rows) :
     h \in {"cls", "armed_cls", "bit"},
     rows \in UNION {[1 .. n -> {<<>>, <<"SDC", "1">>, <<"sdc", "x">>, <<"DUE", "2">>, <<"DUE">>}] :
                       n \in 0 .. 3}}
MCSweeps ==
  {[lines |-> [k \in DOMAIN s |-> ln("PERIOD", s[k][1], s[k][2])]] :
     s \in UNION {[1 .. n -> {19, 20, 25, 26} \X {0, 4}] : n \in 0 .. 3}}
MCReports ==
  {[lines |-> <<ln("Number", "devices", <<d, e>>), ln("Number", "nets", <<n, 4>>)>>
              \o m \o <<ln("Final", "match", r)>>] :
     d \in 3 .. 4, e \in 3 .. 4, n \in 3 .. 4, r \in {"unique", "differ"},
     m \in {<<>>, <<ln("Mismatch", "x", 0)>>}}
MCMapFiles ==
  {[size |-> 1, named_json |-> TRUE,
    json |-> [k \in {"cycles", "gl_flops", "note"} |-> v] @@ [entries |-> 9],
    lines |-> pre \o <<ln("entries", "entries", 9)>> \o post] :
     v \in 1 .. 2,
     pre \in {<<ln("scalar", "cycles", 1), ln("scalar", "note", 1), ln("scalar", "gl_flops", 1)>>,
              <<ln("scalar", "cycles", 2), ln("scalar", "gl_flops", 2), ln("scalar", "note", 2)>>},
     post \in {<<>>, <<ln("scalar", "cycles", 7)>>, <<ln("entries", "entries", 1)>>}}

ReleaseInputs ==
  [dies |-> MCDies, tttrees |-> MCTtTrees, templates |-> MCTemplates, repos |-> MCRepos,
   mirrors |-> MCMirrors, pins |-> MCOps, tables |-> MCTables, sweeps |-> MCSweeps,
   lvs |-> MCReports, mapfiles |-> MCMapFiles]

ReleaseHolds(tool, x) ==
  /\ tool = "dies"      => /\ Tt!DatasheetTrue(x)
                           /\ x = Shipped => Tt!ShippedDatasheet(x) /\ Dig!EveryRoleExtracted
  /\ tool = "tttrees"   => Tt!SubmissionSettles(x.files, x.tree)
  /\ tool = "templates" => Tt!TemplateClaim(Shipped, x)
  /\ tool = "repos"     => Pub!NothingHeldTravels(x)
  /\ tool = "mirrors"   => Pub!MirrorSettles(MirrorRepo, x)
  /\ tool = "pins"      => Dig!RecordKept(MCGroups, x)
  /\ tool = "tables"    => Dig!RecordsTallied(x)
  /\ tool = "sweeps"    => Dig!SweepCloses(x)
  /\ tool = "lvs"       => \A y \in MCReports : Dig!LvsToldApart(x, y)
  /\ tool = "mapfiles"  => Dig!BigMapAgrees(x)

-----------------------------------------------------------------------------
(* Every pattern of up to two flipped bits, some of three.                 *)
MCWords ==
  {[data |-> d, flips |-> f] :
     d \in {{}, {0, 5, 17, 63}},
     f \in {{a, b} : a, b \in 0 .. 71} \cup {{}}
           \cup {{0, a, b} : a \in {1, 40, 70}, b \in {56, 63, 64, 71}}}

(* Every four calls on the counters, which saturate at 2.                  *)
call(what, mask, flips, word) ==
  [op |-> what, mask |-> mask, flips |-> flips, word |-> word]
MCCalls ==
  UNION {[1 .. n -> {call("reset", {}, <<>>, 0), call("fault_clr", {0, 1}, <<>>, 0),
                     call("fault_clr", {4}, <<>>, 0), call("status_clr", {5}, <<>>, 0),
                     call("status_clr", {4}, <<>>, 0), call("observe", {}, <<3>>, 1),
                     call("observe", {}, <<3, 9>>, 2), call("observe", {}, <<3, 70>>, 3)}]
           : n \in 0 .. 4}

(* Two layers, of three and two neurons, on cores of one and of two.       *)
config(th, vr, refr, leak) ==
  [thresh |-> th, v_reset |-> vr, leak_shift |-> 1, syn_shift |-> 1,
   refr_period |-> refr, leak_en |-> leak]
MCNetworks ==
  {[layers |->
      <<[weights |-> [a \in 0 .. 1 |-> [j \in 0 .. 2 |-> (((a + 2) * (j + k) * 5) % 16) - 8]],
         config  |-> config(th, vr, refr, TRUE)],
        [weights |-> [a \in 0 .. 2 |-> [j \in 0 .. 1 |-> IF j = a % 2 THEN 7 ELSE 3 - a]],
         config  |-> config(8, 0, 1, leak)]>>,
    core |-> n, frames |-> <<x, y, x>>] :
     k \in 1 .. 2, th \in {1, 9}, vr \in {-3, 0}, refr \in 0 .. 1, leak \in BOOLEAN,
     n \in 1 .. 2, x \in {<<0>>, <<1, 0, 0>>}, y \in {<<>>, <<0, 1>>}}

MCLeaks == {[v |-> v, shift |-> s] :
              v \in (-20 .. 20) \cup {-32768, -32767, 32767, 4096}, s \in 0 .. 15}

(* A core of 18 neurons, whose weights take three memory words.            *)
MCCores ==
  {[c |-> Gm!core(18, 2, [a \in 0 .. 1 |-> [j \in 0 .. 17 |-> ((a + 3 * j) % 15) - 7]],
                   config(9, vr, refr, leak), 5),
    poisoned |-> p, frames |-> [t \in 1 .. 4 |-> IF t \in q THEN <<0, 1>> ELSE <<>>]] :
     vr \in {-5, 0}, refr \in 0 .. 3, leak \in BOOLEAN, p \in {{}, {0, 2}},
     q \in {{1}, {1, 2}, {1, 2, 3}, {1, 3, 4}}}

(* The project's map, and maps one or two values away from it.             *)
Here == Mem!MEMMAP
R    == Here.regions
MCMaps ==
  {m \in {Here}
     \cup {[Here EXCEPT !.regions[k].base = @ + d, !.regions[k].size = z] :
             k \in DOMAIN R, d \in {-8192, 0, 1, 8, 8192}, z \in {0, 1, 12, 64, 256, 8192}}
     \cup {[Here EXCEPT !.regions[k].base = R[j].base] : k, j \in DOMAIN R}
     \cup {[Here EXCEPT !.regions[k].port = R[j].port] : k, j \in DOMAIN R}
     \cup {[Here EXCEPT !.apb_slots[k].slot = n, !.regions[9].size = z, !.regions[9].base = @ - d] :
             k \in {1, 8, 16}, n \in {0, 1, 128, 256, 257}, z \in {8192, 16384}, d \in {0, 8192}}
     \cup {[Here EXCEPT !.apb_slots[k].irq = i, !.apb_slots[k].line = l] :
             k \in {1, 13}, i \in {0, 2, 30, 32}, l \in {-1, 0, 13, 14, 15}}
     \cup {[Here EXCEPT !.core_irqs[k].id = i] : k \in {1, 4}, i \in {0, 3, 15, 16, 30, 31, 32}} :
   \A k \in DOMAIN R : m.regions[k].base >= 0}
MCTrees == [{"vh", "ld", "notes"} -> {"old", "new"}]

(* Two registers of an 8-bit map, the second with two fields.              *)
MCRegs ==
  {<<Reg!reg("A", o1, "RW", 0, <<>>),
     Reg!reg(n, o2, "RW", 1, <<<<f, b, w>>, <<"G", c, x>>>>)>> :
     n \in {"A", "B"}, o1, o2 \in {0, 1, 4, 8}, f \in {"F", "G"}, b, c \in -1 .. 2, w, x \in 0 .. 2}
  \cup {Reg!NPU_REGS}

GoldenInputs ==
  [words |-> MCWords, calls |-> MCCalls, networks |-> MCNetworks, leaks |-> MCLeaks,
   cores |-> MCCores, memmap |-> MCMaps, trees |-> MCTrees, regmap |-> MCRegs]

GoldenHolds(tool, x) ==
  /\ tool = "words"    => Gm!ErrorsHandled(x.data, x.flips)
  /\ tool = "calls"    => Gm!CountersTellTheTruth(x, 2)
  /\ tool = "networks" => Gm!TiledIsWide(x.layers, x.core, x.frames)
  /\ tool = "leaks"    => Gm!LeakShrinks(x.v, x.shift)
  /\ tool = "cores"    => Gm!RefractoryKept(x.c, x.poisoned, x.frames)
  /\ tool = "memmap"   => /\ x = Here => Mem!validate(x)
                          /\ Mem!MapDecodes(x) /\ Mem!HeadersAgree(x)
                          /\ Mem!VectorsDistinct(x)
                          /\ Mem!TablesDescribeMap(x)
  /\ tool = "trees"    => Mem!GenerationSettles(x, [f \in {"vh", "ld"} |-> "new"])
  /\ tool = "regmap"   => IF Len(x) = 2 THEN Reg!MapUnambiguous(x, 3, 8)
                          ELSE /\ Reg!validate(x, 12, 32) /\ Reg!MapUnambiguous(x, 12, 32)
                               /\ Reg!ClearsAgree(Reg!gen_python(x))

Inputs == ReleaseInputs @@ GoldenInputs
=============================================================================
