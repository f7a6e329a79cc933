---------------------------- MODULE TtSubmission ----------------------------
(***************************************************************************)
(* scripts/gen_tt_submission.py: the Tiny Tapeout submission tree.  A path *)
(* is the sequence of its directories, the stem and the extension of its   *)
(* file; what a file holds is a record of the facts the text states; a     *)
(* tree maps the paths of its files to what they hold.  A world w is what  *)
(* the generator reads: the tables ADDR, ACCESS and FIELDS of              *)
(* regmap_gen.py, the constants pilot_top.v decodes (regs, bits) and the   *)
(* files of hw/rtl (rtl).                                                  *)
(***************************************************************************)
EXTENDS Integers, Sequences, FiniteSets, FiniteSetsExt, SequencesExt, Functions

Bits(n) == {b \in 0 .. 15 : (n \div 2 ^ b) % 2 = 1}
Firsts(pairs) == {pairs[k][1] : k \in DOMAIN pairs}

-----------------------------------------------------------------------------
(* What the generator knows itself.                                        *)
TOP_MODULE   == "tt_um_melihakbulut_nssoc"
TILES        == "6x2"
RTL_SOURCES  == <<TOP_MODULE, "pilot_top", "lif_core", "aer_fifo", "tmr_voter",
                  "secded_enc", "secded_dec">>
RTL_INCLUDES == <<"npu_regs">>
SOURCES      == [k \in DOMAIN RTL_SOURCES |-> <<"src", RTL_SOURCES[k], ".v">>]
INCLUDES     == [k \in DOMAIN RTL_INCLUDES |-> <<"src", RTL_INCLUDES[k], ".vh">>]

REG_SUBSET == <<
  <<"ID", "RO">>, <<"VERSION", "RO">>, <<"SCRATCH", "RW">>, <<"CTRL", "RW">>,
  <<"STATUS", "RO">>, <<"STATUS_CLR", "W1C">>, <<"CFG_NEUR", "RW">>, <<"CFG_AXON", "RW">>,
  <<"CFG_THRESH", "RW">>, <<"CFG_VRESET", "RW">>, <<"CFG_LEAK", "RW">>,
  <<"CFG_SYNSHIFT", "RW">>, <<"CFG_REFR", "RW">>, <<"CFG_FLAGS", "RW">>,
  <<"PASS_TILE_OFF", "RW">>, <<"W_ADDR", "RW">>, <<"W_DATA_LO", "WO">>,
  <<"W_DATA_HI", "WO">>, <<"N_ADDR", "RW">>, <<"N_DATA", "RW">>, <<"CNT_SEC", "RO">>,
  <<"CNT_DED", "RO">>, <<"CNT_EVQ_OVF", "RO">>, <<"CNT_AXON_OOR", "RO">>,
  <<"FAULT_ADDR", "RO">>, <<"ECC_INJ", "WO">>, <<"FAULT_CLR", "W1C">>, <<"EVQ_STAT", "RO">>,
  <<"EVQ_IN", "WO">>, <<"EVQ_OUT", "RO">>, <<"NODE_ID", "RW">>>>
PILOT_ONLY_REGS ==
  <<<<"ECC_INJ_POS", "RW">>, <<"TMR_INJ", "RW">>, <<"CNT_TMR", "RO">>,
    <<"CNT_EVQ_OUT_OVF", "RO">>, <<"CNT_EVQ_PAR", "RO">>>>
FAULT_CLR_MEANING ==
  {"CNT_SEC", "CNT_DED", "CNT_EVQ_OVF", "CNT_AXON_OOR", "FAULT_ADDR", "CNT_TMR",
   "CNT_EVQ_OUT_OVF", "CNT_EVQ_PAR"}
COUNTERS == {n \in FAULT_CLR_MEANING : n # "FAULT_ADDR"}

PINOUT_UI  == <<"SER_SCK", "SER_CS_N", "SER_MOSI", "AER_IN_STB", "AER_IN_TICK", "AER_OUT_ACK",
                "SCRUB_STB", "">>
PINOUT_UO  == <<"SER_MISO", "BUSY", "AER_IN_RDY", "AER_OUT_VLD", "ERR", "SEC", "DED", "TMR">>
PINOUT_UIO == <<<<"AER_IN_ADDR", 0>>, <<"AER_IN_ADDR", 1>>, <<"AER_IN_ADDR", 2>>,
                <<"AER_IN_ADDR", 3>>, <<"AER_OUT_ID", 0>>, <<"AER_OUT_ID", 1>>,
                <<"AER_OUT_ID", 2>>, <<"AER_OUT_ID", 3>>>>

CONFIG_OVERRIDES ==
  <<"SYNTH_HIERARCHY_MODE", "TIME_DERATING_CONSTRAINT", "SETUP_VIOLATION_CORNERS",
    "PNR_CORNERS", "RUN_POST_GRT_RESIZER_TIMING", "RUN_POST_GRT_DESIGN_REPAIR",
    "GRT_RESIZER_SETUP_SLACK_MARGIN", "MAX_CAP_VIOLATION_CORNERS",
    "MAX_SLEW_VIOLATION_CORNERS">>

(* The files recorded from the template.  A config.json is its keys and    *)
(* the whitespace and braces around them, one token each; three keys stand *)
(* for upstream's twenty-four.                                             *)
CONFIG == <<"src", "config", ".json">>
config_text ==
  <<"{", "PL_TARGET_DENSITY_PCT", ",", "CLOCK_PERIOD", ",", "MAGIC_WRITE_LEF_PINONLY",
    "space", "}", "space">>
VERBATIM_PATHS ==
  {<<".github", "workflows", "gds", ".yaml">>, <<".github", "workflows", "test", ".yaml">>,
   <<".github", "workflows", "docs", ".yaml">>, <<".github", "workflows", "fpga", ".yaml">>,
   <<".devcontainer", "Dockerfile", "">>, <<".devcontainer", "devcontainer", ".json">>,
   <<".devcontainer", "copy_tt_support_tools", ".sh">>, <<".vscode", "extensions", ".json">>,
   <<".vscode", "settings", ".json">>, <<"test", "requirements", ".txt">>, CONFIG}
VERBATIM ==
  [p \in VERBATIM_PATHS |-> IF p = CONFIG THEN [config |-> config_text] ELSE [verbatim |-> p]]
EXTENDED == {CONFIG}
GITIGNORE   == <<".gitignore", "">>
TEST_README == <<"test", "README", ".md">>
UPSTREAM_BASE == [p \in {GITIGNORE, TEST_README} |-> [verbatim |-> p]]

(* Upstream's text, less what closes it, then the keys that are added; of  *)
(* no upstream text, the recorded one.                                     *)
rstrip(text, chars) ==
  SubSeq(text, 1, Max({0} \cup {k \in DOMAIN text : text[k] \notin chars}))
config_json(base) ==
  LET text == IF base = <<>> THEN config_text ELSE base
      cfg  == rstrip(rstrip(rstrip(text, {"space"}), {"}"}), {"space"})
  IN  IF CONFIG_OVERRIDES = <<>> THEN text
      ELSE cfg \o <<",", "space", "added">> \o CONFIG_OVERRIDES \o <<"space", "}", "space">>

-----------------------------------------------------------------------------
(* The register tables of the datasheet: the map's registers with their    *)
(* access codes as this file has them, and those only the die decodes.     *)
reg_table_ok(w) ==
  \A k \in DOMAIN REG_SUBSET :
    LET r == REG_SUBSET[k] IN r[1] \in DOMAIN w.ADDR /\ w.ACCESS[r[1]] = r[2]
reg_table(w) ==
  [k \in DOMAIN REG_SUBSET |-> <<w.ADDR[REG_SUBSET[k][1]], REG_SUBSET[k][1], REG_SUBSET[k][2]>>]

pilot_only_ok(w) == DOMAIN w.regs = Firsts(PILOT_ONLY_REGS)
pilot_only_table(w) ==
  SortSeq([k \in DOMAIN PILOT_ONLY_REGS |->
             LET r == PILOT_ONLY_REGS[k] IN <<w.regs[r[1]], r[1], r[2]>>],
          LAMBDA a, b : a[1] < b[1])

pilot_decode_ok(w) == DOMAIN w.regs # {} /\ DOMAIN w.bits # {}

(* Variant: two counters may share a bit.                                  *)
fault_clr_ok_shared(w) ==
  LET arch == w.FIELDS["FAULT_CLR"]
  IN  /\ DOMAIN arch \cap DOMAIN w.bits = {}
      /\ DOMAIN arch \cup DOMAIN w.bits \subseteq FAULT_CLR_MEANING
      /\ DOMAIN w.bits \subseteq DOMAIN w.regs
      /\ DOMAIN w.regs \cap COUNTERS \subseteq DOMAIN w.bits

(* The bits of FAULT_CLR, the map's and the pilot's: each of one name, a   *)
(* name this file can describe; every one of the pilot's a register, and   *)
(* every pilot-only counter among them.                                    *)
fault_clr_ok(w) ==
  LET arch == w.FIELDS["FAULT_CLR"]
      all  == arch @@ w.bits
  IN  /\ DOMAIN arch \cap DOMAIN w.bits = {}
      /\ \A n, m \in DOMAIN all : all[n] = all[m] => n = m
      /\ DOMAIN all \subseteq FAULT_CLR_MEANING
      /\ DOMAIN w.bits \subseteq DOMAIN w.regs
      /\ DOMAIN w.regs \cap COUNTERS \subseteq DOMAIN w.bits
fault_clr_bits(w) == AntiFunction(w.FIELDS["FAULT_CLR"] @@ w.bits)
fault_clr_mask(w) == SumSet({2 ^ b : b \in DOMAIN fault_clr_bits(w)})

(* The sentence under the table: the highest of the map's bits, the        *)
(* pilot's bits, and the value that clears everything.                     *)
fault_clr_prose(w) ==
  [top |-> Max(Range(w.FIELDS["FAULT_CLR"])), pilot |-> Range(w.bits),
   mask |-> fault_clr_mask(w)]

info_md(w) ==
  [registers |-> reg_table(w), pilot |-> pilot_only_table(w), clears |-> fault_clr_bits(w),
   prose |-> fault_clr_prose(w), ui |-> PINOUT_UI, uo |-> PINOUT_UO]

-----------------------------------------------------------------------------
(* The other generated files.                                              *)
info_yaml ==
  [top_module |-> TOP_MODULE, tiles |-> TILES, source_files |-> SOURCES,
   pinout |-> [ui |-> PINOUT_UI, uo |-> PINOUT_UO, uio |-> PINOUT_UIO]]
readme_md == [top |-> TOP_MODULE, tiles |-> TILES, appended |-> Len(CONFIG_OVERRIDES)]
license_texts ==
  {<<"LICENSE", "">>, <<"LICENSES", "CERN-OHL-W-2.0", ".txt">>,
   <<"LICENSES", "Apache-2.0", ".txt">>}
license(p) == [license |-> IF p[2] = "Apache-2.0" THEN "Apache-2.0" ELSE "CERN-OHL-W-2.0"]
test_makefile == [sources |-> SOURCES, includes |-> INCLUDES]
test_tb_v == [instance |-> TOP_MODULE]
test_gtkw == [signals |-> {"ena", "clk", "rst_n", "ui_in", "uio_in", "uio_oe", "uio_out",
                           "uo_out"}]

(* The smoke test: the pins it drives and samples, the registers it names. *)
TEST_PY_PINS ==
  [ui |-> [SER_SCK |-> 0, SER_CS_N |-> 1, SER_MOSI |-> 2, AER_IN_STB |-> 3, AER_IN_TICK |-> 4,
           AER_OUT_ACK |-> 5, SCRUB_STB |-> 6],
   uo |-> [SER_MISO |-> 0, BUSY |-> 1, AER_IN_RDY |-> 2, AER_OUT_VLD |-> 3, ERR |-> 4,
           SEC |-> 5, DED |-> 6, TMR |-> 7]]
TEST_PY_ADDRESSES ==
  {"ID", "VERSION", "SCRATCH", "CTRL", "STATUS", "CFG_NEUR", "CFG_AXON", "CFG_THRESH",
   "CFG_SYNSHIFT", "CFG_FLAGS", "W_ADDR", "W_DATA_LO", "W_DATA_HI"}
test_py(w) == [pins |-> TEST_PY_PINS, address |-> [n \in TEST_PY_ADDRESSES |-> w.ADDR[n]]]

-----------------------------------------------------------------------------
(* The whole tree, when nothing it is built from is refused.               *)
BuildOk(w) ==
  /\ pilot_decode_ok(w) /\ reg_table_ok(w) /\ pilot_only_ok(w) /\ fault_clr_ok(w)
  /\ TEST_PY_ADDRESSES \subseteq DOMAIN w.ADDR
  /\ Range(SOURCES \o INCLUDES) \subseteq DOMAIN w.rtl
MANIFEST == <<"MANIFEST", ".sha256">>

build(w) ==
  LET generated ==
        [p \in {<<"README", ".md">>}         |-> readme_md]
        @@ [p \in {<<"info", ".yaml">>}      |-> info_yaml]
        @@ [p \in {<<"docs", "info", ".md">>} |-> info_md(w)]
        @@ [p \in {<<"test", "Makefile", "">>} |-> test_makefile]
        @@ [p \in {<<"test", "tb", ".v">>}   |-> test_tb_v]
        @@ [p \in {<<"test", "tb", ".gtkw">>} |-> test_gtkw]
        @@ [p \in {<<"test", "test", ".py">>} |-> test_py(w)]
        @@ [p \in {CONFIG}                   |-> [config |-> config_json(<<>>)]]
        @@ [p \in DOMAIN UPSTREAM_BASE       |-> [base |-> p, extra |-> TRUE]]
        @@ [p \in license_texts              |-> license(p)]
        @@ [p \in Range(SOURCES \o INCLUDES) |-> [rtl |-> w.rtl[p]]]
      files == generated @@ VERBATIM
  IN  files @@ [p \in {MANIFEST} |-> [sums |-> {<<q, files[q]>> : q \in DOMAIN files}]]

ARTIFACT_DIRS == {"runs", "sim_build", "tt", "__pycache__", "tt_submission", "output",
                  ".pytest_cache", ".git"}
ARTIFACT_FILES == {<<"src", "user_config", ".json">>, <<"src", "config_merged", ".json">>,
                   <<"test", "gate_level_netlist", ".v">>, <<"test", "results", ".xml">>,
                   <<"commit_id", ".json">>}
ARTIFACT_SUFFIXES == {".fst", ".vcd", ".fst.hier", ".pyc"}
is_generated(p) ==
  /\ {p[k] : k \in 1 .. Len(p) - 2} \cap ARTIFACT_DIRS = {}
  /\ p \notin ARTIFACT_FILES /\ Last(p) \notin ARTIFACT_SUFFIXES

(* Variant: files that are no longer produced stay.                        *)
write_over(files, tree) == files @@ tree
write(files, tree) ==
  files @@ [p \in {q \in DOMAIN tree : q \in DOMAIN files \/ ~is_generated(q)} |-> tree[p]]
check(files, tree) ==
  {<<"missing", p>> : p \in DOMAIN files \ DOMAIN tree}
  \cup {<<"differs", p>> : p \in {q \in DOMAIN files \cap DOMAIN tree : tree[q] # files[q]}}
  \cup {<<"stray", p>> : p \in {q \in DOMAIN tree \ DOMAIN files : is_generated(q)}}

(* The built tree against a freshly fetched template: the files that are   *)
(* gone from it or not as the tree has them.                               *)
diff_template(files, upstream) ==
  LET expected(p) == IF p \in EXTENDED THEN [config |-> config_json(upstream[p].config)]
                     ELSE upstream[p]
  IN  {p \in DOMAIN VERBATIM : IF p \in DOMAIN upstream THEN files[p] # expected(p) ELSE TRUE}
      \cup {p \in DOMAIN UPSTREAM_BASE :
              IF p \in DOMAIN upstream THEN upstream[p] # UPSTREAM_BASE[p] ELSE TRUE}

-----------------------------------------------------------------------------
(* From any tree, writing leaves one that is checked clean, a developer's  *)
(* own artefacts untouched; and a tree that is checked clean differs from  *)
(* the generator's in such artefacts only.                                 *)
SubmissionSettles(files, tree) ==
  LET after == write(files, tree)
  IN  /\ check(files, after) = {}
      /\ \A p \in DOMAIN tree \ DOMAIN files :
           ~is_generated(p) => p \in DOMAIN after /\ after[p] = tree[p]
      /\ check(files, tree) = {} => write(files, tree) = tree

(* A datasheet that is built tells a host the truth: one write of the mask *)
(* clears every counter the die has outside the map, one bit each; the     *)
(* test talks to the offsets the datasheet gives; every source the project *)
(* file and the Makefile name is shipped as it is, and the manifest sums   *)
(* every other file.                                                       *)
DatasheetTrue(w) ==
  BuildOk(w) =>
    LET files == build(w)
        sheet == files[<<"docs", "info", ".md">>]
        tests == files[<<"test", "test", ".py">>]
    IN  /\ Bits(sheet.prose.mask) = DOMAIN sheet.clears
        /\ \A n \in DOMAIN w.bits : sheet.clears[w.bits[n]] = n
        /\ \A n \in DOMAIN w.regs \cap COUNTERS : n \in Range(sheet.clears)
        /\ Cardinality(DOMAIN sheet.clears)
             = Cardinality(DOMAIN w.FIELDS["FAULT_CLR"]) + Cardinality(DOMAIN w.bits)
        /\ \A n \in DOMAIN tests.address :
             \E k \in DOMAIN sheet.registers :
               sheet.registers[k][1] = tests.address[n] /\ sheet.registers[k][2] = n
        /\ \A p \in Range(files[<<"info", ".yaml">>].source_files)
                      \cup Range(files[<<"test", "Makefile", "">>].includes) :
             files[p] = [rtl |-> w.rtl[p]]
        /\ files[MANIFEST].sums = {<<p, files[p]>> : p \in DOMAIN files \ {MANIFEST}}
        /\ \A k \in DOMAIN sheet.pilot : \A j \in 1 .. k - 1 : sheet.pilot[j][1] <= sheet.pilot[k][1]

(* The shipped map and die: the datasheet's two tables give no offset      *)
(* twice and every offset fits the command byte, the map's registers left  *)
(* out are the two of the pass sequencer, the pilot's bits are above the   *)
(* map's, and pins are where the pin tables have them.                     *)
ShippedDatasheet(w) ==
  LET sheet == info_md(w)
      rows  == sheet.registers \o sheet.pilot
  IN  /\ BuildOk(w)
      /\ \A k, j \in DOMAIN rows : rows[k][1] = rows[j][1] => k = j
      /\ \A k \in DOMAIN rows : rows[k][1] % 4 = 0 /\ rows[k][1] \div 4 < 128
      /\ DOMAIN w.ADDR \ {REG_SUBSET[k][1] : k \in DOMAIN REG_SUBSET} = {"W_BASE", "PASS_ID"}
      /\ DOMAIN sheet.clears = 0 .. 7 /\ sheet.prose = [top |-> 4, pilot |-> 5 .. 7, mask |-> 255]
      /\ \A n \in DOMAIN TEST_PY_PINS.ui : PINOUT_UI[TEST_PY_PINS.ui[n] + 1] = n
      /\ \A n \in DOMAIN TEST_PY_PINS.uo : PINOUT_UO[TEST_PY_PINS.uo[n] + 1] = n

(* A template that compares as recorded, and still has a config.json, is   *)
(* the one the tree is built from: what is shipped is its keys, none lost, *)
(* none repeated, and the added ones, in one object.                       *)
Keys(text) == SelectSeq(text, LAMBDA t : t \notin {"{", "}", ",", "space", "added"})
TemplateClaim(w, upstream) ==
  LET shipped == build(w)[CONFIG].config
  IN  (diff_template(build(w), upstream) = {} /\ upstream[CONFIG].config # <<>>) =>
        /\ \A p \in DOMAIN VERBATIM \ EXTENDED : build(w)[p] = upstream[p]
        /\ Keys(shipped) = Keys(upstream[CONFIG].config) \o CONFIG_OVERRIDES
        /\ IsInjective(Keys(shipped))
        /\ Len(SelectSeq(shipped, LAMBDA t : t = "}")) = 1 /\ shipped[1] = "{"
=============================================================================
