----------------------------- MODULE Floorplan ------------------------------
(***************************************************************************)
(* hw/soc/pnr/floorplan.py: where the SRAM macros of soc_top go, and the   *)
(* variant of config.json that says so.  Lengths are hundredths of a       *)
(* micrometre.  An instance path is its generate label, as the sequence of *)
(* the label's parts, and the macro's own name; areas and the density they *)
(* give are left out, and a comment key holds the number of macros it      *)
(* speaks of.                                                              *)
(***************************************************************************)
EXTENDS Integers, Sequences, FiniteSets, SequencesExt, Functions, TLC

SITE_W == 48
SITE_H == 378
MARGIN_X == 6000
MARGIN_Y == 4536
INSET_B == 1512
INSET_T == 1590
CLEAR_RIGHT == 6048
COL_SITES == <<125, 1843, 3561>>
NARROW_COL_SITES == <<125, 1843>>
NARROW_CORE_SITES == 3605
ROM_COL_SITES == <<125, 2611>>
ROM_GAP_ROWS == 58
HALO == 1000

RAM == "RAM"
ROM == "ROM"
ROM_CHK == "ROM_CHK"
inst(label, leaf) == [label |-> label, leaf |-> leaf]
ram(b) == inst(<<"u_ram">>, b)
rom(b) == inst(<<"u_rom">>, b)

slot(kind, i, col) == [kind |-> kind, inst |-> i, col |-> col]
BOTTOM == <<slot(RAM, ram("b0"), 1), slot(RAM, ram("b1"), 2), slot(ROM, rom("b0"), 3)>>
TOP    == <<slot(RAM, ram("b2"), 1), slot(RAM, ram("b3"), 2), slot(ROM, rom("b1"), 3)>>

ROM_ECC == [i \in {rom("b0"), rom("b1")} |-> inst(<<"u_rom", "ecc">>, i.leaf)]
ROM_CHK_INSTS == <<inst(<<"u_rom", "ecc">>, "c0"), inst(<<"u_rom", "ecc">>, "c1")>>
ROM_BOT_INST == inst(<<"u_rom", "ecc">>, "b0")
ROM_TOP_INST == inst(<<"u_rom", "ecc">>, "b1")
LABELS ==
  LET ecc == [i \in {ram(b) : b \in {"b0", "b1", "b2", "b3"}} |-> inst(<<"u_ram", "ecc">>, i.leaf)]
  IN  [docs47 |-> <<>>, ecc |-> ecc, ecc_rom |-> [i \in DOMAIN ecc \cup DOMAIN ROM_ECC |->
                                                    IF i \in DOMAIN ecc THEN ecc[i] ELSE ROM_ECC[i]]]
renamed(relabel, i) == IF i \in DOMAIN relabel THEN relabel[i] ELSE i

(* The nearest channel 0.78 um above a whole number of rows, halves even.  *)
snap_channel(want) ==
  LET k == (want - 78) \div SITE_H
      r == (want - 78) % SITE_H
      up == 2 * r > SITE_H \/ (2 * r = SITE_H /\ k % 2 = 1)
  IN  78 + SITE_H * (IF up THEN k + 1 ELSE k)

-----------------------------------------------------------------------------
clear_one_halo(gap) == gap >= HALO
clear(gap) == gap >= 2 * HALO

(* The two arrangements.  A macro is placed by its lower left corner.      *)
at(x, y, o) == [x |-> x, y |-> y, orientation |-> o]
OnGrid(p) == (p.x - MARGIN_X) % SITE_W = 0 /\ (p.y - MARGIN_Y) % SITE_H = 0
InCore(p, size, core) ==
  core[1] <= p.x /\ p.x + size.w <= core[3] /\ core[2] <= p.y /\ p.y + size.h <= core[4]
AllPlaced(lef, fp) ==
  \A kind \in DOMAIN fp.macros : \A i \in DOMAIN fp.macros[kind] :
    OnGrid(fp.macros[kind][i]) /\ InCore(fp.macros[kind][i], lef[kind], fp.core)
boxes(core_w, core_h) ==
  [core |-> <<MARGIN_X, MARGIN_Y, MARGIN_X + core_w, MARGIN_Y + core_h>>,
   die  |-> <<0, 0, 2 * MARGIN_X + core_w, 2 * MARGIN_Y + core_h>>]

y_bot == MARGIN_Y + INSET_B
y_top(lef, channel) == y_bot + lef[RAM].h + channel
core_height(lef, channel) == INSET_B + lef[RAM].h + channel + lef[RAM].h + INSET_T
row_align(y) == MARGIN_Y + ((y - MARGIN_Y) \div SITE_H) * SITE_H

(* Two rows of RAM, RAM, ROM.  The upper row's macros keep their normal    *)
(* orientation, the lower's are flipped.                                   *)
build(lef, channel) ==
  LET yt == y_top(lef, channel)
      core_w == COL_SITES[3] * SITE_W + lef[ROM].w + CLEAR_RIGHT
      placed(kind) ==
        LET of(row) == {row[k] : k \in {n \in DOMAIN row : row[n].kind = kind}}
            all == of(BOTTOM) \cup of(TOP)
        IN  [i \in {s.inst : s \in all} |->
               LET s == CHOOSE t \in all : t.inst = i
                   x == MARGIN_X + COL_SITES[s.col] * SITE_W
               IN  IF s \in of(BOTTOM) THEN at(x, y_bot, "FS") ELSE at(x, yt, "N")]
      chk_top == row_align(yt + lef[RAM].h - lef[ROM_CHK].h)
  IN  [macros |-> [kind \in {RAM, ROM} |-> placed(kind)],
       core |-> boxes(core_w, core_height(lef, channel)).core,
       die  |-> boxes(core_w, core_height(lef, channel)).die,
       rom_x |-> MARGIN_X + COL_SITES[3] * SITE_W,
       chk_place |-> [i \in Range(ROM_CHK_INSTS) |->
                        IF i = ROM_CHK_INSTS[1] THEN [y |-> y_bot, orientation |-> "FS"]
                        ELSE [y |-> chk_top, orientation |-> "N"]],
       rom_moved |-> [i \in {ROM_BOT_INST, ROM_TOP_INST} |->
                        IF i = ROM_BOT_INST THEN row_align(y_bot + lef[RAM].h - lef[ROM].h) ELSE yt],
       band_tops |-> <<y_bot + lef[RAM].h, yt + lef[RAM].h>>]
build_asserts(lef, channel, fp) ==
  /\ (fp.core[3] - fp.core[1]) % SITE_W = 0 /\ (fp.core[4] - fp.core[2]) % SITE_H = 0
  /\ AllPlaced(lef, fp)
  /\ clear(channel)
  /\ \A row \in {BOTTOM, TOP} : \A k \in 1 .. Len(row) - 1 :
       clear((COL_SITES[row[k + 1].col] - COL_SITES[row[k].col]) * SITE_W - lef[row[k].kind].w)

(* Two columns of RAM, the ROMs as islands in the channel between them.    *)
build_islands(lef, channel) ==
  LET yt == y_top(lef, channel)
      gap_b == 78 + SITE_H * ROM_GAP_ROWS
      y_rom == y_bot + lef[RAM].h + gap_b
      column(sites, n) == MARGIN_X + sites[n] * SITE_W
      size == boxes(NARROW_CORE_SITES * SITE_W, core_height(lef, channel))
  IN  [macros |->
         [kind \in {RAM, ROM} |->
            IF kind = RAM
            THEN [i \in {ram("b0"), ram("b1"), ram("b2"), ram("b3")} |->
                    LET n == IF i.leaf \in {"b0", "b2"} THEN 1 ELSE 2
                    IN  IF i.leaf \in {"b0", "b1"} THEN at(column(NARROW_COL_SITES, n), y_bot, "FS")
                        ELSE at(column(NARROW_COL_SITES, n), yt, "N")]
            ELSE [i \in {rom("b0"), rom("b1")} |->
                    at(column(ROM_COL_SITES, IF i.leaf = "b0" THEN 1 ELSE 2), y_rom, "N")]],
       core |-> size.core, die |-> size.die,
       islands |-> <<gap_b, channel - gap_b - lef[ROM].h>>, y_rom |-> y_rom]
islands_asserts(lef, channel, fp) ==
  /\ \A n \in 1 .. 2 : clear(fp.islands[n])
  /\ (fp.core[3] - fp.core[1]) % SITE_W = 0 /\ (fp.core[4] - fp.core[2]) % SITE_H = 0
  /\ AllPlaced(lef, fp)
  /\ clear((NARROW_COL_SITES[2] - NARROW_COL_SITES[1]) * SITE_W - lef[RAM].w)
  /\ clear((ROM_COL_SITES[2] - ROM_COL_SITES[1]) * SITE_W - lef[ROM].w)
  /\ clear(y_top(lef, channel) - (fp.y_rom + lef[ROM].h))

(* The check macros below and above the two ROMs of their column, the      *)
(* lower ROM moved up to make room.                                        *)
place_rom_check(fp) ==
  [fp EXCEPT !.macros =
     [kind \in {RAM, ROM, ROM_CHK} |->
        IF kind = RAM THEN fp.macros[RAM]
        ELSE IF kind = ROM
             THEN [i \in DOMAIN fp.macros[ROM] |->
                     IF i \in DOMAIN fp.rom_moved THEN [fp.macros[ROM][i] EXCEPT !.y = fp.rom_moved[i]]
                     ELSE fp.macros[ROM][i]]
        ELSE [i \in DOMAIN fp.chk_place |->
                at(fp.rom_x, fp.chk_place[i].y, fp.chk_place[i].orientation)]]]
rom_check_asserts(lef, fp) ==
  LET bot == fp.chk_place[ROM_CHK_INSTS[1]].y
      top == fp.chk_place[ROM_CHK_INSTS[2]].y
  IN  /\ DOMAIN fp.rom_moved \subseteq DOMAIN fp.macros[ROM]
      /\ \A i \in Range(ROM_CHK_INSTS) :
           LET p == fp.macros[ROM_CHK][i] IN OnGrid(p) /\ InCore(p, lef[ROM_CHK], fp.core)
      /\ clear(fp.rom_moved[ROM_BOT_INST] - (bot + lef[ROM_CHK].h))
      /\ clear(top - (fp.rom_moved[ROM_TOP_INST] + lef[ROM].h))
      /\ bot + lef[ROM_CHK].h <= fp.band_tops[1]
      /\ top + lef[ROM_CHK].h <= fp.band_tops[2]

-----------------------------------------------------------------------------
(* The floorplan under the instance paths of one memory arm: a refusal, or *)
(* what is placed.  Only the rows know where the check macros go.          *)
relabelled(fp, relabel) ==
  [fp EXCEPT !.macros = [kind \in DOMAIN @ |->
     LET was(j) == CHOOSE i \in DOMAIN fp.macros[kind] : renamed(relabel, i) = j
     IN  [j \in {renamed(relabel, i) : i \in DOMAIN fp.macros[kind]} |-> fp.macros[kind][was(j)]]]]
floorplan(lef, opts) ==
  LET channel == snap_channel(opts.channel)
      rows3 == opts.arrangement = "rows3"
      fp == IF rows3 THEN build(lef, channel) ELSE build_islands(lef, channel)
      named == relabelled(fp, LABELS[opts.memory])
      checked == place_rom_check(named)
      built == IF rows3 THEN build_asserts(lef, channel, fp) ELSE islands_asserts(lef, channel, fp)
  IN  IF ~built THEN [ok |-> FALSE]
      ELSE IF opts.memory = "docs47" THEN [ok |-> TRUE, fp |-> named]
      ELSE IF opts.memory = "ecc"
           THEN [ok |-> TRUE, fp |-> [named EXCEPT !.macros =
                   [kind \in {RAM, ROM, ROM_CHK} |-> IF kind = ROM_CHK THEN <<>> ELSE named.macros[kind]]]]
      ELSE IF rows3 /\ rom_check_asserts(lef, checked) THEN [ok |-> TRUE, fp |-> checked]
      ELSE [ok |-> FALSE]

(* A PDN line names the macros of one label and the net they are tied to.  *)
pdn(label, leaves, net) == [label |-> label, leaves |-> leaves, net |-> net]
_relabel_pdn(line, relabel) ==
  LET moved == {i \in DOMAIN relabel : IsPrefix(i.label, line.label)}
      i == CHOOSE j \in moved : TRUE
  IN  IF moved = {} THEN line
      ELSE [line EXCEPT !.label = relabel[i].label
                                  \o SubSeq(line.label, Len(i.label) + 1, Len(line.label))]

(* A macro kind config.json does not have is entered without instances.    *)
entered(base, kind, insts) ==
  IF kind \in DOMAIN base THEN [base[kind] EXCEPT !.instances = insts]
  ELSE [files |-> kind, instances |-> <<>>]
placed_count(fp) ==
  Cardinality(UNION {{<<kind, i>> : i \in DOMAIN fp.macros[kind]} : kind \in DOMAIN fp.macros})
LVS_ONLY == {"EXTRA_SPICE_MODELS", "//lvs"}

variant(base, fp, opts) ==
  LET relabel == LABELS[opts.memory]
      n_inst == placed_count(fp)
      pdns == [k \in DOMAIN base.PDN_MACRO_CONNECTIONS |->
                 _relabel_pdn(base.PDN_MACRO_CONNECTIONS[k], relabel)]
      chk(net) == pdn(<<"u_rom", "ecc">>, {"c0", "c1"}, net)
      recount(note) == [k \in DOMAIN note |-> IF note[k] = 6 THEN n_inst ELSE note[k]]
      set ==
        [DIE_AREA |-> fp.die, CORE_AREA |-> fp.core, PL_TARGET_DENSITY_PCT |-> <<"density">>,
         MACROS |-> [kind \in DOMAIN base.MACROS \cup DOMAIN fp.macros |->
                       IF kind \in DOMAIN fp.macros
                       THEN entered(base.MACROS, kind, fp.macros[kind]) ELSE base.MACROS[kind]]]
        @@ ("//floorplan48" :> <<"generated">>)
        @@ (IF opts.memory = "ecc" THEN [SYNTH_PARAMETERS |-> <<"ROM_HARDEN=0">>] ELSE <<>>)
        @@ (IF relabel = <<>> THEN <<>>
            ELSE [PDN_MACRO_CONNECTIONS |->
                    IF opts.memory = "ecc_rom" THEN pdns \o <<chk("VDD!"), chk("VDDARRAY!")>> ELSE pdns])
        @@ (IF opts.lvs
            THEN [RUN_LVS |-> 1]
                 @@ ("//signoff_decks" :> Append(base["//signoff_decks"], "superseded"))
                 @@ ("//lvs_blackbox" :> <<"black box">>)
            ELSE <<>>)
        @@ (IF n_inst # 6 THEN [k \in {"//", "//eqy"} |-> recount(base[k])] ELSE <<>>)
      out == set @@ base
  IN  IF opts.lvs THEN Restrict(out, DOMAIN out \ LVS_ONLY) ELSE out

(* What the generator asserts of its own output before it writes it.       *)
allowed_added(opts) ==
  {"//floorplan48"} \cup (IF opts.lvs THEN {"//lvs_blackbox"} ELSE {})
  \cup (IF opts.memory = "ecc" THEN {"SYNTH_PARAMETERS"} ELSE {})
added_ok_within(base, out, opts) == DOMAIN out \ DOMAIN base \subseteq allowed_added(opts)
added_ok(base, out, opts) == DOMAIN out \ DOMAIN base = allowed_added(opts)
accepted(base, out, fp, opts) ==
  LET relabel == LABELS[opts.memory]
      changed == {k \in DOMAIN base \cap DOMAIN out : base[k] # out[k]}
      lvs(keys) == IF opts.lvs THEN keys ELSE {}
  IN  /\ added_ok(base, out, opts)
      /\ DOMAIN base \ DOMAIN out = lvs(LVS_ONLY)
      /\ changed \subseteq {"DIE_AREA", "CORE_AREA", "MACROS", "PL_TARGET_DENSITY_PCT"}
                           \cup (IF placed_count(fp) # 6 THEN {"//", "//eqy"} ELSE {})
                           \cup (IF relabel # <<>> THEN {"PDN_MACRO_CONNECTIONS"} ELSE {})
                           \cup lvs({"RUN_LVS", "//signoff_decks"})
      /\ \A kind \in DOMAIN out.MACROS :
           IF kind \notin DOMAIN base.MACROS THEN out.MACROS[kind].instances = <<>>
           ELSE /\ out.MACROS[kind].files = base.MACROS[kind].files
                /\ DOMAIN out.MACROS[kind].instances
                     = {renamed(relabel, i) : i \in DOMAIN base.MACROS[kind].instances}
                       \cup (IF opts.memory = "ecc_rom" /\ kind = ROM_CHK
                             THEN Range(ROM_CHK_INSTS) ELSE {})

(* One run with --write: the file written, if any.                         *)
generate(base, lef, opts) ==
  LET plan == floorplan(lef, opts)
      out  == variant(base, plan.fp, opts)
  IN  IF plan.ok /\ (opts.lvs => LVS_ONLY \subseteq DOMAIN base)
         /\ accepted(base, out, plan.fp, opts)
      THEN [written |-> TRUE, out |-> out] ELSE [written |-> FALSE]

-----------------------------------------------------------------------------
(* Whatever the macros' sizes, as long as the RAM is the tallest, a        *)
(* floorplan that is written is one the router can use: every macro in the *)
(* core and on the grid, any two of them two halos apart, also where the   *)
(* generator asserts nothing of the pair.                                  *)
Apart(p, a, q, b) ==
  \/ p.x + a.w + 2 * HALO <= q.x \/ q.x + b.w + 2 * HALO <= p.x
  \/ p.y + a.h + 2 * HALO <= q.y \/ q.y + b.h + 2 * HALO <= p.y
PlacementLegal(lef, out) ==
  LET all == UNION {{<<k, i>> : i \in DOMAIN out.MACROS[k].instances} : k \in DOMAIN out.MACROS}
      where(m) == out.MACROS[m[1]].instances[m[2]]
  IN  /\ \A m \in all : OnGrid(where(m)) /\ InCore(where(m), lef[m[1]], out.CORE_AREA)
      /\ \A m, n \in all : m # n => Apart(where(m), lef[m[1]], where(n), lef[n[1]])

(* Every macro it places has both its supplies, and no line of the power   *)
(* network names a macro that is not there.                                *)
Powered(out) ==
  LET placed == UNION {DOMAIN out.MACROS[k].instances : k \in DOMAIN out.MACROS}
      tied(line) == {inst(line.label, b) : b \in line.leaves}
      lines == Range(out.PDN_MACRO_CONNECTIONS)
  IN  /\ \A i \in placed : {l.net : l \in {m \in lines : i \in tied(m)}} = {"VDD!", "VDDARRAY!"}
      /\ \A l \in lines : tied(l) \subseteq placed

(* A floorplan is never generated over a generated one, which would relabel*)
(* the power network's lines a second time.                                *)
FloorplanHolds(base, lef, opts) ==
  \A g \in {generate(base, lef, opts)} :
      g.written =>
        /\ lef[RAM].h >= lef[ROM].h => PlacementLegal(lef, g.out)
        /\ ROM_CHK \in DOMAIN base.MACROS => Powered(g.out)
        /\ \A memory \in DOMAIN LABELS, lvs \in BOOLEAN :
             ~generate(g.out, lef, [opts EXCEPT !.memory = memory, !.lvs = lvs]).written
=============================================================================
