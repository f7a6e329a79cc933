---------------------------- MODULE FlowConfigs -----------------------------
(***************************************************************************)
(* The generated configurations of the pilot's layout runs:                *)
(* hw/openlane/pilot_ihp/mkconfig.py and mktiming.py, and                  *)
(* hw/openlane/pilot_sky130/mkvariant.py.  A document is the sequence of   *)
(* the <<key, value>> pairs of a JSON object, in which a key may stand     *)
(* twice: the flow reads the last one.  A world w is the submission's      *)
(* document (src), the documents beside the scripts by name (ihp, sky) and *)
(* what mkconfig.py's PINNED table says of some of them (pins: the         *)
(* document a hash stands for).                                            *)
(***************************************************************************)
EXTENDS Naturals, Sequences, SequencesExt, Functions, TLC

ANNOTATIONS == {"//", "//derived", "//variant", "//derate", "//setupcheck"}

Keys(doc)  == {doc[n][1] : n \in DOMAIN doc}
read(doc)  == [k \in Keys(doc) |-> Last(SelectSeq(doc, LAMBDA p : p[1] = k))[2]]
real(doc)  == Restrict(read(doc), Keys(doc) \ ANNOTATIONS)
get(doc, k) == IF k \in Keys(doc) THEN read(doc)[k] ELSE <<>>
without(doc, key) == SelectSeq(doc, LAMBDA p : p[1] # key)
(* Python's dict(..): a key keeps its first place and its last value.      *)
as_dict(doc) ==
  LET firsts == SelectSeq([n \in DOMAIN doc |-> n],
                          LAMBDA n : \A m \in 1 .. n - 1 : doc[m][1] # doc[n][1])
  IN  [j \in DOMAIN firsts |-> <<doc[firsts[j]][1], read(doc)[doc[firsts[j]][1]]>>]

-----------------------------------------------------------------------------
(* mkconfig.py: what the submission's configuration becomes.  A file is    *)
(* <<directory, name>>.                                                    *)
PNR_CORNERS == <<"typ", "slow">>
SHAPES == [s \in {"3x4", "6x2"} |-> [die |-> <<s>>, def |-> <<"tech", s>>]]
PINNED == {"config", "6x2", "3x4", "pnrcorners", "flatten", "klayoutdrc"}

rebase(p) ==
  CASE p[1] = "VERILOG_FILES"   -> <<p[1], [n \in DOMAIN p[2] |-> <<"rtl", p[2][n][2]>>]>>
    [] p[1] = "FP_DEF_TEMPLATE" -> <<p[1], <<"tech", p[2][2]>>>>
    [] OTHER -> p
base(src) ==
  [n \in DOMAIN src |-> rebase(src[n])]
  \o <<<<"VERILOG_INCLUDE_DIRS", <<"rtl">>>>, <<"//derived", <<"mkconfig">>>>>>
shape(src, s) ==
  LET b == base(src)
      of(p) == CASE p[1] = "DIE_AREA"        -> <<p[1], SHAPES[s].die>>
                 [] p[1] = "FP_DEF_TEMPLATE" -> <<p[1], SHAPES[s].def>>
                 [] OTHER -> p
  IN  [n \in DOMAIN b |-> of(b[n])]
      \o <<<<"RUN_KLAYOUT_DRC", <<"1">>>>, <<"//variant", <<s>>>>>>
one_key(src, name, key, value) ==
  base(src) \o <<<<key, value>>, <<"//variant", <<name>>>>>>
targets(src) ==
  [n \in PINNED |->
     CASE n = "config"     -> base(src)
       [] n = "pnrcorners" -> one_key(src, n, "PNR_CORNERS", PNR_CORNERS)
       [] n = "flatten"    -> one_key(src, n, "SYNTH_HIERARCHY_MODE", <<"flatten">>)
       [] n = "klayoutdrc" -> one_key(src, n, "RUN_KLAYOUT_DRC", <<"1">>)
       [] OTHER            -> shape(src, n)]

(* What --check says of a pinned file that has its recorded bytes.         *)
key_delta(have, want) ==
  LET h == real(have)  w == real(want)
  IN  [add    |-> DOMAIN w \ DOMAIN h,
       remove |-> DOMAIN h \ DOMAIN w,
       change |-> {k \in DOMAIN h \cap DOMAIN w : h[k] # w[k]},
       drop   |-> (Keys(have) \cap ANNOTATIONS) \ Keys(want)]

Same(tree, name, doc) == name \in DOMAIN tree /\ tree[name] = doc
mkconfig_check(w) ==
  \A n \in PINNED : Same(w.ihp, n, IF n \in DOMAIN w.pins THEN w.pins[n]
                                   ELSE targets(w.src)[n])
mkconfig_over_pins(w, regen) == [w EXCEPT !.ihp = targets(w.src) @@ @]
mkconfig(w, regen) ==
  [w EXCEPT !.ihp = [n \in {m \in PINNED : regen \/ m \notin DOMAIN w.pins} |->
                       targets(w.src)[n]] @@ @]

-----------------------------------------------------------------------------
(* mktiming.py: the timing variants and the sign-off configuration.        *)
ALL == <<"*">>
ON  == <<"1">>
repairs == <<<<"PNR_CORNERS", PNR_CORNERS>>, <<"RUN_POST_GRT_DESIGN_REPAIR", ON>>,
             <<"RUN_POST_GRT_RESIZER_TIMING", ON>>>>
margin  == Append(repairs, <<"GRT_RESIZER_SETUP_SLACK_MARGIN", <<"0.5">>>>)
strategy(s) == <<<<"SYNTH_STRATEGY", <<s>>>>>>
VARIANTS ==
  [n \in {"tr-control", "tr-delay0", "tr-delay2", "tr-postgrt", "tr-tdp", "tr-best", "tr-margin"} |->
     CASE n = "tr-control" -> <<>>
       [] n = "tr-delay0"  -> strategy("DELAY 0")
       [] n = "tr-delay2"  -> strategy("DELAY 2")
       [] n = "tr-postgrt" -> repairs
       [] n = "tr-tdp"     -> <<<<"PL_TIMING_DRIVEN", ON>>, <<"PNR_CORNERS", PNR_CORNERS>>>>
       [] n = "tr-best"    -> strategy("DELAY 0") \o repairs
       [] n = "tr-margin"  -> margin]
SIGNOFF == [name |-> "signoff-6x2",
            keys |-> margin \o <<<<"RUN_KLAYOUT_DRC", ON>>, <<"RUN_KLAYOUT_XOR", ON>>>>]

derived(doc, keys, name) ==
  as_dict(without(doc, "//variant") \o keys \o <<<<"//variant", <<name>>>>>>)
derive(ihp, n) ==
  derived(ihp["6x2"], <<<<"SETUP_VIOLATION_CORNERS", ALL>>>> \o VARIANTS[n], n)
derive_signoff(ihp) == derived(ihp["config"], SIGNOFF.keys, SIGNOFF.name)
refused(ihp) ==
  LET cfg == derive_signoff(ihp)
  IN  \/ get(cfg, "TIME_DERATING_CONSTRAINT") # <<"float">>
      \/ get(cfg, "SETUP_VIOLATION_CORNERS") # ALL
      \/ get(cfg, "MAX_CAP_VIOLATION_CORNERS") # ALL
      \/ get(cfg, "MAX_SLEW_VIOLATION_CORNERS") # ALL

timing_targets(ihp) ==
  [n \in DOMAIN VARIANTS |-> derive(ihp, n)] @@ (SIGNOFF.name :> derive_signoff(ihp))
(* Every target is derived before the first is written, or compared.       *)
stopped(ihp) == ~({"6x2", "config"} \subseteq DOMAIN ihp) \/ refused(ihp)
mktiming(w) == IF stopped(w.ihp) THEN w ELSE [w EXCEPT !.ihp = timing_targets(w.ihp) @@ @]
mktiming_check(w) ==
  /\ ~stopped(w.ihp)
  /\ \A n \in DOMAIN timing_targets(w.ihp) : Same(w.ihp, n, timing_targets(w.ihp)[n])

-----------------------------------------------------------------------------
(* mkvariant.py: a variant keeps the places of the keys it changes, and    *)
(* the annotations that stand twice.  The extracted RC tables are named.   *)
area(s)  == <<<<"DIE_AREA", <<s>>>>, <<"FP_DEF_TEMPLATE", <<"tech", s>>>>>>
corners  == <<<<"PNR_CORNERS", <<"typ", "slow">>>>>>
layersrc == <<<<"LAYERS_RC", <<"per corner">>>>>>
SKY_VARIANTS ==
  [n \in {"pnrcorners", "postgrt", "3x4", "6x2", "6x2-pnrcorners", "6x2-layersrc", "6x2-rcmodel"} |->
     CASE n = "pnrcorners" -> corners
       [] n = "postgrt"    -> repairs
       [] n \in {"3x4", "6x2"}   -> area(n)
       [] n = "6x2-pnrcorners"   -> area("6x2") \o corners
       [] n = "6x2-layersrc"     -> area("6x2") \o layersrc
       [] n = "6x2-rcmodel"      -> area("6x2") \o layersrc
            \o <<<<"SIGNAL_WIRE_RC_LAYERS", <<"met1", "met2">>>>, <<"VIAS_R", <<"all corners">>>>>>]

variant(doc, name) ==
  LET delta == SKY_VARIANTS[name]
  IN  [n \in DOMAIN doc |-> IF doc[n][1] \in Keys(delta)
                            THEN <<doc[n][1], read(delta)[doc[n][1]]>> ELSE doc[n]]
      \o <<<<"//variant", <<name>>>>>>
      \o SelectSeq(delta, LAMBDA p : p[1] \notin Keys(doc))
mkvariant(w, name) == [w EXCEPT !.sky = (name :> variant(w.sky["config"], name)) @@ @]

-----------------------------------------------------------------------------
(* What is done to the tree between two runs: the submission gains its six *)
(* keys, an input is edited by hand, the pins are moved to what is there.  *)
Do(w, op) ==
  CASE op.do = "mkconfig"  -> mkconfig(w, FALSE)
    [] op.do = "regen"     -> mkconfig(w, TRUE)
    [] op.do = "mktiming"  -> mktiming(w)
    [] op.do = "mkvariant" -> mkvariant(w, op.name)
    [] op.do = "src"       -> [w EXCEPT !.src = @ \o op.keys]
    [] op.do = "edit"      -> [w EXCEPT !.ihp[op.name] = @ \o op.keys]
    [] op.do = "pin"       -> [w EXCEPT !.pins = [n \in DOMAIN @ |-> w.ihp[n]]]

Overridden(doc, keys) == real(keys) @@ real(doc)
Differ(a, b) ==
  {k \in DOMAIN real(a) \cup DOMAIN real(b) :
     ~(k \in DOMAIN real(a) \cap DOMAIN real(b) /\ real(a)[k] = real(b)[k])}

(* A recorded input of a published run is changed by nothing but a hand or *)
(* --regenerate-pinned, and a run that is refused leaves every file alone. *)
RecordedInputsKept(w, op) ==
  LET next == Do(w, op)
  IN  op.do \notin {"regen", "edit", "src", "pin"} =>
        /\ \A n \in DOMAIN w.pins \cap DOMAIN w.ihp : next.ihp[n] = w.ihp[n]
        /\ op.do = "mktiming" /\ refused(w.ihp) => next = w

(* What --check passes is what the documents say of it: every variant is   *)
(* its base with the named keys and the setup gate at every corner, the    *)
(* sign-off configuration has the derate and every gate, and running the   *)
(* generators again changes no file.                                       *)
ChecksMeanIt(w) ==
  /\ mktiming_check(w) =>
       /\ \A n \in DOMAIN VARIANTS :
            real(w.ihp[n]) = Overridden(w.ihp["6x2"],
                               Append(VARIANTS[n], <<"SETUP_VIOLATION_CORNERS", ALL>>))
       /\ real(w.ihp[SIGNOFF.name]) = Overridden(w.ihp["config"], SIGNOFF.keys)
       /\ get(w.ihp[SIGNOFF.name], "TIME_DERATING_CONSTRAINT") = <<"float">>
       /\ \A k \in {"SETUP_VIOLATION_CORNERS", "MAX_CAP_VIOLATION_CORNERS",
                    "MAX_SLEW_VIOLATION_CORNERS"} : get(w.ihp[SIGNOFF.name], k) = ALL
  /\ mkconfig_check(w) /\ mktiming_check(w) => mktiming(mkconfig(w, FALSE)) = w

(* An experiment against the baseline differs from it in the keys that     *)
(* name it and in nothing else, whatever the submission already carries;   *)
(* on sky130 no key it changes stands twice.                               *)
VariantsIsolated(w) ==
  /\ LET t == targets(w.src)
     IN  /\ Differ(t["klayoutdrc"], t["config"]) \subseteq {"RUN_KLAYOUT_DRC"}
         /\ Differ(t["3x4"], t["6x2"]) = {"DIE_AREA", "FP_DEF_TEMPLATE"}
         /\ \A n \in PINNED : real(t[n]) = real(as_dict(t[n]))
  /\ \A n \in DOMAIN w.sky \ {"config"} :
       /\ Differ(w.sky[n], w.sky["config"]) \subseteq Keys(SKY_VARIANTS[n])
       /\ real(SKY_VARIANTS[n]) = Restrict(real(w.sky[n]), Keys(SKY_VARIANTS[n]))
       /\ \A k \in Keys(SKY_VARIANTS[n]) : Len(SelectSeq(w.sky[n], LAMBDA p : p[1] = k)) = 1

(* The way out of the freeze that --regenerate-pinned prints: regenerate,  *)
(* move the pins, run mktiming.py, and both checks pass again; and a       *)
(* reported source delta of nothing means the flow would read the same.    *)
FreezeLifts(w) ==
  /\ LET lifted == Do(mktiming(mkconfig(w, TRUE)), [do |-> "pin"])
     IN  stopped(lifted.ihp) \/ (mkconfig_check(lifted) /\ mktiming_check(lifted))
  /\ \A n \in DOMAIN w.ihp \cap PINNED :
       LET d == key_delta(w.ihp[n], targets(w.src)[n])
       IN  (d.add \cup d.remove \cup d.change = {}) = (real(w.ihp[n]) = real(targets(w.src)[n]))

ConfigsFaithful(start, ops) ==
  LET w == FoldLeft(Do, start, ops)
  IN  /\ ops # <<>> => RecordedInputsKept(FoldLeft(Do, start, Front(ops)), Last(ops))
      /\ ChecksMeanIt(w) /\ VariantsIsolated(w) /\ FreezeLifts(w)
=============================================================================
