-------------------------------- MODULE GlMap --------------------------------
(***************************************************************************)
(* Which netlist flip-flop is which RTL bit: gl_map.py.  The evidence D:   *)
(*   rtl, gl   traces: RTL bit -> column, flip-flop -> column; a column is *)
(*             the bit's value in every cycle of the clean run             *)
(*   own       RTL bit -> the name it has in the source                    *)
(*   name      flip-flop -> the name its Q net kept                        *)
(*   json      the elaborated design was given; net: name -> its net there,*)
(*             stored: the nets a flip-flop drives after clean-up          *)
(*   regfile   the RTL bits of the register file's data                    *)
(***************************************************************************)
EXTENDS Integers, Sequences, FiniteSets, SequencesExt, FiniteSetsExt

CONSTANTS MIN_TRANSITIONS,  \* of a bit identified by its trace alone
          MIN_PROBES,       \* register-file bits needed to align
          SHIFT,            \* rows the traces may be apart
          Seeded(_, _)      \* a site's key and the number of its draw: a cycle

complement(col)  == [t \in DOMAIN col |-> 1 - col[t]]
constant(col)    == \A t \in DOMAIN col : col[t] = col[1]
transitions(col) == Cardinality({t \in 2 .. Len(col) : col[t] # col[t - 1]})

(* read_trace: a file of rows, first column last; all rows are as wide.    *)
Ragged(rows) == \E k \in DOMAIN rows : Len(rows[k]) # Len(rows[1])
read_trace(rows) ==
  [j \in 1 .. Len(rows[1]) |-> [t \in DOMAIN rows |-> rows[t][Len(rows[1]) + 1 - j]]]

(* load_aliases: two names are aliases when they are on one net; the RTL   *)
(* census holds the bits that a flip-flop stores at all.                   *)
rtl_census_has(D, r) == D.own[r] \in DOMAIN D.net /\ D.net[D.own[r]] \in D.stored
alias_candidates(D, r) ==
  IF ~D.json \/ D.own[r] \notin DOMAIN D.net THEN {}
  ELSE {f \in DOMAIN D.name : /\ D.name[f] \in DOMAIN D.net
                              /\ D.net[D.name[f]] = D.net[D.own[r]]}
Aliases(D, r) == alias_candidates(D, r) \cup {f \in DOMAIN D.name : D.name[f] = D.own[r]}

Candidates(D, r) ==
       {<<f, 0>> : f \in {g \in DOMAIN D.gl : D.gl[g] = D.rtl[r]}}
  \cup {<<f, 1>> : f \in {g \in DOMAIN D.gl : D.gl[g] = complement(D.rtl[r])}}

Unmapped(how)      == [gl |-> 0, pol |-> 0, how |-> how]
Mapped(twin, how)  == [gl |-> twin[1], pol |-> twin[2], how |-> how]
The(S)             == CHOOSE x \in S : TRUE

(* The decision for one bit, in order of how much it rests on.  A constant *)
(* bit's trace says nothing: only a name does, and the flip-flop under it  *)
(* has to be constant at the same value, or at its complement.             *)
Constant(D, r) ==
  LET named == Aliases(D, r)
      agree == {c \in Candidates(D, r) : c[1] \in named}
      same  == {c \in agree : c[2] = 0}
  IN  CASE named = {}              -> Unmapped("constant")
        [] Cardinality(named) > 1  -> Unmapped("ambiguous")
        [] Cardinality(named) = 1 /\ agree = {} -> Unmapped("alias(withdrawn)")
        [] Cardinality(named) = 1 /\ agree # {} ->
             Mapped(The(IF same # {} THEN same ELSE agree), "alias")

Live(D, r) ==
  LET cands == Candidates(D, r)
      agree == {c \in cands : c[1] \in Aliases(D, r)}
  IN  CASE cands = {}            -> Unmapped("none")
        [] Cardinality(cands) = 1 ->
             IF agree # {} THEN Mapped(The(cands), "trace+name")
             ELSE IF transitions(D.rtl[r]) < MIN_TRANSITIONS THEN Unmapped("trace(weak)")
             ELSE Mapped(The(cands), "trace")
        [] Cardinality(cands) > 1 /\ Cardinality(agree) = 1 ->
             Mapped(The(agree), "trace&alias")
        [] Cardinality(cands) > 1 /\ Cardinality(agree) # 1 -> Unmapped("ambiguous")

(* Variant: a bit synthesis removed keeps the flip-flop its trace matched. *)
Decided_removed(D, r) ==
  IF constant(D.rtl[r]) THEN Constant(D, r) ELSE Live(D, r)

(* Whatever matched a bit synthesis removed is another register's.         *)
Decided(D, r) ==
  IF D.json /\ ~rtl_census_has(D, r) THEN Unmapped("deleted")
  ELSE IF constant(D.rtl[r]) THEN Constant(D, r) ELSE Live(D, r)

(* Two live bits that synthesis stored in one flip-flop are merged.        *)
derive(D) ==
  LET first == [r \in DOMAIN D.rtl |-> Decided(D, r)]
      shares(r) == {s \in DOMAIN first : first[s].gl = first[r].gl}
  IN  [r \in DOMAIN first |->
         IF first[r].gl # 0 /\ Cardinality(shares(r)) > 1
         THEN [first[r] EXCEPT !.how = "merged"] ELSE first[r]]

-----------------------------------------------------------------------------
(* The netlist's row t is the RTL's row t - sh, on the rows both have.     *)
Shifts == -SHIFT .. SHIFT
Overlap(a, b, sh) ==
  LET a2 == IF sh >= 0 THEN SubSeq(a, 1, Len(a) - sh) ELSE SubSeq(a, 1 - sh, Len(a))
      b2 == IF sh >= 0 THEN SubSeq(b, sh + 1, Len(b)) ELSE SubSeq(b, 1, Len(b) + sh)
      n  == Min({Len(a2), Len(b2)})
  IN  [rtl |-> SubSeq(a2, 1, n), gl |-> SubSeq(b2, 1, n)]

(* The register-file bits that toggle and whose flip-flop kept the name.   *)
Probes(D) ==
  {<<r, f>> \in D.regfile \X DOMAIN D.name :
     D.name[f] = D.own[r] /\ ~constant(D.rtl[r])}
good(D) ==
  {sh \in Shifts : \A p \in Probes(D) :
     LET o == Overlap(D.rtl[p[1]], D.gl[p[2]], sh) IN o.rtl = o.gl}

align(D) ==
  IF Cardinality(Probes(D)) < MIN_PROBES \/ Cardinality(good(D)) # 1
  THEN [refused |-> TRUE]
  ELSE LET sh == The(good(D))
       IN  [refused |-> FALSE, shift |-> sh,
            rtl |-> [r \in DOMAIN D.rtl |-> Overlap(D.rtl[r], D.gl[1], sh).rtl],
            gl  |-> [f \in DOMAIN D.gl |-> Overlap(D.rtl[1], D.gl[f], sh).gl]]

-----------------------------------------------------------------------------
(* The report's counts: bits by decision, and the core's flip-flops that   *)
(* are no bit's twin, by what the trace says they are.                     *)
Twins(entries) == {entries[r].gl : r \in DOMAIN entries} \ {0}
kind(D, f) ==
  IF constant(D.gl[f]) THEN "constant"
  ELSE IF \E r \in DOMAIN D.rtl : D.gl[f] \in {D.rtl[r], complement(D.rtl[r])}
  THEN "duplicate" ELSE "new"
report(D, entries, core) ==
  [how   |-> [h \in {entries[r].how : r \in DOMAIN entries} |->
                Cardinality({r \in DOMAIN entries : entries[r].how = h})],
   pol   |-> Cardinality({r \in DOMAIN entries : entries[r].gl # 0 /\ entries[r].pol = 1}),
   twins |-> Cardinality(core \cap Twins(entries)),
   extra |-> [k \in {"constant", "duplicate", "new"} |->
                Cardinality({f \in core \ Twins(entries) : kind(D, f) = k})]]

(* The register-file shadow: every bit it reads has to have a flip-flop,   *)
(* read through the polarity the trace found.                              *)
emit_rf(entries, need) ==
  IF \E r \in need : entries[r].gl = 0 THEN [refused |-> TRUE]
  ELSE [refused |-> FALSE, reads |-> [r \in need |-> <<entries[r].gl, entries[r].pol>>]]

-----------------------------------------------------------------------------
(* A world W is evidence D with the truth behind it: twin[r] is the        *)
(* flip-flop that stores RTL bit r and its polarity, <<0, 0>> when none    *)
(* does, and shift the rows the netlist's run starts later.  What the      *)
(* mapping takes names for is part of the world: a name may lie, but the   *)
(* flip-flop under it then has another trace; and the design's census      *)
(* tells the removed bits.                                                 *)
Honest(W) ==
  /\ \A r \in DOMAIN W.D.rtl :
       /\ W.twin[r][1] # 0 => W.D.gl[W.twin[r][1]] =
                              IF W.twin[r][2] = 1 THEN complement(W.D.rtl[r]) ELSE W.D.rtl[r]
       /\ \A f \in Aliases(W.D, r) :
            W.D.gl[f] \in {W.D.rtl[r], complement(W.D.rtl[r])} => W.twin[r][1] = f
       /\ W.D.json /\ rtl_census_has(W.D, r) = (W.twin[r][1] # 0)

(* No bit is mapped to a flip-flop that is not its own or through the      *)
(* wrong polarity; "merged" says exactly that another bit shares it; and   *)
(* the clean run, replayed through the map, differs nowhere.               *)
MapIsTrue(W) ==
  LET e == derive(W.D)
      live(r) == ~constant(W.D.rtl[r])
  IN  Honest(W) => \A r \in DOMAIN e : e[r].gl # 0 =>
        /\ e[r].gl = W.twin[r][1]
        /\ live(r) => e[r].pol = W.twin[r][2]
        /\ (IF e[r].pol = 1 THEN complement(W.D.gl[e[r].gl]) ELSE W.D.gl[e[r].gl])
             = W.D.rtl[r]
        /\ (e[r].how = "merged") =
             \E s \in DOMAIN e \ {r} : e[s].gl = W.twin[r][1]

(* The shift is the true one, or the alignment is refused; and the rows    *)
(* kept are rows both runs have, at the true distance.                     *)
ShiftIsTrue(D, shift) ==
  LET a == align(D)
  IN  ~a.refused => /\ a.shift = shift
                    /\ \A p \in Probes(D) : a.rtl[p[1]] = a.gl[p[2]]
                    /\ \A r \in DOMAIN D.rtl : Len(a.rtl[r]) = Len(D.rtl[r]) - Max({shift, -shift})
-----------------------------------------------------------------------------
(***************************************************************************)
(* The campaigns on the mapped netlist, less their simulations: which      *)
(* records of an RTL campaign are replayed and where (gl_campaign.py), the *)
(* sweeps over flip-flops no RTL bit has, the experiment inside the gated  *)
(* clock domains (gl_gated.py), and the tables that compare campaigns.     *)
(* An RTL record is [bit, cycle, armed, disarmed, truth, wdog]; a replayed *)
(* one [bit, cycle, gl, how, armed, disarmed, truth, ok, rf], armed "" when*)
(* it was not run armed.                                                   *)
(***************************************************************************)
INJECT_HOW == {"trace+name", "trace&alias", "trace", "alias", "merged"}
Injectable(entry) == entry.gl # 0 /\ entry.how \in INJECT_HOW
key(r) == <<r.bit, r.cycle>>

(* instants: the row on which the injected register first differs from the *)
(* clean run; 0 if it never does.                                          *)
first_difference(col, clean) ==
  LET at == {t \in DOMAIN col : t \in DOMAIN clean /\ col[t] # clean[t]}
  IN  IF at = {} THEN 0 ELSE Min(at)
instants(recs, traces, clean) ==
  [k \in DOMAIN recs |-> first_difference(traces[k], clean[recs[k].bit])]

(* Why a record is not replayed, or "" when it is.  measured: key -> row;  *)
(* prior: key -> the cycle an earlier pass replayed it at.                 *)
Where(r, measured, shift) ==
  (IF DOMAIN measured = {} THEN r.cycle ELSE measured[key(r)]) + shift
Skip(r, entries, measured, prior, shift, redo_all) ==
  IF r.bit \notin DOMAIN entries THEN "not in the site table"
  ELSE IF ~Injectable(entries[r.bit]) THEN entries[r.bit].how
  ELSE IF DOMAIN measured # {} /\ key(r) \notin DOMAIN measured THEN "no measured instant"
  ELSE IF /\ key(r) \in DOMAIN prior /\ ~redo_all
          /\ prior[key(r)] = Where(r, measured, shift)
  THEN "already replayed at this cycle" ELSE ""

replay_plan(recs, entries, measured, prior, shift, redo_all) ==
  LET skip(r) == Skip(r, entries, measured, prior, shift, redo_all)
      kept    == SelectSeq(recs, LAMBDA r : skip(r) = "")
  IN  [plan    |-> [k \in DOMAIN kept |->
                      [rec |-> kept[k], entry |-> entries[kept[k].bit],
                       cycle |-> Where(kept[k], measured, shift)]],
       skipped |-> [why \in {skip(recs[k]) : k \in DOMAIN recs} \ {""} |->
                      Cardinality({k \in DOMAIN recs : skip(recs[k]) = why})]]

(* The records run armed as well: where the watchdog mattered, and the     *)
(* first of the others in a shuffled order.                                *)
armed_set(plan, all, subset, shuffled) ==
  LET matters(k) == \/ plan[k].rec.armed # plan[k].rec.disarmed
                    \/ plan[k].rec.wdog \/ plan[k].rec.truth = "DEAD"
      rest == SelectSeq(shuffled, LAMBDA k : ~matters(k))
  IN  IF all THEN DOMAIN plan
      ELSE {k \in DOMAIN plan : matters(k)}
           \cup {rest[j] : j \in {i \in DOMAIN rest : i <= subset}}

(* Control 5: the mapped flip-flops that differ anywhere on the aligned    *)
(* rows of the two runs, and the first row one does.                       *)
trace_check(D, entries, shift) ==
  LET mapped == {r \in DOMAIN entries : /\ entries[r].gl # 0
                   /\ entries[r].how \in {"trace+name", "trace&alias", "trace"}}
      at(r)  == LET o == Overlap(D.rtl[r], D.gl[entries[r].gl], shift)
                IN  first_difference(o.rtl, IF entries[r].pol = 1
                                            THEN complement(o.gl) ELSE o.gl)
      differ == {r \in mapped : at(r) # 0}
  IN  [differ |-> Cardinality(differ), first |-> IF differ = {} THEN 0
                                                 ELSE Min({at(r) : r \in differ})]

-----------------------------------------------------------------------------
(* sweep: the core's flip-flops that are no bit's twin; constant ones only *)
(* on request.                                                             *)
sweep_sites(D, entries, core, constants) ==
  {f \in core \ Twins(entries) : constants \/ kind(D, f) # "constant"}

(* wdog: every replica flip-flop; the draw of one is keyed by its index in *)
(* the netlist or by its position in its bank.                             *)
wdog_plan(banks, by_position, draws) ==
  FlattenSeq([b \in DOMAIN banks |->
    FlattenSeq([pos \in DOMAIN banks[b] |->
      [k \in 1 .. draws |->
         [bank |-> b, flop |-> banks[b][pos],
          cycle |-> Seeded(IF by_position THEN <<b, pos>> ELSE <<banks[b][pos]>>, k)]]])])

-----------------------------------------------------------------------------
(* reconcile: record for record against the netlist, the reference being   *)
(* the replay on the present RTL where there is one.                       *)
Tally(S) == Cardinality(S)
reconcile(recs, head, gl, entries) ==
  LET at(r)  == {x \in DOMAIN gl : key(gl[x]) = key(r)}
      gr(k)  == gl[Max(at(recs[k]))]
      ref(k) == IF head = <<>> THEN recs[k] ELSE head[k]
      comp   == {k \in DOMAIN recs : at(recs[k]) # {}}
      armed  == {k \in comp : gr(k).armed # ""}
      d(k)   == ref(k).disarmed # gr(k).disarmed
      t(k)   == ref(k).truth # gr(k).truth
      a(k)   == gr(k).armed # "" /\ ref(k).armed # gr(k).armed
      why(r) == IF r.bit \in DOMAIN entries THEN entries[r.bit].how
                ELSE "not in the site table"
      left   == DOMAIN recs \ comp
  IN  [comparable |-> Tally(comp),
       identical  |-> [disarmed |-> Tally({k \in comp : ~d(k)}),
                       truth    |-> Tally({k \in comp : ~t(k)}),
                       armed    |-> <<Tally({k \in armed : ~a(k)}), Tally(armed)>>],
       by_how     |-> [h \in {gr(k).how : k \in comp} |->
                         <<Tally({k \in comp : gr(k).how = h}),
                           Tally({k \in comp : gr(k).how = h /\ ~d(k)})>>],
       histogram  |-> [c \in {"MASKED", "CORRECTED", "SDC", "DETECTED", "HANG"} |->
                         <<Tally({k \in comp : ref(k).disarmed = c}),
                           Tally({k \in comp : gr(k).disarmed = c})>>],
       disagree   |-> Tally({k \in comp : d(k) \/ t(k) \/ a(k)}),
       moved      |-> IF head = <<>> THEN 0
                      ELSE Tally({k \in DOMAIN recs : \/ recs[k].armed # head[k].armed
                                                      \/ recs[k].disarmed # head[k].disarmed
                                                      \/ recs[k].truth # head[k].truth}),
       without    |-> [h \in {why(recs[k]) : k \in left} |->
                         Tally({k \in left : why(recs[k]) = h})],
       decoder    |-> <<Tally({k \in comp : gr(k).rf = "sec"}),
                        Tally({k \in comp : gr(k).rf = "sec" /\ gr(k).ok}),
                        Tally({k \in comp : gr(k).rf = "ded"})>>]

(* The replay on the present RTL has to be the same records in order.      *)
HeadRefused(recs, head) ==
  head # <<>> /\ (Len(head) # Len(recs) \/ \E k \in DOMAIN recs : key(recs[k]) # key(head[k]))

-----------------------------------------------------------------------------
(* gl_gated.py.  The sites of the cause bank: a flip-flop the netlist      *)
(* still names is keyed by its bit, an anonymous one by its place among    *)
(* the anonymous ones of its bank.  cone[k]: the flip-flops of bit k;      *)
(* bit[f]: the bit its name says, {} without one.                          *)
ANON_POS == 100
cause_bank_sites(cone, bit) ==
  LET flops == UNION {cone[k] : k \in DOMAIN cone}
      lowest(f) == Min({k \in DOMAIN cone : f \in cone[k]})
      anon == {f \in flops : bit[f] = {}}
      before(f, g) == lowest(f) < lowest(g) \/ (lowest(f) = lowest(g) /\ f < g)
  IN  [f \in flops |-> IF f \notin anon THEN The(bit[f])
                       ELSE ANON_POS + Cardinality({g \in anon : before(g, f)})]

(* plan: flip-flops with a name sampled from the two domains (drawn: what  *)
(* the generator gives each); the accelerator's at any cycle of the window,*)
(* the bus's at cycles its clock is stopped.                               *)
Drawn(cycles, n) ==
  LET s == SetToSortSeq(cycles, LAMBDA a, b : a < b)
  IN  s[1 + (n % Len(s))]
gated_plan(drawn, domain, named, asleep, window) ==
  LET pick(d, cycles) ==
        {[kind |-> d, flop |-> f, cycle |-> Drawn(cycles, drawn[f]),
          asleep |-> Drawn(cycles, drawn[f]) \in asleep[d]] :
           f \in {g \in DOMAIN drawn \cap named : domain[g] = d}}
  IN  pick("npu", window) \cup pick("bus", window \cap asleep["bus"])

(* A field is {} where the simulator left it unknown; it reads as -1, and  *)
(* an unknown word of sticky causes, a set of bits, as all of them.        *)
ii(v) == IF v = {} THEN -1 ELSE The(v)
Sticky(word, all) == IF word = {} THEN all ELSE The(word)
sticky_new(row, all) == Sticky(row.word[2], all) \ Sticky(row.word[1], all)
recorded(row, all) ==
  \/ sticky_new(row, all) # {}
  \/ \E c \in DOMAIN row.counters : ii(row.counters[c][2]) - ii(row.counters[c][1]) > 0

(* What a force did: an unknown flip-flop, or one the force did not        *)
(* change, is skipped and counted.                                         *)
Forced(row) ==
  IF row.hit # {1} THEN "refused"
  ELSE IF row.before = {} \/ row.during = {} THEN "unknown"
  ELSE IF row.during = row.before THEN "unchanged" ELSE "landed"

(* report: the planned records every arm has run, and those of them whose  *)
(* class or whose record differs.                                          *)
gated_report(plan, arms) ==
  LET common == {p \in plan : \A n \in DOMAIN arms : p \in DOMAIN arms[n]}
      differ(f(_)) == {p \in common : Cardinality({f(arms[n][p]) : n \in DOMAIN arms}) > 1}
      cls(r) == r.cls  rec(r) == r.recorded
  IN  [common |-> common, class |-> differ(cls), recorded |-> differ(rec)]

-----------------------------------------------------------------------------
(* Every record is replayed or counted under one reason; nothing is forced *)
(* on a flip-flop the map does not vouch for; a second pass that is given  *)
(* the first one's cycles replays nothing; and the comparison accounts for *)
(* the same records.                                                       *)
ReplayAccounts(recs, entries, measured, shift) ==
  LET p     == replay_plan(recs, entries, measured, <<>>, shift, FALSE)
      prior == [x \in {key(p.plan[k].rec) : k \in DOMAIN p.plan} |->
                  (CHOOSE q \in ToSet(p.plan) : key(q.rec) = x).cycle]
      gl    == [k \in DOMAIN p.plan |->
                  [bit |-> p.plan[k].rec.bit, cycle |-> p.plan[k].rec.cycle,
                   how |-> p.plan[k].entry.how, armed |-> "", disarmed |-> p.plan[k].rec.disarmed,
                   truth |-> p.plan[k].rec.truth, ok |-> TRUE, rf |-> "none"]]
      c     == reconcile(recs, <<>>, gl, entries)
      sum(f) == FoldSet(LAMBDA x, n : f[x] + n, 0, DOMAIN f)
  IN  /\ Len(p.plan) + sum(p.skipped) = Len(recs)
      /\ \A k \in DOMAIN p.plan : Injectable(entries[p.plan[k].rec.bit])
      /\ replay_plan(recs, entries, measured, prior, shift, FALSE).plan = <<>>
      /\ c.comparable + sum(c.without) = Len(recs)
      /\ c.comparable = Len(p.plan) /\ c.disagree = 0

(* The position-keyed plan of the replica banks is the same cycles for     *)
(* every netlist whose banks are as wide, whatever its numbering.          *)
PlanIsPortable(banks, others, draws) ==
  LET cycles(b) == LET p == wdog_plan(b, TRUE, draws)
                   IN  [k \in DOMAIN p |-> <<p[k].bank, p[k].cycle>>]
  IN  cycles(banks) = cycles(others)

(* No two flip-flops of a bank share the key of their draw.                *)
KeysDistinct(cone, bit) ==
  LET keys == cause_bank_sites(cone, bit)
  IN  \A f, g \in DOMAIN keys : keys[f] = keys[g] => f = g
=============================================================================
