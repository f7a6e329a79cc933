------------------------------ MODULE GlNetlist ------------------------------
(***************************************************************************)
(* Reading a mapped netlist: gl_netlist.py.  A netlist is a record of      *)
(*   order    the instances in file order                                  *)
(*   cell     instance -> [kind, pins]; kind is "dff" (a cell the parser   *)
(*            lists), "ff" (another flip-flop), "latch", "mem" or "gate";  *)
(*            pins is its set of input nets                                *)
(*   drives   net -> the instance whose output it is                       *)
(*   port     instance of a flip-flop -> its nets [q, d, clk, rst]         *)
(*   name     net -> [base, bit, anonymous], the RTL name it kept          *)
(*   nets     name of a vector -> its nets, when the netlist has it        *)
(***************************************************************************)
EXTENDS Naturals, Sequences, FiniteSets, SequencesExt, FiniteSetsExt

CONSTANT DEPTH   \* nets a search of the fan-out may follow

(* parse: the listed flip-flops in file order; a latch refuses the file.   *)
LatchRefused(N) == \E i \in DOMAIN N.cell : N.cell[i].kind = "latch"
parse(N)        == SelectSeq(N.order, LAMBDA i : N.cell[i].kind = "dff")
plain(N, net)   == N.name[net]
name_map(N)     == [f \in ToSet(parse(N)) |-> plain(N, N.port[f].q)]

(* A site's bit under the core's prefix: by name and bit, or by the name   *)
(* alone when the site is one bit wide.                                    *)
Named(N, path, bit, width) ==
  {f \in ToSet(parse(N)) :
     LET n == plain(N, N.port[f].q)
     IN  n.base = path /\ (n.bit = bit \/ (width = 1 /\ n.bit = "none"))}

(* census: site bits with a flip-flop of their name, and the flip-flops    *)
(* under the core's prefix that carry none.                                *)
census(N, bits) ==
  LET found == {b \in bits : Named(N, b.path, b.bit, b.width) # {}}
      named == UNION {Named(N, b.path, b.bit, b.width) : b \in found}
  IN  [found |-> found, missing |-> bits \ found,
       extra |-> {f \in ToSet(parse(N)) \ named : plain(N, N.port[f].q).core}]

(* The bench's macros: the vector of all Q nets, of which bit k has to be  *)
(* flip-flop k, and the flip-flop that case k forces, releases and clocks. *)
emit_vh(N) ==
  [qvec  |-> Reverse([k \in DOMAIN parse(N) |-> N.port[parse(N)[k]].q]),
   force |-> parse(N),
   clk   |-> [k \in DOMAIN parse(N) |-> N.port[parse(N)[k]].clk]]
VectorBit(v, k) == v[Len(v) + 1 - k]

is_flop(cell) == cell.kind \in {"dff", "ff"}
Opaque(cell)  == cell.kind = "mem"

(* Variant: a search through a flip-flop goes on at its own inputs.        *)
RECURSIVE back_through(_, _, _)
back_through(N, net, acc) ==
  IF net \in acc.seen THEN acc
  ELSE LET here == [acc EXCEPT !.seen = @ \cup {net}]
       IN  IF net \notin DOMAIN N.drives THEN here
           ELSE LET inst == N.drives[net]  cell == N.cell[inst]
                IN  IF Opaque(cell) THEN here
                    ELSE FoldSet(LAMBDA one, a : back_through(N, one, a),
                                 IF is_flop(cell)
                                 THEN [here EXCEPT !.found = @ \cup {inst}] ELSE here,
                                 cell.pins)

(* The search behind cone_flops, depth first: nets seen, flip-flops found. *)
RECURSIVE back(_, _, _)
back(N, net, acc) ==
  IF net \in acc.seen THEN acc
  ELSE LET here == [acc EXCEPT !.seen = @ \cup {net}]
       IN  IF net \notin DOMAIN N.drives THEN here
           ELSE LET inst == N.drives[net]  cell == N.cell[inst]
                IN  IF is_flop(cell) THEN [here EXCEPT !.found = @ \cup {inst}]
                    ELSE IF Opaque(cell) THEN here
                    ELSE FoldSet(LAMBDA one, a : back(N, one, a), here, cell.pins)
cone_flops(N, net) == back(N, net, [seen |-> {}, found |-> {}]).found

(* The nets an instance drives, the instances that read a net.             *)
outputs(N, inst) == {net \in DOMAIN N.drives : N.drives[net] = inst}
consumers(N, net) == {i \in DOMAIN N.cell : net \in N.cell[i].pins}

RECURSIVE forth(_, _, _, _)
forth(N, net, acc, depth) ==
  IF net \in acc.seen \/ depth > DEPTH THEN acc
  ELSE LET readers == consumers(N, net)
           here == [seen  |-> acc.seen \cup {net},
                    found |-> acc.found \cup {i \in readers : is_flop(N.cell[i])}]
           next == UNION {outputs(N, i) : i \in {j \in readers :
                      ~is_flop(N.cell[j]) /\ ~Opaque(N.cell[j])}}
       IN  FoldSet(LAMBDA one, a : forth(N, one, a, depth + 1), here, next)
fanout_flops(N, net) == forth(N, net, [seen |-> {}, found |-> {}], 0).found

-----------------------------------------------------------------------------
(* A protected word's three banks.  The net that carries a replica is the  *)
(* first of four names that is in the netlist with every bit driven: the   *)
(* voter's pin, the wire of the RTL, the bank's output, its register.      *)
replica_output(N, cands) ==
  LET driven(c) == c \in DOMAIN N.nets /\ N.nets[c] # <<>>
                   /\ \A k \in DOMAIN N.nets[c] : N.nets[c][k] \in DOMAIN N.drives
      at == {k \in DOMAIN cands : driven(cands[k])}
  IN  IF at = {} THEN <<>> ELSE N.nets[cands[Min(at)]]

ConeOf(N, bits) == UNION {cone_flops(N, bits[k]) : k \in DOMAIN bits}

(* tmr_census: one row per bank.  banks[k] has its candidates and the name *)
(* of its register.                                                        *)
tmr_census(N, banks) ==
  [k \in DOMAIN banks |->
     LET bits == replica_output(N, banks[k].cands)
         name(f) == plain(N, N.port[f].q)
     IN  [width     |-> Len(bits),
          cone      |-> ConeOf(N, bits),
          by_q_net  |-> Cardinality({f \in ToSet(parse(N)) : name(f).base = banks[k].register}),
          anonymous |-> Cardinality({f \in ConeOf(N, bits) : name(f).anonymous})]]

(* The watchdog's word: bank A by its register's name, B and C by cone.    *)
wdog_replicas(N, register, qb, qc) ==
  LET listed(S) == SelectSeq(parse(N), LAMBDA f : f \in S)
  IN  <<listed({f \in ToSet(parse(N)) : plain(N, N.port[f].q).base = register}),
        listed(ConeOf(N, qb)), listed(ConeOf(N, qc))>>

(* reset_cones: every asynchronous reset, grouped by the names, without    *)
(* bit indices, of the flip-flops that feed it, each as often as it occurs.*)
reset_cones(N) ==
  LET all     == ToSet(parse(N))
      base(i) == IF i \in all THEN plain(N, N.port[i].q).base ELSE i
      feeds(f) == LET cone == cone_flops(N, N.port[f].rst)
                  IN  [b \in {base(i) : i \in cone} |->
                         Cardinality({i \in cone : base(i) = b})]
      like(f)  == {h \in all : feeds(h) = feeds(f)}
  IN  {[sources |-> feeds(f), nets |-> {N.port[h].rst : h \in like(f)},
        flops   |-> Cardinality(like(f))] : f \in all}

-----------------------------------------------------------------------------
(* The sets of nets closed under walking back through a gate.              *)
Nets(N) == DOMAIN N.name
Closed(N) ==
  {S \in SUBSET Nets(N) :
     \A n \in S \cap DOMAIN N.drives :
       N.cell[N.drives[n]].kind = "gate" => N.cell[N.drives[n]].pins \subseteq S}

(* The cone of a net is exactly the flip-flops a path of gates leads back  *)
(* to (the least closed set around the net), in a netlist with loops and   *)
(* memories; the fan-out is its converse; and the macros agree on which    *)
(* flip-flop is number k.                                                  *)
ConesAreReach(N) ==
  LET closed == Closed(N)
      Reach == [net \in Nets(N) |->
                  {x \in Nets(N) : \A S \in closed : net \in S => x \in S}]
      flops == {i \in DOMAIN N.cell : is_flop(N.cell[i])}
  IN  /\ \A net \in Nets(N) :
           /\ cone_flops(N, net) =
                flops \cap {N.drives[n] : n \in Reach[net] \cap DOMAIN N.drives}
           /\ fanout_flops(N, net) =
                {i \in flops : \E p \in N.cell[i].pins : net \in Reach[p]}
      /\ \A k \in DOMAIN parse(N) :
           VectorBit(emit_vh(N).qvec, k) = N.port[emit_vh(N).force[k]].q
-----------------------------------------------------------------------------
(***************************************************************************)
(* Which block of the SoC every flip-flop of the netlist belongs to:       *)
(* gl_coverage.py.  Beside what GlNetlist names, a net's name says its     *)
(* first two path components ("none" for a plain wire).  T is the text of  *)
(* soc_top.v: its instances [inst, mod, conns], a conn being <<formal,     *)
(* nets of the actual>>, and the output formals of the modules it knows.   *)
(***************************************************************************)
CAMPAIGNS == {"u_ibex", "u_npu", "u_clint", "u_boot", "u_timer0.u_wdog"}

(* Instrument 1: the name; the watchdog is told from the timer around it.  *)
by_name(N, net) ==
  LET n == plain(N, net)
  IN  CASE n.top # "u_timer0" -> n.top
        [] n.top = "u_timer0" -> IF n.sub = "u_wdog" THEN "u_timer0.u_wdog"
                                 ELSE "u_timer0(gptimer)"

(* Instrument 2: the instance that drives a plain wire, if it is the only  *)
(* one.                                                                    *)
Drivers(T, net) ==
  {x.inst : x \in {y \in T.instances :
     /\ y.mod \in DOMAIN T.outputs
     /\ \E c \in y.conns : c[1] \in T.outputs[y.mod] /\ net \in c[2]}}
wire_owner(T, net) ==
  IF Cardinality(Drivers(T, net)) = 1 THEN CHOOSE i \in Drivers(T, net) : TRUE ELSE "none"

(* Instrument 3: the cones of the protected words; T.words is a sequence   *)
(* of [block, banks], and a later word takes what an earlier one placed.   *)
cone_instances(N, T, f) ==
  LET at == {k \in DOMAIN T.words :
               \E row \in ToSet(tmr_census(N, T.words[k].banks)) : f \in row.cone}
  IN  IF at = {} THEN "none" ELSE T.words[Max(at)].block

Placed(f, place) == place[f][1] # "none"
First(N, T, f) ==
  LET q == N.port[f].q
      n == by_name(N, q)  w == wire_owner(T, plain(N, q).base)  c == cone_instances(N, T, f)
  IN  CASE n # "none"             -> <<n, "name">>
        [] n = "none" /\ w # "none" -> <<w, "port">>
        [] n = "none" /\ w = "none" /\ c # "none" -> <<c, "cone">>
        [] n = "none" /\ w = "none" /\ c = "none" -> <<"none", "unplaced">>

(* Instrument 4: the vote.  The blocks of the placed flip-flops a search   *)
(* reaches; the fan-out is asked when the fan-in does not name one block.  *)
Blocks(found, place) == {place[g][1] : g \in {h \in found \cap DOMAIN place : Placed(h, place)}}
Voted(N, f, place) ==
  LET fan_in  == Blocks(cone_flops(N, N.port[f].d), place)
      fan_out == Blocks(fanout_flops(N, N.port[f].q), place)
  IN  IF Cardinality(fan_in) = 1 THEN fan_in
      ELSE IF Cardinality(fan_out) = 1 THEN fan_out ELSE {}
Vote(N, f, place) ==
  IF Placed(f, place) \/ Voted(N, f, place) = {} THEN place
  ELSE [place EXCEPT ![f] = <<CHOOSE b \in Voted(N, f, place) : TRUE, "vote">>]

(* One round visits the flip-flops in file order, each with the placements *)
(* that exist when it is reached.                                          *)
round(N, place) == FoldLeft(LAMBDA p, f : Vote(N, f, p), place, parse(N))

(* Variant: a single sweep.                                                *)
fixpoint_once(N, place) == round(N, place)

RECURSIVE fixpoint(_, _)
fixpoint(N, place) ==
  LET next == round(N, place) IN IF next = place THEN place ELSE fixpoint(N, next)

attribute(N, T) == fixpoint(N, [f \in ToSet(parse(N)) |-> First(N, T, f)])

(* The table: flip-flops by block and by instrument, those in no campaign, *)
(* and the range the unplaced ones leave.                                  *)
coverage(place) ==
  LET placed == {f \in DOMAIN place : Placed(f, place)}
      by(k, x) == Cardinality({f \in placed : place[f][k] = x})
      uncovered == Cardinality({f \in placed : place[f][1] \notin CAMPAIGNS})
      unplaced  == Cardinality(DOMAIN place \ placed)
  IN  [block      |-> [b \in {place[f][1] : f \in placed} |-> by(1, b)],
       instrument |-> [i \in {"name", "port", "cone", "vote"} |-> by(2, i)],
       unplaced   |-> unplaced, total |-> Cardinality(DOMAIN place),
       range      |-> <<uncovered, uncovered + unplaced>>]

(* --verify: every published figure has to be reproduced.                  *)
Verified(place, published) == coverage(place) = published

(* The attribution is settled: no flip-flop is left that one more vote     *)
(* would place, the votes follow their neighbours, and no vote overrides   *)
(* the name, the port or the cone of a flip-flop.                          *)
AttributionSettled(N, T) ==
  LET place == attribute(N, T)
  IN  \A f \in DOMAIN place :
        /\ First(N, T, f)[1] # "none" => place[f] = First(N, T, f)
        /\ ~Placed(f, place) => Voted(N, f, place) = {}
        /\ place[f][2] = "vote" =>
             place[f][1] \in Blocks(cone_flops(N, N.port[f].d)
                                    \cup fanout_flops(N, N.port[f].q), place)
=============================================================================
