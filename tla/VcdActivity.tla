---------------------------- MODULE VcdActivity -----------------------------
(***************************************************************************)
(* hw/soc/flow/vcd_activity.py: how often every bit of a simulation dump   *)
(* toggled, and how long it was high, in windows of clock cycles.  A dump  *)
(* is its header's lines and its body's: a time, or the value of an        *)
(* identifier from then on.  A path is the sequence of its scopes, a value *)
(* that of its bits, most significant first; names are of one length, so   *)
(* the shortest path is the one through fewest scopes.  What is asked, o:  *)
(*   clock, scope  paths                                                   *)
(*   window        [first, last, gate, value]: the cycles from first to    *)
(*                 before last (-1: the end) in which gate, if there is    *)
(*                 one, has the value                                      *)
(*   derive        a conjunction: the sequence of its signals' paths       *)
(*   span          the scope whose first and last activity is asked for    *)
(* The windows, conjunctions and spans of one call share the clock and the *)
(* values and nothing else (no two gates are one identifier): one of each. *)
(***************************************************************************)
EXTENDS Integers, Sequences, SequencesExt, FiniteSets, FiniteSetsExt, Functions, TLC

NONE == -1
NO_GATE == <<>>
BIN == {"0", "1"}
NOT_A_NET == {"parameter", "integer", "real", "time", "realtime"}

parse_header(lines) ==
  LET step(a, l) ==
        IF l.t = "scope" THEN [a EXCEPT !.scope = Append(@, l.name)]
        ELSE IF l.t = "upscope" THEN [a EXCEPT !.scope = IF @ = <<>> THEN @ ELSE Front(@)]
        ELSE IF l.kind \in NOT_A_NET THEN a
        ELSE [a EXCEPT !.vars = Append(@, [id |-> l.id, path |-> Append(a.scope, l.name),
                                           width |-> l.width, kind |-> l.kind])]
  IN  FoldLeft(step, [scope |-> <<>>, vars |-> <<>>], lines).vars

(* A scalar keeps its bit; a vector is cut, or padded with 0 or its x.     *)
expand(v, width) ==
  IF Len(v) >= width THEN SubSeq(v, Len(v) - width + 1, Len(v))
  ELSE [n \in 1 .. width - Len(v) |-> IF v[1] \in BIN THEN "0" ELSE v[1]] \o v

(* The signals under the scope, each under its shortest path; a register   *)
(* under any of its names is one.                                          *)
named(vars, id) == SelectSeq(vars, LAMBDA e : e.id = id)
inside(vars, scope) == SelectSeq(vars, LAMBDA e : IsPrefix(scope, e.path))
shorter(a, e) == IF Len(e.path) < Len(a.path) THEN e ELSE a
select(vars, scope) ==
  LET in == inside(vars, scope)
  IN  [id \in {e.id : e \in Range(in)} |->
         LET all == named(in, id)
             s   == FoldLeft(shorter, all[1], all)
         IN  [s EXCEPT !.kind = IF \E e \in Range(all) : e.kind = "reg" THEN "reg" ELSE @]]
ident(vars, path) == (CHOOSE e \in Range(vars) : e.path = path).id
refused(vars, o) ==
  \/ \A e \in Range(vars) : e.path # o.clock
  \/ o.window.gate # NO_GATE /\ \A e \in Range(vars) : e.path = o.window.gate => e.width # 1

-----------------------------------------------------------------------------
Quiet == [tr |-> 0, edge |-> 0, high |-> 0, last_t |-> 0, last_v |-> "x"]
start(sel) ==
  [cycle |-> NONE, clk |-> "x", gate |-> "x", value |-> [i \in DOMAIN sel |-> [b \in 1 .. sel[i].width |-> "x"]],
   open |-> FALSE, first_t |-> 0, time |-> 0, cycles |-> 0,
   bits |-> [p \in UNION {{i} \X (1 .. sel[i].width) : i \in DOMAIN sel} |-> Quiet],
   der |-> [tr |-> 0, high |-> 0, prev |-> NONE], span |-> <<>>]

(* Python's "and" over the values the edge samples: the first one that is  *)
(* 0 or unknown, or the last.                                              *)
sample(s, sel, paths) ==
  LET V(p) == IF \A i \in DOMAIN sel : sel[i].path # p THEN NONE
              ELSE LET v == s.value[CHOOSE i \in DOMAIN sel : sel[i].path = p]
                   IN  IF ~(Range(v) \subseteq BIN) THEN NONE ELSE IF "1" \in Range(v) THEN 1 ELSE 0
  IN  FoldLeft(LAMBDA a, p : IF a = 1 THEN V(p) ELSE a, 1, paths)
derived(d, v) ==
  [tr   |-> d.tr + (IF d.prev # NONE /\ v # NONE /\ d.prev # v THEN 1 ELSE 0),
   high |-> d.high + (IF v = 1 THEN 1 ELSE 0), prev |-> v]

close_bit(b, now) ==
  [b EXCEPT !.high = @ + (IF b.last_v = "1" THEN now - b.last_t ELSE 0), !.last_t = now]

(* A rising edge: the window opens and closes before the changes of this   *)
(* time land; the gate is read after its own.                              *)
Wanted_through(s, w) ==
  s.cycle >= w.first /\ (w.last < 0 \/ s.cycle <= w.last) /\ (w.gate # NO_GATE => s.gate = w.value)
Wanted(s, w) ==
  s.cycle >= w.first /\ (w.last < 0 \/ s.cycle < w.last) /\ (w.gate # NO_GATE => s.gate = w.value)
Open(s, now) ==
  [s EXCEPT !.open = TRUE, !.first_t = now,
            !.bits = [p \in DOMAIN @ |-> [@[p] EXCEPT !.last_t = now, !.last_v = s.value[p[1]][p[2]]]]]
Close(s, now) ==
  [s EXCEPT !.open = FALSE, !.time = @ + now - s.first_t,
            !.bits = [p \in DOMAIN @ |-> close_bit(@[p], now)]]
Rise(before, sel, o, now) ==
  LET s  == [before EXCEPT !.cycle = @ + 1]
      in == Wanted(s, o.window)
      w  == IF in /\ ~s.open THEN Open(s, now) ELSE IF ~in /\ s.open THEN Close(s, now) ELSE s
  IN  IF in THEN [w EXCEPT !.cycles = @ + 1, !.der = derived(@, sample(s, sel, o.derive))] ELSE w

(* One change of a selected signal.                                        *)
toggle(b, old, new, now, rising) ==
  IF old = new THEN b
  ELSE LET counts == {old, new} \subseteq BIN
       IN  [close_bit(b, now) EXCEPT !.last_v = new,
              !.tr = @ + (IF counts THEN 1 ELSE 0),
              !.edge = @ + (IF counts /\ rising THEN 1 ELSE 0)]
Land(s, sel, o, id, new, now, rising) ==
  IF id \notin DOMAIN sel THEN s
  ELSE IF s.value[id] = new THEN s
  ELSE [s EXCEPT
         !.value[id] = new,
         !.span = IF ~IsPrefix(o.span, sel[id].path) THEN @
                  ELSE <<IF @ = <<>> THEN s.cycle ELSE @[1], s.cycle>>,
         !.bits = IF ~s.open THEN @ ELSE
            FoldLeftDomain(LAMBDA a, b :
              [a EXCEPT ![<<id, b>>] = toggle(@, s.value[id][b], new[b], now, rising)], @, new)]

(* All changes of one time, in the order of the dump.                      *)
flush(s, pending, vars, sel, o, now) ==
  LET of(path) == SelectSeq(pending, LAMBDA p : p.id = ident(vars, path))
      edge(a, p) == [v |-> p.v[1], up |-> a.up \/ (a.v = "0" /\ p.v[1] = "1")]
      clk  == FoldLeft(edge, [v |-> s.clk, up |-> FALSE], of(o.clock))
      gate == IF o.window.gate = NO_GATE THEN <<>> ELSE of(o.window.gate)
      seen == [s EXCEPT !.clk = clk.v, !.gate = IF gate = <<>> THEN @ ELSE Last(gate).v[1]]
      risen == IF clk.up THEN Rise(seen, sel, o, now) ELSE seen
  IN  FoldLeft(LAMBDA a, p : Land(a, sel, o, p.id, p.v, now, clk.up), risen, pending)

(* The end of the dump closes what is open.                                *)
activity(dump, o) ==
  LET vars == parse_header(dump.header)
      sel  == select(vars, o.scope)
      wide(l) == [id |-> l.id, v |-> IF l.id \in DOMAIN sel THEN expand(l.v, sel[l.id].width) ELSE l.v]
      step(a, l) == IF l.t = "time"
                    THEN [s |-> flush(a.s, a.pending, vars, sel, o, a.now), pending |-> <<>>, now |-> l.at]
                    ELSE [a EXCEPT !.pending = Append(@, wide(l))]
      end == FoldLeft(step, [s |-> start(sel), pending |-> <<>>, now |-> 0], dump.body)
      s   == flush(end.s, end.pending, vars, sel, o, end.now)
  IN  IF s.open THEN Close(s, end.now) ELSE s

-----------------------------------------------------------------------------
(* The reference reads the dump as a waveform: what every bit holds from a *)
(* time on, and the cycles, each from one rise of the clock to the next.   *)
Times(dump) == {0} \cup {l.at : l \in {k \in Range(dump.body) : k.t = "time"}}
Stamped(dump) ==
  FoldLeft(LAMBDA a, l : IF l.t = "time" THEN [a EXCEPT !.now = l.at]
                         ELSE [a EXCEPT !.all = Append(@, [id |-> l.id, v |-> l.v, at |-> a.now])],
           [now |-> 0, all |-> <<>>], dump.body).all
(* Bit k of an identifier, from the least significant, at or before a time.*)
At(stamped, id, k, at) ==
  LET upto == SelectSeq(stamped, LAMBDA c : c.id = id /\ c.at <= at)
      v    == Last(upto).v
  IN  CASE upto = <<>>  -> "x"
        [] k < Len(v)   -> v[Len(v) - k]
        [] v[1] = "1"   -> "0"
        [] OTHER        -> v[1]

(* The rises, the cycles a window holds, and the values the edges sample.  *)
Rises(all, times, clock) == {t \in times : At(all, clock, 0, t - 1) = "0" /\ At(all, clock, 0, t) = "1"}
Held(all, edge, w, gate) ==
  {c \in 0 .. Len(edge) - 1 :
     /\ w.first <= c /\ (w.last = NONE \/ c < w.last)
     /\ w.gate = NO_GATE \/ At(all, gate, 0, edge[c + 1]) = w.value}
Sampled(all, sel, path, t) ==
  LET v == {At(all, p[1], p[2], t - 1) : p \in {q \in (DOMAIN sel) \X (0 .. 1) :
                                                  sel[q[1]].path = path /\ q[2] < sel[q[1]].width}}
  IN  IF v = {} \/ ~(v \subseteq BIN) THEN NONE ELSE IF "1" \in v THEN 1 ELSE 0
WaveBit(all, times, edge, held, last, id, k) ==
  LET until(c) == IF c + 2 <= Len(edge) THEN edge[c + 2] ELSE last
      in == {t \in times : /\ \E c \in held : edge[c + 1] <= t /\ (c + 2 <= Len(edge) => t < edge[c + 2])
                           /\ {At(all, id, k, t - 1), At(all, id, k, t)} = BIN}
  IN  [tr   |-> Cardinality(in), edge |-> Cardinality(in \cap Range(edge)),
       high |-> MapThenSumSet(LAMBDA c : Cardinality({t \in edge[c + 1] .. until(c) - 1 :
                                                       At(all, id, k, t) = "1"}), held)]
WaveDerived(v, held) ==
  [high |-> Cardinality({c \in held : v[c] = 1}),
   tr   |-> Cardinality({c \in held : \E b \in held : b < c /\ {v[b], v[c]} = {0, 1}
                                        /\ \A d \in held : ~(b < d /\ d < c)})]
WaveSpan(all, times, edge, sel, scope) ==
  LET cs == {Cardinality({r \in Range(edge) : r <= t}) - 1 :
               t \in {u \in times : \E i \in DOMAIN sel : IsPrefix(scope, sel[i].path) /\
                        \E k \in 0 .. sel[i].width - 1 : At(all, i, k, u - 1) # At(all, i, k, u)}}
  IN  IF cs = {} THEN <<>> ELSE <<Min(cs), Max(cs)>>
Wave(all, times, edge, held, last, sel, o) ==
  [cycles |-> Cardinality(held),
   time   |-> MapThenSumSet(LAMBDA c : (IF c + 2 <= Len(edge) THEN edge[c + 2] ELSE last) - edge[c + 1], held),
   bits   |-> [p \in UNION {{i} \X (1 .. sel[i].width) : i \in DOMAIN sel} |->
                 WaveBit(all, times, edge, held, last, p[1], sel[p[1]].width - p[2])],
   der    |-> WaveDerived([c \in held |->
                LET vs == [n \in DOMAIN o.derive |-> Sampled(all, sel, o.derive[n], edge[c + 1])]
                    not == {n \in DOMAIN vs : vs[n] # 1}
                IN  IF not = {} THEN 1 ELSE vs[Min(not)]], held),
   span   |-> WaveSpan(all, times, edge, sel, o.span)]
InOrder(times) == SetToSortSeq(times, LAMBDA a, b : a < b)
Reported(s) ==
  [cycles |-> s.cycles, time |-> s.time, span |-> s.span,
   bits   |-> [p \in DOMAIN s.bits |-> Restrict(s.bits[p], {"tr", "edge", "high"})],
   der    |-> Restrict(s.der, {"tr", "high"})]

(* What is reported of a window is what the waveform shows of its cycles,  *)
(* a change at the edge that closes it left to the next one, whatever the  *)
(* order of the changes within one time; every identifier stands once,     *)
(* under its outermost name, and is a net.                                 *)
AsTheWaveform(dump, o, vars, sel, all, times, edge) ==
  LET gate == IF o.window.gate = NO_GATE THEN "" ELSE ident(vars, o.window.gate)
  IN  Reported(activity(dump, o)) =
        Wave(all, times, edge, Held(all, edge, o.window, gate), Max(times), sel, o)
Outermost(sel, vars, scope) ==
  \A i \in DOMAIN sel : \A e \in Range(vars) : e.id = i /\ IsPrefix(scope, e.path) =>
    /\ Len(sel[i].path) <= Len(e.path)
    /\ sel[i].kind \notin NOT_A_NET /\ (e.kind = "reg" => sel[i].kind = "reg")
ActivityMeasured(dump, o) ==
  LET vars == parse_header(dump.header)
      all  == Stamped(dump)
  IN  ~refused(vars, o) =>
        /\ Outermost(select(vars, o.scope), vars, o.scope)
        /\ AsTheWaveform(dump, o, vars, select(vars, o.scope), all, Times(dump),
                         InOrder(Rises(all, Times(dump), ident(vars, o.clock))))
=============================================================================
