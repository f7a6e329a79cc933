---------------------------- MODULE ClkgateCheck ----------------------------
(***************************************************************************)
(* hw/soc/flow/clkgate_check.py: are two simulations of the SoC, with and  *)
(* without its clock gates, the same in every cycle, and how often is an   *)
(* enable low.  A dump is its header's lines and its body's: a mark ends a *)
(* time step, a change gives an identifier a value.  A path is the         *)
(* sequence of its scopes, a value that of its bits; names are of the same *)
(* length, so the shortest path is the one through fewest scopes.          *)
(***************************************************************************)
EXTENDS Integers, Sequences, FiniteSets, SequencesExt, Functions

X == <<"x">>

(* The header: which paths an identifier stands for, in order.             *)
NOT_A_NET == {"parameter", "integer", "real", "time", "realtime"}
parse_header(lines) ==
  LET read(a, l) ==
        IF l.t = "scope" THEN [a EXCEPT !.scope = Append(@, l.name)]
        ELSE IF l.t = "upscope" THEN [a EXCEPT !.scope = IF @ = <<>> THEN @ ELSE Front(@)]
        ELSE IF l.kind \in NOT_A_NET THEN a
        ELSE [a EXCEPT !.ids = Append(@, [id |-> l.id, path |-> Append(a.scope, l.name)])]
  IN  FoldLeft(read, [scope |-> <<>>, ids |-> <<>>], lines).ids

under(path, scopes) == \E s \in scopes : IsPrefix(s, path)

(* A net is followed under its shortest path in the scopes, unless any of  *)
(* its paths is excluded; the clock is found even then.                    *)
aliases(entries, id) == {n \in DOMAIN entries : entries[n].id = id}
excluded_all(entries, id, excludes) ==
  \A n \in aliases(entries, id) : under(entries[n].path, excludes)
excluded(entries, id, excludes) ==
  \E n \in aliases(entries, id) : under(entries[n].path, excludes)
track(entries, scopes, excludes) ==
  LET inside(id) == {n \in aliases(entries, id) : under(entries[n].path, scopes)}
      best(id) == CHOOSE n \in inside(id) : \A m \in inside(id) :
                    \/ Len(entries[n].path) < Len(entries[m].path)
                    \/ Len(entries[n].path) = Len(entries[m].path) /\ n <= m
      ids == {entries[n].id : n \in DOMAIN entries}
  IN  [id \in {i \in ids : inside(i) # {} /\ ~excluded(entries, i, excludes)} |->
         entries[best(id)].path]
Walker(dump, clock, scopes, excludes) ==
  LET entries == parse_header(dump.header)
      clocks == {n \in DOMAIN entries : entries[n].path = clock}
  IN  [found |-> clocks # {},
       clk_id |-> IF clocks = {} THEN "none" ELSE entries[CHOOSE n \in clocks : \A m \in clocks : m <= n].id,
       track |-> track(entries, scopes, excludes), body |-> dump.body]

(* The values at every rising edge of the clock: those of the whole time   *)
(* step, except that a dump ending in the middle of one is read as far as  *)
(* the clock.                                                              *)
edges(w) ==
  LET paths == Range(w.track)
      take(a, c) ==
        LET b == IF c.id = w.clk_id
                 THEN [a EXCEPT !.clk = c.v, !.rising = a.clk = <<"0">> /\ c.v = <<"1">>] ELSE a
        IN  IF c.id \in DOMAIN w.track THEN [b EXCEPT !.value[w.track[c.id]] = c.v] ELSE b
      mark(a) ==
        LET b == FoldLeft(take, [a EXCEPT !.rising = FALSE], a.pending)
            c == [b EXCEPT !.pending = <<>>, !.rising = FALSE]
        IN  IF b.rising THEN [c EXCEPT !.samples = Append(@, b.value)] ELSE c
      read(a, l) == IF l.t = "mark" THEN mark(a) ELSE [a EXCEPT !.pending = Append(@, l)]
      last(a, c) ==
        IF a.rising THEN a
        ELSE IF c.id = w.clk_id /\ a.clk = <<"0">> /\ c.v = <<"1">>
             THEN [a EXCEPT !.rising = TRUE, !.samples = Append(@, a.value)]
        ELSE take(a, c)
      start == [value |-> [p \in paths |-> X], clk |-> X, rising |-> FALSE,
                pending |-> <<>>, samples |-> <<>>]
      a == FoldLeft(read, start, w.body)
  IN  FoldLeft(last, a, a.pending).samples

(* Leading zeroes do not count.                                            *)
norm(v) ==
  LET some == {n \in DOMAIN v : v[n] # "0"}
  IN  IF v = <<>> \/ v[1] \notin {"0", "1"} THEN v
      ELSE IF some = {} THEN <<"0">>
      ELSE SubSeq(v, CHOOSE n \in some : \A m \in some : n <= m, Len(v))

(* Cycle by cycle, until the shorter dump ends, over the paths both have.  *)
compare(ea, eb, common) ==
  LET cycles == IF Len(ea) < Len(eb) THEN Len(ea) ELSE Len(eb)
      bad == {c \in 1 .. cycles : \E p \in common : norm(ea[c][p]) # norm(eb[c][p])}
  IN  [ran |-> TRUE, common |-> common, cycles |-> cycles, bad |-> bad,
       exit |-> IF bad = {} THEN 0 ELSE 1]
cmd_equiv(base, gated, clock, scopes, excludes) ==
  LET a == Walker(base, clock, scopes, excludes)
      b == Walker(gated, clock, scopes, excludes)
  IN  IF ~a.found \/ ~b.found THEN [ran |-> FALSE, exit |-> 1]
      ELSE compare(edges(a), edges(b), Range(a.track) \cap Range(b.track))

(* How often an enable is low, in the run and in a window of it, and how   *)
(* often it wakes; a dump without a rising edge is divided by.             *)
count(e, enables, window) ==
  LET in_window(c) == \A v \in window : norm(e[c][v.path]) = v.value
      low(p) == {c \in DOMAIN e : norm(e[c][p]) = <<"0">>}
      woken(p) == {c \in low(p) : c + 1 \in DOMAIN e \ low(p)}
  IN  [ran |-> TRUE, n |-> Len(e), nin |-> Cardinality({c \in DOMAIN e : in_window(c)}),
       low |-> [p \in enables |-> Cardinality(low(p))],
       lowin |-> [p \in enables |-> Cardinality({c \in low(p) : in_window(c)})],
       wakes |-> [p \in enables |-> Cardinality(woken(p))]]
cmd_duty(dump, clock, enables, window) ==
  LET followed == enables \cup {v.path : v \in window}
      w == Walker(dump, clock, followed, {})
  IN  IF ~w.found \/ ~(followed \subseteq Range(w.track)) \/ edges(w) = <<>> THEN [ran |-> FALSE]
      ELSE count(edges(w), enables, window)

-----------------------------------------------------------------------------
(* What a dump says, without the reader's bookkeeping: the value of an     *)
(* identifier once a time step is over, and the steps the clock rises in.  *)
Marks(body) == {n \in DOMAIN body : body[n].t = "mark"}
After(body, id, n) ==
  LET changes == {k \in 1 .. n : body[k].t = "change" /\ body[k].id = id}
  IN  IF changes = {} THEN X ELSE body[CHOOSE k \in changes : \A j \in changes : j <= k].v
Rises(body, id) ==
  {n \in Marks(body) :
     LET before == {m \in Marks(body) : m < n}
         prev == IF before = {} THEN 0 ELSE CHOOSE m \in before : \A j \in before : j <= m
     IN  After(body, id, prev) = <<"0">> /\ After(body, id, n) = <<"1">>}

(* Two dumps with the same header are reported the same exactly when every *)
(* net neither excluded nor a stand-in for an excluded one has the same    *)
(* value in every cycle both have, as a number where it is known.          *)
Complete(dump) == dump.body # <<>> /\ Last(dump.body).t = "mark"
known(v) == Range(v) \subseteq {"0", "1"}
number(v) == [n \in 1 .. 4 |-> IF n + Len(v) <= 4 THEN "0" ELSE v[n + Len(v) - 4]]
Differ(v, u) == IF known(v) /\ known(u) THEN number(v) # number(u) ELSE norm(v) # norm(u)
Edges(dump, clk) == SetToSortSeq(Rises(dump.body, clk), <)
Compared(entries, scopes, excludes) ==
  LET ids(ns, in) == {entries[n].id : n \in {m \in ns : under(entries[m].path, in)}}
  IN  ids(DOMAIN entries, scopes) \ ids(DOMAIN entries, excludes)
EquivHonest(base, gated, clock, scopes, excludes) ==
  \A r \in {cmd_equiv(base, gated, clock, scopes, excludes)},
     w \in {Walker(base, clock, scopes, excludes)} :
    (r.ran /\ base.header = gated.header /\ Complete(base) /\ Complete(gated)) =>
      \A ea \in {Edges(base, w.clk_id)}, eb \in {Edges(gated, w.clk_id)} :
        /\ r.cycles \in {Len(ea), Len(eb)} /\ r.cycles <= Len(ea) /\ r.cycles <= Len(eb)
        /\ \A c \in 1 .. r.cycles :
             c \in r.bad <=> \E id \in Compared(parse_header(base.header), scopes, excludes) :
               Differ(After(base.body, id, ea[c]), After(gated.body, id, eb[c]))

(* A wake ends a stretch of low cycles, the window's counts are part of the*)
(* run's, and a stretch still going on at the end is not a wake.           *)
DutyHonest(dump, clock, enables, window) ==
  \A r \in {cmd_duty(dump, clock, enables, window)} : r.ran => \A p \in enables :
        /\ r.wakes[p] <= r.low[p] /\ 2 * r.wakes[p] <= r.n
        /\ r.lowin[p] <= r.low[p] /\ r.low[p] - r.lowin[p] <= r.n - r.nin
=============================================================================
