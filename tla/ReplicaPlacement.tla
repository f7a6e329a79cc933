-------------------------- MODULE ReplicaPlacement --------------------------
(***************************************************************************)
(* hw/openlane/replica_placement.py: how far apart on the die the          *)
(* flip-flops of the three replicas are, the corresponding ones above all. *)
(* Lengths are hundredths of a micrometre, distances are compared by their *)
(* squares; a flip-flop's name is the replica it is under and its own name,*)
(* a net is <<replica, bit>> where it is named after a bit.                *)
(***************************************************************************)
EXTENDS Integers, Sequences, FiniteSets, SequencesExt, FiniteSetsExt, Functions

FF_CELL == "sg13g2_dfrbpq_1"
BUFFERS == {"inv", "buf", "dlygate"}
CELL_W == 1296
CELL_H == 378
SITE == 48
HOPS == 4

(* The bit a flip-flop holds: the nearest net of its replica's bits its    *)
(* output reaches through inverters and buffers, if it is near enough.     *)
fwd(insts, net) ==
  {insts[n].o : n \in {k \in DOMAIN insts : insts[k].cell \in BUFFERS /\ insts[k].a = net}}
bits_of_any(nets, rep) == {n \in nets : n[2] # "-"}
bits_of(nets, rep) == {n \in nets : n[1] = rep /\ n[2] # "-"}
bit_found(insts, q, rep) ==
  LET hop(a, k) ==
        LET here == bits_of(a.frontier, rep)
            next == UNION {fwd(insts, n) : n \in a.frontier} \ a.seen
        IN  IF a.found # "-" THEN a
            ELSE IF here # {} THEN [a EXCEPT !.found = (CHOOSE n \in here : TRUE)[2]]
            ELSE [a EXCEPT !.frontier = next, !.seen = @ \cup next]
  IN  FoldLeft(hop, [frontier |-> {q}, seen |-> {q}, found |-> "-"],
               [k \in 1 .. HOPS |-> k]).found
bit_index(insts, replicas) ==
  LET flops == {n \in DOMAIN insts : insts[n].cell = FF_CELL /\ insts[n].under \in replicas}
      of(name) == insts[CHOOSE n \in flops : insts[n].name = name]
  IN  [name \in {insts[n].name : n \in flops} |->
         [rep |-> of(name).under, bit |-> bit_found(insts, of(name).q, of(name).under)]]

(* The components section of the DEF, one line for each cell placed.       *)
read_def(lines, wanted) ==
  LET read(a, l) ==
        IF l.is = "COMPONENTS" THEN [a EXCEPT !.inside = TRUE]
        ELSE IF l.is = "END COMPONENTS" THEN [a EXCEPT !.inside = FALSE]
        ELSE IF ~a.inside \/ l.is # "PLACED" THEN a
        ELSE [a EXCEPT !.total = @ + 1,
                       !.placed = IF l.name \in wanted THEN [n \in DOMAIN @ \cup {l.name} |->
                                    IF n = l.name THEN <<l.x, l.y>> ELSE @[n]] ELSE @]
  IN  FoldLeft(read, [inside |-> FALSE, total |-> 0, placed |-> <<>>], lines)

square(n) == n * n
gap(d, size) == Max({0, d - size, -d - size})
c2c(p, q)  == square(p[1] - q[1]) + square(p[2] - q[2])
edge(p, q) == square(gap(p[1] - q[1], CELL_W)) + square(gap(p[2] - q[2], CELL_H))

(* Where each bit of each replica is; a flip-flop of no known bit is there *)
(* under its name.                                                         *)
by_replica(placed, idx) == {idx[n].rep : n \in DOMAIN placed}
key(n, idx) == IF idx[n].bit = "-" THEN <<"name", n>> ELSE <<"bit", idx[n].bit>>
points(placed, idx) ==
  [r \in by_replica(placed, idx) |->
     LET mine == {n \in DOMAIN placed : idx[n].rep = r}
     IN  [k \in {key(n, idx) : n \in mine} |-> placed[CHOOSE n \in mine : key(n, idx) = k]]]

all_points(pts) == UNION {{<<r, k>> : k \in DOMAIN pts[r]} : r \in DOMAIN pts}
where(pts, m) == pts[m[1]][m[2]]
cross_pairs(pts) == {s \in SUBSET all_points(pts) :
                       Cardinality(s) = 2 /\ \A m, n \in s : m # n => m[1] # n[1]}
distance(pts, s) == CHOOSE d \in {edge(where(pts, m), where(pts, n)) : <<m, n>> \in
                                    {t \in s \X s : t[1] # t[2]}} : TRUE
within(pts, pairs, reach) == {s \in pairs : distance(pts, s) <= square(reach)}

(* Corresponding bits: those every replica has.                            *)
same_bit_pairs(pts) ==
  LET common == {k \in UNION {DOMAIN pts[r] : r \in DOMAIN pts} :
                   k[1] = "bit" /\ \A r \in DOMAIN pts : k \in DOMAIN pts[r]}
  IN  IF Cardinality(DOMAIN pts) < 2 THEN {}
      ELSE {s \in cross_pairs(pts) : \E k \in common : \A m \in s : m[2] = k}

(* Whether the nearest fellow is of the flip-flop's own replica.           *)
nearest_is_own(pts, m) ==
  LET to(S) == {c2c(where(pts, m), where(pts, n)) : n \in S}
      mine == to({n \in all_points(pts) : n[1] = m[1] /\ n # m})
      theirs == to({n \in all_points(pts) : n[1] # m[1]})
  IN  mine # {} /\ Min(mine) < Min(theirs)

(* The null model: the places as they are, the labels dealt out again; the *)
(* first of several nearest fellows counts.                                *)
nearest(places, i) ==
  LET others == DOMAIN places \ {i}
      least == Min({c2c(places[i], places[j]) : j \in others})
  IN  Min({j \in others : c2c(places[i], places[j]) = least})
shuffled_other(places, labels) ==
  Cardinality({i \in DOMAIN places : labels[i] # labels[nearest(places, i)]})
(* n (n - m) / (n - 1), of n cells in banks of which m is the largest.     *)
analytic_times(n, sizes) == n * (n - Max(sizes))

measure(insts, replicas, lines) ==
  LET idx == bit_index(insts, replicas)
      pts == points(read_def(lines, DOMAIN idx).placed, idx)
      pairs == cross_pairs(pts)
      same == same_bit_pairs(pts)
      own == {m \in all_points(pts) : nearest_is_own(pts, m)}
  IN  IF DOMAIN idx = {} \/ Cardinality(DOMAIN pts) = 1 THEN [ok |-> FALSE]
      ELSE [ok |-> TRUE, pts |-> pts, pairs |-> pairs, same |-> same,
            per_replica |-> [r \in DOMAIN pts |-> Cardinality(DOMAIN pts[r])],
            unindexed |-> {n \in DOMAIN idx : idx[n].bit = "-"},
            abutting |-> within(pts, pairs, 0), within_site |-> within(pts, pairs, SITE),
            same_abutting |-> within(pts, same, 0),
            own |-> Cardinality(own), other |-> Cardinality(all_points(pts) \ own)]

-----------------------------------------------------------------------------
(* What the netlist says, however long the chain: the flip-flop whose value*)
(* a bit's net carries, every net having one driver.                       *)
RECURSIVE Carries(_, _, _)
Carries(insts, net, fuel) ==
  {net} \cup (IF fuel = 0 THEN {} ELSE UNION {Carries(insts, n, fuel - 1) : n \in fwd(insts, net)})
HoldsBit(insts, n, bit) ==
  <<insts[n].under, bit>> \in Carries(insts, insts[n].q, Len(insts))

(* No flip-flop is attributed to a bit it does not hold, no two to the     *)
(* same one, and each that is placed is measured; a pair reported to abut  *)
(* is a pair of copies of one bit in two replicas, so the figures are lower*)
(* bounds.                                                                 *)
PlacementMeasured(insts, replicas, lines) ==
  \A idx \in {bit_index(insts, replicas)}, r \in {measure(insts, replicas, lines)} :
    LET placed == read_def(lines, DOMAIN idx).placed
        at(m) == CHOOSE n \in DOMAIN insts :
                   insts[n].cell = FF_CELL /\ insts[n].under = m[1] /\ key(insts[n].name, idx) = m[2]
    IN  r.ok =>
          /\ Cardinality(all_points(r.pts)) = Cardinality(DOMAIN placed)
          /\ r.own + r.other = Cardinality(DOMAIN placed)
          /\ \A s \in r.same : \E bit \in {"0", "1"} : \A m \in s : HoldsBit(insts, at(m), bit)
          /\ r.same_abutting = r.same \cap r.abutting /\ r.abutting \subseteq r.within_site

(* Over every way of dealing the labels out again, the expected number of  *)
(* flip-flops next to another bank's is the formula's, if the banks are of *)
(* one size.                                                               *)
NullModelExact(places, labels) ==
  LET n == Len(places)
      perms == {f \in [1 .. n -> 1 .. n] : Cardinality(Range(f)) = n}
      dealt(f) == [i \in 1 .. n |-> labels[f[i]]]
      sizes == {Cardinality({i \in 1 .. n : labels[i] = l}) : l \in Range(labels)}
  IN  Cardinality(sizes) = 1 =>
        (n - 1) * FoldSet(LAMBDA f, s : s + shuffled_other(places, dealt(f)), 0, perms)
          = Cardinality(perms) * analytic_times(n, sizes)
=============================================================================
