-------------------------- MODULE CloudMonitor_proofs --------------------------
(***************************************************************************)
(* Proofs about the cloud monitor (CloudMonitor), for any runs and any     *)
(* situations they go through, any inventories that check_config accepts,  *)
(* any quota and slice: what a published snapshot may claim.               *)
(*                                                                         *)
(* Lemmas on the observation order come first: an order leaves nothing     *)
(* out.  Then the invariant IInv, with one lemma for every action.         *)
(***************************************************************************)
EXTENDS CloudMonitor, FiniteSetTheorems, FunctionTheorems, SequenceTheorems, TLAPS

-----------------------------------------------------------------------------
(* The observation order.                                                  *)

(* A strict total order of a finite set: what comes before each element.   *)
Orders(S, before) ==
  /\ \A s \in S : before[s] \subseteq S /\ s \notin before[s]
  /\ \A s \in S : \A t \in before[s] : before[t] \subseteq before[s]
  /\ \A s, t \in S : s = t \/ s \in before[t] \/ t \in before[s]

(* A list of the elements of S that leaves none out.                       *)
Lists(l, S) ==
  /\ Len(l) \in Nat /\ DOMAIN l = 1 .. Len(l) /\ l \in Seq(S)
  /\ \A i \in DOMAIN l : l[i] \in S
  /\ \A s \in S : \E i \in DOMAIN l : l[i] = s

(* The number of elements that come before one tells which one it is.      *)
LEMMA RankInjective ==
  ASSUME NEW S, IsFiniteSet(S), NEW before, Orders(S, before),
         NEW s \in S, NEW t \in S, Cardinality(before[s]) = Cardinality(before[t])
  PROVE  s = t
<1> DEFINE smaller(x, y) == x \in before[y]
<1>1. ASSUME NEW x \in S, NEW y \in S, x \in before[y],
             Cardinality(before[x]) = Cardinality(before[y])
      PROVE  FALSE
  <2>1. before[x] \subseteq before[y] /\ x \notin before[x] /\ before[y] \subseteq S
    BY <1>1 DEF Orders
  <2>2. IsFiniteSet(before[y])
    BY <2>1, FS_Subset
  <2>3. before[y] = before[x]
    BY <2>1, <2>2, <1>1, FS_Subset
  <2> QED BY <2>1, <2>3, <1>1
<1> QED BY <1>1 DEF Orders

LEMMA InOrderLists ==
  ASSUME NEW S, IsFiniteSet(S), NEW before, Orders(S, before)
  PROVE  /\ Lists(InOrder(S, before), S)
         /\ \A i \in DOMAIN InOrder(S, before) :
              Cardinality(before[InOrder(S, before)[i]]) = i - 1
<1> DEFINE n == Cardinality(S)
           f == [s \in S |-> Cardinality(before[s]) + 1]
           l == InOrder(S, before)
<1>1. n \in Nat /\ IsFiniteSet(1 .. n) /\ Cardinality(1 .. n) = n
  BY FS_CardinalityType, FS_Interval
<1>2. ASSUME NEW s \in S PROVE Cardinality(before[s]) \in 0 .. n - 1
  <2>1. before[s] \subseteq S /\ s \notin before[s]
    BY DEF Orders
  <2>2. IsFiniteSet(before[s]) /\ Cardinality(before[s]) <= n /\ Cardinality(before[s]) # n
    BY <2>1, FS_Subset
  <2>3. Cardinality(before[s]) \in Nat
    BY <2>2, FS_CardinalityType
  <2> QED BY <1>1, <2>2, <2>3
<1>3. f \in Injection(S, 1 .. n)
  <2>1. f \in [S -> 1 .. n]
    BY <1>1, <1>2
  <2>2. ASSUME NEW s \in S, NEW t \in S, f[s] = f[t] PROVE s = t
    <3>1. Cardinality(before[s]) = Cardinality(before[t])
      BY <2>2, <1>2
    <3> QED BY <3>1, RankInjective
  <2> QED BY <2>1, <2>2 DEF Injection, IsInjective
<1>4. f \in Surjection(S, 1 .. n)
  BY <1>1, <1>3, FS_Injection
<1>5. ASSUME NEW i \in 1 .. n
      PROVE  l[i] \in S /\ Cardinality(before[l[i]]) = i - 1
  <2>1. \E s \in S : f[s] = i
    BY <1>4 DEF Surjection
  <2>2. \E s \in S : Cardinality(before[s]) = i - 1
    BY <2>1, <1>2
  <2>3. l[i] = CHOOSE s \in S : Cardinality(before[s]) = i - 1
    BY DEF InOrder
  <2> QED BY <2>2, <2>3
<1>6. l \in [1 .. n -> S]
  <2>1. l = [i \in 1 .. n |-> l[i]]
    BY DEF InOrder
  <2> QED BY <2>1, <1>5
<1>7. l \in Seq(S) /\ Len(l) = n /\ DOMAIN l = 1 .. n
  <2> HIDE DEF l, n
  <2> QED BY <1>1, <1>6
<1>8. ASSUME NEW s \in S PROVE \E i \in 1 .. n : l[i] = s
  <2>1. f[s] \in 1 .. n /\ Cardinality(before[s]) = f[s] - 1
    BY <1>1, <1>2
  <2>2. l[f[s]] \in S /\ Cardinality(before[l[f[s]]]) = Cardinality(before[s])
    BY <2>1, <1>5
  <2>3. l[f[s]] = s
    BY <2>2, RankInjective
  <2> QED BY <2>1, <2>3
<1> HIDE DEF l, n
<1>9. Lists(l, S)
  BY <1>1, <1>7, <1>8 DEF Lists
<1> QED BY <1>5, <1>7, <1>9 DEF l

(* A set of runs that is not empty has a newest one.                       *)
LEMMA Newest ==
  ASSUME NEW S \in SUBSET Nat, IsFiniteSet(S), S # {}
  PROVE  \E s \in S : \A q \in S : q <= s
<1> DEFINE before == [r \in S |-> {q \in S : q > r}]
           l == InOrder(S, before)
<1>1. \A s \in S : before[s] = {q \in S : q > s}
  OBVIOUS
<1> HIDE DEF before
<1>2. Orders(S, before)
  <2>1. \A s \in S : before[s] \subseteq S /\ s \notin before[s]
    BY <1>1
  <2>2. ASSUME NEW s \in S, NEW t \in before[s] PROVE before[t] \subseteq before[s]
    <3>1. t \in S /\ t > s
      BY <1>1
    <3>2. ASSUME NEW q \in before[t] PROVE q \in before[s]
      <4>1. q \in S /\ q > t
        BY <1>1, <3>1
      <4>2. q > s
        BY <3>1, <4>1
      <4> QED BY <1>1, <4>1, <4>2
    <3> QED BY <3>2
  <2>3. \A s, t \in S : s = t \/ s \in before[t] \/ t \in before[s]
    BY <1>1
  <2> QED BY <2>1, <2>2, <2>3 DEF Orders
<1>3. Lists(l, S) /\ \A i \in DOMAIN l : Cardinality(before[l[i]]) = i - 1
  BY <1>2, InOrderLists
<1> HIDE DEF l
<1>4. 1 \in DOMAIN l
  <2>1. PICK i \in DOMAIN l : l[i] \in S
    BY <1>3 DEF Lists
  <2> QED BY <1>3, <2>1 DEF Lists
<1>5. l[1] \in S /\ Cardinality(before[l[1]]) = 0
  BY <1>3, <1>4 DEF Lists
<1>6. IsFiniteSet(before[l[1]])
  <2>1. before[l[1]] \subseteq S
    BY <1>1, <1>5
  <2> QED BY <2>1, FS_Subset
<1>7. before[l[1]] = {}
  BY <1>5, <1>6, FS_EmptySet
<1>8. ASSUME NEW q \in S PROVE q <= l[1]
  <2>1. ~(q > l[1])
    BY <1>1, <1>5, <1>7
  <2>2. q \in Nat /\ l[1] \in Nat
    BY <1>5
  <2> QED BY <2>1, <2>2
<1> QED BY <1>5, <1>8

LEMMA AscendingLists ==
  ASSUME NEW S \in SUBSET Nat, IsFiniteSet(S)
  PROVE  Lists(Ascending(S), S)
<1> DEFINE before == [r \in S |-> {q \in S : q < r}]
<1>1. Orders(S, before)
  <2>1. \A s \in S : before[s] = {q \in S : q < s}
    OBVIOUS
  <2> HIDE DEF before
  <2>2. \A s \in S : before[s] \subseteq S /\ s \notin before[s]
    BY <2>1
  <2>3. ASSUME NEW s \in S, NEW t \in before[s] PROVE before[t] \subseteq before[s]
    <3>1. t \in S /\ t < s
      BY <2>1
    <3>2. ASSUME NEW q \in before[t] PROVE q \in before[s]
      <4>1. q \in S /\ q < t
        BY <2>1, <3>1
      <4>2. q < s
        BY <3>1, <4>1
      <4> QED BY <2>1, <4>1, <4>2
    <3> QED BY <3>2
  <2>4. \A s, t \in S : s = t \/ s \in before[t] \/ t \in before[s]
    BY <2>1
  <2> QED BY <2>2, <2>3, <2>4 DEF Orders
<1> HIDE DEF before
<1>2. Lists(InOrder(S, before), S)
  BY <1>1, InOrderLists
<1> QED BY <1>2 DEF Ascending, before

(* Two lists one after the other.                                          *)
LEMMA ConcatLists ==
  ASSUME NEW S, NEW T, NEW l, NEW m, Lists(l, S), Lists(m, T)
  PROVE  Lists(l \o m, S \cup T)
<1>1. l \in Seq(S \cup T) /\ m \in Seq(S \cup T)
  BY DEF Lists
<1>2. /\ l \o m \in Seq(S \cup T) /\ Len(l \o m) = Len(l) + Len(m)
      /\ \A i \in 1 .. Len(l) : (l \o m)[i] = l[i]
      /\ \A i \in 1 .. Len(m) : (l \o m)[Len(l) + i] = m[i]
  BY <1>1 DEF Lists
<1>3. Len(l \o m) \in Nat /\ DOMAIN (l \o m) = 1 .. Len(l \o m)
  BY <1>2 DEF Lists
<1>4. ASSUME NEW s \in S PROVE \E i \in DOMAIN (l \o m) : (l \o m)[i] = s
  BY <1>2 DEF Lists
<1>5. ASSUME NEW t \in T PROVE \E i \in DOMAIN (l \o m) : (l \o m)[i] = t
  <2>1. PICK i \in 1 .. Len(m) : m[i] = t
    BY DEF Lists
  <2>2. Len(l) + i \in 1 .. Len(l \o m) /\ (l \o m)[Len(l) + i] = t
    BY <2>1, <1>2 DEF Lists
  <2> QED BY <2>2, <1>3
<1>6. \A i \in DOMAIN (l \o m) : (l \o m)[i] \in S \cup T
  BY <1>2, <1>3
<1> QED BY <1>2, <1>3, <1>4, <1>5, <1>6 DEF Lists

LEMMA PairFields ==
  ASSUME NEW S, NEW T, NEW x \in S \X T
  PROVE  x[1] \in S /\ x[2] \in T /\ x = <<x[1], x[2]>>
OBVIOUS

(* A place in the order: an index, and whether it is one of the history.   *)
LEMMA PlaceFields ==
  ASSUME NEW S, NEW T, NEW x \in (S \X {FALSE}) \cup (T \X {TRUE})
  PROVE  /\ x[1] \in S \cup T /\ x = <<x[1], x[2]>>
         /\ \/ x[2] = TRUE /\ x[1] \in T
            \/ x[2] = FALSE /\ x[1] \in S
<1> DEFINE N == {FALSE}
           Y == {TRUE}
<1>1. CASE x \in S \X N
  <2> HIDE DEF N
  <2>1. x[1] \in S /\ x[2] \in N /\ x = <<x[1], x[2]>>
    BY <1>1, PairFields
  <2>2. x[2] = FALSE
    BY <2>1 DEF N
  <2> QED BY <2>1, <2>2
<1>2. CASE x \in T \X Y
  <2> HIDE DEF Y
  <2>1. x[1] \in T /\ x[2] \in Y /\ x = <<x[1], x[2]>>
    BY <1>2, PairFields
  <2>2. x[2] = TRUE
    BY <2>1 DEF Y
  <2> QED BY <2>1, <2>2
<1> QED BY <1>1, <1>2

LEMMA SelectedFinite ==
  ASSUME IsFiniteSet(selected)
  PROVE  IsFiniteSet(Selected)
<1> DEFINE f == [x \in selected |-> x.run]
<1>1. f \in Surjection(selected, Selected)
  BY DEF Surjection, Selected
<1> QED BY <1>1, FS_Surjection

LEMMA PriorityLists ==
  ASSUME IsFiniteSet(selected), Selected \subseteq Nat
  PROVE  Lists(PrioritySeq, Priority)
<1> DEFINE before == [r \in Priority |->
             {q \in Priority : Rank(q) < Rank(r) \/ (Rank(q) = Rank(r) /\ q > r)}]
<1>1. Priority \in SUBSET Nat /\ IsFiniteSet(Priority)
  BY SelectedFinite, FS_Subset DEF Priority
<1>2. \A r \in Priority : Rank(r) \in Nat
  BY DEF Rank
<1>3. Orders(Priority, before)
  <2>1. \A s \in Priority : before[s] =
          {q \in Priority : Rank(q) < Rank(s) \/ (Rank(q) = Rank(s) /\ q > s)}
    OBVIOUS
  <2> HIDE DEF before
  <2>2. \A s \in Priority : before[s] \subseteq Priority /\ s \notin before[s]
    BY <1>1, <1>2, <2>1
  <2>3. ASSUME NEW s \in Priority, NEW t \in before[s] PROVE before[t] \subseteq before[s]
    <3>1. t \in Priority /\ (Rank(t) < Rank(s) \/ (Rank(t) = Rank(s) /\ t > s))
      BY <2>1
    <3>2. ASSUME NEW q \in before[t] PROVE q \in before[s]
      <4>1. q \in Priority /\ (Rank(q) < Rank(t) \/ (Rank(q) = Rank(t) /\ q > t))
        BY <2>1, <3>1
      <4>2. Rank(q) < Rank(s) \/ (Rank(q) = Rank(s) /\ q > s)
        BY <3>1, <4>1, <1>1, <1>2
      <4> QED BY <2>1, <4>1, <4>2
    <3> QED BY <3>2
  <2>4. ASSUME NEW s \in Priority, NEW t \in Priority
        PROVE  s = t \/ s \in before[t] \/ t \in before[s]
    BY <1>1, <1>2, <2>1
  <2> QED BY <2>2, <2>3, <2>4 DEF Orders
<1> HIDE DEF before
<1>4. Lists(InOrder(Priority, before), Priority)
  BY <1>1, <1>3, InOrderLists
<1> QED BY <1>4 DEF PrioritySeq, before

(* The history lists the selected runs that have no priority.              *)
LEMMA HistoryLists ==
  ASSUME IsFiniteSet(selected), Selected \subseteq Nat, NEW cursor \in Nat
  PROVE  Lists(HistoryFrom(cursor), Selected \ Priority)
<1> DEFINE past  == Selected \ Priority
           ahead == {r \in past : r >= cursor}
<1>1. past \in SUBSET Nat /\ IsFiniteSet(past)
  BY SelectedFinite, FS_Subset
<1>2. /\ ahead \in SUBSET Nat /\ IsFiniteSet(ahead)
      /\ past \ ahead \in SUBSET Nat /\ IsFiniteSet(past \ ahead)
  BY <1>1, FS_Subset
<1>3. ahead \cup (past \ ahead) = past
  OBVIOUS
<1> HIDE DEF past, ahead
<1>4. Lists(Ascending(past), past)
  BY <1>1, AscendingLists
<1>5. Lists(Ascending(ahead) \o Ascending(past \ ahead), past)
  BY <1>2, <1>3, AscendingLists, ConcatLists
<1> QED BY <1>4, <1>5 DEF HistoryFrom, past, ahead

(* What is eligible is of the history.                                     *)
LEMMA EligibleOfHistory ==
  ASSUME NEW T, NEW h, Lists(h, T)
  PROVE  /\ Len(Eligible(h)) \in Nat /\ DOMAIN Eligible(h) = 1 .. Len(Eligible(h))
         /\ \A i \in DOMAIN Eligible(h) : \E j \in DOMAIN h : Eligible(h)[i] = h[j]
<1> DEFINE cached(i) == snap.rows[h[i]].obs = "CACHED"
           kept == {i \in DOMAIN h : ~cached(i) \/
                      Cardinality({j \in 1 .. i : cached(j)}) <= QUOTA}
           a == Ascending(kept)
           e == Eligible(h)
<1>1. kept \in SUBSET Nat /\ kept \subseteq DOMAIN h /\ IsFiniteSet(kept)
  <2>1. kept \subseteq 1 .. Len(h) /\ Len(h) \in Nat
    BY DEF Lists
  <2>2. IsFiniteSet(1 .. Len(h))
    BY <2>1, FS_Interval
  <2> HIDE DEF kept
  <2>3. IsFiniteSet(kept)
    BY <2>1, <2>2, FS_Subset
  <2>4. kept \subseteq DOMAIN h /\ DOMAIN h \subseteq Nat
    BY <2>1 DEF Lists
  <2> QED BY <2>3, <2>4
<1>2. e = [i \in DOMAIN a |-> h[a[i]]]
  BY DEF Eligible
<1>3. Lists(a, kept)
  <2> HIDE DEF kept
  <2> QED BY <1>1, AscendingLists
<1> HIDE DEF kept, a, e
<1>4. \A i \in DOMAIN a : a[i] \in DOMAIN h
  BY <1>1, <1>3 DEF Lists
<1>5. \A i \in DOMAIN a : h[a[i]] \in T
  BY <1>4 DEF Lists
<1>6. DOMAIN a = 1 .. Len(a) /\ Len(a) \in Nat
  BY <1>3 DEF Lists
<1>7. e \in Seq(T) /\ Len(e) = Len(a) /\ DOMAIN e = DOMAIN a
  BY <1>2, <1>5, <1>6
<1> QED BY <1>2, <1>4, <1>6, <1>7 DEF e

(* The order leaves no priority run out, and what it marks as historical   *)
(* is of the history.                                                      *)
LEMMA OrderIsComplete ==
  ASSUME IsFiniteSet(selected), Selected \subseteq Nat, NEW T, NEW h, Lists(h, T)
  PROVE  LET o == ObservationOrder(h)
         IN  /\ Len(o) \in Nat /\ DOMAIN o = 1 .. Len(o)
             /\ \A i \in DOMAIN o : /\ o[i][1] \in Priority \cup T /\ o[i][2] \in BOOLEAN
                                    /\ o[i][2] => \E j \in DOMAIN h : h[j] = o[i][1]
             /\ \A r \in Priority : \E i \in DOMAIN o : o[i][1] = r
<1> DEFINE p == PrioritySeq
           e == Eligible(h)
           places  == ((DOMAIN p) \X {FALSE}) \cup ((DOMAIN e) \X {TRUE})
           turn(x) == IF x[2] THEN x[1] ELSE ((x[1] - 1) \div SLICE) + 1
           sooner(x, y) ==
             \/ turn(x) < turn(y)
             \/ turn(x) = turn(y) /\ (IF x[2] = y[2] THEN x[1] < y[1] ELSE y[2])
           before == [y \in places |-> {x \in places : sooner(x, y)}]
           line == InOrder(places, before)
           o == ObservationOrder(h)
<1>1. Lists(p, Priority)
  BY PriorityLists
<1>2. /\ Len(e) \in Nat /\ DOMAIN e = 1 .. Len(e)
      /\ \A i \in DOMAIN e : \E j \in DOMAIN h : e[i] = h[j]
  BY EligibleOfHistory
<1>3. o = [i \in DOMAIN line |->
             <<IF line[i][2] THEN e[line[i][1]] ELSE p[line[i][1]], line[i][2]>>]
  BY DEF ObservationOrder
<1> HIDE DEF p, e, o
<1>4. ASSUME NEW x \in places
      PROVE  x[1] \in Nat /\ x[2] \in BOOLEAN /\ x = <<x[1], x[2]>> /\ turn(x) \in Nat
  <2>3. DOMAIN p \subseteq Nat \ {0} /\ DOMAIN e \subseteq Nat \ {0}
    BY <1>1, <1>2 DEF Lists
  <2>4. /\ x[1] \in (DOMAIN p) \cup (DOMAIN e) /\ x = <<x[1], x[2]>>
        /\ (x[2] = TRUE \/ x[2] = FALSE)
    BY PlaceFields
  <2>1. x[1] \in Nat \ {0} /\ x[2] \in BOOLEAN /\ x = <<x[1], x[2]>>
    BY <2>3, <2>4
  <2>2. (x[1] - 1) \div SLICE \in Nat
    BY <2>1, MonitorAssumption
  <2> QED BY <2>1, <2>2
<1>5. IsFiniteSet(places)
  <2>1. IsFiniteSet(DOMAIN p) /\ IsFiniteSet(DOMAIN e)
    BY <1>1, <1>2, FS_Interval DEF Lists
  <2>2. IsFiniteSet({TRUE}) /\ IsFiniteSet({FALSE})
    BY FS_Singleton
  <2>3. IsFiniteSet((DOMAIN p) \X {FALSE}) /\ IsFiniteSet((DOMAIN e) \X {TRUE})
    BY <2>1, <2>2, FS_Product
  <2> QED BY <2>3, FS_Union
<1>6. Orders(places, before)
  <2>1. \A y \in places : before[y] = {x \in places : sooner(x, y)}
    OBVIOUS
  <2> HIDE DEF before, turn, places
  <2>2. \A s \in places : before[s] \subseteq places /\ s \notin before[s]
    BY <1>4, <2>1
  <2>3. ASSUME NEW s \in places, NEW t \in before[s] PROVE before[t] \subseteq before[s]
    <3>1. t \in places /\ sooner(t, s)
      BY <2>1
    <3>2. ASSUME NEW q \in before[t] PROVE q \in before[s]
      <4>1. q \in places /\ sooner(q, t)
        BY <2>1, <3>1
      <4>2. sooner(q, s)
        BY <3>1, <4>1, <1>4
      <4> QED BY <2>1, <4>1, <4>2
    <3> QED BY <3>2
  <2>4. ASSUME NEW s \in places, NEW t \in places
        PROVE  s = t \/ s \in before[t] \/ t \in before[s]
    <3>1. s = t \/ sooner(s, t) \/ sooner(t, s)
      BY <1>4
    <3> QED BY <2>1, <3>1
  <2> QED BY <2>2, <2>3, <2>4 DEF Orders
<1>7. Lists(line, places)
  <2> HIDE DEF places, before
  <2> QED BY <1>5, <1>6, InOrderLists
<1> HIDE DEF line, before, turn
<1>8. /\ Len(line) \in Nat /\ DOMAIN line = 1 .. Len(line)
      /\ \A i \in DOMAIN line : line[i] \in places
      /\ \A x \in places : \E i \in DOMAIN line : line[i] = x
  <2> HIDE DEF places
  <2> QED BY <1>7 DEF Lists
<1>9. DOMAIN o = 1 .. Len(line)
  BY <1>3, <1>8
<1>10. Len(o) = Len(line)
  <2>1. o \in Seq(Range(o))
    BY <1>3, <1>8, <1>9 DEF Range
  <2> QED BY <2>1, <1>8, <1>9
<1>11. ASSUME NEW i \in DOMAIN o
       PROVE  /\ o[i][1] \in Priority \cup T /\ o[i][2] \in BOOLEAN
              /\ o[i][2] => \E j \in DOMAIN h : h[j] = o[i][1]
  <2>1. /\ o[i][1] = IF line[i][2] THEN e[line[i][1]] ELSE p[line[i][1]]
        /\ o[i][2] = line[i][2] /\ line[i] \in places
    BY <1>3, <1>8
  <2>2. line[i][2] \in BOOLEAN
    BY <2>1, <1>4
  <2>3. CASE line[i][2]
    <3>1. line[i][1] \in DOMAIN e
      BY <2>1, <2>3
    <3>2. PICK j \in DOMAIN h : e[line[i][1]] = h[j]
      BY <3>1, <1>2
    <3>3. h[j] \in T
      BY <3>2 DEF Lists
    <3> QED BY <2>1, <2>3, <3>2, <3>3
  <2>4. CASE ~line[i][2]
    <3>1. line[i][1] \in DOMAIN p
      BY <2>1, <2>4
    <3>2. p[line[i][1]] \in Priority
      BY <3>1, <1>1 DEF Lists
    <3> QED BY <2>1, <2>2, <2>4, <3>2
  <2> QED BY <2>2, <2>3, <2>4
<1>12. ASSUME NEW r \in Priority PROVE \E i \in DOMAIN o : o[i][1] = r
  <2>1. PICK j \in DOMAIN p : p[j] = r
    BY <1>1 DEF Lists
  <2>2. <<j, FALSE>> \in places
    OBVIOUS
  <2>3. PICK i \in DOMAIN line : line[i] = <<j, FALSE>>
    BY <2>2, <1>8
  <2>4. line[i][1] = j /\ line[i][2] = FALSE
    BY <2>3
  <2>5. o[i] = <<p[j], FALSE>>
    <3> HIDE DEF places
    <3> QED BY <1>3, <2>3, <2>4
  <2> QED BY <2>1, <2>3, <2>5, <1>9, <1>8
<1> QED BY <1>8, <1>9, <1>10, <1>11, <1>12 DEF o

-----------------------------------------------------------------------------
(* The invariant.                                                          *)

IsRow(row) ==
  /\ row = [obs |-> row.obs, item |-> row.item, ev |-> row.ev, changed |-> row.changed]
  /\ row.obs \in {"CURRENT", "CACHED", "UNOBSERVED", "REFRESH_ERROR"}
  /\ row.ev \in Nat /\ (row.obs = "UNOBSERVED" <=> row.ev = 0)

(* Rows of the runs they are filed under, none newer than the run is now.  *)
AreRows(rows, now) ==
  /\ rows = [r \in DOMAIN rows |-> rows[r]] /\ DOMAIN rows \subseteq Runs
  /\ \A r \in DOMAIN rows : /\ IsRow(rows[r]) /\ rows[r].item.run = r
                            /\ rows[r].ev <= now[r]

Commits       == {0} \cup DOMAIN Inventories
PinnedRuns(c) == {x.run : x \in load_config(c).pins}

IsSnapshot(s, now) ==
  /\ s = [rows |-> s.rows, head |-> s.head, prev_head |-> s.prev_head,
          errors |-> s.errors, missing |-> s.missing, selectors |-> s.selectors,
          discovery |-> s.discovery, untracked |-> s.untracked, cursor |-> s.cursor,
          failed |-> s.failed, finished |-> s.finished]
  /\ AreRows(s.rows, now) /\ s.head \in Commits /\ s.cursor \in Runs \cup {0}
  /\ {s.missing, s.selectors, s.discovery, s.untracked, s.failed, s.finished} \subseteq BOOLEAN
  /\ PinnedRuns(s.head) \subseteq DOMAIN s.rows

IsArtifact(s, now) ==
  /\ s = [rows |-> s.rows, head |-> s.head, cursor |-> s.cursor]
  /\ AreRows(s.rows, now) /\ s.head \in Commits /\ s.cursor \in Runs \cup {0}
  /\ PinnedRuns(s.head) \subseteq DOMAIN s.rows
  /\ \A r \in DOMAIN s.rows : s.rows[r].obs \in {"CACHED", "UNOBSERVED"}

WorldOK ==
  /\ live \in [Runs -> Nat] /\ since \in [Runs -> Nat]
  /\ \A r \in Runs : since[r] <= live[r]
  /\ head \in DOMAIN Inventories
  /\ published = NoSnap \/ IsArtifact(published, live)
  /\ k \in Nat /\ loaded \in BOOLEAN
  /\ phase \in {"idle", "loading_inventory", "loading_previous_snapshot",
                "selecting", "active_discovery", "observing", "publish"}

(* Between executions nothing is left of the last one.                     *)
Idle ==
  phase = "idle" => snap = NoSnap /\ ~loaded /\ selected = {} /\ active = {}
                    /\ order = <<>> /\ k = 0

(* What is known before the selection: no row is read yet.                 *)
Beginning ==
  /\ phase \in {"loading_inventory", "loading_previous_snapshot"} =>
       /\ ~loaded /\ active = {} /\ snap.errors = {} /\ ~snap.untracked
       /\ \A r \in DOMAIN snap.rows : snap.rows[r].obs = "UNOBSERVED"
  /\ phase = "loading_inventory" => snap.head = 0
  /\ phase = "loading_previous_snapshot" =>
       snap.head # 0 /\ DOMAIN snap.rows = PinnedRuns(snap.head)

(* The claims a snapshot makes grow with the phase.                        *)
Claims ==
  /\ snap.prev_head = IF loaded THEN published.head ELSE 0
  /\ loaded => published # NoSnap
  /\ snap.selectors => snap.head # 0 /\ phase \in {"active_discovery", "observing", "publish"}
  /\ snap.discovery => phase \in {"observing", "publish"}
  /\ snap.finished => phase = "publish"
  /\ active \subseteq DOMAIN snap.rows

(* A row of this execution is no older than the execution, one that is     *)
(* unchanged agrees with the snapshot loaded, and none is older than that. *)
Evidence ==
  \A r \in DOMAIN snap.rows :
    LET row == snap.rows[r]
    IN  /\ row.obs = "CURRENT" => since[r] <= row.ev
        /\ row.changed = "no" => r \in DOMAIN published.rows /\ published.rows[r].ev = row.ev
        /\ loaded /\ r \in DOMAIN published.rows /\ published.rows[r].item = row.item =>
             published.rows[r].ev <= row.ev

(* From the selection on the rows are those of the selected items.         *)
Selection ==
  phase \in {"selecting", "active_discovery", "observing"} =>
    /\ IsFiniteSet(selected) /\ DOMAIN snap.rows = Selected /\ snap.head # 0
    /\ \A x, y \in selected : x.run = y.run => x = y

(* A run that is in an active situation since the execution started.       *)
Steady(r, j) == since[r] = live[r] /\ live[r] > 0 /\ Now(r).run.status = ActiveStatuses[j]

(* Discovery without an error has found the steady runs of each status.    *)
Discovery ==
  /\ phase = "active_discovery" =>
       k > 0 /\ ("active_discovery" \notin snap.errors /\ ~snap.untracked =>
         \A j \in DOMAIN ActiveStatuses, r \in Runs : j < k /\ Steady(r, j) => r \in active)
  /\ snap.discovery /\ ~snap.untracked =>
       \A j \in DOMAIN ActiveStatuses, r \in Runs : Steady(r, j) => r \in active

(* Every active run is in the order, and those passed were read or failed. *)
Observation ==
  /\ phase = "observing" =>
       /\ k > 0 /\ Len(order) \in Nat /\ DOMAIN order = 1 .. Len(order)
       /\ DOMAIN history = 1 .. Len(history) /\ Len(history) \in Nat
       /\ \A j \in DOMAIN history : history[j] \in Runs
       /\ \A i \in DOMAIN order :
            /\ order[i][1] \in DOMAIN snap.rows /\ order[i][2] \in BOOLEAN
            /\ order[i][2] => \E j \in DOMAIN history : history[j] = order[i][1]
            /\ i < k /\ snap.errors = {} /\ order[i][1] \in active =>
                 snap.rows[order[i][1]].obs = "CURRENT"
       /\ \A r \in active : \E i \in DOMAIN order : order[i][1] = r
  /\ snap.finished /\ snap.errors = {} =>
       \A r \in active : snap.rows[r].obs = "CURRENT"

Underway == IsSnapshot(snap, live) /\ Beginning /\ Claims /\ Evidence /\ Selection
              /\ Discovery /\ Observation

IInv == WorldOK /\ Idle /\ (phase # "idle" => Underway)
-----------------------------------------------------------------------------
(* The operators the actions are built from.                               *)

LEMMA ItemOf ==
  ASSUME NEW r \in Selected
  PROVE  Item(r) \in selected /\ Item(r).run = r
<1>1. \E x \in selected : x.run = r
  BY DEF Selected
<1> QED BY <1>1 DEF Item

LEMMA CommitType ==
  /\ DOMAIN Inventories = 1 .. Len(Inventories) /\ Len(Inventories) \in Nat \ {0}
  /\ Commits \subseteq Nat
  /\ \A c \in Commits : check_config(load_config(c))
  /\ \A c \in Commits : PinnedRuns(c) \subseteq Runs
<1>1. DOMAIN Inventories = 1 .. Len(Inventories) /\ Len(Inventories) \in Nat \ {0}
  BY MonitorAssumption
<1>2. Commits \subseteq Nat
  BY <1>1 DEF Commits
<1>3. ASSUME NEW c \in Commits PROVE check_config(load_config(c))
  <2>1. c # 0 => Inventories[c] \in Range(Inventories)
    BY <1>3 DEF Commits, Range
  <2>2. load_config(c) \in Range(Inventories) \cup {Bootstrap}
    BY <2>1 DEF load_config
  <2> QED BY <2>2, MonitorAssumption
<1>4. \A c \in Commits : PinnedRuns(c) \subseteq Runs
  BY <1>3 DEF PinnedRuns, check_config
<1> QED BY <1>1, <1>2, <1>3, <1>4

LEMMA ByRun ==
  ASSUME NEW c \in Commits
  PROVE  /\ DOMAIN by_run(load_config(c).pins) = PinnedRuns(c)
         /\ \A r \in PinnedRuns(c) : /\ by_run(load_config(c).pins)[r] \in load_config(c).pins
                                     /\ by_run(load_config(c).pins)[r].run = r
<1> DEFINE pins == load_config(c).pins
<1>1. by_run(pins) = [r \in PinnedRuns(c) |-> CHOOSE x \in pins : x.run = r]
  BY DEF by_run, PinnedRuns
<1>2. ASSUME NEW r \in PinnedRuns(c)
      PROVE  by_run(pins)[r] \in pins /\ by_run(pins)[r].run = r
  <2>1. \E x \in pins : x.run = r
    BY DEF PinnedRuns
  <2>2. by_run(pins)[r] = CHOOSE x \in pins : x.run = r
    BY <1>1
  <2> HIDE DEF pins
  <2> QED BY <2>1, <2>2
<1> QED BY <1>1, <1>2

LEMMA UnseenRow ==
  ASSUME NEW x
  PROVE  /\ IsRow(unseen_row(x)) /\ unseen_row(x).item = x /\ unseen_row(x).ev = 0
         /\ unseen_row(x).obs = "UNOBSERVED" /\ unseen_row(x).changed = "unknown"
BY DEF IsRow, unseen_row

(* A new snapshot lists the pinned runs and has read none of them.         *)
LEMMA InitialSnapshot ==
  ASSUME NEW c \in Commits, NEW now \in [Runs -> Nat]
  PROVE  LET s == initial_snapshot(load_config(c), c)
         IN  /\ IsSnapshot(s, now) /\ s.head = c /\ DOMAIN s.rows = PinnedRuns(c)
             /\ s.prev_head = 0 /\ s.errors = {}
             /\ ~s.selectors /\ ~s.discovery /\ ~s.untracked /\ ~s.finished
             /\ \A r \in DOMAIN s.rows : /\ s.rows[r].obs = "UNOBSERVED"
                                         /\ s.rows[r].changed = "unknown"
<1> DEFINE s == initial_snapshot(load_config(c), c)
           b == by_run(load_config(c).pins)
           rows == [r \in DOMAIN b |-> unseen_row(b[r])]
<1>1. s = [rows |-> rows, head |-> c, prev_head |-> 0, errors |-> {}, missing |-> FALSE,
           selectors |-> FALSE, discovery |-> FALSE, untracked |-> FALSE, cursor |-> 0,
           failed |-> FALSE, finished |-> FALSE]
  BY DEF initial_snapshot
<1>2. DOMAIN b = PinnedRuns(c) /\ \A r \in DOMAIN b : b[r].run = r
  BY ByRun
<1> HIDE DEF b
<1>3. \A r \in DOMAIN b : /\ IsRow(rows[r]) /\ rows[r].item.run = r /\ rows[r].ev = 0
                          /\ rows[r].obs = "UNOBSERVED" /\ rows[r].changed = "unknown"
  BY <1>2, UnseenRow
<1>4. AreRows(rows, now)
  <2>1. DOMAIN b \subseteq Runs
    BY <1>2, CommitType
  <2>2. \A r \in DOMAIN rows : rows[r].ev <= now[r]
    BY <1>3, <2>1
  <2> QED BY <1>3, <2>1, <2>2 DEF AreRows
<1>5. DOMAIN rows = PinnedRuns(c)
  BY <1>2
<1> HIDE DEF rows, s
<1>6. IsSnapshot(s, now)
  BY <1>1, <1>4, <1>5 DEF IsSnapshot
<1> QED BY <1>1, <1>2, <1>3, <1>5, <1>6 DEF s, rows

(* A row is reused only if it was read under the same item, and then as it *)
(* was read.                                                               *)
LEMMA CachedRow ==
  ASSUME NEW x, NEW prev, NEW now, prev = NoSnap \/ IsArtifact(prev, now)
  PROVE  LET c == cached_row(x, prev)
         IN  /\ IsRow(c) /\ c.item = x /\ c.changed = "unknown"
             /\ c.obs \in {"CACHED", "UNOBSERVED"}
             /\ c.ev # 0 => /\ x.run \in DOMAIN prev.rows /\ prev.rows[x.run].item = x
                            /\ prev.rows[x.run].ev = c.ev /\ c.obs = "CACHED"
             /\ x.run \in DOMAIN prev.rows /\ prev.rows[x.run].item = x =>
                  prev.rows[x.run].ev = c.ev
<1> DEFINE c   == cached_row(x, prev)
           old == prev.rows[x.run]
           reuse == /\ x.run \in DOMAIN prev.rows /\ old.item = x
                    /\ old.obs \in {"CURRENT", "CACHED", "REFRESH_ERROR"}
<1>1. x.run \in DOMAIN prev.rows => IsRow(old) /\ old.obs \in {"CACHED", "UNOBSERVED"}
  <2>1. CASE prev = NoSnap
    <3>1. DOMAIN prev.rows = {}
      BY <2>1 DEF NoSnap
    <3> QED BY <3>1
  <2>2. CASE IsArtifact(prev, now)
    BY <2>2 DEF IsArtifact, AreRows
  <2> QED BY <2>1, <2>2
<1>2. CASE reuse
  <2>1. c = [old EXCEPT !.obs = "CACHED", !.changed = "unknown"]
    BY <1>2 DEF cached_row
  <2>2. IsRow(old) /\ old.obs = "CACHED"
    BY <1>1, <1>2
  <2>3. c = [obs |-> "CACHED", item |-> old.item, ev |-> old.ev, changed |-> "unknown"]
    BY <2>1, <2>2 DEF IsRow
  <2>4. IsRow(c) /\ c.item = old.item /\ c.ev = old.ev /\ c.obs = "CACHED" /\ c.changed = "unknown"
    BY <2>2, <2>3 DEF IsRow
  <2> HIDE DEF c
  <2> QED BY <1>2, <2>4 DEF c
<1>3. CASE ~reuse
  <2>1. c = unseen_row(x)
    BY <1>3 DEF cached_row
  <2>2. /\ IsRow(c) /\ c.item = x /\ c.ev = 0 /\ c.obs = "UNOBSERVED" /\ c.changed = "unknown"
    BY <2>1, UnseenRow
  <2>3. x.run \in DOMAIN prev.rows /\ old.item = x => old.ev = 0
    BY <1>1, <1>3 DEF IsRow
  <2> HIDE DEF c
  <2> QED BY <2>2, <2>3 DEF c
<1> QED BY <1>2, <1>3

LEMMA PreviousType ==
  ASSUME WorldOK
  PROVE  previous = NoSnap \/ IsArtifact(previous, live)
BY DEF previous, WorldOK

(* A snapshot in which one field is replaced.                              *)
LEMMA SnapshotExcept ==
  ASSUME NEW s, NEW now, IsSnapshot(s, now), NEW b \in BOOLEAN, NEW e, NEW c \in Runs \cup {0}
  PROVE  /\ IsSnapshot([s EXCEPT !.errors = e], now)
         /\ IsSnapshot([s EXCEPT !.missing = b], now)
         /\ IsSnapshot([s EXCEPT !.selectors = b], now)
         /\ IsSnapshot([s EXCEPT !.discovery = b], now)
         /\ IsSnapshot([s EXCEPT !.untracked = b], now)
         /\ IsSnapshot([s EXCEPT !.failed = b], now)
         /\ IsSnapshot([s EXCEPT !.finished = b], now)
         /\ IsSnapshot([s EXCEPT !.cursor = c], now)
         /\ IsSnapshot([s EXCEPT !.prev_head = e], now)
<1>1. IsSnapshot([s EXCEPT !.errors = e], now)
  BY DEF IsSnapshot
<1>2. IsSnapshot([s EXCEPT !.missing = b], now)
  BY DEF IsSnapshot
<1>3. IsSnapshot([s EXCEPT !.selectors = b], now)
  BY DEF IsSnapshot
<1>4. IsSnapshot([s EXCEPT !.discovery = b], now)
  BY DEF IsSnapshot
<1>5. IsSnapshot([s EXCEPT !.untracked = b], now)
  BY DEF IsSnapshot
<1>6. IsSnapshot([s EXCEPT !.failed = b], now)
  BY DEF IsSnapshot
<1>7. IsSnapshot([s EXCEPT !.finished = b], now)
  BY DEF IsSnapshot
<1>8. IsSnapshot([s EXCEPT !.cursor = c], now)
  BY DEF IsSnapshot
<1>9. IsSnapshot([s EXCEPT !.prev_head = e], now)
  BY DEF IsSnapshot
<1> QED BY <1>1, <1>2, <1>3, <1>4, <1>5, <1>6, <1>7, <1>8, <1>9

LEMMA SnapshotRows ==
  ASSUME NEW s, NEW now, IsSnapshot(s, now), NEW rows, AreRows(rows, now),
         PinnedRuns(s.head) \subseteq DOMAIN rows
  PROVE  IsSnapshot([s EXCEPT !.rows = rows], now)
BY DEF IsSnapshot

-----------------------------------------------------------------------------
(* The initial state and the world around the executions.                  *)

LEMMA InitInv == Init => IInv
<1> SUFFICES ASSUME Init PROVE IInv
  OBVIOUS
<1>1. live \in [Runs -> Nat] /\ since \in [Runs -> Nat] /\ \A r \in Runs : since[r] <= live[r]
  BY DEF Init
<1>2. head \in DOMAIN Inventories
  BY CommitType DEF Init
<1> QED BY <1>1, <1>2 DEF Init, IInv, WorldOK, Idle

LEMMA LaterRows ==
  ASSUME NEW now \in [Runs -> Nat], NEW later \in [Runs -> Nat],
         \A r \in Runs : now[r] <= later[r]
  PROVE  /\ \A rows : AreRows(rows, now) => AreRows(rows, later)
         /\ \A s : IsSnapshot(s, now) => IsSnapshot(s, later)
         /\ \A s : IsArtifact(s, now) => IsArtifact(s, later)
<1>1. ASSUME NEW rows, AreRows(rows, now) PROVE AreRows(rows, later)
  <2>1. ASSUME NEW r \in DOMAIN rows PROVE rows[r].ev <= later[r]
    <3>1. r \in Runs /\ rows[r].ev <= now[r] /\ rows[r].ev \in Nat
      BY <1>1 DEF AreRows, IsRow
    <3> QED BY <3>1
  <2> QED BY <1>1, <2>1 DEF AreRows
<1>2. ASSUME NEW s, IsSnapshot(s, now) PROVE IsSnapshot(s, later)
  BY <1>1, <1>2 DEF IsSnapshot
<1>3. ASSUME NEW s, IsArtifact(s, now) PROVE IsArtifact(s, later)
  BY <1>1, <1>3 DEF IsArtifact
<1> QED BY <1>1, <1>2, <1>3

LEMMA RunAdvancesInv == IInv /\ RunAdvances => IInv'
<1> SUFFICES ASSUME IInv, RunAdvances PROVE IInv'
  OBVIOUS
<1>1. /\ live \in [Runs -> Nat] /\ since \in [Runs -> Nat]
      /\ \A r \in Runs : since[r] <= live[r]
  BY DEF IInv, WorldOK
<1>2. PICK q \in Runs : live' = [live EXCEPT ![q] = @ + 1]
  BY DEF RunAdvances
<1>3. /\ live' \in [Runs -> Nat] /\ \A r \in Runs : live[r] <= live'[r]
      /\ live'[q] = live[q] + 1 /\ \A r \in Runs \ {q} : live'[r] = live[r]
  BY <1>1, <1>2
<1>4. UNCHANGED <<head, published, phase, k, loaded, selected, active, order, history, snap, since>>
  BY DEF RunAdvances, work
<1>5. \A r \in Runs : since'[r] <= live'[r]
  BY <1>1, <1>3, <1>4
<1>6. WorldOK'
  BY <1>1, <1>3, <1>4, <1>5, LaterRows DEF IInv, WorldOK
<1>7. Idle'
  BY <1>4 DEF IInv, Idle
<1>8. ASSUME phase # "idle" PROVE Underway'
  <2>1. IsSnapshot(snap', live')
    BY <1>1, <1>3, <1>4, <1>8, LaterRows DEF IInv, Underway
  <2>2. Beginning' /\ Claims' /\ Evidence' /\ Selection' /\ Observation'
    BY <1>4, <1>8 DEF IInv, Underway, Beginning, Claims, Evidence, Selection, Observation, Selected
  <2>3. ASSUME NEW r \in Runs, NEW j, Steady(r, j)' PROVE Steady(r, j)
    <3>1. since[r] = live'[r]
      BY <1>4, <2>3 DEF Steady
    <3>2. r # q
      BY <3>1, <1>1, <1>3
    <3>3. live'[r] = live[r]
      BY <3>2, <1>3
    <3> QED BY <2>3, <3>3, <1>4 DEF Steady, Now
  <2>4. Discovery'
    BY <2>3, <1>4, <1>8 DEF IInv, Underway, Discovery
  <2> QED BY <2>1, <2>2, <2>4 DEF Underway
<1> QED BY <1>4, <1>6, <1>7, <1>8 DEF IInv

LEMMA InventoryCommittedInv == IInv /\ InventoryCommitted => IInv'
<1> SUFFICES ASSUME IInv, InventoryCommitted PROVE IInv'
  OBVIOUS
<1>1. UNCHANGED <<live, published, phase, k, loaded, selected, active, order, history, snap, since>>
  BY DEF InventoryCommitted, work
<1>2. head' \in DOMAIN Inventories
  BY CommitType DEF InventoryCommitted, IInv, WorldOK
<1>3. WorldOK' /\ Idle'
  BY <1>1, <1>2 DEF IInv, WorldOK, Idle
<1>4. ASSUME phase # "idle" PROVE Underway'
  BY <1>1, <1>4 DEF IInv, Underway, Beginning, Claims, Evidence, Selection, Discovery,
                    Observation, Steady, Now, Selected
<1> QED BY <1>1, <1>3, <1>4 DEF IInv

-----------------------------------------------------------------------------
(* The execution.                                                          *)

LEMMA StartInv == IInv /\ Start => IInv'
<1> SUFFICES ASSUME IInv, Start PROVE IInv'
  OBVIOUS
<1>1. /\ phase = "idle" /\ phase' = "loading_inventory"
      /\ snap' = initial_snapshot(Bootstrap, 0) /\ since' = live
      /\ UNCHANGED <<live, head, published, k, loaded, selected, active, order, history>>
  BY DEF Start, Save, World
<1>2. live \in [Runs -> Nat]
  BY DEF IInv, WorldOK
<1>3. ~loaded /\ active = {} /\ k = 0
  BY <1>1 DEF IInv, Idle
<1>4. Bootstrap = load_config(0) /\ 0 \in Commits
  BY DEF load_config, Commits
<1>5. /\ IsSnapshot(snap', live) /\ snap'.head = 0
      /\ snap'.prev_head = 0 /\ snap'.errors = {}
      /\ ~snap'.selectors /\ ~snap'.discovery /\ ~snap'.untracked /\ ~snap'.finished
      /\ \A r \in DOMAIN snap'.rows : /\ snap'.rows[r].obs = "UNOBSERVED"
                                      /\ snap'.rows[r].changed = "unknown"
  BY <1>1, <1>2, <1>4, InitialSnapshot
<1>6. WorldOK'
  BY <1>1, <1>2 DEF IInv, WorldOK
<1>7. Beginning' /\ Claims' /\ Selection' /\ Discovery'
  BY <1>1, <1>3, <1>5 DEF Beginning, Claims, Selection, Discovery
<1>8. Evidence'
  BY <1>1, <1>3, <1>5 DEF Evidence
<1>9. Observation'
  BY <1>1, <1>3, <1>5 DEF Observation
<1>10. IsSnapshot(snap', live')
  BY <1>1, <1>5
<1> QED BY <1>1, <1>6, <1>7, <1>8, <1>9, <1>10 DEF IInv, Idle, Underway

(* However an execution stops, what it has read stays what it was.         *)
LEMMA StopInv ==
  ASSUME IInv, phase # "idle", NEW s, Stop(s), World, IsSnapshot(s, live),
         s.rows = snap.rows, s.head = snap.head, s.prev_head = snap.prev_head,
         s.selectors = snap.selectors, s.discovery = snap.discovery,
         s.untracked = snap.untracked,
         s.finished /\ s.errors = {} => \A r \in active : snap.rows[r].obs = "CURRENT"
  PROVE  IInv'
<1>1. /\ phase' = "publish" /\ k' = 0 /\ snap' = s
      /\ UNCHANGED <<live, head, published, loaded, selected, active, order, history, since>>
  BY DEF Stop, Save, World
<1>2. WorldOK' /\ Idle'
  BY <1>1 DEF IInv, WorldOK, Idle
<1>3. IsSnapshot(snap', live') /\ Beginning' /\ Selection'
  BY <1>1 DEF Beginning, Selection
<1>4. Claims' /\ Evidence'
  BY <1>1 DEF IInv, Underway, Claims, Evidence
<1>5. Discovery'
  BY <1>1 DEF IInv, Underway, Discovery, Steady, Now
<1>6. Observation'
  BY <1>1 DEF Observation
<1> QED BY <1>1, <1>2, <1>3, <1>4, <1>5, <1>6 DEF IInv, Underway

(* What an error leaves alone.                                             *)
LEMMA ErredFields ==
  ASSUME NEW e, IsSnapshot(snap, live)
  PROVE  /\ IsSnapshot(Erred(e), live) /\ Erred(e).errors # {}
         /\ Erred(e).errors = snap.errors \cup {Phase(e)}
         /\ Erred(e).rows = snap.rows /\ Erred(e).head = snap.head
         /\ Erred(e).prev_head = snap.prev_head /\ Erred(e).selectors = snap.selectors
         /\ Erred(e).discovery = snap.discovery /\ Erred(e).untracked = snap.untracked
         /\ Erred(e).finished = snap.finished /\ Erred(e).missing = snap.missing
         /\ Erred(e).cursor = snap.cursor
<1>1. Erred(e) = [snap EXCEPT !.errors = snap.errors \cup {Phase(e)}]
  BY DEF Erred
<1>2. IsSnapshot(Erred(e), live)
  BY <1>1 DEF IsSnapshot
<1>3. Erred(e).errors = snap.errors \cup {Phase(e)}
  BY <1>1 DEF IsSnapshot
<1> QED BY <1>1, <1>2, <1>3 DEF IsSnapshot

LEMMA LoadInventoryInv == IInv /\ LoadInventory => IInv'
<1> SUFFICES ASSUME IInv, LoadInventory PROVE IInv'
  OBVIOUS
<1>1. phase = "loading_inventory" /\ UNCHANGED <<live, head, published>>
  BY DEF LoadInventory, World
<1>2. IsSnapshot(snap, live) /\ ~loaded /\ active = {} /\ live \in [Runs -> Nat]
  BY <1>1 DEF IInv, Underway, Beginning, WorldOK
<1>3. CASE phase' = "loading_previous_snapshot" /\ UNCHANGED <<k, loaded>> /\ Kept
             /\ Save(initial_snapshot(load_config(head), head))
  <2>1. head \in Commits /\ head # 0
    BY CommitType DEF IInv, WorldOK, Commits
  <2>2. /\ snap' = initial_snapshot(load_config(head), head)
        /\ UNCHANGED <<k, loaded, selected, active, order, history, since>>
    BY <1>3 DEF Save, Kept
  <2>3. /\ IsSnapshot(snap', live) /\ snap'.head = head
        /\ DOMAIN snap'.rows = PinnedRuns(head)
        /\ snap'.prev_head = 0 /\ snap'.errors = {}
        /\ ~snap'.selectors /\ ~snap'.discovery /\ ~snap'.untracked /\ ~snap'.finished
        /\ \A r \in DOMAIN snap'.rows : /\ snap'.rows[r].obs = "UNOBSERVED"
                                        /\ snap'.rows[r].changed = "unknown"
    BY <1>2, <2>1, <2>2, InitialSnapshot
  <2>4. WorldOK' /\ Idle'
    BY <1>1, <1>3, <2>2 DEF IInv, WorldOK, Idle
  <2>5. Beginning' /\ Claims' /\ Selection' /\ Discovery' /\ Observation'
    BY <1>1, <1>2, <1>3, <2>1, <2>2, <2>3
       DEF Beginning, Claims, Selection, Discovery, Observation
  <2>6. Evidence'
    BY <1>1, <1>2, <2>2, <2>3 DEF Evidence
  <2>7. IsSnapshot(snap', live')
    BY <1>1, <2>3
  <2> QED BY <2>4, <2>5, <2>6, <2>7 DEF IInv, Underway
<1>4. CASE Stop([Erred(phase) EXCEPT !.failed = TRUE])
  <2> DEFINE s == [Erred(phase) EXCEPT !.failed = TRUE]
  <2>1. IsSnapshot(s, live)
    BY <1>2, ErredFields, SnapshotExcept
  <2>2. /\ s.rows = snap.rows /\ s.head = snap.head /\ s.prev_head = snap.prev_head
        /\ s.selectors = snap.selectors /\ s.discovery = snap.discovery
        /\ s.untracked = snap.untracked /\ s.finished = snap.finished
    BY <1>2, ErredFields DEF IsSnapshot
  <2> HIDE DEF s
  <2>3. Stop(s) /\ World
    BY <1>4, <1>1 DEF s, World
  <2> QED BY <1>1, <1>2, <2>1, <2>2, <2>3, StopInv
<1> QED BY <1>3, <1>4 DEF LoadInventory


(* The rows of the previous snapshot are taken over for the pinned runs.   *)
LEMMA LoadPreviousInv == IInv /\ LoadPrevious => IInv'
<1> SUFFICES ASSUME IInv, LoadPrevious PROVE IInv'
  OBVIOUS
<1>1. /\ phase = "loading_previous_snapshot" /\ phase' = "selecting" /\ k' = 1
      /\ selected' = Config.pins
      /\ UNCHANGED <<live, head, published, active, order, history, since>>
  BY DEF LoadPrevious, World
<1>2. IsSnapshot(snap, live) /\ Claims /\ Evidence
  BY <1>1 DEF IInv, Underway
<1>3. /\ ~loaded /\ active = {} /\ snap.errors = {} /\ ~snap.untracked
      /\ \A r \in DOMAIN snap.rows : snap.rows[r].obs = "UNOBSERVED"
      /\ snap.head # 0 /\ DOMAIN snap.rows = PinnedRuns(snap.head)
  BY <1>1 DEF IInv, Underway, Beginning
<1>4. snap.head \in Commits /\ Config = load_config(snap.head) /\ check_config(Config)
  BY <1>2, CommitType DEF Config, IsSnapshot
<1>5. /\ IsFiniteSet(selected') /\ Selected' = PinnedRuns(snap.head)
      /\ \A x, y \in selected' : x.run = y.run => x = y
  BY <1>1, <1>4 DEF check_config, Selected, PinnedRuns
<1>6. ~snap.selectors /\ ~snap.discovery /\ ~snap.finished /\ snap.prev_head = 0
  BY <1>1, <1>2, <1>3 DEF Claims
<1> DEFINE Loading ==
        /\ loaded' \in BOOLEAN /\ (loaded' => published # NoSnap)
        /\ IsSnapshot(snap', live) /\ snap'.head = snap.head
        /\ snap'.prev_head = (IF loaded' THEN published.head ELSE 0)
        /\ ~snap'.selectors /\ ~snap'.discovery /\ ~snap'.finished
        /\ "active_discovery" \notin snap'.errors /\ ~snap'.untracked
        /\ DOMAIN snap'.rows = PinnedRuns(snap.head)
        /\ \A r \in DOMAIN snap'.rows :
             /\ snap'.rows[r].obs # "CURRENT"
             /\ snap'.rows[r].changed = "no" =>
                  r \in DOMAIN published.rows /\ published.rows[r].ev = snap'.rows[r].ev
             /\ loaded' /\ r \in DOMAIN published.rows
                  /\ published.rows[r].item = snap'.rows[r].item =>
                  published.rows[r].ev <= snap'.rows[r].ev
<1>7. ASSUME Loading PROVE IInv'
  <2>1. WorldOK' /\ Idle'
    BY <1>1, <1>7 DEF IInv, WorldOK, Idle
  <2>2. Beginning' /\ Claims'
    BY <1>1, <1>3, <1>7 DEF Beginning, Claims
  <2>3. Evidence'
    BY <1>1, <1>7 DEF Evidence
  <2>4. Selection'
    BY <1>1, <1>3, <1>5, <1>7 DEF Selection
  <2>5. Discovery' /\ Observation'
    BY <1>1, <1>7 DEF Discovery, Observation
  <2>6. IsSnapshot(snap', live')
    BY <1>1, <1>7
  <2> QED BY <1>1, <2>1, <2>2, <2>3, <2>4, <2>5, <2>6 DEF IInv, Underway
<1> DEFINE b == by_run(Config.pins)
           rows == [r \in DOMAIN snap.rows |-> cached_row(b[r], published)]
           full == [[snap EXCEPT !.rows = rows] EXCEPT !.prev_head = published.head]
<1>8. CASE published # NoSnap /\ loaded' = TRUE /\ snap' = full
  <2>1. IsArtifact(published, live) /\ live \in [Runs -> Nat]
    BY <1>8 DEF IInv, WorldOK
  <2>2. \A r \in DOMAIN snap.rows : b[r].run = r
    BY <1>3, <1>4, ByRun
  <2>3. ASSUME NEW r \in DOMAIN rows
        PROVE  /\ IsRow(rows[r]) /\ rows[r].item.run = r /\ rows[r].ev <= live[r]
               /\ rows[r].obs # "CURRENT" /\ rows[r].changed # "no"
               /\ r \in DOMAIN published.rows /\ published.rows[r].item = rows[r].item =>
                    published.rows[r].ev <= rows[r].ev
    <3>1. rows[r] = cached_row(b[r], published) /\ b[r].run = r
      BY <2>2
    <3> HIDE DEF rows, b
    <3>2. /\ IsRow(rows[r]) /\ rows[r].item = b[r] /\ rows[r].changed = "unknown"
          /\ rows[r].obs \in {"CACHED", "UNOBSERVED"}
          /\ rows[r].ev # 0 => r \in DOMAIN published.rows /\ published.rows[r].ev = rows[r].ev
          /\ r \in DOMAIN published.rows /\ published.rows[r].item = b[r] =>
               published.rows[r].ev = rows[r].ev
      BY <2>1, <3>1, CachedRow
    <3>3. rows[r].ev \in Nat
      BY <3>2 DEF IsRow
    <3>4. r \in DOMAIN published.rows => published.rows[r].ev <= live[r]
      BY <2>1 DEF IsArtifact, AreRows
    <3>5. r \in Runs
      BY <1>2 DEF IsSnapshot, AreRows, rows
    <3>6. rows[r].ev <= live[r]
      BY <2>1, <3>2, <3>3, <3>4, <3>5
    <3>7. /\ r \in DOMAIN published.rows /\ published.rows[r].item = rows[r].item =>
               published.rows[r].ev <= rows[r].ev
      BY <3>2, <3>3
    <3> QED BY <3>1, <3>2, <3>6, <3>7
  <2>4. DOMAIN rows = DOMAIN snap.rows /\ rows = [r \in DOMAIN rows |-> rows[r]]
    OBVIOUS
  <2> HIDE DEF rows, b
  <2>5. AreRows(rows, live)
    BY <1>2, <2>3, <2>4 DEF AreRows, IsSnapshot
  <2>6. IsSnapshot([snap EXCEPT !.rows = rows], live)
    BY <1>2, <1>3, <2>4, <2>5, SnapshotRows
  <2>7. IsSnapshot(full, live)
    <3>1. ASSUME NEW s, IsSnapshot(s, live)
          PROVE  IsSnapshot([s EXCEPT !.prev_head = published.head], live)
      BY <3>1 DEF IsSnapshot
    <3> QED BY <2>6, <3>1
  <2>8. /\ full.rows = rows /\ full.head = snap.head /\ full.prev_head = published.head
        /\ full.selectors = snap.selectors /\ full.discovery = snap.discovery
        /\ full.finished = snap.finished /\ full.errors = snap.errors
        /\ full.untracked = snap.untracked
    BY <1>2 DEF IsSnapshot
  <2> HIDE DEF full
  <2>9. Loading
    BY <1>3, <1>6, <1>8, <2>3, <2>4, <2>7, <2>8
  <2> QED BY <1>7, <2>9
<1>9. CASE loaded' = FALSE /\ (UNCHANGED snap \/ snap' = Erred(phase))
  <2>1. /\ IsSnapshot(snap', live) /\ snap'.rows = snap.rows /\ snap'.head = snap.head
        /\ snap'.prev_head = snap.prev_head /\ snap'.selectors = snap.selectors
        /\ snap'.discovery = snap.discovery /\ snap'.finished = snap.finished
        /\ snap'.untracked = snap.untracked /\ snap'.errors \subseteq {Phase(phase)}
    BY <1>2, <1>3, <1>9, ErredFields
  <2>2. "active_discovery" \notin snap'.errors
    BY <1>1, <2>1 DEF Phase
  <2>3. Loading
    BY <1>2, <1>3, <1>6, <1>9, <2>1, <2>2 DEF Evidence
  <2> QED BY <1>7, <2>3
<1>10. [snap EXCEPT !.rows = rows, !.prev_head = published.head] = full
  OBVIOUS
<1>11. \/ published # NoSnap /\ loaded' = TRUE /\ snap' = full
       \/ loaded' = FALSE /\ (UNCHANGED snap \/ snap' = Erred(phase))
  BY <1>10 DEF LoadPrevious, Save
<1> QED BY <1>8, <1>9, <1>11

(* The newest run a selector finds joins the selection, with its row.      *)
LEMMA SelectInv == IInv /\ Select => IInv'
<1> SUFFICES ASSUME IInv, Select PROVE IInv'
  OBVIOUS
<1>1. /\ phase = "selecting" /\ phase' = "selecting" /\ k' = k + 1 /\ k \in Nat
      /\ UNCHANGED <<live, head, published, loaded, active, order, history, since>>
  BY DEF Select, World, IInv, WorldOK
<1>2. /\ IsSnapshot(snap, live) /\ Claims /\ Evidence
      /\ IsFiniteSet(selected) /\ DOMAIN snap.rows = Selected /\ snap.head # 0
      /\ \A x, y \in selected : x.run = y.run => x = y
  BY <1>1 DEF IInv, Underway, Selection
<1>3. ~snap.selectors /\ ~snap.discovery /\ ~snap.finished
  BY <1>1, <1>2 DEF Claims
<1> DEFINE Selecting ==
        /\ IsSnapshot(snap', live) /\ snap'.head = snap.head
        /\ snap'.prev_head = snap.prev_head
        /\ ~snap'.selectors /\ ~snap'.discovery /\ ~snap'.finished
        /\ IsFiniteSet(selected') /\ DOMAIN snap'.rows = Selected'
        /\ DOMAIN snap.rows \subseteq DOMAIN snap'.rows
        /\ \A x, y \in selected' : x.run = y.run => x = y
        /\ Evidence'
<1>4. ASSUME Selecting PROVE IInv'
  <2>1. WorldOK' /\ Idle'
    BY <1>1, <1>4 DEF IInv, WorldOK, Idle
  <2>2. Beginning' /\ Claims'
    BY <1>1, <1>2, <1>4 DEF Beginning, Claims
  <2>3. Selection'
    BY <1>1, <1>2, <1>4 DEF Selection
  <2>4. Discovery' /\ Observation'
    BY <1>1, <1>4 DEF Discovery, Observation
  <2>5. IsSnapshot(snap', live')
    BY <1>1, <1>4
  <2> QED BY <1>1, <1>4, <2>1, <2>2, <2>3, <2>4, <2>5 DEF IInv, Underway
<1> DEFINE sel == Config.selectors[k]
           c   == Candidates(sel)
           new == CHOOSE r \in c : \A q \in c : q <= r
           x   == [run |-> new, head |-> Now(new).run.head, branch |-> Now(new).run.branch,
                   production_jobs |-> sel.production_jobs, selection |-> "latest_workflow"]
           missing == [snap EXCEPT !.missing = @ \/ ~sel.optional]
           row  == [r \in DOMAIN snap.rows \cup {new} |->
                     IF r = new THEN cached_row(x, previous) ELSE snap.rows[r]]
           more == [snap EXCEPT !.rows = row]
<1>5. \/ c = {} /\ snap' = missing /\ UNCHANGED selected
      \/ UNCHANGED <<snap, selected>>
      \/ c # {} /\ new \notin Selected /\ selected' = selected \cup {x} /\ snap' = more
      \/ snap' = Erred(phase) /\ UNCHANGED selected
  BY DEF Select, Save
<1>6. CASE UNCHANGED selected /\ snap' \in {snap, Erred(phase), missing}
  <2>1. ASSUME snap' = missing
        PROVE  /\ IsSnapshot(snap', live) /\ snap'.rows = snap.rows /\ snap'.head = snap.head
               /\ snap'.prev_head = snap.prev_head /\ snap'.selectors = snap.selectors
               /\ snap'.discovery = snap.discovery /\ snap'.finished = snap.finished
    <3>1. PICK b \in BOOLEAN : snap' = [snap EXCEPT !.missing = b]
      BY <1>2, <2>1 DEF IsSnapshot
    <3> QED BY <1>2, <3>1 DEF IsSnapshot
  <2>2. /\ IsSnapshot(snap', live) /\ snap'.rows = snap.rows /\ snap'.head = snap.head
        /\ snap'.prev_head = snap.prev_head /\ snap'.selectors = snap.selectors
        /\ snap'.discovery = snap.discovery /\ snap'.finished = snap.finished
    BY <1>2, <1>6, <2>1, ErredFields
  <2>3. Evidence'
    BY <1>1, <1>2, <2>2 DEF Evidence
  <2>4. Selected' = Selected
    BY <1>6 DEF Selected
  <2>5. Selecting
    BY <1>2, <1>3, <1>6, <2>2, <2>3, <2>4
  <2> QED BY <1>4, <2>5
<1>7. CASE c # {} /\ new \notin Selected /\ selected' = selected \cup {x} /\ snap' = more
  <2>1. c \in SUBSET Nat /\ IsFiniteSet(c) /\ c \subseteq Runs
    <3>1. c \subseteq Runs
      BY DEF Candidates, Exist
    <3> HIDE DEF c
    <3> QED BY <3>1, FS_Subset, MonitorAssumption
  <2>2. new \in Runs
    <3> HIDE DEF c
    <3> QED BY <1>7, <2>1, Newest
  <2>3. x.run = new
    OBVIOUS
  <2> HIDE DEF new, x
  <2> DEFINE old == cached_row(x, previous)
  <2>4. previous = NoSnap \/ IsArtifact(previous, live)
    BY PreviousType DEF IInv
  <2>5. live \in [Runs -> Nat]
    BY DEF IInv, WorldOK
  <2>6. /\ IsRow(old) /\ old.item = x /\ old.changed = "unknown" /\ old.obs # "CURRENT"
        /\ old.ev # 0 => new \in DOMAIN previous.rows /\ previous.rows[new].ev = old.ev
        /\ new \in DOMAIN previous.rows /\ previous.rows[new].item = x =>
             previous.rows[new].ev = old.ev
    BY <2>3, <2>4, CachedRow
  <2> HIDE DEF old
  <2>7. old.ev \in Nat /\ old.ev <= live[new]
    <3>1. CASE old.ev = 0
      BY <2>2, <2>5, <3>1
    <3>2. CASE old.ev # 0
      <4>1. new \in DOMAIN previous.rows /\ previous.rows[new].ev = old.ev
        BY <2>6, <3>2
      <4>2. previous # NoSnap
        BY <4>1 DEF NoSnap
      <4>3. previous.rows[new].ev <= live[new]
        BY <2>4, <4>1, <4>2 DEF IsArtifact, AreRows
      <4> QED BY <2>6, <4>1, <4>3 DEF IsRow
    <3> QED BY <3>1, <3>2
  <2>8. /\ DOMAIN row = DOMAIN snap.rows \cup {new} /\ row[new] = old
        /\ \A r \in DOMAIN snap.rows : r # new => row[r] = snap.rows[r]
        /\ row = [r \in DOMAIN row |-> row[r]]
    BY DEF old
  <2>9. new \notin DOMAIN snap.rows
    BY <1>2, <1>7
  <2> HIDE DEF row
  <2>10. AreRows(row, live)
    BY <1>2, <2>2, <2>3, <2>6, <2>7, <2>8, <2>9 DEF AreRows, IsSnapshot
  <2>11. PinnedRuns(snap.head) \subseteq DOMAIN row
    BY <1>2, <2>8 DEF IsSnapshot
  <2>12. /\ IsSnapshot(more, live)
         /\ more.rows = row /\ more.head = snap.head /\ more.prev_head = snap.prev_head
         /\ more.selectors = snap.selectors /\ more.discovery = snap.discovery
         /\ more.finished = snap.finished
    <3>1. IsSnapshot(more, live)
      BY <1>2, <2>10, <2>11, SnapshotRows
    <3> QED BY <1>2, <3>1 DEF IsSnapshot
  <2> HIDE DEF more
  <2>13. IsFiniteSet(selected') /\ Selected' = Selected \cup {new}
    <3>1. IsFiniteSet(selected')
      BY <1>2, <1>7, FS_AddElement
    <3> QED BY <1>7, <2>3, <3>1 DEF Selected
  <2>14. \A y, z \in selected' : y.run = z.run => y = z
    BY <1>2, <1>7, <2>3 DEF Selected
  <2>15. Evidence'
    <3> SUFFICES ASSUME NEW r \in DOMAIN row
                 PROVE  /\ row[r].obs = "CURRENT" => since[r] <= row[r].ev
                        /\ row[r].changed = "no" =>
                             r \in DOMAIN published.rows /\ published.rows[r].ev = row[r].ev
                        /\ loaded /\ r \in DOMAIN published.rows
                             /\ published.rows[r].item = row[r].item =>
                             published.rows[r].ev <= row[r].ev
      BY <1>1, <1>7, <2>12 DEF Evidence
    <3>1. CASE r = new
      BY <2>6, <2>7, <2>8, <3>1 DEF previous
    <3>2. CASE r # new
      BY <1>2, <2>8, <3>2 DEF Evidence
    <3> QED BY <3>1, <3>2
  <2>16. Selecting
    BY <1>2, <1>3, <1>7, <2>8, <2>12, <2>13, <2>14, <2>15
  <2> QED BY <1>4, <2>16
<1> HIDE DEF c, new, x, missing, more, Selecting
<1> QED BY <1>5, <1>6, <1>7

LEMMA SelectorsDoneInv == IInv /\ SelectorsDone => IInv'
<1> SUFFICES ASSUME IInv, SelectorsDone PROVE IInv'
  OBVIOUS
<1> DEFINE s == [snap EXCEPT !.selectors = phase \notin snap.errors]
<1>1. /\ phase = "selecting" /\ phase' = "active_discovery" /\ k' = 1 /\ active' = {}
      /\ snap' = s
      /\ UNCHANGED <<live, head, published, loaded, selected, order, history, since>>
  BY DEF SelectorsDone, Save, World
<1>2. /\ IsSnapshot(snap, live) /\ Claims /\ Evidence /\ Selection
      /\ snap.head # 0
  BY <1>1 DEF IInv, Underway, Selection
<1>3. /\ IsSnapshot(s, live) /\ s.rows = snap.rows /\ s.head = snap.head
      /\ s.prev_head = snap.prev_head /\ s.discovery = snap.discovery
      /\ s.finished = snap.finished
  <2>1. PICK b \in BOOLEAN : s = [snap EXCEPT !.selectors = b]
    OBVIOUS
  <2> QED BY <1>2, <2>1 DEF IsSnapshot
<1> HIDE DEF s
<1>4. WorldOK' /\ Idle'
  BY <1>1 DEF IInv, WorldOK, Idle
<1>5. Beginning' /\ Claims'
  BY <1>1, <1>2, <1>3 DEF Beginning, Claims
<1>6. Evidence'
  BY <1>1, <1>2, <1>3 DEF Evidence
<1>7. Selection'
  BY <1>1, <1>2, <1>3 DEF Selection, Selected
<1>8. Discovery'
  <2>1. \A j \in DOMAIN ActiveStatuses : ~(j < 1)
    BY MonitorAssumption
  <2> QED BY <1>1, <1>2, <1>3, <2>1 DEF Discovery, Claims
<1>9. Observation'
  BY <1>1, <1>2, <1>3 DEF Observation, Claims
<1>10. IsSnapshot(snap', live')
  BY <1>1, <1>3
<1> QED BY <1>1, <1>4, <1>5, <1>6, <1>7, <1>8, <1>9, <1>10 DEF IInv, Underway

(* One status of the discovery: unless it records an error or an untracked *)
(* run, it has found every run that keeps this status.                     *)
LEMMA DiscoverInv == IInv /\ Discover => IInv'
<1> SUFFICES ASSUME IInv, Discover PROVE IInv'
  OBVIOUS
<1> DEFINE listed == {r \in Exist : Now(r).run.status = ActiveStatuses[k]}
<1>1. PICK seen \in SUBSET listed, whole \in BOOLEAN :
        /\ whole => seen = listed
        /\ active' = active \cup {r \in seen \cap Selected : Matches(r)}
        /\ LET mismatch == \E r \in seen \cap Selected : ~Matches(r)
               wrong    == IF mismatch \/ ~whole THEN {phase} ELSE {}
           IN  snap' = [snap EXCEPT !.errors = @ \cup wrong,
                                    !.untracked = @ \/ seen \ Selected # {}]
  BY DEF Discover, Save
<1> DEFINE mismatch  == \E r \in seen \cap Selected : ~Matches(r)
           wrong     == IF mismatch \/ ~whole THEN {phase} ELSE {}
           errors    == snap.errors \cup wrong
           untracked == snap.untracked \/ seen \ Selected # {}
           s == [[snap EXCEPT !.errors = errors] EXCEPT !.untracked = untracked]
<1>2. /\ phase = "active_discovery" /\ phase' = "active_discovery" /\ k' = k + 1 /\ k \in Nat
      /\ UNCHANGED <<live, head, published, loaded, selected, order, history, since>>
  BY DEF Discover, World, IInv, WorldOK
<1>3. /\ IsSnapshot(snap, live) /\ Claims /\ Evidence /\ Selection /\ Discovery
      /\ DOMAIN snap.rows = Selected /\ snap.head # 0
      /\ ~snap.discovery /\ ~snap.finished
  BY <1>2 DEF IInv, Underway, Selection, Claims
<1>4. snap' = s
  BY <1>1
<1>5. untracked \in BOOLEAN
  BY <1>3 DEF IsSnapshot
<1> HIDE DEF errors, untracked
<1>6. /\ IsSnapshot(s, live) /\ s.rows = snap.rows /\ s.head = snap.head
      /\ s.prev_head = snap.prev_head /\ s.selectors = snap.selectors
      /\ s.discovery = snap.discovery /\ s.finished = snap.finished
      /\ s.errors = errors /\ s.untracked = untracked
  <2>1. IsSnapshot([snap EXCEPT !.errors = errors], live)
    BY <1>3 DEF IsSnapshot
  <2>2. ASSUME NEW t, IsSnapshot(t, live)
        PROVE  IsSnapshot([t EXCEPT !.untracked = untracked], live)
    BY <1>5, <2>2 DEF IsSnapshot
  <2> QED BY <1>3, <2>1, <2>2 DEF IsSnapshot
<1> HIDE DEF s
<1>7. active' \subseteq Selected
  BY <1>1, <1>3 DEF Claims
<1>8. WorldOK' /\ Idle'
  BY <1>2 DEF IInv, WorldOK, Idle
<1>9. Beginning' /\ Claims'
  BY <1>2, <1>3, <1>4, <1>6, <1>7 DEF Beginning, Claims
<1>10. Evidence'
  BY <1>2, <1>3, <1>4, <1>6 DEF Evidence
<1>11. Selection'
  BY <1>2, <1>3, <1>4, <1>6 DEF Selection, Selected
<1>12. ASSUME "active_discovery" \notin errors, ~untracked,
              NEW j \in DOMAIN ActiveStatuses, NEW r \in Runs, j < k + 1, Steady(r, j)
       PROVE  r \in active'
  <2>1. whole /\ ~mismatch /\ "active_discovery" \notin snap.errors
    BY <1>2, <1>12 DEF errors
  <2>2. ~snap.untracked /\ seen \subseteq Selected
    BY <1>12 DEF untracked
  <2>3. CASE j < k
    BY <1>1, <1>2, <1>3, <1>12, <2>1, <2>2, <2>3 DEF Discovery
  <2>4. CASE ~(j < k)
    <3>1. j \in Nat
      BY MonitorAssumption
    <3>2. j = k
      BY <1>2, <1>12, <2>4, <3>1
    <3>3. r \in seen
      BY <1>1, <1>12, <2>1, <3>2 DEF Steady, Exist
    <3> QED BY <1>1, <2>1, <2>2, <3>3
  <2> QED BY <2>3, <2>4
<1>13. Discovery'
  <2>1. \A r \in Runs, j \in DOMAIN ActiveStatuses : Steady(r, j)' <=> Steady(r, j)
    BY <1>2 DEF Steady, Now
  <2>2. k + 1 > 0
    BY <1>2
  <2>3. ~s.discovery
    BY <1>3, <1>6
  <2> QED BY <1>2, <1>4, <1>6, <1>12, <2>1, <2>2, <2>3 DEF Discovery
<1>14. Observation'
  BY <1>2, <1>3, <1>4, <1>6 DEF Observation
<1>15. IsSnapshot(snap', live')
  BY <1>2, <1>4, <1>6
<1> QED BY <1>2, <1>8, <1>9, <1>10, <1>11, <1>13, <1>14, <1>15 DEF IInv, Underway

(* Every run found active is in the order.                                 *)
LEMMA DiscoveryDoneInv == IInv /\ DiscoveryDone => IInv'
<1> SUFFICES ASSUME IInv, DiscoveryDone PROVE IInv'
  OBVIOUS
<1> DEFINE cursor == IF loaded THEN published.cursor ELSE 0
           first  == IF history' = <<>> THEN 0 ELSE history'[1]
           found  == phase \notin snap.errors
           s == [[snap EXCEPT !.discovery = found] EXCEPT !.cursor = first]
<1>1. /\ phase = "active_discovery" /\ k > Len(ActiveStatuses) /\ phase' = "observing" /\ k' = 1
      /\ history' = HistoryFrom(cursor) /\ order' = ObservationOrder(history')
      /\ UNCHANGED <<live, head, published, loaded, selected, active, since>>
  BY DEF DiscoveryDone, World
<1>2. snap' = s
  BY DEF DiscoveryDone, Save
<1>3. /\ IsSnapshot(snap, live) /\ Claims /\ Evidence /\ Selection /\ Discovery
      /\ DOMAIN snap.rows = Selected /\ snap.head # 0 /\ ~snap.finished /\ k \in Nat
      /\ IsFiniteSet(selected)
  BY <1>1 DEF IInv, Underway, Selection, Claims, WorldOK
<1>4. Selected \subseteq Runs /\ Selected \subseteq Nat
  BY <1>3, MonitorAssumption DEF IsSnapshot, AreRows
<1>5. cursor \in Nat
  <2>1. loaded => IsArtifact(published, live)
    BY <1>3 DEF IInv, WorldOK, Claims
  <2> QED BY <2>1, MonitorAssumption DEF IsArtifact
<1> HIDE DEF cursor
<1> DEFINE past == Selected \ Priority
<1>6. Lists(history', past)
  BY <1>1, <1>3, <1>4, <1>5, HistoryLists
<1> HIDE DEF past
<1>7. /\ Len(order') \in Nat /\ DOMAIN order' = 1 .. Len(order')
      /\ \A i \in DOMAIN order' :
           /\ order'[i][1] \in Priority \cup past /\ order'[i][2] \in BOOLEAN
           /\ order'[i][2] => \E j \in DOMAIN history' : history'[j] = order'[i][1]
      /\ \A r \in Priority : \E i \in DOMAIN order' : order'[i][1] = r
  BY <1>1, <1>3, <1>4, <1>6, OrderIsComplete
<1>8. Priority \cup past \subseteq Selected /\ active \subseteq Priority
  BY <1>3 DEF Priority, past, Claims
<1>9. /\ Len(history') \in Nat /\ DOMAIN history' = 1 .. Len(history')
      /\ \A j \in DOMAIN history' : history'[j] \in Runs
  BY <1>4, <1>6, <1>8 DEF Lists
<1>10. first \in Runs \cup {0}
  <2>1. CASE history' # <<>>
    <3>1. Len(history') # 0
      BY <1>6, <2>1 DEF Lists
    <3> QED BY <1>9, <2>1, <3>1
  <2> QED BY <2>1
<1>11. found \in BOOLEAN
  OBVIOUS
<1> HIDE DEF first, found
<1>12. /\ IsSnapshot(s, live) /\ s.rows = snap.rows /\ s.head = snap.head
       /\ s.prev_head = snap.prev_head /\ s.selectors = snap.selectors
       /\ s.discovery = found /\ s.finished = snap.finished
       /\ s.errors = snap.errors /\ s.untracked = snap.untracked
  <2>1. IsSnapshot([snap EXCEPT !.discovery = found], live)
    BY <1>3, <1>11 DEF IsSnapshot
  <2>2. ASSUME NEW t, IsSnapshot(t, live) PROVE IsSnapshot([t EXCEPT !.cursor = first], live)
    BY <1>10, <2>2 DEF IsSnapshot
  <2> QED BY <1>3, <2>1, <2>2 DEF IsSnapshot
<1> HIDE DEF s
<1>13. WorldOK' /\ Idle'
  BY <1>1 DEF IInv, WorldOK, Idle
<1>14. Beginning' /\ Claims' /\ Evidence'
  BY <1>1, <1>2, <1>3, <1>12 DEF Beginning, Claims, Evidence
<1>15. Selection'
  BY <1>1, <1>2, <1>3, <1>12 DEF Selection, Selected
<1>16. Discovery'
  <2>1. \A r \in Runs, j \in DOMAIN ActiveStatuses : Steady(r, j)' <=> Steady(r, j)
    BY <1>1 DEF Steady, Now
  <2>2. \A j \in DOMAIN ActiveStatuses : j < k
    BY <1>1, <1>3, MonitorAssumption
  <2> QED BY <1>1, <1>2, <1>3, <1>12, <2>1, <2>2 DEF Discovery, found
<1>17. Observation'
  <2>1. \A i \in DOMAIN order' : ~(i < 1)
    BY <1>7
  <2> QED BY <1>1, <1>2, <1>3, <1>7, <1>8, <1>9, <1>12, <2>1 DEF Observation
<1>18. IsSnapshot(snap', live')
  BY <1>1, <1>2, <1>12
<1> QED BY <1>1, <1>13, <1>14, <1>15, <1>16, <1>17, <1>18 DEF IInv, Underway

(* One row of a snapshot is replaced.                                      *)
LEMMA RowReplaced ==
  ASSUME NEW s, NEW now, IsSnapshot(s, now), NEW r \in DOMAIN s.rows, NEW row,
         IsRow(row), row.item.run = r, row.ev <= now[r]
  PROVE  LET t == [s EXCEPT !.rows[r] = row]
         IN  /\ IsSnapshot(t, now)
             /\ DOMAIN t.rows = DOMAIN s.rows /\ t.rows[r] = row
             /\ \A q \in DOMAIN s.rows \ {r} : t.rows[q] = s.rows[q]
             /\ t.head = s.head /\ t.prev_head = s.prev_head /\ t.errors = s.errors
             /\ t.selectors = s.selectors /\ t.discovery = s.discovery
             /\ t.untracked = s.untracked /\ t.finished = s.finished
<1> DEFINE rows == [s.rows EXCEPT ![r] = row]
           t == [s EXCEPT !.rows = rows]
<1>1. [s EXCEPT !.rows[r] = row] = t
  OBVIOUS
<1>2. s.rows = [q \in DOMAIN s.rows |-> s.rows[q]]
  BY DEF IsSnapshot, AreRows
<1>3. /\ DOMAIN rows = DOMAIN s.rows /\ rows[r] = row
      /\ \A q \in DOMAIN s.rows \ {r} : rows[q] = s.rows[q]
      /\ rows = [q \in DOMAIN rows |-> rows[q]]
  BY <1>2
<1> HIDE DEF rows
<1>4. AreRows(rows, now) /\ PinnedRuns(s.head) \subseteq DOMAIN rows
  BY <1>3 DEF IsSnapshot, AreRows
<1>5. IsSnapshot(t, now)
  BY <1>4, SnapshotRows
<1>6. /\ t.rows = rows /\ t.head = s.head /\ t.prev_head = s.prev_head
      /\ t.errors = s.errors /\ t.selectors = s.selectors /\ t.discovery = s.discovery
      /\ t.untracked = s.untracked /\ t.finished = s.finished
  BY DEF IsSnapshot
<1> QED BY <1>1, <1>3, <1>5, <1>6

(* A row that is read says what the run is now, and "no" only if the       *)
(* snapshot loaded says the same.                                          *)
LEMMA CurrentRow ==
  ASSUME IInv, NEW r \in Selected, r \in Exist
  PROVE  /\ IsRow(Current(r)) /\ Current(r).item.run = r /\ Current(r).ev = live[r]
         /\ Current(r).obs = "CURRENT"
         /\ Current(r).changed = "no" =>
              r \in DOMAIN published.rows /\ published.rows[r].ev = live[r]
<1> DEFINE x == Item(r)
           old == cached_row(x, previous)
<1>1. Current(r) = [obs |-> "CURRENT", item |-> x, ev |-> live[r],
                    changed |-> IF old.ev = live[r] THEN "no" ELSE "yes"]
  BY DEF Current
<1>2. x.run = r
  BY ItemOf
<1>3. live[r] \in Nat \ {0}
  BY DEF Exist, IInv, WorldOK
<1>4. old.ev # 0 => r \in DOMAIN previous.rows /\ previous.rows[r].ev = old.ev
  BY <1>2, PreviousType, CachedRow DEF IInv
<1>5. DOMAIN previous.rows # {} => previous = published
  BY DEF previous, NoSnap
<1> HIDE DEF x, old
<1> QED BY <1>1, <1>2, <1>3, <1>4, <1>5 DEF IsRow

(* A row that could not be read keeps its evidence.                        *)
LEMMA UnrefreshedRow ==
  ASSUME NEW row, IsRow(row)
  PROVE  /\ IsRow(Unrefreshed(row)) /\ Unrefreshed(row).item = row.item
         /\ Unrefreshed(row).ev = row.ev /\ Unrefreshed(row).changed = "unknown"
         /\ Unrefreshed(row).obs \in {"UNOBSERVED", "REFRESH_ERROR"}
<1> DEFINE obs == IF row.obs = "UNOBSERVED" THEN row.obs ELSE "REFRESH_ERROR"
<1>1. Unrefreshed(row) = [obs |-> obs, item |-> row.item, ev |-> row.ev, changed |-> "unknown"]
  <2>1. Unrefreshed(row) = [row EXCEPT !.changed = "unknown", !.obs = obs]
    BY DEF Unrefreshed
  <2> HIDE DEF obs
  <2> QED BY <2>1 DEF IsRow
<1>2. obs \in {"UNOBSERVED", "REFRESH_ERROR"} /\ (obs = "UNOBSERVED" <=> row.obs = "UNOBSERVED")
  OBVIOUS
<1> HIDE DEF obs
<1> QED BY <1>1, <1>2 DEF IsRow

LEMMA ObserveInv ==
  ASSUME IInv, NEW r \in Runs, NEW ok \in BOOLEAN, ObserveRow(r, ok)
  PROVE  IInv'
<1> DEFINE s == IF ok THEN [snap EXCEPT !.rows[r] = Current(r)]
                ELSE [Erred(phase) EXCEPT !.rows[r] = Unrefreshed(@)]
           next == [s EXCEPT !.cursor = NextInHistory(r)]
<1>1. /\ phase = "observing" /\ phase' = "observing" /\ k' = k + 1 /\ k \in Nat
      /\ k <= Len(order) /\ order[k][1] = r /\ (ok => r \in Exist)
      /\ snap' = IF order[k][2] THEN next ELSE s
      /\ UNCHANGED <<live, head, published, loaded, selected, active, order, history, since>>
  BY DEF ObserveRow, Save, World, IInv, WorldOK
<1>2. /\ IsSnapshot(snap, live) /\ Claims /\ Evidence /\ Selection /\ Discovery /\ Observation
      /\ DOMAIN snap.rows = Selected /\ snap.head # 0 /\ ~snap.finished
  BY <1>1 DEF IInv, Underway, Selection, Claims
<1>3. /\ live \in [Runs -> Nat] /\ \A q \in Runs : since[q] <= live[q]
      /\ published = NoSnap \/ IsArtifact(published, live)
  BY DEF IInv, WorldOK
<1>4. k \in DOMAIN order /\ r \in Selected
  BY <1>1, <1>2 DEF Observation
<1>5. order[k][2] => NextInHistory(r) \in Runs
  <2> SUFFICES ASSUME order[k][2] PROVE NextInHistory(r) \in Runs
    OBVIOUS
  <2> DEFINE i == CHOOSE j \in DOMAIN history : history[j] = r
  <2>1. \E j \in DOMAIN history : history[j] = r
    BY <1>1, <1>2, <1>4 DEF Observation
  <2>2. i \in DOMAIN history
    BY <2>1
  <2>3. NextInHistory(r) = history[(i % Len(history)) + 1]
    BY DEF NextInHistory
  <2> HIDE DEF i
  <2>4. (i % Len(history)) + 1 \in DOMAIN history
    BY <1>1, <1>2, <2>2 DEF Observation
  <2> QED BY <1>1, <1>2, <2>3, <2>4 DEF Observation
<1>6. IsRow(snap.rows[r]) /\ snap.rows[r].item.run = r /\ snap.rows[r].ev <= live[r]
  BY <1>2, <1>4 DEF IsSnapshot, AreRows
<1> DEFINE row == IF ok THEN Current(r) ELSE Unrefreshed(snap.rows[r])
           errors == IF ok THEN snap.errors ELSE snap.errors \cup {Phase(phase)}
<1>7. IsRow(row) /\ row.item.run = r /\ row.ev <= live[r]
  <2>1. CASE ok
    BY <1>1, <1>3, <1>4, <2>1, CurrentRow
  <2>2. CASE ~ok
    BY <1>6, <2>2, UnrefreshedRow
  <2> QED BY <2>1, <2>2
<1>8. /\ IsSnapshot(s, live)
      /\ DOMAIN s.rows = DOMAIN snap.rows /\ s.rows[r] = row
      /\ \A q \in DOMAIN snap.rows \ {r} : s.rows[q] = snap.rows[q]
      /\ s.head = snap.head /\ s.prev_head = snap.prev_head /\ s.errors = errors
      /\ s.selectors = snap.selectors /\ s.discovery = snap.discovery
      /\ s.untracked = snap.untracked /\ s.finished = snap.finished
  <2>1. CASE ok
    <3>1. s = [snap EXCEPT !.rows[r] = row]
      BY <2>1
    <3> HIDE DEF row, s
    <3> QED BY <1>2, <1>4, <1>7, <2>1, <3>1, RowReplaced
  <2>2. CASE ~ok
    <3> DEFINE e == Erred(phase)
    <3>1. /\ IsSnapshot(e, live) /\ e.errors = errors /\ e.rows = snap.rows
          /\ e.head = snap.head /\ e.prev_head = snap.prev_head
          /\ e.selectors = snap.selectors /\ e.discovery = snap.discovery
          /\ e.untracked = snap.untracked /\ e.finished = snap.finished
      BY <1>2, <2>2, ErredFields
    <3>2. s = [e EXCEPT !.rows[r] = Unrefreshed(e.rows[r])]
      BY <2>2
    <3>3. s = [e EXCEPT !.rows[r] = row]
      BY <2>2, <3>1, <3>2
    <3>4. r \in DOMAIN e.rows
      BY <1>2, <1>4, <3>1
    <3> HIDE DEF row, s, e, errors
    <3>5. LET t == [e EXCEPT !.rows[r] = row]
          IN  /\ IsSnapshot(t, live)
              /\ DOMAIN t.rows = DOMAIN e.rows /\ t.rows[r] = row
              /\ \A q \in DOMAIN e.rows \ {r} : t.rows[q] = e.rows[q]
              /\ t.head = e.head /\ t.prev_head = e.prev_head /\ t.errors = e.errors
              /\ t.selectors = e.selectors /\ t.discovery = e.discovery
              /\ t.untracked = e.untracked /\ t.finished = e.finished
      BY <1>7, <3>1, <3>4, RowReplaced
    <3> QED BY <3>1, <3>3, <3>5
  <2> QED BY <2>1, <2>2
<1>9. /\ row.changed = "no" => r \in DOMAIN published.rows /\ published.rows[r].ev = row.ev
      /\ row.obs = "CURRENT" => row.ev = live[r]
      /\ loaded /\ r \in DOMAIN published.rows /\ published.rows[r].item = row.item =>
           published.rows[r].ev <= row.ev
      /\ errors = {} => row.obs = "CURRENT" /\ snap.errors = {}
  <2>1. CASE ok
    <3>1. r \in DOMAIN published.rows => published.rows[r].ev <= live[r]
      <4>1. r \in DOMAIN published.rows => published # NoSnap
        BY DEF NoSnap
      <4> QED BY <1>3, <4>1 DEF IsArtifact, AreRows
    <3> QED BY <1>1, <1>4, <2>1, <3>1, CurrentRow
  <2>2. CASE ~ok
    BY <1>2, <1>4, <1>6, <2>2, UnrefreshedRow DEF Evidence
  <2> QED BY <2>1, <2>2
<1> HIDE DEF s, row, errors
<1>10. /\ IsSnapshot(snap', live) /\ snap'.rows = s.rows /\ snap'.head = snap.head
       /\ snap'.prev_head = snap.prev_head /\ snap'.errors = errors
       /\ snap'.selectors = snap.selectors /\ snap'.discovery = snap.discovery
       /\ snap'.untracked = snap.untracked /\ snap'.finished = snap.finished
  <2>1. ASSUME order[k][2]
        PROVE  /\ IsSnapshot(next, live) /\ next.rows = s.rows /\ next.head = s.head
               /\ next.prev_head = s.prev_head /\ next.errors = s.errors
               /\ next.selectors = s.selectors /\ next.discovery = s.discovery
               /\ next.untracked = s.untracked /\ next.finished = s.finished
    <3> DEFINE c == NextInHistory(r)
    <3>1. c \in Runs \cup {0}
      BY <1>5, <2>1
    <3> HIDE DEF c
    <3> QED BY <1>8, <3>1 DEF IsSnapshot, c
  <2> HIDE DEF next
  <2> QED BY <1>1, <1>8, <2>1
<1>11. WorldOK' /\ Idle'
  BY <1>1 DEF IInv, WorldOK, Idle
<1>12. Beginning' /\ Claims'
  BY <1>1, <1>2, <1>8, <1>10 DEF Beginning, Claims
<1>13. Evidence'
  <2> SUFFICES ASSUME NEW q \in DOMAIN s.rows
               PROVE  /\ s.rows[q].obs = "CURRENT" => since[q] <= s.rows[q].ev
                      /\ s.rows[q].changed = "no" =>
                           q \in DOMAIN published.rows /\ published.rows[q].ev = s.rows[q].ev
                      /\ loaded /\ q \in DOMAIN published.rows
                           /\ published.rows[q].item = s.rows[q].item =>
                           published.rows[q].ev <= s.rows[q].ev
    BY <1>1, <1>10 DEF Evidence
  <2>1. CASE q = r
    BY <1>3, <1>8, <1>9, <2>1
  <2>2. CASE q # r
    BY <1>2, <1>8, <2>2 DEF Evidence
  <2> QED BY <2>1, <2>2
<1>14. Selection'
  BY <1>1, <1>2, <1>8, <1>10 DEF Selection, Selected
<1>15. Discovery'
  <2>1. \A q \in Runs, j \in DOMAIN ActiveStatuses : Steady(q, j)' <=> Steady(q, j)
    BY <1>1 DEF Steady, Now
  <2> QED BY <1>1, <1>2, <1>10, <2>1 DEF Discovery
<1>16. ASSUME NEW i \in DOMAIN order, i < k + 1, errors = {}, order[i][1] \in active
       PROVE  s.rows[order[i][1]].obs = "CURRENT"
  <2>1. CASE order[i][1] = r
    BY <1>8, <1>9, <1>16, <2>1
  <2>2. CASE order[i][1] # r
    <3>1. i \in Nat /\ i # k /\ i < k
      BY <1>1, <1>2, <1>16, <2>2 DEF Observation
    <3>2. order[i][1] \in DOMAIN snap.rows /\ snap.rows[order[i][1]].obs = "CURRENT"
      BY <1>1, <1>2, <1>9, <1>16, <3>1 DEF Observation
    <3> QED BY <1>8, <2>2, <3>2
  <2> QED BY <2>1, <2>2
<1>17. Observation'
  BY <1>1, <1>2, <1>8, <1>10, <1>16 DEF Observation
<1>18. IsSnapshot(snap', live')
  BY <1>1, <1>10
<1> QED BY <1>1, <1>11, <1>12, <1>13, <1>14, <1>15, <1>17, <1>18 DEF IInv, Underway

(* All rows of the order are done: every active run was read, or an error  *)
(* is recorded.                                                            *)
LEMMA FinishInv == IInv /\ Finish => IInv'
<1> SUFFICES ASSUME IInv, Finish PROVE IInv'
  OBVIOUS
<1> DEFINE s == [snap EXCEPT !.finished = TRUE]
<1>1. phase = "observing" /\ k > Len(order) /\ Stop(s) /\ World
  BY DEF Finish
<1>2. IsSnapshot(snap, live) /\ Observation /\ k \in Nat
  BY <1>1 DEF IInv, Underway, WorldOK
<1>3. /\ IsSnapshot(s, live) /\ s.rows = snap.rows /\ s.head = snap.head
      /\ s.prev_head = snap.prev_head /\ s.errors = snap.errors
      /\ s.selectors = snap.selectors /\ s.discovery = snap.discovery
      /\ s.untracked = snap.untracked
  <2>1. ASSUME NEW b \in BOOLEAN PROVE IsSnapshot([snap EXCEPT !.finished = b], live)
    BY <1>2 DEF IsSnapshot
  <2>2. IsSnapshot(s, live)
    BY <2>1
  <2> QED BY <1>2, <2>2 DEF IsSnapshot
<1>4. ASSUME snap.errors = {}, NEW r \in active PROVE snap.rows[r].obs = "CURRENT"
  <2>1. PICK i \in DOMAIN order : order[i][1] = r
    BY <1>1, <1>2 DEF Observation
  <2>2. i < k
    BY <1>1, <1>2, <2>1 DEF Observation
  <2> QED BY <1>1, <1>2, <1>4, <2>1, <2>2 DEF Observation
<1> HIDE DEF s
<1> QED BY <1>1, <1>3, <1>4, StopInv

LEMMA CutInv == IInv /\ Cut => IInv'
<1> SUFFICES ASSUME IInv, Cut PROVE IInv'
  OBVIOUS
<1> DEFINE e == Erred(phase)
           moved == [e EXCEPT !.cursor = order[k][1]]
<1>1. phase # "idle" /\ World
  BY DEF Cut
<1>2. IsSnapshot(snap, live)
  BY <1>1 DEF IInv, Underway
<1>3. /\ IsSnapshot(e, live) /\ e.errors # {}
      /\ e.rows = snap.rows /\ e.head = snap.head /\ e.prev_head = snap.prev_head
      /\ e.selectors = snap.selectors /\ e.discovery = snap.discovery
      /\ e.untracked = snap.untracked
  BY <1>2, ErredFields
<1> HIDE DEF e
<1>4. CASE Stop(e)
  BY <1>1, <1>3, <1>4, StopInv
<1>5. CASE phase = "observing" /\ order[k][2] /\ Stop(moved)
  <2>1. Observation /\ k \in Nat /\ k <= Len(order)
    BY <1>5 DEF Cut, IInv, Underway, WorldOK
  <2>2. k \in DOMAIN order /\ order[k][1] \in Runs
    BY <1>2, <1>5, <2>1 DEF Observation, IsSnapshot, AreRows
  <2>3. /\ IsSnapshot(moved, live) /\ moved.errors = e.errors /\ moved.rows = e.rows
        /\ moved.head = e.head /\ moved.prev_head = e.prev_head
        /\ moved.selectors = e.selectors /\ moved.discovery = e.discovery
        /\ moved.untracked = e.untracked
    <3> DEFINE c == order[k][1]
    <3>1. c \in Runs
      BY <2>2
    <3> HIDE DEF c
    <3> QED BY <1>3, <3>1 DEF IsSnapshot, c
  <2> HIDE DEF moved
  <2> QED BY <1>1, <1>3, <1>5, <2>3, StopInv
<1>6. IF phase = "observing" /\ order[k][2] THEN Stop(moved) ELSE Stop(e)
  BY DEF Cut, e
<1> QED BY <1>4, <1>5, <1>6

LEMMA KilledInv == IInv /\ Killed => IInv'
<1> SUFFICES ASSUME IInv, Killed PROVE IInv'
  OBVIOUS
<1>1. phase \notin {"idle", "publish"} /\ Stop(snap) /\ World
  BY DEF Killed
<1>2. IsSnapshot(snap, live) /\ ~snap.finished
  BY <1>1 DEF IInv, Underway, Claims
<1> QED BY <1>1, <1>2, StopInv

(* What is published is what was saved, with no row newer than its run.    *)
LEMMA ArtifactOf ==
  ASSUME NEW s, NEW now, IsSnapshot(s, now)
  PROVE  /\ IsArtifact(Artifact(s), now) /\ DOMAIN Artifact(s).rows = DOMAIN s.rows
         /\ \A r \in DOMAIN s.rows : /\ Artifact(s).rows[r].ev = s.rows[r].ev
                                     /\ Artifact(s).rows[r].item = s.rows[r].item
<1> DEFINE obs(r) == IF s.rows[r].obs = "UNOBSERVED" THEN "UNOBSERVED" ELSE "CACHED"
           row(r) == [obs |-> obs(r), item |-> s.rows[r].item, ev |-> s.rows[r].ev,
                      changed |-> "unknown"]
           rows == [r \in DOMAIN s.rows |-> row(r)]
<1>1. Artifact(s) = [rows |-> rows, head |-> s.head, cursor |-> s.cursor]
  BY DEF Artifact
<1>2. ASSUME NEW r \in DOMAIN s.rows
      PROVE  /\ IsRow(row(r)) /\ row(r).item.run = r /\ row(r).ev <= now[r]
             /\ row(r).obs \in {"CACHED", "UNOBSERVED"}
             /\ row(r).ev = s.rows[r].ev /\ row(r).item = s.rows[r].item
  <2>1. IsRow(s.rows[r]) /\ s.rows[r].item.run = r /\ s.rows[r].ev <= now[r]
    BY DEF IsSnapshot, AreRows
  <2>2. obs(r) \in {"CACHED", "UNOBSERVED"} /\ (obs(r) = "UNOBSERVED" <=> s.rows[r].ev = 0)
    BY <2>1 DEF IsRow
  <2> QED BY <2>1, <2>2 DEF IsRow
<1> HIDE DEF row
<1>3. AreRows(rows, now)
  BY <1>2 DEF IsSnapshot, AreRows
<1>4. IsArtifact(Artifact(s), now)
  BY <1>1, <1>2, <1>3 DEF IsSnapshot, IsArtifact
<1> QED BY <1>1, <1>2, <1>4

LEMMA PublishInv == IInv /\ Publish => IInv'
<1> SUFFICES ASSUME IInv, Publish PROVE IInv'
  OBVIOUS
<1>1. /\ phase = "publish" /\ phase' = "idle" /\ k' = 0 /\ loaded' = FALSE /\ snap' = NoSnap
      /\ selected' = {} /\ active' = {} /\ order' = <<>>
      /\ since' = [r \in Runs |-> 0] /\ UNCHANGED <<live, head>>
      /\ published' \in {published, Artifact(snap)}
  BY DEF Publish
<1>2. IsSnapshot(snap, live)
  BY <1>1 DEF IInv, Underway
<1>3. published' = NoSnap \/ IsArtifact(published', live)
  BY <1>1, <1>2, ArtifactOf DEF IInv, WorldOK
<1>4. live \in [Runs -> Nat] /\ head \in DOMAIN Inventories
  BY DEF IInv, WorldOK
<1>5. since' \in [Runs -> Nat] /\ \A r \in Runs : since'[r] <= live[r]
  BY <1>1, <1>4
<1> QED BY <1>1, <1>3, <1>4, <1>5 DEF IInv, WorldOK, Idle

LEMMA StutterInv == IInv /\ UNCHANGED vars => IInv'
<1> SUFFICES ASSUME IInv, UNCHANGED vars PROVE IInv'
  OBVIOUS
<1>1. UNCHANGED <<live, head, published, phase, k, loaded, selected, active, order, history,
                  snap, since>>
  BY DEF vars, work
<1>2. WorldOK' /\ Idle'
  BY <1>1 DEF IInv, WorldOK, Idle
<1>3. ASSUME phase # "idle" PROVE Underway'
  BY <1>1, <1>3 DEF IInv, Underway, Beginning, Claims, Evidence, Selection, Discovery,
                    Observation, Steady, Now, Selected
<1> QED BY <1>1, <1>2, <1>3 DEF IInv

LEMMA NextInv == IInv /\ [Next]_vars => IInv'
<1> SUFFICES ASSUME IInv, [Next]_vars PROVE IInv'
  OBVIOUS
<1>1. CASE RunAdvances \/ InventoryCommitted
  BY <1>1, RunAdvancesInv, InventoryCommittedInv
<1>2. CASE Start \/ LoadInventory \/ LoadPrevious \/ Select \/ SelectorsDone
  BY <1>2, StartInv, LoadInventoryInv, LoadPreviousInv, SelectInv, SelectorsDoneInv
<1>3. CASE Discover \/ DiscoveryDone \/ Finish \/ Publish
  BY <1>3, DiscoverInv, DiscoveryDoneInv, FinishInv, PublishInv
<1>4. CASE Observe
  BY <1>4, ObserveInv DEF Observe
<1>5. CASE Cut \/ Killed
  BY <1>5, CutInv, KilledInv
<1>6. CASE UNCHANGED vars
  BY <1>6, StutterInv
<1> QED BY <1>1, <1>2, <1>3, <1>4, <1>5, <1>6 DEF Next, Execution

LEMMA Invariance == Spec => []IInv
<1>1. Init => IInv
  BY InitInv
<1>2. IInv /\ [Next]_vars => IInv'
  BY NextInv
<1> QED BY <1>1, <1>2, PTL DEF Spec

-----------------------------------------------------------------------------
(* The properties.                                                         *)

(* In every reachable state of the monitor the variables have their types  *)
(* and a snapshot that claims to be whole is: it lists every run active    *)
(* since the execution started, as it is now unless the execution was      *)
(* ended early and says so by CACHED, and one that claims no failure has   *)
(* no such run that failed.                                                *)
THEOREM ClaimsHold == Spec => []ClaimsAreHonest
<1>1. ASSUME IInv PROVE TypeOK
  <2>1. ASSUME NEW s \in {snap, published} \ {NoSnap}
        PROVE  {x.run : x \in load_config(s.head).pins} \subseteq DOMAIN s.rows
               /\ s.cursor \in Runs \cup {0}
    <3>1. phase = "idle" => snap = NoSnap
      BY <1>1 DEF IInv, Idle
    <3>2. IsSnapshot(s, live) \/ IsArtifact(s, live)
      BY <1>1, <2>1, <3>1 DEF IInv, Underway, WorldOK
    <3> QED BY <3>2 DEF IsSnapshot, IsArtifact, PinnedRuns
  <2>2. active \subseteq Runs
    BY <1>1 DEF IInv, Idle, Underway, Claims, IsSnapshot, AreRows
  <2> QED BY <1>1, <2>1, <2>2 DEF TypeOK, IInv, WorldOK
<1>2. ASSUME IInv, phase = "publish",
             Status(snap) \notin {"MONITOR_ERROR", "PARTIAL_OBSERVATION"},
             NEW r \in Exist, since[r] = live[r]
      PROVE  /\ Now(r).run.status \in Range(ActiveStatuses) =>
                  /\ r \in DOMAIN snap.rows
                  /\ snap.finished \/ snap.rows[r].obs # "CACHED" =>
                       snap.rows[r].ev = live[r]
             /\ r \in DOMAIN snap.rows /\ Status(snap) = "OBSERVED_NO_CURRENT_FAILURE" =>
                  /\ snap.rows[r].ev = live[r]
                  /\ ~Problem(Verdict(snap.rows[r].item, Now(r).run, Now(r).jobs,
                                      Now(r).releases))
  <2>1. /\ IsSnapshot(snap, live) /\ Claims /\ Evidence /\ Discovery /\ Observation
        /\ live \in [Runs -> Nat] /\ since \in [Runs -> Nat] /\ r \in Runs /\ live[r] > 0
    BY <1>2 DEF IInv, Underway, WorldOK, Exist
  <2>2. ~snap.failed /\ ~partial(snap)
    BY <1>2 DEF Status
  <2>3. /\ Observed(snap) \cap {"UNOBSERVED", "REFRESH_ERROR"} = {}
        /\ snap.errors = {} /\ ~snap.untracked /\ snap.selectors /\ snap.discovery
    BY <2>2 DEF partial
  <2>4. ASSUME r \in DOMAIN snap.rows
        PROVE  /\ IsRow(snap.rows[r]) /\ snap.rows[r].item.run = r
               /\ snap.rows[r].ev <= live[r] /\ snap.rows[r].obs \in {"CURRENT", "CACHED"}
    BY <2>1, <2>3, <2>4 DEF IsSnapshot, AreRows, Observed, IsRow
  <2>5. ASSUME r \in DOMAIN snap.rows, snap.rows[r].obs = "CURRENT"
        PROVE  snap.rows[r].ev = live[r]
    <3>1. since[r] <= snap.rows[r].ev /\ snap.rows[r].ev <= live[r] /\ snap.rows[r].ev \in Nat
      BY <2>1, <2>4, <2>5 DEF Evidence, IsRow
    <3> QED BY <1>2, <2>1, <3>1
  <2>6. ASSUME Now(r).run.status \in Range(ActiveStatuses)
        PROVE  r \in active
    <3>1. PICK j \in DOMAIN ActiveStatuses : Now(r).run.status = ActiveStatuses[j]
      BY <2>6 DEF Range
    <3>2. Steady(r, j)
      BY <1>2, <2>1, <3>1 DEF Steady
    <3> QED BY <2>1, <2>3, <3>1, <3>2 DEF Discovery
  <2>7. ASSUME Now(r).run.status \in Range(ActiveStatuses)
        PROVE  /\ r \in DOMAIN snap.rows
               /\ snap.finished \/ snap.rows[r].obs # "CACHED" => snap.rows[r].ev = live[r]
    <3>1. r \in active /\ r \in DOMAIN snap.rows
      BY <2>1, <2>6, <2>7 DEF Claims
    <3>2. snap.finished => snap.rows[r].obs = "CURRENT"
      BY <2>1, <2>3, <3>1 DEF Observation
    <3> QED BY <2>4, <2>5, <3>1, <3>2
  <2>8. ASSUME r \in DOMAIN snap.rows, Status(snap) = "OBSERVED_NO_CURRENT_FAILURE"
        PROVE  /\ snap.rows[r].ev = live[r]
               /\ ~Problem(Verdict(snap.rows[r].item, Now(r).run, Now(r).jobs,
                                   Now(r).releases))
    <3>1. "CACHED" \notin Observed(snap) /\ problem_runs(snap) = {}
      BY <2>2, <2>8 DEF Status
    <3>2. snap.rows[r].obs = "CURRENT"
      BY <2>4, <2>8, <3>1 DEF Observed
    <3>3. snap.rows[r].ev = live[r]
      BY <2>5, <2>8, <3>2
    <3>4. ~Problem(RowVerdict(snap.rows[r]))
      BY <2>8, <3>1 DEF problem_runs
    <3>5. RowVerdict(snap.rows[r])
            = Verdict(snap.rows[r].item, Now(r).run, Now(r).jobs, Now(r).releases)
      <4>1. snap.rows[r].ev # 0 /\ Situation(snap.rows[r].item.run, snap.rows[r].ev) = Now(r)
        BY <2>1, <2>4, <2>8, <3>3 DEF Now
      <4> QED BY <4>1 DEF RowVerdict
    <3> QED BY <3>3, <3>4, <3>5
  <2> QED BY <2>7, <2>8
<1>3. IInv => ClaimsAreHonest
  BY <1>1, <1>2 DEF ClaimsAreHonest
<1> QED BY <1>3, Invariance, PTL

(* Whenever a saved snapshot counts as routine and unchanged, the previous *)
(* snapshot recorded the very situation of every run it lists, at the same *)
(* commit of the working branch.                                           *)
THEOREM UnchangedHolds == Spec => []UnchangedIsUnchanged
<1>1. ASSUME IInv, phase # "idle", routine_unchanged(snap)
      PROVE  /\ snap.head = published.head
             /\ \A r \in DOMAIN snap.rows :
                  r \in DOMAIN published.rows /\ published.rows[r].ev = snap.rows[r].ev
  <2>1. Claims /\ Evidence
    BY <1>1 DEF IInv, Underway
  <2>2. snap.selectors /\ snap.prev_head = snap.head
    BY <1>1 DEF routine_unchanged, observation_complete
  <2>3. snap.head # 0 /\ snap.prev_head = IF loaded THEN published.head ELSE 0
    BY <2>1, <2>2 DEF Claims
  <2>4. \A r \in DOMAIN snap.rows : snap.rows[r].changed = "no"
    BY <1>1 DEF routine_unchanged
  <2> QED BY <2>1, <2>2, <2>3, <2>4 DEF Evidence
<1>2. IInv => UnchangedIsUnchanged
  BY <1>1 DEF UnchangedIsUnchanged
<1> QED BY <1>2, Invariance, PTL

(* An execution that took over the previous snapshot publishes no row      *)
(* older than the one it took over, however it ended.                      *)
THEOREM HistoryIsPreserved == Spec => HistoryPreserved
<1>1. ASSUME IInv, [Next]_vars, loaded, phase = "publish", phase' = "idle",
             NEW r \in DOMAIN published.rows \cap DOMAIN snap.rows,
             published.rows[r].item = snap.rows[r].item
      PROVE  published'.rows[r].ev >= published.rows[r].ev
  <2>1. Publish
    BY <1>1 DEF Next, Execution, vars, work, RunAdvances, InventoryCommitted, Start,
                LoadInventory, LoadPrevious, Select, SelectorsDone, Discover, DiscoveryDone,
                Observe, ObserveRow, Finish, Cut, Killed, Stop
  <2>2. IsSnapshot(snap, live) /\ Claims /\ Evidence
    BY <1>1 DEF IInv, Underway
  <2>3. IsArtifact(published, live)
    BY <1>1, <2>2 DEF IInv, WorldOK, Claims
  <2>4. published.rows[r].ev \in Nat /\ snap.rows[r].ev \in Nat
    BY <1>1, <2>2, <2>3 DEF IsSnapshot, IsArtifact, AreRows, IsRow
  <2>5. published.rows[r].ev <= snap.rows[r].ev
    BY <1>1, <2>2 DEF Evidence
  <2>6. published' = published \/ published' = Artifact(snap)
    BY <2>1 DEF Publish
  <2>7. Artifact(snap).rows[r].ev = snap.rows[r].ev
    BY <1>1, <2>2, ArtifactOf
  <2> QED BY <2>4, <2>5, <2>6, <2>7
<1>2. IInv /\ [Next]_vars =>
        [loaded /\ phase = "publish" /\ phase' = "idle" =>
           \A r \in DOMAIN published.rows \cap DOMAIN snap.rows :
             /\ published.rows[r].item = snap.rows[r].item
             => published'.rows[r].ev >= published.rows[r].ev]_vars
  BY <1>1
<1> QED BY <1>2, Invariance, PTL DEF Spec, HistoryPreserved

(* What RowsAreEvidence asks of the rows a step leaves behind.             *)
RowExplained(row, r) ==
  LET same(s) == r \in DOMAIN s.rows /\ s.rows[r].ev = row.ev /\ s.rows[r].item = row.item
  IN  row.ev # 0 =>
        \/ phase = "observing" /\ row.obs = "CURRENT" /\ row.ev = live[r]
        \/ same(snap) /\ (row.obs = "CURRENT" => snap.rows[r].obs = "CURRENT")
        \/ same(published) /\ row.obs = "CACHED"

Explained == \A r \in DOMAIN snap'.rows : RowExplained(snap'.rows[r], r)

(* A step that leaves the rows alone, or only lists runs it has not read.  *)
LEMMA RowsKept ==
  ASSUME \/ snap'.rows = snap.rows
         \/ \A r \in DOMAIN snap'.rows : snap'.rows[r].ev = 0
  PROVE  Explained
BY DEF Explained, RowExplained

(* A row taken over is one of the snapshot that was loaded.                *)
LEMMA RowTakenOver ==
  ASSUME IInv, NEW x, NEW prev, prev \in {NoSnap, published}
  PROVE  RowExplained(cached_row(x, prev), x.run)
<1>1. prev = NoSnap \/ IsArtifact(prev, live)
  BY DEF IInv, WorldOK
<1> DEFINE c == cached_row(x, prev)
<1>2. /\ c.item = x
      /\ c.ev # 0 => /\ x.run \in DOMAIN prev.rows /\ prev.rows[x.run].item = x
                     /\ prev.rows[x.run].ev = c.ev /\ c.obs = "CACHED"
  BY <1>1, CachedRow
<1>3. c.ev # 0 => prev = published
  BY <1>2 DEF NoSnap
<1> HIDE DEF c
<1>4. RowExplained(c, x.run)
  BY <1>2, <1>3 DEF RowExplained
<1> QED BY <1>4 DEF c

(* Each step of an execution, and each of the world, explains its rows.    *)
LEMMA LoadExplained ==
  ASSUME IInv, Start \/ LoadInventory \/ LoadPrevious
  PROVE  Explained
<1>1. ASSUME NEW c \in Commits, snap' = initial_snapshot(load_config(c), c) PROVE Explained
  <2>1. live \in [Runs -> Nat]
    BY DEF IInv, WorldOK
  <2>2. /\ IsSnapshot(snap', live)
        /\ \A r \in DOMAIN snap'.rows : snap'.rows[r].obs = "UNOBSERVED"
    BY <1>1, <2>1, InitialSnapshot
  <2>3. \A r \in DOMAIN snap'.rows : snap'.rows[r].ev = 0
    BY <2>2 DEF IsSnapshot, AreRows, IsRow
  <2> QED BY <2>3, RowsKept
<1>2. CASE Start
  <2>1. 0 \in Commits /\ Bootstrap = load_config(0)
    BY DEF Commits, load_config
  <2> QED BY <1>1, <1>2, <2>1 DEF Start, Save
<1>3. ASSUME phase # "idle", snap' = Erred(phase) PROVE Explained
  <2>1. snap'.rows = snap.rows
    BY <1>3, ErredFields DEF IInv, Underway
  <2> QED BY <2>1, RowsKept
<1>4. CASE LoadInventory
  <2>1. head \in Commits
    BY DEF IInv, WorldOK, Commits
  <2>2. ASSUME snap' = [Erred(phase) EXCEPT !.failed = TRUE] PROVE snap'.rows = snap.rows
    BY <1>4, <2>2, ErredFields DEF LoadInventory, IInv, Underway, IsSnapshot
  <2> QED BY <1>1, <1>4, <2>1, <2>2, RowsKept DEF LoadInventory, Save, Stop
<1>5. CASE LoadPrevious
  <2>1. phase = "loading_previous_snapshot" /\ IsSnapshot(snap, live) /\ Beginning
    BY <1>5 DEF LoadPrevious, IInv, Underway
  <2> DEFINE b == by_run(Config.pins)
             rows == [r \in DOMAIN snap.rows |-> cached_row(b[r], published)]
  <2>2. ASSUME snap' = [snap EXCEPT !.rows = rows, !.prev_head = published.head]
        PROVE  Explained
    <3> HIDE DEF b
    <3>1. snap'.rows = rows
      <4> HIDE DEF rows
      <4> QED BY <2>1, <2>2 DEF IsSnapshot
    <3>2. \A r \in DOMAIN snap.rows : b[r].run = r
      <4>1. snap.head \in Commits /\ Config = load_config(snap.head)
        BY <2>1 DEF IsSnapshot, Config
      <4> QED BY <2>1, <4>1, ByRun DEF Beginning, b
    <3>3. ASSUME NEW r \in DOMAIN snap.rows PROVE RowExplained(rows[r], r)
      <4>1. RowExplained(cached_row(b[r], published), b[r].run)
        BY RowTakenOver
      <4> QED BY <3>2, <4>1
    <3> QED BY <3>1, <3>3 DEF Explained
  <2>3. \/ snap' = [snap EXCEPT !.rows = rows, !.prev_head = published.head]
        \/ snap' = snap \/ snap' = Erred(phase)
    BY <1>5 DEF LoadPrevious, Save
  <2> QED BY <1>3, <2>1, <2>2, <2>3, RowsKept
<1> QED BY <1>2, <1>4, <1>5

LEMMA SelectExplained ==
  ASSUME IInv, Select
  PROVE  Explained
<1>1. phase = "selecting" /\ IsSnapshot(snap, live)
  BY DEF Select, IInv, Underway
<1> DEFINE sel == Config.selectors[k]
           c   == Candidates(sel)
           new == CHOOSE r \in c : \A q \in c : q <= r
           x   == [run |-> new, head |-> Now(new).run.head, branch |-> Now(new).run.branch,
                   production_jobs |-> sel.production_jobs, selection |-> "latest_workflow"]
           missing == snap.missing \/ ~sel.optional
           rows == [r \in DOMAIN snap.rows \cup {new} |->
                     IF r = new THEN cached_row(x, previous) ELSE snap.rows[r]]
<1>2. \/ snap' = [snap EXCEPT !.missing = missing]
      \/ snap' = snap \/ snap' = Erred(phase)
      \/ snap' = [snap EXCEPT !.rows = rows]
  BY DEF Select, Save
<1>3. x.run = new
  OBVIOUS
<1>4. RowExplained(cached_row(x, previous), x.run)
  BY RowTakenOver DEF previous
<1> HIDE DEF new, x, missing
<1>5. CASE snap' = [snap EXCEPT !.missing = missing]
  BY <1>1, <1>5, RowsKept DEF IsSnapshot
<1>6. CASE snap' = snap \/ snap' = Erred(phase)
  BY <1>1, <1>6, ErredFields, RowsKept
<1>7. CASE snap' = [snap EXCEPT !.rows = rows]
  <2>1. ASSUME NEW r \in DOMAIN rows PROVE RowExplained(rows[r], r)
    <3>1. CASE r = new
      BY <1>3, <1>4, <3>1
    <3>2. CASE r # new
      BY <3>2 DEF RowExplained
    <3> QED BY <3>1, <3>2
  <2> HIDE DEF rows
  <2>2. snap'.rows = rows
    BY <1>1, <1>7 DEF IsSnapshot
  <2> QED BY <2>1, <2>2 DEF Explained
<1> QED BY <1>2, <1>5, <1>6, <1>7

LEMMA ObserveExplained ==
  ASSUME IInv, NEW r \in Runs, NEW ok \in BOOLEAN, ObserveRow(r, ok)
  PROVE  Explained
<1> DEFINE s == IF ok THEN [snap EXCEPT !.rows[r] = Current(r)]
                ELSE [Erred(phase) EXCEPT !.rows[r] = Unrefreshed(@)]
           c == NextInHistory(r)
           row == IF ok THEN Current(r) ELSE Unrefreshed(snap.rows[r])
           rows == [snap.rows EXCEPT ![r] = row]
<1>1. /\ phase = "observing" /\ (ok => r \in Exist)
      /\ snap' = s \/ snap' = [s EXCEPT !.cursor = c]
  BY DEF ObserveRow, Save
<1>2. IsSnapshot(snap, live) /\ Observation /\ DOMAIN snap.rows = Selected
  BY <1>1 DEF IInv, Underway, Selection
<1>3. r \in Selected
  <2>1. k \in Nat /\ k <= Len(order) /\ order[k][1] = r
    BY DEF ObserveRow, IInv, WorldOK
  <2> QED BY <1>1, <1>2, <2>1 DEF Observation
<1>4. RowExplained(row, r)
  <2>1. CASE ok
    <3>1. Current(r).obs = "CURRENT" /\ Current(r).ev = live[r]
      BY <1>1, <1>3, <2>1, CurrentRow
    <3> QED BY <1>1, <2>1, <3>1 DEF RowExplained
  <2>2. CASE ~ok
    <3>1. IsRow(snap.rows[r])
      BY <1>2, <1>3 DEF IsSnapshot, AreRows
    <3>2. /\ Unrefreshed(snap.rows[r]).item = snap.rows[r].item
          /\ Unrefreshed(snap.rows[r]).ev = snap.rows[r].ev
          /\ Unrefreshed(snap.rows[r]).obs # "CURRENT"
      BY <3>1, UnrefreshedRow
    <3> QED BY <1>2, <1>3, <2>2, <3>2 DEF RowExplained
  <2> QED BY <2>1, <2>2
<1>5. s.rows = rows /\ [s EXCEPT !.cursor = c].rows = rows
  <2> DEFINE e == IF ok THEN snap ELSE Erred(phase)
  <2>1. IsSnapshot(e, live) /\ e.rows = snap.rows
    BY <1>2, ErredFields
  <2>2. s = [e EXCEPT !.rows = rows]
    <3>1. CASE ok
      BY <3>1
    <3>2. CASE ~ok
      <4> HIDE DEF e
      <4>1. s = [e EXCEPT !.rows[r] = Unrefreshed(e.rows[r])]
        BY <3>2 DEF e
      <4> QED BY <2>1, <3>2, <4>1
    <3> QED BY <3>1, <3>2
  <2> HIDE DEF e, rows, s, c
  <2> QED BY <2>1, <2>2 DEF IsSnapshot
<1>6. /\ DOMAIN rows = DOMAIN snap.rows /\ rows[r] = row
      /\ \A q \in DOMAIN snap.rows \ {r} : rows[q] = snap.rows[q]
  BY <1>2, <1>3 DEF IsSnapshot, AreRows
<1> HIDE DEF rows, s, row
<1>7. ASSUME NEW q \in DOMAIN rows PROVE RowExplained(rows[q], q)
  <2>1. CASE q = r
    BY <1>4, <1>6, <2>1
  <2>2. CASE q # r
    BY <1>6, <2>2 DEF RowExplained
  <2> QED BY <2>1, <2>2
<1> QED BY <1>1, <1>5, <1>7 DEF Explained

(* The steps that leave the rows alone.                                    *)
LEMMA OtherExplained ==
  ASSUME IInv,
         \/ RunAdvances \/ InventoryCommitted \/ SelectorsDone \/ Discover \/ DiscoveryDone
         \/ Finish \/ Publish \/ Cut \/ Killed
  PROVE  Explained
<1>1. CASE RunAdvances \/ InventoryCommitted \/ Killed
  BY <1>1, RowsKept DEF RunAdvances, InventoryCommitted, Killed, Stop, Save, work
<1>2. CASE Publish
  <2>1. DOMAIN snap'.rows = {}
    BY <1>2 DEF Publish, NoSnap
  <2> QED BY <2>1 DEF Explained
<1>3. ASSUME phase # "idle" PROVE IsSnapshot(snap, live) /\ Erred(phase).rows = snap.rows
  BY <1>3, ErredFields DEF IInv, Underway
<1>4. CASE SelectorsDone \/ Finish
  <2>1. \/ snap' = [snap EXCEPT !.selectors = phase \notin snap.errors]
        \/ snap' = [snap EXCEPT !.finished = TRUE]
    BY <1>4 DEF SelectorsDone, Finish, Stop, Save
  <2>2. IsSnapshot(snap, live)
    BY <1>3, <1>4 DEF SelectorsDone, Finish
  <2>3. snap'.rows = snap.rows
    BY <2>1, <2>2 DEF IsSnapshot
  <2> QED BY <2>3, RowsKept
<1>5. CASE Discover
  <2>1. IsSnapshot(snap, live)
    BY <1>3, <1>5 DEF Discover
  <2>2. PICK e, u : snap' = [snap EXCEPT !.errors = e, !.untracked = u]
    BY <1>5 DEF Discover, Save
  <2>3. snap'.rows = snap.rows
    BY <2>1, <2>2 DEF IsSnapshot
  <2> QED BY <2>3, RowsKept
<1>6. CASE DiscoveryDone
  <2>1. IsSnapshot(snap, live)
    BY <1>3, <1>6 DEF DiscoveryDone
  <2>2. PICK d, c : snap' = [snap EXCEPT !.discovery = d, !.cursor = c]
    BY <1>6 DEF DiscoveryDone, Save
  <2>3. snap'.rows = snap.rows
    BY <2>1, <2>2 DEF IsSnapshot
  <2> QED BY <2>3, RowsKept
<1>7. CASE Cut
  <2>1. phase # "idle"
    BY <1>7 DEF Cut
  <2>2. snap' = Erred(phase) \/ snap' = [Erred(phase) EXCEPT !.cursor = order[k][1]]
    BY <1>7 DEF Cut, Stop, Save
  <2>3. IsSnapshot(Erred(phase), live)
    BY <1>3, <2>1, ErredFields
  <2>4. snap'.rows = snap.rows
    BY <1>3, <2>1, <2>2, <2>3 DEF IsSnapshot
  <2> QED BY <2>4, RowsKept
<1> QED BY <1>1, <1>2, <1>4, <1>5, <1>6, <1>7

(* No step invents or mixes up a row: one with evidence was read under its *)
(* item just now, or is the one the snapshot or the loaded one had.        *)
THEOREM EvidenceIsReal == Spec => RowsAreEvidence
<1>1. ASSUME IInv, Next PROVE Explained
  <2>1. CASE Observe
    BY <1>1, <2>1, ObserveExplained DEF Observe
  <2>2. CASE ~Observe
    BY <1>1, <2>2, LoadExplained, SelectExplained, OtherExplained DEF Next, Execution
  <2> QED BY <2>1, <2>2
<1>2. IInv /\ [Next]_vars =>
        [\A r \in DOMAIN snap'.rows :
           LET row == snap'.rows[r]
               same(s) == r \in DOMAIN s.rows /\ s.rows[r].ev = row.ev
                          /\ s.rows[r].item = row.item
           IN  row.ev # 0 =>
                 \/ phase = "observing" /\ row.obs = "CURRENT" /\ row.ev = live[r]
                 \/ same(snap) /\ (row.obs = "CURRENT" => snap.rows[r].obs = "CURRENT")
                 \/ same(published) /\ row.obs = "CACHED"]_vars
  BY <1>1 DEF Explained, RowExplained
<1> QED BY <1>2, Invariance, PTL DEF Spec, RowsAreEvidence
=============================================================================
