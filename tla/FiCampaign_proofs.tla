-------------------------- MODULE FiCampaign_proofs --------------------------
(***************************************************************************)
(* Proofs about a fault campaign (FiCampaign), for any site lists, memory  *)
(* regions, number of workers and draws, and any simulator.                *)
(*                                                                         *)
(* The plan is a list whatever the site tables are: FlattenSeq is defined  *)
(* by recursion, and that it returns a sequence is proved by induction,    *)
(* from the least element of a set of naturals.  The rest is an inductive  *)
(* invariant, IInv, with one lemma for every action.                       *)
(***************************************************************************)
EXTENDS FiCampaign, WellFoundedInduction, FiniteSetTheorems, SequenceTheorems,
        FunctionTheorems, TLAPS

-----------------------------------------------------------------------------
(* Induction over the naturals, for a set.                                 *)

(* A set of naturals that is not empty has a least element.                *)
LEMMA LeastNat ==
  ASSUME NEW T \in SUBSET Nat, T # {}
  PROVE  \E m \in T : \A x \in T : m <= x
<1> DEFINE R == {p \in Nat \X Nat : p[1] < p[2]}
<1>1. IsWellFoundedOn(R, Nat)
  BY NatLessThanWellFounded DEF OpToRel
<1>2. PICK m \in T : \A x \in T : ~(<<x, m>> \in R)
  <2> HIDE DEF R
  <2> QED BY <1>1, WFMin
<1>3. ASSUME NEW x \in T PROVE m <= x
  <2>1. ~(<<x, m>> \in R)
    BY <1>2
  <2>2. <<x, m>> \in Nat \X Nat /\ <<x, m>>[1] = x /\ <<x, m>>[2] = m
    OBVIOUS
  <2>3. ~(x < m)
    BY <2>1, <2>2
  <2> QED BY <2>3
<1> QED BY <1>3

(* A set with 0 and with every successor of its elements is Nat.           *)
LEMMA NatSetInduction ==
  ASSUME NEW T \in SUBSET Nat, 0 \in T, \A n \in T : n + 1 \in T
  PROVE  T = Nat
<1> SUFFICES ASSUME Nat \ T # {} PROVE FALSE
  OBVIOUS
<1>1. PICK m \in Nat \ T : \A x \in Nat \ T : m <= x
  BY LeastNat
<1>2. m # 0 /\ m - 1 \in Nat
  OBVIOUS
<1>3. m - 1 \in T
  BY <1>1, <1>2
<1> QED BY <1>1, <1>2, <1>3

(* The concatenation of a sequence of sequences is one: the recursive      *)
(* function it is defined by exists, and has sequences for values.         *)
LEMMA FlattenType ==
  ASSUME NEW S, NEW ss \in Seq(Seq(S))
  PROVE  FlattenSeq(ss) \in Seq(S)
<1> DEFINE N == Len(ss)
           Good(n, f) == f \in [1 .. n -> Seq(S)]
                         /\ \A i \in 1 .. n : f[i] = IF i = 1 THEN ss[i] ELSE f[i - 1] \o ss[i]
           T == {n \in Nat : n <= N => \E f : Good(n, f)}
<1>1. 0 \in T
  <2>1. Good(0, [i \in 1 .. 0 |-> <<>>])
    OBVIOUS
  <2> QED BY <2>1
<1>2. ASSUME NEW n \in T, n + 1 <= N PROVE \E f : Good(n + 1, f)
  <2>1. PICK f : Good(n, f)
    BY <1>2
  <2> DEFINE g == [i \in 1 .. n + 1 |-> IF i = n + 1
                     THEN IF i = 1 THEN ss[i] ELSE f[i - 1] \o ss[i] ELSE f[i]]
  <2>2. ss[n + 1] \in Seq(S)
    BY <1>2
  <2>3. n # 0 => f[n] \o ss[n + 1] \in Seq(S)
    BY <2>1, <2>2
  <2>4. \A i \in 1 .. n + 1 : g[i] \in Seq(S)
    BY <2>1, <2>2, <2>3
  <2>5. g \in [1 .. n + 1 -> Seq(S)]
    BY <2>4
  <2>6. ASSUME NEW i \in 1 .. n + 1
        PROVE  g[i] = IF i = 1 THEN ss[i] ELSE g[i - 1] \o ss[i]
    <3>1. i # 1 => i - 1 \in 1 .. n /\ i - 1 # n + 1 /\ i - 1 \in 1 .. n + 1
      BY <1>2
    <3>2. i # 1 => g[i - 1] = f[i - 1]
      BY <3>1
    <3>3. CASE i = n + 1
      BY <3>2, <3>3
    <3>4. CASE i # n + 1
      <4>1. i \in 1 .. n /\ g[i] = f[i]
        BY <3>4
      <4> QED BY <4>1, <3>2, <2>1
    <3> QED BY <3>3, <3>4
  <2>7. Good(n + 1, g)
    BY <2>5, <2>6
  <2> QED BY <2>7
<1>3. \A n \in T : n + 1 \in T
  <2> TAKE n \in T
  <2>1. n \in Nat /\ n + 1 \in Nat
    OBVIOUS
  <2>2. n + 1 <= N => \E f : Good(n + 1, f)
    <3> HIDE DEF Good, T
    <3> QED BY <1>2
  <2> QED BY <2>1, <2>2
<1>4. N \in T
  <2>1. T = Nat
    <3>1. T \in SUBSET Nat
      OBVIOUS
    <3> HIDE DEF T
    <3> QED BY <1>1, <1>3, <3>1, NatSetInduction
  <2>2. N \in Nat
    OBVIOUS
  <2> HIDE DEF T, N
  <2> QED BY <2>1, <2>2
<1>5. PICK f : Good(N, f)
  BY <1>4
<1> DEFINE Rec(h) == h = [i \in 1 .. Len(ss) |-> IF i = 1 THEN ss[i] ELSE h[i - 1] \o ss[i]]
           h == CHOOSE h : Rec(h)
<1>6. Rec(f)
  BY <1>5
<1>7. Rec(h)
  BY <1>6
<1>8. N # 0 => h[N] \in Seq(S)
  <2> DEFINE U == {n \in Nat : n \in 1 .. N => h[n] \in Seq(S)}
  <2> HIDE DEF h
  <2>1. 0 \in U
    OBVIOUS
  <2>2. ASSUME NEW n \in U, n + 1 \in 1 .. N PROVE h[n + 1] \in Seq(S)
    <3>1. h[n + 1] = IF n + 1 = 1 THEN ss[n + 1] ELSE h[n + 1 - 1] \o ss[n + 1]
      <4>1. \A i \in 1 .. N : h[i] = IF i = 1 THEN ss[i] ELSE h[i - 1] \o ss[i]
        BY <1>7
      <4> QED BY <4>1, <2>2
    <3>2. ss[n + 1] \in Seq(S)
      BY <2>2
    <3>3. n + 1 # 1 => n + 1 - 1 = n /\ h[n] \in Seq(S)
      BY <2>2
    <3> QED BY <3>1, <3>2, <3>3
  <2>3. \A n \in U : n + 1 \in U
    <3> TAKE n \in U
    <3>1. n + 1 \in Nat
      OBVIOUS
    <3>2. n + 1 \in 1 .. N => h[n + 1] \in Seq(S)
      <4> HIDE DEF U
      <4> QED BY <2>2
    <3> QED BY <3>1, <3>2
  <2>4. U \in SUBSET Nat
    OBVIOUS
  <2>5. U = Nat
    <3> HIDE DEF U
    <3> QED BY <2>1, <2>3, <2>4, NatSetInduction
  <2>6. N \in U
    BY <2>5
  <2> QED BY <2>6
<1> QED BY <1>8 DEF FlattenSeq

-----------------------------------------------------------------------------
IsSequence(s) == s \in Seq(Range(s))

(* What a list is, without naming what it is a list of.                    *)
LEMMA SeqIsSequence ==
  ASSUME NEW S, NEW s \in Seq(S)
  PROVE  IsSequence(s) /\ Len(s) \in Nat /\ DOMAIN s = 1 .. Len(s)
<1>1. s \in [1 .. Len(s) -> Range(s)] /\ Len(s) \in Nat /\ DOMAIN s = 1 .. Len(s)
  BY DEF Range
<1> QED BY <1>1 DEF IsSequence

(* A site list has finitely many strata.                                   *)
LEMMA StrataFinite ==
  ASSUME NEW sites \in Seq([stratum : STRING, width : Nat])
  PROVE  IsFiniteSet(STRATA(sites))
<1> DEFINE f == [k \in DOMAIN sites |-> sites[k].stratum]
<1>1. IsFiniteSet(DOMAIN sites)
  BY FS_Interval
<1>2. f \in Surjection(DOMAIN sites, STRATA(sites))
  BY DEF Surjection, STRATA, ToSet
<1> QED BY <1>1, <1>2, FS_Surjection

(* FlattenType for lists of any elements.                                  *)
LEMMA ConcatIsSequence ==
  ASSUME NEW n \in Nat, NEW ss, ss = [k \in 1 .. n |-> ss[k]],
         \A k \in 1 .. n : IsSequence(ss[k])
  PROVE  IsSequence(FlattenSeq(ss))
<1> DEFINE S == UNION {Range(ss[k]) : k \in 1 .. n}
<1>1. ASSUME NEW k \in 1 .. n PROVE ss[k] \in Seq(S)
  <2>1. ss[k] \in Seq(Range(ss[k]))
    BY <1>1 DEF IsSequence
  <2>2. Range(ss[k]) \subseteq S
    BY <1>1
  <2> HIDE DEF S
  <2> QED BY <2>1, <2>2
<1>2. ss \in Seq(Seq(S))
  <2> HIDE DEF S
  <2> QED BY <1>1
<1>3. FlattenSeq(ss) \in Seq(S)
  <2> HIDE DEF S
  <2> QED BY <1>2, FlattenType
<1> HIDE DEF S
<1> QED BY <1>3, SeqIsSequence

(* A function on 1 .. n is a list.                                         *)
LEMMA FcnIsSequence ==
  ASSUME NEW n \in Nat, NEW x, x = [j \in 1 .. n |-> x[j]]
  PROVE  IsSequence(x)
<1>1. x \in [1 .. n -> Range(x)]
  BY DEF Range
<1> QED BY <1>1 DEF IsSequence

(* A stratum's draws are a list, of the core, the NPU and the memories.    *)
LEMMA DrawsAreSequences ==
  /\ \A r, n, w : n \in Nat => IsSequence(mem_draws(r, n, w))
  /\ \A sites, s, n, w : n \in Nat => IsSequence(draws(sites, s, n, w))
<1>1. ASSUME NEW r, NEW n \in Nat, NEW w PROVE IsSequence(mem_draws(r, n, w))
  <2> DEFINE x == mem_draws(r, n, w)
  <2>1. x = [j \in 1 .. n |-> x[j]]
    BY DEF mem_draws
  <2> HIDE DEF x
  <2> QED BY <2>1, FcnIsSequence DEF x
<1>2. ASSUME NEW sites, NEW s, NEW n \in Nat, NEW w
      PROVE  IsSequence(draws(sites, s, n, w))
  <2> DEFINE x == draws(sites, s, n, w)
  <2>1. x = [j \in 1 .. n |-> x[j]]
    BY DEF draws
  <2> HIDE DEF x
  <2> QED BY <2>1, FcnIsSequence DEF x
<1> QED BY <1>1, <1>2

(* The plan is a list.                                                     *)
LEMMA PlanIsSequence == IsSequence(Plan)
<1>1. CASE campaign = "mem"
  <2> DEFINE n  == Cardinality(Regions)
             ss == [k \in 1 .. n |-> mem_draws(SetToSeq(Regions)[k], Draws, Window)]
  <2>1. n \in Nat
    BY FiAssumption, FS_CardinalityType
  <2>2. ASSUME NEW k \in 1 .. n PROVE IsSequence(ss[k])
    <3>1. ss[k] = mem_draws(SetToSeq(Regions)[k], Draws, Window)
      BY <2>2
    <3> QED BY <3>1, FiAssumption, DrawsAreSequences
  <2>3. IsSequence(FlattenSeq(ss))
    <3>1. ss = [k \in 1 .. n |-> ss[k]]
      OBVIOUS
    <3> HIDE DEF ss, n
    <3> QED BY <2>1, <2>2, <3>1, ConcatIsSequence
  <2> QED BY <1>1, <2>3 DEF Plan
<1>2. CASE campaign # "mem"
  <2> DEFINE sites     == CampaignSites
             first(s)  == CHOOSE k \in stratum_sites(sites, s) :
                            \A j \in stratum_sites(sites, s) : k <= j
             before(s) == {t \in STRATA(sites) : first(t) < first(s)}
             nth(k)    == CHOOSE s \in STRATA(sites) : Cardinality(before(s)) = k - 1
             n         == Cardinality(STRATA(sites))
             ss        == [k \in 1 .. n |-> draws(sites, nth(k), Draws, Window)]
  <2>1. n \in Nat
    BY FiAssumption, StrataFinite, FS_CardinalityType DEF CampaignSites
  <2>2. ASSUME NEW k \in 1 .. n PROVE IsSequence(ss[k])
    <3> HIDE DEF nth
    <3> QED BY <2>2, FiAssumption, DrawsAreSequences
  <2>4. IsSequence(FlattenSeq(ss))
    <3>1. ss = [k \in 1 .. n |-> ss[k]]
      OBVIOUS
    <3> HIDE DEF ss, n
    <3> QED BY <2>1, <2>2, <3>1, ConcatIsSequence
  <2> QED BY <1>2, <2>4 DEF Plan
<1> QED BY <1>1, <1>2
-----------------------------------------------------------------------------
(* The invariant.                                                          *)
(* A result that is not a failure: what the worker verified of it.         *)
Faithful(r) ==
  ~r.failed => /\ r.armed \in Records /\ r.disarmed \in Records
               /\ campaign = "npu" => r.armed.deposit = "exact" /\ r.disarmed.deposit = "exact"

(* A result that was consumed.                                             *)
Taken(k) ==
  /\ k \in DOMAIN finished /\ ~finished[k].failed
  /\ campaign = "mem" => finished[k].armed.deposit = "exact"

(* Lists are lists, and nothing is started before the plan.                *)
Shape ==
  /\ IsSequence(plan) /\ started \in Nat /\ taken \in Nat
  /\ phase = "controls" => started = 0
  /\ campaign # "mem" => IsSequence(todo)

(* The clean run is accepted before anything is planned: until then its    *)
(* control is still to come, or the campaign has ended without rows.       *)
CleanFirst ==
  campaign # "mem" =>
    \/ golden.mask = {}
    \/ rows = <<>> /\ \/ phase = "ended"
                      \/ phase = "controls" /\ \E k \in DOMAIN todo : todo[k] = "clean"

(* Results are what the workers returned, and those taken are good.        *)
Results ==
  /\ \A k \in DOMAIN finished : Faithful(finished[k])
  /\ \A k \in 1 .. taken : Taken(k)

(* The rows of the core and NPU campaigns once they are classified.        *)
Classified ==
  /\ taken = Len(plan) /\ \A k \in DOMAIN plan : Landed(k)
  /\ rows = [k \in DOMAIN plan |-> Row(k)]

(* The memory's rows grow with the results taken; the others' are made at  *)
(* once, after the last one.                                               *)
Rows ==
  IF campaign = "mem"
  THEN /\ IsSequence(rows) /\ Len(rows) = taken
       /\ \A k \in 1 .. taken : rows[k].item = plan[k]
       /\ phase = "verify" \/ file = "new" => taken = Len(plan)
  ELSE IF phase = "verify" \/ file = "new" THEN Classified ELSE rows = <<>>

(* The records file is touched last, and never by a refused campaign.      *)
Files ==
  /\ phase # "ended" => file = "old"
  /\ outcome = "refused" => file = "old"

IInv == FiTypeOK /\ Shape /\ CleanFirst /\ Results /\ Rows /\ Files

(* The empty list.                                                         *)
LEMMA Empty == IsSequence(<<>>) /\ DOMAIN <<>> = {} /\ Len(<<>>) = 0
BY DEF IsSequence, Range

(* The invariant holds initially.                                          *)
LEMMA InitInv == FiInit => IInv
<1> SUFFICES ASSUME FiInit PROVE IInv
  OBVIOUS
<1> USE Empty DEF FiInit
<1>1. FiTypeOK
  <2>1. Running = {}
    BY DEF Running
  <2> QED BY <2>1, FS_EmptySet, FiAssumption DEF FiTypeOK
<1>2. Shape
  <2>1. \A x : x = [j \in 1 .. 6 |-> x[j]] => IsSequence(x)
    BY FcnIsSequence
  <2>2. \A x : x = [j \in 1 .. 8 |-> x[j]] => IsSequence(x)
    BY FcnIsSequence
  <2>3. campaign = "core" => todo = [j \in 1 .. 6 |-> todo[j]]
    BY DEF Controls
  <2>4. campaign = "npu" => todo = [j \in 1 .. 8 |-> todo[j]]
    BY DEF Controls
  <2>5. campaign # "mem" => IsSequence(todo)
    BY <2>1, <2>2, <2>3, <2>4
  <2> QED BY <2>5 DEF Shape
<1>3. CleanFirst
  BY DEF CleanFirst, Controls
<1>4. Results
  BY DEF Results
<1>5. Rows
  BY DEF Rows
<1>6. Files
  BY DEF Files
<1> QED BY <1>1, <1>2, <1>3, <1>4, <1>5, <1>6 DEF IInv

(* What the controls leave alone.                                          *)
LEMMA ControlStep ==
  ASSUME IInv, FiTypeOK', phase = "controls",
         phase' \in {"controls", "pool", "ended"}, outcome' \in {"none", "refused"},
         CleanFirst', IsSequence(plan'),
         campaign # "mem" => IsSequence(todo'),
         UNCHANGED <<campaign, mode, started, finished, taken, rows, file>>
  PROVE  IInv'
<1> USE DEF IInv
<1>0. started = 0 /\ taken = 0 /\ file = "old"
  BY DEF Shape, FiTypeOK, Files
<1>1. Shape'
  BY <1>0 DEF Shape
<1>2. Results'
  <2>1. DOMAIN finished \subseteq 1 .. 0 /\ 1 .. 0 = {}
    BY <1>0 DEF FiTypeOK
  <2> QED BY <1>0, <2>1 DEF Results
<1>3. Rows'
  BY <1>0 DEF Rows
<1>4. Files'
  BY <1>0 DEF Files
<1> QED BY <1>1, <1>2, <1>3, <1>4

(* While controls are left, the clean run is one of them or has been       *)
(* accepted: accepting it is what makes its mask empty.                    *)
LEMMA TailKeeps ==
  ASSUME IsSequence(todo), todo # <<>>
  PROVE  /\ IsSequence(Tail(todo))
         /\ Head(todo) # "clean" /\ (\E k \in DOMAIN todo : todo[k] = "clean")
              => \E k \in DOMAIN Tail(todo) : Tail(todo)[k] = "clean"
<1>1. todo \in Seq(Range(todo)) /\ DOMAIN todo = 1 .. Len(todo) /\ Len(todo) \in Nat \ {0}
  BY DEF IsSequence
<1>2. Tail(todo) \in Seq(Range(todo)) /\ Len(Tail(todo)) = Len(todo) - 1
      /\ DOMAIN Tail(todo) = 1 .. Len(todo) - 1
      /\ \A k \in 1 .. Len(todo) - 1 : Tail(todo)[k] = todo[k + 1]
  BY <1>1
<1>3. IsSequence(Tail(todo))
  BY <1>2, SeqIsSequence
<1>4. ASSUME Head(todo) # "clean", NEW k \in DOMAIN todo, todo[k] = "clean"
      PROVE  \E j \in DOMAIN Tail(todo) : Tail(todo)[j] = "clean"
  <2>1. Head(todo) = todo[1]
    BY <1>1
  <2>2. k # 1 /\ k - 1 \in 1 .. Len(todo) - 1 /\ (k - 1) + 1 = k
    BY <1>1, <1>4, <2>1
  <2>3. Tail(todo)[k - 1] = "clean"
    BY <1>2, <1>4, <2>2
  <2> QED BY <1>2, <2>2, <2>3
<1> QED BY <1>3, <1>4

(* The site list's control moves on or refuses.                            *)
LEMMA SiteControlInv == IInv /\ SiteControl => IInv'
<1> SUFFICES ASSUME IInv, SiteControl PROVE IInv'
  OBVIOUS
<1> USE DEF IInv
<1>1. PICK dump \in Dumps :
        IF \/ SitesRefused(CampaignSites, dump)
           \/ campaign = "npu" /\ replicas_refused(dump)
        THEN End("refused") /\ UNCHANGED todo
        ELSE todo' = Tail(todo) /\ UNCHANGED <<phase, outcome>>
  BY DEF SiteControl
<1>2. /\ phase = "controls" /\ todo # <<>> /\ Head(todo) = "sites" /\ outcome = "none"
      /\ UNCHANGED <<campaign, mode, golden, plan, started, finished, taken, rows, file>>
      /\ \/ phase' = "ended" /\ outcome' = "refused" /\ todo' = todo
         \/ phase' = phase /\ outcome' = outcome /\ todo' = Tail(todo)
  BY <1>1 DEF SiteControl, End, FiTypeOK
<1>3. FiTypeOK'
  BY <1>2 DEF FiTypeOK, Running
<1>4. campaign # "mem" => IsSequence(todo) /\ IsSequence(todo')
  BY <1>2, TailKeeps DEF Shape
<1>5. CleanFirst'
  <2>1. campaign # "mem" => rows = <<>>
    BY <1>2 DEF Rows, Files
  <2> QED BY <1>2, <1>4, <2>1, TailKeeps DEF CleanFirst
<1>6. IsSequence(plan')
  BY <1>2 DEF Shape
<1> QED BY <1>2, <1>3, <1>4, <1>5, <1>6, ControlStep

(* A control that is passed was passed by a clean run where it has to be.  *)
LEMMA ControlInv == IInv /\ Control => IInv'
<1> SUFFICES ASSUME IInv, Control PROVE IInv'
  OBVIOUS
<1> USE DEF IInv
<1>0. /\ phase = "controls" /\ todo # <<>> /\ outcome = "none"
      /\ UNCHANGED <<campaign, mode, plan, started, finished, taken, rows, file>>
  BY DEF Control, FiTypeOK
<1>1. PICK rec \in ControlRecords :
        /\ golden' = IF Head(todo) = "clean" THEN rec ELSE golden
        /\ \/ phase' = "ended" /\ outcome' = "refused" /\ todo' = todo
           \/ /\ phase' = phase /\ outcome' = outcome
              /\ ~ControlRefuses(Head(todo), rec)
              /\ campaign # "mem" => todo' = Tail(todo)
  BY DEF Control, End
<1>3. FiTypeOK'
  BY <1>0, <1>1 DEF FiTypeOK, Running
<1>4. campaign # "mem" => IsSequence(todo) /\ IsSequence(todo')
  BY <1>0, <1>1, TailKeeps DEF Shape
<1>5. CleanFirst'
  <2> SUFFICES ASSUME campaign # "mem" PROVE CleanFirst'
    BY <1>0 DEF CleanFirst
  <2>1. rows = <<>>
    BY <1>0 DEF Rows, Files
  <2>2. CASE phase' = "ended"
    BY <1>0, <2>1, <2>2 DEF CleanFirst
  <2>3. CASE phase' = "controls" /\ Head(todo) = "clean"
    <3>1. ~CleanRefused(rec)
      BY <1>0, <1>1, <2>3 DEF ControlRefuses, core_control, npu_control,
         core_clean_refused, npu_clean_refused, FiTypeOK
    <3> QED BY <1>1, <2>3, <3>1 DEF CleanRefused, CleanFirst
  <2>4. CASE phase' = "controls" /\ Head(todo) # "clean"
    BY <1>0, <1>1, <1>4, <2>1, <2>4, TailKeeps DEF CleanFirst
  <2> QED BY <1>0, <1>1, <2>2, <2>3, <2>4
<1>6. IsSequence(plan')
  BY <1>0 DEF Shape
<1> QED BY <1>0, <1>1, <1>3, <1>4, <1>5, <1>6, ControlStep

(* The plan is drawn, or read, before anything is started.                 *)
LEMMA PlanInv == IInv /\ (DrawPlan \/ DirectedPlan) => IInv'
<1> SUFFICES ASSUME IInv, DrawPlan \/ DirectedPlan PROVE IInv'
  OBVIOUS
<1> USE DEF IInv
<1>1. /\ phase = "controls" /\ todo = <<>> /\ outcome = "none"
      /\ UNCHANGED <<campaign, mode, todo, golden, started, finished, taken, rows, file>>
      /\ \/ phase' = "ended" /\ outcome' = "refused" /\ plan' = plan
         \/ /\ phase' = "pool" /\ outcome' = "none"
            /\ plan' = Plan \/ plan' \in Directed
  BY DEF DrawPlan, DirectedPlan, End, FiTypeOK
<1>2. IsSequence(plan')
  BY <1>1, PlanIsSequence, FiAssumption DEF Shape, IsSequence
<1>3. FiTypeOK'
  <2>1. Len(plan') \in Nat /\ started = 0 /\ taken = 0
    BY <1>1, <1>2 DEF IsSequence, Shape, FiTypeOK
  <2> QED BY <1>1, <2>1 DEF FiTypeOK, Running
<1>4. CleanFirst'
  BY <1>1, Empty DEF CleanFirst
<1>5. campaign # "mem" => IsSequence(todo')
  BY <1>1 DEF Shape
<1> QED BY <1>1, <1>2, <1>3, <1>4, <1>5, ControlStep

(* The pool holds finitely many jobs.                                      *)
LEMMA RunningFinite ==
  ASSUME IInv
  PROVE  IsFiniteSet(Running) /\ Cardinality(Running) \in Nat
<1>1. Running \subseteq 1 .. started /\ started \in Nat
  BY DEF Running, IInv, Shape
<1>2. IsFiniteSet(1 .. started)
  BY <1>1, FS_Interval
<1>3. IsFiniteSet(Running)
  BY <1>1, <1>2, FS_Subset
<1> QED BY <1>3, FS_CardinalityType

(* A job that starts joins the pool.                                       *)
LEMMA StartInv == IInv /\ Start => IInv'
<1> SUFFICES ASSUME IInv, Start PROVE IInv'
  OBVIOUS
<1>1. /\ phase = "pool" /\ started < Len(plan) /\ started' = started + 1
      /\ UNCHANGED <<campaign, mode, phase, todo, golden, plan, finished, taken, rows, file, outcome>>
      /\ Len(plan) \in Nat /\ started \in Nat /\ taken \in Nat /\ Cardinality(Running) < Workers
  BY DEF Start, IInv, Shape, IsSequence
<1>2. FiTypeOK'
  <2>1. Running' = Running \cup {started + 1}
    BY <1>1 DEF Running, IInv, FiTypeOK
  <2>2. Cardinality(Running') <= Cardinality(Running) + 1
    BY <2>1, RunningFinite, FS_AddElement
  <2>3. Cardinality(Running') \in Nat
    BY <2>1, RunningFinite, FS_AddElement, FS_CardinalityType
  <2>4. Cardinality(Running') <= Workers
    BY <1>1, <2>2, <2>3, RunningFinite, FiAssumption
  <2>5. DOMAIN finished \subseteq 1 .. started'
    BY <1>1 DEF IInv, FiTypeOK
  <2> QED BY <1>1, <2>4, <2>5 DEF IInv, FiTypeOK
<1>3. Shape'
  BY <1>1 DEF IInv, Shape
<1>4. CleanFirst'
  BY <1>1 DEF IInv, CleanFirst
<1>5. Results'
  BY <1>1 DEF IInv, Results, Taken, Faithful
<1>6. Rows'
  BY <1>1 DEF IInv, Rows, Files
<1>7. Files'
  BY <1>1 DEF IInv, Files
<1> QED BY <1>2, <1>3, <1>4, <1>5, <1>6, <1>7 DEF IInv

(* A result is added and disturbs no other: the job was still running.     *)
LEMMA FinishInv == ASSUME IInv, NEW k \in Running, Finish(k) PROVE IInv'
<1>1. /\ phase \in {"pool", "draining"} /\ k \in 1 .. started /\ k \notin DOMAIN finished
      /\ UNCHANGED <<campaign, mode, phase, todo, golden, plan, started, taken, rows, file, outcome>>
  BY DEF Finish, Running
<1>2. PICK a \in Records, d \in Records :
        finished' = [j \in DOMAIN finished \cup {k} |->
                       IF j = k THEN Result(a, d) ELSE finished[j]]
  BY DEF Finish
<1>3. FiTypeOK'
  <2>1. Running' = Running \ {k}
    BY <1>1, <1>2 DEF Running
  <2>2. Cardinality(Running') <= Workers
    <3>1. Cardinality(Running') = Cardinality(Running) - 1
      BY <2>1, RunningFinite, FS_RemoveElement
    <3>2. Cardinality(Running) <= Workers
      BY DEF IInv, FiTypeOK
    <3> QED BY <3>1, <3>2, RunningFinite, FiAssumption
  <2>3. DOMAIN finished' \subseteq 1 .. started'
    BY <1>1, <1>2 DEF IInv, FiTypeOK
  <2> QED BY <1>1, <2>2, <2>3 DEF IInv, FiTypeOK
<1>4. Shape'
  BY <1>1 DEF IInv, Shape
<1>5. CleanFirst'
  BY <1>1 DEF IInv, CleanFirst
<1>6. Results'
  <2>1. ASSUME NEW j \in DOMAIN finished' PROVE Faithful(finished[j])'
    <3>1. CASE j = k
      BY <1>1, <1>2, <3>1 DEF Faithful, Result, verify_deposit
    <3>2. CASE j # k
      BY <1>1, <1>2, <3>2 DEF IInv, Results, Faithful
    <3> QED BY <3>1, <3>2
  <2>2. ASSUME NEW j \in 1 .. taken' PROVE Taken(j)'
    <3>1. j \in DOMAIN finished /\ Taken(j) /\ j # k
      BY <1>1 DEF IInv, Results, Taken
    <3> QED BY <1>1, <1>2, <3>1 DEF Taken
  <2> QED BY <2>1, <2>2 DEF Results
<1>7. Rows'
  BY <1>1 DEF IInv, Rows, Files
<1>8. Files'
  BY <1>1 DEF IInv, Files
<1> QED BY <1>3, <1>4, <1>5, <1>6, <1>7, <1>8 DEF IInv

(* What is taken is not failed and, for the memories, landed.              *)
LEMMA TakeInv == IInv /\ Take => IInv'
<1> SUFFICES ASSUME IInv, Take PROVE IInv'
  OBVIOUS
<1> DEFINE r == finished[taken + 1]
<1>1. /\ phase = "pool" /\ taken < Len(plan) /\ taken + 1 \in DOMAIN finished
      /\ UNCHANGED <<campaign, mode, todo, golden, plan, started, finished, file, outcome>>
      /\ taken \in Nat /\ started \in Nat /\ Len(plan) \in Nat /\ file = "old"
      /\ taken + 1 <= started
  BY DEF Take, Next_result, IInv, Shape, IsSequence, Files, FiTypeOK
<1>2. \/ phase' = "draining" /\ UNCHANGED <<taken, rows>>
      \/ /\ ~r.failed /\ (campaign = "mem" => ~MemDepositRefused(r.armed))
         /\ taken' = taken + 1 /\ phase' = phase
         /\ campaign # "mem" => rows' = rows
         /\ campaign = "mem" => rows' = Append(rows, mem_row(plan[taken + 1],
                                                              mem_classify(r.armed, golden)))
  BY DEF Take, Next_result
<1>3. FiTypeOK'
  BY <1>1, <1>2 DEF IInv, FiTypeOK, Running
<1>4. Shape'
  BY <1>1, <1>2 DEF IInv, Shape
<1>5. CleanFirst'
  BY <1>1, <1>2 DEF IInv, CleanFirst
<1>6. Results'
  <2>1. Taken(taken + 1) \/ taken' = taken
    <3> SUFFICES ASSUME taken' # taken PROVE Taken(taken + 1)
      OBVIOUS
    <3>1. ~r.failed /\ (campaign = "mem" => ~MemDepositRefused(r.armed))
      BY <1>2
    <3>2. Faithful(r)
      BY <1>1 DEF IInv, Results
    <3> QED BY <1>1, <3>1, <3>2, FiAssumption DEF Taken, Faithful, MemDepositRefused, Deposits
  <2>2. ASSUME NEW j \in 1 .. taken' PROVE Taken(j)
    <3>1. j \in 1 .. taken \/ (j = taken + 1 /\ taken' # taken)
      BY <1>1, <1>2
    <3> QED BY <2>1, <3>1 DEF IInv, Results
  <2> QED BY <1>1, <2>2 DEF IInv, Results, Taken, Faithful
<1>7. Rows'
  <2>1. CASE campaign = "mem" /\ taken' = taken + 1 /\ phase' = phase
    <3> DEFINE x == mem_row(plan[taken + 1], mem_classify(r.armed, golden))
    <3>1. rows' = Append(rows, x) /\ x.item = plan[taken + 1]
      BY <1>1, <1>2, <2>1 DEF mem_row
    <3>2. IsSequence(rows) /\ Len(rows) = taken /\ \A j \in 1 .. taken : rows[j].item = plan[j]
      BY <2>1 DEF IInv, Rows
    <3> HIDE DEF x
    <3>3. rows \in Seq(Range(rows) \cup {x})
      BY <3>2 DEF IsSequence
    <3>4. rows' \in Seq(Range(rows) \cup {x}) /\ Len(rows') = taken + 1
          /\ \A j \in 1 .. taken + 1 : rows'[j] = IF j = taken + 1 THEN x ELSE rows[j]
      BY <3>1, <3>2, <3>3
    <3>5. IsSequence(rows')
      BY <3>4, SeqIsSequence
    <3> QED BY <1>1, <2>1, <3>1, <3>2, <3>4, <3>5 DEF Rows
  <2>2. CASE campaign = "mem" /\ phase' = "draining"
    BY <1>1, <1>2, <2>2 DEF IInv, Rows
  <2>3. CASE campaign # "mem"
    BY <1>1, <1>2, <2>3 DEF IInv, Rows
  <2> QED BY <1>2, <2>1, <2>2, <2>3
<1>8. Files'
  BY <1>1, <1>2 DEF IInv, Files
<1> QED BY <1>3, <1>4, <1>5, <1>6, <1>7, <1>8 DEF IInv

(* The pool is left and the campaign refused.                              *)
LEMMA DrainedInv == IInv /\ Drained => IInv'
<1> SUFFICES ASSUME IInv, Drained PROVE IInv'
  OBVIOUS
<1>1. /\ phase = "draining" /\ phase' = "ended" /\ outcome' = "refused" /\ file = "old"
      /\ UNCHANGED <<campaign, mode, todo, golden, plan, started, finished, taken, rows, file>>
  BY DEF Drained, End, IInv, Files
<1>2. FiTypeOK'
  BY <1>1 DEF IInv, FiTypeOK, Running
<1>3. Shape'
  BY <1>1 DEF IInv, Shape
<1>4. CleanFirst'
  BY <1>1 DEF IInv, CleanFirst
<1>5. Results'
  BY <1>1 DEF IInv, Results, Taken, Faithful
<1>6. Rows'
  BY <1>1 DEF IInv, Rows
<1>7. Files'
  BY <1>1 DEF Files
<1> QED BY <1>2, <1>3, <1>4, <1>5, <1>6, <1>7 DEF IInv

(* Rows are made of results every deposit of which landed.                 *)
LEMMA ClassifyInv == IInv /\ Classify => IInv'
<1> SUFFICES ASSUME IInv, Classify PROVE IInv'
  OBVIOUS
<1>1. /\ phase = "pool" /\ taken = Len(plan) /\ file = "old" /\ outcome = "none"
      /\ UNCHANGED <<campaign, mode, todo, golden, plan, started, finished, taken, file>>
      /\ IsSequence(plan) /\ DOMAIN plan = 1 .. taken
      /\ \/ phase' = "ended" /\ outcome' = "refused" /\ rows' = rows
         \/ /\ Unverified = {} /\ phase' = "verify" /\ outcome' = outcome
            /\ rows' = IF campaign = "mem" THEN rows ELSE [k \in DOMAIN plan |-> Row(k)]
  BY DEF Classify, End, IInv, Files, FiTypeOK, Shape, IsSequence
<1>2. FiTypeOK'
  BY <1>1 DEF IInv, FiTypeOK, Running
<1>3. Shape'
  BY <1>1 DEF IInv, Shape
<1>4. CleanFirst'
  BY <1>1 DEF IInv, CleanFirst, Rows
<1>5. Results'
  BY <1>1 DEF IInv, Results, Taken, Faithful
<1>6. Rows'
  <2>1. CASE campaign = "mem" \/ phase' = "ended"
    BY <1>1, <2>1 DEF IInv, Rows
  <2>2. CASE campaign # "mem" /\ phase' = "verify"
    <3>1. ASSUME NEW k \in DOMAIN plan PROVE Landed(k)
      <4>1. Taken(k) /\ Faithful(finished[k])
        BY <1>1 DEF IInv, Results, Taken
      <4>2. campaign = "npu" => Landed(k)
        BY <4>1 DEF Landed, Taken, Faithful
      <4>3. campaign = "core" => Landed(k)
        BY <1>1, <2>2, <4>1, FiAssumption
           DEF Landed, Taken, Faithful, Unverified, DepositRefused, Deposits
      <4> QED BY <2>2, <4>2, <4>3 DEF IInv, FiTypeOK
    <3>2. rows' = [k \in DOMAIN plan |-> Row(k)]
      BY <1>1, <2>2
    <3>3. Classified'
      BY <1>1, <3>1, <3>2 DEF Classified, Landed, Row
    <3> QED BY <1>1, <2>2, <3>3 DEF Rows
  <2> QED BY <1>1, <2>1, <2>2
<1>7. Files'
  BY <1>1 DEF Files
<1> QED BY <1>2, <1>3, <1>4, <1>5, <1>6, <1>7 DEF IInv

(* The file is written from rows that were classified.                     *)
LEMMA WriteInv == IInv /\ Write => IInv'
<1> SUFFICES ASSUME IInv, Write PROVE IInv'
  OBVIOUS
<1>1. /\ phase = "verify" /\ phase' = "ended"
      /\ UNCHANGED <<campaign, mode, todo, golden, plan, started, finished, taken, rows>>
      /\ \/ rows = <<>> /\ file' = "truncated" /\ outcome' = "crashed"
         \/ file' = "new" /\ outcome' = "reported"
  BY DEF Write, End
<1>2. FiTypeOK'
  BY <1>1 DEF IInv, FiTypeOK, Running
<1>3. Shape'
  BY <1>1 DEF IInv, Shape
<1>4. CleanFirst'
  BY <1>1 DEF IInv, CleanFirst
<1>5. Results'
  BY <1>1 DEF IInv, Results, Taken, Faithful
<1>6. Rows'
  BY <1>1 DEF IInv, Rows, Classified, Landed, Row
<1>7. Files'
  BY <1>1 DEF Files
<1> QED BY <1>2, <1>3, <1>4, <1>5, <1>6, <1>7 DEF IInv

(* A step that changes nothing.                                            *)
LEMMA StutterInv == IInv /\ UNCHANGED fi_vars => IInv'
<1> SUFFICES ASSUME IInv, UNCHANGED fi_vars PROVE IInv'
  OBVIOUS
<1> USE DEF fi_vars, IInv
<1>1. FiTypeOK'
  BY DEF FiTypeOK, Running
<1>2. Shape' /\ CleanFirst' /\ Files'
  BY DEF Shape, CleanFirst, Files
<1>3. Results'
  BY DEF Results, Taken, Faithful
<1>4. Rows'
  BY DEF Rows, Classified, Landed, Row
<1> QED BY <1>1, <1>2, <1>3, <1>4

(* The invariant is one.                                                   *)
LEMMA Invariant == FiSpec => []IInv
<1>1. IInv /\ [FiNext]_fi_vars => IInv'
  BY SiteControlInv, ControlInv, PlanInv, StartInv, FinishInv, TakeInv, DrainedInv,
     ClassifyInv, WriteInv, StutterInv DEF FiNext
<1> QED BY <1>1, InitInv, PTL DEF FiSpec

-----------------------------------------------------------------------------
(* A records file holds one row for every injection of the plan, in the    *)
(* plan's order whatever order the workers of the pool finished in, and    *)
(* every row's simulations flipped exactly the bit it names; a campaign    *)
(* that was refused wrote no file (campaign.py, npu_campaign.py and        *)
(* mem_campaign.py, from the pool to records.csv).                         *)
THEOREM RecordsAreVerified == FiSpec => []EvidenceVerified
<1>1. IInv => EvidenceVerified
  <2> SUFFICES ASSUME IInv PROVE EvidenceVerified
    OBVIOUS
  <2>1. outcome = "refused" => file = "old"
    BY DEF IInv, Files
  <2>2. ASSUME file = "new", campaign = "mem"
        PROVE  /\ Len(rows) = Len(plan)
               /\ \A k \in DOMAIN plan : rows[k].item = plan[k] /\ Landed(k)
    <3>1. taken = Len(plan) /\ DOMAIN plan = 1 .. taken
      BY <2>2 DEF IInv, Rows, Shape, IsSequence
    <3> QED BY <2>2, <3>1 DEF IInv, Rows, Results, Taken, Landed
  <2>3. ASSUME file = "new", campaign # "mem"
        PROVE  /\ Len(rows) = Len(plan)
               /\ \A k \in DOMAIN plan : rows[k].item = plan[k] /\ Landed(k)
    <3>1. Classified /\ DOMAIN plan = 1 .. Len(plan) /\ Len(plan) \in Nat
      BY <2>3 DEF IInv, Rows, Shape, IsSequence
    <3>2. \A k \in DOMAIN plan : Row(k).item = plan[k]
      BY DEF Row, core_row, npu_row
    <3>3. Len(rows) = Len(plan)
      BY <3>1 DEF Classified
    <3> QED BY <3>1, <3>2, <3>3 DEF Classified
  <2> QED BY <2>1, <2>2, <2>3 DEF EvidenceVerified
<1> QED BY <1>1, Invariant, PTL

(* The chain of classifiers as a table: each class means what its name     *)
(* says of the run.                                                        *)
LEMMA ClassMeans ==
  ASSUME NEW done \in BOOLEAN, NEW ann, NEW right \in BOOLEAN, NEW fixed \in BOOLEAN,
         right => done
  PROVE  LET c == Class(done, ann, right, fixed)
         IN  /\ c = "DETECTED" <=> ann # {}
             /\ c \in {"CORRECTED", "MASKED"} => right
             /\ c = "SDC" => done /\ ~right
             /\ c = "HANG" => ~done
             /\ c \in {"HANG", "DETECTED", "SDC", "CORRECTED", "MASKED"}
BY DEF Class

(* What VerdictsCoherent says of one row, but for the golden model.        *)
OneStory(r) ==
  /\ r.armed \in {"SDC", "CORRECTED", "MASKED", "HANG"}
       => r.flags \cap {"wdog", "sw", "trap", "alert", "npu"} = {}
  /\ r.armed \in {"CORRECTED", "MASKED"} => "armed_out_ok" \in r.flags
  /\ r.disarmed # "DETECTED" =>
       r.truth = CASE r.disarmed \in {"MASKED", "CORRECTED"} -> "OK"
                   [] r.disarmed = "SDC"  -> "WRONG"
                   [] r.disarmed = "HANG" -> "DEAD"

(* The facts of a verdict beside its class and its channels.               *)
Facts == {"model_wrong", "state_only", "spikes_bad", "state_bad", "silent_corr", "silent_det"}

(* A verdict of any of the classifiers.                                    *)
IsVerdict(v) ==
  /\ v.done \in BOOLEAN /\ v.out_ok \in BOOLEAN /\ (v.out_ok => v.done)
  /\ v.facts \subseteq Facts
  /\ \E fixed \in BOOLEAN : v.cls = Class(v.done, v.ann, v.out_ok, fixed)

(* A row made of two verdicts tells one story.                             *)
LEMMA RowTells ==
  ASSUME NEW a, NEW d, IsVerdict(a), IsVerdict(d), NEW r,
         r.armed = a.cls, r.disarmed = d.cls, r.truth = truth(d),
         r.flags = Outcomes(a, d) \/ r.flags = Outcomes(a, d) \cup {"frozen"}
  PROVE  OneStory(r) /\ (r.armed = "DETECTED" <=> a.ann # {})
<1>1. /\ a.cls = "DETECTED" <=> a.ann # {}
      /\ a.cls \in {"CORRECTED", "MASKED"} => a.out_ok
  BY ClassMeans DEF IsVerdict
<1>2. /\ d.cls \in {"CORRECTED", "MASKED"} => d.out_ok
      /\ d.cls = "SDC" => d.done /\ ~d.out_ok
      /\ d.cls = "HANG" => ~d.done /\ ~d.out_ok
      /\ d.cls \in {"HANG", "DETECTED", "SDC", "CORRECTED", "MASKED"}
  BY ClassMeans DEF IsVerdict
<1>3. ASSUME r.armed \in {"SDC", "CORRECTED", "MASKED", "HANG"}
      PROVE  r.flags \cap {"wdog", "sw", "trap", "alert", "npu"} = {}
  <2>1. a.ann = {}
    BY <1>1, <1>3
  <2>2. Outcomes(a, d) \subseteq Facts \cup
          {"armed_out_ok", "disarmed_out_ok", "armed_done", "disarmed_done"}
    BY <2>1 DEF Outcomes, IsVerdict
  <2> QED BY <2>2 DEF Facts
<1>4. r.armed \in {"CORRECTED", "MASKED"} => "armed_out_ok" \in r.flags
  BY <1>1 DEF Outcomes
<1>5. r.disarmed # "DETECTED" =>
        r.truth = CASE r.disarmed \in {"MASKED", "CORRECTED"} -> "OK"
                    [] r.disarmed = "SDC"  -> "WRONG"
                    [] r.disarmed = "HANG" -> "DEAD"
  BY <1>2 DEF truth
<1> QED BY <1>1, <1>3, <1>4, <1>5 DEF OneStory

(* The core campaign's classifier returns a verdict, without facts.        *)
LEMMA CoreVerdict ==
  ASSUME NEW a \in Records, NEW g
  PROVE  IsVerdict(classify(a, g)) /\ classify(a, g).ann \subseteq {"wdog", "sw", "trap", "alert"}
                                   /\ classify(a, g).facts = {}
<1> DEFINE v == classify(a, g)
           right == completed(a) /\ answer(a) = answer(g)
<1>1. /\ v.cls = Class(a.done, Announced(a, g), right, corrected(a))
      /\ v.ann = Announced(a, g) /\ v.facts = {} /\ v.out_ok = right /\ v.done = a.done
  BY DEF classify, Verdict, completed
<1>2. right \in BOOLEAN /\ (right => a.done) /\ corrected(a) \in BOOLEAN /\ a.done \in BOOLEAN
  BY FiAssumption DEF completed, corrected
<1>3. Announced(a, g) \subseteq {"wdog", "sw", "trap", "alert"}
  BY DEF Announced
<1> HIDE DEF v, right
<1>4. IsVerdict(v)
  BY <1>1, <1>2 DEF IsVerdict
<1> QED BY <1>1, <1>3, <1>4 DEF v

(* What the golden model calls wrong the program saw too: in a clean run   *)
(* it sees nothing.                                                        *)
LEMMA NpuVerdict ==
  ASSUME NEW a \in Records, NEW g
  PROVE  LET v == npu_classify(a, g)
         IN  /\ IsVerdict(v) /\ v.ann \subseteq {"wdog", "sw", "trap", "alert", "npu"}
             /\ g.mask = {} /\ "model_wrong" \in v.facts => "sw" \in v.ann
<1> DEFINE v == npu_classify(a, g)
           right == completed(a) /\ npu_answer(a) = npu_answer(g)
           ann == Announced(a, g) \cup (IF npu_flagged(a) THEN {"npu"} ELSE {})
<1>1. /\ v.cls = Class(a.done, ann, right, npu_corrected(a))
      /\ v.ann = ann /\ v.out_ok = right /\ v.done = a.done
      /\ v.facts \subseteq Facts /\ ("model_wrong" \in v.facts => model_wrong(a))
  BY DEF npu_classify, Verdict, completed, Facts
<1>2. right \in BOOLEAN /\ (right => a.done) /\ npu_corrected(a) \in BOOLEAN /\ a.done \in BOOLEAN
  BY FiAssumption DEF completed, npu_corrected
<1>3. ann \subseteq {"wdog", "sw", "trap", "alert", "npu"}
  BY DEF Announced
<1>4. g.mask = {} /\ model_wrong(a) => "sw" \in ann
  BY DEF model_wrong, Announced, sw_flagged
<1> HIDE DEF v, right, ann
<1>5. IsVerdict(v)
  BY <1>1, <1>2 DEF IsVerdict
<1> QED BY <1>1, <1>3, <1>4, <1>5 DEF v

(* The classes and truths of every row agree, and what the golden model    *)
(* calls wrong is never silent: it needs that the clean run was accepted   *)
(* by its control before anything was drawn (CleanFirst).                  *)
THEOREM VerdictsTellOneStory == FiSpec => []VerdictsCoherent
<1>1. IInv => VerdictsCoherent
  <2> SUFFICES ASSUME IInv, campaign \in {"core", "npu"}, NEW k \in DOMAIN rows
               PROVE  /\ OneStory(rows[k])
                      /\ "model_wrong" \in rows[k].flags
                           => rows[k].armed = "DETECTED" /\ "sw" \in rows[k].flags
    BY DEF VerdictsCoherent, OneStory
  <2>1. Classified /\ rows # <<>>
    BY Empty DEF IInv, Rows
  <2>2. /\ k \in DOMAIN plan /\ rows[k] = Row(k)
        /\ finished[k].armed \in Records /\ finished[k].disarmed \in Records
    BY <2>1 DEF Classified, Landed, IInv, Rows, Results, Taken, Faithful, Shape, IsSequence
  <2>3. golden.mask = {}
    BY <2>1 DEF IInv, CleanFirst
  <2> DEFINE a == finished[k].armed  d == finished[k].disarmed  r == rows[k]
  <2>4. CASE campaign = "core"
    <3> DEFINE va == classify(a, golden)  vd == classify(d, golden)
    <3>1. r = core_row(plan[k], va, vd)
      BY <2>2, <2>4 DEF Row
    <3>2. /\ IsVerdict(va) /\ IsVerdict(vd)
          /\ va.ann \subseteq {"wdog", "sw", "trap", "alert"} /\ va.facts = {}
      BY <2>2, CoreVerdict
    <3> HIDE DEF va, vd, a, d, r
    <3>3. /\ r.armed = va.cls /\ r.disarmed = vd.cls /\ r.truth = truth(vd)
          /\ r.flags = Outcomes(va, vd)
      BY <3>1 DEF core_row
    <3>4. OneStory(r)
      BY <3>2, <3>3, RowTells
    <3>5. "model_wrong" \notin r.flags
      BY <3>2, <3>3 DEF Outcomes
    <3> QED BY <3>4, <3>5 DEF r
  <2>5. CASE campaign = "npu"
    <3> DEFINE va == npu_classify(a, golden)  vd == npu_classify(d, golden)
    <3>1. r = npu_row(plan[k], va, vd)
      BY <2>2, <2>5 DEF Row
    <3>2. /\ IsVerdict(va) /\ IsVerdict(vd)
          /\ va.ann \subseteq {"wdog", "sw", "trap", "alert", "npu"}
          /\ "model_wrong" \in va.facts => "sw" \in va.ann
      BY <2>2, <2>3, NpuVerdict
    <3> HIDE DEF va, vd, a, d, r
    <3>3. /\ r.armed = va.cls /\ r.disarmed = vd.cls /\ r.truth = truth(vd)
          /\ r.flags = Outcomes(va, vd) \/ r.flags = Outcomes(va, vd) \cup {"frozen"}
      BY <3>1 DEF npu_row
    <3>4. OneStory(r) /\ (r.armed = "DETECTED" <=> va.ann # {})
      BY <3>2, <3>3, RowTells
    <3>5. /\ "model_wrong" \in r.flags => "model_wrong" \in va.facts
          /\ va.ann \subseteq r.flags
      BY <3>2, <3>3 DEF Outcomes
    <3> QED BY <3>2, <3>4, <3>5 DEF r
  <2> QED BY <2>4, <2>5
<1> QED BY <1>1, Invariant, PTL

(* Every Boolean column is converted back: a replayed row is the row saved.*)
LEMMA ReplayIsIdentity ==
  ASSUME NEW s, s = [k \in DOMAIN s |-> s[k]],
         \A k \in DOMAIN s : s[k] = [s[k] EXCEPT !.flags = @]
  PROVE  core_replay(s) = s /\ npu_replay(s) = s
<1>1. /\ CORE_FLAGS \ {"armed_out_ok", "disarmed_out_ok", "armed_done", "disarmed_done",
                        "sw", "trap", "alert", "wdog"} = {}
      /\ NPU_FLAGS \ {"armed_out_ok", "disarmed_out_ok", "armed_done", "disarmed_done",
                       "sw", "trap", "alert", "wdog", "npu", "model_wrong", "state_only",
                       "spikes_bad", "state_bad", "silent_corr", "silent_det", "frozen"} = {}
  BY DEF CORE_FLAGS, NPU_FLAGS
<1>2. ASSUME NEW all, NEW converted, all \ converted = {}
      PROVE  Replayed(s, all, converted) = s
  <2>1. \A k \in DOMAIN s : s[k].flags \cup (all \ converted) = s[k].flags
    BY <1>2
  <2>2. Replayed(s, all, converted) = [k \in DOMAIN s |-> [s[k] EXCEPT !.flags = @]]
    BY <2>1 DEF Replayed
  <2> QED BY <2>2
<1> QED BY <1>1, <1>2 DEF core_replay, npu_replay

(* A row is a record with flags.                                           *)
LEMMA RowIsRecord ==
  ASSUME NEW x, NEW a, NEW d
  PROVE  /\ core_row(x, a, d) = [core_row(x, a, d) EXCEPT !.flags = @]
         /\ npu_row(x, a, d) = [npu_row(x, a, d) EXCEPT !.flags = @]
BY DEF core_row, npu_row

(* The report --replay prints is the report of the campaign, because the   *)
(* rows it reads back are the rows that were saved.                        *)
THEOREM ReplaysAgree == FiSpec => []ReplayAgrees
<1>1. IInv => ReplayAgrees
  <2> SUFFICES ASSUME IInv, file = "new", campaign \in {"core", "npu"}
               PROVE  core_replay(rows) = rows /\ npu_replay(rows) = rows
    BY DEF ReplayAgrees
  <2>1. rows = [k \in DOMAIN plan |-> Row(k)]
    BY DEF IInv, Rows, Classified
  <2>2. \A k \in DOMAIN plan : Row(k) = [Row(k) EXCEPT !.flags = @]
    BY RowIsRecord DEF Row
  <2>3. /\ rows = [k \in DOMAIN rows |-> rows[k]]
        /\ \A k \in DOMAIN rows : rows[k] = [rows[k] EXCEPT !.flags = @]
    BY <2>1, <2>2
  <2> QED BY <2>3, ReplayIsIdentity
<1> QED BY <1>1, Invariant, PTL

-----------------------------------------------------------------------------
(* A multiple of 64, or of 256, is one of 4.                               *)
LEMMA Aligned ==
  ASSUME NEW a \in Nat, a % 64 = 0 \/ a % 256 = 0
  PROVE  a % 4 = 0
<1>1. CASE a % 64 = 0
  <2>1. a = 64 * (a \div 64) /\ a \div 64 \in Nat
    BY <1>1
  <2>2. a = 4 * (16 * (a \div 64))
    BY <2>1
  <2> QED BY <2>1, <2>2
<1>2. CASE a % 256 = 0
  <2>1. a = 256 * (a \div 256) /\ a \div 256 \in Nat
    BY <1>2
  <2>2. a = 4 * (64 * (a \div 256))
    BY <2>1
  <2> QED BY <2>1, <2>2
<1> QED BY <1>1, <1>2

(* The words a section covers.                                             *)
LEMMA WordsOf ==
  ASSUME NEW secs, NEW name, secs[name].addr \in Nat, secs[name].size \in Nat
  PROVE  /\ words(secs, name).lo \in Nat /\ words(secs, name).hi \in Int
         /\ 4 * words(secs, name).lo <= secs[name].addr
         /\ secs[name].addr + secs[name].size <= 4 * words(secs, name).hi + 4
         /\ 4 * words(secs, name).hi < secs[name].addr + secs[name].size
         /\ secs[name].addr % 4 = 0 => 4 * words(secs, name).lo = secs[name].addr
         /\ secs[name].addr % 4 = 0 /\ secs[name].size % 4 = 0
              => 4 * words(secs, name).hi + 4 = secs[name].addr + secs[name].size
<1> DEFINE a == secs[name].addr
           n == secs[name].size
           l == words(secs, name).lo
           h == words(secs, name).hi
<1>1. l = a \div 4 /\ h = (a + n + 3) \div 4 - 1
  BY DEF words
<1>2. a \in Nat /\ n \in Nat
  OBVIOUS
<1> HIDE DEF a, n, l, h
<1>3. /\ l \in Nat /\ h \in Int /\ 4 * l <= a /\ a < 4 * l + 4
      /\ a + n <= 4 * h + 4 /\ 4 * h < a + n
  BY <1>1, <1>2
<1>4. a % 4 = 0 => 4 * l = a
  BY <1>1, <1>2
<1>5. a % 4 = 0 /\ n % 4 = 0 => 4 * h + 4 = a + n
  BY <1>1, <1>2
<1> QED BY <1>3, <1>4, <1>5 DEF a, n, l, h

(* The regions have room: constants and data are not empty, and a word is  *)
(* left between .rodata and the top of the ROM, and below the stack's KiB. *)
RoomLeft(secs) ==
  /\ secs["rodata"].size > 0
  /\ secs["rodata"].addr + secs["rodata"].size < 4 * ROM_WORDS
  /\ secs["bss"].addr + secs["bss"].size > secs["data"].addr
  /\ secs["pmpbuf"].addr + secs["pmpbuf"].size < 4 * (RAM_WORDS - STACK_WORDS)

(* Of a program the link script accepts, the regions the memory campaign   *)
(* draws from are disjoint and not empty exactly if there is room for each *)
(* (mem_campaign.py, strata): the script alone does not see to it, as it   *)
(* accepts a program that leaves no stack.                                 *)
THEOREM RegionsFit ==
  ASSUME NEW secs, Linked(secs)
  PROVE  RegionsDisjoint(secs) <=> RoomLeft(secs)
<1> DEFINE text == words(secs, "text")      vec == words(secs, "trapvec")
           ro   == words(secs, "rodata")    pmp == words(secs, "pmpbuf")
           data == words(secs, "data")      bss == words(secs, "bss")
           lo   == IF data.lo < bss.lo THEN data.lo ELSE bss.lo
           hi   == IF bss.hi > data.hi THEN bss.hi ELSE data.hi
           region(mem, l, h) == [mem |-> mem, lo |-> l, hi |-> h, chk |-> FALSE]
           rom1 == region("ROM", text.lo, vec.hi)
           rom2 == region("ROM", ro.lo, ro.hi)
           rom3 == region("ROM", ro.hi + 1, ROM_WORDS - 1)
           ram1 == region("RAM", lo, hi)
           ram2 == region("RAM", pmp.lo, pmp.hi)
           ram3 == region("RAM", pmp.hi + 1, RAM_WORDS - STACK_WORDS - 1)
           ram4 == region("RAM", RAM_WORDS - STACK_WORDS, RAM_WORDS - 1)
           Rom  == {rom1, rom2, rom3}
           Ram  == {ram1, ram2, ram3, ram4}
<1>1. {r \in strata(secs, TRUE) : ~r.chk} = Rom \cup Ram
  BY DEF strata
<1>2. /\ \A name \in {"text", "trapvec", "rodata", "data", "bss", "pmpbuf"} :
           secs[name].addr \in Nat /\ secs[name].size \in Nat
      /\ secs["trapvec"].addr % 4 = 0 /\ secs["trapvec"].size = 128
      /\ secs["pmpbuf"].addr % 4 = 0 /\ secs["pmpbuf"].size = 64
      /\ \A name \in {"rodata", "data", "bss"} :
           secs[name].addr % 4 = 0 /\ secs[name].size % 4 = 0
  BY Aligned DEF Linked
<1>3. /\ secs["text"].addr + secs["text"].size <= secs["trapvec"].addr
      /\ secs["trapvec"].addr + 128 <= secs["rodata"].addr
      /\ secs["data"].addr + secs["data"].size <= secs["bss"].addr
      /\ secs["bss"].addr + secs["bss"].size <= secs["pmpbuf"].addr
  BY DEF Linked
<1>4. /\ text.lo \in Nat /\ vec.hi \in Int /\ ro.lo \in Nat /\ ro.hi \in Int
      /\ text.lo <= vec.hi /\ vec.hi < ro.lo
      /\ ro.lo <= ro.hi <=> secs["rodata"].size > 0
      /\ ro.hi + 1 <= ROM_WORDS - 1
           <=> secs["rodata"].addr + secs["rodata"].size < 4 * ROM_WORDS
  <2>1. text.lo \in Nat /\ 4 * text.lo <= secs["text"].addr
    BY <1>2, WordsOf
  <2>2. vec.hi \in Int /\ 4 * vec.hi + 4 = secs["trapvec"].addr + 128
    <3>1. secs["trapvec"].size % 4 = 0
      BY <1>2
    <3> QED BY <1>2, <3>1, WordsOf
  <2>3. ro.lo \in Nat /\ ro.hi \in Int /\ 4 * ro.lo = secs["rodata"].addr
        /\ 4 * ro.hi + 4 = secs["rodata"].addr + secs["rodata"].size
    BY <1>2, WordsOf
  <2>4. /\ secs["text"].addr \in Nat /\ secs["text"].size \in Nat
        /\ secs["trapvec"].addr \in Nat
        /\ secs["rodata"].addr \in Nat /\ secs["rodata"].size \in Nat
    BY <1>2
  <2> HIDE DEF text, vec, ro
  <2>5. text.lo <= vec.hi /\ vec.hi < ro.lo
    BY <1>3, <2>1, <2>2, <2>3, <2>4
  <2>6. ro.lo <= ro.hi <=> secs["rodata"].size > 0
    BY <2>3, <2>4
  <2>7. ro.hi + 1 <= ROM_WORDS - 1
          <=> secs["rodata"].addr + secs["rodata"].size < 4 * ROM_WORDS
    BY <2>3, <2>4 DEF ROM_WORDS
  <2> QED BY <2>1, <2>2, <2>3, <2>5, <2>6, <2>7
<1>5. /\ lo \in Nat /\ hi \in Int /\ pmp.lo \in Nat /\ pmp.hi \in Int
      /\ hi < pmp.lo /\ pmp.lo <= pmp.hi
      /\ lo <= hi <=> secs["bss"].addr + secs["bss"].size > secs["data"].addr
      /\ pmp.hi + 1 <= RAM_WORDS - STACK_WORDS - 1
           <=> secs["pmpbuf"].addr + secs["pmpbuf"].size < 4 * (RAM_WORDS - STACK_WORDS)
  <2>1. data.lo \in Nat /\ data.hi \in Int /\ 4 * data.lo = secs["data"].addr
        /\ 4 * data.hi + 4 = secs["data"].addr + secs["data"].size
    BY <1>2, WordsOf
  <2>2. bss.lo \in Nat /\ bss.hi \in Int /\ 4 * bss.lo = secs["bss"].addr
        /\ 4 * bss.hi + 4 = secs["bss"].addr + secs["bss"].size
    BY <1>2, WordsOf
  <2>3. pmp.lo \in Nat /\ pmp.hi \in Int /\ 4 * pmp.lo = secs["pmpbuf"].addr
        /\ 4 * pmp.hi + 4 = secs["pmpbuf"].addr + 64
    <3>1. secs["pmpbuf"].size % 4 = 0
      BY <1>2
    <3> QED BY <1>2, <3>1, WordsOf
  <2> HIDE DEF data, bss, pmp
  <2>4. lo = data.lo /\ hi = bss.hi
    <3>1. /\ secs["data"].addr \in Nat /\ secs["data"].size \in Nat
          /\ secs["bss"].addr \in Nat /\ secs["bss"].size \in Nat
      BY <1>2
    <3>2. data.lo <= bss.lo /\ data.hi <= bss.hi
      BY <1>3, <2>1, <2>2, <3>1
    <3> QED BY <2>1, <2>2, <3>2
  <2> HIDE DEF lo, hi
  <2> QED BY <1>2, <1>3, <2>1, <2>2, <2>3, <2>4 DEF RAM_WORDS, STACK_WORDS
<1> HIDE DEF text, vec, ro, pmp, data, bss, lo, hi
<1>6. /\ rom1.lo = text.lo /\ rom1.hi = vec.hi /\ rom2.lo = ro.lo /\ rom2.hi = ro.hi
      /\ rom3.lo = ro.hi + 1 /\ rom3.hi = ROM_WORDS - 1
      /\ \A r \in Rom : r.mem = "ROM"
  OBVIOUS
<1>7. /\ ram1.lo = lo /\ ram1.hi = hi /\ ram2.lo = pmp.lo /\ ram2.hi = pmp.hi
      /\ ram3.lo = pmp.hi + 1 /\ ram3.hi = RAM_WORDS - STACK_WORDS - 1
      /\ ram4.lo = RAM_WORDS - STACK_WORDS /\ ram4.hi = RAM_WORDS - 1
      /\ \A r \in Ram : r.mem = "RAM"
  OBVIOUS
<1> HIDE DEF rom1, rom2, rom3, ram1, ram2, ram3, ram4
<1>8. RegionsDisjoint(secs) => RoomLeft(secs)
  <2>1. RegionsDisjoint(secs) =>
          rom2.lo <= rom2.hi /\ rom3.lo <= rom3.hi /\ ram1.lo <= ram1.hi /\ ram3.lo <= ram3.hi
    BY <1>1 DEF RegionsDisjoint
  <2> QED BY <1>4, <1>5, <1>6, <1>7, <2>1 DEF RoomLeft
<1>9. RoomLeft(secs) => RegionsDisjoint(secs)
  <2> SUFFICES ASSUME RoomLeft(secs), NEW a \in Rom \cup Ram, NEW b \in Rom \cup Ram
               PROVE  /\ a.lo <= a.hi
                      /\ a # b /\ a.mem = b.mem => a.hi < b.lo \/ b.hi < a.lo
    BY <1>1 DEF RegionsDisjoint
  <2>1. /\ rom1.lo <= rom1.hi /\ rom1.hi < rom2.lo /\ rom2.lo <= rom2.hi
        /\ rom2.hi < rom3.lo /\ rom3.lo <= rom3.hi /\ rom1.hi < rom3.lo
    BY <1>4, <1>6 DEF RoomLeft, ROM_WORDS
  <2>2. /\ ram1.lo <= ram1.hi /\ ram1.hi < ram2.lo /\ ram2.lo <= ram2.hi
        /\ ram2.hi < ram3.lo /\ ram3.lo <= ram3.hi /\ ram3.hi < ram4.lo
        /\ ram4.lo <= ram4.hi /\ ram1.hi < ram3.lo /\ ram1.hi < ram4.lo
        /\ ram2.hi < ram4.lo
    BY <1>5, <1>7 DEF RoomLeft, RAM_WORDS, STACK_WORDS
  <2>3. (a \in Rom /\ b \in Rom) \/ (a \in Ram /\ b \in Ram) \/ a.mem # b.mem
    BY <1>6, <1>7
  <2> QED BY <2>1, <2>2, <2>3
<1> QED BY <1>8, <1>9

-----------------------------------------------------------------------------
(* The campaigns on the netlist (GlCampaign), for any plans, flip-flops,   *)
(* number of workers and simulator.                                        *)
CONSTANTS Plans, Flops, Counts, RtlAnswer, GlRecords, GlControlRecords, GlWorkers

Gl == INSTANCE GlCampaign

(* The plan is the campaign's, and the pool works on it in order.          *)
GlShape ==
  /\ campaign \in Gl!GlCampaigns /\ plan \in {<<>>, Plans[campaign]}
  /\ started \in Nat /\ taken \in 0 .. Len(plan)
  /\ 1 .. taken \subseteq DOMAIN finished /\ DOMAIN finished \subseteq 1 .. started
  /\ phase = "controls" => started = 0 /\ taken = 0 /\ rows = <<>>

(* The rows are of results taken that landed, one row of each.             *)
GlRows ==
  /\ IsSequence(rows)
  /\ \A j \in DOMAIN rows : /\ rows[j].of \in 1 .. taken /\ Gl!GlLanded(rows[j].of)
                            /\ rows[j].item = plan[rows[j].of]
  /\ \A i, j \in DOMAIN rows : rows[i].of = rows[j].of => i = j
  /\ \A n \in 1 .. taken : Gl!GlLanded(n) => \E j \in DOMAIN rows : rows[j].of = n
  /\ campaign # "gated" => Len(rows) = taken

(* The file is written at the end, but inside the gated domains row by row.*)
GlFiles ==
  /\ phase # "ended" => outcome = "none"
  /\ campaign # "gated" /\ (phase # "ended" \/ outcome = "refused") => file = "old"
  /\ outcome = "reported" =>
       /\ taken = Len(plan)
       /\ campaign = "run" => \A j \in 2 .. Len(rows) :
                                rows[j - 1].item.rank <= rows[j].item.rank

GlIInv == GlShape /\ GlRows /\ GlFiles

(* The plan of a campaign is a list, also before it is made.               *)
LEMMA GlPlanIsList ==
  ASSUME Gl!GlAssumption, GlIInv
  PROVE  IsSequence(plan) /\ Len(plan) \in Nat /\ DOMAIN plan = 1 .. Len(plan)
<1>1. IsSequence(Plans[campaign])
  BY DEF Gl!GlAssumption, GlIInv, GlShape, Gl!GlCampaigns, IsSequence, Range, Gl!Range
<1>2. IsSequence(plan)
  BY <1>1, Empty DEF GlIInv, GlShape
<1> QED BY <1>2 DEF IsSequence

(* One more element.                                                       *)
LEMMA AppendIsSequence ==
  ASSUME NEW s, IsSequence(s), NEW x
  PROVE  /\ IsSequence(Append(s, x)) /\ Len(Append(s, x)) = Len(s) + 1
         /\ DOMAIN Append(s, x) = 1 .. Len(s) + 1 /\ DOMAIN s = 1 .. Len(s) /\ Len(s) \in Nat
         /\ \A j \in 1 .. Len(s) + 1 :
              Append(s, x)[j] = IF j = Len(s) + 1 THEN x ELSE s[j]
<1> DEFINE S == Range(s) \cup {x}
<1>1. s \in Seq(S) /\ DOMAIN s = 1 .. Len(s) /\ Len(s) \in Nat
  BY DEF IsSequence
<1>2. x \in S
  OBVIOUS
<1> HIDE DEF S
<1>3. /\ Append(s, x) \in Seq(S) /\ Len(Append(s, x)) = Len(s) + 1
      /\ \A j \in 1 .. Len(s) + 1 :
           Append(s, x)[j] = IF j = Len(s) + 1 THEN x ELSE s[j]
  BY <1>1, <1>2
<1> QED BY <1>1, <1>3, SeqIsSequence

(* The invariant holds initially.                                          *)
LEMMA GlInitInv == Gl!GlInit => GlIInv
<1> SUFFICES ASSUME Gl!GlInit PROVE GlIInv
  OBVIOUS
<1> USE Empty DEF Gl!GlInit
<1>1. GlShape
  BY DEF GlShape
<1>2. GlRows
  BY DEF GlRows
<1>3. GlFiles
  BY DEF GlFiles
<1> QED BY <1>1, <1>2, <1>3 DEF GlIInv

(* A control may refuse, and then nothing has been simulated or written.   *)
LEMMA GlControlInv == GlIInv /\ (Gl!GlSiteControl \/ Gl!GlControl) => GlIInv'
<1> SUFFICES ASSUME GlIInv, Gl!GlSiteControl \/ Gl!GlControl PROVE GlIInv'
  OBVIOUS
<1>1. /\ phase = "controls"
      /\ UNCHANGED <<campaign, plan, started, finished, taken, rows, file>>
      /\ \/ phase' = "ended" /\ outcome' = "refused"
         \/ phase' = phase /\ outcome' = outcome
  BY DEF Gl!GlSiteControl, Gl!GlControl, Gl!GlEnd
<1>2. GlShape'
  BY <1>1 DEF GlIInv, GlShape
<1>3. GlRows'
  BY <1>1 DEF GlIInv, GlRows, Gl!GlLanded
<1>4. GlFiles'
  BY <1>1 DEF GlIInv, GlFiles
<1> QED BY <1>2, <1>3, <1>4 DEF GlIInv

(* The plan is made before anything is taken.                              *)
LEMMA GlPlanInv ==
  ASSUME Gl!GlAssumption, GlIInv, Gl!GlPlan
  PROVE  GlIInv'
<1>1. /\ phase = "controls" /\ started = 0 /\ taken = 0 /\ rows = <<>>
      /\ UNCHANGED <<campaign, started, finished, taken, rows, file>>
      /\ \/ phase' = "ended" /\ outcome' = "refused" /\ plan' = plan
         \/ phase' = "pool" /\ outcome' = outcome /\ plan' = Plans[campaign]
  BY DEF Gl!GlPlan, Gl!GlEnd, GlIInv, GlShape
<1>2. GlShape'
  <2>1. IsSequence(Plans[campaign])
    BY DEF Gl!GlAssumption, GlIInv, GlShape, Gl!GlCampaigns, IsSequence, Range, Gl!Range
  <2>2. taken' \in 0 .. Len(plan')
    BY <1>1, <2>1 DEF GlIInv, GlShape, IsSequence
  <2> QED BY <1>1, <2>2 DEF GlIInv, GlShape
<1>3. GlRows'
  BY <1>1, Empty DEF GlIInv, GlRows
<1>4. GlFiles'
  BY <1>1 DEF GlIInv, GlFiles
<1> QED BY <1>2, <1>3, <1>4 DEF GlIInv

(* A run that starts joins the pool.                                       *)
LEMMA GlStartInv == GlIInv /\ Gl!GlStart => GlIInv'
<1> SUFFICES ASSUME GlIInv, Gl!GlStart PROVE GlIInv'
  OBVIOUS
<1>1. /\ phase = "pool" /\ started' = started + 1
      /\ UNCHANGED <<campaign, phase, plan, finished, taken, rows, file, outcome>>
  BY DEF Gl!GlStart
<1>2. GlShape'
  BY <1>1 DEF GlIInv, GlShape
<1>3. GlRows'
  BY <1>1 DEF GlIInv, GlRows, Gl!GlLanded
<1>4. GlFiles'
  BY <1>1 DEF GlIInv, GlFiles
<1> QED BY <1>2, <1>3, <1>4 DEF GlIInv

(* A result is added and disturbs no other: the run was still going on, so *)
(* it has not been taken.                                                  *)
LEMMA GlFinishInv ==
  ASSUME GlIInv, NEW n \in Gl!GlRunning, Gl!GlFinish(n)
  PROVE  GlIInv'
<1>1. /\ phase \in {"pool", "draining"} /\ n \in 1 .. started /\ n \notin DOMAIN finished
      /\ UNCHANGED <<campaign, phase, plan, started, taken, rows, file, outcome>>
  BY DEF Gl!GlFinish, Gl!GlRunning
<1>2. PICK recs : finished' = [j \in DOMAIN finished \cup {n} |->
                                 IF j = n THEN Gl!job(n, recs) ELSE finished[j]]
  BY DEF Gl!GlFinish
<1>3. GlShape'
  BY <1>1, <1>2 DEF GlIInv, GlShape
<1>4. \A m \in 1 .. taken : Gl!GlLanded(m)' <=> Gl!GlLanded(m)
  BY <1>1, <1>2 DEF GlIInv, GlShape, Gl!GlLanded
<1>5. GlRows'
  BY <1>1, <1>4 DEF GlIInv, GlRows
<1>6. GlFiles'
  BY <1>1 DEF GlIInv, GlFiles
<1> QED BY <1>3, <1>5, <1>6 DEF GlIInv

(* A result that is taken and neither refused nor skipped has landed, and  *)
(* only inside the gated domains is one skipped.                           *)
LEMMA TakenLanded ==
  ASSUME NEW n \in DOMAIN finished, ~Gl!GlRefused(finished[n])
  PROVE  /\ Gl!GlLanded(n) <=> ~Gl!Skipped(finished[n])
         /\ campaign # "gated" => Gl!GlLanded(n)
BY DEF Gl!GlRefused, Gl!Skipped, Gl!GlLanded

(* What is taken gets a row if it landed; a result refused ends it all.    *)
LEMMA GlTakeInv ==
  ASSUME Gl!GlAssumption, GlIInv, Gl!GlTake
  PROVE  GlIInv'
<1> DEFINE n == taken + 1
           r == finished[n]
<1>1. /\ phase = "pool" /\ taken < Len(plan) /\ n \in DOMAIN finished
      /\ UNCHANGED <<campaign, plan, started, finished, outcome>>
      /\ taken \in Nat /\ Len(plan) \in Nat /\ IsSequence(rows) /\ outcome = "none"
  BY GlPlanIsList DEF Gl!GlTake, GlIInv, GlShape, GlRows, GlFiles
<1>2. CASE Gl!GlRefused(r)
  <2>1. phase' = "draining" /\ UNCHANGED <<taken, rows, file>>
    BY <1>2 DEF Gl!GlTake
  <2>2. GlShape'
    BY <1>1, <2>1 DEF GlIInv, GlShape
  <2>3. GlRows'
    BY <1>1, <2>1 DEF GlIInv, GlRows, Gl!GlLanded
  <2>4. GlFiles'
    BY <1>1, <2>1 DEF GlIInv, GlFiles
  <2> QED BY <2>2, <2>3, <2>4 DEF GlIInv
<1>3. CASE ~Gl!GlRefused(r) /\ Gl!Skipped(r)
  <2>1. taken' = n /\ UNCHANGED <<phase, rows, file>>
    BY <1>3 DEF Gl!GlTake
  <2>2. ~Gl!GlLanded(n) /\ campaign = "gated"
    BY <1>1, <1>3, TakenLanded
  <2>3. GlShape'
    BY <1>1, <2>1 DEF GlIInv, GlShape
  <2>4. GlRows'
    <3>1. \A m \in 1 .. n : Gl!GlLanded(m) => m \in 1 .. taken
      BY <1>1, <2>2
    <3>2. \A m : Gl!GlLanded(m)' <=> Gl!GlLanded(m)
      BY <1>1 DEF Gl!GlLanded
    <3> QED BY <1>1, <2>1, <2>2, <3>1, <3>2 DEF GlIInv, GlRows
  <2>5. GlFiles'
    BY <1>1, <2>1 DEF GlIInv, GlFiles
  <2> QED BY <2>3, <2>4, <2>5 DEF GlIInv
<1>4. CASE ~Gl!GlRefused(r) /\ ~Gl!Skipped(r)
  <2> DEFINE x == [item |-> plan[n], of |-> n,
                   verdicts |-> IF campaign = "direct" THEN <<>> ELSE Gl!Verdicts(r.recs)]
  <2>1. /\ taken' = n /\ phase' = phase /\ rows' = Append(rows, x)
        /\ file' = IF campaign = "gated" THEN "new" ELSE file
    BY <1>4 DEF Gl!GlTake
  <2>2. Gl!GlLanded(n)
    BY <1>1, <1>4, TakenLanded
  <2>3. x.of = n /\ x.item = plan[n]
    OBVIOUS
  <2> HIDE DEF x
  <2>4. GlShape'
    BY <1>1, <2>1 DEF GlIInv, GlShape
  <2>5. GlRows'
    <3> DEFINE l == Len(rows)
    <3>1. /\ IsSequence(rows') /\ Len(rows') = l + 1 /\ DOMAIN rows' = 1 .. l + 1
          /\ DOMAIN rows = 1 .. l /\ l \in Nat
          /\ \A j \in 1 .. l + 1 : rows'[j] = IF j = l + 1 THEN x ELSE rows[j]
      BY <1>1, <2>1, AppendIsSequence
    <3>2. \A m : Gl!GlLanded(m)' <=> Gl!GlLanded(m)
      BY <1>1 DEF Gl!GlLanded
    <3>3. ASSUME NEW j \in 1 .. l + 1
          PROVE  /\ rows'[j].of \in 1 .. n /\ Gl!GlLanded(rows'[j].of)
                 /\ rows'[j].item = plan[rows'[j].of]
      <4>1. CASE j = l + 1
        BY <1>1, <2>2, <2>3, <3>1, <4>1
      <4>2. CASE j # l + 1
        <5>1. j \in DOMAIN rows /\ rows'[j] = rows[j]
          BY <3>1, <4>2
        <5>2. rows[j].of \in 1 .. taken /\ Gl!GlLanded(rows[j].of)
              /\ rows[j].item = plan[rows[j].of]
          BY <5>1 DEF GlIInv, GlRows
        <5> QED BY <1>1, <5>1, <5>2
      <4> QED BY <4>1, <4>2
    <3>4. ASSUME NEW i \in 1 .. l + 1, NEW j \in 1 .. l + 1, rows'[i].of = rows'[j].of
          PROVE  i = j
      <4>1. \A m \in 1 .. l : rows[m].of \in 1 .. taken
        BY <3>1 DEF GlIInv, GlRows
      <4>2. i \in 1 .. l /\ j \in 1 .. l => rows[i].of = rows[j].of
        BY <3>1, <3>4
      <4>3. i = l + 1 <=> j = l + 1
        BY <1>1, <2>3, <3>1, <3>4, <4>1
      <4> QED BY <3>1, <4>2, <4>3 DEF GlIInv, GlRows
    <3>5. ASSUME NEW m \in 1 .. n, Gl!GlLanded(m)
          PROVE  \E j \in 1 .. l + 1 : rows'[j].of = m
      <4>1. CASE m = n
        BY <2>3, <3>1, <4>1
      <4>2. CASE m # n
        <5>1. m \in 1 .. taken
          BY <1>1, <4>2
        <5>2. PICK j \in 1 .. l : rows[j].of = m
          BY <3>1, <3>5, <5>1 DEF GlIInv, GlRows
        <5> QED BY <3>1, <5>2
      <4> QED BY <4>1, <4>2
    <3>6. campaign # "gated" => Len(rows') = n
      BY <3>1 DEF GlIInv, GlRows
    <3> QED BY <1>1, <2>1, <3>1, <3>2, <3>3, <3>4, <3>5, <3>6 DEF GlRows
  <2>6. GlFiles'
    BY <1>1, <2>1 DEF GlIInv, GlFiles
  <2> QED BY <2>4, <2>5, <2>6 DEF GlIInv
<1> QED BY <1>2, <1>3, <1>4

(* The pool is left and the campaign refused.                              *)
LEMMA GlDrainedInv == GlIInv /\ Gl!GlDrained => GlIInv'
<1> SUFFICES ASSUME GlIInv, Gl!GlDrained PROVE GlIInv'
  OBVIOUS
<1>1. /\ phase = "draining" /\ phase' = "ended" /\ outcome' = "refused"
      /\ UNCHANGED <<campaign, plan, started, finished, taken, rows, file>>
  BY DEF Gl!GlDrained, Gl!GlEnd
<1>2. GlShape'
  BY <1>1 DEF GlIInv, GlShape
<1>3. GlRows'
  BY <1>1 DEF GlIInv, GlRows, Gl!GlLanded
<1>4. GlFiles'
  BY <1>1 DEF GlIInv, GlFiles
<1> QED BY <1>2, <1>3, <1>4 DEF GlIInv

(* Sorting moves the rows: none is lost, none comes twice.                 *)
LEMMA SortedRows ==
  ASSUME Gl!GlAssumption, GlIInv, campaign = "run", taken = Len(plan),
         NEW place \in Gl!Bijection(DOMAIN rows, DOMAIN rows), Gl!Sorts(place),
         UNCHANGED <<campaign, plan, finished, taken>>,
         rows' = [i \in DOMAIN rows |-> rows[place[i]]]
  PROVE  /\ GlRows'
         /\ \A j \in 2 .. Len(rows') : rows'[j - 1].item.rank <= rows'[j].item.rank
<1> DEFINE l == Len(rows)
<1>1. DOMAIN rows = 1 .. l /\ l \in Nat
  BY DEF GlIInv, GlRows, IsSequence
<1>2. /\ place \in [1 .. l -> 1 .. l]
      /\ \A i, j \in 1 .. l : place[i] = place[j] => i = j
      /\ \A m \in 1 .. l : \E i \in 1 .. l : place[i] = m
  BY <1>1 DEF Gl!Bijection, Gl!Injection, Gl!Surjection, Gl!IsInjective
<1>3. IsSequence(rows') /\ DOMAIN rows' = 1 .. l /\ Len(rows') = l
  <2>1. rows' = [i \in 1 .. l |-> rows'[i]]
    BY <1>1
  <2>2. IsSequence(rows')
    BY <1>1, <2>1, FcnIsSequence
  <2> QED BY <1>1, <2>1, <2>2 DEF IsSequence
<1>4. \A i \in 1 .. l : place[i] \in 1 .. l /\ rows'[i] = rows[place[i]]
  BY <1>1, <1>2
<1>5. GlRows'
  <2>1. \A m : Gl!GlLanded(m)' <=> Gl!GlLanded(m)
    BY DEF Gl!GlLanded
  <2>2. ASSUME NEW j \in 1 .. l
        PROVE  /\ rows'[j].of \in 1 .. taken /\ Gl!GlLanded(rows'[j].of)
               /\ rows'[j].item = plan[rows'[j].of]
    BY <1>1, <1>4 DEF GlIInv, GlRows
  <2>3. ASSUME NEW i \in 1 .. l, NEW j \in 1 .. l, rows'[i].of = rows'[j].of
        PROVE  i = j
    <3>1. place[i] = place[j]
      BY <1>1, <1>4, <2>3 DEF GlIInv, GlRows
    <3> QED BY <1>2, <3>1
  <2>4. ASSUME NEW m \in 1 .. taken, Gl!GlLanded(m)
        PROVE  \E j \in 1 .. l : rows'[j].of = m
    <3>1. PICK i \in 1 .. l : rows[i].of = m
      BY <1>1, <2>4 DEF GlIInv, GlRows
    <3>2. PICK j \in 1 .. l : place[j] = i
      BY <1>2
    <3> QED BY <1>4, <3>1, <3>2
  <2>5. l = taken
    BY DEF GlIInv, GlRows
  <2> QED BY <1>3, <2>1, <2>2, <2>3, <2>4, <2>5 DEF GlRows
<1>6. ASSUME NEW j \in 2 .. l
      PROVE  rows'[j - 1].item.rank <= rows'[j].item.rank
  <2>1. j - 1 \in 1 .. l /\ j \in 1 .. l /\ j - 1 < j
    BY <1>1
  <2>2. \A i \in 1 .. l : rows'[i].item.rank \in Nat
    <3>1. ASSUME NEW i \in 1 .. l PROVE rows'[i].item.rank \in Nat
      <4>1. rows[place[i]].of \in 1 .. taken
            /\ rows[place[i]].item = plan[rows[place[i]].of]
        BY <1>1, <1>4 DEF GlIInv, GlRows
      <4>2. plan = Plans["run"] /\ DOMAIN plan = 1 .. taken
        <5>1. plan # <<>>
          BY <4>1, Empty
        <5> QED BY <5>1, GlPlanIsList DEF GlIInv, GlShape
      <4> QED BY <1>4, <4>1, <4>2 DEF Gl!GlAssumption
    <3> QED BY <3>1
  <2>3. \/ rows[place[j - 1]].item.rank < rows[place[j]].item.rank
        \/ rows[place[j - 1]].item.rank = rows[place[j]].item.rank
    BY <1>1, <2>1 DEF Gl!Sorts
  <2>4. /\ rows'[j - 1] = rows[place[j - 1]] /\ rows'[j] = rows[place[j]]
        /\ rows'[j - 1].item.rank \in Nat /\ rows'[j].item.rank \in Nat
    BY <1>4, <2>1, <2>2
  <2> QED BY <2>3, <2>4
<1> QED BY <1>3, <1>5, <1>6

(* The file is written when every result is taken.                         *)
LEMMA GlWriteInv ==
  ASSUME Gl!GlAssumption, GlIInv, Gl!GlWrite
  PROVE  GlIInv'
<1>1. /\ phase = "pool" /\ phase' = "ended" /\ taken = Len(plan)
      /\ UNCHANGED <<campaign, plan, started, finished, taken>>
  BY DEF Gl!GlWrite, Gl!GlEnd
<1>2. GlShape'
  BY <1>1 DEF GlIInv, GlShape
<1>3. GlRows' /\ GlFiles'
  <2>1. CASE outcome' = "crashed" /\ UNCHANGED rows
    BY <1>1, <2>1 DEF GlIInv, GlRows, GlFiles, Gl!GlLanded
  <2>2. CASE outcome' = "reported" /\ campaign # "run" /\ UNCHANGED rows
    BY <1>1, <2>2 DEF GlIInv, GlRows, GlFiles, Gl!GlLanded
  <2>3. CASE outcome' = "reported" /\ campaign = "run"
             /\ \E place \in Gl!Bijection(DOMAIN rows, DOMAIN rows) :
                  Gl!Sorts(place) /\ rows' = [i \in DOMAIN rows |-> rows[place[i]]]
    <3>1. GlRows' /\ \A j \in 2 .. Len(rows') : rows'[j - 1].item.rank <= rows'[j].item.rank
      BY <1>1, <2>3, SortedRows
    <3> QED BY <1>1, <2>3, <3>1 DEF GlFiles
  <2> QED BY <1>1, <2>1, <2>2, <2>3 DEF Gl!GlWrite, Gl!GlEnd
<1> QED BY <1>2, <1>3 DEF GlIInv

(* A step that changes nothing.                                            *)
LEMMA GlStutterInv == GlIInv /\ UNCHANGED Gl!gl_vars => GlIInv'
BY DEF GlIInv, GlShape, GlRows, GlFiles, Gl!GlLanded, Gl!gl_vars

(* The invariant is one.                                                   *)
LEMMA GlInvariant == Gl!GlAssumption => (Gl!GlSpec => []GlIInv)
<1> SUFFICES ASSUME Gl!GlAssumption PROVE Gl!GlSpec => []GlIInv
  OBVIOUS
<1>1. GlIInv /\ [Gl!GlNext]_(Gl!gl_vars) => GlIInv'
  BY GlControlInv, GlPlanInv, GlStartInv, GlFinishInv, GlTakeInv, GlDrainedInv,
     GlWriteInv, GlStutterInv DEF Gl!GlNext
<1> QED BY <1>1, GlInitInv, PTL DEF Gl!GlSpec

(* The records file of a campaign on the netlist never holds a row whose   *)
(* force did not flip its flip-flop, nor two rows of one item; a reported  *)
(* campaign has a row of every force that landed, and only inside the      *)
(* gated domains are there others; the replay's rows are in order, and a   *)
(* refused campaign leaves the earlier file but in the gated domains       *)
(* (gl_campaign.py and gl_gated.py, from the pool to the records file).    *)
THEOREM NetlistRecordsAreVerified ==
  Gl!GlAssumption => (Gl!GlSpec => []Gl!GlEvidence)
<1> SUFFICES ASSUME Gl!GlAssumption PROVE Gl!GlSpec => []Gl!GlEvidence
  OBVIOUS
<1>1. GlIInv => Gl!GlEvidence
  <2> SUFFICES ASSUME GlIInv PROVE Gl!GlEvidence
    OBVIOUS
  <2>1. ASSUME outcome = "reported"
        PROVE  /\ {rows[j].of : j \in DOMAIN rows} = {k \in DOMAIN plan : Gl!GlLanded(k)}
               /\ campaign # "gated" => Len(rows) = Len(plan)
    <3>1. taken = Len(plan) /\ DOMAIN plan = 1 .. taken
      BY <2>1, GlPlanIsList DEF GlIInv, GlFiles
    <3> QED BY <3>1 DEF GlIInv, GlRows
  <2> QED BY <2>1 DEF GlIInv, GlRows, GlFiles, Gl!GlEvidence
<1> QED BY <1>1, GlInvariant, PTL
=============================================================================
