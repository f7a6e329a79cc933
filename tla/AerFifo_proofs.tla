--------------------------- MODULE AerFifo_proofs ---------------------------
(***************************************************************************)
(* For every depth, word set and drop-counter width, and any number of     *)
(* upsets per cycle that strike distinct words: the voted pointers and the *)
(* queued words survive, and no upset moves what the ports see.            *)
(***************************************************************************)
EXTENDS AerFifo, SequenceTheorems, TLAPS

(* MaskedState alone is not inductive: a second upset would outvote a      *)
(* pointer that already disagrees.  What excludes it is that a word struck *)
(* since the last edge is in hit, and every other word is unanimous.       *)
Unstruck ==
  /\ "wr" \notin hit => Agree(wr)
  /\ "rd" \notin hit => Agree(rd)
  /\ "rdv" \notin hit => ~rv_mismatch

IInv == TypeOK /\ MaskedState /\ Unstruck

LEMMA DepthFact == DEPTH \in Nat /\ DEPTH >= 2 /\ DROP_MAX \in Nat \ {0} /\ MaxStruck \in Nat
BY FifoAssumption DEF FifoAssumption

LEMMA ParityType == Parity \in [Data -> {0, 1}]
BY FifoAssumption DEF FifoAssumption

(* When two replicas agree the vote is one of the replicas, hence a        *)
(* pointer; when all agree it is their common value.                       *)
LEMMA VoteIsPointer ==
  ASSUME NEW p \in [Replica -> Ptr], TwoAgree(p)
  PROVE  Vote(p) \in Ptr /\ (Agree(p) => Vote(p) = p["a"])
BY DEF TwoAgree, Vote, Agree, Replica

(* One replica of a unanimous pointer is struck: the vote does not move    *)
(* and the mismatch shows.                                                 *)
LEMMA StrikeOutvoted ==
  ASSUME NEW p \in [Replica -> Ptr], Agree(p),
         NEW r \in Replica, NEW v \in Ptr, v # p[r]
  PROVE  LET q == [p EXCEPT ![r] = v] IN
           /\ q \in [Replica -> Ptr]
           /\ TwoAgree(q) /\ ~Agree(q) /\ Vote(q) = Vote(p)
BY DEF TwoAgree, Vote, Agree, Replica

(* An edge makes every replica equal to the stepped vote.                  *)
LEMMA ReloadAgrees ==
  ASSUME NEW x \in Ptr
  PROVE  LET q == [r \in Replica |-> x] IN
           q \in [Replica -> Ptr] /\ TwoAgree(q) /\ Agree(q) /\ Vote(q) = x
BY DEF TwoAgree, Vote, Agree, Replica

LEMMA StepIsPointer ==
  ASSUME NEW p \in Ptr, NEW b \in BOOLEAN
  PROVE  Step(p, b) \in Ptr
BY DepthFact DEF Step, Ptr

(* The distance between the pointers follows a write and a read.           *)
LEMMA LevelStep ==
  ASSUME NEW w \in Ptr, NEW r \in Ptr, NEW a \in BOOLEAN, NEW b \in BOOLEAN,
         Level(w, r) <= DEPTH,
         a => Level(w, r) # DEPTH,
         b => w # r
  PROVE  /\ Level(w, r) \in 0 .. DEPTH
         /\ Level(Step(w, a), Step(r, b)) =
              Level(w, r) + (IF a THEN 1 ELSE 0) - (IF b THEN 1 ELSE 0)
         /\ Level(Step(w, a), Step(r, b)) \in 0 .. DEPTH
BY DepthFact, SMT DEF Level, Step, Ptr

LEMMA VotedTypes ==
  ASSUME TypeOK, MaskedState
  PROVE  /\ wr_ptr \in Ptr /\ rd_ptr \in Ptr
         /\ level \in 0 .. DEPTH
         /\ head \in Slot /\ Idx(wr_ptr) \in Slot
<1>1. wr_ptr \in Ptr /\ rd_ptr \in Ptr
  BY VoteIsPointer DEF TypeOK, MaskedState, wr_ptr, rd_ptr
<1>2. level \in 0 .. DEPTH
  BY <1>1, DepthFact DEF MaskedState, level, Level, Ptr
<1>3. head \in Slot /\ Idx(wr_ptr) \in Slot
  BY <1>1, DepthFact DEF head, Idx, Ptr, Slot
<1>4. QED BY <1>1, <1>2, <1>3

(* The k-th slot after the head, as MaskedState's Occupied counts.          *)
Wrap(r, k) == IF Idx(r) + k < DEPTH THEN Idx(r) + k ELSE Idx(r) + k - DEPTH

(* An entry queued after an edge was queued before it, or is the one that  *)
(* this edge wrote.                                                        *)
LEMMA OccupiedStep ==
  ASSUME NEW w \in Ptr, NEW r \in Ptr, NEW a \in BOOLEAN, NEW b \in BOOLEAN,
         Level(w, r) <= DEPTH,
         a => Level(w, r) # DEPTH,
         b => w # r,
         NEW k \in 0 .. (Level(Step(w, a), Step(r, b)) - 1)
  PROVE  \/ \E j \in 0 .. (Level(w, r) - 1) : Wrap(Step(r, b), k) = Wrap(r, j)
         \/ a /\ Wrap(Step(r, b), k) = Idx(w)
<1> DEFINE j == IF b THEN k + 1 ELSE k
<1>1. /\ Level(w, r) \in 0 .. DEPTH
      /\ Level(Step(w, a), Step(r, b)) =
            Level(w, r) + (IF a THEN 1 ELSE 0) - (IF b THEN 1 ELSE 0)
  BY LevelStep
<1>2. j \in Nat /\ j <= Level(w, r) /\ (~a => j < Level(w, r))
  BY <1>1
<1>3. Wrap(Step(r, b), k) = Wrap(r, j)
  BY <1>1, <1>2, DepthFact DEF Wrap, Step, Idx, Ptr
<1>4. j = Level(w, r) => Wrap(r, j) = Idx(w)
  BY <1>1, DepthFact DEF Wrap, Idx, Ptr, Level
<1>5. QED BY <1>1, <1>2, <1>3, <1>4

LEMMA InitInv == Init => IInv
<1> SUFFICES ASSUME Init PROVE IInv
  OBVIOUS
<1>1. /\ wr \in [Replica -> Ptr] /\ rd \in [Replica -> Ptr]
      /\ Agree(wr) /\ Agree(rd) /\ TwoAgree(wr) /\ TwoAgree(rd)
      /\ wr_ptr = 0 /\ rd_ptr = 0
  BY DepthFact DEF Init, Replica, Ptr, Agree, TwoAgree, wr_ptr, rd_ptr, Vote
<1>2. TypeOK
  BY <1>1, DepthFact, FifoAssumption DEF FifoAssumption, Init, TypeOK, Rail
<1>3. level = 0
  BY <1>1 DEF level, Level
<1>4. ~rv_mismatch
  BY DEF Init, rv_mismatch, Rail
<1>5. MaskedState
  BY <1>1, <1>3, DepthFact DEF MaskedState, Occupied
<1>6. QED BY <1>1, <1>2, <1>4, <1>5 DEF IInv, Unstruck

LEMMA ClockInv ==
  ASSUME IInv, NEW wr_en \in BOOLEAN, NEW rd_en \in BOOLEAN,
         NEW drop_clr \in BOOLEAN, NEW w \in Data,
         Clock(wr_en, w, rd_en, drop_clr)
  PROVE  IInv'
<1> DEFINE a == wr_en /\ ~full
           b == rd_en /\ ~empty
<1>1. /\ wr_ptr \in Ptr /\ rd_ptr \in Ptr /\ level \in 0 .. DEPTH
      /\ head \in Slot /\ Idx(wr_ptr) \in Slot
  BY VotedTypes DEF IInv
<1>2. a \in BOOLEAN /\ b \in BOOLEAN
  BY DEF full, empty
<1>3. /\ Level(wr_ptr, rd_ptr) <= DEPTH
      /\ a => Level(wr_ptr, rd_ptr) # DEPTH
      /\ b => wr_ptr # rd_ptr
  BY <1>1 DEF level, full, empty
<1>4. Step(wr_ptr, a) \in Ptr /\ Step(rd_ptr, b) \in Ptr
  BY <1>1, <1>2, StepIsPointer
<1>5. /\ wr' = [r \in Replica |-> Step(wr_ptr, a)]
      /\ rd' = [r \in Replica |-> Step(rd_ptr, b)]
  BY DEF Clock, Pointers
<1>6. /\ wr' \in [Replica -> Ptr] /\ TwoAgree(wr') /\ Agree(wr')
      /\ rd' \in [Replica -> Ptr] /\ TwoAgree(rd') /\ Agree(rd')
      /\ wr_ptr' = Step(wr_ptr, a) /\ rd_ptr' = Step(rd_ptr, b)
  BY <1>4, <1>5, ReloadAgrees DEF wr_ptr, rd_ptr
<1>7. level' = Level(Step(wr_ptr, a), Step(rd_ptr, b)) /\ level' \in 0 .. DEPTH
  <2>1. level' = Level(Step(wr_ptr, a), Step(rd_ptr, b))
    BY <1>6 DEF level
  <2>2. QED BY <2>1, <1>1, <1>2, <1>3, LevelStep
<1>8. TypeOK'
  <2>1. /\ mem' \in [Slot -> Data] /\ par' \in [Slot -> {0, 1}]
        /\ sent' \in [Slot -> Data]
    BY <1>1, ParityType DEF Clock, Store, IInv, TypeOK
  <2>2. rdv' \in [Rail -> BOOLEAN] /\ rd_data' \in Data
    BY <1>1 DEF Clock, Answer, IInv, TypeOK, head_bad
  <2>3. drop_cnt' \in 0 .. DROP_MAX
    BY DepthFact DEF Clock, CountDrop, IInv, TypeOK
  <2>4. hit' = {}
    BY DEF Clock
  <2>5. QED BY <1>6, <2>1, <2>2, <2>3, <2>4 DEF TypeOK
<1>9. Unstruck'
  <2>1. ~rv_mismatch'
    BY DEF Clock, Answer, rv_mismatch, Rail
  <2>2. QED BY <2>1, <1>6 DEF Unstruck
<1>10. MaskedState'
  <2> SUFFICES ASSUME NEW s \in Slot, Occupied(s)'
               PROVE  Intact(s)' \/ Parity[mem'[s]] # par'[s]
    BY <1>6, <1>7, DepthFact DEF MaskedState
  <2>1. PICK k \in 0 .. (level' - 1) : s = Wrap(Step(rd_ptr, b), k)
    BY <1>6 DEF Occupied, head, Wrap
  <2>2. \/ \E j \in 0 .. (level - 1) : s = Wrap(rd_ptr, j)
        \/ a /\ s = Idx(wr_ptr)
    <3>1. k \in 0 .. (Level(Step(wr_ptr, a), Step(rd_ptr, b)) - 1)
      BY <1>7
    <3> HIDE DEF a, b
    <3>2. \/ \E j \in 0 .. (Level(wr_ptr, rd_ptr) - 1) :
               Wrap(Step(rd_ptr, b), k) = Wrap(rd_ptr, j)
          \/ a /\ Wrap(Step(rd_ptr, b), k) = Idx(wr_ptr)
      BY <3>1, <1>1, <1>2, <1>3, OccupiedStep
    <3>3. QED BY <2>1, <3>2 DEF level
  <2>3. CASE a /\ s = Idx(wr_ptr)
    BY <2>3, <1>1 DEF Clock, Store, Intact, IInv, TypeOK
  <2>4. CASE Occupied(s) /\ ~(a /\ s = Idx(wr_ptr))
    <3>1. mem'[s] = mem[s] /\ par'[s] = par[s] /\ sent'[s] = sent[s]
      BY <2>4, <1>1 DEF Clock, Store, IInv, TypeOK
    <3>2. QED BY <3>1, <2>4 DEF IInv, MaskedState, Intact
  <2>5. (\E j \in 0 .. (level - 1) : s = Wrap(rd_ptr, j)) => Occupied(s)
    BY DEF Occupied, Wrap, head
  <2>6. QED BY <2>2, <2>3, <2>4, <2>5
<1>11. QED BY <1>8, <1>9, <1>10 DEF IInv

LEMMA ResetInv ==
  ASSUME IInv, Reset
  PROVE  IInv'
<1>1. 0 \in Ptr
  BY DepthFact DEF Ptr
<1>2. /\ wr' \in [Replica -> Ptr] /\ rd' \in [Replica -> Ptr]
      /\ Agree(wr') /\ Agree(rd') /\ TwoAgree(wr') /\ TwoAgree(rd')
      /\ wr_ptr' = 0 /\ rd_ptr' = 0
  BY <1>1, ReloadAgrees DEF Reset, wr_ptr, rd_ptr
<1>3. TypeOK'
  BY <1>2, DepthFact, FifoAssumption DEF FifoAssumption, Reset, IInv, TypeOK, Rail
<1>4. level' = 0
  BY <1>2 DEF level, Level
<1>5. ~rv_mismatch'
  BY DEF Reset, rv_mismatch, Rail
<1>6. MaskedState'
  BY <1>2, <1>4, DepthFact DEF MaskedState, Occupied
<1>7. QED BY <1>2, <1>3, <1>5, <1>6 DEF IInv, Unstruck

LEMMA UpsetPointerInv ==
  ASSUME IInv, UpsetPointer
  PROVE  IInv' /\ Masked
<1>1. PICK r \in Replica, v \in Ptr :
        \/ /\ Strike("wr") /\ v # wr[r]
           /\ wr' = [wr EXCEPT ![r] = v]
           /\ UNCHANGED <<rd, mem, par, rdv, rd_data, drop_cnt, sent>>
        \/ /\ Strike("rd") /\ v # rd[r]
           /\ rd' = [rd EXCEPT ![r] = v]
           /\ UNCHANGED <<wr, mem, par, rdv, rd_data, drop_cnt, sent>>
  BY DEF UpsetPointer
<1>2. /\ wr' \in [Replica -> Ptr] /\ rd' \in [Replica -> Ptr]
      /\ TwoAgree(wr)' /\ TwoAgree(rd)'
      /\ wr_ptr' = wr_ptr /\ rd_ptr' = rd_ptr
      /\ (wr' # wr \/ rd' # rd) => ptr_mismatch'
      /\ "wr" \notin hit' => Agree(wr)'
      /\ "rd" \notin hit' => Agree(rd)'
      /\ hit' \subseteq {"wr", "rd", "rdv"} /\ ("rdv" \notin hit' => "rdv" \notin hit)
  <2>1. CASE /\ Strike("wr") /\ v # wr[r]
             /\ wr' = [wr EXCEPT ![r] = v]
             /\ rd' = rd
    <3>1. Agree(wr) /\ wr \in [Replica -> Ptr]
      BY <2>1 DEF IInv, Unstruck, TypeOK, Strike
    <3>2. /\ wr' \in [Replica -> Ptr] /\ TwoAgree(wr') /\ ~Agree(wr')
          /\ Vote(wr') = Vote(wr)
      BY <2>1, <3>1, StrikeOutvoted
    <3>3. hit' = hit \union {"wr"}
      BY <2>1 DEF Strike
    <3>4. QED BY <2>1, <3>2, <3>3
                 DEF wr_ptr, rd_ptr, ptr_mismatch, IInv, TypeOK, MaskedState, Unstruck
  <2>2. CASE /\ Strike("rd") /\ v # rd[r]
             /\ rd' = [rd EXCEPT ![r] = v]
             /\ wr' = wr
    <3>1. Agree(rd) /\ rd \in [Replica -> Ptr]
      BY <2>2 DEF IInv, Unstruck, TypeOK, Strike
    <3>2. /\ rd' \in [Replica -> Ptr] /\ TwoAgree(rd') /\ ~Agree(rd')
          /\ Vote(rd') = Vote(rd)
      BY <2>2, <3>1, StrikeOutvoted
    <3>3. hit' = hit \union {"rd"}
      BY <2>2 DEF Strike
    <3>4. QED BY <2>2, <3>2, <3>3
                 DEF wr_ptr, rd_ptr, ptr_mismatch, IInv, TypeOK, MaskedState, Unstruck
  <2>3. QED BY <1>1, <2>1, <2>2
<1>3. UNCHANGED <<mem, par, rdv, rd_data, drop_cnt, sent>>
  BY <1>1
<1>4. level' = level /\ head' = head
  BY <1>2 DEF level, head
<1>5. TypeOK'
  BY <1>2, <1>3 DEF IInv, TypeOK
<1>6. MaskedState'
  BY <1>2, <1>3, <1>4 DEF IInv, MaskedState, Occupied, Intact
<1>7. Unstruck'
  BY <1>2, <1>3 DEF IInv, Unstruck, rv_mismatch
<1>8. QED BY <1>2, <1>3, <1>4, <1>5, <1>6, <1>7
             DEF IInv, Masked, rd_valid

LEMMA UpsetRailInv ==
  ASSUME IInv, UpsetRail
  PROVE  IInv' /\ Masked
<1>1. PICK r \in Rail : rdv' = [rdv EXCEPT ![r] = ~@]
  BY DEF UpsetRail
<1>2. /\ UNCHANGED <<wr, rd, mem, par, rd_data, drop_cnt, sent>>
      /\ "rdv" \notin hit /\ hit' = hit \union {"rdv"}
  BY DEF UpsetRail, Strike
<1>3. rdv \in [Rail -> BOOLEAN] /\ rdv["a"] = rdv["b"]
  BY <1>2 DEF IInv, TypeOK, Unstruck, rv_mismatch
<1>4. /\ rdv' \in [Rail -> BOOLEAN]
      /\ rv_mismatch' /\ ~rd_valid'
  <2>1. CASE r = "a"
    BY <1>1, <1>3, <2>1 DEF rv_mismatch, rd_valid, Rail
  <2>2. CASE r = "b"
    BY <1>1, <1>3, <2>2 DEF rv_mismatch, rd_valid, Rail
  <2>3. QED BY <2>1, <2>2 DEF Rail
<1>5. wr_ptr' = wr_ptr /\ rd_ptr' = rd_ptr /\ level' = level /\ head' = head
  BY <1>2 DEF wr_ptr, rd_ptr, level, head
<1>6. TypeOK'
  BY <1>2, <1>4 DEF IInv, TypeOK
<1>7. MaskedState'
  BY <1>2, <1>5 DEF IInv, MaskedState, Occupied, Intact
<1>8. Unstruck'
  BY <1>2 DEF IInv, Unstruck
<1>9. QED BY <1>2, <1>4, <1>5, <1>6, <1>7, <1>8 DEF IInv, Masked

LEMMA UpsetEntryInv ==
  ASSUME IInv, UpsetEntry
  PROVE  IInv' /\ Masked
<1>1. PICK s \in Slot :
        /\ Intact(s)
        /\ \/ /\ \E d \in Data : /\ Parity[d] # Parity[mem[s]]
                                 /\ mem' = [mem EXCEPT ![s] = d]
              /\ UNCHANGED par
           \/ /\ par' = [par EXCEPT ![s] = 1 - @]
              /\ UNCHANGED mem
  BY DEF UpsetEntry
<1>2. UNCHANGED <<wr, rd, rdv, rd_data, drop_cnt, sent, hit>>
  BY DEF UpsetEntry
<1>3. wr_ptr' = wr_ptr /\ rd_ptr' = rd_ptr /\ level' = level /\ head' = head
  BY <1>2 DEF wr_ptr, rd_ptr, level, head
<1>4. /\ mem' \in [Slot -> Data] /\ par' \in [Slot -> {0, 1}]
      /\ Parity[mem'[s]] # par'[s]
      /\ \A t \in Slot \ {s} : mem'[t] = mem[t] /\ par'[t] = par[t]
  BY <1>1, ParityType DEF IInv, TypeOK, Intact
<1>5. TypeOK'
  BY <1>2, <1>4 DEF IInv, TypeOK
<1>6. MaskedState'
  <2> SUFFICES ASSUME NEW t \in Slot, Occupied(t)'
               PROVE  Intact(t)' \/ Parity[mem'[t]] # par'[t]
    BY <1>2, <1>3 DEF IInv, MaskedState
  <2>1. Occupied(t)
    BY <1>3 DEF Occupied
  <2>2. QED BY <2>1, <1>2, <1>4 DEF IInv, MaskedState, Intact
<1>7. Unstruck'
  BY <1>2 DEF IInv, Unstruck, rv_mismatch
<1>8. QED BY <1>2, <1>3, <1>5, <1>6, <1>7 DEF IInv, Masked, rd_valid

LEMMA NextInv == IInv /\ [Next]_vars => IInv'
<1> SUFFICES ASSUME IInv, [Next]_vars PROVE IInv'
  OBVIOUS
<1>1. CASE Upset
  BY <1>1, UpsetPointerInv, UpsetRailInv, UpsetEntryInv DEF Upset
<1>2. CASE \E wr_en, rd_en, drop_clr \in BOOLEAN, w \in Data :
             Clock(wr_en, w, rd_en, drop_clr)
  BY <1>2, ClockInv
<1>3. CASE Reset
  BY <1>3, ResetInv
<1>4. CASE UNCHANGED vars
  BY <1>4 DEF vars, IInv, TypeOK, MaskedState, Unstruck, TwoAgree, Agree, level,
              wr_ptr, rd_ptr, Occupied, head, Intact, rv_mismatch
<1>5. QED BY <1>1, <1>2, <1>3, <1>4 DEF Next

LEMMA SpecInv == Spec => []IInv
BY InitInv, NextInv, PTL DEF Spec

(* Every register of the FIFO keeps its range, at every depth: the counter *)
(* never passes its saturation value and no pointer leaves 0..2*DEPTH-1.   *)
THEOREM TypeCorrect == Spec => []TypeOK
<1>1. IInv => TypeOK
  BY DEF IInv
<1>2. QED BY <1>1, SpecInv, PTL

(* No sequence of edges and upsets, at most one strike per pointer between *)
(* two edges, outvotes a pointer, overfills the queue, or leaves a queued  *)
(* word altered without a failing parity check (the voted write-back of    *)
(* aer_fifo.v's pointer banks).                                            *)
THEOREM UpsetsDoNotAccumulate == Spec => []MaskedState
<1>1. IInv => MaskedState
  BY DEF IInv
<1>2. QED BY <1>1, SpecInv, PTL

(* An upset moves neither occupancy nor head, invents no answer, and shows *)
(* on ptr_mismatch or rv_mismatch in the cycle it strikes.                 *)
THEOREM PortsUndisturbed == Spec => UpsetsMasked
<1>1. IInv /\ [Next]_vars => [Upset => Masked]_vars
  BY UpsetPointerInv, UpsetRailInv, UpsetEntryInv DEF Upset
<1>2. QED BY <1>1, SpecInv, PTL DEF Spec, UpsetsMasked

-----------------------------------------------------------------------------
(* The refinement mapping, by name.                                        *)
Entry     == [word : Data, intact : BOOLEAN]
QEntry(k) == [word |-> sent[At(k)], intact |-> Intact(At(k))]
Queue  == [k \in 1 .. level |-> QEntry(k)]
Shown  == IF rd_valid THEN <<rd_data>> ELSE <<>>

QueueShape ==
  /\ level \in 0 .. DEPTH
  /\ Queue \in Seq(Entry)
  /\ Len(Queue) = level
  /\ \A k \in 1 .. level : At(k) \in Slot /\ Queue[k] = QEntry(k)

LEMMA QueueSeq == IInv => QueueShape
<1> SUFFICES ASSUME IInv PROVE QueueShape
  OBVIOUS
<1>1. level \in 0 .. DEPTH /\ head \in Slot
  BY VotedTypes DEF IInv
<1>2. \A k \in 1 .. level : At(k) \in Slot
  BY <1>1, DepthFact DEF At, Slot
<1>3. \A k \in 1 .. level : QEntry(k) \in Entry
  BY <1>2 DEF Entry, QEntry, Intact, IInv, TypeOK
<1>4. Queue \in Seq(Entry) /\ Len(Queue) = level
  BY <1>1, <1>3 DEF Queue
<1>5. QED BY <1>1, <1>2, <1>4 DEF QueueShape, Queue

(* Two queued entries never share a slot.                                  *)
LEMMA AtInjective ==
  ASSUME IInv, NEW i \in 1 .. level, NEW k \in 1 .. level, At(i) = At(k)
  PROVE  i = k
<1>1. level \in 0 .. DEPTH /\ head \in Slot
  BY VotedTypes DEF IInv
<1>2. QED BY <1>1, DepthFact DEF At, Slot

LEMMA InitRefines == Init => EQ!Init
<1> SUFFICES ASSUME Init PROVE EQ!Init
  OBVIOUS
<1>1. IInv
  BY InitInv
<1>2. level = 0
  BY DepthFact DEF Init, level, wr_ptr, rd_ptr, Vote, Level, Replica
<1>3. Queue = <<>>
  BY <1>1, <1>2, QueueSeq DEF QueueShape
<1>4. Shown = <<>>
  BY DEF Init, Shown, rd_valid, Rail
<1>5. QED BY <1>3, <1>4 DEF EQ!Init, Init, Queue, QEntry, Shown

LEMMA ResetRefines ==
  ASSUME IInv, Reset
  PROVE  EQ!Next
<1>1. level' = 0
  BY DepthFact DEF Reset, level, wr_ptr, rd_ptr, Vote, Level, Replica
<1>2. QueueShape'
  <2>1. IInv'
    BY ResetInv
  <2>2. IInv' => QueueShape'
    BY QueueSeq, PTL
  <2>3. QED BY <2>1, <2>2
<1>3. Queue' = <<>>
  BY <1>1, <1>2, EmptySeq DEF QueueShape
<1>4. Shown' = <<>> /\ drop_cnt' = 0
  BY DEF Reset, Shown, rd_valid, Rail
<1>5. EQ!Reset
  BY <1>3, <1>4 DEF EQ!Reset, Queue, QEntry, Shown
<1>6. QED BY <1>5 DEF EQ!Next

LEMMA PointerRefines ==
  ASSUME IInv, UpsetPointer
  PROVE  UNCHANGED EQ!queueVars
<1>1. level' = level /\ head' = head
  BY UpsetPointerInv DEF Masked
<1>2. UNCHANGED <<mem, par, rdv, rd_data, drop_cnt, sent>>
  BY DEF UpsetPointer
<1>3. QED BY <1>1, <1>2 DEF EQ!queueVars, At, Intact, rd_valid

LEMMA RailRefines ==
  ASSUME IInv, UpsetRail
  PROVE  EQ!Next
<1>1. level' = level /\ head' = head /\ IInv' /\ rv_mismatch'
  <2>1. IInv' /\ Masked
    BY UpsetRailInv
  <2>2. rdv' # rdv
    BY DEF UpsetRail, IInv, TypeOK, Rail
  <2>3. QED BY <2>1, <2>2 DEF Masked
<1>2. UNCHANGED <<mem, par, rd_data, drop_cnt, sent>>
  BY DEF UpsetRail
<1>3. ~rd_valid'
  BY <1>1 DEF rd_valid, rv_mismatch, IInv, TypeOK, Rail
<1>4. EQ!Miss
  BY <1>1, <1>2, <1>3 DEF EQ!Miss, At, Intact
<1>5. QED BY <1>4 DEF EQ!Next

LEMMA EntryRefines ==
  ASSUME IInv, UpsetEntry
  PROVE  EQ!Next \/ UNCHANGED EQ!queueVars
<1>1. /\ IInv' /\ level' = level /\ head' = head
      /\ UNCHANGED <<rdv, rd_data, drop_cnt, sent>>
  BY UpsetEntryInv DEF Masked, UpsetEntry
<1>2. PICK s \in Slot :
        /\ Intact(s)
        /\ \/ /\ \E d \in Data : /\ Parity[d] # Parity[mem[s]]
                                 /\ mem' = [mem EXCEPT ![s] = d]
              /\ UNCHANGED par
           \/ /\ par' = [par EXCEPT ![s] = 1 - @]
              /\ UNCHANGED mem
  BY DEF UpsetEntry
<1>3. /\ ~Intact(s)'
      /\ \A t \in Slot \ {s} : mem'[t] = mem[t] /\ par'[t] = par[t]
  BY <1>1, <1>2, ParityType DEF IInv, TypeOK, Intact
<1>4. \A k \in 1 .. level : At(k)' = At(k)
  BY <1>1 DEF At
<1>5. \A k \in 1 .. level :
         QEntry(k)' = IF At(k) = s THEN [QEntry(k) EXCEPT !.intact = FALSE]
                                   ELSE QEntry(k)
  <2> SUFFICES ASSUME NEW k \in 1 .. level
               PROVE  QEntry(k)' = IF At(k) = s THEN [QEntry(k) EXCEPT !.intact = FALSE]
                                                ELSE QEntry(k)
    OBVIOUS
  <2>1. At(k) \in Slot /\ At(k)' = At(k)
    BY <1>4, QueueSeq DEF QueueShape
  <2>2. CASE At(k) = s
    <3>1. Intact(At(k))' = FALSE
      BY <2>1, <2>2, <1>3 DEF Intact
    <3>2. QED BY <2>1, <2>2, <3>1, <1>1 DEF QEntry
  <2>3. CASE At(k) # s
    <3>1. Intact(At(k))' = Intact(At(k))
      BY <2>1, <2>3, <1>1, <1>3 DEF Intact
    <3>2. QED BY <2>1, <2>3, <3>1, <1>1 DEF QEntry
  <2>4. QED BY <2>2, <2>3
<1>6. CASE \E i \in 1 .. level : At(i) = s
  <2>1. PICK i \in 1 .. level : At(i) = s
    BY <1>6
  <2>2. \A k \in 1 .. level : At(k) = s <=> k = i
    BY <2>1, AtInjective
  <2>3. Queue' = [Queue EXCEPT ![i].intact = FALSE]
    BY <1>1, <1>5, <2>2, QueueSeq DEF Queue, QueueShape
  <2>4. i \in DOMAIN Queue
    BY DEF Queue
  <2>5. EQ!Damage(i)
    BY <1>1, <2>3 DEF EQ!Damage, Queue, QEntry, rd_valid
  <2>6. QED BY <2>4, <2>5 DEF EQ!Next, Queue, QEntry
<1>7. CASE ~ \E i \in 1 .. level : At(i) = s
  <2>1. Queue' = Queue
    BY <1>1, <1>5, <1>7 DEF Queue
  <2>2. UNCHANGED EQ!queueVars
    BY <2>1, <1>1 DEF EQ!queueVars, Queue, QEntry, rd_valid
  <2>3. QED BY <2>2
<1>8. QED BY <1>6, <1>7

(* Where the k-th entry after an edge was before it: one place further if  *)
(* the head was read, in the write slot if it is the newest.  The write    *)
(* slot holds no older entry.                                              *)
LEMMA WrapStep ==
  ASSUME NEW w \in Ptr, NEW r \in Ptr, NEW a \in BOOLEAN, NEW b \in BOOLEAN,
         Level(w, r) <= DEPTH,
         a => Level(w, r) # DEPTH,
         b => w # r,
         NEW k \in 1 .. Level(Step(w, a), Step(r, b))
  PROVE  LET j == IF b THEN k + 1 ELSE k IN
           \/ /\ j \in 1 .. Level(w, r)
              /\ Wrap(Step(r, b), k - 1) = Wrap(r, j - 1)
              /\ a => Wrap(r, j - 1) # Idx(w)
           \/ /\ a /\ j = Level(w, r) + 1
              /\ Wrap(Step(r, b), k - 1) = Idx(w)
<1> DEFINE j == IF b THEN k + 1 ELSE k
<1>1. /\ Level(w, r) \in 0 .. DEPTH
      /\ Level(Step(w, a), Step(r, b)) =
            Level(w, r) + (IF a THEN 1 ELSE 0) - (IF b THEN 1 ELSE 0)
  BY LevelStep
<1>2. /\ j \in 1 .. (Level(w, r) + 1)
      /\ j = Level(w, r) + 1 => a
  BY <1>1
<1>3. Wrap(Step(r, b), k - 1) = Wrap(r, j - 1)
  BY <1>1, <1>2, DepthFact DEF Wrap, Step, Idx, Ptr
<1>4. j = Level(w, r) + 1 => Wrap(r, j - 1) = Idx(w)
  BY <1>1, DepthFact DEF Wrap, Idx, Ptr, Level
<1>5. a /\ j <= Level(w, r) => Wrap(r, j - 1) # Idx(w)
  BY <1>1, <1>2, DepthFact DEF Wrap, Idx, Ptr, Level
<1>6. QED BY <1>1, <1>2, <1>3, <1>4, <1>5

LEMMA LevelZero ==
  ASSUME NEW w \in Ptr, NEW r \in Ptr
  PROVE  Level(w, r) = 0 <=> w = r
BY DepthFact DEF Level, Ptr

LEMMA ClockRefines ==
  ASSUME IInv, NEW wr_en \in BOOLEAN, NEW rd_en \in BOOLEAN,
         NEW drop_clr \in BOOLEAN, NEW w \in Data,
         Clock(wr_en, w, rd_en, drop_clr)
  PROVE  EQ!Next
<1> DEFINE a  == wr_en /\ ~full
           b  == rd_en /\ ~empty
           e  == [word |-> w, intact |-> TRUE]
           in == IF wr_en THEN <<e>> ELSE <<>>
           new == IF level < DEPTH THEN in ELSE <<>>
           old == IF rd_en /\ Queue # <<>> THEN Tail(Queue) ELSE Queue
<1>1. /\ wr_ptr \in Ptr /\ rd_ptr \in Ptr /\ level \in 0 .. DEPTH
      /\ head \in Slot /\ Idx(wr_ptr) \in Slot /\ IInv'
  BY VotedTypes, ClockInv DEF IInv
<1>2. a \in BOOLEAN /\ b \in BOOLEAN
  BY DEF full, empty
<1>3. /\ Level(wr_ptr, rd_ptr) <= DEPTH
      /\ a => Level(wr_ptr, rd_ptr) # DEPTH
      /\ b => wr_ptr # rd_ptr
  BY <1>1 DEF level, full, empty
<1>4. wr_ptr' = Step(wr_ptr, a) /\ rd_ptr' = Step(rd_ptr, b) /\ rd_ptr' \in Ptr
  <2>1. Step(wr_ptr, a) \in Ptr /\ Step(rd_ptr, b) \in Ptr
    BY <1>1, <1>2, StepIsPointer
  <2>2. /\ wr' = [r \in Replica |-> Step(wr_ptr, a)]
        /\ rd' = [r \in Replica |-> Step(rd_ptr, b)]
    BY DEF Clock, Pointers
  <2>3. QED BY <2>1, <2>2, ReloadAgrees DEF wr_ptr, rd_ptr
<1>5. /\ level' = Level(Step(wr_ptr, a), Step(rd_ptr, b))
      /\ level' = level + (IF a THEN 1 ELSE 0) - (IF b THEN 1 ELSE 0)
  <2> HIDE DEF a, b
  <2>1. level' = Level(Step(wr_ptr, a), Step(rd_ptr, b))
    BY <1>4 DEF level
  <2>2. QED BY <2>1, <1>1, <1>2, <1>3, LevelStep DEF level
<1>6. /\ a <=> wr_en /\ level < DEPTH
      /\ b <=> rd_en /\ Queue # <<>>
  <2>1. Queue # <<>> <=> level # 0
    BY QueueSeq DEF QueueShape
  <2>2. level = 0 <=> wr_ptr = rd_ptr
    BY <1>1, LevelZero DEF level
  <2>3. full <=> ~(level < DEPTH)
    BY <1>1, DepthFact DEF full
  <2>4. empty <=> Queue = <<>>
    BY <2>1, <2>2 DEF empty
  <2>5. QED BY <2>3, <2>4
<1>7. \A k \in 1 .. level' :
         LET j == IF b THEN k + 1 ELSE k IN
           \/ /\ j \in 1 .. level
              /\ At(k)' = At(j) /\ (a => At(j) # Idx(wr_ptr))
           \/ /\ a /\ j = level + 1
              /\ At(k)' = Idx(wr_ptr)
  <2> HIDE DEF a, b
  <2>1. \A k \in Int : At(k) = Wrap(rd_ptr, k - 1) /\ At(k)' = Wrap(rd_ptr', k - 1)
    BY <1>1, <1>4, DepthFact DEF At, Wrap, head, Idx, Ptr
  <2> SUFFICES ASSUME NEW k \in 1 .. level'
               PROVE  LET j == IF b THEN k + 1 ELSE k IN
                        \/ /\ j \in 1 .. level
                           /\ At(k)' = At(j) /\ (a => At(j) # Idx(wr_ptr))
                        \/ /\ a /\ j = level + 1
                           /\ At(k)' = Idx(wr_ptr)
    OBVIOUS
  <2>2. k \in 1 .. Level(Step(wr_ptr, a), Step(rd_ptr, b))
    BY <1>5
  <2>3. LET j == IF b THEN k + 1 ELSE k IN
           \/ /\ j \in 1 .. Level(wr_ptr, rd_ptr)
              /\ Wrap(Step(rd_ptr, b), k - 1) = Wrap(rd_ptr, j - 1)
              /\ a => Wrap(rd_ptr, j - 1) # Idx(wr_ptr)
           \/ /\ a /\ j = Level(wr_ptr, rd_ptr) + 1
              /\ Wrap(Step(rd_ptr, b), k - 1) = Idx(wr_ptr)
    BY <2>2, <1>1, <1>2, <1>3, WrapStep
  <2>4. k \in Int /\ k + 1 \in Int
    BY <1>1, <1>2, <1>5
  <2>5. QED BY <2>1, <2>3, <2>4, <1>4 DEF level
<1>8. \A k \in 1 .. level' :
         LET j == IF b THEN k + 1 ELSE k IN
           QEntry(k)' = IF j \in 1 .. level THEN QEntry(j)
                        ELSE [word |-> w, intact |-> TRUE]
  <2> SUFFICES ASSUME NEW k \in 1 .. level', NEW j, j = IF b THEN k + 1 ELSE k
               PROVE  QEntry(k)' = IF j \in 1 .. level THEN QEntry(j)
                                   ELSE [word |-> w, intact |-> TRUE]
    OBVIOUS
  <2>1. CASE /\ j \in 1 .. level
             /\ At(k)' = At(j) /\ (a => At(j) # Idx(wr_ptr))
    <3>1. At(j) \in Slot
      BY <2>1, QueueSeq DEF QueueShape
    <3>2. sent'[At(j)] = sent[At(j)] /\ mem'[At(j)] = mem[At(j)] /\ par'[At(j)] = par[At(j)]
      BY <2>1, <3>1, <1>1 DEF Clock, Store, IInv, TypeOK
    <3>3. QED BY <2>1, <3>2 DEF QEntry, Intact
  <2>2. CASE a /\ j = level + 1 /\ At(k)' = Idx(wr_ptr)
    <3>1. /\ sent'[Idx(wr_ptr)] = w /\ mem'[Idx(wr_ptr)] = w
          /\ par'[Idx(wr_ptr)] = Parity[w]
      BY <2>2, <1>1 DEF Clock, Store, IInv, TypeOK
    <3>2. QEntry(k)' = [word |-> w, intact |-> TRUE]
      BY <2>2, <3>1 DEF QEntry, Intact
    <3>3. j \notin 1 .. level
      BY <2>2, <1>1
    <3>4. QED BY <3>2, <3>3
  <2> HIDE DEF a, b
  <2>3. QED BY <2>1, <2>2, <1>7
<1>9. Queue' = old \o new
  <2>1. /\ old \in Seq(Entry)
        /\ Len(old) = (IF b THEN level - 1 ELSE level)
        /\ \A k \in 1 .. Len(old) : old[k] = QEntry(IF b THEN k + 1 ELSE k)
    BY <1>1, <1>6, QueueSeq DEF QueueShape
  <2>2. /\ new \in Seq(Entry)
        /\ Len(new) = (IF a THEN 1 ELSE 0)
        /\ a => new[1] = [word |-> w, intact |-> TRUE]
    <3>1. CASE a
      <4>1. new = <<e>>
        BY <3>1, <1>6
      <4>2. e \in Entry
        BY DEF Entry
      <4> HIDE DEF new, a, e
      <4>3. QED BY <3>1, <4>1, <4>2 DEF e
    <3>2. CASE ~a
      <4>1. new = <<>>
        BY <3>2, <1>6
      <4> HIDE DEF new, a
      <4>2. QED BY <3>2, <4>1
    <3>3. QED BY <3>1, <3>2
  <2> HIDE DEF a, b, old, new
  <2>3. /\ old \o new \in Seq(Entry)
        /\ Len(old \o new) = Len(old) + Len(new)
        /\ \A k \in 1 .. (Len(old) + Len(new)) :
              (old \o new)[k] = IF k <= Len(old) THEN old[k] ELSE new[k - Len(old)]
    BY <2>1, <2>2, ConcatProperties
  <2>4. Len(old) + Len(new) = level'
    BY <2>1, <2>2, <1>1, <1>2, <1>5
  <2>5. ASSUME NEW k \in 1 .. level'
        PROVE  QEntry(k)' = IF k <= Len(old) THEN old[k] ELSE new[k - Len(old)]
    <3>1. CASE k <= Len(old)
      <4>1. (IF b THEN k + 1 ELSE k) \in 1 .. level
        BY <3>1, <2>1, <1>1, <1>2, <1>5
      <4>2. QED BY <3>1, <4>1, <2>1, <1>1, <1>2, <1>8
    <3>2. CASE ~(k <= Len(old))
      <4>1. a /\ k - Len(old) = 1 /\ (IF b THEN k + 1 ELSE k) \notin 1 .. level
        BY <3>2, <2>1, <1>1, <1>2, <1>5
      <4>2. QED BY <3>2, <4>1, <2>2, <1>8
    <3>3. QED BY <3>1, <3>2
  <2>6. /\ Queue' \in Seq(Entry) /\ Len(Queue') = level'
        /\ \A k \in 1 .. level' : Queue'[k] = QEntry(k)'
    <3>1. IInv' => QueueShape'
      BY QueueSeq, PTL
    <3>2. QED BY <3>1, <1>1 DEF QueueShape
  <2>7. QED BY <2>3, <2>4, <2>5, <2>6, SeqEqual
<1>10. Shown' = IF rd_en /\ Queue # <<>> /\ Head(Queue).intact
                THEN <<Head(Queue).word>> ELSE <<>>
  <2>1. rd_valid' = (b /\ ~head_bad)
    BY DEF Clock, Answer, rd_valid, Rail
  <2>2. b => rd_data' = mem[head]
    BY DEF Clock, Answer
  <2>3. b => /\ level \in 1 .. DEPTH /\ At(1) = head /\ Head(Queue) = QEntry(1)
             /\ Occupied(head)
    <3>1. b => level \in 1 .. DEPTH
      BY <1>1, <1>6, QueueSeq DEF QueueShape
    <3>2. At(1) = head
      BY <1>1, DepthFact DEF At, Slot
    <3>3. level \in 1 .. DEPTH => Occupied(head)
      BY <1>1, DepthFact DEF Occupied, Slot
    <3>4. b => Head(Queue) = QEntry(1)
      BY <3>1, QueueSeq DEF QueueShape
    <3>5. QED BY <3>1, <3>2, <3>3, <3>4
  <2>4. b => (Intact(head) <=> ~head_bad)
    BY <2>3, <1>1 DEF IInv, MaskedState, Intact, head_bad
  <2>5. Intact(head) => mem[head] = sent[head]
    BY DEF Intact
  <2>6. b <=> rd_en /\ Queue # <<>>
    BY <1>6
  <2>7. b => Head(Queue).word = sent[head] /\ (Head(Queue).intact <=> Intact(head))
    BY <2>3 DEF QEntry
  <2> HIDE DEF a, b
  <2>8. CASE b /\ Intact(head)
    BY <2>1, <2>2, <2>4, <2>5, <2>6, <2>7, <2>8 DEF Shown
  <2>9. CASE ~(b /\ Intact(head))
    BY <2>1, <2>4, <2>6, <2>7, <2>9 DEF Shown
  <2>10. QED BY <2>8, <2>9
<1>11. drop_cnt' = LET base == IF drop_clr THEN 0 ELSE drop_cnt
                   IN  IF in # <<>> /\ ~(level < DEPTH)
                       THEN (IF base = DROP_MAX THEN base ELSE base + 1) ELSE base
  <2>1. in # <<>> <=> wr_en
    OBVIOUS
  <2>2. full <=> ~(level < DEPTH)
    BY <1>1, DepthFact DEF full
  <2>3. QED BY <2>1, <2>2, DepthFact DEF Clock, CountDrop
<1>12. EQ!Cycle(in, rd_en, drop_clr)
  <2>1. Len(Queue) = level
    BY QueueSeq DEF QueueShape
  <2>2. QED BY <1>9, <1>10, <1>11, <2>1 DEF EQ!Cycle, EQ!Bump, Queue, QEntry, Shown
<1>13. in \in {<<>>} \union {<<EQ!Fresh(d)>> : d \in Data}
  BY DEF EQ!Fresh
<1>14. QED BY <1>12, <1>13 DEF EQ!Next

(* Under any interleaving of writes, reads, counter clears and masked      *)
(* upsets the FIFO's ports behave as the promised queue: each accepted     *)
(* word is answered once and in order or reported lost, none is invented,  *)
(* duplicated or altered, and every refused write is counted.              *)
THEOREM FifoIsQueue == Spec => ImplementsQueue
<1>1. Init => EQ!Init
  BY InitRefines
<1>2. IInv /\ [Next]_vars => [EQ!Next]_EQ!queueVars
  <2> SUFFICES ASSUME IInv, [Next]_vars PROVE [EQ!Next]_EQ!queueVars
    OBVIOUS
  <2>1. CASE Upset
    BY <2>1, PointerRefines, RailRefines, EntryRefines DEF Upset
  <2>2. CASE \E wr_en, rd_en, drop_clr \in BOOLEAN, w \in Data :
               Clock(wr_en, w, rd_en, drop_clr)
    BY <2>2, ClockRefines
  <2>3. CASE Reset
    BY <2>3, ResetRefines
  <2>4. CASE UNCHANGED vars
    BY <2>4 DEF vars, EQ!queueVars, level, wr_ptr, rd_ptr, head, At, Intact, rd_valid
  <2>5. QED BY <2>1, <2>2, <2>3, <2>4 DEF Next
<1>3. QED BY <1>1, <1>2, SpecInv, PTL DEF Spec, ImplementsQueue, EQ!Spec

=============================================================================
