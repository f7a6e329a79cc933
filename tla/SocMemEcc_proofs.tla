-------------------------- MODULE SocMemEcc_proofs --------------------------
(***************************************************************************)
(* For every number of rows, lanes, values, upsets and resets and every    *)
(* scrub interval: the state is well typed, every repair is explained by   *)
(* an upset, and, as long as no upset makes the scrubber examine a row it  *)
(* did not read, the memory implements SafeMemory step by step.            *)
(***************************************************************************)
EXTENDS SocMemEcc, Integers, FiniteSetTheorems, TLAPS

(* The reset state, with every byte written once, is well typed.           *)
LEMMA InitType == Init => TypeOK
<1> SUFFICES ASSUME Init PROVE TypeOK
  OBVIOUS
<1>1. Encode(Blank) \in Codeword
  BY MemAssumption DEF Encode, Codeword
<1>2. row_dout \in [Lanes -> Codeword]
  BY <1>1 DEF Init
<1>3. mem \in [Rows -> [Lanes -> Codeword]]
  BY <1>2 DEF Init
<1>4. 0 \in Rows
  BY MemAssumption DEF Rows
<1>5. ivl_q \in Intervals \cup {IVL_RST}
  BY DEF Init
<1>6. stick \in Nat /\ repairs \in Nat /\ upsets \in 0 .. MaxUpsets /\ resets \in 0 .. MaxResets
  BY MemAssumption DEF Init
<1>7. rv0 \in BOOLEAN /\ er0 \in BOOLEAN /\ rd0 \in BOOLEAN /\ srd_q \in BOOLEAN /\ en_q \in BOOLEAN
  BY DEF Init
<1>8. row_q \in Rows /\ sptr \in Rows
  BY <1>4 DEF Init
<1> QED BY <1>2, <1>3, <1>5, <1>6, <1>7, <1>8 DEF TypeOK

(* What the port makes of a request: where it points the row port, and     *)
(* that a write-back happens only in a cycle without one.                  *)
LEMMA Request ==
  ASSUME TypeOK, NEW q \in Requests \cup {None}
  PROVE  /\ req_i(q) \in BOOLEAN /\ (req_i(q) <=> q \in Requests)
         /\ (req_i(q) => q.row \in Rows)
         /\ (q = None => q.kind = "none" /\ ~do_write(q))
         /\ (q \in Requests => q.kind \in {"read", "write"})
         /\ (do_write(q) => q.kind = "write" /\ q.be \subseteq Lanes /\ q.data \in Values)
         /\ row_addr(q) \in Rows
         /\ (s_wb(q) => q = None /\ srd_q /\ row_addr(q) = sptr)
<1>1. CASE q = None
  BY <1>1 DEF req_i, do_write, None, Requests, row_addr, s_wb, s_hit, TypeOK
<1>2. CASE q \in Requests
  <2>1. q.kind \in {"read", "write"} /\ q.row \in Rows
        /\ (q.kind = "write" => q.be \subseteq Lanes /\ q.data \in Values)
    BY <1>2, MemAssumption DEF Requests
  <2>2. q # None
    BY <2>1 DEF None
  <2> QED BY <2>1, <2>2, <1>2 DEF req_i, do_write, row_addr, s_wb, s_hit
<1> QED BY <1>1, <1>2

(* What a rising edge leaves in each cell: the bus's bytes, else the       *)
(* repaired byte, else what was there.                                     *)
LEMMA Store ==
  ASSUME TypeOK, NEW q \in Requests \cup {None}, RowPort(q),
         NEW r \in Rows, NEW l \in Lanes
  PROVE  mem'[r][l] = IF do_write(q) /\ r = q.row /\ l \in q.be THEN Encode(q.data)
                      ELSE IF s_wb(q) /\ r = sptr /\ l \in sec THEN Encode(row_dout[l].val)
                      ELSE mem[r][l]
<1>1. mem \in [Rows -> [Lanes -> Codeword]] /\ row_addr(q) \in Rows
  BY Request DEF TypeOK
<1>2. CASE ~row_we(q)
  BY <1>2 DEF RowPort, row_we
<1>3. CASE do_write(q)
  <2>1. mem' = [mem EXCEPT ![q.row] = [n \in Lanes |-> IF n \in q.be THEN Encode(q.data) ELSE @[n]]]
    BY <1>3, Request DEF RowPort, row_we, row_addr, row_bm, row_din
  <2>2. q.row \in Rows /\ ~s_wb(q)
    BY <1>3, Request, <1>1
  <2> QED BY <2>1, <2>2, <1>1, <1>3
<1>4. CASE ~do_write(q) /\ s_wb(q)
  <2>1. mem' = [mem EXCEPT ![sptr] = [n \in Lanes |-> IF n \in sec THEN Encode(rd_word[n]) ELSE @[n]]]
    BY <1>4, Request DEF RowPort, row_we, row_bm, bm_wb, row_din
  <2>2. l \in sec => rd_word[l] = row_dout[l].val
    BY DEF rd_word, sec, ded
  <2>3. sptr \in Rows
    BY DEF TypeOK
  <2> QED BY <2>1, <2>2, <2>3, <1>1, <1>4
<1> QED BY <1>2, <1>3, <1>4 DEF row_we

(* An edge, whatever the bus asks and the scrubber does, keeps every cell  *)
(* a codeword and the pointer on a row.                                    *)
LEMMA ClockType ==
  ASSUME TypeOK, NEW q \in Requests \cup {None}, Clock(q)
  PROVE  TypeOK'
<1>1. RowPort(q) /\ Response(q) /\ Scrub(q)
  BY DEF Clock
<1>2. mem' \in [Rows -> [Lanes -> Codeword]]
  <2>1. \A r \in Rows, l \in Lanes : mem'[r][l] \in Codeword
    <3> SUFFICES ASSUME NEW r \in Rows, NEW l \in Lanes
                 PROVE  mem'[r][l] \in Codeword
      OBVIOUS
    <3>1. mem[r][l] \in Codeword /\ row_dout[l].val \in Values
      BY DEF TypeOK, Codeword
    <3>2. \A v \in Values : Encode(v) \in Codeword
      BY DEF Encode, Codeword
    <3> QED BY <3>1, <3>2, <1>1, Store, Request
  <2>2. mem' = [r \in Rows |-> [l \in Lanes |-> mem'[r][l]]]
    <3>1. mem = [r \in Rows |-> [l \in Lanes |-> mem[r][l]]]
      BY DEF TypeOK
    <3>2. CASE ~row_we(q)
      BY <3>1, <3>2, <1>1 DEF RowPort
    <3>3. CASE row_we(q)
      <4>1. row_addr(q) \in Rows
        BY Request
      <4>2. mem' = [mem EXCEPT ![row_addr(q)] =
                      [l \in Lanes |-> IF l \in row_bm(q) THEN row_din(q)[l] ELSE @[l]]]
        BY <3>3, <1>1 DEF RowPort
      <4> QED BY <4>1, <4>2 DEF TypeOK
    <3> QED BY <3>2, <3>3
  <2> QED BY <2>1, <2>2
<1>3. row_dout' \in [Lanes -> Codeword]
  <2>1. row_addr(q) \in Rows
    BY Request
  <2> QED BY <2>1, <1>1 DEF RowPort, TypeOK
<1>4. rv0' \in BOOLEAN /\ er0' \in BOOLEAN /\ rd0' \in BOOLEAN /\ row_q' \in Rows
  BY <1>1, Request DEF Response, TypeOK, req_i
<1>5. srd_q' \in BOOLEAN
  BY <1>1 DEF Scrub, s_go, TypeOK, req_i, s_due
<1>6. stick' \in Nat
  <2>1. stick \in Nat /\ ivl_q \in Nat
    BY MemAssumption DEF TypeOK
  <2> QED BY <2>1, <1>1 DEF Scrub
<1>7. sptr' \in Rows
  <2>1. sptr \in Rows /\ sptr + 1 \in Nat /\ WORDS \in Nat /\ WORDS > 0
    BY MemAssumption DEF TypeOK, Rows
  <2>2. (sptr + 1) % WORDS \in 0 .. WORDS - 1
    BY <2>1
  <2> QED BY <2>1, <2>2, <1>1 DEF Scrub, Rows
<1>8. en_q' \in BOOLEAN /\ ivl_q' \in Intervals \cup {IVL_RST}
  BY DEF Clock, control, TypeOK
<1>9. repairs' \in Nat /\ upsets' \in 0 .. MaxUpsets /\ resets' \in 0 .. MaxResets
  BY DEF Clock, TypeOK
<1> QED BY <1>2, <1>3, <1>4, <1>5, <1>6, <1>7, <1>8, <1>9 DEF TypeOK

(* An upset makes a codeword a codeword of at most two wrong bits.         *)
LEMMA UpsetType == TypeOK /\ Upset => TypeOK'
<1> SUFFICES ASSUME TypeOK, Upset PROVE TypeOK'
  OBVIOUS
<1>1. UNCHANGED <<row_dout, rv0, er0, rd0, row_q, en_q, ivl_q, repairs, resets>>
  BY DEF Upset, response, control
<1>2. upsets' \in 0 .. MaxUpsets
  <2>1. upsets \in Nat /\ MaxUpsets \in Nat
    BY MemAssumption DEF TypeOK
  <2> QED BY <2>1 DEF Upset
<1>3. mem' \in [Rows -> [Lanes -> Codeword]]
  <2>1. CASE StrikeCell
    <3>1. PICK r \in Rows, l \in Lanes, f \in 0 .. 2 : mem' = [mem EXCEPT ![r][l].flips = f]
      BY <2>1 DEF StrikeCell
    <3>2. mem[r][l] \in Codeword /\ [mem[r][l] EXCEPT !.flips = f] \in Codeword
      BY DEF TypeOK, Codeword
    <3>3. mem' = [mem EXCEPT ![r] = [mem[r] EXCEPT ![l] = [mem[r][l] EXCEPT !.flips = f]]]
      BY <3>1 DEF TypeOK
    <3>4. [mem[r] EXCEPT ![l] = [mem[r][l] EXCEPT !.flips = f]] \in [Lanes -> Codeword]
      BY <3>2 DEF TypeOK
    <3> QED BY <3>3, <3>4 DEF TypeOK
  <2>2. CASE UNCHANGED mem
    BY <2>2 DEF TypeOK
  <2> QED BY <2>1, <2>2 DEF Upset, StrikePointer, StrikeStrobe
<1>4. sptr' \in Rows /\ stick' \in Nat /\ srd_q' \in BOOLEAN
  BY DEF Upset, StrikeCell, StrikePointer, StrikeStrobe, scrubber, TypeOK
<1> QED BY <1>1, <1>2, <1>3, <1>4 DEF TypeOK

(* The system reset puts every register of the port in range.              *)
LEMMA ResetType == TypeOK /\ SystemReset => TypeOK'
<1> SUFFICES ASSUME TypeOK, SystemReset PROVE TypeOK'
  OBVIOUS
<1>1. 0 \in Rows
  BY MemAssumption DEF Rows
<1>2. resets' \in 0 .. MaxResets
  <2>1. resets \in Nat /\ MaxResets \in Nat
    BY MemAssumption DEF TypeOK
  <2> QED BY <2>1 DEF SystemReset
<1> QED BY <1>1, <1>2 DEF SystemReset, TypeOK

(* No step leaves the types.                                               *)
LEMMA NextType == TypeOK /\ [Next]_vars => TypeOK'
<1> SUFFICES ASSUME TypeOK, [Next]_vars PROVE TypeOK'
  OBVIOUS
<1>1. ASSUME NEW q \in Requests \cup {None}, Clock(q) PROVE TypeOK'
  BY <1>1, ClockType
<1>2. CASE SystemReset
  BY <1>2, ResetType
<1>3. CASE Upset
  BY <1>3, UpsetType
<1>4. CASE UNCHANGED vars
  BY <1>4 DEF vars, response, scrubber, control, TypeOK
<1> QED BY <1>1, <1>2, <1>3, <1>4 DEF Next, Busy, Spare

(* The state stays well typed for ever; every proof below uses it.         *)
LEMMA SpecType == Spec => []TypeOK
BY InitType, NextType, PTL DEF Spec

-----------------------------------------------------------------------------
(* The repair counter.                                                     *)

(* A row has been read with a byte to repair and its cycle of examination  *)
(* is here: one repair that can still be counted.                          *)
Pending == IF srd_q /\ sec # {} THEN 1 ELSE 0

(* The rows with a byte to repair that the examination under way does not  *)
(* account for: one repair each, when the scrubber gets there.             *)
Unread == {r \in Rows : \E l \in Lanes : mem[r][l].flips = 1
                                       /\ ~(srd_q /\ r = sptr /\ l \in sec)}

(* The strengthening of RepairsAreUpsets: the repairs counted and those    *)
(* still to come are never more than the upsets. Without the terms for     *)
(* those still to come the bound is not inductive: a repair would raise    *)
(* the left side alone.                                                    *)
Explained == repairs + Pending + Cardinality(Unread) <= upsets

(* What the proofs need of the sizes of sets of rows.                      *)
LEMMA Counting ==
  /\ \A S \in SUBSET Rows : Cardinality(S) \in Nat
  /\ \A S, T \in SUBSET Rows : S \subseteq T => Cardinality(S) <= Cardinality(T)
  /\ \A S, T \in SUBSET Rows : \A x : S \subseteq T \cup {x} => Cardinality(S) <= Cardinality(T) + 1
  /\ \A S, T \in SUBSET Rows : \A x : x \in T /\ S \subseteq T \ {x} => Cardinality(S) <= Cardinality(T) - 1
<1>1. IsFiniteSet(Rows)
  BY MemAssumption, FS_Interval DEF Rows
<1>2. \A S \in SUBSET Rows : IsFiniteSet(S) /\ Cardinality(S) \in Nat
  BY <1>1, FS_Subset, FS_CardinalityType
<1>3. ASSUME NEW S \in SUBSET Rows, NEW T \in SUBSET Rows, S \subseteq T
      PROVE  Cardinality(S) <= Cardinality(T)
  BY <1>2, <1>3, FS_Subset
<1>4. ASSUME NEW S \in SUBSET Rows, NEW T \in SUBSET Rows, NEW x, S \subseteq T \cup {x}
      PROVE  Cardinality(S) <= Cardinality(T) + 1
  <2>1. IsFiniteSet(T \cup {x}) /\ Cardinality(T \cup {x}) <= Cardinality(T) + 1
    BY <1>2, FS_AddElement
  <2>2. Cardinality(S) <= Cardinality(T \cup {x})
    BY <1>4, <2>1, FS_Subset
  <2>3. Cardinality(T \cup {x}) \in Nat
    BY <2>1, FS_CardinalityType
  <2> QED BY <1>2, <2>1, <2>2, <2>3
<1>5. ASSUME NEW S \in SUBSET Rows, NEW T \in SUBSET Rows, NEW x, x \in T, S \subseteq T \ {x}
      PROVE  Cardinality(S) <= Cardinality(T) - 1
  <2>1. IsFiniteSet(T \ {x}) /\ Cardinality(T \ {x}) = Cardinality(T) - 1
    BY <1>2, <1>5, FS_RemoveElement
  <2> QED BY <1>5, <2>1, FS_Subset
<1> QED BY <1>2, <1>3, <1>4, <1>5

(* An edge only moves a repair from still unread to pending to counted, or *)
(* drops it: a bus write cleans the byte, and a row the bus took from the  *)
(* scrubber goes back from pending to unread, not to counted.              *)
LEMMA ClockExplained ==
  ASSUME TypeOK, Explained, NEW q \in Requests \cup {None}, Clock(q)
  PROVE  Explained'
<1> DEFINE u  == Cardinality(Unread)
           u1 == Cardinality(Unread')
<1>1. RowPort(q) /\ Response(q) /\ Scrub(q) /\ upsets' = upsets
      /\ repairs' = IF s_wb(q) THEN repairs + 1 ELSE repairs
  BY DEF Clock
<1>2. /\ repairs \in Nat /\ upsets \in Nat /\ srd_q \in BOOLEAN /\ sptr \in Rows
      /\ u \in Nat /\ u1 \in Nat
  BY Counting DEF TypeOK, Unread
<1>3. Unread \in SUBSET Rows /\ Unread' \in SUBSET Rows
  BY DEF Unread
<1>4. \A r \in Rows, l \in Lanes : mem'[r][l].flips = 1 =>
        mem[r][l].flips = 1 /\ ~(s_wb(q) /\ r = sptr /\ l \in sec)
  <2> SUFFICES ASSUME NEW r \in Rows, NEW l \in Lanes, mem'[r][l].flips = 1
               PROVE  mem[r][l].flips = 1 /\ ~(s_wb(q) /\ r = sptr /\ l \in sec)
    OBVIOUS
  <2>1. \A v : Encode(v).flips = 0
    BY DEF Encode
  <2>2. s_wb(q) => ~do_write(q)
    BY Request
  <2>3. mem'[r][l] = IF do_write(q) /\ r = q.row /\ l \in q.be THEN Encode(q.data)
                     ELSE IF s_wb(q) /\ r = sptr /\ l \in sec THEN Encode(row_dout[l].val)
                     ELSE mem[r][l]
    BY <1>1, Store
  <2> QED BY <2>1, <2>2, <2>3
<1>5. srd_q' => ~srd_q
  BY <1>1 DEF Scrub, s_go
<1>6. CASE srd_q /\ s_wb(q)
  <2>1. Pending = 1 /\ Pending' = 0
    BY <1>5, <1>6 DEF Pending, s_wb
  <2>2. Unread' \subseteq Unread
    BY <1>4, <1>5, <1>6 DEF Unread
  <2>3. u1 <= u
    BY <2>2, <1>3, Counting
  <2> QED BY <2>1, <2>3, <1>1, <1>2, <1>6 DEF Explained
<1>7. CASE srd_q /\ ~s_wb(q) /\ sec # {}
  <2>1. Pending = 1 /\ Pending' = 0
    BY <1>5, <1>7 DEF Pending
  <2>2. Unread' \subseteq Unread \cup {sptr}
    BY <1>4 DEF Unread
  <2>3. u1 <= u + 1
    BY <2>2, <1>3, Counting
  <2> QED BY <2>1, <2>3, <1>1, <1>2, <1>7 DEF Explained
<1>8. CASE srd_q /\ ~s_wb(q) /\ sec = {}
  <2>1. Pending = 0 /\ Pending' = 0
    BY <1>5, <1>8 DEF Pending
  <2>2. Unread' \subseteq Unread
    BY <1>4, <1>8 DEF Unread
  <2>3. u1 <= u
    BY <2>2, <1>3, Counting
  <2> QED BY <2>1, <2>3, <1>1, <1>2, <1>8 DEF Explained
<1>9. CASE ~srd_q /\ s_go(q)
  <2>1. q = None /\ ~s_wb(q) /\ ~row_we(q)
    BY <1>9, Request DEF s_go, s_wb, s_hit, row_we, req_i
  <2>2. mem' = mem /\ row_dout' = mem[sptr] /\ sptr' = sptr /\ srd_q'
    BY <2>1, <1>1, <1>9 DEF RowPort, row_en, row_addr, req_i, Scrub, s_hit
  <2>3. sec' = {l \in Lanes : mem[sptr][l].flips = 1}
    BY <2>2 DEF sec
  <2>4. CASE sec' = {}
    <3>1. Pending' = 0 /\ Unread' \subseteq Unread
      BY <2>2, <2>4, <1>9 DEF Pending, Unread
    <3>2. u1 <= u
      BY <3>1, <1>3, Counting
    <3> QED BY <3>1, <3>2, <2>1, <1>1, <1>2, <1>9 DEF Explained, Pending
  <2>5. CASE sec' # {}
    <3>1. Pending' = 1 /\ Pending = 0
      BY <2>2, <2>5, <1>9 DEF Pending
    <3>2. sptr \in Unread
      BY <2>3, <2>5, <1>2, <1>9 DEF Unread
    <3>3. Unread' \subseteq Unread \ {sptr}
      BY <2>2, <2>3, <1>9 DEF Unread
    <3>4. u1 <= u - 1
      BY <3>2, <3>3, <1>3, Counting
    <3> QED BY <3>1, <3>4, <2>1, <1>1, <1>2 DEF Explained
  <2> QED BY <2>4, <2>5
<1>10. CASE ~srd_q /\ ~s_go(q)
  <2>1. ~srd_q' /\ ~s_wb(q)
    BY <1>1, <1>10 DEF Scrub, s_wb, s_hit
  <2>2. Unread' \subseteq Unread /\ Pending = 0 /\ Pending' = 0
    BY <2>1, <1>4, <1>10 DEF Unread, Pending
  <2>3. u1 <= u
    BY <2>2, <1>3, Counting
  <2> QED BY <2>1, <2>2, <2>3, <1>1, <1>2 DEF Explained
<1> QED BY <1>6, <1>7, <1>8, <1>9, <1>10, <1>2

(* An upset adds at most one repair to come, the row it strikes or the row *)
(* under the scrub pointer, and one to the upsets.                         *)
LEMMA UpsetExplained == TypeOK /\ Explained /\ Upset => Explained'
<1> SUFFICES ASSUME TypeOK, Explained, Upset PROVE Explained'
  OBVIOUS
<1>1. /\ row_dout' = row_dout /\ repairs' = repairs /\ upsets' = upsets + 1
      /\ repairs \in Nat /\ upsets \in Nat /\ srd_q \in BOOLEAN
      /\ Unread \in SUBSET Rows /\ Unread' \in SUBSET Rows
  BY DEF Upset, TypeOK, Unread
<1>2. Cardinality(Unread) \in Nat /\ Cardinality(Unread') \in Nat
  BY <1>1, Counting
<1>3. sec' = sec
  BY <1>1 DEF sec
<1>4. Pending \in {0, 1} /\ Pending' \in {0, 1}
  BY DEF Pending
<1>5. Pending' + Cardinality(Unread') <= Pending + Cardinality(Unread) + 1
  <2>1. ASSUME Pending' = Pending, NEW x, Unread' \subseteq Unread \cup {x}
        PROVE  Pending' + Cardinality(Unread') <= Pending + Cardinality(Unread) + 1
    <3>1. Cardinality(Unread') <= Cardinality(Unread) + 1
      BY <2>1, <1>1, Counting
    <3> QED BY <3>1, <2>1, <1>2, <1>4
  <2>2. CASE StrikeCell
    <3>1. PICK r \in Rows, l \in Lanes, f \in 0 .. 2 : mem' = [mem EXCEPT ![r][l].flips = f]
      BY <2>2 DEF StrikeCell
    <3>2. UNCHANGED <<sptr, srd_q>>
      BY <2>2 DEF StrikeCell, scrubber
    <3>3. \A x \in Rows \ {r} : mem'[x] = mem[x]
      BY <3>1 DEF TypeOK
    <3>4. Unread' \subseteq Unread \cup {r}
      BY <3>2, <3>3, <1>3 DEF Unread
    <3>5. Pending' = Pending
      BY <3>2, <1>3 DEF Pending
    <3> QED BY <3>4, <3>5, <2>1
  <2>3. CASE StrikePointer
    <3>1. UNCHANGED <<mem, srd_q>>
      BY <2>3 DEF StrikePointer
    <3>2. Unread' \subseteq Unread \cup {sptr}
      BY <3>1, <1>3 DEF Unread
    <3>3. Pending' = Pending
      BY <3>1, <1>3 DEF Pending
    <3> QED BY <3>2, <3>3, <2>1
  <2>4. CASE StrikeStrobe
    <3>1. UNCHANGED <<mem, sptr>> /\ srd_q' = ~srd_q
      BY <2>4 DEF StrikeStrobe
    <3>2. CASE srd_q
      <4>1. Pending' = 0
        BY <3>1, <3>2 DEF Pending
      <4>2. Unread' \subseteq Unread \cup {sptr}
        BY <3>1, <1>3 DEF Unread
      <4>3. Cardinality(Unread') <= Cardinality(Unread) + 1
        BY <4>2, <1>1, Counting
      <4> QED BY <4>1, <4>3, <1>2, <1>4
    <3>3. CASE ~srd_q
      <4>1. Pending = 0
        BY <3>3 DEF Pending
      <4>2. Unread' \subseteq Unread
        BY <3>1, <3>3, <1>3 DEF Unread
      <4>3. Cardinality(Unread') <= Cardinality(Unread)
        BY <4>2, <1>1, Counting
      <4> QED BY <4>1, <4>3, <1>2, <1>4
    <3> QED BY <3>2, <3>3
  <2> QED BY <2>2, <2>3, <2>4 DEF Upset
<1> QED BY <1>1, <1>2, <1>4, <1>5 DEF Explained

(* A system reset between the read and the write-back puts the pending row *)
(* back among the unread.                                                  *)
LEMMA ResetExplained == TypeOK /\ Explained /\ SystemReset => Explained'
<1> SUFFICES ASSUME TypeOK, Explained, SystemReset PROVE Explained'
  OBVIOUS
<1>1. /\ UNCHANGED <<mem, row_dout, repairs, upsets>> /\ srd_q' = FALSE
      /\ repairs \in Nat /\ upsets \in Nat
      /\ Unread \in SUBSET Rows /\ Unread' \in SUBSET Rows
  BY DEF SystemReset, TypeOK, Unread
<1>2. Cardinality(Unread) \in Nat /\ Cardinality(Unread') \in Nat
  BY <1>1, Counting
<1>3. Pending' = 0
  BY <1>1 DEF Pending
<1>4. CASE srd_q /\ sec # {}
  <2>1. Unread' \subseteq Unread \cup {sptr}
    BY <1>1 DEF Unread
  <2>2. Cardinality(Unread') <= Cardinality(Unread) + 1
    BY <2>1, <1>1, Counting
  <2> QED BY <2>2, <1>1, <1>2, <1>3, <1>4 DEF Explained, Pending
<1>5. CASE ~(srd_q /\ sec # {})
  <2>1. Unread' \subseteq Unread
    BY <1>1, <1>5 DEF Unread
  <2>2. Cardinality(Unread') <= Cardinality(Unread)
    BY <2>1, <1>1, Counting
  <2> QED BY <2>2, <1>1, <1>2, <1>3, <1>5 DEF Explained, Pending
<1> QED BY <1>4, <1>5

(* Nothing is to be repaired before the first upset.                       *)
LEMMA InitExplained == Init => Explained
<1> SUFFICES ASSUME Init PROVE Explained
  OBVIOUS
<1>1. Unread = {}
  BY DEF Init, Unread, Encode
<1>2. Cardinality(Unread) = 0
  BY <1>1, FS_EmptySet
<1> QED BY <1>2 DEF Init, Explained, Pending

(* Explained is inductive, given the types.                                *)
LEMMA NextExplained == TypeOK /\ Explained /\ [Next]_vars => Explained'
<1> SUFFICES ASSUME TypeOK, Explained, [Next]_vars PROVE Explained'
  OBVIOUS
<1>1. ASSUME NEW q \in Requests \cup {None}, Clock(q) PROVE Explained'
  BY <1>1, ClockExplained
<1>2. CASE SystemReset
  BY <1>2, ResetExplained
<1>3. CASE Upset
  BY <1>3, UpsetExplained
<1>4. CASE UNCHANGED vars
  <2>1. UNCHANGED <<mem, row_dout, sptr, srd_q, repairs, upsets>>
    BY <1>4 DEF vars, scrubber
  <2>2. Unread' = Unread /\ Pending' = Pending
    BY <2>1 DEF Unread, Pending, sec
  <2> QED BY <2>1, <2>2 DEF Explained
<1> QED BY <1>1, <1>2, <1>3, <1>4 DEF Next, Busy, Spare

(* The scrub counter reports no repair that no upset explains, for every   *)
(* number of rows, lanes and upsets and every scrub interval, also when    *)
(* the scrubber's own registers are struck in the cycle of an examination. *)
THEOREM EveryRepairIsAnUpset == Spec => []RepairsAreUpsets
<1>1. TypeOK /\ Explained => RepairsAreUpsets
  <2> SUFFICES ASSUME TypeOK, Explained PROVE repairs <= upsets
    BY DEF RepairsAreUpsets
  <2>1. Cardinality(Unread) \in Nat
    BY Counting DEF Unread
  <2>2. repairs \in Nat /\ upsets \in Nat /\ Pending \in {0, 1}
    BY DEF TypeOK, Pending
  <2> QED BY <2>1, <2>2 DEF Explained
<1>2. Spec => []Explained
  BY SpecType, InitExplained, NextExplained, PTL DEF Spec
<1> QED BY <1>1, <1>2, SpecType, PTL

-----------------------------------------------------------------------------
(* The promise to the bus.                                                 *)

(* The row under examination holds the values of the row the pointer       *)
(* names: what the write-back relies on without checking it.               *)
Examined == srd_q => \A l \in Lanes : row_dout[l].val = mem[sptr][l].val

(* A row comes under examination by being read, and the examination ends   *)
(* at the next edge, so no write can slip in between.                      *)
LEMMA ClockExamined ==
  ASSUME TypeOK, Examined, NEW q \in Requests \cup {None}, Clock(q)
  PROVE  Examined'
<1>1. RowPort(q) /\ Scrub(q)
  BY DEF Clock
<1>2. CASE ~s_go(q)
  BY <1>1, <1>2 DEF Scrub, Examined
<1>3. CASE s_go(q)
  <2>1. ~req_i(q) /\ ~srd_q /\ ~row_we(q)
    BY <1>3, Request DEF s_go, row_we, s_wb, s_hit
  <2>2. mem' = mem /\ row_dout' = mem[sptr] /\ sptr' = sptr
    BY <2>1, <1>1, <1>3 DEF RowPort, row_en, row_addr, Scrub, s_hit
  <2> QED BY <2>2 DEF Examined
<1> QED BY <1>2, <1>3

(* Examined is inductive, given the types, as long as the scrubber's own   *)
(* registers are not struck where that makes it examine a row it did not   *)
(* read.                                                                   *)
LEMMA NextExamined ==
  ASSUME ~ExamineStruck, TypeOK, Examined, [Next]_vars
  PROVE  Examined'
<1>1. ASSUME NEW q \in Requests \cup {None}, Clock(q) PROVE Examined'
  BY <1>1, ClockExamined
<1>2. CASE SystemReset
  BY <1>2 DEF SystemReset, Examined
<1>3. CASE Upset
  <2>1. row_dout' = row_dout
    BY <1>3 DEF Upset
  <2>2. CASE StrikeCell
    <3>1. PICK r \in Rows, l \in Lanes, f \in 0 .. 2 : mem' = [mem EXCEPT ![r][l].flips = f]
      BY <2>2 DEF StrikeCell
    <3>2. \A x \in Rows, y \in Lanes : mem'[x][y].val = mem[x][y].val
      BY <3>1 DEF TypeOK, Codeword
    <3>3. UNCHANGED <<sptr, srd_q>> /\ sptr \in Rows
      BY <2>2 DEF StrikeCell, scrubber, TypeOK
    <3> QED BY <2>1, <3>2, <3>3 DEF Examined
  <2>3. CASE StrikePointer
    BY <2>3 DEF StrikePointer, Examined
  <2>4. CASE StrikeStrobe
    BY <2>4 DEF StrikeStrobe, Examined
  <2> QED BY <1>3, <2>2, <2>3, <2>4 DEF Upset
<1>4. CASE UNCHANGED vars
  BY <1>4 DEF vars, scrubber, Examined
<1> QED BY <1>1, <1>2, <1>3, <1>4 DEF Next, Busy, Spare

(* What the edge leaves of a stored byte: its value is the bus's, and it   *)
(* becomes uncorrectable by no write and no write-back.                    *)
LEMMA Bytes ==
  ASSUME TypeOK, Examined, NEW q \in Requests \cup {None}, Clock(q),
         NEW r \in Rows, NEW l \in Lanes
  PROVE  /\ mem'[r][l].val = IF do_write(q) /\ r = q.row /\ l \in q.be THEN q.data ELSE mem[r][l].val
         /\ mem'[r][l].flips = 2 => mem[r][l].flips = 2 /\ ~(do_write(q) /\ r = q.row /\ l \in q.be)
<1>1. mem'[r][l] = IF do_write(q) /\ r = q.row /\ l \in q.be THEN Encode(q.data)
                   ELSE IF s_wb(q) /\ r = sptr /\ l \in sec THEN Encode(row_dout[l].val)
                   ELSE mem[r][l]
  BY Store DEF Clock
<1>2. \A v : Encode(v).val = v /\ Encode(v).flips = 0
  BY DEF Encode
<1>3. s_wb(q) => row_dout[l].val = mem[sptr][l].val
  BY DEF s_wb, s_hit, Examined
<1> QED BY <1>1, <1>2, <1>3

(* The response one edge later is the one SafeMemory owes: the stored      *)
(* word, an error exactly when a lane of the row is uncorrectable, and the *)
(* refusal of a write to a ROM.                                            *)
LEMMA ClockAnswers ==
  ASSUME TypeOK, NEW q \in Requests \cup {None}, Clock(q)
  PROVE  in_response' = Memory!Answer(q)
<1>1. RowPort(q) /\ Response(q)
  BY DEF Clock
<1>2. CASE q = None
  <2>1. q.kind = "none" /\ rv0' = FALSE
    BY <1>1, <1>2 DEF Response, req_i, None
  <2> QED BY <2>1 DEF in_response, Memory!Answer, Memory!Nothing
<1>3. CASE q \in Requests /\ q.kind = "write"
  <2>1. rv0' = TRUE /\ er0' = RO /\ rd0' = FALSE
    BY <1>1, <1>3, Request, MemAssumption DEF Response
  <2>2. err0' = RO
    BY <2>1, MemAssumption DEF err0, rsp_rd
  <2> QED BY <1>3, <2>1, <2>2 DEF in_response, Memory!Answer, Memory!Error, Memory!Done
<1>4. CASE q \in Requests /\ q.kind = "read"
  <2>1. rv0' = TRUE /\ er0' = FALSE /\ rd0' = TRUE /\ q.row \in Rows
    BY <1>1, <1>4, Request DEF Response
  <2>2. ~row_we(q) /\ row_en(q) /\ row_addr(q) = q.row
    BY <1>4, Request DEF row_we, row_en, do_write, row_addr, s_wb, s_hit
  <2>3. row_dout' = mem[q.row]
    BY <2>2, <1>1 DEF RowPort
  <2>4. ded' = {l \in Lanes : mem[q.row][l].flips = 2}
    BY <2>3 DEF ded
  <2>5. err0' <=> ded' # {}
    BY <2>1 DEF err0, rsp_rd
  <2>6. CASE ded' = {}
    <3>1. rd_word' = [l \in Lanes |-> mem[q.row][l].val]
      BY <2>3, <2>6 DEF rd_word
    <3>2. in_response' = [kind |-> "data", word |-> [l \in Lanes |-> mem[q.row][l].val]]
      BY <2>1, <2>5, <2>6, <3>1 DEF in_response
    <3>3. ~\E l \in Lanes : <<q.row, l>> \in {c \in Rows \X Lanes : mem[c[1]][c[2]].flips = 2}
      BY <2>4, <2>6
    <3> QED BY <1>4, <2>1, <3>2, <3>3 DEF Memory!Answer, Memory!Data
  <2>7. CASE ded' # {}
    <3>1. in_response' = [kind |-> "error"]
      BY <2>1, <2>5, <2>7 DEF in_response
    <3>2. \E l \in Lanes : <<q.row, l>> \in {c \in Rows \X Lanes : mem[c[1]][c[2]].flips = 2}
      BY <2>1, <2>4, <2>7
    <3> QED BY <1>4, <3>1, <3>2 DEF Memory!Answer, Memory!Error
  <2> QED BY <2>6, <2>7
<1> QED BY <1>2, <1>3, <1>4, Request

(* An edge is one cycle of SafeMemory; the scrubber's part of it is a      *)
(* stutter of the words.                                                   *)
LEMMA ClockRefines ==
  ASSUME TypeOK, Examined, NEW q \in Requests \cup {None}, Clock(q)
  PROVE  Memory!Next
<1>1. q \in Memory!Requests
  BY MemAssumption DEF Requests, None, Memory!Requests, Memory!None
<1>2. \A r \in Rows, l \in Lanes :
        <<r, l>> \in Memory!Written(q) <=> do_write(q) /\ r = q.row /\ l \in q.be
  <2>1. do_write(q) => q.row \in Rows /\ q.be \subseteq Lanes
    BY Request DEF req_i, do_write, None
  <2> QED BY <2>1 DEF Memory!Written, do_write
<1>3. [r \in Rows |-> [l \in Lanes |-> mem[r][l].val]]'
      = [r \in Rows |-> [l \in Lanes |-> IF <<r, l>> \in Memory!Written(q) THEN q.data
                                         ELSE [x \in Rows |-> [y \in Lanes |-> mem[x][y].val]][r][l]]]
  BY <1>2, Bytes
<1>4. {c \in Rows \X Lanes : mem[c[1]][c[2]].flips = 2}'
      \in SUBSET ({c \in Rows \X Lanes : mem[c[1]][c[2]].flips = 2} \ Memory!Written(q))
  BY <1>2, Bytes
<1>5. in_response' = Memory!Answer(q)
  BY ClockAnswers
<1>6. Memory!Cycle(q)
  BY <1>3, <1>4, <1>5 DEF Memory!Cycle
<1> QED BY <1>1, <1>6 DEF Memory!Next

(* An upset is a strike of SafeMemory or a stutter.                        *)
LEMMA UpsetRefines ==
  ASSUME TypeOK, Upset
  PROVE  Memory!Next \/ UNCHANGED Memory!memory
<1>1. in_response' = in_response
  BY DEF Upset, response, in_response, err0, rsp_rd, ded, rd_word
<1>2. CASE mem' = mem
  BY <1>1, <1>2 DEF Memory!memory
<1>3. CASE StrikeCell
  <2>1. PICK r \in Rows, l \in Lanes, f \in 0 .. 2 : mem' = [mem EXCEPT ![r][l].flips = f]
    BY <1>3 DEF StrikeCell
  <2>2. \A x \in Rows, y \in Lanes :
          /\ mem'[x][y].val = mem[x][y].val
          /\ <<x, y>> # <<r, l>> => mem'[x][y].flips = mem[x][y].flips
    BY <2>1 DEF TypeOK, Codeword
  <2>3. [x \in Rows |-> [y \in Lanes |-> mem[x][y].val]]' = [x \in Rows |-> [y \in Lanes |-> mem[x][y].val]]
    BY <2>2
  <2> DEFINE lost == {c \in Rows \X Lanes : mem[c[1]][c[2]].flips = 2}
  <2>4. lost' \in {lost \cup {<<r, l>>}, lost \ {<<r, l>>}}
    BY <2>2
  <2> QED BY <2>3, <2>4, <1>1 DEF Memory!Next, Memory!Strike
<1> QED BY <1>2, <1>3 DEF Upset, StrikePointer, StrikeStrobe

(* The system reset is SafeMemory's: it takes back the answer and leaves   *)
(* the words.                                                              *)
LEMMA ResetRefines ==
  ASSUME TypeOK, SystemReset
  PROVE  Memory!Next
<1>1. in_response' = [kind |-> "none"]
  BY DEF SystemReset, in_response
<1>2. mem' = mem
  BY DEF SystemReset
<1> QED BY <1>1, <1>2 DEF Memory!Next, Memory!Reset, Memory!Nothing

(* The initial states are initial states of SafeMemory.                    *)
LEMMA InitRefines == Init => Memory!Init
<1> SUFFICES ASSUME Init PROVE Memory!Init
  OBVIOUS
<1>1. TypeOK
  BY InitType
<1>2. [r \in Rows |-> [l \in Lanes |-> mem[r][l].val]] \in [Rows -> [Lanes -> Values]]
  BY <1>1 DEF TypeOK, Codeword
<1>3. {c \in Rows \X Lanes : mem[c[1]][c[2]].flips = 2} = {}
  BY DEF Init, Encode
<1>4. in_response = [kind |-> "none"]
  BY DEF Init, in_response
<1> QED BY <1>2, <1>3, <1>4 DEF Memory!Init, Memory!Nothing

(* The protected memory implements SafeMemory, for every number of rows,   *)
(* every set of lanes and values, RAM or ROM: reads return the word last   *)
(* written or an error, errors only for a byte struck twice, and the       *)
(* scrubber is invisible.  The hypothesis is the fault model; the run      *)
(* soc_mem_pointer shows what happens without it.                          *)
THEOREM MemoryIsSafe ==
  ASSUME ~ExamineStruck
  PROVE  Spec => ImplementsMemory
<1>1. TypeOK /\ Examined /\ [Next]_vars => Examined'
  BY NextExamined
<1>2. Init => Examined
  BY DEF Init, Examined
<1>3. Spec => [](TypeOK /\ Examined)
  BY <1>1, <1>2, SpecType, PTL DEF Spec
<1>4. TypeOK /\ Examined /\ [Next]_vars => [Memory!Next]_(Memory!memory)
  <2> SUFFICES ASSUME TypeOK, Examined, [Next]_vars
               PROVE  Memory!Next \/ UNCHANGED Memory!memory
    OBVIOUS
  <2>1. ASSUME NEW q \in Requests \cup {None}, Clock(q) PROVE Memory!Next
    BY <2>1, ClockRefines
  <2>2. CASE SystemReset
    BY <2>2, ResetRefines
  <2>3. CASE Upset
    BY <2>3, UpsetRefines
  <2>4. CASE UNCHANGED vars
    BY <2>4 DEF vars, response, Memory!memory, in_response, err0, rsp_rd, ded, rd_word
  <2> QED BY <2>1, <2>2, <2>3, <2>4 DEF Next, Busy, Spare
<1> QED BY <1>3, <1>4, InitRefines, PTL DEF Spec, ImplementsMemory, Memory!Spec

(* A cycle without a request changes no word, whatever the scrubber writes *)
(* back in it, under the same hypothesis.                                  *)
THEOREM IdleCyclesKeepWords ==
  ASSUME ~ExamineStruck
  PROVE  Spec => ScrubKeepsWords
<1>1. TypeOK /\ Examined /\ [Next]_vars => Examined'
  BY NextExamined
<1>2. Init => Examined
  BY DEF Init, Examined
<1>3. Spec => [](TypeOK /\ Examined)
  BY <1>1, <1>2, SpecType, PTL DEF Spec
<1>4. TypeOK /\ Examined /\ Spare => \A r \in Rows, l \in Lanes : mem'[r][l].val = mem[r][l].val
  <2> SUFFICES ASSUME TypeOK, Examined, Clock(None), NEW r \in Rows, NEW l \in Lanes
               PROVE  mem'[r][l].val = mem[r][l].val
    BY DEF Spare
  <2> QED BY Bytes, Request
<1> QED BY <1>3, <1>4, PTL DEF Spec, ScrubKeepsWords
=============================================================================
