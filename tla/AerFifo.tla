------------------------------ MODULE AerFifo ------------------------------
(***************************************************************************)
(* The AER event FIFO, hw/rtl/aer_fifo.v, at register accuracy.  Clock is  *)
(* one rising edge: everything combinational is an operator over the state *)
(* before the edge and the inputs of the cycle.  Three kinds of upset      *)
(* strike between edges, each at most once per protected word and cycle    *)
(* (once per entry lifetime for the parity bit): the fault model the       *)
(* source states and proves under.                                         *)
(*                                                                         *)
(* Pointers are AW + 1 bits wide, so they count modulo 2 * DEPTH.          *)
(* A definition marked Variant is a plausible bug, there to show that a    *)
(* property notices it; no specification uses it.                          *)
(***************************************************************************)
EXTENDS Integers, Sequences, FiniteSets

CONSTANTS DEPTH,    (* entries                                             *)
          Data,     (* event words                                         *)
          Zero,     (* the all-zero word                                   *)
          Parity,   (* the XOR of a word's bits                            *)
          DROP_MAX, (* 2^DROP_W - 1                                        *)
          MaxStruck (* bound: pointers and rails struck between two edges  *)

ASSUME FifoAssumption ==
  /\ DEPTH \in Nat /\ DEPTH >= 2 /\ \E n \in 1 .. DEPTH : DEPTH = 2^n
  /\ DROP_MAX \in Nat \ {0}
  /\ MaxStruck \in Nat
  /\ Zero \in Data
  /\ Parity \in [Data -> {0, 1}]

VARIABLES wr,        (* replica -> decoded write pointer                   *)
          rd,        (* replica -> decoded read pointer                    *)
          mem,       (* slot -> stored word                                *)
          par,       (* slot -> stored parity bit                          *)
          rdv,       (* rail -> decoded rd_valid bit                       *)
          rd_data,   (* the registered read word                           *)
          drop_cnt,  (* refused writes, sticky and saturating              *)
          sent,      (* history: slot -> the word the write port offered   *)
          hit        (* history: what was struck since the last edge       *)

vars == <<wr, rd, mem, par, rdv, rd_data, drop_cnt, sent, hit>>

Replica == {"a", "b", "c"}
Rail    == {"a", "b"}
Ptr     == 0 .. (2 * DEPTH - 1)
Slot    == 0 .. (DEPTH - 1)

-----------------------------------------------------------------------------
(* Combinational logic.                                                    *)

Bit(x, i) == (x \div 2^i) % 2

BitMajority(x, y, z) ==
  CHOOSE v \in Ptr : \A i \in Slot :
    Bit(v, i) = IF Bit(x, i) + Bit(y, i) + Bit(z, i) >= 2 THEN 1 ELSE 0

(* The bitwise vote: equal to any two replicas that agree, bit by bit when *)
(* all three differ.                                                       *)
Vote(p) ==
  IF p["a"] = p["b"] \/ p["a"] = p["c"] THEN p["a"]
  ELSE IF p["b"] = p["c"] THEN p["b"]
  ELSE BitMajority(p["a"], p["b"], p["c"])

Agree(p) == p["a"] = p["b"] /\ p["a"] = p["c"]

wr_ptr == Vote(wr)
rd_ptr == Vote(rd)

ptr_mismatch == ~Agree(wr) \/ ~Agree(rd)

Level(w, r) == IF w >= r THEN w - r ELSE w - r + 2 * DEPTH

level == Level(wr_ptr, rd_ptr)
full  == level = DEPTH
empty == wr_ptr = rd_ptr

Idx(p)     == IF p < DEPTH THEN p ELSE p - DEPTH
Step(p, b) == IF ~b THEN p ELSE IF p = 2 * DEPTH - 1 THEN 0 ELSE p + 1

head      == Idx(rd_ptr)
head_bad  == Parity[mem[head]] # par[head]

(* Variant: either rail is believed.                                       *)
rd_valid_or == rdv["a"] \/ rdv["b"]

rd_valid    == rdv["a"] /\ rdv["b"]
rv_mismatch == rdv["a"] # rdv["b"]

-----------------------------------------------------------------------------
Init ==
  /\ wr = [r \in Replica |-> 0]
  /\ rd = [r \in Replica |-> 0]
  /\ mem \in [Slot -> Data]      \* storage and parity have no reset
  /\ par \in [Slot -> {0, 1}]
  /\ rdv = [r \in Rail |-> FALSE]
  /\ rd_data = Zero
  /\ drop_cnt = 0
  /\ sent = mem
  /\ hit = {}

(* Variant: each replica counts for itself.                                *)
PointersUnvoted(wr_ok, rd_ok) ==
  /\ wr' = [r \in Replica |-> Step(wr[r], wr_ok)]
  /\ rd' = [r \in Replica |-> Step(rd[r], rd_ok)]

(* Every replica is reloaded from the voted pointer at every edge.         *)
Pointers(wr_ok, rd_ok) ==
  /\ wr' = [r \in Replica |-> Step(wr_ptr, wr_ok)]
  /\ rd' = [r \in Replica |-> Step(rd_ptr, rd_ok)]

Store(wr_ok, w) ==
  IF wr_ok
  THEN /\ mem'  = [mem  EXCEPT ![Idx(wr_ptr)] = w]
       /\ par'  = [par  EXCEPT ![Idx(wr_ptr)] = Parity[w]]
       /\ sent' = [sent EXCEPT ![Idx(wr_ptr)] = w]
  ELSE UNCHANGED <<mem, par, sent>>

(* Variant: the parity check is not consulted.                             *)
AnswerUnchecked(rd_ok) ==
  /\ rdv' = [r \in Rail |-> rd_ok]
  /\ rd_data' = IF rd_ok THEN mem[head] ELSE rd_data

(* A word that fails its parity check is consumed; its valid stays low.    *)
Answer(rd_ok) ==
  /\ rdv' = [r \in Rail |-> rd_ok /\ ~head_bad]
  /\ rd_data' = IF rd_ok THEN mem[head] ELSE rd_data

(* Variant: the counter does not saturate.                                 *)
CountDropUnbounded(wr_drop, drop_clr) ==
  drop_cnt' =
    IF drop_clr THEN (IF wr_drop THEN 1 ELSE 0)
    ELSE IF wr_drop THEN drop_cnt + 1
    ELSE drop_cnt

CountDrop(wr_drop, drop_clr) ==
  drop_cnt' =
    IF drop_clr THEN (IF wr_drop THEN 1 ELSE 0)
    ELSE IF wr_drop /\ drop_cnt # DROP_MAX THEN drop_cnt + 1
    ELSE drop_cnt

Clock(wr_en, w, rd_en, drop_clr) ==
  LET wr_ok   == wr_en /\ ~full
      rd_ok   == rd_en /\ ~empty
      wr_drop == wr_en /\ full
  IN  /\ Pointers(wr_ok, rd_ok)
      /\ Store(wr_ok, w)
      /\ Answer(rd_ok)
      /\ CountDrop(wr_drop, drop_clr)
      /\ hit' = {}

(* rst_n reaches everything but the storage and the parity bits.           *)
Reset ==
  /\ wr' = [r \in Replica |-> 0]
  /\ rd' = [r \in Replica |-> 0]
  /\ rdv' = [r \in Rail |-> FALSE]
  /\ rd_data' = Zero
  /\ drop_cnt' = 0
  /\ hit' = {}
  /\ UNCHANGED <<mem, par, sent>>

-----------------------------------------------------------------------------
(* Upsets.  A word struck since the last edge is not struck again before   *)
(* the next one.                                                           *)

Strike(what) ==
  /\ what \notin hit
  /\ Cardinality(hit) < MaxStruck
  /\ hit' = hit \union {what}

UpsetPointer ==
  \E r \in Replica, v \in Ptr :
    \/ /\ Strike("wr") /\ v # wr[r]
       /\ wr' = [wr EXCEPT ![r] = v]
       /\ UNCHANGED <<rd, mem, par, rdv, rd_data, drop_cnt, sent>>
    \/ /\ Strike("rd") /\ v # rd[r]
       /\ rd' = [rd EXCEPT ![r] = v]
       /\ UNCHANGED <<wr, mem, par, rdv, rd_data, drop_cnt, sent>>

UpsetRail ==
  /\ Strike("rdv")
  /\ \E r \in Rail : rdv' = [rdv EXCEPT ![r] = ~@]
  /\ UNCHANGED <<wr, rd, mem, par, rd_data, drop_cnt, sent>>

Intact(s) == mem[s] = sent[s] /\ par[s] = Parity[mem[s]]

(* An odd number of stored bits of one entry flips.                        *)
UpsetEntry ==
  \E s \in Slot :
    /\ Intact(s)
    /\ \/ /\ \E d \in Data : /\ Parity[d] # Parity[mem[s]]
                             /\ mem' = [mem EXCEPT ![s] = d]
          /\ UNCHANGED par
       \/ /\ par' = [par EXCEPT ![s] = 1 - @]
          /\ UNCHANGED mem
    /\ UNCHANGED <<wr, rd, rdv, rd_data, drop_cnt, sent, hit>>

Upset == UpsetPointer \/ UpsetEntry \/ UpsetRail

Next ==
  \/ \E wr_en, rd_en, drop_clr \in BOOLEAN, w \in Data :
        Clock(wr_en, w, rd_en, drop_clr)
  \/ Reset
  \/ Upset

Spec == Init /\ [][Next]_vars

-----------------------------------------------------------------------------
TypeOK ==
  /\ wr \in [Replica -> Ptr]
  /\ rd \in [Replica -> Ptr]
  /\ mem \in [Slot -> Data]
  /\ par \in [Slot -> {0, 1}]
  /\ rdv \in [Rail -> BOOLEAN]
  /\ rd_data \in Data
  /\ drop_cnt \in 0 .. DROP_MAX
  /\ sent \in [Slot -> Data]
  /\ hit \subseteq {"wr", "rd", "rdv"}

TwoAgree(p) == p["a"] = p["b"] \/ p["a"] = p["c"] \/ p["b"] = p["c"]

Occupied(s) == \E k \in 0 .. (level - 1) : s = (IF head + k < DEPTH THEN head + k
                                                ELSE head + k - DEPTH)

(* One upset per pointer and cycle never outvotes the pointer, the voted   *)
(* occupancy never exceeds DEPTH, and every queued entry still holds the   *)
(* word that was written or fails its parity check: the counts and the     *)
(* contents the two ports rely on survive any sequence of upsets, because  *)
(* every edge reloads all replicas from the vote.                          *)
MaskedState ==
  /\ TwoAgree(wr) /\ TwoAgree(rd)
  /\ level <= DEPTH
  /\ \A s \in Slot : Occupied(s) =>
        \/ Intact(s)
        \/ Parity[mem[s]] # par[s]

Masked ==
  /\ level' = level /\ head' = head /\ wr_ptr' = wr_ptr
  /\ rd_valid' => rd_valid
  /\ rdv' # rdv => rv_mismatch'
  /\ (wr' # wr \/ rd' # rd) => ptr_mismatch'

(* An upset is invisible at the ports or reported there in the same cycle: *)
(* it moves neither occupancy nor head, it may suppress an answer but not  *)
(* invent one, and a struck pointer or rail raises its mismatch output.    *)
UpsetsMasked == [][Upset => Masked]_vars

-----------------------------------------------------------------------------
(* The FIFO is the promised queue: its entries are the slots from the read *)
(* to the write pointer, each carrying the word that was offered.          *)
At(k) == LET i == head + k - 1 IN IF i < DEPTH THEN i ELSE i - DEPTH

EQ == INSTANCE EventQueue WITH
        Capacity <- DEPTH,
        DropMax  <- DROP_MAX,
        queue    <- [k \in 1 .. level |->
                       [word |-> sent[At(k)], intact |-> Intact(At(k))]],
        answer   <- IF rd_valid THEN <<rd_data>> ELSE <<>>,
        drops    <- drop_cnt

(* Whatever order writes, reads, clears and upsets come in, the ports show *)
(* a queue: each accepted word is answered once and in order, or is        *)
(* reported lost; none is duplicated, invented or altered, and every       *)
(* refused write is counted, also in the cycle that clears the counter.    *)
ImplementsQueue == EQ!Spec
=============================================================================
