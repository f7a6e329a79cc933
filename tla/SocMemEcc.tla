----------------------------- MODULE SocMemEcc ------------------------------
(***************************************************************************)
(* The protected memory: the codec and its scrubber,                       *)
(* hw/soc/rtl/soc_mem_ecc.v with HARDEN = 1 and RDREG = 0, over its row    *)
(* port, the scrub control register of hw/soc/rtl/soc_scrub.v, and upsets. *)
(* The bus may ask for anything in any cycle.  A behaviour starts once the *)
(* memory has been written.                                                *)
(*                                                                         *)
(* A stored byte, or the whole word of a ROM row, is one codeword: the     *)
(* value it was encoded from and how many of its bits differ from that     *)
(* encoding.  One is corrected, two are detected; a third is outside the   *)
(* code's promise and the fault model.                                     *)
(*                                                                         *)
(* A definition marked Variant is a plausible bug, there to show that a    *)
(* property notices it; no specification uses it.                          *)
(***************************************************************************)
EXTENDS Naturals

CONSTANTS
  WORDS,          (* the rows are 0 .. WORDS - 1                           *)
  Lanes, Values,  (* codewords of a row, and what each may hold            *)
  ByteEnables,    (* the lanes a write may name                            *)
  RO,             (* a ROM                                                 *)
  Garbage,        (* what an uncorrectable codeword decodes to             *)
  Blank,          (* bound: what every byte is first written with          *)
  IVL_RST,        (* the scrub interval at reset                           *)
  Intervals,      (* bound: the scrub intervals software writes            *)
  MaxUpsets,      (* bound: upsets in a behaviour                          *)
  MaxResets,      (* bound: system resets in a behaviour                   *)
  ExamineStruck   (* the scrubber's own registers may be struck also where *)
                  (* that makes it examine a row it did not read           *)

ASSUME MemAssumption ==
  /\ WORDS \in Nat \ {0} /\ ByteEnables \subseteq SUBSET Lanes
  /\ Blank \in Values /\ Garbage \notin Values
  /\ IVL_RST \in Nat /\ Intervals \subseteq Nat
  /\ MaxUpsets \in Nat /\ MaxResets \in Nat
  /\ RO \in BOOLEAN /\ ExamineStruck \in BOOLEAN

VARIABLES
  mem,                        (* row -> lane -> codeword                   *)
  row_dout,                   (* the row last read                         *)
  rv0, er0, rd0, row_q,       (* the response register                     *)
  sptr, stick, srd_q,         (* the scrubber                              *)
  en_q, ivl_q,                (* the control register                      *)
  repairs, upsets, resets     (* history: how many so far                  *)

response == <<rv0, er0, rd0, row_q>>
scrubber == <<sptr, stick, srd_q>>
control  == <<en_q, ivl_q>>
vars == <<mem, row_dout, response, scrubber, control, repairs, upsets, resets>>

Rows      == 0 .. WORDS - 1
Codeword  == [val : Values, flips : 0 .. 2]
Encode(v) == [val |-> v, flips |-> 0]

None     == [kind |-> "none"]
Requests == [kind : {"read"}, row : Rows]
              \cup [kind : {"write"}, row : Rows, be : ByteEnables, data : Values]
req_i(q)    == q # None
do_write(q) == q.kind = "write" /\ ~RO

-----------------------------------------------------------------------------
(* The decoder sits on the row last read.                                  *)
sec == {l \in Lanes : row_dout[l].flips = 1}
ded == {l \in Lanes : row_dout[l].flips = 2}
rd_word == [l \in Lanes |-> IF l \in ded THEN Garbage ELSE row_dout[l].val]

rsp_rd == rv0 /\ rd0
err0   == er0 \/ (rsp_rd /\ ded # {})

s_due   == en_q /\ stick = 0
s_go(q) == s_due /\ ~req_i(q) /\ ~srd_q

(* Variant: a row stays under examination while the bus is busy.           *)
s_hit_busy(q) == srd_q
(* The bus is idle in the cycle after the read.                            *)
s_hit(q) == srd_q /\ ~req_i(q)
s_wb(q)  == s_hit(q) /\ sec # {}

(* Variant: every lane that is not clean is written back.                  *)
bm_wb_dirty == sec \cup ded
bm_wb       == sec

(* The row port, the bus before the scrubber.                              *)
row_addr(q) == IF req_i(q) THEN q.row ELSE sptr
row_we(q)   == do_write(q) \/ s_wb(q)
row_bm(q)   == IF do_write(q) THEN q.be ELSE bm_wb
row_din(q)  == [l \in Lanes |-> Encode(IF do_write(q) THEN q.data ELSE rd_word[l])]
row_en(q)   == req_i(q) \/ s_go(q) \/ s_wb(q)

-----------------------------------------------------------------------------
Init ==
  /\ row_dout = [l \in Lanes |-> Encode(Blank)]
  /\ mem = [r \in Rows |-> row_dout]
  /\ rv0 = FALSE /\ er0 = FALSE /\ rd0 = FALSE /\ row_q = 0
  /\ sptr = 0 /\ stick = 0 /\ srd_q = FALSE
  /\ en_q = TRUE /\ ivl_q = IVL_RST
  /\ repairs = 0 /\ upsets = 0 /\ resets = 0

(* A write leaves the row last read where it was.                          *)
RowPort(q) ==
  /\ mem' = IF row_we(q)
            THEN [mem EXCEPT ![row_addr(q)] =
                    [l \in Lanes |-> IF l \in row_bm(q) THEN row_din(q)[l] ELSE @[l]]]
            ELSE mem
  /\ row_dout' = IF row_en(q) /\ ~row_we(q) THEN mem[row_addr(q)] ELSE row_dout

Response(q) ==
  /\ rv0' = req_i(q)
  /\ er0' = (q.kind = "write" /\ RO)
  /\ rd0' = (q.kind = "read")
  /\ row_q' = IF req_i(q) THEN q.row ELSE row_q

(* Variant: the pointer stays where it is.                                 *)
Scrub_stuck(q) ==
  /\ srd_q' = s_go(q)
  /\ stick' = IF s_go(q) THEN ivl_q ELSE IF stick # 0 THEN stick - 1 ELSE 0
  /\ sptr'  = sptr
(* A row that was examined is left behind; one the bus pre-empted is not.  *)
Scrub(q) ==
  /\ srd_q' = s_go(q)
  /\ stick' = IF s_go(q) THEN ivl_q ELSE IF stick # 0 THEN stick - 1 ELSE 0
  /\ sptr'  = IF s_hit(q) THEN (sptr + 1) % WORDS ELSE sptr

(* One rising edge: the request of the cycle, and what the control         *)
(* register holds after it.                                                *)
Clock(q) ==
  /\ RowPort(q) /\ Response(q) /\ Scrub(q)
  /\ \/ UNCHANGED control
     \/ en_q' \in BOOLEAN /\ ivl_q' \in Intervals
  /\ repairs' = IF s_wb(q) THEN repairs + 1 ELSE repairs
  /\ UNCHANGED <<upsets, resets>>

Busy  == \E q \in Requests : Clock(q)
Spare == Clock(None)

(* The system reset does not reach the storage.                            *)
SystemReset ==
  /\ resets < MaxResets /\ resets' = resets + 1
  /\ rv0' = FALSE /\ er0' = FALSE /\ rd0' = FALSE /\ row_q' = 0
  /\ sptr' = 0 /\ stick' = 0 /\ srd_q' = FALSE
  /\ en_q' = TRUE /\ ivl_q' = IVL_RST
  /\ UNCHANGED <<mem, row_dout, repairs, upsets>>

-----------------------------------------------------------------------------
(* Upsets: of a stored bit, of the scrub pointer, of the examine strobe.   *)
StrikeCell ==
  /\ \E r \in Rows, l \in Lanes, f \in 0 .. 2 :
       /\ f \in {mem[r][l].flips - 1, mem[r][l].flips + 1}
       /\ mem' = [mem EXCEPT ![r][l].flips = f]
  /\ UNCHANGED scrubber

StrikePointer ==
  /\ ExamineStruck \/ ~srd_q
  /\ sptr' \in Rows \ {sptr}
  /\ UNCHANGED <<mem, stick, srd_q>>

StrikeStrobe ==
  /\ ExamineStruck \/ srd_q
  /\ srd_q' = ~srd_q
  /\ UNCHANGED <<mem, sptr, stick>>

Upset ==
  /\ upsets < MaxUpsets /\ upsets' = upsets + 1
  /\ StrikeCell \/ StrikePointer \/ StrikeStrobe
  /\ UNCHANGED <<row_dout, response, control, repairs, resets>>

Next == Busy \/ Spare \/ SystemReset \/ Upset

(* The clock runs; a scrubber that stays due gets its cycle, and the bus   *)
(* does not for ever take the very cycles in which a row is examined.      *)
Fairness == /\ WF_vars(Busy \/ Spare)
            /\ SF_vars(s_due /\ Spare) /\ SF_vars(srd_q /\ Spare)
Spec == Init /\ [][Next]_vars /\ Fairness

-----------------------------------------------------------------------------
TypeOK ==
  /\ mem \in [Rows -> [Lanes -> Codeword]] /\ row_dout \in [Lanes -> Codeword]
  /\ rv0 \in BOOLEAN /\ er0 \in BOOLEAN /\ rd0 \in BOOLEAN /\ row_q \in Rows
  /\ sptr \in Rows /\ stick \in Nat /\ srd_q \in BOOLEAN
  /\ en_q \in BOOLEAN /\ ivl_q \in Intervals \cup {IVL_RST}
  /\ repairs \in Nat /\ upsets \in 0 .. MaxUpsets /\ resets \in 0 .. MaxResets

(* No repair is counted that no upset explains: a row the bus took between *)
(* the read and the write-back is not reported a second time.  The scrub   *)
(* counter is the upset-rate counter (soc_mem_ecc.v:85-88).                *)
RepairsAreUpsets == TypeOK /\ repairs <= upsets

(* What the bus is being answered.                                         *)
in_response ==
  IF ~rv0 THEN [kind |-> "none"]
  ELSE IF err0 THEN [kind |-> "error"]
  ELSE IF rd0 THEN [kind |-> "data", word |-> rd_word] ELSE [kind |-> "done"]

(* The memory is SafeMemory: scrubbing is invisible, a read returns the    *)
(* word last written or an error, and an error only for a byte struck      *)
(* twice.  In particular the write-back undoes no write that came between, *)
(* and encodes no uncorrectable byte anew.                                 *)
Memory == INSTANCE SafeMemory WITH
  word <- [r \in Rows |-> [l \in Lanes |-> mem[r][l].val]],
  lost <- {c \in Rows \X Lanes : mem[c[1]][c[2]].flips = 2},
  owed <- in_response
ImplementsMemory == Memory!Spec

(* Once the scrubber is left on, every byte struck once is repaired: with  *)
(* finitely many upsets there comes a cycle with none left.                *)
UpsetsRepaired ==
  <>[]en_q => []<>(\A r \in Rows, l \in Lanes : mem[r][l].flips # 1)

(* What an upset of the scrubber's own registers may do, after             *)
(* soc_mem_ecc.v:159-161: move where the next scrub read lands, and nothing *)
(* else.  A word changes only by a write of the bus.                       *)
ScrubKeepsWords ==
  [][Spare => \A r \in Rows, l \in Lanes : mem'[r][l].val = mem[r][l].val]_vars
=============================================================================
