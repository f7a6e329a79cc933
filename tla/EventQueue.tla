----------------------------- MODULE EventQueue -----------------------------
(***************************************************************************)
(* What the event FIFO promises its two neighbours, without pointers,      *)
(* replicas, parity bits or rails: a bounded queue of event words, one     *)
(* answer register and a saturating count of refused writes.  A stored     *)
(* word may be damaged by radiation; a damaged word is consumed and never  *)
(* answered.  An answer may be suppressed by an upset, never invented.     *)
(***************************************************************************)
EXTENDS Naturals, Sequences

CONSTANTS Capacity,  (* the number of entries                              *)
          Data,      (* the event words                                    *)
          DropMax    (* where the drop counter saturates                   *)

VARIABLES queue,   (* the accepted, not yet read entries, oldest first     *)
          answer,  (* <<>> or <<w>>: the word presented in this cycle      *)
          drops    (* the refused writes since the last clear, saturating  *)

queueVars == <<queue, answer, drops>>

Fresh(d) == [word |-> d, intact |-> TRUE]

Bump(n) == IF n = DropMax THEN n ELSE n + 1

Init == queue = <<>> /\ answer = <<>> /\ drops = 0

(* One clock cycle: the write port offers the entries of in (at most one), *)
(* the read port asks when pop, the host clears the counter when clear.    *)
Cycle(in, pop, clear) ==
  LET room     == Len(queue) < Capacity
      taken    == pop /\ queue # <<>>
      refused  == in # <<>> /\ ~room
  IN  /\ queue' = (IF taken THEN Tail(queue) ELSE queue)
                  \o (IF room THEN in ELSE <<>>)
      /\ answer' = IF taken /\ Head(queue).intact
                   THEN <<Head(queue).word>> ELSE <<>>
      /\ drops' = LET base == IF clear THEN 0 ELSE drops
                  IN  IF refused THEN Bump(base) ELSE base

Reset == queue' = <<>> /\ answer' = <<>> /\ drops' = 0

(* An upset damages one stored entry.                                      *)
Damage(i) ==
  /\ queue' = [queue EXCEPT ![i].intact = FALSE]
  /\ UNCHANGED <<answer, drops>>

(* An upset suppresses the answer of this cycle.                           *)
Miss ==
  /\ answer' = <<>>
  /\ UNCHANGED <<queue, drops>>

Next ==
  \/ \E in \in {<<>>} \union {<<Fresh(d)>> : d \in Data}, pop, clear \in BOOLEAN :
        Cycle(in, pop, clear)
  \/ \E i \in DOMAIN queue : Damage(i)
  \/ Miss
  \/ Reset

Spec == Init /\ [][Next]_queueVars
=============================================================================
