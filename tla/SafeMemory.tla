----------------------------- MODULE SafeMemory -----------------------------
(***************************************************************************)
(* What a protected memory of the SoC promises the bus: a request taken in *)
(* every cycle and answered in the next, a read with the word last written *)
(* there or with an error, and an error only if a byte of the word has     *)
(* been struck beyond repair.  Nobody but the bus changes a word.          *)
(***************************************************************************)
CONSTANTS
  Rows, Lanes,   (* the words, and the bytes of each                       *)
  Values,        (* what a byte holds                                      *)
  RO             (* the bus may not write: the ROM                         *)

VARIABLES
  word,   (* row -> lane -> the value last written                         *)
  lost,   (* the <<row, lane>> pairs that cannot be corrected              *)
  owed    (* the answer to the request of the last cycle                   *)

memory == <<word, lost, owed>>

None == [kind |-> "none"]
Requests == {None} \cup [kind : {"read"}, row : Rows]
              \cup [kind : {"write"}, row : Rows, be : SUBSET Lanes, data : Values]

Nothing  == [kind |-> "none"]
Done     == [kind |-> "done"]
Error    == [kind |-> "error"]
Data(w)  == [kind |-> "data", word |-> w]

Answer(q) ==
  CASE q.kind = "none"  -> Nothing
    [] q.kind = "write" -> IF RO THEN Error ELSE Done
    [] q.kind = "read"  -> IF \E l \in Lanes : <<q.row, l>> \in lost THEN Error
                           ELSE Data(word[q.row])

Written(q) == IF q.kind = "write" /\ ~RO THEN {q.row} \X q.be ELSE {}

Init ==
  /\ word \in [Rows -> [Lanes -> Values]]
  /\ lost = {} /\ owed = Nothing

(* A lost byte may come back, as what it was.                              *)
Cycle(q) ==
  /\ owed' = Answer(q)
  /\ word' = [r \in Rows |-> [l \in Lanes |-> IF <<r, l>> \in Written(q) THEN q.data
                                              ELSE word[r][l]]]
  /\ lost' \in SUBSET (lost \ Written(q))

(* One upset makes one byte uncorrectable, or undoes another.              *)
Strike ==
  /\ \E c \in Rows \X Lanes : lost' \in {lost \cup {c}, lost \ {c}}
  /\ UNCHANGED <<word, owed>>

Reset == owed' = Nothing /\ UNCHANGED <<word, lost>>

Next == Strike \/ Reset \/ \E q \in Requests : Cycle(q)

Spec == Init /\ [][Next]_memory
=============================================================================
