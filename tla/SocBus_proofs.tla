--------------------------- MODULE SocBus_proofs ----------------------------
(* What the system fabric promises, for any set of slave ports and any     *)
(* number of cycles: its counters, fill indices and ownership queues       *)
(* agree with what was really granted and accepted (Bookkeeping), every    *)
(* answer reaches the master that asked (ResponsesRouted), a waiting       *)
(* master is overtaken at most once (BoundedOvertaking), and the clock     *)
(* may be gated at every edge clk_en_o releases (GateSafe).                *)
(* The argument: Bookkeeping alone is inductive but for the overtaking     *)
(* counter.  The slave side of an edge is a queue under a push and a pop   *)
(* (QueueStep, OwnerStep, CountStep, SlaveStep), the master side one       *)
(* master's counter, lock and requests in flight (CapturedStep,            *)
(* MasterStep); Answering and Granting say what an answer or a grant       *)
(* presupposes, above all that a slave is never handed a fifth request.    *)
EXTENDS SocBus, SequenceTheorems, TLAPS

(* The two masters and the two bounds, as numbers.                         *)
LEMMA Masters == Master = {"i", "d"} /\ MAX_OUT = 2 /\ QD = 4
BY DEF Master, MAX_OUT, QD

(* The numbers a queue of at most four entries can have as its length.     *)
LEMMA Small ==
  \A n \in Nat : /\ n <= 4 => n \in {0, 1, 2, 3, 4}
                 /\ n < 4 => n \in {0, 1, 2, 3}
OBVIOUS

(* How often a master stands among the first four of a queue.              *)
Held(q, m) ==
  LET At(k) == IF k <= Len(q) /\ q[k] = m THEN 1 ELSE 0
  IN  At(1) + At(2) + At(3) + At(4)

(* Held is InFlight, as a function of the queue alone.                     *)
LEMMA HeldOf == \A m, s : InFlight(m, s) = Held(pend[s], m)
BY DEF InFlight, Held

(* A master has between none and four of the entries, and at least one     *)
(* when the oldest is its own.                                             *)
LEMMA HeldRange ==
  ASSUME NEW q \in Seq(Master), NEW m \in Master
  PROVE  /\ Held(q, m) \in 0 .. 4
         /\ q # <<>> /\ Head(q) = m => Held(q, m) > 0
         /\ q = <<>> => Held(q, m) = 0
<1>1. q # <<>> => Len(q) >= 1 /\ Head(q) = q[1]
  BY HeadTailProperties, EmptySeq
<1>2. Len(q) \in Nat
  BY LenProperties
<1>3. QED BY <1>1, <1>2 DEF Held

(* Held is a number whatever the queue.                                    *)
LEMMA HeldInt == \A q \in Seq(Master), m \in Master : Held(q, m) \in Int
<1>1. ASSUME NEW q \in Seq(Master), NEW m \in Master
      PROVE  Held(q, m) \in Int
  <2>1. Held(q, m) \in 0 .. 4
    BY HeldRange
  <2> QED BY <2>1
<1> QED BY <1>1

(* The entries of a queue are those of the one master and of the other.    *)
LEMMA HeldTotal ==
  ASSUME NEW q \in Seq(Master), Len(q) <= 4
  PROVE  Held(q, "i") + Held(q, "d") = Len(q)
<1>1. Len(q) \in Nat /\ \A k \in 1 .. Len(q) : q[k] \in {"i", "d"}
  BY LenProperties, ElementOfSeq DEF Master
<1>2. QED BY <1>1 DEF Held

(* Accepting a request adds one to its owner's count.                      *)
LEMMA HeldAppend ==
  ASSUME NEW q \in Seq(Master), Len(q) < 4, NEW x \in Master, NEW m \in Master
  PROVE  Held(Append(q, x), m) = Held(q, m) + (IF x = m THEN 1 ELSE 0)
<1>1. /\ Len(Append(q, x)) = Len(q) + 1
      /\ \A k \in 1 .. Len(q) : Append(q, x)[k] = q[k]
      /\ Append(q, x)[Len(q) + 1] = x
  BY AppendProperties
<1>2. Len(q) \in Nat
  BY LenProperties
<1>3. Len(q) \in {0, 1, 2, 3}
  BY <1>2, Small
<1>4. QED BY <1>1, <1>3 DEF Held

(* Answering the oldest request takes one from its owner's count.          *)
LEMMA HeldTail ==
  ASSUME NEW q \in Seq(Master), q # <<>>, Len(q) <= 4, NEW m \in Master
  PROVE  Held(Tail(q), m) = Held(q, m) - (IF Head(q) = m THEN 1 ELSE 0)
<1>1. /\ Tail(q) \in Seq(Master) /\ Len(Tail(q)) = Len(q) - 1 /\ Head(q) = q[1]
      /\ \A k \in 1 .. Len(q) - 1 : Tail(q)[k] = q[k + 1]
  BY HeadTailProperties
<1>2. Len(q) \in Nat \ {0}
  BY EmptySeq
<1>3. Len(q) \in {1, 2, 3, 4}
  BY <1>2, Small
<1>4. QED BY <1>1, <1>3 DEF Held

-----------------------------------------------------------------------------
(* One rising edge, from a state in which the books agree.                 *)
One(b) == IF b THEN 1 ELSE 0
Pops(s, rv)   == s \in SlvRvalid(rv)
Pushes(s, gnt) == Xfer(gnt) /\ xfer_tgt = s

(* The oldest request a slave holds names its owner in entry 0 of the      *)
(* ownership queue, and that owner is locked to this slave.                *)
LEMMA HeadOwner ==
  ASSUME Bookkeeping, NEW s \in Target, pend[s] # <<>>
  PROVE  /\ Head(pend[s]) \in Master /\ q_owner[s][0] = Head(pend[s])
         /\ lock[Head(pend[s])] = s /\ cnt[Head(pend[s])] > 0
<1> DEFINE m == Head(pend[s])
<1>1. pend[s] \in Seq(Master)
  BY DEF Bookkeeping, TypeOK
<1>2. m \in Master /\ m = pend[s][1]
  BY <1>1, HeadTailProperties
<1>3. 1 \in 1 .. Len(pend[s])
  <2>1. Len(pend[s]) \in Nat \ {0}
    BY <1>1, EmptySeq
  <2> QED BY <2>1
<1>4. q_owner[s][0] = m
  BY <1>2, <1>3 DEF Bookkeeping, SlaveBooks
<1>5. InFlight(m, s) > 0 /\ InFlight(m, s) \in Nat
  BY <1>1, <1>2, HeldRange, HeldOf
<1>6. Captured(m, s) \in Nat
  BY DEF Captured
<1>7. InFlight(m, s) + Captured(m, s) = IF s = lock[m] THEN cnt[m] ELSE 0
  BY <1>2 DEF Bookkeeping, MasterBooks
<1> QED BY <1>2, <1>4, <1>5, <1>6, <1>7

(* Whoever answers holds a request, and a master is answered exactly by    *)
(* the slave it is locked to, and only with a request in flight.           *)
LEMMA Answering ==
  ASSUME Bookkeeping, NEW rv \in SUBSET Answerable
  PROVE  /\ SlvRvalid(rv) \subseteq Target
         /\ \A s \in SlvRvalid(rv) :
              /\ pend[s] # <<>> /\ Head(pend[s]) \in Master
              /\ q_owner[s][0] = Head(pend[s]) /\ lock[Head(pend[s])] = s
         /\ \A m \in Master : /\ Rvalid(m, rv) \in BOOLEAN
                              /\ Rvalid(m, rv) <=> Pops(lock[m], rv) /\ Head(pend[lock[m]]) = m
                              /\ Rvalid(m, rv) => cnt[m] > 0
<1>1. SlvRvalid(rv) \subseteq Target
  BY DEF SlvRvalid, Answerable, Target
<1>2. ASSUME NEW s \in SlvRvalid(rv)
      PROVE  pend[s] # <<>>
  <2>1. CASE s \in rv
    BY <2>1 DEF Answerable
  <2>2. CASE s = ErrSlv /\ err_rvalid
    <3>1. Len(pend[s]) = 1
      BY <2>2 DEF Bookkeeping
    <3>2. Len(<<>>) = 0
      BY EmptySeq
    <3> QED BY <3>1, <3>2
  <2> QED BY <2>1, <2>2 DEF SlvRvalid
<1>3. \A s \in SlvRvalid(rv) :
        /\ Head(pend[s]) \in Master /\ q_owner[s][0] = Head(pend[s])
        /\ lock[Head(pend[s])] = s /\ cnt[Head(pend[s])] > 0
  BY <1>1, <1>2, HeadOwner
<1>4. ASSUME NEW m \in Master
      PROVE  /\ Rvalid(m, rv) \in BOOLEAN
             /\ Rvalid(m, rv) <=> Pops(lock[m], rv) /\ Head(pend[lock[m]]) = m
             /\ Rvalid(m, rv) => cnt[m] > 0
  BY <1>3 DEF Rvalid, RespTo, Pops
<1> QED BY <1>1, <1>2, <1>3, <1>4

(* A grant is to a master below its limit and, with requests in flight,    *)
(* to the target they are at; and a slave that is handed a request holds   *)
(* fewer than four.                                                        *)
LEMMA Granting ==
  ASSUME Bookkeeping, NEW gnt \in SUBSET Presented
  PROVE  /\ winner \in Master
         /\ Accepted(gnt) => /\ tgt \in Target /\ tgt = mreq[winner] /\ CanIssue(winner)
                             /\ cnt[winner] < 2 /\ (cnt[winner] # 0 => lock[winner] = tgt)
         /\ Xfer(gnt) => /\ xfer_tgt \in Target /\ xfer_own \in Master
                         /\ Len(pend[xfer_tgt]) < 4
<1>1. TypeOK
  BY DEF Bookkeeping
<1>2. winner \in Master
  BY DEF winner, Master
<1>3. ASSUME Accepted(gnt)
      PROVE  /\ tgt \in Target /\ tgt = mreq[winner] /\ CanIssue(winner)
             /\ cnt[winner] < 2 /\ (cnt[winner] # 0 => lock[winner] = tgt)
  <2>1. CanIssue(winner)
    BY <1>3 DEF Accepted, any_win, d_wins, i_wins, winner
  <2>2. tgt = mreq[winner] /\ tgt \in Target
    BY <2>1, <1>1, <1>2 DEF tgt, CanIssue, TypeOK
  <2>3. cnt[winner] < 2 /\ (cnt[winner] # 0 => lock[winner] = tgt)
    BY <2>1, <2>2, Masters DEF CanIssue
  <2> QED BY <2>1, <2>2, <2>3
<1>4. ASSUME Xfer(gnt)
      PROVE  xfer_tgt \in Target /\ xfer_own \in Master
  BY <1>4, <1>1, <1>2, <1>3 DEF Xfer, xfer_tgt, xfer_own, TypeOK
<1>5. ASSUME Xfer(gnt)
      PROVE  Len(pend[xfer_tgt]) < 4
  <2> DEFINE s == xfer_tgt
             m == xfer_own
  <2>1. pend[s] \in Seq(Master) /\ Len(pend[s]) <= 4 /\ s \in Target /\ m \in Master
    BY <1>1, <1>4, <1>5, Masters DEF Bookkeeping, SlaveBooks, TypeOK
  <2>2. Len(pend[s]) = Held(pend[s], "i") + Held(pend[s], "d")
    BY <2>1, HeldTotal
  <2>3. \A n \in Master : /\ Held(pend[s], n) \in Nat /\ Captured(n, s) \in {0, 1} /\ cnt[n] \in 0 .. 2
                          /\ Held(pend[s], n) + Captured(n, s) = IF s = lock[n] THEN cnt[n] ELSE 0
    <3>1. ASSUME NEW n \in Master
          PROVE  /\ Held(pend[s], n) \in Nat /\ cnt[n] \in 0 .. 2
                 /\ InFlight(n, s) + Captured(n, s) = IF s = lock[n] THEN cnt[n] ELSE 0
      <4>1. Held(pend[s], n) \in Nat
        BY <2>1, HeldRange
      <4>2. cnt[n] \in 0 .. 2
        BY <1>1, Masters DEF TypeOK
      <4>3. InFlight(n, s) + Captured(n, s) = IF s = lock[n] THEN cnt[n] ELSE 0
        BY <2>1 DEF Bookkeeping, MasterBooks
      <4> QED BY <4>1, <4>2, <4>3
    <3>2. \A n \in Master : Captured(n, s) \in {0, 1} /\ InFlight(n, s) = Held(pend[s], n)
      BY HeldOf DEF Captured
    <3> QED BY <3>1, <3>2
  <2>4. Held(pend[s], m) <= 1
    <3>1. CASE req_reg
      <4>1. Captured(m, s) = 1
        BY <3>1, <1>5 DEF Xfer, RXfer, xfer_tgt, xfer_own, Captured
      <4>2. QED BY <2>1, <2>3, <4>1
    <3>2. CASE ~req_reg
      <4>1. cnt[m] < 2
        BY <3>2, <1>3, <1>5 DEF Xfer, xfer_own
      <4>2. QED BY <2>1, <2>3, <4>1
    <3> QED BY <3>1, <3>2
  <2>5. \A n \in Master : Held(pend[s], n) <= 2
    BY <2>3
  <2> QED BY <2>1, <2>2, <2>3, <2>4, <2>5 DEF Master
<1>6. QED BY <1>2, <1>3, <1>4, <1>5

(* p is q after a pop, a push of x, or both.                               *)
Stepped(p, q, x, push, pop) ==
  /\ p \in Seq(Master) /\ Len(p) \in Nat /\ Len(p) <= 4
  /\ Len(p) = Len(q) + One(push) - One(pop)
  /\ pop => Len(q) > 0
  /\ \A k \in 1 .. Len(p) : p[k] = IF push /\ k = Len(p) THEN x
                                  ELSE IF pop THEN q[k + 1] ELSE q[k]
  /\ \A m \in Master : Held(p, m) = Held(q, m) + One(push /\ x = m)
                                    - One(pop /\ Head(q) = m)

(* A queue of at most four entries under a pop, a push or both: what the   *)
(* two-bit fill index and the ownership queue have to follow.              *)
LEMMA QueueStep ==
  ASSUME NEW q \in Seq(Master), Len(q) <= 4,
         NEW push \in BOOLEAN, NEW pop \in BOOLEAN, NEW x,
         push => Len(q) < 4 /\ x \in Master, pop => q # <<>>,
         NEW r, r = (IF pop THEN Tail(q) ELSE q),
         NEW p, p = (IF push THEN Append(r, x) ELSE r)
  PROVE  Stepped(p, q, x, push, pop)
<1>0. PICK n \in Nat : n = Len(q) /\ n <= 4
  BY LenProperties
<1>1. pop => /\ n > 0
             /\ Tail(q) \in Seq(Master) /\ Len(Tail(q)) = n - 1
             /\ \A k \in 1 .. n - 1 : Tail(q)[k] = q[k + 1]
  BY <1>0, HeadTailProperties, EmptySeq
<1>2. PICK j \in Nat : /\ r \in Seq(Master) /\ Len(r) = j /\ j = n - One(pop)
                       /\ \A k \in 1 .. j : r[k] = IF pop THEN q[k + 1] ELSE q[k]
  <2>1. CASE pop
    <3>1. n - 1 \in Nat /\ One(pop) = 1 /\ r = Tail(q)
      BY <2>1, <1>0, <1>1 DEF One
    <3> QED BY <3>1, <2>1, <1>1
  <2>2. CASE ~pop
    <3>1. One(pop) = 0 /\ r = q
      BY <2>2 DEF One
    <3> QED BY <3>1, <2>2, <1>0
  <2> QED BY <2>1, <2>2
<1>3. push => /\ j < 4
              /\ Append(r, x) \in Seq(Master) /\ Len(Append(r, x)) = j + 1
              /\ \A k \in 1 .. j : Append(r, x)[k] = r[k]
              /\ Append(r, x)[j + 1] = x
  <2>1. push => j < 4
    BY <1>0, <1>2 DEF One
  <2> QED BY <2>1, <1>2, AppendProperties
<1>4. /\ p \in Seq(Master) /\ Len(p) \in Nat /\ Len(p) <= 4
      /\ Len(p) = n + One(push) - One(pop)
  <2>1. CASE push
    <3>1. p = Append(r, x) /\ Len(p) = j + 1 /\ One(push) = 1
      BY <2>1, <1>3 DEF One
    <3>2. j + 1 \in Nat /\ j + 1 <= 4 /\ j + 1 = n + One(push) - One(pop)
      BY <3>1, <2>1, <1>0, <1>2, <1>3 DEF One
    <3>3. p \in Seq(Master)
      BY <3>1, <2>1, <1>3
    <3> QED BY <3>1, <3>2, <3>3
  <2>2. CASE ~push
    <3>1. p = r /\ Len(p) = j /\ One(push) = 0
      BY <2>2, <1>2 DEF One
    <3>2. One(pop) \in {0, 1}
      BY DEF One
    <3>3. j <= 4 /\ j = n + One(push) - One(pop)
      BY <3>1, <3>2, <1>0, <1>2
    <3> QED BY <3>1, <3>3, <1>2
  <2> QED BY <2>1, <2>2
<1>5. ASSUME NEW k \in 1 .. Len(p)
      PROVE  p[k] = IF push /\ k = Len(p) THEN x ELSE IF pop THEN q[k + 1] ELSE q[k]
  BY <1>0, <1>2, <1>3
<1>6. ASSUME NEW m \in Master
      PROVE  Held(p, m) = Held(q, m) + One(push /\ x = m) - One(pop /\ Head(q) = m)
  <2>1. Held(q, m) \in Int /\ Held(r, m) \in Int
    BY <1>2, HeldInt
  <2>2. Held(r, m) = Held(q, m) - One(pop /\ Head(q) = m)
    <3>1. CASE pop
      <4>1. Held(Tail(q), m) = Held(q, m) - (IF Head(q) = m THEN 1 ELSE 0)
        BY <3>1, HeldTail
      <4> QED BY <3>1, <4>1 DEF One
    <3>2. CASE ~pop
      BY <3>2, <2>1 DEF One
    <3> QED BY <3>1, <3>2
  <2>3. Held(p, m) = Held(r, m) + One(push /\ x = m)
    <3>1. CASE push
      <4>1. Len(r) < 4 /\ x \in Master
        BY <3>1, <1>2, <1>3
      <4>2. Held(Append(r, x), m) = Held(r, m) + (IF x = m THEN 1 ELSE 0)
        BY <4>1, <1>2, HeldAppend
      <4> QED BY <3>1, <4>2 DEF One
    <3>2. CASE ~push
      BY <3>2, <2>1 DEF One
    <3> QED BY <3>1, <3>2
  <2> QED BY <2>1, <2>2, <2>3 DEF One
<1> QED BY <1>0, <1>1, <1>4, <1>5, <1>6 DEF Stepped

(* The modulo-four counter follows the length, also across the wrap from   *)
(* 4 to 0.                                                                 *)
LEMMA CountStep ==
  ASSUME NEW n \in Nat, n <= 4, NEW up \in BOOLEAN, NEW down \in BOOLEAN,
         up => n < 4, down => n > 0
  PROVE  /\ Count(n % 4, up, down) = (n + One(up) - One(down)) % 4
         /\ Count(n % 4, up, down) \in 0 .. 3
<1>1. n \in {0, 1, 2, 3, 4}
  BY Small
<1>2. CASE up = down
  BY <1>1, <1>2, Masters DEF Count, One
<1>3. CASE up /\ ~down
  BY <1>1, <1>3, Masters DEF Count, One
<1>4. CASE ~up /\ down
  BY <1>1, <1>4, Masters DEF Count, One
<1> QED BY <1>2, <1>3, <1>4

(* o is the ownership queue old, n entries of it in use, after the same.   *)
OwnerStepped(o, old, n, x, push, pop) ==
  /\ o \in [0 .. 3 -> Master]
  /\ \A k \in 1 .. n + One(push) - One(pop) :
       o[k - 1] = IF push /\ k = n + One(push) - One(pop) THEN x
                  ELSE IF pop THEN old[k] ELSE old[k - 1]

(* The shift register of owners follows the queue: a push lands behind     *)
(* what remains after the pop of the same edge.                            *)
LEMMA OwnerStep ==
  ASSUME NEW s, NEW n \in Nat, n <= 4, q_fill[s] = n % 4,
         q_owner[s] \in [0 .. 3 -> Master],
         NEW push \in BOOLEAN, NEW pop \in BOOLEAN,
         push => n < 4 /\ xfer_own \in Master, pop => n > 0
  PROVE  OwnerStepped(OwnerNext(s, push, pop), q_owner[s], n, xfer_own, push, pop)
<1> DEFINE old == q_owner[s]
<1>0. PICK o : o = OwnerNext(s, push, pop)
  OBVIOUS
<1>1. n \in {0, 1, 2, 3, 4}
  BY Small
<1>2. ShiftOut(old) \in [0 .. 3 -> Master] /\ \A k \in 0 .. 2 : ShiftOut(old)[k] = old[k + 1]
  BY Masters DEF ShiftOut, Master
<1>3. CASE push /\ pop
  <2>1. n \in {1, 2, 3} /\ (q_fill[s] + QD - 1) % QD = n - 1
    BY <1>1, <1>3, Masters
  <2>2. o = [ShiftOut(old) EXCEPT ![n - 1] = xfer_own]
    BY <2>1, <1>3, <1>0 DEF OwnerNext
  <2>3. n + One(push) - One(pop) = n
    BY <1>3 DEF One
  <2>4. o \in [0 .. 3 -> Master]
    BY <1>2, <1>3, <2>1, <2>2
  <2>5. o[n - 1] = xfer_own /\ \A k \in 1 .. n - 1 : o[k - 1] = old[k]
    <3>1. n - 1 \in 0 .. 3 /\ o[n - 1] = xfer_own
      BY <1>2, <2>1, <2>2
    <3>2. ASSUME NEW k \in 1 .. n - 1
          PROVE  o[k - 1] = old[k]
      <4>1. k - 1 \in 0 .. 2 /\ k - 1 # n - 1 /\ (k - 1) + 1 = k
        BY <2>1
      <4> QED BY <4>1, <1>2, <2>2
    <3> QED BY <3>1, <3>2
  <2>6. ASSUME NEW k \in 1 .. n
        PROVE  o[k - 1] = IF k = n THEN xfer_own ELSE old[k]
    BY <2>1, <2>5
  <2> QED BY <1>0, <1>3, <2>3, <2>4, <2>6 DEF OwnerStepped
<1>4. CASE push /\ ~pop
  <2>1. n \in {0, 1, 2, 3} /\ q_fill[s] = n
    BY <1>1, <1>4
  <2>2. o = [old EXCEPT ![n] = xfer_own]
    BY <2>1, <1>4, <1>0 DEF OwnerNext
  <2>3. n + One(push) - One(pop) = n + 1
    BY <1>4 DEF One
  <2>4. o \in [0 .. 3 -> Master] /\ o[n] = xfer_own
    <3>1. n \in 0 .. 3 /\ xfer_own \in Master /\ old \in [0 .. 3 -> Master]
      BY <1>4, <2>1
    <3> QED BY <3>1, <2>2
  <2>5. ASSUME NEW k \in 1 .. n
        PROVE  o[k - 1] = old[k - 1]
    <3>1. k - 1 \in 0 .. 3 /\ k - 1 # n
      BY <2>1
    <3> QED BY <3>1, <2>2
  <2>6. ASSUME NEW k \in 1 .. n + 1
        PROVE  o[k - 1] = IF k = n + 1 THEN xfer_own ELSE old[k - 1]
    BY <2>1, <2>4, <2>5
  <2> QED BY <1>0, <1>4, <2>3, <2>4, <2>6 DEF OwnerStepped
<1>5. CASE ~push /\ pop
  <2>1. o = ShiftOut(old)
    BY <1>5, <1>0 DEF OwnerNext
  <2>2. n + One(push) - One(pop) = n - 1
    BY <1>5 DEF One
  <2>3. ASSUME NEW k \in 1 .. n - 1
        PROVE  o[k - 1] = old[k]
    <3>1. k - 1 \in 0 .. 2 /\ (k - 1) + 1 = k
      BY <1>1
    <3> QED BY <3>1, <1>2, <2>1
  <2> QED BY <1>0, <1>2, <1>5, <2>1, <2>2, <2>3 DEF OwnerStepped
<1>6. CASE ~push /\ ~pop
  <2>1. o = old /\ n + One(push) - One(pop) = n
    BY <1>6, <1>0 DEF OwnerNext, One
  <2> QED BY <1>0, <1>6, <2>1 DEF OwnerStepped
<1> QED BY <1>3, <1>4, <1>5, <1>6

(* One edge keeps the books of a slave port.                               *)
LEMMA SlaveStep ==
  ASSUME Bookkeeping, NEW gnt \in SUBSET Presented, NEW rv \in SUBSET Answerable,
         FabricStep(gnt, rv), SlavesStep(gnt, rv), NEW s \in Target
  PROVE  /\ pend'[s] \in Seq(Master)
         /\ q_owner'[s] \in [0 .. QD - 1 -> Master]
         /\ q_fill'[s] \in 0 .. QD - 1
         /\ Len(pend'[s]) <= QD
         /\ Len(pend'[s]) = Len(pend[s]) + One(Pushes(s, gnt)) - One(Pops(s, rv))
         /\ q_fill'[s] = Len(pend'[s]) % QD
         /\ \A k \in 1 .. Len(pend'[s]) : q_owner'[s][k - 1] = pend'[s][k]
         /\ \A m \in Master :
              Held(pend'[s], m) = Held(pend[s], m)
                                  + One(Pushes(s, gnt) /\ xfer_own = m)
                                  - One(Pops(s, rv) /\ Head(pend[s]) = m)
<1> DEFINE push == Pushes(s, gnt)
           pop  == Pops(s, rv)
           q    == pend[s]
<1>1. /\ q \in Seq(Master) /\ Len(q) \in Nat /\ Len(q) <= 4 /\ q_fill[s] = Len(q) % 4
      /\ q_owner[s] \in [0 .. 3 -> Master]
      /\ \A k \in 1 .. Len(q) : q_owner[s][k - 1] = q[k]
  <2>1. q \in Seq(Master) /\ q_owner[s] \in [0 .. 3 -> Master]
    BY Masters DEF Bookkeeping, TypeOK
  <2>2. Len(q) <= 4 /\ q_fill[s] = Len(q) % 4 /\ \A k \in 1 .. Len(q) : q_owner[s][k - 1] = q[k]
    BY Masters DEF Bookkeeping, SlaveBooks
  <2> QED BY <2>1, <2>2, LenProperties
<1>2. push \in BOOLEAN /\ pop \in BOOLEAN
  BY DEF Pushes, Pops, Xfer, RXfer, Accepted
<1>3. push => Len(q) < 4 /\ xfer_own \in Master
  BY Granting DEF Pushes
<1>4. pop => q # <<>>
  BY Answering DEF Pops
<1>5. (Xfer(gnt) /\ s \in Presented <=> push) /\ (push => Owner = xfer_own)
  BY DEF Pushes, Xfer, RXfer, Accepted, Presented, Owner, xfer_tgt, xfer_own
<1>6. pend'[s] = IF push THEN Append(IF pop THEN Tail(q) ELSE q, xfer_own)
                         ELSE IF pop THEN Tail(q) ELSE q
  BY <1>4, <1>5 DEF SlavesStep, Pops, Add, Drop
<1>7. Stepped(pend'[s], q, xfer_own, push, pop)
  BY <1>1, <1>2, <1>3, <1>4, <1>6, QueueStep, Zenon
<1>8. q_owner'[s] = OwnerNext(s, push, pop) /\ q_fill'[s] = Count(q_fill[s], push, pop)
  BY DEF FabricStep, Pushes, Pops
<1>9. pop => Len(q) > 0
  BY <1>7 DEF Stepped
<1>10. OwnerStepped(q_owner'[s], q_owner[s], Len(q), xfer_own, push, pop)
  BY <1>1, <1>2, <1>3, <1>8, <1>9, OwnerStep
<1>n. PICK n \in Nat, j \in Nat : /\ Len(q) = n /\ Len(pend'[s]) = j
                                  /\ j = n + One(push) - One(pop)
  BY <1>1, <1>7 DEF Stepped
<1>11. q_fill'[s] = j % 4 /\ q_fill'[s] \in 0 .. 3
  <2>1. n <= 4 /\ (push => n < 4) /\ (pop => n > 0)
    BY <1>1, <1>3, <1>9, <1>n
  <2>2. /\ Count(n % 4, push, pop) = (n + One(push) - One(pop)) % 4
        /\ Count(n % 4, push, pop) \in 0 .. 3
    BY <1>2, <2>1, CountStep
  <2> QED BY <1>1, <1>8, <1>n, <2>2
<1>12. ASSUME NEW k \in 1 .. Len(pend'[s])
       PROVE  q_owner'[s][k - 1] = pend'[s][k]
  <2>1. CASE push /\ k = Len(pend'[s])
    BY <2>1, <1>7, <1>10 DEF Stepped, OwnerStepped
  <2>2. CASE ~(push /\ k = Len(pend'[s])) /\ pop
    <3>1. k + 1 \in 1 .. Len(q) /\ k = (k + 1) - 1
      BY <2>2, <1>n DEF One
    <3>2. q_owner[s][k] = pend[s][k + 1]
      BY <3>1, <1>1
    <3> QED BY <3>2, <2>2, <1>7, <1>10 DEF Stepped, OwnerStepped
  <2>3. CASE ~(push /\ k = Len(pend'[s])) /\ ~pop
    <3>1. k \in 1 .. Len(q)
      BY <2>3, <1>n DEF One
    <3>2. q_owner[s][k - 1] = pend[s][k]
      BY <3>1, <1>1
    <3> QED BY <3>2, <2>3, <1>7, <1>10 DEF Stepped, OwnerStepped
  <2> QED BY <2>1, <2>2, <2>3
<1>13. QD = 4 /\ 0 .. QD - 1 = 0 .. 3
  BY Masters
<1> QED BY <1>7, <1>10, <1>11, <1>12, <1>13, <1>n DEF Stepped, OwnerStepped

-----------------------------------------------------------------------------
(* The master side of the same edge.                                       *)

(* The request register: a captured request is counted from its grant to   *)
(* its handing on, and never in both elaborations of REQ_REG.              *)
LEMMA CapturedStep ==
  ASSUME Bookkeeping, NEW gnt \in SUBSET Presented, NEW rv \in SUBSET Answerable,
         FabricStep(gnt, rv), req_reg' = req_reg, NEW s \in Target, NEW m \in Master
  PROVE  Captured(m, s)' = Captured(m, s) + One(Granted(m, gnt) /\ mreq[m] = s)
                           - One(Pushes(s, gnt) /\ xfer_own = m)
<1>1. reg.val \in BOOLEAN /\ reg \in [val : BOOLEAN, tgt : Target, own : Master]
  BY DEF Bookkeeping, TypeOK
<1>2. reg.val => req_reg
  BY DEF Bookkeeping
<1>3. CASE ~req_reg
  <2>1. Captured(m, s) = 0
    BY <1>2, <1>3 DEF Captured
  <2>2. Captured(m, s)' = 0
    BY <1>1, <1>2, <1>3 DEF FabricStep, Captured
  <2>3. Granted(m, gnt) /\ mreq[m] = s <=> Pushes(s, gnt) /\ xfer_own = m
    BY <1>3 DEF Granted, Pushes, Xfer, xfer_tgt, xfer_own, tgt
  <2> QED BY <2>1, <2>2, <2>3 DEF One
<1>4. CASE req_reg /\ Accepted(gnt)
  <2>1. ~reg.val \/ RXfer(gnt)
    BY <1>4 DEF Accepted
  <2>2. Captured(m, s) = One(Pushes(s, gnt) /\ xfer_own = m)
    BY <1>4, <2>1 DEF Captured, One, Pushes, Xfer, RXfer, xfer_tgt, xfer_own
  <2>3. Captured(m, s)' = One(Granted(m, gnt) /\ mreq[m] = s)
    <3>1. reg' = [val |-> TRUE, tgt |-> tgt, own |-> winner]
      BY <1>4 DEF FabricStep
    <3> QED BY <3>1, <1>4 DEF Captured, One, Granted, tgt
  <2> QED BY <2>2, <2>3 DEF One
<1>5. CASE req_reg /\ ~Accepted(gnt)
  <2>1. reg' = [reg EXCEPT !.val = @ /\ ~RXfer(gnt)]
    BY <1>5 DEF FabricStep
  <2>2. One(Granted(m, gnt) /\ mreq[m] = s) = 0
    BY <1>5 DEF Granted, One
  <2>3. Pushes(s, gnt) /\ xfer_own = m <=> RXfer(gnt) /\ reg.tgt = s /\ reg.own = m
    BY <1>5 DEF Pushes, Xfer, xfer_tgt, xfer_own
  <2>4. /\ reg'.val = (reg.val /\ ~RXfer(gnt)) /\ reg'.tgt = reg.tgt /\ reg'.own = reg.own
        /\ RXfer(gnt) => reg.val
    BY <1>1, <2>1 DEF RXfer
  <2>5. CASE RXfer(gnt)
    <3>1. Captured(m, s)' = 0 /\ Captured(m, s) = One(RXfer(gnt) /\ reg.tgt = s /\ reg.own = m)
      BY <2>4, <2>5 DEF Captured, One
    <3> QED BY <3>1, <2>2, <2>3 DEF One
  <2>6. CASE ~RXfer(gnt)
    <3>a. reg'.val = reg.val
      BY <1>1, <2>4, <2>6
    <3>1. Captured(m, s)' = Captured(m, s) /\ Captured(m, s) \in Int
      BY <2>4, <3>a DEF Captured
    <3> QED BY <3>1, <2>2, <2>3, <2>6 DEF One
  <2> QED BY <2>5, <2>6
<1> QED BY <1>3, <1>4, <1>5

(* One edge keeps the books of a master.                                   *)
LEMMA MasterStep ==
  ASSUME Bookkeeping, NEW gnt \in SUBSET Presented, NEW rv \in SUBSET Answerable,
         FabricStep(gnt, rv), SlavesStep(gnt, rv), HistoryStep(gnt, rv),
         req_reg' = req_reg, NEW m \in Master
  PROVE  /\ cnt'[m] \in 0 .. MAX_OUT /\ lock'[m] \in Target
         /\ cnt'[m] = cnt[m] + One(Granted(m, gnt)) - One(Rvalid(m, rv))
         /\ lock'[m] = IF Granted(m, gnt) THEN mreq[m] ELSE lock[m]
         /\ out'[m] \in Seq(Target) /\ cnt'[m] = Len(out'[m])
         /\ \A k \in 1 .. Len(out'[m]) : out'[m][k] = lock'[m]
         /\ \A s \in Target : InFlight(m, s)' + Captured(m, s)' =
                              IF s = lock'[m] THEN cnt'[m] ELSE 0
<1> DEFINE g == Granted(m, gnt)
           r == Rvalid(m, rv)
<1>1. /\ cnt[m] \in 0 .. 2 /\ lock[m] \in Target /\ out[m] \in Seq(Target)
      /\ Len(out[m]) = cnt[m] /\ \A k \in 1 .. cnt[m] : out[m][k] = lock[m]
  BY Masters DEF Bookkeeping, MasterBooks, TypeOK
<1>2. g => /\ mreq[m] \in Target /\ cnt[m] < 2 /\ (cnt[m] # 0 => lock[m] = mreq[m])
  BY Granting DEF Granted
<1>3. /\ r <=> Pops(lock[m], rv) /\ Head(pend[lock[m]]) = m
      /\ r => cnt[m] > 0
  BY Answering
<1>4. cnt'[m] = Count(cnt[m], g, r) /\ lock'[m] = IF g THEN mreq[m] ELSE lock[m]
  BY DEF FabricStep
<1>5. cnt'[m] = cnt[m] + One(g) - One(r) /\ cnt'[m] \in 0 .. 2
  <2>1. cnt[m] \in {0, 1, 2}
    BY <1>1
  <2> QED BY <2>1, <1>2, <1>3, <1>4, Masters DEF Count, One
<1>6. /\ out'[m] \in Seq(Target) /\ cnt'[m] = Len(out'[m])
      /\ \A k \in 1 .. Len(out'[m]) : out'[m][k] = lock'[m]
  <2>a. PICK q : q = IF r THEN Tail(out[m]) ELSE out[m]
    OBVIOUS
  <2>b. PICK n \in Nat : n = cnt[m] - One(r)
    BY <1>1, <1>3 DEF One
  <2>1. q \in Seq(Target) /\ Len(q) = n /\ \A k \in 1 .. n : q[k] = lock[m]
    <3>1. CASE r
      <4>1. out[m] # <<>>
        BY <3>1, <1>1, <1>3, EmptySeq
      <4>2. /\ Tail(out[m]) \in Seq(Target) /\ Len(Tail(out[m])) = cnt[m] - 1
            /\ \A k \in 1 .. cnt[m] - 1 : Tail(out[m])[k] = out[m][k + 1]
        BY <4>1, <1>1, HeadTailProperties
      <4>3. cnt[m] - 1 = n /\ \A k \in 1 .. n : k + 1 \in 1 .. cnt[m]
        BY <3>1, <1>1, <2>b DEF One
      <4>4. q = Tail(out[m])
        BY <3>1, <2>a
      <4> QED BY <4>2, <4>3, <4>4, <1>1
    <3>2. CASE ~r
      <4>1. cnt[m] = n /\ q = out[m]
        BY <3>2, <1>1, <2>a, <2>b DEF One
      <4> QED BY <4>1, <1>1
    <3> QED BY <3>1, <3>2
  <2>2. out'[m] = IF g THEN Append(q, mreq[m]) ELSE q
    <3>1. r => out[m] # <<>>
      BY <1>1, <1>3, EmptySeq
    <3> QED BY <3>1, <2>a DEF HistoryStep, Add, Drop
  <2>3. CASE g
    <3>1. /\ out'[m] \in Seq(Target) /\ Len(out'[m]) = n + 1
          /\ \A k \in 1 .. n : out'[m][k] = q[k]
          /\ out'[m][n + 1] = mreq[m]
      BY <2>1, <2>2, <2>3, <1>2, AppendProperties
    <3>2. \A k \in 1 .. n : q[k] = mreq[m]
      <4>1. n # 0 => cnt[m] # 0
        BY <2>b, <1>1, <1>3 DEF One
      <4>2. n = 0 => 1 .. n = {}
        OBVIOUS
      <4> QED BY <4>1, <4>2, <2>1, <2>3, <1>2
    <3>3. cnt'[m] = n + 1
      BY <2>b, <2>3, <1>1, <1>5 DEF One
    <3>4. \A k \in 1 .. n + 1 : out'[m][k] = mreq[m]
      BY <3>1, <3>2
    <3> QED BY <3>1, <3>3, <3>4, <2>3, <1>4
  <2>4. CASE ~g
    <3>1. cnt'[m] = n
      BY <2>b, <2>4, <1>1, <1>5 DEF One
    <3>2. out'[m] = q /\ lock'[m] = lock[m]
      BY <2>2, <2>4, <1>4
    <3> QED BY <3>1, <3>2, <2>1
  <2> QED BY <2>3, <2>4
<1>7. ASSUME NEW s \in Target
      PROVE  InFlight(m, s)' + Captured(m, s)' = IF s = lock'[m] THEN cnt'[m] ELSE 0
  <2>1. /\ Held(pend[s], m) \in Int /\ Captured(m, s) \in Int
        /\ Held(pend[s], m) + Captured(m, s) = IF s = lock[m] THEN cnt[m] ELSE 0
    <3>1. Held(pend[s], m) \in Int
      BY HeldInt DEF Bookkeeping, TypeOK
    <3>2. InFlight(m, s) + Captured(m, s) = IF s = lock[m] THEN cnt[m] ELSE 0
      BY DEF Bookkeeping, MasterBooks
    <3>3. InFlight(m, s) = Held(pend[s], m)
      BY HeldOf
    <3> QED BY <3>1, <3>2, <3>3 DEF Captured
  <2>2. InFlight(m, s)' = Held(pend'[s], m)
    BY DEF InFlight, Held
  <2>3. Held(pend'[s], m) = Held(pend[s], m) + One(Pushes(s, gnt) /\ xfer_own = m)
                            - One(Pops(s, rv) /\ Head(pend[s]) = m)
    BY SlaveStep
  <2>4. Captured(m, s)' = Captured(m, s) + One(g /\ mreq[m] = s)
                          - One(Pushes(s, gnt) /\ xfer_own = m)
    BY CapturedStep
  <2>5. Pops(s, rv) /\ Head(pend[s]) = m <=> r /\ s = lock[m]
    BY Answering, <1>3 DEF Pops
  <2>6. InFlight(m, s)' + Captured(m, s)' = (IF s = lock[m] THEN cnt[m] ELSE 0)
                          + One(g /\ mreq[m] = s) - One(r /\ s = lock[m])
    BY <2>1, <2>2, <2>3, <2>4, <2>5 DEF One
  <2>7. CASE g
    <3>1. /\ One(g /\ mreq[m] = s) = One(mreq[m] = s)
          /\ lock'[m] = mreq[m] /\ cnt'[m] = cnt[m] + 1 - One(r)
      BY <2>7, <1>1, <1>4, <1>5 DEF One
    <3> QED BY <3>1, <2>6, <2>7, <1>1, <1>2, <1>3 DEF One
  <2>8. CASE ~g
    <3>1. /\ One(g /\ mreq[m] = s) = 0
          /\ lock'[m] = lock[m] /\ cnt'[m] = cnt[m] - One(r)
      BY <2>8, <1>1, <1>4, <1>5 DEF One
    <3> QED BY <3>1, <2>6, <1>1 DEF One
  <2> QED BY <2>7, <2>8
<1> QED BY <1>1, <1>2, <1>4, <1>5, <1>6, <1>7, Masters

-----------------------------------------------------------------------------
(* The inductive invariant.                                                *)

(* A master that has been passed can still issue, and the grant that       *)
(* passed it left the arbiter in its favour.                               *)
Overtaken(m) == passed[m] # 0 => /\ passed[m] = 1 /\ CanIssue(m)
                                 /\ last_was_d <=> m = "i"

IInv == Bookkeeping /\ \A m \in Master : Overtaken(m)

(* The state reset puts everything in.                                     *)
Blank ==
  /\ req_reg \in BOOLEAN /\ rst = TRUE
  /\ issue_en = FALSE /\ last_was_d = FALSE /\ err_rvalid = FALSE
  /\ cnt = [m \in Master |-> 0] /\ lock = [m \in Master |-> Slave0]
  /\ q_owner = [s \in Target |-> [k \in 0 .. QD - 1 |-> "i"]]
  /\ q_fill = [s \in Target |-> 0]
  /\ reg = NoReg
  /\ mreq \in [Master -> Target \union {None}]
  /\ pend = [s \in Target |-> <<>>] /\ out = [m \in Master |-> <<>>]
  /\ passed = [m \in Master |-> 0]

(* The invariant holds in the reset state.                                 *)
LEMMA BlankInv == Blank => IInv
<1> SUFFICES ASSUME Blank PROVE IInv
  OBVIOUS
<1>1. <<>> \in Seq(Master) /\ <<>> \in Seq(Target) /\ Len(<<>>) = 0
  OBVIOUS
<1>2. Slave0 \in Target /\ ErrSlv \in Target /\ "i" \in Master
  BY BusAssumption, Masters DEF Target
<1>3. TypeOK
  <2>1. /\ req_reg \in BOOLEAN /\ rst \in BOOLEAN /\ issue_en \in BOOLEAN
        /\ last_was_d \in BOOLEAN /\ err_rvalid \in BOOLEAN
        /\ mreq \in [Master -> Target \union {None}]
    BY DEF Blank
  <2>2. cnt \in [Master -> 0 .. MAX_OUT] /\ passed \in [Master -> 0 .. 2]
    BY Masters DEF Blank
  <2>3. lock \in [Master -> Target]
    BY <1>2 DEF Blank
  <2>4. q_fill \in [Target -> 0 .. QD - 1]
    BY Masters DEF Blank
  <2>5. q_owner \in [Target -> [0 .. QD - 1 -> Master]]
    BY <1>2 DEF Blank
  <2>6. reg \in [val : BOOLEAN, tgt : Target, own : Master]
    BY <1>2 DEF Blank, NoReg
  <2>7. pend \in [Target -> Seq(Master)] /\ out \in [Master -> Seq(Target)]
    BY <1>1 DEF Blank
  <2> QED BY <2>1, <2>2, <2>3, <2>4, <2>5, <2>6, <2>7 DEF TypeOK
<1>4. ASSUME NEW s \in Target
      PROVE  SlaveBooks(s)
  <2>1. Len(pend[s]) = 0 /\ q_fill[s] = 0 /\ 0 % QD = 0 /\ 0 <= QD /\ 1 .. 0 = {}
    BY <1>1, Masters DEF Blank
  <2> QED BY <2>1 DEF SlaveBooks
<1>5. ASSUME NEW m \in Master
      PROVE  MasterBooks(m)
  <2>1. cnt[m] = 0 /\ Len(out[m]) = 0 /\ 1 .. 0 = {}
    BY <1>1 DEF Blank
  <2>2. \A s \in Target : InFlight(m, s) = 0 /\ Captured(m, s) = 0
    BY <1>1 DEF Blank, InFlight, Captured, NoReg
  <2> QED BY <2>1, <2>2 DEF MasterBooks
<1>6. Len(pend[ErrSlv]) = IF err_rvalid THEN 1 ELSE 0
  BY <1>1, <1>2 DEF Blank
<1>7. ~reg.val /\ ~issue_en /\ out = [m \in Master |-> <<>>] /\ \A m \in Master : passed[m] = 0
  BY DEF Blank, NoReg
<1>8. Bookkeeping
  BY <1>3, <1>4, <1>5, <1>6, <1>7 DEF Bookkeeping
<1> QED BY <1>7, <1>8 DEF IInv, Overtaken

(* The invariant holds at the start.                                       *)
LEMMA InitInv == Init => IInv
<1>1. Init => Blank
  BY DEF Init, Blank
<1> QED BY <1>1, BlankInv

(* The invariant's first half is kept by a clock edge.                     *)
LEMMA CycleBooks ==
  ASSUME Bookkeeping, NEW gnt \in SUBSET Presented, NEW rv \in SUBSET Answerable,
         Cycle(gnt, rv)
  PROVE  Bookkeeping'
<1>1. FabricStep(gnt, rv) /\ SlavesStep(gnt, rv) /\ HistoryStep(gnt, rv)
      /\ MastersStep(gnt) /\ req_reg' = req_reg /\ rst' = rst /\ ~rst
  BY DEF Cycle
<1>2. TypeOK
  BY DEF Bookkeeping
<1>3. TypeOK'
  <2>1. req_reg' \in BOOLEAN /\ rst' \in BOOLEAN /\ issue_en' \in BOOLEAN
        /\ mreq' \in [Master -> Target \union {None}]
    BY <1>1, <1>2 DEF TypeOK, FabricStep, MastersStep
  <2>2. last_was_d' \in BOOLEAN /\ err_rvalid' \in BOOLEAN
    BY <1>1, <1>2 DEF TypeOK, FabricStep, d_wins, CanIssue, Xfer, RXfer, Accepted, any_win
  <2>3. reg' \in [val : BOOLEAN, tgt : Target, own : Master]
    <3>1. CASE req_reg /\ Accepted(gnt)
      BY <3>1, <1>1, Granting DEF FabricStep
    <3>2. CASE ~(req_reg /\ Accepted(gnt))
      BY <3>2, <1>1, <1>2 DEF FabricStep, TypeOK, RXfer
    <3> QED BY <3>1, <3>2
  <2>4. cnt' \in [Master -> 0 .. MAX_OUT] /\ lock' \in [Master -> Target]
        /\ out' \in [Master -> Seq(Target)]
    <3>1. /\ cnt' = [m \in Master |-> cnt'[m]] /\ lock' = [m \in Master |-> lock'[m]]
          /\ out' = [m \in Master |-> out'[m]]
      BY <1>1 DEF FabricStep, HistoryStep
    <3>2. \A m \in Master : cnt'[m] \in 0 .. MAX_OUT /\ lock'[m] \in Target /\ out'[m] \in Seq(Target)
      BY <1>1, MasterStep
    <3> QED BY <3>1, <3>2
  <2>5. /\ q_owner' \in [Target -> [0 .. QD - 1 -> Master]]
        /\ q_fill' \in [Target -> 0 .. QD - 1] /\ pend' \in [Target -> Seq(Master)]
    <3>1. /\ q_owner' = [s \in Target |-> q_owner'[s]] /\ q_fill' = [s \in Target |-> q_fill'[s]]
          /\ pend' = [s \in Target |-> pend'[s]]
      BY <1>1 DEF FabricStep, SlavesStep
    <3>2. \A s \in Target : /\ q_owner'[s] \in [0 .. QD - 1 -> Master]
                             /\ q_fill'[s] \in 0 .. QD - 1 /\ pend'[s] \in Seq(Master)
      BY <1>1, SlaveStep
    <3> QED BY <3>1, <3>2
  <2>6. passed' \in [Master -> 0 .. 2]
    <3>a. \A m \in Master : passed[m] \in 0 .. 2
      BY <1>2 DEF TypeOK
    <3>1. \A m \in Master : passed[m] \in 0 .. 2 /\ (passed[m] < 2 => passed[m] + 1 \in 0 .. 2)
      BY <3>a
    <3> QED BY <3>1, <1>1 DEF HistoryStep
  <2> QED BY <2>1, <2>2, <2>3, <2>4, <2>5, <2>6 DEF TypeOK
<1>4. \A s \in Target : SlaveBooks(s)'
  BY <1>1, SlaveStep DEF SlaveBooks
<1>5. \A m \in Master : MasterBooks(m)'
  BY <1>1, MasterStep DEF MasterBooks
<1>6. Len(pend'[ErrSlv]) = IF err_rvalid' THEN 1 ELSE 0
  <2>1. ErrSlv \in Target /\ (Pops(ErrSlv, rv) <=> err_rvalid)
    BY BusAssumption DEF Target, Pops, SlvRvalid, Answerable
  <2>2. Len(pend[ErrSlv]) = One(err_rvalid)
    BY DEF Bookkeeping, One
  <2>3. Len(pend'[ErrSlv]) = Len(pend[ErrSlv]) + One(Pushes(ErrSlv, gnt)) - One(Pops(ErrSlv, rv))
    BY <1>1, <2>1, SlaveStep
  <2>4. One(Pops(ErrSlv, rv)) = One(err_rvalid)
    BY <2>1 DEF One
  <2>5. Len(pend'[ErrSlv]) = One(Pushes(ErrSlv, gnt))
    BY <2>2, <2>3, <2>4 DEF One
  <2> QED BY <2>5, <1>1 DEF FabricStep, Pushes, One
<1>7. reg'.val => req_reg'
  BY <1>1, <1>2 DEF FabricStep, Bookkeeping, TypeOK
<1>8. rst' => ~issue_en' /\ out' = [m \in Master |-> <<>>]
  BY <1>1
<1> QED BY <1>3, <1>4, <1>5, <1>6, <1>7, <1>8 DEF Bookkeeping

(* Its second half: the arbiter cannot pass the same master twice.         *)
LEMMA CycleOvertaken ==
  ASSUME IInv, NEW gnt \in SUBSET Presented, NEW rv \in SUBSET Answerable,
         Cycle(gnt, rv), NEW m \in Master
  PROVE  Overtaken(m)'
<1>1. Bookkeeping /\ TypeOK /\ Overtaken(m)
  BY DEF IInv, Bookkeeping
<1>2. FabricStep(gnt, rv) /\ SlavesStep(gnt, rv) /\ HistoryStep(gnt, rv)
      /\ MastersStep(gnt) /\ req_reg' = req_reg
  BY DEF Cycle
<1>3. SUFFICES ASSUME passed'[m] # 0
               PROVE  passed'[m] = 1 /\ CanIssue(m)' /\ (last_was_d' <=> m = "i")
  BY DEF Overtaken
<1>4. CanIssue(m) /\ ~Granted(m, gnt)
  BY <1>2, <1>3 DEF HistoryStep
<1>5. CanIssue(m)'
  <2>1. /\ mreq[m] # None /\ (cnt[m] = 0 \/ (lock[m] = mreq[m] /\ cnt[m] < MAX_OUT))
        /\ mreq'[m] = mreq[m] /\ issue_en'
    BY <1>2, <1>4 DEF CanIssue, MastersStep, FabricStep
  <2>2. cnt[m] \in 0 .. 2 /\ cnt'[m] \in 0 .. 2
    BY <1>1, <1>2, MasterStep, Masters DEF TypeOK
  <2>3. /\ cnt'[m] = cnt[m] + One(Granted(m, gnt)) - One(Rvalid(m, rv))
        /\ lock'[m] = IF Granted(m, gnt) THEN mreq[m] ELSE lock[m]
    BY <1>1, <1>2, MasterStep
  <2>4. lock'[m] = lock[m] /\ cnt'[m] = cnt[m] - One(Rvalid(m, rv))
    BY <2>2, <2>3, <1>4 DEF One
  <2>5. cnt'[m] <= cnt[m]
    BY <2>2, <2>4 DEF One
  <2>6. cnt'[m] = 0 \/ (lock'[m] = mreq'[m] /\ cnt'[m] < 2)
    BY <2>1, <2>2, <2>4, <2>5, Masters
  <2> QED BY <2>1, <2>6, Masters DEF CanIssue
<1>6. CASE ~Accepted(gnt)
  <2>1. passed'[m] = passed[m] /\ last_was_d' = last_was_d
    BY <1>2, <1>4, <1>6 DEF HistoryStep, FabricStep
  <2> QED BY <2>1, <1>1, <1>3, <1>5 DEF Overtaken
<1>7. CASE Accepted(gnt)
  <2>1. winner # m
    BY <1>4, <1>7 DEF Granted
  <2>2. d_wins <=> m = "i"
    BY <2>1, Masters DEF winner
  <2>3. passed[m] = 0
    <3>1. SUFFICES ASSUME passed[m] # 0 PROVE FALSE
      OBVIOUS
    <3>2. last_was_d <=> m = "i"
      BY <3>1, <1>1 DEF Overtaken
    <3> QED BY <3>2, <2>2, <1>4, Masters DEF d_wins
  <2>4. passed'[m] = 1
    BY <2>3, <1>2, <1>4, <1>7 DEF HistoryStep
  <2>5. last_was_d' = d_wins
    BY <1>2, <1>7 DEF FabricStep
  <2> QED BY <2>2, <2>4, <2>5, <1>5
<1> QED BY <1>6, <1>7

(* Asserting reset re-establishes the invariant.                           *)
LEMMA ResetInv == TypeOK /\ AssertReset => IInv'
<1>1. TypeOK /\ AssertReset => Blank'
  BY DEF TypeOK, AssertReset, ResetFabric, Blank
<1>2. Blank' => IInv'
  BY BlankInv, PTL
<1> QED BY <1>1, <1>2

(* While reset is asserted nothing is captured, held or answered.          *)
LEMMA ResetQuiet ==
  ASSUME Bookkeeping, rst
  PROVE  /\ ~reg.val /\ ~err_rvalid /\ SlvRvalid({}) = {}
         /\ \A m \in Master : ~CanIssue(m)
         /\ ~any_win
<1>1. TypeOK /\ ~issue_en /\ \A m \in Master : out[m] = <<>>
  BY DEF Bookkeeping
<1>2. \A m \in Master : cnt[m] = 0
  BY <1>1 DEF Bookkeeping, MasterBooks
<1>3. \A m \in Master, s \in Target :
        /\ InFlight(m, s) \in Nat /\ Captured(m, s) \in {0, 1}
        /\ InFlight(m, s) + Captured(m, s) = 0
  <2> SUFFICES ASSUME NEW m \in Master, NEW s \in Target
               PROVE  /\ InFlight(m, s) \in Nat /\ Captured(m, s) \in {0, 1}
                      /\ InFlight(m, s) + Captured(m, s) = 0
    OBVIOUS
  <2>1. InFlight(m, s) + Captured(m, s) = IF s = lock[m] THEN cnt[m] ELSE 0
    BY DEF Bookkeeping, MasterBooks
  <2>2. Held(pend[s], m) \in 0 .. 4
    BY <1>1, HeldRange DEF TypeOK
  <2> QED BY <2>1, <2>2, <1>2, HeldOf DEF Captured
<1>4. ~reg.val
  <2>1. reg.tgt \in Target /\ reg.own \in Master
    BY <1>1 DEF TypeOK
  <2>2. Captured(reg.own, reg.tgt) = 0
    BY <2>1, <1>3
  <2> QED BY <2>2 DEF Captured
<1>5. ~err_rvalid
  <2>1. ErrSlv \in Target /\ pend[ErrSlv] \in Seq(Master) /\ Len(pend[ErrSlv]) <= 4
    BY <1>1, Masters DEF Bookkeeping, SlaveBooks, TypeOK, Target
  <2>2. Held(pend[ErrSlv], "i") = 0 /\ Held(pend[ErrSlv], "d") = 0
    BY <2>1, <1>3, HeldOf, Masters
  <2>3. Len(pend[ErrSlv]) = 0
    BY <2>1, <2>2, HeldTotal
  <2> QED BY <2>3 DEF Bookkeeping
<1>6. SlvRvalid({}) = {}
  BY <1>5 DEF SlvRvalid
<1>7. (\A m \in Master : ~CanIssue(m)) /\ ~any_win
  BY <1>1 DEF CanIssue, any_win, d_wins, i_wins
<1> QED BY <1>4, <1>5, <1>6, <1>7

(* An edge under reset changes nothing the invariant is about.             *)
LEMMA ResetCycleInv ==
  ASSUME IInv, NEW gnt \in SUBSET Presented, ResetCycle(gnt)
  PROVE  IInv'
<1>1. Bookkeeping /\ TypeOK /\ rst
  BY DEF IInv, Bookkeeping, ResetCycle
<1>2. ~Accepted(gnt) /\ ~Xfer(gnt)
  BY <1>1, ResetQuiet DEF Accepted, Xfer, RXfer
<1>3. /\ pend' = [s \in Target |-> pend[s]] /\ out' = [m \in Master |-> out[m]]
      /\ passed' = [m \in Master |-> 0]
  BY <1>1, <1>2, ResetQuiet
     DEF ResetCycle, SlavesStep, HistoryStep, Add, Granted, Rvalid, RespTo
<1>4. pend' = pend /\ out' = out
  BY <1>1, <1>3 DEF TypeOK
<1>5. UNCHANGED <<req_reg, fabric>> /\ rst' \in BOOLEAN
      /\ mreq' \in [Master -> Target \union {None}]
  BY DEF ResetCycle, MastersStep
<1>6. TypeOK'
  <2>1. passed' \in [Master -> 0 .. 2]
    BY <1>3
  <2> QED BY <2>1, <1>1, <1>4, <1>5 DEF TypeOK, fabric
<1>7. \A m, s : InFlight(m, s)' = InFlight(m, s) /\ Captured(m, s)' = Captured(m, s)
  BY <1>4, <1>5 DEF InFlight, Captured, fabric
<1>8. Bookkeeping'
  BY <1>1, <1>4, <1>5, <1>6, <1>7 DEF Bookkeeping, SlaveBooks, MasterBooks, fabric
<1>9. \A m \in Master : passed'[m] = 0
  BY <1>3
<1> QED BY <1>8, <1>9 DEF IInv, Overtaken

(* Every step keeps the invariant.                                         *)
LEMMA NextInv == IInv /\ [Next]_vars => IInv'
<1> SUFFICES ASSUME IInv, [Next]_vars PROVE IInv'
  OBVIOUS
<1>1. ASSUME NEW gnt \in SUBSET Presented, NEW rv \in SUBSET Answerable, Cycle(gnt, rv)
      PROVE  IInv'
  BY <1>1, CycleBooks, CycleOvertaken DEF IInv
<1>2. ASSUME NEW gnt \in SUBSET Presented, ResetCycle(gnt)
      PROVE  IInv'
  BY <1>2, ResetCycleInv
<1>3. CASE AssertReset
  BY <1>3, ResetInv DEF IInv, Bookkeeping
<1>4. CASE UNCHANGED vars
  <2>1. UNCHANGED <<req_reg, rst, issue_en, last_was_d, cnt, lock, q_owner, q_fill,
                    err_rvalid, reg, mreq, pend, out, passed>>
    BY <1>4 DEF vars, fabric
  <2>2. TypeOK' = TypeOK
    BY <2>1 DEF TypeOK
  <2>3. \A m, s : InFlight(m, s)' = InFlight(m, s) /\ Captured(m, s)' = Captured(m, s)
    BY <2>1 DEF InFlight, Captured
  <2>4. Bookkeeping'
    BY <2>1, <2>2, <2>3 DEF IInv, Bookkeeping, SlaveBooks, MasterBooks
  <2>5. \A m \in Master : Overtaken(m)'
    BY <2>1 DEF IInv, Overtaken, CanIssue
  <2> QED BY <2>4, <2>5 DEF IInv
<1> QED BY <1>1, <1>2, <1>3, <1>4 DEF Next

(* The invariant holds in every reachable state.                           *)
LEMMA SpecInv == Spec => []IInv
BY InitInv, NextInv, PTL DEF Spec

(* Routing follows from the books: the head of a slave's queue fixes the   *)
(* lock of its owner, and a master has one lock.                           *)
LEMMA Routed == IInv => ResponsesRouted
<1> SUFFICES ASSUME IInv, NEW s \in Target, pend[s] # <<>>
             PROVE  /\ q_owner[s][0] = Head(pend[s])
                    /\ out[Head(pend[s])] # <<>> /\ Head(out[Head(pend[s])]) = s
                    /\ \A t \in Target \ {s} : pend[t] # <<>> => Head(pend[t]) # Head(pend[s])
                    /\ Len(pend[s]) <= QD
  BY DEF ResponsesRouted
<1>1. Bookkeeping /\ TypeOK
  BY DEF IInv, Bookkeeping
<1>2. \A t \in Target : pend[t] # <<>> =>
        /\ Head(pend[t]) \in Master /\ q_owner[t][0] = Head(pend[t])
        /\ lock[Head(pend[t])] = t /\ cnt[Head(pend[t])] > 0
  <2> SUFFICES ASSUME NEW t \in Target, pend[t] # <<>>
               PROVE  /\ Head(pend[t]) \in Master /\ q_owner[t][0] = Head(pend[t])
                      /\ lock[Head(pend[t])] = t /\ cnt[Head(pend[t])] > 0
    OBVIOUS
  <2> QED BY <1>1, HeadOwner
<1>3. PICK m \in Master : m = Head(pend[s])
  BY <1>2
<1>4. out[m] # <<>> /\ Head(out[m]) = s
  <2>1. /\ out[m] \in Seq(Target) /\ cnt[m] = Len(out[m]) /\ cnt[m] \in 0 .. 2
        /\ \A k \in 1 .. Len(out[m]) : out[m][k] = lock[m]
    BY <1>1, Masters DEF Bookkeeping, MasterBooks, TypeOK
  <2>2. cnt[m] > 0 /\ lock[m] = s
    BY <1>2, <1>3
  <2>3. out[m] # <<>> /\ 1 \in 1 .. Len(out[m])
    BY <2>1, <2>2
  <2>4. Head(out[m]) = out[m][1]
    BY <2>1, <2>3, HeadTailProperties
  <2> QED BY <2>1, <2>2, <2>3, <2>4
<1>5. \A t \in Target \ {s} : pend[t] # <<>> => Head(pend[t]) # m
  BY <1>2, <1>3
<1>6. Len(pend[s]) <= QD
  BY <1>1 DEF Bookkeeping, SlaveBooks
<1> QED BY <1>2, <1>3, <1>4, <1>5, <1>6

-----------------------------------------------------------------------------
(* soc_bus.v's counters, locks and ownership queues agree with what the    *)
(* masters were granted and the slaves hold, in every reachable state.     *)
THEOREM BooksAgree == Spec => []Bookkeeping
BY SpecInv, PTL DEF IInv

(* Whatever slave answers next, the answer goes to the master that asked,  *)
(* in the order it asked, alone in its cycle, and no ownership queue       *)
(* overflows.                                                              *)
THEOREM ResponsesReachTheirMaster == Spec => []ResponsesRouted
<1>1. IInv => ResponsesRouted
  BY Routed
<1> QED BY <1>1, SpecInv, PTL

(* A master that can issue sees at most one grant to the other one before  *)
(* its own, for any slave behaviour.                                       *)
THEOREM OvertakenAtMostOnce == Spec => []BoundedOvertaking
<1>1. IInv => BoundedOvertaking
  BY DEF IInv, Overtaken, BoundedOvertaking
<1> QED BY <1>1, SpecInv, PTL

-----------------------------------------------------------------------------
(* The clock gate.                                                         *)

(* An edge at which clk_en_o is low pushes nothing, pops nothing and       *)
(* grants nothing.                                                         *)
LEMMA IdleCycle ==
  ASSUME IInv, NEW gnt \in SUBSET Presented, NEW rv \in SUBSET Answerable,
         Cycle(gnt, rv), ~clk_en({s \in Slave : pend'[s] # pend[s]})
  PROVE  UNCHANGED fabric
<1>1. TypeOK /\ Bookkeeping
  BY DEF IInv, Bookkeeping
<1>2. FabricStep(gnt, rv) /\ SlavesStep(gnt, rv)
  BY DEF Cycle
<1>3. /\ issue_en /\ mreq = [m \in Master |-> None]
      /\ {s \in Slave : pend'[s] # pend[s]} = {} /\ ~err_rvalid /\ ~reg.val
  BY DEF clk_en
<1>4. ~any_win /\ ~Accepted(gnt) /\ ~RXfer(gnt) /\ ~Xfer(gnt)
  <2>1. \A m \in Master : ~CanIssue(m)
    BY <1>3 DEF CanIssue
  <2>2. ~any_win
    BY <2>1, Masters DEF any_win, d_wins, i_wins
  <2> QED BY <2>2, <1>3 DEF Accepted, Xfer, RXfer
<1>5. SlvRvalid(rv) = {}
  <2> SUFFICES ASSUME NEW s \in rv PROVE FALSE
    BY <1>3 DEF SlvRvalid
  <2>1. s \in Slave /\ s \in Target /\ pend[s] # <<>> /\ pend[s] \in Seq(Master)
    BY <1>1 DEF Answerable, Target, TypeOK
  <2>2. pend'[s] = Tail(pend[s])
    BY <2>1, <1>2, <1>4 DEF SlavesStep, SlvRvalid, Add, Drop
  <2>3. Len(Tail(pend[s])) = Len(pend[s]) - 1 /\ Len(pend[s]) \in Nat
    BY <2>1, HeadTailProperties, LenProperties
  <2>4. pend'[s] # pend[s]
    <3>1. PICK n \in Nat : n = Len(pend[s])
      BY <2>3
    <3>2. n - 1 # n
      OBVIOUS
    <3>3. Tail(pend[s]) # pend[s]
      BY <3>1, <3>2, <2>3
    <3> QED BY <3>3, <2>2
  <2> QED BY <2>1, <2>4, <1>3
<1>6. /\ \A m \in Master : ~Granted(m, gnt) /\ ~Rvalid(m, rv)
      /\ \A s : ~(Xfer(gnt) /\ xfer_tgt = s) /\ s \notin SlvRvalid(rv)
  BY <1>4, <1>5 DEF Granted, Rvalid, RespTo
<1>7. cnt' = cnt /\ lock' = lock
  <2>1. cnt' = [m \in Master |-> cnt[m]] /\ lock' = [m \in Master |-> lock[m]]
    BY <1>2, <1>6 DEF FabricStep, Count
  <2> QED BY <2>1, <1>1 DEF TypeOK
<1>8. q_owner' = q_owner /\ q_fill' = q_fill
  <2>1. q_owner' = [s \in Target |-> q_owner[s]] /\ q_fill' = [s \in Target |-> q_fill[s]]
    BY <1>2, <1>6 DEF FabricStep, OwnerNext, Count
  <2> QED BY <2>1, <1>1 DEF TypeOK
<1>9. issue_en' = issue_en /\ last_was_d' = last_was_d /\ err_rvalid' = err_rvalid
  BY <1>1, <1>2, <1>3, <1>4 DEF FabricStep, TypeOK
<1>10. reg' = reg
  <2>1. reg' = [reg EXCEPT !.val = FALSE]
    BY <1>2, <1>3, <1>4 DEF FabricStep
  <2>2. reg \in [val : BOOLEAN, tgt : Target, own : Master] /\ reg.val = FALSE
    BY <1>1, <1>3 DEF TypeOK
  <2> QED BY <2>1, <2>2
<1> QED BY <1>7, <1>8, <1>9, <1>10 DEF fabric

(* An edge that clk_en_o releases changes no register of the fabric.       *)
THEOREM GatingIsSafe == Spec => GateSafe
<1>1. IInv /\ [Next]_vars => [~rst /\ ~rst' /\ ~clk_en({s \in Slave : pend'[s] # pend[s]})
                               => UNCHANGED fabric]_vars
  <2> SUFFICES ASSUME IInv, [Next]_vars,
                      ~rst, ~rst', ~clk_en({s \in Slave : pend'[s] # pend[s]})
               PROVE  UNCHANGED fabric
    OBVIOUS
  <2>1. ASSUME NEW gnt \in SUBSET Presented, NEW rv \in SUBSET Answerable, Cycle(gnt, rv)
        PROVE  UNCHANGED fabric
    BY <2>1, IdleCycle
  <2>2. ASSUME NEW gnt \in SUBSET Presented, ResetCycle(gnt)
        PROVE  UNCHANGED fabric
    BY <2>2 DEF ResetCycle
  <2>3. CASE AssertReset
    BY <2>3 DEF AssertReset
  <2>4. CASE UNCHANGED vars
    BY <2>4 DEF vars
  <2> QED BY <2>1, <2>2, <2>3, <2>4 DEF Next
<1> QED BY <1>1, SpecInv, PTL DEF Spec, GateSafe
=============================================================================
