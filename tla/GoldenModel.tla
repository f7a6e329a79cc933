---------------------------- MODULE GoldenModel -----------------------------
(***************************************************************************)
(* sw/golden/: the bit-exact model of the accelerator.                     *)
(*   secded.py    the (72, 64) code of the weight memory and the fault     *)
(*                counters its decoder feeds.  A word is the set of its    *)
(*                bits that are 1: data bits are 0 .. 63, check bits       *)
(*                64 .. 71; a column or syndrome is a set of check-bit     *)
(*                numbers, 0 .. 7.                                         *)
(*   lif_core.py  the neuron core, and in network.py the layers of a       *)
(*                network run tile by tile through one core.  Neurons and  *)
(*                axons are numbered from 0, weights are [axon][neuron], a *)
(*                timestep is the sequence of the axons of its events, and *)
(*                a frame list a sequence of timesteps.  A core's state is *)
(*                its potentials v and its refractory counts r.            *)
(***************************************************************************)
EXTENDS Integers, Sequences, FiniteSets, FiniteSetsExt, SequencesExt

(* secded.py.                                                              *)
DATA_BITS  == 64
CHECK_BITS == 8
CODE_BITS  == DATA_BITS + CHECK_BITS

Xor(a, b) == (a \ b) \cup (b \ a)
Odd(s)    == Cardinality(s) % 2 = 1

(* Columns by ascending value: the weight-3 ones, then the complements of  *)
(* eight of them.                                                          *)
Bits(n) == {i \in 0 .. CHECK_BITS - 1 : (n \div 2 ^ i) % 2 = 1}
COLUMNS ==
  SelectSeq([n \in 1 .. 255 |-> Bits(n)], LAMBDA c : Cardinality(c) = 3)
  \o [k \in 1 .. 8 |-> Bits(<<31, 47, 79, 143, 241, 242, 244, 248>>[k])]

column_of_bit == [i \in 0 .. CODE_BITS - 1 |->
                    IF i < DATA_BITS THEN COLUMNS[i + 1] ELSE {i - DATA_BITS}]
ROW_MASKS == [i \in 0 .. CHECK_BITS - 1 |->
                {j \in 0 .. DATA_BITS - 1 : i \in column_of_bit[j]}]

Data(code) == {b \in code : b < DATA_BITS}
check_bits(data) == {i \in 0 .. CHECK_BITS - 1 : Odd(data \cap ROW_MASKS[i])}
encode(data) == data \cup {DATA_BITS + i : i \in check_bits(data)}
syndrome(code) ==
  Xor(check_bits(Data(code)), {b - DATA_BITS : b \in code \ Data(code)})
flip(code, positions) == FoldLeft(LAMBDA c, p : Xor(c, {p}), code, positions)

Result(data, sec, ded, s, index) ==
  [data |-> data, sec |-> sec, ded |-> ded, syndrome |-> s, err_index |-> index]
(* Variant: any odd syndrome that is no column is believed to be a check   *)
(* bit's.                                                                  *)
decode_any_odd(code) ==
  LET s  == syndrome(code)
      at == {i \in DOMAIN column_of_bit : column_of_bit[i] = s}
  IN  CASE s = {}          -> Result(Data(code), FALSE, FALSE, {}, -1)
        [] s # {} /\ Odd(s) -> Result(Data(flip(code, SetToSeq(at))), TRUE, FALSE, s, 64)
        [] OTHER           -> Result(Data(code), FALSE, TRUE, s, -1)

decode(code) ==
  LET s  == syndrome(code)
      at == {i \in DOMAIN column_of_bit : column_of_bit[i] = s}
  IN  CASE s = {}           -> Result(Data(code), FALSE, FALSE, {}, -1)
        [] Odd(s) /\ at # {} -> LET i == CHOOSE i \in at : TRUE
                               IN  Result(Data(Xor(code, {i})), TRUE, FALSE, s, i)
        [] OTHER            -> Result(Data(code), FALSE, TRUE, s, -1)

-----------------------------------------------------------------------------
(* EccCounters, of a given width.  FAULT_CLR selects by mask bits 0, 1, 4; *)
(* STATUS_CLR clears the sticky flag with bit 5.                           *)
reset == [cnt_sec |-> 0, cnt_ded |-> 0, fault_addr |-> 0, ded_seen |-> FALSE]

fault_clr(c, mask) ==
  [c EXCEPT !.cnt_sec    = IF 0 \in mask THEN 0 ELSE @,
            !.cnt_ded    = IF 1 \in mask THEN 0 ELSE @,
            !.fault_addr = IF 4 \in mask THEN 0 ELSE @]
status_clr(c, mask) == [c EXCEPT !.ded_seen = @ /\ 5 \notin mask]

observe(c, result, word, max) ==
  [cnt_sec    |-> IF result.sec /\ c.cnt_sec < max THEN c.cnt_sec + 1 ELSE c.cnt_sec,
   cnt_ded    |-> IF result.ded /\ c.cnt_ded < max THEN c.cnt_ded + 1 ELSE c.cnt_ded,
   fault_addr |-> IF result.ded THEN word ELSE c.fault_addr,
   ded_seen   |-> c.ded_seen \/ result.ded]

(* One call on the block: [op, mask] or [op, flips, word].                 *)
Call(c, x, max) ==
  CASE x.op = "reset"      -> reset
    [] x.op = "fault_clr"  -> fault_clr(c, x.mask)
    [] x.op = "status_clr" -> status_clr(c, x.mask)
    [] x.op = "observe"    -> observe(c, decode(flip(encode({}), x.flips)), x.word, max)
Calls(calls, max) == FoldLeft(LAMBDA c, x : Call(c, x, max), reset, calls)

-----------------------------------------------------------------------------
(* One flipped bit, of the 72, is found and corrected; two are reported    *)
(* and the data passed on as it is; three are never passed on as clean.    *)
ErrorsHandled(data, flips) ==
  LET code == encode(data)
      d    == decode(flip(code, SetToSeq(flips)))
  IN  CASE flips = {}               -> d = Result(data, FALSE, FALSE, {}, -1)
        [] Cardinality(flips) = 1   -> /\ d.data = data /\ d.sec /\ ~d.ded
                                       /\ flips = {d.err_index}
        [] Cardinality(flips) = 2   -> /\ d.ded /\ ~d.sec
                                       /\ d.data = Data(flip(code, SetToSeq(flips)))
        [] Cardinality(flips) = 3   -> /\ d.sec # d.ded
                                       /\ d.ded => d.data = Data(flip(code, SetToSeq(flips)))

(* What the counters say is what happened since each was last cleared: a   *)
(* count is exact until it saturates, the address is the last uncorrectable*)
(* word's, and the sticky flag outlives every clear but its own.           *)
CountersTellTheTruth(calls, max) ==
  LET c == Calls(calls, max)
      Since(Clears(_)) ==
        LET last == Max({0} \cup {k \in DOMAIN calls : Clears(calls[k])})
        IN  {k \in DOMAIN calls : k > last /\ calls[k].op = "observe"}
      clears(bit, x) == x.op = "reset" \/ (x.op = "fault_clr" /\ bit \in x.mask)
      Errors(S, n) == {k \in S : Len(calls[k].flips) = n}
      addr == Errors(Since(LAMBDA x : clears(4, x)), 2)
  IN  /\ c.cnt_sec = Min({max, Cardinality(Errors(Since(LAMBDA x : clears(0, x)), 1))})
      /\ c.cnt_ded = Min({max, Cardinality(Errors(Since(LAMBDA x : clears(1, x)), 2))})
      /\ c.fault_addr = IF addr = {} THEN 0 ELSE calls[Max(addr)].word
      /\ c.ded_seen =
           (Errors(Since(LAMBDA x : x.op = "reset"
                                    \/ (x.op = "status_clr" /\ 5 \in x.mask)), 2) # {})

-----------------------------------------------------------------------------
(* lif_core.py and network.py.                                             *)
V_MAX == 2 ^ 15 - 1
V_MIN == -(2 ^ 15)
W_MIN == -8
W_MAX == 7
R_MAX == 15
WEIGHTS_PER_WORD == 16
EVENT_ID_SPAN    == 1024
SYN_SHIFT_MAX  == 7
LEAK_SHIFT_MAX == 15

sat16(x) == IF x > V_MAX THEN V_MAX ELSE IF x < V_MIN THEN V_MIN ELSE x

leak_value(v, shift) ==
  LET mag == IF v > 0 THEN v ELSE -v
      m   == IF mag \div 2 ^ shift = 0 THEN 1 ELSE mag \div 2 ^ shift
  IN  IF v = 0 THEN 0 ELSE IF v > 0 THEN v - m ELSE v + m

LIFConfig ==
  [thresh : 1 .. V_MAX, v_reset : V_MIN .. V_MAX - 1, leak_shift : 0 .. LEAK_SHIFT_MAX,
   syn_shift : 0 .. SYN_SHIFT_MAX, refr_period : 0 .. R_MAX, leak_en : BOOLEAN]
ConfigRefused(cfg) == cfg \notin LIFConfig \/ cfg.v_reset >= cfg.thresh

-----------------------------------------------------------------------------
(* LIFCore.                                                                *)
core(n_neurons, n_axons, weights, config, tile_offset) ==
  [n_neurons |-> n_neurons, n_axons |-> n_axons, weights |-> weights,
   config |-> config, tile_offset |-> tile_offset]
CoreRefused(c) ==
  \/ c.n_neurons < 1 \/ c.n_axons < 1
  \/ c.tile_offset \notin 0 .. EVENT_ID_SPAN - 1
  \/ c.tile_offset + c.n_neurons > EVENT_ID_SPAN
  \/ c.weights \notin [0 .. c.n_axons - 1 -> [0 .. c.n_neurons - 1 -> W_MIN .. W_MAX]]

Neurons(c) == 0 .. c.n_neurons - 1
reset_state(c) == [v |-> [j \in Neurons(c) |-> 0], r |-> [j \in Neurons(c) |-> 0]]
set_state(s, j, v, r) == [v |-> [s.v EXCEPT ![j] = v], r |-> [s.r EXCEPT ![j] = r]]
word_index(c, axon, j) == (axon * c.n_neurons + j) \div WEIGHTS_PER_WORD

(* One event: the neurons in ascending order, none of which another's      *)
(* update can touch.                                                       *)
Contribution(c, poisoned, axon, j) ==
  IF word_index(c, axon, j) \in poisoned THEN 0
  ELSE c.weights[axon][j] * 2 ^ c.config.syn_shift
synaptic_event(c, poisoned, s, axon) ==
  LET v     == [j \in Neurons(c) |-> sat16(s.v[j] + Contribution(c, poisoned, axon, j))]
      awake == {j \in Neurons(c) : s.r[j] = 0}
      fires == {j \in awake : v[j] >= c.config.thresh}
  IN  [v |-> [j \in Neurons(c) |-> IF j \in fires THEN c.config.v_reset
                                   ELSE IF j \in awake THEN v[j] ELSE s.v[j]],
       r |-> [j \in Neurons(c) |-> IF j \in fires THEN c.config.refr_period ELSE s.r[j]],
       spikes |-> [k \in 1 .. Cardinality(fires) |->
                     c.tile_offset + SetToSortSeq(fires, LAMBDA a, b : a < b)[k]]]

tick(c, s) ==
  [v |-> [j \in Neurons(c) |-> IF c.config.leak_en
                               THEN leak_value(s.v[j], c.config.leak_shift) ELSE s.v[j]],
   r |-> [j \in Neurons(c) |-> IF s.r[j] > 0 THEN s.r[j] - 1 ELSE 0]]

(* A timestep: its events in order, then the tick.  records: the spikes of *)
(* each event.                                                             *)
Timestep(c, poisoned, s, events) ==
  LET after == FoldLeft(LAMBDA a, axon :
                          LET e == synaptic_event(c, poisoned, a.s, axon)
                          IN  [s |-> [v |-> e.v, r |-> e.r], records |-> Append(a.records, e.spikes)],
                        [s |-> s, records |-> <<>>], events)
  IN  [s |-> tick(c, after.s), records |-> after.records]
StepRecords(c, poisoned, frames) ==
  FoldLeft(LAMBDA a, events :
             LET t == Timestep(c, poisoned, a.s, events)
             IN  [s |-> t.s, steps |-> Append(a.steps, t.records)],
           [s |-> reset_state(c), steps |-> <<>>], frames)
flatten(steps) == [t \in DOMAIN steps |-> FlattenSeq(steps[t])]
run_frames(c, poisoned, frames) == flatten(StepRecords(c, poisoned, frames).steps)

-----------------------------------------------------------------------------
(* NetworkRunner.  A layer is [weights, config].                           *)
n_axons(layer)   == Cardinality(DOMAIN layer.weights)
n_neurons(layer) == Cardinality(DOMAIN layer.weights[0])

NetworkRefused(layers, core_axons) ==
  \/ layers = <<>>
  \/ \E i \in DOMAIN layers :
       \/ n_axons(layers[i]) > core_axons
       \/ n_neurons(layers[i]) > EVENT_ID_SPAN
       \/ i > 1 /\ n_neurons(layers[i - 1]) # n_axons(layers[i])

layer_passes(layer, core_neurons) ==
  (n_neurons(layer) + core_neurons - 1) \div core_neurons
total_passes(layers, core_neurons) ==
  FoldLeft(LAMBDA n, layer : n + layer_passes(layer, core_neurons), 0, layers)

Tile(layer, core_neurons, p) ==
  LET start == (p - 1) * core_neurons
      left  == n_neurons(layer) - start
      width == IF left < core_neurons THEN left ELSE core_neurons
  IN  core(width, n_axons(layer),
           [a \in 0 .. n_axons(layer) - 1 |->
              [j \in 0 .. width - 1 |-> layer.weights[a][start + j]]],
           layer.config, start)

(* Variant: the spikes of a timestep are merged tile by tile.              *)
run_layer_by_tile(layer, core_neurons, frames) ==
  LET of(p) == StepRecords(Tile(layer, core_neurons, p), {}, frames).steps
  IN  [t \in DOMAIN frames |->
         FlattenSeq([p \in 1 .. layer_passes(layer, core_neurons) |-> FlattenSeq(of(p)[t])])]
(* The whole event stream is replayed to each tile in turn, and the spikes *)
(* of each event are then taken tile by tile.                              *)
run_layer(layer, core_neurons, frames) ==
  LET passes == layer_passes(layer, core_neurons)
      tiles  == [p \in 1 .. passes |-> StepRecords(Tile(layer, core_neurons, p), {}, frames).steps]
  IN  [t \in DOMAIN frames |->
         FlattenSeq([k \in DOMAIN frames[t] |-> FlattenSeq([p \in 1 .. passes |-> tiles[p][t][k]])])]

run(layers, core_neurons, frames) ==
  FoldLeft(LAMBDA f, layer : run_layer(layer, core_neurons, f), frames, layers)

spike_counts(frames, n) ==
  LET all == FlattenSeq(frames)
  IN  [j \in 0 .. n - 1 |-> Cardinality({k \in DOMAIN all : all[k] = j})]

-----------------------------------------------------------------------------
(* A layer wider than the core gives, tile by tile, the spikes of one core *)
(* wide enough, in the same order; so does a network.                      *)
TiledIsWide(layers, core_neurons, frames) ==
  LET Wide(f, layer) ==
        run_frames(core(n_neurons(layer), n_axons(layer), layer.weights, layer.config, 0), {}, f)
  IN  run(layers, core_neurons, frames) = FoldLeft(Wide, frames, layers)

(* The leak never changes a sign, always shrinks what is not zero, and     *)
(* never lets the larger of two potentials fall below the smaller.         *)
LeakShrinks(v, shift) ==
  LET w == leak_value(v, shift)
      mag(x) == IF x < 0 THEN -x ELSE x
  IN  /\ v # 0 => mag(w) < mag(v) /\ (w = 0 \/ (w > 0 <=> v > 0))
      /\ v = 0 => w = 0
      /\ v < V_MAX => leak_value(v + 1, shift) >= w

(* A neuron that fired does not fire again for refr_period timesteps, its  *)
(* potential meanwhile only leaks, no potential is left at the threshold,  *)
(* and a poisoned word contributes nothing.                                *)
RefractoryKept(c, poisoned, frames) ==
  LET leaks[n \in 0 .. R_MAX] ==
        IF n = 0 THEN c.config.v_reset
        ELSE IF c.config.leak_en THEN leak_value(leaks[n - 1], c.config.leak_shift)
        ELSE leaks[n - 1]
      fired(out, j) == {t \in DOMAIN out : c.tile_offset + j \in Range(out[t])}
  IN  \A ended \in {StepRecords(c, poisoned, frames)}, j \in Neurons(c) :
      \A at \in {fired(flatten(ended.steps), j)} :
        LET v == ended.s.v[j]
            waited(t0) == Len(frames) - t0
        IN  /\ \A t, u \in at : t < u => u - t >= c.config.refr_period
            /\ v < c.config.thresh /\ v >= V_MIN
            /\ ended.s.r[j] \in 0 .. c.config.refr_period
            /\ \A t0 \in at : (\A u \in at : u <= t0) /\ waited(t0) < c.config.refr_period
                              => v = leaks[waited(t0) + 1]
=============================================================================
