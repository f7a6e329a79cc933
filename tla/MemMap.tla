------------------------------- MODULE MemMap -------------------------------
(***************************************************************************)
(* regmap/generate_memmap.py: what it refuses to generate from, and what   *)
(* the address decoder, the linker script, the interrupt wiring and the    *)
(* device tables it generates say.  The text around the values is left     *)
(* out.  Addresses and sizes are in units of 128 bytes, the finest its     *)
(* checks distinguish; absent keys are "" or NONE.                         *)
(***************************************************************************)
EXTENDS Integers, Sequences, FiniteSets, FiniteSetsExt, SequencesExt, Bitwise, TLC

KiB   == 8
MiB   == 1024 * KiB
NONE  == -1
SLOT  == 4 * KiB
BAR_GRANULARITY     == MiB
APB_BAR_GRANULARITY == 2
IBEX_FAST_IRQ_BASE  == 16
IBEX_FAST_IRQ_COUNT == 15
IBEX_VECTOR_ENTRIES == 32
IBEX_VECTOR_BYTES   == 1
PNP_SLAVE_BASE_WORD == 512
PNP_RECORD_WORDS    == 8
DEVICE_IDS == 0 .. 2 ^ 12 - 1
IRQS       == 0 .. 31

Unique(s) == Cardinality(Range(s)) = Len(s)
Named(items, name) == {x \in Range(items) : x.name = name}
by_name(items, name) == CHOOSE x \in Named(items, name) : TRUE
_is_pow2(n) == n > 0 /\ (n & (n - 1)) = 0

-----------------------------------------------------------------------------
(* validate.  Variant: a region is accepted wherever its base is aligned   *)
(* to the grid.                                                            *)
RegionOk_unaligned(meta, r) ==
  /\ _is_pow2(r.size) /\ r.base % meta.base_alignment = 0
  /\ r.base + r.size <= meta.space /\ r.device_id \in DEVICE_IDS
  /\ r.status \in {"implemented", "reserved"} /\ r.type \in {"memory", "io"}
  /\ r.status = "implemented" => r.port # ""
RegionOk(meta, r) ==
  /\ _is_pow2(r.size) /\ r.base % r.size = 0 /\ r.base % meta.base_alignment = 0
  /\ r.base + r.size <= meta.space /\ r.device_id \in DEVICE_IDS
  /\ r.status \in {"implemented", "reserved"} /\ r.type \in {"memory", "io"}
  /\ r.status = "implemented" => r.port # ""

ByBase(regions) == SortSeq(regions, LAMBDA a, b : a.base < b.base)
NoOverlap(regions) ==
  LET s == ByBase(regions)
  IN  \A k \in 1 .. Len(s) - 1 : s[k].base + s[k].size <= s[k + 1].base
PortsUnique(regions) ==
  LET ported == SelectSeq(regions, LAMBDA r : r.port # "")
  IN  Unique([k \in DOMAIN ported |-> ported[k].port])

BootOk(spec) ==
  \E boot \in Named(spec.regions, spec.meta.boot_region) :
    /\ spec.meta.reset_vector_offset = 1 /\ boot.base % 2 = 0 /\ boot.size > 1
    /\ "x" \in boot.attr /\ boot.status = "implemented"

SlotOk(spec, s) ==
  /\ (s.slot + 1) * SLOT <= by_name(spec.regions, "APB").size
  /\ s.irq \in IRQS /\ s.device_id \in DEVICE_IDS
  /\ s.status \in {"implemented", "reserved"}
  /\ s.irq # 0 <=> s.line # NONE
  /\ s.line \in {NONE} \cup 0 .. IBEX_FAST_IRQ_COUNT - 1
  /\ s.name \notin {r.name : r \in Range(spec.regions)}
SlotsOk(spec) ==
  LET slots == spec.apb_slots
      wired == SelectSeq(slots, LAMBDA s : s.line # NONE)
      asked == SelectSeq(slots, LAMBDA s : s.irq # 0)
  IN  /\ Named(spec.regions, "APB") # {} /\ \A s \in Range(slots) : SlotOk(spec, s)
      /\ Unique([k \in DOMAIN slots |-> slots[k].name])
      /\ Unique([k \in DOMAIN slots |-> slots[k].slot])
      /\ Unique([k \in DOMAIN asked |-> asked[k].irq])
      /\ Unique([k \in DOMAIN wired |-> wired[k].line])

CoreIrqsOk(core_irqs) ==
  /\ Unique([k \in DOMAIN core_irqs |-> core_irqs[k].id])
  /\ \A c \in Range(core_irqs) :
       c.id \in (0 .. IBEX_VECTOR_ENTRIES - 1)
                \ (IBEX_FAST_IRQ_BASE .. IBEX_FAST_IRQ_BASE + IBEX_FAST_IRQ_COUNT - 1)

validate(spec) ==
  /\ _is_pow2(spec.meta.base_alignment) /\ spec.meta.vendor_id \in 0 .. 255
  /\ Unique([k \in DOMAIN spec.regions |-> spec.regions[k].name])
  /\ \A r \in Range(spec.regions) : RegionOk(spec.meta, r)
  /\ NoOverlap(spec.regions) /\ PortsUnique(spec.regions) /\ BootOk(spec)
  /\ SlotsOk(spec) /\ CoreIrqsOk(spec.core_irqs)
  /\ IBEX_VECTOR_BYTES <= spec.meta.base_alignment

-----------------------------------------------------------------------------
(* What is generated.                                                      *)
reset_vector(spec) ==
  by_name(spec.regions, spec.meta.boot_region).base + spec.meta.reset_vector_offset
(* 32 bits, less the 7 of a unit.                                          *)
region_mask(r) == 2 ^ 25 - 1 - (r.size - 1)
apb_addr(spec, s) == by_name(spec.regions, "APB").base + s.slot * SLOT

ident_word(vendor, device, version, irq) ==
  [vendor |-> vendor % 256, device |-> device % 4096, version |-> version % 32,
   irq |-> irq % 32]
CeilPow2(n) == Min({2 ^ k : k \in {k \in 0 .. 25 : 2 ^ k >= n}})
bar_word(base, size, type, granularity, cacheable) ==
  LET rounded == Max({granularity, CeilPow2(size)})
  IN  [addr |-> (base \div granularity) % 4096, cacheable |-> cacheable,
       mask |-> (4096 - rounded \div granularity) % 4096, type |-> type]
bar_is_exact(size, granularity) == size >= granularity

Wired(spec) == SelectSeq(spec.apb_slots, LAMBDA s : s.line # NONE)
irq_sources(spec) ==
  LET s == SortSeq(Wired(spec), LAMBDA a, b : a.line < b.line)
  IN  [k \in DOMAIN s |->
         [name |-> s[k].name, irq |-> s[k].irq, line |-> s[k].line,
          cause |-> IBEX_FAST_IRQ_BASE + s[k].line,
          vector |-> 4 * (IBEX_FAST_IRQ_BASE + s[k].line)]]
spare_lines(spec) ==
  (0 .. IBEX_FAST_IRQ_COUNT - 1) \ {s.line : s \in Range(Wired(spec))}
core_vectors(spec) ==
  [k \in DOMAIN spec.core_irqs |-> 4 * spec.core_irqs[k].id]

(* The device tables, word by word; a word that says nothing is 0.         *)
slave_record(spec, r) ==
  <<ident_word(spec.meta.vendor_id, r.device_id, spec.meta.version, 0),
    r.size, IF r.status = "implemented" THEN 1 ELSE 0, 0,
    bar_word(r.base, r.size, IF r.type = "memory" THEN 2 ELSE 3, BAR_GRANULARITY,
             r.type = "memory")>>
pnp_words(spec) ==
  LET s == ByBase(spec.regions)
      at(k) == PNP_SLAVE_BASE_WORD + (k - 1) * PNP_RECORD_WORDS
      word(w) ==
        CASE w \in {0, 8} ->
               ident_word(spec.meta.vendor_id, IF w = 0 THEN 10 ELSE 11, spec.meta.version, 0)
          [] w = 1020 -> <<"NS", spec.meta.version>>
          [] w = 1021 -> 1
          [] OTHER -> LET k == CHOOSE k \in DOMAIN s : w \in at(k) .. at(k) + 4
                      IN  slave_record(spec, s[k])[w - at(k) + 1]
  IN  [w \in {0, 8, 1020, 1021}
             \cup UNION {{at(k) + n : n \in {0, 1, 2, 4}} : k \in DOMAIN s} |-> word(w)]
apb_pnp_words(spec) ==
  LET s == SortSeq(spec.apb_slots, LAMBDA a, b : a.slot < b.slot)
  IN  [w \in 0 .. 2 * Len(s) - 1 |->
         LET x == s[w \div 2 + 1]
         IN  IF w % 2 = 0
             THEN ident_word(spec.meta.vendor_id, x.device_id, spec.meta.version, x.irq)
             ELSE bar_word(apb_addr(spec, x) % MiB, SLOT, 1, APB_BAR_GRANULARITY, FALSE)]

(* soc_memmap.vh, and memmap.ld's memories.                                *)
gen_verilog(spec) ==
  [base |-> [k \in DOMAIN spec.regions |-> spec.regions[k].base],
   mask |-> [k \in DOMAIN spec.regions |-> region_mask(spec.regions[k])],
   slot |-> [k \in DOMAIN spec.apb_slots |-> spec.apb_slots[k].slot % 256],
   irqline |-> irq_sources(spec)]
gen_linker(spec) ==
  LET boot == by_name(spec.regions, spec.meta.boot_region)
      ram  == by_name(spec.regions, "RAM")
      off  == spec.meta.reset_vector_offset
  IN  [rom |-> [origin |-> boot.base + off, length |-> boot.size - off],
       ram |-> [origin |-> ram.base, length |-> ram.size]]

(* memmap_gen.py, and soc_memmap.h: the same values by name.               *)
Names(items) == {x.name : x \in Range(items)}
gen_python(spec) ==
  [RESET_VECTOR |-> reset_vector(spec),
   MASKS |-> [n \in Names(spec.regions) |-> region_mask(by_name(spec.regions, n))],
   PORTS |-> [p \in {r.port : r \in Range(spec.regions)} \ {""} |->
                (CHOOSE r \in Range(spec.regions) : r.port = p).name],
   APB_SLOTS |-> [n \in Names(spec.apb_slots) |-> apb_addr(spec, by_name(spec.apb_slots, n))],
   SPARE_FAST_LINES |-> spare_lines(spec)]
gen_c_header(spec) ==
  LET src == irq_sources(spec)
  IN  [BASE |-> [n \in Names(spec.regions) |-> by_name(spec.regions, n).base]
                @@ [n \in Names(spec.apb_slots) |-> apb_addr(spec, by_name(spec.apb_slots, n))],
       IRQ  |-> [n \in Names(src) |-> by_name(src, n).cause]
                @@ [n \in Names(spec.core_irqs) |-> by_name(spec.core_irqs, n).id],
       VEC  |-> [n \in Names(src) |-> by_name(src, n).vector]
                @@ [n \in Names(spec.core_irqs) |-> 4 * by_name(spec.core_irqs, n).id]]

(* The multiplexers that answer reads of the tables: a word that is not    *)
(* listed reads as 0.                                                      *)
gen_pnp_rom(spec) ==
  LET Rom(words) == [w \in 0 .. 1023 |-> IF w \in DOMAIN words THEN words[w] ELSE 0]
  IN  [pnp |-> Rom(pnp_words(spec)), apb_pnp |-> Rom(apb_pnp_words(spec))]

(* main: --check reads the generated files, the default writes them.       *)
Generated(tree, outputs, check) ==
  LET stale == {f \in DOMAIN outputs : f \notin DOMAIN tree \/ tree[f] # outputs[f]}
  IN  IF check THEN [tree |-> tree, stale |-> stale]
      ELSE [tree |-> [f \in DOMAIN tree \cup DOMAIN outputs |->
                        IF f \in DOMAIN outputs THEN outputs[f] ELSE tree[f]],
            stale |-> {}]

-----------------------------------------------------------------------------
(* The map the repository generates from: sw/golden/memmap_gen.py.         *)
region(name, base, size, type, attr, port, device_id) ==
  [name |-> name, base |-> base, size |-> size, type |-> type, attr |-> attr,
   port |-> port, status |-> IF port = "" THEN "reserved" ELSE "implemented",
   device_id |-> device_id]
REGIONS == <<
  region("RAM",   0,                  32 * KiB,  "memory", {"r", "w", "x"}, "ram", 1),
  region("NPU",   256 * MiB,          256 * MiB, "memory", {"r", "w"}, "npu", 16),
  region("ROM",   3072 * MiB,         8 * KiB,   "memory", {"r", "x"}, "rom", 2),
  region("QSPI3", 3328 * MiB,         32 * MiB,  "memory", {"r", "x"}, "", 17),
  region("QSPI4", 3456 * MiB,         128 * MiB, "memory", {"r", "x"}, "", 18),
  region("CLINT", 3584 * MiB,         64 * KiB,  "io", {"r", "w"}, "clint", 3),
  region("PLIC",  3968 * MiB,         4 * MiB,   "io", {"r", "w"}, "", 4),
  region("DEBUG", 4064 * MiB,         16 * MiB,  "io", {"r", "w"}, "", 5),
  region("APB",   4089 * MiB,         1 * MiB,   "io", {"r", "w"}, "apb", 6),
  region("PNP",   4096 * MiB - SLOT,  4 * KiB,   "io", {"r"}, "pnp", 7)>>
slot(name, n, irq, line, status, device_id) ==
  [name |-> name, slot |-> n, irq |-> irq, line |-> line, status |-> status,
   device_id |-> device_id]
APB_SLOTS == <<
  slot("UART0", 0, 2, 0, "implemented", 12),    slot("UART1", 1, 3, 1, "reserved", 12),
  slot("GPIO", 2, 4, 2, "implemented", 26),     slot("TIMER0", 8, 8, 3, "implemented", 17),
  slot("TIMER1", 9, 12, 4, "reserved", 17),     slot("SPW", 13, 16, 5, "reserved", 31),
  slot("CAN", 17, 18, 6, "reserved", 254),      slot("SPI", 18, 19, 7, "reserved", 45),
  slot("I2C", 19, 20, 8, "reserved", 40),       slot("QSPICTL", 20, 21, 9, "implemented", 69),
  slot("BUSSTAT", 21, 22, 10, "implemented", 82), slot("SCRUB", 22, 23, 11, "implemented", 87),
  slot("BOOTREG", 23, 0, NONE, "implemented", 135), slot("CLKGATE", 24, 0, NONE, "reserved", 44),
  slot("NPUCFG", 25, 24, 12, "implemented", 19), slot("APBPNP", 255, 0, NONE, "implemented", 0)>>
CORE_IRQS == <<[name |-> "MSOFT", id |-> 3], [name |-> "MTIMER", id |-> 7],
               [name |-> "MEXT", id |-> 11], [name |-> "NMI", id |-> 31]>>
MEMMAP ==
  [meta |-> [space |-> 2 ^ 25, base_alignment |-> 2, vendor_id |-> 9, version |-> 1,
             boot_region |-> "ROM", reset_vector_offset |-> 1],
   regions |-> REGIONS, apb_slots |-> APB_SLOTS, core_irqs |-> CORE_IRQS]

-----------------------------------------------------------------------------
(* A map that is generated from decodes exactly: an address is answered by *)
(* the one region that contains it, at its first and last units and around *)
(* them; a peripheral by its own 4 KiB and no other's (for a window PADDR  *)
(* [19:12] can index); the core is reset into linked, executable memory.   *)
MapDecodes(spec) ==
  validate(spec) =>
    LET v   == gen_verilog(spec)
        R   == DOMAIN spec.regions
        S   == DOMAIN spec.apb_slots
        apb == by_name(spec.regions, "APB")
        probes == (UNION {{r.base - 1, r.base, r.base + r.size - 1, r.base + r.size} :
                            r \in Range(spec.regions)}) \cap 0 .. spec.meta.space - 1
        inside(a, k) == a \in spec.regions[k].base ..
                              spec.regions[k].base + spec.regions[k].size - 1
        offset(s) == apb_addr(spec, s) - apb.base
    IN  /\ \A a \in probes :
             LET hits == {k \in R : (a & v.mask[k]) = v.base[k]}
             IN  hits = {k \in R : inside(a, k)} /\ Cardinality(hits) <= 1
        /\ \A k \in S : offset(spec.apb_slots[k]) + SLOT <= apb.size
        /\ apb.size <= MiB =>
             \A k, j \in S : (offset(spec.apb_slots[k]) \div SLOT) % 256 = v.slot[j] <=> k = j
        /\ LET l == gen_linker(spec)
           IN  /\ reset_vector(spec) = l.rom.origin /\ l.rom.length > 0
               /\ \E r \in Range(spec.regions) :
                    /\ r.base <= l.rom.origin
                    /\ l.rom.origin + l.rom.length = r.base + r.size
                    /\ "x" \in r.attr

(* The program's header, the RTL's and the models' say the same: an address*)
(* of the header selects, by the RTL's masks and slot numbers, what it is  *)
(* the address of, and a cause of the header is the line the RTL wires.    *)
HeadersAgree(spec) ==
  validate(spec) =>
    LET c == gen_c_header(spec)
        v == gen_verilog(spec)
        p == gen_python(spec)
        R == DOMAIN spec.regions
        apb == CHOOSE k \in R : spec.regions[k].name = "APB"
        selected(a) == {k \in R : (a & v.mask[k]) = v.base[k]}
    IN  /\ \A k \in R : selected(c.BASE[spec.regions[k].name]) = {k}
        /\ \A k \in DOMAIN spec.apb_slots :
             LET a == c.BASE[spec.apb_slots[k].name]
             IN  /\ selected(a) = {apb} /\ p.APB_SLOTS[spec.apb_slots[k].name] = a
                 /\ spec.regions[apb].base % MiB = 0 => (a \div SLOT) % 256 = v.slot[k]
        /\ \A k \in DOMAIN v.irqline :
             LET s == v.irqline[k]
             IN  /\ c.IRQ[s.name] = IBEX_FAST_IRQ_BASE + s.line
                 /\ c.VEC[s.name] = 4 * c.IRQ[s.name] /\ s.line \notin p.SPARE_FAST_LINES
        /\ \A port \in DOMAIN p.PORTS : by_name(spec.regions, p.PORTS[port]).port = port
        /\ selected(p.RESET_VECTOR) = {k \in R : spec.regions[k].name = spec.meta.boot_region}

(* Every interrupt enters at a vector of its own inside the table, and the *)
(* lines are either wired to one source or spare.                          *)
VectorsDistinct(spec) ==
  validate(spec) =>
    LET src == irq_sources(spec)
        all == [k \in DOMAIN src |-> src[k].vector] \o core_vectors(spec)
    IN  /\ Unique(all) /\ \A k \in DOMAIN all : all[k] < 4 * IBEX_VECTOR_ENTRIES
        /\ Cardinality(spare_lines(spec)) = IBEX_FAST_IRQ_COUNT - Len(src)
        /\ Unique([k \in DOMAIN src |-> src[k].irq])

(* A reader of the device tables finds each region once, its exact size in *)
(* word 1, and a bank address register that covers the region, and is the  *)
(* region when the generator calls it exact.                               *)
TablesDescribeMap(spec) ==
  validate(spec) =>
    LET words == gen_pnp_rom(spec).pnp
        apbw  == gen_pnp_rom(spec).apb_pnp
        s     == ByBase(spec.regions)
        low(b)  == b.addr * BAR_GRANULARITY
        span(b) == ((4096 - b.mask) % 4096) * BAR_GRANULARITY
    IN  /\ \A k \in DOMAIN s :
             LET w == PNP_SLAVE_BASE_WORD + (k - 1) * PNP_RECORD_WORDS
                 b == words[w + 4]
             IN  /\ words[w].device = s[k].device_id /\ words[w + 1] = s[k].size
                 /\ low(b) <= s[k].base /\ s[k].base + s[k].size <= low(b) + span(b)
                 /\ bar_is_exact(s[k].size, BAR_GRANULARITY) <=>
                      (low(b) = s[k].base /\ span(b) = s[k].size)
        /\ \A x \in Range(spec.apb_slots) :
             \E w \in {2 * k : k \in 0 .. Len(spec.apb_slots) - 1} :
               /\ apbw[w].irq = x.irq /\ apbw[w].device = x.device_id
               /\ apbw[w + 1].addr * APB_BAR_GRANULARITY = (apb_addr(spec, x) % MiB)

(* What was just generated is not stale, whatever the tree held, and a     *)
(* check writes nothing.                                                   *)
GenerationSettles(tree, outputs) ==
  LET after == Generated(tree, outputs, FALSE).tree
  IN  /\ Generated(after, outputs, TRUE).stale = {}
      /\ Generated(tree, outputs, TRUE).tree = tree
      /\ \A f \in DOMAIN tree \ DOMAIN outputs : after[f] = tree[f]
=============================================================================
