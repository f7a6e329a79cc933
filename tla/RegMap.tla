------------------------------- MODULE RegMap -------------------------------
(***************************************************************************)
(* regmap/generate.py: the register maps it refuses and the tables it      *)
(* generates, less the text around them.  A register is [name, offset,     *)
(* access, reset, fields], a field <<name, lsb, width>> with the default   *)
(* width 1 filled in; names are well formed.                               *)
(***************************************************************************)
EXTENDS Integers, Sequences, FiniteSets, FiniteSetsExt, SequencesExt

Mask(field) == field[2] .. field[2] + field[3] - 1

FieldsOk(reg, data_bits) ==
  \A k \in DOMAIN reg.fields :
    LET f == reg.fields[k]
    IN  /\ f[2] >= 0 /\ f[3] >= 1 /\ f[2] + f[3] <= data_bits
        /\ \A j \in 1 .. k - 1 : Mask(reg.fields[j]) \cap Mask(f) = {}

(* 31 bits stand for the 32 of a reset value: TLC has no wider number.     *)
validate(regs, addr_bits, data_bits) ==
  \A k \in DOMAIN regs :
    LET r == regs[k]
    IN  /\ r.offset \in 0 .. 2 ^ addr_bits - 1 /\ r.offset % (data_bits \div 8) = 0
        /\ \A j \in 1 .. k - 1 : regs[j].offset # r.offset /\ regs[j].name # r.name
        /\ r.reset >= 0 /\ FieldsOk(r, data_bits)

(* regmap_gen.py's tables, where the last of two fields with one name      *)
(* wins.                                                                   *)
Table(regs, value) == [n \in {r.name : r \in Range(regs)} |->
                         LET r == CHOOSE r \in Range(regs) : r.name = n IN r[value]]
gen_python(regs) ==
  LET of(n)    == Table(regs, "fields")[n]
      last(n, f) == of(n)[Max({k \in DOMAIN of(n) : of(n)[k][1] = f})]
      fields(i) == [n \in {r.name : r \in {x \in Range(regs) : x.fields # <<>>}} |->
                      [f \in {x[1] : x \in Range(of(n))} |-> last(n, f)[i]]]
  IN  [ADDR |-> Table(regs, "offset"), ACCESS |-> Table(regs, "access"),
       RESET |-> Table(regs, "reset"), FIELDS |-> fields(2), FIELD_WIDTHS |-> fields(3)]

(* npu_regs.vh: one localparam after the other, of every field as it comes *)
(* and of its width when that is not 1.  The parts of a constant's name    *)
(* are kept apart, which the code joins by underscores.                    *)
decl(name, value) == [name |-> name, value |-> value]

(* Variant: a field has a position or a width.                             *)
FieldDecls_either(r) ==
  [k \in DOMAIN r.fields |->
     LET f == r.fields[k]
     IN  IF f[3] # 1 THEN <<decl(<<"WIDTH", r.name, f[1]>>, f[3])>>
         ELSE <<decl(<<"BIT", r.name, f[1]>>, f[2])>>]

FieldDecls(r) ==
  [k \in DOMAIN r.fields |->
     LET f == r.fields[k]
     IN  <<decl(<<"BIT", r.name, f[1]>>, f[2])>>
         \o IF f[3] # 1 THEN <<decl(<<"WIDTH", r.name, f[1]>>, f[3])>> ELSE <<>>]

gen_verilog(regs) ==
  [k \in DOMAIN regs |-> decl(<<"ADDR", regs[k].name>>, regs[k].offset)]
  \o [k \in DOMAIN regs |-> decl(<<"RST", regs[k].name>>, regs[k].reset)]
  \o FlattenSeq([k \in DOMAIN regs |-> FlattenSeq(FieldDecls(regs[k]))])

-----------------------------------------------------------------------------
(* sw/golden/regmap_gen.py: the register map of the NPU.                   *)
reg(name, offset, access, reset, fields) ==
  [name |-> name, offset |-> offset, access |-> access, reset |-> reset, fields |-> fields]
NPU_REGS == <<
  reg("ID", 0, "RO", 1313887537, <<>>),
  reg("VERSION", 4, "RO", 1, <<>>),
  reg("SCRATCH", 8, "RW", 0, <<>>),
  reg("CTRL", 12, "RW", 8, <<<<"EN", 0, 1>>, <<"STATE_CLR", 1, 1>>,
      <<"SOFT_RST", 2, 1>>, <<"SCRUB_EN", 3, 1>>>>),
  reg("STATUS", 16, "RO", 6, <<<<"BUSY", 0, 1>>, <<"EVQ_IN_EMPTY", 1, 1>>,
      <<"EVQ_OUT_EMPTY", 2, 1>>, <<"SYNC_DONE", 3, 1>>, <<"ERR_CFG", 4, 1>>,
      <<"DED_SEEN", 5, 1>>, <<"OVF_SEEN", 6, 1>>>>),
  reg("STATUS_CLR", 20, "W1C", 0, <<>>),
  reg("CFG_NEUR", 32, "RW", 512, <<<<"CNT", 0, 11>>>>),
  reg("CFG_AXON", 36, "RW", 512, <<<<"CNT", 0, 11>>>>),
  reg("CFG_THRESH", 40, "RW", 256, <<<<"THETA", 0, 16>>>>),
  reg("CFG_VRESET", 44, "RW", 0, <<<<"VRESET", 0, 16>>>>),
  reg("CFG_LEAK", 48, "RW", 3, <<<<"S_LEAK", 0, 4>>>>),
  reg("CFG_SYNSHIFT", 52, "RW", 0, <<<<"S_SYN", 0, 3>>>>),
  reg("CFG_REFR", 56, "RW", 0, <<<<"T_REFR", 0, 4>>>>),
  reg("CFG_FLAGS", 60, "RW", 2, <<<<"TS_EN", 0, 1>>, <<"LEAK_EN", 1, 1>>>>),
  reg("PASS_TILE_OFF", 64, "RW", 0, <<<<"OFF", 0, 10>>>>),
  reg("W_BASE", 68, "RW", 0, <<>>),
  reg("PASS_ID", 72, "RW", 0, <<<<"NUM", 0, 8>>>>),
  reg("W_ADDR", 80, "RW", 0, <<>>),
  reg("W_DATA_LO", 84, "WO", 0, <<>>),
  reg("W_DATA_HI", 88, "WO", 0, <<>>),
  reg("N_ADDR", 96, "RW", 0, <<>>),
  reg("N_DATA", 100, "RW", 0, <<<<"V", 0, 16>>, <<"R", 16, 4>>>>),
  reg("CNT_SEC", 112, "RO", 0, <<>>),
  reg("CNT_DED", 116, "RO", 0, <<>>),
  reg("CNT_EVQ_OVF", 120, "RO", 0, <<>>),
  reg("CNT_AXON_OOR", 124, "RO", 0, <<>>),
  reg("FAULT_ADDR", 128, "RO", 0, <<>>),
  reg("ECC_INJ", 132, "WO", 0, <<<<"SINGLE", 0, 1>>, <<"DOUBLE", 1, 1>>>>),
  reg("FAULT_CLR", 136, "W1C", 0, <<<<"CNT_SEC", 0, 1>>, <<"CNT_DED", 1, 1>>,
      <<"CNT_EVQ_OVF", 2, 1>>, <<"CNT_AXON_OOR", 3, 1>>, <<"FAULT_ADDR", 4, 1>>>>),
  reg("EVQ_STAT", 144, "RO", 0, <<<<"IN_FILL", 0, 8>>, <<"OUT_FILL", 8, 8>>>>),
  reg("EVQ_IN", 148, "WO", 0, <<>>),
  reg("EVQ_OUT", 152, "RO", 0, <<<<"EVENT", 0, 16>>, <<"VALID", 31, 1>>>>),
  reg("NODE_ID", 156, "RW", 0, <<<<"NID", 0, 4>>>>)>>

-----------------------------------------------------------------------------
(* One name is declared once, with this value.                             *)
Declares(v, name, value) ==
  /\ decl(name, value) \in Range(v)
  /\ Cardinality({k \in DOMAIN v : v[k].name = name}) = 1

(* What a program that reads the Python tables and a module that includes  *)
(* the Verilog constants are told of the map is the same.                  *)
TablesAgree(t, v) ==
  /\ \A n \in DOMAIN t.ADDR : /\ Declares(v, <<"ADDR", n>>, t.ADDR[n])
                              /\ Declares(v, <<"RST", n>>, t.RESET[n])
  /\ \A n \in DOMAIN t.FIELDS : \A f \in DOMAIN t.FIELDS[n] :
       /\ Declares(v, <<"BIT", n, f>>, t.FIELDS[n][f])
       /\ IF t.FIELD_WIDTHS[n][f] = 1 THEN \A d \in Range(v) : d.name # <<"WIDTH", n, f>>
          ELSE Declares(v, <<"WIDTH", n, f>>, t.FIELD_WIDTHS[n][f])

FieldsNamedApart(r) ==
  \A j, k \in DOMAIN r.fields : j # k => r.fields[j][1] # r.fields[k][1]

(* A map that is generated from gives every access of the bus at most one  *)
(* register and no bit of a register to two of its fields, and every bit a *)
(* table gives away lies in the register.  The Verilog constants say what  *)
(* the Python tables say exactly when no register has two fields of one    *)
(* name, which is not among what the generator refuses: of two such fields *)
(* the tables keep the last and the constants are declared twice.          *)
MapUnambiguous(regs, addr_bits, data_bits) ==
  validate(regs, addr_bits, data_bits) =>
    LET t == gen_python(regs)
        word == data_bits \div 8
        bits(n, f) == Mask(<<f, t.FIELDS[n][f], t.FIELD_WIDTHS[n][f]>>)
    IN  /\ \A n, m \in DOMAIN t.ADDR :
             (t.ADDR[n] \div word = t.ADDR[m] \div word) => n = m
        /\ \A n \in DOMAIN t.FIELDS : \A f, g \in DOMAIN t.FIELDS[n] :
             /\ bits(n, f) \subseteq 0 .. data_bits - 1
             /\ f # g => bits(n, f) \cap bits(n, g) = {}
        /\ TablesAgree(t, gen_verilog(regs)) <=> \A r \in Range(regs) : FieldsNamedApart(r)

(* The positions the counters' model (secded.py) has of its own copy of.   *)
ClearsAgree(t) ==
  /\ t.FIELDS["FAULT_CLR"] = [CNT_SEC |-> 0, CNT_DED |-> 1, CNT_EVQ_OVF |-> 2,
                              CNT_AXON_OOR |-> 3, FAULT_ADDR |-> 4]
  /\ t.FIELDS["STATUS"]["DED_SEEN"] = 5
=============================================================================
