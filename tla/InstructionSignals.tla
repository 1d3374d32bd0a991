------------------------- MODULE InstructionSignals -------------------------
(***************************************************************************)
(* An instruction on its way through the stages: the word that was         *)
(* fetched, the signals decode raises for it, what the later stages make   *)
(* of them, and what the instruction has changed when it leaves.           *)
(*                                                                         *)
(* The signals belong to the thread and outlive a pass: a pass that is     *)
(* stalled by memory or by a deadline is decoded again on top of them, and *)
(* a double word and a SYNC that waits are fetched again.  Values are      *)
(* symbolic: which register, immediate or result they came from.  Traps    *)
(* are left to HwThread and DEADPLL, too.                                  *)
(*                                                                         *)
(* A word is its two top bits and the 30 below, TLC's integers being       *)
(* narrower than the program's.                                            *)
(***************************************************************************)
EXTENDS Integers, TLC

-----------------------------------------------------------------------------
(* What an instruction word changes, with no stages and no signals: the    *)
(* set of its effects, read off the regular structure of the SPARC V8      *)
(* opcodes (the bit for cc, the bit for carry, the bit for a store, the    *)
(* two bits of the size) and the additions of PRET: DEAD, SYNC, MEM2SP.    *)
(* Values are symbolic.                                                    *)

\* The bits of the word from bit `low' upwards, `width' of them.
Field(body, low, width) == (body \div 2^low) % 2^width
Bit(n, place) == Field(n, place, 1) = 1
Signed(n, width) == n - (IF Bit(n, width - 1) THEN 2^width ELSE 0)

Op2(body) == Field(body, 22, 3)
Op3(body) == Field(body, 19, 6)
Rd(body) == Field(body, 25, 5)
Rs1(body) == Field(body, 14, 5)

BRANCHES == 0
CALL == 1
ARITHMETIC == 2
MEMORY == 3
DEAD == 44

Operand2(body) ==
    IF Bit(body, 13) THEN [imm |-> Signed(Field(body, 0, 13), 13)]
    ELSE [reg |-> Field(body, 0, 5)]

Result(op, body, half, carry) ==
    [by |-> op, rs1 |-> Rs1(body), half |-> half, op2 |-> Operand2(body), carry |-> carry]
Address(body, half) == Result("ADD", body, half, FALSE)

Next4 == [kind |-> "flow", to |-> "next"]
Written(reg, value) ==
    IF reg = 0 THEN {} ELSE {[kind |-> "reg", reg |-> reg, value |-> value]}

MeaningOfCall(body) ==
    Written(15, [by |-> "pc"])
    \union {[kind |-> "flow", to |-> "call", disp |-> Signed(body, 30)]}

MeaningOfBranches(body) ==
    CASE Op2(body) = 4 ->
            {Next4} \union Written(Rd(body),
                                   [by |-> "SETHI", high |-> Signed(Field(body, 0, 22), 22)])
      [] Op2(body) = 2 ->
            {[kind |-> "flow", to |-> "branch", cond |-> Field(body, 25, 4),
              annul |-> Bit(body, 29), disp |-> Signed(Field(body, 0, 22), 22)]}
      [] OTHER -> {Next4}

\* Bit 2 of op3 is a store, bit 3 a signed load, bits 0 and 1 are the size.
Accesses(op3) == op3 \in 0 .. 7 \union {9, 10}
Access(op3) == [bytes |-> <<4, 1, 2, 4>>[(op3 % 4) + 1], signed |-> Bit(op3, 3)]
Halves(op3) == IF op3 % 4 = 3 THEN {0, 1} ELSE {0}

MeaningOfAccess(body) ==
    {Next4} \union
    UNION {IF Bit(Op3(body), 2)
           THEN {[kind |-> "store", access |-> Access(Op3(body)),
                  reg |-> Rd(body) + half, at |-> Address(body, half)]}
           ELSE Written(Rd(body) + half,
                        [by |-> "memory", access |-> Access(Op3(body)),
                         at |-> Address(body, half)]) :
           half \in Halves(Op3(body))}

MeaningOfDead(body) ==
    {Next4,
     [kind |-> "status", timer |-> Rd(body), watched |-> Bit(Rs1(body), 1)],
     [kind |-> "special", select |-> "DT", reg |-> Rd(body),
      value |-> [by |-> "op2", op2 |-> Operand2(body)]]}

MeaningOfMem2Sp(body) ==
    {Next4, [kind |-> "special", select |-> "MEM2SP", reg |-> Rd(body),
             value |-> Address(body, 0)]}

MeaningOfMemory(body) ==
    CASE Accesses(Op3(body)) -> MeaningOfAccess(body)
      [] Op3(body) = DEAD -> MeaningOfDead(body)
      [] Op3(body) = 52 -> MeaningOfMem2Sp(body)
      [] OTHER -> {Next4}

\* Bit 4 of op3 is cc, bit 3 the carry, bits 0 to 2 are the operation; of those
\* with bit 3 only additions and subtractions are implemented.
Operation(op3) == <<"ADD", "AND", "OR", "XOR", "SUB", "ANDN", "ORN", "XNOR">>[(op3 % 8) + 1]
Operates(op3) == op3 < 32 /\ (Bit(op3, 3) => Operation(op3) \in {"ADD", "SUB"})
Icc(yes, value) == IF yes THEN {[kind |-> "icc", value |-> value]} ELSE {}

MeaningOfOperation(body) ==
    LET value == Result(Operation(Op3(body)), body, 0, Bit(Op3(body), 3))
    IN  {Next4} \union Written(Rd(body), value) \union Icc(Bit(Op3(body), 4), value)

MeaningOfMulscc(body) ==
    LET value == Result("MUL", body, 0, FALSE)
    IN  {Next4, [kind |-> "step"]} \union Written(Rd(body), value) \union Icc(TRUE, value)

Window(by) == {[kind |-> "window", by |-> by]}
Jump(body) == {[kind |-> "flow", to |-> "jump", value |-> Address(body, 0)]}

\* RDPSR to RDTBR and WRPSR to WRTBR; RDASR and WRASR of register 0 are RDY, WRY.
Special(op3, reg) ==
    CASE op3 % 8 = 0 -> IF reg = 0 THEN "Y" ELSE "ASR"
      [] OTHER -> <<"PSR", "WIM", "TBR">>[op3 % 8]

MeaningOfArithmetic(body) ==
    LET op3 == Op3(body)
    IN  CASE Operates(op3) -> MeaningOfOperation(body)
          [] op3 = 36 -> MeaningOfMulscc(body)
          [] op3 \in 37 .. 39 ->
                {Next4} \union Written(Rd(body),
                    Result(<<"SLL", "SRL", "SRA">>[op3 - 36], body, 0, FALSE))
          [] op3 \in 40 .. 43 ->
                {Next4} \union Written(Rd(body),
                    [by |-> Special(op3, Rs1(body)), asr |-> Rs1(body)])
          [] op3 \in 48 .. 51 ->
                {Next4, [kind |-> "special", select |-> Special(op3, Rd(body)),
                         reg |-> Rd(body), value |-> Result("XOR", body, 0, FALSE)]}
          [] op3 = 56 -> Jump(body) \union Written(Rd(body), [by |-> "pc"])
          [] op3 = 57 -> Jump(body) \union Window(1)
                         \union {[kind |-> "rett"]}
          [] op3 = 60 -> {Next4} \union Window(-1) \union Written(Rd(body), Address(body, 0))
          [] op3 = 61 -> {Next4} \union Window(1) \union Written(Rd(body), Address(body, 0))
          [] op3 = 45 -> {Next4, [kind |-> "sync",
                                  mask |-> Signed(Field(body, 0, 13), 13)]}
          [] OTHER -> {Next4}

\* What a word changes; one that is not implemented changes the pc only.
Meaning(w) ==
    CASE w.op1 = CALL -> MeaningOfCall(w.body)
      [] w.op1 = BRANCHES -> MeaningOfBranches(w.body)
      [] w.op1 = MEMORY -> MeaningOfMemory(w.body)
      [] w.op1 = ARITHMETIC -> MeaningOfArithmetic(w.body)

-----------------------------------------------------------------------------

CONSTANTS
    Words,          \* the instructions of the program
    Following,      \* those of them that come after another
    StallDoubles    \* may a double word be refused by the memory? (HwThread)

WordIn(body) == 0 <= body /\ body < 2^30

InstructionWords ==
    /\ StallDoubles \in BOOLEAN
    /\ Following \subseteq Words /\ Following # {}
    /\ \A w \in Words : w.op1 \in 0 .. 3 /\ WordIn(w.body)
    \* The deadline timers; the registers above are those of the phase lock loop.
    /\ \A w \in Words : w.op1 = MEMORY /\ Op3(w.body) = DEAD => Rd(w.body) < 8

VARIABLES
    inst,           \* the signals of the instruction
    stage,          \* the stage it visits next
    pcWord,         \* the word at the program counter
    memStalled, deadStalled, dwordStalled,
    value,          \* instruction::_alu_result: where it came from
    effects         \* history: what the instruction at the pc has changed

stalls == <<memStalled, deadStalled, dwordStalled>>
vars == <<inst, stage, pcWord, stalls, value, effects>>

Stages == {"fetch", "decode", "regacc", "execute", "mem", "except", "done"}

Controls == {"unimplemented", "branch", "jump", "call", "is_rett", "sync_instruction",
             "write_registers", "write_special_registers", "write_memory", "read_memory",
             "write_icc", "carry", "signed_multiply", "db_word_instruction", "annul",
             "use_imm"}

Numbers == {"aluop", "memory_size", "select_special_register",
            "increment_window_pointer", "rd", "rs1", "rs2", "imm", "conditional_branch",
            "disp22", "disp30"}

\* The setters the later stages use, each for one signal.
Set(s, name, to) == [s EXCEPT ![name] = to]
\* decode raises several at once.
Raise(s, names) == [n \in DOMAIN s |-> IF n \in names THEN TRUE ELSE s[n]]

NoOperand == [reg |-> 0]
Signals == Controls \union Numbers \union {"word", "half", "op2"}
NoValue == [by |-> "NOP"]

\* instruction::initialize, and the word in it.
Initialized(w) ==
    [n \in Signals |->
        CASE n \in Controls -> FALSE
          [] n = "aluop" -> "NOP"
          [] n = "memory_size" -> "WORD"
          [] n = "select_special_register" -> "none"
          [] n = "word" -> w
          [] n = "op2" -> NoOperand
          [] OTHER -> 0]

-----------------------------------------------------------------------------
(* decode                                                                  *)

\* << k >> k on an int: the top bit of the field is the sign.
SignExtended(n, width) == IF n >= 2^(width - 1) THEN n - 2^width ELSE n

DecodeFields(s) ==
    LET body == s.word.body
    IN  [s EXCEPT !.rd = Rd(body),
                  !.rs1 = Rs1(body),
                  !.use_imm = Bit(body, 13),
                  !.imm = SignExtended(Field(body, 0, 13), 13),
                  !.rs2 = Field(body, 0, 5),
                  !.conditional_branch = Field(body, 25, 4),
                  !.annul = Bit(body, 29),
                  !.disp30 = SignExtended(body, 30),
                  !.disp22 = SignExtended(Field(body, 0, 22), 22)]

Unimplemented(s) == Raise(s, {"unimplemented"})
Operate(s, op, raised) == Raise([s EXCEPT !.aluop = op], raised)

decode_sethi_branches(s, op2) ==
    CASE op2 = 4 -> Operate(s, "SETHI", {"write_registers"})
      [] op2 = 2 -> Raise(s, {"branch"})
      [] OTHER -> Unimplemented(s)

\* ADD to XNOR, with cc from 16 on; and the four that take the carry.
Logic == <<"ADD", "AND", "OR", "XOR", "SUB", "ANDN", "ORN", "XNOR">>
Simple == 0 .. 7 \union 16 .. 23
WithCarry == {8, 12, 24, 28}
Shifts == 37 :> "SLL" @@ 38 :> "SRL" @@ 39 :> "SRA"
ReadSpecial == 41 :> "PSR" @@ 42 :> "WIM" @@ 43 :> "TBR"
WriteSpecial == 49 :> "PSR" @@ 50 :> "WIM" @@ 51 :> "TBR"

SetsIcc(op3) == IF op3 >= 16 THEN {"write_icc"} ELSE {}

decode_arithmetic(s, op3) ==
    CASE op3 \in Simple ->
            Operate(s, Logic[(op3 % 8) + 1], {"write_registers"} \union SetsIcc(op3))
      [] op3 \in WithCarry ->
            Operate(s, Logic[(op3 % 8) + 1],
                    {"write_registers", "carry"} \union SetsIcc(op3))
      [] op3 = 36 -> Operate(s, "MUL", {"write_registers", "signed_multiply", "write_icc"})
      [] op3 \in DOMAIN Shifts -> Operate(s, Shifts[op3], {"write_registers"})
      [] op3 = 56 -> Operate(s, "ADD", {"jump", "write_registers"})
      [] op3 = 57 -> Operate([s EXCEPT !.increment_window_pointer = 1], "ADD",
                             {"is_rett", "jump"})
      [] op3 = 60 -> Operate([s EXCEPT !.increment_window_pointer = -1], "ADD",
                             {"write_registers"})
      [] op3 = 61 -> Operate([s EXCEPT !.increment_window_pointer = 1], "ADD",
                             {"write_registers"})
      [] op3 = 40 ->
            Raise([s EXCEPT !.select_special_register = IF s.rs1 # 0 THEN "ASR" ELSE "Y"],
                  {"write_registers"})
      [] op3 \in DOMAIN ReadSpecial ->
            Raise([s EXCEPT !.select_special_register = ReadSpecial[op3]],
                  {"write_registers"})
      [] op3 = 48 ->
            Operate([s EXCEPT !.select_special_register = IF s.rd # 0 THEN "ASR" ELSE "Y"],
                    "XOR", {"write_special_registers"})
      [] op3 \in DOMAIN WriteSpecial ->
            Operate([s EXCEPT !.select_special_register = WriteSpecial[op3]], "XOR",
                    {"write_special_registers"})
      [] op3 = DEAD -> s
      [] op3 = 45 -> Raise(s, {"sync_instruction"})
      [] OTHER -> Unimplemented(s)

Size == 1 :> "UBYTE" @@ 2 :> "UHALF" @@ 3 :> "DOUBLE" @@ 5 :> "UBYTE" @@ 6 :> "UHALF"
        @@ 9 :> "SBYTE" @@ 10 :> "SHALF"
Sized(s, op3) == IF op3 \in DOMAIN Size THEN [s EXCEPT !.memory_size = Size[op3]] ELSE s
Doubled(op3) == IF op3 \in {3, 7} THEN {"db_word_instruction"} ELSE {}

decode_memory(s, op3) ==
    CASE op3 \in 4 .. 7 ->
            Operate(Sized(s, op3), "ADD", {"write_memory"} \union Doubled(op3))
      [] op3 \in 0 .. 3 \union {9, 10} ->
            Operate(Sized(s, op3), "ADD",
                    {"write_registers", "read_memory"} \union Doubled(op3))
      [] op3 = DEAD -> Operate([s EXCEPT !.select_special_register = "DT"], "ADD_DEAD", {})
      [] op3 = 52 -> Operate([s EXCEPT !.select_special_register = "MEM2SP"], "ADD",
                             {"write_special_registers"})
      [] OTHER -> Unimplemented(s)

decode_op(s) ==
    CASE s.word.op1 = CALL ->
            Operate([s EXCEPT !.rd = 15], "ADD", {"call", "write_registers"})
      [] s.word.op1 = BRANCHES -> decode_sethi_branches(s, Op2(s.word.body))
      [] s.word.op1 = MEMORY -> decode_memory(s, Op3(s.word.body))
      [] s.word.op1 = ARITHMETIC -> decode_arithmetic(s, Op3(s.word.body))

\* Mutant: %g0 is written like any other.
GuardZeroNot(s) == s

\* Nothing is written to %g0.
GuardZero(s) == IF s.rd = 0 THEN [s EXCEPT !.write_registers = FALSE] ELSE s

decode(s) == GuardZero(decode_op(DecodeFields(s)))

-----------------------------------------------------------------------------
Init ==
    /\ pcWord \in Words
    /\ inst = Initialized([op1 |-> 0, body |-> 2^24])   \* the NOP of the constructor
    /\ stage = "fetch"
    /\ memStalled = FALSE /\ deadStalled = FALSE /\ dwordStalled = FALSE
    /\ value = NoValue
    /\ effects = {}

FetchKept ==
    /\ stage = "fetch"
    /\ ~memStalled /\ ~deadStalled
    /\ inst' = [inst EXCEPT !.word = pcWord]
    /\ value' = NoValue
    /\ stage' \in {"decode", "fetch"}
    /\ UNCHANGED <<pcWord, stalls, effects>>

Fetch ==
    /\ stage = "fetch"
    /\ ~memStalled /\ ~deadStalled
    /\ inst' = Initialized(pcWord)
    /\ value' = NoValue
    /\ stage' \in {"decode", "fetch"}       \* a refused fetch skips the other stages
    /\ UNCHANGED <<pcWord, stalls, effects>>

\* A stalled instruction passes again, its signals as they are.
FetchSkipped ==
    /\ stage = "fetch"
    /\ memStalled \/ deadStalled
    /\ stage' = "decode"
    /\ UNCHANGED <<inst, pcWord, stalls, value, effects>>

Decode ==
    /\ stage = "decode"
    /\ inst' = decode(inst)
    /\ stage' = "regacc"
    /\ UNCHANGED <<pcWord, stalls, value, effects>>

\* _deadline_instruction for the timers: the signals if the deadline has come.
Due(s, expired) == s.select_special_register = "DT" /\ (expired \/ Bit(s.rs1, 0))
Late(s, expired) == s.select_special_register = "DT" /\ ~(expired \/ Bit(s.rs1, 0))
Status(s, expired) ==
    IF Due(s, expired)
    THEN {[kind |-> "status", timer |-> s.rd, watched |-> Bit(s.rs1, 1)]}
    ELSE {}
DeadlineSignalsEarly(s, expired) ==
    IF s.select_special_register = "DT" THEN Set(s, "write_special_registers", TRUE) ELSE s
DeadlineSignals(s, expired) ==
    IF Due(s, expired) THEN Set(s, "write_special_registers", TRUE) ELSE s

\* _double_word_instruction: the second half is the next register and 4 bytes on.
SecondHalf(s) ==
    Set(Set(Set(s, "rd", s.rd + 1), "half", 1), "db_word_instruction", FALSE)
FirstHalf(s) == Set(s, "half", 0)

Immediate(s) ==
    Set(s, "op2", IF s.use_imm THEN [imm |-> s.imm] ELSE [reg |-> s.rs2])

Moved(s) ==
    IF s.increment_window_pointer # 0
    THEN {[kind |-> "window", by |-> s.increment_window_pointer]} ELSE {}

RegAcc ==
    /\ stage = "regacc"
    /\ \E expired \in BOOLEAN :
        LET s == DeadlineSignals(inst, expired)
            second == dwordStalled /\ ~deadStalled /\ ~Late(inst, expired)
        IN  /\ deadStalled' = ((deadStalled /\ ~Due(inst, expired)) \/ Late(inst, expired))
            /\ dwordStalled' = (dwordStalled /\ ~second)
            /\ inst' = Immediate(IF second THEN SecondHalf(s) ELSE FirstHalf(s))
            /\ effects' = effects \union Status(inst, expired) \union Moved(inst)
    /\ stage' = "execute"
    /\ UNCHANGED <<pcWord, memStalled, value>>

Computed(s) ==
    CASE s.aluop = "NOP" -> NoValue
      [] s.aluop = "SETHI" -> [by |-> "SETHI", high |-> s.disp22]
      [] s.aluop = "ADD_DEAD" -> [by |-> "op2", op2 |-> s.op2]
      [] OTHER -> [by |-> s.aluop, rs1 |-> s.rs1, half |-> s.half, op2 |-> s.op2,
                   carry |-> s.carry /\ s.aluop \in {"ADD", "SUB"}]

Execute ==
    /\ stage = "execute"
    /\ value' = Computed(inst)
    /\ effects' = IF inst.aluop = "MUL" /\ inst.signed_multiply
                  THEN effects \union {[kind |-> "step"]} ELSE effects
    /\ stage' = "mem"
    /\ UNCHANGED <<inst, pcWord, stalls>>

\* The switches of read_data and get_write_data: the bytes that are moved.
AccessOf(size) ==
    [bytes |-> CASE size \in {"UBYTE", "SBYTE"} -> 1
                 [] size \in {"UHALF", "SHALF"} -> 2
                 [] OTHER -> 4,
     signed |-> size \in {"SBYTE", "SHALF"}]

MayStall == {FALSE, StallDoubles \/ ~inst.db_word_instruction}

MemLoad ==
    /\ stage = "mem"
    /\ inst.read_memory
    /\ memStalled' \in MayStall
    /\ value' = IF memStalled' THEN value
                ELSE [by |-> "memory", access |-> AccessOf(inst.memory_size), at |-> value]
    /\ stage' = "except"
    /\ UNCHANGED <<inst, pcWord, deadStalled, dwordStalled, effects>>

MemStore ==
    /\ stage = "mem"
    /\ ~inst.read_memory /\ inst.write_memory
    /\ memStalled' \in MayStall
    /\ effects' = effects \union {[kind |-> "store", access |-> AccessOf(inst.memory_size),
                                   reg |-> inst.rd, at |-> value]}
    /\ stage' = "except"
    /\ UNCHANGED <<inst, pcWord, deadStalled, dwordStalled, value>>

MemNone ==
    /\ stage = "mem"
    /\ ~inst.read_memory /\ ~inst.write_memory
    /\ stage' = "except"
    /\ UNCHANGED <<inst, pcWord, stalls, value, effects>>

-----------------------------------------------------------------------------
(* except                                                                  *)

set_dword_state == dwordStalled' = (dwordStalled \/ inst.db_word_instruction)

Held ==
    /\ stage = "except"
    /\ deadStalled \/ memStalled
    /\ set_dword_state
    /\ stage' = "fetch"
    /\ UNCHANGED <<inst, pcWord, memStalled, deadStalled, value, effects>>

\* inc_pc: the condition codes, and where the program goes.
Flow(s) ==
    CASE s.call -> [kind |-> "flow", to |-> "call", disp |-> s.disp30]
      [] s.branch -> [kind |-> "flow", to |-> "branch", cond |-> s.conditional_branch,
                      annul |-> s.annul, disp |-> s.disp22]
      [] s.jump -> [kind |-> "flow", to |-> "jump", value |-> value]
      [] OTHER -> [kind |-> "flow", to |-> "next"]
inc_pc(s) ==
    {Flow(s)} \union (IF s.write_icc THEN {[kind |-> "icc", value |-> value]} ELSE {})

\* The value that write_regs finds: inc_pc has put the pc there for a jump.
Final(s) ==
    CASE s.select_special_register \in {"Y", "ASR", "PSR", "WIM", "TBR"} ->
            [by |-> s.select_special_register, asr |-> s.rs1]
      [] s.jump \/ s.call -> [by |-> "pc"]
      [] OTHER -> value
write_regs(s) ==
    IF s.write_registers
    THEN {[kind |-> "reg", reg |-> s.rd, value |-> Final(s)]} ELSE {}
write_special_regs(s) ==
    IF s.write_special_registers
    THEN {[kind |-> "special", select |-> s.select_special_register, reg |-> s.rd,
           value |-> value]} ELSE {}
return_from_trap(s) == IF s.is_rett THEN {[kind |-> "rett"]} ELSE {}
Commit(s) == write_regs(s) \union write_special_regs(s) \union return_from_trap(s)

\* The first half of a double word, and a SYNC that must wait, keep the pc.
Stays ==
    /\ stage = "except"
    /\ ~deadStalled /\ ~memStalled
    /\ set_dword_state
    /\ dwordStalled' \/ inst.sync_instruction
    /\ effects' = effects \union Commit(inst)
    /\ stage' = "fetch"
    /\ UNCHANGED <<inst, pcWord, memStalled, deadStalled, value>>

Leaves ==
    /\ stage = "except"
    /\ ~deadStalled /\ ~memStalled
    /\ set_dword_state
    /\ ~dwordStalled'
    /\ effects' = effects \union inc_pc(inst) \union Commit(inst)
                  \union (IF inst.sync_instruction
                          THEN {[kind |-> "sync", mask |-> inst.imm]} ELSE {})
    /\ stage' = "done"
    /\ UNCHANGED <<inst, pcWord, memStalled, deadStalled, value>>

\* The pc is at the next instruction.
Proceed ==
    /\ stage = "done"
    /\ pcWord' \in Following
    /\ effects' = {}
    /\ stage' = "fetch"
    /\ UNCHANGED <<inst, stalls, value>>

Next == \/ Fetch \/ FetchSkipped \/ Decode \/ RegAcc \/ Execute
        \/ MemLoad \/ MemStore \/ MemNone \/ Held \/ Stays \/ Leaves \/ Proceed

Spec == Init /\ [][Next]_vars

-----------------------------------------------------------------------------
TypeOK ==
    /\ DOMAIN inst = Signals
    /\ \A n \in Controls : inst[n] \in BOOLEAN
    /\ inst.rd \in 0 .. 31 /\ inst.rs1 \in 0 .. 31 /\ inst.rs2 \in 0 .. 31
    /\ inst.imm \in -4096 .. 4095
    /\ inst.disp22 \in -(2^21) .. 2^21 - 1 /\ inst.disp30 \in -(2^29) .. 2^29 - 1
    /\ stage \in Stages
    /\ pcWord.op1 \in 0 .. 3 /\ WordIn(pcWord.body)
    /\ memStalled \in BOOLEAN /\ deadStalled \in BOOLEAN /\ dwordStalled \in BOOLEAN

\* An instruction that has left has changed what its word says, all of it and
\* nothing else, through refused fetches, stalls and the two halves of a double
\* word: no signal is missing, and none is left from another word or pass.
EffectsMean == stage = "done" => effects = Meaning(pcWord)

\* Neither does one that is still held, on whichever of its passes it is
\* stopped: what it has changed so far is part of what its word says.
EffectsWithin == effects \subseteq Meaning(pcWord)

\* What decode leaves is a function of the word alone, though it runs again on
\* the signals that the other stages changed in a pass that was stalled.
DecodedAfresh ==
    stage = "regacc" =>
        \A n \in Signals \ {"op2", "half"} : inst[n] = decode(Initialized(pcWord))[n]

=============================================================================
