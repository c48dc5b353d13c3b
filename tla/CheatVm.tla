------------------------------ MODULE CheatVm ------------------------------
(***************************************************************************)
(* The virtual machine of dmnt that runs cheats                            *)
(* (dmnt/source/cheat/impl/dmnt_cheat_vm.cpp): LoadProgram concatenates the*)
(* opcodes of the enabled cheats, and Execute decodes and runs them.       *)
(*                                                                         *)
(* A program is a sequence of dwords.  The first dword of an instruction   *)
(* has its fields (head) and the ones that follow are numbers (int), but   *)
(* any dword can be read either way.  Numbers are scaled down: a byte has  *)
(* ByteValues values instead of 256, so that a dword has ByteValues^4 and a*)
(* register ByteValues^8.  The text log of the debugging build is left out.*)
(***************************************************************************)
EXTENDS Integers, Sequences, FiniteSetsExt, SequencesExt, Bitwise

CONSTANTS
    ByteValues,
    NumRegisters,
    MemorySize,                 \* bytes of the process that can be accessed, from 0
    HeapBase,                   \* heap_extents.base; main_nso_extents.base is 0
    MaximumProgramOpcodeCount

VARIABLES
    program,        \* what LoadProgram made of the cheats
    vm,             \* ip, depth, ok (decode_success) and data
    held,           \* the keys held when the execution began
    cheats          \* the cheats it was made of

vmVars == <<program, vm, held, cheats>>

Registers  == 0..(NumRegisters - 1)
DwordValues == ByteValues^4
Values      == ByteValues^8     \* of a u64
BitsOfU64   == CHOOSE b \in 1..64 : 2^b = Values
Widths      == {1, 2, 4, 8}

---------------------------------------------------------------------------
(* Instructions and dwords.                                                *)

(* An instruction: which of the fields it has depends on its opcode.       *)
Instruction ==
    [opcode |-> "StoreStatic", width |-> 0, mem |-> "main", cond |-> "GT", mode |-> "none",
     reg |-> 0, other |-> 0, third |-> 0, mask |-> 0, inc |-> FALSE, rel |-> 0, value |-> 0]

EndConditionalBlock == [Instruction EXCEPT !.opcode = "EndConditionalBlock"]

(* A number as a dword.  Read as an instruction a small one is a           *)
(* StoreStatic of no width, except the one that is 0x20000000.             *)
EndDword == 2
Number(n) == [head |-> IF n = EndDword THEN EndConditionalBlock ELSE Instruction, int |-> n]

Conditionals ==
    {"BeginConditionalBlock", "BeginKeypressConditionalBlock", "BeginRegisterConditionalBlock"}

(* The opcodes that are decoded; the others end the program.               *)
Opcodes == Conditionals \cup
    {"StoreStatic", "EndConditionalBlock", "ControlLoop", "LoadRegisterStatic",
     "LoadRegisterMemory", "StoreStaticToAddress", "PerformArithmeticStatic",
     "PerformArithmeticRegister", "StoreRegisterToAddress", "SaveRestoreRegister",
     "SaveRestoreRegisterMask", "DebugLog"}

(* The numbers of an instruction: a relative address, and then a value     *)
(* whose dwords GetNextVmInt or the opcode itself reads.                   *)
HasRelAddress(i) ==
    \/ i.opcode \in {"StoreStatic", "BeginConditionalBlock", "LoadRegisterMemory"}
    \/ i.opcode = "StoreRegisterToAddress" /\ i.mode \in {"imm", "mem_imm", "mem_imm_reg"}
    \/ /\ i.opcode \in {"BeginRegisterConditionalBlock", "DebugLog"}
       /\ i.mode \in {"mem_rel", "reg_rel"}

(* Mutant: every value is one dword.                                       *)
OneDword(width) == 1

VmIntDwords(width) == IF width = 8 THEN 2 ELSE 1

ValueDwords(i) ==
    CASE i.opcode \in {"StoreStatic", "BeginConditionalBlock"} -> VmIntDwords(i.width)
      [] i.opcode \in {"LoadRegisterStatic", "StoreStaticToAddress"} -> 2
      [] i.opcode = "PerformArithmeticStatic" -> 1
      [] i.opcode = "ControlLoop" /\ i.mode = "start" -> 1
      [] i.opcode \in {"PerformArithmeticRegister", "BeginRegisterConditionalBlock"}
            /\ i.mode = "static" -> VmIntDwords(i.width)
      [] OTHER -> 0

Length(i) == 1 + (IF HasRelAddress(i) THEN 1 ELSE 0) + ValueDwords(i)

(* DecodeNextOpcode at ip: the dwords before num_opcodes.                  *)
Decodes(ip) ==
    /\ ip < Len(program)
    /\ program[ip + 1].head.opcode \in Opcodes
    /\ ip + Length(program[ip + 1].head) <= Len(program)

Decoded(ip) ==
    LET head  == program[ip + 1].head
        at    == ip + 1 + (IF HasRelAddress(head) THEN 1 ELSE 0)
        value == CASE ValueDwords(head) = 0 -> 0
                   [] ValueDwords(head) = 1 -> program[at + 1].int
                   [] OTHER -> program[at + 1].int * DwordValues + program[at + 2].int
    IN  [head EXCEPT !.rel = IF HasRelAddress(head) THEN program[ip + 2].int ELSE 0,
                     !.value = value]

(* LoadProgram: the enabled cheats one after the other, or nothing when    *)
(* they do not fit.                                                        *)
LoadProgram(entries) ==
    LET enabled == SelectSeq(entries, LAMBDA c : c.enabled)
        all == FlattenSeq([n \in DOMAIN enabled |-> enabled[n].opcodes])
    IN  IF Len(all) > MaximumProgramOpcodeCount THEN <<>> ELSE all

---------------------------------------------------------------------------
(* What the instructions do to the data: registers, saved values, memory.  *)

(* The bytes of a value, or 0 for a width that is none.                    *)
GetVmInt(value, width) == IF width \in Widths THEN value % (ByteValues^width) ELSE 0

GetCheatProcessAddress(mem_type, rel) ==
    (rel + (IF mem_type = "heap" THEN HeapBase ELSE 0)) % Values

Mapped(address, width) ==
    width \in Widths /\ address..(address + width - 1) \subseteq 0..(MemorySize - 1)

(* A read or a write outside of the process changes nothing.  A read fills *)
(* the low bytes of what was there.                                        *)
ReadMemory(memory, address, width, before) ==
    IF Mapped(address, width)
    THEN MapThenSumSet(LAMBDA b : memory[address + b] * (ByteValues^b), 0..(width - 1))
           + (before - (before % (ByteValues^width)))
    ELSE before

WriteMemory(memory, address, width, value) ==
    IF Mapped(address, width)
    THEN [a \in DOMAIN memory |->
             IF a \in address..(address + width - 1)
             THEN (value \div (ByteValues^(a - address))) % ByteValues
             ELSE memory[a]]
    ELSE memory

(* An arithmetic operation on u64s.  A shift takes the low bits of its     *)
(* amount, as the processor's does.                                        *)
Arithmetic(op, a, b) ==
    CASE op = "add" -> (a + b) % Values
      [] op = "sub" -> (a - b) % Values
      [] op = "mul" -> (a * b) % Values
      [] op = "lsl" -> (a * (2^(b % BitsOfU64))) % Values
      [] op = "lsr" -> a \div (2^(b % BitsOfU64))
      [] op = "and" -> a & b
      [] op = "or"  -> a | b
      [] op = "not" -> Values - 1 - a
      [] op = "xor" -> a ^^ b
      [] op = "none" -> a
      [] OTHER      -> 0

ApplyWidth(value, width) == IF width \in Widths THEN value % (ByteValues^width) ELSE value

SetRegister(d, r, value) == [d EXCEPT !.registers[r] = value % Values]

StoreStatic(i, d) ==
    LET address == GetCheatProcessAddress(i.mem, i.rel + d.registers[i.reg])
    IN  [d EXCEPT !.memory = WriteMemory(@, address, i.width, GetVmInt(i.value, i.width))]

LoadRegisterStatic(i, d) == SetRegister(d, i.reg, i.value)

LoadRegisterMemory(i, d) ==
    LET address == IF i.mode = "reg" THEN (d.registers[i.reg] + i.rel) % Values
                   ELSE GetCheatProcessAddress(i.mem, i.rel)
    IN  SetRegister(d, i.reg, ReadMemory(d.memory, address, i.width, d.registers[i.reg]))

(* "Increment register if relevant", by the width.                         *)
Incremented(i, r, d) ==
    IF i.inc THEN SetRegister(d, r, d.registers[r] + i.width) ELSE d

StoreStaticToAddress(i, d) ==
    LET address == (d.registers[i.reg]
                      + (IF i.mode = "reg" THEN d.registers[i.other] ELSE 0)) % Values
    IN  Incremented(i, i.reg, [d EXCEPT !.memory = WriteMemory(@, address, i.width, i.value)])

(* Logical operations are "extensions" the static form does not handle.    *)
PerformArithmeticStatic(i, d) ==
    LET op == IF i.cond \in {"add", "sub", "mul", "lsl", "lsr"} THEN i.cond ELSE "none"
    IN  SetRegister(d, i.reg, ApplyWidth(Arithmetic(op, d.registers[i.reg], i.value), i.width))

PerformArithmeticRegister(i, d) ==
    LET operand_2 == IF i.mode = "static" THEN GetVmInt(i.value, i.width)
                     ELSE d.registers[i.third]
    IN  SetRegister(d, i.reg,
            ApplyWidth(Arithmetic(i.cond, d.registers[i.other], operand_2), i.width))

StoreRegisterToAddress(i, d) ==
    LET base == d.registers[i.reg]
        address == CASE i.mode = "reg"         -> (base + d.registers[i.third]) % Values
                     [] i.mode = "imm"         -> (base + i.rel) % Values
                     [] i.mode = "mem_reg"     -> GetCheatProcessAddress(i.mem, base)
                     [] i.mode = "mem_imm"     -> GetCheatProcessAddress(i.mem, i.rel)
                     [] i.mode = "mem_imm_reg" -> GetCheatProcessAddress(i.mem, base + i.rel)
                     [] OTHER                  -> base
        value == d.registers[i.other]
    IN  Incremented(i, i.reg, [d EXCEPT !.memory = WriteMemory(@, address, i.width, value)])

(* One register to one slot, any of them: dst_index is reg, src_index other.*)
SaveRestoreRegister(i, d) ==
    CASE i.mode = "clear_regs"  -> [d EXCEPT !.registers[i.reg] = 0]
      [] i.mode = "clear_saved" -> [d EXCEPT !.saved_values[i.reg] = 0]
      [] i.mode = "save"        -> [d EXCEPT !.saved_values[i.reg] = d.registers[i.other]]
      [] OTHER                  -> [d EXCEPT !.registers[i.reg] = d.saved_values[i.other]]

SaveRestoreRegisterMask(i, d) ==
    LET masked(old, new) ==
            [r \in Registers |-> IF (i.mask \div (2^r)) % 2 = 1 THEN new[r] ELSE old[r]]
        zero == [r \in Registers |-> 0]
    IN  CASE i.mode = "clear_regs"  -> [d EXCEPT !.registers = masked(@, zero)]
          [] i.mode = "clear_saved" -> [d EXCEPT !.saved_values = masked(@, zero)]
          [] i.mode = "save"        -> [d EXCEPT !.saved_values = masked(@, d.registers)]
          [] OTHER                  -> [d EXCEPT !.registers = masked(@, d.saved_values)]

(* Those of the instructions that only change data.  DebugLog reads.       *)
Effect(i, d) ==
    CASE i.opcode = "StoreStatic"               -> StoreStatic(i, d)
      [] i.opcode = "LoadRegisterStatic"        -> LoadRegisterStatic(i, d)
      [] i.opcode = "LoadRegisterMemory"        -> LoadRegisterMemory(i, d)
      [] i.opcode = "StoreStaticToAddress"      -> StoreStaticToAddress(i, d)
      [] i.opcode = "PerformArithmeticStatic"   -> PerformArithmeticStatic(i, d)
      [] i.opcode = "PerformArithmeticRegister" -> PerformArithmeticRegister(i, d)
      [] i.opcode = "StoreRegisterToAddress"    -> StoreRegisterToAddress(i, d)
      [] i.opcode = "SaveRestoreRegister"       -> SaveRestoreRegister(i, d)
      [] i.opcode = "SaveRestoreRegisterMask"   -> SaveRestoreRegisterMask(i, d)
      [] i.opcode = "DebugLog"                  -> d

Compare(cond, a, b) ==
    CASE cond = "GT" -> a > b
      [] cond = "GE" -> a >= b
      [] cond = "LT" -> a < b
      [] cond = "LE" -> a <= b
      [] cond = "EQ" -> a = b
      [] cond = "NE" -> a # b
      [] OTHER       -> FALSE

(* The value a register is compared with.                                  *)
CompareValue(i, d) ==
    LET address == CASE i.mode = "mem_rel" -> GetCheatProcessAddress(i.mem, i.rel)
                     [] i.mode = "mem_ofs" -> GetCheatProcessAddress(i.mem, d.registers[i.third])
                     [] i.mode = "reg_rel" -> (d.registers[i.other] + i.rel) % Values
                     [] i.mode = "reg_ofs" -> (d.registers[i.other] + d.registers[i.third]) % Values
                     [] OTHER -> 0
    IN  CASE i.mode = "static" -> GetVmInt(i.value, i.width)
          [] i.mode = "other"  -> GetVmInt(d.registers[i.other], i.width)
          [] OTHER -> ReadMemory(d.memory, address, i.width, 0)

ConditionMet(i, d) ==
    CASE i.opcode = "BeginConditionalBlock" ->
            Compare(i.cond,
                    ReadMemory(d.memory, GetCheatProcessAddress(i.mem, i.rel), i.width, 0),
                    GetVmInt(i.value, i.width))
      [] i.opcode = "BeginKeypressConditionalBlock" -> (i.mask & held) = i.mask
      [] OTHER -> Compare(i.cond, GetVmInt(d.registers[i.reg], i.width), CompareValue(i, d))

---------------------------------------------------------------------------
(* The machine.                                                            *)

ResetState(memory) ==
    [ip |-> 0, depth |-> 0, ok |-> TRUE, aborted |-> FALSE,
     tops |-> [r \in Registers |-> 0],
     data |-> [registers |-> [r \in Registers |-> 0],
               saved_values |-> [r \in Registers |-> 0], memory |-> memory]]

(* Mutant: looks for the end dword by dword, without decoding.             *)
RECURSIVE SkipLinear(_, _, _)
SkipLinear(ip, depth, desired) ==
    IF depth <= desired \/ ip >= Len(program) THEN [ip |-> ip, depth |-> depth, ok |-> ip < Len(program)]
    ELSE SkipLinear(ip + 1,
            depth + (IF program[ip + 1].head.opcode \in Conditionals THEN 1
                     ELSE IF program[ip + 1].head = EndConditionalBlock THEN -1 ELSE 0), desired)

(* The loop of SkipConditionalBlock: instructions are decoded until the    *)
(* depth is down to the desired one, or one cannot be decoded.             *)
RECURSIVE SkipBlock(_, _, _)
SkipBlock(ip, depth, desired) ==
    IF depth <= desired THEN [ip |-> ip, depth |-> depth, ok |-> TRUE]
    ELSE IF ~Decodes(ip) THEN [ip |-> Len(program), depth |-> depth, ok |-> FALSE]
    ELSE LET i == Decoded(ip)
         IN  SkipBlock(ip + Length(i),
                       CASE i.opcode \in Conditionals -> depth + 1
                         [] i.opcode = "EndConditionalBlock" -> depth - 1
                         [] OTHER -> depth,
                       desired)

Running == vm.ok /\ ~vm.aborted /\ Decodes(vm.ip)
Current == Decoded(vm.ip)
NextIp  == vm.ip + Length(Current)

ExecuteStraight ==
    /\ Running
    /\ Current.opcode \notin Conditionals \cup {"EndConditionalBlock", "ControlLoop"}
    /\ vm' = [vm EXCEPT !.ip = NextIp, !.data = Effect(Current, @)]
    /\ UNCHANGED <<program, held, cheats>>

(* The depth is incremented, whatever the condition; SkipConditionalBlock  *)
(* brings it back.  At depth 0 that would be an abort.                     *)
BeginBlock ==
    /\ Running
    /\ Current.opcode \in Conditionals
    /\ LET depth == vm.depth + 1
           skipped == SkipBlock(NextIp, depth, depth - 1)
       IN  vm' = CASE ConditionMet(Current, vm.data) -> [vm EXCEPT !.ip = NextIp, !.depth = depth]
                   [] ~ConditionMet(Current, vm.data) /\ depth > 0 ->
                        [vm EXCEPT !.ip = skipped.ip, !.depth = skipped.depth, !.ok = skipped.ok]
                   [] OTHER -> [vm EXCEPT !.aborted = TRUE]
    /\ UNCHANGED <<program, held, cheats>>

(* A mismatched end is a nop.                                              *)
EndBlock ==
    /\ Running
    /\ Current.opcode = "EndConditionalBlock"
    /\ vm' = [vm EXCEPT !.ip = NextIp, !.depth = IF @ > 0 THEN @ - 1 ELSE @]
    /\ UNCHANGED <<program, held, cheats>>

(* Mutant: the loop goes on at its own first instruction.                  *)
TopAtHead == vm.ip

LoopTop == NextIp

StartLoop ==
    /\ Running
    /\ Current.opcode = "ControlLoop" /\ Current.mode = "start"
    /\ vm' = [vm EXCEPT !.ip = NextIp, !.tops[Current.reg] = LoopTop,
                        !.data.registers[Current.reg] = Current.value]
    /\ UNCHANGED <<program, held, cheats>>

EndLoop ==
    /\ Running
    /\ Current.opcode = "ControlLoop" /\ Current.mode = "end"
    /\ LET left == (vm.data.registers[Current.reg] - 1) % Values
       IN  vm' = [vm EXCEPT !.data.registers[Current.reg] = left,
                            !.ip = IF left # 0 THEN vm.tops[Current.reg] ELSE NextIp]
    /\ UNCHANGED <<program, held, cheats>>

(* The end of the program, or a dword that cannot be decoded.              *)
Finish ==
    /\ vm.ok /\ ~vm.aborted /\ ~Decodes(vm.ip)
    /\ vm' = [vm EXCEPT !.ok = FALSE, !.ip = Len(program)]
    /\ UNCHANGED <<program, held, cheats>>

Next == ExecuteStraight \/ BeginBlock \/ EndBlock \/ StartLoop \/ EndLoop \/ Finish

---------------------------------------------------------------------------
(* The reference: cheats are written as nested statements, and evaluated   *)
(* as such.                                                                *)

(* A statement is an instruction, a conditional or a loop with its body.   *)
Statement(i)       == [insn |-> i, body |-> <<>>]
Conditional(i, body) == [insn |-> i, body |-> body]
Loop(r, count, body) ==
    [insn |-> [Instruction EXCEPT !.opcode = "ControlLoop", !.mode = "start", !.reg = r,
                                  !.value = count],
     body |-> body]

RECURSIVE Evaluate(_, _), Repeat(_, _)
Evaluate(block, d) ==
    FoldLeft(LAMBDA data, s :
                IF s.insn.opcode \in Conditionals
                THEN IF ConditionMet(s.insn, data) THEN Evaluate(s.body, data) ELSE data
                ELSE IF s.insn.opcode = "ControlLoop"
                THEN Repeat(s, SetRegister(data, s.insn.reg, s.insn.value))
                ELSE Effect(s.insn, data),
             d, block)
Repeat(s, d) ==
    LET once == Evaluate(s.body, d)
        left == (once.registers[s.insn.reg] - 1) % Values
        after == SetRegister(once, s.insn.reg, left)
    IN  IF left = 0 THEN after ELSE Repeat(s, after)

(* The dwords of a statement.                                              *)
Encode(i) ==
    LET head == [i EXCEPT !.rel = 0, !.value = 0]
        value == CASE ValueDwords(i) = 0 -> <<>>
                   [] ValueDwords(i) = 1 -> <<Number(i.value)>>
                   [] OTHER -> <<Number(i.value \div DwordValues), Number(i.value % DwordValues)>>
    IN  <<[head |-> head, int |-> IF i = EndConditionalBlock THEN EndDword ELSE 15]>>
          \o (IF HasRelAddress(i) THEN <<Number(i.rel)>> ELSE <<>>) \o value

RECURSIVE Assemble(_)
Assemble(block) ==
    FlattenSeq([n \in DOMAIN block |->
        LET i == block[n].insn
        IN  Encode(i) \o Assemble(block[n].body)
              \o (CASE i.opcode \in Conditionals -> Encode(EndConditionalBlock)
                    [] i.opcode = "ControlLoop" ->
                         Encode([i EXCEPT !.mode = "end", !.value = 0])
                    [] OTHER -> <<>>)])

---------------------------------------------------------------------------
(* Properties.                                                             *)

(* The flat program does what the nested cheats say: blocks are skipped as *)
(* a whole and loops repeated, whatever the immediates look like, and one  *)
(* cheat leaves the condition depth as it was for the next one.  When the  *)
(* cheats do not fit nothing runs.                                         *)
RunsAsWritten ==
    ~vm.ok => LET enabled == SelectSeq(cheats, LAMBDA c : c.enabled)
              IN  /\ vm.depth = 0
                  /\ vm.data = IF program = <<>> THEN vm.data
                               ELSE Evaluate(FlattenSeq([n \in DOMAIN enabled |-> enabled[n].block]),
                                             ResetState([a \in DOMAIN vm.data.memory |-> 0]).data)

(* dmnt_cheat_vm.cpp:653: a block to skip at depth 0 "is an error          *)
(* condition.  However, I don't actually believe it is possible", whatever *)
(* the dwords, matched or not.                                             *)
DepthNeverInvalid == ~vm.aborted /\ vm.depth >= 0 /\ vm.ip <= Len(program)
=============================================================================
