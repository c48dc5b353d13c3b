----------------------------- MODULE MCCheatVm -----------------------------
(***************************************************************************)
(* The cheats the virtual machine is checked with: one or two cheats, each *)
(* a block of statements from a pool that has every opcode and operand     *)
(* form, in conditionals and loops nested up to two deep; and short        *)
(* programs of unmatched dwords.                                           *)
(***************************************************************************)
EXTENDS CheatVm

I(opcode, width, reg) ==
    [Instruction EXCEPT !.opcode = opcode, !.width = width, !.reg = reg]

(* Static values that contain EndDword, alone and as one of two dwords.    *)
TrickyValues == {EndDword, EndDword * DwordValues + EndDword, 5}

Loads ==
    {[I("LoadRegisterStatic", 0, r) EXCEPT !.value = v] : r \in Registers, v \in TrickyValues}
    \cup {[I("LoadRegisterMemory", w, 1) EXCEPT !.mode = m, !.rel = 1, !.mem = "heap"] :
            w \in {1, 3}, m \in {"mem", "reg"}}

Stores ==
    {[I("StoreStatic", w, 1) EXCEPT !.value = EndDword, !.rel = 2] : w \in {1, 8}}
    \cup {[I("StoreStaticToAddress", 2, 0) EXCEPT !.value = EndDword, !.mode = m, !.inc = TRUE,
                                                  !.other = 1] : m \in {"none", "reg"}}
    \cup {[I("StoreRegisterToAddress", 4, 0) EXCEPT !.mode = m, !.other = 1, !.third = 1,
                                                    !.rel = EndDword, !.mem = "heap", !.inc = TRUE] :
            m \in {"none", "reg", "imm", "mem_reg", "mem_imm", "mem_imm_reg"}}

Arithmetics ==
    {[I("PerformArithmeticStatic", 2, 1) EXCEPT !.cond = op, !.value = EndDword] :
        op \in {"add", "sub", "mul", "lsl", "lsr", "xor"}}
    \cup {[I("PerformArithmeticRegister", w, 1) EXCEPT !.cond = op, !.mode = m, !.other = 1,
                                                       !.value = EndDword] :
            w \in {1, 8}, m \in {"static", "reg"},
            op \in {"add", "and", "or", "not", "xor", "none"}}

Others ==
    {[I("SaveRestoreRegister", 0, 1) EXCEPT !.mode = m] :
        m \in {"save", "restore", "clear_saved", "clear_regs"}}
    \cup {[I("SaveRestoreRegisterMask", 0, 0) EXCEPT !.mode = m, !.mask = 2] :
        m \in {"save", "restore", "clear_saved", "clear_regs"}}
    \cup {[I("DebugLog", 1, 0) EXCEPT !.mode = m, !.rel = EndDword] : m \in {"mem_rel", "value"}}

Conditions ==
    {[I("BeginConditionalBlock", w, 0) EXCEPT !.cond = c, !.value = EndDword, !.rel = 1] :
        w \in {1, 8}, c \in {"GE", "LT"}}
    \cup {[I("BeginKeypressConditionalBlock", 0, 0) EXCEPT !.mask = k] : k \in {1, 2}}
    \cup {[I("BeginRegisterConditionalBlock", w, 1) EXCEPT !.cond = c, !.mode = m,
                                                          !.value = EndDword, !.rel = EndDword] :
            w \in {2, 8}, c \in {"GT", "LE", "EQ", "NE"},
            m \in {"static", "other", "mem_rel", "mem_ofs", "reg_rel", "reg_ofs"}}

Simple == {Statement(i) : i \in Loads \cup Stores \cup Arithmetics \cup Others}

(* A few statements whose effect the order and number of runs decides.     *)
Core ==
    {Statement([I("PerformArithmeticStatic", 8, 1) EXCEPT !.cond = "add", !.value = EndDword]),
     Statement([I("LoadRegisterStatic", 0, 1) EXCEPT !.value = EndDword * DwordValues + 1]),
     Statement([I("StoreRegisterToAddress", 1, 1) EXCEPT !.mode = "imm", !.other = 1,
                                                         !.rel = EndDword])}

Bodies == {<<>>} \cup {<<s>> : s \in Core} \cup {<<s, t>> : s, t \in Core}

Nested ==
    {Conditional(c, b) : c \in Conditions, b \in Bodies}
    \cup {Loop(0, n, b) : n \in {1, 2, 3}, b \in Bodies}

KeyOne == [I("BeginKeypressConditionalBlock", 0, 0) EXCEPT !.mask = 1]

DoublyNested ==
    {Conditional(KeyOne, <<s, t>>) : s \in Nested, t \in Core}
    \cup {Loop(0, 2, <<t, s>>) :
            s \in {Conditional(c, b) : c \in Conditions, b \in Bodies}, t \in Core}

Blocks == {<<s>> : s \in Nested \cup DoublyNested} \cup {<<s, t>> : s \in Core, t \in Simple}

Cheat(block, enabled) == [enabled |-> enabled, block |-> block, opcodes |-> Assemble(block)]

(* Unmatched dwords: loops and ends without a beginning, blocks without an *)
(* end, instructions whose dwords are missing, and an unknown opcode.      *)
Dwords ==
    {Number(1), Number(EndDword),
     Encode(KeyOne)[1],
     Encode([I("BeginConditionalBlock", 8, 0) EXCEPT !.cond = "EQ"])[1],
     Encode([I("ControlLoop", 0, 0) EXCEPT !.mode = "start"])[1],
     Encode([I("ControlLoop", 0, 0) EXCEPT !.mode = "end"])[1],
     Encode(I("LoadRegisterStatic", 0, 1))[1],
     [head |-> I("Reserved11", 0, 0), int |-> 15]}

LastCheat == Cheat(<<CHOOSE s \in Core : s.insn.opcode = "LoadRegisterStatic">>, TRUE)

Start(entries, keys) ==
    /\ cheats = entries
    /\ program = LoadProgram(entries)
    /\ held = keys
    /\ vm = ResetState([a \in 0..(MemorySize - 1) |-> 0])

Init ==
    \E keys \in {0, 1} :
        \E block \in Blocks, enabled \in BOOLEAN : Start(<<Cheat(block, enabled), LastCheat>>, keys)

InitUnmatched ==
    \E n \in 1..4 : \E dwords \in [1..n -> Dwords] :
        Start(<<[enabled |-> TRUE, block |-> <<>>, opcodes |-> dwords]>>, 0)

Spec == Init /\ [][Next]_vmVars
SpecUnmatched == InitUnmatched /\ [][Next]_vmVars
=============================================================================
