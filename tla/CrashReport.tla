----------------------------- MODULE CrashReport -----------------------------
(***************************************************************************)
(* creport: started with the id of a crashed process, debugs it, reads the *)
(* debug events that wait for it, the threads and the modules it can find  *)
(* from their registers and stack traces, saves the report, asks for the   *)
(* process to be terminated and may throw fatal.                           *)
(*                                                                         *)
(* The memory of the process is a sequence of regions as the kernel        *)
(* reports them: neighbours differ.  A region is its own address; within   *)
(* the stack, and only there, addresses are counted.                       *)
(***************************************************************************)
EXTENDS Integers, Sequences, SequencesExt, FiniteSets

CONSTANTS
    ThreadCountMax,     \* 0x60
    ModuleCountMax,     \* 0x60
    StackDump           \* 0x100, of a stack that is counted in the same unit

(***************************************************************************)
(* ProcessExceptions: the events in their order.  The last exception that  *)
(* is one of the program's own counts.                                     *)
(***************************************************************************)
OwnExceptions ==
    {"UndefinedInstruction", "InstructionAbort", "DataAbort", "AlignmentFault", "UserBreak",
     "UndefinedSystemCall", "MemorySystemError"}

NothingKnown == [result |-> "Incomplete", crashed |-> 0, exception |-> "none", application |-> FALSE,
                 dying_message |-> FALSE, tls |-> {}]

(* From 5.0.0 a break may name a result in the process's memory.           *)
ResultOf(e, version) ==
    IF e.type = "UserBreak" /\ version >= 5 /\ e.readable THEN e.named ELSE e.type

HandleEvent(known, e, version) ==
    CASE e.kind = "AttachProcess" ->
            [known EXCEPT !.application = e.application,
                          !.dying_message = version >= 5 /\ e.application /\ e.message]
      [] e.kind = "AttachThread" -> [known EXCEPT !.tls = @ \cup {e.thread}]
      [] e.kind = "Exception" /\ e.type \in OwnExceptions ->
            [known EXCEPT !.result = ResultOf(e, version), !.crashed = e.thread, !.exception = e.type]
      [] e.kind = "Exception" /\ e.type \notin OwnExceptions -> known
      [] OTHER -> known

ProcessExceptions(events, version) ==
    FoldLeft(LAMBDA known, e : HandleEvent(known, e, version), NothingKnown, events)

IsComplete(known) == known.result # "Incomplete"

(***************************************************************************)
(* Threads.  Of those the kernel lists, up to the size of the table, the   *)
(* ones that run or wait and whose registers can be read.                  *)
(***************************************************************************)
ReadFromProcess(t) == t.state \in {"Waiting", "Running"} /\ t.readable

ThreadsRead(threads) ==
    SelectSeq(SubSeq(threads, 1, IF Len(threads) < ThreadCountMax THEN Len(threads) ELSE ThreadCountMax),
              ReadFromProcess)

AddressesOf(t) == <<t.pc, t.lr>> \o t.trace

(***************************************************************************)
(* TryGetStackInfo: the stack is the region of sp, or the one above it.    *)
(* bottom and top are its bounds; a read outside the process fails.        *)
(***************************************************************************)
(* Mutant: a dump that starts near the top of the stack goes beyond it.    *)
DumpBaseUncapped(sp, aligned, bottom, top) == IF aligned > bottom THEN aligned ELSE bottom

DumpBase(sp, aligned, bottom, top) ==
    LET above == IF aligned > bottom THEN aligned ELSE bottom
    IN  IF above < top - StackDump THEN above ELSE top - StackDump

(***************************************************************************)
(* Modules: text, and what follows it.                                     *)
(***************************************************************************)
Kind(regions, a) == IF a \in DOMAIN regions THEN regions[a] ELSE "nowhere"

(* An address in data may belong to the region before it, and so may one   *)
(* in read-only data.                                                      *)
TextOf(regions, guess) ==
    LET behind_rw == IF Kind(regions, guess) = "rw" THEN guess - 1 ELSE guess
    IN  IF Kind(regions, behind_rw) = "ro" THEN behind_rw - 1 ELSE behind_rw

TryFindModule(regions, guess) ==
    LET text == TextOf(regions, guess)
        unmapped == {a \in 1..(text - 1) : regions[a] = "unmapped"}
    IN  IF Kind(regions, text) # "text" \/ unmapped = {} THEN 0
        ELSE 1 + CHOOSE a \in unmapped : \A b \in unmapped : b <= a

(* All the modules from base on, up to what is unmapped or the table's end.*)
Contiguous(regions, base) ==
    LET ends == {a \in base..Len(regions) : regions[a] = "unmapped"}
        end  == IF ends = {} THEN Len(regions) + 1 ELSE CHOOSE a \in ends : \A b \in ends : a <= b
    IN  SelectSeq([i \in 1..(end - base) |-> base + i - 1], LAMBDA a : regions[a] = "text")

(* Mutant: a module that is known already is added again.                  *)
TryAddModuleTwice(regions, modules, guess) ==
    LET base == TryFindModule(regions, guess)
        all  == modules \o Contiguous(regions, base)
    IN  IF base = 0 THEN modules
        ELSE SubSeq(all, 1, IF Len(all) < ModuleCountMax THEN Len(all) ELSE ModuleCountMax)

TryAddModule(regions, modules, guess) ==
    LET base == TryFindModule(regions, guess)
        all  == modules \o Contiguous(regions, base)
    IN  IF base = 0 \/ Contains(modules, base) THEN modules
        ELSE SubSeq(all, 1, IF Len(all) < ModuleCountMax THEN Len(all) ELSE ModuleCountMax)

FindModules(regions, addresses) ==
    FoldLeft(LAMBDA modules, guess : TryAddModule(regions, modules, guess), <<>>, addresses)

(***************************************************************************)
(* BuildReport and main.  A process that cannot be debugged has no report, *)
(* and one without an exception of its own an incomplete one.              *)
(***************************************************************************)
BuildReport(p, version) ==
    LET known   == ProcessExceptions(p.events, version)
        crashed == SelectSeq(p.threads, LAMBDA t : t.id = known.crashed /\ ReadFromProcess(t))
        threads == ThreadsRead(p.threads)
        addresses == FlattenSeq([i \in DOMAIN crashed |-> AddressesOf(crashed[i])])
                     \o FlattenSeq([i \in DOMAIN threads |-> AddressesOf(threads[i])])
    IN  [known |-> known, crashed |-> crashed, threads |-> threads,
         modules |-> FindModules(p.regions, addresses)]

ThrowsFatal(known, version, extra_info) ==
    /\ IF version >= 5 THEN ~known.application ELSE ~extra_info
    /\ known.exception # "UserBreak"

(* What creport does, in order, of a report with an exception.             *)
Main(p, version, extra_info) ==
    LET r == BuildReport(p, version)
    IN  IF ~p.debuggable \/ ~IsComplete(r.known) THEN <<>>
        ELSE <<"save report", IF version >= 10 THEN "terminate by pgl" ELSE "terminate by ns">>
             \o (IF ThrowsFatal(r.known, version, extra_info) THEN <<"throw fatal">> ELSE <<>>)

(***************************************************************************)
(* Processes: one that is crashed in thread 1 has code there.              *)
(***************************************************************************)
Neighbours(regions) == \A i \in 1..(Len(regions) - 1) : regions[i] # regions[i + 1]

(* Every piece of mapped memory with code in it begins with code: the      *)
(* kernel and ro map a program's text first.  Others, heaps and stacks,    *)
(* begin with anything.                                                    *)
CodeFirst(regions) ==
    \A i, j \in DOMAIN regions :
        /\ i < j /\ regions[i] = "unmapped" /\ regions[j] = "text"
        /\ \A k \in (i + 1)..j : regions[k] # "unmapped"
        => regions[i + 1] = "text"

Layouts(n) == {<<"unmapped">> \o r : r \in [1..n -> {"text", "ro", "rw", "unmapped"}]}
ProcessLayouts(n) == {r \in Layouts(n) : Neighbours(r) /\ CodeFirst(r)}

Events(own, after) ==
    <<[kind |-> "AttachProcess", application |-> after = "UserBreak", message |-> TRUE],
      [kind |-> "AttachThread", thread |-> 1],
      [kind |-> "Exception", type |-> own, thread |-> 1, readable |-> TRUE, named |-> "named"],
      [kind |-> "Exception", type |-> after, thread |-> 2, readable |-> FALSE, named |-> "none"]>>

Case(r, pc, lr, o, e, v) ==
    [regions |-> r, pc |-> pc, lr |-> lr, other |-> o, own |-> e[1], after |-> e[2], version |-> v]

(* Every layout with one sequence of events, and every sequence of events  *)
(* with two modules behind each other: events do not depend on layouts.    *)
CrashCases ==
    {Case(r, pc, lr, o, <<"DataAbort", "DebuggerAttached">>, 10) :
        r \in ProcessLayouts(5), pc \in 1..6, lr \in 1..6, o \in {2, 6}}
    \cup
    {Case(<<"unmapped", "text", "ro", "rw", "text", "unmapped">>, pc, lr, o, e, v) :
        pc \in 1..6, lr \in 1..6, o \in {2, 6},
        e \in {<<"DataAbort", "DebuggerAttached">>, <<"BreakPoint", "DebuggerAttached">>,
               <<"DataAbort", "UserBreak">>, <<"UserBreak", "BreakPoint">>},
        v \in {4, 10}}

ProcessOf(c) ==
    [debuggable |-> TRUE, regions |-> c.regions, events |-> Events(c.own, c.after),
     threads |-> <<[id |-> 3, state |-> "Running", readable |-> FALSE, pc |-> c.other, lr |-> c.lr,
                    trace |-> <<>>],
                   [id |-> 1, state |-> "Waiting", readable |-> TRUE, pc |-> c.pc, lr |-> c.lr,
                    trace |-> <<>>],
                   [id |-> 2, state |-> "Waiting", readable |-> TRUE, pc |-> c.other, lr |-> c.pc,
                    trace |-> <<c.lr>>]>>]

(***************************************************************************)
(* What has to hold.                                                       *)
(***************************************************************************)
(* No module is listed twice, all are text, and an address of code that    *)
(* the report prints is named, unless the table is full.                   *)
ModulesListed(regions, r) ==
    /\ IsInjective(r.modules)
    /\ \A i \in DOMAIN r.modules : regions[r.modules[i]] = "text"
    /\ \A i \in DOMAIN r.threads : \A a \in ToSet(AddressesOf(r.threads[i])) :
          Kind(regions, a) = "text" => Contains(r.modules, a) \/ Len(r.modules) = ModuleCountMax

(* A dump of the stack does not leave it.                                  *)
DumpInside ==
    \A bottom \in 0..3, size \in StackDump..(StackDump + 3), sp \in 0..9 :
        LET base == DumpBase(sp, sp - (sp % 2), bottom, bottom + size)
        IN  bottom <= base /\ base + StackDump <= bottom + size

(* fatal is thrown for the thread that crashed, after the report.          *)
FatalAfterReport(c, r) ==
    LET done == Main(ProcessOf(c), c.version, FALSE)
    IN  Contains(done, "throw fatal") =>
            /\ done[1] = "save report"
            /\ r.crashed # <<>> /\ Head(r.crashed).id = r.known.crashed
            /\ r.known.result \in OwnExceptions

CrashReported(c) ==
    LET r == BuildReport(ProcessOf(c), c.version)
    IN  ModulesListed(c.regions, r) /\ FatalAfterReport(c, r) /\ DumpInside
=============================================================================
