---------------------------- MODULE LoaderLayout ----------------------------
(***************************************************************************)
(* How loader makes a process out of NSOs (loader/source/                  *)
(* ldr_process_creation.cpp): the parameters of svcCreateProcess, the      *)
(* places of the modules and of the arguments, and the contents and        *)
(* permissions of the memory of each module.                               *)
(*                                                                         *)
(* Addresses are counted in cells, Page cells to a page.  A module is a    *)
(* header [text, ro, rw, bss]; a segment has its place, its size and, when *)
(* it is compressed, the size in the file.                                 *)
(***************************************************************************)
EXTENDS Integers, Sequences, FiniteSetsExt, SequencesExt

CONSTANTS
    Page,
    ArgumentsOverhead,      \* ArgumentSizeMax + 2 * sizeof(u32)
    AslrSize,               \* of the region of the address space
    SystemResourceSizeMax

AlignPage(n) == ((n + Page - 1) \div Page) * Page

NoModule == <<>>
Segments == {"text", "ro", "rw"}

EndOf(h, s) == h[s].dst + h[s].size

---------------------------------------------------------------------------
(* ValidateNsoHeaders; the modules are rtld, main, subsdks and sdk.        *)
ValidateNsoHeaders(nsos) ==
    /\ nsos[2] # NoModule
    /\ nsos[1] = NoModule => \A n \in 3..Len(nsos) : nsos[n] = NoModule
    /\ \A n \in DOMAIN nsos : nsos[n] # NoModule => nsos[n].text.dst = 0

(* DecideAddressSpaceLayout.                                               *)
NsoSize(h) == AlignPage(Max({EndOf(h, "text"), EndOf(h, "ro"), EndOf(h, "rw") + h.bss}))

ArgsSize(args) == AlignPage(2 * args + ArgumentsOverhead)

NoArguments == -1

(* The offsets: the arguments, unless they are empty, follow the first     *)
(* module there is.                                                        *)
Offsets(nsos, args) ==
    FoldLeft(LAMBDA st, n :
                IF nsos[n] = NoModule THEN st
                ELSE LET end == st.total + NsoSize(nsos[n])
                         placed == [st EXCEPT !.nso[n] = st.total, !.total = end]
                     IN  IF args # NoArguments /\ args # 0 /\ st.args_size = 0
                         THEN [placed EXCEPT !.args_address = end, !.args_size = ArgsSize(args),
                                             !.total = end + ArgsSize(args)]
                         ELSE placed,
             [total |-> 0, nso |-> [n \in DOMAIN nsos |-> 0], args_address |-> 0, args_size |-> 0],
             [n \in DOMAIN nsos |-> n])

(* The slides GenerateRandomU64 can choose.                                *)
Slides(total, aslr) ==
    IF aslr THEN {k * Page : k \in 0..((AslrSize - total) \div Page)} ELSE {0}

(* Addresses in the region; an empty layout when it does not fit.          *)
Layout(nsos, args, slide) ==
    LET o == Offsets(nsos, args)
    IN  [nso |-> [n \in DOMAIN nsos |-> o.nso[n] + slide],
         args_address |-> IF o.args_address # 0 THEN o.args_address + slide ELSE 0,
         args_size |-> o.args_size, code_address |-> slide, code_pages |-> o.total \div Page]

---------------------------------------------------------------------------
(* GetCreateProcessFlags and GetCreateProcessParameter.                    *)

(* The bits of the address space: CreateProcessFlag_AddressSpace* are the  *)
(* values of one field, of which 32Bit is 0 and 64Bit has every bit the    *)
(* others have.                                                            *)
AddressSpace(meta) ==
    CASE meta.address_space = "32Bit" -> {}
      [] meta.address_space = "64BitDeprecated" -> {"AddressSpace1"}
      [] meta.address_space = "32BitWithoutAlias" -> {"AddressSpace2"}
      [] meta.address_space = "64Bit" -> {"AddressSpace1", "AddressSpace2"}
      [] OTHER -> {"invalid"}

PoolPartition(meta) ==
    CASE meta.pool = "application" /\ meta.type = "applet" -> {"PoolPartitionApplet"}
      [] meta.pool = "application" /\ meta.type # "applet" -> {"PoolPartitionApplication"}
      [] meta.pool = "applet" -> {"PoolPartitionApplet"}
      [] meta.pool = "system" -> {"PoolPartitionSystem"}
      [] meta.pool = "system non secure" -> {"PoolPartitionSystemNonSecure"}
      [] OTHER -> {"invalid"}

CreateProcessFlags(meta, ldr_flags, version) ==
    (IF meta.is_64bit THEN {"Is64Bit"} ELSE {})
    \cup AddressSpace(meta)
    \cup (ldr_flags \cap {"EnableDebug"})
    \cup (IF "DisableAslr" \in ldr_flags THEN {} ELSE {"EnableAslr"})
    \cup (IF meta.type = "application"
          THEN {"IsApplication"} \cup (IF version >= 7 /\ meta.optimize THEN {"OptimizeMemoryAllocation"} ELSE {})
          ELSE {})
    \cup (IF version >= 5 THEN PoolPartition(meta)
          ELSE IF version >= 4 /\ meta.secure_memory THEN {"DeprecatedUseSecureMemory"} ELSE {})

(* Mutant: a system process gets a system resource, too.                   *)
SystemResourceForAll(meta, flags, version) ==
    version >= 3 =>
        /\ meta.system_resource_size % Page = 0
        /\ meta.system_resource_size # 0 =>
              /\ flags \cap {"AddressSpace1", "AddressSpace2"} # {}
              /\ meta.system_resource_size <= SystemResourceSizeMax

(* The flag AddressSpace64Bit is tested by a bitwise "and".                *)
SystemResourceValid(meta, flags, version) ==
    version >= 3 =>
        /\ meta.system_resource_size % Page = 0
        /\ meta.system_resource_size # 0 =>
              /\ flags \cap {"AddressSpace1", "AddressSpace2"} # {}
              /\ meta.type \in {"application", "applet"}
              /\ meta.system_resource_size <= SystemResourceSizeMax

ParameterValid(meta, ldr_flags, version) ==
    LET flags == CreateProcessFlags(meta, ldr_flags, version)
    IN  "invalid" \notin flags /\ SystemResourceValid(meta, flags, version)

---------------------------------------------------------------------------
(* LoadNsoIntoProcessMemory.                                               *)

Fill(mem, from, size, cell(_)) ==
    [c \in DOMAIN mem |-> IF c \in from..(from + size - 1) THEN cell(c - from) ELSE mem[c]]

Zero(mem, from, size) == Fill(mem, from, size, LAMBDA k : "zero")

(* LoadNsoSegment: a compressed segment is read to the end of the mapping  *)
(* and decompressed from there to its place.                               *)
LoadSegment(mem, h, s) ==
    LET seg == h[s]
        size == Len(mem)
        packed == IF seg.packed = 0 THEN mem
                  ELSE Fill(mem, size - seg.packed + 1, seg.packed, LAMBDA k : <<"packed", s>>)
    IN  Fill(packed, seg.dst + 1, seg.size, LAMBDA k : <<s, k>>)

SegmentsInOrder == <<"text", "ro", "rw">>

(* Mutant: the unused memory is cleared before the segments are read.      *)
LoadAfterClear(h, size) ==
    FoldLeft(LAMBDA mem, s : LoadSegment(mem, h, s), [c \in 1..size |-> "zero"], SegmentsInOrder)

(* The memory of a module, and "Clear unused space to zero".               *)
LoadNso(h, size) ==
    LET loaded == FoldLeft(LAMBDA mem, s : LoadSegment(mem, h, s), [c \in 1..size |-> "zero"],
                           SegmentsInOrder)
        text == Zero(Zero(loaded, 1, h.text.dst),
                     EndOf(h, "text") + 1, h.ro.dst - EndOf(h, "text"))
        ro == Zero(text, EndOf(h, "ro") + 1, h.rw.dst - EndOf(h, "ro"))
    IN  Zero(ro, EndOf(h, "rw") + 1, h.bss)

(* "Set permissions": the regions of a module.                             *)
Permissions(h) ==
    {[perm |-> "rx", from |-> h.text.dst, size |-> AlignPage(h.text.size)],
     [perm |-> "r",  from |-> h.ro.dst,   size |-> AlignPage(h.ro.size)],
     [perm |-> "rw", from |-> h.rw.dst,   size |-> AlignPage(h.rw.size + h.bss)]}

---------------------------------------------------------------------------
(* GetProgramInfoFromMeta, and what pm reads from its output.              *)

AccessControls == <<"acid_sac", "aci_sac", "acid_fac", "aci_fah">>

(* COPY_ACCESS_CONTROL, in this order, into a buffer that is large enough. *)
Copied(sizes) ==
    FoldLeft(LAMBDA buffer, n : buffer \o [k \in 1..sizes[n] |-> <<AccessControls[n], k>>],
             <<>>, [n \in 1..4 |-> n])

(* LaunchProcess of pm: the offsets it adds up itself.                     *)
ReadByPm(buffer, sizes, which) ==
    LET offset == FoldLeft(+, 0, SubSeq(sizes, 1, which - 1))
    IN  SubSeq(buffer, offset + 1, offset + sizes[which])

---------------------------------------------------------------------------
(* Properties.                                                             *)

Overlap(a, a_size, b, b_size) == a < b + b_size /\ b < a + a_size

(* Whatever modules and arguments a program has and wherever it slides to, *)
(* its pieces are whole pages apart from each other, inside the code       *)
(* region that the kernel is asked for, which is inside the address space. *)
PiecesApart(nsos, args, slide) ==
    LET l == Layout(nsos, args, slide)
        Loaded == {n \in DOMAIN nsos : nsos[n] # NoModule}
        Pieces == {[at |-> l.nso[n], size |-> NsoSize(nsos[n])] : n \in Loaded}
                  \cup (IF l.args_size = 0 THEN {} ELSE {[at |-> l.args_address, size |-> l.args_size]})
    IN  /\ \A p, q \in Pieces : p # q => ~Overlap(p.at, p.size, q.at, q.size)
        /\ \A p \in Pieces :
              /\ p.at % Page = 0 /\ p.size % Page = 0
              /\ l.code_address <= p.at /\ p.at + p.size <= l.code_address + l.code_pages * Page
        /\ Cardinality(Pieces) = Cardinality(Loaded) + (IF l.args_size = 0 THEN 0 ELSE 1)
        /\ l.code_address + l.code_pages * Page <= AslrSize

(* A module is in memory as it was linked: its segments survive the        *)
(* compressed ones that are read behind and over them, what is between     *)
(* them and its bss are zero, and no page is both writable and executable. *)
(* (Behind the bss, in its last page, compressed bytes may be left.)       *)
ModuleLoaded(h) ==
    LET mem == LoadNso(h, NsoSize(h))
        bss == EndOf(h, "rw") + 1 .. EndOf(h, "rw") + h.bss
    IN  /\ \A s \in Segments, k \in 0..(NsoSize(h) - 1) :
              k < h[s].size => mem[h[s].dst + k + 1] = <<s, k>>
        /\ \A c \in 1..(EndOf(h, "rw") + h.bss) :
              (\A s \in Segments : c - 1 \notin h[s].dst..(EndOf(h, s) - 1)) => mem[c] = "zero"
        /\ \A p, q \in Permissions(h) :
              p # q /\ p.size > 0 /\ q.size > 0 => ~Overlap(p.from, p.size, q.from, q.size)

(* pm and loader agree on where the access controls of a program are.      *)
AccessControlsFound(sizes) ==
    \A n \in 1..4 : ReadByPm(Copied(sizes), sizes, n) = [k \in 1..sizes[n] |-> <<AccessControls[n], k>>]

Pools == {"PoolPartitionApplication", "PoolPartitionApplet", "PoolPartitionSystem",
          "PoolPartitionSystemNonSecure"}

(* system_resource_num_pages, which the kernel takes from the same pool.   *)
SystemResourcePages(meta, version) ==
    IF version >= 3 THEN meta.system_resource_size \div Page ELSE 0

(* The parameters of a process that is created make sense to the kernel,   *)
(* whatever the meta declares: its address space is one there is, it is in *)
(* one pool, an applet never takes the memory of applications, and pages   *)
(* of a system resource go to applications and applets only, never more    *)
(* than the maximum and never fewer than declared.  (Nor to a process of   *)
(* the plain 32-bit address space; the comment says "must be 64-bit", but  *)
(* 32BitWithoutAlias has a bit of AddressSpace64Bit and passes.)           *)
ParametersConsistent(meta, ldr_flags, version) ==
    ParameterValid(meta, ldr_flags, version) =>
        LET flags == CreateProcessFlags(meta, ldr_flags, version)
            pages == SystemResourcePages(meta, version)
        IN  /\ meta.address_space # "reserved"
            /\ Cardinality(flags \cap Pools) = (IF version >= 5 THEN 1 ELSE 0)
            /\ meta.type = "applet" => "PoolPartitionApplication" \notin flags
            /\ "OptimizeMemoryAllocation" \in flags => "IsApplication" \in flags
            /\ pages > 0 =>
                  /\ meta.type # "other"
                  /\ meta.address_space # "32Bit"
                  /\ pages * Page = meta.system_resource_size
                  /\ pages * Page <= SystemResourceSizeMax
            /\ version >= 3 /\ meta.system_resource_size > 0 => pages > 0
=============================================================================
