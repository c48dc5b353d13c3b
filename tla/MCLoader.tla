------------------------------ MODULE MCLoader ------------------------------
(***************************************************************************)
(* The lists of capabilities, the modules and the parameters loader's      *)
(* computations are checked with.                                          *)
(***************************************************************************)
EXTENDS LoaderCapabilities, LoaderLayout

Kernel(lo, hi) == [id |-> "KernelFlags", min_priority |-> lo, max_priority |-> hi,
                   min_core |-> 0, max_core |-> hi]
MapRange(a, flag) == [id |-> "MapRange", address_size |-> a, flag |-> flag]
Interrupts(a, b) == [id |-> "InterruptPair", ids |-> <<a, b>>]
ApplicationType(t) == [id |-> "ApplicationType", type |-> t]
DebugFlags(f) == [id |-> "DebugFlags", flags |-> f]
Empty == [id |-> "Empty"]

OtherCaps ==
    {Kernel(1, 2), Kernel(0, 1), Kernel(2, 1),
     [id |-> "SyscallMask", mask |-> 1], [id |-> "MapPage", address |-> 1],
     Interrupts(1, 2), Interrupts(1, EmptyInterruptId), Interrupts(EmptyInterruptId, EmptyInterruptId),
     ApplicationType("application"), ApplicationType("applet"),
     [id |-> "HandleTable", size |-> 1], [id |-> "HandleTable", size |-> 2],
     DebugFlags({"allow"}), DebugFlags({"allow", "force"}), [id |-> "Unknown"]}

Ranges == {MapRange(1, FALSE), MapRange(2, FALSE), MapRange(2, TRUE), MapRange(3, TRUE), Empty}

Lists(caps, n) == UNION {[1..k -> caps] : k \in 0..n}

CapsCases ==
    [kind : {"caps"}, acid : Lists(OtherCaps, 2), aci : Lists(OtherCaps, 2)]
    \cup [kind : {"caps"}, acid : Lists(Ranges, 4), aci : Lists(Ranges, 2)]

Seg(dst, size, packed) == [dst |-> dst, size |-> size, packed |-> packed]

(* Modules with segments at page boundaries, each compressed or not.       *)
Headers ==
    {[text |-> Seg(0, t, pt), ro |-> Seg(AlignPage(t), r, pr),
      rw |-> Seg(AlignPage(t) + AlignPage(r), w, pw), bss |-> b] :
        t \in {1, 3, 4}, r \in {0, 2, 5}, w \in {0, 1, 4}, b \in {0, 2, 5},
        pt \in {0, 1}, pr \in {0, 2}, pw \in {0, 1}}

Small == [text |-> Seg(0, 3, 2), ro |-> Seg(4, 1, 0), rw |-> Seg(8, 1, 0), bss |-> 0]
Large == [Small EXCEPT !.bss = 9]

ModuleCases == [kind : {"module"}, header : {h \in Headers : \A s \in Segments : h[s].packed <= h[s].size}]

LayoutCases ==
    {[kind |-> "layout", nsos |-> nsos, args |-> args, slide |-> slide] :
        nsos \in [1..4 -> {NoModule, Small, Large}], args \in {NoArguments, 0, 1, 3},
        slide \in {k * Page : k \in 0..3}}

AddressSpaces == {"32Bit", "64BitDeprecated", "32BitWithoutAlias", "64Bit", "reserved"}

Metas == [is_64bit : BOOLEAN, address_space : AddressSpaces,
          type : {"application", "applet", "other"}, optimize : BOOLEAN, secure_memory : BOOLEAN,
          pool : {"application", "applet", "system", "system non secure", "reserved"},
          system_resource_size : {0, 1, 4, 8}]

ParameterCases ==
    [kind : {"parameters"}, meta : Metas, version : {3, 4, 5, 7},
     ldr_flags : {{}, {"DisableAslr"}}]

AccessCases == [kind : {"access"}, sizes : [1..4 -> 0..2]]

Cases == CapsCases \cup ModuleCases \cup LayoutCases \cup ParameterCases \cup AccessCases

(* See LoaderCapabilities.                                                 *)
CapabilitiesAllowed(c) ==
    c.kind = "caps" =>
        /\ AcceptsOnlyAllowed(c.acid, c.aci, {1, 2})
        /\ FlagsReplaced(c.acid, "applet", TRUE) /\ FlagsReplaced(c.acid, "application", FALSE)

(* See LoaderLayout.                                                       *)
ProcessLaidOut(c) ==
    CASE c.kind = "module" -> ModuleLoaded(c.header)
      [] c.kind = "layout" ->
            ValidateNsoHeaders(c.nsos) /\ Offsets(c.nsos, c.args).total <= AslrSize
            /\ c.slide \in Slides(Offsets(c.nsos, c.args).total, TRUE)
                => PiecesApart(c.nsos, c.args, c.slide)
      [] c.kind = "parameters" -> ParametersConsistent(c.meta, c.ldr_flags, c.version)
      [] c.kind = "access" -> AccessControlsFound(c.sizes)
      [] OTHER -> TRUE
=============================================================================
