-------------------------- MODULE RoServiceProofs --------------------------
(***************************************************************************)
(* What holds of ro for any number of processes, sessions, contexts,       *)
(* modules and registries: its contexts follow its sessions, what is       *)
(* mapped is accounted for whichever kernel call fails, and only listed    *)
(* modules are loaded.                                                     *)
(***************************************************************************)
EXTENDS RoService, FiniteSetTheorems, SequenceTheorems, TLAPS

(* A context belongs to the process of the one session it was given to,    *)
(* so that a session whose owner has no context has none to lose; tables   *)
(* of finitely many entries.                                               *)
SessionsOwnContexts ==
    /\ \A s \in Sessions : session[s].context_id # InvalidContextId =>
          /\ session[s].owner # NoPid
          /\ contexts[session[s].context_id].process_id = session[s].owner
    /\ \A i \in ContextIds : IsFiniteSet(contexts[i].nro) /\ IsFiniteSet(contexts[i].nrr)

(* Of a process without a context ro has nothing mapped but what it lost.  *)
(* With the mappings of the processes that have one, MemoryAccounted.      *)
OthersStranded ==
    \A p \in Pids : ~HasContext(p) => mapped[p] = stranded[p]

RoInv == RoMappingsKept /\ SessionsOwnContexts /\ OthersStranded

---------------------------------------------------------------------------
(* Pieces of memory, and the chains of kernel calls that unmap them.       *)

LEMMA NroPiecesAre ==
    ASSUME RoAssumption, NEW a \in NroRegions
    PROVE  /\ NroPieces(a) \subseteq Pieces
           /\ \A piece \in NroPieces(a) : piece[1] = a
BY DEF NroPieces, Pieces

LEMMA NrrPiecesAre ==
    ASSUME RoAssumption, NEW r \in NrrRegions
    PROVE  /\ NrrPieces(r) \subseteq Pieces
           /\ \A piece \in NrrPieces(r) : piece[1] = r
BY DEF NrrPieces, Pieces

(* A chain takes every piece of X once: what is done and what is left      *)
(* are X, and nothing is both.                                             *)
Takes(steps, X) ==
    \A n \in 0..Len(steps) :
        /\ Done(steps, n) \cup Left(steps, n) = X
        /\ Done(steps, n) \cap Left(steps, n) = {}

LEMMA ChainTakes ==
    ASSUME NEW X, NEW steps \in Seq(SUBSET X), X \subseteq UNION {steps[i] : i \in 1..Len(steps)},
           \A i, j \in 1..Len(steps) : i # j => steps[i] \cap steps[j] = {}
    PROVE  Takes(steps, X)
<1> SUFFICES ASSUME NEW n \in 0..Len(steps)
             PROVE  /\ Done(steps, n) \cup Left(steps, n) = X
                    /\ Done(steps, n) \cap Left(steps, n) = {}
  BY DEF Takes
<1>0. Len(steps) \in Nat /\ \A i \in 1..Len(steps) : steps[i] \subseteq X
  OBVIOUS
<1>1. ASSUME NEW x \in Done(steps, n) PROVE \E i \in 1..n : x \in steps[i]
  BY DEF Done
<1>2. ASSUME NEW x \in Left(steps, n) PROVE \E i \in (n + 1)..Len(steps) : x \in steps[i]
  BY DEF Left
<1>3. ASSUME NEW x \in X PROVE x \in Done(steps, n) \/ x \in Left(steps, n)
  <2>1. PICK i \in 1..Len(steps) : x \in steps[i]
    OBVIOUS
  <2>2. i \in 1..n \/ i \in (n + 1)..Len(steps)
    BY <1>0
  <2> QED BY <2>1, <2>2 DEF Done, Left
<1>4. Done(steps, n) \subseteq X /\ Left(steps, n) \subseteq X
  <2>1. 1..n \subseteq 1..Len(steps) /\ (n + 1)..Len(steps) \subseteq 1..Len(steps)
    BY <1>0
  <2> QED BY <1>0, <2>1 DEF Done, Left
<1>5. ASSUME NEW x \in Done(steps, n), x \in Left(steps, n) PROVE FALSE
  <2>1. PICK i \in 1..n : x \in steps[i]
    BY <1>1
  <2>2. PICK j \in (n + 1)..Len(steps) : x \in steps[j]
    BY <1>2, <1>5
  <2>3. i \in 1..Len(steps) /\ j \in 1..Len(steps) /\ i # j
    BY <1>0
  <2> QED BY <2>1, <2>2, <2>3
<1> QED BY <1>3, <1>4, <1>5

(* Chains of one, two and three calls.                                     *)
LEMMA TakesOne ==
    ASSUME NEW A, NEW X, X = A, NEW st \in Seq(SUBSET X), Len(st) = 1, st[1] = A
    PROVE  Takes(st, X)
<1>1. 1 \in 1..Len(st) /\ X \subseteq UNION {st[i] : i \in 1..Len(st)}
  OBVIOUS
<1>2. \A i, j \in 1..Len(st) : i # j => st[i] \cap st[j] = {}
  OBVIOUS
<1> QED BY <1>1, <1>2, ChainTakes

LEMMA TakesTwo ==
    ASSUME NEW A, NEW B, NEW X, X = A \cup B, A \cap B = {},
           NEW st \in Seq(SUBSET X), Len(st) = 2, st[1] = A, st[2] = B
    PROVE  Takes(st, X)
<1>1. X \subseteq UNION {st[i] : i \in 1..Len(st)}
  <2>1. 1 \in 1..Len(st) /\ 2 \in 1..Len(st)
    OBVIOUS
  <2> QED BY <2>1
<1>2. \A i, j \in 1..Len(st) : i # j => st[i] \cap st[j] = {}
  OBVIOUS
<1> QED BY <1>1, <1>2, ChainTakes

LEMMA TakesThree ==
    ASSUME NEW A, NEW B, NEW C, NEW X, X = A \cup B \cup C,
           A \cap B = {}, A \cap C = {}, B \cap C = {},
           NEW st \in Seq(SUBSET X), Len(st) = 3, st[1] = A, st[2] = B, st[3] = C
    PROVE  Takes(st, X)
<1>1. X \subseteq UNION {st[i] : i \in 1..Len(st)}
  <2>1. 1 \in 1..Len(st) /\ 2 \in 1..Len(st) /\ 3 \in 1..Len(st)
    OBVIOUS
  <2> QED BY <2>1
<1>2. \A i, j \in 1..Len(st) : i # j => st[i] \cap st[j] = {}
  <2> SUFFICES ASSUME NEW i \in 1..Len(st), NEW j \in 1..Len(st), i # j
               PROVE  st[i] \cap st[j] = {}
    OBVIOUS
  <2>1. i \in {1, 2, 3} /\ j \in {1, 2, 3}
    OBVIOUS
  <2> QED BY <2>1
<1> QED BY <1>1, <1>2, ChainTakes

LEMMA TwoAndOne ==
    ASSUME NEW S, NEW two \in Seq(S), NEW one \in Seq(S), Len(two) = 2, Len(one) = 1
    PROVE  /\ two \o one \in Seq(S) /\ Len(two \o one) = 3
           /\ (two \o one)[1] = two[1] /\ (two \o one)[2] = two[2] /\ (two \o one)[3] = one[1]
<1>1. two \o one \in Seq(S) /\ Len(two \o one) = Len(two) + Len(one)
  BY ConcatProperties, Zenon
<1>2. \A i \in 1..Len(two) + Len(one) :
         (two \o one)[i] = IF i <= Len(two) THEN two[i] ELSE one[i - Len(two)]
  BY ConcatProperties, Zenon
<1> DEFINE st == two \o one
<1>3. \A i \in 1..3 : st[i] = IF i <= 2 THEN two[i] ELSE one[i - 2]
  <2> HIDE DEF st
  <2>1. \A i \in 1..Len(two) + Len(one) :
         st[i] = IF i <= Len(two) THEN two[i] ELSE one[i - Len(two)]
    BY <1>2 DEF st
  <2> QED BY <2>1
<1> HIDE DEF st
<1>4. st[1] = two[1] /\ st[2] = two[2] /\ st[3] = one[1]
  BY <1>3
<1> QED BY <1>1, <1>4 DEF st

LEMMA UnmapNrrTakes ==
    ASSUME NEW r \in NrrRegions PROVE Takes(UnmapNrrSteps(r), NrrPieces(r))
<1> DEFINE view == {<<r, "view">>}
           code == {<<r, "code">>}
           X    == NrrPieces(r)
           st   == UnmapNrrSteps(r)
<1>1. X = view \cup code /\ view \cap code = {} /\ st = <<view, code>>
  BY DEF NrrPieces, UnmapNrrSteps
<1> HIDE DEF view, code, X, st
<1>2. st \in Seq(SUBSET X) /\ Len(st) = 2 /\ st[1] = view /\ st[2] = code
  BY <1>1
<1>3. Takes(st, X)
  BY <1>1, <1>2, TakesTwo
<1> QED BY <1>3 DEF X, st

(* A module without data or without bss has the shorter chain.             *)
LEMMA UnmapNroTakes ==
    ASSUME RoAssumption, NEW a \in NroRegions
    PROVE  Takes(UnmapNroSteps(a), NroPieces(a)) /\ Takes(UnmapNroWholeSteps(a), NroPieces(a))
<1> DEFINE bss   == {<<a, "bss">>}
           rw    == {<<a, "rw">>}
           code  == {<<a, "code">>}
           X     == NroPieces(a)
           st    == UnmapNroSteps(a)
           whole == UnmapNroWholeSteps(a)
<1>0. bss \cap rw = {} /\ bss \cap code = {} /\ rw \cap code = {}
  OBVIOUS
<1>a. X = code \cup (IF Image[a].rw THEN rw ELSE {}) \cup (IF Image[a].bss THEN bss ELSE {})
  BY DEF NroPieces
<1>b. /\ st = (IF Image[a].bss THEN <<bss>> ELSE <<>>) \o (IF Image[a].rw THEN <<rw>> ELSE <<>>)
             \o <<code>>
      /\ whole = (IF Image[a].bss THEN <<bss>> ELSE <<>>) \o <<X \ bss>>
  BY DEF UnmapNroSteps, UnmapNroWholeSteps
<1> HIDE DEF bss, rw, code, X, st, whole
<1>1. CASE Image[a].bss /\ Image[a].rw
  <2>1. X = bss \cup rw \cup code /\ X = bss \cup (X \ bss) /\ bss \cap (X \ bss) = {}
    BY <1>1, <1>a
  <2>2. st = <<bss>> \o <<rw>> \o <<code>> /\ whole = <<bss>> \o <<X \ bss>>
    BY <1>1, <1>b
  <2>3. st \in Seq(SUBSET X) /\ Len(st) = 3 /\ st[1] = bss /\ st[2] = rw /\ st[3] = code
    <3>1. <<bss>> \in Seq(SUBSET X) /\ <<rw>> \in Seq(SUBSET X) /\ <<code>> \in Seq(SUBSET X)
      BY <2>1
    <3> DEFINE two == <<bss>> \o <<rw>>
               one == <<code>>
    <3>2. two \in Seq(SUBSET X) /\ Len(two) = 2 /\ two[1] = bss /\ two[2] = rw
      BY <3>1
    <3>3. one \in Seq(SUBSET X) /\ Len(one) = 1 /\ one[1] = code
      BY <3>1
    <3>4. st = two \o one
      BY <2>2
    <3> HIDE DEF two, one
    <3> QED BY <3>2, <3>3, <3>4, TwoAndOne
  <2>4. whole \in Seq(SUBSET X) /\ Len(whole) = 2 /\ whole[1] = bss /\ whole[2] = X \ bss
    <3>1. <<bss>> \in Seq(SUBSET X) /\ <<X \ bss>> \in Seq(SUBSET X)
      BY <2>1
    <3> QED BY <2>2, <3>1
  <2>5. Takes(st, X)
    BY <1>0, <2>1, <2>3, TakesThree
  <2>6. Takes(whole, X)
    BY <2>1, <2>4, TakesTwo
  <2> QED BY <2>5, <2>6 DEF st, whole, X
<1>2. CASE Image[a].bss /\ ~Image[a].rw
  <2>1. X = bss \cup code /\ X \ bss = code
    BY <1>0, <1>2, <1>a
  <2>2. st = <<bss>> \o <<code>> /\ whole = <<bss>> \o <<code>>
    <3>1. st = (<<bss>> \o <<>>) \o <<code>> /\ whole = <<bss>> \o <<code>>
      BY <1>2, <1>b, <2>1
    <3>2. <<bss>> \o <<>> = <<bss>>
      OBVIOUS
    <3> QED BY <3>1, <3>2
  <2>3. st \in Seq(SUBSET X) /\ Len(st) = 2 /\ st[1] = bss /\ st[2] = code
    <3>1. <<bss>> \in Seq(SUBSET X) /\ <<code>> \in Seq(SUBSET X)
      BY <2>1
    <3> QED BY <2>2, <3>1
  <2>4. Takes(st, X)
    BY <1>0, <2>1, <2>3, TakesTwo
  <2> QED BY <2>2, <2>4 DEF st, whole, X
<1>3. CASE ~Image[a].bss
  <2>1. X = (IF Image[a].rw THEN rw \cup code ELSE code) /\ X \ bss = X
    BY <1>0, <1>3, <1>a
  <2>2. whole = <<X>>
    <3>1. whole = <<>> \o <<X>>
      BY <1>3, <1>b, <2>1
    <3> QED BY <3>1
  <2>3. Takes(whole, X)
    <3>1. whole \in Seq(SUBSET X) /\ Len(whole) = 1 /\ whole[1] = X
      BY <2>2
    <3> QED BY <3>1, TakesOne
  <2>4. CASE Image[a].rw
    <3>1. st = <<rw>> \o <<code>> /\ X = rw \cup code
      <4>1. st = (<<>> \o <<rw>>) \o <<code>>
        BY <1>3, <1>b, <2>4
      <4>2. <<>> \o <<rw>> = <<rw>>
        OBVIOUS
      <4> QED BY <2>1, <2>4, <4>1, <4>2
    <3>2. <<rw>> \in Seq(SUBSET X) /\ <<code>> \in Seq(SUBSET X)
      BY <3>1
    <3>3. st \in Seq(SUBSET X) /\ Len(st) = 2 /\ st[1] = rw /\ st[2] = code
      BY <3>1, <3>2
    <3>4. Takes(st, X)
      BY <1>0, <3>1, <3>3, TakesTwo
    <3> QED BY <2>3, <3>4 DEF st, whole, X
  <2>5. CASE ~Image[a].rw
    <3>1. st = <<code>> /\ X = code
      <4>1. st = (<<>> \o <<>>) \o <<code>>
        BY <1>3, <1>b, <2>5
      <4>2. <<>> \o <<>> = <<>> /\ <<>> \o <<code>> = <<code>>
        OBVIOUS
      <4> QED BY <2>1, <2>5, <4>1, <4>2
    <3>2. st \in Seq(SUBSET X) /\ Len(st) = 1 /\ st[1] = X
      BY <3>1
    <3>3. Takes(st, X)
      BY <3>2, TakesOne
    <3> QED BY <2>3, <3>3 DEF st, whole, X
  <2> QED BY <2>4, <2>5
<1> QED BY <1>1, <1>2, <1>3

---------------------------------------------------------------------------
(* Types and tables.                                                       *)

(* The context of a validated session is that of its owner.                *)
LEMMA ValidatedContext ==
    ASSUME RoAssumption, TypeOK, ContextsMatchSessions, NEW s \in Sessions, Validated(s)
    PROVE  /\ session[s].context_id \in ContextIds
           /\ contexts[session[s].context_id] \in Context
           /\ contexts[session[s].context_id].process_id \in Pids
           /\ contexts[session[s].context_id].in_use
<1>1. session[s].context_id \in ContextIds
  BY DEF Validated, TypeOK
<1>2. contexts[session[s].context_id].process_id \in Pids
  BY DEF Validated, TypeOK
<1> QED BY <1>1, <1>2 DEF TypeOK, ContextsMatchSessions, RoAssumption

(* An entry more, or one less, in one context: the rest of the tables      *)
(* stays.                                                                  *)
EntriesChange(i, nro, nrr) ==
    /\ contexts' = [contexts EXCEPT ![i] = [@ EXCEPT !.nro = nro, !.nrr = nrr]]
    /\ UNCHANGED <<session, alive, out_of_contexts>>

LEMMA EntriesChangeType ==
    ASSUME TypeOK, NEW i \in ContextIds, NEW nro \in SUBSET NroRegions,
           NEW nrr \in SUBSET NrrRegions, EntriesChange(i, nro, nrr),
           Cardinality(nro) <= MaxNroInfos, Cardinality(nrr) <= MaxNrrInfos,
           mapped' \in [Pids -> SUBSET Pieces], stranded' \in [Pids -> SUBSET Pieces]
    PROVE  /\ TypeOK'
           /\ contexts'[i].nro = nro /\ contexts'[i].nrr = nrr
           /\ \A j \in ContextIds : /\ contexts'[j].process_id = contexts[j].process_id
                                    /\ contexts'[j].in_use = contexts[j].in_use
                                    /\ j # i => contexts'[j] = contexts[j]
<1> DEFINE new == [contexts[i] EXCEPT !.nro = nro, !.nrr = nrr]
<1>1. contexts[i] \in Context
  BY DEF TypeOK
<1>2. /\ new \in Context /\ new.nro = nro /\ new.nrr = nrr
      /\ new.process_id = contexts[i].process_id /\ new.in_use = contexts[i].in_use
  BY <1>1 DEF Context
<1>3. contexts' = [contexts EXCEPT ![i] = new]
  BY DEF EntriesChange
<1> HIDE DEF new
<1>4. contexts' \in [ContextIds -> Context]
  BY <1>2, <1>3 DEF TypeOK
<1>5. \A j \in ContextIds : contexts'[j] = IF j = i THEN new ELSE contexts[j]
  BY <1>3 DEF TypeOK
<1>6. \A j \in ContextIds : /\ Cardinality(contexts'[j].nrr) <= MaxNrrInfos
                            /\ Cardinality(contexts'[j].nro) <= MaxNroInfos
  BY <1>2, <1>5 DEF TypeOK
<1>7. TypeOK'
  BY <1>4, <1>6 DEF TypeOK, EntriesChange
<1> QED BY <1>2, <1>5, <1>7

LEMMA EntriesChangeMatch ==
    ASSUME TypeOK, TypeOK', ContextsMatchSessions, SessionsOwnContexts, NEW i \in ContextIds,
           NEW nro, NEW nrr, IsFiniteSet(nro), IsFiniteSet(nrr),
           contexts'[i].nro = nro, contexts'[i].nrr = nrr,
           \A j \in ContextIds : /\ contexts'[j].process_id = contexts[j].process_id
                                 /\ contexts'[j].in_use = contexts[j].in_use
                                 /\ j # i => contexts'[j] = contexts[j],
           UNCHANGED <<session, alive, out_of_contexts>>
    PROVE  ContextsMatchSessions' /\ SessionsOwnContexts'
<1>1. ContextsMatchSessions'
  BY DEF ContextsMatchSessions
<1>2. SessionsOwnContexts'
  <2>1. \A s \in Sessions : session[s].context_id # InvalidContextId =>
                              session[s].context_id \in ContextIds
    BY DEF TypeOK
  <2> QED BY <2>1 DEF SessionsOwnContexts
<1> QED BY <1>1, <1>2

---------------------------------------------------------------------------
(* Memory.                                                                 *)

(* What p has mapped are these pieces and what was lost, apart.            *)
Accounted(p, pieces) ==
    /\ mapped[p] = pieces \cup stranded[p]
    /\ pieces \cap stranded[p] = {}

LEMMA AccountedUnmap ==
    ASSUME mapped \in [Pids -> SUBSET Pieces], stranded \in [Pids -> SUBSET Pieces],
           NEW p \in Pids, NEW kept, NEW X \in SUBSET Pieces, NEW steps, Takes(steps, X),
           \/ /\ Accounted(p, kept) /\ X \cap mapped[p] = {} /\ Unmap(p, X, steps)
           \/ /\ Accounted(p, kept \cup X) /\ kept \cap X = {} /\ Unmap(p, {}, steps)
    PROVE  /\ mapped' \in [Pids -> SUBSET Pieces] /\ stranded' \in [Pids -> SUBSET Pieces]
           /\ Accounted(p, kept)'
           /\ \A q \in Pids \ {p} : mapped'[q] = mapped[q] /\ stranded'[q] = stranded[q]
<1>1. PICK n \in 0..Len(steps), new \in {X, {}} :
        /\ mapped' = [mapped EXCEPT ![p] = (@ \cup new) \ Done(steps, n)]
        /\ stranded' = [stranded EXCEPT ![p] = @ \cup Left(steps, n)]
        /\ \/ new = X /\ Accounted(p, kept) /\ X \cap mapped[p] = {}
           \/ new = {} /\ Accounted(p, kept \cup X) /\ kept \cap X = {}
  BY DEF Unmap
<1>2. /\ Done(steps, n) \cup Left(steps, n) = X
      /\ Done(steps, n) \cap Left(steps, n) = {}
  BY DEF Takes
<1>3. /\ mapped'[p] = (mapped[p] \cup new) \ Done(steps, n)
      /\ stranded'[p] = stranded[p] \cup Left(steps, n)
  BY <1>1
<1>4. Accounted(p, kept)'
  BY <1>1, <1>2, <1>3 DEF Accounted
<1> QED BY <1>1, <1>2, <1>4

(* The pieces of a set of modules and a set of registries; a module or a   *)
(* registry that is not in them has none of them.                          *)
Own(nro, nrr) == (UNION {NroPieces(a) : a \in nro}) \cup (UNION {NrrPieces(r) : r \in nrr})

LEMMA OwnIs ==
    ASSUME NEW nro, NEW nrr, NEW x
    PROVE  x \in Own(nro, nrr) <=> \/ \E a \in nro : x \in NroPieces(a)
                                   \/ \E r \in nrr : x \in NrrPieces(r)
BY DEF Own

LEMMA OwnPieces ==
    ASSUME RoAssumption, NEW nro \in SUBSET NroRegions, NEW nrr \in SUBSET NrrRegions
    PROVE  /\ Own(nro, nrr) \subseteq Pieces
           /\ \A piece \in Own(nro, nrr) : piece[1] \in nro \cup nrr
<1>1. \A x : x \in Own(nro, nrr) <=> \/ \E a \in nro : x \in NroPieces(a)
                                     \/ \E r \in nrr : x \in NrrPieces(r)
  BY OwnIs
<1>2. Own(nro, nrr) \subseteq Pieces
  BY <1>1, NroPiecesAre, NrrPiecesAre
<1>3. \A piece \in Own(nro, nrr) : piece[1] \in nro \cup nrr
  BY <1>1, NroPiecesAre, NrrPiecesAre
<1> QED BY <1>2, <1>3

LEMMA OwnMoreNrr ==
    ASSUME NEW nro, NEW nrr, NEW r
    PROVE  Own(nro, nrr \cup {r}) = Own(nro, nrr) \cup NrrPieces(r)
<1>1. \A x : x \in Own(nro, nrr \cup {r}) <=> x \in Own(nro, nrr) \/ x \in NrrPieces(r)
  BY OwnIs
<1> QED BY <1>1

LEMMA OwnApart ==
    ASSUME RoAssumption, NEW nro \in SUBSET NroRegions, NEW nrr \in SUBSET NrrRegions
    PROVE  /\ \A r \in NrrRegions : r \notin nrr => Own(nro, nrr) \cap NrrPieces(r) = {}
           /\ \A a \in NroRegions : a \notin nro => Own(nro, nrr) \cap NroPieces(a) = {}
<1>1. \A piece \in Own(nro, nrr) : piece[1] \in nro \cup nrr
  BY OwnPieces
<1>2. ASSUME NEW r \in NrrRegions, r \notin nrr PROVE Own(nro, nrr) \cap NrrPieces(r) = {}
  BY <1>1, <1>2, NrrPiecesAre DEF RoAssumption
<1>3. ASSUME NEW a \in NroRegions, a \notin nro PROVE Own(nro, nrr) \cap NroPieces(a) = {}
  BY <1>1, <1>3, NroPiecesAre DEF RoAssumption
<1> QED BY <1>2, <1>3

(* No piece of a region that the kernel takes for heap is mapped.          *)
LEMMA HeapIsUnmapped ==
    ASSUME RoAssumption, NEW p, NEW region, IsHeap(p, region)
    PROVE  /\ region \in NrrRegions => NrrPieces(region) \cap mapped[p] = {}
           /\ region \in NroRegions => NroPieces(region) \cap mapped[p] = {}
BY NroPiecesAre, NrrPiecesAre DEF IsHeap

(* A step that changes the entries of a context in use, and the memory of  *)
(* its process with them.                                                  *)
LEMMA EntriesStep ==
    ASSUME RoAssumption, RoInv, NEW i \in ContextIds, contexts[i].in_use,
           NEW nro \in SUBSET NroRegions, NEW nrr \in SUBSET NrrRegions, EntriesChange(i, nro, nrr),
           IsFiniteSet(nro), IsFiniteSet(nrr),
           Cardinality(nro) <= MaxNroInfos, Cardinality(nrr) <= MaxNrrInfos,
           mapped' \in [Pids -> SUBSET Pieces], stranded' \in [Pids -> SUBSET Pieces],
           NEW p \in Pids, p = contexts[i].process_id,
           Accounted(p, Own(nro, nrr))',
           \A q \in Pids \ {p} : mapped'[q] = mapped[q] /\ stranded'[q] = stranded[q]
    PROVE  RoInv'
<1>0. /\ TypeOK /\ ContextsMatchSessions /\ SessionsOwnContexts
      /\ MemoryAccounted /\ OthersStranded
  BY DEF ContextsMatchSessions, RoInv, RoMappingsKept
<1>1. /\ TypeOK'
      /\ contexts'[i].nro = nro /\ contexts'[i].nrr = nrr
      /\ \A j \in ContextIds : /\ contexts'[j].process_id = contexts[j].process_id
                               /\ contexts'[j].in_use = contexts[j].in_use
                               /\ j # i => contexts'[j] = contexts[j]
  BY <1>0, EntriesChangeType
<1>2. ContextsMatchSessions' /\ SessionsOwnContexts'
  BY <1>0, <1>1, EntriesChangeMatch DEF EntriesChange
<1>3. mapped'[p] = Own(nro, nrr) \cup stranded'[p] /\ Own(nro, nrr) \cap stranded'[p] = {}
  BY DEF Accounted, Own
<1>4. ASSUME NEW j \in ContextIds, contexts'[j].in_use
      PROVE  /\ mapped'[contexts'[j].process_id]
                   = PiecesOf(contexts'[j]) \cup stranded'[contexts'[j].process_id]
             /\ PiecesOf(contexts'[j]) \cap stranded'[contexts'[j].process_id] = {}
  <2>1. CASE j = i
    <3>1. PiecesOf(contexts'[j]) = Own(nro, nrr) /\ contexts'[j].process_id = p
      BY <1>1, <2>1 DEF PiecesOf, Own
    <3> QED BY <1>3, <3>1
  <2>2. CASE j # i
    <3>1. contexts'[j] = contexts[j] /\ contexts[j].in_use
      BY <1>1, <1>4, <2>2
    <3>2. contexts[j].process_id \in Pids \ {p}
      BY <1>0, <2>2, <3>1 DEF ContextsMatchSessions, TypeOK, Context
    <3>3. /\ mapped[contexts[j].process_id]
                = PiecesOf(contexts[j]) \cup stranded[contexts[j].process_id]
          /\ PiecesOf(contexts[j]) \cap stranded[contexts[j].process_id] = {}
      BY <1>0, <3>1 DEF MemoryAccounted
    <3> QED BY <3>1, <3>2, <3>3
  <2> QED BY <2>1, <2>2
<1>5. MemoryAccounted'
  BY <1>4 DEF MemoryAccounted, PiecesOf
<1>6. OthersStranded'
  <2>1. \A q : HasContext(q)' <=> HasContext(q)
    BY <1>1 DEF HasContext
  <2>2. HasContext(p)
    BY DEF HasContext
  <2>3. ASSUME NEW q \in Pids, ~HasContext(q)' PROVE mapped'[q] = stranded'[q]
    <3>1. ~HasContext(q) /\ q # p
      BY <2>1, <2>2, <2>3
    <3> QED BY <1>0, <3>1 DEF OthersStranded
  <2> QED BY <2>3 DEF OthersStranded, HasContext
<1> QED BY <1>1, <1>2, <1>5, <1>6 DEF RoInv, RoMappingsKept

(* What RoInv says of the context of a validated session.                  *)
LEMMA ValidatedIs ==
    ASSUME RoAssumption, RoInv, NEW s \in Sessions, Validated(s),
           NEW i, i = session[s].context_id, NEW p, p = contexts[i].process_id
    PROVE  /\ i \in ContextIds /\ contexts[i] \in Context /\ contexts[i].in_use /\ p \in Pids
           /\ contexts[i].nro \in SUBSET NroRegions /\ contexts[i].nrr \in SUBSET NrrRegions
           /\ IsFiniteSet(contexts[i].nro) /\ IsFiniteSet(contexts[i].nrr)
           /\ Cardinality(contexts[i].nro) \in Nat /\ Cardinality(contexts[i].nro) <= MaxNroInfos
           /\ Cardinality(contexts[i].nrr) \in Nat /\ Cardinality(contexts[i].nrr) <= MaxNrrInfos
           /\ Accounted(p, Own(contexts[i].nro, contexts[i].nrr))
           /\ mapped \in [Pids -> SUBSET Pieces] /\ stranded \in [Pids -> SUBSET Pieces]
<1>0. TypeOK /\ ContextsMatchSessions /\ SessionsOwnContexts /\ MemoryAccounted
  BY DEF ContextsMatchSessions, RoInv, RoMappingsKept
<1>1. i \in ContextIds /\ contexts[i] \in Context /\ contexts[i].in_use /\ p \in Pids
  BY <1>0, ValidatedContext
<1>2. contexts[i].nro \in SUBSET NroRegions /\ contexts[i].nrr \in SUBSET NrrRegions
  BY <1>1 DEF Context
<1>3. IsFiniteSet(contexts[i].nro) /\ IsFiniteSet(contexts[i].nrr)
  BY <1>0, <1>1 DEF SessionsOwnContexts
<1>4. Cardinality(contexts[i].nro) \in Nat /\ Cardinality(contexts[i].nrr) \in Nat
  BY <1>3, FS_CardinalityType
<1>5. Accounted(p, Own(contexts[i].nro, contexts[i].nrr))
  BY <1>0, <1>1 DEF MemoryAccounted, Accounted, PiecesOf, Own
<1> QED BY <1>0, <1>1, <1>2, <1>3, <1>4, <1>5 DEF TypeOK

(* The number of entries after one more and after one less.                *)
LEMMA EntriesCount ==
    ASSUME NEW S, NEW x, IsFiniteSet(S), NEW n \in Nat
    PROVE  /\ IsFiniteSet(S \cup {x}) /\ IsFiniteSet(S \ {x})
           /\ Cardinality(S) < n => Cardinality(S \cup {x}) <= n
           /\ Cardinality(S) <= n => Cardinality(S \ {x}) <= n
<1>1. Cardinality(S) \in Nat
  BY FS_CardinalityType
<1>2. /\ IsFiniteSet(S \cup {x})
      /\ Cardinality(S \cup {x}) = IF x \in S THEN Cardinality(S) ELSE Cardinality(S) + 1
  BY FS_AddElement
<1>3. /\ IsFiniteSet(S \ {x})
      /\ Cardinality(S \ {x}) = IF x \in S THEN Cardinality(S) - 1 ELSE Cardinality(S)
  BY FS_RemoveElement
<1> QED BY <1>1, <1>2, <1>3

---------------------------------------------------------------------------
(* The steps.                                                              *)

LEMMA LoadNrrKeeps ==
    ASSUME RoAssumption, RoInv, NEW s \in Sessions, NEW q, NEW r \in NrrRegions,
           NEW expected_type, NEW enforce_type,
           LoadNrrImpl(s, q, r, expected_type, enforce_type),
           NEW i, i = session[s].context_id, NEW c, c = contexts[i], NEW p, p = c.process_id,
           NEW nrr, nrr = c.nrr \cup {r}
    PROVE  RoInv'
<1>1. /\ i \in ContextIds /\ c \in Context /\ c.in_use /\ p \in Pids
      /\ c.nro \in SUBSET NroRegions /\ c.nrr \in SUBSET NrrRegions
      /\ IsFiniteSet(c.nro) /\ IsFiniteSet(c.nrr) /\ Cardinality(c.nro) <= MaxNroInfos
      /\ Accounted(p, Own(c.nro, c.nrr))
      /\ mapped \in [Pids -> SUBSET Pieces] /\ stranded \in [Pids -> SUBSET Pieces]
  BY ValidatedIs DEF LoadNrrImpl
<1>2. EntriesChange(i, c.nro, nrr)
  <2>1. [c EXCEPT !.nrr = nrr] = [c EXCEPT !.nro = c.nro, !.nrr = nrr]
    BY <1>1 DEF Context
  <2> QED BY <2>1 DEF LoadNrrImpl, EntriesChange
<1>3. Cardinality(nrr) <= MaxNrrInfos /\ IsFiniteSet(nrr) /\ nrr \in SUBSET NrrRegions
  BY <1>1, EntriesCount DEF LoadNrrImpl, HasFreeNrrInfo, RoAssumption
<1>4. /\ mapped' = [mapped EXCEPT ![p] = @ \cup NrrPieces(r)]
      /\ stranded' = stranded
      /\ NrrPieces(r) \cap mapped[p] = {}
  BY HeapIsUnmapped DEF LoadNrrImpl, Map
<1>5. Own(c.nro, nrr) = Own(c.nro, c.nrr) \cup NrrPieces(r)
  BY OwnMoreNrr
<1>6. /\ mapped' \in [Pids -> SUBSET Pieces] /\ stranded' \in [Pids -> SUBSET Pieces]
      /\ mapped'[p] = mapped[p] \cup NrrPieces(r)
      /\ \A x \in Pids \ {p} : mapped'[x] = mapped[x] /\ stranded'[x] = stranded[x]
  BY <1>1, <1>4, NrrPiecesAre
<1>7. Accounted(p, Own(c.nro, nrr))'
  BY <1>1, <1>4, <1>5, <1>6 DEF Accounted, Own
<1>8. c.nro \in SUBSET NroRegions /\ i \in ContextIds /\ contexts[i].in_use
      /\ p = contexts[i].process_id
  BY <1>1
<1> QED BY <1>1, <1>2, <1>3, <1>6, <1>7, <1>8, EntriesStep

LEMMA UnloadNrrKeeps ==
    ASSUME RoAssumption, RoInv, NEW s \in Sessions, NEW r \in NrrRegions, UnloadNrr(s, r),
           NEW i, i = session[s].context_id, NEW c, c = contexts[i], NEW p, p = c.process_id,
           NEW nrr, nrr = c.nrr \ {r}
    PROVE  RoInv'
<1>1. /\ i \in ContextIds /\ c \in Context /\ c.in_use /\ p \in Pids
      /\ c.nro \in SUBSET NroRegions /\ c.nrr \in SUBSET NrrRegions
      /\ IsFiniteSet(c.nro) /\ IsFiniteSet(c.nrr) /\ Cardinality(c.nro) <= MaxNroInfos
      /\ Cardinality(c.nrr) <= MaxNrrInfos
      /\ Accounted(p, Own(c.nro, c.nrr))
      /\ mapped \in [Pids -> SUBSET Pieces] /\ stranded \in [Pids -> SUBSET Pieces]
  BY ValidatedIs DEF UnloadNrr
<1>2. EntriesChange(i, c.nro, nrr)
  <2>1. [c EXCEPT !.nrr = nrr] = [c EXCEPT !.nro = c.nro, !.nrr = nrr]
    BY <1>1 DEF Context
  <2> QED BY <2>1 DEF UnloadNrr, EntriesChange
<1>3. Cardinality(nrr) <= MaxNrrInfos /\ IsFiniteSet(nrr) /\ nrr \in SUBSET NrrRegions
  BY <1>1, EntriesCount DEF RoAssumption
<1>4. Unmap(p, {}, UnmapNrrSteps(r)) /\ Takes(UnmapNrrSteps(r), NrrPieces(r))
  BY UnmapNrrTakes DEF UnloadNrr
<1>5. /\ Accounted(p, Own(c.nro, nrr) \cup NrrPieces(r))
      /\ Own(c.nro, nrr) \cap NrrPieces(r) = {}
  <2>1. nrr \cup {r} = c.nrr /\ r \notin nrr
    BY DEF UnloadNrr
  <2>2. Own(c.nro, nrr \cup {r}) = Own(c.nro, nrr) \cup NrrPieces(r)
    BY OwnMoreNrr
  <2>3. Own(c.nro, nrr) \cap NrrPieces(r) = {}
    BY <1>1, <1>3, <2>1, OwnApart
  <2> QED BY <1>1, <2>1, <2>2, <2>3
<1>6. /\ mapped' \in [Pids -> SUBSET Pieces] /\ stranded' \in [Pids -> SUBSET Pieces]
      /\ Accounted(p, Own(c.nro, nrr))'
      /\ \A x \in Pids \ {p} : mapped'[x] = mapped[x] /\ stranded'[x] = stranded[x]
  <2> DEFINE kept == Own(c.nro, nrr)
             X == NrrPieces(r)
             st == UnmapNrrSteps(r)
  <2>1. X \in SUBSET Pieces
    BY NrrPiecesAre
  <2>2. Accounted(p, kept \cup X) /\ kept \cap X = {} /\ Unmap(p, {}, st) /\ Takes(st, X)
    BY <1>4, <1>5
  <2> HIDE DEF X, st
  <2> QED BY <1>1, <2>1, <2>2, AccountedUnmap
<1>8. contexts[i].in_use /\ p = contexts[i].process_id
  BY <1>1
<1> QED BY <1>1, <1>2, <1>3, <1>6, <1>8, EntriesStep

LEMMA LoadNroKeeps ==
    ASSUME RoAssumption, RoInv, NEW s \in Sessions, NEW a \in NroRegions, LoadNro(s, a),
           NEW i, i = session[s].context_id, NEW c, c = contexts[i], NEW p, p = c.process_id,
           NEW nro, nro = c.nro \cup {a}
    PROVE  RoInv'
<1>1. /\ i \in ContextIds /\ c \in Context /\ c.in_use /\ p \in Pids
      /\ c.nro \in SUBSET NroRegions /\ c.nrr \in SUBSET NrrRegions
      /\ IsFiniteSet(c.nro) /\ IsFiniteSet(c.nrr)
      /\ Cardinality(c.nro) <= MaxNroInfos /\ Cardinality(c.nrr) <= MaxNrrInfos
      /\ Accounted(p, Own(c.nro, c.nrr))
      /\ mapped \in [Pids -> SUBSET Pieces] /\ stranded \in [Pids -> SUBSET Pieces]
  BY ValidatedIs DEF LoadNro
<1>2. NroPieces(a) \cap mapped[p] = {}
  BY HeapIsUnmapped DEF LoadNro
<1>3. CASE /\ Map(p, NroPieces(a))
           /\ contexts' = [contexts EXCEPT ![i].nro = @ \cup {a}]
  <2>1. EntriesChange(i, nro, c.nrr)
    <3>1. [c EXCEPT !.nro = nro] = [c EXCEPT !.nro = nro, !.nrr = c.nrr]
      BY <1>1 DEF Context
    <3> QED BY <1>3, <3>1 DEF LoadNro, EntriesChange
  <2>2. Cardinality(nro) <= MaxNroInfos /\ IsFiniteSet(nro) /\ nro \in SUBSET NroRegions
    BY <1>1, EntriesCount DEF LoadNro, HasFreeNroInfo, RoAssumption
  <2>3. Own(nro, c.nrr) = Own(c.nro, c.nrr) \cup NroPieces(a)
    <3>1. \A x : x \in Own(nro, c.nrr) <=> x \in Own(c.nro, c.nrr) \/ x \in NroPieces(a)
      BY OwnIs
    <3> QED BY <3>1
  <2>4. /\ mapped' \in [Pids -> SUBSET Pieces] /\ stranded' \in [Pids -> SUBSET Pieces]
        /\ mapped'[p] = mapped[p] \cup NroPieces(a)
        /\ \A x \in Pids \ {p} : mapped'[x] = mapped[x] /\ stranded'[x] = stranded[x]
    BY <1>1, <1>3, NroPiecesAre DEF Map
  <2>5. Accounted(p, Own(nro, c.nrr))'
    BY <1>1, <1>2, <1>3, <2>3, <2>4 DEF Accounted, Own, Map
  <2>6. contexts[i].in_use /\ p = contexts[i].process_id
    BY <1>1
  <2> QED BY <1>1, <2>1, <2>2, <2>4, <2>5, <2>6, EntriesStep
<1>4. CASE /\ \/ Unmap(p, NroPieces(a), UnmapNroWholeSteps(a))
              \/ Unmap(p, NroPieces(a), UnmapNroSteps(a))
           /\ UNCHANGED contexts
  <2>1. EntriesChange(i, c.nro, c.nrr)
    <3>1. c = [c EXCEPT !.nro = c.nro, !.nrr = c.nrr]
      BY <1>1 DEF Context
    <3>2. contexts = [contexts EXCEPT ![i] = c]
      BY DEF RoInv, RoMappingsKept, ContextsMatchSessions, TypeOK
    <3> QED BY <1>4, <3>1, <3>2 DEF LoadNro, EntriesChange
  <2>2. NroPieces(a) \in SUBSET Pieces
    BY NroPiecesAre
  <2>3. /\ Takes(UnmapNroSteps(a), NroPieces(a))
        /\ Takes(UnmapNroWholeSteps(a), NroPieces(a))
    BY UnmapNroTakes
  <2>4. /\ mapped' \in [Pids -> SUBSET Pieces] /\ stranded' \in [Pids -> SUBSET Pieces]
        /\ Accounted(p, Own(c.nro, c.nrr))'
        /\ \A x \in Pids \ {p} : mapped'[x] = mapped[x] /\ stranded'[x] = stranded[x]
    <3>1. CASE Unmap(p, NroPieces(a), UnmapNroWholeSteps(a))
      BY <1>1, <1>2, <2>2, <2>3, <3>1, AccountedUnmap
    <3>2. CASE Unmap(p, NroPieces(a), UnmapNroSteps(a))
      BY <1>1, <1>2, <2>2, <2>3, <3>2, AccountedUnmap
    <3> QED BY <1>4, <3>1, <3>2
  <2>5. contexts[i].in_use /\ p = contexts[i].process_id
    BY <1>1
  <2> QED BY <1>1, <2>1, <2>4, <2>5, EntriesStep
<1> QED BY <1>3, <1>4 DEF LoadNro

LEMMA UnloadNroKeeps ==
    ASSUME RoAssumption, RoInv, NEW s \in Sessions, NEW a \in NroRegions, UnloadNro(s, a),
           NEW i, i = session[s].context_id, NEW c, c = contexts[i], NEW p, p = c.process_id,
           NEW nro, nro = c.nro \ {a}
    PROVE  RoInv'
<1>1. /\ i \in ContextIds /\ c \in Context /\ c.in_use /\ p \in Pids
      /\ c.nro \in SUBSET NroRegions /\ c.nrr \in SUBSET NrrRegions
      /\ IsFiniteSet(c.nro) /\ IsFiniteSet(c.nrr)
      /\ Cardinality(c.nro) <= MaxNroInfos /\ Cardinality(c.nrr) <= MaxNrrInfos
      /\ Accounted(p, Own(c.nro, c.nrr))
      /\ mapped \in [Pids -> SUBSET Pieces] /\ stranded \in [Pids -> SUBSET Pieces]
  BY ValidatedIs DEF UnloadNro
<1>2. EntriesChange(i, nro, c.nrr)
  <2>1. [c EXCEPT !.nro = nro] = [c EXCEPT !.nro = nro, !.nrr = c.nrr]
    BY <1>1 DEF Context
  <2> QED BY <2>1 DEF UnloadNro, EntriesChange
<1>3. Cardinality(nro) <= MaxNroInfos /\ IsFiniteSet(nro) /\ nro \in SUBSET NroRegions
  BY <1>1, EntriesCount DEF RoAssumption
<1>4. Unmap(p, {}, UnmapNroSteps(a)) /\ Takes(UnmapNroSteps(a), NroPieces(a))
  BY UnmapNroTakes DEF UnloadNro
<1>5. /\ Accounted(p, Own(nro, c.nrr) \cup NroPieces(a))
      /\ Own(nro, c.nrr) \cap NroPieces(a) = {}
  <2>1. nro \cup {a} = c.nro /\ a \notin nro
    BY DEF UnloadNro
  <2>2. Own(nro \cup {a}, c.nrr) = Own(nro, c.nrr) \cup NroPieces(a)
    <3>1. \A x : x \in Own(nro \cup {a}, c.nrr) <=> x \in Own(nro, c.nrr) \/ x \in NroPieces(a)
      BY OwnIs
    <3> QED BY <3>1
  <2>3. Own(nro, c.nrr) \cap NroPieces(a) = {}
    BY <1>1, <1>3, <2>1, OwnApart
  <2> QED BY <1>1, <2>1, <2>2, <2>3
<1>6. /\ mapped' \in [Pids -> SUBSET Pieces] /\ stranded' \in [Pids -> SUBSET Pieces]
      /\ Accounted(p, Own(nro, c.nrr))'
      /\ \A x \in Pids \ {p} : mapped'[x] = mapped[x] /\ stranded'[x] = stranded[x]
  <2>1. NroPieces(a) \in SUBSET Pieces
    BY NroPiecesAre
  <2> QED BY <1>1, <1>4, <1>5, <2>1, AccountedUnmap
<1>7. contexts[i].in_use /\ p = contexts[i].process_id
  BY <1>1
<1> QED BY <1>1, <1>2, <1>3, <1>6, <1>7, EntriesStep

---------------------------------------------------------------------------
(* Sessions and processes come and go.                                     *)

LEMMA OpenSessionKeeps ==
    ASSUME RoAssumption, RoInv, NEW p \in Pids, NEW s \in Sessions, OpenSession(p, s)
    PROVE  RoInv'
<1>1. /\ TypeOK /\ ContextsMatchSessions /\ SessionsOwnContexts
      /\ MemoryAccounted /\ OthersStranded
  BY DEF ContextsMatchSessions, RoInv, RoMappingsKept
<1>2. /\ session[s].owner = NoPid /\ session[s].context_id = InvalidContextId
      /\ \A t \in Sessions : /\ session'[t].context_id = session[t].context_id
                             /\ t # s => session'[t] = session[t]
  <2>1. session[s].owner = NoPid /\ session[s].context_id = InvalidContextId
    BY <1>1 DEF OpenSession, SessionsOwnContexts
  <2>2. \A t \in Sessions : session'[t] =
          IF t = s THEN [owner |-> p, context_id |-> InvalidContextId] ELSE session[t]
    BY <1>1 DEF OpenSession, TypeOK
  <2> QED BY <2>1, <2>2
<1>3. TypeOK'
  <2>1. [owner |-> p, context_id |-> InvalidContextId]
          \in [owner : Pids \cup {NoPid}, context_id : ContextIds \cup {InvalidContextId}]
    OBVIOUS
  <2>2. session' \in [Sessions -> [owner : Pids \cup {NoPid},
                                   context_id : ContextIds \cup {InvalidContextId}]]
    BY <1>1, <2>1 DEF OpenSession, TypeOK
  <2> QED BY <1>1, <2>2 DEF OpenSession, TypeOK
<1>4. ContextsMatchSessions'
  <2>1. \A i \in ContextIds : \A t \in Sessions :
          session[t] = [owner |-> contexts[i].process_id, context_id |-> i]
             => session'[t] = session[t]
    BY <1>2 DEF ContextIds, InvalidContextId
  <2> QED BY <1>1, <1>2, <1>3, <2>1 DEF OpenSession, ContextsMatchSessions
<1>5. SessionsOwnContexts'
  BY <1>1, <1>2 DEF OpenSession, SessionsOwnContexts
<1>6. MemoryAccounted' /\ OthersStranded'
  BY <1>1 DEF OpenSession, MemoryAccounted, PiecesOf, OthersStranded, HasContext
<1> QED BY <1>4, <1>5, <1>6 DEF RoInv, RoMappingsKept

LEMMA DieKeeps ==
    ASSUME RoAssumption, RoInv, NEW p \in Pids, Die(p)
    PROVE  RoInv'
<1>1. /\ TypeOK /\ ContextsMatchSessions /\ SessionsOwnContexts
      /\ MemoryAccounted /\ OthersStranded
  BY DEF ContextsMatchSessions, RoInv, RoMappingsKept
<1>2. UNCHANGED <<contexts, session, out_of_contexts>> /\ alive' \subseteq Pids
  BY <1>1 DEF Die, TypeOK
<1>3. /\ mapped' \in [Pids -> SUBSET Pieces] /\ stranded' \in [Pids -> SUBSET Pieces]
      /\ \A q \in Pids : \/ q = p /\ ~HasContext(q) /\ mapped'[q] = {} /\ stranded'[q] = {}
                         \/ mapped'[q] = mapped[q] /\ stranded'[q] = stranded[q]
  <2>1. CASE HasContext(p)
    BY <1>1, <2>1 DEF Die, TypeOK
  <2>2. CASE ~HasContext(p)
    BY <1>1, <2>2 DEF Die, TypeOK
  <2> QED BY <2>1, <2>2
<1>4. ContextsMatchSessions'
  <2>1. TypeOK'
    BY <1>1, <1>2, <1>3 DEF TypeOK
  <2> QED BY <1>1, <1>2, <2>1 DEF ContextsMatchSessions
<1>5. SessionsOwnContexts'
  BY <1>1, <1>2 DEF SessionsOwnContexts
<1>6. MemoryAccounted'
  <2> SUFFICES ASSUME NEW i \in ContextIds, contexts[i].in_use
               PROVE  /\ mapped'[contexts[i].process_id]
                            = PiecesOf(contexts[i]) \cup stranded'[contexts[i].process_id]
                      /\ PiecesOf(contexts[i]) \cap stranded'[contexts[i].process_id] = {}
    BY <1>2 DEF MemoryAccounted, PiecesOf
  <2>1. contexts[i].process_id \in Pids /\ HasContext(contexts[i].process_id)
    BY <1>1 DEF ContextsMatchSessions, TypeOK, Context, HasContext
  <2>2. /\ mapped'[contexts[i].process_id] = mapped[contexts[i].process_id]
        /\ stranded'[contexts[i].process_id] = stranded[contexts[i].process_id]
    BY <1>3, <2>1
  <2> QED BY <1>1, <2>2 DEF MemoryAccounted
<1>7. OthersStranded'
  BY <1>1, <1>2, <1>3 DEF OthersStranded, HasContext
<1> QED BY <1>4, <1>5, <1>6, <1>7 DEF RoInv, RoMappingsKept

Registers(s, i, p) ==
    /\ contexts' = [contexts EXCEPT ![i] =
            [FreedContext EXCEPT !.in_use = TRUE, !.process_id = p]]
    /\ session' = [session EXCEPT ![s].context_id = i]
    /\ UNCHANGED <<alive, mapped, stranded, out_of_contexts>>

(* What the one to one correspondence says, in the forms the proofs use.   *)
LEMMA ContextFacts ==
    ASSUME ContextsMatchSessions
    PROVE  /\ \A i \in ContextIds : contexts[i].in_use <=> contexts[i].process_id # NoPid
           /\ \A i \in ContextIds : contexts[i].in_use =>
                \E s \in Sessions : session[s] = [owner |-> contexts[i].process_id, context_id |-> i]
           /\ \A i, j \in ContextIds : contexts[i].in_use /\ i # j =>
                                         contexts[j].process_id # contexts[i].process_id
BY DEF ContextsMatchSessions

(* A process that registers has no context, so that its session has none   *)
(* to lose; the first free context answers to nobody.                      *)
LEMMA RegisterKeeps ==
    ASSUME RoAssumption, RoInv, NEW s \in Sessions, NEW p \in Pids, p = session[s].owner,
           ~HasContext(p), NEW i \in ContextIds, ~contexts[i].in_use, Registers(s, i, p)
    PROVE  RoInv'
<1>1. /\ TypeOK /\ ContextsMatchSessions /\ SessionsOwnContexts
      /\ MemoryAccounted /\ OthersStranded
  BY DEF ContextsMatchSessions, RoInv, RoMappingsKept
<1> DEFINE new   == [FreedContext EXCEPT !.in_use = TRUE, !.process_id = p]
           given == [session[s] EXCEPT !.context_id = i]
<1>2. /\ new \in Context /\ new.in_use /\ new.process_id = p /\ new.nro = {} /\ new.nrr = {}
      /\ PiecesOf(new) = {}
  BY DEF FreedContext, Context, PiecesOf
<1>3. /\ given = [owner |-> p, context_id |-> i] /\ given.owner = p /\ given.context_id = i
      /\ given \in [owner : Pids \cup {NoPid}, context_id : ContextIds \cup {InvalidContextId}]
  BY <1>1 DEF TypeOK
<1>a. /\ contexts' = [contexts EXCEPT ![i] = new]
      /\ session' = [session EXCEPT ![s] = given]
      /\ UNCHANGED <<alive, mapped, stranded, out_of_contexts>>
  BY DEF Registers
<1> HIDE DEF new, given
<1>4. /\ \A j \in ContextIds : contexts'[j] = IF j = i THEN new ELSE contexts[j]
      /\ \A t \in Sessions : session'[t] = IF t = s THEN given ELSE session[t]
  BY <1>1, <1>a DEF TypeOK
<1>5. /\ contexts' \in [ContextIds -> Context]
      /\ session' \in [Sessions -> [owner : Pids \cup {NoPid},
                                    context_id : ContextIds \cup {InvalidContextId}]]
  BY <1>1, <1>2, <1>3, <1>a DEF TypeOK
<1>6. /\ i # InvalidContextId /\ p # NoPid
      /\ contexts[i].process_id = NoPid
      /\ session[s].context_id = InvalidContextId
      /\ \A t \in Sessions : session[t].context_id # i
      /\ \A j \in ContextIds : contexts[j].process_id # p
  <2>1. i # InvalidContextId /\ p # NoPid /\ contexts[i].process_id = NoPid
    <3>1. i # InvalidContextId /\ p # NoPid
      BY DEF RoAssumption, ContextIds, InvalidContextId
    <3> QED BY <1>1, <3>1, ContextFacts
  <2>2. \A j \in ContextIds : contexts[j].process_id # p
    BY DEF HasContext
  <2>3. session[s].context_id = InvalidContextId
    BY <1>1, <2>2 DEF SessionsOwnContexts, TypeOK
  <2>4. ASSUME NEW t \in Sessions, session[t].context_id = i PROVE FALSE
    BY <1>1, <2>1, <2>4 DEF SessionsOwnContexts
  <2> QED BY <2>1, <2>2, <2>3, <2>4
<1>7. TypeOK'
  <2>1. Cardinality({}) = 0
    BY FS_EmptySet
  <2>2. \A j \in ContextIds : /\ Cardinality(contexts'[j].nrr) <= MaxNrrInfos
                              /\ Cardinality(contexts'[j].nro) <= MaxNroInfos
    <3>1. new.nro = {} /\ new.nrr = {} /\ 0 <= MaxNrrInfos /\ 0 <= MaxNroInfos
      BY <1>2 DEF RoAssumption
    <3>2. \A j \in ContextIds : /\ Cardinality(contexts[j].nrr) <= MaxNrrInfos
                                /\ Cardinality(contexts[j].nro) <= MaxNroInfos
      BY <1>1 DEF TypeOK
    <3> QED BY <1>4, <2>1, <3>1, <3>2
  <2> QED BY <1>1, <1>5, <1>a, <2>2 DEF TypeOK
<1>8. ContextsMatchSessions'
  <2>1. ASSUME NEW j \in ContextIds
        PROVE  contexts'[j].in_use <=> contexts'[j].process_id # NoPid
    BY <1>1, <1>2, <1>4, <1>6, ContextFacts
  <2>2. ASSUME NEW j \in ContextIds, contexts'[j].in_use
        PROVE  \E t \in Sessions :
                 session'[t] = [owner |-> contexts'[j].process_id, context_id |-> j]
    <3>1. CASE j = i
      <4>1. contexts'[j].process_id = p /\ session'[s] = [owner |-> p, context_id |-> j]
        BY <1>2, <1>3, <1>4, <3>1
      <4> QED BY <4>1
    <3>2. CASE j # i
      <4>1. contexts'[j] = contexts[j]
        BY <1>4, <3>2
      <4>2. PICK t \in Sessions :
              session[t] = [owner |-> contexts[j].process_id, context_id |-> j]
        BY <1>1, <2>2, <4>1, ContextFacts
      <4>3. t # s
        BY <1>6, <4>2 DEF ContextIds, InvalidContextId
      <4> QED BY <1>4, <4>1, <4>2, <4>3
    <3> QED BY <3>1, <3>2
  <2>3. ASSUME NEW j \in ContextIds, contexts'[j].in_use, NEW k \in ContextIds \ {j}
        PROVE  contexts'[k].process_id # contexts'[j].process_id
    BY <1>1, <1>2, <1>4, <1>6, <2>3, ContextFacts
  <2>4. ASSUME NEW t \in Sessions, NEW u \in Sessions,
               session'[t].context_id # InvalidContextId,
               session'[t].context_id = session'[u].context_id
        PROVE  t = u
    <3>1. /\ \A v \in Sessions : session'[v].context_id =
                                   IF v = s THEN i ELSE session[v].context_id
      BY <1>3, <1>4
    <3> QED BY <1>1, <1>6, <2>4, <3>1 DEF ContextsMatchSessions
  <2>5. out_of_contexts' => Cardinality(Pids) > MaxSessions
    BY <1>1, <1>a DEF ContextsMatchSessions
  <2> QED BY <1>7, <2>1, <2>2, <2>3, <2>4, <2>5 DEF ContextsMatchSessions
<1>9. SessionsOwnContexts'
  <2>1. ASSUME NEW t \in Sessions, session'[t].context_id # InvalidContextId
        PROVE  /\ session'[t].owner # NoPid
               /\ contexts'[session'[t].context_id].process_id = session'[t].owner
    <3>1. CASE t = s
      <4>1. session'[t].owner = p /\ session'[t].context_id = i /\ contexts'[i].process_id = p
        BY <1>2, <1>3, <1>4, <3>1
      <4> QED BY <1>6, <4>1
    <3>2. CASE t # s
      <4>1. session'[t] = session[t] /\ session[t].context_id \in ContextIds \ {i}
        BY <1>1, <1>4, <1>6, <2>1, <3>2 DEF TypeOK
      <4> QED BY <1>1, <1>4, <2>1, <4>1 DEF SessionsOwnContexts
    <3> QED BY <3>1, <3>2
  <2>2. \A j \in ContextIds : IsFiniteSet(contexts'[j].nro) /\ IsFiniteSet(contexts'[j].nrr)
    <3>1. \A j \in ContextIds : IsFiniteSet(contexts[j].nro) /\ IsFiniteSet(contexts[j].nrr)
      BY <1>1 DEF SessionsOwnContexts
    <3> QED BY <1>2, <1>4, <3>1, FS_EmptySet
  <2> QED BY <2>1, <2>2 DEF SessionsOwnContexts
<1>10. MemoryAccounted'
  <2> SUFFICES ASSUME NEW j \in ContextIds, contexts'[j].in_use
               PROVE  /\ mapped[contexts'[j].process_id]
                            = PiecesOf(contexts'[j]) \cup stranded[contexts'[j].process_id]
                      /\ PiecesOf(contexts'[j]) \cap stranded[contexts'[j].process_id] = {}
    BY <1>a DEF MemoryAccounted, PiecesOf
  <2>1. CASE j = i
    <3>1. mapped[p] = stranded[p]
      BY <1>1 DEF OthersStranded
    <3>2. contexts'[j] = new
      BY <1>4, <2>1
    <3> QED BY <1>2, <3>1, <3>2
  <2>2. CASE j # i
    <3>1. contexts'[j] = contexts[j]
      BY <1>4, <2>2
    <3> QED BY <1>1, <3>1 DEF MemoryAccounted
  <2> QED BY <2>1, <2>2
<1>11. OthersStranded'
  <2>1. ASSUME NEW q \in Pids, ~HasContext(q)' PROVE ~HasContext(q)
    BY <1>4, <1>6, <2>1 DEF HasContext, RoAssumption
  <2> QED BY <1>1, <1>a, <2>1 DEF OthersStranded, HasContext
<1> QED BY <1>8, <1>9, <1>10, <1>11 DEF RoInv, RoMappingsKept

(* When every context is in use, each is of another process than p: there  *)
(* are more processes than contexts.                                       *)
LEMMA NoContextLeft ==
    ASSUME RoAssumption, ContextsMatchSessions, NEW p \in Pids, ~HasContext(p),
           \A i \in ContextIds : contexts[i].in_use
    PROVE  Cardinality(Pids) > MaxSessions
<1> DEFINE f == [i \in ContextIds |-> contexts[i].process_id]
           others == Pids \ {p}
<1>1. f \in [ContextIds -> others]
  BY DEF ContextsMatchSessions, TypeOK, Context, HasContext
<1>2. \A i, j \in ContextIds : f[i] = f[j] => i = j
  BY DEF ContextsMatchSessions
<1>3. f \in Injection(ContextIds, others)
  BY <1>1, <1>2 DEF Injection, IsInjective
<1>4. IsFiniteSet(others) /\ Cardinality(others) = Cardinality(Pids) - 1
  BY FS_RemoveElement DEF RoAssumption
<1>5. Cardinality(ContextIds) <= Cardinality(others)
  <2> HIDE DEF f, others
  <2> QED BY <1>3, <1>4, FS_Injection
<1>6. Cardinality(ContextIds) = MaxSessions
  BY FS_Interval DEF ContextIds, RoAssumption
<1>7. Cardinality(Pids) \in Nat
  BY FS_CardinalityType DEF RoAssumption
<1> QED BY <1>4, <1>5, <1>6, <1>7 DEF RoAssumption

LEMMA InitializeKeeps ==
    ASSUME RoAssumption, RoInv, NEW s \in Sessions, Initialize(s),
           NEW p, p = session[s].owner
    PROVE  RoInv'
<1>1. p \in Pids /\ ~HasContext(p) /\ UNCHANGED <<alive, mapped, stranded>>
  BY DEF Initialize, MayRegister, RoInv, RoMappingsKept, ContextsMatchSessions, TypeOK
<1>2. CASE UNCHANGED out_of_contexts
           /\ \E i \in ContextIds :
                /\ IsFirstFree(i)
                /\ contexts' = [contexts EXCEPT ![i] =
                        [FreedContext EXCEPT !.in_use = TRUE, !.process_id = p]]
                /\ session' = [session EXCEPT ![s].context_id = i]
  <2>1. PICK i \in ContextIds :
                /\ IsFirstFree(i)
                /\ contexts' = [contexts EXCEPT ![i] =
                        [FreedContext EXCEPT !.in_use = TRUE, !.process_id = p]]
                /\ session' = [session EXCEPT ![s].context_id = i]
    BY <1>2
  <2>2. ~contexts[i].in_use
    BY <2>1 DEF IsFirstFree
  <2>3. Registers(s, i, p)
    BY <1>1, <1>2, <2>1 DEF Registers
  <2> QED BY <1>1, <2>2, <2>3, RegisterKeeps
<1>3. CASE /\ \A i \in ContextIds : contexts[i].in_use
           /\ out_of_contexts' = TRUE
           /\ UNCHANGED <<contexts, session>>
  <2>1. Cardinality(Pids) > MaxSessions
    BY <1>1, <1>3, NoContextLeft DEF RoInv, RoMappingsKept
  <2>2. TypeOK'
    BY <1>1, <1>3 DEF RoInv, RoMappingsKept, ContextsMatchSessions, TypeOK
  <2>3. ContextsMatchSessions'
    BY <1>1, <1>3, <2>1, <2>2 DEF RoInv, RoMappingsKept, ContextsMatchSessions
  <2> QED BY <1>1, <1>3, <2>3 DEF RoInv, RoMappingsKept, SessionsOwnContexts, MemoryAccounted,
                PiecesOf, OthersStranded, HasContext
<1> QED BY <1>1, <1>2, <1>3 DEF Initialize

(* Closing a session that never registered changes no context.             *)
LEMMA CloseUnregisteredKeeps ==
    ASSUME RoAssumption, RoInv, NEW s \in Sessions, CloseSession(s),
           session[s].context_id = InvalidContextId
    PROVE  RoInv'
<1>1. /\ TypeOK /\ ContextsMatchSessions /\ SessionsOwnContexts
      /\ MemoryAccounted /\ OthersStranded
  BY DEF ContextsMatchSessions, RoInv, RoMappingsKept
<1> DEFINE none == [owner |-> NoPid, context_id |-> InvalidContextId]
<1>2. /\ none \in [owner : Pids \cup {NoPid}, context_id : ContextIds \cup {InvalidContextId}]
      /\ none.context_id = InvalidContextId
  OBVIOUS
<1>3. session' = [session EXCEPT ![s] = none]
      /\ UNCHANGED <<contexts, mapped, stranded, alive, out_of_contexts>>
  BY DEF CloseSession
<1> HIDE DEF none
<1>4. /\ \A t \in Sessions : /\ session'[t].context_id = session[t].context_id
                             /\ t # s => session'[t] = session[t]
      /\ session' \in [Sessions -> [owner : Pids \cup {NoPid},
                                    context_id : ContextIds \cup {InvalidContextId}]]
  BY <1>1, <1>2, <1>3 DEF TypeOK
<1>5. TypeOK'
  BY <1>1, <1>3, <1>4 DEF TypeOK
<1>6. ContextsMatchSessions'
  <2>1. \A i \in ContextIds : \A t \in Sessions :
          session[t] = [owner |-> contexts[i].process_id, context_id |-> i]
             => session'[t] = session[t]
    BY <1>4 DEF ContextIds, InvalidContextId
  <2> QED BY <1>1, <1>3, <1>4, <1>5, <2>1 DEF ContextsMatchSessions
<1>7. SessionsOwnContexts'
  BY <1>1, <1>3, <1>4 DEF SessionsOwnContexts
<1>8. MemoryAccounted' /\ OthersStranded'
  BY <1>1, <1>3 DEF MemoryAccounted, PiecesOf, OthersStranded, HasContext
<1> QED BY <1>6, <1>7, <1>8 DEF RoInv, RoMappingsKept

(* FreeContext leaves the process without a context, and what it had       *)
(* mapped is lost or unmapped: of a dead process nothing is left.          *)
LEMMA FreeContextMemory ==
    ASSUME RoAssumption, RoInv, NEW i \in ContextIds, contexts[i].in_use, FreeContext(i),
           NEW p \in Pids, p = contexts[i].process_id
    PROVE  /\ contexts' = [contexts EXCEPT ![i] = FreedContext]
           /\ mapped' \in [Pids -> SUBSET Pieces] /\ stranded' \in [Pids -> SUBSET Pieces]
           /\ mapped'[p] = stranded'[p]
           /\ \A q \in Pids \ {p} : mapped'[q] = mapped[q] /\ stranded'[q] = stranded[q]
<1>1. /\ TypeOK /\ MemoryAccounted
      /\ mapped \in [Pids -> SUBSET Pieces] /\ stranded \in [Pids -> SUBSET Pieces]
  BY DEF ContextsMatchSessions, RoInv, RoMappingsKept, TypeOK
<1>2. PICK n \in [contexts[i].nrr -> 0..2] :
        LET taken == UNION {Done(UnmapNrrSteps(r), n[r]) : r \in contexts[i].nrr}
        IN  /\ mapped' = [mapped EXCEPT ![p] = IF p \in alive THEN @ \ taken ELSE {}]
            /\ stranded' = [stranded EXCEPT ![p] =
                    IF p \in alive THEN @ \cup (PiecesOf(contexts[i]) \ taken) ELSE {}]
            /\ contexts' = [contexts EXCEPT ![i] = FreedContext]
  BY DEF FreeContext
<1> DEFINE gone == UNION {Done(UnmapNrrSteps(r), n[r]) : r \in contexts[i].nrr}
<1>3. contexts[i].nro \in SUBSET NroRegions /\ contexts[i].nrr \in SUBSET NrrRegions
  BY <1>1 DEF TypeOK, Context
<1>4. PiecesOf(contexts[i]) \subseteq Pieces
  BY <1>3, OwnPieces DEF PiecesOf, Own
<1>5. gone \subseteq PiecesOf(contexts[i])
  <2>1. ASSUME NEW r \in contexts[i].nrr PROVE Done(UnmapNrrSteps(r), n[r]) \subseteq NrrPieces(r)
    <3>1. Takes(UnmapNrrSteps(r), NrrPieces(r)) /\ n[r] \in 0..2
      BY <1>3, UnmapNrrTakes
    <3>2. Len(UnmapNrrSteps(r)) = 2
      BY DEF UnmapNrrSteps
    <3> QED BY <3>1, <3>2 DEF Takes
  <2>2. \A x \in gone : \E r \in contexts[i].nrr : x \in Done(UnmapNrrSteps(r), n[r])
    OBVIOUS
  <2>3. \A x : (\E r \in contexts[i].nrr : x \in NrrPieces(r)) => x \in PiecesOf(contexts[i])
    BY DEF PiecesOf
  <2> QED BY <2>1, <2>2, <2>3
<1>6. /\ mapped[p] = PiecesOf(contexts[i]) \cup stranded[p]
      /\ PiecesOf(contexts[i]) \cap stranded[p] = {}
  BY <1>1 DEF MemoryAccounted
<1>7. /\ mapped'[p] = (IF p \in alive THEN mapped[p] \ gone ELSE {})
      /\ stranded'[p] = (IF p \in alive THEN stranded[p] \cup (PiecesOf(contexts[i]) \ gone) ELSE {})
  BY <1>1, <1>2
<1>8. mapped'[p] = stranded'[p]
  <2> HIDE DEF gone
  <2> QED BY <1>5, <1>6, <1>7
<1>9. mapped' \in [Pids -> SUBSET Pieces] /\ stranded' \in [Pids -> SUBSET Pieces]
  <2>1. /\ (IF p \in alive THEN mapped[p] \ gone ELSE {}) \in SUBSET Pieces
        /\ (IF p \in alive THEN stranded[p] \cup (PiecesOf(contexts[i]) \ gone) ELSE {})
             \in SUBSET Pieces
    BY <1>1, <1>4
  <2> QED BY <1>1, <1>2, <2>1
<1> QED BY <1>1, <1>2, <1>8, <1>9

LEMMA CloseRegisteredKeeps ==
    ASSUME RoAssumption, RoInv, NEW s \in Sessions, CloseSession(s),
           NEW i, i = session[s].context_id, i # InvalidContextId,
           NEW p, p = session[s].owner
    PROVE  RoInv'
<1>1. /\ TypeOK /\ ContextsMatchSessions /\ SessionsOwnContexts
      /\ MemoryAccounted /\ OthersStranded
  BY DEF ContextsMatchSessions, RoInv, RoMappingsKept
<1>2. i \in ContextIds /\ p \in Pids /\ contexts[i].process_id = p /\ contexts[i].in_use
  <2>1. i \in ContextIds /\ p \in Pids /\ p # NoPid
    BY <1>1 DEF CloseSession, TypeOK, RoAssumption
  <2>2. contexts[i].process_id = p
    BY <1>1 DEF SessionsOwnContexts
  <2> QED BY <1>1, <2>1, <2>2, ContextFacts
<1> DEFINE none == [owner |-> NoPid, context_id |-> InvalidContextId]
<1>3. /\ none \in [owner : Pids \cup {NoPid}, context_id : ContextIds \cup {InvalidContextId}]
      /\ none.context_id = InvalidContextId
  OBVIOUS
<1>4. /\ session' = [session EXCEPT ![s] = none] /\ FreeContext(i)
      /\ UNCHANGED <<alive, out_of_contexts>> /\ ~out_of_contexts
  BY DEF CloseSession
<1> HIDE DEF none
<1>5. /\ contexts' = [contexts EXCEPT ![i] = FreedContext]
      /\ mapped' \in [Pids -> SUBSET Pieces] /\ stranded' \in [Pids -> SUBSET Pieces]
      /\ mapped'[p] = stranded'[p]
      /\ \A q \in Pids \ {p} : mapped'[q] = mapped[q] /\ stranded'[q] = stranded[q]
  BY <1>2, <1>4, FreeContextMemory
<1>6. /\ FreedContext \in Context /\ ~FreedContext.in_use /\ FreedContext.process_id = NoPid
      /\ FreedContext.nro = {} /\ FreedContext.nrr = {}
  BY DEF FreedContext, Context
<1>7. /\ \A j \in ContextIds : contexts'[j] = IF j = i THEN FreedContext ELSE contexts[j]
      /\ contexts' \in [ContextIds -> Context]
  BY <1>1, <1>5, <1>6 DEF TypeOK
<1>8. /\ \A t \in Sessions : session'[t] = IF t = s THEN none ELSE session[t]
      /\ session' \in [Sessions -> [owner : Pids \cup {NoPid},
                                    context_id : ContextIds \cup {InvalidContextId}]]
  BY <1>1, <1>3, <1>4 DEF TypeOK
<1>9. TypeOK'
  <2>1. Cardinality({}) = 0 /\ 0 <= MaxNrrInfos /\ 0 <= MaxNroInfos
    BY FS_EmptySet DEF RoAssumption
  <2>2. \A j \in ContextIds : /\ Cardinality(contexts[j].nrr) <= MaxNrrInfos
                              /\ Cardinality(contexts[j].nro) <= MaxNroInfos
    BY <1>1 DEF TypeOK
  <2>3. \A j \in ContextIds : /\ Cardinality(contexts'[j].nrr) <= MaxNrrInfos
                              /\ Cardinality(contexts'[j].nro) <= MaxNroInfos
    BY <1>6, <1>7, <2>1, <2>2
  <2> QED BY <1>1, <1>4, <1>5, <1>7, <1>8, <2>3 DEF TypeOK
<1>10. ContextsMatchSessions'
  <2>1. ASSUME NEW j \in ContextIds
        PROVE  contexts'[j].in_use <=> contexts'[j].process_id # NoPid
    BY <1>1, <1>6, <1>7, ContextFacts
  <2>2. ASSUME NEW j \in ContextIds, contexts'[j].in_use
        PROVE  j # i /\ contexts'[j] = contexts[j] /\ contexts[j].in_use
    BY <1>6, <1>7, <2>2
  <2>3. ASSUME NEW j \in ContextIds, contexts'[j].in_use
        PROVE  \E t \in Sessions :
                 session'[t] = [owner |-> contexts'[j].process_id, context_id |-> j]
    <3>1. PICK t \in Sessions :
              session[t] = [owner |-> contexts[j].process_id, context_id |-> j]
      BY <1>1, <2>2, <2>3, ContextFacts
    <3>2. t # s
      BY <2>2, <2>3, <3>1
    <3> QED BY <1>8, <2>2, <2>3, <3>1, <3>2
  <2>4. ASSUME NEW j \in ContextIds, contexts'[j].in_use, NEW k \in ContextIds \ {j}
        PROVE  contexts'[k].process_id # contexts'[j].process_id
    <3>1. contexts[j].process_id # NoPid /\ contexts[k].process_id # contexts[j].process_id
      BY <1>1, <2>2, <2>4, ContextFacts
    <3> QED BY <1>6, <1>7, <2>2, <2>4, <3>1
  <2>5. ASSUME NEW t \in Sessions, NEW u \in Sessions,
               session'[t].context_id # InvalidContextId,
               session'[t].context_id = session'[u].context_id
        PROVE  t = u
    <3>1. \A v \in Sessions : session'[v].context_id =
                               IF v = s THEN InvalidContextId ELSE session[v].context_id
      BY <1>3, <1>8
    <3> QED BY <1>1, <2>5, <3>1 DEF ContextsMatchSessions
  <2>6. ~out_of_contexts'
    BY <1>4
  <2> QED BY <1>9, <2>1, <2>3, <2>4, <2>5, <2>6 DEF ContextsMatchSessions
<1>11. SessionsOwnContexts'
  <2>1. ASSUME NEW t \in Sessions, session'[t].context_id # InvalidContextId
        PROVE  /\ session'[t].owner # NoPid
               /\ contexts'[session'[t].context_id].process_id = session'[t].owner
    <3>1. t # s /\ session'[t] = session[t]
      BY <1>3, <1>8, <2>1
    <3>2. session[t].context_id # i /\ session[t].context_id \in ContextIds
      BY <1>1, <2>1, <3>1 DEF ContextsMatchSessions, TypeOK
    <3> QED BY <1>1, <1>7, <2>1, <3>1, <3>2 DEF SessionsOwnContexts
  <2>2. \A j \in ContextIds : IsFiniteSet(contexts'[j].nro) /\ IsFiniteSet(contexts'[j].nrr)
    <3>1. \A j \in ContextIds : IsFiniteSet(contexts[j].nro) /\ IsFiniteSet(contexts[j].nrr)
      BY <1>1 DEF SessionsOwnContexts
    <3> QED BY <1>6, <1>7, <3>1, FS_EmptySet
  <2> QED BY <2>1, <2>2 DEF SessionsOwnContexts
<1>12. MemoryAccounted'
  <2> SUFFICES ASSUME NEW j \in ContextIds, contexts'[j].in_use
               PROVE  /\ mapped'[contexts'[j].process_id]
                            = PiecesOf(contexts'[j]) \cup stranded'[contexts'[j].process_id]
                      /\ PiecesOf(contexts'[j]) \cap stranded'[contexts'[j].process_id] = {}
    BY DEF MemoryAccounted, PiecesOf
  <2>1. j # i /\ contexts'[j] = contexts[j] /\ contexts[j].in_use
    BY <1>6, <1>7
  <2>2. contexts[j].process_id \in Pids \ {p}
    BY <1>1, <1>2, <2>1, ContextFacts DEF TypeOK, Context
  <2>3. /\ mapped[contexts[j].process_id]
                = PiecesOf(contexts[j]) \cup stranded[contexts[j].process_id]
        /\ PiecesOf(contexts[j]) \cap stranded[contexts[j].process_id] = {}
    BY <1>1, <2>1 DEF MemoryAccounted
  <2> QED BY <1>5, <2>1, <2>2, <2>3
<1>13. OthersStranded'
  <2>1. ASSUME NEW q \in Pids, ~HasContext(q)' PROVE mapped'[q] = stranded'[q]
    <3>1. CASE q = p
      BY <1>5, <3>1
    <3>2. CASE q # p
      <4>1. ~HasContext(q)
        BY <1>2, <1>7, <2>1, <3>2 DEF HasContext
      <4> QED BY <1>1, <1>5, <3>2, <4>1 DEF OthersStranded
    <3> QED BY <3>1, <3>2
  <2> QED BY <2>1 DEF OthersStranded, HasContext
<1> QED BY <1>10, <1>11, <1>12, <1>13 DEF RoInv, RoMappingsKept

---------------------------------------------------------------------------
(* The theorems.                                                           *)

LEMMA RoInvHolds == RoSpec => []RoInv
<1>1. ASSUME RoInit PROVE RoInv
  <2>1. /\ FreedContext \in Context /\ ~FreedContext.in_use /\ FreedContext.process_id = NoPid
        /\ FreedContext.nro = {} /\ FreedContext.nrr = {}
    BY DEF FreedContext, Context
  <2>2. Cardinality({}) = 0 /\ IsFiniteSet({})
    BY FS_EmptySet
  <2>3. \A i \in ContextIds : contexts[i] = FreedContext
    BY <1>1 DEF RoInit
  <2>4. \A s \in Sessions : session[s].context_id = InvalidContextId /\ session[s].owner = NoPid
    BY <1>1 DEF RoInit
  <2>5. TypeOK
    <3>1. contexts \in [ContextIds -> Context]
      BY <1>1, <2>1 DEF RoInit
    <3>2. session \in [Sessions -> [owner : Pids \cup {NoPid},
                                    context_id : ContextIds \cup {InvalidContextId}]]
      BY <1>1 DEF RoInit
    <3>3. \A i \in ContextIds : /\ Cardinality(contexts[i].nrr) <= MaxNrrInfos
                                /\ Cardinality(contexts[i].nro) <= MaxNroInfos
      <4>1. 0 <= MaxNrrInfos /\ 0 <= MaxNroInfos
        BY RoAssumption DEF RoAssumption
      <4> QED BY <2>1, <2>2, <2>3, <4>1
    <3>4. /\ mapped \in [Pids -> SUBSET Pieces] /\ stranded \in [Pids -> SUBSET Pieces]
          /\ alive \subseteq Pids /\ out_of_contexts \in BOOLEAN
      BY <1>1 DEF RoInit
    <3> QED BY <3>1, <3>2, <3>3, <3>4 DEF TypeOK
  <2>6. ContextsMatchSessions
    BY <1>1, <2>1, <2>3, <2>4, <2>5 DEF ContextsMatchSessions, RoInit
  <2>7. SessionsOwnContexts
    BY <2>1, <2>2, <2>3, <2>4 DEF SessionsOwnContexts
  <2>8. MemoryAccounted
    BY <2>1, <2>3 DEF MemoryAccounted
  <2>9. OthersStranded
    BY <1>1 DEF OthersStranded, RoInit
  <2> QED BY <2>6, <2>7, <2>8, <2>9 DEF RoInv, RoMappingsKept
<1>2. ASSUME RoInv, [RoNext]_roVars PROVE RoInv'
  <2> USE RoAssumption
  <2>1. ASSUME NEW p \in Pids, Die(p) PROVE RoInv'
    BY <1>2, <2>1, DieKeeps
  <2>2. ASSUME NEW p \in Pids, NEW s \in Sessions, OpenSession(p, s) PROVE RoInv'
    BY <1>2, <2>2, OpenSessionKeeps
  <2>3. ASSUME NEW s \in Sessions, Initialize(s) PROVE RoInv'
    BY <1>2, <2>3, InitializeKeeps
  <2>4. ASSUME NEW s \in Sessions, CloseSession(s) PROVE RoInv'
    BY <1>2, <2>4, CloseUnregisteredKeeps, CloseRegisteredKeeps
  <2>5. ASSUME NEW s \in Sessions, NEW r \in NrrRegions, LoadNrr(s, r) PROVE RoInv'
    BY <1>2, <2>5, LoadNrrKeeps DEF LoadNrr
  <2>6. ASSUME NEW s \in Sessions, NEW r \in NrrRegions, UnloadNrr(s, r) PROVE RoInv'
    BY <1>2, <2>6, UnloadNrrKeeps
  <2>7. ASSUME NEW s \in Sessions, NEW q \in alive, NEW r \in NrrRegions, LoadNrrEx(s, q, r)
        PROVE  RoInv'
    BY <1>2, <2>7, LoadNrrKeeps DEF LoadNrrEx
  <2>8. ASSUME NEW s \in Sessions, NEW a \in NroRegions, LoadNro(s, a) PROVE RoInv'
    BY <1>2, <2>8, LoadNroKeeps
  <2>9. ASSUME NEW s \in Sessions, NEW a \in NroRegions, UnloadNro(s, a) PROVE RoInv'
    BY <1>2, <2>9, UnloadNroKeeps
  <2>10. ASSUME UNCHANGED roVars PROVE RoInv'
    BY <1>2, <2>10 DEF roVars, RoInv, RoMappingsKept, ContextsMatchSessions, TypeOK,
         SessionsOwnContexts, MemoryAccounted, PiecesOf, OthersStranded, HasContext
  <2> QED BY <1>2, <2>1, <2>2, <2>3, <2>4, <2>5, <2>6, <2>7, <2>8, <2>9, <2>10 DEF RoNext
<1> QED BY <1>1, <1>2, PTL DEF RoSpec

(* Whatever kernel call fails and whoever dies: contexts and registered    *)
(* sessions correspond one to one, AllocateContext finds a context unless  *)
(* there are more processes than contexts, and what is mapped in a process *)
(* is what its context records and what was lost, apart                    *)
(* (ro_service.cpp, ro_service_impl.cpp).                                  *)
THEOREM MappingsAreKept == RoSpec => []RoMappingsKept
<1>1. RoInv => RoMappingsKept
  BY DEF RoInv
<1> QED BY <1>1, RoInvHolds, PTL

(* A module is new in a context only when LoadNro has validated it.        *)
LEMMA OnlyLoadNroAdds ==
    ASSUME RoInv, [RoNext]_roVars, NEW j \in ContextIds,
           NEW a \in contexts'[j].nro \ contexts[j].nro
    PROVE  \E s \in Sessions :
             Validated(s) /\ j = session[s].context_id /\ ValidateNro(contexts[j], a)
<1>0. contexts \in [ContextIds -> Context]
  BY DEF RoInv, RoMappingsKept, ContextsMatchSessions, TypeOK
<1>1. contexts'[j].nro # contexts[j].nro /\ contexts' # contexts
  OBVIOUS
<1>2. ASSUME NEW p \in Pids, Die(p) \/ \E s \in Sessions : OpenSession(p, s) PROVE FALSE
  BY <1>1, <1>2 DEF Die, OpenSession
<1>3. ASSUME NEW i \in ContextIds, NEW new \in Context, new.nro \subseteq contexts[i].nro,
             contexts' = [contexts EXCEPT ![i] = new]
      PROVE  FALSE
  BY <1>0, <1>3
<1>4. ASSUME NEW s \in Sessions, Initialize(s) PROVE FALSE
  <2>1. PICK i \in ContextIds : contexts' = [contexts EXCEPT ![i] =
                    [FreedContext EXCEPT !.in_use = TRUE, !.process_id = session[s].owner]]
    BY <1>1, <1>4 DEF Initialize
  <2> DEFINE new == [FreedContext EXCEPT !.in_use = TRUE, !.process_id = session[s].owner]
  <2>2. new \in Context /\ new.nro = {}
    BY <1>4 DEF Initialize, FreedContext, Context, RoInv, RoMappingsKept, ContextsMatchSessions,
                TypeOK
  <2> HIDE DEF new
  <2>3. contexts' = [contexts EXCEPT ![i] = new]
    BY <2>1 DEF new
  <2> QED BY <1>3, <2>2, <2>3
<1>5. ASSUME NEW s \in Sessions, CloseSession(s) PROVE FALSE
  <2>1. session[s].context_id \in ContextIds /\ FreeContext(session[s].context_id)
    BY <1>1, <1>5 DEF CloseSession, RoInv, RoMappingsKept, ContextsMatchSessions, TypeOK
  <2>2. contexts' = [contexts EXCEPT ![session[s].context_id] = FreedContext]
    BY <2>1 DEF FreeContext
  <2>3. FreedContext \in Context /\ FreedContext.nro = {}
    BY DEF FreedContext, Context
  <2> QED BY <1>3, <2>1, <2>2, <2>3
<1>6. ASSUME NEW s \in Sessions, Validated(s)
      PROVE  session[s].context_id \in ContextIds
  BY <1>6, RoAssumption, ValidatedContext DEF RoInv, RoMappingsKept, ContextsMatchSessions
<1>7. ASSUME NEW s \in Sessions, Validated(s), NEW nrr,
             contexts' = [contexts EXCEPT ![session[s].context_id].nrr = nrr]
      PROVE  FALSE
  BY <1>0, <1>1, <1>6, <1>7
<1>8. ASSUME NEW s \in Sessions, NEW r \in NrrRegions, NEW q, NEW type, NEW enforce,
             LoadNrrImpl(s, q, r, type, enforce) \/ UnloadNrr(s, r)
      PROVE  FALSE
  BY <1>7, <1>8 DEF LoadNrrImpl, UnloadNrr
<1>9. ASSUME NEW s \in Sessions, NEW x \in NroRegions, UnloadNro(s, x) PROVE FALSE
  BY <1>0, <1>6, <1>9 DEF UnloadNro, Context
<1>10. ASSUME NEW s \in Sessions, NEW x \in NroRegions, LoadNro(s, x)
       PROVE  Validated(s) /\ j = session[s].context_id /\ ValidateNro(contexts[j], a)
  <2>1. /\ Validated(s)
        /\ ValidateNro(contexts[session[s].context_id], x)
        /\ contexts' = [contexts EXCEPT ![session[s].context_id].nro = @ \cup {x}]
    BY <1>1, <1>10 DEF LoadNro
  <2>2. j = session[s].context_id /\ x = a
    BY <1>0, <1>6, <2>1 DEF Context
  <2> QED BY <2>1, <2>2
<1>11. CASE RoNext
  BY <1>2, <1>4, <1>5, <1>8, <1>9, <1>10, <1>11 DEF RoNext, LoadNrr, LoadNrrEx
<1>12. CASE UNCHANGED roVars
  BY <1>1, <1>12 DEF roVars
<1> QED BY <1>11, <1>12

(* A module is loaded only while a registry that lists it is mapped for ro *)
(* to read, and no module twice in a process (ValidateNro).                *)
THEOREM ModulesAreAuthorised == RoSpec => ModulesAuthorised
<1>1. ASSUME RoInv, [RoNext]_roVars PROVE NewModulesAuthorised
  <2> SUFFICES ASSUME NEW j \in ContextIds, NEW a \in contexts'[j].nro \ contexts[j].nro
               PROVE  /\ \E r \in contexts[j].nrr :
                           /\ <<r, "view">> \in mapped[contexts[j].process_id]
                           /\ Image[a].module \in Listing[r].hashes
                      /\ \A b \in contexts[j].nro : Image[b].module # Image[a].module
    BY DEF NewModulesAuthorised
  <2>1. PICK s \in Sessions :
          Validated(s) /\ j = session[s].context_id /\ ValidateNro(contexts[j], a)
    BY <1>1, OnlyLoadNroAdds
  <2>2. ValidateNro(contexts[j], a)
    BY <2>1
  <2>3. PICK r \in contexts[j].nrr : Image[a].module \in Listing[r].hashes
    BY <2>2 DEF ValidateNro, ValidateHasNroHash
  <2>4. contexts[j].in_use /\ Validated(s)
    BY <1>1, <2>1, ValidatedIs, RoAssumption
  <2>5. <<r, "view">> \in PiecesOf(contexts[j])
    <3>1. <<r, "view">> \in NrrPieces(r)
      BY DEF NrrPieces
    <3> QED BY <3>1 DEF PiecesOf
  <2>6. <<r, "view">> \in mapped[contexts[j].process_id]
    BY <1>1, <2>4, <2>5 DEF RoInv, RoMappingsKept, MemoryAccounted
  <2> QED BY <2>2, <2>3, <2>6 DEF ValidateNro
<1> QED BY <1>1, RoInvHolds, PTL DEF RoSpec, ModulesAuthorised
====
