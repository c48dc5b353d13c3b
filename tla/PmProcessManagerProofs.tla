----------------------- MODULE PmProcessManagerProofs -----------------------
(***************************************************************************)
(* What holds of pm for any number of processes and launches, whatever the *)
(* processes, their debuggers and the clients of pm do.                    *)
(***************************************************************************)
EXTENDS PmProcessManager, FiniteSetTheorems, TLAPS

Once(list) == \A i, j \in DOMAIN list : list[i] = list[j] => i = j

Launching == {"wait_resource", "registered"}

Looking == {"woken", "reset", "signaled"}

---------------------------------------------------------------------------
(* Lists of processes.                                                     *)

LEMMA AppendLists ==
    ASSUME NEW list \in Seq(Pids), NEW p \in Pids, Once(list), ~InList(list, p)
    PROVE  /\ Append(list, p) \in Seq(Pids) /\ Once(Append(list, p))
           /\ \A q : InList(Append(list, p), q) <=> InList(list, q) \/ q = p
<1> DEFINE new == Append(list, p)
<1>1. /\ new \in Seq(Pids) /\ Len(list) \in Nat /\ Len(new) = Len(list) + 1
      /\ DOMAIN list = 1..Len(list) /\ DOMAIN new = 1..Len(new)
      /\ \A i \in 1..Len(list) : new[i] = list[i]
      /\ new[Len(list) + 1] = p
  OBVIOUS
<1> HIDE DEF new
<1>2. Once(new)
  BY <1>1 DEF Once, InList
<1>3. ASSUME NEW q PROVE InList(new, q) <=> InList(list, q) \/ q = p
  <2>1. InList(list, q) => InList(new, q)
    BY <1>1 DEF InList
  <2>2. InList(new, p)
    BY <1>1 DEF InList
  <2>3. InList(new, q) => InList(list, q) \/ q = p
    BY <1>1 DEF InList
  <2> QED BY <2>1, <2>2, <2>3
<1> QED BY <1>1, <1>2, <1>3 DEF new

LEMMA RemoveLists ==
    ASSUME NEW list \in Seq(Pids), NEW p, Once(list), InList(list, p)
    PROVE  /\ Remove(list, p) \in Seq(Pids) /\ Once(Remove(list, p))
           /\ \A q : InList(Remove(list, p), q) <=> InList(list, q) /\ q # p
<1> DEFINE i == CHOOSE k \in DOMAIN list : list[k] = p
           new == Remove(list, p)
<1>0. Len(list) \in Nat /\ DOMAIN list = 1..Len(list) /\ \A k \in 1..Len(list) : list[k] \in Pids
  OBVIOUS
<1>1. i \in 1..Len(list) /\ list[i] = p
  BY <1>0 DEF InList
<1>2. new = [j \in 1..(Len(list) - 1) |-> list[IF j < i THEN j ELSE j + 1]]
  BY DEF Remove
<1> HIDE DEF i, new
<1>3. /\ DOMAIN new = 1..(Len(list) - 1)
      /\ \A j \in 1..(Len(list) - 1) : new[j] = list[IF j < i THEN j ELSE j + 1]
  BY <1>2
<1>4. new \in Seq(Pids)
  <2>1. \A j \in 1..(Len(list) - 1) : new[j] \in Pids
    BY <1>0, <1>1, <1>3
  <2>2. new \in [1..(Len(list) - 1) -> Pids]
    BY <1>2, <2>1
  <2>3. Len(list) - 1 \in Nat
    BY <1>0, <1>1
  <2> QED BY <2>2, <2>3
<1>5. Once(new)
  <2> SUFFICES ASSUME NEW j \in 1..(Len(list) - 1), NEW k \in 1..(Len(list) - 1), new[j] = new[k]
               PROVE  j = k
    BY <1>3 DEF Once
  <2> DEFINE jj == IF j < i THEN j ELSE j + 1
             kk == IF k < i THEN k ELSE k + 1
  <2>1. jj \in 1..Len(list) /\ kk \in 1..Len(list)
    BY <1>0, <1>1
  <2>2. list[jj] = list[kk]
    BY <1>3
  <2>3. jj = kk
    BY <1>0, <2>1, <2>2 DEF Once
  <2> QED BY <1>0, <1>1, <2>3
<1>6. ASSUME NEW q, InList(new, q) PROVE InList(list, q) /\ q # p
  <2>1. PICK j \in 1..(Len(list) - 1) : new[j] = q
    BY <1>3, <1>6 DEF InList
  <2> DEFINE jj == IF j < i THEN j ELSE j + 1
  <2>2. jj \in 1..Len(list) /\ jj # i /\ list[jj] = q
    BY <1>0, <1>1, <1>3, <2>1
  <2> HIDE DEF jj
  <2> QED BY <1>0, <1>1, <2>2 DEF InList, Once
<1>7. ASSUME NEW q, InList(list, q), q # p PROVE InList(new, q)
  <2>1. PICK k \in 1..Len(list) : list[k] = q
    BY <1>0, <1>7 DEF InList
  <2>2. k # i
    BY <1>1, <1>7, <2>1
  <2> DEFINE j == IF k < i THEN k ELSE k - 1
  <2>3. j \in 1..(Len(list) - 1) /\ (IF j < i THEN j ELSE j + 1) = k
    BY <1>0, <1>1, <2>2
  <2> HIDE DEF j
  <2>4. new[j] = q
    BY <1>3, <2>1, <2>3
  <2> QED BY <1>3, <2>3, <2>4 DEF InList
<1> QED BY <1>4, <1>5, <1>6, <1>7 DEF new

LEMMA TailLists ==
    ASSUME NEW list \in Seq(Pids), Once(list), list # <<>>
    PROVE  /\ Head(list) \in Pids /\ InList(list, Head(list))
           /\ Tail(list) \in Seq(Pids) /\ Once(Tail(list))
           /\ \A q : InList(Tail(list), q) <=> InList(list, q) /\ q # Head(list)
<1> DEFINE new == Tail(list)
<1>1. /\ new \in Seq(Pids) /\ Len(list) \in Nat /\ Len(list) > 0 /\ Len(new) = Len(list) - 1
      /\ DOMAIN list = 1..Len(list) /\ DOMAIN new = 1..Len(new)
      /\ \A i \in 1..Len(new) : new[i] = list[i + 1]
      /\ Head(list) = list[1] /\ Head(list) \in Pids
  OBVIOUS
<1> HIDE DEF new
<1>2. InList(list, Head(list))
  BY <1>1 DEF InList
<1>3. Once(new)
  <2> SUFFICES ASSUME NEW j \in 1..Len(new), NEW k \in 1..Len(new), new[j] = new[k]
               PROVE  j = k
    BY <1>1 DEF Once
  <2>1. list[j + 1] = list[k + 1] /\ j + 1 \in 1..Len(list) /\ k + 1 \in 1..Len(list)
    BY <1>1
  <2>2. j + 1 = k + 1
    BY <1>1, <2>1 DEF Once
  <2> QED BY <2>2
<1>4. ASSUME NEW q, InList(new, q) PROVE InList(list, q) /\ q # Head(list)
  <2>1. PICK j \in 1..Len(new) : new[j] = q
    BY <1>1, <1>4 DEF InList
  <2>2. j + 1 \in 1..Len(list) /\ list[j + 1] = q /\ j + 1 # 1 /\ 1 \in 1..Len(list)
    BY <1>1, <2>1
  <2> QED BY <1>1, <2>2 DEF InList, Once
<1>5. ASSUME NEW q, InList(list, q), q # Head(list) PROVE InList(new, q)
  <2>1. PICK k \in 1..Len(list) : list[k] = q
    BY <1>1, <1>5 DEF InList
  <2>2. k - 1 \in 1..Len(new) /\ (k - 1) + 1 = k
    BY <1>1, <1>5, <2>1
  <2>3. new[k - 1] = q
    BY <1>1, <2>1, <2>2
  <2> QED BY <1>1, <2>2, <2>3 DEF InList
<1> QED BY <1>1, <1>2, <1>3, <1>4, <1>5 DEF new

(* A list without repetitions is as long as the set of its processes.      *)
LEMMA OnceCounts ==
    ASSUME NEW list \in Seq(Pids), Once(list)
    PROVE  Len(list) = Cardinality({p \in Pids : InList(list, p)})
<1> DEFINE S == 1..Len(list)
           T == {p \in Pids : InList(list, p)}
<1>1. Len(list) \in Nat /\ DOMAIN list = S /\ \A i \in S : list[i] \in Pids
  OBVIOUS
<1>2. IsFiniteSet(S) /\ Cardinality(S) = Len(list)
  <2> SUFFICES ASSUME NEW n \in Nat PROVE IsFiniteSet(1..n) /\ Cardinality(1..n) = n
    BY <1>1
  <2> QED BY FS_Interval
<1>3. list \in [S -> T]
  <2>1. \A i \in S : list[i] \in T
    BY <1>1 DEF InList
  <2>2. list \in [S -> Pids]
    BY <1>1
  <2> HIDE DEF S, T
  <2> QED BY <2>1, <2>2
<1>4. list \in Injection(S, T)
  BY <1>1, <1>3 DEF Once, Injection, IsInjective
<1>5. list \in Surjection(S, T)
  BY <1>1, <1>3 DEF InList, Surjection
<1> HIDE DEF S, T
<1>6. IsFiniteSet(T)
  BY <1>2, <1>5, FS_Surjection
<1> QED BY <1>2, <1>4, <1>5, <1>6, FS_Injection DEF T

---------------------------------------------------------------------------
(* What pm keeps of a process.                                             *)

Infos == [state : KernelStates \cup {"none"}, flags : SUBSET Flags, handle : BOOLEAN]

StateThenFlags(f, p, x, y) == [f EXCEPT ![p].state = x, ![p].flags = y]

FlagsThenState(f, p, x, y) == [f EXCEPT ![p].flags = y, ![p].state = x]

LEMMA InfoTwoUpdates ==
    ASSUME NEW f \in [Pids -> Infos], NEW p \in Pids, NEW x, NEW y
    PROVE  /\ StateThenFlags(f, p, x, y)
                = [f EXCEPT ![p] = [state |-> x, flags |-> y, handle |-> f[p].handle]]
           /\ FlagsThenState(f, p, x, y)
                = [f EXCEPT ![p] = [state |-> x, flags |-> y, handle |-> f[p].handle]]
<1> DEFINE r == f[p]
           s == [r EXCEPT !.state = x]
           t == [r EXCEPT !.flags = y]
           new == [state |-> x, flags |-> y, handle |-> r.handle]
<1>1. r \in Infos
  OBVIOUS
<1>2. /\ [f EXCEPT ![p].state = x, ![p].flags = y] = [f EXCEPT ![p] = [s EXCEPT !.flags = y]]
      /\ [f EXCEPT ![p].flags = y, ![p].state = x] = [f EXCEPT ![p] = [t EXCEPT !.state = x]]
  OBVIOUS
<1> HIDE DEF r
<1>3. s = [state |-> x, flags |-> r.flags, handle |-> r.handle]
  BY <1>1 DEF Infos
<1>4. t = [state |-> r.state, flags |-> y, handle |-> r.handle]
  BY <1>1 DEF Infos
<1> HIDE DEF s, t
<1>5. [s EXCEPT !.flags = y] = new /\ [t EXCEPT !.state = x] = new
  BY <1>3, <1>4
<1> HIDE DEF new
<1>6. /\ [f EXCEPT ![p].state = x, ![p].flags = y] = [f EXCEPT ![p] = new]
      /\ [f EXCEPT ![p].flags = y, ![p].state = x] = [f EXCEPT ![p] = new]
  BY <1>2, <1>5
<1> QED BY <1>6 DEF new, r, StateThenFlags, FlagsThenState

---------------------------------------------------------------------------
(* The invariant.                                                          *)

Created == {p \in Pids : kernel_state[p] # "none"}

(* p is the id the kernel gives to the next process.                       *)
NextUnused(p) == kernel_state[p] = "none" /\ \A q \in 1..(p - 1) : kernel_state[q] # "none"

(* The lists, and what is kept of the processes and of the two threads.    *)
Shape ==
    /\ process_list \in Seq(Pids) /\ dead_process_list \in Seq(Pids)
    /\ Once(process_list) /\ Once(dead_process_list)
    /\ \A p \in Pids : ~(InList(process_list, p) /\ InList(dead_process_list, p))
    /\ info \in [Pids -> [state : KernelStates \cup {"none"}, flags : SUBSET Flags,
                          handle : BOOLEAN]]
    /\ kernel_state \in [Pids -> KernelStates \cup {"none", "gone"}]
    /\ track \in {Idle} \cup [at : Launching \cup Looking, process : Pids]
    /\ aborted \in BOOLEAN

(* A listed process exists.  pm knows it for started or terminated only    *)
(* when it is.  Once pm knows that it terminated, either the tracking      *)
(* thread is about to act on it, or it is there for its exit to be read    *)
(* (before 5.0.0).                                                         *)
ListedOK(p) ==
    /\ kernel_state[p] \in KernelStates /\ info[p].state # "none"
    /\ ~info[p].handle => ~Version5 /\ info[p].state = "Terminated"
    /\ HasStarted(info[p].state) => HasStarted(kernel_state[p])
    /\ info[p].state = "Terminated" => kernel_state[p] = "Terminated"
    /\ info[p].state = "Terminated" /\ info[p].handle => Tracks("signaled", p)
    /\ "StartedStateChanged" \in info[p].flags => HasStarted(info[p].state)

(* Of a process that is not listed pm has no handle: it has terminated, or *)
(* was never started.                                                      *)
UnlistedOK(p) ==
    /\ ~info[p].handle
    /\ InList(dead_process_list, p) => kernel_state[p] = "Terminated"
    /\ \/ kernel_state[p] \in {"none", "gone", "Terminated"}
       \/ aborted /\ kernel_state[p] \in {"Created", "CreatedAttached"}

ProcessesOK ==
    \A p \in Pids : IF InList(process_list, p) THEN ListedOK(p) ELSE UnlistedOK(p)

(* What the tracking thread holds on to between its steps.                 *)
TrackOK ==
    /\ track.at \in Looking => /\ InList(process_list, track.process)
                               /\ info[track.process].handle
    /\ track.at = "registered" =>
        /\ InList(process_list, track.process)
        /\ info[track.process] = [state |-> "Created", flags |-> {}, handle |-> TRUE]
        /\ kernel_state[track.process] \in {"Created", "CreatedAttached"}
    /\ track.at = "wait_resource" /\ ~aborted => NextUnused(track.process)
    /\ aborted => track.at = "wait_resource"

(* The kernel numbers processes in the order it creates them.              *)
InOrder == \A p \in Pids : \A q \in 1..p : kernel_state[p] # "none" => kernel_state[q] # "none"

Core == Shape /\ ProcessesOK /\ TrackOK /\ InOrder

(* LaunchProgram hands the launch over, and takes its result, once: at any *)
(* time one thread has it.  The requests of the IPC thread find the other  *)
(* thread outside a launch.                                                *)
Hand ==
    /\ ipc \in {"idle", "launching", "event_info"} /\ client \in {"waiting", "reading"}
    /\ ipc # "launching" => ~start_event /\ ~finish_event /\ track.at \notin Launching
    /\ start_event => ~finish_event /\ track.at \notin Launching
    /\ finish_event => track.at \notin Launching
    /\ launched \in [Pids -> LaunchArgs \cup {NoLaunch}] /\ launch_args \in LaunchArgs \cup {NoLaunch}
    /\ launch_args.flags \subseteq {"SignalOnExit", "SignalOnStart", "SignalOnDebugEvent",
                                    "Application"}
    /\ track.at = "registered" => launched[track.process] = launch_args
    /\ ipc = "event_info" => Version5 /\ client = "reading"
    /\ ~Version5 => dead_process_list = <<>>

coreVars == <<process_list, dead_process_list, info, kernel_state, track, aborted>>

(* Process ids.                                                            *)
LEMMA NextPidIsUnused ==
    ASSUME PmAssumption, InOrder, NextPid \in Pids
    PROVE  NextUnused(NextPid)
<1>1. IsFiniteSet(Pids) /\ MaxPid \in Nat
  BY FS_Interval DEF PmAssumption, Pids
<1>2. IsFiniteSet(Created) /\ Cardinality(Created) \in Nat /\ NextPid = Cardinality(Created) + 1
  BY <1>1, FS_Subset, FS_CardinalityType DEF Created, NextPid
<1>3. \A n \in Nat : IsFiniteSet(1..n) /\ Cardinality(1..n) = n
  <2> SUFFICES ASSUME NEW n \in Nat PROVE IsFiniteSet(1..n) /\ Cardinality(1..n) = n
    OBVIOUS
  <2> QED BY FS_Interval
<1>4. ASSUME kernel_state[NextPid] # "none" PROVE FALSE
  <2>1. 1..NextPid \in SUBSET Created
    <3>1. \A q \in 1..NextPid : kernel_state[q] # "none"
      BY <1>4 DEF InOrder
    <3>2. \A q \in 1..NextPid : q \in Pids
      BY <1>1, <1>2 DEF Pids
    <3> QED BY <3>1, <3>2 DEF Created
  <2>2. NextPid <= Cardinality(Created)
    BY <1>2, <1>3, <2>1, FS_Subset
  <2> QED BY <1>2, <2>2
<1>5. ASSUME NEW q \in 1..(NextPid - 1), kernel_state[q] = "none" PROVE FALSE
  <2>1. Created \in SUBSET (1..(q - 1))
    BY <1>1, <1>2, <1>5 DEF InOrder, Created, Pids
  <2>2. q - 1 \in Nat /\ IsFiniteSet(1..(q - 1)) /\ Cardinality(1..(q - 1)) = q - 1
    BY <1>2, <1>3
  <2>3. Cardinality(Created) <= q - 1
    BY <2>1, <2>2, FS_Subset
  <2> QED BY <1>2, <2>3
<1> QED BY <1>4, <1>5 DEF NextUnused

---------------------------------------------------------------------------
(* The steps keep Core.                                                    *)

(* Only the kernel's state of p, its signal aside, changes: as a process   *)
(* or a debugger changes it.                                               *)
LEMMA KernelChangeKeeps ==
    ASSUME PmAssumption, Core, NEW p \in Pids, NEW s \in KernelStates,
           kernel_state' = [kernel_state EXCEPT ![p] = s],
           kernel_state[p] \in KernelStates \ {"Terminated"},
           HasStarted(kernel_state[p]) <=> HasStarted(s),
           UNCHANGED <<process_list, dead_process_list, info, track, aborted>>
    PROVE  Core'
<1>1. /\ kernel_state' \in [Pids -> KernelStates \cup {"none", "gone"}]
      /\ kernel_state'[p] = s
      /\ \A q \in Pids \ {p} : kernel_state'[q] = kernel_state[q]
      /\ \A q \in Pids : kernel_state[q] = "none" <=> kernel_state'[q] = "none"
  BY DEF Core, Shape, KernelStates
<1>2. Shape'
  BY <1>1 DEF Core, Shape
<1>3. ProcessesOK'
  <2> SUFFICES ASSUME NEW q \in Pids
               PROVE  (IF InList(process_list, q) THEN ListedOK(q) ELSE UnlistedOK(q))'
    BY DEF ProcessesOK
  <2>1. IF InList(process_list, q) THEN ListedOK(q) ELSE UnlistedOK(q)
    BY DEF Core, ProcessesOK
  <2>2. CASE q = p
    BY <1>1, <2>1, <2>2 DEF ListedOK, UnlistedOK, InList, Tracks, KernelStates, HasStarted
  <2>3. CASE q # p
    BY <1>1, <2>1, <2>3 DEF ListedOK, UnlistedOK, InList, Tracks, HasStarted
  <2> QED BY <2>2, <2>3
<1>4. TrackOK'
  BY <1>1 DEF Core, Shape, TrackOK, NextUnused, InList, HasStarted, Pids, PmAssumption, Idle, Launching, Looking
<1>5. InOrder'
  BY <1>1 DEF Core, InOrder, Pids, PmAssumption
<1> QED BY <1>2, <1>3, <1>4, <1>5 DEF Core

(* Only what pm keeps of p, and what the tracking thread does, changes.    *)
OnlyProcess(p) ==
    \A q \in Pids \ {p} :
        /\ InList(process_list, q)' <=> InList(process_list, q)
        /\ InList(dead_process_list, q)' <=> InList(dead_process_list, q)
        /\ info'[q] = info[q] /\ kernel_state'[q] = kernel_state[q]
        /\ Tracks("signaled", q) => Tracks("signaled", q)'

LEMMA OneProcess ==
    ASSUME ProcessesOK, NEW p \in Pids, OnlyProcess(p), aborted => aborted',
           InList(process_list, p)' => ListedOK(p)',
           ~InList(process_list, p)' => UnlistedOK(p)'
    PROVE  ProcessesOK'
<1> SUFFICES ASSUME NEW q \in Pids
             PROVE  (IF InList(process_list, q) THEN ListedOK(q) ELSE UnlistedOK(q))'
  BY DEF ProcessesOK
<1>1. CASE q = p
  BY <1>1
<1>2. CASE q # p
  <2>1. /\ InList(process_list, q)' <=> InList(process_list, q)
        /\ InList(dead_process_list, q)' <=> InList(dead_process_list, q)
        /\ info'[q] = info[q] /\ kernel_state'[q] = kernel_state[q]
        /\ Tracks("signaled", q) => Tracks("signaled", q)'
    BY <1>2 DEF OnlyProcess
  <2>2. IF InList(process_list, q) THEN ListedOK(q) ELSE UnlistedOK(q)
    BY DEF ProcessesOK
  <2>3. ListedOK(q) => ListedOK(q)'
    BY <2>1 DEF ListedOK, HasStarted, Tracks
  <2>4. UnlistedOK(q) => UnlistedOK(q)'
    BY <2>1 DEF UnlistedOK
  <2> QED BY <2>1, <2>2, <2>3, <2>4
<1> QED BY <1>1, <1>2

LEMMA SameOrder ==
    ASSUME PmAssumption, InOrder,
           \A q \in Pids : kernel_state'[q] = "none" <=> kernel_state[q] = "none"
    PROVE  InOrder'
BY DEF InOrder, Pids, PmAssumption

LEMMA CoreFrame ==
    ASSUME Core, UNCHANGED coreVars PROVE Core'
BY DEF Core, coreVars, Shape, ProcessesOK, ListedOK, UnlistedOK, TrackOK, InOrder, NextUnused,
       InList, Tracks, HasStarted

(* The flags of a listed process change, and the tracking thread may be    *)
(* done with it.                                                           *)
LEMMA FlagsChangeKeeps ==
    ASSUME PmAssumption, Core, NEW p \in Pids, InList(process_list, p), NEW flags \in SUBSET Flags,
           "StartedStateChanged" \in flags => HasStarted(info[p].state),
           info' = [info EXCEPT ![p].flags = flags],
           \/ track' = track /\ track.at # "registered"
           \/ /\ track' = Idle /\ track.at \in {"registered", "signaled"} /\ track.process = p
              /\ info[p].state # "Terminated",
           UNCHANGED <<process_list, dead_process_list, kernel_state, aborted>>
    PROVE  Core'
<1> DEFINE new == [info[p] EXCEPT !.flags = flags]
<1>1. /\ Shape /\ ProcessesOK /\ TrackOK /\ InOrder
      /\ info[p] \in [state : KernelStates \cup {"none"}, flags : SUBSET Flags, handle : BOOLEAN]
  BY DEF Core, Shape
<1>2. /\ new \in [state : KernelStates \cup {"none"}, flags : SUBSET Flags, handle : BOOLEAN]
      /\ new.flags = flags /\ new.state = info[p].state /\ new.handle = info[p].handle
  BY <1>1
<1>3. info' = [info EXCEPT ![p] = new]
  OBVIOUS
<1> HIDE DEF new
<1>4. /\ info' \in [Pids -> [state : KernelStates \cup {"none"}, flags : SUBSET Flags,
                            handle : BOOLEAN]]
      /\ info'[p] = new /\ \A q \in Pids \ {p} : info'[q] = info[q]
  BY <1>1, <1>2, <1>3 DEF Shape
<1>5. Shape'
  BY <1>1, <1>4 DEF Shape
<1>6. ListedOK(p)'
  <2>1. ListedOK(p)
    BY <1>1 DEF ProcessesOK
  <2> QED BY <1>2, <1>4, <2>1 DEF ListedOK, HasStarted, Tracks
<1>7. OnlyProcess(p)
  BY <1>4 DEF OnlyProcess, InList, Tracks
<1>8. ProcessesOK'
  BY <1>1, <1>6, <1>7, OneProcess DEF InList
<1>9. TrackOK'
  <2>1. CASE track' = Idle
    BY <1>1, <2>1 DEF TrackOK, Idle, Looking
  <2>2. CASE track' = track /\ track.at # "registered"
    BY <1>1, <1>2, <1>4, <2>2 DEF TrackOK, Looking, NextUnused, InList
  <2> QED BY <2>1, <2>2
<1>10. InOrder'
  BY <1>1, SameOrder
<1> QED BY <1>5, <1>8, <1>9, <1>10 DEF Core

(* A listed process is started, by StartProcess or by its launch.          *)
LEMMA StartKeeps ==
    ASSUME PmAssumption, Core, NEW p \in Pids, InList(process_list, p), ~aborted, info[p].handle,
           NEW s \in {"Running", "RunningAttached"},
           NEW flags \in SUBSET Flags, NEW new,
           new = [state |-> "Running", flags |-> flags, handle |-> info[p].handle],
           info' = [info EXCEPT ![p] = new],
           kernel_state' = [kernel_state EXCEPT ![p] = s],
           \/ track' = track /\ track.at \notin Launching
           \/ track' = Idle /\ Tracks("registered", p),
           UNCHANGED <<process_list, dead_process_list, aborted>>
    PROVE  Core'
<1>1. /\ Shape /\ ProcessesOK /\ TrackOK /\ InOrder
  BY DEF Core
<1>2. /\ new \in [state : KernelStates \cup {"none"}, flags : SUBSET Flags, handle : BOOLEAN]
      /\ new.flags = flags /\ new.state = "Running" /\ new.handle = info[p].handle
  BY <1>1 DEF KernelStates
<1>3. s \in KernelStates /\ s # "none" /\ HasStarted(s) /\ HasStarted("Running")
  BY DEF KernelStates, HasStarted
<1>4. kernel_state[p] # "none"
  BY <1>1 DEF ProcessesOK, ListedOK, KernelStates
<1>5. /\ info' \in [Pids -> [state : KernelStates \cup {"none"}, flags : SUBSET Flags,
                            handle : BOOLEAN]]
      /\ kernel_state' \in [Pids -> KernelStates \cup {"none", "gone"}]
      /\ info'[p] = new /\ kernel_state'[p] = s
      /\ \A q \in Pids \ {p} : info'[q] = info[q] /\ kernel_state'[q] = kernel_state[q]
  BY <1>1, <1>2, <1>3 DEF Shape
<1>6. Shape'
  BY <1>1, <1>5 DEF Shape
<1>7. ListedOK(p)'
  BY <1>2, <1>3, <1>5 DEF ListedOK, HasStarted, Tracks
<1>8. OnlyProcess(p)
  BY <1>1, <1>5 DEF OnlyProcess, InList, Tracks
<1>9. ProcessesOK'
  BY <1>1, <1>7, <1>8, OneProcess DEF InList
<1>10. \A q \in Pids : kernel_state'[q] = "none" <=> kernel_state[q] = "none"
  BY <1>3, <1>4, <1>5
<1>11. TrackOK'
  <2>1. CASE track' = Idle
    BY <2>1 DEF TrackOK, Idle, Looking
  <2>2. CASE track' = track /\ track.at \notin Launching
    BY <1>1, <1>2, <1>5, <2>2 DEF TrackOK, Looking, Launching, InList, Shape
  <2> QED BY <2>1, <2>2
<1>12. InOrder'
  BY <1>1, <1>10, SameOrder
<1> QED BY <1>6, <1>9, <1>11, <1>12 DEF Core

LEMMA StartedStateIs ==
    ASSUME NEW s PROVE StartedState(s) \in {"Running", "RunningAttached"}
BY DEF StartedState

LEMMA StartProcessKeeps ==
    ASSUME PmAssumption, Core, Hand, NEW p \in Pids, StartProcess(p)
    PROVE  Core'
<1> DEFINE s == StartedState(kernel_state[p])
           flags == info[p].flags
           new == [state |-> "Running", flags |-> flags, handle |-> info[p].handle]
<1>1. info[p] \in [state : KernelStates \cup {"none"}, flags : SUBSET Flags, handle : BOOLEAN]
  BY DEF Core, Shape
<1>2. [info[p] EXCEPT !.state = "Running"] = new /\ flags \in SUBSET Flags
  BY <1>1
<1>3. /\ info' = [info EXCEPT ![p] = new]
      /\ kernel_state' = [kernel_state EXCEPT ![p] = s]
      /\ InList(process_list, p) /\ ~aborted /\ track.at \notin Launching
      /\ UNCHANGED <<process_list, dead_process_list, track, aborted>>
  BY <1>2 DEF StartProcess, SetKernelState, Finds, Serving, Hand
<1>4. info[p].handle
  BY <1>3 DEF StartProcess, Core, ProcessesOK, ListedOK, HasStarted
<1>5. s \in {"Running", "RunningAttached"}
  BY StartedStateIs
<1> HIDE DEF s, flags
<1> QED BY <1>2, <1>3, <1>4, <1>5, StartKeeps

LEMMA ChangeOfStateKeeps ==
    ASSUME PmAssumption, KernelAssumption, Core, NEW p \in Pids,
           KernelStep(p) \/ TerminateProcess(p)
    PROVE  Core'
<1>1. CASE KernelStep(p)
  <2>1. PICK s \in KernelStates : /\ <<kernel_state[p], s>> \in Transitions
                                  /\ kernel_state' = [kernel_state EXCEPT ![p] = s]
    BY <1>1 DEF KernelStep, SetKernelState
  <2>2. /\ HasStarted(kernel_state[p]) <=> HasStarted(s)
        /\ kernel_state[p] # "Terminated" /\ kernel_state[p] \in KernelStates
    BY <2>1 DEF KernelAssumption, PmAssumption
  <2>3. UNCHANGED <<process_list, dead_process_list, info, track, aborted>>
    BY <1>1 DEF KernelStep, lists
  <2> QED BY <2>1, <2>2, <2>3, KernelChangeKeeps
<1>2. CASE TerminateProcess(p)
  <2>1. /\ kernel_state' = [kernel_state EXCEPT ![p] = "Terminating"]
        /\ UNCHANGED <<process_list, dead_process_list, info, track, aborted>>
        /\ InList(process_list, p)
        /\ kernel_state[p] \notin {"Created", "CreatedAttached", "Terminating", "Terminated"}
    BY <1>2 DEF TerminateProcess, SetKernelState, lists, Finds
  <2>2. kernel_state[p] \in KernelStates
    BY <2>1 DEF Core, ProcessesOK, ListedOK
  <2>3. "Terminating" \in KernelStates /\ (HasStarted(kernel_state[p]) <=> HasStarted("Terminating"))
    BY <2>1 DEF KernelStates, HasStarted
  <2>4. kernel_state[p] \in KernelStates \ {"Terminated"}
    BY <2>1, <2>2
  <2> QED BY <2>1, <2>3, <2>4, KernelChangeKeeps
<1> QED BY <1>1, <1>2

LEMMA ClearedFlagKeeps ==
    ASSUME PmAssumption, Core, Hand, NEW p \in Pids, NEW flags \in SUBSET Flags,
           info' = [info EXCEPT ![p].flags = @ \ flags], InList(process_list, p),
           track.at # "registered",
           UNCHANGED <<process_list, dead_process_list, kernel_state, track, aborted>>
    PROVE  Core'
<1> DEFINE kept == info[p].flags \ flags
<1>1. kept \in SUBSET Flags /\ info' = [info EXCEPT ![p].flags = kept]
  BY DEF Core, Shape
<1>2. "StartedStateChanged" \in kept => HasStarted(info[p].state)
  BY DEF Core, ProcessesOK, ListedOK
<1> HIDE DEF kept
<1> QED BY <1>1, <1>2, FlagsChangeKeeps

LEMMA NoInfoIs ==
    /\ NoInfo \in [state : KernelStates \cup {"none"}, flags : SUBSET Flags, handle : BOOLEAN]
    /\ NoInfo.state = "none" /\ NoInfo.flags = {} /\ ~NoInfo.handle
BY DEF NoInfo

(* A process leaves a list and its info is freed.                          *)
LEMMA FreeInfoKeeps ==
    ASSUME PmAssumption, Core, NEW p \in Pids,
           \/ kernel_state[p] = "Terminated" /\ UNCHANGED kernel_state
           \/ /\ kernel_state[p] # "none" /\ InList(process_list, p)
              /\ kernel_state' = [kernel_state EXCEPT ![p] = "gone"],
           info' = [info EXCEPT ![p] = NoInfo],
           \/ /\ InList(process_list, p) /\ process_list' = Remove(process_list, p)
              /\ UNCHANGED dead_process_list
           \/ /\ dead_process_list # <<>> /\ p = Head(dead_process_list)
              /\ dead_process_list' = Tail(dead_process_list)
              /\ UNCHANGED process_list,
           \/ track' = track /\ (track # Idle => track.process # p)
           \/ track' = Idle /\ (Tracks("signaled", p) \/ Tracks("registered", p)),
           UNCHANGED aborted
    PROVE  Core'
<1>1. Shape /\ ProcessesOK /\ TrackOK /\ InOrder
  BY DEF Core
<1>2. /\ info' \in [Pids -> [state : KernelStates \cup {"none"}, flags : SUBSET Flags,
                            handle : BOOLEAN]]
      /\ info'[p] = NoInfo /\ \A q \in Pids \ {p} : info'[q] = info[q]
  BY <1>1, NoInfoIs DEF Shape
<1>a. /\ kernel_state' \in [Pids -> KernelStates \cup {"none", "gone"}]
      /\ kernel_state'[p] \in {"Terminated", "gone"}
      /\ InList(dead_process_list, p) => kernel_state'[p] = "Terminated"
      /\ \A q \in Pids \ {p} : kernel_state'[q] = kernel_state[q]
      /\ \A q \in Pids : kernel_state'[q] = "none" <=> kernel_state[q] = "none"
  BY <1>1 DEF Shape
<1>3. /\ process_list' \in Seq(Pids) /\ dead_process_list' \in Seq(Pids)
      /\ Once(process_list)' /\ Once(dead_process_list)'
      /\ ~InList(process_list, p)' /\ ~InList(dead_process_list, p)'
      /\ \A q \in Pids \ {p} :
            /\ InList(process_list, q)' <=> InList(process_list, q)
            /\ InList(dead_process_list, q)' <=> InList(dead_process_list, q)
  <2>1. CASE /\ InList(process_list, p) /\ process_list' = Remove(process_list, p)
             /\ UNCHANGED dead_process_list
    <3> DEFINE new == Remove(process_list, p)
    <3>1. /\ new \in Seq(Pids) /\ Once(new)
          /\ \A q : InList(new, q) <=> InList(process_list, q) /\ q # p
      BY <1>1, <2>1, RemoveLists DEF Shape
    <3>2. process_list' = new /\ ~InList(dead_process_list, p)
      BY <1>1, <2>1 DEF Shape
    <3> HIDE DEF new
    <3> QED BY <1>1, <2>1, <3>1, <3>2 DEF Shape, Once, InList
  <2>2. CASE /\ dead_process_list # <<>> /\ p = Head(dead_process_list)
             /\ dead_process_list' = Tail(dead_process_list)
             /\ UNCHANGED process_list
    <3> DEFINE new == Tail(dead_process_list)
    <3>1. /\ new \in Seq(Pids) /\ Once(new) /\ InList(dead_process_list, p)
          /\ \A q : InList(new, q) <=> InList(dead_process_list, q) /\ q # p
      BY <1>1, <2>2, TailLists DEF Shape
    <3>2. dead_process_list' = new /\ ~InList(process_list, p) /\ UNCHANGED process_list
      BY <1>1, <2>2, <3>1 DEF Shape
    <3> HIDE DEF new
    <3>3. /\ dead_process_list' \in Seq(Pids) /\ Once(dead_process_list)'
          /\ \A q : InList(dead_process_list, q)' <=> InList(dead_process_list, q) /\ q # p
      BY <3>1, <3>2 DEF Once, InList
    <3>4. /\ process_list' \in Seq(Pids) /\ Once(process_list)'
          /\ \A q : InList(process_list, q)' <=> InList(process_list, q)
      BY <1>1, <3>2 DEF Shape, Once, InList
    <3> QED BY <3>2, <3>3, <3>4 DEF InList
  <2> QED BY <2>1, <2>2
<1>4. track' \in {Idle} \cup [at : Launching \cup Looking, process : Pids]
  BY <1>1 DEF Shape
<1>5. Shape'
  <2>1. \A q \in Pids : ~(InList(process_list, q)' /\ InList(dead_process_list, q)')
    BY <1>1, <1>3 DEF Shape
  <2> QED BY <1>1, <1>2, <1>3, <1>4, <1>a, <2>1 DEF Shape, InList, Once
<1>6. UnlistedOK(p)'
  BY <1>2, <1>3, <1>a, NoInfoIs DEF UnlistedOK, InList
<1>7. OnlyProcess(p)
  BY <1>1, <1>2, <1>3, <1>4, <1>a DEF OnlyProcess, Tracks, Idle, InList
<1>8. ProcessesOK'
  BY <1>1, <1>3, <1>6, <1>7, OneProcess DEF InList
<1>9. TrackOK'
  <2>1. CASE track' = Idle
    BY <1>1, <2>1 DEF TrackOK, Idle, Looking, Tracks
  <2>2. CASE track' = track /\ track # Idle /\ track.process # p
    <3>1. track.at = "wait_resource" \/ track.at = "registered" \/ track.at \in Looking
      BY <1>1, <2>2 DEF Shape, Launching
    <3>2. PICK q \in Pids \ {p} : q = track.process
      BY <1>1, <2>2 DEF Shape
    <3>3. /\ InList(process_list, q)' <=> InList(process_list, q)
          /\ info'[q] = info[q]
      BY <1>2, <1>3
    <3> QED BY <1>1, <1>a, <2>2, <3>1, <3>2, <3>3 DEF TrackOK, Looking, NextUnused, InList, Pids,
                                                    PmAssumption
  <2> QED BY <2>1, <2>2
<1>10. InOrder'
  BY <1>1, <1>a, SameOrder
<1> QED BY <1>5, <1>8, <1>9, <1>10 DEF Core

LEMMA CleanupProcessKeeps ==
    ASSUME PmAssumption, Core, Hand, NEW p \in Pids, CleanupProcess(p)
    PROVE  Core'
<1>1. /\ InList(process_list, p) /\ process_list' = Remove(process_list, p)
      /\ info' = [info EXCEPT ![p] = NoInfo] /\ info[p].state = "Terminated"
      /\ UNCHANGED <<dead_process_list, kernel_state, track, aborted>>
      /\ ipc = "idle" /\ track.at \notin {"reset", "signaled"}
  BY DEF CleanupProcess, MayCleanup, Finds, Serving, ListLocked, kernelVars
<1>2. ListedOK(p)
  BY <1>1 DEF Core, ProcessesOK
<1>3. track # Idle => track.process # p
  <2>1. track.at \notin Launching
    BY <1>1 DEF Hand
  <2>2. track # Idle => track.at = "woken"
    BY <1>1, <2>1 DEF Core, Shape, Looking
  <2>3. track.at = "woken" => info[track.process].handle
    BY DEF Core, TrackOK, Looking
  <2>4. ~info[p].handle
    BY <1>1, <1>2 DEF ListedOK, Tracks
  <2> QED BY <2>2, <2>3, <2>4
<1> QED BY <1>1, <1>2, <1>3, FreeInfoKeeps DEF ListedOK

LEMMA GetDeadProcessEventInfoKeeps ==
    ASSUME PmAssumption, Core, Hand, GetDeadProcessEventInfo
    PROVE  Core'
<1>1. CASE dead_process_list = <<>>
  BY <1>1, CoreFrame DEF GetDeadProcessEventInfo, coreVars, kernelVars
<1>2. CASE dead_process_list # <<>>
  <2> SUFFICES ASSUME NEW p, p = Head(dead_process_list) PROVE Core'
    OBVIOUS
  <2>1. p \in Pids /\ InList(dead_process_list, p) /\ ~InList(process_list, p)
    BY <1>2, TailLists DEF Core, Shape
  <2>2. kernel_state[p] = "Terminated"
    BY <2>1 DEF Core, ProcessesOK, UnlistedOK
  <2>3. /\ dead_process_list' = Tail(dead_process_list) /\ info' = [info EXCEPT ![p] = NoInfo]
        /\ UNCHANGED <<process_list, kernel_state, track, aborted>>
    BY <1>2 DEF GetDeadProcessEventInfo, CleanupFirstDead, kernelVars
  <2>4. track # Idle => track.process # p
    <3>1. track.at \notin Launching
      BY DEF Hand, GetDeadProcessEventInfo
    <3>2. track # Idle => track.at \in Looking
      BY <3>1 DEF Core, Shape
    <3> QED BY <2>1, <3>2 DEF Core, TrackOK
  <2> QED BY <1>2, <2>1, <2>2, <2>3, <2>4, FreeInfoKeeps
<1> QED BY <1>1, <1>2

---------------------------------------------------------------------------
(* The tracking thread's steps keep Core.                                  *)

(* Between its steps the tracking thread goes on to a process with a       *)
(* handle, gives up, or starts a launch; the processes stay as they are.   *)
LEMMA MoveKeeps ==
    ASSUME PmAssumption, Core, ~aborted,
           UNCHANGED <<process_list, dead_process_list, info, kernel_state, aborted>>,
           track.at # "signaled",
           \/ track' = Idle
           \/ \E p \in Pids :
                \/ /\ track' \in [at : Looking, process : {p}]
                   /\ InList(process_list, p) /\ info[p].handle
                \/ /\ track' = [at |-> "wait_resource", process |-> p]
                   /\ NextUnused(p)
    PROVE  Core'
<1>1. Shape /\ ProcessesOK /\ TrackOK /\ InOrder
  BY DEF Core
<1>2. Shape'
  BY <1>1 DEF Shape, Launching
<1>3. ProcessesOK'
  <2> SUFFICES ASSUME NEW q \in Pids
               PROVE  (IF InList(process_list, q) THEN ListedOK(q) ELSE UnlistedOK(q))'
    BY DEF ProcessesOK
  <2>1. IF InList(process_list, q) THEN ListedOK(q) ELSE UnlistedOK(q)
    BY <1>1 DEF ProcessesOK
  <2>2. ~Tracks("signaled", q)
    BY DEF Tracks
  <2>3. ListedOK(q) => ListedOK(q)'
    BY <2>2 DEF ListedOK, HasStarted
  <2>4. UnlistedOK(q) => UnlistedOK(q)'
    BY DEF UnlistedOK, InList
  <2> QED BY <2>1, <2>3, <2>4 DEF InList
<1>4. TrackOK'
  <2>1. CASE track' = Idle
    BY <2>1 DEF TrackOK, Idle, Looking
  <2>2. ASSUME NEW p \in Pids, track' \in [at : Looking, process : {p}],
               InList(process_list, p), info[p].handle
        PROVE  TrackOK'
    BY <2>2 DEF TrackOK, Looking, InList
  <2>3. ASSUME NEW p \in Pids, track' = [at |-> "wait_resource", process |-> p], NextUnused(p)
        PROVE  TrackOK'
    BY <2>3 DEF TrackOK, Looking, NextUnused
  <2> QED BY <2>1, <2>2, <2>3
<1>5. InOrder'
  BY <1>1, SameOrder
<1> QED BY <1>2, <1>3, <1>4, <1>5 DEF Core

LEMMA BeginLaunchKeeps ==
    ASSUME PmAssumption, Core, BeginLaunch
    PROVE  Core'
<1>1. ~aborted /\ track = Idle /\ track.at = "idle"
      /\ UNCHANGED <<process_list, dead_process_list, info, kernel_state, aborted>>
  BY DEF BeginLaunch, lists, kernelVars, Idle
<1>2. track' = Idle \/ (NextPid \in Pids /\ track' = [at |-> "wait_resource", process |-> NextPid])
  BY DEF BeginLaunch, FinishLaunch
<1>3. NextPid \in Pids => NextUnused(NextPid)
  BY NextPidIsUnused DEF Core
<1>4. \/ track' = Idle
      \/ \E p \in Pids : track' = [at |-> "wait_resource", process |-> p] /\ NextUnused(p)
  BY <1>2, <1>3
<1> QED BY <1>1, <1>4, MoveKeeps

LEMMA LookKeeps ==
    ASSUME PmAssumption, Core, NEW p \in Pids, CreateFails(p) \/ Wake(p) \/ ResetSignal(p)
    PROVE  Core'
<1>1. UNCHANGED <<process_list, dead_process_list, info, kernel_state, aborted>>
  BY DEF CreateFails, Wake, ResetSignal, lists, kernelVars
<1>2. ~aborted
  BY DEF CreateFails, Wake, ResetSignal, Core, TrackOK, Tracks
<1>3. track.at # "signaled"
  BY DEF CreateFails, Wake, ResetSignal, Tracks, Idle
<1>4. \/ track' = Idle
      \/ /\ track' \in [at : Looking, process : {p}]
         /\ InList(process_list, p) /\ info[p].handle
  <2>1. CASE CreateFails(p)
    BY <2>1 DEF CreateFails, FinishLaunch
  <2>2. CASE Wake(p)
    BY <2>2 DEF Wake, Looking
  <2>3. CASE ResetSignal(p)
    BY <2>3 DEF ResetSignal, Tracks, Looking, Core, TrackOK
  <2> QED BY <2>1, <2>2, <2>3
<1> QED BY <1>1, <1>2, <1>3, <1>4, MoveKeeps

(* The process that is created, or only its id used up.                    *)
LEMMA CreateProcessKeeps ==
    ASSUME PmAssumption, Core, NEW p \in Pids, CreateProcess(p)
    PROVE  Core'
<1>1. Shape /\ ProcessesOK /\ TrackOK /\ InOrder
  BY DEF Core
<1>2. /\ Tracks("wait_resource", p) /\ ~aborted /\ track.at = "wait_resource"
      /\ NextUnused(p) /\ UNCHANGED dead_process_list
  BY <1>1 DEF CreateProcess, Tracks, TrackOK
<1>3. ~InList(process_list, p) /\ UnlistedOK(p)
  BY <1>1, <1>2 DEF ProcessesOK, ListedOK, NextUnused, KernelStates
<1>4. PICK s \in {"Created", "gone"} : kernel_state' = [kernel_state EXCEPT ![p] = s]
  BY DEF CreateProcess
<1>5. /\ kernel_state' \in [Pids -> KernelStates \cup {"none", "gone"}]
      /\ kernel_state'[p] = s /\ \A q \in Pids \ {p} : kernel_state'[q] = kernel_state[q]
  BY <1>1, <1>4 DEF Shape, KernelStates
<1>6. InOrder'
  BY <1>1, <1>2, <1>4, <1>5 DEF InOrder, NextUnused, Pids, PmAssumption
<1>7. ~InList(dead_process_list, p)
  BY <1>2, <1>3 DEF UnlistedOK, NextUnused
<1>8. CASE /\ aborted' = TRUE /\ s = "Created"
           /\ UNCHANGED <<process_list, info, track>>
  <2>1. Shape'
    BY <1>1, <1>2, <1>5, <1>8 DEF Shape, InList, Once
  <2>2. UnlistedOK(p)'
    BY <1>3, <1>5, <1>7, <1>2, <1>8 DEF UnlistedOK, InList
  <2>3. OnlyProcess(p)
    BY <1>2, <1>5, <1>8 DEF OnlyProcess, InList, Tracks
  <2>4. ProcessesOK'
    BY <1>1, <1>2, <1>3, <1>8, <2>2, <2>3, OneProcess DEF InList
  <2>5. TrackOK'
    BY <1>2, <1>8 DEF TrackOK, Looking
  <2> QED BY <1>6, <2>1, <2>4, <2>5 DEF Core
<1>9. CASE /\ s = "gone" /\ track' = Idle
           /\ UNCHANGED <<process_list, info, aborted>>
  <2>1. Shape'
    BY <1>1, <1>2, <1>5, <1>9 DEF Shape, InList, Once
  <2>2. UnlistedOK(p)'
    BY <1>3, <1>5, <1>7, <1>2, <1>9 DEF UnlistedOK, InList
  <2>3. OnlyProcess(p)
    BY <1>2, <1>5, <1>9 DEF OnlyProcess, InList, Tracks
  <2>4. ProcessesOK'
    BY <1>1, <1>2, <1>3, <1>9, <2>2, <2>3, OneProcess DEF InList
  <2>5. TrackOK'
    BY <1>2, <1>9 DEF TrackOK, Looking, Idle
  <2> QED BY <1>6, <2>1, <2>4, <2>5 DEF Core
<1>10. CASE /\ s = "Created" /\ process_list' = Append(process_list, p)
            /\ info' = [info EXCEPT ![p] = [state |-> "Created", flags |-> {}, handle |-> TRUE]]
            /\ track' = [at |-> "registered", process |-> p]
            /\ UNCHANGED aborted
  <2> DEFINE new == [state |-> "Created", flags |-> {}, handle |-> TRUE]
             list == Append(process_list, p)
  <2>1. /\ new \in [state : KernelStates \cup {"none"}, flags : SUBSET Flags, handle : BOOLEAN]
        /\ new.state = "Created" /\ new.flags = {} /\ new.handle = TRUE
    BY DEF KernelStates
  <2>2. /\ list \in Seq(Pids) /\ Once(list)
        /\ \A q : InList(list, q) <=> InList(process_list, q) \/ q = p
    BY <1>1, <1>3, AppendLists DEF Shape
  <2>3. process_list' = list
    BY <1>10
  <2>4. /\ info' \in [Pids -> [state : KernelStates \cup {"none"}, flags : SUBSET Flags,
                              handle : BOOLEAN]]
        /\ info'[p] = new /\ \A q \in Pids \ {p} : info'[q] = info[q]
    BY <1>1, <1>10, <2>1 DEF Shape
  <2>a. track' \in {Idle} \cup [at : Launching \cup Looking, process : Pids]
    BY <1>10 DEF Launching
  <2> HIDE DEF new, list
  <2>5. /\ process_list' \in Seq(Pids) /\ Once(process_list)'
        /\ \A q : InList(process_list, q)' <=> InList(process_list, q) \/ q = p
    BY <2>2, <2>3 DEF Once, InList
  <2>6. Shape'
    <3>1. dead_process_list' \in Seq(Pids) /\ Once(dead_process_list)'
      BY <1>1, <1>2 DEF Shape, Once
    <3>2. \A q \in Pids : InList(process_list, q)' /\ InList(dead_process_list, q)' => FALSE
      BY <1>1, <1>2, <1>7, <2>5 DEF Shape, InList
    <3> QED BY <1>1, <1>5, <1>10, <2>a, <2>4, <2>5, <3>1, <3>2 DEF Shape
  <2>7. ListedOK(p)'
    BY <1>5, <1>10, <2>1, <2>4 DEF ListedOK, KernelStates, HasStarted
  <2>8. OnlyProcess(p)
    BY <1>2, <1>5, <2>4, <2>5 DEF OnlyProcess, InList, Tracks
  <2>9. ProcessesOK'
    BY <1>1, <1>2, <1>10, <2>5, <2>7, <2>8, OneProcess DEF InList
  <2>10. TrackOK'
    BY <1>2, <1>5, <1>10, <2>4, <2>5 DEF TrackOK, Looking, InList, new
  <2> QED BY <1>6, <2>6, <2>9, <2>10 DEF Core
<1> QED
  <2>1. s = kernel_state'[p]
    BY <1>5
  <2>2. \/ aborted' = TRUE /\ UNCHANGED <<process_list, info, track>> /\ kernel_state'[p] = "Created"
        \/ track' = Idle /\ UNCHANGED <<process_list, info, aborted>> /\ kernel_state'[p] = "gone"
        \/ /\ process_list' = Append(process_list, p)
           /\ info' = [info EXCEPT ![p] = [state |-> "Created", flags |-> {}, handle |-> TRUE]]
           /\ track' = [at |-> "registered", process |-> p]
           /\ UNCHANGED aborted /\ kernel_state'[p] = "Created"
    BY <1>1 DEF CreateProcess, FinishLaunch, Shape
  <2> QED BY <1>8, <1>9, <1>10, <2>1, <2>2

LEMMA EndLaunchKeeps ==
    ASSUME PmAssumption, Core, Hand, NEW p \in Pids, EndLaunch(p)
    PROVE  Core'
<1>1. /\ track.at = "registered" /\ track.process = p /\ Tracks("registered", p)
      /\ InList(process_list, p) /\ ~aborted
      /\ info[p] = [state |-> "Created", flags |-> {}, handle |-> TRUE]
      /\ kernel_state[p] \in {"Created", "CreatedAttached"}
      /\ track' = Idle /\ UNCHANGED <<dead_process_list, aborted>>
  BY DEF EndLaunch, Tracks, Core, TrackOK, FinishLaunch
<1> DEFINE flags == launch_args.flags
<1>2. flags \in SUBSET Flags /\ "StartedStateChanged" \notin flags
  BY DEF Hand, Flags
<1> HIDE DEF flags
<1>3. info[p].state = "Created" /\ info[p].handle
  BY <1>1
<1>4. CASE /\ info' = [info EXCEPT ![p].flags = flags]
           /\ UNCHANGED <<process_list, kernel_state>>
  BY <1>1, <1>2, <1>3, <1>4, FlagsChangeKeeps
<1>5. CASE /\ SetKernelState(p, StartedState(kernel_state[p]))
           /\ info' = [info EXCEPT ![p].flags = flags, ![p].state = "Running"]
           /\ UNCHANGED process_list
  <2> DEFINE s == StartedState(kernel_state[p])
             new == [state |-> "Running", flags |-> flags, handle |-> info[p].handle]
  <2>1. info' = [info EXCEPT ![p] = new]
    <3>1. info \in [Pids -> Infos]
      BY DEF Core, Shape, Infos
    <3>2. info' = [info EXCEPT ![p].flags = flags, ![p].state = "Running"]
      BY <1>5
    <3> HIDE DEF s
    <3>3. info' = FlagsThenState(info, p, "Running", flags)
      BY <3>2 DEF FlagsThenState
    <3> QED BY <3>1, <3>3, InfoTwoUpdates
  <2>2. kernel_state' = [kernel_state EXCEPT ![p] = s] /\ UNCHANGED process_list
    BY <1>5 DEF SetKernelState
  <2>3. s \in {"Running", "RunningAttached"}
    BY StartedStateIs
  <2>4. new = [state |-> "Running", flags |-> flags, handle |-> info[p].handle]
    OBVIOUS
  <2> HIDE DEF s, new
  <2> QED BY <1>1, <1>2, <1>3, <2>1, <2>2, <2>3, <2>4, StartKeeps
<1>6. CASE /\ kernel_state' = [kernel_state EXCEPT ![p] = "gone"]
           /\ process_list' = Remove(process_list, p)
           /\ info' = [info EXCEPT ![p] = NoInfo]
  <2>1. kernel_state[p] # "none"
    BY <1>1
  <2> QED BY <1>1, <1>6, <2>1, FreeInfoKeeps
<1> QED BY <1>4, <1>5, <1>6 DEF EndLaunch, flags

LEMMA ReadStateKeeps ==
    ASSUME PmAssumption, Core, NEW p \in Pids, ReadState(p)
    PROVE  Core'
<1>1. /\ Shape /\ ProcessesOK /\ TrackOK /\ InOrder
      /\ info[p] \in [state : KernelStates \cup {"none"}, flags : SUBSET Flags, handle : BOOLEAN]
  BY DEF Core, Shape
<1>2. /\ track.at = "reset" /\ track.process = p /\ Tracks("reset", p) /\ ~aborted
      /\ track' = [at |-> "signaled", process |-> p]
      /\ InList(process_list, p) /\ info[p].handle
      /\ UNCHANGED <<process_list, dead_process_list, kernel_state, aborted>>
  BY <1>1 DEF ReadState, Tracks, TrackOK, Looking, kernelVars
<1>3. ListedOK(p)
  BY <1>1, <1>2 DEF ProcessesOK
<1>4. PICK flags \in SUBSET info[p].flags :
        info' = [info EXCEPT ![p].state = kernel_state[p], ![p].flags = flags]
  <2> DEFINE fl == IF info[p].state = "Crashed" /\ kernel_state[p] # "Crashed"
                   THEN info[p].flags \ {"ExceptionWaitingAttach"} ELSE info[p].flags
  <2>1. info' = [info EXCEPT ![p].state = kernel_state[p], ![p].flags = fl]
    BY <1>1 DEF ReadState, Shape
  <2>2. fl \in SUBSET info[p].flags
    OBVIOUS
  <2> QED BY <2>1, <2>2
<1> DEFINE new == [state |-> kernel_state[p], flags |-> flags, handle |-> info[p].handle]
<1>5. info' = [info EXCEPT ![p] = new]
  <2>1. info \in [Pids -> Infos]
    BY <1>1 DEF Shape, Infos
  <2>2. info' = StateThenFlags(info, p, kernel_state[p], flags)
    BY <1>4 DEF StateThenFlags
  <2>3. ASSUME NEW x, NEW y
        PROVE  StateThenFlags(info, p, x, y)
                 = [info EXCEPT ![p] = [state |-> x, flags |-> y, handle |-> info[p].handle]]
    <3> HIDE DEF new
    <3> QED BY <2>1, InfoTwoUpdates
  <2> QED BY <2>2, <2>3
<1>6. /\ new \in [state : KernelStates \cup {"none"}, flags : SUBSET Flags, handle : BOOLEAN]
      /\ new.state = kernel_state[p] /\ new.flags = flags /\ new.handle = info[p].handle
  BY <1>1, <1>3 DEF ListedOK
<1> HIDE DEF new
<1>7. /\ info' \in [Pids -> [state : KernelStates \cup {"none"}, flags : SUBSET Flags,
                            handle : BOOLEAN]]
      /\ info'[p] = new /\ \A q \in Pids \ {p} : info'[q] = info[q]
  BY <1>1, <1>5, <1>6 DEF Shape
<1>8. track' \in {Idle} \cup [at : Launching \cup Looking, process : Pids]
  BY <1>2 DEF Looking
<1>9. Shape'
  BY <1>1, <1>2, <1>7, <1>8 DEF Shape, InList, Once
<1>10. ListedOK(p)'
  <2>1. Tracks("signaled", p)'
    BY <1>2 DEF Tracks
  <2>2. kernel_state[p] # "none"
    BY <1>3 DEF ListedOK, KernelStates
  <2> QED BY <1>2, <1>3, <1>6, <1>7, <2>1, <2>2 DEF ListedOK, HasStarted
<1>11. OnlyProcess(p)
  BY <1>2, <1>7 DEF OnlyProcess, InList, Tracks
<1>12. ProcessesOK'
  BY <1>1, <1>2, <1>10, <1>11, OneProcess DEF InList
<1>13. TrackOK'
  BY <1>2, <1>6, <1>7 DEF TrackOK, Looking, InList
<1>14. InOrder'
  BY <1>1, <1>2, SameOrder
<1> QED BY <1>9, <1>12, <1>13, <1>14 DEF Core

LEMMA UpdatedFlagsAre ==
    ASSUME NEW flags \in SUBSET Flags, NEW new
    PROVE  /\ UpdatedFlags(flags, new) \in SUBSET Flags
           /\ "StartedStateChanged" \in UpdatedFlags(flags, new) =>
                "StartedStateChanged" \in flags \/ new = "Running"
           /\ "Application" \in UpdatedFlags(flags, new) => "Application" \in flags
BY DEF UpdatedFlags, Flags

(* An exit that is to be reported keeps the info, without its handle.      *)
LEMMA ExitKeptKeeps ==
    ASSUME PmAssumption, Core, NEW p \in Pids, Tracks("signaled", p), InList(process_list, p),
           kernel_state[p] = "Terminated", info[p].state = "Terminated",
           info' = [info EXCEPT ![p].handle = FALSE],
           IF Version5
           THEN /\ process_list' = Remove(process_list, p)
                /\ dead_process_list' = Append(dead_process_list, p)
           ELSE UNCHANGED <<process_list, dead_process_list>>,
           track' = Idle, UNCHANGED <<kernel_state, aborted>>
    PROVE  Core'
<1> DEFINE new == [info[p] EXCEPT !.handle = FALSE]
<1>1. /\ Shape /\ ProcessesOK /\ TrackOK /\ InOrder
      /\ info[p] \in [state : KernelStates \cup {"none"}, flags : SUBSET Flags, handle : BOOLEAN]
  BY DEF Core, Shape
<1>a. ~InList(dead_process_list, p)
  BY <1>1 DEF Shape
<1>2. /\ new \in [state : KernelStates \cup {"none"}, flags : SUBSET Flags, handle : BOOLEAN]
      /\ new.flags = info[p].flags /\ new.state = info[p].state /\ new.handle = FALSE
      /\ info' = [info EXCEPT ![p] = new]
  BY <1>1
<1> HIDE DEF new
<1>3. /\ info' \in [Pids -> [state : KernelStates \cup {"none"}, flags : SUBSET Flags,
                            handle : BOOLEAN]]
      /\ info'[p] = new /\ \A q \in Pids \ {p} : info'[q] = info[q]
  <2>1. info \in [Pids -> [state : KernelStates \cup {"none"}, flags : SUBSET Flags,
                           handle : BOOLEAN]]
    BY <1>1 DEF Shape
  <2> QED BY <1>2, <2>1
<1>4. /\ process_list' \in Seq(Pids) /\ dead_process_list' \in Seq(Pids)
      /\ Once(process_list)' /\ Once(dead_process_list)'
      /\ InList(process_list, p)' <=> ~Version5
      /\ InList(dead_process_list, p)' <=> Version5
      /\ \A q \in Pids \ {p} :
            /\ InList(process_list, q)' <=> InList(process_list, q)
            /\ InList(dead_process_list, q)' <=> InList(dead_process_list, q)
  <2>1. CASE Version5
    <3> DEFINE rest == Remove(process_list, p)
               dead == Append(dead_process_list, p)
    <3>1. /\ rest \in Seq(Pids) /\ Once(rest)
          /\ \A q : InList(rest, q) <=> InList(process_list, q) /\ q # p
      BY <1>1, RemoveLists DEF Shape
    <3>2. /\ dead \in Seq(Pids) /\ Once(dead)
          /\ \A q : InList(dead, q) <=> InList(dead_process_list, q) \/ q = p
      BY <1>1, <1>a, AppendLists DEF Shape
    <3>3. process_list' = rest /\ dead_process_list' = dead
      BY <2>1
    <3> HIDE DEF rest, dead
    <3>4. /\ process_list' \in Seq(Pids) /\ Once(process_list)'
          /\ \A q : InList(process_list, q)' <=> InList(process_list, q) /\ q # p
      BY <3>1, <3>3 DEF Once, InList
    <3>5. /\ dead_process_list' \in Seq(Pids) /\ Once(dead_process_list)'
          /\ \A q : InList(dead_process_list, q)' <=> InList(dead_process_list, q) \/ q = p
      BY <3>2, <3>3 DEF Once, InList
    <3> QED BY <2>1, <3>4, <3>5 DEF InList
  <2>2. CASE ~Version5
    BY <1>1, <1>a, <2>2 DEF Shape, Once, InList
  <2> QED BY <2>1, <2>2
<1>5. Shape'
  <2>1. \A q \in Pids : ~(InList(process_list, q)' /\ InList(dead_process_list, q)')
    BY <1>1, <1>4 DEF Shape
  <2> QED BY <1>1, <1>3, <1>4, <2>1 DEF Shape, InList, Once
<1>6. InList(process_list, p)' => ListedOK(p)'
  <2>1. ListedOK(p)
    BY <1>1 DEF ProcessesOK
  <2> QED BY <1>2, <1>3, <1>4, <2>1 DEF ListedOK, HasStarted
<1>7. ~InList(process_list, p)' => UnlistedOK(p)'
  BY <1>2, <1>3 DEF UnlistedOK
<1>8. OnlyProcess(p)
  BY <1>3, <1>4 DEF OnlyProcess, Tracks, InList
<1>9. ProcessesOK'
  BY <1>1, <1>6, <1>7, <1>8, OneProcess DEF InList
<1>10. TrackOK'
  <2>1. ~aborted
    BY <1>1 DEF TrackOK, Tracks
  <2> QED BY <2>1 DEF TrackOK, Looking, Idle
<1>11. InOrder'
  BY <1>1, SameOrder
<1> QED BY <1>5, <1>9, <1>10, <1>11 DEF Core

LEMMA SignaledIs ==
    ASSUME Core, NEW p \in Pids, Tracks("signaled", p)
    PROVE  /\ track.at = "signaled" /\ track.process = p /\ ~aborted
           /\ InList(process_list, p) /\ info[p].handle /\ ListedOK(p)
           /\ info[p] \in [state : KernelStates \cup {"none"}, flags : SUBSET Flags,
                            handle : BOOLEAN]
<1>1. track.at = "signaled" /\ track.process = p
  BY DEF Tracks
<1> QED BY <1>1 DEF Core, Shape, TrackOK, Looking, ProcessesOK

LEMMA OnProcessSignaledKeeps ==
    ASSUME PmAssumption, Core, NEW p \in Pids, OnProcessSignaled(p)
    PROVE  Core'
<1>1. /\ Tracks("signaled", p) /\ track' = Idle /\ UNCHANGED <<kernel_state, aborted>>
  BY DEF OnProcessSignaled, ActOnState, kernelVars
<1>2. /\ track.at = "signaled" /\ track.process = p
      /\ InList(process_list, p) /\ info[p].handle /\ ListedOK(p)
      /\ info[p] \in [state : KernelStates \cup {"none"}, flags : SUBSET Flags,
                       handle : BOOLEAN]
  BY <1>1, SignaledIs
<1>3. CASE info[p].state # "Terminated"
  <2> DEFINE flags == UpdatedFlags(info[p].flags, info[p].state)
  <2>1. flags \in SUBSET Flags
    BY <1>2, UpdatedFlagsAre
  <2>2. "StartedStateChanged" \in flags => HasStarted(info[p].state)
    <3>1. "StartedStateChanged" \in flags =>
            "StartedStateChanged" \in info[p].flags \/ info[p].state = "Running"
      BY <1>2, UpdatedFlagsAre
    <3>2. HasStarted("Running")
      BY DEF HasStarted
    <3> QED BY <1>2, <3>1, <3>2 DEF ListedOK
  <2>3. /\ info' = [info EXCEPT ![p].flags = flags]
        /\ UNCHANGED <<process_list, dead_process_list>>
    BY <1>3 DEF OnProcessSignaled, ActOnState
  <2> HIDE DEF flags
  <2> QED BY <1>1, <1>2, <1>3, <2>1, <2>2, <2>3, FlagsChangeKeeps
<1>4. CASE info[p].state = "Terminated"
  <2>1. OnTerminated(p) /\ kernel_state[p] = "Terminated"
    BY <1>2, <1>4 DEF OnProcessSignaled, ActOnState, ListedOK
  <2>2. CASE Has(p, "SignalOnExit")
    BY <1>1, <1>2, <1>4, <2>1, <2>2, ExitKeptKeeps DEF OnTerminated, AddToDeadList
  <2>3. CASE ~Has(p, "SignalOnExit")
    BY <1>1, <1>2, <2>1, <2>3, FreeInfoKeeps DEF OnTerminated
  <2> QED BY <2>2, <2>3
<1> QED BY <1>3, <1>4

LEMMA GetProcessEventInfoKeeps ==
    ASSUME PmAssumption, Core, Hand, GetProcessEventInfo
    PROVE  Core'
<1>1. /\ track.at # "registered"
      /\ UNCHANGED <<process_list, dead_process_list, kernel_state, track, aborted>>
  BY DEF GetProcessEventInfo, Serving, Hand, Launching, kernelVars
<1>2. CASE UNCHANGED info
  BY <1>1, <1>2, CoreFrame DEF coreVars
<1>3. ASSUME NEW p \in Pids, IsFirstReportable(p),
             info' = [info EXCEPT ![p].flags = @ \ {ClearedFlag(p)}]
      PROVE  Core'
  <2>1. InList(process_list, p)
    BY <1>3 DEF IsFirstReportable, InList
  <2>2. {ClearedFlag(p)} \in SUBSET Flags
    BY DEF ClearedFlag, Flags
  <2> QED BY <1>1, <1>3, <2>1, <2>2, ClearedFlagKeeps
<1> QED BY <1>2, <1>3 DEF GetProcessEventInfo

LEMMA ClearExceptionOccurredKeeps ==
    ASSUME PmAssumption, Core, Hand, NEW p \in Pids, ClearExceptionOccurred(p)
    PROVE  Core'
<1>1. /\ track.at # "registered" /\ InList(process_list, p)
      /\ info' = [info EXCEPT ![p].flags = @ \ {"ExceptionOccurred"}]
      /\ UNCHANGED <<process_list, dead_process_list, kernel_state, track, aborted>>
  BY DEF ClearExceptionOccurred, Finds, Serving, Hand, Launching, kernelVars
<1>2. {"ExceptionOccurred"} \in SUBSET Flags
  BY DEF Flags
<1> QED BY <1>1, <1>2, ClearedFlagKeeps

(* Steps that touch neither the lists nor the tracking thread.             *)
OtherStep ==
    \/ \E args \in LaunchArgs : LaunchProgram(args)
    \/ \E program \in HookPrograms : HookToCreateProcess(program)
    \/ ReturnFromLaunch \/ ClientWakes
    \/ HookToCreateApplicationProcess \/ ClearHook \/ TakeHookEvent
    \/ \E p \in Pids : CloseHandle(p) \/ AtmosphereGetProcessInfo(p)
    \/ UNCHANGED vars

LEMMA OtherStepKeeps ==
    ASSUME Core, OtherStep
    PROVE  Core' /\ UNCHANGED coreVars
<1>1. CASE \/ \E args \in LaunchArgs : LaunchProgram(args)
           \/ ReturnFromLaunch \/ ClientWakes \/ UNCHANGED vars
  BY <1>1, CoreFrame DEF LaunchProgram, ReturnFromLaunch, ClientWakes, vars, coreVars, lists,
                         kernelVars
<1>2. CASE \/ \E program \in HookPrograms : HookToCreateProcess(program)
           \/ HookToCreateApplicationProcess \/ ClearHook \/ TakeHookEvent
  BY <1>2, CoreFrame DEF HookToCreateProcess, HookToCreateApplicationProcess, ClearHook,
                         TakeHookEvent, coreVars, lists, kernelVars
<1>3. CASE \E p \in Pids : CloseHandle(p) \/ AtmosphereGetProcessInfo(p)
  BY <1>3, CoreFrame DEF CloseHandle, AtmosphereGetProcessInfo, coreVars, lists
<1> QED BY <1>1, <1>2, <1>3 DEF OtherStep

(* The cases of a step.                                                    *)
LEMMA Steps ==
    ASSUME [Next]_vars
    PROVE  \/ OtherStep
           \/ BeginLaunch \/ GetProcessEventInfo \/ GetDeadProcessEventInfo
           \/ \E p \in Pids :
                \/ CreateFails(p) \/ CreateProcess(p) \/ EndLaunch(p)
                \/ Wake(p) \/ ResetSignal(p) \/ ReadState(p) \/ OnProcessSignaled(p)
                \/ KernelStep(p) \/ StartProcess(p) \/ TerminateProcess(p)
                \/ CleanupProcess(p) \/ ClearExceptionOccurred(p)
BY Zenon DEF Next, TrackingThread, EventService, OtherStep

LEMMA CoreStep ==
    ASSUME PmAssumption, KernelAssumption, Core, Hand, [Next]_vars
    PROVE  Core'
<1>1. CASE OtherStep
  BY <1>1, OtherStepKeeps
<1>2. CASE BeginLaunch \/ GetProcessEventInfo \/ GetDeadProcessEventInfo
  BY <1>2, BeginLaunchKeeps, GetProcessEventInfoKeeps, GetDeadProcessEventInfoKeeps
<1>3. ASSUME NEW p \in Pids,
             \/ CreateFails(p) \/ CreateProcess(p) \/ EndLaunch(p)
             \/ Wake(p) \/ ResetSignal(p) \/ ReadState(p) \/ OnProcessSignaled(p)
      PROVE  Core'
  BY <1>3, LookKeeps, CreateProcessKeeps, EndLaunchKeeps, ReadStateKeeps, OnProcessSignaledKeeps
<1>4. ASSUME NEW p \in Pids,
             \/ KernelStep(p) \/ StartProcess(p) \/ TerminateProcess(p)
             \/ CleanupProcess(p) \/ ClearExceptionOccurred(p)
      PROVE  Core'
  BY <1>4, ChangeOfStateKeeps, StartProcessKeeps, CleanupProcessKeeps, ClearExceptionOccurredKeeps
<1> QED BY <1>1, <1>2, <1>3, <1>4, Steps

LEMMA CoreInit ==
    ASSUME PmAssumption, Init
    PROVE  Core /\ Hand
<1>1. Shape
  <2>1. process_list = <<>> /\ dead_process_list = <<>> /\ track = Idle /\ aborted = FALSE
    BY DEF Init
  <2>2. info = [p \in Pids |-> NoInfo] /\ kernel_state = [p \in Pids |-> "none"]
    BY DEF Init
  <2>3. /\ <<>> \in Seq(Pids) /\ DOMAIN process_list = {}
        /\ \A p : ~InList(process_list, p) /\ ~InList(dead_process_list, p)
    BY <2>1 DEF InList
  <2> QED BY <2>1, <2>2, <2>3, NoInfoIs DEF Shape, Once
<1>2. ProcessesOK
  BY <1>1, NoInfoIs DEF Init, ProcessesOK, UnlistedOK, InList
<1>3. TrackOK
  BY DEF Init, TrackOK, Idle, Looking
<1>4. InOrder
  BY DEF Init, InOrder, Pids, PmAssumption
<1>5. Hand
  BY DEF Init, Hand, Launching, Idle, NoLaunch
<1> QED BY <1>1, <1>2, <1>3, <1>4, <1>5 DEF Core

---------------------------------------------------------------------------
(* The steps keep Hand.                                                    *)

handVars == <<dead_process_list, launched, start_event, finish_event, launch_args, track, ipc,
              client>>

LEMMA HandFrame ==
    ASSUME Hand, UNCHANGED handVars PROVE Hand'
BY DEF Hand, handVars

LEMMA HandStep ==
    ASSUME PmAssumption, Core, Hand, [Next]_vars
    PROVE  Hand'
<1>1. CASE \E args \in LaunchArgs : LaunchProgram(args)
  BY <1>1 DEF LaunchProgram, Serving, Hand, PmAssumption, lists, kernelVars, reading, Launching
<1>2. CASE ReturnFromLaunch
  BY <1>2 DEF ReturnFromLaunch, Hand, lists, kernelVars, reading
<1>3. CASE ClientWakes
  BY <1>3 DEF ClientWakes, Hand, lists, kernelVars, handshake
<1>4. CASE \/ \E program \in HookPrograms : HookToCreateProcess(program)
           \/ HookToCreateApplicationProcess \/ ClearHook \/ TakeHookEvent \/ UNCHANGED vars
  BY <1>4, HandFrame DEF HookToCreateProcess, HookToCreateApplicationProcess, ClearHook,
              TakeHookEvent, vars, lists, kernelVars, reading, handshake, handVars
<1>5. CASE BeginLaunch
  BY <1>5 DEF BeginLaunch, TryWaitStartEvent, FinishLaunch, Hand, lists, kernelVars, reading,
              Idle, Launching
<1>6. CASE GetProcessEventInfo
  BY <1>6 DEF GetProcessEventInfo, Serving, Hand, lists, kernelVars, reading, handshake
<1>7. CASE GetDeadProcessEventInfo
  <2>1. dead_process_list = <<>> => dead_process_list' = <<>>
    BY <1>7 DEF GetDeadProcessEventInfo
  <2> QED BY <1>7, <2>1 DEF GetDeadProcessEventInfo, Hand, lists, kernelVars, reading, handshake
<1>8. ASSUME NEW p \in Pids, CreateFails(p)
      PROVE  Hand'
  BY <1>8 DEF CreateFails, FinishLaunch, Tracks, Hand, lists, kernelVars, reading, Idle, Launching
<1>9. ASSUME NEW p \in Pids, CreateProcess(p)
      PROVE  Hand'
  BY <1>9 DEF CreateProcess, FinishLaunch, Tracks, Hand, reading, Idle, Launching
<1>10. ASSUME NEW p \in Pids, EndLaunch(p)
       PROVE  Hand'
  BY <1>10 DEF EndLaunch, FinishLaunch, Tracks, Hand, reading, Idle, Launching
<1>11. ASSUME NEW p \in Pids, Wake(p) \/ ResetSignal(p) \/ ReadState(p)
       PROVE  Hand'
  BY <1>11 DEF Wake, ResetSignal, ReadState, Tracks, Hand, lists, kernelVars, reading, handshake,
               Idle, Launching
<1>12. ASSUME NEW p \in Pids, OnProcessSignaled(p)
       PROVE  Hand'
  BY <1>12 DEF OnProcessSignaled, ActOnState, OnTerminated, Tracks, Hand, kernelVars, reading,
               handshake, Idle, Launching
<1>13. ASSUME NEW p \in Pids,
              \/ KernelStep(p) \/ CloseHandle(p) \/ AtmosphereGetProcessInfo(p)
              \/ StartProcess(p) \/ TerminateProcess(p)
              \/ CleanupProcess(p) \/ ClearExceptionOccurred(p)
       PROVE  Hand'
  BY <1>13, HandFrame DEF KernelStep, CloseHandle, AtmosphereGetProcessInfo, StartProcess,
               TerminateProcess, CleanupProcess, ClearExceptionOccurred, handVars, lists,
               kernelVars, reading, handshake
<1> QED BY <1>1, <1>2, <1>3, <1>4, <1>5, <1>6, <1>7, <1>8, <1>9, <1>10, <1>11, <1>12, <1>13,
           Steps DEF OtherStep

PmInv == Core /\ Hand

THEOREM Invariant == Spec => []PmInv
<1>1. Init => PmInv
  BY PmAssumption, CoreInit DEF PmInv
<1>2. PmInv /\ [Next]_vars => PmInv'
  BY PmAssumption, KernelAssumption, CoreStep, HandStep DEF PmInv
<1> QED BY <1>1, <1>2, PTL DEF Spec

(* Nobody frees the ProcessInfo os::WaitAny gave the tracking thread (or   *)
(* the one of the program it launches) before the thread is done with it,  *)
(* although it takes the lock of the list only afterwards.                 *)
THEOREM InfoIsNotStale == Spec => []NoStaleProcessInfo
<1>1. PmInv => NoStaleProcessInfo
  <2> SUFFICES ASSUME PmInv, track.at \in Looking \cup {"registered"}
               PROVE  track.process \in Listed /\ info[track.process].handle
    BY DEF NoStaleProcessInfo, Looking
  <2>1. track.process \in Pids
    BY DEF PmInv, Core, Shape, Looking, Idle
  <2>2. InList(process_list, track.process) /\ info[track.process].handle
    BY DEF PmInv, Core, TrackOK, Looking
  <2> QED BY <2>1, <2>2 DEF Listed
<1> QED BY <1>1, Invariant, PTL

---------------------------------------------------------------------------
(* No state change is missed.                                              *)

LEMMA Removed ==
    ASSUME Core, NEW p \in Pids, InList(process_list, p), process_list' = Remove(process_list, p)
    PROVE  \A q : InList(process_list, q)' <=> InList(process_list, q) /\ q # p
<1> DEFINE list == Remove(process_list, p)
<1>1. \A q : InList(list, q) <=> InList(process_list, q) /\ q # p
  BY RemoveLists DEF Core, Shape
<1>2. process_list' = list
  OBVIOUS
<1> HIDE DEF list
<1> QED BY <1>1, <1>2 DEF InList

LEMMA Appended ==
    ASSUME Core, NEW p \in Pids, ~InList(process_list, p), process_list' = Append(process_list, p)
    PROVE  \A q : InList(process_list, q)' <=> InList(process_list, q) \/ q = p
<1> DEFINE list == Append(process_list, p)
<1>1. \A q : InList(list, q) <=> InList(process_list, q) \/ q = p
  BY AppendLists DEF Core, Shape
<1>2. process_list' = list
  OBVIOUS
<1> HIDE DEF list
<1> QED BY <1>1, <1>2 DEF InList

LEMMA SameList ==
    ASSUME UNCHANGED process_list
    PROVE  \A q : InList(process_list, q)' <=> InList(process_list, q)
BY DEF InList

(* What pm, the kernel and the tracking thread do to each process is       *)
(* one of these.                                                           *)
SameProcess(q) == info'[q] = info[q] /\ kernel_state'[q] = kernel_state[q]

Signals == kernel_signal \in [Pids -> BOOLEAN]

Seen(q) ==
    InList(process_list, q) =>
        \/ info[q].state = kernel_state[q]
        \/ kernel_signal[q]
        \/ track.at = "reset" /\ track.process = q

SeenInv == Signals /\ \A q \in Pids : Seen(q)

LEMMA SeenFrame ==
    ASSUME SeenInv,
           UNCHANGED <<process_list, info, kernel_state, kernel_signal>>,
           track.at # "reset" \/ track' = track
    PROVE  SeenInv'
BY DEF SeenInv, Signals, Seen, InList

(* The processes other than p that stay on the list are as they were; so   *)
(* is p, or it is seen for a reason of its own.                            *)
LEMMA SeenOne ==
    ASSUME SeenInv, NEW p \in Pids, kernel_signal' \in [Pids -> BOOLEAN],
           \A q \in Pids \ {p} : /\ InList(process_list, q)' => InList(process_list, q)
                                 /\ info'[q].state = info[q].state
                                 /\ kernel_state'[q] = kernel_state[q]
                                 /\ kernel_signal'[q] = kernel_signal[q],
           track.at # "reset" \/ track' = track \/ track.process = p,
           Seen(p)'
    PROVE  SeenInv'
<1> SUFFICES ASSUME NEW q \in Pids PROVE Seen(q)'
  BY DEF SeenInv, Signals
<1>1. CASE q = p
  BY <1>1
<1>2. CASE q # p
  <2>1. Seen(q)
    BY DEF SeenInv
  <2> QED BY <1>2, <2>1 DEF Seen
<1> QED BY <1>1, <1>2

LEMMA SeenStep ==
    ASSUME PmAssumption, KernelAssumption, PmInv, SeenInv, [Next]_vars
    PROVE  SeenInv'
<1>1. /\ Core /\ kernel_signal \in [Pids -> BOOLEAN]
      /\ info \in [Pids -> [state : KernelStates \cup {"none"}, flags : SUBSET Flags,
                            handle : BOOLEAN]]
      /\ kernel_state \in [Pids -> KernelStates \cup {"none", "gone"}]
  BY DEF PmInv, SeenInv, Signals, Core, Shape
<1>2. CASE OtherStep
  <2>1. UNCHANGED coreVars
    BY <1>1, <1>2, OtherStepKeeps
  <2>2. UNCHANGED kernel_signal
    BY <1>2 DEF OtherStep, LaunchProgram, HookToCreateProcess, ReturnFromLaunch, ClientWakes,
                HookToCreateApplicationProcess, ClearHook, TakeHookEvent, CloseHandle,
                AtmosphereGetProcessInfo, vars, kernelVars
  <2> QED BY <2>1, <2>2, SeenFrame DEF coreVars
<1>3. CASE BeginLaunch
  BY <1>3, SeenFrame DEF BeginLaunch, lists, kernelVars, Idle
<1>4. CASE GetProcessEventInfo
  <2>1. CASE UNCHANGED info
    BY <1>4, <2>1, SeenFrame DEF GetProcessEventInfo, kernelVars
  <2>2. ASSUME NEW p \in Pids, info' = [info EXCEPT ![p].flags = @ \ {ClearedFlag(p)}]
        PROVE  SeenInv'
    <3>1. \A q \in Pids : info'[q].state = info[q].state
      BY <1>1, <2>2
    <3>2. UNCHANGED <<process_list, kernel_state, kernel_signal, track>>
      BY <1>4 DEF GetProcessEventInfo, kernelVars
    <3> QED BY <1>1, <3>1, <3>2 DEF SeenInv, Seen, Signals, InList
  <2> QED BY <1>4, <2>1, <2>2 DEF GetProcessEventInfo
<1>5. CASE GetDeadProcessEventInfo
  <2>1. CASE UNCHANGED info
    BY <1>5, <2>1, SeenFrame DEF GetDeadProcessEventInfo, kernelVars
  <2>2. CASE dead_process_list # <<>> /\ info' = [info EXCEPT ![Head(dead_process_list)] = NoInfo]
    <3>1. ~InList(process_list, Head(dead_process_list))
      BY <1>1, <2>2, TailLists DEF Core, Shape
    <3>2. \A q \in Pids : InList(process_list, q) => info'[q] = info[q]
      BY <1>1, <2>2, <3>1
    <3>3. UNCHANGED <<process_list, kernel_state, kernel_signal, track>>
      BY <1>5 DEF GetDeadProcessEventInfo, kernelVars
    <3> QED BY <1>1, <3>2, <3>3 DEF SeenInv, Seen, Signals, InList
  <2> QED BY <1>5, <2>1, <2>2 DEF GetDeadProcessEventInfo, CleanupFirstDead
<1>6. ASSUME NEW p \in Pids, CreateFails(p) \/ Wake(p) PROVE SeenInv'
  BY <1>6, SeenFrame DEF CreateFails, Wake, FinishLaunch, Tracks, lists, kernelVars, Idle
<1>7. ASSUME NEW p \in Pids, CreateProcess(p) PROVE SeenInv'
  <2>1. ~InList(process_list, p) /\ track.at = "wait_resource" /\ kernel_signal' = kernel_signal
    BY <1>1, <1>7 DEF CreateProcess, Core, TrackOK, Tracks, ProcessesOK, ListedOK, NextUnused,
                      KernelStates
  <2>2. CASE UNCHANGED process_list
    <3>1. \A q \in Pids : InList(process_list, q) => SameProcess(q)
      BY <1>1, <1>7, <2>1 DEF CreateProcess, SameProcess
    <3> QED BY <1>1, <2>1, <2>2, <3>1 DEF SeenInv, Seen, Signals, InList, SameProcess
  <2>3. CASE /\ kernel_state' = [kernel_state EXCEPT ![p] = "Created"]
             /\ process_list' = Append(process_list, p)
             /\ info' = [info EXCEPT ![p] = [state |-> "Created", flags |-> {}, handle |-> TRUE]]
    <3>1. \A q : InList(process_list, q)' <=> InList(process_list, q) \/ q = p
      BY <1>1, <2>1, <2>3, Appended
    <3>2. /\ info'[p].state = "Created" /\ kernel_state'[p] = "Created"
          /\ \A q \in Pids \ {p} : SameProcess(q)
      BY <1>1, <2>3 DEF SameProcess
    <3>3. Seen(p)'
      BY <3>2 DEF Seen
    <3> QED BY <1>1, <2>1, <3>1, <3>2, <3>3, SeenOne DEF SameProcess
  <2> QED BY <1>7, <2>2, <2>3 DEF CreateProcess
<1>8. ASSUME NEW p \in Pids, EndLaunch(p) PROVE SeenInv'
  <2>1. InList(process_list, p) /\ track.at = "registered"
    BY <1>1, <1>8 DEF EndLaunch, Core, TrackOK, Tracks
  <2>2. CASE /\ info' = [info EXCEPT ![p].flags = launch_args.flags]
             /\ UNCHANGED <<process_list, kernel_state, kernel_signal, peers>>
    <3>1. \A q \in Pids : info'[q].state = info[q].state
      BY <1>1, <2>2
    <3> QED BY <1>1, <2>1, <2>2, <3>1 DEF SeenInv, Seen, Signals, InList
  <2>3. CASE /\ SetKernelState(p, StartedState(kernel_state[p]))
             /\ info' = [info EXCEPT ![p].flags = launch_args.flags, ![p].state = "Running"]
             /\ UNCHANGED <<process_list, peers>>
    <3>1. /\ kernel_signal' \in [Pids -> BOOLEAN] /\ kernel_signal'[p]
          /\ \A q \in Pids \ {p} : SameProcess(q) /\ kernel_signal'[q] = kernel_signal[q]
      BY <1>1, <2>3 DEF SetKernelState, SameProcess
    <3>2. Seen(p)'
      BY <3>1 DEF Seen
    <3> QED BY <2>1, <2>3, <3>1, <3>2, SameList, SeenOne DEF SameProcess
  <2>4. CASE /\ kernel_state' = [kernel_state EXCEPT ![p] = "gone"]
             /\ kernel_signal' = [kernel_signal EXCEPT ![p] = FALSE]
             /\ process_list' = Remove(process_list, p)
             /\ info' = [info EXCEPT ![p] = NoInfo]
    <3>1. \A q : InList(process_list, q)' <=> InList(process_list, q) /\ q # p
      BY <1>1, <2>1, <2>4, Removed
    <3>2. /\ kernel_signal' \in [Pids -> BOOLEAN]
          /\ \A q \in Pids \ {p} : SameProcess(q) /\ kernel_signal'[q] = kernel_signal[q]
      BY <1>1, <2>4 DEF SameProcess
    <3>3. Seen(p)'
      BY <3>1 DEF Seen
    <3> QED BY <2>1, <3>1, <3>2, <3>3, SeenOne DEF SameProcess
  <2> QED BY <1>8, <2>2, <2>3, <2>4 DEF EndLaunch
<1>9. ASSUME NEW p \in Pids, ResetSignal(p) PROVE SeenInv'
  <2>1. /\ kernel_signal' \in [Pids -> BOOLEAN] /\ track.at = "woken"
        /\ track'.at = "reset" /\ track'.process = p
        /\ \A q \in Pids \ {p} : SameProcess(q) /\ kernel_signal'[q] = kernel_signal[q]
        /\ UNCHANGED process_list
    BY <1>1, <1>9 DEF ResetSignal, Tracks, SameProcess, lists
  <2>2. Seen(p)'
    BY <2>1 DEF Seen
  <2> QED BY <2>1, <2>2, SameList, SeenOne DEF SameProcess
<1>10. ASSUME NEW p \in Pids, ReadState(p) PROVE SeenInv'
  <2>1. /\ track.process = p /\ info'[p].state = kernel_state'[p]
        /\ \A q \in Pids \ {p} : SameProcess(q)
        /\ UNCHANGED <<process_list, kernel_signal>>
    BY <1>1, <1>10 DEF ReadState, Tracks, SameProcess, kernelVars
  <2>2. Seen(p)'
    BY <2>1 DEF Seen
  <2> QED BY <1>1, <2>1, <2>2, SameList, SeenOne DEF SameProcess
<1>11. ASSUME NEW p \in Pids, OnProcessSignaled(p) PROVE SeenInv'
  <2>1. track.at = "signaled" /\ InList(process_list, p) /\ UNCHANGED <<kernel_state, kernel_signal>>
    BY <1>1, <1>11, SignaledIs DEF OnProcessSignaled, ActOnState, kernelVars
  <2>2. \A q \in Pids \ {p} : info'[q] = info[q]
    BY <1>1, <1>11 DEF OnProcessSignaled, ActOnState, OnTerminated
  <2>3. CASE UNCHANGED process_list
    <3>1. info'[p].state = info[p].state
      BY <1>1, <1>11, <2>1, <2>3, Removed, SameList DEF OnProcessSignaled, ActOnState, OnTerminated
    <3> QED BY <1>1, <2>1, <2>2, <2>3, <3>1, SameList, SeenOne DEF SeenInv, Seen
  <2>4. CASE process_list' = Remove(process_list, p)
    <3>1. \A q : InList(process_list, q)' <=> InList(process_list, q) /\ q # p
      BY <1>1, <2>1, <2>4, Removed
    <3>2. Seen(p)'
      BY <3>1 DEF Seen
    <3> QED BY <1>1, <2>1, <2>2, <3>1, <3>2, SeenOne
  <2> QED BY <1>11, <2>3, <2>4 DEF OnProcessSignaled, ActOnState, OnTerminated
<1>12. ASSUME NEW p \in Pids, KernelStep(p) \/ TerminateProcess(p) PROVE SeenInv'
  <2>1. /\ UNCHANGED <<process_list, info, track>>
        /\ \E s : SetKernelState(p, s)
    BY <1>12 DEF KernelStep, TerminateProcess, lists
  <2>2. /\ kernel_signal' \in [Pids -> BOOLEAN] /\ kernel_signal'[p]
        /\ \A q \in Pids \ {p} : SameProcess(q) /\ kernel_signal'[q] = kernel_signal[q]
    BY <1>1, <2>1 DEF SetKernelState, SameProcess
  <2>3. Seen(p)'
    BY <2>2 DEF Seen
  <2> QED BY <2>1, <2>2, <2>3, SameList, SeenOne DEF SameProcess
<1>13. ASSUME NEW p \in Pids, StartProcess(p) PROVE SeenInv'
  <2>1. /\ UNCHANGED <<process_list, track>>
        /\ \E s : SetKernelState(p, s)
        /\ info' = [info EXCEPT ![p].state = "Running"]
    BY <1>13 DEF StartProcess
  <2>2. /\ kernel_signal' \in [Pids -> BOOLEAN] /\ kernel_signal'[p]
        /\ \A q \in Pids \ {p} : SameProcess(q) /\ kernel_signal'[q] = kernel_signal[q]
    BY <1>1, <2>1 DEF SetKernelState, SameProcess
  <2>3. Seen(p)'
    BY <2>2 DEF Seen
  <2> QED BY <2>1, <2>2, <2>3, SameList, SeenOne DEF SameProcess
<1>14. ASSUME NEW p \in Pids, CleanupProcess(p) PROVE SeenInv'
  <2>1. /\ InList(process_list, p) /\ process_list' = Remove(process_list, p)
        /\ UNCHANGED <<kernel_state, kernel_signal, track>>
        /\ info' = [info EXCEPT ![p] = NoInfo]
    BY <1>14 DEF CleanupProcess, MayCleanup, Finds, kernelVars
  <2>2. \A q : InList(process_list, q)' <=> InList(process_list, q) /\ q # p
    BY <1>1, <2>1, Removed
  <2>3. \A q \in Pids \ {p} : info'[q] = info[q]
    BY <1>1, <2>1
  <2>4. Seen(p)'
    BY <2>2 DEF Seen
  <2> QED BY <1>1, <2>1, <2>2, <2>3, <2>4, SeenOne
<1>15. ASSUME NEW p \in Pids, ClearExceptionOccurred(p) PROVE SeenInv'
  <2>1. \A q \in Pids : info'[q].state = info[q].state
    BY <1>1, <1>15 DEF ClearExceptionOccurred
  <2>2. UNCHANGED <<process_list, kernel_state, kernel_signal, track>>
    BY <1>15 DEF ClearExceptionOccurred, kernelVars
  <2> QED BY <1>1, <2>1, <2>2 DEF SeenInv, Seen, Signals, InList
<1> QED BY <1>2, <1>3, <1>4, <1>5, <1>6, <1>7, <1>8, <1>9, <1>10, <1>11, <1>12, <1>13, <1>14,
           <1>15, Steps

(* No state change is missed: what pm holds for the state of a process is  *)
(* the kernel's, or the process is signalled, or it is being looked at,    *)
(* because OnProcessSignaled resets the signal before it reads the state.  *)
THEOREM ChangesAreSeen == Spec => []NoMissedChange
<1>1. Init => SeenInv
  BY DEF Init, SeenInv, Signals, Seen, InList
<1>2. PmInv /\ SeenInv /\ [Next]_vars => SeenInv'
  BY PmAssumption, KernelAssumption, SeenStep
<1>3. SeenInv => NoMissedChange
  BY DEF SeenInv, Seen, NoMissedChange, Listed
<1> QED BY <1>1, <1>2, <1>3, Invariant, PTL DEF Spec

---------------------------------------------------------------------------
(* A call of LaunchProgram creates at most one process.                    *)

LaunchUnderWay == start_event \/ (track.at = "wait_resource" /\ ~aborted)

(* A launch that is under way has not created its process yet.             *)
CountInv ==
    /\ launches \in 0..MaxLaunches
    /\ Cardinality(Created) + (IF LaunchUnderWay THEN 1 ELSE 0) <= launches

(* Only CreateProcess creates a process.                                   *)
LEMMA CreatedSame ==
    ASSUME PmAssumption, KernelAssumption, PmInv, [Next]_vars,
           ~ \E p \in Pids : CreateProcess(p)
    PROVE  \A q \in Pids : kernel_state'[q] = "none" <=> kernel_state[q] = "none"
<1>1. /\ Core /\ kernel_state \in [Pids -> KernelStates \cup {"none", "gone"}]
      /\ "none" \notin KernelStates
  BY DEF PmInv, Core, Shape, KernelStates
<1>2. CASE UNCHANGED kernel_state
  BY <1>2
<1>3. ASSUME NEW p \in Pids, KernelStep(p)
      PROVE  \A q \in Pids : kernel_state'[q] = "none" <=> kernel_state[q] = "none"
  <2>1. PICK s \in KernelStates : /\ <<kernel_state[p], s>> \in Transitions
                                  /\ kernel_state' = [kernel_state EXCEPT ![p] = s]
    BY <1>3 DEF KernelStep, SetKernelState
  <2>2. kernel_state[p] \in KernelStates
    BY <2>1 DEF PmAssumption
  <2> QED BY <1>1, <2>1, <2>2
<1>4. ASSUME NEW p \in Pids, TerminateProcess(p) \/ StartProcess(p)
      PROVE  \A q \in Pids : kernel_state'[q] = "none" <=> kernel_state[q] = "none"
  <2>1. kernel_state[p] # "none"
    BY <1>1, <1>4 DEF TerminateProcess, StartProcess, Finds, Core, ProcessesOK, ListedOK
  <2>2. PICK s \in {"Terminating", "Running", "RunningAttached"} :
            kernel_state' = [kernel_state EXCEPT ![p] = s]
    BY <1>4, StartedStateIs DEF TerminateProcess, StartProcess, SetKernelState
  <2> QED BY <1>1, <2>1, <2>2
<1>5. ASSUME NEW p \in Pids, EndLaunch(p)
      PROVE  \A q \in Pids : kernel_state'[q] = "none" <=> kernel_state[q] = "none"
  <2>1. kernel_state[p] # "none"
    BY <1>1, <1>5 DEF EndLaunch, Tracks, Core, TrackOK
  <2>2. \/ UNCHANGED kernel_state
        \/ \E s \in {"gone", "Running", "RunningAttached"} :
                kernel_state' = [kernel_state EXCEPT ![p] = s]
    BY <1>5, StartedStateIs DEF EndLaunch, SetKernelState
  <2> QED BY <1>1, <2>1, <2>2
<1>6. CASE OtherStep
  BY <1>1, <1>2, <1>6, OtherStepKeeps DEF coreVars
<1>7. CASE BeginLaunch \/ GetProcessEventInfo \/ GetDeadProcessEventInfo
  BY <1>2, <1>7 DEF BeginLaunch, GetProcessEventInfo, GetDeadProcessEventInfo, kernelVars
<1>8. ASSUME NEW p \in Pids,
             \/ CreateFails(p) \/ Wake(p) \/ ResetSignal(p) \/ ReadState(p) \/ OnProcessSignaled(p)
             \/ CleanupProcess(p) \/ ClearExceptionOccurred(p)
      PROVE  UNCHANGED kernel_state
  BY <1>8 DEF CreateFails, Wake, ResetSignal, ReadState, OnProcessSignaled, CleanupProcess,
              ClearExceptionOccurred, kernelVars
<1> QED BY <1>2, <1>3, <1>4, <1>5, <1>6, <1>7, <1>8, Steps

LEMMA CreatedIsFinite ==
    ASSUME PmAssumption
    PROVE  IsFiniteSet(Created) /\ Cardinality(Created) \in Nat
<1>1. IsFiniteSet(Pids)
  BY FS_Interval DEF PmAssumption, Pids
<1> QED BY <1>1, FS_Subset, FS_CardinalityType DEF Created

(* When a launch ends or goes on, and when a call begins.                  *)
LEMMA UnderWaySteps ==
    ASSUME PmAssumption, PmInv, [Next]_vars
    PROVE  \/ LaunchUnderWay' /\ ~LaunchUnderWay /\ launches < MaxLaunches /\ launches' = launches + 1
           \/ (LaunchUnderWay' => LaunchUnderWay) /\ launches' = launches
<1>0. Hand /\ TrackOK
  BY DEF PmInv, Core
<1>1. CASE \E args \in LaunchArgs : LaunchProgram(args)
  BY <1>0, <1>1 DEF LaunchProgram, Serving, Hand, LaunchUnderWay, Launching
<1>2. CASE BeginLaunch
  BY <1>0, <1>2 DEF BeginLaunch, TryWaitStartEvent, LaunchUnderWay
<1>3. ASSUME NEW p \in Pids, CreateFails(p) \/ CreateProcess(p) \/ EndLaunch(p)
      PROVE  launches' = launches /\ (LaunchUnderWay' => LaunchUnderWay)
  BY <1>0, <1>3 DEF CreateFails, CreateProcess, EndLaunch, FinishLaunch, LaunchUnderWay, Tracks, Idle
<1>4. ASSUME NEW p \in Pids, Wake(p) \/ ResetSignal(p) \/ ReadState(p) \/ OnProcessSignaled(p)
      PROVE  launches' = launches /\ (LaunchUnderWay' => LaunchUnderWay)
  BY <1>4 DEF Wake, ResetSignal, ReadState, OnProcessSignaled, ActOnState, LaunchUnderWay, Tracks,
              Idle, handshake
<1>5. CASE ReturnFromLaunch \/ ClientWakes \/ GetProcessEventInfo \/ GetDeadProcessEventInfo
  BY <1>5 DEF ReturnFromLaunch, ClientWakes, GetProcessEventInfo, GetDeadProcessEventInfo,
              LaunchUnderWay, handshake
<1>6. CASE \/ \E program \in HookPrograms : HookToCreateProcess(program)
           \/ HookToCreateApplicationProcess \/ ClearHook \/ TakeHookEvent \/ UNCHANGED vars
  BY <1>6 DEF HookToCreateProcess, HookToCreateApplicationProcess, ClearHook, TakeHookEvent, vars,
              LaunchUnderWay, handshake
<1>7. ASSUME NEW p \in Pids,
             \/ KernelStep(p) \/ CloseHandle(p) \/ AtmosphereGetProcessInfo(p)
             \/ StartProcess(p) \/ TerminateProcess(p)
             \/ CleanupProcess(p) \/ ClearExceptionOccurred(p)
      PROVE  launches' = launches /\ (LaunchUnderWay' => LaunchUnderWay)
  <2>1. UNCHANGED <<start_event, track, aborted, launches>>
    BY <1>7 DEF KernelStep, CloseHandle, AtmosphereGetProcessInfo, StartProcess, TerminateProcess,
                CleanupProcess, ClearExceptionOccurred, handshake
  <2> QED BY <2>1 DEF LaunchUnderWay
<1> QED BY <1>1, <1>2, <1>3, <1>4, <1>5, <1>6, <1>7, Steps DEF OtherStep

LEMMA CountStep ==
    ASSUME PmAssumption, KernelAssumption, PmInv, CountInv, [Next]_vars
    PROVE  CountInv'
<1>1. /\ launches \in 0..MaxLaunches /\ MaxLaunches \in Nat
      /\ Cardinality(Created) + (IF LaunchUnderWay THEN 1 ELSE 0) <= launches
      /\ Cardinality(Created) \in Nat /\ IsFiniteSet(Created)
  BY CreatedIsFinite DEF CountInv, PmAssumption
<1>2. \/ LaunchUnderWay' /\ ~LaunchUnderWay /\ launches < MaxLaunches /\ launches' = launches + 1
      \/ (LaunchUnderWay' => LaunchUnderWay) /\ launches' = launches
  BY UnderWaySteps
<1>3. ASSUME ~ \E p \in Pids : CreateProcess(p)
      PROVE  Cardinality(Created') = Cardinality(Created)
  <2>1. \A q \in Pids : kernel_state'[q] = "none" <=> kernel_state[q] = "none"
    BY <1>3, CreatedSame
  <2>2. Created' = Created
    BY <2>1 DEF Created
  <2> QED BY <2>2
<1>4. ASSUME NEW p \in Pids, CreateProcess(p)
      PROVE  /\ Cardinality(Created') = Cardinality(Created) + 1
             /\ LaunchUnderWay /\ ~LaunchUnderWay' /\ launches' = launches
  <2>1. /\ track.at = "wait_resource" /\ track.process = p /\ ~aborted /\ kernel_state[p] = "none"
        /\ ~start_event
    BY <1>4 DEF CreateProcess, Tracks, PmInv, Hand, Core, TrackOK, NextUnused, Launching
  <2>2. kernel_state \in [Pids -> KernelStates \cup {"none", "gone"}]
    BY DEF PmInv, Core, Shape
  <2>3. \E s \in {"Created", "gone"} : kernel_state' = [kernel_state EXCEPT ![p] = s]
    BY <1>4 DEF CreateProcess
  <2>4. \A q \in Pids : kernel_state'[q] # "none" <=> kernel_state[q] # "none" \/ q = p
    BY <2>2, <2>3
  <2>5. Created' = Created \cup {p} /\ p \notin Created
    BY <2>1, <2>4 DEF Created
  <2>6. Cardinality(Created \cup {p}) = Cardinality(Created) + 1
    BY <1>1, <2>5, FS_AddElement
  <2>7. LaunchUnderWay /\ ~LaunchUnderWay' /\ launches' = launches
    BY <1>4, <2>1 DEF CreateProcess, FinishLaunch, LaunchUnderWay, Idle
  <2> QED BY <2>5, <2>6, <2>7
<1> SUFFICES /\ launches' \in 0..MaxLaunches
             /\ Cardinality(Created') + (IF LaunchUnderWay' THEN 1 ELSE 0) <= launches'
  BY DEF CountInv
<1> DEFINE n == Cardinality(Created)
<1>5. CASE \E p \in Pids : CreateProcess(p)
  BY <1>1, <1>2, <1>4, <1>5
<1>6. CASE ~ \E p \in Pids : CreateProcess(p)
  BY <1>1, <1>2, <1>3, <1>6
<1> QED BY <1>5, <1>6

LEMMA LaunchInvariant == Spec => []CountInv
<1>1. Init => CountInv
  <2> SUFFICES ASSUME Init PROVE CountInv
    OBVIOUS
  <2>1. Created = {}
    BY DEF Init, Created
  <2>2. Cardinality(Created) = 0
    BY <2>1, FS_EmptySet
  <2>3. ~LaunchUnderWay /\ launches = 0
    BY DEF Init, LaunchUnderWay, Idle
  <2> QED BY <2>2, <2>3, PmAssumption DEF CountInv, PmAssumption
<1>2. PmInv /\ CountInv /\ [Next]_vars => CountInv'
  BY PmAssumption, KernelAssumption, CountStep
<1> QED BY <1>1, <1>2, Invariant, PTL DEF Spec

(* Each LaunchProgram creates at most one process and takes the result of  *)
(* its own launch: no launch, and no result, is left over for the next     *)
(* call when the IPC thread serves other requests.                         *)
THEOREM LaunchesAreCounted == Spec => []OneLaunchPerCall
<1>1. PmInv /\ CountInv => OneLaunchPerCall
  <2> SUFFICES ASSUME PmInv, CountInv PROVE OneLaunchPerCall
    OBVIOUS
  <2>1. Cardinality(Created) \in Nat /\ Cardinality(Created) <= launches
    BY PmAssumption, CreatedIsFinite DEF CountInv, PmAssumption
  <2> QED BY <2>1 DEF PmInv, Hand, Launching, OneLaunchPerCall, Created
<1> QED BY <1>1, Invariant, LaunchInvariant, PTL

---------------------------------------------------------------------------
(* The variables the proofs above leave out.                               *)

OtherTypes ==
    /\ held \in SUBSET Pids
    /\ fs_registered \in SUBSET Pids /\ sm_registered \in SUBSET Pids /\ pinned \in SUBSET Pids
    /\ hook_events \in SUBSET {"process", "application"}
    /\ process_event \in BOOLEAN /\ application_hook \in BOOLEAN
    /\ start_event \in BOOLEAN /\ finish_event \in BOOLEAN
    /\ exit_reports \in [Pids -> 0..2]

LEMMA ReportExitTypes ==
    ASSUME NEW p \in Pids, exit_reports \in [Pids -> 0..2], ReportExit(p)
    PROVE  exit_reports' \in [Pids -> 0..2]
<1> DEFINE n == IF exit_reports[p] < 2 THEN exit_reports[p] + 1 ELSE exit_reports[p]
<1>1. n \in 0..2
  OBVIOUS
<1>2. exit_reports' = [exit_reports EXCEPT ![p] = n]
  BY DEF ReportExit
<1> HIDE DEF n
<1> QED BY <1>1, <1>2

LEMMA OtherTypesStep ==
    ASSUME PmAssumption, PmInv, OtherTypes, [Next]_vars
    PROVE  OtherTypes'
<1> USE DEF OtherTypes
<1>1. CASE \/ \E args \in LaunchArgs : LaunchProgram(args)
           \/ ReturnFromLaunch \/ ClientWakes \/ UNCHANGED vars
  BY <1>1 DEF LaunchProgram, ReturnFromLaunch, ClientWakes, vars, kernelVars, peers, hooks,
              handshake, reading
<1>2. CASE \/ \E program \in HookPrograms : HookToCreateProcess(program)
           \/ HookToCreateApplicationProcess \/ ClearHook \/ TakeHookEvent
  BY <1>2 DEF HookToCreateProcess, HookToCreateApplicationProcess, ClearHook, TakeHookEvent,
              kernelVars, peers, hooks, handshake, reading
<1>3. CASE BeginLaunch
  BY <1>3 DEF BeginLaunch, TryWaitStartEvent, FinishLaunch, kernelVars, hooks, reading
<1>4. CASE GetProcessEventInfo
  <2>1. exit_reports' \in [Pids -> 0..2]
    BY <1>4, ReportExitTypes DEF GetProcessEventInfo
  <2> QED BY <1>4, <2>1 DEF GetProcessEventInfo, kernelVars, peers, hooks, handshake
<1>5. CASE GetDeadProcessEventInfo
  <2>1. exit_reports' \in [Pids -> 0..2]
    <3>1. dead_process_list # <<>> => Head(dead_process_list) \in Pids
      BY TailLists DEF PmInv, Core, Shape
    <3> QED BY <1>5, <3>1, ReportExitTypes DEF GetDeadProcessEventInfo
  <2> QED BY <1>5, <2>1 DEF GetDeadProcessEventInfo, KeepEvent, kernelVars, peers, hooks, handshake
<1>6. ASSUME NEW p \in Pids, CreateFails(p) \/ CreateProcess(p)
      PROVE  OtherTypes'
  BY <1>6 DEF CreateFails, CreateProcess, UnpinProgram, FinishLaunch, Forget, kernelVars, hooks,
              reading
<1>7. ASSUME NEW p \in Pids, EndLaunch(p)
      PROVE  OtherTypes'
  <2>1. hook_events' \in SUBSET {"process", "application"}
    BY <1>7 DEF EndLaunch
  <2>2. application_hook' \in BOOLEAN
    BY <1>7 DEF EndLaunch
  <2> QED BY <1>7, <2>1, <2>2 DEF EndLaunch, FinishLaunch, Forget, peers, reading
<1>8. ASSUME NEW p \in Pids, Wake(p) \/ ResetSignal(p) \/ ReadState(p)
      PROVE  OtherTypes'
  BY <1>8 DEF Wake, ResetSignal, ReadState, kernelVars, peers, hooks, handshake, reading
<1>9. ASSUME NEW p \in Pids, OnProcessSignaled(p)
      PROVE  OtherTypes'
  <2>1. process_event' \in BOOLEAN
    BY <1>9 DEF OnProcessSignaled, ActOnState, SignalEvent
  <2>2. fs_registered' \in SUBSET Pids /\ sm_registered' \in SUBSET Pids /\ pinned' \in SUBSET Pids
    BY <1>9 DEF OnProcessSignaled, ActOnState, OnTerminated, Forget, peers
  <2> QED BY <1>9, <2>1, <2>2 DEF OnProcessSignaled, ActOnState, kernelVars, hooks, handshake,
                                  reading
<1>10. ASSUME NEW p \in Pids, CloseHandle(p) \/ AtmosphereGetProcessInfo(p)
       PROVE  OtherTypes'
  BY <1>10 DEF CloseHandle, AtmosphereGetProcessInfo, peers, hooks, handshake, reading
<1>11. ASSUME NEW p \in Pids,
              KernelStep(p) \/ StartProcess(p) \/ TerminateProcess(p) \/ ClearExceptionOccurred(p)
       PROVE  OtherTypes'
  BY <1>11 DEF KernelStep, StartProcess, TerminateProcess, ClearExceptionOccurred, kernelVars,
               peers, hooks, handshake, reading
<1>12. ASSUME NEW p \in Pids, CleanupProcess(p)
       PROVE  OtherTypes'
  <2>1. fs_registered' \in SUBSET Pids /\ sm_registered' \in SUBSET Pids /\ pinned' \in SUBSET Pids
    BY <1>12 DEF CleanupProcess, Forget, peers
  <2> QED BY <1>12, <2>1 DEF CleanupProcess, kernelVars, hooks, handshake, reading
<1> QED BY <1>1, <1>2, <1>3, <1>4, <1>5, <1>6, <1>7, <1>8, <1>9, <1>10, <1>11, <1>12, Steps
        DEF OtherStep

LEMMA TypesOK ==
    ASSUME PmAssumption, PmInv, SeenInv, CountInv, OtherTypes
    PROVE  TypeOK
<1>1. Core /\ Hand /\ Shape
  BY DEF PmInv, Core
<1>2. /\ Len(process_list) = Cardinality(Listed)
      /\ Len(dead_process_list) = Cardinality(Dead)
  BY <1>1, OnceCounts DEF Shape, Listed, Dead
<1>3. Listed \cap Dead = {}
  BY <1>1 DEF Shape, Listed, Dead
<1> QED BY <1>1, <1>2, <1>3 DEF Shape, Hand, SeenInv, Signals, CountInv, OtherTypes, TypeOK

---------------------------------------------------------------------------
(* What other services hold for pm.                                        *)

Owner(p) == InList(process_list, p) /\ info[p].handle

PeersOf(p) ==
    /\ p \in fs_registered <=> Owner(p)
    /\ p \in sm_registered <=> Owner(p)
    /\ p \in pinned <=> Owner(p) \/ Tracks("wait_resource", p)

PeersInv == ~aborted => \A p \in Pids : PeersOf(p)

LEMMA PeersFrame ==
    ASSUME PeersInv, aborted' = aborted, UNCHANGED peers,
           \A p \in Pids : /\ Owner(p)' <=> Owner(p)
                           /\ Tracks("wait_resource", p)' <=> Tracks("wait_resource", p)
    PROVE  PeersInv'
BY DEF PeersInv, PeersOf, peers

(* Only what belongs to p changes, and the peers follow.                   *)
LEMMA PeersOne ==
    ASSUME PeersInv, ~aborted, NEW p \in Pids,
           \A q \in Pids \ {p} :
                /\ Owner(q)' <=> Owner(q)
                /\ Tracks("wait_resource", q)' <=> Tracks("wait_resource", q)
                /\ q \in fs_registered' <=> q \in fs_registered
                /\ q \in sm_registered' <=> q \in sm_registered
                /\ q \in pinned' <=> q \in pinned,
           PeersOf(p)'
    PROVE  PeersInv'
<1> SUFFICES ASSUME NEW q \in Pids, q # p PROVE PeersOf(q)'
  BY DEF PeersInv
<1>1. PeersOf(q)
  BY DEF PeersInv
<1> QED BY <1>1 DEF PeersOf

(* p is forgotten, and is no longer on the list or has no handle any more. *)
LEMMA ForgetKeeps ==
    ASSUME Core, PeersInv, ~aborted, NEW p \in Pids, Forget(p), ~Owner(p)',
           ~Tracks("wait_resource", p)',
           \A q \in Pids \ {p} :
                /\ Owner(q)' <=> Owner(q)
                /\ Tracks("wait_resource", q)' <=> Tracks("wait_resource", q)
    PROVE  PeersInv'
<1>1. PeersOf(p)'
  BY DEF PeersOf, Forget
<1>2. \A q \in Pids \ {p} : /\ q \in fs_registered' <=> q \in fs_registered
                            /\ q \in sm_registered' <=> q \in sm_registered
                            /\ q \in pinned' <=> q \in pinned
  BY DEF Forget
<1> QED BY <1>1, <1>2, PeersOne

LEMMA PeersStep ==
    ASSUME PmAssumption, PmInv, PeersInv, [Next]_vars
    PROVE  PeersInv'
<1>1. /\ Core /\ Hand /\ TrackOK
      /\ info \in [Pids -> [state : KernelStates \cup {"none"}, flags : SUBSET Flags,
                            handle : BOOLEAN]]
      /\ \A p : Idle # [at |-> "wait_resource", process |-> p] /\ ~ (Idle.at = "wait_resource")
  BY DEF PmInv, Core, Shape, Idle
<1>2. CASE OtherStep
  <2>1. UNCHANGED coreVars
    BY <1>1, <1>2, OtherStepKeeps
  <2>2. UNCHANGED peers
    BY <1>2 DEF OtherStep, LaunchProgram, HookToCreateProcess, ReturnFromLaunch, ClientWakes,
                HookToCreateApplicationProcess, ClearHook, TakeHookEvent, CloseHandle,
                AtmosphereGetProcessInfo, vars
  <2> QED BY <2>1, <2>2, PeersFrame DEF coreVars, Owner, Tracks, InList
<1>3. CASE BeginLaunch
  <2>1. /\ ~aborted /\ track = Idle /\ aborted' = aborted
        /\ UNCHANGED <<process_list, info, fs_registered, sm_registered>>
    BY <1>3 DEF BeginLaunch, lists
  <2>2. CASE track' = Idle /\ UNCHANGED pinned
    BY <1>1, <2>1, <2>2, PeersFrame DEF Owner, Tracks, InList, peers
  <2>3. CASE /\ NextPid \in Pids /\ pinned' = pinned \cup {NextPid}
             /\ track' = [at |-> "wait_resource", process |-> NextPid]
    <3> SUFFICES ASSUME NEW p \in Pids, pinned' = pinned \cup {p},
                        track' = [at |-> "wait_resource", process |-> p]
                 PROVE  PeersInv'
      BY <2>3
    <3>1. PeersOf(p)
      BY <2>1 DEF PeersInv
    <3>2. /\ Tracks("wait_resource", p)'
          /\ \A q \in Pids : Owner(q)' <=> Owner(q)
          /\ \A q \in Pids \ {p} : ~Tracks("wait_resource", q)' /\ ~Tracks("wait_resource", q)
      BY <1>1, <2>1 DEF Tracks, Owner, InList
    <3>3. PeersOf(p)'
      BY <2>1, <3>1, <3>2 DEF PeersOf
    <3> QED BY <2>1, <3>2, <3>3, PeersOne
  <2> QED BY <1>3, <2>2, <2>3 DEF BeginLaunch, FinishLaunch
<1>4. CASE GetProcessEventInfo
  <2>1. \A p \in Pids : info'[p].handle = info[p].handle
    BY <1>1, <1>4 DEF GetProcessEventInfo
  <2> QED BY <1>4, <2>1, PeersFrame DEF GetProcessEventInfo, Owner, Tracks, InList
<1>5. CASE GetDeadProcessEventInfo
  <2>1. \A p \in Pids : InList(process_list, p) => info'[p] = info[p]
    <3>1. CASE UNCHANGED info
      BY <3>1
    <3>2. CASE dead_process_list # <<>> /\ info' = [info EXCEPT ![Head(dead_process_list)] = NoInfo]
      <4>1. ~InList(process_list, Head(dead_process_list))
        BY <1>1, <3>2, TailLists DEF Core, Shape
      <4> QED BY <1>1, <3>2, <4>1
    <3> QED BY <1>5, <3>1, <3>2 DEF GetDeadProcessEventInfo, CleanupFirstDead
  <2> QED BY <1>5, <2>1, PeersFrame DEF GetDeadProcessEventInfo, Owner, Tracks, InList
<1>6. ASSUME NEW p \in Pids, CreateFails(p) PROVE PeersInv'
  <2>1. /\ Tracks("wait_resource", p) /\ ~aborted /\ track' = Idle /\ pinned' = pinned \ {p}
        /\ UNCHANGED <<process_list, info, fs_registered, sm_registered, aborted>>
    BY <1>6 DEF CreateFails, FinishLaunch, UnpinProgram, lists
  <2>2. ~Owner(p)
    BY <1>1, <2>1 DEF Owner, Core, ProcessesOK, ListedOK, TrackOK, Tracks, NextUnused, KernelStates
  <2>3. PeersOf(p)
    BY <2>1 DEF PeersInv
  <2>4. /\ ~Tracks("wait_resource", p)'
        /\ \A q \in Pids : Owner(q)' <=> Owner(q)
        /\ \A q \in Pids \ {p} : ~Tracks("wait_resource", q)' /\ ~Tracks("wait_resource", q)
    BY <1>1, <2>1 DEF Tracks, Owner, InList
  <2>5. PeersOf(p)'
    BY <2>1, <2>2, <2>3, <2>4 DEF PeersOf
  <2> QED BY <2>1, <2>4, <2>5, PeersOne
<1>7. ASSUME NEW p \in Pids, CreateProcess(p) PROVE PeersInv'
  <2>1. /\ Tracks("wait_resource", p) /\ ~aborted /\ ~InList(process_list, p)
        /\ \A q \in Pids \ {p} : ~Tracks("wait_resource", q)
    BY <1>1, <1>7 DEF CreateProcess, Core, ProcessesOK, ListedOK, TrackOK, Tracks, NextUnused,
                      KernelStates
  <2>2. CASE aborted'
    BY <2>2 DEF PeersInv
  <2>3. CASE Forget(p) /\ track' = Idle /\ UNCHANGED <<process_list, info, aborted>>
    <3>1. /\ ~Tracks("wait_resource", p)' /\ ~Owner(p)'
          /\ \A q \in Pids \ {p} : Owner(q)' <=> Owner(q)
          /\ \A q \in Pids \ {p} : ~Tracks("wait_resource", q)'
      BY <1>1, <2>1, <2>3 DEF Tracks, Owner, InList
    <3> QED BY <1>1, <2>1, <2>3, <3>1, ForgetKeeps
  <2>4. CASE /\ process_list' = Append(process_list, p)
             /\ info' = [info EXCEPT ![p] = [state |-> "Created", flags |-> {}, handle |-> TRUE]]
             /\ fs_registered' = fs_registered \cup {p}
             /\ sm_registered' = sm_registered \cup {p}
             /\ track' = [at |-> "registered", process |-> p]
             /\ UNCHANGED <<pinned, aborted>>
    <3>1. \A q : InList(process_list, q)' <=> InList(process_list, q) \/ q = p
      BY <1>1, <2>1, <2>4, Appended
    <3>2. info'[p].handle /\ \A q \in Pids \ {p} : info'[q] = info[q]
      BY <1>1, <2>4
    <3>3. /\ Owner(p)' /\ \A q \in Pids \ {p} : Owner(q)' <=> Owner(q)
          /\ \A q \in Pids : ~Tracks("wait_resource", q)'
      BY <2>4, <3>1, <3>2 DEF Owner, Tracks
    <3>4. PeersOf(p)
      BY <2>1 DEF PeersInv
    <3>5. PeersOf(p)'
      BY <2>1, <2>4, <3>3, <3>4 DEF PeersOf
    <3> QED BY <2>1, <2>4, <3>3, <3>5, PeersOne
  <2> QED BY <1>7, <2>2, <2>3, <2>4 DEF CreateProcess, FinishLaunch
<1>8. ASSUME NEW p \in Pids, EndLaunch(p) PROVE PeersInv'
  <2>1. /\ InList(process_list, p) /\ ~aborted /\ track.at = "registered" /\ track' = Idle
        /\ UNCHANGED aborted
        /\ \A q \in Pids : ~Tracks("wait_resource", q) /\ ~Tracks("wait_resource", q)'
    BY <1>1, <1>8 DEF EndLaunch, TrackOK, Tracks, FinishLaunch
  <2>2. CASE info' = [info EXCEPT ![p].flags = launch_args.flags] /\ UNCHANGED <<process_list, peers>>
    <3>1. \A q \in Pids : info'[q].handle = info[q].handle
      BY <1>1, <2>2
    <3> QED BY <2>1, <2>2, <3>1, PeersFrame DEF Owner, InList
  <2>3. CASE /\ info' = [info EXCEPT ![p].flags = launch_args.flags, ![p].state = "Running"]
             /\ UNCHANGED <<process_list, peers>>
    <3>1. \A q \in Pids : info'[q].handle = info[q].handle
      BY <1>1, <2>3
    <3> QED BY <2>1, <2>3, <3>1, PeersFrame DEF Owner, InList
  <2>4. CASE Forget(p) /\ process_list' = Remove(process_list, p) /\ info' = [info EXCEPT ![p] = NoInfo]
    <3>1. \A q : InList(process_list, q)' <=> InList(process_list, q) /\ q # p
      BY <1>1, <2>1, <2>4, Removed
    <3>2. \A q \in Pids \ {p} : info'[q] = info[q]
      BY <1>1, <2>4
    <3>3. ~Owner(p)' /\ \A q \in Pids \ {p} : Owner(q)' <=> Owner(q)
      BY <3>1, <3>2 DEF Owner
    <3> QED BY <1>1, <2>1, <2>4, <3>3, ForgetKeeps
  <2> QED BY <1>8, <2>2, <2>3, <2>4 DEF EndLaunch
<1>9. ASSUME NEW p \in Pids, Wake(p) \/ ResetSignal(p) PROVE PeersInv'
  BY <1>1, <1>9, PeersFrame DEF Wake, ResetSignal, lists, Owner, Tracks, InList
<1>10. ASSUME NEW p \in Pids, ReadState(p) PROVE PeersInv'
  <2>1. \A q \in Pids : info'[q].handle = info[q].handle
    BY <1>1, <1>10 DEF ReadState
  <2> QED BY <1>1, <1>10, <2>1, PeersFrame DEF ReadState, Owner, Tracks, InList
<1>11. ASSUME NEW p \in Pids, OnProcessSignaled(p) PROVE PeersInv'
  <2>1. /\ InList(process_list, p) /\ ~aborted /\ track.at = "signaled" /\ track' = Idle
        /\ UNCHANGED aborted
        /\ \A q \in Pids : ~Tracks("wait_resource", q) /\ ~Tracks("wait_resource", q)'
    BY <1>1, <1>11, SignaledIs DEF OnProcessSignaled, ActOnState, Tracks
  <2>2. CASE info[p].state # "Terminated"
    <3>1. \A q \in Pids : info'[q].handle = info[q].handle
      BY <1>1, <1>11, <2>2 DEF OnProcessSignaled, ActOnState
    <3> QED BY <1>11, <2>1, <2>2, <3>1, PeersFrame DEF OnProcessSignaled, ActOnState, Owner, InList
  <2>3. CASE info[p].state = "Terminated"
    <3>1. OnTerminated(p)
      BY <1>11, <2>3 DEF OnProcessSignaled, ActOnState
    <3>2. ~info'[p].handle /\ \A q \in Pids \ {p} : info'[q] = info[q]
      BY <1>1, <3>1, NoInfoIs DEF OnTerminated
    <3>3. \A q \in Pids \ {p} : InList(process_list, q)' <=> InList(process_list, q)
      BY <1>1, <2>1, <3>1, Removed, SameList DEF OnTerminated
    <3>4. ~Owner(p)' /\ \A q \in Pids \ {p} : Owner(q)' <=> Owner(q)
      BY <3>2, <3>3 DEF Owner
    <3> QED BY <1>1, <2>1, <3>1, <3>4, ForgetKeeps DEF OnTerminated
  <2> QED BY <2>2, <2>3
<1>12. ASSUME NEW p \in Pids, KernelStep(p) \/ TerminateProcess(p) PROVE PeersInv'
  BY <1>12, PeersFrame DEF KernelStep, TerminateProcess, lists, Owner, Tracks, InList
<1>13. ASSUME NEW p \in Pids, StartProcess(p) \/ ClearExceptionOccurred(p) PROVE PeersInv'
  <2>1. \A q \in Pids : info'[q].handle = info[q].handle
    BY <1>1, <1>13 DEF StartProcess, ClearExceptionOccurred
  <2> QED BY <1>13, <2>1, PeersFrame DEF StartProcess, ClearExceptionOccurred, Owner, Tracks, InList
<1>14. ASSUME NEW p \in Pids, CleanupProcess(p) PROVE PeersInv'
  <2>1. /\ InList(process_list, p) /\ ~aborted /\ process_list' = Remove(process_list, p)
        /\ info' = [info EXCEPT ![p] = NoInfo] /\ UNCHANGED <<track, aborted>>
        /\ ipc = "idle"
    BY <1>14 DEF CleanupProcess, MayCleanup, Finds, Serving
  <2>2. \A q : InList(process_list, q)' <=> InList(process_list, q) /\ q # p
    BY <1>1, <2>1, Removed
  <2>3. \A q \in Pids \ {p} : info'[q] = info[q]
    BY <1>1, <2>1
  <2>4. /\ ~Owner(p)' /\ \A q \in Pids \ {p} : Owner(q)' <=> Owner(q)
        /\ \A q : ~Tracks("wait_resource", q) /\ ~Tracks("wait_resource", q)'
    BY <1>1, <2>1, <2>2, <2>3 DEF Owner, Tracks, Hand, Launching
  <2>5. CASE info[p].handle
    <3>1. Forget(p)
      BY <1>14, <2>5 DEF CleanupProcess
    <3> QED BY <1>1, <2>1, <2>4, <3>1, ForgetKeeps
  <2>6. CASE ~info[p].handle
    <3>1. UNCHANGED peers /\ ~Owner(p)
      BY <1>14, <2>6 DEF CleanupProcess, Owner
    <3> QED BY <2>1, <2>4, <3>1, PeersFrame
  <2> QED BY <2>5, <2>6
<1> QED BY <1>2, <1>3, <1>4, <1>5, <1>6, <1>7, <1>8, <1>9, <1>10, <1>11, <1>12, <1>13, <1>14, Steps

(* pm leaks nothing: the variables have their types, a process is on one   *)
(* list, once, and what fs, sm and loader hold for pm is exactly what      *)
(* belongs to the processes it has a handle of and to the one it creates.  *)
THEOREM PeersAreExact == Spec => []NothingLeaks
<1>1. Init => SeenInv /\ OtherTypes /\ PeersInv
  <2>1. Init => SeenInv
    BY DEF Init, SeenInv, Signals, Seen, InList
  <2>2. Init => OtherTypes
    <3>1. [p \in Pids |-> 0] \in [Pids -> 0..2]
      OBVIOUS
    <3> QED BY <3>1 DEF Init, OtherTypes
  <2>3. Init => PeersInv
    BY DEF Init, PeersInv, PeersOf, Owner, InList, Tracks, Idle
  <2> QED BY <2>1, <2>2, <2>3
<1>2. PmInv /\ SeenInv /\ [Next]_vars => SeenInv'
  BY PmAssumption, KernelAssumption, SeenStep
<1>3. PmInv /\ OtherTypes /\ [Next]_vars => OtherTypes'
  BY PmAssumption, OtherTypesStep
<1>4. PmInv /\ PeersInv /\ [Next]_vars => PeersInv'
  BY PmAssumption, PeersStep
<1>5. PmInv /\ SeenInv /\ CountInv /\ OtherTypes /\ PeersInv => NothingLeaks
  <2> SUFFICES ASSUME PmInv, SeenInv, CountInv, OtherTypes, PeersInv PROVE NothingLeaks
    OBVIOUS
  <2>1. TypeOK
    BY PmAssumption, TypesOK
  <2> DEFINE owners == {p \in Listed : info[p].handle}
             launching == IF track.at = "wait_resource" THEN {track.process} ELSE {}
  <2>2. \A p \in Pids : p \in owners <=> Owner(p)
    BY DEF Owner, Listed
  <2>3. \A p \in Pids : p \in launching <=> Tracks("wait_resource", p)
    BY DEF PmInv, Core, Shape, Tracks, Idle
  <2>4. owners \in SUBSET Pids /\ launching \in SUBSET Pids
    BY DEF Listed, PmInv, Core, Shape, Idle
  <2>5. /\ fs_registered \in SUBSET Pids /\ sm_registered \in SUBSET Pids
        /\ pinned \in SUBSET Pids
    BY DEF OtherTypes
  <2> HIDE DEF owners, launching
  <2>6. ASSUME ~aborted
        PROVE  fs_registered = owners /\ sm_registered = owners /\ pinned = owners \cup launching
    <3>1. \A p \in Pids : PeersOf(p)
      BY <2>6 DEF PeersInv
    <3> QED BY <2>2, <2>3, <2>4, <2>5, <3>1 DEF PeersOf
  <2> QED BY <2>1, <2>6 DEF NothingLeaks, owners, launching
<1> QED BY <1>1, <1>2, <1>3, <1>4, <1>5, Invariant, LaunchInvariant, PTL DEF Spec

---------------------------------------------------------------------------
(* At most one application exists.                                         *)

(* Unless q is created it gets nothing that it has not had: a process      *)
(* starts to use resources when it is created, and never again.            *)
NothingNew(q) ==
    /\ info'[q].handle => info[q].handle
    /\ kernel_state'[q] \notin {"none", "gone"} => kernel_state[q] \notin {"none", "gone"}
    /\ kernel_state[q] = "Terminated" => kernel_state'[q] = "Terminated"
    /\ q \in held' => q \in held \/ info[q].handle
    /\ launched'[q] = launched[q]

LEMMA NothingNewStep ==
    ASSUME PmAssumption, KernelAssumption, PmInv, [Next]_vars, NEW q \in Pids
    PROVE  CreateProcess(q) \/ NothingNew(q)
<1>1. /\ Core /\ TrackOK /\ NoInfo.handle = FALSE
      /\ info \in [Pids -> [state : KernelStates \cup {"none"}, flags : SUBSET Flags,
                            handle : BOOLEAN]]
      /\ kernel_state \in [Pids -> KernelStates \cup {"none", "gone"}]
      /\ launched \in [Pids -> LaunchArgs \cup {NoLaunch}]
      /\ "none" \notin KernelStates /\ "gone" \notin KernelStates
  BY NoInfoIs DEF PmInv, Hand, Core, Shape, KernelStates
<1>2. CASE OtherStep
  <2>1. UNCHANGED <<info, kernel_state>>
    BY <1>1, <1>2, OtherStepKeeps DEF coreVars
  <2>2. CASE \E p \in Pids : AtmosphereGetProcessInfo(p)
    BY <2>1, <2>2 DEF AtmosphereGetProcessInfo, NothingNew
  <2>3. CASE \E p \in Pids : CloseHandle(p)
    BY <2>1, <2>3 DEF CloseHandle, NothingNew
  <2>4. CASE UNCHANGED <<launched, held>>
    BY <2>1, <2>4 DEF NothingNew
  <2> QED BY <1>2, <2>2, <2>3, <2>4
          DEF OtherStep, LaunchProgram, HookToCreateProcess, ReturnFromLaunch, ClientWakes,
              HookToCreateApplicationProcess, ClearHook, TakeHookEvent, vars, kernelVars
<1>3. CASE BeginLaunch \/ \E p \in Pids : CreateFails(p) \/ Wake(p) \/ ResetSignal(p)
  BY <1>3 DEF BeginLaunch, CreateFails, Wake, ResetSignal, lists, kernelVars, NothingNew
<1>4. CASE GetProcessEventInfo \/ GetDeadProcessEventInfo
  <2>1. UNCHANGED kernelVars
    BY <1>4 DEF GetProcessEventInfo, GetDeadProcessEventInfo
  <2>2. info'[q].handle => info[q].handle
    <3>1. CASE GetProcessEventInfo
      BY <1>1, <3>1 DEF GetProcessEventInfo
    <3>2. CASE GetDeadProcessEventInfo
      BY <1>1, <3>2 DEF GetDeadProcessEventInfo, CleanupFirstDead
    <3> QED BY <1>4, <3>1, <3>2
  <2> QED BY <2>1, <2>2 DEF NothingNew, kernelVars
<1>5. ASSUME NEW p \in Pids, CreateProcess(p)
      PROVE  CreateProcess(q) \/ NothingNew(q)
  <2>1. CASE q = p
    BY <1>5, <2>1
  <2>2. CASE q # p
    <3>1. info'[q] = info[q]
      BY <1>1, <1>5, <2>2 DEF CreateProcess
    <3>2. kernel_state'[q] = kernel_state[q] /\ launched'[q] = launched[q] /\ held' = held
      BY <1>1, <1>5, <2>2 DEF CreateProcess
    <3> QED BY <3>1, <3>2 DEF NothingNew
  <2> QED BY <2>1, <2>2
<1>6. ASSUME NEW p \in Pids, EndLaunch(p)
      PROVE  NothingNew(q)
  <2>1. kernel_state[p] \in {"Created", "CreatedAttached"} /\ UNCHANGED <<launched, held>>
    BY <1>1, <1>6 DEF EndLaunch, TrackOK, Tracks
  <2>2. info'[q].handle => info[q].handle
    BY <1>1, <1>6 DEF EndLaunch
  <2>3. /\ kernel_state'[q] \notin {"none", "gone"} => kernel_state[q] \notin {"none", "gone"}
        /\ kernel_state[q] = "Terminated" => kernel_state'[q] = "Terminated"
    BY <1>1, <1>6, <2>1 DEF EndLaunch, SetKernelState
  <2> QED BY <2>1, <2>2, <2>3 DEF NothingNew
<1>7. ASSUME NEW p \in Pids,
             ReadState(p) \/ OnProcessSignaled(p) \/ CleanupProcess(p) \/ ClearExceptionOccurred(p)
      PROVE  NothingNew(q)
  <2>1. UNCHANGED kernelVars
    BY <1>7 DEF ReadState, OnProcessSignaled, CleanupProcess, ClearExceptionOccurred
  <2>2. info'[q].handle => info[q].handle
    <3>1. CASE ReadState(p)
      BY <1>1, <3>1 DEF ReadState
    <3>2. CASE OnProcessSignaled(p)
      BY <1>1, <3>2 DEF OnProcessSignaled, ActOnState, OnTerminated
    <3>3. CASE CleanupProcess(p) \/ ClearExceptionOccurred(p)
      BY <1>1, <3>3 DEF CleanupProcess, ClearExceptionOccurred
    <3> QED BY <1>7, <3>1, <3>2, <3>3
  <2> QED BY <2>1, <2>2 DEF NothingNew, kernelVars
<1>8. ASSUME NEW p \in Pids, KernelStep(p)
      PROVE  NothingNew(q)
  <2>1. PICK s \in KernelStates : /\ <<kernel_state[p], s>> \in Transitions
                                  /\ kernel_state' = [kernel_state EXCEPT ![p] = s]
    BY <1>8 DEF KernelStep, SetKernelState
  <2>2. kernel_state[p] \in KernelStates /\ kernel_state[p] # "Terminated"
    BY <2>1 DEF PmAssumption, KernelAssumption
  <2>3. UNCHANGED <<info, launched, held>>
    BY <1>8 DEF KernelStep, lists
  <2> QED BY <1>1, <2>1, <2>2, <2>3 DEF NothingNew
<1>9. ASSUME NEW p \in Pids, StartProcess(p) \/ TerminateProcess(p)
      PROVE  NothingNew(q)
  <2>1. /\ kernel_state[p] \notin {"none", "gone", "Terminated"}
        /\ \E s : kernel_state' = [kernel_state EXCEPT ![p] = s]
        /\ UNCHANGED <<launched, held>>
    BY <1>1, <1>9 DEF StartProcess, TerminateProcess, SetKernelState, Finds, Core, ProcessesOK,
                      ListedOK
  <2>2. info'[q].handle = info[q].handle
    BY <1>1, <1>9 DEF StartProcess, TerminateProcess, lists
  <2> QED BY <1>1, <2>1, <2>2 DEF NothingNew
<1> QED BY <1>2, <1>3, <1>4, <1>5, <1>6, <1>7, <1>8, <1>9, Steps

LEMMA ApplicationStep ==
    ASSUME PmAssumption, KernelAssumption, PmInv, OneApplication, [Next]_vars
    PROVE  OneApplication'
<1>1. ASSUME NEW q \in Pids, NothingNew(q), UsesApplicationResources(q)'
      PROVE  UsesApplicationResources(q)
  BY <1>1 DEF NothingNew, UsesApplicationResources
<1>2. ASSUME NEW q \in Pids, CreateProcess(q), UsesApplicationResources(q)'
      PROVE  \A p \in Pids : ~UsesApplicationResources(p)
  <2>1. launched'[q] = launch_args
    BY <1>2 DEF CreateProcess, PmInv, Hand
  <2>2. IsApplication(launch_args)
    BY <1>2, <2>1 DEF UsesApplicationResources, IsApplication
  <2> QED BY <1>2, <2>2 DEF CreateProcess, ResourceAvailable
<1>3. ASSUME NEW p \in Pids, NEW q \in Pids, CreateProcess(p), CreateProcess(q)
      PROVE  p = q
  BY <1>3 DEF CreateProcess, Tracks
<1> SUFFICES ASSUME NEW p \in Pids, NEW q \in Pids,
                    UsesApplicationResources(p)', UsesApplicationResources(q)'
             PROVE  p = q
  BY DEF OneApplication
<1>4. /\ CreateProcess(p) \/ NothingNew(p)
      /\ CreateProcess(q) \/ NothingNew(q)
  BY NothingNewStep
<1>5. CASE NothingNew(p) /\ NothingNew(q)
  BY <1>1, <1>5 DEF OneApplication
<1>6. CASE NothingNew(p) /\ CreateProcess(q)
  BY <1>1, <1>2, <1>6
<1>7. CASE NothingNew(q) /\ CreateProcess(p)
  BY <1>1, <1>2, <1>7
<1>8. CASE CreateProcess(p) /\ CreateProcess(q)
  BY <1>3, <1>8
<1> QED BY <1>4, <1>5, <1>6, <1>7, <1>8

(* Two processes never use the resources of the application group at once: *)
(* an application is only created when the kernel has none left, and what  *)
(* has terminated and was let go of does not come back.                    *)
THEOREM ApplicationsAreSingle == Spec => []OneApplication
<1>1. Init => OneApplication
  BY DEF Init, OneApplication, UsesApplicationResources
<1>2. PmInv /\ OneApplication /\ [Next]_vars => OneApplication'
  BY PmAssumption, KernelAssumption, ApplicationStep
<1> QED BY <1>1, <1>2, Invariant, PTL DEF Spec

---------------------------------------------------------------------------
(* No event is lost.                                                       *)

(* A set of positions that is not empty has a first.                       *)
LEMMA LeastNatural ==
    ASSUME NEW T \in SUBSET Nat, T # {}
    PROVE  \E m \in T : \A k \in T : m <= k
<1> DEFINE F == {0..m : m \in T}
           R == StrictSubsetOrdering(Nat)
<1>1. F \subseteq FiniteSubsetsOf(Nat) /\ F # {}
  <2>1. ASSUME NEW m \in T PROVE 0..m \in FiniteSubsetsOf(Nat)
    <3>1. m \in Int /\ 0 \in Int /\ 0..m \in SUBSET Nat
      OBVIOUS
    <3>2. IsFiniteSet(0..m)
      BY <3>1, FS_Interval
    <3> QED BY <3>1, <3>2 DEF FiniteSubsetsOf
  <2>2. F # {}
    OBVIOUS
  <2> QED BY <2>1, <2>2
<1>2. PICK x \in F : \A y \in F : ~(<<y, x>> \in R)
  <2> HIDE DEF F
  <2> QED BY <1>1, WFMin, FS_StrictSubsetOrderingWellFounded
<1>3. PICK m \in T : x = 0..m
  OBVIOUS
<1>4. ASSUME NEW k \in T, k < m PROVE FALSE
  <2>1. 0..k \subseteq 0..m /\ 0..k # 0..m
    <3>1. m \in 0..m /\ m \notin 0..k
      BY <1>4
    <3> QED BY <1>4, <3>1
  <2>2. <<0..k, 0..m>> \in R
    BY <2>1 DEF StrictSubsetOrdering
  <2> QED BY <1>2, <1>3, <2>2
<1> QED BY <1>4

(* If the list has something to report, GetProcessEventInfo finds it.      *)
LEMMA FirstIsFound ==
    ASSUME Core, NEW p \in Pids, InList(process_list, p), Reportable(p)
    PROVE  \E q \in Pids : IsFirstReportable(q)
<1>1. /\ process_list \in Seq(Pids) /\ Len(process_list) \in Nat
      /\ DOMAIN process_list = 1..Len(process_list)
      /\ \A i \in 1..Len(process_list) : process_list[i] \in Pids
  BY DEF Core, Shape
<1> DEFINE T == {i \in 1..Len(process_list) : Reportable(process_list[i])}
<1>2. T \in SUBSET Nat /\ T # {}
  BY <1>1 DEF InList
<1>3. PICK m \in T : \A k \in T : m <= k
  <2> HIDE DEF T
  <2> QED BY <1>2, LeastNatural
<1>4. \A j \in 1..(m - 1) : ~Reportable(process_list[j])
  BY <1>1, <1>3
<1>5. IsFirstReportable(process_list[m]) /\ process_list[m] \in Pids
  BY <1>1, <1>3, <1>4 DEF IsFirstReportable
<1> QED BY <1>5

(* OnProcessSignaled, which holds the list, is about to signal the event   *)
(* for p.                                                                  *)
AboutToSignal(p) == Tracks("signaled", p) /\ SignalsEvent(info[p].flags, info[p].state)

(* The client waits, or is on the way to: the list had nothing to report.  *)
Quiet == ~process_event /\ (client = "waiting" \/ ipc = "event_info")

EventInv ==
    /\ ~process_event /\ client = "waiting" => dead_process_list = <<>>
    /\ Quiet => \A p \in Pids : InList(process_list, p) /\ Reportable(p) => AboutToSignal(p)

LEMMA QuietKeeps ==
    ASSUME EventInv,
           ~process_event' => ~process_event,
           client' = "waiting" => client = "waiting",
           ipc' = "event_info" => ipc = "event_info",
           ~process_event' /\ dead_process_list = <<>> => dead_process_list' = <<>>,
           Quiet' => \A q \in Pids : InList(process_list, q)' /\ Reportable(q)' =>
                        \/ AboutToSignal(q)'
                        \/ /\ InList(process_list, q) /\ Reportable(q)
                           /\ AboutToSignal(q) => AboutToSignal(q)'
    PROVE  EventInv'
<1>1. Quiet' => Quiet
  BY DEF Quiet
<1>2. ASSUME Quiet', NEW q \in Pids, InList(process_list, q)', Reportable(q)'
      PROVE  AboutToSignal(q)'
  BY <1>1, <1>2 DEF EventInv
<1> QED BY <1>2 DEF EventInv

LEMMA SameReport ==
    ASSUME NEW q, info'[q] = info[q]
    PROVE  Reportable(q)' <=> Reportable(q)
BY DEF Reportable, FlagToReport, StartedToReport, ExitToReport, Has, HasStarted

LEMMA SameSignal ==
    ASSUME NEW q, info'[q] = info[q], track' = track
    PROVE  AboutToSignal(q)' <=> AboutToSignal(q)
BY DEF AboutToSignal, Tracks, SignalsEvent

LEMMA OnlySignaled ==
    ASSUME NEW q, AboutToSignal(q)
    PROVE  track.at = "signaled" /\ track.process = q
BY DEF AboutToSignal, Tracks

(* If acting on a state signals no event it leaves nothing to report.      *)
LEMMA QuietUpdate ==
    ASSUME NEW flags, NEW new, ~SignalsEvent(flags, new), new # "Terminated",
           NEW flag \in {"StartedStateChanged", "SuspendedStateChanged", "ExceptionOccurred"},
           flag \in UpdatedFlags(flags, new)
    PROVE  flag \in flags
BY DEF SignalsEvent, UpdatedFlags

LEMMA EventStep ==
    ASSUME PmAssumption, KernelAssumption, PmInv, EventInv, [Next]_vars
    PROVE  EventInv'
<1>1. /\ Core /\ Hand /\ TrackOK /\ NoInfo.flags = {}
      /\ info \in [Pids -> [state : KernelStates \cup {"none"}, flags : SUBSET Flags,
                            handle : BOOLEAN]]
      /\ kernel_state \in [Pids -> KernelStates \cup {"none", "gone"}]
  BY NoInfoIs DEF PmInv, Core, Shape
<1>2. CASE OtherStep
  <2>1. UNCHANGED <<process_list, dead_process_list, info, track>>
    BY <1>1, <1>2, OtherStepKeeps DEF coreVars
  <2>2. CASE ClientWakes
    <3>1. ~Quiet' /\ client' = "reading"
      BY <1>1, <2>2 DEF ClientWakes, Quiet, Hand
    <3> QED BY <3>1 DEF EventInv
  <2>3. CASE /\ UNCHANGED <<process_event, client>>
             /\ ipc' = "event_info" => ipc = "event_info"
    BY <2>1, <2>3, QuietKeeps, SameReport, SameSignal, SameList
  <2> QED BY <1>2, <2>2, <2>3
          DEF OtherStep, LaunchProgram, HookToCreateProcess, ReturnFromLaunch,
              HookToCreateApplicationProcess, ClearHook, TakeHookEvent, CloseHandle,
              AtmosphereGetProcessInfo, vars, reading
<1>3. CASE BeginLaunch \/ \E p \in Pids : CreateFails(p) \/ Wake(p) \/ ResetSignal(p)
  <2>1. UNCHANGED <<process_list, dead_process_list, info, process_event, client, ipc>>
    BY <1>3 DEF BeginLaunch, CreateFails, Wake, ResetSignal, lists, reading
  <2>2. \A q : ~AboutToSignal(q)
    BY <1>3, OnlySignaled DEF BeginLaunch, CreateFails, Wake, ResetSignal, Tracks, Idle
  <2> QED BY <2>1, <2>2, QuietKeeps, SameReport, SameList
<1>4. CASE GetProcessEventInfo
  <2>1. client = "reading" /\ ipc = "idle" /\ UNCHANGED <<process_list, dead_process_list, track, process_event>>
    BY <1>4 DEF GetProcessEventInfo, Serving
  <2>2. CASE UNCHANGED <<ipc, client>>
    BY <2>1, <2>2 DEF EventInv, Quiet
  <2>3. CASE /\ ~\E p \in Pids : IsFirstReportable(p)
             /\ IF Version5 THEN ipc' = "event_info" /\ UNCHANGED client
                            ELSE client' = "waiting" /\ UNCHANGED ipc
             /\ UNCHANGED info
    <3>1. \A q \in Pids : InList(process_list, q)' /\ Reportable(q)' => FALSE
      BY <1>1, <2>1, <2>3, FirstIsFound, SameReport, SameList
    <3>2. client' = "waiting" => dead_process_list' = <<>>
      BY <1>1, <2>1, <2>3 DEF Hand
    <3> QED BY <3>1, <3>2 DEF EventInv
  <2> QED BY <1>4, <2>2, <2>3 DEF GetProcessEventInfo
<1>5. CASE GetDeadProcessEventInfo
  <2>1. /\ ipc = "event_info" /\ client = "reading" /\ ipc' = "idle"
        /\ UNCHANGED <<process_list, track, process_event>>
    BY <1>1, <1>5 DEF GetDeadProcessEventInfo, KeepEvent, Hand
  <2>2. CASE dead_process_list = <<>>
    <3>1. UNCHANGED <<dead_process_list, info>>
      BY <1>5, <2>2 DEF GetDeadProcessEventInfo
    <3>2. Quiet' => Quiet
      BY <2>1 DEF Quiet
    <3>3. \A q \in Pids : /\ InList(process_list, q)' <=> InList(process_list, q)
                          /\ Reportable(q)' <=> Reportable(q)
                          /\ AboutToSignal(q)' <=> AboutToSignal(q)
      BY <2>1, <3>1, SameReport, SameSignal, SameList
    <3> QED BY <2>2, <3>1, <3>2, <3>3 DEF EventInv
  <2>3. CASE dead_process_list # <<>>
    <3>1. client' = "reading"
      BY <1>5, <2>1, <2>3 DEF GetDeadProcessEventInfo
    <3> QED BY <2>1, <3>1 DEF EventInv, Quiet
  <2> QED BY <2>2, <2>3
<1>6. ASSUME NEW p \in Pids, CreateProcess(p) PROVE EventInv'
  <2>1. /\ ~InList(process_list, p) /\ track.at = "wait_resource"
        /\ UNCHANGED <<dead_process_list, process_event, client, ipc>>
    BY <1>1, <1>6 DEF CreateProcess, TrackOK, Tracks, Core, ProcessesOK, ListedOK, NextUnused,
                      KernelStates, reading
  <2>2. \A q : ~AboutToSignal(q)
    BY <2>1, OnlySignaled
  <2>3. CASE UNCHANGED <<process_list, info>>
    BY <2>1, <2>2, <2>3, QuietKeeps, SameReport, SameList
  <2>4. CASE /\ process_list' = Append(process_list, p)
             /\ info' = [info EXCEPT ![p] = [state |-> "Created", flags |-> {}, handle |-> TRUE]]
    <3>1. \A q : InList(process_list, q)' <=> InList(process_list, q) \/ q = p
      BY <1>1, <2>1, <2>4, Appended
    <3>2. info'[p].flags = {} /\ \A q \in Pids \ {p} : info'[q] = info[q]
      BY <1>1, <2>4
    <3>3. ~Reportable(p)'
      BY <3>2 DEF Reportable, FlagToReport, StartedToReport, ExitToReport, Has
    <3>4. \A q \in Pids : InList(process_list, q)' /\ Reportable(q)' =>
                InList(process_list, q) /\ Reportable(q)
      BY <3>1, <3>2, <3>3, SameReport
    <3> QED BY <2>1, <2>2, <3>4, QuietKeeps
  <2> QED BY <1>6, <2>3, <2>4 DEF CreateProcess
<1>7. ASSUME NEW p \in Pids, EndLaunch(p) PROVE EventInv'
  <2>1. /\ InList(process_list, p) /\ track.at = "registered"
        /\ info[p] = [state |-> "Created", flags |-> {}, handle |-> TRUE]
        /\ UNCHANGED <<dead_process_list, process_event, client, ipc>>
        /\ \A flag \in {"StartedStateChanged", "SuspendedStateChanged", "ExceptionOccurred"} :
                flag \notin launch_args.flags
    BY <1>1, <1>7 DEF EndLaunch, TrackOK, Tracks, Hand, reading
  <2>2. \A q : ~AboutToSignal(q)
    BY <2>1, OnlySignaled
  <2>3. \A q \in Pids \ {p} : info'[q] = info[q]
    BY <1>1, <1>7 DEF EndLaunch
  <2>4. \A q \in Pids : InList(process_list, q)' => InList(process_list, q)
    <3>1. CASE UNCHANGED process_list
      BY <3>1, SameList
    <3>2. CASE process_list' = Remove(process_list, p)
      BY <1>1, <2>1, <3>2, Removed
    <3> QED BY <1>7, <3>1, <3>2 DEF EndLaunch
  <2>5. ~Reportable(p)'
    <3>1. CASE info' = [info EXCEPT ![p].flags = launch_args.flags]
      <4>1. info'[p].flags = launch_args.flags /\ info'[p].state = "Created"
        BY <1>1, <2>1, <3>1
      <4> QED BY <2>1, <4>1 DEF Reportable, FlagToReport, StartedToReport, ExitToReport, Has
    <3>2. CASE info' = [info EXCEPT ![p].flags = launch_args.flags, ![p].state = "Running"]
      <4>1. info'[p].flags = launch_args.flags /\ info'[p].state = "Running"
        BY <1>1, <2>1, <3>2
      <4> QED BY <2>1, <4>1 DEF Reportable, FlagToReport, StartedToReport, ExitToReport, Has
    <3>3. CASE info' = [info EXCEPT ![p] = NoInfo]
      <4>1. info'[p].flags = {}
        BY <1>1, <3>3
      <4> QED BY <4>1 DEF Reportable, FlagToReport, StartedToReport, ExitToReport, Has
    <3> QED BY <1>7, <3>1, <3>2, <3>3 DEF EndLaunch
  <2>6. \A q \in Pids : InList(process_list, q)' /\ Reportable(q)' =>
            InList(process_list, q) /\ Reportable(q)
    BY <2>3, <2>4, <2>5, SameReport
  <2> QED BY <2>1, <2>2, <2>6, QuietKeeps
<1>8. ASSUME NEW p \in Pids, ReadState(p) PROVE EventInv'
  <2>1. /\ track.at = "reset" /\ track.process = p /\ InList(process_list, p)
        /\ Tracks("signaled", p)'
        /\ UNCHANGED <<process_list, dead_process_list, process_event, client, ipc>>
    BY <1>1, <1>8 DEF ReadState, Tracks, TrackOK, Looking, reading
  <2>2. ListedOK(p)
    BY <1>1, <2>1 DEF Core, ProcessesOK
  <2>3. /\ \A q \in Pids \ {p} : info'[q] = info[q]
        /\ info'[p].flags \in SUBSET info[p].flags
        /\ "SignalOnExit" \in info[p].flags => "SignalOnExit" \in info'[p].flags
    BY <1>1, <1>8 DEF ReadState
  <2>4. Reportable(p)' => Reportable(p) \/ AboutToSignal(p)'
    BY <2>1, <2>2, <2>3 DEF Reportable, FlagToReport, StartedToReport, ExitToReport, Has,
                            ListedOK, AboutToSignal, SignalsEvent
  <2>5. \A q : ~AboutToSignal(q)
    BY <2>1, OnlySignaled
  <2>6. \A q \in Pids : InList(process_list, q)' /\ Reportable(q)' =>
            AboutToSignal(q)' \/ (InList(process_list, q) /\ Reportable(q))
    BY <2>1, <2>3, <2>4, SameReport, SameList
  <2> QED BY <2>1, <2>5, <2>6, QuietKeeps
<1>9. ASSUME NEW p \in Pids, OnProcessSignaled(p) PROVE EventInv'
  <2>1. /\ track.at = "signaled" /\ track.process = p /\ InList(process_list, p)
        /\ Tracks("signaled", p) /\ UNCHANGED <<client, ipc>>
    BY <1>1, <1>9, SignaledIs DEF OnProcessSignaled, ActOnState, reading
  <2>2. CASE SignalsEvent(info[p].flags, info[p].state)
    <3>1. process_event' = TRUE
      BY <1>9, <2>2 DEF OnProcessSignaled, ActOnState, SignalEvent
    <3> QED BY <3>1 DEF EventInv, Quiet
  <2>3. CASE ~SignalsEvent(info[p].flags, info[p].state)
    <3>1. process_event' = process_event
      BY <1>9, <2>3 DEF OnProcessSignaled, ActOnState
    <3>2. \A q : ~AboutToSignal(q)
      BY <2>1, <2>3, OnlySignaled DEF AboutToSignal
    <3>3. CASE info[p].state # "Terminated"
      <4>1. /\ info' = [info EXCEPT ![p].flags = UpdatedFlags(@, info[p].state)]
            /\ UNCHANGED <<process_list, dead_process_list>>
        BY <1>9, <3>3 DEF OnProcessSignaled, ActOnState
      <4>2. /\ info'[p].flags = UpdatedFlags(info[p].flags, info[p].state)
            /\ info'[p].state = info[p].state
            /\ \A q \in Pids \ {p} : info'[q] = info[q]
        BY <1>1, <4>1
      <4>3. \A flag \in {"StartedStateChanged", "SuspendedStateChanged", "ExceptionOccurred"} :
                flag \in info'[p].flags => flag \in info[p].flags
        BY <2>3, <3>3, <4>2, QuietUpdate
      <4>4. Reportable(p)' => Reportable(p)
        BY <3>3, <4>2, <4>3 DEF Reportable, FlagToReport, StartedToReport, ExitToReport, Has,
                                HasStarted
      <4>5. \A q \in Pids : InList(process_list, q)' /\ Reportable(q)' =>
                InList(process_list, q) /\ Reportable(q)
        BY <4>1, <4>2, <4>4, SameReport, SameList
      <4> QED BY <2>1, <3>1, <3>2, <4>1, <4>5, QuietKeeps
    <3>4. CASE info[p].state = "Terminated"
      <4>1. ~Has(p, "SignalOnExit")
        BY <2>3, <3>4 DEF SignalsEvent, Has
      <4>2. /\ info' = [info EXCEPT ![p] = NoInfo] /\ process_list' = Remove(process_list, p)
            /\ UNCHANGED dead_process_list
        BY <1>9, <3>4, <4>1 DEF OnProcessSignaled, ActOnState, OnTerminated
      <4>3. \A q : InList(process_list, q)' <=> InList(process_list, q) /\ q # p
        BY <1>1, <2>1, <4>2, Removed
      <4>4. \A q \in Pids \ {p} : info'[q] = info[q]
        BY <1>1, <4>2
      <4>5. \A q \in Pids : InList(process_list, q)' /\ Reportable(q)' =>
                InList(process_list, q) /\ Reportable(q)
        BY <4>3, <4>4, SameReport
      <4> QED BY <2>1, <3>1, <3>2, <4>2, <4>5, QuietKeeps
    <3> QED BY <3>3, <3>4
  <2> QED BY <2>2, <2>3
<1>10. ASSUME NEW p \in Pids, KernelStep(p) \/ TerminateProcess(p) PROVE EventInv'
  <2>1. UNCHANGED <<process_list, dead_process_list, info, track, process_event, client, ipc>>
    BY <1>10 DEF KernelStep, TerminateProcess, lists, reading
  <2> QED BY <2>1, QuietKeeps, SameReport, SameSignal, SameList
<1>11. ASSUME NEW p \in Pids, StartProcess(p) \/ ClearExceptionOccurred(p) PROVE EventInv'
  <2>1. /\ UNCHANGED <<process_list, dead_process_list, track, process_event, client, ipc>>
        /\ track.at # "signaled" /\ InList(process_list, p)
    BY <1>11 DEF StartProcess, ClearExceptionOccurred, Finds, ListLocked, reading
  <2>2. \A q : ~AboutToSignal(q)
    BY <2>1, OnlySignaled
  <2>3. Reportable(p)' => Reportable(p)
    <3>1. CASE StartProcess(p)
      <4>1. info'[p].flags = info[p].flags /\ info'[p].state = "Running"
        BY <1>1, <3>1 DEF StartProcess
      <4>2. "StartedStateChanged" \notin info[p].flags
        BY <1>1, <2>1, <3>1 DEF StartProcess, Core, ProcessesOK, ListedOK
      <4> QED BY <4>1, <4>2 DEF Reportable, FlagToReport, StartedToReport, ExitToReport, Has
    <3>2. CASE ClearExceptionOccurred(p)
      <4>1. info'[p].flags \in SUBSET info[p].flags /\ info'[p].state = info[p].state
        BY <1>1, <3>2 DEF ClearExceptionOccurred
      <4> QED BY <4>1 DEF Reportable, FlagToReport, StartedToReport, ExitToReport, Has, HasStarted
    <3> QED BY <1>11, <3>1, <3>2
  <2>4. \A q \in Pids \ {p} : info'[q] = info[q]
    BY <1>1, <1>11 DEF StartProcess, ClearExceptionOccurred
  <2>5. \A q \in Pids : InList(process_list, q)' /\ Reportable(q)' =>
            InList(process_list, q) /\ Reportable(q)
    BY <2>1, <2>3, <2>4, SameReport, SameList
  <2> QED BY <2>1, <2>2, <2>5, QuietKeeps
<1>12. ASSUME NEW p \in Pids, CleanupProcess(p) PROVE EventInv'
  <2>1. /\ InList(process_list, p) /\ process_list' = Remove(process_list, p)
        /\ info' = [info EXCEPT ![p] = NoInfo] /\ track.at # "signaled"
        /\ UNCHANGED <<dead_process_list, track, process_event, client, ipc>>
    BY <1>12 DEF CleanupProcess, MayCleanup, Finds, ListLocked, reading
  <2>2. \A q : ~AboutToSignal(q)
    BY <2>1, OnlySignaled
  <2>3. \A q : InList(process_list, q)' <=> InList(process_list, q) /\ q # p
    BY <1>1, <2>1, Removed
  <2>4. \A q \in Pids \ {p} : info'[q] = info[q]
    BY <1>1, <2>1
  <2>5. \A q \in Pids : InList(process_list, q)' /\ Reportable(q)' =>
            InList(process_list, q) /\ Reportable(q)
    BY <2>3, <2>4, SameReport
  <2> QED BY <2>1, <2>2, <2>5, QuietKeeps
<1> QED BY <1>2, <1>3, <1>4, <1>5, <1>6, <1>7, <1>8, <1>9, <1>10, <1>11, <1>12, Steps

(* No wakeup is lost: while the client waits for g_process_event there is  *)
(* nothing to report, or the event is signalled, or the tracking thread,   *)
(* which holds the list, is about to signal it.                            *)
THEOREM EventsAreNotLost == Spec => []NoLostEvent
<1>1. Init => EventInv
  BY DEF Init, EventInv, InList
<1>2. PmInv /\ EventInv /\ [Next]_vars => EventInv'
  BY PmAssumption, KernelAssumption, EventStep
<1>3. EventInv => NoLostEvent
  BY OnlySignaled DEF EventInv, Quiet, NoLostEvent, Listed, ListLocked
<1> QED BY <1>1, <1>2, <1>3, Invariant, PTL DEF Spec

---------------------------------------------------------------------------
(* pm implements the registry of processes.                                *)

(* pm marks as applications only what was launched as one.                 *)
AppOK(p) ==
    InList(process_list, p) /\ "Application" \in info[p].flags => "Application" \in launched[p].flags

AppInv == \A p \in Pids : AppOK(p)

(* A process keeps its place on the list and its flag, or gets neither.    *)
LEMMA AppOne ==
    ASSUME AppInv, NEW p \in Pids, UNCHANGED launched,
           \A q \in Pids \ {p} : /\ InList(process_list, q)' => InList(process_list, q)
                                 /\ info'[q] = info[q],
           \/ AppOK(p)'
           \/ /\ InList(process_list, p)' => InList(process_list, p)
              /\ "Application" \in info'[p].flags => "Application" \in info[p].flags
    PROVE  AppInv'
<1> SUFFICES ASSUME NEW q \in Pids PROVE AppOK(q)'
  BY DEF AppInv
<1>1. AppOK(q) /\ AppOK(p)
  BY DEF AppInv
<1> QED BY <1>1 DEF AppOK

LEMMA AppFrame ==
    ASSUME AppInv, UNCHANGED <<process_list, info, launched>>
    PROVE  AppInv'
BY DEF AppInv, AppOK, InList

LEMMA AppStep ==
    ASSUME PmAssumption, KernelAssumption, PmInv, AppInv, [Next]_vars
    PROVE  AppInv'
<1>1. /\ Core /\ Hand /\ TrackOK /\ NoInfo.flags = {}
      /\ info \in [Pids -> [state : KernelStates \cup {"none"}, flags : SUBSET Flags,
                            handle : BOOLEAN]]
      /\ launched \in [Pids -> LaunchArgs \cup {NoLaunch}]
  BY NoInfoIs DEF PmInv, Hand, Core, Shape
<1>2. CASE OtherStep
  <2>1. UNCHANGED <<process_list, info>>
    BY <1>1, <1>2, OtherStepKeeps DEF coreVars
  <2>2. UNCHANGED launched
    BY <1>2 DEF OtherStep, LaunchProgram, HookToCreateProcess, ReturnFromLaunch, ClientWakes,
                HookToCreateApplicationProcess, ClearHook, TakeHookEvent, CloseHandle,
                AtmosphereGetProcessInfo, vars, kernelVars
  <2> QED BY <2>1, <2>2, AppFrame
<1>3. CASE BeginLaunch \/ \E p \in Pids : CreateFails(p) \/ Wake(p) \/ ResetSignal(p)
                                            \/ KernelStep(p) \/ TerminateProcess(p)
  BY <1>3, AppFrame DEF BeginLaunch, CreateFails, Wake, ResetSignal, KernelStep, TerminateProcess,
                        lists, kernelVars
<1>4. CASE GetProcessEventInfo
  <2>1. UNCHANGED <<process_list, launched>>
    BY <1>4 DEF GetProcessEventInfo, kernelVars
  <2>2. CASE UNCHANGED info
    BY <2>1, <2>2, AppFrame
  <2>3. ASSUME NEW p \in Pids, info' = [info EXCEPT ![p].flags = @ \ {ClearedFlag(p)}]
        PROVE  AppInv'
    <3>1. /\ info'[p].flags \in SUBSET info[p].flags
          /\ \A q \in Pids \ {p} : info'[q] = info[q]
      BY <1>1, <2>3
    <3> QED BY <2>1, <3>1, AppOne, SameList
  <2> QED BY <1>4, <2>2, <2>3 DEF GetProcessEventInfo
<1>5. CASE GetDeadProcessEventInfo
  <2>1. UNCHANGED <<process_list, launched>>
    BY <1>5 DEF GetDeadProcessEventInfo, kernelVars
  <2>2. CASE UNCHANGED info
    BY <2>1, <2>2, AppFrame
  <2>3. CASE dead_process_list # <<>> /\ info' = [info EXCEPT ![Head(dead_process_list)] = NoInfo]
    <3>1. Head(dead_process_list) \in Pids
      BY <1>1, <2>3, TailLists DEF Core, Shape
    <3> SUFFICES ASSUME NEW p \in Pids, info' = [info EXCEPT ![p] = NoInfo]
                 PROVE  AppInv'
      BY <2>3, <3>1
    <3>2. info'[p].flags = {} /\ \A q \in Pids \ {p} : info'[q] = info[q]
      BY <1>1
    <3> QED BY <2>1, <3>2, AppOne, SameList
  <2> QED BY <1>5, <2>2, <2>3 DEF GetDeadProcessEventInfo, CleanupFirstDead
<1>6. ASSUME NEW p \in Pids, CreateProcess(p) PROVE AppInv'
  <2>1. ~InList(process_list, p)
    BY <1>1, <1>6 DEF CreateProcess, TrackOK, Tracks, Core, ProcessesOK, ListedOK, NextUnused,
                      KernelStates
  <2>2. \A q \in Pids \ {p} : launched'[q] = launched[q]
    BY <1>1, <1>6 DEF CreateProcess
  <2>3. CASE UNCHANGED <<process_list, info>>
    <3> SUFFICES ASSUME NEW q \in Pids PROVE AppOK(q)'
      BY DEF AppInv
    <3>1. AppOK(q)
      BY DEF AppInv
    <3> QED BY <2>1, <2>2, <2>3, <3>1, SameList DEF AppOK
  <2>4. CASE /\ process_list' = Append(process_list, p)
             /\ info' = [info EXCEPT ![p] = [state |-> "Created", flags |-> {}, handle |-> TRUE]]
    <3> SUFFICES ASSUME NEW q \in Pids PROVE AppOK(q)'
      BY DEF AppInv
    <3>1. AppOK(q)
      BY DEF AppInv
    <3>2. info'[p].flags = {} /\ \A r \in Pids \ {p} : info'[r] = info[r]
      BY <1>1, <2>4
    <3>3. InList(process_list, q)' <=> InList(process_list, q) \/ q = p
      BY <1>1, <2>1, <2>4, Appended
    <3> QED BY <2>1, <2>2, <3>1, <3>2, <3>3 DEF AppOK
  <2> QED BY <1>6, <2>3, <2>4 DEF CreateProcess
<1>7. ASSUME NEW p \in Pids, EndLaunch(p) PROVE AppInv'
  <2>1. InList(process_list, p) /\ launched[p] = launch_args /\ UNCHANGED launched
    BY <1>1, <1>7 DEF EndLaunch, TrackOK, Tracks, Hand
  <2>2. \A q \in Pids \ {p} : info'[q] = info[q]
    BY <1>1, <1>7 DEF EndLaunch
  <2>3. \A q \in Pids : InList(process_list, q)' => InList(process_list, q)
    <3>1. CASE UNCHANGED process_list
      BY <3>1, SameList
    <3>2. CASE process_list' = Remove(process_list, p)
      BY <1>1, <2>1, <3>2, Removed
    <3> QED BY <1>7, <3>1, <3>2 DEF EndLaunch
  <2>4. info'[p].flags \in {{}, launch_args.flags}
    BY <1>1, <1>7 DEF EndLaunch
  <2>5. AppOK(p)'
    BY <2>1, <2>4 DEF AppOK
  <2> QED BY <2>1, <2>2, <2>3, <2>5, AppOne
<1>8. ASSUME NEW p \in Pids, ReadState(p) \/ StartProcess(p) \/ ClearExceptionOccurred(p)
      PROVE  AppInv'
  <2>1. /\ info'[p].flags \in SUBSET info[p].flags
        /\ \A q \in Pids \ {p} : info'[q] = info[q]
    BY <1>1, <1>8 DEF ReadState, StartProcess, ClearExceptionOccurred
  <2>2. UNCHANGED <<process_list, launched>>
    BY <1>8 DEF ReadState, StartProcess, ClearExceptionOccurred, kernelVars
  <2> QED BY <2>1, <2>2, AppOne, SameList
<1>9. ASSUME NEW p \in Pids, OnProcessSignaled(p) PROVE AppInv'
  <2>1. InList(process_list, p) /\ UNCHANGED launched
    BY <1>1, <1>9, SignaledIs DEF OnProcessSignaled, ActOnState, kernelVars
  <2>2. \A q \in Pids \ {p} : info'[q] = info[q]
    BY <1>1, <1>9 DEF OnProcessSignaled, ActOnState, OnTerminated
  <2>3. \A q \in Pids : InList(process_list, q)' => InList(process_list, q)
    <3>1. CASE UNCHANGED process_list
      BY <3>1, SameList
    <3>2. CASE process_list' = Remove(process_list, p)
      BY <1>1, <2>1, <3>2, Removed
    <3> QED BY <1>9, <3>1, <3>2 DEF OnProcessSignaled, ActOnState, OnTerminated
  <2>4. "Application" \in info'[p].flags => "Application" \in info[p].flags
    <3>1. CASE info' = [info EXCEPT ![p].flags = UpdatedFlags(@, info[p].state)]
      <4>1. info'[p].flags = UpdatedFlags(info[p].flags, info[p].state)
            /\ info[p].flags \in SUBSET Flags
        BY <1>1, <3>1
      <4> QED BY <4>1, UpdatedFlagsAre
    <3>2. CASE info' = [info EXCEPT ![p].handle = FALSE] \/ info' = [info EXCEPT ![p] = NoInfo]
      BY <1>1, <3>2
    <3> QED BY <1>9, <3>1, <3>2 DEF OnProcessSignaled, ActOnState, OnTerminated
  <2> QED BY <2>1, <2>2, <2>3, <2>4, AppOne
<1>10. ASSUME NEW p \in Pids, CleanupProcess(p) PROVE AppInv'
  <2>1. /\ InList(process_list, p) /\ process_list' = Remove(process_list, p)
        /\ info' = [info EXCEPT ![p] = NoInfo] /\ UNCHANGED launched
    BY <1>10 DEF CleanupProcess, MayCleanup, Finds, kernelVars
  <2>2. \A q : InList(process_list, q)' <=> InList(process_list, q) /\ q # p
    BY <1>1, <2>1, Removed
  <2>3. info'[p].flags = {} /\ \A q \in Pids \ {p} : info'[q] = info[q]
    BY <1>1, <2>1
  <2> QED BY <2>1, <2>2, <2>3, AppOne
<1> QED BY <1>2, <1>3, <1>4, <1>5, <1>6, <1>7, <1>8, <1>9, <1>10, Steps

(* To its clients q looks as before.                                       *)
SameToClients(q) ==
    /\ Live(q)' <=> Live(q)
    /\ InList(dead_process_list, q)' <=> InList(dead_process_list, q)
    /\ Live(q) \/ (kernel_state'[q] = "Terminated" <=> kernel_state[q] = "Terminated")
    /\ Live(q) => ("Application" \in info'[q].flags <=> "Application" \in info[q].flags)

LEMMA SameStatus ==
    ASSUME NEW q \in Pids, SameToClients(q)
    PROVE  /\ RegistryStatus'[q] = RegistryStatus[q]
           /\ q \in LiveApplications' <=> q \in LiveApplications
<1>1. RegistryStatus'[q] = RegistryStatus[q]
  BY DEF SameToClients, RegistryStatus, Dead
<1>2. q \in LiveApplications' <=> q \in LiveApplications
  BY DEF SameToClients, LiveApplications, Has
<1> QED BY <1>1, <1>2

LEMMA NobodyChanges ==
    ASSUME \A q \in Pids : SameToClients(q), UNCHANGED dead_process_list
    PROVE  UNCHANGED <<RegistryStatus, RegistryApplication, dead_process_list>>
<1>1. RegistryStatus' = RegistryStatus
  <2>1. \A q \in Pids : RegistryStatus'[q] = RegistryStatus[q]
    BY SameStatus
  <2>2. RegistryStatus = [q \in Pids |-> RegistryStatus[q]]
    BY DEF RegistryStatus
  <2>3. RegistryStatus' = [q \in Pids |-> RegistryStatus'[q]]
    BY DEF RegistryStatus
  <2> QED BY <2>1, <2>2, <2>3
<1>2. LiveApplications' = LiveApplications
  <2>1. \A q \in Pids : q \in LiveApplications' <=> q \in LiveApplications
    BY SameStatus
  <2> QED BY <2>1 DEF LiveApplications
<1>3. RegistryApplication' = RegistryApplication
  BY <1>2 DEF RegistryApplication
<1> QED BY <1>1, <1>3

LEMMA OneChanges ==
    ASSUME NEW p \in Pids, \A q \in Pids \ {p} : SameToClients(q)
    PROVE  /\ RegistryStatus' = [RegistryStatus EXCEPT ![p] = RegistryStatus'[p]]
           /\ \A q \in Pids \ {p} : q \in LiveApplications' <=> q \in LiveApplications
<1>1. \A q \in Pids \ {p} : /\ RegistryStatus'[q] = RegistryStatus[q]
                            /\ q \in LiveApplications' <=> q \in LiveApplications
  BY SameStatus
<1>2. RegistryStatus = [q \in Pids |-> RegistryStatus[q]]
  BY DEF RegistryStatus
<1>3. RegistryStatus' = [q \in Pids |-> RegistryStatus'[q]]
  BY DEF RegistryStatus
<1> QED BY <1>1, <1>2, <1>3

(* The application, when there is at most one.                             *)
LEMMA ApplicationIs ==
    ASSUME NEW S, NEW a, a = (IF S = {} THEN 0 ELSE CHOOSE p \in S : TRUE),
           \A p, q \in S : p = q
    PROVE  (S = {} => a = 0) /\ \A p \in S : a = p
OBVIOUS

LEMMA LiveApplicationsUse ==
    ASSUME PmInv, AppInv, NEW p \in LiveApplications
    PROVE  p \in Pids /\ UsesApplicationResources(p)
<1>1. p \in Pids /\ InList(process_list, p) /\ info[p].handle /\ "Application" \in info[p].flags
  BY DEF LiveApplications, Live, Listed, Has
<1>2. kernel_state[p] \in KernelStates /\ "Application" \in launched[p].flags
  BY <1>1 DEF PmInv, Core, ProcessesOK, ListedOK, AppInv, AppOK
<1>3. kernel_state[p] \notin {"none", "gone"}
  BY <1>2 DEF KernelStates
<1> QED BY <1>1, <1>2, <1>3 DEF UsesApplicationResources

LEMMA LiveApplicationIsOne ==
    ASSUME PmInv, AppInv, OneApplication
    PROVE  \A p, q \in LiveApplications : p = q
BY LiveApplicationsUse DEF OneApplication

(* The steps of the registry.                                              *)
LEMMA LaunchOfRegistry ==
    ASSUME PmInv, AppInv, OneApplication, NEW p \in Pids,
           \A q \in Pids \ {p} : SameToClients(q), UNCHANGED dead_process_list,
           RegistryStatus[p] = "none", Live(p)',
           p \in LiveApplications' => UsesApplicationResources(p)
    PROVE  Registry!Launch(p)
<1>1. RegistryStatus'[p] = "live"
  BY DEF RegistryStatus
<1>2. RegistryStatus' = [RegistryStatus EXCEPT ![p] = "live"]
  BY <1>1, OneChanges
<1>3. \A q \in Pids \ {p} : q \in LiveApplications' <=> q \in LiveApplications
  BY OneChanges
<1>4. p \notin LiveApplications
  BY DEF RegistryStatus, LiveApplications
<1>5. LiveApplications \in SUBSET Pids /\ LiveApplications' \in SUBSET Pids
  BY DEF LiveApplications
<1>6. CASE p \notin LiveApplications'
  <2>1. LiveApplications' = LiveApplications
    BY <1>3, <1>4, <1>5, <1>6
  <2>2. RegistryApplication' = RegistryApplication
    BY <2>1 DEF RegistryApplication
  <2> QED BY <1>2, <2>2 DEF Registry!Launch
<1>7. CASE p \in LiveApplications'
  <2>1. LiveApplications = {}
    BY <1>4, <1>7, LiveApplicationsUse DEF OneApplication
  <2>2. LiveApplications' = {p}
    BY <1>3, <1>5, <1>7, <2>1
  <2>3. RegistryApplication = 0 /\ RegistryApplication' = p
    BY <2>1, <2>2 DEF RegistryApplication
  <2> QED BY <1>2, <2>3 DEF Registry!Launch
<1> QED BY <1>6, <1>7

LEMMA ExitOfRegistry ==
    ASSUME PmAssumption, PmInv, AppInv, OneApplication, NEW p \in Pids,
           \A q \in Pids \ {p} : SameToClients(q), Live(p), ~Live(p)',
           \/ RegistryStatus'[p] = "gone" /\ UNCHANGED dead_process_list
           \/ /\ RegistryStatus'[p] = "exited"
              /\ dead_process_list' = Append(dead_process_list, p)
    PROVE  Registry!Exit(p)
<1>1. RegistryStatus[p] = "live"
  BY DEF RegistryStatus
<1>2. RegistryStatus' = [RegistryStatus EXCEPT ![p] = RegistryStatus'[p]]
  BY OneChanges
<1>3. \A q \in Pids : q \in LiveApplications' <=> q \in LiveApplications /\ q # p
  BY OneChanges DEF LiveApplications
<1>4. LiveApplications \in SUBSET Pids /\ LiveApplications' \in SUBSET Pids
  BY DEF LiveApplications
<1>5. \A q, r \in LiveApplications : q = r
  BY LiveApplicationIsOne
<1>6. /\ LiveApplications = {} => RegistryApplication = 0
      /\ \A q \in LiveApplications : RegistryApplication = q
  BY <1>5, ApplicationIs DEF RegistryApplication
<1>7. RegistryApplication' = IF RegistryApplication = p THEN 0 ELSE RegistryApplication
  <2>1. CASE p \in LiveApplications
    <3>1. LiveApplications' = {}
      BY <1>3, <1>4, <1>5, <2>1
    <3> QED BY <1>6, <2>1, <3>1 DEF RegistryApplication
  <2>2. CASE p \notin LiveApplications
    <3>1. LiveApplications' = LiveApplications
      BY <1>3, <1>4, <2>2
    <3>2. RegistryApplication' = RegistryApplication
      BY <3>1 DEF RegistryApplication
    <3>3. RegistryApplication # p
      BY <1>6, <2>2 DEF Pids, PmAssumption
    <3> QED BY <3>2, <3>3
  <2> QED BY <2>1, <2>2
<1> QED BY <1>1, <1>2, <1>7 DEF Registry!Exit

LEMMA ReportOfRegistry ==
    ASSUME PmInv, dead_process_list # <<>>, dead_process_list' = Tail(dead_process_list),
           NEW p \in Pids, p = Head(dead_process_list),
           \A q \in Pids \ {p} : SameToClients(q), ~Live(p), ~Live(p)', RegistryStatus'[p] = "gone"
    PROVE  Registry!Report
<1>1. RegistryStatus' = [RegistryStatus EXCEPT ![p] = "gone"]
  BY OneChanges
<1>2. LiveApplications' = LiveApplications
  BY OneChanges DEF LiveApplications
<1>3. RegistryApplication' = RegistryApplication
  BY <1>2 DEF RegistryApplication
<1> QED BY <1>1, <1>3 DEF Registry!Report

LEMMA ClientsFrame ==
    ASSUME UNCHANGED <<process_list, dead_process_list, track>>, NEW q \in Pids,
           info'[q].handle = info[q].handle,
           "Application" \in info'[q].flags <=> "Application" \in info[q].flags,
           Live(q) \/ (kernel_state'[q] = "Terminated" <=> kernel_state[q] = "Terminated")
    PROVE  SameToClients(q)
BY DEF SameToClients, Live, Listed, InList, Tracks

(* The tracking thread moves on; no launch ends.                           *)
LEMMA ClientsMove ==
    ASSUME UNCHANGED <<process_list, dead_process_list, info, kernel_state>>, NEW q \in Pids,
           ~Tracks("registered", q), ~Tracks("registered", q)'
    PROVE  SameToClients(q)
BY DEF SameToClients, Live, Listed, InList

LEMMA LiveWhenListed ==
    ASSUME PmInv, Version5, NEW q \in Pids, InList(process_list, q)
    PROVE  info[q].handle /\ (Live(q) <=> ~Tracks("registered", q))
BY DEF PmInv, Core, ProcessesOK, ListedOK, Live, Listed

RegistryStep ==
    \/ UNCHANGED <<RegistryStatus, RegistryApplication, dead_process_list>>
    \/ Registry!Next

LEMMA RegistrySteps ==
    ASSUME PmAssumption, KernelAssumption, Version5, PmInv, AppInv, OneApplication, [Next]_vars
    PROVE  RegistryStep
<1>1. /\ Core /\ Hand /\ TrackOK /\ NoInfo.flags = {} /\ ~NoInfo.handle
      /\ info \in [Pids -> [state : KernelStates \cup {"none"}, flags : SUBSET Flags,
                            handle : BOOLEAN]]
      /\ kernel_state \in [Pids -> KernelStates \cup {"none", "gone"}]
      /\ \A q \in Pids : IF InList(process_list, q) THEN ListedOK(q) ELSE UnlistedOK(q)
  BY NoInfoIs DEF PmInv, Core, Shape, ProcessesOK
<1>2. ASSUME \A q \in Pids : SameToClients(q), UNCHANGED dead_process_list
      PROVE  RegistryStep
  BY <1>2, NobodyChanges DEF RegistryStep
<1>3. CASE OtherStep
  <2>1. UNCHANGED coreVars
    BY <1>1, <1>3, OtherStepKeeps
  <2>2. \A q \in Pids : SameToClients(q)
    BY <2>1, ClientsFrame DEF coreVars
  <2> QED BY <1>2, <2>1, <2>2 DEF coreVars
<1>4. CASE BeginLaunch \/ \E p \in Pids : CreateFails(p) \/ Wake(p) \/ ResetSignal(p)
  <2>1. /\ UNCHANGED <<process_list, dead_process_list, info, kernel_state>>
        /\ \A q \in Pids : ~Tracks("registered", q) /\ ~Tracks("registered", q)'
    BY <1>4 DEF BeginLaunch, CreateFails, Wake, ResetSignal, FinishLaunch, Tracks, Idle, lists,
                kernelVars
  <2>2. \A q \in Pids : SameToClients(q)
    BY <2>1, ClientsMove
  <2> QED BY <1>2, <2>1, <2>2
<1>5. CASE GetProcessEventInfo
  <2>1. UNCHANGED <<process_list, dead_process_list, kernel_state, track>>
    BY <1>5 DEF GetProcessEventInfo, kernelVars
  <2>2. CASE UNCHANGED info
    BY <1>2, <2>1, <2>2, ClientsFrame
  <2>3. ASSUME NEW p \in Pids, info' = [info EXCEPT ![p].flags = @ \ {ClearedFlag(p)}]
        PROVE  RegistryStep
    <3>1. ClearedFlag(p) # "Application"
      BY DEF ClearedFlag
    <3>2. \A q \in Pids : /\ info'[q].handle = info[q].handle
                          /\ "Application" \in info'[q].flags <=> "Application" \in info[q].flags
      BY <1>1, <2>3, <3>1
    <3> QED BY <1>2, <2>1, <3>2, ClientsFrame
  <2> QED BY <1>5, <2>2, <2>3 DEF GetProcessEventInfo
<1>6. CASE GetDeadProcessEventInfo
  <2>1. UNCHANGED <<process_list, kernel_state, track>>
    BY <1>6 DEF GetDeadProcessEventInfo, kernelVars
  <2>2. CASE UNCHANGED <<dead_process_list, info>>
    BY <1>2, <2>1, <2>2, ClientsFrame
  <2>3. CASE dead_process_list # <<>> /\ CleanupFirstDead
    <3>1. Head(dead_process_list) \in Pids
      BY <1>1, <2>3, TailLists DEF Core, Shape
    <3> SUFFICES ASSUME NEW p \in Pids, p = Head(dead_process_list),
                        info' = [info EXCEPT ![p] = NoInfo]
                 PROVE  Registry!Report
      BY <2>3, <3>1 DEF CleanupFirstDead, RegistryStep, Registry!Next
    <3>2. /\ dead_process_list' = Tail(dead_process_list)
          /\ \A q \in Pids \ {p} : info'[q] = info[q]
      BY <1>1, <2>3 DEF CleanupFirstDead
    <3> DEFINE rest == Tail(dead_process_list)
    <3>3. /\ InList(dead_process_list, p)
          /\ \A q : InList(rest, q) <=> InList(dead_process_list, q) /\ q # p
      BY <1>1, <2>3, TailLists DEF Core, Shape
    <3>4. dead_process_list' = rest
      BY <3>2
    <3> HIDE DEF rest
    <3>5. \A q : InList(dead_process_list, q)' <=> InList(dead_process_list, q) /\ q # p
      BY <3>3, <3>4 DEF InList
    <3>6. ~InList(process_list, p)
      BY <1>1, <3>3 DEF Core, Shape
    <3>7. \A q \in Pids \ {p} : SameToClients(q)
      BY <2>1, <3>2, <3>5 DEF SameToClients, Live, Listed, InList, Tracks
    <3>8. ~Live(p) /\ ~Live(p)'
      BY <2>1, <3>6, SameList DEF Live, Listed
    <3>9. kernel_state'[p] = "Terminated"
      BY <1>1, <2>1, <3>3, <3>6 DEF UnlistedOK
    <3>10. RegistryStatus'[p] = "gone"
      BY <3>5, <3>8, <3>9 DEF RegistryStatus, Dead
    <3> QED BY <2>3, <3>2, <3>7, <3>8, <3>10, ReportOfRegistry
  <2> QED BY <1>6, <2>2, <2>3 DEF GetDeadProcessEventInfo
<1>7. ASSUME NEW p \in Pids, CreateProcess(p) PROVE RegistryStep
  <2>1. /\ ~InList(process_list, p) /\ track.at = "wait_resource" /\ UNCHANGED dead_process_list
        /\ kernel_state[p] = "none" /\ ~InList(dead_process_list, p)
    BY <1>1, <1>7 DEF CreateProcess, TrackOK, Tracks, ListedOK, UnlistedOK, NextUnused,
                      KernelStates
  <2>2. kernel_state'[p] # "Terminated" /\ \A q \in Pids \ {p} : kernel_state'[q] = kernel_state[q]
    BY <1>1, <1>7 DEF CreateProcess
  <2>3. CASE UNCHANGED <<process_list, info>> /\ track' \in {track, Idle}
    <3>1. \A q \in Pids : ~Tracks("registered", q) /\ ~Tracks("registered", q)'
      BY <2>1, <2>3 DEF Tracks, Idle
    <3>2. \A q \in Pids : SameToClients(q)
      BY <2>1, <2>2, <2>3, <3>1 DEF SameToClients, Live, Listed, InList
    <3> QED BY <1>2, <2>1, <3>2
  <2>4. CASE /\ process_list' = Append(process_list, p)
             /\ info' = [info EXCEPT ![p] = [state |-> "Created", flags |-> {}, handle |-> TRUE]]
             /\ track' = [at |-> "registered", process |-> p]
    <3>1. \A q : InList(process_list, q)' <=> InList(process_list, q) \/ q = p
      BY <1>1, <2>1, <2>4, Appended
    <3>2. \A q \in Pids \ {p} : info'[q] = info[q]
      BY <1>1, <2>4
    <3>3. /\ \A q \in Pids : ~Tracks("registered", q)
          /\ \A q \in Pids : Tracks("registered", q)' <=> q = p
      BY <2>1, <2>4 DEF Tracks
    <3>4. \A q : InList(dead_process_list, q)' <=> InList(dead_process_list, q)
      BY <2>1 DEF InList
    <3>5. \A q \in Pids \ {p} : SameToClients(q)
      BY <2>2, <3>1, <3>2, <3>3, <3>4 DEF SameToClients, Live, Listed
    <3>6. SameToClients(p)
      BY <2>1, <2>2, <3>3, <3>4 DEF SameToClients, Live, Listed
    <3> QED BY <1>2, <2>1, <3>5, <3>6
  <2> QED BY <1>7, <2>3, <2>4 DEF CreateProcess, FinishLaunch
<1>8. ASSUME NEW p \in Pids, EndLaunch(p) PROVE RegistryStep
  <2>1. /\ InList(process_list, p) /\ track = [at |-> "registered", process |-> p] /\ track' = Idle
        /\ kernel_state[p] \in {"Created", "CreatedAttached"}
        /\ launched[p] = launch_args /\ info[p].handle
        /\ UNCHANGED dead_process_list
    BY <1>1, <1>8 DEF EndLaunch, TrackOK, Tracks, Hand, FinishLaunch
  <2>2. /\ Tracks("registered", p)
        /\ \A q \in Pids \ {p} : ~Tracks("registered", q)
        /\ \A q \in Pids : ~Tracks("registered", q)'
    BY <2>1 DEF Tracks, Idle
  <2>3. /\ \A q \in Pids \ {p} : info'[q] = info[q] /\ kernel_state'[q] = kernel_state[q]
    BY <1>1, <1>8 DEF EndLaunch, SetKernelState
  <2>4. \A q : InList(dead_process_list, q)' <=> InList(dead_process_list, q)
    BY <2>1 DEF InList
  <2>5. ~InList(dead_process_list, p) /\ ~Live(p)
    BY <1>1, <2>1, <2>2 DEF Core, Shape, Live
  <2>6. CASE UNCHANGED process_list
    <3>1. \A q : InList(process_list, q)' <=> InList(process_list, q)
      BY <2>6, SameList
    <3>2. \A q \in Pids \ {p} : SameToClients(q)
      BY <2>2, <2>3, <2>4, <3>1 DEF SameToClients, Live, Listed
    <3>3. RegistryStatus[p] = "none"
      BY <2>1, <2>5 DEF RegistryStatus, Dead
    <3>4. info'[p].handle /\ info'[p].flags = launch_args.flags
      <4>1. CASE info' = [info EXCEPT ![p].flags = launch_args.flags]
        BY <1>1, <2>1, <4>1
      <4>2. CASE info' = [info EXCEPT ![p].flags = launch_args.flags, ![p].state = "Running"]
        BY <1>1, <2>1, <4>2
      <4>3. CASE process_list' = Remove(process_list, p)
        BY <1>1, <2>1, <3>1, <4>3, Removed
      <4> QED BY <1>8, <4>1, <4>2, <4>3 DEF EndLaunch
    <3>5. Live(p)'
      BY <2>1, <2>2, <3>1, <3>4 DEF Live, Listed
    <3>6. p \in LiveApplications' => UsesApplicationResources(p)
      BY <2>1, <3>4 DEF LiveApplications, Has, UsesApplicationResources
    <3>7. Registry!Launch(p)
      BY <2>1, <3>2, <3>3, <3>5, <3>6, LaunchOfRegistry
    <3> QED BY <3>7 DEF RegistryStep, Registry!Next
  <2>7. CASE process_list' = Remove(process_list, p) /\ kernel_state' = [kernel_state EXCEPT ![p] = "gone"]
    <3>1. \A q : InList(process_list, q)' <=> InList(process_list, q) /\ q # p
      BY <1>1, <2>1, <2>7, Removed
    <3>2. \A q \in Pids \ {p} : SameToClients(q)
      BY <2>2, <2>3, <2>4, <3>1 DEF SameToClients, Live, Listed
    <3>3. kernel_state'[p] # "Terminated" /\ kernel_state[p] # "Terminated"
      BY <1>1, <2>1, <2>7
    <3>4. SameToClients(p)
      BY <2>4, <2>5, <3>1, <3>3 DEF SameToClients, Live, Listed
    <3> QED BY <1>2, <2>1, <3>2, <3>4
  <2> QED BY <1>8, <2>6, <2>7 DEF EndLaunch
<1>9. ASSUME NEW p \in Pids, ReadState(p) PROVE RegistryStep
  <2>1. /\ \A q \in Pids : ~Tracks("registered", q) /\ ~Tracks("registered", q)'
        /\ UNCHANGED <<process_list, dead_process_list, kernel_state>>
    BY <1>9 DEF ReadState, Tracks, kernelVars
  <2>2. \A q \in Pids : /\ info'[q].handle = info[q].handle
                        /\ "Application" \in info'[q].flags <=> "Application" \in info[q].flags
    BY <1>1, <1>9 DEF ReadState
  <2>3. \A q \in Pids : SameToClients(q)
    BY <2>1, <2>2 DEF SameToClients, Live, Listed, InList
  <2> QED BY <1>2, <2>1, <2>3
<1>10. ASSUME NEW p \in Pids, OnProcessSignaled(p) PROVE RegistryStep
  <2>1. /\ track.at = "signaled" /\ track.process = p /\ InList(process_list, p)
        /\ track' = Idle /\ UNCHANGED kernel_state /\ ListedOK(p) /\ info[p].handle
    BY <1>1, <1>10, SignaledIs DEF OnProcessSignaled, ActOnState, kernelVars
  <2>2. \A q \in Pids : ~Tracks("registered", q) /\ ~Tracks("registered", q)'
    BY <2>1 DEF Tracks, Idle
  <2>3. CASE info[p].state # "Terminated"
    <3>1. /\ info' = [info EXCEPT ![p].flags = UpdatedFlags(@, info[p].state)]
          /\ UNCHANGED <<process_list, dead_process_list>>
      BY <1>10, <2>3 DEF OnProcessSignaled, ActOnState
    <3>2. "Application" \in UpdatedFlags(info[p].flags, info[p].state)
            <=> "Application" \in info[p].flags
      BY DEF UpdatedFlags
    <3>3. \A q \in Pids : /\ info'[q].handle = info[q].handle
                          /\ "Application" \in info'[q].flags <=> "Application" \in info[q].flags
      BY <1>1, <3>1, <3>2
    <3>4. \A q \in Pids : SameToClients(q)
      BY <2>1, <2>2, <3>1, <3>3 DEF SameToClients, Live, Listed, InList
    <3> QED BY <1>2, <3>1, <3>4
  <2>4. CASE info[p].state = "Terminated"
    <3>1. OnTerminated(p) /\ kernel_state'[p] = "Terminated"
      BY <1>10, <2>1, <2>4 DEF OnProcessSignaled, ActOnState, ListedOK
    <3>2. \A q \in Pids \ {p} : info'[q] = info[q]
      BY <1>1, <3>1 DEF OnTerminated
    <3>3. process_list' = Remove(process_list, p)
      BY <3>1 DEF OnTerminated
    <3>4. \A q : InList(process_list, q)' <=> InList(process_list, q) /\ q # p
      BY <1>1, <2>1, <3>3, Removed
    <3>5. Live(p) /\ ~Live(p)'
      BY <2>1, <2>2, <3>4 DEF Live, Listed
    <3>6. ~InList(dead_process_list, p)
      BY <1>1, <2>1 DEF Core, Shape
    <3>7. CASE Has(p, "SignalOnExit")
      <4> DEFINE dead == Append(dead_process_list, p)
      <4>1. \A q : InList(dead, q) <=> InList(dead_process_list, q) \/ q = p
        BY <1>1, <3>6, AppendLists DEF Core, Shape
      <4>2. dead_process_list' = dead
        BY <3>1, <3>7 DEF OnTerminated, AddToDeadList
      <4>3. \A q : InList(dead_process_list, q)' <=> InList(dead_process_list, q) \/ q = p
        <5> HIDE DEF dead
        <5> QED BY <4>1, <4>2 DEF InList
      <4>4. \A q \in Pids \ {p} : SameToClients(q)
        BY <2>1, <2>2, <3>2, <3>4, <4>3 DEF SameToClients, Live, Listed
      <4>5. RegistryStatus'[p] = "exited"
        BY <3>5, <4>3 DEF RegistryStatus, Dead
      <4>6. Registry!Exit(p)
        BY <3>5, <4>2, <4>4, <4>5, ExitOfRegistry
      <4> QED BY <4>6 DEF RegistryStep, Registry!Next
    <3>8. CASE ~Has(p, "SignalOnExit")
      <4>1. UNCHANGED dead_process_list
        BY <3>1, <3>8 DEF OnTerminated
      <4>2. \A q : InList(dead_process_list, q)' <=> InList(dead_process_list, q)
        BY <4>1 DEF InList
      <4>3. \A q \in Pids \ {p} : SameToClients(q)
        BY <2>1, <2>2, <3>2, <3>4, <4>2 DEF SameToClients, Live, Listed
      <4>4. RegistryStatus'[p] = "gone"
        BY <3>1, <3>5, <3>6, <4>2 DEF RegistryStatus, Dead
      <4>5. Registry!Exit(p)
        BY <3>5, <4>1, <4>3, <4>4, ExitOfRegistry
      <4> QED BY <4>5 DEF RegistryStep, Registry!Next
    <3> QED BY <3>7, <3>8
  <2> QED BY <2>3, <2>4
<1>11. ASSUME NEW p \in Pids, KernelStep(p) PROVE RegistryStep
  <2>1. PICK s \in KernelStates : /\ <<kernel_state[p], s>> \in Transitions
                                  /\ kernel_state' = [kernel_state EXCEPT ![p] = s]
    BY <1>11 DEF KernelStep, SetKernelState
  <2>2. /\ HasStarted(kernel_state[p]) <=> HasStarted(s)
        /\ kernel_state[p] # "Terminated" /\ kernel_state[p] \in KernelStates
    BY <2>1 DEF KernelAssumption, PmAssumption
  <2>3. UNCHANGED <<process_list, dead_process_list, info, track>>
    BY <1>11 DEF KernelStep, lists
  <2>4. Live(p) \/ ~HasStarted(kernel_state[p])
    <3>1. CASE InList(process_list, p)
      BY <1>1, <3>1, LiveWhenListed DEF TrackOK, Tracks, HasStarted
    <3>2. CASE ~InList(process_list, p)
      BY <1>1, <2>2, <3>2 DEF UnlistedOK, HasStarted, KernelStates
    <3> QED BY <3>1, <3>2
  <2>5. \A q \in Pids :
            Live(q) \/ (kernel_state'[q] = "Terminated" <=> kernel_state[q] = "Terminated")
    BY <1>1, <2>1, <2>2, <2>4 DEF HasStarted
  <2> QED BY <1>2, <2>3, <2>5, ClientsFrame
<1>12. ASSUME NEW p \in Pids, TerminateProcess(p) \/ StartProcess(p) PROVE RegistryStep
  <2>1. /\ UNCHANGED <<process_list, dead_process_list, track>>
        /\ InList(process_list, p) /\ ipc = "idle"
    BY <1>12 DEF TerminateProcess, StartProcess, Finds, Serving, lists
  <2>2. Live(p)
    BY <1>1, <2>1, LiveWhenListed DEF Hand, Launching, Tracks
  <2>3. \A q \in Pids \ {p} : kernel_state'[q] = kernel_state[q]
    BY <1>1, <1>12 DEF TerminateProcess, StartProcess, SetKernelState
  <2>4. \A q \in Pids : info'[q].handle = info[q].handle /\ info'[q].flags = info[q].flags
    BY <1>1, <1>12 DEF TerminateProcess, StartProcess, lists
  <2> QED BY <1>2, <2>1, <2>2, <2>3, <2>4, ClientsFrame
<1>13. ASSUME NEW p \in Pids, ClearExceptionOccurred(p) PROVE RegistryStep
  <2>1. UNCHANGED <<process_list, dead_process_list, track, kernel_state>>
    BY <1>13 DEF ClearExceptionOccurred, kernelVars
  <2>2. \A q \in Pids : /\ info'[q].handle = info[q].handle
                        /\ "Application" \in info'[q].flags <=> "Application" \in info[q].flags
    BY <1>1, <1>13 DEF ClearExceptionOccurred
  <2> QED BY <1>2, <2>1, <2>2, ClientsFrame
(* From 5.0.0 on a process that pm knows to have terminated is not on the  *)
(* list while a request can find it.                                       *)
<1>14. ASSUME NEW p \in Pids, CleanupProcess(p) PROVE RegistryStep
  <2>1. InList(process_list, p) /\ info[p].state = "Terminated" /\ track.at # "signaled"
    BY <1>14 DEF CleanupProcess, MayCleanup, Finds, ListLocked
  <2>2. info[p].handle
    BY <2>1, LiveWhenListed
  <2>3. Tracks("signaled", p)
    BY <1>1, <2>1, <2>2 DEF ListedOK
  <2> QED BY <2>1, <2>3 DEF Tracks
<1> QED BY <1>3, <1>4, <1>5, <1>6, <1>7, <1>8, <1>9, <1>10, <1>11, <1>12, <1>13, <1>14, Steps

(* From 5.0.0 on pm implements the registry of processes: for its clients  *)
(* a process is launched once and exits once, at most one live process is  *)
(* the application, and exits are reported once each, in their order.      *)
THEOREM RegistryIsImplemented == Version5 => (Spec => ImplementsRegistry)
<1>1. ASSUME Version5, Init PROVE Registry!Init
  <2>1. \A q \in Pids : ~Live(q) /\ q \notin Dead /\ kernel_state[q] # "Terminated"
    BY <1>1 DEF Init, Live, Listed, Dead, InList
  <2>2. RegistryStatus = [p \in Pids |-> "none"]
    BY <2>1 DEF RegistryStatus
  <2>3. RegistryApplication = 0
    BY <2>1 DEF RegistryApplication, LiveApplications
  <2> QED BY <1>1, <2>2, <2>3 DEF Registry!Init, Init
<1>2. Init => AppInv
  BY DEF Init, AppInv, AppOK, InList
<1>3. PmInv /\ AppInv /\ [Next]_vars => AppInv'
  BY PmAssumption, KernelAssumption, AppStep
<1>4. ASSUME Version5, PmInv, AppInv, OneApplication, [Next]_vars
      PROVE  [Registry!Next]_(Registry!vars)
  BY <1>4, PmAssumption, KernelAssumption, RegistrySteps DEF RegistryStep, Registry!vars
<1>5. ASSUME Version5 PROVE Spec => ImplementsRegistry
  <2>1. Init => Registry!Init
    BY <1>1, <1>5
  <2>2. PmInv /\ AppInv /\ OneApplication /\ [Next]_vars => [Registry!Next]_(Registry!vars)
    BY <1>4, <1>5
  <2> QED BY <1>2, <1>3, <2>1, <2>2, Invariant, ApplicationsAreSingle, PTL
          DEF Spec, ImplementsRegistry, Registry!Spec
<1> QED BY <1>5
====
