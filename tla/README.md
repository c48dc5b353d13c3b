# NX_Sysmodules, specified

TLA+ specifications of the system modules in this repository: the programs
that Atmosphère runs below and beside the console's own operating system.
Each is a small server, a program that runs once at boot, or, for exosphere,
the code the CPU runs in its secure world. What makes them hard is what happens
*between* requests: who may ask when, who is waiting for whom, what is left
behind when something fails half-way or the power goes. The modules here model
those parts, TLC checks them on small instances, and TLAPS proves the central
invariants for every value of the constants.

- [The system and its parts](#the-system-and-its-parts)
- [Modules and the code they model](#modules-and-the-code-they-model)
- [Runs and bounds](#runs-and-bounds)
- [Fairness](#fairness)
- [Proofs](#proofs)
- [What the models show about the code](#what-the-models-show-about-the-code)
- [Not modelled, and the plan](#not-modelled-and-the-plan)

## The system and its parts

How the parts talk to each other. exosphere boots the kernel from package2 and
stays below it: the kernel and `spl` call it by SMC. `boot` runs once, before
any application: it configures the battery's gauge, the charger and the pins
over I2C and register writes, shows the splash screen and ends. `pm` starts
processes (through `loader` and the kernel), registers them with `sm` (and fs),
and tells waiting programs (`ns`, debuggers, `dmnt`) of their exits. Every
process asks `sm` for its services; `rnx_mitm` hosts mitms, services that stand
in front of others (fs, settings, power) and decide per client whether to be in
the way. `ro` serves games that load modules; `spl` passes cryptography on to
exosphere; a program that crashes ends in `creport` or `fatal`.

| Part | State | Operations | What is hard | Right when |
|---|---|---|---|---|
| `sm`, the service manager | tables of processes with their rights, services (owner, port, sessions, mitm port and host, the acknowledgement a host owes), declared future mitms; whether the initial defers ended | RegisterProcess, UnregisterProcess, GetService, RegisterService, UnregisterService, InstallMitm, UninstallMitm, DeclareFutureMitm, AcknowledgeMitmSession, EndInitDefers | requests are *deferred* and retried; a mitm session takes two requests of two processes; processes die between them | an acknowledgement is the one sm waits for; nobody unregistered reaches a mitm; declarations end; a deferred GetService is answered |
| `pm`, processes | living and dead processes with what of their events was seen; the launch two threads hand over; hooks | LaunchProgram, StartProcess, TerminateProcess, TerminateProgram, GetProcessEventInfo, CleanupProcess, ClearExceptionOccurred, hooks, the tracking thread | two threads, the kernel's signals, a launch that fails at any step | nothing leaks, exits are reported once and none is lost, a launch happens once and returns, no freed `ProcessInfo` is used |
| `pm`, resources | limits of application and system memory, the boost | BoostSystemMemoryResourceLimit | two kernel calls, either may fail | limits never promise more than there is; a boost is whole |
| `loader` | pin table, launch arguments, the cached meta, mounted code | SetProgramArguments, GetProgramInfo, PinProgram, UnpinProgram, CreateProcess | a cache that other requests may overwrite; layouts and capabilities at their limits | a process is created from its own meta, with no capability its ACID does not allow, in a layout whose parts are apart |
| `ro` | sessions, process contexts, registries (NRR) and modules (NRO) in each | Initialize, LoadNro, UnloadNro, LoadNrr, UnloadNrr, closing | every kernel call may fail, the undoing too; several sessions of one process | contexts match sessions, mapped memory is accounted for, a module is loaded only if a registry lists it |
| `dmnt`, cheats | the attached process, its cheats, the machine's program, frozen addresses, files of cheats and toggles | hook, attach (detected or forced), close, debug events, one round of the machine, toggling and freezing, parsing | a thread waits without the lock on a handle another closes; an application that somebody has to start | cheats reach their own process, nobody waits on a closed handle, an application runs again; a program does what its text says |
| `rnx_mitm`, fs | layered storages shared by weak references, a thread that builds them; redirected saves; BOOT0 | OpenDataStorage, Read, OpenSaveDataFileSystem, writes to BOOT0 | construction in the background, requests that use up all threads; a copy that is cut off; overlapping ranges | one storage per program, no wait for what nobody does; commits survive; protected ranges keep their bytes; the merged tree is served |
| `rnx_mitm`, the rest | initialisation thread, modules, settings, the payload of a reboot | initialise, serve, reboot, look up a setting | modules that start before the SD card is there | settings are those of the card, a reboot does what was chosen, the payload is whole |
| `fatal` | one throw, its context, eight tasks, two events | throw, repair check, the tasks | tasks that end without signalling; a battery that changes | the first error is reported and shown, on a good battery |
| `creport` | debug events, threads, modules | one report | neighbouring regions, limits | what crashed is named, the process ends, fatal follows when it should |
| `boot` | gauge and charger registers, display, I2C sessions and a transfer, pads and pins | main and its drivers | power lost or a transfer failing between any two writes; retries over leftovers | the gauge that passes for configured is; the charger does no harm; every pin holds what its table says |
| exosphere, cores | a context per core, a ticket lock without atomics | CPU_ON, CPU_OFF, CPU_SUSPEND, warm boot | cores start at once and stop while others start them | no panic, tickets given back, entry points taken |
| exosphere, monitor | locks of the SMCs, the operation in progress, the engine, its keys, RSA pairs, the random cache | the tables of SMCs | an operation outlives the SMC that started it; a core that runs without the lock | the engine has one user, a result is one's own, keys are where they should be |
| exosphere, boot and sleep | the judgement of package2, its sections, TZRAM, the key table, locks of devices | load_package2, suspend, wake-up firmware, warm boot | two processors that wait for each other; images that overlap | the images that should boot do, whole; the wake-up restores what the sleep had |
| `spl` | owners of key slots, random generator, mapped buffers | sessions, slots, keys, titles, CryptAesCtr, random bytes | a sleep between two SMCs; sizes at their limits | a slot holds its owner's key; an answer is one's own |

## Modules and the code they model

Names in the models are the names in the code wherever TLA+ allows it.
`PROJECT.json` gives, for every definition, the lines it stands for; a helper that
has no entry of its own stands for lines of the definition that uses it. A request
that is refused and changes nothing is not an action: it is a stutter. Code
that is a computation is an operator, and the run hands it its inputs.

### `SmServiceManager` (with `MCSmServiceManager`)

`sm/source/impl/sm_service_manager.cpp`. The tables are `process_list`,
`service_list`, `future_mitm_list`; `ended_initial_defers` is the flag of the
same name. One action per request. A request that answers `ResultDeferred`
stays in `request[p]`, as the server framework keeps the session's message, and
is tried again by the same action. `alive`, `open_sessions`, `mitm_queue` and
`accepted` are the environment: the kernel's ports and the mitm hosts.
`aborted` records which `R_ABORT_UNLESS` fired; nothing runs after it. The
process that opens the file system service before it installs a mitm
(`IsInitialized`) is `rnx_mitm` (`rnxmitm_initialization.cpp`).

### `PmProcessManager`, `PmProcessRegistry` (with `MCPmProcessManager`)

`pm/source/impl/pm_process_manager.cpp`. Three kinds of actor take steps: the
IPC thread (`ipc`), the process tracking thread (`track`) and the kernel. The
tracking thread is cut exactly where another thread can come between: waking up
from `WaitAny` (`Wake`), resetting the signal, reading the state and acting on
it, and the steps of a launch. The list's lock is not a variable: `ListLocked`
says at which places of the tracking thread it is held, and actions of the IPC
thread that take it are guarded by that. `info[p]` is the `ProcessInfo`; a freed
one is `NoInfo`, so a use after that shows. `Version5` is the firmware split at
5.0.0, from which terminated processes move to a second list. `Transitions` is
what the kernel and debuggers do to a process; `KernelAssumption` says of it that
only `svcStartProcess` starts a process and that a terminated one stays so.

`PmProcessRegistry` is what pm promises to the rest of the system: processes are
launched, exit and are reported, at most one application at a time, exits once
and in order. `PmProcessManager` implements it under the mapping `Registry`.

### `MCServers`: the smaller machines of the sysmodules

One run explores them all, each on its own: `server` names the machine a
behaviour is of, the others stay idle, and a computation has its input in
`case`. Its properties say, per machine, what has to hold.

- **`PmResourceManager`**: `pm_resource_manager.cpp`, the boost: two kernel
  calls in an order that depends on the direction, each its own step.
- **`CheatVm`** (with `MCCheatVm`): `dmnt_cheat_vm.cpp`. Decoding and execution of
  the opcodes. The inputs are programs *with their meaning*, nested statements;
  `RunsAsWritten` compares what the machine does with what the statements say.
- **`CheatFile`** (with `MCCheatFile`): the parsers and writers of cheats and
  toggles in `dmnt_cheat_api.cpp`, and when toggles are saved.
- **`Loader`, `LoaderCapabilities`, `LoaderLayout`** (with `MCLoader`): the pin
  table, arguments, the meta cache and the mounting of code, with pm's protocol
  as its client; then pure functions: the check of kernel capabilities against
  the ACID, the layout of a process and the loading of its modules.
- **`RoService`**: `ro/source`. ro has one thread, so a request is one step;
  inside, every kernel call may fail. What is mapped in a process is a set of
  *pieces*; unmapping goes through the code's calls and may stop at any of them
  (`Unmap`), and pieces no context remembers are recorded in `stranded`.
- **`RomFs`**: `fsmitm_romfs.cpp`, the merge of a program's
  read-only file system with files of the SD card and the built image's tables
  and offsets, read back and compared with the merged tree. The path hash is the
  code's, as a 32-bit word in two halves. A romfs without files makes the reader
  of its file table abort (`fsmitm_romfs.cpp:85`), so the sources given to the
  merge have files or are absent.
- **`Boot0Storage`**: every write to BOOT0 in units of bytes.
- **`FsMitm`**: layered storages, their cache and the thread that builds them;
  redirected saves with steps that fail and the console switched off after any.
- **`RnxMitm`** (with `MCRnxMitm`): the initialisation thread and the modules
  that wait for it, settings and their table, the payload and the reboot.
- **`FatalService`**: one throw, what is learned of the thrower (how far the debugging
  gets is part of the throw: `Debugs`), the repair
  checks, and the eight tasks as threads with the two events between them.
- **`CrashReport`**: `creport`, a computation over a crashed process.

### `MCFirmware`: the smaller machines of exosphere and of boot

As `MCServers`; `firmware` names the machine.

- **`CoreBoot`**: `cpu_context.c`, `synchronization.h`, `warmboot_main.c`. A core's
  place is `pc`. The critical section is modelled load by load and store by
  store where the order matters (`StartEntering` ... `Leave`). CPU_OFF marks the
  core inactive and powers it down in two steps, because a CPU_ON may come
  between.
- **`RandomCache`**: `randomcache.c` with `smc_generate_random_bytes_for_priv`. A
  byte is its position; `served` is the set of positions handed out since their
  refill.
- **`SecureMonitor`**: the asynchronous SMCs of `smc_api.c`, `smc_user.c`, `se.c`
  with spl as their one caller. An operation is: the SMC (`SmcAsync`), what the
  engine does afterwards and its interrupt (`Engine`), spl's wait and
  `CheckStatus`, and `GetResult` with its callback. `ImportKey`, the kernel's
  random bytes and the suspend come in between.
- **`SecurityEngine`**: the key table and its locks, and the derivation of keys;
  used by the next four. A block cipher is symbolic: the decryption of a source
  with a key is the term of both, so two keys are equal when they are made alike.
- **`Ciphers`**: what `se.c`, `gcm.c` and `titlekey.c` build from single operations
  of the engine: CTR, CMAC, GHASH and GCM, and the PSS and OAEP paddings, byte by
  byte over symbolic block ciphers and hashes, compared with their definitions.
  Where the code differs from the standards the model does (a CMAC of no data, PSS's
  top bit, which nothing looks at).
- **`SecureBoot`**: from reset to the kernel and through sleep: `bootup.c`,
  `package2.c`, `masterkey.c`, `bootconfig.c`, `sc7.c`, lp0fw, `warmboot_main.c`.
  The monitor and the boot loader (or the boot processor) take turns by the
  states they wait for. Memory is counted in eighths of `PACKAGE2_SIZE_MAX`.
- **`UserSmcs`**: what the synchronous SMCs do with keys (`smc_user.c`,
  `sealedkeys.c`, `titlekey.c`, `gcm.c`); each takes the monitor's state to an
  answer.
- **`SplKeys`, `SplRequests`**: `spl_api_impl.cpp` on top of `UserSmcs`. The
  first is a machine: sessions that come and go, slots, imported keys, title
  keys, kernels that hold the lock, the console asleep between two SMCs. The
  second says what single requests of every size answer.
- **`MonitorCalls`**: `exceptions.s`, `smc_api.c`, `smc_ams.c`, `userpage.c`. Core 3
  runs at once on a stack of its own, the other cores behind a lock on a shared
  one; a register is read and written back in two steps; copies map their pages
  while they last. The two tables of SMCs are there per firmware.
- **`BootPins`**: pads, drivers, GPIOs, wake pins, clocks and the order of
  `boot_main.cpp`, which reaches the power controller through `MonitorCalls`. The
  console's tables are the modules' tables, for the five kinds of hardware.
- **`BootBattery`**: the gauge's configuration register by register, the loop of
  `boot_check_battery.cpp`, the reason for the boot.
- **`BootDisplay`**: the power sequence per panel and what is drawn where.
- **`I2cDriver`**: sessions and buses; one request down to the FIFOs.

### `CheatManager`

`dmnt_cheat_api.cpp`, with `dmnt_cheat_debug_events_manager.cpp`. `task` is the
lock: who holds it (`launch` is the detect thread, `force` and `service` are
requests, `vm` the machine's thread, `signaled` and `failed` the debug events
thread after its wait) and where in its critical section it is. Sections are
cut at their calls of pm and the kernel, because the application may die there;
every one begins with `HasActiveCheatProcess` (`Lock`), which closes a process
that is gone. `debug.handle` is what the debug events thread read without the
lock: the current handle, none, or one that was closed since. `cancelled` is the
kernel's flag that makes its next wait fail. A cheat, a frozen address and an
entry of the program carry the process they were made for, which the code's
members do not say. pm appears as what dmnt sees of it.

## Runs and bounds

All bounds are CONSTANTS of the `.cfg` files. TLC visits every reachable state
within them.

| Run | Asks | Bounds, and why they are enough |
|---|---|---|
| `sm_mitm` | Do acknowledgements pair up and do declarations end, when hosts and clients come, go and die? | 4 processes (file system, a host, two clients of which one dies), 3 slots in the table so that it can be full, 1 service with a mitm, 2 sessions per port. A second host of the same service is refused in one guard, and services share no state but the table, so one service shows all of it |
| `sm_boot` | During the boot, is nobody unregistered handed to a mitm, is every forwarded session acknowledgeable, is every deferred GetService answered? | The same 4 processes, 2 of them started before pm registers anybody; the file system service, whose Get is deferred until the defers end |
| `pm_apps` | With two applications, hooks and failing launches: does nothing leak, is there one application, is no event lost, does every launch return, is every exit reported, is the registry implemented? | 2 process ids and 2 calls of LaunchProgram: the second meets what the first left behind (the hook, the resource wait, a dead entry); 2 allocated infos so that the pool fills up. From 5.0.0: while the exit of one application is on the dead list, the start and the exceptions of the other are on the living one, and a client looks at the two under two locks |
| `pm_debug` | Before 5.0.0 and with a debugger that attaches, breaks and detaches: is no change of state missed and no freed info used? | 2 process ids one after the other: `CleanupProcess` frees an info, and the next launch takes it, at any step of the tracking thread |
| `servers` | Does each machine of `MCServers` do what its property says? | see below |
| `firmware` | Does each machine of `MCFirmware` do what its property says? | see below |
| `cheats` | Are cheats applied to their own process, does nobody wait on a closed handle, does dmnt only abort over a dead application, does a stopped application run again? | 2 applications one after the other, so that what was of the first can be applied to the second; 2 cheats, one of them the master cheat, of which the program fits one; 1 address and 1 entry for it |
| `random_cache_drained` *(violation)* | Does a refill renew what was served? | 13 bytes, requests of 1 to 3 |
| `secure_monitor_busy` *(violation)* | Does the answer "busy" mean that a status can be checked? | 2 operations, one exponent |
| `cheat_toggles` *(violation)* | Are toggles saved only when they were read? | 2 programs, one of them without cheats |
| `redirected_save` *(violation)* | Does a game that committed nothing find its old save? | 1 game |
| `battery_version_2` *(violation)* | Is every voltage the parameters ask for encodable? | one battery of version 2 |

`servers`, by property:

- `LimitsKept`: 9 and 3 units of memory, boosts of every
  size, both firmwares, every sequence of failures.
- `CheatsKept`: all nested programs of `MCCheatVm` with up to 14 dwords, 2
  registers and 2 byte values (comparisons need two), 10 addresses; cheat texts
  of up to 3 cheats (the table of 3 fills up) with 2 opcodes; for 2 programs, files of
  toggles that are whole, empty, missing, unreadable or break off, under both values
  of the two settings.
- `LaunchesKept`: 2 programs, 2 pins, 4 launches, 1 entry for arguments, so
  that each table is full once and the cache is of the other program.
- `CreatedAsDeclared`: capabilities of every kind at and beyond their bounds;
  layouts with every combination of modules, in pages of 4 units.
- `StoragesShared`: 3 sessions of 2 programs over 2 threads, so that all threads
  can wait, and 4 storages, so that freed ones are used again.
- `RnxMitmServes`: trees of directories and files that are in one source, the
  other or both, with names and sizes that need padding; BOOT0 scaled to 27
  bytes with all its borders, and every write in it; the sessions and storages
  of `StoragesShared`; saves with failures and power cuts at every step; 3
  settings in 8 bytes of storage, hexadecimal ones of up to 6 digits, numbers that
  their type cuts; a payload's buffer of 2 pages for 46 (a whole number, as in
  the code), with the page of the error context behind it.
- `FatalHandled`: a trace limit of 2 for 0x20, 1 second of waiting for 30, 2
  seconds in all; every battery state at every query; a thrower whose debugging stops
  at each of its steps, listed behind two threads that look like it.
- `CrashesReported`: 3 threads, 2 modules for 0x60, all layouts of up to 6
  regions.
- `RoMappingsKept`, `ModulesAuthorised`: 2 processes, a session of each kind of
  which `ro:1` may be opened by either; 2 contexts; 2 modules' regions, one a copy
  of the other, 2 registries, one foreign; 2 module slots and 1 registry slot,
  so that both fill up.

`firmware`, by property:

- `SeExclusive`, `ResultReady`, `VerifiedFits`, `OpAnswered`: 5 operations, two
  exponents of which one is imported with its modulus, results asked for with
  three sizes.
- `RingKept`: 13 bytes and requests of 1 to 3: the
  ring wraps with every remainder.
- `NoPanic`, `EntryPointTaken`, `CoresComeUp`: 3 cores, two of which contend
  while the third calls; tickets modulo 128 as in the code; 5 requests, enough
  for every core to start twice.
- `SecureBoots`: 7 firmwares with their keys, all kinds of configuration, images
  old, plain and too new; for one firmware, images whose sections lie anywhere
  around the load address (80 units, with 2^32 as 4096), in every size and
  order. The vendor layout has the kernel in the first slot at an offset of at
  least 1; no section lies at unit 0. 2 calls of the kernel that change the
  monitor, one suspend; the boot processor is halted before a suspend.
- `MonitorServes`: slots with 3 calls, 1 sleep, sessions of a migration, of fs
  and of others, two slots free at the start so that they run out, on 1.0.0,
  3.0.0 and 6.2.0 (the three behaviours of owners); secrets on 4.0.0 and 10.0.0
  (the two formats); requests on all 7 firmwares with sizes at and beside each
  limit; calls of cores 0, 1 and 3 (two on the shared stack and the one
  without the lock) on 5.0.0; tables, register accesses and copies for all;
  ciphers of sizes at and around one, two and three blocks, hashes of 4 bytes and
  RSA of 24, so that the masked part of a padding is no multiple of a hash, as with
  0x20 and 0x100; every byte of a message changed once.
- `BatteryHandled`: temperatures below the least, cold, hot and at the most (3,
  16, 59, 60 degrees; between cold and hot nothing is limited), voltages on both
  sides of every limit (3319, 4049 mV), charges 2 and 99; the console that shuts
  down by its desired charge (Hoag); battery 0, of which 1 differs in numbers
  only and 2 has its own run; 1 transfer that fails and 1 loss of power, each
  anywhere.
- `BootServes`: every vendor's panel, shown one after the other; every reading
  of the gauge by quarters of a percent; 5 sessions for 40; every driver inside
  every other that the code nests; transfers of every kind with a FIFO of one word
  and 2 and 3 tries for 3 and 500; pins on 5 kinds of hardware and 7 firmwares, with registers left
  all clear or all set by the boot loader, one pad locked, a wrong clock, an
  image repaired, payloads of 1 to 46 pages.

`CHECK_DEADLOCK FALSE` is set where the system may really stop: sm, pm and ro
after an abort or when every process has died, boot at its end, and the others
when their bound on requests or operations is used up.

## Fairness

Safety runs use a specification without fairness. The runs with a liveness
property ask only for what the code's scheduling gives:

- **sm** (`GetAnswered`). Weak fairness of a host's accepting and acknowledging a
  session: it sits in a loop around its ports. *Strong* fairness of a retried
  GetService: the server framework retries deferred requests after every
  request it has served, and such a retry succeeds whenever it is then
  possible, but other clients may make it impossible again in between. Nobody
  is forced to register a service or to call anything, and the property says
  "once the service stays registered".
- **pm** (`ExitReported`, `LaunchReturns`). Weak fairness of the tracking thread,
  of the IPC thread's return from a launch and of the client that waits for
  events; of the kernel's finishing the termination of a process; and of the
  closing of handles other programs were given. No process is assumed to exit
  by itself.
- **CoreBoot** (`CoresComeUp`). Weak fairness of each powered core's next step: it
  is hardware. The lock may starve a core if others restart for ever, as the
  comment at `synchronization.h:84-88` admits; the bound on requests excludes
  that, so the property says that the cores do not block each other, not that
  the lock is fair.
- **SecureMonitor** (`OpAnswered`). Weak fairness of the engine (it finishes), of
  spl's thread (it wakes up on the interrupt), of the return of the kernel's SMC
  and of the wake-up. It is not assumed that an operation succeeds.
- **CheatManager** (`ApplicationRuns`). Weak fairness of whoever is in a critical
  section and of the threads outside of it. *Strong* fairness of the detect and
  the debug events thread's taking the lock: others take it again and again, so
  it is not continuously free, but the kernel's mutex is handed to a thread
  that waits for it. No application is launched or dies by fairness.

`FsMitm` says the same of its threads as a state property (`RequestsGoOn`):
whenever a request waits, some step that brings it on is possible. `SecureBoot`
likewise: the monitor never waits for a state its boot loader has no way to
reach (`NoWaitForever`).

## Proofs

All theorems are proved by TLAPS from the specification and the named
assumptions on constants that the component's module states (`SmAssumption`,
`PmAssumption`, `KernelAssumption`, `ResourceAssumption`, `RoAssumption`,
`CoreAssumption`, `CacheAssumption`, `MonitorAssumption`, `CheatAssumption`,
`BatteryNumbers`, `NoneIsNothing`, `DepthIsNatural`), which TLC evaluates in the runs.
They hold for every number of processes, launches, services, sessions, modules, cores,
operations, applications, storages, throws and cheats, and every size. The assumptions
are types, except for these:

- `KernelAssumption`: no transition of the kernel takes a process across its start,
  and none leaves `Terminated`. Starting is `svcStartProcess`, an action of its own,
  and pm frees what it knows of a process when it sees it terminated.
- `BatteryNumbers`: the batteries are of versions 0 to 2, the three that
  `BatteryChargeParameters` has; a charge is not negative.
- `NoneIsNothing`: no storage, program or session is `None`.
- `RoAssumption`: the heaps that hold modules and those that hold registries are
  apart, and the processes of a console are finitely many. `ContextsMatchSessions`
  counts contexts, and counting is about finite sets.

Two theorems have a hypothesis. `NoAckIsLost` asks that no host uninstalls its mitm
(`Quitters = {}`): with an uninstallation the property is false, as said under
`UninstallMitm` below. `RegistryIsImplemented` asks for 5.0.0 (`Version5`), from
which the registry's dead list exists.

| Module | Theorem | Says |
|---|---|---|
| `SmServiceManagerProofs` | `TypeCorrect` | the tables keep their shape, no port exceeds its limit |
| | `AcksArePaired` | a host's accepted connection is the one sm waits for |
| | `FutureMitmIsDischarged` | a declaration does not outlive its installation |
| | `RequestersAreRegistered` | unless a process died, everybody handed to a mitm is known to sm |
| | `NoAckIsLost` | what sm waits for is with the host |
| `PmProcessManagerProofs` | `Invariant` | the lists, the infos, the kernel's states and the two threads' places fit together |
| | `InfoIsNotStale` | the tracking thread never uses a freed `ProcessInfo` |
| | `ChangesAreSeen` | a state pm has not read is signalled or about to be read |
| | `LaunchesAreCounted` | a call of LaunchProgram makes at most one process |
| | `PeersAreExact` | fs, sm and loader hold exactly what pm's processes account for |
| | `ApplicationsAreSingle` | two applications never use the resources at once |
| | `EventsAreNotLost` | a client never waits over an event nobody signalled |
| | `RegistryIsImplemented` | pm implements `PmProcessRegistry` |
| `RoServiceProofs` | `MappingsAreKept` | contexts match sessions; what is mapped is recorded or known to be lost |
| | `ModulesAreAuthorised` | a module is loaded only when a mapped registry of its process lists it |
| `PmResourceManagerProofs` | `LimitsAreKept` | the limits never promise more memory than there is, and from 5.0.0 are those of the recorded boost |
| `FirmwareProofs` | `CoresNeverPanic` | no booting core finds its context invalid |
| | `TicketsAlwaysFit` | tickets never count up, whatever the number of boots |
| | `EntryPointsAreTaken` | no entry point stays behind |
| | `CoreTypesCorrect` | contexts, places, tickets and flags are well-typed |
| | `RingIsKept` | no read leaves the ring, and until it is drained no byte is served twice |
| | `EngineHasOneUser` | the Security Engine has one user |
| | `ResultsAreOnesOwn` | a result is that of the caller's operation |
| | `VerifiedModuliFit` | a verified modulus fits its exponent |
| | `MonitorTypesCorrect` | lock, engine, key pairs and clients are well-typed |
| | `BatteryIsHandled` | a gauge that passes for configured is, the charger is set for what was measured, the console starts on a battery that carries it |
| | `BatteryTypesCorrect` | gauge, charger and the place of boot are well-typed |
| `ServerProofs` | `LaunchesAreKept` | a process is created from its own meta, and pins belong to processes or to the launch under way |
| | `LoaderTypesCorrect` | pins, processes and the launch are well-typed |
| | `StoragesAreShared` | the sessions of a game share one storage, which the thread never loses |
| | `StorageTypesCorrect` | sessions, storages and the thread are well-typed |
| | `CommitsAreKept` | a game finds what it committed to its redirected save |
| | `FatalIsHandled` | screen and report are of the first throw, on a good battery; the thread that threw is known exactly when its process is 64-bit, could be read to the end and sent a plain request |
| | `FatalTypesCorrect` | fatal's context, events and tasks are well-typed |
| `CheatManagerProofs` | `CheatTypesCorrect` | types, and a program within the machine's capacity |
| | `CheatsAreOwn` | what is applied to a process was made for it |
| | `WaitsAreNotOrphaned` | the debug events thread never waits on a closed handle |
| | `AbortsNeedADeath` | dmnt aborts only over a dead application |

How the arguments go:

- **sm.** Types first: each action keeps `TypeOK` by a lemma of its own, those
  that count sessions by arithmetic on `open_sessions`. `PairedAcks` is
  inductive together with `TypeOK`: for each host and service at most one of
  "nothing", "a connection in the queue" and "accepted, waiting for the
  acknowledgement" is the case, and the entry's waiting flag says which. The
  interesting case is the uninstallation between a client's GetService and the
  acknowledgement, which leaves the flag and the forward session where they
  are, so that nothing is paired with a later host.
  `MitmRequesterRegistered` is about the boot, and needs its order (`BootOrder`):
  only once the initial defers have ended does anybody but the initial processes
  have an entry, or a service a mitm, and from then on every living process of the
  initial ones has an entry, as has everybody whose acknowledgement is awaited and
  who lives. A live process keeps its entry (`LiveStaysRegistered`). That the search
  of the table finds it (`FirstSlotHolds`) needs that a set of numbers has a least
  one, which is the library's theorem about subsets of finite sets. `NoLostAck` needs
  that a service that awaits an acknowledgement has a mitm (`WaitsBehindMitm`), that
  a living host is known to sm (`HostsAreKnown`), and `PairedAcks`.
- **pm.** `PmInv` is two halves. `Core` describes the data: no process is listed
  twice nor in both lists, and whoever is not listed has no info (`Shape`); for each
  process what its list, its info and the kernel's state say of each other
  (`ProcessesOK`); what the tracking thread's place says of the process in its hands
  (`TrackOK`); ids are given in order (`InOrder`). `Hand` is about the two events:
  which combinations of `start_event`, `finish_event` and the two threads' places
  are a launch being handed over. Each action keeps each part by a lemma of its own;
  those that change one `ProcessInfo` go through `ChangeOfStateKeeps` and
  `ClearedFlagKeeps`. The safety properties then each add one clause: that a changed
  state has its signal (`SeenInv`), that the processes created and the one under way
  are no more than the calls (`CountInv`), what each peer holds of each process
  (`PeersInv`), and that while the event is not signalled a client that waits, or is
  between the two lists on its way to waiting, has nothing left to read but what the
  tracking thread is about to signal (`EventInv`: GetProcessEventInfo goes on only
  when it found nothing, and then there is nothing, `FirstIsFound`).
  `OneApplication` is inductive: a process comes to use resources in `CreateProcess`
  only (`NothingNewStep`), and that waited until nobody used them.
- **pm implements its registry.** The mapping is a process's status as clients see
  it, and the live application. `AppInv` says that whom pm marks as an application
  was launched as one, so that `OneApplication` bears on them. Then every action is one of four lemmas: it launches
  (`LaunchOfRegistry`: the end of a launch that succeeded), it exits
  (`ExitOfRegistry`: the tracking thread's seeing the termination), it reports
  (`ReportOfRegistry`), or clients see no difference (`SameToClients`), which is the
  case of all the rest, among them the steps of a launch that fails.
- **ro.** What is shown of memory is an equation per process: what is mapped is what
  its context records and what was lost track of, and the two are apart. Since an
  unmapping stops at any of its calls, what it took is a prefix of its steps
  (`ChainTakes`, and from it `UnmapNroTakes`, `UnmapNrrTakes`), and the lemma about
  an unmapping in general (`AccountedUnmap`) keeps the equation. For the sessions,
  `RoInv` adds who owns a context (`SessionsOwnContexts`): then a context that is
  freed was not the context of somebody else. `ModulesAuthorised` is a property of
  single steps, of which only `LoadNro` adds a module (`OnlyLoadNroAdds`).
- **Resource manager.** The invariant names the state between the two kernel
  calls: memory taken from one limit and not yet given to the other. The order
  that `ApplicationFirst` chooses is what keeps the sum below the total.
- **CoreBoot.** `CoresInv` is the types and one clause `CoreInv(c)` for every place
  a core can be at: which entry point, flag and ticket it then has. The lock is
  not used: the clause for a core speaks of what only that core and those who
  call it write. That is needed, because the lock does *not* give mutual
  exclusion (see below), and the proof shows that nothing the theorems say
  depends on it. `TicketsAlwaysFit` comes out because a core only takes a
  ticket one above its own, which it always gives back.
- **RandomCache.** The types and the two halves of `RingKept`, `ReadsStayInside` and
  `NoByteServedTwice`, are inductive together (`CacheInv`); the one idea
  is that the read *before* wraps the index early enough for the longest next read.
- **SecureMonitor.** `SeExclusive` and `ResultReady` are not inductive alone.
  `IInv` adds: what the engine's callback says about the operation in progress
  (`Working`), what the two result variables say once it is done (`Done`), that
  lock, key and operation go together (`Coherent`), and what a test of a
  modulus in progress says about the keypair (`Tested`).
- **CheatManager.** `Inv` adds to the types what the holder's place says of the
  attachment (`Attached`: nothing is attached between closing the old process
  and attaching to the new one, and the cheats loaded before are those of the
  process to come) and that before the handle is closed the debug events thread
  was knocked out of its wait, or its next wait is cancelled (`KnockedOut`).
  That flag cannot be used up in between, since taking it makes the wait fail.
  `HookInv` is about launches: one application is on pm's list at a time
  (`OneListed`), and unless one died early the announced application is there
  and not started for as long as the detect thread has it in hand
  (`Announced`). Each abort of an attach then contradicts it. The one
  abort that is left is the refusal to continue a process that is dead.
- **Loader.** The cached meta may be of any program, or missing while the cache is
  said to be of one, after a LoadMeta that failed half-way. `LaunchKnows` says what a
  launch can rely on: once GetProgramInfo succeeded, cache and meta are the launch's
  own, since the one other request that loads a meta comes from pm itself, which
  serves nobody during a launch; before the creation the pin is there and of nobody.
  `ProcessesPinned` ties each process to the one pin that names it, from which the
  pins left over are accounted for (`OwnPinOnly`).
- **Layered storages.** `MakerHasLock`: the request that makes a storage has the lock
  from finding that there is none until it publishes one, and in that time the
  cache has none of its program, so its storage is nobody else's (`MakersAlone`).
  With one maker there is one message (`OneMessage`): in the first queue, with the
  thread, or in the second, always of the maker's storage. `CacheOfSessions` says
  that the weak reference is of what the sessions have, since what nobody has is
  collected; `CollectedKeeps` is the lemma about what is not.
- **Redirected saves.** A save is new only if its directory was not there
  (`SaveInv`), and then no version is the game's, so the copy overwrites none; and
  the library's initialisation makes the working version the committed one.
- **fatal.** The context is that of the one throw that was accepted
  (`ContextOfThrow`), so what the tasks write can only be of that. What a context
  says of the thread that threw is a lemma about `ContextThrown` (`ContextRight`), for
  which the other threads that are listed must not pass for it
  (`OnlyThrowerMatches`). `BatteryFirst` carries the good battery from the power task's
  event to the screen.
- **Battery.** `GaugeProgress` is the argument about failures and power loss: the
  power-on bit is cleared only when the steps before it in `GaugeProgram` (37 in all) are
  done (`StepsDone`), and what is done stays done when the power is lost; only the model
  table may be found unlocked, and only if a transfer failed. A charger that was
  updated is safe since every value is encoded by rounding down (`UpdatedIsSafe`), and
  one whose update failed is followed by a shutdown. `BatteryInPlace` is what the check for a removed battery leaves.

Only model-checked: every liveness property (`GetAnswered`, `ExitReported`,
`LaunchReturns`, `CoresComeUp`, `OpAnswered`, `ApplicationRuns`), since fairness
and ENABLED are out of the prover's reach; and, of `MCServers` and `MCFirmware`,
what is not in the table above (`CheatsKept`, `CreatedAsDeclared`,
`RnxMitmServes`, `CrashesReported`, `BootServes`, `SecureBoots`, `MonitorServes`; of
`RnxMitmServes`, `CommitsKept` is proved, and `RequestsGoOn` is about ENABLED). Much
of that is
what a computation yields for each of its inputs, by induction over the input,
which none of the installed provers can do; operators declared RECURSIVE
(`RomFs`, `CheatVm`, `Ciphers`) are in modules no proof reaches.

The modules proved about are the modules the runs check: `MCServers` extends
`PmResourceManager`, `RoService`, `Loader`, `FsMitm` and `FatalService`, and `MCFirmware`
extends `SecureMonitor`, `RandomCache`, `CoreBoot` and `BootBattery`, with their
constants and assumptions. A machine that is idle is in an initial state of its own,
in which its properties hold as well.
`TicketsFit` is proved and has no run of its own.

## What the models show about the code

Five runs end in a counterexample, each to what a comment or an assertion of the
code says.

- **A drained random cache is not refilled** (`random_cache_drained`,
  `randomcache.c:53`). When requests have read the ring to its end, `low` is back
  at the start and the indices are those of a full ring: there is "no data to
  refill", and bytes that were served stay where they are.
- **A failed modulus test leaves the lock taken** (`secure_monitor_busy`,
  `smc_api.c:438`). The result of the failed operation is handed out and its
  key cleared, but the lock of the user SMCs is only given up on success. Every
  later one is answered "busy", with no status left to check.
- **An attach that fails leaves the toggles to be saved** (`cheat_toggles`,
  `dmnt_cheat_api.cpp:136`). The next program whose cheats are not
  loaded has its toggles overwritten by an empty file when it is closed.
- **A redirected save is copied only while its directory is missing**
  (`redirected_save`, `fs_mitm_service.cpp:237`). The directory is made first and
  the copy's result ignored, so a copy that failed is never made up for.
- **A battery of version 2 stops boot** (`battery_version_2`,
  `boot_check_battery.cpp:86`). Its 4320 mV are beyond what `EncodeChargeVoltageLimit`
  accepts.

Other things one learns from writing the models, with no property of their own:

- **sm.** GetService of a service behind a mitm aborts sm when the mitm connection
  cannot be made (`sm_service_manager.cpp:388`). The comment gives a dead host as
  the reason; the mitm port being out of sessions, with its host alive, is
  another. A client that dies while its mitm host has not acknowledged it makes sm
  abort too (`:229-231`): its process info is gone. `UninstallMitm` keeps the
  waiting flag (`:92`): a service whose host uninstalled in between defers every
  GetService from then on. The runs have all three as outcomes.
- **The boot critical section** gives no mutual exclusion: a core waits for those
  with a smaller number only, as the comment at `synchronization.h:84` says, and
  tickets are all equal. The cores' contexts are such that it does not matter
  (`FirmwareProofs`). `critical_section_leave` flushes a line that other cores
  write (`cpu_context.c:79`); caches are not modelled.
- **exosphere's calls.** CPU_OFF on cores 0 to 2 releases the lock of the privileged
  SMCs before the core leaves the stack it shares with the others
  (`cpu_context.c:160`). The register updates are not serialised with core 3
  (`smc_api.c:725`): an update may be lost, as `MonitorCalls` has it. No code sets
  `g_smc_blacklist_mask`. `ams_get_emummc_config` writes the directory out for an
  unknown type as well. Two SMMU registers are said to be written and are not.
- **exosphere's boot.** `bootconfig_load_and_verify` clears the signed part exactly when
  its verification succeeds (`bootconfig.c:58`). Signatures and section hashes are
  not checked in this build. The relocation of an image whose layout is not the
  vendor's may wipe the warmboot binary, and so does a section at unit 0. On 4.x and
  5.x `setup_dram_magic_numbers` writes before the synchronisation
  `DRAM_INITIALIZED`. The device key of 4.x survives `clear_aes_keyslot` only because
  its slot was closed first. `se_compute_aes_cmac` of no data uses K1 where the
  algorithm has K2. `gcm`'s MAC ignores a last block that is not whole. On 10.0.0 an
  ES or DRM blob smaller than 0x230 bytes imports bytes that were not decrypted.
- **Only core 0 can suspend** the system, since the power gates of cores 1 to 3 must be
  off by then; `warmboot_main.c:53` speaks of core 3.
- **spl.** `FreeAesKeyslot` ignores a busy answer (`spl_api_impl.cpp:618`), so a freed
  slot may keep its key until it is used again. The engine's slots are cleared on a
  wake-up: `GenerateAesKey` or `CryptAesCtr` across a sleep uses a wiped slot. Before
  4.0.0 a closed session's slots are never freed, and on 1.0.0 everybody has slot 0.
  A client that is woken for a free slot and dies before it allocates takes the
  wake-up with it; two slots freed at once signal an auto-clear event once. Requests
  for more than 0x10000 random bytes succeed and leave the rest as it was. An input
  within 4 MiB of `CryptAesSizeMax` may be mapped over the output's window.
- **fatal.** `std::max` where the size of the stack trace should be the smaller
  (`fatal_service.cpp:79-84`). `case 2` in `IsThreadFatalCaller` falls through to the
  default (`fatal_debug.cpp:106-111`). Of a 32-bit process, or one whose threads are not
  listed, only the name is learned (`fatal_debug.cpp:204-220`). `IsInRepairWithoutTimeReviserCartridge` is true
  *with* the cartridge (`fatal_repair.cpp:100-102`). The interval after which to
  reboot is in nanoseconds, cut to 32 bits and compared with seconds
  (`fatal_task_power.cpp:59-65`). A shutdown from the battery's loop does not wait for
  the report. When the first query is bad and `TryShutdown` then finds it normal, the
  battery's event is never signalled and nothing is shown
  (`fatal_task_power.cpp:113-118`): `ScreenNotForgotten` excepts a recovered battery.
- **creport.** `DumpBinary` of a thread writes `stack_trace_size` bytes of a trace that
  has as many entries of eight (`creport_threads.cpp:231`).
- **boot.** `GetInputCurrentLimit` compares the whole register
  (`boot_charger_driver.cpp:118`). A power loss after the power-on bit was cleared
  leaves `CGain` unwritten for good. `WriteValidate` repeats without bound. The check
  that the model table is locked passes when the reads fail. After a timeout the
  last word of a transfer on I2C5 is not reset. `SetInitialWakePinConfiguration` has no
  `break` after Iowa (`boot_wake_pins.cpp:110-114`), so an Iowa gets Calcio's wake
  pins: enabled at 4, 6, 7, 0xA, 0x1B, 0x22 and 0x30 and the level of 0x39 differ.
  The direction of a GPIO is set before its value. Nothing compares the payload's
  size with the `IramPayloadMaxSize` it is read into.
- **rnx_mitm.** A setting of type `hex` is not the bytes its digits spell: the loop
  runs over half of them and sets a byte where it should add to it
  (`settings_sd_kvs.cpp:244-246`), so that "12345678" is served as 20 40 00 00.
  `HexBytes` does the same, and `BytesRead` says in other words what comes of it.
  `fsmitm_redirect_saves_to_sd`, which `settings_sd_kvs.cpp` describes as
  "0 = Do not redirect, 1 = Redirect.", is not what decides: a file `saveredirection`
  *prevents* it, and its path has `/ReiNX` twice. Saves of emuMMC and sysMMC are not
  separated, though a comment says so.
- **dmnt.** A forced attach during a launch leaves the application to dmnt's detect
  thread, which closes, attaches again and starts it: the cheats are loaded twice.
  The opcode described as `300R0000` takes its register from
  `(first_dword >> 20) & 0xF` (`dmnt_cheat_vm.cpp:383`).
- **ro** forgets an entry before it unmaps it, so one whose unmapping failed stays
  mapped and unrecorded; and closing a session leaves the modules mapped. Both are in
  `stranded`.
- **loader** keeps one program's meta and never looks whether it changed: only pm's
  order of calls keeps it the right one, and `CreatedFromOwnMeta` is about the two.
  A program with a system resource "must be 64-bit" (`ldr_process_creation.cpp:335`);
  the flag is tested by an "and" with a field of several bits, whose values are the
  library's (32Bit 0, 64BitDeprecated 1, 32BitWithoutAlias 2, 64Bit 3): every address
  space but the plain 32-bit one passes. `ParametersConsistent` asks for that much.

## Not modelled, and the plan

Left out everywhere: formatting, logging, the insides of block ciphers, hashes and
RSA (they are symbolic), page tables, and sequences of register writes whose values
nothing reads back. Not modelled as parts, each with its entry in `PROJECT.json`:

- `boot2`, `ncm`: one call into a library outside this repository.
- `eclct.stub`: answers success and keeps nothing.
- dmnt's target input and output: a table of handles around single calls.
- `stb_truetype.h`, `my_libc.c`, the headers of registers: third-party code or
  declarations without behaviour.
- `sc7fw`, `rebootstub`, the alarm of the real time clock: one thread of register
  writes each.
- Of modelled parts: sm's read-only requests; pm's boot-finished event, its
  tables of limits and firmware before 2.0.0; ro's signatures, hashes and patches;
  loader's patches and NSO segments; dmnt's event for clients and its reads and
  writes of memory; `fatal`'s screen and `GetFatalEvent`; the web content file
  systems and replaced locales of `rnx_mitm`; suspend and resume of the I2C buses,
  ten-bit addresses; the saving of debug registers. Each component's note says so.

What is left of the plan, in this order:

1. Theorems about the machines that `MCServers` and `MCFirmware` only check: who
   has which key slot in `SplKeys`, the reboot of `RnxMitm`, the sessions of
   `I2cDriver` and the order in which `BootDisplay` powers a panel. For the tables of
   pins and for the parsers, layouts and file system images TLC's enumeration is the
   stronger check.
2. Composition: `CheatManager` with `PmProcessRegistry` as its environment;
   `SecureMonitor` with `RandomCache` in place of its step for the kernel's random
   bytes; `PmProcessManager` with `Loader` in place of the launch step that may
   fail.
3. An abstract specification of spl's slots (who holds which key) that `SplKeys`
   implements except across a sleep.
