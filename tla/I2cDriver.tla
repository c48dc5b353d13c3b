----------------------------- MODULE I2cDriver -----------------------------
(***************************************************************************)
(* The boot sysmodule's I2C driver.                                        *)
(*                                                                         *)
(* First its sessions: the drivers of the devices open and close them one  *)
(* inside the other, the display leaves one open, and a bus is set up when *)
(* the first session on it is.                                             *)
(*                                                                         *)
(* Then one request to a register of a device, down to the FIFOs of the    *)
(* controller: a list of a send and a receive, transfers that time out,    *)
(* are not acknowledged or lose the arbitration, and are repeated at two   *)
(* levels.  The controller's interrupt is level triggered: clearing the    *)
(* event while the line is up signals it again.  A transfer's last word    *)
(* and its completion come together.                                       *)
(*                                                                         *)
(* Left out: suspending and resuming the buses and the rail LDO6, which    *)
(* nothing in boot does; clocks and dividers; addresses of ten bits.       *)
(***************************************************************************)
EXTENDS Integers, Sequences, FiniteSets

CONSTANTS
    MaxDriverSessions,
    FifoDepth,       \* words in each FIFO of the controller
    RegisterIds,     \* of the device asked
    MaxRetries,      \* max_retries of the device's configuration
    MaxTries         \* RetryUntilSuccess's: 10 s in steps of 20 ms

NoSession == 0
None == [mode |-> "none"]
-----------------------------------------------------------------------------
(* Sessions.                                                               *)
VARIABLES
    ref_cnt,         \* of ResourceManager
    sessions,        \* the bus of each session, or "closed"
    open_sessions,   \* of the accessor of each bus
    configured,      \* buses set up since they were opened
    drivers,         \* the drivers that exist, the innermost last
    icon             \* whether the display was initialized under them

sessionVars == <<ref_cnt, sessions, open_sessions, configured, drivers, icon>>

(* The entries of g_device_configs boot uses.                              *)
Devices == {"Max77620Pmic", "Max77620Rtc", "Max17050", "Bq24193"}
DeviceBus(device) == IF device \in {"Max77620Pmic", "Max77620Rtc"} THEN "I2C5" ELSE "I2C1"
Buses == {"I2C1", "I2C5"}

SessionInit ==
    /\ ref_cnt = 0 /\ sessions = [i \in 1..MaxDriverSessions |-> "closed"]
    /\ open_sessions = [b \in Buses |-> 0] /\ configured = {} /\ drivers = <<>> /\ icon = FALSE

FreeSessions == {i \in 1..MaxDriverSessions : sessions[i] = "closed"}

(* OpenSession takes the first free session, opens the bus and, for its    *)
(* first session, sets it up.                                              *)
OpenSession(device, i) ==
    LET bus == DeviceBus(device) IN
    /\ i \in FreeSessions /\ \A j \in FreeSessions : i <= j
    /\ sessions' = [sessions EXCEPT ![i] = bus]
    /\ open_sessions' = [open_sessions EXCEPT ![bus] = @ + 1]
    /\ configured' = IF open_sessions[bus] = 0 THEN configured \cup {bus} ELSE configured

OpenDriver ==
    \E device \in Devices, i \in 1..MaxDriverSessions :
        /\ device \notin {drivers[k].device : k \in DOMAIN drivers}
           \/ device = "Max17050"               \* ShutdownSystem makes a second one
        /\ Len(drivers) < 4
        /\ ref_cnt' = ref_cnt + 1 /\ OpenSession(device, i)
        /\ drivers' = Append(drivers, [device |-> device, session |-> i])
        /\ UNCHANGED icon

(* Session::Close on an open session, and what it leaves of the bus.       *)
Closed(closing) ==
    /\ sessions' = [i \in DOMAIN sessions |-> IF i \in closing THEN "closed" ELSE sessions[i]]
    /\ open_sessions' = [b \in Buses |->
          open_sessions[b] - Cardinality({i \in closing : sessions[i] = b})]
    /\ configured' = {b \in configured : open_sessions'[b] > 0}

(* Finalize closes every session when nobody uses the driver any more.     *)
(* Mutant: Finalize closes nothing.                                        *)
LeftOpenForever == {}
LeftOpen == IF ref_cnt = 1 THEN {i \in DOMAIN sessions : sessions[i] # "closed"} ELSE {}

(* A driver's destructor: CloseSession, then Finalize.                     *)
CloseDriver ==
    /\ drivers # <<>>
    /\ Closed({drivers[Len(drivers)].session} \cup LeftOpen)
    /\ ref_cnt' = ref_cnt - 1
    /\ drivers' = SubSeq(drivers, 1, Len(drivers) - 1)
    /\ icon' = (icon /\ Len(drivers) > 1)

(* InitializeDisplay opens a session and closes none: only Finalize might. *)
InitializeDisplay ==
    /\ ~icon
    /\ \/ /\ ref_cnt = 0 /\ UNCHANGED <<sessions, open_sessions, configured, icon>>
       \/ /\ ref_cnt > 0 /\ icon' = TRUE
          /\ \E i \in 1..MaxDriverSessions : OpenSession("Max77620Pmic", i)
    /\ UNCHANGED <<ref_cnt, drivers>>

SessionNext == OpenDriver \/ CloseDriver \/ InitializeDisplay
SessionSpec == SessionInit /\ [][SessionNext]_sessionVars
-----------------------------------------------------------------------------
(* One request.                                                            *)
VARIABLES
    bus,         \* the bus of the device: the power bus I2C5 cannot be reset
    request,     \* what is asked of the device
    phase,       \* where the driver is
    stage,       \* the command of the list that is executed
    words,       \* what is left to send, or what was received
    attempt,     \* DoTransactionWithRetry's i
    tries,       \* RetryUntilSuccess's rounds
    ctl,         \* the controller's registers
    wire,        \* the transfer on the bus
    device       \* the device's registers, and the one selected

transferVars == <<bus, request, phase, stage, words, attempt, tries, ctl, wire, device>>

(* A read or a written value is this long, in words.                       *)
Length == IF bus = "I2C5" THEN 1 ELSE 2

Requests == [op : {"read"}, reg : RegisterIds] \cup [op : {"write"}, reg : RegisterIds]

(* The command lists of ReadI2cRegister and WriteI2cRegister.              *)
Commands(r) ==
    IF r.op = "read" THEN <<[mode |-> "send", data |-> <<r>>],
                            [mode |-> "receive", data |-> <<>>]>>
    ELSE <<[mode |-> "send", data |-> [i \in 1..Length |-> r]]>>
Command == Commands(request)[stage]

SendMask    == {"complete", "no ack", "arb lost", "tx room"}
DoneMask    == {"complete", "no ack", "arb lost"}
ReceiveMask == {"complete", "no ack", "arb lost", "rx data"}

(* I2C_INTERRUPT_STATUS: some bits are kept until cleared, some follow the *)
(* FIFOs.                                                                  *)
Pending(c) == c.status \cup (IF Len(c.tx) < FifoDepth THEN {"tx room"} ELSE {})
                       \cup (IF c.rx # <<>> THEN {"rx data"} ELSE {})
Interrupt == Pending(ctl) \cap ctl.mask # {}

TransferInit ==
    /\ bus \in Buses /\ request \in Requests
    /\ phase = "start" /\ stage = 1 /\ words = <<>> /\ attempt = 0 /\ tries = 0
    /\ ctl = [mask |-> {}, status |-> {}, tx |-> <<>>, rx |-> <<>>, header |-> None]
    /\ wire = None
    /\ device \in [selected : RegisterIds, set : {{}}]     \* what was asked before

driverUnchanged == <<bus, request, stage, attempt, tries, wire, device>>

(* The mask and the status, FlushFifos and the packet's header.            *)
Prepared(mask, header) ==
    [mask |-> mask, status |-> {}, tx |-> <<>>, rx |-> <<>>, header |-> header]

(* Receive starts at the beginning of the destination every time; mutant:  *)
(* where the last try stopped.                                             *)
WhereItStopped == words
Destination == <<>>

StartTransfer ==
    /\ phase = "start"
    /\ IF Command.mode = "send"
       THEN /\ ctl' = Prepared(SendMask, [mode |-> "send", left |-> Len(Command.data)])
            /\ phase' = "fill" /\ words' = Command.data
       ELSE /\ ctl' = Prepared(ReceiveMask, [mode |-> "receive", left |-> Length])
            /\ phase' = "receive" /\ words' = Destination
    /\ UNCHANGED driverUnchanged

(* As many words as the FIFO has room for.                                 *)
FillFifo ==
    /\ phase = "fill"
    /\ LET room == FifoDepth - Len(ctl.tx)
           n    == IF Len(words) < room THEN Len(words) ELSE room
       IN  /\ words' = SubSeq(words, n + 1, Len(words))
           /\ ctl' = [ctl EXCEPT !.tx = @ \o SubSeq(words, 1, n),
                                 !.mask = IF n = Len(words) THEN DoneMask ELSE @]
           /\ phase' = IF n = Len(words) THEN "complete" ELSE "wait for room"
    /\ UNCHANGED driverUnchanged

(* ResetController and FlushFifos, after an error or a timeout.  I2C5 is   *)
(* not reset: the last word of a transfer may still come.                  *)
ResetBus ==
    /\ ctl' = [ctl EXCEPT !.mask = {}, !.tx = <<>>, !.rx = <<>>, !.header = None,
                          !.status = IF bus = "I2C5" THEN @ ELSE {}]
    /\ wire' = IF bus = "I2C5" /\ wire # None /\ wire.left = 1 THEN wire ELSE None

(* RetryUntilSuccess executes the whole list again.                        *)
TryAgain ==
    /\ attempt' = 0 /\ tries' = tries + 1 /\ stage' = 1 /\ UNCHANGED words
    /\ phase' = IF tries + 1 < MaxTries THEN "start" ELSE "failed"

(* TimedOut is repeated by DoTransactionWithRetry, and BusBusy at the end. *)
TimedOut ==
    /\ phase \in {"wait for room", "complete", "receive"} /\ ~Interrupt
    /\ ResetBus
    /\ \/ /\ attempt + 1 <= MaxRetries /\ attempt' = attempt + 1
          /\ phase' = "start" /\ UNCHANGED <<stage, tries, words>>
       \/ attempt + 1 > MaxRetries /\ TryAgain
    /\ UNCHANGED <<bus, request, device>>

Failing == ctl.status \cap {"no ack", "arb lost"} # {}

(* GetAndHandleTransactionResult.                                          *)
HandleError ==
    /\ phase \in {"wait for room", "complete", "receive"} /\ Interrupt /\ Failing
    /\ ResetBus /\ TryAgain
    /\ UNCHANGED <<bus, request, device>>

Woken(p) == phase = p /\ Interrupt /\ ~Failing

RoomAgain ==
    /\ Woken("wait for room") /\ phase' = "fill"
    /\ UNCHANGED <<driverUnchanged, words, ctl>>

Succeed ==
    /\ attempt' = 0
    /\ IF stage = Len(Commands(request)) THEN phase' = "done" /\ UNCHANGED stage
                                         ELSE phase' = "start" /\ stage' = stage + 1
    /\ UNCHANGED <<bus, request, tries, wire, device>>

(* PACKET_XFER_COMPLETE; the mask is cleared on the way out.               *)
SendCompleted ==
    /\ Woken("complete") /\ "complete" \in ctl.status
    /\ ctl' = [ctl EXCEPT !.mask = {}] /\ UNCHANGED words
    /\ Succeed

(* The words in the FIFO, no more than are asked for.  A receive does not  *)
(* wait for the completion, and leaves the mask set.                       *)
ReceiveWords ==
    /\ Woken("receive")
    /\ LET want == Length - Len(words)
           n    == IF Len(ctl.rx) < want THEN Len(ctl.rx) ELSE want
       IN  /\ words' = words \o SubSeq(ctl.rx, 1, n)
           /\ ctl' = [ctl EXCEPT !.rx = SubSeq(@, n + 1, Len(@))]
           /\ IF n = want THEN Succeed ELSE UNCHANGED <<driverUnchanged, phase>>

(* The controller and the device.  A transfer starts when the one before   *)
(* is over; the device may not acknowledge, the bus may be lost.           *)
driverWaits == <<bus, request, phase, stage, words, attempt, tries>>

StartOnWire ==
    /\ ctl.header # None /\ wire = None
    /\ wire' = ctl.header /\ ctl' = [ctl EXCEPT !.header = None]
    /\ UNCHANGED <<driverWaits, device>>

Word(register, i) == <<register, i>>
LastWord == wire.left = 1
Moved == IF LastWord THEN None ELSE [wire EXCEPT !.left = @ - 1]
Completion == IF LastWord THEN {"complete"} ELSE {}

WireSends ==
    /\ wire # None /\ wire.mode = "send" /\ ctl.tx # <<>>
    /\ wire' = Moved
    /\ ctl' = [ctl EXCEPT !.tx = Tail(@), !.status = @ \cup Completion]
    /\ device' = IF ~LastWord THEN device
                 ELSE IF Head(ctl.tx).op = "read" THEN [device EXCEPT !.selected = Head(ctl.tx).reg]
                 ELSE [device EXCEPT !.set = @ \cup {Head(ctl.tx).reg}]
    /\ UNCHANGED driverWaits

WireReceives ==
    /\ wire # None /\ wire.mode = "receive" /\ Len(ctl.rx) < FifoDepth
    /\ wire' = Moved
    /\ ctl' = [ctl EXCEPT !.rx = Append(@, Word(device.selected, Length - wire.left + 1)), !.status = @ \cup Completion]
    /\ UNCHANGED <<driverWaits, device>>

WireFails ==
    /\ wire # None /\ wire' = None
    /\ \E error \in {"no ack", "arb lost"} : ctl' = [ctl EXCEPT !.status = @ \cup {error}]
    /\ UNCHANGED <<driverWaits, device>>

TransferNext ==
    \/ StartTransfer \/ FillFifo \/ RoomAgain \/ SendCompleted \/ ReceiveWords
    \/ TimedOut \/ HandleError
    \/ StartOnWire \/ WireSends \/ WireReceives \/ WireFails
TransferSpec == TransferInit /\ [][TransferNext]_transferVars
-----------------------------------------------------------------------------
(* However the drivers nest, every one of them keeps a session of its own, *)
(* the driver is in use as long as one exists, the buses count the         *)
(* sessions they have, and a bus is set up exactly while it has one: the   *)
(* session the display forgets goes with the last driver.                  *)
SessionsMatch ==
    /\ ref_cnt = Len(drivers)
    /\ \A i, j \in DOMAIN drivers :
          /\ sessions[drivers[i].session] = DeviceBus(drivers[i].device)
          /\ i # j => drivers[i].session # drivers[j].session
    /\ \A b \in Buses :
          /\ open_sessions[b] = Cardinality({i \in DOMAIN sessions : sessions[i] = b})
          /\ b \in configured <=> open_sessions[b] > 0
    /\ ref_cnt = 0 => FreeSessions = DOMAIN sessions

(* A read that succeeds returns what the register asked for holds, a write *)
(* that succeeds has reached the device, whatever was retried before and   *)
(* whatever an earlier transfer left on a bus that cannot be reset.        *)
TransfersTrue ==
    phase = "done" =>
        IF request.op = "read" THEN words = [i \in 1..Length |-> Word(request.reg, i)]
                               ELSE request.reg \in device.set
=============================================================================
