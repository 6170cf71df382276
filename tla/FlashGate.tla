------------------------------- MODULE FlashGate -------------------------------
(***************************************************************************)
(* The cross-core gate around a flash write.  Core0 runs a cooperative     *)
(* executor: midi_task (bank writes), main_task (drains the audio channel  *)
(* into I2S) and logger_task (drains the status channel).  Core1 runs the  *)
(* DSP loop, whose delay lines live in the PSRAM on the bus the flash      *)
(* uses.  Every load and store of the three flags is a step of its own;    *)
(* the stores are STL and the loads LDA on the Cortex-M33, which keeps     *)
(* them in program order, so sequential consistency is the right memory    *)
(* model for them.                                                         *)
(***************************************************************************)
EXTENDS Naturals

CONSTANTS
  NSectors,    \* sectors of a bank write (7 in the firmware)
  AudioCap,    \* capacity of AUDIO_CHANNEL (4)
  StatusCap    \* capacity of SYSTEM_STATUS_CHANNEL (4)

ASSUME NSectorsAssumption  == NSectors \in Nat \ {0}
ASSUME AudioCapAssumption  == AudioCap \in Nat \ {0}
ASSUME StatusCapAssumption == StatusCap \in Nat \ {0}

VARIABLES
  raised,              \* which of the three cross-core flags are set
  fpc,                 \* where midi_task is in storage.write_raw
  off,                 \* sectors of the current write already programmed
  psram,               \* state of the CS1 controller
  pc1,                 \* where core1_task is
  logLeft,             \* status messages core1 still has to send at this point
  presetLen,           \* fill of PRESET_CHANNEL (capacity 1)
  audioLen, statusLen, \* fill of AUDIO_CHANNEL and SYSTEM_STATUS_CHANNEL
  lpc                  \* logger_task: in its start-up "delay" or its "loop"

core0  == <<fpc, off, psram>>
core1  == <<pc1, logLeft>>
queues == <<presetLen, audioLen, statusLen, lpc>>
vars   == <<raised, core0, core1, queues>>

Minimum(a, b) == IF a < b THEN a ELSE b

\* Runs of consecutive blocking status sends in core1_task: how many messages,
\* and what core1 does after the last one.
LogRuns == {"log_start", "log_booted", "log_switch", "log_switched"}
LogLen(p)  == IF p = "log_start" THEN 2 ELSE IF p = "log_booted" THEN 6 ELSE 5
LogThen(p) == CASE p = "log_start"  -> "build"   [] p = "log_booted"   -> "run"
                [] p = "log_switch" -> "rebuild" [] p = "log_switched" -> "process"

GatePcs  == {"top", "ack", "spin", "unack"}
Core1Pcs == GatePcs \union LogRuns
            \union {"build", "run", "poll", "rebuild", "process", "send"}
InSector == {"erase", "program", "settle", "reinit", "unlock"}
FlashPcs == InSector \union {"bootwait", "idle", "lock", "check", "wait"}

\* Mutation: core0 busy-waits for the acknowledgement.
BusyWaitYields == fpc \in {"bootwait", "idle"}

\* Core0's executor is cooperative: another task runs only while midi_task is
\* suspended at an await that is not ready.  The flash operations never are.
Core0Yields == fpc \in {"bootwait", "idle", "wait"}

(***************************************************************************)
(* main(): the flags are clear and core1 was just spawned.  A stale bank   *)
(* defers its format to midi_task, which waits for core1; the boot has     *)
(* queued one status message, two when it also loaded the boot preset.     *)
(***************************************************************************)
Init ==
  /\ raised = {}
  /\ off = 0 /\ psram = "ready"
  /\ pc1 = "log_start" /\ logLeft = LogLen("log_start")
  /\ presetLen = 0 /\ audioLen = 0 /\ lpc = "delay"
  /\ \/ fpc = "bootwait" /\ statusLen = Minimum(1, StatusCap)
     \/ fpc = "idle"     /\ statusLen = Minimum(2, StatusCap)

\* log_storage!: a status message is dropped when the channel is full.
TryStatus(n) == statusLen' = Minimum(statusLen + n, StatusCap)

------------------------------------------------------------------------------
(* Mutations of the handlers below: each is a bug one of the runs must find. *)

\* Mutation: the acknowledgement is never waited for.
CheckRunningNoWait ==
  /\ fpc = "check"
  /\ fpc' = "erase"
  /\ UNCHANGED <<raised, off, psram, core1, queues>>

\* Mutation: the poll gives up after one sleep.
SeeAckGivesUp ==
  /\ fpc = "wait"
  /\ fpc' = "erase"
  /\ UNCHANGED <<raised, off, psram, core1, queues>>

\* Mutation: the loop test lets one sector too many through.
UnlockOneTooMany ==
  /\ fpc = "unlock"
  /\ raised' = raised \ {"REQ"} /\ off' = off + 1
  /\ \/ off' <= NSectors /\ fpc' = "lock" /\ UNCHANGED statusLen
     \/ off' > NSectors /\ fpc' = "idle" /\ \E n \in 1..2 : TryStatus(n)
  /\ UNCHANGED <<psram, core1, presetLen, audioLen, lpc>>

\* Mutation: the request is left raised.
UnlockKeepsReq ==
  /\ fpc = "unlock"
  /\ off' = off + 1
  /\ \/ off' < NSectors /\ fpc' = "lock" /\ UNCHANGED statusLen
     \/ off' = NSectors /\ fpc' = "idle" /\ \E n \in 1..2 : TryStatus(n)
  /\ UNCHANGED <<raised, psram, core1, presetLen, audioLen, lpc>>

\* Mutation: the logger waits for core1 before it prints anything.
LoggerWaitsForCore1 ==
  /\ Core0Yields /\ lpc = "delay" /\ "RUNNING" \in raised
  /\ lpc' = "loop"
  /\ UNCHANGED <<raised, core0, core1, presetLen, audioLen, statusLen>>

\* Mutation: core1 goes on with its block instead of looking at the request again.
ClearAckNoContinue ==
  /\ pc1 = "unack"
  /\ raised' = raised \ {"ACK"} /\ pc1' = "poll"
  /\ UNCHANGED <<core0, logLeft, queues>>

\* Mutation: the acknowledgement is not withdrawn.
ClearAckKeepsAck ==
  /\ pc1 = "unack"
  /\ pc1' = "top"
  /\ UNCHANGED <<raised, core0, logLeft, queues>>

------------------------------------------------------------------------------
(* midi_task on core0 *)

\* write_raw is entered: by the deferred boot format once core1 runs, by the
\* "reset" command, or by a SysEx bank write.
StartWrite ==
  /\ \/ fpc = "bootwait" /\ "RUNNING" \in raised
     \/ fpc = "idle"
  /\ fpc' = "lock" /\ off' = 0
  /\ \E n \in 1..2 : TryStatus(n)
  /\ UNCHANGED <<raised, psram, core1, presetLen, audioLen, lpc>>

\* lock_core1_off_psram: raise the request ...
RaiseReq ==
  /\ fpc = "lock"
  /\ raised' = raised \union {"REQ"} /\ fpc' = "check"
  /\ UNCHANGED <<off, psram, core1, queues>>

\* ... and skip the wait when core1 is not running yet.
CheckRunning ==
  /\ fpc = "check"
  /\ fpc' = IF "RUNNING" \in raised THEN "wait" ELSE "erase"
  /\ UNCHANGED <<raised, off, psram, core1, queues>>

\* One successful poll of the acknowledgement (an unsuccessful one sleeps 50 us).
SeeAck ==
  /\ fpc = "wait" /\ "ACK" \in raised
  /\ fpc' = "erase"
  /\ UNCHANGED <<raised, off, psram, core1, queues>>

\* The flash operations pause core1 over the SIO FIFO while they last, so each
\* is one step; core1 runs on in the gaps between them.
Erase ==
  /\ fpc = "erase"
  /\ fpc' = "program" /\ psram' = "clobbered"
  /\ UNCHANGED <<raised, off, core1, queues>>

Program ==
  /\ fpc = "program"
  /\ fpc' = "settle" /\ psram' = "clobbered"
  /\ UNCHANGED <<raised, off, core1, queues>>

\* after_flash_write: one millisecond of idle settling ...
Settle ==
  /\ fpc = "settle"
  /\ fpc' = "reinit" /\ psram' = "settled"
  /\ UNCHANGED <<raised, off, core1, queues>>

\* ... then the full re-initialisation, whose failure is logged and ignored.
Reinit ==
  /\ fpc = "reinit"
  /\ fpc' = "unlock" /\ psram' \in {"ready", "failed"}
  /\ UNCHANGED <<raised, off, core1, queues>>

\* unlock_core1, and the loop test of write_raw.
Unlock ==
  /\ fpc = "unlock"
  /\ raised' = raised \ {"REQ"} /\ off' = off + 1
  /\ \/ off' < NSectors /\ fpc' = "lock" /\ UNCHANGED statusLen
     \/ off' = NSectors /\ fpc' = "idle" /\ \E n \in 1..2 : TryStatus(n)
  /\ UNCHANGED <<psram, core1, presetLen, audioLen, lpc>>

\* load_and_apply_preset: one status message, and on success the preset is
\* offered to core1 (dropped when one is pending already).
LoadPreset ==
  /\ fpc = "idle"
  /\ TryStatus(1)
  /\ presetLen' \in {presetLen, 1}
  /\ UNCHANGED <<raised, core0, core1, audioLen, lpc>>

------------------------------------------------------------------------------
(* The other tasks of core0 *)

\* main_task takes a block for the next DMA transfer.
DrainAudio ==
  /\ Core0Yields /\ audioLen > 0
  /\ audioLen' = audioLen - 1
  /\ UNCHANGED <<raised, core0, core1, presetLen, statusLen, lpc>>

\* logger_task starts two seconds after main_task spawned it.
LoggerStart ==
  /\ Core0Yields /\ lpc = "delay"
  /\ lpc' = "loop"
  /\ UNCHANGED <<raised, core0, core1, presetLen, audioLen, statusLen>>

DrainStatus ==
  /\ Core0Yields /\ lpc = "loop" /\ statusLen > 0
  /\ statusLen' = statusLen - 1
  /\ UNCHANGED <<raised, core0, core1, presetLen, audioLen, lpc>>

------------------------------------------------------------------------------
(* core1_task *)

\* log_status!: SYSTEM_STATUS_CHANNEL.send(..).await blocks while it is full.
SendStatus ==
  /\ pc1 \in LogRuns /\ statusLen < StatusCap
  /\ statusLen' = statusLen + 1 /\ logLeft' = logLeft - 1
  /\ pc1' = IF logLeft = 1 THEN LogThen(pc1) ELSE pc1
  /\ UNCHANGED <<raised, core0, presetLen, audioLen, lpc>>

\* build_synth zero-fills both delay lines in the PSRAM.
Build ==
  /\ \/ pc1 = "build"   /\ pc1' = "log_booted"
     \/ pc1 = "rebuild" /\ pc1' = "log_switched"
  /\ logLeft' = LogLen(pc1')
  /\ UNCHANGED <<raised, core0, queues>>

AnnounceRunning ==
  /\ pc1 = "run"
  /\ raised' = raised \union {"RUNNING"} /\ pc1' = "top"
  /\ UNCHANGED <<core0, logLeft, queues>>

\* The loop top: one load of the request.
CheckReq ==
  /\ pc1 = "top"
  /\ pc1' = IF "REQ" \in raised THEN "ack" ELSE "poll"
  /\ UNCHANGED <<raised, core0, logLeft, queues>>

RaiseAck ==
  /\ pc1 = "ack"
  /\ raised' = raised \union {"ACK"} /\ pc1' = "spin"
  /\ UNCHANGED <<core0, logLeft, queues>>

\* The spin ends when a load finds the request cleared.
SpinEnds ==
  /\ pc1 = "spin" /\ "REQ" \notin raised
  /\ pc1' = "unack"
  /\ UNCHANGED <<raised, core0, logLeft, queues>>

\* The acknowledgement is withdrawn, and the request is looked at again.
ClearAck ==
  /\ pc1 = "unack"
  /\ raised' = raised \ {"ACK"} /\ pc1' = "top"
  /\ UNCHANGED <<core0, logLeft, queues>>

\* PRESET_CHANNEL.try_receive: a new preset drops the synth and rebuilds it.
PollPreset ==
  /\ pc1 = "poll"
  /\ IF presetLen > 0
       THEN pc1' = "log_switch" /\ logLeft' = LogLen("log_switch")
       ELSE pc1' = "process" /\ UNCHANGED logLeft
  /\ presetLen' = 0
  /\ UNCHANGED <<raised, core0, audioLen, statusLen, lpc>>

\* The synth renders a block, reading and writing the delay lines.
Process ==
  /\ pc1 = "process"
  /\ pc1' = "send"
  /\ UNCHANGED <<raised, core0, logLeft, queues>>

\* AUDIO_CHANNEL.send(..).await blocks while the channel is full.
SendAudio ==
  /\ pc1 = "send" /\ audioLen < AudioCap
  /\ audioLen' = audioLen + 1 /\ pc1' = "top"
  /\ UNCHANGED <<raised, core0, logLeft, presetLen, statusLen, lpc>>

------------------------------------------------------------------------------
\* The steps of write_raw that midi_task takes without any new input.
WriteStep == RaiseReq \/ CheckRunning \/ SeeAck \/ Erase \/ Program
             \/ Settle \/ Reinit \/ Unlock

Core1Step == SendStatus \/ Build \/ AnnounceRunning \/ CheckReq \/ RaiseAck
             \/ SpinEnds \/ ClearAck \/ PollPreset \/ Process \/ SendAudio

Next == StartWrite \/ WriteStep \/ LoadPreset
        \/ DrainAudio \/ LoggerStart \/ DrainStatus \/ Core1Step

Spec == Init /\ [][Next]_vars

\* The executor polls every woken task, the DMA and the USB timeout always
\* wake theirs again, and core1 is never preempted for good.  Nothing forces
\* the host to ask for a write or for a preset.
Fairness == /\ WF_vars(WriteStep) /\ WF_vars(StartWrite /\ fpc = "bootwait")
            /\ WF_vars(DrainAudio) /\ WF_vars(LoggerStart) /\ WF_vars(DrainStatus)
            /\ WF_vars(Core1Step)

FairSpec == Spec /\ Fairness

------------------------------------------------------------------------------
(* Properties *)

TypeOK ==
  /\ raised \subseteq {"REQ", "ACK", "RUNNING"}
  /\ fpc \in FlashPcs /\ off \in 0..NSectors
  /\ psram \in {"ready", "clobbered", "settled", "failed"}
  /\ pc1 \in Core1Pcs
  /\ logLeft \in 0..6
  /\ pc1 \in LogRuns => logLeft \in 1..LogLen(pc1)
  /\ presetLen \in 0..1 /\ lpc \in {"delay", "loop"}
  /\ audioLen \in 0..AudioCap /\ statusLen \in 0..StatusCap

\* Core1 is inside the PSRAM from its loop.  The build before CORE1_RUNNING is
\* not covered by the gate (lock_core1_off_psram does not wait for it).
DspInPsram == pc1 \in {"rebuild", "process"}
BootPcs    == {"log_start", "build", "log_booted", "run"}

\* Once core1 runs, it is never inside the PSRAM while core0 is between the
\* first erase of a sector and the release of the gate, whatever the order of
\* the stores and loads of the three flags.
GateExclusion == fpc \in InSector => ~DspInPsram

\* So the DSP never reads or writes the delay lines through a CS1 controller
\* that a flash operation has clobbered or that is still in its recovery window.
NoTouchInRecovery == DspInPsram => psram \in {"ready", "failed"}

\* The facts that make the gate inductive.  An acknowledgement left over from
\* the previous sector is harmless because core1 looks at the request again
\* before it leaves the gate.
GateInv ==
  /\ "ACK" \in raised <=> pc1 \in {"spin", "unack"}
  /\ "RUNNING" \in raised <=> pc1 \notin BootPcs
  /\ "REQ" \in raised <=> fpc \in InSector \union {"check", "wait"}
  /\ fpc = "wait" => "RUNNING" \in raised
  /\ fpc \in InSector => pc1 \in GatePcs \union BootPcs
  /\ psram \in {"clobbered", "settled"} <=> fpc \in {"program", "settle", "reinit"}

\* Every bank write that was started is finished: core0 waiting for core1's
\* acknowledgement, core1 blocked on a full audio or status channel, and the
\* tasks of core0 that drain them never wait for each other in a circle.
WriteCompletes == (fpc = "lock") ~> (fpc = "idle")

\* The deferred boot format waits for CORE1_RUNNING, which core1 raises only
\* after eight messages through a status channel nobody drains for two seconds.
BootFormatDone == (fpc = "bootwait") ~> (fpc = "idle")

\* When the host is done writing, core1 does not stay parked.
GateReleases == ~<>[](pc1 = "spin" /\ fpc = "idle")

\* after_flash_write: "Caller must have core1 parked".
ParkedForReinit == fpc \in {"settle", "reinit"} => pc1 \in GatePcs

(***************************************************************************)
(* FlashGate implements PsramBus.                                          *)
(***************************************************************************)
Bus == INSTANCE PsramBus WITH
         writer <- IF fpc \in InSector THEN "in"
                   ELSE IF fpc \in {"lock", "check", "wait"} THEN "waiting" ELSE "out",
         dsp    <- IF DspInPsram THEN "in" ELSE "out",
         sector <- off

\* The two cores carry out every bank write sector by sector, each sector with
\* the DSP out of the PSRAM, as PsramBus promises.
ImplementsBus == Bus!Spec
==============================================================================
