---------------------------- MODULE FlashGateProofs ----------------------------
(***************************************************************************)
(* The gate is correct for every number of sectors and every capacity of   *)
(* the audio and status channels.                                          *)
(***************************************************************************)
EXTENDS FlashGate, TLAPS

\* The smaller of two numbers is bounded by the second.
LEMMA MinimumBound ==
  ASSUME NEW a \in Nat, NEW b \in Nat
  PROVE  Minimum(a, b) \in 0..b
BY DEF Minimum

\* A status message that may be dropped never overfills the channel.
LEMMA TryStatusBound ==
  ASSUME statusLen \in 0..StatusCap, NEW n \in Nat, TryStatus(n)
  PROVE  statusLen' \in 0..StatusCap
BY StatusCapAssumption, MinimumBound DEF TryStatus

\* Every state of the gate is well typed: in particular the sector counter never
\* runs past the bank, and no bounded channel is ever over-full.
THEOREM TypeCorrect == Spec => []TypeOK
<1> USE NSectorsAssumption, AudioCapAssumption, StatusCapAssumption
    DEF FlashPcs, InSector, Core1Pcs, GatePcs, LogRuns, LogLen
<1>1. Init => TypeOK
  <2>1. Minimum(1, StatusCap) \in 0..StatusCap /\ Minimum(2, StatusCap) \in 0..StatusCap
    BY DEF Minimum
  <2>2. QED BY <2>1 DEF Init, TypeOK
<1>2. TypeOK /\ [Next]_vars => TypeOK'
  <2> SUFFICES ASSUME TypeOK, [Next]_vars PROVE TypeOK'
    OBVIOUS
  <2> USE DEF TypeOK, core0, core1, queues
  <2>1. CASE StartWrite
    <3>1. statusLen' \in 0..StatusCap
      BY <2>1, TryStatusBound DEF StartWrite
    <3>2. QED BY <2>1, <3>1 DEF StartWrite
  <2>2. CASE Unlock
    <3>1. statusLen' \in 0..StatusCap
      BY <2>2, TryStatusBound DEF Unlock
    <3>2. off' \in 0..NSectors
      BY <2>2 DEF Unlock
    <3>3. QED BY <2>2, <3>1, <3>2 DEF Unlock
  <2>3. CASE LoadPreset
    <3>1. statusLen' \in 0..StatusCap
      BY <2>3, TryStatusBound DEF LoadPreset
    <3>2. QED BY <2>3, <3>1 DEF LoadPreset
  <2>4. CASE RaiseReq \/ CheckRunning \/ SeeAck
    BY <2>4 DEF RaiseReq, CheckRunning, SeeAck
  <2>5. CASE Erase \/ Program \/ Settle \/ Reinit
    BY <2>5 DEF Erase, Program, Settle, Reinit
  <2>6. CASE DrainAudio \/ LoggerStart \/ DrainStatus
    <3>1. CASE DrainAudio
      <4>1. audioLen' \in 0..AudioCap
        BY <3>1 DEF DrainAudio
      <4>2. UNCHANGED <<raised, fpc, off, psram, pc1, logLeft, presetLen, lpc, statusLen>>
        BY <3>1 DEF DrainAudio
      <4>3. QED BY <4>1, <4>2
    <3>2. CASE LoggerStart
      <4>1. lpc' = "loop"
        BY <3>2 DEF LoggerStart
      <4>2. UNCHANGED <<raised, fpc, off, psram, pc1, logLeft, presetLen, audioLen, statusLen>>
        BY <3>2 DEF LoggerStart
      <4>3. QED BY <4>1, <4>2
    <3>3. CASE DrainStatus
      <4>1. statusLen' \in 0..StatusCap
        BY <3>3 DEF DrainStatus
      <4>2. UNCHANGED <<raised, fpc, off, psram, pc1, logLeft, presetLen, audioLen, lpc>>
        BY <3>3 DEF DrainStatus
      <4>3. QED BY <4>1, <4>2
    <3>4. QED BY <2>6, <3>1, <3>2, <3>3
  <2>7. CASE SendStatus
    <3>1. pc1' \in Core1Pcs
      BY <2>7 DEF SendStatus, LogThen
    <3>2. /\ logLeft' \in 0..6
          /\ pc1' \in LogRuns => logLeft' \in 1..LogLen(pc1')
      BY <2>7 DEF SendStatus, LogThen
    <3>3. QED BY <2>7, <3>1, <3>2 DEF SendStatus
  <2>8. CASE Build
    BY <2>8 DEF Build
  <2>9. CASE AnnounceRunning \/ CheckReq \/ RaiseAck \/ SpinEnds \/ ClearAck
    BY <2>9 DEF AnnounceRunning, CheckReq, RaiseAck, SpinEnds, ClearAck
  <2>10. CASE PollPreset
    BY <2>10 DEF PollPreset
  <2>11. CASE Process \/ SendAudio
    <3>1. audioLen' \in 0..AudioCap
      BY <2>11 DEF Process, SendAudio
    <3>2. QED BY <2>11, <3>1 DEF Process, SendAudio
  <2>12. CASE UNCHANGED vars
    BY <2>12 DEF vars
  <2>13. QED
    BY <2>1, <2>2, <2>3, <2>4, <2>5, <2>6, <2>7, <2>8, <2>9, <2>10, <2>11, <2>12
    DEF Next, WriteStep, Core1Step
<1>3. QED BY <1>1, <1>2, PTL DEF Spec

\* The inductive core: who may be where while the request is raised.
THEOREM GateInvariant == Spec => []GateInv
<1> USE DEF FlashPcs, InSector, Core1Pcs, GatePcs, LogRuns, LogLen, BootPcs
<1>1. Init => GateInv
  BY DEF Init, GateInv
<1>2. TypeOK /\ GateInv /\ [Next]_vars => GateInv'
  <2> SUFFICES ASSUME TypeOK, GateInv, [Next]_vars PROVE GateInv'
    OBVIOUS
  <2> USE DEF TypeOK, GateInv, core0, core1, queues
  <2>1. CASE StartWrite \/ LoadPreset
    BY <2>1 DEF StartWrite, LoadPreset
  <2>2. CASE RaiseReq \/ CheckRunning
    BY <2>2 DEF RaiseReq, CheckRunning
  <2>3. CASE SeeAck
    BY <2>3 DEF SeeAck
  <2>4. CASE Erase \/ Program \/ Settle \/ Reinit
    BY <2>4 DEF Erase, Program, Settle, Reinit
  <2>5. CASE Unlock
    BY <2>5 DEF Unlock
  <2>6. CASE DrainAudio \/ LoggerStart \/ DrainStatus
    BY <2>6 DEF DrainAudio, LoggerStart, DrainStatus
  <2>7. CASE SendStatus
    <3>1. pc1 \in BootPcs <=> pc1' \in BootPcs
      BY <2>7 DEF SendStatus, LogThen
    <3>2. pc1' \notin {"spin", "unack"} /\ pc1 \notin {"spin", "unack"}
      BY <2>7 DEF SendStatus, LogThen
    <3>3. fpc \in InSector => pc1 \in BootPcs
      BY <2>7 DEF SendStatus
    <3>4. QED BY <2>7, <3>1, <3>2, <3>3 DEF SendStatus
  <2>8. CASE Build \/ AnnounceRunning
    BY <2>8 DEF Build, AnnounceRunning
  <2>9. CASE CheckReq \/ RaiseAck \/ SpinEnds \/ ClearAck
    BY <2>9 DEF CheckReq, RaiseAck, SpinEnds, ClearAck
  <2>10. CASE PollPreset \/ Process \/ SendAudio
    BY <2>10 DEF PollPreset, Process, SendAudio
  <2>11. CASE UNCHANGED vars
    BY <2>11 DEF vars
  <2>12. QED
    BY <2>1, <2>2, <2>3, <2>4, <2>5, <2>6, <2>7, <2>8, <2>9, <2>10, <2>11
    DEF Next, WriteStep, Core1Step
<1>3. QED BY <1>1, <1>2, TypeCorrect, PTL DEF Spec

\* Once core1 runs it is out of the PSRAM for the whole of every sector cycle.
THEOREM Exclusion == Spec => []GateExclusion
<1>1. GateInv => GateExclusion
  BY DEF GateInv, GateExclusion, DspInPsram, GatePcs, BootPcs, InSector
<1>2. QED BY <1>1, GateInvariant, PTL

\* The DSP never works through a clobbered or a recovering CS1 controller.
THEOREM RecoveryUntouched == Spec => []NoTouchInRecovery
<1>1. TypeOK /\ GateInv => NoTouchInRecovery
  BY DEF TypeOK, GateInv, NoTouchInRecovery, DspInPsram, GatePcs, BootPcs, InSector
<1>2. QED BY <1>1, TypeCorrect, GateInvariant, PTL

\* The safety half of the refinement: every step of the two cores is a step of
\* PsramBus or a stutter.
THEOREM RefinesBus == Spec => Bus!SafeSpec
<1> USE DEF FlashPcs, InSector, Core1Pcs, GatePcs, BootPcs, DspInPsram
<1>1. Init => Bus!Init
  BY DEF Init, Bus!Init
<1>2. TypeOK /\ GateInv /\ [Next]_vars => [Bus!Next]_(Bus!vars)
  <2> SUFFICES ASSUME TypeOK, GateInv, [Next]_vars PROVE [Bus!Next]_(Bus!vars)
    OBVIOUS
  <2> USE DEF TypeOK, GateInv, core0, core1, queues, Bus!vars, Bus!Next
  <2>1. CASE StartWrite
    BY <2>1 DEF StartWrite, Bus!WriterAsks
  <2>2. CASE CheckRunning
    BY <2>2 DEF CheckRunning, Bus!WriterEnters
  <2>3. CASE SeeAck
    BY <2>3 DEF SeeAck, Bus!WriterEnters
  <2>4. CASE Unlock
    BY <2>4 DEF Unlock, Bus!WriterLeaves
  <2>5. CASE RaiseReq \/ Erase \/ Program \/ Settle \/ Reinit \/ LoadPreset
    BY <2>5 DEF RaiseReq, Erase, Program, Settle, Reinit, LoadPreset
  <2>6. CASE DrainAudio \/ LoggerStart \/ DrainStatus
    BY <2>6 DEF DrainAudio, LoggerStart, DrainStatus
  <2>7. CASE SendStatus
    <3>1. fpc \in InSector => pc1 \in BootPcs
      BY <2>7 DEF SendStatus, LogRuns
    <3>2. pc1 \in BootPcs => pc1' \notin {"rebuild", "process"}
      BY <2>7 DEF SendStatus, LogRuns, LogThen
    <3>3. QED BY <2>7, <3>1, <3>2 DEF SendStatus, LogRuns, Bus!DspEnter
  <2>8. CASE Build
    BY <2>8 DEF Build, Bus!DspLeave
  <2>9. CASE AnnounceRunning \/ CheckReq \/ RaiseAck \/ SpinEnds \/ ClearAck \/ SendAudio
    BY <2>9 DEF AnnounceRunning, CheckReq, RaiseAck, SpinEnds, ClearAck, SendAudio
  <2>10. CASE PollPreset
    BY <2>10 DEF PollPreset, Bus!DspEnter
  <2>11. CASE Process
    BY <2>11 DEF Process, Bus!DspLeave
  <2>12. CASE UNCHANGED vars
    BY <2>12 DEF vars
  <2>13. QED
    BY <2>1, <2>2, <2>3, <2>4, <2>5, <2>6, <2>7, <2>8, <2>9, <2>10, <2>11, <2>12
    DEF Next, WriteStep, Core1Step
<1>3. QED
  BY <1>1, <1>2, TypeCorrect, GateInvariant, PTL DEF Spec, Bus!SafeSpec
==============================================================================
