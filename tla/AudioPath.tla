------------------------------- MODULE AudioPath -------------------------------
(***************************************************************************)
(* The audio output: core1 sends blocks through AUDIO_CHANNEL to           *)
(* main_task, which plays them from two DMA buffers and offers a copy of   *)
(* each to USB_AUDIO_CHANNEL, the tee.  microphone_task cuts the copies    *)
(* into packets for a host that opens, closes, suspends, resets or simply  *)
(* stops polling the stream.  Blocks are numbered from 1 (0 is the silence *)
(* the DMA buffers start with), frames through all blocks from 1.          *)
(* `played`, `dropped` and `lastSent` record what the code does not: the   *)
(* block the DAC played last, the blocks the tee had no room for, and the  *)
(* last frame the host was sent.                                           *)
(***************************************************************************)
EXTENDS Naturals, Sequences

CONSTANTS
  AudioCap,     \* capacity of AUDIO_CHANNEL (4)
  TeeCap,       \* capacity of USB_AUDIO_CHANNEL (2)
  BlockFrames,  \* frames of a block (BLOCK_SIZE / 2 = 128)
  PacketFrames, \* FRAMES_PER_PACKET (48)
  MaxBlocks     \* bound on the blocks core1 produces

ASSUME CapAssumption    == AudioCap \in Nat \ {0} /\ TeeCap \in Nat \ {0}
ASSUME FramesAssumption == BlockFrames \in Nat \ {0} /\ PacketFrames \in Nat \ {0}
ASSUME BlocksAssumption == MaxBlocks \in Nat

VARIABLES
  produced,    \* the last block core1 sent
  audio, tee,  \* AUDIO_CHANNEL, USB_AUDIO_CHANNEL
  ipc,         \* main_task: at i2s.write, at receive, or at dma_future.await
  dma,         \* DMA_CH1
  front, back, \* the blocks in the two DMA buffers; the DMA reads front
  underrun,    \* 1 if this round found AUDIO_CHANNEL empty and counted it
  mpc,         \* microphone_task
  block, idx, packet, \* its block, the frames used up of it, the frames collected
  alt, bus,    \* the alternate setting the host has selected; the USB bus
  streaming,   \* USB_AUDIO_STREAMING
  played, dropped, lastSent

dac  == <<produced, audio, ipc, dma, front, back, underrun, played>>
mic  == <<mpc, block, idx, packet, lastSent>>
host == <<alt, bus, streaming>>
vars == <<dac, tee, dropped, mic, host>>

Init == /\ produced = 0 /\ audio = <<>> /\ tee = <<>>
        /\ ipc = "write" /\ dma = "idle" /\ front = 0 /\ back = 0 /\ underrun = 0
        /\ mpc = "check" /\ block = 0 /\ idx = BlockFrames /\ packet = <<>>
        /\ alt = 0 /\ bus = "up" /\ streaming = 0
        /\ played = 0 /\ dropped = {} /\ lastSent = 0

Minimum(a, b) == IF a < b THEN a ELSE b

\* The next frames of block b, of which i are used up, that fit in a packet with c frames.
NextFrames(b, i, c) ==
  [k \in 1..Minimum(BlockFrames - i, PacketFrames - c) |-> (b - 1) * BlockFrames + i + k]

------------------------------------------------------------------------------
(* Mutations of the handlers below: each is a bug one of the runs must find. *)

\* Mutation: the buffers are swapped before the DMA has finished.
SwapEarly == /\ ipc = "await"
             /\ front' = back /\ back' = front /\ ipc' = "write"
             /\ UNCHANGED <<produced, audio, dma, underrun, played, tee, dropped, mic, host>>

\* Mutation: main_task waits until the tee has room.
TeeBlocks(b) == /\ Len(tee) < TeeCap
                /\ tee' = Append(tee, b) /\ UNCHANGED dropped

\* Mutation: the queue is looked at only after the receive.
StartDmaUncounted == /\ ipc = "write"
                     /\ dma' = "busy" /\ underrun' = 0 /\ ipc' = "receive"
                     /\ UNCHANGED <<produced, audio, front, back, played, tee, dropped, mic, host>>

\* Mutation: a block is thrown away while the stream is closed, but the one
\* that was being cut is not.
DrainKeepsBlock == /\ mpc = "drain" /\ tee # <<>>
                   /\ tee' = Tail(tee) /\ mpc' = "check"
                   /\ UNCHANGED <<dac, dropped, block, idx, packet, lastSent, host>>

\* Mutation: a write that timed out starts the block again.
WriteTimeoutRewinds == /\ mpc = "write" /\ mpc' = "check" /\ packet' = <<>> /\ idx' = 0
                       /\ UNCHANGED <<dac, tee, dropped, block, lastSent, host>>

\* Mutation: the write has no timeout.
WriteWaits == FALSE /\ UNCHANGED vars

------------------------------------------------------------------------------
(* core1_task *)

\* AUDIO_CHANNEL.send(..).await.
SendBlock == /\ produced < MaxBlocks /\ Len(audio) < AudioCap
             /\ produced' = produced + 1 /\ audio' = Append(audio, produced + 1)
             /\ UNCHANGED <<ipc, dma, front, back, underrun, played, tee, dropped, mic, host>>

------------------------------------------------------------------------------
(* main_task *)

\* USB_AUDIO_CHANNEL.try_send: a full tee drops the new block.
Tee(b) == IF Len(tee) < TeeCap
            THEN tee' = Append(tee, b) /\ UNCHANGED dropped
            ELSE UNCHANGED tee /\ dropped' = dropped \union {b}

\* i2s.write(front) starts the DMA; then the queue is looked at.
StartDma == /\ ipc = "write"
            /\ dma' = "busy" /\ ipc' = "receive"
            /\ underrun' = IF audio = <<>> THEN 1 ELSE 0
            /\ UNCHANGED <<produced, audio, front, back, played, tee, dropped, mic, host>>

\* AUDIO_CHANNEL.receive, the copy for the tee, and the samples for the back buffer.
TakeBlock == /\ ipc = "receive" /\ audio # <<>>
             /\ audio' = Tail(audio) /\ back' = Head(audio) /\ Tee(Head(audio))
             /\ ipc' = "await"
             /\ UNCHANGED <<produced, dma, front, underrun, played, mic, host>>

\* dma_future.await, and the two buffers change places.
Swap == /\ ipc = "await" /\ dma = "idle"
        /\ front' = back /\ back' = front /\ ipc' = "write"
        /\ UNCHANGED <<produced, audio, dma, underrun, played, tee, dropped, mic, host>>

\* The DMA has sent the front buffer to the DAC.
DmaDone == /\ dma = "busy" /\ dma' = "idle"
           /\ played' = IF front = 0 THEN played ELSE front
           /\ UNCHANGED <<produced, audio, ipc, front, back, underrun, tee, dropped, mic, host>>

------------------------------------------------------------------------------
(* microphone_task.  Every round of its loop begins with an empty packet. *)

Check == /\ mpc = "check"
         /\ mpc' = IF streaming = 1 THEN "collect" ELSE "drain"
         /\ UNCHANGED <<dac, tee, dropped, block, idx, packet, lastSent, host>>

\* With the stream closed a block is received and thrown away.
Drain == /\ mpc = "drain" /\ tee # <<>>
         /\ tee' = Tail(tee) /\ idx' = BlockFrames /\ mpc' = "check"
         /\ UNCHANGED <<dac, dropped, block, packet, lastSent, host>>

\* One turn of the collecting loop, with the next block when this one is used up.
Take(b, i) ==
  /\ packet' = packet \o NextFrames(b, i, Len(packet))
  /\ block' = b /\ idx' = i + Minimum(BlockFrames - i, PacketFrames - Len(packet))
  /\ mpc' = IF Len(packet') = PacketFrames THEN "write" ELSE "collect"

Collect == /\ mpc = "collect"
           /\ \/ idx < BlockFrames /\ Take(block, idx) /\ UNCHANGED tee
              \/ idx = BlockFrames /\ tee # <<>> /\ Take(Head(tee), 0) /\ tee' = Tail(tee)
           /\ UNCHANGED <<dac, dropped, lastSent, host>>

\* write_packet: the endpoint takes the packet ...
WriteDone == /\ mpc = "write" /\ mpc' = "check" /\ packet' = <<>> /\ lastSent' = packet[PacketFrames]
             /\ UNCHANGED <<dac, tee, dropped, block, idx, host>>

\* ... or is disabled, which the loop does not tell from success ...
WriteFails == /\ mpc = "write" /\ alt = 0 /\ mpc' = "check" /\ packet' = <<>>
              /\ UNCHANGED <<dac, tee, dropped, block, idx, lastSent, host>>

\* ... or does not answer for 10 ms, and the rest of the block is given up.
WriteTimeout == /\ mpc = "write" /\ mpc' = "check" /\ packet' = <<>> /\ idx' = BlockFrames
                /\ UNCHANGED <<dac, tee, dropped, block, lastSent, host>>

------------------------------------------------------------------------------
(* uac1::Control, called for what the host does *)

SelectAlt(a) == /\ bus = "up"
                /\ alt' = a /\ streaming' = a
                /\ UNCHANGED <<bus, dac, tee, dropped, mic>>

Suspend == /\ bus = "up" /\ bus' = "suspended" /\ streaming' = 0
           /\ UNCHANGED <<alt, dac, tee, dropped, mic>>

\* The host keeps its alternate setting over a suspension; the flag stays cleared.
Resume == /\ bus = "suspended" /\ bus' = "up"
          /\ UNCHANGED <<alt, streaming, dac, tee, dropped, mic>>

\* reset, configured(false), enabled(false).
BusReset == /\ bus' = "up" /\ alt' = 0 /\ streaming' = 0
            /\ UNCHANGED <<dac, tee, dropped, mic>>

MicSteps == Check \/ Drain \/ Collect \/ WriteDone \/ WriteFails \/ WriteTimeout

Next == \/ SendBlock \/ StartDma \/ TakeBlock \/ Swap \/ DmaDone
        \/ MicSteps
        \/ SelectAlt(0) \/ SelectAlt(1) \/ Suspend \/ Resume \/ BusReset

Spec == Init /\ [][Next]_vars

\* main_task runs on core0's executor and the DMA always ends.  Neither the host,
\* core1 nor microphone_task owes the DAC anything.
FairSpec == /\ Spec
            /\ WF_vars(StartDma) /\ WF_vars(TakeBlock) /\ WF_vars(Swap) /\ WF_vars(DmaDone)

\* microphone_task runs too; of a write only the timeout is sure.
MicFairness == WF_vars(Check) /\ WF_vars(Drain) /\ WF_vars(Collect) /\ WF_vars(WriteTimeout)

------------------------------------------------------------------------------
(* Properties *)

TypeOK ==
  /\ produced \in 0..MaxBlocks
  /\ audio \in Seq(Nat) /\ Len(audio) <= AudioCap
  /\ tee \in Seq(Nat) /\ Len(tee) <= TeeCap
  /\ ipc \in {"write", "receive", "await"} /\ dma \in {"idle", "busy"}
  /\ front \in Nat /\ back \in Nat /\ underrun \in {0, 1}
  /\ mpc \in {"check", "drain", "collect", "write"}
  /\ block \in Nat /\ idx \in 0..BlockFrames
  /\ packet \in Seq(Nat) /\ Len(packet) <= PacketFrames
  /\ alt \in {0, 1} /\ bus \in {"up", "suspended"} /\ streaming \in {0, 1}
  /\ played \in Nat /\ dropped \subseteq Nat /\ lastSent \in Nat

\* The DAC plays every block core1 sends once and in order, with at most a full
\* channel and the two buffers under way, whatever the USB host does.
Pipe == INSTANCE BlockPipe WITH Depth <- AudioCap + 2, sent <- produced
ImplementsPipe == Pipe!Spec

\* A DAC that runs dry while main_task waits for core1 has been counted as an
\* underrun: the look at the queue comes early, but it never misses a gap.
GapIsCounted == ipc = "receive" /\ dma = "idle" /\ audio = <<>> => underrun = 1

\* Frame q comes right after frame p, or begins a block where p ends one and the
\* tee had no room for any block in between.
Follows(p, q) ==
  \/ q = p + 1
  \/ /\ p % BlockFrames = 0 /\ (q - 1) % BlockFrames = 0
     /\ ((p \div BlockFrames) + 1)..((q - 1) \div BlockFrames) \subseteq dropped

\* The frames of a packet follow one another without a break, except where the
\* tee had no room for the blocks in between: neither a timed-out write nor a
\* stream closed and opened again in the middle of a block joins two blocks.
GapsOnlyAtDrops == \A i \in 1..(Len(packet) - 1) : Follows(packet[i], packet[i + 1])

\* The host never hears a frame twice or an older one after a newer one.
SentInOrder == packet # <<>> => packet[1] > lastSent

\* The task is never let into the collecting loop by a stream that the host has
\* closed, suspended or reset.
StreamingIsOpen == streaming = 1 => alt = 1 /\ bus = "up"

\* Every block reaches the DAC, even if microphone_task
\* never runs again and leaves the tee full.
EveryBlockPlayed == \A b \in 1..MaxBlocks : produced >= b ~> played >= b

\* A full tee is taken from again: a host that stops polling, or closes the
\* stream between the check and the write, cannot hold microphone_task.
TeeDrains == MicFairness => (Len(tee) = TeeCap ~> Len(tee) < TeeCap)
==============================================================================
