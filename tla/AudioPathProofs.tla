---------------------------- MODULE AudioPathProofs ----------------------------
(***************************************************************************)
(* The way to the DAC is a pipe, for all capacities and block sizes and     *)
(* any number of blocks.                                                    *)
(***************************************************************************)
EXTENDS AudioPath, SequenceTheorems, TLAPS

(***************************************************************************)
(* Where the blocks under way are.  The channel holds the last ones sent,  *)
(* so the last one main_task took is the one before them; the buffers hold *)
(* that one and its predecessor.  The silence at the start is block 0,     *)
(* which counts as played from the beginning.                              *)
(***************************************************************************)
Taken     == produced - Len(audio)
Before(n) == IF n = 0 THEN 0 ELSE n - 1

DacType ==
  /\ produced \in Nat
  /\ audio \in Seq(Nat) /\ Len(audio) <= AudioCap
  /\ ipc \in {"write", "receive", "await"} /\ dma \in {"idle", "busy"}
  /\ front \in Nat /\ back \in Nat /\ played \in Nat

Consecutive ==
  /\ Taken \in Nat
  /\ \A i \in 1..Len(audio) : audio[i] = Taken + i

Buffers ==
  /\ ipc = "write"   => dma = "idle" /\ front = Taken /\ played = Before(front)
  /\ ipc = "receive" => /\ front = Taken
                        /\ played = IF dma = "busy" THEN Before(front) ELSE front
  /\ ipc = "await"   => /\ back = Taken /\ back = front + 1
                        /\ played = IF dma = "busy" THEN Before(front) ELSE front

\* The gap itself is not inductive: the DMA may finish after the look at the queue.
EmptyIsCounted == ipc = "receive" /\ audio = <<>> => underrun = 1

DacInv == DacType /\ Consecutive /\ Buffers /\ EmptyIsCounted

LEMMA DacInit == Init => DacInv
<1> SUFFICES ASSUME Init PROVE DacInv
  OBVIOUS
<1>1. /\ produced = 0 /\ audio = <<>> /\ ipc = "write" /\ dma = "idle"
      /\ front = 0 /\ back = 0 /\ played = 0
  BY DEF Init
<1>0. Len(<<>>) = 0 /\ <<>> \in Seq(Nat)
  BY EmptySeq
<1>2. Taken = 0
  <2>1. Len(audio) = 0
    BY <1>0, <1>1
  <2>2. produced = 0
    BY <1>1
  <2>3. QED BY <2>1, <2>2 DEF Taken
<1>3. DacType
  BY <1>0, <1>1, CapAssumption DEF DacType
<1>4. Consecutive
  BY <1>1, <1>2 DEF Consecutive
<1>5. Buffers /\ EmptyIsCounted
  BY <1>1, <1>2 DEF Buffers, EmptyIsCounted, Before
<1>6. QED BY <1>3, <1>4, <1>5 DEF DacInv

\* What core1's send does to the channel.
LEMMA SendFacts ==
  ASSUME DacType, Consecutive, SendBlock
  PROVE  /\ produced' = produced + 1 /\ produced' \in Nat
         /\ audio' \in Seq(Nat) /\ Len(audio') = Len(audio) + 1 /\ Len(audio') <= AudioCap
         /\ Taken' = Taken
         /\ \A i \in 1..Len(audio') : audio'[i] = Taken' + i
<1>1. produced + 1 \in Nat /\ audio \in Seq(Nat) /\ audio' = Append(audio, produced + 1)
  BY DEF DacType, SendBlock
<1>2. /\ audio' \in Seq(Nat) /\ Len(audio') = Len(audio) + 1
      /\ \A i \in 1..Len(audio) : audio'[i] = audio[i]
      /\ audio'[Len(audio) + 1] = produced + 1
  BY <1>1
<1>3. produced' = produced + 1 /\ Len(audio) < AudioCap
  BY DEF SendBlock
<1>4. Len(audio) \in Nat
  BY <1>1
<1>5. Taken' = Taken
  BY <1>1, <1>2, <1>3, <1>4 DEF Taken, DacType
<1>6. Len(audio') <= AudioCap
  BY <1>2, <1>3, <1>4, CapAssumption
<1>7. ASSUME NEW i \in 1..Len(audio') PROVE audio'[i] = Taken' + i
  <2>1. CASE i \in 1..Len(audio)
    BY <2>1, <1>2, <1>5 DEF Consecutive
  <2>2. CASE i = Len(audio) + 1
    BY <2>2, <1>2, <1>4, <1>5 DEF Taken, DacType
  <2>3. QED BY <2>1, <2>2, <1>2, <1>4
<1>8. QED BY <1>1, <1>2, <1>3, <1>5, <1>6, <1>7

\* What main_task's receive does to it.
LEMMA TakeFacts ==
  ASSUME DacType, Consecutive, TakeBlock
  PROVE  /\ audio' \in Seq(Nat) /\ Len(audio') <= AudioCap
         /\ Taken' = Taken + 1 /\ back' = Taken + 1
         /\ \A i \in 1..Len(audio') : audio'[i] = Taken' + i
<1>1. audio \in Seq(Nat) /\ audio # <<>> /\ audio' = Tail(audio) /\ back' = Head(audio)
  BY DEF DacType, TakeBlock
<1>2. Len(audio) \in Nat \ {0} /\ Head(audio) = audio[1]
  BY <1>1, EmptySeq
<1>3. /\ audio' \in Seq(Nat) /\ Len(audio') = Len(audio) - 1
      /\ \A i \in 1..Len(audio') : audio'[i] = audio[i + 1]
  BY <1>1, HeadTailProperties
<1>4. produced' = produced /\ produced \in Nat /\ Taken \in Nat
  BY DEF TakeBlock, DacType, Consecutive
<1>5. Taken' = Taken + 1
  BY <1>2, <1>3, <1>4 DEF Taken
<1>6. audio[1] = Taken + 1
  BY <1>2 DEF Consecutive
<1>7. \A i \in 1..Len(audio') : audio'[i] = Taken' + i
  <2> TAKE i \in 1..Len(audio')
  <2>1. i + 1 \in 1..Len(audio)
    BY <1>2, <1>3
  <2>2. audio[i + 1] = Taken + (i + 1)
    BY <2>1 DEF Consecutive
  <2>3. i \in Int
    BY <1>2, <1>3
  <2>4. QED BY <1>3, <1>4, <1>5, <2>2, <2>3
<1>8. Len(audio') <= AudioCap
  BY <1>2, <1>3, CapAssumption DEF DacType
<1>9. QED BY <1>1, <1>2, <1>3, <1>5, <1>6, <1>7, <1>8

\* One step keeps the invariant.
LEMMA DacStep == DacInv /\ [Next]_vars => DacInv'
<1> SUFFICES ASSUME DacInv, [Next]_vars PROVE DacInv'
  OBVIOUS
<1>0. DacType /\ Consecutive /\ Buffers /\ EmptyIsCounted
  BY DEF DacInv
<1>1. CASE SendBlock
  <2>1. UNCHANGED <<ipc, dma, front, back, underrun, played>>
    BY <1>1 DEF SendBlock
  <2>2. DacType' /\ Consecutive'
    BY <1>0, <1>1, <2>1, SendFacts DEF DacType, Consecutive
  <2>3. Taken' = Taken
    BY <1>0, <1>1, SendFacts
  <2>4. Buffers'
    BY <1>0, <2>1, <2>3 DEF Buffers
  <2>5. Len(audio') # 0
    BY <1>0, <1>1, SendFacts DEF DacType
  <2>6. QED BY <2>2, <2>4, <2>5 DEF DacInv, EmptyIsCounted
<1>2. CASE StartDma
  <2>1. /\ UNCHANGED <<produced, audio, front, back, played>>
        /\ ipc = "write" /\ ipc' = "receive" /\ dma' = "busy"
        /\ underrun' = IF audio = <<>> THEN 1 ELSE 0
    BY <1>2 DEF StartDma
  <2>2. Taken' = Taken
    BY <2>1 DEF Taken
  <2>3. DacType' /\ Consecutive'
    BY <1>0, <2>1, <2>2 DEF DacType, Consecutive
  <2>4. Buffers'
    BY <1>0, <2>1, <2>2 DEF Buffers
  <2>5. EmptyIsCounted'
    BY <2>1 DEF EmptyIsCounted
  <2>6. QED BY <2>3, <2>4, <2>5 DEF DacInv
<1>3. CASE TakeBlock
  <2>1. /\ UNCHANGED <<produced, dma, front, played>>
        /\ ipc = "receive" /\ ipc' = "await"
    BY <1>3 DEF TakeBlock
  <2>2. Taken \in Nat /\ Taken' = Taken + 1 /\ back' = Taken + 1
    BY <1>0, <1>3, TakeFacts DEF Consecutive
  <2>3. DacType' /\ Consecutive'
    BY <1>0, <1>3, <2>1, <2>2, TakeFacts DEF DacType, Consecutive
  <2>4. Buffers' /\ EmptyIsCounted'
    BY <1>0, <2>1, <2>2 DEF Buffers, EmptyIsCounted
  <2>5. QED BY <2>3, <2>4 DEF DacInv
<1>4. CASE Swap
  <2>1. /\ UNCHANGED <<produced, audio, dma, played>>
        /\ ipc = "await" /\ ipc' = "write" /\ dma = "idle" /\ front' = back /\ back' = front
    BY <1>4 DEF Swap
  <2>2. Taken' = Taken
    BY <2>1 DEF Taken
  <2>3. DacType' /\ Consecutive'
    BY <1>0, <2>1, <2>2 DEF DacType, Consecutive
  <2>4. Buffers' /\ EmptyIsCounted'
    BY <1>0, <2>1, <2>2 DEF DacType, Buffers, EmptyIsCounted, Before
  <2>5. QED BY <2>3, <2>4 DEF DacInv
<1>5. CASE DmaDone
  <2>1. /\ UNCHANGED <<produced, audio, ipc, front, back, underrun>>
        /\ dma = "busy" /\ dma' = "idle"
        /\ played' = IF front = 0 THEN played ELSE front
    BY <1>5 DEF DmaDone
  <2>2. Taken' = Taken
    BY <2>1 DEF Taken
  <2>3. DacType' /\ Consecutive'
    BY <1>0, <2>1, <2>2 DEF DacType, Consecutive
  <2>4. Buffers' /\ EmptyIsCounted'
    BY <1>0, <2>1, <2>2 DEF DacType, Buffers, EmptyIsCounted, Before
  <2>5. QED BY <2>3, <2>4 DEF DacInv
<1>6. CASE \/ MicSteps \/ SelectAlt(0) \/ SelectAlt(1) \/ Suspend \/ Resume \/ BusReset
           \/ UNCHANGED vars
  <2>1. UNCHANGED <<produced, audio, ipc, dma, front, back, underrun, played>>
    BY <1>6 DEF MicSteps, Check, Drain, Collect, WriteDone, WriteFails, WriteTimeout,
                SelectAlt, Suspend, Resume, BusReset, dac, vars
  <2>2. Taken' = Taken
    BY <2>1 DEF Taken
  <2>3. QED BY <1>0, <2>1, <2>2
            DEF DacInv, DacType, Consecutive, Buffers, EmptyIsCounted
<1>7. QED BY <1>1, <1>2, <1>3, <1>4, <1>5, <1>6 DEF Next

\* Every gap in the DAC's output is counted.
THEOREM GapCounted == Spec => []GapIsCounted
<1>1. DacInv => GapIsCounted
  BY DEF DacInv, EmptyIsCounted, GapIsCounted
<1>2. QED BY <1>1, DacInit, DacStep, PTL DEF Spec

\* Every step of the program is a step of the pipe or leaves it alone: a block is
\* sent to a channel with room, and the DMA plays the block after the last one.
THEOREM Implements == Spec => ImplementsPipe
<1>1. Init => Pipe!Init
  BY DEF Init, Pipe!Init
<1>2. DacInv /\ [Next]_vars => [Pipe!Next]_(Pipe!vars)
  <2> SUFFICES ASSUME DacInv, [Next]_vars PROVE [Pipe!Next]_(Pipe!vars)
    OBVIOUS
  <2>0. DacType /\ Consecutive /\ Buffers
    BY DEF DacInv
  <2>1. CASE SendBlock
    <3>1. produced' = produced + 1 /\ UNCHANGED played
      BY <2>1 DEF SendBlock
    <3>2. Len(audio) < AudioCap /\ Len(audio) \in Nat
      BY <2>0, <2>1 DEF SendBlock, DacType
    <3>3. Taken - played <= 2 /\ Taken \in Nat /\ played \in Nat
      BY <2>0 DEF DacType, Consecutive, Buffers, Before
    <3>4. produced - played < AudioCap + 2
      BY <2>0, <3>2, <3>3, CapAssumption DEF Taken, DacType
    <3>5. Pipe!Send
      BY <3>1, <3>4 DEF Pipe!Send
    <3>6. QED BY <3>5 DEF Pipe!Next
  <2>2. CASE DmaDone
    <3>1. UNCHANGED produced /\ dma = "busy" /\ played' = IF front = 0 THEN played ELSE front
      BY <2>2 DEF DmaDone
    <3>2. CASE front = 0
      BY <3>1, <3>2 DEF Pipe!vars
    <3>3. CASE front # 0
      <4>1. played' = played + 1 /\ front <= Taken /\ played < front
        BY <2>0, <3>1, <3>3 DEF DacType, Consecutive, Buffers, Before
      <4>2. Taken <= produced
        BY <2>0 DEF DacType, Taken
      <4>3. played < produced
        BY <2>0, <4>1, <4>2 DEF DacType, Consecutive
      <4>4. Pipe!Play
        BY <3>1, <4>1, <4>3 DEF Pipe!Play
      <4>5. QED BY <4>4 DEF Pipe!Next
    <3>4. QED BY <3>2, <3>3
  <2>3. CASE \/ StartDma \/ TakeBlock \/ Swap \/ MicSteps \/ SelectAlt(0) \/ SelectAlt(1)
             \/ Suspend \/ Resume \/ BusReset \/ UNCHANGED vars
    <3>1. UNCHANGED <<produced, played>>
      BY <2>3 DEF StartDma, TakeBlock, Swap, MicSteps, Check, Drain, Collect, WriteDone,
                  WriteFails, WriteTimeout, SelectAlt, Suspend, Resume, BusReset, dac, vars
    <3>2. QED BY <3>1 DEF Pipe!vars
  <2>4. QED BY <2>1, <2>2, <2>3 DEF Next
<1>3. QED BY <1>1, <1>2, DacInit, DacStep, PTL DEF Spec, ImplementsPipe, Pipe!Spec

\* The host's side is well typed, and the flag is up only for an open stream.
HostInv == /\ alt \in {0, 1} /\ bus \in {"up", "suspended"} /\ streaming \in {0, 1}
           /\ StreamingIsOpen

LEMMA HostStarts == Init => HostInv
  BY DEF Init, HostInv, StreamingIsOpen

LEMMA HostStep == HostInv /\ [Next]_vars => HostInv'
<1> SUFFICES ASSUME HostInv, [Next]_vars PROVE HostInv'
  OBVIOUS
<1> USE DEF HostInv, StreamingIsOpen
<1>1. CASE SelectAlt(0) \/ SelectAlt(1)
  BY <1>1 DEF SelectAlt
<1>2. CASE Suspend \/ Resume \/ BusReset
  BY <1>2 DEF Suspend, Resume, BusReset
<1>3. CASE SendBlock \/ StartDma \/ TakeBlock \/ Swap \/ DmaDone \/ MicSteps \/ UNCHANGED vars
  <2>1. UNCHANGED host
    BY <1>3 DEF SendBlock, StartDma, TakeBlock, Swap, DmaDone, MicSteps, Check, Drain,
                Collect, WriteDone, WriteFails, WriteTimeout, vars
  <2>2. QED BY <2>1 DEF host
<1>4. QED BY <1>1, <1>2, <1>3 DEF Next

\* The flag never outlives the stream the host has opened.
THEOREM StreamingOpen == Spec => []StreamingIsOpen
<1>1. HostInv => StreamingIsOpen
  BY DEF HostInv
<1>2. QED BY <1>1, HostStarts, HostStep, PTL DEF Spec

------------------------------------------------------------------------------
(***************************************************************************)
(* The tee and the packets.  Blocks enter the tee in order, and one that   *)
(* does not is dropped; so every block between the one being cut and the   *)
(* last one taken from core1 is in the tee or dropped.  That holds of the  *)
(* block being cut only while something of it is left, or in the packet:   *)
(* blocks that are drained while the stream is closed are in neither.      *)
(***************************************************************************)
MicType ==
  /\ tee \in Seq(Nat) /\ Len(tee) <= TeeCap /\ dropped \subseteq Nat
  /\ mpc \in {"check", "drain", "collect", "write"}
  /\ block \in Nat /\ idx \in 0..BlockFrames
  /\ packet \in Seq(Nat) /\ Len(packet) <= PacketFrames /\ lastSent \in Nat

InTee(b)        == \E i \in 1..Len(tee) : tee[i] = b
AccountedFor(n) == \A b \in (n + 1)..Taken : b \in dropped \/ InTee(b)

TeeInv ==
  /\ block <= Taken
  /\ \A i \in 1..Len(tee) : block < tee[i] /\ tee[i] <= Taken /\ AccountedFor(tee[i])
  /\ \A i, j \in 1..Len(tee) : i < j => tee[i] < tee[j]
  /\ packet # <<>> \/ idx < BlockFrames => AccountedFor(block)

\* The frames used up so far, those that were skipped included.
FirstOf(b) == (b - 1) * BlockFrames
Reached    == FirstOf(block) + idx

PacketInv ==
  /\ mpc \in {"check", "drain"} => packet = <<>>
  /\ mpc = "collect" => Len(packet) < PacketFrames
  /\ mpc = "write" => Len(packet) = PacketFrames
  /\ block = 0 => idx = BlockFrames
  /\ lastSent <= Reached
  /\ packet # <<>> => packet[1] > lastSent /\ packet[Len(packet)] = Reached
  /\ GapsOnlyAtDrops

MicInv == DacInv /\ MicType /\ TeeInv /\ PacketInv

\* The blocks' first frames, and how frames are numbered through them.
LEMMA FirstOfFacts ==
  /\ \A b \in Nat : FirstOf(b) \in Int /\ FirstOf(b + 1) = FirstOf(b) + BlockFrames
  /\ \A b \in Nat \ {0} : FirstOf(b) \in Nat
  /\ \A a, b \in Nat : a < b => FirstOf(a) + BlockFrames <= FirstOf(b)
  /\ \A b \in Nat \ {0} : FirstOf(b) % BlockFrames = 0 /\ FirstOf(b) \div BlockFrames = b - 1
<1>1. BlockFrames \in Nat \ {0}
  BY FramesAssumption
<1>2. \A b \in Nat : FirstOf(b) \in Int /\ FirstOf(b + 1) = FirstOf(b) + BlockFrames
  BY <1>1 DEF FirstOf
<1>3. \A b \in Nat \ {0} : FirstOf(b) \in Nat
  BY <1>1 DEF FirstOf
<1>4. ASSUME NEW a \in Nat, NEW b \in Nat, a < b PROVE FirstOf(a) + BlockFrames <= FirstOf(b)
  <2>1. PICK d \in Nat : b = a + 1 + d
    BY <1>4
  <2>2. FirstOf(b) = FirstOf(a) + BlockFrames + d * BlockFrames
    BY <1>1, <2>1 DEF FirstOf
  <2>3. d * BlockFrames \in Nat /\ FirstOf(a) \in Int
    BY <1>1, <1>2
  <2>4. QED BY <1>1, <2>2, <2>3
<1>5. ASSUME NEW b \in Nat \ {0}
      PROVE  FirstOf(b) % BlockFrames = 0 /\ FirstOf(b) \div BlockFrames = b - 1
  BY <1>1 DEF FirstOf
<1>6. QED BY <1>2, <1>3, <1>4, <1>5

\* What a turn of the collecting loop adds to the packet.
LEMMA TakeAdds ==
  ASSUME NEW b \in Nat \ {0}, NEW i \in 0..(BlockFrames - 1),
         packet \in Seq(Nat), Len(packet) < PacketFrames, Take(b, i)
  PROVE  \E n \in 1..(BlockFrames - i) :
           /\ n <= PacketFrames - Len(packet)
           /\ n = BlockFrames - i \/ n = PacketFrames - Len(packet)
           /\ packet' \in Seq(Nat) /\ Len(packet') = Len(packet) + n
           /\ \A k \in 1..Len(packet) : packet'[k] = packet[k]
           /\ \A k \in 1..n : packet'[Len(packet) + k] = FirstOf(b) + i + k
           /\ block' = b /\ idx' = i + n
           /\ mpc' = IF Len(packet') = PacketFrames THEN "write" ELSE "collect"
<1> DEFINE n == Minimum(BlockFrames - i, PacketFrames - Len(packet))
           new == NextFrames(b, i, Len(packet))
<1>1. BlockFrames \in Nat \ {0} /\ PacketFrames \in Nat \ {0} /\ Len(packet) \in Nat
  BY FramesAssumption
<1>2. /\ n \in 1..(BlockFrames - i) /\ n <= PacketFrames - Len(packet)
      /\ n = BlockFrames - i \/ n = PacketFrames - Len(packet)
  BY <1>1 DEF Minimum
<1>3. new = [k \in 1..n |-> FirstOf(b) + i + k]
  BY DEF NextFrames, FirstOf
<1>4. packet' = packet \o new /\ block' = b /\ idx' = i + n
      /\ mpc' = IF Len(packet') = PacketFrames THEN "write" ELSE "collect"
  BY DEF Take
<1> HIDE DEF n, new
<1>5. new \in Seq(Nat) /\ Len(new) = n
  <2>1. \A k \in 1..n : FirstOf(b) + i + k \in Nat
    <3>1. FirstOf(b) \in Nat
      BY FirstOfFacts
    <3>2. i \in Nat /\ n \in Nat
      BY <1>1, <1>2
    <3>3. QED BY <3>1, <3>2
  <2>2. new \in [1..n -> Nat] /\ n \in Nat
    BY <1>1, <1>2, <1>3, <2>1
  <2>3. QED BY <1>3, <2>2
<1>6. /\ packet' \in Seq(Nat) /\ Len(packet') = Len(packet) + n
      /\ \A k \in 1..Len(packet) : packet'[k] = packet[k]
      /\ \A k \in 1..n : packet'[Len(packet) + k] = FirstOf(b) + i + k
  <2>1. /\ packet' \in Seq(Nat) /\ Len(packet') = Len(packet) + Len(new)
        /\ \A k \in 1..Len(packet) + Len(new) :
             packet'[k] = IF k <= Len(packet) THEN packet[k] ELSE new[k - Len(packet)]
    BY <1>4, <1>5, ConcatProperties, Zenon
  <2>2. \A k \in 1..Len(packet) : packet'[k] = packet[k]
    BY <1>1, <1>2, <1>5, <2>1
  <2>3. ASSUME NEW k \in 1..n PROVE packet'[Len(packet) + k] = FirstOf(b) + i + k
    <3>1. Len(packet) + k \in 1..Len(packet) + Len(new) /\ ~(Len(packet) + k <= Len(packet))
          /\ (Len(packet) + k) - Len(packet) = k
      BY <1>1, <1>2, <1>5
    <3>2. packet'[Len(packet) + k] = new[k]
      BY <2>1, <3>1
    <3>3. QED BY <1>3, <3>2
  <2>4. QED BY <1>5, <2>1, <2>2, <2>3
<1>7. QED BY <1>2, <1>4, <1>6

\* A turn that goes on where the packet ends keeps the packet in order.
LEMMA TakeKeepsOrder ==
  ASSUME MicType, PacketInv, mpc = "collect",
         NEW b \in Nat \ {0}, NEW i \in 0..(BlockFrames - 1), Take(b, i),
         UNCHANGED <<dropped, lastSent>>,
         lastSent <= FirstOf(b) + i,
         packet # <<>> => Follows(packet[Len(packet)], FirstOf(b) + i + 1)
  PROVE  /\ packet' \in Seq(Nat) /\ Len(packet') <= PacketFrames
         /\ idx' \in (i + 1)..BlockFrames /\ PacketInv'
<1>1. PICK n \in 1..(BlockFrames - i) :
        /\ n <= PacketFrames - Len(packet)
        /\ packet' \in Seq(Nat) /\ Len(packet') = Len(packet) + n
        /\ \A k \in 1..Len(packet) : packet'[k] = packet[k]
        /\ \A k \in 1..n : packet'[Len(packet) + k] = FirstOf(b) + i + k
        /\ block' = b /\ idx' = i + n
        /\ mpc' = IF Len(packet') = PacketFrames THEN "write" ELSE "collect"
  <2>1. packet \in Seq(Nat) /\ Len(packet) < PacketFrames
    BY DEF MicType, PacketInv
  <2>2. QED BY <2>1, TakeAdds
<1>2. /\ BlockFrames \in Nat \ {0} /\ PacketFrames \in Nat \ {0} /\ Len(packet) \in Nat
      /\ i \in Nat /\ n \in Nat \ {0} /\ FirstOf(b) \in Nat
  <2>1. FirstOf(b) \in Nat
    BY FirstOfFacts
  <2>2. BlockFrames \in Nat \ {0} /\ PacketFrames \in Nat \ {0}
    BY FramesAssumption
  <2>3. i \in Nat /\ n \in Nat \ {0}
    BY <2>2
  <2>4. Len(packet) \in Nat
    BY DEF MicType
  <2>5. QED BY <2>1, <2>2, <2>3, <2>4
<1>3. idx' \in (i + 1)..BlockFrames /\ Len(packet') <= PacketFrames /\ Len(packet') \in Nat \ {0}
  BY <1>1, <1>2
<1>4. packet'[Len(packet')] = Reached' /\ lastSent' <= Reached'
  <2>1. n \in 1..n
    BY <1>2
  <2>2. packet'[Len(packet')] = FirstOf(b) + i + n
    BY <1>1, <2>1
  <2>3. Reached' = FirstOf(b) + idx'
    BY <1>1 DEF Reached, FirstOf
  <2>4. lastSent \in Nat /\ lastSent' = lastSent
    BY DEF MicType
  <2>5. QED BY <1>1, <1>2, <2>2, <2>3, <2>4
<1>5. packet'[1] > lastSent'
  <2>1. CASE packet = <<>>
    <3>1. Len(packet) = 0
      BY <2>1
    <3>2. packet'[1] = FirstOf(b) + i + 1
      <4>1. 1 \in 1..n /\ Len(packet) + 1 = 1
        BY <1>2, <3>1
      <4>2. packet'[Len(packet) + 1] = FirstOf(b) + i + 1
        BY <1>1, <4>1
      <4>3. QED BY <4>1, <4>2
    <3>3. lastSent \in Nat
      BY DEF MicType
    <3>4. QED BY <1>2, <3>2, <3>3
  <2>2. CASE packet # <<>>
    <3>1. 1 \in 1..Len(packet)
      BY <1>2, <2>2, EmptySeq DEF MicType
    <3>2. QED BY <1>1, <2>2, <3>1 DEF PacketInv
  <2>3. QED BY <2>1, <2>2
<1>6. ASSUME NEW k \in 1..(Len(packet') - 1) PROVE Follows(packet'[k], packet'[k + 1])
  <2>0. k \in Nat \ {0}
    BY <1>3
  <2>1. CASE k < Len(packet)
    <3>1. k \in 1..(Len(packet) - 1) /\ k \in 1..Len(packet) /\ k + 1 \in 1..Len(packet)
      BY <1>2, <2>0, <2>1
    <3>2. Follows(packet[k], packet[k + 1])
      BY <3>1 DEF PacketInv, GapsOnlyAtDrops
    <3>3. QED BY <1>1, <3>1, <3>2
  <2>2. CASE k = Len(packet)
    <3>1. packet # <<>> /\ k \in 1..Len(packet)
      BY <1>2, <2>0, <2>2, EmptySeq
    <3>2. 1 \in 1..n /\ packet'[k] = packet[Len(packet)] /\ packet'[k + 1] = FirstOf(b) + i + 1
      BY <1>1, <1>2, <2>2, <3>1
    <3>3. QED BY <3>1, <3>2
  <2>3. CASE k > Len(packet)
    <3>1. PICK m \in 1..n : k = Len(packet) + m /\ m + 1 \in 1..n
      <4>1. k - Len(packet) \in 1..n /\ k - Len(packet) + 1 \in 1..n
            /\ k = Len(packet) + (k - Len(packet))
        <5>1. k <= Len(packet) + n - 1
          BY <1>1, <1>2, <2>0
        <5>2. QED BY <1>2, <2>0, <2>3, <5>1
      <4>2. QED BY <4>1
    <3>2. packet'[k] = FirstOf(b) + i + m /\ packet'[k + 1] = FirstOf(b) + i + (m + 1)
      <4>1. k + 1 = Len(packet) + (m + 1)
        BY <1>2, <3>1
      <4>2. QED BY <1>1, <3>1, <4>1
    <3>3. packet'[k + 1] = packet'[k] + 1
      BY <1>2, <3>1, <3>2
    <3>4. QED BY <3>3 DEF Follows
  <2>4. QED BY <1>2, <2>0, <2>1, <2>2, <2>3
<1>7. PacketInv'
  <2>1. GapsOnlyAtDrops'
    BY <1>6 DEF GapsOnlyAtDrops, Follows
  <2>2. /\ mpc' \in {"collect", "write"} /\ block' # 0
        /\ mpc' = "write" => Len(packet') = PacketFrames
        /\ mpc' = "collect" => Len(packet') # PacketFrames
    BY <1>1
  <2>3. mpc' = "collect" => Len(packet') < PacketFrames
    BY <1>2, <1>3, <2>2
  <2>4. QED BY <1>4, <1>5, <2>1, <2>2, <2>3 DEF PacketInv
<1>8. QED BY <1>1, <1>3, <1>7

\* Taking the oldest block out of the tee, to cut it or to throw it away.
LEMMA TakenFromTee ==
  ASSUME MicInv, tee # <<>>, tee' = Tail(tee), UNCHANGED <<produced, audio, dropped>>
  PROVE  /\ Head(tee) \in Nat /\ block < Head(tee) /\ Head(tee) <= Taken /\ AccountedFor(Head(tee))
         /\ tee' \in Seq(Nat) /\ Len(tee') <= TeeCap
         /\ \A i \in 1..Len(tee) : Head(tee) <= tee[i]
         /\ \A i \in 1..Len(tee') : Head(tee) < tee'[i] /\ tee'[i] <= Taken /\ AccountedFor(tee[i])'
         /\ \A i, j \in 1..Len(tee') : i < j => tee'[i] < tee'[j]
         /\ \A b \in (Head(tee) + 1)..Taken : b \in dropped \/ \E j \in 1..Len(tee') : tee'[j] = b
<1>1. /\ tee \in Seq(Nat) /\ Len(tee) \in Nat \ {0} /\ Head(tee) = tee[1] /\ Taken \in Nat
      /\ Len(tee) <= TeeCap
  BY EmptySeq DEF MicInv, MicType, DacInv, Consecutive
<1>2. /\ tee' \in Seq(Nat) /\ Len(tee') = Len(tee) - 1
      /\ \A i \in 1..Len(tee') : tee'[i] = tee[i + 1] /\ i \in Nat
      /\ \A i \in 1..Len(tee) : tee[i] \in Nat
  BY <1>1, HeadTailProperties
<1>3. 1 \in 1..Len(tee) /\ \A i \in 1..Len(tee') : i + 1 \in 1..Len(tee)
  BY <1>1, <1>2
<1>4. /\ \A i \in 1..Len(tee) : block < tee[i] /\ tee[i] <= Taken /\ AccountedFor(tee[i])
      /\ \A i, j \in 1..Len(tee) : i < j => tee[i] < tee[j]
  BY DEF MicInv, TeeInv
<1>5. tee[1] \in Nat /\ block < tee[1] /\ tee[1] <= Taken /\ AccountedFor(tee[1])
  BY <1>2, <1>3, <1>4
<1>6. \A i \in 1..Len(tee) : tee[1] <= tee[i]
  <2> SUFFICES ASSUME NEW i \in 1..Len(tee) PROVE tee[1] <= tee[i]
    OBVIOUS
  <2>1. i = 1 \/ 1 < i
    OBVIOUS
  <2>2. QED BY <1>2, <1>3, <1>4, <2>1
<1>7. ASSUME NEW n \in Nat, tee[1] <= n, AccountedFor(n), NEW b \in (n + 1)..Taken
      PROVE  b \in dropped \/ \E j \in 1..Len(tee') : tee'[j] = b
  <2>1. b \in dropped \/ \E j \in 1..Len(tee) : tee[j] = b
    BY <1>7 DEF AccountedFor, InTee
  <2>2. ASSUME NEW j \in 1..Len(tee), tee[j] = b PROVE \E k \in 1..Len(tee') : tee'[k] = b
    <3>1. j # 1
      BY <1>1, <1>5, <1>7, <2>2
    <3>2. j - 1 \in 1..Len(tee') /\ (j - 1) + 1 = j
      BY <1>1, <1>2, <3>1
    <3>3. QED BY <1>2, <2>2, <3>2
  <2>3. QED BY <2>1, <2>2
<1>8. Taken' = Taken
  BY DEF Taken
<1>9. ASSUME NEW i \in 1..Len(tee')
      PROVE  tee[1] < tee'[i] /\ tee'[i] <= Taken /\ AccountedFor(tee[i])'
  <2>1. tee'[i] = tee[i + 1] /\ i + 1 \in 1..Len(tee) /\ 1 < i + 1
    BY <1>2, <1>3
  <2>2. tee[1] < tee'[i] /\ tee'[i] <= Taken /\ AccountedFor(tee'[i])
    BY <1>3, <1>4, <2>1
  <2>3. tee'[i] \in Nat /\ tee[1] <= tee'[i]
    BY <1>2, <2>1, <2>2
  <2>4. \A b \in (tee'[i] + 1)..Taken : b \in dropped \/ \E j \in 1..Len(tee') : tee'[j] = b
    BY <1>7, <2>2, <2>3
  <2>5. QED BY <1>8, <2>2, <2>4 DEF AccountedFor, InTee
<1>10. \A i, j \in 1..Len(tee') : i < j => tee'[i] < tee'[j]
  BY <1>2, <1>3, <1>4
<1>11. \A b \in (tee[1] + 1)..Taken : b \in dropped \/ \E j \in 1..Len(tee') : tee'[j] = b
  BY <1>5, <1>7
<1>12. Len(tee') <= TeeCap
  BY <1>1, <1>2, CapAssumption
<1>13. QED BY <1>1, <1>2, <1>5, <1>6, <1>9, <1>10, <1>11, <1>12

LEMMA CollectKeeps ==
  ASSUME MicInv, Collect
  PROVE  MicType' /\ TeeInv' /\ PacketInv'
<1>1. /\ MicType /\ TeeInv /\ PacketInv /\ mpc = "collect"
      /\ UNCHANGED <<dropped, lastSent, produced, audio>>
      /\ BlockFrames \in Nat \ {0} /\ Taken \in Nat
  BY FramesAssumption DEF MicInv, Collect, dac, DacInv, Consecutive
<1>2. Taken' = Taken
  BY <1>1 DEF Taken
<1>3. CASE idx < BlockFrames /\ Take(block, idx) /\ UNCHANGED tee
  <2>1. block \in Nat \ {0} /\ idx \in 0..(BlockFrames - 1)
    BY <1>1, <1>3 DEF MicType, PacketInv
  <2>2. lastSent <= FirstOf(block) + idx
    BY <1>1 DEF PacketInv, Reached
  <2>3. packet # <<>> => Follows(packet[Len(packet)], FirstOf(block) + idx + 1)
    BY <1>1 DEF PacketInv, Reached, Follows
  <2>4. /\ packet' \in Seq(Nat) /\ Len(packet') <= PacketFrames
        /\ idx' \in (idx + 1)..BlockFrames /\ PacketInv'
    BY <1>1, <1>3, <2>1, <2>2, <2>3, TakeKeepsOrder
  <2>5. block' = block /\ mpc' \in {"write", "collect"}
    BY <1>3 DEF Take
  <2>6. MicType'
    BY <1>1, <1>3, <2>1, <2>4, <2>5 DEF MicType
  <2>7. AccountedFor(block) /\ block' = block /\ tee' = tee /\ dropped' = dropped
    BY <1>1, <1>3, <2>5 DEF TeeInv
  <2>8. TeeInv'
    BY <1>1, <1>2, <2>7 DEF TeeInv, AccountedFor, InTee
  <2>9. QED BY <2>4, <2>6, <2>8
<1>4. CASE idx = BlockFrames /\ tee # <<>> /\ Take(Head(tee), 0) /\ tee' = Tail(tee)
  <2> DEFINE h == Head(tee)
  <2>1. /\ h \in Nat /\ block < h /\ h <= Taken /\ AccountedFor(h)
        /\ tee' \in Seq(Nat) /\ Len(tee') <= TeeCap
        /\ \A i \in 1..Len(tee) : h <= tee[i]
        /\ \A i \in 1..Len(tee') : h < tee'[i] /\ tee'[i] <= Taken /\ AccountedFor(tee[i])'
        /\ \A i, j \in 1..Len(tee') : i < j => tee'[i] < tee'[j]
        /\ \A b \in (h + 1)..Taken : b \in dropped \/ \E j \in 1..Len(tee') : tee'[j] = b
    BY <1>1, <1>4, TakenFromTee
  <2> HIDE DEF h
  <2>2. h \in Nat \ {0} /\ block \in Nat /\ 0 \in 0..(BlockFrames - 1)
    BY <1>1, <2>1 DEF MicType
  <2>3. /\ Reached = FirstOf(block + 1) /\ FirstOf(block + 1) <= FirstOf(h)
        /\ FirstOf(h) \in Nat /\ FirstOf(block + 1) \in Nat
    <3>1. Reached = FirstOf(block + 1) /\ FirstOf(block) + BlockFrames <= FirstOf(h)
      BY <1>4, <2>1, <2>2, FirstOfFacts DEF Reached
    <3>2. FirstOf(block + 1) = FirstOf(block) + BlockFrames
      BY <2>2, FirstOfFacts
    <3>3. block + 1 \in Nat \ {0}
      BY <2>2
    <3>4. QED BY <2>2, <3>1, <3>2, <3>3, FirstOfFacts
  <2>4. lastSent <= FirstOf(h) + 0
    <3>1. lastSent \in Nat /\ lastSent <= Reached
      BY <1>1 DEF MicType, PacketInv
    <3>2. QED BY <2>3, <3>1
  <2>5. ASSUME packet # <<>> PROVE Follows(packet[Len(packet)], FirstOf(h) + 0 + 1)
    <3>1. packet[Len(packet)] = FirstOf(block + 1)
      BY <1>1, <2>3, <2>5 DEF PacketInv
    <3>2. /\ FirstOf(block + 1) % BlockFrames = 0 /\ FirstOf(block + 1) \div BlockFrames = block
          /\ FirstOf(h) % BlockFrames = 0 /\ FirstOf(h) \div BlockFrames = h - 1
      <4>1. block + 1 \in Nat \ {0} /\ (block + 1) - 1 = block
        BY <2>2
      <4>2. QED BY <2>2, <4>1, FirstOfFacts
    <3>3. (FirstOf(h) + 0 + 1) - 1 = FirstOf(h)
      BY <2>3
    <3>4. (block + 1)..(h - 1) \subseteq dropped
      <4> SUFFICES ASSUME NEW b \in (block + 1)..(h - 1) PROVE b \in dropped
        OBVIOUS
      <4>1. b \in (block + 1)..Taken /\ b < h
        BY <1>1, <2>1, <2>2
      <4>2. AccountedFor(block)
        BY <1>1, <2>5 DEF TeeInv
      <4>3. ~InTee(b)
        <5> SUFFICES ASSUME NEW i \in 1..Len(tee), tee[i] = b PROVE FALSE
          BY DEF InTee
        <5>1. h <= b
          BY <2>1
        <5>2. QED BY <2>2, <4>1, <5>1
      <4>4. QED BY <4>1, <4>2, <4>3 DEF AccountedFor
    <3>5. QED BY <3>1, <3>2, <3>3, <3>4 DEF Follows
  <2>6. Take(h, 0)
    BY <1>4 DEF h
  <2>7. /\ packet' \in Seq(Nat) /\ Len(packet') <= PacketFrames
        /\ idx' \in (0 + 1)..BlockFrames /\ PacketInv'
    BY <1>1, <2>2, <2>4, <2>5, <2>6, TakeKeepsOrder
  <2>8. block' = h /\ mpc' \in {"write", "collect"}
    BY <2>6 DEF Take
  <2>9. MicType'
    BY <1>1, <2>1, <2>2, <2>7, <2>8 DEF MicType
  <2>10. AccountedFor(block)'
    BY <1>1, <1>2, <2>1, <2>8 DEF AccountedFor, InTee
  <2>11. TeeInv'
    BY <1>2, <2>1, <2>8, <2>10 DEF TeeInv
  <2>12. QED BY <2>7, <2>9, <2>11
<1>5. QED BY <1>3, <1>4 DEF Collect

LEMMA DrainKeeps ==
  ASSUME MicInv, Drain
  PROVE  MicType' /\ TeeInv' /\ PacketInv'
<1>1. /\ MicType /\ TeeInv /\ PacketInv /\ mpc = "drain" /\ packet = <<>>
      /\ tee # <<>> /\ tee' = Tail(tee) /\ idx' = BlockFrames /\ mpc' = "check"
      /\ UNCHANGED <<dropped, lastSent, produced, audio, block, packet>>
      /\ BlockFrames \in Nat \ {0}
  BY FramesAssumption DEF MicInv, PacketInv, Drain, dac
<1>2. Taken' = Taken
  BY <1>1 DEF Taken
<1>3. /\ Head(tee) \in Nat /\ block < Head(tee) /\ block \in Nat
      /\ tee' \in Seq(Nat) /\ Len(tee') <= TeeCap
      /\ \A i \in 1..Len(tee') : Head(tee) < tee'[i] /\ tee'[i] <= Taken /\ AccountedFor(tee[i])'
      /\ \A i, j \in 1..Len(tee') : i < j => tee'[i] < tee'[j]
  BY <1>1, TakenFromTee DEF MicType
<1>4. MicType'
  BY <1>1, <1>3 DEF MicType
<1>5. \A i \in 1..Len(tee') : tee'[i] \in Nat
  BY <1>3, ElementOfSeq
<1>6. TeeInv'
  <2>1. \A i \in 1..Len(tee') : block < tee'[i]
    BY <1>3, <1>5
  <2>2. QED BY <1>1, <1>2, <1>3, <2>1 DEF TeeInv
<1>7. lastSent' <= Reached'
  <2>1. Reached' = FirstOf(block) + BlockFrames /\ FirstOf(block) \in Int
    BY <1>1, <1>3, FirstOfFacts DEF Reached, FirstOf
  <2>2. lastSent <= FirstOf(block) + idx /\ idx \in 0..BlockFrames /\ lastSent \in Nat
    BY <1>1 DEF PacketInv, MicType, Reached
  <2>3. QED BY <1>1, <2>1, <2>2
<1>8. PacketInv'
  BY <1>1, <1>7, EmptySeq DEF PacketInv, GapsOnlyAtDrops
<1>9. QED BY <1>4, <1>6, <1>8

\* The copy for the tee is of the block that comes after all it has had.
LEMMA TeeKeeps ==
  ASSUME MicInv, TakeBlock
  PROVE  MicType' /\ TeeInv' /\ PacketInv'
<1>1. MicType /\ TeeInv /\ PacketInv /\ DacType /\ Consecutive /\ UNCHANGED mic /\ Taken \in Nat
  BY DEF MicInv, DacInv, TakeBlock, Consecutive
<1> DEFINE b == Head(audio)
<1>2. b = Taken + 1 /\ Taken' = Taken + 1 /\ Tee(b)
  <2>1. back' = b /\ Tee(b)
    BY DEF TakeBlock
  <2>2. QED BY <1>1, <2>1, TakeFacts
<1> HIDE DEF b
<1>3. b \in Nat /\ dropped \subseteq dropped' /\ dropped' \subseteq Nat
  <2>1. b \in Nat
    BY <1>1, <1>2
  <2>2. dropped' = dropped \/ dropped' = dropped \union {b}
    BY <1>2 DEF Tee
  <2>3. dropped \subseteq Nat
    BY <1>1 DEF MicType
  <2>4. QED BY <2>1, <2>2, <2>3
<1>4. /\ tee \in Seq(Nat) /\ Len(tee) \in Nat /\ TeeCap \in Nat
      /\ \A i \in 1..Len(tee) : tee[i] \in Nat
  BY <1>1, CapAssumption, ElementOfSeq DEF MicType
<1>5. /\ tee' \in Seq(Nat) /\ Len(tee') <= TeeCap /\ Len(tee') \in Nat
      /\ \A i \in 1..Len(tee) : i \in 1..Len(tee') /\ tee'[i] = tee[i]
      /\ \A i \in 1..Len(tee') : i \in 1..Len(tee) \/ (i = Len(tee) + 1 /\ tee'[i] = b)
      /\ b \in dropped' \/ \E i \in 1..Len(tee') : tee'[i] = b
  <2>1. CASE Len(tee) < TeeCap
    <3>1. tee' = Append(tee, b)
      BY <1>2, <2>1 DEF Tee
    <3>2. /\ tee' \in Seq(Nat) /\ Len(tee') = Len(tee) + 1
          /\ \A i \in 1..Len(tee) : tee'[i] = tee[i]
          /\ tee'[Len(tee) + 1] = b
      BY <1>3, <1>4, <3>1, AppendProperties
    <3>3. QED BY <1>4, <2>1, <3>2
  <2>2. CASE ~(Len(tee) < TeeCap)
    <3>1. tee' = tee /\ b \in dropped'
      BY <1>2, <2>2 DEF Tee
    <3>2. QED BY <1>1, <1>4, <3>1 DEF MicType
  <2>3. QED BY <2>1, <2>2
<1>6. MicType'
  BY <1>1, <1>3, <1>5 DEF MicType, mic
<1>7. ASSUME NEW n \in Nat, AccountedFor(n), NEW c \in (n + 1)..(Taken + 1)
      PROVE  c \in dropped' \/ \E i \in 1..Len(tee') : tee'[i] = c
  <2>1. CASE c = b
    BY <1>5, <2>1
  <2>2. CASE c # b
    <3>1. c \in (n + 1)..Taken
      BY <1>1, <1>2, <2>2
    <3>2. c \in dropped \/ InTee(c)
      BY <1>7, <3>1 DEF AccountedFor
    <3>3. QED BY <1>3, <1>5, <3>2 DEF InTee
  <2>3. QED BY <2>1, <2>2
<1>8. TeeInv'
  <2>1. block' = block /\ block' <= Taken' /\ block \in Nat
    BY <1>1, <1>2 DEF TeeInv, MicType, mic
  <2>2. ASSUME NEW i \in 1..Len(tee')
        PROVE  block < tee'[i] /\ tee'[i] <= Taken + 1 /\ AccountedFor(tee[i])'
    <3>1. CASE i \in 1..Len(tee)
      <4>1. tee'[i] = tee[i] /\ tee[i] \in Nat /\ block < tee[i] /\ tee[i] <= Taken /\ AccountedFor(tee[i])
        BY <1>1, <1>4, <1>5, <3>1 DEF TeeInv
      <4>2. \A c \in (tee[i] + 1)..(Taken + 1) : c \in dropped' \/ \E j \in 1..Len(tee') : tee'[j] = c
        BY <1>7, <4>1
      <4>3. AccountedFor(tee[i])'
        BY <1>2, <4>1, <4>2 DEF AccountedFor, InTee
      <4>4. QED BY <1>1, <4>1, <4>3
    <3>2. CASE i = Len(tee) + 1 /\ tee'[i] = b
      <4>1. AccountedFor(tee[i])'
        BY <1>1, <1>2, <3>2 DEF AccountedFor
      <4>2. QED BY <1>1, <1>2, <2>1, <3>2, <4>1 DEF TeeInv
    <3>3. QED BY <1>5, <3>1, <3>2
  <2>3. ASSUME NEW i \in 1..Len(tee'), NEW j \in 1..Len(tee'), i < j PROVE tee'[i] < tee'[j]
    <3>1. i \in 1..Len(tee)
      BY <1>4, <1>5, <2>3
    <3>2. tee'[i] = tee[i] /\ tee[i] \in Nat /\ tee[i] <= Taken
      BY <1>1, <1>4, <1>5, <3>1 DEF TeeInv
    <3>3. CASE j \in 1..Len(tee)
      BY <1>1, <1>5, <2>3, <3>1, <3>2, <3>3 DEF TeeInv
    <3>4. CASE tee'[j] = b
      BY <1>1, <1>2, <3>2, <3>4
    <3>5. QED BY <1>5, <3>3, <3>4
  <2>4. (packet # <<>> \/ idx < BlockFrames)' => AccountedFor(block)'
    <3>1. SUFFICES ASSUME packet # <<>> \/ idx < BlockFrames PROVE AccountedFor(block)'
      BY <1>1 DEF mic
    <3>2. AccountedFor(block)
      BY <1>1, <3>1 DEF TeeInv
    <3>3. \A c \in (block + 1)..(Taken + 1) : c \in dropped' \/ \E i \in 1..Len(tee') : tee'[i] = c
      BY <1>7, <2>1, <3>2
    <3>4. QED BY <1>2, <2>1, <3>3 DEF AccountedFor, InTee
  <2>5. QED BY <1>2, <2>1, <2>2, <2>3, <2>4 DEF TeeInv
<1>9. PacketInv'
  <2>1. GapsOnlyAtDrops'
    BY <1>1, <1>3 DEF PacketInv, GapsOnlyAtDrops, Follows, mic
  <2>2. QED BY <1>1, <2>1 DEF PacketInv, Reached, FirstOf, mic
<1>10. QED BY <1>6, <1>8, <1>9

LEMMA MicInit == Init => MicInv
<1> SUFFICES ASSUME Init PROVE MicInv
  OBVIOUS
<1>1. /\ tee = <<>> /\ packet = <<>> /\ dropped = {} /\ mpc = "check" /\ block = 0
      /\ idx = BlockFrames /\ lastSent = 0 /\ DacInv
  BY DacInit DEF Init
<1>2. BlockFrames \in Nat \ {0} /\ PacketFrames \in Nat \ {0} /\ TeeCap \in Nat \ {0}
      /\ <<>> \in Seq(Nat) /\ Len(<<>>) = 0 /\ Taken \in Nat
  BY <1>1, FramesAssumption, CapAssumption, EmptySeq DEF DacInv, Consecutive
<1>3. MicType
  BY <1>1, <1>2 DEF MicType
<1>4. TeeInv
  BY <1>1, <1>2 DEF TeeInv
<1>5. lastSent <= Reached
  BY <1>1, <1>2 DEF Reached, FirstOf
<1>6. PacketInv
  BY <1>1, <1>2, <1>5 DEF PacketInv, GapsOnlyAtDrops
<1>7. QED BY <1>1, <1>3, <1>4, <1>6 DEF MicInv

\* Every step of the program and of the host keeps the tee and the packets in order.
LEMMA MicStep == MicInv /\ [Next]_vars => MicInv'
<1> SUFFICES ASSUME MicInv, [Next]_vars PROVE MicInv'
  OBVIOUS
<1>0. DacInv' /\ MicType /\ TeeInv /\ PacketInv
  BY DacStep DEF MicInv
<1>1. CASE TakeBlock
  BY <1>0, <1>1, TeeKeeps DEF MicInv
<1>2. CASE Collect
  BY <1>0, <1>2, CollectKeeps DEF MicInv
<1>3. CASE Drain
  BY <1>0, <1>3, DrainKeeps DEF MicInv
<1>4. CASE Check
  <2>1. /\ UNCHANGED <<produced, audio, tee, dropped, block, idx, packet, lastSent>>
        /\ mpc' \in {"collect", "drain"} /\ packet = <<>>
    BY <1>0, <1>4 DEF Check, dac, PacketInv
  <2>2. Taken' = Taken
    BY <2>1 DEF Taken
  <2>3. MicType' /\ TeeInv'
    BY <1>0, <2>1, <2>2 DEF MicType, TeeInv, AccountedFor, InTee
  <2>4. Len(packet') < PacketFrames
    BY <2>1, FramesAssumption, EmptySeq
  <2>5. PacketInv'
    BY <1>0, <2>1, <2>4 DEF PacketInv, Reached, FirstOf, GapsOnlyAtDrops, Follows
  <2>6. QED BY <1>0, <2>3, <2>5 DEF MicInv
<1>5. CASE WriteDone \/ WriteFails \/ WriteTimeout
  <2>1. /\ UNCHANGED <<produced, audio, tee, dropped, block>>
        /\ mpc = "write" /\ mpc' = "check" /\ packet' = <<>>
        /\ \/ idx' = idx /\ lastSent' = packet[PacketFrames]
           \/ idx' = idx /\ lastSent' = lastSent
           \/ idx' = BlockFrames /\ lastSent' = lastSent
    BY <1>5 DEF WriteDone, WriteFails, WriteTimeout, dac
  <2>2. Taken' = Taken
    BY <2>1 DEF Taken
  <2>3. /\ BlockFrames \in Nat \ {0} /\ PacketFrames \in Nat \ {0}
        /\ <<>> \in Seq(Nat) /\ Len(<<>>) = 0
    BY FramesAssumption, EmptySeq
  <2>4. Len(packet) = PacketFrames /\ packet # <<>> /\ packet[PacketFrames] = Reached
    BY <1>0, <2>1, <2>3 DEF PacketInv
  <2>5. packet[PacketFrames] \in Nat
    BY <1>0, <2>3, <2>4, ElementOfSeq DEF MicType
  <2>6. MicType'
    BY <1>0, <2>1, <2>3, <2>5 DEF MicType
  <2>7. TeeInv'
    BY <1>0, <2>1, <2>2, <2>4 DEF TeeInv, AccountedFor, InTee
  <2>8. lastSent' <= Reached'
    <3>1. Reached' = FirstOf(block) + idx'
      BY <2>1 DEF Reached, FirstOf
    <3>2. /\ FirstOf(block) \in Int /\ idx \in 0..BlockFrames /\ lastSent \in Nat
          /\ lastSent <= FirstOf(block) + idx /\ Reached = FirstOf(block) + idx
      BY <1>0, FirstOfFacts DEF MicType, PacketInv, Reached
    <3>3. QED BY <2>1, <2>3, <2>4, <3>1, <3>2
  <2>9. PacketInv'
    <3>1. block' = 0 => idx' = BlockFrames
      BY <1>0, <2>1 DEF PacketInv
    <3>2. QED BY <2>1, <2>3, <2>8, <3>1 DEF PacketInv, GapsOnlyAtDrops
  <2>10. QED BY <1>0, <2>6, <2>7, <2>9 DEF MicInv
<1>6. CASE SendBlock
  <2>1. UNCHANGED <<tee, dropped, mic>> /\ Taken' = Taken
    BY <1>6, SendFacts DEF MicInv, DacInv, SendBlock
  <2>2. QED BY <1>0, <2>1 DEF MicInv, MicType, TeeInv, PacketInv, Reached, FirstOf, AccountedFor,
                              InTee, GapsOnlyAtDrops, Follows, mic
<1>7. CASE \/ StartDma \/ Swap \/ DmaDone \/ SelectAlt(0) \/ SelectAlt(1) \/ Suspend \/ Resume
           \/ BusReset \/ UNCHANGED vars
  <2>1. UNCHANGED <<tee, dropped, mic, produced, audio>>
    BY <1>7 DEF StartDma, Swap, DmaDone, SelectAlt, Suspend, Resume, BusReset, vars, dac
  <2>2. Taken' = Taken
    BY <2>1 DEF Taken
  <2>3. QED BY <1>0, <2>1, <2>2 DEF MicInv, MicType, TeeInv, PacketInv, Reached, FirstOf,
                                     AccountedFor, InTee, GapsOnlyAtDrops, Follows, mic
<1>8. QED BY <1>1, <1>2, <1>3, <1>4, <1>5, <1>6, <1>7 DEF Next, MicSteps

\* Two blocks are joined in a packet only where the tee had no room for those in
\* between, for all sizes of blocks, packets and channels.
THEOREM NoHiddenGaps == Spec => []GapsOnlyAtDrops
<1>1. MicInv => GapsOnlyAtDrops
  BY DEF MicInv, PacketInv
<1>2. QED BY <1>1, MicInit, MicStep, PTL DEF Spec

\* The host hears the frames in order and none twice.
THEOREM HostInOrder == Spec => []SentInOrder
<1>1. MicInv => SentInOrder
  BY DEF MicInv, PacketInv, SentInOrder
<1>2. QED BY <1>1, MicInit, MicStep, PTL DEF Spec

\* What core1's counter and the underrun flag add to the types.
CountInv == produced <= MaxBlocks /\ underrun \in {0, 1}

\* Type correctness.
THEOREM TypeCorrect == Spec => []TypeOK
<1>1. MicInv /\ HostInv /\ CountInv => TypeOK
  BY BlocksAssumption DEF CountInv, MicInv, MicType, DacInv, DacType, HostInv, TypeOK
<1>2. Init => CountInv
  BY BlocksAssumption DEF Init, CountInv
<1>3. MicInv /\ CountInv /\ [Next]_vars => CountInv'
  <2> SUFFICES ASSUME MicInv, CountInv, [Next]_vars PROVE CountInv'
    OBVIOUS
  <2> USE DEF CountInv
  <2>1. CASE SendBlock
    BY <2>1, BlocksAssumption DEF SendBlock, MicInv, DacInv, DacType
  <2>2. CASE StartDma
    BY <2>2 DEF StartDma
  <2>3. CASE \/ TakeBlock \/ Swap \/ DmaDone \/ MicSteps \/ SelectAlt(0) \/ SelectAlt(1)
             \/ Suspend \/ Resume \/ BusReset \/ UNCHANGED vars
    BY <2>3 DEF TakeBlock, Swap, DmaDone, MicSteps, Check, Drain, Collect, WriteDone, WriteFails,
                WriteTimeout, SelectAlt, Suspend, Resume, BusReset, dac, vars
  <2>4. QED BY <2>1, <2>2, <2>3 DEF Next
<1>4. QED BY <1>1, <1>2, <1>3, MicInit, MicStep, HostStarts, HostStep, PTL DEF Spec
==============================================================================
