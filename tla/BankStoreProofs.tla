----------------------------- MODULE BankStoreProofs -----------------------------
(* Proofs about BankStore and EditorLink for every number of sectors, pages, *)
(* power losses and pulled cables, and every length of the image.            *)
EXTENDS EditorLink, TLAPS

\* What write_raw has behind it holds the new bank already.
WriteInv ==
  /\ pc \in {"erase", "program"} => \A s \in Sectors, p \in Pages : s < sec => flash[s][p] = image
  /\ pc = "program" => \A p \in Pages : p < page => flash[sec][p] = image

\* Outside a write, an untorn flash is uniform.
UntornInv ==
  pc \notin {"erase", "program"} /\ torn = 0 =>
    \E c \in Contents : \A s \in Sectors, p \in Pages : flash[s][p] = c

IInv == TypeOK /\ WriteInv /\ UntornInv /\ ReadyHeaderCurrent

\* There is a first sector and it has a first page.
LEMMA FirstPage == 1 \in Sectors /\ 1 \in Pages
  BY NSectorsAssumption, NPagesAssumption DEF Sectors, Pages

\* Programming a page, and emptying some pages of a sector.
LEMMA FlashUpdate ==
  ASSUME flash \in [Sectors -> [Pages -> Contents]], sec \in Sectors
  PROVE  /\ \A p \in Pages, c \in Contents :
              LET f == [flash EXCEPT ![sec] = [@ EXCEPT ![p] = c]]
              IN  /\ f \in [Sectors -> [Pages -> Contents]] /\ f[sec][p] = c
                  /\ \A s \in Sectors, q \in Pages : s # sec \/ q # p => f[s][q] = flash[s][q]
         /\ \A g \in [Pages -> Contents] :
              LET f == [flash EXCEPT ![sec] = g]
              IN  /\ f \in [Sectors -> [Pages -> Contents]] /\ f[sec] = g
                  /\ \A s \in Sectors : s # sec => f[s] = flash[s]
  OBVIOUS

\* Before the first boot the flash is uniform and nothing is being written.
THEOREM InitInv == Init => IInv
<1> SUFFICES ASSUME Init PROVE IInv
  OBVIOUS
<1>1. PICK c \in {"blank", "earlier", "factory"} : flash = [s \in Sectors |-> [p \in Pages |-> c]]
  BY DEF Init
<1>2. TypeOK
  BY <1>1, FirstPage, NPagesAssumption, MaxLossesAssumption DEF Init, TypeOK, Contents, Current, Sectors
<1>3. UntornInv
  BY <1>1 DEF UntornInv, Contents, Current
<1> QED BY <1>2, <1>3 DEF IInv, WriteInv, ReadyHeaderCurrent, Init

\* Beginning a write, whatever is in the flash.
LEMMA BeginKeeps ==
  ASSUME TypeOK, NEW i \in Current, Begin(i), UNCHANGED <<flash, losses, torn>>
  PROVE  IInv'
<1>1. TypeOK'
  BY FirstPage, NPagesAssumption DEF TypeOK, Begin
<1>2. WriteInv'
  BY FirstPage DEF WriteInv, Begin, Sectors
<1> QED BY <1>1, <1>2 DEF IInv, UntornInv, ReadyHeaderCurrent, Begin

\* Every step of the program, and every power loss, keeps the invariant.
THEOREM StepInv == IInv /\ [Next]_vars => IInv'
<1> SUFFICES ASSUME IInv, [Next]_vars PROVE IInv'
  OBVIOUS
<1> USE DEF IInv
<1>1. CASE Boot
  <2>1. HeaderCurrent' = HeaderCurrent
    BY <1>1 DEF Boot, HeaderCurrent
  <2> QED BY <1>1, <2>1 DEF Boot, TypeOK, WriteInv, UntornInv, ReadyHeaderCurrent, place
<1>2. CASE BootFormat \/ ResetStorage \/ SysexWrite
  BY <1>2, BeginKeeps DEF BootFormat, ResetStorage, SysexWrite, Current
<1>3. CASE Erase
  <2> DEFINE g == [p \in Pages |-> "blank"]
  <2>1. g \in [Pages -> Contents]
    BY DEF Contents
  <2>2. flash' = [flash EXCEPT ![sec] = g] /\ pc' = "program" /\ page' = 1 /\ pc = "erase"
        /\ UNCHANGED <<image, sec, losses, torn>>
    BY <1>3 DEF Erase
  <2>3. flash' \in [Sectors -> [Pages -> Contents]] /\ \A s \in Sectors : s # sec => flash'[s] = flash[s]
    BY <2>1, <2>2, FlashUpdate DEF TypeOK
  <2>4. TypeOK'
    BY <2>2, <2>3, NPagesAssumption DEF TypeOK
  <2>5. WriteInv'
    BY <2>2, <2>3 DEF WriteInv, TypeOK, Sectors, Pages
  <2> QED BY <2>2, <2>4, <2>5 DEF UntornInv, ReadyHeaderCurrent
<1>4. CASE ProgramPage
  <2>1. pc = "program" /\ page <= NPages /\ page' = page + 1
        /\ flash' = [flash EXCEPT ![sec] = [@ EXCEPT ![page] = image]]
        /\ UNCHANGED <<pc, image, sec, losses, torn>>
    BY <1>4 DEF ProgramPage
  <2>2. page \in Pages /\ page + 1 \in 1..(NPages + 1)
    BY <2>1, NPagesAssumption DEF TypeOK, Pages
  <2>3. /\ flash' \in [Sectors -> [Pages -> Contents]] /\ flash'[sec][page] = image
        /\ \A s \in Sectors, q \in Pages : s # sec \/ q # page => flash'[s][q] = flash[s][q]
    BY <2>1, <2>2, FlashUpdate DEF TypeOK, Contents
  <2>4. TypeOK'
    BY <2>1, <2>2, <2>3 DEF TypeOK
  <2>5. \A s \in Sectors, p \in Pages : s < sec => flash'[s][p] = image
    BY <2>1, <2>3 DEF WriteInv, TypeOK, Sectors
  <2>6. \A p \in Pages : p < page' => flash'[sec][p] = image
    BY <2>1, <2>2, <2>3 DEF WriteInv, TypeOK, Pages
  <2>7. WriteInv'
    BY <2>1, <2>5, <2>6 DEF WriteInv
  <2> QED BY <2>1, <2>4, <2>7 DEF UntornInv, ReadyHeaderCurrent
<1>5. CASE SectorDone
  <2>1. \A p \in Pages : flash[sec][p] = image
    BY <1>5, NPagesAssumption DEF SectorDone, WriteInv, TypeOK, Pages
  <2>2. CASE sec < NSectors
    <3>1. pc' = "erase" /\ sec' = sec + 1 /\ page' = 1 /\ UNCHANGED <<flash, image, losses, torn>>
          /\ pc = "program"
      BY <1>5, <2>2 DEF SectorDone
    <3>2. sec + 1 \in Sectors /\ \A s \in Sectors : s < sec + 1 => s < sec \/ s = sec
      BY <2>2, NSectorsAssumption DEF TypeOK, Sectors
    <3>3. TypeOK'
      BY <3>1, <3>2, NPagesAssumption DEF TypeOK
    <3>4. WriteInv'
      BY <3>1, <3>2, <2>1 DEF WriteInv
    <3> QED BY <3>1, <3>3, <3>4 DEF UntornInv, ReadyHeaderCurrent
  <2>3. CASE ~(sec < NSectors)
    <3>1. pc' = "ready" /\ torn' = 0 /\ UNCHANGED <<flash, image, sec, page, losses>> /\ pc = "program"
      BY <1>5, <2>3 DEF SectorDone, place
    <3>2. \A s \in Sectors : s < sec \/ s = sec
      BY <2>3, NSectorsAssumption DEF TypeOK, Sectors
    <3>3. \A s \in Sectors, p \in Pages : flash[s][p] = image
      BY <3>1, <3>2, <2>1 DEF WriteInv
    <3>4. image \in Current /\ image \in Contents
      BY DEF TypeOK, Contents
    <3>5. HeaderCurrent'
      BY <3>1, <3>3, <3>4, FirstPage DEF HeaderCurrent
    <3>6. UntornInv'
      BY <3>1, <3>3, <3>4 DEF UntornInv
    <3> QED BY <3>1, <3>5, <3>6 DEF TypeOK, WriteInv, ReadyHeaderCurrent
  <2> QED BY <2>2, <2>3
<1>6. CASE PowerLoss
  <2>1. pc' = "off" /\ losses' = losses + 1 /\ losses < MaxLosses /\ UNCHANGED <<image, sec, page>>
    BY <1>6 DEF PowerLoss, place
  <2>2. losses' \in 0..MaxLosses /\ torn' \in {0, 1}
    BY <1>6, <2>1, MaxLossesAssumption DEF PowerLoss, TypeOK
  <2>3. CASE pc = "erase"
    <3>1. PICK gone \in SUBSET Pages :
            flash' = [flash EXCEPT ![sec] = [p \in Pages |-> IF p \in gone THEN "blank" ELSE @[p]]]
      BY <1>6, <2>3 DEF PowerLoss
    <3> DEFINE g == [p \in Pages |-> IF p \in gone THEN "blank" ELSE flash[sec][p]]
    <3>2. g \in [Pages -> Contents]
      BY DEF TypeOK, Contents
    <3>3. flash' = [flash EXCEPT ![sec] = g]
      BY <3>1
    <3>4. flash' \in [Sectors -> [Pages -> Contents]]
      BY <3>2, <3>3, FlashUpdate DEF TypeOK
    <3>5. torn' = 1
      BY <1>6, <2>3 DEF PowerLoss
    <3> QED BY <2>1, <2>2, <3>4, <3>5 DEF TypeOK, WriteInv, UntornInv, ReadyHeaderCurrent
  <2>4. CASE pc # "erase"
    <3>1. flash' = flash /\ torn' = IF pc = "program" THEN 1 ELSE torn
      BY <1>6, <2>4 DEF PowerLoss
    <3> QED BY <2>1, <2>2, <2>4, <3>1 DEF TypeOK, WriteInv, UntornInv, ReadyHeaderCurrent
  <2> QED BY <2>3, <2>4
<1>7. CASE UNCHANGED vars
  BY <1>7 DEF vars, place, TypeOK, WriteInv, UntornInv, ReadyHeaderCurrent, HeaderCurrent
<1> QED BY <1>1, <1>2, <1>3, <1>4, <1>5, <1>6, <1>7 DEF Next, WriteStep

\* The inductive invariant holds of the specification.
THEOREM Invariance == Spec => []IInv
  BY InitInv, StepInv, PTL DEF Spec

\* Type correctness.
THEOREM TypeCorrect == Spec => []TypeOK
  BY Invariance, PTL DEF IInv

\* Presets are only read through a header of this firmware, wherever power was lost.
THEOREM HeaderUnderstood == Spec => []ReadyHeaderCurrent
  BY Invariance, PTL DEF IInv

\* A write that nothing interrupted leaves one whole bank, and so does every boot
\* until a write is interrupted.
THEOREM BankWhole == Spec => []WholeUnlessTorn
<1>1. IInv => WholeUnlessTorn
  <2> SUFFICES ASSUME IInv, pc = "ready", torn = 0
               PROVE  \E i \in Current : Whole(i)
    BY DEF WholeUnlessTorn
  <2>1. PICK c \in Contents : \A s \in Sectors, p \in Pages : flash[s][p] = c
    BY DEF IInv, UntornInv
  <2>2. c \in Current
    BY <2>1, FirstPage DEF IInv, ReadyHeaderCurrent, HeaderCurrent
  <2>3. flash \in [Sectors -> [Pages -> Contents]]
    BY DEF IInv, TypeOK
  <2>4. \A s \in Sectors : flash[s] = [p \in Pages |-> c]
    BY <2>1, <2>3
  <2>5. Whole(c)
    BY <2>3, <2>4 DEF Whole
  <2> QED BY <2>2, <2>5
<1> QED BY <1>1, Invariance, PTL

------------------------------------------------------------------------------
(* EditorLink.  Its steps are steps of BankStore or leave the bank alone. *)

\* The editor's link is an environment of the bank: whatever is proved of BankStore
\* holds with the bytes, the cable and the answers in it.
THEOREM StoreImplemented == ESpec => Spec
<1>1. EInit => Init
  BY DEF EInit
<1>2. [ENext]_evars => [Next]_vars
  <2> SUFFICES ASSUME [ENext]_evars PROVE [Next]_vars
    OBVIOUS
  <2>1. ASSUME NEW m \in DOMAIN Message, HostSends(m) PROVE UNCHANGED vars
    BY <2>1 DEF HostSends
  <2>2. CASE Disconnect \/ Reconnect \/ Deliver \/ ReplyFails \/ StartTask
    BY <2>2 DEF Disconnect, Reconnect, Deliver, ReplyFails, AnswerEnds, StartTask
  <2>3. CASE Byte
    <3> DEFINE b == Message[msg][pos]
    <3>1. StartByte(b) \/ StrayByte(b) \/ HeaderByte(b) \/ NibbleByte(b) \/ EndByte(b)
      BY <2>3 DEF Byte
    <3> HIDE DEF b
    <3>2. CASE StartByte(b) \/ StrayByte(b) \/ HeaderByte(b) \/ NibbleByte(b)
      BY <3>2 DEF StartByte, StrayByte, HeaderByte, NibbleByte
    <3>3. CASE EndByte(b)
      <4>1. HandleSysex \/ UNCHANGED vars
        BY <3>3 DEF EndByte
      <4>2. HandleSysex => SysexWrite \/ UNCHANGED vars
        BY DEF HandleSysex, AcceptBank
      <4> QED BY <4>1, <4>2 DEF Next
    <3> QED BY <3>1, <3>2, <3>3
  <2>4. CASE EWriteStep \/ EBoot \/ EReset \/ EPowerLoss
    BY <2>4 DEF EWriteStep, EBoot, EReset, EPowerLoss, Next
  <2>5. CASE UNCHANGED evars
    BY <2>5 DEF evars
  <2> QED BY <2>1, <2>2, <2>3, <2>4, <2>5 DEF ENext
<1> QED BY <1>1, <1>2, PTL DEF ESpec, Spec

\* The bytes decoded so far are the payload received so far.
Decoded ==
  /\ Len(payload) = 2 * Len(raw) + (IF hi = NoNibble THEN 0 ELSE 1)
  /\ \A i \in 1..Len(raw) : raw[i] = 16 * payload[2 * i - 1] + payload[2 * i]
  /\ hi # NoNibble => hi = payload[Len(payload)]

FramingOK ==
  /\ raw \in Seq(Nat) /\ payload \in Seq(Nat)
  /\ hi \in 0..NoNibble /\ overflow \in {0, 1}
  /\ msg # "none" => msg \in DOMAIN Message /\ pos \in 1..Len(Message[msg])

FramingInv == /\ FramingOK
              /\ inSysex = 1 /\ overflow = 0 => Decoded
              /\ ImageIsPayload

\* A host sends numbers, and at least one.
LEMMA MessageBytes ==
  ASSUME NEW m \in DOMAIN Message
  PROVE  Message[m] \in Seq(Nat) /\ Len(Message[m]) \in Nat \ {0}
<1>1. ASSUME NEW f \in Nat, NEW n \in Nat
      PROVE  Bank(f, n) \in Seq(Nat) /\ Len(Bank(f, n)) = n + 5
  <2> DEFINE body == [i \in 1..n |-> IF i = 1 THEN f ELSE i]
  <2>1. body \in Seq(Nat) /\ Len(body) = n
    BY <1>1
  <2>2. <<START, ID, MODEL, WRITE_REQ>> \in Seq(Nat) /\ <<END>> \in Seq(Nat)
    BY DEF START, ID, MODEL, WRITE_REQ, END
  <2> HIDE DEF body
  <2>3. Bank(f, n) = <<START, ID, MODEL, WRITE_REQ>> \o body \o <<END>>
    BY DEF Bank, body
  <2> QED BY <2>1, <2>2, <2>3
<1>2. 2 * ImageBytes \in Nat /\ 2 * ImageBytes - 1 \in Nat /\ 2 * ImageBytes + 1 \in Nat
  BY ImageAssumption
<1>3. CASE m \in {"write", "odd", "long", "outdated"}
  <2>1. /\ m = "write" => Message[m] = Bank(1, 2 * ImageBytes)
        /\ m = "odd" => Message[m] = Bank(1, 2 * ImageBytes - 1)
        /\ m = "long" => Message[m] = Bank(1, 2 * ImageBytes + 1)
        /\ m = "outdated" => Message[m] = Bank(9, 2 * ImageBytes)
    BY SMTT(60) DEF Message
  <2>2. PICK f \in {1, 9}, n \in {2 * ImageBytes, 2 * ImageBytes - 1, 2 * ImageBytes + 1} :
          Message[m] = Bank(f, n)
    BY <1>3, <2>1, Zenon
  <2>3. f \in Nat /\ n \in Nat
    BY <1>2
  <2>4. Message[m] \in Seq(Nat) /\ Len(Message[m]) = n + 5
    BY <1>1, <2>2, <2>3, Zenon
  <2> QED BY <2>3, <2>4
<1>4. CASE m \in {"dump", "foreign", "tiny"}
  <2>1. /\ m = "dump" => Message[m] = <<START, ID, MODEL, DUMP_REQ, END>>
        /\ m = "foreign" => Message[m] = <<START, 126, 127, 6, 1, END>>
        /\ m = "tiny" => Message[m] = <<START, ID, END>>
    BY DEF Message
  <2>2. \A a, b, c, d, e \in Nat :
          /\ <<a, b, c>> \in Seq(Nat) /\ Len(<<a, b, c>>) = 3
          /\ <<a, b, c, d, e>> \in Seq(Nat) /\ Len(<<a, b, c, d, e>>) = 5
    OBVIOUS
  <2>3. \A a, b, c, d, e, f \in Nat :
          <<a, b, c, d, e, f>> \in Seq(Nat) /\ Len(<<a, b, c, d, e, f>>) = 6
    OBVIOUS
  <2>4. {START, ID, MODEL, DUMP_REQ, END, 126, 127, 6, 1} \subseteq Nat
    BY DEF START, ID, MODEL, DUMP_REQ, END
  <2>5. CASE m = "dump"
    <3>1. <<START, ID, MODEL, DUMP_REQ, END>> \in Seq(Nat) /\ Len(<<START, ID, MODEL, DUMP_REQ, END>>) = 5
      BY <2>2, <2>4
    <3>2. Message[m] \in Seq(Nat) /\ Len(Message[m]) = 5
      BY <2>1, <2>5, <3>1, Zenon
    <3> QED BY <3>2
  <2>6. CASE m = "foreign"
    <3>1. <<START, 126, 127, 6, 1, END>> \in Seq(Nat) /\ Len(<<START, 126, 127, 6, 1, END>>) = 6
      BY <2>3, <2>4
    <3>2. Message[m] \in Seq(Nat) /\ Len(Message[m]) = 6
      BY <2>1, <2>6, <3>1, Zenon
    <3> QED BY <3>2
  <2>7. CASE m = "tiny"
    <3>1. <<START, ID, END>> \in Seq(Nat) /\ Len(<<START, ID, END>>) = 3
      BY <2>2, <2>4
    <3>2. Message[m] \in Seq(Nat) /\ Len(Message[m]) = 3
      BY <2>1, <2>7, <3>1, Zenon
    <3> QED BY <3>2
  <2> QED BY <1>4, <2>5, <2>6, <2>7
<1>5. DOMAIN Message = {"dump", "write", "odd", "long", "outdated", "foreign", "tiny"}
  BY DEF Message
<1> QED BY <1>3, <1>4, <1>5

\* Initially nothing has been received.
LEMMA FramingStarts == EInit => FramingInv
  BY DEF EInit, FramingInit, FramingInv, FramingOK, Decoded, NoNibble, ImageIsPayload

\* A step that leaves the decoding alone and begins no write keeps the invariant.
LEMMA FramingKept ==
  ASSUME FramingInv, UNCHANGED <<framing, payload>>, reply' = "write" => reply = "write",
         msg' # "none" => msg' \in DOMAIN Message /\ pos' \in 1..Len(Message[msg'])
  PROVE  FramingInv'
  BY DEF FramingInv, FramingOK, Decoded, ImageIsPayload, framing

\* Where the two nibbles of the i-th byte are.
LEMMA Places ==
  ASSUME NEW k \in Nat, NEW i \in 1..k
  PROVE  2 * i - 1 \in 1..(2 * k) /\ 2 * i \in 1..(2 * k)
  OBVIOUS

\* One byte of a SysEx packet.
LEMMA ByteDecoded ==
  ASSUME FramingInv, reply = "none", NEW b \in Nat,
         StartByte(b) \/ StrayByte(b) \/ HeaderByte(b) \/ NibbleByte(b) \/ EndByte(b)
  PROVE  /\ raw' \in Seq(Nat) /\ payload' \in Seq(Nat)
         /\ hi' \in 0..NoNibble /\ overflow' \in {0, 1}
         /\ inSysex' = 1 /\ overflow' = 0 => Decoded'
         /\ ImageIsPayload'
<1> USE DEF FramingInv, FramingOK
<1>1. CASE StartByte(b)
  BY <1>1 DEF StartByte, Decoded, NoNibble, ImageIsPayload
<1>2. CASE StrayByte(b)
  BY <1>2 DEF StrayByte, framing, Decoded, ImageIsPayload
<1>3. CASE HeaderByte(b)
  BY <1>3 DEF HeaderByte, Decoded, ImageIsPayload
<1>4. CASE NibbleByte(b)
  <2> DEFINE nibble == b % 16
  <2>1. nibble \in 0..15
    OBVIOUS
  <2>2. payload' = Append(payload, nibble) /\ inSysex = 1 /\ reply' = "none"
    BY <1>4 DEF NibbleByte
  <2>3. /\ payload' \in Seq(Nat) /\ Len(payload') = Len(payload) + 1
        /\ payload'[Len(payload) + 1] = nibble
        /\ \A i \in 1..Len(payload) : payload'[i] = payload[i]
        /\ Len(payload) \in Nat /\ Len(raw) \in Nat
    BY <2>1, <2>2
  <2>4. CASE hi = NoNibble /\ hi' = nibble /\ UNCHANGED <<raw, overflow>>
    <3>1. hi' # NoNibble /\ hi' \in 0..NoNibble
      BY <2>1, <2>4 DEF NoNibble
    <3>2. ASSUME overflow = 0 PROVE Decoded'
      <4>1. Decoded /\ Len(payload) = 2 * Len(raw)
        BY <2>2, <2>4, <3>2 DEF Decoded
      <4>2. ASSUME NEW i \in 1..Len(raw)
            PROVE  raw[i] = 16 * payload'[2 * i - 1] + payload'[2 * i]
        <5>1. 2 * i - 1 \in 1..(2 * Len(raw)) /\ 2 * i \in 1..(2 * Len(raw))
          BY <2>3, Places
        <5>2. 1..(2 * Len(raw)) \subseteq 1..Len(payload)
          BY <2>3, <4>1
        <5> QED BY <2>3, <4>1, <5>1, <5>2 DEF Decoded
      <4> QED BY <2>3, <2>4, <3>1, <4>1, <4>2 DEF Decoded
    <3> QED BY <2>2, <2>3, <2>4, <3>1, <3>2 DEF ImageIsPayload
  <2>5. CASE hi # NoNibble /\ hi' = NoNibble /\ Len(raw) < ImageBytes
             /\ raw' = Append(raw, 16 * hi + nibble) /\ UNCHANGED overflow
    <3>1. /\ raw' \in Seq(Nat) /\ Len(raw') = Len(raw) + 1
          /\ raw'[Len(raw) + 1] = 16 * hi + nibble
          /\ \A i \in 1..Len(raw) : raw'[i] = raw[i]
      BY <2>1, <2>5 DEF NoNibble
    <3>2. ASSUME overflow = 0 PROVE Decoded'
      <4>1. Decoded /\ Len(payload) = 2 * Len(raw) + 1 /\ hi = payload[Len(payload)]
        BY <2>2, <2>5, <3>2 DEF Decoded
      <4>2. ASSUME NEW i \in 1..Len(raw)
            PROVE  raw'[i] = 16 * payload'[2 * i - 1] + payload'[2 * i]
        <5>1. 2 * i - 1 \in 1..(2 * Len(raw)) /\ 2 * i \in 1..(2 * Len(raw))
          BY <2>3, Places
        <5>2. 1..(2 * Len(raw)) \subseteq 1..Len(payload)
          BY <2>3, <4>1
        <5> QED BY <2>3, <3>1, <4>1, <5>1, <5>2 DEF Decoded
      <4>3. LET n == Len(raw) + 1
            IN  raw'[n] = 16 * payload'[2 * n - 1] + payload'[2 * n]
        <5>1. /\ 2 * (Len(raw) + 1) - 1 = Len(payload) /\ 2 * (Len(raw) + 1) = Len(payload) + 1
              /\ Len(payload) \in 1..Len(payload)
          BY <2>3, <4>1
        <5> QED BY <2>3, <3>1, <4>1, <5>1
      <4>4. \A i \in 1..Len(raw') : i \in 1..Len(raw) \/ i = Len(raw) + 1
        BY <2>3, <3>1
      <4>5. Len(payload') = 2 * Len(raw')
        BY <2>3, <3>1, <4>1
      <4>6. \A i \in 1..Len(raw') : raw'[i] = 16 * payload'[2 * i - 1] + payload'[2 * i]
        BY <4>2, <4>3, <4>4
      <4> QED BY <2>5, <4>5, <4>6 DEF Decoded, NoNibble
    <3> QED BY <2>2, <2>3, <2>5, <3>1, <3>2 DEF ImageIsPayload, NoNibble
  <2>6. CASE hi' = NoNibble /\ overflow' = 1 /\ UNCHANGED raw
    BY <2>2, <2>3, <2>6 DEF ImageIsPayload, NoNibble
  <2> QED BY <1>4, <2>4, <2>5, <2>6 DEF NibbleByte
<1>5. CASE EndByte(b)
  <2>1. inSysex = 1 /\ inSysex' = 0 /\ Ended /\ UNCHANGED <<raw, hi, payload>>
    BY <1>5 DEF EndByte
  <2>2. overflow' \in {0, 1} /\ (overflow' = 0 => overflow = 0 /\ hi = NoNibble)
    BY <2>1 DEF Ended
  <2>3. reply' = "write" => overflow' = 0 /\ Len(raw) = ImageBytes
    <3>1. HandleSysex \/ reply' = reply
      BY <1>5 DEF EndByte
    <3>2. ASSUME HandleSysex, reply' = "write" PROVE ~WrongLength
      BY <3>2 DEF HandleSysex, AcceptBank
    <3>3. ~WrongLength => overflow' # 1 /\ Len(raw) = ImageBytes
      BY DEF WrongLength
    <3> QED BY <2>2, <3>1, <3>2, <3>3
  <2>4. ASSUME reply' = "write" PROVE ImageIsPayload'
    <3>1. Decoded /\ hi = NoNibble /\ Len(raw) = ImageBytes
      BY <2>1, <2>2, <2>3, <2>4
    <3>2. raw = [i \in 1..ImageBytes |-> raw[i]]
      BY <3>1
    <3>3. Len(payload) = 2 * ImageBytes
      BY <3>1, ImageAssumption DEF Decoded
    <3>4. \A i \in 1..ImageBytes : raw[i] = 16 * payload[2 * i - 1] + payload[2 * i]
      BY <3>1 DEF Decoded
    <3>5. raw = [i \in 1..ImageBytes |-> 16 * payload[2 * i - 1] + payload[2 * i]]
      BY <3>2, <3>4, Zenon
    <3> QED BY <2>1, <3>3, <3>5 DEF ImageIsPayload
  <2> QED BY <2>1, <2>2, <2>4 DEF ImageIsPayload
<1> QED BY <1>1, <1>2, <1>3, <1>4, <1>5

\* Every step of the host, the cable and midi_task keeps the invariant.
LEMMA FramingStep == FramingInv /\ [ENext]_evars => FramingInv'
<1> SUFFICES ASSUME FramingInv, [ENext]_evars PROVE FramingInv'
  OBVIOUS
<1>0. msg # "none" => msg \in DOMAIN Message /\ pos \in 1..Len(Message[msg])
  BY DEF FramingInv, FramingOK
<1>1. ASSUME NEW m \in DOMAIN Message, HostSends(m) PROVE FramingInv'
  <2>1. 1 \in 1..Len(Message[m])
    BY MessageBytes
  <2> QED BY <1>1, <2>1, FramingKept DEF HostSends
<1>2. CASE Disconnect \/ Deliver \/ ReplyFails \/ StartTask \/ EWriteStep \/ EBoot \/ EReset
  <2>1. UNCHANGED <<framing, payload, msg, pos>> /\ (reply' = "write" => reply = "write")
    BY <1>2 DEF Disconnect, Deliver, ReplyFails, AnswerEnds, StartTask, EWriteStep, EBoot, EReset, wire
  <2> QED BY <1>0, <2>1, FramingKept
<1>3. CASE Reconnect
  <2>1. UNCHANGED <<framing, payload, reply>>
    BY <1>3 DEF Reconnect
  <2>2. msg' # "none" => msg' = msg /\ pos' \in pos..Len(Message[msg])
    BY <1>3 DEF Reconnect
  <2>3. msg' # "none" => msg' \in DOMAIN Message /\ pos' \in 1..Len(Message[msg'])
    <3> SUFFICES ASSUME msg' # "none" PROVE msg' \in DOMAIN Message /\ pos' \in 1..Len(Message[msg'])
      OBVIOUS
    <3>1. Len(Message[msg]) \in Nat
      BY <1>0, <2>2, MessageBytes
    <3> QED BY <1>0, <2>2, <3>1
  <2> QED BY <2>1, <2>3, FramingKept
<1>4. CASE Byte
  <2>1. reply = "none" /\ msg # "none" /\ msg \in DOMAIN Message /\ pos \in 1..Len(Message[msg])
    BY <1>0, <1>4 DEF Byte, Free
  <2>2. PICK b \in Nat : StartByte(b) \/ StrayByte(b) \/ HeaderByte(b) \/ NibbleByte(b) \/ EndByte(b)
    <3>1. Message[msg][pos] \in Nat
      BY <2>1, MessageBytes
    <3> QED BY <1>4, <3>1 DEF Byte
  <2>3. msg' # "none" => msg' = msg /\ pos' = pos + 1 /\ pos < Len(Message[msg])
    BY <1>4 DEF Byte
  <2>4. msg' # "none" => msg' \in DOMAIN Message /\ pos' \in 1..Len(Message[msg'])
    <3>1. Len(Message[msg]) \in Nat
      BY <2>1, MessageBytes
    <3> QED BY <2>1, <2>3, <3>1
  <2> QED BY <2>1, <2>2, <2>4, ByteDecoded DEF FramingInv, FramingOK
<1>5. CASE EPowerLoss
  BY <1>5 DEF EPowerLoss, FramingInv, FramingOK, Decoded, NoNibble, ImageIsPayload
<1>6. CASE UNCHANGED evars
  <2>1. UNCHANGED <<framing, payload, reply, msg, pos>>
    BY <1>6 DEF evars, wire
  <2> QED BY <1>0, <2>1, FramingKept
<1> QED BY <1>1, <1>2, <1>3, <1>4, <1>5, <1>6 DEF ENext

\* Whatever was cut, spliced or left over before it: the image that is written to
\* flash is the payload received since the last start byte.
THEOREM ImageCorrect == ESpec => []ImageIsPayload
<1>1. FramingInv => ImageIsPayload
  BY DEF FramingInv
<1> QED BY <1>1, FramingStarts, FramingStep, PTL DEF ESpec
==============================================================================
