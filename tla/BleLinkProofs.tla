----------------------------- MODULE BleLinkProofs -----------------------------
(***************************************************************************)
(* Proofs about BleLink, BlePacket and NoteLed for every set of notes,     *)
(* every capacity of the channels and packets of any length.               *)
(***************************************************************************)
EXTENDS NoteLed, SetInduction, TLAPS

IInv == TypeOK /\ KeysAgree

\* The panic message is a message like the others.
LEMMA PanicTyped == Panic \in Messages
  BY NotesAssumption DEF Panic, Messages

\* Initially nobody is connected, nothing is queued and nothing sounds.
THEOREM InitInv == Init => IInv
<1> SUFFICES ASSUME Init PROVE IInv
  OBVIOUS
<1>1. TypeOK
  BY BleCapAssumption DEF Init, TypeOK
<1>2. KeysAgree
  BY DEF Init, KeysAgree, About
<1> QED BY <1>1, <1>2 DEF IInv

\* Offering a message m after which exactly the keys that m reports down among
\* those it concerns are down keeps the agreement, whether m fits or not.
LEMMA OfferAgrees ==
  ASSUME IInv, NEW m \in Messages, Offer(m), UNCHANGED held,
         keys' \subseteq Notes,
         \A n \in Concerned(m) : m.kind = "on" <=> n \in keys',
         \A n \in Notes \ Concerned(m) : n \in keys <=> n \in keys'
  PROVE  KeysAgree'
<1>1. CASE Len(chan) < BleCap
  <2>1. chan' = Append(chan, m) /\ lost' = lost \ Concerned(m)
    BY <1>1 DEF Offer
  <2>2. Len(chan') = Len(chan) + 1 /\ chan'[Len(chan) + 1] = m
        /\ \A i \in 1..Len(chan) : chan'[i] = chan[i]
    BY <2>1 DEF IInv, TypeOK
  <2> SUFFICES ASSUME NEW n \in Notes, n \notin lost'
               PROVE  /\ About(n)' = {} => (n \in held' <=> n \in keys')
                      /\ \A i \in About(n)' : (\A j \in About(n)' : j <= i)
                                              => (chan'[i].kind = "on" <=> n \in keys')
    BY DEF KeysAgree
  <2>3. Len(chan) \in Nat
    BY DEF IInv, TypeOK
  <2>4. CASE n \in Concerned(m)
    <3>1. Len(chan) + 1 \in About(n)'
      BY <2>2, <2>3, <2>4 DEF About
    <3>2. ASSUME NEW i \in About(n)', \A j \in About(n)' : j <= i
          PROVE  i = Len(chan) + 1
      BY <3>1, <3>2, <2>2, <2>3 DEF About
    <3> QED BY <3>1, <3>2, <2>2, <2>4
  <2>5. CASE n \notin Concerned(m)
    <3>1. About(n)' = About(n)
      BY <2>2, <2>3, <2>5 DEF About
    <3>2. n \notin lost
      BY <2>1, <2>5
    <3>3. \A i \in About(n) : chan'[i] = chan[i]
      BY <2>2 DEF About
    <3> QED BY <3>1, <3>2, <3>3, <2>5 DEF IInv, KeysAgree
  <2> QED BY <2>4, <2>5
<1>2. CASE ~(Len(chan) < BleCap)
  <2>1. chan' = chan /\ lost' = lost \union Concerned(m)
    BY <1>2 DEF Offer
  <2>2. ASSUME NEW n \in Notes, n \notin lost' PROVE n \notin lost /\ n \notin Concerned(m)
    BY <2>1, <2>2
  <2> QED BY <2>1, <2>2 DEF IInv, KeysAgree, About
<1> QED BY <1>1, <1>2

\* Taking the oldest message out keeps the agreement.
LEMMA ReceiveAgrees ==
  ASSUME IInv, Receive PROVE KeysAgree'
<1>1. chan # <<>> /\ chan' = Tail(chan) /\ held' = Hear(Head(chan)) /\ keys' = keys /\ lost' = lost
  BY DEF Receive
<1>2. chan \in Seq(Messages)
  BY DEF IInv, TypeOK
<1>3. Len(chan) \in Nat /\ Len(chan) >= 1 /\ Len(chan') = Len(chan) - 1
      /\ \A i \in 1..(Len(chan) - 1) : chan'[i] = chan[i + 1]
  BY <1>1, <1>2
<1>4. Head(chan) = chan[1] /\ chan[1] \in Messages
  BY <1>1, <1>2, <1>3
<1> SUFFICES ASSUME NEW n \in Notes, n \notin lost
             PROVE  /\ About(n)' = {} => (n \in held' <=> n \in keys)
                    /\ \A i \in About(n)' : (\A j \in About(n)' : j <= i)
                                            => (chan'[i].kind = "on" <=> n \in keys)
  BY <1>1 DEF KeysAgree
<1>5. \A i \in About(n)' : i \in Nat /\ i + 1 \in About(n) /\ chan'[i] = chan[i + 1]
  BY <1>3 DEF About
<1>6. \A j \in About(n) : j \in Nat /\ j >= 1 /\ (j # 1 => j - 1 \in About(n)')
  BY <1>3 DEF About
<1>7. ASSUME About(n)' = {} PROVE n \in held' <=> n \in keys
  <2>1. \A j \in About(n) : j = 1
    BY <1>6, <1>7
  <2>2. CASE n \in Concerned(chan[1])
    <3>1. 1 \in About(n)
      BY <1>3, <2>2 DEF About
    <3>2. chan[1].kind = "on" <=> n \in keys
      BY <2>1, <3>1 DEF IInv, KeysAgree
    <3>3. chan[1].kind # "panic" => chan[1].kind # "other" /\ chan[1].note = n
      BY <2>2 DEF Concerned
    <3>4. n \in Hear(chan[1]) <=> chan[1].kind = "on"
      BY <3>3, <1>4 DEF Hear, Messages
    <3> QED BY <3>2, <3>4, <1>1, <1>4
  <2>3. CASE n \notin Concerned(chan[1])
    <3>1. About(n) = {}
      BY <2>1, <2>3 DEF About
    <3>2. chan[1].kind # "panic" /\ (chan[1].kind = "other" \/ chan[1].note # n)
      BY <2>3 DEF Concerned
    <3>3. n \in Hear(chan[1]) <=> n \in held
      BY <3>2, <1>4 DEF Hear, Messages
    <3> QED BY <3>1, <3>3, <1>1, <1>4 DEF IInv, KeysAgree
  <2> QED BY <2>2, <2>3
<1>8. ASSUME NEW i \in About(n)', \A j \in About(n)' : j <= i
      PROVE  chan'[i].kind = "on" <=> n \in keys
  <2>1. \A j \in About(n) : j <= i + 1
    BY <1>5, <1>6, <1>8
  <2> QED BY <1>5, <2>1 DEF IInv, KeysAgree
<1> QED BY <1>7, <1>8

\* Every step of the Bluetooth task and of midi_task keeps both.
THEOREM StepInv == IInv /\ [Next]_vars => IInv'
<1> SUFFICES ASSUME IInv, [Next]_vars PROVE IInv'
  OBVIOUS
<1> USE DEF IInv
<1>1. ASSUME NEW m \in Messages, Offer(m)
      PROVE  chan' \in Seq(Messages) /\ Len(chan') <= BleCap /\ lost' \subseteq Notes
  <2>1. Concerned(m) \subseteq Notes
    BY DEF Concerned, Messages
  <2>2. Len(chan) \in Nat /\ BleCap \in Nat
    BY BleCapAssumption DEF TypeOK
  <2> QED BY <1>1, <2>1, <2>2 DEF Offer, TypeOK
<1>2. CASE Find \/ Connect \/ Pair \/ Subscribe \/ BusyBegins \/ BusyEnds
  BY <1>2 DEF Find, Connect, Pair, Subscribe, BusyBegins, BusyEnds, TypeOK, KeysAgree, About
<1>3. ASSUME NEW n \in Notes, KeyDown(n) PROVE IInv'
  <2> DEFINE m == [kind |-> "on", note |-> n]
  <2>1. m \in Messages /\ Concerned(m) = {n} /\ m.kind = "on"
    BY DEF Messages, Concerned
  <2>2. Offer(m) /\ keys' = keys \union {n} /\ UNCHANGED <<link, mpc, held>>
    BY <1>3 DEF KeyDown
  <2> HIDE DEF m
  <2>3. TypeOK'
    BY <1>1, <2>1, <2>2 DEF TypeOK
  <2>4. KeysAgree'
    BY OfferAgrees, <2>1, <2>2 DEF TypeOK
  <2> QED BY <2>3, <2>4
<1>4. ASSUME NEW n \in Notes, KeyUp(n) PROVE IInv'
  <2> DEFINE m == [kind |-> "off", note |-> n]
  <2>1. m \in Messages /\ Concerned(m) = {n} /\ m.kind = "off"
    BY DEF Messages, Concerned
  <2>2. Offer(m) /\ keys' = keys \ {n} /\ UNCHANGED <<link, mpc, held>>
    BY <1>4 DEF KeyUp
  <2> HIDE DEF m
  <2>3. TypeOK'
    BY <1>1, <2>1, <2>2 DEF TypeOK
  <2>4. KeysAgree'
    BY OfferAgrees, <2>1, <2>2 DEF TypeOK
  <2> QED BY <2>3, <2>4
<1>5. CASE LinkEnds
  <2>1. Concerned(Panic) = Notes /\ Panic.kind = "panic"
    BY DEF Concerned, Panic
  <2>2. Offer(Panic) /\ keys' = {} /\ link' = "scan" /\ UNCHANGED <<mpc, held>>
    BY <1>5 DEF LinkEnds
  <2>3. TypeOK'
    BY <1>1, PanicTyped, <2>2 DEF TypeOK
  <2>4. KeysAgree'
    BY OfferAgrees, PanicTyped, <2>1, <2>2
  <2> QED BY <2>3, <2>4
<1>6. CASE Receive
  <2>1. chan \in Seq(Messages) /\ chan # <<>> /\ Head(chan) \in Messages
    BY <1>6 DEF Receive, TypeOK
  <2>2. Hear(Head(chan)) \subseteq Notes
    BY <2>1 DEF Hear, TypeOK, Messages
  <2>3. chan' \in Seq(Messages) /\ Len(chan') <= BleCap
    BY <1>6, <2>1, BleCapAssumption DEF Receive, TypeOK
  <2>4. TypeOK'
    BY <1>6, <2>2, <2>3 DEF Receive, TypeOK
  <2> QED BY <2>4, <1>6, ReceiveAgrees
<1>7. CASE OtherSaid
  <2> DEFINE m == [Panic EXCEPT !.kind = "other"]
  <2>1. m \in Messages /\ m.kind = "other"
    BY PanicTyped DEF Messages
  <2>2. Concerned(m) = {}
    BY <2>1 DEF Concerned
  <2>3. Offer(m) /\ UNCHANGED <<link, mpc, held, keys>>
    BY <1>7 DEF OtherSaid
  <2> HIDE DEF m
  <2>4. TypeOK'
    BY <1>1, <2>1, <2>3 DEF TypeOK
  <2>5. KeysAgree'
    BY OfferAgrees, <2>1, <2>2, <2>3 DEF TypeOK
  <2> QED BY <2>4, <2>5
<1>8. CASE UNCHANGED vars
  BY <1>8 DEF vars, TypeOK, KeysAgree, About
<1> QED BY <1>2, <1>3, <1>4, <1>5, <1>6, <1>7, <1>8 DEF Next

\* The inductive invariant holds of the specification.
THEOREM Invariance == Spec => []IInv
  BY InitInv, StepInv, PTL DEF Spec

\* Type correctness.
THEOREM TypeCorrect == Spec => []TypeOK
  BY Invariance, PTL DEF IInv

\* Whatever is dropped, delayed or cut by a lost link: once the queue is drained the
\* voice agrees with the keyboard on every note whose latest message was accepted.
THEOREM VoiceAgrees == Spec => []KeysAgree
  BY Invariance, PTL DEF IInv

------------------------------------------------------------------------------
(* NoteLed.  What the packets are made of does not matter to the LED: decoding
   one leaves the held notes alone. *)

LedInv ==
  /\ posts \in Seq({0, 1})
  /\ lpc \in {"on", "off"} => shown = "beat"
  /\ LedAgrees

\* Posting the state that holds now keeps the agreement, whether it fits or not.
LEMMA PostAgrees ==
  ASSUME LedInv, NEW s \in {0, 1}, Post(s), Sounding' = s, UNCHANGED ledLoop
  PROVE  LedInv'
<1>1. CASE Len(posts) < LedCap
  <2>1. posts' = Append(posts, s) /\ UNCHANGED <<lpc, shown, led>>
    BY <1>1 DEF Post, ledLoop
  <2>2. posts' \in Seq({0, 1}) /\ posts' # <<>> /\ posts'[Len(posts')] = s
    BY <2>1 DEF LedInv
  <2> QED BY <2>1, <2>2 DEF LedInv, LedAgrees
<1>2. CASE ~(Len(posts) < LedCap)
  <2>1. unposted' = 1 /\ UNCHANGED <<posts, lpc, shown, led>>
    BY <1>2 DEF Post, ledLoop
  <2> QED BY <2>1 DEF LedInv, LedAgrees
<1> QED BY <1>1, <1>2

\* Changing nothing that sounds or is posted keeps it too.
LEMMA QuietAgrees ==
  ASSUME LedInv, Sounding' = Sounding, UNCHANGED <<posts, unposted, ledLoop>>
  PROVE  LedInv'
  BY DEF LedInv, LedAgrees, ledLoop

\* Every step of midi_task, of bluetooth_task and of led_loop keeps the agreement.
LEMMA LedStep == LedInv /\ [LNext]_lvars => LedInv'
<1> SUFFICES ASSUME LedInv, [LNext]_lvars PROVE LedInv'
  OBVIOUS
<1>1. CASE LReceive
  <2> DEFINE m == Head(chan)
  <2>1. /\ held' = Hear(m) /\ UNCHANGED ledLoop
        /\ usb' = IF m.kind = "panic" THEN 0 ELSE usb
    BY <1>1 DEF LReceive, Receive
  <2>2. \/ m.kind = "on" /\ Post(1)
        \/ SignalOff(m) /\ Post(0)
        \/ m.kind # "on" /\ ~SignalOff(m) /\ UNCHANGED <<posts, unposted>>
    BY <1>1 DEF LReceive
  <2> HIDE DEF m
  <2>3. CASE m.kind = "on" /\ Post(1)
    <3>1. Sounding' = 1
      BY <2>1, <2>3 DEF Hear, Sounding
    <3> QED BY <2>1, <2>3, <3>1, PostAgrees
  <2>4. CASE SignalOff(m) /\ Post(0)
    <3>1. Sounding' = 0
      BY <2>4 DEF SignalOff
    <3> QED BY <2>1, <2>4, <3>1, PostAgrees
  <2>5. CASE m.kind # "on" /\ ~SignalOff(m) /\ UNCHANGED <<posts, unposted>>
    <3>1. CASE m.kind = "panic"
      <4>1. held' = {} /\ usb' = 0
        BY <2>1, <3>1 DEF Hear
      <4> QED BY <2>5, <3>1, <4>1 DEF SignalOff, Sounding
    <3>2. CASE m.kind = "off"
      <4>1. held' = held \ {m.note} /\ usb' = usb
        BY <2>1, <3>2 DEF Hear
      <4>2. Sounding' # 0
        BY <2>5, <3>2 DEF SignalOff
      <4>3. Sounding' = Sounding
        BY <4>1, <4>2 DEF Sounding
      <4> QED BY <2>1, <2>5, <4>3, QuietAgrees
    <3>3. CASE m.kind \notin {"panic", "off"}
      <4>1. held' = held /\ usb' = usb
        BY <2>1, <2>5, <3>3 DEF Hear
      <4> QED BY <2>1, <2>5, <4>1, QuietAgrees DEF Sounding
    <3> QED BY <3>1, <3>2, <3>3
  <2> QED BY <2>2, <2>3, <2>4, <2>5
<1>2. CASE UsbOn
  <2>1. Post(1) /\ usb' = 1 /\ UNCHANGED ledLoop
    BY <1>2 DEF UsbOn
  <2>2. Sounding' = 1
    BY <2>1 DEF Sounding
  <2> QED BY <2>1, <2>2, PostAgrees
<1>3. CASE UsbOff
  <2>1. usb' = 0 /\ held' = held /\ UNCHANGED ledLoop
    BY <1>3 DEF UsbOff, vars
  <2>2. CASE held = {}
    <3>1. Post(0) /\ Sounding' = 0
      BY <1>3, <2>1, <2>2 DEF UsbOff, Sounding
    <3> QED BY <2>1, <3>1, PostAgrees
  <2>3. CASE held # {}
    <3>1. UNCHANGED <<posts, unposted>> /\ Sounding' = Sounding
      BY <1>3, <2>1, <2>3 DEF UsbOff, Sounding
    <3> QED BY <2>1, <3>1, QuietAgrees
  <2> QED BY <2>2, <2>3
<1>4. CASE LinkStep
  <2>1. held' = held /\ UNCHANGED <<usb, posts, unposted, ledLoop>>
    BY <1>4 DEF LinkStep, Find, Connect, Pair, Subscribe, LinkEnds, Notification, BusyBegins, BusyEnds
  <2>2. Sounding' = Sounding
    BY <2>1 DEF Sounding
  <2> QED BY <2>1, <2>2, QuietAgrees
<1>5. CASE LedShow
  <2>1. /\ posts # <<>> /\ led' = Head(posts) /\ posts' = Tail(posts) /\ shown' = "note"
        /\ lpc' = "loop" /\ unposted' = unposted /\ Sounding' = Sounding
    BY <1>5 DEF LedShow, vars, Sounding
  <2>2. /\ posts' \in Seq({0, 1})
        /\ posts' = <<>> => led' = posts[Len(posts)]
        /\ posts' # <<>> => posts'[Len(posts')] = posts[Len(posts)]
    <3>1. posts \in Seq({0, 1}) /\ posts # <<>> /\ posts' = Tail(posts)
      BY <2>1 DEF LedInv
    <3>2. /\ posts' \in Seq({0, 1}) /\ Len(posts) \in Nat \ {0} /\ Len(posts') = Len(posts) - 1
          /\ \A i \in 1..(Len(posts) - 1) : posts'[i] = posts[i + 1]
      BY <3>1
    <3>3. CASE posts' = <<>>
      <4>1. Len(posts) = 1
        BY <3>2, <3>3
      <4>2. Head(posts) = posts[1]
        BY <3>1
      <4> QED BY <2>1, <3>2, <3>3, <4>1, <4>2
    <3>4. CASE posts' # <<>>
      <4>1. Len(posts) - 1 \in 1..(Len(posts) - 1)
        BY <3>2, <3>4
      <4> QED BY <3>2, <3>4, <4>1
    <3> QED BY <3>2, <3>3, <3>4
  <2> QED BY <2>1, <2>2 DEF LedInv, LedAgrees
<1>6. CASE LedCheck \/ LedTimeout \/ HeartOff \/ HeartEnds
  <2>1. UNCHANGED <<posts, unposted>> /\ Sounding' = Sounding
    BY <1>6 DEF LedCheck, LedTimeout, HeartOff, HeartEnds, vars, Sounding
  <2>2. \/ shown' = "beat"
        \/ UNCHANGED <<shown, led>> /\ lpc' \notin {"on", "off"}
    BY <1>6 DEF LedInv, LedCheck, LedTimeout, HeartOff, HeartEnds
  <2> QED BY <2>1, <2>2 DEF LedInv, LedAgrees
<1>7. CASE UNCHANGED lvars
  <2>1. UNCHANGED <<posts, unposted, ledLoop>> /\ Sounding' = Sounding
    BY <1>7 DEF lvars, vars, ledLoop, Sounding
  <2> QED BY <2>1, QuietAgrees
<1> QED BY <1>1, <1>2, <1>3, <1>4, <1>5, <1>6, <1>7 DEF LNext, LedSteps

\* The LED tells whether a note sounds, as soon as every posted state is shown.
THEOREM LedCorrect == LSpec => []LedAgrees
<1>1. LInit => LedInv
  BY DEF LInit, LedInv, LedAgrees
<1>2. LedInv => LedAgrees
  BY DEF LedInv
<1> QED BY <1>1, <1>2, LedStep, PTL DEF LSpec

------------------------------------------------------------------------------
(***************************************************************************)
(* Packets.  What is decoded from a packet is faithful to what the         *)
(* keyboard said: a message for each thing said, in the same order, up to  *)
(* a system message, which cuts the rest off.                              *)
(***************************************************************************)
Bytes == High \union Notes \union {"header", "velocity", "nought", "number"}

\* The message that thing s said comes out as.
Told(s) == CASE s.by = "strike"            -> [kind |-> "on",    note |-> s.note]
             [] s.by \in {"release", "zero"} -> [kind |-> "off",   note |-> s.note]
             [] OTHER                      -> [kind |-> "other", note |-> Panic.note]

\* A data byte is none of those with bit 7 set.
LEMMA DataIsLow ==
  ASSUME NEW s \in Said
  PROVE  /\ DataOf(s) \in Seq(Bytes) /\ \A i \in 1..Len(DataOf(s)) : DataOf(s)[i] \notin High
         /\ s.by # "clock" => Len(DataOf(s)) = Needed(StatusOf(s)) /\ Len(DataOf(s)) \in {1, 2}
         /\ s.by = "clock" => DataOf(s) = <<>>
         /\ StatusOf(s) \in High /\ StatusOf(s) # TIME
         /\ StatusOf(s) \in System <=> s.by = "clock"
<1>1. s.note \in Notes /\ s.by \in {"strike", "release", "zero", "program", "clock"}
  BY NotesAssumption DEF Said, Panic
<1>2. s.note \notin High /\ s.note \in Bytes
  BY <1>1, DataAssumption DEF Bytes
<1>3. \A a, b \in Bytes : <<a, b>> \in Seq(Bytes) /\ Len(<<a, b>>) = 2
  OBVIOUS
<1>4. \A a \in Bytes : <<a>> \in Seq(Bytes) /\ Len(<<a>>) = 1
  OBVIOUS
<1> USE DEF DataOf, StatusOf, Needed, System, High, TIME, NOTE_ON, NOTE_OFF, PROGRAM, CLOCK
<1>5. CASE s.by \in {"strike", "release"}
  <2>1. DataOf(s) = <<s.note, "velocity">> /\ "velocity" \in Bytes /\ "velocity" \notin High
    BY <1>5 DEF Bytes
  <2>2. DataOf(s) \in Seq(Bytes) /\ Len(DataOf(s)) = 2
    <3> HIDE DEF DataOf
    <3>1. QED BY <1>3, <1>2, <2>1
  <2>3. QED BY <1>2, <1>5, <2>1, <2>2
<1>6. CASE s.by = "zero"
  <2>1. DataOf(s) = <<s.note, "nought">> /\ "nought" \in Bytes /\ "nought" \notin High
    BY <1>6 DEF Bytes
  <2>2. DataOf(s) \in Seq(Bytes) /\ Len(DataOf(s)) = 2
    <3> HIDE DEF DataOf
    <3>1. QED BY <1>3, <1>2, <2>1
  <2>3. QED BY <1>2, <1>6, <2>1, <2>2
<1>7. CASE s.by = "program"
  <2>1. DataOf(s) = <<"number">> /\ "number" \in Bytes /\ "number" \notin High
    BY <1>7 DEF Bytes
  <2>2. DataOf(s) \in Seq(Bytes) /\ Len(DataOf(s)) = 1
    <3> HIDE DEF DataOf
    <3>1. QED BY <1>4, <2>1
  <2>3. QED BY <1>7, <2>1, <2>2
<1>8. CASE s.by = "clock"
  <2>1. DataOf(s) = <<>>
    BY <1>8
  <2>2. QED BY <1>8, <2>1
<1>9. QED BY <1>1, <1>5, <1>6, <1>7, <1>8

\* What the bytes of a message are, in each of the forms it may take.
LEMMA FormsOf ==
  ASSUME NEW s \in Said, NEW form \in Forms
  PROVE  LET by == BytesOf(s, form)  data == DataOf(s)
         IN  /\ by \in Seq(Bytes)
             /\ form = "full" => /\ Len(by) = Len(data) + 2 /\ by[1] = TIME /\ by[2] = StatusOf(s)
                                 /\ \A i \in 1..Len(data) : by[i + 2] = data[i]
             /\ form = "running" => /\ Len(by) = Len(data) + 1 /\ by[1] = TIME
                                    /\ \A i \in 1..Len(data) : by[i + 1] = data[i]
             /\ form = "bare" => by = data
<1> DEFINE data == DataOf(s)
           st == StatusOf(s)
<1>1. data \in Seq(Bytes) /\ st \in Bytes /\ TIME \in Bytes
  BY DataIsLow DEF Bytes, High
<1> HIDE DEF data, st
<1>2. LET by == <<TIME, st>> \o data
      IN  /\ by \in Seq(Bytes) /\ Len(by) = Len(data) + 2 /\ by[1] = TIME /\ by[2] = st
          /\ \A i \in 1..Len(data) : by[i + 2] = data[i]
  <2> DEFINE front == <<TIME, st>>
  <2>1. front \in Seq(Bytes) /\ Len(front) = 2 /\ front[1] = TIME /\ front[2] = st
    BY <1>1
  <2> HIDE DEF front
  <2>2. QED BY <1>1, <2>1 DEF front
<1>3. LET by == <<TIME>> \o data
      IN  /\ by \in Seq(Bytes) /\ Len(by) = Len(data) + 1 /\ by[1] = TIME
          /\ \A i \in 1..Len(data) : by[i + 1] = data[i]
  <2> DEFINE front == <<TIME>>
  <2>1. front \in Seq(Bytes) /\ Len(front) = 1 /\ front[1] = TIME
    BY <1>1
  <2> HIDE DEF front
  <2>2. QED BY <1>1, <2>1 DEF front
<1>4. CASE form = "full"
  <2>1. BytesOf(s, form) = <<TIME, st>> \o data
    BY <1>4 DEF BytesOf, data, st
  <2>2. QED BY <1>1, <1>4, <1>2, <2>1 DEF data, st
<1>5. CASE form = "running"
  <2>1. BytesOf(s, form) = <<TIME>> \o data
    BY <1>5 DEF BytesOf, data
  <2>2. QED BY <1>1, <1>5, <1>3, <2>1 DEF data
<1>6. CASE form = "bare"
  <2>1. BytesOf(s, form) = <<>> \o data
    BY <1>6 DEF BytesOf, data
  <2>2. <<>> \o data = data
    BY <1>1
  <2>3. QED BY <1>1, <1>6, <2>1, <2>2 DEF data
<1>7. QED BY <1>4, <1>5, <1>6 DEF Forms

\* Where the messages of a packet end, and what lies between these places.
Lays(p, K, said, forms, end) ==
  /\ end \in [0..K -> Nat] /\ end[0] = 1 /\ end[K] = Len(p)
  /\ \A k \in 0..K : end[k] <= Len(p)
  /\ \A k \in 1..K : LET by == BytesOf(said[k], forms[k])
                     IN  /\ end[k] = end[k - 1] + Len(by) /\ Len(by) \in Nat \ {0}
                         /\ \A i \in 1..Len(by) : p[end[k - 1] + i] = by[i]

LEMMA PacketLayout ==
  ASSUME NEW K, NEW said, NEW forms
  PROVE  K \in Nat /\ said \in [1..K -> Said] /\ forms \in [1..K -> Forms] /\ Spelt(said, forms) =>
           LET p == Packet(said, forms)
           IN  p \in Seq(Bytes) /\ \E end : Lays(p, K, said, forms, end)
<1>1. SUFFICES ASSUME K \in Nat, said \in [1..K -> Said], forms \in [1..K -> Forms], Spelt(said, forms)
               PROVE  LET p == Packet(said, forms)
                      IN  p \in Seq(Bytes) /\ \E end : Lays(p, K, said, forms, end)
  OBVIOUS
<1> DEFINE By(k) == BytesOf(said[k], forms[k])
<1>2. ASSUME NEW k \in 1..K PROVE By(k) \in Seq(Bytes) /\ Len(By(k)) \in Nat \ {0}
  <2>1. said[k] \in Said /\ forms[k] \in Forms
    BY <1>1
  <2>2. said[k].by = "clock" => forms[k] = "full"
    BY <1>1 DEF Spelt
  <2> DEFINE data == DataOf(said[k])
             w    == By(k)
             bare == forms[k]
  <2>3. data \in Seq(Bytes) /\ (said[k].by # "clock" => Len(data) \in {1, 2})
    BY <2>1, DataIsLow
  <2>4. /\ w \in Seq(Bytes)
        /\ bare = "full" => Len(w) = Len(data) + 2
        /\ bare = "running" => Len(w) = Len(data) + 1
        /\ bare = "bare" => w = data
    BY <2>1, FormsOf
  <2>5. bare \in {"full", "running", "bare"} /\ (bare # "full" => Len(data) \in {1, 2})
    BY <2>1, <2>2, <2>3 DEF Forms
  <2>6. Len(data) \in Nat
    BY <2>3
  <2> HIDE DEF data, w, bare
  <2>7. w \in Seq(Bytes) /\ Len(w) \in Nat \ {0}
    BY <2>4, <2>5, <2>6
  <2>8. QED BY <2>7 DEF w
<1> HIDE DEF By
<1> DEFINE by == [k \in 1..K |-> By(k)]
           x  == <<"header">>
<1>3. x \in Seq(Bytes) /\ Len(x) = 1
  <2>1. "header" \in Bytes
    BY DEF Bytes
  <2>2. QED BY <2>1
<1>4. by \in [1..K -> Seq(Bytes)]
  BY <1>2
<1>5. \A k \in 1..K : by[k] = By(k)
  OBVIOUS
<1>6. K \in Nat
  BY <1>1
<1> HIDE DEF by, x
<1>7. \E f : Chain(Bytes, x, K, by, f)
  <2>1. x \in Seq(Bytes)
    BY <1>3
  <2>2. QED BY <1>4, <1>6, <2>1, Concatenated
<1>8. PICK f : f \in [0..K -> Seq(Bytes)] /\ f[0] = x /\ \A k \in 1..K : f[k] = f[k - 1] \o by[k]
  BY <1>7 DEF Chain
<1> DEFINE Rec(g) == g = [k \in 0..K |-> IF k = 0 THEN x ELSE g[k - 1] \o By(k)]
<1>9. Rec(f)
  <2> DEFINE g == [k \in 0..K |-> IF k = 0 THEN x ELSE f[k - 1] \o By(k)]
  <2>1. ASSUME NEW k \in 0..K PROVE f[k] = g[k]
    <3>1. k = 0 \/ k \in 1..K
      BY <1>6
    <3>2. k # 0 => f[k] = f[k - 1] \o by[k] /\ by[k] = By(k)
      BY <1>8, <1>5, <3>1
    <3>3. QED BY <1>8, <3>1, <3>2
  <2>2. f = [k \in 0..K |-> f[k]]
    BY <1>8
  <2>3. QED BY <2>1, <2>2, Zenon
<1> DEFINE bytes == CHOOSE g : Rec(g)
<1>10. Rec(bytes)
  <2> HIDE DEF Rec
  <2>1. QED BY <1>9
<1>11. Packet(said, forms) = bytes[K]
  <2>1. Len(said) = K
    BY <1>1
  <2>2. QED BY <2>1 DEF Packet, x, By
<1> HIDE DEF bytes
<1>12. ASSUME NEW k \in 1..K PROVE k - 1 \in 0..K /\ k \in 0..K /\ k # 0
  BY <1>6
<1>13. 0 \in 0..K /\ K \in 0..K
  BY <1>6
<1>14. bytes[0] = x /\ \A k \in 1..K : bytes[k] = bytes[k - 1] \o by[k]
  <2>1. ASSUME NEW k \in 0..K PROVE bytes[k] = IF k = 0 THEN x ELSE bytes[k - 1] \o By(k)
    BY <1>10, Zenon
  <2>2. bytes[0] = x
    BY <1>13, <2>1
  <2>3. ASSUME NEW k \in 1..K PROVE bytes[k] = bytes[k - 1] \o by[k]
    <3>1. bytes[k] = bytes[k - 1] \o By(k)
      BY <1>12, <2>1
    <3>2. QED BY <1>5, <3>1
  <2>4. QED BY <2>2, <2>3
<1>15. bytes \in [0..K -> Seq(Bytes)]
  <2> DEFINE T == {k \in 0..K : bytes[k] \in Seq(Bytes)}
  <2>1. 0 \in T
    BY <1>3, <1>14, <1>13
  <2>2. ASSUME NEW k \in 1..K, k - 1 \in T PROVE k \in T
    <3>1. bytes[k - 1] \in Seq(Bytes) /\ by[k] \in Seq(Bytes) /\ bytes[k] = bytes[k - 1] \o by[k]
      BY <1>4, <1>14, <2>2
    <3>2. bytes[k - 1] \o by[k] \in Seq(Bytes)
      BY <3>1
    <3>3. QED BY <1>12, <3>1, <3>2
  <2>3. 0..K \subseteq T
    <3> HIDE DEF T
    <3>1. QED BY <1>6, <2>1, <2>2, UpTo
  <2>4. bytes = [k \in 0..K |-> bytes[k]]
    <3>1. DOMAIN bytes = 0..K
      BY <1>10, Zenon
    <3>2. bytes = [k \in DOMAIN bytes |-> bytes[k]]
      BY <1>10
    <3>3. QED BY <3>1, <3>2
  <2>5. QED BY <2>3, <2>4
<1> HIDE DEF Rec
<1> DEFINE p   == bytes[K]
           end == [k \in 0..K |-> Len(bytes[k])]
<1>16. /\ \A k \in 1..K : Len(bytes[k]) = Len(bytes[k - 1]) + Len(by[k])
       /\ \A k \in 0..K : Len(bytes[k]) \in Nat /\ Len(bytes[k]) <= Len(p)
       /\ \A k \in 1..K : \A i \in 1..Len(by[k]) : p[Len(bytes[k - 1]) + i] = by[k][i]
  <2>1. Chain(Bytes, x, K, by, bytes)
    BY <1>14, <1>15 DEF Chain
  <2>2. Joins(K, by, bytes)
    BY <1>4, <1>6, <2>1, Concatenation
  <2>3. QED BY <2>2 DEF Joins, p
<1>17. /\ end \in [0..K -> Nat] /\ end[0] = 1 /\ end[K] = Len(p) /\ p \in Seq(Bytes)
  BY <1>3, <1>14, <1>15, <1>16, <1>13
<1>18. \A k \in 0..K : end[k] = Len(bytes[k])
  OBVIOUS
<1> HIDE DEF end, p
<1>19. ASSUME NEW k \in 1..K
       PROVE  /\ end[k] = end[k - 1] + Len(By(k)) /\ Len(By(k)) \in Nat \ {0}
              /\ \A i \in 1..Len(By(k)) : p[end[k - 1] + i] = By(k)[i]
  <2>1. end[k] = Len(bytes[k]) /\ end[k - 1] = Len(bytes[k - 1]) /\ by[k] = By(k)
    BY <1>12, <1>5, <1>18
  <2>2. QED BY <1>2, <1>16, <2>1
<1>20. \A k \in 0..K : end[k] <= Len(p)
  BY <1>16, <1>18
<1>21. Lays(p, K, said, forms, end)
  BY <1>17, <1>19, <1>20 DEF Lays, By
<1>22. QED BY <1>11, <1>17, <1>21 DEF p

\* A message is made of what was said.
LEMMA MeantAsSaid ==
  ASSUME NEW s \in Said, s.by # "clock"
  PROVE  LET data == DataOf(s)  st == StatusOf(s)
         IN  Meaning(st, data[1], IF Needed(st) = 2 THEN data[2] ELSE "none") = Told(s)
<1>1. s.by \in {"strike", "release", "zero", "program"}
  BY DEF Said
<1> USE DEF StatusOf, Needed, Meaning, Told, NOTE_ON, NOTE_OFF, PROGRAM
<1>2. CASE s.by \in {"strike", "release"}
  <2>1. DataOf(s)[1] = s.note /\ DataOf(s)[2] = "velocity"
    BY <1>2 DEF DataOf
  <2>2. QED BY <1>2, <2>1
<1>3. CASE s.by = "zero"
  <2>1. DataOf(s)[1] = s.note /\ DataOf(s)[2] = "nought"
    BY <1>3 DEF DataOf
  <2>2. QED BY <1>3, <2>1
<1>4. CASE s.by = "program"
  BY <1>4
<1>5. QED BY <1>1, <1>2, <1>3, <1>4

\* A turn of the loop at the start of a message makes one of it, and goes on behind it.
LEMMA TurnDecodes ==
  ASSUME NEW p \in Seq(Bytes), NEW s \in Said, NEW form \in Forms, NEW from \in Nat \ {0},
         NEW running, NEW out, s.by # "clock", form # "full" => running = StatusOf(s),
         from + Len(BytesOf(s, form)) <= Len(p),
         \A i \in 1..Len(BytesOf(s, form)) : p[from + i] = BytesOf(s, form)[i]
  PROVE  Turn(p, [at |-> from + 1, running |-> running, out |-> out])
           = [at |-> from + Len(BytesOf(s, form)) + 1, running |-> StatusOf(s), out |-> Append(out, Told(s))]
<1> DEFINE by   == BytesOf(s, form)
           data == DataOf(s)
           st   == StatusOf(s)
           n    == Len(data)
           head == IF form = "full" THEN 2 ELSE IF form = "running" THEN 1 ELSE 0
<1>1. /\ data \in Seq(Bytes) /\ \A i \in 1..n : data[i] \notin High
      /\ n = Needed(st) /\ n \in {1, 2} /\ st \in High /\ st # TIME /\ st \notin System
      /\ by \in Seq(Bytes) /\ TIME \in High /\ form \in {"full", "running", "bare"}
      /\ "none" \notin High /\ Len(p) \in Nat
  BY DataIsLow, FormsOf DEF High, Forms, System, TIME, NOTE_ON, NOTE_OFF, PROGRAM, CLOCK
<1>2. /\ Len(by) = head + n
      /\ \A i \in 1..n : p[from + head + i] = data[i]
      /\ head > 0 => p[from + 1] = TIME
      /\ head = 2 => p[from + 2] = st
  <2>1. /\ form = "full" => /\ Len(by) = n + 2 /\ by[1] = TIME /\ by[2] = st
                            /\ \A i \in 1..n : by[i + 2] = data[i]
        /\ form = "running" => /\ Len(by) = n + 1 /\ by[1] = TIME
                               /\ \A i \in 1..n : by[i + 1] = data[i]
        /\ form = "bare" => by = data
    BY FormsOf
  <2>2. \A i \in 1..Len(by) : p[from + i] = by[i]
    OBVIOUS
  <2> HIDE DEF by, data, st
  <2>3. CASE form = "full"
    <3>1. Len(by) = n + 2 /\ n \in Nat
      BY <1>1, <2>1, <2>3
    <3>2. \A i \in 1..n : i + 2 \in 1..Len(by) /\ from + (i + 2) = from + 2 + i
      BY <3>1
    <3>3. 1 \in 1..Len(by) /\ 2 \in 1..Len(by)
      BY <3>1
    <3>4. QED BY <2>1, <2>2, <2>3, <3>1, <3>2, <3>3
  <2>4. CASE form = "running"
    <3>1. Len(by) = n + 1 /\ n \in Nat
      BY <1>1, <2>1, <2>4
    <3>2. \A i \in 1..n : i + 1 \in 1..Len(by) /\ from + (i + 1) = from + 1 + i
      BY <3>1
    <3>3. 1 \in 1..Len(by)
      BY <3>1
    <3>4. \A i \in 1..n : p[from + 1 + i] = data[i]
      BY <2>1, <2>2, <2>4, <3>2
    <3>5. p[from + 1] = TIME
      BY <2>1, <2>2, <2>4, <3>3
    <3>6. head = 1 /\ Len(by) = head + n
      BY <2>4, <3>1
    <3>7. QED BY <3>4, <3>5, <3>6
  <2>5. CASE form = "bare"
    <3>1. \A i \in 1..n : from + 0 + i = from + i
      BY <1>1
    <3>2. QED BY <1>1, <2>1, <2>2, <2>5, <3>1
  <2>6. QED BY <1>1, <2>3, <2>4, <2>5
<1>3. Meaning(st, data[1], IF Needed(st) = 2 THEN data[2] ELSE "none") = Told(s)
  BY MeantAsSaid
<1>4. from + head + n <= Len(p)
  BY <1>1, <1>2
<1>5. p[from + head + 1] = data[1] /\ (n = 2 => p[from + head + 2] = data[2]) /\ data[1] \notin High
  BY <1>1, <1>2
<1> HIDE DEF by, data, st, n
<1> DEFINE s0     == [at |-> from + 1, running |-> running, out |-> out]
           t      == IF p[s0.at] \in High THEN s0.at + 1 ELSE s0.at
           new    == t > s0.at /\ t <= Len(p) /\ p[t] \in High
           status == Status(s0.running, new, IF new THEN p[t] ELSE "none")
           d      == IF new THEN t + 1 ELSE t
<1>6. status = st /\ d = from + head + 1 /\ t <= Len(p)
  <2>1. CASE form = "full"
    <3>1. t = from + 2
      BY <1>1, <1>2, <2>1
    <3>2. new
      BY <1>1, <1>2, <1>4, <2>1, <3>1
    <3>3. QED BY <1>1, <1>2, <1>4, <2>1, <3>1, <3>2 DEF Status
  <2>2. CASE form = "running"
    <3>1. t = from + 2
      BY <1>1, <1>2, <2>2
    <3>2. ~new
      BY <1>1, <1>5, <2>2, <3>1
    <3>3. QED BY <1>1, <1>4, <2>2, <3>1, <3>2 DEF Status, st
  <2>3. CASE form = "bare"
    <3>1. t = from + 1
      BY <1>1, <1>5, <2>3
    <3>2. ~new
      BY <3>1
    <3>3. QED BY <1>1, <1>4, <2>3, <3>1, <3>2 DEF Status, st
  <2>4. QED BY <1>1, <2>1, <2>2, <2>3
<1>7. Turn(p, s0) = IF s0.at > Len(p) \/ t > Len(p) \/ status \in {"none"} \union System
                       \/ d + Needed(status) > Len(p) + 1
                      THEN [s0 EXCEPT !.at = Len(p) + 1]
                      ELSE [at |-> d + Needed(status), running |-> status,
                            out |-> Append(s0.out, Meaning(status, p[d], IF Needed(status) = 2 THEN p[d + 1] ELSE "none"))]
  BY DEF Turn
<1> HIDE DEF t, new, status, d, head
<1>8. /\ ~(from + 1 > Len(p)) /\ status \notin {"none"} \union System
      /\ d + Needed(status) = from + head + n + 1 /\ ~(d + Needed(status) > Len(p) + 1)
      /\ head \in {0, 1, 2}
  BY <1>1, <1>4, <1>6 DEF head
<1>9. Meaning(status, p[d], IF Needed(status) = 2 THEN p[d + 1] ELSE "none") = Told(s)
  <2>1. p[d] = data[1] /\ (Needed(status) = 2 => p[d + 1] = data[2])
    <3>1. d + 1 = from + head + 2
      BY <1>6, <1>8
    <3>2. QED BY <1>1, <1>5, <1>6, <3>1
  <2>2. QED BY <1>3, <1>6, <2>1
<1>10. from + head + n + 1 = from + Len(by) + 1
  BY <1>1, <1>2, <1>8
<1>11. s0.at = from + 1 /\ s0.out = out
  OBVIOUS
<1> DEFINE meant == Meaning(status, p[d], IF Needed(status) = 2 THEN p[d + 1] ELSE "none")
           after == [at |-> d + Needed(status), running |-> status, out |-> Append(s0.out, meant)]
<1>12. Turn(p, s0) = after
  <2> HIDE DEF s0, meant
  <2>1. ~(s0.at > Len(p) \/ t > Len(p) \/ status \in {"none"} \union System \/ d + Needed(status) > Len(p) + 1)
    <3>1. t \in Nat /\ ~(t > Len(p))
      BY <1>1, <1>6 DEF t, s0
    <3>2. QED BY <1>8, <1>11, <3>1
  <2>2. QED BY <1>7, <2>1 DEF meant
<1>13. after = [at |-> from + Len(by) + 1, running |-> st, out |-> Append(out, Told(s))]
  <2> HIDE DEF s0
  <2>1. meant = Told(s) /\ d + Needed(status) = from + Len(by) + 1 /\ status = st
    BY <1>6, <1>8, <1>9, <1>10
  <2> HIDE DEF meant
  <2>2. QED BY <1>11, <2>1
<1>14. QED BY <1>12, <1>13 DEF by, st, s0

\* At a system message the loop ends.
LEMMA TurnEnds ==
  ASSUME NEW p \in Seq(Bytes), NEW s \in Said, NEW from \in Nat \ {0}, NEW running, NEW out, s.by = "clock",
         from + Len(BytesOf(s, "full")) <= Len(p),
         \A i \in 1..Len(BytesOf(s, "full")) : p[from + i] = BytesOf(s, "full")[i]
  PROVE  Turn(p, [at |-> from + 1, running |-> running, out |-> out])
           = [at |-> Len(p) + 1, running |-> running, out |-> out]
<1>1. DataOf(s) = <<>> /\ StatusOf(s) = CLOCK /\ "full" \in Forms
  BY DEF DataOf, StatusOf, Forms
<1>2. Len(BytesOf(s, "full")) = 2 /\ BytesOf(s, "full")[1] = TIME /\ BytesOf(s, "full")[2] = CLOCK
  <2>1. /\ Len(BytesOf(s, "full")) = Len(DataOf(s)) + 2
        /\ BytesOf(s, "full")[1] = TIME /\ BytesOf(s, "full")[2] = StatusOf(s)
    BY <1>1, FormsOf
  <2>2. Len(<<>>) = 0
    OBVIOUS
  <2>3. QED BY <1>1, <2>1, <2>2
<1>3. p[from + 1] = TIME /\ p[from + 2] = CLOCK /\ from + 2 <= Len(p) /\ Len(p) \in Nat
  BY <1>2
<1>4. TIME \in High /\ CLOCK \in High /\ CLOCK \in System
  BY DEF High, System
<1> DEFINE s0 == [at |-> from + 1, running |-> running, out |-> out]
<1>5. s0.at = from + 1 /\ [s0 EXCEPT !.at = Len(p) + 1] = [at |-> Len(p) + 1, running |-> running, out |-> out]
  OBVIOUS
<1> HIDE DEF s0
<1>6. from + 1 + 1 = from + 2 /\ from + 2 > from + 1
  OBVIOUS
<1>7. (IF p[s0.at] \in High THEN s0.at + 1 ELSE s0.at) = from + 2
  BY <1>3, <1>4, <1>5, <1>6
<1>8. Turn(p, s0) = [s0 EXCEPT !.at = Len(p) + 1]
  BY <1>3, <1>4, <1>5, <1>6, <1>7 DEF Turn, Status
<1>9. QED BY <1>5, <1>8 DEF s0

\* Behind the last byte there is nothing to do.
LEMMA TurnOver ==
  ASSUME NEW p \in Seq(Bytes), NEW running, NEW out
  PROVE  Turn(p, [at |-> Len(p) + 1, running |-> running, out |-> out])
           = [at |-> Len(p) + 1, running |-> running, out |-> out]
<1> DEFINE s0 == [at |-> Len(p) + 1, running |-> running, out |-> out]
<1>1. s0.at = Len(p) + 1 /\ [s0 EXCEPT !.at = Len(p) + 1] = s0 /\ Len(p) + 1 > Len(p)
  OBVIOUS
<1> HIDE DEF s0
<1>2. Turn(p, s0) = [s0 EXCEPT !.at = Len(p) + 1]
  BY <1>1 DEF Turn
<1>3. QED BY <1>1, <1>2 DEF s0

\* Where the things said are cut off: behind J of them, at the first system message.
CutBehind(K, said, J) ==
  /\ J \in 0..K
  /\ \A i \in 1..J : said[i].by # "clock"
  /\ J = K \/ said[J + 1].by = "clock"

LEMMA CutExists ==
  ASSUME NEW K \in Nat, NEW said
  PROVE  \E J : CutBehind(K, said, J)
<1> DEFINE clocks == {k \in 1..K : said[k].by = "clock"}
<1>1. CASE clocks = {}
  <2>1. CutBehind(K, said, K)
    BY <1>1 DEF CutBehind
  <2>2. QED BY <2>1
<1>2. CASE clocks # {}
  <2>1. clocks \subseteq Nat
    OBVIOUS
  <2> HIDE DEF clocks
  <2>2. \E m \in clocks : \A i \in clocks : m <= i
    BY <1>2, <2>1, LeastOf
  <2>3. PICK m \in clocks : \A i \in clocks : m <= i
    BY <2>2
  <2>4. m \in 1..K /\ said[m].by = "clock" /\ \A i \in 1..K : said[i].by = "clock" => m <= i
    BY <2>3 DEF clocks
  <2>5. m - 1 \in 0..K /\ m - 1 + 1 = m /\ \A i \in 1..(m - 1) : i \in 1..K /\ ~(m <= i)
    BY <2>4
  <2>6. CutBehind(K, said, m - 1)
    BY <2>4, <2>5 DEF CutBehind
  <2>7. QED BY <2>6
<1>3. QED BY <1>1, <1>2

\* The messages of the first k things said.
Heard(said, k) == [i \in 1..k |-> Told(said[i])]

\* Each message takes a byte at least, and lies between the ends of two.
LEMMA Ends ==
  ASSUME NEW K \in Nat, NEW p, NEW said, NEW forms, NEW end, Lays(p, K, said, forms, end)
  PROVE  \A m \in 0..K : end[m] \in Nat \ {0} /\ m + 1 <= end[m]
<1> DEFINE T == {m \in 0..K : end[m] \in Nat \ {0} /\ m + 1 <= end[m]}
<1>1. 0 \in T
  BY DEF Lays
<1>2. ASSUME NEW m \in 1..K, m - 1 \in T PROVE m \in T
  <2>1. /\ end[m] = end[m - 1] + Len(BytesOf(said[m], forms[m]))
        /\ Len(BytesOf(said[m], forms[m])) \in Nat \ {0}
    BY <1>2 DEF Lays
  <2>2. m \in 0..K
    OBVIOUS
  <2>3. QED BY <1>2, <2>1, <2>2
<1>3. 0..K \subseteq T
  <2> HIDE DEF T
  <2>1. QED BY <1>1, <1>2, UpTo
<1>4. QED BY <1>3

Piece(p, from, to, w) ==
  to = from + Len(w) /\ to <= Len(p) /\ \A i \in 1..Len(w) : p[from + i] = w[i]

LEMMA Between ==
  ASSUME NEW K, NEW p, NEW said, NEW forms, NEW end
  PROVE  K \in Nat /\ Lays(p, K, said, forms, end) =>
           \A k \in 1..K : Piece(p, end[k - 1], end[k], BytesOf(said[k], forms[k]))
<1>1. SUFFICES ASSUME K \in Nat, Lays(p, K, said, forms, end), NEW k \in 1..K
               PROVE  Piece(p, end[k - 1], end[k], BytesOf(said[k], forms[k]))
  OBVIOUS
<1>2. k \in 0..K
  BY <1>1
<1>3. QED BY <1>1, <1>2 DEF Lays, Piece

\* The turns of the loop: one for each thing said that is not cut off.
LEMMA Turns ==
  ASSUME NEW K, NEW said, NEW forms, NEW p, NEW end, NEW J
  PROVE  /\ K \in Nat /\ said \in [1..K -> Said] /\ forms \in [1..K -> Forms] /\ Spelt(said, forms)
         /\ p \in Seq(Bytes) /\ Lays(p, K, said, forms, end) /\ CutBehind(K, said, J)
         => LET after(k) == [at      |-> IF k <= J THEN end[k] + 1 ELSE Len(p) + 1,
                             running |-> IF k = 0 \/ J = 0 THEN "none"
                                           ELSE IF k <= J THEN StatusOf(said[k]) ELSE StatusOf(said[J]),
                             out     |-> Heard(said, IF k <= J THEN k ELSE J)]
            IN  \A k \in Nat \ {0} : after(k) = Turn(p, after(k - 1))
<1>1. SUFFICES ASSUME K \in Nat, said \in [1..K -> Said], forms \in [1..K -> Forms], Spelt(said, forms),
                      p \in Seq(Bytes), Lays(p, K, said, forms, end), CutBehind(K, said, J),
                      NEW k \in Nat \ {0}
               PROVE  LET after(m) == [at      |-> IF m <= J THEN end[m] + 1 ELSE Len(p) + 1,
                                       running |-> IF m = 0 \/ J = 0 THEN "none"
                                                     ELSE IF m <= J THEN StatusOf(said[m]) ELSE StatusOf(said[J]),
                                       out     |-> Heard(said, IF m <= J THEN m ELSE J)]
                      IN  after(k) = Turn(p, after(k - 1))
  OBVIOUS
<1> DEFINE after(m) == [at      |-> IF m <= J THEN end[m] + 1 ELSE Len(p) + 1,
                        running |-> IF m = 0 \/ J = 0 THEN "none"
                                      ELSE IF m <= J THEN StatusOf(said[m]) ELSE StatusOf(said[J]),
                        out     |-> Heard(said, IF m <= J THEN m ELSE J)]
<1>2. /\ J \in Nat /\ J <= K /\ \A i \in 1..J : said[i].by # "clock"
      /\ J = K \/ said[J + 1].by = "clock"
  BY <1>1 DEF CutBehind
<1>3. CASE k <= J
  <2>1. k \in 1..K /\ k - 1 \in 0..K /\ said[k].by # "clock" /\ k - 1 <= J /\ ~(k = 0 \/ J = 0)
    BY <1>1, <1>2, <1>3
  <2> DEFINE from    == end[k - 1]
             running == IF k - 1 = 0 THEN "none" ELSE StatusOf(said[k - 1])
             by      == BytesOf(said[k], forms[k])
  <2>2. said[k] \in Said /\ forms[k] \in Forms
    BY <1>1, <2>1
  <2>3. /\ from \in Nat /\ end[k] = from + Len(by) /\ end[k] <= Len(p)
        /\ \A i \in 1..Len(by) : p[from + i] = by[i]
    <3>1. from \in Nat
      BY <1>1, <2>1, Ends
    <3>2. Piece(p, end[k - 1], end[k], BytesOf(said[k], forms[k]))
      BY <1>1, <2>1, Between
    <3>3. QED BY <3>1, <3>2 DEF Piece
  <2>4. from # 0
    BY <1>1, <2>1, Ends
  <2>5. forms[k] # "full" => running = StatusOf(said[k])
    BY <1>1, <2>1 DEF Spelt
  <2>6. after(k - 1) = [at |-> from + 1, running |-> running, out |-> Heard(said, k - 1)]
    BY <2>1
  <2>7. from + Len(by) <= Len(p)
    BY <2>3
  <2> HIDE DEF from, running
  <2>8. Turn(p, [at |-> from + 1, running |-> running, out |-> Heard(said, k - 1)])
          = [at |-> from + Len(by) + 1, running |-> StatusOf(said[k]), out |-> Append(Heard(said, k - 1), Told(said[k]))]
    BY <1>1, <2>1, <2>2, <2>3, <2>4, <2>5, <2>7, TurnDecodes
  <2>9. Append(Heard(said, k - 1), Told(said[k])) = Heard(said, k)
    <3> DEFINE M == {Told(said[i]) : i \in 1..k}
               a == [i \in 1..(k - 1) |-> Told(said[i])]
    <3>1. a \in Seq(M) /\ Len(a) = k - 1 /\ Told(said[k]) \in M
      OBVIOUS
    <3>2. Append(a, Told(said[k])) = [i \in 1..k |-> Told(said[i])]
      BY <3>1
    <3>3. QED BY <3>2 DEF Heard
  <2>10. after(k) = [at |-> from + Len(by) + 1, running |-> StatusOf(said[k]), out |-> Heard(said, k)]
    BY <1>3, <2>1, <2>3
  <2> HIDE DEF after, by
  <2>11. QED BY <2>6, <2>8, <2>9, <2>10 DEF after
<1>4. CASE k = J + 1
  <2> DEFINE running == IF J = 0 THEN "none" ELSE StatusOf(said[J])
             from    == end[J]
  <2>1. /\ k - 1 = J /\ ~(k <= J) /\ J <= J /\ k # 0
    BY <1>2, <1>4
  <2>2. after(k) = [at |-> Len(p) + 1, running |-> running, out |-> Heard(said, J)]
    BY <2>1
  <2>3. after(k - 1) = [at |-> from + 1, running |-> running, out |-> Heard(said, J)]
    BY <2>1
  <2> HIDE DEF after, running
  <2>4. CASE J = K
    <3>1. from = Len(p)
      BY <1>1, <2>4 DEF Lays
    <3>2. QED BY <1>1, <2>2, <2>3, <3>1, TurnOver DEF after
  <2>5. CASE J # K
    <3>1. k \in 1..K /\ k - 1 \in 0..K /\ said[k].by = "clock" /\ said[k] \in Said
      BY <1>1, <1>2, <1>4, <2>5
    <3>2. forms[k] = "full"
      BY <1>1, <3>1 DEF Spelt
    <3>3. /\ from \in Nat /\ end[k] = from + Len(BytesOf(said[k], "full")) /\ end[k] <= Len(p)
          /\ \A i \in 1..Len(BytesOf(said[k], "full")) : p[from + i] = BytesOf(said[k], "full")[i]
      <4>1. Piece(p, end[k - 1], end[k], BytesOf(said[k], forms[k]))
        BY <1>1, <3>1, Between
      <4>2. from \in Nat
        BY <1>1, <2>1, <3>1, Ends
      <4>3. QED BY <2>1, <3>2, <4>1, <4>2 DEF Piece
    <3>4. from \in Nat \ {0} /\ from + Len(BytesOf(said[k], "full")) <= Len(p)
      BY <1>1, <2>1, <3>1, <3>3, Ends
    <3> HIDE DEF from
    <3>5. Turn(p, [at |-> from + 1, running |-> running, out |-> Heard(said, J)])
            = [at |-> Len(p) + 1, running |-> running, out |-> Heard(said, J)]
      BY <1>1, <3>1, <3>3, <3>4, TurnEnds
    <3>6. after(k) = Turn(p, after(k - 1))
      BY <2>2, <2>3, <3>5
    <3>7. QED BY <3>6 DEF after
  <2>6. QED BY <2>4, <2>5
<1>5. CASE k > J + 1
  <2> DEFINE running == IF J = 0 THEN "none" ELSE StatusOf(said[J])
  <2>1. ~(k <= J) /\ ~(k - 1 <= J) /\ k # 0 /\ k - 1 # 0
    BY <1>2, <1>5
  <2>2. after(k) = [at |-> Len(p) + 1, running |-> running, out |-> Heard(said, J)]
    BY <2>1
  <2>3. after(k - 1) = [at |-> Len(p) + 1, running |-> running, out |-> Heard(said, J)]
    BY <2>1
  <2> HIDE DEF after, running
  <2>4. QED BY <1>1, <2>2, <2>3, TurnOver DEF after
<1>6. QED BY <1>2, <1>3, <1>4, <1>5

\* What is decoded from a packet: a message for each thing said, up to the first system
\* message.
THEOREM ParsedAsSaid ==
  ASSUME NEW K, NEW said, NEW forms
  PROVE  /\ K \in Nat \ {0} /\ said \in [1..K -> Said] /\ forms \in [1..K -> Forms] /\ Spelt(said, forms)
         => \E J : CutBehind(K, said, J) /\ Parse(Packet(said, forms)) = Heard(said, J)
<1>1. SUFFICES ASSUME K \in Nat \ {0}, said \in [1..K -> Said], forms \in [1..K -> Forms], Spelt(said, forms)
               PROVE  \E J : CutBehind(K, said, J) /\ Parse(Packet(said, forms)) = Heard(said, J)
  OBVIOUS
<1> DEFINE p == Packet(said, forms)
<1>2. K \in Nat
  BY <1>1
<1>3. p \in Seq(Bytes) /\ \E end : Lays(p, K, said, forms, end)
  BY <1>1, <1>2, PacketLayout
<1> HIDE DEF p
<1>4. PICK end : Lays(p, K, said, forms, end)
  BY <1>3
<1>5. PICK J : CutBehind(K, said, J)
  BY <1>2, CutExists
<1> DEFINE after(k) == [at      |-> IF k <= J THEN end[k] + 1 ELSE Len(p) + 1,
                        running |-> IF k = 0 \/ J = 0 THEN "none"
                                      ELSE IF k <= J THEN StatusOf(said[k]) ELSE StatusOf(said[J]),
                        out     |-> Heard(said, IF k <= J THEN k ELSE J)]
<1>6. \A k \in Nat \ {0} : after(k) = Turn(p, after(k - 1))
  BY <1>1, <1>3, <1>4, <1>5, <1>2, Turns
<1>7. after(0) = [at |-> 2, running |-> "none", out |-> <<>>]
  <2>1. 0 <= J /\ end[0] + 1 = 2
    BY <1>4, <1>5, <1>2 DEF CutBehind, Lays
  <2>2. Heard(said, 0) = <<>>
    BY DEF Heard
  <2>3. QED BY <2>1, <2>2
<1>8. /\ Len(p) \in Nat /\ J \in Nat /\ J < Len(p) /\ end[K] = Len(p)
      /\ after(Len(p)).out = Heard(said, J)
  <2>1. Len(p) \in Nat /\ J \in Nat /\ J < Len(p) /\ end[K] = Len(p)
    <3>1. K + 1 <= end[K] /\ end[K] = Len(p) /\ J \in Nat /\ J <= K
      <4>1. K + 1 <= end[K]
        BY <1>4, <1>2, Ends
      <4>2. QED BY <1>4, <1>5, <1>2, <4>1 DEF Lays, CutBehind
    <3>2. QED BY <1>3, <1>2, <3>1
  <2>2. ~(Len(p) <= J)
    BY <2>1
  <2>3. QED BY <2>1, <2>2
<1>9. Len(p) >= 3
  <2>1. 1 \in 1..K /\ forms[1] = "full" /\ said[1] \in Said /\ 1 - 1 = 0
    BY <1>1 DEF Spelt
  <2>2. Len(BytesOf(said[1], "full")) = Len(DataOf(said[1])) + 2 /\ Len(DataOf(said[1])) \in Nat
    <3>1. Len(BytesOf(said[1], "full")) = Len(DataOf(said[1])) + 2
      BY <2>1, FormsOf DEF Forms
    <3>2. DataOf(said[1]) \in Seq(Bytes)
      BY <2>1, DataIsLow
    <3>3. QED BY <3>1, <3>2
  <2>3. end[1] = end[0] + Len(BytesOf(said[1], forms[1])) /\ end[1] <= Len(p) /\ end[0] = 1
    <3>1. Piece(p, end[1 - 1], end[1], BytesOf(said[1], forms[1]))
      BY <1>4, <1>2, <2>1, Between
    <3>2. QED BY <1>4, <2>1, <3>1 DEF Lays, Piece
  <2>4. QED BY <1>8, <2>1, <2>2, <2>3
<1> HIDE DEF after
<1> DEFINE start == [at |-> 2, running |-> "none", out |-> <<>>]
           N     == Len(p)
           Rec(g) == g = [k \in 0..N |-> IF k = 0 THEN start ELSE Turn(p, g[k - 1])]
<1> HIDE DEF start
<1>10. Rec([k \in 0..N |-> after(k)])
  <2> DEFINE g == [k \in 0..N |-> after(k)]
  <2>1. ASSUME NEW k \in 0..N PROVE g[k] = IF k = 0 THEN start ELSE Turn(p, g[k - 1])
    <3>1. CASE k = 0
      BY <1>7, <3>1 DEF start
    <3>2. CASE k # 0
      <4>1. k \in Nat \ {0} /\ k - 1 \in 0..N
        BY <1>8, <3>2
      <4>2. g[k] = after(k) /\ g[k - 1] = after(k - 1)
        BY <4>1
      <4>3. QED BY <1>6, <3>2, <4>1, <4>2
    <3>3. QED BY <3>1, <3>2
  <2>2. g = [k \in 0..N |-> g[k]]
    OBVIOUS
  <2> HIDE DEF g
  <2>3. Rec(g)
    BY <2>1, <2>2, Zenon
  <2>4. QED BY <2>3 DEF g
<1> DEFINE turns == CHOOSE g : Rec(g)
<1>11. Rec(turns)
  <2> HIDE DEF Rec
  <2>1. QED BY <1>10
<1>12. Parse(p) = turns[N].out
  <2>1. ~(Len(p) < 3)
    BY <1>8, <1>9
  <2>2. QED BY <2>1 DEF Parse, start
<1> HIDE DEF turns
<1>13. turns[N] = after(N)
  <2>1. ASSUME NEW k \in 0..N PROVE turns[k] = IF k = 0 THEN start ELSE Turn(p, turns[k - 1])
    BY <1>11, Zenon
  <2> DEFINE T == {k \in 0..N : turns[k] = after(k)}
  <2>2. 0 \in T
    <3>1. 0 \in 0..N
      BY <1>8
    <3>2. QED BY <1>7, <2>1, <3>1 DEF start
  <2>3. ASSUME NEW k \in 1..N, k - 1 \in T PROVE k \in T
    <3>1. k \in 0..N /\ k # 0 /\ k \in Nat \ {0}
      BY <1>8
    <3>2. turns[k] = Turn(p, turns[k - 1]) /\ turns[k - 1] = after(k - 1)
      BY <2>1, <2>3, <3>1
    <3>3. turns[k] = after(k)
      BY <1>6, <3>1, <3>2
    <3>4. QED BY <3>1, <3>3
  <2>4. 0..N \subseteq T
    <3> HIDE DEF T
    <3>1. QED BY <1>8, <2>2, <2>3, UpTo
  <2>5. N \in 0..N
    BY <1>8
  <2>6. QED BY <2>4, <2>5
<1>14. QED BY <1>5, <1>8, <1>12, <1>13 DEF p

\* The places in ms of the messages about n.
Places(ms, n) == {i \in 1..Len(ms) : n \in Concerned(ms[i])}

\* A packet is decoded faithfully: the last message about a note that is not cut off
\* tells what became of its key, and no message about a note leaves its key alone.
Faithful(p) ==
  /\ p.parsed \in Seq(Messages)
  /\ p.down \subseteq Notes /\ p.up \subseteq Notes /\ p.cut \subseteq Notes
  /\ \A n \in Notes \ p.cut :
       /\ Places(p.parsed, n) = {} => n \notin p.up /\ n \notin p.down
       /\ \A i \in Places(p.parsed, n) :
            (\A j \in Places(p.parsed, n) : j <= i) =>
              /\ p.parsed[i].kind = "on"  => n \in p.down
              /\ p.parsed[i].kind # "on" => n \in p.up /\ n \notin p.down

LEMMA ToldConcerns ==
  ASSUME NEW s \in Said
  PROVE  /\ Told(s) \in Messages /\ s.note \in Notes
         /\ s.by \in {"strike", "release", "zero"} => Concerned(Told(s)) = {s.note}
         /\ s.by \notin {"strike", "release", "zero"} => Concerned(Told(s)) = {}
         /\ Told(s).kind = "on" <=> s.by = "strike"
         /\ s.by \in {"strike", "release", "zero", "program", "clock"}
<1>1. Panic.note \in Notes
  BY NotesAssumption DEF Panic
<1>2. s.note \in Notes /\ s.by \in {"strike", "release", "zero", "program", "clock"}
  BY <1>1 DEF Said
<1>3. CASE s.by = "strike"
  BY <1>2, <1>3 DEF Told, Messages, Concerned
<1>4. CASE s.by \in {"release", "zero"}
  BY <1>2, <1>4 DEF Told, Messages, Concerned
<1>5. CASE s.by \in {"program", "clock"}
  BY <1>1, <1>2, <1>5 DEF Told, Messages, Concerned
<1>6. QED BY <1>2, <1>3, <1>4, <1>5

\* The packets of a keyboard are decoded faithfully.
LEMMA PacketsFaithful ==
  ASSUME NEW p \in Packets PROVE Faithful(p)
<1> DEFINE Made(said, forms) == [down   |-> Latest(said, {"strike"}),
                                 up     |-> Latest(said, {"release", "zero"}),
                                 cut    |-> CutOff(said),
                                 parsed |-> Parse(Packet(said, forms))]
<1>1. PICK said \in UNION {[1..k -> Said] : k \in 1..MaxPerPacket} :
        p \in {Made(said, forms) : forms \in {f \in [DOMAIN said -> Forms] : Spelt(said, f)}}
  BY DEF Packets
<1>2. PICK K \in 1..MaxPerPacket : said \in [1..K -> Said]
  OBVIOUS
<1>3. PICK forms \in [DOMAIN said -> Forms] : Spelt(said, forms) /\ p = Made(said, forms)
  BY <1>1
<1>4. said \in [1..K -> Said] /\ forms \in [1..K -> Forms] /\ Spelt(said, forms) /\ p = Made(said, forms)
  BY <1>2, <1>3
<1>5. K \in Nat \ {0} /\ Len(said) = K /\ DOMAIN said = 1..K
  BY <1>4, PacketAssumption
<1>6. PICK J : CutBehind(K, said, J) /\ Parse(Packet(said, forms)) = Heard(said, J)
  BY <1>4, <1>5, ParsedAsSaid
<1> DEFINE ms == Heard(said, J)
           Event(k) == said[k].by \in {"strike", "release", "zero"}
<1>7. /\ J \in 0..K /\ (J = K \/ (J + 1 \in 1..K /\ said[J + 1].by = "clock"))
      /\ \A i \in 1..J : i \in 1..K
  BY <1>5, <1>6 DEF CutBehind
<1>8. K \in Nat /\ J \in Nat /\ J <= K
  <2>1. K \in Nat
    BY <1>5
  <2>2. J \in 0..K
    BY <1>6 DEF CutBehind
  <2>3. QED BY <2>1, <2>2
<1>9. ms \in Seq(Messages) /\ Len(ms) = J /\ \A i \in 1..J : ms[i] = Told(said[i])
  <2>1. \A i \in 1..J : Told(said[i]) \in Messages
    BY <1>4, <1>7, ToldConcerns
  <2>2. ms = [i \in 1..J |-> Told(said[i])]
    BY DEF Heard
  <2> HIDE DEF ms
  <2>3. QED BY <1>8, <2>1, <2>2
<1>10. \A k \in 1..K : /\ said[k] \in Said /\ said[k].note \in Notes
                       /\ StatusOf(said[k]) \in System <=> said[k].by = "clock"
                       /\ said[k].by \in {"strike", "release", "zero", "program", "clock"}
  BY <1>4, DataIsLow, ToldConcerns
<1> HIDE DEF ms
<1>11. CutOff(said) \subseteq Notes
  BY <1>5, <1>10 DEF CutOff
<1>12. ASSUME NEW n \in Notes, n \notin CutOff(said), NEW k \in 1..K, said[k].note = n, Event(k)
       PROVE  k \in 1..J
  <2> SUFFICES ASSUME k \notin 1..J PROVE FALSE
    OBVIOUS
  <2>1. J + 1 \in 1..K /\ said[J + 1].by = "clock" /\ J + 1 \in 1..(k - 1)
    <3>1. K \in Nat /\ J \in Nat /\ J <= K /\ k \in Nat /\ k <= K /\ k > J
      BY <1>8
    <3>2. J # K
      BY <3>1
    <3>3. J + 1 \in 1..K /\ said[J + 1].by = "clock"
      BY <1>7, <3>2
    <3>4. k # J + 1
      BY <1>12, <3>3
    <3>5. QED BY <3>1, <3>3, <3>4
  <2>2. StatusOf(said[J + 1]) \in System
    BY <1>10, <2>1
  <2>3. said[k].note \in CutOff(said)
    BY <1>5, <2>1, <2>2 DEF CutOff
  <2>4. QED BY <1>12, <2>3
<1>13. ASSUME NEW n \in Notes, n \notin CutOff(said)
       PROVE  Places(ms, n) = {k \in 1..K : said[k].note = n /\ Event(k)}
  <2>1. \A k \in 1..J : n \in Concerned(ms[k]) <=> said[k].note = n /\ Event(k)
    BY <1>7, <1>9, <1>10, ToldConcerns
  <2>2. \A k \in 1..K : said[k].note = n /\ Event(k) => k \in 1..J
    BY <1>12, <1>13
  <2> HIDE DEF Event
  <2>3. QED BY <1>7, <1>9, <2>1, <2>2 DEF Places
<1>14. ASSUME NEW n \in Notes, n \notin CutOff(said)
       PROVE  /\ Places(ms, n) = {} => n \notin Latest(said, {"strike"}) /\ n \notin Latest(said, {"release", "zero"})
              /\ \A i \in Places(ms, n) :
                   (\A j \in Places(ms, n) : j <= i) =>
                     /\ ms[i].kind = "on"  => n \in Latest(said, {"strike"})
                     /\ ms[i].kind # "on" => n \in Latest(said, {"release", "zero"}) /\ n \notin Latest(said, {"strike"})
  <2> DEFINE places == {k \in 1..K : said[k].note = n /\ Event(k)}
  <2>1. Places(ms, n) = places
    BY <1>13, <1>14
  <2>2. \A bys : bys \subseteq {"strike", "release", "zero"} =>
          (n \in Latest(said, bys) <=>
             \E k \in places : said[k].by \in bys /\ \A j \in (k + 1)..K : j \notin places)
    <3>1. \A k \in 1..K : \A j \in (k + 1)..K : j \in 1..K
      OBVIOUS
    <3>2. \A j \in 1..K : (said[j].note = n => said[j].by \in {"program", "clock"}) <=> j \notin places
      BY <1>10
    <3>3. \A bys : bys \subseteq {"strike", "release", "zero"} =>
            \A k \in 1..K : said[k].note = n /\ said[k].by \in bys <=> k \in places /\ said[k].by \in bys
      OBVIOUS
    <3>4. \A k \in places : k \in 1..K
      OBVIOUS
    <3> HIDE DEF places
    <3> SUFFICES ASSUME NEW bys, bys \subseteq {"strike", "release", "zero"}
                 PROVE  n \in Latest(said, bys) <=>
                          \E k \in places : said[k].by \in bys /\ \A j \in (k + 1)..K : j \notin places
      OBVIOUS
    <3>5. n \in Latest(said, bys) <=>
            \E k \in 1..K : /\ said[k].note = n /\ said[k].by \in bys
                            /\ \A j \in (k + 1)..K : said[j].note = n => said[j].by \in {"program", "clock"}
      BY <1>5 DEF Latest
    <3>6. ASSUME NEW k \in 1..K
          PROVE  (\A j \in (k + 1)..K : said[j].note = n => said[j].by \in {"program", "clock"})
                   <=> \A j \in (k + 1)..K : j \notin places
      BY <3>1, <3>2
    <3>7. \A k \in 1..K : said[k].note = n /\ said[k].by \in bys <=> k \in places /\ said[k].by \in bys
      BY <3>3
    <3>8. QED BY <3>4, <3>5, <3>6, <3>7
  <2>3. places \subseteq 1..K
    OBVIOUS
  <2>4. \A i \in places : (ms[i].kind = "on" <=> said[i].by = "strike") /\ Event(i)
    BY <1>9, <1>10, <1>12, <1>14, ToldConcerns
  <2>5. ASSUME NEW i \in places, \A j \in places : j <= i
        PROVE  /\ \A j \in (i + 1)..K : j \notin places
               /\ \A k \in places : (\A j \in (k + 1)..K : j \notin places) => k = i
    BY <2>3, <2>5
  <2> HIDE DEF places
  <2>6. ASSUME NEW i \in places, \A j \in places : j <= i
        PROVE  /\ ms[i].kind = "on"  => n \in Latest(said, {"strike"})
               /\ ms[i].kind # "on" => n \in Latest(said, {"release", "zero"}) /\ n \notin Latest(said, {"strike"})
    BY <2>2, <2>4, <2>5, <2>6
  <2>7. QED BY <2>1, <2>2, <2>6
<1>15. \A bys : Latest(said, bys) \subseteq Notes
  BY DEF Latest
<1>16. QED
  <2>1. /\ p.parsed = ms /\ p.down = Latest(said, {"strike"}) /\ p.up = Latest(said, {"release", "zero"})
        /\ p.cut = CutOff(said)
    BY <1>4, <1>6 DEF ms
  <2>2. QED BY <1>9, <1>11, <1>14, <1>15, <2>1 DEF Faithful

\* Taking the messages of a packet, or those that find room, keeps the agreement.
LEMMA TakenAgrees ==
  ASSUME IInv, NEW p, Faithful(p), NEW L \in Nat, L <= Len(p.parsed),
         NEW taken \in Seq(Messages), Len(taken) = L, \A i \in 1..L : taken[i] = p.parsed[i],
         chan' = chan \o taken, held' = held, keys' = (keys \ p.up) \union p.down,
         lost' \subseteq Notes,
         \A n \in Notes \ lost' : /\ n \notin p.cut
                                  /\ n \notin lost \/ Places(p.parsed, n) # {}
                                  /\ Places(p.parsed, n) \subseteq 1..L
  PROVE  KeysAgree'
<1>1. /\ chan \in Seq(Messages) /\ Len(chan) \in Nat /\ Len(chan') = Len(chan) + L
      /\ \A i \in 1..Len(chan) : chan'[i] = chan[i]
      /\ \A i \in 1..L : chan'[Len(chan) + i] = p.parsed[i]
  <2>1. chan \in Seq(Messages)
    BY DEF IInv, TypeOK
  <2>2. \A q, w \in Seq(Messages) :
          /\ Len(q) \in Nat /\ Len(q \o w) = Len(q) + Len(w)
          /\ \A i \in 1..Len(q) : (q \o w)[i] = q[i]
          /\ \A i \in 1..Len(w) : (q \o w)[Len(q) + i] = w[i]
    OBVIOUS
  <2>3. QED BY <2>1, <2>2
<1> SUFFICES ASSUME NEW n \in Notes, n \notin lost'
             PROVE  /\ About(n)' = {} => (n \in held' <=> n \in keys')
                    /\ \A i \in About(n)' : (\A j \in About(n)' : j <= i)
                                            => (chan'[i].kind = "on" <=> n \in keys')
  BY DEF KeysAgree
<1> DEFINE places == Places(p.parsed, n)
<1>2. n \notin p.cut /\ (n \notin lost \/ places # {}) /\ places \subseteq 1..L /\ L <= Len(p.parsed)
  OBVIOUS
<1>3. /\ places = {} => n \notin p.up /\ n \notin p.down
      /\ \A i \in places : (\A j \in places : j <= i) =>
           /\ p.parsed[i].kind = "on"  => n \in p.down
           /\ p.parsed[i].kind # "on" => n \in p.up /\ n \notin p.down
  BY <1>2 DEF Faithful
<1>4. \A i \in 1..L : i \in places <=> n \in Concerned(p.parsed[i])
  BY <1>2 DEF Faithful, Places
<1> HIDE DEF places
<1>5. \A i \in 1..Len(chan) : i \in About(n)' <=> i \in About(n)
  BY <1>1 DEF About
<1>6. \A i \in 1..L : Len(chan) + i \in About(n)' <=> i \in places
  BY <1>1, <1>4 DEF About
<1>7. \A i \in About(n)' : i \in 1..Len(chan) \/ \E k \in 1..L : i = Len(chan) + k
  <2>1. \A i \in 1..(Len(chan) + L) : i \in 1..Len(chan) \/ (i - Len(chan) \in 1..L /\ i = Len(chan) + (i - Len(chan)))
    BY <1>1
  <2>2. QED BY <1>1, <2>1 DEF About
<1>8. CASE places = {}
  <2>1. About(n)' = About(n)
    <3>1. \A i \in About(n)' : i \in About(n)
      BY <1>5, <1>6, <1>7, <1>8
    <3>2. \A i \in About(n) : i \in About(n)'
      BY <1>5 DEF About
    <3>3. QED BY <3>1, <3>2
  <2>2. n \in keys' <=> n \in keys
    BY <1>3, <1>8
  <2>3. \A i \in About(n) : chan'[i] = chan[i]
    BY <1>1 DEF About
  <2>4. /\ About(n) = {} => (n \in held <=> n \in keys)
        /\ \A i \in About(n) : (\A j \in About(n) : j <= i) => (chan[i].kind = "on" <=> n \in keys)
    BY <1>2, <1>8 DEF IInv, KeysAgree
  <2>5. QED BY <2>1, <2>2, <2>3, <2>4
<1>9. CASE places # {}
  <2>1. PICK m \in places : TRUE
    BY <1>9
  <2>2. Len(chan) + m \in About(n)' /\ m \in 1..L
    BY <1>2, <1>6, <2>1
  <2>3. ASSUME NEW i \in About(n)', \A j \in About(n)' : j <= i
        PROVE  chan'[i].kind = "on" <=> n \in keys'
    <3>1. Len(chan) + m <= i
      BY <2>2, <2>3
    <3>2. PICK k \in 1..L : i = Len(chan) + k
      <4>1. i \notin 1..Len(chan)
        BY <1>1, <2>2, <3>1
      <4>2. QED BY <1>7, <4>1
    <3>3. k \in places /\ chan'[i] = p.parsed[k]
      BY <1>1, <1>6, <3>2
    <3>4. ASSUME NEW j \in places PROVE j <= k
      <4>1. j \in 1..L /\ Len(chan) + j \in About(n)'
        BY <1>2, <1>6
      <4>2. Len(chan) + j <= Len(chan) + k
        BY <2>3, <3>2, <4>1
      <4>3. QED BY <1>1, <4>1, <4>2
    <3>5. QED BY <1>3, <3>3, <3>4
  <2>4. QED BY <2>2, <2>3
<1>10. QED BY <1>8, <1>9

\* A notification keeps the types and the agreement, whether its messages fit or not.
LEMMA NotificationInv ==
  ASSUME IInv, NEW p, Faithful(p), Notification(p)
  PROVE  IInv'
<1> DEFINE ms   == p.parsed
           room == BleCap - Len(chan)
<1>1. /\ ms \in Seq(Messages) /\ Len(ms) \in Nat /\ p.down \subseteq Notes /\ p.cut \subseteq Notes
      /\ chan \in Seq(Messages) /\ Len(chan) \in Nat /\ room \in Nat /\ Len(chan) + room = BleCap
  BY BleCapAssumption DEF Faithful, IInv, TypeOK
<1>2. /\ keys' = (keys \ p.up) \union p.down /\ link' = link /\ mpc' = mpc /\ held' = held
      /\ keys' \subseteq Notes
  BY <1>1 DEF Notification, IInv, TypeOK
<1>3. ASSUME NEW w \in Seq(Messages)
      PROVE  /\ ConcernedIn(w) \subseteq Notes
             /\ \A n \in Notes : n \in ConcernedIn(w) <=> Places(w, n) # {}
  <2>1. ToSet(w) = {w[i] : i \in 1..Len(w)}
    BY DEF ToSet
  <2>2. \A i \in 1..Len(w) : Concerned(w[i]) \subseteq Notes
    <3>1. \A i \in 1..Len(w) : w[i] \in Messages
      OBVIOUS
    <3>2. \A m \in Messages : m.note \in Notes
      BY DEF Messages
    <3>3. QED BY <3>1, <3>2 DEF Concerned
  <2>3. QED BY <2>1, <2>2 DEF ConcernedIn, Places
<1> HIDE DEF ms, room
<1>4. CASE Len(ms) <= room
  <2>1. chan' = chan \o ms /\ lost' = (lost \ ConcernedIn(ms)) \union p.cut
    BY <1>4 DEF Notification, ms, room
  <2>2. TypeOK'
    <3>1. chan' \in Seq(Messages) /\ Len(chan') = Len(chan) + Len(ms)
      BY <1>1, <2>1
    <3>2. Len(chan') <= BleCap
      BY <1>1, <1>4, <3>1, BleCapAssumption
    <3>3. lost' \subseteq Notes
      BY <1>1, <2>1 DEF IInv, TypeOK
    <3>4. QED BY <1>2, <3>1, <3>2, <3>3 DEF IInv, TypeOK
  <2>3. \A n \in Notes \ lost' : /\ n \notin p.cut
                                 /\ n \notin lost \/ Places(ms, n) # {}
                                 /\ Places(ms, n) \subseteq 1..Len(ms)
    BY <1>1, <1>3, <2>1 DEF Places
  <2>4. KeysAgree'
    <3>1. PICK L \in Nat : L = Len(ms)
      BY <1>1
    <3>2. L <= Len(p.parsed) /\ \A i \in 1..L : ms[i] = p.parsed[i]
      BY <3>1 DEF ms
    <3>3. \A n \in Notes \ lost' : /\ n \notin p.cut
                                   /\ n \notin lost \/ Places(p.parsed, n) # {}
                                   /\ Places(p.parsed, n) \subseteq 1..L
      BY <2>3, <3>1 DEF ms
    <3>4. QED BY <1>1, <1>2, <2>1, <2>2, <3>1, <3>2, <3>3, TakenAgrees DEF TypeOK
  <2>5. QED BY <2>2, <2>4 DEF IInv
<1>5. CASE ~(Len(ms) <= room)
  <2> DEFINE taken == SubSeq(ms, 1, room)
             rest  == SubSeq(ms, room + 1, Len(ms))
  <2>1. /\ chan' = chan \o taken
        /\ lost' = (lost \ ConcernedIn(ms)) \union p.cut \union ConcernedIn(rest)
    BY <1>5 DEF Notification, ms, room
  <2>2. /\ taken \in Seq(Messages) /\ Len(taken) = room /\ room <= Len(ms)
        /\ \A i \in 1..room : taken[i] = ms[i]
    BY <1>1, <1>5
  <2>3. /\ rest \in Seq(Messages) /\ Len(rest) = Len(ms) - room
        /\ \A i \in 1..(Len(ms) - room) : rest[i] = ms[room + i]
    BY <1>1, <1>5
  <2> HIDE DEF taken, rest
  <2>4. TypeOK'
    <3>1. \A q, w \in Seq(Messages) : q \o w \in Seq(Messages) /\ Len(q \o w) = Len(q) + Len(w)
      OBVIOUS
    <3>2. chan' \in Seq(Messages) /\ Len(chan') = Len(chan) + room
      BY <1>1, <2>1, <2>2, <3>1
    <3>3. Len(chan') <= BleCap
      BY <1>1, <3>2, BleCapAssumption
    <3>4. lost' \subseteq Notes
      BY <1>1, <1>3, <2>1, <2>3 DEF IInv, TypeOK
    <3>5. QED BY <1>2, <3>2, <3>3, <3>4 DEF IInv, TypeOK
  <2>5. ASSUME NEW n \in Notes, n \notin lost'
        PROVE  /\ n \notin p.cut
               /\ n \notin lost \/ Places(ms, n) # {}
               /\ Places(ms, n) \subseteq 1..room
    <3>1. n \notin p.cut /\ (n \notin lost \/ n \in ConcernedIn(ms)) /\ n \notin ConcernedIn(rest)
      BY <2>1, <2>5
    <3>2. Places(rest, n) = {}
      BY <1>3, <2>3, <3>1
    <3>3. ASSUME NEW i \in Places(ms, n), i \notin 1..room PROVE FALSE
      <4>1. i \in 1..Len(ms) /\ n \in Concerned(ms[i])
        BY DEF Places
      <4>2. i - room \in 1..(Len(ms) - room) /\ room + (i - room) = i
        BY <1>1, <3>3, <4>1
      <4>3. i - room \in Places(rest, n)
        BY <2>3, <4>1, <4>2 DEF Places
      <4>4. QED BY <3>2, <4>3
    <3>4. QED BY <1>1, <1>3, <3>1, <3>3
  <2>6. KeysAgree'
    BY <1>1, <1>2, <2>1, <2>2, <2>4, <2>5, TakenAgrees DEF ms, TypeOK
  <2>7. QED BY <2>4, <2>6 DEF IInv
<1>6. QED BY <1>4, <1>5

\* With a keyboard that sends whole packets, in which it leaves out what goes without
\* saying and mixes in what is no key, with the LED and with a USB host beside it:
\* still the voice agrees with the keyboard once the queue is drained.
THEOREM VoiceAgreesOnPackets == LSpec => []KeysAgree
<1>1. LInit => IInv
  BY InitInv DEF LInit
<1>2. IInv /\ [LNext]_lvars => IInv'
  <2> SUFFICES ASSUME IInv, [LNext]_lvars PROVE IInv'
    OBVIOUS
  <2>1. ASSUME NEW p \in Packets, Notification(p) PROVE IInv'
    BY <2>1, PacketsFaithful, NotificationInv
  <2>2. CASE LReceive
    BY <2>2, StepInv DEF LReceive, Next
  <2>3. CASE LinkStep
    BY <2>1, <2>3, StepInv DEF LinkStep, Next
  <2>4. CASE UsbOn \/ UsbOff \/ LedSteps \/ UNCHANGED lvars
    <3>1. UNCHANGED vars
      BY <2>4 DEF UsbOn, UsbOff, LedSteps, LedCheck, LedShow, LedTimeout, HeartOff, HeartEnds, lvars, vars
    <3>2. QED BY <3>1, StepInv
  <2>5. QED BY <2>2, <2>3, <2>4 DEF LNext
<1>3. QED BY <1>1, <1>2, PTL DEF LSpec, IInv
===============================================================================
