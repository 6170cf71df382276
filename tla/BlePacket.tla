------------------------------- MODULE BlePacket -------------------------------
(***************************************************************************)
(* The decoding of a BLE-MIDI notification, on top of BleLink: a packet    *)
(* has a header byte and then messages, each with a timestamp byte and a   *)
(* status byte that a keyboard may leave out where they repeat.  A byte is *)
(* a member of a few sets here: those with bit 7 set (timestamps, the      *)
(* status bytes of voice messages, system messages) and data bytes.        *)
(* parse_ble_midi has no await: all messages of a packet are offered to    *)
(* BLE_MIDI_CHANNEL in one step.                                           *)
(***************************************************************************)
EXTENDS BleLink, SequencesExt

CONSTANT MaxPerPacket   \* bound on the messages of a packet

ASSUME PacketAssumption == MaxPerPacket \in Nat \ {0}

NOTE_ON  == "0x90"
NOTE_OFF == "0x80"
PROGRAM  == "0xC0"
CLOCK    == "0xF8"
TIME     == "timestamp"

System == {CLOCK}
High   == {TIME, NOTE_ON, NOTE_OFF, PROGRAM} \union System

\* A note number is a data byte: bit 7 is clear.
ASSUME DataAssumption == Notes \intersect High = {}

------------------------------------------------------------------------------
(* The keyboard *)

\* What it has to say: a key that goes down, or up in either of two spellings; a
\* program change; a clock.
Said == [by : {"strike", "release", "zero"}, note : Notes]
        \union [by : {"program", "clock"}, note : {Panic.note}]

StatusOf(s) == CASE s.by \in {"strike", "zero"} -> NOTE_ON
                 [] s.by = "release" -> NOTE_OFF
                 [] s.by = "program" -> PROGRAM
                 [] s.by = "clock"   -> CLOCK

DataOf(s) == CASE s.by \in {"strike", "release"} -> <<s.note, "velocity">>
               [] s.by = "zero"    -> <<s.note, "nought">>
               [] s.by = "program" -> <<"number">>
               [] s.by = "clock"   -> <<>>

\* How much of a message goes without saying: nothing, its status, or its timestamp too.
Forms == {"full", "running", "bare"}

BytesOf(s, form) == (CASE form = "full"    -> <<TIME, StatusOf(s)>>
                       [] form = "running" -> <<TIME>>
                       [] form = "bare"    -> <<>>) \o DataOf(s)

\* The status may be left out when the message before has the same.
Spelt(said, forms) ==
  \A k \in DOMAIN said :
    forms[k] = "full" \/ (k > 1 /\ said[k].by # "clock" /\ StatusOf(said[k]) = StatusOf(said[k - 1]))

Packet(said, forms) ==
  LET bytes[k \in 0..Len(said)] ==
        IF k = 0 THEN <<"header">> ELSE bytes[k - 1] \o BytesOf(said[k], forms[k])
  IN  bytes[Len(said)]

------------------------------------------------------------------------------
(* A mutation of the operators below: a bug the run must find. *)

\* Mutation: a status counts for its own message only.
StatusOnce(before, new, byte) == IF new THEN byte ELSE "none"

------------------------------------------------------------------------------
(* parse_ble_midi *)

\* What midi_task makes of a message; a note-on of velocity 0 is a note-off.
Meaning(status, d1, d2) ==
  CASE status = NOTE_ON  -> [kind |-> IF d2 = "nought" THEN "off" ELSE "on", note |-> d1]
    [] status = NOTE_OFF -> [kind |-> "off", note |-> d1]
    [] status = PROGRAM  -> [kind |-> "other", note |-> Panic.note]

Needed(status) == IF status = PROGRAM THEN 1 ELSE 2

\* The status in force after a byte that may be a new one.
Status(before, new, byte) == IF new THEN byte ELSE before

\* One turn of the loop, which looks at byte s.at.  A system message, data without
\* a status and a message cut short all end it.
Turn(p, s) ==
  LET t      == IF p[s.at] \in High THEN s.at + 1 ELSE s.at
      new    == t > s.at /\ t <= Len(p) /\ p[t] \in High
      status == Status(s.running, new, IF new THEN p[t] ELSE "none")
      d      == IF new THEN t + 1 ELSE t
      next   == d + Needed(status)
  IN  IF s.at > Len(p) \/ t > Len(p) \/ status \in {"none"} \union System \/ next > Len(p) + 1
        THEN [s EXCEPT !.at = Len(p) + 1]
        ELSE [at |-> next, running |-> status,
              out |-> Append(s.out, Meaning(status, p[d], IF Needed(status) = 2 THEN p[d + 1] ELSE "none"))]

\* The messages offered; the first byte is the header.
Parse(p) ==
  LET turns[k \in 0..Len(p)] ==
        IF k = 0 THEN [at |-> 2, running |-> "none", out |-> <<>>] ELSE Turn(p, turns[k - 1])
  IN  IF Len(p) < 3 THEN <<>> ELSE turns[Len(p)].out

------------------------------------------------------------------------------
(* A notification *)

\* The keys that a packet leaves down, and those it leaves up.
Latest(said, bys) ==
  {n \in Notes : \E k \in DOMAIN said :
     /\ said[k].note = n /\ said[k].by \in bys
     /\ \A j \in (k + 1)..Len(said) : said[j].note = n => said[j].by \in {"program", "clock"}}

\* The notes of the messages behind a system message, which are not looked at.
CutOff(said) ==
  {said[k].note : k \in {k \in DOMAIN said : \E j \in 1..(k - 1) : StatusOf(said[j]) \in System}}

\* The packets that a keyboard can send, by what they say and what is made of them.
Packets ==
  UNION {{[down   |-> Latest(said, {"strike"}),
           up     |-> Latest(said, {"release", "zero"}),
           cut    |-> CutOff(said),
           parsed |-> Parse(Packet(said, forms))] :
            forms \in {f \in [DOMAIN said -> Forms] : Spelt(said, f)}} :
         said \in UNION {[1..k -> Said] : k \in 1..MaxPerPacket}}

ConcernedIn(ms) == UNION {Concerned(m) : m \in ToSet(ms)}

\* Of the messages of a packet those that find room are taken.
Notification(p) ==
  LET room == BleCap - Len(chan)
  IN  /\ link = "play"
      /\ keys' = (keys \ p.up) \union p.down
      /\ IF Len(p.parsed) <= room
           THEN /\ chan' = chan \o p.parsed
                /\ lost' = (lost \ ConcernedIn(p.parsed)) \union p.cut
           ELSE /\ chan' = chan \o SubSeq(p.parsed, 1, room)
                /\ lost' = (lost \ ConcernedIn(p.parsed)) \union p.cut
                           \union ConcernedIn(SubSeq(p.parsed, room + 1, Len(p.parsed)))
      /\ UNCHANGED <<link, mpc, held>>
===============================================================================
