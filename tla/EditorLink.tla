------------------------------- MODULE EditorLink -------------------------------
(***************************************************************************)
(* The editor at the other end of USB-MIDI, on top of BankStore: midi_task *)
(* reads SysEx messages byte by byte, decodes the payload's nibbles as     *)
(* they come, and answers a dump request or a bank write.  The cable may   *)
(* be pulled in the middle of a message; what is left of it may still      *)
(* follow when it is back.  `payload` and `asked` record what the code     *)
(* does not: the payload bytes since the last start byte, and the answer   *)
(* due to a request the host has sent whole.                               *)
(***************************************************************************)
EXTENDS BankStore, Sequences

CONSTANTS
  ImageBytes,  \* STORAGE_IMAGE_SIZE (28672)
  MaxPulls     \* bound on the times the cable is pulled, and on these and the power losses together

ASSUME ImageAssumption == ImageBytes \in Nat \ {0}
ASSUME PullsAssumption == MaxPulls \in Nat

START     == 240
END       == 247
ID        == 125
MODEL     == 1
DUMP_REQ  == 1
WRITE_REQ == 2

(***************************************************************************)
(* The messages a host sends.  A payload nibble is told apart from the     *)
(* others by its value; a bank begins with the byte 18 if its magic number *)
(* and version are this firmware's.                                        *)
(***************************************************************************)
Bank(first, n) == <<START, ID, MODEL, WRITE_REQ>> \o [i \in 1..n |-> IF i = 1 THEN first ELSE i] \o <<END>>

Message == [dump     |-> <<START, ID, MODEL, DUMP_REQ, END>>,
            write    |-> Bank(1, 2 * ImageBytes),
            odd      |-> Bank(1, 2 * ImageBytes - 1),
            long     |-> Bank(1, 2 * ImageBytes + 1),
            outdated |-> Bank(9, 2 * ImageBytes),
            foreign  |-> <<START, 126, 127, 6, 1, END>>,
            tiny     |-> <<START, ID, END>>]

\* What the editor must be told for each.
Deserved == [dump  |-> "dump", write |-> "success", outdated |-> "bad_magic",
             odd |-> "bad_length", long |-> "bad_length",
             foreign |-> "none", tiny |-> "none"]

VARIABLES
  usb,           \* "up" or "down"
  msg, pos,      \* the message the host is sending and its next byte, or "none"
  cut,           \* 1 if bytes of it were lost
  inSysex, hdr, raw, hi, overflow,  \* the framing state; hi = 16 for no nibble
  reply,         \* what midi_task is answering, or "write" while it writes the bank
  started,       \* 1 once midi_task is in its loop
  payload, asked,
  pulls

wire    == <<usb, msg, pos, cut>>
framing == <<inSysex, hdr, raw, hi, overflow>>
evars   == <<vars, wire, framing, reply, started, payload, asked, pulls>>

NoNibble == 16

FramingInit == /\ inSysex = 0 /\ hdr = <<>> /\ raw = <<>> /\ hi = NoNibble /\ overflow = 0

EInit == /\ Init
         /\ usb = "down" /\ msg = "none" /\ pos = 1 /\ cut = 0
         /\ FramingInit
         /\ reply = "none" /\ started = 0
         /\ payload = <<>> /\ asked = "none" /\ pulls = 0

\* midi_task is at its select.
Free == pc = "ready" /\ started = 1 /\ reply = "none"

------------------------------------------------------------------------------
(* Mutations of the handlers below: each is a bug one of the runs must find. *)

\* Mutation: the pending nibble of a message that was cut is kept.
StartByteKeepsNibble(b) ==
  /\ b = START
  /\ inSysex' = 1 /\ hdr' = <<b>> /\ raw' = <<>> /\ overflow' = 0 /\ payload' = <<>>
  /\ UNCHANGED <<hi, vars, reply>>

\* Mutation: a dangling nibble is not noticed.
EndedEvenly == overflow' = overflow

\* Mutation: an answer waits for the host to be back.
ReplyRetries == FALSE /\ UNCHANGED evars

------------------------------------------------------------------------------
(* The host and the cable *)

\* The host sends one message after the other, and waits for the answers.
HostSends(m) == /\ usb = "up" /\ msg = "none" /\ asked = "none"
                /\ msg' = m /\ pos' = 1 /\ cut' = 0
                /\ UNCHANGED <<vars, usb, framing, reply, started, payload, asked, pulls>>

Disconnect == /\ usb = "up" /\ pulls + losses < MaxPulls
              /\ usb' = "down" /\ asked' = "none" /\ pulls' = pulls + 1
              /\ cut' = IF msg = "none" THEN cut ELSE 1
              /\ UNCHANGED <<vars, msg, pos, framing, reply, started, payload>>

\* The host starts afresh, or goes on with some later byte of its message.
Reconnect == /\ usb = "down" /\ usb' = "up"
             /\ \/ msg' = "none" /\ pos' = 1
                \/ /\ msg # "none" /\ UNCHANGED msg
                   /\ pos' \in pos..Len(Message[msg])
             /\ UNCHANGED <<vars, cut, framing, reply, started, payload, asked, pulls>>

------------------------------------------------------------------------------
(* midi_task: one byte of a SysEx packet *)

StartByte(b) ==
  /\ b = START
  /\ inSysex' = 1 /\ hdr' = <<b>> /\ raw' = <<>> /\ hi' = NoNibble /\ overflow' = 0
  /\ payload' = <<>>
  /\ UNCHANGED <<vars, reply>>

StrayByte(b) == /\ b # START /\ inSysex = 0
                /\ UNCHANGED <<vars, framing, reply, payload>>

\* The header takes any byte, an end byte included.
HeaderByte(b) == /\ b # START /\ inSysex = 1 /\ Len(hdr) < 4
                 /\ hdr' = Append(hdr, b)
                 /\ UNCHANGED <<vars, inSysex, raw, hi, overflow, reply, payload>>

NibbleByte(b) ==
  /\ b \notin {START, END} /\ inSysex = 1 /\ Len(hdr) = 4
  /\ \/ hi = NoNibble /\ hi' = b % 16 /\ UNCHANGED <<raw, overflow>>
     \/ /\ hi # NoNibble /\ hi' = NoNibble
        /\ IF Len(raw) < ImageBytes
             THEN raw' = Append(raw, 16 * hi + (b % 16)) /\ UNCHANGED overflow
             ELSE overflow' = 1 /\ UNCHANGED raw
  /\ payload' = Append(payload, b % 16)
  /\ UNCHANGED <<vars, inSysex, hdr, reply>>

\* handle_sysex on a whole image of the right length: write_raw begins, or the
\* bank is of another firmware.
AcceptBank == IF raw[1] = 18
                THEN SysexWrite /\ reply' = "write"
                ELSE reply' = "bad_magic" /\ UNCHANGED vars

WrongLength == overflow' = 1 \/ Len(raw) # ImageBytes

\* handle_sysex.
HandleSysex ==
  \/ hdr[4] = DUMP_REQ /\ reply' = "dump" /\ UNCHANGED vars
  \/ hdr[4] = WRITE_REQ /\ WrongLength /\ reply' = "bad_length" /\ UNCHANGED vars
  \/ hdr[4] = WRITE_REQ /\ ~WrongLength /\ AcceptBank
  \/ hdr[4] \notin {DUMP_REQ, WRITE_REQ} /\ UNCHANGED <<vars, reply>>

\* A nibble left over makes the length wrong.
Ended == overflow' = IF hi # NoNibble THEN 1 ELSE overflow

EndByte(b) ==
  /\ b = END /\ inSysex = 1 /\ Len(hdr) = 4
  /\ inSysex' = 0 /\ Ended
  /\ IF hdr[2] = ID /\ hdr[3] = MODEL THEN HandleSysex ELSE UNCHANGED <<vars, reply>>
  /\ UNCHANGED <<hdr, raw, hi, payload>>

\* The next byte arrives; the last one of a message sent whole makes it a request.
Byte == /\ usb = "up" /\ msg # "none" /\ Free
        /\ LET b == Message[msg][pos]
           IN  StartByte(b) \/ StrayByte(b) \/ HeaderByte(b) \/ NibbleByte(b) \/ EndByte(b)
        /\ IF pos < Len(Message[msg])
             THEN pos' = pos + 1 /\ UNCHANGED <<msg, asked>>
             ELSE /\ msg' = "none" /\ pos' = 1
                  /\ asked' = IF cut = 0 THEN Deserved[msg] ELSE asked
        /\ UNCHANGED <<usb, cut, started, pulls>>

------------------------------------------------------------------------------
(* midi_task: answers *)

\* write_raw has returned, or there was nothing to write.
Answering == pc = "ready" /\ reply # "none"

AnswerEnds == /\ Answering /\ reply' = "none"
              /\ UNCHANGED <<vars, wire, framing, started, payload, pulls>>

\* The host reads all packets of the answer ...
Deliver == /\ usb = "up" /\ AnswerEnds
           /\ LET answer == IF reply = "write" THEN "success" ELSE reply
              IN  asked' = IF answer = asked THEN "none" ELSE asked

\* ... or the endpoint is disabled, and every write_packet fails at once.
ReplyFails == usb = "down" /\ AnswerEnds /\ UNCHANGED asked

------------------------------------------------------------------------------
(* The bank below *)

\* The deferred format is over, or there is none; the SysEx state is set up.
StartTask == /\ pc = "ready" /\ started = 0 /\ started' = 1
             /\ UNCHANGED <<vars, wire, framing, reply, payload, asked, pulls>>

EWriteStep == WriteStep /\ UNCHANGED <<wire, framing, reply, started, payload, asked, pulls>>

EBoot == (Boot \/ BootFormat) /\ UNCHANGED <<wire, framing, reply, started, payload, asked, pulls>>

EReset == Free /\ ResetStorage /\ UNCHANGED <<wire, framing, reply, started, payload, asked, pulls>>

\* RAM is lost, and with it all of midi_task.
EPowerLoss == /\ pulls + losses < MaxPulls \/ pulls = 0
              /\ PowerLoss
              /\ usb' = "down" /\ msg' = "none" /\ pos' = 1 /\ cut' = 0
              /\ inSysex' = 0 /\ hdr' = <<>> /\ raw' = <<>> /\ hi' = NoNibble /\ overflow' = 0
              /\ reply' = "none" /\ started' = 0 /\ payload' = <<>> /\ asked' = "none"
              /\ UNCHANGED pulls

ENext == \/ \E m \in DOMAIN Message : HostSends(m)
         \/ Disconnect \/ Reconnect
         \/ Byte \/ Deliver \/ ReplyFails
         \/ StartTask \/ EWriteStep \/ EBoot \/ EReset \/ EPowerLoss

ESpec == EInit /\ [][ENext]_evars

\* As in BankStore; and midi_task starts, and does not hang on a dead endpoint.
EFairSpec == /\ ESpec
             /\ WF_evars(EBoot) /\ WF_evars(EWriteStep)
             /\ WF_evars(StartTask) /\ WF_evars(ReplyFails)

\* A host that goes on reading what it has asked for.
HostReads == WF_evars(Deliver)

------------------------------------------------------------------------------
(* Properties *)

\* What is written to flash is the payload received since the last start byte, all
\* of it and nothing else: no byte or nibble of a message that a pulled cable or
\* another start byte has cut is left in it.
ImageIsPayload ==
  reply = "write" =>
    /\ Len(payload) = 2 * ImageBytes
    /\ raw = [i \in 1..ImageBytes |-> 16 * payload[2 * i - 1] + payload[2 * i]]

\* A request that arrives whole is answered, and with the answer it deserves,
\* whatever was cut before it, as long as the host reads and the power stays on.
RequestAnswered == HostReads => ((asked # "none") ~> (asked = "none"))

\* A host that has stopped reading holds midi_task only until its cable is pulled.
CableFreesTask == (reply # "none" /\ usb = "down") ~> (reply = "none" \/ usb = "up")
===============================================================================
