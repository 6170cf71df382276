-------------------------------- MODULE BleLink --------------------------------
(***************************************************************************)
(* The BLE-MIDI path: the central loop of bluetooth_task finds, pairs with *)
(* and loses a keyboard and offers its messages to BLE_MIDI_CHANNEL, which *)
(* drops what does not fit; midi_task takes them out in the gaps between   *)
(* the bank writes and SysEx dumps that keep it busy.  The note stack is   *)
(* reduced to the set of notes it holds (NoteStack has it in full).        *)
(* `keys` and `lost` are what the code does not record: the keys down by   *)
(* the notifications of the present link, and the notes whose most recent  *)
(* message was dropped.                                                    *)
(***************************************************************************)
EXTENDS Naturals, Sequences

CONSTANTS
  Notes,    \* the note numbers in play
  BleCap    \* capacity of BLE_MIDI_CHANNEL (16)

ASSUME NotesAssumption  == Notes # {}
ASSUME BleCapAssumption == BleCap \in Nat \ {0}

VARIABLES
  link,     \* phase of the central loop
  chan,     \* BLE_MIDI_CHANNEL
  mpc,      \* midi_task: "wait" at its select3, or "busy" in another handler
  held,     \* the notes in NoteStack.notes
  keys, lost

vars == <<link, chan, mpc, held, keys, lost>>

\* A notification is decoded into key messages; other voice messages only take room.
Messages == [kind : {"on", "off", "other", "panic"}, note : Notes]

\* CC123 concerns every note; its note field means nothing, nor does that of another voice message.
Panic == [kind |-> "panic", note |-> CHOOSE n \in Notes : TRUE]

Concerned(m) == CASE m.kind = "panic" -> Notes
                  [] m.kind = "other" -> {}
                  [] OTHER            -> {m.note}

Init == /\ link = "scan" /\ chan = <<>> /\ mpc = "wait"
        /\ held = {} /\ keys = {} /\ lost = {}

------------------------------------------------------------------------------
(* A mutation of a handler below: a bug the run must find. *)

\* Mutation: the lost link is not reported to midi_task.
LinkEndsSilently ==
  /\ link \in {"discover", "play"}
  /\ link' = "scan" /\ keys' = {}
  /\ UNCHANGED <<chan, lost, mpc, held>>

------------------------------------------------------------------------------
(* bluetooth_task *)

\* BLE_MIDI_CHANNEL.try_send: the new message is dropped when the channel is full.
Offer(m) ==
  IF Len(chan) < BleCap
    THEN chan' = Append(chan, m) /\ lost' = lost \ Concerned(m)
    ELSE UNCHANGED chan /\ lost' = lost \union Concerned(m)

\* An advertisement of the MIDI service ends the scan; connecting may fail.
Find    == /\ link = "scan" /\ link' = "connect"
           /\ UNCHANGED <<chan, mpc, held, keys, lost>>
Connect == /\ link = "connect" /\ link' \in {"pair", "scan"}
           /\ UNCHANGED <<chan, mpc, held, keys, lost>>

\* pair: on success BT_CONNECTED is raised, on failure the loop scans again.
Pair == /\ link = "pair" /\ link' \in {"discover", "scan"}
        /\ UNCHANGED <<chan, mpc, held, keys, lost>>

\* run_gatt: discovery and subscription.
Subscribe == /\ link = "discover" /\ link' = "play"
             /\ UNCHANGED <<chan, mpc, held, keys, lost>>

\* parse_ble_midi on a notification with one message (BlePacket has the packets in
\* full).  A key that is up may be reported up again: it was pressed before this
\* link was made.
KeyDown(n) == /\ link = "play" /\ keys' = keys \union {n}
              /\ Offer([kind |-> "on", note |-> n])
              /\ UNCHANGED <<link, mpc, held>>
KeyUp(n)   == /\ link = "play" /\ keys' = keys \ {n}
              /\ Offer([kind |-> "off", note |-> n])
              /\ UNCHANGED <<link, mpc, held>>
OtherSaid  == /\ link = "play"
              /\ Offer([Panic EXCEPT !.kind = "other"])
              /\ UNCHANGED <<link, mpc, held, keys>>

\* run_gatt returns because the link dropped or a discovery step failed.
LinkEnds ==
  /\ link \in {"discover", "play"}
  /\ link' = "scan" /\ keys' = {}
  /\ Offer(Panic)
  /\ UNCHANGED <<mpc, held>>

------------------------------------------------------------------------------
(* midi_task *)

Hear(m) == CASE m.kind = "on"    -> held \union {m.note}
             [] m.kind = "off"   -> held \ {m.note}
             [] m.kind = "panic" -> {}
             [] OTHER            -> held

\* BLE_MIDI_CHANNEL.receive wins the select.
Receive == /\ mpc = "wait" /\ chan # <<>>
           /\ chan' = Tail(chan) /\ held' = Hear(Head(chan))
           /\ UNCHANGED <<link, mpc, keys, lost>>

\* A SysEx dump or bank write, or the "reset" command, wins it.
BusyBegins == /\ mpc = "wait" /\ mpc' = "busy"
              /\ UNCHANGED <<link, chan, held, keys, lost>>
BusyEnds   == /\ mpc = "busy" /\ mpc' = "wait"
              /\ UNCHANGED <<link, chan, held, keys, lost>>

Next == \/ Find \/ Connect \/ Pair \/ Subscribe \/ LinkEnds
        \/ \E n \in Notes : KeyDown(n) \/ KeyUp(n)
        \/ OtherSaid
        \/ Receive \/ BusyBegins \/ BusyEnds

Spec == Init /\ [][Next]_vars

\* FlashGate shows that a bank write ends; a dump ends as long as the host reads
\* it.  The executor's select3 polls its branches in order, but the USB receiver
\* and the command channel are not always ready, so the BLE branch is not starved.
Fairness == SF_vars(Receive) /\ WF_vars(BusyEnds)

FairSpec == Spec /\ Fairness

------------------------------------------------------------------------------
(* Properties *)

TypeOK ==
  /\ link \in {"scan", "connect", "pair", "discover", "play"}
  /\ chan \in Seq(Messages) /\ Len(chan) <= BleCap
  /\ mpc \in {"wait", "busy"}
  /\ held \subseteq Notes /\ keys \subseteq Notes /\ lost \subseteq Notes

\* The positions of the queued messages about n.
About(n) == {i \in 1..Len(chan) : n \in Concerned(chan[i])}

\* For every note whose latest message was accepted, the voice will agree with
\* the keyboard once the queue is drained: a key struck on a new link is never cut
\* by the panic message of the old one, none that was let go before or with the
\* link keeps sounding, and a dropped message spoils no note but its own.
KeysAgree ==
  \A n \in Notes \ lost :
    /\ About(n) = {} => (n \in held <=> n \in keys)
    /\ \A i \in About(n) : (\A j \in About(n) : j <= i) => (chan[i].kind = "on" <=> n \in keys)

\* Without a dropped message a lost link silences the voice, however long
\* midi_task is busy, unless the keyboard is back first.
LinkLossSilences ==
  (link = "scan" /\ lost = {}) ~> (held = {} \/ link = "play" \/ lost # {})

\* README: "Silences any held notes if the BLE keyboard disconnects."
SilentWhenGone == link = "scan" /\ chan = <<>> /\ mpc = "wait" => held = {}
==============================================================================
