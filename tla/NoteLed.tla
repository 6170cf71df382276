-------------------------------- MODULE NoteLed --------------------------------
(***************************************************************************)
(* The LED, on top of the BLE link: midi_task posts to LED_SIGNAL_CHANNEL  *)
(* when a note is struck and when the last one is let go, and drops what   *)
(* does not fit; led_loop shows the posted states while a keyboard is      *)
(* connected, and a heartbeat while none is, when nobody takes anything    *)
(* out of the channel.  A USB host plays a note of its own all the while.  *)
(* `shown` is what the LED shows, and `unposted` is 1 if the latest state  *)
(* was dropped: the code records neither.                                  *)
(***************************************************************************)
EXTENDS BlePacket

CONSTANT LedCap   \* capacity of LED_SIGNAL_CHANNEL (4)

ASSUME LedCapAssumption == LedCap \in Nat \ {0}

VARIABLES
  usb,       \* 1 while the note that the USB host plays is in NoteStack.notes
  posts,     \* LED_SIGNAL_CHANNEL
  led,       \* CYW43 GPIO 0
  lpc,       \* led_loop: "loop", "wait" at its select, heartbeat "on" or "off"
  shown,     \* a posted "note" state, or the heartbeat's "beat"
  unposted

lvars == <<vars, usb, posts, led, lpc, shown, unposted>>
ledLoop == <<led, lpc, shown>>

LInit == /\ Init
         /\ usb = 0 /\ posts = <<>> /\ unposted = 0
         /\ led = 0 /\ lpc = "loop" /\ shown = "beat"

\* BT_CONNECTED is stored true when pairing is done and false when run_gatt returns.
BtConnected == link \in {"discover", "play"}

\* What active_note is asked for: is a note stacked?
Sounding == IF held # {} \/ usb = 1 THEN 1 ELSE 0

------------------------------------------------------------------------------
(* Mutations of the handlers below: each is a bug one of the runs must find. *)

\* Mutation: the last note of the BLE keyboard switches the LED off.
SignalOffAlone(m) == m.kind \in {"off", "panic"} /\ held' = {}

\* Mutation: led_loop does not look at the connection again after a heartbeat.
HeartLoops == /\ lpc = "off" /\ led' = 1 /\ shown' = "beat" /\ lpc' = "on"
              /\ UNCHANGED <<vars, usb, posts, unposted>>

------------------------------------------------------------------------------
(* midi_task *)

\* LED_SIGNAL_CHANNEL.try_send.
Post(s) == IF Len(posts) < LedCap
             THEN posts' = Append(posts, s) /\ unposted' = 0
             ELSE UNCHANGED posts /\ unposted' = 1

\* A note-off is posted when it leaves the stack empty, a panic message always.
SignalOff(m) == m.kind \in {"off", "panic"} /\ Sounding' = 0

LReceive == /\ Receive
            /\ usb' = IF Head(chan).kind = "panic" THEN 0 ELSE usb
            /\ \/ Head(chan).kind = "on" /\ Post(1)
               \/ SignalOff(Head(chan)) /\ Post(0)
               \/ /\ Head(chan).kind # "on" /\ ~SignalOff(Head(chan))
                  /\ UNCHANGED <<posts, unposted>>
            /\ UNCHANGED ledLoop

\* A note of the USB host, which is not one the BLE keyboard plays.
UsbOn  == /\ mpc = "wait" /\ usb' = 1 /\ Post(1)
          /\ UNCHANGED <<vars, ledLoop>>
UsbOff == /\ mpc = "wait" /\ usb' = 0
          /\ IF held = {} THEN Post(0) ELSE UNCHANGED <<posts, unposted>>
          /\ UNCHANGED <<vars, ledLoop>>

\* Whatever else happens on the link or in midi_task leaves the LED alone.
LinkStep == /\ \/ Find \/ Connect \/ Pair \/ Subscribe \/ LinkEnds
               \/ \E p \in Packets : Notification(p)
               \/ BusyBegins \/ BusyEnds
            /\ UNCHANGED <<usb, posts, unposted, ledLoop>>

------------------------------------------------------------------------------
(* led_loop *)

LedCheck == /\ lpc = "loop"
            /\ IF BtConnected
                 THEN lpc' = "wait" /\ UNCHANGED <<led, shown>>
                 ELSE lpc' = "on" /\ led' = 1 /\ shown' = "beat"
            /\ UNCHANGED <<vars, usb, posts, unposted>>

LedShow == /\ lpc = "wait" /\ posts # <<>>
           /\ led' = Head(posts) /\ posts' = Tail(posts) /\ shown' = "note" /\ lpc' = "loop"
           /\ UNCHANGED <<vars, usb, unposted>>

\* The select polls the channel first, so its second of patience runs out only
\* on an empty one.
LedTimeout == /\ lpc = "wait" /\ posts = <<>>
              /\ lpc' = "loop"
              /\ UNCHANGED <<vars, usb, posts, led, shown, unposted>>

HeartOff == /\ lpc = "on" /\ led' = 0 /\ lpc' = "off"
            /\ UNCHANGED <<vars, usb, posts, shown, unposted>>

HeartEnds == /\ lpc = "off" /\ lpc' = "loop"
             /\ UNCHANGED <<vars, usb, posts, led, shown, unposted>>

LedSteps == LedCheck \/ LedShow \/ LedTimeout \/ HeartOff \/ HeartEnds

LNext == LReceive \/ UsbOn \/ UsbOff \/ LinkStep \/ LedSteps

LSpec == LInit /\ [][LNext]_lvars

\* led_loop is joined with the central loop in bluetooth_task; its waits are timed.
LFairness == /\ SF_lvars(LReceive) /\ WF_lvars(BusyEnds /\ UNCHANGED <<usb, posts, unposted, ledLoop>>)
             /\ WF_lvars(LedSteps)

LFairSpec == LSpec /\ LFairness

------------------------------------------------------------------------------
(* Properties *)

\* The LED tells whether a note sounds, as soon as every posted state is shown: a
\* dropped state or a heartbeat spoils it only until the next one.
LedAgrees ==
  unposted = 0 =>
    /\ posts # <<>> => posts[Len(posts)] = Sounding
    /\ posts = <<>> /\ shown = "note" => led = Sounding

\* A channel filled while no keyboard was there is emptied when one is connected.
LedCatchesUp == (BtConnected /\ Len(posts) = LedCap) ~> (Len(posts) < LedCap \/ ~BtConnected)
===============================================================================
