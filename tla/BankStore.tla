------------------------------- MODULE BankStore -------------------------------
(***************************************************************************)
(* The preset bank in flash across power losses.  write_raw erases and     *)
(* programs one sector after the other, and the ROM programs a sector page *)
(* by page; the header that needs_format looks at is in the first page of  *)
(* the first sector.  A power loss (or the "restart" command, which is     *)
(* served between two sectors) may come anywhere.  `torn` is 1 when one    *)
(* has interrupted a write since the last write that was completed.        *)
(***************************************************************************)
EXTENDS Naturals

CONSTANTS
  NSectors,   \* sectors of the bank (7)
  NPages,     \* pages of a sector (16)
  MaxLosses   \* bound on the power losses

ASSUME NSectorsAssumption  == NSectors \in Nat \ {0}
ASSUME NPagesAssumption    == NPages \in Nat \ {0}
ASSUME MaxLossesAssumption == MaxLosses \in Nat

Sectors == 1..NSectors
Pages   == 1..NPages

(***************************************************************************)
(* What a page can hold: a page of the bank of an earlier firmware, of     *)
(* this firmware's factory bank, of a bank written by the editor, or       *)
(* nothing (erased, or half erased or half programmed).                    *)
(***************************************************************************)
Current  == {"factory", "edited"}
Contents == Current \union {"earlier", "blank"}

VARIABLES
  flash,      \* page contents by sector
  pc,         \* "off", or where midi_task is
  image,      \* the bank being written
  sec, page,  \* where write_raw is
  losses, torn

place == <<sec, page>>
vars  == <<flash, pc, image, place, losses, torn>>

Init == /\ \E c \in {"blank", "earlier", "factory"} : flash = [s \in Sectors |-> [p \in Pages |-> c]]
        /\ pc = "off" /\ image = "factory" /\ sec = 1 /\ page = 1
        /\ losses = 0 /\ torn = 0

\* The header carries this firmware's magic number and version.
HeaderCurrent == flash[1][1] \in Current

------------------------------------------------------------------------------
(* Mutations of the handlers below: each is a bug one of the runs must find. *)

\* Mutation: the boot never asks for a format.
BootNoFormat == /\ pc = "off" /\ pc' = "ready"
                /\ UNCHANGED <<flash, image, place, losses, torn>>

\* Mutation: the last sector is left out.
SectorDoneEarly ==
  /\ pc = "program" /\ page > NPages
  /\ IF sec + 1 < NSectors THEN pc' = "erase" /\ sec' = sec + 1 /\ page' = 1 /\ UNCHANGED torn
                           ELSE pc' = "ready" /\ torn' = 0 /\ UNCHANGED place
  /\ UNCHANGED <<flash, image, losses>>

\* Mutation: the deferred format is given up when the bank has been touched.
BootFormatOnlyBlank ==
  /\ pc = "bootwait"
  /\ IF \A s \in Sectors, p \in Pages : flash[s][p] = "blank"
       THEN pc' = "erase" /\ image' = "factory" /\ sec' = 1 /\ page' = 1
       ELSE UNCHANGED <<pc, image, place>>
  /\ UNCHANGED <<flash, losses, torn>>

------------------------------------------------------------------------------
(* The program *)

\* main: needs_format decides; midi_task formats later, when core1 runs.
Boot == /\ pc = "off"
        /\ pc' = IF HeaderCurrent THEN "ready" ELSE "bootwait"
        /\ UNCHANGED <<flash, image, place, losses, torn>>

\* write_raw begins with a bank whose magic and version are this firmware's.
Begin(i) == image' = i /\ pc' = "erase" /\ sec' = 1 /\ page' = 1

\* The deferred boot format.
BootFormat == /\ pc = "bootwait" /\ Begin("factory")
              /\ UNCHANGED <<flash, losses, torn>>

\* The "reset" command.
ResetStorage == /\ pc = "ready" /\ Begin("factory")
                /\ UNCHANGED <<flash, losses, torn>>

\* A SysEx write of full length; another magic or version is refused.
SysexWrite == /\ pc = "ready" /\ Begin("edited")
              /\ UNCHANGED <<flash, losses, torn>>

Erase == /\ pc = "erase"
         /\ flash' = [flash EXCEPT ![sec] = [p \in Pages |-> "blank"]]
         /\ pc' = "program" /\ page' = 1
         /\ UNCHANGED <<image, sec, losses, torn>>

ProgramPage == /\ pc = "program" /\ page <= NPages
               /\ flash' = [flash EXCEPT ![sec] = [@ EXCEPT ![page] = image]]
               /\ page' = page + 1
               /\ UNCHANGED <<pc, image, sec, losses, torn>>

SectorDone ==
  /\ pc = "program" /\ page > NPages
  /\ IF sec < NSectors THEN pc' = "erase" /\ sec' = sec + 1 /\ page' = 1 /\ UNCHANGED torn
                       ELSE pc' = "ready" /\ torn' = 0 /\ UNCHANGED place
  /\ UNCHANGED <<flash, image, losses>>

\* The environment.  An interrupted erase may leave some pages as they were.
PowerLoss ==
  /\ pc # "off" /\ losses < MaxLosses
  /\ pc' = "off" /\ losses' = losses + 1
  /\ IF pc = "erase"
       THEN \E gone \in SUBSET Pages :
              flash' = [flash EXCEPT ![sec] = [p \in Pages |-> IF p \in gone THEN "blank" ELSE @[p]]]
       ELSE UNCHANGED flash
  /\ torn' = IF pc \in {"erase", "program"} THEN 1 ELSE torn
  /\ UNCHANGED <<image, place>>

WriteStep == Erase \/ ProgramPage \/ SectorDone

Next == Boot \/ BootFormat \/ ResetStorage \/ SysexWrite \/ WriteStep \/ PowerLoss

Spec == Init /\ [][Next]_vars

\* Power comes back, and FlashGate shows that a started write goes on.
FairSpec == Spec /\ WF_vars(Boot) /\ WF_vars(BootFormat) /\ WF_vars(WriteStep)

------------------------------------------------------------------------------
(* Properties *)

Whole(i) == flash = [s \in Sectors |-> [p \in Pages |-> i]]

TypeOK ==
  /\ flash \in [Sectors -> [Pages -> Contents]]
  /\ pc \in {"off", "bootwait", "ready", "erase", "program"}
  /\ image \in Current /\ sec \in Sectors /\ page \in 1..(NPages + 1)
  /\ losses \in 0..MaxLosses /\ torn \in {0, 1}

\* Presets are never read through a header this firmware does not understand,
\* wherever the writes before were interrupted.
ReadyHeaderCurrent == pc = "ready" => HeaderCurrent

\* A bank that no power loss has torn is one bank from the first page to the last.
WholeUnlessTorn == pc = "ready" /\ torn = 0 => \E i \in Current : Whole(i)

\* A boot that finds no valid header ends with the whole factory bank, whatever
\* the interrupted writes left behind, once the power stays on.
StaleIsReformatted == (pc = "bootwait" /\ losses = MaxLosses) ~> Whole("factory")

\* storage.rs: on a version bump "existing devices re-format and preload the new
\* defaults on next boot".
NewDefaultsPreloaded == pc = "ready" => \A s \in Sectors, p \in Pages : flash[s][p] # "earlier"
==============================================================================
