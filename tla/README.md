# picoDSP-BLE in TLA+

picoDSP-BLE is a monophonic synthesizer firmware for the two cores of an RP2350. This
directory holds TLA+ models of the parts of it whose correctness depends on the order in which
things happen, the TLC runs that check them on small instances, and TLAPS proofs of the
properties that must hold for every size. Everything is translated from the source under
`src/src/`; paths below are relative to it.

- [The system](#the-system), [What is hard about it](#what-is-hard-about-it)
- [Modules](#modules), one section per component
- [Runs and bounds](#runs-and-bounds), [Fairness](#fairness)
- [What is proved](#what-is-proved), [What is only model-checked](#what-is-only-model-checked)
- [Where the code and its documentation differ](#where-the-code-and-its-documentation-differ)
- [Not modelled](#not-modelled), [Plan](#plan)

## The system

Core0 runs a cooperative Embassy executor; core1 runs one task, the DSP loop. They share
atomics and bounded channels, no locks.

| Component | State it keeps | Operations | Talks to | Correct when |
|---|---|---|---|---|
| Flash write and PSRAM gate (`psram.rs`, `data/storage.rs`, `common/shared.rs`) | `PSRAM_GATE_REQ`, `PSRAM_GATE_ACK`, `CORE1_RUNNING`, the CS1 controller | lock, erase, write, settle, reinit, unlock, per sector | core1's loop, `SYSTEM_STATUS_CHANNEL` | the DSP is out of the PSRAM during a sector; every write ends |
| DSP loop (`tasks/core1.rs`) | the synth, its PSRAM slices, the frame index | park, take a preset and rebuild, render, send | gate, `PRESET_CHANNEL`, `AUDIO_CHANNEL`, status channel | it never stays parked or blocked |
| I2S loop (`tasks/core0.rs` `main_task`) | two DMA buffers | start DMA, receive, tee, fill, swap | `AUDIO_CHANNEL`, `USB_AUDIO_CHANNEL` | a buffer is never filled while the DMA reads it |
| USB microphone (`tasks/core0.rs`, `usb/uac1.rs`) | block, index, `USB_AUDIO_STREAMING` | collect 48 frames, write with timeout, alternate settings, suspend, reset | `USB_AUDIO_CHANNEL`, host | frames leave in order, none twice, and a packet breaks only where a block was dropped |
| MIDI voice (`control/midi.rs` `NoteStack`, `MidiControl`, `handle_voice_message`) | held notes, deferred offs, sustain, soft pedal, gate, gate-reset pulse, frequency | note on/off, pedals, all-notes-off | core1's control readers | no note sticks, none is lost |
| Presets (`control/midi.rs`, `control/cc_map.rs`) | live slots, working preset, current index | program change, soft-pedal cycling, CC edit | `PRESET_CHANNEL`, flash | the voice is what the editor shows |
| SysEx (`control/midi.rs` `midi_task`, `handle_sysex`) | header, nibble, image, index | decode bytes, dump, write, status | USB, flash | a bank is written whole or not at all |
| Preset bank (`data/storage.rs`) | the flash image | format, header check, load, raw read and write | flash | what is read was written by this firmware |
| BLE (`bt/mod.rs`) | connection, `BT_CONNECTED` | scan, connect, pair, GATT, decode notifications | `BLE_MIDI_CHANNEL`, LED | the voice agrees with the keyboard |
| Delay line and bump allocator (`dsp/psram_delay.rs`, `psram.rs`) | ring, write index, next address | self test, alloc, reset, process | PSRAM | no index leaves a ring; an echo is of one's own past, and as old as the delay |
| Note LED (`bt/mod.rs`) | `LED_SIGNAL_CHANNEL` | post, drain, heartbeat | cyw43 | it tells whether a note sounds |
| Flash timing (`flash_diag.rs`) | CS0 divisor, RXDELAY | sweep, choose, recheck, restore | QMI | flash code never runs on a timing that does not read |
| Logger and command listener (`usb/logger.rs`, `usb/device.rs`) | log channels, line buffer | drain, parse commands | USB CDC | it always comes round to draining |
| Boot (`main.rs`) | | storage check, spawn core1, deferred format | all | |

How they meet:

- `midi_task` (core0) is the only writer of the flash and the only consumer of USB-MIDI,
  `BLE_MIDI_CHANNEL` and the storage commands. While it is inside one handler it hears nothing.
- core1 sends finished blocks over `AUDIO_CHANNEL` (4), status lines over
  `SYSTEM_STATUS_CHANNEL` (4), both with a blocking `send`, and polls `PRESET_CHANNEL` (1) once a
  block. core0 only ever uses `try_send` on the last.
- `MidiControl` is a set of atomics that `midi_task` stores and core1 loads while it renders;
  core1 stores into the same slots when it builds a voice.
- The gate is three atomics. It exists because the flash and the PSRAM share the QMI bus and
  a flash operation leaves the PSRAM's chip select unconfigured.

## What is hard about it

`PROJECT.json` lists the hazards with their lines. In short: the gate's handshake has three
flags, two cores and a loop over sectors; core1 may be blocked in a channel that only core0
drains at the moment core0 waits for it; messages are dropped by three bounded channels; two
cores store into the same live slots from different presets; a note stack of sixteen meets
pedals, re-strikes and panic messages from two sources; one release pulse has two readers on the
other core; power may go between any two pages of a bank write, and the cable between any two bytes
of a message; a USB host may close, suspend, reset or stop polling the microphone at any moment;
the flash timing is changed under the running program; a delay may be longer than its ring.

## Modules

| Module | Models | Extends |
|---|---|---|
| `PsramBus` | abstract promise about the shared bus | |
| `FlashGate` | both sides of the gate, the channels core1 blocks on | |
| `FlashGateHistory` | `FlashGate` and one history variable | `FlashGate` |
| `NoteStack` | the mono voice as `midi_task` drives it | |
| `VoicePulse` | the gate's two stores on core0 and its two readers on core1 | `NoteStack` |
| `PresetPick` | the preset's index under program changes, the soft pedal and new banks | `VoicePulse` |
| `BleLink` | BLE central loop, its channel, `midi_task`'s end of it | |
| `BlePacket` | the decoding of a notification of several messages | `BleLink` |
| `NoteLed` | the LED's channel and loop, with a USB host as a second player | `BlePacket` |
| `PresetFlow` | working preset, live slots, core1's rebuild | |
| `BankStore` | the bank in flash across power losses | |
| `EditorLink` | the editor's SysEx messages, byte by byte, over a cable that may be pulled | `BankStore` |
| `BlockPipe` | abstract promise about the way from core1 to the DAC | |
| `AudioPath` | DMA, both audio channels, the microphone task and the host | |
| `DelayLine` | PSRAM self test, allocator, rebuilds, the sample loop | |
| `Boot` | the flash timing sweep in front of them | `DelayLine` |
| `MC...` | instances for TLC | the last module of the chain |
| `SetInduction` | induction over the naturals, recursion and concatenation, as facts the proofs cite | `TLAPS` |
| `...Proofs` | theorems | the module they name (`NoteStackProofs`: `PresetPick`, `BleLinkProofs`: `NoteLed`, `BankStoreProofs`: `EditorLink`), `TLAPS` |

The definitions marked "Mutation" in a module are deliberate bugs. Each is a changed form of a
handler with which one property is violated: they show that the property can tell the code from
a wrong version of it, and no specification uses them.

### FlashGate

| Model | Code |
|---|---|
| `raised` | `PSRAM_GATE_REQ`, `PSRAM_GATE_ACK`, `CORE1_RUNNING` as a set of the flags that are true |
| `fpc` | where `midi_task` is: `bootwait` (deferred format polling `CORE1_RUNNING`), `idle`, or in `write_raw`: `lock`, `check`, `wait` are `lock_core1_off_psram`, `erase`, `program` the two flash calls, `settle`, `reinit` the two halves of `after_flash_write`, `unlock` `unlock_core1` |
| `pc1` | where `core1_task` is: four `log_*` runs of blocking status messages, the two builds, and the loop `top`, `ack`, `spin`, `unack`, `poll`, `process`, `send` |
| `psram` | CS1: `clobbered` by a flash call, `settled` after the idle millisecond, `ready` or `failed` after `reinit` |
| `audioLen`, `statusLen`, `presetLen` | fill of the channels |

Every load and every store of a flag is one step. The code's Release stores are STL
and its Acquire loads LDA on the Cortex-M33, where a later LDA is not moved before an earlier STL, so sequential consistency is the memory model of the three flags.

`Core0Yields` is the cooperative executor: `main_task` and `logger_task` run only while
`midi_task` is suspended in an await that is not ready. The flash driver is blocking, so no
task of core0 runs between `check` and the end of a sector. The gate's wait is a 50 us sleep,
which yields, and that is what makes the handshake free of deadlock.

`PsramBus` states the promise with no gate in it: a writer that waits and then is in a sector,
a DSP that is in or out, never both in. `ImplementsBus` is the refinement mapping.

The states in which core1 has not yet raised `CORE1_RUNNING` are excluded from `GateExclusion`,
because the gate does not wait for core1 there (see the findings).

### NoteStack

| Model | Code |
|---|---|
| `notes`, `pendingOff`, `sustain` | the fields of `NoteStack`; `pending_off` as a set, because its order is not used |
| `gate`, `freq` | `MidiControl`'s gate as `get_gate` reads it, and the note in `target_freq_bits` |
| `pc` | pedal up walks `pending_off`, one removal a step |
| `keys`, `unheard` | not in the code: the keys that are down by the message stream, and those the stack dropped or a panic message silenced |

A velocity-zero `NOTE_ON` is `NoteOff`. The gate is stored by `handle_voice_message` once per
message, after the stack has changed, so a handler is one step; only the pedal's release loop is
taken apart, because the voice keeps its old gate and pitch while it runs.

### VoicePulse

| Model | Code |
|---|---|
| `pulse`, `due` | `gate_reset`, and the second store of `set_gate(false)` or `reset()` that is still to come |
| `reader`, `rpc`, `seen` | core1: which envelope's `MidiGate` is at work, before its load of the gate or its swap of the pulse, and the gate it loaded |
| `owed` | not in the code: a release nobody has begun to read after (1), or that a reader has begun after (2) |

Releasing and striking again inside one block would be lost to core1, which looks at the gate
once a block; `gate_reset` is there to tell it. It is one flag with two readers, so a fast release
may be heard by one envelope only: which one is a race the code accepts. What may not happen is that
no envelope hears it, and that is `ReleaseHeard`. The two accesses of a core are taken in program
order; the code uses Relaxed atomics, which promise less than that on paper (the model stands for the
Cortex-M33, which performs a core's stores to normal memory in order).

### PresetPick

| Model | Code |
|---|---|
| `build`, `core0` | a dev build, which checks arithmetic for overflow, or a release build; whether a panic has halted core0 (`panic_halt`) |
| `numPresets` | the header's `num_presets`, read from flash on every use and never checked |
| `idx`, `pedal` | `current_preset_index`, `soft_pedal_held` |
| `at`, `from`, `reset` | not in the code: where the working preset was loaded from, and whether that bank is still there |

A program change keeps the index even if the bank has no such preset. After a bank write the index
is loaded again, after a "reset" it is not: the old preset plays on until the next pick. `PickedIsLoaded` has both
exceptions.

`load_preset` has four outcomes. An index that the header does not admit is not found; under a
header with no presets its message underflows, which halts a dev build (in `main` at boot, so `PInit` has no such
start) and wraps in a release build. An admitted index below `MAX_PRESETS` (128) is a preset of the bank; one up to
326 (`RegionRoom` - 1) lies behind the bank's last place, in the image's padding or in flash that no
write reaches; at 327 the read runs past the end of the flash and its `unwrap` halts core0, with the index
already stepped. core0 then does nothing more and core1 renders on (in the firmware, until the audio channel is full).
A program change names an index below 128 only, and an index that cannot be
read never stands while core0 runs, so of the three callers only the pedal reaches the end of
the flash; `PedalInBank` and `PickedIsLoaded` say under which headers.

### BleLink

| Model | Code |
|---|---|
| `link` | `bluetooth_task`'s loop: `scan`, `connect`, `pair`, `discover` and `play` (`run_gatt`) |
| `chan` | `BLE_MIDI_CHANNEL`; `Offer` is `try_send` |
| `mpc` | `midi_task` at its `select3`, or busy in another branch |
| `held` | the notes in the note stack, as a set; the pedals are left to `NoteStack` |
| `keys`, `lost` | not in the code: keys down by the present link's notifications, and notes whose latest message was dropped |

The panic message for a lost link is sent by the same `Offer` as a note.

### BlePacket

A byte of a notification is a member of a small set: a timestamp, the status byte of a voice
message, a system message, or data. `Packets` are the packets a keyboard may send: up to
`MaxPerPacket` messages, a strike, a release in either spelling (a note-off, or a note-on of velocity 0), a program
change or a clock, with the status byte left out where it repeats, or the timestamp too. `Parse` is the
loop of `parse_ble_midi` over the bytes, `Turn` one turn of it; a turn that breaks out of the loop moves
behind the last byte, where further turns do nothing. That note numbers are data bytes (`DataAssumption`) is
the one thing assumed of them. `Notification` replaces `KeyDown`, `KeyUp` and `OtherSaid` of
`BleLink`: the messages are offered one after the other in a function without an await, so that
those which find room are a prefix.

A system message ends the loop, so the messages behind it in the packet are lost. `KeysAgree` counts
their notes as lost, as if the channel had been full.

### NoteLed

| Model | Code |
|---|---|
| `posts` | `LED_SIGNAL_CHANNEL`; `Post` is `try_send` |
| `lpc`, `led` | `led_loop`: its check of `BT_CONNECTED`, its select, and the two halves of the heartbeat; GPIO 0 |
| `usb` | a note in `NoteStack.notes` that the USB host plays, and not the BLE keyboard |
| `shown`, `unposted` | not in the code: a posted state or the heartbeat is shown; the last post was dropped |

### PresetFlow

| Model | Code |
|---|---|
| `work` | `working_preset`, split in its continuous part (one value a slot) and its structural part |
| `live` | the parameter slots of `MidiControl` |
| `chan` | `PRESET_CHANNEL` |
| `pc1`, `building`, `toSeed1` | core1's rebuild: the blocking status messages after taking the copy (`switch`), the portamento store, then one store a slot (`seed`) |
| `mpc`, `toSeed0` | `load_and_apply_preset`, one store a slot |
| `cause`, `raced` | not in the code: why the voice may be built from another preset than the working one, and which slots were edited while an older copy had yet to be seeded |

The order in which the slots are seeded is left open, which is more than the code does.

### BankStore

| Model | Code |
|---|---|
| `flash` | contents of each page: of an earlier firmware's bank, the factory bank, an editor's bank, or nothing |
| `pc`, `sec`, `page` | `write_raw`'s loop over sectors; the ROM's programming of a sector page by page |
| `image` | the bank being written. All accepted images carry this firmware's header: `handle_sysex` refuses another |
| `losses`, `torn` | bound on the power losses, and whether one has hit a write since the last one completed |

The header that `needs_format` reads is in the first page of the first sector, which is why a
write that stops after that page is accepted by the next boot. A power loss in an erase leaves
any subset of the pages erased. The `restart` command has the same effect as a power loss between
sectors.

### EditorLink

| Model | Code |
|---|---|
| `inSysex`, `hdr`, `raw`, `hi`, `overflow` | the framing state of `midi_task`: `in_sysex`, header, image and its index, `high_nibble`, overflow flag |
| `reply` | the answer `midi_task` is sending, or `write` during `write_raw` |
| `usb`, `msg`, `pos`, `cut` | the cable, and the message the host is sending |
| `payload`, `asked` | not in the code: the nibbles since the last start byte; the answer a whole request deserves |

The messages are a dump request, a bank, banks with a nibble too few or a pair too many, a bank of another
firmware, a foreign SysEx and a truncated one. The cable may be pulled between any two bytes, and
the host may go on with any later byte of the same message or start another. The framing state
is kept over a disconnect, as in the code: only a start byte clears it. The packets of
an answer are one step, because nothing reads the framing state in between.

### AudioPath

| Model | Code |
|---|---|
| `audio`, `tee` | `AUDIO_CHANNEL`, `USB_AUDIO_CHANNEL`, as sequences of block numbers |
| `ipc`, `dma`, `front`, `back` | `main_task` at `i2s.write`, `receive`, `dma_future.await`; DMA_CH1 and the two buffers |
| `mpc`, `block`, `idx`, `packet` | `microphone_task`, its block and the packet as a sequence of frame numbers |
| `alt`, `bus`, `streaming` | the host's alternate setting, the bus, `USB_AUDIO_STREAMING` |
| `underrun` | whether this round added to `AUDIO_UNDERRUNS` |
| `played`, `dropped`, `lastSent` | not in the code |

The host may do anything at any step. `write_packet` succeeds, fails at once when the endpoint is
disabled, or times out. `BlockPipe` is the promise of the part that must not glitch: every block is
played once, in order, at most `AudioCap + 2` later; `ImplementsPipe` is the refinement. Nothing
of the microphone's side appears in it.

### DelayLine and Boot

| Model | Code |
|---|---|
| `mem` | the PSRAM region; a cell is the channel that wrote it, the build, and the number of the sample |
| `base`, `next` | `ALLOC_BASE`, `ALLOC_NEXT` |
| `cpc` | `main` at the self test; core1 at `reset_alloc`, the two allocations, its loop, or in a channel's `process` |
| `ring`, `pos`, `delay`, `left` | a line's slice and `write_ptr`; `delay_samples` and the rest of the block |
| `spc`, `timing`, `rx`, `pass` | `speed_up_flash_xip`: its phase, CS0's timing, the next candidate, the bitmap |
| `count`, `heard`, `reads` | not in the code |

Positions are in quarters of a cell and rounded as an f32 would round them, on a coarser grid: below
one cell to a quarter, above to a half. That keeps the case the second wrapping loop is for:
adding the ring's length to a position just below zero rounds up to the ring's length itself.
Whether a candidate timing reads is a free choice each time it is tried, so a sample point that
passed may fail when it is validated again.

## Runs and bounds

| Run | Instance | What it shows |
|---|---|---|
| `flash_gate` | 2 sectors, audio channel 2, status channel 4 | exclusion, no access through a clobbered controller, every write and the boot format finish, core1 is released, `PsramBus` is implemented |
| `gate_boot_window` (violation) | the same | a write before `CORE1_RUNNING` runs with core1 not parked |
| `gate_stale_ack` (violation) | the same | the next sector may start on the old acknowledgement |
| `note_stack` | 4 keys, stack of 3; banks of 3 places in a flash with room for 5, headers that claim 0, 2, 3, 4, 5 and 6 presets; both builds | no note sticks or is lost; only a key strike opens the gate; no release is lost between the cores; the working preset is the one picked; only a header that no bank can have halts the firmware |
| `ble_link` | 2 keys, channel of 2, packets of up to 2 messages, LED channel of 1 | the voice agrees with the keyboard; a lost link silences it; the LED tells whether a note sounds, and catches up |
| `ble_panic_dropped` (violation) | 1 key, channel of 2 | the panic message is dropped by a full channel |
| `preset_flow` | 2 slots, 2 values, 2 shapes | the settled voice is the working preset; every accepted copy is built |
| `preset_snap_back` (violation) | the same | an edit during a build is overwritten |
| `bank_store` | 3 sectors of 2 pages, an image of 2 bytes, 3 power losses, 2 pulled cables | only valid headers are read; an untorn bank is whole; an invalid header leads to a whole factory bank; what is written is the payload; every whole request is answered as it deserves |
| `bank_torn_format` (violation) | 2 sectors of 2 pages, 1 loss | a torn format is taken for a valid bank |
| `audio_path` | channels of 2 and 1, blocks of 8 and packets of 3 frames, 4 blocks | every block is played once and in order; underruns are counted; packets break only at dropped blocks; no frame is sent twice; neither task can be held |
| `boot` | rings of 7 cells in a region of 15, blocks of 4, 16 samples, 3 builds; 8 sample points | the timing always reads, within the limit, at the best centred point; no allocation or index fails; echoes are one's own and as old as they should be |

Why the bounds are enough:

- Two sectors are the fewest with a sector boundary, where an acknowledgement can be left over,
  and the invariant speaks of one boundary at a time. The status channel has its real size, so
  that core1's runs of 2, 6 and 5 messages overflow it as in the firmware. The audio channel
  is two for four: full, empty and in between all happen.
- Four keys on a stack of three give a full stack with one key over, in every order. The
  proofs cover any number.
- Headers that claim fewer presets than the index, none, a full bank, one preset behind the
  bank's places, all the flash has room for, and one more are all there; a program change can name a
  preset that the smaller banks do not have.
- A BLE channel of two holds the panic message of one link and a message of the next, and overflows on a
  key, on a panic message, and on the second message of a packet. A packet of two is the
  shortest in which a status byte can be left out, or a message follows a clock. An LED channel
  of one is full, and holds a stale state, as one of four does; sequences of states in it add nothing
  to a FIFO that neither side looks into.
- Two slots, one of them portamento, are the fewest with one that core1 stores twice; two presets
  that differ in both are in play at once (one queued, one being built, a third in `work`).
- Three sectors have a first (with the header), a middle and a last; two pages have the header
  and a page without. Three losses let a format be interrupted, resumed and interrupted again.

- Two bytes of image tell the order of bytes and of the nibbles of a byte; the long message has a nibble
  pair too many, the odd one a nibble too few. Two pulls splice the rest of one message to another, twice.
- Blocks of 8 and packets of 3 are the real 128 and 48 divided by 16: a packet ends inside a
  block, at its end, or spans two. Four blocks fill both channels and both buffers and leave one to come.
- A ring of 7 holds blocks of 4 unevenly, so that a block wraps inside, and 16 samples go round it
  twice. The region has one cell to spare over two rings: a third allocation without a reset fails.
  The delays are every quarter below two cells, those around the ring's length, and longer ones.
  The sweep has the real eight sample points, all 256 bitmaps arise, and the divisors include the
  field 0, which means 256.

Bounds that the code does not have: `MaxLosses` and `MaxPulls` (power losses and pulled cables),
`MaxBlocks`, `MaxBuilds` and `MaxSamples` (where the runs stop), `MaxPerPacket`. In
`StaleIsReformatted` `MaxLosses` stands for "the power stays on from now on". The proofs hold for every value.

Deadlock is checked in every run but `audio_path`, which stops after `MaxBlocks`, and `boot`, which
stops after `MaxBuilds` builds or when the self test has refused the PSRAM.

## Fairness

- `FlashGate`: weak fairness on `midi_task`'s steps inside a write, on the deferred format, on
  the two draining tasks, and on core1. The executor polls every woken task and each of the
  awaits concerned is woken by a timer, a DMA interrupt or (for the logger) a bounded USB
  write; core1 has nothing else to run. Nothing obliges a host to ask for a write or a preset.
- `BleLink`: `midi_task`'s other branches end (weak fairness on `BusyEnds`): a bank write ends
  by `FlashGate`'s `WriteCompletes`, and a dump ends as long as the host reads it, which is an
  assumption (the dump has no timeout; see the hazards). Strong fairness on `Receive`:
  `select3` polls its branches in a fixed order, the BLE branch not first, so the BLE branch wins
  because the others are not ready at every turn, not because it is fair.
- `NoteLed`: the same; and weak fairness on `led_loop`, whose waits are timed or end with a post.
- `PresetFlow`: weak fairness on core1, whose loop neither the gate (`GateReleases`) nor a full
  channel stops for good.
- `BankStore`: the power returns (weak fairness on `Boot`), and a started write goes on.
- `EditorLink`: the same; `midi_task` starts, and an answer to a dead endpoint fails. That the host reads its answers (`HostReads`)
  is not assumed but a premise of `RequestAnswered`; `CableFreesTask` does without it.
- `AudioPath`: weak fairness on `main_task` and the DMA. `EveryBlockPlayed` needs no more:
  not core1 (the property is about blocks it has sent), not the microphone, not the host. `TeeDrains`
  has weak fairness of `microphone_task` as its premise, where of a write only the timeout is sure.

`PsramBus` has strong fairness on the writer's entry, because the DSP goes in and out for ever;
`FlashGate` implements that with weak fairness only, the gate being what turns one into the other.

## What is proved

Each proof module holds for every value of the constants under the named assumptions of its
module: capacities and numbers of sectors, pages, frames and cells are positive, the PSRAM region holds two
rings, `Portamento` is one of the slots, there is at least one note in `BleLink`, and note numbers have bit 7
clear. One assumption is less plain. `ClockRangeAssumption`: the system clock is at most 255 times the
flash limit. `flash_diag.rs` clamps the divisor to the 255 that its field holds, and with a faster clock 255 would
not be enough; in the code the clock is a u32 in Hz, which is at most 43 times the limit of 100 MHz.

Every safety property that a passing run checks is a theorem too.

**SetInduction.** The library's induction theorems take an operator as a parameter, which the provers cannot
instantiate. Their consequence for *sets* has no such parameter: a set of naturals that is not empty has a least
element (`LeastOf`, from `WFMin` and the order of the naturals), so a set that has 0 and is closed
under successors has every number (`UpTo`), so a function defined by recursion over an interval exists
(`Recursion`), in particular that of the concatenations of a row of sequences (`Concatenated`, `Concatenation`). A proof by
induction names the set of the numbers for which its claim holds.

**FlashGateProofs.** `TypeCorrect`, `GateInvariant`, `Exclusion`, `RecoveryUntouched`, `RefinesBus`.
Exclusion is not inductive: that core1 does not enter the PSRAM after the request was seen
raised depends on who has seen what. `GateInv` says it: the acknowledgement is up exactly in
`spin` and `unack`; the request is up exactly from its store to the unlock; during a sector core1
is in the gate or has not announced itself; the controller is clobbered or settling only inside a
sector. The acknowledgement left over from a sector is harmless because from `unack` core1 goes
back to `top`, where it looks at the request again. `RefinesBus` maps each action to a step of
`PsramBus` or a stutter, with `GateInv` for the two entering steps; it is the safety half of
`ImplementsBus`.

**NoteStackProofs.** `TypeCorrect`, `GateCorrect`, `NothingSticks`, `NothingLost`, `PitchCorrect`,
`StackCorrect`, `StrikeOpens`. The invariant is the conjunction of the checked ones with `StackInv`, which is
needed for `NoStuckNote`: a stacked note has its key down or its release deferred, releases are
deferred only while the pedal is down, and no note is stacked twice, so that one removal removes it.
Lemmas give what removal and push do to a sequence without repetitions.

For `VoicePulse`: `StackImplemented` (every behaviour of it is one of `NoteStack`, so what is
proved of the stack holds with the cores apart) and `EveryReleaseHeard`; for `PresetPick`: `PulseImplemented` (its
behaviours are those of `VoicePulse`), `PickedCorrect` and `PedalCorrect`. `PulseInv` says why the pulse suffices:
while a release is owed, the pulse is up or about to be raised, and until it is raised the gate stays
closed; a reader that began after the release has seen the gate closed or will find the pulse.
`PickedCorrect` and `PedalCorrect` hold for every header, what it claims beyond a bank and beyond the flash included: the step that
makes them inductive is that an index below `RegionRoom` is all that ever stands while core0 runs.

**BleLinkProofs.** `TypeCorrect`, `VoiceAgrees`, `ParsedAsSaid`, `VoiceAgreesOnPackets`, `LedCorrect`. `KeysAgree` is written so as to be inductive: it
says, for a note whose latest message was accepted, what the newest queued message about it is,
and what the voice holds if there is none. `OfferAgrees` and `ReceiveAgrees` are the two lemmas.
`LedCorrect` is about `NoteLed` with the packets of `BlePacket` below it: decoding one leaves the held notes
alone, so what packets are made of does not matter; `LedInv` adds to the property that while
the loop waits inside a heartbeat, it is the heartbeat that is shown.

`VoiceAgreesOnPackets` is `KeysAgree` again where the messages come in packets of any length. What packets are made of
matters there, and is proved first, about the bytes. `PacketLayout`: the bytes of the things said lie
one behind the other. `TurnDecodes`: a turn of the loop that begins at one of them, with the status the one
before it had, makes the message that was meant and ends at the next, whichever of status and timestamp were left out;
the crux is that a data byte is never taken for a timestamp, nor the first data byte behind a timestamp for a status. `Turns` strings the
turns together, and `ParsedAsSaid` concludes: a packet is decoded to one message for each thing said, in order, up to
the first system message. From that `PacketsFaithful`: of a note that was not cut off, the last message tells what became of
the key. `TakenAgrees` is then `OfferAgrees` for a row of messages of which a prefix is taken.

**PresetFlowProofs.** `TypeCorrect`, `VoiceCorrect`. The property speaks of settled states only;
`CopyInv` extends it to all: the newest copy on its way (queued, or being built) agrees with the
working preset on every slot not raced; a slot whose seeding is outstanding will be stored from
that copy, and one whose seeding is not outstanding holds its final value.

**BankStoreProofs.** `TypeCorrect`, `HeaderUnderstood`, `BankWhole`, `StoreImplemented`, `ImageCorrect`. `WriteInv`: the sectors and pages
before the current position hold the image. `UntornInv`: outside a write, an untorn flash is
uniform. `StoreImplemented`: a step of `EditorLink` is a step of `BankStore` or leaves the bank alone, so
all of this holds with the editor attached. `ImageCorrect` rests on `Decoded`, the relation of the bytes decoded so
far to the payload so far, with or without a pending nibble, which a start byte establishes and every other
byte keeps until the image is too long.

**AudioPathProofs.** `TypeCorrect`, `GapCounted`, `Implements`, `StreamingOpen`, `NoHiddenGaps`, `HostInOrder`. The refinement of `BlockPipe` needs to know what is where:
the blocks played, in the two buffers and in the channel are consecutive up to `produced`, and while
`main_task` waits for the DMA the back buffer holds the block after the front one. From that the step that ends a DMA is a
step `Play`, or a stutter for the silence at the start.

The microphone's side needs `MicInv`: the packet's frames follow one another, and the last of them is the
one before the task's place in its block; every block between the one being cut and the newest taken by `main_task` is in
the tee, in ascending order, or was dropped. That is true only while something of the block is left or
the packet is not empty: a task that waits for the stream has thrown its block away, and what it takes next follows nothing. `lastSent` lies below
all of it.

**BootProofs.** `TypeCorrect`, `AllocationsFit`, `NoBleed`, `EchoKeepsItsDelay`, `DelayLineImplemented`, `SweepIsSafe`, `FlashWithinLimit`, `SettlesInEye`,
for every ring, region and block size and all delays. The allocator's
invariant ties `next` to the place in the build (`base`, one ring further, two), so that `RegionLen >= 2 * RingLen` is
enough for any number of builds; a lemma on remainders keeps the read position inside the
ring, with rounding; `NoBleed` follows because from the second allocation on every cell of a ring is of its channel and
the present build.

`EchoKeepsItsDelay` adds `RoundsInv`: a ring's cell p holds a sample whose number is p + 1
up to whole rounds, and nothing only as long as the write pointer has not come to it since the build. A read position is within a cell of the writer's minus the delay,
up to whole rounds (`ReadNear`: two wrapping loops, each with its rounding), and so is the age of what is read there; that
the two agree is arithmetic of remainders (`ModUnique`, `ModSplit`), which the solvers do not do by themselves.

For the sweep, `ClockInv`: a timing in force is the bootrom's or has the target divisor, and that one, a division rounded up, keeps
the limit; candidates are only tried when it is smaller than the bootrom's.
`SettlesInEye` is about the scan of the bitmap for its widest run, a recursive function over the sample points (`ScanKeeps`
is its loop invariant, `CentreOfWidest` the conclusion): no other sample point has more neighbours on both
sides that passed.

## What is only model-checked

- Liveness (`WriteCompletes`, `BootFormatDone`, `GateReleases`, `LinkLossSilences`, `LedCatchesUp`,
  `AcceptedIsBuilt`, `StaleIsReformatted`, `RequestAnswered`, `CableFreesTask`, `EveryBlockPlayed`, `TeeDrains`)
  and the fairness half of `ImplementsBus`: liveness under fairness and ENABLED are out of the prover's reach.
- The violation runs: they are counterexamples.

The type invariants of the modules other than `FlashGate` are proved and not listed in a run.

## Where the code and its documentation differ

1. **Boot window** (`gate_boot_window`, `psram.rs:129`). `lock_core1_off_psram` does not wait while
   `CORE1_RUNNING` is false. core1 raises it after eight status messages that nobody drains for
   two seconds, so a bank write in the first seconds re-initialises the PSRAM while core1 may be
   zero-filling its delay lines, against "Caller must have core1 parked".
2. **Sector boundary** (`gate_stale_ack`, `psram.rs:140`). The unlock does not wait for the
   acknowledgement to fall, so core1 may stay in one spin over several sectors, against "Releasing
   core1 between sectors returns it to a known-good thread-mode state". Exclusion is not affected.
3. **Lost link** (`ble_panic_dropped`, `bt/mod.rs:453`). The All Notes Off is dropped when sixteen
   messages wait for a busy `midi_task`, against "Silences any held notes if the BLE keyboard
   disconnects".
4. **Snap back** (`preset_snap_back`, `dsp/moog.rs:138`). A continuous edit handled while core1 is
   about to seed an older copy is overwritten in the slot, though the working preset has it.
5. **Torn format** (`bank_torn_format`, `data/storage.rs:184`). The header is programmed first, so
   an interrupted format after a version bump is accepted with earlier presets behind it.

Observations no run is about:

- a failed re-initialisation (`psram.rs:176`) is logged, and core1 is released into the
  unconfigured window; `NoTouchInRecovery` admits the state `failed` for that reason;
- a structural edit is dropped, not merged, when a copy is already queued (`midi.rs:809`): the older
  copy wins until the next one. `VoiceFollowsWork` records it as `cause = "dropped"`;
- `AUDIO_UNDERRUNS` is counted when the queue is empty although the DMA still has a whole block to
  play (`core0.rs:76-80`), so it counts more than the audible gaps that `common/shared.rs:18` speaks
  of; `GapIsCounted` shows that it never counts fewer;
- a system message in a BLE notification drops the messages behind it (`bt/mod.rs:173`), where the
  comment at `bt/mod.rs:148` says system messages "are ignored"; a keyboard that sends active sensing
  or clock in front of a note-off in one packet leaves the note on;
- the right channel's delay is 1.15 times the left one's, up to 1.15 times the ring; it then
  wraps, and the echo comes a whole ring early (`DelayKept` says "a whole number of rings less"); a
  delay below one sample hears the oldest cell of the ring;
- a delay time from an editor's image is not clamped (`psram_delay.rs:75`); one so large that adding the ring's
  length does not change it would not leave the loop. The delays of the model are bounded;
- a bootrom divisor already at or below the target is left alone, whatever the clock then is
  (`flash_diag.rs:169`): the clock limit is a limit on what the sweep does;
- a suspended bus clears `USB_AUDIO_STREAMING`, and a resume does not raise it (`uac1.rs:78`): the
  stream is silent until the host selects its alternate setting again;
- a SysEx header takes any four bytes, an end byte too (`midi.rs:955`), so a truncated message swallows what comes
  until the next start byte; `RequestAnswered` shows that the next whole request is not among it;
- with fewer than five presets in the bank the working preset is the default one
  (`midi.rs:867`) and the voice is another (`cause = "short_bank"`).

## Not modelled

- The signal processing (`dsp/moog.rs` and the vendored `infinitedsp-core`): sequential
  floating-point code. Only its readings of the controls matter here, and these are in
  `PresetFlow` and `VoicePulse`.
- Vendored `cyw43` and TrouBLE: used through the events and calls that `BleLink` names.
- Register, clock and pin set-up in `main.rs` and `psram.rs`; USB descriptors, command parsing and
  formatting in `usb/`; `tools/midictl` (host-side, sequential); factory preset data.
- Left out of a modelled component: velocity and pitch bend (one store each) in `NoteStack`; parameter
  values in `PresetFlow`; the decoding of a preset's bytes in `BankStore`; feedback and mix in
  `DelayLine`; the samples in `AudioPath`.
- Delays that an f32 cannot wrap, and negative or infinite ones: the model's are bounded.

## Plan

1. What the refinements say of the properties: `KeysAgree` and `NoStuckNote` composed, so that a keyboard on the link leaves no
   note in the stack of `NoteStack`, where `BleLink` has a set.
2. The command listener's line buffer, and the log channels, whose counts may be lost when `LOG_CHANNEL` is full
   (`tasks/core1.rs`).
3. The hazards without a property: a failed re-initialisation of the PSRAM, a suspension that is resumed.
4. The settings a preset's bytes decode to, with the enumerations that a foreign byte falls back from.
