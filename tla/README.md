# Formal models of the RT-950 Pro firmware

TLA+ modules for the firmware's own logic, TLC configurations that check them
on small instances, and TLAPS proofs of what matters most for every instance.
Paths are relative to the repository root.

## 1. The system

Bare-metal C on one core. `main` initialises the hardware and the
applications, registers eleven tasks and enters `sched_run`, which never
returns. Tasks run to completion; the only concurrency is interrupts (SysTick,
UART, DMA) between any two instructions, the outside (user, RF, PC), and the
power supply. State that outlives power is in a serial NOR flash.

    keys, knob, PTT --> task_keypad, task_encoder, task_buttons
                          |  event_post
                          v
                     event queue --> task_ui --> channel --> VFO --> BK4829
    radio_handle_key / encoder --> menu, entry, FM, scanner, VFO, PTT
    settings, VFO, FM state --> wl_write / wl_read --> spi_flash --> NOR flash
    PC --> UART4 --> CPS parser, update listener, Bluetooth relay

`radio_handle_key`, `radio_handle_encoder`, `radio_tot_poll`, `scanner_poll`,
`vox_poll`, `crossband_poll`, `bt_poll`, `aprs_poll`, and the whole of
`noaa.c` and `spectrum.c`, have complete implementations and a calling contract
in their headers, but nothing calls them yet. The models of those follow the
contract (for instance `radio.h`: "Call at 1 Hz - enforces TX time-out timer").

### Components

| Component | Source | State | Operations and partners | What is hard | What makes it correct |
|---|---|---|---|---|---|
| Flash store | `drivers/flash_wearleveling.c` | bitmaps, markers and records in flash | `wl_read`, `wl_write`; called by settings, VFO, FM; calls `spi.c` | supply failing inside a sequence of commands; full sectors; a slot across a sector boundary | the record last written is found; an outage costs the write in progress only; nothing stale comes back |
| SPI flash | `drivers/spi.c` | - | erase, read, page program | programming only clears bits | - |
| Settings | `app/settings.c` | `settings` in RAM | boot, get, set and save, reset | RAM and flash in step over outages | a reboot restores what was saved |
| Event queue | `kernel/event.c` | ring, `head`, `tail`, `overflow_count` | post, poll, flush | a post inside a poll; a full ring | FIFO, oldest dropped, losses counted |
| Scheduler | `kernel/scheduler.c`, `system.c` | `last_tick` of each task, `systick_ms` | register, run; SysTick | counter wrap, long passes | no task starves |
| Main loop | `main.c` | `prev_ptt`, `ui_current_ch` | input tasks, `task_ui` | queue capacity against call rates | no event lost, every detent counts |
| VFO | `app/vfo.c` | `vfo_states`, `active_vfo` | step, set, reverse, toggle, offset, save/load | edges of bands; A and C share a chip | chip and state agree |
| Radio | `app/radio.c` | `transmitting`, `tot_seconds`, relays | PTT, time-out, dual watch, key and knob dispatch | four more owners of PTT, key sequences across modes while on the air, relay pins and REG_30 that `audio.c`, `vox.c` and `power.c` write too | relays, flag and chips agree; only checked frequencies; transmissions end |
| Scanner | `app/scanner.c` | mode, direction, counters, channel, range | start, stop, settings, poll | stale counters, a channel that cannot be loaded | stops only on what it heard after settling; shows the channel it hears |
| Channels | `app/channel.c`, `drivers/flash_layout.c` | 990 records in flash | load, save, delete, rename, to and from a VFO, find next | sector read-erase-write over an outage | other channels survive a save; a VFO comes back from its channel |
| Menu | `app/menu.c` | category, item, value being edited | keys, knob, save | a value in four places: screen, setting, the module's copy, flash | what is saved is what was shown |
| Panels | `app/text_input.c`, `freq_entry.c`, `zone_browser.c`, `dtmf_contacts.c` | text and cursor, digits, selection and window | keys, knob, time-out of a tap | full buffer, pending letter, deleted entries | no write outside the buffer, selection stays in the window |
| Keypad, encoder | `app/keypad.c`, `encoder.c` | debounce counters, quadrature phase | poll | bounce, two keys, missed phases | presses pair with releases; no phantom step |
| Power | `app/power.c`, `drivers/adc.c` | hold count, idle timers, backlight, latch | poll, button, off, sleep, wake-up | the switch moves between latch, arming and sleep | off only when asked; can be woken |
| Audio | `app/audio.c`, `drivers/dac_audio.c` | tone deadline, sequence, amplifier path | beep, sequence, poll | deadline at the tick wrap, a tone over a sequence | the radio gets speaker and receivers back |
| UART, DMA | `drivers/uart.c`, `dma.c` | rings | interrupt in, poll out | single producer and consumer | bytes in order |
| CPS | `app/cps.c` | frame buffer, session, mute | handshake, parser, read, write | framing, lost bytes, no time-out | no whole frame is lost behind rubbish |
| Update | `app/update_listener.c`, `updater.c`, `tools/firmware_upload.py` | matcher; `img`, `img_blocks`; the host's block and attempt | handshake in the interrupt, frame loop, flash pass | lost and repeated frames, a host that goes away | starts when asked, installs all or nothing, ends |
| Bluetooth | `app/bluetooth.c` | handshake count, relay, idle count | poll, relay | splice of buffer and ring | the relay passes on every byte in order |
| VOX, cross-band | `app/vox.c`, `crossband.c` | `vox_tx_active`, hang start; `relaying`, hang, seconds | poll, PTT | further owners of PTT, refusals | who keyed still holds it and lets go |
| APRS | `app/aprs.c` | config, state, beacon timer, frame | save, send, poll, receive | FIFO words, odd lengths, PTT of the user | a receiver decodes what was sent, near enough; beacons keep time |
| Dual watch, DTMF | `app/radio.c`, `dtmf.c` | focus, hold; digits | poll | VFO or setting changed in a hold | focus follows the signal |
| GPS | `app/gps.c` | ring, line, fix | interrupt, poll, parser | bytes lost in the middle of a line; sentences without a fix, empty fields | with no byte lost, a sentence is one that was sent; the fix is what was said last |
| Broadcast | `app/fm_radio.c`, `am_radio.c`, `noaa.c`, `drivers/si4732.c` | each its band, filter, mode; the one chip | enter, exit, tune, seek, presets, alert | refused and late commands; three clients of one chip, which may wait for a patch | what is shown is what the chip was told |
| Spectrum | `app/spectrum.c` | span, step, centre, marker, bins, peaks | enter, keys, knob, sweep, exit | clamping of span, step and centre | a bar stands where it was read; sweep in range |
| Display, LCD | `app/display.c`, `drivers/lcd.c`, fonts | - | draw | output only | - |
| Start-up, GPIO, timers, debug, tests | `startup.c`, `drivers/gpio.c`, ... | - | - | hardware | - |

`PROJECT.json` lists each of these with its status and the reason when it is
not modelled, and under `hazards` what is hard to test, line by line.

## 2. Modules

### Flash store

`NorFlash` sees a cell as its set of programmed bits: erased is `{}`, a
program is a union, a torn program leaves any set in between.

`BitmapSector` is `bitmap_read`/`bitmap_write` with one action per flash
command: `BeginWrite` (scan and branch), `WriteData`, `ClearBit`, and for a
full sector `EraseSector`, `WriteSlot0`. `PowerLoss` stops before or inside the
pending command. Clearing the bitmap bit is one bit, hence atomic; a torn
erase leaves any bitmap and, in each slot, one of `TornSlots`. A record is a
set of programmed bits. The history variable `harm` remembers what has gone
wrong: an outage, an outage in a renewal, a record mixed with remnants. `Init`
is a blank sector.

`RecordStore` is the abstract specification: a register `val` with `room`
writes left, that is exact until the first outage, and says what an outage may
cost. `ImplementsStore` maps the sector to it (`val <- Read`, `room` from the
first free slot, `ahead` from what lies in the later slots).

`Settings` EXTENDS `BitmapSector` with `settings.c`: the RAM record, boot with
the check for an erased record, save. The processor is off between
`SettingsOutage` and `SettingsBoot`. Boot does not write: in the branch that
does, `wl_read` would have failed, and `bitmap_read` returns 0 always.

`MarkerSector` is the marker format (`WL_CHCFG`): `Wipe` (no valid record),
`WrapAround` (past the last slot), `Kill`, `WriteMark`, `WriteBody`,
`MidErase`. `Straddler` is the slot that crosses the sector boundary (39 with
79 slots of 103 bytes), `MidPoint` the slot whose replacement triggers the
erase of the first sector (41). `TornCommand` interrupts each command.
No caller writes `WL_CHCFG` today.

### Kernel and main loop

`EventQueue` is `event.c`. `event_post` is one action, `event_poll` four
(`PollTest`, `PollCopy`, `PollLoad`, `PollStore`), so that a post made by an
interrupt can fall between the load and the store of `tail`. `PostInIsr` says
whether it may: today only tasks post. `EventFifo` is the abstract queue, with
the mapping `ImplementsFifo`.

`Scheduler` is the loop of `sched_run`: `StartPass` samples the tick, `Skip`
and `Call` go through the table in order, `Tick` is SysTick. The tick counter
has width `TickMod` and wraps. `Watched` is any one task, whose calls are timed
by the history variable `age`. `MainLoop` EXTENDS it: `Call` of each input task
posts to an `EventFifo`, `task_ui` is `UiEnter`, `UiEvent` until the queue is
empty, `UiReturn`; `ui_commit_channel` selects and loads a channel. `wanted` is
a history variable: where the detents posted so far lead.

### Radio

`Vfo` is VFOs A and B with the BK4829 of each: its frequency, and its mode as
REG_30 says it: stand-by, receive, transmit, or the transmit mode of `vox.c`.
Every retune ends with the receiver enabled, as `bk4829_set_frequency` does.
Frequencies are multiples of one step and the offset is a nonzero constant; an
offset of 0 Hz behaves as direction 0. C is never enabled. The history
`strayed` has the VFOs whose offset was removed while they were on the air.

`Radio` EXTENDS it with `radio.c` and with everybody else who keys the
transmitter or writes the relay pins and REG_30, because these are shared:

- `radio_ptt_on` and `radio_ptt_off`, with the pins that are LOW after
  `relay_select` (`low`), for each of their callers: the PTT key where the
  focus lets it through, `VoxPoll`, `RelayStarts` and `RelayEnds`, `AprsSends`
  and `AprsSent`, `TotPoll`. All but the key call them in any focus.
- `VoxPoll` writes REG_30 of chip 1 whatever `radio_ptt_on` did.
- `Tone` and `ToneEnds` are the relays and the transceivers in
  `audio_path_enable` and `audio_path_disable`; tones sound on the air, too.
  `toned` notes that `audio.c` wrote the pins last. `power_off` takes four pins
  LOW and the radio stops.
- `aprs_send_position` does not return before the frame is out; meanwhile
  (`sending`) nothing else runs.
- `radio_handle_key/encoder` by the module that has the `focus`. A key the
  focused module takes is `KeyElsewhere`. The menu, the entry, the FM radio and
  the scanner appear through what they do to VFOs and focus; each is entered
  only while none other is active. `ChannelCommit` is the knob's channel change
  of `main.c`, `ScannerPoll` a scan step.

The squelch that may refuse a transmission, what VOX and the relay hear, and
how long a tone lasts are nondeterministic here; `PttClients` has the hang
times and time limits, `Audio` the deadlines.

### The other parts

`Device` is sixteen views of the radio side by side, each of one part through
all of its behaviours. The modules have no variable in common, so a behaviour
follows one view, chosen by `unit` in the first state, and leaves the others as
they start. The code has more in common than the views: the relay pins, REG_30
and the PTT of the transceivers are shared by six parts, and `Radio` composes
these; the event queue and the scheduler are composed in `MainLoop`. A view
gives what a neighbour does to it as an input that may come at any time: the
user's PTT in `Aprs`, a refusal in `PttClients`, the end of a transmission in
`VfoTones`. What one view shows of its part is not shown of two at a time.

- `Keypad`: one poll with any set of keys down. `keypad_scan` finds the key:
  side buttons first, then the column no pin drives, then the driven ones;
  then debounce, `Accept`, repeat. The history `pressed` is what the reports
  so far say is down.
- `Encoder`: the shaft turns by a step at any time and its contacts bounce; the
  poll debounces, looks the transition up and accumulates to a detent.
  `outran` notes that it moved two steps between polls.
- `Audio`: `tone_start`, `seq_start`, `audio_poll`, the tick and its wrap. Who
  has the amplifier (`path`) and what the receivers do.
- `Power`: the switch and its long press, the idle timers, then step by step
  what follows `power_off`: latch, wake-up interrupt, WFI, reset - with the
  switch moving in between, and a supply that collapses or does not.
- `PttClients`: PTT key, VOX, cross-band relay and time-out over
  `radio_ptt_on/off`, which may refuse. `owner` is who keyed the transmission.
- `ChannelStore`: `channel_save`, `channel_delete` and the renaming as one read,
  `Erase` and a `WritePage` per page, with `Outage` at each; the codec of a
  record (BCD, tones, clamps) and the exchange with a VFO as operators.
- `VfoTones`: what a VFO has besides its frequency, what of it each transceiver
  is programmed with, and what `vfo_load_state` makes of a record, the active
  VFO included. The Monitor key opens the squelch of a chip behind its VFO's
  back, the end of a transmission may leave it without its tone. The CTCSS and
  DCS words are those of the source's tables.
- `Scanner`: start, stop, settings and the poll with settling, squelch debounce,
  hold-off and resume. `open_run` counts the reads since the last retune.
- `Spectrum`: entry, keys, knob and one sweep per poll; a bin remembers the
  frequency it was read at.
- `DualWatch`: `radio_dual_watch_poll` with its hold, and the DTMF decoder,
  which listens on the VFO in focus.
- `Menu`: categories, list, edit and save of every item; one field is watched,
  from its raw bytes to the text on the screen and back into the setting, the
  module's copy and the flash.
- `Panels`: name editor with its multi-tap keys, frequency entry, zone browser
  and contact list.
- `Serial`: for one port at a time, the peer's messages, noise and losses, the
  interrupt that fills the ring, and the reader: `cps_poll` with the frame
  parser, the GPS line assembler, or the Bluetooth relay. A byte carries as
  history the message it is a part of. The peer keeps to `CPS_PACKET_SIZE`.
- `Gps`: what `process_nmea` makes of a whole sentence: time, angles in degrees
  and minutes, altitude and quality, from GGA and RMC, with fields empty or not.
- `Broadcast`: FM, AM and weather receiver over the one SI4732; every command
  of a handler may be refused or obeyed late. Which handler may be called
  follows `radio.c` and the headers. Every power-up asks for a boot from a
  patch and none is ever sent; `part` says whether the chip then waits for ever,
  as `si4732.h` has it, and is never clear to send (`Waits`), or boots. `chip`
  is what it was told. A weather channel goes out as the low 16 bits of its kHz.
- `Aprs`: configuration, beacon timer, the AX.25 frame with its Mic-E position
  (a position heard is one number, degrees times 100000, into which degrees,
  minutes and hundredths are added with their carries), the FIFO the frame goes
  through with the time it is emptied and refilled in, and a receiver of the
  same kind. `period` is the number of polls from one beacon to the next.

### Firmware update

`UpdateListener` is the matcher that the UART4 interrupt feeds; bytes are model
values. The last byte of `UPDATE` starts the updater inside the interrupt, from
which it never returns: `radio` goes from `app` to `updater`.

`Updater` EXTENDS it with the loop of `updater.c`, one action per frame:
`Command`, `KeyBlock`, `DataBlock`, `End` for a frame that arrives whole,
`RecvDamaged` and `RecvRest` for one that does not, `IdleTimeout`, and the
flash pass block by block (`FlashBlock`, `FlashFails`, `FlashDone`). A block is
its number in the file; `img` and `flash` are what each slot of 1 KB holds. The
CRC is taken to find every damaged frame. What a damaged frame does depends on
the byte: it is ignored, refused, refused and searched for another header, or
waited for until the loop gives up and resets.

`Upload` composes it with `tools/firmware_upload.py`: the words byte by byte,
the probe, then `SendCommand` and `ReadReply`, whose three cases are `Prelude`
(version, model and count), `SendData` with its retries, and `Finalize`. Frames
and replies get lost or damaged. `Latency` says whether a reply may arrive
after the host has dropped its input for the next attempt.

## 3. Runs

| Run | Configuration | Instance | Shows |
|---|---|---|---|
| settings | `MCSettings.cfg` | 4 slots, 2 records of 3 bits | type; RAM agrees with flash; the sector is a `RecordStore`; a reboot restores |
| settings_mixed | `MCSettingsMixed.cfg` | the same | violated: a completed write need not read back after an earlier outage |
| marker_sector | `MCMarkerSector.cfg` | 5 slots, straddler 1, middle 2, 2 records | at most one valid marker; completed writes read back; nothing stale; the middle erase spares the new record |
| event_queue | `MCEventQueue.cfg` | ring of 4, 3 events, 8 posts | accounting; implements the FIFO |
| event_queue_isr | `MCEventQueueIsr.cfg` | the same, posts from interrupts | violated: a post inside a poll makes the queue vanish |
| main_loop | `MCMainLoop.cfg` | 5 tasks, tick of width 9, queue of 6, 3 channels | call times; no overflow; knob followed; queue drained |
| radio | `MCRadio.cfg` | 3 frequencies, 2 bands with a gap, time-out of 2 polls | PA gate, carriers and receivers agree with the flag, whoever keys or writes the pins; transmissions end |
| radio_on_air | `MCRadioOnAir.cfg` | the same | violated: knob or long press on the air drops the carrier, not the flag |
| radio_offset | `MCRadioOffset.cfg` | the same | violated: an offset removed during a VOX transmission leaves the receiver on the transmit frequency |
| update | `MCUpload.cfg` | files of 1 to 5 blocks, 3 slots, 3 attempts | handshake lands; blocks in place; all or nothing; the updater ends |
| update_reported | `MCUploadReported.cfg` | the same | violated: success is announced, the old firmware runs |
| device | `MCDevice.cfg` | each of the sixteen views, below | per part what makes it correct, in the table below; 1.56 million states |

The run `device` asks one question per part:

| Property | Of | Says |
|---|---|---|
| `DeviceTypeOK` | all | types, buffer positions and counters |
| `InputsMatchHands` | Keypad, Encoder | presses are released, in order, also with two keys; detents and fraction add up to the shaft |
| `RadioGetsSpeakerBack` | Audio | speaker and receivers are the radio's exactly while no tone plays; a step ends on time, unless at the wrap |
| `OffOnlyWhenAsked` | Power | off only by switch or idle time; dark when off; a switch turned on while asleep has its wake-up pending |
| `TransmitterIsHeld` | PttClients | whoever keyed still holds PTT, within hang time and limit; chip 1 never stays in transmission unnoticed |
| `ChannelsSurvive` | ChannelStore | only pages not yet rewritten of one sector are lost; a VFO survives its channel; the searches find the nearest |
| `ChipFollowsVfo` | VfoTones | squelch (but for one the Monitor key opened) and scrambler of a chip are its VFO's; no VFO sends a tone it does not ask for, one that another VFO or setting left behind |
| `SearchShowsWhatItHears` | Scanner, Spectrum | stops only on what it heard after settling; shows the channel it hears, unless that one could not be loaded; bars stand where they were read |
| `FocusFollowsSignal` | DualWatch | the focus is away only within a hold, and in a hold it is not at home |
| `PanelsShowWhatIsKept` | Menu, Panels | a saved item reads back as shown; cursor, window and digits keep their bounds |
| `LinksCarryWhatWasSent` | Serial, Gps | a whole frame is never thrown away; with no byte lost a sentence is one that was sent; the relay loses nothing of what the ring held; the fix is what the receiver said last |
| `ReceiversAgreeWithChip` | Broadcast | while no command fails and no receiver starts over another, the chip was told what is shown: function, frequency, mode and filter, through every power cycle; the signal shown is that frequency's, if the part ever answers; one alert per signal |
| `BeaconsAreHeard` | Aprs | the FIFO is fed whole, started once, and never runs dry on the air; a receiver decodes call, path, message and altitude, the latitude within nine minutes and, where its digits are in step, the longitude within two thirds of one; a beacon is tried once in interval + 1 polls |

It checks no deadlock: an inactive spectrum, a part whose bound on messages or
calls is used up, and a radio whose supply is gone do stop.

### Bounds

- `MaxSlots` 4 and 5: every branch (first slot, middle, last, wrap) and two
  full rounds of writes occur; the records differ in a bit each way, so that a
  mixture differs from both. In `MCSettings` bit 1 is the bit `settings_init`
  looks at.
- `TornSlots` in `MCSettings`: blank, the checked bit alone, everything. A torn
  erase leaves any combination of these and any bitmap.
- `Straddler` 1, `MidPoint` 2: as in the source the middle erase comes after
  the straddling slot is left and the wrap after the middle.
- `Size` 4: three events fit, and `MaxPosts` 8 posts go round the ring twice
  and overflow. `MaxPosts` is the one guard added to `Post`.
- `Interval` in `MCMainLoop`: encoder, keypad, buttons, display (for the tasks
  without a part in the queue) and ui in units of 5 ms, the display's 33 ms
  rounded to 20. `MaxPass` 2: a pass may take up to two ticks, in the guard of
  `Tick`. `TickMod` 9 exceeds the longest interval plus two passes by one, so
  the counter wraps often. `QueueCapacity` 6 is what `QueueAssumption` asks for
  this table. The source's table asks for 3 + 2 + 2 and its queue holds 63.
  `ChannelCount` 3, all stored.
- `MinFreq`/`MaxFreq` bound tuning: a step or reverse that leaves them is not
  explored. Three frequencies 2 to 4: two bands of one step each and the gap
  between them, which is not calibrated, nor is what lies outside; an offset of
  one step leads from each band into the gap and out of the plan, and a VFO
  reversed into the gap transmits back in a band; two submodes.
  The menu, an entry into the gap (which is clamped) and the channels move the
  VFOs about.
- `TotLimit` 2 polls for 30 to 240: one that counts and one that cuts off.
- `ImgMax` 3, `MaxBlocks` 5: the largest file has one block more than fits, and
  the flash pass crosses a sector of two blocks. 3 attempts for 5: a first, a
  middle and a last one. `Noise` holds every byte of the two words and another.
  `Latency` is FALSE: the host reads the reply to a frame before it sends the
  next one. With TRUE, `OnlyWholeImages` is violated: see the deviations.
- `MCDevice`: the counts of polls (debounce, hold, hang, idle) are 2 to 5, and
  behaviours are long enough to run past each; the ticks of `Audio`,
  `PttClients` and `DualWatch` have widths 16, 6 and 4, so that every deadline
  falls across the wrap. `Turns` 5: the shaft goes round the quadrature cycle
  each way. The five keys have the undriven column, two in one column and two in
  one row. `VoxPollGap`, `PollGap` 1 and 2: polls up to as many ticks apart.
- `ChannelCount` 3 with a page of 1 and sectors of 2: a sector with a page
  before and after the one that changes, and another sector. `Records`: a tone
  index beyond its table, and one with invalid step, squelch and power and a DCS
  code. `CtcssTones` and `DcsCodes` are the source's tables whole.
- The scanner's band has 4 steps with a range of 2 inside; memory scans over
  no, one and two channels, one of which cannot be loaded. Spectrum: 2 bins, a
  span that doubles and halves against both limits, a step larger than a bin.
- `Watchable`, `RawValues`: fields that survive a visit, and fields that lose
  it (a step of 15 kHz, an offset of 76.8 MHz); `Visited` are the categories
  entered. `TextMax` 3 letters, two keys; 5 contacts of which 2 are stored and
  3 rows are visible.
- `RingSize` 4 is smaller than a message, so a slow reader loses bytes;
  `BufSize` 7 is smaller than two, `PacketSize` is 2; `MaxMessages`, `MaxNoise`,
  `MaxLost` 2, 2, 1.
- `GpsPlaces`, `GpsClocks`: the four quarters of the globe, full degrees and
  single minutes, below the sea, midnight and the last second of a minute.
- `MaxCalls` 5 calls of broadcast handlers, `Call` being the one guard; this
  reaches a second receiver entered over the first, with a failed command
  before. `MaxSent` 2 beacons, so the second meets what the first left;
  `FifoWords` 7 is the source's and makes a frame need several loads; positions and
  paths at the edges of the Mic-E digits, among them 99 degrees 59.99 minutes,
  whose fraction carries into the degrees.

### Fairness

`MainLoop`: weak fairness of `Pass`, because the loop never sleeps and waits for
nothing, and of `SysTick`, because the hardware counts whatever runs. A hang of
a driver is outside the model. `Radio`: weak fairness of `TotPoll`, because
`radio.h` asks for a call once a second, and of `AprsSent`, because
`aprs_send_position` bounds each of its waits; no key or release is assumed
to come, nor a poll of VOX or of the relay. The time-out must be set: with `tot`
0 a transmission whose release was swallowed lasts until the next press and
release. `Upload`: weak fairness of the radio, whose loop bounds each of its
waits; none of the host, which may go away at any time. `Device`: none; its
properties are invariants, and "lets go in time" is stated with a history count
of polls or ticks.

### Deviations found

1. A settings save after an outage inside an earlier save programs over its
   remnants and reports success (`flash_wearleveling.c:182`).
2. `event_post` is not safe in an interrupt handler (`event.c:50`), contrary to
   `event.h:71`. Today nothing posts from one.
3. The knob and a reverse on a long press act during a transmission and switch
   the chip to receive (`radio.c:815`, `643`); PA gate and flag stay.
4. `radio_ptt_off` undoes the offset there is then (`radio.c:519`): VOX keys the
   transmitter with the menu open, the menu removes the offset, and when VOX
   lets go the receiver stays on the transmit frequency.
5. `firmware_upload.py` takes any answer to END for success (line 580): when
   END arrives damaged, it announces the new firmware and the old one runs.

Each of the following is what a comment or header says of the code, stated at
the end of its module. No run is devoted to them, because they fail within a few
steps of one part: as the one invariant of the module's configuration TLC finds
each violated.

| Definition | Of | The code |
|---|---|---|
| `SelectedIsTuned` | MainLoop | `ui_commit_channel` loads `ch_num - 1`, but `channel_find_next` already counts from 0 (`main.c:1037`): VFO A holds the channel before the one selected |
| `GateHighInReception` | Radio | `audio.c:76, 86` and `power.c:348` clear PE14 as "off", `radio.c:27` and `322` have the relays active LOW: after a tone the gate is left LOW in reception until `radio.c` switches the relays again |
| `NothingSentUncalibrated` | Radio | `vox.c:153` writes a transmit mode to chip 1 also when `radio_ptt_on` has refused the frequency (`radio.c:420`), or has keyed the other chip |
| `NoPartIsLeftWaiting` | Broadcast | `si4732.h:74-76` says the driver does not ask for a boot from a patch, which would leave the part waiting for ever; `si4732.c:278` sends bit 5, which line 78 names PATCH, in every power-up (lines 80-86 know an OEM that does; the chip of the model is of either kind) |
| `WeatherChannelIsTuned` | Broadcast | `si4732.c:404-406` says 162400 kHz fits 16 bits; line 417 sends 31328 |
| `LoadsFit` | Aprs | `aprs.c:250` waits 84 ms for FIFO space, while the bytes just loaded take 93.8 ms at the rate line 248 gives |
| `LongitudeComesBack` | Aprs | the encoder sends the fraction of the minutes times 100/60 (`aprs.c:326`), the decoder adds it up as hundredths (`aprs.c:598-600`): 99 degrees 59.99 minutes come back as 100.01 degrees |
| `BeaconEveryInterval` | Aprs | `aprs.c:890` counts down to zero and sends in the poll after: interval + 1 polls, where `aprs.h:132` has 30 s, 1 min and so on |

One more needs a slow line and is therefore no run: replies carry no block
number, and `updater.c` never compares the package count with what it got. Let
the rest of a damaged block be refused a second time after the host has dropped
its input for the retry. From then on each reply is taken for that of the next
frame, and a block that is damaged counts as delivered. `MCUpload.cfg` with
`Latency = TRUE` shows a gap in the flashed image.

The models follow the code also where it differs from what a user would expect
and nothing is written down. Each can be seen in the module named.

- `Power`: a switch turned on between the release of the latch and the arming
  of the wake-up leaves the radio asleep with the switch on. The pending
  interrupt is never cleared, so WFI may fall through. The auto-off time is set
  only by the menu, not at boot (`menu.c:205`).
- `PttClients`: `vox_tx_active` survives the time-out and a refusal, so the end
  of the hang time can end a manual transmission; `relaying` likewise. The
  relay's limit counts only polls with a carrier.
- `Radio`: a tone on the air puts both chips in stand-by and the flag stays; its
  end switches both to receive. A reverse swaps the two frequencies, so
  the transmit frequency is not preserved, as `vfo.c:655-656` says it is.
- `VfoTones`: the squelch that the Monitor key opens (`radio.c:639`) stays open
  until the VFO is applied again; `offset_dir` 3 to 255 passes `vfo_load_state`,
  and so does a tone index beyond its table, which changes nothing in the chip:
  it may keep the tone it had, the exception in `ChipFollowsVfo`; clearing one
  tone clears all; the tail tone leaves the next transmission without its tone.
- `ChannelStore`: power 3 and squelch 10 to 15 are clamped only after a reboot.
- `Scanner`: `channel_load`'s result is ignored (`scanner.c:235`), so a channel
  that cannot be loaded is shown while the one before is heard, the exception in
  `SearchShowsWhatItHears`; the memory scan does not tune its first channel.
- `DualWatch`: a hold is not cleared when the setting or the active VFO
  changes.
- `Spectrum`: the centre is clamped by the span alone, so a step wider than a
  bin sweeps beyond 1300 MHz; a frozen display's marker moves over old readings;
  the exit leaves both transceivers off, unlike `spectrum.h:72`.
- `Menu`: a step of 100 kHz is refused by the VFO; steps of 15, 20 and 30 kHz
  show as another; the offset is cut to 100 kHz and a byte (`menu.c:243`); both
  DCS items edit one field; a factory reset leaves the copies as they were; the
  APRS symbol is never written to flash.
- `Panels`: an insertion in the middle cuts the text; `*` with a letter pending
  deletes the one before it; `#` confirms a frequency only from six digits on.
- `Serial`: a frame announced longer than the buffer wedges the parser, muted,
  for there is no time-out; five handshake bytes count however far apart; what
  the Bluetooth relay sends goes to UART4's transmitter and never reaches
  `cps_poll`, and `relay_poll` takes bytes of UART4 that `cps_poll` waits for
  (`bluetooth.c:217`; `bt_poll` has no caller); `gps.c` checks no sum. A frame
  may announce up to eight bytes more than `payload` holds and still fit
  `rx_buf`: `cps.c:119` copies them past its end. What that does is undefined,
  and `SerialAssumption` leaves such frames out.
- `Broadcast`: without `fm_radio_init` the first entry tunes to 0 and presets
  are never restored; a receiver may start over another, and each exit powers
  the chip down under the other; an alert probe never restores the receiver;
  results of power-up and tune are ignored, but for the weather's power-up; the
  SSB patch is never uploaded (`si4732.c:535-542`), so in SSB mode and BFO are set
  in a chip that knows neither.
- `Aprs`: a frame of odd length cannot be decoded by the same firmware; a custom
  path with no digipeater marks no last address; the ones of the latitude's
  minutes are lost and the hundred of the longitude is taken from its fraction;
  the frame always goes to chip 0, while the PTT keys the chip of the active VFO;
  a refused PTT is ignored, and the end of a beacon ends the user's
  transmission; no beacon goes out while the receiver listens.
- Flash addresses: APRS 0xFFFF to 0x1007F overlaps SYSCFG, SI4732's 0xB000 is
  EXTCFG, zone names at 0xC000 are the DTMF configuration. The models give each
  its own place.

## 4. Proofs

| Module | Theorems | Inductive invariant |
|---|---|---|
| `SettingsProofs` | `TypeCorrect`, `Implements` of the sector; `SettingsTypeCorrect`, `SettingsInRamMatchFlash`, `SettingsSurviveOutage` | `TypeOK`; the bitmap is a prefix and what lies ahead is blank, or an outage is on record; the pending command fits the bitmap; RAM equals the record being written, or the one read |
| `EventQueueProofs` | `TypeCorrect`, `Accounted`, `Implements` | `TypeOK`; the balance of the counters; what each step of a poll has loaded is still current |
| `MarkerSectorProofs` | `TypeCorrect`, `NeverAmbiguous`, `WriteReadsBack`, `NothingStale`, `MidEraseSpares` | all slots after a valid marker are erased, so that no record lands on remnants; what each command of a write finds in the flash; the record in force was saved or cut short since |
| `MainLoopProofs` | `TasksCalledInTime`, `LoopImplementsScheduler`, `LoopCalledInTime`, `LoopTypeCorrect`, `NoEventIsLost`, `KnobIsFollowed` | `now`, `last_tick` and `age` differ by what the pass and the turn allow, without wrapping; every step is a step of the scheduler or leaves it alone; the posts since `task_ui` last drained the queue are spaced by the tasks' intervals; the events pending lead from the channel shown to `wanted` |
| `RadioProofs` | `ClampedIntoBand`, `RadioTypeCorrect`, `PaGateFollowsPtt`, `NoUncheckedCarrier`, `FrequencyRestored` | `Tuning /\ Chips /\ Flags /\ Relays`: a chip in transmission is the active VFO's, keyed by the flag and on a calibrated frequency, or chip 1 keyed by VOX; a chip off its VFO's frequency is on the air with an offset set, or its VFO has strayed; the gate follows flag, tones and switch |
| `DeviceProofs` | one for each question of the run `device`, below | one per part |
| `LinkProofs` | the lemmas of `Serial`, `Gps`, `Broadcast` and `Aprs`, and of numbers and recursive functions, that `DeviceProofs` extends | as below |
| `UploadProofs` | `UpdateTypeCorrect`, `UpdateStarts`, `BlocksInPlace`, `AllOrNothing` | where the matcher is after each byte; a frame and its reply belong to the block the host is at; all blocks before it are buffered, each in its place; what the flash pass has done |

The theorems about `Device`, each of the form `DeviceSpec => []P`:

| Theorem | Of | Inductive invariant |
|---|---|---|
| `InputsCorrect` | Keypad, Encoder | a key is held to be down only while the reads that disagree are fewer than the debouncer asks; the table gives the direction of neighbours and the knob's balance holds |
| `PowerCorrect` | Power | the idle counts are below their limits; what each stage of switching off has done |
| `PttCorrect` | PttClients | the owner's flag is set, the hang time equals the silence modulo the tick, and the relay's silence and what is left of its hang time add up |
| `SpeakerReturned` | Audio | a step that plays has run for what the tick says and was not over at the last poll |
| `FocusCorrect` | DualWatch | the quiet polls and the rest of a hold add up |
| `SearchCorrect` | Scanner, Spectrum | the debounce of a scan counts reads of what is tuned now; the span around the centre is in the range of the chip |
| `ChannelsCorrect` | ChannelStore | a write's image holds what its sector is to be and the pages before the next one hold the image; what is outside the sector reads as expected; a torn record is exposed |
| `ChipCorrect` | VfoTones | squelch and scrambler of a chip are those of its VFO, but for a squelch the Monitor key opened; a VFO without a tone has none on its chip, one with tones of the tables has one of its own or none |
| `PanelsCorrect` | Menu, Panels | the value dialled is in its item's range and is what the setting reads as; cursor and pending letter are in the padded name, the selection is in the window |
| `ReceiversCorrect` | Broadcast | the chip was told the function, frequency, mode and filter of a receiver that is on, or a command failed or one started over another; two receivers on are on record as overlapping |
| `BeaconsCorrect` | Aprs | what is on the air is the frame of a known place under the configuration, up to its symbol; the packet decoded comes from such a place; polls and countdown add up to the interval; the backlog of the FIFO grows with each load |
| `LinksCorrect` | Serial, Gps | the bytes of a message stay in order through wire, ring and buffer, whole frames are in the buffer from its start on; position and time are those last reported |
| `TypesCorrect` | all | all of the above together; what they do not bound (the hold of a key, the levels of the knob, the switch, battery, relay and scan counts, the digits heard) is bounded with them; a radio that is on has held its switch shorter than the long press, and a settling that is counted has ticks left |

Each proof follows the same line: the invariant holds in the initial states,
every action preserves it, and it implies the property. The properties alone
are not inductive: that the frequency is restored, for instance, needs that a
chip off its VFO's frequency is the active one's, on the air with an offset still
set, and that a chip in stand-by has a tone playing; that a channel survives
an outage needs to know which pages of the image are in the flash already. In
`DeviceProofs` a lemma, `PartSteps`, splits a step of the device into one of a
part or none of it; each part's invariant then needs only that part's actions.

Recursive functions (powers of 100, the value of BCD bytes, the walk over the
channels, the commands of a driver call one after the other) are shown to exist
by `Recursion` and `BoundedRecursion`, and what they compute by `Climb`,
induction over the first numbers stated for a set. All three come from
`LeastNatural`: a set of numbers that is not empty has a least one.

They rest only on the named assumptions of the modules: at least one slot; no
record is all ones (`RecordsAssumption`); the records have a bit the boot check
looks at (`CheckedAssumption`); rings of two or more; an interval and two
passes fit the tick counter (`TimeAssumption`, which the real 32 bits meet by
far); bands are not empty, and below no frequency does the offset reach 0.
`EventQueueProofs` assumes posts from tasks (`~PostInIsr`): without it the
results are false, as the run shows. `BlocksInPlace` and `AllOrNothing` assume
`~Latency`; `WordsAssumption` holds for the two words of the source.
`MainLoopProofs` assumes a queue with room for what the table lets the input
tasks post between two calls of `task_ui` (`QueueAssumption`), and
`MarkerSectorProofs` that the middle of the sector is not before the slot that
straddles it (`LayoutAssumption`).

`DeviceProofs` uses that VOX is polled within a tick cycle less its hang time
(`PttAssumption`), that the counters of quiet are capped no lower than the
limits they are compared with (`PowerAssumption`), that no step of a tone table
is empty (`AudioAssumption`), that the hold counter of a key is wide enough for
a delay and a repeat (`KeypadAssumption`), that there is a memory channel to
scan (`ScannerAssumption`), and that the spectrum's widest span and its first
one fit the range of the chip (`SpectrumAssumption`). A VFO that is saved has a
frequency that fits the BCD digits, and tones and levels that fit their fields
(`VfoStatesAssumption`). Records of `VfoTones` have the types of the source and
12.5 kHz is a step (`TonesAssumption`); the raw values of menu
fields are bytes, but for step and offset (`MenuAssumption`); no row of letters
is empty (`PanelsAssumption`); a frame's header byte taken for a length does not
fit the buffer, and no frame has more data than the payload
(`SerialAssumption`); the FM step is not larger than the lowest
FM frequency, the filter tables have the types of the source, and every AM band
holds its default frequency and has steps (`BroadcastAssumption`); positions are
places on earth at altitudes that fit 16 bits with the offset, an index out of
the table of intervals has a default in it, and a FIFO holds a word
(`AprsAssumption`); the receiver's places are whole minutes of
arc and its clock is a time of day (`GpsAssumption`).

`WordsFarApart` of `VfoTones` is a fact about the numbers in the source's two
tables: tones have different words, none that of the tail tone, and DCS words
are seven bits apart. No theorem uses it; TLC evaluates it on the tables.

### Only model-checked

`EventuallyDrained`, `TransmissionEnds` and `UpdaterEnds`: liveness under
fairness and ENABLED are outside the prover's reach. Every invariant that a
passing run checks is a theorem. No module that is proved about declares a
RECURSIVE operator.

## 5. Plan for further proofs

Two refinements worth stating: the ring of `Serial` implements a lossy FIFO, and
the scanner of `Scanner` implements the scan step that `Radio` takes. A third
joins `PttClients` and `Audio` to `Radio`: with their variables mapped to its
flags, each implements what `Radio` lets VOX, the relay and the tones do.

## 6. Not modelled

- Display, LCD, fonts, splash, and all drawing in the modelled parts: output
  only, no state that others read.
- PB8, which `audio.c` and `power.c` write for amplifier and receiver front end:
  `Audio` has the amplifier as `path`; of the pins shared with the transmitter
  `Radio` has the six of `relay_select`.
- Between `power_off` and sleep: the switch, the latch and the wake-up interrupt
  are steps in `Power`; the instructions with interrupts masked
  (`power.c:365-430`) are one.
- Two views of `Device` at a time, but for what `Radio` and `MainLoop` compose.
- Start-up, vectors, GPIO, timers, DMA set-up, clock tree: register writes whose
  meaning is the hardware's. Nothing in them waits for another part.
- Internal flash driver, CRC, XOR: transforms and register sequences without a
  protocol. The updater has its own copy of the flash pass, which is modelled.
- Bus transfers of SPI flash, BK4829 and SI4732: each driver call is one step
  that is assumed to return.
- Sending DTMF, and every other delay loop: nothing but an interrupt can run
  meanwhile, and no interrupt reads what they write.
- What a CPS read or write does to flash, satellites and dilution in an NMEA
  sentence, the strings of the Bluetooth set-up, ADC scaling: data no property
  tells apart. The way back of the Bluetooth relay has no reader. APRS packets
  of other makes of radio are not received in the model.
- The flash record of a zone name, `settings_reload` (no caller), the order of
  `radio_init`; `power_set_thresholds`, `breathing_poll`, `power_reset`
  (no caller).
- Hardware tests and debug UART: separate builds. `cps_flash.py`: an offline
  tool on images; its peer appears in `Serial` as any frames and noise.
- VFO C, which is never enabled, and the persistence of the FM record beyond
  what `Broadcast` reads at boot.
