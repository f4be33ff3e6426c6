# KaSe firmware: a verification development

This directory models the parts of the KaSe keyboard firmware that decide what a
host believes is pressed, the OpenPGP card the dongle carries, and the way a new
firmware gets in. Each module is translated from the C sources under `src/`; `PROJECT.json` names, for every definition, the lines it stands for. TLC
checks small instances (`MC*.tla` and the `.cfg` files), TLAPS checks the
theorems of the `*_proofs.tla` modules for every value of the constants.

## The system

One code base builds several devices: a keyboard with a display (V1, V2), a
battery keyboard that talks to a USB dongle over an nRF24 radio (V2D,
Conchodytes), a pair of halves joined by a radio (Niphargus master and slave),
a mouse, and the dongle. They share the way of a key press to a host:

```
 matrix ──► scan callback ──► slots, flag ──► keyboard task ──► dedup ──► hid_queue ──► hid_sender_task
 (prio 5)                        ▲            (prio 3, core 0)                            (prio 4, core 0)
 other half ──► half_link_rx ────┘                                                       │        │
 (radio, core 1)                                                                USB or BLE host   radio
                                                                                                    │
                                                        USB host ◄── rf_rx_task (dongle) ◄── 2 receive FIFOs
```

The dongle has a second interface, a smart card reader with its card inside:

```
 USB host ──bulk OUT──► tud_task ──semaphore──► ccid_worker ──► OpenPGP card ──► NVS
          ◄──bulk IN───          ◄──defer────   waits for a touch (sec_confirm)
```

Every device has a serial port for its configuration and its updates:

```
 host ──packets──► rx task ──ready_frame──► cdc_cmd ──► handlers ──► flash, esp_restart ──► app_main
      ◄──────────────┴──── answers ────────────┘                                             (crash counter)
```

### Inventory

| Component | State it keeps | Operations | Talks to | What is hard |
|---|---|---|---|---|
| Matrix scan callback `matrix_scan.c` | `current_press_*`, `keycodes[]`, `s_filled_local`, `stat_matrix_changed` | `keyboard_btn_cb`, `matrix_apply_remote` | writes arrays the keyboard task reads, without a lock | interleaving with the build; two halves in six slots |
| Report builder `key_processor.c` | `prev_press_*`, layers, `report_mods`, taps to inject | `build_keycode_report`, `process_matrix_changes`, `key_processor_clear_taps` | tap/hold engine, key features, `send_hid_key` | order of its steps, state carried from one build to the next |
| Tap/hold engine `tap_hold.c` | four pending entries, layer-tap base, active modifiers and layer | press, release, tick, interrupt, consume | builder | keys that overlap and are released in another order |
| Keyboard task `keyboard_task.c` | the loop | remote, hold and matrix paths, `send_tap` | everything above | three paths that must behave alike |
| HID report path `hid_report.c`, `hid_dedup.h`, `hid_transport.c` | dedup, queue of 32 | `send_hid_key`, `hid_sender_task`, USB and BLE writes | two tasks, one queue; hosts | bounded waits, refusals nobody looks at, change of transport |
| Wireless sender `kbd_relay_tx.c`, `usb_presence.*` | `s_last_mod`, `s_last_kb`, `s_refresh`, route | `kbd_relay_send_kbd`, 10 ms timer | radio | loss, bounded repetition, timer against task |
| Dongle `rf_rx_task.c`, `rf_slot.h`, `rf_driver.c` | link state of two slots, pairing window | drain, link check, watchdog, pairing | radio, USB host | silence as the only sign of a loss |
| RF pairing `rf_pairing.c` | addresses and counts in NVS | requests, acknowledgements, reboot | radio, NVS | lost acknowledgements, partial writes |
| Half link `half_link.c` | last frame, change flag, age | TX on change, RX task, timeout | matrix scan callback, keyboard task | unacknowledged change, silence |
| 5 V handshake `link_handshake.h` | one state machine per half | `link_hs_step` | the other half over a cable | two machines that must not both drive |
| Keymaps, macros, statistics `keymap.c`, `key_stats.c`, `nvs_utils.c` | NVS | load, save, reset | CDC commands | writes that fail half way |
| Combos, tap dance, leader, features `combo.c`, `tap_dance.c`, `leader.c`, `key_features.c` | four keys that wait, one dance, one sequence | one hook per build, tick and result | builder, the loop | keys held back; hooks called on each build and not on each press |
| BLE `hid_bluetooth_manager.c` | slots, connection, advertising | GAP and GATT events | report path | late and stale events |
| CDC protocol, OTA `cdc_*.c` | parser, `ready_frame`, session | frames, commands | all of the configuration | handoff between two tasks, frames cut off, answers nobody waits for any more |
| CCID transport `ccid.c` | two message buffers, endpoints, `s_final_queued`, a semaphore | transfers, the worker, deferred calls, resets | TinyUSB, the card | two tasks and two buffers without a lock; a reset at any point |
| Touch confirmation `sec_confirm.c` | one state | arm, poll, authorize, reset | the worker; the keyboard task in a build that has one | who sets what the worker waits for |
| OpenPGP card `openpgp_card.c`, `openpgp_do.c` | PINs and attempts, keys, data objects, in RAM and in NVS | APDUs | the worker, NVS | saves that fail, a plug pulled between two of them |
| Other security personality `otp_*.c`, `cdc_sec_cmds.c`, `sec_store.c` | OTP frame, slots | reports, commands | `tud_task`, CDC | a frame polled while it is answered |
| Boot `main.c` | crash counter in RTC memory | safe mode | CDC, NVS | a crash in each start-up |
| Displays, LEDs, sensors, file system, register-level drivers | — | I/O | — | not modelled: no state the typing path reads |

`PROJECT.json` lists every part with its status, and under `hazards` the places,
line by line, where this code can go wrong in a way a unit test would hardly
reach, with the properties that watch them.

### What makes them correct

- *Matrix to report*: whatever the callback interrupts, once the loop is at rest
  the report shows the keys in the slots, no more and no less; a tap that was
  injected is taken out; a hold ends with its key; the loop comes to rest.
- *Combos, dances, sequences*: no key is swallowed, invented or typed while it waits
  for its partner, but for what a full report drops and what a change of the other half
  leaves behind; what was begun is resolved.
- *Layers*: what a hold sets ends with the hold; of several layer-taps the newest
  rules; with all keys up the layer is the one last chosen.
- *Report to host*: at rest the host holds the report queued last, unless a cause is
  on record, and the dedup knows it but for what the scan callback took out of it;
  nothing is duplicated or invented; the queue drains;
  the flags of the Bluetooth manager say what its radio does.
- *Radio*: bounded repetition repairs a bounded number of losses; a slot declared
  lost is released; one slot never releases the other; a deaf receiver comes back.
- *Half link*: the report shows the matrix of the other half although nothing locks
  it, but for what the left half's own callback has taken out; one frame makes up for those that were lost; what is gone is released.
- *Card*: what was answered is what the card is after a restart, wherever a save
  failed or the plug was pulled.
- *Update*: what was acknowledged is written, what starts is whole, and a host that
  begins again gets there, on a device that crashes at each start-up too.
- *Reader*: an answer is that of its command, and every command is answered.

## The modules

| Module | Models | Refines or is refined by |
|---|---|---|
| `HidChannel` | the promise of the report path: a lossy channel that neither duplicates nor invents | implemented by `HidPath` |
| `BleLink` | `hid_bluetooth_manager` with one host, its callbacks and commands, and the Bluetooth switch of `keyboard_actions` | `HidPath` has its flags and its host as two Booleans that change at any time (`Radio`) |
| `HidPath` | `send_hid_key`, `hid_sender_task`, `hid_transport`, `send_tap`, one host per transport | `HidPath!Channel` |
| `RfLink` | `kbd_relay_tx`, `usb_presence`, the air, `rf_rx_task`, `rf_slot`, the watchdog | takes over where `HidPath` hands a report to the radio |
| `ScanLoop` | `keyboard_btn_cb`, `matrix_apply_remote`, the loop of `vTaskKeyboard`, `build_keycode_report`, mod-taps | produces the reports `HidPath!Build` takes |
| `Layers` | `build_keycode_report`, `process_matrix_changes` and `tap_hold` over whole keymaps: MO, LM, TO, LT, mod-taps, the layer the host asks for | refines the one layer and the single tap/hold of `ScanLoop` |
| `KeyFeatures` | `combo`, `tap_dance`, `leader`, and the part of `build_keycode_report` and of the loop that calls them | the feature keys that `ScanLoop` and `Layers` leave out |
| `Pairing` | `rf_rx_pairing_service`, `rf_rx_pair_start`, `rf_pairing`, the pairing of keyboard and mouse, the dongle's flash | what happens inside the window that `RfLink` only sees open and closed |
| `HalfLink` | `half_link`, both halves, and the part of `matrix_scan` and `keyboard_task` that serves it | what `ScanLoop` has as one step, `RemoteFrame` |
| `OpenPgpCard` | `openpgp_card`, `openpgp_do`, the blobs of `nvs_utils` | the card that `Ccid` runs on a command |
| `Ccid` | `ccid` and what its build has of `sec_confirm`: host, `tud_task`, worker, the wait for a touch | carries the commands of `OpenPgpCard` one at a time |
| `CdcUpdate` | `cdc_binary_protocol`, `cdc_ota` and its handlers, the crash counter of `main` | apart from the others: it ends in a restart of them all |
| `MC…` | constants for TLC | |
| `…_proofs` | the theorems about `RfLink`, `ScanLoop`, `Layers`, `Pairing`, `OpenPgpCard`, `Ccid`, each in its own module; `Reports_proofs`: those about `HidPath`, `BleLink` and `KeyFeatures`; `FramedLinks_proofs`: those about `HalfLink` and `CdcUpdate` | |

### HidPath

A report is an opaque value. `want` is `keycodes[]` with the modifiers that
`send_hid_key` found; `last` and `fresh` are the dedup; `kb` and `sender` say
where the two tasks stand. Both tasks are pinned to
core 0 and the sender has the higher priority: what it does between two blocking
calls is one action, what the keyboard task does is one action per queue
operation (`Peek`, `PutBack`, `Enqueue`, `EnqueueTimeout`) and one for each time it reads
`keycodes[]`: the comparison (`Dedup`), the copy (`Peek`) and the commit (`Commit`). The
scan callback (`Scan`) may zero `keycodes[]` between any two of them; each of the three
reads the six bytes at once, which a callback in the middle of a `memcpy` would not
leave so. `ep` is the single
report the USB endpoint holds, `host` what each host believes. Two variables are
history: `newest`, the report that was queued last, and `fate`, why the host may differ
from it (`"refused"`: the
transport would not take the report; `"unheard"`: the radio took it while no host
could hear it; `"foreign"`: a tap, a change of transport or a host that forgot wrote
the host since). `ready` and `near`, the flags of the Bluetooth manager and the host in
reach of it, change at any moment and in any order, which is more than `BleLink` does.

`HidPath!Channel` maps the queue, the peeked message and the message in the
sender's hands to a bag of pending reports, and endpoint and hosts to the last
report handed to each transport. `ChannelSpec` says each step is a step of
`HidChannel` or a stutter; peek and put-back become stutters, which is the point.

### BleLink

`up` and `sec` are `bt_initialized` and `sec_conn`, the two flags `hid_transport` asks,
written by four tasks without a lock; `on`, `con` and `adv` are the stack and its radio.
What happens on the air (`HostConnects`, `HostPairs`, `PairingFails`, `LinkEnds`) is put
into `events`, the queue of the Bluetooth task, which handles it later (`Connected`,
`Authenticated`, `AuthFailed`, `Disconnected`). Advertising starts with the second of the two
callbacks that `init_hid_bluetooth` waits for (`RegFinish`, `AdvDataSet`), and the switch is as many
steps as it blocks for: `StackUp` and `InitDone`; `DeinitClose`, its 200 ms,
`DeinitAdvertising`, `DeinitStack`, `DeinitFlags`. The stack ends in one step of these: of
the five calls in between the last decides. A command of the keyboard or the CDC task
(`bt_disconnect`, `bt_start_pairing`, `bt_switch_slot`) falls between any two of them. `quiet` is
history: the last call about advertising was to stop it. `RadioAgrees` speaks of a
settled state, with no event to handle and the switch at rest, and relates the flags
to the radio. In between they do differ.

### RfLink

One `Tick` is the 10 ms period of the keyboard's timer; ages and delays count in
ticks, with a cap one above the last value the code compares with. The timer
preempts the sender on core 0, so `kbd_relay_send_kbd` is three actions
(`WriteMod`, `WriteKeys`, `SendNow`) and the timer may see `s_last_mod` without
`s_last_kb`. `rf_driver_send` either appends to the receiver's FIFO or loses the
packet. A packet bears the slot it is a report of, as its `sub` byte does, and `Drain`
delivers by it whatever radio brought it. (The keyboard sends no mouse report: nothing
calls `send_mouse_report` or `send_hid_kb_mouse`.) The dongle's loop is cut where its callers can see it: drain keyboard,
drain mouse, link checks, watchdog; while the pairing window is open it serves
the window and skips the rest, as `rf_rx_task.c:358-362` does. `losses` (history)
counts the transmissions of the current report that were lost, flushes by the
watchdog included; `missed` (history) says that the dongle's host refused the
last report of a slot. `env`, chosen at the start among `Environments`, names what the
surroundings of a behaviour may do.

### ScanLoop

A key is its position and the code it types. The scan callback is one action (it
runs above the keyboard task); the build is cut wherever the callback can be
seen: detection of releases, read and write of each slot, injection of taps, the
save of the positions, the send. Where `is_new_press` would decide, the engine's
own test (`th_find`) is used, as `tap_hold_on_press` does. `rmods` is computed
twice in the code and the second value is the one sent. `HALF` and `HAS_DISPLAY`
are the two build options that change the merge of the halves. The keymap has one
layer and no feature keys here.

### Layers

A build is one action: the steps of `build_keycode_report` are functions over one
record, the engine, with a field per global of `key_processor.c` and `tap_hold.c`,
and the action composes them in the order of the code. What a scan callback does
between the steps belongs to `ScanLoop`. The slots are the keys down in the order
they were pressed. Time is left out: `HoldCycle` lets any set of pending keys reach
200 ms. `activate_seq` counts up in the code; only the order matters, so the model
renumbers the layer-taps that are held. Two history variables serve the
properties: `home`, the layer a toggle or the host chose last, and `alone`, which
says that no two ways of moving the layer have met since. `ExtraAfter` keeps the
code's stale `extra_keycodes[]` (only some branches write the slot), because
`process_matrix_changes` decides on it whether a toggle is dispatched or waits.
A tap resolves to a keycode that is not 0 (a 0 would stop the consuming loop).
One-shots and the layer lock are not in the map; tap dance, combos and leader are
`KeyFeatures`.

### KeyFeatures

The three engines are one record, `eng`, with a field per global of `combo.c`,
`tap_dance.c` and `leader.c`; a build is one action that composes their hooks in the
order of `build_keycode_report`, slot by slot. `rep` is `keycodes[]`, which the scan
callback zeroes and a build writes only where it does not skip the slot. `RemoteApply` is
`matrix_apply_remote`: it changes the slots and zeroes nothing, so that a code stays in
`rep` under a key that writes none. It takes any keys of `Far`, in any order, from the
first slot on, and the callback puts only those of this half there: the left half without
display, where neither merges with the other. `OtherBuild` is
the build that follows it, or a hold that begins: it sees the report of the build
before it. `Tapped` puts `TapCode` into empty slots before a result looks for one: the
resolved taps of Step 8, and the codes of a macro that is held (`expand_macro`), which end
up in slots that are empty but for them. `MatrixPath` takes any of them out again,
`key_processor_clear_taps`; what it leaves is a macro's. The tap of a result is `send_tap`, which `HidPath`
has, so a result that is taken is gone. Time is a mark (`old`, `late`) on what has waited
long enough. The keys of a combo and of a sequence are named by their code,
and the result of a combo is told apart from the code of a key that types the same.
The loops over slots, combos and queues are recursive functions (`Processing`, `Matching`,
`Injecting`), so that they can be reasoned about.
`typed`, `crowded`, `aside`, `ended` and `left` are history: the combos that fired and whose
result was in a report, those that found no slot empty, the keys the last build left out,
the keys whose wait ended since they are in the report, and the codes
`matrix_apply_remote` found in `keycodes[]` and left there.

### Pairing

The dongle remembers a pairing in two places, `nvs` (flash) and `ram`
(`s_pair_mac_*`, `s_pair_paired_count`), and the device in a third, `dev`. What
radio 1 listens to (`ch`) is apart from what the watchdog would write to it
(`cfg`). `rf_rx_task` (priority 10, core 0) is `rx`: the top of the loop, a normal
turn, the window, and the two writes and the acknowledgement a request costs; the
commands run on the CDC task (priority 4, no core of its own), so `rf_rx_pair_start`
is cut at each global the other task reads (`host`): the memory is emptied, then
filled from flash, the radio tuned, the mode set. A change of channel and address
is one step, `nvs_commit` adds nothing to the writes before it, and the close of a
window reads the count once. The two devices differ by the slot they declare: a
mouse declares 2, a V2D keyboard declares 3, which is no slot, and takes the next
one free. A request is the identity of its sender; an acknowledgement goes to the
rendezvous address, and `SendAck` lets any set of listeners hear it (`whose` is
history: whether it was meant for them). `amiss` is history: `"torn"`, a save
stopped between the address and the count; `"crossed"`, a command given while a
window was open. The properties name the cases in which they promise less.

### HalfLink

The right half sends its whole matrix when a key changes, once, and never looks at
the outcome. The left half has two tasks on two cores: `half_link_rx_task` copies a
frame into `s_distant` (`Copy`, one key at a time, as the `memcpy` is seen from the
other core), compares it with what was there (`avant`), raises the flag, and after
250 ms of silence empties the matrix; the keyboard task tests the flag, clears it,
reads the matrix key by key (`Apply`) and sends. `lost` is history: the last frame of
the right half did not arrive. `RightDies` and `RightBoots` cut the power of the
right half at any point; the frames of its start-up (`Burst`) are empty.
The left half scans too: its callback empties all six entries at any moment
(`ScanCallback`) and merges the right half again in a build with a display only, which
the left half is not; the next report of a local key (`LocalBuild`) is built from what is
there. `wiped` is history: entries of the right half were emptied and not merged since.
The keys of the left half themselves are in `ScanLoop`.

### OpenPgpCard

The card is three blobs, each in RAM and in flash: the PINs with the attempts left,
the private keys, the data objects. A handler is cut at each save: `PinPersist`,
`KeyPersist`, `Count`, `WipeKeys`... are the rest of the command that `pc` names. A
save has three outcomes: done, done but answered as an error (the size or the commit
failed after the blob), refused. Where the code looks at the result the model does
(`Heeded`), where it does not a refused save is on record (`Ignored` sets `silent`).
`Restart` pulls the plug between any two steps and loads what the flash has. A key is
the number of its making, so that an old key that comes back is told from a new
one. `wrong`, `signed` and `since` are history: wrong PINs answered, signatures
answered by key, keys made before the PINs went back to the factory's. The data
objects kept are those the code decides on: the signature counter, the touch flag
and the one that says how long a PIN verification lasts.

### Ccid

`Command` is the host's; TinyUSB hands it to `ccid_dispatch`, which answers at once
or wakes the worker. The transfers and the deferred calls are actions of `tud_task`
(`WtxSent`, `FinalSent`, `ZlpSent`, `SendWtx`, `SendFinal`), the worker is cut at each
access to what it shares: it reads the command in `s_out_buf` (`Take`), waits for a
touch (`Arm`, `Deadline`, `Extend`), builds the answer in
`s_in_buf` (`Build`) and reads `s_out_buf` and `s_cur_seq` again. A transfer sends what
its buffer holds when it ends or when it was started. The wait ends by its deadline
alone: the card is in the dongle's build, which has no keymap engine and so no caller
of `sec_confirm_authorize`; the key that confirms is resolved by the keyboard it is on,
whose own `sec_confirm` has no request. `s_state` is then PENDING from `Arm` to
`Deadline` and needs no variable.
The host is libccid: it has one command at a time, reads until the answer with the
bSeq of its command has come, drops others, and may reset the bus at any point.
`torn` is history: a reset came upon a command, and none since has found the card at
rest. Left out: a message shorter than its header (and `s_busy`, which is read for it
only: OUT is never primed while a command is under way) and the failure of a transfer
on an endpoint that is free.

### CdcUpdate

`KsRxFeed` is the host's next packet through `ks_rx_feed` (`Feed`): a header, as much of
the payload as the packet holds, a CRC; after the CRC the rest is not looked at (`Fill`). A
payload is `WIDTH` units, of which a packet carries some; `ota.received` counts chunks, and
`image` is the sequence of those written. The parser
keeps its state from one host to the next, since nothing calls `ks_rx_reset`. A valid
frame goes to `ready_frame` or is dropped (`HandOver`); a bad CRC is answered by the rx
task, whose pieces may fall between those of the worker's answer. The worker copies
the command, runs its handler, which writes the flash from the buffer in two steps
(`OtaData` with `half`, `OtaWrite`), answers, and only then frees the buffer (`Served`). The host
is the `send` and `parse_kr` of `scripts/test_binary_protocol.py` with the commands of
the update flow of the protocol document: it discards what it has not read, sends,
waits, and after an error or no answer begins again. It gives up at any moment, and
its program may be killed between two packets (`TimeOut`, `Kill`). A `Reset` loses RAM
and the port; the crash counter survives all but `PowerCut`. A start-up may crash for
ever, unless it is in safe mode, which skips what is stored. The check of the image by
`esp_ota_end` is left out on purpose: the order of the chunks must not depend on it.
Left out: frames too long for the buffer, unknown commands, a CRC-8 that fits the wrong
payload, and a host with images of several sizes.

## The runs

Each run answers one question; all bounds are in the `.cfg`.

| Run | Result | Question |
|---|---|---|
| `hid_path` | holds | Does the report path keep its promises (agreement at rest, refinement of `HidChannel`, no report stuck), with a callback that empties the report under it? |
| `ble_link` | holds | Once the events are handled, do the flags of the Bluetooth manager agree with its radio, whoever wrote them last and however long the switch took? |
| `rf_link` | holds | With lost packets, beside a mouse, or with the cable, or with pairing windows, deaf radios and a suspended host: is a lost slot released, is a half-written report repaired, does a deaf radio come back, does an idle keyboard fall silent? |
| `scan_report` | holds | Does the report show the slots, whatever the callback and the other half interrupt, and does the loop settle? |
| `scan_taps` | holds | Is no press, hold or tap of a mod-tap lost or left behind? |
| `layers` | holds | Do modifiers, layer-taps and toggles end with their keys, does the newest layer-tap rule, and does the layer come back when no two ways of moving it met? |
| `key_features` | holds | With keys that wait for a partner, dances that interrupt each other and sequences that begin alike, under taps that fill the report and another half that changes the slots: is each key in the report or accounted for, and does all that was begun end? |
| `pairing` | holds | With a flash that refuses, a plug that is pulled and a host that commands at any moment: is who is acknowledged stored, who is stored listened to, and on its slot, and does radio 1 leave the rendezvous, also when a window is opened in the moment another closes? |
| `half_link` | holds | Does the left half see every change of a matrix it reads without a lock, while its own callback empties the entries, does a frame make up for lost ones, is what is gone released? |
| `card` | holds | Whatever save fails and wherever the plug is pulled: are the attempts, the keys, the signature count and a reset what was answered? |
| `cdc_update` | holds | With a host that gives up or is killed in a frame, a flash that refuses, resets and crashing start-ups: is what is acknowledged written, what starts whole, and does the update end? |
| `ccid` | holds | With resets, time extensions and retries at any point: does each command get its own answer, and in time? |

The type invariants of the modules with proofs are theorems (`TypeCorrect`; of `CdcUpdate`
it is part of `UpdateHolds`, of `KeyFeatures` it is `FeaturesTypeCorrect`) and not listed in
runs; TLC agreed with each.

### Bounds

- `hid_path`: two reports (released, pressed) and a queue of two, with a radio that may
  be ready or not from any step to the next. Two reports are enough for a stale and a
  current one, and for a report whose keys are zeroed; with two places
  the queue is full, and a message that was taken out may be overtaken and put back.
  `Agreement` is proved for every depth, every set of reports and every way of zeroing.
- `ble_link`: at most six events wait (`EVENTS`), more than a connection has from its
  start to the next; `RadioCorrect` is proved for any number.
- `rf_link`: `REPEATS` 1 and a FIFO of 1: a report and its repetition compete for one
  place, and a half-written report may take it. Three environments, one after the other:
  a mouse; the USB cable; pairing windows with a suspended host and a keyboard's radio
  that goes deaf. Together with a FIFO of 2 they are out of reach of the liveness check
  (20 million states and more); `LostReleased`, `Isolation`, `Prompt` and `Healed` are
  proved for any set of environments, any radios that may go deaf and any depth. A tick
  is longer than in the code by a factor, the order of the delays (`REARM` < `LOST`) is
  the code's (100 ms, 1500 ms).
- `scan_report`, `scan_taps`: two slots for three or four keys, so that a report
  overflows and a merge has to choose. A build has one read and one write per
  slot, and two slots already give a callback before, between and after them.

- `layers`: four keys on three layers, each key of another kind on each layer, a
  layer-tap to layer 9 that does not exist (audit CR-1), three slots and two
  tap/hold entries, so that both tables overflow, and a host that asks for a
  layer that exists and one that does not.

- `pairing`: two devices, one with a slot of its own and one without, two commands
  (one to open a window and one to cross it), one try per device, which may be
  switched on again, a FIFO of one and no request once two were counted, the count that
  closes a window. With a FIFO of two, three counts and saves that tear between address
  and count the safety properties hold too (5.6 million states, not listed);
  `AckedIsStored` and `StoredIsHeard` are proved for all of them, and `SlotsAgree` says
  nothing once a save was torn.

- `key_features`: a combo whose two keys compete for one entry of `deferred[]`; two
  dances, so that one interrupts the other, the second on the other half, with one tap
  before the limit; two sequences, one the beginning of the other; two slots, so that
  results, keys and taps compete for them; and no tap that waits, or two, which fill the
  report. With two combos that share a key and one of whose keys is on the other half,
  `ReportAccounted` holds as well, over two slots and over three with two entries (1.5 and
  0.5 million states, not listed).

- `half_link`: two keys, so that a copy has a middle, a FIFO of two frames and a
  silence of one tick. More of any changes nothing in kind: the theorems hold for
  all values.
- `card`: two slots and two keys, so that a new key replaces one and another slot is
  left alone; one attempt, one signature and one failed save: a second attempt adds
  no step that the first does not have.
- `ccid`: four commands and two resets: one command may be cut by a reset, the next
  meets what it left, and one more finds the card at rest. The final answer is tried
  twice instead of 201 times. The run may stop once the host has sent all.
- `cdc_update`: two chunks of four units, so that a frame that was cut off swallows a
  whole frame of the next host and more, the code's limit of three start-ups, and three
  mishaps of any kind (with four the properties hold too). The run may stop once the
  image is there.

### Fairness

- `HidPath`: weak fairness of the two tasks' steps (they are scheduled and their
  waits are bounded), strong fairness of `TapRelease` and of the sender's
  transmit step, because the transmit mutex is granted in priority order and the
  bus may come and go while they wait; weak fairness of `HostPoll`, enabled only
  while the bus runs. Nobody has to type, plug or connect.
- `RfLink`: time passes and the window's deadline comes (strong, both can be
  disabled by other steps for a moment), both processors run (weak), and reading a
  FIFO over SPI outpaces the air (strong fairness of `Drained`). No packet has to
  arrive.
- `Pairing`: `rf_rx_task` runs and the deadline comes (weak). The watchdog rearms a
  radio that heard nothing for 2 s, which is the case once nobody asks (strong,
  `Quiet /\ Watchdog`); the action itself may happen at any time, since the model has
  no clock. Nothing is asked of the commands or of the devices: a command may stop
  half way.
- `KeyFeatures`: the loop goes on (`Advances`, weak: it does not stay at one point) and the
  time of a dance and of a sequence passes (weak). Nobody has to type; with keys, of this
  half or of the other, or holds that ask for builds for ever `EnginesRest` says nothing.
- `HalfLink`: both tasks of the left half run and time passes (weak). Nothing is
  asked of the radio or of the right half.
- `Ccid`: both tasks run and the fifteen seconds pass (weak); a transfer ends because
  a host that waits reads. `Answered` excuses the one case where
  the host does not read a time extension until the final answer was given up.
- `CdcUpdate`: both tasks run and the host goes on, gives up only when no answer is
  coming any more but for `FAULTS` times, and does not for ever send its next frame in
  the microseconds between the answer and `Served`, in which it would be dropped. A
  start-up ends or crashes; that it ends is asked of safe mode only.
- `ScanLoop`: the keyboard task runs (weak). Keys may move forever: `Settles`
  then says nothing.

## The proofs

The theorems assume what the `ASSUME` of the module says and nothing else, but for
three that state a hypothesis of their own, without which they are false: `NoKeyStuck`
and `ModifiersReachHost` a keymap without mod-taps, `TapsAreReleased` a keyboard of one
part with at most one mod-tap.

- `Reports_proofs`, on `HidPath`. `Agreement` (`QuiescentAgreement`) is not inductive: it
  speaks of rest only. The invariant follows the report queued last
  backwards: it is the last message of the queue, or, when the queue is empty
  but for a message being put back, that message, or the one in the sender's hands,
  or what the wire holds (`PeekInv`); `fate` covers the rest. Beside it, what
  the commit reads is what was queued or what zeroing left of it (`DedupInv`): the keyboard
  task is the only one that fills `keycodes[]`, and it is in `send_hid_key`.
  `PutBackFindsRoom` is the
  capacity argument the code relies on without a check: only the keyboard task
  adds to the queue, so a message it took out can go back. `TypeCorrect` gives the
  bound of the queue.
  `PathIsAChannel` (`ChannelSpec`) maps the accepted copies of a report to the number of
  places that hold it, the queue and the hands of the sender (`Pending`), so that
  adding to the queue is `Accept`, what moves a copy between queue and hands is a
  stutter (`MovesKeepPending`), what a transport takes or refuses is `HandOver` or
  `Lose` (`SenderRefines`), and a tap or a cut link is `Play`.
- `Reports_proofs`, on `BleLink`. `RadioCorrect` (`RadioAgrees`) speaks of a settled state; its
  invariant says of every state who owns the stack (`StackInv`) and that the newest event
  in the queue tells how the connection is, so that the callback that handles it last
  sets things right (`CaughtUp`).
- `RfLink_proofs`. `LostReleased` needs that a slot whose link is down holds
  nothing unless missed, which each of `Drain`, `Check` preserves because
  receiving and raising `up` are the same step, and because a packet comes by the radio
  of the slot it is a report of (`FifoOwn`): `drain_radio` tells reports apart by the
  packet, the check of the links tells slots apart by the radio, and were the two to
  differ, a report of a slot held for lost would stay on the host. `Isolation`, an action
  property no run repeats, rests on the same invariant. `Prompt` is proved for
  environments without pairing windows, by relating the age of a link that is up to where the loop stands. `Healed`
  (`SelfHeals`) counts: of the transmissions of the newest report since it was armed,
  those not lost are the newest packets of the FIFO (`InAir`), or the host has taken
  one and no older packet can follow it (`Delivered`). Fewer losses than transmissions
  therefore leave one, and an empty FIFO puts it on the host.
- `ScanLoop_proofs`. `NoPressLost` and `NoKeyStuck` rest on one idea: while the
  flag is down, every slot behind the point the build has reached holds the code
  of its key, and the slot being written is the one that was read. The flag goes
  down before the first read, so a callback after it raises it again, and the
  claim is void until the next build. The loop is at rest only with the flag
  down. `NoKeyStuck` needs a map without mod-taps; with one it is false (see
  below). `HoldsReachHost` follows the modifiers of the holds through a build: they
  are taken at `FinishKeys` and an entry that becomes a hold afterwards has set the
  flag of the engine (`HoldMods`). `TapsAreTracked` says that a build that has read a
  mod-tap either tracks it or will be repeated. `ModifiersReachHost` is `NoKeyStuck`
  for modifiers: what a build has collected are those of the slots behind its point,
  unless the flag is up again. `TapsAreReleased` (`TapIsReleased`) says where a tap can stand:
  in the slot of which `inj` keeps account, and in a build for a matrix change only,
  for in one for a hold that ran out the only mod-tap there is has just become a hold
  (`HoldBuild`). The account is then settled in the next build, which it also asks for.
  With a second mod-tap, or with a second half whose frames arrive between two builds,
  the account is lost (see below).
- `Layers_proofs`. The three properties of the tap/hold engine need one invariant
  over the record (`Sound`): every modifier on belongs to a hold, `lt` is the layer
  of the newest layer-tap that is held, `base` is set exactly while there is one,
  idle entries are clean. Beside it, between two builds no tap is left, every entry
  follows a key of the last build, and a toggle that waits has a key down. Each
  step of the build has its lemma (`DetectReleasesSound`, `MomentarySound`,
  `ProcessKeysSound`, ...), so the proof follows the composition. That there is a
  newest layer-tap is the existence of a greatest number in a bounded set
  (`HasGreatest`). Nothing is assumed of the keymap but that MO and TO name layers
  of it; LT and LM may name any.
  `LayerComesBack` (`LayerReturns`) adds where the engine stands while nothing has met:
  at home, or away from it because of one key that is down and remembers the way back
  (`AtRest`, `Away`, both in `HomeInv`). A build takes it from home to home, from home
  away by one key, back by the release of that key, or leaves it away (`RestMoves`,
  `AwayMoves`); two keys that both change the layer are what `alone` excludes, and
  `NotMeeting` turns that into the disjointness each lemma needs (`Apart`).

- `Pairing_proofs`. `AckedIsStored` speaks of one moment and of flash only, but the
  code decides on memory whether a device is known, so the invariant says that,
  while a window is open and no command crossed it, every peer in memory is in
  flash, but for the slot a save is writing (`PeersFollow`), and is still there in
  some form once a save was torn; that the address was written before the count
  (`SavedFirst`); and that a count in flash shows in memory (`CountFollows`).
  `ServingIsOpen` and `HostWaits` keep the two tasks out of each other's way.
  `StoredIsHeard` follows because the configuration is chosen by a count that is 0
  only if that of the flash is. `TypeCorrect` needs `Retries`: a device that
  listens has asked at least once and at most `TRIES` times.
  `SlotsAlwaysAgree` (`SlotsAgree`) needs who may be saved where: a device that is being
  saved is new to the flash and stands in no other slot of memory (`NewOnly`,
  `OneSlot`), since a known device is answered from the slot it has; what it is told
  is the slot of memory (`Agreed`), and memory mirrors the flash while nothing is amiss
  (`Mirror`).

- `Reports_proofs`, on `KeyFeatures`. `EveryCodeAccounted` (`ReportAccounted`) speaks of the
  codes sent, a build starts from `keycodes[]`; `ReportIInv`
  relates the two. Of `keycodes[]` one of three things is true: a scan callback
  has cleared it; or its codes are those sent, and the slots are as they were then; or
  `matrix_apply_remote` has changed the slots, and its codes are all in `left`. In the
  second case no key is new and no combo with both keys down is left to fire, so the build
  adds nothing but taps and keys whose time ended (`SameKeeps`, `BuildDoes`). In the first what
  a build makes is what it writes (`ProcessingDoes`), and in the third what it does not
  write was left (`AppliedKeeps`). A code that is injected is in the report
  whenever a slot is still empty after all of them (`Filled`, `InjectingDoes`), so a result
  that is missing was dropped with the report full, and that is what `crowded` says; a key
  that ran out of time may find no slot either, and is left out.
  Induction over slots, combos and queue is `StepByStep`, on the set of the
  steps that are right, from the least one that is not; that the recursive functions
  are what they say needs it too (`ProcessingIs`, `MatchingIs`, `InjectingIs`). Of dances and
  leader that proof uses only that they leave report and combos alone (`Same`).
  Conversely `Rest`, what holds of dances and leader, is kept by every loop of the build,
  and with it `FeaturesTypeCorrect` follows (`TypeIInv`). The types of a dance are not
  inductive: the next tap may take the counter out of them, unless a dance that counts has
  `TAPS` taps at most. That, with at least one tap and a key, is `TapsInRange`:
  `resolve_dance` takes `actions[tap_count - 1]`, in range without the clamp of its callers.

- `FramedLinks_proofs`, on `HalfLink`. While a frame is copied the matrix is that frame below the
  cursor and the old matrix from there on (`Mixed`); what the keyboard task has read
  is right or the flag will be raised: a change either ends in the comparison that
  raises it, or was made before the flag that the task cleared; what is missing from the
  entries or the report the callback took (`ReadInv`, `Merged`, `Shown`). The last
  frame that arrived is the last of the FIFO, or being copied, or the matrix
  (`FrameInv`).
- `FramedLinks_proofs`, on `CdcUpdate`. Frames carry no number, the parser is never reset
  and the buffer may drop a frame, so neither property is inductive; `UpdateIInv` is
  (TLC checked it on the run first). Between two packets the receiver holds nothing, the
  first unit of the chunk the host is writing, or what a killed host left of one: the
  next packet puts a header into that, and a payload with a header in it passes no CRC
  (`RxInv`, `FeedSpoilt`). A packet therefore gives `ready_frame` the host's whole frame or
  nothing (`FeedDelivers`). While the host is at the chunk n, n - 1 are written or n, and
  one in the buffer that is not written yet is the next (`ChunkInv`, `UnservedInv`). An OK
  to a chunk that a waiting host can still read says that n is written, because the host
  discards what it has not read before it sends, and while it has not sent all of n
  there is no such OK on the way; an OK to a start finds the new session empty
  (`StartInv`). `StartsWhole` and `ToldIsWritten` follow. The proof knows nothing of the
  flash but what `OtaWrite` does, and holds for any number and width of chunks and any
  `FAULTS`. Each step has a lemma (`FeedKeeps`, `OtaWriteKeeps`, `HostReadKeeps`, ...).
- `OpenPgpCard_proofs`. What the flash holds is related to RAM at each `pc`: between
  two commands they agree unless a save was refused without an answer (`silent`), in
  the middle of a command they differ by what that command is about to save. The keys
  need an order of their own: a key in flash is newer than the last return to the
  factory's PINs because a reset saves the empty keys first.
- `Ccid_proofs`. `StageInv` says where the host's command is: waiting for the worker,
  in its hands, built, on its way, or given up; and in each what the buffers hold and
  what is deferred: one final answer, behind one time extension at most. A reset voids
  it until a command finds the card at rest.

Only model-checked is liveness, which the prover has no rules for: `Drains`,
`RadioRecovers`, `IdleFallsSilent`, `Settles`, `RadioReturns`, `GoneIsReleased`, `Answered`,
`Uploaded`, `EnginesRest`. Every other property of a run is a theorem.

## Where code and documents disagree

Met while modelling, and reproduced with TLC on the same modules or on variants of
them. They are told here; the runs state what holds beside them.

- `key_processor.c:518` (Step 11) saves the positions as they are at the end of a
  build. A mod-tap released after `detect_releases` of that build is missing from
  them, so no later build sees its release: the engine keeps it pending or held, and
  its modifier stays in every report, against `tap_hold.c:10` ("on_release from HOLD →
  deactivates modifier/layer").
- `key_processor.c:60`: a momentary key pressed while a layer-tap is held saves the
  layer of the layer-tap in `last_layer`; when the layer-tap is released first, or
  with it, Step 10 puts that layer back and it stays with all keys up
  (`KEYCODE_MAP.md:58`: "Release = restore layer and release modifiers").
- `rf_rx_task.c:314-317` wants `LINK_LOST_MS` well above the period of an idle state
  frame, so as not to release a link that is merely idle. The keyboard sends no such
  frame (nothing calls `rf_encode_status`) and is silent after `KBD_RELAY_REPEATS`
  repetitions: a key held longer than `LINK_LOST_MS` is released on the host with no
  packet lost.
- `half_link.c:204`: in the same way a key of the right half held for more than 250 ms
  is released, since the right half sends on change only.
- `ccid.c:206-211` says a reset makes the answer stale and drops it. The call is
  dropped only if it runs before the interface is opened again; the worker builds the
  late answer from `s_out_buf` and `s_cur_seq` as they are then, and it may bear the
  bSeq of the command the host has sent since (`torn` in `Ccid`).
- `ccid.c:321` waits for AUTHORIZED, which only `sec_confirm_authorize` sets; its one caller
  (`key_processor.c:245`) is not in the build of the dongle (`main/CMakeLists.txt:52-65`),
  the one with the card. A command that asks for a touch is refused at its deadline,
  against `docs/OPENPGP_CARD.md:76-77` ("presse `K_SEC_CONFIRM` sur ta moitié dans les 15 s") and
  `sec_confirm.c:10`.
- `openpgp_card.c:653` and `:706` ignore the result of the save of a wrong attempt: a
  restart then gives it back.
- A key import or generation answered with 6F00 because the size or the commit failed
  after the blob was written may be there after a restart.
- `openpgp_do.c:34-45`: a PUT DATA that is refused because it could not be saved keeps
  its new value in RAM until the restart.
- `main.c:176` ("Don't erase NVS"): safe mode does not load the card; a command that
  saves then replaces the stored blob with the factory's.
- A crash in a factory reset may leave old card-holder objects beside the factory's
  PINs, never an old key (`ResetIsWhole`).
- `cdc_binary_protocol.c:187` counts on a host that "waits for response before next".
  The buffer is freed after the answer has been sent (`:393`), so the next frame of a
  host that did wait may still be dropped, without an answer.
- `cdc_binary_protocol.h:182` has `ks_rx_reset` for "timeout or error"; only the tests
  call it. After a host that was killed in a frame, up to 4096 bytes of the next ones
  are swallowed.
- `cdc_ota.c:20-29`: when `esp_ota_begin` refuses, the old session stays `RECEIVING`
  without a handle; the next chunk ends it.
- `main.c:415` clears the crash counter at the end of the start-up: crashes after it
  never lead to safe mode (audit A1); safe mode lasts one start-up (audit B3).
- `hid_report.c:186` logs that a report that met a full queue "will retry next
  cycle"; the next cycle calls `send_hid_key` only after a matrix change
  (`keyboard_task.c:144`), so the report may wait for ever.
- `key_processor.c:107` switches the transport with keys held: the host that was
  left keeps them (`hid_transport.c:3-4` says why this must not be).
- `kbd_relay_tx.c:98` reads the report outside `s_tx_mutex`: a half-written report
  goes on the air. `SelfHeals` shows that the repetitions repair it.
- `kbd_relay_tx.c:93` keeps the repetitions left while the route is USB and sends
  them, with the old report, when RF comes back.
- `rf_rx_task.c:123` ignores a refused release of a lost slot and never asks again.
- `rf_rx_task.c:361` skips the link checks for the time of a pairing window, up to
  120 s, although `rf_slot.h:82` wants one in each turn.
- `matrix_scan.c:169` zeroes `keycodes[]` in the middle of a build: a key that is
  held may be released and pressed again on the host, which is more than the
  "state read twice" of `matrix_flag.h:21-23`.
- `key_processor.c:341`: a tap injected in the build of the hold path takes the
  slot of the key that became a hold; the matrix build of the same cycle forgets
  `tap_injected_slots` and skips that slot, so the tap stays pressed. It takes two
  mod-taps; with one `TapIsReleased` holds (`scan_taps`).
- `hid_report.c:54`: the second report of a tap has lost a Shift that is held,
  because the first has stripped its code from `keycodes[]`.
- `key_processor.c:400`: a slot read before the callback and written after it keeps
  a released key, if a mod-tap takes the slot.
- `key_processor.c:60`: `last_layer` and the changer hold one key. Two momentary
  keys that overlap leave the layer of the first when the second is released last.
- `key_processor.c:508`: Step 10 is skipped when `current_layout` equals
  `last_layer`, so an LM key to the layer in effect leaves its modifiers on
  (`lm_active_mods`); so does a toggle while it is held.
- `key_processor.c:50`: a layer-tap or MO key whose own position is momentary in
  the layer it leads to is applied again in each build.
- `key_processor.c:533`: a toggle pressed when a slot still carries its code from
  an earlier build is put off to the next matrix change.
- `tap_hold.c:114`: `&= ~mod` takes a modifier away from another hold that set it
  too.
- `key_processor.c:501`: without a changer an empty slot passes for one, so a layer
  the host chose is dropped when all slots are full.
- `hid_report.c:184` commits from the shared `keycodes[]`, not from the copy that was queued
  (`:152`). A scan callback in between empties it (`matrix_scan.c:169`), and the dedup takes
  the empty report for sent while a key went out: the empty report of the next build is
  then dropped, within `KEY_ENQUEUE_MIN_MS`, and the host keeps the key. `:134-136` and
  `hid_dedup.h:4` want a report marked as sent only when it was accepted.
  `QuiescentAgreement` with `last` for `newest` is violated.
- `hid_report.c:121` drops the transport's result, although the dedup has marked
  the report and `hid_dedup.h:4` says it is "only ever marked as sent once the
  transport accepted it".
- `matrix_scan.c:201` records the local slots (`s_filled_local`) only with
  `CONFIG_KASE_HAS_DISPLAY`; on a Niphargus the merge may overwrite a local key,
  against `matrix_scan.c:61-62`.
- `matrix_scan.c:165-170` empties all six entries at each press or release of the left
  half, and `:199-203` merges the right half again with a display only, which a Niphargus
  left half has not (`Kconfig.projbuild:154-165`). The report of that key leaves out what
  the right half holds, against `half_link.h:13` ("la gauche fusionne ce qu'elle reçoit
  avec son propre balayage"), and it comes back with the next change of the right half
  only. `NoChangeLost` without `wiped`, that is `AtRest => shown = bitmap`, is violated.
- `rf_rx_task.c:293` acknowledges on the common rendezvous address: a device that
  listens at the same time takes the slot of another, although
  `mouse_relay_tx.c:148-149` counts on slot 2 "whatever the order".
- `rf_rx_task.c:189`: a window opened over an open one is accepted where the
  protocol document promises `ERR_BUSY`. Its table is empty for a moment; if the
  old window closes in that moment the dongle goes to the factory addresses with a
  pairing in flash, until the next window or restart.
- `rf_rx_task.c:266-281` wants no phantom pairing. After a crash or an error between
  the address and the count, the next window finds the device known, acknowledges
  it, and closes with a count of 0: factory addresses.
- `rf_pairing.c:193` (`RF_PAIR_RESET`) empties the flash and not the memory: during
  a window a device is acknowledged that is stored nowhere.
- `rf_pairing.c:53`: a keyboard that declares no slot and comes after the mouse
  takes the mouse's; a second keyboard raises the count to 2, and the mouse finds
  the window closed at once. The count may reach 3, where the documents say 0 to 2.
- A device that missed its acknowledgement after the second pairing never gets
  another: windows close at once with a count of 2, until a reset.
- `cdc_binary_cmds.c:1095` and the protocol document speak of 30 s;
  `RF_PAIR_WINDOW_MS` is 120 s.
- `cdc_dongle_cmds.c:117`: devices "cannot reconnect until they re-pair"; after a
  restart they do (`rf_rx_task.c:402-411`).
- `keyboard_task.c:70`: the path of a remote change never takes a tap out again.

- `combo.c:131` ("no room, key will pass through normally"): `key_processor.c:390-393`
  skips the key whether it found room or not; it is typed in the next build, and a tap
  of it that meets no other build is lost (`aside`).
- `matrix_scan.c:63-79` changes the slots and leaves `keycodes[]` (the callback zeroes it,
  `:169`). A key of the other half that takes the slot of another and writes nothing, because
  it waits for its combo, belongs to one, or is a dance's, a leader's or a layer's, leaves the
  old code in its slot: the host is sent a key that nobody holds, until the next press or
  release on the left half. `key_processor.c:392` ("track as held, not in HID report") and
  `matrix_scan.c:49` ("IDEMPOTENTE") want otherwise. `ReportAccounted` without `left` is
  violated.
- `key_processor.c:447-464` and `:178-180`: taps and the codes of macros take the empty slots
  before the result of a combo looks for one (`:471-479`), which is then dropped without a
  log, while its keys stay suppressed: against `combo.c:4` ("the combo result is emitted").
  `ReportAccounted` without `crowded` is violated.
- `key_processor.c:178-180` puts the codes of a macro into empty slots while later slots are
  still to be processed, and `:327` zeroes those that hold no key: of a macro with several
  codes only those in slots up to its own, or under keys that write nothing, are sent.
- `combo.c:5` ("the deferred key is released normally"): it is put into `keycodes[]` by a
  build, and builds come with matrix changes: a key held past `COMBO_TIMEOUT_MS` is typed
  when another key moves; one that was tapped is typed by the build of its release, and
  stays pressed on the host until the next one, as only taps of `tap_hold` are recorded
  in `tap_injected_slots`.
- `combo.c:175`: when one key of a combo goes up, the next build types the other.
- `key_processor.c:224` calls `tap_dance_on_press` on each build while the key is down,
  and not "again" (`tap_dance.c:83`): every press or release of another key is a tap of the
  dance, and a dance that was resolved as held begins anew. A build between a
  resolution and its reading wipes it, against `tap_dance.c:124`.
- `key_processor.c:224` drops what `tap_dance_on_press` returns: the key that interrupts a
  dance begins its own only in a later build that still sees it (`tap_dance.c:95-97`).
- `key_processor.c:230` starts the sequence again on each build while the leader key is
  down: what was fed meanwhile is forgotten. A key taken by a sequence and still down when
  it ends is typed then.
- `key_processor.c:228` and `:246` toggle caps word and the layer lock on each build in
  which their key is down: a key pressed meanwhile toggles them back.
- `hid_bluetooth_manager.c:306-308` counts on `sec_conn` to keep reports back until
  `AUTH_CMPL`; `:100` sets it at `BLE_CONNECT`. What is sent between the two is dropped by
  the stack and taken for sent (`"unheard"` in `HidPath`).
- `hid_bluetooth_manager.h:44`: a change of slot "reconnects to target". It advertises to
  all, and whoever authenticates first is stored in the slot in use (`:147`), an old host
  that comes back as well.
- `hid_bluetooth_manager.c:103-107` advertises again at each end of a connection, also of
  one that `bt_disconnect` has closed to stop it.
- `hid_bluetooth_manager.c:103`: the event does not say whose end it is. When a slot is
  changed and the next host connects before the last one is gone, its end clears the id
  of the next, and the flag until that one is authenticated. `BleLink` has one connection
  at a time and cannot show it.
- `hid_transport.h:18` and `README.md:94` promise a fallback to USB; `hid_transport.c:2-4`
  says why there is none, and switching Bluetooth off leaves `usb_bl_state` at BLE.

## Not modelled, and why

- The logs, the displays, the LEDs, the register-level drivers and the file system:
  pure I/O, and no state the typing path or the card reads.
- The encodings (link frames, radio packets, HID descriptors, APDUs, GATT tables) and
  the cryptography: pure functions, taken as values.
- The start of the dongle: between `kase_tinyusb_init` (`main.c:209`) and
  `openpgp_card_load` (`main.c:238`) a command could meet a card that is not loaded;
  `OpenPgpCard` assumes that enumeration takes longer.
- `espressif__keyboard_button` and the other vendored components: taken as external,
  from how `src/main` uses them.
- The commands of the card that change nothing (GET DATA, DECIPHER, INTERNAL
  AUTHENTICATE, READ PUBLIC KEY), command chaining, and PUT DATA of the counter itself.
- `init_hid_bluetooth` failing half way: it leaves the controller initialised and each later
  call is refused, until the restart. And the start of a keyboard that was saved with
  Bluetooth on: `BleLink` begins when `init_hid_bluetooth` has returned, and takes it that
  nobody has asked for the switch before (the keyboard task runs already, `main.c:332`).
- The components of `PROJECT.json` with status `not_modelled` that the plan names.

## Plan

Done, with proofs: `HidPath` with `BleLink`, `RfLink`, `ScanLoop`, `Layers`, `Pairing`, `HalfLink`,
`OpenPgpCard`, `Ccid`, `CdcUpdate`, `KeyFeatures`. Next:

1. One-shots, locks, caps word and overrides in `KeyFeatures` and `Layers`.
2. `OtpHid`, `Storage`, `Mouse`; several hosts and their slots in `BleLink`; the
   light-sleep hooks in `RfLink`.
3. `LinkHandshake`: two machines of `link_handshake.h` over a cable that loses frames,
   once something calls it.
