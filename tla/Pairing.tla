------------------------------ MODULE Pairing -------------------------------
(***************************************************************************)
(* How a keyboard and a mouse become known to a dongle.                    *)
(*                                                                         *)
(* The host opens a window: radio 1 of the dongle moves to the rendezvous. *)
(* A device that knows no dongle asks there, and takes the first           *)
(* acknowledgement it hears; acknowledgements carry a slot but no address. *)
(* Three tasks meet in the dongle: rf_rx_task, the CDC task that runs the  *)
(* commands of the host, and the flash, which may refuse a write or lose   *)
(* the power between two.  There is one dongle, so a set_id is a flag.     *)
(* A retune of the radio (channel, then address) is one step.              *)
(***************************************************************************)
EXTENDS Naturals, Sequences

CONSTANTS Device,    \* keyboards and mice, by their MAC
          Declares,  \* BOARD_NRF_ADDR_SUFFIX of each; 1 and 2 are slots
          TRIES,     \* requests a device sends before it gives up (12, 20)
          FIFO,      \* receive FIFO of the nRF24 (3)
          COUNTS,    \* bound: no request arrives once so many were counted
          COMMANDS,  \* bound: commands the host gives
          Events,    \* what the environment does, see Happens
          None       \* the zero MAC

Slot   == {1, 2}
Happens == {"refuse", "torn", "crash"}
\* A save that failed between two writes; a command while a window was open.
Amiss  == {"torn", "crossed"}

ASSUME PairingAssumption ==
  /\ Declares \in [Device -> Nat] /\ None \notin Device
  /\ TRIES \in Nat \ {0} /\ FIFO \in Nat \ {0} /\ COUNTS \in Nat /\ COMMANDS \in Nat
  /\ Events \subseteq Happens

VARIABLES nvs,     \* mac_left, mac_right and paired_count in the dongle's flash
          ram,     \* s_pair_mac_* and s_pair_paired_count
          open,    \* s_pairing_mode
          due,     \* the window that is open has passed s_pair_deadline_ms
          cfg,     \* s_kbd_cfg, s_mouse_cfg: derived from the set_id, or factory
          ch,      \* what radio 1 listens to
          fifo,    \* requests radio 1 has received
          rx,      \* where rf_rx_task stands
          req,     \* the request it serves
          host,    \* where rf_rx_pair_start stands
          asked,   \* commands given so far
          dev,     \* the devices
          amiss    \* history: what may have parted memory from flash, see Amiss

dongle == <<nvs, ram, open, due, cfg, ch, fifo, rx, req, host, asked>>
vars == <<dongle, dev, amiss>>

Peers   == [mac : [Slot -> Device \cup {None}], count : Nat]
Request == [from : Device \cup {None}, slot : Slot, count : Nat]
NoRequest == [from |-> None, slot |-> 1, count |-> 0]

\* slot is the one in the device's flash, 0 when it was never written; ack the
\* one it was given; whose (history) says for whom the acknowledgement was.
DeviceState == [st : {"off", "asking", "listening", "acked", "paired"},
                tries : 0 .. TRIES, ack : Slot, whose : {"own", "other"},
                id : {"none", "set"}, slot : {0} \cup Slot]

TypeOK == /\ nvs \in Peers /\ ram \in Peers
          /\ open \in BOOLEAN /\ due \in BOOLEAN
          /\ cfg \in {"set", "factory"} /\ ch \in {"set", "factory", "rdv"}
          /\ fifo \in Seq(Device) /\ Len(fifo) <= FIFO
          /\ rx \in {"loop", "normal", "window", "mac", "count", "ack", "closing"}
          /\ req \in Request
          /\ host \in {"idle", "clear", "load", "tune", "set"} /\ asked \in 0 .. COMMANDS
          /\ dev \in [Device -> DeviceState] /\ amiss \subseteq Amiss

NoPeers == [mac |-> [s \in Slot |-> None], count |-> 0]

\* Without a pairing in flash the dongle derives its set_id all the same.
Init == /\ nvs = NoPeers /\ ram = NoPeers /\ open = FALSE /\ due = FALSE
        /\ cfg = "set" /\ ch = "set" /\ fifo = <<>>
        /\ rx = "loop" /\ req = NoRequest /\ host = "idle" /\ asked = 0 /\ amiss = {}
        /\ dev = [d \in Device |-> [st |-> "off", tries |-> 0, ack |-> 1,
                                    whose |-> "own", id |-> "none", slot |-> 0]]

-----------------------------------------------------------------------------
(* rf_rx_task                                                              *)

rxOnly == <<nvs, asked, host, dev, amiss>>

\* The top of the loop while no window is open: both radios are drained, and
\* what came on the rendezvous is of no type they know.
Drain == /\ rx = "loop" /\ ~open
         /\ rx' = "normal" /\ fifo' = <<>>
         /\ UNCHANGED <<rxOnly, ram, open, due, cfg, ch, req>>

\* The end of the turn, the watchdog content with the radio.
LoopEnd == /\ rx = "normal" /\ rx' = "loop"
           /\ UNCHANGED <<rxOnly, ram, open, due, cfg, ch, fifo, req>>

\* Faulty variant: the radio is left alone.
Watchdog_asleep == LoopEnd

\* The watchdog writes the configuration to a radio that has been silent.
Watchdog == /\ rx = "normal" /\ rx' = "loop"
            /\ ch' = cfg /\ fifo' = <<>>
            /\ UNCHANGED <<rxOnly, ram, open, due, cfg, req>>

\* rf_rx_pairing_service
Service == /\ rx = "loop" /\ open /\ ~due /\ ram.count < 2
           /\ rx' = "window"
           /\ UNCHANGED <<rxOnly, ram, open, due, cfg, ch, fifo, req>>

\* rf_rx_apply_paired_config; factory addresses when nothing was counted.
ApplyPairedConfig ==
  /\ rx = "loop" /\ open /\ (due \/ ram.count >= 2)
  /\ cfg' = IF ram.count > 0 THEN "set" ELSE "factory"
  /\ ch' = cfg' /\ rx' = "closing"
  /\ UNCHANGED <<rxOnly, ram, open, due, fifo, req>>

CloseWindow == /\ rx = "closing" /\ rx' = "loop" /\ open' = FALSE /\ due' = FALSE
               /\ UNCHANGED <<rxOnly, ram, cfg, ch, fifo, req>>

WindowEmpty == /\ rx = "window" /\ fifo = <<>> /\ rx' = "loop"
               /\ UNCHANGED <<rxOnly, ram, open, due, cfg, ch, fifo, req>>

\* rf_pairing_match_slot: the left slot is compared first.
MatchSlot(d) == IF ram.mac[1] = d THEN {1} ELSE {s \in {2} : ram.mac[s] = d}

\* rf_pairing_resolve_slot: none when the device declares none and two are known.
ResolveSlot(d) == IF Declares[d] \in Slot THEN {Declares[d]}
                  ELSE {s \in Slot : s = ram.count + 1}

\* The end of a turn of the loop over the requests.
Served == rx' = "window" /\ req' = NoRequest

\* A device that is known gets its slot again; a new one is saved first.
Receive ==
  /\ rx = "window" /\ fifo # <<>> /\ fifo' = Tail(fifo)
  /\ LET d == Head(fifo)
     IN \/ /\ \E s \in MatchSlot(d) : req' = [from |-> d, slot |-> s, count |-> ram.count]
           /\ rx' = "ack"
        \/ /\ MatchSlot(d) = {}
           /\ \E s \in ResolveSlot(d) : req' = [from |-> d, slot |-> s, count |-> ram.count + 1]
           /\ rx' = "mac"
        \/ MatchSlot(d) = {} /\ ResolveSlot(d) = {} /\ UNCHANGED <<rx, req>>
  /\ UNCHANGED <<rxOnly, ram, open, due, cfg, ch>>

\* Faulty variant: the result of the write is not looked at (the fault of
\* 2026-08-26).
SaveMac_unchecked ==
  /\ rx = "mac"
  /\ \/ nvs' = [nvs EXCEPT !.mac[req.slot] = req.from] /\ rx' = "count"
     \/ "refuse" \in Events /\ nvs' = nvs /\ rx' = "ack"
  /\ UNCHANGED <<ram, open, due, cfg, ch, fifo, req, asked, host, dev, amiss>>

\* rf_pairing_save_peer_dongle writes the address, then the count; a failure
\* leaves the loop without an acknowledgement.
SaveMac ==
  /\ rx = "mac"
  /\ \/ /\ nvs' = [nvs EXCEPT !.mac[req.slot] = req.from]
        /\ rx' = "count" /\ req' = req
     \/ "refuse" \in Events /\ nvs' = nvs /\ Served
  /\ UNCHANGED <<ram, open, due, cfg, ch, fifo, asked, host, dev, amiss>>

\* Faulty variant: the count in memory does not follow.
SaveCount_flashOnly ==
  /\ rx = "count"
  /\ \/ /\ nvs' = [nvs EXCEPT !.count = req.count]
        /\ ram' = [ram EXCEPT !.mac[req.slot] = req.from]
        /\ rx' = "ack" /\ UNCHANGED <<req, amiss>>
     \/ "torn" \in Events /\ amiss' = amiss \cup {"torn"} /\ Served /\ UNCHANGED <<nvs, ram>>
  /\ UNCHANGED <<open, due, cfg, ch, fifo, asked, host, dev>>

\* The count may fail where the address did not: flash and memory then differ.
SaveCount ==
  /\ rx = "count"
  /\ \/ /\ nvs' = [nvs EXCEPT !.count = req.count]
        /\ ram' = [mac |-> [ram.mac EXCEPT ![req.slot] = req.from], count |-> req.count]
        /\ rx' = "ack" /\ UNCHANGED <<req, amiss>>
     \/ "torn" \in Events /\ amiss' = amiss \cup {"torn"} /\ Served /\ UNCHANGED <<nvs, ram>>
  /\ UNCHANGED <<open, due, cfg, ch, fifo, asked, host, dev>>

Listening == {d \in Device : dev[d].st = "listening"}

\* rf_driver_oob_tx: any device that listens on the rendezvous may hear it; what
\* came in meanwhile is flushed and the radio is tuned to the rendezvous again.
SendAck(H) ==
  /\ rx = "ack" /\ H \subseteq Listening
  /\ dev' = [d \in Device |-> IF d \notin H THEN dev[d]
                              ELSE [dev[d] EXCEPT !.st = "acked", !.ack = req.slot,
                                                  !.whose = IF d = req.from THEN "own" ELSE "other"]]
  /\ Served /\ fifo' = <<>> /\ ch' = "rdv"
  /\ UNCHANGED <<nvs, ram, open, due, cfg, asked, host, amiss>>

-----------------------------------------------------------------------------
(* The commands of the host, on the CDC task.                              *)

Serving == rx \in {"window", "mac", "count", "ack", "closing"}

\* rf_pairing_reset_dongle: what it could not erase stays, and nobody is told.
Erased ==
  LET refused == "refuse" \in Events
  IN {[mac |-> [s \in Slot |-> IF s \in kept THEN nvs.mac[s] ELSE None], count |-> n] :
        kept \in IF refused THEN SUBSET Slot ELSE {{}},
        n \in IF refused THEN {0, nvs.count} ELSE {0}}

hostOnly == <<open, due, cfg, fifo, rx, req, dev>>

Noted == amiss' = IF open \/ Serving THEN amiss \cup {"crossed"} ELSE amiss

\* RF_PAIR_RESET.
PairReset == /\ host = "idle"
             /\ asked < COMMANDS /\ asked' = asked + 1
             /\ nvs' \in Erased /\ Noted
             /\ UNCHANGED <<hostOnly, ram, ch, host>>

\* RF_PAIR_START, in the steps rf_rx_task can run between.  A window that is
\* open is opened again: nothing answers ERR_BUSY.
PairStart ==
  /\ host = "idle" /\ host' = "clear"
  /\ asked < COMMANDS /\ asked' = asked + 1
  /\ nvs' \in Erased \cup {nvs} /\ Noted
  /\ UNCHANGED <<hostOnly, ram, ch>>

\* rf_pairing_load_peers_dongle empties the memory before it reads the flash.
ClearPeers == /\ host = "clear" /\ host' = "load"
              /\ ram' = NoPeers
              /\ UNCHANGED <<hostOnly, nvs, ch, asked, amiss>>

LoadPeers == /\ host = "load" /\ host' = "tune"
             /\ ram' = nvs
             /\ UNCHANGED <<hostOnly, nvs, ch, asked, amiss>>

TuneRendezvous == /\ host = "tune" /\ host' = "set"
                  /\ ch' = "rdv"
                  /\ UNCHANGED <<hostOnly, nvs, ram, asked, amiss>>

SetPairingMode == /\ host = "set" /\ host' = "idle"
                  /\ due' = FALSE /\ open' = TRUE
                  /\ UNCHANGED <<nvs, ram, cfg, ch, fifo, rx, req, asked, dev, amiss>>

-----------------------------------------------------------------------------
(* The devices: kbd_pairing_task and mouse_relay_pair.                     *)

Busy(d) == dev[d].st \in {"asking", "listening", "acked"}

Quiet   == \A d \in Device : ~Busy(d)

\* A device that knows a dongle speaks to it, another asks.
SwitchOn(d) ==
  /\ dev[d].st = "off"
  /\ dev' = [dev EXCEPT ![d] = [@ EXCEPT !.st = IF dev[d].id = "set" THEN "paired" ELSE "asking",
                                          !.tries = 0]]
  /\ UNCHANGED <<dongle, amiss>>

SwitchOff(d) == /\ dev[d].st # "off"
                /\ dev' = [dev EXCEPT ![d] = [@ EXCEPT !.st = "off", !.tries = 0, !.ack = 1]]
                /\ UNCHANGED <<dongle, amiss>>

\* The request arrives if the dongle listens there and has room, or is lost.
Ask(d) ==
  /\ dev[d].st = "asking"
  /\ dev' = [dev EXCEPT ![d] = [@ EXCEPT !.st = "listening", !.tries = dev[d].tries + 1]]
  /\ \/ UNCHANGED fifo
     \/ /\ ch = "rdv" /\ Len(fifo) < FIFO /\ ram.count < COUNTS
        /\ fifo' = Append(fifo, d)
  /\ UNCHANGED <<nvs, ram, open, due, cfg, ch, rx, req, host, asked, amiss>>

\* Nothing heard in time; after the last try the device stays mute.
ListenEnds(d) ==
  /\ dev[d].st = "listening"
  /\ dev' = [dev EXCEPT ![d] = IF @.tries < TRIES THEN [@ EXCEPT !.st = "asking"]
                               ELSE [@ EXCEPT !.st = "off", !.tries = 0]]
  /\ UNCHANGED <<dongle, amiss>>

\* How many of its two writes a device gets done.
Written == IF "refuse" \in Events THEN 0 .. 2 ELSE {2}

\* rf_pairing_save_half writes the set_id, then the slot, as far as it gets.  The
\* keyboard restarts, saved or not; the mouse waits for its user to restart it.
SaveHalf(d) ==
  /\ dev[d].st = "acked"
  /\ \E n \in Written :
       dev' = [dev EXCEPT ![d] =
                 [@ EXCEPT !.st = "off", !.tries = 0, !.ack = 1,
                           !.id = IF n > 0 THEN "set" ELSE dev[d].id,
                           !.slot = IF n = 2 THEN dev[d].ack ELSE dev[d].slot]]
  /\ UNCHANGED <<dongle, amiss>>

-----------------------------------------------------------------------------
\* RF_PAIR_WINDOW_MS has passed.
Deadline == /\ open /\ ~due /\ due' = TRUE
            /\ UNCHANGED <<nvs, ram, open, cfg, ch, fifo, rx, req, host, asked, dev, amiss>>

\* The dongle is pulled out and plugged in again: rf_rx_start.
Crash == /\ "crash" \in Events
         /\ ram' = nvs /\ open' = FALSE /\ due' = FALSE
         /\ cfg' = "set" /\ ch' = "set" /\ fifo' = <<>>
         /\ rx' = "loop" /\ req' = NoRequest /\ host' = "idle"
         /\ UNCHANGED <<nvs, asked, dev, amiss>>

RxStep == \/ Drain \/ Service \/ ApplyPairedConfig \/ CloseWindow \/ WindowEmpty
          \/ LoopEnd \/ Watchdog
          \/ Receive \/ SaveMac \/ SaveCount
          \/ \E H \in SUBSET Device : SendAck(H)
HostStep == ClearPeers \/ LoadPeers \/ TuneRendezvous \/ SetPairingMode
DevStep(d) == Ask(d) \/ ListenEnds(d) \/ SaveHalf(d)

Next == \/ RxStep \/ HostStep \/ Deadline \/ Crash
        \/ PairReset \/ PairStart
        \/ \E d \in Device : DevStep(d) \/ SwitchOn(d) \/ SwitchOff(d)

Spec == Init /\ [][Next]_vars

-----------------------------------------------------------------------------
(* Fairness: rf_rx_task runs and the time of a window passes.  The watchdog *)
(* acts on a radio that is silent, as it is more than 2 s after the last    *)
(* try of a device.  Nothing is asked of the host or of the devices.        *)
FairSpec ==
  /\ Spec
  /\ WF_vars(RxStep) /\ WF_vars(Deadline)
  /\ SF_vars(Quiet /\ Watchdog)

-----------------------------------------------------------------------------
(* Properties                                                              *)

AtRest == ~open /\ ~Serving /\ host = "idle"

\* rf_rx_pairing_service: an acknowledgement goes only to a device whose address
\* is in flash, whatever was refused or lost on the way, unless the host resets
\* under the window.  Once a save was torn, another device may have the slot.
AckedIsStored ==
  rx = "ack" /\ "crossed" \notin amiss =>
    nvs.mac[req.slot] \in (IF "torn" \in amiss THEN Device ELSE {req.from})

\* rf_rx_apply_paired_config: a dongle that has a pairing in flash listens to
\* its own addresses once the window is closed, not to those of the factory,
\* torn saves and crashes included.  A window opened again as it closes can do
\* that: the memory is empty for a moment.
StoredIsHeard == AtRest /\ "crossed" \notin amiss /\ nvs.count > 0 => cfg = "set"

\* Faulty variant: the slot in flash is not read.
SlotOf_notRead(d) == IF Declares[d] \in Slot THEN Declares[d] ELSE 1

\* The slot a device speaks on, rf_pairing_load_set_id_half.
SlotOf(d) == IF dev[d].slot \in Slot THEN dev[d].slot ELSE Declares[d]

\* rf_pairing_save_half: a device that heard its own acknowledgement speaks on
\* the slot it is stored in, as long as it is stored and nothing is amiss.
SlotsAgree ==
  amiss = {} => \A d \in Device :
             /\ dev[d].st = "paired" /\ dev[d].whose = "own" /\ dev[d].slot # 0
             /\ \E s \in Slot : nvs.mac[s] = d
             => nvs.mac[SlotOf(d)] = d

\* rearm_if_silent, RF_PAIR_WINDOW_MS: radio 1 does not stay on the rendezvous,
\* even when a window is opened again in the moment it closes; provided that
\* nobody keeps asking there.
RadioReturns == <>[]Quiet => (ch = "rdv" ~> ch = cfg)
=============================================================================
