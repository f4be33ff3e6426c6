------------------------------- MODULE RfLink -------------------------------
(***************************************************************************)
(* A wireless keyboard, the radio, and the dongle that types for it.       *)
(*                                                                         *)
(*   keyboard  hid_sender_task relays a report when the route is RF; the   *)
(*             10 ms timer polls the USB cable and repeats the last report *)
(*   radio     each packet arrives in the 3-deep receive FIFO or is lost   *)
(*   dongle    rf_rx_task drains both radios, releases what a silent slot  *)
(*             held, and re-arms a radio that has gone deaf                *)
(*                                                                         *)
(* The timer task preempts the sender on core 0, so it can see s_last_mod  *)
(* and s_last_kb half written.  One tick stands for the 10 ms period; the  *)
(* dongle, which wakes every millisecond, completes a turn in each.        *)
(* env names what the surroundings of a behaviour may do, which is one of  *)
(* Environments.                                                           *)
(***************************************************************************)
EXTENDS Naturals, Sequences

CONSTANTS Mods, Keys,       \* modifier bytes and key arrays
          NoMod, NoKey,     \* nothing pressed
          Report,           \* the reports the keyboard builds
          REPEATS,          \* KBD_RELAY_REPEATS
          DEBOUNCE,         \* VBUS_DEBOUNCE_MS, in ticks
          REARM,            \* RF_REARM_SILENCE_MS, in ticks
          LOST,             \* LINK_LOST_MS, in ticks
          FIFO,             \* depth of a receive FIFO
          Environments,     \* sets of "cable", "mouse", "pairing", "suspend", "deaf"
          Deaf              \* the radios that may stop receiving

ASSUME RfAssumption == /\ NoMod \in Mods /\ NoKey \in Keys
                       /\ Report \subseteq Mods \X Keys
                       /\ <<NoMod, NoKey>> \in Report
                       /\ REPEATS \in Nat /\ DEBOUNCE \in Nat
                       /\ REARM \in Nat /\ LOST \in Nat
                       /\ FIFO \in Nat \ {0}

Slot == {"kbd", "mouse"}
Payload(s) == IF s = "kbd" THEN Mods \X Keys ELSE {"up", "down"}

\* A packet says whose report it bears, whatever radio brings it.
Packet == UNION {[sub : {s}, rep : Payload(s)] : s \in Slot}
hidreport(s, r) == [sub |-> s, rep |-> r]

Released(s) == IF s = "kbd" THEN <<NoMod, NoKey>> ELSE "up"

VARIABLES
  want,    \* the report the sender task last took from its queue
  tx,      \* where it stands in kbd_relay_send_kbd
  sLast,   \* <<s_last_mod, s_last_kb>>
  left,    \* repetitions left
  losses,  \* transmissions of sLast lost since it was armed (at most REPEATS + 1)
  cable,   \* raw level of the USB presence
  db,      \* the debounce: stable, cand, ticks since cand changed
  route,   \* s_route
  fifo,    \* what each radio of the dongle has received
  wedged,  \* radios that no longer receive
  pc,      \* where rf_rx_task stands
  pairing, \* s_pairing_mode
  link,    \* s_link: age of the last packet (at most LOST + 1), up
  quiet,   \* ticks since the last re-arm (at most REARM + 1)
  env,     \* what may happen around the link, chosen at the start
  bus,     \* the host of the dongle polls its endpoint
  host,    \* what that host believes is pressed
  missed   \* the last report for the slot was refused by hid_send_*

kbdVars    == <<want, tx, sLast, left>>
routeVars  == <<cable, db, route>>
radioVars  == <<fifo, losses>>
dongleVars == <<pc, link, quiet>>
busVars    == <<bus, env>>
hostVars   == <<host, missed>>
vars == <<kbdVars, routeVars, radioVars, wedged, pairing, dongleVars, busVars, hostVars>>

KbdType == /\ want \in Report /\ tx \in {"idle", "mod", "keys", "send"}
           /\ sLast \in Mods \X Keys /\ left \in 0..REPEATS
RouteType == /\ cable \in BOOLEAN /\ route \in {"usb", "rf"}
             /\ db \in [stable : BOOLEAN, cand : BOOLEAN, since : 0..DEBOUNCE]
FifoType == /\ DOMAIN fifo = Slot
            /\ \A s \in Slot : fifo[s] \in Seq(Packet) /\ Len(fifo[s]) <= FIFO
RadioType == /\ losses \in 0..REPEATS + 1
             /\ wedged \in [Slot -> BOOLEAN] /\ pairing \in BOOLEAN
DongleType == /\ pc \in {"wait", "pair", "kbd", "mouse", "check", "watchdog"}
              /\ link \in [Slot -> [age : 0..LOST + 1, up : BOOLEAN]]
              /\ quiet \in [Slot -> 0..REARM + 1]
HostType == /\ bus \in BOOLEAN /\ env \in Environments /\ missed \in [Slot -> BOOLEAN]
            /\ DOMAIN host = Slot /\ \A s \in Slot : host[s] \in Payload(s)
TypeOK == KbdType /\ RouteType /\ FifoType /\ RadioType /\ DongleType /\ HostType

\* A paired keyboard on battery, in reach of a dongle that has just started.
Init ==
  /\ want = <<NoMod, NoKey>> /\ tx = "idle" /\ sLast = <<NoMod, NoKey>>
  /\ left = 0 /\ losses = 0
  /\ cable = FALSE /\ route = "rf"
  /\ db = [stable |-> FALSE, cand |-> FALSE, since |-> 0]
  /\ fifo = [s \in Slot |-> <<>>] /\ wedged = [s \in Slot |-> FALSE]
  /\ pc = "wait" /\ pairing = FALSE
  /\ link = [s \in Slot |-> [age |-> 0, up |-> FALSE]]
  /\ quiet = [s \in Slot |-> 0]
  /\ bus = TRUE /\ env \in Environments
  /\ host = [s \in Slot |-> Released(s)] /\ missed = [s \in Slot |-> FALSE]

UpTo(bound, n) == IF n < bound THEN n ELSE bound

-----------------------------------------------------------------------------
(* The air.                                                                *)

\* A packet is acknowledged when there is room for it; radio 1 is on the
\* pairing channel while the window is open.
CanHear(s) == ~wedged[s] /\ ~(s = "kbd" /\ pairing) /\ Len(fifo[s]) < FIFO

Lose(n) == losses' = UpTo(REPEATS + 1, losses + n)

rf_driver_send(s, p) ==
  \/ /\ CanHear(s)
     /\ fifo' = [fifo EXCEPT ![s] = Append(@, p)]
     /\ UNCHANGED losses
  \/ /\ IF s = "kbd" THEN Lose(1) ELSE UNCHANGED losses
     /\ UNCHANGED fifo

MouseSend(b) == /\ "mouse" \in env
                /\ rf_driver_send("mouse", hidreport("mouse", b))
                /\ UNCHANGED <<kbdVars, routeVars, wedged, pairing, dongleVars, busVars, hostVars>>

-----------------------------------------------------------------------------
(* The keyboard: hid_sender_task and kbd_relay_send_kbd.                   *)

\* A new report; over USB it takes the path of HidPath and leaves the relay alone.
Type(r) == /\ tx = "idle" /\ r # want
           /\ want' = r
           /\ tx' = IF route = "rf" THEN "mod" ELSE "idle"
           /\ UNCHANGED <<sLast, left, routeVars, radioVars, wedged, pairing, dongleVars, busVars, hostVars>>

WriteMod == /\ tx = "mod" /\ tx' = "keys"
            /\ sLast' = <<want[1], sLast[2]>>
            /\ UNCHANGED <<want, left, routeVars, radioVars, wedged, pairing, dongleVars, busVars, hostVars>>

\* Faulty variant: forgets to re-arm the repetitions.
WriteKeys_noArm == /\ tx = "keys" /\ tx' = "send"
                   /\ sLast' = want
                   /\ losses' = 0
                   /\ UNCHANGED <<want, left, routeVars, fifo, wedged, pairing, dongleVars, busVars, hostVars>>

\* memcpy and kbd_refresh_arm.
WriteKeys == /\ tx = "keys" /\ tx' = "send"
             /\ sLast' = want
             /\ left' = REPEATS /\ losses' = 0
             /\ UNCHANGED <<want, routeVars, fifo, wedged, pairing, dongleVars, busVars, hostVars>>

SendNow == /\ tx = "send" /\ tx' = "idle"
           /\ rf_driver_send("kbd", hidreport("kbd", want))
           /\ UNCHANGED <<want, sLast, left, routeVars, wedged, pairing, dongleVars, busVars, hostVars>>

-----------------------------------------------------------------------------
(* The 10 ms timer.                                                        *)

vbus_debounce_step ==
  db' = IF cable # db.cand
        THEN [db EXCEPT !.cand = cable, !.since = 0]
        ELSE [db EXCEPT !.since = UpTo(DEBOUNCE, @ + 1),
                        !.stable = IF db.since + 1 >= DEBOUNCE THEN cable ELSE @]

kbd_route_target(present) == IF present THEN "usb" ELSE "rf"

\* Faulty variant: repeats for ever (the behaviour measured on 2026-09-05).
kbd_refresh_step_endless == left > 0 /\ left' = left

kbd_refresh_step == left > 0 /\ left' = left - 1

kbd_relay_refresh_cb ==
  /\ vbus_debounce_step
  /\ route' = kbd_route_target(db'.stable)
  /\ IF route' = "rf" /\ left > 0
     THEN kbd_refresh_step /\ rf_driver_send("kbd", hidreport("kbd", sLast))
     ELSE UNCHANGED <<left, radioVars>>

\* Ten milliseconds pass; the dongle's semaphore wait has timed out.
Tick == /\ pc = "wait"
        /\ kbd_relay_refresh_cb
        /\ link' = [s \in Slot |-> [link[s] EXCEPT !.age = UpTo(LOST + 1, @ + 1)]]
        /\ quiet' = [s \in Slot |-> UpTo(REARM + 1, quiet[s] + 1)]
        /\ pc' = IF pairing THEN "pair" ELSE "kbd"
        /\ UNCHANGED <<want, tx, sLast, cable, wedged, pairing, busVars, hostVars>>

-----------------------------------------------------------------------------
(* The dongle: rf_rx_task.                                                 *)

\* The interrupt of a radio wakes the task before the tick.
Wake == /\ pc = "wait" /\ \E s \in Slot : fifo[s] # <<>>
        /\ pc' = IF pairing THEN "pair" ELSE "kbd"
        /\ UNCHANGED <<kbdVars, routeVars, radioVars, wedged, pairing, link, quiet, busVars, hostVars>>

\* hid_send_keyboard and hid_send_mouse; nobody looks at the result.
Deliver(news) ==
  IF bus
  THEN /\ host' = [s \in Slot |-> IF s \in DOMAIN news THEN news[s] ELSE host[s]]
       /\ missed' = [s \in Slot |-> s \notin DOMAIN news /\ missed[s]]
  ELSE /\ host' = host
       /\ missed' = [s \in Slot |-> s \in DOMAIN news \/ missed[s]]

\* Faulty variant: only heartbeats prove that the link is alive.
rf_slot_link_rx_heartbeatOnly(s) == UNCHANGED link

rf_slot_link_rx(s) == link' = [link EXCEPT ![s] = [age |-> 0, up |-> TRUE]]

\* drain_radio takes packets until the FIFO is empty: the radio tells which slot is
\* alive, the packet what it is a report of.
Drain(s) == /\ pc = s /\ fifo[s] # <<>>
            /\ fifo' = [fifo EXCEPT ![s] = Tail(@)]
            /\ rf_slot_link_rx(s)
            /\ Deliver([t \in {Head(fifo[s]).sub} |-> Head(fifo[s]).rep])
            /\ UNCHANGED <<kbdVars, routeVars, losses, wedged, pairing, pc, quiet, busVars>>

Drained(s) == /\ pc = s /\ fifo[s] = <<>>
              /\ pc' = IF s = "kbd" THEN "mouse" ELSE "check"
              /\ UNCHANGED <<kbdVars, routeVars, radioVars, wedged, pairing, link, quiet, busVars, hostVars>>

\* Faulty variant: one turn too late.
LostSlots_late == {s \in Slot : link[s].up /\ link[s].age > LOST}

\* rf_slot_link_check, on each slot.
LostSlots == {s \in Slot : link[s].up /\ link[s].age >= LOST}

Check == /\ pc = "check" /\ pc' = "watchdog"
         /\ link' = [s \in Slot |-> [link[s] EXCEPT !.up = @ /\ s \notin LostSlots]]
         /\ Deliver([s \in LostSlots |-> Released(s)])
         /\ UNCHANGED <<kbdVars, routeVars, radioVars, wedged, pairing, quiet, busVars>>

\* Faulty variant: a slot that was never heard is left alone.
SilentSlots_ifUp == {s \in Slot : link[s].up /\ link[s].age > REARM /\ quiet[s] > REARM}

SilentSlots == {s \in Slot : link[s].age > REARM /\ quiet[s] > REARM}

\* rf_rx_watchdog: re-arming flushes what has arrived since the drain.
Watchdog ==
  /\ pc = "watchdog" /\ pc' = "wait"
  /\ fifo' = [s \in Slot |-> IF s \in SilentSlots THEN <<>> ELSE fifo[s]]
  /\ Lose(IF "kbd" \in SilentSlots THEN Len(fifo["kbd"]) ELSE 0)
  /\ wedged' = [s \in Slot |-> wedged[s] /\ s \notin SilentSlots]
  /\ quiet' = [s \in Slot |-> IF s \in SilentSlots THEN 0 ELSE quiet[s]]
  /\ UNCHANGED <<kbdVars, routeVars, pairing, link, busVars, hostVars>>

-----------------------------------------------------------------------------
(* The pairing window, as far as it concerns the link.                     *)

\* rf_rx_pair_start, on the CDC task.
PairStart == /\ "pairing" \in env /\ ~pairing /\ pairing' = TRUE
             /\ UNCHANGED <<kbdVars, routeVars, radioVars, wedged, dongleVars, busVars, hostVars>>

\* rf_rx_pairing_service reads everything radio 1 holds as pairing requests;
\* the rest of the turn is skipped.
PairService == /\ pc = "pair" /\ pc' = "wait"
               /\ fifo' = [fifo EXCEPT !["kbd"] = <<>>]
               /\ Lose(Len(fifo["kbd"]))
               /\ UNCHANGED <<kbdVars, routeVars, wedged, pairing, link, quiet, busVars, hostVars>>

\* The deadline has passed, or both slots are paired.
PairEnd == /\ pc = "pair" /\ pc' = "wait" /\ pairing' = FALSE
           /\ UNCHANGED <<kbdVars, routeVars, radioVars, wedged, link, quiet, busVars, hostVars>>

-----------------------------------------------------------------------------
(* What happens around them.                                               *)

Cable == /\ "cable" \in env /\ cable' = ~cable
         /\ UNCHANGED <<kbdVars, db, route, radioVars, wedged, pairing, dongleVars, busVars, hostVars>>

\* Suspend and resume of the dongle's USB bus.
Bus == /\ "suspend" \in env /\ bus' = ~bus
       /\ UNCHANGED <<kbdVars, routeVars, radioVars, wedged, pairing, dongleVars, env, hostVars>>

Wedge(s) == /\ "deaf" \in env /\ s \in Deaf /\ ~wedged[s]
            /\ wedged' = [wedged EXCEPT ![s] = TRUE]
            /\ UNCHANGED <<kbdVars, routeVars, radioVars, pairing, dongleVars, busVars, hostVars>>

-----------------------------------------------------------------------------
Relay == WriteMod \/ WriteKeys \/ SendNow
Dongle == \/ Wake \/ Check \/ Watchdog \/ PairService
          \/ \E s \in Slot : Drain(s) \/ Drained(s)
Around == \/ PairStart \/ Cable \/ Bus
          \/ \E s \in Slot : Wedge(s)
          \/ \E b \in Payload("mouse") : MouseSend(b)

Next == \/ \E r \in Report : Type(r)
        \/ Relay \/ Tick \/ Dongle \/ PairEnd \/ Around

Spec == Init /\ [][Next]_vars

\* Time passes, both processors run, reading a FIFO over SPI outpaces the air,
\* and a pairing window has a deadline.  Nobody has to type, to be heard, to
\* plug in or to resume.
Fairness == /\ SF_vars(Tick) /\ SF_vars(PairEnd)
            /\ WF_vars(Relay) /\ WF_vars(Dongle)
            /\ SF_vars(Drained("kbd")) /\ SF_vars(Drained("mouse"))

FairSpec == Spec /\ Fairness
-----------------------------------------------------------------------------
(* Properties.                                                             *)

\* What the host believes of a slot changes only by a packet that the radio of that
\* slot has brought, or because that radio, and not the other, has been silent for
\* LINK_LOST_MS (rf_slot.h lines 8-12): the packets are told apart by what they bear,
\* the silence by the radio, and no packet of one comes by the other.
SlotIsolation ==
  [][\A s \in Slot : host'[s] # host[s] =>
        \/ fifo[s] # <<>> /\ host'[s] = Head(fifo[s]).rep /\ fifo'[s] = Tail(fifo[s])
        \/ link[s].age >= LOST /\ host'[s] = Released(s)]_vars

\* A slot held for lost holds nothing on the host, unless the host refused the
\* last report; whatever the order of packets, losses, windows and re-arms.
LostMeansReleased ==
  \A s \in Slot : ~link[s].up /\ ~missed[s] => host[s] = Released(s)

\* Once the repetitions are over, at most REPEATS losses of the same report,
\* watchdog flushes and pairing windows counted, do not leave the host on an
\* older one.
SelfHeals ==
  /\ tx = "idle" /\ left = 0 /\ fifo["kbd"] = <<>> /\ pc # "kbd"
  /\ losses <= REPEATS /\ link["kbd"].up /\ ~missed["kbd"]
  => host["kbd"] = sLast

\* A silent slot is declared lost in the turn that follows LINK_LOST_MS
\* (rf_slot.h line 82: the check is called at every turn of the RF loop; a pairing
\* window skips it).
PromptRelease == "pairing" \in env \/ \A s \in Slot : link[s].up => link[s].age <= LOST

\* The watchdog brings every deaf radio back, if pairing windows stop.
RadioRecovers == <>[](~pairing) => \A s \in Slot : wedged[s] ~> ~wedged[s]

\* Once nobody types the repetitions stop, the keyboard falls silent and the
\* dongle releases what it held, unless its host refuses.
IdleFallsSilent ==
  <>[](tx = "idle") /\ <>[](~pairing) =>
     <>[](host["kbd"] = Released("kbd") \/ missed["kbd"])
=============================================================================
