--------------------------- MODULE RfLink_proofs ---------------------------
(***************************************************************************)
(* Theorems about RfLink, for every set of reports, every depth of the     *)
(* receive FIFO and every value of the delays.                             *)
(***************************************************************************)
EXTENDS RfLink, TLAPS

USE RfAssumption

-----------------------------------------------------------------------------
(* Types, and what each radio brings.                                      *)

\* The packets a sender of the slot makes.
OwnPacket(s) == [sub : {s}, rep : Payload(s)]

\* A packet comes by the radio of the slot it bears a report of: the dongle tells
\* reports apart by the packet and lost links by the radio, and the two agree.
FifoOwn == /\ DOMAIN fifo = Slot
           /\ \A s \in Slot : fifo[s] \in Seq(OwnPacket(s)) /\ Len(fifo[s]) <= FIFO

IInv == KbdType /\ RouteType /\ FifoOwn /\ RadioType /\ DongleType /\ HostType

\* Taking and adding a packet keep the type and the bound of a FIFO.
LEMMA FifoFacts ==
  ASSUME NEW S, NEW q \in Seq(S), Len(q) <= FIFO
  PROVE  /\ <<>> \in Seq(S) /\ Len(<<>>) = 0
         /\ Len(q) \in Nat
         /\ q # <<>> => /\ Head(q) \in S
                        /\ Tail(q) \in Seq(S) /\ Len(Tail(q)) <= FIFO
         /\ Len(q) < FIFO => \A p \in S : /\ Append(q, p) \in Seq(S)
                                          /\ Len(Append(q, p)) <= FIFO
OBVIOUS

LEMMA UpToFacts ==
  ASSUME NEW b \in Nat, NEW n \in Nat
  PROVE  UpTo(b, n) \in 0..b
BY DEF UpTo

LEMMA ReleasedType == \A s \in Slot : Released(s) \in Payload(s)
BY DEF Slot, Released, Payload

LEMMA InitType == Init => IInv
<1> SUFFICES ASSUME Init PROVE IInv
  OBVIOUS
<1>1. KbdType
  BY DEF Init, KbdType
<1>2. RouteType
  <2>1. [stable |-> FALSE, cand |-> FALSE, since |-> 0]
          \in [stable : BOOLEAN, cand : BOOLEAN, since : 0..DEBOUNCE]
    OBVIOUS
  <2> QED
    BY <2>1, Zenon DEF Init, RouteType
<1>3. FifoOwn
  <2>1. \A S : <<>> \in Seq(S) /\ Len(<<>>) <= FIFO
    OBVIOUS
  <2> QED
    BY <2>1 DEF Init, FifoOwn
<1>4. RadioType
  <2>1. 0 \in 0..REPEATS + 1
    OBVIOUS
  <2> QED
    BY <2>1 DEF Init, RadioType
<1>5. DongleType
  <2>1. 0 \in 0..LOST + 1 /\ 0 \in 0..REARM + 1
    OBVIOUS
  <2>2. [age |-> 0, up |-> FALSE] \in [age : 0..LOST + 1, up : BOOLEAN]
    BY <2>1
  <2> QED
    BY <2>1, <2>2 DEF Init, DongleType
<1>6. HostType
  BY ReleasedType DEF Init, HostType
<1> QED
  BY <1>1, <1>2, <1>3, <1>4, <1>5, <1>6 DEF IInv

\* Losing packets keeps the count within its cap.
LEMMA LoseType ==
  ASSUME RadioType, NEW n \in Nat, Lose(n)
  PROVE  losses' \in 0..REPEATS + 1
<1>1. REPEATS + 1 \in Nat /\ losses + n \in Nat
  BY DEF RadioType
<1> QED
  BY <1>1, UpToFacts DEF Lose

\* What a transmission does to the FIFOs and to the count of losses.
LEMMA SendType ==
  ASSUME FifoOwn, RadioType, NEW s \in Slot, NEW p \in OwnPacket(s),
         rf_driver_send(s, p)
  PROVE  FifoOwn' /\ losses' \in 0..REPEATS + 1
<1>1. CASE CanHear(s) /\ fifo' = [fifo EXCEPT ![s] = Append(@, p)] /\ UNCHANGED losses
  <2>1. fifo[s] \in Seq(OwnPacket(s)) /\ Len(fifo[s]) < FIFO
    BY <1>1 DEF FifoOwn, CanHear
  <2>2. Append(fifo[s], p) \in Seq(OwnPacket(s)) /\ Len(Append(fifo[s], p)) <= FIFO
    BY <2>1
  <2>3. FifoOwn'
    BY <1>1, <2>2 DEF FifoOwn
  <2> QED
    BY <1>1, <2>3 DEF RadioType
<1>2. CASE UNCHANGED fifo /\ IF s = "kbd" THEN Lose(1) ELSE UNCHANGED losses
  <2>1. losses' \in 0..REPEATS + 1
    BY <1>2, LoseType DEF RadioType
  <2> QED
    BY <1>2, <2>1 DEF FifoOwn
<1> QED
  BY <1>1, <1>2 DEF rf_driver_send

\* What the host believes stays made of packets when packets are delivered.
LEMMA DeliverType ==
  ASSUME HostType, NEW news, DOMAIN news \subseteq Slot,
         \A s \in DOMAIN news : news[s] \in Payload(s),
         Deliver(news), UNCHANGED busVars
  PROVE  HostType'
BY DEF HostType, Deliver, busVars

\* A part of the state that does not change keeps its type.
LEMMA Same ==
  /\ KbdType /\ UNCHANGED kbdVars => KbdType'
  /\ RouteType /\ UNCHANGED routeVars => RouteType'
  /\ FifoOwn /\ UNCHANGED fifo => FifoOwn'
  /\ RadioType /\ UNCHANGED <<losses, wedged, pairing>> => RadioType'
  /\ DongleType /\ UNCHANGED dongleVars => DongleType'
  /\ HostType /\ UNCHANGED <<busVars, hostVars>> => HostType'
BY Zenon DEF KbdType, RouteType, FifoOwn, RadioType, DongleType, HostType,
       kbdVars, routeVars, dongleVars, busVars, hostVars

\* The sender task and the mouse.
LEMMA KeyboardStepType ==
  ASSUME IInv, (\E r \in Report : Type(r)) \/ Relay \/ (\E b \in Payload("mouse") : MouseSend(b))
  PROVE  IInv'
<1>1. ASSUME NEW r \in Report, Type(r) PROVE IInv'
  <2>1. KbdType'
    BY <1>1 DEF Type, IInv, KbdType
  <2> QED
    BY <1>1, <2>1, Same DEF Type, IInv, radioVars
<1>2. CASE WriteMod
  <2>1. KbdType'
    BY <1>2 DEF WriteMod, IInv, KbdType
  <2> QED
    BY <1>2, <2>1, Same DEF WriteMod, IInv, radioVars
<1>3. CASE WriteKeys
  <2>1. KbdType'
    BY <1>3 DEF WriteKeys, IInv, KbdType
  <2>2. RadioType'
    BY <1>3 DEF WriteKeys, IInv, RadioType
  <2> QED
    BY <1>3, <2>1, <2>2, Same DEF WriteKeys, IInv
<1>4. CASE SendNow
  <2>1. KbdType'
    BY <1>4 DEF SendNow, IInv, KbdType
  <2>2. "kbd" \in Slot /\ hidreport("kbd", want) \in OwnPacket("kbd")
    BY DEF IInv, KbdType, Slot, OwnPacket, Payload, hidreport
  <2>3. FifoOwn' /\ losses' \in 0..REPEATS + 1
    BY <1>4, <2>2, SendType DEF SendNow, IInv
  <2>4. RadioType'
    BY <1>4, <2>3 DEF SendNow, IInv, RadioType
  <2> QED
    BY <1>4, <2>1, <2>3, <2>4, Same DEF SendNow, IInv
<1>5. ASSUME NEW b \in Payload("mouse"), MouseSend(b) PROVE IInv'
  <2>0. "mouse" \in Slot /\ hidreport("mouse", b) \in OwnPacket("mouse")
    BY DEF Slot, OwnPacket, Payload, hidreport
  <2>1. FifoOwn' /\ losses' \in 0..REPEATS + 1
    BY <1>5, <2>0, SendType DEF MouseSend, IInv
  <2>2. RadioType'
    BY <1>5, <2>1 DEF MouseSend, IInv, RadioType
  <2> QED
    BY <1>5, <2>1, <2>2, Same DEF MouseSend, IInv
<1> QED
  BY <1>1, <1>2, <1>3, <1>4, <1>5 DEF Relay

\* The 10 ms timer.
LEMMA TickType ==
  ASSUME IInv, Tick
  PROVE  IInv'
<1>1. RouteType'
  <2>1. db' \in [stable : BOOLEAN, cand : BOOLEAN, since : 0..DEBOUNCE]
    <3>1. db \in [stable : BOOLEAN, cand : BOOLEAN, since : 0..DEBOUNCE] /\ cable \in BOOLEAN
      BY DEF IInv, RouteType
    <3>2. 0 \in 0..DEBOUNCE /\ UpTo(DEBOUNCE, db.since + 1) \in 0..DEBOUNCE
      BY <3>1 DEF UpTo
    <3> QED
      BY <3>1, <3>2 DEF Tick, kbd_relay_refresh_cb, vbus_debounce_step
  <2> QED
    BY <2>1 DEF Tick, kbd_relay_refresh_cb, kbd_route_target, IInv, RouteType
<1>2. KbdType' /\ FifoOwn' /\ losses' \in 0..REPEATS + 1
  <2>1. CASE left > 0 /\ left' = left - 1 /\ rf_driver_send("kbd", hidreport("kbd", sLast))
    <3>1. "kbd" \in Slot /\ hidreport("kbd", sLast) \in OwnPacket("kbd")
      BY DEF IInv, KbdType, Slot, OwnPacket, Payload, hidreport
    <3>2. FifoOwn' /\ losses' \in 0..REPEATS + 1
      BY <2>1, <3>1, SendType DEF IInv
    <3>3. KbdType'
      BY <2>1 DEF Tick, IInv, KbdType
    <3> QED
      BY <3>2, <3>3
  <2>2. CASE UNCHANGED <<left, radioVars>>
    BY <2>2 DEF Tick, IInv, KbdType, FifoOwn, RadioType, radioVars
  <2> QED
    BY <2>1, <2>2 DEF Tick, kbd_relay_refresh_cb, kbd_refresh_step
<1>3. RadioType'
  BY <1>2 DEF Tick, IInv, RadioType
<1>4. DongleType'
  <2>1. \A s \in Slot : /\ UpTo(LOST + 1, link[s].age + 1) \in 0..LOST + 1
                        /\ UpTo(REARM + 1, quiet[s] + 1) \in 0..REARM + 1
                        /\ link[s] \in [age : 0..LOST + 1, up : BOOLEAN]
    BY DEF IInv, DongleType, UpTo
  <2> QED
    BY <2>1 DEF Tick, IInv, DongleType
<1>5. HostType'
  BY Same DEF Tick, IInv
<1> QED
  BY <1>1, <1>2, <1>3, <1>4, <1>5 DEF IInv

\* The dongle's loop.
LEMMA DongleStepType ==
  ASSUME IInv, Dongle \/ PairEnd
  PROVE  IInv'
<1>1. CASE Wake
  <2>1. DongleType'
    BY <1>1 DEF Wake, IInv, DongleType
  <2> QED
    BY <1>1, <2>1, Same DEF Wake, IInv, radioVars
<1>2. ASSUME NEW s \in Slot, Drain(s) PROVE IInv'
  <2>1. /\ Head(fifo[s]) \in OwnPacket(s)
        /\ Tail(fifo[s]) \in Seq(OwnPacket(s)) /\ Len(Tail(fifo[s])) <= FIFO
    BY <1>2, FifoFacts DEF Drain, IInv, FifoOwn
  <2>2. FifoOwn'
    BY <1>2, <2>1 DEF Drain, IInv, FifoOwn
  <2>3. DongleType'
    <3>1. [age |-> 0, up |-> TRUE] \in [age : 0..LOST + 1, up : BOOLEAN]
      OBVIOUS
    <3> QED
      BY <1>2, <3>1 DEF Drain, rf_slot_link_rx, IInv, DongleType
  <2>4. HostType'
    <3>1. Head(fifo[s]).sub = s /\ Head(fifo[s]).rep \in Payload(s)
      BY <2>1 DEF OwnPacket
    <3> QED
      BY <1>2, <3>1, DeliverType DEF Drain, IInv
  <2> QED
    BY <1>2, <2>2, <2>3, <2>4, Same DEF Drain, IInv
<1>3. ASSUME NEW s \in Slot, Drained(s) PROVE IInv'
  <2>1. DongleType'
    BY <1>3 DEF Drained, IInv, DongleType
  <2> QED
    BY <1>3, <2>1, Same DEF Drained, IInv, radioVars
<1>4. CASE Check
  <2>1. DongleType'
    <3>1. \A s \in Slot : link[s] \in [age : 0..LOST + 1, up : BOOLEAN]
      BY DEF IInv, DongleType
    <3>2. \A s \in Slot : [link[s] EXCEPT !.up = @ /\ s \notin LostSlots]
                            \in [age : 0..LOST + 1, up : BOOLEAN]
      BY <3>1
    <3> QED
      BY <1>4, <3>2 DEF Check, IInv, DongleType
  <2>2. HostType'
    <3>1. LostSlots \subseteq Slot
      BY DEF LostSlots
    <3> DEFINE news == [s \in LostSlots |-> Released(s)]
    <3>2. DOMAIN news \subseteq Slot /\ \A s \in DOMAIN news : news[s] \in Payload(s)
      BY <3>1, ReleasedType
    <3> QED
      BY <1>4, <3>2, DeliverType DEF Check, IInv
  <2> QED
    BY <1>4, <2>1, <2>2, Same DEF Check, IInv, radioVars
<1>5. CASE Watchdog
  <2>1. FifoOwn'
    <3>1. \A S : <<>> \in Seq(S) /\ Len(<<>>) <= FIFO
      OBVIOUS
    <3> QED
      BY <1>5, <3>1 DEF Watchdog, IInv, FifoOwn
  <2>2. RadioType'
    <3>1. Len(fifo["kbd"]) \in Nat
      BY FifoFacts DEF IInv, FifoOwn, Slot
    <3>2. losses' \in 0..REPEATS + 1
      BY <1>5, <3>1, LoseType DEF Watchdog, IInv
    <3> QED
      BY <1>5, <3>2 DEF Watchdog, IInv, RadioType
  <2>3. DongleType'
    <3>1. 0 \in 0..REARM + 1
      OBVIOUS
    <3> QED
      BY <1>5, <3>1 DEF Watchdog, IInv, DongleType
  <2> QED
    BY <1>5, <2>1, <2>2, <2>3, Same DEF Watchdog, IInv
<1>6. CASE PairService
  <2>1. FifoOwn'
    <3>1. \A S : <<>> \in Seq(S) /\ Len(<<>>) <= FIFO
      OBVIOUS
    <3> QED
      BY <1>6, <3>1 DEF PairService, IInv, FifoOwn
  <2>2. RadioType'
    <3>1. Len(fifo["kbd"]) \in Nat
      BY FifoFacts DEF IInv, FifoOwn, Slot
    <3>2. losses' \in 0..REPEATS + 1
      BY <1>6, <3>1, LoseType DEF PairService, IInv
    <3> QED
      BY <1>6, <3>2 DEF PairService, IInv, RadioType
  <2>3. DongleType'
    BY <1>6 DEF PairService, IInv, DongleType
  <2> QED
    BY <1>6, <2>1, <2>2, <2>3, Same DEF PairService, IInv
<1>7. CASE PairEnd
  <2>1. RadioType' /\ DongleType'
    BY <1>7 DEF PairEnd, IInv, RadioType, DongleType, radioVars
  <2> QED
    BY <1>7, <2>1, Same DEF PairEnd, IInv, radioVars
<1> QED
  BY <1>1, <1>2, <1>3, <1>4, <1>5, <1>6, <1>7 DEF Dongle

\* The environment.
LEMMA AroundType ==
  ASSUME IInv, PairStart \/ Cable \/ Bus \/ \E s \in Slot : Wedge(s)
  PROVE  IInv'
<1>1. CASE PairStart
  <2>1. RadioType'
    BY <1>1 DEF PairStart, IInv, RadioType, radioVars
  <2> QED
    BY <1>1, <2>1, Same DEF PairStart, IInv, radioVars
<1>2. CASE Cable
  <2>1. RouteType'
    BY <1>2 DEF Cable, IInv, RouteType
  <2> QED
    BY <1>2, <2>1, Same DEF Cable, IInv, radioVars
<1>3. CASE Bus
  <2>1. HostType'
    BY <1>3 DEF Bus, IInv, HostType, hostVars
  <2> QED
    BY <1>3, <2>1, Same DEF Bus, IInv, radioVars
<1>4. ASSUME NEW s \in Slot, Wedge(s) PROVE IInv'
  <2>1. RadioType'
    BY <1>4 DEF Wedge, IInv, RadioType, radioVars
  <2> QED
    BY <1>4, <2>1, Same DEF Wedge, IInv, radioVars
<1> QED
  BY <1>1, <1>2, <1>3, <1>4

LEMMA Invariance == Spec => []IInv
<1>1. Init => IInv
  BY InitType
<1>2. IInv /\ [Next]_vars => IInv'
  <2>1. IInv /\ UNCHANGED vars => IInv'
    BY Same DEF vars, radioVars, IInv
  <2> QED
    BY <2>1, KeyboardStepType, TickType, DongleStepType, AroundType DEF Next, Around
<1> QED
  BY <1>1, <1>2, PTL DEF Spec

\* No FIFO overflows, and the timers of the dongle and the repetitions of the
\* keyboard stay in their range.
THEOREM TypeCorrect == Spec => []TypeOK
<1>1. IInv => TypeOK
  <2>1. \A s \in Slot : OwnPacket(s) \subseteq Packet
    BY DEF OwnPacket, Packet
  <2>2. FifoOwn => FifoType
    BY <2>1 DEF FifoOwn, FifoType
  <2> QED
    BY <2>2 DEF IInv, TypeOK
<1> QED
  BY <1>1, Invariance, PTL

\* What a radio has brought is a report of its slot.
LEMMA HeadIsOwn ==
  ASSUME IInv, NEW s \in Slot, fifo[s] # <<>>
  PROVE  Head(fifo[s]) \in OwnPacket(s) /\ Head(fifo[s]).sub = s
<1>1. fifo[s] \in Seq(OwnPacket(s)) /\ Len(fifo[s]) <= FIFO
  BY DEF IInv, FifoOwn
<1>2. Head(fifo[s]) \in OwnPacket(s)
  BY <1>1, FifoFacts
<1> QED
  BY <1>2 DEF OwnPacket

-----------------------------------------------------------------------------
(* A slot held for lost holds nothing on the host.                         *)

\* Only the dongle's loop touches what the host believes and what is lost.
LEMMA OthersLeaveHost ==
  ASSUME [Next]_vars, ~ \E s \in Slot : Drain(s), ~Check
  PROVE  UNCHANGED hostVars /\ \A s \in Slot : IInv => link'[s].up = link[s].up
<1>1. CASE UNCHANGED vars
  BY <1>1 DEF vars, hostVars, dongleVars
<1>2. CASE Tick
  <2>1. UNCHANGED hostVars
    BY <1>2 DEF Tick
  <2>2. \A s \in Slot : IInv => link'[s].up = link[s].up
    BY <1>2 DEF Tick, IInv, DongleType
  <2> QED
    BY <2>1, <2>2
<1>3. CASE Watchdog
  BY <1>3 DEF Watchdog, hostVars
<1>4. CASE (\E r \in Report : Type(r)) \/ Relay
  BY <1>4 DEF Type, Relay, WriteMod, WriteKeys, SendNow, hostVars, dongleVars
<1>5. CASE Wake \/ PairService \/ PairEnd \/ \E s \in Slot : Drained(s)
  BY <1>5 DEF Wake, PairService, PairEnd, Drained, hostVars
<1>6. CASE Around
  BY <1>6 DEF Around, PairStart, Cable, Bus, Wedge, MouseSend, hostVars, dongleVars
<1> QED
  BY <1>1, <1>2, <1>3, <1>4, <1>5, <1>6 DEF Next, Dongle

\* After LINK_LOST_MS of silence the host has been told that the slot holds
\* nothing, or has refused to hear it; this is inductive with the types.
THEOREM LostReleased == Spec => []LostMeansReleased
<1>1. Init => LostMeansReleased
  BY DEF Init, LostMeansReleased
<1>2. IInv /\ LostMeansReleased /\ [Next]_vars => LostMeansReleased'
  <2> SUFFICES ASSUME IInv, LostMeansReleased, [Next]_vars
               PROVE  LostMeansReleased'
    OBVIOUS
  <2>1. ASSUME NEW s \in Slot, Drain(s) PROVE LostMeansReleased'
    <3>1. link'[s].up /\ \A t \in Slot \ {s} : link'[t] = link[t]
      BY <2>1 DEF Drain, rf_slot_link_rx, IInv, DongleType
    <3>2. \A t \in Slot \ {s} : host'[t] = host[t] /\ missed'[t] = missed[t]
      BY <2>1, HeadIsOwn DEF Drain, Deliver, IInv, HostType
    <3> QED
      BY <3>1, <3>2 DEF LostMeansReleased
  <2>2. CASE Check
    <3>1. \A s \in Slot : link'[s].up = (link[s].up /\ s \notin LostSlots)
      BY <2>2 DEF Check, IInv, DongleType
    <3>2. \A s \in LostSlots : ~missed'[s] => host'[s] = Released(s)
      BY <2>2 DEF Check, Deliver, LostSlots
    <3>3. \A s \in Slot \ LostSlots : host'[s] = host[s] /\ missed'[s] = missed[s]
      BY <2>2 DEF Check, Deliver, IInv, HostType
    <3> QED
      BY <3>1, <3>2, <3>3 DEF LostMeansReleased
  <2>3. CASE ~(\E s \in Slot : Drain(s)) /\ ~Check
    BY <2>3, OthersLeaveHost DEF LostMeansReleased, hostVars
  <2> QED
    BY <2>1, <2>2, <2>3
<1> QED
  BY <1>1, <1>2, Invariance, PTL DEF Spec

-----------------------------------------------------------------------------
(* What the host believes of a slot is that slot's own doing.              *)

\* A mouse that goes out of range does not touch the keys, nor the converse, although
\* drain_radio tells reports apart by the packet and the check of the links by the
\* radio: by FifoOwn the two never differ.
THEOREM Isolation == Spec => SlotIsolation
<1> DEFINE Own(s) ==
      host'[s] # host[s] =>
        \/ fifo[s] # <<>> /\ host'[s] = Head(fifo[s]).rep /\ fifo'[s] = Tail(fifo[s])
        \/ link[s].age >= LOST /\ host'[s] = Released(s)
<1>1. IInv /\ [Next]_vars => \A s \in Slot : Own(s)
  <2> SUFFICES ASSUME IInv, [Next]_vars, NEW t \in Slot PROVE Own(t)
    OBVIOUS
  <2>1. ASSUME NEW s \in Slot, Drain(s) PROVE Own(t)
    <3>1. CASE t = s
      BY <2>1, <3>1, HeadIsOwn DEF Drain, Deliver, IInv, HostType, FifoOwn
    <3>2. CASE t # s
      BY <2>1, <3>2, HeadIsOwn DEF Drain, Deliver, IInv, HostType
    <3> QED
      BY <3>1, <3>2
  <2>2. CASE Check
    <3>1. CASE t \in LostSlots
      BY <2>2, <3>1 DEF Check, Deliver, LostSlots, IInv, HostType
    <3>2. CASE t \notin LostSlots
      BY <2>2, <3>2 DEF Check, Deliver, IInv, HostType
    <3> QED
      BY <3>1, <3>2
  <2>3. CASE ~(\E s \in Slot : Drain(s)) /\ ~Check
    BY <2>3, OthersLeaveHost DEF hostVars
  <2> QED
    BY <2>1, <2>2, <2>3
<1>2. IInv /\ [Next]_vars =>
        [\A s \in Slot : host'[s] # host[s] =>
           \/ fifo[s] # <<>> /\ host'[s] = Head(fifo[s]).rep /\ fifo'[s] = Tail(fifo[s])
           \/ link[s].age >= LOST /\ host'[s] = Released(s)]_vars
  BY <1>1
<1> QED
  BY <1>2, Invariance, PTL DEF Spec, SlotIsolation

-----------------------------------------------------------------------------
(* A silent slot is declared lost in time, as long as no window opens.     *)

\* Between two ticks the loop has checked the links: past the check, a link that
\* is up is younger than LINK_LOST_MS, and a tick ages it by one.
Checked ==
  /\ ~pairing /\ pc # "pair"
  /\ \A s \in Slot : link[s].up => link[s].age <= LOST
  /\ pc \in {"wait", "watchdog"} => \A s \in Slot : link[s].up => link[s].age < LOST

CheckedInv == "pairing" \in env \/ Checked

\* Nothing around the link changes what may happen around it.
LEMMA EnvStays == [Next]_vars => env' = env
BY DEF Next, vars, Type, Relay, WriteMod, WriteKeys, SendNow, Tick, Dongle, Wake, Drain,
       Drained, Check, Watchdog, PairService, PairEnd, Around, PairStart, Cable, Bus, Wedge,
       MouseSend, busVars

\* Without pairing windows, a slot silent for LINK_LOST_MS never survives the
\* next turn of the RF loop (rf_rx_task).
THEOREM Prompt == Spec => []PromptRelease
<1>1. Init => CheckedInv
  BY DEF Init, CheckedInv, Checked
<1>2. IInv /\ CheckedInv /\ [Next]_vars => CheckedInv'
  <2> SUFFICES ASSUME IInv, Checked, [Next]_vars, "pairing" \notin env PROVE Checked'
    BY EnvStays DEF CheckedInv
  <2>1. CASE UNCHANGED vars
    BY <2>1 DEF vars, dongleVars, Checked
  <2>2. CASE (\E r \in Report : Type(r)) \/ Relay \/ Around
    BY <2>2 DEF Type, Relay, WriteMod, WriteKeys, SendNow, Around, PairStart, Cable, Bus,
                Wedge, MouseSend, dongleVars, Checked
  <2>3. CASE Tick
    <3>1. \A s \in Slot : /\ link'[s].up = link[s].up
                          /\ link'[s].age = UpTo(LOST + 1, link[s].age + 1)
                          /\ link[s].age \in Nat
      BY <2>3 DEF Tick, IInv, DongleType
    <3>2. \A s \in Slot : link[s].up => link[s].age < LOST
      BY <2>3 DEF Tick, Checked
    <3>3. \A s \in Slot : link'[s].up => link'[s].age <= LOST
      BY <3>1, <3>2 DEF UpTo
    <3> QED
      BY <2>3, <3>3 DEF Tick, Checked
  <2>4. CASE Wake
    BY <2>4 DEF Wake, Checked, IInv, DongleType
  <2>5. ASSUME NEW s \in Slot, Drain(s) PROVE Checked'
    <3>1. link' = [link EXCEPT ![s] = [age |-> 0, up |-> TRUE]]
      BY <2>5 DEF Drain, rf_slot_link_rx
    <3> QED
      BY <2>5, <3>1 DEF Drain, Checked, IInv, DongleType, Slot
  <2>6. ASSUME NEW s \in Slot, Drained(s) PROVE Checked'
    BY <2>6 DEF Drained, Checked, Slot
  <2>7. CASE Check
    <3>1. \A s \in Slot : /\ link'[s].up => link[s].up /\ s \notin LostSlots
                          /\ link'[s].age = link[s].age
                          /\ link[s].age \in Nat
      <4>1. \A s \in Slot : link[s] \in [age : 0..LOST + 1, up : BOOLEAN]
        BY DEF IInv, DongleType
      <4>2. \A s \in Slot : link'[s] = [link[s] EXCEPT !.up = @ /\ s \notin LostSlots]
        BY <2>7 DEF Check
      <4>3. \A s \in Slot : link'[s].up = (link[s].up /\ s \notin LostSlots)
        BY <4>1, <4>2, Zenon
      <4>4. \A s \in Slot : link[s].age \in Nat
        BY <4>1
      <4>5. \A s \in Slot : link'[s].age = link[s].age
        BY <4>1, <4>2, Zenon
      <4> QED
        BY <4>3, <4>4, <4>5
    <3>2. \A s \in Slot : link[s].up /\ s \notin LostSlots => ~(link[s].age >= LOST)
      BY DEF LostSlots
    <3>3. \A s \in Slot : link'[s].up => link'[s].age < LOST
      BY <3>1, <3>2
    <3>4. \A s \in Slot : link'[s].up => link'[s].age <= LOST
      BY <3>1, <3>3
    <3> QED
      BY <2>7, <3>3, <3>4 DEF Check, Checked
  <2>8. CASE Watchdog
    BY <2>8 DEF Watchdog, Checked
  <2>9. CASE PairService \/ PairEnd
    BY <2>9 DEF PairService, PairEnd, Checked
  <2> QED
    BY <2>1, <2>2, <2>3, <2>4, <2>5, <2>6, <2>7, <2>8, <2>9 DEF Next, Dongle
<1>3. IInv /\ CheckedInv => PromptRelease
  BY DEF IInv, DongleType, CheckedInv, Checked, PromptRelease
<1> QED
  BY <1>1, <1>2, <1>3, Invariance, PTL DEF Spec
-----------------------------------------------------------------------------
(* What the repetitions owe the host.                                      *)

\* The last n packets of q are r.
Ending(q, n, r) == \A i \in 1..Len(q) : i > Len(q) - n => q[i] = r

\* Nothing but the report of the sender is on its way, and the host believes it
\* if it can.
Delivered == /\ Ending(fifo["kbd"], Len(fifo["kbd"]), hidreport("kbd", sLast))
             /\ link["kbd"].up /\ ~missed["kbd"] => host["kbd"] = sLast

\* Of t transmissions of the report, those that were not lost are the newest
\* packets of the FIFO.
InAir(t) == \E n \in 0..Len(fifo["kbd"]) : /\ Ending(fifo["kbd"], n, hidreport("kbd", sLast))
                                           /\ t <= losses + n

Healing(t) == Delivered \/ InAir(t)

\* The transmissions of the report since it was armed.
Sent == REPEATS - left + (IF tx = "send" THEN 0 ELSE 1)

HealInv == /\ tx \in {"idle", "send"} => Healing(Sent)
           /\ tx = "send" => sLast = want

\* What of the state Healing looks at.
KbdView == <<sLast, losses, fifo["kbd"], host["kbd"], missed["kbd"], link["kbd"].up>>

LEMMA EndingAppend ==
  ASSUME NEW S, NEW q \in Seq(S), NEW r \in S, NEW n \in 0..Len(q), Ending(q, n, r)
  PROVE  Ending(Append(q, r), n + 1, r) /\ n + 1 \in 0..Len(Append(q, r))
BY DEF Ending

LEMMA EndingTail ==
  ASSUME NEW S, NEW q \in Seq(S), q # <<>>, NEW r \in S, NEW n \in 0..Len(q), Ending(q, n, r)
  PROVE  /\ n < Len(q) => Ending(Tail(q), n, r) /\ n \in 0..Len(Tail(q))
         /\ n = Len(q) => Head(q) = r /\ Ending(Tail(q), Len(Tail(q)), r)
BY DEF Ending

LEMMA KbdFacts ==
  ASSUME IInv
  PROVE  /\ fifo["kbd"] \in Seq(OwnPacket("kbd")) /\ Len(fifo["kbd"]) \in Nat
         /\ sLast \in Mods \X Keys /\ hidreport("kbd", sLast) \in OwnPacket("kbd")
         /\ losses \in 0..REPEATS + 1 /\ left \in 0..REPEATS
BY DEF IInv, KbdType, FifoOwn, RadioType, Slot, OwnPacket, Payload, hidreport

\* Steps elsewhere.
LEMMA ElsewhereHeals ==
  ASSUME UNCHANGED KbdView, NEW t \in Nat, Healing(t)
  PROVE  Healing(t)'
BY DEF KbdView, Healing, Delivered, InAir, Ending

\* A transmission is one more, received behind the others or lost.
LEMMA SendHeals ==
  ASSUME IInv, NEW t \in 0..REPEATS, Healing(t), rf_driver_send("kbd", hidreport("kbd", sLast)),
         UNCHANGED <<sLast, host["kbd"], missed["kbd"], link["kbd"].up>>
  PROVE  Healing(t + 1)'
<1> DEFINE q == fifo["kbd"]
           p == hidreport("kbd", sLast)
<1>0. /\ q \in Seq(OwnPacket("kbd")) /\ Len(q) \in Nat
      /\ p \in OwnPacket("kbd") /\ losses \in 0..REPEATS + 1
  BY KbdFacts
<1>1. CASE fifo' = [fifo EXCEPT !["kbd"] = Append(@, p)] /\ UNCHANGED losses
  <2>1. fifo'["kbd"] = Append(q, p)
    BY <1>1 DEF IInv, FifoOwn, Slot
  <2>2. CASE Delivered
    <3>1. Len(q) \in 0..Len(q) /\ Ending(q, Len(q), p)
      BY <1>0, <2>2 DEF Delivered
    <3>2. Ending(Append(q, p), Len(q) + 1, p) /\ Len(Append(q, p)) = Len(q) + 1
      BY <1>0, <3>1, EndingAppend
    <3> QED
      BY <2>1, <2>2, <3>2 DEF Healing, Delivered
  <2>3. ASSUME NEW n \in 0..Len(q), Ending(q, n, p), t <= losses + n
        PROVE  InAir(t + 1)'
    <3>1. Ending(Append(q, p), n + 1, p) /\ n + 1 \in 0..Len(Append(q, p))
      BY <1>0, <2>3, EndingAppend
    <3>2. t + 1 <= losses + (n + 1)
      BY <1>0, <2>3
    <3> QED
      BY <1>1, <2>1, <3>1, <3>2 DEF InAir
  <2> QED
    BY <2>2, <2>3 DEF Healing, InAir
<1>2. CASE UNCHANGED fifo /\ Lose(1)
  <2>1. losses' \in 0..REPEATS + 1 /\ \A n \in Nat : t <= losses + n => t + 1 <= losses' + n
    BY <1>0, <1>2 DEF Lose, UpTo
  <2>2. CASE Delivered
    BY <1>2, <2>2 DEF Healing, Delivered
  <2>3. ASSUME NEW n \in 0..Len(q), Ending(q, n, p), t <= losses + n
        PROVE  InAir(t + 1)'
    <3>1. n \in Nat
      BY <1>0
    <3>2. t + 1 <= losses' + n
      BY <2>1, <2>3, <3>1
    <3> QED
      BY <1>2, <2>3, <3>2 DEF InAir
  <2> QED
    BY <2>2, <2>3 DEF Healing, InAir
<1> QED
  BY <1>1, <1>2 DEF rf_driver_send

\* A flush of the FIFO counts what it throws away as lost.
LEMMA FlushHeals ==
  ASSUME IInv, NEW t \in 0..REPEATS + 1, Healing(t),
         fifo'["kbd"] = <<>>, Lose(Len(fifo["kbd"])),
         UNCHANGED <<sLast, host["kbd"], missed["kbd"], link["kbd"].up>>
  PROVE  Healing(t)'
<1> DEFINE q == fifo["kbd"]
<1>0. Len(q) \in Nat /\ losses \in 0..REPEATS + 1
  BY KbdFacts
<1>1. \A n : Ending(<<>>, n, hidreport("kbd", sLast))
  BY DEF Ending
<1>2. CASE Delivered
  BY <1>1, <1>2 DEF Healing, Delivered
<1>3. ASSUME NEW n \in 0..Len(q), t <= losses + n
      PROVE  InAir(t)'
  <2>1. t <= losses' + 0
    BY <1>0, <1>3 DEF Lose, UpTo
  <2>2. 0 \in 0..Len(<<>>)
    OBVIOUS
  <2> QED
    BY <1>1, <2>1, <2>2 DEF InAir
<1> QED
  BY <1>2, <1>3 DEF Healing, InAir

\* Taking a packet brings what is on its way to the host.
LEMMA DrainHeals ==
  ASSUME IInv, NEW t \in Nat, Healing(t), Drain("kbd")
  PROVE  Healing(t)'
<1> DEFINE q == fifo["kbd"]
           p == hidreport("kbd", sLast)
<1>0. /\ q \in Seq(OwnPacket("kbd")) /\ Len(q) \in Nat /\ q # <<>>
      /\ p \in OwnPacket("kbd") /\ p.rep = sLast /\ losses' = losses /\ sLast' = sLast
  BY KbdFacts DEF Drain, kbdVars, hidreport
<1>1. fifo'["kbd"] = Tail(q)
  BY DEF Drain, IInv, FifoOwn, Slot
<1>2. ~missed'["kbd"] => host'["kbd"] = Head(q).rep
  BY HeadIsOwn DEF Drain, Deliver, Slot
<1>3. ASSUME Ending(q, Len(q), p) PROVE Delivered'
  <2>1. Len(q) \in 0..Len(q)
    BY <1>0
  <2>2. Head(q) = p /\ Ending(Tail(q), Len(Tail(q)), p)
    BY <1>0, <1>3, <2>1, EndingTail
  <2> QED
    BY <1>0, <1>1, <1>2, <2>2 DEF Delivered
<1>4. ASSUME NEW n \in 0..Len(q), n # Len(q), Ending(q, n, p), t <= losses + n
      PROVE  InAir(t)'
  <2>1. n < Len(q)
    BY <1>0, <1>4
  <2>2. Ending(Tail(q), n, p) /\ n \in 0..Len(Tail(q))
    BY <1>0, <1>4, <2>1, EndingTail
  <2> QED
    BY <1>0, <1>1, <1>4, <2>2 DEF InAir
<1> QED
  BY <1>3, <1>4 DEF Healing, Delivered, InAir

\* The check turns a link that is lost off, and touches no other.
LEMMA CheckHeals ==
  ASSUME IInv, NEW t \in Nat, Healing(t), Check
  PROVE  Healing(t)'
<1>1. UNCHANGED <<sLast, losses, fifo>>
  BY DEF Check, kbdVars, radioVars
<1>2. "kbd" \in LostSlots => ~link'["kbd"].up
  BY DEF Check, LostSlots, IInv, DongleType
<1>3. "kbd" \notin LostSlots => /\ link'["kbd"].up = link["kbd"].up
                                /\ host'["kbd"] = host["kbd"] /\ missed'["kbd"] = missed["kbd"]
  BY DEF Check, Deliver, Slot, IInv, DongleType, HostType
<1> QED
  BY <1>1, <1>2, <1>3 DEF Healing, Delivered, InAir, Ending

\* A send may lose its copy or put it in the air; a new report starts the count again.
LEMMA KeyboardHeals ==
  ASSUME IInv, HealInv, (\E r \in Report : Type(r)) \/ Relay
  PROVE  HealInv'
<1>1. ASSUME NEW r \in Report, Type(r) PROVE HealInv'
  <2>1. CASE tx' = "idle"
    <3>1. /\ tx = "idle" /\ Sent' = Sent /\ Sent \in Nat
          /\ UNCHANGED KbdView
      BY <1>1, <2>1, KbdFacts DEF Type, Sent, KbdView, radioVars, hostVars, dongleVars
    <3> QED
      BY <2>1, <3>1, ElsewhereHeals DEF HealInv
  <2> QED
    BY <1>1, <2>1 DEF Type, HealInv
<1>2. CASE WriteMod
  BY <1>2 DEF WriteMod, HealInv
<1>3. CASE WriteKeys
  <2>1. Sent' = 0 /\ losses' = 0 /\ sLast' = want' /\ fifo' = fifo
    BY <1>3 DEF WriteKeys, Sent
  <2>2. 0 \in 0..Len(fifo["kbd"]) /\ Ending(fifo["kbd"], 0, hidreport("kbd", want))
    BY KbdFacts DEF Ending
  <2>3. InAir(0)'
    BY <1>3, <2>1, <2>2 DEF WriteKeys, InAir
  <2> QED
    BY <2>1, <2>3 DEF HealInv, Healing
<1>4. CASE SendNow
  <2>1. /\ tx = "send" /\ tx' = "idle" /\ sLast = want
        /\ rf_driver_send("kbd", hidreport("kbd", sLast))
        /\ UNCHANGED <<sLast, left, host["kbd"], missed["kbd"], link["kbd"].up>>
    BY <1>4 DEF SendNow, HealInv, hostVars, dongleVars
  <2>2. Sent \in 0..REPEATS /\ Sent' = Sent + 1
    BY <2>1, KbdFacts DEF Sent
  <2>3. Healing(Sent)
    BY <2>1 DEF HealInv
  <2> DEFINE t == REPEATS - left
  <2>4. Healing(t + 1)'
    BY <2>1, <2>2, <2>3, SendHeals DEF Sent
  <2> QED
    BY <2>1, <2>2, <2>4 DEF HealInv, Sent
<1> QED
  BY <1>1, <1>2, <1>3, <1>4 DEF Relay

\* The timer repeats what the sender last armed.
LEMMA TickHeals ==
  ASSUME IInv, HealInv, Tick
  PROVE  HealInv'
<1>0. UNCHANGED <<want, tx, sLast, host["kbd"], missed["kbd"], link["kbd"].up>>
  BY DEF Tick, hostVars, IInv, DongleType, Slot
<1>1. CASE left > 0 /\ left' = left - 1 /\ rf_driver_send("kbd", hidreport("kbd", sLast))
  <2>1. CASE tx \in {"idle", "send"}
    <3>1. Sent \in 0..REPEATS /\ Sent' = Sent + 1
      <4>1. left \in 1..REPEATS /\ left' = left - 1 /\ tx' = tx
        BY <1>0, <1>1, KbdFacts
      <4> QED
        BY <2>1, <4>1 DEF Sent
    <3>2. ASSUME NEW t \in 0..REPEATS, t = Sent PROVE Healing(t + 1)'
      BY <1>0, <1>1, <2>1, <3>2, SendHeals DEF HealInv
    <3> QED
      BY <1>0, <2>1, <3>1, <3>2 DEF HealInv
  <2> QED
    BY <1>0, <2>1 DEF HealInv
<1>2. CASE UNCHANGED <<left, radioVars>>
  <2>1. UNCHANGED KbdView /\ Sent' = Sent
    BY <1>0, <1>2 DEF KbdView, Sent, radioVars
  <2>2. tx \in {"idle", "send"} => Sent \in Nat
    BY KbdFacts DEF Sent
  <2> QED
    BY <1>0, <2>1, <2>2, ElsewhereHeals DEF HealInv
<1> QED
  BY <1>1, <1>2 DEF Tick, kbd_relay_refresh_cb, kbd_refresh_step

\* The dongle and the environment do not touch the keyboard.
LEMMA AirHeals ==
  ASSUME IInv, HealInv, Dongle \/ PairEnd \/ Around
  PROVE  HealInv'
<1>0. UNCHANGED <<want, tx, sLast, left>> /\ Sent' = Sent /\ Sent \in 0..REPEATS + 1
  <2>1. UNCHANGED <<want, tx, sLast, left>>
    BY DEF Dongle, Wake, Check, Watchdog, PairService, Drain, Drained, PairEnd, Around,
           PairStart, Cable, Bus, Wedge, MouseSend, kbdVars
  <2> QED
    BY <2>1, KbdFacts DEF Sent
<1> SUFFICES ASSUME NEW t \in 0..REPEATS + 1, Healing(t) PROVE Healing(t)'
  BY <1>0 DEF HealInv
<1>1. t \in Nat
  OBVIOUS
<1>2. CASE Drain("kbd")
  BY <1>1, <1>2, DrainHeals
<1>3. CASE Check
  BY <1>1, <1>3, CheckHeals
<1>4. CASE Watchdog
  <2>1. UNCHANGED <<sLast, host["kbd"], missed["kbd"], link["kbd"].up>>
    BY <1>4 DEF Watchdog, kbdVars, hostVars
  <2>2. CASE "kbd" \in SilentSlots
    <3>1. fifo'["kbd"] = <<>> /\ Lose(Len(fifo["kbd"]))
      BY <1>4, <2>2 DEF Watchdog, Slot
    <3> QED
      BY <2>1, <3>1, FlushHeals
  <2>3. CASE "kbd" \notin SilentSlots
    <3>1. fifo'["kbd"] = fifo["kbd"] /\ losses' = losses
      BY <1>4, <2>3, KbdFacts DEF Watchdog, Slot, Lose, UpTo
    <3> QED
      BY <1>1, <2>1, <3>1, ElsewhereHeals DEF KbdView
  <2> QED
    BY <2>2, <2>3
<1>5. CASE PairService
  <2>1. /\ UNCHANGED <<sLast, host["kbd"], missed["kbd"], link["kbd"].up>>
        /\ fifo'["kbd"] = <<>> /\ Lose(Len(fifo["kbd"]))
    BY <1>5 DEF PairService, kbdVars, hostVars, IInv, FifoOwn, Slot
  <2> QED
    BY <2>1, FlushHeals
<1>6. CASE Drain("mouse")
  <2>1. UNCHANGED KbdView
    BY <1>6, HeadIsOwn DEF Drain, rf_slot_link_rx, Deliver, KbdView, kbdVars,
                IInv, FifoOwn, DongleType, HostType, Slot
  <2> QED
    BY <1>1, <2>1, ElsewhereHeals
<1>7. ASSUME NEW b \in Payload("mouse"), MouseSend(b) PROVE Healing(t)'
  <2>1. UNCHANGED <<sLast, losses, host["kbd"], missed["kbd"], link["kbd"].up>>
    BY <1>7 DEF MouseSend, rf_driver_send, kbdVars, hostVars, dongleVars
  <2>2. fifo'["kbd"] = fifo["kbd"]
    BY <1>7 DEF MouseSend, rf_driver_send, IInv, FifoOwn, Slot
  <2> QED
    BY <1>1, <2>1, <2>2, ElsewhereHeals DEF KbdView
<1>8. CASE \/ Wake \/ PairEnd \/ PairStart \/ Cable \/ Bus
           \/ \E s \in Slot : Drained(s) \/ Wedge(s)
  <2>1. UNCHANGED KbdView
    BY <1>8 DEF Wake, PairEnd, PairStart, Cable, Bus, Drained, Wedge, KbdView, kbdVars,
                radioVars, hostVars, dongleVars
  <2> QED
    BY <1>1, <2>1, ElsewhereHeals
<1> QED
  BY <1>2, <1>3, <1>4, <1>5, <1>6, <1>7, <1>8 DEF Dongle, Around, Slot

\* Whatever is lost, flushed or half written, a report that was not lost each of
\* the REPEATS + 1 times it was sent is what the host ends up with.
THEOREM Healed == Spec => []SelfHeals
<1>1. Init => HealInv
  <2>1. Init => Delivered
    BY DEF Init, Delivered, Ending, Slot, Released
  <2> QED
    BY <2>1 DEF Init, HealInv, Healing
<1>2. IInv /\ HealInv /\ [Next]_vars => HealInv'
  <2>1. IInv /\ HealInv /\ UNCHANGED vars => HealInv'
    <3> SUFFICES ASSUME IInv, HealInv, UNCHANGED vars PROVE HealInv'
      OBVIOUS
    <3>1. UNCHANGED KbdView /\ UNCHANGED <<tx, want, sLast>> /\ Sent' = Sent /\ Sent \in Nat
      BY KbdFacts DEF vars, KbdView, kbdVars, radioVars, dongleVars, hostVars, Sent
    <3> QED
      BY <3>1, ElsewhereHeals DEF HealInv
  <2> QED
    BY <2>1, KeyboardHeals, TickHeals, AirHeals DEF Next
<1>3. IInv /\ HealInv => SelfHeals
  <2> SUFFICES ASSUME IInv, HealInv, tx = "idle", left = 0, fifo["kbd"] = <<>>,
                      losses <= REPEATS, link["kbd"].up, ~missed["kbd"]
               PROVE  host["kbd"] = sLast
    BY DEF SelfHeals
  <2>1. Sent = REPEATS + 1
    BY DEF Sent
  <2>2. ~InAir(Sent)
    BY <2>1, KbdFacts DEF InAir
  <2> QED
    BY <2>2 DEF HealInv, Healing, Delivered
<1> QED
  BY <1>1, <1>2, <1>3, Invariance, PTL DEF Spec

=============================================================================
