--------------------------- MODULE Pairing_proofs ---------------------------
(***************************************************************************)
(* What is proved of Pairing, for any number of devices, whatever they     *)
(* declare, any number of tries and commands, and any set of Events.       *)
(***************************************************************************)
EXTENDS Pairing, TLAPS

(***************************************************************************)
(* The table in memory follows the flash while a window is open, but for   *)
(* the slot being written; and the count follows but for the moment in     *)
(* which the host reloads it.  Both hold as long as no command crosses an  *)
(* open window.                                                            *)
(***************************************************************************)
ServingIsOpen == Serving => open
HostWaits     == host # "idle" => ~open /\ ~Serving
CountFollows  == host # "load" /\ nvs.count > 0 => ram.count > 0
ClosedIsSet   == nvs.count > 0 /\ (~open \/ rx = "closing") => cfg = "set"
PeersFollow   == open \/ host \in {"tune", "set"} =>
                   \A s \in Slot : ram.mac[s] # None =>
                     /\ nvs.mac[s] # None
                     /\ \/ "torn" \in amiss
                        \/ nvs.mac[s] = ram.mac[s]
                        \/ rx = "count" /\ s = req.slot
Saving        == rx \in {"mac", "count"} => req.count > 0 /\ req.from \in Device
SavedFirst    == rx = "count" => nvs.mac[req.slot] = req.from

Uncrossed == "crossed" \notin amiss =>
               /\ HostWaits /\ CountFollows /\ ClosedIsSet
               /\ PeersFollow /\ SavedFirst

\* TypeOK is not inductive: that a device does not ask once too often follows from
\* what ListenEnds leaves.
Retries == \A d \in Device : dev[d].st = "asking" => dev[d].tries < TRIES

Safe == ServingIsOpen /\ Saving /\ AckedIsStored /\ Uncrossed

Ind == TypeOK /\ Retries /\ Safe

-----------------------------------------------------------------------------
\* rf_pairing_reset_dongle leaves a table of peers, and never raises the count.
LEMMA ErasedPeers ==
  ASSUME nvs \in Peers, NEW p \in Erased
  PROVE  p \in Peers /\ p.count \in {0, nvs.count}
  <1>1. PICK kept \in SUBSET Slot, n \in {0, nvs.count} :
          p = [mac |-> [s \in Slot |-> IF s \in kept THEN nvs.mac[s] ELSE None], count |-> n]
    BY DEF Erased
  <1>2. nvs.mac \in [Slot -> Device \cup {None}] /\ nvs.count \in Nat
    BY DEF Peers
  <1> QED BY <1>1, <1>2 DEF Peers

\* A slot that is resolved or matched is a slot.
LEMMA SlotsAreSlots ==
  ASSUME NEW d \in Device
  PROVE  MatchSlot(d) \subseteq Slot /\ ResolveSlot(d) \subseteq Slot
  BY DEF MatchSlot, ResolveSlot, Slot

LEMMA Empty == NoPeers \in Peers /\ NoRequest \in Request
  BY DEF NoPeers, Peers, NoRequest, Request, Slot

LEMMA InitType == Init => TypeOK /\ Retries
  <1> SUFFICES ASSUME Init PROVE TypeOK /\ Retries
    OBVIOUS
  <1>1. dev \in [Device -> DeviceState]
    BY PairingAssumption DEF Init, DeviceState, Slot
  <1>2. fifo \in Seq(Device) /\ Len(fifo) <= FIFO /\ amiss \subseteq Amiss
        /\ asked \in 0 .. COMMANDS
    BY PairingAssumption DEF Init
  <1>3. Retries
    BY DEF Init, Retries
  <1> QED BY <1>1, <1>2, <1>3, Empty DEF Init, TypeOK

\* The turn of rf_rx_task outside the service of a window.
LEMMA LoopType ==
  ASSUME TypeOK, \/ Drain \/ Service \/ ApplyPairedConfig \/ CloseWindow \/ WindowEmpty
                 \/ LoopEnd \/ Watchdog
  PROVE  TypeOK'
  <1> USE PairingAssumption DEF TypeOK
  <1>1. CASE Drain             BY <1>1 DEF Drain, rxOnly
  <1>2. CASE Service           BY <1>2 DEF Service, rxOnly
  <1>3. CASE ApplyPairedConfig BY <1>3 DEF ApplyPairedConfig, rxOnly
  <1>4. CASE CloseWindow       BY <1>4 DEF CloseWindow, rxOnly
  <1>5. CASE WindowEmpty       BY <1>5 DEF WindowEmpty, rxOnly
  <1>6. CASE LoopEnd           BY <1>6 DEF LoopEnd, rxOnly
  <1>7. CASE Watchdog          BY <1>7 DEF Watchdog, rxOnly
  <1> QED BY <1>1, <1>2, <1>3, <1>4, <1>5, <1>6, <1>7

\* One request: received, saved in two writes, acknowledged.
LEMMA ReceiveType == TypeOK /\ Receive => TypeOK'
  <1> SUFFICES ASSUME TypeOK, Receive PROVE TypeOK'
    OBVIOUS
  <1> USE PairingAssumption
  <1>1. Head(fifo) \in Device /\ fifo' \in Seq(Device) /\ Len(fifo') <= FIFO
    BY DEF Receive, TypeOK
  <1>2. ram.count \in Nat
    BY DEF TypeOK, Peers
  <1>3. req' \in Request /\ rx' \in {"window", "mac", "ack"}
    BY <1>1, <1>2, SlotsAreSlots DEF Receive, TypeOK, Request
  <1> QED BY <1>1, <1>3 DEF Receive, TypeOK, rxOnly

LEMMA SaveType == TypeOK /\ (SaveMac \/ SaveCount) => TypeOK'
  <1> SUFFICES ASSUME TypeOK, SaveMac \/ SaveCount PROVE TypeOK'
    OBVIOUS
  <1>2. CASE SaveMac
    BY Empty, <1>2 DEF SaveMac, Served, TypeOK, Peers, Request
  <1>3. CASE SaveCount
    <2>1. CASE /\ nvs' = [nvs EXCEPT !.count = req.count]
               /\ ram' = [mac |-> [ram.mac EXCEPT ![req.slot] = req.from], count |-> req.count]
               /\ rx' = "ack" /\ UNCHANGED <<req, amiss>>
      <3>1. nvs' \in Peers /\ ram' \in Peers
        BY <1>3, <2>1 DEF SaveCount, TypeOK, Peers, Request
      <3> QED BY <1>3, <2>1, <3>1 DEF SaveCount, TypeOK
    <2>2. CASE amiss' = amiss \cup {"torn"} /\ Served /\ UNCHANGED <<nvs, ram>>
      BY Empty, <1>3, <2>2 DEF SaveCount, Served, TypeOK, Amiss
    <2> QED BY <1>3, <2>1, <2>2 DEF SaveCount
  <1> QED BY <1>2, <1>3

\* A record of DeviceState stays one when its fields change.
DeviceStates == {"off", "asking", "listening", "acked", "paired"}

LEMMA DeviceFields ==
  ASSUME NEW r \in DeviceState, NEW st \in DeviceStates, NEW tries \in 0 .. TRIES,
         NEW ack \in Slot, NEW id \in {"none", "set"}, NEW slot \in {0} \cup Slot
  PROVE  /\ [r EXCEPT !.st = st] \in DeviceState
         /\ [r EXCEPT !.st = st, !.tries = tries] \in DeviceState
         /\ [r EXCEPT !.st = st, !.tries = tries, !.ack = ack] \in DeviceState
         /\ [r EXCEPT !.st = st, !.tries = tries, !.ack = ack,
                      !.id = id, !.slot = slot] \in DeviceState
  BY DEF DeviceState, DeviceStates

LEMMA AckType == ASSUME TypeOK, NEW H \in SUBSET Device, SendAck(H) PROVE TypeOK'
  <1>1. ASSUME NEW d \in Device, NEW ack \in Slot, NEW whose \in {"own", "other"}
        PROVE  [dev[d] EXCEPT !.st = "acked", !.ack = ack, !.whose = whose] \in DeviceState
    <2>1. ASSUME NEW st \in DeviceStates
          PROVE  [dev[d] EXCEPT !.st = st, !.ack = ack, !.whose = whose] \in DeviceState
      BY DEF TypeOK, DeviceState, DeviceStates
    <2> QED BY <2>1 DEF DeviceStates
  <1>2. req.slot \in Slot
    BY DEF TypeOK, Request
  <1>3. dev' \in [Device -> DeviceState]
    BY <1>1, <1>2 DEF SendAck, TypeOK
  <1>4. fifo' = <<>>
    BY Zenon DEF SendAck
  <1>5. fifo' \in Seq(Device) /\ Len(fifo') <= FIFO
    BY <1>4, PairingAssumption
  <1> QED BY Empty, <1>3, <1>5 DEF SendAck, Served, TypeOK

\* The commands of the host.
LEMMA HostType ==
  ASSUME TypeOK, HostStep \/ PairReset \/ PairStart
  PROVE  TypeOK'
  <1> USE PairingAssumption DEF TypeOK, hostOnly
  <1>1. CASE HostStep
    BY <1>1, Empty DEF HostStep, ClearPeers, LoadPeers, TuneRendezvous, SetPairingMode,
                Peers, Slot
  <1>2. CASE PairReset
    BY <1>2, ErasedPeers DEF PairReset, Noted, Amiss
  <1>3. CASE PairStart
    BY <1>3, ErasedPeers DEF PairStart, Noted, Amiss
  <1> QED BY <1>1, <1>2, <1>3

\* The devices.
LEMMA DeviceType ==
  ASSUME TypeOK, Retries, NEW d \in Device, DevStep(d) \/ SwitchOn(d) \/ SwitchOff(d)
  PROVE  TypeOK'
  <1>1. dev[d] \in DeviceState
    BY DEF TypeOK
  <1>2. ASSUME NEW r \in DeviceState, dev' = [dev EXCEPT ![d] = r], UNCHANGED <<dongle, amiss>>
        PROVE  TypeOK'
    BY <1>2 DEF TypeOK, dongle
  <1>3. /\ 0 \in 0 .. TRIES /\ 1 \in Slot
        /\ \A s \in {"off", "asking", "listening", "paired"} : s \in DeviceStates
    BY PairingAssumption DEF Slot, DeviceStates
  <1>4. CASE Ask(d)
    <2> DEFINE r == [dev[d] EXCEPT !.st = "listening", !.tries = dev[d].tries + 1]
    <2> dev[d].st = "asking"
      BY <1>4, Zenon DEF Ask
    <2>1. dev[d].tries + 1 \in 0 .. TRIES
      <3>1. dev[d].tries < TRIES /\ dev[d].tries \in Nat /\ TRIES \in Nat
        BY <1>1, PairingAssumption DEF Retries, DeviceState
      <3> QED BY <3>1
    <2>2. r \in DeviceState
      BY <1>1, <1>3, <2>1, DeviceFields DEF DeviceState
    <2>3. dev' = [dev EXCEPT ![d] = r]
      BY <1>4, Zenon DEF Ask
    <2> HIDE DEF r
    <2>4. dev' \in [Device -> DeviceState]
      BY <2>2, <2>3 DEF TypeOK
    <2>5. fifo' \in Seq(Device) /\ Len(fifo') <= FIFO
      <3>1. fifo' = fifo \/ (Len(fifo) < FIFO /\ fifo' = Append(fifo, d))
        BY <1>4, Zenon DEF Ask
      <3>2. fifo \in Seq(Device) /\ Len(fifo) <= FIFO /\ FIFO \in Nat
        BY PairingAssumption DEF TypeOK
      <3> QED BY <3>1, <3>2
    <2> QED BY <1>4, <2>4, <2>5 DEF Ask, TypeOK
  <1>5. CASE ListenEnds(d)
    <2> DEFINE again == [dev[d] EXCEPT !.st = "asking"]
               off   == [dev[d] EXCEPT !.st = "off", !.tries = 0]
    <2>1. again \in DeviceState /\ off \in DeviceState
      BY <1>1, <1>3, DeviceFields DEF DeviceState
    <2>2. dev' = [dev EXCEPT ![d] = IF dev[d].tries < TRIES THEN again ELSE off]
      BY <1>5 DEF ListenEnds
    <2> HIDE DEF again, off
    <2> QED BY <1>2, <1>5, <2>1, <2>2 DEF ListenEnds
  <1>6. CASE SaveHalf(d)
    <2> DEFINE r(id, slot) == [dev[d] EXCEPT !.st = "off", !.tries = 0, !.ack = 1,
                                             !.id = id, !.slot = slot]
    <2>1. PICK n \in Written :
            dev' = [dev EXCEPT ![d] = r(IF n > 0 THEN "set" ELSE dev[d].id,
                                        IF n = 2 THEN dev[d].ack ELSE dev[d].slot)]
      BY <1>6, Zenon DEF SaveHalf
    <2>2. ASSUME NEW id \in {"none", "set"}, NEW slot \in {0} \cup Slot
          PROVE  r(id, slot) \in DeviceState
      BY <1>1, <1>3, DeviceFields
    <2>3. /\ dev[d].id \in {"none", "set"}
          /\ dev[d].slot \in {0} \cup Slot /\ dev[d].ack \in {0} \cup Slot
      BY <1>1 DEF DeviceState
    <2> HIDE DEF r
    <2> QED BY <1>2, <1>6, <2>1, <2>2, <2>3 DEF SaveHalf
  <1>7. CASE SwitchOn(d)
    <2> DEFINE r(st) == [dev[d] EXCEPT !.st = st, !.tries = 0]
    <2>1. r("paired") \in DeviceState /\ r("asking") \in DeviceState
      BY <1>1, <1>3, DeviceFields DEF DeviceState
    <2>2. dev' = [dev EXCEPT ![d] = r(IF dev[d].id = "set" THEN "paired" ELSE "asking")]
      BY <1>7 DEF SwitchOn
    <2> HIDE DEF r
    <2> QED BY <1>2, <1>7, <2>1, <2>2 DEF SwitchOn
  <1>8. CASE SwitchOff(d)
    <2> DEFINE r == [dev[d] EXCEPT !.st = "off", !.tries = 0, !.ack = 1]
    <2>1. r \in DeviceState
      BY <1>1, <1>3, DeviceFields DEF DeviceState
    <2>2. dev' = [dev EXCEPT ![d] = r]
      BY <1>8 DEF SwitchOff
    <2> HIDE DEF r
    <2> QED BY <1>2, <1>8, <2>1, <2>2 DEF SwitchOff
  <1> QED BY <1>4, <1>5, <1>6, <1>7, <1>8 DEF DevStep

LEMMA RetriesKept == TypeOK /\ Retries /\ [Next]_vars => Retries'
  <1> SUFFICES ASSUME TypeOK, Retries, [Next]_vars,
                      NEW d \in Device, dev'[d].st = "asking"
               PROVE  dev'[d].tries < TRIES
    BY DEF Retries
  <1>1. dev[d] \in DeviceState /\ TRIES > 0
    BY PairingAssumption DEF TypeOK
  <1>2. CASE UNCHANGED dev
    BY <1>2 DEF Retries
  <1>3. ASSUME NEW H \in SUBSET Device, SendAck(H)
        PROVE  dev'[d] = dev[d]
    <2>1. CASE d \in H
      BY <1>1, <1>3, <2>1 DEF SendAck, DeviceState
    <2> QED BY <1>3, <2>1 DEF SendAck
  <1>4. ASSUME NEW o \in Device, DevStep(o) \/ SwitchOn(o) \/ SwitchOff(o)
        PROVE  dev'[d].tries < TRIES
    <2>1. CASE o # d
      <3>1. dev'[d] = dev[d]
        BY <1>4, <2>1 DEF DevStep, Ask, ListenEnds, SaveHalf, SwitchOn, SwitchOff, TypeOK
      <3> QED BY <3>1 DEF Retries
    <2>2. CASE o = d
      <3>1. CASE Ask(d) \/ SwitchOff(d)
        BY <1>1, <3>1 DEF Ask, SwitchOff, TypeOK, DeviceState
      <3>4. CASE SaveHalf(d)
        BY <1>1, <3>4 DEF SaveHalf, TypeOK, DeviceState
      <3>2. CASE ListenEnds(d)
        BY <1>1, <3>2 DEF ListenEnds, TypeOK, DeviceState
      <3>3. CASE SwitchOn(d)
        BY <1>1, <3>3 DEF SwitchOn, TypeOK, DeviceState
      <3> QED BY <1>4, <2>2, <3>1, <3>2, <3>3, <3>4 DEF DevStep
    <2> QED BY <2>1, <2>2
  <1>5. CASE \E H \in SUBSET Device : SendAck(H)
    BY <1>3, <1>5 DEF Retries
  <1>6. CASE \E o \in Device : DevStep(o) \/ SwitchOn(o) \/ SwitchOff(o)
    BY <1>4, <1>6
  <1> QED
    BY <1>2, <1>5, <1>6
    DEF Next, RxStep, HostStep, vars, dongle, rxOnly, hostOnly, Drain, Service, ApplyPairedConfig,
        CloseWindow, WindowEmpty, LoopEnd, Watchdog, Receive, SaveMac, SaveCount, PairReset,
        PairStart, ClearPeers, LoadPeers, TuneRendezvous, SetPairingMode, Deadline, Crash

LEMMA NextType == TypeOK /\ Retries /\ [Next]_vars => TypeOK'
  <1> SUFFICES ASSUME TypeOK, Retries, [Next]_vars PROVE TypeOK'
    OBVIOUS
  <1>1. CASE RxStep
    BY <1>1, LoopType, ReceiveType, SaveType, AckType DEF RxStep
  <1>2. CASE HostStep \/ PairReset \/ PairStart
    BY <1>2, HostType
  <1>3. CASE Deadline
    BY <1>3 DEF Deadline, TypeOK
  <1>4. CASE Crash
    <2>1. fifo' \in Seq(Device) /\ Len(fifo') <= FIFO
      BY <1>4, PairingAssumption DEF Crash
    <2> QED BY <1>4, <2>1, Empty DEF Crash, TypeOK
  <1>5. CASE \E d \in Device : DevStep(d) \/ SwitchOn(d) \/ SwitchOff(d)
    BY <1>5, DeviceType
  <1>6. CASE UNCHANGED vars
    BY <1>6 DEF vars, dongle, TypeOK
  <1> QED BY <1>1, <1>2, <1>3, <1>4, <1>5, <1>6 DEF Next

\* The queue never outgrows the FIFO, a device never asks more often than TRIES,
\* and every slot that is given is one of the two (rf_pairing_resolve_slot).
THEOREM TypeCorrect == Spec => []TypeOK
  <1>1. Init => TypeOK /\ Retries
    BY InitType
  <1>2. TypeOK /\ Retries /\ [Next]_vars => (TypeOK /\ Retries)'
    BY NextType, RetriesKept
  <1> QED BY <1>1, <1>2, PTL DEF Spec

-----------------------------------------------------------------------------
LEMMA InitSafe == Init => Safe
  BY DEF Init, Safe, ServingIsOpen, Saving, AckedIsStored, Uncrossed, HostWaits, CountFollows,
         ClosedIsSet, PeersFollow, SavedFirst, Serving, NoPeers, Slot

\* What no command and no save touches is safe as long as the task does not
\* change its place in the service of a window.
LEMMA LoopSafe ==
  ASSUME TypeOK, Safe, \/ Drain \/ Service \/ ApplyPairedConfig \/ CloseWindow \/ WindowEmpty
                       \/ LoopEnd \/ Watchdog
  PROVE  Safe'
  <1> USE DEF Safe, ServingIsOpen, Saving, AckedIsStored, Uncrossed, HostWaits, CountFollows,
              ClosedIsSet, PeersFollow, SavedFirst, Serving, rxOnly
  <1>1. CASE Drain             BY <1>1 DEF Drain
  <1>2. CASE Service           BY <1>2 DEF Service
  <1>3. CASE ApplyPairedConfig BY <1>3 DEF ApplyPairedConfig
  <1>4. CASE CloseWindow       BY <1>4 DEF CloseWindow
  <1>5. CASE WindowEmpty       BY <1>5 DEF WindowEmpty
  <1>6. CASE LoopEnd           BY <1>6 DEF LoopEnd
  <1>7. CASE Watchdog          BY <1>7 DEF Watchdog
  <1> QED BY <1>1, <1>2, <1>3, <1>4, <1>5, <1>6, <1>7

\* A device that is known in memory is known in flash: its acknowledgement is
\* safe without a write.
LEMMA ReceiveSafe == TypeOK /\ Safe /\ Receive => Safe'
  <1> SUFFICES ASSUME TypeOK, Safe, Receive PROVE Safe'
    OBVIOUS
  <1> DEFINE d == Head(fifo)
  <1>1. d \in Device /\ d # None /\ ram.count \in Nat
    BY PairingAssumption DEF Receive, TypeOK, Peers
  <1>2. /\ rx = "window" /\ open
        /\ UNCHANGED <<nvs, ram, open, cfg, host, amiss>>
    BY DEF Receive, rxOnly, Safe, ServingIsOpen, Serving
  <1>3. \/ rx' = "ack" /\ \E s \in MatchSlot(d) : req' = [from |-> d, slot |-> s, count |-> ram.count]
        \/ rx' = "mac" /\ \E s \in Slot : req' = [from |-> d, slot |-> s, count |-> ram.count + 1]
        \/ rx' = "window"
    BY <1>1, <1>2, SlotsAreSlots DEF Receive
  <1>4. ServingIsOpen' /\ Saving'
    BY <1>1, <1>2, <1>3 DEF ServingIsOpen, Saving, Serving
  <1>5. ASSUME "crossed" \notin amiss
        PROVE  HostWaits' /\ CountFollows' /\ ClosedIsSet' /\ PeersFollow' /\ SavedFirst'
    BY <1>2, <1>3, <1>5
    DEF Safe, Uncrossed, HostWaits, CountFollows, ClosedIsSet, PeersFollow, SavedFirst, Serving
  <1>6. ASSUME "crossed" \notin amiss, rx' = "ack"
        PROVE  nvs.mac[req'.slot] \in (IF "torn" \in amiss THEN Device ELSE {d})
    <2>1. PICK s \in MatchSlot(d) : req' = [from |-> d, slot |-> s, count |-> ram.count]
      BY <1>3, <1>6
    <2>2. s \in Slot /\ ram.mac[s] = d /\ req'.slot = s
      BY <2>1 DEF MatchSlot, Slot
    <2>3. nvs.mac[s] # None /\ ("torn" \in amiss \/ nvs.mac[s] = d)
      BY <1>1, <1>2, <1>6, <2>2 DEF Safe, Uncrossed, PeersFollow
    <2>4. nvs.mac[s] \in Device
      BY <2>2, <2>3 DEF TypeOK, Peers
    <2> QED BY <2>2, <2>3, <2>4
  <1>7. rx' = "ack" => req'.from = d
    BY <1>3
  <1>8. AckedIsStored'
    BY <1>2, <1>6, <1>7 DEF AckedIsStored
  <1> QED BY <1>2, <1>4, <1>5, <1>8 DEF Safe, Uncrossed

LEMMA SaveSafe == TypeOK /\ Safe /\ (SaveMac \/ SaveCount) => Safe'
  <1> SUFFICES ASSUME TypeOK, Safe, SaveMac \/ SaveCount PROVE Safe'
    OBVIOUS
  <1>1. /\ open /\ req.count > 0 /\ req.from \in Device /\ req.from # None
        /\ req.slot \in Slot
    BY PairingAssumption
    DEF SaveMac, SaveCount, Safe, ServingIsOpen, Serving, Saving, TypeOK, Request
  <1>2. CASE SaveMac /\ rx' = "window"
    BY <1>1, <1>2
    DEF SaveMac, Served, Safe, ServingIsOpen, Saving, AckedIsStored, Uncrossed, HostWaits,
        CountFollows, ClosedIsSet, PeersFollow, SavedFirst, Serving
  <1>3. CASE SaveMac /\ rx' # "window"
    <2>1. /\ nvs'.mac = [nvs.mac EXCEPT ![req.slot] = req.from] /\ nvs'.count = nvs.count
          /\ rx = "mac" /\ rx' = "count"
          /\ UNCHANGED <<ram, open, cfg, req, host, amiss>>
      BY <1>3 DEF SaveMac, Served, TypeOK, Peers
    <2>2. \A s \in Slot : nvs'.mac[s] = IF s = req.slot THEN req.from ELSE nvs.mac[s]
      BY <2>1 DEF TypeOK, Peers
    <2>3. PeersFollow' \/ "crossed" \in amiss
      BY <1>1, <2>1, <2>2 DEF Safe, Uncrossed, PeersFollow
    <2> QED BY <1>1, <2>1, <2>2, <2>3
            DEF Safe, ServingIsOpen, Saving, AckedIsStored, Uncrossed, HostWaits, CountFollows,
                ClosedIsSet, SavedFirst, Serving
  <1>4. CASE SaveCount /\ rx' = "window"
    <2>1. /\ rx = "count" /\ amiss' = amiss \cup {"torn"}
          /\ UNCHANGED <<nvs, ram, open, cfg, host>>
      BY <1>4 DEF SaveCount
    <2> QED BY <1>1, <1>4, <2>1
            DEF Safe, ServingIsOpen, Saving, AckedIsStored, Uncrossed, HostWaits, CountFollows,
                ClosedIsSet, PeersFollow, SavedFirst, Serving
  <1>5. CASE SaveCount /\ rx' # "window"
    <2>1. /\ nvs'.mac = nvs.mac /\ nvs'.count = req.count /\ ram'.count = req.count
          /\ ram'.mac = [ram.mac EXCEPT ![req.slot] = req.from]
          /\ rx = "count" /\ rx' = "ack"
          /\ UNCHANGED <<open, cfg, req, host, amiss>>
      BY <1>5 DEF SaveCount, Served, TypeOK, Peers
    <2>2. \A s \in Slot : ram'.mac[s] = IF s = req.slot THEN req.from ELSE ram.mac[s]
      BY <2>1 DEF TypeOK, Peers
    <2>3. PeersFollow' \/ "crossed" \in amiss
      BY <1>1, <2>1, <2>2 DEF Safe, Uncrossed, PeersFollow, SavedFirst
    <2> QED BY <1>1, <2>1, <2>3
            DEF Safe, ServingIsOpen, Saving, AckedIsStored, Uncrossed, HostWaits, CountFollows,
                ClosedIsSet, SavedFirst, Serving
  <1>6. rx' \in {"window", "count", "ack"}
    BY DEF SaveMac, SaveCount, Served
  <1> QED BY <1>2, <1>3, <1>4, <1>5

LEMMA AckSafe == ASSUME TypeOK, Safe, NEW H \in SUBSET Device, SendAck(H) PROVE Safe'
  <1>1. /\ rx = "ack" /\ rx' = "window"
        /\ UNCHANGED <<nvs, ram, open, cfg, host, amiss>>
    BY DEF SendAck, Served
  <1> QED BY <1>1 DEF Safe, ServingIsOpen, Saving, AckedIsStored, Uncrossed, HostWaits,
                      CountFollows, ClosedIsSet, PeersFollow, SavedFirst, Serving

\* A command that finds a window open is on record; the others find the task
\* outside the service, where nobody acknowledges from the memory.
LEMMA CommandSafe == TypeOK /\ Safe /\ (PairReset \/ PairStart) => Safe'
  <1> SUFFICES ASSUME TypeOK, Safe, PairReset \/ PairStart PROVE Safe'
    OBVIOUS
  <1>1. nvs'.count = nvs.count \/ nvs'.count = 0
    BY ErasedPeers DEF PairReset, PairStart, TypeOK
  <1>2. /\ Noted /\ host = "idle" /\ host' \in {"idle", "clear"}
        /\ UNCHANGED <<ram, open, cfg, rx, req>>
    BY DEF PairReset, PairStart, hostOnly
  <1>3. CASE open \/ Serving
    BY <1>2, <1>3 DEF Noted, Safe, ServingIsOpen, Saving, AckedIsStored, Uncrossed, Serving
  <1>4. CASE ~open /\ ~Serving
    BY <1>1, <1>2, <1>4
    DEF Noted, Safe, ServingIsOpen, Saving, AckedIsStored, Uncrossed, HostWaits, CountFollows,
        ClosedIsSet, PeersFollow, SavedFirst, Serving
  <1> QED BY <1>3, <1>4

LEMMA HostSafe == TypeOK /\ Safe /\ HostStep => Safe'
  <1> SUFFICES ASSUME TypeOK, Safe, HostStep PROVE Safe'
    OBVIOUS
  <1> USE DEF Safe, ServingIsOpen, Saving, AckedIsStored, Uncrossed, HostWaits, CountFollows,
              ClosedIsSet, PeersFollow, SavedFirst, Serving, hostOnly
  <1>1. CASE ClearPeers     BY <1>1 DEF ClearPeers, NoPeers
  <1>2. CASE LoadPeers      BY <1>2 DEF LoadPeers
  <1>3. CASE TuneRendezvous BY <1>3 DEF TuneRendezvous
  <1>4. CASE SetPairingMode BY <1>4 DEF SetPairingMode
  <1> QED BY <1>1, <1>2, <1>3, <1>4 DEF HostStep

LEMMA NextSafe == TypeOK /\ Safe /\ [Next]_vars => Safe'
  <1> SUFFICES ASSUME TypeOK, Safe, [Next]_vars PROVE Safe'
    OBVIOUS
  <1>1. CASE RxStep
    BY <1>1, LoopSafe, ReceiveSafe, SaveSafe, AckSafe DEF RxStep
  <1>2. CASE HostStep \/ PairReset \/ PairStart
    BY <1>2, HostSafe, CommandSafe
  <1>3. CASE Crash
    BY <1>3
    DEF Crash, NoRequest, Safe, ServingIsOpen, Saving, AckedIsStored, Uncrossed, HostWaits,
        CountFollows, ClosedIsSet, PeersFollow, SavedFirst, Serving
  <1>4. CASE UNCHANGED <<nvs, ram, open, cfg, rx, req, host, amiss>>
    BY <1>4
    DEF Safe, ServingIsOpen, Saving, AckedIsStored, Uncrossed, HostWaits, CountFollows,
        ClosedIsSet, PeersFollow, SavedFirst, Serving
  <1> QED BY <1>1, <1>2, <1>3, <1>4
          DEF Next, DevStep, Ask, ListenEnds, SaveHalf, SwitchOn, SwitchOff, Deadline, vars, dongle

THEOREM PairingInvariant == Spec => []Ind
  <1>1. Init => Ind
    BY InitType, InitSafe DEF Ind
  <1>2. Ind /\ [Next]_vars => Ind'
    BY NextType, RetriesKept, NextSafe DEF Ind
  <1> QED BY <1>1, <1>2, PTL DEF Spec

\* rf_rx_pairing_service never acknowledges what it could not record, whatever
\* the flash refuses and whenever the dongle is unplugged.
THEOREM AckedOnlyStored == Spec => []AckedIsStored
  <1>1. Ind => AckedIsStored
    BY DEF Ind, Safe
  <1> QED BY <1>1, PairingInvariant, PTL

\* rf_rx_apply_paired_config: a dongle with a pairing in flash listens to its own
\* addresses between two windows.
THEOREM StoredListened == Spec => []StoredIsHeard
  <1>1. Ind => StoredIsHeard
    BY DEF Ind, Safe, Uncrossed, ClosedIsSet, StoredIsHeard, AtRest
  <1> QED BY <1>1, PairingInvariant, PTL
-----------------------------------------------------------------------------
(***************************************************************************)
(* The slot a device was given is the slot it is stored in.  A device that *)
(* has a pairing does not ask, and an acknowledgement flushes what it had  *)
(* asked before: so whoever is saved in a slot is new, both to the flash   *)
(* and to itself.  While nothing is amiss the memory mirrors the flash,    *)
(* and nobody is stored twice.                                             *)
(***************************************************************************)
Unpaired == \A d \in Device : /\ Busy(d) => dev[d].id = "none"
                              /\ dev[d].id = "none" => dev[d].slot = 0

\* A request of d that has arrived and is not answered.
Requested(d) == \/ \E n \in 1 .. Len(fifo) : fifo[n] = d
                \/ rx \in {"mac", "count", "ack"} /\ req.from = d

AsksAsNew == \A d \in Device : Requested(d) => dev[d].st # "acked" /\ dev[d].id = "none"

Mirror  == open \/ host \in {"tune", "set"} =>
             \A s \in Slot : ram.mac[s] = nvs.mac[s] \/ (rx = "count" /\ s = req.slot)
OneSlot == \A s, t \in Slot : nvs.mac[s] = nvs.mac[t] /\ nvs.mac[s] # None => s = t
NewOnly == rx = "mac" => \A s \in Slot : nvs.mac[s] # req.from
Agreed  == \A d \in Device, s \in Slot : nvs.mac[s] = d /\ dev[d].whose = "own" =>
             /\ dev[d].st = "acked" => dev[d].ack = s
             /\ dev[d].slot # 0 => dev[d].slot = s

Placed   == amiss = {} => Mirror /\ OneSlot /\ NewOnly /\ Agreed
PlaceInv == Unpaired /\ AsksAsNew /\ Placed

\* What a device does to itself: it keeps its pairing, or saves that it was given.
LEMMA DeviceMoves ==
  ASSUME TypeOK, NEW o \in Device, DevStep(o) \/ SwitchOn(o) \/ SwitchOff(o)
  PROVE  /\ \A d \in Device \ {o} : dev'[d] = dev[d]
         /\ dev'[o].whose = dev[o].whose /\ dev'[o].st # "acked"
         /\ \/ /\ dev'[o].id = dev[o].id /\ dev'[o].slot = dev[o].slot
               /\ dev'[o].st \in {"asking", "listening"} => Busy(o) \/ dev[o].id = "none"
            \/ /\ dev[o].st = "acked" /\ dev'[o].st = "off" /\ dev'[o].id = "set"
               /\ dev'[o].slot \in {dev[o].slot, dev[o].ack}
         /\ fifo' = fifo \/ (dev[o].st = "asking" /\ fifo' = Append(fifo, o))
         /\ UNCHANGED <<nvs, ram, open, rx, req, host, amiss>>
  <1> USE DEF TypeOK
  <1>0. dev[o] \in DeviceState
    OBVIOUS
  <1>1. CASE Ask(o)
    BY <1>0, <1>1 DEF Ask, Busy, DeviceState
  <1>2. CASE ListenEnds(o)
    BY <1>0, <1>2 DEF ListenEnds, Busy, DeviceState, dongle
  <1>3. CASE SaveHalf(o)
    <2>1. PICK n \in Written :
            dev' = [dev EXCEPT ![o] =
                      [@ EXCEPT !.st = "off", !.tries = 0, !.ack = 1,
                                !.id = IF n > 0 THEN "set" ELSE dev[o].id,
                                !.slot = IF n = 2 THEN dev[o].ack ELSE dev[o].slot]]
      BY <1>3, Zenon DEF SaveHalf
    <2>2. n \in {0, 1, 2}
      BY DEF Written
    <2> QED BY <1>0, <1>3, <2>1, <2>2 DEF SaveHalf, DeviceState, dongle
  <1>4. CASE SwitchOn(o)
    BY <1>0, <1>4 DEF SwitchOn, DeviceState, dongle
  <1>5. CASE SwitchOff(o)
    BY <1>0, <1>5 DEF SwitchOff, DeviceState, dongle
  <1> QED BY <1>1, <1>2, <1>3, <1>4, <1>5 DEF DevStep

\* What an acknowledgement does to those that hear it.
LEMMA AckMoves ==
  ASSUME TypeOK, NEW H \in SUBSET Device, SendAck(H), NEW d \in Device
  PROVE  \/ dev'[d] = dev[d]
         \/ /\ dev[d].st = "listening" /\ dev'[d].st = "acked" /\ dev'[d].ack = req.slot
            /\ dev'[d].whose = "own" => d = req.from
            /\ dev'[d].id = dev[d].id /\ dev'[d].slot = dev[d].slot
  <1>1. dev[d] \in DeviceState
    BY DEF TypeOK
  <1>2. H \subseteq Listening
    BY Zenon DEF SendAck
  <1>3. d \in H => dev[d].st = "listening"
    BY <1>2 DEF Listening
  <1>4. dev'[d] = IF d \notin H THEN dev[d]
                  ELSE [dev[d] EXCEPT !.st = "acked", !.ack = req.slot,
                                      !.whose = IF d = req.from THEN "own" ELSE "other"]
    BY Zenon DEF SendAck
  <1> QED BY <1>1, <1>3, <1>4 DEF DeviceState

\* The steps that leave the devices alone.
LEMMA OthersLeaveDevices ==
  ASSUME [Next]_vars, ~ \E H \in SUBSET Device : SendAck(H),
         ~ \E o \in Device : DevStep(o) \/ SwitchOn(o) \/ SwitchOff(o)
  PROVE  UNCHANGED dev
  BY DEF Next, RxStep, HostStep, vars, dongle, rxOnly, hostOnly, Drain, Service, ApplyPairedConfig,
         CloseWindow, WindowEmpty, LoopEnd, Watchdog, Receive, SaveMac, SaveCount, PairReset,
         PairStart, ClearPeers, LoadPeers, TuneRendezvous, SetPairingMode, Deadline, Crash

LEMMA UnpairedKept == TypeOK /\ Unpaired /\ [Next]_vars => Unpaired'
  <1> SUFFICES ASSUME TypeOK, Unpaired, [Next]_vars PROVE Unpaired'
    OBVIOUS
  <1>1. ASSUME NEW H \in SUBSET Device, SendAck(H) PROVE Unpaired'
    BY <1>1, AckMoves DEF Unpaired, Busy
  <1>2. ASSUME NEW o \in Device, DevStep(o) \/ SwitchOn(o) \/ SwitchOff(o) PROVE Unpaired'
    BY <1>2, DeviceMoves DEF Unpaired, Busy
  <1>3. CASE UNCHANGED dev
    BY <1>3 DEF Unpaired, Busy
  <1> QED BY <1>1, <1>2, <1>3, OthersLeaveDevices

\* Requests come from devices without a pairing, and are flushed when one is given.
LEMMA AsksKept == TypeOK /\ Unpaired /\ AsksAsNew /\ [Next]_vars => AsksAsNew'
  <1> SUFFICES ASSUME TypeOK, Unpaired, AsksAsNew, [Next]_vars, NEW d \in Device, Requested(d)'
               PROVE  dev'[d].st # "acked" /\ dev'[d].id = "none"
    BY DEF AsksAsNew
  <1>0. fifo \in Seq(Device)
    BY DEF TypeOK
  <1>1. ASSUME NEW H \in SUBSET Device, SendAck(H) PROVE FALSE
    <2>1. fifo' = <<>> /\ rx' = "window"
      BY <1>1, Zenon DEF SendAck, Served
    <2> QED BY <2>1 DEF Requested
  <1>2. ASSUME NEW o \in Device, DevStep(o) \/ SwitchOn(o) \/ SwitchOff(o)
        PROVE  dev'[d].st # "acked" /\ dev'[d].id = "none"
    <2>1. CASE Requested(d)
      BY <1>2, <2>1, DeviceMoves DEF AsksAsNew
    <2>2. CASE ~Requested(d)
      <3>1. fifo' = Append(fifo, o) /\ dev[o].st = "asking"
        BY <1>2, <2>2, DeviceMoves DEF Requested
      <3>2. d = o
        <4>1. \A n \in 1 .. Len(Append(fifo, o)) :
                 \/ n \in 1 .. Len(fifo) /\ Append(fifo, o)[n] = fifo[n]
                 \/ Append(fifo, o)[n] = o
          BY <1>0
        <4>2. UNCHANGED <<rx, req>>
          BY <1>2, DeviceMoves
        <4> QED BY <2>2, <3>1, <4>1, <4>2 DEF Requested
      <3>3. dev[o].id = "none" /\ dev[o].st # "acked"
        BY <3>1 DEF Unpaired, Busy
      <3> QED BY <1>2, <3>2, <3>3, DeviceMoves
    <2> QED BY <2>1, <2>2
  <1>3. ASSUME UNCHANGED dev, Requested(d)
        PROVE  dev'[d].st # "acked" /\ dev'[d].id = "none"
    BY <1>3 DEF AsksAsNew
  <1>4. CASE Receive
    <2>1. \A n \in 1 .. Len(Tail(fifo)) : n + 1 \in 1 .. Len(fifo) /\ Tail(fifo)[n] = fifo[n + 1]
      BY <1>0, <1>4 DEF Receive
    <2>2. fifo # <<>> => 1 \in 1 .. Len(fifo) /\ Head(fifo) = fifo[1]
      BY <1>0
    <2>3. fifo # <<>> /\ fifo' = Tail(fifo) /\ UNCHANGED dev
      BY <1>4 DEF Receive, rxOnly
    <2>4. (rx' = rx /\ req' = req) \/ req'.from = Head(fifo)
      BY <1>4 DEF Receive
    <2>5. Requested(d)
      BY <2>1, <2>2, <2>3, <2>4 DEF Requested
    <2> QED BY <1>3, <2>3, <2>5
  <1>5. CASE \/ Drain \/ Service \/ ApplyPairedConfig \/ CloseWindow \/ WindowEmpty
             \/ LoopEnd \/ Watchdog \/ Crash
    <2>1. UNCHANGED dev /\ Requested(d)
      BY <1>5 DEF Drain, Service, ApplyPairedConfig, CloseWindow, WindowEmpty, LoopEnd, Watchdog,
                  Crash, rxOnly, Requested
    <2> QED BY <1>3, <2>1
  <1>6. CASE SaveMac \/ SaveCount
    <2>1. UNCHANGED dev /\ Requested(d)
      BY <1>6 DEF SaveMac, SaveCount, Served, Requested
    <2> QED BY <1>3, <2>1
  <1>7. CASE HostStep \/ PairReset \/ PairStart \/ Deadline \/ UNCHANGED vars
    <2>1. UNCHANGED dev /\ Requested(d)
      BY <1>7 DEF HostStep, ClearPeers, LoadPeers, TuneRendezvous, SetPairingMode, PairReset,
                  PairStart, Deadline, hostOnly, vars, dongle, Requested
    <2> QED BY <1>3, <2>1
  <1> QED BY <1>1, <1>2, <1>4, <1>5, <1>6, <1>7 DEF Next, RxStep

\* Neither the loop outside a save nor a crash touches the flash or the devices.
LEMMA LoopPlaced ==
  ASSUME TypeOK, Safe, Placed,
         \/ Drain \/ Service \/ ApplyPairedConfig \/ CloseWindow \/ WindowEmpty
         \/ LoopEnd \/ Watchdog \/ Crash
  PROVE  Placed'
  <1>1. UNCHANGED <<nvs, dev, amiss>> /\ rx' # "mac"
    BY DEF Drain, Service, ApplyPairedConfig, CloseWindow, WindowEmpty, LoopEnd, Watchdog,
           Crash, rxOnly
  <1>2. amiss = {} /\ Mirror => Mirror'
    BY DEF Drain, Service, ApplyPairedConfig, CloseWindow, WindowEmpty, LoopEnd, Watchdog,
           Crash, rxOnly, Mirror
  <1> QED BY <1>1, <1>2 DEF Placed, OneSlot, NewOnly, Agreed

\* Who is saved next is in no slot of the memory, so in none of the flash.
LEMMA ReceivePlaced ==
  ASSUME TypeOK, Safe, Placed, Receive
  PROVE  Placed'
  <1> SUFFICES ASSUME amiss' = {} PROVE (Mirror /\ OneSlot /\ NewOnly /\ Agreed)'
    BY DEF Placed
  <1>1. /\ UNCHANGED <<nvs, ram, open, host, dev, amiss>> /\ rx = "window"
        /\ Mirror /\ OneSlot /\ Agreed
    BY DEF Receive, rxOnly, Placed
  <1>2. Mirror' /\ OneSlot' /\ Agreed'
    BY <1>1 DEF Mirror, OneSlot, Agreed
  <1>3. ASSUME rx' = "mac" PROVE MatchSlot(req'.from) = {} /\ open
    BY <1>1, <1>3 DEF Receive, Safe, ServingIsOpen, Serving
  <1>4. NewOnly'
    BY <1>1, <1>3 DEF NewOnly, MatchSlot, Mirror, Slot
  <1> QED BY <1>2, <1>4

\* A new device is in one slot, and knows of no other.
LEMMA SaveMacPlaced ==
  ASSUME TypeOK, Safe, Unpaired, AsksAsNew, Placed, SaveMac
  PROVE  Placed'
  <1> SUFFICES ASSUME amiss' = {} PROVE (Mirror /\ OneSlot /\ NewOnly /\ Agreed)'
    BY DEF Placed
  <1>1. /\ UNCHANGED <<ram, open, host, dev, amiss>> /\ rx = "mac" /\ rx' # "mac"
        /\ Mirror /\ OneSlot /\ NewOnly /\ Agreed
    BY DEF SaveMac, Served, Placed
  <1>2. CASE nvs' = nvs /\ Served
    BY <1>1, <1>2 DEF Served, Mirror, OneSlot, NewOnly, Agreed
  <1>3. CASE nvs' = [nvs EXCEPT !.mac[req.slot] = req.from] /\ rx' = "count" /\ req' = req
    <2>1. req.from \in Device /\ req.slot \in Slot
      BY <1>1 DEF Safe, Saving, TypeOK, Request
    <2>2. \A s \in Slot : nvs'.mac[s] = IF s = req.slot THEN req.from ELSE nvs.mac[s]
      BY <1>3 DEF TypeOK, Peers
    <2>3. dev[req.from].st # "acked" /\ dev[req.from].slot = 0
      BY <1>1, <2>1 DEF AsksAsNew, Requested, Unpaired
    <2>4. Mirror'
      BY <1>1, <1>3, <2>2 DEF Mirror
    <2>5. OneSlot'
      BY <1>1, <2>1, <2>2 DEF OneSlot, NewOnly
    <2>6. Agreed'
      BY <1>1, <2>1, <2>2, <2>3 DEF Agreed
    <2> QED BY <1>1, <2>4, <2>5, <2>6 DEF NewOnly
  <1> QED BY <1>2, <1>3 DEF SaveMac

LEMMA SaveCountPlaced ==
  ASSUME TypeOK, Safe, Placed, SaveCount
  PROVE  Placed'
  <1> SUFFICES ASSUME amiss' = {} PROVE (Mirror /\ OneSlot /\ NewOnly /\ Agreed)'
    BY DEF Placed
  <1>1. /\ nvs' = [nvs EXCEPT !.count = req.count]
        /\ ram' = [mac |-> [ram.mac EXCEPT ![req.slot] = req.from], count |-> req.count]
        /\ rx = "count" /\ rx' = "ack" /\ UNCHANGED <<open, req, host, dev, amiss>>
    BY DEF SaveCount
  <1>2. Mirror /\ OneSlot /\ Agreed /\ nvs.mac[req.slot] = req.from
    BY <1>1 DEF Placed, Safe, Uncrossed, SavedFirst
  <1>3. /\ nvs'.mac = nvs.mac
        /\ \A s \in Slot : ram'.mac[s] = IF s = req.slot THEN req.from ELSE ram.mac[s]
    BY <1>1 DEF TypeOK, Peers
  <1> QED BY <1>1, <1>2, <1>3 DEF Mirror, OneSlot, NewOnly, Agreed

\* Whoever takes an acknowledgement for its own is stored where it says.
LEMMA AckPlaced ==
  ASSUME TypeOK, Safe, Unpaired, Placed, NEW H \in SUBSET Device, SendAck(H)
  PROVE  Placed'
  <1> SUFFICES ASSUME amiss' = {} PROVE (Mirror /\ OneSlot /\ NewOnly /\ Agreed)'
    BY DEF Placed
  <1>0. UNCHANGED <<nvs, ram, open, host, amiss>> /\ rx = "ack" /\ rx' = "window"
    BY Zenon DEF SendAck, Served
  <1>1. /\ UNCHANGED <<nvs, ram, open, host, amiss>> /\ rx = "ack" /\ rx' = "window"
        /\ Mirror /\ OneSlot /\ Agreed
    BY <1>0 DEF Placed
  <1>2. nvs.mac[req.slot] = req.from /\ req.slot \in Slot
    BY <1>1 DEF Safe, AckedIsStored, TypeOK, Request
  <1>3. ASSUME NEW d \in Device, NEW s \in Slot, nvs.mac[s] = d, dev'[d].whose = "own"
        PROVE  /\ dev'[d].st = "acked" => dev'[d].ack = s
               /\ dev'[d].slot # 0 => dev'[d].slot = s
    <2>1. CASE dev'[d] = dev[d]
      BY <1>1, <1>3, <2>1 DEF Agreed
    <2>2. CASE dev[d].st = "listening" /\ dev'[d] # dev[d]
      <3>1. dev'[d].ack = req.slot /\ d = req.from /\ dev'[d].slot = dev[d].slot
        BY <1>3, <2>2, AckMoves
      <3>2. dev[d].slot = 0
        BY <2>2 DEF Unpaired, Busy
      <3>3. req.slot = s
        BY <1>1, <1>2, <1>3, <3>1, PairingAssumption DEF OneSlot
      <3> QED BY <3>1, <3>2, <3>3
    <2> QED BY <2>1, <2>2, AckMoves
  <1> QED BY <1>1, <1>3 DEF Mirror, OneSlot, NewOnly, Agreed

\* A command that finds the window closed only takes addresses away.
LEMMA CommandPlaced ==
  ASSUME TypeOK, Safe, Placed, PairReset \/ PairStart
  PROVE  Placed'
  <1> SUFFICES ASSUME amiss' = {} PROVE (Mirror /\ OneSlot /\ NewOnly /\ Agreed)'
    BY DEF Placed
  <1>1. /\ ~open /\ ~Serving /\ amiss = {} /\ host' \in {"idle", "clear"}
        /\ UNCHANGED <<open, rx, dev>>
    BY DEF PairReset, PairStart, Noted, hostOnly
  <1>2. \A s \in Slot : nvs'.mac[s] \in {nvs.mac[s], None}
    <2>1. nvs' = nvs \/ nvs' \in Erased
      BY DEF PairReset, PairStart
    <2> QED BY <2>1 DEF Erased
  <1>3. OneSlot /\ Agreed
    BY <1>1 DEF Placed
  <1>4. Mirror' /\ NewOnly'
    BY <1>1 DEF Mirror, NewOnly, Serving
  <1>5. OneSlot'
    BY <1>2, <1>3 DEF OneSlot
  <1>6. Agreed'
    BY <1>1, <1>2, <1>3, PairingAssumption DEF Agreed
  <1> QED BY <1>4, <1>5, <1>6

LEMMA HostPlaced ==
  ASSUME TypeOK, Safe, Placed, HostStep \/ Deadline \/ UNCHANGED vars
  PROVE  Placed'
  <1> SUFFICES ASSUME amiss' = {} PROVE (Mirror /\ OneSlot /\ NewOnly /\ Agreed)'
    BY DEF Placed
  <1>1. /\ UNCHANGED <<nvs, rx, req, dev, amiss>>
        /\ Mirror /\ OneSlot /\ NewOnly /\ Agreed /\ HostWaits
    BY DEF HostStep, ClearPeers, LoadPeers, TuneRendezvous, SetPairingMode, hostOnly, Deadline,
           vars, dongle, Placed, Safe, Uncrossed
  <1>2. Mirror'
    BY <1>1
    DEF HostStep, ClearPeers, LoadPeers, TuneRendezvous, SetPairingMode, hostOnly, Deadline,
        vars, dongle, Mirror, HostWaits
  <1> QED BY <1>1, <1>2 DEF OneSlot, NewOnly, Agreed

\* A device saves the slot it was given, or keeps what it had.
LEMMA DevicePlaced ==
  ASSUME TypeOK, Unpaired, Placed, NEW o \in Device, DevStep(o) \/ SwitchOn(o) \/ SwitchOff(o)
  PROVE  Placed'
  <1> SUFFICES ASSUME amiss' = {} PROVE (Mirror /\ OneSlot /\ NewOnly /\ Agreed)'
    BY DEF Placed
  <1>1. /\ UNCHANGED <<nvs, ram, open, rx, req, host, amiss>>
        /\ Mirror /\ OneSlot /\ NewOnly /\ Agreed
    BY DeviceMoves DEF Placed
  <1>2. Agreed'
    BY <1>1, DeviceMoves DEF Agreed
  <1> QED BY <1>1, <1>2 DEF Mirror, OneSlot, NewOnly

\* rf_pairing_save_half: as long as no save was torn and no command crossed a
\* window, the slot in the flash of a device is the one its address has in the
\* flash of the dongle.
THEOREM SlotsAlwaysAgree == Spec => []SlotsAgree
  <1>1. Init => PlaceInv
    <2>1. Init => Unpaired /\ AsksAsNew
      BY DEF Init, Unpaired, AsksAsNew, Busy, Requested
    <2>2. Init => Mirror /\ OneSlot /\ NewOnly /\ Agreed
      BY PairingAssumption DEF Init, NoPeers, Mirror, OneSlot, NewOnly, Agreed
    <2> QED BY <2>1, <2>2 DEF PlaceInv, Placed
  <1>2. Ind /\ PlaceInv /\ [Next]_vars => PlaceInv'
    <2> SUFFICES ASSUME Ind, PlaceInv, [Next]_vars PROVE PlaceInv'
      OBVIOUS
    <2>1. Unpaired' /\ AsksAsNew'
      BY UnpairedKept, AsksKept DEF Ind, PlaceInv
    <2>2. Placed'
      BY LoopPlaced, ReceivePlaced, SaveMacPlaced, SaveCountPlaced, AckPlaced, CommandPlaced,
         HostPlaced, DevicePlaced
      DEF Ind, PlaceInv, Next, RxStep
    <2> QED BY <2>1, <2>2 DEF PlaceInv
  <1>3. PlaceInv /\ Ind => SlotsAgree
    <2> SUFFICES ASSUME PlaceInv, TypeOK, amiss = {}, NEW d \in Device, dev[d].whose = "own",
                        dev[d].slot # 0, NEW s \in Slot, nvs.mac[s] = d
                 PROVE  nvs.mac[SlotOf(d)] = d
      BY DEF SlotsAgree, Ind
    <2>1. dev[d].slot = s
      BY DEF PlaceInv, Placed, Agreed
    <2> QED BY <2>1 DEF SlotOf
  <1> QED BY <1>1, <1>2, <1>3, PairingInvariant, PTL DEF Spec

=============================================================================
