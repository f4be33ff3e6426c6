------------------------------ MODULE ScanLoop ------------------------------
(***************************************************************************)
(* From the matrix to a report: two tasks and a flag.                      *)
(*                                                                         *)
(*   scan callback (prio 5)  rewrites current_press[] and keycodes[], then *)
(*                           raises stat_matrix_changed                    *)
(*   keyboard task (prio 3)  every 10 ms or when notified: ticks the       *)
(*                           tap/hold timers, then builds and sends a      *)
(*                           report for a remote change, an expired hold   *)
(*                           and a matrix change                           *)
(*                                                                         *)
(* Nothing protects the arrays the two share: the callback may run between *)
(* any two steps of a build.  The build is cut where that can be seen:     *)
(* the detection of releases, the read and the write of each slot, the     *)
(* injection of taps, the save of the positions, the report.  A key is its *)
(* position; it is also the code it types.  A key is plain, a physical     *)
(* modifier (keycodes 0xE0-0xE7) or a mod-tap with a modifier of its own;  *)
(* the keymap has one layer.                                               *)
(***************************************************************************)
EXTENDS Naturals, Sequences, FiniteSets

CONSTANTS Plain, Mod, Tap,  \* the keys, by what the keymap holds for them
          Right,            \* those of the other half, ordered by row and column
          None,             \* INVALID_KEY_POS, and the empty keycode
          SLOTS,            \* MAX_REPORT_KEYS
          HALF,             \* CONFIG_KASE_HALF_LINK_RX
          HAS_DISPLAY       \* CONFIG_KASE_HAS_DISPLAY

Key   == Plain \cup Mod \cup Tap
Slots == 1 .. SLOTS

ASSUME ScanAssumption ==
  /\ SLOTS \in Nat \ {0}
  /\ Key \subseteq Nat /\ None \notin Key
  /\ Plain \cap Mod = {} /\ Plain \cap Tap = {} /\ Mod \cap Tap = {}
  /\ Right \subseteq Key /\ HALF \in BOOLEAN /\ HAS_DISPLAY \in BOOLEAN
  /\ ~HALF => Right = {}

VARIABLES
  local,    \* the driver's key_data: the keys of this half, in the order pressed
  remote,   \* the keys of the other half, as half_link last received them
  rchanged, \* s_distant_change
  cur,      \* current_press_row/col
  filled,   \* s_filled_local
  kc,       \* keycodes[]
  flag,     \* stat_matrix_changed
  prev,     \* prev_press_row/col
  th,       \* the tap/hold state of each mod-tap key
  expired,  \* hold_activated_flag
  rmods,    \* report_mods
  inj,      \* tap_injected_slots
  pc,       \* where the keyboard task stands
  path,     \* for which of its three reasons it is building
  i,        \* the slot being built
  key,      \* the position read from that slot
  normal,   \* has_normal_press
  out       \* the report last given to send_hid_key

scanVars   == <<local, cur, kc, flag, filled>>
remoteVars == <<remote, rchanged>>
engineVars == <<prev, th, expired, rmods, inj>>
buildVars  == <<path, i, key, normal>>
vars == <<scanVars, remoteVars, engineVars, buildVars, pc, out>>

Held(p) == {p[j] : j \in Slots} \ {None}

MatrixType == /\ local \in Seq(Key) /\ flag \in BOOLEAN
              /\ cur \in [Slots -> Key \cup {None}]
              /\ kc \in [Slots -> Key \cup {None}]
              /\ filled \in 0 .. SLOTS
RemoteType == remote \subseteq Right /\ rchanged \in BOOLEAN
EngineType == /\ prev \in [Slots -> Key \cup {None}]
              /\ th \in [Tap -> {"idle", "pending", "hold", "tap"}]
              /\ expired \in BOOLEAN /\ rmods \subseteq Tap /\ inj \subseteq Slots
BuildType  == /\ pc \in {"wait", "remote", "hold", "matrix", "build", "read", "write",
                         "finish", "inject", "save", "send", "untap"}
              /\ path \in {"remote", "hold", "matrix"}
              /\ i \in Slots /\ key \in Key \cup {None} /\ normal \in BOOLEAN
OutType    == out \in [keys : SUBSET Key, mods : SUBSET Key]
TypeOK == MatrixType /\ RemoteType /\ EngineType /\ BuildType /\ OutType

\* The keys physically down, as the driver and the link know them.
Pressed == {local[n] : n \in DOMAIN local} \cup remote

NoKeys == [j \in Slots |-> None]

\* current_press[] starts zeroed, at position (0,0): no build reads it before a
\* callback or a merge has written it.
Init ==
  /\ local = <<>> /\ remote = {} /\ rchanged = FALSE /\ filled = 0
  /\ cur = NoKeys /\ kc = NoKeys /\ prev = NoKeys /\ flag = FALSE
  /\ th = [t \in Tap |-> "idle"] /\ expired = FALSE /\ rmods = {} /\ inj = {}
  /\ pc = "wait" /\ path = "matrix" /\ i = 1 /\ key = None /\ normal = FALSE
  /\ out = [keys |-> {}, mods |-> {}]

-----------------------------------------------------------------------------
(* The two halves of the matrix.                                           *)

AtMost(n) == IF n <= SLOTS THEN n ELSE SLOTS

\* The n-th key of the other half, by row then column.
RemoteAt(n) ==
  LET here == {k \in remote : Cardinality({j \in remote : j <= k}) = n}
  IN IF here = {} THEN None ELSE CHOOSE k \in here : TRUE

\* The slots after a scan that found the keys of s pressed; those beyond are
\* free for the other half.
Scanned(s, from) ==
  [j \in Slots |-> IF j <= Len(s) THEN s[j]
                   ELSE IF HALF /\ HAS_DISPLAY THEN RemoteAt(j - from) ELSE None]

\* The driver appends a key that goes down, and closes the gap of one that goes up.
Moved(k) ==
  IF k \notin Pressed THEN {Append(local, k)}
  ELSE {[m \in 1 .. Len(local) - 1 |-> IF m < n THEN local[m] ELSE local[m + 1]] :
          n \in {m \in DOMAIN local : local[m] = k}}

\* keyboard_btn_cb: a key of this half has moved.
Scan(k) ==
  \E now \in Moved(k) :
     /\ local' = now
     /\ kc' = NoKeys
     /\ filled' = IF HALF /\ HAS_DISPLAY THEN AtMost(Len(now)) ELSE filled
     /\ cur' = Scanned(now, AtMost(Len(now)))
     /\ flag' = TRUE
     /\ UNCHANGED <<remoteVars, engineVars, buildVars, pc, out>>

\* half_link_rx_task, on the other core: a key of the other half has moved.
RemoteFrame(k) ==
  /\ HALF
  /\ remote' = IF k \in remote THEN remote \ {k} ELSE remote \cup {k}
  /\ rchanged' = TRUE
  /\ UNCHANGED <<scanVars, engineVars, buildVars, pc, out>>

-----------------------------------------------------------------------------
(* The loop of the keyboard task.                                          *)

\* tap_hold_tick: some of the pending keys have been down for 200 ms.
LoopTop ==
  /\ pc = "wait"
  /\ \E old \in SUBSET {t \in Tap : th[t] = "pending"} :
       /\ th' = [t \in Tap |-> IF t \in old THEN "hold" ELSE th[t]]
       /\ expired' = (old # {})
  /\ pc' = "remote"
  /\ UNCHANGED <<scanVars, remoteVars, prev, rmods, inj, buildVars, out>>

\* Faulty variant: the other half is merged only when this one has moved too.
RemotePathOnScan ==
  /\ pc = "remote"
  /\ IF HALF /\ rchanged /\ flag
     THEN /\ rchanged' = FALSE
          /\ cur' = [j \in Slots |-> IF j <= filled THEN cur[j] ELSE RemoteAt(j - filled)]
          /\ pc' = "build" /\ path' = "remote"
     ELSE /\ pc' = "hold"
          /\ UNCHANGED <<rchanged, cur, path>>
  /\ UNCHANGED <<local, kc, flag, filled, remote, engineVars, i, key, normal, out>>

\* half_link_remote_changed, then matrix_apply_remote.
RemotePath ==
  /\ pc = "remote"
  /\ IF HALF /\ rchanged
     THEN /\ rchanged' = FALSE
          /\ cur' = [j \in Slots |-> IF j <= filled THEN cur[j] ELSE RemoteAt(j - filled)]
          /\ pc' = "build" /\ path' = "remote"
     ELSE /\ pc' = "hold"
          /\ UNCHANGED <<rchanged, cur, path>>
  /\ UNCHANGED <<local, kc, flag, filled, remote, engineVars, i, key, normal, out>>

HoldPath ==
  /\ pc = "hold"
  /\ IF expired THEN pc' = "build" /\ path' = "hold"
                ELSE pc' = "matrix" /\ UNCHANGED path
  /\ UNCHANGED <<scanVars, remoteVars, engineVars, i, key, normal, out>>

\* matrix_flag_take: the flag goes down before the matrix is read.
MatrixPath ==
  /\ pc = "matrix"
  /\ IF flag THEN pc' = "build" /\ path' = "matrix"
             ELSE pc' = "wait" /\ UNCHANGED path
  /\ flag' = FALSE
  /\ UNCHANGED <<local, cur, kc, filled, remoteVars, engineVars, i, key, normal, out>>

-----------------------------------------------------------------------------
(* build_keycode_report                                                    *)

\* detect_releases: a key saved by the previous build is no longer there.
DetectReleases ==
  /\ pc = "build"
  /\ th' = [t \in Tap |-> IF t \notin Held(prev) \ Held(cur) THEN th[t]
                          ELSE IF th[t] = "pending" THEN "tap" ELSE "idle"]
  /\ inj' = {} /\ normal' = FALSE /\ i' = 1
  /\ pc' = "read"
  /\ UNCHANGED <<scanVars, remoteVars, prev, expired, rmods, path, key, out>>

ReadSlot ==
  /\ pc = "read"
  /\ key' = cur[i]
  /\ pc' = "write"
  /\ UNCHANGED <<scanVars, remoteVars, engineVars, path, i, normal, out>>

\* Faulty variant: an empty slot leaves its keycode as it finds it.
WriteSlotSkipsEmpty ==
  /\ pc = "write"
  /\ kc' = IF key \in Tap \cup {None} THEN kc ELSE [kc EXCEPT ![i] = key]
  /\ normal' = (normal \/ key \in Plain \cup Mod)
  /\ IF i < SLOTS THEN i' = i + 1 /\ pc' = "read"
                  ELSE i' = i /\ pc' = "finish"
  /\ UNCHANGED <<local, cur, flag, filled, remoteVars, engineVars, path, key, out>>

\* Faulty variant: only a position that was not saved is a press.
WriteSlotNewOnly ==
  /\ pc = "write"
  /\ kc' = IF key \in Tap THEN kc ELSE [kc EXCEPT ![i] = key]
  /\ th' = [t \in Tap |-> IF t = key /\ t \notin Held(prev) /\ th[t] = "idle"
                          THEN "pending" ELSE th[t]]
  /\ normal' = (normal \/ key \in Plain \cup Mod)
  /\ IF i < SLOTS THEN i' = i + 1 /\ pc' = "read"
                  ELSE i' = i /\ pc' = "finish"
  /\ UNCHANGED <<local, cur, flag, filled, remoteVars, prev, expired, rmods, inj,
                 path, key, out>>

\* A mod-tap leaves its keycode as it finds it.
WriteSlot ==
  /\ pc = "write"
  /\ kc' = IF key \in Tap THEN kc ELSE [kc EXCEPT ![i] = key]
  /\ th' = [t \in Tap |-> IF t = key /\ th[t] = "idle" THEN "pending" ELSE th[t]]
  /\ normal' = (normal \/ key \in Plain \cup Mod)
  /\ IF i < SLOTS THEN i' = i + 1 /\ pc' = "read"
                  ELSE i' = i /\ pc' = "finish"
  /\ UNCHANGED <<local, cur, flag, filled, remoteVars, prev, expired, rmods, inj,
                 path, key, out>>

\* Faulty variant: the modifiers are those read before the interrupt.
FinishKeysOldMods ==
  /\ pc = "finish"
  /\ th' = [t \in Tap |-> IF normal /\ th[t] = "pending" THEN "hold" ELSE th[t]]
  /\ rmods' = {t \in Tap : th[t] = "hold"}
  /\ pc' = "inject"
  /\ UNCHANGED <<scanVars, remoteVars, prev, expired, inj, buildVars, out>>

\* tap_hold_interrupt on a real key, then the modifiers of the holds.
FinishKeys ==
  /\ pc = "finish"
  /\ th' = [t \in Tap |-> IF normal /\ th[t] = "pending" THEN "hold" ELSE th[t]]
  /\ rmods' = {t \in Tap : th'[t] = "hold"}
  /\ pc' = "inject"
  /\ UNCHANGED <<scanVars, remoteVars, prev, expired, inj, buildVars, out>>

EmptySlots == {j \in Slots : kc[j] = None}

\* Each resolved tap takes the first empty slot, or is dropped.
InjectTap ==
  /\ pc = "inject"
  /\ \E t \in Tap : th[t] = "tap" /\ th' = [th EXCEPT ![t] = "idle"]
                    /\ \/ EmptySlots = {} /\ UNCHANGED <<kc, inj>>
                       \/ \E j \in EmptySlots : /\ \A l \in EmptySlots : j <= l
                                                /\ kc' = [kc EXCEPT ![j] = t]
                                                /\ inj' = inj \cup {j}
  /\ UNCHANGED <<local, cur, flag, filled, remoteVars, prev, expired, rmods, buildVars,
                 pc, out>>

TapsInjected ==
  /\ pc = "inject"
  /\ \A t \in Tap : th[t] # "tap"
  /\ pc' = "save"
  /\ UNCHANGED <<scanVars, remoteVars, engineVars, buildVars, out>>

\* Faulty variant: the flag goes down after the matrix was read (the fault of audit F3).
SavePositionsClear ==
  /\ pc = "save"
  /\ prev' = cur /\ flag' = FALSE
  /\ pc' = "send"
  /\ UNCHANGED <<local, cur, kc, filled, remoteVars, th, expired, rmods, inj, buildVars,
                 out>>

SavePositions ==
  /\ pc = "save"
  /\ prev' = cur
  /\ pc' = "send"
  /\ UNCHANGED <<scanVars, remoteVars, th, expired, rmods, inj, buildVars, out>>

-----------------------------------------------------------------------------
\* Faulty variant: the modifiers of the last report are never taken back.
SendHidKeySticky ==
  /\ pc = "send"
  /\ out' = [keys |-> Held(kc) \ Mod, mods |-> out.mods \cup (Held(kc) \cap Mod) \cup rmods]
  /\ kc' = [j \in Slots |-> IF kc[j] \in Mod THEN None ELSE kc[j]]
  /\ pc' = IF path = "remote" THEN "hold"
           ELSE IF path = "hold" THEN "matrix"
           ELSE IF inj # {} THEN "untap" ELSE "wait"
  /\ UNCHANGED <<local, cur, flag, filled, remoteVars, engineVars, buildVars>>

\* Faulty variant: a tap is sent, not taken out.
SendHidKeyNoUntap ==
  /\ pc = "send"
  /\ out' = [keys |-> Held(kc) \ Mod, mods |-> (Held(kc) \cap Mod) \cup rmods]
  /\ kc' = [j \in Slots |-> IF kc[j] \in Mod THEN None ELSE kc[j]]
  /\ pc' = IF path = "remote" THEN "hold" ELSE IF path = "hold" THEN "matrix" ELSE "wait"
  /\ UNCHANGED <<local, cur, flag, filled, remoteVars, engineVars, buildVars>>

\* send_hid_key up to its deduplication: the codes of physical modifiers move
\* from keycodes[] to the modifier byte.  Only the matrix path looks for taps.
SendHidKey ==
  /\ pc = "send"
  /\ out' = [keys |-> Held(kc) \ Mod, mods |-> (Held(kc) \cap Mod) \cup rmods]
  /\ kc' = [j \in Slots |-> IF kc[j] \in Mod THEN None ELSE kc[j]]
  /\ pc' = IF path = "remote" THEN "hold"
           ELSE IF path = "hold" THEN "matrix"
           ELSE IF inj # {} THEN "untap" ELSE "wait"
  /\ UNCHANGED <<local, cur, flag, filled, remoteVars, engineVars, buildVars>>

\* key_processor_clear_taps, 10 ms later.
ClearTaps ==
  /\ pc = "untap"
  /\ kc' = [j \in Slots |-> IF j \in inj THEN None ELSE kc[j]]
  /\ inj' = {}
  /\ pc' = "send"
  /\ UNCHANGED <<local, cur, flag, filled, remoteVars, prev, th, expired, rmods,
                 buildVars, out>>

Keyboard == \/ LoopTop \/ RemotePath \/ HoldPath \/ MatrixPath
            \/ DetectReleases \/ ReadSlot \/ WriteSlot \/ FinishKeys
            \/ InjectTap \/ TapsInjected \/ SavePositions
            \/ SendHidKey \/ ClearTaps

ScanSome   == \E k \in Key \ Right : Scan(k)
RemoteSome == \E k \in Right : RemoteFrame(k)
Next == ScanSome \/ RemoteSome \/ Keyboard

Spec == Init /\ [][Next]_vars

\* The keyboard task runs whenever it can: the callback lasts some microseconds
\* every millisecond, and the tasks above it block between two events.
FairSpec == Spec /\ WF_vars(Keyboard)

-----------------------------------------------------------------------------
(* Properties.                                                             *)

\* The loop has handled everything it was told of.
AtRest == pc = "wait" /\ ~flag /\ ~rchanged

\* matrix_flag.h: taking the flag before the read, a press may be read twice but
\* is never lost.  Once the loop is at rest, each plain key in the slots is in
\* the report the host was sent, whatever the callback interrupted.
PressShown == AtRest => Held(cur) \cap Plain \subseteq out.keys

\* The converse: a plain key that is up is no longer in the report.
ReleaseShown == AtRest => out.keys \cap Plain \subseteq Held(cur)

\* extract_modifiers carries "the modifiers of physical keys" to the modifier
\* byte: at rest, the report has those of the keys in the slots.
ModifiersShown == AtRest => out.mods \cap Mod = Held(cur) \cap Mod

\* tap_hold_on_press: a mod-tap that is down is followed by the engine, even
\* when its press fell into the middle of a build.
PressIsTracked == AtRest => \A t \in Held(cur) \cap Tap : th[t] \in {"pending", "hold"}

\* key_processor.c reads the modifiers again after tap_hold_interrupt: what the
\* host was sent are the modifiers of the holds, and no resolved tap is waiting.
HoldsAreSent ==
  AtRest => /\ out.mods \cap Tap = {t \in Tap : th[t] = "hold"}
            /\ \A t \in Tap : th[t] # "tap"

\* "Tap: sends the tap keycode" (KEYCODE_MAP.md), a press and a release: a code
\* injected into a report is taken out again before the loop rests.
TapIsReleased == AtRest => out.keys \cap Tap = {}

\* Every change is handled: unless keys keep moving, the loop ends at rest, and
\* the last report shows the slots.
Settled == AtRest /\ PressShown /\ Held(cur) \cap Plain = out.keys \cap Plain
Moves   == ScanSome \/ RemoteSome
Settles == []<><<Moves>>_vars \/ []<>Settled
=============================================================================
