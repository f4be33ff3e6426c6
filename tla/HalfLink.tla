------------------------------ MODULE HalfLink ------------------------------
(***************************************************************************)
(* The radio link between the two halves of a Niphargus.                   *)
(*                                                                         *)
(*   right half  sends its whole matrix when a key changes, and nothing    *)
(*               else; the outcome of the transmission is not looked at    *)
(*   left half   half_link_rx_task copies a frame into s_distant, raises   *)
(*               s_distant_change if it differs, and empties s_distant     *)
(*               after 250 ms of silence; the keyboard task, on the other  *)
(*               core, takes the flag and rebuilds the report              *)
(*                                                                         *)
(* No lock protects s_distant: the matrix is copied and read key by key.   *)
(* A tick is a part of the 250 ms.                                         *)
(*                                                                         *)
(* The left half scans a matrix of its own.  Its callback empties the six  *)
(* report entries, those of the right half with them: it merges the right  *)
(* half again with CONFIG_KASE_HAS_DISPLAY only, and the left half has no  *)
(* display (Kconfig.projbuild lines 154-165).  The order of the entries    *)
(* and the keys of the left half are in ScanLoop.                          *)
(***************************************************************************)
EXTENDS Naturals, Sequences

CONSTANTS KEYS,     \* keys of the right half
          FIFO,     \* depth of the receive FIFO
          SILENCE   \* the 250 ms, in ticks

ASSUME HalfLinkAssumption == KEYS \in Nat /\ FIFO \in Nat \ {0} /\ SILENCE \in Nat \ {0}

Key == 1..KEYS      \* in the order of rf_bitmap_get's scan

VARIABLES
  right,    \* "off", "burst" while it boots, or "on"
  pressed,  \* what its matrix holds
  lost,     \* its last frame did not arrive, or it died without sending
  fifo,     \* frames in the left half's radio
  rx,       \* where half_link_rx_task stands
  frame,    \* the frame it is copying
  avant,    \* the matrix before that frame
  cursor,   \* the next key to copy or to empty
  bitmap,   \* s_distant.bitmap
  age,      \* ticks since the last frame while vivant (at most SILENCE)
  vivant,   \* s_distant.vivant
  change,   \* s_distant_change
  kb,       \* where the keyboard task stands
  rd,       \* the next key matrix_apply_remote reads
  slots,    \* current_press_*, the entries of the right half
  shown,    \* the keys of the right half in the last report
  wiped     \* the callback has emptied the entries since they were last merged
            \* (history)

rightVars == <<right, pressed, lost>>
rxVars    == <<rx, frame, avant, cursor>>
stateVars == <<bitmap, age, vivant>>
kbVars    == <<kb, rd, slots, shown, wiped>>
vars == <<rightVars, fifo, rxVars, stateVars, change, kbVars>>

TypeOK ==
  /\ right \in {"off", "burst", "on"} /\ pressed \in SUBSET Key /\ lost \in BOOLEAN
  /\ fifo \in Seq(SUBSET Key) /\ Len(fifo) <= FIFO
  /\ rx \in {"read", "copy", "silence", "wipe"}
  /\ frame \in SUBSET Key /\ avant \in SUBSET Key /\ cursor \in 1..KEYS + 1
  /\ bitmap \in SUBSET Key /\ age \in 0..SILENCE /\ vivant \in BOOLEAN
  /\ change \in BOOLEAN
  /\ kb \in {"idle", "taken", "apply"} /\ rd \in 1..KEYS + 1
  /\ slots \in SUBSET Key /\ shown \in SUBSET Key /\ wiped \in BOOLEAN

Init == /\ right = "on" /\ pressed = {} /\ lost = FALSE /\ fifo = <<>>
        /\ rx = "read" /\ frame = {} /\ avant = {} /\ cursor = 1
        /\ bitmap = {} /\ age = 0 /\ vivant = FALSE /\ change = FALSE
        /\ kb = "idle" /\ rd = 1 /\ slots = {} /\ shown = {} /\ wiped = FALSE

-----------------------------------------------------------------------------
(* The right half.                                                         *)

\* half_link_tx_matrix: the frame is lost, arrives, or arrives twice because
\* an acknowledgement was lost.  A full FIFO takes nothing.
Transmit(m) ==
  \/ fifo' = fifo /\ lost' = TRUE
  \/ /\ Len(fifo) < FIFO
     /\ fifo' = Append(fifo, m) /\ lost' = FALSE
  \/ /\ Len(fifo) + 1 < FIFO
     /\ fifo' = Append(Append(fifo, m), m) /\ lost' = FALSE

\* The scan callback: a key has been pressed or released.
KeyChange(k) ==
  /\ right = "on"
  /\ pressed' = IF k \in pressed THEN pressed \ {k} ELSE pressed \cup {k}
  /\ Transmit(pressed')
  /\ UNCHANGED <<right, rxVars, stateVars, change, kbVars>>

\* The battery is empty, or the half is out of reach for good.
RightDies ==
  /\ right # "off" /\ right' = "off" /\ pressed' = {} /\ lost' = TRUE
  /\ UNCHANGED <<fifo, rxVars, stateVars, change, kbVars>>

RightBoots == /\ right = "off" /\ right' = "burst"
              /\ UNCHANGED <<pressed, lost, fifo, rxVars, stateVars, change, kbVars>>

\* half_link_tx_init: frames without a key test the link, then the scan starts.
Burst == /\ right = "burst" /\ right' \in {"burst", "on"} /\ Transmit({})
         /\ UNCHANGED <<pressed, rxVars, stateVars, change, kbVars>>

-----------------------------------------------------------------------------
(* half_link_rx_task.  A local is reset when the loop has no more use for  *)
(* it.                                                                     *)

Read == /\ rx = "read" /\ fifo # <<>>
        /\ frame' = Head(fifo) /\ fifo' = Tail(fifo) /\ avant' = bitmap
        /\ cursor' = 1 /\ rx' = "copy"
        /\ UNCHANGED <<rightVars, stateVars, change, kbVars>>

NothingToRead == /\ rx = "read" /\ fifo = <<>> /\ rx' = "silence"
                 /\ UNCHANGED <<rightVars, fifo, frame, avant, cursor, stateVars, change, kbVars>>

\* Faulty variant: the frame is added to what is there.
Copied_or(k) == IF k \in frame THEN bitmap \cup {k} ELSE bitmap

Copied(k) == IF k \in frame THEN bitmap \cup {k} ELSE bitmap \ {k}

\* half_state_recu: one key of the memcpy.
Copy == /\ rx = "copy" /\ cursor <= KEYS
        /\ bitmap' = Copied(cursor) /\ cursor' = cursor + 1
        /\ UNCHANGED <<rightVars, fifo, rx, frame, avant, age, vivant, change, kbVars>>

\* Faulty variant: a frame does not arm the silence.
CopyEnds_unarmed ==
  /\ rx = "copy" /\ cursor > KEYS /\ rx' = "silence"
  /\ age' = 0 /\ change' = (change \/ avant # bitmap)
  /\ frame' = {} /\ avant' = {} /\ cursor' = 1
  /\ UNCHANGED <<rightVars, fifo, bitmap, vivant, kbVars>>

\* half_state_recu: the rest.  derniere_ms and vivant belong to this task.
CopyEnds == /\ rx = "copy" /\ cursor > KEYS /\ rx' = "silence"
            /\ age' = 0 /\ vivant' = TRUE /\ change' = (change \/ avant # bitmap)
            /\ frame' = {} /\ avant' = {} /\ cursor' = 1
            /\ UNCHANGED <<rightVars, fifo, bitmap, kbVars>>

\* half_state_timeout, which is false until the silence is over.
StillAlive == /\ rx = "silence" /\ (~vivant \/ age < SILENCE) /\ rx' = "read"
              /\ UNCHANGED <<rightVars, fifo, frame, avant, cursor, stateVars, change, kbVars>>

\* half_state_timeout: the keys are emptied one by one.
Silence == /\ rx = "silence" /\ vivant /\ age >= SILENCE
           /\ rx' = "wipe" /\ cursor' = 1
           /\ UNCHANGED <<rightVars, fifo, frame, avant, stateVars, change, kbVars>>

Wipe == /\ rx = "wipe" /\ cursor <= KEYS
        /\ bitmap' = bitmap \ {cursor} /\ cursor' = cursor + 1
        /\ UNCHANGED <<rightVars, fifo, rx, frame, avant, age, vivant, change, kbVars>>

WipeEnds == /\ rx = "wipe" /\ cursor > KEYS /\ rx' = "read"
            /\ vivant' = FALSE /\ age' = 0 /\ cursor' = 1 /\ change' = TRUE
            /\ UNCHANGED <<rightVars, fifo, frame, avant, bitmap, kbVars>>

RxTask == \/ Read \/ NothingToRead \/ Copy \/ CopyEnds
          \/ StillAlive \/ Silence \/ Wipe \/ WipeEnds

-----------------------------------------------------------------------------
(* The keyboard task: half_link_remote_changed tests the flag and clears   *)
(* it, then matrix_apply_remote reads the matrix.                          *)

Test == /\ kb = "idle" /\ change /\ kb' = "taken"
        /\ UNCHANGED <<rightVars, fifo, rxVars, stateVars, change, rd, slots, shown, wiped>>

Take == /\ kb = "taken" /\ kb' = "apply" /\ change' = FALSE
        /\ slots' = {} /\ wiped' = FALSE
        /\ UNCHANGED <<rightVars, fifo, rxVars, stateVars, rd, shown>>

Apply == /\ kb = "apply" /\ rd <= KEYS
         /\ slots' = slots \cup ({rd} \cap bitmap) /\ rd' = rd + 1
         /\ UNCHANGED <<rightVars, fifo, rxVars, stateVars, change, kb, shown, wiped>>

\* Faulty variant: the flag is cleared when the report has been built.
Report_clears ==
  /\ kb = "apply" /\ rd > KEYS /\ kb' = "idle" /\ rd' = 1
  /\ shown' = slots /\ change' = FALSE
  /\ UNCHANGED <<rightVars, fifo, rxVars, stateVars, slots, wiped>>

\* build_keycode_report and send_hid_key.
Report == /\ kb = "apply" /\ rd > KEYS /\ kb' = "idle" /\ rd' = 1 /\ shown' = slots
          /\ UNCHANGED <<rightVars, fifo, rxVars, stateVars, change, slots, wiped>>

\* A key of the left half, or a hold of its engine: the report is built from the
\* entries as they are.
LocalBuild == /\ kb = "idle" /\ shown' = slots
              /\ UNCHANGED <<rightVars, fifo, rxVars, stateVars, change, kb, rd, slots, wiped>>

\* keyboard_btn_cb on the left half, in a task of a higher priority than the keyboard
\* task (matrix_scan.c line 313): between any two steps of it.
ScanCallback == /\ slots' = {} /\ wiped' = (wiped \/ slots # {})
                /\ UNCHANGED <<rightVars, fifo, rxVars, stateVars, change, kb, rd, shown>>

KbTask == Test \/ Take \/ Apply \/ Report

Tick == /\ vivant /\ age < SILENCE /\ age' = age + 1
        /\ UNCHANGED <<rightVars, fifo, rxVars, bitmap, vivant, change, kbVars>>

-----------------------------------------------------------------------------
Next == \/ \E k \in Key : KeyChange(k)
        \/ RightDies \/ RightBoots \/ Burst
        \/ RxTask \/ KbTask \/ LocalBuild \/ ScanCallback \/ Tick

Spec == Init /\ [][Next]_vars

\* Both cores of the left half run and time passes.  Nothing is asked of the
\* right half, nor of the radio.
FairSpec == Spec /\ WF_vars(RxTask) /\ WF_vars(KbTask) /\ WF_vars(Tick)
-----------------------------------------------------------------------------
(* Properties.                                                             *)

AtRest == ~change /\ kb = "idle" /\ rx \in {"read", "silence"}

\* When no change is announced and neither task is in the middle of one, the
\* report holds no key that the matrix of the other half does not, and all those it
\* holds unless the left half's own callback has taken them out since: a flag raised
\* between the test and the clear, and a matrix read half written, are both made up
\* for (half_link_remote_changed against half_link_rx_task).
NoChangeLost == AtRest => shown \subseteq bitmap /\ (~wiped => shown = bitmap)

\* half_link.h lines 33-36: a frame carries the whole matrix, so that one that
\* arrives makes up for those that were lost.
FrameMakesUp ==
  ~lost /\ fifo = <<>> /\ vivant /\ rx \in {"read", "silence"} => bitmap = pressed

\* half_link.h lines 38-42: a key that the right half no longer holds, or a half
\* that is gone, does not stay pressed on the host, whatever was lost.
GoneIsReleased ==
  \A k \in Key : <>[](k \notin pressed) => <>[](k \notin shown)
=============================================================================
