------------------------------ MODULE HidPath ------------------------------
(***************************************************************************)
(* The way of a keyboard report from the keyboard task to the host.        *)
(*                                                                         *)
(*   keyboard task (prio 3)   send_hid_key: dedup, then a bounded queue    *)
(*   hid_sender_task (prio 4) takes a report and hands it to a transport   *)
(*   hid_transport            USB endpoint (one report in flight) or BLE   *)
(*                                                                         *)
(* Both tasks are pinned to core 0, so a step of the sender between two    *)
(* blocking calls is atomic for the keyboard task, and not the converse:   *)
(* send_hid_key is one action per queue operation, and one for each time   *)
(* it reads keycodes[], which the scan callback (prio 5) may zero between  *)
(* any two of them.  The radio is BleLink; here it may be ready and have a *)
(* host, or not, from any step to the next.  A report is an opaque value:  *)
(* six keycodes and the modifier byte.  Mouse messages are left out:       *)
(* send_mouse_report and send_hid_kb_mouse have no caller.                 *)
(***************************************************************************)
EXTENDS Naturals, Sequences, FiniteSets

CONSTANTS Report,      \* the keyboard reports
          Empty,       \* "everything released"
          NoReport,    \* absence of a report
          NoKeys,      \* a report with its keycodes zeroed; the modifiers stay
          QLEN,        \* depth of hid_queue (32 in the code)
          TapReports   \* reports played by send_tap (tap dance, leader, macros)

ASSUME HidAssumption == /\ Empty \in Report
                        /\ NoReport \notin Report
                        /\ QLEN \in Nat /\ QLEN >= 2
                        /\ TapReports \subseteq Report
                        /\ NoKeys \in [Report -> Report] /\ NoKeys[Empty] = Empty
                        /\ \A r \in Report : NoKeys[NoKeys[r]] = NoKeys[r]

Transport == {"usb", "ble"}
MaybeReport == Report \cup {NoReport}

VARIABLES
  want,    \* keycodes[] as it is, and the modifiers send_hid_key found
  last,    \* dedup.last_kc/last_mod, NoReport while dedup.valid is false
  fresh,   \* the last commit is younger than KEY_ENQUEUE_MIN_MS
  queue,   \* hid_queue
  kb,      \* where the keyboard task stands in send_hid_key or send_tap
  copy,    \* the report it has copied, to be queued
  peek,    \* the message it has taken out to look at
  sender,  \* where hid_sender_task stands
  msg,     \* the message it is transmitting
  mode,    \* usb_bl_state
  ready,   \* bt_initialized and sec_conn
  near,    \* a host is authenticated and in reach of the radio
  bus,     \* the USB bus is running (neither suspended nor unplugged)
  ep,      \* the report loaded in the HID IN endpoint
  host,    \* what each host believes is pressed
  fate,    \* why host may differ from newest: "ok", "refused", "unheard" or "foreign"
  newest   \* history: the report that was queued last

kbVars     == <<want, last, fresh, kb, copy, peek, newest>>
senderVars == <<sender, msg>>
radioVars  == <<ready, near>>
wireVars   == <<bus, ep, host>>
vars == <<kbVars, queue, senderVars, mode, wireVars, fate, radioVars>>

TypeOK ==
  /\ want \in Report /\ last \in MaybeReport /\ fresh \in BOOLEAN
  /\ queue \in Seq(Report) /\ Len(queue) <= QLEN
  /\ kb \in {"idle", "send", "copy", "putback", "enqueue", "commit", "tap"}
  /\ peek \in MaybeReport /\ (kb = "putback" <=> peek # NoReport)
  /\ copy \in MaybeReport /\ (kb \in {"putback", "enqueue"} <=> copy # NoReport)
  /\ newest \in MaybeReport
  /\ sender \in {"receive", "transmit"}
  /\ msg \in MaybeReport /\ (sender = "transmit" <=> msg # NoReport)
  /\ mode \in Transport /\ bus \in BOOLEAN
  /\ ep \in MaybeReport
  /\ host \in [Transport -> Report]
  /\ fate \in {"ok", "refused", "unheard", "foreign"}
  /\ ready \in BOOLEAN /\ near \in BOOLEAN

Init == /\ want = Empty /\ last = NoReport /\ fresh = FALSE
        /\ queue = <<>> /\ kb = "idle" /\ copy = NoReport /\ peek = NoReport
        /\ sender = "receive" /\ msg = NoReport
        /\ ready = FALSE /\ near = FALSE
        /\ mode \in Transport
        /\ bus = TRUE /\ ep = NoReport
        /\ host = [t \in Transport |-> Empty]
        /\ fate = "ok" /\ newest = NoReport

-----------------------------------------------------------------------------
(* Transport.  hid_send_kb_mouse and hid_send_keyboard route on mode.      *)
(* usb_hid_wait_ready waits longer than two bus frames, so it gives up     *)
(* only when the bus does not run.                                         *)

Accepts == IF mode = "usb" THEN bus /\ ep = NoReport ELSE ready

\* The stack drops what it is given for a host that is not authenticated yet, or
\* already gone, and tells nobody (send_hid_bl_key).
Heard == mode = "usb" \/ near

\* Faulty variant: waits for the endpoint without a limit.
Refuses_unboundedWait == mode = "ble" /\ ~ready

Refuses == IF mode = "usb" THEN ~bus ELSE ~ready

HandOver(r) ==
  IF mode = "usb" THEN /\ ep' = r
                       /\ UNCHANGED <<bus, host>>
                  ELSE /\ host' = [host EXCEPT !["ble"] = IF near THEN r ELSE @]
                       /\ UNCHANGED <<bus, ep>>

-----------------------------------------------------------------------------
(* Keyboard task.                                                          *)

\* A cycle that built report r and calls send_hid_key.
Build(r) == /\ kb = "idle"
            /\ want' = r /\ kb' = "send"
            /\ UNCHANGED <<last, fresh, queue, copy, peek, newest, senderVars, mode, wireVars,
                           fate, radioVars>>

\* A cycle in which process_matrix_changes dispatched BT_SWITCH_DEVICE: the radio
\* has to be initialised, which it may be without being ready.
SwitchTransport(r) ==
  /\ kb = "idle"
  /\ want' = r /\ kb' = "send"
  /\ mode' \in IF mode = "ble" THEN {"usb"} ELSE IF ready THEN {"ble"} ELSE Transport
  /\ fate' = "foreign"
  /\ UNCHANGED <<last, fresh, queue, copy, peek, newest, senderVars, wireVars, radioVars>>

\* keyboard_btn_cb empties keycodes[], wherever the keyboard task stands.
Scan == /\ want' = NoKeys[want]
        /\ UNCHANGED <<last, fresh, kb, copy, peek, newest, queue, senderVars, mode, wireVars,
                       fate, radioVars>>

hid_dedup_should_send == want # last \/ ~fresh

Dedup == /\ kb = "send"
         /\ kb' = IF hid_dedup_should_send THEN "copy" ELSE "idle"
         /\ UNCHANGED <<want, last, fresh, copy, peek, newest, queue, senderVars, mode, wireVars,
                        fate, radioVars>>

\* The report is copied; the head of the queue is taken out, in case it is a mouse
\* message.
Peek == /\ kb = "copy" /\ copy' = want
        /\ \/ /\ queue = <<>>
              /\ kb' = "enqueue"
              /\ UNCHANGED <<queue, peek>>
           \/ /\ queue # <<>>
              /\ peek' = Head(queue) /\ queue' = Tail(queue) /\ kb' = "putback"
        /\ UNCHANGED <<want, last, fresh, newest, senderVars, mode, wireVars, fate, radioVars>>

\* Faulty variant: returns the new report instead of the message it took out.
PutBack_wrongMessage ==
  /\ kb = "putback"
  /\ queue' = <<copy>> \o queue
  /\ peek' = NoReport /\ kb' = "enqueue"
  /\ UNCHANGED <<want, last, fresh, copy, newest, senderVars, mode, wireVars, fate, radioVars>>

\* xQueueSendToFront with no wait and an unchecked result.
PutBack == /\ kb = "putback"
           /\ queue' = IF Len(queue) < QLEN THEN <<peek>> \o queue ELSE queue
           /\ peek' = NoReport /\ kb' = "enqueue"
           /\ UNCHANGED <<want, last, fresh, copy, newest, senderVars, mode, wireVars, fate,
                          radioVars>>

\* The copy is queued; what is committed next is keycodes[], as it is by then.
Enqueue == /\ kb = "enqueue" /\ Len(queue) < QLEN
           /\ queue' = Append(queue, copy) /\ newest' = copy
           /\ copy' = NoReport /\ kb' = "commit"
           /\ UNCHANGED <<want, last, fresh, peek, senderVars, mode, wireVars, fate, radioVars>>

hid_dedup_commit == last' = want /\ fresh' = TRUE

Commit == /\ kb = "commit" /\ hid_dedup_commit
          /\ kb' = "idle"
          /\ UNCHANGED <<want, copy, peek, newest, queue, senderVars, mode, wireVars, fate,
                         radioVars>>

\* Faulty variant: commits a report the queue did not take (audit F1).
EnqueueTimeout_commits ==
  /\ kb = "enqueue" /\ Len(queue) = QLEN
  /\ hid_dedup_commit
  /\ copy' = NoReport /\ kb' = "idle"
  /\ UNCHANGED <<want, peek, newest, queue, senderVars, mode, wireVars, fate, radioVars>>

\* Full for 5 ms: the report is not committed.
EnqueueTimeout ==
  /\ kb = "enqueue" /\ Len(queue) = QLEN
  /\ copy' = NoReport /\ kb' = "idle"
  /\ UNCHANGED <<want, last, fresh, peek, newest, queue, senderVars, mode, wireVars, fate,
                 radioVars>>

\* KEY_ENQUEUE_MIN_MS elapse after the last commit.
AgeOut == /\ fresh
          /\ fresh' = FALSE
          /\ UNCHANGED <<want, last, queue, kb, copy, peek, newest, senderVars, mode, wireVars,
                         fate, radioVars>>

\* send_tap goes straight to the transport, past the queue and the dedup.
Tap(r, from, to) ==
  /\ kb = from /\ kb' = to
  /\ \/ Accepts /\ HandOver(r)
     \/ Refuses /\ UNCHANGED wireVars
  /\ fate' = "foreign"
  /\ UNCHANGED <<want, last, fresh, queue, copy, peek, newest, senderVars, mode, radioVars>>

TapPress(r) == Tap(r, "idle", "tap")
TapRelease  == Tap(Empty, "tap", "idle")

-----------------------------------------------------------------------------
(* hid_sender_task.                                                        *)

\* Blocks on the queue; a second message it looks at goes back to the front
\* before the keyboard task can run.
Receive == /\ sender = "receive" /\ queue # <<>>
           /\ msg' = Head(queue) /\ queue' = Tail(queue)
           /\ sender' = "transmit"
           /\ UNCHANGED <<kbVars, mode, wireVars, fate, radioVars>>

Done == msg' = NoReport /\ sender' = "receive"

Transmit == /\ sender = "transmit" /\ Accepts
            /\ HandOver(msg) /\ Done
            /\ fate' = IF Heard THEN "ok" ELSE "unheard"
            /\ UNCHANGED <<kbVars, queue, mode, radioVars>>

\* hid_send_kb_mouse returned false; the sender does not look.
TransmitRefused == /\ sender = "transmit" /\ Refuses
                   /\ Done
                   /\ fate' = "refused"
                   /\ UNCHANGED <<kbVars, queue, mode, wireVars, radioVars>>

-----------------------------------------------------------------------------
(* The hosts and the cable.                                                *)

\* The host polls the IN endpoint every millisecond.
HostPoll == /\ bus /\ ep # NoReport
            /\ host' = [host EXCEPT !["usb"] = ep]
            /\ ep' = NoReport
            /\ UNCHANGED <<kbVars, queue, senderVars, mode, bus, fate, radioVars>>

Suspend == /\ bus /\ bus' = FALSE
           /\ UNCHANGED <<kbVars, queue, senderVars, mode, ep, host, fate, radioVars>>

Resume == /\ ~bus /\ bus' = TRUE
          /\ UNCHANGED <<kbVars, queue, senderVars, mode, ep, host, fate, radioVars>>

\* A host that loses the device releases its keys.
ForeignTo(t) == fate' = IF mode = t THEN "foreign" ELSE fate

Unplug == /\ bus /\ bus' = FALSE
          /\ ep' = NoReport
          /\ host' = [host EXCEPT !["usb"] = Empty]
          /\ ForeignTo("usb")
          /\ UNCHANGED <<kbVars, queue, senderVars, mode, radioVars>>

\* BleLink's flags and its connection, in whatever order they change; a host that
\* loses the keyboard releases its keys.
Radio == /\ ready' \in BOOLEAN /\ near' \in BOOLEAN
         /\ IF near /\ ~near'
            THEN host' = [host EXCEPT !["ble"] = Empty] /\ ForeignTo("ble")
            ELSE UNCHANGED <<host, fate>>
         /\ UNCHANGED <<kbVars, queue, senderVars, mode, bus, ep>>

-----------------------------------------------------------------------------
KeyboardTask == \/ \E r \in Report : Build(r) \/ SwitchTransport(r)
                \/ Dedup \/ Peek \/ PutBack \/ Enqueue \/ EnqueueTimeout \/ Commit
                \/ \E r \in TapReports : TapPress(r)
                \/ TapRelease
SenderTask == Receive \/ Transmit \/ TransmitRefused
Environment == \/ AgeOut \/ HostPoll \/ Suspend \/ Resume \/ Unplug
               \/ Scan \/ Radio

Next == KeyboardTask \/ SenderTask \/ Environment

Spec == Init /\ [][Next]_vars

\* The tasks are scheduled, the queue and endpoint waits are bounded, a host
\* whose bus runs polls, and the transmit mutex is granted to the sender before
\* the lower-priority keyboard task.  Nobody has to type, plug or connect.
Fairness ==
  /\ WF_vars(Dedup \/ Peek \/ PutBack \/ Enqueue \/ EnqueueTimeout \/ Commit)
  /\ SF_vars(TapRelease)
  /\ WF_vars(Receive)
  /\ SF_vars(Transmit \/ TransmitRefused)
  /\ WF_vars(HostPoll)

FairSpec == Spec /\ Fairness
-----------------------------------------------------------------------------
(* Properties.                                                             *)

Quiescent == /\ kb = "idle" /\ queue = <<>> /\ sender = "receive"
             /\ mode = "usb" => ep = NoReport

\* Once everything in flight has landed, the host holds exactly the report that was
\* queued last, unless the transport refused it or something else (a tap, a change of
\* transport, a host that forgot) wrote the host since, or it was handed to the radio
\* while no host could hear it.  The dedup believes it holds that report too, or
\* that report without its keys: the callback may have emptied keycodes[] between the
\* copy that was queued and the commit.  (With `last` alone for `newest` it is violated.)
\* The peek of send_hid_key may reorder the queue: it must not matter at rest.
QuiescentAgreement ==
  Quiescent /\ fate = "ok" /\ newest # NoReport =>
    host[mode] = newest /\ last \in {newest, NoKeys[newest]}

\* When typing stops, every accepted report leaves the queue and the sender,
\* whatever the state of the bus and of the radio.
Drains == <>[](kb = "idle") => <>[](queue = <<>> /\ sender = "receive")

-----------------------------------------------------------------------------
(* Refinement: the path is a lossy channel.                                *)

\* How often report r waits in a queue, and in a variable that holds one message.
Copies(r, seq) == Cardinality({i \in DOMAIN seq : seq[i] = r})
Held(r, m) == IF m = r THEN 1 ELSE 0

Pending == [r \in Report |-> Copies(r, queue) + Held(r, peek) + Held(r, msg)]
Out == [t \in Transport |-> IF t = "usb" /\ ep # NoReport THEN ep ELSE host[t]]

Channel == INSTANCE HidChannel WITH Direct <- TapReports, pending <- Pending, out <- Out

\* Every accepted report is handed over at most once or lost, never duplicated
\* and never invented, peek and put-back included.
ChannelSpec == Channel!Spec
=============================================================================
