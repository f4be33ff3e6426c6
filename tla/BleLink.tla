------------------------------ MODULE BleLink -------------------------------
(***************************************************************************)
(* The Bluetooth link of a keyboard to its host (hid_bluetooth_manager.c). *)
(*                                                                         *)
(* Four tasks write the same flags without a lock: the Bluetooth task,     *)
(* which runs the GAP and GATT callbacks; KM_Worker, which switches the    *)
(* stack on and off; the keyboard task and the CDC task, which disconnect, *)
(* pair and change slots.  What happens on the air and what the callbacks  *)
(* do about it are steps of their own, with a queue of events in between.  *)
(* The calls of one callback or command follow each other within           *)
(* microseconds and are one step; those of KM_Worker wait for the stack,   *)
(* and everything else comes between any two of them.                      *)
(* There is one host: the slots are left out.                              *)
(***************************************************************************)
EXTENDS Naturals, Sequences

CONSTANT EVENTS   \* bound: events that wait for the Bluetooth task

ASSUME BleAssumption == EVENTS \in Nat

VARIABLES on,      \* the stack runs
          up,      \* bt_initialized
          sec,     \* sec_conn
          con,     \* the connection, on the air
          adv,     \* the stack advertises
          setup,   \* the callback that init_hid_bluetooth still waits for
          events,  \* queue of the Bluetooth task
          closing, \* the end of the connection was asked for
          km,      \* where KM_Worker stands
          quiet    \* history: the last call about advertising was to stop it

airVars  == <<con, events, closing>>
flagVars == <<up, sec>>
bleVars  == <<on, flagVars, airVars, adv, setup, km, quiet>>

Event == {"connect", "auth", "fail", "disconnect"}

BleTypeOK ==
  /\ on \in BOOLEAN /\ up \in BOOLEAN /\ sec \in BOOLEAN
  /\ con \in {"none", "open", "secure"} /\ events \in Seq(Event)
  /\ adv \in BOOLEAN /\ closing \in BOOLEAN /\ quiet \in BOOLEAN
  /\ setup \in {"none", "reg", "data"}
  /\ km \in {"idle", "starting", "stop", "profile", "clear"}

\* Start-up: the stack is on or off, as it was saved (load_bt_state).
BleInit ==
  /\ up \in BOOLEAN /\ on = up /\ setup = IF up THEN "reg" ELSE "none"
  /\ sec = FALSE /\ con = "none" /\ adv = FALSE /\ events = <<>>
  /\ closing = FALSE /\ km = "idle" /\ quiet = FALSE
-----------------------------------------------------------------------------
(* On the air.                                                             *)

Tell(e) == Len(events) < EVENTS /\ events' = Append(events, e)

\* Advertising ends with a connection.
HostConnects == /\ on /\ adv /\ con = "none" /\ Tell("connect")
                /\ con' = "open" /\ closing' = FALSE /\ adv' = FALSE
                /\ UNCHANGED <<on, flagVars, setup, km, quiet>>

HostPairs == /\ con = "open" /\ Tell("auth")
             /\ con' = "secure"
             /\ UNCHANGED <<on, flagVars, closing, adv, setup, km, quiet>>

PairingFails == /\ con = "open" /\ Tell("fail")
                /\ UNCHANGED <<on, flagVars, con, closing, adv, setup, km, quiet>>

\* The host leaves or is out of reach, or the end that was asked for comes.
LinkEnds == /\ con # "none" /\ Tell("disconnect")
            /\ con' = "none" /\ closing' = FALSE
            /\ UNCHANGED <<on, flagVars, adv, setup, km, quiet>>
-----------------------------------------------------------------------------
(* The callbacks, in the Bluetooth task.                                   *)

Handle(e) == events # <<>> /\ Head(events) = e /\ events' = Tail(events)

Advertise == adv' = TRUE /\ quiet' = FALSE

\* BLE_CONNECT.
Connected == /\ Handle("connect") /\ sec' = TRUE
             /\ UNCHANGED <<on, up, con, closing, adv, setup, km, quiet>>

\* AUTH_CMPL; late, for a connection that was closed in the meantime.
Authenticated == /\ Handle("auth") /\ sec' = TRUE
                 /\ UNCHANGED <<on, up, con, closing, adv, setup, km, quiet>>

AuthFailed == /\ Handle("fail") /\ sec' = FALSE
              /\ UNCHANGED <<on, up, con, closing, adv, setup, km, quiet>>

\* Faulty variant: does not advertise again.
Disconnected_silent == /\ Handle("disconnect") /\ sec' = FALSE
                       /\ UNCHANGED <<on, up, con, closing, adv, setup, km, quiet>>

\* BLE_DISCONNECT: advertises again, also when it was asked for.
Disconnected == /\ Handle("disconnect") /\ sec' = FALSE /\ Advertise
                /\ UNCHANGED <<on, up, con, closing, setup, km>>

\* REG_FINISH hands the advertising data over; when they are set, advertising starts.
RegFinish == /\ setup = "reg" /\ setup' = "data"
             /\ UNCHANGED <<on, flagVars, airVars, adv, km, quiet>>

AdvDataSet == /\ setup = "data" /\ setup' = "none" /\ Advertise
              /\ UNCHANGED <<on, flagVars, airVars, km>>
-----------------------------------------------------------------------------
(* Commands, of the keyboard task and of the CDC task.                     *)

\* Asks for the end of a connection that is known, and forgets it at once.
Close == closing' = (closing \/ (sec /\ con # "none"))

bt_disconnect == /\ up /\ Close
                 /\ sec' = FALSE /\ adv' = FALSE /\ quiet' = TRUE
                 /\ UNCHANGED <<on, up, con, events, setup, km>>

\* Both disconnect, then advertise; bt_switch_slot does also while bt_initialized
\* is false, which a stack that is starting obeys.
bt_start_pairing == /\ up /\ Close
                    /\ sec' = FALSE /\ adv' = on /\ quiet' = FALSE
                    /\ UNCHANGED <<on, up, con, events, setup, km>>

bt_switch_slot == \/ bt_start_pairing
                  \/ /\ ~up /\ on /\ Advertise
                     /\ UNCHANGED <<on, flagVars, airVars, setup, km>>
-----------------------------------------------------------------------------
(* KM_Worker, for a BT_TOGGLE.                                             *)

\* init_hid_bluetooth: the stack runs and is set up long before the flag says so.
StackUp == /\ km = "idle" /\ ~up
           /\ on' = TRUE /\ setup' = "reg" /\ km' = "starting"
           /\ UNCHANGED <<flagVars, airVars, adv, quiet>>

InitDone == /\ km = "starting"
            /\ up' = TRUE /\ km' = "idle"
            /\ UNCHANGED <<on, sec, airVars, adv, setup, quiet>>

\* deinit_hid_bluetooth closes a known connection and waits for 200 ms.
DeinitClose == /\ km = "idle" /\ up
               /\ Close /\ km' = "stop"
               /\ UNCHANGED <<on, flagVars, con, events, adv, setup, quiet>>

DeinitAdvertising == /\ km = "stop"
                     /\ adv' = FALSE /\ quiet' = TRUE /\ km' = "profile"
                     /\ UNCHANGED <<on, flagVars, airVars, setup>>

\* The profile, Bluedroid and the controller end, whatever came meanwhile; the
\* events that are queued are lost.  The flags still say that the radio is on.
DeinitStack == /\ km = "profile"
               /\ on' = FALSE /\ con' = "none" /\ adv' = FALSE
               /\ events' = <<>> /\ closing' = FALSE /\ setup' = "none"
               /\ km' = "clear"
               /\ UNCHANGED <<flagVars, quiet>>

DeinitFlags == /\ km = "clear"
               /\ up' = FALSE /\ sec' = FALSE /\ quiet' = FALSE /\ km' = "idle"
               /\ UNCHANGED <<on, airVars, adv, setup>>

KM_Worker == \/ StackUp \/ InitDone
             \/ DeinitClose \/ DeinitAdvertising \/ DeinitStack \/ DeinitFlags
-----------------------------------------------------------------------------
Air      == HostConnects \/ HostPairs \/ PairingFails \/ LinkEnds
Callback == \/ Connected \/ Authenticated \/ AuthFailed \/ Disconnected
            \/ RegFinish \/ AdvDataSet
Command  == bt_disconnect \/ bt_switch_slot

BleNext == Air \/ Callback \/ Command \/ KM_Worker

BleSpec == BleInit /\ [][BleNext]_bleVars
-----------------------------------------------------------------------------
\* The Bluetooth task has handled what the stack had to tell, and KM_Worker waits.
Settled == km = "idle" /\ events = <<>> /\ setup = "none"

\* The flags and the radio agree whenever things have settled, whichever of the
\* four tasks wrote last and however their steps fell into each other: the radio
\* is silent when it is off; when it is on a host can reach the keyboard, unless
\* somebody asked it to stop advertising; sec_conn is not left behind by a
\* connection that ended, and a connection that was authenticated has it, unless
\* its end was asked for.
RadioAgrees ==
  Settled => /\ ~up => ~on /\ ~sec /\ ~adv /\ con = "none"
             /\ up => adv \/ con # "none" \/ quiet
             /\ sec => con # "none"
             /\ con = "secure" => sec \/ closing
=============================================================================
