-------------------------------- MODULE Ccid --------------------------------
(***************************************************************************)
(* The CCID transport of the dongle, and the wait for a touch.             *)
(*                                                                         *)
(*   host          sends a command, reads until its answer has come; resets *)
(*                 the bus and enumerates again at any point               *)
(*   tud_task      the transfers of ccid.c and the calls the worker defers *)
(*   ccid_worker   runs the card on a command and builds the answer        *)
(*                                                                         *)
(* The card is in the dongle's build alone (KASE_SEC_OPENPGP), and that     *)
(* build has no keymap engine (main/CMakeLists.txt lines 52-65): nothing   *)
(* in it calls sec_confirm_authorize, so that sec_confirm_poll finds a     *)
(* request pending until the deadline and s_state needs no variable.  The  *)
(* key that confirms is resolved by the keyboard it is on, in a build of   *)
(* its own that has no request pending.                                    *)
(*                                                                         *)
(* Two buffers are shared without a lock, s_out_buf and s_in_buf.  What    *)
(* the card does is in OpenPgpCard.  s_busy is left out: it is read for a  *)
(* runt frame only, and OUT is never primed while it is set.               *)
(***************************************************************************)
EXTENDS Naturals, Sequences

CONSTANTS COMMANDS,   \* bound: commands the host sends
          RESETS,     \* bound: resets of the bus
          RETRIES     \* times the final answer waits for the endpoint (200)

ASSUME CcidAssumption == COMMANDS \in Nat /\ RESETS \in Nat /\ RETRIES \in Nat

\* A command is told from the others by its bSeq.  0: none.
Seq0 == 0..COMMANDS

\* ICC_POWER_ON and GET_SLOT_STATUS; XFR_BLOCK; XFR_BLOCK that asks for a touch.
Kind == {"inline", "plain", "touch"}
Message == [id : Seq0, kind : Kind]

\* What s_in_buf holds: the bSeq it is stamped with, and the commands the answer
\* was computed from.
Answer == [seq : Seq0, of : SUBSET Seq0]
NoAnswer == [seq |-> 0, of |-> {}]

Call == [what : {"wtx", "final"}, tries : 0..RETRIES]

VARIABLES
  open,      \* the endpoints are there (s_ep_in and s_ep_out)
  primed,    \* s_ep_out has a transfer
  flying,    \* the transfer of s_ep_in: "none", "wtx", "final" or "zlp"
  carried,   \* what it sends
  final,     \* s_final_queued
  curSeq,    \* s_cur_seq
  obuf,      \* s_out_buf
  ibuf,      \* s_in_buf
  ready,     \* s_msg_ready
  deferred,  \* the calls of usbd_defer_func
  worker,    \* where ccid_worker stands
  job,       \* the command it parsed
  late,      \* the deadline of dongle_confirm has passed
  waits,     \* the command whose answer the host reads for
  got,       \* the answer it took last
  resets,
  torn,      \* a reset came upon a command, and no command since has found the
             \* card at rest (history)
  abandoned  \* the final answer was given up (history)

endpoints == <<open, primed, flying, carried, final>>
buffers   == <<curSeq, obuf, ibuf>>
work      == <<ready, worker, job, late>>
host      == <<waits, got, resets, torn>>
vars == <<endpoints, buffers, deferred, work, host, abandoned>>

TypeOK ==
  /\ open \in BOOLEAN /\ primed \in BOOLEAN /\ final \in BOOLEAN
  /\ flying \in {"none", "wtx", "final", "zlp"} /\ carried \in Answer
  /\ curSeq \in Seq0 /\ obuf \in Message /\ ibuf \in Answer
  /\ ready \in BOOLEAN /\ deferred \in Seq(Call)
  /\ worker \in {"wait", "run", "ask", "done"} /\ job \in Message
  /\ late \in BOOLEAN
  /\ waits \in Seq0 /\ got \in Answer /\ resets \in 0..RESETS
  /\ torn \in BOOLEAN /\ abandoned \in BOOLEAN

Init ==
  /\ open = FALSE /\ primed = FALSE /\ flying = "none" /\ carried = NoAnswer /\ final = FALSE
  /\ curSeq = 0 /\ obuf = [id |-> 0, kind |-> "inline"] /\ ibuf = NoAnswer
  /\ ready = FALSE /\ deferred = <<>>
  /\ worker = "wait" /\ job = obuf /\ late = FALSE
  /\ waits = 0 /\ got = NoAnswer /\ resets = 0 /\ torn = FALSE /\ abandoned = FALSE

\* Nothing of a command is left in the card.
Quiet == worker = "wait" /\ ~ready /\ deferred = <<>>

-----------------------------------------------------------------------------
(* The bus.                                                                *)

\* ccid_drv_reset; the calls that were deferred stay in TinyUSB's queue.
Reset ==
  /\ open /\ resets < RESETS
  /\ open' = FALSE /\ primed' = FALSE /\ flying' = "none" /\ carried' = NoAnswer /\ final' = FALSE
  /\ waits' = 0 /\ got' = NoAnswer /\ resets' = resets + 1
  /\ torn' = (torn \/ ~Quiet) /\ abandoned' = FALSE
  /\ UNCHANGED <<buffers, deferred, work>>

\* ccid_drv_open.
Open ==
  /\ ~open /\ open' = TRUE /\ primed' = TRUE
  /\ UNCHANGED <<flying, carried, final, buffers, deferred, work, host, abandoned>>

\* ccid_dispatch of a command that is answered at once.  The endpoint may have a
\* transfer of before the reset: then usbd_edpt_xfer fails.
DispatchInline(c) ==
  /\ ibuf' = [seq |-> c, of |-> {c}] /\ final' = TRUE
  /\ IF flying = "none" THEN flying' = "final" /\ carried' = ibuf'
                        ELSE UNCHANGED <<flying, carried>>
  /\ UNCHANGED <<curSeq, ready>>

\* ccid_dispatch of a command for the worker.
DispatchXfrBlock(c) ==
  /\ curSeq' = c /\ ready' = TRUE
  /\ UNCHANGED <<flying, carried, final, ibuf>>

\* The host has one command at a time (bMaxCCIDBusySlots).
Command(kind) ==
  LET c == obuf.id + 1 IN
  /\ primed /\ waits = 0 /\ c <= COMMANDS
  /\ primed' = FALSE /\ obuf' = [id |-> c, kind |-> kind]
  /\ IF kind = "inline" THEN DispatchInline(c) ELSE DispatchXfrBlock(c)
  /\ waits' = c /\ got' = NoAnswer /\ torn' = (torn /\ ~(Quiet /\ flying = "none"))
  /\ UNCHANGED <<open, deferred, worker, job, late, resets, abandoned>>

-----------------------------------------------------------------------------
(* tud_task: the transfers of s_ep_in that have ended (ccid_drv_xfer) and  *)
(* the calls that were deferred.                                           *)

\* The end of an answer: OUT is primed for the next command.
Primes == final' = FALSE /\ primed' = TRUE

\* The host takes the answer that bears the bSeq of its command.
Takes(a) == IF a.seq = waits THEN waits' = 0 /\ got' = a ELSE UNCHANGED <<waits, got>>

\* While the host reads.  A time extension that ends while an answer is on its
\* way, as only a reset can bring about, passes for its end.
WtxSent ==
  /\ flying = "wtx" /\ waits # 0 /\ flying' = "none" /\ carried' = NoAnswer
  /\ IF final THEN Primes ELSE UNCHANGED <<final, primed>>
  /\ UNCHANGED <<open, buffers, deferred, work, host, abandoned>>

\* The bytes are read from s_in_buf while they are sent.  An answer that fills
\* its last packet is followed by an empty one.
FinalSent == \E a \in {carried, ibuf} :
  /\ flying = "final" /\ waits # 0
  /\ \/ /\ flying' = "none" /\ carried' = NoAnswer /\ Takes(a) /\ Primes
     \/ /\ flying' = "zlp" /\ carried' = a /\ UNCHANGED <<final, primed, waits, got>>
  /\ UNCHANGED <<open, buffers, deferred, work, resets, torn, abandoned>>

ZlpSent ==
  /\ flying = "zlp" /\ waits # 0 /\ flying' = "none" /\ carried' = NoAnswer
  /\ Takes(carried) /\ Primes
  /\ UNCHANGED <<open, buffers, deferred, work, resets, torn, abandoned>>

Calls(what) == deferred # <<>> /\ Head(deferred).what = what

\* Faulty variant: the time extension is built in s_in_buf.
SendWtx_shared ==
  /\ Calls("wtx") /\ deferred' = Tail(deferred)
  /\ IF open /\ flying = "none"
       THEN /\ flying' = "wtx" /\ ibuf' = [seq |-> curSeq, of |-> {}] /\ carried' = ibuf'
       ELSE UNCHANGED <<flying, carried, ibuf>>
  /\ UNCHANGED <<open, primed, final, curSeq, obuf, work, host, abandoned>>

\* ccid_send_wtx_cb.
SendWtx ==
  /\ Calls("wtx") /\ deferred' = Tail(deferred)
  /\ IF open /\ flying = "none"
       THEN flying' = "wtx" /\ carried' = [seq |-> curSeq, of |-> {}]
       ELSE UNCHANGED <<flying, carried>>
  /\ UNCHANGED <<open, primed, final, buffers, work, host, abandoned>>

\* Faulty variant: the endpoint is not looked at.
SendFinal_unguarded ==
  /\ Calls("final") /\ deferred' = Tail(deferred) /\ flying = "none"
  /\ final' = TRUE /\ flying' = "final" /\ carried' = ibuf
  /\ UNCHANGED <<open, primed, buffers, work, host, abandoned>>

\* ccid_send_final_cb: dropped after a reset, deferred again while the endpoint is
\* busy, in the end given up.
SendFinal ==
  /\ Calls("final")
  /\ \/ /\ ~open /\ final' = FALSE /\ deferred' = Tail(deferred)
        /\ UNCHANGED <<flying, carried, abandoned>>
     \/ /\ open /\ flying = "none"
        /\ final' = TRUE /\ flying' = "final" /\ carried' = ibuf
        /\ deferred' = Tail(deferred) /\ UNCHANGED abandoned
     \/ /\ open /\ flying # "none" /\ Head(deferred).tries < RETRIES
        /\ deferred' = Append(Tail(deferred), [Head(deferred) EXCEPT !.tries = @ + 1])
        /\ UNCHANGED <<flying, carried, final, abandoned>>
     \/ /\ open /\ flying # "none" /\ Head(deferred).tries = RETRIES
        /\ deferred' = Tail(deferred) /\ abandoned' = TRUE
        /\ UNCHANGED <<flying, carried, final>>
  /\ UNCHANGED <<open, primed, buffers, work, host>>

TudTask == WtxSent \/ FinalSent \/ ZlpSent \/ SendWtx \/ SendFinal

-----------------------------------------------------------------------------
(* ccid_worker.                                                            *)

\* openpgp_card_apdu parses s_out_buf in place.
Take ==
  /\ worker = "wait" /\ ready /\ ready' = FALSE
  /\ job' = obuf
  /\ worker' = IF obuf.kind = "touch" THEN "run" ELSE "done"
  /\ UNCHANGED <<endpoints, buffers, deferred, late, host, abandoned>>

\* sec_confirm_arm.
Arm ==
  /\ worker = "run" /\ worker' = "ask" /\ late' = FALSE
  /\ UNCHANGED <<endpoints, buffers, deferred, ready, job, host, abandoned>>

\* Faulty variant: the deadline resets the request and does not return.
Deadline_stays ==
  /\ worker = "ask" /\ late /\ UNCHANGED worker
  /\ UNCHANGED <<endpoints, buffers, deferred, ready, job, late, host, abandoned>>

\* dongle_confirm, every 20 ms: past the deadline it refuses, and before it
\* sec_confirm_poll answers that the request is pending.
Deadline ==
  /\ worker = "ask" /\ late /\ worker' = "done"
  /\ UNCHANGED <<endpoints, buffers, deferred, ready, job, late, host, abandoned>>

\* A time extension every 1500 ms; tud_task has served the one before.
Extend ==
  /\ worker = "ask" /\ ~late /\ deferred = <<>>
  /\ deferred' = <<[what |-> "wtx", tries |-> 0]>>
  /\ UNCHANGED <<endpoints, buffers, work, host, abandoned>>

\* The card reads the data of the command where they lie, and the answer is
\* stamped with s_cur_seq.
Build ==
  /\ worker = "done" /\ worker' = "wait" /\ job' = [id |-> 0, kind |-> "inline"]
  /\ ibuf' = [seq |-> curSeq, of |-> {job.id, obuf.id}]
  /\ deferred' = Append(deferred, [what |-> "final", tries |-> 0])
  /\ UNCHANGED <<endpoints, curSeq, obuf, ready, late, host, abandoned>>

Worker == Take \/ Arm \/ Deadline \/ Build

-----------------------------------------------------------------------------
(* The clock.                                                              *)

\* The fifteen seconds are over.
Tick ==
  /\ worker = "ask" /\ ~late /\ late' = TRUE
  /\ UNCHANGED <<endpoints, buffers, deferred, ready, worker, job, host, abandoned>>

-----------------------------------------------------------------------------
Next == \/ Reset \/ Open \/ \E kind \in Kind : Command(kind)
        \/ TudTask \/ Worker \/ Extend \/ Tick

Spec == Init /\ [][Next]_vars

\* Both tasks run, a host that waits reads, and time passes.
FairSpec == Spec /\ WF_vars(TudTask) /\ WF_vars(Worker) /\ WF_vars(Tick)

-----------------------------------------------------------------------------
(* Properties.                                                             *)

\* The host's answer is that of its command and of no other (ccid.c lines 19-20
\* and 109-111): no buffer is written while the other side reads it.  A reset in
\* the middle of a command may mix answers up until a command finds the card at
\* rest, and then no longer.
AnswersMatch == ~torn /\ got # NoAnswer => got.of = {got.seq}

\* ccid.c lines 179-184 and 206-210: no call that was deferred before a reset
\* makes a transfer on the control endpoint.
ControlIsFree == flying # "none" => open

\* A command is answered, also one that asks for a touch, unless the host did not read
\* the time extension before the answer was given up.
Answered ==
  \A c \in 1..COMMANDS : waits = c /\ ~torn ~> waits # c \/ abandoned
=============================================================================
