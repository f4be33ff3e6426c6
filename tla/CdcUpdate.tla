----------------------------- MODULE CdcUpdate -----------------------------
(***************************************************************************)
(* A firmware update over the CDC port, and the start-up that has to let    *)
(* the next one in.                                                        *)
(*                                                                         *)
(*   rx task   assembles KS frames and hands one over in ready_frame, under *)
(*             a mutex, or drops it; answers a bad CRC itself               *)
(*   cdc_cmd   runs the handler of the frame and answers, piece by piece,   *)
(*             in the same stream                                          *)
(*   host      sends a frame, waits for the answer to its command or gives  *)
(*             up, and starts over; its program may be killed at any byte   *)
(*   app_main  counts the start-ups that did not end and skips what is      *)
(*             stored after BOOT_CRASH_LIMIT of them                       *)
(*                                                                         *)
(* A frame is a header, payload units and a CRC; a USB packet carries some  *)
(* of them.  Only a header looks like one, and a CRC fits its own payload   *)
(* only.  FAULTS bounds what goes wrong.                                   *)
(***************************************************************************)
EXTENDS Naturals, Sequences, SequencesExt

CONSTANTS WIDTH,             \* payload units of a chunk
          CHUNKS,            \* chunks of the image
          BOOT_CRASH_LIMIT,  \* failed start-ups before safe mode
          FAULTS             \* kills, early time-outs, refusals of the flash, resets

ASSUME CdcAssumption == /\ WIDTH \in Nat \ {0, 1} /\ CHUNKS \in Nat \ {0}
                        /\ BOOT_CRASH_LIMIT \in Nat /\ FAULTS \in Nat

Start == [cmd |-> "start", n |-> 0]
Abort == [cmd |-> "abort", n |-> 0]
Chunk(n) == [cmd |-> "data", n |-> n]
Frame == {Start, Abort} \cup {Chunk(n) : n \in 1..CHUNKS}

Width == [start |-> 1, abort |-> 0, data |-> WIDTH]
Payload(f) == [i \in 1..Width[f.cmd] |-> <<f, i>>]
Units(f) == [i \in 1..(Width[f.cmd] + 2) |-> <<f, i - 1>>]
Packets(f) == IF f.cmd = "data"
              THEN <<SubSeq(Units(f), 1, 2), SubSeq(Units(f), 3, WIDTH + 2)>>
              ELSE <<Units(f)>>

Whole == [n \in 1..CHUNKS |-> Payload(Chunk(n))]

VARIABLES
  host,    \* st, the frame it sends or waits for, chunks acknowledged since its start
  out,     \* packets it has still to write
  bin_rx,  \* whether a frame is under way, its command, its payload so far
  err,     \* what the rx task has still to write of an ERR_CRC
  ready,   \* ready_frame: ready, command, payload buffer
  pc,      \* where the worker stands
  ans,     \* what it has still to write of its answer
  tx,      \* what the host has not read
  ota,     \* ota_state, whether ota_handle is open, ota_received in chunks
  half,    \* what esp_ota_write has taken of a chunk so far
  image,   \* the chunks written since esp_ota_begin
  boot,    \* the image esp_ota_set_boot_partition chose (<<>>: the one that runs)
  dev,     \* "starting" until the end of app_main
  crashes, \* boot_crash_count
  safe,    \* safe_mode
  faults

hostVars == <<host, out>>
binVars == <<bin_rx, err>>
workVars == <<pc, ans>>
otaVars == <<ota, half, image, boot>>
bootVars == <<dev, crashes, safe>>
updateVars == <<hostVars, binVars, ready, workVars, tx, otaVars, bootVars, faults>>

RxIdle == [st |-> "idle", cmd |-> "abort", got |-> <<>>]
NoFrame == [full |-> FALSE, cmd |-> "abort", buf |-> Payload(Chunk(1))]
OtaIdle == [st |-> "idle", open |-> FALSE, received |-> 0]

UpdateInit ==
  /\ host = [st |-> "rest", f |-> Start, acked |-> 0] /\ out = <<>>
  /\ bin_rx = RxIdle /\ err = <<>> /\ ready = NoFrame
  /\ pc = "poll" /\ ans = <<>> /\ tx = <<>>
  /\ ota = OtaIdle /\ half = <<>> /\ image = <<>> /\ boot = <<>>
  /\ dev = "starting" /\ crashes = 1 /\ safe = FALSE /\ faults = 0

Fault == faults < FAULTS /\ faults' = faults + 1

-----------------------------------------------------------------------------
(* The rx task.                                                            *)

\* The pieces of an answer: header, payload if any, CRC, each a write of its own.
Answer(cmd, st) ==
  LET part(p) == [cmd |-> cmd, st |-> st, part |-> p]
  IN  IF st = "ok" /\ cmd # "abort" THEN <<part("hdr"), part("pay"), part("crc")>>
                                    ELSE <<part("hdr"), part("crc")>>

CrcFits(got, u) == got = Payload(u[1]) /\ u[2] = Width[u[1].cmd] + 1

\* The body of a frame: as much of a payload as is missing, then the CRC; after it
\* the rest of the packet is not looked at.
Fill(cmd, old, body) ==
  LET room == Width[cmd] - Len(old)
      got  == old \o SubSeq(body, 1, IF Len(body) <= room THEN Len(body) ELSE room)
  IN  [cmd |-> cmd, got |-> got,
       end |-> IF Len(body) <= room THEN "no"
               ELSE IF CrcFits(got, body[room + 1]) THEN "frame" ELSE "bad"]

\* A packet through the state machine: more of the frame under way, or a new one, or
\* nothing that begins one.
Feed(p) ==
  CASE bin_rx.st = "busy" -> Fill(bin_rx.cmd, bin_rx.got, p)
    [] bin_rx.st = "idle" /\ p[1][2] = 0 -> Fill(p[1][1].cmd, <<>>, Tail(p))
    [] bin_rx.st = "idle" /\ p[1][2] # 0 -> [cmd |-> "abort", got |-> <<>>, end |-> "stray"]

\* Faulty variant: a frame that is being served is overwritten.
HandOverBusy(a, r) ==
  IF a.end = "frame"
  THEN [full |-> TRUE, cmd |-> a.cmd,
        buf |-> [i \in 1..WIDTH |-> IF i <= Len(a.got) THEN a.got[i] ELSE r.buf[i]]]
  ELSE r

\* A valid frame is copied to ready_frame, over what an older one left there, unless
\* that one has not been served.
HandOver(a, r) ==
  IF a.end = "frame" /\ ~r.full
  THEN [full |-> TRUE, cmd |-> a.cmd,
        buf |-> [i \in 1..WIDTH |-> IF i <= Len(a.got) THEN a.got[i] ELSE r.buf[i]]]
  ELSE r

\* The worker has answered and not yet freed the buffer: a few microseconds, which the
\* next frame of a host that waited may fall into, but not for ever.
Returning == pc = "respond" /\ ans = <<>>

\* The host writes a packet and the receive callback feeds it.
KsRxFeed ==
  /\ out # <<>> /\ err = <<>>
  /\ IF Returning THEN Fault ELSE UNCHANGED faults
  /\ LET a == Feed(Head(out))
     IN  /\ bin_rx' = IF a.end = "no" THEN [st |-> "busy", cmd |-> a.cmd, got |-> a.got]
                     ELSE RxIdle
         /\ ready' = HandOver(a, ready)
         /\ err' = IF a.end = "bad" THEN Answer(a.cmd, "crc") ELSE <<>>
  /\ out' = Tail(out)
  /\ UNCHANGED <<host, workVars, tx, otaVars, bootVars>>

RxAnswer == /\ err # <<>>
            /\ tx' = Append(tx, Head(err)) /\ err' = Tail(err)
            /\ UNCHANGED <<hostVars, bin_rx, ready, workVars, otaVars, bootVars, faults>>

-----------------------------------------------------------------------------
(* The worker: ks_process_one and the OTA handlers.                        *)

KsProcessOne == /\ pc = "poll" /\ ready.full /\ pc' = ready.cmd
                /\ UNCHANGED <<hostVars, binVars, ready, ans, tx, otaVars, bootVars,
                               faults>>

Respond(st) == ans' = Answer(ready.cmd, st) /\ pc' = "respond"

\* Faulty variant: a new session goes on counting where the old one stopped.
OtaBeginCountsOn(ok) ==
  /\ ota' = IF ok THEN [ota EXCEPT !.st = "receiving", !.open = TRUE]
                  ELSE [ota EXCEPT !.open = FALSE]
  /\ image' = <<>>

\* esp_ota_begin, after the handle of an older session was given back.  When it fails
\* ota_state is left as it was.
OtaBegin(ok) ==
  /\ ota' = IF ok THEN [st |-> "receiving", open |-> TRUE, received |-> 0]
                  ELSE [ota EXCEPT !.open = FALSE]
  /\ image' = <<>>

OtaStart == /\ pc = "start"
            /\ \/ OtaBegin(TRUE) /\ Respond("ok") /\ UNCHANGED faults
               \/ OtaBegin(FALSE) /\ Respond("busy") /\ Fault
            /\ UNCHANGED <<hostVars, binVars, ready, tx, half, boot, bootVars>>

OtaAborted == ota' = [ota EXCEPT !.st = "idle", !.open = FALSE] /\ image' = <<>>

\* The flash is written from ready_frame while frames come in.
Half == SubSeq(ready.buf, 1, WIDTH \div 2)
Flashed == image' = Append(image, [i \in 1..WIDTH |-> IF i <= Len(half) THEN half[i]
                                                     ELSE ready.buf[i]])

OtaData ==
  /\ pc = "data"
  /\ \/ /\ ota.st # "receiving" /\ Respond("invalid")
        /\ UNCHANGED <<ota, half, image, faults>>
     \/ /\ ota.st = "receiving"
        /\ ota.received + 1 > CHUNKS \/ ~ota.open
        /\ OtaAborted /\ Respond("busy") /\ UNCHANGED <<half, faults>>
     \/ /\ ota.st = "receiving" /\ ota.open
        /\ ota.received + 1 <= CHUNKS
        /\ half' = Half /\ pc' = "write"
        /\ UNCHANGED <<ans, ota, image, faults>>
  /\ UNCHANGED <<hostVars, binVars, ready, tx, boot, bootVars>>

OtaWrite ==
  /\ pc = "write"
  /\ \/ /\ Flashed
        /\ ota' = [ota EXCEPT !.received = @ + 1]
        /\ IF ota.received + 1 >= CHUNKS
           THEN pc' = "finish" /\ UNCHANGED ans
           ELSE Respond("ok")
        /\ UNCHANGED faults
     \/ OtaAborted /\ Respond("busy") /\ Fault
  /\ half' = <<>>
  /\ UNCHANGED <<hostVars, binVars, ready, tx, boot, bootVars>>

\* esp_ota_end and esp_ota_set_boot_partition; the model does not count on the check
\* of the image by the first.
OtaFinish ==
  /\ pc = "finish"
  /\ ota' = [ota EXCEPT !.st = "idle", !.open = FALSE]
  /\ \/ boot' = image /\ ans' = Answer("data", "ok") /\ pc' = "last" /\ UNCHANGED faults
     \/ Respond("busy") /\ Fault /\ UNCHANGED boot
  /\ UNCHANGED <<hostVars, binVars, ready, tx, half, image, bootVars>>

OtaAbort == /\ pc = "abort"
            /\ IF ota.st = "receiving" THEN OtaAborted /\ Respond("ok")
                                       ELSE Respond("invalid") /\ UNCHANGED <<ota, image>>
            /\ UNCHANGED <<hostVars, binVars, ready, tx, half, boot, bootVars, faults>>

KsRespond == /\ ans # <<>>
             /\ tx' = Append(tx, Head(ans)) /\ ans' = Tail(ans)
             /\ UNCHANGED <<hostVars, binVars, ready, pc, otaVars, bootVars, faults>>

\* The handler has returned: the buffer is free.
Served == /\ Returning
          /\ ready' = [ready EXCEPT !.full = FALSE] /\ pc' = "poll"
          /\ UNCHANGED <<hostVars, binVars, ans, tx, otaVars, bootVars, faults>>

-----------------------------------------------------------------------------
(* Start-up.                                                               *)

\* Faulty variant: the magic number is not written, so no start-up finds a count.
CountBootNoMagic(c) == safe' = (1 > BOOT_CRASH_LIMIT) /\ crashes' = 1

\* The crash counter at the top of app_main: c is what RTC memory holds.
CountBoot(c) ==
  /\ safe' = (c + 1 > BOOT_CRASH_LIMIT)
  /\ crashes' = IF c + 1 > BOOT_CRASH_LIMIT THEN 0 ELSE c + 1

\* What a reset does: RAM is gone, and the port with it.
Reset(c) ==
  /\ CountBoot(c) /\ dev' = "starting"
  /\ bin_rx' = RxIdle /\ err' = <<>> /\ ready' = NoFrame /\ pc' = "poll" /\ ans' = <<>>
  /\ tx' = <<>> /\ out' = <<>> /\ ota' = OtaIdle /\ half' = <<>> /\ image' = <<>>
  /\ host' = IF host.st = "done" THEN host
             ELSE [st |-> "rest", f |-> Start, acked |-> 0]
  /\ UNCHANGED boot

\* A complete answer, or something that cannot begin one, is there for the host.
Size(p) == IF p.part = "hdr" THEN Len(Answer(p.cmd, p.st)) ELSE 1
Readable == tx # <<>> /\ Len(tx) >= Size(Head(tx))

\* esp_restart 500 ms after the last answer: a host that waits has read it.
OtaRestart == /\ pc = "last" /\ ans = <<>> /\ ~(host.st = "wait" /\ Readable)
              /\ Reset(crashes) /\ UNCHANGED faults

\* A start-up that reads what is stored may crash; one in safe mode does not.
Crash == dev = "starting" /\ ~safe /\ Reset(crashes) /\ UNCHANGED faults

Panic == dev = "up" /\ Reset(crashes) /\ Fault

\* RTC memory is lost: the magic number does not match and the count begins at 0.
PowerCut == Reset(0) /\ Fault

Started == /\ dev = "starting" /\ dev' = "up" /\ crashes' = 0
           /\ UNCHANGED <<hostVars, binVars, ready, workVars, tx, otaVars, safe, faults>>

-----------------------------------------------------------------------------
(* The host.                                                               *)

\* What it has not read is discarded before it sends.
HostSend == /\ host.st = "rest"
            /\ host' = [host EXCEPT !.st = "wait"]
            /\ out' = Packets(host.f) /\ tx' = <<>>
            /\ UNCHANGED <<binVars, ready, workVars, otaVars, bootVars, faults>>

Waiting == host.st = "wait" /\ out = <<>>

\* After an error or no answer it starts over, perhaps with an abort.
GiveUp == \E f \in IF host.f = Abort THEN {Start} ELSE {Start, Abort} :
            host' = [st |-> "rest", f |-> f, acked |-> 0]

Acknowledged ==
  host' = CASE host.f.cmd = "data" /\ host.f.n = CHUNKS ->
                 [st |-> "done", f |-> host.f, acked |-> CHUNKS]
            [] host.f.cmd = "data" /\ host.f.n < CHUNKS ->
                 [st |-> "rest", f |-> Chunk(host.f.n + 1), acked |-> host.f.n]
            [] host.f.cmd = "start" -> [st |-> "rest", f |-> Chunk(1), acked |-> 0]
            [] host.f.cmd = "abort" -> [st |-> "rest", f |-> Start, acked |-> 0]

\* An answer whose CRC does not fit, and one to another command, are passed over.
HostRead ==
  /\ Waiting /\ Readable
  /\ LET p == Head(tx)
         whole == p.part = "hdr" /\ SubSeq(tx, 1, Size(p)) = Answer(p.cmd, p.st)
     IN  /\ tx' = IF whole THEN SubSeq(tx, Size(p) + 1, Len(tx)) ELSE Tail(tx)
         /\ CASE whole /\ p.cmd = host.f.cmd /\ p.st = "ok" -> Acknowledged
              [] whole /\ p.cmd = host.f.cmd /\ p.st # "ok" -> GiveUp
              [] OTHER -> UNCHANGED host
  /\ UNCHANGED <<out, binVars, ready, workVars, otaVars, bootVars, faults>>

\* No answer is coming any more.
Silent == err = <<>> /\ ~ready.full /\ pc = "poll" /\ ~Readable

TimeOut == /\ Waiting /\ GiveUp
           /\ (Silent /\ UNCHANGED faults) \/ (~Silent /\ Fault)
           /\ UNCHANGED <<out, binVars, ready, workVars, tx, otaVars, bootVars>>

\* The program is killed, perhaps in the middle of a frame, and started again.
Kill == /\ host.st = "wait" /\ Fault
        /\ host' = [st |-> "rest", f |-> Start, acked |-> 0] /\ out' = <<>> /\ tx' = <<>>
        /\ UNCHANGED <<binVars, ready, workVars, otaVars, bootVars>>

Worker == \/ KsProcessOne \/ OtaStart \/ OtaData \/ OtaWrite \/ OtaFinish \/ OtaAbort
          \/ KsRespond \/ Served \/ OtaRestart
Host == HostSend \/ HostRead \/ TimeOut

UpdateNext == \/ KsRxFeed \/ RxAnswer \/ Worker \/ Host
              \/ Crash \/ Panic \/ PowerCut \/ Started \/ Kill

\* Both tasks run, the host goes on, and a start-up ends one way or the other; that it
\* ends well is asked of safe mode only.
Fairness == /\ WF_updateVars(KsRxFeed) /\ WF_updateVars(RxAnswer)
            /\ WF_updateVars(Worker) /\ WF_updateVars(Host)
            /\ WF_updateVars(Started \/ Crash) /\ WF_updateVars(safe /\ Started)
UpdateSpec == UpdateInit /\ [][UpdateNext]_updateVars /\ Fairness

-----------------------------------------------------------------------------
(* Properties.                                                             *)

\* The device starts only an image whose chunks are all there, once and in order,
\* whatever was dropped, sent again or cut off on the way.
BootIsWhole == boot \in {<<>>, Whole}

\* What the host has been told is written is written: the image under way begins with
\* the chunks that were acknowledged, and who is told that all are there has an image
\* that will start.
AckedIsWritten ==
  /\ ota.open /\ host.st # "done" =>
       IsPrefix(SubSeq(Whole, 1, host.acked), image)
  /\ host.st = "done" => boot = Whole

\* A host that starts over when it gets no answer ends its update, also after a frame
\* that was cut off, and on a device whose stored settings crash every start-up.
Uploaded == <>(host.st = "done")
=============================================================================
