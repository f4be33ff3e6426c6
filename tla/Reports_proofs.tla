--------------------------- MODULE Reports_proofs ---------------------------
(***************************************************************************)
(* Proofs about the reports: what combos leave in them (KeyFeatures), for  *)
(* any combos, slots and entries, and how they reach a host (HidPath and   *)
(* BleLink), for every set of reports and every depth of the queues.       *)
(***************************************************************************)
EXTENDS HidPath, BleLink, KeyFeatures, SequenceTheorems, FiniteSetTheorems,
        WellFoundedInduction, TLAPS
-----------------------------------------------------------------------------
(* The inductive invariant of QuiescentAgreement.  It follows the report   *)
(* queued last backwards along the path: it is the last element of the     *)
(* queue, or else the message in the sender, or else on the wire.          *)

\* The transport in use carries r, in the endpoint or at the host.
Wire(r) == IF mode = "usb" THEN IF ep # NoReport THEN ep = r ELSE host["usb"] = r
                           ELSE host["ble"] = r

Landed == fate = "ok" /\ newest # NoReport => Wire(newest)

Behind == IF sender = "transmit" THEN msg = newest ELSE Landed

NewestIsLast == IF queue # <<>> THEN queue[Len(queue)] = newest ELSE Behind

\* While the head is out of the queue the sender may overtake it.  Then only one
\* message is left, and there is room for the report that is about to follow.
PeekInv ==
  /\ kb \in {"idle", "send", "copy", "commit", "tap"} => NewestIsLast
  /\ kb = "putback" => /\ queue # <<>> => queue[Len(queue)] = newest
                       /\ Len(queue) < QLEN
  /\ kb = "enqueue" => NewestIsLast \/ Len(queue) <= 1

\* What the dedup knows, but between a queued report and its commit, when keycodes[]
\* is what was queued, or was emptied since.
DedupInv ==
  /\ kb # "commit" => IF newest = NoReport THEN last = NoReport
                                           ELSE last \in {newest, NoKeys[newest]}
  /\ kb = "commit" => newest # NoReport /\ want \in {newest, NoKeys[newest]}
  /\ kb \in {"putback", "enqueue"} => want \in {copy, NoKeys[copy]}

PathInv == TypeOK /\ PeekInv

IInv == PathInv /\ DedupInv

-----------------------------------------------------------------------------
\* What taking the head of the queue leaves.
LEMMA TailFacts ==
  ASSUME NEW S, NEW s \in Seq(S), s # <<>>
  PROVE  /\ Head(s) \in S
         /\ Tail(s) \in Seq(S)
         /\ Len(Tail(s)) = Len(s) - 1
         /\ Tail(s) # <<>> => Tail(s)[Len(Tail(s))] = s[Len(s)]
         /\ Tail(s) = <<>> => Head(s) = s[Len(s)]
<1>1. /\ Head(s) \in S
      /\ Tail(s) \in Seq(S)
      /\ Len(Tail(s)) = Len(s) - 1
      /\ \A i \in 1 .. Len(Tail(s)) : Tail(s)[i] = s[i + 1]
      /\ Head(s) = s[1]
  BY HeadTailProperties
<1>2. Len(s) \in Nat \ {0}
  OBVIOUS
<1>3. Tail(s) # <<>> => Tail(s)[Len(Tail(s))] = s[Len(s)]
  <2>1. Tail(s) # <<>> => Len(Tail(s)) \in 1 .. Len(Tail(s))
    BY <1>1, EmptySeq
  <2>. QED BY <2>1, <1>1, <1>2
<1>4. Tail(s) = <<>> => Len(s) = 1
  <2>1. Tail(s) = <<>> => Len(Tail(s)) = 0
    BY <1>1, EmptySeq
  <2>2. Len(Tail(s)) = Len(s) - 1
    BY <1>1
  <2>. QED BY <2>1, <2>2, <1>2
<1>. QED BY <1>1, <1>3, <1>4

\* What returning a message to the front of the queue leaves.
LEMMA FrontFacts ==
  ASSUME NEW S, NEW s \in Seq(S), NEW m \in S
  PROVE  /\ <<m>> \o s \in Seq(S)
         /\ Len(<<m>> \o s) = Len(s) + 1
         /\ <<m>> \o s # <<>>
         /\ s # <<>> => (<<m>> \o s)[Len(<<m>> \o s)] = s[Len(s)]
<1>1. <<m>> \in Seq(S) /\ Len(<<m>>) = 1
  OBVIOUS
<1>2. /\ <<m>> \o s \in Seq(S)
      /\ Len(<<m>> \o s) = Len(s) + 1
      /\ \A i \in 1 .. 1 + Len(s) :
           (<<m>> \o s)[i] = IF i <= 1 THEN <<m>>[i] ELSE s[i - 1]
  BY <1>1, ConcatProperties
<1>3. <<m>> \o s # <<>>
  BY <1>2
<1>4. s # <<>> => Len(s) \in Nat \ {0}
  OBVIOUS
<1>. QED BY <1>2, <1>3, <1>4
-----------------------------------------------------------------------------
LEMMA InitInv == Init => PathInv
<1> SUFFICES ASSUME Init PROVE PathInv
  OBVIOUS
<1>1. queue \in Seq(Report) /\ Len(queue) <= QLEN
  <2>1. queue \in Seq(Report) /\ Len(queue) = 0
    BY EmptySeq DEF Init
  <2>. QED BY <2>1, HidAssumption
<1>2. TypeOK
  <2>1. Empty \in Report /\ NoReport \notin Report
    BY HidAssumption
  <2>2. host \in [Transport -> Report]
    BY <2>1 DEF Init
  <2>3. mode \in Transport /\ ready \in BOOLEAN /\ near \in BOOLEAN
    BY DEF Init
  <2>. QED BY <1>1, <2>1, <2>2, <2>3, Zenon DEF Init, TypeOK, MaybeReport
<1>3. PeekInv
  BY DEF Init, PeekInv, NewestIsLast, Behind, Landed
<1>. QED BY <1>2, <1>3 DEF PathInv

\* Handing a report to an accepting transport puts it on the wire.
LEMMA HandOverWire ==
  ASSUME TypeOK, NEW r \in Report, Accepts, HandOver(r), mode' = mode
  PROVE  /\ Heard => Wire(r)'
         /\ ep' \in MaybeReport /\ host' \in [Transport -> Report]
         /\ bus' \in BOOLEAN
  BY HidAssumption DEF TypeOK, Accepts, HandOver, Heard, Wire, Transport, MaybeReport

\* The keyboard task keeps the invariant.
LEMMA KeyboardTaskInv == PathInv /\ KeyboardTask => PathInv'
<1> SUFFICES ASSUME TypeOK, PeekInv, KeyboardTask PROVE PathInv'
  BY DEF PathInv
<1> USE HidAssumption DEF TypeOK, Transport, MaybeReport, PathInv,
        kbVars, senderVars, wireVars, radioVars
<1>1. ASSUME NEW r \in Report, Build(r) PROVE PathInv'
  BY <1>1 DEF Build, PeekInv, NewestIsLast, Behind, Landed, Wire
<1>2. ASSUME NEW r \in Report, SwitchTransport(r) PROVE PathInv'
  BY <1>2 DEF SwitchTransport, PeekInv, NewestIsLast, Behind, Landed
<1>3. CASE Dedup
  BY <1>3 DEF Dedup, PeekInv, NewestIsLast, Behind, Landed, Wire
<1>4. CASE Peek
  <2>1. CASE queue = <<>>
    BY <1>4, <2>1, EmptySeq DEF Peek, PeekInv
  <2>2. CASE queue # <<>>
    <3>1. /\ peek' = Head(queue) /\ queue' = Tail(queue) /\ kb' = "putback"
          /\ copy' = want
          /\ UNCHANGED <<want, last, fresh, newest, senderVars, mode, wireVars, fate, radioVars>>
      BY <1>4, <2>2 DEF Peek
    <3>2. queue[Len(queue)] = newest
      BY <1>4, <2>2 DEF Peek, PeekInv, NewestIsLast
    <3>3. /\ peek' \in Report
          /\ queue' \in Seq(Report) /\ Len(queue') < QLEN
          /\ queue' # <<>> => queue'[Len(queue')] = newest
      BY <2>2, <3>1, <3>2, TailFacts
    <3>. QED BY <3>1, <3>3 DEF PeekInv
  <2>. QED BY <2>1, <2>2
<1>5. CASE PutBack
  <2>1. peek \in Report /\ Len(queue) < QLEN
    BY <1>5 DEF PutBack, PeekInv
  <2>2. /\ queue' = <<peek>> \o queue /\ peek' = NoReport /\ kb' = "enqueue"
        /\ UNCHANGED <<want, last, fresh, copy, newest, senderVars, mode, wireVars, fate, radioVars>>
    BY <1>5, <2>1 DEF PutBack
  <2>3. /\ queue' \in Seq(Report) /\ Len(queue') <= QLEN /\ queue' # <<>>
        /\ queue # <<>> => queue'[Len(queue')] = queue[Len(queue)]
        /\ queue = <<>> => Len(queue') <= 1
    BY <2>1, <2>2, FrontFacts, EmptySeq
  <2>4. PeekInv'
    <3>1. queue # <<>> => NewestIsLast'
      BY <1>5, <2>2, <2>3 DEF PutBack, PeekInv, NewestIsLast
    <3>. QED BY <2>2, <2>3, <3>1 DEF PeekInv
  <2>. QED BY <2>2, <2>3, <2>4
<1>6. CASE Enqueue
  <2>1. /\ queue' = Append(queue, copy) /\ newest' = copy /\ copy' = NoReport /\ kb' = "commit"
        /\ Len(queue) < QLEN /\ kb = "enqueue" /\ copy \in Report
        /\ UNCHANGED <<want, last, fresh, peek, senderVars, mode, wireVars, fate, radioVars>>
    BY <1>6 DEF Enqueue
  <2>2. /\ queue' \in Seq(Report) /\ Len(queue') <= QLEN
        /\ queue' # <<>> /\ queue'[Len(queue')] = newest'
    BY <2>1, AppendProperties
  <2>. QED BY <2>1, <2>2 DEF PeekInv, NewestIsLast
<1>7. CASE EnqueueTimeout
  <2>1. NewestIsLast
    BY <1>7 DEF EnqueueTimeout, PeekInv
  <2>. QED BY <1>7, <2>1 DEF EnqueueTimeout, PeekInv, NewestIsLast, Behind, Landed, Wire
<1>8. ASSUME NEW r \in Report, NEW from \in {"idle", "tap"}, NEW to \in {"idle", "tap"},
             Tap(r, from, to)
      PROVE  PathInv'
  <2>1. /\ ep' \in MaybeReport /\ host' \in [Transport -> Report]
        /\ bus' \in BOOLEAN
    BY <1>8, HandOverWire DEF Tap
  <2>2. /\ kb = from /\ kb' = to /\ fate' = "foreign"
        /\ UNCHANGED <<want, last, fresh, queue, copy, peek, newest, senderVars, mode, radioVars>>
    BY <1>8 DEF Tap
  <2>3. TypeOK'
    BY <2>1, <2>2
  <2>4. PeekInv'
    BY <2>2 DEF PeekInv, NewestIsLast, Behind, Landed
  <2>. QED BY <2>3, <2>4
<1>9. ASSUME NEW r \in TapReports, TapPress(r) PROVE PathInv'
  BY <1>8, <1>9 DEF TapPress
<1>10. CASE TapRelease
  BY <1>8, <1>10 DEF TapRelease
<1>11. CASE Commit
  BY <1>11 DEF Commit, hid_dedup_commit, PeekInv, NewestIsLast, Behind, Landed, Wire
<1>. QED BY <1>1, <1>2, <1>3, <1>4, <1>5, <1>6, <1>7, <1>9, <1>10, <1>11 DEF KeyboardTask

\* The sender task keeps the invariant.
LEMMA SenderTaskInv == PathInv /\ SenderTask => PathInv'
<1> SUFFICES ASSUME TypeOK, PeekInv, SenderTask PROVE PathInv'
  BY DEF PathInv
<1> USE HidAssumption DEF TypeOK, Transport, MaybeReport, PathInv,
        kbVars, senderVars, wireVars, radioVars
<1>1. CASE Receive
  <2>1. /\ msg' = Head(queue) /\ queue' = Tail(queue) /\ queue # <<>>
        /\ sender = "receive" /\ sender' = "transmit"
        /\ UNCHANGED <<kbVars, mode, wireVars, fate, radioVars>>
    BY <1>1 DEF Receive
  <2>2. /\ msg' \in Report /\ queue' \in Seq(Report) /\ Len(queue') = Len(queue) - 1
        /\ queue' # <<>> => queue'[Len(queue')] = queue[Len(queue)]
        /\ queue' = <<>> => msg' = queue[Len(queue)]
    BY <2>1, TailFacts
  <2>3. NewestIsLast => NewestIsLast'
    BY <2>1, <2>2 DEF NewestIsLast, Behind
  <2>4. PeekInv'
    BY <2>1, <2>2, <2>3, EmptySeq DEF PeekInv
  <2>. QED BY <2>1, <2>2, <2>4
<1>2. CASE Transmit
  <2>1. /\ sender = "transmit" /\ sender' = "receive" /\ msg' = NoReport
        /\ fate' = IF Heard THEN "ok" ELSE "unheard"
        /\ UNCHANGED <<kbVars, queue, mode, radioVars>> /\ Accepts /\ HandOver(msg)
    BY <1>2 DEF Transmit, Done
  <2>2. PICK m \in Report : m = msg
    BY <2>1
  <2>3. (Heard => Wire(m)') /\ TypeOK'
    BY <2>1, <2>2, HandOverWire
  <2>4. m = newest => Landed'
    BY <2>1, <2>3 DEF Landed, Wire
  <2>5. NewestIsLast => NewestIsLast'
    <3>1. CASE queue # <<>>
      BY <2>1, <3>1 DEF NewestIsLast
    <3>2. CASE queue = <<>>
      BY <2>1, <2>2, <2>4, <3>2 DEF NewestIsLast, Behind
    <3>. QED BY <3>1, <3>2
  <2>. QED BY <2>1, <2>3, <2>5 DEF PeekInv
<1>3. CASE TransmitRefused
  BY <1>3 DEF TransmitRefused, Done, PeekInv, NewestIsLast, Behind, Landed
<1>. QED BY <1>1, <1>2, <1>3 DEF SenderTask

LEMMA PeekStays ==
  PeekInv /\ UNCHANGED <<queue, kb, newest, sender, msg, mode, ep, host, fate>> => PeekInv'
  BY DEF PeekInv, NewestIsLast, Behind, Landed, Wire

\* The host, the cable, the scan callback and the radio keep the invariant.
LEMMA EnvironmentInv == PathInv /\ Environment => PathInv'
<1> SUFFICES ASSUME TypeOK, PeekInv, Environment PROVE PathInv'
  BY DEF PathInv
<1>0. Empty \in Report /\ NoReport \notin Report
  BY HidAssumption
<1> USE DEF TypeOK, Transport, MaybeReport, PathInv,
        kbVars, senderVars, wireVars, radioVars
<1>1. CASE AgeOut
  <2>1. TypeOK'
    <3>1. fresh' \in BOOLEAN
      BY <1>1 DEF AgeOut
    <3>2. UNCHANGED <<want, last, queue, kb, copy, peek, newest, sender, msg, mode, ep, host,
                      ready, near, fate, bus>>
      BY <1>1 DEF AgeOut
    <3>. QED BY <1>0, <3>1, <3>2
  <2>2. PeekInv'
    BY <1>1, PeekStays DEF AgeOut
  <2>. QED BY <2>1, <2>2
<1>2. CASE HostPoll
  BY <1>0, <1>2 DEF HostPoll, PeekInv, NewestIsLast, Behind, Landed, Wire
<1>3. CASE Suspend
  <2>1. TypeOK'
    <3>1. bus' \in BOOLEAN
      BY <1>3 DEF Suspend
    <3>2. UNCHANGED <<want, last, queue, kb, copy, peek, newest, sender, msg, mode, ep, host,
                      ready, near, fate, fresh>>
      BY <1>3 DEF Suspend
    <3>. QED BY <1>0, <3>1, <3>2
  <2>2. PeekInv'
    BY <1>3, PeekStays DEF Suspend
  <2>. QED BY <2>1, <2>2
<1>4. CASE Resume
  <2>1. TypeOK'
    BY <1>0, <1>4 DEF Resume
  <2>2. PeekInv'
    BY <1>4, PeekStays DEF Resume
  <2>. QED BY <2>1, <2>2
<1>5. CASE Unplug
  <2>1. TypeOK'
    BY <1>0, <1>5 DEF Unplug, ForeignTo
  <2>2. Landed => Landed'
    BY <1>0, <1>5 DEF Unplug, ForeignTo, Landed, Wire
  <2>3. PeekInv'
    BY <1>5, <2>2 DEF Unplug, PeekInv, NewestIsLast, Behind
  <2>. QED BY <2>1, <2>3
<1>6. CASE Scan
  BY <1>6, HidAssumption DEF Scan, PeekInv, NewestIsLast, Behind, Landed, Wire
<1>7. ASSUME Radio PROVE PathInv'
  <2>1. /\ host' \in [Transport -> Report] /\ fate' \in {fate, "foreign"}
        /\ fate' = "ok" => fate = "ok" /\ host'[mode] = host[mode]
        /\ ready' \in BOOLEAN /\ near' \in BOOLEAN
        /\ UNCHANGED <<kbVars, queue, senderVars, mode, bus, ep>>
    <3>1. /\ ready' \in BOOLEAN /\ near' \in BOOLEAN
          /\ UNCHANGED <<kbVars, queue, senderVars, mode, bus, ep>>
      BY <1>0, <1>7 DEF Radio
    <3>2. CASE near /\ ~near'
      BY <1>0, <1>7, <3>1, <3>2 DEF Radio, ForeignTo
    <3>3. CASE ~(near /\ ~near')
      BY <1>0, <1>7, <3>1, <3>3 DEF Radio
    <3>. QED BY <3>2, <3>3
  <2>2. Landed => Landed'
    BY <2>1 DEF Landed, Wire
  <2>3. PeekInv'
    BY <2>1, <2>2 DEF PeekInv, NewestIsLast, Behind
  <2>. QED BY <2>1, <2>3
<1>. QED BY <1>1, <1>2, <1>3, <1>4, <1>5, <1>6, <1>7 DEF Environment

\* Only a queued report and its commit change what the dedup knows; a callback in
\* between empties the report, no more.
LEMMA DedupStep == TypeOK /\ DedupInv /\ [Next]_vars => DedupInv'
<1> SUFFICES ASSUME TypeOK, DedupInv, [Next]_vars PROVE DedupInv'
  OBVIOUS
<1> USE DEF DedupInv
<1>1. ASSUME NEW r \in Report, Build(r) \/ SwitchTransport(r) PROVE DedupInv'
  BY <1>1 DEF Build, SwitchTransport
<1>2. CASE Dedup \/ Peek
  BY <1>2 DEF Dedup, Peek
<1>3. CASE PutBack \/ EnqueueTimeout
  BY <1>3 DEF PutBack, EnqueueTimeout
<1>4. CASE Enqueue
  BY <1>4, HidAssumption DEF Enqueue, TypeOK, MaybeReport
<1>5. CASE Commit
  BY <1>5 DEF Commit, hid_dedup_commit
<1>6. CASE Scan
  BY <1>6, HidAssumption DEF Scan, TypeOK, MaybeReport
<1>7. CASE (\E r \in TapReports : TapPress(r)) \/ TapRelease
  BY <1>7 DEF TapPress, TapRelease, Tap
<1>8. ASSUME UNCHANGED <<want, last, kb, copy, newest>> PROVE DedupInv'
  BY <1>8
<1>9. ASSUME SenderTask \/ AgeOut \/ HostPoll \/ Suspend \/ Resume \/ Unplug \/ Radio \/ UNCHANGED vars
      PROVE  UNCHANGED <<want, last, kb, copy, newest>>
  BY <1>9 DEF SenderTask, Receive, Transmit, TransmitRefused, AgeOut, HostPoll, Suspend,
              Resume, Unplug, Radio, kbVars, vars
<1>. QED BY <1>1, <1>2, <1>3, <1>4, <1>5, <1>6, <1>7, <1>8, <1>9
         DEF Next, KeyboardTask, Environment

\* Type correctness of the report path, with the bound on hid_queue
\* (hid_report.c line 264), and its inductive invariant.
THEOREM PathInvariant == Spec => []IInv
<1>1. Init => IInv
  BY InitInv DEF Init, IInv, DedupInv
<1>2. PathInv /\ UNCHANGED vars => PathInv'
  BY DEF PathInv, TypeOK, PeekInv, NewestIsLast, Behind, Landed, Wire,
         vars, kbVars, senderVars, wireVars, radioVars
<1>3. IInv /\ [Next]_vars => IInv'
  <2>1. PathInv /\ [Next]_vars => PathInv'
    BY <1>2, KeyboardTaskInv, SenderTaskInv, EnvironmentInv DEF Next
  <2>. QED BY <2>1, DedupStep DEF IInv, PathInv
<1>. QED BY <1>1, <1>3, PTL DEF Spec

THEOREM TypeCorrect == Spec => []TypeOK
<1>1. IInv => TypeOK
  BY DEF IInv, PathInv
<1>. QED BY <1>1, PathInvariant, PTL

\* Once everything in flight has landed, the host holds the report that send_hid_key
\* queued last, unless the transport refused a report or something else wrote the
\* host, and the dedup knows it by that report or by what a callback left of it: the
\* peek that may reorder hid_queue is harmless for every depth of at least two.
THEOREM Agreement == Spec => []QuiescentAgreement
<1>1. IInv => QuiescentAgreement
  BY DEF IInv, PathInv, TypeOK, PeekInv, DedupInv, NewestIsLast, Behind, Landed, Wire,
         QuiescentAgreement, Quiescent, Transport
<1>. QED BY <1>1, PathInvariant, PTL

\* The unchecked xQueueSendToFront that returns the peeked message (hid_report.c
\* line 180) always finds room: no committed report is dropped there.
THEOREM PutBackFindsRoom == Spec => [](kb = "putback" => Len(queue) < QLEN)
<1>1. IInv => (kb = "putback" => Len(queue) < QLEN)
  BY DEF IInv, PathInv, PeekInv
<1>. QED BY <1>1, PathInvariant, PTL
-----------------------------------------------------------------------------
(* The refinement of HidChannel: what each queue operation does to the     *)
(* number of copies of a report.                                           *)

\* A queue holds a natural number of copies of a report, an empty one none.
LEMMA CopiesType ==
  ASSUME NEW S, NEW s \in Seq(S), NEW r
  PROVE  Copies(r, s) \in Nat /\ (s = <<>> => Copies(r, s) = 0)
<1>1. DOMAIN s = 1..Len(s) /\ Len(s) \in Nat
  OBVIOUS
<1>2. IsFiniteSet(1..Len(s))
  BY <1>1, FS_Interval
<1>3. {i \in DOMAIN s : s[i] = r} \in SUBSET (1..Len(s))
  BY <1>1
<1>4. Copies(r, s) \in Nat
  BY <1>2, <1>3, FS_Subset, FS_CardinalityType DEF Copies
<1>5. s = <<>> => {i \in DOMAIN s : s[i] = r} = {}
  OBVIOUS
<1> QED
  BY <1>4, <1>5, FS_EmptySet DEF Copies

\* A report written to the back of the queue is one copy more.
LEMMA CopiesAppend ==
  ASSUME NEW S, NEW s \in Seq(S), NEW x \in S, NEW r
  PROVE  Copies(r, Append(s, x)) = Copies(r, s) + Held(r, x)
<1> DEFINE A == {i \in DOMAIN s : s[i] = r}
           B == {i \in DOMAIN Append(s, x) : Append(s, x)[i] = r}
<1>1. /\ DOMAIN s = 1..Len(s) /\ Len(s) \in Nat
      /\ DOMAIN Append(s, x) = 1..Len(s) + 1
      /\ \A i \in 1..Len(s) : Append(s, x)[i] = s[i]
      /\ Append(s, x)[Len(s) + 1] = x
  BY AppendProperties
<1>2. IsFiniteSet(A) /\ Len(s) + 1 \notin A
  <2>1. Len(s) \in Int /\ 1 \in Int
    BY <1>1
  <2>2. IsFiniteSet(1..Len(s))
    <3> HIDE DEF A, B
    <3> QED BY ONLY <2>1, FS_Interval
  <2>3. A \in SUBSET (1..Len(s))
    BY <1>1
  <2> QED
    BY <1>1, <2>2, <2>3, FS_Subset
<1>3. CASE x = r
  <2>1. B = A \cup {Len(s) + 1}
    BY <1>1, <1>3
  <2>2. Cardinality(B) = Cardinality(A) + 1
    BY <1>2, <2>1, FS_AddElement
  <2> QED
    BY <1>3, <2>2 DEF Copies, Held
<1>4. CASE x # r
  <2>1. B = A
    BY <1>1, <1>4
  <2>2. Copies(r, Append(s, x)) = Copies(r, s)
    BY <2>1, Zenon DEF Copies
  <2> QED
    BY <1>4, <2>2, CopiesType DEF Held
<1> QED
  BY <1>3, <1>4

\* A message returned to the front of the queue is one copy more.
LEMMA CopiesFront ==
  ASSUME NEW S, NEW s \in Seq(S), NEW m \in S, NEW r
  PROVE  Copies(r, <<m>> \o s) = Copies(r, s) + Held(r, m)
<1> DEFINE t == <<m>> \o s
           A == {i \in DOMAIN s : s[i] = r}
           B == {i \in 2..Len(s) + 1 : t[i] = r}
           C == {i \in DOMAIN t : t[i] = r}
           f == [i \in A |-> i + 1]
<1>1. /\ DOMAIN s = 1..Len(s) /\ Len(s) \in Nat
      /\ DOMAIN t = 1..Len(s) + 1
      /\ t[1] = m
      /\ \A i \in 1..Len(s) : t[i + 1] = s[i]
  <2>1. <<m>> \in Seq(S) /\ Len(<<m>>) = 1 /\ <<m>>[1] = m
    OBVIOUS
  <2>2. /\ t \in Seq(S) /\ Len(t) = 1 + Len(s)
        /\ \A i \in 1..1 + Len(s) : t[i] = IF i <= 1 THEN <<m>>[i] ELSE s[i - 1]
    BY <2>1, ConcatProperties
  <2>3. \A i \in 1..Len(s) : i + 1 \in 1..1 + Len(s) /\ ~(i + 1 <= 1) /\ (i + 1) - 1 = i
    OBVIOUS
  <2> HIDE DEF t
  <2> QED
    BY <2>1, <2>2, <2>3
<1>2. IsFiniteSet(A) /\ Cardinality(A) \in Nat
  <2>0. Len(s) \in Nat
    OBVIOUS
  <2>1. IsFiniteSet(1..Len(s))
    BY <2>0, FS_Interval
  <2>2. A \in SUBSET (1..Len(s))
    BY <1>1
  <2> QED
    BY <2>1, <2>2, FS_Subset, FS_CardinalityType
<1>3. IsFiniteSet(B) /\ Cardinality(B) = Cardinality(A) /\ 1 \notin B
  <2> HIDE DEF t
  <2>1. f \in [A -> B]
    BY <1>1
  <2>2. \A i, j \in A : f[i] = f[j] => i = j
    BY <1>1
  <2>3. \A j \in B : \E i \in A : f[i] = j
    <3>1. ASSUME NEW j \in B PROVE j - 1 \in A /\ f[j - 1] = j
      BY <1>1
    <3> QED
      BY <3>1
  <2>4. f \in Bijection(A, B)
    BY <2>1, <2>2, <2>3 DEF Bijection, Injection, Surjection, IsInjective
  <2>5. ExistsBijection(A, B)
    BY <2>4 DEF ExistsBijection
  <2>6. IsFiniteSet(B) /\ Cardinality(B) = Cardinality(A)
    BY <1>2, <2>5, FS_Bijection
  <2>7. 1 \notin B
    BY <1>1
  <2> QED
    BY <2>6, <2>7
<1>4. CASE m = r
  <2>1. C = B \cup {1}
    <3> HIDE DEF t
    <3> QED
      BY <1>1, <1>4
  <2>2. Cardinality(C) = Cardinality(B) + 1
    BY <1>3, <2>1, FS_AddElement
  <2> QED
    BY <1>3, <1>4, <2>2 DEF Copies, Held
<1>5. CASE m # r
  <2>1. C = B
    <3> HIDE DEF t
    <3> QED
      BY <1>1, <1>5
  <2>2. Copies(r, t) = Copies(r, s)
    BY <1>3, <2>1, Zenon DEF Copies
  <2> QED
    BY <1>5, <2>2, CopiesType DEF Held
<1> QED
  BY <1>4, <1>5

\* A message taken from the head of the queue is one copy less.
LEMMA CopiesTail ==
  ASSUME NEW S, NEW s \in Seq(S), s # <<>>, NEW r
  PROVE  Copies(r, s) = Copies(r, Tail(s)) + Held(r, Head(s))
<1>1. Head(s) \in S /\ Tail(s) \in Seq(S)
  BY TailFacts
<1>2. s = <<Head(s)>> \o Tail(s)
  OBVIOUS
<1> QED
  BY <1>1, <1>2, CopiesFront

\* Pending counts copies.
LEMMA PendingType == TypeOK => Pending \in [Report -> Nat] /\ \A r \in Report : Copies(r, queue) \in Nat
<1> SUFFICES ASSUME TypeOK PROVE Pending \in [Report -> Nat] /\ \A r \in Report : Copies(r, queue) \in Nat
  OBVIOUS
<1>1. \A r \in Report : Copies(r, queue) \in Nat
  BY CopiesType DEF TypeOK
<1>2. \A r, m : Held(r, m) \in Nat
  BY DEF Held
<1> QED
  BY <1>1, <1>2 DEF Pending

\* The keyboard task writes its report to hid_queue: the channel accepts it.
LEMMA EnqueueAccepts ==
  ASSUME TypeOK, Enqueue
  PROVE  Channel!Accept(copy)
<1>1. /\ queue' = Append(queue, copy) /\ copy \in Report /\ queue \in Seq(Report)
      /\ UNCHANGED <<peek, msg>> /\ Out' = Out
  BY DEF Enqueue, TypeOK, MaybeReport, senderVars, wireVars, Out
<1>2. \A r \in Report : Copies(r, queue') = Copies(r, queue) + Held(r, copy)
  BY <1>1, CopiesAppend
<1>3. Pending' = [Pending EXCEPT ![copy] = @ + 1]
  <2>1. \A r \in Report : Copies(r, queue) \in Nat
    BY PendingType
  <2>2. \A r, m : Held(r, m) \in Nat
    BY DEF Held
  <2>3. \A r \in Report : Pending'[r] = IF r = copy THEN Pending[r] + 1 ELSE Pending[r]
    BY <1>1, <1>2, <2>1, <2>2 DEF Pending, Held
  <2> QED
    BY <1>1, <2>3 DEF Pending
<1> QED
  BY <1>1, <1>3 DEF Channel!Accept

\* Neither the peek, nor the put-back, nor the reception changes what is pending:
\* a message moves between the queue and the hands of a task.
LEMMA MovesKeepPending ==
  ASSUME IInv, Peek \/ PutBack \/ Receive
  PROVE  UNCHANGED <<Pending, Out>>
<1>0. TypeOK /\ NoReport \notin Report /\ queue \in Seq(Report)
  BY HidAssumption DEF IInv, PathInv, TypeOK
<1>1. Out' = Out
  BY DEF Peek, PutBack, Receive, wireVars, Out
<1>2. ASSUME NEW r \in Report PROVE Pending'[r] = Pending[r]
  <2>0. Copies(r, queue) \in Nat /\ Held(r, NoReport) = 0 /\ \A m : Held(r, m) \in Nat
    BY <1>0, <1>2, PendingType DEF Held
  <2>1. CASE Peek
    <3>1. CASE queue = <<>>
      BY <2>1, <3>1 DEF Peek, senderVars, Pending
    <3>2. CASE queue # <<>>
      <4>1. /\ peek = NoReport /\ peek' = Head(queue) /\ queue' = Tail(queue) /\ msg' = msg
        BY <1>0, <2>1, <3>2 DEF Peek, TypeOK, senderVars
      <4>2. Copies(r, queue) = Copies(r, Tail(queue)) + Held(r, Head(queue))
        BY <1>0, <3>2, CopiesTail
      <4>3. Copies(r, Tail(queue)) \in Nat
        BY <1>0, <3>2, TailFacts, CopiesType
      <4> QED
        BY <1>2, <2>0, <4>1, <4>2, <4>3 DEF Pending
    <3> QED
      BY <3>1, <3>2
  <2>2. CASE PutBack
    <3>1. /\ peek \in Report /\ peek' = NoReport /\ queue' = <<peek>> \o queue /\ msg' = msg
      BY <1>0, <2>2 DEF PutBack, IInv, PathInv, PeekInv, TypeOK, MaybeReport, senderVars
    <3>2. Copies(r, <<peek>> \o queue) = Copies(r, queue) + Held(r, peek)
      BY <1>0, <3>1, CopiesFront
    <3> QED
      BY <1>2, <2>0, <3>1, <3>2 DEF Pending
  <2>3. CASE Receive
    <3>1. /\ msg = NoReport /\ msg' = Head(queue) /\ queue' = Tail(queue) /\ peek' = peek
          /\ queue # <<>>
      BY <1>0, <2>3 DEF Receive, TypeOK, kbVars
    <3>2. Copies(r, queue) = Copies(r, Tail(queue)) + Held(r, Head(queue))
      BY <1>0, <3>1, CopiesTail
    <3>3. Copies(r, Tail(queue)) \in Nat
      BY <1>0, <3>1, TailFacts, CopiesType
    <3> QED
      BY <1>2, <2>0, <3>1, <3>2, <3>3 DEF Pending
  <2> QED
    BY <2>1, <2>2, <2>3
<1> QED
  BY <1>1, <1>2 DEF Pending

\* A report that an accepting transport is given is what it was last handed, unless
\* the radio had no host for it.
LEMMA HandOverOut ==
  ASSUME TypeOK, NEW r \in Report, Accepts, HandOver(r)
  PROVE  Out' = IF Heard THEN [Out EXCEPT ![mode] = r] ELSE Out
<1>1. NoReport \notin Report /\ r # NoReport /\ host \in [Transport -> Report] /\ mode \in Transport
  BY HidAssumption DEF TypeOK
<1>2. CASE mode = "usb"
  <2>1. ep = NoReport /\ ep' = r /\ host' = host
    BY <1>2 DEF Accepts, HandOver
  <2> QED
    BY <1>1, <1>2, <2>1 DEF Out, Heard, Transport
<1>3. CASE mode = "ble"
  <2>1. ep' = ep /\ host' = [host EXCEPT !["ble"] = IF near THEN r ELSE @]
    BY <1>3 DEF HandOver
  <2> QED
    BY <1>1, <1>3, <2>1 DEF Out, Heard, Transport
<1> QED
  BY <1>1, <1>2, <1>3 DEF Transport

\* The sender lets go of its message: the channel hands it over or loses it.
LEMMA SenderRefines ==
  ASSUME TypeOK, Transmit \/ TransmitRefused
  PROVE  Channel!Next
<1>1. /\ msg \in Report /\ msg' = NoReport /\ NoReport \notin Report
      /\ UNCHANGED <<queue, peek>>
  BY HidAssumption DEF Transmit, TransmitRefused, Done, TypeOK, MaybeReport, kbVars
<1>2. Channel!Take(msg)
  <2>1. \A r \in Report : Copies(r, queue) \in Nat
    BY PendingType
  <2>2. \A r, m : Held(r, m) \in Nat
    BY DEF Held
  <2>3. Pending[msg] > 0
    BY <1>1, <2>1, <2>2 DEF Pending, Held
  <2>4. \A r \in Report : Pending'[r] = IF r = msg THEN Pending[r] - 1 ELSE Pending[r]
    BY <1>1, <2>1, <2>2 DEF Pending, Held
  <2> QED
    BY <1>1, <2>3, <2>4 DEF Pending, Channel!Take
<1>3. CASE TransmitRefused
  <2>1. Out' = Out
    BY <1>3 DEF TransmitRefused, wireVars, Out
  <2> QED
    BY <1>1, <1>2, <2>1 DEF Channel!Lose, Channel!Next
<1>4. CASE Transmit
  <2>1. Out' = IF Heard THEN [Out EXCEPT ![mode] = msg] ELSE Out
    BY <1>1, <1>4, HandOverOut DEF Transmit
  <2>2. mode \in Transport
    BY DEF TypeOK
  <2> QED
    BY <1>1, <1>2, <2>1, <2>2 DEF Channel!HandOver, Channel!Lose, Channel!Next
<1> QED
  BY <1>3, <1>4

\* A tap writes past the channel, or is refused.
LEMMA TapRefines ==
  ASSUME TypeOK, NEW r \in TapReports \cup {Empty},
         NEW from, NEW to, Tap(r, from, to)
  PROVE  Channel!Next \/ UNCHANGED Channel!vars
<1>1. Pending' = Pending
  BY DEF Tap, senderVars, Pending
<1>2. r \in Report /\ mode \in Transport
  BY HidAssumption DEF TypeOK
<1>3. CASE Accepts /\ HandOver(r)
  <2>1. Out' = IF Heard THEN [Out EXCEPT ![mode] = r] ELSE Out
    BY <1>2, <1>3, HandOverOut
  <2> QED
    BY <1>1, <1>2, <2>1 DEF Channel!Play, Channel!Next, Channel!vars
<1>4. CASE UNCHANGED wireVars
  BY <1>1, <1>4 DEF wireVars, Out, Channel!vars
<1> QED
  BY <1>3, <1>4 DEF Tap

\* The endpoint is polled, or a host loses the keyboard and releases its keys.
LEMMA EnvironmentRefines ==
  ASSUME TypeOK, Environment
  PROVE  Channel!Next \/ UNCHANGED Channel!vars
<1>1. Pending' = Pending
  BY DEF Environment, AgeOut, HostPoll, Suspend, Resume, Unplug, Scan, Radio, kbVars, senderVars,
         Pending
<1>2. Empty \in Report /\ NoReport \notin Report /\ host \in [Transport -> Report]
  BY HidAssumption DEF TypeOK
<1>3. CASE AgeOut \/ Suspend \/ Resume \/ Scan
  BY <1>1, <1>3 DEF AgeOut, Suspend, Resume, Scan, wireVars, Out, Channel!vars
<1>4. CASE HostPoll
  <2>1. Out' = Out
    BY <1>2, <1>4 DEF HostPoll, Out, Transport
  <2> QED
    BY <1>1, <2>1 DEF Channel!vars
<1>5. CASE Unplug
  <2>1. Out' = [Out EXCEPT !["usb"] = Empty]
    BY <1>2, <1>5 DEF Unplug, Out, Transport
  <2> QED
    BY <1>1, <1>2, <2>1 DEF Transport, Channel!Play, Channel!Next
<1>6. CASE Radio
  <2>1. CASE near /\ ~near'
    <3>1. Out' = [Out EXCEPT !["ble"] = Empty]
      BY <1>2, <1>6, <2>1 DEF Radio, Out, Transport
    <3> QED
      BY <1>1, <1>2, <3>1 DEF Transport, Channel!Play, Channel!Next
  <2>2. CASE ~(near /\ ~near')
    BY <1>1, <1>6, <2>2 DEF Radio, Out, Channel!vars
  <2> QED
    BY <2>1, <2>2
<1> QED
  BY <1>3, <1>4, <1>5, <1>6 DEF Environment

\* The report path is a lossy channel: whatever the depth of hid_queue and the
\* reports, and peek and put-back included, an accepted report is handed to a
\* transport at most once or lost, and none is invented.
THEOREM PathIsAChannel == Spec => ChannelSpec
<1>1. Init => Channel!Init
  <2> SUFFICES ASSUME Init PROVE Channel!Init
    OBVIOUS
  <2>1. queue \in Seq(Report) /\ queue = <<>> /\ peek = NoReport /\ msg = NoReport
        /\ NoReport \notin Report
    BY HidAssumption, EmptySeq DEF Init
  <2>2. \A r \in Report : Copies(r, queue) = 0
    BY <2>1, CopiesType
  <2>3. Pending = [r \in Report |-> 0]
    BY <2>1, <2>2 DEF Pending, Held
  <2>4. Out = [t \in Transport |-> Empty]
    BY DEF Init, Out
  <2> QED
    BY <2>3, <2>4 DEF Channel!Init
<1>2. IInv /\ [Next]_vars => [Channel!Next]_(Channel!vars)
  <2> SUFFICES ASSUME IInv, [Next]_vars PROVE Channel!Next \/ UNCHANGED Channel!vars
    OBVIOUS
  <2>0. TypeOK /\ Empty \in Report
    BY HidAssumption DEF IInv, PathInv, TypeOK
  <2>1. CASE Enqueue
    <3>1. copy \in Report
      BY <2>0, <2>1 DEF Enqueue, TypeOK, MaybeReport
    <3>. QED BY <2>0, <2>1, <3>1, EnqueueAccepts DEF Channel!Next
  <2>2. CASE Peek \/ PutBack \/ Receive
    BY <2>2, MovesKeepPending DEF Channel!vars
  <2>3. CASE Transmit \/ TransmitRefused
    BY <2>0, <2>3, SenderRefines
  <2>4. ASSUME NEW r \in TapReports, TapPress(r) PROVE Channel!Next \/ UNCHANGED Channel!vars
    BY <2>0, <2>4, TapRefines DEF TapPress
  <2>5. CASE TapRelease
    BY <2>0, <2>5, TapRefines DEF TapRelease
  <2>6. CASE Environment
    BY <2>0, <2>6, EnvironmentRefines
  <2>7. CASE \/ \E r \in Report : Build(r) \/ SwitchTransport(r)
             \/ Dedup \/ EnqueueTimeout \/ Commit \/ UNCHANGED vars
    <3>1. UNCHANGED <<queue, peek, msg, ep, host>>
      BY <2>7 DEF Build, SwitchTransport, Dedup, EnqueueTimeout, Commit, vars, kbVars, senderVars, wireVars
    <3> QED
      BY <3>1 DEF Pending, Out, Channel!vars
  <2> QED
    BY <2>1, <2>2, <2>3, <2>4, <2>5, <2>6, <2>7 DEF Next, KeyboardTask, SenderTask
<1> QED
  BY <1>1, <1>2, PathInvariant, PTL DEF Spec, ChannelSpec, Channel!Spec

-----------------------------------------------------------------------------
(* The Bluetooth link.                                                     *)

\* Who owns the stack: it runs before bt_initialized says so, and ends before.
StackInv ==
  /\ km = "idle" => on = up
  /\ km = "starting" => on /\ ~up
  /\ km \in {"stop", "profile"} => on /\ up
  /\ km = "clear" => ~on /\ up
  /\ ~on => con = "none" /\ events = <<>> /\ ~adv /\ setup = "none"
  /\ km = "idle" /\ ~up => ~sec

\* What the newest event is that the Bluetooth task has not handled yet; with none
\* waiting, sec_conn has caught up with the connection.
NewestEvent(e) == events # <<>> /\ events[Len(events)] = e

CaughtUp ==
  on => /\ con = "none" => NewestEvent("disconnect") \/ (events = <<>> /\ ~sec)
        /\ con = "secure" => closing \/ NewestEvent("auth") \/ (events = <<>> /\ sec)
        /\ con = "none" /\ setup = "none" => adv \/ quiet \/ NewestEvent("disconnect")

BleInv == BleTypeOK /\ StackInv /\ CaughtUp

LEMMA TellIs ==
  ASSUME NEW e \in Event, BleTypeOK, Tell(e)
  PROVE  events' \in Seq(Event) /\ NewestEvent(e)'
<1>1. /\ Append(events, e) \in Seq(Event)
      /\ Append(events, e) # <<>>
      /\ Append(events, e)[Len(Append(events, e))] = e
  BY AppendProperties DEF BleTypeOK
<1>. QED BY <1>1 DEF Tell, NewestEvent

LEMMA HandleIs ==
  ASSUME NEW e \in Event, BleTypeOK, Handle(e)
  PROVE  /\ events' \in Seq(Event)
         /\ \A f : NewestEvent(f) => NewestEvent(f)' \/ (events' = <<>> /\ f = e)
         /\ events # <<>>
<1>1. events # <<>> /\ Head(events) = e /\ events' = Tail(events) /\ events \in Seq(Event)
  BY DEF Handle, BleTypeOK
<1>. QED BY <1>1, TailFacts DEF NewestEvent

LEMMA SameEvents == UNCHANGED events => \A f : NewestEvent(f)' = NewestEvent(f)
  BY DEF NewestEvent

\* On the air: the newest event tells how the connection is.
LEMMA AirInv ==
  ASSUME BleInv, Air
  PROVE  BleInv'
<1> USE DEF BleInv, BleTypeOK, StackInv, CaughtUp, flagVars
<1>1. CASE HostConnects
  BY <1>1, TellIs DEF HostConnects, Event
<1>2. CASE HostPairs
  BY <1>2, TellIs DEF HostPairs, Event
<1>3. CASE PairingFails
  BY <1>3, TellIs DEF PairingFails, Event
<1>4. CASE LinkEnds
  BY <1>4, TellIs DEF LinkEnds, Event
<1>. QED BY <1>1, <1>2, <1>3, <1>4 DEF Air

\* The callbacks: the last one to run leaves sec_conn as its event says.
LEMMA CallbackInv ==
  ASSUME BleInv, Callback
  PROVE  BleInv'
<1> USE DEF BleInv, BleTypeOK, StackInv, CaughtUp, flagVars, airVars, Advertise
<1>1. CASE Connected
  <2>1. Handle("connect") /\ "connect" \in Event
    BY <1>1 DEF Connected, Event
  <2>2. \A f \in {"auth", "disconnect"} : NewestEvent(f) => NewestEvent(f)'
    BY <2>1, HandleIs
  <2>. QED BY <1>1, <2>1, <2>2, HandleIs DEF Connected
<1>2. CASE Authenticated
  <2>1. Handle("auth") /\ "auth" \in Event
    BY <1>2 DEF Authenticated, Event
  <2>2. /\ NewestEvent("disconnect") => NewestEvent("disconnect")'
        /\ NewestEvent("auth") => NewestEvent("auth")' \/ events' = <<>>
    BY <2>1, HandleIs
  <2>. QED BY <1>2, <2>1, <2>2, HandleIs DEF Authenticated
<1>3. CASE AuthFailed
  <2>1. Handle("fail") /\ "fail" \in Event
    BY <1>3 DEF AuthFailed, Event
  <2>2. \A f \in {"auth", "disconnect"} : NewestEvent(f) => NewestEvent(f)'
    BY <2>1, HandleIs
  <2>. QED BY <1>3, <2>1, <2>2, HandleIs DEF AuthFailed
<1>4. CASE Disconnected
  <2>1. Handle("disconnect") /\ "disconnect" \in Event
    BY <1>4 DEF Disconnected, Event
  <2>2. /\ NewestEvent("auth") => NewestEvent("auth")'
        /\ NewestEvent("disconnect") => NewestEvent("disconnect")' \/ events' = <<>>
    BY <2>1, HandleIs
  <2>. QED BY <1>4, <2>1, <2>2, HandleIs DEF Disconnected
<1>5. CASE RegFinish
  BY <1>5, SameEvents DEF RegFinish
<1>6. CASE AdvDataSet
  BY <1>6, SameEvents DEF AdvDataSet
<1>. QED BY <1>1, <1>2, <1>3, <1>4, <1>5, <1>6 DEF Callback

\* The commands, and KM_Worker.
LEMMA CommandInv ==
  ASSUME BleInv, Command \/ KM_Worker
  PROVE  BleInv'
<1> USE DEF BleInv, BleTypeOK, StackInv, CaughtUp, flagVars, airVars, Advertise, Close
<1>1. CASE bt_disconnect
  BY <1>1, SameEvents DEF bt_disconnect
<1>2. CASE bt_start_pairing
  BY <1>2, SameEvents DEF bt_start_pairing
<1>3. CASE ~up /\ bt_switch_slot
  <2>1. on /\ Advertise /\ UNCHANGED <<on, up, sec, con, events, closing, setup, km>>
    BY <1>3 DEF bt_switch_slot, bt_start_pairing
  <2>. QED BY <1>3, <2>1, SameEvents
<1>4. CASE StackUp
  BY <1>4, SameEvents DEF StackUp
<1>5. CASE InitDone
  BY <1>5, SameEvents DEF InitDone
<1>8. CASE DeinitClose
  BY <1>8, SameEvents DEF DeinitClose
<1>9. CASE DeinitAdvertising
  BY <1>9, SameEvents DEF DeinitAdvertising
<1>6. CASE DeinitStack
  <2>1. events' \in Seq(Event)
    BY <1>6, EmptySeq DEF DeinitStack
  <2>. QED BY <1>6, <2>1 DEF DeinitStack
<1>7. CASE DeinitFlags
  BY <1>7, SameEvents DEF DeinitFlags
<1>10. bt_switch_slot => bt_start_pairing \/ (~up /\ bt_switch_slot)
  BY DEF bt_switch_slot
<1>. QED BY <1>1, <1>2, <1>3, <1>4, <1>5, <1>6, <1>7, <1>8, <1>9, <1>10 DEF Command, KM_Worker

\* The flags of the Bluetooth manager and the radio agree once things have settled,
\* in whichever order the steps of the four tasks and the late events of the stack
\* come, for every length of its queue.
THEOREM RadioCorrect == BleSpec => []RadioAgrees
<1>1. BleInit => BleInv
  <2> SUFFICES ASSUME BleInit PROVE BleInv
    OBVIOUS
  <2>1. <<>> \in Seq(Event)
    BY EmptySeq
  <2>2. BleTypeOK
    BY <2>1 DEF BleInit, BleTypeOK
  <2>3. StackInv /\ CaughtUp
    BY DEF BleInit, BleTypeOK, StackInv, CaughtUp
  <2>. QED BY <2>2, <2>3 DEF BleInv
<1>2. BleInv /\ [BleNext]_bleVars => BleInv'
  <2>1. BleInv /\ UNCHANGED bleVars => BleInv'
    BY DEF BleInv, BleTypeOK, StackInv, CaughtUp, NewestEvent, bleVars, flagVars, airVars
  <2>. QED BY <2>1, AirInv, CallbackInv, CommandInv DEF BleNext
<1>3. BleInv => RadioAgrees
  BY DEF BleInv, StackInv, CaughtUp, NewestEvent, RadioAgrees, Settled, BleTypeOK
<1>. QED BY <1>1, <1>2, <1>3, PTL DEF BleSpec
-----------------------------------------------------------------------------
(* KeyFeatures: the parts of an engine.  Nothing is assumed of the dances  *)
(* and the leader, which leave the report and the combos alone.            *)

Down == ToSet(slots)
Fields ==
  {"rep", "defer", "old", "fired", "dance", "owed", "lead", "typed", "crowded", "aside", "ended"}
IsEngine(e) == DOMAIN e = Fields /\ e = [x \in Fields |-> e[x]]

\* The report, the deferred keys and the combos of an engine; a combo that fired
\* typed its result, or found no slot for it.
Eng(e) == /\ IsEngine(e)
          /\ e.rep \in [Slots -> Code \cup {TapCode, None}]
          /\ e.defer \in [1 .. DEFERRED -> Plain \cup {None}]
          /\ e.fired \subseteq Combo /\ e.fired = e.typed \cup e.crowded

Cleared  == [i \in Slots |-> None]
Codes(e) == Values(e.rep) \ {TapCode}

-----------------------------------------------------------------------------
(* Induction over a bounded range, with the set of what holds.             *)

LEMMA LessIsWellFounded == IsWellFoundedOn({ss \in Nat \X Nat : ss[1] < ss[2]}, Nat)
BY NatLessThanWellFounded, Zenon DEF OpToRel

\* A set of naturals has a least element, so that 'the first empty slot' is one.
LEMMA LeastOf ==
  ASSUME NEW T, T \subseteq Nat, T # {}
  PROVE  \E x \in T : \A y \in T : x <= y
<1>. DEFINE R == {ss \in Nat \X Nat : ss[1] < ss[2]}
<1>1. IsWellFoundedOn(R, Nat)
  BY LessIsWellFounded
<1>. HIDE DEF R
<1>2. PICK x \in T : \A y \in T : ~(<<y, x>> \in R)
  BY <1>1, WFMin, Zenon
<1>3. \A y \in T : ~(y < x)
  BY <1>2 DEF R
<1>. QED BY <1>3

\* What holds at 0 and from each step to the next holds up to n; the steps are a set.
LEMMA StepByStep ==
  ASSUME NEW n \in Nat, NEW T, 0 \in T,
         \A m \in 1 .. n : m - 1 \in T => m \in T
  PROVE  \A m \in 0 .. n : m \in T
<1>. DEFINE U == {m \in 0 .. n : m \notin T}
<1>. SUFFICES ASSUME U # {} PROVE FALSE
  OBVIOUS
<1>0. U \subseteq Nat
  OBVIOUS
<1>1. PICK m \in U : \A y \in U : m <= y
  <2>. HIDE DEF U
  <2>. QED BY <1>0, LeastOf
<1>2. m \in 1 .. n /\ m - 1 \in 0 .. n
  BY <1>1
<1>3. m - 1 \notin U
  BY <1>1, <1>2
<1>. QED BY <1>2, <1>3

-----------------------------------------------------------------------------
(* The recursive functions are what they say.                              *)

LEMMA ProcessingIs ==
  ASSUME NEW e
  PROVE  /\ Processing(e)[0] = e
         /\ \A i \in 1 .. SLOTS : Processing(e)[i] = ProcessKey(Processing(e)[i - 1], i)
<1>. DEFINE P(n, x) == x = [i \in 0 .. n |-> IF i = 0 THEN e ELSE ProcessKey(x[i - 1], i)]
            T == {n \in Nat : \E x : P(n, x)}
<1>0. SLOTS \in Nat
  BY KeyFeaturesAssumption
<1>1. 0 \in T
  <2>. DEFINE x == [i \in 0 .. 0 |-> e]
  <2>1. P(0, x)
    OBVIOUS
  <2>. QED BY <2>1
<1>2. ASSUME NEW n \in 1 .. SLOTS, n - 1 \in T PROVE n \in T
  <2>1. PICK x : P(n - 1, x)
    BY <1>2
  <2>. DEFINE v == ProcessKey(x[n - 1], n)
              y == [i \in 0 .. n |-> IF i < n THEN x[i] ELSE v]
              z == [i \in 0 .. n |-> IF i = 0 THEN e ELSE ProcessKey(y[i - 1], i)]
  <2>2. \A i \in 0 .. n : y[i] = z[i]
    <3>1. TAKE i \in 0 .. n
    <3>2. CASE i = 0
      BY <3>2, <2>1
    <3>3. CASE i = n
      <4>1. n - 1 \in 0 .. n /\ n - 1 < n /\ n # 0
        OBVIOUS
      <4>2. y[n - 1] = x[n - 1] /\ y[n] = v
        BY <4>1
      <4>. HIDE DEF y
      <4>. QED BY <3>3, <4>1, <4>2
    <3>4. CASE i # 0 /\ i < n
      <4>1. i \in 0 .. n - 1 /\ i - 1 \in 0 .. n - 1
        BY <3>4
      <4>2. x[i] = ProcessKey(x[i - 1], i)
        BY <4>1, <3>4, <2>1
      <4>3. y[i - 1] = x[i - 1] /\ y[i] = x[i]
        BY <4>1, <3>4
      <4>. HIDE DEF y
      <4>. QED BY <4>2, <4>3, <3>4
    <3>. QED BY <3>2, <3>3, <3>4
  <2>3. y = z
    BY <2>2
  <2>4. P(n, y)
    BY <2>3, Zenon
  <2>. HIDE DEF y, P
  <2>5. n \in Nat
    BY <1>0
  <2>. QED BY <2>4, <2>5
<1>. HIDE DEF T
<1>3. SLOTS \in T
  <2>1. \A m \in 0 .. SLOTS : m \in T
    BY <1>0, <1>1, <1>2, StepByStep
  <2>. QED BY <2>1, <1>0
<1>4. \E x : P(SLOTS, x)
  BY <1>3 DEF T
<1>5. Processing(e) = CHOOSE x : P(SLOTS, x)
  BY Zenon DEF Processing
<1>. DEFINE x == Processing(e)
<1>6. P(SLOTS, x)
  BY <1>4, <1>5, Zenon
<1>. HIDE DEF x
<1>7. x[0] = e /\ \A i \in 1 .. SLOTS : x[i] = ProcessKey(x[i - 1], i)
  BY <1>6, <1>0
<1>. QED BY <1>7, Zenon DEF x

LEMMA MatchingIs ==
  ASSUME NEW down, NEW e
  PROVE  /\ Matching(down, e)[0] = e
         /\ \A i \in 1 .. Len(Combos) : Matching(down, e)[i] = ComboStep(down, Matching(down, e)[i - 1], i)
<1>. DEFINE P(n, x) == x = [i \in 0 .. n |-> IF i = 0 THEN e ELSE ComboStep(down, x[i - 1], i)]
            T == {n \in Nat : \E x : P(n, x)}
<1>0. Len(Combos) \in Nat
  BY KeyFeaturesAssumption
<1>1. 0 \in T
  <2>. DEFINE x == [i \in 0 .. 0 |-> e]
  <2>1. P(0, x)
    OBVIOUS
  <2>. QED BY <2>1
<1>2. ASSUME NEW n \in 1 .. Len(Combos), n - 1 \in T PROVE n \in T
  <2>1. PICK x : P(n - 1, x)
    BY <1>2
  <2>. DEFINE v == ComboStep(down, x[n - 1], n)
              y == [i \in 0 .. n |-> IF i < n THEN x[i] ELSE v]
              z == [i \in 0 .. n |-> IF i = 0 THEN e ELSE ComboStep(down, y[i - 1], i)]
  <2>2. \A i \in 0 .. n : y[i] = z[i]
    <3>1. TAKE i \in 0 .. n
    <3>2. CASE i = 0
      BY <3>2, <2>1
    <3>3. CASE i = n
      <4>1. n - 1 \in 0 .. n /\ n - 1 < n /\ n # 0
        OBVIOUS
      <4>2. y[n - 1] = x[n - 1] /\ y[n] = v
        BY <4>1
      <4>. HIDE DEF y
      <4>. QED BY <3>3, <4>1, <4>2
    <3>4. CASE i # 0 /\ i < n
      <4>1. i \in 0 .. n - 1 /\ i - 1 \in 0 .. n - 1
        BY <3>4
      <4>2. x[i] = ComboStep(down, x[i - 1], i)
        BY <4>1, <3>4, <2>1
      <4>3. y[i - 1] = x[i - 1] /\ y[i] = x[i]
        BY <4>1, <3>4
      <4>. HIDE DEF y
      <4>. QED BY <4>2, <4>3, <3>4
    <3>. QED BY <3>2, <3>3, <3>4
  <2>3. y = z
    BY <2>2
  <2>4. P(n, y)
    BY <2>3, Zenon
  <2>. HIDE DEF y, P
  <2>5. n \in Nat
    BY <1>0
  <2>. QED BY <2>4, <2>5
<1>. HIDE DEF T
<1>3. Len(Combos) \in T
  <2>1. \A m \in 0 .. Len(Combos) : m \in T
    BY <1>0, <1>1, <1>2, StepByStep
  <2>. QED BY <2>1, <1>0
<1>4. \E x : P(Len(Combos), x)
  BY <1>3 DEF T
<1>5. Matching(down, e) = CHOOSE x : P(Len(Combos), x)
  BY Zenon DEF Matching
<1>. DEFINE x == Matching(down, e)
<1>6. P(Len(Combos), x)
  BY <1>4, <1>5, Zenon
<1>. HIDE DEF x
<1>7. x[0] = e /\ \A i \in 1 .. Len(Combos) : x[i] = ComboStep(down, x[i - 1], i)
  BY <1>6, <1>0
<1>. QED BY <1>7, Zenon DEF x

LEMMA InjectingIs ==
  ASSUME NEW e, NEW codes, NEW S, NEW N \in Nat
  PROVE  /\ Injecting(e, codes, S, N)[0] = e
         /\ \A i \in 1 .. N :
              Injecting(e, codes, S, N)[i] =
                IF N + 1 - i \in S
                THEN Injected(Injecting(e, codes, S, N)[i - 1], codes[N + 1 - i])
                ELSE Injecting(e, codes, S, N)[i - 1]
<1>. DEFINE P(n, x) == x = [m \in 0 .. n |->
                              IF m = 0 THEN e
                              ELSE IF N + 1 - m \in S THEN Injected(x[m - 1], codes[N + 1 - m]) ELSE x[m - 1]]
            T == {n \in Nat : \E x : P(n, x)}
<1>1. 0 \in T
  <2>. DEFINE x == [i \in 0 .. 0 |-> e]
  <2>1. P(0, x)
    OBVIOUS
  <2>. QED BY <2>1
<1>2. ASSUME NEW n \in 1 .. N, n - 1 \in T PROVE n \in T
  <2>1. PICK x : P(n - 1, x)
    BY <1>2
  <2>. DEFINE v == IF N + 1 - n \in S THEN Injected(x[n - 1], codes[N + 1 - n]) ELSE x[n - 1]
              y == [i \in 0 .. n |-> IF i < n THEN x[i] ELSE v]
              z == [m \in 0 .. n |->
                      IF m = 0 THEN e
                      ELSE IF N + 1 - m \in S THEN Injected(y[m - 1], codes[N + 1 - m]) ELSE y[m - 1]]
  <2>2. \A i \in 0 .. n : y[i] = z[i]
    <3>1. TAKE i \in 0 .. n
    <3>2. CASE i = 0
      BY <3>2, <2>1
    <3>3. CASE i = n
      <4>1. n - 1 \in 0 .. n /\ n - 1 < n /\ n # 0 /\ n > 0
        OBVIOUS
      <4>2. y[n - 1] = x[n - 1] /\ y[n] = v
        BY <4>1
      <4>. HIDE DEF y
      <4>. QED BY <3>3, <4>1, <4>2
    <3>4. CASE i # 0 /\ i < n
      <4>1. i \in 0 .. n - 1 /\ i - 1 \in 0 .. n - 1 /\ i > 0
        BY <3>4
      <4>2. x[i] = IF N + 1 - i \in S THEN Injected(x[i - 1], codes[N + 1 - i]) ELSE x[i - 1]
        BY <4>1, <3>4, <2>1
      <4>3. y[i - 1] = x[i - 1] /\ y[i] = x[i]
        BY <4>1, <3>4
      <4>. HIDE DEF y
      <4>. QED BY <4>1, <4>2, <4>3, <3>4
    <3>. QED BY <3>2, <3>3, <3>4
  <2>3. y = z
    BY <2>2
  <2>4. P(n, y)
    BY <2>3, Zenon
  <2>. HIDE DEF y, P
  <2>5. n \in Nat
    OBVIOUS
  <2>. QED BY <2>4, <2>5
<1>. HIDE DEF T
<1>3. N \in T
  <2>1. \A m \in 0 .. N : m \in T
    BY <1>1, <1>2, StepByStep
  <2>. QED BY <2>1
<1>4. \E x : P(N, x)
  BY <1>3 DEF T
<1>5. Injecting(e, codes, S, N) = CHOOSE x : P(N, x)
  BY Zenon DEF Injecting
<1>. DEFINE x == Injecting(e, codes, S, N)
<1>6. P(N, x)
  BY <1>4, <1>5, Zenon
<1>. HIDE DEF x
<1>7. x[0] = e
  BY <1>6
<1>8. ASSUME NEW i \in 1 .. N
      PROVE  x[i] = IF N + 1 - i \in S THEN Injected(x[i - 1], codes[N + 1 - i]) ELSE x[i - 1]
  <2>1. i \in 0 .. N /\ i > 0 /\ i # 0
    OBVIOUS
  <2>. QED BY <1>6, <2>1
<1>. QED BY <1>7, <1>8, Zenon DEF x

-----------------------------------------------------------------------------
(* The dances and the leader leave the report and the combos alone.        *)

Same(e, f) ==
  /\ IsEngine(f)
  /\ f.rep = e.rep /\ f.defer = e.defer /\ f.fired = e.fired
  /\ f.typed = e.typed /\ f.crowded = e.crowded /\ f.aside = e.aside /\ f.ended = e.ended

LEMMA DanceAlone ==
  ASSUME NEW e, IsEngine(e), NEW v, NEW w
  PROVE  Same(e, [e EXCEPT !.dance = v, !.owed = w]) /\ Same(e, [e EXCEPT !.lead = v])
BY DEF IsEngine, Fields, Same

LEMMA ResolveAlone ==
  ASSUME NEW e, IsEngine(e), NEW a
  PROVE  Same(e, resolve_dance(e, a))
BY DEF IsEngine, Fields, Same, resolve_dance

LEMMA PressAlone ==
  ASSUME NEW e, IsEngine(e), NEW d
  PROVE  Same(e, tap_dance_on_press(e, d))
<1>1. Same(e, NewDance(e, d))
  BY DEF IsEngine, Fields, Same, NewDance
<1>2. Same(e, NextTap(e))
  <2>. DEFINE f == [e EXCEPT !.dance.n = @ + 1, !.dance.held = TRUE, !.dance.late = FALSE]
  <2>1. Same(e, f) /\ IsEngine(f)
    BY DEF IsEngine, Fields, Same
  <2>2. Same(f, resolve_dance(f, TAPS))
    BY <2>1, ResolveAlone, Zenon
  <2>3. NextTap(e) \in {f, resolve_dance(f, TAPS)}
    BY DEF NextTap
  <2>. HIDE DEF f
  <2>. QED BY <2>1, <2>2, <2>3 DEF Same
<1>3. Same(e, resolve_dance(e, e.dance.n))
  BY ResolveAlone, Zenon
<1>. QED BY <1>1, <1>2, <1>3, Zenon DEF tap_dance_on_press

LEMMA DanceReleaseAlone ==
  ASSUME NEW e, IsEngine(e), NEW k
  PROVE  Same(e, tap_dance_on_release(e, k))
BY DEF IsEngine, Fields, Same, tap_dance_on_release

LEMMA DanceTickAlone ==
  ASSUME NEW e, IsEngine(e)
  PROVE  Same(e, tap_dance_tick(e))
<1>1. \A a : Same(e, resolve_dance(e, a))
  BY ResolveAlone, Zenon
<1>2. Same(e, e)
  BY DEF Same
<1>. QED BY <1>1, <1>2, Zenon DEF tap_dance_tick

LEMMA DanceConsumeAlone ==
  ASSUME NEW e, IsEngine(e)
  PROVE  Same(e, tap_dance_consume(e))
BY DEF IsEngine, Fields, Same, tap_dance_consume

LEMMA LeaderAlone ==
  ASSUME NEW e, IsEngine(e)
  PROVE  /\ Same(e, leader_start(e)) /\ Same(e, LeaderMatch(e)) /\ Same(e, cancel(e))
         /\ Same(e, leader_consume(e))
BY DEF IsEngine, Fields, Same, leader_start, LeaderMatch, cancel, leader_consume

LEMMA FeedAlone ==
  ASSUME NEW e, IsEngine(e), NEW k
  PROVE  Same(e, leader_feed(e, k))
<1>. DEFINE f == [e EXCEPT !.lead.buf = Append(@, k), !.lead.late = FALSE]
<1>1. Same(e, f) /\ IsEngine(f)
  BY DEF IsEngine, Fields, Same
<1>2. Same(f, LeaderMatch(f)) /\ Same(e, cancel(e))
  BY <1>1, LeaderAlone, Zenon
<1>. DEFINE longer == \E s \in LeaderSeqs : IsStrictPrefix(f.lead.buf, s)
<1>3. leader_feed(e, k) = CASE Len(e.lead.buf) = SEQ -> cancel(e)
                            [] longer -> f
                            [] OTHER -> LeaderMatch(f)
  BY Zenon DEF leader_feed
<1>. HIDE DEF longer, f
<1>4. leader_feed(e, k) \in {cancel(e), f, LeaderMatch(f)}
  BY <1>3
<1>. QED BY <1>1, <1>2, <1>4 DEF Same

LEMMA LeaderTickAlone ==
  ASSUME NEW e, IsEngine(e)
  PROVE  Same(e, leader_tick(e))
<1>. DEFINE f == IF e.lead.buf # <<>> THEN LeaderMatch(e) ELSE e
<1>1. Same(e, f) /\ IsEngine(f)
  BY LeaderAlone DEF Same
<1>2. Same(f, cancel(f))
  BY <1>1, LeaderAlone, Zenon
<1>3. leader_tick(e) \in {cancel(f), e}
  BY DEF leader_tick
<1>. HIDE DEF f
<1>. QED BY <1>1, <1>2, <1>3 DEF Same

-----------------------------------------------------------------------------
(* Injected and Undeferred.                                                *)

Free(e) == {i \in Slots : e.rep[i] = None}

\* Only the report changed.
OnlyRep(e, f) ==
  /\ IsEngine(f)
  /\ f.defer = e.defer /\ f.fired = e.fired
  /\ f.typed = e.typed /\ f.crowded = e.crowded /\ f.aside = e.aside /\ f.ended = e.ended

\* What is in the report stays where it is.
Keeps(e, f) == \A i \in Slots : e.rep[i] # None => f.rep[i] = e.rep[i]

LEMMA InjectedIs ==
  ASSUME NEW e, Eng(e), NEW c \in Code \cup {TapCode}, NEW f, f = Injected(e, c)
  PROVE  /\ Eng(f) /\ OnlyRep(e, f) /\ Keeps(e, f)
         /\ Values(e.rep) \subseteq Values(f.rep)
         /\ Values(f.rep) \subseteq Values(e.rep) \cup {c}
         /\ Free(e) # {} => c \in Values(f.rep)
<1>0. c # None
  BY KeyFeaturesAssumption DEF Code, Key
<1>1. CASE Free(e) = {}
  <2>1. f = e
    BY <1>1 DEF Injected, Free
  <2>. QED BY <1>1, <2>1 DEF Eng, OnlyRep, Keeps
<1>2. CASE Free(e) # {}
  <2>1. Free(e) \subseteq Nat
    BY DEF Free, Slots
  <2>2. \E i \in Free(e) : \A j \in Free(e) : i <= j
    BY <2>1, <1>2, LeastOf
  <2>. DEFINE i == CHOOSE x \in Free(e) : \A j \in Free(e) : x <= j
  <2>3. i \in Free(e)
    BY <2>2
  <2>4. f = [e EXCEPT !.rep[i] = c]
    BY <1>2, Zenon DEF Injected, Free
  <2>. HIDE DEF i
  <2>5. i \in Slots /\ e.rep[i] = None
    BY <2>3 DEF Free
  <2>6. IsEngine(f) /\ OnlyRep(e, f) /\ f.rep = [e.rep EXCEPT ![i] = c]
    BY <2>4 DEF Eng, IsEngine, Fields, OnlyRep
  <2>7. Eng(f)
    BY <2>6, <2>5 DEF Eng, OnlyRep
  <2>8. DOMAIN e.rep = Slots /\ DOMAIN f.rep = Slots
    BY <2>7 DEF Eng
  <2>9. /\ f.rep[i] = c
        /\ \A j \in Slots \ {i} : f.rep[j] = e.rep[j]
    BY <2>5, <2>6, <2>8
  <2>10. Keeps(e, f)
    BY <2>9, <2>5 DEF Keeps
  <2>11. Values(e.rep) \subseteq Values(f.rep)
    BY <2>8, <2>9, <2>5 DEF Values
  <2>12. Values(f.rep) \subseteq Values(e.rep) \cup {c}
    BY <2>8, <2>9 DEF Values
  <2>13. c \in Values(f.rep)
    BY <2>8, <2>9, <2>5, <1>0 DEF Values
  <2>. QED BY <2>6, <2>7, <2>10, <2>11, <2>12, <2>13
<1>. QED BY <1>1, <1>2

LEMMA UndeferredIs ==
  ASSUME NEW e, Eng(e), NEW K, NEW f, f = Undeferred(e, K)
  PROVE  /\ Eng(f) /\ f.rep = e.rep /\ f.fired = e.fired /\ f.typed = e.typed /\ f.crowded = e.crowded
         /\ f.aside = e.aside /\ f.ended = e.ended
         /\ Values(f.defer) = Values(e.defer) \ K
<1>1. /\ IsEngine(f) /\ f.rep = e.rep /\ f.fired = e.fired /\ f.typed = e.typed /\ f.crowded = e.crowded
      /\ f.aside = e.aside /\ f.ended = e.ended
      /\ f.defer = [n \in 1 .. DEFERRED |-> IF e.defer[n] \in K THEN None ELSE e.defer[n]]
  BY DEF Undeferred, Eng, IsEngine, Fields
<1>2. e.defer \in [1 .. DEFERRED -> Plain \cup {None}]
  BY DEF Eng
<1>3. f.defer \in [1 .. DEFERRED -> Plain \cup {None}]
  BY <1>1, <1>2
<1>4. Eng(f)
  BY <1>1, <1>3 DEF Eng
<1>5. Values(f.defer) = Values(e.defer) \ K
  <2>. DEFINE D == 1 .. DEFERRED
              F == f.defer
              E == e.defer
  <2>1. DOMAIN F = D /\ DOMAIN E = D /\ \A n \in D : F[n] = IF E[n] \in K THEN None ELSE E[n]
    BY <1>1, <1>2, <1>3
  <2>. HIDE DEF D, F, E
  <2>2. Values(F) = Values(E) \ K
    <3>1. ASSUME NEW v \in Values(F) PROVE v \in Values(E) \ K
      BY <2>1 DEF Values
    <3>2. ASSUME NEW v \in Values(E) \ K PROVE v \in Values(F)
      BY <2>1 DEF Values
    <3>. QED BY <3>1, <3>2
  <2>. QED BY <2>2 DEF F, E
<1>. QED BY <1>1, <1>4, <1>5

-----------------------------------------------------------------------------
(* The queues of results and of codes, emptied into the report.            *)

\* What the codes of S, put into the report of e, made of it: while a slot is empty,
\* none of them is missing.
Filled(e, codes, S, g) ==
  /\ Eng(g) /\ OnlyRep(e, g) /\ Keeps(e, g)
  /\ Values(e.rep) \subseteq Values(g.rep)
  /\ Values(g.rep) \subseteq Values(e.rep) \cup {codes[j] : j \in S}
  /\ Free(g) # {} => \A j \in S : codes[j] \in Values(g.rep)

LEMMA InjectingDoes ==
  ASSUME NEW e, Eng(e), NEW N \in Nat, NEW S \in SUBSET (1 .. N), NEW codes,
         \A j \in S : codes[j] \in Code \cup {TapCode},
         NEW g, g = Injecting(e, codes, S, N)[N]
  PROVE  Filled(e, codes, S, g)
<1>. DEFINE x    == Injecting(e, codes, S, N)
            Good(m) ==
              /\ Eng(x[m]) /\ OnlyRep(e, x[m]) /\ Keeps(e, x[m])
              /\ Values(e.rep) \subseteq Values(x[m].rep)
              /\ Values(x[m].rep) \subseteq Values(e.rep) \cup {codes[j] : j \in S}
              /\ Free(x[m]) # {} => \A j \in S : j > N - m => codes[j] \in Values(x[m].rep)
            T == {m \in 0 .. N : Good(m)}
<1>0. \A j \in S : j \in Nat /\ j >= 1 /\ j <= N
  OBVIOUS
<1>1. /\ x[0] = e
      /\ \A m \in 1 .. N : x[m] = IF N + 1 - m \in S
                                  THEN Injected(x[m - 1], codes[N + 1 - m]) ELSE x[m - 1]
  BY InjectingIs
<1>. HIDE DEF x
<1>2. 0 \in T
  <2>1. \A j \in S : ~(j > N - 0)
    BY <1>0
  <2>2. OnlyRep(e, e) /\ Keeps(e, e)
    BY DEF Eng, OnlyRep, Keeps
  <2>3. Good(0)
    BY <1>1, <2>1, <2>2
  <2>. HIDE DEF Good
  <2>. QED BY <2>3
<1>3. ASSUME NEW m \in 1 .. N, m - 1 \in T PROVE m \in T
  <2>1. Good(m - 1)
    BY <1>3
  <2>. DEFINE y == x[m - 1]
              z == x[m]
              j == N + 1 - m
  <2>2. CASE j \notin S
    <3>1. \A i \in S : i > N - m => i > N - (m - 1)
      BY <1>0, <2>2
    <3>2. z = y
      BY <2>2, <1>1
    <3>3. Good(m)
      BY <2>1, <3>1, <3>2
    <3>. HIDE DEF Good
    <3>. QED BY <3>3
  <2>3. CASE j \in S
    <3>1. z = Injected(y, codes[j])
      BY <2>3, <1>1
    <3>2. Eng(y) /\ codes[j] \in Code \cup {TapCode}
      BY <2>1, <2>3
    <3>. HIDE DEF y, z
    <3>3. /\ Eng(z) /\ OnlyRep(y, z) /\ Keeps(y, z)
          /\ Values(y.rep) \subseteq Values(z.rep)
          /\ Values(z.rep) \subseteq Values(y.rep) \cup {codes[j]}
          /\ Free(y) # {} => codes[j] \in Values(z.rep)
      BY <3>1, <3>2, InjectedIs
    <3>4. /\ OnlyRep(e, y) /\ Keeps(e, y)
          /\ Values(e.rep) \subseteq Values(y.rep)
          /\ Values(y.rep) \subseteq Values(e.rep) \cup {codes[i] : i \in S}
          /\ Free(y) # {} => \A i \in S : i > N - (m - 1) => codes[i] \in Values(y.rep)
      BY <2>1 DEF y
    <3>5. OnlyRep(e, z) /\ Keeps(e, z)
      BY <3>3, <3>4 DEF OnlyRep, Keeps
    <3>6. /\ Values(e.rep) \subseteq Values(z.rep)
          /\ Values(z.rep) \subseteq Values(e.rep) \cup {codes[i] : i \in S}
      BY <3>3, <3>4, <2>3
    <3>7. Free(z) # {} => Free(y) # {}
      BY <3>3 DEF Keeps, Free
    <3>8. \A i \in S : i > N - m => i = j \/ i > N - (m - 1)
      BY <1>0
    <3>9. Free(z) # {} => \A i \in S : i > N - m => codes[i] \in Values(z.rep)
      BY <3>3, <3>4, <3>7, <3>8
    <3>10. Good(m)
      BY <3>3, <3>5, <3>6, <3>9 DEF z
    <3>. HIDE DEF Good
    <3>. QED BY <3>10
  <2>. QED BY <2>2, <2>3
<1>. HIDE DEF T
<1>4. N \in T
  <2>1. \A m \in 0 .. N : m \in T
    BY <1>2, <1>3, StepByStep
  <2>. QED BY <2>1
<1>5. Good(N)
  BY <1>4 DEF T
<1>6. \A j \in S : j > N - N
  BY <1>0
<1>7. x[N] = g
  BY DEF x
<1>. QED BY <1>5, <1>6, <1>7 DEF Filled

-----------------------------------------------------------------------------
(* The combos.                                                             *)

\* A list of keys with room for each, none of them twice.
Listed(l, K) == /\ l \in Seq(K) /\ Len(l) <= SLOTS
                /\ \A i, j \in DOMAIN l : l[i] = l[j] => i = j
SlotsOk == Listed(slots, Key)

\* The keys that are held back, or were left out.
HeldBack(e) == Values(e.defer) \cup e.aside \cup UNION {Combos[i].keys : i \in e.fired}

LEMMA CombosAre ==
  /\ Len(Combos) \in Nat /\ Combo = 1 .. Len(Combos)
  /\ \A i \in Combo : Combos[i].keys \subseteq Plain /\ Combos[i].result \in Result
<1>1. Combos \in Seq([keys : SUBSET Plain, result : Result])
  BY KeyFeaturesAssumption
<1>2. Len(Combos) \in Nat /\ Combo = 1 .. Len(Combos)
  BY <1>1, LenProperties DEF Combo
<1>3. \A i \in Combo : Combos[i] \in [keys : SUBSET Plain, result : Result]
  BY <1>1, <1>2, ElementOfSeq
<1>. QED BY <1>2, <1>3

LEMMA DownAre ==
  ASSUME SlotsOk
  PROVE  /\ DOMAIN slots = 1 .. Len(slots) /\ Len(slots) \in Nat
         /\ \A i \in DOMAIN slots : slots[i] \in Key /\ i \in Slots
         /\ Down = {slots[i] : i \in DOMAIN slots} /\ Down \subseteq Key
BY KeyFeaturesAssumption DEF SlotsOk, Listed, Down, ToSet, Slots

\* What the step of combo i made of e.
Stepped(e, i, f) ==
  /\ Eng(f) /\ f.rep = e.rep /\ f.ended = e.ended
  /\ Values(f.defer) \subseteq Values(e.defer)
  /\ HeldBack(e) \subseteq HeldBack(f)
  /\ \A j \in Combo \ {i} : (j \in f.fired <=> j \in e.fired) /\ (j \in f.typed <=> j \in e.typed)
  /\ i \in f.fired => Combos[i].keys \subseteq Down
  /\ i \in e.typed /\ Combos[i].keys \subseteq Down => i \in f.typed

LEMMA ComboStepIs ==
  ASSUME NEW e, Eng(e), NEW i \in Combo, NEW f, f = ComboStep(Down, e, i)
  PROVE  Stepped(e, i, f)
<1>. DEFINE keys == Combos[i].keys
<1>1. CASE ~ keys \subseteq Down
  <2>1. f = [e EXCEPT !.fired = e.fired \ {i}, !.typed = e.typed \ {i},
                      !.crowded = e.crowded \ {i},
                      !.aside = IF i \in e.fired THEN e.aside \cup keys ELSE e.aside]
    BY <1>1 DEF ComboStep
  <2>2. /\ IsEngine(f) /\ f.rep = e.rep /\ f.defer = e.defer /\ f.ended = e.ended
        /\ f.fired = e.fired \ {i} /\ f.typed = e.typed \ {i}
        /\ f.crowded = e.crowded \ {i}
        /\ f.aside = IF i \in e.fired THEN e.aside \cup keys ELSE e.aside
    BY <2>1 DEF Eng, IsEngine, Fields
  <2>3. Eng(f)
    BY <2>2 DEF Eng
  <2>4. HeldBack(e) \subseteq HeldBack(f)
    BY <2>2 DEF HeldBack
  <2>. QED BY <1>1, <2>2, <2>3, <2>4 DEF Stepped
<1>2. CASE keys \subseteq Down /\ i \notin e.fired /\ keys \cap Values(e.defer) # {}
  <2>. DEFINE u == Undeferred(e, keys)
  <2>1. f = [u EXCEPT !.fired = u.fired \cup {i}, !.typed = u.typed \cup {i}]
    BY <1>2, Zenon DEF ComboStep
  <2>2. /\ Eng(u) /\ u.rep = e.rep /\ u.fired = e.fired /\ u.typed = e.typed
        /\ u.crowded = e.crowded /\ u.aside = e.aside /\ u.ended = e.ended
        /\ Values(u.defer) = Values(e.defer) \ keys
    BY UndeferredIs
  <2>. HIDE DEF u
  <2>3. /\ IsEngine(f) /\ f.rep = u.rep /\ f.defer = u.defer /\ f.ended = u.ended
        /\ f.fired = u.fired \cup {i} /\ f.typed = u.typed \cup {i}
        /\ f.crowded = u.crowded /\ f.aside = u.aside
    BY <2>1, <2>2 DEF Eng, IsEngine, Fields
  <2>4. Eng(f)
    BY <2>2, <2>3 DEF Eng
  <2>5. Values(f.defer) = Values(e.defer) \ keys
    BY <2>2, <2>3
  <2>6. HeldBack(e) \subseteq HeldBack(f)
    <3>1. f.fired = e.fired \cup {i} /\ f.aside = e.aside
      BY <2>2, <2>3
    <3>. QED BY <2>5, <3>1 DEF HeldBack
  <2>. QED BY <1>2, <2>2, <2>3, <2>4, <2>5, <2>6 DEF Stepped
<1>3. CASE keys \subseteq Down /\ (i \in e.fired \/ keys \cap Values(e.defer) = {})
  <2>1. f = e
    BY <1>3, Zenon DEF ComboStep
  <2>. QED BY <1>3, <2>1 DEF Stepped
<1>. QED BY <1>1, <1>2, <1>3

LEMMA MatchingDoes ==
  ASSUME SlotsOk, NEW e, Eng(e), NEW f, f = Matching(Down, e)[Len(Combos)]
  PROVE  /\ Eng(f) /\ f.rep = e.rep /\ f.ended = e.ended
         /\ Values(f.defer) \subseteq Values(e.defer)
         /\ HeldBack(e) \subseteq HeldBack(f)
         /\ \A i \in f.fired : Combos[i].keys \subseteq Down
         /\ \A i \in e.typed : Combos[i].keys \subseteq Down => i \in f.typed
<1>. DEFINE x == Matching(Down, e)
            Good(m) ==
              /\ Eng(x[m]) /\ x[m].rep = e.rep /\ x[m].ended = e.ended
              /\ Values(x[m].defer) \subseteq Values(e.defer)
              /\ HeldBack(e) \subseteq HeldBack(x[m])
              /\ \A i \in Combo : i <= m /\ i \in x[m].fired => Combos[i].keys \subseteq Down
              /\ \A i \in e.typed : Combos[i].keys \subseteq Down => i \in x[m].typed
            T == {m \in 0 .. Len(Combos) : Good(m)}
<1>1. x[0] = e /\ \A m \in 1 .. Len(Combos) : x[m] = ComboStep(Down, x[m - 1], m)
  BY MatchingIs
<1>. HIDE DEF x
<1>2. 0 \in T
  <2>1. \A i \in Combo : ~(i <= 0)
    BY CombosAre
  <2>2. Good(0)
    BY <1>1, <2>1
  <2>. HIDE DEF Good
  <2>. QED BY <2>2, CombosAre
<1>3. ASSUME NEW m \in 1 .. Len(Combos), m - 1 \in T PROVE m \in T
  <2>1. Good(m - 1)
    BY <1>3
  <2>. DEFINE y == x[m - 1]
              z == x[m]
  <2>2. z = ComboStep(Down, y, m) /\ m \in Combo
    BY <1>1, CombosAre
  <2>3. /\ Eng(y) /\ y.rep = e.rep /\ y.ended = e.ended
        /\ Values(y.defer) \subseteq Values(e.defer)
        /\ HeldBack(e) \subseteq HeldBack(y)
        /\ \A i \in Combo : i <= m - 1 /\ i \in y.fired => Combos[i].keys \subseteq Down
        /\ \A i \in e.typed : Combos[i].keys \subseteq Down => i \in y.typed
    BY <2>1
  <2>. HIDE DEF y, z, Good
  <2>4. /\ Eng(z) /\ z.rep = y.rep /\ z.ended = y.ended
        /\ Values(z.defer) \subseteq Values(y.defer)
        /\ HeldBack(y) \subseteq HeldBack(z)
        /\ \A j \in Combo \ {m} : (j \in z.fired <=> j \in y.fired) /\ (j \in z.typed <=> j \in y.typed)
        /\ m \in z.fired => Combos[m].keys \subseteq Down
        /\ m \in y.typed /\ Combos[m].keys \subseteq Down => m \in z.typed
    <3>1. Stepped(y, m, z)
      BY <2>2, <2>3, ComboStepIs
    <3>. QED BY <3>1 DEF Stepped
  <2>5. \A i \in Combo : i <= m /\ i \in z.fired => Combos[i].keys \subseteq Down
    <3>1. TAKE i \in Combo
    <3>2. CASE i = m
      BY <3>2, <2>4
    <3>3. CASE i # m
      <4>1. i <= m => i <= m - 1
        BY <3>3, CombosAre
      <4>. QED BY <3>3, <4>1, <2>3, <2>4
    <3>. QED BY <3>2, <3>3
  <2>6. \A i \in e.typed : Combos[i].keys \subseteq Down => i \in z.typed
    <3>1. e.typed \subseteq Combo
      BY DEF Eng
    <3>. QED BY <3>1, <2>3, <2>4
  <2>7. Good(m)
    BY <2>3, <2>4, <2>5, <2>6 DEF Good, z
  <2>. QED BY <2>7
<1>. HIDE DEF T
<1>4. Len(Combos) \in T
  <2>1. \A m \in 0 .. Len(Combos) : m \in T
    BY <1>2, <1>3, CombosAre, StepByStep
  <2>. QED BY <2>1, CombosAre
<1>5. Good(Len(Combos))
  BY <1>4 DEF T
<1>6. x[Len(Combos)] = f
  BY DEF x
<1>7. \A i \in Combo : i <= Len(Combos)
  BY CombosAre
<1>8. f.fired \subseteq Combo
  BY <1>5, <1>6 DEF Eng
<1>. QED BY <1>5, <1>6, <1>7, <1>8

\* What combo_process and the injections of a build made of e.
Matched(e, r) ==
  /\ Eng(r) /\ Values(e.rep) \subseteq Values(r.rep)
  /\ Values(r.defer) \subseteq Values(e.defer) \cap Down
  /\ Values(r.rep) \cap Values(r.defer) \subseteq Values(e.rep)
  /\ Values(r.rep) \subseteq Values(e.rep) \cup {Combos[i].result : i \in r.typed} \cup r.ended
  /\ e.ended \subseteq r.ended
  /\ HeldBack(e) \subseteq HeldBack(r) \cup Values(r.rep)
  /\ \A i \in r.fired : Combos[i].keys \subseteq Down
  /\ \A i \in e.typed : Combos[i].keys \subseteq Down => i \in r.typed

\* Each result gets a slot, or there was none left; no key that was held back is lost.
LEMMA ComboProcessDoes ==
  ASSUME SlotsOk, NEW e, Eng(e), NEW r, r = combo_process(Down, e)
  PROVE  Matched(e, r)
<1>. DEFINE f    == Matching(Down, e)[Len(Combos)]
            over == Expired(Down, f)
            keys == {f.defer[n] : n \in over}
            res  == [i \in Combo |-> Combos[i].result]
            u    == Undeferred(f, keys)
            new  == f.typed \ e.typed
            g    == Injecting(u, res, new, Len(Combos))[Len(Combos)]
            h    == Injecting(g, f.defer, over, DEFERRED)[DEFERRED]
            lost == {i \in new : res[i] \notin Values(g.rep)}
<1>1. r = [h EXCEPT !.ended = @ \cup keys, !.aside = @ \cup (keys \ Values(h.rep)),
                    !.typed = @ \ lost,
                    !.crowded = IF \E i \in Slots : g.rep[i] = None THEN @ ELSE @ \cup lost]
  BY Zenon DEF combo_process
<1>2. /\ Eng(f) /\ f.rep = e.rep /\ f.ended = e.ended
      /\ Values(f.defer) \subseteq Values(e.defer)
      /\ HeldBack(e) \subseteq HeldBack(f)
      /\ \A i \in f.fired : Combos[i].keys \subseteq Down
      /\ \A i \in e.typed : Combos[i].keys \subseteq Down => i \in f.typed
  <2>. HIDE DEF f
  <2>1. f = Matching(Down, e)[Len(Combos)]
    BY DEF f
  <2>. QED BY <2>1, MatchingDoes, Zenon
<1>. HIDE DEF f
<1>3. f.defer \in [1 .. DEFERRED -> Plain \cup {None}]
  BY <1>2 DEF Eng
<1>4. /\ over \in SUBSET (1 .. DEFERRED)
      /\ \A n \in over : f.defer[n] \in Code /\ f.defer[n] \in Values(f.defer)
      /\ \A n \in 1 .. DEFERRED : f.defer[n] # None /\ f.defer[n] \notin Down => n \in over
  <2>1. \A n \in over : n \in 1 .. DEFERRED /\ f.defer[n] # None
    BY DEF Expired
  <2>. QED BY <2>1, <1>3 DEF Expired, Values, Code
<1>. HIDE DEF over
<1>5. keys \subseteq Values(f.defer) /\ \A k \in Values(f.defer) : k \in Down \/ k \in keys
  BY <1>3, <1>4 DEF Values
<1>6. /\ Eng(u) /\ u.rep = f.rep /\ u.fired = f.fired /\ u.typed = f.typed
      /\ u.crowded = f.crowded /\ u.aside = f.aside /\ u.ended = f.ended
      /\ Values(u.defer) = Values(f.defer) \ keys
  <2>1. u = Undeferred(f, keys)
    BY DEF u
  <2>. HIDE DEF keys, u
  <2>. QED BY <1>2, <2>1, UndeferredIs
<1>7. f.fired = f.typed \cup f.crowded /\ f.fired \subseteq Combo /\ e.typed \subseteq Combo
  BY <1>2 DEF Eng
<1>8. /\ new \subseteq f.typed /\ new \in SUBSET Combo
      /\ Combo = 1 .. Len(Combos) /\ Len(Combos) \in Nat
      /\ \A i \in new : res[i] = Combos[i].result /\ res[i] \in Code
  BY <1>7, CombosAre DEF Code
<1>9. lost \subseteq new /\ \A i \in new \ lost : res[i] \in Values(g.rep)
  OBVIOUS
<1>. HIDE DEF u, keys, new, res
<1>10. /\ Eng(g) /\ OnlyRep(u, g) /\ Values(u.rep) \subseteq Values(g.rep)
       /\ Values(g.rep) \subseteq Values(u.rep) \cup {res[i] : i \in new}
       /\ (\E i \in Slots : g.rep[i] = None) => lost = {}
  <2>1. new \in SUBSET (1 .. Len(Combos)) /\ Len(Combos) \in Nat
        /\ (\A i \in new : res[i] \in Code \cup {TapCode}) /\ Eng(u)
    BY <1>6, <1>8
  <2>. HIDE DEF g
  <2>2. g = Injecting(u, res, new, Len(Combos))[Len(Combos)]
    BY DEF g
  <2>3. Filled(u, res, new, g)
    BY <2>1, <2>2, InjectingDoes
  <2>. QED BY <2>3 DEF Filled, Free
<1>. HIDE DEF g, lost
<1>11. /\ Eng(h) /\ OnlyRep(g, h) /\ Values(g.rep) \subseteq Values(h.rep)
       /\ Values(h.rep) \subseteq Values(g.rep) \cup {f.defer[n] : n \in over}
  <2>1. DEFERRED \in Nat
    BY KeyFeaturesAssumption
  <2>. HIDE DEF h
  <2>2. h = Injecting(g, f.defer, over, DEFERRED)[DEFERRED]
    BY DEF h
  <2>3. \A n \in over : f.defer[n] \in Code \cup {TapCode}
    BY <1>4
  <2>. DEFINE waits == f.defer
  <2>4. (\A n \in over : waits[n] \in Code \cup {TapCode}) /\ h = Injecting(g, waits, over, DEFERRED)[DEFERRED]
    BY <2>2, <2>3
  <2>. HIDE DEF waits
  <2>5. Filled(g, waits, over, h)
    BY <2>1, <2>4, <1>4, <1>10, InjectingDoes
  <2>. QED BY <2>5 DEF Filled, waits
<1>. HIDE DEF h
<1>12. /\ h.defer = u.defer /\ h.fired = f.fired /\ h.typed = f.typed /\ h.crowded = f.crowded
       /\ h.aside = f.aside /\ h.ended = e.ended
  BY <1>2, <1>6, <1>10, <1>11 DEF OnlyRep
<1>13. /\ IsEngine(r) /\ r.rep = h.rep /\ r.defer = u.defer /\ r.fired = f.fired
       /\ r.aside = f.aside \cup (keys \ Values(h.rep)) /\ r.ended = e.ended \cup keys
       /\ r.typed = f.typed \ lost
       /\ r.crowded = IF \E i \in Slots : g.rep[i] = None THEN f.crowded ELSE f.crowded \cup lost
  BY <1>1, <1>11, <1>12 DEF Eng, IsEngine, Fields
\* A result that is not typed found no slot.
<1>14. r.fired = r.typed \cup r.crowded
  <2>1. CASE \E i \in Slots : g.rep[i] = None
    BY <2>1, <1>7, <1>10, <1>13
  <2>2. CASE ~ \E i \in Slots : g.rep[i] = None
    BY <2>2, <1>7, <1>8, <1>9, <1>13
  <2>. QED BY <2>1, <2>2
<1>15. Eng(r)
  BY <1>13, <1>14, <1>11, <1>12, <1>7 DEF Eng
<1>16. Values(e.rep) \subseteq Values(g.rep) /\ Values(g.rep) \subseteq Values(r.rep)
  BY <1>2, <1>6, <1>10, <1>11, <1>13
<1>17. Values(r.defer) = Values(f.defer) \ keys
  BY <1>6, <1>13
<1>18. Values(r.defer) \subseteq Values(e.defer) \cap Down
  BY <1>17, <1>2, <1>5
<1>19. Values(r.rep) \subseteq Values(e.rep) \cup {Combos[i].result : i \in new \ lost} \cup keys
  <2>1. ASSUME NEW c \in Values(g.rep) PROVE c \in Values(e.rep) \cup {Combos[i].result : i \in new \ lost}
    <3>1. CASE c \in Values(u.rep)
      BY <3>1, <1>2, <1>6
    <3>2. CASE c \notin Values(u.rep)
      <4>1. PICK i \in new : c = res[i]
        BY <3>2, <2>1, <1>10
      <4>2. i \notin lost
        BY <4>1, <2>1 DEF lost
      <4>. QED BY <4>1, <4>2, <1>8
    <3>. QED BY <3>1, <3>2
  <2>2. Values(r.rep) \subseteq Values(g.rep) \cup keys
    BY <1>11, <1>13 DEF keys
  <2>. QED BY <2>1, <2>2
<1>20. Values(r.rep) \cap Values(r.defer) \subseteq Values(e.rep)
  <2>1. ASSUME NEW c \in Values(r.defer), c \in Values(r.rep) PROVE c \in Values(e.rep)
    <3>1. c \notin keys
      BY <1>17
    <3>2. c \in Plain
      <4>1. r.defer \in [1 .. DEFERRED -> Plain \cup {None}]
        BY <1>15 DEF Eng
      <4>. QED BY <4>1 DEF Values
    <3>3. \A i \in new : Combos[i].result # c
      BY <3>2, <1>8, CombosAre, KeyFeaturesAssumption DEF Key
    <3>. QED BY <3>1, <3>3, <2>1, <1>19
  <2>. QED BY <2>1
<1>21. Values(r.rep) \subseteq Values(e.rep) \cup {Combos[i].result : i \in r.typed} \cup r.ended
  BY <1>19, <1>13, <1>8
<1>22. HeldBack(e) \subseteq HeldBack(r) \cup Values(r.rep)
  <2>1. HeldBack(f) \subseteq HeldBack(r) \cup Values(r.rep)
    BY <1>13, <1>17 DEF HeldBack
  <2>. QED BY <2>1, <1>2
<1>23. \A i \in e.typed : Combos[i].keys \subseteq Down => i \in r.typed
  <2>1. \A i \in e.typed : i \notin lost
    BY <1>9 DEF new
  <2>. QED BY <2>1, <1>2, <1>13
<1>24. e.ended \subseteq r.ended /\ (\A i \in r.fired : Combos[i].keys \subseteq Down)
  BY <1>2, <1>13
<1>25. Values(e.rep) \subseteq Values(r.rep)
  BY <1>16
<1>. QED BY <1>15, <1>25, <1>18, <1>20, <1>21, <1>22, <1>23, <1>24 DEF Matched

-----------------------------------------------------------------------------
(* The keys of a build, slot by slot.                                      *)

LEMMA DeferKeyIs ==
  ASSUME NEW e, Eng(e), NEW k \in Plain, NEW f, f = combo_defer_key(e, k)
  PROVE  /\ Eng(f) /\ f.rep = e.rep /\ f.fired = e.fired /\ f.typed = e.typed
         /\ f.ended = e.ended /\ e.aside \subseteq f.aside
         /\ Values(e.defer) \subseteq Values(f.defer)
         /\ Values(f.defer) \subseteq Values(e.defer) \cup {k}
         /\ k \in Values(f.defer) \cup f.aside
<1>. DEFINE free == {n \in 1 .. DEFERRED : e.defer[n] = None}
            n    == CHOOSE x \in free : \A m \in free : x <= m
<1>0. f = IF k \in Values(e.defer) THEN e
          ELSE IF free = {} THEN [e EXCEPT !.aside = @ \cup {k}]
          ELSE [e EXCEPT !.defer[n] = k, !.old = @ \ {k}]
  BY Zenon DEF combo_defer_key
<1>1. CASE k \in Values(e.defer)
  BY <1>0, <1>1
<1>2. CASE k \notin Values(e.defer) /\ free = {}
  <2>1. f = [e EXCEPT !.aside = e.aside \cup {k}]
    BY <1>0, <1>2
  <2>2. /\ IsEngine(f) /\ f.rep = e.rep /\ f.defer = e.defer /\ f.fired = e.fired
        /\ f.typed = e.typed /\ f.crowded = e.crowded /\ f.ended = e.ended /\ f.aside = e.aside \cup {k}
    BY <2>1 DEF Eng, IsEngine, Fields
  <2>. QED BY <2>2 DEF Eng
<1>3. CASE k \notin Values(e.defer) /\ free # {}
  <2>1. free \subseteq Nat
    OBVIOUS
  <2>2. \E x \in free : \A m \in free : x <= m
    <3>. HIDE DEF free
    <3>. QED BY <2>1, <1>3, LeastOf
  <2>3. n \in free
    BY <2>2, Zenon
  <2>4. f = [e EXCEPT !.defer[n] = k, !.old = @ \ {k}]
    BY <1>0, <1>3, Zenon
  <2>. HIDE DEF n
  <2>5. n \in 1 .. DEFERRED /\ e.defer[n] = None
    BY <2>3
  <2>6. /\ IsEngine(f) /\ f.rep = e.rep /\ f.defer = [e.defer EXCEPT ![n] = k]
        /\ f.fired = e.fired /\ f.typed = e.typed /\ f.crowded = e.crowded /\ f.ended = e.ended /\ f.aside = e.aside
    BY <2>4 DEF Eng, IsEngine, Fields
  <2>7. e.defer \in [1 .. DEFERRED -> Plain \cup {None}]
    BY DEF Eng
  <2>8. f.defer \in [1 .. DEFERRED -> Plain \cup {None}]
    BY <2>6, <2>7
  <2>9. Eng(f)
    BY <2>6, <2>8 DEF Eng
  <2>10. k # None
    BY KeyFeaturesAssumption DEF Key
  <2>11. /\ DOMAIN e.defer = 1 .. DEFERRED /\ DOMAIN f.defer = 1 .. DEFERRED
         /\ f.defer[n] = k /\ \A m \in 1 .. DEFERRED : m # n => f.defer[m] = e.defer[m]
    BY <2>5, <2>6, <2>7
  <2>12. k \in Values(f.defer)
    BY <2>5, <2>10, <2>11 DEF Values
  <2>13. Values(f.defer) \subseteq Values(e.defer) \cup {k}
    BY <2>11 DEF Values
  <2>14. Values(e.defer) \subseteq Values(f.defer)
    BY <2>5, <2>11 DEF Values
  <2>. QED BY <2>6, <2>9, <2>12, <2>13, <2>14
<1>. QED BY <1>1, <1>2, <1>3

\* What slot i made of e.
Placed(e, i, f) ==
  /\ Eng(f) /\ f.fired = e.fired /\ f.typed = e.typed /\ f.ended = e.ended
  /\ e.aside \subseteq f.aside /\ Values(e.defer) \subseteq Values(f.defer)
  /\ \A j \in Slots \ {i} : f.rep[j] = e.rep[j]
  /\ \/ f.rep[i] \in {None, e.rep[i]}
     \/ i \in DOMAIN slots /\ f.rep[i] = slots[i] /\ slots[i] \notin Values(f.defer)
  /\ \A v \in Values(f.defer) \ Values(e.defer) :
       i \in DOMAIN slots /\ v = slots[i] /\ v \notin prev /\ f.rep[i] = e.rep[i]
  /\ i \in DOMAIN slots /\ slots[i] \in Plain => slots[i] \in {f.rep[i]} \cup HeldBack(f)

LEMMA PlainKeyIs ==
  ASSUME NEW e, Eng(e), NEW i \in Slots, i \in DOMAIN slots, slots[i] \in Plain,
         NEW f, f = PlainKey(e, i, slots[i])
  PROVE  Placed(e, i, f)
<1>. DEFINE k == slots[i]
<1>1. CASE e.lead.on
  <2>. DEFINE x == IF is_new_press(k) THEN leader_feed(e, k) ELSE e
  <2>1. Same(e, x)
    <3>1. Same(e, leader_feed(e, k)) /\ Same(e, e)
      BY FeedAlone DEF Eng, Same
    <3>. QED BY <3>1, Zenon
  <2>2. f = [x EXCEPT !.aside = @ \cup {k}]
    BY <1>1, Zenon DEF PlainKey
  <2>. HIDE DEF x, k
  <2>3. /\ IsEngine(f) /\ f.rep = e.rep /\ f.defer = e.defer /\ f.fired = e.fired
        /\ f.typed = e.typed /\ f.crowded = e.crowded /\ f.ended = e.ended /\ f.aside = e.aside \cup {k}
    BY <2>1, <2>2 DEF Same, IsEngine, Fields
  <2>4. Eng(f)
    BY <2>3 DEF Eng
  <2>5. k \in HeldBack(f)
    BY <2>3 DEF HeldBack
  <2>. QED BY <2>3, <2>4, <2>5 DEF Placed, k
<1>2. CASE ~ e.lead.on /\ is_new_press(k) /\ combo_should_defer(k)
  <2>1. f = combo_defer_key(e, k)
    BY <1>2, Zenon DEF PlainKey
  <2>2. /\ Eng(f) /\ f.rep = e.rep /\ f.fired = e.fired /\ f.typed = e.typed
        /\ f.ended = e.ended /\ e.aside \subseteq f.aside
        /\ Values(e.defer) \subseteq Values(f.defer)
        /\ Values(f.defer) \subseteq Values(e.defer) \cup {k}
        /\ k \in Values(f.defer) \cup f.aside
    BY <2>1, DeferKeyIs
  <2>3. k \notin prev
    BY <1>2 DEF is_new_press
  <2>4. k \in HeldBack(f)
    BY <2>2 DEF HeldBack
  <2>5. \A v \in Values(f.defer) \ Values(e.defer) : v = k
    BY <2>2
  <2>. QED BY <2>2, <2>3, <2>4, <2>5 DEF Placed
<1>3. CASE /\ ~ e.lead.on /\ ~(is_new_press(k) /\ combo_should_defer(k))
           /\ combo_is_suppressed(e, k)
  <2>1. f = e
    BY <1>3, Zenon DEF PlainKey
  <2>2. k \in HeldBack(e)
    BY <1>3 DEF combo_is_suppressed, HeldBack, Eng
  <2>. QED BY <2>1, <2>2 DEF Placed
<1>4. CASE /\ ~ e.lead.on /\ ~(is_new_press(k) /\ combo_should_defer(k))
           /\ ~ combo_is_suppressed(e, k)
  <2>1. f = [e EXCEPT !.rep[i] = k]
    BY <1>4, Zenon DEF PlainKey
  <2>2. k \notin Values(e.defer) /\ k \in Code
    BY <1>4 DEF combo_is_suppressed, Code
  <2>. HIDE DEF k
  <2>3. /\ IsEngine(f) /\ f.rep = [e.rep EXCEPT ![i] = k] /\ f.defer = e.defer
        /\ f.fired = e.fired /\ f.typed = e.typed /\ f.crowded = e.crowded /\ f.ended = e.ended /\ f.aside = e.aside
    BY <2>1 DEF Eng, IsEngine, Fields
  <2>4. Eng(f) /\ f.rep[i] = k /\ \A j \in Slots \ {i} : f.rep[j] = e.rep[j]
    BY <2>2, <2>3 DEF Eng
  <2>. QED BY <2>2, <2>3, <2>4 DEF Placed, k
<1>. QED BY <1>1, <1>2, <1>3, <1>4

LEMMA SameIsPlaced ==
  ASSUME NEW e, Eng(e), NEW i \in Slots, NEW f, Same(e, f),
         ~(i \in DOMAIN slots /\ slots[i] \in Plain)
  PROVE  Placed(e, i, f)
<1>1. Eng(f)
  BY DEF Same, Eng
<1>. QED BY <1>1 DEF Same, Placed

LEMMA ProcessKeyIs ==
  ASSUME SlotsOk, NEW e, Eng(e), NEW i \in Slots, NEW f, f = ProcessKey(e, i)
  PROVE  Placed(e, i, f)
<1>0. /\ DOMAIN slots = 1 .. Len(slots) /\ Len(slots) \in Nat /\ i \in Nat /\ i >= 1
      /\ i > Len(slots) <=> i \notin DOMAIN slots
  BY DownAre DEF Slots
<1>1. CASE i \notin DOMAIN slots
  <2>1. f = [e EXCEPT !.rep[i] = None]
    BY <1>0, <1>1 DEF ProcessKey
  <2>2. /\ IsEngine(f) /\ f.rep = [e.rep EXCEPT ![i] = None] /\ f.defer = e.defer
        /\ f.fired = e.fired /\ f.typed = e.typed /\ f.crowded = e.crowded /\ f.ended = e.ended /\ f.aside = e.aside
    BY <2>1 DEF Eng, IsEngine, Fields
  <2>3. Eng(f) /\ f.rep[i] = None /\ \A j \in Slots \ {i} : f.rep[j] = e.rep[j]
    BY <2>2 DEF Eng
  <2>. QED BY <1>1, <2>2, <2>3 DEF Placed
<1>2. CASE i \in DOMAIN slots
  <2>1. slots[i] \in Key /\ ~(i > Len(slots))
    BY <1>0, <1>2, DownAre
  <2>2. CASE slots[i] \in Dance
    <3>1. slots[i] \notin Plain /\ slots[i] \notin LeaderKey
      BY <2>2, KeyFeaturesAssumption
    <3>2. f = tap_dance_on_press(e, slots[i])
      BY <1>2, <2>1, <2>2, <3>1, Zenon DEF ProcessKey
    <3>3. Same(e, f)
      BY <3>2, PressAlone DEF Eng
    <3>. QED BY <3>1, <3>3, SameIsPlaced
  <2>3. CASE slots[i] \in LeaderKey
    <3>1. slots[i] \notin Plain /\ slots[i] \notin Dance
      BY <2>3, KeyFeaturesAssumption
    <3>2. f = leader_start(e)
      BY <1>2, <2>1, <2>3, <3>1, Zenon DEF ProcessKey
    <3>3. Same(e, f)
      BY <3>2, LeaderAlone DEF Eng
    <3>. QED BY <3>1, <3>3, SameIsPlaced
  <2>4. CASE slots[i] \in Plain
    <3>1. slots[i] \notin LeaderKey /\ slots[i] \notin Dance
      BY <2>4, KeyFeaturesAssumption
    <3>2. f = PlainKey(e, i, slots[i])
      BY <1>2, <2>1, <2>4, <3>1, Zenon DEF ProcessKey
    <3>. QED BY <1>2, <2>4, <3>2, PlainKeyIs
  <2>. QED BY <2>1, <2>2, <2>3, <2>4 DEF Key
<1>. QED BY <1>1, <1>2

LEMMA HeldGrows ==
  ASSUME NEW e, NEW i, NEW f, Placed(e, i, f)
  PROVE  HeldBack(e) \subseteq HeldBack(f)
BY DEF Placed, HeldBack

\* What the slots of a build made of e.
AllPlaced(e, p) ==
  /\ Eng(p) /\ p.fired = e.fired /\ p.typed = e.typed /\ p.ended = e.ended
  /\ Values(p.rep) \subseteq Values(e.rep) \cup Down
  /\ Values(p.rep) \cap Values(p.defer) \subseteq Values(e.rep)
  /\ \A k \in Down \cap Plain : k \in Values(p.rep) \cup HeldBack(p)
  /\ \A v \in Values(p.defer) \ Values(e.defer) : v \in Down \ prev

\* Slot by slot; the slot of a key that is deferred stays as it was.
LEMMA ProcessingDoes ==
  ASSUME SlotsOk, NEW e, Eng(e), NEW p, p = Processing(e)[SLOTS]
  PROVE  AllPlaced(e, p)
<1>. DEFINE x == Processing(e)
            At(y, j) == j \in DOMAIN slots /\ y.rep[j] = slots[j] /\ slots[j] \notin Values(y.defer)
            Good(m) ==
              /\ Eng(x[m]) /\ x[m].fired = e.fired /\ x[m].typed = e.typed /\ x[m].ended = e.ended
              /\ \A j \in Slots : x[m].rep[j] \in {None, e.rep[j]} \/ At(x[m], j)
              /\ \A j \in Slots : j > m => x[m].rep[j] = e.rep[j]
              /\ \A v \in Values(x[m].defer) \ Values(e.defer) : v \in Down \ prev
              /\ \A j \in DOMAIN slots : j <= m /\ slots[j] \in Plain =>
                   slots[j] \in {x[m].rep[j]} \cup HeldBack(x[m])
            T == {m \in 0 .. SLOTS : Good(m)}
<1>0. SLOTS \in Nat /\ Slots = 1 .. SLOTS
  BY KeyFeaturesAssumption DEF Slots
<1>1. x[0] = e /\ \A m \in 1 .. SLOTS : x[m] = ProcessKey(x[m - 1], m)
  BY ProcessingIs
<1>. HIDE DEF x
<1>2. 0 \in T
  <2>1. \A j \in DOMAIN slots : ~(j <= 0)
    BY DownAre
  <2>2. Good(0)
    BY <1>1, <2>1
  <2>. HIDE DEF Good
  <2>. QED BY <2>2, <1>0
<1>3. ASSUME NEW m \in 1 .. SLOTS, m - 1 \in T PROVE m \in T
  <2>. DEFINE y == x[m - 1]
              z == x[m]
  <2>1. Good(m - 1)
    BY <1>3
  <2>2. /\ Eng(y) /\ y.fired = e.fired /\ y.typed = e.typed /\ y.ended = e.ended
        /\ \A v \in Values(y.defer) \ Values(e.defer) : v \in Down \ prev
        /\ \A j \in Slots : y.rep[j] \in {None, e.rep[j]} \/ At(y, j)
        /\ \A j \in Slots : j > m - 1 => y.rep[j] = e.rep[j]
        /\ \A j \in DOMAIN slots : j <= m - 1 /\ slots[j] \in Plain =>
             slots[j] \in {y.rep[j]} \cup HeldBack(y)
    BY <2>1
  <2>3. z = ProcessKey(y, m) /\ m \in Slots
    BY <1>0, <1>1
  <2>. HIDE DEF y, z, Good
  <2>4. Placed(y, m, z)
    BY <2>2, <2>3, ProcessKeyIs
  <2>5. /\ Eng(z) /\ z.fired = e.fired /\ z.typed = e.typed /\ z.ended = e.ended
        /\ Values(y.defer) \subseteq Values(z.defer)
        /\ \A j \in Slots \ {m} : z.rep[j] = y.rep[j]
    BY <2>2, <2>4 DEF Placed
  <2>6. /\ \/ z.rep[m] \in {None, y.rep[m]}
           \/ m \in DOMAIN slots /\ z.rep[m] = slots[m] /\ slots[m] \notin Values(z.defer)
        /\ \A v \in Values(z.defer) \ Values(y.defer) :
             m \in DOMAIN slots /\ v = slots[m] /\ v \notin prev /\ z.rep[m] = y.rep[m]
        /\ m \in DOMAIN slots /\ slots[m] \in Plain => slots[m] \in {z.rep[m]} \cup HeldBack(z)
    BY <2>4 DEF Placed
  <2>7. \A j \in Slots : j \in Nat
    BY <1>0
  <2>8. y.rep[m] = e.rep[m]
    BY <2>2, <2>3, <2>7
  <2>9. \A j \in Slots : z.rep[j] \in {None, e.rep[j]} \/ At(z, j)
    <3>1. TAKE j \in Slots
    <3>2. CASE j = m
      BY <3>2, <2>6, <2>8
    <3>3. CASE j # m
      <4>1. At(y, j) => slots[j] \notin Values(z.defer)
        <5>1. j \in DOMAIN slots /\ m \in DOMAIN slots => slots[j] # slots[m]
          BY <3>3 DEF SlotsOk, Listed
        <5>. QED BY <5>1, <2>6
      <4>. QED BY <4>1, <3>3, <2>2, <2>5
    <3>. QED BY <3>2, <3>3
  <2>10. \A j \in Slots : j > m => z.rep[j] = e.rep[j]
    BY <2>2, <2>5, <2>7, <2>3
  <2>11. \A v \in Values(z.defer) \ Values(e.defer) : v \in Down \ prev
    BY <2>2, <2>6, DownAre
  <2>12. \A j \in DOMAIN slots : j <= m /\ slots[j] \in Plain =>
           slots[j] \in {z.rep[j]} \cup HeldBack(z)
    <3>1. TAKE j \in DOMAIN slots
    <3>2. CASE j = m
      BY <3>2, <2>6
    <3>3. CASE j # m
      <4>1. j \in Slots /\ j \in Nat /\ HeldBack(y) \subseteq HeldBack(z)
        BY DownAre, <2>4, <2>7, HeldGrows
      <4>2. j <= m => j <= m - 1
        BY <4>1, <3>3
      <4>. QED BY <4>1, <4>2, <3>3, <2>2, <2>5
    <3>. QED BY <3>2, <3>3
  <2>13. Good(m)
    BY <2>5, <2>9, <2>10, <2>11, <2>12 DEF Good, z
  <2>. QED BY <2>13, <1>0
<1>. HIDE DEF T
<1>4. SLOTS \in T
  <2>1. \A m \in 0 .. SLOTS : m \in T
    BY <1>0, <1>2, <1>3, StepByStep
  <2>. QED BY <2>1, <1>0
<1>5. Good(SLOTS) /\ x[SLOTS] = p
  BY <1>4 DEF T, x
<1>6. /\ Eng(p) /\ p.fired = e.fired /\ p.typed = e.typed /\ p.ended = e.ended
      /\ \A v \in Values(p.defer) \ Values(e.defer) : v \in Down \ prev
      /\ \A j \in Slots : p.rep[j] \in {None, e.rep[j]} \/ At(p, j)
      /\ \A j \in DOMAIN slots : j <= SLOTS /\ slots[j] \in Plain =>
           slots[j] \in {p.rep[j]} \cup HeldBack(p)
  BY <1>5
<1>7. /\ DOMAIN p.rep = Slots /\ DOMAIN e.rep = Slots
      /\ \A j \in DOMAIN slots : j \in Slots /\ j <= SLOTS
  BY <1>0, <1>6, DownAre DEF Eng
<1>8. \A c \in Key : c # None
  BY KeyFeaturesAssumption
<1>9. ASSUME NEW c \in Values(p.rep)
      PROVE  c \in Values(e.rep) \/ (c \in Down /\ c \notin Values(p.defer))
  <2>1. PICK j \in Slots : c = p.rep[j] /\ c # None
    BY <1>7 DEF Values
  <2>2. CASE c = e.rep[j]
    BY <2>1, <2>2, <1>7 DEF Values
  <2>3. CASE At(p, j)
    BY <2>1, <2>3, DownAre
  <2>. QED BY <2>1, <2>2, <2>3, <1>6
<1>10. \A k \in Down \cap Plain : k \in Values(p.rep) \cup HeldBack(p)
  <2>1. TAKE k \in Down \cap Plain
  <2>2. PICK j \in DOMAIN slots : slots[j] = k
    BY DownAre
  <2>3. k \in {p.rep[j]} \cup HeldBack(p) /\ j \in Slots /\ k # None
    BY <2>2, <1>6, <1>7, <1>8 DEF Key
  <2>. QED BY <2>3, <1>7 DEF Values
<1>. QED BY <1>6, <1>9, <1>10 DEF AllPlaced

-----------------------------------------------------------------------------
(* The slots.                                                              *)

LEMMA AppendedIs ==
  ASSUME NEW K, NEW l, Listed(l, K), NEW k \in K, k \notin ToSet(l), Len(l) < SLOTS,
         NEW l2, l2 = Append(l, k)
  PROVE  Listed(l2, K)
<1>1. /\ l \in Seq(K) /\ Len(l) \in Nat /\ DOMAIN l = 1 .. Len(l)
      /\ \A i \in 1 .. Len(l) : l[i] # k
  BY LenProperties DEF Listed, ToSet
<1>2. /\ l2 \in Seq(K) /\ Len(l2) = Len(l) + 1
      /\ \A i \in 1 .. Len(l) : l2[i] = l[i]
      /\ l2[Len(l) + 1] = k
  BY <1>1, AppendProperties
<1>3. DOMAIN l2 = 1 .. Len(l) + 1
  BY <1>1, <1>2, LenProperties
<1>4. \A i, j \in DOMAIN l2 : l2[i] = l2[j] => i = j
  BY <1>1, <1>2, <1>3 DEF Listed
<1>5. Len(l2) <= SLOTS
  BY <1>1, <1>2, KeyFeaturesAssumption
<1>. QED BY <1>2, <1>4, <1>5 DEF Listed

LEMMA RemovedIs ==
  ASSUME NEW K, NEW l, Listed(l, K), NEW i \in DOMAIN l, NEW l2, l2 = RemoveAt(l, i)
  PROVE  Listed(l2, K)
<1>. DEFINE n == Len(l)
<1>2. l \in Seq(K) /\ n \in Nat /\ n <= SLOTS /\ DOMAIN l = 1 .. n /\ i \in 1 .. n
      /\ \A j \in 1 .. n : l[j] \in K
  BY LenProperties, ElementOfSeq DEF Listed
<1>. DEFINE a == SubSeq(l, 1, i - 1)
            b == SubSeq(l, i + 1, n)
<1>3. a \in Seq(K) /\ Len(a) = i - 1 /\ \A j \in 1 .. i - 1 : a[j] = l[j]
  <2>1. i - 1 \in Int /\ 1 \in Int /\ \A j \in 1 .. i - 1 : l[j] \in K
    BY <1>2
  <2>2. /\ a \in Seq(K) /\ Len(a) = (IF 1 <= i - 1 THEN i - 1 - 1 + 1 ELSE 0)
        /\ \A j \in 1 .. i - 1 - 1 + 1 : a[j] = l[1 + j - 1]
    BY <2>1, SubSeqProperties
  <2>. HIDE DEF a
  <2>. QED BY <2>2, <1>2
<1>4. b \in Seq(K) /\ Len(b) = n - i /\ \A j \in 1 .. n - i : b[j] = l[i + j]
  <2>1. i + 1 \in Int /\ n \in Int /\ \A j \in i + 1 .. n : l[j] \in K
    BY <1>2
  <2>2. /\ b \in Seq(K) /\ Len(b) = (IF i + 1 <= n THEN n - (i + 1) + 1 ELSE 0)
        /\ \A j \in 1 .. n - (i + 1) + 1 : b[j] = l[i + 1 + j - 1]
    BY <2>1, SubSeqProperties
  <2>. HIDE DEF b
  <2>3. Len(b) = n - i
    BY <2>2, <1>2
  <2>4. ASSUME NEW j \in 1 .. n - i PROVE b[j] = l[i + j]
    <3>1. j \in 1 .. n - (i + 1) + 1 /\ i + 1 + j - 1 = i + j
      BY <1>2
    <3>. QED BY <2>2, <3>1
  <2>. QED BY <2>2, <2>3, <2>4
<1>5. l2 = a \o b
  BY DEF RemoveAt
<1>. HIDE DEF a, b
<1>6. /\ l2 \in Seq(K) /\ Len(l2) = Len(a) + Len(b)
      /\ \A j \in 1 .. Len(a) + Len(b) :
           l2[j] = IF j <= Len(a) THEN a[j] ELSE b[j - Len(a)]
  BY <1>3, <1>4, <1>5, ConcatProperties
<1>. DEFINE at(j) == IF j <= i - 1 THEN j ELSE j + 1
<1>7. Len(l2) = n - 1 /\ DOMAIN l2 = 1 .. n - 1
  BY <1>2, <1>3, <1>4, <1>6, LenProperties
<1>8. ASSUME NEW j \in 1 .. n - 1 PROVE at(j) \in 1 .. n /\ l2[j] = l[at(j)]
  <2>1. CASE j <= i - 1
    BY <2>1, <1>2, <1>3, <1>4, <1>6
  <2>2. CASE ~(j <= i - 1)
    <3>1. j - (i - 1) \in 1 .. n - i /\ i + (j - (i - 1)) = j + 1 /\ j \in 1 .. Len(a) + Len(b)
      BY <2>2, <1>2, <1>3, <1>4
    <3>2. l2[j] = b[j - (i - 1)]
      BY <2>2, <3>1, <1>3, <1>6
    <3>3. b[j - (i - 1)] = l[j + 1]
      BY <3>1, <1>4
    <3>4. at(j) = j + 1 /\ j + 1 \in 1 .. n
      BY <2>2, <1>2
    <3>. HIDE DEF at
    <3>. QED BY <3>2, <3>3, <3>4
  <2>. QED BY <2>1, <2>2
<1>9. ASSUME NEW j \in 1 .. n - 1, NEW m \in 1 .. n - 1, l2[j] = l2[m] PROVE j = m
  <2>1. at(j) = at(m)
    <3>. HIDE DEF at
    <3>. QED BY <1>2, <1>8, <1>9 DEF Listed
  <2>. QED BY <2>1, <1>2
<1>10. Len(l2) <= SLOTS
  BY <1>2, <1>7, KeyFeaturesAssumption
<1>. QED BY <1>6, <1>7, <1>9, <1>10 DEF Listed

LEMMA WiderList ==
  ASSUME NEW K, NEW L, K \subseteq L, NEW l, Listed(l, K)
  PROVE  Listed(l, L)
<1>1. l \in Seq(L)
  BY LenProperties, ElementOfSeq DEF Listed
<1>. QED BY <1>1 DEF Listed

LEMMA BoundedIs ==
  ASSUME NEW S, NEW n \in Nat, NEW s
  PROVE  s \in BoundedSeq(S, n) <=> s \in Seq(S) /\ Len(s) <= n
<1>1. ASSUME s \in BoundedSeq(S, n) PROVE s \in Seq(S) /\ Len(s) <= n
  <2>1. PICK m \in 0 .. n : s \in [1 .. m -> S]
    BY <1>1 DEF BoundedSeq, SeqOf
  <2>. QED BY <2>1
<1>2. ASSUME s \in Seq(S), Len(s) <= n PROVE s \in BoundedSeq(S, n)
  <2>1. Len(s) \in 0 .. n /\ s \in [1 .. Len(s) -> S]
    BY <1>2, LenProperties
  <2>. QED BY <2>1 DEF BoundedSeq, SeqOf
<1>. QED BY <1>1, <1>2

\* The keys of this half, and those of the other that matrix_apply_remote puts down.
LocalOk == Listed(local, Key \ Far)

LEMMA ScannedSlots ==
  ASSUME LocalOk, NEW k \in Key, Press(k) \/ Release(k)
  PROVE  LocalOk' /\ SlotsOk'
<1>1. Listed(local, Key \ Far)
  BY DEF LocalOk
<1>2. CASE Press(k)
  <2>1. /\ k \in Key \ Far /\ k \notin ToSet(local) /\ Len(local) < SLOTS
        /\ local' = Append(local, k) /\ slots' = local'
    BY <1>2 DEF Press, Scanned
  <2>2. Listed(local', Key \ Far)
    BY <1>1, <2>1, AppendedIs
  <2>3. Listed(slots', Key)
    BY <2>1, <2>2, WiderList
  <2>. QED BY <2>2, <2>3 DEF LocalOk, SlotsOk
<1>3. CASE Release(k)
  <2>1. PICK i \in DOMAIN local : local' = RemoveAt(local, i) /\ slots' = local'
    BY <1>3 DEF Release, Scanned
  <2>2. Listed(local', Key \ Far)
    BY <1>1, <2>1, RemovedIs
  <2>3. Listed(slots', Key)
    BY <2>1, <2>2, WiderList
  <2>. QED BY <2>2, <2>3 DEF LocalOk, SlotsOk
<1>. QED BY <1>2, <1>3

LEMMA AppliedSlots ==
  ASSUME RemoteApply
  PROVE  SlotsOk'
<1>1. slots' \in BoundedSeq(Far, SLOTS) /\ IsInjective(slots')
  BY DEF RemoteApply
<1>2. SLOTS \in Nat /\ Far \subseteq Key
  BY KeyFeaturesAssumption
<1>3. slots' \in Seq(Far) /\ Len(slots') <= SLOTS
  BY <1>1, <1>2, BoundedIs
<1>4. Listed(slots', Far)
  BY <1>1, <1>3 DEF Listed, IsInjective
<1>5. Listed(slots', Key)
  BY <1>2, <1>4, WiderList
<1>. QED BY <1>5 DEF SlotsOk

-----------------------------------------------------------------------------
(* The invariant: the report is cleared; or it is the one that was sent and *)
(* the slots are as they were then, so that a build no key caused starts    *)
(* from its own result; or matrix_apply_remote left all that is in it.      *)

ReportIInv ==
  /\ SlotsOk /\ LocalOk /\ Eng(eng)
  /\ \/ eng.rep = Cleared
     \/ prev = Down /\ sent = Codes(eng)
     \/ Codes(eng) \subseteq left
  /\ \A i \in eng.fired : Combos[i].keys \subseteq prev
  /\ ReportAccounted

LEMMA SameKeeps ==
  ASSUME ReportIInv, Same(eng, eng'), UNCHANGED <<local, slots, prev, sent, left>>
  PROVE  ReportIInv'
<1>1. /\ eng'.rep = eng.rep /\ eng'.defer = eng.defer /\ eng'.fired = eng.fired
      /\ eng'.typed = eng.typed /\ eng'.crowded = eng.crowded
      /\ eng'.aside = eng.aside /\ eng'.ended = eng.ended
      /\ IsEngine(eng')
  BY DEF Same
<1>2. SlotsOk' /\ LocalOk' /\ Down' = Down
  BY DEF ReportIInv, SlotsOk, LocalOk, Down
<1>3. Eng(eng)' /\ Codes(eng)' = Codes(eng)
  BY <1>1 DEF ReportIInv, Eng, Codes
<1>4. ReportAccounted'
  BY <1>1 DEF ReportIInv, ReportAccounted, NothingSwallowed, NothingInvented, NothingTwice
<1>. QED BY <1>1, <1>2, <1>3, <1>4 DEF ReportIInv

LEMMA ScannedKeeps ==
  ASSUME ReportIInv, SlotsOk', LocalOk', Scanned
  PROVE  ReportIInv'
<1>1. eng' = [eng EXCEPT !.rep = Cleared] /\ UNCHANGED <<prev, sent, left>>
  BY DEF Scanned, Cleared
<1>2. Eng(eng)
  BY DEF ReportIInv
<1>3. /\ eng'.rep = Cleared /\ eng'.defer = eng.defer /\ eng'.fired = eng.fired
      /\ eng'.typed = eng.typed /\ eng'.crowded = eng.crowded
      /\ eng'.aside = eng.aside /\ eng'.ended = eng.ended
      /\ IsEngine(eng')
  BY <1>1, <1>2 DEF Eng, IsEngine, Fields
<1>4. Cleared \in [Slots -> Code \cup {TapCode, None}]
  BY DEF Cleared
<1>5. Eng(eng)'
  BY <1>2, <1>3, <1>4 DEF Eng
<1>6. ReportAccounted'
  BY <1>1, <1>3 DEF ReportIInv, ReportAccounted, NothingSwallowed, NothingInvented, NothingTwice
<1>7. \A i \in eng'.fired : Combos[i].keys \subseteq prev'
  BY <1>1, <1>3 DEF ReportIInv
<1>. QED BY <1>3, <1>5, <1>6, <1>7 DEF ReportIInv

\* What is in the report when the slots change was left by them.
LEMMA AppliedKeeps ==
  ASSUME ReportIInv, RemoteApply
  PROVE  ReportIInv'
<1>1. Eng(eng) /\ Same(eng, eng')
  BY DanceTickAlone DEF ReportIInv, RemoteApply, Eng
<1>2. UNCHANGED <<local, prev, sent>> /\ left' = left \cup Codes(eng)
  BY DEF RemoteApply, Codes
<1>3. /\ eng'.rep = eng.rep /\ eng'.defer = eng.defer /\ eng'.fired = eng.fired
      /\ eng'.typed = eng.typed /\ eng'.crowded = eng.crowded
      /\ eng'.aside = eng.aside /\ eng'.ended = eng.ended
      /\ IsEngine(eng')
  BY <1>1 DEF Same
<1>4. SlotsOk' /\ LocalOk'
  BY <1>2, AppliedSlots DEF ReportIInv, LocalOk
<1>5. Eng(eng)' /\ Codes(eng)' \subseteq left'
  BY <1>1, <1>2, <1>3 DEF Eng, Codes
<1>6. ReportAccounted'
  BY <1>2, <1>3 DEF ReportIInv, ReportAccounted, NothingSwallowed, NothingInvented, NothingTwice
<1>7. \A i \in eng'.fired : Combos[i].keys \subseteq prev'
  BY <1>2, <1>3 DEF ReportIInv
<1>. QED BY <1>4, <1>5, <1>6, <1>7 DEF ReportIInv

LEMMA TappedIs ==
  ASSUME NEW e, Eng(e), NEW n \in Nat, NEW q, q = Tapped(e, n)
  PROVE  /\ Eng(q) /\ OnlyRep(e, q)
         /\ Values(e.rep) \subseteq Values(q.rep) /\ Values(q.rep) \subseteq Values(e.rep) \cup {TapCode}
<1>. DEFINE taps == [m \in 1 .. n |-> TapCode]
            S    == 1 .. n
<1>1. /\ S \in SUBSET (1 .. n) /\ (\A j \in S : taps[j] = TapCode /\ taps[j] \in Code \cup {TapCode})
      /\ q = Injecting(e, taps, S, n)[n]
  BY DEF Tapped
<1>. HIDE DEF taps, S
<1>2. Filled(e, taps, S, q)
  BY <1>1, InjectingDoes
<1>. QED BY <1>1, <1>2 DEF Filled

\* A build, step by step: its engines before the slots (d), after them (p), with the
\* taps (q), after the combos (b), and without the taps that are cleared.
LEMMA BuildDoes ==
  ASSUME SlotsOk, Eng(eng), NEW n \in Nat, NEW b, b = build_keycode_report(eng, n)
  PROVE  \E p, q : /\ AllPlaced([eng EXCEPT !.ended = @ \cap Values(eng.rep)], p)
                   /\ Eng(q) /\ OnlyRep(p, q) /\ Values(p.rep) \subseteq Values(q.rep)
                   /\ Values(q.rep) \subseteq Values(p.rep) \cup {TapCode}
                   /\ Matched(q, b)
<1>. DEFINE f == [eng EXCEPT !.aside = {}, !.ended = @ \cap Values(eng.rep)]
            g == [eng EXCEPT !.ended = @ \cap Values(eng.rep)]
            d == detect_releases(f)
            p == Processing(d)[SLOTS]
            q == Tapped(p, n)
<1>1. b = combo_process(Down, q)
  BY Zenon DEF build_keycode_report, Down
<1>2. /\ Eng(f) /\ f.rep = eng.rep /\ f.defer = eng.defer /\ f.fired = eng.fired
      /\ f.typed = eng.typed /\ f.ended = eng.ended \cap Values(eng.rep)
  <2>1. /\ IsEngine(f) /\ f.rep = eng.rep /\ f.defer = eng.defer /\ f.fired = eng.fired
        /\ f.typed = eng.typed /\ f.crowded = eng.crowded /\ f.ended = eng.ended \cap Values(eng.rep)
    BY DEF Eng, IsEngine, Fields
  <2>. QED BY <2>1 DEF Eng
<1>3. /\ g.rep = eng.rep /\ g.defer = eng.defer /\ g.fired = eng.fired
      /\ g.typed = eng.typed /\ g.ended = eng.ended \cap Values(eng.rep)
  BY DEF Eng, IsEngine, Fields
<1>. HIDE DEF f, g
<1>4. Same(f, d)
  <2>1. Same(f, tap_dance_on_release(f, f.dance.key)) /\ Same(f, f)
    BY <1>2, DanceReleaseAlone DEF Eng, Same
  <2>. QED BY <2>1, Zenon DEF detect_releases
<1>. HIDE DEF d
<1>5. Eng(d)
  BY <1>2, <1>4 DEF Same, Eng
<1>6. AllPlaced(d, p)
  BY <1>5, ProcessingDoes
<1>7. AllPlaced(g, p)
  <2>1. /\ d.rep = g.rep /\ d.defer = g.defer /\ d.fired = g.fired /\ d.typed = g.typed
        /\ d.ended = g.ended
    BY <1>2, <1>3, <1>4 DEF Same
  <2>. QED BY <1>6, <2>1 DEF AllPlaced
<1>. HIDE DEF p
<1>8. /\ Eng(q) /\ OnlyRep(p, q) /\ Values(p.rep) \subseteq Values(q.rep)
      /\ Values(q.rep) \subseteq Values(p.rep) \cup {TapCode}
  <2>1. Eng(p)
    BY <1>7 DEF AllPlaced
  <2>. QED BY <2>1, TappedIs
<1>. HIDE DEF q
<1>9. Matched(q, b)
  BY <1>1, <1>8, ComboProcessDoes
<1>. QED BY <1>7, <1>8, <1>9 DEF g

\* The taps in the slots of gone are cleared; nothing else changed.
LEMMA ClearedTaps ==
  ASSUME NEW b, Eng(b), NEW gone \in SUBSET Slots, \A i \in gone : b.rep[i] = TapCode,
         NEW r, r = [b EXCEPT !.rep = [i \in Slots |-> IF i \in gone THEN None ELSE @[i]]]
  PROVE  /\ Eng(r) /\ Codes(r) = Codes(b) /\ OnlyRep(b, r)
<1>1. /\ IsEngine(r) /\ r.rep = [i \in Slots |-> IF i \in gone THEN None ELSE b.rep[i]]
      /\ OnlyRep(b, r)
  BY DEF Eng, IsEngine, Fields, OnlyRep
<1>2. b.rep \in [Slots -> Code \cup {TapCode, None}]
  BY DEF Eng
<1>3. r.rep \in [Slots -> Code \cup {TapCode, None}]
  BY <1>1, <1>2
<1>4. Eng(r)
  BY <1>1, <1>3 DEF Eng, OnlyRep
<1>5. DOMAIN b.rep = Slots /\ DOMAIN r.rep = Slots
  BY <1>2, <1>3
<1>6. \A i \in Slots : r.rep[i] = b.rep[i] \/ (r.rep[i] = None /\ b.rep[i] = TapCode)
  BY <1>1
<1>7. Codes(r) = Codes(b)
  BY <1>5, <1>6 DEF Codes, Values
<1>. QED BY <1>1, <1>4, <1>7

LEMMA BuildKeeps ==
  ASSUME ReportIInv, NEW n \in Nat, NEW gone \in SUBSET Slots, BuildAndSend(n, gone),
         UNCHANGED <<local, slots>>
  PROVE  ReportIInv'
<1>. DEFINE g == [eng EXCEPT !.ended = @ \cap Values(eng.rep)]
            b == build_keycode_report(eng, n)
<1>0. SlotsOk /\ Eng(eng)
  BY DEF ReportIInv
<1>1. /\ \A i \in gone : b.rep[i] = TapCode
      /\ eng' = [b EXCEPT !.rep = [i \in Slots |-> IF i \in gone THEN None ELSE @[i]]]
      /\ sent' = Codes(b) /\ prev' = Down /\ left' = left \cap Values(eng.rep)
  BY Zenon DEF BuildAndSend, Codes, Down
<1>2. PICK p, q : /\ AllPlaced(g, p)
                  /\ Eng(q) /\ OnlyRep(p, q) /\ Values(p.rep) \subseteq Values(q.rep)
                  /\ Values(q.rep) \subseteq Values(p.rep) \cup {TapCode}
                  /\ Matched(q, b)
  <2>. HIDE DEF b
  <2>1. b = build_keycode_report(eng, n)
    BY DEF b
  <2>. QED BY <1>0, <2>1, BuildDoes
<1>. HIDE DEF b
<1>3. Eng(b)
  BY <1>2 DEF Matched
<1>4. /\ Eng(eng') /\ Codes(eng') = Codes(b) /\ eng'.defer = b.defer /\ eng'.fired = b.fired
      /\ eng'.typed = b.typed /\ eng'.crowded = b.crowded /\ eng'.aside = b.aside
      /\ eng'.ended = b.ended
  <2>1. Eng(eng') /\ Codes(eng') = Codes(b) /\ OnlyRep(b, eng')
    BY <1>1, <1>3, ClearedTaps
  <2>. QED BY <2>1 DEF OnlyRep
<1>5. /\ g.rep = eng.rep /\ g.defer = eng.defer /\ g.typed = eng.typed
      /\ g.ended = eng.ended \cap Values(eng.rep)
  BY <1>0 DEF Eng, IsEngine, Fields
<1>. HIDE DEF g
<1>6. /\ q.typed = eng.typed /\ q.ended = eng.ended \cap Values(eng.rep)
      /\ q.defer = p.defer /\ HeldBack(q) = HeldBack(p)
      /\ Values(q.rep) \subseteq Values(eng.rep) \cup Down \cup {TapCode}
      /\ Values(q.rep) \cap Values(q.defer) \subseteq Values(eng.rep) \cup {TapCode}
      /\ \A k \in Down \cap Plain : k \in Values(q.rep) \cup HeldBack(q)
      /\ \A v \in Values(q.defer) \ Values(eng.defer) : v \in Down \ prev
  BY <1>2, <1>5 DEF AllPlaced, OnlyRep, HeldBack
<1>7. /\ Values(q.rep) \subseteq Values(b.rep)
      /\ Values(b.defer) \subseteq Values(q.defer) \cap Down
      /\ Values(b.rep) \cap Values(b.defer) \subseteq Values(q.rep)
      /\ Values(b.rep) \subseteq Values(q.rep) \cup {Combos[i].result : i \in b.typed} \cup b.ended
      /\ q.ended \subseteq b.ended
      /\ HeldBack(q) \subseteq HeldBack(b) \cup Values(b.rep)
      /\ \A i \in b.fired : Combos[i].keys \subseteq Down
      /\ \A i \in q.typed : Combos[i].keys \subseteq Down => i \in b.typed
  BY <1>2 DEF Matched
<1>8. \/ eng.rep = Cleared
      \/ prev = Down /\ sent = Codes(eng)
      \/ Codes(eng) \subseteq left
  BY DEF ReportIInv
<1>9. eng.rep = Cleared => Values(eng.rep) = {}
  BY DEF Cleared, Values
<1>10. NothingSwallowed'
  <2>1. TapCode \notin Plain
    BY KeyFeaturesAssumption DEF Key
  <2>2. \A k \in Down \cap Plain : k \in Codes(b) \cup HeldBack(b)
    BY <2>1, <1>6, <1>7 DEF Codes
  <2>3. b.fired = b.fired \cap (b.typed \cup b.crowded)
    BY <1>3 DEF Eng
  <2>. QED BY <2>2, <2>3, <1>1, <1>4 DEF NothingSwallowed, HeldBack
\* What the report began with is explained.
<1>11. Codes(eng) \subseteq Down \cup {Combos[i].result : i \in b.typed} \cup b.ended \cup left'
  <2>1. CASE eng.rep = Cleared
    BY <2>1, <1>9 DEF Codes
  <2>2. CASE prev = Down /\ sent = Codes(eng)
    <3>1. sent \subseteq prev \cup {Combos[i].result : i \in eng.typed} \cup eng.ended \cup left
      BY DEF ReportIInv, ReportAccounted, NothingInvented
    <3>2. \A i \in eng.typed : i \in b.typed
      <4>1. \A i \in eng.typed : Combos[i].keys \subseteq Down
        BY <2>2, <1>0 DEF ReportIInv, Eng
      <4>. QED BY <4>1, <1>6, <1>7
    <3>3. eng.ended \cap Values(eng.rep) \subseteq b.ended
      BY <1>6, <1>7
    <3>. QED BY <2>2, <3>1, <3>2, <3>3, <1>1 DEF Codes
  <2>3. CASE Codes(eng) \subseteq left
    BY <2>3, <1>1 DEF Codes
  <2>. QED BY <2>1, <2>2, <2>3, <1>8
<1>12. NothingInvented'
  <2>1. Codes(b) \subseteq Down \cup {Combos[i].result : i \in b.typed} \cup b.ended \cup left'
    BY <1>6, <1>7, <1>11 DEF Codes
  <2>. QED BY <2>1, <1>1, <1>4 DEF NothingInvented
<1>13. NothingTwice'
  <2>1. SUFFICES ASSUME NEW c \in Values(b.defer), c \in Codes(b) PROVE c \in left'
    BY <1>1, <1>4, <1>7 DEF NothingTwice
  <2>2. c # TapCode /\ c \in Values(q.defer) /\ c \in Down /\ c \in Codes(eng)
    BY <2>1, <1>6, <1>7 DEF Codes
  <2>3. eng.rep # Cleared
    BY <2>2, <1>9 DEF Codes
  <2>4. CASE prev = Down /\ sent = Codes(eng)
    <3>1. c \in Values(eng.defer)
      BY <2>2, <2>4, <1>6
    <3>2. c \in left
      BY <2>2, <2>4, <3>1 DEF ReportIInv, ReportAccounted, NothingTwice
    <3>. QED BY <2>2, <3>2, <1>1 DEF Codes
  <2>5. CASE Codes(eng) \subseteq left
    BY <2>2, <2>5, <1>1 DEF Codes
  <2>. QED BY <2>3, <2>4, <2>5, <1>8
<1>14. SlotsOk' /\ LocalOk' /\ Down' = Down
  BY DEF ReportIInv, SlotsOk, LocalOk, Down
<1>15. \A i \in eng'.fired : Combos[i].keys \subseteq prev'
  BY <1>1, <1>4, <1>7
<1>16. prev' = Down' /\ sent' = Codes(eng)'
  BY <1>1, <1>4, <1>14 DEF Codes
<1>17. ReportAccounted'
  BY <1>10, <1>12, <1>13 DEF ReportAccounted
<1>18. Eng(eng)'
  BY <1>4
<1>. QED BY <1>14, <1>15, <1>16, <1>17, <1>18 DEF ReportIInv

LEMMA ElapseAlone ==
  ASSUME Eng(eng), Elapse
  PROVE  Same(eng, eng')
<1>1. \/ \E k \in Plain : eng' = [eng EXCEPT !.old = @ \cup {k}]
      \/ eng' = [eng EXCEPT !.dance.late = TRUE]
      \/ eng' = [eng EXCEPT !.lead.late = TRUE]
  BY Zenon DEF Elapse, ComboTime, DanceTime, LeaderTime
<1>. QED BY <1>1 DEF Eng, IsEngine, Fields, Same

LEMMA ResultsAlone ==
  ASSUME Eng(eng), Results
  PROVE  Same(eng, eng')
<1>. DEFINE d == IF eng.owed THEN tap_dance_consume(eng) ELSE eng
            t == leader_tick(d)
<1>1. eng' = leader_consume(t)
  BY Zenon DEF Results
<1>2. Same(eng, d)
  <2>1. Same(eng, tap_dance_consume(eng)) /\ Same(eng, eng)
    BY DanceConsumeAlone DEF Eng, Same
  <2>. QED BY <2>1, Zenon
<1>. HIDE DEF d
<1>3. Same(d, t)
  BY <1>2, LeaderTickAlone DEF Same
<1>. HIDE DEF t
<1>4. Same(t, eng')
  BY <1>1, <1>3, LeaderAlone DEF Same
<1>. QED BY <1>2, <1>3, <1>4 DEF Same

LEMMA ReportInit == FeaturesInit => ReportIInv
<1>. SUFFICES ASSUME FeaturesInit PROVE ReportIInv
  OBVIOUS
<1>1. /\ slots = <<>> /\ local = <<>> /\ prev = {} /\ sent = {}
      /\ eng.rep = Cleared /\ eng.defer = [n \in 1 .. DEFERRED |-> None]
      /\ eng.fired = {} /\ eng.typed = {} /\ eng.crowded = {} /\ eng.aside = {} /\ eng.ended = {}
      /\ IsEngine(eng)
  BY DEF FeaturesInit, Cleared, IsEngine, Fields
<1>2. Eng(eng)
  BY <1>1 DEF Eng, Cleared
<1>3. Values(eng.defer) = {}
  BY <1>1 DEF Values
<1>4. ReportAccounted
  BY <1>1, <1>3 DEF ReportAccounted, NothingSwallowed, NothingInvented, NothingTwice
<1>5. SlotsOk /\ LocalOk
  BY <1>1, KeyFeaturesAssumption, EmptySeq DEF SlotsOk, LocalOk, Listed
<1>. QED BY <1>1, <1>2, <1>3, <1>4, <1>5 DEF ReportIInv

LEMMA ReportStep == ReportIInv /\ [FeaturesNext]_featuresVars => ReportIInv'
<1>. SUFFICES ASSUME ReportIInv, [FeaturesNext]_featuresVars PROVE ReportIInv'
  OBVIOUS
<1>0. LocalOk /\ Eng(eng) /\ Waiting \subseteq Nat
  BY KeyFeaturesAssumption DEF ReportIInv
<1>1. ASSUME NEW k \in Key, Press(k) \/ Release(k) PROVE ReportIInv'
  BY <1>0, <1>1, ScannedSlots, ScannedKeeps DEF Press, Release
<1>2. CASE Elapse
  BY <1>0, <1>2, ElapseAlone, SameKeeps DEF Elapse
<1>3. CASE Tick
  <2>1. Same(eng, eng')
    BY <1>0, <1>3, DanceTickAlone DEF Tick, Eng
  <2>. QED BY <1>3, <2>1, SameKeeps DEF Tick
<1>4. CASE RemoteApply
  BY <1>4, AppliedKeeps
<1>5. CASE OtherBuild
  BY <1>0, <1>5, BuildKeeps DEF OtherBuild
<1>6. CASE Results
  BY <1>0, <1>6, ResultsAlone, SameKeeps DEF Results
<1>7. CASE MatrixPath
  <2>1. CASE changed
    BY <1>0, <1>7, <2>1, BuildKeeps DEF MatrixPath
  <2>2. CASE ~changed
    BY <1>0, <1>7, <2>2, SameKeeps DEF MatrixPath, Same, Eng
  <2>. QED BY <2>1, <2>2
<1>8. CASE UNCHANGED featuresVars
  BY <1>0, <1>8, SameKeeps DEF featuresVars, Same, Eng
<1>. QED BY <1>1, <1>2, <1>3, <1>4, <1>5, <1>6, <1>7, <1>8 DEF FeaturesNext, Loop

\* The invariant that carries what a report accounts for.
THEOREM ReportHolds == FeaturesSpec => []ReportIInv
BY ReportInit, ReportStep, PTL DEF FeaturesSpec

\* combo_process, combo_is_suppressed: for any combos, any keys of the other half and any
\* number of slots, entries and taps, a key held back is accounted for in each report, and
\* so are its codes, those that matrix_apply_remote left in keycodes[] included.
THEOREM EveryCodeAccounted == FeaturesSpec => []ReportAccounted
<1>1. ReportIInv => ReportAccounted
  BY DEF ReportIInv
<1>. QED BY <1>1, ReportHolds, PTL

-----------------------------------------------------------------------------
(* Type correctness: what a build and the loop leave in the other fields.  *)

DanceOk(d) ==
  /\ d \in [st : {"idle", "counting", "resolved"}, key : Dance \cup {None},
            n : 0 .. TAPS + 1, held : BOOLEAN, late : BOOLEAN]
  /\ d.st = "counting" => d.n \in 1 .. TAPS /\ d.key \in Dance

LeadOk(l) ==
  l \in [on : BOOLEAN, buf : BoundedSeq(Plain, SEQ), late : BOOLEAN, match : BOOLEAN]

\* The fields that Eng says nothing of.
Rest(e) == /\ IsEngine(e)
           /\ e.old \subseteq Plain /\ e.aside \subseteq Plain /\ e.ended \subseteq Plain
           /\ DanceOk(e.dance) /\ e.owed \in BOOLEAN /\ LeadOk(e.lead)

\* Only the report and the combos changed.
Kin(e, f) == /\ IsEngine(f)
             /\ f.dance = e.dance /\ f.owed = e.owed /\ f.lead = e.lead

LEMMA KinRest ==
  ASSUME NEW e, NEW f, Rest(e), Kin(e, f),
         f.old \subseteq Plain, f.aside \subseteq Plain, f.ended \subseteq Plain
  PROVE  Rest(f)
BY DEF Rest, Kin

LEMMA ResolveRest ==
  ASSUME NEW e, Rest(e), NEW a
  PROVE  Rest(resolve_dance(e, a))
<1>. DEFINE f == resolve_dance(e, a)
<1>1. /\ IsEngine(f) /\ f.old = e.old /\ f.aside = e.aside /\ f.ended = e.ended
      /\ f.lead = e.lead /\ f.dance = [e.dance EXCEPT !.st = "resolved"]
      /\ f.owed = (e.owed \/ a \in Actions[e.dance.key])
  BY DEF Rest, IsEngine, Fields, resolve_dance
<1>. HIDE DEF f
<1>2. DanceOk(f.dance)
  BY <1>1 DEF Rest, DanceOk
<1>3. f.owed \in BOOLEAN
  BY <1>1, Zenon
<1>4. f.old \subseteq Plain /\ f.aside \subseteq Plain /\ f.ended \subseteq Plain /\ LeadOk(f.lead)
  BY <1>1 DEF Rest
<1>5. Rest(f)
  BY <1>1, <1>2, <1>3, <1>4, Zenon DEF Rest
<1>. QED BY <1>5 DEF f

LEMMA DanceRest ==
  ASSUME NEW e, Rest(e)
  PROVE  /\ \A d \in Dance : Rest(tap_dance_on_press(e, d))
         /\ \A k : Rest(tap_dance_on_release(e, k))
         /\ Rest(tap_dance_tick(e)) /\ Rest(tap_dance_consume(e))
<1>0. TAPS \in Nat /\ TAPS # 0 /\ \A a : Rest(resolve_dance(e, a))
  BY KeyFeaturesAssumption, ResolveRest
<1>1. ASSUME NEW d \in Dance PROVE Rest(tap_dance_on_press(e, d))
  <2>1. Rest(NewDance(e, d))
    <3>. DEFINE f == NewDance(e, d)
    <3>1. /\ IsEngine(f) /\ f.old = e.old /\ f.aside = e.aside /\ f.ended = e.ended
          /\ f.lead = e.lead /\ f.owed = FALSE
          /\ f.dance = [st |-> "counting", key |-> d, n |-> 1, held |-> TRUE, late |-> FALSE]
      BY DEF Rest, IsEngine, Fields, NewDance
    <3>. HIDE DEF f
    <3>2. DanceOk(f.dance)
      BY <3>1, <1>0 DEF DanceOk
    <3>3. Rest(f)
      BY <3>1, <3>2 DEF Rest
    <3>. QED BY <3>3 DEF f
  <2>2. CASE e.dance.st = "counting" /\ e.dance.key = d
    <3>. DEFINE f == [e EXCEPT !.dance.n = @ + 1, !.dance.held = TRUE, !.dance.late = FALSE]
    <3>1. /\ IsEngine(f) /\ f.old = e.old /\ f.aside = e.aside /\ f.ended = e.ended
          /\ f.lead = e.lead /\ f.owed = e.owed
          /\ f.dance = [e.dance EXCEPT !.n = e.dance.n + 1, !.held = TRUE, !.late = FALSE]
      BY DEF Rest, IsEngine, Fields, DanceOk
    <3>2. NextTap(e) = IF f.dance.n > TAPS THEN resolve_dance(f, TAPS) ELSE f
      BY Zenon DEF NextTap
    <3>. HIDE DEF f
    <3>3. /\ f.dance.st = "counting" /\ f.dance.n \in 1 .. TAPS + 1 /\ f.dance.key \in Dance
          /\ f.dance \in [st : {"idle", "counting", "resolved"}, key : Dance \cup {None},
                          n : 0 .. TAPS + 1, held : BOOLEAN, late : BOOLEAN]
      <4>. DEFINE d0 == e.dance
      <4>1. /\ d0 \in [st : {"idle", "counting", "resolved"}, key : Dance \cup {None},
                       n : 0 .. TAPS + 1, held : BOOLEAN, late : BOOLEAN]
            /\ d0.st = "counting" /\ d0.n \in 1 .. TAPS /\ d0.key \in Dance
        BY <2>2 DEF Rest, DanceOk
      <4>2. f.dance = [d0 EXCEPT !.n = d0.n + 1, !.held = TRUE, !.late = FALSE]
        BY <3>1
      <4>. DEFINE d1 == f.dance
      <4>3. d1 = [st |-> "counting", key |-> d0.key, n |-> d0.n + 1, held |-> TRUE, late |-> FALSE]
        BY <4>1, <4>2
      <4>4. d0.key \in Dance /\ d0.n + 1 \in 1 .. TAPS + 1
        BY <4>1, <1>0
      <4>. HIDE DEF d0, d1
      <4>5. /\ d1.st = "counting" /\ d1.n \in 1 .. TAPS + 1 /\ d1.key \in Dance
            /\ d1 \in [st : {"idle", "counting", "resolved"}, key : Dance \cup {None},
                       n : 0 .. TAPS + 1, held : BOOLEAN, late : BOOLEAN]
        BY <4>3, <4>4
      <4>. QED BY <4>5 DEF d1
    <3>4. CASE f.dance.n > TAPS
      <4>. DEFINE g == resolve_dance(f, TAPS)
      <4>1. /\ IsEngine(g) /\ g.old = f.old /\ g.aside = f.aside /\ g.ended = f.ended
            /\ g.lead = f.lead /\ g.dance = [f.dance EXCEPT !.st = "resolved"]
            /\ g.owed = (f.owed \/ TAPS \in Actions[f.dance.key])
        BY <3>1 DEF IsEngine, Fields, resolve_dance
      <4>. HIDE DEF g
      <4>2. DanceOk(g.dance)
        BY <4>1, <3>3 DEF DanceOk
      <4>3. g.owed \in BOOLEAN
        BY <4>1, Zenon
      <4>4. Rest(g)
        BY <4>1, <4>2, <4>3, <3>1 DEF Rest
      <4>5. NextTap(e) = g
        BY <3>2, <3>4 DEF g
      <4>. QED BY <4>4, <4>5, <2>2 DEF tap_dance_on_press
    <3>5. CASE ~(f.dance.n > TAPS)
      <4>1. DanceOk(f.dance)
        BY <3>3, <3>5, <1>0 DEF DanceOk
      <4>2. Rest(f)
        BY <3>1, <4>1 DEF Rest
      <4>. QED BY <3>2, <3>5, <4>2, <2>2 DEF tap_dance_on_press
    <3>. QED BY <3>4, <3>5
  <2>3. CASE ~(e.dance.st = "counting" /\ e.dance.key = d)
    BY <2>1, <2>3, <1>0, Zenon DEF tap_dance_on_press
  <2>. QED BY <2>2, <2>3
<1>2. ASSUME NEW k PROVE Rest(tap_dance_on_release(e, k))
  <2>. DEFINE f == [e EXCEPT !.dance.held = FALSE]
  <2>1. /\ IsEngine(f) /\ f.old = e.old /\ f.aside = e.aside /\ f.ended = e.ended
        /\ f.lead = e.lead /\ f.owed = e.owed /\ f.dance = [e.dance EXCEPT !.held = FALSE]
    BY DEF Rest, IsEngine, Fields
  <2>2. tap_dance_on_release(e, k) \in {e, f}
    BY Zenon DEF tap_dance_on_release
  <2>. HIDE DEF f
  <2>3. Rest(f)
    BY <2>1 DEF Rest, DanceOk
  <2>. QED BY <2>2, <2>3
<1>3. Rest(tap_dance_tick(e))
  BY <1>0, Zenon DEF tap_dance_tick
<1>4. Rest(tap_dance_consume(e))
  <2>. DEFINE f == tap_dance_consume(e)
  <2>1. /\ IsEngine(f) /\ f.old = e.old /\ f.aside = e.aside /\ f.ended = e.ended
        /\ f.lead = e.lead /\ f.owed = FALSE
        /\ f.dance = [e.dance EXCEPT !.st = IF @ = "resolved" THEN "idle" ELSE @]
    BY DEF Rest, IsEngine, Fields, tap_dance_consume
  <2>. HIDE DEF f
  <2>2. DanceOk(f.dance)
    BY <2>1 DEF Rest, DanceOk
  <2>. QED BY <2>1, <2>2 DEF Rest, f
<1>. QED BY <1>1, <1>2, <1>3, <1>4

\* Only the leader changed.
LedBy(e, f, l) ==
  /\ IsEngine(f) /\ f.old = e.old /\ f.aside = e.aside /\ f.ended = e.ended
  /\ f.dance = e.dance /\ f.owed = e.owed /\ f.lead = l

LEMMA LeaderRest ==
  ASSUME NEW e, Rest(e)
  PROVE  /\ Rest(leader_start(e)) /\ Rest(LeaderMatch(e)) /\ Rest(cancel(e))
         /\ Rest(leader_consume(e)) /\ \A k \in Plain : Rest(leader_feed(e, k))
         /\ Rest(leader_tick(e))
<1>0. SEQ \in Nat /\ <<>> \in BoundedSeq(Plain, SEQ)
  <2>1. SEQ \in Nat /\ <<>> \in Seq(Plain) /\ Len(<<>>) <= SEQ
    BY KeyFeaturesAssumption, EmptySeq
  <2>. QED BY <2>1, BoundedIs
<1>1. \A f, l : LedBy(e, f, l) /\ LeadOk(l) => Rest(f)
  BY DEF Rest, LedBy
<1>2. Rest(leader_start(e))
  <2>1. LedBy(e, leader_start(e), [on |-> TRUE, buf |-> <<>>, late |-> FALSE, match |-> FALSE])
    BY DEF Rest, IsEngine, Fields, LedBy, leader_start
  <2>. QED BY <2>1, <1>0, <1>1 DEF LeadOk
<1>3. \A x : Rest(x) => Rest(LeaderMatch(x)) /\ Rest(cancel(x))
  <2>1. SUFFICES ASSUME NEW x, Rest(x) PROVE Rest(LeaderMatch(x)) /\ Rest(cancel(x))
    OBVIOUS
  <2>2. LedBy(x, cancel(x), [x.lead EXCEPT !.on = FALSE, !.buf = <<>>])
    BY <2>1 DEF Rest, IsEngine, Fields, LedBy, cancel
  <2>3. \/ LeaderMatch(x) = x
        \/ LedBy(x, LeaderMatch(x), [x.lead EXCEPT !.on = FALSE, !.match = TRUE])
    BY <2>1 DEF Rest, IsEngine, Fields, LedBy, LeaderMatch
  <2>4. /\ LeadOk([x.lead EXCEPT !.on = FALSE, !.buf = <<>>])
        /\ LeadOk([x.lead EXCEPT !.on = FALSE, !.match = TRUE])
    BY <2>1, <1>0 DEF Rest, LeadOk
  <2>. QED BY <2>1, <2>2, <2>3, <2>4 DEF Rest, LedBy
<1>4. Rest(leader_consume(e))
  <2>1. LedBy(e, leader_consume(e), [e.lead EXCEPT !.match = FALSE])
    BY DEF Rest, IsEngine, Fields, LedBy, leader_consume
  <2>2. LeadOk([e.lead EXCEPT !.match = FALSE])
    BY DEF Rest, LeadOk
  <2>. QED BY <2>1, <2>2, <1>1
<1>5. ASSUME NEW k \in Plain PROVE Rest(leader_feed(e, k))
  <2>. DEFINE f == [e EXCEPT !.lead.buf = Append(@, k), !.lead.late = FALSE]
              l == [e.lead EXCEPT !.buf = Append(e.lead.buf, k), !.late = FALSE]
              longer == \E s \in LeaderSeqs : IsStrictPrefix(f.lead.buf, s)
  <2>1. leader_feed(e, k) = CASE Len(e.lead.buf) = SEQ -> cancel(e)
                              [] longer -> f
                              [] OTHER -> LeaderMatch(f)
    BY Zenon DEF leader_feed
  <2>2. LedBy(e, f, l)
    BY DEF Rest, IsEngine, Fields, LedBy
  <2>0. /\ e.lead.buf \in Seq(Plain) /\ Len(e.lead.buf) <= SEQ
        /\ Len(Append(e.lead.buf, k)) = Len(e.lead.buf) + 1
    <3>. DEFINE b == e.lead.buf
    <3>1. b \in BoundedSeq(Plain, SEQ)
      BY DEF Rest, LeadOk
    <3>. HIDE DEF b
    <3>2. b \in Seq(Plain) /\ Len(b) <= SEQ
      BY <3>1, <1>0, BoundedIs
    <3>3. Len(Append(b, k)) = Len(b) + 1
      BY <3>2, AppendProperties
    <3>. QED BY <3>2, <3>3 DEF b
  \* A full buffer grew beyond every sequence: the arms exclude each other.
  <2>5. Len(e.lead.buf) = SEQ => ~longer
    <3>. SUFFICES ASSUME Len(e.lead.buf) = SEQ, NEW s \in LeaderSeqs, IsStrictPrefix(f.lead.buf, s)
                  PROVE FALSE
      OBVIOUS
    <3>1. f.lead.buf = Append(e.lead.buf, k)
      <4>1. f.lead = l
        BY <2>2 DEF LedBy
      <4>2. l.buf = Append(e.lead.buf, k)
        BY DEF Rest, LeadOk
      <4>. QED BY <4>1, <4>2
    <3>2. Len(f.lead.buf) <= Len(s)
      BY DEF IsStrictPrefix, IsPrefix
    <3>3. Len(s) <= SEQ
      BY KeyFeaturesAssumption
    <3>. HIDE DEF f
    <3>. QED BY <2>0, <3>1, <3>2, <3>3, <1>0
  <2>. HIDE DEF longer, f
  <2>3. CASE Len(e.lead.buf) = SEQ
    <3>1. leader_feed(e, k) = cancel(e)
      BY <2>1, <2>3, <2>5
    <3>. QED BY <3>1, <1>3, Zenon
  <2>4. CASE Len(e.lead.buf) # SEQ
    <3>. DEFINE b == e.lead.buf
    <3>. HIDE DEF b
    <3>2. b \in Seq(Plain) /\ Len(b) <= SEQ /\ Len(b) \in Nat
      BY <2>0, LenProperties DEF b
    <3>3. Append(b, k) \in Seq(Plain) /\ Len(Append(b, k)) = Len(b) + 1
      BY <3>2, AppendProperties
    <3>4. Len(b) + 1 <= SEQ
      BY <3>2, <2>4, <1>0 DEF b
    <3>5. Append(b, k) \in BoundedSeq(Plain, SEQ)
      BY <3>3, <3>4, <1>0, BoundedIs
    <3>6. LeadOk(l)
      BY <3>5 DEF Rest, LeadOk, b
    <3>7. Rest(f)
      BY <2>2, <3>6, <1>1
    <3>8. leader_feed(e, k) \in {f, LeaderMatch(f)}
      BY <2>1, <2>4
    <3>. QED BY <3>7, <3>8, <1>3
  <2>. QED BY <2>3, <2>4
<1>6. Rest(leader_tick(e))
  <2>. DEFINE f == IF e.lead.buf # <<>> THEN LeaderMatch(e) ELSE e
  <2>1. Rest(f)
    BY <1>3, Zenon
  <2>2. leader_tick(e) \in {cancel(f), e}
    BY DEF leader_tick
  <2>. HIDE DEF f
  <2>. QED BY <2>1, <2>2, <1>3
<1>. QED BY <1>2, <1>3, <1>4, <1>5, <1>6

\* A step that leaves the dances and the leader, and whose history stays with keys.
LEMMA InjectedRest ==
  ASSUME NEW e, Rest(e), NEW c
  PROVE  Rest(Injected(e, c))
<1>. DEFINE free == {i \in Slots : e.rep[i] = None}
            n == CHOOSE i \in free : \A j \in free : i <= j
            f == [e EXCEPT !.rep[n] = c]
<1>1. Injected(e, c) \in {e, f}
  BY Zenon DEF Injected
<1>. HIDE DEF n
<1>2. Kin(e, f) /\ f.old = e.old /\ f.aside = e.aside /\ f.ended = e.ended
  BY DEF Rest, IsEngine, Fields, Kin
<1>. HIDE DEF f
<1>3. Rest(f)
  BY <1>2, KinRest DEF Rest
<1>. QED BY <1>1, <1>3

LEMMA UndeferredRest ==
  ASSUME NEW e, Rest(e), NEW K
  PROVE  Rest(Undeferred(e, K))
<1>. DEFINE f == Undeferred(e, K)
<1>1. Kin(e, f) /\ f.old = e.old \ K /\ f.aside = e.aside /\ f.ended = e.ended
  BY DEF Rest, IsEngine, Fields, Kin, Undeferred
<1>. HIDE DEF f
<1>2. Rest(f)
  BY <1>1, KinRest DEF Rest
<1>. QED BY <1>2 DEF f

LEMMA DeferKeyRest ==
  ASSUME NEW e, Rest(e), NEW k \in Plain
  PROVE  Rest(combo_defer_key(e, k))
<1>. DEFINE free == {n \in 1 .. DEFERRED : e.defer[n] = None}
            n == CHOOSE x \in free : \A m \in free : x <= m
            f == [e EXCEPT !.aside = @ \cup {k}]
            g == [e EXCEPT !.defer[n] = k, !.old = @ \ {k}]
<1>1. combo_defer_key(e, k) \in {e, f, g}
  BY Zenon DEF combo_defer_key
<1>. HIDE DEF n
<1>2. Kin(e, f) /\ f.old = e.old /\ f.aside = e.aside \cup {k} /\ f.ended = e.ended
  BY DEF Rest, IsEngine, Fields, Kin
<1>3. Kin(e, g) /\ g.old = e.old \ {k} /\ g.aside = e.aside /\ g.ended = e.ended
  BY DEF Rest, IsEngine, Fields, Kin
<1>. HIDE DEF f, g
<1>4. Rest(f)
  BY <1>2, KinRest DEF Rest
<1>5. Rest(g)
  BY <1>3, KinRest DEF Rest
<1>. QED BY <1>1, <1>4, <1>5

LEMMA ComboStepRest ==
  ASSUME NEW e, Rest(e), NEW i \in Combo
  PROVE  Rest(ComboStep(Down, e, i))
<1>. DEFINE keys == Combos[i].keys
            u == Undeferred(e, keys)
            f == [e EXCEPT !.fired = @ \ {i}, !.typed = @ \ {i}, !.crowded = @ \ {i},
                           !.aside = IF i \in e.fired THEN @ \cup keys ELSE @]
            g == [u EXCEPT !.fired = @ \cup {i}, !.typed = @ \cup {i}]
<1>1. ComboStep(Down, e, i) \in {e, f, g}
  <2>. DEFINE lost == ~ keys \subseteq Down
              hit  == keys \subseteq Down /\ i \notin e.fired /\ keys \cap Values(e.defer) # {}
  <2>1. ComboStep(Down, e, i) = CASE lost -> f [] hit -> g [] OTHER -> e
    BY Zenon DEF ComboStep
  <2>2. ~(lost /\ hit)
    OBVIOUS
  <2>. HIDE DEF lost, hit, f, g
  <2>. QED BY <2>1, <2>2
<1>2. keys \subseteq Plain
  BY CombosAre
<1>3. Kin(e, f) /\ f.old = e.old /\ f.ended = e.ended
      /\ f.aside = IF i \in e.fired THEN e.aside \cup keys ELSE e.aside
  BY DEF Rest, IsEngine, Fields, Kin
<1>4. Rest(u)
  BY UndeferredRest
<1>. HIDE DEF u
<1>5. Kin(u, g) /\ g.old = u.old /\ g.aside = u.aside /\ g.ended = u.ended
  BY <1>4 DEF Rest, IsEngine, Fields, Kin
<1>. HIDE DEF f, g, keys
<1>6. Rest(f)
  BY <1>2, <1>3, KinRest DEF Rest
<1>7. Rest(g)
  BY <1>4, <1>5, KinRest DEF Rest
<1>. QED BY <1>1, <1>6, <1>7

LEMMA MatchingRest ==
  ASSUME NEW e, Rest(e)
  PROVE  Rest(Matching(Down, e)[Len(Combos)])
<1>. DEFINE L == Len(Combos)
            x == Matching(Down, e)
            T == {m \in 0 .. L : Rest(x[m])}
<1>1. /\ L \in Nat /\ Combo = 1 .. L /\ x[0] = e
      /\ \A m \in 1 .. L : x[m] = ComboStep(Down, x[m - 1], m)
  BY CombosAre, MatchingIs
<1>. HIDE DEF x, L
<1>2. 0 \in T
  BY <1>1
<1>3. ASSUME NEW m \in 1 .. L, m - 1 \in T PROVE m \in T
  <2>1. Rest(x[m - 1]) /\ m \in Combo /\ m \in 0 .. L
    BY <1>1, <1>3
  <2>2. Rest(ComboStep(Down, x[m - 1], m))
    BY <2>1, ComboStepRest
  <2>. QED BY <1>1, <2>1, <2>2
<1>4. L \in T
  <2>. HIDE DEF T
  <2>. QED BY <1>1, <1>2, <1>3, StepByStep
<1>. QED BY <1>4 DEF x, L

LEMMA InjectingRest ==
  ASSUME NEW e, Rest(e), NEW N \in Nat, NEW S, NEW codes
  PROVE  Rest(Injecting(e, codes, S, N)[N])
<1>. DEFINE x == Injecting(e, codes, S, N)
            T == {m \in 0 .. N : Rest(x[m])}
<1>1. /\ x[0] = e
      /\ \A m \in 1 .. N : x[m] = IF N + 1 - m \in S THEN Injected(x[m - 1], codes[N + 1 - m])
                                                     ELSE x[m - 1]
  BY InjectingIs
<1>. HIDE DEF x
<1>2. 0 \in T
  BY <1>1
<1>3. ASSUME NEW m \in 1 .. N, m - 1 \in T PROVE m \in T
  <2>1. Rest(x[m - 1])
    BY <1>3
  <2>2. Rest(Injected(x[m - 1], codes[N + 1 - m]))
    BY <2>1, InjectedRest
  <2>. QED BY <1>1, <2>1, <2>2
<1>4. N \in T
  <2>. HIDE DEF T
  <2>. QED BY <1>2, <1>3, StepByStep
<1>. QED BY <1>4 DEF x

LEMMA ComboProcessRest ==
  ASSUME SlotsOk, NEW e, Eng(e), Rest(e)
  PROVE  Rest(combo_process(Down, e))
<1>. DEFINE f    == Matching(Down, e)[Len(Combos)]
            over == Expired(Down, f)
            keys == {f.defer[n] : n \in over}
            res  == [i \in Combo |-> Combos[i].result]
            u    == Undeferred(f, keys)
            g    == Injecting(u, res, f.typed \ e.typed, Len(Combos))[Len(Combos)]
            h    == Injecting(g, f.defer, over, DEFERRED)[DEFERRED]
            lost == {i \in f.typed \ e.typed : res[i] \notin Values(g.rep)}
            r    == combo_process(Down, e)
<1>1. r = [h EXCEPT !.ended = @ \cup keys, !.aside = @ \cup (keys \ Values(h.rep)),
                    !.typed = @ \ lost,
                    !.crowded = IF \E i \in Slots : g.rep[i] = None THEN @ ELSE @ \cup lost]
  BY Zenon DEF combo_process
<1>2. Eng(f) /\ Rest(f)
  BY MatchingDoes, MatchingRest
<1>. HIDE DEF f
<1>3. keys \subseteq Plain
  BY <1>2 DEF Eng, Expired
<1>4. Rest(u)
  BY <1>2, UndeferredRest
<1>. HIDE DEF u
<1>5. Rest(g)
  BY <1>4, CombosAre, InjectingRest
<1>. HIDE DEF g, lost
<1>6. Rest(h)
  BY <1>5, KeyFeaturesAssumption, InjectingRest
<1>. HIDE DEF h, r, keys, res
<1>7. /\ Kin(h, r) /\ r.old = h.old /\ r.ended = h.ended \cup keys
      /\ r.aside = h.aside \cup (keys \ Values(h.rep))
  BY <1>1, <1>6 DEF Rest, IsEngine, Fields, Kin
<1>8. Rest(r)
  BY <1>3, <1>6, <1>7, KinRest DEF Rest
<1>. QED BY <1>8 DEF r

LEMMA PlainKeyRest ==
  ASSUME NEW e, Rest(e), NEW i, NEW k \in Plain
  PROVE  Rest(PlainKey(e, i, k))
<1>. DEFINE w == IF is_new_press(k) THEN leader_feed(e, k) ELSE e
            f == [w EXCEPT !.aside = @ \cup {k}]
            g == [e EXCEPT !.rep[i] = k]
            c == combo_defer_key(e, k)
<1>1. PlainKey(e, i, k) \in {e, f, g, c}
  BY Zenon DEF PlainKey
<1>2. Rest(leader_feed(e, k)) /\ Rest(c)
  BY LeaderRest, DeferKeyRest
<1>. HIDE DEF c
<1>3. Rest(w)
  BY <1>2, Zenon
<1>. HIDE DEF w
<1>4. Kin(w, f) /\ f.old = w.old /\ f.aside = w.aside \cup {k} /\ f.ended = w.ended
  BY <1>3 DEF Rest, IsEngine, Fields, Kin
<1>5. Kin(e, g) /\ g.old = e.old /\ g.aside = e.aside /\ g.ended = e.ended
  BY DEF Rest, IsEngine, Fields, Kin
<1>. HIDE DEF f, g
<1>6. Rest(f)
  BY <1>3, <1>4, KinRest DEF Rest
<1>7. Rest(g)
  BY <1>5, KinRest DEF Rest
<1>. QED BY <1>1, <1>2, <1>6, <1>7

LEMMA ProcessKeyRest ==
  ASSUME SlotsOk, NEW e, Rest(e), NEW i \in Slots
  PROVE  Rest(ProcessKey(e, i))
<1>. DEFINE f == ProcessKey(e, i)
            g == [e EXCEPT !.rep[i] = None]
<1>0. /\ DOMAIN slots = 1 .. Len(slots) /\ Len(slots) \in Nat /\ i \in Nat /\ i >= 1
      /\ i > Len(slots) <=> i \notin DOMAIN slots
  BY DownAre DEF Slots
<1>1. CASE i \notin DOMAIN slots
  <2>1. f = g
    BY <1>0, <1>1 DEF ProcessKey
  <2>2. Kin(e, g) /\ g.old = e.old /\ g.aside = e.aside /\ g.ended = e.ended
    BY DEF Rest, IsEngine, Fields, Kin
  <2>. HIDE DEF f, g
  <2>3. Rest(g)
    BY <2>2, KinRest DEF Rest
  <2>. QED BY <2>1, <2>3 DEF f
<1>2. CASE i \in DOMAIN slots
  <2>1. slots[i] \in Key /\ ~(i > Len(slots))
    BY <1>0, <1>2, DownAre
  <2>2. CASE slots[i] \in Dance
    <3>1. slots[i] \notin Plain /\ slots[i] \notin LeaderKey
      BY <2>2, KeyFeaturesAssumption
    <3>2. f = tap_dance_on_press(e, slots[i])
      BY <1>2, <2>1, <2>2, <3>1, Zenon DEF ProcessKey
    <3>. QED BY <2>2, <3>2, DanceRest
  <2>3. CASE slots[i] \in LeaderKey
    <3>1. slots[i] \notin Plain /\ slots[i] \notin Dance
      BY <2>3, KeyFeaturesAssumption
    <3>2. f = leader_start(e)
      BY <1>2, <2>1, <2>3, <3>1, Zenon DEF ProcessKey
    <3>. QED BY <3>2, LeaderRest
  <2>4. CASE slots[i] \in Plain
    <3>1. slots[i] \notin LeaderKey /\ slots[i] \notin Dance
      BY <2>4, KeyFeaturesAssumption
    <3>2. f = PlainKey(e, i, slots[i])
      BY <1>2, <2>1, <2>4, <3>1, Zenon DEF ProcessKey
    <3>. QED BY <2>4, <3>2, PlainKeyRest
  <2>. QED BY <2>1, <2>2, <2>3, <2>4 DEF Key
<1>. QED BY <1>1, <1>2

LEMMA ProcessingRest ==
  ASSUME SlotsOk, NEW e, Rest(e)
  PROVE  Rest(Processing(e)[SLOTS])
<1>. DEFINE x == Processing(e)
            T == {m \in 0 .. SLOTS : Rest(x[m])}
<1>0. SLOTS \in Nat /\ Slots = 1 .. SLOTS
  BY KeyFeaturesAssumption DEF Slots
<1>1. x[0] = e /\ \A m \in 1 .. SLOTS : x[m] = ProcessKey(x[m - 1], m)
  BY ProcessingIs
<1>. HIDE DEF x
<1>2. 0 \in T
  BY <1>0, <1>1
<1>3. ASSUME NEW m \in 1 .. SLOTS, m - 1 \in T PROVE m \in T
  <2>1. Rest(x[m - 1]) /\ m \in Slots /\ m \in 0 .. SLOTS
    BY <1>0, <1>3
  <2>2. Rest(ProcessKey(x[m - 1], m))
    BY <2>1, ProcessKeyRest
  <2>. QED BY <1>1, <2>1, <2>2
<1>4. SLOTS \in T
  <2>. HIDE DEF T
  <2>. QED BY <1>0, <1>2, <1>3, StepByStep
<1>. QED BY <1>4 DEF x

LEMMA BuildRest ==
  ASSUME SlotsOk, Eng(eng), Rest(eng), NEW n \in Nat, NEW b, b = build_keycode_report(eng, n)
  PROVE  Rest(b)
<1>. DEFINE f == [eng EXCEPT !.aside = {}, !.ended = @ \cap Values(eng.rep)]
            d == detect_releases(f)
            p == Processing(d)[SLOTS]
            q == Tapped(p, n)
<1>1. b = combo_process(Down, q)
  BY Zenon DEF build_keycode_report, Down
<1>2. /\ Kin(eng, f) /\ f.old = eng.old /\ f.aside = {}
      /\ f.ended = eng.ended \cap Values(eng.rep)
  BY DEF Rest, IsEngine, Fields, Kin
<1>3. /\ f.rep = eng.rep /\ f.defer = eng.defer /\ f.fired = eng.fired
      /\ f.typed = eng.typed /\ f.crowded = eng.crowded
  BY DEF Rest, IsEngine, Fields
<1>. HIDE DEF f
<1>4. Rest(f)
  BY <1>2, KinRest DEF Rest
<1>5. Eng(f)
  BY <1>2, <1>3 DEF Eng, Kin
<1>6. Same(f, d)
  <2>1. Same(f, tap_dance_on_release(f, f.dance.key)) /\ Same(f, f)
    BY <1>5, DanceReleaseAlone DEF Eng, Same
  <2>. QED BY <2>1, Zenon DEF detect_releases
<1>7. Rest(d)
  <2>1. Rest(tap_dance_on_release(f, f.dance.key))
    BY <1>4, DanceRest
  <2>. QED BY <1>4, <2>1, Zenon DEF detect_releases
<1>. HIDE DEF d
<1>8. Eng(d)
  BY <1>5, <1>6 DEF Same, Eng
<1>9. Eng(p)
  <2>1. AllPlaced(d, p)
    BY <1>8, ProcessingDoes
  <2>. QED BY <2>1 DEF AllPlaced
<1>10. Rest(p)
  BY <1>7, ProcessingRest
<1>. HIDE DEF p
<1>11. Eng(q) /\ Rest(q)
  <2>1. Eng(q)
    BY <1>9, TappedIs
  <2>2. Rest(q)
    BY <1>10, InjectingRest DEF Tapped
  <2>. QED BY <2>1, <2>2
<1>. HIDE DEF q
<1>12. Rest(combo_process(Down, q))
  BY <1>11, ComboProcessRest
<1>. QED BY <1>1, <1>12

\* The types, with the range of a dance that counts (DanceOk): without it the next press
\* could take the counter beyond TAPS + 1.
TypeIInv ==
  /\ ReportIInv /\ Rest(eng)
  /\ prev \subseteq Key /\ sent \subseteq Code /\ left \subseteq Code
  /\ changed \in BOOLEAN /\ pc \in {"wait", "build", "results", "matrix"}

\* A build leaves the slots to prev, and codes in the report.
LEMMA BuildTypes ==
  ASSUME TypeIInv, NEW n \in Nat, NEW gone \in SUBSET Slots, BuildAndSend(n, gone)
  PROVE  Rest(eng') /\ prev' \subseteq Key /\ sent' \subseteq Code /\ left' \subseteq Code
<1>. DEFINE b == build_keycode_report(eng, n)
<1>0. SlotsOk /\ Eng(eng) /\ Rest(eng) /\ left \subseteq Code
  BY DEF TypeIInv, ReportIInv
<1>1. /\ \A i \in gone : b.rep[i] = TapCode
      /\ eng' = [b EXCEPT !.rep = [i \in Slots |-> IF i \in gone THEN None ELSE @[i]]]
      /\ sent' = Codes(b) /\ prev' = Down /\ left' = left \cap Values(eng.rep)
  BY Zenon DEF BuildAndSend, Codes, Down
<1>2. b = build_keycode_report(eng, n)
  OBVIOUS
<1>. HIDE DEF b
<1>3. Rest(b)
  BY <1>0, <1>2, BuildRest
<1>4. Eng(b)
  <2>1. \E q : Matched(q, b)
    BY <1>0, <1>2, BuildDoes
  <2>. QED BY <2>1 DEF Matched
<1>5. Kin(b, eng') /\ eng'.old = b.old /\ eng'.aside = b.aside /\ eng'.ended = b.ended
  BY <1>1, <1>3 DEF Rest, IsEngine, Fields, Kin
<1>6. Rest(eng')
  BY <1>3, <1>5, KinRest DEF Rest
<1>7. Codes(b) \subseteq Code
  BY <1>4 DEF Eng, Codes, Values
<1>8. Down \subseteq Key
  BY <1>0, DownAre
<1>. QED BY <1>0, <1>1, <1>6, <1>7, <1>8

LEMMA TypeIInvIsType == TypeIInv => FeaturesTypeOK
<1>. SUFFICES ASSUME TypeIInv PROVE FeaturesTypeOK
  OBVIOUS
<1>1. slots \in BoundedSeq(Key, SLOTS) /\ local \in BoundedSeq(Key \ Far, SLOTS)
  <2>1. /\ slots \in Seq(Key) /\ Len(slots) <= SLOTS /\ SLOTS \in Nat
        /\ local \in Seq(Key \ Far) /\ Len(local) <= SLOTS
    BY KeyFeaturesAssumption DEF TypeIInv, ReportIInv, SlotsOk, LocalOk, Listed
  <2>. QED BY <2>1, BoundedIs
<1>2. Eng(eng) /\ Rest(eng)
  BY DEF TypeIInv, ReportIInv
<1>3. eng \in Engine
  <2>1. /\ eng.rep \in [Slots -> Code \cup {TapCode, None}]
        /\ eng.defer \in [1 .. DEFERRED -> Plain \cup {None}]
        /\ eng.fired \in SUBSET Combo /\ eng.typed \in SUBSET Combo
        /\ eng.crowded \in SUBSET Combo
    BY <1>2 DEF Eng
  <2>2. /\ eng.old \in SUBSET Plain /\ eng.aside \in SUBSET Plain /\ eng.ended \in SUBSET Plain
        /\ eng.dance \in [st : {"idle", "counting", "resolved"}, key : Dance \cup {None},
                          n : 0 .. TAPS + 1, held : BOOLEAN, late : BOOLEAN]
        /\ eng.lead \in [on : BOOLEAN, buf : BoundedSeq(Plain, SEQ), late : BOOLEAN, match : BOOLEAN]
        /\ eng.owed \in BOOLEAN
    BY <1>2, Zenon DEF Rest, DanceOk, LeadOk
  <2>3. eng = [rep |-> eng.rep, defer |-> eng.defer, old |-> eng.old, fired |-> eng.fired,
               dance |-> eng.dance, owed |-> eng.owed, lead |-> eng.lead, typed |-> eng.typed,
               crowded |-> eng.crowded, aside |-> eng.aside, ended |-> eng.ended]
    BY <1>2 DEF Rest, IsEngine, Fields
  <2>. QED BY <2>1, <2>2, <2>3, Zenon DEF Engine
<1>. QED BY <1>1, <1>3, Zenon DEF TypeIInv, FeaturesTypeOK

LEMMA TypeInit == FeaturesInit => TypeIInv
<1>. SUFFICES ASSUME FeaturesInit PROVE TypeIInv
  OBVIOUS
<1>1. ReportIInv
  BY ReportInit
<1>2. /\ IsEngine(eng) /\ eng.old = {} /\ eng.aside = {} /\ eng.ended = {}
      /\ eng.dance = NoDance /\ eng.owed = FALSE
      /\ eng.lead = [on |-> FALSE, buf |-> <<>>, late |-> FALSE, match |-> FALSE]
  BY DEF FeaturesInit, IsEngine, Fields
<1>3. LeadOk(eng.lead)
  <2>1. <<>> \in BoundedSeq(Plain, SEQ)
    <3>1. SEQ \in Nat /\ <<>> \in Seq(Plain) /\ Len(<<>>) <= SEQ
      BY KeyFeaturesAssumption, EmptySeq
    <3>. QED BY <3>1, BoundedIs
  <2>. QED BY <1>2, <2>1 DEF LeadOk
<1>4. DanceOk(eng.dance)
  BY <1>2, KeyFeaturesAssumption DEF DanceOk, NoDance
<1>5. Rest(eng)
  BY <1>2, <1>3, <1>4 DEF Rest
<1>. QED BY <1>1, <1>5 DEF TypeIInv, FeaturesInit

LEMMA ElapseRest ==
  ASSUME Rest(eng), Elapse
  PROVE  Rest(eng')
<1>1. CASE \E k \in Plain : eng' = [eng EXCEPT !.old = @ \cup {k}]
  <2>1. PICK k \in Plain : eng' = [eng EXCEPT !.old = @ \cup {k}]
    BY <1>1
  <2>2. Kin(eng, eng') /\ eng'.old = eng.old \cup {k} /\ eng'.aside = eng.aside /\ eng'.ended = eng.ended
    BY <2>1 DEF Rest, IsEngine, Fields, Kin
  <2>. QED BY <2>2, KinRest DEF Rest
<1>2. CASE eng' = [eng EXCEPT !.dance.late = TRUE]
  <2>1. /\ IsEngine(eng') /\ eng'.old = eng.old /\ eng'.aside = eng.aside /\ eng'.ended = eng.ended
        /\ eng'.lead = eng.lead /\ eng'.owed = eng.owed
        /\ eng'.dance = [eng.dance EXCEPT !.late = TRUE]
    BY <1>2 DEF Rest, IsEngine, Fields
  <2>2. DanceOk(eng'.dance)
    BY <2>1 DEF Rest, DanceOk
  <2>. QED BY <2>1, <2>2 DEF Rest
<1>3. CASE eng' = [eng EXCEPT !.lead.late = TRUE]
  <2>1. LedBy(eng, eng', [eng.lead EXCEPT !.late = TRUE])
    BY <1>3 DEF Rest, IsEngine, Fields, LedBy
  <2>2. LeadOk([eng.lead EXCEPT !.late = TRUE])
    BY DEF Rest, LeadOk
  <2>. QED BY <2>1, <2>2 DEF Rest, LedBy
<1>. QED BY <1>1, <1>2, <1>3, Zenon DEF Elapse, ComboTime, DanceTime, LeaderTime

LEMMA ResultsRest ==
  ASSUME Rest(eng), Results
  PROVE  Rest(eng')
<1>. DEFINE d == IF eng.owed THEN tap_dance_consume(eng) ELSE eng
            t == leader_tick(d)
<1>1. eng' = leader_consume(t)
  BY Zenon DEF Results
<1>2. Rest(d)
  BY DanceRest, Zenon
<1>. HIDE DEF d
<1>3. Rest(t)
  BY <1>2, LeaderRest
<1>. HIDE DEF t
<1>. QED BY <1>1, <1>3, LeaderRest

LEMMA TypeStep == TypeIInv /\ [FeaturesNext]_featuresVars => TypeIInv'
<1>. SUFFICES ASSUME TypeIInv, [FeaturesNext]_featuresVars PROVE TypeIInv'
  OBVIOUS
<1>0. /\ ReportIInv /\ Rest(eng) /\ prev \subseteq Key /\ sent \subseteq Code /\ left \subseteq Code
      /\ changed \in BOOLEAN /\ pc \in {"wait", "build", "results", "matrix"}
  BY DEF TypeIInv
<1>1. ReportIInv'
  BY <1>0, ReportStep
<1>2. \A n \in Waiting, gone \in SUBSET Slots : BuildAndSend(n, gone) =>
        Rest(eng') /\ prev' \subseteq Key /\ sent' \subseteq Code /\ left' \subseteq Code
  <2>1. Waiting \subseteq Nat
    BY KeyFeaturesAssumption
  <2>. QED BY <2>1, BuildTypes
<1>3. Scanned => Rest(eng')
  <2>1. SUFFICES ASSUME Scanned PROVE Rest(eng')
    OBVIOUS
  <2>2. /\ Kin(eng, eng') /\ eng'.old = eng.old /\ eng'.aside = eng.aside /\ eng'.ended = eng.ended
    BY <1>0, <2>1 DEF Scanned, Rest, IsEngine, Fields, Kin
  <2>. QED BY <1>0, <2>2, KinRest DEF Rest
<1>4. CASE \E k \in Key : Press(k) \/ Release(k)
  BY <1>0, <1>1, <1>3, <1>4 DEF Press, Release, Scanned, TypeIInv
<1>5. CASE Elapse
  BY <1>0, <1>1, <1>5, ElapseRest DEF Elapse, TypeIInv
<1>6. CASE Tick
  BY <1>0, <1>1, <1>6, DanceRest DEF Tick, TypeIInv
<1>7. CASE RemoteApply
  <2>1. Codes(eng) \subseteq Code
    BY <1>0 DEF ReportIInv, Eng, Codes, Values
  <2>2. left' \subseteq Code
    BY <1>0, <1>7, <2>1 DEF RemoteApply, Codes
  <2>. QED BY <1>0, <1>1, <1>7, <2>2, DanceRest DEF RemoteApply, TypeIInv
<1>8. CASE OtherBuild
  BY <1>0, <1>1, <1>2, <1>8 DEF OtherBuild, TypeIInv
<1>9. CASE Results
  BY <1>0, <1>1, <1>9, ResultsRest DEF Results, TypeIInv
<1>10. CASE MatrixPath
  BY <1>0, <1>1, <1>2, <1>10 DEF MatrixPath, TypeIInv
<1>11. CASE UNCHANGED featuresVars
  BY <1>0, <1>1, <1>11 DEF featuresVars, TypeIInv
<1>. QED BY <1>4, <1>5, <1>6, <1>7, <1>8, <1>9, <1>10, <1>11 DEF FeaturesNext, Loop

\* tap_dance_on_press, leader_feed, combo_process: the counter of a dance stays within
\* the actions it may choose, the buffer of the leader within LEADER_MAX_SEQ_LEN and the
\* report within its slots, however long the keys are held and however often it is built.
THEOREM FeaturesTypeCorrect == FeaturesSpec => []FeaturesTypeOK
BY TypeInit, TypeStep, TypeIInvIsType, PTL DEF FeaturesSpec

\* resolve_dance takes actions[tap_count - 1] of the active dance when it is interrupted or
\* runs out of time: a dance that counts has a key and one to TAPS taps, so the index is
\* in range and the clamp to TAP_DANCE_MAX_TAPS - 1 is never needed.
THEOREM TapsInRange ==
  FeaturesSpec => [](eng.dance.st = "counting" => eng.dance.n \in 1 .. TAPS /\ eng.dance.key \in Dance)
<1>1. TypeIInv => (eng.dance.st = "counting" => eng.dance.n \in 1 .. TAPS /\ eng.dance.key \in Dance)
  BY DEF TypeIInv, Rest, DanceOk
<1>. QED BY <1>1, TypeInit, TypeStep, PTL DEF FeaturesSpec
=============================================================================
