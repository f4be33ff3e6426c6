--------------------------- MODULE FramedLinks_proofs ---------------------------
(***************************************************************************)
(* The two links that carry frames in byte streams.  HalfLink: what holds  *)
(* for any number of keys, any depth of the FIFO and any length of the     *)
(* silence.  CdcUpdate: what holds for any number and width of the chunks, *)
(* and any number of faults.                                               *)
(***************************************************************************)
EXTENDS HalfLink, CdcUpdate, SequenceTheorems, TLAPS

-----------------------------------------------------------------------------
(* HalfLink.                                                               *)

RightInv == right # "on" => pressed = {}

\* During the copy the matrix is the frame below the cursor and the old matrix
\* from there on.
Mixed(f, a, c) == {k \in f : k < c} \cup {k \in a : k >= c}

CopyInv == rx = "copy" => bitmap = Mixed(frame, avant, cursor)

CursorInv == (rx \in {"read", "silence"} => cursor = 1) /\ (kb # "apply" => rd = 1)

\* No change of the matrix is under way.
Settled == rx \in {"read", "silence"} \/ (rx = "copy" /\ avant = frame)

\* The entries and the report hold nothing but m, and all of it unless the callback of
\* the left half has been there since the merge.
Merged(m) == slots \subseteq m /\ (~wiped => slots = m)
Shown     == shown \subseteq bitmap /\ (~wiped => shown = bitmap)

\* While nothing is announced the keyboard task has, or is reading, the matrix.
ReadInv ==
  /\ kb = "taken" => change
  /\ ~change /\ Settled /\ kb = "apply" => Merged({k \in bitmap : k < rd})
  /\ ~change /\ Settled /\ kb = "idle" => Merged(bitmap) /\ Shown

\* The last frame that arrived is the last of the FIFO, or being copied, or
\* what the matrix holds.
FrameInv ==
  ~lost => /\ fifo # <<>> => fifo[Len(fifo)] = pressed
           /\ fifo = <<>> /\ rx = "copy" => frame = pressed
           /\ fifo = <<>> /\ vivant /\ rx \in {"read", "silence"} => bitmap = pressed

IInv == TypeOK /\ RightInv /\ CopyInv /\ CursorInv /\ ReadInv /\ FrameInv

\* The matrix at the start and at the end of a copy.
LEMMA MixedEnds ==
  ASSUME NEW f \in SUBSET Key, NEW a \in SUBSET Key
  PROVE  Mixed(f, a, 1) = a /\ Mixed(f, a, KEYS + 1) = f
<1>1. \A k \in f \cup a : k \in Int /\ 1 <= k /\ k <= KEYS /\ KEYS \in Int
  BY HalfLinkAssumption DEF Key
<1>2. QED
  BY <1>1 DEF Mixed

\* The matrix after each key of a copy.
LEMMA MixedStep ==
  ASSUME NEW f \in SUBSET Key, NEW a \in SUBSET Key, NEW c \in Key
  PROVE  /\ Mixed(f, f, c) = f
         /\ c \in f => Mixed(f, a, c + 1) = Mixed(f, a, c) \cup {c}
         /\ c \notin f => Mixed(f, a, c + 1) = Mixed(f, a, c) \ {c}
<1>1. \A k \in f \cup a : k \in Int /\ 1 <= k /\ k <= KEYS /\ KEYS \in Int
  BY HalfLinkAssumption DEF Key
<1>2. c \in Int
  BY HalfLinkAssumption DEF Key
<1>3. Mixed(f, f, c) = f
  <2>1. \A k \in f : k < c \/ k >= c
    BY <1>1, <1>2
  <2>2. QED
    BY <2>1, Zenon DEF Mixed
<1>4. \A k : k \in Mixed(f, a, c + 1) <=>
             (k = c /\ k \in f) \/ (k # c /\ k \in Mixed(f, a, c))
  <2>1. \A k \in f \cup a : /\ k < c + 1 <=> k < c \/ k = c
                            /\ k >= c + 1 <=> k >= c /\ k # c
    BY <1>1, <1>2
  <2>2. ~(c < c) /\ c < c + 1 /\ ~(c >= c + 1)
    BY <1>2
  <2>3. QED
    BY <2>1, <2>2 DEF Mixed
<1>5. ASSUME c \in f PROVE Mixed(f, a, c + 1) = Mixed(f, a, c) \cup {c}
  BY <1>4, <1>5
<1>6. ASSUME c \notin f PROVE Mixed(f, a, c + 1) = Mixed(f, a, c) \ {c}
  BY <1>4, <1>6
<1>7. QED
  BY <1>3, <1>5, <1>6

\* What is appended is the last of the FIFO.
LEMMA AppendFacts ==
  ASSUME NEW S, NEW q \in Seq(S), NEW m \in S
  PROVE  /\ Append(q, m) \in Seq(S) /\ Len(Append(q, m)) = Len(q) + 1
         /\ Append(q, m)[Len(Append(q, m))] = m /\ Append(q, m) # <<>>
<1>1. Len(q) \in Nat /\ Append(q, m) \in Seq(S) /\ Len(Append(q, m)) = Len(q) + 1
  OBVIOUS
<1>2. Append(q, m)[Len(q) + 1] = m
  OBVIOUS
<1>3. Append(q, m) # <<>>
  BY <1>1, Len(<<>>) = 0
<1>4. QED
  BY <1>1, <1>2, <1>3

\* What a transmission does to the FIFO (half_link_tx_matrix).
LEMMA TransmitFifo ==
  ASSUME TypeOK, NEW m \in SUBSET Key, Transmit(m)
  PROVE  /\ fifo' \in Seq(SUBSET Key) /\ Len(fifo') <= FIFO /\ lost' \in BOOLEAN
         /\ ~lost' => fifo' # <<>> /\ fifo'[Len(fifo')] = m
<1>1. fifo \in Seq(SUBSET Key) /\ Len(fifo) \in Nat /\ Len(fifo) <= FIFO /\ FIFO \in Nat
  BY HalfLinkAssumption DEF TypeOK
<1> DEFINE one == Append(fifo, m)
           two == Append(one, m)
<1>2. /\ one \in Seq(SUBSET Key) /\ Len(one) = Len(fifo) + 1
      /\ one[Len(one)] = m /\ one # <<>>
  BY <1>1, AppendFacts
<1>3. /\ two \in Seq(SUBSET Key) /\ Len(two) = Len(one) + 1
      /\ two[Len(two)] = m /\ two # <<>>
  BY <1>2, AppendFacts
<1> HIDE DEF one, two
<1>4. CASE fifo' = fifo /\ lost' = TRUE
  BY <1>1, <1>4
<1>5. CASE Len(fifo) < FIFO /\ fifo' = one /\ lost' = FALSE
  <2>1. Len(one) <= FIFO
    BY <1>1, <1>2, <1>5
  <2>2. QED
    BY <1>2, <1>5, <2>1, Zenon
<1>6. CASE Len(fifo) + 1 < FIFO /\ fifo' = two /\ lost' = FALSE
  <2>1. Len(two) <= FIFO
    BY <1>1, <1>2, <1>3, <1>6
  <2>2. QED
    BY <1>3, <1>6, <2>1, Zenon
<1>7. QED
  BY <1>4, <1>5, <1>6 DEF Transmit, one, two

\* The initial state.
LEMMA InitInv == Init => IInv
<1> SUFFICES ASSUME Init PROVE IInv
  OBVIOUS
<1>1. <<>> \in Seq(SUBSET Key) /\ Len(<<>>) = 0 /\ 1 \in 1..KEYS + 1 /\ 0 \in 0..SILENCE
  BY HalfLinkAssumption
<1>2. TypeOK
  <2>1. Len(fifo) <= FIFO
    BY <1>1, HalfLinkAssumption DEF Init
  <2>2. QED
    BY <1>1, <2>1, Zenon DEF Init, TypeOK
<1>3. RightInv /\ CopyInv /\ CursorInv /\ FrameInv
  BY DEF Init, RightInv, CopyInv, CursorInv, FrameInv
<1>4. ReadInv
  BY DEF Init, ReadInv, Merged, Shown
<1>5. QED
  BY <1>2, <1>3, <1>4 DEF IInv

\* The right half only sends (keyboard_btn_cb, half_link_tx_init).
LEMMA RightStep ==
  ASSUME IInv, (\E k \in Key : KeyChange(k)) \/ RightDies \/ RightBoots \/ Burst
  PROVE  IInv'
<1> USE HalfLinkAssumption
<1>1. CASE \E k \in Key : KeyChange(k)
  <2>1. PICK k \in Key : KeyChange(k)
    BY <1>1
  <2>2. pressed' \in SUBSET Key
    BY <2>1 DEF KeyChange, IInv, TypeOK
  <2>3. fifo' \in Seq(SUBSET Key) /\ Len(fifo') <= FIFO /\ lost' \in BOOLEAN
        /\ (~lost' => fifo' # <<>> /\ fifo'[Len(fifo')] = pressed')
    BY <2>1, <2>2, TransmitFifo DEF KeyChange, IInv
  <2>4. QED
    BY <2>1, <2>2, <2>3 DEF KeyChange, IInv, TypeOK, RightInv, CopyInv, CursorInv, ReadInv,
       Settled, Merged, Shown, FrameInv, rxVars, stateVars, kbVars
<1>2. CASE RightDies
  BY <1>2 DEF RightDies, IInv, TypeOK, RightInv, CopyInv, CursorInv, ReadInv,
     Settled, Merged, Shown, FrameInv, rxVars, stateVars, kbVars
<1>3. CASE RightBoots
  BY <1>3 DEF RightBoots, IInv, TypeOK, RightInv, CopyInv, CursorInv, ReadInv,
     Settled, Merged, Shown, FrameInv, rxVars, stateVars, kbVars
<1>4. CASE Burst
  <2>1. fifo' \in Seq(SUBSET Key) /\ Len(fifo') <= FIFO /\ lost' \in BOOLEAN
        /\ (~lost' => fifo' # <<>> /\ fifo'[Len(fifo')] = {})
    BY <1>4, TransmitFifo DEF Burst, IInv
  <2>2. pressed = {}
    BY <1>4 DEF Burst, IInv, RightInv
  <2>3. QED
    BY <1>4, <2>1, <2>2 DEF Burst, IInv, TypeOK, RightInv, CopyInv, CursorInv, ReadInv,
       Settled, Merged, Shown, FrameInv, rxVars, stateVars, kbVars
<1>5. QED
  BY <1>1, <1>2, <1>3, <1>4

\* The frame that is taken from the FIFO (half_link_rx_task).
LEMMA ReadStep == ASSUME IInv, Read PROVE IInv'
<1> USE HalfLinkAssumption DEF Key
<1>1. /\ fifo \in Seq(SUBSET Key) /\ fifo # <<>>
      /\ Head(fifo) \in SUBSET Key /\ Tail(fifo) \in Seq(SUBSET Key)
      /\ Len(Tail(fifo)) = Len(fifo) - 1
  BY HeadTailProperties DEF Read, IInv, TypeOK
<1>2. TypeOK'
  BY <1>1 DEF Read, IInv, TypeOK, rightVars, stateVars, kbVars
<1>3. CursorInv' /\ RightInv'
  BY DEF Read, IInv, CursorInv, RightInv, rightVars, kbVars
<1>7. CopyInv'
  <2>1. bitmap \in SUBSET Key /\ Head(fifo) \in SUBSET Key
    BY <1>1 DEF IInv, TypeOK
  <2>2. bitmap = Mixed(Head(fifo), bitmap, 1)
    BY <2>1, MixedEnds
  <2>3. QED
    BY <2>2 DEF Read, CopyInv, stateVars
<1>4. ReadInv'
  BY DEF Read, IInv, ReadInv, Settled, Merged, Shown, stateVars, kbVars
<1>5. FrameInv'
  <2>1. CASE Tail(fifo) = <<>>
    <3>1. Len(fifo) = 1
      <4>1. Len(Tail(fifo)) = Len(fifo) - 1 /\ Len(fifo) \in Nat
        BY <1>1
      <4>2. Len(Tail(fifo)) = 0
        BY <2>1
      <4>3. QED
        BY <4>1, <4>2
    <3>3. Head(fifo) = fifo[Len(fifo)]
      BY <1>1, <3>1
    <3>2. QED
      BY <2>1, <3>3, <1>1 DEF Read, IInv, FrameInv, rightVars, stateVars
  <2>2. CASE Tail(fifo) # <<>>
    <3>1. Tail(fifo)[Len(Tail(fifo))] = fifo[Len(fifo)]
      BY <1>1, <2>2, HeadTailProperties
    <3>2. QED
      BY <2>2, <3>1, <1>1 DEF Read, IInv, FrameInv, rightVars, stateVars
  <2>3. QED
    BY <2>1, <2>2
<1>6. QED
  BY <1>2, <1>3, <1>4, <1>5, <1>7 DEF IInv

\* The copy, key by key (half_state_recu).
LEMMA CopyStep == ASSUME IInv, Copy PROVE IInv'
<1>1. /\ bitmap = Mixed(frame, avant, cursor)
      /\ frame \in SUBSET Key /\ avant \in SUBSET Key /\ bitmap \in SUBSET Key
      /\ cursor \in Key /\ cursor + 1 \in 1..KEYS + 1
  BY HalfLinkAssumption DEF Copy, IInv, TypeOK, CopyInv, Key
<1>2. bitmap' = Mixed(frame, avant, cursor + 1)
  <2>1. /\ cursor \in frame => Mixed(frame, avant, cursor + 1) = bitmap \cup {cursor}
        /\ cursor \notin frame => Mixed(frame, avant, cursor + 1) = bitmap \ {cursor}
    BY <1>1, MixedStep
  <2>2. QED
    BY <2>1, Zenon DEF Copy, Copied
<1>3. bitmap' \in SUBSET Key
  BY <1>1 DEF Copy, Copied
<1>4. TypeOK' /\ CursorInv' /\ RightInv'
  BY <1>1, <1>3 DEF Copy, IInv, TypeOK, CursorInv, RightInv, rightVars, kbVars
<1>5. CopyInv'
  BY <1>2 DEF Copy, CopyInv
<1>6. ASSUME avant = frame PROVE bitmap' = bitmap
  <2>1. bitmap = frame
    BY <1>1, <1>6, MixedStep
  <2>2. QED
    BY <2>1 DEF Copy, Copied
<1>7. ReadInv'
  BY <1>6 DEF Copy, IInv, ReadInv, Settled, Merged, Shown, kbVars
<1>8. FrameInv'
  BY DEF Copy, IInv, FrameInv, rightVars
<1>9. QED
  BY <1>4, <1>5, <1>7, <1>8 DEF IInv

\* The end of the copy announces what differs (half_link_rx_task).
LEMMA CopyEndsStep == ASSUME IInv, CopyEnds PROVE IInv'
<1>1. /\ bitmap = Mixed(frame, avant, cursor)
      /\ frame \in SUBSET Key /\ avant \in SUBSET Key
      /\ cursor = KEYS + 1 /\ 1 \in 1..KEYS + 1 /\ 0 \in 0..SILENCE
  BY HalfLinkAssumption DEF CopyEnds, IInv, TypeOK, CopyInv
<1>2. bitmap = frame
  BY <1>1, MixedEnds
<1>3. change' \in BOOLEAN
  BY DEF CopyEnds, IInv, TypeOK
<1>4. TypeOK' /\ CursorInv' /\ RightInv' /\ CopyInv'
  BY <1>1, <1>3 DEF CopyEnds, IInv, TypeOK, CursorInv, RightInv, CopyInv, rightVars, kbVars
<1>5. ReadInv'
  BY <1>2 DEF CopyEnds, IInv, ReadInv, Settled, Merged, Shown, kbVars
<1>6. FrameInv'
  BY <1>2 DEF CopyEnds, IInv, FrameInv, rightVars
<1>7. QED
  BY <1>4, <1>5, <1>6 DEF IInv

\* The rest of the loop of half_link_rx_task.
LEMMA RxStep == ASSUME IInv, RxTask PROVE IInv'
<1> USE HalfLinkAssumption DEF Key
<1>1. CASE NothingToRead
  BY <1>1 DEF NothingToRead, IInv, TypeOK, RightInv, CopyInv, CursorInv, ReadInv,
     Settled, Merged, Shown, FrameInv, rightVars, stateVars, kbVars
<1>2. CASE StillAlive
  BY <1>2 DEF StillAlive, IInv, TypeOK, RightInv, CopyInv, CursorInv, ReadInv,
     Settled, Merged, Shown, FrameInv, rightVars, stateVars, kbVars
<1>3. CASE Silence
  BY <1>3 DEF Silence, IInv, TypeOK, RightInv, CopyInv, CursorInv, ReadInv,
     Settled, Merged, Shown, FrameInv, rightVars, stateVars, kbVars
<1>4. CASE Wipe
  BY <1>4 DEF Wipe, IInv, TypeOK, RightInv, CopyInv, CursorInv, ReadInv,
     Settled, Merged, Shown, FrameInv, rightVars, stateVars, kbVars
<1>5. CASE WipeEnds
  <2>1. 1 \in 1..KEYS + 1 /\ 0 \in 0..SILENCE
    OBVIOUS
  <2>2. TypeOK'
    BY <1>5, <2>1 DEF WipeEnds, IInv, TypeOK, rightVars, kbVars
  <2>3. CursorInv' /\ RightInv' /\ CopyInv' /\ ReadInv' /\ FrameInv'
    BY <1>5 DEF WipeEnds, IInv, CursorInv, RightInv, CopyInv, ReadInv, FrameInv,
           rightVars, kbVars
  <2>4. QED
    BY <2>2, <2>3 DEF IInv
<1>6. QED
  BY <1>1, <1>2, <1>3, <1>4, <1>5, ReadStep, CopyStep, CopyEndsStep DEF RxTask

\* The keyboard task (half_link_remote_changed, matrix_apply_remote).
LEMMA KbStep == ASSUME IInv, KbTask PROVE IInv'
<1>1. UNCHANGED <<rightVars, fifo, rxVars, stateVars>>
  BY DEF KbTask, Test, Take, Apply, Report
<1>2. RightInv' /\ CopyInv' /\ FrameInv' /\ (Settled' <=> Settled)
  BY <1>1 DEF IInv, RightInv, CopyInv, FrameInv, Settled, rightVars, rxVars, stateVars
<1>3. SUFFICES TypeOK' /\ CursorInv' /\ ReadInv'
  BY <1>2 DEF IInv
<1>4. bitmap' = bitmap /\ bitmap \subseteq 1..KEYS /\ rd \in 1..KEYS + 1 /\ KEYS \in Nat
  BY <1>1, HalfLinkAssumption DEF IInv, TypeOK, Key, stateVars
<1>5. CASE Test
  BY <1>1, <1>2, <1>5 DEF Test, IInv, TypeOK, CursorInv, ReadInv,
     rightVars, rxVars, stateVars
<1>6. CASE Take
  <2>1. {} = {k \in bitmap : k < 1}
    <3>1. \A k \in bitmap : ~(k < 1)
      BY <1>4
    <3>2. QED
      BY <3>1, Zenon
  <2>2. ReadInv' /\ CursorInv'
    BY <1>1, <1>2, <1>4, <1>6, <2>1 DEF Take, IInv, CursorInv, ReadInv, Merged, rxVars
  <2>3. TypeOK'
    BY <1>1, <1>6 DEF Take, IInv, TypeOK, rightVars, rxVars, stateVars
  <2>4. QED
    BY <2>2, <2>3
<1>7. CASE Apply
  <2>1. rd \in Key /\ rd + 1 \in 1..KEYS + 1
    BY <1>4, <1>7 DEF Apply, Key
  <2>2. \A k \in bitmap : k < rd + 1 <=> k < rd \/ k = rd
    BY <1>4
  <2>3. {k \in bitmap : k < rd + 1} = {k \in bitmap : k < rd} \cup ({rd} \cap bitmap)
    BY <2>2
  <2>4. Merged({k \in bitmap : k < rd}) => Merged({k \in bitmap : k < rd})'
    <3>1. bitmap' = bitmap /\ rd' = rd + 1 /\ wiped' = wiped
          /\ slots' = slots \cup ({rd} \cap bitmap)
      BY <1>4, <1>7 DEF Apply
    <3>2. QED
      BY <2>3, <3>1 DEF Merged
  <2>8. ReadInv' /\ CursorInv'
    BY <1>1, <1>2, <1>4, <1>7, <2>4 DEF Apply, IInv, CursorInv, ReadInv, rxVars
  <2>5. slots' \in SUBSET Key
    BY <1>7 DEF Apply, IInv, TypeOK
  <2>6. TypeOK'
    BY <1>1, <1>7, <2>1, <2>5 DEF Apply, IInv, TypeOK, rightVars, rxVars, stateVars
  <2>7. QED
    BY <2>6, <2>8
<1>8. CASE Report
  <2>1. {k \in bitmap : k < rd} = bitmap
    <3>1. \A k \in bitmap : k < rd
      BY <1>4, <1>8 DEF Report
    <3>2. QED
      BY <3>1, Zenon
  <2>2. ReadInv' /\ CursorInv'
    BY <1>1, <1>2, <1>4, <1>8, <2>1 DEF Report, IInv, CursorInv, ReadInv, Merged, Shown,
       rxVars
  <2>3. 1 \in 1..KEYS + 1
    BY <1>4
  <2>4. TypeOK'
    BY <1>1, <1>8, <2>3 DEF Report, IInv, TypeOK, rightVars, rxVars, stateVars
  <2>5. QED
    BY <2>2, <2>4
<1>9. QED
  BY <1>5, <1>6, <1>7, <1>8 DEF KbTask

\* The left half's own keys: a report from the entries as they are, and the callback
\* that empties them (keyboard_btn_cb).
LEMMA LocalStep == ASSUME IInv, LocalBuild \/ ScanCallback PROVE IInv'
<1>1. UNCHANGED <<rightVars, fifo, rxVars, stateVars, change, kb, rd>>
  BY DEF LocalBuild, ScanCallback
<1>2. RightInv' /\ CopyInv' /\ FrameInv' /\ CursorInv' /\ (Settled' <=> Settled)
  BY <1>1 DEF IInv, RightInv, CopyInv, FrameInv, CursorInv, Settled, rightVars, rxVars,
     stateVars
<1>3. CASE LocalBuild
  <2>1. TypeOK'
    BY <1>1, <1>3 DEF LocalBuild, IInv, TypeOK, rightVars, rxVars, stateVars
  <2>2. ReadInv'
    BY <1>1, <1>2, <1>3 DEF LocalBuild, IInv, ReadInv, Merged, Shown, stateVars
  <2>3. QED
    BY <1>2, <2>1, <2>2 DEF IInv
<1>4. CASE ScanCallback
  <2>1. wiped' \in BOOLEAN
    BY <1>4 DEF ScanCallback, IInv, TypeOK
  <2>2. TypeOK'
    BY <1>1, <1>4, <2>1 DEF ScanCallback, IInv, TypeOK, rightVars, rxVars, stateVars
  <2>3. ~wiped' => ~wiped /\ slots = {}
    BY <1>4 DEF ScanCallback, IInv, TypeOK
  <2>4. slots' = {} /\ shown' = shown /\ bitmap' = bitmap
    BY <1>1, <1>4 DEF ScanCallback, stateVars
  <2>5. ReadInv'
    BY <1>1, <1>2, <2>3, <2>4 DEF IInv, ReadInv, Merged, Shown
  <2>6. QED
    BY <1>2, <2>2, <2>5 DEF IInv
<1>5. QED
  BY <1>3, <1>4

\* Every step.
LEMMA NextInv == ASSUME IInv, [Next]_vars PROVE IInv'
<1>1. CASE Tick
  BY <1>1, HalfLinkAssumption DEF Tick, IInv, TypeOK, RightInv, CopyInv, CursorInv, ReadInv,
     Settled, Merged, Shown, FrameInv, rightVars, rxVars, kbVars
<1>2. CASE UNCHANGED vars
  BY <1>2 DEF vars, IInv, TypeOK, RightInv, CopyInv, CursorInv, ReadInv,
     Settled, Merged, Shown, FrameInv, rightVars, rxVars, stateVars, kbVars
<1>3. QED
  BY <1>1, <1>2, RightStep, RxStep, KbStep, LocalStep DEF Next

THEOREM Invariance == Spec => []IInv
<1>1. QED
  BY InitInv, NextInv, PTL DEF Spec

\* Every variable of the two halves keeps to its values (half_link.c).
THEOREM TypeCorrect == Spec => []TypeOK
<1>1. IInv => TypeOK
  BY DEF IInv
<1>2. QED
  BY <1>1, Invariance, PTL

\* The keyboard task misses no change of the matrix of the other half, although
\* neither the flag nor the matrix is locked (half_link_remote_changed): what it leaves
\* out of a report is what the callback of the left half took out of the entries.
THEOREM ChangesAreSeen == Spec => []NoChangeLost
<1>1. IInv => NoChangeLost
  BY DEF IInv, ReadInv, Settled, Shown, AtRest, NoChangeLost
<1>2. QED
  BY <1>1, Invariance, PTL

\* A frame that arrives makes up for the lost ones (half_state_recu).
THEOREM LossesAreMadeUp == Spec => []FrameMakesUp
<1>1. IInv => FrameMakesUp
  BY DEF IInv, FrameInv, FrameMakesUp
<1>2. QED
  BY <1>1, Invariance, PTL
-----------------------------------------------------------------------------
(* CdcUpdate: what its variables hold.                                     *)

Command == {"start", "abort", "data"}
Unit == Frame \X Nat
Buffer == [1..WIDTH -> Unit]
Status == {"ok", "crc", "busy", "invalid"}
Piece == [cmd : Command, st : Status, part : {"hdr", "pay", "crc"}]
HostState == [st : {"rest", "wait", "done"}, f : Frame, acked : 0..CHUNKS]
RxState == [st : {"idle", "busy"}, cmd : Command, got : Seq(Unit)]
ReadyFrame == [full : BOOLEAN, cmd : Command, buf : Buffer]
OtaState == [st : {"idle", "receiving"}, open : BOOLEAN, received : 0..CHUNKS]

UpdateTypeOK ==
  /\ host \in HostState
  /\ bin_rx \in RxState
  /\ ready \in ReadyFrame
  /\ pc \in Command \cup {"poll", "write", "finish", "respond", "last"}
  /\ ans \in Seq(Piece) /\ err \in Seq(Piece) /\ tx \in Seq(Piece)
  /\ ota \in OtaState
  /\ half \in Seq(Unit) /\ image \in Seq(Buffer)

USE DEF HostState, RxState, ReadyFrame, OtaState, Status

\* The two packets of a chunk.
First(f) == SubSeq(Units(f), 1, 2)
Second(f) == SubSeq(Units(f), 3, WIDTH + 2)

\* The host has the second packet of its chunk left to write.
Begun == host.st = "wait" /\ host.f.cmd = "data" /\ out = <<Second(host.f)>>

OutInv == \/ out = <<>>
          \/ host.st = "wait" /\ out = Packets(host.f)
          \/ Begun

\* A frame under way is the chunk the host has begun, or what a killed host left of one:
\* that takes a header for its next unit, if it did not already, and passes no CRC then.
RxInv ==
  bin_rx.st = "busy" =>
    /\ bin_rx.cmd = "data" /\ Len(bin_rx.got) \in 1..WIDTH
    /\ \/ Len(bin_rx.got) = 1 /\ Begun /\ bin_rx.got = <<<<host.f, 1>>>>
       \/ Len(bin_rx.got) = 1 /\ ~Begun
       \/ Len(bin_rx.got) > 1 /\ bin_rx.got[2][2] = 0

\* What is left of one answer to the command c.
OneAnswer(s, c) == \A i \in 1..Len(s) : s[i].cmd = c /\ (s[i].part = "crc" => i = Len(s))

\* The worker serves the frame in the buffer.
WorkInv ==
  /\ pc # "poll" => ready.full
  /\ pc \in Command => ready.cmd = pc
  /\ pc \in {"write", "finish", "last"} => ready.cmd = "data"
  /\ ans # <<>> => pc \in {"respond", "last"}
  /\ \A i \in 1..Len(err) : err[i].st = "crc"
  /\ OneAnswer(ans, ready.cmd)

\* The flash holds the chunks that were counted.
SessionInv ==
  /\ ota.open => /\ ota.st = "receiving" /\ Len(image) = ota.received
                 /\ \A n \in 1..ota.received : image[n] = Payload(Chunk(n))
  /\ pc \in {"write", "finish"} => ota.open
  /\ pc = "finish" => ota.received = CHUNKS
  /\ pc = "write" => ota.received < CHUNKS /\ half = Half
  /\ boot \in {<<>>, Whole}
  /\ ota.open /\ pc = "respond" /\ ready.cmd = "start" => ota.received = 0

\* A chunk in the buffer that is not written yet is the next one.
Unserved == ready.full /\ ready.cmd = "data" /\ pc \in {"poll", "data", "write"}
UnservedInv ==
  Unserved /\ ota.open => /\ ota.received < CHUNKS
                          /\ ready.buf = Payload(Chunk(ota.received + 1))

\* An OK to the command c, or the end of one, is among the pieces.
Ok(s, c) == \E i \in 1..Len(s) : s[i].cmd = c /\ s[i].st = "ok"
OkEnd(s, c) == \E i \in 1..Len(s) : s[i].cmd = c /\ s[i].st = "ok" /\ s[i].part = "crc"

\* The host has not sent all of its frame; the worker is still at the start that came
\* before the first chunk.
Unsent == host.st = "rest" \/ out # <<>>
Again == host.f.n = 1 /\ ready.cmd = "start"

\* While the host is at the chunk n, n - 1 chunks are written or n; while it has not sent
\* it no OK to a chunk is on the way; and one that is on the way to a host that waits
\* says that the chunk n is written.
ChunkInv ==
  host.st # "done" /\ host.f.cmd = "data" =>
    /\ host.acked = host.f.n - 1
    /\ ota.open => ota.received \in {host.f.n - 1, host.f.n}
    /\ ready.full => Returning \/ Again \/ ready.cmd = "data"
    /\ pc \in {"finish", "last"} => host.f.n = CHUNKS
    /\ Unserved \/ Unsent => (ota.open => ota.received = host.f.n - 1)
    /\ Unsent => ~Ok(ans, "data") /\ (ready.full => Returning \/ Again)
    /\ Unsent /\ host.st = "wait" => ~Ok(tx, "data")
    /\ host.st = "wait" /\ (Ok(ans, "data") \/ Ok(tx, "data")) =>
         /\ ota.open => ota.received = host.f.n
         /\ host.f.n = CHUNKS => boot = Whole
         /\ ready.full => ready.cmd = "data" /\ pc \in {"respond", "last"}
    /\ host.st = "wait" /\ OkEnd(tx, "data") => ans = <<>>

\* An OK to a start finds the session it opened, empty.
StartInv ==
  host.st = "wait" /\ host.f.cmd = "start" /\ Ok(tx, "start") =>
    /\ ready.full => ready.cmd = "start"
    /\ ota.open => ota.received = 0

HostInv == /\ host.st # "done" /\ host.f.cmd # "data" => host.acked = 0
           /\ host.st = "done" => boot = Whole

UpdateIInv == /\ UpdateTypeOK /\ OutInv /\ RxInv /\ WorkInv /\ SessionInv /\ UnservedInv
              /\ ChunkInv /\ StartInv /\ HostInv

-----------------------------------------------------------------------------
(* Lemmas about frames, packets and answers.                               *)

\* The frames a host sends.
LEMMA FrameShape ==
  ASSUME NEW f \in Frame
  PROVE  /\ f.cmd \in Command
         /\ f.cmd = "start" => f = Start /\ Width[f.cmd] = 1
         /\ f.cmd = "abort" => f = Abort /\ Width[f.cmd] = 0
         /\ f.cmd = "data" => f.n \in 1..CHUNKS /\ f = Chunk(f.n)
                            /\ Width[f.cmd] = WIDTH
  BY DEF Frame, Start, Abort, Chunk, Command, Width

LEMMA ChunkShape ==
  ASSUME NEW n \in 1..CHUNKS
  PROVE  Chunk(n) \in Frame /\ Chunk(n).cmd = "data" /\ Chunk(n).n = n
  BY DEF Frame, Chunk

LEMMA StartShape == /\ Start \in Frame /\ Start.cmd = "start"
                    /\ Abort \in Frame /\ Abort.cmd = "abort"
  BY DEF Frame, Start, Abort

\* A function on 1..n is a sequence of length n.
LEMMA FunctionIsSeq ==
  ASSUME NEW S, NEW n \in Nat, NEW s \in [1..n -> S]
  PROVE  s \in Seq(S) /\ Len(s) = n
  OBVIOUS

\* A frame is its header, its payload and its CRC, each unit with its place.
LEMMA UnitsShape ==
  ASSUME NEW f \in Frame
  PROVE  /\ Width[f.cmd] \in Nat
         /\ Units(f) \in Seq(Unit) /\ Len(Units(f)) = Width[f.cmd] + 2
         /\ \A i \in 1..(Width[f.cmd] + 2) : Units(f)[i] = <<f, i - 1>>
         /\ Payload(f) \in Seq(Unit) /\ Len(Payload(f)) = Width[f.cmd]
         /\ \A i \in 1..Width[f.cmd] : Payload(f)[i] = <<f, i>>
<1> DEFINE w == Width[f.cmd]
<1>1. w \in Nat BY FrameShape, CdcAssumption DEF Command
<1> HIDE DEF w
<1>2. Units(f) = [i \in 1..(w + 2) |-> <<f, i - 1>>] BY DEF Units, w
<1>3. Payload(f) = [i \in 1..w |-> <<f, i>>] BY DEF Payload, w
<1>4. Units(f) \in [1..(w + 2) -> Unit] BY <1>1, <1>2 DEF Unit
<1>5. Payload(f) \in [1..w -> Unit] BY <1>1, <1>3 DEF Unit
<1>6. Units(f) \in Seq(Unit) /\ Len(Units(f)) = w + 2 BY <1>1, <1>4, FunctionIsSeq
<1>7. Payload(f) \in Seq(Unit) /\ Len(Payload(f)) = w BY <1>1, <1>5, FunctionIsSeq
<1> QED BY <1>1, <1>2, <1>3, <1>6, <1>7 DEF w

\* The two packets of a chunk: the header and one unit, then the rest.
LEMMA PacketShape ==
  ASSUME NEW f \in Frame, f.cmd = "data"
  PROVE  /\ First(f) \in Seq(Unit) /\ Len(First(f)) = 2
         /\ First(f)[1] = <<f, 0>> /\ First(f)[2] = <<f, 1>>
         /\ Second(f) \in Seq(Unit) /\ Len(Second(f)) = WIDTH
         /\ \A i \in 1..WIDTH : Second(f)[i] = <<f, i + 1>>
         /\ Packets(f) = <<First(f), Second(f)>>
<1>1. Width[f.cmd] = WIDTH BY FrameShape
<1>2. Units(f) \in Seq(Unit) /\ Len(Units(f)) = WIDTH + 2
      /\ \A i \in 1..(WIDTH + 2) : Units(f)[i] = <<f, i - 1>>
  BY <1>1, UnitsShape
<1>3. Packets(f) = <<First(f), Second(f)>> BY DEF Packets, First, Second
<1>4. First(f) \in Seq(Unit) /\ Len(First(f)) = 2 /\ First(f)[1] = Units(f)[1]
      /\ First(f)[2] = Units(f)[2]
  BY <1>2, CdcAssumption DEF First
<1>5. Second(f) \in Seq(Unit) /\ Len(Second(f)) = WIDTH
      /\ \A i \in 1..WIDTH : Second(f)[i] = Units(f)[i + 2]
  <2> DEFINE u == Units(f)
  <2>1. u \in Seq(Unit) /\ Len(u) = WIDTH + 2 BY <1>2
  <2>2. Second(f) = SubSeq(u, 3, WIDTH + 2) BY DEF Second
  <2> HIDE DEF u
  <2>3. SubSeq(u, 3, WIDTH + 2) \in Seq(Unit) /\ Len(SubSeq(u, 3, WIDTH + 2)) = WIDTH
    BY <2>1, CdcAssumption
  <2>4. \A i \in 1..WIDTH : SubSeq(u, 3, WIDTH + 2)[i] = u[i + 2]
    BY <2>1, CdcAssumption
  <2> QED BY <2>2, <2>3, <2>4 DEF u
<1> QED BY <1>2, <1>3, <1>4, <1>5, CdcAssumption

\* Fill goes on where the payload stopped and ends it at its width.
LEMMA FillShape ==
  ASSUME NEW cmd \in Command, NEW w, w = Width[cmd],
         NEW old \in Seq(Unit), NEW n, n = Len(old), n <= w,
         NEW body \in Seq(Unit), NEW a, a = Fill(cmd, old, body)
  PROVE  /\ a.cmd = cmd /\ a.got \in Seq(Unit)
         /\ Len(a.got) = IF Len(body) <= w - n THEN n + Len(body) ELSE w
         /\ \A i \in 1..Len(a.got) : a.got[i] = IF i <= n THEN old[i] ELSE body[i - n]
         /\ a.end = IF Len(body) <= w - n THEN "no"
                    ELSE IF CrcFits(a.got, body[w - n + 1]) THEN "frame" ELSE "bad"
<1> DEFINE room == w - n
           k    == IF Len(body) <= room THEN Len(body) ELSE room
           q    == SubSeq(body, 1, k)
           got  == old \o q
<1>1. w \in Nat BY CdcAssumption DEF Width, Command
<1>2. a = [cmd |-> cmd, got |-> got,
           end |-> IF Len(body) <= room THEN "no"
                   ELSE IF CrcFits(got, body[room + 1]) THEN "frame" ELSE "bad"]
  BY DEF Fill
<1>3. n \in Nat OBVIOUS
<1>4. room \in Nat /\ k \in 0..Len(body) /\ k \in Int BY <1>1, <1>3
<1>5. n + k = IF Len(body) <= room THEN n + Len(body) ELSE w BY <1>1, <1>3
<1> HIDE DEF k
<1>6. q \in Seq(Unit) /\ Len(q) = k /\ \A i \in 1..k : q[i] = body[i] BY <1>4
<1> HIDE DEF q
<1>7. got \in Seq(Unit) /\ Len(got) = n + k
      /\ \A i \in 1..(n + k) : got[i] = IF i <= n THEN old[i] ELSE q[i - n]
  BY <1>4, <1>6, ConcatProperties
<1> HIDE DEF got
<1>8. \A i \in 1..Len(got) : got[i] = IF i <= n THEN old[i] ELSE body[i - n]
  <2> SUFFICES ASSUME NEW i \in 1..Len(got), ~(i <= n) PROVE q[i - n] = body[i - n]
    BY <1>7
  <2>1. i - n \in 1..k BY <1>3, <1>4, <1>7
  <2> QED BY <2>1, <1>6
<1> QED BY <1>2, <1>5, <1>7, <1>8

\* The same for a chunk, whose width is WIDTH.
LEMMA FillChunk ==
  ASSUME NEW old \in Seq(Unit), Len(old) <= WIDTH, NEW body \in Seq(Unit),
         NEW a, a = Fill("data", old, body)
  PROVE  /\ a.cmd = "data" /\ a.got \in Seq(Unit)
         /\ Len(a.got) = IF Len(body) <= WIDTH - Len(old)
                         THEN Len(old) + Len(body) ELSE WIDTH
         /\ \A i \in 1..Len(a.got) :
              a.got[i] = IF i <= Len(old) THEN old[i] ELSE body[i - Len(old)]
         /\ a.end = IF Len(body) <= WIDTH - Len(old) THEN "no"
                    ELSE IF CrcFits(a.got, body[WIDTH - Len(old) + 1])
                         THEN "frame" ELSE "bad"
<1> DEFINE c == "data"
           w == WIDTH
<1>1. Width[c] = w /\ c \in Command /\ Len(old) <= w /\ a = Fill(c, old, body)
  BY DEF Width, Command
<1> HIDE DEF c, w
<1>2. /\ a.cmd = c /\ a.got \in Seq(Unit)
      /\ Len(a.got) = IF Len(body) <= w - Len(old) THEN Len(old) + Len(body) ELSE w
      /\ \A i \in 1..Len(a.got) :
           a.got[i] = IF i <= Len(old) THEN old[i] ELSE body[i - Len(old)]
      /\ a.end = IF Len(body) <= w - Len(old) THEN "no"
                 ELSE IF CrcFits(a.got, body[w - Len(old) + 1]) THEN "frame" ELSE "bad"
  BY <1>1, FillShape
<1> QED BY <1>2 DEF c, w

LEMMA PayloadEqual ==
  ASSUME NEW f \in Frame, NEW got \in Seq(Unit), Len(got) = Width[f.cmd],
         \A i \in 1..Len(got) : got[i] = <<f, i>>
  PROVE  got = Payload(f)
<1>1. Payload(f) \in Seq(Unit) /\ Len(Payload(f)) = Len(got)
      /\ \A i \in 1..Len(got) : Payload(f)[i] = got[i]
  BY UnitsShape
<1> QED BY <1>1, SeqEqual

\* A frame in one packet, into an idle receiver, is that frame.
LEMMA FeedWhole ==
  ASSUME NEW f \in Frame, f.cmd # "data", bin_rx.st = "idle"
  PROVE  LET a == Feed(Units(f))
         IN  a.end = "frame" /\ a.cmd = f.cmd /\ a.got = Payload(f)
<1> DEFINE p == Units(f)
           w == Width[f.cmd]
           b == Tail(p)
           e == <<>>
           a == Fill(f.cmd, e, b)
<1>1. w \in Nat /\ p \in Seq(Unit) /\ Len(p) = w + 2
      /\ \A i \in 1..(w + 2) : p[i] = <<f, i - 1>>
  BY UnitsShape
<1>2. f.cmd \in Command BY FrameShape
<1>3. Feed(p) = Fill(p[1][1].cmd, <<>>, b) /\ p[1] = <<f, 0>> BY <1>1 DEF Feed
<1>4. Feed(p) = a BY <1>3
<1> HIDE DEF p
<1>5. w = Width[f.cmd] OBVIOUS
<1> HIDE DEF w
<1>6. a = Fill(f.cmd, e, b) OBVIOUS
<1>7. b \in Seq(Unit) /\ Len(b) = w + 1 /\ \A i \in 1..(w + 1) : b[i] = <<f, i>>
  <2>1. b \in Seq(Unit) /\ Len(b) = w + 1 BY <1>1
  <2>2. \A i \in 1..(w + 1) : b[i] = p[i + 1] BY <1>1
  <2> QED BY <1>1, <2>1, <2>2
<1>8. e \in Seq(Unit) /\ Len(e) = 0 /\ Len(e) <= w BY <1>1
<1> HIDE DEF b, a, e
<1>9. b \in Seq(Unit) /\ e \in Seq(Unit) /\ Len(e) <= w BY <1>7, <1>8
<1>10. /\ a.cmd = f.cmd /\ a.got \in Seq(Unit)
       /\ Len(a.got) = IF Len(b) <= w - Len(e) THEN Len(e) + Len(b) ELSE w
       /\ \A i \in 1..Len(a.got) : a.got[i] = IF i <= Len(e) THEN e[i] ELSE b[i - Len(e)]
       /\ a.end = IF Len(b) <= w - Len(e) THEN "no"
                  ELSE IF CrcFits(a.got, b[w - Len(e) + 1]) THEN "frame" ELSE "bad"
  BY <1>2, <1>9, <1>5, <1>6, FillShape
<1>11. /\ a.cmd = f.cmd /\ a.got \in Seq(Unit)
       /\ Len(a.got) = w /\ \A i \in 1..Len(a.got) : a.got[i] = b[i]
       /\ a.end = IF CrcFits(a.got, b[w + 1]) THEN "frame" ELSE "bad"
  BY <1>1, <1>7, <1>8, <1>10
<1>12. Len(a.got) = w /\ \A i \in 1..Len(a.got) : a.got[i] = <<f, i>>
  BY <1>1, <1>7, <1>11
<1>13. a.got = Payload(f) BY <1>11, <1>12, <1>5, PayloadEqual
<1>14. b[w + 1] = <<f, w + 1>> BY <1>1, <1>7
<1>15. CrcFits(a.got, b[w + 1]) BY <1>13, <1>14, <1>5 DEF CrcFits
<1> QED BY <1>4, <1>11, <1>13, <1>14, <1>15 DEF p

\* The first packet of a chunk begins one.
LEMMA FeedFirst ==
  ASSUME NEW f \in Frame, f.cmd = "data", bin_rx.st = "idle"
  PROVE  LET a == Feed(First(f))
         IN  a.end = "no" /\ a.cmd = "data" /\ a.got = <<<<f, 1>>>>
<1> DEFINE p == First(f)
           b == Tail(p)
           e == <<>>
           a == Fill("data", e, b)
<1>1. p \in Seq(Unit) /\ Len(p) = 2 /\ p[1] = <<f, 0>> /\ p[2] = <<f, 1>>
      /\ Width["data"] = WIDTH
  BY PacketShape, FrameShape
<1>2. Feed(p) = a BY <1>1 DEF Feed
<1> HIDE DEF p
<1>3. b \in Seq(Unit) /\ Len(b) = 1 /\ b[1] = <<f, 1>> BY <1>1
<1>4. e \in Seq(Unit) /\ Len(e) = 0 /\ Len(e) <= WIDTH /\ "data" \in Command
  BY CdcAssumption DEF Command
<1>5. a = Fill("data", e, b) OBVIOUS
<1> HIDE DEF b, a, e
<1>6. b \in Seq(Unit) /\ e \in Seq(Unit) /\ Len(e) <= WIDTH /\ "data" \in Command
      /\ Width["data"] = WIDTH /\ Len(b) \in Nat
  BY <1>1, <1>3, <1>4
<1>7. /\ a.cmd = "data" /\ a.got \in Seq(Unit)
      /\ Len(a.got) = IF Len(b) <= WIDTH - Len(e) THEN Len(e) + Len(b) ELSE WIDTH
      /\ \A i \in 1..Len(a.got) : a.got[i] = IF i <= Len(e) THEN e[i] ELSE b[i - Len(e)]
      /\ a.end = IF Len(b) <= WIDTH - Len(e) THEN "no"
                 ELSE IF CrcFits(a.got, b[WIDTH - Len(e) + 1]) THEN "frame" ELSE "bad"
  BY <1>5, <1>6, FillChunk
<1>8. a.end = "no" /\ Len(a.got) = 1 /\ a.got[1] = <<f, 1>>
  BY <1>3, <1>4, <1>7, CdcAssumption
<1>9. a.got = <<<<f, 1>>>>
  <2> DEFINE s == <<<<f, 1>>>>
  <2>1. s \in Seq(Unit) /\ Len(s) = 1 /\ s[1] = <<f, 1>> BY DEF Unit
  <2> HIDE DEF s
  <2>2. \A i \in 1..Len(s) : s[i] = a.got[i] BY <2>1, <1>8
  <2>3. s = a.got BY <2>1, <2>2, <1>7, <1>8, SeqEqual
  <2> QED BY <2>3 DEF s
<1> QED BY <1>2, <1>7, <1>8, <1>9 DEF p

\* The second packet alone begins nothing.
LEMMA FeedStray ==
  ASSUME NEW f \in Frame, f.cmd = "data", bin_rx.st = "idle"
  PROVE  Feed(Second(f)).end = "stray"
<1>1. Second(f)[1] = <<f, 2>> BY PacketShape, CdcAssumption
<1> QED BY <1>1 DEF Feed

\* The second packet after the first is the chunk.
LEMMA FeedSecond ==
  ASSUME NEW f \in Frame, f.cmd = "data"
  PROVE  LET a == Fill("data", <<<<f, 1>>>>, Second(f))
         IN  a.end = "frame" /\ a.cmd = "data" /\ a.got = Payload(f)
<1> DEFINE p == Second(f)
           s == <<<<f, 1>>>>
           a == Fill("data", s, p)
<1>1. p \in Seq(Unit) /\ Len(p) = WIDTH /\ \A i \in 1..WIDTH : p[i] = <<f, i + 1>>
  BY PacketShape
<1>2. s \in Seq(Unit) /\ Len(s) = 1 /\ s[1] = <<f, 1>> BY DEF Unit
<1>3. Width["data"] = WIDTH /\ Width[f.cmd] = WIDTH /\ "data" \in Command
  BY DEF Width, Command
<1>4. a = Fill("data", s, p) OBVIOUS
<1> HIDE DEF p, s, a
<1>5. Len(s) <= WIDTH BY <1>2, CdcAssumption
<1>6. p \in Seq(Unit) /\ s \in Seq(Unit) /\ Len(s) <= WIDTH /\ "data" \in Command
      /\ Width["data"] = WIDTH /\ Len(p) \in Nat
  BY <1>1, <1>2, <1>3, <1>5
<1>7. /\ a.cmd = "data" /\ a.got \in Seq(Unit)
      /\ Len(a.got) = IF Len(p) <= WIDTH - Len(s) THEN Len(s) + Len(p) ELSE WIDTH
      /\ \A i \in 1..Len(a.got) : a.got[i] = IF i <= Len(s) THEN s[i] ELSE p[i - Len(s)]
      /\ a.end = IF Len(p) <= WIDTH - Len(s) THEN "no"
                 ELSE IF CrcFits(a.got, p[WIDTH - Len(s) + 1]) THEN "frame" ELSE "bad"
  BY <1>4, <1>6, FillChunk
<1>8. /\ a.cmd = "data" /\ a.got \in Seq(Unit) /\ Len(a.got) = WIDTH
      /\ \A i \in 1..Len(a.got) : a.got[i] = IF i <= 1 THEN s[i] ELSE p[i - 1]
      /\ a.end = IF CrcFits(a.got, p[WIDTH - 1 + 1]) THEN "frame" ELSE "bad"
  BY <1>1, <1>2, <1>7, CdcAssumption
<1>9. Len(a.got) = WIDTH BY <1>8
<1>10. \A i \in 1..Len(a.got) : a.got[i] = <<f, i>>
  <2> SUFFICES ASSUME NEW i \in 1..WIDTH PROVE a.got[i] = <<f, i>> BY <1>9
  <2>1. CASE i = 1
    <3>1. a.got[i] = s[i] BY <2>1, <1>8, <1>9
    <3> QED BY <2>1, <3>1, <1>2
  <2>2. CASE i # 1
    <3>1. i - 1 \in 1..WIDTH /\ (i - 1) + 1 = i /\ ~(i <= 1) BY <2>2, CdcAssumption
    <3> QED BY <3>1, <1>1, <1>2, <1>8, <1>9
  <2> QED BY <2>1, <2>2
<1>11. a.got = Payload(f) BY <1>3, <1>8, <1>9, <1>10, PayloadEqual
<1>12. p[WIDTH - 1 + 1] = <<f, WIDTH + 1>>
  <2>1. WIDTH - 1 + 1 = WIDTH /\ WIDTH \in 1..WIDTH BY CdcAssumption
  <2> QED BY <2>1, <1>1
<1>13. CrcFits(a.got, p[WIDTH - 1 + 1]) BY <1>3, <1>11, <1>12 DEF CrcFits
<1> QED BY <1>8, <1>9, <1>11, <1>13 DEF a, p, s

\* A payload that holds a header passes no CRC, and stays spoilt.
LEMMA FeedSpoilt ==
  ASSUME NEW p \in Seq(Unit), Len(p) > 0,
         bin_rx.st = "busy", bin_rx.cmd = "data", bin_rx.got \in Seq(Unit),
         Len(bin_rx.got) \in 1..WIDTH,
         IF Len(bin_rx.got) = 1 THEN p[1][2] = 0 ELSE bin_rx.got[2][2] = 0
  PROVE  LET a == Feed(p)
         IN  /\ a.end \in {"no", "bad"} /\ a.cmd = "data"
             /\ a.end = "no" => /\ a.got \in Seq(Unit)
                                /\ Len(a.got) \in 2..WIDTH /\ a.got[2][2] = 0
<1> DEFINE old  == bin_rx.got
           a    == Fill("data", old, p)
           room == WIDTH - Len(old)
<1>1. Feed(p) = a BY DEF Feed
<1>2. Width["data"] = WIDTH /\ "data" \in Command BY DEF Width, Command
<1>3. old \in Seq(Unit) /\ Len(old) \in 1..WIDTH
      /\ (IF Len(old) = 1 THEN p[1][2] = 0 ELSE old[2][2] = 0)
  OBVIOUS
<1>4. a = Fill("data", old, p) OBVIOUS
<1>5. Len(old) <= WIDTH /\ Len(old) \in Nat /\ (Len(old) # 1 => 2 <= Len(old))
  <2> DEFINE n == Len(old)
  <2>1. n \in 1..WIDTH BY <1>3
  <2> HIDE DEF n
  <2>2. n <= WIDTH /\ n \in Nat /\ (n # 1 => 2 <= n) BY <2>1, CdcAssumption
  <2> QED BY <2>2 DEF n
<1> HIDE DEF old, a
<1>6. /\ a.cmd = "data" /\ a.got \in Seq(Unit)
      /\ Len(a.got) = IF Len(p) <= room THEN Len(old) + Len(p) ELSE WIDTH
      /\ \A i \in 1..Len(a.got) :
           a.got[i] = IF i <= Len(old) THEN old[i] ELSE p[i - Len(old)]
      /\ a.end = IF Len(p) <= room THEN "no"
                 ELSE IF CrcFits(a.got, p[room + 1]) THEN "frame" ELSE "bad"
  BY <1>3, <1>4, <1>5, FillChunk
<1>7. Len(a.got) \in 2..WIDTH BY <1>3, <1>6, CdcAssumption
<1>8. a.got[2][2] = 0
  <2>1. 2 \in 1..Len(a.got) BY <1>7, CdcAssumption
  <2>2. CASE Len(old) = 1 BY <2>1, <2>2, <1>3, <1>6
  <2>3. CASE Len(old) # 1
    <3>1. 2 <= Len(old) BY <2>3, <1>5
    <3> QED BY <2>1, <2>3, <3>1, <1>3, <1>6
  <2> QED BY <2>2, <2>3
<1>9. ASSUME NEW u \in Unit PROVE ~CrcFits(a.got, u)
  <2> SUFFICES ASSUME a.got = Payload(u[1]) PROVE FALSE BY DEF CrcFits
  <2>1. u[1] \in Frame BY DEF Unit
  <2>2. Len(a.got) = Width[u[1].cmd]
        /\ \A i \in 1..Width[u[1].cmd] : a.got[i] = <<u[1], i>>
    BY <2>1, UnitsShape
  <2>3. a.got[2] = <<u[1], 2>> BY <2>2, <1>7, CdcAssumption
  <2> QED BY <2>3, <1>8
<1>10. ~(Len(p) <= room) => p[room + 1] \in Unit
  <2> SUFFICES ASSUME ~(Len(p) <= room) PROVE room + 1 \in 1..Len(p) OBVIOUS
  <2> QED BY <1>3, CdcAssumption
<1> QED BY <1>1, <1>6, <1>7, <1>8, <1>9, <1>10

\* The pieces of an answer: a header first, a CRC last, all of one command and status.
LEMMA AnswerShape ==
  ASSUME NEW cmd \in Command, NEW st \in Status
  PROVE  /\ Answer(cmd, st) \in Seq(Piece) /\ Len(Answer(cmd, st)) \in {2, 3}
         /\ Answer(cmd, st) # <<>>
         /\ \A i \in 1..Len(Answer(cmd, st)) :
              /\ Answer(cmd, st)[i].cmd = cmd /\ Answer(cmd, st)[i].st = st
              /\ Answer(cmd, st)[i].part = "crc" => i = Len(Answer(cmd, st))
         /\ Answer(cmd, st)[1].part = "hdr"
         /\ Answer(cmd, st)[Len(Answer(cmd, st))].part = "crc"
         /\ Len(Answer(cmd, st)) = IF st = "ok" /\ cmd # "abort" THEN 3 ELSE 2
<1> DEFINE h == [cmd |-> cmd, st |-> st, part |-> "hdr"]
           p == [cmd |-> cmd, st |-> st, part |-> "pay"]
           c == [cmd |-> cmd, st |-> st, part |-> "crc"]
<1>1. Answer(cmd, st) = IF st = "ok" /\ cmd # "abort" THEN <<h, p, c>> ELSE <<h, c>>
  BY DEF Answer
<1>2. h \in Piece /\ p \in Piece /\ c \in Piece BY DEF Piece
<1>3. /\ h.cmd = cmd /\ h.st = st /\ h.part = "hdr"
      /\ p.cmd = cmd /\ p.st = st /\ p.part = "pay"
      /\ c.cmd = cmd /\ c.st = st /\ c.part = "crc"
  OBVIOUS
<1> HIDE DEF h, p, c
<1> QED BY <1>1, <1>2, <1>3

\* Whatever the receiver had begun, a packet of the host gives ready_frame its whole frame
\* or nothing.
LEMMA FeedDelivers ==
  ASSUME UpdateTypeOK, OutInv, RxInv, KsRxFeed
  PROVE  /\ bin_rx' \in RxState
         /\ err' \in Seq(Piece) /\ (\A i \in 1..Len(err') : err'[i].st = "crc")
         /\ OutInv' /\ RxInv' /\ host.st = "wait" /\ host' = host
         /\ \/ ready' = ready
            \/ /\ ~ready.full /\ out' = <<>> /\ ready' \in ReadyFrame
               /\ ready'.full /\ ready'.cmd = host.f.cmd
               /\ host.f.cmd = "data" => ready'.buf = Payload(host.f)
<1> DEFINE f == host.f
           p == Head(out)
           a == Feed(p)
<1>1. /\ f \in Frame /\ host' = host /\ out # <<>> /\ out' = Tail(out)
      /\ bin_rx \in RxState
      /\ ready \in ReadyFrame
  BY DEF KsRxFeed, UpdateTypeOK
<1>2. /\ bin_rx' = IF a.end = "no" THEN [st |-> "busy", cmd |-> a.cmd, got |-> a.got]
                ELSE RxIdle
      /\ ready' = HandOver(a, ready)
      /\ err' = IF a.end = "bad" THEN Answer(a.cmd, "crc") ELSE <<>>
  BY DEF KsRxFeed
<1>3. host.st = "wait" BY <1>1 DEF OutInv, Begun
<1> DEFINE Done   == /\ a.end = "frame" /\ a.cmd = f.cmd
                     /\ a.got = Payload(f) /\ out' = <<>>
           Begins == /\ f.cmd = "data" /\ a.end = "no" /\ a.cmd = "data"
                     /\ a.got = <<<<f, 1>>>> /\ out' = <<Second(f)>>
           Spoilt == /\ a.end \in {"no", "bad"} /\ a.cmd = "data"
                     /\ a.end = "no" => /\ a.got \in Seq(Unit)
                                        /\ Len(a.got) \in 2..WIDTH /\ a.got[2][2] = 0
                     /\ out' = <<>> \/ (f.cmd = "data" /\ out' = <<Second(f)>>)
           Stray  == a.end = "stray" /\ out' = <<>>
<1>4. Done \/ Begins \/ Spoilt \/ Stray
  <2>1. CASE out = Packets(f) /\ f.cmd # "data"
    <3>1. out = <<Units(f)>> BY <2>1 DEF Packets
    <3>2. p = Units(f) /\ out' = <<>> BY <3>1, <1>1
    <3>3. CASE bin_rx.st = "idle" BY <2>1, <3>2, <3>3, <1>1, FeedWhole
    <3>4. CASE bin_rx.st = "busy"
      <4>1. /\ Width[f.cmd] \in Nat /\ Units(f) \in Seq(Unit)
            /\ Len(Units(f)) = Width[f.cmd] + 2
            /\ \A i \in 1..(Width[f.cmd] + 2) : Units(f)[i] = <<f, i - 1>>
        BY <1>1, UnitsShape
      <4>2. p \in Seq(Unit) /\ Len(p) > 0 /\ p[1][2] = 0 BY <4>1, <3>2
      <4>3. ~Begun BY <2>1 DEF Begun
      <4>4. Spoilt BY <4>2, <4>3, <3>2, <3>4, <1>1, FeedSpoilt DEF RxInv
      <4> QED BY <4>4
    <3> QED BY <3>3, <3>4, <1>1
  <2>2. CASE out = Packets(f) /\ f.cmd = "data"
    <3>1. out = <<First(f), Second(f)>> BY <2>2, <1>1, PacketShape
    <3>2. p = First(f) /\ out' = <<Second(f)>> BY <3>1, <1>1
    <3>3. CASE bin_rx.st = "idle" BY <2>2, <3>2, <3>3, <1>1, FeedFirst
    <3>4. CASE bin_rx.st = "busy"
      <4>1. p \in Seq(Unit) /\ Len(p) > 0 /\ p[1][2] = 0
        BY <2>2, <3>2, <1>1, PacketShape
      <4>2. ~Begun BY <3>1 DEF Begun
      <4>3. Spoilt BY <4>1, <4>2, <2>2, <3>2, <3>4, <1>1, FeedSpoilt DEF RxInv
      <4> QED BY <4>3
    <3> QED BY <3>3, <3>4, <1>1
  <2>3. CASE f.cmd = "data" /\ out = <<Second(f)>>
    <3>1. p = Second(f) /\ out' = <<>> BY <2>3, <1>1
    <3>2. CASE bin_rx.st = "idle" BY <2>3, <3>1, <3>2, <1>1, FeedStray
    <3>3. CASE bin_rx.st = "busy" /\ Len(bin_rx.got) = 1
      <4>1. bin_rx.cmd = "data" /\ bin_rx.got = <<<<f, 1>>>>
        BY <2>3, <3>3, <1>3 DEF RxInv, Begun
      <4>2. a = Fill("data", <<<<f, 1>>>>, Second(f)) BY <3>1, <3>3, <4>1 DEF Feed
      <4> QED BY <4>2, <2>3, <3>1, <1>1, FeedSecond
    <3>4. CASE bin_rx.st = "busy" /\ Len(bin_rx.got) # 1
      <4>1. p \in Seq(Unit) /\ Len(p) > 0
        BY <2>3, <3>1, <1>1, PacketShape, CdcAssumption
      <4>2. Spoilt BY <4>1, <3>1, <3>4, <1>1, FeedSpoilt DEF RxInv
      <4> QED BY <4>2
    <3> QED BY <3>2, <3>3, <3>4, <1>1
  <2> QED BY <2>1, <2>2, <2>3, <1>1 DEF OutInv, Begun
<1>5. CASE Done
  <2>1. Len(a.got) = Width[f.cmd] /\ a.got \in Seq(Unit)
        /\ \A i \in 1..Width[f.cmd] : a.got[i] = <<f, i>>
    BY <1>5, <1>1, UnitsShape
  <2>2. bin_rx' = RxIdle /\ err' = <<>> BY <1>2, <1>5
  <2>3. CASE ready.full
    <3>1. ready' = ready BY <2>3, <1>2 DEF HandOver
    <3> QED BY <3>1, <2>2, <1>1, <1>3, <1>5 DEF RxIdle, OutInv, RxInv, Command
  <2>4. CASE ~ready.full
    <3> DEFINE b == [i \in 1..WIDTH |-> IF i <= Len(a.got) THEN a.got[i]
                                        ELSE ready.buf[i]]
    <3>1. ready' = [full |-> TRUE, cmd |-> f.cmd, buf |-> b]
      BY <2>4, <1>2, <1>5 DEF HandOver
    <3>2. b \in Buffer
      <4> DEFINE got == a.got
                 buf == ready.buf
      <4>1. (\A i \in 1..Len(got) : got[i] \in Unit) /\ Len(got) \in Nat
        BY <2>1, ElementOfSeq
      <4>2. \A i \in 1..WIDTH : buf[i] \in Unit BY <1>1 DEF Buffer
      <4> HIDE DEF got, buf
      <4>3. [i \in 1..WIDTH |-> IF i <= Len(got) THEN got[i] ELSE buf[i]]
               \in [1..WIDTH -> Unit]
        BY <4>1, <4>2, CdcAssumption
      <4> QED BY <4>3 DEF got, buf, Buffer
    <3>3. f.cmd = "data" => b = Payload(f) BY <1>1, <2>1, FrameShape DEF Payload
    <3> HIDE DEF b
    <3>4. f.cmd \in Command BY <1>1, FrameShape
    <3> QED
      BY <3>1, <3>2, <3>3, <3>4, <2>2, <2>4, <1>1, <1>3, <1>5
         DEF RxIdle, OutInv, RxInv, Command
  <2> QED BY <2>3, <2>4
<1>6. CASE Begins
  <2>1. ready' = ready /\ err' = <<>> BY <1>2, <1>6 DEF HandOver
  <2>2. bin_rx' = [st |-> "busy", cmd |-> "data", got |-> <<<<f, 1>>>>] BY <1>2, <1>6
  <2>3. <<<<f, 1>>>> \in Seq(Unit) /\ Len(<<<<f, 1>>>>) = 1 BY <1>1 DEF Unit
  <2>4. OutInv' BY <1>1, <1>3, <1>6 DEF OutInv, Begun
  <2>5. Begun' BY <1>1, <1>3, <1>6 DEF Begun
  <2>6. RxInv' BY <2>2, <2>3, <2>5, <1>1, CdcAssumption DEF RxInv
  <2> QED BY <2>1, <2>2, <2>3, <2>4, <2>6, <1>1, <1>3 DEF Command
<1>7. CASE Spoilt
  <2>1. ready' = ready BY <1>2, <1>7 DEF HandOver
  <2>2. err' \in Seq(Piece) /\ \A i \in 1..Len(err') : err'[i].st = "crc"
    <3>1. /\ Answer("data", "crc") \in Seq(Piece)
          /\ \A i \in 1..Len(Answer("data", "crc")) :
               Answer("data", "crc")[i].st = "crc"
      BY AnswerShape DEF Command
    <3> QED BY <3>1, <1>2, <1>7
  <2>3. OutInv' BY <1>1, <1>3, <1>7 DEF OutInv, Begun
  <2>4. CASE a.end = "no"
    <3>1. bin_rx' = [st |-> "busy", cmd |-> "data", got |-> a.got] BY <1>2, <1>7, <2>4
    <3>2. Len(a.got) > 1 /\ Len(a.got) \in 1..WIDTH BY <1>7, <2>4, CdcAssumption
    <3>3. RxInv' BY <3>1, <3>2, <1>7, <2>4 DEF RxInv
    <3> QED BY <3>1, <3>3, <2>1, <2>2, <2>3, <2>4, <1>1, <1>3, <1>7 DEF Command
  <2>5. CASE a.end = "bad"
    <3>1. bin_rx' = RxIdle BY <1>2, <2>5
    <3> QED BY <3>1, <2>1, <2>2, <2>3, <1>1, <1>3 DEF RxInv, RxIdle, Command
  <2> QED BY <2>4, <2>5, <1>7
<1>8. CASE Stray
  <2>1. ready' = ready /\ err' = <<>> /\ bin_rx' = RxIdle BY <1>2, <1>8 DEF HandOver
  <2> QED BY <2>1, <1>1, <1>3, <1>8 DEF RxInv, RxIdle, OutInv, Command
<1> QED BY <1>4, <1>5, <1>6, <1>7, <1>8

\* What Ok and OkEnd say of the sequences that the answers go through.
LEMMA OkEmpty == ASSUME NEW c PROVE ~Ok(<<>>, c) /\ ~OkEnd(<<>>, c)
  BY DEF Ok, OkEnd

LEMMA OkAnswer ==
  ASSUME NEW cmd \in Command, NEW st \in Status, NEW c, cmd # c \/ st # "ok"
  PROVE  ~Ok(Answer(cmd, st), c)
  BY AnswerShape DEF Ok

LEMMA OkTail ==
  ASSUME NEW s \in Seq(Piece), s # <<>>, NEW c
  PROVE  Tail(s) \in Seq(Piece)
         /\ (Ok(Tail(s), c) => Ok(s, c)) /\ (OkEnd(Tail(s), c) => OkEnd(s, c))
<1>1. Tail(s) \in Seq(Piece) /\ Len(Tail(s)) = Len(s) - 1 /\ Len(s) \in Nat
      /\ \A i \in 1..Len(Tail(s)) : Tail(s)[i] = s[i + 1]
  BY HeadTailProperties
<1>2. \A i \in 1..Len(Tail(s)) : i + 1 \in 1..Len(s) BY <1>1
<1> QED BY <1>1, <1>2 DEF Ok, OkEnd

LEMMA OkRest ==
  ASSUME NEW s \in Seq(Piece), NEW k \in 1..Len(s), NEW c,
         NEW r, r = SubSeq(s, k + 1, Len(s))
  PROVE  r \in Seq(Piece) /\ (Ok(r, c) => Ok(s, c)) /\ (OkEnd(r, c) => OkEnd(s, c))
<1>1. Len(s) \in Nat /\ \A i \in 1..Len(s) : s[i] \in Piece BY ElementOfSeq
<1>2. r \in Seq(Piece) /\ Len(r) = Len(s) - k
      /\ \A i \in 1..(Len(s) - k) : r[i] = s[k + i]
  BY <1>1
<1>3. \A i \in 1..Len(r) : k + i \in 1..Len(s) BY <1>1, <1>2
<1>4. Ok(r, c) => Ok(s, c) BY <1>2, <1>3 DEF Ok
<1>5. OkEnd(r, c) => OkEnd(s, c) BY <1>2, <1>3 DEF OkEnd
<1> QED BY <1>2, <1>4, <1>5

LEMMA OkAppend ==
  ASSUME NEW s \in Seq(Piece), NEW e \in Piece, NEW c
  PROVE  /\ Append(s, e) \in Seq(Piece)
         /\ Ok(Append(s, e), c) => Ok(s, c) \/ (e.cmd = c /\ e.st = "ok")
         /\ OkEnd(Append(s, e), c) =>
              OkEnd(s, c) \/ (e.cmd = c /\ e.st = "ok" /\ e.part = "crc")
<1>1. /\ Append(s, e) \in Seq(Piece) /\ Len(Append(s, e)) = Len(s) + 1 /\ Len(s) \in Nat
      /\ \A i \in 1..Len(s) : Append(s, e)[i] = s[i]
      /\ Append(s, e)[Len(s) + 1] = e
  BY AppendProperties
<1>2. \A i \in 1..Len(Append(s, e)) : i \in 1..Len(s) \/ i = Len(s) + 1 BY <1>1
<1> QED BY <1>1, <1>2 DEF Ok, OkEnd

LEMMA OkHead ==
  ASSUME NEW s \in Seq(Piece), s # <<>>, NEW c
  PROVE  /\ Head(s) \in Piece /\ Head(s) = s[1] /\ Len(s) \in Nat /\ Len(s) >= 1
         /\ Head(s).cmd = c /\ Head(s).st = "ok" => Ok(s, c)
<1>1. Head(s) \in Piece /\ Head(s) = s[1] /\ Len(s) \in Nat /\ Len(s) >= 1
  BY HeadTailProperties, EmptySeq
<1>2. 1 \in 1..Len(s) BY <1>1
<1> QED BY <1>1, <1>2 DEF Ok

\* RxAnswer keeps the invariant: it writes of an ERR_CRC, which acknowledges nothing.
LEMMA RxAnswerKeeps ==
  ASSUME UpdateIInv, RxAnswer
  PROVE  UpdateIInv'
<1> DEFINE e == Head(err)
<1>1. /\ err # <<>> /\ tx' = Append(tx, e) /\ err' = Tail(err)
      /\ UNCHANGED <<host, out, bin_rx, ready, pc, ans, ota, half, image, boot, dev,
                     crashes, safe, faults>>
  BY DEF RxAnswer, hostVars, workVars, otaVars, bootVars
<1>2. err \in Seq(Piece) /\ tx \in Seq(Piece) BY DEF UpdateIInv, UpdateTypeOK
<1>3. e \in Piece /\ e.st # "ok"
  <2>1. e \in Piece /\ e = err[1] /\ 1 \in 1..Len(err) BY <1>1, <1>2, OkHead
  <2> QED BY <2>1 DEF UpdateIInv, WorkInv
<1>4. err' \in Seq(Piece) /\ \A i \in 1..Len(err') : err'[i].st = "crc"
  <2>1. err' \in Seq(Piece) /\ Len(err') = Len(err) - 1 /\ Len(err) \in Nat
        /\ \A i \in 1..Len(err') : err'[i] = err[i + 1]
    BY <1>1, <1>2, HeadTailProperties
  <2>2. \A i \in 1..Len(err') : i + 1 \in 1..Len(err) BY <2>1
  <2> QED BY <2>1, <2>2 DEF UpdateIInv, WorkInv
<1>5. tx' \in Seq(Piece)
      /\ \A c : (Ok(tx', c) => Ok(tx, c)) /\ (OkEnd(tx', c) => OkEnd(tx, c))
  BY <1>1, <1>2, <1>3, OkAppend
<1>6. UpdateTypeOK' BY <1>1, <1>4, <1>5 DEF UpdateIInv, UpdateTypeOK
<1>7. OutInv' /\ RxInv' BY <1>1 DEF UpdateIInv, OutInv, RxInv, Begun
<1>8. WorkInv' BY <1>1, <1>4 DEF UpdateIInv, WorkInv
<1>9. SessionInv' /\ UnservedInv' /\ HostInv'
  BY <1>1 DEF UpdateIInv, SessionInv, UnservedInv, HostInv, Unserved, Half
<1>10. ChunkInv'
  BY <1>1, <1>5 DEF UpdateIInv, ChunkInv, Unserved, Unsent, Again, Returning
<1>11. StartInv' BY <1>1, <1>5 DEF UpdateIInv, StartInv
<1> QED BY <1>6, <1>7, <1>8, <1>9, <1>10, <1>11 DEF UpdateIInv

\* The worker takes up the frame.
LEMMA KsProcessOneKeeps ==
  ASSUME UpdateIInv, KsProcessOne
  PROVE  UpdateIInv'
<1>1. /\ pc = "poll" /\ ready.full /\ pc' = ready.cmd /\ ready.cmd \in Command
      /\ ans = <<>>
      /\ UNCHANGED <<host, out, bin_rx, err, ready, ans, tx, ota, half, image, boot,
                     dev, crashes, safe, faults>>
  BY DEF KsProcessOne, hostVars, binVars, otaVars, bootVars, UpdateIInv, UpdateTypeOK,
         WorkInv
<1>2. UpdateTypeOK' BY <1>1 DEF UpdateIInv, UpdateTypeOK
<1>3. OutInv' /\ RxInv' BY <1>1 DEF UpdateIInv, OutInv, RxInv, Begun
<1>4. WorkInv' BY <1>1 DEF UpdateIInv, WorkInv, Command
<1>5. SessionInv' BY <1>1 DEF UpdateIInv, SessionInv, Command
<1>6. Unserved' => Unserved BY <1>1 DEF Unserved
<1>7. UnservedInv' BY <1>1, <1>6 DEF UpdateIInv, UnservedInv
<1>8. ChunkInv'
  BY <1>1, <1>6 DEF UpdateIInv, ChunkInv, Unsent, Again, Returning, Command
<1>9. StartInv' /\ HostInv' BY <1>1 DEF UpdateIInv, StartInv, HostInv
<1> QED BY <1>2, <1>3, <1>4, <1>5, <1>7, <1>8, <1>9 DEF UpdateIInv

\* What Respond leaves to be written.
LEMMA AnsweredShape ==
  ASSUME NEW cmd \in Command, NEW st \in {"ok", "busy", "invalid"},
         ans' = Answer(cmd, st), ready' = ready, cmd = ready.cmd
  PROVE  /\ ans' \in Seq(Piece) /\ ans' # <<>>
         /\ OneAnswer(ans', ready'.cmd)
         /\ \A c : c # cmd \/ st # "ok" => ~Ok(ans', c)
  BY AnswerShape, OkAnswer DEF OneAnswer

\* A start serves a host that waits for its first chunk, or for none.
LEMMA OtaStartKeeps ==
  ASSUME UpdateIInv, OtaStart
  PROVE  UpdateIInv'
<1>1. /\ pc = "start" /\ ready.full /\ ready.cmd = "start" /\ ans = <<>>
      /\ UNCHANGED <<host, out, bin_rx, err, ready, tx, half, boot, dev, crashes, safe>>
  BY DEF OtaStart, hostVars, binVars, bootVars, UpdateIInv, WorkInv, Command
<1>2. /\ pc' = "respond" /\ image' = <<>>
      /\ \/ /\ ota' = [st |-> "receiving", open |-> TRUE, received |-> 0]
            /\ ans' = Answer("start", "ok")
         \/ ota' = [ota EXCEPT !.open = FALSE] /\ ans' = Answer("start", "busy")
  BY <1>1 DEF OtaStart, OtaBegin, Respond
<1>3. /\ ans' \in Seq(Piece) /\ ans' # <<>>
      /\ OneAnswer(ans', ready'.cmd)
      /\ ~Ok(ans', "data")
  BY <1>1, <1>2, AnsweredShape DEF Command
<1>4. /\ ota' \in OtaState
      /\ ota'.open => ota'.st = "receiving" /\ ota'.received = 0
  <2>1. ota \in OtaState /\ 0 \in 0..CHUNKS
    BY CdcAssumption DEF UpdateIInv, UpdateTypeOK
  <2>2. CASE ota' = [st |-> "receiving", open |-> TRUE, received |-> 0] BY <2>1, <2>2
  <2>3. CASE ota' = [ota EXCEPT !.open = FALSE] BY <2>1, <2>3
  <2> QED BY <1>2, <2>2, <2>3
<1>5. UpdateTypeOK' BY <1>1, <1>2, <1>3, <1>4 DEF UpdateIInv, UpdateTypeOK
<1>6. OutInv' /\ RxInv' BY <1>1 DEF UpdateIInv, OutInv, RxInv, Begun
<1>7. WorkInv' BY <1>1, <1>2, <1>3 DEF UpdateIInv, WorkInv, Command
<1>8. SessionInv' BY <1>1, <1>2, <1>4 DEF UpdateIInv, SessionInv
<1>9. UnservedInv' BY <1>1 DEF UnservedInv, Unserved
<1>10. ChunkInv'
  <2> SUFFICES ASSUME host.st # "done", host.f.cmd = "data" PROVE ChunkInv'
    BY <1>1 DEF ChunkInv
  <2>1. Again /\ host.f.n = 1
    BY <1>1 DEF UpdateIInv, ChunkInv, Again, Returning
  <2>2. ~(host.st = "wait" /\ Ok(tx, "data")) BY <1>1 DEF UpdateIInv, ChunkInv
  <2>3. host.acked = host.f.n - 1 BY DEF UpdateIInv, ChunkInv
  <2>4. ~Unserved' BY <1>1 DEF Unserved
  <2> QED
    BY <1>1, <1>2, <1>3, <1>4, <2>1, <2>2, <2>3, <2>4
       DEF UpdateIInv, ChunkInv, Again, Unsent, OkEnd, Ok
<1>11. StartInv' BY <1>1, <1>4 DEF UpdateIInv, StartInv
<1>12. HostInv' BY <1>1 DEF UpdateIInv, HostInv
<1> QED BY <1>5, <1>6, <1>7, <1>8, <1>9, <1>10, <1>11, <1>12 DEF UpdateIInv

\* A session that is over binds nobody.
LEMMA ClosedKeeps ==
  ASSUME UpdateIInv, pc \in {"data", "write", "abort", "finish"}, pc' = "respond",
         NEW st \in {"ok", "busy", "invalid"}, ans' = Answer(ready.cmd, st),
         st = "ok" => ready.cmd = "abort",
         ota' = [ota EXCEPT !.st = "idle", !.open = FALSE] \/ (ota' = ota /\ ~ota.open),
         image' \in Seq(Buffer), half' \in Seq(Unit),
         UNCHANGED <<host, out, bin_rx, err, ready, tx, boot, dev, crashes, safe>>
  PROVE  UpdateIInv'
<1>1. ready.full /\ ready.cmd \in {"data", "abort"} /\ ready.cmd \in Command
  BY DEF UpdateIInv, WorkInv, UpdateTypeOK, Command
<1>2. /\ ans' \in Seq(Piece) /\ ans' # <<>>
      /\ OneAnswer(ans', ready'.cmd)
      /\ ~Ok(ans', "data")
  BY <1>1, AnsweredShape
<1>3. ota' \in OtaState /\ ~ota'.open
  BY DEF UpdateIInv, UpdateTypeOK
<1>4. UpdateTypeOK' BY <1>2, <1>3 DEF UpdateIInv, UpdateTypeOK
<1>5. OutInv' /\ RxInv' BY DEF UpdateIInv, OutInv, RxInv, Begun
<1>6. WorkInv' BY <1>1, <1>2 DEF UpdateIInv, WorkInv, Command
<1>7. SessionInv' BY <1>3 DEF UpdateIInv, SessionInv
<1>8. UnservedInv' BY <1>3 DEF UnservedInv
<1>9. ChunkInv'
  <2> SUFFICES ASSUME host.st # "done", host.f.cmd = "data" PROVE ChunkInv'
    BY DEF ChunkInv
  <2>1. ready.cmd = "data" /\ ~Unsent BY <1>1 DEF UpdateIInv, ChunkInv, Again, Returning
  <2>2. ~(host.st = "wait" /\ Ok(tx, "data")) BY <1>1 DEF UpdateIInv, ChunkInv
  <2>3. host.acked = host.f.n - 1 BY DEF UpdateIInv, ChunkInv
  <2> QED
    BY <1>2, <1>3, <2>1, <2>2, <2>3 DEF ChunkInv, Again, Unsent, Unserved, OkEnd, Ok
<1>10. StartInv' BY <1>1 DEF UpdateIInv, StartInv
<1>11. HostInv' BY DEF UpdateIInv, HostInv
<1> QED BY <1>4, <1>5, <1>6, <1>7, <1>8, <1>9, <1>10, <1>11 DEF UpdateIInv

\* A chunk that is taken is the next one: UnservedInv.
LEMMA OtaDataKeeps ==
  ASSUME UpdateIInv, OtaData
  PROVE  UpdateIInv'
<1>1. /\ pc = "data" /\ ready.full /\ ready.cmd = "data" /\ ans = <<>>
      /\ UNCHANGED <<host, out, bin_rx, err, ready, tx, boot, dev, crashes, safe>>
  BY DEF OtaData, hostVars, binVars, bootVars, UpdateIInv, WorkInv, Command
<1>2. half \in Seq(Unit) /\ image \in Seq(Buffer) /\ <<>> \in Seq(Buffer)
  BY DEF UpdateIInv, UpdateTypeOK
<1>3. CASE /\ ota.st # "receiving" /\ Respond("invalid")
           /\ UNCHANGED <<ota, half, image, faults>>
  <2>1. ~ota.open BY <1>3 DEF UpdateIInv, SessionInv
  <2> QED BY <1>1, <1>2, <1>3, <2>1, ClosedKeeps DEF Respond
<1>4. CASE OtaAborted /\ Respond("busy") /\ UNCHANGED <<half, faults>>
  BY <1>1, <1>2, <1>4, ClosedKeeps DEF Respond, OtaAborted
<1>5. CASE /\ ota.st = "receiving" /\ ota.open /\ ota.received + 1 <= CHUNKS
           /\ half' = Half /\ pc' = "write" /\ UNCHANGED <<ans, ota, image, faults>>
  <2>1. Half \in Seq(Unit)
    <3>1. ready.buf \in [1..WIDTH -> Unit] BY DEF UpdateIInv, UpdateTypeOK, Buffer
    <3> DEFINE b == ready.buf
    <3>2. b \in Seq(Unit) /\ Len(b) = WIDTH BY <3>1, CdcAssumption, FunctionIsSeq
    <3> HIDE DEF b
    <3>3. WIDTH \div 2 \in Nat /\ WIDTH \div 2 <= WIDTH BY CdcAssumption
    <3>4. SubSeq(b, 1, WIDTH \div 2) \in Seq(Unit) BY <3>2, <3>3
    <3> QED BY <3>4 DEF b, Half
  <2>2. UpdateTypeOK' BY <1>1, <1>5, <2>1 DEF UpdateIInv, UpdateTypeOK
  <2>3. OutInv' /\ RxInv' BY <1>1 DEF UpdateIInv, OutInv, RxInv, Begun
  <2>4. WorkInv' BY <1>1, <1>5 DEF UpdateIInv, WorkInv, Command
  <2>5. ota.received < CHUNKS /\ Half' = Half
    BY <1>1, <1>5, CdcAssumption DEF UpdateIInv, UpdateTypeOK, Half
  <2>6. SessionInv' BY <1>1, <1>5, <2>5 DEF UpdateIInv, SessionInv
  <2>7. Unserved /\ Unserved' BY <1>1, <1>5 DEF Unserved
  <2>8. UnservedInv' BY <1>1, <1>5, <2>7 DEF UpdateIInv, UnservedInv
  <2>9. ChunkInv' BY <1>1, <1>5, <2>7 DEF UpdateIInv, ChunkInv, Unsent, Again, Returning
  <2>10. StartInv' /\ HostInv' BY <1>1, <1>5 DEF UpdateIInv, StartInv, HostInv
  <2> QED BY <2>2, <2>3, <2>4, <2>6, <2>8, <2>9, <2>10 DEF UpdateIInv
<1> QED BY <1>3, <1>4, <1>5 DEF OtaData

\* What is appended is the chunk that came next, and the host waits for its answer.
LEMMA OtaWriteKeeps ==
  ASSUME UpdateIInv, OtaWrite
  PROVE  UpdateIInv'
<1>1. /\ pc = "write" /\ ready.full /\ ready.cmd = "data" /\ ans = <<>> /\ half' = <<>>
      /\ ota.open /\ ota.received < CHUNKS /\ half = Half
      /\ UNCHANGED <<host, out, bin_rx, err, ready, tx, boot, dev, crashes, safe>>
  BY DEF OtaWrite, hostVars, binVars, bootVars, UpdateIInv, WorkInv, SessionInv, Command
<1>2. /\ image \in Seq(Buffer) /\ ready.buf \in Buffer /\ <<>> \in Seq(Buffer)
      /\ <<>> \in Seq(Unit)
      /\ ota \in OtaState
  BY DEF UpdateIInv, UpdateTypeOK
<1>3. CASE OtaAborted /\ Respond("busy") /\ Fault
  BY <1>1, <1>2, <1>3, ClosedKeeps DEF Respond, OtaAborted
<1>4. CASE /\ Flashed /\ ota' = [ota EXCEPT !.received = @ + 1]
           /\ IF ota.received + 1 >= CHUNKS THEN pc' = "finish" /\ UNCHANGED ans
              ELSE Respond("ok")
  <2> DEFINE n == ota.received + 1
  <2>1. image' = Append(image, ready.buf)
    <3> DEFINE b == ready.buf
    <3>1. b \in [1..WIDTH -> Unit] BY <1>2 DEF Buffer
    <3>2. b \in Seq(Unit) /\ Len(b) = WIDTH BY <3>1, CdcAssumption, FunctionIsSeq
    <3>3. half = SubSeq(b, 1, WIDTH \div 2) BY <1>1 DEF Half
    <3> HIDE DEF b
    <3>4. WIDTH \div 2 \in Nat /\ WIDTH \div 2 <= WIDTH BY CdcAssumption
    <3>5. Len(half) = WIDTH \div 2 /\ \A i \in 1..Len(half) : half[i] = b[i]
      BY <3>2, <3>3, <3>4
    <3>6. [i \in 1..WIDTH |-> IF i <= Len(half) THEN half[i] ELSE b[i]] = b
      BY <3>1, <3>4, <3>5
    <3> QED BY <3>6, <1>4 DEF b, Flashed
  <2>2. n \in 1..CHUNKS /\ ready.buf = Payload(Chunk(n))
    BY <1>1, <1>2, CdcAssumption DEF UpdateIInv, UnservedInv, Unserved
  <2>3. /\ image' \in Seq(Buffer) /\ Len(image') = n
        /\ \A k \in 1..n : image'[k] = Payload(Chunk(k))
    <3>1. Len(image) = ota.received
          /\ \A k \in 1..ota.received : image[k] = Payload(Chunk(k))
      BY <1>1 DEF UpdateIInv, SessionInv
    <3>2. /\ image' \in Seq(Buffer) /\ Len(image') = Len(image) + 1
          /\ \A k \in 1..Len(image) : image'[k] = image[k]
          /\ image'[Len(image) + 1] = ready.buf
      BY <2>1, <1>2, AppendProperties
    <3> QED BY <3>1, <3>2, <2>2, <1>2
  <2>4. ota' \in OtaState
        /\ ota'.open /\ ota'.received = n /\ ota'.st = "receiving"
    BY <1>1, <1>2, <1>4, <2>2, CdcAssumption DEF UpdateIInv, SessionInv
  <2>5. \/ pc' = "finish" /\ n = CHUNKS /\ ans' = <<>>
        \/ pc' = "respond" /\ n < CHUNKS /\ ans' = Answer("data", "ok")
    BY <1>1, <1>4, <2>2, CdcAssumption DEF Respond
  <2>6. /\ ans' \in Seq(Piece)
        /\ OneAnswer(ans', ready'.cmd)
        /\ ans' # <<>> => pc' = "respond"
    <3>1. CASE ans' = <<>> BY <3>1 DEF OneAnswer
    <3>2. CASE pc' = "respond" /\ ans' = Answer("data", "ok")
      BY <3>2, <1>1, AnsweredShape DEF Command
    <3> QED BY <3>1, <3>2, <2>5
  <2> HIDE DEF n
  <2>7. UpdateTypeOK' BY <1>1, <1>2, <2>3, <2>4, <2>5, <2>6 DEF UpdateIInv, UpdateTypeOK
  <2>8. OutInv' /\ RxInv' BY <1>1 DEF UpdateIInv, OutInv, RxInv, Begun
  <2>9. WorkInv' BY <1>1, <2>5, <2>6 DEF UpdateIInv, WorkInv, Command
  <2>10. SessionInv' BY <1>1, <2>3, <2>4, <2>5 DEF UpdateIInv, SessionInv
  <2>11. ~Unserved' /\ Unserved BY <1>1, <2>5 DEF Unserved
  <2>12. UnservedInv' BY <2>11 DEF UnservedInv
  <2>13. ChunkInv'
    <3> SUFFICES ASSUME host.st # "done", host.f.cmd = "data" PROVE ChunkInv'
      BY <1>1 DEF ChunkInv
    <3>1. ~Unsent BY <1>1 DEF UpdateIInv, ChunkInv, Again, Returning
    <3>2. ~(host.st = "wait" /\ Ok(tx, "data")) BY <1>1 DEF UpdateIInv, ChunkInv
    <3>3. host.acked = host.f.n - 1 /\ ota.received = host.f.n - 1
      BY <1>1, <2>11 DEF UpdateIInv, ChunkInv
    <3>4. host.f.n = n
      <4>1. host.f.n \in 1..CHUNKS BY FrameShape DEF UpdateIInv, UpdateTypeOK
      <4> QED BY <4>1, <3>3, <1>2, CdcAssumption DEF n
    <3>5. ~Ok(<<>>, "data") BY OkEmpty
    <3> QED
      BY <1>1, <2>2, <2>4, <2>5, <2>11, <3>1, <3>2, <3>3, <3>4, <3>5, CdcAssumption
         DEF ChunkInv, Unsent, Again, Returning, OkEnd, Ok, n
  <2>14. StartInv' /\ HostInv' BY <1>1 DEF UpdateIInv, StartInv, HostInv
  <2> QED BY <2>7, <2>8, <2>9, <2>10, <2>12, <2>13, <2>14 DEF UpdateIInv
<1> QED BY <1>3, <1>4 DEF OtaWrite

\* The image chosen has every chunk.
LEMMA OtaFinishKeeps ==
  ASSUME UpdateIInv, OtaFinish
  PROVE  UpdateIInv'
<1>1. /\ pc = "finish" /\ ready.full /\ ready.cmd = "data" /\ ans = <<>>
      /\ ota' = [ota EXCEPT !.st = "idle", !.open = FALSE]
      /\ UNCHANGED <<host, out, bin_rx, err, ready, tx, half, image, dev, crashes,
                     safe>>
  BY DEF OtaFinish, hostVars, binVars, bootVars, UpdateIInv, WorkInv, Command
<1>2. image \in Seq(Buffer) /\ half \in Seq(Unit) BY DEF UpdateIInv, UpdateTypeOK
<1>3. CASE Respond("busy") /\ Fault /\ UNCHANGED boot
  BY <1>1, <1>2, <1>3, ClosedKeeps DEF Respond
<1>4. CASE /\ boot' = image /\ ans' = Answer("data", "ok") /\ pc' = "last"
           /\ UNCHANGED faults
  <2>1. image = Whole
    <3>1. Len(image) = CHUNKS /\ \A n \in 1..CHUNKS : image[n] = Payload(Chunk(n))
      BY <1>1 DEF UpdateIInv, SessionInv
    <3>2. image \in [1..CHUNKS -> Buffer] BY <1>2, <3>1, LenProperties
    <3> QED BY <3>1, <3>2 DEF Whole
  <2>2. /\ ans' \in Seq(Piece)
        /\ OneAnswer(ans', ready'.cmd)
    BY <1>1, <1>4, AnsweredShape DEF Command
  <2>3. ota' \in OtaState /\ ~ota'.open
    BY <1>1 DEF UpdateIInv, UpdateTypeOK
  <2>4. UpdateTypeOK' BY <1>1, <1>4, <2>2, <2>3 DEF UpdateIInv, UpdateTypeOK
  <2>5. OutInv' /\ RxInv' BY <1>1 DEF UpdateIInv, OutInv, RxInv, Begun
  <2>6. WorkInv' BY <1>1, <1>4, <2>2 DEF UpdateIInv, WorkInv, Command
  <2>7. SessionInv' BY <1>4, <2>1, <2>3 DEF SessionInv
  <2>8. UnservedInv' BY <2>3 DEF UnservedInv
  <2>9. ChunkInv'
    <3> SUFFICES ASSUME host.st # "done", host.f.cmd = "data" PROVE ChunkInv'
      BY <1>1 DEF ChunkInv
    <3>1. ~Unsent /\ ~Unserved'
      BY <1>1, <1>4 DEF UpdateIInv, ChunkInv, Again, Returning, Unserved
    <3>2. ~(host.st = "wait" /\ Ok(tx, "data")) BY <1>1 DEF UpdateIInv, ChunkInv
    <3>3. host.acked = host.f.n - 1 /\ host.f.n = CHUNKS
      BY <1>1 DEF UpdateIInv, ChunkInv
    <3>4. ~(host.st = "wait" /\ OkEnd(tx, "data")) BY <3>2 DEF Ok, OkEnd
    <3> QED
      BY <1>1, <1>4, <2>1, <2>3, <3>1, <3>2, <3>3, <3>4
         DEF ChunkInv, Unsent, Again, Returning, OkEnd, Ok
  <2>10. StartInv' /\ HostInv' BY <1>1, <1>4, <2>1 DEF UpdateIInv, StartInv, HostInv
  <2> QED BY <2>4, <2>5, <2>6, <2>7, <2>8, <2>9, <2>10 DEF UpdateIInv
<1> QED BY <1>1, <1>3, <1>4 DEF OtaFinish

\* An abort closes the session, or finds none.
LEMMA OtaAbortKeeps ==
  ASSUME UpdateIInv, OtaAbort
  PROVE  UpdateIInv'
<1>1. /\ pc = "abort" /\ ready.full /\ ready.cmd = "abort"
      /\ UNCHANGED <<host, out, bin_rx, err, ready, tx, half, boot, dev, crashes, safe>>
  BY DEF OtaAbort, hostVars, binVars, bootVars, UpdateIInv, WorkInv, Command
<1>2. image \in Seq(Buffer) /\ half \in Seq(Unit) /\ <<>> \in Seq(Buffer)
  BY DEF UpdateIInv, UpdateTypeOK
<1>3. CASE OtaAborted /\ Respond("ok")
  BY <1>1, <1>2, <1>3, ClosedKeeps DEF Respond, OtaAborted
<1>4. CASE ota.st # "receiving" /\ Respond("invalid") /\ UNCHANGED <<ota, image>>
  <2>1. ~ota.open BY <1>4 DEF UpdateIInv, SessionInv
  <2> QED BY <1>1, <1>2, <1>4, <2>1, ClosedKeeps DEF Respond
<1> QED BY <1>3, <1>4 DEF OtaAbort

\* A piece of an answer goes to the host; after its CRC the worker has no more of it.
LEMMA KsRespondKeeps ==
  ASSUME UpdateIInv, KsRespond
  PROVE  UpdateIInv'
<1> DEFINE e == Head(ans)
<1>1. /\ ans # <<>> /\ tx' = Append(tx, e) /\ ans' = Tail(ans) /\ ready.full
      /\ pc \in {"respond", "last"}
      /\ UNCHANGED <<host, out, bin_rx, err, ready, pc, ota, half, image, boot, dev,
                     crashes, safe, faults>>
  BY DEF KsRespond, hostVars, binVars, otaVars, bootVars, UpdateIInv, WorkInv
<1>2. ans \in Seq(Piece) /\ tx \in Seq(Piece) BY DEF UpdateIInv, UpdateTypeOK
<1>3. e \in Piece /\ e = ans[1] /\ 1 \in 1..Len(ans) /\ Len(ans) \in Nat
  BY <1>1, <1>2, OkHead
<1>4. e.cmd = ready.cmd
      /\ (e.part = "crc" => Len(ans) = 1)
      /\ \A c : e.cmd = c /\ e.st = "ok" => Ok(ans, c)
  BY <1>1, <1>2, <1>3, OkHead DEF UpdateIInv, WorkInv, OneAnswer
<1>5. /\ ans' \in Seq(Piece) /\ Len(ans') = Len(ans) - 1
      /\ \A i \in 1..Len(ans') : ans'[i] = ans[i + 1]
      /\ \A c : Ok(ans', c) => Ok(ans, c)
  BY <1>1, <1>2, HeadTailProperties, OkTail
<1>6. OneAnswer(ans', ready.cmd)
  <2>1. \A i \in 1..Len(ans') : i + 1 \in 1..Len(ans) BY <1>3, <1>5
  <2> QED BY <2>1, <1>3, <1>5 DEF UpdateIInv, WorkInv, OneAnswer
<1>7. /\ tx' \in Seq(Piece)
      /\ \A c : /\ Ok(tx', c) => Ok(tx, c) \/ (e.cmd = c /\ e.st = "ok")
                /\ OkEnd(tx', c) =>
                     OkEnd(tx, c) \/ (e.cmd = c /\ e.st = "ok" /\ e.part = "crc")
  BY <1>1, <1>2, <1>3, OkAppend
<1>8. e.part = "crc" => ans' = <<>> BY <1>3, <1>4, <1>5, EmptySeq
<1> HIDE DEF e
<1>9. UpdateTypeOK' BY <1>1, <1>5, <1>7 DEF UpdateIInv, UpdateTypeOK
<1>10. OutInv' /\ RxInv' BY <1>1 DEF UpdateIInv, OutInv, RxInv, Begun
<1>11. WorkInv' BY <1>1, <1>6 DEF UpdateIInv, WorkInv
<1>12. SessionInv' /\ UnservedInv' /\ HostInv'
  BY <1>1 DEF UpdateIInv, SessionInv, UnservedInv, HostInv, Unserved, Half
<1>13. ChunkInv'
  <2> SUFFICES ASSUME host.st # "done", host.f.cmd = "data" PROVE ChunkInv'
    BY <1>1 DEF ChunkInv
  <2>1. Ok(ans', "data") \/ Ok(tx', "data") => Ok(ans, "data") \/ Ok(tx, "data")
    BY <1>4, <1>5, <1>7
  <2>2. host.st = "wait" /\ OkEnd(tx', "data") => ans' = <<>>
    BY <1>1, <1>7, <1>8 DEF UpdateIInv, ChunkInv
  <2>3. Unsent' = Unsent /\ Unserved' = Unserved /\ Again' = Again
    BY <1>1 DEF Unsent, Unserved, Again
  <2>4. ~Returning BY <1>1 DEF Returning
  <2>5. Unsent /\ host.st = "wait" => ~Ok(tx', "data")
    <3>1. Unsent => ~Ok(ans, "data") BY DEF UpdateIInv, ChunkInv
    <3> QED BY <3>1, <2>1 DEF UpdateIInv, ChunkInv
  <2> QED BY <1>1, <1>5, <2>1, <2>2, <2>3, <2>4, <2>5 DEF UpdateIInv, ChunkInv
<1>14. StartInv'
  <2> SUFFICES ASSUME host.st = "wait", host.f.cmd = "start", Ok(tx', "start")
               PROVE  /\ ready.full => ready.cmd = "start"
                      /\ ota.open => ota.received = 0
    BY <1>1 DEF StartInv
  <2>1. CASE ~(e.cmd = "start" /\ e.st = "ok") BY <2>1, <1>7 DEF UpdateIInv, StartInv
  <2>2. CASE e.cmd = "start" /\ e.st = "ok"
    <3>1. ready.cmd = "start" /\ pc = "respond"
      BY <2>2, <1>1, <1>4 DEF UpdateIInv, WorkInv
    <3> QED BY <3>1 DEF UpdateIInv, SessionInv
  <2> QED BY <2>1, <2>2
<1> QED BY <1>9, <1>10, <1>11, <1>12, <1>13, <1>14 DEF UpdateIInv

\* The buffer is freed.
LEMMA ServedKeeps ==
  ASSUME UpdateIInv, Served
  PROVE  UpdateIInv'
<1>1. /\ pc = "respond" /\ ans = <<>> /\ pc' = "poll"
      /\ ready' = [ready EXCEPT !.full = FALSE]
      /\ UNCHANGED <<host, out, bin_rx, err, ans, tx, ota, half, image, boot, dev,
                     crashes, safe, faults>>
  BY DEF Served, Returning, hostVars, binVars, otaVars, bootVars
<1>2. ready' \in ReadyFrame /\ ~ready'.full /\ ready'.cmd = ready.cmd
  BY <1>1 DEF UpdateIInv, UpdateTypeOK
<1>3. UpdateTypeOK' BY <1>1, <1>2 DEF UpdateIInv, UpdateTypeOK
<1>4. OutInv' /\ RxInv' BY <1>1 DEF UpdateIInv, OutInv, RxInv, Begun
<1>5. WorkInv' BY <1>1, <1>2 DEF UpdateIInv, WorkInv, Command
<1>6. SessionInv' BY <1>1 DEF UpdateIInv, SessionInv
<1>7. ~Unserved' BY <1>2 DEF Unserved
<1>8. UnservedInv' BY <1>7 DEF UnservedInv
<1>9. ChunkInv' BY <1>1, <1>2, <1>7 DEF UpdateIInv, ChunkInv, Unsent
<1>10. StartInv' /\ HostInv' BY <1>1, <1>2 DEF UpdateIInv, StartInv, HostInv
<1> QED BY <1>3, <1>4, <1>5, <1>6, <1>8, <1>9, <1>10 DEF UpdateIInv

LEMMA ChunkBuffer ==
  ASSUME NEW n \in 1..CHUNKS
  PROVE  Payload(Chunk(n)) \in Buffer
<1>1. Chunk(n) \in Frame /\ Chunk(n).cmd = "data" BY ChunkShape
<1>2. Payload(Chunk(n)) = [i \in 1..WIDTH |-> <<Chunk(n), i>>]
  BY <1>1, FrameShape DEF Payload
<1> QED BY <1>1, <1>2, CdcAssumption DEF Buffer, Unit

\* What ready_frame holds after a reset.
LEMMA EmptyFrame == NoFrame \in ReadyFrame /\ ~NoFrame.full
<1>1. 1 \in 1..CHUNKS BY CdcAssumption
<1>2. Payload(Chunk(1)) \in Buffer BY <1>1, ChunkBuffer
<1> QED BY <1>2 DEF NoFrame, Command

\* A reset of the device, whatever its count of failed start-ups.
LEMMA ResetKeeps ==
  ASSUME UpdateIInv, NEW c, Reset(c)
  PROVE  UpdateIInv'
<1>1. /\ bin_rx' = RxIdle /\ err' = <<>> /\ ready' = NoFrame /\ pc' = "poll"
      /\ ans' = <<>>
      /\ tx' = <<>> /\ out' = <<>> /\ ota' = OtaIdle /\ half' = <<>> /\ image' = <<>>
      /\ boot' = boot
      /\ host' = IF host.st = "done" THEN host
                 ELSE [st |-> "rest", f |-> Start, acked |-> 0]
  BY DEF Reset
<1>2. host' \in HostState
      /\ host'.st # "wait"
      /\ (host'.st # "done" => host'.f.cmd = "start" /\ host'.acked = 0)
      /\ (host'.st = "done" => boot' = Whole)
  <2>1. host \in HostState /\ (host.st = "done" => boot = Whole)
    BY DEF UpdateIInv, UpdateTypeOK, HostInv
  <2>2. CASE host.st = "done" BY <1>1, <2>1, <2>2
  <2>3. CASE host.st # "done" BY <1>1, <2>3, StartShape, CdcAssumption
  <2> QED BY <2>2, <2>3
<1>3. ready' \in ReadyFrame /\ ~ready'.full BY <1>1, EmptyFrame
<1>4. ota' \in OtaState /\ ~ota'.open
  BY <1>1, CdcAssumption DEF OtaIdle
<1>5. bin_rx' \in RxState /\ bin_rx'.st = "idle"
  BY <1>1 DEF RxIdle, Command
<1>6. UpdateTypeOK' BY <1>1, <1>2, <1>3, <1>4, <1>5 DEF UpdateTypeOK
<1>7. OutInv' /\ RxInv' BY <1>1, <1>5 DEF OutInv, RxInv
<1>8. WorkInv' BY <1>1 DEF WorkInv, OneAnswer, Command
<1>9. SessionInv' /\ UnservedInv' BY <1>1, <1>4 DEF UpdateIInv, SessionInv, UnservedInv
<1>10. ChunkInv' /\ StartInv' /\ HostInv' BY <1>2 DEF ChunkInv, StartInv, HostInv
<1> QED BY <1>6, <1>7, <1>8, <1>9, <1>10 DEF UpdateIInv

\* The end of a start-up touches none of it.
LEMMA StartedKeeps ==
  ASSUME UpdateIInv, Started
  PROVE  UpdateIInv'
<1>1. UNCHANGED <<host, out, bin_rx, err, ready, pc, ans, tx, ota, half, image, boot>>
  BY DEF Started, hostVars, binVars, workVars, otaVars
<1> QED
  BY <1>1
     DEF UpdateIInv, UpdateTypeOK, OutInv, RxInv, Begun, WorkInv, SessionInv,
         UnservedInv, Unserved, Half, ChunkInv, Unsent, Again, Returning, StartInv,
         HostInv

\* A frame that is handed over is the one the host sends, and meets no other.
LEMMA FeedKeeps ==
  ASSUME UpdateIInv, KsRxFeed
  PROVE  UpdateIInv'
<1>1. /\ out # <<>> /\ UNCHANGED <<host, pc, ans, tx, ota, half, image, boot>>
  BY DEF KsRxFeed, workVars, otaVars, bootVars
<1> DEFINE Took == /\ ~ready.full /\ out' = <<>> /\ ready' \in ReadyFrame
                   /\ ready'.full /\ ready'.cmd = host.f.cmd
                   /\ host.f.cmd = "data" => ready'.buf = Payload(host.f)
<1>2. /\ bin_rx' \in RxState
      /\ err' \in Seq(Piece) /\ (\A i \in 1..Len(err') : err'[i].st = "crc")
      /\ OutInv' /\ RxInv' /\ host.st = "wait"
      /\ ready' = ready \/ Took
  BY FeedDelivers DEF UpdateIInv
<1> HIDE DEF Took
<1>3. Took => pc = "poll" /\ ans = <<>> BY DEF Took, UpdateIInv, WorkInv
<1>4. UpdateTypeOK' BY <1>1, <1>2 DEF UpdateIInv, UpdateTypeOK, Took
<1>5. WorkInv'
  <2>1. CASE ready' = ready BY <2>1, <1>1, <1>2 DEF UpdateIInv, WorkInv
  <2>2. CASE Took BY <2>2, <1>1, <1>2, <1>3 DEF WorkInv, OneAnswer, Took, Command
  <2> QED BY <1>2, <2>1, <2>2
<1>6. SessionInv'
  <2>1. CASE ready' = ready BY <2>1, <1>1 DEF UpdateIInv, SessionInv, Half
  <2>2. CASE Took BY <2>2, <1>1, <1>3 DEF UpdateIInv, SessionInv
  <2> QED BY <1>2, <2>1, <2>2
<1>7. Unsent BY <1>1 DEF Unsent
<1>8. UnservedInv'
  <2>1. CASE ready' = ready BY <2>1, <1>1 DEF UpdateIInv, UnservedInv, Unserved
  <2>2. CASE Took
    <3> SUFFICES ASSUME ready'.cmd = "data", ota.open
                 PROVE  ota.received < CHUNKS
                        /\ ready'.buf = Payload(Chunk(ota.received + 1))
      BY <1>1 DEF UnservedInv, Unserved
    <3>1. host.f.cmd = "data" /\ ready'.buf = Payload(host.f) BY <2>2 DEF Took
    <3>2. ota.received = host.f.n - 1 BY <3>1, <1>2, <1>7 DEF UpdateIInv, ChunkInv
    <3>3. host.f = Chunk(host.f.n) /\ host.f.n \in 1..CHUNKS
      BY <3>1, FrameShape DEF UpdateIInv, UpdateTypeOK
    <3> QED BY <3>1, <3>2, <3>3, CdcAssumption
  <2> QED BY <1>2, <2>1, <2>2
<1>9. ChunkInv'
  <2> SUFFICES ASSUME host.f.cmd = "data" PROVE ChunkInv' BY <1>1 DEF ChunkInv
  <2>1. CASE ready' = ready
    <3>1. ~Ok(ans, "data") /\ ~Ok(tx, "data") BY <1>2, <1>7 DEF UpdateIInv, ChunkInv
    <3> QED
      BY <2>1, <3>1, <1>1, <1>2, <1>7
         DEF UpdateIInv, ChunkInv, Unsent, Again, Returning, Unserved
  <2>2. CASE Took
    <3>1. ~Ok(ans, "data") /\ ~Ok(tx, "data") BY <1>2, <1>7 DEF UpdateIInv, ChunkInv
    <3>2. ready'.cmd = "data" /\ ~Unsent' BY <2>2, <1>1, <1>2 DEF Took, Unsent
    <3> QED BY <2>2, <3>1, <3>2, <1>1, <1>2, <1>3, <1>7 DEF UpdateIInv, ChunkInv
  <2> QED BY <1>2, <2>1, <2>2
<1>10. StartInv'
  <2>1. CASE ready' = ready BY <2>1, <1>1 DEF UpdateIInv, StartInv
  <2>2. CASE Took BY <2>2, <1>1 DEF UpdateIInv, StartInv, Took
  <2> QED BY <1>2, <2>1, <2>2
<1>11. HostInv' BY <1>1 DEF UpdateIInv, HostInv
<1> QED BY <1>2, <1>4, <1>5, <1>6, <1>8, <1>9, <1>10, <1>11 DEF UpdateIInv

\* The host sends, and forgets what it has not read.
LEMMA HostSendKeeps ==
  ASSUME UpdateIInv, HostSend
  PROVE  UpdateIInv'
<1>1. /\ host.st = "rest" /\ host' = [host EXCEPT !.st = "wait"]
      /\ out' = Packets(host.f) /\ tx' = <<>>
      /\ UNCHANGED <<bin_rx, err, ready, pc, ans, ota, half, image, boot>>
  BY DEF HostSend, binVars, workVars, otaVars
<1>2. /\ host' \in HostState
      /\ host'.st = "wait" /\ host'.f = host.f /\ host'.acked = host.acked
      /\ host.f \in Frame
  BY <1>1 DEF UpdateIInv, UpdateTypeOK
<1>3. out' # <<>> BY <1>1 DEF Packets
<1>4. ~Begun /\ ~Begun'
  <2>1. ~Begun BY <1>1 DEF Begun
  <2>2. host.f.cmd = "data" => out' = <<First(host.f), Second(host.f)>>
    BY <1>1, <1>2, PacketShape
  <2>3. host.f.cmd = "data" => out' # <<Second(host.f)>> BY <2>2
  <2>4. Begun' => host.f.cmd = "data" /\ out' = <<Second(host.f)>> BY <1>2 DEF Begun
  <2> QED BY <2>1, <2>3, <2>4
<1>5. \A c : ~Ok(tx', c) /\ ~OkEnd(tx', c) BY <1>1, OkEmpty
<1>6. UpdateTypeOK' BY <1>1, <1>2 DEF UpdateIInv, UpdateTypeOK
<1>7. OutInv' BY <1>1, <1>2 DEF OutInv
<1>8. RxInv' BY <1>1, <1>4 DEF UpdateIInv, RxInv
<1>9. WorkInv' BY <1>1 DEF UpdateIInv, WorkInv
<1>10. SessionInv' /\ UnservedInv'
  BY <1>1 DEF UpdateIInv, SessionInv, UnservedInv, Unserved, Half
<1>11. ChunkInv'
  <2> SUFFICES ASSUME host.f.cmd = "data" PROVE ChunkInv' BY <1>2 DEF ChunkInv
  <2>1. Unsent /\ Unsent' /\ Again' = Again /\ Returning' = Returning
    BY <1>1, <1>2, <1>3 DEF Unsent, Again, Returning
  <2>2. ~Ok(ans, "data") BY <1>1, <2>1 DEF UpdateIInv, ChunkInv
  <2> QED BY <1>1, <1>2, <1>5, <2>1, <2>2 DEF UpdateIInv, ChunkInv
<1>12. StartInv' BY <1>5 DEF StartInv
<1>13. HostInv' BY <1>1, <1>2 DEF UpdateIInv, HostInv
<1> QED BY <1>6, <1>7, <1>8, <1>9, <1>10, <1>11, <1>12, <1>13 DEF UpdateIInv

\* Where a host that gives up goes on.
LEMMA GaveUp ==
  ASSUME UpdateIInv, GiveUp
  PROVE  /\ host' \in HostState
         /\ host'.st = "rest" /\ host'.f.cmd # "data" /\ host'.acked = 0
<1>1. PICK f \in {Start, Abort} : host' = [st |-> "rest", f |-> f, acked |-> 0]
  BY DEF GiveUp
<1> QED BY <1>1, StartShape, CdcAssumption

\* A host that starts over, and forgets what it has not written.
LEMMA RestKeeps ==
  ASSUME UpdateIInv, host' \in HostState,
         host'.st = "rest", host'.f.cmd # "data", host'.acked = 0,
         out' = <<>>, tx' \in Seq(Piece),
         UNCHANGED <<bin_rx, err, ready, pc, ans, ota, half, image, boot>>
  PROVE  UpdateIInv'
<1>1. UpdateTypeOK' BY DEF UpdateIInv, UpdateTypeOK
<1>2. ~Begun' BY DEF Begun
<1>3. OutInv' /\ RxInv' BY <1>2 DEF UpdateIInv, OutInv, RxInv
<1>4. WorkInv' BY DEF UpdateIInv, WorkInv
<1>5. SessionInv' /\ UnservedInv'
  BY DEF UpdateIInv, SessionInv, UnservedInv, Unserved, Half
<1>6. ChunkInv' /\ StartInv' BY DEF ChunkInv, StartInv
<1>7. HostInv' BY DEF UpdateIInv, HostInv
<1> QED BY <1>1, <1>3, <1>4, <1>5, <1>6, <1>7 DEF UpdateIInv

\* No answer.
LEMMA TimeOutKeeps ==
  ASSUME UpdateIInv, TimeOut
  PROVE  UpdateIInv'
<1>1. GiveUp /\ out = <<>>
      /\ UNCHANGED <<out, bin_rx, err, ready, pc, ans, tx, ota, half, image, boot>>
  BY DEF TimeOut, Waiting, binVars, workVars, otaVars
<1>2. tx \in Seq(Piece) BY DEF UpdateIInv, UpdateTypeOK
<1> QED BY <1>1, <1>2, GaveUp, RestKeeps

\* The host's program is killed, in the middle of a frame or not.
LEMMA KillKeeps ==
  ASSUME UpdateIInv, Kill
  PROVE  UpdateIInv'
<1>1. /\ host' = [st |-> "rest", f |-> Start, acked |-> 0] /\ out' = <<>> /\ tx' = <<>>
      /\ UNCHANGED <<bin_rx, err, ready, pc, ans, ota, half, image, boot>>
  BY DEF Kill, binVars, workVars, otaVars
<1>2. host' \in HostState BY <1>1, StartShape, CdcAssumption
<1>3. <<>> \in Seq(Piece) OBVIOUS
<1> QED BY <1>1, <1>2, <1>3, StartShape, RestKeeps

\* HostRead: what is left was there before, and of a whole answer every piece was.
LEMMA ReadShape ==
  ASSUME tx \in Seq(Piece), Readable, NEW p, p = Head(tx), NEW whole,
         whole = (p.part = "hdr" /\ SubSeq(tx, 1, Size(p)) = Answer(p.cmd, p.st)),
         tx' = IF whole THEN SubSeq(tx, Size(p) + 1, Len(tx)) ELSE Tail(tx)
  PROVE  /\ tx' \in Seq(Piece) /\ p \in Piece
         /\ \A c : (Ok(tx', c) => Ok(tx, c)) /\ (OkEnd(tx', c) => OkEnd(tx, c))
         /\ whole /\ p.st = "ok" => Ok(tx, p.cmd) /\ OkEnd(tx, p.cmd)
<1>1. tx # <<>> /\ Len(tx) >= Size(p) BY DEF Readable
<1>2. p \in Piece /\ p = tx[1] /\ Len(tx) \in Nat BY <1>1, OkHead
<1>3. p.cmd \in Command /\ p.st \in {"ok", "crc", "busy", "invalid"} BY <1>2 DEF Piece
<1> DEFINE a == Answer(p.cmd, p.st)
<1>4. /\ a \in Seq(Piece) /\ Len(a) \in {2, 3} /\ a[Len(a)].part = "crc"
      /\ \A i \in 1..Len(a) : a[i].cmd = p.cmd /\ a[i].st = p.st
  BY <1>3, AnswerShape
<1> HIDE DEF a
<1>5. CASE ~whole
  <2>1. tx' = Tail(tx) BY <1>5
  <2> QED BY <2>1, <1>1, <1>2, <1>5, OkTail
<1>6. CASE whole
  <2>1. p.part = "hdr" /\ Size(p) = Len(a) BY <1>6 DEF Size, a
  <2> DEFINE k == Size(p)
  <2>2. k \in 1..Len(tx) /\ k = Len(a) BY <2>1, <1>1, <1>2, <1>4
  <2>3. SubSeq(tx, 1, k) = a BY <1>6 DEF a
  <2>4. tx' = SubSeq(tx, k + 1, Len(tx)) BY <1>6
  <2> HIDE DEF k
  <2>5. tx' \in Seq(Piece)
        /\ \A c : (Ok(tx', c) => Ok(tx, c)) /\ (OkEnd(tx', c) => OkEnd(tx, c))
    BY <2>2, <2>4, OkRest
  <2>6. \A i \in 1..k : SubSeq(tx, 1, k)[i] = tx[i] BY <2>2, <1>2
  <2>7. k \in 1..Len(a) /\ a[k].cmd = p.cmd /\ a[k].st = p.st /\ a[k].part = "crc"
    BY <2>2, <1>4
  <2>8. tx[k].cmd = p.cmd /\ tx[k].st = p.st /\ tx[k].part = "crc"
    <3>1. tx[k] = a[k] BY <2>3, <2>6, <2>2
    <3> QED BY <3>1, <2>7
  <2>9. p.st = "ok" => Ok(tx, p.cmd) /\ OkEnd(tx, p.cmd) BY <2>2, <2>8 DEF Ok, OkEnd
  <2> QED BY <2>5, <2>9, <1>2
<1>7. whole \in BOOLEAN OBVIOUS
<1> QED BY <1>5, <1>6, <1>7

\* The host reads: passes over, gives up, or goes on with the next frame.
LEMMA HostReadKeeps ==
  ASSUME UpdateIInv, HostRead
  PROVE  UpdateIInv'
<1> DEFINE p == Head(tx)
           whole == p.part = "hdr" /\ SubSeq(tx, 1, Size(p)) = Answer(p.cmd, p.st)
<1>1. /\ host.st = "wait" /\ out = <<>> /\ Readable
      /\ tx' = IF whole THEN SubSeq(tx, Size(p) + 1, Len(tx)) ELSE Tail(tx)
      /\ \/ whole /\ p.cmd = host.f.cmd /\ p.st = "ok" /\ Acknowledged
         \/ GiveUp
         \/ host' = host
      /\ UNCHANGED <<out, bin_rx, err, ready, pc, ans, ota, half, image, boot>>
  BY DEF HostRead, Waiting, binVars, workVars, otaVars
<1>2. tx \in Seq(Piece) BY DEF UpdateIInv, UpdateTypeOK
<1>3. /\ tx' \in Seq(Piece) /\ p \in Piece
      /\ \A c : (Ok(tx', c) => Ok(tx, c)) /\ (OkEnd(tx', c) => OkEnd(tx, c))
      /\ whole /\ p.st = "ok" => Ok(tx, p.cmd) /\ OkEnd(tx, p.cmd)
  BY <1>1, <1>2, ReadShape
<1> HIDE DEF p, whole
<1>4. /\ host \in HostState /\ host.f \in Frame
  BY DEF UpdateIInv, UpdateTypeOK
<1>5. CASE GiveUp BY <1>1, <1>3, <1>5, GaveUp, RestKeeps
<1>6. CASE host' = host
  <2>1. UpdateTypeOK' BY <1>1, <1>3, <1>6 DEF UpdateIInv, UpdateTypeOK
  <2>2. OutInv' /\ RxInv' BY <1>1, <1>6 DEF UpdateIInv, OutInv, RxInv, Begun
  <2>3. WorkInv' BY <1>1 DEF UpdateIInv, WorkInv
  <2>4. SessionInv' /\ UnservedInv'
    BY <1>1 DEF UpdateIInv, SessionInv, UnservedInv, Unserved, Half
  <2>5. ChunkInv'
    <3>1. Unsent' = Unsent /\ Unserved' = Unserved /\ Again' = Again
          /\ Returning' = Returning
      BY <1>1, <1>6 DEF Unsent, Unserved, Again, Returning
    <3> QED BY <3>1, <1>1, <1>3, <1>6 DEF UpdateIInv, ChunkInv
  <2>6. StartInv' /\ HostInv' BY <1>1, <1>3, <1>6 DEF UpdateIInv, StartInv, HostInv
  <2> QED BY <2>1, <2>2, <2>3, <2>4, <2>5, <2>6 DEF UpdateIInv
<1>7. CASE whole /\ p.cmd = host.f.cmd /\ p.st = "ok" /\ Acknowledged
  <2>1. Ok(tx, host.f.cmd) /\ OkEnd(tx, host.f.cmd) BY <1>3, <1>7
  <2>2. WorkInv' /\ SessionInv' /\ UnservedInv'
    BY <1>1 DEF UpdateIInv, WorkInv, SessionInv, UnservedInv, Unserved, Half
  <2>3. ASSUME host'.st # "wait" PROVE OutInv' /\ RxInv' /\ StartInv'
    <3>1. ~Begun /\ ~Begun' BY <1>1, <2>3 DEF Begun
    <3> QED BY <3>1, <2>3, <1>1 DEF UpdateIInv, OutInv, RxInv, StartInv
  <2>4. CASE host.f.cmd = "data"
    <3>1. host.f.n \in 1..CHUNKS BY <2>4, <1>4, FrameShape
    <3>2. /\ host.acked = host.f.n - 1 /\ ans = <<>>
          /\ ota.open => ota.received = host.f.n
          /\ host.f.n = CHUNKS => boot = Whole
          /\ ready.full => ready.cmd = "data" /\ pc \in {"respond", "last"}
          /\ pc \in {"finish", "last"} => host.f.n = CHUNKS
      BY <2>1, <2>4, <1>1 DEF UpdateIInv, ChunkInv
    <3>3. CASE host.f.n = CHUNKS
      <4>1. host' = [st |-> "done", f |-> host.f, acked |-> CHUNKS]
        BY <1>7, <2>4, <3>1, <3>3, CdcAssumption DEF Acknowledged
      <4>2. host' \in HostState /\ host'.st = "done"
        BY <4>1, <1>4, CdcAssumption
      <4>3. UpdateTypeOK' BY <4>2, <1>1, <1>3 DEF UpdateIInv, UpdateTypeOK
      <4>4. ChunkInv' /\ HostInv' BY <4>2, <3>2, <3>3, <1>1 DEF ChunkInv, HostInv
      <4> QED BY <4>2, <4>3, <4>4, <2>2, <2>3 DEF UpdateIInv
    <3>4. CASE host.f.n < CHUNKS
      <4>1. host' = [st |-> "rest", f |-> Chunk(host.f.n + 1), acked |-> host.f.n]
        BY <1>7, <2>4, <3>4, <3>1, CdcAssumption DEF Acknowledged
      <4>2. host.f.n + 1 \in 1..CHUNKS /\ host.f.n \in 0..CHUNKS
        BY <3>1, <3>4, CdcAssumption
      <4>3. /\ host' \in HostState
            /\ host'.st = "rest" /\ host'.f.cmd = "data" /\ host'.f.n = host.f.n + 1
            /\ host'.acked = host.f.n
        BY <4>1, <4>2, ChunkShape
      <4>4. UpdateTypeOK' BY <4>3, <1>1, <1>3 DEF UpdateIInv, UpdateTypeOK
      <4>5. ~Ok(ans, "data") BY <3>2, OkEmpty
      <4>6. ready.full => Returning BY <3>1, <3>2, <3>4 DEF Returning
      <4>7. ~(pc \in {"finish", "last"}) BY <3>1, <3>2, <3>4
      <4>8. ChunkInv'
        <5>1. Returning' = Returning BY <1>1 DEF Returning
        <5> QED BY <5>1, <4>3, <4>5, <4>6, <4>7, <3>1, <3>2, <1>1 DEF ChunkInv
      <4>9. HostInv' BY <4>3 DEF HostInv
      <4> QED BY <4>3, <4>4, <4>8, <4>9, <2>2, <2>3 DEF UpdateIInv
    <3> QED BY <3>1, <3>3, <3>4, CdcAssumption
  <2>5. CASE host.f.cmd = "start"
    <3>1. (ready.full => ready.cmd = "start") /\ (ota.open => ota.received = 0)
      BY <2>1, <2>5, <1>1 DEF UpdateIInv, StartInv
    <3>2. host' = [st |-> "rest", f |-> Chunk(1), acked |-> 0]
      BY <1>7, <2>5 DEF Acknowledged
    <3>3. 1 \in 1..CHUNKS /\ 0 \in 0..CHUNKS BY CdcAssumption
    <3>4. /\ host' \in HostState
          /\ host'.st = "rest" /\ host'.f.cmd = "data" /\ host'.f.n = 1
          /\ host'.acked = 0
      BY <3>2, <3>3, ChunkShape
    <3>5. UpdateTypeOK' BY <3>4, <1>1, <1>3 DEF UpdateIInv, UpdateTypeOK
    <3>6. ~Ok(ans, "data")
      <4>1. ans = <<>> \/ ready.cmd = "start" BY <3>1 DEF UpdateIInv, WorkInv
      <4>2. \A i \in 1..Len(ans) : ans[i].cmd = ready.cmd
        BY DEF UpdateIInv, WorkInv, OneAnswer
      <4>3. CASE ans = <<>> BY <4>3, OkEmpty
      <4>4. CASE ready.cmd = "start" BY <4>2, <4>4 DEF Ok
      <4> QED BY <4>1, <4>3, <4>4
    <3>7. ~(pc \in {"finish", "last"}) BY <3>1 DEF UpdateIInv, WorkInv
    <3>8. ChunkInv'
      <4>1. ready'.full => Again' BY <3>1, <3>4, <1>1 DEF Again
      <4> QED BY <4>1, <3>1, <3>4, <3>6, <3>7, <1>1 DEF ChunkInv
    <3>9. HostInv' BY <3>4 DEF HostInv
    <3> QED BY <3>4, <3>5, <3>8, <3>9, <2>2, <2>3 DEF UpdateIInv
  <2>6. CASE host.f.cmd = "abort"
    <3>1. host' = [st |-> "rest", f |-> Start, acked |-> 0]
      BY <1>7, <2>6 DEF Acknowledged
    <3>2. host' \in HostState
      BY <3>1, StartShape, CdcAssumption
    <3> QED BY <3>1, <3>2, <1>1, <1>3, StartShape, RestKeeps
  <2> QED BY <2>4, <2>5, <2>6, <1>4, FrameShape DEF Command
<1> QED BY <1>1, <1>5, <1>6, <1>7

\* What the host waits for, what the receiver holds between two packets, what the
\* worker serves and what the flash has taken fit together, whatever was dropped, cut
\* off or reset on the way.
THEOREM UpdateHolds == UpdateSpec => []UpdateIInv
<1>1. UpdateInit => UpdateIInv
  <2> SUFFICES ASSUME UpdateInit PROVE UpdateIInv OBVIOUS
  <2>1. /\ host = [st |-> "rest", f |-> Start, acked |-> 0] /\ out = <<>>
        /\ bin_rx = RxIdle /\ err = <<>> /\ ready = NoFrame
        /\ pc = "poll" /\ ans = <<>> /\ tx = <<>>
        /\ ota = OtaIdle /\ half = <<>> /\ image = <<>> /\ boot = <<>>
    BY DEF UpdateInit
  <2>2. /\ host \in HostState
        /\ host.st = "rest" /\ host.f.cmd = "start" /\ host.acked = 0
    BY <2>1, StartShape, CdcAssumption
  <2>3. ready \in ReadyFrame /\ ~ready.full
    BY <2>1, EmptyFrame
  <2>4. ota \in OtaState /\ ~ota.open
    BY <2>1, CdcAssumption DEF OtaIdle
  <2>5. bin_rx \in RxState /\ bin_rx.st = "idle"
    BY <2>1 DEF RxIdle, Command
  <2>6. UpdateTypeOK BY <2>1, <2>2, <2>3, <2>4, <2>5 DEF UpdateTypeOK
  <2>7. OutInv /\ RxInv BY <2>1, <2>5 DEF OutInv, RxInv
  <2>8. WorkInv BY <2>1 DEF WorkInv, OneAnswer, Command
  <2>9. SessionInv /\ UnservedInv BY <2>1, <2>4 DEF SessionInv, UnservedInv
  <2>10. ChunkInv /\ StartInv /\ HostInv BY <2>2 DEF ChunkInv, StartInv, HostInv
  <2> QED BY <2>6, <2>7, <2>8, <2>9, <2>10 DEF UpdateIInv
<1>2. UpdateIInv /\ [UpdateNext]_updateVars => UpdateIInv'
  <2> SUFFICES ASSUME UpdateIInv, [UpdateNext]_updateVars PROVE UpdateIInv' OBVIOUS
  <2>1. CASE KsRxFeed BY <2>1, FeedKeeps
  <2>2. CASE RxAnswer BY <2>2, RxAnswerKeeps
  <2>3. CASE KsProcessOne BY <2>3, KsProcessOneKeeps
  <2>4. CASE OtaStart BY <2>4, OtaStartKeeps
  <2>5. CASE OtaData BY <2>5, OtaDataKeeps
  <2>6. CASE OtaWrite BY <2>6, OtaWriteKeeps
  <2>7. CASE OtaFinish BY <2>7, OtaFinishKeeps
  <2>8. CASE OtaAbort BY <2>8, OtaAbortKeeps
  <2>9. CASE KsRespond BY <2>9, KsRespondKeeps
  <2>10. CASE Served BY <2>10, ServedKeeps
  <2>11. CASE OtaRestart BY <2>11, ResetKeeps DEF OtaRestart
  <2>12. CASE Crash BY <2>12, ResetKeeps DEF Crash
  <2>13. CASE Panic BY <2>13, ResetKeeps DEF Panic
  <2>14. CASE PowerCut BY <2>14, ResetKeeps DEF PowerCut
  <2>15. CASE Started BY <2>15, StartedKeeps
  <2>16. CASE HostSend BY <2>16, HostSendKeeps
  <2>17. CASE HostRead BY <2>17, HostReadKeeps
  <2>18. CASE TimeOut BY <2>18, TimeOutKeeps
  <2>19. CASE Kill BY <2>19, KillKeeps
  <2>20. CASE UNCHANGED updateVars
    <3>1. UNCHANGED <<host, out, bin_rx, err, ready, pc, ans, tx, ota, half,
                     image, boot>>
      BY <2>20 DEF updateVars, hostVars, binVars, workVars, otaVars
    <3> QED
      BY <3>1
         DEF UpdateIInv, UpdateTypeOK, OutInv, RxInv, Begun, WorkInv, SessionInv,
             UnservedInv, Unserved, Half, ChunkInv, Unsent, Again, Returning, StartInv,
             HostInv
  <2> QED
    BY <2>1, <2>2, <2>3, <2>4, <2>5, <2>6, <2>7, <2>8, <2>9, <2>10, <2>11, <2>12,
       <2>13, <2>14, <2>15,
             <2>16, <2>17, <2>18, <2>19, <2>20 DEF UpdateNext, Worker, Host
<1> QED BY <1>1, <1>2, PTL DEF UpdateSpec

\* A device never starts an image with a chunk missing, repeated or out of place: the
\* last chunk of ks_cmd_ota_data sets the boot partition only when ota_received reaches
\* the size, and every chunk counted until then was the one that came next.
THEOREM StartsWhole == UpdateSpec => []BootIsWhole
<1>1. UpdateIInv => BootIsWhole BY DEF UpdateIInv, SessionInv, BootIsWhole
<1> QED BY <1>1, UpdateHolds, PTL

\* What the host has been told is written is written: an OK of ks_respond that a
\* waiting host reads answers the very frame it sent, although frames carry no number.
THEOREM ToldIsWritten == UpdateSpec => []AckedIsWritten
<1>1. UpdateIInv => AckedIsWritten
  <2> SUFFICES ASSUME UpdateIInv PROVE AckedIsWritten OBVIOUS
  <2>1. host.st = "done" => boot = Whole BY DEF UpdateIInv, HostInv
  <2>2. ASSUME ota.open, host.st # "done"
        PROVE  IsPrefix(SubSeq(Whole, 1, host.acked), image)
    <3> DEFINE k == host.acked
    <3>1. k \in 0..CHUNKS /\ ota.received \in 0..CHUNKS /\ image \in Seq(Buffer)
          /\ host.f \in Frame
      BY DEF UpdateIInv, UpdateTypeOK
    <3>2. Len(image) = ota.received
          /\ \A n \in 1..ota.received : image[n] = Payload(Chunk(n))
      BY <2>2 DEF UpdateIInv, SessionInv
    <3>3. k <= ota.received
      <4>1. CASE host.f.cmd = "data"
        <5>1. host.f.n \in 1..CHUNKS BY <4>1, <3>1, FrameShape
        <5>2. k = host.f.n - 1 /\ ota.received \in {host.f.n - 1, host.f.n}
          BY <2>2, <4>1 DEF UpdateIInv, ChunkInv
        <5> QED BY <5>1, <5>2, CdcAssumption
      <4>2. CASE host.f.cmd # "data"
        <5>1. k = 0 BY <2>2, <4>2 DEF UpdateIInv, HostInv
        <5> QED BY <5>1, <3>1, CdcAssumption
      <4> QED BY <4>1, <4>2
    <3> HIDE DEF k
    <3> DEFINE w == Whole
               s == SubSeq(w, 1, k)
               t == SubSeq(image, 1, k)
    <3>4. w \in Seq(Buffer) /\ Len(w) = CHUNKS
          /\ \A n \in 1..CHUNKS : w[n] = Payload(Chunk(n))
      <4>1. \A n \in 1..CHUNKS : Payload(Chunk(n)) \in Buffer BY ChunkBuffer
      <4>2. w \in [1..CHUNKS -> Buffer] BY <4>1 DEF Whole
      <4>3. w \in Seq(Buffer) /\ Len(w) = CHUNKS BY <4>2, CdcAssumption, FunctionIsSeq
      <4> QED BY <4>3 DEF Whole
    <3> HIDE DEF w
    <3>5. s \in Seq(Buffer) /\ Len(s) = k /\ \A n \in 1..k : s[n] = w[n]
      BY <3>1, <3>4, CdcAssumption
    <3>6. t \in Seq(Buffer) /\ Len(t) = k /\ \A n \in 1..k : t[n] = image[n]
      BY <3>1, <3>2, <3>3, CdcAssumption
    <3> HIDE DEF s, t
    <3>7. \A n \in 1..k : s[n] = t[n]
      BY <3>1, <3>2, <3>3, <3>4, <3>5, <3>6, CdcAssumption
    <3>8. s = t BY <3>1, <3>5, <3>6, <3>7, SeqEqual
    <3>9. Len(s) <= Len(image) /\ SubSeq(s, 1, Len(s)) = s
      <4>1. Len(s) <= Len(image) BY <3>2, <3>3, <3>5
      <4>2. SubSeq(s, 1, Len(s)) = s BY <3>1, <3>5
      <4> QED BY <4>1, <4>2
    <3>10. IsPrefix(s, image) BY <3>5, <3>8, <3>9 DEF IsPrefix, t
    <3> QED BY <3>10 DEF s, w, k
  <2> QED BY <2>1, <2>2 DEF AckedIsWritten
<1> QED BY <1>1, UpdateHolds, PTL
=============================================================================
