--------------------------- MODULE ScanLoop_proofs ---------------------------
(***************************************************************************)
(* Proofs about ScanLoop, for any keymap, any number of slots and either   *)
(* kind of keyboard.                                                       *)
(***************************************************************************)
EXTENDS ScanLoop, TLAPS

-----------------------------------------------------------------------------
(* Type correctness.                                                       *)

LEMMA RemoteAtType ==
  ASSUME NEW n, RemoteType PROVE RemoteAt(n) \in Key \cup {None}
BY ScanAssumption DEF RemoteAt, RemoteType

LEMMA ScannedType ==
  ASSUME RemoteType, NEW s \in Seq(Key), NEW n
  PROVE  Scanned(s, n) \in [Slots -> Key \cup {None}]
<1>. SUFFICES ASSUME NEW j \in Slots
              PROVE  Scanned(s, n)[j] \in Key \cup {None}
  BY DEF Scanned
<1>1. j \in Nat \ {0}
  BY ScanAssumption DEF Slots
<1>2. CASE j <= Len(s)
  <2>1. s[j] \in Key
    BY <1>1, <1>2
  <2>. QED BY <2>1, <1>2 DEF Scanned
<1>3. CASE ~(j <= Len(s))
  <2>1. RemoteAt(j - n) \in Key \cup {None}
    BY RemoteAtType
  <2>. QED BY <2>1, <1>3 DEF Scanned
<1>. QED BY <1>2, <1>3

LEMMA HeldType ==
  ASSUME NEW p \in [Slots -> Key \cup {None}] PROVE Held(p) \subseteq Key
BY DEF Held

\* An action that leaves a part of the state alone leaves its type.
LEMMA Same ==
  /\ MatrixType /\ UNCHANGED scanVars => MatrixType'
  /\ RemoteType /\ UNCHANGED remoteVars => RemoteType'
  /\ EngineType /\ UNCHANGED engineVars => EngineType'
  /\ BuildType /\ UNCHANGED <<pc, buildVars>> => BuildType'
  /\ OutType /\ UNCHANGED out => OutType'
BY DEF MatrixType, RemoteType, EngineType, BuildType, OutType,
       scanVars, remoteVars, engineVars, buildVars

LEMMA TypeInit == Init => TypeOK
<1>. SUFFICES ASSUME Init PROVE TypeOK
  OBVIOUS
<1>1. 1 \in Slots /\ 0 \in 0 .. SLOTS
  BY ScanAssumption DEF Slots
<1>2. <<>> \in Seq(Key)
  OBVIOUS
<1>3. MatrixType
  BY <1>1, <1>2 DEF Init, MatrixType, NoKeys
<1>4. RemoteType /\ EngineType
  BY DEF Init, RemoteType, EngineType, NoKeys
<1>5. BuildType /\ OutType
  BY <1>1 DEF Init, BuildType, OutType
<1>. QED BY <1>3, <1>4, <1>5 DEF TypeOK

LEMMA TypeNext == TypeOK /\ [Next]_vars => TypeOK'
<1>. SUFFICES ASSUME TypeOK, [Next]_vars PROVE TypeOK'
  OBVIOUS
<1>. USE DEF TypeOK
<1>1. ASSUME NEW k \in Key \ Right, Scan(k) PROVE TypeOK'
  <2>1. local' \in Seq(Key)
    <3>1. local \in Seq(Key)
      BY DEF MatrixType
    <3>2. PICK now \in Moved(k) : local' = now
      BY <1>1 DEF Scan
    <3>3. CASE now = Append(local, k)
      BY <3>1, <3>2, <3>3
    <3>4. ASSUME NEW n \in DOMAIN local,
                 now = [m \in 1 .. Len(local) - 1 |->
                          IF m < n THEN local[m] ELSE local[m + 1]]
          PROVE  now \in Seq(Key)
      <4>1. n \in 1 .. Len(local) /\ Len(local) \in Nat
        BY <3>1, <3>4
      <4>2. \A m \in 1 .. Len(local) - 1 : local[m] \in Key /\ local[m + 1] \in Key
        BY <3>1, <4>1
      <4>3. Len(local) - 1 \in Nat
        BY <4>1
      <4>. QED BY <3>4, <4>1, <4>2, <4>3
    <3>. QED BY <3>2, <3>3, <3>4 DEF Moved
  <2>2. cur' = Scanned(local', AtMost(Len(local')))
    BY <1>1 DEF Scan
  <2>3. cur' \in [Slots -> Key \cup {None}]
    BY <2>1, <2>2, ScannedType
  <2>4. filled' \in 0 .. SLOTS
    <3>1. AtMost(Len(local')) \in 0 .. SLOTS
      BY <2>1, ScanAssumption DEF AtMost
    <3>. QED BY <1>1, <3>1 DEF Scan, MatrixType
  <2>5. kc' \in [Slots -> Key \cup {None}] /\ flag' \in BOOLEAN
    BY <1>1 DEF Scan, NoKeys
  <2>6. OutType'
    BY <1>1 DEF Scan, OutType
  <2>. QED BY <1>1, <2>1, <2>3, <2>4, <2>5, <2>6, Same DEF Scan, MatrixType
<1>2. ASSUME NEW k \in Right, RemoteFrame(k) PROVE TypeOK'
  <2>1. RemoteType' /\ OutType'
    BY <1>2 DEF RemoteFrame, RemoteType, OutType
  <2>. QED BY <1>2, <2>1, Same DEF RemoteFrame
<1>3. CASE LoopTop
  <2>1. EngineType' /\ BuildType'
    BY <1>3 DEF LoopTop, EngineType, BuildType, buildVars
  <2>. QED BY <1>3, <2>1, Same DEF LoopTop
<1>4. CASE RemotePath
  <2>1. cur' \in [Slots -> Key \cup {None}]
    <3>1. \A j \in Slots : RemoteAt(j - filled) \in Key \cup {None}
      BY RemoteAtType
    <3>. QED BY <1>4, <3>1 DEF RemotePath, MatrixType
  <2>2. MatrixType' /\ RemoteType' /\ BuildType'
    BY <1>4, <2>1 DEF RemotePath, MatrixType, RemoteType, BuildType
  <2>. QED BY <1>4, <2>2, Same DEF RemotePath
<1>5. CASE HoldPath
  <2>1. BuildType'
    BY <1>5 DEF HoldPath, BuildType
  <2>. QED BY <1>5, <2>1, Same DEF HoldPath
<1>6. CASE MatrixPath
  <2>1. MatrixType' /\ BuildType'
    BY <1>6 DEF MatrixPath, MatrixType, BuildType
  <2>. QED BY <1>6, <2>1, Same DEF MatrixPath
<1>7. CASE DetectReleases
  <2>1. 1 \in Slots
    BY ScanAssumption DEF Slots
  <2>2. EngineType' /\ BuildType'
    BY <1>7, <2>1 DEF DetectReleases, EngineType, BuildType
  <2>. QED BY <1>7, <2>2, Same DEF DetectReleases
<1>8. CASE ReadSlot
  <2>1. BuildType'
    BY <1>8 DEF ReadSlot, BuildType, MatrixType
  <2>. QED BY <1>8, <2>1, Same DEF ReadSlot
<1>9. CASE WriteSlot
  <2>1. MatrixType' /\ EngineType'
    BY <1>9 DEF WriteSlot, MatrixType, EngineType, BuildType
  <2>2. i' \in Slots
    BY <1>9, ScanAssumption DEF WriteSlot, BuildType, Slots
  <2>3. BuildType'
    BY <1>9, <2>2, Zenon DEF WriteSlot, BuildType
  <2>. QED BY <1>9, <2>1, <2>3, Same DEF WriteSlot
<1>10. CASE FinishKeys
  <2>1. EngineType' /\ BuildType'
    BY <1>10 DEF FinishKeys, EngineType, BuildType, buildVars
  <2>. QED BY <1>10, <2>1, Same DEF FinishKeys
<1>11. CASE InjectTap
  <2>1. PICK t \in Tap :
          /\ th' = [th EXCEPT ![t] = "idle"]
          /\ \/ UNCHANGED <<kc, inj>>
             \/ \E j \in EmptySlots : kc' = [kc EXCEPT ![j] = t] /\ inj' = inj \cup {j}
    BY <1>11 DEF InjectTap
  <2>2. EmptySlots \subseteq Slots /\ t \in Key
    BY DEF EmptySlots, Key
  <2>3. kc' \in [Slots -> Key \cup {None}] /\ inj' \subseteq Slots
    BY <2>1, <2>2 DEF MatrixType, EngineType
  <2>4. th' \in [Tap -> {"idle", "pending", "hold", "tap"}]
    BY <2>1 DEF EngineType
  <2>5. MatrixType' /\ EngineType'
    BY <1>11, <2>3, <2>4 DEF InjectTap, MatrixType, EngineType
  <2>. QED BY <1>11, <2>5, Same DEF InjectTap
<1>12. CASE TapsInjected
  <2>1. BuildType'
    BY <1>12 DEF TapsInjected, BuildType, buildVars
  <2>. QED BY <1>12, <2>1, Same DEF TapsInjected
<1>13. CASE SavePositions
  <2>1. EngineType' /\ BuildType'
    BY <1>13 DEF SavePositions, EngineType, BuildType, MatrixType, buildVars
  <2>. QED BY <1>13, <2>1, Same DEF SavePositions
<1>14. CASE SendHidKey
  <2>1. MatrixType' /\ BuildType'
    BY <1>14 DEF SendHidKey, MatrixType, BuildType, buildVars
  <2>2. Held(kc) \subseteq Key
    BY HeldType DEF MatrixType
  <2>3. out' \in [keys : SUBSET Key, mods : SUBSET Key]
    BY <1>14, <2>2 DEF SendHidKey, EngineType, Key
  <2>4. Pressed \subseteq Key
    <3>1. \A n \in DOMAIN local : local[n] \in Key
      BY DEF MatrixType
    <3>. QED BY <3>1, ScanAssumption DEF Pressed, RemoteType
  <2>5. OutType'
    BY <1>14, <2>3, <2>4 DEF SendHidKey, OutType
  <2>. QED BY <1>14, <2>1, <2>5, Same DEF SendHidKey
<1>15. CASE ClearTaps
  <2>1. MatrixType' /\ EngineType' /\ BuildType'
    BY <1>15 DEF ClearTaps, MatrixType, EngineType, BuildType, buildVars
  <2>. QED BY <1>15, <2>1, Same DEF ClearTaps
<1>16. CASE UNCHANGED vars
  BY <1>16, Same DEF vars
<1>. QED
  BY <1>1, <1>2, <1>3, <1>4, <1>5, <1>6, <1>7, <1>8, <1>9, <1>10, <1>11, <1>12,
     <1>13, <1>14, <1>15, <1>16 DEF Next, ScanSome, RemoteSome, Keyboard

\* The arrays shared by the callback and the keyboard task, the tap/hold table
\* and the report keep their shape whatever interrupts what.
THEOREM TypeCorrect == Spec => []TypeOK
BY TypeInit, TypeNext, PTL DEF Spec
-----------------------------------------------------------------------------
(* A press is never lost.  The flag tells whether the callback has written *)
(* since it was taken.  While it is down, nothing has moved under the      *)
(* build: every slot behind it holds the code of its key, and the code     *)
(* survives what follows, taps injected and taken out again included.      *)

\* The slots that the build in progress, or the last one, has written.
Written == {j \in Slots : pc # "build" /\ (pc \in {"read", "write"} => j < i)}

Between == pc \in {"wait", "remote", "hold", "matrix"}

SlotInv == \A j \in Written : cur[j] \in Plain => kc[j] = cur[j]
ReadInv == pc = "write" => key = cur[i]
OutInv  == Between \/ pc = "untap" => Held(cur) \cap Plain \subseteq out.keys
InjInv  == ~Between /\ pc # "build" => \A j \in inj : cur[j] \notin Plain

Undisturbed == SlotInv /\ ReadInv /\ OutInv /\ InjInv
IInv == TypeOK /\ (~flag => Undisturbed)

LEMMA ShownInit == Init => IInv
<1>. SUFFICES ASSUME Init PROVE Undisturbed
  BY TypeInit DEF IInv
<1>1. \A j \in Slots : cur[j] \notin Plain
  BY ScanAssumption DEF Init, NoKeys, Key
<1>. QED BY <1>1 DEF Init, Undisturbed, SlotInv, ReadInv, OutInv, InjInv, Written,
                     Between, Held

LEMMA ShownNext == IInv /\ [Next]_vars => IInv'
<1>. SUFFICES ASSUME IInv, [Next]_vars, ~flag' PROVE Undisturbed'
  BY TypeNext DEF IInv
<1>. USE DEF IInv
<1>0. \A k \in Plain : k \notin Tap /\ k \notin Mod /\ k # None
  BY ScanAssumption DEF Key
<1>1. ASSUME NEW k \in Key \ Right, Scan(k) PROVE FALSE
  BY <1>1 DEF Scan
<1>2. ASSUME NEW k \in Right, RemoteFrame(k) PROVE Undisturbed'
  BY <1>2 DEF RemoteFrame, scanVars, engineVars, buildVars, Undisturbed, SlotInv,
              ReadInv, OutInv, InjInv, Written, Between, Held
<1>3. CASE LoopTop
  BY <1>3 DEF LoopTop, scanVars, buildVars, Undisturbed, SlotInv,
              ReadInv, OutInv, InjInv, Written, Between, Held
<1>4. CASE RemotePath
  BY <1>4 DEF RemotePath, engineVars, Undisturbed, SlotInv,
              ReadInv, OutInv, InjInv, Written, Between, Held
<1>5. CASE HoldPath
  BY <1>5 DEF HoldPath, scanVars, engineVars, Undisturbed, SlotInv,
              ReadInv, OutInv, InjInv, Written, Between, Held
<1>6. CASE MatrixPath
  BY <1>6 DEF MatrixPath, engineVars, Undisturbed, SlotInv,
              ReadInv, OutInv, InjInv, Written, Between, Held
<1>7. CASE DetectReleases
  BY <1>7, ScanAssumption DEF DetectReleases, scanVars, Undisturbed, SlotInv, ReadInv,
              OutInv, InjInv, Written, Between, Slots
<1>8. CASE ReadSlot
  BY <1>8 DEF ReadSlot, scanVars, engineVars, Undisturbed, SlotInv,
              ReadInv, OutInv, InjInv, Written, Between
<1>9. CASE WriteSlot
  <2>1. i \in Slots /\ SLOTS \in Nat
    BY ScanAssumption DEF TypeOK, BuildType
  <2>2. /\ pc = "write" /\ key = cur[i] /\ ~flag
        /\ UNCHANGED <<cur, inj, out>>
        /\ kc' = IF key \in Tap THEN kc ELSE [kc EXCEPT ![i] = key]
        /\ \/ i < SLOTS /\ i' = i + 1 /\ pc' = "read"
           \/ i = SLOTS /\ pc' = "finish"
    BY <1>9, <2>1 DEF WriteSlot, Undisturbed, ReadInv, Slots
  <2>3. \A j \in Written' : j = i \/ j \in Written
    BY <2>1, <2>2 DEF Written, Slots
  <2>4. SlotInv'
    BY <2>2, <2>3, <1>0 DEF Undisturbed, SlotInv, Slots, Written, TypeOK, MatrixType
  <2>5. ReadInv' /\ OutInv' /\ InjInv'
    BY <2>2 DEF Undisturbed, ReadInv, OutInv, InjInv, Between
  <2>. QED BY <2>4, <2>5 DEF Undisturbed
<1>10. CASE FinishKeys
  BY <1>10 DEF FinishKeys, scanVars, buildVars, Undisturbed, SlotInv,
               ReadInv, OutInv, InjInv, Written, Between
<1>11. CASE InjectTap
  <2>1. pc = "inject" /\ ~flag /\ UNCHANGED <<cur, pc, i, out>>
    BY <1>11 DEF InjectTap, buildVars
  <2>2. PICK t \in Tap :
          \/ UNCHANGED <<kc, inj>>
          \/ \E j \in EmptySlots : kc' = [kc EXCEPT ![j] = t] /\ inj' = inj \cup {j}
    BY <1>11 DEF InjectTap
  <2>3. \A j \in EmptySlots : cur[j] \notin Plain
    BY <2>1, <1>0 DEF EmptySlots, Undisturbed, SlotInv, Written
  <2>4. SlotInv' /\ InjInv'
    BY <2>1, <2>2, <2>3 DEF Undisturbed, SlotInv, InjInv, Written, EmptySlots,
                            TypeOK, MatrixType, Between
  <2>5. ReadInv' /\ OutInv'
    BY <2>1 DEF ReadInv, OutInv, Between
  <2>. QED BY <2>4, <2>5 DEF Undisturbed
<1>12. CASE TapsInjected
  BY <1>12 DEF TapsInjected, scanVars, engineVars, buildVars, Undisturbed, SlotInv,
               ReadInv, OutInv, InjInv, Written, Between
<1>13. CASE SavePositions
  BY <1>13 DEF SavePositions, scanVars, buildVars, Undisturbed, SlotInv,
               ReadInv, OutInv, InjInv, Written, Between
<1>14. CASE SendHidKey
  <2>1. /\ pc = "send" /\ ~flag /\ UNCHANGED <<cur, i, inj>>
        /\ pc' \in {"hold", "matrix", "untap", "wait"}
        /\ kc' = [j \in Slots |-> IF kc[j] \in Mod THEN None ELSE kc[j]]
        /\ out'.keys = Held(kc) \ Mod
    BY <1>14 DEF SendHidKey, buildVars, engineVars
  <2>2. \A j \in Slots : cur[j] \in Plain => kc[j] = cur[j] /\ kc'[j] = cur[j]
    BY <2>1, <1>0 DEF Undisturbed, SlotInv, Written
  <2>3. SlotInv' /\ ReadInv' /\ InjInv'
    BY <2>1, <2>2 DEF Undisturbed, SlotInv, ReadInv, InjInv, Written, Between
  <2>4. Held(cur) \cap Plain \subseteq out'.keys
    BY <2>1, <2>2, <1>0 DEF Held
  <2>5. OutInv'
    BY <2>1, <2>4 DEF OutInv, Held
  <2>. QED BY <2>3, <2>5 DEF Undisturbed
<1>15. CASE ClearTaps
  <2>1. /\ pc = "untap" /\ pc' = "send" /\ ~flag /\ UNCHANGED <<cur, i>>
        /\ kc' = [j \in Slots |-> IF j \in inj THEN None ELSE kc[j]]
        /\ inj' = {}
    BY <1>15 DEF ClearTaps, buildVars
  <2>2. SlotInv'
    BY <2>1 DEF Undisturbed, SlotInv, InjInv, Written, Between
  <2>. QED BY <2>1, <2>2 DEF Undisturbed, ReadInv, OutInv, InjInv, Between
<1>16. CASE UNCHANGED vars
  BY <1>16 DEF vars, scanVars, engineVars, buildVars, Undisturbed, SlotInv,
               ReadInv, OutInv, InjInv, Written, Between, Held
<1>. QED
  BY <1>1, <1>2, <1>3, <1>4, <1>5, <1>6, <1>7, <1>8, <1>9, <1>10, <1>11, <1>12,
     <1>13, <1>14, <1>15, <1>16 DEF Next, ScanSome, RemoteSome, Keyboard

\* matrix_flag.h promises that a press may be read twice and is never lost: taking
\* the flag before the read is enough for that, for any keymap, any number of
\* slots, and with the callback between any two steps of a build.
THEOREM NoPressLost == Spec => []PressShown
<1>1. IInv => PressShown
  BY DEF IInv, Undisturbed, OutInv, PressShown, AtRest, Between
<1>. QED BY <1>1, ShownInit, ShownNext, PTL DEF Spec
-----------------------------------------------------------------------------
(* Nor is a key stuck, on a keymap without mod-taps: a slot that was read  *)
(* before the callback and written after it is written again by the next   *)
(* build.  A mod-tap that has come into the slot would leave it alone.     *)

NoneLeft == \A j \in Written : kc[j] \in Plain => kc[j] = cur[j]
OutIsCur == Between \/ pc = "untap" => out.keys \cap Plain \subseteq Held(cur)
Clean    == NoneLeft /\ ReadInv /\ OutIsCur

CInv == TypeOK /\ (~flag => Clean)

LEMMA CleanInit == Init => CInv
<1>. SUFFICES ASSUME Init PROVE Clean
  BY TypeInit DEF CInv
<1>1. \A j \in Slots : kc[j] \notin Plain
  BY ScanAssumption DEF Init, NoKeys, Key
<1>. QED BY <1>1 DEF Init, Clean, NoneLeft, ReadInv, OutIsCur, Written

LEMMA CleanNext == ASSUME Tap = {} PROVE CInv /\ [Next]_vars => CInv'
<1>. SUFFICES ASSUME CInv, [Next]_vars, ~flag' PROVE Clean'
  BY TypeNext DEF CInv
<1>. USE DEF CInv
<1>0. \A k \in Plain : k \notin Mod /\ k # None
  BY ScanAssumption DEF Key
<1>1. ASSUME NEW k \in Key \ Right, Scan(k) PROVE FALSE
  BY <1>1 DEF Scan
<1>2. ASSUME NEW k \in Right, RemoteFrame(k) PROVE Clean'
  BY <1>2 DEF RemoteFrame, scanVars, buildVars, Clean, NoneLeft, ReadInv, OutIsCur,
              Written, Between, Held
<1>3. CASE LoopTop \/ RemotePath \/ HoldPath \/ MatrixPath
  BY <1>3 DEF LoopTop, RemotePath, HoldPath, MatrixPath, scanVars, buildVars, Clean,
              NoneLeft, ReadInv, OutIsCur, Written, Between, Held
<1>4. CASE DetectReleases
  BY <1>4, ScanAssumption DEF DetectReleases, scanVars, Clean, NoneLeft, ReadInv,
              OutIsCur, Written, Between, Slots
<1>5. CASE ReadSlot
  BY <1>5 DEF ReadSlot, scanVars, Clean, NoneLeft, ReadInv, OutIsCur, Written, Between
<1>6. CASE WriteSlot
  <2>1. i \in Slots /\ SLOTS \in Nat
    BY ScanAssumption DEF TypeOK, BuildType
  <2>2. /\ pc = "write" /\ key = cur[i] /\ ~flag
        /\ UNCHANGED <<cur, out>>
        /\ kc' = [kc EXCEPT ![i] = key]
        /\ \/ i < SLOTS /\ i' = i + 1 /\ pc' = "read"
           \/ i = SLOTS /\ pc' = "finish"
    BY <1>6, <2>1 DEF WriteSlot, Clean, ReadInv, Slots
  <2>3. \A j \in Written' : j = i \/ j \in Written
    BY <2>1, <2>2 DEF Written, Slots
  <2>4. NoneLeft'
    BY <2>2, <2>3 DEF Clean, NoneLeft, Written, TypeOK, MatrixType
  <2>. QED BY <2>2, <2>4 DEF Clean, ReadInv, OutIsCur, Between
<1>7. CASE FinishKeys \/ TapsInjected \/ SavePositions
  BY <1>7 DEF FinishKeys, TapsInjected, SavePositions, scanVars, buildVars, Clean,
              NoneLeft, ReadInv, OutIsCur, Written, Between
<1>8. CASE InjectTap
  BY <1>8 DEF InjectTap
<1>9. CASE SendHidKey
  <2>1. /\ pc = "send" /\ ~flag /\ UNCHANGED <<cur, i>>
        /\ pc' \in {"hold", "matrix", "untap", "wait"}
        /\ kc' = [j \in Slots |-> IF kc[j] \in Mod THEN None ELSE kc[j]]
        /\ out'.keys = Held(kc) \ Mod
    BY <1>9 DEF SendHidKey, buildVars
  <2>2. \A j \in Slots : kc[j] \in Plain => kc[j] = cur[j]
    BY <2>1 DEF Clean, NoneLeft, Written
  <2>3. \A j \in Slots : kc'[j] \in Plain => kc'[j] = cur[j]
    BY <2>1, <2>2, <1>0
  <2>4. out'.keys \cap Plain \subseteq Held(cur)
    BY <2>1, <2>2, <1>0 DEF Held
  <2>. QED BY <2>1, <2>3, <2>4 DEF Clean, NoneLeft, ReadInv, OutIsCur, Written, Held
<1>10. CASE ClearTaps
  <2>1. /\ pc = "untap" /\ pc' = "send" /\ ~flag /\ UNCHANGED <<cur, i>>
        /\ kc' = [j \in Slots |-> IF j \in inj THEN None ELSE kc[j]]
    BY <1>10 DEF ClearTaps, buildVars
  <2>. QED BY <2>1, <1>0 DEF Clean, NoneLeft, ReadInv, OutIsCur, Written, Between
<1>11. CASE UNCHANGED vars
  BY <1>11 DEF vars, scanVars, buildVars, Clean, NoneLeft, ReadInv, OutIsCur,
               Written, Between, Held
<1>. QED
  BY <1>1, <1>2, <1>3, <1>4, <1>5, <1>6, <1>7, <1>8, <1>9, <1>10, <1>11
     DEF Next, ScanSome, RemoteSome, Keyboard

\* Without mod-taps no released key stays in the report: build_keycode_report
\* empties every slot whose position is gone.
THEOREM NoKeyStuck == ASSUME Tap = {} PROVE Spec => []ReleaseShown
<1>1. CInv => ReleaseShown
  BY DEF CInv, Clean, OutIsCur, ReleaseShown, AtRest, Between
<1>2. CInv /\ [Next]_vars => CInv'
  BY CleanNext
<1>. QED BY <1>1, <1>2, CleanInit, PTL DEF Spec
-----------------------------------------------------------------------------
(* What the host has of the holds.  A hold that the timer begins is sent   *)
(* by the build of the same turn of the loop.                              *)

Holds    == {t \in Tap : th[t] = "hold"}
HoldSent == pc \in {"wait", "matrix"} \/ (pc \in {"remote", "hold"} /\ ~expired)
              => out.mods \cap Tap = Holds
HoldMods == pc \in {"inject", "save", "send", "untap"} => rmods = Holds
TapWaits == \A t \in Tap : th[t] = "tap" => pc \in {"read", "write", "finish", "inject"}

HInv == TypeOK /\ HoldSent /\ HoldMods /\ TapWaits

LEMMA HoldNext == HInv /\ [Next]_vars => HInv'
<1>. SUFFICES ASSUME HInv, [Next]_vars PROVE HoldSent' /\ HoldMods' /\ TapWaits'
  BY TypeNext DEF HInv
<1>. USE DEF HInv
<1>1. ASSUME NEW k \in Key \ Right, Scan(k) PROVE HoldSent' /\ HoldMods' /\ TapWaits'
  BY <1>1 DEF Scan, engineVars, buildVars, HoldSent, HoldMods, TapWaits, Holds
<1>2. ASSUME NEW k \in Right, RemoteFrame(k) PROVE HoldSent' /\ HoldMods' /\ TapWaits'
  BY <1>2 DEF RemoteFrame, engineVars, buildVars, HoldSent, HoldMods, TapWaits, Holds
<1>3. CASE LoopTop
  <2>1. PICK old \in SUBSET {t \in Tap : th[t] = "pending"} :
          /\ th' = [t \in Tap |-> IF t \in old THEN "hold" ELSE th[t]]
          /\ expired' = (old # {})
    BY <1>3 DEF LoopTop
  <2>2. CASE old = {}
    <3>1. Holds' = Holds /\ \A t \in Tap : th'[t] = th[t]
      BY <2>1, <2>2 DEF Holds
    <3>. QED BY <1>3, <3>1 DEF LoopTop, HoldSent, HoldMods, TapWaits
  <2>3. CASE old # {}
    BY <1>3, <2>1, <2>3 DEF LoopTop, HoldSent, HoldMods, TapWaits
  <2>. QED BY <2>2, <2>3
<1>4. CASE RemotePath \/ HoldPath \/ MatrixPath \/ ReadSlot
  BY <1>4 DEF RemotePath, HoldPath, MatrixPath, ReadSlot, engineVars, HoldSent, HoldMods,
              TapWaits, Holds
<1>5. CASE DetectReleases
  BY <1>5 DEF DetectReleases, HoldSent, HoldMods, TapWaits
<1>6. CASE WriteSlot
  BY <1>6 DEF WriteSlot, HoldSent, HoldMods, TapWaits
<1>7. CASE FinishKeys
  BY <1>7 DEF FinishKeys, HoldSent, HoldMods, TapWaits, Holds
<1>8. CASE InjectTap
  <2>1. PICK t \in Tap : th[t] = "tap" /\ th' = [th EXCEPT ![t] = "idle"]
    BY <1>8 DEF InjectTap
  <2>2. Holds' = Holds
    BY <2>1 DEF Holds, TypeOK, EngineType
  <2>. QED BY <1>8, <2>1, <2>2 DEF InjectTap, HoldSent, HoldMods, TapWaits
<1>9. CASE TapsInjected \/ SavePositions \/ ClearTaps
  BY <1>9 DEF TapsInjected, SavePositions, ClearTaps, engineVars, HoldSent, HoldMods,
              TapWaits, Holds
<1>10. CASE SendHidKey
  <2>1. rmods = Holds /\ out'.mods = (Held(kc) \cap Mod) \cup rmods
    BY <1>10 DEF SendHidKey, HoldMods
  <2>2. out'.mods \cap Tap = Holds
    BY <2>1, ScanAssumption DEF Holds
  <2>. QED BY <1>10, <2>2 DEF SendHidKey, engineVars, HoldSent, HoldMods, TapWaits, Holds
<1>11. CASE UNCHANGED vars
  BY <1>11 DEF vars, engineVars, HoldSent, HoldMods, TapWaits, Holds
<1>. QED
  BY <1>1, <1>2, <1>3, <1>4, <1>5, <1>6, <1>7, <1>8, <1>9, <1>10, <1>11
     DEF Next, ScanSome, RemoteSome, Keyboard

\* key_processor.c reads the modifiers again after tap_hold_interrupt: the host
\* has those of the holds, and no resolved tap is left, whatever moved meanwhile.
THEOREM HoldsReachHost == Spec => []HoldsAreSent
<1>1. Init => HInv
  BY TypeInit DEF Init, HInv, HoldSent, HoldMods, TapWaits, Holds
<1>2. HInv => HoldsAreSent
  BY DEF HInv, HoldSent, TapWaits, Holds, HoldsAreSent, AtRest
<1>. QED BY <1>1, <1>2, HoldNext, PTL DEF Spec
-----------------------------------------------------------------------------
(* A mod-tap that is down is followed: while the flag is down, those of    *)
(* the slots behind the build are, and a tap is of a key that is up.       *)

Followed == \A j \in Written : cur[j] \in Tap => th[cur[j]] \in {"pending", "hold"}
TapIsUp  == \A t \in Tap : th[t] = "tap" => t \notin Held(cur)
Tracked  == Followed /\ TapIsUp /\ ReadInv

TInv == HInv /\ (~flag => Tracked)

LEMMA TrackNext == TInv /\ [Next]_vars => TInv'
<1>. SUFFICES ASSUME TInv, [Next]_vars, ~flag' PROVE Tracked'
  BY HoldNext DEF TInv
<1>. USE DEF TInv
<1>1. ASSUME NEW k \in Key \ Right, Scan(k) PROVE FALSE
  BY <1>1 DEF Scan
<1>2. ASSUME NEW k \in Right, RemoteFrame(k) PROVE Tracked'
  BY <1>2 DEF RemoteFrame, scanVars, engineVars, buildVars, Tracked, Followed, TapIsUp,
              ReadInv, Written, Held
<1>3. CASE LoopTop
  BY <1>3 DEF LoopTop, scanVars, buildVars, Tracked, Followed, TapIsUp, ReadInv, Written,
              Held
<1>4. CASE RemotePath
  BY <1>4 DEF RemotePath, engineVars, Tracked, Followed, TapIsUp, ReadInv, Written, Held,
              HInv, TapWaits
<1>5. CASE HoldPath \/ MatrixPath
  BY <1>5 DEF HoldPath, MatrixPath, scanVars, engineVars, Tracked, Followed, TapIsUp,
              ReadInv, Written, Held, HInv, TapWaits
<1>6. CASE DetectReleases
  <2>1. TapIsUp'
    BY <1>6 DEF DetectReleases, scanVars, TapIsUp, Held, HInv, TapWaits
  <2>. QED BY <1>6, <2>1, ScanAssumption DEF DetectReleases, Tracked, Followed, ReadInv,
                                             Written, Slots
<1>7. CASE ReadSlot
  BY <1>7 DEF ReadSlot, scanVars, engineVars, Tracked, Followed, TapIsUp, ReadInv, Written,
              Held
<1>8. CASE WriteSlot
  <2>1. i \in Slots /\ SLOTS \in Nat /\ th \in [Tap -> {"idle", "pending", "hold", "tap"}]
    BY ScanAssumption DEF HInv, TypeOK, BuildType, EngineType
  <2>2. /\ pc = "write" /\ key = cur[i] /\ ~flag /\ cur' = cur
        /\ th' = [t \in Tap |-> IF t = key /\ th[t] = "idle" THEN "pending" ELSE th[t]]
        /\ \/ i < SLOTS /\ i' = i + 1 /\ pc' = "read"
           \/ i = SLOTS /\ pc' = "finish"
    BY <1>8, <2>1 DEF WriteSlot, Tracked, ReadInv, Slots
  <2>3. \A j \in Written' : j = i \/ j \in Written
    BY <2>1, <2>2 DEF Written, Slots
  <2>4. cur[i] \in Tap => th[cur[i]] # "tap"
    <3>1. cur[i] \in Tap => cur[i] # None
      BY ScanAssumption DEF Key
    <3>. QED BY <2>1, <2>2, <3>1 DEF Tracked, TapIsUp, Held
  <2>5. Followed'
    BY <2>1, <2>2, <2>3, <2>4 DEF Tracked, Followed
  <2>6. TapIsUp' /\ ReadInv'
    BY <2>1, <2>2 DEF Tracked, TapIsUp, ReadInv, Held
  <2>. QED BY <2>5, <2>6 DEF Tracked
<1>9. CASE FinishKeys
  BY <1>9 DEF FinishKeys, scanVars, buildVars, Tracked, Followed, TapIsUp, ReadInv, Written,
              Held
<1>10. CASE InjectTap
  <2>1. PICK t \in Tap : th[t] = "tap" /\ th' = [th EXCEPT ![t] = "idle"]
    BY <1>10 DEF InjectTap
  <2>2. /\ pc = "inject" /\ pc' = pc /\ ~flag /\ UNCHANGED <<cur, i>>
        /\ th \in [Tap -> {"idle", "pending", "hold", "tap"}]
    BY <1>10 DEF InjectTap, buildVars, HInv, TypeOK, EngineType
  <2>3. Followed'
    BY <2>1, <2>2 DEF Tracked, Followed, Written
  <2>4. TapIsUp' /\ ReadInv'
    BY <2>1, <2>2 DEF Tracked, TapIsUp, ReadInv, Held
  <2>. QED BY <2>3, <2>4 DEF Tracked
<1>11. CASE TapsInjected \/ SavePositions \/ SendHidKey \/ ClearTaps
  BY <1>11 DEF TapsInjected, SavePositions, SendHidKey, ClearTaps, scanVars, engineVars,
               buildVars, Tracked, Followed, TapIsUp, ReadInv, Written, Held
<1>12. CASE UNCHANGED vars
  BY <1>12 DEF vars, scanVars, engineVars, buildVars, Tracked, Followed, TapIsUp, ReadInv,
               Written, Held
<1>. QED
  BY <1>1, <1>2, <1>3, <1>4, <1>5, <1>6, <1>7, <1>8, <1>9, <1>10, <1>11, <1>12
     DEF Next, ScanSome, RemoteSome, Keyboard

\* A mod-tap that is down is followed by the engine, although its press may fall
\* between any two steps of a build (tap_hold_on_press looks for the entry of the
\* position and not for a new press).
THEOREM TapsAreTracked == Spec => []PressIsTracked
<1>1. Init => TInv
  <2>1. Init => HInv
    BY TypeInit DEF Init, HInv, HoldSent, HoldMods, TapWaits, Holds
  <2>2. Init => Tracked
    <3>1. None \notin Tap
      BY ScanAssumption DEF Key
    <3>2. Written \subseteq Slots
      BY DEF Written
    <3>. QED BY <3>1, <3>2 DEF Init, NoKeys, Tracked, Followed, TapIsUp, ReadInv, Held
  <2>. QED BY <2>1, <2>2 DEF TInv
<1>2. TInv => PressIsTracked
  BY DEF TInv, Tracked, Followed, Written, Held, PressIsTracked, AtRest
<1>. QED BY <1>1, <1>2, TrackNext, PTL DEF Spec
-----------------------------------------------------------------------------
(* The physical modifiers.  send_hid_key takes their codes out of the      *)
(* slots, so that a second report of the same build would lack them: only  *)
(* taps ask for one.                                                       *)

ModsKept == \A j \in Written :
               ~Between => (kc[j] \in Mod \/ cur[j] \in Mod => kc[j] = cur[j])
OutMods  == Between => out.mods \cap Mod = Held(cur) \cap Mod
Modded   == ModsKept /\ OutMods /\ ReadInv
NoTaps   == ~Between /\ pc # "build" => inj = {}

MInv == TypeOK /\ NoTaps /\ pc # "untap" /\ (~flag => Modded)

LEMMA ModsNext == ASSUME Tap = {}, MInv, [Next]_vars PROVE MInv'
<1>. USE DEF MInv
<1>1. TypeOK' /\ rmods = {} /\ Between' \in BOOLEAN
  BY TypeNext DEF TypeOK, EngineType, Between
<1>2. NoTaps' /\ pc' # "untap"
  <2>1. ASSUME NEW k \in Key \ Right, Scan(k) PROVE NoTaps' /\ pc' # "untap"
    BY <2>1 DEF Scan, engineVars, NoTaps, Between
  <2>2. ASSUME NEW k \in Right, RemoteFrame(k) PROVE NoTaps' /\ pc' # "untap"
    BY <2>2 DEF RemoteFrame, engineVars, NoTaps, Between
  <2>3. CASE Keyboard
    BY <2>3 DEF Keyboard, LoopTop, RemotePath, HoldPath, MatrixPath, DetectReleases,
                ReadSlot, WriteSlot, FinishKeys, InjectTap, TapsInjected, SavePositions,
                SendHidKey, ClearTaps, engineVars, NoTaps, Between
  <2>4. CASE UNCHANGED vars
    BY <2>4 DEF vars, engineVars, NoTaps, Between
  <2>. QED BY <2>1, <2>2, <2>3, <2>4 DEF Next, ScanSome, RemoteSome
<1>. SUFFICES ASSUME ~flag' PROVE Modded'
  BY <1>1, <1>2
<1>3. ASSUME NEW k \in Key \ Right, Scan(k) PROVE FALSE
  BY <1>3 DEF Scan
<1>4. ASSUME NEW k \in Right, RemoteFrame(k) PROVE Modded'
  BY <1>4 DEF RemoteFrame, scanVars, buildVars, Modded, ModsKept, OutMods, ReadInv,
              Written, Between, Held
<1>5. CASE LoopTop
  BY <1>5 DEF LoopTop, scanVars, buildVars, Modded, ModsKept, OutMods, ReadInv, Written,
              Between, Held
<1>6. CASE RemotePath \/ HoldPath \/ MatrixPath
  BY <1>6 DEF RemotePath, HoldPath, MatrixPath, scanVars, Modded, ModsKept, OutMods,
              ReadInv, Written, Between, Held
<1>7. CASE DetectReleases
  BY <1>7, ScanAssumption DEF DetectReleases, Modded, ModsKept, OutMods, ReadInv, Written,
                              Between, Slots
<1>8. CASE ReadSlot
  BY <1>8 DEF ReadSlot, scanVars, Modded, ModsKept, OutMods, ReadInv, Written, Between, Held
<1>9. CASE WriteSlot
  <2>1. i \in Slots /\ SLOTS \in Nat /\ kc \in [Slots -> Key \cup {None}]
    BY ScanAssumption DEF TypeOK, BuildType, MatrixType
  <2>2. /\ pc = "write" /\ key = cur[i] /\ ~flag /\ cur' = cur
        /\ kc' = [kc EXCEPT ![i] = key]
        /\ \/ i < SLOTS /\ i' = i + 1 /\ pc' = "read"
           \/ i = SLOTS /\ pc' = "finish"
    BY <1>9, <2>1 DEF WriteSlot, Modded, ReadInv, Slots
  <2>3. \A j \in Written' : j = i \/ j \in Written
    BY <2>1, <2>2 DEF Written, Slots
  <2>4. ModsKept'
    BY <2>1, <2>2, <2>3 DEF Modded, ModsKept, Between, Written
  <2>. QED BY <2>2, <2>4 DEF Modded, OutMods, ReadInv, Between
<1>10. CASE FinishKeys \/ TapsInjected \/ SavePositions
  BY <1>10 DEF FinishKeys, TapsInjected, SavePositions, scanVars, buildVars, Modded,
               ModsKept, OutMods, ReadInv, Written, Between
<1>11. CASE InjectTap \/ ClearTaps
  BY <1>11 DEF InjectTap, ClearTaps
<1>12. CASE SendHidKey
  <2>1. /\ pc = "send" /\ ~flag /\ UNCHANGED <<cur, i>>
        /\ pc' \in {"hold", "matrix", "untap", "wait"}
        /\ out'.mods = Held(kc) \cap Mod
    BY <1>12, <1>1 DEF SendHidKey, buildVars
  <2>2. \A j \in Slots : kc[j] \in Mod \/ cur[j] \in Mod => kc[j] = cur[j]
    BY <2>1 DEF Modded, ModsKept, Written, Between
  <2>3. out'.mods \cap Mod = Held(cur) \cap Mod
    BY <2>1, <2>2 DEF Held
  <2>. QED BY <2>1, <2>3, <1>2 DEF Modded, ModsKept, OutMods, ReadInv, Between, Held
<1>13. CASE UNCHANGED vars
  BY <1>13 DEF vars, scanVars, buildVars, Modded, ModsKept, OutMods, ReadInv, Written,
               Between, Held
<1>. QED
  BY <1>3, <1>4, <1>5, <1>6, <1>7, <1>8, <1>9, <1>10, <1>11, <1>12, <1>13
     DEF Next, ScanSome, RemoteSome, Keyboard

\* Without mod-taps the modifier byte has the physical modifiers that are down:
\* extract_modifiers moves each code once, and each build writes it again.
THEOREM ModifiersReachHost == ASSUME Tap = {} PROVE Spec => []ModifiersShown
<1>1. Init => MInv
  <2>1. None \notin Mod
    BY ScanAssumption DEF Key
  <2>. QED BY TypeInit, <2>1 DEF Init, NoKeys, MInv, NoTaps, Modded, ModsKept, OutMods,
                                 ReadInv, Between, Held
<1>2. MInv => ModifiersShown
  BY DEF MInv, Modded, OutMods, ModifiersShown, AtRest, Between
<1>3. MInv /\ [Next]_vars => MInv'
  BY ModsNext
<1>. QED BY <1>1, <1>2, <1>3, PTL DEF Spec
-----------------------------------------------------------------------------
(* A tap is taken out again, on a keyboard of one half with one mod-tap.   *)
(* The code of a tap stands in a slot only where inj says so, and only in  *)
(* a matrix build: in a build of the hold path the mod-tap is on hold, and *)
(* its release makes no tap.                                               *)

TapSlots  == \A j \in Slots : kc[j] \in Tap => /\ j \in inj /\ path = "matrix"
                                               /\ pc \in {"inject", "save", "send", "untap"}
TapSent   == out.keys \cap Tap # {} => pc \in {"send", "untap"}
OneHalf   == ~rchanged /\ path # "remote"
HoldBuild ==
  /\ (pc \in {"remote", "hold"} /\ expired) \/ (pc = "build" /\ path = "hold")
       => \A t \in Tap : th[t] = "hold"
  /\ pc \in {"read", "write", "finish", "inject", "save", "send", "untap"} /\ path = "hold"
       => \A t \in Tap : th[t] # "tap"

UInv == TypeOK /\ TapSlots /\ TapSent /\ OneHalf /\ HoldBuild

LEMMA UntapNext ==
  ASSUME ~HALF, \A s, t \in Tap : s = t, UInv, [Next]_vars
  PROVE  UInv'
<1>. USE DEF UInv
<1>0. /\ TypeOK' /\ None \notin Tap /\ Right = {}
      /\ th \in [Tap -> {"idle", "pending", "hold", "tap"}]
      /\ kc \in [Slots -> Key \cup {None}]
  BY TypeNext, ScanAssumption DEF Key, TypeOK, EngineType, MatrixType
<1>. SUFFICES TapSlots' /\ TapSent' /\ OneHalf' /\ HoldBuild'
  BY <1>0
<1>1. ASSUME NEW k \in Key \ Right, Scan(k) PROVE TapSlots' /\ TapSent' /\ OneHalf' /\ HoldBuild'
  <2>1. TapSlots'
    BY <1>0, <1>1 DEF Scan, NoKeys, TapSlots
  <2>. QED BY <1>1, <2>1 DEF Scan, remoteVars, engineVars, buildVars, TapSent, OneHalf, HoldBuild
<1>2. ASSUME NEW k \in Right, RemoteFrame(k) PROVE FALSE
  BY <1>2 DEF RemoteFrame
<1>3. CASE LoopTop
  <2>1. PICK old \in SUBSET {t \in Tap : th[t] = "pending"} :
          /\ th' = [t \in Tap |-> IF t \in old THEN "hold" ELSE th[t]]
          /\ expired' = (old # {})
    BY <1>3 DEF LoopTop
  <2>2. HoldBuild'
    BY <1>3, <2>1 DEF LoopTop, HoldBuild
  <2>. QED BY <1>3, <2>2 DEF LoopTop, scanVars, remoteVars, buildVars, TapSlots, TapSent, OneHalf
<1>4. CASE RemotePath \/ HoldPath \/ MatrixPath
  BY <1>4 DEF RemotePath, HoldPath, MatrixPath, scanVars, remoteVars, engineVars, TapSlots,
              TapSent, OneHalf, HoldBuild
<1>5. CASE DetectReleases
  <2>1. /\ pc = "build" /\ pc' = "read" /\ UNCHANGED <<kc, path, rchanged, out>>
        /\ th' = [t \in Tap |-> IF t \notin Held(prev) \ Held(cur) THEN th[t]
                                ELSE IF th[t] = "pending" THEN "tap" ELSE "idle"]
    BY <1>5 DEF DetectReleases, scanVars, remoteVars
  <2>. QED BY <2>1 DEF TapSlots, TapSent, OneHalf, HoldBuild
<1>6. CASE ReadSlot
  BY <1>6 DEF ReadSlot, scanVars, remoteVars, engineVars, TapSlots, TapSent, OneHalf, HoldBuild
<1>7. CASE WriteSlot
  <2>1. /\ pc = "write" /\ pc' \in {"read", "finish"} /\ UNCHANGED <<path, rchanged, out>>
        /\ kc' = IF key \in Tap THEN kc ELSE [kc EXCEPT ![i] = key]
        /\ th' = [t \in Tap |-> IF t = key /\ th[t] = "idle" THEN "pending" ELSE th[t]]
    BY <1>7 DEF WriteSlot, remoteVars
  <2>. QED BY <1>0, <2>1 DEF TapSlots, TapSent, OneHalf, HoldBuild
<1>8. CASE FinishKeys
  BY <1>8 DEF FinishKeys, scanVars, remoteVars, buildVars, TapSlots, TapSent, OneHalf, HoldBuild
<1>9. CASE InjectTap
  <2>1. PICK t \in Tap :
          /\ th[t] = "tap" /\ th' = [th EXCEPT ![t] = "idle"]
          /\ \/ UNCHANGED <<kc, inj>>
             \/ \E j \in EmptySlots : kc' = [kc EXCEPT ![j] = t] /\ inj' = inj \cup {j}
    BY <1>9 DEF InjectTap
  <2>2. pc = "inject" /\ UNCHANGED <<pc, path, expired, rchanged, out>>
    BY <1>9 DEF InjectTap, remoteVars, buildVars
  <2>3. path = "matrix"
    BY <2>1, <2>2 DEF HoldBuild, OneHalf, TypeOK, BuildType
  <2>4. TapSlots'
    BY <1>0, <2>1, <2>2, <2>3 DEF TapSlots
  <2>. QED BY <2>2, <2>3, <2>4 DEF TapSent, OneHalf, HoldBuild
<1>10. CASE TapsInjected \/ SavePositions
  BY <1>10 DEF TapsInjected, SavePositions, scanVars, remoteVars, engineVars, buildVars,
               TapSlots, TapSent, OneHalf, HoldBuild
<1>11. CASE SendHidKey
  <2>1. /\ pc = "send" /\ UNCHANGED <<path, inj, th, expired, rchanged>>
        /\ out'.keys = Held(kc) \ Mod
        /\ kc' = [j \in Slots |-> IF kc[j] \in Mod THEN None ELSE kc[j]]
        /\ pc' = IF path = "hold" THEN "matrix" ELSE IF inj # {} THEN "untap" ELSE "wait"
    BY <1>11 DEF SendHidKey, remoteVars, engineVars, buildVars, OneHalf
  <2>2. pc' # "untap" => \A j \in Slots : kc[j] \notin Tap
    BY <2>1 DEF TapSlots
  <2>3. TapSlots'
    BY <1>0, <2>1, <2>2 DEF TapSlots
  <2>4. TapSent'
    BY <2>1, <2>2 DEF TapSent, Held
  <2>. QED BY <2>1, <2>3, <2>4 DEF OneHalf, HoldBuild
<1>12. CASE ClearTaps
  <2>1. /\ pc = "untap" /\ pc' = "send" /\ UNCHANGED <<path, th, rchanged, out>>
        /\ kc' = [j \in Slots |-> IF j \in inj THEN None ELSE kc[j]]
    BY <1>12 DEF ClearTaps, remoteVars, buildVars
  <2>2. TapSlots'
    BY <1>0, <2>1 DEF TapSlots
  <2>. QED BY <2>1, <2>2 DEF TapSent, OneHalf, HoldBuild
<1>13. CASE UNCHANGED vars
  BY <1>13 DEF vars, scanVars, remoteVars, engineVars, buildVars, TapSlots, TapSent, OneHalf,
               HoldBuild
<1>. QED
  BY <1>1, <1>2, <1>3, <1>4, <1>5, <1>6, <1>7, <1>8, <1>9, <1>10, <1>11, <1>12, <1>13
     DEF Next, ScanSome, RemoteSome, Keyboard

\* key_processor_clear_taps: a code injected into a report is taken out again, with
\* one mod-tap on a keyboard of one half.  With two, or with two halves, it may stay.
THEOREM TapsAreReleased ==
  ASSUME ~HALF, \A s, t \in Tap : s = t PROVE Spec => []TapIsReleased
<1>1. Init => UInv
  BY TypeInit, ScanAssumption DEF Init, NoKeys, Key, UInv, TapSlots, TapSent, OneHalf, HoldBuild
<1>2. UInv => TapIsReleased
  BY DEF UInv, TapSent, TapIsReleased, AtRest
<1>3. UInv /\ [Next]_vars => UInv'
  BY UntapNext
<1>. QED BY <1>1, <1>2, <1>3, PTL DEF Spec
=============================================================================
