------------------------- MODULE OpenPgpCard_proofs -------------------------
(***************************************************************************)
(* What holds of OpenPgpCard for any number of attempts, slots, keys,      *)
(* signatures and failed saves.                                            *)
(***************************************************************************)
EXTENDS OpenPgpCard, TLAPS

USE CardAssumption

\* Where the steps of a command leave the state.
FlowInv ==
  /\ pc \notin {"migrate", "seed", "wipePins", "reseed"} => Seeded
  /\ terminated => pc \in {"idle", "wipeKeys", "wipePins", "reseed", "reserial"}
  /\ pc = "wrong" => arg \in Pw
  /\ pc = "made" => arg \in SLOTS /\ born > 0 /\ keys[arg] = born /\ signed[born] = 0
  /\ pc = "zero" => keys["SIG"] # 0 /\ signed[keys["SIG"]] = 0
  /\ pc = "count" => keys["SIG"] # 0 /\ dos.count < SIGS
  /\ \A k \in 1..KEYS : k > born => signed[k] = 0

\* The PINs are saved but for the command that is about to.
PinsInv ==
  ~silent => /\ pc \notin {"right", "wrong", "wipePins"} => pins = LoadedPins
             /\ pc # "wipePins" => pins.since = LoadedPins.since

\* The keys in use are saved but for the one that has just been made.
KeysInv ==
  \A s \in SLOTS : keys[s] # 0 /\ ~(pc = "made" /\ s = arg) => LoadedKeys[s] = keys[s]

\* The attempts that were answered are spent, in RAM and in the flash.
TriesInv ==
  ~silent => \A p \in Pw :
    /\ LoadedPins.left[p] + wrong[p] <= RETRIES
    /\ pins.left[p] + wrong[p] <= RETRIES
    /\ pc = "wrong" /\ arg = p => pins.left[p] + wrong[p] < RETRIES

\* Both counters cover the signatures of the key that the flash holds.
CounterInv ==
  ~silent =>
    LET k == LoadedKeys["SIG"] IN
    k # 0 /\ signed[k] > 0 => LoadedDos.count >= signed[k] /\ dos.count >= signed[k]

\* The keys of the flash were made after its PINs were set back.
EraInv ==
  /\ pins.since <= born /\ LoadedPins.since <= born
  /\ \A s \in SLOTS : keys[s] <= born /\ LoadedKeys[s] <= born
  /\ ~silent => \A s \in SLOTS : LoadedKeys[s] # 0 => LoadedKeys[s] > LoadedPins.since
  /\ ~silent /\ pc = "made" => born > LoadedPins.since

\* A factory reset, step by step.
WipeInv ==
  /\ pc \in {"wipeKeys", "wipePins", "reseed", "reserial"} => keys = NoKeys
  /\ ~silent =>
       /\ pc \in {"wipePins", "reseed", "reserial"} => LoadedKeys = NoKeys
       /\ pc \in {"wipePins", "reseed", "reserial"} => pins = FactoryPins(born)
       /\ pc \in {"reseed", "reserial"} => LoadedPins = FactoryPins(born)
       /\ pc = "wipePins" => dos = NoDos
       /\ pc = "reseed" => dos.c4 = ABSENT /\ dos.uif \in {ABSENT, 1} /\ dos.count \in {ABSENT, 0}
       /\ pc = "reserial" => dos = [count |-> 0, uif |-> 1, c4 |-> ABSENT]
       /\ pc = "idle" /\ terminated =>
            /\ LoadedKeys = NoKeys /\ LoadedPins = FactoryPins(born)
            /\ LoadedDos = [count |-> 0, uif |-> 1, c4 |-> ABSENT]

IInv == /\ TypeOK /\ FlowInv /\ PinsInv /\ KeysInv
        /\ TriesInv /\ CounterInv /\ EraInv /\ WipeInv

-----------------------------------------------------------------------------
(* What the flash gives back at a restart, before and after a save.  The   *)
(* proofs of the invariants go by these facts.                             *)

Loads == LoadedPins \in PinsBlob /\ LoadedKeys \in KeysBlob /\ LoadedDos \in DosBlob

PinsKept == LoadedPins' = LoadedPins
KeysKept == LoadedKeys' = LoadedKeys
DosKept  == LoadedDos' = LoadedDos

\* What a restart loads is of the types of the blobs.
LEMMA LoadsAreTyped == ASSUME TypeOK PROVE Loads
<1>1. legacy \in KeyId /\ 0 \in KeyId
  BY DEF TypeOK, KeyId
<1>2. NoKeys \in KeysBlob
  BY <1>1 DEF NoKeys, KeysBlob
<1>3. Legacy \in KeysBlob
  BY <1>1, <1>2 DEF Legacy, KeysBlob
<1>4. RETRIES \in 0..RETRIES /\ ABSENT \in ABSENT..SIGS /\ ABSENT \in ABSENT..1
  BY DEF ABSENT
<1>5. FactoryPins(0) \in PinsBlob
  BY <1>1, <1>4 DEF FactoryPins, PinsBlob, PinValue
<1>6. NoDos \in DosBlob
  BY <1>4 DEF NoDos, DosBlob
<1> QED
  BY <1>3, <1>5, <1>6 DEF TypeOK, Loads, LoadedPins, LoadedKeys, LoadedDos

\* A step that does not write the flash.
LEMMA Quiet == ASSUME UNCHANGED flash PROVE PinsKept /\ KeysKept /\ DosKept
  BY DEF flash, PinsKept, KeysKept, DosKept, LoadedPins, LoadedKeys, LoadedDos, Legacy, NoKeys

LEMMA PinsAreSaved ==
  ASSUME NEW o, SavePins(o), UNCHANGED <<nvKeys, nvDos, legacy>>
  PROVE  KeysKept /\ DosKept /\ LoadedPins' = IF Written(o) THEN pins' ELSE LoadedPins
  BY DEF SavePins, PinsKept, KeysKept, DosKept, LoadedPins, LoadedKeys, LoadedDos, Legacy, NoKeys

LEMMA KeysAreSaved ==
  ASSUME NEW o, NEW written,
         IF Written(o) THEN nvKeys' = written /\ stored' = stored \cup {"keys"}
                       ELSE UNCHANGED <<nvKeys, stored>>,
         UNCHANGED <<nvPins, nvDos, legacy>>
  PROVE  PinsKept /\ DosKept /\ LoadedKeys' = IF Written(o) THEN written ELSE LoadedKeys
  BY DEF PinsKept, KeysKept, DosKept, LoadedPins, LoadedKeys, LoadedDos, Legacy, NoKeys

LEMMA DosAreSaved ==
  ASSUME NEW o, Put(o)
  PROVE  PinsKept /\ KeysKept /\ LoadedDos' = IF Written(o) THEN dos' ELSE LoadedDos
  BY DEF Put, SaveDos, PinsKept, KeysKept, DosKept, LoadedPins, LoadedKeys, LoadedDos, Legacy, NoKeys

\* A caller that ignores a failure is silent about it when the blob was lost.
LEMMA Ignoring ==
  ASSUME NEW o, silent \in BOOLEAN, Ignored(o)
  PROVE  silent' \in BOOLEAN /\ (~silent' => ~silent /\ Written(o))
  BY DEF Ignored

\* The actions that save, by what they leave in the flash.
LEMMA Migrates == ASSUME TypeOK, Migrate
                  PROVE PinsKept /\ DosKept /\ LoadedKeys' \in {keys, LoadedKeys} /\ silent' = silent
  BY KeysAreSaved DEF Migrate, SaveKeys, Heeded, ram

LEMMA Seeds ==
  ASSUME TypeOK, Seed
  PROVE  /\ PinsKept /\ KeysKept /\ LoadedDos' \in {dos', LoadedDos}
         /\ silent' \in BOOLEAN /\ (~silent' => ~silent)
<1>1. PICK o \in Outcome : Put(o) /\ (IF pc = "seed" THEN Heeded(o) ELSE Ignored(o))
  BY DEF Seed
<1> QED
  BY <1>1, DosAreSaved, Ignoring DEF TypeOK, Heeded

LEMMA SerialSaves ==
  ASSUME TypeOK, Serial
  PROVE  /\ PinsKept /\ KeysKept /\ LoadedDos' \in {dos, LoadedDos}
         /\ silent' \in BOOLEAN /\ (~silent' => ~silent)
         /\ pc = "reserial" /\ ~silent' => LoadedDos' = dos
<1>1. PICK o \in Outcome : Put(o) /\ UNCHANGED ram /\ (IF pc = "serial" THEN Heeded(o) ELSE Ignored(o))
  BY DEF Serial
<1>2. dos' = dos
  BY <1>1 DEF ram
<1> QED
  BY <1>1, <1>2, DosAreSaved, Ignoring DEF TypeOK, Heeded

LEMMA PinPersists ==
  ASSUME TypeOK, PinPersist
  PROVE  /\ KeysKept /\ DosKept /\ LoadedPins' \in {pins, LoadedPins}
         /\ silent' \in BOOLEAN /\ (~silent' => ~silent /\ LoadedPins' = pins)
<1>1. PICK o \in Outcome : SavePins(o) /\ UNCHANGED ram /\ Ignored(o) /\ UNCHANGED <<nvKeys, nvDos, legacy>>
  BY DEF PinPersist
<1>2. pins' = pins
  BY <1>1 DEF ram
<1> QED
  BY <1>1, <1>2, PinsAreSaved, Ignoring DEF TypeOK

LEMMA DataPuts == ASSUME TypeOK, PutData
                  PROVE PinsKept /\ KeysKept /\ LoadedDos' \in {dos', LoadedDos} /\ silent' = silent
  BY DosAreSaved DEF PutData, Heeded

LEMMA KeyPersists ==
  ASSUME TypeOK, KeyPersist
  PROVE  /\ PinsKept /\ DosKept /\ LoadedKeys' \in {keys, LoadedKeys} /\ silent' = silent
         /\ pc' \in {"idle", "zero"} /\ (pc' = "zero" => arg = "SIG")
         /\ \/ keys' = keys /\ LoadedKeys' = keys
            \/ keys' = [keys EXCEPT ![arg] = 0] /\ pc' = "idle"
<1>1. PICK o \in Outcome :
        /\ IF Written(o) THEN nvKeys' = keys /\ stored' = stored \cup {"keys"}
                         ELSE UNCHANGED <<nvKeys, stored>>
        /\ keys' = IF o = "ok" THEN keys ELSE [keys EXCEPT ![arg] = 0]
        /\ pc' = IF o = "ok" /\ arg = "SIG" THEN "zero" ELSE "idle"
        /\ Heeded(o) /\ UNCHANGED <<nvPins, nvDos, legacy>>
  BY DEF KeyPersist
<1>2. PinsKept /\ DosKept /\ LoadedKeys' = IF Written(o) THEN keys ELSE LoadedKeys
  BY <1>1, KeysAreSaved
<1> QED
  BY <1>1, <1>2 DEF Heeded, Written

LEMMA CounterResets ==
  ASSUME TypeOK, CounterReset
  PROVE  /\ PinsKept /\ KeysKept /\ LoadedDos' \in {dos', LoadedDos}
         /\ silent' \in BOOLEAN /\ (~silent' => ~silent /\ LoadedDos' = dos')
<1>1. PICK o \in Outcome : Put(o) /\ Ignored(o)
  BY DEF CounterReset
<1> QED
  BY <1>1, DosAreSaved, Ignoring DEF TypeOK

LEMMA Counts ==
  ASSUME TypeOK, Count
  PROVE  /\ PinsKept /\ KeysKept /\ LoadedDos' \in {dos', LoadedDos}
         /\ silent' \in BOOLEAN /\ (~silent' => ~silent /\ LoadedDos' = dos')
<1>1. PICK o \in Outcome : Put(o) /\ Ignored(o)
  BY DEF Count
<1> QED
  BY <1>1, DosAreSaved, Ignoring DEF TypeOK

LEMMA KeysAreWiped ==
  ASSUME TypeOK, WipeKeys
  PROVE  /\ PinsKept /\ DosKept /\ LoadedKeys' \in {keys, LoadedKeys}
         /\ silent' \in BOOLEAN /\ (~silent' => ~silent /\ LoadedKeys' = keys)
<1>1. PICK o \in Outcome : SaveKeys(o) /\ UNCHANGED keys /\ Ignored(o) /\ UNCHANGED <<nvPins, nvDos, legacy>>
  BY DEF WipeKeys
<1> QED
  BY <1>1, KeysAreSaved, Ignoring DEF TypeOK, SaveKeys

LEMMA PinsAreWiped ==
  ASSUME TypeOK, WipePins
  PROVE  /\ KeysKept /\ DosKept /\ LoadedPins' \in {pins, LoadedPins}
         /\ silent' \in BOOLEAN /\ (~silent' => ~silent /\ LoadedPins' = pins)
<1>1. PICK o \in Outcome : SavePins(o) /\ UNCHANGED ram /\ Ignored(o) /\ UNCHANGED <<nvKeys, nvDos, legacy>>
  BY DEF WipePins
<1>2. pins' = pins
  BY <1>1 DEF ram
<1> QED
  BY <1>1, <1>2, PinsAreSaved, Ignoring DEF TypeOK

-----------------------------------------------------------------------------
(* The types are kept.  What a key, an attempt and a count may be comes    *)
(* from the other parts of the invariant.                                  *)

LEMMA Numbers ==
  /\ 0 \in KeyId /\ KeyId \in SUBSET Int
  /\ RETRIES \in 0..RETRIES /\ 0 \in 0..RETRIES
  /\ ABSENT \in ABSENT..SIGS /\ 0 \in ABSENT..SIGS /\ 0 \in 0..SIGS
  /\ ABSENT \in ABSENT..1 /\ 0 \in ABSENT..1 /\ 1 \in ABSENT..1
  BY DEF KeyId, ABSENT

LEMMA Factory == /\ \A n \in KeyId : FactoryPins(n) \in PinsBlob
                 /\ NoKeys \in KeysBlob /\ NoDos \in DosBlob
  BY Numbers DEF FactoryPins, NoKeys, NoDos, PinsBlob, KeysBlob, DosBlob, PinValue

LEMMA InitTyped == Init => TypeOK
<1> SUFFICES ASSUME Init PROVE TypeOK
  OBVIOUS
<1>1. legacy \in KeyId /\ legacy \in 0..1
  BY DEF Init, KeyId
<1>2. Legacy \in KeysBlob
  BY <1>1, Factory DEF Legacy, KeysBlob
<1>3. wrong \in [Pw -> 0..RETRIES] /\ signed \in [1..KEYS -> 0..SIGS]
  BY Numbers DEF Init
<1>4. stored \in SUBSET {"pins", "keys", "dos"} /\ auth \in SUBSET {"81", "82", "83"}
  BY DEF Init
<1>5. faults \in 0..FAULTS
  BY DEF Init
<1> QED
  BY <1>1, <1>2, <1>3, <1>4, <1>5, Factory, Numbers DEF Init, TypeOK

\* The blobs of the flash are copies of those of RAM.
LEMMA SavesAreTyped ==
  ASSUME TypeOK, NEW o \in Outcome, Account(o)
  PROVE  /\ faults' \in 0..FAULTS
         /\ SavePins(o) /\ pins' \in PinsBlob =>
              nvPins' \in PinsBlob /\ stored' \in SUBSET {"pins", "keys", "dos"}
         /\ SaveKeys(o) /\ keys' \in KeysBlob =>
              nvKeys' \in KeysBlob /\ stored' \in SUBSET {"pins", "keys", "dos"}
         /\ SaveDos(o) /\ dos' \in DosBlob =>
              nvDos' \in DosBlob /\ stored' \in SUBSET {"pins", "keys", "dos"}
<1>1. faults' \in 0..FAULTS
  BY DEF TypeOK, Account
<1> QED
  BY <1>1 DEF TypeOK, SavePins, SaveKeys, SaveDos

LEMMA PutIsTyped ==
  ASSUME TypeOK, NEW o \in Outcome, Heeded(o) \/ Ignored(o), Put(o), dos' \in DosBlob
  PROVE  /\ faults' \in 0..FAULTS /\ silent' \in BOOLEAN
         /\ nvPins' \in PinsBlob /\ nvKeys' \in KeysBlob /\ nvDos' \in DosBlob
         /\ stored' \in SUBSET {"pins", "keys", "dos"} /\ legacy' \in 0..1
<1>1. Account(o) /\ silent' \in BOOLEAN
  BY DEF TypeOK, Heeded, Ignored
<1> QED
  BY <1>1, SavesAreTyped DEF Put, TypeOK

LEMMA NextTyped == ASSUME IInv, Next PROVE TypeOK'
<1> USE DEF IInv
<1>1. CASE Select
  BY <1>1 DEF Select, TypeOK, ram, flash, history
<1>2. CASE PutData
  <2>1. PICK o \in Outcome : /\ dos' \in DosBlob
                             /\ Put(o) /\ Heeded(o) /\ UNCHANGED <<pins, keys, session, pc, arg, history>>
    BY <1>2, Numbers DEF PutData, TypeOK, DosBlob
  <2> QED
    BY <2>1, PutIsTyped DEF TypeOK, session, history
<1>3. CASE Signs
  <2>1. auth' \in SUBSET {"81", "82", "83"} /\ pc' \in {"idle", "count"}
    BY <1>3 DEF Signs, TypeOK
  <2> QED
    BY <1>3, <2>1 DEF Signs, TypeOK, ram, flash, history
<1>4. CASE FactoryReset
  BY <1>4, Factory DEF FactoryReset, Terminate, Activate, TypeOK, flash, history
<1>5. ASSUME NEW mode \in {"81", "82", "83"}, VerifyRight(mode) PROVE TypeOK'
  <2>1. PwOf(mode) \in Pw
    BY DEF PwOf, Pw
  <2>2. pins' \in PinsBlob /\ wrong' \in [Pw -> 0..RETRIES]
    BY <1>5, <2>1, Numbers DEF VerifyRight, TypeOK, PinsBlob
  <2>3. auth' \in SUBSET {"81", "82", "83"} /\ pc' \in {"idle", "right"}
    BY <1>5 DEF VerifyRight, TypeOK
  <2> QED
    BY <1>5, <2>2, <2>3 DEF VerifyRight, TypeOK, flash
<1>6. ASSUME NEW p \in Pw, WrongPin(p) PROVE TypeOK'
  <2>1. pins.left[p] - 1 \in 0..RETRIES
    BY <1>6 DEF WrongPin, TypeOK, PinsBlob
  <2>2. pins' \in PinsBlob
    BY <1>6, <2>1 DEF WrongPin, TypeOK, PinsBlob
  <2> QED
    BY <1>6, <2>2 DEF WrongPin, TypeOK, flash, session, history
<1>7. ASSUME NEW p \in Pw, NEW new \in PinValue, Change(p, new) PROVE TypeOK'
  <2>1. pins' \in PinsBlob /\ wrong' \in [Pw -> 0..RETRIES]
    BY <1>7, Numbers DEF Change, TypeOK, PinsBlob
  <2>2. auth' \in SUBSET {"81", "82", "83"}
    BY <1>7 DEF Change, TypeOK
  <2> QED
    BY <1>7, <2>1, <2>2 DEF Change, TypeOK, flash
<1>8. ASSUME NEW s \in SLOTS, NewKey(s) PROVE TypeOK'
  <2>1. born' \in KeyId
    BY <1>8 DEF NewKey, TypeOK, KeyId
  <2>2. keys' \in KeysBlob
    BY <1>8, <2>1 DEF NewKey, TypeOK, KeysBlob
  <2> QED
    BY <1>8, <2>1, <2>2 DEF NewKey, TypeOK, flash, session
<1>9. CASE Migrate
  <2>1. PICK o \in Outcome : SaveKeys(o) /\ Account(o) /\ UNCHANGED silent
    BY <1>9 DEF Migrate, Heeded
  <2> QED
    BY <1>9, <2>1, SavesAreTyped DEF Migrate, TypeOK, ram, session, history
<1>10. CASE Seed
  <2>1. dos' \in DosBlob
    BY <1>10, Numbers DEF Seed, TypeOK, DosBlob
  <2>2. PICK o \in Outcome : Put(o) /\ (Heeded(o) \/ Ignored(o))
    BY <1>10 DEF Seed
  <2> QED
    BY <1>10, <2>1, <2>2, PutIsTyped DEF Seed, TypeOK, session, history
<1>11. CASE SeedEnds
  BY <1>11 DEF SeedEnds, TypeOK, ram, flash, session, history
<1>12. CASE Serial
  <2>1. PICK o \in Outcome : Put(o) /\ (Heeded(o) \/ Ignored(o))
    BY <1>12 DEF Serial
  <2> QED
    BY <1>12, <2>1, PutIsTyped DEF Serial, TypeOK, ram, session, history
<1>13. CASE PinPersist
  <2>1. PICK o \in Outcome : SavePins(o) /\ Account(o)
    BY <1>13 DEF PinPersist, Ignored
  <2>2. silent' \in BOOLEAN /\ (~silent' => ~silent)
    BY <1>13, PinPersists
  <2>3. wrong' \in [Pw -> 0..RETRIES]
    <3>1. CASE pc = "wrong" /\ ~silent'
      <4>1. arg \in Pw /\ pins.left[arg] + wrong[arg] < RETRIES
        BY <3>1, <2>2 DEF FlowInv, TriesInv
      <4>2. pins.left[arg] \in 0..RETRIES /\ wrong[arg] \in 0..RETRIES
        BY <4>1 DEF TypeOK, PinsBlob
      <4>3. wrong[arg] + 1 \in 0..RETRIES
        BY <4>1, <4>2
      <4> QED
        BY <3>1, <1>13, <4>1, <4>3 DEF PinPersist, TypeOK
    <3>2. CASE ~(pc = "wrong" /\ ~silent')
      BY <3>2, <1>13 DEF PinPersist, TypeOK
    <3> QED
      BY <3>1, <3>2
  <2> QED
    BY <1>13, <2>1, <2>2, <2>3, SavesAreTyped DEF PinPersist, TypeOK, ram, session
<1>14. CASE KeyPersist
  <2>1. PICK o \in Outcome :
          /\ IF Written(o) THEN nvKeys' = keys /\ stored' = stored \cup {"keys"}
                           ELSE UNCHANGED <<nvKeys, stored>>
          /\ Account(o) /\ UNCHANGED silent
    BY <1>14 DEF KeyPersist, Heeded
  <2>2. nvKeys' \in KeysBlob /\ stored' \in SUBSET {"pins", "keys", "dos"}
    BY <2>1 DEF TypeOK
  <2>3. keys' \in KeysBlob /\ pc' \in {"idle", "zero"}
    <3>1. \/ keys' = keys
          \/ keys' = [keys EXCEPT ![arg] = 0]
      BY <1>14, KeyPersists
    <3>2. [keys EXCEPT ![arg] = 0] \in KeysBlob
      BY Numbers DEF TypeOK, KeysBlob
    <3> QED
      BY <1>14, <3>1, <3>2, KeyPersists DEF TypeOK
  <2> QED
    BY <1>14, <2>1, <2>2, <2>3, SavesAreTyped DEF KeyPersist, TypeOK, session, history
<1>15. CASE CounterReset
  <2>1. PICK o \in Outcome : Put(o) /\ (Heeded(o) \/ Ignored(o))
    BY <1>15 DEF CounterReset
  <2>2. dos' \in DosBlob
    BY <1>15, Numbers DEF CounterReset, TypeOK, DosBlob
  <2> QED
    BY <1>15, <2>1, <2>2, PutIsTyped DEF CounterReset, TypeOK, session, history
<1>16. CASE Count
  <2>1. PICK o \in Outcome : Put(o) /\ (Heeded(o) \/ Ignored(o))
    BY <1>16 DEF Count
  <2>2. keys["SIG"] # 0 /\ dos.count < SIGS /\ dos.count \in ABSENT..SIGS /\ Seeded
    BY <1>16 DEF Count, FlowInv, TypeOK, DosBlob
  <2>3. (IF dos.count = ABSENT THEN 1 ELSE dos.count + 1) \in ABSENT..SIGS
    BY <2>2 DEF ABSENT, Seeded
  <2>4. dos' \in DosBlob
    BY <1>16, <2>3 DEF Count, TypeOK, DosBlob
  <2>5. signed' \in [1..KEYS -> 0..SIGS]
    <3>1. CASE silent'
      BY <3>1, <1>16 DEF Count, TypeOK
    <3>2. CASE ~silent'
      <4> DEFINE k == keys["SIG"]
      <4>1. k \in 1..KEYS /\ LoadedKeys["SIG"] = k
        BY <2>2, <1>16 DEF TypeOK, KeysBlob, KeyId, KeysInv, Count
      <4>2. ~silent
        BY <3>2, <1>16, Counts
      <4>3. signed[k] \in 0..SIGS
        BY <4>1 DEF TypeOK
      <4>4. signed[k] > 0 => dos.count >= signed[k]
        BY <4>1, <4>2 DEF CounterInv
      <4>5. signed[k] + 1 \in 0..SIGS
        BY <4>3, <4>4, <2>2 DEF ABSENT, Seeded
      <4> QED
        BY <3>2, <1>16, <4>1, <4>5 DEF Count, TypeOK
    <3> QED
      BY <3>1, <3>2
  <2> QED
    BY <1>16, <2>1, <2>4, <2>5, PutIsTyped DEF Count, TypeOK, session
<1>17. CASE WipeKeys
  <2>1. PICK o \in Outcome : SaveKeys(o) /\ Account(o)
    BY <1>17 DEF WipeKeys, Ignored
  <2>2. silent' \in BOOLEAN
    BY <1>17, KeysAreWiped
  <2>3. wrong' \in [Pw -> 0..RETRIES] /\ dos' \in DosBlob /\ pins' \in PinsBlob
    BY <1>17, Numbers, Factory DEF WipeKeys, TypeOK
  <2> QED
    BY <1>17, <2>1, <2>2, <2>3, SavesAreTyped DEF WipeKeys, TypeOK, session
<1>18. CASE WipePins
  <2>1. PICK o \in Outcome : SavePins(o) /\ Account(o)
    BY <1>18 DEF WipePins, Ignored
  <2>2. silent' \in BOOLEAN
    BY <1>18, PinsAreWiped
  <2> QED
    BY <1>18, <2>1, <2>2, SavesAreTyped DEF WipePins, TypeOK, ram, session, history
<1>19. CASE Restart
  BY <1>19, LoadsAreTyped DEF Restart, Loads, TypeOK, flash, history
<1> QED
  BY <1>1, <1>2, <1>3, <1>4, <1>5, <1>6, <1>7, <1>8, <1>9, <1>10, <1>11, <1>12, <1>13,
     <1>14, <1>15, <1>16, <1>17, <1>18, <1>19 DEF Next, Command, Continue

-----------------------------------------------------------------------------
(* The first state.                                                        *)

LEMMA InitInv == Init => IInv
<1> SUFFICES ASSUME Init PROVE IInv
  OBVIOUS
<1>1. TypeOK
  BY InitTyped
<1>2. LoadedPins = pins /\ LoadedKeys = keys /\ LoadedDos = dos
  BY DEF Init, LoadedPins, LoadedKeys, LoadedDos
<1>3. FlowInv
  BY <1>1 DEF Init, FlowInv, KeyId
<1>4. PinsInv /\ KeysInv
  BY <1>2 DEF PinsInv, KeysInv
<1>5. TriesInv
  BY <1>2 DEF Init, TriesInv, FactoryPins
<1>6. CounterInv
  <2>1. keys["SIG"] \in KeyId
    BY <1>1 DEF TypeOK, KeysBlob
  <2> QED
    BY <1>2, <2>1 DEF Init, CounterInv, KeyId
<1>7. EraInv
  <2>1. pins.since = 0 /\ born \in 0..1
    BY DEF Init, FactoryPins
  <2>2. \A s \in SLOTS : keys[s] \in {0, born}
    BY DEF Init, Legacy, NoKeys
  <2> QED
    BY <1>2, <2>1, <2>2 DEF Init, EraInv
<1>8. WipeInv
  BY DEF Init, WipeInv
<1> QED
  BY <1>1, <1>3, <1>4, <1>5, <1>6, <1>7, <1>8 DEF IInv

-----------------------------------------------------------------------------
(* The steps, one part of the invariant at a time.                         *)

LEMMA FlowStep == ASSUME IInv, Next PROVE FlowInv'
<1> USE DEF IInv
<1>1. CASE Select
  BY <1>1 DEF Select, FlowInv, Seeded, ram, history
<1>2. CASE PutData
  <2>1. Seeded'
    BY <1>2 DEF PutData, Ready, FlowInv, Seeded, ABSENT, TypeOK, DosBlob
  <2> QED
    BY <1>2, <2>1 DEF PutData, Ready, FlowInv, session, history
<1>3. CASE Signs
  BY <1>3 DEF Signs, Ready, FlowInv, Seeded, ram, history
<1>4. CASE FactoryReset
  BY <1>4 DEF FactoryReset, Terminate, Activate, FlowInv, Seeded, history
<1>5. ASSUME NEW mode \in {"81", "82", "83"}, VerifyRight(mode) PROVE FlowInv'
  BY <1>5 DEF VerifyRight, Ready, FlowInv, Seeded
<1>6. ASSUME NEW p \in Pw, WrongPin(p) PROVE FlowInv'
  BY <1>6 DEF WrongPin, Ready, FlowInv, Seeded, session, history
<1>7. ASSUME NEW p \in Pw, NEW new \in PinValue, Change(p, new) PROVE FlowInv'
  BY <1>7 DEF Change, Ready, FlowInv, Seeded
<1>8. ASSUME NEW s \in SLOTS, NewKey(s) PROVE FlowInv'
  <2>1. born \in Nat /\ born < KEYS /\ born' = born + 1 /\ born' \in 1..KEYS
    BY <1>8 DEF NewKey, TypeOK, KeyId
  <2>2. keys'[s] = born' /\ signed'[born'] = 0 /\ arg' = s
    BY <1>8, <2>1 DEF NewKey, TypeOK, KeysBlob, FlowInv
  <2>3. \A k \in 1..KEYS : k > born' => signed'[k] = 0
    BY <1>8, <2>1 DEF NewKey, FlowInv
  <2> QED
    BY <1>8, <2>1, <2>2, <2>3 DEF NewKey, Ready, FlowInv, Seeded, session
<1>9. CASE Migrate
  BY <1>9 DEF Migrate, FlowInv, session, history
<1>10. CASE Seed
  BY <1>10 DEF Seed, FlowInv, Seeded, session, history
<1>11. CASE SeedEnds
  BY <1>11 DEF SeedEnds, FlowInv, Seeded, ram, session, history
<1>12. CASE Serial
  BY <1>12 DEF Serial, FlowInv, Seeded, ram, session, history
<1>13. CASE PinPersist
  BY <1>13 DEF PinPersist, FlowInv, Seeded, ram, session
<1>14. CASE KeyPersist
  <2>1. pc' = "zero" => keys' = keys /\ arg = "SIG"
    BY <1>14, KeyPersists
  <2>2. pc' \in {"idle", "zero"}
    BY <1>14, KeyPersists
  <2> QED
    BY <1>14, <2>1, <2>2 DEF KeyPersist, FlowInv, Seeded, session, history
<1>15. CASE CounterReset
  <2>1. Seeded'
    BY <1>15 DEF CounterReset, FlowInv, Seeded, ABSENT, TypeOK, DosBlob
  <2> QED
    BY <1>15, <2>1 DEF CounterReset, FlowInv, session, history
<1>16. CASE Count
  <2>1. Seeded'
    BY <1>16 DEF Count, FlowInv, Seeded, ABSENT, TypeOK, DosBlob
  <2>2. keys["SIG"] \in 1..KEYS /\ keys["SIG"] <= born
    BY <1>16 DEF Count, FlowInv, TypeOK, KeysBlob, KeyId, EraInv
  <2>3. \A k \in 1..KEYS : k > born' => signed'[k] = 0
    BY <1>16, <2>2 DEF Count, FlowInv, TypeOK, KeyId
  <2> QED
    BY <1>16, <2>1, <2>3 DEF Count, FlowInv, session
<1>17. CASE WipeKeys
  BY <1>17 DEF WipeKeys, FlowInv, session
<1>18. CASE WipePins
  BY <1>18 DEF WipePins, FlowInv, session, history
<1>19. CASE Restart
  BY <1>19 DEF Restart, FlowInv, history
<1> QED
  BY <1>1, <1>2, <1>3, <1>4, <1>5, <1>6, <1>7, <1>8, <1>9, <1>10, <1>11, <1>12, <1>13,
     <1>14, <1>15, <1>16, <1>17, <1>18, <1>19 DEF Next, Command, Continue

LEMMA PinsStep == ASSUME IInv, Next PROVE PinsInv'
<1> USE DEF IInv
<1>1. CASE Select
  BY <1>1, Quiet DEF Select, PinsInv, PinsKept, ram
<1>2. CASE PutData
  BY <1>2, DataPuts DEF PutData, PinsInv, PinsKept
<1>3. CASE Signs
  BY <1>3, Quiet DEF Signs, Ready, PinsInv, PinsKept, ram
<1>4. CASE FactoryReset
  BY <1>4, Quiet DEF FactoryReset, Terminate, Activate, PinsInv, PinsKept
<1>5. ASSUME NEW mode \in {"81", "82", "83"}, VerifyRight(mode) PROVE PinsInv'
  <2>1. PwOf(mode) \in Pw
    BY DEF PwOf, Pw
  <2>2. pins'.since = pins.since
    BY <1>5 DEF VerifyRight, TypeOK, PinsBlob
  <2>3. pc' = "idle" => pins' = pins
    BY <1>5, <2>1 DEF VerifyRight, TypeOK, PinsBlob
  <2> QED
    BY <1>5, <2>2, <2>3, Quiet DEF VerifyRight, Ready, PinsInv, PinsKept
<1>6. ASSUME NEW p \in Pw, WrongPin(p) PROVE PinsInv'
  <2>1. pins'.since = pins.since
    BY <1>6 DEF WrongPin, TypeOK, PinsBlob
  <2> QED
    BY <1>6, <2>1, Quiet DEF WrongPin, Ready, PinsInv, PinsKept
<1>7. ASSUME NEW p \in Pw, NEW new \in PinValue, Change(p, new) PROVE PinsInv'
  <2>1. pins'.since = pins.since
    BY <1>7 DEF Change, TypeOK, PinsBlob
  <2> QED
    BY <1>7, <2>1, Quiet DEF Change, Ready, PinsInv, PinsKept
<1>8. ASSUME NEW s \in SLOTS, NewKey(s) PROVE PinsInv'
  BY <1>8, Quiet DEF NewKey, Ready, PinsInv, PinsKept
<1>9. CASE Migrate
  BY <1>9, Migrates DEF Migrate, PinsInv, PinsKept, ram
<1>10. CASE Seed
  BY <1>10, Seeds DEF Seed, PinsInv, PinsKept
<1>11. CASE SeedEnds
  BY <1>11, Quiet DEF SeedEnds, PinsInv, PinsKept, ram
<1>12. CASE Serial
  BY <1>12, SerialSaves DEF Serial, PinsInv, PinsKept, ram
<1>13. CASE PinPersist
  BY <1>13, PinPersists DEF PinPersist, PinsInv, ram
<1>14. CASE KeyPersist
  BY <1>14, KeyPersists DEF KeyPersist, PinsInv, PinsKept
<1>15. CASE CounterReset
  BY <1>15, CounterResets DEF CounterReset, PinsInv, PinsKept
<1>16. CASE Count
  BY <1>16, Counts DEF Count, PinsInv, PinsKept
<1>17. CASE WipeKeys
  BY <1>17 DEF WipeKeys, PinsInv
<1>18. CASE WipePins
  BY <1>18, PinsAreWiped DEF WipePins, PinsInv, ram
<1>19. CASE Restart
  BY <1>19, Quiet DEF Restart, PinsInv, PinsKept
<1> QED
  BY <1>1, <1>2, <1>3, <1>4, <1>5, <1>6, <1>7, <1>8, <1>9, <1>10, <1>11, <1>12, <1>13,
     <1>14, <1>15, <1>16, <1>17, <1>18, <1>19 DEF Next, Command, Continue

LEMMA KeysStep == ASSUME IInv, Next PROVE KeysInv'
<1> USE DEF IInv
<1>1. CASE Select
  BY <1>1, Quiet DEF Select, KeysInv, KeysKept, ram
<1>2. CASE PutData
  BY <1>2, DataPuts DEF PutData, KeysInv, KeysKept
<1>3. CASE Signs
  BY <1>3, Quiet DEF Signs, Ready, KeysInv, KeysKept, ram
<1>4. CASE FactoryReset
  BY <1>4 DEF FactoryReset, KeysInv, NoKeys
<1>5. ASSUME NEW mode \in {"81", "82", "83"}, VerifyRight(mode) PROVE KeysInv'
  BY <1>5, Quiet DEF VerifyRight, Ready, KeysInv, KeysKept
<1>6. ASSUME NEW p \in Pw, WrongPin(p) PROVE KeysInv'
  BY <1>6, Quiet DEF WrongPin, Ready, KeysInv, KeysKept
<1>7. ASSUME NEW p \in Pw, NEW new \in PinValue, Change(p, new) PROVE KeysInv'
  BY <1>7, Quiet DEF Change, Ready, KeysInv, KeysKept
<1>8. ASSUME NEW s \in SLOTS, NewKey(s) PROVE KeysInv'
  <2>1. \A t \in SLOTS : t # s => keys'[t] = keys[t]
    BY <1>8 DEF NewKey, TypeOK, KeysBlob
  <2> QED
    BY <1>8, <2>1, Quiet DEF NewKey, Ready, KeysInv, KeysKept
<1>9. CASE Migrate
  BY <1>9, Migrates DEF Migrate, KeysInv, ram
<1>10. CASE Seed
  BY <1>10, Seeds DEF Seed, KeysInv, KeysKept
<1>11. CASE SeedEnds
  BY <1>11, Quiet DEF SeedEnds, KeysInv, KeysKept, ram
<1>12. CASE Serial
  BY <1>12, SerialSaves DEF Serial, KeysInv, KeysKept, ram
<1>13. CASE PinPersist
  BY <1>13, PinPersists DEF PinPersist, KeysInv, KeysKept, ram
<1>14. CASE KeyPersist
  <2>1. CASE keys' = keys /\ LoadedKeys' = keys
    BY <2>1 DEF KeysInv
  <2>2. CASE keys' = [keys EXCEPT ![arg] = 0] /\ pc' = "idle"
    <3>1. \A s \in SLOTS : keys'[s] # 0 => s # arg /\ keys'[s] = keys[s]
      BY <2>2 DEF TypeOK, KeysBlob
    <3> QED
      BY <1>14, <2>2, <3>1, KeyPersists DEF KeyPersist, KeysInv
  <2> QED
    BY <1>14, <2>1, <2>2, KeyPersists
<1>15. CASE CounterReset
  BY <1>15, CounterResets DEF CounterReset, KeysInv, KeysKept
<1>16. CASE Count
  BY <1>16, Counts DEF Count, KeysInv, KeysKept
<1>17. CASE WipeKeys
  BY <1>17, KeysAreWiped DEF WipeKeys, KeysInv
<1>18. CASE WipePins
  BY <1>18, PinsAreWiped DEF WipePins, KeysInv, KeysKept, ram
<1>19. CASE Restart
  BY <1>19, Quiet DEF Restart, KeysInv, KeysKept
<1> QED
  BY <1>1, <1>2, <1>3, <1>4, <1>5, <1>6, <1>7, <1>8, <1>9, <1>10, <1>11, <1>12, <1>13,
     <1>14, <1>15, <1>16, <1>17, <1>18, <1>19 DEF Next, Command, Continue

LEMMA TriesStep == ASSUME IInv, Next PROVE TriesInv'
<1> USE DEF IInv
<1> DEFINE Spent(p) == /\ LoadedPins.left[p] + wrong[p] <= RETRIES
                       /\ pins.left[p] + wrong[p] <= RETRIES
<1>a. ASSUME ~silent PROVE \A p \in Pw : Spent(p)
  BY <1>a DEF TriesInv
<1>b. \A p \in Pw : wrong[p] \in 0..RETRIES /\ pins.left[p] \in 0..RETRIES /\ LoadedPins.left[p] \in 0..RETRIES
  BY LoadsAreTyped DEF TypeOK, PinsBlob, Loads
<1>1. CASE Select
  BY <1>1, Quiet DEF Select, TriesInv, PinsKept, ram, history
<1>2. CASE PutData
  BY <1>2, DataPuts DEF PutData, Ready, TriesInv, PinsKept, history
<1>3. CASE Signs
  BY <1>3, Quiet DEF Signs, Ready, TriesInv, PinsKept, ram, history
<1>4. CASE FactoryReset
  BY <1>4, Quiet DEF FactoryReset, TriesInv, PinsKept, history
<1>5. ASSUME NEW mode \in {"81", "82", "83"}, VerifyRight(mode) PROVE TriesInv'
  <2>1. PwOf(mode) \in Pw
    BY DEF PwOf, Pw
  <2>2. \A p \in Pw : \/ wrong'[p] = 0 /\ pins'.left[p] = RETRIES
                      \/ wrong'[p] = wrong[p] /\ pins'.left[p] = pins.left[p]
    BY <1>5, <2>1 DEF VerifyRight, TypeOK, PinsBlob
  <2> QED
    BY <1>5, <1>a, <1>b, <2>2, Quiet DEF VerifyRight, Ready, TriesInv, PinsKept
<1>6. ASSUME NEW p \in Pw, WrongPin(p) PROVE TriesInv'
  <2>1. pins'.left[p] = pins.left[p] - 1
    BY <1>6 DEF WrongPin, TypeOK, PinsBlob
  <2>2. \A q \in Pw : q # p => pins'.left[q] = pins.left[q]
    BY <1>6 DEF WrongPin, TypeOK, PinsBlob
  <2> QED
    BY <1>6, <1>a, <1>b, <2>1, <2>2, Quiet DEF WrongPin, TriesInv, PinsKept, history
<1>7. ASSUME NEW p \in Pw, NEW new \in PinValue, Change(p, new) PROVE TriesInv'
  <2>1. \A q \in Pw : \/ wrong'[q] = 0 /\ pins'.left[q] = RETRIES
                      \/ wrong'[q] = wrong[q] /\ pins'.left[q] = pins.left[q]
    BY <1>7 DEF Change, TypeOK, PinsBlob
  <2> QED
    BY <1>7, <1>a, <1>b, <2>1, Quiet DEF Change, TriesInv, PinsKept
<1>8. ASSUME NEW s \in SLOTS, NewKey(s) PROVE TriesInv'
  BY <1>8, Quiet DEF NewKey, TriesInv, PinsKept
<1>9. CASE Migrate
  BY <1>9, Migrates DEF Migrate, TriesInv, PinsKept, ram, history
<1>10. CASE Seed
  BY <1>10, Seeds DEF Seed, TriesInv, PinsKept, history
<1>11. CASE SeedEnds
  BY <1>11, Quiet DEF SeedEnds, TriesInv, PinsKept, ram, history
<1>12. CASE Serial
  BY <1>12, SerialSaves DEF Serial, TriesInv, PinsKept, ram, history
<1>13. CASE PinPersist
  <2> SUFFICES ASSUME ~silent' PROVE TriesInv'
    BY DEF TriesInv
  <2>1. ~silent /\ LoadedPins' = pins /\ pins' = pins /\ pc' = "idle"
    BY <1>13, PinPersists DEF PinPersist, ram
  <2>2. \A p \in Pw : pins.left[p] + wrong'[p] <= RETRIES
    <3>1. CASE pc = "wrong"
      <4>1. arg \in Pw /\ pins.left[arg] + wrong[arg] < RETRIES
        BY <3>1, <2>1 DEF FlowInv, TriesInv
      <4>2. wrong'[arg] = wrong[arg] + 1 /\ \A p \in Pw : p # arg => wrong'[p] = wrong[p]
        BY <3>1, <4>1, <1>13 DEF PinPersist, TypeOK
      <4> QED
        BY <1>a, <1>b, <2>1, <4>1, <4>2
    <3>2. CASE pc # "wrong"
      BY <3>2, <1>13, <1>a, <2>1 DEF PinPersist
    <3> QED
      BY <3>1, <3>2
  <2> QED
    BY <2>1, <2>2 DEF TriesInv
<1>14. CASE KeyPersist
  BY <1>14, KeyPersists DEF KeyPersist, TriesInv, PinsKept, history
<1>15. CASE CounterReset
  BY <1>15, CounterResets DEF CounterReset, TriesInv, PinsKept, history
<1>16. CASE Count
  BY <1>16, Counts DEF Count, TriesInv, PinsKept
<1>17. CASE WipeKeys
  <2>1. \A p \in Pw : wrong'[p] = 0 /\ pins'.left[p] = RETRIES
    BY <1>17 DEF WipeKeys, FactoryPins
  <2> QED
    BY <1>17, <1>b, <2>1, KeysAreWiped DEF WipeKeys, TriesInv, PinsKept
<1>18. CASE WipePins
  BY <1>18, <1>a, PinsAreWiped DEF WipePins, TriesInv, ram, history
<1>19. CASE Restart
  BY <1>19, <1>a, Quiet DEF Restart, TriesInv, PinsKept, history
<1> QED
  BY <1>1, <1>2, <1>3, <1>4, <1>5, <1>6, <1>7, <1>8, <1>9, <1>10, <1>11, <1>12, <1>13,
     <1>14, <1>15, <1>16, <1>17, <1>18, <1>19 DEF Next, Command, Continue

LEMMA CounterStep == ASSUME IInv, Next PROVE CounterInv'
<1> USE DEF IInv
<1> DEFINE k == LoadedKeys["SIG"]
<1>a. Loads
  BY LoadsAreTyped
<1>b. k # 0 => k \in 1..KEYS /\ signed[k] \in 0..SIGS
  BY <1>a DEF Loads, KeysBlob, KeyId, TypeOK
<1>c. LoadedDos.count \in ABSENT..SIGS /\ dos.count \in ABSENT..SIGS
  BY <1>a DEF Loads, DosBlob, TypeOK
<1>1. CASE Select
  BY <1>1, Quiet DEF Select, CounterInv, KeysKept, DosKept, ram, history
<1>2. CASE PutData
  <2>1. dos'.count = dos.count
    BY <1>2 DEF PutData, TypeOK, DosBlob
  <2> QED
    BY <1>2, <2>1, DataPuts DEF PutData, CounterInv, KeysKept, history
<1>3. CASE Signs
  BY <1>3, Quiet DEF Signs, CounterInv, KeysKept, DosKept, ram, history
<1>4. CASE FactoryReset
  BY <1>4, Quiet DEF FactoryReset, CounterInv, KeysKept, DosKept, history
<1>5. ASSUME NEW mode \in {"81", "82", "83"}, VerifyRight(mode) PROVE CounterInv'
  BY <1>5, Quiet DEF VerifyRight, CounterInv, KeysKept, DosKept
<1>6. ASSUME NEW p \in Pw, WrongPin(p) PROVE CounterInv'
  BY <1>6, Quiet DEF WrongPin, CounterInv, KeysKept, DosKept, history
<1>7. ASSUME NEW p \in Pw, NEW new \in PinValue, Change(p, new) PROVE CounterInv'
  BY <1>7, Quiet DEF Change, CounterInv, KeysKept, DosKept
<1>8. ASSUME NEW s \in SLOTS, NewKey(s) PROVE CounterInv'
  BY <1>8, Quiet DEF NewKey, CounterInv, KeysKept, DosKept
<1>9. CASE Migrate
  <2>1. LoadedKeys'["SIG"] # 0 => LoadedKeys'["SIG"] = k
    BY <1>9, Migrates DEF Migrate, KeysInv
  <2> QED
    BY <1>9, <2>1, Migrates DEF Migrate, CounterInv, DosKept, ram, history
<1>10. CASE Seed
  <2>1. dos'.count = dos.count \/ dos.count = ABSENT
    BY <1>10 DEF Seed, Seeded, TypeOK, DosBlob
  <2>2. ~silent' /\ k # 0 /\ signed[k] > 0 => LoadedDos.count >= signed[k] /\ dos.count >= signed[k]
    BY <1>10, Seeds DEF CounterInv
  <2>3. ~silent' /\ k # 0 /\ signed[k] > 0 => dos'.count >= signed[k]
    BY <1>b, <2>1, <2>2 DEF ABSENT
  <2> QED
    BY <1>10, <2>2, <2>3, Seeds DEF Seed, CounterInv, KeysKept, history
<1>11. CASE SeedEnds
  BY <1>11, Quiet DEF SeedEnds, CounterInv, KeysKept, DosKept, ram, history
<1>12. CASE Serial
  BY <1>12, SerialSaves DEF Serial, CounterInv, KeysKept, ram, history
<1>13. CASE PinPersist
  BY <1>13, PinPersists DEF PinPersist, CounterInv, KeysKept, DosKept, ram
<1>14. CASE KeyPersist
  <2>1. CASE LoadedKeys' = LoadedKeys
    BY <1>14, <2>1, KeyPersists DEF KeyPersist, CounterInv, DosKept, history
  <2>2. CASE LoadedKeys' = keys /\ arg = "SIG"
    <3>1. signed[keys["SIG"]] = 0
      BY <1>14, <2>2 DEF KeyPersist, FlowInv
    <3> QED
      BY <1>14, <2>2, <3>1 DEF KeyPersist, CounterInv, history
  <2>3. CASE LoadedKeys' = keys /\ arg # "SIG"
    <3>1. keys["SIG"] # 0 => keys["SIG"] = k
      BY <2>3 DEF KeysInv
    <3> QED
      BY <1>14, <2>3, <3>1, KeyPersists DEF KeyPersist, CounterInv, DosKept, history
  <2> QED
    BY <1>14, <2>1, <2>2, <2>3, KeyPersists
<1>15. CASE CounterReset
  <2>1. k # 0 /\ signed[k] = 0
    BY <1>15 DEF CounterReset, FlowInv, KeysInv
  <2> QED
    BY <1>15, <2>1, CounterResets DEF CounterReset, CounterInv, KeysKept, history
<1>16. CASE Count
  <2> SUFFICES ASSUME ~silent' PROVE CounterInv'
    BY DEF CounterInv
  <2>1. ~silent /\ LoadedDos' = dos' /\ LoadedKeys' = LoadedKeys
    BY <1>16, Counts DEF KeysKept
  <2>2. k = keys["SIG"] /\ k # 0 /\ Seeded
    BY <1>16 DEF Count, FlowInv, KeysInv
  <2>3. dos'.count = dos.count + 1 /\ dos.count \in Nat
    BY <1>16, <1>c, <2>2 DEF Count, Seeded, ABSENT, TypeOK, DosBlob
  <2>4. signed'[k] = signed[k] + 1
    BY <1>16, <1>b, <2>2 DEF Count, TypeOK
  <2>5. signed[k] > 0 => dos.count >= signed[k]
    BY <2>1, <2>2 DEF CounterInv
  <2>6. dos'.count >= signed'[k]
    BY <1>b, <2>2, <2>3, <2>4, <2>5
  <2> QED
    BY <2>1, <2>6 DEF CounterInv
<1>17. CASE WipeKeys
  <2>1. ~silent' => LoadedKeys'["SIG"] = 0
    BY <1>17, KeysAreWiped DEF WipeKeys, WipeInv, NoKeys
  <2> QED
    BY <2>1 DEF CounterInv
<1>18. CASE WipePins
  BY <1>18, PinsAreWiped DEF WipePins, CounterInv, KeysKept, DosKept, ram, history
<1>19. CASE Restart
  BY <1>19, Quiet DEF Restart, CounterInv, KeysKept, DosKept, history
<1> QED
  BY <1>1, <1>2, <1>3, <1>4, <1>5, <1>6, <1>7, <1>8, <1>9, <1>10, <1>11, <1>12, <1>13,
     <1>14, <1>15, <1>16, <1>17, <1>18, <1>19 DEF Next, Command, Continue

LEMMA EraStep == ASSUME IInv, Next PROVE EraInv'
<1> USE DEF IInv
<1>a. Loads
  BY LoadsAreTyped
<1>b. /\ born \in Int /\ pins.since \in Int /\ LoadedPins.since \in Int
      /\ \A s \in SLOTS : keys[s] \in Int /\ LoadedKeys[s] \in Int
  BY <1>a DEF Loads, TypeOK, PinsBlob, KeysBlob, KeyId
<1>c. born >= 0
  BY DEF TypeOK, KeyId
<1>1. CASE Select
  BY <1>1, Quiet DEF Select, EraInv, PinsKept, KeysKept, ram, history
<1>2. CASE PutData
  BY <1>2, DataPuts DEF PutData, EraInv, PinsKept, KeysKept, history
<1>3. CASE Signs
  BY <1>3, Quiet DEF Signs, EraInv, PinsKept, KeysKept, ram, history
<1>4. CASE FactoryReset
  <2>1. \A s \in SLOTS : keys'[s] = 0
    BY <1>4 DEF FactoryReset, NoKeys
  <2>2. born' = born /\ pins' = pins /\ silent' = silent /\ pc' # "made" /\ UNCHANGED flash
    BY <1>4 DEF FactoryReset, history
  <2>3. PinsKept /\ KeysKept
    BY <2>2, Quiet
  <2> QED
    BY <1>c, <2>1, <2>2, <2>3 DEF EraInv, PinsKept, KeysKept
<1>5. ASSUME NEW mode \in {"81", "82", "83"}, VerifyRight(mode) PROVE EraInv'
  <2>1. pins'.since = pins.since
    BY <1>5 DEF VerifyRight, TypeOK, PinsBlob
  <2> QED
    BY <1>5, <2>1, Quiet DEF VerifyRight, EraInv, PinsKept, KeysKept
<1>6. ASSUME NEW p \in Pw, WrongPin(p) PROVE EraInv'
  <2>1. pins'.since = pins.since
    BY <1>6 DEF WrongPin, TypeOK, PinsBlob
  <2> QED
    BY <1>6, <2>1, Quiet DEF WrongPin, EraInv, PinsKept, KeysKept, history
<1>7. ASSUME NEW p \in Pw, NEW new \in PinValue, Change(p, new) PROVE EraInv'
  <2>1. pins'.since = pins.since
    BY <1>7 DEF Change, TypeOK, PinsBlob
  <2> QED
    BY <1>7, <2>1, Quiet DEF Change, EraInv, PinsKept, KeysKept
<1>8. ASSUME NEW s \in SLOTS, NewKey(s) PROVE EraInv'
  <2>1. born' = born + 1 /\ pins' = pins /\ silent' = silent /\ UNCHANGED flash
    BY <1>8 DEF NewKey
  <2>2. PinsKept /\ KeysKept
    BY <2>1, Quiet
  <2>3. \A t \in SLOTS : keys'[t] \in {keys[t], born'}
    BY <1>8 DEF NewKey, TypeOK, KeysBlob
  <2>4. \A t \in SLOTS : keys'[t] <= born'
    BY <1>b, <2>1, <2>3 DEF EraInv
  <2> QED
    BY <1>b, <2>1, <2>2, <2>4 DEF EraInv, PinsKept, KeysKept
<1>9. CASE Migrate
  <2>1. \A s \in SLOTS : LoadedKeys'[s] # 0 => LoadedKeys'[s] = LoadedKeys[s]
    BY <1>9, Migrates DEF Migrate, KeysInv
  <2>2. \A s \in SLOTS : LoadedKeys'[s] <= born
    BY <1>9, Migrates DEF EraInv
  <2> QED
    BY <1>9, <2>1, <2>2, Migrates DEF Migrate, EraInv, PinsKept, ram, history
<1>10. CASE Seed
  BY <1>10, Seeds DEF Seed, EraInv, PinsKept, KeysKept, history
<1>11. CASE SeedEnds
  BY <1>11, Quiet DEF SeedEnds, EraInv, PinsKept, KeysKept, ram, history
<1>12. CASE Serial
  BY <1>12, SerialSaves DEF Serial, EraInv, PinsKept, KeysKept, ram, history
<1>13. CASE PinPersist
  <2>1. ~silent => LoadedPins.since = pins.since
    BY <1>13 DEF PinPersist, PinsInv
  <2> QED
    BY <1>13, <2>1, PinPersists DEF PinPersist, EraInv, KeysKept, ram
<1>14. CASE KeyPersist
  <2>1. born' = born /\ pins' = pins /\ silent' = silent /\ pc' # "made" /\ LoadedPins' = LoadedPins
    BY <1>14, KeyPersists DEF KeyPersist, PinsKept, history
  <2>2. \A s \in SLOTS : keys'[s] \in {0, keys[s]}
    BY <1>14, KeyPersists DEF TypeOK, KeysBlob
  <2>3. \A s \in SLOTS : keys'[s] <= born /\ LoadedKeys'[s] <= born
    BY <1>14, <1>c, <2>2, KeyPersists DEF EraInv
  <2>4. ASSUME ~silent, NEW s \in SLOTS, LoadedKeys'[s] # 0 PROVE LoadedKeys'[s] > LoadedPins.since
    <3>1. CASE LoadedKeys' = LoadedKeys
      BY <2>4, <3>1 DEF EraInv
    <3>2. CASE LoadedKeys' = keys /\ s = arg
      <4>1. keys[s] = born /\ born > LoadedPins.since
        BY <1>14, <2>4, <3>2 DEF KeyPersist, FlowInv, EraInv
      <4> QED
        BY <3>2, <4>1
    <3>3. CASE LoadedKeys' = keys /\ s # arg
      BY <2>4, <3>3 DEF KeysInv, EraInv
    <3> QED
      BY <1>14, <3>1, <3>2, <3>3, KeyPersists
  <2> QED
    BY <2>1, <2>3, <2>4 DEF EraInv
<1>15. CASE CounterReset
  BY <1>15, CounterResets DEF CounterReset, EraInv, PinsKept, KeysKept, history
<1>16. CASE Count
  BY <1>16, Counts DEF Count, EraInv, PinsKept, KeysKept
<1>17. CASE WipeKeys
  <2>1. \A s \in SLOTS : keys[s] = 0
    BY <1>17 DEF WipeKeys, WipeInv, NoKeys
  <2>2. pins'.since = born /\ born' = born /\ keys' = keys /\ pc' # "made"
    BY <1>17 DEF WipeKeys, FactoryPins
  <2> QED
    BY <1>17, <1>b, <1>c, <2>1, <2>2, KeysAreWiped DEF EraInv, PinsKept
<1>18. CASE WipePins
  <2>1. ~silent => \A s \in SLOTS : LoadedKeys[s] = 0
    BY <1>18 DEF WipePins, WipeInv, NoKeys
  <2> QED
    BY <1>18, <2>1, PinsAreWiped DEF WipePins, EraInv, KeysKept, ram, history
<1>19. CASE Restart
  BY <1>19, Quiet DEF Restart, EraInv, PinsKept, KeysKept, history
<1> QED
  BY <1>1, <1>2, <1>3, <1>4, <1>5, <1>6, <1>7, <1>8, <1>9, <1>10, <1>11, <1>12, <1>13,
     <1>14, <1>15, <1>16, <1>17, <1>18, <1>19 DEF Next, Command, Continue

LEMMA WipeStep == ASSUME IInv, Next PROVE WipeInv'
<1> USE DEF IInv
<1>1. CASE Select
  BY <1>1 DEF Select, WipeInv
<1>2. CASE PutData
  BY <1>2 DEF PutData, Ready, WipeInv, session
<1>3. CASE Signs
  BY <1>3 DEF Signs, Ready, WipeInv
<1>4. CASE FactoryReset
  BY <1>4 DEF FactoryReset, WipeInv
<1>5. ASSUME NEW mode \in {"81", "82", "83"}, VerifyRight(mode) PROVE WipeInv'
  BY <1>5 DEF VerifyRight, Ready, WipeInv
<1>6. ASSUME NEW p \in Pw, WrongPin(p) PROVE WipeInv'
  BY <1>6 DEF WrongPin, WipeInv
<1>7. ASSUME NEW p \in Pw, NEW new \in PinValue, Change(p, new) PROVE WipeInv'
  BY <1>7 DEF Change, WipeInv
<1>8. ASSUME NEW s \in SLOTS, NewKey(s) PROVE WipeInv'
  BY <1>8 DEF NewKey, WipeInv
<1>9. CASE Migrate
  BY <1>9 DEF Migrate, WipeInv
<1>10. CASE Seed
  <2>1. CASE pc = "seed"
    BY <1>10, <2>1 DEF Seed, WipeInv
  <2>2. CASE pc = "reseed"
    <3>1. ~silent' => ~silent
      BY <1>10, Seeds
    <3>2. ~silent => dos'.c4 = ABSENT /\ dos'.uif \in {ABSENT, 1} /\ dos'.count \in {ABSENT, 0}
      BY <1>10, <2>2 DEF Seed, WipeInv, TypeOK, DosBlob
    <3> QED
      BY <1>10, <2>2, <3>1, <3>2, Seeds DEF Seed, WipeInv, PinsKept, KeysKept, history
  <2> QED
    BY <1>10, <2>1, <2>2 DEF Seed
<1>11. CASE SeedEnds
  <2>1. pc = "reseed" /\ ~silent => dos = [count |-> 0, uif |-> 1, c4 |-> ABSENT]
    BY <1>11 DEF SeedEnds, Seeded, WipeInv, TypeOK, DosBlob
  <2> QED
    BY <1>11, <2>1, Quiet DEF SeedEnds, WipeInv, PinsKept, KeysKept, ram, history
<1>12. CASE Serial
  <2>1. pc = "serial" => ~terminated
    BY DEF FlowInv
  <2> QED
    BY <1>12, <2>1, SerialSaves DEF Serial, WipeInv, PinsKept, KeysKept, ram, session, history
<1>13. CASE PinPersist
  <2>1. ~terminated
    BY <1>13 DEF PinPersist, FlowInv
  <2> QED
    BY <1>13, <2>1 DEF PinPersist, WipeInv, session
<1>14. CASE KeyPersist
  <2>1. ~terminated
    BY <1>14 DEF KeyPersist, FlowInv
  <2> QED
    BY <1>14, <2>1, KeyPersists DEF KeyPersist, WipeInv, session
<1>15. CASE CounterReset
  <2>1. ~terminated
    BY <1>15 DEF CounterReset, FlowInv
  <2> QED
    BY <1>15, <2>1 DEF CounterReset, WipeInv, session
<1>16. CASE Count
  <2>1. ~terminated
    BY <1>16 DEF Count, FlowInv
  <2> QED
    BY <1>16, <2>1 DEF Count, WipeInv, session
<1>17. CASE WipeKeys
  BY <1>17, KeysAreWiped DEF WipeKeys, WipeInv
<1>18. CASE WipePins
  <2>1. ~silent => /\ dos = NoDos /\ LoadedKeys = NoKeys /\ pins = FactoryPins(born)
    BY <1>18 DEF WipePins, WipeInv
  <2>2. keys = NoKeys
    BY <1>18 DEF WipePins, WipeInv
  <2> QED
    BY <1>18, <2>1, <2>2, PinsAreWiped DEF WipePins, WipeInv, KeysKept, NoDos, ram, history
<1>19. CASE Restart
  BY <1>19 DEF Restart, WipeInv
<1> QED
  BY <1>1, <1>2, <1>3, <1>4, <1>5, <1>6, <1>7, <1>8, <1>9, <1>10, <1>11, <1>12, <1>13,
     <1>14, <1>15, <1>16, <1>17, <1>18, <1>19 DEF Next, Command, Continue

LEMMA Stutters == ASSUME IInv, UNCHANGED vars PROVE IInv'
<1>1. PinsKept /\ KeysKept /\ DosKept
  BY Quiet DEF vars
<1> QED
  BY <1>1 DEF vars, ram, flash, session, history, IInv, TypeOK, FlowInv, Seeded, PinsInv, KeysInv,
              TriesInv, CounterInv, EraInv, WipeInv, PinsKept, KeysKept, DosKept

LEMMA NextInv == ASSUME IInv, [Next]_vars PROVE IInv'
<1>1. CASE Next
  BY <1>1, NextTyped, FlowStep, PinsStep, KeysStep, TriesStep, CounterStep, EraStep, WipeStep DEF IInv
<1>2. CASE UNCHANGED vars
  BY <1>2, Stutters
<1> QED
  BY <1>1, <1>2

\* The strengthened invariant of the card holds in every reachable state.
THEOREM Invariance == Spec => []IInv
<1>1. Init => IInv
  BY InitInv
<1>2. IInv /\ [Next]_vars => IInv'
  BY NextInv
<1> QED
  BY <1>1, <1>2, PTL DEF Spec

-----------------------------------------------------------------------------
(* What the card promises.                                                 *)

\* The types of the card: no handler stores a value its blob cannot hold.
THEOREM TypeCorrect == Spec => []TypeOK
<1>1. IInv => TypeOK
  BY DEF IInv
<1> QED
  BY <1>1, Invariance, PTL

\* openpgp_card_apdu: between two commands, what the card goes by is saved.
THEOREM AnswersSurvive == Spec => []AnswersAreDurable
<1>1. IInv => AnswersAreDurable
  BY DEF IInv, PinsInv, KeysInv, AnswersAreDurable
<1> QED
  BY <1>1, Invariance, PTL

\* VERIFY and CHANGE REFERENCE DATA: a restart gives no attempt back.
THEOREM TriesSurvive == Spec => []TriesAreKept
<1>1. IInv => TriesAreKept
  BY DEF IInv, TriesInv, TriesAreKept
<1> QED
  BY <1>1, Invariance, PTL

\* PSO:CDS and ds_counter_reset: the counter covers what was signed.
THEOREM CountersCover == Spec => []CounterCounts
<1>1. ASSUME IInv PROVE CounterCounts
  <2> DEFINE k == LoadedKeys["SIG"]
  <2> SUFFICES ASSUME ~silent, k # 0, signed[k] > 0
               PROVE  "dos" \in stored /\ nvDos.count >= signed[k]
    BY DEF CounterCounts
  <2>1. LoadedDos.count >= signed[k]
    BY <1>1 DEF IInv, CounterInv
  <2>2. k \in 1..KEYS
    BY <1>1, LoadsAreTyped DEF IInv, Loads, KeysBlob, KeyId
  <2>3. signed[k] \in 0..SIGS
    BY <1>1, <2>2 DEF IInv, TypeOK
  <2>4. "dos" \in stored
    BY <2>1, <2>3 DEF LoadedDos, NoDos, ABSENT
  <2> QED
    BY <2>1, <2>4 DEF LoadedDos
<1> QED
  BY <1>1, Invariance, PTL

\* openpgp_card_factory_reset: whatever it is cut short at, no key is left
\* behind the factory's PINs, and TERMINATE is answered for a whole wipe.
THEOREM ResetsAreWhole == Spec => []ResetIsWhole
<1>1. IInv => ResetIsWhole
  BY DEF IInv, EraInv, WipeInv, ResetIsWhole
<1> QED
  BY <1>1, Invariance, PTL
=============================================================================
