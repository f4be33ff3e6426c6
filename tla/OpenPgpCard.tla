----------------------------- MODULE OpenPgpCard -----------------------------
(***************************************************************************)
(* The OpenPGP card of the dongle: what it holds in RAM against what the   *)
(* flash holds, when a save is refused and when the plug is pulled.        *)
(*                                                                         *)
(* RAM is three blobs: the PINs with the attempts they have left, the      *)
(* private keys, the data objects.  A handler changes RAM, saves the blobs *)
(* it changed one after the other, and answers; the plug may be pulled     *)
(* before and after each save.  The commands come one at a time            *)
(* (ccid_worker), from a host that has enumerated a dongle that has        *)
(* started.  The cryptography, the lengths and the encodings are left out, *)
(* as are the commands that change nothing (GET DATA, DECIPHER, INTERNAL   *)
(* AUTHENTICATE, READ PUBLIC KEY).                                         *)
(***************************************************************************)
EXTENDS Integers

CONSTANTS RETRIES,  \* PW1_RETRY_MAX and PW3_RETRY_MAX
          SLOTS,    \* key slots, "SIG" among them
          KEYS,     \* bound: keys that are made
          SIGS,     \* bound: signatures that are counted
          FAULTS    \* bound: saves that fail

ASSUME CardAssumption ==
  /\ RETRIES \in Nat \ {0} /\ KEYS \in Nat \ {0} /\ SIGS \in Nat /\ FAULTS \in Nat
  /\ "SIG" \in SLOTS

Pw == {"pw1", "pw3"}
PinValue == {"factory", "own"}

\* The number of a key, in the order in which they are made.  0: no key.
KeyId == 0..KEYS

ABSENT == -1    \* a data object that is not in the store

VARIABLES
  pins,        \* s_pw1, s_pw3 and their retries; since: the last key made before
               \* they were set back to the factory's (history)
  keys,        \* s_keys
  dos,         \* s_dos: the counter of 93, the touch of D6, and C4
  stored,      \* the blobs the flash has
  nvPins, nvKeys, nvDos,
  legacy,      \* the key of the first version's blob
  selected,    \* s_selected
  terminated,  \* s_terminated
  auth,        \* s_pw1_sign_verified (81), s_pw1_user_verified (82), s_pw3_verified (83)
  pc,          \* what the running command, or the start, does next
  arg,         \* the slot or the PIN it is about
  born,        \* keys made so far (history)
  wrong,       \* wrong PINs answered since the right one was last given (history)
  signed,      \* signatures answered, by key (history)
  faults,      \* saves that failed
  silent       \* one of them lost a blob and was not answered as a failure
               \* (history, as what was answered, which ends with it)

ram     == <<pins, keys, dos>>
flash   == <<stored, nvPins, nvKeys, nvDos, legacy>>
session == <<selected, terminated, auth>>
history == <<born, wrong, signed>>
vars == <<ram, flash, session, pc, arg, history, faults, silent>>

PinsBlob == [pin : [Pw -> PinValue], left : [Pw -> 0..RETRIES], since : KeyId]
KeysBlob == [SLOTS -> KeyId]
DosBlob  == [count : ABSENT..SIGS, uif : ABSENT..1, c4 : ABSENT..1]

\* pins_factory, an empty s_keys, openpgp_do_reset.
FactoryPins(n) == [pin |-> [p \in Pw |-> "factory"], left |-> [p \in Pw |-> RETRIES], since |-> n]
NoKeys == [s \in SLOTS |-> 0]
NoDos  == [count |-> ABSENT, uif |-> ABSENT, c4 |-> ABSENT]

TypeOK ==
  /\ pins \in PinsBlob /\ nvPins \in PinsBlob
  /\ keys \in KeysBlob /\ nvKeys \in KeysBlob
  /\ dos \in DosBlob /\ nvDos \in DosBlob
  /\ stored \in SUBSET {"pins", "keys", "dos"} /\ legacy \in 0..1
  /\ selected \in BOOLEAN /\ terminated \in BOOLEAN /\ auth \in SUBSET {"81", "82", "83"}
  /\ pc \in {"migrate", "seed", "serial", "idle", "wrong", "right", "made", "zero",
             "count", "wipeKeys", "wipePins", "reseed", "reserial"}
  /\ arg \in SLOTS \cup Pw \cup {"none"}
  /\ born \in KeyId /\ wrong \in [Pw -> 0..RETRIES] /\ signed \in [1..KEYS -> 0..SIGS]
  /\ faults \in 0..FAULTS /\ silent \in BOOLEAN

-----------------------------------------------------------------------------
(* Saving: nvs_save_blob_with_total writes the blob and its version and    *)
(* commits.  A failure may come before or after the blob is in the flash.  *)

Outcome == {"ok", "reported", "refused"}
Written(o) == o # "refused"
Account(o) == /\ faults' = IF o = "ok" THEN faults ELSE faults + 1
              /\ faults' <= FAULTS

SavePins(o) == IF Written(o) THEN nvPins' = pins' /\ stored' = stored \cup {"pins"}
                             ELSE UNCHANGED <<nvPins, stored>>
SaveKeys(o) == IF Written(o) THEN nvKeys' = keys' /\ stored' = stored \cup {"keys"}
                             ELSE UNCHANGED <<nvKeys, stored>>
SaveDos(o)  == IF Written(o) THEN nvDos' = dos' /\ stored' = stored \cup {"dos"}
                             ELSE UNCHANGED <<nvDos, stored>>

\* The caller looks at the result, or does not.
Heeded(o)  == Account(o) /\ UNCHANGED silent
Ignored(o) == Account(o) /\ silent' = (silent \/ ~Written(o))

-----------------------------------------------------------------------------
(* The start.                                                              *)

\* A key of the first version is used when there is no blob of the second.
Legacy == [NoKeys EXCEPT !["SIG"] = legacy]
LoadedKeys == IF "keys" \in stored THEN nvKeys ELSE Legacy
LoadedPins == IF "pins" \in stored THEN nvPins ELSE FactoryPins(0)
LoadedDos  == IF "dos" \in stored THEN nvDos ELSE NoDos

\* A device that comes from the factory, or with a key of the first version.
Init ==
  /\ legacy \in 0..1 /\ born = legacy
  /\ stored = {} /\ nvPins = FactoryPins(0) /\ nvKeys = NoKeys /\ nvDos = NoDos
  /\ pins = FactoryPins(0) /\ dos = NoDos /\ keys = Legacy
  /\ selected = FALSE /\ terminated = FALSE /\ auth = {}
  /\ pc = (IF legacy = 0 THEN "seed" ELSE "migrate") /\ arg = "none"
  /\ wrong = [p \in Pw |-> 0] /\ signed = [k \in 1..KEYS |-> 0]
  /\ faults = 0 /\ silent = FALSE

\* The plug is pulled at any point: openpgp_card_init, openpgp_do_init and
\* openpgp_card_load begin from the flash.
Restart ==
  /\ pins' = LoadedPins /\ keys' = LoadedKeys /\ dos' = LoadedDos
  /\ selected' = FALSE /\ terminated' = FALSE /\ auth' = {}
  /\ pc' = (IF "keys" \notin stored /\ legacy # 0 THEN "migrate" ELSE "seed")
  /\ arg' = "none"
  /\ UNCHANGED <<flash, history, faults, silent>>

\* openpgp_card_load: a refused migration is tried again at the next start.
Migrate == \E o \in Outcome :
  /\ pc = "migrate" /\ pc' = "seed"
  /\ UNCHANGED ram /\ SaveKeys(o) /\ Heeded(o)
  /\ UNCHANGED <<nvPins, nvDos, legacy, session, arg, history>>

\* openpgp_card_ensure_defaults puts what is absent, one object and one save
\* at a time.  At the start a failure is logged, in a reset it is not answered.
Seeded == dos.uif # ABSENT /\ dos.count # ABSENT

Put(o) == SaveDos(o) /\ UNCHANGED <<nvPins, nvKeys, legacy>>

Seed == \E o \in Outcome :
  /\ pc \in {"seed", "reseed"} /\ ~Seeded
  /\ dos' = IF dos.uif = ABSENT THEN [dos EXCEPT !.uif = 1] ELSE [dos EXCEPT !.count = 0]
  /\ Put(o) /\ IF pc = "seed" THEN Heeded(o) ELSE Ignored(o)
  /\ UNCHANGED <<pins, keys, session, pc, arg, history>>

SeedEnds ==
  /\ pc \in {"seed", "reseed"} /\ Seeded
  /\ pc' = IF pc = "seed" THEN "serial" ELSE "reserial"
  /\ UNCHANGED <<ram, flash, session, arg, history, faults, silent>>

\* openpgp_card_set_serial puts the serial number, and with it all objects.
Serial == \E o \in Outcome :
  /\ pc \in {"serial", "reserial"} /\ pc' = "idle"
  /\ UNCHANGED ram /\ Put(o) /\ IF pc = "serial" THEN Heeded(o) ELSE Ignored(o)
  /\ UNCHANGED <<session, arg, history>>

-----------------------------------------------------------------------------
(* The commands (openpgp_card_apdu).                                       *)

Ready == pc = "idle" /\ ~terminated /\ selected

Select ==
  /\ pc = "idle" /\ ~terminated
  /\ selected' = TRUE /\ auth' = {}
  /\ UNCHANGED <<ram, flash, terminated, pc, arg, history, faults, silent>>

\* VERIFY, modes 81 and 82 on PW1 and 83 on PW3.
PwOf(mode) == IF mode = "83" THEN "pw3" ELSE "pw1"

VerifyRight(mode) ==
  LET p == PwOf(mode) IN
  /\ Ready /\ pins.left[p] > 0
  /\ pins' = [pins EXCEPT !.left[p] = RETRIES]
  /\ auth' = auth \cup {mode} /\ wrong' = [wrong EXCEPT ![p] = 0]
  /\ pc' = IF pins.left[p] = RETRIES THEN "idle" ELSE "right"
  /\ UNCHANGED <<keys, dos, flash, selected, terminated, arg, born, signed, faults, silent>>

\* Faulty variant: the attempt is answered and not saved.
WrongPin_unsaved(p) ==
  /\ Ready /\ pins.left[p] > 0
  /\ pins' = [pins EXCEPT !.left[p] = @ - 1]
  /\ wrong' = [wrong EXCEPT ![p] = IF silent THEN @ ELSE @ + 1]
  /\ UNCHANGED <<keys, dos, flash, session, pc, arg, born, signed, faults, silent>>

\* VERIFY and CHANGE REFERENCE DATA with a wrong PIN.
WrongPin(p) ==
  /\ Ready /\ pins.left[p] > 0
  /\ pins' = [pins EXCEPT !.left[p] = @ - 1]
  /\ pc' = "wrong" /\ arg' = p
  /\ UNCHANGED <<keys, dos, flash, session, history, faults, silent>>

\* CHANGE REFERENCE DATA.
ModesOf(p) == IF p = "pw1" THEN {"81", "82"} ELSE {"83"}

Change(p, new) ==
  /\ Ready /\ pins.left[p] > 0
  /\ pins' = [pins EXCEPT !.pin[p] = new, !.left[p] = RETRIES]
  /\ auth' = auth \ ModesOf(p) /\ wrong' = [wrong EXCEPT ![p] = 0]
  /\ pc' = "right"
  /\ UNCHANGED <<keys, dos, flash, selected, terminated, arg, born, signed, faults, silent>>

\* pin_persist, and the answer.
PinPersist == \E o \in Outcome :
  /\ pc \in {"right", "wrong"} /\ pc' = "idle" /\ arg' = "none"
  /\ UNCHANGED ram /\ SavePins(o) /\ Ignored(o)
  /\ wrong' = IF pc = "wrong" /\ ~silent' THEN [wrong EXCEPT ![arg] = @ + 1] ELSE wrong
  /\ UNCHANGED <<nvKeys, nvDos, legacy, session, born, signed>>

\* PUT DATA of D6 and of C4.  A save that fails is answered, and RAM keeps
\* what the flash may not have.
PutData == \E o \in Outcome, v \in 0..1 :
  /\ Ready /\ "83" \in auth
  /\ dos' \in {[dos EXCEPT !.uif = v], [dos EXCEPT !.c4 = v]}
  /\ Put(o) /\ Heeded(o)
  /\ UNCHANGED <<pins, keys, session, pc, arg, history>>

\* Faulty variant: the counter is set back before the key is saved.
NewKey_zeroed(s) ==
  /\ Ready /\ "83" \in auth /\ born < KEYS
  /\ born' = born + 1 /\ keys' = [keys EXCEPT ![s] = born']
  /\ dos' = [dos EXCEPT !.count = 0] /\ nvDos' = dos' /\ stored' = stored \cup {"dos"}
  /\ pc' = "made" /\ arg' = s
  /\ UNCHANGED <<pins, nvPins, nvKeys, legacy, session, wrong, signed, faults, silent>>

\* Key import and GENERATE, up to the save.
NewKey(s) ==
  /\ Ready /\ "83" \in auth /\ born < KEYS
  /\ born' = born + 1 /\ keys' = [keys EXCEPT ![s] = born']
  /\ pc' = "made" /\ arg' = s
  /\ UNCHANGED <<pins, dos, flash, session, wrong, signed, faults, silent>>

\* Faulty variant: the slot keeps a key that was not saved.
KeyPersist_kept == \E o \in Outcome :
  /\ pc = "made" /\ UNCHANGED keys /\ SaveKeys(o) /\ Heeded(o)
  /\ pc' = IF o = "ok" /\ arg = "SIG" THEN "zero" ELSE "idle"
  /\ arg' = "none"
  /\ UNCHANGED <<pins, dos, nvPins, nvDos, legacy, session, history>>

\* key_persist; when it fails the slot is emptied and 6F00 answered.
KeyPersist == \E o \in Outcome :
  /\ pc = "made"
  /\ IF Written(o) THEN nvKeys' = keys /\ stored' = stored \cup {"keys"}
                   ELSE UNCHANGED <<nvKeys, stored>>
  /\ keys' = IF o = "ok" THEN keys ELSE [keys EXCEPT ![arg] = 0]
  /\ pc' = IF o = "ok" /\ arg = "SIG" THEN "zero" ELSE "idle"
  /\ arg' = "none" /\ Heeded(o)
  /\ UNCHANGED <<pins, dos, nvPins, nvDos, legacy, session, history>>

\* ds_counter_reset, and the answer.
CounterReset == \E o \in Outcome :
  /\ pc = "zero" /\ pc' = "idle"
  /\ dos' = [dos EXCEPT !.count = 0] /\ Put(o) /\ Ignored(o)
  /\ UNCHANGED <<pins, keys, session, arg, history>>

\* PSO:CDS: the user may refuse the touch that D6 asks for, which keeps the
\* authorisation; the signature may fail, which does not.
Signs ==
  /\ Ready /\ keys["SIG"] # 0 /\ "81" \in auth
  /\ auth' = IF dos.c4 = 1 THEN auth ELSE auth \ {"81"}
  /\ \/ pc' = "idle"
     \/ dos.count < SIGS /\ pc' = "count"
  /\ UNCHANGED <<ram, flash, selected, terminated, arg, history, faults, silent>>

\* The counter is saved before the signature is answered.
Count == \E o \in Outcome :
  /\ pc = "count" /\ pc' = "idle"
  /\ dos' = [dos EXCEPT !.count = IF @ = ABSENT THEN 1 ELSE @ + 1] /\ Put(o) /\ Ignored(o)
  /\ signed' = IF silent' THEN signed ELSE [signed EXCEPT ![keys["SIG"]] = @ + 1]
  /\ UNCHANGED <<pins, keys, session, arg, born, wrong>>

-----------------------------------------------------------------------------
(* The factory reset: TERMINATE DF, with PW3 or when both PINs are         *)
(* blocked, and ACTIVATE FILE after it.                                    *)

Terminate ==
  /\ pc = "idle" /\ ~terminated
  /\ "83" \in auth \/ \A p \in Pw : pins.left[p] = 0
  /\ terminated' = TRUE

Activate == pc = "idle" /\ terminated /\ terminated' = FALSE

FactoryReset ==
  /\ Terminate \/ Activate
  /\ selected' = FALSE /\ auth' = {} /\ keys' = NoKeys /\ pc' = "wipeKeys"
  /\ UNCHANGED <<pins, dos, flash, arg, history, faults, silent>>

\* Faulty variant: the keys are emptied in RAM only.
WipeKeys_unsaved ==
  /\ pc = "wipeKeys" /\ pc' = "wipePins"
  /\ dos' = NoDos /\ pins' = FactoryPins(born) /\ wrong' = [p \in Pw |-> 0]
  /\ UNCHANGED <<keys, flash, session, arg, born, signed, faults, silent>>

WipeKeys == \E o \in Outcome :
  /\ pc = "wipeKeys" /\ pc' = "wipePins"
  /\ UNCHANGED keys /\ SaveKeys(o) /\ Ignored(o)
  /\ dos' = NoDos /\ pins' = FactoryPins(born) /\ wrong' = [p \in Pw |-> 0]
  /\ UNCHANGED <<nvPins, nvDos, legacy, session, arg, born, signed>>

WipePins == \E o \in Outcome :
  /\ pc = "wipePins" /\ pc' = "reseed"
  /\ UNCHANGED ram /\ SavePins(o) /\ Ignored(o)
  /\ UNCHANGED <<nvKeys, nvDos, legacy, session, arg, history>>

-----------------------------------------------------------------------------
Command ==
  \/ Select \/ PutData \/ Signs \/ FactoryReset
  \/ \E mode \in {"81", "82", "83"} : VerifyRight(mode)
  \/ \E p \in Pw : WrongPin(p) \/ \E new \in PinValue : Change(p, new)
  \/ \E s \in SLOTS : NewKey(s)

\* The rest of a command, or of the start.
Continue == \/ Migrate \/ Seed \/ SeedEnds \/ Serial
            \/ PinPersist \/ KeyPersist \/ CounterReset \/ Count
            \/ WipeKeys \/ WipePins

Next == Command \/ Continue \/ Restart

Spec == Init /\ [][Next]_vars

-----------------------------------------------------------------------------
(* Properties.  Every one of them speaks of what the flash holds, which is *)
(* what the card is after the next restart.                                *)

\* Between two commands the PINs the card goes by, and every key it uses, are
\* those of the flash: openpgp_card.c line 1026 empties the slot of a key that
\* could not be saved, and each handler saves the PINs it changed.
AnswersAreDurable ==
  pc = "idle" =>
    /\ ~silent => pins = LoadedPins
    /\ \A s \in SLOTS : keys[s] # 0 => LoadedKeys[s] = keys[s]

\* docs/superpowers/specs/2026-06-09-dongle-openpgp-card-design.md line 246: no
\* restart gives back an attempt that was answered as wrong.
TriesAreKept ==
  ~silent => \A p \in Pw : LoadedPins.left[p] + wrong[p] <= RETRIES

\* A signature that was answered has been counted: after any restart the counter
\* is at least the signatures of the key it counts for, also when a new key was
\* refused and the old one is back (PSO:CDS and ds_counter_reset).
CounterCounts ==
  LET k == LoadedKeys["SIG"] IN
  ~silent /\ k # 0 /\ signed[k] > 0 => "dos" \in stored /\ nvDos.count >= signed[k]

\* No key is left behind the factory's PINs, wherever the plug is pulled in a
\* factory reset; and, openpgp_card.c lines 616-620, once TERMINATE has been
\* answered the wipe is in the flash.
ResetIsWhole ==
  ~silent =>
    /\ \A s \in SLOTS : LoadedKeys[s] # 0 => LoadedKeys[s] > LoadedPins.since
    /\ pc = "idle" /\ terminated =>
         /\ LoadedKeys = NoKeys /\ LoadedPins = FactoryPins(born)
         /\ LoadedDos = [count |-> 0, uif |-> 1, c4 |-> ABSENT]
=============================================================================
