----------------------------- MODULE KeyFeatures -----------------------------
(***************************************************************************)
(* Combos, tap dances and leader sequences over the loop of vTaskKeyboard. *)
(*                                                                         *)
(* The three engines are called from build_keycode_report, on every build  *)
(* and not on every press, and their results are taken by the loop, or put *)
(* into the report by the build itself.  A build is one action, its steps  *)
(* are functions over one record, as in Layers; scan callbacks come        *)
(* between the actions.  Time is a mark on what has waited long enough.    *)
(* The keymap has one layer.  Mod-taps, of which ScanLoop and Layers speak,*)
(* appear as builds that no scan callback asked for and as taps; the codes *)
(* of a macro take slots of the report as taps do.  The other half changes *)
(* the slots as on a half without display: without its keys the callback,  *)
(* without the keys of this half matrix_apply_remote.                      *)
(***************************************************************************)
EXTENDS Naturals, Sequences, FiniteSets, SequencesExt

CONSTANTS Plain,     \* positions with a keycode; the code is named as the position
          Dance,     \* positions of tap-dance keys, one per dance
          LeaderKey, \* positions of leader keys
          Far,       \* of these, the positions of the other half
          Combos,    \* combo_config_t[]: a sequence of [keys, result]
          Actions,   \* tap_dance_config_t[]: the actions that are set, TAPS + 1 is hold
          LeaderSeqs,\* leader_entry_t[]: the sequences with a result
          SLOTS,     \* MAX_REPORT_KEYS (6)
          DEFERRED,  \* MAX_DEFERRED (4)
          TAPS,      \* TAP_DANCE_MAX_TAPS (3)
          SEQ,       \* LEADER_MAX_SEQ_LEN (4)
          TapCode,   \* the keycode of a tap, or of a macro that is held
          Waiting,   \* how many taps may wait for a build
          None       \* INVALID_KEY_POS, keycode 0

Key    == Plain \cup Dance \cup LeaderKey
Combo  == DOMAIN Combos
Result == {Combos[i].result : i \in Combo}
Code   == Plain \cup Result
Slots  == 1 .. SLOTS

\* A position has one nature, and a code one origin: a result is told apart from
\* the code of a key.
ASSUME KeyFeaturesAssumption ==
  /\ SLOTS \in Nat \ {0} /\ DEFERRED \in Nat \ {0} /\ TAPS \in Nat \ {0} /\ SEQ \in Nat \ {0}
  /\ Combos \in Seq([keys : SUBSET Plain, result : Result])
  /\ \A i \in Combo : Cardinality(Combos[i].keys) = 2
  /\ Actions \in [Dance -> SUBSET (1 .. TAPS + 1)]
  /\ \A s \in LeaderSeqs : s \in Seq(Plain) /\ Len(s) \in 1 .. SEQ
  /\ Plain \cap (Dance \cup LeaderKey) = {} /\ Dance \cap LeaderKey = {}
  /\ Result \cap Key = {} /\ None \notin Key \cup Result
  /\ TapCode \notin Key \cup Result \cup {None}
  /\ Far \subseteq Key /\ Waiting \subseteq Nat

VARIABLES local,   \* the keys down on this half, in the order pressed
          slots,   \* current_press_*
          prev,    \* prev_press_*
          changed, \* stat_matrix_changed
          pc,      \* where the loop of vTaskKeyboard is
          eng,     \* the engines, see Engine
          sent,    \* the codes of the report sent last, without taps
          left     \* history: the codes matrix_apply_remote left in keycodes[]

featuresVars == <<local, slots, prev, changed, pc, eng, sent, left>>

Engine ==
  [rep   : [Slots -> Code \cup {TapCode, None}],    \* keycodes[]
   defer : [1 .. DEFERRED -> Plain \cup {None}],    \* deferred[]
   old   : SUBSET Plain,                            \* deferred for COMBO_TIMEOUT_MS
   fired : SUBSET Combo,                            \* combo_active[]
   dance : [st : {"idle", "counting", "resolved"}, key : Dance \cup {None},
            n : 0 .. TAPS + 1, held : BOOLEAN, late : BOOLEAN],    \* active
   owed  : BOOLEAN,                                 \* resolved_flag of a dance
   lead  : [on : BOOLEAN, buf : BoundedSeq(Plain, SEQ), late : BOOLEAN,
            match : BOOLEAN],                       \* active, buffer, resolved_flag
   typed : SUBSET Combo,                            \* fired, with the result in a report
   crowded : SUBSET Combo,                          \* fired, with no slot empty for it
   aside : SUBSET Plain,                            \* history: left out by the last build
   ended : SUBSET Plain]                            \* history: no longer deferred since then

NoDance == [st |-> "idle", key |-> None, n |-> 0, held |-> FALSE, late |-> FALSE]

FeaturesTypeOK ==
  /\ slots \in BoundedSeq(Key, SLOTS) /\ local \in BoundedSeq(Key \ Far, SLOTS)
  /\ prev \subseteq Key
  /\ changed \in BOOLEAN /\ pc \in {"wait", "build", "results", "matrix"}
  /\ eng \in Engine
  /\ sent \subseteq Code /\ left \subseteq Code

FeaturesInit ==
  /\ local = <<>> /\ slots = <<>> /\ prev = {} /\ changed = FALSE /\ pc = "wait"
  /\ eng = [rep |-> [i \in Slots |-> None], defer |-> [n \in 1 .. DEFERRED |-> None],
            old |-> {}, fired |-> {}, dance |-> NoDance, owed |-> FALSE,
            lead |-> [on |-> FALSE, buf |-> <<>>, late |-> FALSE, match |-> FALSE],
            typed |-> {}, crowded |-> {}, aside |-> {}, ended |-> {}]
  /\ sent = {} /\ left = {}

Values(f) == {f[x] : x \in DOMAIN f} \ {None}
-----------------------------------------------------------------------------
(* Tap dance (tap_dance.c).                                                *)

resolve_dance(e, action) ==
  [e EXCEPT !.dance.st = "resolved",
            !.owed = @ \/ action \in Actions[e.dance.key]]

NewDance(e, d) ==
  [e EXCEPT !.dance = [st |-> "counting", key |-> d, n |-> 1, held |-> TRUE, late |-> FALSE],
            !.owed = FALSE]

NextTap(e) ==
  LET f == [e EXCEPT !.dance.n = @ + 1, !.dance.held = TRUE, !.dance.late = FALSE]
  IN  IF f.dance.n > TAPS THEN resolve_dance(f, TAPS) ELSE f

\* Called in each build for a tap-dance key that is down, pressed or held; a
\* dance that another interrupts is resolved with the taps it has.
tap_dance_on_press(e, d) ==
  CASE e.dance.st # "counting" -> NewDance(e, d)
    [] e.dance.st = "counting" /\ e.dance.key = d -> NextTap(e)
    [] OTHER -> resolve_dance(e, e.dance.n)

tap_dance_on_release(e, k) ==
  IF e.dance.st # "idle" /\ e.dance.key = k THEN [e EXCEPT !.dance.held = FALSE] ELSE e

\* Faulty variant: waits for the timeout of a key that is held only.
tap_dance_tick_heldOnly(e) ==
  IF e.dance.st = "counting" /\ e.dance.late /\ e.dance.held
  THEN resolve_dance(e, TAPS + 1) ELSE e

tap_dance_tick(e) ==
  IF e.dance.st = "counting" /\ e.dance.late
  THEN resolve_dance(e, IF e.dance.held THEN TAPS + 1 ELSE e.dance.n) ELSE e

tap_dance_consume(e) ==
  [e EXCEPT !.owed = FALSE,
            !.dance.st = IF @ = "resolved" THEN "idle" ELSE @]
-----------------------------------------------------------------------------
(* Leader sequences (leader.c).                                            *)

leader_start(e) ==
  [e EXCEPT !.lead = [on |-> TRUE, buf |-> <<>>, late |-> FALSE, match |-> FALSE]]

LeaderMatch(e) ==
  IF e.lead.buf \in LeaderSeqs
  THEN [e EXCEPT !.lead.on = FALSE, !.lead.match = TRUE] ELSE e

cancel(e) == [e EXCEPT !.lead.on = FALSE, !.lead.buf = <<>>]

\* A sequence that is the beginning of a longer one waits for what follows.
leader_feed(e, k) ==
  LET f == [e EXCEPT !.lead.buf = Append(@, k), !.lead.late = FALSE]
  IN  CASE Len(e.lead.buf) = SEQ -> cancel(e)
        [] \E s \in LeaderSeqs : IsStrictPrefix(f.lead.buf, s) -> f
        [] OTHER -> LeaderMatch(f)

\* At the timeout what there is is resolved, or dropped.
leader_tick(e) ==
  IF e.lead.on /\ e.lead.late /\ ~e.lead.match
  THEN cancel(IF e.lead.buf # <<>> THEN LeaderMatch(e) ELSE e) ELSE e

leader_consume(e) == [e EXCEPT !.lead.match = FALSE]
-----------------------------------------------------------------------------
(* Combos (combo.c).                                                       *)

combo_should_defer(k) == \E i \in Combo : k \in Combos[i].keys

\* A key that finds all entries taken is not deferred, and its caller leaves
\* it out all the same.
combo_defer_key(e, k) ==
  LET free == {n \in 1 .. DEFERRED : e.defer[n] = None}
  IN  IF k \in Values(e.defer) THEN e
      ELSE IF free = {} THEN [e EXCEPT !.aside = @ \cup {k}]
      ELSE [e EXCEPT !.defer[CHOOSE n \in free : \A m \in free : n <= m] = k,
                     !.old = @ \ {k}]

combo_is_suppressed(e, k) ==
  k \in Values(e.defer) \/ \E i \in e.fired : k \in Combos[i].keys

\* The first empty slot of keycodes[], if there is one.
Injected(e, c) ==
  LET free == {i \in Slots : e.rep[i] = None}
  IN  IF free = {} THEN e ELSE [e EXCEPT !.rep[CHOOSE i \in free : \A j \in free : i <= j] = c]

Undeferred(e, keys) ==
  [e EXCEPT !.defer = [n \in 1 .. DEFERRED |-> IF @[n] \in keys THEN None ELSE @[n]],
            !.old = @ \ keys]

\* Faulty variant: a combo is active as soon as both keys are down (audit M3).
ComboStep_activeFirst(down, e, i) ==
  LET keys == Combos[i].keys
      hits == keys \cap Values(e.defer)
  IN  CASE ~ keys \subseteq down ->
             [e EXCEPT !.fired = @ \ {i}, !.typed = @ \ {i}, !.crowded = @ \ {i},
                       !.aside = IF i \in e.fired THEN @ \cup keys ELSE @]
        [] keys \subseteq down /\ i \notin e.fired ->
             [Undeferred(e, keys) EXCEPT !.fired = @ \cup {i},
                                         !.typed = IF hits # {} THEN @ \cup {i} ELSE @]
        [] OTHER -> e

\* A combo fires if both keys are down and one of them is still deferred; one
\* that lost a key lets the other go.
ComboStep(down, e, i) ==
  LET keys == Combos[i].keys
  IN  CASE ~ keys \subseteq down ->
             [e EXCEPT !.fired = @ \ {i}, !.typed = @ \ {i}, !.crowded = @ \ {i},
                       !.aside = IF i \in e.fired THEN @ \cup keys ELSE @]
        [] keys \subseteq down /\ i \notin e.fired /\ keys \cap Values(e.defer) # {} ->
             [Undeferred(e, keys) EXCEPT !.fired = @ \cup {i}, !.typed = @ \cup {i}]
        [] OTHER -> e

\* Ran out of time, or the key is up: the keycode goes into the report now.
Expired(down, e) ==
  {n \in 1 .. DEFERRED : e.defer[n] # None /\ (e.defer[n] \in e.old \/ e.defer[n] \notin down)}

\* The combos in their order, and the queue of codes of S emptied from its end:
\* the engines after each step.
Matching(down, e) ==
  LET x[i \in 0 .. Len(Combos)] == IF i = 0 THEN e ELSE ComboStep(down, x[i - 1], i)
  IN  x

Injecting(e, codes, S, n) ==
  LET x[m \in 0 .. n] ==
        IF m = 0 THEN e
        ELSE IF n + 1 - m \in S THEN Injected(x[m - 1], codes[n + 1 - m]) ELSE x[m - 1]
  IN  x

\* The taps that wait, and the codes of macros before them (Step 8).
Tapped(e, n) == Injecting(e, [m \in 1 .. n |-> TapCode], 1 .. n, n)[n]

\* A result that finds no empty slot is not typed, nor is a key whose time ended.
combo_process(down, e) ==
  LET f    == Matching(down, e)[Len(Combos)]
      over == Expired(down, f)
      keys == {f.defer[n] : n \in over}
      res  == [i \in Combo |-> Combos[i].result]
      g    == Injecting(Undeferred(f, keys), res, f.typed \ e.typed, Len(Combos))[Len(Combos)]
      h    == Injecting(g, f.defer, over, DEFERRED)[DEFERRED]
      lost == {i \in f.typed \ e.typed : res[i] \notin Values(g.rep)}
  IN  [h EXCEPT !.ended = @ \cup keys, !.aside = @ \cup (keys \ Values(h.rep)),
                !.typed = @ \ lost,
                !.crowded = IF \E i \in Slots : g.rep[i] = None THEN @ ELSE @ \cup lost]
-----------------------------------------------------------------------------
(* build_keycode_report.                                                   *)

is_new_press(k) == k \notin prev

detect_releases(e) ==
  IF e.dance.key \in prev \ ToSet(slots) THEN tap_dance_on_release(e, e.dance.key) ELSE e

\* A plain key feeds the leader, waits for its combo, belongs to one, or is typed.
PlainKey(e, i, k) ==
  LET new == is_new_press(k)
  IN  IF e.lead.on
      THEN [(IF new THEN leader_feed(e, k) ELSE e) EXCEPT !.aside = @ \cup {k}]
      ELSE IF new /\ combo_should_defer(k) THEN combo_defer_key(e, k)
      ELSE IF combo_is_suppressed(e, k) THEN e
      ELSE [e EXCEPT !.rep[i] = k]

ProcessKey(e, i) ==
  CASE i > Len(slots)           -> [e EXCEPT !.rep[i] = None]
    [] i \in DOMAIN slots /\ slots[i] \in Dance     -> tap_dance_on_press(e, slots[i])
    [] i \in DOMAIN slots /\ slots[i] \in LeaderKey -> leader_start(e)
    [] i \in DOMAIN slots /\ slots[i] \in Plain     -> PlainKey(e, i, slots[i])

\* The engines after each slot.
Processing(e) ==
  LET x[i \in 0 .. SLOTS] == IF i = 0 THEN e ELSE ProcessKey(x[i - 1], i)
  IN  x

build_keycode_report(e, n) ==
  LET f == [e EXCEPT !.aside = {}, !.ended = @ \cap Values(e.rep)]
  IN  combo_process(ToSet(slots), Tapped(Processing(detect_releases(f))[SLOTS], n))

\* A build with n taps, and send_hid_key with what it made; the taps in the slots of
\* `gone` are cleared again, others stay.
BuildAndSend(n, gone) ==
  LET e == build_keycode_report(eng, n)
  IN  /\ \A i \in gone : e.rep[i] = TapCode
      /\ eng' = [e EXCEPT !.rep = [i \in Slots |-> IF i \in gone THEN None ELSE @[i]]]
      /\ sent' = Values(e.rep) \ {TapCode}
      /\ prev' = ToSet(slots)
      /\ left' = left \cap Values(eng.rep)
-----------------------------------------------------------------------------
(* The scan callback, and time.                                            *)

Scanned == /\ eng' = [eng EXCEPT !.rep = [i \in Slots |-> None]]
           /\ changed' = TRUE /\ slots' = local'
           /\ UNCHANGED <<prev, pc, sent, left>>

Press(k) == /\ k \notin Far \cup ToSet(local) /\ Len(local) < SLOTS
            /\ local' = Append(local, k)
            /\ Scanned

Release(k) == /\ \E i \in DOMAIN local : local[i] = k /\ local' = RemoveAt(local, i)
              /\ Scanned

\* COMBO_TIMEOUT_MS, TAP_DANCE_TIMEOUT_MS, LEADER_TIMEOUT_MS.
ComboTime(k) == /\ k \in Values(eng.defer) \ eng.old
                /\ eng' = [eng EXCEPT !.old = @ \cup {k}]
DanceTime == /\ eng.dance.st = "counting" /\ ~eng.dance.late
             /\ eng' = [eng EXCEPT !.dance.late = TRUE]
LeaderTime == /\ eng.lead.on /\ ~eng.lead.late
              /\ eng' = [eng EXCEPT !.lead.late = TRUE]

Elapse == /\ (\E k \in Plain : ComboTime(k)) \/ DanceTime \/ LeaderTime
          /\ UNCHANGED <<local, slots, prev, changed, pc, sent, left>>
-----------------------------------------------------------------------------
(* The loop of vTaskKeyboard.                                              *)

\* A turn that finds the other half as it was; a build follows if a hold has begun.
Tick == /\ pc = "wait" /\ pc' \in {"build", "results"}
        /\ eng' = tap_dance_tick(eng)
        /\ UNCHANGED <<local, slots, prev, changed, sent, left>>

\* A turn that finds the other half changed: matrix_apply_remote fills the slots from
\* the first, and leaves keycodes[] as it is.
RemoteApply == /\ pc = "wait" /\ Far # {} /\ pc' = "build"
               /\ eng' = tap_dance_tick(eng)
               /\ slots' \in {f \in BoundedSeq(Far, SLOTS) : IsInjective(f)}
               /\ left' = left \cup (Values(eng.rep) \ {TapCode})
               /\ UNCHANGED <<local, prev, changed, sent>>

\* The build of a change of the other half, or of a hold; one may follow the other.
OtherBuild == /\ pc = "build" /\ pc' \in {"build", "results"}
              /\ \E n \in Waiting : BuildAndSend(n, {})
              /\ UNCHANGED <<local, slots, changed>>

\* What was resolved is taken, and sent by send_tap.
Results == /\ pc = "results" /\ pc' = "matrix"
           /\ LET d == IF eng.owed THEN tap_dance_consume(eng) ELSE eng
              IN  eng' = leader_consume(leader_tick(d))
           /\ UNCHANGED <<local, slots, prev, changed, sent, left>>

MatrixPath == /\ pc = "matrix" /\ pc' = "wait"
              /\ changed' = FALSE
              /\ IF changed
                 THEN \E n \in Waiting, gone \in SUBSET Slots : BuildAndSend(n, gone)
                 ELSE UNCHANGED <<eng, prev, sent, left>>
              /\ UNCHANGED <<local, slots>>
-----------------------------------------------------------------------------
Loop == Tick \/ RemoteApply \/ OtherBuild \/ Results \/ MatrixPath
FeaturesNext == (\E k \in Key : Press(k) \/ Release(k)) \/ Elapse \/ Loop

FeaturesSpec == FeaturesInit /\ [][FeaturesNext]_featuresVars

\* The task is scheduled, and time passes; nobody has to type.  Tick,
\* OtherBuild, Results and MatrixPath are enabled wherever the loop is at them.
Advances == pc' \in {"wait", "build", "results", "matrix"} \ {pc}

FairFeatures == /\ FeaturesSpec
            /\ WF_pc(Advances)
            /\ WF_eng(DanceTime) /\ WF_eng(LeaderTime)
-----------------------------------------------------------------------------
(* Properties.                                                             *)

\* Nothing is swallowed (audit M3): a key that is down was typed, waits for its
\* partner, or belongs to a combo that typed its result; or this build left it out:
\* the leader took it, the entries of deferred[] or the slots were all taken, or its
\* combo has just lost the other key; or its combo fired while no slot was empty.
NothingSwallowed ==
  prev \cap Plain \subseteq sent \cup Values(eng.defer) \cup eng.aside
        \cup UNION {Combos[i].keys : i \in eng.fired \cap (eng.typed \cup eng.crowded)}

\* Nothing is invented: what the host was sent is down, or is the result of a combo
\* whose keys are both down, or a key whose time as a combo key has just ended; or
\* matrix_apply_remote left it in a slot whose new key writes nothing.
NothingInvented ==
  sent \subseteq prev \cup {Combos[i].result : i \in eng.typed} \cup eng.ended \cup left

\* Nothing is typed twice: a key that waits is down, and not in the report yet, but
\* for what matrix_apply_remote left there.
NothingTwice == Values(eng.defer) \subseteq prev \ (sent \ left)

\* combo_process, combo_is_suppressed: keys that are held back, for a partner that
\* comes or does not, are accounted for in each report, as are the codes in it.
ReportAccounted == NothingSwallowed /\ NothingInvented /\ NothingTwice

\* tap_dance_tick, leader_tick: a dance that was begun is resolved and its result
\* taken, and a sequence is matched or given up, once nobody presses or releases a
\* key any more, whatever is held.
EnginesRest ==
  <>[](~changed /\ pc # "build") => <>[](eng.dance.st # "counting" /\ ~eng.lead.on
                                          /\ ~eng.owed /\ ~eng.lead.match)
=============================================================================
