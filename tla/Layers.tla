------------------------------- MODULE Layers -------------------------------
(***************************************************************************)
(* Which layer and which modifiers are in effect.                          *)
(*                                                                         *)
(* Five things move current_layout: momentary keys (MO, LM), layer-taps    *)
(* (LT), toggles (TO) and the LAYER_INDEX command of the host; each undoes *)
(* itself with a memory of its own.  A build is one action here, a         *)
(* composition of its steps over the state of the engine in the order of   *)
(* build_keycode_report; its races with the scan callback are the subject  *)
(* of ScanLoop.  The slots are the keys down, in the order pressed.  Time  *)
(* is left out: any pending key may be the next to reach 200 ms.           *)
(* One-shots, layer lock and the other feature keys are not in the map.    *)
(***************************************************************************)
EXTENDS Naturals, Sequences, FiniteSets

CONSTANTS Key,       \* matrix positions
          Mod,       \* modifiers
          LAYERS,    \* layers of the keymap (10)
          KeyMap,    \* keymaps[layer][key]
          SLOTS,     \* MAX_REPORT_KEYS (6)
          ENTRIES,   \* TAP_HOLD_MAX_PENDING (4)
          Asked,     \* layers the host asks for
          None       \* INVALID_KEY_POS, no layer (-1), no internal function

Layer == 0 .. LAYERS - 1
Kind  == {"no", "plain", "mo", "lm", "to", "lt", "mt"}
Code  == [kind : Kind, layer : Nat, mods : SUBSET Mod]

\* MO and TO name a layer of the map; LT and LM have four bits for it.
ASSUME LayersAssumption ==
  /\ LAYERS \in Nat \ {0} /\ SLOTS \in Nat \ {0} /\ ENTRIES \in Nat \ {0}
  /\ Asked \subseteq Nat
  /\ KeyMap \in [Layer -> [Key -> Code]]
  /\ \A l \in Layer, k \in Key : KeyMap[l][k].kind \in {"mo", "to"} => KeyMap[l][k].layer \in Layer
  /\ None \notin Key /\ None \notin Nat

VARIABLES down,     \* current_press_*: the keys in the slots
          prev,     \* prev_press_*
          changed,  \* stat_matrix_changed
          eng,      \* the engine, see Engine
          home,     \* history: the layer last chosen by a toggle or the host
          alone     \* history: no two of the five have met since

vars == <<down, prev, changed, eng, home, alone>>

Entries == 1 .. ENTRIES
Entry == [st : {"idle", "pending", "hold", "tap"}, key : Key \cup {None},
          layer : Nat \cup {None}, mods : SUBSET Mod, seq : 0 .. 2 * ENTRIES]
Idle == [st |-> "idle", key |-> None, layer |-> None, mods |-> {}, seq |-> 0]

Engine == [layer   : Layer,                   \* current_layout
           last    : Layer,                   \* last_layer
           changer : Key \cup {None},         \* current_row/col_layer_changer
           lm      : SUBSET Mod,              \* lm_active_mods
           lt      : Layer \cup {None},       \* active_hold_layer
           base    : Layer \cup {None},       \* th_layer_base
           mods    : SUBSET Mod,              \* active_hold_mods
           pend    : [Entries -> Entry],      \* pending[]
           fn      : Layer \cup {None},       \* keypress_internal_function
           extra   : [1 .. SLOTS -> Layer \cup {None}]]  \* toggles in extra_keycodes[]

SlotsType == /\ down \in Seq(Key) /\ Len(down) <= SLOTS
             /\ prev \in Seq(Key) /\ Len(prev) <= SLOTS
TypeOK == /\ SlotsType /\ changed \in BOOLEAN /\ eng \in Engine
          /\ home \in Layer /\ alone \in BOOLEAN

Init == /\ down = <<>> /\ prev = <<>> /\ changed = FALSE
        /\ eng = [layer |-> 0, last |-> 0, changer |-> None, lm |-> {}, lt |-> None,
                  base |-> None, mods |-> {}, pend |-> [n \in Entries |-> Idle],
                  fn |-> None, extra |-> [i \in 1 .. SLOTS |-> None]]
        /\ home = 0 /\ alone = TRUE

Held(s) == {s[i] : i \in DOMAIN s}
Rank(n, S) == Cardinality({m \in S : m <= n})
FirstOf(S) == {n \in S : \A m \in S : n <= m}
LastOf(S)  == {n \in S : \A m \in S : m <= n}

-----------------------------------------------------------------------------
(* The tap/hold engine.                                                    *)

\* The layer-taps on hold whose layer exists.
HeldLts(pend) == {n \in Entries : pend[n].st = "hold" /\ pend[n].layer \in Layer}

\* The one held last (activate_seq).
Newest(pend) == {n \in HeldLts(pend) : \A m \in HeldLts(pend) : pend[m].seq <= pend[n].seq}

\* Faulty variant: the first release ends them all (the fault of audit E1).
recompute_lt_layer_single(e) ==
  IF e.base = None THEN [e EXCEPT !.lt = None]
  ELSE [e EXCEPT !.lt = None, !.layer = e.base, !.base = None]

recompute_lt_layer(e) ==
  IF Newest(e.pend) # {}
  THEN LET l == e.pend[CHOOSE n \in Newest(e.pend) : TRUE].layer
       IN [e EXCEPT !.lt = l, !.layer = l]
  ELSE IF e.base = None THEN [e EXCEPT !.lt = None]
  ELSE [e EXCEPT !.lt = None, !.layer = e.base, !.base = None]

\* activate_hold on each entry of S, in the order of the table.  Only the order
\* of the sequence numbers matters: they are kept small.
Activated(e, S) ==
  LET held == HeldLts(e.pend)
      lts  == {n \in S : e.pend[n].layer \in Layer}
      pend == [n \in Entries |->
                IF n \in lts THEN [e.pend[n] EXCEPT !.st = "hold",
                                                    !.seq = Cardinality(held) + Rank(n, lts)]
                ELSE IF n \in S THEN [e.pend[n] EXCEPT !.st = "hold"]
                ELSE IF n \in held
                THEN [e.pend[n] EXCEPT !.seq =
                        Cardinality({m \in held : e.pend[m].seq <= e.pend[n].seq})]
                ELSE e.pend[n]]
      on   == [e EXCEPT !.pend = pend, !.mods = @ \cup UNION {e.pend[n].mods : n \in S}]
  IN IF lts = {} THEN on
     ELSE recompute_lt_layer([on EXCEPT !.base = IF e.lt = None THEN e.layer ELSE @])

Pending(e) == {n \in Entries : e.pend[n].st = "pending"}

Followed(e, k) == \E n \in Entries : e.pend[n].st # "idle" /\ e.pend[n].key = k
OnHold(e, k)   == \E n \in Entries : e.pend[n].st = "hold" /\ e.pend[n].key = k

-----------------------------------------------------------------------------
(* The steps of build_keycode_report.                                      *)

\* Faulty variant: a hold that ends leaves its modifiers.
detect_releases_keepMods(e, gone) ==
  LET freed == {n \in Entries : e.pend[n].st # "idle" /\ e.pend[n].key \in gone}
      pend == [n \in Entries |-> IF n \notin freed THEN e.pend[n]
                                 ELSE IF e.pend[n].st = "pending"
                                 THEN [e.pend[n] EXCEPT !.st = "tap"] ELSE Idle]
      off  == [e EXCEPT !.pend = pend]
  IN IF freed \cap HeldLts(e.pend) = {} THEN off ELSE recompute_lt_layer(off)

\* Step 1: tap_hold_on_release for each key that is gone.
detect_releases(e, gone) ==
  LET freed == {n \in Entries : e.pend[n].st # "idle" /\ e.pend[n].key \in gone}
      ends == {n \in freed : e.pend[n].st = "hold"}
      pend == [n \in Entries |-> IF n \notin freed THEN e.pend[n]
                                 ELSE IF e.pend[n].st = "pending"
                                 THEN [e.pend[n] EXCEPT !.st = "tap"] ELSE Idle]
      off  == [e EXCEPT !.pend = pend, !.mods = @ \ UNION {e.pend[n].mods : n \in ends}]
  IN IF freed \cap HeldLts(e.pend) = {} THEN off ELSE recompute_lt_layer(off)

\* The slots of s that hold a momentary key of layer l.
Momentary(l, s) == {i \in DOMAIN s : /\ KeyMap[l][s[i]].kind \in {"mo", "lm"}
                                     /\ KeyMap[l][s[i]].layer \in Layer}

\* Step 2: all are read in the layer of the start; the last one wins, and
\* remembers the layer of the one before it.
apply_momentary_layer(e, s) ==
  LET mine == Momentary(e.layer, s)
      rest == mine \ LastOf(mine)
      Of(S) == KeyMap[e.layer][s[CHOOSE i \in LastOf(S) : TRUE]]
  IN IF mine = {} THEN e
     ELSE [e EXCEPT !.last = IF rest = {} THEN e.layer ELSE Of(rest).layer,
                    !.layer = Of(mine).layer, !.lm = Of(mine).mods,
                    !.changer = s[CHOOSE i \in LastOf(mine) : TRUE]]

\* Step 3.
ActiveLayer(e) == IF e.lt # None THEN e.lt ELSE e.layer

Toggle(c) == IF c.kind = "to" THEN c.layer ELSE None

\* Faulty variant: an empty slot keeps what it held.
ExtraAfter_kept(e, s, a, i) ==
  LET c == KeyMap[a][s[i]]
  IN IF i \notin DOMAIN s THEN e.extra[i]
     ELSE IF OnHold(e, s[i]) \/ c.kind \in {"lt", "mt", "lm"} THEN Toggle(c)
     ELSE IF s[i] = e.changer \/ c.kind = "plain" THEN e.extra[i]
     ELSE IF c.kind # "no" THEN Toggle(c)
     ELSE IF KeyMap[e.last][s[i]].kind \in {"no", "plain"} THEN e.extra[i]
     ELSE Toggle(KeyMap[e.last][s[i]])

\* What a slot leaves in extra_keycodes[]: a key that is typed, and the key that
\* holds a momentary layer, leave it alone; a transparent key is read in last_layer.
ExtraAfter(e, s, a, i) ==
  LET c == KeyMap[a][s[i]]
  IN IF i \notin DOMAIN s THEN None
     ELSE IF OnHold(e, s[i]) \/ c.kind \in {"lt", "mt", "lm"} THEN Toggle(c)
     ELSE IF s[i] = e.changer \/ c.kind = "plain" THEN e.extra[i]
     ELSE IF c.kind # "no" THEN Toggle(c)
     ELSE IF KeyMap[e.last][s[i]].kind \in {"no", "plain"} THEN e.extra[i]
     ELSE Toggle(KeyMap[e.last][s[i]])

\* The slots whose key is typed; a key that is transparent twice counts.
Typed(e, s, a) ==
  {i \in DOMAIN s : /\ ~OnHold(e, s[i]) /\ s[i] # e.changer
                    /\ \/ KeyMap[a][s[i]].kind = "plain"
                       \/ /\ KeyMap[a][s[i]].kind = "no"
                          /\ KeyMap[e.last][s[i]].kind \in {"no", "plain"}}

\* Step 4, without the interrupt: new tap/hold keys take the free entries in
\* order, and the first toggle is kept as the internal function.
process_keys(e, s, a) ==
  LET new  == {i \in DOMAIN s : KeyMap[a][s[i]].kind \in {"lt", "mt"} /\ ~Followed(e, s[i])}
      free == {n \in Entries : e.pend[n].st = "idle"}
      tos  == {i \in DOMAIN s : ~OnHold(e, s[i]) /\ KeyMap[a][s[i]].kind = "to"}
      For(n) == {i \in new : Rank(i, new) = Rank(n, free)}
      New(i) == LET c == KeyMap[a][s[i]]
                IN [st |-> "pending", key |-> s[i], seq |-> 0,
                    layer |-> IF c.kind = "lt" THEN c.layer ELSE None,
                    mods |-> IF c.kind = "mt" THEN c.mods ELSE {}]
  IN [e EXCEPT !.pend = [n \in Entries |-> IF n \in free /\ For(n) # {}
                                           THEN New(CHOOSE i \in For(n) : TRUE)
                                           ELSE e.pend[n]],
               !.fn = IF @ # None \/ FirstOf(tos) = {} THEN @
                      ELSE KeyMap[a][s[CHOOSE i \in FirstOf(tos) : TRUE]].layer,
               !.extra = [i \in 1 .. SLOTS |-> ExtraAfter(e, s, a, i)]]

tap_hold_interrupt(e, typed) == IF typed = {} THEN e ELSE Activated(e, Pending(e))

\* Step 8: tap_hold_consume_tap until no tap is left; no tap is of keycode 0.
consume_taps(e) ==
  [e EXCEPT !.pend = [n \in Entries |-> IF e.pend[n].st = "tap" THEN Idle ELSE e.pend[n]]]

\* Step 10.  Without a changer, any empty slot passes for it.
ChangerHeld(e, s) == IF e.changer = None THEN Len(s) < SLOTS ELSE e.changer \in Held(s)

\* Faulty variant: the modifiers of the LM key stay.
release_momentary_keepMods(e, s) ==
  IF e.layer = e.last \/ ChangerHeld(e, s) THEN e
  ELSE [e EXCEPT !.layer = e.last, !.changer = None]

release_momentary(e, s) ==
  IF e.layer = e.last \/ ChangerHeld(e, s) THEN e
  ELSE [e EXCEPT !.layer = e.last, !.lm = {}, !.changer = None]

build_keycode_report(e, was, s) ==
  LET e1 == apply_momentary_layer(detect_releases(e, Held(was) \ Held(s)), s)
      a  == ActiveLayer(e1)
      e2 == tap_hold_interrupt(process_keys(e1, s, a), Typed(e1, s, a))
  IN release_momentary(consume_taps(e2), s)

-----------------------------------------------------------------------------
(* process_matrix_changes                                                  *)

Dispatches(e) == e.fn # None /\ \A i \in 1 .. SLOTS : e.extra[i] # e.fn

\* dispatch_internal_function has no case for a toggle.
apply_toggle_layer(e) ==
  LET l == IF e.layer = e.fn THEN 0 ELSE e.fn
  IN [e EXCEPT !.layer = l, !.last = l, !.fn = None]

process_matrix_changes(e) ==
  IF Dispatches(e) THEN apply_toggle_layer(e)
  ELSE IF e.fn = None THEN e
  ELSE LET here == {i \in 1 .. SLOTS : e.extra[i] = e.fn}
       IN [e EXCEPT !.extra = [i \in 1 .. SLOTS |-> IF i \in FirstOf(here) THEN None ELSE @[i]]]

-----------------------------------------------------------------------------
Press(k) == /\ k \notin Held(down) /\ Len(down) < SLOTS
            /\ down' = Append(down, k) /\ changed' = TRUE
            /\ UNCHANGED <<prev, eng, home, alone>>

Release(n) == /\ n \in DOMAIN down
              /\ down' = [m \in 1 .. Len(down) - 1 |-> IF m < n THEN down[m] ELSE down[m + 1]]
              /\ changed' = TRUE
              /\ UNCHANGED <<prev, eng, home, alone>>

\* Keys that can move a layer, and those that do it by tap/hold.
Moves(kinds) == {k \in Key : \E l \in Layer : KeyMap[l][k].kind \in kinds}

\* Two of the five meet in one build, or in two that follow: a momentary or
\* toggle key and another key that moves a layer, a toggle that still waits and
\* such a key, or a key that is momentary again in the layer it leads to.
\* Layer-taps may meet one another.
Meeting ==
  LET near == Held(down) \cup Held(prev)
      Leads(k, l) == /\ KeyMap[l][k].kind \in {"mo", "lm", "lt"}
                     /\ KeyMap[l][k].layer \in Layer
  IN \/ \E k \in near \cap Moves({"mo", "lm", "to"}), j \in near \cap Moves({"mo", "lm", "to", "lt"}) :
          j # k
     \/ eng.fn # None /\ near \cap Moves({"mo", "lm", "lt"}) # {}
     \/ \E k \in Held(down), l \in Layer :
          Leads(k, l) /\ KeyMap[KeyMap[l][k].layer][k].kind \in {"mo", "lm", "to"}

\* The loop of the keyboard task: some pending keys have been down for 200 ms.
HoldCycle(S) ==
  /\ S # {} /\ S \subseteq Pending(eng)
  /\ eng' = build_keycode_report(Activated(eng, S), prev, down)
  /\ prev' = down /\ alone' = (alone /\ ~Meeting)
  /\ UNCHANGED <<down, changed, home>>

\* A toggle with no key down starts afresh, but leaves the modifiers of an LM key.
MatrixCycle ==
  /\ changed /\ changed' = FALSE
  /\ LET e == build_keycode_report(eng, prev, down)
     IN /\ eng' = process_matrix_changes(e)
        /\ home' = IF Dispatches(e) THEN eng'.last ELSE home
        /\ alone' = IF Dispatches(e) /\ down = <<>> /\ e.lm = {} THEN TRUE ELSE alone /\ ~Meeting
  /\ prev' = down
  /\ UNCHANGED down

\* LAYER_INDEX, on the CDC task: last_layer does not follow.
SelectLayer(l) ==
  /\ l < LAYERS
  /\ eng' = [eng EXCEPT !.layer = l]
  /\ home' = l /\ alone' = FALSE
  /\ UNCHANGED <<down, prev, changed>>

Next == \/ \E k \in Key : Press(k)
        \/ \E n \in 1 .. SLOTS : Release(n)
        \/ \E S \in SUBSET Entries : HoldCycle(S)
        \/ MatrixCycle
        \/ \E l \in Asked : SelectLayer(l)

Spec == Init /\ [][Next]_vars
-----------------------------------------------------------------------------
(* Properties.                                                             *)

\* All keys are up, and the loop has seen it.
AllUp == down = <<>> /\ ~changed

\* tap_hold.c, "3. on_release from HOLD": a modifier is on only while a key that
\* is followed holds it, whatever keys share it.
HeldModsOwned ==
  eng.mods \subseteq UNION {eng.pend[n].mods : n \in {m \in Entries : eng.pend[m].st = "hold"}}

\* tap_hold.c lines 54-58: layer-taps may be released in any order.  While one is
\* on hold its layer is the one used, that of the last if they are several, and
\* none is used without.
LayerTapRules ==
  /\ eng.lt = None <=> HeldLts(eng.pend) = {}
  /\ eng.lt # None => \E n \in Newest(eng.pend) : eng.pend[n].layer = eng.lt
  /\ eng.lt = None <=> eng.base = None

\* Nothing outlives the keys: no entry, no hold, no modifier of a hold, no layer
\* of a layer-tap and no toggle waits for a key that is up.
NothingLeft ==
  AllUp => /\ \A n \in Entries : eng.pend[n] = Idle
           /\ eng.mods = {} /\ eng.lt = None /\ eng.base = None /\ eng.fn = None

\* KEYCODE_MAP.md, "Release = restore layer and release modifiers": with all keys
\* up the layer last chosen by a toggle is back, if nothing has met.
LayerReturns == AllUp /\ alone => eng.layer = home /\ eng.last = home /\ eng.lm = {}
=============================================================================
