--------------------------- MODULE Layers_proofs ----------------------------
(***************************************************************************)
(* Proofs about Layers, for any keymap, any number of layers, slots and    *)
(* tap/hold entries.  What holds of the engine is preserved by each step   *)
(* of a build, so by the build, so by every action.                        *)
(***************************************************************************)
EXTENDS Layers, FiniteSetTheorems, WellFoundedInduction, TLAPS

-----------------------------------------------------------------------------
(* Bounded sets of naturals have a greatest element.                       *)

LEMMA LessIsWF == IsWellFoundedOn({ss \in Nat \X Nat : ss[1] < ss[2]}, Nat)
BY NatLessThanWellFounded, Zenon DEF OpToRel

LEMMA HasLeast ==
  ASSUME NEW T, T \subseteq Nat, T # {}
  PROVE  \E x \in T : \A y \in T : x <= y
<1>. DEFINE R == {ss \in Nat \X Nat : ss[1] < ss[2]}
<1>1. IsWellFoundedOn(R, Nat)
  BY LessIsWF
<1>. HIDE DEF R
<1>2. PICK x \in T : \A y \in T : ~(<<y, x>> \in R)
  BY <1>1, WFMin, Zenon
<1>3. \A y \in T : ~(y < x)
  BY <1>2 DEF R
<1>. QED BY <1>3

LEMMA HasGreatest ==
  ASSUME NEW B \in Nat, NEW T, T \subseteq 0 .. B, T # {}
  PROVE  \E x \in T : \A y \in T : y <= x
<1>. DEFINE U == {B - t : t \in T}
<1>1. U \subseteq Nat /\ U # {}
  <2>1. \A t \in T : t \in 0 .. B
    OBVIOUS
  <2>2. \A t \in T : B - t \in Nat
    BY <2>1
  <2>. QED BY <2>2
<1>2. PICK u \in U : \A v \in U : u <= v
  BY <1>1, HasLeast
<1>3. PICK x \in T : u = B - x
  OBVIOUS
<1>4. \A y \in T : B - x <= B - y
  BY <1>2, <1>3
<1>. QED BY <1>4

LEMMA EntriesFinite ==
  ASSUME NEW S \in SUBSET Entries
  PROVE  IsFiniteSet(S) /\ Cardinality(S) \in 0 .. ENTRIES
<1>1. IsFiniteSet(Entries) /\ Cardinality(Entries) = ENTRIES
  BY FS_Interval, LayersAssumption DEF Entries
<1>2. IsFiniteSet(S) /\ Cardinality(S) <= ENTRIES
  BY <1>1, FS_Subset
<1>3. Cardinality(S) \in Nat
  BY <1>2, FS_CardinalityType
<1>. QED BY <1>2, <1>3, LayersAssumption

LEMMA NewestExists ==
  ASSUME NEW pend \in [Entries -> Entry], HeldLts(pend) # {}
  PROVE  Newest(pend) # {}
<1>. DEFINE T == {pend[n].seq : n \in HeldLts(pend)}
<1>1. T \subseteq 0 .. 2 * ENTRIES /\ T # {}
  BY DEF HeldLts, Entry
<1>2. 2 * ENTRIES \in Nat
  BY LayersAssumption
<1>3. PICK x \in T : \A y \in T : y <= x
  BY <1>1, <1>2, HasGreatest
<1>4. PICK n \in HeldLts(pend) : pend[n].seq = x
  OBVIOUS
<1>5. n \in Newest(pend)
  BY <1>3, <1>4 DEF Newest
<1>. QED BY <1>5

-----------------------------------------------------------------------------
(* What holds of the engine.                                               *)

Holds(pend) == {n \in Entries : pend[n].st = "hold"}

Owned(e) == e.mods \subseteq UNION {e.pend[n].mods : n \in Holds(e.pend)}

LtRules(e) ==
  /\ e.lt = None <=> HeldLts(e.pend) = {}
  /\ e.lt # None => \E n \in Newest(e.pend) : e.pend[n].layer = e.lt
  /\ e.lt = None <=> e.base = None

\* Every entry in use follows a key of K.
Follows(e, K) == \A n \in Entries : e.pend[n].st # "idle" => e.pend[n].key \in K
NoTap(e)      == \A n \in Entries : e.pend[n].st # "tap"
Clean(e)      == \A n \in Entries : e.pend[n].st = "idle" => e.pend[n] = Idle

Sound(e) == e \in Engine /\ Owned(e) /\ LtRules(e) /\ Clean(e)

\* The entries of layer-taps.
Lts(e) == {n \in Entries : e.pend[n].st # "idle" /\ e.pend[n].layer # None}

\* The layer moves as recompute_lt_layer moves it.
LtMove(e, r) ==
  /\ r.last = e.last /\ r.lm = e.lm /\ r.changer = e.changer
  /\ \/ r.layer = e.layer /\ r.lt = e.lt /\ r.base = e.base
     \/ r.layer = e.base /\ r.lt = None /\ e.lt # None
     \/ r.layer = r.lt /\ r.lt # None /\ r.base = IF e.lt = None THEN e.layer ELSE e.base

\* The layer-taps of r are layer-taps of e.
Kept(e, r) == \A n \in Lts(r) : /\ n \in Lts(e)
                                /\ r.pend[n].key = e.pend[n].key
                                /\ r.pend[n].layer = e.pend[n].layer

LEMMA RecomputeSound ==
  ASSUME NEW e \in Engine, HeldLts(e.pend) # {} => e.base # None
  PROVE  LET r == recompute_lt_layer(e)
         IN /\ r \in Engine /\ LtRules(r)
            /\ r.pend = e.pend /\ r.mods = e.mods /\ r.fn = e.fn /\ r.extra = e.extra
            /\ r.last = e.last /\ r.lm = e.lm /\ r.changer = e.changer
            /\ r.lt = None => r.layer = IF e.base = None THEN e.layer ELSE e.base
            /\ r.lt # None => r.layer = r.lt /\ r.base = e.base
<1>. DEFINE r == recompute_lt_layer(e)
<1>0. None \notin Layer
  BY LayersAssumption DEF Layer
<1>1. CASE Newest(e.pend) # {}
  <2>. DEFINE n == CHOOSE m \in Newest(e.pend) : TRUE
  <2>1. n \in Newest(e.pend)
    BY <1>1
  <2>2. n \in HeldLts(e.pend) /\ e.pend[n].layer \in Layer
    BY <2>1 DEF Newest, HeldLts
  <2>3. r = [e EXCEPT !.lt = e.pend[n].layer, !.layer = e.pend[n].layer]
    BY <1>1 DEF recompute_lt_layer
  <2>. HIDE DEF n, r
  <2>4. /\ r \in Engine /\ r.pend = e.pend /\ r.mods = e.mods /\ r.base = e.base
        /\ r.fn = e.fn /\ r.extra = e.extra /\ r.lt = e.pend[n].layer
        /\ r.last = e.last /\ r.lm = e.lm /\ r.changer = e.changer /\ r.layer = r.lt
    BY <2>2, <2>3 DEF Engine
  <2>5. LtRules(r)
    BY <1>0, <2>1, <2>2, <2>4 DEF LtRules
  <2>. QED BY <1>0, <2>2, <2>4, <2>5 DEF r
<1>2. CASE Newest(e.pend) = {}
  <2>1. HeldLts(e.pend) = {}
    BY <1>2, NewestExists DEF Engine
  <2>2. r = IF e.base = None THEN [e EXCEPT !.lt = None]
            ELSE [e EXCEPT !.lt = None, !.layer = e.base, !.base = None]
    BY <1>2 DEF recompute_lt_layer
  <2>. HIDE DEF r
  <2>3. /\ r \in Engine /\ r.pend = e.pend /\ r.mods = e.mods /\ r.base = None
        /\ r.fn = e.fn /\ r.extra = e.extra /\ r.lt = None
        /\ r.last = e.last /\ r.lm = e.lm /\ r.changer = e.changer
        /\ r.layer = IF e.base = None THEN e.layer ELSE e.base
    BY <2>2 DEF Engine
  <2>4. LtRules(r)
    BY <2>1, <2>3 DEF LtRules
  <2>. QED BY <2>3, <2>4 DEF r
<1>. QED BY <1>1, <1>2

-----------------------------------------------------------------------------
(* activate_hold.                                                          *)

\* The new sequence numbers keep the order of the old ones.
LEMMA RenumberedInOrder ==
  ASSUME NEW pend \in [Entries -> Entry], NEW m \in HeldLts(pend), NEW n \in HeldLts(pend),
         pend[m].seq <= pend[n].seq
  PROVE  Cardinality({j \in HeldLts(pend) : pend[j].seq <= pend[m].seq})
           <= Cardinality({j \in HeldLts(pend) : pend[j].seq <= pend[n].seq})
<1>. DEFINE A == {j \in HeldLts(pend) : pend[j].seq <= pend[m].seq}
            B == {j \in HeldLts(pend) : pend[j].seq <= pend[n].seq}
<1>1. \A j \in HeldLts(pend) : pend[j].seq \in Nat
  BY LayersAssumption DEF HeldLts, Entry
<1>2. A \subseteq B
  BY <1>1
<1>3. IsFiniteSet(B)
  BY EntriesFinite DEF HeldLts
<1>. QED BY <1>2, <1>3, FS_Subset

LEMMA ActivatedSound ==
  ASSUME NEW e, Sound(e), NEW S \in SUBSET Pending(e)
  PROVE  LET r == Activated(e, S)
         IN /\ Sound(r) /\ r.fn = e.fn /\ r.extra = e.extra
            /\ LtMove(e, r) /\ Kept(e, r)
            /\ \A n \in Entries : /\ r.pend[n].key = e.pend[n].key
                                  /\ r.pend[n].st = IF n \in S THEN "hold" ELSE e.pend[n].st
<1>. DEFINE held == HeldLts(e.pend)
            lts  == {n \in S : e.pend[n].layer \in Layer}
            Num(n) == IF n \in lts THEN Cardinality(held) + Rank(n, lts)
                      ELSE IF n \in held /\ n \notin S
                      THEN Cardinality({m \in held : e.pend[m].seq <= e.pend[n].seq})
                      ELSE e.pend[n].seq
            pend == [n \in Entries |->
                       IF n \in lts THEN [e.pend[n] EXCEPT !.st = "hold",
                                                           !.seq = Cardinality(held) + Rank(n, lts)]
                       ELSE IF n \in S THEN [e.pend[n] EXCEPT !.st = "hold"]
                       ELSE IF n \in held
                       THEN [e.pend[n] EXCEPT !.seq =
                               Cardinality({m \in held : e.pend[m].seq <= e.pend[n].seq})]
                       ELSE e.pend[n]]
            on == [e EXCEPT !.pend = pend, !.mods = @ \cup UNION {e.pend[n].mods : n \in S}]
            based == [on EXCEPT !.base = IF e.lt = None THEN e.layer ELSE @]
            r == Activated(e, S)
<1>1. e \in Engine /\ e.pend \in [Entries -> Entry] /\ S \subseteq Entries
  BY DEF Sound, Engine, Pending
<1>2. /\ \A n \in Entries : e.pend[n] \in Entry /\ e.pend[n].seq \in Nat
      /\ \A n \in S : e.pend[n].st = "pending"
      /\ held \subseteq Entries /\ held \cap S = {}
  BY <1>1, LayersAssumption DEF Entry, Pending, HeldLts
<1>3. /\ \A X \in SUBSET Entries : Cardinality(X) \in 0 .. ENTRIES
      /\ ENTRIES \in Nat
  BY EntriesFinite, LayersAssumption
<1>4. \A n \in Entries : pend[n] = [e.pend[n] EXCEPT !.st = IF n \in S THEN "hold" ELSE @,
                                                    !.seq = Num(n)]
  <2>. SUFFICES ASSUME NEW n \in Entries
                PROVE  pend[n] = [e.pend[n] EXCEPT !.st = IF n \in S THEN "hold" ELSE @,
                                                   !.seq = Num(n)]
    OBVIOUS
  <2>1. e.pend[n] \in Entry
    BY <1>2
  <2>. QED BY <2>1 DEF Entry
<1>5. \A n \in Entries : Num(n) \in 0 .. 2 * ENTRIES
  <2>. SUFFICES ASSUME NEW n \in Entries PROVE Num(n) \in 0 .. 2 * ENTRIES
    OBVIOUS
  <2>1. Cardinality(held) \in 0 .. ENTRIES /\ Rank(n, lts) \in 0 .. ENTRIES
    BY <1>1, <1>2, <1>3 DEF Rank
  <2>2. Cardinality({m \in held : e.pend[m].seq <= e.pend[n].seq}) \in 0 .. ENTRIES
    BY <1>2, <1>3
  <2>3. e.pend[n].seq \in 0 .. 2 * ENTRIES
    BY <1>2 DEF Entry
  <2>. HIDE DEF held, lts
  <2>. QED BY <2>1, <2>2, <2>3, <1>3
<1>. HIDE DEF Num, pend
<1>6. /\ pend \in [Entries -> Entry]
      /\ \A n \in Entries : /\ pend[n].st = IF n \in S THEN "hold" ELSE e.pend[n].st
                            /\ pend[n].seq = Num(n)
                            /\ pend[n].key = e.pend[n].key /\ pend[n].layer = e.pend[n].layer
                            /\ pend[n].mods = e.pend[n].mods
  <2>1. ASSUME NEW n \in Entries
        PROVE  /\ pend[n] \in Entry
               /\ pend[n].st = IF n \in S THEN "hold" ELSE e.pend[n].st
               /\ pend[n].seq = Num(n)
               /\ pend[n].key = e.pend[n].key /\ pend[n].layer = e.pend[n].layer
               /\ pend[n].mods = e.pend[n].mods
    <3>1. pend[n] = [e.pend[n] EXCEPT !.st = IF n \in S THEN "hold" ELSE @, !.seq = Num(n)]
      BY <1>4, Zenon
    <3>2. e.pend[n] \in Entry /\ Num(n) \in 0 .. 2 * ENTRIES
      BY <1>2, <1>5
    <3>. QED BY <3>1, <3>2 DEF Entry
  <2>2. pend = [n \in Entries |-> pend[n]]
    BY DEF pend
  <2>. QED BY <2>1, <2>2
<1>7. HeldLts(pend) = held \cup lts
  BY <1>1, <1>2, <1>6 DEF HeldLts
<1>8. /\ on \in Engine /\ on.pend = pend /\ on.fn = e.fn /\ on.extra = e.extra
      /\ on.mods = e.mods \cup UNION {e.pend[n].mods : n \in S}
      /\ on.lt = e.lt /\ on.base = e.base /\ on.layer = e.layer
  <2>1. UNION {e.pend[n].mods : n \in S} \subseteq Mod
    BY <1>1, <1>2 DEF Entry
  <2>2. on \in Engine
    <3>. DEFINE u == e.mods \cup UNION {e.pend[n].mods : n \in S}
    <3>1. u \in SUBSET Mod
      BY <1>1, <2>1 DEF Engine
    <3>. HIDE DEF u
    <3>2. [e EXCEPT !.pend = pend, !.mods = u] \in Engine
      BY <1>1, <1>6, <3>1 DEF Engine
    <3>. QED BY <3>2 DEF u
  <2>3. /\ on.pend = pend /\ on.fn = e.fn /\ on.extra = e.extra
        /\ on.mods = e.mods \cup UNION {e.pend[n].mods : n \in S}
        /\ on.lt = e.lt /\ on.base = e.base /\ on.layer = e.layer
    BY <1>1 DEF Engine
  <2>. QED BY <2>2, <2>3
<1>8a. on.last = e.last /\ on.lm = e.lm /\ on.changer = e.changer
  BY <1>1 DEF Engine
<1>. HIDE DEF on
<1>9. Owned(on) /\ Clean(on)
  <2>1. \A n \in Holds(e.pend) : n \in Holds(pend) /\ pend[n].mods = e.pend[n].mods
    BY <1>6 DEF Holds
  <2>2. \A n \in S : n \in Holds(pend) /\ pend[n].mods = e.pend[n].mods
    BY <1>1, <1>6 DEF Holds
  <2>3. Owned(on)
    BY <1>8, <2>1, <2>2 DEF Owned, Sound
  <2>4. ASSUME NEW n \in Entries, pend[n].st = "idle" PROVE pend[n] = Idle
    <3>1. n \notin S /\ e.pend[n].st = "idle" /\ n \notin held
      BY <1>6, <2>4 DEF HeldLts
    <3>2. pend[n] = e.pend[n]
      BY <3>1 DEF pend
    <3>. QED BY <3>1, <3>2 DEF Sound, Clean
  <2>. QED BY <2>3, <2>4, <1>8 DEF Clean
<1>10. CASE lts = {}
  <2>1. r = on
    BY <1>10 DEF Activated, on, pend
  <2>2. HeldLts(pend) = held
    BY <1>7, <1>10
  <2>3. \A n \in held : n \notin S /\ pend[n].layer = e.pend[n].layer /\ pend[n].seq = Num(n)
    BY <1>2, <1>6
  <2>4. \A n \in Newest(e.pend) : n \in Newest(pend) /\ pend[n].layer = e.pend[n].layer
    <3>. SUFFICES ASSUME NEW n \in Newest(e.pend), NEW m \in held
                  PROVE  n \in held /\ pend[m].seq <= pend[n].seq
      BY <2>2, <2>3 DEF Newest
    <3>1. n \in held /\ e.pend[m].seq <= e.pend[n].seq
      BY DEF Newest
    <3>2. Num(m) <= Num(n)
      BY <3>1, <1>1, <1>2, <1>10, RenumberedInOrder DEF Num
    <3>. QED BY <3>1, <3>2, <2>3
  <2>5. LtRules(on)
    BY <2>2, <2>4, <1>8 DEF LtRules, Sound
  <2>6. LtMove(e, on) /\ Kept(e, on)
    BY <1>1, <1>2, <1>6, <1>8, <1>8a DEF LtMove, Kept, Lts
  <2>. QED BY <2>1, <2>5, <2>6, <1>6, <1>8, <1>9 DEF Sound
<1>11. CASE lts # {}
  <2>1. r = recompute_lt_layer(based)
    BY <1>11 DEF Activated, on, pend
  <2>2. None \notin Layer
    BY LayersAssumption DEF Layer
  <2>3. /\ based \in Engine /\ based.pend = pend /\ based.fn = e.fn /\ based.extra = e.extra
        /\ based.mods = on.mods /\ based.base = IF e.lt = None THEN e.layer ELSE e.base
        /\ based.last = e.last /\ based.lm = e.lm /\ based.changer = e.changer
    BY <1>1, <1>8, <1>8a DEF Engine
  <2>4. based.base # None
    BY <1>1, <2>2, <2>3 DEF Sound, LtRules, Engine
  <2>. HIDE DEF based, r
  <2>5. /\ r \in Engine /\ LtRules(r) /\ r.pend = pend /\ r.mods = on.mods
        /\ r.fn = e.fn /\ r.extra = e.extra
        /\ r.last = e.last /\ r.lm = e.lm /\ r.changer = e.changer
        /\ r.lt # None => r.layer = r.lt /\ r.base = based.base
    BY <2>1, <2>3, <2>4, RecomputeSound
  <2>6. Owned(r) /\ Clean(r)
    BY <1>8, <1>9, <2>5 DEF Owned, Clean
  <2>7. r.lt # None
    BY <1>7, <1>11, <2>5 DEF LtRules
  <2>8. LtMove(e, r) /\ Kept(e, r)
    BY <1>1, <1>2, <1>6, <2>3, <2>5, <2>7 DEF LtMove, Kept, Lts
  <2>. QED BY <1>6, <2>5, <2>6, <2>8 DEF Sound, r
<1>. QED BY <1>10, <1>11
-----------------------------------------------------------------------------
(* The steps of build_keycode_report.                                      *)

LEMMA DetectReleasesSound ==
  ASSUME NEW e, Sound(e), NoTap(e), NEW K, Follows(e, K), NEW gone
  PROVE  LET r == detect_releases(e, gone)
         IN /\ Sound(r) /\ r.fn = e.fn /\ r.extra = e.extra
            /\ LtMove(e, r) /\ Kept(e, r)
            /\ \A n \in Entries : r.pend[n].st \in {"pending", "hold"} => r.pend[n].key \in K \ gone
<1>. DEFINE freed == {n \in Entries : e.pend[n].st # "idle" /\ e.pend[n].key \in gone}
            ends == {n \in freed : e.pend[n].st = "hold"}
            pend == [n \in Entries |-> IF n \notin freed THEN e.pend[n]
                                      ELSE IF e.pend[n].st = "pending"
                                      THEN [e.pend[n] EXCEPT !.st = "tap"] ELSE Idle]
            off == [e EXCEPT !.pend = pend, !.mods = @ \ UNION {e.pend[n].mods : n \in ends}]
            r == detect_releases(e, gone)
<1>1. e \in Engine /\ \A n \in Entries : e.pend[n] \in Entry
  BY DEF Sound, Engine
<1>2. Idle \in Entry
  BY LayersAssumption DEF Idle, Entry
<1>3. pend \in [Entries -> Entry]
  <2>. SUFFICES ASSUME NEW n \in Entries PROVE pend[n] \in Entry
    BY DEF Entry
  <2>1. e.pend[n] \in Entry
    BY <1>1
  <2>2. [e.pend[n] EXCEPT !.st = "tap"] \in Entry
    BY <2>1 DEF Entry
  <2>. QED BY <1>2, <2>1, <2>2
<1>4. ASSUME NEW n \in Entries
      PROVE  /\ n \notin freed => pend[n] = e.pend[n]
             /\ n \in freed => pend[n].st \in {"tap", "idle"}
             /\ pend[n].st = "idle" => pend[n] = Idle
             /\ pend[n].st # "idle" => /\ e.pend[n].st # "idle"
                                       /\ pend[n].key = e.pend[n].key
                                       /\ pend[n].layer = e.pend[n].layer
  <2>1. e.pend[n] \in Entry /\ (e.pend[n].st = "idle" => e.pend[n] = Idle)
    BY <1>1 DEF Sound, Clean
  <2>2. Idle.st = "idle"
    BY DEF Idle
  <2>3. /\ [e.pend[n] EXCEPT !.st = "tap"].st = "tap"
        /\ [e.pend[n] EXCEPT !.st = "tap"].key = e.pend[n].key
        /\ [e.pend[n] EXCEPT !.st = "tap"].layer = e.pend[n].layer
    BY <2>1 DEF Entry
  <2>. QED BY <2>1, <2>2, <2>3
<1>. HIDE DEF pend
<1>5. /\ off \in Engine /\ off.pend = pend /\ off.fn = e.fn /\ off.extra = e.extra
      /\ off.mods = e.mods \ UNION {e.pend[n].mods : n \in ends}
      /\ off.lt = e.lt /\ off.base = e.base
  <2>2. off \in Engine
    <3>. DEFINE u == e.mods \ UNION {e.pend[n].mods : n \in ends}
    <3>1. u \in SUBSET Mod
      BY <1>1 DEF Engine
    <3>. HIDE DEF u
    <3>2. [e EXCEPT !.pend = pend, !.mods = u] \in Engine
      BY <1>1, <1>3, <3>1 DEF Engine
    <3>. QED BY <3>2 DEF u
  <2>3. /\ off.pend = pend /\ off.fn = e.fn /\ off.extra = e.extra
        /\ off.mods = e.mods \ UNION {e.pend[n].mods : n \in ends}
        /\ off.lt = e.lt /\ off.base = e.base
    BY <1>1 DEF Engine
  <2>. QED BY <2>2, <2>3
<1>5a. off.layer = e.layer /\ off.last = e.last /\ off.lm = e.lm /\ off.changer = e.changer
  BY <1>1 DEF Engine
<1>. HIDE DEF off
<1>6. Owned(off)
  <2>. SUFFICES ASSUME NEW m \in off.mods
                PROVE  \E n \in Holds(pend) : m \in pend[n].mods
    BY <1>5 DEF Owned
  <2>1. PICK n \in Holds(e.pend) : m \in e.pend[n].mods
    BY <1>5 DEF Sound, Owned
  <2>2. n \in Entries /\ n \notin ends
    BY <1>5, <2>1 DEF Holds
  <2>3. n \notin freed
    BY <2>1, <2>2 DEF Holds
  <2>. QED BY <1>4, <2>1, <2>2, <2>3 DEF Holds
<1>7. HeldLts(pend) = HeldLts(e.pend) \ freed
  BY <1>4 DEF HeldLts
<1>8. Clean(off)
  BY <1>4, <1>5 DEF Clean
<1>9. /\ r \in Engine /\ LtRules(r) /\ r.pend = pend /\ r.mods = off.mods
      /\ r.fn = e.fn /\ r.extra = e.extra /\ LtMove(e, r)
  <2>1. CASE freed \cap HeldLts(e.pend) = {}
    <3>1. r = off
      BY <2>1 DEF detect_releases, off, pend
    <3>2. HeldLts(pend) = HeldLts(e.pend) /\ \A n \in HeldLts(e.pend) : pend[n] = e.pend[n]
      BY <1>4, <1>7, <2>1 DEF HeldLts
    <3>3. Newest(pend) = Newest(e.pend) /\ \A n \in Newest(e.pend) : pend[n] = e.pend[n]
      BY <3>2 DEF Newest
    <3>4. LtRules(off)
      BY <1>5, <3>2, <3>3 DEF LtRules, Sound
    <3>. QED BY <1>5, <1>5a, <3>1, <3>4 DEF LtMove
  <2>2. CASE freed \cap HeldLts(e.pend) # {}
    <3>1. r = recompute_lt_layer(off)
      BY <2>2 DEF detect_releases, off, pend
    <3>2. HeldLts(e.pend) # {}
      BY <2>2
    <3>3. off.base # None /\ e.lt # None
      BY <3>2, <1>5 DEF Sound, LtRules
    <3>. HIDE DEF r
    <3>4. /\ r \in Engine /\ LtRules(r) /\ r.pend = pend /\ r.mods = off.mods
          /\ r.fn = e.fn /\ r.extra = e.extra
          /\ r.last = e.last /\ r.lm = e.lm /\ r.changer = e.changer
          /\ r.lt = None => r.layer = off.base
          /\ r.lt # None => r.layer = r.lt /\ r.base = off.base
      BY <1>5, <1>5a, <3>1, <3>3, RecomputeSound
    <3>. QED BY <1>5, <3>3, <3>4 DEF LtMove
  <2>. QED BY <2>1, <2>2
<1>. HIDE DEF r
<1>10. Sound(r)
  BY <1>5, <1>6, <1>8, <1>9 DEF Sound, Owned, Clean
<1>11. ASSUME NEW n \in Entries, r.pend[n].st \in {"pending", "hold"}
       PROVE  r.pend[n].key \in K \ gone
  <2>1. n \notin freed /\ pend[n] = e.pend[n]
    BY <1>4, <1>9, <1>11
  <2>. QED BY <1>9, <1>11, <2>1 DEF Follows
<1>12. Kept(e, r)
  BY <1>4, <1>9 DEF Kept, Lts
<1>. QED BY <1>9, <1>10, <1>11, <1>12 DEF r

\* A step that leaves the tap/hold engine alone.
LEMMA OutsideTapHold ==
  ASSUME NEW e, Sound(e), NEW r \in Engine,
         r.pend = e.pend, r.mods = e.mods, r.lt = e.lt, r.base = e.base
  PROVE  Sound(r)
BY DEF Sound, Owned, LtRules, Clean

LEMMA MomentarySound ==
  ASSUME NEW e, Sound(e), NEW s \in Seq(Key), Len(s) <= SLOTS
  PROVE  LET r == apply_momentary_layer(e, s)
         IN /\ Sound(r)
            /\ r.pend = e.pend /\ r.fn = e.fn /\ r.extra = e.extra
<1>. DEFINE mine == Momentary(e.layer, s)
            rest == mine \ LastOf(mine)
            Chosen(X) == CHOOSE i \in LastOf(X) : TRUE
            Of(X) == KeyMap[e.layer][s[Chosen(X)]]
            r == apply_momentary_layer(e, s)
<1>1. e \in Engine /\ e.layer \in Layer /\ KeyMap[e.layer] \in [Key -> Code]
  BY LayersAssumption DEF Sound, Engine
<1>2. \A X \in SUBSET mine : X # {} => Chosen(X) \in X
  <2>. SUFFICES ASSUME NEW X \in SUBSET mine, X # {} PROVE \E i \in X : i \in LastOf(X)
    BY DEF LastOf
  <2>1. X \subseteq 0 .. SLOTS
    BY LayersAssumption DEF Momentary
  <2>2. PICK i \in X : \A j \in X : j <= i
    BY <2>1, LayersAssumption, HasGreatest
  <2>. QED BY <2>2 DEF LastOf
<1>3. ASSUME NEW X \in SUBSET mine, X # {}
      PROVE  Of(X).layer \in Layer /\ Of(X).mods \subseteq Mod /\ s[Chosen(X)] \in Key
  <2>1. Chosen(X) \in mine
    BY <1>2, <1>3
  <2>. HIDE DEF Chosen
  <2>2. s[Chosen(X)] \in Key /\ KeyMap[e.layer][s[Chosen(X)]].layer \in Layer
    BY <2>1 DEF Momentary
  <2>3. Of(X) \in Code
    BY <1>1, <2>2
  <2>. QED BY <2>2, <2>3 DEF Code
<1>4. CASE mine = {}
  <2>1. r = e
    BY <1>4 DEF apply_momentary_layer
  <2>. QED BY <2>1
<1>5. CASE mine # {}
  <2>. DEFINE last == IF rest = {} THEN e.layer ELSE Of(rest).layer
              layer == Of(mine).layer
              mods == Of(mine).mods
              key == s[Chosen(mine)]
  <2>1. r = [e EXCEPT !.last = last, !.layer = layer, !.lm = mods, !.changer = key]
    BY <1>5 DEF apply_momentary_layer
  <2>2. layer \in Layer /\ mods \in SUBSET Mod /\ key \in Key
    BY <1>3, <1>5
  <2>3. last \in Layer
    BY <1>1, <1>3
  <2>. HIDE DEF last, layer, mods, key, mine, rest, Chosen, Of, r
  <2>4. r \in Engine
    BY <1>1, <2>1, <2>2, <2>3 DEF Engine
  <2>5. /\ r.pend = e.pend /\ r.mods = e.mods /\ r.lt = e.lt /\ r.base = e.base
        /\ r.fn = e.fn /\ r.extra = e.extra
    BY <1>1, <2>1 DEF Engine
  <2>6. Sound(r)
    BY <2>4, <2>5, OutsideTapHold
  <2>. QED BY <2>5, <2>6 DEF r
<1>. QED BY <1>4, <1>5
LEMMA ActiveLayerType ==
  ASSUME NEW e \in Engine PROVE ActiveLayer(e) \in Layer
BY DEF Engine, ActiveLayer

LEMMA CodeType ==
  ASSUME NEW l \in Layer, NEW k \in Key
  PROVE  KeyMap[l][k] \in Code /\ Toggle(KeyMap[l][k]) \in Layer \cup {None}
<1>1. KeyMap[l] \in [Key -> Code]
  BY LayersAssumption
<1>2. KeyMap[l][k].kind = "to" => KeyMap[l][k].layer \in Layer
  BY LayersAssumption
<1>. QED BY <1>1, <1>2 DEF Toggle

LEMMA ExtraAfterType ==
  ASSUME NEW e \in Engine, NEW s \in Seq(Key), NEW a \in Layer, NEW i \in 1 .. SLOTS
  PROVE  ExtraAfter(e, s, a, i) \in Layer \cup {None}
<1>1. CASE i \notin DOMAIN s
  BY <1>1 DEF ExtraAfter
<1>2. CASE i \in DOMAIN s
  <2>0. e.last \in Layer /\ e.extra \in [1 .. SLOTS -> Layer \cup {None}]
    BY DEF Engine
  <2>1. s[i] \in Key
    BY <1>2
  <2>2. e.extra[i] \in Layer \cup {None}
    BY <2>0
  <2>3. Toggle(KeyMap[a][s[i]]) \in Layer \cup {None}
    BY <2>1, CodeType
  <2>4. Toggle(KeyMap[e.last][s[i]]) \in Layer \cup {None}
    BY <2>0, <2>1, CodeType
  <2>. QED BY <1>2, <2>2, <2>3, <2>4 DEF ExtraAfter
<1>. QED BY <1>1, <1>2

LEMMA ProcessKeysSound ==
  ASSUME NEW e, Sound(e), NEW s \in Seq(Key), NEW a \in Layer
  PROVE  LET r == process_keys(e, s, a)
         IN /\ Sound(r)
            /\ \A n \in Entries : \/ r.pend[n] = e.pend[n]
                                  \/ r.pend[n].st = "pending" /\ r.pend[n].key \in Held(s)
            /\ s = <<>> => r.fn = e.fn /\ \A i \in 1 .. SLOTS : r.extra[i] = None
<1>. DEFINE new  == {i \in DOMAIN s : KeyMap[a][s[i]].kind \in {"lt", "mt"} /\ ~Followed(e, s[i])}
            free == {n \in Entries : e.pend[n].st = "idle"}
            tos  == {i \in DOMAIN s : ~OnHold(e, s[i]) /\ KeyMap[a][s[i]].kind = "to"}
            For(n) == {i \in new : Rank(i, new) = Rank(n, free)}
            New(i) == LET c == KeyMap[a][s[i]]
                      IN [st |-> "pending", key |-> s[i], seq |-> 0,
                          layer |-> IF c.kind = "lt" THEN c.layer ELSE None,
                          mods |-> IF c.kind = "mt" THEN c.mods ELSE {}]
            pend == [n \in Entries |-> IF n \in free /\ For(n) # {}
                                      THEN New(CHOOSE i \in For(n) : TRUE)
                                      ELSE e.pend[n]]
            fn == IF e.fn # None \/ FirstOf(tos) = {} THEN e.fn
                  ELSE KeyMap[a][s[CHOOSE i \in FirstOf(tos) : TRUE]].layer
            extra == [i \in 1 .. SLOTS |-> ExtraAfter(e, s, a, i)]
            r == process_keys(e, s, a)
<1>1. r = [e EXCEPT !.pend = pend, !.fn = fn, !.extra = extra]
  BY DEF process_keys
<1>2. e \in Engine /\ \A n \in Entries : e.pend[n] \in Entry
  BY DEF Sound, Engine
<1>3. ASSUME NEW i \in new
      PROVE  New(i) \in Entry /\ New(i).st = "pending" /\ New(i).key \in Held(s)
  <2>1. s[i] \in Key /\ KeyMap[a][s[i]] \in Code
    BY CodeType
  <2>2. 0 \in 0 .. 2 * ENTRIES
    BY LayersAssumption
  <2>3. New(i) \in Entry
    BY <2>1, <2>2 DEF Code, Entry
  <2>. QED BY <2>3 DEF Held
<1>. HIDE DEF New
<1>4. ASSUME NEW n \in Entries
      PROVE  /\ pend[n] \in Entry
             /\ \/ pend[n] = e.pend[n]
                \/ e.pend[n].st = "idle" /\ pend[n].st = "pending" /\ pend[n].key \in Held(s)
  <2>1. CASE n \in free /\ For(n) # {}
    <3>. DEFINE i == CHOOSE j \in For(n) : TRUE
    <3>1. i \in new
      BY <2>1
    <3>2. pend[n] = New(i)
      BY <2>1
    <3>. HIDE DEF i, For, new, pend
    <3>. QED BY <1>3, <2>1, <3>1, <3>2
  <2>2. CASE ~(n \in free /\ For(n) # {})
    BY <1>2, <2>2
  <2>. QED BY <2>1, <2>2
<1>5. fn \in Layer \cup {None}
  <2>1. CASE e.fn # None \/ FirstOf(tos) = {}
    BY <1>2, <2>1 DEF Engine
  <2>2. CASE ~(e.fn # None \/ FirstOf(tos) = {})
    <3>. DEFINE i == CHOOSE j \in FirstOf(tos) : TRUE
    <3>1. i \in tos
      BY <2>2 DEF FirstOf
    <3>. HIDE DEF i
    <3>2. s[i] \in Key /\ KeyMap[a][s[i]].kind = "to"
      BY <3>1
    <3>3. KeyMap[a][s[i]].layer \in Layer
      BY <3>2, LayersAssumption
    <3>. QED BY <2>2, <3>3 DEF i
  <2>. QED BY <2>1, <2>2
<1>6. extra \in [1 .. SLOTS -> Layer \cup {None}]
  BY <1>2, ExtraAfterType
<1>7. s = <<>> => fn = e.fn /\ \A i \in 1 .. SLOTS : extra[i] = None
  <2>. SUFFICES ASSUME s = <<>> PROVE fn = e.fn /\ \A i \in 1 .. SLOTS : extra[i] = None
    OBVIOUS
  <2>1. DOMAIN s = {}
    OBVIOUS
  <2>2. FirstOf(tos) = {}
    BY <2>1 DEF FirstOf
  <2>. QED BY <2>1, <2>2 DEF ExtraAfter
<1>8. pend = [n \in Entries |-> pend[n]]
  OBVIOUS
<1>. HIDE DEF pend, fn, extra, r
<1>9. /\ r \in Engine /\ r.pend = pend /\ r.fn = fn /\ r.extra = extra
      /\ r.mods = e.mods /\ r.lt = e.lt /\ r.base = e.base
  <2>1. pend \in [Entries -> Entry]
    BY <1>4, <1>8
  <2>. QED BY <1>1, <1>2, <1>5, <1>6, <2>1 DEF Engine
<1>10. Holds(pend) = Holds(e.pend) /\ \A n \in Holds(pend) : pend[n] = e.pend[n]
  BY <1>4 DEF Holds
<1>11. HeldLts(pend) = HeldLts(e.pend) /\ \A n \in HeldLts(pend) : pend[n] = e.pend[n]
  BY <1>4 DEF HeldLts
<1>12. Newest(pend) = Newest(e.pend) /\ \A n \in Newest(pend) : pend[n] = e.pend[n]
  BY <1>11 DEF Newest
<1>13. Owned(r) /\ LtRules(r) /\ Clean(r)
  <2>1. Owned(r)
    BY <1>9, <1>10 DEF Owned, Sound
  <2>2. LtRules(r)
    BY <1>9, <1>11, <1>12 DEF LtRules, Sound
  <2>3. Clean(r)
    BY <1>4, <1>9 DEF Clean, Sound
  <2>. QED BY <2>1, <2>2, <2>3
<1>. QED BY <1>4, <1>7, <1>9, <1>13 DEF Sound, r
LEMMA InterruptSound ==
  ASSUME NEW e, Sound(e), NEW typed
  PROVE  LET r == tap_hold_interrupt(e, typed)
         IN /\ Sound(r) /\ r.fn = e.fn /\ r.extra = e.extra
            /\ LtMove(e, r) /\ Kept(e, r)
            /\ \A n \in Entries : /\ r.pend[n].key = e.pend[n].key
                                  /\ \/ r.pend[n].st = e.pend[n].st
                                     \/ e.pend[n].st = "pending" /\ r.pend[n].st = "hold"
<1>1. CASE typed = {}
  BY <1>1 DEF tap_hold_interrupt, LtMove, Kept
<1>2. CASE typed # {}
  <2>1. tap_hold_interrupt(e, typed) = Activated(e, Pending(e))
    BY <1>2 DEF tap_hold_interrupt
  <2>2. \A n \in Pending(e) : e.pend[n].st = "pending"
    BY DEF Pending
  <2>. QED BY <2>1, <2>2, ActivatedSound
<1>. QED BY <1>1, <1>2

LEMMA ConsumeSound ==
  ASSUME NEW e, Sound(e)
  PROVE  LET r == consume_taps(e)
         IN /\ Sound(r) /\ NoTap(r) /\ r.fn = e.fn /\ r.extra = e.extra
            /\ r.layer = e.layer /\ r.last = e.last /\ r.lm = e.lm /\ r.changer = e.changer
            /\ r.lt = e.lt /\ r.base = e.base
            /\ \A n \in Entries : r.pend[n].st # "idle" => r.pend[n] = e.pend[n]
<1>. DEFINE pend == [n \in Entries |-> IF e.pend[n].st = "tap" THEN Idle ELSE e.pend[n]]
            r == consume_taps(e)
<1>1. e \in Engine /\ \A n \in Entries : e.pend[n] \in Entry
  BY DEF Sound, Engine
<1>2. Idle \in Entry /\ Idle.st = "idle"
  BY LayersAssumption DEF Idle, Entry
<1>3. pend \in [Entries -> Entry]
  BY <1>1, <1>2
<1>4. /\ r \in Engine /\ r.pend = pend /\ r.fn = e.fn /\ r.extra = e.extra
      /\ r.mods = e.mods /\ r.lt = e.lt /\ r.base = e.base
  BY <1>1, <1>3 DEF Engine, consume_taps
<1>4a. r.layer = e.layer /\ r.last = e.last /\ r.lm = e.lm /\ r.changer = e.changer
  BY <1>1 DEF Engine, consume_taps
<1>. HIDE DEF r
<1>5. /\ Holds(pend) = Holds(e.pend) /\ \A n \in Holds(pend) : pend[n] = e.pend[n]
      /\ HeldLts(pend) = HeldLts(e.pend) /\ \A n \in HeldLts(pend) : pend[n] = e.pend[n]
  BY <1>2 DEF Holds, HeldLts
<1>6. Newest(pend) = Newest(e.pend) /\ \A n \in Newest(pend) : pend[n] = e.pend[n]
  BY <1>5 DEF Newest
<1>7. /\ Clean(r) /\ NoTap(r)
      /\ \A n \in Entries : r.pend[n].st # "idle" => r.pend[n] = e.pend[n]
  BY <1>2, <1>4 DEF Clean, NoTap, Sound
<1>8. Owned(r)
  BY <1>4, <1>5 DEF Owned, Sound
<1>9. LtRules(r)
  BY <1>4, <1>5, <1>6 DEF LtRules, Sound
<1>. QED BY <1>4, <1>4a, <1>7, <1>8, <1>9 DEF Sound, r

LEMMA ReleaseMomentarySound ==
  ASSUME NEW e, Sound(e), NEW s
  PROVE  LET r == release_momentary(e, s)
         IN Sound(r) /\ r.pend = e.pend /\ r.fn = e.fn /\ r.extra = e.extra
<1>1. CASE e.layer = e.last \/ ChangerHeld(e, s)
  BY <1>1 DEF release_momentary
<1>2. CASE ~(e.layer = e.last \/ ChangerHeld(e, s))
  <2>. DEFINE r == [e EXCEPT !.layer = e.last, !.lm = {}, !.changer = None]
  <2>1. e \in Engine
    BY DEF Sound
  <2>2. /\ r \in Engine /\ r.pend = e.pend /\ r.fn = e.fn /\ r.extra = e.extra
        /\ r.mods = e.mods /\ r.lt = e.lt /\ r.base = e.base
    BY <2>1 DEF Engine
  <2>3. release_momentary(e, s) = r
    BY <1>2 DEF release_momentary
  <2>. HIDE DEF r
  <2>4. Sound(r)
    BY <2>2, OutsideTapHold
  <2>. QED BY <2>2, <2>3, <2>4
<1>. QED BY <1>1, <1>2

\* The whole build: the entries in use follow the keys that are down, and
\* with no key down no toggle is found and none is left to wait for.
LEMMA BuildSound ==
  ASSUME NEW e, Sound(e), NoTap(e), NEW was \in Seq(Key), Follows(e, Held(was)),
         NEW s \in Seq(Key), Len(s) <= SLOTS
  PROVE  LET r == build_keycode_report(e, was, s)
         IN /\ Sound(r) /\ NoTap(r) /\ Follows(r, Held(s))
            /\ s = <<>> => r.fn = e.fn /\ \A i \in 1 .. SLOTS : r.extra[i] = None
<1>. DEFINE gone == Held(was) \ Held(s)
            e0 == detect_releases(e, gone)
            e1 == apply_momentary_layer(e0, s)
            a  == ActiveLayer(e1)
            e2 == process_keys(e1, s, a)
            e3 == tap_hold_interrupt(e2, Typed(e1, s, a))
            e4 == consume_taps(e3)
            r  == release_momentary(e4, s)
<1>0. build_keycode_report(e, was, s) = r
  BY DEF build_keycode_report
<1>. HIDE DEF r
<1>1. /\ Sound(e0) /\ e0.fn = e.fn
      /\ \A n \in Entries : e0.pend[n].st \in {"pending", "hold"} => e0.pend[n].key \in Held(s)
  BY DetectReleasesSound
<1>. HIDE DEF e0
<1>2. Sound(e1) /\ e1.pend = e0.pend /\ e1.fn = e0.fn
  BY <1>1, MomentarySound
<1>. HIDE DEF e1
<1>3. a \in Layer
  BY <1>2, ActiveLayerType DEF Sound
<1>. HIDE DEF a
<1>4. /\ Sound(e2)
      /\ \A n \in Entries : \/ e2.pend[n] = e1.pend[n]
                            \/ e2.pend[n].st = "pending" /\ e2.pend[n].key \in Held(s)
      /\ s = <<>> => e2.fn = e1.fn /\ \A i \in 1 .. SLOTS : e2.extra[i] = None
  BY <1>2, <1>3, ProcessKeysSound
<1>. HIDE DEF e2
<1>5. /\ Sound(e3) /\ e3.fn = e2.fn /\ e3.extra = e2.extra
      /\ \A n \in Entries : /\ e3.pend[n].key = e2.pend[n].key
                            /\ \/ e3.pend[n].st = e2.pend[n].st
                               \/ e2.pend[n].st = "pending" /\ e3.pend[n].st = "hold"
  BY <1>4, InterruptSound
<1>. HIDE DEF e3
<1>6. /\ Sound(e4) /\ NoTap(e4) /\ e4.fn = e3.fn /\ e4.extra = e3.extra
      /\ \A n \in Entries : e4.pend[n].st # "idle" => e4.pend[n] = e3.pend[n]
  BY <1>5, ConsumeSound
<1>. HIDE DEF e4
<1>7. Sound(r) /\ r.pend = e4.pend /\ r.fn = e4.fn /\ r.extra = e4.extra
  BY <1>6, ReleaseMomentarySound DEF r
<1>8. ASSUME NEW n \in Entries, e4.pend[n].st # "idle" PROVE e4.pend[n].key \in Held(s)
  <2>1. e4.pend[n].st \in {"pending", "hold"}
    BY <1>6, <1>8 DEF NoTap, Sound, Engine, Entry
  <2>2. e2.pend[n].st \in {"pending", "hold"} /\ e4.pend[n].key = e2.pend[n].key
    BY <1>5, <1>6, <1>8, <2>1
  <2>. QED BY <1>1, <1>2, <1>4, <2>2
<1>9. NoTap(r) /\ Follows(r, Held(s))
  BY <1>6, <1>7, <1>8 DEF NoTap, Follows
<1>10. s = <<>> => r.fn = e.fn /\ \A i \in 1 .. SLOTS : r.extra[i] = None
  BY <1>1, <1>2, <1>4, <1>5, <1>6, <1>7
<1>. QED BY <1>0, <1>7, <1>9, <1>10

LEMMA ProcessMatrixChangesSound ==
  ASSUME NEW e, Sound(e)
  PROVE  LET r == process_matrix_changes(e)
         IN /\ Sound(r) /\ r.pend = e.pend
            /\ (\A i \in 1 .. SLOTS : e.extra[i] = None) => r.fn = None
            /\ Dispatches(e) => r.last \in Layer
<1>. DEFINE r == process_matrix_changes(e)
<1>1. e \in Engine /\ 0 \in Layer
  BY LayersAssumption DEF Sound, Layer
<1>2. CASE Dispatches(e)
  <2>. DEFINE l == IF e.layer = e.fn THEN 0 ELSE e.fn
  <2>1. r = [e EXCEPT !.layer = l, !.last = l, !.fn = None]
    BY <1>2 DEF process_matrix_changes, apply_toggle_layer
  <2>2. l \in Layer
    BY <1>1, <1>2 DEF Dispatches, Engine
  <2>. HIDE DEF l, r
  <2>3. /\ r \in Engine /\ r.pend = e.pend /\ r.fn = None /\ r.last = l
        /\ r.mods = e.mods /\ r.lt = e.lt /\ r.base = e.base
    BY <1>1, <2>1, <2>2 DEF Engine
  <2>4. Sound(r)
    BY <2>3, OutsideTapHold
  <2>. QED BY <2>2, <2>3, <2>4 DEF r
<1>3. CASE ~Dispatches(e) /\ e.fn = None
  BY <1>3 DEF process_matrix_changes
<1>4. CASE ~Dispatches(e) /\ e.fn # None
  <2>. DEFINE here == {i \in 1 .. SLOTS : e.extra[i] = e.fn}
              extra == [i \in 1 .. SLOTS |-> IF i \in FirstOf(here) THEN None ELSE e.extra[i]]
  <2>1. r = [e EXCEPT !.extra = extra]
    BY <1>4 DEF process_matrix_changes
  <2>2. extra \in [1 .. SLOTS -> Layer \cup {None}]
    BY <1>1 DEF Engine
  <2>. HIDE DEF extra, r
  <2>3. /\ r \in Engine /\ r.pend = e.pend
        /\ r.mods = e.mods /\ r.lt = e.lt /\ r.base = e.base
    BY <1>1, <2>1, <2>2 DEF Engine
  <2>4. Sound(r)
    BY <2>3, OutsideTapHold
  <2>5. \E i \in 1 .. SLOTS : e.extra[i] # None
    BY <1>4 DEF Dispatches
  <2>. QED BY <1>4, <2>3, <2>4, <2>5 DEF r
<1>. QED BY <1>2, <1>3, <1>4
-----------------------------------------------------------------------------
(* The specification.                                                      *)

\* The inductive invariant: between two builds the entries in use follow keys
\* that the last build saw, which are those down unless the flag is raised.
EngineInvariant ==
  /\ TypeOK /\ Sound(eng) /\ NoTap(eng)
  /\ Follows(eng, Held(prev))
  /\ ~changed => prev = down
  /\ AllUp => eng.fn = None

LEMMA InitInvariant == Init => EngineInvariant
<1>. SUFFICES ASSUME Init PROVE EngineInvariant
  OBVIOUS
<1>1. /\ Idle \in Entry /\ Idle.st = "idle" /\ 0 \in Layer
      /\ \A n \in Entries : eng.pend[n] = Idle
  BY LayersAssumption DEF Init, Idle, Entry, Layer
<1>2. eng \in Engine
  <2>1. [n \in Entries |-> Idle] \in [Entries -> Entry]
    BY <1>1
  <2>2. [i \in 1 .. SLOTS |-> None] \in [1 .. SLOTS -> Layer \cup {None}]
    OBVIOUS
  <2>. QED BY <1>1, <2>1, <2>2 DEF Init, Engine
<1>3. Sound(eng)
  <2>1. Holds(eng.pend) = {} /\ HeldLts(eng.pend) = {}
    BY <1>1 DEF Holds, HeldLts
  <2>2. eng.mods = {} /\ eng.lt = None /\ eng.base = None
    BY DEF Init
  <2>. QED BY <1>1, <1>2, <2>1, <2>2 DEF Sound, Owned, LtRules, Clean
<1>4. NoTap(eng) /\ Follows(eng, Held(prev))
  BY <1>1 DEF NoTap, Follows
<1>5. TypeOK
  <2>1. /\ down = <<>> /\ prev = <<>> /\ changed \in BOOLEAN /\ alone \in BOOLEAN
        /\ home \in Layer
    BY <1>1 DEF Init
  <2>2. Len(<<>>) = 0 /\ <<>> \in Seq(Key) /\ 0 <= SLOTS
    BY LayersAssumption
  <2>. QED BY <1>2, <2>1, <2>2 DEF TypeOK, SlotsType
<1>. QED BY <1>3, <1>4, <1>5 DEF EngineInvariant, Init

LEMMA StepInvariant == EngineInvariant /\ [Next]_vars => EngineInvariant'
<1>. SUFFICES ASSUME EngineInvariant, [Next]_vars PROVE EngineInvariant'
  OBVIOUS
<1>0. /\ TypeOK /\ Sound(eng) /\ NoTap(eng) /\ Follows(eng, Held(prev))
      /\ down \in Seq(Key) /\ Len(down) <= SLOTS /\ prev \in Seq(Key) /\ Len(prev) <= SLOTS
      /\ home \in Layer /\ alone \in BOOLEAN /\ changed \in BOOLEAN
  BY DEF EngineInvariant, TypeOK, SlotsType
<1>1. ASSUME NEW k \in Key, Press(k) PROVE EngineInvariant'
  <2>1. down' \in Seq(Key) /\ Len(down') <= SLOTS
    BY <1>0, <1>1, LayersAssumption DEF Press
  <2>. QED BY <1>0, <1>1, <2>1 DEF Press, EngineInvariant, TypeOK, SlotsType, AllUp
<1>2. ASSUME NEW n \in 1 .. SLOTS, Release(n) PROVE EngineInvariant'
  <2>1. down' \in Seq(Key) /\ Len(down') <= SLOTS
    <3>1. Len(down) - 1 \in Nat /\ Len(down) - 1 <= SLOTS
      BY <1>0, <1>2, LayersAssumption DEF Release
    <3>2. \A m \in 1 .. Len(down) - 1 : down[m] \in Key /\ down[m + 1] \in Key
      BY <1>0
    <3>3. down' \in [1 .. Len(down) - 1 -> Key]
      BY <1>2, <3>2 DEF Release
    <3>. QED BY <3>1, <3>3
  <2>. QED BY <1>0, <1>2, <2>1 DEF Release, EngineInvariant, TypeOK, SlotsType, AllUp
<1>3. ASSUME NEW S \in SUBSET Entries, HoldCycle(S) PROVE EngineInvariant'
  <2>. DEFINE e == Activated(eng, S)
  <2>1. S \in SUBSET Pending(eng)
    BY <1>3 DEF HoldCycle
  <2>2. /\ Sound(e) /\ e.fn = eng.fn
        /\ \A n \in Entries : /\ e.pend[n].key = eng.pend[n].key
                              /\ e.pend[n].st = IF n \in S THEN "hold" ELSE eng.pend[n].st
    BY <1>0, <2>1, ActivatedSound
  <2>3. \A n \in S : eng.pend[n].st = "pending"
    BY <2>1 DEF Pending
  <2>. HIDE DEF e
  <2>4. NoTap(e) /\ Follows(e, Held(prev))
    BY <1>0, <2>2, <2>3 DEF NoTap, Follows
  <2>5. eng' = build_keycode_report(e, prev, down) /\ prev' = down /\ down' = down
        /\ changed' = changed /\ home' = home /\ alone' \in BOOLEAN
    BY <1>0, <1>3 DEF HoldCycle, e
  <2>6. /\ Sound(eng') /\ NoTap(eng') /\ Follows(eng', Held(down))
        /\ down = <<>> => eng'.fn = eng.fn
    BY <1>0, <2>2, <2>4, <2>5, BuildSound
  <2>7. TypeOK'
    BY <1>0, <2>5, <2>6 DEF TypeOK, SlotsType, Sound
  <2>8. Follows(eng, Held(prev))'
    BY <2>5, <2>6 DEF Follows, Held
  <2>9. AllUp' => eng'.fn = None
    BY <2>5, <2>6 DEF AllUp, EngineInvariant
  <2>. QED BY <2>5, <2>6, <2>7, <2>8, <2>9 DEF EngineInvariant
<1>4. ASSUME MatrixCycle PROVE EngineInvariant'
  <2>. DEFINE e == build_keycode_report(eng, prev, down)
  <2>1. /\ Sound(e) /\ NoTap(e) /\ Follows(e, Held(down))
        /\ down = <<>> => \A i \in 1 .. SLOTS : e.extra[i] = None
    BY <1>0, BuildSound
  <2>. HIDE DEF e
  <2>2. /\ eng' = process_matrix_changes(e) /\ changed' = FALSE
        /\ home' = IF Dispatches(e) THEN eng'.last ELSE home
        /\ prev' = down /\ down' = down
    BY <1>4 DEF MatrixCycle, e
  <2>3. alone' \in BOOLEAN
    BY <1>0, <1>4 DEF MatrixCycle
  <2>4. /\ Sound(eng') /\ eng'.pend = e.pend /\ (down = <<>> => eng'.fn = None)
        /\ Dispatches(e) => eng'.last \in Layer
    BY <2>1, <2>2, ProcessMatrixChangesSound
  <2>5. TypeOK'
    BY <1>0, <2>2, <2>3, <2>4 DEF TypeOK, SlotsType, Sound
  <2>6. NoTap(eng)' /\ Follows(eng, Held(prev))'
    BY <2>1, <2>2, <2>4 DEF NoTap, Follows, Held
  <2>. QED BY <2>2, <2>4, <2>5, <2>6 DEF EngineInvariant, AllUp
<1>5. ASSUME NEW l \in Asked, SelectLayer(l) PROVE EngineInvariant'
  <2>1. l \in Layer /\ eng \in Engine
    BY <1>0, <1>5, LayersAssumption DEF SelectLayer, Layer, Sound
  <2>2. /\ eng' \in Engine /\ eng'.pend = eng.pend /\ eng'.fn = eng.fn
        /\ eng'.mods = eng.mods /\ eng'.lt = eng.lt /\ eng'.base = eng.base
    BY <1>5, <2>1 DEF SelectLayer, Engine
  <2>3. Sound(eng')
    BY <1>0, <2>2, OutsideTapHold
  <2>4. NoTap(eng)' /\ Follows(eng, Held(prev))'
    BY <1>0, <1>5, <2>2 DEF NoTap, Follows, Held, SelectLayer
  <2>5. TypeOK'
    BY <1>0, <1>5, <2>1, <2>2 DEF SelectLayer, TypeOK, SlotsType
  <2>. QED BY <1>5, <2>2, <2>3, <2>4, <2>5 DEF EngineInvariant, SelectLayer, AllUp
<1>6. CASE UNCHANGED vars
  BY <1>6 DEF vars, EngineInvariant, TypeOK, SlotsType, Sound, Owned, LtRules, Clean, NoTap,
              Follows, AllUp, Holds, HeldLts, Newest, Held
<1>. QED BY <1>1, <1>2, <1>3, <1>4, <1>5, <1>6 DEF Next

LEMMA InvariantHolds == Spec => []EngineInvariant
BY InitInvariant, StepInvariant, PTL DEF Spec

\* The engine keeps its shape, and current_layout never leaves the keymap,
\* whatever layers the layer-tap and LM keys of the keymap name.
THEOREM TypeCorrect == Spec => []TypeOK
<1>1. EngineInvariant => TypeOK
  BY DEF EngineInvariant
<1>. QED BY <1>1, InvariantHolds, PTL

\* deactivate_hold: a modifier is on only while a hold that set it lasts.
THEOREM ModsOwned == Spec => []HeldModsOwned
<1>1. EngineInvariant => HeldModsOwned
  BY DEF EngineInvariant, Sound, Owned, Holds, HeldModsOwned
<1>. QED BY <1>1, InvariantHolds, PTL

\* recompute_lt_layer: layer-taps may be released in any order.
THEOREM NewestLayerTapRules == Spec => []LayerTapRules
<1>1. EngineInvariant => LayerTapRules
  BY DEF EngineInvariant, Sound, LtRules, LayerTapRules
<1>. QED BY <1>1, InvariantHolds, PTL

\* With all keys up nothing waits for a key and no hold is left.
THEOREM NothingOutlivesItsKey == Spec => []NothingLeft
<1>1. ASSUME EngineInvariant, AllUp
      PROVE  /\ \A n \in Entries : eng.pend[n] = Idle
             /\ eng.mods = {} /\ eng.lt = None /\ eng.base = None /\ eng.fn = None
  <2>1. prev = <<>> /\ eng.fn = None
    BY <1>1 DEF EngineInvariant, AllUp, TypeOK
  <2>2. Held(prev) = {}
    BY <2>1 DEF Held
  <2>3. \A n \in Entries : eng.pend[n].st = "idle" /\ eng.pend[n] = Idle
    BY <1>1, <2>2 DEF EngineInvariant, Follows, Sound, Clean
  <2>4. Holds(eng.pend) = {} /\ HeldLts(eng.pend) = {}
    BY <2>3 DEF Holds, HeldLts
  <2>5. eng.mods = {} /\ eng.lt = None /\ eng.base = None
    BY <1>1, <2>4 DEF EngineInvariant, Sound, Owned, LtRules
  <2>. QED BY <2>1, <2>3, <2>5
<1>2. EngineInvariant => NothingLeft
  BY <1>1 DEF NothingLeft
<1>. QED BY <1>2, InvariantHolds, PTL
-----------------------------------------------------------------------------
(* LayerReturns.  While nothing has met, a layer-tap moves the layer away  *)
(* from home and back, or else the changer does.  Every step of a build    *)
(* is one of four: it moves the layer as a layer-tap does, it follows a    *)
(* momentary key, it takes in new entries, or it ends the momentary layer. *)

Movers    == Moves({"mo", "lm", "to"})
LayerTaps == Moves({"lt"})

\* Key k is no mover in layer l.
Still(l, k) == KeyMap[l][k].kind \notin {"mo", "lm", "to"}

\* A layer-tap in use is one in the keymap, and no mover where it leads.
Tame(e) == \A n \in Lts(e) :
             /\ e.pend[n].key \in LayerTaps
             /\ e.pend[n].layer \in Layer => Still(e.pend[n].layer, e.pend[n].key)

\* Only layer-taps are away from layer h, and they will come back to it.
AtRest(e, h) ==
  /\ e.last = h /\ e.lm = {}
  /\ e.lt = None => e.layer = h
  /\ e.lt # None => e.base = h /\ e.layer \in {h, e.lt}
  /\ \A n \in Lts(e) : e.pend[n].key \in Movers => KeyMap[h][e.pend[n].key].kind = "lt"

\* The momentary key k of layer h is down, and is no mover where it led.
Away(e, h, k) ==
  /\ e.last = h /\ e.changer = k
  /\ KeyMap[h][k].kind \in {"mo", "lm"}
  /\ Still(e.layer, k)
  /\ e.lt # None => Still(e.lt, k) /\ Still(e.base, k)

\* A layer in use by layer-tap is that of an entry.
LEMMA LtBelongs ==
  ASSUME NEW e, Sound(e), e.lt # None
  PROVE  e.lt \in Layer /\ \E n \in Lts(e) : e.pend[n].st = "hold" /\ e.pend[n].layer = e.lt
<1>1. PICK n \in Newest(e.pend) : e.pend[n].layer = e.lt
  BY DEF Sound, LtRules
<1>2. n \in Entries /\ e.pend[n].st = "hold" /\ e.pend[n].layer \in Layer
  BY <1>1 DEF Newest, HeldLts
<1>3. e.pend[n].layer # None
  BY <1>2, LayersAssumption DEF Layer
<1>. QED BY <1>1, <1>2, <1>3 DEF Lts

LEMMA TameKept ==
  ASSUME NEW e, NEW r, Tame(e), Kept(e, r)
  PROVE  Tame(r)
BY DEF Tame, Kept

\* Layer-taps come back to the layer they left.
LEMMA RestMoves ==
  ASSUME NEW e, NEW r, NEW h, Sound(r), LtMove(e, r), Kept(e, r), AtRest(e, h)
  PROVE  AtRest(r, h)
<1>1. /\ r.last = h /\ r.lm = {}
      /\ r.lt = None => r.layer = h
      /\ r.lt # None => r.base = h /\ r.layer \in {h, r.lt}
  BY DEF LtMove, AtRest
<1>2. \A n \in Lts(r) : r.pend[n].key \in Movers => KeyMap[h][r.pend[n].key].kind = "lt"
  BY DEF Kept, AtRest
<1>. QED BY <1>1, <1>2 DEF AtRest

\* They leave a momentary key still, if they are that key's own.
LEMMA AwayMoves ==
  ASSUME NEW e, NEW r, NEW h, NEW k, Sound(r), LtMove(e, r), Tame(r), Away(e, h, k),
         \A n \in Lts(r) : r.pend[n].st = "hold" => r.pend[n].key = k
  PROVE  Away(r, h, k)
<1>1. r.last = h /\ r.changer = k /\ KeyMap[h][k].kind \in {"mo", "lm"}
  BY DEF LtMove, Away
<1>2. r.lt # None => Still(r.lt, k)
  BY LtBelongs DEF Tame
<1>3. r.lt # None => Still(r.base, k)
  BY DEF LtMove, Away
<1>4. Still(r.layer, k)
  BY <1>2 DEF LtMove, Away
<1>. QED BY <1>1, <1>2, <1>3, <1>4 DEF Away

\* A key that is not followed becomes an entry as the layer in use reads it, and
\* a key found in that layer is the toggle that will wait.
LEMMA ProcessKeysMoves ==
  ASSUME NEW e, Sound(e), NEW s \in Seq(Key), NEW a \in Layer
  PROVE  LET r == process_keys(e, s, a)
         IN /\ r.layer = e.layer /\ r.last = e.last /\ r.lm = e.lm /\ r.changer = e.changer
            /\ r.lt = e.lt /\ r.base = e.base
            /\ \A n \in Lts(r) :
                 \/ n \in Lts(e) /\ r.pend[n] = e.pend[n]
                 \/ /\ r.pend[n].key \in Held(s) /\ ~Followed(e, r.pend[n].key)
                    /\ KeyMap[a][r.pend[n].key].kind = "lt"
                    /\ r.pend[n].layer = KeyMap[a][r.pend[n].key].layer
            /\ r.fn = e.fn \/ \E k \in Held(s) : ~OnHold(e, k) /\ KeyMap[a][k].kind = "to"
<1>. DEFINE new  == {i \in DOMAIN s : KeyMap[a][s[i]].kind \in {"lt", "mt"} /\ ~Followed(e, s[i])}
            free == {n \in Entries : e.pend[n].st = "idle"}
            tos  == {i \in DOMAIN s : ~OnHold(e, s[i]) /\ KeyMap[a][s[i]].kind = "to"}
            For(n) == {i \in new : Rank(i, new) = Rank(n, free)}
            New(i) == LET c == KeyMap[a][s[i]]
                      IN [st |-> "pending", key |-> s[i], seq |-> 0,
                          layer |-> IF c.kind = "lt" THEN c.layer ELSE None,
                          mods |-> IF c.kind = "mt" THEN c.mods ELSE {}]
            pend == [n \in Entries |-> IF n \in free /\ For(n) # {}
                                      THEN New(CHOOSE i \in For(n) : TRUE)
                                      ELSE e.pend[n]]
            fn == IF e.fn # None \/ FirstOf(tos) = {} THEN e.fn
                  ELSE KeyMap[a][s[CHOOSE i \in FirstOf(tos) : TRUE]].layer
            extra == [i \in 1 .. SLOTS |-> ExtraAfter(e, s, a, i)]
            r == process_keys(e, s, a)
<1>1. r = [e EXCEPT !.pend = pend, !.fn = fn, !.extra = extra]
  BY DEF process_keys
<1>2. ASSUME NEW n \in Entries, pend[n] # e.pend[n]
      PROVE  \E i \in new : pend[n] = New(i)
  <2>. DEFINE i == CHOOSE j \in For(n) : TRUE
  <2>. HIDE DEF For, New, new, free
  <2>1. pend[n] = IF n \in free /\ For(n) # {} THEN New(i) ELSE e.pend[n]
    OBVIOUS
  <2>. HIDE DEF pend
  <2>2. For(n) # {} /\ pend[n] = New(i)
    BY <1>2, <2>1
  <2>3. i \in For(n)
    BY <2>2, Zenon
  <2>. HIDE DEF i
  <2>4. i \in new
    BY <2>3 DEF For
  <2>. QED BY <2>2, <2>4
<1>3. ASSUME NEW i \in new
      PROVE  /\ New(i).key = s[i] /\ s[i] \in Held(s) /\ ~Followed(e, s[i])
             /\ New(i).layer # None => /\ KeyMap[a][s[i]].kind = "lt"
                                       /\ New(i).layer = KeyMap[a][s[i]].layer
  BY DEF Held
<1>4. fn # e.fn => \E k \in Held(s) : ~OnHold(e, k) /\ KeyMap[a][k].kind = "to"
  <2>. SUFFICES ASSUME fn # e.fn
                PROVE  \E k \in Held(s) : ~OnHold(e, k) /\ KeyMap[a][k].kind = "to"
    OBVIOUS
  <2>1. PICK i \in FirstOf(tos) : TRUE
    OBVIOUS
  <2>2. i \in tos
    BY <2>1 DEF FirstOf
  <2>. QED BY <2>2 DEF Held
<1>. HIDE DEF pend, fn, extra, r, New, new
<1>5. /\ r.pend = pend /\ r.fn = fn
      /\ r.layer = e.layer /\ r.last = e.last /\ r.lm = e.lm /\ r.changer = e.changer
      /\ r.lt = e.lt /\ r.base = e.base
  BY <1>1 DEF Sound, Engine
<1>6. ASSUME NEW n \in Lts(r)
      PROVE  \/ n \in Lts(e) /\ r.pend[n] = e.pend[n]
             \/ /\ r.pend[n].key \in Held(s) /\ ~Followed(e, r.pend[n].key)
                /\ KeyMap[a][r.pend[n].key].kind = "lt"
                /\ r.pend[n].layer = KeyMap[a][r.pend[n].key].layer
  <2>1. n \in Entries /\ r.pend[n].st # "idle" /\ r.pend[n].layer # None
    BY DEF Lts
  <2>2. CASE pend[n] = e.pend[n]
    BY <1>5, <2>1, <2>2 DEF Lts
  <2>3. CASE pend[n] # e.pend[n]
    <3>1. PICK i \in new : pend[n] = New(i)
      BY <1>2, <2>1, <2>3
    <3>. QED BY <1>3, <1>5, <2>1, <3>1
  <2>. QED BY <2>2, <2>3
<1>. QED BY <1>4, <1>5, <1>6 DEF r

\* A momentary key, if it is the only mover, leads from where the layer stands.
LEMMA MomentaryMoves ==
  ASSUME NEW e, Sound(e), NEW s \in Seq(Key), NEW k \in Key,
         \A i, j \in DOMAIN s : s[i] = s[j] => i = j,
         \A i \in Momentary(e.layer, s) : s[i] = k
  PROVE  LET r == apply_momentary_layer(e, s)
         IN \/ Momentary(e.layer, s) = {} /\ r = e
            \/ /\ k \in Held(s)
               /\ KeyMap[e.layer][k].kind \in {"mo", "lm"} /\ KeyMap[e.layer][k].layer \in Layer
               /\ r.layer = KeyMap[e.layer][k].layer
               /\ r.last = e.layer /\ r.changer = k /\ r.lt = e.lt /\ r.base = e.base
<1>. DEFINE mine == Momentary(e.layer, s)
            rest == mine \ LastOf(mine)
            Of(S) == KeyMap[e.layer][s[CHOOSE i \in LastOf(S) : TRUE]]
            r == apply_momentary_layer(e, s)
<1>1. CASE mine = {}
  BY <1>1 DEF apply_momentary_layer
<1>2. CASE mine # {}
  <2>1. PICK m \in mine : TRUE
    BY <1>2
  <2>2. /\ m \in DOMAIN s /\ s[m] = k /\ KeyMap[e.layer][k].kind \in {"mo", "lm"}
        /\ KeyMap[e.layer][k].layer \in Layer
    BY <2>1 DEF Momentary
  <2>3. mine = {m}
    <3>1. \A i \in mine : i \in DOMAIN s /\ s[i] = k
      BY DEF Momentary
    <3>. HIDE DEF mine
    <3>. QED BY <2>1, <2>2, <3>1
  <2>4. LastOf(mine) = {m} /\ rest = {}
    <3>. HIDE DEF mine
    <3>1. m \in Nat
      BY <2>2
    <3>2. LastOf(mine) = {m}
      BY <2>3, <3>1 DEF LastOf
    <3>. QED BY <2>3, <3>2
  <2>5. r = [e EXCEPT !.last = IF rest = {} THEN e.layer ELSE Of(rest).layer,
                      !.layer = Of(mine).layer, !.lm = Of(mine).mods,
                      !.changer = s[CHOOSE i \in LastOf(mine) : TRUE]]
    BY <1>2 DEF apply_momentary_layer
  <2>6. (CHOOSE i \in LastOf(mine) : TRUE) = m
    <3>. HIDE DEF mine
    <3>. QED BY <2>4
  <2>. HIDE DEF mine, rest
  <2>7. r = [e EXCEPT !.last = e.layer, !.layer = KeyMap[e.layer][k].layer,
                      !.lm = KeyMap[e.layer][k].mods, !.changer = k]
    BY <2>2, <2>4, <2>5, <2>6
  <2>. HIDE DEF r
  <2>8. /\ r.layer = KeyMap[e.layer][k].layer
        /\ r.last = e.layer /\ r.changer = k /\ r.lt = e.lt /\ r.base = e.base
    BY <2>7 DEF Sound, Engine
  <2>9. k \in Held(s)
    BY <2>2 DEF Held
  <2>. QED BY <2>2, <2>8, <2>9 DEF r
<1>. QED BY <1>1, <1>2

-----------------------------------------------------------------------------
(* A build in which nothing meets.                                         *)

\* What Meeting excludes, for a build that finds the keys of s after those of was.
Apart(was, s, fn) ==
  LET near == Held(was) \cup Held(s)
  IN /\ \A k \in near \cap Movers, j \in near \cap (Movers \cup LayerTaps) : j = k
     /\ fn # None => near \cap (Moves({"mo", "lm"}) \cup LayerTaps) = {}
     /\ \A k \in Held(s), l \in Layer :
          KeyMap[l][k].kind \in {"mo", "lm", "lt"} /\ KeyMap[l][k].layer \in Layer
            => Still(KeyMap[l][k].layer, k)

LEMMA NotMeeting ==
  ASSUME down \in Seq(Key), prev \in Seq(Key), ~Meeting
  PROVE  Apart(prev, down, eng.fn)
<1>. DEFINE near == Held(prev) \cup Held(down)
<1>1. near = Held(down) \cup Held(prev) /\ near \subseteq Key
  BY DEF Held
<1>2. /\ Moves({"mo", "lm", "to", "lt"}) = Movers \cup LayerTaps
      /\ Moves({"mo", "lm", "lt"}) = Moves({"mo", "lm"}) \cup LayerTaps
  BY DEF Movers, LayerTaps, Moves
<1>3. \A k \in near \cap Movers, j \in near \cap (Movers \cup LayerTaps) : j = k
  BY <1>1, <1>2 DEF Meeting, Movers
<1>4. eng.fn # None => near \cap (Moves({"mo", "lm"}) \cup LayerTaps) = {}
  BY <1>1, <1>2 DEF Meeting
<1>5. \A k \in Held(down), l \in Layer :
        KeyMap[l][k].kind \in {"mo", "lm", "lt"} /\ KeyMap[l][k].layer \in Layer
          => Still(KeyMap[l][k].layer, k)
  BY DEF Meeting, Still
<1>. QED BY <1>3, <1>4, <1>5 DEF Apart

\* What follows step 2 of build_keycode_report.
Finish(e, s) ==
  LET a == ActiveLayer(e)
  IN release_momentary(consume_taps(tap_hold_interrupt(process_keys(e, s, a), Typed(e, s, a))), s)

LEMMA FinishMoves ==
  ASSUME NEW e, Sound(e), NEW s \in Seq(Key)
  PROVE  LET a  == ActiveLayer(e)
             e2 == process_keys(e, s, a)
             e4 == consume_taps(tap_hold_interrupt(e2, Typed(e, s, a)))
         IN /\ a \in Layer /\ Sound(e2)
            /\ Sound(e4) /\ LtMove(e2, e4) /\ Kept(e2, e4) /\ e4.fn = e2.fn
            /\ \A n \in Lts(e4) : e2.pend[n].st \in {"pending", "hold"}
            /\ Finish(e, s) = release_momentary(e4, s)
<1>. DEFINE a  == ActiveLayer(e)
            e2 == process_keys(e, s, a)
            e3 == tap_hold_interrupt(e2, Typed(e, s, a))
            e4 == consume_taps(e3)
<1>1. Finish(e, s) = release_momentary(e4, s)
  BY DEF Finish
<1>2. a \in Layer
  BY ActiveLayerType DEF Sound
<1>. HIDE DEF a
<1>3. Sound(e2)
  BY <1>2, ProcessKeysSound
<1>. HIDE DEF e2
<1>4. /\ Sound(e3) /\ LtMove(e2, e3) /\ Kept(e2, e3) /\ e3.fn = e2.fn
      /\ \A n \in Entries : \/ e3.pend[n].st = e2.pend[n].st
                            \/ e2.pend[n].st = "pending" /\ e3.pend[n].st = "hold"
  BY <1>3, InterruptSound
<1>. HIDE DEF e3
<1>5. /\ Sound(e4) /\ NoTap(e4) /\ e4.fn = e3.fn
      /\ e4.layer = e3.layer /\ e4.last = e3.last /\ e4.lm = e3.lm /\ e4.changer = e3.changer
      /\ e4.lt = e3.lt /\ e4.base = e3.base
      /\ \A n \in Entries : e4.pend[n].st # "idle" => e4.pend[n] = e3.pend[n]
  BY <1>4, ConsumeSound
<1>. HIDE DEF e4
<1>6. LtMove(e2, e4)
  BY <1>4, <1>5 DEF LtMove
<1>7. Kept(e2, e4)
  BY <1>4, <1>5 DEF Kept, Lts
<1>8. ASSUME NEW n \in Lts(e4) PROVE e2.pend[n].st \in {"pending", "hold"}
  <2>1. n \in Entries /\ e4.pend[n].st # "idle" /\ e4.pend[n] \in Entry
    BY <1>5 DEF Lts, Sound, Engine
  <2>2. e4.pend[n].st \in {"pending", "hold"}
    BY <1>5, <2>1 DEF NoTap, Entry
  <2>. QED BY <1>4, <1>5, <2>1, <2>2
<1>. QED BY <1>1, <1>2, <1>3, <1>4, <1>5, <1>6, <1>7, <1>8 DEF a, e2, e3, e4

\* A key read as a layer-tap where the layer stands is tame.
LEMMA TakenTame ==
  ASSUME NEW e, Sound(e), Tame(e), NEW was, NEW s \in Seq(Key), NEW fn, Apart(was, s, fn)
  PROVE  Tame(process_keys(e, s, ActiveLayer(e)))
<1>. DEFINE a == ActiveLayer(e)
            r == process_keys(e, s, a)
<1>1. a \in Layer
  BY ActiveLayerType DEF Sound
<1>. HIDE DEF a
<1>. SUFFICES ASSUME NEW n \in Lts(r)
              PROVE  /\ r.pend[n].key \in LayerTaps
                     /\ r.pend[n].layer \in Layer => Still(r.pend[n].layer, r.pend[n].key)
  BY DEF Tame, a
<1>2. \/ n \in Lts(e) /\ r.pend[n] = e.pend[n]
      \/ /\ r.pend[n].key \in Held(s)
         /\ KeyMap[a][r.pend[n].key].kind = "lt"
         /\ r.pend[n].layer = KeyMap[a][r.pend[n].key].layer
  BY <1>1, ProcessKeysMoves
<1>. HIDE DEF r
<1>3. CASE n \in Lts(e) /\ r.pend[n] = e.pend[n]
  BY <1>3 DEF Tame
<1>4. CASE /\ r.pend[n].key \in Held(s)
           /\ KeyMap[a][r.pend[n].key].kind = "lt"
           /\ r.pend[n].layer = KeyMap[a][r.pend[n].key].layer
  <2>1. r.pend[n].key \in Key
    BY <1>4 DEF Held
  <2>. QED BY <1>1, <1>4, <2>1 DEF Apart, LayerTaps, Moves
<1>. QED BY <1>2, <1>3, <1>4

\* The keys of the layer-taps are near.
Nearby(e, was, s) == \A n \in Lts(e) : e.pend[n].key \in Held(was) \cup Held(s)

\* From rest, with no momentary key found: the build ends at rest, and a toggle that
\* waits leaves no layer-tap.
LEMMA RestFinish ==
  ASSUME NEW e, Sound(e), Tame(e), NEW was \in Seq(Key), NEW s \in Seq(Key),
         Apart(was, s, e.fn), Nearby(e, was, s),
         \A n \in Lts(e) : e.pend[n].st = "hold" => e.pend[n].key \in Held(s),
         NEW h \in Layer, AtRest(e, h)
  PROVE  LET r == Finish(e, s)
         IN Tame(r) /\ AtRest(r, h) /\ (r.fn # None => Lts(r) = {})
<1>. DEFINE near == Held(was) \cup Held(s)
            a  == ActiveLayer(e)
            e2 == process_keys(e, s, a)
            e4 == consume_taps(tap_hold_interrupt(e2, Typed(e, s, a)))
            r  == Finish(e, s)
<1>1. /\ a \in Layer /\ Sound(e2)
      /\ Sound(e4) /\ LtMove(e2, e4) /\ Kept(e2, e4) /\ e4.fn = e2.fn
      /\ r = release_momentary(e4, s)
  BY FinishMoves
<1>2. Tame(e2)
  BY TakenTame
<1>3. /\ e2.layer = e.layer /\ e2.last = e.last /\ e2.lm = e.lm /\ e2.changer = e.changer
      /\ e2.lt = e.lt /\ e2.base = e.base
      /\ \A n \in Lts(e2) :
           \/ n \in Lts(e) /\ e2.pend[n] = e.pend[n]
           \/ /\ e2.pend[n].key \in Held(s) /\ ~Followed(e, e2.pend[n].key)
              /\ KeyMap[a][e2.pend[n].key].kind = "lt"
      /\ e2.fn = e.fn \/ \E k \in Held(s) : ~OnHold(e, k) /\ KeyMap[a][k].kind = "to"
  BY <1>1, ProcessKeysMoves
<1>4. e.lt = None => a = h
  BY DEF ActiveLayer, AtRest
<1>. HIDE DEF a, e2, e4, r
<1>5. e.lt # None => \E n \in Lts(e) : /\ e.pend[n].st = "hold"
                                       /\ e.pend[n].key \in near \cap LayerTaps
  BY LtBelongs DEF Tame
<1>6. \A k \in near \cap Movers, j \in near \cap LayerTaps : j = k
  BY DEF Apart
<1>7. ASSUME NEW n \in Lts(e2) PROVE e2.pend[n].key \in near \cap LayerTaps
  BY <1>2, <1>3 DEF Tame, Nearby
<1>8. AtRest(e2, h)
  <2>1. ASSUME NEW n \in Lts(e2), e2.pend[n].key \in Movers
        PROVE  KeyMap[h][e2.pend[n].key].kind = "lt"
    <3>. DEFINE k == e2.pend[n].key
    <3>1. k \in near \cap Movers
      BY <1>7, <2>1
    <3>2. CASE n \in Lts(e) /\ e2.pend[n] = e.pend[n]
      BY <2>1, <3>2 DEF AtRest
    <3>3. CASE ~Followed(e, k) /\ KeyMap[a][k].kind = "lt"
      <4>1. e.lt = None
        <5>. SUFFICES ASSUME e.lt # None PROVE FALSE
          OBVIOUS
        <5>1. PICK m \in Lts(e) : e.pend[m].st = "hold" /\ e.pend[m].key \in near \cap LayerTaps
          BY <1>5
        <5>2. e.pend[m].key = k
          BY <1>6, <3>1, <5>1
        <5>. QED BY <3>3, <5>1, <5>2 DEF Followed, Lts
      <4>. QED BY <1>4, <3>3, <4>1
    <3>. QED BY <1>3, <3>2, <3>3
  <2>2. /\ e2.last = h /\ e2.lm = {}
        /\ e2.lt = None => e2.layer = h
        /\ e2.lt # None => e2.base = h /\ e2.layer \in {h, e2.lt}
    BY <1>3 DEF AtRest
  <2>. QED BY <2>1, <2>2 DEF AtRest
<1>9. e2.fn # None => Lts(e2) = {}
  <2>. SUFFICES ASSUME e2.fn # None, NEW n \in Lts(e2) PROVE FALSE
    OBVIOUS
  <2>1. e2.pend[n].key \in near \cap LayerTaps
    BY <1>7
  <2>2. CASE e2.fn = e.fn
    BY <2>1, <2>2 DEF Apart
  <2>3. CASE \E k \in Held(s) : ~OnHold(e, k) /\ KeyMap[a][k].kind = "to"
    <3>1. PICK k \in Held(s) : ~OnHold(e, k) /\ KeyMap[a][k].kind = "to"
      BY <2>3
    <3>2. k \in near \cap Movers
      BY <1>1, <3>1 DEF Movers, Moves, Held
    <3>3. e2.pend[n].key = k
      BY <1>6, <2>1, <3>2
    <3>4. e.lt = None
      <4>. SUFFICES ASSUME e.lt # None PROVE FALSE
        OBVIOUS
      <4>1. PICK m \in Lts(e) : e.pend[m].st = "hold" /\ e.pend[m].key \in near \cap LayerTaps
        BY <1>5
      <4>2. e.pend[m].key = k
        BY <1>6, <3>2, <4>1
      <4>. QED BY <3>1, <4>1, <4>2 DEF OnHold, Lts
    <3>5. KeyMap[h][k].kind = "lt"
      BY <1>8, <3>2, <3>3 DEF AtRest
    <3>. QED BY <1>4, <3>1, <3>4, <3>5
  <2>. QED BY <1>3, <2>2, <2>3
<1>10. AtRest(e4, h) /\ Tame(e4) /\ (e4.fn # None => Lts(e4) = {})
  <2>1. AtRest(e4, h) /\ Tame(e4)
    BY <1>1, <1>2, <1>8, RestMoves, TameKept
  <2>2. Lts(e4) \subseteq Lts(e2)
    BY <1>1 DEF Kept
  <2>. QED BY <1>1, <1>9, <2>1, <2>2
<1>11. CASE r = e4
  BY <1>10, <1>11 DEF r
<1>12. CASE r = [e4 EXCEPT !.layer = e4.last, !.lm = {}, !.changer = None]
  <2>1. /\ r.layer = h /\ r.last = h /\ r.lm = {} /\ r.lt = e4.lt /\ r.base = e4.base
        /\ r.pend = e4.pend /\ r.fn = e4.fn
    BY <1>1, <1>10, <1>12 DEF Sound, Engine, AtRest
  <2>2. Lts(r) = Lts(e4)
    BY <2>1 DEF Lts
  <2>3. AtRest(r, h) /\ Tame(r)
    BY <1>10, <2>1, <2>2 DEF AtRest, Tame
  <2>. QED BY <1>10, <2>1, <2>2, <2>3 DEF r
<1>. QED BY <1>1, <1>11, <1>12 DEF release_momentary

\* While the momentary key is down the layer stays where it led.
LEMMA AwayFinish ==
  ASSUME NEW e, Sound(e), Tame(e), e.fn = None, NEW was \in Seq(Key), NEW s \in Seq(Key),
         Apart(was, s, e.fn), Nearby(e, was, s),
         NEW h \in Layer, NEW k \in Held(s), Away(e, h, k)
  PROVE  LET r == Finish(e, s)
         IN Tame(r) /\ Away(r, h, k) /\ r.fn = None
<1>. DEFINE near == Held(was) \cup Held(s)
            a  == ActiveLayer(e)
            e2 == process_keys(e, s, a)
            e4 == consume_taps(tap_hold_interrupt(e2, Typed(e, s, a)))
            r  == Finish(e, s)
<1>1. /\ a \in Layer /\ Sound(e2)
      /\ Sound(e4) /\ LtMove(e2, e4) /\ Kept(e2, e4) /\ e4.fn = e2.fn
      /\ r = release_momentary(e4, s)
  BY FinishMoves
<1>2. Tame(e2)
  BY TakenTame
<1>3. /\ e2.layer = e.layer /\ e2.last = e.last /\ e2.lm = e.lm /\ e2.changer = e.changer
      /\ e2.lt = e.lt /\ e2.base = e.base
      /\ \A n \in Lts(e2) : \/ n \in Lts(e) /\ e2.pend[n] = e.pend[n]
                            \/ e2.pend[n].key \in Held(s)
      /\ e2.fn = e.fn \/ \E j \in Held(s) : ~OnHold(e, j) /\ KeyMap[a][j].kind = "to"
  BY <1>1, ProcessKeysMoves
<1>4. Still(a, k)
  BY DEF ActiveLayer, Away
<1>. HIDE DEF a, e2, e4, r
<1>5. k \in near \cap Movers
  BY DEF Movers, Moves, Held, Away
<1>6. \A n \in Lts(e2) : e2.pend[n].key = k
  BY <1>2, <1>3, <1>5 DEF Tame, Nearby, Apart
<1>7. e2.fn = None
  <2>. SUFFICES ASSUME NEW j \in Held(s), KeyMap[a][j].kind = "to" PROVE FALSE
    BY <1>3
  <2>1. j \in near \cap Movers
    BY <1>1 DEF Movers, Moves, Held
  <2>2. j = k
    BY <1>5, <2>1 DEF Apart
  <2>. QED BY <1>4, <2>2 DEF Still
<1>8. Away(e2, h, k)
  BY <1>3 DEF Away
<1>9. Tame(e4) /\ Away(e4, h, k)
  <2>1. Tame(e4)
    BY <1>1, <1>2, TameKept
  <2>2. \A n \in Lts(e4) : e4.pend[n].key = k
    BY <1>1, <1>6 DEF Kept
  <2>. QED BY <1>1, <1>8, <2>1, <2>2, AwayMoves
<1>10. ChangerHeld(e4, s)
  <2>1. k # None
    BY LayersAssumption DEF Held
  <2>. QED BY <1>9, <2>1 DEF Away, ChangerHeld
<1>. QED BY <1>1, <1>7, <1>9, <1>10 DEF release_momentary, r

\* When it is released the layer is back.
LEMMA AwayEnds ==
  ASSUME NEW e, Sound(e), Tame(e), e.fn = None, NEW was \in Seq(Key), NEW s \in Seq(Key),
         Apart(was, s, e.fn),
         \A n \in Lts(e) : e.pend[n].st \in {"pending", "hold"} => e.pend[n].key \in Held(s),
         NEW h \in Layer, NEW k \in Held(was), k \notin Held(s), Away(e, h, k)
  PROVE  LET r == Finish(e, s)
         IN Tame(r) /\ AtRest(r, h) /\ Lts(r) = {}
<1>. DEFINE near == Held(was) \cup Held(s)
            a  == ActiveLayer(e)
            e2 == process_keys(e, s, a)
            e4 == consume_taps(tap_hold_interrupt(e2, Typed(e, s, a)))
            r  == Finish(e, s)
<1>1. /\ a \in Layer /\ Sound(e2)
      /\ Sound(e4) /\ LtMove(e2, e4) /\ Kept(e2, e4) /\ e4.fn = e2.fn
      /\ \A n \in Lts(e4) : e2.pend[n].st \in {"pending", "hold"}
      /\ r = release_momentary(e4, s)
  BY FinishMoves
<1>2. /\ e2.layer = e.layer /\ e2.last = e.last /\ e2.lm = e.lm /\ e2.changer = e.changer
      /\ e2.lt = e.lt /\ e2.base = e.base
      /\ \A n \in Lts(e2) : \/ n \in Lts(e) /\ e2.pend[n] = e.pend[n]
                            \/ /\ e2.pend[n].key \in Held(s)
                               /\ KeyMap[a][e2.pend[n].key].kind = "lt"
  BY <1>1, ProcessKeysMoves
<1>. HIDE DEF a, e2, e4, r
<1>3. k \in near \cap Movers
  BY DEF Movers, Moves, Held, Away
<1>4. \A j \in Held(s) : j \notin LayerTaps
  BY <1>3 DEF Apart
<1>5. \A n \in Lts(e) : e.pend[n].st \notin {"pending", "hold"}
  BY <1>4 DEF Tame
<1>6. Lts(e4) = {}
  <2>. SUFFICES ASSUME NEW n \in Lts(e4) PROVE FALSE
    OBVIOUS
  <2>1. n \in Lts(e2) /\ e2.pend[n].st \in {"pending", "hold"}
    BY <1>1 DEF Kept
  <2>2. ASSUME e2.pend[n].key \in Held(s), KeyMap[a][e2.pend[n].key].kind = "lt" PROVE FALSE
    BY <1>1, <1>4, <2>2 DEF LayerTaps, Moves, Held
  <2>. QED BY <1>2, <1>5, <2>1, <2>2
<1>7. e.lt = None /\ e4.lt = None
  BY <1>1, <1>5, <1>6, LtBelongs
<1>8. e4.layer = e.layer /\ e4.last = h /\ e4.changer = k
  BY <1>1, <1>2, <1>7 DEF LtMove, Away
<1>9. e4.layer # e4.last /\ ~ChangerHeld(e4, s)
  <2>1. k # None
    BY LayersAssumption DEF Held
  <2>. QED BY <1>8, <2>1 DEF Away, Still, ChangerHeld
<1>10. r = [e4 EXCEPT !.layer = e4.last, !.lm = {}, !.changer = None]
  BY <1>1, <1>9 DEF release_momentary
<1>11. r.layer = h /\ r.last = h /\ r.lm = {} /\ r.lt = None /\ r.pend = e4.pend
  BY <1>1, <1>7, <1>8, <1>10 DEF Sound, Engine
<1>12. Lts(r) = {}
  BY <1>6, <1>11 DEF Lts
<1>13. AtRest(r, h) /\ Tame(r)
  BY <1>11, <1>12 DEF AtRest, Tame
<1>. QED BY <1>12, <1>13 DEF r

\* What a build in which nothing meets leaves: the layer at rest, or away by one
\* momentary key that is down.
Settled(e, h, s) ==
  /\ Tame(e)
  /\ \/ AtRest(e, h) /\ (e.fn # None => Lts(e) = {})
     \/ e.fn = None /\ \E k \in Held(s) : Away(e, h, k)

LEMMA BuildAlone ==
  ASSUME NEW e, Sound(e), NoTap(e), Tame(e),
         NEW was \in Seq(Key), Follows(e, Held(was)),
         NEW s \in Seq(Key), Len(s) <= SLOTS, \A i, j \in DOMAIN s : s[i] = s[j] => i = j,
         Apart(was, s, e.fn),
         NEW h \in Layer, AtRest(e, h) \/ \E k \in Held(was) : Away(e, h, k)
  PROVE  Settled(build_keycode_report(e, was, s), h, s)
<1>. DEFINE near == Held(was) \cup Held(s)
            e0 == detect_releases(e, Held(was) \ Held(s))
            e1 == apply_momentary_layer(e0, s)
            r  == build_keycode_report(e, was, s)
<1>1. r = Finish(e1, s)
  BY DEF build_keycode_report, Finish
<1>2. /\ Sound(e0) /\ e0.fn = e.fn /\ LtMove(e, e0) /\ Kept(e, e0)
      /\ \A n \in Entries : e0.pend[n].st \in {"pending", "hold"} => e0.pend[n].key \in Held(s)
  BY DetectReleasesSound
<1>. HIDE DEF e0, r
<1>3. Tame(e0)
  BY <1>2, TameKept
<1>4. Nearby(e0, was, s)
  BY <1>2 DEF Kept, Nearby, Follows, Lts
<1>5. \A n \in Lts(e0) : e0.pend[n].st \in {"pending", "hold"} => e0.pend[n].key \in Held(s)
  BY <1>2 DEF Lts
<1>6. ASSUME NEW i \in Momentary(e0.layer, s)
      PROVE  /\ s[i] \in near \cap Movers /\ s[i] \in Moves({"mo", "lm"}) /\ s[i] \in Held(s)
             /\ ~Still(e0.layer, s[i])
  BY <1>2 DEF Momentary, Movers, Moves, Held, Still, Sound, Engine
<1>7. CASE AtRest(e, h)
  <2>1. AtRest(e0, h)
    BY <1>2, <1>7, RestMoves
  <2>2. CASE Momentary(e0.layer, s) = {}
    <3>1. e1 = e0
      BY <2>2 DEF apply_momentary_layer
    <3>2. Tame(r) /\ AtRest(r, h) /\ (r.fn # None => Lts(r) = {})
      BY <1>1, <1>2, <1>3, <1>4, <1>5, <2>1, <3>1, RestFinish
    <3>. QED BY <3>2 DEF Settled, r
  <2>3. CASE Momentary(e0.layer, s) # {}
    <3>1. PICK m \in Momentary(e0.layer, s) : TRUE
      BY <2>3
    <3>. DEFINE k == s[m]
    <3>2. k \in near \cap Movers /\ k \in Moves({"mo", "lm"}) /\ k \in Held(s) /\ k \in Key
      BY <1>6, <3>1 DEF Movers, Moves
    <3>3. KeyMap[e0.layer][k].kind \in {"mo", "lm"}
      BY <3>1 DEF Momentary
    <3>4. \A i \in Momentary(e0.layer, s) : s[i] = k
      BY <1>6, <3>2 DEF Apart
    <3>. HIDE DEF k
    <3>5. e0.lt = None
      <4>. SUFFICES ASSUME e0.lt # None PROVE FALSE
        OBVIOUS
      <4>1. PICK n \in Lts(e0) : e0.pend[n].st = "hold" /\ e0.pend[n].layer = e0.lt
        BY <1>2, LtBelongs
      <4>2. e0.pend[n].key \in near \cap LayerTaps
        BY <1>3, <1>4, <4>1 DEF Tame, Nearby
      <4>3. e0.pend[n].key = k
        BY <3>2, <4>2 DEF Apart
      <4>4. CASE e0.layer = h
        BY <2>1, <3>2, <3>3, <4>1, <4>3, <4>4 DEF AtRest
      <4>5. CASE e0.layer = e0.lt
        <5>1. e0.lt \in Layer
          BY <1>2, LtBelongs
        <5>. QED BY <1>3, <3>3, <4>1, <4>3, <4>5, <5>1 DEF Tame, Still
      <4>. QED BY <2>1, <4>4, <4>5 DEF AtRest
    <3>6. e0.layer = h
      BY <2>1, <3>5 DEF AtRest
    <3>7. /\ KeyMap[h][k].layer \in Layer
          /\ e1.layer = KeyMap[h][k].layer
          /\ e1.last = h /\ e1.changer = k /\ e1.lt = None
      <4>1. /\ KeyMap[e0.layer][k].layer \in Layer
            /\ e1.layer = KeyMap[e0.layer][k].layer
            /\ e1.last = e0.layer /\ e1.changer = k /\ e1.lt = e0.lt
        BY <1>2, <2>3, <3>2, <3>4, MomentaryMoves
      <4>. HIDE DEF e1
      <4>. QED BY <3>5, <3>6, <4>1
    <3>8. Sound(e1) /\ e1.pend = e0.pend /\ e1.fn = e.fn
      BY <1>2, MomentarySound
    <3>. HIDE DEF e1
    <3>9. e1.fn = None
      BY <3>2, <3>8 DEF Apart
    <3>10. Away(e1, h, k)
      BY <3>2, <3>3, <3>6, <3>7 DEF Away, Apart
    <3>11. Tame(e1) /\ Nearby(e1, was, s)
      BY <1>3, <1>4, <3>8 DEF Tame, Nearby, Lts
    <3>12. Apart(was, s, e1.fn)
      BY <3>8
    <3>13. Tame(r) /\ Away(r, h, k) /\ r.fn = None
      BY <1>1, <3>2, <3>8, <3>9, <3>10, <3>11, <3>12, AwayFinish
    <3>. QED BY <3>2, <3>13 DEF Settled, r
  <2>. QED BY <2>2, <2>3
<1>8. CASE \E k \in Held(was) : Away(e, h, k)
  <2>1. PICK k \in Held(was) : Away(e, h, k)
    BY <1>8
  <2>2. k \in near \cap Movers /\ k \in Moves({"mo", "lm"})
    BY <2>1 DEF Movers, Moves, Held, Away
  <2>3. e0.fn = None
    BY <1>2, <2>2 DEF Apart
  <2>4. \A n \in Lts(e0) : e0.pend[n].key = k
    BY <1>3, <1>4, <2>2 DEF Tame, Nearby, Apart
  <2>5. Away(e0, h, k)
    BY <1>2, <1>3, <2>1, <2>4, AwayMoves
  <2>6. Momentary(e0.layer, s) = {}
    BY <1>6, <2>2, <2>5 DEF Apart, Away
  <2>7. e1 = e0
    BY <2>6 DEF apply_momentary_layer
  <2>8. Apart(was, s, e0.fn)
    BY <1>2
  <2>9. CASE k \in Held(s)
    <3>1. Tame(r) /\ Away(r, h, k) /\ r.fn = None
      BY <1>1, <1>2, <1>3, <1>4, <2>3, <2>5, <2>7, <2>8, <2>9, AwayFinish
    <3>. QED BY <2>9, <3>1 DEF Settled, r
  <2>10. CASE k \notin Held(s)
    <3>1. Tame(r) /\ AtRest(r, h) /\ Lts(r) = {}
      BY <1>1, <1>2, <1>3, <1>5, <2>3, <2>5, <2>7, <2>8, <2>10, AwayEnds
    <3>. QED BY <3>1 DEF Settled, r
  <2>. QED BY <2>9, <2>10
<1>. QED BY <1>7, <1>8

\* A toggle takes effect when no layer-tap is in use: the layer rests there.
LEMMA ToggleRests ==
  ASSUME NEW e, Sound(e), Dispatches(e), Lts(e) = {}, e.lm = {}
  PROVE  LET r == process_matrix_changes(e)
         IN Tame(r) /\ AtRest(r, r.last)
<1>. DEFINE l == IF e.layer = e.fn THEN 0 ELSE e.fn
            r == process_matrix_changes(e)
<1>1. r = [e EXCEPT !.layer = l, !.last = l, !.fn = None]
  BY DEF process_matrix_changes, apply_toggle_layer
<1>2. e.lt = None
  BY LtBelongs
<1>. HIDE DEF l, r
<1>3. r.layer = l /\ r.last = l /\ r.lm = {} /\ r.lt = None /\ r.pend = e.pend
  BY <1>1, <1>2 DEF Sound, Engine
<1>4. Lts(r) = {}
  BY <1>3 DEF Lts
<1>. QED BY <1>3, <1>4 DEF AtRest, Tame, r

\* Otherwise only the memory of the toggle changes.
LEMMA WaitsStill ==
  ASSUME NEW e, Sound(e), ~Dispatches(e)
  PROVE  LET r == process_matrix_changes(e)
         IN /\ r.layer = e.layer /\ r.last = e.last /\ r.changer = e.changer /\ r.lm = e.lm
            /\ r.lt = e.lt /\ r.base = e.base /\ r.pend = e.pend
<1>1. CASE e.fn = None
  BY <1>1 DEF process_matrix_changes
<1>2. CASE e.fn # None
  <2>. DEFINE here == {i \in 1 .. SLOTS : e.extra[i] = e.fn}
              extra == [i \in 1 .. SLOTS |-> IF i \in FirstOf(here) THEN None ELSE e.extra[i]]
  <2>1. process_matrix_changes(e) = [e EXCEPT !.extra = extra]
    BY <1>2 DEF process_matrix_changes
  <2>. HIDE DEF extra
  <2>. QED BY <2>1 DEF Sound, Engine
<1>. QED BY <1>1, <1>2

\* The slots hold a key once.
Distinct(s) == \A i, j \in DOMAIN s : s[i] = s[j] => i = j

\* The inductive invariant: while nothing has met the layer rests at home, or
\* one momentary key that the last build saw has led it away.
HomeInv ==
  /\ EngineInvariant
  /\ Distinct(down)
  /\ alone => /\ Tame(eng)
              /\ AtRest(eng, home) \/ \E k \in Held(prev) : Away(eng, home, k)

LEMMA HomeInit == Init => HomeInv
<1>. SUFFICES ASSUME Init PROVE HomeInv
  OBVIOUS
<1>1. Lts(eng) = {}
  BY DEF Init, Lts, Idle
<1>2. Tame(eng) /\ AtRest(eng, home)
  BY <1>1 DEF Tame, AtRest, Init
<1>. QED BY <1>2, InitInvariant DEF HomeInv, Distinct, Init

LEMMA HomeStep == HomeInv /\ [Next]_vars => HomeInv'
<1>. SUFFICES ASSUME HomeInv, [Next]_vars PROVE HomeInv'
  OBVIOUS
<1>0. /\ EngineInvariant' /\ Sound(eng) /\ NoTap(eng) /\ Follows(eng, Held(prev))
      /\ down \in Seq(Key) /\ Len(down) <= SLOTS /\ prev \in Seq(Key)
      /\ home \in Layer /\ alone \in BOOLEAN /\ Distinct(down)
  BY StepInvariant DEF HomeInv, EngineInvariant, TypeOK, SlotsType
<1>1. ASSUME NEW k \in Key, Press(k) PROVE HomeInv'
  <2>1. /\ down' = Append(down, k) /\ k \notin Held(down)
        /\ prev' = prev /\ eng' = eng /\ home' = home /\ alone' = alone
    BY <1>1 DEF Press
  <2>2. Distinct(down')
    BY <1>0, <2>1 DEF Distinct, Held
  <2>3. Held(prev)' = Held(prev)
    BY <2>1
  <2>. QED BY <1>0, <2>1, <2>2, <2>3 DEF HomeInv, Distinct
<1>2. ASSUME NEW n \in 1 .. SLOTS, Release(n) PROVE HomeInv'
  <2>1. /\ down' = [m \in 1 .. Len(down) - 1 |-> IF m < n THEN down[m] ELSE down[m + 1]]
        /\ n \in DOMAIN down
        /\ prev' = prev /\ eng' = eng /\ home' = home /\ alone' = alone
    BY <1>2 DEF Release
  <2>2. Distinct(down')
    <3>. SUFFICES ASSUME NEW i \in DOMAIN down', NEW j \in DOMAIN down', down'[i] = down'[j]
                  PROVE  i = j
      BY DEF Distinct
    <3>. DEFINE At(m) == IF m < n THEN m ELSE m + 1
    <3>1. DOMAIN down' = 1 .. Len(down) - 1 /\ DOMAIN down = 1 .. Len(down) /\ Len(down) \in Nat
      BY <1>0, <2>1
    <3>2. At(i) \in DOMAIN down /\ At(j) \in DOMAIN down
      BY <3>1
    <3>3. down[At(i)] = down[At(j)]
      BY <2>1, <3>1
    <3>4. At(i) = At(j)
      BY <1>0, <3>2, <3>3 DEF Distinct
    <3>. QED BY <3>1, <3>4
  <2>3. Held(prev)' = Held(prev)
    BY <2>1
  <2>. QED BY <1>0, <2>1, <2>2, <2>3 DEF HomeInv, Distinct
<1>3. ASSUME NEW S \in SUBSET Entries, HoldCycle(S) PROVE HomeInv'
  <2>. DEFINE e == Activated(eng, S)
  <2>1. /\ eng' = build_keycode_report(e, prev, down) /\ S \in SUBSET Pending(eng)
        /\ prev' = down /\ down' = down /\ home' = home /\ alone' = (alone /\ ~Meeting)
    BY <1>3 DEF HoldCycle
  <2>2. /\ Sound(e) /\ e.fn = eng.fn /\ LtMove(eng, e) /\ Kept(eng, e)
        /\ \A n \in Entries : /\ e.pend[n].key = eng.pend[n].key
                              /\ e.pend[n].st = IF n \in S THEN "hold" ELSE eng.pend[n].st
    BY <1>0, <2>1, ActivatedSound
  <2>. HIDE DEF e
  <2>3. NoTap(e) /\ Follows(e, Held(prev))
    BY <1>0, <2>1, <2>2 DEF NoTap, Follows, Pending
  <2>4. ASSUME alone' PROVE Settled(eng', home, down)
    <3>1. alone /\ Apart(prev, down, e.fn)
      BY <1>0, <2>1, <2>2, <2>4, NotMeeting
    <3>2. Tame(e)
      BY <2>2, <3>1, TameKept DEF HomeInv
    <3>3. AtRest(e, home) \/ \E k \in Held(prev) : Away(e, home, k)
      <4>1. CASE AtRest(eng, home)
        BY <2>2, <4>1, RestMoves
      <4>2. ASSUME NEW k \in Held(prev), Away(eng, home, k) PROVE Away(e, home, k)
        <5>1. k \in Held(prev) \cap Movers
          BY <1>0, <4>2 DEF Movers, Moves, Held, Away
        <5>2. \A n \in Lts(e) : e.pend[n].key = k
          BY <2>3, <3>1, <3>2, <5>1 DEF Follows, Lts, Tame, Apart
        <5>. QED BY <2>2, <3>2, <4>2, <5>2, AwayMoves
      <4>. QED BY <3>1, <4>1, <4>2 DEF HomeInv
    <3>. QED BY <1>0, <2>1, <2>2, <2>3, <3>1, <3>2, <3>3, BuildAlone DEF Distinct
  <2>5. Held(prev)' = Held(down)
    BY <2>1
  <2>. QED BY <1>0, <2>1, <2>4, <2>5 DEF HomeInv, Settled, Distinct
<1>4. ASSUME MatrixCycle PROVE HomeInv'
  <2>. DEFINE e == build_keycode_report(eng, prev, down)
  <2>1. /\ eng' = process_matrix_changes(e)
        /\ home' = IF Dispatches(e) THEN eng'.last ELSE home
        /\ alone' = IF Dispatches(e) /\ down = <<>> /\ e.lm = {} THEN TRUE
                    ELSE alone /\ ~Meeting
        /\ prev' = down /\ down' = down
    BY <1>4 DEF MatrixCycle
  <2>2. Sound(e) /\ Follows(e, Held(down))
    BY <1>0, BuildSound
  <2>3. ASSUME alone, ~Meeting PROVE Settled(e, home, down)
    <3>1. Apart(prev, down, eng.fn)
      BY <1>0, <2>3, NotMeeting
    <3>. QED BY <1>0, <2>3, <3>1, BuildAlone DEF HomeInv, Distinct
  <2>. HIDE DEF e
  <2>4. ASSUME alone'
        PROVE  /\ Tame(eng')
               /\ AtRest(eng', home') \/ \E k \in Held(down) : Away(eng', home', k)
    <3>1. CASE Dispatches(e)
      <4>1. e.fn # None
        BY <3>1 DEF Dispatches
      <4>2. Lts(e) = {} /\ e.lm = {}
        <5>1. CASE down = <<>> /\ e.lm = {}
          BY <2>2, <5>1 DEF Follows, Held, Lts
        <5>2. CASE alone /\ ~Meeting
          BY <2>3, <4>1, <5>2 DEF Settled, AtRest
        <5>. QED BY <2>1, <2>4, <5>1, <5>2
      <4>3. Tame(eng') /\ AtRest(eng', eng'.last)
        BY <2>1, <2>2, <3>1, <4>2, ToggleRests
      <4>. QED BY <2>1, <3>1, <4>3
    <3>2. CASE ~Dispatches(e)
      <4>. alone /\ ~Meeting
        <5>1. alone' = (alone /\ ~Meeting)
          BY <2>1, <3>2
        <5>. QED BY <1>0, <2>4, <5>1, Zenon
      <4>1. Settled(e, home, down)
        BY <2>3
      <4>2. /\ eng'.layer = e.layer /\ eng'.last = e.last /\ eng'.changer = e.changer
            /\ eng'.lm = e.lm /\ eng'.lt = e.lt /\ eng'.base = e.base /\ eng'.pend = e.pend
        BY <2>1, <2>2, <3>2, WaitsStill
      <4>3. Lts(eng') = Lts(e)
        BY <4>2 DEF Lts
      <4>4. Tame(eng')
        BY <4>1, <4>2, <4>3 DEF Settled, Tame
      <4>5. AtRest(e, home) => AtRest(eng', home)
        BY <4>2, <4>3 DEF AtRest
      <4>6. \A k \in Held(down) : Away(e, home, k) => Away(eng', home, k)
        BY <4>2 DEF Away
      <4>. QED BY <2>1, <3>2, <4>1, <4>4, <4>5, <4>6 DEF Settled
    <3>. QED BY <3>1, <3>2
  <2>5. Held(prev)' = Held(down)
    BY <2>1
  <2>. QED BY <1>0, <2>1, <2>4, <2>5 DEF HomeInv, Distinct
<1>5. ASSUME NEW l \in Asked, SelectLayer(l) PROVE HomeInv'
  BY <1>0, <1>5 DEF SelectLayer, HomeInv, Distinct
<1>6. CASE UNCHANGED vars
  <2>1. /\ down' = down /\ prev' = prev /\ eng' = eng /\ home' = home /\ alone' = alone
        /\ Held(prev)' = Held(prev)
    BY <1>6 DEF vars
  <2>. QED BY <1>0, <2>1 DEF HomeInv, Distinct
<1>. QED BY <1>1, <1>2, <1>3, <1>4, <1>5, <1>6 DEF Next

\* build_keycode_report, steps 1, 2 and 10, and process_matrix_changes: with all
\* keys up the layer chosen last is back and the modifiers of LM are off, if no
\* two of the ways to move a layer have met.
THEOREM LayerComesBack == Spec => []LayerReturns
<1>1. HomeInv => LayerReturns
  <2>. SUFFICES ASSUME HomeInv, AllUp, alone
                PROVE  eng.layer = home /\ eng.last = home /\ eng.lm = {}
    BY DEF LayerReturns
  <2>1. Held(prev) = {} /\ Sound(eng) /\ Follows(eng, Held(prev))
    BY DEF HomeInv, EngineInvariant, AllUp, Held
  <2>2. Lts(eng) = {}
    BY <2>1 DEF Follows, Lts
  <2>3. eng.lt = None
    BY <2>1, <2>2, LtBelongs
  <2>. QED BY <2>1, <2>3 DEF HomeInv, AtRest
<1>. QED BY <1>1, HomeInit, HomeStep, PTL DEF Spec
=============================================================================
