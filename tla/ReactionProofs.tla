--------------------------- MODULE ReactionProofs ---------------------------
(***************************************************************************)
(* Proofs about Reaction and ReactionRunner, for any finite sets of        *)
(* hydrogens and oxygens and any number of threads main creates.           *)
(***************************************************************************)
EXTENDS ReactionRunner, FiniteSetTheorems, TLAPS

-----------------------------------------------------------------------------
\* Facts about finite sets and signals.

\* One element more or less counts one more or less.
LEMMA CardPlusMinus ==
    ASSUME NEW S, IsFiniteSet(S), NEW x
    PROVE  /\ Cardinality(S) \in Nat
           /\ x \notin S => /\ IsFiniteSet(S \cup {x})
                            /\ Cardinality(S \cup {x}) = Cardinality(S) + 1
           /\ x \in S => /\ IsFiniteSet(S \ {x})
                         /\ Cardinality(S \ {x}) = Cardinality(S) - 1
BY FS_CardinalityType, FS_AddElement, FS_RemoveElement

\* Disjoint finite sets: the size of their union is the sum of theirs.
LEMMA CardDisjoint ==
    ASSUME NEW S, IsFiniteSet(S), NEW T, IsFiniteSet(T), S \cap T = {}
    PROVE  Cardinality(S \cup T) = Cardinality(S) + Cardinality(T)
<1>1. Cardinality(S \cup T) = Cardinality(S) + Cardinality(T) - Cardinality(S \cap T)
  BY FS_Union
<1>2. Cardinality(S \cap T) = 0 /\ Cardinality(S) \in Nat /\ Cardinality(T) \in Nat
  BY FS_EmptySet, FS_CardinalityType
<1> QED
  BY <1>1, <1>2

\* Two elements more or less count two more or less.
LEMMA CardTwo ==
    ASSUME NEW S, IsFiniteSet(S), NEW a, NEW b, a # b
    PROVE  /\ a \in S /\ b \in S => Cardinality((S \ {a}) \ {b}) = Cardinality(S) - 2
           /\ a \notin S /\ b \notin S => Cardinality((S \cup {a}) \cup {b}) = Cardinality(S) + 2
<1>0. Cardinality(S) \in Nat
  BY FS_CardinalityType
<1>1. ASSUME a \in S, b \in S PROVE Cardinality((S \ {a}) \ {b}) = Cardinality(S) - 2
  <2> DEFINE R == S \ {a}
  <2>1. IsFiniteSet(R) /\ Cardinality(R) = Cardinality(S) - 1 /\ b \in R
    BY <1>1, CardPlusMinus
  <2> HIDE DEF R
  <2>2. Cardinality(R \ {b}) = Cardinality(R) - 1
    BY <2>1, CardPlusMinus
  <2> QED
    BY <1>0, <2>1, <2>2 DEF R
<1>2. ASSUME a \notin S, b \notin S PROVE Cardinality((S \cup {a}) \cup {b}) = Cardinality(S) + 2
  <2> DEFINE R == S \cup {a}
  <2>1. IsFiniteSet(R) /\ Cardinality(R) = Cardinality(S) + 1 /\ b \notin R
    BY <1>2, CardPlusMinus
  <2> HIDE DEF R
  <2>2. Cardinality(R \cup {b}) = Cardinality(R) + 1
    BY <2>1, CardPlusMinus
  <2> QED
    BY <1>0, <2>1, <2>2 DEF R
<1> QED
  BY <1>1, <1>2

\* A signal leaves a subset of the waiters, and everyone asleep if there was
\* nobody to wake (pthread_cond_signal in cond_signal of thread.h).
LEMMA SignalTakesOne ==
    ASSUME NEW W, NEW V \in AfterSignal(W)
    PROVE  /\ V \subseteq W
           /\ W = {} => V = {}
           /\ W # {} => \E t \in W : V = W \ {t}
BY DEF AfterSignal

\* Two signals to two waiters or more wake two different threads.
LEMMA TwoSignalsTakeTwo ==
    ASSUME NEW W, IsFiniteSet(W), Cardinality(W) >= 2,
           NEW V \in AfterSignal(W), NEW U \in AfterSignal(V)
    PROVE  \E s, t \in W : s # t /\ U = (W \ {s}) \ {t}
<1>1. W # {}
  BY FS_EmptySet
<1>2. PICK s \in W : V = W \ {s}
  BY <1>1, SignalTakesOne
<1>3. Cardinality(V) >= 1
  BY <1>2, CardPlusMinus
<1>4. V # {}
  BY <1>3, FS_EmptySet
<1>5. PICK t \in V : U = V \ {t}
  BY <1>4, SignalTakesOne
<1> QED
  BY <1>2, <1>5

-----------------------------------------------------------------------------
\* One oxygen at a time is between make_water and lock_release, and the two
\* hydrogens of its molecule are there.
LockHeld ==
    /\ \A o, p \in OMade : o = p
    /\ OMade # {} => numH >= 2

\* The invariant that holds even if wakeups are spurious.
SafeInv == TypeOK /\ LockHeld /\ OxygensCounted /\ WakeupsCoverHydrogens

\* The oxygens inside the monitor.
OInside == {o \in Oxygens : pc[o] \in {"cond", "made"}}

\* The oxygens inside the monitor are finitely many; those that are not
\* blocked in cond_wait are awake.
LEMMA InsideFinite ==
    ASSUME TypeOK
    PROVE  /\ IsFiniteSet(OInside) /\ IsFiniteSet(OAwake) /\ IsFiniteSet(HSleep)
           /\ OAwake = OInside \ OSleep
           /\ Cardinality(OAwake) \in Nat
<1>1. OInside \subseteq Oxygens /\ OAwake \subseteq Oxygens /\ HSleep \subseteq Hydrogens
  BY DEF OInside, OAwake, OMade, OWoken, TypeOK
<1>2. OAwake = OInside \ OSleep
  BY DEF OInside, OAwake, OMade, OWoken, TypeOK
<1> QED
  BY <1>1, <1>2, FS_Subset, FS_CardinalityType, AtomsAssumption

\* reaction_init leaves no hydrogen counted and nobody blocked.
LEMMA SafeInit == Init => SafeInv
<1> SUFFICES ASSUME Init PROVE SafeInv
  OBVIOUS
<1>1. TypeOK
  BY DEF Init, TypeOK, Places, Atoms
<1>2. {o \in Oxygens : pc[o] \in {"cond", "made"}} = {} /\ OMade = {}
  BY DEF Init, Atoms, OMade
<1> QED
  BY <1>1, <1>2, FS_EmptySet
     DEF Init, SafeInv, LockHeld, OxygensCounted, WakeupsCoverHydrogens

\* A hydrogen that arrives wakes an oxygen if one sleeps, which answers for two
\* hydrogens.
LEMMA SafeHArrives ==
    ASSUME SafeInv, NEW h \in Hydrogens, HArrives(h) PROVE SafeInv'
<1> USE AtomsAssumption DEF SafeInv
<1>1. PICK V \in AfterSignal(OSleep) : OSleep' = V
  BY DEF HArrives
<1>2. OSleep' \subseteq OSleep
  BY <1>1, SignalTakesOne
<1>3. \A o \in Oxygens : pc'[o] = pc[o]
  BY DEF HArrives, Goto, TypeOK, Atoms
<1>4. TypeOK'
  <2>1. pc' \in [Atoms -> Places] /\ pc'[h] = "cond"
    BY DEF HArrives, TypeOK, Atoms, Places, Goto
  <2>2. HSleep' \subseteq {g \in Hydrogens : pc'[g] = "cond"}
    BY <2>1 DEF HArrives, TypeOK, Atoms, Goto
  <2>3. OSleep' \subseteq {o \in Oxygens : pc'[o] = "cond"}
    BY <1>2, <1>3 DEF TypeOK
  <2>4. \A g \in Hydrogens : pc'[g] # "made"
    BY DEF HArrives, TypeOK, Atoms, Goto
  <2> QED
    BY <2>1, <2>2, <2>3, <2>4 DEF HArrives, TypeOK, counters
<1>5. OxygensCounted'
  <2>1. OInside' = OInside
    BY <1>3 DEF OInside
  <2> QED
    BY <2>1 DEF OxygensCounted, OInside, HArrives
<1>6. WakeupsCoverHydrogens'
  <2>1. SUFFICES ASSUME OSleep' # {}
                 PROVE  numH' <= 2 * Cardinality(OAwake') + 1
    BY DEF WakeupsCoverHydrogens
  <2>2. PICK t \in OSleep : OSleep' = OSleep \ {t}
    BY <1>1, <1>2, <2>1, SignalTakesOne
  <2>3. OAwake' = OAwake \cup {t} /\ t \notin OAwake
    BY <1>3, <2>2 DEF OAwake, OMade, OWoken, TypeOK
  <2>4. Cardinality(OAwake') = Cardinality(OAwake) + 1 /\ Cardinality(OAwake) \in Nat
    BY <2>3, InsideFinite, CardPlusMinus
  <2>5. numH <= 2 * Cardinality(OAwake) + 1 /\ numH \in Nat /\ numH' = numH + 1
    BY <2>2 DEF WakeupsCoverHydrogens, TypeOK, HArrives
  <2> QED
    BY <2>4, <2>5
<1>7. LockHeld'
  BY <1>3 DEF HArrives, LockFree, LockHeld, OMade
<1> QED
  BY <1>4, <1>5, <1>6, <1>7

\* Steps of a hydrogen that leaves.
LEMMA SafeHLeaves ==
    ASSUME SafeInv, NEW h \in Hydrogens, HReturns(h) \/ HCounted(h) PROVE SafeInv'
<1> USE AtomsAssumption DEF SafeInv
<1>1. \A o \in Oxygens : pc'[o] = pc[o]
  BY DEF HReturns, HCounted, Goto, TypeOK, Atoms
<1>2. TypeOK'
  BY DEF HReturns, HWoken, HCounted, TypeOK, Atoms, Places, Goto, monitor, counters
<1>3. OSleep' = OSleep /\ numH' = numH /\ numO' = numO
  BY DEF HReturns, HCounted, monitor
<1>4. OAwake' = OAwake /\ OMade' = OMade /\ OInside' = OInside
  BY <1>1, <1>3 DEF OAwake, OMade, OWoken, OInside
<1> QED
  BY <1>2, <1>3, <1>4 DEF LockHeld, OxygensCounted, OInside, WakeupsCoverHydrogens

\* An oxygen that looks at numH, whether it has just arrived or was woken: with
\* two hydrogens it makes its molecule, and otherwise at most one is free.
LEMMA SafeOLoop ==
    ASSUME SafeInv, NEW o \in Oxygens, OArrives(o) \/ OWakes(o) PROVE SafeInv'
<1> USE AtomsAssumption DEF SafeInv
<1>1. PICK n : /\ OLoop(o, n)
               /\ n = Cardinality(OInside \cup {o})
               /\ n \in Nat
               /\ o \notin OSleep
               /\ OMade = {}
               /\ pc[o] \in {"start", "cond"}
  <2>1. CASE OArrives(o)
    <3>1. o \notin OInside /\ o \notin OSleep
      BY <2>1 DEF OArrives, OInside, TypeOK
    <3>2. Cardinality(OInside \cup {o}) = Cardinality(OInside) + 1
      BY <3>1, InsideFinite, CardPlusMinus
    <3>3. numO + 1 = Cardinality(OInside \cup {o}) /\ numO + 1 \in Nat
      BY <3>2 DEF OxygensCounted, OInside, TypeOK
    <3> QED
      BY <2>1, <3>1, <3>3 DEF OArrives, LockFree
  <2>2. CASE OWakes(o)
    <3>1. o \in OInside /\ o \notin OSleep /\ pc[o] = "cond"
      BY <2>2 DEF OWakes, OWoken, OInside
    <3>2. OInside \cup {o} = OInside
      BY <3>1
    <3> QED
      BY <2>2, <3>1, <3>2 DEF OWakes, LockFree, OxygensCounted, OInside, TypeOK
  <2> QED
    BY <2>1, <2>2
<1>2. CASE numH >= 2 /\ MakeWater(o, n)
  <2>1. TypeOK'
    BY <1>1, <1>2 DEF MakeWater, TypeOK, Goto, Atoms, Places, counters
  <2>2. OInside' = OInside \cup {o} /\ OMade' = {o} /\ OAwake' = OAwake \cup {o}
    BY <1>1, <1>2 DEF MakeWater, Goto, OInside, OMade, OAwake, OWoken, TypeOK, Atoms
  <2>3. OxygensCounted'
    BY <1>1, <1>2, <2>2 DEF MakeWater, OxygensCounted, OInside
  <2>4. LockHeld'
    BY <1>2, <2>2 DEF MakeWater, LockHeld
  <2>5. /\ Cardinality(OAwake) <= Cardinality(OAwake')
        /\ Cardinality(OAwake) \in Nat /\ Cardinality(OAwake') \in Nat
    <3>1. IsFiniteSet(OAwake) /\ IsFiniteSet(OAwake')
      BY <2>2, InsideFinite, FS_AddElement
    <3> QED
      BY <2>2, <3>1, FS_Subset, FS_CardinalityType
  <2>6. WakeupsCoverHydrogens'
    BY <1>2, <2>5 DEF WakeupsCoverHydrogens, MakeWater, TypeOK
  <2> QED
    BY <2>1, <2>3, <2>4, <2>6
<1>3. CASE numH < 2 /\ OSleeps(o, n)
  <2>1. TypeOK'
    BY <1>1, <1>3 DEF OSleeps, TypeOK, Goto, Atoms, Places, counters
  <2>2. OInside' = OInside \cup {o} /\ OMade' = {}
    BY <1>1, <1>3 DEF OSleeps, Goto, OInside, OMade, TypeOK, Atoms
  <2>3. OxygensCounted' /\ LockHeld'
    BY <1>1, <1>3, <2>2 DEF OSleeps, OxygensCounted, OInside, LockHeld
  <2>4. Cardinality(OAwake)' \in Nat
    <3>1. OAwake' \subseteq Oxygens
      BY DEF OAwake, OWoken, OMade
    <3> QED
      BY <3>1, FS_Subset, FS_CardinalityType
  <2>5. numH' < 2 /\ numH' \in Nat
    BY <1>3 DEF OSleeps, TypeOK
  <2> QED
    BY <2>1, <2>3, <2>4, <2>5 DEF WakeupsCoverHydrogens
<1> QED
  BY <1>1, <1>2, <1>3 DEF OLoop

\* The oxygen that made a molecule takes its two hydrogens and leaves: it no
\* longer answers for the two that are no longer free.
LEMMA SafeWakeHydrogens ==
    ASSUME SafeInv, NEW o \in Oxygens, WakeHydrogens(o) PROVE SafeInv'
<1> USE AtomsAssumption DEF SafeInv
<1>1. o \in OMade /\ o \in OInside /\ o \in OAwake /\ o \notin OSleep
  BY DEF WakeHydrogens, OMade, OInside, OAwake, TypeOK
<1>2. numH >= 2 /\ OMade = {o}
  BY <1>1 DEF LockHeld
<1>3. /\ Cardinality(OInside \ {o}) = numO - 1
      /\ Cardinality(OAwake \ {o}) = Cardinality(OAwake) - 1
      /\ IsFiniteSet(OInside \ {o}) /\ IsFiniteSet(OAwake \ {o})
  BY <1>1, InsideFinite, CardPlusMinus DEF OxygensCounted, OInside
<1>4. numO - 1 \in Nat /\ Cardinality(OAwake \ {o}) \in Nat
  BY <1>3, FS_CardinalityType
<1>5. HSleep' \subseteq HSleep
  BY SignalTakesOne DEF WakeHydrogens
<1>6. TypeOK'
  BY <1>2, <1>4, <1>5 DEF WakeHydrogens, TypeOK, Goto, Atoms, Places, counters
<1>7. OInside' = OInside \ {o} /\ OAwake' = OAwake \ {o} /\ OMade' = {}
  BY <1>2 DEF WakeHydrogens, Goto, OInside, OAwake, OWoken, OMade, TypeOK, Atoms
<1>8. OxygensCounted' /\ LockHeld'
  BY <1>3, <1>7 DEF WakeHydrogens, OxygensCounted, OInside, LockHeld
<1>9. WakeupsCoverHydrogens'
  BY <1>3, <1>4, <1>7, InsideFinite DEF WakeHydrogens, WakeupsCoverHydrogens, TypeOK
<1> QED
  BY <1>6, <1>8, <1>9

\* oxygen_thread counting its return touches nothing inside the monitor.
LEMMA SafeOCounted ==
    ASSUME SafeInv, NEW o \in Oxygens, OCounted(o) PROVE SafeInv'
<1> USE AtomsAssumption DEF SafeInv
<1>1. TypeOK'
  BY DEF OCounted, TypeOK, Atoms, Places, Goto, monitor
<1>2. OSleep' = OSleep /\ numH' = numH /\ numO' = numO
  BY DEF OCounted, monitor
<1>3. OAwake' = OAwake /\ OMade' = OMade /\ OInside' = OInside
  BY <1>2 DEF OAwake, OWoken, OMade, OInside, OCounted, Goto, TypeOK, Atoms
<1> QED
  BY <1>1, <1>2, <1>3 DEF LockHeld, OxygensCounted, OInside, WakeupsCoverHydrogens

\* A spurious wakeup can only add to the oxygens that are awake.
LEMMA SafeSpurious ==
    ASSUME SafeInv, SpuriousWakeup PROVE SafeInv'
<1> USE DEF SafeInv
<1>1. TypeOK'
  BY DEF SpuriousWakeup, AfterSpurious, TypeOK, counters
<1>2. OxygensCounted' /\ LockHeld'
  BY DEF SpuriousWakeup, OxygensCounted, LockHeld, OMade
<1>3. OAwake \subseteq OAwake' /\ OSleep' \subseteq OSleep /\ numH' = numH
  BY DEF SpuriousWakeup, AfterSpurious, OAwake, OMade, OWoken
<1>4. IsFiniteSet(OAwake')
  <2>1. OAwake' \subseteq Oxygens
    BY DEF OAwake, OMade, OWoken
  <2> QED
    BY <2>1, FS_Subset, AtomsAssumption
<1>5. /\ Cardinality(OAwake) <= Cardinality(OAwake')
      /\ Cardinality(OAwake) \in Nat /\ Cardinality(OAwake') \in Nat
  BY <1>3, <1>4, FS_Subset, FS_CardinalityType
<1> QED
  BY <1>1, <1>2, <1>3, <1>5 DEF WakeupsCoverHydrogens, TypeOK

\* Every step of a thread, a wakeup that nobody sent included, keeps the
\* hydrogens of reaction.c covered by oxygens that are awake.
LEMMA SafeStep == SafeInv /\ [Next \/ SpuriousWakeup]_vars => SafeInv'
<1> SUFFICES ASSUME SafeInv, [Next \/ SpuriousWakeup]_vars PROVE SafeInv'
  OBVIOUS
<1>1. CASE UNCHANGED vars
  BY <1>1 DEF vars, SafeInv, TypeOK, LockHeld, OxygensCounted, WakeupsCoverHydrogens,
              OAwake, OMade, OWoken
<1>2. CASE Next
  BY <1>2, SafeHArrives, SafeHLeaves, SafeOLoop, SafeWakeHydrogens, SafeOCounted
     DEF Next, HStep, OStep
<1> QED
  BY <1>1, <1>2, SafeSpurious

\* The monitor and the runner's counters keep their types, numH and numO never
\* go below zero, and no wakeup of an oxygen is lost; spurious wakeups do not
\* change that, because reaction_o waits in a loop.
THEOREM SafeAlways == SpuriousSpec => []SafeInv
BY SafeInit, SafeStep, PTL DEF SpuriousSpec

\* The counters numH and numO of struct reaction stay natural numbers and only
\* threads inside cond_wait are blocked.
THEOREM TypeCorrect == SpuriousSpec => []TypeOK
BY SafeAlways, PTL DEF SafeInv

\* While an oxygen sleeps in reaction_o, two hydrogens that are free have an
\* oxygen awake that comes for them.
THEOREM WakeupNeverLost == SpuriousSpec => []NoLostWakeup
<1>1. SafeInv => NoLostWakeup
  <2> SUFFICES ASSUME SafeInv, OSleep # {}, numH >= 2, OAwake = {} PROVE FALSE
    BY DEF NoLostWakeup
  <2>1. Cardinality(OAwake) = 0
    BY FS_EmptySet
  <2> QED
    BY <2>1 DEF SafeInv, WakeupsCoverHydrogens, TypeOK
<1> QED
  BY <1>1, SafeAlways, PTL

-----------------------------------------------------------------------------
\* From here on cond_wait returns only when signalled: the counts of hydrogens
\* depend on it, since reaction_h does not wait in a loop.
CountInv == HydrogensCounted /\ TwoHydrogensPerOxygen

\* An execution in which cond_wait returns after signals only is one of those
\* in which it may return without.
LEMMA SpecIsSpurious == Spec => SpuriousSpec
<1>1. [Next]_vars => [Next \/ SpuriousWakeup]_vars
  OBVIOUS
<1> QED
  BY <1>1, PTL DEF Spec, SpuriousSpec

\* The threads that sleep or are bonded are finitely many, and no hydrogen is
\* both asleep in cond_wait and bonded.
LEMMA BondedFinite ==
    ASSUME TypeOK
    PROVE  /\ IsFiniteSet(HSleep) /\ IsFiniteSet(HBonded) /\ IsFiniteSet(OBonded)
           /\ IsFiniteSet(OMade)
           /\ HSleep \cap HBonded = {}
<1>1. /\ HSleep \subseteq Hydrogens /\ HBonded \subseteq Hydrogens
      /\ OBonded \subseteq Oxygens /\ OMade \subseteq Oxygens
  BY DEF TypeOK, HBonded, HWoken, OBonded, OMade
<1>2. HSleep \cap HBonded = {}
  BY DEF TypeOK, HBonded, HWoken, Past
<1> QED
  BY <1>1, <1>2, FS_Subset, AtomsAssumption

\* Before the first call of reaction_h no hydrogen is counted and none bonded.
LEMMA CountInit == Init => CountInv
<1> SUFFICES ASSUME Init PROVE CountInv
  OBVIOUS
<1>1. HSleep = {} /\ HBonded = {} /\ OBonded = {} /\ OMade = {}
  BY DEF Init, HBonded, HWoken, OBonded, OMade, Past, Atoms
<1> QED
  BY <1>1, FS_EmptySet DEF Init, CountInv, HydrogensCounted, TwoHydrogensPerOxygen

\* make_water adds a molecule and the oxygen that made it, whose hydrogens
\* are still asleep.
LEMMA CountMakeWater ==
    ASSUME TypeOK, CountInv, NEW o \in Oxygens, NEW n, o \notin OBonded,
           OMade = {}, MakeWater(o, n)
    PROVE  CountInv'
<1> USE AtomsAssumption
<1>1. HSleep' = HSleep /\ numH' = numH /\ HBonded' = HBonded
  BY DEF MakeWater, Goto, HBonded, HWoken, TypeOK, Atoms
<1>2. OMade' = {o} /\ OBonded' = OBonded \cup {o}
  BY DEF MakeWater, Goto, OBonded, OMade, Past, TypeOK, Atoms
<1>3. Cardinality(OMade) = 0 /\ Cardinality(OMade') = 1
  BY <1>2, FS_EmptySet, FS_Singleton
<1>4. Cardinality(OBonded') = Cardinality(OBonded) + 1
  BY <1>2, BondedFinite, CardPlusMinus
<1>5. water_molecules' = water_molecules + 1 /\ water_molecules \in Nat
  BY DEF MakeWater, TypeOK
<1>6. Cardinality(HBonded) \in Nat
  BY BondedFinite, FS_CardinalityType
<1> QED
  BY <1>1, <1>3, <1>4, <1>5, <1>6 DEF CountInv, HydrogensCounted, TwoHydrogensPerOxygen

\* reaction_o's two signals take two sleeping hydrogens, so that the hydrogens
\* bonded are again twice the oxygens bonded.
LEMMA CountWakeHydrogens ==
    ASSUME TypeOK, CountInv, NEW o \in Oxygens, OMade = {o}, numH >= 2, WakeHydrogens(o)
    PROVE  CountInv'
<1> USE AtomsAssumption
<1>1. PICK V \in AfterSignal(HSleep) : HSleep' \in AfterSignal(V)
  BY DEF WakeHydrogens
<1>2. IsFiniteSet(HSleep) /\ Cardinality(HSleep) = numH /\ numH \in Nat
  BY BondedFinite DEF CountInv, HydrogensCounted, TypeOK
<1>3. PICK g, h \in HSleep : g # h /\ HSleep' = (HSleep \ {g}) \ {h}
  BY <1>1, <1>2, TwoSignalsTakeTwo
<1>4. \A k \in Hydrogens : pc'[k] = pc[k]
  BY DEF WakeHydrogens, Goto, TypeOK, Atoms
<1>5. HBonded' = (HBonded \cup {g}) \cup {h}
  BY <1>3, <1>4 DEF HBonded, HWoken, TypeOK
<1>6. g \notin HBonded /\ h \notin HBonded
  BY BondedFinite, <1>3
<1>7. OMade' = {} /\ OBonded' = OBonded
  BY DEF WakeHydrogens, Goto, OMade, OBonded, Past, TypeOK, Atoms
<1>8. Cardinality(HSleep') = numH - 2
  BY <1>2, <1>3, CardTwo
<1>9. Cardinality(HBonded') = Cardinality(HBonded) + 2 /\ Cardinality(HBonded) \in Nat
  BY <1>3, <1>5, <1>6, BondedFinite, CardTwo, FS_CardinalityType
<1>10. Cardinality(OMade) = 1 /\ Cardinality(OMade') = 0
  BY <1>7, FS_EmptySet, FS_Singleton
<1>11. water_molecules' = water_molecules /\ numH' = numH - 2 /\ water_molecules \in Nat
  BY DEF WakeHydrogens, TypeOK
<1> QED
  BY <1>7, <1>8, <1>9, <1>10, <1>11 DEF CountInv, HydrogensCounted, TwoHydrogensPerOxygen

\* Every step of a thread keeps numH the number of free hydrogens and two
\* hydrogens per oxygen bonded.
LEMMA CountStep == SafeInv /\ CountInv /\ [Next]_vars => CountInv'
<1> SUFFICES ASSUME SafeInv, CountInv, [Next]_vars PROVE CountInv'
  OBVIOUS
<1>0. TypeOK
  BY DEF SafeInv
<1> USE AtomsAssumption
<1>1. ASSUME NEW h \in Hydrogens, HArrives(h) PROVE CountInv'
  <2>1. HSleep' = HSleep \cup {h} /\ h \notin HSleep
    BY <1>0, <1>1 DEF HArrives, TypeOK
  <2>2. Cardinality(HSleep') = Cardinality(HSleep) + 1
    BY <1>0, <2>1, BondedFinite, CardPlusMinus
  <2>3. HBonded' = HBonded /\ OBonded' = OBonded /\ OMade' = OMade
    BY <1>0, <1>1, <2>1
       DEF HBonded, HWoken, OBonded, OMade, Past, HArrives, Goto, TypeOK, Atoms
  <2> QED
    BY <1>1, <2>2, <2>3
       DEF CountInv, HydrogensCounted, TwoHydrogensPerOxygen, HArrives
<1>2. ASSUME NEW h \in Hydrogens, HReturns(h) \/ HCounted(h) PROVE CountInv'
  <2>1. HBonded' = HBonded /\ OBonded' = OBonded /\ OMade' = OMade
    BY <1>0, <1>2
       DEF HBonded, HWoken, OBonded, OMade, Past, HReturns, HCounted, Goto, monitor, TypeOK, Atoms
  <2> QED
    BY <1>2, <2>1
       DEF CountInv, HydrogensCounted, TwoHydrogensPerOxygen, HReturns, HCounted, monitor
<1>3. ASSUME NEW o \in Oxygens, NEW n, o \notin OBonded, OMade = {}, OLoop(o, n)
      PROVE  CountInv'
  <2>1. CASE numH < 2 /\ OSleeps(o, n)
    <3>1. HBonded' = HBonded /\ OBonded' = OBonded /\ OMade' = OMade
      BY <1>0, <1>3, <2>1
         DEF HBonded, HWoken, OBonded, OMade, Past, OSleeps, Goto, TypeOK, Atoms
    <3> QED
      BY <2>1, <3>1 DEF CountInv, HydrogensCounted, TwoHydrogensPerOxygen, OSleeps
  <2> QED
    BY <1>0, <1>3, <2>1, CountMakeWater DEF OLoop
<1>4. ASSUME NEW o \in Oxygens, OArrives(o) \/ OWakes(o) PROVE CountInv'
  <2>1. o \notin OBonded /\ OMade = {}
    BY <1>4 DEF OBonded, OMade, Past, OArrives, OWakes, OWoken, LockFree
  <2> QED
    BY <1>3, <1>4, <2>1 DEF OArrives, OWakes
<1>5. ASSUME NEW o \in Oxygens, OCounted(o) PROVE CountInv'
  <2>1. HBonded' = HBonded /\ OBonded' = OBonded /\ OMade' = OMade
    BY <1>0, <1>5
       DEF HBonded, HWoken, OBonded, OMade, Past, OCounted, Goto, monitor, TypeOK, Atoms
  <2> QED
    BY <1>5, <2>1 DEF CountInv, HydrogensCounted, TwoHydrogensPerOxygen, OCounted, monitor
<1>6. CASE UNCHANGED vars
  BY <1>6 DEF vars, CountInv, HydrogensCounted, TwoHydrogensPerOxygen, HBonded, HWoken,
              OBonded, OMade
<1>7. ASSUME NEW o \in Oxygens, WakeHydrogens(o) PROVE CountInv'
  <2>1. OMade = {o} /\ numH >= 2
    BY <1>7 DEF SafeInv, LockHeld, OMade, WakeHydrogens
  <2> QED
    BY <1>0, <1>7, <2>1, CountWakeHydrogens
<1> QED
  BY <1>1, <1>2, <1>4, <1>5, <1>6, <1>7 DEF Next, HStep, OStep

\* In reaction.c without spurious wakeups both invariants hold for ever.
THEOREM CountsAlways == Spec => [](SafeInv /\ CountInv)
<1>1. Spec => []SafeInv
  BY SpecIsSpurious, SafeAlways, PTL
<1> QED
  BY <1>1, CountInit, CountStep, PTL DEF Spec

\* numH and numO are the numbers of threads that sleep or are inside.
THEOREM CountersAgree == Spec => []CountsMatchThreads
BY CountsAlways, PTL DEF SafeInv, CountInv, CountsMatchThreads

\* Two hydrogens and one oxygen get out of the monitor per molecule.
THEOREM Stoichiometry == Spec => []TwoHydrogensPerOxygen
BY CountsAlways, PTL DEF CountInv

\* When no thread is on its way through the monitor, nothing that could react
\* is left in it.
THEOREM AllThatCanReactDid == Spec => []NoMissedReaction
<1>1. SafeInv /\ CountInv => NoMissedReaction
  <2> SUFFICES ASSUME SafeInv, CountInv, HWoken = {}, OWoken = {}, OMade = {}
               PROVE  water_molecules =
                        Lesser(Cardinality({h \in Hydrogens : pc[h] # "start"}) \div 2,
                               Cardinality({o \in Oxygens : pc[o] # "start"}))
    BY DEF NoMissedReaction, Quiescent
  <2> DEFINE HIn == {h \in Hydrogens : pc[h] # "start"}
             OIn == {o \in Oxygens : pc[o] # "start"}
  <2>0. TypeOK
    BY DEF SafeInv
  <2>1. HIn = HSleep \cup HBonded
    BY <2>0 DEF TypeOK, Atoms, Places, HBonded, HWoken, Past
  <2>2. OIn = OInside \cup OBonded /\ OInside \cap OBonded = {}
    BY <2>0 DEF TypeOK, Atoms, Places, OInside, OBonded, OMade, Past
  <2>3. Cardinality(HIn) = numH + 2 * water_molecules
    <3>1. Cardinality(HIn) = Cardinality(HSleep) + Cardinality(HBonded)
      BY <2>0, <2>1, BondedFinite, CardDisjoint
    <3> QED
      BY <2>0, <3>1, FS_EmptySet, BondedFinite, FS_CardinalityType
         DEF CountInv, HydrogensCounted, TwoHydrogensPerOxygen
  <2>4. Cardinality(OIn) = numO + water_molecules
    <3>1. Cardinality(OIn) = Cardinality(OInside) + Cardinality(OBonded)
      BY <2>0, <2>2, BondedFinite, InsideFinite, CardDisjoint
    <3> QED
      BY <3>1 DEF CountInv, TwoHydrogensPerOxygen, SafeInv, OxygensCounted, OInside
  <2>5. numH \in Nat /\ numO \in Nat /\ water_molecules \in Nat
    BY <2>0 DEF TypeOK
  <2>6. CASE OSleep = {}
    <3>1. numO = 0
      <4>1. OInside = {}
        BY <2>0, <2>6, InsideFinite DEF OAwake
      <4> QED
        BY <4>1, FS_EmptySet DEF SafeInv, OxygensCounted, OInside
    <3>2. Cardinality(HIn) \div 2 >= water_molecules /\ Cardinality(HIn) \div 2 \in Nat
      BY <2>3, <2>5
    <3> QED
      BY <2>4, <2>5, <3>1, <3>2 DEF Lesser
  <2>7. CASE OSleep # {}
    <3>1. numH <= 1
      BY <2>7, FS_EmptySet, <2>5 DEF SafeInv, WakeupsCoverHydrogens, OAwake
    <3>2. Cardinality(HIn) \div 2 = water_molecules
      BY <2>3, <2>5, <3>1
    <3>3. numO >= 1
      <4>1. OInside # {}
        BY <2>0, <2>7 DEF TypeOK, OInside
      <4> QED
        BY <2>0, <2>5, <4>1, InsideFinite, FS_EmptySet DEF SafeInv, OxygensCounted, OInside
    <3> QED
      BY <2>4, <2>5, <3>2, <3>3 DEF Lesser
  <2> QED
    BY <2>6, <2>7
<1> QED
  BY <1>1, CountsAlways, PTL

-----------------------------------------------------------------------------
\* The monitor implements Molecules, step by step.

\* What the variables of Molecules stand for.
Free     == HSleep \cup OInside
Left     == {t \in Atoms : pc[t] \in Past}

Water    == water_molecules - Cardinality(OMade)

\* An oxygen whose signals took two hydrogens is a Combine with them.
LEMMA WakeHydrogensCombines ==
    ASSUME TypeOK, CountInv, NEW o \in Oxygens, OMade = {o}, numH >= 2, WakeHydrogens(o)
    PROVE  M!Next
<1> USE AtomsAssumption
<1>1. PICK V \in AfterSignal(HSleep) : HSleep' \in AfterSignal(V)
  BY DEF WakeHydrogens
<1>2. IsFiniteSet(HSleep) /\ Cardinality(HSleep) = numH /\ numH \in Nat
  BY BondedFinite DEF CountInv, HydrogensCounted, TypeOK
<1>3. PICK g, h \in HSleep : g # h /\ HSleep' = (HSleep \ {g}) \ {h}
  BY <1>1, <1>2, TwoSignalsTakeTwo
<1>4. g \in Hydrogens /\ h \in Hydrogens /\ o \notin Hydrogens
  BY <1>3 DEF TypeOK
<1>5. /\ pc[o] = "made" /\ pc'[o] = "returned"
      /\ \A t \in Atoms : t # o => pc'[t] = pc[t]
  BY DEF WakeHydrogens, Goto, TypeOK, Atoms
<1>6. OMade' = {}
  BY <1>5 DEF OMade, Atoms
<1>7. HWoken' = HWoken \cup {g, h}
  BY <1>3, <1>4, <1>5 DEF HWoken, TypeOK, Atoms
<1>8. Left' = Left \cup {o}
  BY <1>5 DEF Left, Past, Atoms
<1>9. OInside' = OInside \ {o}
  BY <1>5 DEF OInside, Atoms
<1>10. Free' = Free \ {g, h, o}
  BY <1>3, <1>4, <1>9 DEF Free, OInside, TypeOK
<1>11. o \notin HWoken \cup Left
  BY <1>4, <1>5 DEF HWoken, Left, Past
<1>12. Water' = Water + 1
  <2>1. Cardinality(OMade) = 1 /\ Cardinality(OMade') = 0
    BY <1>6, FS_EmptySet, FS_Singleton
  <2> QED
    BY <2>1 DEF Water, WakeHydrogens, TypeOK
<1>13. {g, h} \subseteq Free
  BY <1>3 DEF Free
<1>14. M!Combine(o, g, h)
  BY <1>3, <1>7, <1>8, <1>10, <1>11, <1>12, <1>13 DEF M!Combine, Free, OInside, Left, Water
<1> QED
  BY <1>4, <1>14 DEF M!Next, M!React

\* An oxygen inside the monitor is free, whether it waits or has made its
\* molecule: getting there is its arrival, or invisible.
LEMMA InsideIsFree ==
    ASSUME TypeOK, NEW o \in Oxygens, NEW place \in {"cond", "made"},
           pc[o] \in {"start", "cond"}, Goto(o, place), HSleep' = HSleep, Water' = Water
    PROVE  M!Next \/ UNCHANGED M!vars
<1> USE AtomsAssumption
<1>1. /\ pc'[o] = place
      /\ \A t \in Atoms : t # o => pc'[t] = pc[t]
  BY DEF Goto, TypeOK, Atoms
<1>2. Free' = Free \cup {o} /\ HWoken' = HWoken /\ Left' = Left
  <2>1. OInside' = OInside \cup {o}
    BY <1>1 DEF OInside, Atoms
  <2>2. HWoken' = HWoken
    BY <1>1 DEF HWoken, Atoms
  <2>3. Left' = Left
    BY <1>1 DEF Left, Past
  <2> QED
    BY <2>1, <2>2, <2>3 DEF Free
<1>3. CASE pc[o] = "start"
  <2>1. o \notin Free \cup HWoken \cup Left
    BY <1>3 DEF Free, OInside, HWoken, Left, Past, TypeOK
  <2>2. M!Arrive(o)
    BY <1>2, <2>1 DEF M!Arrive, Free, OInside, Left, Water
  <2> QED
    BY <2>2 DEF M!Next, M!Atoms
<1>4. CASE pc[o] = "cond"
  <2>1. Free' = Free
    BY <1>2, <1>4 DEF Free, OInside
  <2> QED
    BY <1>2, <2>1 DEF M!vars, Free, OInside, Left, Water
<1> QED
  BY <1>3, <1>4

\* Every step of reaction.c is a step of Molecules or leaves its state alone.
LEMMA StepRefines == SafeInv /\ CountInv /\ [Next]_vars => [M!Next]_(M!vars)
<1> SUFFICES ASSUME SafeInv, CountInv, [Next]_vars PROVE M!Next \/ UNCHANGED M!vars
  OBVIOUS
<1>0. TypeOK
  BY DEF SafeInv
<1> USE AtomsAssumption
<1>1. ASSUME NEW h \in Hydrogens, HArrives(h) PROVE M!Next
  <2>1. /\ pc'[h] = "cond"
        /\ \A t \in Atoms : t # h => pc'[t] = pc[t]
    BY <1>0, <1>1 DEF HArrives, Goto, TypeOK, Atoms
  <2>2. h \notin Free \cup HWoken \cup Left
    BY <1>0, <1>1 DEF HArrives, Free, OInside, HWoken, Left, Past, TypeOK
  <2>3. Free' = Free \cup {h} /\ HWoken' = HWoken /\ Left' = Left
    <3>1. HSleep' = HSleep \cup {h} /\ h \notin Oxygens
      BY <1>1 DEF HArrives
    <3>2. OInside' = OInside
      BY <2>1, <3>1 DEF OInside, Atoms
    <3>3. HWoken' = HWoken
      BY <1>1, <2>1, <3>1 DEF HWoken, HArrives, Atoms
    <3>4. Left' = Left
      BY <1>1, <2>1 DEF Left, Past, HArrives
    <3> QED
      BY <3>1, <3>2, <3>3, <3>4 DEF Free
  <2>4. M!Arrive(h)
    <3>1. OMade' = OMade
      BY <1>1, <2>1 DEF OMade, Atoms
    <3> QED
      BY <1>1, <2>2, <2>3, <3>1 DEF M!Arrive, HArrives, Free, OInside, Left
  <2> QED
    BY <2>4 DEF M!Next, M!Atoms
<1>2. ASSUME NEW h \in Hydrogens, HReturns(h) PROVE M!Next
  <2>1. /\ pc'[h] = "returned"
        /\ \A t \in Atoms : t # h => pc'[t] = pc[t]
    BY <1>0, <1>2 DEF HReturns, HWoken, Goto, TypeOK, Atoms
  <2>2. Free' = Free /\ HWoken' = HWoken \ {h} /\ Left' = Left \cup {h}
    <3>1. HSleep' = HSleep /\ h \notin Oxygens
      BY <1>2 DEF HReturns, monitor
    <3>2. OInside' = OInside
      BY <2>1, <3>1 DEF OInside, Atoms
    <3>3. HWoken' = HWoken \ {h}
      BY <1>2, <2>1, <3>1 DEF HWoken, HReturns, Atoms
    <3>4. Left' = Left \cup {h}
      BY <1>2, <2>1 DEF Left, Past, HReturns, Atoms
    <3> QED
      BY <3>1, <3>2, <3>3, <3>4 DEF Free
  <2>3. M!Leave(h)
    <3>1. OMade' = OMade
      BY <1>2, <2>1 DEF OMade, Atoms
    <3> QED
      BY <1>2, <2>2, <3>1 DEF M!Leave, HReturns, Free, OInside, Left
  <2> QED
    BY <2>3 DEF M!Next
<1>3. ASSUME NEW o \in Oxygens, NEW n, pc[o] \in {"start", "cond"}, OMade = {}, OLoop(o, n)
      PROVE  M!Next \/ UNCHANGED M!vars
  <2>1. CASE OSleeps(o, n)
    <3>1. OMade' = {}
      BY <1>0, <1>3, <2>1 DEF OMade, OSleeps, Goto, TypeOK, Atoms
    <3>2. Water' = Water /\ HSleep' = HSleep /\ Goto(o, "cond")
      BY <1>3, <2>1, <3>1 DEF Water, OSleeps
    <3> QED
      BY <1>0, <1>3, <3>2, InsideIsFree
  <2>2. CASE MakeWater(o, n)
    <3>1. OMade' = {o}
      BY <1>0, <1>3, <2>2 DEF OMade, MakeWater, Goto, TypeOK, Atoms
    <3>2. Cardinality(OMade) = 0 /\ Cardinality(OMade') = 1
      BY <1>3, <3>1, FS_EmptySet, FS_Singleton
    <3>3. Water' = Water /\ HSleep' = HSleep /\ Goto(o, "made")
      BY <1>0, <2>2, <3>2 DEF Water, MakeWater, TypeOK
    <3> QED
      BY <1>0, <1>3, <3>3, InsideIsFree
  <2> QED
    BY <1>3, <2>1, <2>2 DEF OLoop
<1>4. ASSUME NEW o \in Oxygens, OArrives(o) \/ OWakes(o)
      PROVE  M!Next \/ UNCHANGED M!vars
  <2>1. pc[o] \in {"start", "cond"} /\ OMade = {}
    BY <1>4 DEF OArrives, OWakes, OWoken, LockFree
  <2> QED
    BY <1>3, <1>4, <2>1 DEF OArrives, OWakes
<1>5. ASSUME NEW t \in Atoms, pc[t] = "returned", Goto(t, "counted"),
             UNCHANGED <<HSleep, water_molecules>>
      PROVE  UNCHANGED M!vars
  <2>1. Free' = Free /\ HWoken' = HWoken /\ Left' = Left /\ OMade' = OMade
    BY <1>0, <1>5 DEF Free, OInside, OMade, HWoken, Left, Past, Goto, TypeOK, Atoms
  <2> QED
    BY <1>5, <2>1 DEF M!vars, Free, OInside, Left
<1>6. CASE UNCHANGED vars
  BY <1>6 DEF vars, M!vars, HWoken, OMade
<1>7. ASSUME NEW o \in Oxygens, WakeHydrogens(o) PROVE M!Next
  <2>1. OMade = {o} /\ numH >= 2
    BY <1>7 DEF SafeInv, LockHeld, OMade, WakeHydrogens
  <2> QED
    BY <1>0, <1>7, <2>1, WakeHydrogensCombines
<1> QED
  BY <1>1, <1>2, <1>4, <1>5, <1>6, <1>7
     DEF Next, HStep, OStep, HCounted, OCounted, monitor, Atoms

\* reaction.c implements Molecules: every step of a thread is an arrival, a
\* combination of two hydrogens and an oxygen, a departure, or invisible.
THEOREM ReactionImplementsMolecules == Spec => StepsAreMolecules
<1>1. Init => M!Init
  <2>1. Init => OMade = {}
    BY DEF Init, OMade, Atoms
  <2> QED
    BY <2>1, FS_EmptySet DEF Init, M!Init, HWoken, Past, Atoms
<1> QED
  BY <1>1, CountsAlways, StepRefines, PTL DEF Spec, StepsAreMolecules, M!Safety

-----------------------------------------------------------------------------
\* reaction-runner.c: what main and its threads keep between them.

\* A step of the runner is a step of one of its threads inside the monitor, or
\* one of main, which does not touch the monitor.
LEMMA RunnerStepIsStep == [RNext]_allvars => [Next]_vars
<1>1. ASSUME MainStep PROVE UNCHANGED vars
  BY <1>1, Zenon DEF MainStep, CreateThread, CreatedAll, SpinEnds, CompareMolecules,
                     CompareHydrogens, CompareOxygens
<1>2. ASSUME NEW t \in Atoms, Thread(t) PROVE Next
  BY <1>2, Zenon DEF Thread, Next
<1>3. UNCHANGED allvars => UNCHANGED vars
  BY DEF allvars
<1> QED
  BY <1>1, <1>2, <1>3, Zenon DEF RNext

\* The monitor under the runner is the monitor of reaction.c.
LEMMA RunnerUsesReaction == RSpec => Spec
<1>1. RInit => Init
  BY DEF RInit
<1> QED
  BY <1>1, RunnerStepIsStep, PTL DEF RSpec, Spec

HCounts == {h \in Hydrogens : pc[h] = "counted"}
OCounts == {o \in Oxygens : pc[o] = "counted"}

\* Only a thread that main created is in the monitor or past it.
Started == created \subseteq Atoms /\ \A t \in Atoms : pc[t] # "start" => t \in created
\* The runner's two call counters count the threads that are finished.
CallsCounted ==
    /\ hydrogen_atoms_bonded = Cardinality(HCounts)
    /\ oxygen_atoms_bonded = Cardinality(OCounts)
\* What the spin loop waited for is still true while main sleeps and compares.
Waited == {"sleeping", "molecules compared", "hydrogens compared"}
Met    == main \in Waited => water_molecules = expected_molecules

RunnerInv == Started /\ CallsCounted /\ Met

\* An oxygen that has made a molecule has its two hydrogens.
LEMMA MadeIsCovered ==
    ASSUME SafeInv
    PROVE  2 * Cardinality(OMade) <= numH /\ Cardinality(OMade) \in Nat
<1>1. CASE OMade = {}
  BY <1>1, FS_EmptySet DEF SafeInv, TypeOK
<1>2. CASE OMade # {}
  <2>1. PICK o : OMade = {o}
    BY <1>2 DEF SafeInv, LockHeld
  <2>2. Cardinality(OMade) = 1
    BY <2>1, FS_Singleton
  <2> QED
    BY <1>2, <2>2 DEF SafeInv, LockHeld, TypeOK
<1> QED
  BY <1>1, <1>2

\* The monitor never makes more molecules than the created atoms allow, so
\* that main's test for equality cannot be overtaken.
LEMMA AtMostExpected ==
    SafeInv /\ CountInv /\ Started => water_molecules <= expected_molecules
<1> SUFFICES ASSUME SafeInv, CountInv, Started PROVE water_molecules <= expected_molecules
  OBVIOUS
<1> USE AtomsAssumption
<1> DEFINE CH == created \cap Hydrogens
           CO == created \cap Oxygens
<1>0. TypeOK
  BY DEF SafeInv
<1>1. HSleep \cup HBonded \subseteq CH /\ OBonded \subseteq CO
  BY <1>0 DEF HBonded, HWoken, OBonded, OMade, Past, Started, Atoms, TypeOK
<1>2. IsFiniteSet(CH) /\ IsFiniteSet(CO)
  BY FS_Subset
<1> HIDE DEF CH, CO
<1>3. /\ Cardinality(CH) \in Nat /\ Cardinality(HSleep \cup HBonded) <= Cardinality(CH)
      /\ Cardinality(CO) \in Nat /\ Cardinality(OBonded) <= Cardinality(CO)
  BY <1>1, <1>2, FS_Subset, FS_CardinalityType
<1>4. water_molecules \in Nat
  BY <1>0 DEF TypeOK
<1>5. 2 * water_molecules <= Cardinality(CH) /\ water_molecules <= Cardinality(CO)
  <2>1. Cardinality(HSleep \cup HBonded) = numH + Cardinality(HBonded)
    BY <1>0, BondedFinite, CardDisjoint DEF CountInv, HydrogensCounted
  <2>2. 2 * water_molecules <= numH + Cardinality(HBonded)
    <3>1. Cardinality(HBonded) \in Nat /\ numH \in Nat
      BY <1>0, BondedFinite, FS_CardinalityType DEF TypeOK
    <3> QED
      BY <1>4, <3>1, MadeIsCovered DEF CountInv, TwoHydrogensPerOxygen
  <2> QED
    BY <1>0, <1>3, <1>4, <2>1, <2>2, BondedFinite, FS_CardinalityType
       DEF CountInv, TwoHydrogensPerOxygen, TypeOK
<1>6. water_molecules <= Cardinality(CH) \div 2
  BY <1>3, <1>4, <1>5
<1>7. water_molecules <= Lesser(Cardinality(CH) \div 2, Cardinality(CO))
  BY <1>5, <1>6 DEF Lesser
<1> QED
  BY <1>7 DEF expected_molecules, hydrogen_atoms, oxygen_atoms, CH, CO

\* The same after a step.
LEMMA AtMostExpectedNext ==
    (SafeInv /\ CountInv /\ Started => water_molecules <= expected_molecules)'
BY AtMostExpected, PTL

\* When main starts no thread exists and no call has returned.
LEMMA RunnerInit == RInit => RunnerInv
<1> SUFFICES ASSUME RInit PROVE RunnerInv
  OBVIOUS
<1>1. HCounts = {} /\ OCounts = {}
  BY DEF RInit, Init, HCounts, OCounts, Atoms
<1>2. Met
  BY Zenon DEF RInit, Met, Waited
<1> QED
  BY <1>1, <1>2, FS_EmptySet DEF RInit, Init, RunnerInv, Started, CallsCounted

\* A thread moves only if main created it, and counts its call once.
LEMMA ThreadCounts ==
    ASSUME SafeInv, Started, CallsCounted, NEW t \in Atoms, Thread(t)
    PROVE  Started' /\ CallsCounted'
<1> USE AtomsAssumption
<1>0. TypeOK
  BY DEF SafeInv
<1>1. t \in created /\ created' = created
  BY DEF Thread
<1>2. \E place \in Places \ {"start"} : Goto(t, place)
  BY <1>0, Zenon DEF Thread, HStep, OStep, HArrives, HReturns, HCounted, OArrives, OWakes,
     OCounted, OLoop, MakeWater, WakeHydrogens, OSleeps, Places
<1>3. Started'
  BY <1>0, <1>1, <1>2 DEF Started, Goto, TypeOK
<1>4. IsFiniteSet(HCounts) /\ IsFiniteSet(OCounts)
  BY FS_Subset DEF HCounts, OCounts
<1>5. CASE t \in Hydrogens /\ HCounted(t)
  <2>1. HCounts' = HCounts \cup {t} /\ t \notin HCounts /\ OCounts' = OCounts
    BY <1>0, <1>5 DEF HCounts, OCounts, HCounted, Goto, TypeOK, Atoms
  <2>2. Cardinality(HCounts') = Cardinality(HCounts) + 1
    BY <1>4, <2>1, CardPlusMinus
  <2> QED
    BY <1>3, <1>5, <2>1, <2>2 DEF CallsCounted, HCounted
<1>6. CASE t \in Oxygens /\ OCounted(t)
  <2>1. OCounts' = OCounts \cup {t} /\ t \notin OCounts /\ HCounts' = HCounts
    BY <1>0, <1>6 DEF HCounts, OCounts, OCounted, Goto, TypeOK, Atoms
  <2>2. Cardinality(OCounts') = Cardinality(OCounts) + 1
    BY <1>4, <2>1, CardPlusMinus
  <2> QED
    BY <1>3, <1>6, <2>1, <2>2 DEF CallsCounted, OCounted
<1>7. CASE t \in Hydrogens /\ (HArrives(t) \/ HReturns(t))
  <2>1. OCounts' = OCounts /\ HCounts' = HCounts
    BY <1>0, <1>7 DEF HCounts, OCounts, HArrives, HReturns, HWoken, Goto, TypeOK, Atoms
  <2> QED
    BY <1>3, <1>7, <2>1 DEF CallsCounted, HArrives, HReturns, counters
<1>8. ASSUME t \in Oxygens, NEW n, OLoop(t, n), pc[t] # "counted"
      PROVE  Started' /\ CallsCounted'
  <2>1. OCounts' = OCounts /\ HCounts' = HCounts
    BY <1>0, <1>8 DEF HCounts, OCounts, OLoop, MakeWater, OSleeps, Goto, TypeOK, Atoms
  <2> QED
    BY <1>3, <1>8, <2>1 DEF CallsCounted, OLoop, MakeWater, OSleeps, counters
<1>9. CASE t \in Oxygens /\ (OArrives(t) \/ OWakes(t))
  BY <1>8, <1>9 DEF OArrives, OWakes, OWoken
<1>10. CASE t \in Oxygens /\ WakeHydrogens(t)
  <2>1. OCounts' = OCounts /\ HCounts' = HCounts
    BY <1>0, <1>10 DEF HCounts, OCounts, WakeHydrogens, Goto, TypeOK, Atoms
  <2> QED
    BY <1>3, <1>10, <2>1 DEF CallsCounted, WakeHydrogens, counters
<1> QED
  BY <1>5, <1>6, <1>7, <1>9, <1>10, Zenon DEF Thread, HStep, OStep

\* No step of a thread takes a molecule back.
LEMMA WaterGrows ==
    ASSUME TypeOK, NEW t \in Atoms, Thread(t)
    PROVE  water_molecules' >= water_molecules
BY DEF TypeOK, Thread, HStep, OStep, HArrives, HReturns, HCounted, OArrives, OWakes,
       OCounted, OLoop, MakeWater, WakeHydrogens, OSleeps, counters, monitor

\* Main and the threads keep their invariant.
LEMMA RunnerStep ==
    SafeInv /\ CountInv /\ RunnerInv /\ SafeInv' /\ CountInv' /\ [RNext]_allvars => RunnerInv'
<1> SUFFICES ASSUME SafeInv, CountInv, RunnerInv, SafeInv', CountInv', [RNext]_allvars
             PROVE  RunnerInv'
  OBVIOUS
<1>0. Started /\ CallsCounted /\ Met
  BY DEF RunnerInv
<1>1. ASSUME UNCHANGED vars, created \subseteq created', created' \subseteq Atoms
      PROVE  Started' /\ CallsCounted'
  BY <1>0, <1>1 DEF Started, CallsCounted, HCounts, OCounts, vars
<1>2. ASSUME UNCHANGED <<vars, created>>
      PROVE  UNCHANGED <<water_molecules, expected_molecules>>
  BY <1>2 DEF vars, expected_molecules, hydrogen_atoms, oxygen_atoms
<1>3. CASE UNCHANGED allvars
  <2>1. UNCHANGED <<vars, main, created>>
    BY <1>3 DEF allvars
  <2>2. Started' /\ CallsCounted'
    BY <1>0, <1>1, <2>1 DEF Started
  <2> QED
    BY <1>0, <1>2, <2>1, <2>2 DEF Met, RunnerInv
<1>4. CASE CreateThread
  <2>1. /\ UNCHANGED vars /\ created \subseteq created' /\ created' \subseteq Atoms
        /\ main' = "creating"
    BY <1>0, <1>4 DEF CreateThread, Started
  <2>2. Met'
    BY <2>1, Zenon DEF Met, Waited
  <2> QED
    BY <1>1, <2>1, <2>2 DEF RunnerInv
<1>5. CASE CreatedAll
  <2>1. UNCHANGED <<vars, created>> /\ main' = "spinning"
    BY <1>5 DEF CreatedAll
  <2>2. Met'
    BY <2>1, Zenon DEF Met, Waited
  <2> QED
    BY <1>0, <1>1, <2>1, <2>2 DEF RunnerInv, Started
<1>6. CASE SpinEnds
  <2>1. UNCHANGED <<vars, created>> /\ water_molecules = expected_molecules
    BY <1>6 DEF SpinEnds
  <2>2. Started' /\ CallsCounted'
    BY <1>0, <1>1, <2>1 DEF Started
  <2> QED
    BY <1>2, <2>1, <2>2 DEF Met, RunnerInv
<1>7. CASE CompareMolecules \/ CompareHydrogens \/ CompareOxygens
  <2>1. UNCHANGED <<vars, created>> /\ main \in Waited
    BY <1>7, Zenon DEF CompareMolecules, CompareHydrogens, CompareOxygens, Waited
  <2>2. Started' /\ CallsCounted'
    BY <1>0, <1>1, <2>1 DEF Started
  <2> QED
    BY <1>0, <1>2, <2>1, <2>2 DEF Met, RunnerInv
<1>8. ASSUME NEW t \in Atoms, Thread(t) PROVE RunnerInv'
  <2>1. Started' /\ CallsCounted'
    BY <1>0, <1>8, ThreadCounts
  <2>2. UNCHANGED <<main, created>>
    BY <1>8 DEF Thread
  <2>3. expected_molecules' = expected_molecules
    BY <2>2 DEF expected_molecules, hydrogen_atoms, oxygen_atoms
  <2>4. water_molecules' <= expected_molecules
    BY <2>1, <2>3, AtMostExpectedNext
  <2>5. water_molecules' >= water_molecules
    BY <1>8, WaterGrows DEF SafeInv
  <2>6. water_molecules \in Nat /\ water_molecules' \in Nat
    BY DEF SafeInv, TypeOK
  <2>7. Met'
    <3> SUFFICES ASSUME main' \in Waited PROVE water_molecules' = expected_molecules'
      BY DEF Met
    <3>1. water_molecules = expected_molecules
      BY <1>0, <2>2 DEF Met
    <3> QED
      BY <2>3, <2>4, <2>5, <2>6, <3>1
  <2> QED
    BY <2>1, <2>7 DEF RunnerInv
<1> QED
  BY <1>3, <1>4, <1>5, <1>6, <1>7, <1>8, Zenon DEF RNext, MainStep

\* In the runner all of the above holds for ever.
LEMMA RunnerAlways == RSpec => [](SafeInv /\ CountInv /\ RunnerInv)
<1>1. RSpec => [](SafeInv /\ CountInv)
  BY RunnerUsesReaction, CountsAlways, PTL
<1> QED
  BY <1>1, RunnerInit, RunnerStep, PTL DEF RSpec

\* What main's reports say of the counters when the molecules are as expected.
LEMMA ReportSays ==
    ASSUME CompareMolecules \/ CompareHydrogens \/ CompareOxygens, Met
    PROVE  /\ main' # "too many molecules"
           /\ main' = "hydrogen calls" => hydrogen_atoms_bonded # 2 * water_molecules
           /\ main' = "oxygen calls" => oxygen_atoms_bonded # water_molecules
<1>1. water_molecules = expected_molecules
  BY Zenon DEF CompareMolecules, CompareHydrogens, CompareOxygens, Met, Waited
<1>2. CASE CompareMolecules
  BY <1>1, <1>2, Zenon DEF CompareMolecules
<1>3. CASE CompareHydrogens
  BY <1>1, <1>3, Zenon DEF CompareHydrogens
<1>4. CASE CompareOxygens
  BY <1>1, <1>4, Zenon DEF CompareOxygens
<1> QED
  BY <1>2, <1>3, <1>4, Zenon

\* If every bonded atom's call is counted, the runner's counters are exactly
\* what the monitor's molecules call for.
LEMMA AllCounted ==
    ASSUME SafeInv, CountInv, CallsCounted
    PROVE  /\ OMade = {} /\ (\A h \in HBonded : pc[h] = "counted") =>
                 hydrogen_atoms_bonded = 2 * water_molecules
           /\ (\A o \in OBonded : pc[o] = "counted") => oxygen_atoms_bonded = water_molecules
<1>1. HCounts \subseteq HBonded /\ OCounts \subseteq OBonded
  BY DEF HCounts, OCounts, HBonded, OBonded, Past
<1>2. HBonded \subseteq Hydrogens /\ OBonded \subseteq Oxygens
  BY DEF HBonded, HWoken, OBonded, OMade
<1>3. (\A h \in HBonded : pc[h] = "counted") => HBonded = HCounts
  BY <1>1, <1>2 DEF HCounts
<1>4. (\A o \in OBonded : pc[o] = "counted") => OBonded = OCounts
  BY <1>1, <1>2 DEF OCounts
<1>5. OMade = {} => Cardinality(HBonded) = 2 * water_molecules
  <2>1. Cardinality(HBonded) \in Nat /\ water_molecules \in Nat
    BY BondedFinite, FS_CardinalityType DEF SafeInv, TypeOK
  <2> QED
    BY <2>1, FS_EmptySet DEF CountInv, TwoHydrogensPerOxygen
<1> QED
  BY <1>3, <1>4, <1>5 DEF CountInv, TwoHydrogensPerOxygen, CallsCounted

\* The runner reports "too many molecules" never, and missing calls only if a
\* thread that is bound to return, or that holds the lock and has yet to wake
\* the hydrogens of its molecule, has not been scheduled while main slept.
THEOREM ReportsAreLateThreads == RSpec => FaultReportsAreLateThreads
<1>1. ASSUME SafeInv, CountInv, RunnerInv, [RNext]_allvars, main' # main, main' \in Reports
      PROVE  /\ main' # "too many molecules"
             /\ main' = "hydrogen calls" => OMade # {} \/ \E h \in HBonded : pc[h] # "counted"
             /\ main' = "oxygen calls" => \E o \in OBonded : pc[o] # "counted"
  <2>1. CompareMolecules \/ CompareHydrogens \/ CompareOxygens
    <3>1. UNCHANGED allvars => main' = main
      BY DEF allvars
    <3>2. CreateThread \/ (\E t \in Atoms : Thread(t)) => main' = main
      BY DEF CreateThread, Thread
    <3>3. CreatedAll \/ SpinEnds => main' \notin Reports
      BY Zenon DEF CreatedAll, SpinEnds, Reports
    <3> QED
      BY <1>1, <3>1, <3>2, <3>3, Zenon DEF RNext, MainStep
  <2>2. CallsCounted /\ Met
    BY <1>1 DEF RunnerInv
  <2> QED
    BY <1>1, <2>1, <2>2, ReportSays, AllCounted, Zenon
<1>2. SafeInv /\ CountInv /\ RunnerInv /\ [RNext]_allvars =>
        [main' # main /\ main' \in Reports =>
            /\ main' # "too many molecules"
            /\ main' = "hydrogen calls" => OMade # {} \/ \E h \in HBonded : pc[h] # "counted"
            /\ main' = "oxygen calls" => \E o \in OBonded : pc[o] # "counted"]_allvars
  BY <1>1, Zenon
<1> QED
  BY <1>2, RunnerAlways, PTL DEF RSpec, FaultReportsAreLateThreads
=============================================================================
