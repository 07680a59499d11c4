------------------------------ MODULE Reaction ------------------------------
(***************************************************************************)
(* threadlab/reaction.c: hydrogen and oxygen threads that meet in a        *)
(* monitor, two hydrogens and one oxygen at a time, together with the      *)
(* thread bodies of threadlab/reaction-runner.c that call it and count     *)
(* the calls that returned.                                                *)
(***************************************************************************)
EXTENDS Integers, FiniteSets, Monitor

CONSTANTS
    Hydrogens,        \* the threads that run hydrogen_thread
    Oxygens           \* the threads that run oxygen_thread

ASSUME AtomsAssumption ==
    /\ IsFiniteSet(Hydrogens)
    /\ IsFiniteSet(Oxygens)
    /\ Hydrogens \cap Oxygens = {}

VARIABLES
    pc,               \* where each thread is, see Places
    numH,             \* reaction->numH
    numO,             \* reaction->numO
    HSleep,           \* the threads blocked on reaction->HSleep
    OSleep,           \* the threads blocked on reaction->OSleep
    water_molecules,  \* the runner's counter, raised by make_water
    hydrogen_atoms_bonded,
    oxygen_atoms_bonded

monitor  == <<numH, numO, HSleep, OSleep>>
counters == <<hydrogen_atoms_bonded, oxygen_atoms_bonded>>
vars     == <<pc, numH, numO, HSleep, OSleep, water_molecules,
              hydrogen_atoms_bonded, oxygen_atoms_bonded>>

Atoms == Hydrogens \cup Oxygens

\* "start": not yet in the monitor; "cond": inside cond_wait, blocked or
\* woken; "made": an oxygen after make_water, with the lock; "returned": out of
\* reaction_h or reaction_o; "counted": finished.
Places == {"start", "cond", "made", "returned", "counted"}

Goto(t, place) == pc' = [pc EXCEPT ![t] = place]

\* A thread in cond_wait that a wakeup has released and that wants the lock.
HWoken == {h \in Hydrogens : pc[h] = "cond" /\ h \notin HSleep}
OWoken == {o \in Oxygens : pc[o] = "cond" /\ o \notin OSleep}

\* The oxygens between make_water and lock_release: the runner's main, which
\* takes no lock, sees their molecule before anybody is woken for it.
OMade    == {o \in Oxygens : pc[o] = "made"}
OAwake   == OWoken \cup OMade
LockFree == OMade = {}

Init ==
    /\ pc = [t \in Atoms |-> "start"]
    /\ numH = 0
    /\ numO = 0
    /\ HSleep = {}
    /\ OSleep = {}
    /\ water_molecules = 0
    /\ hydrogen_atoms_bonded = 0
    /\ oxygen_atoms_bonded = 0

-----------------------------------------------------------------------------
\* Mutation: only the hydrogen that completes the first pair signals OSleep.
HArrives_SignalsOnPair(h) ==
    /\ pc[h] = "start"
    /\ LockFree
    /\ Goto(h, "cond")
    /\ numH' = numH + 1
    /\ IF numH' = 2 THEN OSleep' \in AfterSignal(OSleep) ELSE UNCHANGED OSleep
    /\ HSleep' = HSleep \cup {h}
    /\ UNCHANGED <<numO, water_molecules, counters>>

\* reaction_h up to its wait: announce the atom, let an oxygen look again,
\* sleep.
HArrives(h) ==
    /\ pc[h] = "start"
    /\ LockFree
    /\ Goto(h, "cond")
    /\ numH' = numH + 1
    /\ OSleep' \in AfterSignal(OSleep)
    /\ HSleep' = HSleep \cup {h}
    /\ UNCHANGED <<numO, water_molecules, counters>>

\* reaction_h after its wait: the condition is not looked at again.
HReturns(h) ==
    /\ h \in HWoken
    /\ LockFree
    /\ Goto(h, "returned")
    /\ UNCHANGED <<monitor, water_molecules, counters>>

\* The loop is over: reaction_o calls make_water and keeps the lock.
MakeWater(o, oxygens) ==
    /\ water_molecules' = water_molecules + 1
    /\ numO' = oxygens
    /\ Goto(o, "made")
    /\ UNCHANGED <<numH, HSleep, OSleep, counters>>

\* Mutation: one signal, although two hydrogens sleep for each molecule.
WakeHydrogens_Once(o) ==
    /\ pc[o] = "made"
    /\ numH' = numH - 2
    /\ numO' = numO - 1
    /\ HSleep' \in AfterSignal(HSleep)
    /\ Goto(o, "returned")
    /\ UNCHANGED <<OSleep, water_molecules, counters>>

\* The end of reaction_o: two hydrogens are taken for the molecule, each of
\* them is signalled and the lock released.
WakeHydrogens(o) ==
    /\ pc[o] = "made"
    /\ numH' = numH - 2
    /\ numO' = numO - 1
    /\ \E once \in AfterSignal(HSleep) : HSleep' \in AfterSignal(once)
    /\ Goto(o, "returned")
    /\ UNCHANGED <<OSleep, water_molecules, counters>>

\* The wait of reaction_o's loop.
OSleeps(o, oxygens) ==
    /\ numO' = oxygens
    /\ OSleep' = OSleep \cup {o}
    /\ Goto(o, "cond")
    /\ UNCHANGED <<numH, HSleep, water_molecules, counters>>

\* Mutation: an atom too few is enough for the loop of reaction_o to end.
OLoop_TooEarly(o, oxygens) ==
    \/ numH >= 1 /\ MakeWater(o, oxygens)
    \/ numH < 1 /\ OSleeps(o, oxygens)

\* The test of reaction_o's loop and what follows each outcome.
OLoop(o, oxygens) ==
    \/ numH >= 2 /\ MakeWater(o, oxygens)
    \/ numH < 2 /\ OSleeps(o, oxygens)

\* reaction_o from its entry.
OArrives(o) ==
    /\ pc[o] = "start"
    /\ LockFree
    /\ OLoop(o, numO + 1)

\* Mutation: `if' instead of `while', a woken oxygen does not look again.
OWakes_NoLoop(o) ==
    /\ o \in OWoken
    /\ LockFree
    /\ MakeWater(o, numO)

\* Mutation: the oxygen is counted again each time it looks.
OWakes_Recount(o) ==
    /\ o \in OWoken
    /\ LockFree
    /\ OLoop(o, numO + 1)

\* reaction_o back from cond_wait: the loop tests numH again.
OWakes(o) ==
    /\ o \in OWoken
    /\ LockFree
    /\ OLoop(o, numO)

\* hydrogen_thread and oxygen_thread count the call that returned.
HCounted(h) ==
    /\ pc[h] = "returned"
    /\ Goto(h, "counted")
    /\ hydrogen_atoms_bonded' = hydrogen_atoms_bonded + 1
    /\ UNCHANGED <<monitor, water_molecules, oxygen_atoms_bonded>>

OCounted(o) ==
    /\ pc[o] = "returned"
    /\ Goto(o, "counted")
    /\ oxygen_atoms_bonded' = oxygen_atoms_bonded + 1
    /\ UNCHANGED <<monitor, water_molecules, hydrogen_atoms_bonded>>

HStep(h) == HArrives(h) \/ HReturns(h) \/ HCounted(h)
OStep(o) == OArrives(o) \/ OWakes(o) \/ WakeHydrogens(o) \/ OCounted(o)

Next ==
    \/ \E h \in Hydrogens : HStep(h)
    \/ \E o \in Oxygens : OStep(o)

\* Every call of pthread_cond_wait ends with a signal.
Spec == Init /\ [][Next]_vars

\* pthread_cond_wait returns although nobody signalled, as POSIX allows.
SpuriousWakeup ==
    /\ \/ HSleep' \in AfterSpurious(HSleep) /\ UNCHANGED OSleep
       \/ OSleep' \in AfterSpurious(OSleep) /\ UNCHANGED HSleep
    /\ UNCHANGED <<pc, numH, numO, water_molecules, counters>>

SpuriousSpec == Init /\ [][Next \/ SpuriousWakeup]_vars

-----------------------------------------------------------------------------
\* Type invariant of the monitor, the threads and the runner's counters.
TypeOK ==
    /\ pc \in [Atoms -> Places] /\ \A h \in Hydrogens : pc[h] # "made"
    /\ numH \in Nat
    /\ numO \in Nat
    /\ HSleep \subseteq {h \in Hydrogens : pc[h] = "cond"}
    /\ OSleep \subseteq {o \in Oxygens : pc[o] = "cond"}
    /\ water_molecules \in Nat
    /\ hydrogen_atoms_bonded \in Nat
    /\ oxygen_atoms_bonded \in Nat

\* A wakeup of reaction_o is never lost: if oxygens sleep while two hydrogens
\* are free, then an oxygen is already on its way to the lock or is about to
\* take them for its molecule.  It would be lost if reaction_h did not signal
\* for every hydrogen, since an oxygen that barges in can use up the hydrogens
\* another one was woken for.
NoLostWakeup ==
    OSleep # {} /\ numH >= 2 => OAwake # {}

\* The strengthening that is inductive: each oxygen that is woken or has made
\* its molecule answers for two of the free hydrogens, and one hydrogen alone
\* needs no oxygen.
WakeupsCoverHydrogens ==
    OSleep # {} => numH <= 2 * Cardinality(OAwake) + 1

\* numH counts the hydrogens that sleep and numO the oxygens that entered and
\* have not reacted: the counters reaction_h and reaction_o maintain agree
\* with the threads inside.
HydrogensCounted   == numH = Cardinality(HSleep)
OxygensCounted     == numO = Cardinality({o \in Oxygens : pc[o] \in {"cond", "made"}})
CountsMatchThreads == HydrogensCounted /\ OxygensCounted

Past == {"returned", "counted"}
\* The hydrogens and oxygens whose call is over or is bound to return.
HBonded == HWoken \cup {h \in Hydrogens : pc[h] \in Past}
OBonded == OMade \cup {o \in Oxygens : pc[o] \in Past}

\* Two hydrogens and one oxygen leave for every molecule, no more and no
\* fewer: the comment on reaction_h's wait ("H then sleeps until O has created
\* an H2O and wakes it") and what the runner's last three checks compare.  The
\* hydrogens of a molecule just made are still asleep.
TwoHydrogensPerOxygen ==
    /\ Cardinality(HBonded) + 2 * Cardinality(OMade) = 2 * water_molecules
    /\ Cardinality(OBonded) = water_molecules

\* No thread is on its way through the monitor.
Quiescent == HWoken = {} /\ OWoken = {} /\ OMade = {}

Lesser(m, n) == IF m < n THEN m ELSE n

\* Nothing that could react is left behind: whenever no thread is on its way
\* through the monitor, as many molecules exist as the atoms that arrived
\* allow (the runner's expected_molecules).
NoMissedReaction ==
    Quiescent =>
        water_molecules =
            Lesser(Cardinality({h \in Hydrogens : pc[h] # "start"}) \div 2,
                   Cardinality({o \in Oxygens : pc[o] # "start"}))

-----------------------------------------------------------------------------
\* The monitor implements the reaction of module Molecules: an atom is free
\* while it sleeps or an oxygen while it is inside, and a hydrogen is combined
\* from the signal that wakes it to its return.  A molecule exists from the
\* signals on, when it is settled which hydrogens it is made of.
M == INSTANCE Molecules WITH
        free <- HSleep \cup {o \in Oxygens : pc[o] \in {"cond", "made"}},
        combined <- HWoken,
        left <- {t \in Atoms : pc[t] \in Past},
        molecules <- water_molecules - Cardinality(OMade)

\* Every step of the monitor is a step of Molecules or invisible to it, and
\* free atoms that can combine do.
ImplementsMolecules == M!Spec

\* The part of it without fairness.
StepsAreMolecules == M!Safety
=============================================================================
