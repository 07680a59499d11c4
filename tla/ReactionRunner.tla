--------------------------- MODULE ReactionRunner ---------------------------
(***************************************************************************)
(* threadlab/reaction-runner.c: main creates the atoms' threads, spins     *)
(* until water_molecules is the number of molecules it expects, sleeps for *)
(* a tenth of a second and compares the counters.  The ten second alarm is *)
(* not modelled: it stands for "the spin loop must end".                   *)
(***************************************************************************)
EXTENDS Reaction

CONSTANT total_atoms    \* how many threads main creates

ASSUME TotalAssumption ==
    /\ total_atoms \in Nat
    /\ total_atoms <= Cardinality(Oxygens) + Cardinality(Hydrogens)

VARIABLES
    main,      \* where main is, and the report it ended with
    created    \* the threads pthread_create has started

allvars == <<vars, main, created>>

Reports == {"too many molecules", "hydrogen calls", "oxygen calls", "good"}

RInit == Init /\ main = "creating" /\ created = {}

\* One iteration of main's loop: the kind of the atom is drawn at random.
CreateThread ==
    /\ main = "creating"
    /\ Cardinality(created) < total_atoms
    /\ \E t \in Atoms \ created : created' = created \cup {t}
    /\ UNCHANGED <<vars, main>>

hydrogen_atoms == Cardinality(created \cap Hydrogens)
oxygen_atoms   == Cardinality(created \cap Oxygens)

expected_molecules == Lesser(hydrogen_atoms \div 2, oxygen_atoms)

CreatedAll ==
    /\ main = "creating"
    /\ Cardinality(created) = total_atoms
    /\ main' = "spinning"
    /\ UNCHANGED <<vars, created>>

\* The busy wait tests for equality, not for "at least".
SpinEnds ==
    /\ main = "spinning"
    /\ water_molecules = expected_molecules
    /\ main' = "sleeping"
    /\ UNCHANGED <<vars, created>>

\* After usleep main reads the three counters one after another, without the
\* lock, and reports the first that differs.
CompareMolecules ==
    /\ main = "sleeping"
    /\ main' = IF water_molecules # expected_molecules THEN "too many molecules"
               ELSE "molecules compared"
    /\ UNCHANGED <<vars, created>>

CompareHydrogens ==
    /\ main = "molecules compared"
    /\ main' = IF hydrogen_atoms_bonded # 2 * expected_molecules THEN "hydrogen calls"
               ELSE "hydrogens compared"
    /\ UNCHANGED <<vars, created>>

CompareOxygens ==
    /\ main = "hydrogens compared"
    /\ main' = IF oxygen_atoms_bonded # expected_molecules THEN "oxygen calls" ELSE "good"
    /\ UNCHANGED <<vars, created>>

MainStep ==
    \/ CreateThread
    \/ CreatedAll
    \/ SpinEnds
    \/ CompareMolecules
    \/ CompareHydrogens
    \/ CompareOxygens

Thread(t) ==
    /\ t \in created
    /\ \/ t \in Hydrogens /\ HStep(t)
       \/ t \in Oxygens /\ OStep(t)
    /\ UNCHANGED <<main, created>>

RNext == MainStep \/ \E t \in Atoms : Thread(t)

\* The scheduler runs main and every thread that can run.  Fairness of the lock
\* is not needed: an oxygen keeps it for one step only and each oxygen does so
\* once, so a thread that wants the lock finds it free for good in the end.
RFairness ==
    /\ WF_allvars(MainStep)
    /\ \A t \in Atoms : WF_allvars(Thread(t))

RSpec == RInit /\ [][RNext]_allvars /\ RFairness

-----------------------------------------------------------------------------
\* main's spin loop ends and afterwards every call that should return has
\* returned and been counted, for good.
EventuallyAllBonded ==
    <>[](/\ main \in Reports
         /\ water_molecules = expected_molecules
         /\ hydrogen_atoms_bonded = 2 * expected_molecules
         /\ oxygen_atoms_bonded = expected_molecules)

\* The runner never sees more molecules than expected, and it reports missing
\* calls only when a thread that can run has not run for the length of usleep:
\* a hydrogen that was woken for its molecule, or the oxygen that made the
\* molecule and holds the lock, whose signals are still to come.  The monitor
\* itself is never at fault.
FaultReportsAreLateThreads ==
    [][main' # main /\ main' \in Reports =>
        /\ main' # "too many molecules"
        /\ main' = "hydrogen calls" => OMade # {} \/ \E h \in HBonded : pc[h] # "counted"
        /\ main' = "oxygen calls" => \E o \in OBonded : pc[o] # "counted"]_allvars
=============================================================================
