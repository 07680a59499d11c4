----------------------------- MODULE Molecules -----------------------------
(***************************************************************************)
(* What reaction.c promises, without locks, counters or condition          *)
(* variables: atoms arrive, two hydrogens and an oxygen that are present   *)
(* combine in one step, and an atom leaves only after it has combined.     *)
(***************************************************************************)
EXTENDS Naturals

CONSTANTS Hydrogens, Oxygens

VARIABLES
    free,       \* the atoms that have arrived and are in no molecule
    combined,   \* the atoms that are in a molecule and have not left
    left,       \* the atoms whose call has returned
    molecules   \* how many molecules were made

vars == <<free, combined, left, molecules>>

Atoms == Hydrogens \cup Oxygens

Init == free = {} /\ combined = {} /\ left = {} /\ molecules = 0

Arrive(a) ==
    /\ a \notin free \cup combined \cup left
    /\ free' = free \cup {a}
    /\ UNCHANGED <<combined, left, molecules>>

\* The oxygen is present already or combines as it arrives, and it makes the
\* molecule itself, so its call is over with the molecule.
Combine(o, g, h) ==
    /\ o \notin combined \cup left
    /\ g # h
    /\ {g, h} \subseteq free
    /\ free' = free \ {g, h, o}
    /\ combined' = combined \cup {g, h}
    /\ left' = left \cup {o}
    /\ molecules' = molecules + 1

Leave(h) ==
    /\ h \in combined
    /\ combined' = combined \ {h}
    /\ left' = left \cup {h}
    /\ UNCHANGED <<free, molecules>>

React(oxygens) == \E o \in oxygens, g, h \in Hydrogens : Combine(o, g, h)

Next ==
    \/ \E a \in Atoms : Arrive(a)
    \/ React(Oxygens)
    \/ \E h \in Hydrogens : Leave(h)

\* As long as two hydrogens and an oxygen are present, some combine; and an atom
\* of a molecule is let go.
Fairness ==
    /\ WF_vars(React(free \cap Oxygens))
    /\ \A h \in Hydrogens : WF_vars(Leave(h))

Safety == Init /\ [][Next]_vars
Spec   == Safety /\ Fairness
=============================================================================
