------------------------------ MODULE MCFrames ------------------------------
(* Instances of Frames for TLC.                                            *)
EXTENDS Frames

CONSTANTS p1, p2

\* One process whose stack grows, or a parent and its child whose stacks do
\* not: in neither do two evictions overlap, since the parent sleeps while its
\* child loads and all others are under pageLock.  In Thrash a process has
\* more pages than there are frames, so that each alone may fault for ever.
Alone == [runs |-> {p1}, grows |-> {p1}, writes |-> {<<p1, 0>>, <<p1, 1>>}, segments |-> 3,
           frames |-> 0..2, slots |-> 0..3]
Family == [runs |-> {p1, p2}, grows |-> {}, writes |-> {<<p1, 1>>, <<p2, 1>>}, segments |-> 1,
           frames |-> 0..1, slots |-> 0..2]
Thrash == [runs |-> {p1, p2}, grows |-> {}, writes |-> {}, segments |-> 2,
           frames |-> 0..1, slots |-> 0..4]
AllScenarios == {Alone, Family, Thrash}
FamilyOnly == {Family}
AloneOnly == {Alone}

ASSUME ScenariosAssumption == EvictionsSafe /\ \A scen \in Scenarios : EnoughFrames(scen)
============================================================================
