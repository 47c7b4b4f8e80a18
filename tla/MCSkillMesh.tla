----------------------------- MODULE MCSkillMesh -----------------------------
(***************************************************************************)
(* Values of SkillMesh's constants for the model checker.                  *)
(***************************************************************************)
EXTENDS SkillMesh, TLC

MCEntry(i, st) == [image |-> i, streaming |-> st]

\* Each skill with an HTTP endpoint only, or not active: skills come and go.
HttpManifests == [Skill -> {Absent, MCEntry(FALSE, FALSE)}]

\* HTTP only, with an image, streaming, or not active.
CallManifests ==
    [Skill -> {Absent, MCEntry(FALSE, FALSE), MCEntry(TRUE, FALSE),
               MCEntry(FALSE, TRUE)}]

\* The registry never changes and every skill has an image.
ImageManifests == [Skill -> {MCEntry(TRUE, FALSE)}]

Symmetry == Permutations(Lister) \cup Permutations(Caller)
                \cup Permutations(Tool)
=============================================================================
