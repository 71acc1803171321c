------------------------- MODULE MC_InstallService --------------------------
(***************************************************************************)
(* Instances of InstallService for TLC: two imports of one version of a    *)
(* package with a skill, from the same source or from another file that    *)
(* holds the same package under a key of its own; and two packages that    *)
(* each bring a skill of the same slug.                                    *)
(***************************************************************************)
EXTENDS InstallService

CONSTANTS k1, k2, p1, p2, s1

Skill(key, pkg) == [key |-> key, pkg |-> pkg, slugs |-> {s1}]

Again    == [i \in 1 .. 2 |-> Skill(k1, p1)]
TwoFiles == [i \in 1 .. 2 |-> Skill(IF i = 1 THEN k1 ELSE k2, p1)]
TwoPacks == [i \in 1 .. 2 |-> IF i = 1 THEN Skill(k1, p1) ELSE Skill(k2, p2)]

TwoImports  == {Again, TwoFiles, TwoPacks}
SameListing == {Again}
SameSlug    == {TwoPacks}

=============================================================================
