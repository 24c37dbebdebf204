---------------------------- MODULE MCRepository ----------------------------
(* Two artifacts that share a config blob, and their aliases. *)
EXTENDS RepositoryInvariant, TLC

CONSTANTS d1, d2, r1, r2, name, short, m1, m2, shared, p1, p2

OneManifest == (d1 :> {m1})
TwoManifests == (d1 :> {m1, shared}) @@ (d2 :> {m2, shared})
NoLayer == [d \in Digests |-> {}]
OneName == [d \in Digests |-> {name}]
NoShortName == [r \in Refs |-> {}]
NoEquivalents == {}

\* d2 is the manifest of d1 under a second digest algorithm.
SharedLayer == [d \in Digests |-> {shared}]
ManifestOnly == (d1 :> {m1}) @@ (d2 :> {m2})
ShortOfFirst == (r1 :> {short}) @@ (r2 :> {})
SecondOfFirst == {<<d1, d2>>}

\* Exchanging the artifacts exchanges their manifests with them.
SwapArtifacts == (d1 :> d2) @@ (d2 :> d1) @@ (m1 :> m2) @@ (m2 :> m1)
ProcessSymmetry == Permutations(Procs)
Symmetry == Permutations(Procs) \cup {SwapArtifacts}
=============================================================================
