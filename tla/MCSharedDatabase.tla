-------------------------- MODULE MCSharedDatabase -------------------------
EXTENDS SharedDatabase, TLC

\* The empty key, a key and one under it.
MCKeys == {<<>>, <<1>>, <<1, 2>>}

\* Two processes of one user, or a client and its application.
MCDeployments == {Stores} \cup {{s} \cup Apps : s \in Stores}

\* The specification and its properties treat these alike.
Symmetry ==
  UNION {Permutations(S) : S \in {Stores, Namespaces, Values, Installations}}
============================================================================
