------------------------------ MODULE FolderTree ------------------------------
(* The tree of folders as the browser draws it, and the folders its form      *)
(* offers as parents.                                                         *)
EXTENDS Naturals, FiniteSets

Top == 0

\* The folders directly in one folder.
childrenOf(parent, id) == {f \in DOMAIN parent : parent[f] = id}

\* What is below a folder as far as those in between are opened, found in as many
\* rounds as there are folders.
under(parent, id, opened) ==
  LET found[n \in 0 .. Cardinality(DOMAIN parent)] ==
        IF n = 0 THEN childrenOf(parent, id)
        ELSE found[n - 1] \cup UNION {childrenOf(parent, f) : f \in found[n - 1] \cap opened}
  IN  found[Cardinality(DOMAIN parent)]

descendantIds(parent, id) == under(parent, id, DOMAIN parent)

\* Mutant: only the folder itself is not offered.
offersItsOwnChildren(parent, id) == DOMAIN parent \ {id}

parentOptions(parent, id) == DOMAIN parent \ (descendantIds(parent, id) \cup {id})

\* What is drawn: the top level, and the children of what is drawn and expanded.
Drawn(parent, expanded) == under(parent, Top, expanded)
-----------------------------------------------------------------------------
Forest(parent) ==
  \A f \in DOMAIN parent : f \notin descendantIds(parent, f) /\ parent[f] \in DOMAIN parent \cup {Top}

(* The form offers every parent that keeps the tree a tree, and no other.     *)
OffersWhatCanBe(parent, f) ==
  parentOptions(parent, f) = {p \in DOMAIN parent : Forest([parent EXCEPT ![f] = p])}

(* Every folder can be found by expanding what is above it, and nothing else  *)
(* need be.                                                                   *)
FoldersCanBeFound(parent) ==
  \A f \in DOMAIN parent : f \in Drawn(parent, {g \in DOMAIN parent : f \in descendantIds(parent, g)})
=============================================================================
