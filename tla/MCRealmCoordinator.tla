------------------------- MODULE MCRealmCoordinator -------------------------
(* RealmCoordinator on small instances. *)
EXTENDS RealmCoordinator, TLC

CONSTANTS h1, h2, n1, n2

MCNone == {}
MCOneHandle == {h1}
MCHandles == {h1, h2}
MCOneNotifier == {n1}
MCNotifiers == {n1, n2}

\* Handles are alike, and so are notifiers when all of them are of one kind.
MCSymmetry == Permutations(MCHandles) \cup Permutations(MCNotifiers)
=============================================================================
