---------------------------- MODULE MCLfsServer -----------------------------
(***************************************************************************)
(* Small instances of LfsServer: contents of size 1, sizes declared as 1   *)
(* or 2, batches of up to two objects.                                     *)
(***************************************************************************)
EXTENDS LfsServer, TLC

MCTrueSize == [o \in Oids |-> 1]

Item(o, s) == [oid |-> o, size |-> s]

\* What a stranger asks, who can write nothing.
StrangerPosts == {Item("o1", 2)}
StrangerLists == {<<Item("o1", 2), Item("o1", 1)>>}

Symmetry == Permutations(Clients \ Strangers)

=============================================================================
