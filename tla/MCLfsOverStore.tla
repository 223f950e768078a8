--------------------------- MODULE MCLfsOverStore ---------------------------
(***************************************************************************)
(* A small instance of LfsOverStore: one object, whose content has size 1, *)
(* and other content of the same size and of another one.                  *)
(***************************************************************************)
EXTENDS LfsOverStore, TLC

MCTrueSize == [o \in Oids |-> 1]

MCContents == {<<"a">>, <<"b">>, <<"a", "b">>}

\* The hash is collision free on what the model can produce.
MCSha256(s) == IF s = <<"a">> THEN "o1" ELSE "other"

Item(o, s) == [oid |-> o, size |-> s]

\* The right size.
MCPosts == {Item("o1", 1)}

\* A wrong size, and then an object without an id.
MCLists == {<<Item("o1", 2), Item("", 1)>>}

Symmetry == Permutations(Clients)

=============================================================================
