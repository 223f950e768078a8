--------------------------- MODULE MCContentStore ---------------------------
(***************************************************************************)
(* Small instances of ContentStore: chunks "a" and "b", the bodies of at    *)
(* most two chunks that MCBodies lists, and a hash that names the valid     *)
(* body of each object and maps everything else to "other".                *)
(***************************************************************************)
EXTENDS ContentStore, TLC

MCChunks == {"a", "b"}

\* The hash is collision free on what the model can produce.
MCSha256(s) ==
    CASE s = <<"a", "b">> -> "o1"
      [] s = <<"b">>      -> "o2"
      [] OTHER            -> "other"

OneOid  == {"o1"}
TwoOids == {"o1", "o2"}

\* The content of o1, a truncated and a bogus upload of the right size.
MixedBodies == {<<"a", "b">>, <<"a">>, <<"b", "b">>}
\* Contents of both objects: each is a bogus upload of the other.
BothBodies  == {<<"a", "b">>, <<"b">>}
GoodBody    == {<<"a", "b">>}

Symmetry == Permutations(Inodes) \cup Permutations(Uploads)

=============================================================================
