------------------------- MODULE MCAwsContentStore -------------------------
(***************************************************************************)
(* A small instance of AwsContentStore: one object, a client that keeps to *)
(* the protocol and another that declares any size and sends any content.  *)
(***************************************************************************)
EXTENDS AwsContentStore

MCChunks == {"a", "b"}

\* Valid content of o1 and a bogus one of the same size; a connection that
\* breaks cuts them short.
MCBodies == {<<"a", "b">>, <<"b", "b">>}

\* The hash is collision free on what the model can produce.
MCSha256(s) == IF s = <<"a", "b">> THEN "o1" ELSE "other"

=============================================================================
