------------------------ MODULE MCCassandraMetaStore ------------------------
(***************************************************************************)
(* Small instances of CassandraMetaStore.                                  *)
(***************************************************************************)
EXTENDS CassandraMetaStore, TLC

MCLdapPass == [u \in Users |-> "right"]

Req(k, o, s, p) == [cred |-> k, oid |-> o, size |-> s, repo |-> p]
Right == [user |-> "alice", pass |-> "right"]
Wrong == [user |-> "alice", pass |-> "wrong"]

\* One object with two sizes, once without a project; no oid, from a caller
\* whose password is wrong for the directory and for a user who was added with
\* the other one.
MixedRequests ==
    {Req(Right, "o1", 1, "p1"), Req(Right, "o1", 2, ""),
     Req(Wrong, "", 1, "p1")}

Symmetry == Permutations(Calls) \cup Permutations(Admins)

=============================================================================
