-------------------------- MODULE MCMySQLMetaStore --------------------------
(***************************************************************************)
(* Small instances of MySQLMetaStore.                                      *)
(***************************************************************************)
EXTENDS MySQLMetaStore, TLC

MCLdapPass == [u \in Users |-> "right"]

Req(k, o, s, p) == [cred |-> k, oid |-> o, size |-> s, repo |-> p]
Right == [user |-> "alice", pass |-> "right"]
Wrong == [user |-> "alice", pass |-> "wrong"]

\* One object with two sizes, in two projects and without a project, and a
\* caller with a wrong password.
MixedRequests ==
    {Req(Right, "o1", 1, "p1"), Req(Right, "o1", 2, "p2"), Req(Right, "o1", 1, ""),
     Req(Wrong, "o1", 2, "p1")}

Symmetry == Permutations(Calls)

=============================================================================
