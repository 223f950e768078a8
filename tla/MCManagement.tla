---------------------------- MODULE MCManagement ----------------------------
(***************************************************************************)
(* Small instances of Management and BoltMetaStore: one user with the right *)
(* and the wrong password for the directory, names as strings, sizes 1     *)
(* and 2.                                                                  *)
(***************************************************************************)
EXTENDS Management, TLC

MCUsers     == {"alice"}
MCPasswords == {"right", "wrong"}
MCLdapPass  == [u \in MCUsers |-> "right"]

Req(k, o, s, p) == [cred |-> k, oid |-> o, size |-> s, repo |-> p]
Right == [user |-> "alice", pass |-> "right"]
Wrong == [user |-> "alice", pass |-> "wrong"]

\* One object with two sizes, once without a project; no oid, from a caller
\* whose password is wrong for the directory and for a user who was added with
\* the other one.
MixedRequests ==
    {Req(Right, "o1", 1, "p1"), Req(Right, "o1", 2, ""), Req(Wrong, "", 1, "p1")}

Symmetry == Permutations(Calls)

=============================================================================
