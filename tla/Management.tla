----------------------------- MODULE Management -----------------------------
(***************************************************************************)
(* The management pages (mgmt.go) beside the calls of Git LFS clients, over *)
(* the BoltDB meta store.                                                  *)
(*                                                                         *)
(* A page does one transaction: it shows the objects or the projects, or   *)
(* adds or deletes a user.  An administrator looks at one page after the   *)
(* other while clients put objects, users come and go and the process      *)
(* restarts.  Left out are the pages that change nothing and that nothing  *)
(* below is about: a request without the administrator's credentials       *)
(* (basicAuth answers it), the configuration, the style sheets, the list   *)
(* of users, the form that adds a project, which bolt does not implement,  *)
(* and the search, which waits in vain for the lock on the database that   *)
(* the process itself holds.                                               *)
(***************************************************************************)
EXTENDS BoltMetaStore

VARIABLES
    listed,   \* the project_names of the objects on the last objects page,
              \* which its JSON form has
    shown,    \* the projects on a projects page fetched after it, or None
    valid     \* history: the credentials of call c have been valid at some
              \* time since it began

pages == <<listed, shown>>
mvars == <<vars, pages, valid>>

MInit ==
    /\ Init
    /\ listed = {} /\ shown = None
    /\ valid = [c \in Calls |-> FALSE]

-----------------------------------------------------------------------------
(* The pages                                                               *)

\* MetaStore.Objects and MetaStore.Projects: one View of a bucket each.
Objects  == {o \in Oids : objects[o] # None}
Projects == {p \in Repos : projects[p] # {}}

\* The objects page, answered as JSON.
objectsHandler ==
    /\ listed' = {objects[o].repo : o \in Objects} \ {""}
    /\ shown' = None
    /\ UNCHANGED <<db, env, calls, crashes>>

projectsHandler ==
    /\ shown' = Projects
    /\ UNCHANGED <<db, env, calls, crashes, listed>>

\* With LDAP the store does not implement users.
addUserHandler(u, p) == AddUser(u, p) /\ UNCHANGED pages
delUserHandler(u)    == DeleteUser(u) /\ UNCHANGED pages

\* The store and its environment go on beside the pages.
StoreStep ==
    /\ \/ \E c \in Calls :
            CallStep(c) \/ \E f \in {"get", "put"}, v \in Requests : Call(c, f, v)
       \/ Directory
       \/ Crash
    /\ UNCHANGED pages

PageStep ==
    \/ objectsHandler \/ projectsHandler
    \/ \E u \in Users : delUserHandler(u) \/ \E p \in Passwords : addUserHandler(u, p)

\* A call that is in progress sees its credentials become valid.
Witness ==
    valid' = [c \in Calls |->
        IF pc[c] = "idle" /\ pc'[c] = "idle" THEN valid[c]
        ELSE authenticate(rv[c].cred)' \/ (pc[c] # "idle" /\ valid[c])]

MNext ==
    /\ StoreStep \/ PageStep
    /\ calm' = (calm /\ Calm)
    /\ Witness

MSpec == MInit /\ [][MNext]_mvars

-----------------------------------------------------------------------------
(* Properties                                                              *)

\* Type correctness of the store and of what the pages of mgmt.go show.
MTypeOK ==
    /\ TypeOK
    /\ listed \in SUBSET Repos
    /\ shown \in (SUBSET Repos) \cup {None}
    /\ valid \in [Calls -> BOOLEAN]

\* An administrator who looks for the project_names of the objects page on the
\* projects page finds them, whatever Puts, restarts and user changes come
\* between the two pages.
PagesAgree == shown # None => listed \subseteq shown

\* A caller whose credentials are not valid at any time of the call is shown
\* nothing and writes nothing, however users are added and deleted and the
\* directory comes and goes meanwhile.
Admitted ==
    \A c \in Calls : ~valid[c] =>
        out[c] \in {"none", "auth"} /\ pc[c] \notin {"find", "create", "object"}

\* ... for which it gets no further than the first check of the call.
AdmittedInv ==
    \A c \in Calls : ~valid[c] =>
        /\ out[c] \in {"none", "auth"}
        /\ pc[c] \in IF op[c] = "put" THEN {"idle", "auth"} ELSE {"idle", "get_auth"}
        /\ pc[c] # "idle" => ~authenticate(rv[c].cred)

=============================================================================
