---------------------------- MODULE BoltMetaStore ----------------------------
(***************************************************************************)
(* The BoltDB meta store (meta_store.go) under concurrent requests.        *)
(*                                                                         *)
(* Every View and Update of bolt is one serialised transaction, hence one  *)
(* step.  Put is not one transaction: it authenticates, calls Get (which   *)
(* authenticates again and reads the object), looks for the project,       *)
(* creates it and writes the object, each in a step of its own, and other  *)
(* requests, the administrator and a restart come in between.              *)
(***************************************************************************)
EXTENDS Naturals

CONSTANTS
    Calls,        \* goroutines that call Get or Put
    Users, Passwords,
    Oids, Repos,  \* names that are not empty
    Sizes,
    Requests,     \* the RequestVars of the calls considered
    NoCred,       \* no usable credentials: no Authorization header, not
                  \* Basic, bad base64, no colon
    None,         \* no value under a key
    Modes,        \* configurations considered: "public", "local", "ldap"
    LdapPass,     \* the passwords the LDAP directory holds (external)
    MaxCrashes    \* bound: restarts of the process

Creds   == [user : Users, pass : Passwords] \cup {NoCred}
Metas   == [size : Sizes, repo : Repos \cup {""}]
ReqVars == [cred : Creds, oid : Oids \cup {""}, size : Sizes, repo : Repos \cup {""}]

ASSUME NamesAssumption ==
    /\ "" \notin Oids
    /\ "" \notin Repos
ASSUME NoneAssumption  ==
    /\ None \notin Passwords
    /\ None \notin Metas
ASSUME CredAssumption  == NoCred \notin [user : Users, pass : Passwords]
ASSUME ModesAssumption == Modes \subseteq {"public", "local", "ldap"}
ASSUME LdapAssumption  == LdapPass \in [Users -> Passwords]
ASSUME CrashAssumption == MaxCrashes \in Nat

ASSUME RequestsAssumption == Requests \subseteq ReqVars /\ Requests # {}

VARIABLES
    \* the database
    users,     \* users bucket: user -> password (its bcrypt hash)
    objects,   \* objects bucket: oid -> size and project
    projects,  \* projects bucket: repo -> its oids, {} if it has no key
    \* configuration and the directory server
    mode,
    dir,       \* "up" or "down"
    \* one call of Get or Put per goroutine
    pc, op,
    rv,        \* RequestVars
    got,       \* the MetaObject returned
    out,       \* how the current or last call ended
    crashes,
    calm       \* history: every step so far was calm (see Calm)

db    == <<users, objects, projects>>
env   == <<mode, dir>>
calls == <<pc, op, rv, got, out>>
vars  == <<db, env, calls, crashes, calm>>

Init ==
    /\ users    = [u \in Users |-> None]
    /\ objects  = [o \in Oids |-> None]
    /\ projects = [p \in Repos |-> {}]
    /\ mode \in Modes
    /\ dir = "up"
    /\ pc  = [c \in Calls |-> "idle"]
    /\ op  = [c \in Calls |-> "get"]
    /\ rv  = [c \in Calls |-> CHOOSE v \in Requests : TRUE]
    /\ got = [c \in Calls |-> None]
    /\ out = [c \in Calls |-> "none"]
    /\ crashes = 0
    /\ calm = TRUE

-----------------------------------------------------------------------------
(* Helpers                                                                 *)

\* authenticateLdap: any failure to reach the directory means no.
authenticateLdap(k) == dir = "up" /\ LdapPass[k.user] = k.pass

\* authenticate: a user who is not in the bucket has no hash to match.
authenticate(k) ==
    \/ mode = "public"
    \/ /\ k # NoCred
       /\ \/ mode = "ldap" /\ authenticateLdap(k)
          \/ mode = "local" /\ users[k.user] = k.pass

\* The call goes on to the transaction p.
Goto(c, p) == pc' = [pc EXCEPT ![c] = p] /\ UNCHANGED <<op, rv, got, out>>

\* The call returns the MetaObject m, or None with an error.
Return(c, r, m) ==
    /\ pc'  = [pc EXCEPT ![c] = "idle"]
    /\ out' = [out EXCEPT ![c] = r]
    /\ got' = [got EXCEPT ![c] = m]
    /\ UNCHANGED <<op, rv>>

\* bucket.Get(oid): bolt has nothing under the empty key.
Lookup(o) == IF o \in Oids THEN objects[o] ELSE None

-----------------------------------------------------------------------------
(* Get and Put                                                             *)

Call(c, f, v) ==
    /\ pc[c] = "idle"
    /\ pc'  = [pc EXCEPT ![c] = IF f = "put" THEN "auth" ELSE "get_auth"]
    /\ op'  = [op EXCEPT ![c] = f]
    /\ rv'  = [rv EXCEPT ![c] = v]
    /\ got' = [got EXCEPT ![c] = None]
    /\ out' = [out EXCEPT ![c] = "none"]
    /\ UNCHANGED <<db, env, crashes>>

\* Mutant: Put leaves authentication to Get.
PutAuthSkipped(c) ==
    /\ pc[c] = "auth"
    /\ Goto(c, "get_auth")
    /\ UNCHANGED <<db, env, crashes>>

\* Put authenticates before it calls Get.
PutAuth(c) ==
    /\ pc[c] = "auth"
    /\ IF authenticate(rv[c].cred) THEN Goto(c, "get_auth")
                                   ELSE Return(c, "auth", None)
    /\ UNCHANGED <<db, env, crashes>>

\* Get authenticates.  Put takes its error for "does not exist" and goes on.
GetAuth(c) ==
    /\ pc[c] = "get_auth"
    /\ \/ authenticate(rv[c].cred) /\ Goto(c, "get_view")
       \/ /\ ~authenticate(rv[c].cred)
          /\ IF op[c] = "put" THEN Goto(c, "find") ELSE Return(c, "auth", None)
    /\ UNCHANGED <<db, env, crashes>>

\* Mutant: Put does not look at what Get found.
GetViewIgnored(c) ==
    /\ pc[c] = "get_view"
    /\ LET m == Lookup(rv[c].oid) IN
        IF op[c] = "put" THEN Goto(c, "find")
        ELSE Return(c, IF m # None THEN "found" ELSE "missing", m)
    /\ UNCHANGED <<db, env, crashes>>

\* The View of Get; for Put an object that is found is returned as existing.
GetView(c) ==
    /\ pc[c] = "get_view"
    /\ LET m == Lookup(rv[c].oid) IN
        \/ /\ m # None
           /\ Return(c, IF op[c] = "put" THEN "existing" ELSE "found", m)
        \/ /\ m = None
           /\ IF op[c] = "put" THEN Goto(c, "find") ELSE Return(c, "missing", None)
    /\ UNCHANGED <<db, env, crashes>>

\* Mutant: the project is taken to be there.
FindProjectAssumed(c) ==
    /\ pc[c] = "find"
    /\ Goto(c, "object")
    /\ UNCHANGED <<db, env, crashes>>

\* findProject: the View that createProject starts with.
FindProject(c) ==
    /\ pc[c] = "find"
    /\ IF rv[c].repo = "" \/ projects[rv[c].repo] # {}
       THEN Goto(c, "object") ELSE Goto(c, "create")
    /\ UNCHANGED <<db, env, crashes>>

\* createProject: the Update; it writes the project whether or not another
\* call has created it meanwhile.
CreateProject(c) ==
    /\ pc[c] = "create"
    /\ projects' = [projects EXCEPT ![rv[c].repo] = {rv[c].oid}]
    /\ Goto(c, "object")
    /\ UNCHANGED <<users, objects, env, crashes>>

\* The Update that writes the object, or fails on the empty key.
PutObject(c) ==
    /\ pc[c] = "object"
    /\ LET m == [size |-> rv[c].size, repo |-> rv[c].repo] IN
        \/ /\ rv[c].oid # ""
           /\ objects' = [objects EXCEPT ![rv[c].oid] = m]
           /\ Return(c, "new", m)
        \/ /\ rv[c].oid = ""
           /\ Return(c, "error", None)
           /\ UNCHANGED objects
    /\ UNCHANGED <<users, projects, env, crashes>>

-----------------------------------------------------------------------------
(* Users, and what the process does not control                            *)

\* AddUser: one Update; a user who is already there keeps the password.
AddUser(u, p) ==
    /\ mode # "ldap"
    /\ users[u] = None
    /\ users' = [users EXCEPT ![u] = p]
    /\ UNCHANGED <<objects, projects, env, calls, crashes>>

DeleteUser(u) ==
    /\ mode # "ldap"
    /\ users' = [users EXCEPT ![u] = None]
    /\ UNCHANGED <<objects, projects, env, calls, crashes>>

\* The directory server becomes unreachable or reachable again (external).
Directory ==
    /\ mode = "ldap"
    /\ dir' = IF dir = "up" THEN "down" ELSE "up"
    /\ UNCHANGED <<db, mode, calls, crashes>>

\* A restart: NewMetaStore makes sure the buckets exist and keeps them.
Crash ==
    /\ crashes < MaxCrashes
    /\ crashes' = crashes + 1
    /\ pc'  = [c \in Calls |-> "idle"]
    /\ out' = [c \in Calls |-> IF pc[c] = "idle" THEN out[c] ELSE "none"]
    /\ UNCHANGED <<db, env, op, rv, got>>

CallStep(c) ==
    \/ PutAuth(c) \/ GetAuth(c) \/ GetView(c)
    \/ FindProject(c) \/ CreateProject(c) \/ PutObject(c)

Step ==
    \/ \E c \in Calls :
        CallStep(c) \/ \E f \in {"get", "put"}, v \in Requests : Call(c, f, v)
    \/ \E u \in Users : DeleteUser(u) \/ \E p \in Passwords : AddUser(u, p)
    \/ Directory
    \/ Crash

-----------------------------------------------------------------------------
(* Calm steps: a Put does not begin while another Put of its object is in  *)
(* progress (Serial), and nobody loses access between the two              *)
(* authentications of a Put (Steady).                                      *)

ActivePut(c) == pc[c] # "idle" /\ op[c] = "put"

Serial ==
    \A c, d \in Calls :
        pc[c] = "idle" /\ pc'[c] = "auth" /\ ActivePut(d) => rv[d].oid # rv'[c].oid

Steady ==
    (\E c \in Calls : ActivePut(c) /\ pc[c] = "get_auth") =>
        \A k \in Creds : authenticate(k) => authenticate(k)'

Calm == Serial /\ Steady

Next == Step /\ calm' = (calm /\ Calm)

Spec == Init /\ [][Next]_vars

-----------------------------------------------------------------------------
(* Properties                                                              *)

Outcomes == {"none", "auth", "missing", "found", "existing", "new", "error"}

\* Type correctness of the database, the configuration and the calls of meta_store.go.
TypeOK ==
    /\ users    \in [Users -> Passwords \cup {None}]
    /\ objects  \in [Oids -> Metas \cup {None}]
    /\ projects \in [Repos -> SUBSET (Oids \cup {""})]
    /\ mode \in Modes
    /\ dir \in {"up", "down"}
    /\ pc \in [Calls -> {"idle", "auth", "get_auth", "get_view",
                         "find", "create", "object"}]
    /\ op  \in [Calls -> {"get", "put"}]
    /\ rv  \in [Calls -> ReqVars]
    /\ got \in [Calls -> Metas \cup {None}]
    /\ out \in [Calls -> Outcomes]
    /\ crashes \in 0 .. MaxCrashes
    /\ calm \in BOOLEAN

\* An object that is recorded for a project never precedes the project,
\* wherever a restart or another call cuts into Put.
ProjectFirst ==
    \A o \in Oids :
        objects[o] # None /\ objects[o].repo # "" => projects[objects[o].repo] # {}

\* Credentials that cannot be valid: none, or a wrong LDAP password.
Rejected(k) ==
    /\ mode # "public"
    /\ k = NoCred \/ (mode = "ldap" /\ LdapPass[k.user] # k.pass)

\* A caller without valid credentials is shown nothing and writes nothing,
\* although Put overlooks the error of the second authentication.
AuthGate ==
    \A c \in Calls : Rejected(rv[c].cred) =>
        out[c] \in {"none", "auth"} /\ pc[c] \notin {"find", "create", "object"}

\* As long as all steps are calm metadata is write-once: Put never replaces
\* what is recorded.
RecordedOnce ==
    [][calm' => \A o \in Oids : objects[o] # None => objects'[o] = objects[o]]_vars

\* As long as all steps are calm the MetaObject a caller was given, and that
\* PutHandler checks the upload against, is the one on record.
SnapshotCurrent ==
    calm => \A c \in Calls : out[c] \in {"found", "existing", "new"} =>
        got[c] # None /\ objects[rv[c].oid] = got[c]

-----------------------------------------------------------------------------
(* Inductive invariants                                                    *)

\* Where a call can be, given what it was called for.
PcInv ==
    \A c \in Calls :
        /\ op[c] = "get" => pc[c] \in {"idle", "get_auth", "get_view"}
        /\ pc[c] = "create" => rv[c].repo \in Repos
        /\ pc[c] # "idle" => out[c] = "none"
        /\ out[c] \in {"found", "existing", "new"} => rv[c].oid \in Oids

\* For ProjectFirst: Put reaches its last step with the project.
ProjectInv ==
    \A c \in Calls :
        pc[c] = "object" /\ rv[c].repo # "" => projects[rv[c].repo] # {}

\* For AuthGate: such a call does not get past its first check.
GateInv ==
    \A c \in Calls : Rejected(rv[c].cred) =>
        /\ out[c] \in {"none", "auth"}
        /\ pc[c] \in IF op[c] = "put" THEN {"idle", "auth"} ELSE {"idle", "get_auth"}

\* For RecordedOnce and SnapshotCurrent: in calm behaviours a Put that has
\* found nothing is alone with its object, so there is still nothing.
PutInv ==
    calm => \A c \in Calls : ActivePut(c) =>
        /\ pc[c] = "get_auth" => authenticate(rv[c].cred)
        /\ pc[c] \in {"find", "create", "object"} => Lookup(rv[c].oid) = None
        /\ \A d \in Calls : ActivePut(d) /\ rv[d].oid = rv[c].oid => d = c

\* The inductive invariant of Spec, with TypeOK.
IInv == PcInv /\ ProjectInv /\ GateInv /\ PutInv

-----------------------------------------------------------------------------
(* Refinement: in calm behaviours the store is a write-once register.      *)

stateBar == [c \in Calls |-> IF pc[c] = "idle" THEN "idle" ELSE "busy"]
keyBar   == [c \in Calls |-> rv[c].oid]
metaBar  == [c \in Calls |-> [size |-> rv[c].size, repo |-> rv[c].repo]]

WM == INSTANCE WriteOnceMeta WITH
    Keys <- Oids \cup {""}, Failures <- {"auth", "error"},
    record <- objects, state <- stateBar, key <- keyBar, meta <- metaBar

\* As long as all steps are calm, every call is one step on the object it is
\* about, although Put is up to six transactions: it records metadata for an
\* object that has none, or returns the metadata on record.
Refines == WM!Init /\ [][calm' => [WM!Next]_(WM!vars)]_vars

=============================================================================
