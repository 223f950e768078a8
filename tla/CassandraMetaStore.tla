------------------------- MODULE CassandraMetaStore -------------------------
(***************************************************************************)
(* The Cassandra meta store (cassandra_meta_store.go).                     *)
(*                                                                         *)
(* There are no transactions: every CQL statement is a step, an insert or  *)
(* an update writes whether or not the row is there, and a statement may   *)
(* fail.  The error of a read is dropped, so the row is taken not to be    *)
(* there; the error of a write is a panic, which ends the request.         *)
(***************************************************************************)
EXTENDS Naturals

CONSTANTS
    Calls,        \* goroutines that call Get or Put
    Admins,       \* goroutines that call AddUser
    Users, Passwords, Oids, Repos, Sizes,
    Requests,     \* the RequestVars of the calls considered
    NoCred,       \* no usable credentials
    None,         \* no row
    Modes,        \* configurations considered: "public", "local", "ldap"
    LdapPass,     \* the passwords the LDAP directory holds (external)
    MaxFaults,    \* bound: statements that fail
    MaxCrashes    \* bound: restarts of the process

Creds   == [user : Users, pass : Passwords] \cup {NoCred}
ReqVars == [cred : Creds, oid : Oids \cup {""}, size : Sizes, repo : Repos \cup {""}]

ASSUME NamesAssumption  == "" \notin Oids /\ "" \notin Repos
ASSUME NoneAssumption   ==
    /\ None \notin Passwords
    /\ None \notin Sizes
    /\ \A S \in SUBSET Oids : S # None
    /\ None \notin [user : Users, pass : Passwords]
ASSUME CredAssumption   == NoCred \notin [user : Users, pass : Passwords]
ASSUME ModesAssumption  == Modes \subseteq {"public", "local", "ldap"}
ASSUME LdapAssumption   == LdapPass \in [Users -> Passwords]
ASSUME BoundsAssumption == MaxFaults \in Nat /\ MaxCrashes \in Nat
ASSUME RequestsAssumption == Requests \subseteq ReqVars /\ Requests # {}

VARIABLES
    \* the tables
    users,     \* user -> password (its bcrypt hash)
    oids,      \* oid -> size
    projects,  \* name -> set of oids
    mode,
    \* one call of Get or Put per goroutine
    pc, op, rv,
    got,       \* the size in the MetaObject returned
    out,       \* how the current or last call ended
    \* one AddUser per administrator
    adding,    \* the user and password to insert, or None
    faults, crashes,
    calm       \* history: every step so far was calm (see Calm)

tables == <<users, oids, projects>>
calls  == <<pc, op, rv, got, out>>
vars   == <<tables, mode, calls, adding, faults, crashes, calm>>

Init ==
    /\ users    = [u \in Users |-> None]
    /\ oids     = [o \in Oids |-> None]
    /\ projects = [p \in Repos |-> None]
    /\ mode \in Modes
    /\ pc  = [c \in Calls |-> "idle"]
    /\ op  = [c \in Calls |-> "get"]
    /\ rv  = [c \in Calls |-> CHOOSE v \in Requests : TRUE]
    /\ got = [c \in Calls |-> None]
    /\ out = [c \in Calls |-> "none"]
    /\ adding = [a \in Admins |-> None]
    /\ faults = 0 /\ crashes = 0
    /\ calm = TRUE

-----------------------------------------------------------------------------
(* Helpers                                                                 *)

\* The statement is executed, or it fails.
Ok    == UNCHANGED faults
Fault == faults < MaxFaults /\ faults' = faults + 1

Goto(c, p) == pc' = [pc EXCEPT ![c] = p] /\ UNCHANGED <<op, rv, got, out>>

Return(c, r, m) ==
    /\ pc'  = [pc EXCEPT ![c] = "idle"]
    /\ out' = [out EXCEPT ![c] = r]
    /\ got' = [got EXCEPT ![c] = m]
    /\ UNCHANGED <<op, rv>>

\* perror: the request ends without an answer, net/http recovers.
Panic(c) == Fault /\ Return(c, "panic", None)

\* The query for the empty oid has no row.
Lookup(o) == IF o \in Oids THEN oids[o] ELSE None

\* Credentials that match the users table, or that the directory confirms.
Matching(k) ==
    \/ mode = "public"
    \/ /\ k # NoCred
       /\ \/ mode = "ldap" /\ LdapPass[k.user] = k.pass
          \/ mode = "local" /\ users[k.user] = k.pass

\* authenticate says no also if the directory cannot be reached (at any
\* time) or findUser fails.
Passes(k)  == Ok /\ Matching(k)
Refuses(k) ==
    \/ Ok /\ (~Matching(k) \/ (mode = "ldap" /\ k # NoCred))
    \/ Fault /\ mode = "local" /\ k # NoCred

-----------------------------------------------------------------------------
(* Get and Put                                                             *)

Call(c, f, v) ==
    /\ pc[c] = "idle"
    /\ pc'  = [pc EXCEPT ![c] = IF f = "put" THEN "auth" ELSE "get_auth"]
    /\ op'  = [op EXCEPT ![c] = f]
    /\ rv'  = [rv EXCEPT ![c] = v]
    /\ got' = [got EXCEPT ![c] = None]
    /\ out' = [out EXCEPT ![c] = "none"]
    /\ UNCHANGED <<tables, mode, adding, faults, crashes>>

PutAuth(c) ==
    /\ pc[c] = "auth"
    /\ \/ Passes(rv[c].cred) /\ Goto(c, "get_auth")
       \/ Refuses(rv[c].cred) /\ Return(c, "auth", None)
    /\ UNCHANGED <<tables, mode, adding, crashes>>

\* Get authenticates; Put takes the error for "does not exist".
GetAuth(c) ==
    /\ pc[c] = "get_auth"
    /\ \/ Passes(rv[c].cred) /\ Goto(c, "find_oid")
       \/ /\ Refuses(rv[c].cred)
          /\ IF op[c] = "put" THEN Goto(c, "oid") ELSE Return(c, "auth", None)
    /\ UNCHANGED <<tables, mode, adding, crashes>>

\* Mutant: Put does not look at what Get found.
FindOidIgnored(c) ==
    /\ pc[c] = "find_oid"
    /\ Ok
    /\ IF op[c] = "put" THEN Goto(c, "oid") ELSE Return(c, "missing", None)
    /\ UNCHANGED <<tables, mode, adding, crashes>>

\* findOid.
FindOid(c) ==
    /\ pc[c] = "find_oid"
    /\ LET o == rv[c].oid IN
        \/ /\ Ok /\ Lookup(o) # None
           /\ Return(c, IF op[c] = "put" THEN "existing" ELSE "found", Lookup(o))
        \/ /\ (Ok /\ Lookup(o) = None) \/ Fault
           /\ IF op[c] = "put" THEN Goto(c, "oid") ELSE Return(c, "missing", None)
    /\ UNCHANGED <<tables, mode, adding, crashes>>

\* The request is done: the MetaObject it put together is returned.
PutDone(c) == Return(c, "new", rv[c].size)

\* Mutant: the error of the insert is dropped.
CreateOidUnchecked(c) ==
    /\ pc[c] = "oid"
    /\ LET v == rv[c] IN
        \/ Ok /\ v.oid # "" /\ oids' = [oids EXCEPT ![v.oid] = v.size]
        \/ ((v.oid = "" /\ Ok) \/ Fault) /\ UNCHANGED oids
    /\ IF rv[c].repo = "" THEN PutDone(c) ELSE Goto(c, "project")
    /\ UNCHANGED <<users, projects, mode, adding, crashes>>

\* createOid: an upsert; the empty key is an error.
CreateOid(c) ==
    /\ pc[c] = "oid"
    /\ LET v == rv[c] IN
        \/ /\ Ok /\ v.oid # ""
           /\ oids' = [oids EXCEPT ![v.oid] = v.size]
           /\ IF v.repo = "" THEN PutDone(c) ELSE Goto(c, "project")
        \/ Panic(c) /\ UNCHANGED oids
        \/ v.oid = "" /\ Ok /\ Return(c, "panic", None) /\ UNCHANGED oids
    /\ UNCHANGED <<users, projects, mode, adding, crashes>>

\* findProject.
FindProject(c) ==
    /\ pc[c] = "project"
    /\ \/ Ok /\ projects[rv[c].repo] # None /\ Goto(c, "map")
       \/ ((Ok /\ projects[rv[c].repo] = None) \/ Fault) /\ Goto(c, "count")
    /\ UNCHANGED <<tables, mode, adding, crashes>>

\* createProject counts first; without a count the type assertion panics.
CountProject(c) ==
    /\ pc[c] = "count"
    /\ \/ Ok /\ Goto(c, IF projects[rv[c].repo] # None THEN "map" ELSE "insert")
       \/ Panic(c)
    /\ UNCHANGED <<tables, mode, adding, crashes>>

\* Mutant: the insert sets the oids too.
InsertProjectEmpty(c) ==
    /\ pc[c] = "insert"
    /\ Ok /\ projects' = [projects EXCEPT ![rv[c].repo] = {}]
    /\ Goto(c, "map")
    /\ UNCHANGED <<users, oids, mode, adding, crashes>>

\* The insert writes the name only: oids that another call has added in the
\* meantime stay.
InsertProject(c) ==
    /\ pc[c] = "insert"
    /\ \/ /\ Ok
          /\ projects' = [projects EXCEPT ![rv[c].repo] = IF @ = None THEN {} ELSE @]
          /\ Goto(c, "map")
       \/ Panic(c) /\ UNCHANGED projects
    /\ UNCHANGED <<users, oids, mode, adding, crashes>>

\* addOidToProject: one update, which makes the row if it has to.
AddOidToProject(c) ==
    /\ pc[c] = "map"
    /\ \/ /\ Ok
          /\ projects' = [projects EXCEPT ![rv[c].repo] =
                            (IF @ = None THEN {} ELSE @) \cup {rv[c].oid}]
          /\ PutDone(c)
       \/ Panic(c) /\ UNCHANGED projects
    /\ UNCHANGED <<users, oids, mode, adding, crashes>>

-----------------------------------------------------------------------------
(* User management                                                         *)

\* Mutant: AddUser does not look whether the user is there.
AddUserFindIgnored(a, u, p) ==
    /\ mode # "ldap" /\ adding[a] = None
    /\ Ok
    /\ adding' = [adding EXCEPT ![a] = [user |-> u, pass |-> p]]
    /\ UNCHANGED <<tables, mode, calls, crashes>>

\* AddUser: findUser; nothing is done if the user is there.
AddUserFind(a, u, p) ==
    /\ mode # "ldap" /\ adding[a] = None
    /\ (Ok /\ users[u] = None) \/ Fault
    /\ adding' = [adding EXCEPT ![a] = [user |-> u, pass |-> p]]
    /\ UNCHANGED <<tables, mode, calls, crashes>>

\* The insert writes whether or not the user has been added meanwhile; its
\* error is returned.
AddUserInsert(a) ==
    /\ adding[a] # None
    /\ \/ Ok /\ users' = [users EXCEPT ![adding[a].user] = adding[a].pass]
       \/ Fault /\ UNCHANGED users
    /\ adding' = [adding EXCEPT ![a] = None]
    /\ UNCHANGED <<oids, projects, mode, calls, crashes>>

DeleteUser(u) ==
    /\ mode # "ldap"
    /\ Ok /\ users' = [users EXCEPT ![u] = None]
    /\ UNCHANGED <<oids, projects, mode, calls, adding, crashes>>

\* A restart: NewCassandraSession keeps the tables.
Crash ==
    /\ crashes < MaxCrashes
    /\ crashes' = crashes + 1
    /\ pc'  = [c \in Calls |-> "idle"]
    /\ adding' = [a \in Admins |-> None]
    /\ UNCHANGED <<tables, mode, op, rv, got, out, faults>>

CallStep(c) ==
    \/ PutAuth(c) \/ GetAuth(c) \/ FindOid(c) \/ CreateOid(c)
    \/ FindProject(c) \/ CountProject(c) \/ InsertProject(c) \/ AddOidToProject(c)

Step ==
    \/ \E c \in Calls :
        CallStep(c) \/ \E f \in {"get", "put"}, v \in Requests : Call(c, f, v)
    \/ \E a \in Admins :
        AddUserInsert(a) \/ \E u \in Users, p \in Passwords : AddUserFind(a, u, p)
    \/ \E u \in Users : DeleteUser(u)
    \/ Crash

-----------------------------------------------------------------------------
(* Calm steps: no statement fails, a Put does not begin while another Put  *)
(* of its object is in progress, nor an AddUser while another one adds the *)
(* same user, and nobody loses access between the two authentications of a *)
(* Put.                                                                    *)

ActivePut(c) == pc[c] # "idle" /\ op[c] = "put"

Calm ==
    /\ UNCHANGED faults
    /\ \A c \in Calls : ~(pc[c] = "get_auth" /\ pc'[c] = "oid")
    /\ \A c, d \in Calls :
        pc[c] = "idle" /\ pc'[c] = "auth" /\ ActivePut(d) => rv[d].oid # rv'[c].oid
    /\ \A a, b \in Admins :
        adding'[a] # None /\ adding'[b] # None /\ adding'[a].user = adding'[b].user => a = b

Next == Step /\ calm' = (calm /\ Calm)

Spec == Init /\ [][Next]_vars

-----------------------------------------------------------------------------
(* Properties                                                              *)

Outcomes == {"none", "auth", "missing", "found", "existing", "new", "panic"}

\* Type correctness of the three tables and the calls of cassandra_meta_store.go.
TypeOK ==
    /\ users    \in [Users -> Passwords \cup {None}]
    /\ oids     \in [Oids -> Sizes \cup {None}]
    /\ projects \in [Repos -> (SUBSET Oids) \cup {None}]
    /\ mode \in Modes
    /\ pc \in [Calls -> {"idle", "auth", "get_auth", "find_oid", "oid",
                         "project", "count", "insert", "map"}]
    /\ op  \in [Calls -> {"get", "put"}]
    /\ rv  \in [Calls -> ReqVars]
    /\ got \in [Calls -> Sizes \cup {None}]
    /\ out \in [Calls -> Outcomes]
    /\ adding \in [Admins -> [user : Users, pass : Passwords] \cup {None}]
    /\ faults \in 0 .. MaxFaults
    /\ crashes \in 0 .. MaxCrashes
    /\ calm \in BOOLEAN

Lists(p, o) == projects[p] # None /\ o \in projects[p]

\* A project never lists an object that has no metadata, wherever a failed
\* statement, a restart or another call cuts into Put.
ListedRecorded == \A p \in Repos, o \in Oids : Lists(p, o) => oids[o] # None

\* Put returns a new object only when the object is recorded and its project
\* lists it, whatever other calls create the same project at that time.
NewComplete ==
    \A c \in Calls : out[c] = "new" =>
        /\ rv[c].oid \in Oids /\ oids[rv[c].oid] # None
        /\ rv[c].repo # "" => Lists(rv[c].repo, rv[c].oid)

\* As long as all steps are calm, metadata is write-once.
RecordedOnce ==
    [][calm' => \A o \in Oids : oids[o] # None => oids'[o] = oids[o]]_vars

\* As long as all steps are calm, AddUser leaves the password of a user who
\* is there alone.
PasswordKept ==
    [][calm' => \A u \in Users :
        users[u] # None /\ users'[u] # None => users'[u] = users[u]]_vars

-----------------------------------------------------------------------------
(* Inductive invariants                                                    *)

\* Of Spec, for ListedRecorded and NewComplete: past createOid the object is
\* recorded.
WriteInv ==
    \A c \in Calls :
        /\ op[c] = "get" => pc[c] \in {"idle", "get_auth", "find_oid"} /\ out[c] # "new"
        /\ pc[c] # "idle" => out[c] = "none"
        /\ pc[c] \in {"project", "count", "insert", "map"} =>
            rv[c].repo \in Repos /\ rv[c].oid \in Oids /\ oids[rv[c].oid] # None

\* For RecordedOnce: in calm behaviours a Put that is about to write is alone
\* with its object and there is nothing on record.
AloneInv ==
    calm => \A c \in Calls : ActivePut(c) =>
        /\ pc[c] = "oid" => Lookup(rv[c].oid) = None
        /\ \A d \in Calls : ActivePut(d) /\ rv[d].oid = rv[c].oid => d = c

\* For PasswordKept: in calm behaviours a user who is about to be inserted is
\* not there, and nobody else inserts the same user.
AddingInv ==
    calm => \A a \in Admins : adding[a] # None =>
        /\ users[adding[a].user] = None
        /\ \A b \in Admins :
            adding[b] # None /\ adding[b].user = adding[a].user => b = a

\* The inductive invariant of Spec, with TypeOK and ListedRecorded.
IInv == WriteInv /\ AloneInv /\ AddingInv

-----------------------------------------------------------------------------
(* Refinement: in calm behaviours the store is a write-once register.      *)

stateBar ==
    [c \in Calls |-> IF pc[c] = "idle" THEN "idle"
                     ELSE IF pc[c] \in {"project", "count", "insert", "map"} THEN "recorded"
                     ELSE "busy"]

keyBar  == [c \in Calls |-> rv[c].oid]
metaBar == [c \in Calls |-> rv[c].size]

WM == INSTANCE WriteOnceMeta WITH
    Keys <- Oids \cup {""}, Metas <- Sizes, Failures <- {"auth", "panic"},
    record <- oids, state <- stateBar, key <- keyBar, meta <- metaBar

\* As long as all steps are calm, a call takes effect in one statement: Put
\* records a size for an object that has none, or returns the one on record,
\* and the statements after that are about the project alone.
Refines == WM!Init /\ [][calm' => [WM!Next]_(WM!vars)]_vars

=============================================================================
