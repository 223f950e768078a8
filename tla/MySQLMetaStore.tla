--------------------------- MODULE MySQLMetaStore ---------------------------
(***************************************************************************)
(* The MySQL meta store (mysql_meta_store.go).                             *)
(*                                                                         *)
(* Every SQL statement commits by itself, so every statement is a step;    *)
(* oids has a primary key, the name of a project is unique, oid_maps has   *)
(* no key.  A statement may fail.  Which errors are looked at differs from *)
(* statement to statement: createOid drops its error, findOid and the      *)
(* first query of findProject take it for "not found", the second query    *)
(* dereferences nil, addOidToProject checks the error of the insert only.  *)
(***************************************************************************)
EXTENDS Naturals

CONSTANTS
    Calls,        \* goroutines that call Get or Put
    Users, Passwords, Oids, Repos, Sizes,
    Requests,     \* the RequestVars of the calls considered
    NoCred,       \* no usable credentials
    None,         \* no row
    Modes,        \* configurations considered: "public", "local", "ldap"
    LdapPass,     \* the passwords the LDAP directory holds (external)
    MaxMaps,      \* bound: rows of oid_maps for one object and project are
                  \* counted up to here, which stands for "or more"
    MaxFaults,    \* bound: statements that fail
    MaxCrashes    \* bound: restarts of the process

\* The project id 0, which no project has.
NoProject == ""

Creds   == [user : Users, pass : Passwords] \cup {NoCred}
ReqVars == [cred : Creds, oid : Oids, size : Sizes, repo : Repos \cup {""}]

ASSUME NamesAssumption  == "" \notin Oids /\ "" \notin Repos
ASSUME NoneAssumption   == None \notin Sizes
ASSUME CredAssumption   == NoCred \notin [user : Users, pass : Passwords]
ASSUME ModesAssumption  == Modes \subseteq {"public", "local", "ldap"}
ASSUME LdapAssumption   == LdapPass \in [Users -> Passwords]
ASSUME BoundsAssumption ==
    MaxMaps \in Nat \ {0, 1} /\ MaxFaults \in Nat /\ MaxCrashes \in Nat
ASSUME RequestsAssumption == Requests \subseteq ReqVars /\ Requests # {}

VARIABLES
    \* the tables
    oids,      \* oid -> size
    projects,  \* the names of the projects; a name stands for its id
    maps,      \* maps[o][p]: how many rows of oid_maps have o and p
    mode,
    \* one call of Get or Put per goroutine
    pc, op, rv,
    id,        \* the project id addOidToProject has read
    got,       \* the size in the MetaObject returned
    out,       \* how the current or last call ended
    faults, crashes,
    calm       \* history: every step so far was calm (see Calm)

tables == <<oids, projects, maps>>
calls  == <<pc, op, rv, id, got, out>>
vars   == <<tables, mode, calls, faults, crashes, calm>>

Init ==
    /\ oids     = [o \in Oids |-> None]
    /\ projects = {}
    /\ maps     = [o \in Oids |-> [p \in Repos \cup {NoProject} |-> 0]]
    /\ mode \in Modes
    /\ pc  = [c \in Calls |-> "idle"]
    /\ op  = [c \in Calls |-> "get"]
    /\ rv  = [c \in Calls |-> CHOOSE v \in Requests : TRUE]
    /\ id  = [c \in Calls |-> NoProject]
    /\ got = [c \in Calls |-> None]
    /\ out = [c \in Calls |-> "none"]
    /\ faults = 0 /\ crashes = 0
    /\ calm = TRUE

-----------------------------------------------------------------------------
(* Helpers                                                                 *)

\* The statement is executed, or it fails.
Ok    == UNCHANGED faults
Fault == faults < MaxFaults /\ faults' = faults + 1

Goto(c, p) == pc' = [pc EXCEPT ![c] = p] /\ UNCHANGED <<op, rv, id, got, out>>

Return(c, r, m) ==
    /\ pc'  = [pc EXCEPT ![c] = "idle"]
    /\ out' = [out EXCEPT ![c] = r]
    /\ got' = [got EXCEPT ![c] = m]
    /\ id'  = [id EXCEPT ![c] = NoProject]
    /\ UNCHANGED <<op, rv>>

PutDone(c) == Return(c, "new", rv[c].size)

\* authenticate knows no users of its own; the directory may be out of reach
\* at any time.
Passes(k)  == mode = "public" \/ (mode = "ldap" /\ k # NoCred /\ LdapPass[k.user] = k.pass)
Refuses(k) == mode # "public"

-----------------------------------------------------------------------------
(* Get and Put                                                             *)

Call(c, f, v) ==
    /\ pc[c] = "idle"
    /\ pc'  = [pc EXCEPT ![c] = IF f = "put" THEN "auth" ELSE "get_auth"]
    /\ op'  = [op EXCEPT ![c] = f]
    /\ rv'  = [rv EXCEPT ![c] = v]
    /\ got' = [got EXCEPT ![c] = None]
    /\ out' = [out EXCEPT ![c] = "none"]
    /\ UNCHANGED <<tables, mode, id, faults, crashes>>

PutAuth(c) ==
    /\ pc[c] = "auth"
    /\ \/ Passes(rv[c].cred) /\ Goto(c, "get_auth")
       \/ Refuses(rv[c].cred) /\ Return(c, "auth", None)
    /\ UNCHANGED <<tables, mode, faults, crashes>>

\* Get authenticates; Put takes the error for "does not exist".
GetAuth(c) ==
    /\ pc[c] = "get_auth"
    /\ \/ Passes(rv[c].cred) /\ Goto(c, "find_oid")
       \/ /\ Refuses(rv[c].cred)
          /\ IF op[c] = "put" THEN Goto(c, "oid") ELSE Return(c, "auth", None)
    /\ UNCHANGED <<tables, mode, faults, crashes>>

\* Mutant: Put does not look at what Get found.
FindOidIgnored(c) ==
    /\ pc[c] = "find_oid"
    /\ Ok
    /\ IF op[c] = "put" THEN Goto(c, "oid") ELSE Return(c, "missing", None)
    /\ UNCHANGED <<tables, mode, crashes>>

\* findOid.
FindOid(c) ==
    /\ pc[c] = "find_oid"
    /\ LET s == oids[rv[c].oid] IN
        \/ /\ Ok /\ s # None
           /\ Return(c, IF op[c] = "put" THEN "existing" ELSE "found", s)
        \/ /\ (Ok /\ s = None) \/ Fault
           /\ IF op[c] = "put" THEN Goto(c, "oid") ELSE Return(c, "missing", None)
    /\ UNCHANGED <<tables, mode, crashes>>

\* Mutant: the insert replaces a row that is there.
CreateOidReplaces(c) ==
    /\ pc[c] = "oid"
    /\ Ok /\ oids' = [oids EXCEPT ![rv[c].oid] = rv[c].size]
    /\ IF rv[c].repo = "" THEN PutDone(c) ELSE Goto(c, "project")
    /\ UNCHANGED <<projects, maps, mode, crashes>>

\* createOid returns nil whether the insert succeeds, finds the key taken or
\* fails.
CreateOid(c) ==
    /\ pc[c] = "oid"
    /\ \/ Ok /\ oids' = [oids EXCEPT ![rv[c].oid] = IF @ = None THEN rv[c].size ELSE @]
       \/ Fault /\ UNCHANGED oids
    /\ IF rv[c].repo = "" THEN PutDone(c) ELSE Goto(c, "project")
    /\ UNCHANGED <<projects, maps, mode, crashes>>

\* Mutant: a project that is not found is not an error.
FindProjectLenient(c) ==
    /\ pc[c] = "project"
    /\ Ok /\ Goto(c, "map_id")
    /\ UNCHANGED <<tables, mode, crashes>>

\* findProject: the row of the project, then its oids.  Put gives up if
\* there is no project, and leaves the row it has written to oids.
FindProject(c) ==
    /\ pc[c] = "project"
    /\ \/ Ok /\ rv[c].repo \in projects /\ Goto(c, "map_id")
       \/ ((Ok /\ rv[c].repo \notin projects) \/ Fault) /\ Return(c, "noproject", None)
       \/ Fault /\ rv[c].repo \in projects /\ Return(c, "panic", None)
    /\ UNCHANGED <<tables, mode, crashes>>

\* addOidToProject: the error of the select is dropped and the id stays 0.
MapSelect(c) ==
    /\ pc[c] = "map_id"
    /\ \/ Ok /\ id' = [id EXCEPT ![c] = IF rv[c].repo \in projects THEN rv[c].repo ELSE NoProject]
       \/ Fault /\ id' = [id EXCEPT ![c] = NoProject]
    /\ pc' = [pc EXCEPT ![c] = "map"]
    /\ UNCHANGED <<tables, mode, op, rv, got, out, crashes>>

\* The insert adds a row, also if there is one.
MapInsert(c) ==
    /\ pc[c] = "map"
    /\ \/ /\ Ok /\ maps' = [maps EXCEPT ![rv[c].oid][id[c]] = IF @ < MaxMaps THEN @ + 1 ELSE @]
          /\ PutDone(c)
       \/ Fault /\ Return(c, "panic", None) /\ UNCHANGED maps
    /\ UNCHANGED <<oids, projects, mode, crashes>>

-----------------------------------------------------------------------------
\* AddProject: createProject fails if the name is taken.
AddProject(p) ==
    /\ p \notin projects
    /\ projects' = projects \cup {p}
    /\ UNCHANGED <<oids, maps, mode, calls, faults, crashes>>

\* A restart: createTables keeps tables that exist.
Crash ==
    /\ crashes < MaxCrashes
    /\ crashes' = crashes + 1
    /\ pc' = [c \in Calls |-> "idle"]
    /\ id' = [c \in Calls |-> NoProject]
    /\ UNCHANGED <<tables, mode, op, rv, got, out, faults>>

CallStep(c) ==
    \/ PutAuth(c) \/ GetAuth(c) \/ FindOid(c) \/ CreateOid(c)
    \/ FindProject(c) \/ MapSelect(c) \/ MapInsert(c)

Step ==
    \/ \E c \in Calls :
        CallStep(c) \/ \E f \in {"get", "put"}, v \in Requests : Call(c, f, v)
    \/ \E p \in Repos : AddProject(p)
    \/ Crash

-----------------------------------------------------------------------------
(* Calm steps: no statement fails, a Put does not begin while another Put  *)
(* of its object is in progress, and the directory stays in reach between  *)
(* the two authentications of a Put.                                       *)

ActivePut(c) == pc[c] # "idle" /\ op[c] = "put"

Calm ==
    /\ UNCHANGED faults
    /\ \A c \in Calls : ~(pc[c] = "get_auth" /\ pc'[c] = "oid")
    /\ \A c, d \in Calls :
        pc[c] = "idle" /\ pc'[c] = "auth" /\ ActivePut(d) => rv[d].oid # rv'[c].oid

Next == Step /\ calm' = (calm /\ Calm)

Spec == Init /\ [][Next]_vars

-----------------------------------------------------------------------------
(* Properties                                                              *)

Outcomes ==
    {"none", "auth", "missing", "found", "existing", "new", "noproject", "panic"}

\* Type correctness of the three tables and the calls of mysql_meta_store.go.
TypeOK ==
    /\ oids     \in [Oids -> Sizes \cup {None}]
    /\ projects \in SUBSET Repos
    /\ maps     \in [Oids -> [Repos \cup {NoProject} -> 0 .. MaxMaps]]
    /\ mode \in Modes
    /\ pc \in [Calls -> {"idle", "auth", "get_auth", "find_oid", "oid",
                         "project", "map_id", "map"}]
    /\ op  \in [Calls -> {"get", "put"}]
    /\ rv  \in [Calls -> ReqVars]
    /\ id  \in [Calls -> Repos \cup {NoProject}]
    /\ got \in [Calls -> Sizes \cup {None}]
    /\ out \in [Calls -> Outcomes]
    /\ faults \in 0 .. MaxFaults
    /\ crashes \in 0 .. MaxCrashes
    /\ calm \in BOOLEAN

\* Metadata is write-once, however calls overlap and statements fail: the
\* primary key keeps the first size.
RecordedOnce ==
    [][\A o \in Oids : oids[o] # None => oids'[o] = oids[o]]_vars

\* As long as no statement has failed, a row of oid_maps joins an object on
\* record with a project that exists.
MapsSound ==
    faults = 0 =>
        \A o \in Oids, p \in Repos \cup {NoProject} :
            maps[o][p] > 0 => oids[o] # None /\ p \in projects

\* As long as all steps are calm, an object is mapped to one project, once.
MapsOnce ==
    calm => \A o \in Oids, p, q \in Repos \cup {NoProject} :
        /\ maps[o][p] <= 1
        /\ maps[o][p] > 0 /\ maps[o][q] > 0 => p = q

-----------------------------------------------------------------------------
(* Inductive invariants                                                    *)

\* Where a call can be, given what it was called for.
PcInv ==
    \A c \in Calls :
        /\ op[c] = "get" => pc[c] \in {"idle", "get_auth", "find_oid"}
        /\ pc[c] \in {"project", "map_id", "map"} => rv[c].repo \in Repos
        /\ pc[c] # "idle" => out[c] = "none"

\* Of Spec, for MapsSound: what addOidToProject has been promised.
MapInv ==
    faults = 0 =>
        \A c \in Calls :
            /\ pc[c] \in {"project", "map_id", "map"} => oids[rv[c].oid] # None
            /\ pc[c] \in {"map_id", "map"} => rv[c].repo \in projects
            /\ pc[c] = "map" => id[c] = rv[c].repo

\* For MapsOnce and Refines: in calm behaviours a Put that is going to write
\* is alone with its object, and the object has no row yet, or no mapping.
AloneInv ==
    calm => /\ faults = 0
            /\ \A c \in Calls : ActivePut(c) =>
                /\ pc[c] = "oid" => oids[rv[c].oid] = None
                /\ pc[c] \in {"oid", "project", "map_id", "map"} =>
                    \A p \in Repos \cup {NoProject} : maps[rv[c].oid][p] = 0
                /\ \A d \in Calls : ActivePut(d) /\ rv[d].oid = rv[c].oid => d = c

\* The inductive invariant of Spec, with TypeOK, MapsSound and MapsOnce.
IInv == PcInv /\ MapInv /\ AloneInv

-----------------------------------------------------------------------------
(* Refinement: in calm behaviours the store is a write-once register.      *)

stateBar ==
    [c \in Calls |-> IF pc[c] = "idle" THEN "idle"
                     ELSE IF pc[c] \in {"project", "map_id", "map"} THEN "recorded"
                     ELSE "busy"]

keyBar  == [c \in Calls |-> rv[c].oid]
metaBar == [c \in Calls |-> rv[c].size]

WM == INSTANCE WriteOnceMeta WITH
    Keys <- Oids, Metas <- Sizes, Failures <- {"auth", "noproject", "panic"},
    record <- oids, state <- stateBar, key <- keyBar, meta <- metaBar

\* As long as all steps are calm, a call takes effect in one statement: Put
\* records a size for an object that has none, or returns the one on record,
\* and the statements after that are about the project alone.
Refines == WM!Init /\ [][calm' => [WM!Next]_(WM!vars)]_vars

=============================================================================
