---------------------- MODULE CassandraMetaStoreProofs ----------------------
(***************************************************************************)
(* Theorems about CassandraMetaStore, for any set of calls, administrators, *)
(* users, objects and projects, however statements fail.                   *)
(***************************************************************************)
EXTENDS CassandraMetaStore, TLAPS

-----------------------------------------------------------------------------
(* Types                                                                   *)

\* The part of TypeOK that is about the calls of Get and Put.
CallsOK ==
    /\ pc \in [Calls -> {"idle", "auth", "get_auth", "find_oid", "oid",
                         "project", "count", "insert", "map"}]
    /\ op  \in [Calls -> {"get", "put"}]
    /\ rv  \in [Calls -> ReqVars]
    /\ got \in [Calls -> Sizes \cup {None}]
    /\ out \in [Calls -> Outcomes]

\* The part of TypeOK that is about the tables, AddUser and the bounds.
TablesOK ==
    /\ users    \in [Users -> Passwords \cup {None}]
    /\ oids     \in [Oids -> Sizes \cup {None}]
    /\ projects \in [Repos -> (SUBSET Oids) \cup {None}]
    /\ mode \in Modes
    /\ adding \in [Admins -> [user : Users, pass : Passwords] \cup {None}]
    /\ faults \in 0 .. MaxFaults
    /\ crashes \in 0 .. MaxCrashes

\* What each call has done so far.  The first two parts of WriteInv, and that a
\* call past createOid has an object and a project to work with.
ControlInv ==
    \A c \in Calls :
        /\ op[c] = "get" => pc[c] \in {"idle", "get_auth", "find_oid"} /\ out[c] # "new"
        /\ pc[c] # "idle" => out[c] = "none"
        /\ pc[c] \in {"project", "count", "insert", "map"} =>
            rv[c].repo \in Repos /\ rv[c].oid \in Oids

\* The empty tables and idle calls have the right types.
LEMMA TypeInit == Init => TypeOK /\ ControlInv
<1> SUFFICES ASSUME Init PROVE TypeOK /\ ControlInv
  OBVIOUS
<1>1. (CHOOSE v \in Requests : TRUE) \in ReqVars
  BY RequestsAssumption
<1>2. rv \in [Calls -> ReqVars]
  BY <1>1 DEF Init
<1>3. TypeOK
  BY <1>2, BoundsAssumption DEF Init, TypeOK, Outcomes
<1> QED
  BY <1>3 DEF Init, ControlInv

\* What a call is about.
LEMMA ReqTypes ==
  ASSUME CallsOK, NEW c \in Calls
  PROVE  /\ rv[c].oid \in Oids \cup {""} /\ rv[c].size \in Sizes
         /\ rv[c].repo \in Repos \cup {""}
BY DEF CallsOK, ReqVars

\* A statement that is executed or fails keeps the count of failures in bounds.
LEMMA FaultsKeep ==
  ASSUME TablesOK, Ok \/ Fault
  PROVE  faults' \in 0 .. MaxFaults
BY BoundsAssumption DEF TablesOK, Ok, Fault

\* A call of Get or Put that goes on to its next statement keeps its types.
LEMMA GotoKeeps ==
  ASSUME CallsOK, ControlInv, NEW c \in Calls, pc[c] # "idle",
         NEW p \in {"get_auth", "find_oid", "oid", "project", "count", "insert", "map"},
         Goto(c, p),
         p \in {"project", "count", "insert", "map"} =>
            rv[c].repo \in Repos /\ rv[c].oid \in Oids,
         op[c] = "get" => p \in {"get_auth", "find_oid"}
  PROVE  CallsOK' /\ ControlInv'
<1>1. CallsOK'
  BY DEF CallsOK, Goto
<1>2. ControlInv'
  BY DEF CallsOK, ControlInv, Goto
<1> QED
  BY <1>1, <1>2

\* A call of Get or Put that returns keeps its types.
LEMMA ReturnKeeps ==
  ASSUME CallsOK, ControlInv, NEW c \in Calls, NEW r \in Outcomes,
         NEW m \in Sizes \cup {None}, Return(c, r, m),
         op[c] = "get" => r # "new"
  PROVE  CallsOK' /\ ControlInv'
<1>1. CallsOK'
  BY DEF CallsOK, Return
<1>2. ControlInv'
  BY DEF CallsOK, ControlInv, Return
<1> QED
  BY <1>1, <1>2

\* The steps of one call: each of the statements of Get and Put keeps the types
\* of the calls.
LEMMA CallStepKeeps ==
  ASSUME CallsOK, TablesOK, ControlInv, NEW c \in Calls, CallStep(c)
  PROVE  CallsOK' /\ ControlInv'
<1> DEFINE Done(r) == Return(c, r, None)
<1>0. /\ \A p \in {"get_auth", "find_oid"} :
            pc[c] # "idle" /\ Goto(c, p) => CallsOK' /\ ControlInv'
      /\ \A r \in {"auth", "missing", "panic"} : Done(r) => CallsOK' /\ ControlInv'
      /\ op[c] # "get" /\ PutDone(c) => CallsOK' /\ ControlInv'
  <2>1. \A p \in {"get_auth", "find_oid"} :
            pc[c] # "idle" /\ Goto(c, p) => CallsOK' /\ ControlInv'
    BY GotoKeeps
  <2>2. \A r \in {"auth", "missing", "panic"} : Done(r) => CallsOK' /\ ControlInv'
    BY ReturnKeeps DEF Outcomes
  <2>3. op[c] # "get" /\ PutDone(c) => CallsOK' /\ ControlInv'
    BY ReturnKeeps, ReqTypes DEF PutDone, Outcomes
  <2> QED
    BY <2>1, <2>2, <2>3
<1>1. CASE PutAuth(c)
  BY <1>0, <1>1 DEF PutAuth
<1>2. CASE GetAuth(c)
  <2>1. CASE op[c] = "put" /\ Goto(c, "oid")
    BY <1>2, <2>1, GotoKeeps DEF GetAuth
  <2> QED
    BY <1>0, <1>2, <2>1 DEF GetAuth
<1>3. CASE FindOid(c)
  <2> DEFINE s == Lookup(rv[c].oid)
  <2>1. s \in Sizes \cup {None}
    BY ReqTypes DEF TablesOK, Lookup
  <2> HIDE DEF s
  <2>2. CASE Return(c, IF op[c] = "put" THEN "existing" ELSE "found", s)
    BY <2>1, <2>2, ReturnKeeps DEF Outcomes
  <2>3. CASE op[c] = "put" /\ Goto(c, "oid")
    BY <1>3, <2>3, GotoKeeps DEF FindOid
  <2> QED
    BY <1>0, <1>3, <2>2, <2>3 DEF FindOid, s
<1>4. CASE CreateOid(c)
  <2>1. op[c] # "get"
    BY <1>4 DEF CreateOid, ControlInv
  <2>2. CASE rv[c].oid # "" /\ rv[c].repo # "" /\ Goto(c, "project")
    BY <1>4, <2>1, <2>2, ReqTypes, GotoKeeps DEF CreateOid
  <2> QED
    BY <1>0, <1>4, <2>1, <2>2 DEF CreateOid, Panic
<1>5. ASSUME pc[c] \in {"project", "count", "insert", "map"}
      PROVE  /\ op[c] # "get"
             /\ \A p \in {"count", "insert", "map"} :
                    Goto(c, p) => CallsOK' /\ ControlInv'
  <2>1. op[c] # "get" /\ rv[c].repo \in Repos /\ rv[c].oid \in Oids
    BY <1>5 DEF ControlInv
  <2> QED
    BY <1>5, <2>1, GotoKeeps
<1>6. CASE FindProject(c)
  BY <1>5, <1>6 DEF FindProject
<1>7. CASE CountProject(c)
  BY <1>0, <1>5, <1>7 DEF CountProject, Panic
<1>8. CASE InsertProject(c)
  BY <1>0, <1>5, <1>8 DEF InsertProject, Panic
<1>9. CASE AddOidToProject(c)
  BY <1>0, <1>5, <1>9 DEF AddOidToProject, Panic
<1> QED
  BY <1>1, <1>2, <1>3, <1>4, <1>6, <1>7, <1>8, <1>9 DEF CallStep

\* ... and the types of the tables.
LEMMA CallStepTables ==
  ASSUME CallsOK, TablesOK, ControlInv, NEW c \in Calls, CallStep(c)
  PROVE  TablesOK'
<1>0. faults' \in 0 .. MaxFaults
  BY FaultsKeep DEF CallStep, PutAuth, GetAuth, FindOid, CreateOid, FindProject,
     CountProject, InsertProject, AddOidToProject, Passes, Refuses, Panic
<1>1. UNCHANGED <<users, mode, adding, crashes>>
  BY DEF CallStep, PutAuth, GetAuth, FindOid, CreateOid, FindProject,
     CountProject, InsertProject, AddOidToProject, tables
<1>2. oids' \in [Oids -> Sizes \cup {None}]
  <2>1. CASE CreateOid(c)
    BY <2>1, ReqTypes DEF CreateOid, TablesOK
  <2> QED
    BY <2>1 DEF CallStep, PutAuth, GetAuth, FindOid, FindProject, CountProject,
       InsertProject, AddOidToProject, tables, TablesOK
<1>3. projects' \in [Repos -> (SUBSET Oids) \cup {None}]
  <2>1. CASE InsertProject(c)
    BY <2>1 DEF InsertProject, TablesOK
  <2>2. CASE AddOidToProject(c)
    <3>1. rv[c].repo \in Repos /\ rv[c].oid \in Oids
      BY <2>2 DEF AddOidToProject, ControlInv
    <3> DEFINE S == IF projects[rv[c].repo] = None THEN {} ELSE projects[rv[c].repo]
    <3>2. S \cup {rv[c].oid} \in SUBSET Oids
      BY <3>1 DEF TablesOK
    <3>3. UNCHANGED projects
            \/ projects' = [projects EXCEPT ![rv[c].repo] = S \cup {rv[c].oid}]
      BY <2>2 DEF AddOidToProject
    <3> HIDE DEF S
    <3> QED
      BY <3>2, <3>3 DEF TablesOK
  <2> QED
    BY <2>1, <2>2 DEF CallStep, PutAuth, GetAuth, FindOid, CreateOid, FindProject,
       CountProject, tables, TablesOK
<1> QED
  BY <1>0, <1>1, <1>2, <1>3 DEF TablesOK

\* Every statement, user management and restart keeps the types.
LEMMA TypeNext == TypeOK /\ ControlInv /\ [Next]_vars => TypeOK' /\ ControlInv'
<1> SUFFICES ASSUME TypeOK, ControlInv, [Next]_vars PROVE TypeOK' /\ ControlInv'
  OBVIOUS
<1>0. CallsOK /\ TablesOK
  BY DEF TypeOK, CallsOK, TablesOK
<1>a. calm' \in BOOLEAN
  BY DEF TypeOK, Next, vars
<1>b. CallsOK' /\ TablesOK' => TypeOK'
  BY <1>a DEF CallsOK, TablesOK, TypeOK
<1>c. UNCHANGED calls => CallsOK' /\ ControlInv'
  BY <1>0 DEF calls, CallsOK, ControlInv
<1>1. ASSUME NEW c \in Calls, CallStep(c) PROVE TypeOK' /\ ControlInv'
  BY <1>0, <1>b, <1>1, CallStepKeeps, CallStepTables
<1>2. ASSUME NEW c \in Calls, NEW f \in {"get", "put"}, NEW v \in Requests, Call(c, f, v)
      PROVE  TypeOK' /\ ControlInv'
  <2>1. CallsOK'
    BY <1>0, <1>2, RequestsAssumption DEF CallsOK, Call, Outcomes
  <2>2. ControlInv'
    BY <1>0, <1>2 DEF ControlInv, CallsOK, Call
  <2>3. TablesOK'
    BY <1>0, <1>2 DEF Call, TablesOK, tables
  <2> QED
    BY <1>b, <2>1, <2>2, <2>3
<1>3. ASSUME NEW a \in Admins, AddUserInsert(a) PROVE TypeOK' /\ ControlInv'
  <2>1. adding[a].user \in Users /\ adding[a].pass \in Passwords
    BY <1>0, <1>3 DEF AddUserInsert, TablesOK
  <2>2. faults' \in 0 .. MaxFaults
    BY <1>0, <1>3, FaultsKeep DEF AddUserInsert
  <2>3. TablesOK'
    BY <1>0, <1>3, <2>1, <2>2 DEF AddUserInsert, TablesOK
  <2> QED
    BY <1>3, <1>b, <1>c, <2>3 DEF AddUserInsert
<1>4. ASSUME NEW a \in Admins, NEW u \in Users, NEW p \in Passwords, AddUserFind(a, u, p)
      PROVE  TypeOK' /\ ControlInv'
  <2>1. faults' \in 0 .. MaxFaults
    BY <1>0, <1>4, FaultsKeep DEF AddUserFind
  <2>2. TablesOK'
    BY <1>0, <1>4, <2>1 DEF AddUserFind, TablesOK, tables
  <2> QED
    BY <1>4, <1>b, <1>c, <2>2 DEF AddUserFind
<1>5. ASSUME NEW u \in Users, DeleteUser(u) PROVE TypeOK' /\ ControlInv'
  <2>1. TablesOK'
    BY <1>0, <1>5 DEF DeleteUser, TablesOK, Ok
  <2> QED
    BY <1>5, <1>b, <1>c, <2>1 DEF DeleteUser
<1>6. CASE Crash
  <2>1. CallsOK' /\ ControlInv'
    BY <1>0, <1>6 DEF Crash, CallsOK, ControlInv
  <2>2. crashes' \in 0 .. MaxCrashes
    BY <1>0, <1>6, BoundsAssumption DEF Crash, TablesOK
  <2>3. TablesOK'
    BY <1>0, <1>6, <2>2 DEF Crash, TablesOK, tables
  <2> QED
    BY <1>b, <2>1, <2>3
<1>7. CASE UNCHANGED vars
  BY <1>7 DEF vars, tables, calls, TypeOK, ControlInv
<1> QED
  BY <1>1, <1>2, <1>3, <1>4, <1>5, <1>6, <1>7 DEF Next, Step

\* The tables and the calls are well typed, whatever statements fail, and no
\* call of Get reaches the statements that write.
THEOREM TypeCorrect == Spec => [](TypeOK /\ ControlInv)
<1> QED
  BY TypeInit, TypeNext, PTL DEF Spec

-----------------------------------------------------------------------------
(* What Put leaves behind, wherever it is cut off                          *)

\* The size a request announces is not the value that stands for no row.
LEMMA SizeIsRow ==
  ASSUME TypeOK, NEW c \in Calls
  PROVE  rv[c].size # None
<1>1. rv[c].size \in Sizes
  BY ReqTypes DEF TypeOK, CallsOK
<1>2. None \notin Sizes
  BY NoneAssumption
<1> QED
  BY <1>1, <1>2

\* No statement removes the metadata of an object or an entry of a project.
LEMMA Monotone ==
  ASSUME TypeOK, ControlInv, [Next]_vars
  PROVE  /\ \A o \in Oids : oids[o] # None => oids'[o] # None
         /\ \A p \in Repos, o \in Oids : Lists(p, o) => Lists(p, o)'
<1>1. \A o \in Oids : oids[o] # None => oids'[o] # None
  <2>1. ASSUME NEW c \in Calls, CreateOid(c), NEW o \in Oids, oids[o] # None
        PROVE  oids'[o] # None
    <3>1. rv[c].size # None
      BY SizeIsRow
    <3> QED
      BY <2>1, <3>1 DEF CreateOid, TypeOK
  <2> QED
    BY <2>1 DEF Next, Step, CallStep, Call, PutAuth, GetAuth, FindOid, FindProject,
       CountProject, InsertProject, AddOidToProject, AddUserInsert, AddUserFind,
       DeleteUser, Crash, vars, tables
<1>2. ASSUME NEW p \in Repos, NEW o \in Oids, Lists(p, o) PROVE Lists(p, o)'
  <2>1. ASSUME NEW c \in Calls, InsertProject(c) PROVE Lists(p, o)'
    BY <1>2, <2>1 DEF InsertProject, TypeOK, Lists
  <2>2. ASSUME NEW c \in Calls, AddOidToProject(c) PROVE Lists(p, o)'
    <3>1. projects[p] \cup {rv[c].oid} # None
      <4>1. rv[c].oid \in Oids /\ projects[p] \in SUBSET Oids
        BY <1>2, <2>2 DEF AddOidToProject, ControlInv, Lists, TypeOK
      <4> QED
        BY <4>1, NoneAssumption
    <3> QED
      BY <1>2, <2>2, <3>1 DEF AddOidToProject, TypeOK, Lists
  <2> QED
    BY <1>2, <2>1, <2>2 DEF Next, Step, CallStep, Call, PutAuth, GetAuth, FindOid, CreateOid,
       FindProject, CountProject, AddUserInsert, AddUserFind, DeleteUser, Crash, vars,
       tables, Lists
<1> QED
  BY <1>1, <1>2

\* A step of Get or Put is about its own call.
LEMMA OtherCalls ==
  ASSUME TypeOK, NEW c \in Calls, NEW d \in Calls, d # c,
         CallStep(d) \/ \E f \in {"get", "put"}, v \in Requests : Call(d, f, v)
  PROVE  pc'[c] = pc[c] /\ op'[c] = op[c] /\ rv'[c] = rv[c] /\ out'[c] = out[c]
BY DEF CallStep, PutAuth, GetAuth, FindOid, CreateOid, FindProject, CountProject,
   InsertProject, AddOidToProject, Panic, PutDone, Call, Goto, Return, TypeOK

\* A call is about the same request until it returns, and a call that was not
\* past createOid gets there by recording its object.
LEMMA WriteInvNext ==
  ASSUME TypeOK, ControlInv, ControlInv', WriteInv, [Next]_vars
  PROVE  WriteInv'
<1> SUFFICES ASSUME NEW c \in Calls, pc'[c] \in {"project", "count", "insert", "map"}
             PROVE  oids'[rv'[c].oid] # None
  BY DEF WriteInv, ControlInv
<1>1. CASE pc[c] \in {"project", "count", "insert", "map"} /\ rv'[c] = rv[c]
  BY <1>1, Monotone DEF WriteInv
<1>2. ASSUME CreateOid(c) PROVE oids'[rv'[c].oid] # None
  <2>1. rv[c].size # None
    BY SizeIsRow
  <2>2. pc'[c] = "project"
         => rv'[c] = rv[c] /\ rv[c].oid \in Oids
            /\ oids' = [oids EXCEPT ![rv[c].oid] = rv[c].size]
    BY <1>2 DEF CreateOid, Goto, PutDone, Return, Panic, TypeOK, ReqVars
  <2>3. pc'[c] = "project"
    BY <1>2 DEF CreateOid, Goto, PutDone, Return, Panic, TypeOK
  <2> QED
    BY <2>1, <2>2, <2>3 DEF TypeOK
<1>3. ASSUME PutAuth(c) \/ GetAuth(c) \/ FindOid(c) PROVE FALSE
  BY <1>3 DEF PutAuth, GetAuth, FindOid, Goto, Return, TypeOK
<1>4. ASSUME FindProject(c) \/ CountProject(c) \/ InsertProject(c) \/ AddOidToProject(c)
      PROVE  pc[c] \in {"project", "count", "insert", "map"} /\ rv'[c] = rv[c]
  BY <1>4 DEF FindProject, CountProject, InsertProject, AddOidToProject, Panic, PutDone,
     Goto, Return
<1>5. ASSUME NEW f \in {"get", "put"}, NEW v \in Requests, Call(c, f, v) PROVE FALSE
  BY <1>5 DEF Call, TypeOK
<1>6. CASE UNCHANGED calls
  BY <1>1, <1>6 DEF calls
<1>7. CASE Crash
  BY <1>7 DEF Crash
<1> QED
  BY <1>1, <1>2, <1>3, <1>4, <1>5, <1>6, <1>7, OtherCalls
     DEF Next, Step, CallStep, AddUserInsert, AddUserFind, DeleteUser, vars

\* Past createOid the object of a Put is recorded, whatever fails afterwards.
THEOREM Written == Spec => []WriteInv
<1>1. Init => WriteInv
  BY DEF Init, WriteInv
<1>2. TypeOK /\ ControlInv /\ ControlInv' /\ WriteInv /\ [Next]_vars => WriteInv'
  BY WriteInvNext
<1> QED
  BY <1>1, <1>2, TypeCorrect, PTL DEF Spec

\* Only addOidToProject lists an object.
LEMMA ListedNext ==
  ASSUME TypeOK, ControlInv, WriteInv, ListedRecorded, [Next]_vars
  PROVE  ListedRecorded'
<1> SUFFICES ASSUME NEW p \in Repos, NEW o \in Oids, Lists(p, o)' PROVE oids'[o] # None
  BY DEF ListedRecorded
<1>1. CASE Lists(p, o)
  BY <1>1, Monotone DEF ListedRecorded
<1>2. ASSUME NEW c \in Calls, AddOidToProject(c), ~Lists(p, o) PROVE oids'[o] # None
  <2>1. o = rv[c].oid
    BY <1>2 DEF AddOidToProject, TypeOK, Lists
  <2> QED
    BY <1>2, <2>1, Monotone DEF AddOidToProject, WriteInv
<1>3. ASSUME NEW c \in Calls, InsertProject(c) PROVE Lists(p, o)
  BY <1>3 DEF InsertProject, TypeOK, Lists
<1> QED
  BY <1>1, <1>2, <1>3 DEF Next, Step, CallStep, Call, PutAuth, GetAuth, FindOid, CreateOid,
     FindProject, CountProject, AddUserInsert, AddUserFind, DeleteUser, Crash, vars,
     tables, Lists

\* Wherever a failed statement, a restart or another call cuts into Put, no
\* project lists an object without metadata.
THEOREM Listed == Spec => []ListedRecorded
<1>1. Init => ListedRecorded
  BY DEF Init, ListedRecorded, Lists
<1>2. TypeOK /\ ControlInv /\ WriteInv /\ ListedRecorded /\ [Next]_vars => ListedRecorded'
  BY ListedNext
<1> QED
  BY <1>1, <1>2, TypeCorrect, Written, PTL DEF Spec

\* Put reports a new object in its last statement only.
LEMMA CompleteNext ==
  ASSUME TypeOK, ControlInv, WriteInv, NewComplete, [Next]_vars
  PROVE  NewComplete'
<1> DEFINE Complete(c) ==
      /\ rv[c].oid \in Oids /\ oids[rv[c].oid] # None
      /\ rv[c].repo # "" => Lists(rv[c].repo, rv[c].oid)
<1> SUFFICES ASSUME NEW c \in Calls, out'[c] = "new" PROVE Complete(c)'
  BY DEF NewComplete
<1>0. rv[c].repo \in Repos \cup {""} /\ rv[c].size # None
  BY SizeIsRow DEF TypeOK, ReqVars
<1>1. CASE out[c] = "new" /\ rv'[c] = rv[c]
  <2>1. Complete(c)
    BY <1>1 DEF NewComplete
  <2>2. oids'[rv[c].oid] # None
    BY <2>1, Monotone
  <2>3. rv[c].repo # "" => Lists(rv[c].repo, rv[c].oid)'
    <3>1. CASE rv[c].repo = ""
      BY <3>1
    <3>2. CASE rv[c].repo \in Repos
      <4>1. Lists(rv[c].repo, rv[c].oid)
        BY <2>1, <3>2, NamesAssumption
      <4>2. Lists(rv[c].repo, rv[c].oid) =>
              projects'[rv[c].repo] # None /\ rv[c].oid \in projects'[rv[c].repo]
        BY <2>1, <3>2, Monotone DEF Lists
      <4> QED
        BY <1>1, <4>1, <4>2 DEF Lists
    <3> QED
      BY <1>0, <3>1, <3>2
  <2> QED
    BY <1>1, <2>1, <2>2, <2>3 DEF Lists
<1>2. ASSUME CreateOid(c) PROVE Complete(c)'
  <2>1. /\ rv'[c] = rv[c] /\ rv[c].oid \in Oids /\ rv[c].repo = ""
        /\ oids' = [oids EXCEPT ![rv[c].oid] = rv[c].size]
    BY <1>2 DEF CreateOid, ControlInv, Goto, PutDone, Return, Panic, TypeOK, ReqVars, WriteInv
  <2> QED
    BY <1>0, <2>1 DEF TypeOK
<1>3. ASSUME AddOidToProject(c) PROVE Complete(c)'
  <2> DEFINE r == rv[c].repo
             o == rv[c].oid
             S == (IF projects[r] = None THEN {} ELSE projects[r]) \cup {o}
  <2>1. r \in Repos /\ o \in Oids /\ oids[o] # None
    BY <1>3 DEF AddOidToProject, WriteInv
  <2>2. S \in SUBSET Oids /\ S # None
    BY <2>1, NoneAssumption DEF TypeOK
  <2>3. rv'[c] = rv[c] /\ oids' = oids /\ projects' = [projects EXCEPT ![r] = S]
    BY <1>3 DEF AddOidToProject, PutDone, Return, Panic, WriteInv, TypeOK
  <2> HIDE DEF S
  <2>4. projects'[r] = S
    BY <2>1, <2>3 DEF TypeOK
  <2>5. o \in S
    BY DEF S
  <2>6. projects'[rv'[c].repo] # None /\ rv'[c].oid \in projects'[rv'[c].repo]
    BY <2>2, <2>3, <2>4, <2>5
  <2>7. rv'[c].oid \in Oids /\ oids'[rv'[c].oid] # None
    BY <2>1, <2>3
  <2> QED
    BY <2>6, <2>7 DEF Lists
<1>4. ASSUME \/ PutAuth(c) \/ GetAuth(c) \/ FindOid(c) \/ FindProject(c)
             \/ CountProject(c) \/ InsertProject(c)
      PROVE  FALSE
  BY <1>4 DEF PutAuth, GetAuth, FindOid, FindProject, CountProject, InsertProject, WriteInv,
     Panic, Goto, Return, TypeOK
<1>5. ASSUME NEW f \in {"get", "put"}, NEW v \in Requests, Call(c, f, v) PROVE FALSE
  BY <1>5 DEF Call, TypeOK
<1>6. CASE UNCHANGED <<rv, out>>
  BY <1>1, <1>6
<1> QED
  BY <1>1, <1>2, <1>3, <1>4, <1>5, <1>6, OtherCalls
     DEF Next, Step, CallStep, AddUserInsert, AddUserFind, DeleteUser, Crash, vars, calls

\* A Put that returns a new object has recorded it and has listed it in its
\* project, whatever other calls create the same project at that time.
THEOREM Complete == Spec => []NewComplete
<1>1. Init => NewComplete
  BY DEF Init, NewComplete
<1>2. TypeOK /\ ControlInv /\ WriteInv /\ NewComplete /\ [Next]_vars => NewComplete'
  BY CompleteNext
<1> QED
  BY <1>1, <1>2, TypeCorrect, Written, PTL DEF Spec

-----------------------------------------------------------------------------
(* Calm behaviours                                                         *)

\* The past of a calm behaviour is calm.
LEMMA CalmBefore ==
  ASSUME [Next]_vars, calm'
  PROVE  calm /\ ((Step /\ Calm) \/ UNCHANGED vars)
BY DEF Next, vars

\* What one call of Get or Put does in a calm step: it begins alone with its
\* object, and it gets to the insert only if findOid found nothing.
LEMMA CalmCall ==
  ASSUME TypeOK, ControlInv, Step, Calm, NEW c \in Calls
  PROVE  /\ ActivePut(c)' =>
              \/ ActivePut(c) /\ rv'[c] = rv[c]
              \/ pc[c] = "idle" /\ pc'[c] = "auth"
         /\ pc'[c] = "oid" =>
              \/ pc[c] = "oid" /\ UNCHANGED <<pc, rv>>
              \/ pc[c] = "oid" /\ rv'[c] = rv[c]
              \/ pc[c] = "find_oid" /\ rv'[c] = rv[c] /\ UNCHANGED oids
                   /\ Lookup(rv[c].oid) = None
<1>0. ~Fault /\ ~(pc[c] = "get_auth" /\ pc'[c] = "oid")
  <2>1. faults \in Nat
    BY DEF TypeOK
  <2> QED
    BY <2>1 DEF Calm, Fault
<1>1. CASE PutAuth(c) \/ GetAuth(c)
  BY <1>0, <1>1 DEF PutAuth, GetAuth, Goto, Return, TypeOK, ActivePut
<1>2. CASE FindOid(c)
  BY <1>0, <1>2 DEF FindOid, Goto, Return, TypeOK, ActivePut, tables
<1>3. CASE CreateOid(c) \/ FindProject(c) \/ CountProject(c) \/ InsertProject(c)
            \/ AddOidToProject(c)
  BY <1>3 DEF CreateOid, FindProject, CountProject, InsertProject, AddOidToProject, Panic,
     PutDone, Goto, Return, TypeOK, ActivePut
<1>4. ASSUME NEW f \in {"get", "put"}, NEW v \in Requests, Call(c, f, v)
      PROVE  /\ pc[c] = "idle" /\ pc'[c] # "oid"
             /\ ActivePut(c)' => pc'[c] = "auth"
  BY <1>4 DEF Call, TypeOK, ActivePut
<1>5. CASE pc'[c] = pc[c] /\ op'[c] = op[c] /\ rv'[c] = rv[c]
  BY <1>5 DEF ActivePut
<1>6. CASE UNCHANGED calls
  BY <1>5, <1>6 DEF calls
<1>7. CASE Crash
  BY <1>7 DEF Crash, ActivePut
<1> QED
  BY <1>1, <1>2, <1>3, <1>4, <1>5, <1>6, <1>7, OtherCalls
     DEF Step, CallStep, AddUserInsert, AddUserFind, DeleteUser

\* Only createOid writes metadata.
LEMMA OnlyCreate ==
  ASSUME Step, NEW o \in Oids, oids'[o] # oids[o], TypeOK
  PROVE  \E c \in Calls : CreateOid(c) /\ rv[c].oid = o
<1>1. ASSUME NEW c \in Calls, CreateOid(c) PROVE rv[c].oid = o
  BY <1>1 DEF CreateOid, TypeOK
<1> QED
  BY <1>1 DEF Step, CallStep, Call, PutAuth, GetAuth, FindOid, FindProject, CountProject,
     InsertProject, AddOidToProject, AddUserInsert, AddUserFind, DeleteUser, Crash, tables

\* A Put at its insert is an active Put.
LEMMA InsertIsPut ==
  ASSUME ControlInv, TypeOK, NEW c \in Calls, pc[c] = "oid"
  PROVE  ActivePut(c)
BY DEF ControlInv, TypeOK, ActivePut

\* Puts stay alone with their objects, so that what findOid saw still holds at
\* the insert.
LEMMA AloneNext ==
  ASSUME TypeOK, ControlInv, ControlInv', TypeOK', AloneInv, calm, Step, Calm
  PROVE  AloneInv'
<1> SUFFICES ASSUME NEW c \in Calls, ActivePut(c)'
             PROVE  /\ pc'[c] = "oid" => Lookup(rv[c].oid)' = None
                    /\ \A d \in Calls : ActivePut(d)' /\ rv'[d].oid = rv'[c].oid => d = c
  BY DEF AloneInv
<1>1. \A d \in Calls : ActivePut(d)' /\ rv'[d].oid = rv'[c].oid => d = c
  <2> SUFFICES ASSUME NEW d \in Calls, ActivePut(d)', rv'[d].oid = rv'[c].oid, d # c
               PROVE  FALSE
    OBVIOUS
  <2>1. CASE ActivePut(c) /\ rv'[c] = rv[c] /\ ActivePut(d) /\ rv'[d] = rv[d]
    BY <2>1 DEF AloneInv
  <2>2. ASSUME NEW x \in Calls, NEW y \in Calls, x # y, rv'[x].oid = rv'[y].oid,
               pc[x] = "idle" /\ pc'[x] = "auth", ActivePut(y) /\ rv'[y] = rv[y]
        PROVE  FALSE
    BY <2>2 DEF Calm
  <2>3. ASSUME pc[c] = "idle" /\ pc'[c] = "auth", pc[d] = "idle" /\ pc'[d] = "auth"
        PROVE  FALSE
    <3>1. CallStep(d) \/ (\E f \in {"get", "put"}, v \in Requests : Call(d, f, v))
            => pc'[c] = pc[c]
      BY OtherCalls
    <3>2. ASSUME NEW e \in Calls, e # d,
                 CallStep(e) \/ \E f \in {"get", "put"}, v \in Requests : Call(e, f, v)
          PROVE  pc'[d] = pc[d]
      BY <3>2, OtherCalls
    <3> QED
      BY <2>3, <3>1, <3>2 DEF Step, AddUserInsert, AddUserFind, DeleteUser, Crash, calls
  <2> QED
    BY <2>1, <2>2, <2>3, CalmCall
<1>2. ASSUME pc'[c] = "oid" PROVE Lookup(rv[c].oid)' = None
  <2>1. CASE pc[c] = "find_oid" /\ rv'[c] = rv[c] /\ UNCHANGED oids /\ Lookup(rv[c].oid) = None
    BY <2>1 DEF Lookup
  <2>2. CASE pc[c] = "oid" /\ rv'[c] = rv[c]
    <3>1. ActivePut(c)
      BY <2>2, InsertIsPut
    <3>2. Lookup(rv[c].oid) = None
      BY <2>2, <3>1 DEF AloneInv
    <3>3. CASE rv[c].oid \notin Oids
      BY <2>2, <3>3 DEF Lookup
    <3>4. CASE rv[c].oid \in Oids /\ oids'[rv[c].oid] = oids[rv[c].oid]
      BY <2>2, <3>2, <3>4 DEF Lookup
    <3>5. CASE rv[c].oid \in Oids /\ oids'[rv[c].oid] # oids[rv[c].oid]
      <4>1. PICK d \in Calls : CreateOid(d) /\ rv[d].oid = rv[c].oid
        BY <3>5, OnlyCreate
      <4>2. ActivePut(d)
        BY <4>1, InsertIsPut DEF CreateOid
      <4>3. d = c
        BY <3>1, <4>1, <4>2 DEF AloneInv
      <4>4. pc'[c] # "oid"
        BY <4>1, <4>3 DEF CreateOid, Goto, PutDone, Return, Panic, TypeOK
      <4> QED
        BY <1>2, <4>4
    <3> QED
      BY <3>3, <3>4, <3>5
  <2> QED
    BY <1>2, <2>1, <2>2, CalmCall
<1> QED
  BY <1>1, <1>2

\* In calm behaviours a Put that is about to write is alone with its object.
THEOREM Alone == Spec => []AloneInv
<1>1. Init => AloneInv
  BY DEF Init, AloneInv, ActivePut
<1>2. TypeOK /\ TypeOK' /\ ControlInv /\ ControlInv' /\ AloneInv /\ [Next]_vars => AloneInv'
  <2> SUFFICES ASSUME TypeOK, TypeOK', ControlInv, ControlInv', AloneInv, [Next]_vars, calm'
               PROVE  AloneInv'
    BY DEF AloneInv
  <2>1. CASE Step /\ Calm
    BY <2>1, CalmBefore, AloneNext
  <2>2. CASE UNCHANGED vars
    BY <2>2 DEF vars, tables, calls, AloneInv, ActivePut, Lookup
  <2> QED
    BY <2>1, <2>2, CalmBefore
<1> QED
  BY <1>1, <1>2, TypeCorrect, PTL DEF Spec

\* As long as Puts of one object do not overlap, callers keep their access and
\* no statement fails, the upsert of createOid never replaces a size.
THEOREM WriteOnce == Spec => RecordedOnce
<1>1. TypeOK /\ ControlInv /\ AloneInv /\ [Next]_vars =>
        [calm' => \A o \in Oids : oids[o] # None => oids'[o] = oids[o]]_vars
  <2> SUFFICES ASSUME TypeOK, ControlInv, AloneInv, Step, calm,
                      NEW o \in Oids, oids'[o] # oids[o]
               PROVE  oids[o] = None
    BY CalmBefore DEF vars, tables
  <2>1. PICK c \in Calls : CreateOid(c) /\ rv[c].oid = o
    BY OnlyCreate
  <2>2. ActivePut(c) /\ pc[c] = "oid"
    BY <2>1, InsertIsPut DEF CreateOid
  <2> QED
    BY <2>1, <2>2 DEF AloneInv, Lookup
<1> QED
  BY <1>1, TypeCorrect, Alone, PTL DEF RecordedOnce, Spec

\* A user about to be inserted is still not there when the insert is executed.
LEMMA AddingNext ==
  ASSUME TypeOK, AddingInv, calm, Step, Calm
  PROVE  AddingInv'
<1> SUFFICES ASSUME NEW a \in Admins, adding'[a] # None
             PROVE  users'[adding'[a].user] = None
  BY DEF AddingInv, Calm
<1>0. ~Fault
  <2>1. faults \in Nat
    BY DEF TypeOK
  <2> QED
    BY <2>1 DEF Calm, Fault
<1>1. CASE adding'[a] = adding[a] /\ UNCHANGED users
  BY <1>1 DEF AddingInv
<1>2. ASSUME NEW b \in Admins, AddUserInsert(b) PROVE users'[adding'[a].user] = None
  <2>1. a # b /\ adding'[a] = adding[a]
    BY <1>2 DEF AddUserInsert, TypeOK
  <2>2. adding[b].user # adding[a].user /\ users[adding[a].user] = None
    BY <1>2, <2>1 DEF AddingInv, AddUserInsert
  <2> QED
    BY <1>2, <2>1, <2>2 DEF AddUserInsert, TypeOK
<1>3. ASSUME NEW b \in Admins, NEW u \in Users, NEW p \in Passwords, AddUserFind(b, u, p)
      PROVE  users'[adding'[a].user] = None
  <2>1. users[u] = None /\ UNCHANGED users
    BY <1>0, <1>3 DEF AddUserFind, tables
  <2>2. CASE a = b
    BY <1>3, <2>1, <2>2 DEF AddUserFind, TypeOK
  <2>3. CASE a # b
    BY <1>1, <1>3, <2>1, <2>3 DEF AddUserFind, TypeOK
  <2> QED
    BY <2>2, <2>3
<1>4. ASSUME NEW u \in Users, DeleteUser(u) PROVE users'[adding'[a].user] = None
  BY <1>4 DEF DeleteUser, TypeOK, AddingInv
<1>5. CASE Crash
  BY <1>5 DEF Crash
<1>6. ASSUME NEW c \in Calls, CallStep(c) PROVE UNCHANGED <<users, adding>>
  BY <1>6 DEF CallStep, PutAuth, GetAuth, FindOid, CreateOid, FindProject, CountProject,
     InsertProject, AddOidToProject, tables
<1>7. ASSUME NEW c \in Calls, NEW f \in {"get", "put"}, NEW v \in Requests, Call(c, f, v)
      PROVE  UNCHANGED <<users, adding>>
  BY <1>7 DEF Call, tables
<1> QED
  BY <1>1, <1>2, <1>3, <1>4, <1>5, <1>6, <1>7 DEF Step

\* In calm behaviours a user who is about to be inserted is not there.
THEOREM Adding == Spec => []AddingInv
<1>1. Init => AddingInv
  BY DEF Init, AddingInv
<1>2. TypeOK /\ AddingInv /\ [Next]_vars => AddingInv'
  <2> SUFFICES ASSUME TypeOK, AddingInv, [Next]_vars, calm' PROVE AddingInv'
    BY DEF AddingInv
  <2>1. CASE Step /\ Calm
    BY <2>1, CalmBefore, AddingNext
  <2>2. CASE UNCHANGED vars
    BY <2>2 DEF vars, tables, AddingInv
  <2> QED
    BY <2>1, <2>2, CalmBefore
<1> QED
  BY <1>1, <1>2, TypeCorrect, PTL DEF Spec

\* As long as nobody else adds the same user and no statement fails, AddUser
\* leaves the password of a user who is there alone.
THEOREM Passwords_Kept == Spec => PasswordKept
<1>1. TypeOK /\ AddingInv /\ [Next]_vars =>
        [calm' => \A u \in Users :
            users[u] # None /\ users'[u] # None => users'[u] = users[u]]_vars
  <2> SUFFICES ASSUME TypeOK, AddingInv, Step, calm, NEW u \in Users,
                      users[u] # None, users'[u] # None
               PROVE  users'[u] = users[u]
    BY CalmBefore DEF vars, tables
  <2>1. ASSUME NEW a \in Admins, AddUserInsert(a) PROVE users'[u] = users[u]
    BY <2>1 DEF AddUserInsert, AddingInv, TypeOK
  <2>2. ASSUME NEW v \in Users, DeleteUser(v) PROVE users'[u] = users[u]
    BY <2>2 DEF DeleteUser, TypeOK
  <2> QED
    BY <2>1, <2>2 DEF Step, CallStep, Call, PutAuth, GetAuth, FindOid, CreateOid,
       FindProject, CountProject, InsertProject, AddOidToProject, AddUserFind, Crash, tables
<1> QED
  BY <1>1, TypeCorrect, Adding, PTL DEF PasswordKept, Spec

\* The inductive invariant of the module, put together.
THEOREM Invariance == Spec => []IInv
<1> QED
  BY Written, Alone, Adding, PTL DEF IInv

-----------------------------------------------------------------------------
(* Refinement: each calm step is a step of WriteOnceMeta or none           *)

Writing == {"project", "count", "insert", "map"}

\* What a call returns is returned by the abstract call.
LEMMA ReturnSimulation ==
  ASSUME TypeOK, NEW c \in Calls, NEW r, NEW m, Return(c, r, m)
  PROVE  WM!Return(c, r, m)
<1>1. stateBar' = [stateBar EXCEPT ![c] = "idle"]
  BY DEF stateBar, Return, TypeOK
<1> QED
  BY <1>1 DEF Return, WM!Return, keyBar, metaBar

\* A statement after which the call goes on and that writes no metadata.
LEMMA GotoSimulation ==
  ASSUME TypeOK, NEW c \in Calls, pc[c] # "idle", UNCHANGED oids,
         NEW p \in {"get_auth", "find_oid", "oid", "count", "insert", "map"}, Goto(c, p),
         p \in Writing <=> pc[c] \in Writing
  PROVE  UNCHANGED WM!vars
<1>1. stateBar' = stateBar
  BY DEF stateBar, Goto, TypeOK, Writing
<1> QED
  BY <1>1 DEF Goto, WM!vars, keyBar, metaBar

\* A refused authentication and a failed write end the call.
LEMMA FailSimulation ==
  ASSUME TypeOK, NEW c \in Calls, pc[c] # "idle", UNCHANGED oids,
         NEW r \in {"auth", "panic"}, Return(c, r, None)
  PROVE  WM!Fail(c)
<1>1. stateBar[c] # "idle"
  BY DEF stateBar
<1> QED
  BY <1>1, ReturnSimulation DEF WM!Fail

\* A Put with a project tells its caller after the last statement.
LEMMA ConfirmSimulation ==
  ASSUME TypeOK, NEW c \in Calls, pc[c] \in Writing, UNCHANGED oids, PutDone(c)
  PROVE  WM!Confirm(c)
<1>1. stateBar[c] = "recorded" /\ metaBar[c] = rv[c].size
  BY DEF stateBar, metaBar, Writing
<1> QED
  BY <1>1, ReturnSimulation DEF WM!Confirm, PutDone

\* Put takes effect when createOid writes.
LEMMA CreateOidSimulation ==
  ASSUME TypeOK, WriteInv, AloneInv, calm, NEW c \in Calls, CreateOid(c)
  PROVE  WM!Record(c) \/ WM!Fail(c)
<1>1. ActivePut(c) /\ op[c] = "put" /\ pc[c] = "oid"
  BY DEF CreateOid, ActivePut, WriteInv, TypeOK
<1>2. Lookup(rv[c].oid) = None
  BY <1>1 DEF AloneInv
<1>3. keyBar[c] = rv[c].oid /\ metaBar[c] = rv[c].size /\ stateBar[c] = "busy"
  BY <1>1 DEF keyBar, metaBar, stateBar
<1>4. rv[c].oid \in Oids \cup {""}
  BY DEF TypeOK, ReqVars
<1>5. CASE rv[c].oid # "" /\ oids' = [oids EXCEPT ![rv[c].oid] = rv[c].size]
           /\ (PutDone(c) \/ Goto(c, "project"))
  <2>1. rv[c].oid \in Oids /\ ~WM!Recorded(rv[c].oid)
    BY <1>2, <1>4, <1>5 DEF WM!Recorded, Lookup
  <2>2. CASE PutDone(c)
    BY <1>1, <1>3, <1>5, <2>1, <2>2, ReturnSimulation DEF WM!Record, PutDone
  <2>3. CASE Goto(c, "project")
    <3>1. stateBar' = [stateBar EXCEPT ![c] = "recorded"]
      BY <2>3 DEF stateBar, Goto, TypeOK
    <3>2. UNCHANGED <<op, keyBar, metaBar, got, out>>
      BY <2>3 DEF Goto, keyBar, metaBar
    <3> QED
      BY <1>1, <1>3, <1>5, <2>1, <3>1, <3>2 DEF WM!Record
  <2> QED
    BY <1>5, <2>2, <2>3
<1>6. CASE Return(c, "panic", None) /\ UNCHANGED oids
  BY <1>1, <1>6, FailSimulation
<1> QED
  BY <1>5, <1>6 DEF CreateOid, Panic

\* Get, and a Put that finds the object, take effect when they read it.
LEMMA FindOidSimulation ==
  ASSUME TypeOK, NEW c \in Calls, FindOid(c), ~Fault
  PROVE  WM!Found(c) \/ WM!Missing(c) \/ UNCHANGED WM!vars
<1> DEFINE m == Lookup(rv[c].oid)
<1>1. /\ pc[c] = "find_oid" /\ oids' = oids
      /\ keyBar[c] = rv[c].oid /\ stateBar[c] = "busy"
  BY DEF FindOid, tables, keyBar, stateBar
<1>2. CASE m # None /\ Return(c, IF op[c] = "put" THEN "existing" ELSE "found", m)
  <2>1. WM!Recorded(rv[c].oid) /\ m = oids[rv[c].oid]
    BY <1>2 DEF WM!Recorded, Lookup
  <2> QED
    BY <1>1, <1>2, <2>1, ReturnSimulation DEF WM!Found
<1>3. CASE Goto(c, "oid")
  BY <1>1, <1>3, GotoSimulation DEF Writing
<1>4. CASE m = None /\ op[c] # "put" /\ Return(c, "missing", None)
  <2>1. ~WM!Recorded(rv[c].oid) /\ op[c] = "get"
    BY <1>4 DEF WM!Recorded, Lookup, TypeOK
  <2> QED
    BY <1>1, <1>4, <2>1, ReturnSimulation DEF WM!Missing
<1> QED
  BY <1>2, <1>3, <1>4 DEF FindOid

LEMMA StepSimulation ==
  ASSUME TypeOK, WriteInv, AloneInv, calm, Step, Calm
  PROVE  WM!Next \/ UNCHANGED WM!vars
<1>0. ~Fault
  BY DEF Calm, Fault, TypeOK
<1>1. ASSUME NEW c \in Calls, NEW f \in {"get", "put"}, NEW v \in Requests, Call(c, f, v)
      PROVE  WM!Next
  <2>1. v \in ReqVars /\ v.oid \in Oids \cup {""} /\ v.size \in Sizes
    BY RequestsAssumption DEF ReqVars
  <2>2. stateBar[c] = "idle" /\ stateBar' = [stateBar EXCEPT ![c] = "busy"]
    BY <1>1 DEF Call, stateBar, TypeOK
  <2>3. keyBar' = [keyBar EXCEPT ![c] = v.oid] /\ metaBar' = [metaBar EXCEPT ![c] = v.size]
    BY <1>1 DEF Call, keyBar, metaBar, TypeOK
  <2>4. WM!Call(c, f, v.oid, v.size)
    BY <1>1, <2>2, <2>3 DEF Call, WM!Call, tables
  <2> QED
    BY <2>1, <2>4 DEF WM!Next
<1>2. ASSUME NEW c \in Calls, CallStep(c)
      PROVE  \/ WM!Found(c) \/ WM!Missing(c) \/ WM!Record(c) \/ WM!Confirm(c)
             \/ WM!Fail(c) \/ UNCHANGED WM!vars
  <2>1. CASE PutAuth(c)
    BY <2>1, GotoSimulation, FailSimulation DEF PutAuth, tables, Writing
  <2>2. CASE GetAuth(c)
    BY <2>2, GotoSimulation, FailSimulation DEF GetAuth, tables, Writing
  <2>3. CASE FindOid(c)
    BY <1>0, <2>3, FindOidSimulation
  <2>4. CASE CreateOid(c)
    BY <2>4, CreateOidSimulation
  <2>5. CASE FindProject(c)
    BY <2>5, GotoSimulation DEF FindProject, tables, Writing
  <2>6. CASE CountProject(c)
    BY <1>0, <2>6, GotoSimulation DEF CountProject, Panic, tables, Writing
  <2>7. CASE InsertProject(c)
    BY <1>0, <2>7, GotoSimulation DEF InsertProject, Panic, Writing
  <2>8. CASE AddOidToProject(c)
    BY <1>0, <2>8, ConfirmSimulation DEF AddOidToProject, Panic, Writing
  <2> QED
    BY <1>2, <2>1, <2>2, <2>3, <2>4, <2>5, <2>6, <2>7, <2>8 DEF CallStep
<1>3. ASSUME Crash PROVE WM!Restart
  <2>1. stateBar' = [c \in Calls |-> "idle"]
    BY <1>3 DEF Crash, stateBar
  <2>2. out' = [c \in Calls |-> IF stateBar[c] = "idle" THEN out[c] ELSE "none"]
    BY <1>3 DEF Crash, stateBar, TypeOK, WriteInv
  <2> QED
    BY <1>3, <2>1, <2>2 DEF Crash, WM!Restart, tables, keyBar, metaBar
<1>4. ASSUME NEW a \in Admins,
             AddUserInsert(a) \/ \E u \in Users, p \in Passwords : AddUserFind(a, u, p)
      PROVE  UNCHANGED <<oids, calls>>
  BY <1>4 DEF AddUserInsert, AddUserFind, tables
<1>5. ASSUME NEW u \in Users, DeleteUser(u) PROVE UNCHANGED <<oids, calls>>
  BY <1>5 DEF DeleteUser
<1>6. ASSUME UNCHANGED <<oids, calls>> PROVE UNCHANGED WM!vars
  BY <1>6 DEF calls, WM!vars, stateBar, keyBar, metaBar
<1> QED
  BY <1>1, <1>2, <1>3, <1>4, <1>5, <1>6 DEF Step, WM!Next

\* As long as Puts of one object do not overlap, callers keep their access and
\* no statement fails, the tables are a write-once register, although nothing
\* in Cassandra keeps a row from being replaced.
THEOREM Refinement == Spec => Refines
<1>1. Init => WM!Init
  <2> SUFFICES ASSUME Init PROVE WM!Init
    OBVIOUS
  <2>1. TypeOK
    BY TypeInit
  <2>2. keyBar \in [Calls -> Oids \cup {""}] /\ metaBar \in [Calls -> Sizes]
    BY <2>1 DEF keyBar, metaBar, TypeOK, ReqVars
  <2> QED
    BY <2>1, <2>2 DEF Init, WM!Init, stateBar, TypeOK
<1>2. TypeOK /\ WriteInv /\ AloneInv /\ [Next]_vars => [calm' => [WM!Next]_(WM!vars)]_vars
  BY CalmBefore, StepSimulation
<1> QED
  BY <1>1, <1>2, TypeCorrect, Written, Alone, PTL DEF Spec, Refines

-----------------------------------------------------------------------------
(* What the contract is worth: WriteOnceMeta by itself keeps its promises  *)

\* What a caller was given is on record.
SnapshotCurrent ==
    \A c \in Calls : out[c] \in {"found", "existing", "new"} =>
        got[c] # None /\ oids[keyBar[c]] = got[c]

\* It depends on the calls that have still to tell what they have recorded.
ContractInv ==
    /\ SnapshotCurrent
    /\ DOMAIN oids = Oids /\ metaBar \in [Calls -> Sizes]
    /\ DOMAIN stateBar = Calls /\ DOMAIN keyBar = Calls
    /\ DOMAIN got = Calls /\ DOMAIN out = Calls
    /\ \A c \in Calls : stateBar[c] = "recorded" => oids[keyBar[c]] = metaBar[c]

\* A step of the contract keeps what callers know, and what is on record.
LEMMA ContractNext ==
  ASSUME ContractInv, [WM!Next]_(WM!vars)
  PROVE  ContractInv' /\ \A o \in Oids : oids[o] # None => oids'[o] = oids[o]
<1> DEFINE Stays == \A o \in Oids : oids[o] # None => oids'[o] = oids[o]
<1>0. \A c \in Calls : metaBar[c] # None
  BY NoneAssumption DEF ContractInv
<1>1. ASSUME NEW c \in Calls, NEW f \in {"get", "put"}, NEW o \in Oids \cup {""},
             NEW m \in Sizes, WM!Call(c, f, o, m)
      PROVE  ContractInv' /\ Stays
  BY <1>1 DEF ContractInv, SnapshotCurrent, WM!Call
<1>2. ASSUME NEW c \in Calls, WM!Found(c) \/ WM!Missing(c) \/ WM!Confirm(c)
      PROVE  ContractInv' /\ Stays
  BY <1>0, <1>2
     DEF ContractInv, SnapshotCurrent, WM!Found, WM!Missing, WM!Confirm, WM!Recorded, WM!Return
<1>3. ASSUME NEW c \in Calls, WM!Record(c) PROVE ContractInv' /\ Stays
  <2>1. /\ keyBar[c] \in Oids /\ oids[keyBar[c]] = None
        /\ oids' = [oids EXCEPT ![keyBar[c]] = metaBar[c]]
        /\ UNCHANGED <<keyBar, metaBar>>
    BY <1>3 DEF WM!Record, WM!Recorded, WM!Return
  <2>2. Stays
    BY <2>1 DEF ContractInv
  <2>3. ASSUME NEW d \in Calls, oids[keyBar[d]] # None
        PROVE  oids'[keyBar'[d]] = oids[keyBar[d]]
    BY <2>1, <2>3 DEF ContractInv
  <2>4. oids'[keyBar'[c]] = metaBar[c]
    BY <2>1 DEF ContractInv
  <2>5. CASE WM!Return(c, "new", metaBar[c])
    BY <1>0, <2>1, <2>2, <2>3, <2>4, <2>5 DEF ContractInv, SnapshotCurrent, WM!Return
  <2>6. CASE /\ stateBar' = [stateBar EXCEPT ![c] = "recorded"]
             /\ UNCHANGED <<op, keyBar, metaBar, got, out>>
    BY <1>0, <2>1, <2>2, <2>3, <2>4, <2>6 DEF ContractInv, SnapshotCurrent
  <2> QED
    BY <1>3, <2>5, <2>6 DEF WM!Record
<1>4. ASSUME NEW c \in Calls, WM!Fail(c) PROVE ContractInv' /\ Stays
  BY <1>4 DEF ContractInv, SnapshotCurrent, WM!Fail, WM!Return
<1>5. CASE WM!Restart
  BY <1>5 DEF ContractInv, SnapshotCurrent, WM!Restart
<1>6. CASE UNCHANGED WM!vars
  BY <1>6 DEF ContractInv, SnapshotCurrent, WM!vars
<1> QED
  BY <1>1, <1>2, <1>3, <1>4, <1>5, <1>6 DEF WM!Next

LEMMA ContractInit == WM!Init => ContractInv
  BY DEF WM!Init, ContractInv, SnapshotCurrent

\* A store that implements the contract never replaces metadata, and what it
\* gave a caller, who compares an upload with it, is what is on record.
THEOREM Contract ==
  WM!Spec => /\ []SnapshotCurrent
             /\ [][\A o \in Oids : oids[o] # None => oids'[o] = oids[o]]_(WM!vars)
<1>1. ContractInv => SnapshotCurrent
  BY DEF ContractInv
<1>2. ContractInv /\ [WM!Next]_(WM!vars) => ContractInv'
  BY ContractNext
<1>3. ContractInv /\ [WM!Next]_(WM!vars) =>
        [\A o \in Oids : oids[o] # None => oids'[o] = oids[o]]_(WM!vars)
  BY ContractNext
<1> QED
  BY <1>1, <1>2, <1>3, ContractInit, PTL DEF WM!Spec

\* In calm behaviours the size that Cassandra gave a caller is the one on
\* record.  Without: an upsert of another Put replaces it.
THEOREM Snapshots == Spec => [](calm => SnapshotCurrent)
<1>1. WM!Init => (calm => ContractInv)
  BY ContractInit
<1>2. /\ calm => ContractInv
      /\ [Next]_vars /\ [calm' => [WM!Next]_(WM!vars)]_vars
      => (calm => ContractInv)'
  <2> SUFFICES ASSUME calm => ContractInv, [Next]_vars,
                      [calm' => [WM!Next]_(WM!vars)]_vars, calm'
               PROVE  ContractInv'
    OBVIOUS
  <2>1. calm
    BY CalmBefore
  <2>2. UNCHANGED vars => UNCHANGED WM!vars
    BY DEF vars, calls, tables, WM!vars, stateBar, keyBar, metaBar
  <2> QED
    BY <2>1, <2>2, ContractNext
<1>3. (calm => ContractInv) => (calm => SnapshotCurrent)
  BY DEF ContractInv
<1> QED
  BY <1>1, <1>2, <1>3, Refinement, PTL DEF Spec, Refines

=============================================================================
