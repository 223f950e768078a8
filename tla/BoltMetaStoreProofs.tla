------------------------ MODULE BoltMetaStoreProofs ------------------------
(***************************************************************************)
(* Theorems about BoltMetaStore, for any set of calls, users, objects and  *)
(* projects, in every configuration of authentication, and at the end      *)
(* about Management, the pages beside the calls of that store.             *)
(***************************************************************************)
EXTENDS Management, TLAPS

-----------------------------------------------------------------------------
(* Types and control                                                       *)

\* The empty database and idle calls have the right types.
LEMMA TypeInit == Init => TypeOK /\ PcInv
<1> SUFFICES ASSUME Init PROVE TypeOK /\ PcInv
  OBVIOUS
<1>1. (CHOOSE v \in Requests : TRUE) \in ReqVars
  BY RequestsAssumption
<1>2. rv \in [Calls -> ReqVars]
  BY <1>1 DEF Init
<1>3. TypeOK
  BY <1>2, CrashAssumption DEF Init, TypeOK, Outcomes
<1>4. PcInv
  BY DEF Init, PcInv
<1> QED
  BY <1>3, <1>4

\* What a MetaObject made or read by a call is.
LEMMA MetaTypes ==
  ASSUME TypeOK, NEW c \in Calls
  PROVE  /\ rv[c] \in ReqVars
         /\ rv[c].oid \in Oids \cup {""}
         /\ rv[c].repo \in Repos \cup {""}
         /\ [size |-> rv[c].size, repo |-> rv[c].repo] \in Metas
         /\ Lookup(rv[c].oid) \in Metas \cup {None}
BY NamesAssumption DEF TypeOK, ReqVars, Metas, Lookup

\* The part of TypeOK that is about the calls.
CallsOK ==
    /\ pc \in [Calls -> {"idle", "auth", "get_auth", "get_view",
                         "find", "create", "object"}]
    /\ op  \in [Calls -> {"get", "put"}]
    /\ rv  \in [Calls -> ReqVars]
    /\ got \in [Calls -> Metas \cup {None}]
    /\ out \in [Calls -> Outcomes]

\* A call of Get or Put that goes on to its next transaction keeps its types.
LEMMA GotoKeeps ==
  ASSUME CallsOK, PcInv, NEW c \in Calls, pc[c] # "idle",
         NEW p \in {"get_auth", "get_view", "find", "create", "object"},
         Goto(c, p),
         p = "create" => rv[c].repo \in Repos,
         op[c] = "get" => p \in {"get_auth", "get_view"}
  PROVE  CallsOK' /\ PcInv'
<1>1. CallsOK'
  BY DEF CallsOK, Goto
<1>2. PcInv'
  BY DEF CallsOK, PcInv, Goto
<1> QED
  BY <1>1, <1>2

\* A call of Get or Put that returns keeps its types.
LEMMA ReturnKeeps ==
  ASSUME CallsOK, PcInv, NEW c \in Calls, NEW r \in Outcomes,
         NEW m \in Metas \cup {None}, Return(c, r, m),
         r \in {"found", "existing", "new"} => rv[c].oid \in Oids
  PROVE  CallsOK' /\ PcInv'
<1>1. CallsOK'
  BY DEF CallsOK, Return
<1>2. PcInv'
  BY DEF CallsOK, PcInv, Return
<1> QED
  BY <1>1, <1>2

\* Every transaction, user change and restart keeps the types.
LEMMA TypeNext == TypeOK /\ PcInv /\ [Next]_vars => TypeOK' /\ PcInv'
<1> SUFFICES ASSUME TypeOK, PcInv, [Next]_vars PROVE TypeOK' /\ PcInv'
  OBVIOUS
<1>0. CallsOK
  BY DEF TypeOK, CallsOK
<1>b. calm' \in BOOLEAN
  BY DEF TypeOK, Next, vars
<1> USE <1>b
<1> DEFINE Rest == <<db, env, crashes>>
<1>a. CallsOK' /\ UNCHANGED Rest => TypeOK'
  BY DEF CallsOK, TypeOK, db, env
<1>1. ASSUME NEW c \in Calls, NEW f \in {"get", "put"}, NEW v \in Requests, Call(c, f, v)
      PROVE  TypeOK' /\ PcInv'
  <2>1. CallsOK'
    BY <1>0, <1>1, RequestsAssumption DEF CallsOK, Call, Outcomes
  <2>2. PcInv'
    BY <1>0, <1>1 DEF PcInv, CallsOK, Call
  <2> QED
    BY <1>1, <1>a, <2>1, <2>2 DEF Call
<1>2. ASSUME NEW c \in Calls, PutAuth(c) PROVE TypeOK' /\ PcInv'
  <2>1. CASE Goto(c, "get_auth")
    BY <1>0, <1>2, <1>a, <2>1, GotoKeeps DEF PutAuth
  <2>2. CASE Return(c, "auth", None)
    BY <1>0, <1>2, <1>a, <2>2, ReturnKeeps DEF PutAuth, Outcomes
  <2> QED
    BY <1>2, <2>1, <2>2 DEF PutAuth
<1>3. ASSUME NEW c \in Calls, GetAuth(c) PROVE TypeOK' /\ PcInv'
  <2>1. CASE Goto(c, "get_view")
    BY <1>0, <1>3, <1>a, <2>1, GotoKeeps DEF GetAuth
  <2>2. CASE op[c] = "put" /\ Goto(c, "find")
    BY <1>0, <1>3, <1>a, <2>2, GotoKeeps DEF GetAuth
  <2>3. CASE Return(c, "auth", None)
    BY <1>0, <1>3, <1>a, <2>3, ReturnKeeps DEF GetAuth, Outcomes
  <2> QED
    BY <1>3, <2>1, <2>2, <2>3 DEF GetAuth
<1>4. ASSUME NEW c \in Calls, GetView(c) PROVE TypeOK' /\ PcInv'
  <2> DEFINE m == Lookup(rv[c].oid)
  <2>1. m \in Metas \cup {None} /\ (m # None => rv[c].oid \in Oids)
    BY MetaTypes DEF Lookup
  <2> HIDE DEF m
  <2>2. CASE m # None /\ Return(c, IF op[c] = "put" THEN "existing" ELSE "found", m)
    BY <1>0, <1>4, <1>a, <2>1, <2>2, ReturnKeeps DEF GetView, Outcomes
  <2>3. CASE op[c] = "put" /\ Goto(c, "find")
    BY <1>0, <1>4, <1>a, <2>3, GotoKeeps DEF GetView
  <2>4. CASE Return(c, "missing", None)
    BY <1>0, <1>4, <1>a, <2>4, ReturnKeeps DEF GetView, Outcomes
  <2> QED
    BY <1>4, <2>2, <2>3, <2>4 DEF GetView, m
<1>5. ASSUME NEW c \in Calls, FindProject(c) PROVE TypeOK' /\ PcInv'
  <2>1. op[c] # "get"
    BY <1>0, <1>5 DEF FindProject, PcInv
  <2>2. CASE Goto(c, "object")
    BY <1>0, <1>5, <1>a, <2>1, <2>2, GotoKeeps DEF FindProject
  <2>3. CASE rv[c].repo # "" /\ Goto(c, "create")
    BY <1>0, <1>5, <1>a, <2>1, <2>3, GotoKeeps, MetaTypes DEF FindProject
  <2> QED
    BY <1>5, <2>2, <2>3 DEF FindProject
<1>6. ASSUME NEW c \in Calls, CreateProject(c) PROVE TypeOK' /\ PcInv'
  <2>1. op[c] # "get"
    BY <1>0, <1>6 DEF CreateProject, PcInv
  <2>2. CallsOK' /\ PcInv'
    BY <1>0, <1>6, <2>1, GotoKeeps DEF CreateProject
  <2>3. projects' \in [Repos -> SUBSET (Oids \cup {""})]
    BY <1>6, MetaTypes DEF CreateProject, TypeOK
  <2> QED
    BY <1>6, <2>2, <2>3 DEF CreateProject, TypeOK, CallsOK, env
<1>7. ASSUME NEW c \in Calls, PutObject(c) PROVE TypeOK' /\ PcInv'
  <2> DEFINE m == [size |-> rv[c].size, repo |-> rv[c].repo]
  <2>1. m \in Metas /\ rv[c].oid \in Oids \cup {""}
    BY MetaTypes
  <2> HIDE DEF m
  <2>2. CASE /\ rv[c].oid # ""
             /\ objects' = [objects EXCEPT ![rv[c].oid] = m]
             /\ Return(c, "new", m)
    <3>1. CallsOK' /\ PcInv'
      BY <1>0, <2>1, <2>2, ReturnKeeps DEF Outcomes
    <3>2. objects' \in [Oids -> Metas \cup {None}]
      BY <2>1, <2>2 DEF TypeOK
    <3> QED
      BY <1>7, <3>1, <3>2 DEF PutObject, TypeOK, CallsOK, env
  <2>3. CASE Return(c, "error", None) /\ UNCHANGED objects
    <3>1. CallsOK' /\ PcInv'
      BY <1>0, <2>3, ReturnKeeps DEF Outcomes
    <3> QED
      BY <1>7, <2>3, <3>1 DEF PutObject, TypeOK, CallsOK, env
  <2> QED
    BY <1>7, <2>2, <2>3 DEF PutObject, m
<1>8. ASSUME NEW u \in Users, DeleteUser(u) PROVE TypeOK' /\ PcInv'
  BY <1>8 DEF DeleteUser, TypeOK, PcInv, env, calls
<1>9. ASSUME NEW u \in Users, NEW p \in Passwords, AddUser(u, p)
      PROVE  TypeOK' /\ PcInv'
  BY <1>9 DEF AddUser, TypeOK, PcInv, env, calls
<1>10. CASE Directory
  BY <1>10 DEF Directory, TypeOK, PcInv, db, calls
<1>11. CASE Crash
  <2>1. CallsOK' /\ PcInv'
    BY <1>0, <1>11 DEF Crash, CallsOK, PcInv, Outcomes
  <2>2. crashes' \in 0 .. MaxCrashes
    <3>1. crashes \in 0 .. MaxCrashes /\ crashes < MaxCrashes /\ crashes' = crashes + 1
      BY <1>11 DEF Crash, TypeOK
    <3> QED
      BY <3>1, CrashAssumption
  <2> QED
    BY <1>11, <2>1, <2>2 DEF Crash, TypeOK, CallsOK, db, env
<1>12. CASE UNCHANGED vars
  BY <1>12 DEF vars, TypeOK, PcInv, db, env, calls
<1> QED
  BY <1>1, <1>2, <1>3, <1>4, <1>5, <1>6, <1>7, <1>8, <1>9, <1>10, <1>11, <1>12
     DEF Next, Step, CallStep

\* Types, and where a call of Get or of Put can be.
THEOREM TypeCorrect == Spec => [](TypeOK /\ PcInv)
<1> QED
  BY TypeInit, TypeNext, PTL DEF Spec

-----------------------------------------------------------------------------
(* ProjectFirst                                                            *)

\* No step removes a project or writes an object before its project.
LEMMA ProjectNext ==
  ASSUME TypeOK, PcInv, ProjectInv, ProjectFirst, [Next]_vars
  PROVE  ProjectInv' /\ ProjectFirst'
<1> DEFINE Good == ProjectInv' /\ ProjectFirst'
<1>1. ASSUME NEW c \in Calls, FindProject(c) PROVE Good
  <2>1. ProjectInv'
    BY <1>1 DEF FindProject, Goto, ProjectInv, TypeOK, db
  <2>2. ProjectFirst'
    BY <1>1 DEF FindProject, ProjectFirst, db
  <2> QED
    BY <2>1, <2>2
<1>2. ASSUME NEW c \in Calls, CreateProject(c) PROVE Good
  <2>1. \A p \in Repos : projects[p] # {} => projects'[p] # {}
    BY <1>2 DEF CreateProject, TypeOK
  <2>2. rv[c].repo \in Repos /\ projects'[rv[c].repo] # {}
    BY <1>2 DEF CreateProject, TypeOK, PcInv
  <2>3. ProjectInv'
    <3> SUFFICES ASSUME NEW d \in Calls, pc'[d] = "object", rv'[d].repo # ""
                 PROVE  projects'[rv'[d].repo] # {}
      BY DEF ProjectInv
    <3>1. rv' = rv /\ rv[d].repo \in Repos
      BY <1>2, MetaTypes DEF CreateProject, Goto
    <3>2. CASE d = c
      BY <2>2, <3>1, <3>2
    <3>3. CASE d # c
      <4>1. pc[d] = "object"
        BY <1>2, <3>3 DEF CreateProject, Goto, TypeOK
      <4> QED
        BY <2>1, <3>1, <4>1 DEF ProjectInv
    <3> QED
      BY <3>2, <3>3
  <2>4. ProjectFirst'
    BY <1>2, <2>1 DEF CreateProject, ProjectFirst, TypeOK, Metas
  <2> QED
    BY <2>3, <2>4
<1>3. ASSUME NEW c \in Calls, PutObject(c) PROVE Good
  <2>1. ProjectInv'
    BY <1>3 DEF PutObject, Return, ProjectInv, TypeOK
  <2>2. ProjectFirst'
    <3> SUFFICES ASSUME NEW o \in Oids, objects'[o] # None, objects'[o].repo # ""
                 PROVE  projects'[objects'[o].repo] # {}
      BY DEF ProjectFirst
    <3>1. projects' = projects
      BY <1>3 DEF PutObject
    <3>2. CASE objects'[o] = objects[o]
      BY <3>1, <3>2 DEF ProjectFirst
    <3>3. CASE objects'[o] # objects[o]
      <4>1. objects'[o] = [size |-> rv[c].size, repo |-> rv[c].repo]
        BY <1>3, <3>3 DEF PutObject, TypeOK
      <4>2. [size |-> rv[c].size, repo |-> rv[c].repo].repo = rv[c].repo
        OBVIOUS
      <4>3. objects'[o].repo = rv[c].repo
        BY <4>1, <4>2, Zenon
      <4> QED
        BY <1>3, <3>1, <4>3 DEF PutObject, ProjectInv
    <3> QED
      BY <3>2, <3>3
  <2> QED
    BY <2>1, <2>2
<1>4. ASSUME UNCHANGED <<objects, projects>>,
             \A c \in Calls : pc'[c] = "object" => pc[c] = "object" /\ rv'[c] = rv[c]
      PROVE  Good
  BY <1>4 DEF ProjectInv, ProjectFirst
<1>5. ASSUME NEW c \in Calls, \/ PutAuth(c) \/ GetAuth(c) \/ GetView(c)
                               \/ \E f \in {"get", "put"}, v \in Requests : Call(c, f, v)
      PROVE  Good
  <2>1. UNCHANGED <<objects, projects>>
    BY <1>5 DEF PutAuth, GetAuth, GetView, Call, db
  <2>2. \A d \in Calls : pc'[d] = "object" => pc[d] = "object" /\ rv'[d] = rv[d]
    BY <1>5 DEF PutAuth, GetAuth, GetView, Call, Goto, Return, TypeOK
  <2> QED
    BY <1>4, <2>1, <2>2
<1>6. CASE Crash
  BY <1>4, <1>6 DEF Crash, db
<1>7. CASE Directory \/ UNCHANGED vars \/ \E u \in Users :
             DeleteUser(u) \/ \E p \in Passwords : AddUser(u, p)
  BY <1>4, <1>7 DEF Directory, DeleteUser, AddUser, vars, db, calls
<1> QED
  BY <1>1, <1>2, <1>3, <1>5, <1>6, <1>7 DEF Next, Step, CallStep

\* No interleaving of calls and restarts leaves an object on record whose
\* project is not.
THEOREM ProjectOrder == Spec => []ProjectFirst
<1>1. Init => ProjectInv /\ ProjectFirst
  BY DEF Init, ProjectInv, ProjectFirst
<1>2. TypeOK /\ PcInv /\ ProjectInv /\ ProjectFirst /\ [Next]_vars
        => ProjectInv' /\ ProjectFirst'
  BY ProjectNext
<1> QED
  BY <1>1, <1>2, TypeCorrect, PTL DEF Spec

-----------------------------------------------------------------------------
(* AuthGate                                                                *)

\* A step of one call leaves the others alone.
LEMMA OthersKept ==
  ASSUME TypeOK, NEW c \in Calls, NEW d \in Calls, d # c,
         CallStep(d) \/ \E f \in {"get", "put"}, v \in Requests : Call(d, f, v)
  PROVE  /\ pc'[c] = pc[c] /\ op'[c] = op[c] /\ rv'[c] = rv[c]
         /\ got'[c] = got[c] /\ out'[c] = out[c]
<1> DEFINE Same == /\ pc'[c] = pc[c] /\ op'[c] = op[c] /\ rv'[c] = rv[c]
                   /\ got'[c] = got[c] /\ out'[c] = out[c]
<1>1. ASSUME NEW p, Goto(d, p) PROVE Same
  BY <1>1 DEF Goto, TypeOK
<1>2. ASSUME NEW r, NEW m, Return(d, r, m) PROVE Same
  BY <1>2 DEF Return, TypeOK
<1>3. ASSUME NEW f, NEW v, Call(d, f, v) PROVE Same
  BY <1>3 DEF Call, TypeOK
<1> SUFFICES Same
  OBVIOUS
<1> HIDE DEF Same
<1>4. CASE PutAuth(d)
  BY <1>1, <1>2, <1>4 DEF PutAuth
<1>5. CASE GetAuth(d)
  BY <1>1, <1>2, <1>5 DEF GetAuth
<1>6. CASE GetView(d)
  BY <1>1, <1>2, <1>6 DEF GetView
<1>7. CASE FindProject(d)
  BY <1>1, <1>7 DEF FindProject
<1>8. CASE CreateProject(d)
  BY <1>1, <1>8 DEF CreateProject
<1>9. CASE PutObject(d)
  BY <1>2, <1>9 DEF PutObject
<1> QED
  BY <1>3, <1>4, <1>5, <1>6, <1>7, <1>8, <1>9 DEF CallStep

\* No step lets a call with rejected credentials past authenticate.
LEMMA GateNext ==
  ASSUME TypeOK, PcInv, GateInv, [Next]_vars
  PROVE  GateInv'
<1> SUFFICES ASSUME NEW c \in Calls, Rejected(rv[c].cred)'
             PROVE  (out'[c] \in {"none", "auth"} /\
                     pc'[c] \in IF op'[c] = "put" THEN {"idle", "auth"}
                                                  ELSE {"idle", "get_auth"})
  BY DEF GateInv
<1>1. mode' = mode
  BY DEF Next, Step, CallStep, Call, PutAuth, GetAuth, GetView, FindProject,
     CreateProject, PutObject, AddUser, DeleteUser, Directory, Crash, env, vars
<1>2. ASSUME NEW f \in {"get", "put"}, NEW v \in Requests, Call(c, f, v)
      PROVE  /\ out'[c] = "none"
             /\ pc'[c] \in IF op'[c] = "put" THEN {"idle", "auth"}
                                              ELSE {"idle", "get_auth"}
  BY <1>2 DEF Call, TypeOK
<1>3. ASSUME rv'[c] = rv[c]
      PROVE  /\ out[c] \in {"none", "auth"}
             /\ pc[c] \in IF op[c] = "put" THEN {"idle", "auth"} ELSE {"idle", "get_auth"}
             /\ ~authenticate(rv[c].cred)
  <2>1. Rejected(rv[c].cred)
    BY <1>1, <1>3 DEF Rejected
  <2> QED
    BY <2>1 DEF GateInv, Rejected, authenticate, authenticateLdap
<1>4. ASSUME CallStep(c)
      PROVE  /\ out'[c] \in {"none", "auth"}
             /\ pc'[c] \in IF op'[c] = "put" THEN {"idle", "auth"}
                                              ELSE {"idle", "get_auth"}
  <2>1. rv'[c] = rv[c] /\ op'[c] = op[c]
    BY <1>4 DEF CallStep, PutAuth, GetAuth, GetView, FindProject,
       CreateProject, PutObject, Goto, Return
  <2>2. PutAuth(c) \/ (GetAuth(c) /\ op[c] # "put")
    BY <1>3, <1>4, <2>1 DEF CallStep, GetAuth, GetView, FindProject,
       CreateProject, PutObject
  <2>3. Return(c, "auth", None)
    BY <1>3, <2>1, <2>2 DEF PutAuth, GetAuth
  <2> QED
    BY <2>3 DEF Return, TypeOK
<1>5. CASE UNCHANGED <<pc, op, rv, out>>
  BY <1>3, <1>5
<1>6. CASE Crash
  BY <1>3, <1>6 DEF Crash
<1>7. ASSUME NEW d \in Calls, d # c,
             CallStep(d) \/ \E f \in {"get", "put"}, v \in Requests : Call(d, f, v)
      PROVE  pc'[c] = pc[c] /\ op'[c] = op[c] /\ rv'[c] = rv[c] /\ out'[c] = out[c]
  BY <1>7, OthersKept
<1> QED
  BY <1>2, <1>3, <1>4, <1>5, <1>6, <1>7 DEF Next, Step, AddUser, DeleteUser, Directory,
     vars, calls

\* Without valid credentials no call reads or writes metadata: the first
\* check of Put holds where the second one is overlooked.
THEOREM Gate == Spec => []AuthGate
<1>1. Init => GateInv
  BY DEF Init, GateInv
<1>2. TypeOK /\ PcInv /\ GateInv /\ [Next]_vars => GateInv'
  BY GateNext
<1>3. GateInv => AuthGate
  BY DEF GateInv, AuthGate
<1> QED
  BY <1>1, <1>2, <1>3, TypeCorrect, PTL DEF Spec

-----------------------------------------------------------------------------
(* Calm behaviours                                                         *)

\* Only the last step of a Put changes the objects.
LEMMA ObjectsStep ==
  ASSUME TypeOK, [Step]_vars
  PROVE  \/ UNCHANGED objects
         \/ \E c \in Calls : PutObject(c)
BY DEF Step, CallStep, Call, PutAuth, GetAuth, GetView, FindProject,
   CreateProject, AddUser, DeleteUser, Directory, Crash, db, vars

\* What a step does to one call: it begins it, takes it one step further,
\* ends it in a crash or leaves it alone.
LEMMA CallsStep ==
  ASSUME TypeOK, [Step]_vars, NEW c \in Calls
  PROVE  \/ \E f \in {"get", "put"}, v \in Requests : Call(c, f, v)
         \/ CallStep(c)
         \/ /\ pc'[c] = "idle" /\ op'[c] = op[c] /\ rv'[c] = rv[c]
            /\ got'[c] = got[c] /\ (out'[c] = out[c] \/ out'[c] = "none")
            /\ UNCHANGED objects
         \/ /\ pc'[c] = pc[c] /\ op'[c] = op[c] /\ rv'[c] = rv[c]
            /\ got'[c] = got[c] /\ out'[c] = out[c]
<1>1. ASSUME NEW d \in Calls, d # c,
             CallStep(d) \/ \E f \in {"get", "put"}, v \in Requests : Call(d, f, v)
      PROVE  /\ pc'[c] = pc[c] /\ op'[c] = op[c] /\ rv'[c] = rv[c]
             /\ got'[c] = got[c] /\ out'[c] = out[c]
  BY <1>1, OthersKept
<1>2. CASE UNCHANGED calls
  BY <1>2 DEF calls
<1>3. CASE Crash
  BY <1>3 DEF Crash, TypeOK, db
<1> QED
  BY <1>1, <1>2, <1>3 DEF Step, AddUser, DeleteUser, Directory, vars

\* A calm step never replaces an object on record.
LEMMA WriteOnceStep ==
  ASSUME calm, TypeOK, PcInv, PutInv, [Step /\ Calm]_vars, NEW o \in Oids, objects[o] # None
  PROVE  objects'[o] = objects[o]
<1>1. [Step]_vars
  OBVIOUS
<1>2. ASSUME NEW c \in Calls, PutObject(c) PROVE objects'[o] = objects[o]
  <2>1. ActivePut(c)
    BY <1>2 DEF PutObject, ActivePut, PcInv, TypeOK
  <2>2. Lookup(rv[c].oid) = None
    BY <1>2, <2>1 DEF PutInv, PutObject
  <2>3. rv[c].oid # o
    BY <2>2 DEF Lookup
  <2> QED
    BY <1>2, <2>3 DEF PutObject, TypeOK
<1> QED
  BY <1>1, <1>2, ObjectsStep

\* A calm step leaves each Put alone with its object.
LEMMA PutInvNext ==
  ASSUME calm, TypeOK, PcInv, PutInv, [Step /\ Calm]_vars
  PROVE  PutInv'
<1> SUFFICES ASSUME NEW c \in Calls, ActivePut(c)'
             PROVE  /\ pc'[c] = "get_auth" => authenticate(rv[c].cred)'
                    /\ pc'[c] \in {"find", "create", "object"}
                         => Lookup(rv[c].oid)' = None
                    /\ \A d \in Calls : ActivePut(d)' /\ rv'[d].oid = rv'[c].oid => d = c
  BY DEF PutInv
<1>0. [Step]_vars
  OBVIOUS
<1>1. pc'[c] = "get_auth" => authenticate(rv[c].cred)'
  <2> SUFFICES ASSUME pc'[c] = "get_auth" PROVE authenticate(rv[c].cred)'
    OBVIOUS
  <2>1. CASE PutAuth(c)
    <3>1. authenticate(rv[c].cred) /\ rv' = rv
      BY <2>1 DEF PutAuth, Goto, Return, TypeOK
    <3>2. UNCHANGED <<mode, users, dir>>
      BY <2>1 DEF PutAuth, db, env
    <3> QED
      BY <3>1, <3>2 DEF authenticate, authenticateLdap
  <2>2. CASE pc[c] = "get_auth" /\ op[c] = "put" /\ rv'[c] = rv[c]
    <3>1. authenticate(rv[c].cred) /\ ActivePut(c)
      BY <2>2 DEF PutInv, ActivePut
    <3>2. rv[c].cred \in Creds
      BY DEF TypeOK, ReqVars
    <3>3. CASE Steady
      <4>1. \A k \in Creds : authenticate(k) => authenticate(k)'
        BY <2>2, <3>1, <3>3 DEF Steady
      <4> QED
        BY <2>2, <3>1, <3>2, <4>1 DEF authenticate, authenticateLdap
    <3>4. CASE UNCHANGED vars
      BY <3>1, <3>4 DEF vars, db, env, calls, authenticate, authenticateLdap
    <3> QED
      BY <3>3, <3>4 DEF Calm
  <2>3. ASSUME CallStep(c), ~PutAuth(c) PROVE FALSE
    BY <2>3 DEF CallStep, GetAuth, GetView, FindProject, CreateProject,
       PutObject, Goto, Return, TypeOK
  <2>4. ASSUME NEW f \in {"get", "put"}, NEW v \in Requests, Call(c, f, v) PROVE FALSE
    BY <2>4 DEF Call, ActivePut, TypeOK
  <2> QED
    BY <1>0, <2>1, <2>2, <2>3, <2>4, CallsStep DEF ActivePut
<1>2. pc'[c] \in {"find", "create", "object"} => Lookup(rv[c].oid)' = None
  <2> SUFFICES ASSUME pc'[c] \in {"find", "create", "object"}
               PROVE  Lookup(rv[c].oid)' = None
    OBVIOUS
  <2>1. rv'[c] = rv[c] /\ op[c] = "put" /\ pc[c] # "idle" /\ Lookup(rv[c].oid) = None
    <3>1. CASE pc[c] \in {"find", "create", "object"} /\ op'[c] = op[c] /\ rv'[c] = rv[c]
      BY <3>1 DEF ActivePut, PutInv
    <3>2. CASE GetView(c)
      BY <3>2 DEF GetView, Goto, Return, TypeOK, ActivePut
    <3>3. CASE GetAuth(c)
      BY <3>3 DEF GetAuth, Goto, Return, TypeOK, ActivePut, PutInv
    <3>4. ASSUME CallStep(c), ~GetView(c), ~GetAuth(c)
          PROVE  /\ pc[c] \in {"find", "create", "object"}
                 /\ op'[c] = op[c] /\ rv'[c] = rv[c]
      BY <3>4 DEF CallStep, PutAuth, FindProject, CreateProject, PutObject,
         Goto, Return, TypeOK
    <3>5. ASSUME NEW f \in {"get", "put"}, NEW v \in Requests, Call(c, f, v) PROVE FALSE
      BY <3>5 DEF Call, TypeOK
    <3> QED
      BY <1>0, <3>1, <3>2, <3>3, <3>4, <3>5, CallsStep
  <2>2. CASE UNCHANGED objects
    BY <2>1, <2>2 DEF Lookup
  <2>3. ASSUME NEW d \in Calls, PutObject(d) PROVE Lookup(rv[c].oid)' = None
    <3>1. ActivePut(d) /\ ActivePut(c)
      BY <2>1, <2>3 DEF PutObject, PcInv, TypeOK, ActivePut
    <3>2. d # c
      BY <2>3 DEF PutObject, Return, TypeOK
    <3>3. rv[d].oid # rv[c].oid
      BY <3>1, <3>2 DEF PutInv
    <3> QED
      BY <2>1, <2>3, <3>3 DEF PutObject, Lookup, TypeOK
  <2> QED
    BY <1>0, <2>2, <2>3, ObjectsStep
<1>3. ASSUME NEW d \in Calls, ActivePut(d)', rv'[d].oid = rv'[c].oid PROVE d = c
  <2>1. \A e \in Calls : ActivePut(e)' =>
          \/ ActivePut(e) /\ rv'[e] = rv[e]
          \/ pc[e] = "idle" /\ pc'[e] = "auth"
    <3> SUFFICES ASSUME NEW e \in Calls, ActivePut(e)'
                 PROVE  \/ ActivePut(e) /\ rv'[e] = rv[e]
                        \/ pc[e] = "idle" /\ pc'[e] = "auth"
      OBVIOUS
    <3>1. ASSUME NEW f \in {"get", "put"}, NEW v \in Requests, Call(e, f, v)
          PROVE  pc[e] = "idle" /\ pc'[e] = "auth"
      BY <3>1 DEF Call, ActivePut, TypeOK
    <3>2. ASSUME CallStep(e) PROVE ActivePut(e) /\ rv'[e] = rv[e]
      BY <3>2 DEF CallStep, PutAuth, GetAuth, GetView, FindProject,
         CreateProject, PutObject, Goto, Return, ActivePut
    <3> QED
      BY <1>0, <3>1, <3>2, CallsStep DEF ActivePut
  <2>2. CASE ActivePut(c) /\ rv'[c] = rv[c] /\ ActivePut(d) /\ rv'[d] = rv[d]
    BY <1>3, <2>2 DEF PutInv
  <2>3. ASSUME NEW e \in Calls, NEW g \in Calls, pc[e] = "idle", pc'[e] = "auth",
               ActivePut(g), rv'[g] = rv[g]
        PROVE  rv'[e].oid # rv'[g].oid
    <3>1. Serial
      BY <2>3 DEF Calm, vars, calls
    <3> QED
      BY <2>3, <3>1 DEF Serial
  <2>4. ASSUME pc[c] = "idle", pc'[c] = "auth", pc[d] = "idle", pc'[d] = "auth"
        PROVE  d = c
    BY <1>0, <2>4, CallsStep DEF CallStep, PutAuth, GetAuth, GetView, FindProject,
       CreateProject, PutObject, Call, TypeOK
  <2> QED
    BY <1>3, <2>1, <2>2, <2>3, <2>4
<1> QED
  BY <1>1, <1>2, <1>3

\* A calm step keeps what Get and Put have returned on record.
LEMMA SnapshotNext ==
  ASSUME calm, TypeOK, PcInv, PutInv, SnapshotCurrent, [Step /\ Calm]_vars
  PROVE  SnapshotCurrent'
<1> SUFFICES ASSUME NEW c \in Calls, out'[c] \in {"found", "existing", "new"}
             PROVE  got'[c] # None /\ objects'[rv'[c].oid] = got'[c]
  BY DEF SnapshotCurrent
<1>0. [Step]_vars
  OBVIOUS
<1>1. CASE out'[c] = out[c] /\ rv'[c] = rv[c] /\ got'[c] = got[c]
  <2>1. rv[c].oid \in Oids /\ got[c] # None /\ objects[rv[c].oid] = got[c]
    BY <1>1 DEF SnapshotCurrent, PcInv
  <2> QED
    BY <1>1, <2>1, WriteOnceStep
<1>2. CASE GetView(c)
  <2> DEFINE m == Lookup(rv[c].oid)
  <2>1. m # None /\ got'[c] = m
    BY <1>2 DEF GetView, Return, Goto, TypeOK, PcInv
  <2>2. rv' = rv /\ objects' = objects
    BY <1>2 DEF GetView, Return, Goto, db
  <2> QED
    BY <2>1, <2>2 DEF Lookup
<1>3. CASE PutObject(c)
  <2> DEFINE m == [size |-> rv[c].size, repo |-> rv[c].repo]
  <2>1. m \in Metas /\ rv[c].oid \in Oids \cup {""}
    BY MetaTypes
  <2> HIDE DEF m
  <2>2. rv[c].oid # "" /\ Return(c, "new", m)
        /\ objects' = [objects EXCEPT ![rv[c].oid] = m]
    BY <1>3 DEF PutObject, Return, TypeOK, m
  <2> QED
    BY <2>1, <2>2, NoneAssumption DEF Return, TypeOK
<1>4. ASSUME CallStep(c), ~GetView(c), ~PutObject(c) PROVE FALSE
  BY <1>4 DEF CallStep, PutAuth, GetAuth, FindProject, CreateProject, Goto,
     Return, TypeOK, PcInv
<1>5. ASSUME NEW f \in {"get", "put"}, NEW v \in Requests, Call(c, f, v) PROVE FALSE
  BY <1>5 DEF Call, TypeOK
<1> QED
  BY <1>0, <1>1, <1>2, <1>3, <1>4, <1>5, CallsStep

\* In a behaviour that has been calm up to now, so was the step just taken.
LEMMA CalmBefore ==
  ASSUME [Next]_vars, calm'
  PROVE  calm /\ [Step /\ Calm]_vars
BY DEF Next, vars

\* The inductive invariant behind WriteOnce and Snapshots: Puts of one object
\* that do not overlap, by callers who keep their access.
THEOREM CalmInvariance == Spec => []PutInv
<1>1. Init => PutInv
  BY DEF Init, PutInv, ActivePut
<1>2. TypeOK /\ PcInv /\ PutInv /\ [Next]_vars => PutInv'
  <2> SUFFICES ASSUME TypeOK, PcInv, PutInv, [Next]_vars, calm' PROVE PutInv'
    BY DEF PutInv
  <2> QED
    BY CalmBefore, PutInvNext
<1> QED
  BY <1>1, <1>2, TypeCorrect, PTL DEF Spec

\* If Puts of one object do not overlap and nobody loses access between the
\* two checks of a Put, what is recorded for an object never changes.
THEOREM WriteOnce == Spec => RecordedOnce
<1>1. TypeOK /\ PcInv /\ PutInv /\ [Next]_vars =>
        [calm' => \A o \in Oids : objects[o] # None => objects'[o] = objects[o]]_vars
  BY CalmBefore, WriteOnceStep
<1> QED
  BY <1>1, TypeCorrect, CalmInvariance, PTL DEF RecordedOnce, Spec

\* ... and the metadata every caller was given stays the metadata on record.
THEOREM Snapshots == Spec => []SnapshotCurrent
<1>1. Init => SnapshotCurrent
  BY DEF Init, SnapshotCurrent
<1>2. TypeOK /\ PcInv /\ PutInv /\ SnapshotCurrent /\ [Next]_vars => SnapshotCurrent'
  <2> SUFFICES ASSUME TypeOK, PcInv, PutInv, SnapshotCurrent, [Next]_vars, calm'
               PROVE  SnapshotCurrent'
    BY DEF SnapshotCurrent
  <2> QED
    BY CalmBefore, SnapshotNext
<1> QED
  BY <1>1, <1>2, TypeCorrect, CalmInvariance, PTL DEF Spec

-----------------------------------------------------------------------------
(* Refinement: each calm step is a step of WriteOnceMeta or none           *)

\* What a call returns is returned by the abstract call.
LEMMA ReturnSimulation ==
  ASSUME TypeOK, NEW c \in Calls, pc[c] # "idle", NEW r, NEW m, Return(c, r, m)
  PROVE  stateBar[c] = "busy" /\ WM!Return(c, r, m)
<1>1. stateBar[c] = "busy"
  BY DEF stateBar
<1>2. stateBar' = [stateBar EXCEPT ![c] = "idle"]
  BY DEF stateBar, Return, TypeOK
<1> QED
  BY <1>1, <1>2 DEF Return, WM!Return, keyBar, metaBar

\* A transaction after which the call goes on changes nothing a caller sees.
LEMMA GotoSimulation ==
  ASSUME TypeOK, NEW c \in Calls, pc[c] # "idle", UNCHANGED objects,
         NEW p \in {"get_auth", "get_view", "find", "create", "object"}, Goto(c, p)
  PROVE  UNCHANGED WM!vars
<1>1. stateBar' = stateBar
  BY DEF stateBar, Goto, TypeOK
<1> QED
  BY <1>1 DEF Goto, WM!vars, keyBar, metaBar

\* A failed authentication and a failed write end the call.
LEMMA FailSimulation ==
  ASSUME TypeOK, NEW c \in Calls, pc[c] # "idle", UNCHANGED objects,
         NEW r \in {"auth", "error"}, Return(c, r, None)
  PROVE  WM!Fail(c)
BY ReturnSimulation DEF WM!Fail

\* Put takes effect in its last transaction.
LEMMA PutObjectSimulation ==
  ASSUME calm, TypeOK, PcInv, PutInv, NEW c \in Calls, PutObject(c)
  PROVE  WM!Record(c) \/ WM!Fail(c)
<1> DEFINE m == [size |-> rv[c].size, repo |-> rv[c].repo]
<1>1. ActivePut(c) /\ op[c] = "put" /\ pc[c] # "idle"
  BY DEF PutObject, ActivePut, PcInv, TypeOK
<1>2. Lookup(rv[c].oid) = None
  BY <1>1 DEF PutInv, PutObject
<1>3. keyBar[c] = rv[c].oid /\ metaBar[c] = m
  BY DEF keyBar, metaBar
<1>4. rv[c].oid \in Oids \cup {""}
  BY MetaTypes
<1> HIDE DEF m
<1>5. CASE rv[c].oid # "" /\ objects' = [objects EXCEPT ![rv[c].oid] = m]
           /\ Return(c, "new", m)
  <2>1. rv[c].oid \in Oids /\ ~WM!Recorded(rv[c].oid)
    BY <1>2, <1>4, <1>5 DEF WM!Recorded, Lookup
  <2>2. stateBar[c] = "busy" /\ WM!Return(c, "new", m)
    BY <1>1, <1>5, ReturnSimulation
  <2> QED
    BY <1>1, <1>3, <1>5, <2>1, <2>2 DEF WM!Record
<1>6. CASE Return(c, "error", None) /\ UNCHANGED objects
  BY <1>1, <1>6, FailSimulation
<1> QED
  BY <1>5, <1>6 DEF PutObject, m

\* Get, and a Put that finds the object, take effect when they read it.
LEMMA GetViewSimulation ==
  ASSUME TypeOK, NEW c \in Calls, GetView(c)
  PROVE  WM!Found(c) \/ WM!Missing(c) \/ UNCHANGED WM!vars
<1> DEFINE m == Lookup(rv[c].oid)
<1>1. pc[c] # "idle" /\ objects' = objects /\ keyBar[c] = rv[c].oid
  BY DEF GetView, db, keyBar
<1>2. CASE m # None /\ Return(c, IF op[c] = "put" THEN "existing" ELSE "found", m)
  <2>1. WM!Recorded(rv[c].oid) /\ m = objects[rv[c].oid]
    BY <1>2 DEF WM!Recorded, Lookup
  <2> QED
    BY <1>1, <1>2, <2>1, ReturnSimulation DEF WM!Found
<1>3. CASE Goto(c, "find")
  BY <1>1, <1>3, GotoSimulation
<1>4. CASE m = None /\ op[c] # "put" /\ Return(c, "missing", None)
  <2>1. ~WM!Recorded(rv[c].oid) /\ op[c] = "get"
    BY <1>4 DEF WM!Recorded, Lookup, TypeOK
  <2> QED
    BY <1>1, <1>4, <2>1, ReturnSimulation DEF WM!Missing
<1> QED
  BY <1>2, <1>3, <1>4 DEF GetView

LEMMA StepSimulation ==
  ASSUME calm, TypeOK, PcInv, PutInv, [Step]_vars
  PROVE  [WM!Next]_(WM!vars)
<1>1. ASSUME NEW c \in Calls, NEW f \in {"get", "put"}, NEW v \in Requests, Call(c, f, v)
      PROVE  WM!Next
  <2> DEFINE m == [size |-> v.size, repo |-> v.repo]
  <2>1. v \in ReqVars /\ v.oid \in Oids \cup {""} /\ m \in Metas
    BY RequestsAssumption DEF ReqVars, Metas
  <2>2. stateBar[c] = "idle" /\ stateBar' = [stateBar EXCEPT ![c] = "busy"]
    BY <1>1 DEF Call, stateBar, TypeOK
  <2>3. keyBar' = [keyBar EXCEPT ![c] = v.oid]
    BY <1>1 DEF Call, keyBar, TypeOK
  <2>4. metaBar' = [metaBar EXCEPT ![c] = m]
    BY <1>1 DEF Call, metaBar, TypeOK
  <2> HIDE DEF m
  <2>5. WM!Call(c, f, v.oid, m)
    BY <1>1, <2>2, <2>3, <2>4 DEF Call, WM!Call, db
  <2> QED
    BY <2>1, <2>5 DEF WM!Next
<1>2. ASSUME NEW c \in Calls, CallStep(c)
      PROVE  WM!Found(c) \/ WM!Missing(c) \/ WM!Record(c) \/ WM!Fail(c) \/ UNCHANGED WM!vars
  <2>1. CASE PutAuth(c)
    BY <2>1, GotoSimulation, FailSimulation DEF PutAuth, db
  <2>2. CASE GetAuth(c)
    BY <2>2, GotoSimulation, FailSimulation DEF GetAuth, db
  <2>3. CASE GetView(c)
    BY <2>3, GetViewSimulation
  <2>4. CASE FindProject(c)
    BY <2>4, GotoSimulation DEF FindProject, db
  <2>5. CASE CreateProject(c)
    BY <2>5, GotoSimulation DEF CreateProject
  <2>6. CASE PutObject(c)
    BY <2>6, PutObjectSimulation
  <2> QED
    BY <1>2, <2>1, <2>2, <2>3, <2>4, <2>5, <2>6 DEF CallStep
<1>3. ASSUME Crash PROVE WM!Restart
  <2>1. stateBar' = [c \in Calls |-> "idle"]
    BY <1>3 DEF Crash, stateBar
  <2>2. out' = [c \in Calls |-> IF stateBar[c] = "idle" THEN out[c] ELSE "none"]
    BY <1>3 DEF Crash, stateBar, TypeOK
  <2> QED
    BY <1>3, <2>1, <2>2 DEF Crash, WM!Restart, db, keyBar, metaBar
<1>4. ASSUME UNCHANGED <<objects, calls>> PROVE UNCHANGED WM!vars
  BY <1>4 DEF calls, WM!vars, stateBar, keyBar, metaBar
<1>5. ASSUME Directory \/ UNCHANGED vars \/ \E u \in Users :
               DeleteUser(u) \/ \E p \in Passwords : AddUser(u, p)
      PROVE  UNCHANGED <<objects, calls>>
  BY <1>5 DEF Directory, DeleteUser, AddUser, vars, db
<1> QED
  BY <1>1, <1>2, <1>3, <1>4, <1>5 DEF Step, WM!Next

\* In calm behaviours the database is a write-once register: every call, of
\* up to six transactions, takes effect in one of them.
THEOREM Refinement == Spec => Refines
<1>1. Init => WM!Init
  <2> SUFFICES ASSUME Init PROVE WM!Init
    OBVIOUS
  <2>1. TypeOK
    BY TypeInit
  <2>2. keyBar \in [Calls -> Oids \cup {""}] /\ metaBar \in [Calls -> Metas]
    BY <2>1, MetaTypes DEF keyBar, metaBar
  <2> QED
    BY <2>1, <2>2 DEF Init, WM!Init, stateBar, TypeOK
<1>2. TypeOK /\ PcInv /\ PutInv /\ [Next]_vars => [calm' => [WM!Next]_(WM!vars)]_vars
  BY CalmBefore, StepSimulation
<1> QED
  BY <1>1, <1>2, TypeCorrect, CalmInvariance, PTL DEF Spec, Refines

-----------------------------------------------------------------------------
(* The pages beside the store                                              *)

\* A step of the store, of a page or of the environment is a step of
\* BoltMetaStore; a page that only shows something is a stutter there.
LEMMA StoreSimulation == TypeOK /\ [MNext]_mvars => [Next]_vars
<1> SUFFICES ASSUME TypeOK, MNext PROVE [Next]_vars
  BY DEF mvars, vars
<1>1. CASE StoreStep
  BY <1>1 DEF StoreStep, MNext, Next, Step
<1>2. CASE objectsHandler \/ projectsHandler
  <2>1. UNCHANGED <<db, env, calls, crashes>>
    BY <1>2 DEF objectsHandler, projectsHandler
  <2>2. Serial
    BY <2>1 DEF Serial, calls
  <2>3. Steady
    <3>1. \A k \in Creds : authenticate(k) => authenticate(k)'
      BY <2>1 DEF authenticate, authenticateLdap, db, env
    <3> QED
      BY <3>1 DEF Steady
  <2>4. calm' = calm
    BY <2>2, <2>3 DEF MNext, Calm, TypeOK
  <2> QED
    BY <2>1, <2>4 DEF vars
<1>3. CASE \E u \in Users : delUserHandler(u) \/ \E p \in Passwords : addUserHandler(u, p)
  BY <1>3 DEF delUserHandler, addUserHandler, MNext, Next, Step
<1> QED
  BY <1>1, <1>2, <1>3 DEF MNext, PageStep

\* The pages change nothing in the store that its own operations could not:
\* what is proved of BoltMetaStore holds of the store behind the pages.
THEOREM StoreBehaves == MSpec => Spec
<1>1. MInit => Init /\ TypeOK /\ PcInv
  BY TypeInit DEF MInit
<1>2. TypeOK /\ PcInv /\ [MNext]_mvars => [Next]_vars /\ TypeOK' /\ PcInv'
  BY StoreSimulation, TypeNext
<1> QED
  BY <1>1, <1>2, PTL DEF MSpec, Spec

\* Type correctness of the pages; the store's is BoltMetaStore's.
THEOREM PageTypes == MSpec => []MTypeOK
<1> DEFINE PTypeOK == /\ listed \in SUBSET Repos
                      /\ shown \in (SUBSET Repos) \cup {None}
                      /\ valid \in [Calls -> BOOLEAN]
<1>1. MInit => PTypeOK
  BY DEF MInit
<1>2. PTypeOK /\ TypeOK /\ [MNext]_mvars => PTypeOK'
  <2> SUFFICES ASSUME PTypeOK, TypeOK, [MNext]_mvars PROVE PTypeOK'
    OBVIOUS
  <2>1. CASE UNCHANGED mvars
    BY <2>1 DEF mvars, pages
  <2>2. CASE MNext
    <3>1. valid' \in [Calls -> BOOLEAN]
      <4>1. \A c \in Calls :
              (IF pc[c] = "idle" /\ pc'[c] = "idle" THEN valid[c]
               ELSE authenticate(rv[c].cred)' \/ (pc[c] # "idle" /\ valid[c])) \in BOOLEAN
        BY Zenon DEF authenticate
      <4> QED
        BY <2>2, <4>1 DEF MNext, Witness
    <3>2. CASE objectsHandler
      <4>1. \A o \in Oids : objects[o] # None => objects[o].repo \in Repos \cup {""}
        BY NoneAssumption DEF TypeOK, Metas
      <4> QED
        BY <3>1, <3>2, <4>1 DEF objectsHandler, Objects
    <3>3. CASE projectsHandler
      BY <3>1, <3>3 DEF projectsHandler, Projects
    <3>4. CASE UNCHANGED pages
      BY <3>1, <3>4 DEF pages
    <3> QED
      BY <2>2, <3>2, <3>3, <3>4 DEF MNext, StoreStep, PageStep, addUserHandler, delUserHandler
  <2> QED
    BY <2>1, <2>2
<1>3. MTypeOK <=> PTypeOK /\ TypeOK
  BY DEF MTypeOK
<1> QED
  BY <1>1, <1>2, <1>3, StoreBehaves, TypeCorrect, PTL DEF MSpec

-----------------------------------------------------------------------------
(* PagesAgree: what the objects page has shown has its project in the      *)
(* store, and no step of the store removes a project.                      *)

ListedInv == \A p \in listed : projects[p] # {}

\* No step takes the last object from a project.
LEMMA ProjectsStay ==
  ASSUME TypeOK, [Next]_vars, NEW p \in Repos, projects[p] # {}
  PROVE  projects'[p] # {}
<1>1. CASE UNCHANGED projects
  BY <1>1
<1>2. ASSUME NEW c \in Calls, CreateProject(c) PROVE projects'[p] # {}
  BY <1>2 DEF CreateProject, TypeOK
<1>3. UNCHANGED projects \/ \E c \in Calls : CreateProject(c)
  BY DEF Next, Step, CallStep, Call, PutAuth, GetAuth, GetView, FindProject,
     PutObject, AddUser, DeleteUser, Directory, Crash, db, vars
<1> QED
  BY <1>1, <1>2, <1>3

\* The projects of the objects an administrator has seen are on the projects
\* page fetched afterwards, whatever comes between the two.
THEOREM Agreement == MSpec => []PagesAgree
<1>1. MInit => ListedInv /\ PagesAgree
  BY DEF MInit, ListedInv, PagesAgree
<1>2. MTypeOK /\ ProjectFirst /\ ListedInv /\ PagesAgree /\ [MNext]_mvars
        => ListedInv' /\ PagesAgree'
  <2> SUFFICES ASSUME MTypeOK, ProjectFirst, ListedInv, PagesAgree, [MNext]_mvars
               PROVE  ListedInv' /\ PagesAgree'
    OBVIOUS
  <2>0. TypeOK /\ listed \subseteq Repos /\ [Next]_vars
    BY StoreSimulation DEF MTypeOK
  <2>1. CASE UNCHANGED pages
    <3>1. ListedInv'
      BY <2>0, <2>1, ProjectsStay DEF ListedInv, pages
    <3> QED
      BY <2>1, <3>1 DEF PagesAgree, pages
  <2>2. CASE objectsHandler
    <3>1. ListedInv'
      BY <2>2 DEF objectsHandler, Objects, ListedInv, ProjectFirst, db
    <3> QED
      BY <2>2, <3>1 DEF objectsHandler, PagesAgree
  <2>3. CASE projectsHandler
    <3>1. listed' = listed /\ projects' = projects
      BY <2>3 DEF projectsHandler, db
    <3> QED
      BY <2>0, <2>3, <3>1 DEF projectsHandler, Projects, ListedInv, PagesAgree
  <2> QED
    BY <2>1, <2>2, <2>3 DEF MNext, StoreStep, PageStep, addUserHandler,
       delUserHandler, mvars
<1> QED
  BY <1>1, <1>2, PageTypes, StoreBehaves, ProjectOrder, PTL DEF MSpec

-----------------------------------------------------------------------------
(* Admitted                                                                *)

\* A call whose credentials have not been valid so far stays where it is,
\* begins, or is turned away.
LEMMA AdmittedNext ==
  ASSUME MTypeOK, PcInv, AdmittedInv, [MNext]_mvars
  PROVE  AdmittedInv'
<1> SUFFICES ASSUME NEW c \in Calls, ~valid'[c]
             PROVE  /\ out'[c] \in {"none", "auth"}
                    /\ pc'[c] \in IF op'[c] = "put" THEN {"idle", "auth"}
                                                    ELSE {"idle", "get_auth"}
                    /\ pc'[c] # "idle" => ~authenticate(rv[c].cred)'
  BY DEF AdmittedInv
<1>0. TypeOK /\ valid \in [Calls -> BOOLEAN] /\ [Next]_vars /\ [Step]_vars
  <2>1. TypeOK /\ valid \in [Calls -> BOOLEAN]
    BY DEF MTypeOK
  <2>2. [Next]_vars
    BY <2>1, StoreSimulation
  <2> QED
    BY <2>1, <2>2 DEF Next, vars
<1> DEFINE Early ==
      /\ out[c] \in {"none", "auth"}
      /\ pc[c] \in IF op[c] = "put" THEN {"idle", "auth"} ELSE {"idle", "get_auth"}
      /\ pc[c] # "idle" => ~authenticate(rv[c].cred)
<1>1. CASE UNCHANGED mvars
  <2>1. Early
    BY <1>1 DEF mvars, AdmittedInv
  <2>2. authenticate(rv[c].cred)' <=> authenticate(rv[c].cred)
    BY <1>1 DEF mvars, vars, db, env, calls, authenticate, authenticateLdap
  <2> QED
    BY <1>1, <2>1, <2>2 DEF mvars, vars, calls
<1>2. CASE MNext
  <2>1. valid'[c] = IF pc[c] = "idle" /\ pc'[c] = "idle" THEN valid[c]
                    ELSE authenticate(rv[c].cred)' \/ (pc[c] # "idle" /\ valid[c])
    BY <1>2 DEF MNext, Witness
  <2>2. pc'[c] # "idle" => ~authenticate(rv[c].cred)'
    BY <2>1
  <2>3. ASSUME NEW f \in {"get", "put"}, NEW v \in Requests, Call(c, f, v)
        PROVE  /\ out'[c] = "none"
               /\ pc'[c] = IF op'[c] = "put" THEN "auth" ELSE "get_auth"
    BY <1>0, <2>3 DEF Call, TypeOK
  <2>4. CASE pc[c] # "idle" \/ pc'[c] = "idle"
    <3>1. Early
      BY <2>1, <2>4 DEF AdmittedInv
    <3>2. ASSUME CallStep(c) PROVE pc'[c] = "idle" /\ out'[c] = "auth"
      <4>1. PutAuth(c) \/ GetAuth(c)
        BY <3>1, <3>2 DEF CallStep, GetView, FindProject, CreateProject, PutObject
      <4>2. CASE PutAuth(c)
        BY <1>0, <3>1, <4>2 DEF PutAuth, Return, TypeOK
      <4>3. CASE GetAuth(c)
        BY <1>0, <3>1, <4>3 DEF GetAuth, Return, TypeOK
      <4> QED
        BY <4>1, <4>2, <4>3
    <3> QED
      BY <1>0, <2>2, <2>3, <3>1, <3>2, CallsStep
  <2>5. CASE pc[c] = "idle" /\ pc'[c] # "idle"
    <3>1. ~CallStep(c)
      BY <2>5 DEF CallStep, PutAuth, GetAuth, GetView, FindProject, CreateProject, PutObject
    <3> QED
      BY <1>0, <2>2, <2>3, <2>5, <3>1, CallsStep
  <2> QED
    BY <2>4, <2>5
<1> QED
  BY <1>1, <1>2

\* A caller whose credentials are not valid at any time of the call learns and
\* writes nothing, in every mode, whoever adds and deletes users meanwhile.
THEOREM Admission == MSpec => []Admitted
<1>1. MInit => AdmittedInv
  BY DEF MInit, Init, AdmittedInv
<1>2. MTypeOK /\ PcInv /\ AdmittedInv /\ [MNext]_mvars => AdmittedInv'
  BY AdmittedNext
<1>3. AdmittedInv => Admitted
  BY DEF AdmittedInv, Admitted
<1> QED
  BY <1>1, <1>2, <1>3, PageTypes, StoreBehaves, TypeCorrect, PTL DEF MSpec

=============================================================================
