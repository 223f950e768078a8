------------------------ MODULE MySQLMetaStoreProofs ------------------------
(***************************************************************************)
(* Theorems about MySQLMetaStore, for any set of calls, objects and        *)
(* projects, however statements fail.                                      *)
(***************************************************************************)
EXTENDS MySQLMetaStore, TLAPS

-----------------------------------------------------------------------------
(* Types and control                                                       *)

\* The part of TypeOK that is about the calls of Get and Put.
CallsOK ==
    /\ pc \in [Calls -> {"idle", "auth", "get_auth", "find_oid", "oid",
                         "project", "map_id", "map"}]
    /\ op  \in [Calls -> {"get", "put"}]
    /\ rv  \in [Calls -> ReqVars]
    /\ id  \in [Calls -> Repos \cup {NoProject}]
    /\ got \in [Calls -> Sizes \cup {None}]
    /\ out \in [Calls -> Outcomes]

\* The part of TypeOK that is about the tables and the bounds.
TablesOK ==
    /\ oids     \in [Oids -> Sizes \cup {None}]
    /\ projects \in SUBSET Repos
    /\ maps     \in [Oids -> [Repos \cup {NoProject} -> 0 .. MaxMaps]]
    /\ mode \in Modes
    /\ faults \in 0 .. MaxFaults
    /\ crashes \in 0 .. MaxCrashes

\* The empty tables and idle calls have the right types.
LEMMA TypeInit == Init => TypeOK /\ PcInv
<1> SUFFICES ASSUME Init PROVE TypeOK /\ PcInv
  OBVIOUS
<1>1. (CHOOSE v \in Requests : TRUE) \in ReqVars
  BY RequestsAssumption
<1>2. rv \in [Calls -> ReqVars]
  BY <1>1 DEF Init
<1>3. MaxMaps \in Nat /\ MaxFaults \in Nat /\ MaxCrashes \in Nat
  BY BoundsAssumption
<1>4. maps \in [Oids -> [Repos \cup {NoProject} -> 0 .. MaxMaps]]
  BY <1>3 DEF Init
<1>5. TypeOK
  BY <1>2, <1>3, <1>4 DEF Init, TypeOK, Outcomes
<1> QED
  BY <1>5 DEF Init, PcInv

\* What a call is about.
LEMMA ReqTypes ==
  ASSUME TypeOK, NEW c \in Calls
  PROVE  /\ rv[c].oid \in Oids /\ rv[c].size \in Sizes
         /\ rv[c].repo \in Repos \cup {""}
BY DEF TypeOK, ReqVars

\* A statement that is executed or fails keeps the count of failures in bounds.
LEMMA FaultsKeep ==
  ASSUME TypeOK, Ok \/ Fault
  PROVE  faults' \in 0 .. MaxFaults
BY BoundsAssumption DEF TypeOK, Ok, Fault

\* A call of Get or Put that goes on to its next statement keeps its types.
LEMMA GotoKeeps ==
  ASSUME CallsOK, PcInv, NEW c \in Calls, pc[c] # "idle",
         NEW p \in {"get_auth", "find_oid", "oid", "project", "map_id"},
         Goto(c, p),
         p \in {"project", "map_id"} => rv[c].repo \in Repos,
         op[c] = "get" => p \in {"get_auth", "find_oid"}
  PROVE  CallsOK' /\ PcInv'
<1>1. CallsOK'
  BY DEF CallsOK, Goto
<1>2. PcInv'
  BY DEF CallsOK, PcInv, Goto
<1> QED
  BY <1>1, <1>2

\* A call of Get or Put that returns keeps its types.
LEMMA ReturnKeeps ==
  ASSUME CallsOK, PcInv, NEW c \in Calls, NEW r \in Outcomes,
         NEW m \in Sizes \cup {None}, Return(c, r, m)
  PROVE  CallsOK' /\ PcInv'
<1>1. CallsOK'
  BY DEF CallsOK, Return
<1>2. PcInv'
  BY DEF CallsOK, PcInv, Return
<1> QED
  BY <1>1, <1>2

\* Every statement, new project and restart keeps the types.
LEMMA TypeNext == TypeOK /\ PcInv /\ [Next]_vars => TypeOK' /\ PcInv'
<1> SUFFICES ASSUME TypeOK, PcInv, [Next]_vars PROVE TypeOK' /\ PcInv'
  OBVIOUS
<1>0. CallsOK /\ TablesOK
  BY DEF TypeOK, CallsOK, TablesOK
<1>a. calm' \in BOOLEAN
  BY DEF TypeOK, Next, vars
<1>b. CallsOK' /\ TablesOK' => TypeOK'
  BY <1>a DEF CallsOK, TablesOK, TypeOK
<1>c. UNCHANGED <<tables, mode, crashes>> /\ faults' \in 0 .. MaxFaults => TablesOK'
  BY <1>0 DEF TablesOK, tables
<1>1. ASSUME NEW c \in Calls, NEW f \in {"get", "put"}, NEW v \in Requests, Call(c, f, v)
      PROVE  TypeOK' /\ PcInv'
  <2>1. CallsOK'
    BY <1>0, <1>1, RequestsAssumption DEF CallsOK, Call, Outcomes
  <2>2. PcInv'
    BY <1>0, <1>1 DEF PcInv, CallsOK, Call
  <2>3. TablesOK'
    BY <1>0, <1>1 DEF Call, TablesOK, tables
  <2> QED
    BY <1>b, <2>1, <2>2, <2>3
<1>2. ASSUME NEW c \in Calls, PutAuth(c) PROVE TypeOK' /\ PcInv'
  <2>1. CallsOK' /\ PcInv'
    <3>1. CASE Goto(c, "get_auth")
      BY <1>0, <1>2, <3>1, GotoKeeps DEF PutAuth
    <3>2. CASE Return(c, "auth", None)
      BY <1>0, <1>2, <3>2, ReturnKeeps DEF PutAuth, Outcomes
    <3> QED
      BY <1>2, <3>1, <3>2 DEF PutAuth
  <2>2. TablesOK'
    BY <1>0, <1>2 DEF PutAuth, TablesOK, tables
  <2> QED
    BY <1>b, <2>1, <2>2
<1>3. ASSUME NEW c \in Calls, GetAuth(c) PROVE TypeOK' /\ PcInv'
  <2>1. CallsOK' /\ PcInv'
    <3>1. CASE Goto(c, "find_oid")
      BY <1>0, <1>3, <3>1, GotoKeeps DEF GetAuth
    <3>2. CASE op[c] = "put" /\ Goto(c, "oid")
      BY <1>0, <1>3, <3>2, GotoKeeps DEF GetAuth
    <3>3. CASE Return(c, "auth", None)
      BY <1>0, <1>3, <3>3, ReturnKeeps DEF GetAuth, Outcomes
    <3> QED
      BY <1>3, <3>1, <3>2, <3>3 DEF GetAuth
  <2>2. TablesOK'
    BY <1>0, <1>3 DEF GetAuth, TablesOK, tables
  <2> QED
    BY <1>b, <2>1, <2>2
<1>4. ASSUME NEW c \in Calls, FindOid(c) PROVE TypeOK' /\ PcInv'
  <2> DEFINE s == oids[rv[c].oid]
  <2>1. s \in Sizes \cup {None}
    BY ReqTypes DEF TypeOK
  <2> HIDE DEF s
  <2>2. CallsOK' /\ PcInv'
    <3>1. CASE Return(c, IF op[c] = "put" THEN "existing" ELSE "found", s)
      BY <1>0, <2>1, <3>1, ReturnKeeps DEF Outcomes
    <3>2. CASE op[c] = "put" /\ Goto(c, "oid")
      BY <1>0, <1>4, <3>2, GotoKeeps DEF FindOid
    <3>3. CASE Return(c, "missing", None)
      BY <1>0, <3>3, ReturnKeeps DEF Outcomes
    <3> QED
      BY <1>4, <3>1, <3>2, <3>3 DEF FindOid, s
  <2>3. TablesOK'
    BY <1>4, <1>c, FaultsKeep DEF FindOid
  <2> QED
    BY <1>b, <2>2, <2>3
<1>5. ASSUME NEW c \in Calls, CreateOid(c) PROVE TypeOK' /\ PcInv'
  <2>1. CallsOK' /\ PcInv'
    <3>1. op[c] # "get"
      BY <1>0, <1>5 DEF CreateOid, PcInv
    <3>2. CASE Return(c, "new", rv[c].size)
      BY <1>0, <3>2, ReqTypes, ReturnKeeps DEF Outcomes
    <3>3. CASE rv[c].repo # "" /\ Goto(c, "project")
      BY <1>0, <1>5, <3>1, <3>3, ReqTypes, GotoKeeps DEF CreateOid
    <3> QED
      BY <1>5, <3>2, <3>3 DEF CreateOid, PutDone
  <2>2. faults' \in 0 .. MaxFaults
    BY <1>5, FaultsKeep DEF CreateOid
  <2>3. oids' \in [Oids -> Sizes \cup {None}]
    BY <1>5, ReqTypes DEF CreateOid, TypeOK
  <2>4. TablesOK'
    BY <1>0, <1>5, <2>2, <2>3 DEF CreateOid, TablesOK
  <2> QED
    BY <1>b, <2>1, <2>4
<1>6. ASSUME NEW c \in Calls, FindProject(c) PROVE TypeOK' /\ PcInv'
  <2>1. CallsOK' /\ PcInv'
    <3>1. op[c] # "get" /\ rv[c].repo \in Repos
      BY <1>0, <1>6 DEF FindProject, PcInv
    <3>2. CASE Goto(c, "map_id")
      BY <1>0, <1>6, <3>1, <3>2, GotoKeeps DEF FindProject
    <3>3. CASE Return(c, "noproject", None) \/ Return(c, "panic", None)
      BY <1>0, <3>3, ReturnKeeps DEF Outcomes
    <3> QED
      BY <1>6, <3>2, <3>3 DEF FindProject
  <2>2. TablesOK'
    BY <1>6, <1>c, FaultsKeep DEF FindProject
  <2> QED
    BY <1>b, <2>1, <2>2
<1>7. ASSUME NEW c \in Calls, MapSelect(c) PROVE TypeOK' /\ PcInv'
  <2>1. id' \in [Calls -> Repos \cup {NoProject}]
    BY <1>0, <1>7, ReqTypes DEF MapSelect, CallsOK, TablesOK
  <2>2. CallsOK'
    BY <1>0, <1>7, <2>1 DEF MapSelect, CallsOK
  <2>3. PcInv'
    BY <1>0, <1>7 DEF MapSelect, CallsOK, PcInv
  <2>4. TablesOK'
    BY <1>7, <1>c, FaultsKeep DEF MapSelect
  <2> QED
    BY <1>b, <2>2, <2>3, <2>4
<1>8. ASSUME NEW c \in Calls, MapInsert(c) PROVE TypeOK' /\ PcInv'
  <2>1. CallsOK' /\ PcInv'
    <3>1. CASE Return(c, "new", rv[c].size)
      BY <1>0, <3>1, ReqTypes, ReturnKeeps DEF Outcomes
    <3>2. CASE Return(c, "panic", None)
      BY <1>0, <3>2, ReturnKeeps DEF Outcomes
    <3> QED
      BY <1>8, <3>1, <3>2 DEF MapInsert, PutDone
  <2>2. faults' \in 0 .. MaxFaults
    BY <1>8, FaultsKeep DEF MapInsert
  <2>3. maps' \in [Oids -> [Repos \cup {NoProject} -> 0 .. MaxMaps]]
    <3> DEFINE o == rv[c].oid
               p == id[c]
    <3>1. o \in Oids /\ p \in Repos \cup {NoProject}
      BY <1>0, ReqTypes DEF CallsOK
    <3> HIDE DEF o, p
    <3>2. CASE UNCHANGED maps
      BY <1>0, <3>2 DEF TablesOK
    <3>3. CASE maps' = [maps EXCEPT ![o][p] = IF @ < MaxMaps THEN @ + 1 ELSE @]
      <4> DEFINE n == IF maps[o][p] < MaxMaps THEN maps[o][p] + 1 ELSE maps[o][p]
      <4>1. maps[o] \in [Repos \cup {NoProject} -> 0 .. MaxMaps]
        BY <1>0, <3>1 DEF TablesOK
      <4>2. n \in 0 .. MaxMaps
        <5>1. maps[o][p] \in 0 .. MaxMaps
          BY <3>1, <4>1
        <5> QED
          BY <5>1, BoundsAssumption
      <4>3. maps' = [maps EXCEPT ![o] = [maps[o] EXCEPT ![p] = n]]
        BY <3>3
      <4> HIDE DEF n
      <4>4. [maps[o] EXCEPT ![p] = n] \in [Repos \cup {NoProject} -> 0 .. MaxMaps]
        BY <4>1, <4>2
      <4> QED
        BY <1>0, <4>3, <4>4 DEF TablesOK
    <3> QED
      BY <1>8, <3>2, <3>3 DEF MapInsert, o, p
  <2>4. TablesOK'
    BY <1>0, <1>8, <2>2, <2>3 DEF MapInsert, TablesOK
  <2> QED
    BY <1>b, <2>1, <2>4
<1>9. ASSUME NEW p \in Repos, AddProject(p) PROVE TypeOK' /\ PcInv'
  <2>1. CallsOK' /\ PcInv'
    BY <1>0, <1>9 DEF AddProject, CallsOK, PcInv, calls
  <2>2. TablesOK'
    BY <1>0, <1>9 DEF AddProject, TablesOK
  <2> QED
    BY <1>b, <2>1, <2>2
<1>10. CASE Crash
  <2>1. CallsOK' /\ PcInv'
    BY <1>0, <1>10 DEF Crash, CallsOK, PcInv
  <2>2. crashes' \in 0 .. MaxCrashes
    BY <1>0, <1>10, BoundsAssumption DEF Crash, TablesOK
  <2>3. TablesOK'
    BY <1>0, <1>10, <2>2 DEF Crash, TablesOK, tables
  <2> QED
    BY <1>b, <2>1, <2>3
<1>11. CASE UNCHANGED vars
  BY <1>11 DEF vars, tables, calls, TypeOK, PcInv
<1> QED
  BY <1>1, <1>2, <1>3, <1>4, <1>5, <1>6, <1>7, <1>8, <1>9, <1>10, <1>11
     DEF Next, Step, CallStep

\* The tables and the calls are well typed, whatever statements fail, and only
\* a Put with a project reaches the statements that map it.
THEOREM TypeCorrect == Spec => [](TypeOK /\ PcInv)
<1> QED
  BY TypeInit, TypeNext, PTL DEF Spec

-----------------------------------------------------------------------------
(* Write-once metadata                                                     *)

\* The primary key of oids: no statement replaces a row.
LEMMA WriteOnceStep ==
  ASSUME TypeOK, [Next]_vars, NEW o \in Oids, oids[o] # None
  PROVE  oids'[o] = oids[o]
<1>1. ASSUME NEW c \in Calls, CreateOid(c) PROVE oids'[o] = oids[o]
  BY <1>1 DEF CreateOid, TypeOK
<1> QED
  BY <1>1 DEF Next, Step, CallStep, Call, PutAuth, GetAuth, FindOid, FindProject,
     MapSelect, MapInsert, AddProject, Crash, vars, tables

\* The size on record for an object never changes, however Puts overlap,
\* authentication lapses and statements fail: unlike in the other stores the
\* table itself refuses the second row.
THEOREM WriteOnce == Spec => RecordedOnce
<1>1. TypeOK /\ [Next]_vars =>
        [\A o \in Oids : oids[o] # None => oids'[o] = oids[o]]_vars
  BY WriteOnceStep
<1> QED
  BY <1>1, TypeCorrect, PTL DEF RecordedOnce, Spec

-----------------------------------------------------------------------------
(* Sound mappings                                                          *)

\* Until a statement fails, rows and projects are only added.
LEMMA Monotone ==
  ASSUME TypeOK, [Next]_vars
  PROVE  /\ \A o \in Oids : oids[o] # None => oids'[o] # None
         /\ projects \subseteq projects'
         /\ faults' = 0 => faults = 0
<1>1. \A o \in Oids : oids[o] # None => oids'[o] # None
  BY WriteOnceStep
<1>2. projects \subseteq projects'
  BY DEF Next, Step, CallStep, Call, PutAuth, GetAuth, FindOid, CreateOid, FindProject,
     MapSelect, MapInsert, AddProject, Crash, vars, tables
<1>3. faults' = faults \/ faults' = faults + 1
  BY DEF Next, Step, CallStep, Call, PutAuth, GetAuth, FindOid, CreateOid, FindProject,
     MapSelect, MapInsert, AddProject, Crash, vars, tables, Ok, Fault
<1>4. faults \in Nat
  BY DEF TypeOK
<1> QED
  BY <1>1, <1>2, <1>3, <1>4

\* While no statement has failed, a Put that goes on to map its object has
\* the object on record and, after findProject, the project in place.
LEMMA MapInvNext ==
  ASSUME TypeOK, PcInv, MapInv, [Next]_vars
  PROVE  MapInv'
<1> SUFFICES ASSUME faults' = 0, NEW c \in Calls
             PROVE  /\ pc'[c] \in {"project", "map_id", "map"} => oids'[rv'[c].oid] # None
                    /\ pc'[c] \in {"map_id", "map"} => rv'[c].repo \in projects'
                    /\ pc'[c] = "map" => id'[c] = rv'[c].repo
  BY DEF MapInv
<1> DEFINE Good ==
      /\ pc'[c] \in {"project", "map_id", "map"} => oids'[rv'[c].oid] # None
      /\ pc'[c] \in {"map_id", "map"} => rv'[c].repo \in projects'
      /\ pc'[c] = "map" => id'[c] = rv'[c].repo
<1>0. faults = 0 /\ ~Fault
  <2>1. faults = 0
    BY Monotone
  <2> QED
    BY <2>1 DEF Fault
<1>1. /\ pc[c] \in {"project", "map_id", "map"} => oids[rv[c].oid] # None
      /\ pc[c] \in {"map_id", "map"} => rv[c].repo \in projects
      /\ pc[c] = "map" => id[c] = rv[c].repo
  BY <1>0 DEF MapInv
<1>2. CASE pc'[c] = pc[c] /\ rv'[c] = rv[c] /\ id'[c] = id[c]
  BY <1>1, <1>2, Monotone, ReqTypes
<1>3. CASE pc'[c] \notin {"project", "map_id", "map"}
  BY <1>3
<1>4. ASSUME CreateOid(c) PROVE Good
  <2>1. oids' = [oids EXCEPT ![rv[c].oid] = IF @ = None THEN rv[c].size ELSE @]
    BY <1>0, <1>4 DEF CreateOid
  <2>2. oids'[rv[c].oid] # None
    BY <2>1, ReqTypes, NoneAssumption DEF TypeOK
  <2>3. rv'[c] = rv[c] /\ pc'[c] \notin {"map_id", "map"}
    BY <1>4 DEF CreateOid, PutDone, Return, Goto, TypeOK
  <2> QED
    BY <2>2, <2>3
<1>5. ASSUME FindProject(c) PROVE Good
  <2>1. CASE rv[c].repo \in projects /\ Goto(c, "map_id")
    BY <1>1, <1>5, <2>1 DEF FindProject, Goto, TypeOK, tables
  <2>2. CASE Return(c, "noproject", None)
    BY <2>2 DEF Return, TypeOK
  <2> QED
    BY <1>0, <1>5, <2>1, <2>2 DEF FindProject
<1>6. ASSUME MapSelect(c) PROVE Good
  <2>1. id'[c] = rv[c].repo
    BY <1>0, <1>1, <1>6 DEF MapSelect, TypeOK
  <2> QED
    BY <1>1, <1>6, <2>1 DEF MapSelect, tables
<1>7. ASSUME CallStep(c), ~CreateOid(c), ~FindProject(c), ~MapSelect(c)
      PROVE  pc'[c] \notin {"project", "map_id", "map"}
  BY <1>7 DEF CallStep, PutAuth, GetAuth, FindOid, MapInsert, PutDone, Goto, Return, TypeOK
<1>8. ASSUME NEW f \in {"get", "put"}, NEW v \in Requests, Call(c, f, v)
      PROVE  pc'[c] \notin {"project", "map_id", "map"}
  BY <1>8 DEF Call, TypeOK
<1>9. ASSUME NEW d \in Calls, d # c,
             CallStep(d) \/ \E f \in {"get", "put"}, v \in Requests : Call(d, f, v)
      PROVE  pc'[c] = pc[c] /\ rv'[c] = rv[c] /\ id'[c] = id[c]
  BY <1>9 DEF CallStep, PutAuth, GetAuth, FindOid, CreateOid, FindProject, MapSelect,
     MapInsert, PutDone, Call, Goto, Return, TypeOK
<1>10. CASE UNCHANGED calls
  BY <1>2, <1>10 DEF calls
<1>11. CASE Crash
  BY <1>3, <1>11 DEF Crash
<1> QED
  BY <1>2, <1>3, <1>4, <1>5, <1>6, <1>7, <1>8, <1>9, <1>10, <1>11
     DEF Next, Step, AddProject, vars

\* While no statement has failed, a row of oid_maps joins what exists.
LEMMA SoundNext ==
  ASSUME TypeOK, PcInv, MapInv, MapsSound, [Next]_vars
  PROVE  MapsSound'
<1> SUFFICES ASSUME faults' = 0, NEW o \in Oids, NEW p \in Repos \cup {NoProject},
                    maps'[o][p] > 0
             PROVE  oids'[o] # None /\ p \in projects'
  BY DEF MapsSound
<1>0. faults = 0
  BY Monotone
<1>1. CASE maps'[o][p] = maps[o][p]
  BY <1>0, <1>1, Monotone DEF MapsSound
<1>2. ASSUME NEW c \in Calls, MapInsert(c), maps'[o][p] # maps[o][p]
      PROVE  oids'[o] # None /\ p \in projects'
  <2>1. maps' = [maps EXCEPT ![rv[c].oid][id[c]] = IF @ < MaxMaps THEN @ + 1 ELSE @]
    BY <1>2 DEF MapInsert
  <2>2. o = rv[c].oid /\ p = id[c]
    BY <1>2, <2>1 DEF TypeOK
  <2>3. oids[o] # None /\ p \in projects
    BY <1>0, <1>2, <2>2 DEF MapInv, MapInsert
  <2> QED
    BY <2>3, Monotone
<1>3. UNCHANGED maps \/ \E c \in Calls : MapInsert(c)
  BY DEF Next, Step, CallStep, Call, PutAuth, GetAuth, FindOid, CreateOid, FindProject,
     MapSelect, AddProject, Crash, vars, tables
<1> QED
  BY <1>1, <1>2, <1>3

\* A Put that maps its object has it on record and the project in place.
THEOREM Promised == Spec => []MapInv
<1>1. Init => MapInv
  BY DEF Init, MapInv
<1>2. TypeOK /\ PcInv /\ MapInv /\ [Next]_vars => MapInv'
  BY MapInvNext
<1> QED
  BY <1>1, <1>2, TypeCorrect, PTL DEF Spec

\* Until a statement fails, overlapping Puts, lapses of the directory and
\* restarts leave no mapping without its object or its project.
THEOREM Sound == Spec => []MapsSound
<1>1. Init => MapsSound
  BY DEF Init, MapsSound
<1>2. TypeOK /\ PcInv /\ MapInv /\ MapsSound /\ [Next]_vars => MapsSound'
  BY SoundNext
<1> QED
  BY <1>1, <1>2, TypeCorrect, Promised, PTL DEF Spec

-----------------------------------------------------------------------------
(* Calm behaviours                                                         *)

Writing == {"oid", "project", "map_id", "map"}

\* The past of a calm behaviour is calm.
LEMMA CalmBefore ==
  ASSUME [Next]_vars, calm'
  PROVE  calm /\ ((Step /\ Calm) \/ UNCHANGED vars)
BY DEF Next, vars

\* In a calm step no statement fails.
LEMMA CalmOk ==
  ASSUME TypeOK, Calm
  PROVE  ~Fault
<1>1. faults \in Nat
  BY DEF TypeOK
<1> QED
  BY <1>1 DEF Calm, Fault

\* A call is not changed by a step of another call.
LEMMA OtherCalls ==
  ASSUME TypeOK, NEW c \in Calls, NEW d \in Calls, d # c,
         CallStep(d) \/ \E f \in {"get", "put"}, v \in Requests : Call(d, f, v)
  PROVE  pc'[c] = pc[c] /\ op'[c] = op[c] /\ rv'[c] = rv[c]
BY DEF CallStep, PutAuth, GetAuth, FindOid, CreateOid, FindProject, MapSelect,
   MapInsert, PutDone, Call, Goto, Return, TypeOK

\* A Put past findOid is an active Put.
LEMMA WritingIsPut ==
  ASSUME PcInv, TypeOK, NEW c \in Calls, pc[c] \in Writing
  PROVE  ActivePut(c)
BY DEF PcInv, TypeOK, ActivePut, Writing

\* What one call does in a calm step: it begins alone with its object, and it
\* gets to its writes only if findOid found nothing.
LEMMA CalmCall ==
  ASSUME TypeOK, PcInv, Step, Calm, NEW c \in Calls
  PROVE  /\ ActivePut(c)' =>
              \/ ActivePut(c) /\ rv'[c] = rv[c]
              \/ pc[c] = "idle" /\ pc'[c] = "auth"
         /\ pc'[c] \in Writing =>
              \/ pc[c] \in Writing /\ rv'[c] = rv[c] /\ (pc'[c] = "oid" => pc[c] = "oid")
              \/ /\ pc[c] = "find_oid" /\ rv'[c] = rv[c] /\ UNCHANGED <<oids, maps>>
                 /\ oids[rv[c].oid] = None
<1>0. ~Fault /\ ~(pc[c] = "get_auth" /\ pc'[c] = "oid")
  BY CalmOk DEF Calm
<1>1. CASE PutAuth(c) \/ GetAuth(c)
  BY <1>0, <1>1 DEF PutAuth, GetAuth, Goto, Return, TypeOK, ActivePut, Writing
<1>2. CASE FindOid(c)
  BY <1>0, <1>2 DEF FindOid, Goto, Return, TypeOK, ActivePut, tables, Writing
<1>3. CASE CreateOid(c) \/ FindProject(c) \/ MapSelect(c) \/ MapInsert(c)
  BY <1>3 DEF CreateOid, FindProject, MapSelect, MapInsert, PutDone, Goto, Return,
     TypeOK, ActivePut, Writing
<1>4. ASSUME NEW f \in {"get", "put"}, NEW v \in Requests, Call(c, f, v)
      PROVE  /\ pc[c] = "idle" /\ pc'[c] \notin Writing
             /\ ActivePut(c)' => pc'[c] = "auth"
  BY <1>4 DEF Call, TypeOK, ActivePut, Writing
<1>5. CASE pc'[c] = pc[c] /\ op'[c] = op[c] /\ rv'[c] = rv[c]
  BY <1>5 DEF ActivePut
<1>6. CASE UNCHANGED calls
  BY <1>5, <1>6 DEF calls
<1>7. CASE Crash
  BY <1>7 DEF Crash, ActivePut, Writing
<1> QED
  BY <1>1, <1>2, <1>3, <1>4, <1>5, <1>6, <1>7, OtherCalls DEF Step, CallStep, AddProject

\* In a calm step only CreateOid and MapInsert write what is about an object,
\* and they write about the object of their call.
LEMMA OnlyWriting ==
  ASSUME TypeOK, Step, NEW o \in Oids, <<oids[o], maps[o]>>' # <<oids[o], maps[o]>>
  PROVE  \E c \in Calls : rv[c].oid = o /\ (CreateOid(c) \/ MapInsert(c))
<1>1. ASSUME NEW c \in Calls, CreateOid(c) PROVE rv[c].oid = o
  BY <1>1 DEF CreateOid, TypeOK
<1>2. ASSUME NEW c \in Calls, MapInsert(c) PROVE rv[c].oid = o
  BY <1>2 DEF MapInsert, TypeOK
<1> QED
  BY <1>1, <1>2 DEF Step, CallStep, Call, PutAuth, GetAuth, FindOid, FindProject, MapSelect,
     AddProject, Crash, tables

\* Puts stay alone with their objects, so that what findOid saw still holds at
\* the inserts.
LEMMA AloneNext ==
  ASSUME TypeOK, PcInv, MapsSound, AloneInv, calm, Step, Calm
  PROVE  AloneInv'
<1>0. faults = 0 /\ faults' = 0
  BY DEF AloneInv, Calm
<1> SUFFICES ASSUME NEW c \in Calls, ActivePut(c)'
             PROVE  /\ pc'[c] = "oid" => oids'[rv'[c].oid] = None
                    /\ pc'[c] \in Writing =>
                        \A p \in Repos \cup {NoProject} : maps'[rv'[c].oid][p] = 0
                    /\ \A d \in Calls : ActivePut(d)' /\ rv'[d].oid = rv'[c].oid => d = c
  BY <1>0 DEF AloneInv, Writing
<1>1. \A d \in Calls : ActivePut(d)' /\ rv'[d].oid = rv'[c].oid => d = c
  <2> SUFFICES ASSUME NEW d \in Calls, ActivePut(d)', rv'[d].oid = rv'[c].oid, d # c
               PROVE  FALSE
    OBVIOUS
  <2>1. CASE ActivePut(c) /\ rv'[c] = rv[c] /\ ActivePut(d) /\ rv'[d] = rv[d]
    BY <2>1 DEF AloneInv
  <2>2. ASSUME NEW x \in Calls, NEW y \in Calls, x # y, rv'[x].oid = rv'[y].oid,
               pc[x] = "idle" /\ pc'[x] = "auth", ActivePut(y) /\ rv'[y] = rv[y]
        PROVE  FALSE
    BY <2>2 DEF Calm
  <2>3. ASSUME pc[c] = "idle" /\ pc'[c] = "auth", pc[d] = "idle" /\ pc'[d] = "auth"
        PROVE  FALSE
    <3>1. CallStep(d) \/ (\E f \in {"get", "put"}, v \in Requests : Call(d, f, v))
            => pc'[c] = pc[c]
      BY OtherCalls
    <3>2. ASSUME NEW e \in Calls, e # d,
                 CallStep(e) \/ \E f \in {"get", "put"}, v \in Requests : Call(e, f, v)
          PROVE  pc'[d] = pc[d]
      BY <3>2, OtherCalls
    <3> QED
      BY <2>3, <3>1, <3>2 DEF Step, AddProject, Crash, calls
  <2> QED
    BY <2>1, <2>2, <2>3, CalmCall
<1>2. ASSUME pc'[c] \in Writing
      PROVE  /\ pc'[c] = "oid" => oids'[rv'[c].oid] = None
             /\ \A p \in Repos \cup {NoProject} : maps'[rv'[c].oid][p] = 0
  <2>0. rv[c].oid \in Oids
    BY ReqTypes
  <2>1. CASE pc[c] = "find_oid" /\ rv'[c] = rv[c] /\ UNCHANGED <<oids, maps>>
             /\ oids[rv[c].oid] = None
    <3>1. \A p \in Repos \cup {NoProject} : ~(maps[rv[c].oid][p] > 0)
      BY <1>0, <2>0, <2>1 DEF MapsSound
    <3>2. \A p \in Repos \cup {NoProject} : maps[rv[c].oid][p] \in 0 .. MaxMaps
      BY <2>0 DEF TypeOK
    <3>3. \A p \in Repos \cup {NoProject} : maps[rv[c].oid][p] = 0
      BY <3>1, <3>2, BoundsAssumption
    <3> QED
      BY <2>1, <3>3
  <2>2. CASE pc[c] \in Writing /\ rv'[c] = rv[c] /\ (pc'[c] = "oid" => pc[c] = "oid")
    <3>1. ActivePut(c)
      BY <2>2, WritingIsPut
    <3>2. /\ pc[c] = "oid" => oids[rv[c].oid] = None
          /\ \A p \in Repos \cup {NoProject} : maps[rv[c].oid][p] = 0
      BY <2>2, <3>1 DEF AloneInv, Writing
    <3>3. ASSUME NEW d \in Calls, rv[d].oid = rv[c].oid, CreateOid(d) \/ MapInsert(d)
          PROVE  /\ pc'[c] # "oid"
                 /\ \A p \in Repos \cup {NoProject} : maps'[rv'[c].oid][p] = 0
      <4>1. ActivePut(d)
        BY <3>3, WritingIsPut DEF CreateOid, MapInsert, Writing
      <4>2. d = c
        BY <3>1, <3>3, <4>1 DEF AloneInv
      <4>3. CreateOid(c) /\ pc'[c] # "oid"
        BY <1>2, <3>3, <4>2, CalmOk DEF CreateOid, MapInsert, Goto, PutDone, Return, TypeOK,
           Writing
      <4> QED
        BY <2>2, <3>2, <4>3 DEF CreateOid
    <3>4. CASE <<oids'[rv[c].oid], maps'[rv[c].oid]>> = <<oids[rv[c].oid], maps[rv[c].oid]>>
      BY <2>2, <3>2, <3>4
    <3>5. CASE <<oids'[rv[c].oid], maps'[rv[c].oid]>> # <<oids[rv[c].oid], maps[rv[c].oid]>>
      <4>1. PICK o \in Oids : o = rv[c].oid
        BY <2>0
      <4>2. <<oids[o], maps[o]>>' # <<oids[o], maps[o]>>
        BY <3>5, <4>1
      <4> QED
        BY <3>3, <4>1, <4>2, OnlyWriting
    <3> QED
      BY <3>4, <3>5
  <2> QED
    BY <1>2, <2>1, <2>2, CalmCall
<1> QED
  BY <1>1, <1>2 DEF Writing

\* In calm behaviours a Put is alone with its object.
THEOREM Alone == Spec => []AloneInv
<1>1. Init => AloneInv
  BY DEF Init, AloneInv, ActivePut
<1>2. TypeOK /\ PcInv /\ MapsSound /\ AloneInv /\ [Next]_vars => AloneInv'
  <2> SUFFICES ASSUME TypeOK, PcInv, MapsSound, AloneInv, [Next]_vars, calm' PROVE AloneInv'
    BY DEF AloneInv
  <2>1. CASE Step /\ Calm
    BY <2>1, CalmBefore, AloneNext
  <2>2. CASE UNCHANGED vars
    BY <2>2 DEF vars, tables, calls, AloneInv, ActivePut
  <2> QED
    BY <2>1, <2>2, CalmBefore
<1> QED
  BY <1>1, <1>2, TypeCorrect, Sound, PTL DEF Spec

\* The inductive invariant, put together.
THEOREM Invariance == Spec => []IInv
<1> QED
  BY TypeCorrect, Promised, Alone, PTL DEF IInv

\* A calm step maps an object once.
LEMMA OnceNext ==
  ASSUME TypeOK, PcInv, AloneInv, MapsOnce, calm, Step, Calm
  PROVE  MapsOnce'
<1> SUFFICES ASSUME NEW o \in Oids
             PROVE  \A p, q \in Repos \cup {NoProject} :
                      /\ maps'[o][p] <= 1
                      /\ maps'[o][p] > 0 /\ maps'[o][q] > 0 => p = q
  BY DEF MapsOnce
<1>1. CASE maps'[o] = maps[o]
  BY <1>1 DEF MapsOnce
<1>2. ASSUME NEW c \in Calls, rv[c].oid = o, MapInsert(c), maps'[o] # maps[o]
      PROVE  \A p, q \in Repos \cup {NoProject} :
               /\ maps'[o][p] <= 1
               /\ maps'[o][p] > 0 /\ maps'[o][q] > 0 => p = q
  <2> DEFINE P == Repos \cup {NoProject}
             i == id[c]
  <2>1. \A p \in P : maps[o][p] = 0
    BY <1>2, WritingIsPut DEF MapInsert, Writing, AloneInv
  <2>2. i \in P /\ maps[o] \in [P -> 0 .. MaxMaps]
    BY DEF TypeOK
  <2>3. maps'[o] = [maps[o] EXCEPT ![i] = IF @ < MaxMaps THEN @ + 1 ELSE @]
    BY <1>2, CalmOk DEF MapInsert, TypeOK
  <2> HIDE DEF P, i
  <2>4. \A p \in P : maps'[o][p] = IF p = i THEN 1 ELSE 0
    BY <2>1, <2>2, <2>3, BoundsAssumption
  <2> QED
    BY <2>4 DEF P
<1>3. ASSUME maps'[o] # maps[o] PROVE \E c \in Calls : rv[c].oid = o /\ MapInsert(c)
  BY <1>3, OnlyWriting DEF CreateOid
<1> QED
  BY <1>1, <1>2, <1>3

\* As long as Puts of one object do not overlap, the directory stays in reach
\* and no statement fails, an object is in one project, although oid_maps has
\* no key.
THEOREM Once == Spec => []MapsOnce
<1>1. Init => MapsOnce
  BY DEF Init, MapsOnce
<1>2. TypeOK /\ PcInv /\ AloneInv /\ MapsOnce /\ [Next]_vars => MapsOnce'
  <2> SUFFICES ASSUME TypeOK, PcInv, AloneInv, MapsOnce, [Next]_vars, calm' PROVE MapsOnce'
    BY DEF MapsOnce
  <2>1. CASE Step /\ Calm
    BY <2>1, CalmBefore, OnceNext
  <2>2. CASE UNCHANGED vars
    BY <2>2 DEF vars, tables, MapsOnce
  <2> QED
    BY <2>1, <2>2, CalmBefore
<1> QED
  BY <1>1, <1>2, TypeCorrect, Alone, PTL DEF Spec

-----------------------------------------------------------------------------
(* Refinement: each calm step is a step of WriteOnceMeta or none           *)

Recording == {"project", "map_id", "map"}

\* What a call returns is returned by the abstract call.
LEMMA ReturnSimulation ==
  ASSUME TypeOK, NEW c \in Calls, NEW r, NEW m, Return(c, r, m)
  PROVE  WM!Return(c, r, m)
<1>1. stateBar' = [stateBar EXCEPT ![c] = "idle"]
  BY DEF stateBar, Return, TypeOK
<1> QED
  BY <1>1 DEF Return, WM!Return, keyBar, metaBar

\* A statement after which the call goes on and that writes no metadata.
LEMMA GotoSimulation ==
  ASSUME TypeOK, NEW c \in Calls, pc[c] # "idle", UNCHANGED oids,
         NEW p \in {"get_auth", "find_oid", "oid", "map_id", "map"},
         pc' = [pc EXCEPT ![c] = p], UNCHANGED <<op, rv, got, out>>,
         p \in Recording <=> pc[c] \in Recording
  PROVE  UNCHANGED WM!vars
<1>1. stateBar' = stateBar
  BY DEF stateBar, TypeOK, Recording
<1> QED
  BY <1>1 DEF WM!vars, keyBar, metaBar

\* A refused authentication or a project that is not there ends the call.
LEMMA FailSimulation ==
  ASSUME TypeOK, NEW c \in Calls, pc[c] # "idle", UNCHANGED oids,
         NEW r \in {"auth", "noproject", "panic"}, Return(c, r, None)
  PROVE  WM!Fail(c)
<1>1. stateBar[c] # "idle"
  BY DEF stateBar
<1> QED
  BY <1>1, ReturnSimulation DEF WM!Fail

\* A Put with a project tells its caller after the last insert.
LEMMA ConfirmSimulation ==
  ASSUME TypeOK, NEW c \in Calls, pc[c] = "map", UNCHANGED oids, PutDone(c)
  PROVE  WM!Confirm(c)
<1>1. stateBar[c] = "recorded" /\ metaBar[c] = rv[c].size
  BY DEF stateBar, metaBar
<1> QED
  BY <1>1, ReturnSimulation DEF WM!Confirm, PutDone

\* Put takes effect when createOid inserts.
LEMMA CreateOidSimulation ==
  ASSUME TypeOK, PcInv, AloneInv, calm, ~Fault, NEW c \in Calls, CreateOid(c)
  PROVE  WM!Record(c)
<1>1. op[c] = "put" /\ pc[c] = "oid"
  BY DEF CreateOid, PcInv, TypeOK
<1>2. rv[c].oid \in Oids /\ oids[rv[c].oid] = None
  BY <1>1, WritingIsPut, ReqTypes DEF AloneInv, Writing
<1>3. keyBar[c] = rv[c].oid /\ metaBar[c] = rv[c].size /\ stateBar[c] = "busy"
  BY <1>1 DEF keyBar, metaBar, stateBar
<1>4. oids' = [oids EXCEPT ![rv[c].oid] = rv[c].size] /\ ~WM!Recorded(rv[c].oid)
  BY <1>2 DEF CreateOid, WM!Recorded
<1>5. CASE PutDone(c)
  BY <1>1, <1>2, <1>3, <1>4, <1>5, ReturnSimulation DEF WM!Record, PutDone
<1>6. CASE Goto(c, "project")
  <2>1. stateBar' = [stateBar EXCEPT ![c] = "recorded"]
    BY <1>6 DEF stateBar, Goto, TypeOK
  <2>2. UNCHANGED <<op, keyBar, metaBar, got, out>>
    BY <1>6 DEF Goto, keyBar, metaBar
  <2> QED
    BY <1>1, <1>2, <1>3, <1>4, <2>1, <2>2 DEF WM!Record
<1> QED
  BY <1>5, <1>6 DEF CreateOid

\* Get, and a Put that finds the object, take effect when they read it.
LEMMA FindOidSimulation ==
  ASSUME TypeOK, NEW c \in Calls, FindOid(c), ~Fault
  PROVE  WM!Found(c) \/ WM!Missing(c) \/ UNCHANGED WM!vars
<1> DEFINE m == oids[rv[c].oid]
<1>1. /\ pc[c] = "find_oid" /\ oids' = oids /\ rv[c].oid \in Oids
      /\ keyBar[c] = rv[c].oid /\ stateBar[c] = "busy"
  BY ReqTypes DEF FindOid, tables, keyBar, stateBar
<1>2. CASE m # None /\ Return(c, IF op[c] = "put" THEN "existing" ELSE "found", m)
  BY <1>1, <1>2, ReturnSimulation DEF WM!Found, WM!Recorded
<1>3. CASE Goto(c, "oid")
  BY <1>1, <1>3, GotoSimulation DEF Goto, Recording
<1>4. CASE m = None /\ op[c] # "put" /\ Return(c, "missing", None)
  <2>1. ~WM!Recorded(rv[c].oid) /\ op[c] = "get"
    BY <1>4 DEF WM!Recorded, TypeOK
  <2> QED
    BY <1>1, <1>4, <2>1, ReturnSimulation DEF WM!Missing
<1> QED
  BY <1>2, <1>3, <1>4 DEF FindOid

LEMMA StepSimulation ==
  ASSUME TypeOK, PcInv, AloneInv, calm, Step, Calm
  PROVE  WM!Next \/ UNCHANGED WM!vars
<1>0. ~Fault
  BY CalmOk
<1>1. ASSUME NEW c \in Calls, NEW f \in {"get", "put"}, NEW v \in Requests, Call(c, f, v)
      PROVE  WM!Next
  <2>1. v \in ReqVars /\ v.oid \in Oids /\ v.size \in Sizes
    BY RequestsAssumption DEF ReqVars
  <2>2. stateBar[c] = "idle" /\ stateBar' = [stateBar EXCEPT ![c] = "busy"]
    BY <1>1 DEF Call, stateBar, TypeOK
  <2>3. keyBar' = [keyBar EXCEPT ![c] = v.oid] /\ metaBar' = [metaBar EXCEPT ![c] = v.size]
    BY <1>1 DEF Call, keyBar, metaBar, TypeOK
  <2>4. WM!Call(c, f, v.oid, v.size)
    BY <1>1, <2>2, <2>3 DEF Call, WM!Call, tables
  <2> QED
    BY <2>1, <2>4 DEF WM!Next
<1>2. ASSUME NEW c \in Calls, CallStep(c)
      PROVE  \/ WM!Found(c) \/ WM!Missing(c) \/ WM!Record(c) \/ WM!Confirm(c)
             \/ WM!Fail(c) \/ UNCHANGED WM!vars
  <2>1. CASE PutAuth(c)
    BY <2>1, GotoSimulation, FailSimulation DEF PutAuth, Goto, tables, Recording
  <2>2. CASE GetAuth(c)
    BY <2>2, GotoSimulation, FailSimulation DEF GetAuth, Goto, tables, Recording
  <2>3. CASE FindOid(c)
    BY <1>0, <2>3, FindOidSimulation
  <2>4. CASE CreateOid(c)
    BY <1>0, <2>4, CreateOidSimulation
  <2>5. CASE FindProject(c)
    BY <1>0, <2>5, GotoSimulation, FailSimulation DEF FindProject, Goto, tables, Recording
  <2>6. CASE MapSelect(c)
    BY <2>6, GotoSimulation DEF MapSelect, tables, Recording
  <2>7. CASE MapInsert(c)
    BY <1>0, <2>7, ConfirmSimulation DEF MapInsert
  <2> QED
    BY <1>2, <2>1, <2>2, <2>3, <2>4, <2>5, <2>6, <2>7 DEF CallStep
<1>3. ASSUME Crash PROVE WM!Restart
  <2>1. stateBar' = [c \in Calls |-> "idle"]
    BY <1>3 DEF Crash, stateBar
  <2>2. out' = [c \in Calls |-> IF stateBar[c] = "idle" THEN out[c] ELSE "none"]
    BY <1>3 DEF Crash, stateBar, TypeOK, PcInv
  <2> QED
    BY <1>3, <2>1, <2>2 DEF Crash, WM!Restart, tables, keyBar, metaBar
<1>4. ASSUME NEW p \in Repos, AddProject(p) PROVE UNCHANGED <<oids, calls>>
  BY <1>4 DEF AddProject
<1>5. ASSUME UNCHANGED <<oids, calls>> PROVE UNCHANGED WM!vars
  BY <1>5 DEF calls, WM!vars, stateBar, keyBar, metaBar
<1> QED
  BY <1>1, <1>2, <1>3, <1>4, <1>5 DEF Step, WM!Next

\* As long as Puts of one object do not overlap, the directory stays in reach
\* and no statement fails, the tables are a write-once register, and a caller
\* is never told a size that is not on record.
THEOREM Refinement == Spec => Refines
<1>1. Init => WM!Init
  <2> SUFFICES ASSUME Init PROVE WM!Init
    OBVIOUS
  <2>1. TypeOK
    BY TypeInit
  <2>2. keyBar \in [Calls -> Oids] /\ metaBar \in [Calls -> Sizes]
    BY <2>1 DEF keyBar, metaBar, TypeOK, ReqVars
  <2> QED
    BY <2>1, <2>2 DEF Init, WM!Init, stateBar, TypeOK
<1>2. TypeOK /\ PcInv /\ AloneInv /\ [Next]_vars => [calm' => [WM!Next]_(WM!vars)]_vars
  BY CalmBefore, StepSimulation
<1> QED
  BY <1>1, <1>2, TypeCorrect, Alone, PTL DEF Spec, Refines

-----------------------------------------------------------------------------
(* What the contract is worth: WriteOnceMeta by itself keeps its promises  *)

\* What a caller was given is on record.
SnapshotCurrent ==
    \A c \in Calls : out[c] \in {"found", "existing", "new"} =>
        got[c] # None /\ oids[keyBar[c]] = got[c]

\* It depends on the calls that have still to tell what they have recorded.
ContractInv ==
    /\ SnapshotCurrent
    /\ DOMAIN oids = Oids /\ metaBar \in [Calls -> Sizes]
    /\ DOMAIN stateBar = Calls /\ DOMAIN keyBar = Calls
    /\ DOMAIN got = Calls /\ DOMAIN out = Calls
    /\ \A c \in Calls : stateBar[c] = "recorded" => oids[keyBar[c]] = metaBar[c]

\* A step of the contract keeps what callers know, and what is on record.
LEMMA ContractNext ==
  ASSUME ContractInv, [WM!Next]_(WM!vars)
  PROVE  ContractInv' /\ \A o \in Oids : oids[o] # None => oids'[o] = oids[o]
<1> DEFINE Stays == \A o \in Oids : oids[o] # None => oids'[o] = oids[o]
<1>0. \A c \in Calls : metaBar[c] # None
  BY NoneAssumption DEF ContractInv
<1>1. ASSUME NEW c \in Calls, NEW f \in {"get", "put"}, NEW o \in Oids,
             NEW m \in Sizes, WM!Call(c, f, o, m)
      PROVE  ContractInv' /\ Stays
  BY <1>1 DEF ContractInv, SnapshotCurrent, WM!Call
<1>2. ASSUME NEW c \in Calls, WM!Found(c) \/ WM!Missing(c) \/ WM!Confirm(c)
      PROVE  ContractInv' /\ Stays
  BY <1>0, <1>2
     DEF ContractInv, SnapshotCurrent, WM!Found, WM!Missing, WM!Confirm, WM!Recorded, WM!Return
<1>3. ASSUME NEW c \in Calls, WM!Record(c) PROVE ContractInv' /\ Stays
  <2>1. /\ keyBar[c] \in Oids /\ oids[keyBar[c]] = None
        /\ oids' = [oids EXCEPT ![keyBar[c]] = metaBar[c]]
        /\ UNCHANGED <<keyBar, metaBar>>
    BY <1>3 DEF WM!Record, WM!Recorded, WM!Return
  <2>2. Stays
    BY <2>1 DEF ContractInv
  <2>3. ASSUME NEW d \in Calls, oids[keyBar[d]] # None
        PROVE  oids'[keyBar'[d]] = oids[keyBar[d]]
    BY <2>1, <2>3 DEF ContractInv
  <2>4. oids'[keyBar'[c]] = metaBar[c]
    BY <2>1 DEF ContractInv
  <2>5. CASE WM!Return(c, "new", metaBar[c])
    BY <1>0, <2>1, <2>2, <2>3, <2>4, <2>5 DEF ContractInv, SnapshotCurrent, WM!Return
  <2>6. CASE /\ stateBar' = [stateBar EXCEPT ![c] = "recorded"]
             /\ UNCHANGED <<op, keyBar, metaBar, got, out>>
    BY <1>0, <2>1, <2>2, <2>3, <2>4, <2>6 DEF ContractInv, SnapshotCurrent
  <2> QED
    BY <1>3, <2>5, <2>6 DEF WM!Record
<1>4. ASSUME NEW c \in Calls, WM!Fail(c) PROVE ContractInv' /\ Stays
  BY <1>4 DEF ContractInv, SnapshotCurrent, WM!Fail, WM!Return
<1>5. CASE WM!Restart
  BY <1>5 DEF ContractInv, SnapshotCurrent, WM!Restart
<1>6. CASE UNCHANGED WM!vars
  BY <1>6 DEF ContractInv, SnapshotCurrent, WM!vars
<1> QED
  BY <1>1, <1>2, <1>3, <1>4, <1>5, <1>6 DEF WM!Next

LEMMA ContractInit == WM!Init => ContractInv
  BY DEF WM!Init, ContractInv, SnapshotCurrent

\* A store that implements the contract never replaces metadata, and what it
\* gave a caller, who compares an upload with it, is what is on record.
THEOREM Contract ==
  WM!Spec => /\ []SnapshotCurrent
             /\ [][\A o \in Oids : oids[o] # None => oids'[o] = oids[o]]_(WM!vars)
<1>1. ContractInv => SnapshotCurrent
  BY DEF ContractInv
<1>2. ContractInv /\ [WM!Next]_(WM!vars) => ContractInv'
  BY ContractNext
<1>3. ContractInv /\ [WM!Next]_(WM!vars) =>
        [\A o \in Oids : oids[o] # None => oids'[o] = oids[o]]_(WM!vars)
  BY ContractNext
<1> QED
  BY <1>1, <1>2, <1>3, ContractInit, PTL DEF WM!Spec

\* In calm behaviours the size that MySQL gave a caller is the one on record.
\* Without: createOid drops its error, and Put returns what is not there.
THEOREM Snapshots == Spec => [](calm => SnapshotCurrent)
<1>1. WM!Init => (calm => ContractInv)
  BY ContractInit
<1>2. /\ calm => ContractInv
      /\ [Next]_vars /\ [calm' => [WM!Next]_(WM!vars)]_vars
      => (calm => ContractInv)'
  <2> SUFFICES ASSUME calm => ContractInv, [Next]_vars,
                      [calm' => [WM!Next]_(WM!vars)]_vars, calm'
               PROVE  ContractInv'
    OBVIOUS
  <2>1. calm
    BY CalmBefore
  <2>2. UNCHANGED vars => UNCHANGED WM!vars
    BY DEF vars, calls, tables, WM!vars, stateBar, keyBar, metaBar
  <2> QED
    BY <2>1, <2>2, ContractNext
<1>3. (calm => ContractInv) => (calm => SnapshotCurrent)
  BY DEF ContractInv
<1> QED
  BY <1>1, <1>2, <1>3, Refinement, PTL DEF Spec, Refines

=============================================================================
