----------------------- MODULE TrackingListenerProofs -----------------------
(***************************************************************************)
(* Theorems about TrackingListener, and about Handover, which extends it,  *)
(* for any number of connections.                                          *)
(***************************************************************************)
EXTENDS Handover, FiniteSetTheorems, TLAPS

\* Every step of Accept, Close, the signal handler and main keeps the types.
LEMMA TypeNext == TypeOK /\ [Next]_vars => TypeOK'
BY DEF TypeOK, Next, vars, AcceptCall, AcceptRetry, AcceptClosed,
   WaitForChildren, AcceptConn, Close, Connect, Hangup, HandleHup, Track

\* The state of the listener, its connections and main is well typed.
THEOREM TypeCorrect == Spec => []TypeOK
<1>1. Init => TypeOK
  BY DEF Init, TypeOK
<1> QED
  BY <1>1, TypeNext, PTL DEF Spec

\* How the number of open connections changes with one of them.
LEMMA ActiveCount ==
  /\ IsFiniteSet(Active)
  /\ Cardinality(Active) \in Nat
  /\ Cardinality(Active) = 0 <=> Active = {}
  /\ \A c \in Conns : c \notin Active =>
       Cardinality(Active \cup {c}) = Cardinality(Active) + 1
  /\ \A c \in Active : Cardinality(Active \ {c}) = Cardinality(Active) - 1
<1>1. IsFiniteSet(Active)
  BY ConnsAssumption, FS_Subset DEF Active
<1> QED
  BY <1>1, FS_CardinalityType, FS_EmptySet, FS_AddElement, FS_RemoveElement

\* Without TLS every step keeps the wait group equal to the open connections.
LEMMA BalanceNext ==
  ASSUME ~TLS, TypeOK, Balance, [Next]_vars
  PROVE  Balance'
<1> DEFINE n == Cardinality(Active)
<1>0. n \in Nat /\ wg \in Int
  BY ActiveCount DEF TypeOK
<1>1. ASSUME Active' = Active, wg' = wg, main = "accept" <=> main' = "accept"
      PROVE  Balance'
  BY <1>1 DEF Balance
<1>2. CASE AcceptCall \/ AcceptRetry \/ AcceptClosed
  <2>1. Cardinality(Active') = n
    BY <1>2 DEF AcceptCall, AcceptRetry, AcceptClosed, Active
  <2>2. CASE AcceptCall
    BY <1>0, <2>1, <2>2 DEF AcceptCall, Track, Balance
  <2>3. CASE AcceptRetry
    BY <1>0, <2>1, <2>3 DEF AcceptRetry, Track, Balance
  <2>4. CASE AcceptClosed
    BY <1>0, <2>1, <2>4 DEF AcceptClosed, Track, Balance
  <2> QED
    BY <1>2, <2>2, <2>3, <2>4
<1>3. ASSUME NEW c \in Conns, AcceptConn(c) PROVE Balance'
  <2>1. Active' = Active \cup {c} /\ c \notin Active
    BY <1>3 DEF AcceptConn, Active, TypeOK
  <2>2. Cardinality(Active') = n + 1
    BY <2>1, ActiveCount
  <2> QED
    BY <1>0, <1>3, <2>2 DEF AcceptConn, Balance
<1>4. ASSUME NEW c \in Conns, Close(c) PROVE Balance'
  <2>1. CASE conn[c] = "active"
    <3>1. Active' = Active \ {c} /\ c \in Active
      BY <1>4, <2>1 DEF Close, Active, TypeOK
    <3>2. Cardinality(Active') = n - 1
      BY <3>1, ActiveCount
    <3> QED
      BY <1>0, <1>4, <2>1, <3>2 DEF Close, Track, Balance
  <2>2. CASE conn[c] = "closed"
    <3>1. Active' = Active
      BY <1>4, <2>2 DEF Close, Active, TypeOK
    <3> QED
      BY <1>1, <1>4, <2>2, <3>1 DEF Close
  <2> QED
    BY <1>4, <2>1, <2>2 DEF Close
<1>5. ASSUME NEW c \in Conns, Connect(c) PROVE Balance'
  <2>1. Active' = Active
    BY <1>5 DEF Connect, Active, TypeOK
  <2> QED
    BY <1>1, <1>5, <2>1 DEF Connect
<1>6. CASE WaitForChildren \/ Hangup \/ HandleHup \/ UNCHANGED vars
  <2>1. Active' = Active
    BY <1>6 DEF WaitForChildren, Hangup, HandleHup, Active, TypeOK, vars
  <2> QED
    BY <1>1, <1>6, <2>1 DEF WaitForChildren, Hangup, HandleHup, vars
<1> QED
  BY <1>2, <1>3, <1>4, <1>5, <1>6 DEF Next

\* Without TLS the WaitGroup is exact at every moment.
THEOREM Counting == ASSUME ~TLS PROVE Spec => []Balance
<1>1. Init => Balance
  <2> SUFFICES ASSUME Init PROVE Balance
    OBVIOUS
  <2>1. Active = {}
    BY DEF Init, Active
  <2> QED
    BY <2>1, FS_EmptySet DEF Init, Balance
<1>2. TypeOK /\ Balance /\ [Next]_vars => Balance'
  BY BalanceNext
<1> QED
  BY <1>1, <1>2, TypeCorrect, PTL DEF Spec

\* Without TLS a hangup never cuts off a connection that was accepted.
THEOREM Graceful == ASSUME ~TLS PROVE Spec => []GracefulExit
<1>1. Init => GracefulExit
  BY DEF Init, GracefulExit
<1>2. TypeOK /\ Balance /\ GracefulExit /\ [Next]_vars => GracefulExit'
  <2> SUFFICES ASSUME TypeOK, Balance, GracefulExit, [Next]_vars, main' = "exited"
               PROVE  Active' = {}
    BY DEF GracefulExit
  <2>1. CASE WaitForChildren
    <3>1. Cardinality(Active) = 0
      BY <2>1, ActiveCount DEF WaitForChildren, Balance
    <3>2. Active' = Active
      BY <2>1 DEF WaitForChildren, Active
    <3> QED
      BY <3>1, <3>2, ActiveCount
  <2>2. CASE main = "exited"
    <3>1. conn' = conn
      BY <2>2 DEF Next, vars, Running, AcceptCall, AcceptRetry, AcceptClosed,
         WaitForChildren, AcceptConn, Close, Connect, Hangup, HandleHup
    <3> QED
      BY <2>2, <3>1 DEF GracefulExit, Active
  <2> QED
    BY <2>1, <2>2 DEF Next, vars, AcceptCall, AcceptRetry, AcceptClosed,
       AcceptConn, Close, Connect, Hangup, HandleHup
<1> QED
  BY <1>1, <1>2, TypeCorrect, Counting, PTL DEF Spec

-----------------------------------------------------------------------------
(* Handover                                                                *)

\* The lock, searches and the next process leave the listener to its steps.
LEMMA ListenerStep == [HNext]_hvars => [Next]_vars
BY DEF HNext, hvars, vars, Next, Exit, Serve, SearchBegin, SearchEnd,
   NextListen, NextOpen, NextGiveUp

\* What is proved of the listener holds beside the database and its lock.
THEOREM ListenerBehaves == HSpec => Spec
<1>1. HInit => Init
  BY DEF HInit
<1> QED
  BY <1>1, ListenerStep, PTL DEF HSpec, Spec

\* The listener, the lock, searches and the next process are well typed.
THEOREM HandoverTypes == HSpec => []HTypeOK
<1>1. HInit => HTypeOK
  BY DEF HInit, Init, HTypeOK, TypeOK
<1>2. HTypeOK /\ [HNext]_hvars => HTypeOK'
  <2> SUFFICES ASSUME HTypeOK, [HNext]_hvars PROVE HTypeOK'
    OBVIOUS
  <2>1. TypeOK'
    BY TypeNext, ListenerStep DEF HTypeOK
  <2> QED
    BY <2>1 DEF HTypeOK, HNext, hvars, Exit, Serve, SearchBegin, SearchEnd,
       NextListen, NextOpen, NextGiveUp
<1> QED
  BY <1>1, <1>2, PTL DEF HSpec

\* A process that runs holds the lock, and keeps the next one from serving.
LockInv ==
    /\ Running => lock = "server"
    /\ next = "serving" => ~Running

\* No step gives the lock away before the process exits.
LEMMA LockNext == LockInv /\ [HNext]_hvars => LockInv'
<1> SUFFICES ASSUME LockInv, [HNext]_hvars PROVE LockInv'
  OBVIOUS
<1>1. Running' => Running
  BY DEF Running, HNext, hvars, vars, Exit, Serve, SearchBegin, SearchEnd,
     NextListen, NextOpen, NextGiveUp, AcceptCall, AcceptRetry, AcceptClosed,
     WaitForChildren, AcceptConn, Close, Connect, Hangup, HandleHup
<1>2. CASE Exit
  BY <1>2 DEF Exit, WaitForChildren, LockInv, Running
<1>3. CASE NextOpen
  BY <1>1, <1>3 DEF NextOpen, LockInv
<1>4. CASE lock' = lock /\ (next' = next \/ next' # "serving")
  BY <1>1, <1>4 DEF LockInv
<1> QED
  BY <1>2, <1>3, <1>4 DEF HNext, hvars, Serve, SearchBegin, SearchEnd,
     NextListen, NextGiveUp

\* Without TLS the process that takes over serves only when the requests of
\* its predecessor are finished.
THEOREM Succession == ASSUME ~TLS PROVE HSpec => []OneServer
<1>1. HInit => LockInv
  BY DEF HInit, LockInv
<1>2. LockInv /\ GracefulExit => OneServer
  BY DEF LockInv, GracefulExit, OneServer, Running
<1> QED
  BY <1>1, <1>2, LockNext, ListenerBehaves, Graceful, PTL DEF HSpec

=============================================================================
