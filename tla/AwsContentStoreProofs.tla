------------------------ MODULE AwsContentStoreProofs ------------------------
(***************************************************************************)
(* Proofs about AwsContentStore, for any clients, objects and bounds.      *)
(***************************************************************************)
EXTENDS AwsContentStore, SequenceTheorems, TLAPS

\* What ReadAll returns is a sequence of chunks, and a whole body is one of
\* the things it may return.
LEMMA ReceivedFacts ==
  /\ Received \subseteq Seq(Chunks)
  /\ Bodies \subseteq Received
  /\ \A b \in Bodies : \A n \in 0 .. Len(b) : SubSeq(b, 1, n) \in Received
<1>1. ASSUME NEW b \in Bodies, NEW n \in 0 .. Len(b)
      PROVE  SubSeq(b, 1, n) \in Received
  <2>1. SubSeq(b, 1, n) \in {SubSeq(b, 1, m) : m \in 0 .. Len(b)}
    OBVIOUS
  <2> QED
    BY <2>1, Zenon DEF Received
<1>2. ASSUME NEW b \in Bodies, NEW n \in 0 .. Len(b)
      PROVE  SubSeq(b, 1, n) \in Seq(Chunks)
  BY BodiesAssumption
<1>3. ASSUME NEW c \in Received PROVE c \in Seq(Chunks)
  <2>1. PICK b \in Bodies : \E n \in 0 .. Len(b) : c = SubSeq(b, 1, n)
    BY Zenon DEF Received
  <2> QED
    BY <1>2, <2>1
<1>4. ASSUME NEW b \in Bodies PROVE b \in Received
  <2>1. b = SubSeq(b, 1, Len(b)) /\ Len(b) \in 0 .. Len(b)
    BY BodiesAssumption, SubSeqFull
  <2> QED
    BY <1>1, <2>1, Zenon
<1> QED
  BY <1>1, <1>3, <1>4

\* Absent is not the content of any key and not a write.
LEMMA AbsentFacts ==
  /\ Absent \notin Received
  /\ \A o \in Oids, b \in Received : [oid |-> o, body |-> b] # Absent
BY ReceivedFacts, AbsentAssumption

-----------------------------------------------------------------------------
(* The inductive invariant                                                 *)

LEMMA InitInv == Init => IInv
<1> SUFFICES ASSUME Init PROVE IInv
  OBVIOUS
<1>1. TypeOK
  BY BoundsAssumption DEF Init, TypeOK
<1> QED
  BY <1>1 DEF Init, IInv, CheckedInv, StatInv, AckedStored, Acked, HasKey

\* Steps that leave the bucket and the writes under way alone.
LEMMA LocalStep ==
  ASSUME IInv, NEW u \in Uploads,
         \/ \E o \in Oids : Exists(u, o)
         \/ \E o \in Oids, s \in Sizes, b \in Bodies : Start(u, o, s, b)
         \/ ReadAll(u) \/ Check(u) \/ GetKey(u)
  PROVE  IInv'
<1> USE DEF IInv, s3, puts, limits
<1>1. UNCHANGED <<bucket, late>>
  BY DEF Exists, Start, ReadAll, Check, GetKey
<1>2. ASSUME NEW o \in Oids, Exists(u, o) PROVE IInv'
  <2>0. PICK a \in {"there", "absent"} :
           (a = "there" => HasKey(o)) /\ told' = [told EXCEPT ![u][o] = a]
    BY <1>2 DEF Exists
  <2>1. /\ TypeOK' /\ UNCHANGED <<pc, oid, size, buf, stat, res>>
        /\ told'[u][o] = "there" => HasKey(o)
        /\ \A v \in Uploads, p \in Oids : v # u \/ p # o => told'[v][p] = told[v][p]
    <3>1. faults' \in 0 .. MaxFaults
      BY <1>2, BoundsAssumption DEF Exists, Fault, TypeOK
    <3>2. told' \in [Uploads -> [Oids -> {"unknown", "there", "absent"}]]
      <4>1. [told[u] EXCEPT ![o] = a] \in [Oids -> {"unknown", "there", "absent"}]
        BY DEF TypeOK
      <4> QED
        BY <2>0, <4>1 DEF TypeOK
    <3>3. UNCHANGED <<s3, puts, stream, aborts, crashes>>
      BY <1>2 DEF Exists, Fault
    <3>4. TypeOK'
      BY <3>1, <3>2, <3>3 DEF TypeOK
    <3>5. \A v \in Uploads, p \in Oids :
            v # u \/ p # o => told'[v][p] = told[v][p]
      BY <2>0 DEF TypeOK
    <3>6. told'[u][o] = a
      BY <2>0 DEF TypeOK
    <3> QED
      BY <2>0, <3>3, <3>4, <3>5, <3>6
  <2>2. AckedStored'
    BY <1>1, <2>1 DEF AckedStored, Acked, HasKey
  <2> QED
    BY <1>1, <2>1, <2>2 DEF CheckedInv, StatInv, HasKey, Matches
<1>3. ASSUME NEW o \in Oids, NEW s \in Sizes, NEW b \in Bodies, Start(u, o, s, b)
      PROVE  IInv'
  <2>1. b \in Received
    BY ReceivedFacts
  <2>2. TypeOK'
    BY <1>1, <1>3, <2>1, SizesAssumption DEF Start, TypeOK
  <2>3. CheckedInv'
    BY <1>1, <1>3 DEF Start, TypeOK, CheckedInv, Matches, HasKey
  <2>4. StatInv'
    BY <1>1, <1>3 DEF Start, TypeOK, StatInv, HasKey
  <2>5. AckedStored'
    BY <1>1, <1>3 DEF Start, TypeOK, AckedStored, Acked, HasKey
  <2> QED
    BY <2>2, <2>3, <2>4, <2>5
<1>4. CASE ReadAll(u)
  <2>1. PICK c \in Received : buf' = [buf EXCEPT ![u] = c]
    <3>1. buf[u] \in Bodies /\ buf[u] \in Received
      BY <1>4, ReceivedFacts DEF ReadAll, CheckedInv
    <3>2. CASE UNCHANGED buf
      BY <3>1, <3>2 DEF TypeOK
    <3>3. ASSUME NEW n \in 0 .. Len(buf[u]), buf' = [buf EXCEPT ![u] = SubSeq(@, 1, n)]
          PROVE  \E c \in Received : buf' = [buf EXCEPT ![u] = c]
      BY <3>1, <3>3, ReceivedFacts
    <3> QED
      BY <1>4, <3>2, <3>3 DEF ReadAll
  <2>2. /\ pc[u] = "read" /\ pc' = [pc EXCEPT ![u] = "check"]
        /\ UNCHANGED <<oid, size, stat, res, told, stream, faults, crashes>>
        /\ aborts' \in 0 .. MaxAborts
    BY <1>4, BoundsAssumption DEF ReadAll, Abort, TypeOK
  <2>3. TypeOK'
    BY <1>1, <2>1, <2>2 DEF TypeOK
  <2>4. CheckedInv'
    BY <1>1, <2>1, <2>2 DEF TypeOK, CheckedInv, Matches, HasKey
  <2>5. StatInv' /\ AckedStored'
    BY <1>1, <2>2 DEF TypeOK, StatInv, AckedStored, Acked, HasKey
  <2> QED
    BY <2>3, <2>4, <2>5
<1>5. CASE Check(u)
  <2>1. TypeOK'
    <3>1. CASE pc' = [pc EXCEPT ![u] = "put"] /\ UNCHANGED <<oid, size, buf, stat, res>>
      BY <1>1, <1>5, <3>1 DEF Check, TypeOK
    <3>2. CASE Return(u, "error")
      BY <1>1, <1>5, <3>2 DEF Check, Return, TypeOK
    <3> QED
      BY <1>5, <3>1, <3>2 DEF Check
  <2>2. CheckedInv'
    <3>1. CASE Matches(u) /\ pc' = [pc EXCEPT ![u] = "put"]
                          /\ UNCHANGED <<oid, size, buf>>
      <4>1. buf[u] \in Received
        BY <1>5, <3>1 DEF Check, CheckedInv, TypeOK
      <4> QED
        BY <1>1, <3>1, <4>1 DEF TypeOK, CheckedInv, Matches, HasKey
    <3>2. CASE Return(u, "error")
      BY <1>1, <3>2 DEF Return, TypeOK, CheckedInv, Matches, HasKey
    <3> QED
      BY <1>5, <3>1, <3>2 DEF Check
  <2>3. StatInv' /\ AckedStored'
    <3>1. told' = told /\ \A o \in Oids : HasKey(o) => HasKey(o)'
      BY <1>1, <1>5 DEF Check, HasKey
    <3>2. CASE pc' = [pc EXCEPT ![u] = "put"] /\ UNCHANGED <<oid, size, buf, stat, res>>
      <4>1. pc[u] = "check"
        BY <1>5 DEF Check
      <4>2. StatInv'
        BY <3>1, <3>2, <4>1 DEF TypeOK, StatInv
      <4> QED
        BY <3>1, <3>2, <4>2 DEF AckedStored, Acked
    <3>3. CASE Return(u, "error")
      <4>1. StatInv'
        BY <3>1, <3>3 DEF Return, TypeOK, StatInv
      <4>2. AckedStored'
        BY <3>1, <3>3 DEF Return, TypeOK, AckedStored, Acked
      <4> QED
        BY <4>1, <4>2
    <3> QED
      BY <1>5, <3>2, <3>3 DEF Check
  <2> QED
    BY <2>1, <2>2, <2>3
<1>6. CASE GetKey(u)
  <2>1. PICK r \in {"ok", "error"} : Return(u, r) /\ (r = "ok" => HasKey(oid[u]))
    BY <1>6 DEF GetKey
  <2>2. TypeOK'
    BY <1>1, <1>6, <2>1, BoundsAssumption DEF GetKey, Fault, Return, TypeOK
  <2>3. CheckedInv'
    BY <1>1, <2>1 DEF Return, TypeOK, CheckedInv, Matches, HasKey
  <2>4. StatInv' /\ AckedStored'
    BY <1>1, <1>6, <2>1
       DEF GetKey, Return, TypeOK, StatInv, AckedStored, Acked, HasKey
  <2> QED
    BY <2>2, <2>3, <2>4
<1> QED
  BY <1>2, <1>3, <1>4, <1>5, <1>6

\* What PutReader writes has been checked.
LEMMA PutReaderStep ==
  ASSUME IInv, NEW u \in Uploads, PutReader(u)
  PROVE  IInv'
<1> USE BoundsAssumption, ReceivedFacts, AbsentFacts
    DEF IInv, s3, limits
<1>1. /\ pc[u] = "put" /\ oid[u] \in Oids /\ Valid(oid[u], buf[u])
      /\ buf[u] # Absent
  BY DEF PutReader, TypeOK, CheckedInv, Valid, Matches
<1>2. bucket' = bucket \/ bucket' = [bucket EXCEPT ![oid[u]] = buf[u]]
  BY DEF PutReader, Stored
<1>3. late' = late \/ late' = [late EXCEPT ![u] = [oid |-> oid[u], body |-> buf[u]]]
  BY DEF PutReader
<1>4. TypeOK'
  <2>1. bucket' \in [Oids -> Received \cup {Absent}]
    BY <1>1, <1>2 DEF TypeOK, Valid
  <2>2. late' \in [Uploads -> [oid : Oids, body : Received] \cup {Absent}]
    <3>1. [oid |-> oid[u], body |-> buf[u]] \in [oid : Oids, body : Received]
      BY <1>1 DEF Valid
    <3>2. late \in [Uploads -> [oid : Oids, body : Received] \cup {Absent}]
      BY DEF TypeOK
    <3> QED
      BY <1>3, <3>1, <3>2
  <2>3. limits' = limits \/ Fault
    BY DEF PutReader
  <2>5. faults' \in 0 .. MaxFaults /\ UNCHANGED <<aborts, crashes>>
    BY <2>3 DEF TypeOK, Fault
  <2>4. stat' \in [Uploads -> {"none", "ok", "stored", "error"}]
    BY DEF PutReader, TypeOK
  <2> QED
    BY <2>1, <2>2, <2>4, <2>5 DEF PutReader, TypeOK
<1>5. \A o \in Oids : HasKey(o) => HasKey(o)'
  BY <1>1, <1>2 DEF TypeOK, HasKey
<1>6. CheckedInv'
  <2>1. \A o \in Oids : HasKey(o)' => Valid(o, bucket'[o])
    BY <1>1, <1>2 DEF TypeOK, CheckedInv, HasKey
  <2>2. \A v \in Uploads : late'[v] # Absent => Valid(late'[v].oid, late'[v].body)
    BY <1>1, <1>3 DEF TypeOK, CheckedInv
  <2>3. \A v \in Uploads :
          /\ pc'[v] = "read" => buf'[v] \in Bodies
          /\ pc'[v] \in {"check", "put", "head"} => buf'[v] \in Received
          /\ pc'[v] \in {"put", "head"} => Matches(v)'
    BY DEF PutReader, TypeOK, CheckedInv, Matches
  <2> QED
    BY <2>1, <2>2, <2>3 DEF CheckedInv, Valid
<1>7. pc' = [pc EXCEPT ![u] = "head"] /\ UNCHANGED <<oid, res, told>>
  BY DEF PutReader
<1>8. stat'[u] \in {"ok", "stored"} => HasKey(oid[u])'
  BY <1>1 DEF PutReader, Stored, TypeOK, HasKey
<1>9. \A v \in Uploads : v # u => stat'[v] = stat[v]
  BY DEF PutReader, TypeOK
<1>10. StatInv'
  BY <1>1, <1>5, <1>7, <1>8, <1>9 DEF StatInv, TypeOK
<1>11. AckedStored'
  BY <1>5, <1>7 DEF AckedStored, Acked, TypeOK
<1> QED
  BY <1>4, <1>6, <1>10, <1>11

\* What arrives late had been checked before it was sent.
LEMMA LandStep ==
  ASSUME IInv, NEW u \in Uploads, Land(u)
  PROVE  IInv'
<1> USE ReceivedFacts, AbsentFacts DEF IInv, puts, limits
<1>1. /\ late[u].oid \in Oids
      /\ Valid(late[u].oid, late[u].body)
      /\ late[u].body # Absent
  BY DEF Land, TypeOK, CheckedInv, Valid
<1>2. \/ bucket' = bucket
      \/ bucket' = [bucket EXCEPT ![late[u].oid] = late[u].body]
  BY DEF Land
<1>3. late' = [late EXCEPT ![u] = Absent]
  BY DEF Land
<1>4. TypeOK'
  BY <1>1, <1>2, <1>3 DEF Land, TypeOK, Valid
<1>5. \A o \in Oids : HasKey(o) => HasKey(o)'
  BY <1>1, <1>2 DEF TypeOK, HasKey
<1>6. CheckedInv'
  BY <1>1, <1>2, <1>3 DEF Land, TypeOK, CheckedInv, Valid, Matches, HasKey
<1>7. StatInv' /\ AckedStored'
  BY <1>5 DEF Land, StatInv, AckedStored, Acked, TypeOK
<1> QED
  BY <1>4, <1>6, <1>7

LEMMA OtherStep ==
  ASSUME IInv,
         \/ \E r \in Downloads : GetDone(r) \/ \E o \in Oids : Get(r, o)
         \/ Crash
         \/ UNCHANGED vars
  PROVE  IInv'
<1> USE BoundsAssumption
    DEF IInv, TypeOK, CheckedInv, StatInv, AckedStored, Acked, HasKey, Valid,
        Matches, s3, puts, limits
<1>1. ASSUME NEW r \in Downloads, GetDone(r) PROVE IInv'
  BY <1>1 DEF GetDone
<1>2. ASSUME NEW r \in Downloads, NEW o \in Oids, Get(r, o) PROVE IInv'
  BY <1>2 DEF Get
<1>3. CASE Crash
  BY <1>3 DEF Crash
<1>4. CASE UNCHANGED vars
  BY <1>4 DEF vars
<1> QED
  BY <1>1, <1>2, <1>3, <1>4

\* Which steps there are.
LEMMA NextCases ==
  ASSUME [Next]_vars
  PROVE  \/ \E u \in Uploads :
              \/ \E o \in Oids : Exists(u, o)
              \/ \E o \in Oids, s \in Sizes, b \in Bodies : Start(u, o, s, b)
              \/ ReadAll(u) \/ Check(u) \/ GetKey(u)
         \/ \E u \in Uploads : PutReader(u)
         \/ \E u \in Uploads : Land(u)
         \/ \E r \in Downloads : GetDone(r) \/ \E o \in Oids : Get(r, o)
         \/ Crash
         \/ UNCHANGED vars
<1>1. ASSUME NEW u \in Honest, Announce(u) \/ Upload(u)
      PROVE  /\ u \in Uploads
             /\ \/ \E o \in Oids : Exists(u, o)
                \/ \E o \in Oids, s \in Sizes, b \in Bodies : Start(u, o, s, b)
  BY <1>1, HonestAssumption DEF Announce, Upload
<1>2. ASSUME NEW u \in Uploads, Request(u)
      PROVE  \/ \E o \in Oids : Exists(u, o)
             \/ \E o \in Oids, s \in Sizes, b \in Bodies : Start(u, o, s, b)
  BY <1>2 DEF Request
<1> QED
  BY <1>1, <1>2 DEF Next, PutStep

LEMMA NextInv == IInv /\ [Next]_vars => IInv'
BY NextCases, LocalStep, PutReaderStep, LandStep, OtherStep

LEMMA Invariance == Spec => []IInv
BY InitInv, NextInv, PTL DEF Spec

-----------------------------------------------------------------------------
(* Safety                                                                  *)

\* The bucket, the writes under way and the requests are well typed.
THEOREM TypeCorrect == Spec => []TypeOK
<1>1. IInv => TypeOK
  BY DEF IInv
<1> QED
  BY <1>1, Invariance, PTL

\* An object that POST or PUT said is stored is in the bucket, and stays.
THEOREM Acknowledged == Spec => []AckedStored
<1>1. IInv => AckedStored
  BY DEF IInv
<1> QED
  BY <1>1, Invariance, PTL

\* Two writes of one key have the same content, whoever sends them and
\* whenever they arrive.
LEMMA SameContent ==
  ASSUME NEW o \in Oids, NEW b, NEW c, Valid(o, b), Valid(o, c)
  PROVE  b = c
BY HashAssumption DEF Valid

LEMMA StableNext ==
  ASSUME IInv, [Next]_vars, NEW o \in Oids, HasKey(o)
  PROVE  bucket'[o] = bucket[o]
<1> USE DEF IInv, TypeOK
<1>1. Valid(o, bucket[o])
  BY DEF CheckedInv
<1>2. ASSUME NEW u \in Uploads, PutReader(u) PROVE bucket'[o] = bucket[o]
  <2>1. bucket' = bucket \/ bucket' = [bucket EXCEPT ![oid[u]] = buf[u]]
    BY <1>2 DEF PutReader, Stored, s3
  <2>2. Valid(oid[u], buf[u])
    BY <1>2 DEF PutReader, CheckedInv, Matches, Valid
  <2> QED
    BY <1>1, <2>1, <2>2, SameContent
<1>3. ASSUME NEW u \in Uploads, Land(u) PROVE bucket'[o] = bucket[o]
  <2>1. Valid(late[u].oid, late[u].body)
    BY <1>3 DEF Land, CheckedInv
  <2> QED
    BY <1>1, <1>3, <2>1, SameContent DEF Land
<1>4. CASE UNCHANGED bucket
  BY <1>4
<1> QED
  BY <1>2, <1>3, <1>4, NextCases DEF Exists, Start, ReadAll, Check, GetKey,
     GetDone, Get, Crash, vars, s3

\* No upload and no late write ever changes content that is there.
THEOREM Stable == Spec => BucketStable
<1>1. IInv /\ [Next]_vars => \A o \in Oids : HasKey(o) => bucket'[o] = bucket[o]
  BY StableNext
<1> QED
  BY <1>1, Invariance, PTL DEF BucketStable, Spec

\* The second comparison of sizes in Put, after the write, never fails.
THEOREM NoLateMismatch == Spec => []KeySizeMatches
<1>1. IInv => KeySizeMatches
  <2> SUFFICES ASSUME IInv, NEW u \in Uploads, pc[u] = "head", HasKey(oid[u])
               PROVE  Len(bucket[oid[u]]) = size[u]
    BY DEF KeySizeMatches
  <2>1. /\ oid[u] \in Oids
        /\ Valid(oid[u], bucket[oid[u]])
        /\ Valid(oid[u], buf[u])
        /\ Len(buf[u]) = size[u]
    BY DEF IInv, TypeOK, CheckedInv, Matches, Valid
  <2> QED
    BY <2>1, SameContent
<1> QED
  BY <1>1, Invariance, PTL

-----------------------------------------------------------------------------
(* Refinement: each step is a step of VerifiedStore or none                *)

\* PutReader commits, postpones the write or does not get through.
LEMMA PutReaderSimulation ==
  ASSUME IInv, NEW u \in Uploads, PutReader(u)
  PROVE  VS!Commit(u) \/ VS!Postpone(u) \/ UNCHANGED VS!vars
<1> USE DEF IInv, TypeOK, s3, limits
<1>1. /\ stateBar[u] = "busy" /\ replyBar' = replyBar
      /\ UNCHANGED <<oid, size, stream>>
  BY DEF PutReader, stateBar, replyBar
<1>2. /\ buf[u] \in Received /\ buf[u] # Absent
      /\ Len(buf[u]) = size[u] /\ Sha256(buf[u]) = oid[u]
  BY AbsentFacts DEF PutReader, CheckedInv, Matches
<1>3. CASE Stored(u) /\ UNCHANGED late /\ stat'[u] \in {"ok", "stored"}
  <2>1. stateBar' = [stateBar EXCEPT ![u] = "stored"]
    BY <1>3 DEF PutReader, stateBar
  <2>2. bucket'[oid[u]] = buf[u]
    BY <1>3 DEF Stored
  <2>3. bucket' = [bucket EXCEPT ![oid[u]] = bucket'[oid[u]]]
    BY <1>3 DEF Stored
  <2> QED
    BY <1>1, <1>2, <1>3, <2>1, <2>2, <2>3 DEF VS!Commit
<1>4. CASE UNCHANGED bucket /\ stat'[u] = "error"
           /\ late' \in {late, [late EXCEPT ![u] = [oid |-> oid[u], body |-> buf[u]]]}
  <2>1. stateBar' = stateBar
    BY <1>4 DEF PutReader, stateBar
  <2>2. CASE late' = late
    BY <1>1, <1>4, <2>1, <2>2 DEF VS!vars
  <2>3. CASE late' = [late EXCEPT ![u] = [oid |-> oid[u], body |-> buf[u]]]
    <3>1. late'[u] = [oid |-> oid[u], body |-> buf[u]] /\ late'[u] # Absent
      BY <1>2, <2>3, AbsentFacts
    <3>2. late' = [late EXCEPT ![u] = late'[u]]
      BY <2>3, <3>1
    <3>3. /\ late'[u].oid = oid[u] /\ late'[u].body # Absent
          /\ Len(late'[u].body) = size[u] /\ Sha256(late'[u].body) = oid[u]
      BY <1>2, <3>1
    <3> QED
      BY <1>1, <1>4, <2>1, <3>1, <3>2, <3>3 DEF VS!Postpone
  <2> QED
    BY <1>4, <2>2, <2>3
<1> QED
  BY <1>3, <1>4 DEF PutReader

\* Return ends the upload in the contract.
LEMMA ReturnSimulation ==
  ASSUME IInv, NEW u \in Uploads, pc[u] # "idle", UNCHANGED <<s3, stream>>,
         NEW r \in {"ok", "error"}, Return(u, r),
         r = "ok" => pc[u] = "head" /\ stat[u] = "ok"
  PROVE  VS!End(u)
<1>1. /\ stateBar[u] # "idle"
      /\ r = "ok" => stateBar[u] = "stored"
  BY DEF stateBar
<1>2. stateBar' = [stateBar EXCEPT ![u] = "idle"]
  BY DEF stateBar, Return, IInv, TypeOK
<1>3. replyBar' = [replyBar EXCEPT ![u] = r]
  BY DEF replyBar, Return, IInv, TypeOK
<1> QED
  BY <1>1, <1>2, <1>3 DEF VS!End, Return, s3

LEMMA StepSimulation ==
  ASSUME IInv, [Next]_vars
  PROVE  [VS!Next]_(VS!vars)
<1> USE DEF s3, puts, limits
<1>1. ASSUME NEW u \in Uploads, NEW o \in Oids, Exists(u, o)
      PROVE  UNCHANGED VS!vars
  BY <1>1 DEF Exists, VS!vars, stateBar, replyBar
<1>2. ASSUME NEW u \in Uploads, NEW o \in Oids, NEW s \in Sizes,
             NEW b \in Bodies, Start(u, o, s, b)
      PROVE  VS!Begin(u, o, s)
  <2>1. stateBar[u] = "idle" /\ stateBar' = [stateBar EXCEPT ![u] = "busy"]
    BY <1>2 DEF Start, stateBar, IInv, TypeOK
  <2>2. replyBar' = [replyBar EXCEPT ![u] = "none"]
    BY <1>2 DEF Start, replyBar, IInv, TypeOK
  <2> QED
    BY <1>2, <2>1, <2>2 DEF Start, VS!Begin
<1>3. ASSUME NEW u \in Uploads, ReadAll(u) PROVE UNCHANGED VS!vars
  BY <1>3 DEF ReadAll, VS!vars, stateBar, replyBar, IInv, TypeOK
<1>4. ASSUME NEW u \in Uploads, Check(u) PROVE VS!End(u) \/ UNCHANGED VS!vars
  <2>1. CASE pc' = [pc EXCEPT ![u] = "put"] /\ UNCHANGED <<oid, size, buf, stat, res>>
    BY <1>4, <2>1 DEF Check, VS!vars, stateBar, replyBar, IInv, TypeOK
  <2>2. CASE Return(u, "error")
    BY <1>4, <2>2, ReturnSimulation DEF Check
  <2> QED
    BY <1>4, <2>1, <2>2 DEF Check
<1>5. ASSUME NEW u \in Uploads, GetKey(u) PROVE VS!End(u)
  <2>1. PICK r \in {"ok", "error"} :
          Return(u, r) /\ (r = "ok" => stat[u] = "ok")
    BY <1>5 DEF GetKey
  <2> QED
    BY <1>5, <2>1, ReturnSimulation DEF GetKey
<1>6. ASSUME NEW u \in Uploads, Land(u) PROVE VS!Land(u)
  BY <1>6 DEF Land, VS!Land, stateBar, replyBar
<1>7. ASSUME NEW r \in Downloads, GetDone(r) PROVE VS!Fetched(r)
  BY <1>7 DEF GetDone, VS!Fetched, stateBar, replyBar
<1>8. ASSUME NEW r \in Downloads, NEW o \in Oids, Get(r, o) PROVE VS!Fetch(r, o)
  BY <1>8 DEF Get, HasKey, VS!Fetch, stateBar, replyBar
<1>9. ASSUME Crash PROVE VS!Restart
  BY <1>9 DEF Crash, VS!Restart, stateBar, replyBar
<1>10. ASSUME UNCHANGED vars PROVE UNCHANGED VS!vars
  BY <1>10 DEF vars, VS!vars, stateBar, replyBar
<1> QED
  BY <1>1, <1>2, <1>3, <1>4, <1>5, <1>6, <1>7, <1>8, <1>9, <1>10,
     PutReaderSimulation, NextCases DEF VS!Next

\* In every behaviour the S3 store implements the contract of a store behind
\* a network: an upload takes effect in one step, when S3 writes the key, and
\* success is reported only after that.
THEOREM Refinement == Spec => Refines
<1>1. Init => VS!Init
  BY DEF Init, VS!Init, stateBar, replyBar
<1>2. IInv /\ [Next]_vars => [VS!Next]_(VS!vars)
  BY StepSimulation
<1> QED
  BY <1>1, <1>2, Invariance, PTL DEF Spec, Refines, VS!Spec

-----------------------------------------------------------------------------
(* What the contract is worth: VerifiedStore by itself keeps its promises  *)

\* Content and streams have the hash they go by, and a success is stored.
Promised ==
    /\ \A o \in Oids : bucket[o] # Absent => Sha256(bucket[o]) = o
    /\ \A r \in Downloads : stream[r] # Absent => Sha256(stream[r]) \in Oids
    /\ \A u \in Uploads : replyBar[u] = "ok" => bucket[oid[u]] # Absent

\* It depends on the writes under way, and on uploads that took effect.
PromiseInv ==
    /\ Promised
    /\ DOMAIN bucket = Oids /\ DOMAIN stream = Downloads /\ DOMAIN late = Uploads
    /\ DOMAIN stateBar = Uploads /\ DOMAIN replyBar = Uploads
    /\ oid \in [Uploads -> Oids]
    /\ \A u \in Uploads :
        /\ late[u] # Absent =>
             /\ late[u].oid \in Oids /\ late[u].body # Absent
             /\ Sha256(late[u].body) = late[u].oid
        /\ stateBar[u] = "stored" => bucket[oid[u]] # Absent

\* Every step of the contract keeps its promises.
LEMMA PromiseNext ==
  ASSUME PromiseInv, [VS!Next]_(VS!vars)
  PROVE  PromiseInv'
<1>1. ASSUME NEW u \in Uploads, NEW o \in Oids, NEW s \in Sizes, VS!Begin(u, o, s)
      PROVE  PromiseInv'
  BY <1>1 DEF PromiseInv, Promised, VS!Begin
<1>2. ASSUME NEW u \in Uploads, VS!Commit(u) PROVE PromiseInv'
  <2>1. /\ oid[u] \in Oids /\ DOMAIN bucket' = Oids
        /\ \A o \in Oids \ {oid[u]} : bucket'[o] = bucket[o]
        /\ bucket'[oid[u]] # Absent /\ Sha256(bucket'[oid[u]]) = oid[u]
        /\ UNCHANGED <<oid, replyBar, stream, late>>
    BY <1>2 DEF PromiseInv, VS!Commit
  <2>2. stateBar' = [stateBar EXCEPT ![u] = "stored"]
    BY <1>2 DEF VS!Commit
  <2> QED
    BY <2>1, <2>2 DEF PromiseInv, Promised
<1>3. ASSUME NEW u \in Uploads, VS!End(u) PROVE PromiseInv'
  <2>1. PICK r \in {"ok", "error"} :
          /\ r = "ok" => stateBar[u] = "stored"
          /\ replyBar' = [replyBar EXCEPT ![u] = r]
    BY <1>3 DEF VS!End
  <2> QED
    BY <1>3, <2>1 DEF PromiseInv, Promised, VS!End
<1>4. ASSUME NEW u \in Uploads, VS!Postpone(u) PROVE PromiseInv'
  <2>1. /\ DOMAIN late' = Uploads
        /\ \A v \in Uploads \ {u} : late'[v] = late[v]
        /\ late'[u].body # Absent /\ late'[u].oid = oid[u]
        /\ Sha256(late'[u].body) = oid[u] /\ oid[u] \in Oids
        /\ UNCHANGED <<bucket, stateBar, oid, replyBar, stream>>
    BY <1>4 DEF PromiseInv, VS!Postpone
  <2> QED
    BY <2>1 DEF PromiseInv, Promised
<1>5. ASSUME NEW u \in Uploads, VS!Land(u) PROVE PromiseInv'
  BY <1>5 DEF PromiseInv, Promised, VS!Land
<1>6. ASSUME NEW r \in Downloads, VS!Fetched(r) \/ \E o \in Oids : VS!Fetch(r, o)
      PROVE  PromiseInv'
  BY <1>6 DEF PromiseInv, Promised, VS!Fetched, VS!Fetch
<1>7. CASE VS!Restart
  BY <1>7 DEF PromiseInv, Promised, VS!Restart
<1>8. CASE UNCHANGED VS!vars
  BY <1>8 DEF PromiseInv, Promised, VS!vars
<1> QED
  BY <1>1, <1>2, <1>3, <1>4, <1>5, <1>6, <1>7, <1>8 DEF VS!Next

\* A store that implements the contract, remote or not, has under a name only
\* content with that hash, streams nothing else, and has what it said it has.
THEOREM Contract == VS!Spec => []Promised
<1>1. VS!Init => PromiseInv
  BY DEF VS!Init, PromiseInv, Promised
<1>2. PromiseInv => Promised
  BY DEF PromiseInv
<1> QED
  BY <1>1, <1>2, PromiseNext, PTL DEF VS!Spec

\* So does the S3 store, through failed calls, late writes and restarts.
THEOREM Integrity == Spec => []Promised
<1> QED
  BY Refinement, Contract, PTL DEF Refines

=============================================================================
