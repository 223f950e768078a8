------------------------- MODULE ContentStoreProofs -------------------------
(***************************************************************************)
(* Theorems about ContentStore, for any number of uploads, downloads,      *)
(* objects, inodes, aborts, faults and crashes.                            *)
(***************************************************************************)
EXTENDS ContentStore, SequenceTheorems, TLAPS

USE BodiesAssumption, SizesAssumption, NoFileAssumption, BoundsAssumption

-----------------------------------------------------------------------------
(* Type correctness                                                        *)

\* Types alone are not inductive: GetChunk reads an open file.
TypeInv == TypeOK /\ \A r \in Downloads : rpc[r] = "read" => rfd[r] \in Inodes

\* An empty disk and idle requests have the right types.
LEMMA TypeInit == Init => TypeInv
BY DEF Init, TypeInv, TypeOK

\* Every system call of Put and Get, and a restart, keeps the types.
LEMMA TypeNext == TypeInv /\ [Next]_vars => TypeInv'
<1> SUFFICES ASSUME TypeInv, [Next]_vars PROVE TypeInv'
  OBVIOUS
<1> USE DEF TypeInv, TypeOK, disk, puts, gets, limits
<1>1. ASSUME NEW u \in Uploads, StartSome(u) PROVE TypeInv'
  BY <1>1 DEF StartSome, Start
<1>2. ASSUME NEW u \in Uploads, OpenTmp(u) PROVE TypeInv'
  BY <1>2 DEF OpenTmp
<1>3. ASSUME NEW u \in Uploads, OpenFail(u) PROVE TypeInv'
  BY <1>3 DEF OpenFail, Return, Fault
<1>4. ASSUME NEW u \in Uploads, CopyChunk(u) PROVE TypeInv'
  <2> USE <1>4 DEF CopyChunk
  <2>1. Head(rest[u]) \in Chunks /\ Tail(rest[u]) \in Seq(Chunks)
    OBVIOUS
  <2>2. sum' \in [Uploads -> Seq(Chunks)] /\ rest' \in [Uploads -> Seq(Chunks)]
    BY <2>1
  <2>3. data' \in [Inodes -> Seq(Chunks)]
    <3>1. \A i \in Inodes : Append(data[i], Head(rest[u])) \in Seq(Chunks)
      BY <2>1
    <3> QED
      BY <3>1
  <2> QED
    BY <2>2, <2>3
<1>5. ASSUME NEW u \in Uploads, CopyFail(u) PROVE TypeInv'
  BY <1>5 DEF CopyFail, Abort, Fault
<1>6. ASSUME NEW u \in Uploads, Check(u) PROVE TypeInv'
  BY <1>6 DEF Check
<1>7. ASSUME NEW u \in Uploads, Rename(u) PROVE TypeInv'
  BY <1>7 DEF Rename
<1>8. ASSUME NEW u \in Uploads, RenameFail(u) PROVE TypeInv'
  <2>1. limits' = limits \/ Fault
    BY <1>8 DEF RenameFail
  <2>2. aborts' \in 0 .. MaxAborts /\ faults' \in 0 .. MaxFaults /\ crashes' \in 0 .. MaxCrashes
    BY <2>1 DEF Fault
  <2>3. /\ pc' = [pc EXCEPT ![u] = "cleanup"] /\ res' = [res EXCEPT ![u] = "error"]
        /\ UNCHANGED <<disk, oid, size, rest, sum, fd, gets>>
    BY <1>8 DEF RenameFail
  <2> QED
    BY <2>2, <2>3
<1>9. ASSUME NEW u \in Uploads, Remove(u) PROVE TypeInv'
  <2> USE <1>9 DEF Remove
  <2>1. CASE tmp' = [tmp EXCEPT ![oid[u]] = NoFile] /\ UNCHANGED limits
    BY <2>1 DEF Return
  <2>2. CASE Fault /\ UNCHANGED tmp
    BY <2>2 DEF Return, Fault
  <2> QED
    BY <2>1, <2>2
<1>10. ASSUME NEW r \in Downloads, NEW o \in Oids, GetOpen(r, o) PROVE TypeInv'
  <2>1. CASE Present(o)
    <3>1. path[o] \in Inodes
      BY <2>1 DEF Present
    <3>2. rfd' = [rfd EXCEPT ![r] = path[o]] /\ rpc' = [rpc EXCEPT ![r] = "read"]
      BY <1>10, <2>1 DEF GetOpen
    <3>3. rres' = [rres EXCEPT ![r] = "none"]
      BY <1>10, <2>1 DEF GetOpen
    <3> QED
      BY <1>10, <3>1, <3>2, <3>3 DEF GetOpen
  <2>2. CASE ~Present(o)
    <3>1. rres' = [rres EXCEPT ![r] = "missing"] /\ UNCHANGED <<rpc, rfd>>
      BY <1>10, <2>2 DEF GetOpen
    <3> QED
      BY <1>10, <3>1 DEF GetOpen
  <2> QED
    BY <2>1, <2>2
<1>11. ASSUME NEW r \in Downloads, GetChunk(r) PROVE TypeInv'
  <2> USE <1>11 DEF GetChunk
  <2>1. data[rfd[r]] \in Seq(Chunks) /\ sent[r] \in Seq(Chunks)
    OBVIOUS
  <2>2. data[rfd[r]][Len(sent[r]) + 1] \in Chunks
    BY <2>1
  <2>3. sent' \in [Downloads -> Seq(Chunks)]
    BY <2>1, <2>2
  <2> QED
    BY <2>3
<1>12. ASSUME NEW r \in Downloads, GetDone(r) PROVE TypeInv'
  BY <1>12 DEF GetDone
<1>13. CASE Crash
  BY <1>13 DEF Crash
<1>14. CASE UNCHANGED vars
  BY <1>14 DEF vars
<1> QED
  BY <1>1, <1>2, <1>3, <1>4, <1>5, <1>6, <1>7, <1>8, <1>9, <1>10, <1>11,
     <1>12, <1>13, <1>14 DEF Next, PutStep, GetStep

\* Every step of the store, window or no window, keeps the types.
THEOREM TypeCorrect == Spec => []TypeOK
<1>1. Init => TypeInv
  BY TypeInit
<1>2. TypeInv /\ [Next]_vars => TypeInv'
  BY TypeNext
<1>3. TypeInv => TypeOK
  BY DEF TypeInv
<1> QED
  BY <1>1, <1>2, <1>3, PTL DEF Spec

-----------------------------------------------------------------------------
(* The inductive invariant: one lemma per action, one step per conjunct    *)

\* A PUT request that arrives keeps the invariant.
LEMMA StartKeeps ==
  ASSUME IInv, TypeOK', NEW u \in Uploads, NEW o \in Oids, NEW s \in Sizes, NEW b \in Bodies, Start(u, o, s, b) PROVE IInv'
<1> USE DEF IInv, TypeOK, disk, puts, gets, limits, Start
<1>1. TmpExclusive'
  BY DEF TmpExclusive, UploadInv
<1>2. UploadInv'
  BY DEF UploadInv, TmpExclusive, TmpPrivate, Matches
<1>3. TmpPrivate'
  BY DEF TmpPrivate, UploadInv
<1>4. PublishedValid'
  BY DEF PublishedValid, UploadInv, TmpPrivate, Present, Matches
<1>5. DownloadInv'
  BY DEF DownloadInv, UploadInv, TmpPrivate, PublishedValid, Present
<1>6. DownloadValid'
  BY DEF DownloadValid, DownloadInv
<1>7. AckedStored'
  BY DEF AckedStored, UploadInv, Present
<1> QED
  BY <1>1, <1>2, <1>3, <1>4, <1>5, <1>6, <1>7

\* OpenFile with O_EXCL takes a fresh inode, outside every window.
LEMMA OpenTmpKeeps ==
  ASSUME IInv, TypeOK', NEW u \in Uploads, OpenTmp(u), Calm PROVE IInv'
<1> USE DEF IInv, TypeOK, disk, puts, gets, limits, OpenTmp, Calm, OpensTmp, InWindow, Free
<1>1. TmpExclusive'
  BY DEF TmpExclusive, UploadInv
<1>2. UploadInv'
  BY DEF UploadInv, TmpExclusive, TmpPrivate, Matches
<1>3. TmpPrivate'
  BY DEF TmpPrivate, UploadInv
<1>4. PublishedValid'
  BY DEF PublishedValid, UploadInv, TmpPrivate, Present, Matches
<1>5. DownloadInv'
  BY DEF DownloadInv, UploadInv, TmpPrivate, PublishedValid, Present
<1>6. DownloadValid'
  BY DEF DownloadValid, DownloadInv
<1>7. AckedStored'
  BY DEF AckedStored, UploadInv, Present
<1> QED
  BY <1>1, <1>2, <1>3, <1>4, <1>5, <1>6, <1>7

\* A Put that cannot create its .tmp file leaves the disk alone.
LEMMA OpenFailKeeps ==
  ASSUME IInv, TypeOK', NEW u \in Uploads, OpenFail(u) PROVE IInv'
<1> USE DEF IInv, TypeOK, disk, puts, gets, limits, OpenFail, Return
<1>1. TmpExclusive'
  BY DEF TmpExclusive, UploadInv
<1>2. UploadInv'
  BY DEF UploadInv, TmpExclusive, TmpPrivate, Matches
<1>3. TmpPrivate'
  BY DEF TmpPrivate, UploadInv
<1>4. PublishedValid'
  BY DEF PublishedValid, UploadInv, TmpPrivate, Present, Matches
<1>5. DownloadInv'
  BY DEF DownloadInv, UploadInv, TmpPrivate, PublishedValid, Present
<1>6. DownloadValid'
  BY DEF DownloadValid, DownloadInv
<1>7. AckedStored'
  BY DEF AckedStored, UploadInv, Present
<1> QED
  BY <1>1, <1>2, <1>3, <1>4, <1>5, <1>6, <1>7

\* A round of io.Copy writes to a .tmp file that is nobody else's.
LEMMA CopyChunkKeeps ==
  ASSUME IInv, TypeOK', NEW u \in Uploads, CopyChunk(u) PROVE IInv'
<1> USE DEF IInv, TypeOK, disk, puts, gets, limits, CopyChunk
<1>1. TmpExclusive'
  BY DEF TmpExclusive, UploadInv
<1>2. UploadInv'
  BY DEF UploadInv, TmpExclusive, TmpPrivate, Matches
<1>3. TmpPrivate'
  BY DEF TmpPrivate, UploadInv
<1>4. PublishedValid'
  BY DEF PublishedValid, UploadInv, TmpPrivate, Present, Matches
<1>5. DownloadInv'
  BY DEF DownloadInv, UploadInv, TmpPrivate, PublishedValid, Present
<1>6. DownloadValid'
  BY DEF DownloadValid, DownloadInv
<1>7. AckedStored'
  BY DEF AckedStored, UploadInv, Present
<1> QED
  BY <1>1, <1>2, <1>3, <1>4, <1>5, <1>6, <1>7

\* A body that breaks off leads to the cleanup of its own .tmp file.
LEMMA CopyFailKeeps ==
  ASSUME IInv, TypeOK', NEW u \in Uploads, CopyFail(u) PROVE IInv'
<1> USE DEF IInv, TypeOK, disk, puts, gets, limits, CopyFail
<1>1. TmpExclusive'
  BY DEF TmpExclusive, UploadInv
<1>2. UploadInv'
  BY DEF UploadInv, TmpExclusive, TmpPrivate, Matches
<1>3. TmpPrivate'
  BY DEF TmpPrivate, UploadInv
<1>4. PublishedValid'
  BY DEF PublishedValid, UploadInv, TmpPrivate, Present, Matches
<1>5. DownloadInv'
  BY DEF DownloadInv, UploadInv, TmpPrivate, PublishedValid, Present
<1>6. DownloadValid'
  BY DEF DownloadValid, DownloadInv
<1>7. AckedStored'
  BY DEF AckedStored, UploadInv, Present
<1> QED
  BY <1>1, <1>2, <1>3, <1>4, <1>5, <1>6, <1>7

\* Closing and comparing with the metadata keeps the invariant.
LEMMA CheckKeeps ==
  ASSUME IInv, TypeOK', NEW u \in Uploads, Check(u) PROVE IInv'
<1> USE DEF IInv, TypeOK, disk, puts, gets, limits, Check
<1>1. TmpExclusive'
  <2>1. \A v \in Uploads : pc'[v] \in {"copy", "rename", "cleanup"}
                             => pc[v] \in {"copy", "rename", "cleanup"}
    OBVIOUS
  <2> QED
    BY <2>1 DEF TmpExclusive
<1>2. UploadInv'
  BY DEF UploadInv, TmpExclusive, TmpPrivate, Matches
<1>3. TmpPrivate'
  BY DEF TmpPrivate, UploadInv
<1>4. PublishedValid'
  BY DEF PublishedValid, UploadInv, TmpPrivate, Present, Matches
<1>5. DownloadInv'
  BY DEF DownloadInv, UploadInv, TmpPrivate, PublishedValid, Present
<1>6. DownloadValid'
  BY DEF DownloadValid, DownloadInv
<1>7. AckedStored'
  BY DEF AckedStored, UploadInv, Present
<1> QED
  BY <1>1, <1>2, <1>3, <1>4, <1>5, <1>6, <1>7

\* Rename publishes the inode that was written and compared.
LEMMA RenameKeeps ==
  ASSUME IInv, TypeOK', NEW u \in Uploads, Rename(u) PROVE IInv'
<1> USE DEF IInv, TypeOK, disk, puts, gets, limits, Rename
<1>1. TmpExclusive'
  BY DEF TmpExclusive, UploadInv
<1>2. UploadInv'
  BY DEF UploadInv, TmpExclusive, TmpPrivate, Matches
<1>3. TmpPrivate'
  BY DEF TmpPrivate, UploadInv
<1>4. PublishedValid'
  BY DEF PublishedValid, UploadInv, TmpPrivate, Present, Matches
<1>5. DownloadInv'
  BY DEF DownloadInv, UploadInv, TmpPrivate, PublishedValid, Present
<1>6. DownloadValid'
  BY DEF DownloadValid, DownloadInv
<1>7. AckedStored'
  BY DEF AckedStored, UploadInv, Present
<1> QED
  BY <1>1, <1>2, <1>3, <1>4, <1>5, <1>6, <1>7

\* A failed Rename leads to the cleanup of its own .tmp file.
LEMMA RenameFailKeeps ==
  ASSUME IInv, TypeOK', NEW u \in Uploads, RenameFail(u) PROVE IInv'
<1> USE DEF IInv, TypeOK, disk, puts, gets, limits, RenameFail
<1>1. TmpExclusive'
  BY DEF TmpExclusive, UploadInv
<1>2. UploadInv'
  BY DEF UploadInv, TmpExclusive, TmpPrivate, Matches
<1>3. TmpPrivate'
  BY DEF TmpPrivate, UploadInv
<1>4. PublishedValid'
  BY DEF PublishedValid, UploadInv, TmpPrivate, Present, Matches
<1>5. DownloadInv'
  BY DEF DownloadInv, UploadInv, TmpPrivate, PublishedValid, Present
<1>6. DownloadValid'
  BY DEF DownloadValid, DownloadInv
<1>7. AckedStored'
  BY DEF AckedStored, UploadInv, Present
<1> QED
  BY <1>1, <1>2, <1>3, <1>4, <1>5, <1>6, <1>7

\* The deferred Remove unlinks the .tmp file of its own Put, or none.
LEMMA RemoveKeeps ==
  ASSUME IInv, TypeOK', NEW u \in Uploads, Remove(u) PROVE IInv'
<1> USE DEF IInv, TypeOK, disk, puts, gets, limits, Remove, Return
<1>1. TmpExclusive'
  BY DEF TmpExclusive, UploadInv
<1>2. UploadInv'
  BY DEF UploadInv, TmpExclusive, TmpPrivate, Matches
<1>3. TmpPrivate'
  BY DEF TmpPrivate, UploadInv
<1>4. PublishedValid'
  BY DEF PublishedValid, UploadInv, TmpPrivate, Present, Matches
<1>5. DownloadInv'
  BY DEF DownloadInv, UploadInv, TmpPrivate, PublishedValid, Present
<1>6. DownloadValid'
  BY DEF DownloadValid, DownloadInv
<1>7. AckedStored'
  BY DEF AckedStored, UploadInv, Present
<1> QED
  BY <1>1, <1>2, <1>3, <1>4, <1>5, <1>6, <1>7

\* A download opens a published inode, or finds nothing.
LEMMA GetOpenKeeps ==
  ASSUME IInv, TypeOK', NEW r \in Downloads, NEW o \in Oids, GetOpen(r, o) PROVE IInv'
<1> USE DEF IInv, TypeOK, disk, puts, gets, limits, GetOpen
<1>1. TmpExclusive'
  BY DEF TmpExclusive, UploadInv
<1>2. UploadInv'
  BY DEF UploadInv, TmpExclusive, TmpPrivate, Matches
<1>3. TmpPrivate'
  BY DEF TmpPrivate, UploadInv
<1>4. PublishedValid'
  BY DEF PublishedValid, UploadInv, TmpPrivate, Present, Matches
<1>5. DownloadInv'
  BY DEF DownloadInv, UploadInv, TmpPrivate, PublishedValid, Present
<1>6. DownloadValid'
  BY DEF DownloadValid, DownloadInv
<1>7. AckedStored'
  BY DEF AckedStored, UploadInv, Present
<1> QED
  BY <1>1, <1>2, <1>3, <1>4, <1>5, <1>6, <1>7

\* A round of io.Copy to the client extends a prefix of the object.
LEMMA GetChunkKeeps ==
  ASSUME IInv, TypeOK', NEW r \in Downloads, GetChunk(r) PROVE IInv'
<1> USE DEF IInv, TypeOK, disk, puts, gets, limits, GetChunk
<1>1. TmpExclusive'
  BY DEF TmpExclusive, UploadInv
<1>2. UploadInv'
  BY DEF UploadInv, TmpExclusive, TmpPrivate, Matches
<1>3. TmpPrivate'
  BY DEF TmpPrivate, UploadInv
<1>4. PublishedValid'
  BY DEF PublishedValid, UploadInv, TmpPrivate, Present, Matches
<1>5. DownloadInv'
  BY DEF DownloadInv, UploadInv, TmpPrivate, PublishedValid, Present
<1>6. DownloadValid'
  BY DEF DownloadValid, DownloadInv
<1>7. AckedStored'
  BY DEF AckedStored, UploadInv, Present
<1> QED
  BY <1>1, <1>2, <1>3, <1>4, <1>5, <1>6, <1>7

\* A download that ends has sent the object, or says nothing.
LEMMA GetDoneKeeps ==
  ASSUME IInv, TypeOK', NEW r \in Downloads, GetDone(r) PROVE IInv'
<1> USE DEF IInv, TypeOK, disk, puts, gets, limits, GetDone
<1>1. TmpExclusive'
  BY DEF TmpExclusive, UploadInv
<1>2. UploadInv'
  BY DEF UploadInv, TmpExclusive, TmpPrivate, Matches
<1>3. TmpPrivate'
  BY DEF TmpPrivate, UploadInv
<1>4. PublishedValid'
  BY DEF PublishedValid, UploadInv, TmpPrivate, Present, Matches
<1>5. DownloadInv'
  BY DEF DownloadInv, UploadInv, TmpPrivate, PublishedValid, Present
<1>6. DownloadValid'
  <2>1. /\ sent[r] \in Seq(Chunks) /\ data[rfd[r]] \in Seq(Chunks)
        /\ Len(sent[r]) <= Len(data[rfd[r]])
        /\ \A k \in 1 .. Len(sent[r]) : sent[r][k] = data[rfd[r]][k]
        /\ Sha256(data[rfd[r]]) = roid[r]
    BY DEF DownloadInv
  <2>2. Len(sent[r]) >= Len(data[rfd[r]]) => sent[r] = data[rfd[r]]
    <3> HIDE DEF IInv, TypeOK, GetDone
    <3> SUFFICES ASSUME Len(sent[r]) >= Len(data[rfd[r]])
                 PROVE  sent[r] = data[rfd[r]]
      OBVIOUS
    <3>1. Len(sent[r]) \in Nat /\ Len(data[rfd[r]]) \in Nat
      BY <2>1
    <3>2. Len(sent[r]) = Len(data[rfd[r]])
      BY <2>1, <3>1
    <3> QED
      BY <2>1, <3>2, SeqEqual
  <2>3. rres'[r] = "found" => Sha256(sent'[r]) = roid'[r]
    BY <2>1, <2>2
  <2> QED
    BY <2>3 DEF DownloadValid
<1>7. AckedStored'
  BY DEF AckedStored, UploadInv, Present
<1> QED
  BY <1>1, <1>2, <1>3, <1>4, <1>5, <1>6, <1>7

\* A restart closes files and leaves the names as they are.
LEMMA CrashKeeps ==
  ASSUME IInv, TypeOK', Crash PROVE IInv'
<1> USE DEF IInv, TypeOK, disk, Crash
<1>1. TmpExclusive'
  BY DEF TmpExclusive
<1>2. UploadInv'
  BY DEF UploadInv, Matches
<1>3. TmpPrivate'
  BY DEF TmpPrivate
<1>4. PublishedValid'
  BY DEF PublishedValid, Present
<1>5. DownloadInv'
  BY DEF DownloadInv
<1>6. DownloadValid'
  BY DEF DownloadValid
<1>7. AckedStored'
  BY DEF AckedStored, Present
<1> QED
  BY <1>1, <1>2, <1>3, <1>4, <1>5, <1>6, <1>7

\* The invariant holds of an empty disk.
LEMMA IInvInit == Init => IInv
BY TypeInit DEF Init, IInv, TypeInv, TmpExclusive, UploadInv, TmpPrivate,
   PublishedValid, DownloadInv, DownloadValid, AckedStored, Present

\* Every step outside the window keeps the invariant.
LEMMA IInvNext == IInv /\ [CalmNext]_vars => IInv'
<1> SUFFICES ASSUME IInv, [CalmNext]_vars PROVE IInv'
  OBVIOUS
<1>1. TypeOK'
  <2>1. TypeInv
    BY DEF IInv, TypeInv, TypeOK, DownloadInv
  <2>2. [Next]_vars
    BY DEF CalmNext
  <2> QED
    BY <2>1, <2>2, TypeNext DEF TypeInv
<1>2. CASE Next /\ Calm
  BY <1>1, <1>2, StartKeeps, OpenTmpKeeps, OpenFailKeeps, CopyChunkKeeps,
     CopyFailKeeps, CheckKeeps, RenameKeeps, RenameFailKeeps, RemoveKeeps,
     GetOpenKeeps, GetChunkKeeps, GetDoneKeeps, CrashKeeps
     DEF Next, StartSome, PutStep, GetStep
<1>3. CASE UNCHANGED vars
  BY <1>3 DEF vars, disk, puts, gets, limits, IInv, TypeOK, TmpExclusive,
     UploadInv, TmpPrivate, PublishedValid, DownloadInv, DownloadValid,
     AckedStored, Present, Matches
<1> QED
  BY <1>2, <1>3 DEF CalmNext

\* The inductive invariant of the file system store: Put has its .tmp file to
\* itself and what it renames is what it has compared.
THEOREM Invariance == CalmSpec => []IInv
<1> QED
  BY IInvInit, IInvNext, PTL DEF CalmSpec

\* Whatever clients send, however requests interleave, break off or are cut
\* short by a restart: outside the window the store publishes only content
\* whose hash is the object id.
THEOREM Integrity == CalmSpec => []PublishedValid
<1>1. IInv => PublishedValid
  BY DEF IInv
<1> QED
  BY <1>1, Invariance, PTL

\* Outside the window O_EXCL is a lock on the .tmp file.
THEOREM Exclusion == CalmSpec => []TmpExclusive
<1>1. IInv => TmpExclusive
  BY DEF IInv
<1> QED
  BY <1>1, Invariance, PTL

\* Outside the window a complete download is the object that was asked for.
THEOREM Downloads_Valid == CalmSpec => []DownloadValid
<1>1. IInv => DownloadValid
  BY DEF IInv
<1> QED
  BY <1>1, Invariance, PTL

\* A step changes the published content of an object only by Rename.
LEMMA PublishedKept ==
  ASSUME IInv, [CalmNext]_vars, NEW o \in Oids, Present(o)
  PROVE  data'[path[o]] = data[path[o]]
<1>1. ASSUME NEW u \in Uploads, OpenTmp(u) PROVE data'[path[o]] = data[path[o]]
  BY <1>1 DEF OpenTmp, Free, IInv, TypeOK
<1>2. ASSUME NEW u \in Uploads, CopyChunk(u) PROVE data'[path[o]] = data[path[o]]
  BY <1>2 DEF CopyChunk, IInv, TypeOK, UploadInv, TmpPrivate
<1>3. CASE UNCHANGED data
  BY <1>3
<1> QED
  BY <1>1, <1>2, <1>3 DEF CalmNext, Next, StartSome, Start, PutStep, GetStep,
     OpenFail, CopyFail, Check, Rename, RenameFail, Remove, GetOpen, GetChunk,
     GetDone, Crash, vars, disk

\* Outside the window nobody writes to a published file.
THEOREM Frozen == CalmSpec => PublishedFrozen
<1>1. IInv /\ [CalmNext]_vars =>
        \A o \in Oids : Present(o) => data'[path[o]] = data[path[o]]
  BY PublishedKept
<1> QED
  BY <1>1, Invariance, PTL DEF PublishedFrozen, CalmSpec

-----------------------------------------------------------------------------
(* Refinement: each step of CalmSpec is a step of VerifiedStore or none    *)

\* No step changes the bytes a download in progress is reading.
LEMMA StreamKept ==
  ASSUME IInv, NEW u \in Uploads, OpenTmp(u) \/ CopyChunk(u)
  PROVE  blobBar' = blobBar /\ streamBar' = streamBar
<1> USE DEF IInv, TypeOK
<1>1. \A o \in Oids : Present(o) => data'[path[o]] = data[path[o]]
  BY DEF OpenTmp, Free, CopyChunk, UploadInv, TmpPrivate, Present
<1>2. \A r \in Downloads : rpc[r] = "read" => data'[rfd[r]] = data[rfd[r]]
  BY DEF OpenTmp, Free, CopyChunk, UploadInv, TmpPrivate, DownloadInv
<1>3. path' = path /\ rpc' = rpc /\ rfd' = rfd
  BY DEF OpenTmp, CopyChunk, gets
<1> QED
  BY <1>1, <1>2, <1>3 DEF blobBar, streamBar, Present

\* Every calm step is a step of VerifiedStore or leaves its state alone.
LEMMA StepSimulation ==
  ASSUME IInv, [CalmNext]_vars
  PROVE  [VS!Next]_(VS!vars)
<1> USE DEF IInv, TypeOK, disk, puts, gets, limits
<1>1. ASSUME NEW u \in Uploads, NEW o \in Oids, NEW s \in Sizes,
             NEW b \in Bodies, Start(u, o, s, b)
      PROVE  VS!Begin(u, o, s)
  <2>1. blobBar' = blobBar /\ streamBar' = streamBar
    BY <1>1 DEF Start, blobBar, streamBar, Present
  <2>2. stateBar[u] = "idle" /\ stateBar' = [stateBar EXCEPT ![u] = "busy"]
    BY <1>1 DEF Start, stateBar, InWindow
  <2>3. replyBar' = [replyBar EXCEPT ![u] = "none"]
    BY <1>1 DEF Start, replyBar
  <2> QED
    BY <1>1, <2>1, <2>2, <2>3 DEF Start, VS!Begin
<1>2. ASSUME NEW u \in Uploads, OpenTmp(u) PROVE UNCHANGED VS!vars
  <2>1. stateBar' = stateBar /\ replyBar' = replyBar
    BY <1>2 DEF OpenTmp, stateBar, replyBar, InWindow
  <2> QED
    BY <1>2, <2>1, StreamKept DEF VS!vars, OpenTmp
<1>3. ASSUME NEW u \in Uploads, OpenFail(u) PROVE VS!End(u)
  BY <1>3 DEF OpenFail, Return, VS!End, blobBar, stateBar, replyBar, streamBar,
     InWindow, Present
<1>4. ASSUME NEW u \in Uploads, CopyChunk(u) PROVE UNCHANGED VS!vars
  <2>1. stateBar' = stateBar /\ replyBar' = replyBar
    BY <1>4 DEF CopyChunk, stateBar, replyBar, InWindow
  <2> QED
    BY <1>4, <2>1, StreamKept DEF VS!vars, CopyChunk
<1>5. ASSUME NEW u \in Uploads, CopyFail(u) PROVE UNCHANGED VS!vars
  BY <1>5 DEF CopyFail, VS!vars, blobBar, stateBar, replyBar, streamBar,
     InWindow, Present
<1>6. ASSUME NEW u \in Uploads, Check(u) PROVE UNCHANGED VS!vars
  BY <1>6 DEF Check, VS!vars, blobBar, stateBar, replyBar, streamBar,
     InWindow, Present, UploadInv
<1>7. ASSUME NEW u \in Uploads, Rename(u) PROVE VS!Commit(u)
  <2>1. /\ stateBar[u] = "busy"
        /\ stateBar' = [stateBar EXCEPT ![u] = "stored"]
        /\ replyBar' = replyBar
        /\ streamBar' = streamBar
    BY <1>7 DEF Rename, stateBar, replyBar, streamBar, InWindow
  <2>2. blobBar'[oid[u]] = sum[u] /\ sum[u] # NoFile
    BY <1>7 DEF Rename, UploadInv, blobBar, Present
  <2>3. blobBar' = [blobBar EXCEPT ![oid[u]] = blobBar'[oid[u]]]
    BY <1>7 DEF Rename, blobBar, Present
  <2>4. Len(sum[u]) = size[u] /\ Sha256(sum[u]) = oid[u]
    BY <1>7 DEF Rename, UploadInv, Matches
  <2> QED
    BY <1>7, <2>1, <2>2, <2>3, <2>4 DEF Rename, VS!Commit
<1>8. ASSUME NEW u \in Uploads, RenameFail(u) PROVE UNCHANGED VS!vars
  BY <1>8 DEF RenameFail, VS!vars, blobBar, stateBar, replyBar, streamBar,
     InWindow, Present
<1>9. ASSUME NEW u \in Uploads, Remove(u) PROVE VS!End(u)
  <2>1. blobBar' = blobBar /\ streamBar' = streamBar
    BY <1>9 DEF Remove, blobBar, streamBar, Present
  <2>2. stateBar[u] # "idle" /\ stateBar' = [stateBar EXCEPT ![u] = "idle"]
    BY <1>9 DEF Remove, Return, stateBar, InWindow
  <2>3. /\ res[u] \in {"ok", "error"}
        /\ res[u] = "ok" => stateBar[u] = "stored"
        /\ res[u] = "error" => stateBar[u] = "busy"
    BY <1>9 DEF Remove, stateBar, InWindow, UploadInv
  <2>4. replyBar' = [replyBar EXCEPT ![u] = res[u]]
    BY <1>9 DEF Remove, Return, replyBar
  <2> QED
    BY <1>9, <2>1, <2>2, <2>3, <2>4 DEF Remove, Return, VS!End
<1>10. ASSUME NEW r \in Downloads, NEW o \in Oids, GetOpen(r, o)
       PROVE  VS!Fetch(r, o) \/ UNCHANGED VS!vars
  <2>1. blobBar' = blobBar /\ stateBar' = stateBar /\ replyBar' = replyBar
    BY <1>10 DEF GetOpen, blobBar, stateBar, replyBar, InWindow, Present
  <2>2. CASE Present(o)
    <3>1. streamBar[r] = NoFile /\ blobBar[o] = data[path[o]]
      BY <1>10, <2>2 DEF GetOpen, streamBar, blobBar
    <3>2. data[path[o]] # NoFile
      BY <2>2 DEF Present
    <3>3. streamBar' = [streamBar EXCEPT ![r] = data[path[o]]]
      BY <1>10, <2>2 DEF GetOpen, streamBar
    <3> QED
      BY <1>10, <2>1, <3>1, <3>2, <3>3 DEF GetOpen, VS!Fetch
  <2>3. CASE ~Present(o)
    <3>1. streamBar' = streamBar
      BY <1>10, <2>3 DEF GetOpen, streamBar
    <3> QED
      BY <1>10, <2>1, <3>1 DEF GetOpen, VS!vars
  <2> QED
    BY <2>2, <2>3
<1>11. ASSUME NEW r \in Downloads, GetChunk(r) PROVE UNCHANGED VS!vars
  BY <1>11 DEF GetChunk, VS!vars, blobBar, stateBar, replyBar, streamBar,
     InWindow, Present
<1>12. ASSUME NEW r \in Downloads, GetDone(r) PROVE VS!Fetched(r)
  <2>1. blobBar' = blobBar /\ stateBar' = stateBar /\ replyBar' = replyBar
    BY <1>12 DEF GetDone, blobBar, stateBar, replyBar, InWindow, Present
  <2>2. streamBar[r] # NoFile /\ streamBar' = [streamBar EXCEPT ![r] = NoFile]
    <3>1. data[rfd[r]] \in Seq(Chunks)
      BY <1>12 DEF GetDone, DownloadInv
    <3>2. streamBar[r] = data[rfd[r]]
      BY <1>12 DEF GetDone, streamBar
    <3>3. streamBar' = [streamBar EXCEPT ![r] = NoFile]
      BY <1>12 DEF GetDone, streamBar
    <3> QED
      BY <3>1, <3>2, <3>3
  <2> QED
    BY <1>12, <2>1, <2>2 DEF GetDone, VS!Fetched
<1>13. CASE Crash
  <2>1. blobBar' = blobBar /\ replyBar' = replyBar
    BY <1>13 DEF Crash, blobBar, replyBar, Present
  <2>2. /\ stateBar' = [u \in Uploads |-> "idle"]
        /\ streamBar' = [r \in Downloads |-> NoFile]
    BY <1>13 DEF Crash, stateBar, streamBar
  <2>3. VS!Restart
    BY <1>13, <2>1, <2>2 DEF Crash, VS!Restart
  <2> QED
    BY <2>3 DEF VS!Next
<1>14. CASE UNCHANGED vars
  BY <1>14 DEF vars, VS!vars, blobBar, stateBar, replyBar, streamBar,
     InWindow, Present
<1> QED
  BY <1>1, <1>2, <1>3, <1>4, <1>5, <1>6, <1>7, <1>8, <1>9, <1>10, <1>11,
     <1>12, <1>13, <1>14 DEF CalmNext, Next, StartSome, PutStep, GetStep, VS!Next

\* Outside the window ContentStore implements VerifiedStore: Put is atomic
\* at its Rename, success is reported for uploads that took effect and only
\* for them, and a download streams one stored content from start to end.
THEOREM Refinement == CalmSpec => Refines
<1>1. Init => VS!Init
  BY DEF Init, VS!Init, blobBar, stateBar, replyBar, streamBar, Present
<1>2. IInv /\ [CalmNext]_vars => [VS!Next]_(VS!vars)
  BY StepSimulation
<1> QED
  BY <1>1, <1>2, Invariance, PTL DEF CalmSpec, Refines, VS!Spec

-----------------------------------------------------------------------------
(* What holds in every behaviour, the window included                      *)

\* No step unlinks the final name of an object.
LEMMA AckedNext == TypeOK /\ AckedStored /\ [Next]_vars => AckedStored'
<1> SUFFICES ASSUME TypeOK, AckedStored, [Next]_vars PROVE AckedStored'
  OBVIOUS
<1> USE DEF AckedStored, Present, TypeOK
<1>1. ASSUME NEW u \in Uploads, StartSome(u) PROVE AckedStored'
  BY <1>1 DEF StartSome, Start, disk
<1>2. ASSUME NEW u \in Uploads, PutStep(u), ~Rename(u) PROVE AckedStored'
  BY <1>2 DEF PutStep, OpenTmp, OpenFail, CopyChunk, CopyFail, Check,
     RenameFail, Remove, Return, disk
<1>3. ASSUME NEW u \in Uploads, Rename(u) PROVE AckedStored'
  BY <1>3 DEF Rename
<1>4. ASSUME NEW r \in Downloads, GetStep(r) PROVE AckedStored'
  BY <1>4 DEF GetStep, GetOpen, GetChunk, GetDone, disk, puts
<1>5. CASE Crash
  BY <1>5 DEF Crash, disk
<1>6. CASE UNCHANGED vars
  BY <1>6 DEF vars, disk, puts
<1> QED
  BY <1>1, <1>2, <1>3, <1>4, <1>5, <1>6 DEF Next

\* Success is never reported for an object that is not in the store, and no
\* later upload, failure or restart takes the object away.
THEOREM Acknowledged == Spec => []AckedStored
<1>1. Init => AckedStored
  BY DEF Init, AckedStored
<1> QED
  BY <1>1, AckedNext, TypeCorrect, PTL DEF Spec

\* A .tmp file without an upload needs a crash or a disk fault.
LEMMA OrphanNext == TypeOK /\ OrphanFree /\ [Next]_vars => OrphanFree'
<1> SUFFICES ASSUME TypeOK, OrphanFree, [Next]_vars,
                    crashes' = 0, faults' = 0,
                    NEW o \in Oids, tmp'[o] # NoFile
             PROVE  \E u \in Uploads : /\ oid'[u] = o
                                       /\ pc'[u] \in {"copy", "rename", "cleanup"}
  BY DEF OrphanFree
<1> DEFINE Holder(u) == oid[u] = o /\ pc[u] \in {"copy", "rename", "cleanup"}
<1> USE DEF TypeOK
<1>1. crashes = 0 /\ faults = 0 /\ ~Crash
  <2>1. crashes \in Nat /\ faults \in Nat
    BY BoundsAssumption
  <2> DEFINE More == crashes' = crashes + 1 \/ faults' = faults + 1
             Same == UNCHANGED <<crashes, faults>>
  <2>2. ASSUME NEW u \in Uploads, StartSome(u) PROVE Same
    BY <2>2 DEF StartSome, Start, limits
  <2>3. ASSUME NEW u \in Uploads, PutStep(u) PROVE Same \/ More
    <3>1. CASE OpenTmp(u) \/ CopyChunk(u) \/ Check(u) \/ Rename(u)
      BY <3>1 DEF OpenTmp, CopyChunk, Check, Rename, limits
    <3>2. CASE OpenFail(u) \/ CopyFail(u) \/ RenameFail(u) \/ Remove(u)
      BY <3>2 DEF OpenFail, CopyFail, RenameFail, Remove, Fault, Abort, limits
    <3> QED
      BY <2>3, <3>1, <3>2 DEF PutStep
  <2>4. ASSUME NEW r \in Downloads, GetStep(r) PROVE Same
    BY <2>4 DEF GetStep, GetOpen, GetChunk, GetDone, limits
  <2>5. Crash => crashes' = crashes + 1
    BY DEF Crash
  <2>6. Crash \/ Same \/ More
    BY <2>2, <2>3, <2>4 DEF Next, vars, limits
  <2> QED
    BY <2>1, <2>5, <2>6
<1>2. tmp[o] # NoFile => \E u \in Uploads : Holder(u)
  BY <1>1 DEF OrphanFree
<1>3. ASSUME NEW v \in Uploads, OpenTmp(v), oid[v] = o PROVE Holder(v)'
  BY <1>3 DEF OpenTmp
<1>4. ASSUME NEW v \in Uploads, OpenTmp(v), oid[v] # o
      PROVE  \E u \in Uploads : Holder(u)'
  BY <1>2, <1>4 DEF OpenTmp
<1>5. ASSUME NEW v \in Uploads, PutStep(v), ~OpenTmp(v), ~Remove(v)
      PROVE  \E u \in Uploads : Holder(u)'
  BY <1>2, <1>5 DEF PutStep, OpenFail, CopyChunk, CopyFail, Check, Rename,
     RenameFail, Return, disk
<1>6. ASSUME NEW v \in Uploads, Remove(v)
      PROVE  \E u \in Uploads : Holder(u)'
  <2>1. tmp' = [tmp EXCEPT ![oid[v]] = NoFile]
    BY <1>1, <1>6 DEF Remove, Fault
  <2>2. oid[v] # o /\ tmp[o] # NoFile
    BY <2>1
  <2> QED
    BY <1>2, <1>6, <2>2 DEF Remove, Return
<1>7. ASSUME NEW v \in Uploads, StartSome(v)
      PROVE  \E u \in Uploads : Holder(u)'
  BY <1>2, <1>7 DEF StartSome, Start, disk
<1>8. ASSUME NEW r \in Downloads, GetStep(r)
      PROVE  \E u \in Uploads : Holder(u)'
  BY <1>2, <1>8 DEF GetStep, GetOpen, GetChunk, GetDone, disk, puts
<1>9. CASE UNCHANGED vars
  BY <1>2, <1>9 DEF vars, disk, puts
<1> QED
  BY <1>1, <1>3, <1>4, <1>5, <1>6, <1>7, <1>8, <1>9 DEF Next, PutStep

\* As long as the process does not crash and the disk does not fail, the
\* deferred Remove of some running Put stands behind every .tmp file.
THEOREM NoOrphans == Spec => []OrphanFree
<1>1. Init => OrphanFree
  BY DEF Init, OrphanFree
<1> QED
  BY <1>1, OrphanNext, TypeCorrect, PTL DEF Spec

=============================================================================
