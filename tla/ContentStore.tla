---------------------------- MODULE ContentStore ----------------------------
(***************************************************************************)
(* The file system content store of lfs-server-go (content_store.go) as    *)
(* the concurrent requests of one server process use it.                   *)
(*                                                                         *)
(* Every PUT request runs ContentStore.Put in a goroutine of its own, every *)
(* GET of a content runs ContentStore.Get and then copies the open file to *)
(* the response.  Nothing but the file system orders them: the file        *)
(* <oid>.tmp, created with O_EXCL, is the only lock, so the model is one   *)
(* step per system call.                                                   *)
(*                                                                         *)
(* A file is a name (tmp[o] or path[o]) that refers to an inode, and an    *)
(* inode holds the bytes.  A name can be unlinked or renamed while a       *)
(* goroutine still has the inode open, which is what makes the protocol    *)
(* hard.                                                                   *)
(***************************************************************************)
EXTENDS Integers, Sequences

CONSTANTS
    Uploads,      \* goroutines that serve PUT requests
    Downloads,    \* goroutines that serve GET requests
    Oids,         \* object ids
    Chunks,       \* what one read of a request body yields
    Bodies,       \* request bodies that clients send: sequences of chunks
    Sizes,        \* values of MetaObject.Size (declared by a client)
    Sha256(_),    \* the hash of a sequence of chunks, in hexadecimal
    Inodes,       \* inodes of the file system
    NoFile,       \* a name with no file, a goroutine with no open file
    MaxAborts,    \* bound: client connections that break during a PUT
    MaxFaults,    \* bound: system calls that fail for no fault of the caller
    MaxCrashes    \* bound: exits of the process with requests in progress

ASSUME BodiesAssumption == Bodies \subseteq Seq(Chunks)
ASSUME SizesAssumption  == Sizes \subseteq Int
ASSUME NoFileAssumption == NoFile \notin Inodes /\ NoFile \notin Seq(Chunks)
ASSUME BoundsAssumption ==
    MaxAborts \in Nat /\ MaxFaults \in Nat /\ MaxCrashes \in Nat

VARIABLES
    \* the disk
    tmp,       \* tmp[o]: the inode named <path of o>.tmp, or NoFile
    path,      \* path[o]: the inode named <path of o>, or NoFile
    data,      \* data[i]: the bytes of inode i
    \* one PUT per upload goroutine
    pc,        \* next system call of Put
    oid,       \* meta.Oid
    size,      \* meta.Size, read from the meta store before Put is called
    rest,      \* what the request body r has still to deliver
    sum,       \* what the sha256 writer has been given
    fd,        \* inode of the open file
    res,       \* result of the current or last Put
    \* one GET per download goroutine
    rpc, roid,
    rfd,       \* inode of the file Get returned
    sent,      \* what io.Copy has written to the response
    rres,      \* outcome of the last GET
    \* bounded faults
    aborts, faults, crashes

disk   == <<tmp, path, data>>
puts   == <<pc, oid, size, rest, sum, fd, res>>
gets   == <<rpc, roid, rfd, sent, rres>>
limits == <<aborts, faults, crashes>>
vars   == <<disk, puts, gets, limits>>

-----------------------------------------------------------------------------
Init ==
    /\ tmp  = [o \in Oids |-> NoFile]
    /\ path = [o \in Oids |-> NoFile]
    /\ data = [i \in Inodes |-> << >>]
    /\ pc   = [u \in Uploads |-> "idle"]
    /\ oid  \in [Uploads -> Oids]
    /\ size = [u \in Uploads |-> 0]
    /\ rest = [u \in Uploads |-> << >>]
    /\ sum  = [u \in Uploads |-> << >>]
    /\ fd   = [u \in Uploads |-> NoFile]
    /\ res  = [u \in Uploads |-> "none"]
    /\ rpc  = [r \in Downloads |-> "idle"]
    /\ roid \in [Downloads -> Oids]
    /\ rfd  = [r \in Downloads |-> NoFile]
    /\ sent = [r \in Downloads |-> << >>]
    /\ rres = [r \in Downloads |-> "none"]
    /\ aborts = 0 /\ faults = 0 /\ crashes = 0

\* The final name is there: os.Open finds it.
Present(o) == path[o] # NoFile

\* An inode that no name and no open file refers to: the kernel may reuse it.
Free(i) ==
    /\ \A o \in Oids : tmp[o] # i /\ path[o] # i
    /\ \A u \in Uploads : fd[u] # i
    /\ \A r \in Downloads : rfd[r] # i

Fault == faults < MaxFaults /\ faults' = faults + 1 /\ UNCHANGED <<aborts, crashes>>
Abort == aborts < MaxAborts /\ aborts' = aborts + 1 /\ UNCHANGED <<faults, crashes>>

-----------------------------------------------------------------------------
(* Put                                                                     *)

\* PutHandler calls Put with the metadata it has read and the request body.
Start(u, o, s, b) ==
    /\ pc[u] = "idle"
    /\ pc'   = [pc EXCEPT ![u] = "open"]
    /\ oid'  = [oid EXCEPT ![u] = o]
    /\ size' = [size EXCEPT ![u] = s]
    /\ rest' = [rest EXCEPT ![u] = b]
    /\ res'  = [res EXCEPT ![u] = "none"]
    /\ UNCHANGED <<disk, sum, fd, gets, limits>>

\* Put returns: its locals are gone, the client learns r.
Return(u, r) ==
    /\ pc'   = [pc EXCEPT ![u] = "idle"]
    /\ res'  = [res EXCEPT ![u] = r]
    /\ rest' = [rest EXCEPT ![u] = << >>]
    /\ sum'  = [sum EXCEPT ![u] = << >>]
    /\ size' = [size EXCEPT ![u] = 0]
    /\ UNCHANGED oid

\* Mutant: without O_EXCL an existing .tmp file is opened and truncated.
OpenTmpShared(u) ==
    /\ pc[u] = "open"
    /\ \E i \in Inodes :
        /\ IF tmp[oid[u]] = NoFile THEN Free(i) ELSE i = tmp[oid[u]]
        /\ tmp'  = [tmp EXCEPT ![oid[u]] = i]
        /\ data' = [data EXCEPT ![i] = << >>]
        /\ fd'   = [fd EXCEPT ![u] = i]
    /\ pc' = [pc EXCEPT ![u] = "copy"]
    /\ UNCHANGED <<path, oid, size, rest, sum, res, gets, limits>>

\* OpenFile with O_CREATE|O_EXCL: creates the name, or fails if it exists.
OpenTmp(u) ==
    /\ pc[u] = "open"
    /\ tmp[oid[u]] = NoFile
    /\ \E i \in Inodes :
        /\ Free(i)
        /\ tmp'  = [tmp EXCEPT ![oid[u]] = i]
        /\ data' = [data EXCEPT ![i] = << >>]
        /\ fd'   = [fd EXCEPT ![u] = i]
    /\ pc' = [pc EXCEPT ![u] = "copy"]
    /\ UNCHANGED <<path, oid, size, rest, sum, res, gets, limits>>

\* Mutant: somebody else is at work on the object, so all is well.
OpenFailOk(u) ==
    /\ pc[u] = "open"
    /\ \/ tmp[oid[u]] # NoFile /\ UNCHANGED limits
       \/ Fault
    /\ Return(u, "ok")
    /\ UNCHANGED <<disk, fd, gets>>

\* MkdirAll or OpenFile fails: Put returns before the Remove is deferred.
OpenFail(u) ==
    /\ pc[u] = "open"
    /\ \/ tmp[oid[u]] # NoFile /\ UNCHANGED limits
       \/ Fault
    /\ Return(u, "error")
    /\ UNCHANGED <<disk, fd, gets>>

\* Mutant: the file is given the object id in place of the chunk.
CopyChunkId(u) ==
    /\ pc[u] = "copy"
    /\ rest[u] # << >>
    /\ sum'  = [sum EXCEPT ![u] = Append(@, Head(rest[u]))]
    /\ data' = [data EXCEPT ![fd[u]] = Append(@, oid[u])]
    /\ rest' = [rest EXCEPT ![u] = Tail(@)]
    /\ UNCHANGED <<tmp, path, pc, oid, size, fd, res, gets, limits>>

\* One round of io.Copy: the chunk goes to the hash and to the open inode,
\* whatever name that inode has by now.
CopyChunk(u) ==
    /\ pc[u] = "copy"
    /\ rest[u] # << >>
    /\ sum'  = [sum EXCEPT ![u] = Append(@, Head(rest[u]))]
    /\ data' = [data EXCEPT ![fd[u]] = Append(@, Head(rest[u]))]
    /\ rest' = [rest EXCEPT ![u] = Tail(@)]
    /\ UNCHANGED <<tmp, path, pc, oid, size, fd, res, gets, limits>>

\* Mutant: the Remove is not deferred, an early return skips it.
CopyFailLeaves(u) ==
    /\ pc[u] = "copy"
    /\ Abort \/ Fault
    /\ Return(u, "error")
    /\ fd' = [fd EXCEPT ![u] = NoFile]
    /\ UNCHANGED <<disk, gets>>

\* The request body breaks off, or the write fails: close, return the error.
CopyFail(u) ==
    /\ pc[u] = "copy"
    /\ Abort \/ Fault
    /\ pc'  = [pc EXCEPT ![u] = "cleanup"]
    /\ res' = [res EXCEPT ![u] = "error"]
    /\ fd'  = [fd EXCEPT ![u] = NoFile]
    /\ UNCHANGED <<disk, oid, size, rest, sum, gets>>

\* Mutant: the hash is not compared.
MatchesSizeOnly(u) == Len(sum[u]) = size[u]

\* Size first, then hash, of what was read; not of what the name refers to.
Matches(u) ==
    /\ Len(sum[u]) = size[u]
    /\ Sha256(sum[u]) = oid[u]

\* End of the body: close the file and compare with the metadata.
Check(u) ==
    /\ pc[u] = "copy"
    /\ rest[u] = << >>
    /\ \/ /\ Matches(u)
          /\ pc' = [pc EXCEPT ![u] = "rename"]
          /\ UNCHANGED res
       \/ /\ ~Matches(u)
          /\ pc'  = [pc EXCEPT ![u] = "cleanup"]
          /\ res' = [res EXCEPT ![u] = "error"]
    /\ fd' = [fd EXCEPT ![u] = NoFile]
    /\ UNCHANGED <<disk, oid, size, rest, sum, gets, limits>>

\* os.Rename(tmpPath, path): moves whatever file has the name now.
Rename(u) ==
    /\ pc[u] = "rename"
    /\ tmp[oid[u]] # NoFile
    /\ path' = [path EXCEPT ![oid[u]] = tmp[oid[u]]]
    /\ tmp'  = [tmp EXCEPT ![oid[u]] = NoFile]
    /\ pc'   = [pc EXCEPT ![u] = "cleanup"]
    /\ res'  = [res EXCEPT ![u] = "ok"]
    /\ UNCHANGED <<data, oid, size, rest, sum, fd, gets, limits>>

\* Mutant: the error of Rename is dropped.
RenameFailIgnored(u) ==
    /\ pc[u] = "rename"
    /\ \/ tmp[oid[u]] = NoFile /\ UNCHANGED limits
       \/ Fault
    /\ pc'  = [pc EXCEPT ![u] = "cleanup"]
    /\ res' = [res EXCEPT ![u] = "ok"]
    /\ UNCHANGED <<disk, oid, size, rest, sum, fd, gets>>

\* The name is gone, or the call fails: the error is returned.
RenameFail(u) ==
    /\ pc[u] = "rename"
    /\ \/ tmp[oid[u]] = NoFile /\ UNCHANGED limits
       \/ Fault
    /\ pc'  = [pc EXCEPT ![u] = "cleanup"]
    /\ res' = [res EXCEPT ![u] = "error"]
    /\ UNCHANGED <<disk, oid, size, rest, sum, fd, gets>>

\* The deferred os.Remove(tmpPath) unlinks whatever has the name now; its
\* error (no such file, or a fault) is ignored.
Remove(u) ==
    /\ pc[u] = "cleanup"
    /\ \/ tmp' = [tmp EXCEPT ![oid[u]] = NoFile] /\ UNCHANGED limits
       \/ Fault /\ UNCHANGED tmp
    /\ Return(u, res[u])
    /\ UNCHANGED <<path, data, fd, gets>>

-----------------------------------------------------------------------------
(* Get                                                                     *)

\* os.Open of the final name: the file, or an error that becomes a 404.
GetOpen(r, o) ==
    /\ rpc[r] = "idle"
    /\ roid' = [roid EXCEPT ![r] = o]
    /\ sent' = [sent EXCEPT ![r] = << >>]
    /\ \/ /\ Present(o)
          /\ rpc'  = [rpc EXCEPT ![r] = "read"]
          /\ rfd'  = [rfd EXCEPT ![r] = path[o]]
          /\ rres' = [rres EXCEPT ![r] = "none"]
       \/ /\ ~Present(o)
          /\ rres' = [rres EXCEPT ![r] = "missing"]
          /\ UNCHANGED <<rpc, rfd>>
    /\ UNCHANGED <<disk, puts, limits>>

\* One round of io.Copy(w, content).
GetChunk(r) ==
    /\ rpc[r] = "read"
    /\ Len(sent[r]) < Len(data[rfd[r]])
    /\ sent' = [sent EXCEPT ![r] = Append(@, data[rfd[r]][Len(@) + 1])]
    /\ UNCHANGED <<disk, puts, rpc, roid, rfd, rres, limits>>

\* End of file, or the client goes away: the handler returns.
GetDone(r) ==
    /\ rpc[r] = "read"
    /\ rres' = [rres EXCEPT ![r] =
                  IF Len(sent[r]) >= Len(data[rfd[r]]) THEN "found" ELSE "none"]
    /\ rpc'  = [rpc EXCEPT ![r] = "idle"]
    /\ rfd'  = [rfd EXCEPT ![r] = NoFile]
    /\ UNCHANGED <<disk, puts, roid, sent, limits>>

-----------------------------------------------------------------------------
(* The process exits with requests in progress and is started again:       *)
(* NewContentStore only makes the base directory, the disk stays as it is. *)
Crash ==
    /\ crashes < MaxCrashes
    /\ crashes' = crashes + 1
    /\ pc'   = [u \in Uploads |-> "idle"]
    /\ res'  = [u \in Uploads |-> IF pc[u] = "idle" THEN res[u] ELSE "none"]
    /\ rest' = [u \in Uploads |-> << >>]
    /\ sum'  = [u \in Uploads |-> << >>]
    /\ size' = [u \in Uploads |-> 0]
    /\ fd'   = [u \in Uploads |-> NoFile]
    /\ rpc'  = [r \in Downloads |-> "idle"]
    /\ rfd'  = [r \in Downloads |-> NoFile]
    /\ UNCHANGED <<disk, oid, roid, sent, rres, aborts, faults>>

\* The steps of an upload that need nobody else.
PutStep(u) ==
    \/ OpenTmp(u) \/ OpenFail(u)
    \/ CopyChunk(u) \/ CopyFail(u) \/ Check(u)
    \/ Rename(u) \/ RenameFail(u) \/ Remove(u)

StartSome(u) ==
    \E o \in Oids, s \in Sizes, b \in Bodies : Start(u, o, s, b)

GetStep(r) == GetChunk(r) \/ GetDone(r) \/ \E o \in Oids : GetOpen(r, o)

Next ==
    \/ \E u \in Uploads : StartSome(u) \/ PutStep(u)
    \/ \E r \in Downloads : GetStep(r)
    \/ Crash

Spec == Init /\ [][Next]_vars

-----------------------------------------------------------------------------
(* The window.  After Rename, Put still has to run its deferred Remove.    *)
(* An upload of the same object that creates <oid>.tmp in that window has  *)
(* its file unlinked under it.  CalmSpec has the behaviours in which this  *)
(* does not happen.                                                        *)

InWindow(u) == pc[u] = "cleanup" /\ res[u] = "ok"

OpensTmp(u) == pc[u] = "open" /\ pc'[u] = "copy"

Calm ==
    \A u, v \in Uploads : OpensTmp(u) /\ InWindow(v) => oid[v] # oid[u]

CalmNext == Next /\ Calm

CalmSpec == Init /\ [][CalmNext]_vars

\* Goroutines that have not failed keep running, clients keep sending and
\* a client whose upload failed tries again.
FairSpec ==
    /\ Spec
    /\ \A u \in Uploads : WF_vars(StartSome(u)) /\ WF_vars(PutStep(u))

-----------------------------------------------------------------------------
(* Properties                                                              *)

\* Type correctness of the disk and the requests at work on it.
TypeOK ==
    /\ tmp  \in [Oids -> Inodes \cup {NoFile}]
    /\ path \in [Oids -> Inodes \cup {NoFile}]
    /\ data \in [Inodes -> Seq(Chunks)]
    /\ pc   \in [Uploads -> {"idle", "open", "copy", "rename", "cleanup"}]
    /\ oid  \in [Uploads -> Oids]
    /\ size \in [Uploads -> Int]
    /\ rest \in [Uploads -> Seq(Chunks)]
    /\ sum  \in [Uploads -> Seq(Chunks)]
    /\ fd   \in [Uploads -> Inodes \cup {NoFile}]
    /\ res  \in [Uploads -> {"none", "ok", "error"}]
    /\ rpc  \in [Downloads -> {"idle", "read"}]
    /\ roid \in [Downloads -> Oids]
    /\ rfd  \in [Downloads -> Inodes \cup {NoFile}]
    /\ sent \in [Downloads -> Seq(Chunks)]
    /\ rres \in [Downloads -> {"none", "found", "missing"}]
    /\ aborts \in 0 .. MaxAborts
    /\ faults \in 0 .. MaxFaults
    /\ crashes \in 0 .. MaxCrashes

\* What the store publishes under an object id has that id as its hash:
\* bogus, truncated or half written content never reaches the final name.
PublishedValid == \A o \in Oids : Present(o) => Sha256(data[path[o]]) = o

\* No goroutine writes to an inode that has the final name of an object.
PublishedFrozen ==
    [][\A o \in Oids : Present(o) => data'[path[o]] = data[path[o]]]_vars

\* A download that ran to the end of the file delivered the object asked
\* for, whatever uploads of it came and went meanwhile.
DownloadValid ==
    \A r \in Downloads : rres[r] = "found" => Sha256(sent[r]) = roid[r]

\* Put has its .tmp file to itself from OpenFile to Remove.
TmpExclusive ==
    \A u, v \in Uploads :
        /\ pc[u] \in {"copy", "rename", "cleanup"}
        /\ pc[v] \in {"copy", "rename", "cleanup"}
        /\ oid[u] = oid[v]
        => u = v

\* A client that was told its upload succeeded will find the object, also
\* after a restart and after other uploads of it.
AckedStored == \A u \in Uploads : res[u] = "ok" => Present(oid[u])

\* Without crashes and disk faults every .tmp file has an upload at work
\* that will remove it: no failed upload leaves one behind.
OrphanFree ==
    crashes = 0 /\ faults = 0 =>
        \A o \in Oids : tmp[o] # NoFile =>
            \E u \in Uploads : oid[u] = o /\ pc[u] \in {"copy", "rename", "cleanup"}

\* A .tmp file that no Put will remove or rename.
Stale(o) ==
    /\ tmp[o] # NoFile
    /\ \A u \in Uploads : oid[u] = o => pc[u] \notin {"copy", "rename", "cleanup"}

\* If clients keep uploading an object it ends up in the store, unless a restart
\* leaves a .tmp file; then that file stays for ever.
StoredUnlessStale ==
    \A o \in Oids : <>Present(o) \/ <>[](crashes > 0 /\ Stale(o))

-----------------------------------------------------------------------------
(* The inductive invariant of CalmSpec.                                    *)

\* What each upload may assume of its .tmp file.
UploadInv ==
    \A u \in Uploads :
        /\ pc[u] = "copy" => /\ fd[u] # NoFile
                             /\ fd[u] = tmp[oid[u]]
                             /\ data[fd[u]] = sum[u]
        /\ pc[u] # "copy" => fd[u] = NoFile
        /\ pc[u] = "rename" => /\ tmp[oid[u]] # NoFile
                               /\ data[tmp[oid[u]]] = sum[u]
                               /\ Matches(u)
        /\ pc[u] = "cleanup" => res[u] # "none"
        /\ pc[u] = "cleanup" /\ res[u] = "error" => tmp[oid[u]] # NoFile
        /\ pc[u] \in {"open", "copy", "rename"} => res[u] = "none"
        /\ pc[u] \in {"idle", "open"} => sum[u] = << >>

\* A .tmp file shares its inode with no other name and with no download.
TmpPrivate ==
    \A o \in Oids : tmp[o] # NoFile =>
        /\ \A p \in Oids : path[p] # tmp[o] /\ (tmp[p] = tmp[o] => p = o)
        /\ \A r \in Downloads : rfd[r] # tmp[o]

\* What a download in progress has sent is a prefix of a valid object.
DownloadInv ==
    \A r \in Downloads :
        /\ rpc[r] = "idle" => rfd[r] = NoFile
        /\ rpc[r] = "read" =>
            /\ rfd[r] # NoFile
            /\ rres[r] = "none"
            /\ Sha256(data[rfd[r]]) = roid[r]
            /\ Len(sent[r]) <= Len(data[rfd[r]])
            /\ \A k \in 1 .. Len(sent[r]) : sent[r][k] = data[rfd[r]][k]

IInv ==
    /\ TypeOK
    /\ TmpExclusive
    /\ UploadInv
    /\ TmpPrivate
    /\ PublishedValid
    /\ DownloadInv
    /\ DownloadValid
    /\ AckedStored

-----------------------------------------------------------------------------
(* Refinement: seen through the final names, CalmSpec is a VerifiedStore.  *)

blobBar ==
    [o \in Oids |-> IF Present(o) THEN data[path[o]] ELSE NoFile]

stateBar ==
    [u \in Uploads |-> IF pc[u] = "idle" THEN "idle"
                      ELSE IF InWindow(u) THEN "stored" ELSE "busy"]

replyBar ==
    [u \in Uploads |-> IF pc[u] = "idle" THEN res[u] ELSE "none"]

streamBar ==
    [r \in Downloads |-> IF rpc[r] = "read" THEN data[rfd[r]] ELSE NoFile]

VS == INSTANCE VerifiedStore WITH
    Absent <- NoFile, Lossy <- FALSE, late <- [u \in Uploads |-> NoFile], blob <- blobBar, state <- stateBar,
    reply <- replyBar, stream <- streamBar

\* Put takes effect in one step, its Rename: the system calls before and
\* after it are invisible to the other requests.
Refines == VS!Spec

=============================================================================
