--------------------------- MODULE AwsContentStore ---------------------------
(***************************************************************************)
(* The Amazon S3 content store (aws_content_store.go) and the requests that *)
(* use it: POST, which asks Exists, PUT and GET.                            *)
(*                                                                         *)
(* Put reads the whole body into memory, checks it, sends it with one       *)
(* PutReader and asks for the key with one GetKey.  Each of the two is a    *)
(* call over the network that can fail on its way to the bucket or on its   *)
(* way back, so its error says nothing of what the bucket holds, and a      *)
(* write that was given up may still arrive.                                *)
(*                                                                         *)
(* Honest clients announce an object with POST, upload it if they are told  *)
(* so, and begin again if the upload fails.  The others send what they like.*)
(***************************************************************************)
EXTENDS Integers, Sequences

CONSTANTS
    Uploads,      \* clients that announce and upload objects
    Honest,       \* those that keep to the protocol until they succeed
    Downloads,    \* goroutines that serve GET requests
    Oids,         \* object ids
    Chunks,
    Bodies,       \* request bodies that clients send: sequences of chunks
    Sizes,        \* values of MetaObject.Size (declared by a client)
    Sha256(_),    \* the hash of a sequence of chunks, in hexadecimal
    Absent,       \* no key in the bucket, no write under way, no stream
    MaxAborts,    \* bound: client connections that break during a PUT
    MaxFaults,    \* bound: calls to S3 that fail
    MaxCrashes    \* bound: exits of the process with requests in progress

\* What ReadAll may return: a body or the part of it that arrived.
Received == UNION {{SubSeq(b, 1, n) : n \in 0 .. Len(b)} : b \in Bodies}

ASSUME HonestAssumption == Honest \subseteq Uploads
ASSUME BodiesAssumption == Bodies \subseteq Seq(Chunks)
ASSUME HashAssumption   == \* SHA-256 has no known collisions
    \A b, c \in Received : Sha256(b) \in Oids /\ Sha256(b) = Sha256(c) => b = c
ASSUME SizesAssumption  == Sizes \subseteq Int
ASSUME AbsentAssumption ==
    /\ Absent \notin Seq(Chunks)
    /\ Absent \notin [oid : Oids, body : Seq(Chunks)]
ASSUME BoundsAssumption ==
    MaxAborts \in Nat /\ MaxFaults \in Nat /\ MaxCrashes \in Nat

VARIABLES
    bucket,    \* bucket[o]: the bytes under the key of o, or Absent
    late,      \* late[u]: a PutReader of u that failed here and may still
               \* arrive there, or Absent
    \* one client and its requests per upload
    pc,        \* next step of Post or Put
    oid,       \* meta.Oid
    size,      \* meta.Size
    buf,       \* the request body; from the check on what ReadAll returned
    stat,      \* retStat of PutReader: "ok", or an error, called "stored"
               \* where the key was written all the same
    res,       \* what PUT last told the client
    told,      \* told[u][o]: what POST last told it of o, "unknown" if
               \* it has not asked since it began its last PUT of o
    \* one GET per download goroutine
    stream,    \* the content GetReader streams, or Absent
    \* bounded faults
    aborts, faults, crashes

s3     == <<bucket, late>>
puts   == <<pc, oid, size, buf, stat, res>>
limits == <<aborts, faults, crashes>>
vars   == <<s3, puts, told, stream, limits>>

\* NewAwsContentStore makes sure that the bucket exists.
Init ==
    /\ bucket = [o \in Oids |-> Absent]
    /\ late   = [u \in Uploads |-> Absent]
    /\ pc     = [u \in Uploads |-> "idle"]
    /\ oid    \in [Uploads -> Oids]
    /\ size   = [u \in Uploads |-> 0]
    /\ buf    = [u \in Uploads |-> << >>]
    /\ stat   = [u \in Uploads |-> "none"]
    /\ res    = [u \in Uploads |-> "none"]
    /\ told   = [u \in Uploads |-> [o \in Oids |-> "unknown"]]
    /\ stream = [r \in Downloads |-> Absent]
    /\ aborts = 0 /\ faults = 0 /\ crashes = 0

HasKey(o) == bucket[o] # Absent

Fault == faults < MaxFaults /\ faults' = faults + 1 /\ UNCHANGED <<aborts, crashes>>
Abort == aborts < MaxAborts /\ aborts' = aborts + 1 /\ UNCHANGED <<faults, crashes>>

-----------------------------------------------------------------------------
(* Exists and Put                                                          *)

\* Mutant: Exists looks for a 404 and takes other errors for a key.
ExistsAssumed(u, o) ==
    /\ pc[u] = "idle"
    /\ \/ told' = [told EXCEPT ![u][o] = IF HasKey(o) THEN "there" ELSE "absent"]
          /\ UNCHANGED limits
       \/ told' = [told EXCEPT ![u][o] = "there"] /\ Fault
    /\ UNCHANGED <<s3, puts, stream>>

\* PostHandler asks Exists: one GetKey, and any error means no.
Exists(u, o) ==
    /\ pc[u] = "idle"
    /\ \/ told' = [told EXCEPT ![u][o] = IF HasKey(o) THEN "there" ELSE "absent"]
          /\ UNCHANGED limits
       \/ told' = [told EXCEPT ![u][o] = "absent"] /\ Fault
    /\ UNCHANGED <<s3, puts, stream>>

\* PutHandler calls Put with the metadata it has read and the request body.
Start(u, o, s, b) ==
    /\ pc[u] = "idle"
    /\ pc'   = [pc EXCEPT ![u] = "read"]
    /\ oid'  = [oid EXCEPT ![u] = o]
    /\ size' = [size EXCEPT ![u] = s]
    /\ buf'  = [buf EXCEPT ![u] = b]
    /\ res'  = [res EXCEPT ![u] = "none"]
    /\ told' = [told EXCEPT ![u][o] = "unknown"]
    /\ UNCHANGED <<s3, stat, stream, limits>>

\* Put returns: its locals are gone, the client learns r.
Return(u, r) ==
    /\ pc'   = [pc EXCEPT ![u] = "idle"]
    /\ res'  = [res EXCEPT ![u] = r]
    /\ size' = [size EXCEPT ![u] = 0]
    /\ buf'  = [buf EXCEPT ![u] = << >>]
    /\ stat' = [stat EXCEPT ![u] = "none"]
    /\ UNCHANGED oid

\* ReadAll of the body; if the connection breaks it returns what came before,
\* and the error is dropped.
ReadAll(u) ==
    /\ pc[u] = "read"
    /\ \/ UNCHANGED <<buf, limits>>
       \/ \E n \in 0 .. Len(buf[u]) : buf' = [buf EXCEPT ![u] = SubSeq(@, 1, n)] /\ Abort
    /\ pc' = [pc EXCEPT ![u] = "check"]
    /\ UNCHANGED <<s3, oid, size, stat, res, told, stream>>

\* Mutant: the hash is not compared.
MatchesSizeOnly(u) == Len(buf[u]) = size[u]

\* Mutant: the last byte is missed.
MatchesShort(u) ==
    /\ Len(buf[u]) < size[u]
    /\ Sha256(buf[u]) = oid[u]

\* Size first, then hash, of what was read.
Matches(u) ==
    /\ Len(buf[u]) = size[u]
    /\ Sha256(buf[u]) = oid[u]

Check(u) ==
    /\ pc[u] = "check"
    /\ \/ /\ Matches(u)
          /\ pc' = [pc EXCEPT ![u] = "put"]
          /\ UNCHANGED <<oid, size, buf, stat, res>>
       \/ ~Matches(u) /\ Return(u, "error")
    /\ UNCHANGED <<s3, told, stream, limits>>

\* Mutant: the key is written with its own name for content.
StoredName(u) == bucket' = [bucket EXCEPT ![oid[u]] = oid[u]]

Stored(u) == bucket' = [bucket EXCEPT ![oid[u]] = buf[u]]

\* PutReader: the key is written and S3 says so; or the call fails before or
\* after the key is written, or with the write still under way.  The result
\* is kept and not looked at.
PutReader(u) ==
    /\ pc[u] = "put"
    /\ pc' = [pc EXCEPT ![u] = "head"]
    /\ \/ /\ Stored(u)
          /\ stat' = [stat EXCEPT ![u] = "ok"]
          /\ UNCHANGED <<late, limits>>
       \/ /\ Fault
          /\ \/ /\ stat' = [stat EXCEPT ![u] = "stored"]
                /\ Stored(u)
                /\ UNCHANGED late
             \/ /\ stat' = [stat EXCEPT ![u] = "error"]
                /\ late' \in {late, [late EXCEPT ![u] = [oid |-> oid[u], body |-> buf[u]]]}
                /\ UNCHANGED bucket
    /\ UNCHANGED <<oid, size, buf, res, told, stream>>

\* Mutant: a key that is there is enough.
GetKeyTrusting(u) ==
    /\ pc[u] = "head"
    /\ \/ HasKey(oid[u]) /\ Return(u, "ok") /\ UNCHANGED limits
       \/ ~HasKey(oid[u]) /\ Return(u, "error") /\ UNCHANGED limits
       \/ Fault /\ Return(u, "error")
    /\ UNCHANGED <<s3, told, stream>>

\* GetKey: no key or no answer is errWriteS3, another size is
\* errSizeMismatch, otherwise PutReader's result decides.
GetKey(u) ==
    /\ pc[u] = "head"
    /\ \/ /\ HasKey(oid[u])
          /\ Return(u, IF Len(bucket[oid[u]]) = size[u] /\ stat[u] = "ok"
                       THEN "ok" ELSE "error")
          /\ UNCHANGED limits
       \/ ~HasKey(oid[u]) /\ Return(u, "error") /\ UNCHANGED limits
       \/ Fault /\ Return(u, "error")
    /\ UNCHANGED <<s3, told, stream>>

-----------------------------------------------------------------------------
(* S3, Get and the process                                                 *)

\* A write that was given up arrives after all, or is lost (external).
Land(u) ==
    /\ late[u] # Absent
    /\ late' = [late EXCEPT ![u] = Absent]
    /\ \/ bucket' = [bucket EXCEPT ![late[u].oid] = late[u].body]
       \/ UNCHANGED bucket
    /\ UNCHANGED <<puts, told, stream, limits>>

\* GetReader: the stream of the content, or an error that becomes a 404.
Get(r, o) ==
    /\ stream[r] = Absent
    /\ HasKey(o)
    /\ stream' = [stream EXCEPT ![r] = bucket[o]]
    /\ UNCHANGED <<s3, puts, told, limits>>

\* The stream has ended or breaks: the handler returns.
GetDone(r) ==
    /\ stream[r] # Absent
    /\ stream' = [stream EXCEPT ![r] = Absent]
    /\ UNCHANGED <<s3, puts, told, limits>>

\* The process exits and is started again.  What is in the bucket or on its
\* way there is not touched.
Crash ==
    /\ crashes < MaxCrashes
    /\ crashes' = crashes + 1
    /\ pc'   = [u \in Uploads |-> "idle"]
    /\ res'  = [u \in Uploads |-> IF pc[u] = "idle" THEN res[u] ELSE "none"]
    /\ size' = [u \in Uploads |-> 0]
    /\ buf'  = [u \in Uploads |-> << >>]
    /\ stat' = [u \in Uploads |-> "none"]
    /\ stream' = [r \in Downloads |-> Absent]
    /\ UNCHANGED <<s3, oid, told, aborts, faults>>

PutStep(u) == ReadAll(u) \/ Check(u) \/ PutReader(u) \/ GetKey(u)

Acked(u, o) == told[u][o] = "there" \/ (res[u] = "ok" /\ oid[u] = o)

\* An honest client asks for an object until it is told that it is stored,
\* and when it is told to upload it sends what the object is.
Announce(u) ==
    \E o \in Oids : told[u][o] = "unknown" /\ ~Acked(u, o) /\ Exists(u, o)

Upload(u) ==
    \E o \in Oids, s \in Sizes, b \in Bodies :
        /\ told[u][o] = "absent"
        /\ Len(b) = s /\ Sha256(b) = o
        /\ Start(u, o, s, b)

\* Any other client.
Request(u) ==
    \E o \in Oids :
        Exists(u, o) \/ \E s \in Sizes, b \in Bodies : Start(u, o, s, b)

Next ==
    \/ \E u \in Honest : Announce(u) \/ Upload(u)
    \/ \E u \in Uploads \ Honest : Request(u)
    \/ \E u \in Uploads : PutStep(u) \/ Land(u)
    \/ \E r \in Downloads : GetDone(r) \/ \E o \in Oids : Get(r, o)
    \/ Crash

Spec == Init /\ [][Next]_vars

\* Honest clients and the requests they have made go on; nothing is assumed
\* of the others, nor that a write that was given up arrives.
FairSpec ==
    /\ Spec
    /\ \A u \in Honest :
        WF_vars(Announce(u)) /\ WF_vars(Upload(u)) /\ WF_vars(PutStep(u))

-----------------------------------------------------------------------------
(* Properties                                                              *)

\* Type correctness of the bucket and of the requests at work on it.
TypeOK ==
    /\ bucket \in [Oids -> Received \cup {Absent}]
    /\ late \in [Uploads -> [oid : Oids, body : Received] \cup {Absent}]
    /\ pc   \in [Uploads -> {"idle", "read", "check", "put", "head"}]
    /\ oid  \in [Uploads -> Oids]
    /\ size \in [Uploads -> Int]
    /\ buf  \in [Uploads -> Received \cup {<< >>}]
    /\ stat \in [Uploads -> {"none", "ok", "stored", "error"}]
    /\ res  \in [Uploads -> {"none", "ok", "error"}]
    /\ told \in [Uploads -> [Oids -> {"unknown", "there", "absent"}]]
    /\ stream \in [Downloads -> Received \cup {Absent}]
    /\ aborts \in 0 .. MaxAborts
    /\ faults \in 0 .. MaxFaults
    /\ crashes \in 0 .. MaxCrashes

\* What POST and PUT have told a client is stored is stored, whatever fails
\* between the server and S3 and whatever other uploads do.
AckedStored == \A u \in Uploads, o \in Oids : Acked(u, o) => HasKey(o)

\* The content of an object never changes once it is there, although every
\* upload writes the key again and writes that were given up arrive late.
BucketStable ==
    [][\A o \in Oids : HasKey(o) => bucket'[o] = bucket[o]]_vars

\* A client that keeps to the protocol is told in the end that its object is
\* stored, through errors of S3, broken connections, restarts and whatever
\* others upload.
EventuallyAcked == \A u \in Honest : \A o \in Oids : <>Acked(u, o)

-----------------------------------------------------------------------------
(* The inductive invariant.                                                *)

Valid(o, b) == b \in Received /\ Sha256(b) = o

\* Content on its way to the bucket and in it has been checked.
CheckedInv ==
    /\ \A o \in Oids : HasKey(o) => Valid(o, bucket[o])
    /\ \A u \in Uploads :
        /\ late[u] # Absent => Valid(late[u].oid, late[u].body)
        /\ pc[u] = "read" => buf[u] \in Bodies
        /\ pc[u] \in {"check", "put", "head"} => buf[u] \in Received
        /\ pc[u] \in {"put", "head"} => Matches(u)

\* The mismatch of sizes that Put looks for after its write never happens:
\* a write is reported as failed only if a call to S3 has failed.
KeySizeMatches ==
    \A u \in Uploads :
        pc[u] = "head" /\ HasKey(oid[u]) => Len(bucket[oid[u]]) = size[u]

StatInv ==
    \A u \in Uploads :
        /\ pc[u] = "head" /\ stat[u] \in {"ok", "stored"} => HasKey(oid[u])
        /\ pc[u] # "idle" => res[u] = "none"

IInv == TypeOK /\ CheckedInv /\ StatInv /\ AckedStored

-----------------------------------------------------------------------------
(* Refinement: a store behind a network is a Lossy VerifiedStore.          *)

stateBar ==
    [u \in Uploads |->
        CASE pc[u] = "idle" -> "idle"
          [] pc[u] = "head" /\ stat[u] \in {"ok", "stored"} -> "stored"
          [] OTHER -> "busy"]

replyBar == [u \in Uploads |-> IF pc[u] = "idle" THEN res[u] ELSE "none"]

VS == INSTANCE VerifiedStore WITH
    Lossy <- TRUE, blob <- bucket, state <- stateBar, reply <- replyBar

\* Put takes effect in its PutReader, at once or later, or not at all, and
\* says so only if it has.
Refines == VS!Spec

=============================================================================
