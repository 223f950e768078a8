----------------------------- MODULE LfsServer ------------------------------
(***************************************************************************)
(* The handlers of server.go over a meta store and a content store.        *)
(*                                                                         *)
(* Each client has at most one request in progress, served by a goroutine  *)
(* of its own; the stores are shared.  A call of a store is one step, with *)
(* one exception: Put of the meta store authenticates, calls Get, which    *)
(* authenticates again and looks the object up, and then writes it.  Any   *)
(* call may fail (BoltMetaStore, CassandraMetaStore and MySQLMetaStore     *)
(* have the detail).  The content store is the one VerifiedStore           *)
(* describes: an upload takes effect in one step, and behind a network     *)
(* also where it is reported as failed, or later.                          *)
(***************************************************************************)
EXTENDS Naturals, Sequences

CONSTANTS
    Clients,
    Strangers,    \* clients whose credentials are never valid
    Oids,         \* object ids that are hashes of some content
    TrueSize,     \* the size of that content
    Sizes,        \* sizes that clients declare
    Posts,        \* the objects of the POST requests considered
    Lists,        \* the objects of the batch requests considered
    None,         \* no metadata
    Public,       \* Config.IsPublic()
    Lossy,        \* TRUE if the content store is behind a network
    Api,          \* how git-lfs clients announce objects: "post" or "batch"
    MaxAborts,    \* bound: uploads that break off, store calls that fail
                  \* (a Put for a project that MySQL does not know fails)
    MaxLapses,    \* bound: changes of who may log in
    MaxCrashes    \* bound: restarts of the process

\* A body that does not parse leaves the zero values of RequestVars.
Objects == [oid : Oids \cup {""}, size : Sizes \cup {0}]
Garbled == [oid |-> "", size |-> 0]

\* A Representation: the links are the keys of _links.
Links           == SUBSET {"download", "upload"}
Representations == [oid : Oids, size : Sizes \cup {0}, links : Links]

ASSUME NamesAssumption  == "" \notin Oids /\ Strangers \subseteq Clients
ASSUME SizesAssumption  == Sizes \subseteq Nat /\ TrueSize \in [Oids -> Nat]
ASSUME ListsAssumption  == Posts \subseteq Objects /\ Lists \subseteq Seq(Objects)
ASSUME NoneAssumption   == None \notin Nat
ASSUME ModeAssumption   == Public \in BOOLEAN /\ Lossy \in BOOLEAN
ASSUME ApiAssumption    == Api \in {"post", "batch"}
ASSUME BoundsAssumption ==
    MaxAborts \in Nat /\ MaxLapses \in Nat /\ MaxCrashes \in Nat

VARIABLES
    meta,      \* meta[o]: the size on record for o, or None
    stored,    \* stored[o]: whether the content store has o
    late,      \* the objects of which a write is under way whose answer
               \* nobody waits for any more
    access,    \* access[c]: whether the credentials of c are valid now
    \* one request per client
    handler,   \* the handler that serves it
    stage,     \* the store call it does next
    req,       \* its method; whether RequestVars carry the Authorization of
               \* the client; whether a PUT has the content of the object
    todo,      \* the objects it has still to look at
    snap,      \* meta.Size, as the meta store returned it
    done,      \* responseObjects
    reply,     \* what the client was last told
    aborts, lapses, crashes,
    calm       \* history: every step so far was calm (see Calm)

contents == <<stored, late>>
stores   == <<meta, contents>>
locals   == <<handler, stage, req, todo, snap, done>>
limits   == <<aborts, lapses, crashes>>
vars     == <<stores, access, locals, reply, limits, calm>>

NoRequest == [method |-> "none", signed |-> FALSE, good |-> FALSE]
NoReply   == [to |-> "none", oid |-> "", status |-> 0, objects |-> << >>]
NotFound  == [to |-> "none", oid |-> "", status |-> 404, objects |-> << >>]

Init ==
    /\ meta    = [o \in Oids |-> None]
    /\ stored  = [o \in Oids |-> FALSE]
    /\ late    = {}
    /\ access  = [c \in Clients |-> c \notin Strangers]
    /\ handler = [c \in Clients |-> "none"]
    /\ stage   = [c \in Clients |-> "idle"]
    /\ req     = [c \in Clients |-> NoRequest]
    /\ todo    = [c \in Clients |-> << >>]
    /\ snap    = [c \in Clients |-> 0]
    /\ done    = [c \in Clients |-> << >>]
    /\ reply   = [c \in Clients |-> NoReply]
    /\ aborts = 0 /\ lapses = 0 /\ crashes = 0
    /\ calm = TRUE

-----------------------------------------------------------------------------
(* Routing                                                                 *)

Methods == {"GET", "HEAD", "PUT", "POST"}
Paths   == {"batch", "object", "objects", "search"}
Accepts == {"meta", "content", "other"}

\* The routes in the order NewApp registers them.
Routes == <<
    [path |-> "batch",   methods |-> {"POST"},        accept |-> {"meta"},    to |-> "batch"],
    [path |-> "object",  methods |-> {"GET", "HEAD"}, accept |-> {"content"}, to |-> "content"],
    [path |-> "object",  methods |-> {"GET", "HEAD"}, accept |-> {"meta"},    to |-> "meta"],
    [path |-> "search",  methods |-> {"GET"},
     accept |-> {"meta", "content", "other"}, to |-> "search"],
    [path |-> "object",  methods |-> {"PUT"},         accept |-> {"content"}, to |-> "put"],
    [path |-> "objects", methods |-> {"POST"},        accept |-> {"meta"},    to |-> "post"] >>

\* The routes that match.  The path of a batch is also the path of an object
\* that is called "batch".
Matching(m, p, a) ==
    {i \in 1 .. 6 :
        /\ Routes[i].path = p \/ (Routes[i].path = "object" /\ p = "batch")
        /\ m \in Routes[i].methods /\ a \in Routes[i].accept}

\* The first one wins.
Route(m, p, a) ==
    LET is == Matching(m, p, a) IN
        IF is = {} THEN "none"
        ELSE Routes[CHOOSE i \in is : \A j \in is : i <= j].to

\* The RequestVars of a request: unpack takes the object from the body of a
\* POST and from the path otherwise, unpackbatch a list from the body.
Unpacked(h, p) ==
    IF h = "batch" THEN Lists
    ELSE IF h = "post" THEN {<<x>> : x \in Posts}
    ELSE IF p = "batch" THEN {<<Garbled>>}
    ELSE {<<[oid |-> o, size |-> 0]>> : o \in Oids}

\* The requests that reach a handler, as it sees them; good is about the
\* body of a PUT.
Routed(m, p, a) ==
    LET h == Route(m, p, a) IN
        IF h = "none" THEN {}
        ELSE [to : {h}, method : {m}, objects : Unpacked(h, p), signed : BOOLEAN,
              good : IF m = "PUT" THEN BOOLEAN ELSE {FALSE}]

Messages == UNION {Routed(m, p, a) : m \in Methods, p \in Paths, a \in Accepts}

-----------------------------------------------------------------------------
(* Helpers                                                                 *)

\* Mutant: credentials are read and not checked.
AuthHeaderOnly(c) == Public \/ req[c].signed

\* authenticate of the meta store.
Auth(c) == Public \/ (req[c].signed /\ access[c])

Object(c) == Head(todo[c])

\* The object on record, None also for a name that is no hash.
Lookup(o) == IF o \in Oids THEN meta[o] ELSE None

\* metaStore.Get succeeds.
Found(c) == Auth(c) /\ Lookup(Object(c).oid) # None

Represent(o, s, links) == [oid |-> o, size |-> s, links |-> links]

\* The request is over.
Finish(c) ==
    /\ handler' = [handler EXCEPT ![c] = "none"]
    /\ stage'   = [stage EXCEPT ![c] = "idle"]
    /\ req'     = [req EXCEPT ![c] = NoRequest]
    /\ todo'    = [todo EXCEPT ![c] = << >>]
    /\ snap'    = [snap EXCEPT ![c] = 0]
    /\ done'    = [done EXCEPT ![c] = << >>]

\* The handler writes its response and returns.
Answer(c, status, objs) ==
    /\ reply' = [reply EXCEPT ![c] =
                    [to |-> handler[c], status |-> status, objects |-> objs,
                     oid |-> IF todo[c] = << >> THEN "" ELSE Object(c).oid]]
    /\ Finish(c)

\* perror panics, and net/http ends the request without an answer.
Panic(c) == Finish(c) /\ UNCHANGED reply

Goto(c, s) ==
    /\ stage' = [stage EXCEPT ![c] = s]
    /\ UNCHANGED <<handler, req, todo, done, reply>>

\* An upload breaks off, or a call of a store fails.
Fault == aborts < MaxAborts /\ aborts' = aborts + 1 /\ UNCHANGED <<lapses, crashes>>

\* The error branch after metaStore.Get: requireAuth, or 404, which is also
\* said of an object on record that cannot be read.
Denied(c) ==
    \/ ~Found(c) /\ Answer(c, IF Auth(c) THEN 404 ELSE 401, << >>) /\ UNCHANGED limits
    \/ Found(c) /\ Fault /\ Answer(c, 404, << >>)

\* Mutant: responseObjects has the last object alone.
NextObjectAlone(c, objs) ==
    /\ done'  = [done EXCEPT ![c] = objs]
    /\ todo'  = [todo EXCEPT ![c] = Tail(@)]
    /\ stage' = [stage EXCEPT ![c] = "get"]
    /\ UNCHANGED <<handler, req, snap, reply>>

\* BatchHandler appends to responseObjects and turns to the next object.
NextObject(c, objs) ==
    /\ done'  = [done EXCEPT ![c] = @ \o objs]
    /\ todo'  = [todo EXCEPT ![c] = Tail(@)]
    /\ stage' = [stage EXCEPT ![c] = "get"]
    /\ UNCHANGED <<handler, req, snap, reply>>

At(c, h, s) == handler[c] = h /\ stage[c] = s

-----------------------------------------------------------------------------
(* Requests                                                                *)

\* Message x arrives.  Objects of a batch whose JSON breaks off halfway are
\* served without the Authorization of the request.
Arrive(c, x) ==
    /\ stage[c] = "idle"
    /\ handler' = [handler EXCEPT ![c] = x.to]
    /\ stage'   = [stage EXCEPT ![c] = IF x.to = "post" THEN "put" ELSE "get"]
    /\ req'     = [req EXCEPT ![c] =
                    [method |-> x.method, signed |-> x.signed, good |-> x.good]]
    /\ todo'    = [todo EXCEPT ![c] = x.objects]
    /\ reply'   = [reply EXCEPT ![c] = NoReply]
    /\ UNCHANGED <<stores, access, snap, done, limits>>

\* The router answers 404 where no route matches.
NotRouted(c) ==
    /\ stage[c] = "idle"
    /\ reply' = [reply EXCEPT ![c] = NotFound]
    /\ UNCHANGED <<stores, access, locals, limits>>

-----------------------------------------------------------------------------
(* Handlers without side effects                                           *)

GetContentHandler(c) ==
    /\ At(c, "content", "get")
    /\ \/ Denied(c)
       \/ /\ Found(c) /\ Goto(c, "content") /\ UNCHANGED limits
          /\ snap' = [snap EXCEPT ![c] = Lookup(Object(c).oid)]
    /\ UNCHANGED <<stores, access>>

\* contentStore.Get and io.Copy, of what was stored when it was opened; any
\* error of Get is a 404.
SendContent(c) ==
    /\ At(c, "content", "content")
    /\ \/ /\ Answer(c, IF stored[Object(c).oid] THEN 200 ELSE 404, << >>)
          /\ UNCHANGED limits
       \/ Fault /\ Answer(c, 404, << >>)
    /\ UNCHANGED <<stores, access>>

GetSearchHandler(c) ==
    /\ At(c, "search", "get")
    /\ Denied(c) \/ (Found(c) /\ Answer(c, 200, << >>) /\ UNCHANGED limits)
    /\ UNCHANGED <<stores, access>>

\* Only a GET has a body in its answer.
GetMetaHandler(c) ==
    /\ At(c, "meta", "get")
    /\ LET o == Object(c).oid IN
        \/ Denied(c)
        \/ /\ Found(c) /\ UNCHANGED limits
           /\ Answer(c, 200, IF req[c].method = "GET"
                             THEN <<Represent(o, Lookup(o), {"download"})>> ELSE << >>)
    /\ UNCHANGED <<stores, access>>

-----------------------------------------------------------------------------
(* PutHandler                                                              *)

\* Mutant: an upload without metadata is let through.
PutHandlerUndeclared(c) ==
    /\ At(c, "put", "get")
    /\ \/ (~Auth(c) \/ Object(c).oid \notin Oids) /\ Denied(c)
       \/ /\ Auth(c) /\ Object(c).oid \in Oids
          /\ Goto(c, "content") /\ UNCHANGED limits
          /\ snap' = [snap EXCEPT ![c] = IF Found(c) THEN meta[Object(c).oid] ELSE 1]
    /\ UNCHANGED <<stores, access>>

PutHandler(c) ==
    /\ At(c, "put", "get")
    /\ \/ Denied(c)
       \/ /\ Found(c) /\ Goto(c, "content") /\ UNCHANGED limits
          /\ snap' = [snap EXCEPT ![c] = Lookup(Object(c).oid)]
    /\ UNCHANGED <<stores, access>>

\* contentStore.Put compares with the snapshot that PutHandler holds.
Matches(c) == req[c].good /\ snap[c] = TrueSize[Object(c).oid]

Keep(o) == stored' = [stored EXCEPT ![o] = TRUE]

StoreContent(c) ==
    /\ At(c, "put", "content")
    /\ \/ Matches(c) /\ Keep(Object(c).oid) /\ Goto(c, "sent") /\ UNCHANGED snap
       \/ ~Matches(c) /\ Answer(c, 500, << >>) /\ UNCHANGED stored
    /\ UNCHANGED <<meta, late, access, limits>>

\* The body breaks off, or the store fails.
StoreFails(c) ==
    /\ At(c, "put", "content")
    /\ Fault
    /\ Answer(c, 500, << >>)
    /\ UNCHANGED <<stores, access>>

\* A store behind a network sends the content off without an answer; it may
\* arrive long after the request has ended, unless it is lost (external).
Postpone(c) ==
    /\ Lossy
    /\ At(c, "put", "content")
    /\ Matches(c)
    /\ \E kept \in SUBSET late : late' = kept \cup {Object(c).oid}
    /\ UNCHANGED <<meta, stored, access, locals, reply, limits>>

PutDone(c) ==
    /\ At(c, "put", "sent")
    /\ Answer(c, 200, << >>)
    /\ UNCHANGED <<stores, access, limits>>

\* A store behind a network has the content, and fails to say so.
PutLost(c) ==
    /\ Lossy
    /\ At(c, "put", "sent")
    /\ Fault
    /\ Answer(c, 500, << >>)
    /\ UNCHANGED <<stores, access>>

-----------------------------------------------------------------------------
(* PostHandler and BatchHandler                                            *)

\* BatchHandler, for the next object: metaStore.Get.  An authentication
\* error drops what has been put together so far; with any other error the
\* object counts as new.
BatchGet(c) ==
    /\ At(c, "batch", "get") /\ todo[c] # << >>
    /\ LET o == Object(c).oid IN
        \/ /\ Found(c) /\ UNCHANGED limits
           /\ NextObject(c, <<Represent(o, Lookup(o), {"download"})>>)
        \/ ~Auth(c) /\ Answer(c, 401, << >>) /\ UNCHANGED limits
        \/ Auth(c) /\ ~Found(c) /\ Goto(c, "put") /\ UNCHANGED <<snap, limits>>
        \/ Found(c) /\ Fault /\ Goto(c, "put") /\ UNCHANGED snap
    /\ UNCHANGED <<stores, access>>

BatchDone(c) ==
    /\ At(c, "batch", "get") /\ todo[c] = << >>
    /\ Answer(c, 200, done[c])
    /\ UNCHANGED <<stores, access, limits>>

\* An error of Put: PostHandler answers 401 or 404, BatchHandler says
\* nothing of the object.
PutRefused(c, status) ==
    IF handler[c] = "batch" THEN NextObject(c, << >>) ELSE Answer(c, status, << >>)

\* metaStore.Put begins: authenticate.
PutBegin(c) ==
    /\ stage[c] = "put"
    /\ \/ ~Auth(c) /\ PutRefused(c, 401)
       \/ Auth(c) /\ Goto(c, "look") /\ UNCHANGED snap
    /\ UNCHANGED <<stores, access, limits>>

\* Mutant: an existing object is reported with the size of the request.
PutLookupOwnSize(c) ==
    /\ stage[c] = "look"
    /\ LET x == Object(c) IN
        \/ ~Found(c) /\ Goto(c, "write") /\ UNCHANGED <<snap, limits>>
        \/ Found(c) /\ Fault /\ Goto(c, "write") /\ UNCHANGED snap
        \/ /\ Found(c) /\ handler[c] = "batch" /\ UNCHANGED limits
           /\ NextObject(c, <<Represent(x.oid, x.size, {"download", "upload"})>>)
        \/ /\ Found(c) /\ handler[c] = "post"
           /\ Goto(c, "exists") /\ UNCHANGED limits
           /\ snap' = [snap EXCEPT ![c] = x.size]
    /\ UNCHANGED <<stores, access>>

\* metaStore.Put calls Get, which authenticates once more: with any error of
\* it, the object counts as new.
PutLookup(c) ==
    /\ stage[c] = "look"
    /\ LET o == Object(c).oid IN
        \/ ~Found(c) /\ Goto(c, "write") /\ UNCHANGED <<snap, limits>>
        \/ Found(c) /\ Fault /\ Goto(c, "write") /\ UNCHANGED snap
        \/ /\ Found(c) /\ handler[c] = "batch" /\ UNCHANGED limits
           /\ NextObject(c, <<Represent(o, Lookup(o), {"download", "upload"})>>)
        \/ /\ Found(c) /\ handler[c] = "post"
           /\ Goto(c, "exists") /\ UNCHANGED limits
           /\ snap' = [snap EXCEPT ![c] = Lookup(o)]
    /\ UNCHANGED <<stores, access>>

\* The object of the request goes on record with the size of the request.
Record(c) ==
    /\ Object(c).oid # ""
    /\ meta' = [meta EXCEPT ![Object(c).oid] = Object(c).size]

\* Put returns the object as the request had it.  Nothing was there, so there
\* is no content to look for.
PutReturns(c) ==
    LET r == <<Represent(Object(c).oid, Object(c).size, {"upload"})>> IN
        IF handler[c] = "batch" THEN NextObject(c, r) ELSE Answer(c, 202, r)

\* Mutant: the empty key is accepted.
PutWriteEmpty(c) ==
    /\ stage[c] = "write"
    /\ LET x == Object(c) IN
        meta' = [o \in DOMAIN meta \cup {x.oid} |-> IF o = x.oid THEN x.size ELSE meta[o]]
    /\ PutReturns(c)
    /\ UNCHANGED <<contents, access, limits>>

\* metaStore.Put writes what the request says.  It fails on the empty key;
\* the key of the MySQL table keeps what is there.
PutWrite(c) ==
    /\ stage[c] = "write"
    /\ LET o == Object(c).oid IN
        \/ o = "" /\ PutRefused(c, 404) /\ UNCHANGED meta
        \/ o # "" /\ PutReturns(c) /\ (Record(c) \/ (meta[o] # None /\ UNCHANGED meta))
    /\ UNCHANGED <<contents, access, limits>>

\* metaStore.Put fails, before it has recorded the object or after, with an
\* error or with a panic.
PutFails(c) ==
    /\ stage[c] = "write"
    /\ Fault
    /\ Record(c) \/ UNCHANGED meta
    /\ PutRefused(c, 404) \/ Panic(c)
    /\ UNCHANGED <<contents, access>>

\* createOid of MySQL drops the error of its insert, and Put succeeds.
PutUnrecorded(c) ==
    /\ stage[c] = "write" /\ Object(c).oid # ""
    /\ Fault
    /\ PutReturns(c)
    /\ UNCHANGED <<stores, access>>

\* Mutant: an object that exists in the meta store is taken to be uploaded.
PostAnswerTrusting(c) ==
    /\ At(c, "post", "exists")
    /\ Answer(c, 200, <<Represent(Object(c).oid, snap[c], {"download", "upload"})>>)
    /\ UNCHANGED <<stores, access, limits>>

\* Whether contentStore.Exists says so: where it gets no answer, the file
\* system store takes the object to be there, the S3 store takes it not to be.
Exists(c, said) ==
    \/ said = stored[Object(c).oid] /\ UNCHANGED limits
    \/ said = ~Lossy /\ Fault

\* Mutant: the answer for an existing object has no upload link.
PostAnswerNoUpload(c) ==
    /\ At(c, "post", "exists")
    /\ \E said \in BOOLEAN :
        /\ Exists(c, said)
        /\ Answer(c, IF said THEN 200 ELSE 202,
                  <<Represent(Object(c).oid, snap[c], {"download"})>>)
    /\ UNCHANGED <<stores, access>>

\* PostHandler for an existing object: contentStore.Exists decides between
\* 200 and 202.
PostAnswer(c) ==
    /\ At(c, "post", "exists")
    /\ \E said \in BOOLEAN :
        /\ Exists(c, said)
        /\ Answer(c, IF said THEN 200 ELSE 202,
                  <<Represent(Object(c).oid, snap[c], {"download", "upload"})>>)
    /\ UNCHANGED <<stores, access>>

-----------------------------------------------------------------------------
(* What the handlers do not control                                        *)

\* A user is added or deleted, the directory fails or comes back.
Lapse(c) ==
    /\ c \notin Strangers
    /\ lapses < MaxLapses
    /\ lapses' = lapses + 1
    /\ access' = [access EXCEPT ![c] = ~@]
    /\ UNCHANGED <<stores, locals, reply, aborts, crashes>>

\* A late write of o arrives, or is lost; there may be another one (external).
Land(o) ==
    /\ o \in late
    /\ late' \in {late, late \ {o}}
    /\ Keep(o) \/ UNCHANGED stored
    /\ UNCHANGED <<meta, access, locals, reply, limits>>

\* A restart: requests in progress are lost, the stores stay.
Crash ==
    /\ crashes < MaxCrashes
    /\ crashes' = crashes + 1
    /\ handler' = [c \in Clients |-> "none"]
    /\ stage'   = [c \in Clients |-> "idle"]
    /\ req'     = [c \in Clients |-> NoRequest]
    /\ todo'    = [c \in Clients |-> << >>]
    /\ snap'    = [c \in Clients |-> 0]
    /\ done'    = [c \in Clients |-> << >>]
    /\ UNCHANGED <<stores, access, reply, aborts, lapses>>

HandlerStep(c) ==
    \/ GetContentHandler(c) \/ SendContent(c)
    \/ GetSearchHandler(c) \/ GetMetaHandler(c)
    \/ PutHandler(c) \/ StoreContent(c) \/ StoreFails(c) \/ PutDone(c) \/ PutLost(c)
    \/ BatchGet(c) \/ BatchDone(c)
    \/ PutBegin(c) \/ PutLookup(c) \/ PutWrite(c) \/ PutFails(c) \/ PutUnrecorded(c)
    \/ PostAnswer(c)

Request(c) == NotRouted(c) \/ \E x \in Messages : Arrive(c, x)

-----------------------------------------------------------------------------
(* Calm steps: of the Puts of one object that found nothing, one writes    *)
(* before the next one looks; no Put overlooks an object on record, because *)
(* access lapsed after its first authentication or because the read failed; *)
(* and no Put returns an object that it has failed to record.              *)

Writing(c, o) == stage[c] = "write" /\ Object(c).oid = o

Overlooks(c) == stage[c] = "look" /\ stage'[c] = "write" /\ Lookup(Object(c).oid) # None

Calm ==
    /\ \A o \in Oids, c, d \in Clients : Writing(c, o)' /\ Writing(d, o)' => c = d
    /\ \A c \in Clients : ~Overlooks(c) /\ ~PutUnrecorded(c)

Step ==
    \/ \E c \in Clients : Request(c) \/ HandlerStep(c) \/ Postpone(c) \/ Lapse(c)
    \/ \E o \in Oids : Land(o)
    \/ Crash

Next == Step /\ calm' = (calm /\ Calm)

Spec == Init /\ [][Next]_vars

-----------------------------------------------------------------------------
(* A git-lfs client (external): it announces objects of the right size, by *)
(* POST or by batch, and then does what the links of the answer tell it.   *)

Announced(o) == <<[oid |-> o, size |-> TrueSize[o]]>>

Offers(c, o, l) ==
    \E k \in DOMAIN reply[c].objects :
        reply[c].objects[k].oid = o /\ l \in reply[c].objects[k].links

\* 200 from PostHandler means that there is nothing to upload; the status of
\* BatchHandler is always 200.
MayUpload(c, o) == Offers(c, o, "upload") /\ (Api = "batch" \/ reply[c].status = 202)

Announce(c, o) ==
    /\ reply[c].objects = << >>
    /\ Arrive(c, [to |-> Route("POST", IF Api = "post" THEN "objects" ELSE "batch", "meta"),
                  method |-> "POST", objects |-> Announced(o),
                  signed |-> TRUE, good |-> FALSE])

\* The request with method m for the content of o.
ForContent(m, o) ==
    [to |-> Route(m, "object", "content"), method |-> m,
     objects |-> <<[oid |-> o, size |-> 0]>>, signed |-> TRUE, good |-> m = "PUT"]

Upload(c, o)   == MayUpload(c, o) /\ Arrive(c, ForContent("PUT", o))
Download(c, o) == Offers(c, o, "download") /\ ~MayUpload(c, o) /\ Arrive(c, ForContent("GET", o))

ClientStep(c) == \E o \in Oids : Announce(c, o) \/ Upload(c, o) \/ Download(c, o)

\* Strangers send what they like.
ClientNext ==
    /\ \/ \E c \in Clients \ Strangers : ClientStep(c)
       \/ \E c \in Strangers : Request(c)
       \/ \E c \in Clients : HandlerStep(c) \/ Postpone(c)
       \/ \E o \in Oids : Land(o)
       \/ Crash
    /\ UNCHANGED calm

\* Handlers run to their end and clients do not give up.
FairSpec ==
    /\ Init /\ [][ClientNext]_vars
    /\ \A c \in Clients : WF_vars(HandlerStep(c) /\ UNCHANGED calm)
    /\ \A c \in Clients \ Strangers : WF_vars(ClientStep(c) /\ UNCHANGED calm)

-----------------------------------------------------------------------------
(* Properties                                                              *)

Handlers == {"none", "batch", "content", "meta", "search", "put", "post"}

\* Type correctness of the stores, the handlers and what clients have been told.
TypeOK ==
    /\ meta    \in [Oids -> Sizes \cup {0, None}]
    /\ stored  \in [Oids -> BOOLEAN]
    /\ late    \subseteq Oids
    /\ access  \in [Clients -> BOOLEAN]
    /\ handler \in [Clients -> Handlers]
    /\ stage   \in [Clients -> {"idle", "get", "put", "look", "write", "exists", "content", "sent"}]
    /\ req     \in [Clients -> [method : Methods \cup {"none"}, signed : BOOLEAN, good : BOOLEAN]]
    /\ todo    \in [Clients -> Seq(Objects)]
    /\ snap    \in [Clients -> Sizes \cup {0}]
    /\ done    \in [Clients -> Seq(Representations)]
    /\ reply   \in [Clients -> [to : Handlers, oid : Oids \cup {""},
                                status : {0, 200, 202, 401, 404, 500},
                                objects : Seq(Representations)]]
    /\ aborts \in 0 .. MaxAborts
    /\ lapses \in 0 .. MaxLapses
    /\ crashes \in 0 .. MaxCrashes
    /\ calm \in BOOLEAN

\* Content is stored only for objects that have been announced: no upload
\* gets past PutHandler before the metadata are on record, and a write that
\* arrives late finds them there.
ContentAnnounced == \A o \in Oids : stored[o] => meta[o] # None

\* The client has been told that the content is stored: by 200 to a PUT or to
\* a POST (which says 202 otherwise).  A local store that could not look makes
\* it 200 as well, which claims nothing.
Claimed(c) ==
    /\ reply[c].status = 200
    /\ reply[c].to = "put" \/ (reply[c].to = "post" /\ (Lossy \/ aborts = 0))

\* Content that is claimed to be stored, or that has been sent for a download,
\* is in the store.
SuccessStored ==
    \A c \in Clients :
        Claimed(c) \/ (reply[c].status = 200 /\ reply[c].to = "content")
            => stored[reply[c].oid]

\* A client whose credentials are never valid is given no object, and its
\* requests do not reach the writing half of any handler.
StrangerBlind ==
    \A c \in Strangers : ~Public =>
        /\ reply[c].objects = << >>
        /\ stage[c] \notin {"look", "write", "exists", "content", "sent"}

\* As long as all steps are calm, a client is told the size that is on record,
\* in every answer and for every object of a batch, and it stays on record.
SizesCurrent ==
    calm => \A c \in Clients : \A k \in DOMAIN reply[c].objects :
        LET x == reply[c].objects[k] IN meta[x.oid] = x.size

\* As long as all steps are calm, the recorded size of an object whose content
\* is stored is its real size.
SizesReal == calm => \A o \in Oids : stored[o] => meta[o] = TrueSize[o]

\* The ids that a batch has answered, and those that it has still to look at.
Line(c) ==
    [k \in 1 .. Len(done[c]) + Len(todo[c]) |->
        IF k <= Len(done[c]) THEN done[c][k].oid ELSE todo[c][k - Len(done[c])].oid]

\* The same without the object that the batch looks at.
Rest(c) ==
    [k \in 1 .. Len(done[c]) + Len(todo[c]) - 1 |->
        IF k <= Len(done[c]) THEN done[c][k].oid ELSE todo[c][k - Len(done[c]) + 1].oid]

\* Put of the object that the batch looks at does not succeed: it has no id,
\* the client has lost its access since the batch last asked, or Put fails.
Droppable(c) ==
    \/ stage[c] = "put" /\ ~Auth(c)
    \/ stage[c] = "write" /\ (Object(c).oid = "" \/ aborts' # aborts)

\* Whatever other requests write in between, a batch carries on with all of
\* its objects in their order, answers them all, or leaves out none but the
\* one whose Put has just not succeeded.  It ends otherwise only with a 401
\* for a client without access, a panic of Put, or the process.
NoneDropped ==
    [][\A c \in Clients : handler[c] = "batch" =>
         \/ handler'[c] = "batch" /\ (Line(c)' = Line(c) \/ (Droppable(c) /\ Line(c)' = Rest(c)))
         \/ /\ handler'[c] = "none" /\ reply'[c].status = 200
            /\ Line(c) = [k \in DOMAIN reply'[c].objects |-> reply'[c].objects[k].oid]
         \/ ~Auth(c) /\ handler'[c] = "none" /\ reply'[c].status = 401
         \/ Droppable(c) /\ handler'[c] = "none" /\ aborts' # aborts
         \/ crashes' # crashes]_vars

\* If clients announce, upload and try again after a failure, the object is
\* stored in the end.
EventuallyUploaded == \A o \in Oids : <>stored[o]

-----------------------------------------------------------------------------
(* Refinement: in calm behaviours clients see an LfsService.               *)

LS == INSTANCE LfsService WITH record <- meta, faults <- aborts

\* As long as all steps are calm, sizes are recorded once, content is stored
\* only where its size is the one on record, so that a wrong size keeps it out
\* for good, and every answer is true of both when it is given, unless it is
\* one of the stores that has just failed.
Refines == LS!Init /\ [][calm' => [LS!Next]_(LS!vars)]_vars

=============================================================================
